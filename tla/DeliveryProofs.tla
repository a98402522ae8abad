--------------------------- MODULE DeliveryProofs ---------------------------
(***************************************************************************)
(* Proofs about the acceptance and the hand-off of deliveries, for any     *)
(* number of requests, processes and playbooks, any window and any way the *)
(* clock is set: that a chain of retries decides each playbook once, that  *)
(* what reads handed off is decided, that a delivery is recorded once a    *)
(* window, and that a dropped one is retried once.                         *)
(***************************************************************************)
EXTENDS Delivery, FiniteSetTheorems, TLAPS

IdentityRow == [delivery : Requests \cup {None}, at : Instants \cup {0}]
Taken == [playbook : Playbooks \cup {None}, state : HandOffStates]
Places == {"idle", "accepting", "deciding", "recorded", "failed", "turned", "ended"}
DeliveryStates == {"none", "accepted", "waiting", "handed_off", "dropped", "unbound"}

(* The types of what the other parts read. *)
TypeInv ==
    /\ now \in Instants
    /\ at \in [Requests -> Instants \cup {0}]
    /\ process \in [Requests -> Processes \cup {None}]
    /\ alive \subseteq Processes
    /\ pc \in [Requests -> Places]
    /\ writer \in Requests \cup {None}
    /\ identity \in IdentityRow
    /\ seen \in [Requests -> IdentityRow]
    /\ state \in [Requests -> DeliveryStates]
    /\ supersedes \in [Requests -> Requests \cup {None}]
    /\ handoff \in [Requests -> [Playbooks -> HandOffStates]]
    /\ task \in [Requests -> {"none", "reading", "next", "writing", "ended"}]
    /\ pending \in [Requests -> SUBSET Playbooks]
    /\ deciding \in [Requests -> Taken]

(* The acceptance that decides has the write lock, so that the identity it read
   is still the identity. *)
LockPart ==
    \A r \in Requests : pc[r] = "deciding" /\ Lives(r) => writer = r /\ seen[r] = identity

(* A request has no row before it is recorded, and what has no row has nothing. *)
RowPart ==
    /\ identity.delivery # None => state[identity.delivery] # "none"
    /\ \A r \in Requests :
         /\ pc[r] # "recorded" => state[r] = "none"
         /\ state[r] = "none" =>
              /\ task[r] = "none" /\ supersedes[r] = None
              /\ \A b \in Playbooks : handoff[r][b] = "none"

(* A hand-off is dropped with its delivery, and only for a process that is gone. *)
DroppedPart ==
    \A d \in Requests : \A b \in Playbooks :
        handoff[d][b] = "dropped" => state[d] = "dropped" /\ ~Lives(d)

(* No hand-off is going on of a delivery that reads handed off. *)
EndedPart ==
    \A d \in Requests : state[d] = "handed_off" => task[d] = "ended" \/ ~Lives(d)

(* A durable record is behind every hand-off that reads decided. *)
RecordPart ==
    \A d \in Requests : \A b \in Playbooks :
        /\ handoff[d][b] = "handed_off" => <<d, b>> \in runs
        /\ handoff[d][b] = "refused" => <<d, b>> \in refusals

(* And behind the one that is about to. *)
DecidingPart ==
    \A d \in Requests : task[d] = "writing" =>
        /\ deciding[d].playbook \in Playbooks
        /\ deciding[d].state \in {"waiting", "handed_off", "refused"}
        /\ deciding[d].state = "handed_off" => <<d, deciding[d].playbook>> \in runs
        /\ deciding[d].state = "refused" => <<d, deciding[d].playbook>> \in refusals

(* What is retried has a row. *)
SupersededPart ==
    \A d \in Requests : supersedes[d] # None => state[supersedes[d]] # "none"

(* A6: one delivery at most retries a dropped one, whose identity is then its. *)
RetriedOnce ==
    \A d, e \in Requests : supersedes[d] # None =>
        /\ supersedes[d] # identity.delivery
        /\ supersedes[d] = supersedes[e] => d = e

Inv ==
    /\ TypeInv /\ LockPart /\ RowPart /\ DroppedPart /\ EndedPart
    /\ RecordPart /\ DecidingPart /\ HandedOffIsDecided /\ SupersededPart
    /\ RetriedOnce

(* A playbook that a hand-off has still to decide, has at hand, or waits for. *)
AtWork(d, b) ==
    \/ b \in pending[d]
    \/ task[d] = "writing" /\ deciding[d].playbook = b
    \/ <<d, b>> \in waits

(* What is at work or decided has a hand-off. *)
HandedPart ==
    \A d \in Requests : \A b \in Playbooks :
        Decided(d, b) \/ AtWork(d, b) => handoff[d][b] # "none"

(* A delivery that was dropped is of a process that is gone, and its hand-offs
   say what was decided. *)
SettledPart ==
    \A d \in Requests : state[d] = "dropped" =>
        /\ ~Lives(d)
        /\ \A b \in Playbooks : Decided(d, b) => handoff[d][b] \in {"handed_off", "refused"}

(* Only what was dropped is retried. *)
RetriedPart ==
    \A d \in Requests : supersedes[d] # None => state[supersedes[d]] = "dropped"

(* A retry has no hand-off of what one before it decided. *)
ApartPart ==
    \A d \in Requests : supersedes[d] # None =>
        \A b \in Playbooks : handoff[d][b] # "none" =>
            \A e \in Chain(supersedes[d]) : ~Decided(e, b)

(* DecidedOnce, of any two deliveries of a chain. *)
OncePart ==
    \A d \in Requests : \A b \in Playbooks : \A e, f \in Chain(d) :
        Decided(e, b) /\ Decided(f, b) => e = f

ChainInv == HandedPart /\ SettledPart /\ RetriedPart /\ ApartPart /\ OncePart

-----------------------------------------------------------------------------
(* An acceptance that decides sees the identity as it is, and a delivery that is
   not its own. *)
LEMMA Sees ==
    ASSUME Inv, NEW r \in Requests, pc[r] = "deciding", Lives(r)
    PROVE  /\ writer = r /\ seen[r] = identity
           /\ state[r] = "none" /\ identity.delivery # r
           /\ identity.delivery \in Requests \cup {None} /\ identity.at \in Instants \cup {0}
           /\ identity.delivery # None =>
                /\ identity.delivery \in Requests
                /\ state[identity.delivery] # "none"
           /\ PastWindow(r) <=> identity.delivery = None \/ at[r] - identity.at >= Window
           /\ ~PastWindow(r) => identity.delivery \in Requests
<1>1. writer = r /\ seen[r] = identity
  BY DEF Inv, LockPart
<1>2. state[r] = "none"
  BY DEF Inv, RowPart
<1>3. identity \in IdentityRow
  BY DEF Inv, TypeInv
<1>4. identity.delivery # None => state[identity.delivery] # "none"
  BY DEF Inv, RowPart
<1>5. identity.delivery # r
  BY <1>2, <1>4, DeliveryAssumption DEF DeliveryAssumption
<1>6. PastWindow(r) <=> identity.delivery = None \/ at[r] - identity.at >= Window
  BY <1>1 DEF PastWindow
<1> QED BY <1>1, <1>2, <1>3, <1>4, <1>5, <1>6 DEF IdentityRow

(* What the durable records say of a hand-off is what a decided row needs. *)
LEMMA DecisionIsRecorded ==
    ASSUME NEW d, NEW b
    PROVE  /\ Decision(d, b) \in {"handed_off", "refused", "dropped"}
           /\ Decision(d, b) = "handed_off" => <<d, b>> \in runs
           /\ Decision(d, b) = "refused" => <<d, b>> \in refusals
           /\ Decision(d, b) # "dropped" => Decided(d, b)
  BY DEF Decision, Decided

(* reconcileDelivery touches the undecided hand-offs of the one delivery, and it
   reads dropped when one of them is. *)
LEMMA Settles ==
    ASSUME Inv, NEW r \in Requests, pc[r] = "deciding", Lives(r)
    PROVE  LET e == identity.delivery
               after == HandOffAfter(r)
           IN  /\ after \in [Requests -> [Playbooks -> HandOffStates]]
               /\ \A d \in Requests : \A b \in Playbooks :
                    \/ after[d][b] = handoff[d][b]
                    \/ /\ d = e /\ Reconciles(r)
                       /\ handoff[d][b] \in {"pending", "waiting"}
                       /\ after[d][b] = Decision(d, b)
               /\ Reconciles(r) =>
                    /\ e \in Requests /\ ~Lives(e) /\ ~PastWindow(r)
                    /\ state[e] \in {"accepted", "waiting"}
                    /\ StateAfter(r) \in {"dropped", "handed_off"}
                    /\ \A b \in Playbooks :
                         /\ after[e][b] \notin {"pending", "waiting"}
                         /\ after[e][b] = "dropped" => StateAfter(r) = "dropped"
               /\ ~Reconciles(r) => after = handoff /\ StateAfter(r) = state[e]
<1> DEFINE e == identity.delivery
           after == HandOffAfter(r)
<1>1. seen[r] = identity /\ (~PastWindow(r) => e \in Requests)
  BY Sees
<1>2. handoff \in [Requests -> [Playbooks -> HandOffStates]]
  BY DEF Inv, TypeInv
<1>3. CASE ~Reconciles(r)
  BY <1>1, <1>2, <1>3 DEF HandOffAfter, StateAfter
<1>4. CASE Reconciles(r)
  <2>1. /\ e \in Requests /\ ~Lives(e) /\ ~PastWindow(r)
        /\ state[e] \in {"accepted", "waiting"}
    BY <1>1, <1>4 DEF Reconciles
  <2>2. after = [handoff EXCEPT ![e] = Settled(e)]
    BY <1>1, <1>4 DEF HandOffAfter
  <2>3. \A b \in Playbooks :
          IF handoff[e][b] \in {"pending", "waiting"}
          THEN Settled(e)[b] = Decision(e, b)
          ELSE Settled(e)[b] = handoff[e][b]
    BY DEF Settled
  <2>4. Settled(e) \in [Playbooks -> HandOffStates]
    BY <1>2, <2>1, DecisionIsRecorded DEF Settled, HandOffStates
  <2>5. after \in [Requests -> [Playbooks -> HandOffStates]]
    BY <1>2, <2>2, <2>4
  <2>6. \A d \in Requests : after[d] = IF d = e THEN Settled(e) ELSE handoff[d]
    BY <1>2, <2>2
  <2>7. StateAfter(r) = SettledState(e)
    BY <1>1, <1>4 DEF StateAfter
  <2>8. ASSUME NEW b \in Playbooks
        PROVE  /\ after[e][b] \notin {"pending", "waiting"}
               /\ after[e][b] = "dropped" => StateAfter(r) = "dropped"
    <3>1. handoff[e][b] # "dropped"
      BY <2>1 DEF Inv, DroppedPart
    <3>2. Decision(e, b) \in {"handed_off", "refused", "dropped"}
      BY DecisionIsRecorded
    <3>3. after[e][b] = Settled(e)[b]
      BY <2>1, <2>6
    <3>4. after[e][b] \notin {"pending", "waiting"}
      BY <2>3, <3>2, <3>3
    <3>5. ASSUME Settled(e)[b] = "dropped" PROVE SettledState(e) = "dropped"
      BY <2>3, <3>1, <3>5 DEF SettledState
    <3> HIDE DEF after, e
    <3> QED BY <2>7, <3>3, <3>4, <3>5
  <2>9. StateAfter(r) \in {"dropped", "handed_off"}
    BY <2>7 DEF SettledState
  <2> HIDE DEF after, e
  <2> QED BY <1>4, <2>1, <2>3, <2>5, <2>6, <2>8, <2>9 DEF after, e
<1> QED BY <1>3, <1>4

(* A delivery is recorded: the rows, one by one. *)
LEMMA AcceptNewDoes ==
    ASSUME Inv, NEW r \in Requests, AcceptNew(r)
    PROVE  LET e == identity.delivery IN
           /\ state[r] = "none" /\ e # r /\ writer = r /\ writer' = None
           /\ state' \in [Requests -> DeliveryStates] /\ state'[r] = "accepted"
           /\ \A d \in Requests \ {r} :
                \/ state'[d] = state[d] /\ (d = e => ~Reconciles(r))
                \/ d = e /\ state[d] # "none" /\ state'[d] = "dropped"
           /\ handoff' \in [Requests -> [Playbooks -> HandOffStates]]
           /\ \A b \in Playbooks : handoff'[r][b] \in {"none", "pending"}
           /\ \A d \in Requests \ {r} : \A b \in Playbooks :
                \/ handoff'[d][b] = handoff[d][b]
                \/ /\ d = e /\ Reconciles(r) /\ ~Lives(e) /\ state'[e] = "dropped"
                   /\ state[d] # "none"
                   /\ handoff'[d][b] = Decision(d, b)
           /\ \/ PastWindow(r) /\ supersedes' = [supersedes EXCEPT ![r] = None]
              \/ /\ ~PastWindow(r) /\ e \in Requests /\ state'[e] = "dropped"
                 /\ supersedes' = [supersedes EXCEPT ![r] = e]
           /\ identity' = [delivery |-> r, at |-> at[r]] /\ UNCHANGED <<alive, process, at>>
           /\ seen' = [seen EXCEPT ![r] = Absent] /\ pc' = [pc EXCEPT ![r] = "recorded"]
           /\ task' = [task EXCEPT ![r] = "reading"]
           /\ UNCHANGED <<clock, runs, refusals, pending, deciding>>
<1> DEFINE e == identity.delivery
           after == HandOffAfter(r)
<1> pc[r] = "deciding" /\ Lives(r)
  BY DEF AcceptNew
<1>1. /\ seen[r] = identity /\ state[r] = "none" /\ e # r /\ writer = r
      /\ e # None => e \in Requests /\ state[e] # "none"
      /\ ~PastWindow(r) => e \in Requests
  BY Sees
<1>2. /\ state \in [Requests -> DeliveryStates]
      /\ e \in Requests \cup {None}
  BY DEF Inv, TypeInv, IdentityRow
<1>3. /\ after \in [Requests -> [Playbooks -> HandOffStates]]
      /\ \A d \in Requests : \A b \in Playbooks :
           \/ after[d][b] = handoff[d][b]
           \/ /\ d = e /\ Reconciles(r)
              /\ handoff[d][b] \in {"pending", "waiting"}
              /\ after[d][b] = Decision(d, b)
      /\ Reconciles(r) => e \in Requests /\ ~Lives(e) /\ ~PastWindow(r)
  BY Settles
<1>4. Retries(r) <=> ~PastWindow(r)
  BY DEF AcceptNew, Retries
<1>5. Retries(r) => StateAfter(r) = "dropped"
  BY DEF Retries
<1>6. /\ state' = [d \in Requests |-> CASE d = r -> "accepted"
                                       [] Retries(r) /\ d = e -> StateAfter(r)
                                       [] OTHER -> state[d]]
      /\ handoff' = [after EXCEPT ![r] =
                       [b \in Playbooks |-> IF b \in HandedTo(r) THEN "pending" ELSE "none"]]
      /\ supersedes' = [supersedes EXCEPT ![r] = IF Retries(r) THEN e ELSE None]
  BY <1>1 DEF AcceptNew
<1>7. /\ state' \in [Requests -> DeliveryStates] /\ state'[r] = "accepted"
      /\ \A d \in Requests \ {r} :
           IF Retries(r) /\ d = e THEN state'[d] = "dropped" ELSE state'[d] = state[d]
  <2> DEFINE new(d) == CASE d = r -> "accepted"
                         [] Retries(r) /\ d = e -> StateAfter(r)
                         [] OTHER -> state[d]
  <2>1. \A d \in Requests :
          /\ d = r => new(d) = "accepted"
          /\ d # r => new(d) = IF Retries(r) /\ d = e THEN "dropped" ELSE state[d]
    <3> HIDE DEF e
    <3> TAKE d \in Requests
    <3>1. CASE d = r
      BY <1>1, <3>1
    <3>2. CASE d # r /\ Retries(r) /\ d = e
      BY <1>5, <3>2
    <3>3. CASE d # r /\ ~(Retries(r) /\ d = e)
      BY <3>3
    <3> QED BY <3>1, <3>2, <3>3
  <2>2. state' = [d \in Requests |-> new(d)]
    BY <1>6
  <2> HIDE DEF new, e
  <2> QED BY <1>2, <2>1, <2>2 DEF DeliveryStates
<1>8. /\ handoff' \in [Requests -> [Playbooks -> HandOffStates]]
      /\ \A b \in Playbooks : handoff'[r][b] \in {"none", "pending"}
      /\ \A d \in Requests \ {r} : handoff'[d] = after[d]
  <2> HIDE DEF after
  <2>1. [b \in Playbooks |-> IF b \in HandedTo(r) THEN "pending" ELSE "none"]
          \in [Playbooks -> {"none", "pending"}]
    OBVIOUS
  <2> QED BY <1>3, <1>6, <2>1 DEF HandOffStates
<1>9. /\ identity' = [delivery |-> r, at |-> at[r]] /\ UNCHANGED <<alive, process, at>>
      /\ seen' = [seen EXCEPT ![r] = Absent] /\ pc' = [pc EXCEPT ![r] = "recorded"]
      /\ task' = [task EXCEPT ![r] = "reading"] /\ writer' = None
      /\ UNCHANGED <<clock, runs, refusals, pending, deciding>>
  BY DEF AcceptNew
<1> HIDE DEF after, e
<1>10. \A d \in Requests \ {r} :
          \/ state'[d] = state[d] /\ (d = e => ~Reconciles(r))
          \/ d = e /\ state[d] # "none" /\ state'[d] = "dropped"
  <2>1. Reconciles(r) => Retries(r)
    BY <1>3, <1>4
  <2>2. Retries(r) => state[e] # "none"
    BY <1>1, <1>4, DeliveryAssumption DEF DeliveryAssumption
  <2> QED BY <1>7, <2>1, <2>2
<1>11. \A d \in Requests \ {r} : \A b \in Playbooks :
          \/ handoff'[d][b] = handoff[d][b]
          \/ /\ d = e /\ Reconciles(r) /\ ~Lives(e) /\ state'[e] = "dropped"
             /\ state[d] # "none"
             /\ handoff'[d][b] = Decision(d, b)
  BY <1>1, <1>3, <1>4, <1>7, <1>8, <1>10 DEF e
<1>12. \/ PastWindow(r) /\ supersedes' = [supersedes EXCEPT ![r] = None]
       \/ /\ ~PastWindow(r) /\ e \in Requests /\ state'[e] = "dropped"
          /\ supersedes' = [supersedes EXCEPT ![r] = e]
  BY <1>1, <1>4, <1>6, <1>7 DEF e
<1> QED BY <1>1, <1>7, <1>8, <1>9, <1>10, <1>11, <1>12 DEF e

(* A repeat: the rows, one by one. *)
LEMMA AcceptRepeatDoes ==
    ASSUME Inv, NEW r \in Requests, AcceptRepeat(r)
    PROVE  LET e == identity.delivery IN
           /\ e \in Requests /\ state[e] # "none" /\ writer = r /\ writer' = None
           /\ state' \in [Requests -> DeliveryStates]
           /\ \A d \in Requests \ {e} : state'[d] = state[d]
           /\ handoff' \in [Requests -> [Playbooks -> HandOffStates]]
           /\ \A d \in Requests \ {e} : handoff'[d] = handoff[d]
           /\ \/ state'[e] = state[e] /\ handoff'[e] = handoff[e]
              \/ /\ state'[e] = "handed_off" /\ ~Lives(e)
                 /\ \A b \in Playbooks :
                      /\ handoff'[e][b] \notin {"pending", "waiting", "dropped"}
                      /\ \/ handoff'[e][b] = handoff[e][b]
                         \/ handoff'[e][b] = Decision(e, b) /\ Decision(e, b) # "dropped"
           /\ seen' = [seen EXCEPT ![r] = Absent] /\ pc' = [pc EXCEPT ![r] = "recorded"]
           /\ UNCHANGED <<clock, alive, at, process, identity, supersedes, runs, refusals,
                          handing>>
<1> DEFINE e == identity.delivery
           after == HandOffAfter(r)
<1> pc[r] = "deciding" /\ Lives(r) /\ ~PastWindow(r)
  BY DEF AcceptRepeat
<1>1. seen[r] = identity /\ writer = r /\ e \in Requests /\ state[e] # "none"
  <2>1. seen[r] = identity /\ writer = r /\ e \in Requests
    BY Sees
  <2>2. identity.delivery # None
    BY <2>1, DeliveryAssumption DEF DeliveryAssumption
  <2> QED BY <2>1, <2>2, Sees
<1>2. state \in [Requests -> DeliveryStates]
  BY DEF Inv, TypeInv
<1>3. /\ after \in [Requests -> [Playbooks -> HandOffStates]]
      /\ \A d \in Requests : \A b \in Playbooks :
           \/ after[d][b] = handoff[d][b]
           \/ /\ d = e /\ Reconciles(r)
              /\ handoff[d][b] \in {"pending", "waiting"}
              /\ after[d][b] = Decision(d, b)
      /\ Reconciles(r) =>
           /\ ~Lives(e) /\ StateAfter(r) \in {"dropped", "handed_off"}
           /\ \A b \in Playbooks :
                /\ after[e][b] \notin {"pending", "waiting"}
                /\ after[e][b] = "dropped" => StateAfter(r) = "dropped"
      /\ ~Reconciles(r) => after = handoff /\ StateAfter(r) = state[e]
  BY Settles
<1>4. StateAfter(r) # "dropped"
  BY DEF AcceptRepeat, Retries
<1>5. /\ state' = [state EXCEPT ![e] = StateAfter(r)] /\ handoff' = after
      /\ seen' = [seen EXCEPT ![r] = Absent] /\ pc' = [pc EXCEPT ![r] = "recorded"]
      /\ writer' = None
      /\ UNCHANGED <<clock, alive, at, process, identity, supersedes, runs, refusals, handing>>
  BY <1>1 DEF AcceptRepeat
<1>6. \A d \in Requests \ {e} : handoff'[d] = handoff[d]
  <2>1. handoff' = handoff \/ handoff' = [handoff EXCEPT ![e] = Settled(e)]
    BY <1>1, <1>5 DEF HandOffAfter
  <2>2. handoff \in [Requests -> [Playbooks -> HandOffStates]]
    BY DEF Inv, TypeInv
  <2> HIDE DEF e
  <2> QED BY <2>1, <2>2
<1> HIDE DEF after, e
<1>7. \/ state'[e] = state[e] /\ handoff'[e] = handoff[e]
      \/ /\ state'[e] = "handed_off" /\ ~Lives(e)
         /\ \A b \in Playbooks :
              /\ handoff'[e][b] \notin {"pending", "waiting", "dropped"}
              /\ \/ handoff'[e][b] = handoff[e][b]
                 \/ handoff'[e][b] = Decision(e, b) /\ Decision(e, b) # "dropped"
  BY <1>1, <1>2, <1>3, <1>4, <1>5
<1>8. state' \in [Requests -> DeliveryStates] /\ \A d \in Requests \ {e} : state'[d] = state[d]
  BY <1>1, <1>2, <1>3, <1>4, <1>5 DEF DeliveryStates
<1> QED BY <1>1, <1>3, <1>5, <1>6, <1>7, <1>8 DEF e

-----------------------------------------------------------------------------
(***************************************************************************)
(* Every action keeps the invariant.                                       *)
(***************************************************************************)

(* A request is received. *)
LEMMA ReceiveKeeps ==
    ASSUME Inv, NEW r \in Requests, Receive(r)
    PROVE  Inv'
<1>1. TypeInv'
  BY DeliveryAssumption DEF Receive, Inv, TypeInv, clock, lock, rows, decision,
     handing, Places, IdentityRow, Absent, Taken, Nothing, HandOffStates,
     DeliveryStates, DeliveryAssumption
<1>2. LockPart'
  BY DEF Receive, Inv, TypeInv, LockPart, Lives, clock, lock, rows, decision, handing
<1>3. RowPart'
  BY DEF Receive, Inv, TypeInv, RowPart, clock, lock, rows, decision, handing
<1>4. DroppedPart'
  BY SMTT(30) DEF Receive, Inv, TypeInv, DroppedPart, Lives, clock, lock, rows, decision,
     handing, RowPart
<1>5. EndedPart'
  BY SMTT(30) DEF Receive, Inv, TypeInv, EndedPart, Lives, clock, lock, rows, decision,
     handing, RowPart
<1>6. /\ RecordPart' /\ DecidingPart' /\ HandedOffIsDecided' /\ SupersededPart'
      /\ RetriedOnce'
  BY DEF Receive, Inv, RecordPart, DecidingPart, HandedOffIsDecided, Rows, Decided,
     SupersededPart, RetriedOnce, clock, lock, rows, decision, handing
<1> QED BY <1>1, <1>2, <1>3, <1>4, <1>5, <1>6 DEF Inv

(* It is turned away. *)
LEMMA TurnAwayKeeps ==
    ASSUME Inv, NEW r \in Requests, TurnAway(r)
    PROVE  Inv'
<1>1. TypeInv'
  BY DeliveryAssumption DEF TurnAway, Inv, TypeInv, clock, lock, rows, decision,
     handing, Places, IdentityRow, Absent, Taken, Nothing, HandOffStates,
     DeliveryStates, DeliveryAssumption
<1>2. LockPart'
  BY DEF TurnAway, Inv, TypeInv, LockPart, Lives, clock, lock, rows, decision, handing
<1>3. RowPart'
  BY DEF TurnAway, Inv, TypeInv, RowPart, clock, lock, rows, decision, handing
<1>4. /\ DroppedPart' /\ EndedPart' /\ RecordPart' /\ DecidingPart'
      /\ HandedOffIsDecided' /\ SupersededPart' /\ RetriedOnce'
  BY DEF TurnAway, Inv, DroppedPart, Lives, EndedPart, RecordPart, DecidingPart,
     HandedOffIsDecided, Rows, Decided, SupersededPart, RetriedOnce, clock, lock,
     rows, decision, handing
<1> QED BY <1>1, <1>2, <1>3, <1>4 DEF Inv

(* It has no single identity. *)
LEMMA RefuseIdentityKeeps ==
    ASSUME Inv, NEW r \in Requests, RefuseIdentity(r)
    PROVE  Inv'
<1>1. TypeInv'
  BY DeliveryAssumption DEF RefuseIdentity, Inv, TypeInv, clock, lock, rows, decision,
     handing, Places, IdentityRow, Absent, Taken, Nothing, HandOffStates,
     DeliveryStates, DeliveryAssumption
<1>2. LockPart'
  BY DEF RefuseIdentity, Inv, TypeInv, LockPart, Lives, clock, lock, rows, decision,
     handing
<1>3. RowPart'
  BY DEF RefuseIdentity, Inv, TypeInv, RowPart, clock, lock, rows, decision, handing
<1>4. /\ DroppedPart' /\ EndedPart' /\ RecordPart' /\ DecidingPart'
      /\ HandedOffIsDecided' /\ SupersededPart' /\ RetriedOnce'
  BY DEF RefuseIdentity, Inv, DroppedPart, Lives, EndedPart, RecordPart, DecidingPart,
     HandedOffIsDecided, Rows, Decided, SupersededPart, RetriedOnce, clock, lock,
     rows, decision, handing
<1> QED BY <1>1, <1>2, <1>3, <1>4 DEF Inv

(* It is answered. *)
LEMMA AnswerKeeps ==
    ASSUME Inv, NEW r \in Requests, Answer(r)
    PROVE  Inv'
<1>1. /\ TypeInv' /\ LockPart' /\ RowPart' /\ DroppedPart'
      /\ EndedPart' /\ RecordPart' /\ DecidingPart' /\ HandedOffIsDecided' /\ SupersededPart' /\ RetriedOnce'
  BY DEF Answer, Inv, TypeInv, LockPart, Lives, RowPart, DroppedPart, EndedPart,
     RecordPart, DecidingPart, HandedOffIsDecided, Rows, Decided, SupersededPart,
     RetriedOnce, clock, lock, rows, decision, handing
<1> QED BY <1>1 DEF Inv

(* It is answered before its acceptance ends. *)
LEMMA DurableStepPassesKeeps ==
    ASSUME Inv, NEW r \in Requests, DurableStepPasses(r)
    PROVE  Inv'
<1>1. /\ TypeInv' /\ LockPart' /\ RowPart' /\ DroppedPart'
      /\ EndedPart' /\ RecordPart' /\ DecidingPart' /\ HandedOffIsDecided' /\ SupersededPart' /\ RetriedOnce'
  BY DEF DurableStepPasses, Inv, TypeInv, LockPart, Lives, RowPart, DroppedPart,
     EndedPart, RecordPart, DecidingPart, HandedOffIsDecided, Rows, Decided,
     SupersededPart, RetriedOnce, clock, lock, rows, decision, handing
<1> QED BY <1>1 DEF Inv

(* Its acceptance takes the write lock. *)
LEMMA BeginImmediateKeeps ==
    ASSUME Inv, NEW r \in Requests, BeginImmediate(r)
    PROVE  Inv'
<1>1. TypeInv'
  BY DeliveryAssumption DEF BeginImmediate, Inv, TypeInv, clock, rows, decision,
     handing, Places, IdentityRow, Absent, Taken, Nothing, HandOffStates,
     DeliveryStates, DeliveryAssumption
<1>2. LockPart'
  <2>1. /\ writer = None /\ writer' = r /\ pc' = [pc EXCEPT ![r] = "deciding"]
        /\ seen' = [seen EXCEPT ![r] = identity] /\ UNCHANGED <<alive, process, identity>>
    BY DEF BeginImmediate, rows
  <2>2. \A q \in Requests : ~(pc[q] = "deciding" /\ Lives(q))
    BY <2>1, DeliveryAssumption DEF Inv, LockPart, DeliveryAssumption
  <2> QED BY <2>1, <2>2 DEF Inv, TypeInv, LockPart, Lives
<1>3. RowPart'
  BY DEF BeginImmediate, Inv, TypeInv, RowPart, clock, rows, decision, handing
<1>4. /\ DroppedPart' /\ EndedPart' /\ RecordPart' /\ DecidingPart'
      /\ HandedOffIsDecided' /\ SupersededPart' /\ RetriedOnce'
  BY DEF BeginImmediate, Inv, DroppedPart, Lives, EndedPart, RecordPart, DecidingPart,
     HandedOffIsDecided, Rows, Decided, SupersededPart, RetriedOnce, clock, rows,
     decision, handing
<1> QED BY <1>1, <1>2, <1>3, <1>4 DEF Inv

(* A delivery is recorded. *)
LEMMA AcceptNewKeeps ==
    ASSUME Inv, NEW r \in Requests, AcceptNew(r)
    PROVE  Inv'
<1>1. TypeInv'
  <2>1. /\ writer' = None /\ state' \in [Requests -> DeliveryStates]
        /\ handoff' \in [Requests -> [Playbooks -> HandOffStates]]
        /\ \E e \in Requests \cup {None} : supersedes' = [supersedes EXCEPT ![r] = e]
        /\ identity' = [delivery |-> r, at |-> at[r]]
        /\ seen' = [seen EXCEPT ![r] = Absent] /\ pc' = [pc EXCEPT ![r] = "recorded"]
        /\ task' = [task EXCEPT ![r] = "reading"]
        /\ UNCHANGED <<alive, process, at, clock, pending, deciding>>
    BY AcceptNewDoes
  <2>2. Absent \in IdentityRow /\ [delivery |-> r, at |-> at[r]] \in IdentityRow
    BY DeliveryAssumption DEF Inv, TypeInv, IdentityRow, Absent
  <2>3. TypeInv
    BY DEF Inv
  <2> QED BY <2>1, <2>2, <2>3 DEF TypeInv, clock, handing, Places
<1>2. LockPart'
  <2>1. writer = r /\ pc' = [pc EXCEPT ![r] = "recorded"] /\ UNCHANGED <<alive, process>>
    BY AcceptNewDoes
  <2>2. \A q \in Requests : pc[q] = "deciding" /\ Lives(q) => q = r
    BY <2>1 DEF Inv, LockPart
  <2> QED BY <2>1, <2>2 DEF Inv, TypeInv, LockPart, Lives
<1>3. RowPart'
  <2>1. /\ identity'.delivery = r /\ state'[r] = "accepted"
        /\ pc' = [pc EXCEPT ![r] = "recorded"] /\ task' = [task EXCEPT ![r] = "reading"]
        /\ \A d \in Requests \ {r} : state[d] = "none" <=> state'[d] = "none"
    BY AcceptNewDoes
  <2>2. \A d \in Requests \ {r} : \A b \in Playbooks :
          state'[d] = "none" => handoff'[d][b] = handoff[d][b]
    BY AcceptNewDoes
  <2>3. \A d \in Requests \ {r} : supersedes'[d] = supersedes[d]
    <3>1. supersedes \in [Requests -> Requests \cup {None}]
      BY DEF Inv, TypeInv
    <3> QED BY <3>1, AcceptNewDoes
  <2> QED BY <2>1, <2>2, <2>3 DEF Inv, TypeInv, RowPart
<1>4. DroppedPart'
  <2> SUFFICES ASSUME NEW d \in Requests, NEW b \in Playbooks, handoff'[d][b] = "dropped"
               PROVE  state'[d] = "dropped" /\ ~Lives(d)'
    BY DEF DroppedPart
  <2>1. /\ d # r /\ UNCHANGED <<alive, process>>
        /\ \/ handoff'[d][b] = handoff[d][b] /\ state'[d] \in {state[d], "dropped"}
           \/ ~Lives(d) /\ state'[d] = "dropped"
    BY AcceptNewDoes
  <2> QED BY <2>1 DEF Inv, DroppedPart, Lives
<1>5. EndedPart'
  BY AcceptNewDoes, DecisionIsRecorded DEF Inv, TypeInv, EndedPart, Lives, RowPart,
     handing, clock
<1>6. RecordPart'
  <2> SUFFICES ASSUME NEW d \in Requests, NEW b \in Playbooks
               PROVE  /\ handoff'[d][b] = "handed_off" => <<d, b>> \in runs'
                      /\ handoff'[d][b] = "refused" => <<d, b>> \in refusals'
    BY DEF RecordPart
  <2>1. /\ UNCHANGED <<runs, refusals>>
        /\ d = r => handoff'[d][b] \in {"none", "pending"}
        /\ d # r => handoff'[d][b] \in {handoff[d][b], Decision(d, b)}
    BY AcceptNewDoes
  <2>2. /\ handoff[d][b] = "handed_off" => <<d, b>> \in runs
        /\ handoff[d][b] = "refused" => <<d, b>> \in refusals
    BY DEF Inv, RecordPart
  <2> QED BY <2>1, <2>2, DecisionIsRecorded
<1>7. DecidingPart'
  BY AcceptNewDoes, DecisionIsRecorded DEF Inv, TypeInv, DecidingPart, RowPart,
     handing, clock
<1>8. HandedOffIsDecided'
  <2> SUFFICES ASSUME NEW d \in Requests, NEW b \in Playbooks,
                      state'[d] = "handed_off", handoff'[d][b] # "none"
               PROVE  Decided(d, b)'
    BY DEF HandedOffIsDecided, Rows
  <2>1. /\ d # r /\ state[d] = "handed_off"
        /\ handoff'[d][b] = handoff[d][b]
        /\ UNCHANGED <<runs, refusals>>
    BY AcceptNewDoes
  <2>2. Decided(d, b)
    BY <2>1 DEF Inv, HandedOffIsDecided, Rows
  <2> QED BY <2>1, <2>2 DEF Decided
<1>9. SupersededPart'
  <2>1. /\ supersedes \in [Requests -> Requests \cup {None}]
        /\ \A d \in Requests : supersedes[d] # None => state[supersedes[d]] # "none"
    BY DEF Inv, TypeInv, SupersededPart
  <2>2. /\ \A d \in Requests : state[d] # "none" => state'[d] # "none"
        /\ \/ supersedes' = [supersedes EXCEPT ![r] = None]
           \/ \E e \in Requests :
                state'[e] = "dropped" /\ supersedes' = [supersedes EXCEPT ![r] = e]
    BY AcceptNewDoes
  <2> QED BY <2>1, <2>2 DEF SupersededPart
<1>10. RetriedOnce'
  <2>1. /\ supersedes \in [Requests -> Requests \cup {None}]
        /\ state[r] = "none"
        /\ \A d \in Requests : state[d] = "none" => supersedes[d] = None
    BY AcceptNewDoes DEF Inv, TypeInv, RowPart
  <2>2. \A d \in Requests : supersedes[d] # r
    BY <2>1, DeliveryAssumption DEF Inv, SupersededPart, DeliveryAssumption
  <2>3. \A d, e \in Requests : supersedes[d] # None =>
          supersedes[d] # identity.delivery /\ (supersedes[d] = supersedes[e] => d = e)
    BY DEF Inv, RetriedOnce
  <2>4. /\ identity'.delivery = r /\ identity.delivery # r
        /\ supersedes' \in {[supersedes EXCEPT ![r] = None],
                            [supersedes EXCEPT ![r] = identity.delivery]}
    BY AcceptNewDoes
  <2> QED BY <2>1, <2>2, <2>3, <2>4 DEF RetriedOnce
<1> QED BY <1>1, <1>2, <1>3, <1>4, <1>5, <1>6, <1>7, <1>8, <1>9, <1>10 DEF Inv

(* A repeat is counted. *)
LEMMA AcceptRepeatKeeps ==
    ASSUME Inv, NEW r \in Requests, AcceptRepeat(r)
    PROVE  Inv'
<1>1. TypeInv'
  <2>1. /\ writer' = None /\ state' \in [Requests -> DeliveryStates]
        /\ handoff' \in [Requests -> [Playbooks -> HandOffStates]]
        /\ seen' = [seen EXCEPT ![r] = Absent] /\ pc' = [pc EXCEPT ![r] = "recorded"]
        /\ UNCHANGED <<clock, alive, at, process, identity, supersedes, handing>>
    BY AcceptRepeatDoes
  <2>2. Absent \in IdentityRow
    BY DeliveryAssumption DEF Inv, TypeInv, IdentityRow, Absent
  <2>3. TypeInv
    BY DEF Inv
  <2> QED BY <2>1, <2>2, <2>3 DEF TypeInv, clock, handing, Places
<1>2. LockPart'
  <2>1. writer = r /\ pc' = [pc EXCEPT ![r] = "recorded"] /\ UNCHANGED <<alive, process>>
    BY AcceptRepeatDoes
  <2>2. \A q \in Requests : pc[q] = "deciding" /\ Lives(q) => q = r
    BY <2>1 DEF Inv, LockPart
  <2> QED BY <2>1, <2>2 DEF Inv, TypeInv, LockPart, Lives
<1>3. RowPart'
  <2>1. /\ UNCHANGED <<identity, supersedes, task>> /\ pc' = [pc EXCEPT ![r] = "recorded"]
        /\ \A d \in Requests :
             /\ state[d] = "none" => state'[d] = "none" /\ handoff'[d] = handoff[d]
             /\ state'[d] = "none" => state[d] = "none"
    BY AcceptRepeatDoes DEF handing
  <2>2. identity.delivery \in Requests \cup {None}
    BY DEF Inv, TypeInv, IdentityRow
  <2> QED BY <2>1, <2>2 DEF Inv, TypeInv, RowPart
<1>4. DroppedPart'
  <2> SUFFICES ASSUME NEW d \in Requests, NEW b \in Playbooks, handoff'[d][b] = "dropped"
               PROVE  state'[d] = "dropped" /\ ~Lives(d)'
    BY DEF DroppedPart
  <2>1. /\ UNCHANGED <<alive, process>>
        /\ state'[d] = state[d] /\ handoff'[d][b] = handoff[d][b]
    BY AcceptRepeatDoes
  <2> QED BY <2>1 DEF Inv, DroppedPart, Lives
<1>5. EndedPart'
  BY AcceptRepeatDoes, DecisionIsRecorded DEF Inv, TypeInv, EndedPart, Lives, RowPart,
     handing, clock
<1>6. RecordPart'
  <2> SUFFICES ASSUME NEW d \in Requests, NEW b \in Playbooks
               PROVE  /\ handoff'[d][b] = "handed_off" => <<d, b>> \in runs'
                      /\ handoff'[d][b] = "refused" => <<d, b>> \in refusals'
    BY DEF RecordPart
  <2>1. /\ UNCHANGED <<runs, refusals>>
        /\ handoff'[d][b] \in {handoff[d][b], Decision(d, b)}
    BY AcceptRepeatDoes
  <2>2. /\ handoff[d][b] = "handed_off" => <<d, b>> \in runs
        /\ handoff[d][b] = "refused" => <<d, b>> \in refusals
    BY DEF Inv, RecordPart
  <2> QED BY <2>1, <2>2, DecisionIsRecorded
<1>7. HandedOffIsDecided'
  <2> SUFFICES ASSUME NEW d \in Requests, NEW b \in Playbooks,
                      state'[d] = "handed_off", handoff'[d][b] # "none"
               PROVE  Decided(d, b)'
    BY DEF HandedOffIsDecided, Rows
  <2>1. /\ UNCHANGED <<runs, refusals>>
        /\ handoff' \in [Requests -> [Playbooks -> HandOffStates]]
        /\ \/ state[d] = "handed_off" /\ handoff'[d][b] = handoff[d][b]
           \/ handoff'[d][b] \notin {"pending", "waiting", "dropped"}
    BY AcceptRepeatDoes
  <2>2. CASE state[d] = "handed_off" /\ handoff'[d][b] = handoff[d][b]
    BY <2>1, <2>2 DEF Inv, HandedOffIsDecided, Rows, Decided
  <2>3. CASE handoff'[d][b] \notin {"pending", "waiting", "dropped"}
    <3>1. handoff'[d][b] \in {"handed_off", "refused"}
      BY <2>1, <2>3 DEF HandOffStates
    <3> QED BY <1>6, <3>1 DEF RecordPart, Decided
  <2> QED BY <2>1, <2>2, <2>3
<1>8. SupersededPart'
  <2>1. /\ UNCHANGED supersedes
        /\ \A d \in Requests : state[d] # "none" => state'[d] # "none"
    BY AcceptRepeatDoes
  <2> QED BY <2>1 DEF Inv, TypeInv, SupersededPart
<1>9. DecidingPart' /\ RetriedOnce'
  BY AcceptRepeatDoes DEF Inv, DecidingPart, RetriedOnce, handing
<1> QED BY <1>1, <1>2, <1>3, <1>4, <1>5, <1>6, <1>7, <1>8, <1>9 DEF Inv

(* The acceptance fails. *)
LEMMA AcceptFailsKeeps ==
    ASSUME Inv, NEW r \in Requests, AcceptFails(r)
    PROVE  Inv'
<1>1. TypeInv'
  BY DeliveryAssumption DEF AcceptFails, Inv, TypeInv, clock, rows, decision, handing,
     Places, IdentityRow, Absent, Taken, Nothing, HandOffStates, DeliveryStates,
     DeliveryAssumption
<1>2. LockPart'
  BY DEF AcceptFails, Inv, TypeInv, LockPart, Lives, clock, rows, decision, handing
<1>3. RowPart'
  BY DEF AcceptFails, Inv, TypeInv, RowPart, clock, rows, decision, handing
<1>4. /\ DroppedPart' /\ EndedPart' /\ RecordPart' /\ DecidingPart'
      /\ HandedOffIsDecided' /\ SupersededPart' /\ RetriedOnce'
  BY DEF AcceptFails, Inv, DroppedPart, Lives, EndedPart, RecordPart, DecidingPart,
     HandedOffIsDecided, Rows, Decided, SupersededPart, RetriedOnce, clock, rows,
     decision, handing
<1> QED BY <1>1, <1>2, <1>3, <1>4 DEF Inv

(* A hand-off begins. *)
LEMMA HandOffReadsKeeps ==
    ASSUME Inv, NEW r \in Requests, HandOffReads(r)
    PROVE  Inv'
<1>1. TypeInv'
  BY DeliveryAssumption DEF HandOffReads, Inv, TypeInv, clock, request, lock, rows,
     decision, Places, IdentityRow, Absent, Taken, Nothing, HandOffStates,
     DeliveryStates, DeliveryAssumption
<1>2. RowPart'
  BY DEF HandOffReads, Inv, TypeInv, RowPart, clock, request, lock, rows, decision
<1>3. EndedPart'
  BY DEF HandOffReads, Inv, TypeInv, EndedPart, Lives, clock, request, lock, rows,
     decision, RowPart
<1>4. DecidingPart'
  BY DEF HandOffReads, Inv, TypeInv, DecidingPart, clock, request, lock, rows,
     decision
<1>5. /\ LockPart' /\ DroppedPart' /\ RecordPart' /\ HandedOffIsDecided'
      /\ SupersededPart' /\ RetriedOnce'
  BY DEF HandOffReads, Inv, LockPart, Lives, DroppedPart, RecordPart,
     HandedOffIsDecided, Rows, Decided, SupersededPart, RetriedOnce, clock, request,
     lock, rows, decision
<1> QED BY <1>1, <1>2, <1>3, <1>4, <1>5 DEF Inv

(* The row of the playbook that was decided is the only one written. *)
LEMMA SetDoes ==
    ASSUME Inv, NEW r \in Requests, SetHandOffState(r)
    PROVE  /\ task[r] = "writing" /\ Lives(r)
           /\ handoff'[r][deciding[r].playbook] = deciding[r].state
           /\ deciding[r].state \in {"waiting", "handed_off", "refused"}
           /\ deciding[r].state = "handed_off" => <<r, deciding[r].playbook>> \in runs
           /\ deciding[r].state = "refused" => <<r, deciding[r].playbook>> \in refusals
           /\ \A d \in Requests : \A b \in Playbooks :
                d # r \/ b # deciding[r].playbook => handoff'[d][b] = handoff[d][b]
           /\ UNCHANGED <<runs, refusals, state, alive, process>>
<1>1. /\ handoff \in [Requests -> [Playbooks -> HandOffStates]]
      /\ task[r] = "writing" /\ Lives(r)
      /\ handoff' = [handoff EXCEPT ![r][deciding[r].playbook] = deciding[r].state]
      /\ UNCHANGED <<runs, refusals, state, alive, process>>
  BY DEF Inv, TypeInv, SetHandOffState, decision, rows, request
<1>2. /\ deciding[r].playbook \in Playbooks
      /\ deciding[r].state \in {"waiting", "handed_off", "refused"}
      /\ deciding[r].state = "handed_off" => <<r, deciding[r].playbook>> \in runs
      /\ deciding[r].state = "refused" => <<r, deciding[r].playbook>> \in refusals
  BY <1>1 DEF Inv, DecidingPart
<1>3. handoff'[r][deciding[r].playbook] = deciding[r].state
  BY <1>1, <1>2
<1>4. \A d \in Requests : \A b \in Playbooks :
        d # r \/ b # deciding[r].playbook => handoff'[d][b] = handoff[d][b]
  BY <1>1
<1> QED BY <1>1, <1>2, <1>3, <1>4

(* It writes what it decided. *)
LEMMA SetHandOffStateKeeps ==
    ASSUME Inv, NEW r \in Requests, SetHandOffState(r)
    PROVE  Inv'
<1>1. TypeInv'
  BY DeliveryAssumption DEF SetHandOffState, Inv, TypeInv, clock, request, lock, rows,
     decision, Places, IdentityRow, Absent, Taken, Nothing, HandOffStates,
     DeliveryStates, DeliveryAssumption
<1>2. RowPart'
  BY DEF SetHandOffState, Inv, TypeInv, RowPart, clock, request, lock, rows, decision
<1>3. DroppedPart'
  <2> SUFFICES ASSUME NEW d \in Requests, NEW b \in Playbooks, handoff'[d][b] = "dropped"
               PROVE  state'[d] = "dropped" /\ ~Lives(d)'
    BY DEF DroppedPart
  <2>1. handoff[d][b] = "dropped" /\ UNCHANGED <<state, alive, process>>
    BY SetDoes
  <2> QED BY <2>1 DEF Inv, DroppedPart, Lives
<1>4. EndedPart'
  BY DEF SetHandOffState, Inv, TypeInv, EndedPart, Lives, clock, request, lock, rows,
     decision, RowPart
<1>5. RecordPart'
  <2> SUFFICES ASSUME NEW d \in Requests, NEW b \in Playbooks
               PROVE  /\ handoff'[d][b] = "handed_off" => <<d, b>> \in runs'
                      /\ handoff'[d][b] = "refused" => <<d, b>> \in refusals'
    BY DEF RecordPart
  <2>1. /\ handoff[d][b] = "handed_off" => <<d, b>> \in runs
        /\ handoff[d][b] = "refused" => <<d, b>> \in refusals
    BY DEF Inv, RecordPart
  <2>2. CASE d = r /\ b = deciding[r].playbook
    BY <2>2, SetDoes
  <2>3. CASE ~(d = r /\ b = deciding[r].playbook)
    BY <2>1, <2>3, SetDoes
  <2> QED BY <2>2, <2>3
<1>6. DecidingPart'
  BY DEF SetHandOffState, Inv, TypeInv, DecidingPart, clock, request, lock, rows,
     decision
<1>7. HandedOffIsDecided'
  <2> SUFFICES ASSUME NEW d \in Requests, NEW b \in Playbooks,
                      state'[d] = "handed_off", handoff'[d][b] # "none"
               PROVE  Decided(d, b)'
    BY DEF HandedOffIsDecided, Rows
  <2>1. state[d] = "handed_off" /\ d # r
    BY SetDoes DEF Inv, EndedPart
  <2>2. handoff[d][b] # "none" /\ UNCHANGED <<runs, refusals>>
    BY <2>1, SetDoes
  <2>3. Decided(d, b)
    BY <2>1, <2>2 DEF Inv, HandedOffIsDecided, Rows
  <2> QED BY <2>2, <2>3 DEF Decided
<1>8. LockPart' /\ SupersededPart' /\ RetriedOnce'
  BY DEF SetHandOffState, Inv, LockPart, Lives, SupersededPart, RetriedOnce, clock,
     request, lock, rows, decision
<1> QED BY <1>1, <1>2, <1>3, <1>4, <1>5, <1>6, <1>7, <1>8 DEF Inv

(* A delivery ends handed off when each of its hand-offs is decided. *)
LEMMA FinishedIs ==
    ASSUME Inv, NEW d \in Requests
    PROVE  /\ Finished(d) \in {"unbound", "dropped", "waiting", "handed_off"}
           /\ Finished(d) = "handed_off" =>
                \A b \in Playbooks : handoff[d][b] \in {"none", "handed_off", "refused"}
<1> DEFINE states == {handoff[d][b] : b \in Playbooks} \ {"none"}
<1>1. Finished(d) = CASE states = {} -> "unbound"
                      [] "dropped" \in states -> "dropped"
                      [] states \cap {"pending", "waiting"} # {} -> "waiting"
                      [] OTHER -> "handed_off"
  BY DEF Finished
<1>2. \A b \in Playbooks : handoff[d][b] \in HandOffStates
  BY DEF Inv, TypeInv
<1>3. \A b \in Playbooks : handoff[d][b] = "none" \/ handoff[d][b] \in states
  OBVIOUS
<1> HIDE DEF states
<1>4. CASE states = {} \/ "dropped" \in states \/ states \cap {"pending", "waiting"} # {}
  BY <1>1, <1>4
<1>5. CASE ~(states = {} \/ "dropped" \in states \/ states \cap {"pending", "waiting"} # {})
  <2>1. Finished(d) = "handed_off"
    BY <1>1, <1>5
  <2> QED BY <1>2, <1>3, <1>5, <2>1 DEF HandOffStates
<1> QED BY <1>4, <1>5

(* It ends. *)
LEMMA FinishDeliveryKeeps ==
    ASSUME Inv, NEW r \in Requests, FinishDelivery(r)
    PROVE  Inv'
<1>1. TypeInv'
  BY FinishedIs DEF FinishDelivery, Inv, TypeInv, clock, request, lock, DeliveryStates
<1>2. RowPart'
  BY FinishedIs, SMTT(30) DEF FinishDelivery, Inv, TypeInv, RowPart, request, IdentityRow
<1>3. DroppedPart'
  BY DEF FinishDelivery, Inv, TypeInv, DroppedPart, Lives, clock, request, lock,
     decision, RowPart
<1>4. EndedPart'
  BY DEF FinishDelivery, Inv, TypeInv, EndedPart, Lives, clock, request, lock,
     decision, RowPart
<1>5. DecidingPart'
  BY DEF FinishDelivery, Inv, TypeInv, DecidingPart, clock, request, lock, decision
<1>6. HandedOffIsDecided'
  <2> SUFFICES ASSUME NEW d \in Requests, NEW b \in Playbooks,
                      state'[d] = "handed_off", handoff'[d][b] # "none"
               PROVE  Decided(d, b)'
    BY DEF HandedOffIsDecided, Rows
  <2>1. state' = [state EXCEPT ![r] = Finished(r)] /\ UNCHANGED <<handoff, runs, refusals>>
    BY DEF FinishDelivery, decision
  <2>2. CASE d = r
    <3>1. Finished(r) = "handed_off"
      BY <2>1, <2>2 DEF Inv, TypeInv
    <3>2. handoff[d][b] \in {"handed_off", "refused"}
      BY <2>1, <2>2, <3>1, FinishedIs
    <3> QED BY <2>1, <3>2 DEF Inv, RecordPart, Decided
  <2>3. CASE d # r
    BY <2>1, <2>3 DEF Inv, TypeInv, HandedOffIsDecided, Rows, Decided
  <2> QED BY <2>2, <2>3
<1>7. SupersededPart'
  <2>1. /\ UNCHANGED supersedes
        /\ \A d \in Requests : state[d] # "none" => state'[d] # "none"
    BY FinishedIs DEF FinishDelivery, Inv, TypeInv
  <2> QED BY <2>1 DEF Inv, TypeInv, SupersededPart
<1>8. LockPart' /\ RecordPart' /\ RetriedOnce'
  BY DEF FinishDelivery, Inv, LockPart, Lives, RecordPart, RetriedOnce, clock,
     request, lock, decision
<1> QED BY <1>1, <1>2, <1>3, <1>4, <1>5, <1>6, <1>7, <1>8 DEF Inv

(* It refuses a playbook. *)
LEMMA RefuseValueKeeps ==
    ASSUME Inv, NEW r \in Requests, NEW b \in Playbooks, RefuseValue(r, b)
    PROVE  Inv'
<1>1. TypeInv'
  BY DeliveryAssumption DEF RefuseValue, Decide, Inv, TypeInv, clock, request, lock,
     rows, Places, IdentityRow, Absent, Taken, Nothing, HandOffStates, DeliveryStates,
     DeliveryAssumption
<1>2. RowPart'
  BY DEF RefuseValue, Decide, Inv, TypeInv, RowPart, clock, request, lock, rows
<1>3. EndedPart'
  BY DEF RefuseValue, Decide, Inv, TypeInv, EndedPart, Lives, clock, request, lock,
     rows, RowPart
<1>4. RecordPart'
  BY DEF RefuseValue, Decide, Inv, TypeInv, RecordPart, clock, request, lock, rows
<1>5. DecidingPart'
  BY DEF RefuseValue, Decide, Inv, TypeInv, DecidingPart, clock, request, lock, rows
<1>6. HandedOffIsDecided'
  BY DEF RefuseValue, Decide, Inv, TypeInv, HandedOffIsDecided, Rows, Decided, clock,
     request, lock, rows, RowPart
<1>7. LockPart' /\ DroppedPart' /\ SupersededPart' /\ RetriedOnce'
  BY DEF RefuseValue, Decide, Inv, LockPart, Lives, DroppedPart, SupersededPart,
     RetriedOnce, clock, request, lock, rows
<1> QED BY <1>1, <1>2, <1>3, <1>4, <1>5, <1>6, <1>7 DEF Inv

(* It starts a playbook. *)
LEMMA DispatchRunsKeeps ==
    ASSUME Inv, NEW r \in Requests, NEW b \in Playbooks, DispatchRuns(r, b)
    PROVE  Inv'
<1>1. TypeInv'
  BY DeliveryAssumption DEF DispatchRuns, Decide, Inv, TypeInv, clock, request, lock,
     rows, Places, IdentityRow, Absent, Taken, Nothing, HandOffStates, DeliveryStates,
     DeliveryAssumption
<1>2. RowPart'
  BY DEF DispatchRuns, Decide, Inv, TypeInv, RowPart, clock, request, lock, rows
<1>3. EndedPart'
  BY DEF DispatchRuns, Decide, Inv, TypeInv, EndedPart, Lives, clock, request, lock,
     rows, RowPart
<1>4. RecordPart'
  BY DEF DispatchRuns, Decide, Inv, TypeInv, RecordPart, clock, request, lock, rows
<1>5. DecidingPart'
  BY DEF DispatchRuns, Decide, Inv, TypeInv, DecidingPart, clock, request, lock, rows
<1>6. HandedOffIsDecided'
  BY DEF DispatchRuns, Decide, Inv, TypeInv, HandedOffIsDecided, Rows, Decided, clock,
     request, lock, rows, RowPart
<1>7. LockPart' /\ DroppedPart' /\ SupersededPart' /\ RetriedOnce'
  BY DEF DispatchRuns, Decide, Inv, LockPart, Lives, DroppedPart, SupersededPart,
     RetriedOnce, clock, request, lock, rows
<1> QED BY <1>1, <1>2, <1>3, <1>4, <1>5, <1>6, <1>7 DEF Inv

(* It leaves a playbook waiting. *)
LEMMA DispatchWaitsKeeps ==
    ASSUME Inv, NEW r \in Requests, NEW b \in Playbooks, DispatchWaits(r, b)
    PROVE  Inv'
<1>1. TypeInv'
  BY DeliveryAssumption DEF DispatchWaits, Decide, Inv, TypeInv, clock, request, lock,
     rows, Places, IdentityRow, Absent, Taken, Nothing, HandOffStates, DeliveryStates,
     DeliveryAssumption
<1>2. RowPart'
  BY DEF DispatchWaits, Decide, Inv, TypeInv, RowPart, clock, request, lock, rows
<1>3. EndedPart'
  BY DEF DispatchWaits, Decide, Inv, TypeInv, EndedPart, Lives, clock, request, lock,
     rows, RowPart
<1>4. DecidingPart'
  BY DEF DispatchWaits, Decide, Inv, TypeInv, DecidingPart, clock, request, lock, rows
<1>5. /\ LockPart' /\ DroppedPart' /\ RecordPart' /\ HandedOffIsDecided'
      /\ SupersededPart' /\ RetriedOnce'
  BY DEF DispatchWaits, Decide, Inv, LockPart, Lives, DroppedPart, RecordPart,
     HandedOffIsDecided, Rows, Decided, SupersededPart, RetriedOnce, clock, request,
     lock, rows
<1> QED BY <1>1, <1>2, <1>3, <1>4, <1>5 DEF Inv

(* The store fails it. *)
LEMMA HandOffFailsKeeps ==
    ASSUME Inv, NEW r \in Requests, HandOffFails(r)
    PROVE  Inv'
<1>1. TypeInv'
  BY DeliveryAssumption DEF HandOffFails, Inv, TypeInv, request, lock, rows, decision,
     Places, IdentityRow, Absent, Taken, Nothing, HandOffStates, DeliveryStates,
     DeliveryAssumption
<1>2. RowPart'
  BY DEF HandOffFails, Inv, TypeInv, RowPart, request, lock, rows, decision
<1>3. EndedPart'
  BY DEF HandOffFails, Inv, TypeInv, EndedPart, Lives, request, lock, rows, decision,
     RowPart
<1>4. DecidingPart'
  BY DEF HandOffFails, Inv, TypeInv, DecidingPart, request, lock, rows, decision
<1>5. /\ LockPart' /\ DroppedPart' /\ RecordPart' /\ HandedOffIsDecided'
      /\ SupersededPart' /\ RetriedOnce'
  BY DEF HandOffFails, Inv, LockPart, Lives, DroppedPart, RecordPart,
     HandedOffIsDecided, Rows, Decided, SupersededPart, RetriedOnce, request, lock,
     rows, decision
<1> QED BY <1>1, <1>2, <1>3, <1>4, <1>5 DEF Inv

(* A wait ends. *)
LEMMA WaitEndsKeeps ==
    ASSUME Inv, NEW r \in Requests, NEW b \in Playbooks, WaitEnds(r, b)
    PROVE  Inv'
<1>1. RecordPart'
  BY DEF WaitEnds, Inv, TypeInv, RecordPart, clock, request, lock, rows, handing
<1>2. DecidingPart'
  BY DEF WaitEnds, Inv, TypeInv, DecidingPart, clock, request, lock, rows, handing
<1>3. HandedOffIsDecided'
  BY DEF WaitEnds, Inv, TypeInv, HandedOffIsDecided, Rows, Decided, clock, request,
     lock, rows, handing, RowPart
<1>4. /\ TypeInv' /\ LockPart' /\ RowPart' /\ DroppedPart'
      /\ EndedPart' /\ SupersededPart' /\ RetriedOnce'
  BY DEF WaitEnds, Inv, TypeInv, LockPart, Lives, RowPart, DroppedPart, EndedPart,
     SupersededPart, RetriedOnce, clock, request, lock, rows, handing
<1> QED BY <1>1, <1>2, <1>3, <1>4 DEF Inv

(* A wait is dropped. *)
LEMMA WaitDroppedKeeps ==
    ASSUME Inv, NEW r \in Requests, NEW b \in Playbooks, WaitDropped(r, b)
    PROVE  Inv'
<1>1. /\ TypeInv' /\ LockPart' /\ RowPart' /\ DroppedPart'
      /\ EndedPart' /\ RecordPart' /\ DecidingPart' /\ HandedOffIsDecided' /\ SupersededPart' /\ RetriedOnce'
  BY DEF WaitDropped, Inv, TypeInv, LockPart, Lives, RowPart, DroppedPart, EndedPart,
     RecordPart, DecidingPart, HandedOffIsDecided, Rows, Decided, SupersededPart,
     RetriedOnce, clock, request, lock, rows, handing
<1> QED BY <1>1 DEF Inv

(* A process dies. *)
LEMMA DieKeeps ==
    ASSUME Inv, NEW p \in Processes, Die(p)
    PROVE  Inv'
<1>1. TypeInv'
  BY DeliveryAssumption DEF Die, Inv, TypeInv, clock, request, rows, decision,
     handing, Places, IdentityRow, Absent, Taken, Nothing, HandOffStates,
     DeliveryStates, DeliveryAssumption
<1>2. LockPart'
  BY DEF Die, Inv, TypeInv, LockPart, Lives, clock, request, rows, decision, handing
<1>3. DroppedPart'
  BY DEF Die, Inv, TypeInv, DroppedPart, Lives, clock, request, rows, decision,
     handing, RowPart
<1>4. EndedPart'
  BY DEF Die, Inv, TypeInv, EndedPart, Lives, clock, request, rows, decision, handing,
     RowPart
<1>5. /\ RowPart' /\ RecordPart' /\ DecidingPart' /\ HandedOffIsDecided'
      /\ SupersededPart' /\ RetriedOnce'
  BY DEF Die, Inv, RowPart, RecordPart, DecidingPart, HandedOffIsDecided, Rows,
     Decided, SupersededPart, RetriedOnce, clock, request, rows, decision, handing
<1> QED BY <1>1, <1>2, <1>3, <1>4, <1>5 DEF Inv

(* The clock is set. *)
LEMMA SetClockKeeps ==
    ASSUME Inv, SetClock
    PROVE  Inv'
<1>1. TypeInv'
  BY DeliveryAssumption DEF SetClock, Inv, TypeInv, request, lock, rows, decision,
     handing, Places, IdentityRow, Absent, Taken, Nothing, HandOffStates,
     DeliveryStates, DeliveryAssumption
<1>2. /\ LockPart' /\ RowPart' /\ DroppedPart' /\ EndedPart'
      /\ RecordPart' /\ DecidingPart' /\ HandedOffIsDecided' /\ SupersededPart' /\ RetriedOnce'
  BY DEF SetClock, Inv, LockPart, Lives, RowPart, DroppedPart, EndedPart, RecordPart,
     DecidingPart, HandedOffIsDecided, Rows, Decided, SupersededPart, RetriedOnce,
     request, lock, rows, decision, handing
<1> QED BY <1>1, <1>2 DEF Inv

-----------------------------------------------------------------------------
LEMMA InitInv == Init => Inv
<1> SUFFICES ASSUME Init PROVE Inv
  OBVIOUS
<1> USE DeliveryAssumption DEF DeliveryAssumption
<1>1. TypeInv
  BY DEF Init, TypeInv, Absent, Nothing, IdentityRow, Taken, Places, DeliveryStates, HandOffStates
<1>2. LockPart /\ RowPart /\ DroppedPart /\ EndedPart /\ RecordPart /\ DecidingPart
  BY DEF Init, Absent, LockPart, RowPart, DroppedPart, EndedPart, RecordPart, DecidingPart
<1>3. HandedOffIsDecided /\ SupersededPart /\ RetriedOnce
  BY DEF Init, HandedOffIsDecided, SupersededPart, RetriedOnce, Rows
<1> QED BY <1>1, <1>2, <1>3 DEF Inv

LEMMA NextInv == ASSUME Inv, [Next]_vars PROVE Inv'
<1>1. CASE UNCHANGED vars
  BY <1>1 DEF Inv, TypeInv, LockPart, RowPart, DroppedPart, EndedPart, RecordPart, DecidingPart,
     HandedOffIsDecided, SupersededPart, RetriedOnce, Rows, Lives, Decided, vars, clock, request, lock, rows,
     decision, handing
<1>2. ASSUME NEW r \in Requests, RequestStep(r) PROVE Inv'
  BY <1>2, ReceiveKeeps, TurnAwayKeeps, RefuseIdentityKeeps, AnswerKeeps,
     DurableStepPassesKeeps, BeginImmediateKeeps, AcceptNewKeeps, AcceptRepeatKeeps,
     AcceptFailsKeeps, Zenon DEF RequestStep
<1>3. ASSUME NEW r \in Requests, HandOffStep(r) PROVE Inv'
  BY <1>3, HandOffReadsKeeps, SetHandOffStateKeeps, FinishDeliveryKeeps, RefuseValueKeeps,
     DispatchRunsKeeps, DispatchWaitsKeeps, Zenon DEF HandOffStep
<1>4. ASSUME NEW r \in Requests, WaitStep(r) PROVE Inv'
  BY <1>4, WaitEndsKeeps, WaitDroppedKeeps, Zenon DEF WaitStep
<1> QED BY <1>1, <1>2, <1>3, <1>4, HandOffFailsKeeps, DieKeeps, SetClockKeeps, Zenon DEF Next

(* The inductive invariant: the write lock and the row it protects, and what a
   hand-off's row says against the durable records. *)
THEOREM Invariance == Spec => []Inv
  BY InitInv, NextInv, PTL DEF Spec

-----------------------------------------------------------------------------
(***************************************************************************)
(* Chains of retries.  The second invariant rests on the first.            *)
(***************************************************************************)

(* A set has all that its members retry. *)
Closed(S) == \A x \in S : supersedes[x] # None => supersedes[x] \in S

(* A chain has its delivery and is closed, and nothing smaller is. *)
LEMMA ChainIsLeast ==
    ASSUME TypeInv, NEW d \in Requests
    PROVE  /\ Chain(d) \in SUBSET Requests /\ d \in Chain(d) /\ Closed(Chain(d))
           /\ \A S \in SUBSET Requests : d \in S /\ Closed(S) => Chain(d) \subseteq S
<1>1. Chain(d) = {e \in Requests : \A S \in SUBSET Requests : d \in S /\ Closed(S) => e \in S}
  BY DEF Chain, Closed
<1>2. ASSUME NEW x \in Chain(d), supersedes[x] # None PROVE supersedes[x] \in Chain(d)
  <2>1. x \in Requests /\ supersedes[x] \in Requests
    BY <1>1, <1>2 DEF TypeInv
  <2>2. ASSUME NEW S \in SUBSET Requests, d \in S, Closed(S) PROVE supersedes[x] \in S
    BY <1>1, <1>2, <2>2 DEF Closed
  <2> QED BY <1>1, <2>1, <2>2
<1> QED BY <1>1, <1>2 DEF Closed

(* What is in a chain and not its head is retried, and is in the chain of what
   the head retries. *)
LEMMA ChainBelow ==
    ASSUME TypeInv, NEW d \in Requests, NEW x \in Chain(d), x # d
    PROVE  /\ \E y \in Requests : supersedes[y] = x
           /\ supersedes[d] # None /\ x \in Chain(supersedes[d])
<1>1. x \in Requests
  BY ChainIsLeast
<1>2. \E y \in Requests : supersedes[y] = x
  <2> SUFFICES ASSUME \A y \in Requests : supersedes[y] # x PROVE FALSE
    OBVIOUS
  <2> DEFINE S == Requests \ {x}
  <2>1. S \in SUBSET Requests /\ d \in S /\ Closed(S)
    BY DEF Closed, TypeInv
  <2> HIDE DEF S
  <2>2. Chain(d) \subseteq S
    BY <2>1, ChainIsLeast
  <2> QED BY <2>2 DEF S
<1>3. supersedes[d] # None
  <2> SUFFICES ASSUME supersedes[d] = None PROVE FALSE
    OBVIOUS
  <2>1. {d} \in SUBSET Requests /\ Closed({d})
    BY DEF Closed
  <2> QED BY <2>1, ChainIsLeast
<1>4. x \in Chain(supersedes[d])
  <2>1. supersedes[d] \in Requests
    BY <1>3 DEF TypeInv
  <2> DEFINE S == {d} \cup Chain(supersedes[d])
  <2>2. /\ Chain(supersedes[d]) \in SUBSET Requests /\ Closed(Chain(supersedes[d]))
        /\ supersedes[d] \in Chain(supersedes[d])
    BY <2>1, ChainIsLeast
  <2>3. S \in SUBSET Requests /\ d \in S /\ Closed(S)
    BY <2>2 DEF Closed
  <2> HIDE DEF S
  <2>4. Chain(d) \subseteq S
    BY <2>3, ChainIsLeast
  <2> QED BY <2>4 DEF S
<1> QED BY <1>2, <1>3, <1>4

(* What a living process may still decide is in no chain but its own. *)
LEMMA LivingIsHead ==
    ASSUME TypeInv, SettledPart, RetriedPart, NEW d \in Requests, Lives(d)
    PROVE  /\ \A y \in Requests : supersedes[y] # d
           /\ \A h \in Requests : d \in Chain(h) => h = d
<1>1. \A y \in Requests : supersedes[y] # d
  <2> SUFFICES ASSUME NEW y \in Requests, supersedes[y] = d PROVE FALSE
    OBVIOUS
  <2>1. state[d] = "dropped"
    BY DeliveryAssumption DEF RetriedPart, DeliveryAssumption
  <2> QED BY <2>1 DEF SettledPart
<1> QED BY <1>1, ChainBelow

LEMMA SameChains ==
    ASSUME UNCHANGED supersedes
    PROVE  \A d : Chain(d)' = Chain(d)
  BY DEF Chain

(* A step that decides nothing, drops nothing and retries nothing. *)
LEMMA QuietChain ==
    ASSUME Inv, ChainInv,
           UNCHANGED <<supersedes, runs, refusals>>,
           \A d \in Requests : /\ state'[d] = "dropped" <=> state[d] = "dropped"
                               /\ state[d] = "dropped" => ~Lives(d)',
           \A d \in Requests : \A b \in Playbooks :
              /\ handoff'[d][b] = "none" <=> handoff[d][b] = "none"
              /\ state[d] = "dropped" => handoff'[d][b] = handoff[d][b]
              /\ AtWork(d, b)' => handoff[d][b] # "none"
    PROVE  ChainInv'
<1>1. \A d : Chain(d)' = Chain(d)
  BY SameChains
<1>2. \A d, b : Decided(d, b)' <=> Decided(d, b)
  BY DEF Decided
<1>3. supersedes \in [Requests -> Requests \cup {None}]
  BY DEF Inv, TypeInv
<1>4. HandedPart'
  BY <1>2 DEF ChainInv, HandedPart
<1>5. SettledPart'
  BY <1>2 DEF ChainInv, SettledPart
<1>6. RetriedPart'
  BY <1>3 DEF ChainInv, RetriedPart
<1>7. ApartPart'
  BY <1>1, <1>2 DEF ChainInv, ApartPart
<1>8. OncePart'
  BY <1>1, <1>2 DEF ChainInv, OncePart
<1> QED BY <1>4, <1>5, <1>6, <1>7, <1>8 DEF ChainInv

(* A playbook that a delivery was handed is decided, by its living process. *)
LEMMA DecidesChain ==
    ASSUME Inv, ChainInv,
           NEW d \in Requests, NEW b \in Playbooks, Lives(d), handoff[d][b] # "none",
           UNCHANGED <<supersedes, state, handoff, process, alive>>,
           \A e, c : Decided(e, c)' => Decided(e, c) \/ (e = d /\ c = b),
           \A e \in Requests : \A c \in Playbooks : AtWork(e, c)' => handoff[e][c] # "none"
    PROVE  ChainInv'
<1>0. TypeInv /\ SettledPart /\ RetriedPart /\ supersedes \in [Requests -> Requests \cup {None}]
  BY DEF Inv, ChainInv, TypeInv
<1>1. \A e : Chain(e)' = Chain(e)
  BY SameChains
<1>2. /\ \A y \in Requests : supersedes[y] # d
      /\ \A h \in Requests : d \in Chain(h) => h = d
  BY <1>0, LivingIsHead
<1>3. HandedPart'
  BY DEF ChainInv, HandedPart
<1>4. SettledPart'
  <2> SUFFICES ASSUME NEW e \in Requests, state[e] = "dropped"
               PROVE  /\ ~Lives(e)
                      /\ \A c \in Playbooks : Decided(e, c)' => handoff[e][c] \in {"handed_off", "refused"}
    BY DEF SettledPart, Lives
  <2> QED BY DEF ChainInv, SettledPart
<1>5. RetriedPart'
  BY DEF ChainInv, RetriedPart
<1>6. ApartPart'
  <2> SUFFICES ASSUME NEW h \in Requests, supersedes[h] # None, NEW c \in Playbooks,
                      handoff[h][c] # "none", NEW e \in Chain(supersedes[h]), Decided(e, c)'
               PROVE  FALSE
    BY <1>1 DEF ApartPart
  <2>1. ~Decided(e, c)
    BY DEF ChainInv, ApartPart
  <2>2. e = d /\ supersedes[h] \in Requests
    BY <1>0, <2>1
  <2> QED BY <1>2, <2>2
<1>7. OncePart'
  <2> SUFFICES ASSUME NEW h \in Requests, NEW c \in Playbooks, NEW e \in Chain(h), NEW f \in Chain(h),
                      Decided(e, c)', Decided(f, c)', e # f
               PROVE  FALSE
    BY <1>1 DEF OncePart
  <2>1. ~(Decided(e, c) /\ Decided(f, c))
    BY DEF ChainInv, OncePart
  <2>2. c = b /\ (e = d \/ f = d) /\ h = d
    BY <1>2, <2>1
  <2>3. ASSUME NEW g \in Chain(d), g # d PROVE ~Decided(g, b)
    <3>1. supersedes[d] # None /\ g \in Chain(supersedes[d])
      BY <1>0, <2>3, ChainBelow
    <3> QED BY <3>1 DEF ChainInv, ApartPart
  <2> QED BY <2>2, <2>3
<1> QED BY <1>3, <1>4, <1>5, <1>6, <1>7 DEF ChainInv

(* reconcileDelivery gives a row to nothing that had none and takes none away,
   leaves alone what was dropped, and writes down what is decided. *)
LEMMA SettlesAlike ==
    ASSUME Inv, ChainInv, NEW r \in Requests, pc[r] = "deciding", Lives(r)
    PROVE  /\ \A d \in Requests : \A b \in Playbooks :
                /\ HandOffAfter(r)[d][b] = "none" <=> handoff[d][b] = "none"
                /\ state[d] = "dropped" => HandOffAfter(r)[d][b] = handoff[d][b]
           /\ Reconciles(r) => \A b \in Playbooks :
                Decided(identity.delivery, b) =>
                    HandOffAfter(r)[identity.delivery][b] \in {"handed_off", "refused"}
<1> DEFINE e == identity.delivery
           after == HandOffAfter(r)
<1>1. /\ after \in [Requests -> [Playbooks -> HandOffStates]]
      /\ \A d \in Requests : \A b \in Playbooks :
           \/ after[d][b] = handoff[d][b]
           \/ /\ d = e /\ Reconciles(r)
              /\ handoff[d][b] \in {"pending", "waiting"}
              /\ after[d][b] = Decision(d, b)
      /\ Reconciles(r) =>
           /\ e \in Requests /\ state[e] \in {"accepted", "waiting"}
           /\ \A b \in Playbooks : after[e][b] \notin {"pending", "waiting"}
  BY Settles
<1> HIDE DEF e, after
<1>2. \A d, b : Decision(d, b) \in {"handed_off", "refused", "dropped"}
  BY DecisionIsRecorded
<1>3. ASSUME NEW d \in Requests, NEW b \in Playbooks
      PROVE  /\ after[d][b] = "none" <=> handoff[d][b] = "none"
             /\ state[d] = "dropped" => after[d][b] = handoff[d][b]
  BY <1>1, <1>2, <1>3
<1>4. ASSUME Reconciles(r), NEW b \in Playbooks, Decided(e, b)
      PROVE  after[e][b] \in {"handed_off", "refused"}
  <2>1. e \in Requests /\ state[e] \in {"accepted", "waiting"} /\ after[e][b] \notin {"pending", "waiting"}
    BY <1>1, <1>4
  <2>2. handoff[e][b] # "none" /\ handoff[e][b] # "dropped" /\ handoff[e][b] \in HandOffStates
    BY <1>4, <2>1 DEF ChainInv, HandedPart, Inv, DroppedPart, TypeInv
  <2>3. Decision(e, b) \in {"handed_off", "refused"}
    BY <1>4 DEF Decision, Decided
  <2>4. after[e][b] = handoff[e][b] \/ after[e][b] = Decision(e, b)
    BY <1>1, <2>1
  <2> QED BY <2>1, <2>2, <2>3, <2>4 DEF HandOffStates
<1> QED BY <1>3, <1>4 DEF e, after

LEMMA AcceptRepeatChain ==
    ASSUME Inv, ChainInv, NEW r \in Requests, AcceptRepeat(r)
    PROVE  ChainInv'
<1> DEFINE e == identity.delivery
<1>1. pc[r] = "deciding" /\ Lives(r) /\ StateAfter(r) # "dropped"
  BY DEF AcceptRepeat, Retries
<1>2. /\ seen[r] = identity /\ e \in Requests /\ state \in [Requests -> DeliveryStates]
  BY <1>1, AcceptRepeatDoes, Sees DEF Inv, TypeInv
<1>3. /\ state' = [state EXCEPT ![e] = StateAfter(r)] /\ handoff' = HandOffAfter(r)
      /\ waits' = WaitsAfter(r)
      /\ UNCHANGED <<supersedes, runs, refusals, pending, task, deciding, process, alive>>
  BY <1>2 DEF AcceptRepeat, handing
<1>4. /\ ~Reconciles(r) => StateAfter(r) = state[e]
      /\ Reconciles(r) => state[e] \in {"accepted", "waiting"}
  BY <1>1, Settles
<1> HIDE DEF e
<1>5. state[e] # "dropped"
  BY <1>1, <1>4
<1>6. \A d \in Requests : /\ state'[d] = "dropped" <=> state[d] = "dropped"
                          /\ state[d] = "dropped" => ~Lives(d)'
  <2>1. \A d \in Requests : state'[d] = "dropped" <=> state[d] = "dropped"
    BY <1>1, <1>2, <1>3, <1>5
  <2>2. \A d \in Requests : state[d] = "dropped" => ~Lives(d)'
    BY <1>3 DEF ChainInv, SettledPart, Lives
  <2> QED BY <2>1, <2>2
<1>7. waits' \subseteq waits
  BY <1>3 DEF WaitsAfter
<1>8. \A d \in Requests : \A b \in Playbooks :
         /\ handoff'[d][b] = "none" <=> handoff[d][b] = "none"
         /\ state[d] = "dropped" => handoff'[d][b] = handoff[d][b]
  BY <1>1, <1>3, SettlesAlike
<1>9. \A d \in Requests : \A b \in Playbooks : AtWork(d, b)' => handoff[d][b] # "none"
  BY <1>3, <1>7 DEF ChainInv, HandedPart, AtWork
<1> QED BY <1>3, <1>6, <1>8, <1>9, QuietChain

(* A retry is added at the head of the chain of what it retries. *)
LEMMA ChainGrows ==
    ASSUME TypeInv, TypeInv', NEW r \in Requests,
           \A y \in Requests : supersedes[y] # r,
           NEW e, supersedes' = [supersedes EXCEPT ![r] = e], e # r
    PROVE  /\ \A d \in Requests \ {r} : Chain(d)' = Chain(d) /\ r \notin Chain(d)
           /\ \A x \in Chain(r)' : x = r \/ (e # None /\ x \in Chain(e))
<1>1. supersedes \in [Requests -> Requests \cup {None}] /\ e \in Requests \cup {None}
  BY DEF TypeInv
<1>2. \A x \in Requests : supersedes'[x] = IF x = r THEN e ELSE supersedes[x]
  BY <1>1
<1>3. \A S : Closed(S)' <=> \A x \in S : supersedes'[x] # None => supersedes'[x] \in S
  BY DEF Closed
<1>4. \A d : Chain(d)' = {x \in Requests : \A S \in SUBSET Requests : d \in S /\ Closed(S)' => x \in S}
  BY DEF Chain, Closed
<1>5. ASSUME NEW d \in Requests \ {r} PROVE Chain(d)' = Chain(d) /\ r \notin Chain(d)
  <2> PICK C : C = Chain(d)
    OBVIOUS
  <2>1. r \notin C
    BY ChainBelow
  <2>2. /\ C \in SUBSET Requests /\ d \in C /\ Closed(C)
        /\ \A S \in SUBSET Requests : d \in S /\ Closed(S) => C \subseteq S
    BY ChainIsLeast
  <2>3. Closed(C)'
    BY <1>2, <1>3, <2>1, <2>2 DEF Closed
  <2>4. ASSUME NEW S \in SUBSET Requests, Closed(S)' PROVE Closed(S \cap C)
    BY <1>2, <1>3, <2>1, <2>2, <2>4 DEF Closed
  <2>5. Chain(d)' \subseteq C
    BY <1>4, <2>2, <2>3
  <2>6. C \subseteq Chain(d)'
    <3> SUFFICES ASSUME NEW x \in C, NEW S \in SUBSET Requests, d \in S, Closed(S)'
                 PROVE  x \in S
      BY <1>4, <2>2
    <3>1. Closed(S \cap C) /\ d \in S \cap C /\ S \cap C \in SUBSET Requests
      BY <2>2, <2>4
    <3> QED BY <2>2, <3>1
  <2> QED BY <2>1, <2>5, <2>6
<1>6. ASSUME NEW x \in Chain(r)', x # r PROVE e # None /\ x \in Chain(e)
  <2>1. ASSUME NEW S \in SUBSET Requests, r \in S, Closed(S)' PROVE x \in S
    BY <1>4, <1>6, <2>1
  <2>2. e # None
    <3> SUFFICES ASSUME e = None PROVE FALSE
      OBVIOUS
    <3>1. Closed({r})'
      BY <1>2, <1>3
    <3> QED BY <1>6, <2>1, <3>1
  <2> PICK C : C = Chain(e)
    OBVIOUS
  <2>3. C \in SUBSET Requests /\ e \in C /\ Closed(C) /\ r \notin C
    BY <1>1, <1>5, <2>2, ChainIsLeast
  <2>4. Closed({r} \cup C)'
    BY <1>2, <1>3, <2>3 DEF Closed
  <2> QED BY <1>6, <2>1, <2>2, <2>3, <2>4
<1> QED BY <1>5, <1>6

LEMMA AcceptNewChain ==
    ASSUME Inv, Inv', ChainInv, NEW r \in Requests, AcceptNew(r)
    PROVE  ChainInv'
<1> DEFINE after == HandOffAfter(r)
<1> PICK e : e = identity.delivery
  OBVIOUS
<1>0. TypeInv /\ TypeInv' /\ HandedPart /\ SettledPart /\ RetriedPart /\ ApartPart /\ OncePart
  BY DEF Inv, ChainInv
<1>1. /\ pc[r] = "deciding" /\ Lives(r) /\ task' = [task EXCEPT ![r] = "reading"]
      /\ UNCHANGED <<runs, refusals, pending, deciding, process, alive>>
  BY DEF AcceptNew
<1>2. /\ seen[r] = identity /\ state[r] = "none" /\ e # r
      /\ ~PastWindow(r) => e \in Requests
      /\ e # None => state[e] # "none"
  BY <1>1, Sees
<1>3. /\ \A d \in Requests : \A b \in Playbooks :
           /\ after[d][b] = "none" <=> handoff[d][b] = "none"
           /\ state[d] = "dropped" => after[d][b] = handoff[d][b]
      /\ Reconciles(r) => \A b \in Playbooks :
           Decided(e, b) => after[e][b] \in {"handed_off", "refused"}
  BY <1>1, SettlesAlike
<1>4. /\ after \in [Requests -> [Playbooks -> HandOffStates]]
      /\ Reconciles(r) => e \in Requests /\ ~Lives(e)
      /\ ~Reconciles(r) => StateAfter(r) = state[e]
  BY <1>1, Settles
<1>5. (Retries(r) <=> ~PastWindow(r)) /\ (Retries(r) => StateAfter(r) = "dropped")
  BY DEF AcceptNew, Retries
<1>6. /\ state'[r] = "accepted"
      /\ \A d \in Requests \ {r} :
           \/ state'[d] = state[d]
           \/ d = e /\ Retries(r) /\ state'[d] = "dropped"
  <2>1. /\ state'[r] = "accepted"
        /\ \A d \in Requests \ {r} : state'[d] = state[d] \/ (d = e /\ state'[d] = "dropped")
    BY AcceptNewDoes
  <2>2. PastWindow(r) => \A d \in Requests \ {r} : state'[d] = state[d]
    BY <1>5 DEF AcceptNew
  <2> QED BY <1>5, <2>1, <2>2
<1>7. Retries(r) => e \in Requests /\ state'[e] = "dropped"
  BY <1>5, AcceptNewDoes
<1>8. supersedes' = [supersedes EXCEPT ![r] = IF Retries(r) THEN e ELSE None]
  BY <1>2 DEF AcceptNew
<1>9. handoff' = [after EXCEPT ![r] =
                    [b \in Playbooks |-> IF b \in HandedTo(r) THEN "pending" ELSE "none"]]
  BY DEF AcceptNew
<1> HIDE DEF after
<1>10. /\ \A d \in Requests \ {r} : handoff'[d] = after[d]
       /\ \A b \in Playbooks : handoff'[r][b] # "none" => b \in HandedTo(r)
  BY <1>4, <1>9
<1>11. \A b \in Playbooks : ~Decided(r, b) /\ ~AtWork(r, b)
  BY <1>0, <1>2 DEF HandedPart, Inv, RowPart
<1>12. \A d, b : Decided(d, b)' <=> Decided(d, b)
  BY <1>1 DEF Decided
<1>13. waits' \subseteq waits
  BY DEF AcceptNew, WaitsAfter
<1>14. \A y \in Requests : supersedes[y] # r
  BY <1>2, DeliveryAssumption DEF Inv, SupersededPart, DeliveryAssumption
<1>15. None # r
  BY DeliveryAssumption DEF DeliveryAssumption
<1> PICK s : s = IF Retries(r) THEN e ELSE None
  OBVIOUS
<1>16. /\ \A d \in Requests \ {r} : Chain(d)' = Chain(d) /\ r \notin Chain(d)
       /\ \A x \in Chain(r)' : x = r \/ (s # None /\ x \in Chain(s))
  <2>1. supersedes' = [supersedes EXCEPT ![r] = s] /\ s # r
    BY <1>2, <1>8, <1>15
  <2> QED BY <1>0, <1>14, <2>1, ChainGrows
<1>17. \A d \in Requests : supersedes'[d] = IF d = r THEN s ELSE supersedes[d]
  BY <1>0, <1>8 DEF TypeInv
<1>18. HandedPart'
  <2>1. \A d \in Requests : \A b \in Playbooks : AtWork(d, b)' => AtWork(d, b)
    BY <1>0, <1>1, <1>13 DEF AtWork, TypeInv
  <2> QED BY <1>0, <1>3, <1>10, <1>11, <1>12, <2>1 DEF HandedPart
<1>19. SettledPart'
  <2> SUFFICES ASSUME NEW d \in Requests, state'[d] = "dropped"
               PROVE  /\ ~Lives(d)
                      /\ \A b \in Playbooks : Decided(d, b) => handoff'[d][b] \in {"handed_off", "refused"}
    BY <1>1, <1>12 DEF SettledPart, Lives
  <2>1. d # r
    BY <1>6
  <2>2. CASE state[d] = "dropped"
    BY <1>0, <1>3, <1>10, <2>1, <2>2 DEF SettledPart
  <2>3. CASE state[d] # "dropped"
    <3>1. d = e /\ Reconciles(r)
      BY <1>4, <1>5, <1>6, <2>1, <2>3
    <3> QED BY <1>3, <1>4, <1>10, <2>1, <3>1
  <2> QED BY <2>2, <2>3
<1>20. RetriedPart'
  <2> SUFFICES ASSUME NEW d \in Requests, supersedes'[d] # None PROVE state'[supersedes'[d]] = "dropped"
    BY DEF RetriedPart
  <2>1. CASE d = r
    BY <1>7, <1>17, <2>1
  <2>2. CASE d # r
    <3>1. supersedes'[d] = supersedes[d] /\ supersedes[d] \in Requests /\ state[supersedes[d]] = "dropped"
      BY <1>0, <1>17, <2>2 DEF RetriedPart, TypeInv
    <3> QED BY <1>2, <1>6, <3>1
  <2> QED BY <2>1, <2>2
<1>21. ASSUME Retries(r), NEW x \in Chain(e), NEW b \in Playbooks, Decided(x, b)
       PROVE  b \in DecidedInChain(e, after)
  <2>1. e \in Requests \ {r} /\ x \in Requests /\ x # r
    BY <1>0, <1>2, <1>7, <1>16, <1>21, ChainIsLeast
  <2>2. state'[x] = "dropped"
    <3>1. CASE x = e
      BY <1>7, <1>21, <3>1
    <3>2. CASE x # e
      <4>1. \E y \in Requests : supersedes[y] = x
        BY <1>0, <2>1, <3>2, ChainBelow
      <4>2. state[x] = "dropped"
        BY <1>0, <2>1, <4>1, DeliveryAssumption DEF RetriedPart, DeliveryAssumption
      <4> QED BY <1>6, <2>1, <4>2
    <3> QED BY <3>1, <3>2
  <2>3. handoff'[x][b] \in {"handed_off", "refused"}
    BY <1>12, <1>19, <1>21, <2>1, <2>2 DEF SettledPart
  <2> QED BY <1>10, <2>1, <2>3 DEF DecidedInChain
<1>22. ApartPart'
  <2> SUFFICES ASSUME NEW d \in Requests, supersedes'[d] # None, NEW b \in Playbooks,
                      handoff'[d][b] # "none", NEW x \in Chain(supersedes[d])', Decided(x, b)
               PROVE  FALSE
    BY <1>12 DEF ApartPart
  <2>1. CASE d = r
    <3>1. Retries(r) /\ supersedes'[d] = e /\ e \in Requests \ {r}
      BY <1>2, <1>7, <1>17, <2>1
    <3>2. x \in Chain(e)
      BY <1>16, <3>1
    <3>3. b \in DecidedInChain(e, after)
      BY <1>21, <3>1, <3>2
    <3>4. b \in HandedTo(r)
      BY <1>10, <2>1
    <3> QED BY <1>2, <3>1, <3>3, <3>4 DEF HandedTo, after
  <2>2. CASE d # r
    <3>1. supersedes'[d] = supersedes[d] /\ supersedes[d] \in Requests \ {r} /\ handoff[d][b] # "none"
      <4>1. supersedes'[d] = supersedes[d] /\ supersedes[d] # None
        BY <1>17, <2>2
      <4>2. supersedes[d] \in Requests \cup {None} /\ supersedes[d] # r
        BY <1>0, <1>14 DEF TypeInv
      <4>3. handoff[d][b] # "none"
        BY <1>3, <1>10, <2>2
      <4> QED BY <4>1, <4>2, <4>3
    <3>2. x \in Chain(supersedes[d])
      BY <1>16, <3>1
    <3> QED BY <1>0, <3>1, <3>2 DEF ApartPart
  <2> QED BY <2>1, <2>2
<1>23. OncePart'
  <2> SUFFICES ASSUME NEW d \in Requests, NEW b \in Playbooks, NEW x \in Chain(d)', NEW y \in Chain(d)',
                      Decided(x, b), Decided(y, b)
               PROVE  x = y
    BY <1>12 DEF OncePart
  <2>1. CASE d = r
    <3>1. x # r /\ y # r
      BY <1>11
    <3>2. s # None /\ x \in Chain(s) /\ y \in Chain(s)
      BY <1>16, <2>1, <3>1
    <3>3. s \in Requests
      BY <1>7, <3>2
    <3> QED BY <1>0, <3>2, <3>3 DEF OncePart
  <2>2. CASE d # r
    BY <1>0, <1>16, <2>2 DEF OncePart
  <2> QED BY <2>1, <2>2
<1> QED BY <1>18, <1>19, <1>20, <1>22, <1>23 DEF ChainInv

(* The steps of a request, of which two record. *)
LEMMA RequestChain ==
    ASSUME Inv, Inv', ChainInv, NEW r \in Requests, RequestStep(r)
    PROVE  ChainInv'
<1>1. CASE AcceptNew(r)
  BY <1>1, AcceptNewChain
<1>2. CASE AcceptRepeat(r)
  BY <1>2, AcceptRepeatChain
<1>3. CASE \/ Receive(r) \/ TurnAway(r) \/ RefuseIdentity(r) \/ Answer(r)
           \/ DurableStepPasses(r) \/ BeginImmediate(r) \/ AcceptFails(r)
  <2>1. /\ UNCHANGED <<state, supersedes, handoff, runs, refusals, waits, pending, task, deciding,
                       alive>>
        /\ Receive(r) \/ UNCHANGED process
    BY <1>3 DEF Receive, TurnAway, RefuseIdentity, Answer, DurableStepPasses, BeginImmediate,
       AcceptFails, rows, decision, handing
  <2>2. \A d \in Requests : state[d] = "dropped" => ~Lives(d)'
    <3> SUFFICES ASSUME NEW d \in Requests, state[d] = "dropped" PROVE ~Lives(d)'
      OBVIOUS
    <3>1. ~Lives(d)
      BY DEF ChainInv, SettledPart
    <3>2. CASE Receive(r)
      <4>1. d # r
        BY <3>2 DEF Receive, Inv, RowPart
      <4>2. process'[d] = process[d]
        BY <3>2, <4>1 DEF Receive, Inv, TypeInv
      <4> QED BY <2>1, <3>1, <4>2 DEF Lives
    <3>3. CASE UNCHANGED process
      BY <2>1, <3>1, <3>3 DEF Lives
    <3> QED BY <2>1, <3>2, <3>3
  <2>3. \A d \in Requests : \A b \in Playbooks : AtWork(d, b)' => handoff[d][b] # "none"
    BY <2>1 DEF ChainInv, HandedPart, AtWork
  <2> QED BY <2>1, <2>2, <2>3, QuietChain
<1> QED BY <1>1, <1>2, <1>3 DEF RequestStep

(* finishDelivery drops nothing that was not. *)
LEMMA FinishedKeeps ==
    ASSUME NEW d, \A b \in Playbooks : handoff[d][b] # "dropped"
    PROVE  Finished(d) # "dropped"
<1> DEFINE states == {handoff[d][b] : b \in Playbooks} \ {"none"}
<1>1. Finished(d) = CASE states = {} -> "unbound"
                      [] "dropped" \in states -> "dropped"
                      [] states \cap {"pending", "waiting"} # {} -> "waiting"
                      [] OTHER -> "handed_off"
  BY DEF Finished
<1>2. "dropped" \notin states
  OBVIOUS
<1> HIDE DEF states
<1>3. CASE states = {}
  BY <1>1, <1>2, <1>3
<1>4. CASE states # {} /\ states \cap {"pending", "waiting"} # {}
  BY <1>1, <1>2, <1>4
<1>5. CASE states # {} /\ states \cap {"pending", "waiting"} = {}
  BY <1>1, <1>2, <1>5
<1> QED BY <1>3, <1>4, <1>5

(* A hand-off reads what it has to decide. *)
LEMMA HandOffReadsChain ==
    ASSUME Inv, ChainInv, NEW d \in Requests, HandOffReads(d)
    PROVE  ChainInv'
<1>1. /\ UNCHANGED <<state, supersedes, handoff, runs, refusals, waits, deciding, alive, process>>
      /\ pending' = [pending EXCEPT ![d] = {b \in Playbooks : handoff[d][b] = "pending"}]
      /\ task' = [task EXCEPT ![d] = "next"]
  BY DEF HandOffReads, rows, decision, request
<1>2. \A e \in Requests : state[e] = "dropped" => ~Lives(e)'
  BY <1>1 DEF ChainInv, SettledPart, Lives
<1>3. \A e \in Requests : \A b \in Playbooks :
         AtWork(e, b)' => AtWork(e, b) \/ handoff[e][b] = "pending"
  BY <1>1 DEF AtWork, Inv, TypeInv
<1>4. \A e \in Requests : \A b \in Playbooks : AtWork(e, b)' => handoff[e][b] # "none"
  BY <1>3 DEF ChainInv, HandedPart
<1> QED BY <1>1, <1>2, <1>4, QuietChain

(* It writes the row of what it has at hand, which there is. *)
LEMMA SetHandOffStateChain ==
    ASSUME Inv, ChainInv, NEW d \in Requests, SetHandOffState(d)
    PROVE  ChainInv'
<1> DEFINE p == deciding[d].playbook
<1>1. /\ UNCHANGED <<state, supersedes, runs, refusals, waits, pending, alive, process>>
      /\ Lives(d) /\ task[d] = "writing" /\ task' = [task EXCEPT ![d] = "next"]
      /\ deciding' = [deciding EXCEPT ![d] = Nothing]
      /\ handoff' = [handoff EXCEPT ![d][p] = deciding[d].state]
  BY DEF SetHandOffState, rows, decision, request
<1>2. p \in Playbooks /\ deciding[d].state \in {"waiting", "handed_off", "refused"}
  BY <1>1 DEF Inv, DecidingPart
<1>3. handoff[d][p] # "none"
  BY <1>1, <1>2 DEF AtWork, ChainInv, HandedPart
<1>4. \A e \in Requests : state[e] = "dropped" => ~Lives(e)' /\ e # d
  BY <1>1 DEF ChainInv, SettledPart, Lives
<1>5. \A e \in Requests : \A b \in Playbooks : AtWork(e, b)' => handoff[e][b] # "none"
  <2>1. \A e \in Requests : \A b \in Playbooks : AtWork(e, b)' => AtWork(e, b)
    BY <1>1 DEF AtWork, Inv, TypeInv
  <2> QED BY <2>1 DEF ChainInv, HandedPart
<1> HIDE DEF p
<1>6. \A e \in Requests : \A b \in Playbooks :
         handoff'[e][b] = IF e = d /\ b = p THEN deciding[d].state ELSE handoff[e][b]
  BY <1>1, <1>2 DEF Inv, TypeInv
<1>7. \A e \in Requests : \A b \in Playbooks :
         /\ handoff'[e][b] = "none" <=> handoff[e][b] = "none"
         /\ state[e] = "dropped" => handoff'[e][b] = handoff[e][b]
  BY <1>2, <1>3, <1>4, <1>6
<1> QED BY <1>1, <1>4, <1>5, <1>7, QuietChain

(* It ends, and drops nothing. *)
LEMMA FinishDeliveryChain ==
    ASSUME Inv, ChainInv, NEW d \in Requests, FinishDelivery(d)
    PROVE  ChainInv'
<1>1. /\ UNCHANGED <<supersedes, handoff, runs, refusals, waits, pending, deciding, alive, process>>
      /\ Lives(d) /\ state' = [state EXCEPT ![d] = Finished(d)]
      /\ task' = [task EXCEPT ![d] = "ended"]
  BY DEF FinishDelivery, decision, request
<1>2. Finished(d) # "dropped"
  <2>1. \A b \in Playbooks : handoff[d][b] # "dropped"
    BY <1>1 DEF Inv, DroppedPart
  <2> QED BY <2>1, FinishedKeeps
<1>3. \A e \in Requests : state[e] = "dropped" => ~Lives(e)' /\ e # d
  BY <1>1 DEF ChainInv, SettledPart, Lives
<1>4. \A e \in Requests : state'[e] = "dropped" <=> state[e] = "dropped"
  BY <1>1, <1>2, <1>3 DEF Inv, TypeInv
<1>5. \A e \in Requests : \A b \in Playbooks : AtWork(e, b)' => handoff[e][b] # "none"
  <2>1. \A e \in Requests : \A b \in Playbooks : AtWork(e, b)' => AtWork(e, b)
    BY <1>1 DEF AtWork, Inv, TypeInv
  <2> QED BY <2>1 DEF ChainInv, HandedPart
<1> QED BY <1>1, <1>3, <1>4, <1>5, QuietChain

(* It decides one of the playbooks, or has it wait. *)
LEMMA DecideChain ==
    ASSUME Inv, ChainInv, NEW d \in Requests, NEW b \in Playbooks,
           RefuseValue(d, b) \/ DispatchRuns(d, b) \/ DispatchWaits(d, b)
    PROVE  ChainInv'
<1>1. PICK outcome : Decide(d, b, outcome)
  BY DEF RefuseValue, DispatchRuns, DispatchWaits
<1>2. /\ UNCHANGED <<state, supersedes, handoff, alive, process>>
      /\ Lives(d) /\ b \in pending[d] /\ pending' = [pending EXCEPT ![d] = @ \ {b}]
      /\ deciding' = [deciding EXCEPT ![d] = [playbook |-> b, state |-> outcome]]
      /\ task' = [task EXCEPT ![d] = "writing"]
  BY <1>1 DEF Decide, rows, request
<1>3. \/ /\ waits' = waits \cup {<<d, b>>} /\ UNCHANGED <<runs, refusals>>
      \/ /\ UNCHANGED waits
         /\ \/ refusals' = refusals \cup {<<d, b>>} /\ UNCHANGED runs
            \/ runs' = runs \cup {<<d, b>>} /\ UNCHANGED refusals
  BY DEF RefuseValue, DispatchRuns, DispatchWaits
<1>4. handoff[d][b] # "none"
  BY <1>2 DEF AtWork, ChainInv, HandedPart
<1>5. \A e \in Requests : \A c \in Playbooks : AtWork(e, c)' => handoff[e][c] # "none"
  <2>1. \A e \in Requests : \A c \in Playbooks : AtWork(e, c)' => AtWork(e, c) \/ (e = d /\ c = b)
    <3> SUFFICES ASSUME NEW e \in Requests, NEW c \in Playbooks, AtWork(e, c)', ~(e = d /\ c = b)
                 PROVE  AtWork(e, c)
      OBVIOUS
    <3>1. <<e, c>> \in waits' => <<e, c>> \in waits
      BY <1>3
    <3>2. c \in pending'[e] => c \in pending[e]
      BY <1>2 DEF Inv, TypeInv
    <3>3. task'[e] = "writing" /\ deciding'[e].playbook = c =>
             task[e] = "writing" /\ deciding[e].playbook = c
      BY <1>2 DEF Inv, TypeInv
    <3> QED BY <3>1, <3>2, <3>3 DEF AtWork
  <2> QED BY <1>4, <2>1 DEF ChainInv, HandedPart
<1>6. CASE UNCHANGED <<runs, refusals>>
  <2>1. \A e \in Requests : state[e] = "dropped" => ~Lives(e)'
    BY <1>2 DEF ChainInv, SettledPart, Lives
  <2> QED BY <1>2, <1>5, <1>6, <2>1, QuietChain
<1>7. CASE \/ refusals' = refusals \cup {<<d, b>>} /\ UNCHANGED runs
           \/ runs' = runs \cup {<<d, b>>} /\ UNCHANGED refusals
  <2>1. \A e, c : Decided(e, c)' => Decided(e, c) \/ (e = d /\ c = b)
    BY <1>7 DEF Decided
  <2> QED BY <1>2, <1>4, <1>5, <2>1, DecidesChain
<1> QED BY <1>3, <1>6, <1>7

(* A wait ends in a decision, or with its process. *)
LEMMA WaitChain ==
    ASSUME Inv, ChainInv, NEW d \in Requests, NEW b \in Playbooks,
           WaitEnds(d, b) \/ WaitDropped(d, b)
    PROVE  ChainInv'
<1>1. /\ UNCHANGED <<state, supersedes, handoff, alive, process, task, pending, deciding>>
      /\ waits' \subseteq waits
  BY DEF WaitEnds, WaitDropped, rows, request, handing
<1>2. \A e \in Requests : \A c \in Playbooks : AtWork(e, c)' => handoff[e][c] # "none"
  BY <1>1 DEF AtWork, ChainInv, HandedPart
<1>3. CASE WaitEnds(d, b)
  <2>1. /\ Lives(d) /\ <<d, b>> \in waits
        /\ \A e, c : Decided(e, c)' => Decided(e, c) \/ (e = d /\ c = b)
    BY <1>3 DEF WaitEnds, Decided
  <2>2. handoff[d][b] # "none"
    BY <2>1 DEF AtWork, ChainInv, HandedPart
  <2> QED BY <1>1, <1>2, <2>1, <2>2, DecidesChain
<1>4. CASE WaitDropped(d, b)
  <2>1. UNCHANGED <<runs, refusals>>
    BY <1>4 DEF WaitDropped
  <2>2. \A e \in Requests : state[e] = "dropped" => ~Lives(e)'
    BY <1>1 DEF ChainInv, SettledPart, Lives
  <2> QED BY <1>1, <1>2, <2>1, <2>2, QuietChain
<1> QED BY <1>3, <1>4

(* A hand-off that fails, a process that dies, the clock, and nothing at all. *)
LEMMA OtherChain ==
    ASSUME Inv, ChainInv,
           \/ \E d \in Requests : HandOffFails(d)
           \/ \E p \in Processes : Die(p)
           \/ SetClock
           \/ UNCHANGED vars
    PROVE  ChainInv'
<1>1. /\ UNCHANGED <<state, supersedes, handoff, runs, refusals, waits, pending, deciding, process>>
      /\ alive' \subseteq alive
      /\ (\E d \in Requests : task' = [task EXCEPT ![d] = "ended"]) \/ UNCHANGED task
  <2>1. CASE \E d \in Requests : HandOffFails(d)
    BY <2>1 DEF HandOffFails, rows, decision, request
  <2>2. CASE \E p \in Processes : Die(p)
    BY <2>2 DEF Die, rows, decision, request, handing
  <2>3. CASE SetClock
    BY <2>3 DEF SetClock, rows, decision, request, handing
  <2>4. CASE UNCHANGED vars
    BY <2>4 DEF vars, rows, decision, request, handing
  <2> QED BY <2>1, <2>2, <2>3, <2>4
<1>2. \A e \in Requests : state[e] = "dropped" => ~Lives(e)'
  BY <1>1 DEF ChainInv, SettledPart, Lives
<1>3. \A e \in Requests : \A c \in Playbooks : AtWork(e, c)' => AtWork(e, c)
  BY <1>1 DEF AtWork, Inv, TypeInv
<1>4. \A e \in Requests : \A c \in Playbooks : AtWork(e, c)' => handoff[e][c] # "none"
  BY <1>3 DEF ChainInv, HandedPart
<1> QED BY <1>1, <1>2, <1>4, QuietChain

LEMMA InitChain == Init => ChainInv
<1> SUFFICES ASSUME Init PROVE ChainInv
  OBVIOUS
<1>1. \A d, b : ~Decided(d, b)
  BY DEF Init, Decided
<1>2. \A d \in Requests : \A b \in Playbooks : ~AtWork(d, b)
  BY DEF Init, AtWork
<1>3. HandedPart /\ SettledPart /\ RetriedPart
  BY <1>1, <1>2 DEF Init, HandedPart, SettledPart, RetriedPart
<1>4. ApartPart /\ OncePart
  BY <1>1 DEF ApartPart, OncePart
<1> QED BY <1>3, <1>4 DEF ChainInv

LEMMA NextChain == ASSUME Inv, Inv', ChainInv, [Next]_vars PROVE ChainInv'
<1>1. ASSUME NEW r \in Requests, RequestStep(r) PROVE ChainInv'
  BY <1>1, RequestChain
<1>2. ASSUME NEW r \in Requests, HandOffStep(r) PROVE ChainInv'
  BY <1>2, HandOffReadsChain, SetHandOffStateChain, FinishDeliveryChain, DecideChain, Zenon
     DEF HandOffStep
<1>3. ASSUME NEW r \in Requests, WaitStep(r) PROVE ChainInv'
  BY <1>3, WaitChain, Zenon DEF WaitStep
<1> QED BY <1>1, <1>2, <1>3, OtherChain, Zenon DEF Next

(* The second inductive invariant: what a chain of retries has decided, its
   hand-offs say, and the last of the chain was not handed again. *)
THEOREM ChainInvariance == Spec => []ChainInv
<1>1. Inv /\ Inv' /\ ChainInv /\ [Next]_vars => ChainInv'
  BY NextChain
<1> QED BY <1>1, InitChain, Invariance, PTL DEF Spec

-----------------------------------------------------------------------------
(***************************************************************************)
(* Repeats.  The third invariant rests on the first: the repeats recorded  *)
(* and the repeats counted are as many.                                    *)
(***************************************************************************)

(* The requests whose acceptance was recorded as a repeat. *)
Repeated == {r \in Requests \ Rows : pc[r] = "recorded"}

CountInv ==
    /\ repeats \in [Requests -> Nat]
    /\ answer \in [Requests -> {"none", "accepted", "not_accepted", "bad_request", "refused"}]
    /\ \A r \in Requests : answer[r] = "accepted" => pc[r] = "recorded"
    /\ \A r \in Requests : state[r] = "none" => repeats[r] = 0
    /\ IsFiniteSet(Repeated) /\ IsFiniteSet(Counted)
    /\ Cardinality(Repeated) = Cardinality(Counted)

(* What is counted, by its members. *)
LEMMA CountedIs ==
    \A c : c \in Counted <=> \E d \in Rows : \E n \in 1..repeats[d] : c = <<d, n>>
  BY DEF Counted

(* A step that records and counts nothing, and tells no sender too much. *)
LEMMA CountStands ==
    ASSUME CountInv, UNCHANGED repeats,
           answer' \in [Requests -> {"none", "accepted", "not_accepted", "bad_request", "refused"}],
           \A r \in Requests : state'[r] = "none" <=> state[r] = "none",
           \A r \in Requests : pc'[r] = "recorded" <=> pc[r] = "recorded",
           \A r \in Requests : answer'[r] = "accepted" => answer[r] = "accepted" \/ pc[r] = "recorded"
    PROVE  CountInv'
<1>1. Rows' = Rows
  BY DEF Rows
<1>2. Counted' = Counted
  BY <1>1 DEF Counted
<1>3. Repeated' = Repeated
  BY <1>1 DEF Repeated
<1> QED BY <1>2, <1>3 DEF CountInv

(* A request that is answered a repeat is counted by the commit that says so. *)
LEMMA RequestCounts ==
    ASSUME Inv, CountInv, NEW r \in Requests, RequestStep(r) PROVE CountInv'
<1> DEFINE Answers == {"none", "accepted", "not_accepted", "bad_request", "refused"}
<1>0. /\ pc \in [Requests -> Places] /\ answer \in [Requests -> Answers]
      /\ repeats \in [Requests -> Nat] /\ state \in [Requests -> DeliveryStates]
  BY DEF Inv, TypeInv, CountInv
<1>1. CASE Receive(r)
  BY <1>0, <1>1, CountStands DEF Receive, rows
<1>2. CASE TurnAway(r)
  BY <1>0, <1>2, CountStands DEF TurnAway, rows
<1>3. CASE RefuseIdentity(r)
  BY <1>0, <1>3, CountStands DEF RefuseIdentity, rows
<1>4. CASE Answer(r)
  BY <1>0, <1>4, CountStands DEF Answer, rows
<1>5. CASE DurableStepPasses(r)
  BY <1>0, <1>5, CountStands DEF DurableStepPasses, rows
<1>6. CASE BeginImmediate(r)
  BY <1>0, <1>6, CountStands DEF BeginImmediate, rows
<1>7. CASE AcceptFails(r)
  BY <1>0, <1>7, CountStands DEF AcceptFails, rows
<1>8. CASE AcceptNew(r)
  <2>1. /\ state[r] = "none" /\ state'[r] = "accepted"
        /\ \A d \in Requests \ {r} : state'[d] = "none" <=> state[d] = "none"
    BY <1>8, AcceptNewDoes
  <2>2. /\ UNCHANGED <<repeats, answer>> /\ pc[r] = "deciding"
        /\ pc' = [pc EXCEPT ![r] = "recorded"]
    BY <1>8 DEF AcceptNew
  <2>3. Rows' = Rows \cup {r} /\ r \notin Rows
    BY <2>1 DEF Rows
  <2>4. Repeated' = Repeated
    BY <1>0, <2>2, <2>3 DEF Repeated
  <2>5. repeats[r] = 0
    BY <2>1 DEF CountInv
  <2>6. Counted' = Counted
    BY <2>2, <2>3, <2>5 DEF Counted
  <2> QED BY <1>0, <2>1, <2>2, <2>4, <2>6 DEF CountInv
<1>9. CASE AcceptRepeat(r)
  <2> DEFINE e == identity.delivery
  <2>1. /\ e \in Requests /\ state[e] # "none" /\ seen[r] = identity
        /\ state[r] = "none"
    BY <1>9, AcceptRepeatDoes, Sees DEF AcceptRepeat
  <2>2. /\ \A d \in Requests \ {e} : state'[d] = state[d]
        /\ state'[e] # "none"
    BY <1>9, <2>1, AcceptRepeatDoes
  <2>3. /\ UNCHANGED answer /\ pc[r] = "deciding"
        /\ pc' = [pc EXCEPT ![r] = "recorded"]
        /\ repeats' = [repeats EXCEPT ![e] = @ + 1]
    BY <1>9, <2>1 DEF AcceptRepeat
  <2>4. Rows' = Rows /\ e \in Rows /\ r \notin Rows
    BY <2>1, <2>2 DEF Rows
  <2>5. Repeated' = Repeated \cup {r} /\ r \notin Repeated
    BY <1>0, <2>3, <2>4 DEF Repeated
  <2>6. repeats' \in [Requests -> Nat] /\ repeats'[e] = repeats[e] + 1 /\ repeats[e] \in Nat
        /\ \A d \in Requests \ {e} : repeats'[d] = repeats[d]
    BY <1>0, <2>1, <2>3
  <2>7. Counted' = Counted \cup {<<e, repeats[e] + 1>>}
    <3>1. ASSUME NEW c PROVE c \in Counted' <=> c \in Counted \/ c = <<e, repeats[e] + 1>>
      <4>1. c \in Counted' <=> \E d \in Rows : \E n \in 1..repeats'[d] : c = <<d, n>>
        BY <2>4, CountedIs DEF Counted
      <4>2. c \in Counted <=> \E d \in Rows : \E n \in 1..repeats[d] : c = <<d, n>>
        BY CountedIs
      <4>3. 1..repeats'[e] = (1..repeats[e]) \cup {repeats[e] + 1}
        BY <2>6
      <4>4. \A d \in Rows : d # e => repeats'[d] = repeats[d]
        BY <2>6 DEF Rows
      <4> QED BY <4>1, <4>2, <4>3, <4>4, <2>4
    <3> QED BY <3>1
  <2>8. <<e, repeats[e] + 1>> \notin Counted
    <3>1. \A n \in 1..repeats[e] : n # repeats[e] + 1
      BY <2>6
    <3> QED BY <3>1, CountedIs
  <2>9. /\ IsFiniteSet(Repeated') /\ IsFiniteSet(Counted')
        /\ Cardinality(Repeated') = Cardinality(Repeated) + 1
        /\ Cardinality(Counted') = Cardinality(Counted) + 1
    BY <2>5, <2>7, <2>8, FS_AddElement DEF CountInv
  <2>10. /\ \A d \in Requests : state'[d] = "none" => repeats'[d] = 0
         /\ \A d \in Requests : answer'[d] = "accepted" => pc'[d] = "recorded"
    BY <1>0, <2>1, <2>2, <2>3, <2>6 DEF CountInv
  <2> QED BY <1>0, <2>3, <2>6, <2>9, <2>10 DEF CountInv
<1> QED BY <1>1, <1>2, <1>3, <1>4, <1>5, <1>6, <1>7, <1>8, <1>9 DEF RequestStep

(* Hand-offs, deaths and the clock record and count nothing. *)
LEMMA OtherCounts ==
    ASSUME Inv, CountInv,
           \/ \E d \in Requests : HandOffStep(d) \/ HandOffFails(d) \/ WaitStep(d)
           \/ \E p \in Processes : Die(p)
           \/ SetClock
           \/ UNCHANGED vars
    PROVE  CountInv'
<1>0. /\ answer \in [Requests -> {"none", "accepted", "not_accepted", "bad_request", "refused"}]
      /\ state \in [Requests -> DeliveryStates]
  BY DEF Inv, TypeInv, CountInv
<1>1. ASSUME NEW d \in Requests, FinishDelivery(d) PROVE CountInv'
  <2>1. state[d] # "none" /\ Finished(d) # "none"
    BY <1>1 DEF FinishDelivery, Inv, RowPart, Finished
  <2>2. UNCHANGED <<repeats, answer, pc>> /\ state' = [state EXCEPT ![d] = Finished(d)]
    BY <1>1 DEF FinishDelivery, request
  <2> QED BY <1>0, <2>1, <2>2, CountStands
<1>2. ASSUME UNCHANGED <<repeats, answer, pc, state>> PROVE CountInv'
  BY <1>0, <1>2, CountStands
<1>3. ASSUME NEW d \in Requests, HandOffStep(d) PROVE CountInv'
  <2>1. CASE HandOffReads(d)
    BY <1>2, <2>1 DEF HandOffReads, request, rows
  <2>2. CASE SetHandOffState(d)
    BY <1>2, <2>2 DEF SetHandOffState, request, rows
  <2>3. CASE \E b \in Playbooks : RefuseValue(d, b) \/ DispatchRuns(d, b) \/ DispatchWaits(d, b)
    BY <1>2, <2>3 DEF RefuseValue, DispatchRuns, DispatchWaits, Decide, request, rows
  <2> QED BY <1>1, <1>3, <2>1, <2>2, <2>3 DEF HandOffStep
<1>4. ASSUME NEW d \in Requests, HandOffFails(d) \/ WaitStep(d) PROVE CountInv'
  BY <1>2, <1>4 DEF HandOffFails, WaitStep, WaitEnds, WaitDropped, request, rows
<1>5. ASSUME (\E p \in Processes : Die(p)) \/ SetClock \/ UNCHANGED vars PROVE CountInv'
  BY <1>2, <1>5 DEF Die, SetClock, vars, request, rows
<1> QED BY <1>3, <1>4, <1>5

(* The third inductive invariant: as many repeats are counted as were recorded,
   and a sender is told accepted after the commit. *)
THEOREM CountInvariance == Spec => []CountInv
<1>1. Init => CountInv
  <2> SUFFICES ASSUME Init PROVE CountInv
    OBVIOUS
  <2>1. Rows = {} /\ Repeated = {}
    BY DEF Init, Rows, Repeated
  <2>2. Counted = {}
    BY <2>1 DEF Counted
  <2> QED BY <2>1, <2>2, FS_EmptySet DEF Init, CountInv
<1>2. Inv /\ CountInv /\ [Next]_vars => CountInv'
  BY RequestCounts, OtherCounts, Zenon DEF Next
<1> QED BY <1>1, <1>2, Invariance, PTL DEF Spec

-----------------------------------------------------------------------------
(* FR-315, finishDelivery and reconcileDelivery: a delivery that reads handed off,
   and whose retry is a repeat, has every hand-off in a durable record, wherever
   the processes were killed. *)
THEOREM HandedOffIsInTheRecord == Spec => []HandedOffIsDecided
<1>1. Inv => HandedOffIsDecided
  BY DEF Inv
<1> QED BY <1>1, Invariance, PTL

(* FR-312 and A1, accept: what a sender was told is accepted is in the record, as a
   delivery of its own or counted on one, however many requests, retries and
   kills there are. *)
THEOREM AcceptedIsInTheRecord == Spec => []AcceptedIsRecorded
<1>1. ASSUME CountInv PROVE AcceptedIsRecorded
  <2> DEFINE T == {r \in Requests \ Rows : answer[r] = "accepted"}
  <2>1. T \subseteq Repeated
    BY <1>1 DEF CountInv, Repeated
  <2>2. Cardinality(T) <= Cardinality(Repeated)
    BY <1>1, <2>1, FS_Subset DEF CountInv
  <2> QED BY <1>1, <2>2 DEF CountInv, AcceptedIsRecorded
<1> QED BY <1>1, CountInvariance, PTL

(* FR-315 and A6, reconcileDelivery and decidedInChain: along a chain of retries,
   of any length, each playbook is decided once, wherever the processes were
   killed and however often the delivery was dropped. *)
THEOREM ChainDecidesOnce == Spec => []DecidedOnce
<1>1. ASSUME OncePart PROVE DecidedOnce
  <2> SUFFICES ASSUME NEW d \in Rows, NEW b \in Playbooks
               PROVE  Cardinality({e \in Chain(d) : Decided(e, b)}) <= 1
    BY DEF DecidedOnce
  <2> DEFINE T == {e \in Chain(d) : Decided(e, b)}
  <2>1. \A e, f \in T : e = f
    BY <1>1 DEF OncePart, Rows
  <2>2. CASE T = {}
    BY <2>2, FS_EmptySet
  <2>3. ASSUME NEW e \in T PROVE Cardinality(T) <= 1
    <3>1. T = {e}
      BY <2>1, <2>3
    <3> HIDE DEF T
    <3> QED BY <3>1, FS_Singleton
  <2> QED BY <2>2, <2>3
<1>2. ChainInv => DecidedOnce
  BY <1>1 DEF ChainInv
<1> QED BY <1>2, ChainInvariance, PTL

(* A6, judge and Accept: a dropped delivery is retried once, however many requests
   and processes come to it. *)
THEOREM DroppedIsRetriedOnce == Spec => []RetriedOnce
<1>1. Inv => RetriedOnce
  BY DEF Inv
<1> QED BY <1>1, Invariance, PTL

(* A4 and A5, Accept: whatever the processes and the clock do, a delivery is
   recorded a window after the date in the identity's row, or in the place of the
   dropped delivery the row points at. *)
THEOREM OneDeliveryPerWindow == Spec => OnePerWindow
<1> DEFINE A == \A r \in Requests : state[r] = "none" /\ state'[r] # "none" =>
                  \/ identity.delivery = None
                  \/ at[r] - identity.at >= Window
                  \/ supersedes'[r] = identity.delivery /\ state'[identity.delivery] = "dropped"
<1>1. ASSUME Inv, Next PROVE A
  <2> SUFFICES ASSUME NEW r \in Requests, state[r] = "none", state'[r] # "none"
               PROVE  \/ identity.delivery = None
                      \/ at[r] - identity.at >= Window
                      \/ /\ supersedes'[r] = identity.delivery
                         /\ state'[identity.delivery] = "dropped"
    OBVIOUS
  <2>1. ASSUME NEW q \in Requests, AcceptNew(q)
        PROVE  \/ identity.delivery = None
               \/ at[r] - identity.at >= Window
               \/ supersedes'[r] = identity.delivery /\ state'[identity.delivery] = "dropped"
    <3>1. q = r
      BY <1>1, <2>1, AcceptNewDoes
    <3>2. PastWindow(r) => identity.delivery = None \/ at[r] - identity.at >= Window
      BY <1>1, <2>1, <3>1, Sees DEF AcceptNew
    <3>3. supersedes \in [Requests -> Requests \cup {None}]
      BY <1>1 DEF Inv, TypeInv
    <3> QED BY <1>1, <2>1, <3>1, <3>2, <3>3, AcceptNewDoes
  <2>2. ASSUME NEW q \in Requests, AcceptRepeat(q) PROVE FALSE
    BY <1>1, <2>2, AcceptRepeatDoes
  <2>3. ASSUME NEW q \in Requests, FinishDelivery(q) PROVE FALSE
    <3>1. task[q] = "next" /\ state' = [state EXCEPT ![q] = Finished(q)]
      BY <2>3 DEF FinishDelivery
    <3>2. state \in [Requests -> DeliveryStates] /\ (state[r] = "none" => task[r] = "none")
      BY <1>1 DEF Inv, TypeInv, RowPart
    <3> QED BY <3>1, <3>2
  <2>4. CASE UNCHANGED state
    BY <2>4
  <2>5. ASSUME NEW q \in Requests, RequestStep(q) \/ HandOffStep(q) \/ HandOffFails(q) \/ WaitStep(q)
        PROVE  UNCHANGED state \/ AcceptNew(q) \/ AcceptRepeat(q) \/ FinishDelivery(q)
    <3>1. CASE RequestStep(q)
      BY <3>1 DEF RequestStep, Receive, TurnAway, RefuseIdentity, Answer, DurableStepPasses,
         BeginImmediate, AcceptFails, rows
    <3>2. CASE HandOffStep(q)
      BY <3>2 DEF HandOffStep, HandOffReads, SetHandOffState, RefuseValue, DispatchRuns,
         DispatchWaits, Decide, rows
    <3>3. CASE HandOffFails(q)
      BY <3>3 DEF HandOffFails, rows
    <3>4. CASE WaitStep(q)
      BY <3>4 DEF WaitStep, WaitEnds, WaitDropped, rows
    <3> QED BY <2>5, <3>1, <3>2, <3>3, <3>4
  <2>6. ASSUME NEW p \in Processes, Die(p) PROVE UNCHANGED state
    BY <2>6 DEF Die, rows
  <2>7. SetClock => UNCHANGED state
    BY DEF SetClock, rows
  <2> QED BY <1>1, <2>1, <2>2, <2>3, <2>4, <2>5, <2>6, <2>7 DEF Next
<1>2. UNCHANGED vars => UNCHANGED state
  BY DEF vars, rows
<1>3. UNCHANGED state => A
  OBVIOUS
<1>4. ASSUME Inv, [Next]_vars PROVE [A]_vars
  BY <1>1, <1>4
<1> QED BY <1>4, Invariance, PTL DEF Spec, OnePerWindow
=============================================================================

------------------------------ MODULE Delivery ------------------------------
(***************************************************************************)
(* The acceptance and the hand-off of webhook deliveries: requests that    *)
(* carry one identity of one source reach several processes of one state   *)
(* directory, which are killed at any instant.                             *)
(*                                                                         *)
(* Source: runtime/internal/ingress/ingress.go and handoff.go, and         *)
(* record/accept.go, deliveries.go and delivery_refusals.go.  The          *)
(* dispatcher that reaches the guard and the executor is an interface with *)
(* no implementation in the repository: it is external, and modelled by    *)
(* the records its contract says it leaves.                                *)
(*                                                                         *)
(* A request becomes at most one delivery, so a delivery is named by its   *)
(* request.  Alive is taken to be wired to the guard's instance lock.      *)
(***************************************************************************)
EXTENDS Integers, FiniteSets

CONSTANTS
    Requests,   \* the requests, all of one identity
    Processes,  \* the serve processes, each of its own instance lock
    Playbooks,  \* the playbooks
    Bound,      \* the playbooks each process has bound to the source
    Window,     \* the source's replay window
    Instants,   \* what the wall clock may read
    MaxFailures,\* bound: how many writes of a hand-off may fail
    None

ASSUME DeliveryAssumption ==
    /\ Bound \in [Processes -> SUBSET Playbooks]
    /\ Window \in Nat
    /\ Instants \subseteq Int /\ Instants # {}
    /\ MaxFailures \in Nat
    /\ None \notin Requests \cup Playbooks \cup Processes

VARIABLES
    now,        \* the wall clock
    alive,      \* the processes that hold their instance lock
    failures,   \* how many writes have failed
    at,         \* when each request was received
    process,    \* by which process
    pc,         \* where its acceptance is; "turned" has a row of delivery_refusals
    answer,     \* what its sender was told
    writer,     \* the acceptance that has the store's write lock, or None
    seen,       \* the identity row it read
    identity,   \* the identity row: the delivery it points at, and since when
    state,      \* the deliveries' own states; "none" where there is no row
    supersedes, \* the dropped delivery each one retries
    repeats,    \* how often each was seen again
    handoff,    \* the hand-off rows
    runs,       \* the runs recorded, by delivery and playbook
    refusals,   \* the refusals recorded, by the guard or for a value
    waits,      \* the guard's waiting rows, by delivery and playbook
    task,       \* where the hand-off of each delivery is
    pending,    \* the playbooks it has still to decide
    deciding    \* the one it has decided, whose row is not yet written

clock    == <<now, failures>>
request  == <<at, process, pc, answer>>
lock     == <<writer, seen>>
rows     == <<identity, state, supersedes, repeats>>
decision == <<runs, refusals, waits>>
handing  == <<task, pending, deciding>>
vars     == <<clock, alive, request, lock, rows, handoff, decision, handing>>

Absent == [delivery |-> None, at |-> 0]
Nothing == [playbook |-> None, state |-> "none"]

Rows == {r \in Requests : state[r] # "none"}

Init ==
    /\ now \in Instants /\ alive = Processes /\ failures = 0
    /\ at = [r \in Requests |-> 0]
    /\ process = [r \in Requests |-> None]
    /\ pc = [r \in Requests |-> "idle"]
    /\ answer = [r \in Requests |-> "none"]
    /\ writer = None /\ seen = [r \in Requests |-> Absent]
    /\ identity = Absent
    /\ state = [r \in Requests |-> "none"]
    /\ supersedes = [r \in Requests |-> None]
    /\ repeats = [r \in Requests |-> 0]
    /\ handoff = [r \in Requests |-> [b \in Playbooks |-> "none"]]
    /\ runs = {} /\ refusals = {} /\ waits = {}
    /\ task = [r \in Requests |-> "none"]
    /\ pending = [r \in Requests |-> {}]
    /\ deciding = [r \in Requests |-> Nothing]

Lives(r) == process[r] \in alive

-----------------------------------------------------------------------------
(***************************************************************************)
(* A request, and its answer.                                              *)
(***************************************************************************)

Receive(r) ==
    /\ pc[r] = "idle"
    /\ \E p \in alive : process' = [process EXCEPT ![r] = p]
    /\ at' = [at EXCEPT ![r] = now]
    /\ pc' = [pc EXCEPT ![r] = "accepting"]
    /\ UNCHANGED <<clock, alive, answer, lock, rows, handoff, decision, handing>>

(* No route, no source, no secret, no body or no signature: the request is
   answered, and nothing of it is recorded. *)
TurnAway(r) ==
    /\ pc[r] = "idle"
    /\ alive # {}
    /\ answer' = [answer EXCEPT ![r] = "refused"]
    /\ pc' = [pc EXCEPT ![r] = "ended"]
    /\ UNCHANGED <<clock, alive, at, process, lock, rows, handoff, decision, handing>>

(* No single identity in its body: the refusal is recorded with the body, and the
   sender told why, or told to retry where it could not be recorded. *)
RefuseIdentity(r) ==
    /\ pc[r] = "idle"
    /\ alive # {}
    /\ \E recorded \in BOOLEAN :
        /\ recorded => writer = None
        /\ answer' = [answer EXCEPT ![r] = IF recorded THEN "bad_request" ELSE "not_accepted"]
        /\ pc' = [pc EXCEPT ![r] = IF recorded THEN "turned" ELSE "ended"]
    /\ UNCHANGED <<clock, alive, at, process, lock, rows, handoff, decision, handing>>

(* Fault variant: the answer does not wait for the acceptance. *)
AnswerAtOnce(r) ==
    /\ pc[r] \in {"accepting", "deciding", "recorded", "failed"}
    /\ answer[r] = "none" /\ Lives(r)
    /\ answer' = [answer EXCEPT ![r] = IF pc[r] = "failed" THEN "not_accepted" ELSE "accepted"]
    /\ UNCHANGED <<clock, alive, at, process, pc, lock, rows, handoff, decision, handing>>

(* The acceptance ends before the bound of the durable step. *)
Answer(r) ==
    /\ pc[r] \in {"recorded", "failed"}
    /\ answer[r] = "none" /\ Lives(r)
    /\ answer' = [answer EXCEPT ![r] = IF pc[r] = "failed" THEN "not_accepted" ELSE "accepted"]
    /\ UNCHANGED <<clock, alive, at, process, pc, lock, rows, handoff, decision, handing>>

(* The bound passes first; the acceptance goes on. *)
DurableStepPasses(r) ==
    /\ pc[r] \in {"accepting", "deciding", "recorded", "failed"}
    /\ answer[r] = "none" /\ Lives(r)
    /\ answer' = [answer EXCEPT ![r] = "not_accepted"]
    /\ UNCHANGED <<clock, alive, at, process, pc, lock, rows, handoff, decision, handing>>

-----------------------------------------------------------------------------
(***************************************************************************)
(* Accept: one write transaction.                                          *)
(***************************************************************************)

(* Fault variant: the identity is read outside the write lock. *)
BeginDeferred(r) ==
    /\ pc[r] = "accepting" /\ Lives(r)
    /\ seen' = [seen EXCEPT ![r] = identity]
    /\ pc' = [pc EXCEPT ![r] = "deciding"]
    /\ UNCHANGED <<clock, alive, at, process, answer, writer, rows, handoff, decision, handing>>

(* BEGIN IMMEDIATE, and existingDelivery. *)
BeginImmediate(r) ==
    /\ pc[r] = "accepting" /\ Lives(r)
    /\ writer = None
    /\ writer' = r
    /\ seen' = [seen EXCEPT ![r] = identity]
    /\ pc' = [pc EXCEPT ![r] = "deciding"]
    /\ UNCHANGED <<clock, alive, at, process, answer, rows, handoff, decision, handing>>

(* decidedElsewhere: what the durable records say of a hand-off. *)
Decision(d, b) ==
    CASE <<d, b>> \in runs -> "handed_off"
      [] <<d, b>> \in refusals -> "refused"
      [] OTHER -> "dropped"

(* reconcileDelivery, the hand-offs. *)
Settled(d) ==
    [b \in Playbooks |-> IF handoff[d][b] \in {"pending", "waiting"}
                         THEN Decision(d, b) ELSE handoff[d][b]]

(* reconcileDelivery, the delivery: dropped if this drops a hand-off. *)
SettledState(d) ==
    IF \E b \in Playbooks : handoff[d][b] \in {"pending", "waiting"} /\ Settled(d)[b] = "dropped"
    THEN "dropped" ELSE "handed_off"

(* judge: the identity's row, its age and the delivery it points at. *)
PastWindow(r) ==
    seen[r].delivery = None \/ at[r] - seen[r].at >= Window

Reconciles(r) ==
    /\ ~PastWindow(r)
    /\ state[seen[r].delivery] \in {"accepted", "waiting"}
    /\ ~Lives(seen[r].delivery)

StateAfter(r) ==
    IF Reconciles(r) THEN SettledState(seen[r].delivery) ELSE state[seen[r].delivery]

Retries(r) == ~PastWindow(r) /\ StateAfter(r) = "dropped"

(* What reconcileDelivery leaves, for the acceptance that comes to it. *)
HandOffAfter(r) ==
    IF Reconciles(r) THEN [handoff EXCEPT ![seen[r].delivery] = Settled(seen[r].delivery)]
    ELSE handoff

WaitsAfter(r) ==
    IF Reconciles(r) THEN {w \in waits : w[1] # seen[r].delivery} ELSE waits

(* Fault variant: only the delivery retried is asked, not the ones before it. *)
DecidedInLast(d, after) ==
    {b \in Playbooks : after[d][b] \in {"handed_off", "refused"}}

(* A delivery and what it retries, back to the root: what is in every set that
   has the delivery and, with each one, the one that it supersedes. *)
Chain(d) ==
    {e \in Requests : \A S \in SUBSET Requests :
        d \in S /\ (\A x \in S : supersedes[x] # None => supersedes[x] \in S) => e \in S}

(* decidedInChain: the playbooks some delivery back to the root has decided. *)
DecidedInChain(d, after) ==
    {b \in Playbooks : \E e \in Chain(d) : after[e][b] \in {"handed_off", "refused"}}

HandedTo(r) ==
    Bound[process[r]] \
        (IF Retries(r) THEN DecidedInChain(seen[r].delivery, HandOffAfter(r)) ELSE {})

(* The identity is new, or its delivery was dropped: a delivery, its identity
   and its hand-offs are recorded together. *)
AcceptNew(r) ==
    /\ pc[r] = "deciding" /\ Lives(r)
    /\ PastWindow(r) \/ Retries(r)
    /\ writer' = None
    /\ identity' = [delivery |-> r, at |-> at[r]]
    /\ supersedes' = [supersedes EXCEPT ![r] = IF Retries(r) THEN seen[r].delivery ELSE None]
    /\ state' = [d \in Requests |-> CASE d = r -> "accepted"
                                      [] Retries(r) /\ d = seen[r].delivery -> StateAfter(r)
                                      [] OTHER -> state[d]]
    /\ handoff' = [HandOffAfter(r) EXCEPT ![r] =
                     [b \in Playbooks |-> IF b \in HandedTo(r) THEN "pending" ELSE "none"]]
    /\ waits' = WaitsAfter(r)
    /\ seen' = [seen EXCEPT ![r] = Absent]
    /\ pc' = [pc EXCEPT ![r] = "recorded"]
    /\ task' = [task EXCEPT ![r] = "reading"]
    /\ UNCHANGED <<clock, alive, at, process, answer, repeats, runs, refusals,
                   pending, deciding>>

(* A repeat: one more on the delivery that holds the identity. *)
AcceptRepeat(r) ==
    /\ pc[r] = "deciding" /\ Lives(r)
    /\ ~PastWindow(r) /\ ~Retries(r)
    /\ writer' = None
    /\ repeats' = [repeats EXCEPT ![seen[r].delivery] = @ + 1]
    /\ state' = [state EXCEPT ![seen[r].delivery] = StateAfter(r)]
    /\ handoff' = HandOffAfter(r)
    /\ waits' = WaitsAfter(r)
    /\ seen' = [seen EXCEPT ![r] = Absent]
    /\ pc' = [pc EXCEPT ![r] = "recorded"]
    /\ UNCHANGED <<clock, alive, at, process, answer, identity, supersedes, runs,
                   refusals, handing>>

(* The transaction fails, and is rolled back. *)
AcceptFails(r) ==
    /\ pc[r] \in {"accepting", "deciding"} /\ Lives(r)
    /\ writer' = IF writer = r THEN None ELSE writer
    /\ seen' = [seen EXCEPT ![r] = Absent]
    /\ pc' = [pc EXCEPT ![r] = "failed"]
    /\ UNCHANGED <<clock, alive, at, process, answer, rows, handoff, decision, handing>>

-----------------------------------------------------------------------------
(***************************************************************************)
(* HandOff: the playbooks still pending, one after the other.              *)
(***************************************************************************)

HandOffReads(d) ==
    /\ task[d] = "reading" /\ Lives(d)
    /\ pending' = [pending EXCEPT ![d] = {b \in Playbooks : handoff[d][b] = "pending"}]
    /\ task' = [task EXCEPT ![d] = "next"]
    /\ UNCHANGED <<clock, alive, request, lock, rows, handoff, decision, deciding>>

(* The playbook is taken, and its outcome is to be written to its row. *)
Decide(d, b, outcome) ==
    /\ task[d] = "next" /\ Lives(d)
    /\ b \in pending[d]
    /\ pending' = [pending EXCEPT ![d] = @ \ {b}]
    /\ deciding' = [deciding EXCEPT ![d] = [playbook |-> b, state |-> outcome]]
    /\ task' = [task EXCEPT ![d] = "writing"]
    /\ writer = None
    /\ UNCHANGED <<clock, alive, request, lock, rows, handoff>>

(* Check refuses one of its values, or the guard refuses the dispatch. *)
RefuseValue(d, b) ==
    /\ Decide(d, b, "refused")
    /\ refusals' = refusals \cup {<<d, b>>}
    /\ UNCHANGED <<runs, waits>>

(* The dispatcher: a run, a refusal of the guard's, or a place to wait. *)
DispatchRuns(d, b) ==
    /\ Decide(d, b, "handed_off")
    /\ runs' = runs \cup {<<d, b>>}
    /\ UNCHANGED <<refusals, waits>>

DispatchWaits(d, b) ==
    /\ Decide(d, b, "waiting")
    /\ waits' = waits \cup {<<d, b>>}
    /\ UNCHANGED <<runs, refusals>>

(* Fault variant: the row is written without naming its playbook. *)
SetHandOffStateOfAll(d) ==
    /\ task[d] = "writing" /\ Lives(d)
    /\ writer = None
    /\ handoff' = [handoff EXCEPT ![d] =
                     [b \in Playbooks |-> IF handoff[d][b] = "pending"
                                          THEN deciding[d].state ELSE handoff[d][b]]]
    /\ deciding' = [deciding EXCEPT ![d] = Nothing]
    /\ task' = [task EXCEPT ![d] = "next"]
    /\ UNCHANGED <<clock, alive, request, lock, rows, decision, pending>>

SetHandOffState(d) ==
    /\ task[d] = "writing" /\ Lives(d)
    /\ writer = None
    /\ handoff' = [handoff EXCEPT ![d][deciding[d].playbook] = deciding[d].state]
    /\ deciding' = [deciding EXCEPT ![d] = Nothing]
    /\ task' = [task EXCEPT ![d] = "next"]
    /\ UNCHANGED <<clock, alive, request, lock, rows, decision, pending>>

(* What finishDelivery makes of the hand-offs. *)
Finished(d) ==
    LET states == {handoff[d][b] : b \in Playbooks} \ {"none"}
    IN  CASE states = {} -> "unbound"
          [] "dropped" \in states -> "dropped"
          [] states \cap {"pending", "waiting"} # {} -> "waiting"
          [] OTHER -> "handed_off"

FinishDelivery(d) ==
    /\ task[d] = "next" /\ Lives(d)
    /\ pending[d] = {}
    /\ writer = None
    /\ state' = [state EXCEPT ![d] = Finished(d)]
    /\ task' = [task EXCEPT ![d] = "ended"]
    /\ UNCHANGED <<clock, alive, request, lock, identity, supersedes, repeats, handoff,
                   decision, pending, deciding>>

(* A read or a write of the store fails: HandOff returns, and nobody asks why. *)
HandOffFails(d) ==
    /\ task[d] \in {"reading", "next", "writing"} /\ Lives(d)
    /\ failures < MaxFailures
    /\ failures' = failures + 1
    /\ task' = [task EXCEPT ![d] = "ended"]
    /\ UNCHANGED <<now, alive, request, lock, rows, handoff, decision, pending, deciding>>

-----------------------------------------------------------------------------
(***************************************************************************)
(* The guard's waits, the processes and the clock.                         *)
(***************************************************************************)

(* A wait ends in a run or in a refusal, in the process that waits. *)
WaitEnds(d, b) ==
    /\ <<d, b>> \in waits /\ Lives(d)
    /\ writer = None
    /\ waits' = waits \ {<<d, b>>}
    /\ \/ runs' = runs \cup {<<d, b>>} /\ UNCHANGED refusals
       \/ refusals' = refusals \cup {<<d, b>>} /\ UNCHANGED runs
    /\ UNCHANGED <<clock, alive, request, lock, rows, handoff, handing>>

(* The guard's own reconciliation drops the wait of a process that is gone. *)
WaitDropped(d, b) ==
    /\ <<d, b>> \in waits /\ ~Lives(d)
    /\ writer = None
    /\ waits' = waits \ {<<d, b>>}
    /\ UNCHANGED <<clock, alive, request, lock, rows, handoff, runs, refusals, handing>>

(* A process is killed: its transaction is rolled back, its lock is free. *)
Die(p) ==
    /\ p \in alive
    /\ alive' = alive \ {p}
    /\ writer' = IF writer # None /\ process[writer] = p THEN None ELSE writer
    /\ UNCHANGED <<clock, request, seen, rows, handoff, decision, handing>>

SetClock ==
    /\ now' \in Instants
    /\ UNCHANGED <<failures, alive, request, lock, rows, handoff, decision, handing>>

-----------------------------------------------------------------------------

RequestStep(r) ==
    \/ Receive(r) \/ TurnAway(r) \/ RefuseIdentity(r) \/ Answer(r) \/ DurableStepPasses(r)
    \/ BeginImmediate(r) \/ AcceptNew(r) \/ AcceptRepeat(r) \/ AcceptFails(r)

HandOffStep(d) ==
    \/ HandOffReads(d) \/ SetHandOffState(d) \/ FinishDelivery(d)
    \/ \E b \in Playbooks : RefuseValue(d, b) \/ DispatchRuns(d, b) \/ DispatchWaits(d, b)

WaitStep(d) == \E b \in Playbooks : WaitEnds(d, b) \/ WaitDropped(d, b)

Next ==
    \/ \E r \in Requests : RequestStep(r) \/ HandOffStep(r) \/ HandOffFails(r) \/ WaitStep(r)
    \/ \E p \in Processes : Die(p)
    \/ SetClock

Spec == Init /\ [][Next]_vars

(* A transaction ends, and a hand-off that has begun goes on. *)
FairSpec ==
    /\ Spec
    /\ \A r \in Requests :
         /\ WF_vars(AcceptNew(r) \/ AcceptRepeat(r) \/ AcceptFails(r))
         /\ WF_vars(HandOffStep(r))
-----------------------------------------------------------------------------
(***************************************************************************)
(* Properties.                                                             *)
(***************************************************************************)

HandOffStates == {"none", "pending", "waiting", "handed_off", "refused", "dropped"}

(* Every variable has its type. *)
TypeOK ==
    /\ now \in Instants /\ alive \subseteq Processes /\ failures \in 0..MaxFailures
    /\ at \in [Requests -> Instants \cup {0}]
    /\ process \in [Requests -> Processes \cup {None}]
    /\ pc \in [Requests -> {"idle", "accepting", "deciding", "recorded", "failed", "turned", "ended"}]
    /\ answer \in [Requests -> {"none", "accepted", "not_accepted", "bad_request", "refused"}]
    /\ writer \in Requests \cup {None}
    /\ {identity} \cup {seen[r] : r \in Requests}
          \subseteq [delivery : Requests \cup {None}, at : Instants \cup {0}]
    /\ state \in [Requests -> {"none", "accepted", "waiting", "handed_off", "dropped", "unbound"}]
    /\ supersedes \in [Requests -> Requests \cup {None}]
    /\ repeats \in [Requests -> 0..Cardinality(Requests)]
    /\ handoff \in [Requests -> [Playbooks -> HandOffStates]]
    /\ runs \cup refusals \cup waits \subseteq Requests \X Playbooks
    /\ task \in [Requests -> {"none", "reading", "next", "writing", "ended"}]
    /\ pending \in [Requests -> SUBSET Playbooks]
    /\ deciding \in [Requests -> [playbook : Playbooks \cup {None}, state : HandOffStates]]

Decided(d, b) == <<d, b>> \in runs \cup refusals

(* FR-315 and A6, reconcileDelivery and decidedInChain: along a chain of
   retries each playbook is decided once, wherever the processes were killed. *)
DecidedOnce ==
    \A d \in Rows : \A b \in Playbooks :
        Cardinality({e \in Chain(d) : Decided(e, b)}) <= 1

(* A4 and A5, Accept: a delivery is recorded a window after the date in the
   identity's row, as it reads when the acceptance commits, or else in the place
   of the delivery the row points at, which is dropped. *)
OnePerWindow ==
    [][\A r \in Requests : state[r] = "none" /\ state'[r] # "none" =>
          \/ identity.delivery = None
          \/ at[r] - identity.at >= Window
          \/ supersedes'[r] = identity.delivery /\ state'[identity.delivery] = "dropped"]_vars

(* FR-315, finishDelivery and reconcileDelivery: a delivery that reads handed
   off, and whose retry is therefore a repeat, has every hand-off in a durable
   record. *)
HandedOffIsDecided ==
    \A d \in Rows : state[d] = "handed_off" =>
        \A b \in Playbooks : handoff[d][b] # "none" => Decided(d, b)

(* The repeats the record counts, each by its delivery and its number on it. *)
Counted == UNION {{d} \X (1..repeats[d]) : d \in Rows}

(* FR-312 and A1, accept: what a sender was told is accepted is in the record,
   as a delivery of its own or counted on one. *)
AcceptedIsRecorded ==
    Cardinality({r \in Requests \ Rows : answer[r] = "accepted"}) <= Cardinality(Counted)

(* FR-314 and A3: while its process lives, a recorded delivery is handed to each
   of its playbooks.  The code gives it up at the first read or write of the
   store that fails (handoff.go:95), and ingress.go:144 asks no more of it. *)
HandedToEach ==
    \A d \in Requests :
        state[d] = "accepted" ~>
            ~Lives(d) \/ \A b \in Playbooks : handoff[d][b] # "pending"
=============================================================================

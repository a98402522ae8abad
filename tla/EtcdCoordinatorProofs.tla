----------------------- MODULE EtcdCoordinatorProofs -----------------------
(***************************************************************************)
(* Proofs about the etcd coordinator, for any number of hosts, of rate     *)
(* slots, of watchers, and any ticks: who has the claim, that it keeps the *)
(* coordinator's contract, that a slot is of one run, and that a watch     *)
(* misses no release.                                                      *)
(***************************************************************************)
EXTENDS EtcdCoordinator, WellFoundedInduction, TLAPS

(* The claim key is of a call whose transaction won, whose lease lives and
   whose token is the key's revision; there is one such call. *)
ClaimInv ==
    /\ claim = None <=> claimRev = 0
    /\ claim # None => claim \in leases /\ txn[claim] = "won" /\ token[claim] = claimRev
    /\ \A c \in Calls : txn[c] = "won" =>
         /\ 0 < token[c] /\ token[c] <= rev
         /\ c \in leases => claim = c
         /\ \A d \in Calls : txn[d] = "won" /\ token[c] = token[d] => c = d

(* Where a call is says what its transaction can be. *)
CallInv ==
    \A c \in Calls :
        /\ pc[c] \in {"idle", "rating", "reading", "deciding"} => txn[c] = "none"
        /\ pc[c] \in {"held", "lost", "released"} => txn[c] = "won"
        /\ pc[c] \in {"idle", "rating"} => c \notin rateLeases
        /\ pc[c] = "rating" => c \in Rated

(* What was read of the tick is what the key holds, unless the key was written
   since; and a transaction is sent only for a tick after the one that was read. *)
TickInv ==
    /\ tickRev <= rev
    /\ \A c \in Calls :
         /\ read[c].tickRev <= tickRev
         /\ read[c].tickRev = tickRev => read[c].tick = tick
         /\ txn[c] = "sent" => ~TickRan(c) /\ (c \in Rated => read[c].free # {})

(* A slot is of a call whose transaction won and whose window has not passed;
   such a call has one slot. *)
SlotInv ==
    /\ \A i \in Slots : slot[i] # None => slot[i] \in rateLeases /\ txn[slot[i]] = "won"
    /\ \A i, j \in Slots : slot[i] # None /\ slot[i] = slot[j] => i = j
    /\ \A c \in Rated : txn[c] = "won" /\ c \in rateLeases => \E i \in Slots : slot[i] = c

(* A watch is from the revision after one at which the claim was held. *)
WatchInv ==
    /\ deleted <= rev
    /\ \A w \in Watchers : /\ from[w] <= rev + 1
                           /\ watch[w] # "off" /\ deleted < from[w] => claim # None

Inv == TypeOK /\ ClaimInv /\ CallInv /\ TickInv /\ SlotInv /\ WatchInv

-----------------------------------------------------------------------------
(* The order of the numbers as a relation, for the library's minima. *)
NatOrder == {pair \in Nat \X Nat : pair[1] < pair[2]}

LEMMA NatOrderWellFounded == IsWellFoundedOn(NatOrder, Nat)
  BY NatLessThanWellFounded, Zenon DEF OpToRel, NatOrder

(* A set of numbers that is not empty has a least one. *)
LEMMA LeastNumber ==
    ASSUME NEW S \in SUBSET Nat, S # {}
    PROVE  \E i \in S : \A j \in S : i <= j
<1>1. PICK i \in S : \A j \in S : <<j, i>> \notin NatOrder
  BY NatOrderWellFounded, WFMin
<1>2. \A j \in S : ~(j < i)
  BY <1>1 DEF NatOrder
<1> QED BY <1>2

(* freeSlot finds a slot where one was read as free. *)
LEMMA FreeSlotIsFree ==
    ASSUME TypeOK, NEW c \in Calls, read[c].free # {}
    PROVE  FreeSlot(c) \in read[c].free /\ FreeSlot(c) \in Slots
<1>1. read[c].free \subseteq Slots /\ Slots \subseteq Nat
  BY CallsAssumption DEF TypeOK, Slots
<1>2. \E i \in read[c].free : \A j \in read[c].free : i <= j
  BY <1>1, LeastNumber
<1> QED BY <1>1, <1>2 DEF FreeSlot

(* What a read of the three keys returns. *)
LEMMA SnapshotType ==
    ASSUME TypeOK
    PROVE  /\ Snapshot \in [holder : Calls \cup {None}, tick : Nat, tickRev : Nat, free : SUBSET Slots]
           /\ Snapshot.tick = tick /\ Snapshot.tickRev = tickRev
  BY DEF TypeOK, Snapshot

(* The disjuncts of Next, one by one. *)
LEMMA Cases ==
    ASSUME Next
    PROVE  \/ \E c \in Calls :
                \/ Grant(c) \/ GrantRate(c) \/ GiveUp(c) \/ Read(c)
                \/ RefuseTick(c) \/ RefuseRate(c) \/ SendTxn(c)
                \/ ReplyWon(c) \/ ReplyRefused(c) \/ ReplyAgain(c)
                \/ Revoke(c) \/ Release(c) \/ RenewLost(c) \/ FenceLost(c)
                \/ Commit(c) \/ Conflict(c) \/ LeaseExpires(c) \/ WindowPasses(c)
           \/ \E w \in Watchers : WatchGet(w) \/ WatchOpens(w) \/ WatchReturns(w)
  BY DEF Next, CallStep, ServerStep, WatchStep

-----------------------------------------------------------------------------
LEMMA InitInv == Init => Inv
<1> SUFFICES ASSUME Init PROVE Inv
  OBVIOUS
<1> USE CallsAssumption
<1>1. TypeOK
  BY DEF Init, TypeOK, Snapshot, Slots, Rated, Deciding, Answers
<1>2. ClaimInv /\ CallInv /\ SlotInv /\ WatchInv
  BY DEF Init, ClaimInv, CallInv, SlotInv, WatchInv, Slots, Rated, Deciding
<1>3. TickInv
  BY <1>1, SnapshotType DEF Init, TickInv, TypeOK
<1> QED BY <1>1, <1>2, <1>3 DEF Inv

-----------------------------------------------------------------------------
(* Every step keeps the types. *)
LEMMA TypeStep ==
    ASSUME TypeOK, CallInv, Next, UNCHANGED limited
    PROVE  TypeOK'
<1> USE CallsAssumption DEF keys, server, client, watchs
<1>1. ASSUME NEW c \in Calls,
             \/ Grant(c) \/ GrantRate(c) \/ GiveUp(c) \/ Read(c)
             \/ RefuseTick(c) \/ RefuseRate(c) \/ SendTxn(c)
             \/ ReplyWon(c) \/ ReplyRefused(c) \/ ReplyAgain(c)
             \/ Revoke(c) \/ Release(c) \/ RenewLost(c) \/ FenceLost(c)
             \/ Commit(c) \/ Conflict(c) \/ LeaseExpires(c) \/ WindowPasses(c)
      PROVE  TypeOK'
  <2>1. CASE Grant(c)
    BY <2>1 DEF Grant, TypeOK, CallInv, Rated, Slots, Deciding, Answers
  <2>2. CASE GrantRate(c)
    BY <2>2 DEF GrantRate, TypeOK, CallInv, Rated, Slots, Deciding, Answers
  <2>3. CASE GiveUp(c)
    BY <2>3 DEF GiveUp, Return, TypeOK, CallInv, Rated, Slots, Deciding, Answers
  <2>4. CASE Read(c)
    BY <2>4, SnapshotType DEF Read, TypeOK, CallInv, Rated, Slots, Deciding, Answers
  <2>5. CASE RefuseTick(c)
    BY <2>5 DEF RefuseTick, Return, TypeOK, CallInv, Rated, Slots, Deciding, Answers
  <2>6. CASE RefuseRate(c)
    BY <2>6 DEF RefuseRate, Return, TypeOK, CallInv, Rated, Slots, Deciding, Answers
  <2>7. CASE SendTxn(c)
    BY <2>7 DEF SendTxn, TypeOK, CallInv, Rated, Slots, Deciding, Answers
  <2>8. CASE ReplyWon(c)
    BY <2>8 DEF ReplyWon, TypeOK, CallInv, Rated, Slots, Deciding, Answers
  <2>9. CASE ReplyRefused(c)
    BY <2>9 DEF ReplyRefused, Return, TypeOK, CallInv, Rated, Slots, Deciding, Answers
  <2>10. CASE ReplyAgain(c)
    BY <2>10 DEF ReplyAgain, TypeOK, CallInv, Rated, Slots, Deciding, Answers
  <2>11. CASE Revoke(c)
    <3>1. giving' \in [Calls -> SUBSET {"claim", "rate"}] /\ rateLeases' \subseteq Rated'
      BY <2>11 DEF Revoke, EndLease, EndRateLease, TypeOK, Rated
    <3>2. CASE EndLease(c) \/ UNCHANGED server
      BY <2>11, <3>1, <3>2 DEF Revoke, EndLease, TypeOK
    <3>3. CASE EndRateLease(c)
      BY <2>11, <3>1, <3>3 DEF Revoke, EndRateLease, TypeOK
    <3> QED
      BY <2>11, <3>2, <3>3 DEF Revoke
  <2>12. CASE Release(c)
    BY <2>12 DEF Release, EndLease, TypeOK, CallInv, Rated, Slots, Deciding, Answers
  <2>13. CASE RenewLost(c)
    BY <2>13 DEF RenewLost, TypeOK, CallInv, Rated, Slots, Deciding, Answers
  <2>14. CASE FenceLost(c)
    BY <2>14 DEF FenceLost, TypeOK, CallInv, Rated, Slots, Deciding, Answers
  <2>15. CASE Commit(c)
    <3>1. slot' \in [Slots -> Calls \cup {None}]
      BY <2>15 DEF Commit, TypeOK
    <3>2. rateLeases' \subseteq Rated'
      BY <2>15 DEF Commit, TypeOK, Rated
    <3> QED
      BY <2>15, <3>1, <3>2 DEF Commit, TypeOK, Scheduled
  <2>16. CASE Conflict(c)
    BY <2>16, SnapshotType DEF Conflict, TypeOK, CallInv, Rated, Slots, Deciding, Answers
  <2>17. CASE LeaseExpires(c)
    BY <2>17 DEF LeaseExpires, EndLease, TypeOK, CallInv, Rated, Slots, Deciding, Answers
  <2>18. CASE WindowPasses(c)
    BY <2>18 DEF WindowPasses, EndRateLease, TypeOK, CallInv, Rated, Slots, Deciding, Answers
  <2> QED
    BY <1>1, <2>1, <2>2, <2>3, <2>4, <2>5, <2>6, <2>7, <2>8, <2>9, <2>10, <2>11, <2>12, <2>13, <2>14, <2>15, <2>16, <2>17, <2>18
<1>2. ASSUME NEW w \in Watchers, WatchGet(w) \/ WatchOpens(w) \/ WatchReturns(w)
      PROVE  TypeOK'
  <2>1. rateLeases' \subseteq Rated'
    BY <1>2 DEF WatchGet, WatchOpens, WatchReturns, TypeOK, Rated
  <2> QED
    BY <1>2, <2>1 DEF WatchGet, WatchOpens, WatchReturns, TypeOK
<1> QED BY <1>1, <1>2, Cases

(* Every step keeps the claim key with the one call that won it. *)
LEMMA ClaimStep ==
    ASSUME TypeOK, ClaimInv, CallInv, Next, UNCHANGED limited
    PROVE  ClaimInv'
<1> USE CallsAssumption DEF keys, server, client, watchs
<1>1. ASSUME NEW c \in Calls,
             \/ Grant(c) \/ GrantRate(c) \/ GiveUp(c) \/ Read(c)
             \/ RefuseTick(c) \/ RefuseRate(c) \/ SendTxn(c)
             \/ ReplyWon(c) \/ ReplyRefused(c) \/ ReplyAgain(c)
             \/ Revoke(c) \/ Release(c) \/ RenewLost(c) \/ FenceLost(c)
             \/ Commit(c) \/ Conflict(c) \/ LeaseExpires(c) \/ WindowPasses(c)
      PROVE  ClaimInv'
  <2>1. CASE Grant(c)
    BY <2>1 DEF Grant, TypeOK, ClaimInv, CallInv
  <2>2. CASE GrantRate(c)
    BY <2>2 DEF GrantRate, TypeOK, ClaimInv, CallInv
  <2>3. CASE GiveUp(c)
    BY <2>3 DEF GiveUp, Return, TypeOK, ClaimInv, CallInv
  <2>4. CASE Read(c)
    BY <2>4 DEF Read, TypeOK, ClaimInv, CallInv
  <2>5. CASE RefuseTick(c)
    BY <2>5 DEF RefuseTick, Return, TypeOK, ClaimInv, CallInv
  <2>6. CASE RefuseRate(c)
    BY <2>6 DEF RefuseRate, Return, TypeOK, ClaimInv, CallInv
  <2>7. CASE SendTxn(c)
    BY <2>7 DEF SendTxn, TypeOK, ClaimInv, CallInv
  <2>8. CASE ReplyWon(c)
    BY <2>8 DEF ReplyWon, TypeOK, ClaimInv, CallInv
  <2>9. CASE ReplyRefused(c)
    BY <2>9 DEF ReplyRefused, Return, TypeOK, ClaimInv, CallInv
  <2>10. CASE ReplyAgain(c)
    BY <2>10 DEF ReplyAgain, TypeOK, ClaimInv, CallInv
  <2>11. CASE Revoke(c)
    BY <2>11 DEF Revoke, EndLease, EndRateLease, TypeOK, ClaimInv, CallInv
  <2>12. CASE Release(c)
    BY <2>12 DEF Release, EndLease, TypeOK, ClaimInv, CallInv
  <2>13. CASE RenewLost(c)
    BY <2>13 DEF RenewLost, TypeOK, ClaimInv, CallInv
  <2>14. CASE FenceLost(c)
    BY <2>14 DEF FenceLost, TypeOK, ClaimInv, CallInv
  <2>15. CASE Commit(c)
    BY <2>15, FreeSlotIsFree DEF Commit, Compares, LeasesLive, TypeOK, ClaimInv, CallInv
  <2>16. CASE Conflict(c)
    BY <2>16, SnapshotType DEF Conflict, TypeOK, ClaimInv, CallInv
  <2>17. CASE LeaseExpires(c)
    BY <2>17 DEF LeaseExpires, EndLease, TypeOK, ClaimInv, CallInv
  <2>18. CASE WindowPasses(c)
    BY <2>18 DEF WindowPasses, EndRateLease, TypeOK, ClaimInv, CallInv
  <2> QED
    BY <1>1, <2>1, <2>2, <2>3, <2>4, <2>5, <2>6, <2>7, <2>8, <2>9, <2>10, <2>11, <2>12, <2>13, <2>14, <2>15, <2>16, <2>17, <2>18
<1>2. ASSUME NEW w \in Watchers, WatchGet(w) \/ WatchOpens(w) \/ WatchReturns(w)
      PROVE  ClaimInv'
  BY <1>2 DEF WatchGet, WatchOpens, WatchReturns, TypeOK, ClaimInv, CallInv
<1> QED BY <1>1, <1>2, Cases

(* Every step keeps a call and its transaction together. *)
LEMMA CallStepInv ==
    ASSUME TypeOK, CallInv, Next, UNCHANGED limited
    PROVE  CallInv'
<1> USE CallsAssumption DEF keys, server, client, watchs
<1>1. ASSUME NEW c \in Calls,
             \/ Grant(c) \/ GrantRate(c) \/ GiveUp(c) \/ Read(c)
             \/ RefuseTick(c) \/ RefuseRate(c) \/ SendTxn(c)
             \/ ReplyWon(c) \/ ReplyRefused(c) \/ ReplyAgain(c)
             \/ Revoke(c) \/ Release(c) \/ RenewLost(c) \/ FenceLost(c)
             \/ Commit(c) \/ Conflict(c) \/ LeaseExpires(c) \/ WindowPasses(c)
      PROVE  CallInv'
  <2>1. CASE Grant(c)
    BY <2>1 DEF Grant, TypeOK, CallInv, Rated, Deciding
  <2>2. CASE GrantRate(c)
    BY <2>2 DEF GrantRate, TypeOK, CallInv, Rated, Deciding
  <2>3. CASE GiveUp(c)
    BY <2>3 DEF GiveUp, Return, TypeOK, CallInv, Rated, Deciding
  <2>4. CASE Read(c)
    BY <2>4 DEF Read, TypeOK, CallInv, Rated, Deciding
  <2>5. CASE RefuseTick(c)
    BY <2>5 DEF RefuseTick, Return, TypeOK, CallInv, Rated, Deciding
  <2>6. CASE RefuseRate(c)
    BY <2>6 DEF RefuseRate, Return, TypeOK, CallInv, Rated, Deciding
  <2>7. CASE SendTxn(c)
    BY <2>7 DEF SendTxn, TypeOK, CallInv, Rated, Deciding
  <2>8. CASE ReplyWon(c)
    BY <2>8 DEF ReplyWon, TypeOK, CallInv, Rated, Deciding
  <2>9. CASE ReplyRefused(c)
    BY <2>9 DEF ReplyRefused, Return, TypeOK, CallInv, Rated, Deciding
  <2>10. CASE ReplyAgain(c)
    BY <2>10 DEF ReplyAgain, TypeOK, CallInv, Rated, Deciding
  <2>11. CASE Revoke(c)
    BY <2>11 DEF Revoke, EndLease, EndRateLease, TypeOK, CallInv, Rated, Deciding
  <2>12. CASE Release(c)
    BY <2>12 DEF Release, EndLease, TypeOK, CallInv, Rated, Deciding
  <2>13. CASE RenewLost(c)
    BY <2>13 DEF RenewLost, TypeOK, CallInv, Rated, Deciding
  <2>14. CASE FenceLost(c)
    BY <2>14 DEF FenceLost, TypeOK, CallInv, Rated, Deciding
  <2>15. CASE Commit(c)
    BY <2>15, FreeSlotIsFree DEF Commit, Compares, LeasesLive, TypeOK, CallInv, Rated, Deciding
  <2>16. CASE Conflict(c)
    BY <2>16, SnapshotType DEF Conflict, TypeOK, CallInv, Rated, Deciding
  <2>17. CASE LeaseExpires(c)
    BY <2>17 DEF LeaseExpires, EndLease, TypeOK, CallInv, Rated, Deciding
  <2>18. CASE WindowPasses(c)
    BY <2>18 DEF WindowPasses, EndRateLease, TypeOK, CallInv, Rated, Deciding
  <2> QED
    BY <1>1, <2>1, <2>2, <2>3, <2>4, <2>5, <2>6, <2>7, <2>8, <2>9, <2>10, <2>11, <2>12, <2>13, <2>14, <2>15, <2>16, <2>17, <2>18
<1>2. ASSUME NEW w \in Watchers, WatchGet(w) \/ WatchOpens(w) \/ WatchReturns(w)
      PROVE  CallInv'
  BY <1>2 DEF WatchGet, WatchOpens, WatchReturns, TypeOK, CallInv, Rated, Deciding
<1> QED BY <1>1, <1>2, Cases

(* Every step keeps what was read of the tick true of a key not written since. *)
LEMMA TickStep ==
    ASSUME TypeOK, CallInv, TickInv, Next, UNCHANGED limited
    PROVE  TickInv'
<1> USE CallsAssumption DEF keys, server, client, watchs
<1>1. ASSUME NEW c \in Calls,
             \/ Grant(c) \/ GrantRate(c) \/ GiveUp(c) \/ Read(c)
             \/ RefuseTick(c) \/ RefuseRate(c) \/ SendTxn(c)
             \/ ReplyWon(c) \/ ReplyRefused(c) \/ ReplyAgain(c)
             \/ Revoke(c) \/ Release(c) \/ RenewLost(c) \/ FenceLost(c)
             \/ Commit(c) \/ Conflict(c) \/ LeaseExpires(c) \/ WindowPasses(c)
      PROVE  TickInv'
  <2>1. CASE Grant(c)
    BY <2>1 DEF Grant, TypeOK, CallInv, TickInv, TickRan, Scheduled, Rated
  <2>2. CASE GrantRate(c)
    BY <2>2 DEF GrantRate, TypeOK, CallInv, TickInv, TickRan, Scheduled, Rated
  <2>3. CASE GiveUp(c)
    BY <2>3 DEF GiveUp, Return, TypeOK, CallInv, TickInv, TickRan, Scheduled, Rated
  <2>4. CASE Read(c)
    BY <2>4, SnapshotType DEF Read, TypeOK, CallInv, TickInv, TickRan, Scheduled, Rated
  <2>5. CASE RefuseTick(c)
    BY <2>5 DEF RefuseTick, Return, TypeOK, CallInv, TickInv, TickRan, Scheduled, Rated
  <2>6. CASE RefuseRate(c)
    BY <2>6 DEF RefuseRate, Return, TypeOK, CallInv, TickInv, TickRan, Scheduled, Rated
  <2>7. CASE SendTxn(c)
    BY <2>7 DEF SendTxn, TypeOK, CallInv, TickInv, TickRan, Scheduled, Rated
  <2>8. CASE ReplyWon(c)
    BY <2>8 DEF ReplyWon, TypeOK, CallInv, TickInv, TickRan, Scheduled, Rated
  <2>9. CASE ReplyRefused(c)
    BY <2>9 DEF ReplyRefused, Return, TypeOK, CallInv, TickInv, TickRan, Scheduled, Rated
  <2>10. CASE ReplyAgain(c)
    BY <2>10 DEF ReplyAgain, TypeOK, CallInv, TickInv, TickRan, Scheduled, Rated
  <2>11. CASE Revoke(c)
    BY <2>11 DEF Revoke, EndLease, EndRateLease, TypeOK, CallInv, TickInv, TickRan, Scheduled, Rated
  <2>12. CASE Release(c)
    BY <2>12 DEF Release, EndLease, TypeOK, CallInv, TickInv, TickRan, Scheduled, Rated
  <2>13. CASE RenewLost(c)
    BY <2>13 DEF RenewLost, TypeOK, CallInv, TickInv, TickRan, Scheduled, Rated
  <2>14. CASE FenceLost(c)
    BY <2>14 DEF FenceLost, TypeOK, CallInv, TickInv, TickRan, Scheduled, Rated
  <2>15. CASE Commit(c)
    BY <2>15, FreeSlotIsFree DEF Commit, Compares, LeasesLive, TypeOK, CallInv, TickInv, TickRan, Scheduled, Rated
  <2>16. CASE Conflict(c)
    BY <2>16, SnapshotType DEF Conflict, TypeOK, CallInv, TickInv, TickRan, Scheduled, Rated
  <2>17. CASE LeaseExpires(c)
    BY <2>17 DEF LeaseExpires, EndLease, TypeOK, CallInv, TickInv, TickRan, Scheduled, Rated
  <2>18. CASE WindowPasses(c)
    BY <2>18 DEF WindowPasses, EndRateLease, TypeOK, CallInv, TickInv, TickRan, Scheduled, Rated
  <2> QED
    BY <1>1, <2>1, <2>2, <2>3, <2>4, <2>5, <2>6, <2>7, <2>8, <2>9, <2>10, <2>11, <2>12, <2>13, <2>14, <2>15, <2>16, <2>17, <2>18
<1>2. ASSUME NEW w \in Watchers, WatchGet(w) \/ WatchOpens(w) \/ WatchReturns(w)
      PROVE  TickInv'
  BY <1>2 DEF WatchGet, WatchOpens, WatchReturns, TypeOK, CallInv, TickInv, TickRan, Scheduled, Rated
<1> QED BY <1>1, <1>2, Cases

(* Every step keeps the slots to one run each. *)
LEMMA SlotStep ==
    ASSUME TypeOK, CallInv, TickInv, SlotInv, Next, UNCHANGED limited
    PROVE  SlotInv'
<1> USE CallsAssumption DEF keys, server, client, watchs
<1>1. ASSUME NEW c \in Calls,
             \/ Grant(c) \/ GrantRate(c) \/ GiveUp(c) \/ Read(c)
             \/ RefuseTick(c) \/ RefuseRate(c) \/ SendTxn(c)
             \/ ReplyWon(c) \/ ReplyRefused(c) \/ ReplyAgain(c)
             \/ Revoke(c) \/ Release(c) \/ RenewLost(c) \/ FenceLost(c)
             \/ Commit(c) \/ Conflict(c) \/ LeaseExpires(c) \/ WindowPasses(c)
      PROVE  SlotInv'
  <2>1. CASE Grant(c)
    BY <2>1 DEF Grant, TypeOK, CallInv, TickInv, SlotInv, Rated
  <2>2. CASE GrantRate(c)
    BY <2>2 DEF GrantRate, TypeOK, CallInv, TickInv, SlotInv, Rated
  <2>3. CASE GiveUp(c)
    BY <2>3 DEF GiveUp, Return, TypeOK, CallInv, TickInv, SlotInv, Rated
  <2>4. CASE Read(c)
    BY <2>4 DEF Read, TypeOK, CallInv, TickInv, SlotInv, Rated
  <2>5. CASE RefuseTick(c)
    BY <2>5 DEF RefuseTick, Return, TypeOK, CallInv, TickInv, SlotInv, Rated
  <2>6. CASE RefuseRate(c)
    BY <2>6 DEF RefuseRate, Return, TypeOK, CallInv, TickInv, SlotInv, Rated
  <2>7. CASE SendTxn(c)
    BY <2>7 DEF SendTxn, TypeOK, CallInv, TickInv, SlotInv, Rated
  <2>8. CASE ReplyWon(c)
    BY <2>8 DEF ReplyWon, TypeOK, CallInv, TickInv, SlotInv, Rated
  <2>9. CASE ReplyRefused(c)
    BY <2>9 DEF ReplyRefused, Return, TypeOK, CallInv, TickInv, SlotInv, Rated
  <2>10. CASE ReplyAgain(c)
    BY <2>10 DEF ReplyAgain, TypeOK, CallInv, TickInv, SlotInv, Rated
  <2>11. CASE Revoke(c)
    BY <2>11 DEF Revoke, EndLease, EndRateLease, TypeOK, CallInv, TickInv, SlotInv, Rated
  <2>12. CASE Release(c)
    BY <2>12 DEF Release, EndLease, TypeOK, CallInv, TickInv, SlotInv, Rated
  <2>13. CASE RenewLost(c)
    BY <2>13 DEF RenewLost, TypeOK, CallInv, TickInv, SlotInv, Rated
  <2>14. CASE FenceLost(c)
    BY <2>14 DEF FenceLost, TypeOK, CallInv, TickInv, SlotInv, Rated
  <2>15. CASE Commit(c)
    BY <2>15, FreeSlotIsFree DEF Commit, Compares, LeasesLive, TypeOK, CallInv, TickInv, SlotInv, Rated
  <2>16. CASE Conflict(c)
    BY <2>16, SnapshotType DEF Conflict, TypeOK, CallInv, TickInv, SlotInv, Rated
  <2>17. CASE LeaseExpires(c)
    BY <2>17 DEF LeaseExpires, EndLease, TypeOK, CallInv, TickInv, SlotInv, Rated
  <2>18. CASE WindowPasses(c)
    BY <2>18 DEF WindowPasses, EndRateLease, TypeOK, CallInv, TickInv, SlotInv, Rated
  <2> QED
    BY <1>1, <2>1, <2>2, <2>3, <2>4, <2>5, <2>6, <2>7, <2>8, <2>9, <2>10, <2>11, <2>12, <2>13, <2>14, <2>15, <2>16, <2>17, <2>18
<1>2. ASSUME NEW w \in Watchers, WatchGet(w) \/ WatchOpens(w) \/ WatchReturns(w)
      PROVE  SlotInv'
  BY <1>2 DEF WatchGet, WatchOpens, WatchReturns, TypeOK, CallInv, TickInv, SlotInv, Rated
<1> QED BY <1>1, <1>2, Cases

(* Every step keeps a watch that saw no deletion to a claim still held. *)
LEMMA WatchStepInv ==
    ASSUME TypeOK, WatchInv, Next, UNCHANGED limited
    PROVE  WatchInv'
<1> USE CallsAssumption DEF keys, server, client, watchs
<1>1. ASSUME NEW c \in Calls,
             \/ Grant(c) \/ GrantRate(c) \/ GiveUp(c) \/ Read(c)
             \/ RefuseTick(c) \/ RefuseRate(c) \/ SendTxn(c)
             \/ ReplyWon(c) \/ ReplyRefused(c) \/ ReplyAgain(c)
             \/ Revoke(c) \/ Release(c) \/ RenewLost(c) \/ FenceLost(c)
             \/ Commit(c) \/ Conflict(c) \/ LeaseExpires(c) \/ WindowPasses(c)
      PROVE  WatchInv'
  <2>1. CASE Grant(c)
    BY <2>1 DEF Grant, TypeOK, WatchInv
  <2>2. CASE GrantRate(c)
    BY <2>2 DEF GrantRate, TypeOK, WatchInv
  <2>3. CASE GiveUp(c)
    BY <2>3 DEF GiveUp, Return, TypeOK, WatchInv
  <2>4. CASE Read(c)
    BY <2>4 DEF Read, TypeOK, WatchInv
  <2>5. CASE RefuseTick(c)
    BY <2>5 DEF RefuseTick, Return, TypeOK, WatchInv
  <2>6. CASE RefuseRate(c)
    BY <2>6 DEF RefuseRate, Return, TypeOK, WatchInv
  <2>7. CASE SendTxn(c)
    BY <2>7 DEF SendTxn, TypeOK, WatchInv
  <2>8. CASE ReplyWon(c)
    BY <2>8 DEF ReplyWon, TypeOK, WatchInv
  <2>9. CASE ReplyRefused(c)
    BY <2>9 DEF ReplyRefused, Return, TypeOK, WatchInv
  <2>10. CASE ReplyAgain(c)
    BY <2>10 DEF ReplyAgain, TypeOK, WatchInv
  <2>11. CASE Revoke(c)
    BY <2>11 DEF Revoke, EndLease, EndRateLease, TypeOK, WatchInv
  <2>12. CASE Release(c)
    BY <2>12 DEF Release, EndLease, TypeOK, WatchInv
  <2>13. CASE RenewLost(c)
    BY <2>13 DEF RenewLost, TypeOK, WatchInv
  <2>14. CASE FenceLost(c)
    BY <2>14 DEF FenceLost, TypeOK, WatchInv
  <2>15. CASE Commit(c)
    BY <2>15, FreeSlotIsFree DEF Commit, Compares, LeasesLive, TypeOK, WatchInv
  <2>16. CASE Conflict(c)
    BY <2>16, SnapshotType DEF Conflict, TypeOK, WatchInv
  <2>17. CASE LeaseExpires(c)
    BY <2>17 DEF LeaseExpires, EndLease, TypeOK, WatchInv
  <2>18. CASE WindowPasses(c)
    BY <2>18 DEF WindowPasses, EndRateLease, TypeOK, WatchInv
  <2> QED
    BY <1>1, <2>1, <2>2, <2>3, <2>4, <2>5, <2>6, <2>7, <2>8, <2>9, <2>10, <2>11, <2>12, <2>13, <2>14, <2>15, <2>16, <2>17, <2>18
<1>2. ASSUME NEW w \in Watchers, WatchGet(w) \/ WatchOpens(w) \/ WatchReturns(w)
      PROVE  WatchInv'
  BY <1>2 DEF WatchGet, WatchOpens, WatchReturns, TypeOK, WatchInv
<1> QED BY <1>1, <1>2, Cases

-----------------------------------------------------------------------------
(* Inv holds at the start and through every step. *)
LEMMA Invariance == Spec => []Inv
<1>1. Inv /\ [Next]_vars => Inv'
  <2>1. CASE Next
    <3>1. limited' = limited
      BY <2>1 DEF Next
    <3> QED
      BY <2>1, <3>1, TypeStep, ClaimStep, CallStepInv, TickStep, SlotStep, WatchStepInv DEF Inv
  <2>2. CASE UNCHANGED vars
    BY <2>2 DEF vars, keys, server, client, watchs, Inv, TypeOK, ClaimInv, CallInv, TickInv, SlotInv,
                WatchInv, Rated, TickRan, Scheduled
  <2> QED BY <2>1, <2>2
<1> QED BY InitInv, <1>1, PTL DEF Spec

(* Type correctness, whatever the hosts, the ticks and the limit. *)
THEOREM TypeCorrect == Spec => []TypeOK
  BY Invariance, PTL DEF Inv

(* take and Fence: a call told it has the claim has it for as long as its lease
   lives, under the token it was given, and a fence passes for no other. *)
THEOREM HeldClaimIsCurrent == Spec => []HeldIsCurrent
<1>1. Inv => HeldIsCurrent
  <2> SUFFICES ASSUME Inv, NEW c \in Calls, pc[c] = "held"
               PROVE  (c \in leases <=> claim = c) /\ (FenceHolds(c) <=> claim = c)
    BY DEF HeldIsCurrent
  <2>1. txn[c] = "won"
    BY DEF Inv, CallInv
  <2>2. c \in leases <=> claim = c
    BY <2>1, CallsAssumption DEF Inv, ClaimInv
  <2>3. claim = c => FenceHolds(c)
    BY CallsAssumption DEF Inv, ClaimInv, FenceHolds
  <2>4. FenceHolds(c) => claim = c
    <3> SUFFICES ASSUME claimRev = token[c] PROVE claim = c
      BY DEF FenceHolds
    <3>1. claim # None /\ claim \in Calls
      BY <2>1 DEF Inv, TypeOK, ClaimInv
    <3> QED BY <2>1, <3>1 DEF Inv, ClaimInv
  <2> QED BY <2>2, <2>3, <2>4
<1> QED BY Invariance, <1>1, PTL

(* take: a run admitted inside the window has one slot, and no other run has it. *)
THEOREM OneSlotEach == Spec => []SlotOfItsOwn
<1>1. Inv => SlotOfItsOwn
  BY CallsAssumption DEF Inv, TypeOK, SlotInv, SlotOfItsOwn, Rated
<1> QED BY Invariance, <1>1, PTL

(* Released: no release falls between the read of the key and the watch. *)
THEOREM WatchMissesNothing == Spec => []NoMissedRelease
<1>1. Inv => NoMissedRelease
  BY DEF Inv, WatchInv, NoMissedRelease
<1> QED BY Invariance, <1>1, PTL

(* take, revoke and the server: every step of the hosts and of the server is a
   step of the coordinator's contract, or changes nothing it speaks of. *)
THEOREM KeepsContract == Spec => KeepsTheContract
<1>1. Init => Contract!Init
  BY DEF Init, Contract!Init
<1>2. Inv /\ [Next]_vars => [Contract!Next]_<<claim, tick>>
  <2> SUFFICES ASSUME Inv, [Next]_vars, ~UNCHANGED <<claim, tick>>
               PROVE  Contract!Next
    OBVIOUS
  <2> USE DEF keys, server, client, watchs
  <2>1. Next
    BY DEF vars
  <2>2. ASSUME NEW w \in Watchers, WatchGet(w) \/ WatchOpens(w) \/ WatchReturns(w)
        PROVE  FALSE
    BY <2>2 DEF WatchGet, WatchOpens, WatchReturns
  <2>3. ASSUME NEW c \in Calls,
               \/ Grant(c) \/ GrantRate(c) \/ GiveUp(c) \/ Read(c)
               \/ RefuseTick(c) \/ RefuseRate(c) \/ SendTxn(c)
               \/ ReplyWon(c) \/ ReplyRefused(c) \/ ReplyAgain(c)
               \/ RenewLost(c) \/ FenceLost(c) \/ Conflict(c) \/ WindowPasses(c)
        PROVE  FALSE
    BY <2>3 DEF Grant, GrantRate, GiveUp, Read, RefuseTick, RefuseRate, SendTxn, ReplyWon, ReplyRefused,
                ReplyAgain, RenewLost, FenceLost, Conflict, WindowPasses, EndRateLease
  <2>4. ASSUME NEW c \in Calls, Commit(c)
        PROVE  Contract!Next
    <3>1. claim = None /\ claim' = c
      BY <2>4 DEF Commit, Compares
    <3>2. CASE c \in Scheduled
      <4>1. tick < DueAt[c]
        <5>1. read[c].tick = tick
          BY <2>4, <3>2 DEF Commit, Compares, Inv, TickInv
        <5>2. ~(DueAt[c] <= tick)
          BY <2>4, <3>2, <5>1 DEF Commit, Inv, TickInv, TickRan
        <5>3. DueAt[c] \in Nat /\ tick \in Nat
          BY CallsAssumption DEF Inv, TypeOK
        <5> QED BY <5>2, <5>3
      <4> QED BY <2>4, <3>1, <3>2, <4>1 DEF Commit, Scheduled, Contract!Next, Contract!Take
    <3>3. CASE c \notin Scheduled
      BY <2>4, <3>1, <3>3 DEF Commit, Scheduled, Contract!Next, Contract!Take
    <3> QED BY <3>2, <3>3
  <2>5. ASSUME NEW c \in Calls, EndLease(c) \/ EndRateLease(c) \/ UNCHANGED server
        PROVE  Contract!Next
    BY <2>5, CallsAssumption DEF EndLease, EndRateLease, Contract!Next, Contract!Free
  <2>6. ASSUME NEW c \in Calls, Revoke(c) \/ Release(c) \/ LeaseExpires(c)
        PROVE  Contract!Next
    BY <2>6, <2>5 DEF Revoke, Release, LeaseExpires
  <2> QED BY <2>1, <2>2, <2>3, <2>4, <2>6, Cases
<1> QED BY <1>1, <1>2, Invariance, PTL DEF Spec, KeepsTheContract, Contract!Spec
=============================================================================

--------------------------- MODULE FileLockProofs ---------------------------
(***************************************************************************)
(* Proofs about the single-host coordinator, for any number of processes,  *)
(* any ticks, any limit and any way the clock is set: that it keeps the    *)
(* coordinator's contract, that no tick is taken twice, and that no window *)
(* holds more starts than the limit.                                       *)
(***************************************************************************)
EXTENDS FileLock, FiniteSetTheorems, TLAPS

(* The places between taking the lock and giving it back. *)
Locked == {"truncating", "writing", "ticking", "advancing", "rating", "counting",
           "starting", "held", "unlocking"}

(* The lock is of the call that is between taking it and giving it back, and so
   there is one such call. *)
LockInv == \A c \in Acquires : call[c] \in Locked <=> locked = c

(* Where a call is says what it asks of the store. *)
CallInv ==
    \A c \in Acquires :
        /\ call[c] \in {"ticking", "advancing"} => c \in Ticked
        /\ call[c] \in {"rating", "counting", "starting"} => c \in Limited
        /\ call[c] \in {"counting", "starting"} => readAt[c] \in Instants
        /\ call[c] \in {"idle", "naming"} => told[c] # "taken"

(* The last tick is no earlier than any that was taken; the one that is as late
   is the last tick's run, which is also whoever goes on to the rate window. *)
TickInv ==
    /\ \A c \in Acquires : call[c] = "advancing" => TickOf[c] > last
    /\ \A c \in Ticked :
         /\ call[c] \in {"rating", "counting", "starting"} => lastRun = c /\ last = TickOf[c]
         /\ told[c] = "taken" => TickOf[c] <= last /\ (TickOf[c] = last => lastRun = c)

(* What was counted still holds when the start is recorded. *)
RoomInv ==
    /\ IsFiniteSet(starts)
    /\ \A c \in Acquires : call[c] = "starting" => Cardinality(InWindow(readAt[c])) < Limit

Inv == LockTypeOK /\ LockInv /\ CallInv /\ TickInv /\ LockTickOnce /\ RoomInv /\ WindowHolds

-----------------------------------------------------------------------------
(* The clock is set, or a call takes a step; the limit never changes. *)
LEMMA Cases ==
    ASSUME LockNext
    PROVE  /\ UNCHANGED hasLimit
           /\ SetClock \/ \E c \in Acquires : Step(c)
  BY DEF LockNext

LEMMA InitInv == LockInit => Inv
<1> SUFFICES ASSUME LockInit PROVE Inv
  OBVIOUS
<1> USE AcquiresAssumption
<1>1. LockTypeOK
  BY DEF LockInit, LockTypeOK, Refusals
<1>2. LockInv /\ CallInv /\ TickInv /\ LockTickOnce
  BY DEF LockInit, LockInv, Locked, CallInv, TickInv, LockTickOnce, Ticked
<1>3. RoomInv
  BY FS_EmptySet DEF LockInit, RoomInv
<1>4. WindowHolds
  <2>1. SUFFICES ASSUME NEW t \in Instants
                 PROVE  Cardinality({s \in starts : t <= s.at /\ s.at <= t + Per}) <= Limit
    BY DEF WindowHolds
  <2>2. starts = {}
    BY DEF LockInit
  <2>3. {s \in starts : t <= s.at /\ s.at <= t + Per} = {}
    BY <2>2
  <2>4. Cardinality({s \in starts : t <= s.at /\ s.at <= t + Per}) = 0
    BY <2>3, FS_EmptySet, Zenon
  <2>5. 0 <= Limit
    OBVIOUS
  <2> QED BY <2>4, <2>5
<1> QED BY <1>1, <1>2, <1>3, <1>4 DEF Inv

-----------------------------------------------------------------------------
(* Every step keeps the types. *)
LEMMA TypeStep ==
    ASSUME LockTypeOK, CallInv, LockNext
    PROVE  LockTypeOK'
<1> USE AcquiresAssumption DEF tickRow
<1> UNCHANGED hasLimit
  BY Cases
<1>1. CASE SetClock
  BY <1>1 DEF SetClock, LockTypeOK, Refusals
<1>2. ASSUME NEW c \in Acquires, Step(c)
      PROVE  LockTypeOK'
  <2>1. CASE Lock(c)
    BY <2>1 DEF Lock, LockTypeOK, Refusals
  <2>2. CASE Contended(c)
    BY <2>2 DEF Contended, LockTypeOK, Refusals
  <2>3. CASE Held(c)
    BY <2>3 DEF Held, LockTypeOK, Refusals
  <2>4. CASE LockFails(c)
    BY <2>4 DEF LockFails, LockTypeOK, Refusals
  <2>5. CASE Truncate(c)
    BY <2>5 DEF Truncate, AfterRecord, AnswerOf, LockTypeOK, Refusals
  <2>6. CASE WriteHolder(c)
    BY <2>6 DEF WriteHolder, AfterRecord, AnswerOf, LockTypeOK, Refusals
  <2>7. CASE LastTick(c)
    BY <2>7 DEF LastTick, RefuseCall, LockTypeOK, Refusals
  <2>8. CASE SetLastTick(c)
    BY <2>8 DEF SetLastTick, AfterTick, AnswerOf, LockTypeOK, Refusals
  <2>9. CASE ReadClock(c)
    BY <2>9 DEF ReadClock, LockTypeOK, Refusals
  <2>10. CASE CountRateStarts(c)
    BY <2>10 DEF CountRateStarts, RefuseCall, LockTypeOK, Refusals
  <2>11. CASE RecordRateStart(c)
    BY <2>11 DEF RecordRateStart, AnswerOf, CallInv, LockTypeOK, Refusals
  <2>12. CASE RecordFails(c)
    BY <2>12 DEF RecordFails, RefuseCall, LockTypeOK, Refusals
  <2>13. CASE Unlock(c)
    BY <2>13 DEF Unlock, LockTypeOK, Refusals
  <2>14. CASE ReleaseLock(c)
    BY <2>14 DEF ReleaseLock, LockTypeOK, Refusals
  <2>15. CASE Die(c)
    BY <2>15 DEF Die, LockTypeOK, Refusals
  <2> QED
    BY <1>2, <2>1, <2>2, <2>3, <2>4, <2>5, <2>6, <2>7, <2>8,
       <2>9, <2>10, <2>11, <2>12, <2>13, <2>14, <2>15 DEF Step
<1> QED BY <1>1, <1>2, Cases

(* Every step keeps the lock with the one call between taking it and giving it back. *)
LEMMA LockStep ==
    ASSUME LockTypeOK, CallInv, LockInv, LockNext
    PROVE  LockInv'
<1> USE AcquiresAssumption DEF tickRow
<1> UNCHANGED hasLimit
  BY Cases
<1>1. CASE SetClock
  BY <1>1 DEF SetClock, LockTypeOK, LockInv, Locked
<1>2. ASSUME NEW c \in Acquires, Step(c)
      PROVE  LockInv'
  <2>1. CASE Lock(c)
    BY <2>1 DEF Lock, LockTypeOK, LockInv, Locked
  <2>2. CASE Contended(c)
    BY <2>2 DEF Contended, LockTypeOK, LockInv, Locked
  <2>3. CASE Held(c)
    BY <2>3 DEF Held, LockTypeOK, LockInv, Locked
  <2>4. CASE LockFails(c)
    BY <2>4 DEF LockFails, LockTypeOK, LockInv, Locked
  <2>5. CASE Truncate(c)
    BY <2>5 DEF Truncate, AfterRecord, AnswerOf, LockTypeOK, LockInv, Locked
  <2>6. CASE WriteHolder(c)
    BY <2>6 DEF WriteHolder, AfterRecord, AnswerOf, LockTypeOK, LockInv, Locked
  <2>7. CASE LastTick(c)
    BY <2>7 DEF LastTick, RefuseCall, LockTypeOK, LockInv, Locked
  <2>8. CASE SetLastTick(c)
    BY <2>8 DEF SetLastTick, AfterTick, AnswerOf, LockTypeOK, LockInv, Locked
  <2>9. CASE ReadClock(c)
    BY <2>9 DEF ReadClock, LockTypeOK, LockInv, Locked
  <2>10. CASE CountRateStarts(c)
    BY <2>10 DEF CountRateStarts, RefuseCall, LockTypeOK, LockInv, Locked
  <2>11. CASE RecordRateStart(c)
    BY <2>11 DEF RecordRateStart, AnswerOf, LockTypeOK, LockInv, Locked
  <2>12. CASE RecordFails(c)
    BY <2>12 DEF RecordFails, RefuseCall, LockTypeOK, LockInv, Locked
  <2>13. CASE Unlock(c)
    BY <2>13 DEF Unlock, LockTypeOK, LockInv, Locked
  <2>14. CASE ReleaseLock(c)
    BY <2>14 DEF ReleaseLock, LockTypeOK, LockInv, Locked
  <2>15. CASE Die(c)
    BY <2>15 DEF Die, LockTypeOK, LockInv, Locked
  <2> QED
    BY <1>2, <2>1, <2>2, <2>3, <2>4, <2>5, <2>6, <2>7, <2>8,
       <2>9, <2>10, <2>11, <2>12, <2>13, <2>14, <2>15 DEF Step
<1> QED BY <1>1, <1>2, Cases

(* Every step keeps what is asked of the store to the calls that ask it. *)
LEMMA CallStep ==
    ASSUME LockTypeOK, CallInv, LockNext
    PROVE  CallInv'
<1> USE AcquiresAssumption DEF tickRow
<1> UNCHANGED hasLimit
  BY Cases
<1>1. CASE SetClock
  BY <1>1 DEF SetClock, LockTypeOK, CallInv, Ticked, Limited, Refusals
<1>2. ASSUME NEW c \in Acquires, Step(c)
      PROVE  CallInv'
  <2>1. CASE Lock(c)
    BY <2>1 DEF Lock, LockTypeOK, CallInv, Ticked, Limited, Refusals
  <2>2. CASE Contended(c)
    BY <2>2 DEF Contended, LockTypeOK, CallInv, Ticked, Limited, Refusals
  <2>3. CASE Held(c)
    BY <2>3 DEF Held, LockTypeOK, CallInv, Ticked, Limited, Refusals
  <2>4. CASE LockFails(c)
    BY <2>4 DEF LockFails, LockTypeOK, CallInv, Ticked, Limited, Refusals
  <2>5. CASE Truncate(c)
    BY <2>5 DEF Truncate, AfterRecord, AnswerOf, LockTypeOK, CallInv, Ticked, Limited, Refusals
  <2>6. CASE WriteHolder(c)
    BY <2>6 DEF WriteHolder, AfterRecord, AnswerOf, LockTypeOK, CallInv, Ticked, Limited, Refusals
  <2>7. CASE LastTick(c)
    BY <2>7 DEF LastTick, RefuseCall, LockTypeOK, CallInv, Ticked, Limited, Refusals
  <2>8. CASE SetLastTick(c)
    BY <2>8 DEF SetLastTick, AfterTick, AnswerOf, LockTypeOK, CallInv, Ticked, Limited, Refusals
  <2>9. CASE ReadClock(c)
    BY <2>9 DEF ReadClock, LockTypeOK, CallInv, Ticked, Limited, Refusals
  <2>10. CASE CountRateStarts(c)
    BY <2>10 DEF CountRateStarts, RefuseCall, LockTypeOK, CallInv, Ticked, Limited, Refusals
  <2>11. CASE RecordRateStart(c)
    BY <2>11 DEF RecordRateStart, AnswerOf, LockTypeOK, CallInv, Ticked, Limited, Refusals
  <2>12. CASE RecordFails(c)
    BY <2>12 DEF RecordFails, RefuseCall, LockTypeOK, CallInv, Ticked, Limited, Refusals
  <2>13. CASE Unlock(c)
    BY <2>13 DEF Unlock, LockTypeOK, CallInv, Ticked, Limited, Refusals
  <2>14. CASE ReleaseLock(c)
    BY <2>14 DEF ReleaseLock, LockTypeOK, CallInv, Ticked, Limited, Refusals
  <2>15. CASE Die(c)
    BY <2>15 DEF Die, LockTypeOK, CallInv, Ticked, Limited, Refusals
  <2> QED
    BY <1>2, <2>1, <2>2, <2>3, <2>4, <2>5, <2>6, <2>7, <2>8,
       <2>9, <2>10, <2>11, <2>12, <2>13, <2>14, <2>15 DEF Step
<1> QED BY <1>1, <1>2, Cases

(* Every step keeps a tick to one call: the lock is held from the look at the last tick to the moment it is recorded. *)
LEMMA TickStep ==
    ASSUME LockTypeOK, LockInv, CallInv, TickInv, LockTickOnce, LockNext
    PROVE  (TickInv /\ LockTickOnce)'
<1> USE AcquiresAssumption DEF tickRow
<1> UNCHANGED hasLimit
  BY Cases
<1>1. CASE SetClock
  BY <1>1 DEF SetClock, LockTypeOK, LockInv, Locked, CallInv, TickInv, LockTickOnce, Ticked, Limited, Refusals
<1>2. ASSUME NEW c \in Acquires, Step(c)
      PROVE  (TickInv /\ LockTickOnce)'
  <2>1. CASE Lock(c)
    BY <2>1 DEF Lock, LockTypeOK, LockInv, Locked, CallInv, TickInv, LockTickOnce, Ticked, Limited, Refusals
  <2>2. CASE Contended(c)
    BY <2>2 DEF Contended, LockTypeOK, LockInv, Locked, CallInv, TickInv, LockTickOnce, Ticked, Limited, Refusals
  <2>3. CASE Held(c)
    BY <2>3 DEF Held, LockTypeOK, LockInv, Locked, CallInv, TickInv, LockTickOnce, Ticked, Limited, Refusals
  <2>4. CASE LockFails(c)
    BY <2>4 DEF LockFails, LockTypeOK, LockInv, Locked, CallInv, TickInv, LockTickOnce, Ticked, Limited, Refusals
  <2>5. CASE Truncate(c)
    BY <2>5 DEF Truncate, AfterRecord, AnswerOf, LockTypeOK, LockInv, Locked, CallInv, TickInv, LockTickOnce, Ticked, Limited, Refusals
  <2>6. CASE WriteHolder(c)
    BY <2>6 DEF WriteHolder, AfterRecord, AnswerOf, LockTypeOK, LockInv, Locked, CallInv, TickInv, LockTickOnce, Ticked, Limited, Refusals
  <2>7. CASE LastTick(c)
    BY <2>7 DEF LastTick, RefuseCall, LockTypeOK, LockInv, Locked, CallInv, TickInv, LockTickOnce, Ticked, Limited, Refusals
  <2>8. CASE SetLastTick(c)
    BY <2>8 DEF SetLastTick, AfterTick, AnswerOf, LockTypeOK, LockInv, Locked, CallInv, TickInv, LockTickOnce, Ticked, Limited, Refusals
  <2>9. CASE ReadClock(c)
    BY <2>9 DEF ReadClock, LockTypeOK, LockInv, Locked, CallInv, TickInv, LockTickOnce, Ticked, Limited, Refusals
  <2>10. CASE CountRateStarts(c)
    BY <2>10 DEF CountRateStarts, RefuseCall, LockTypeOK, LockInv, Locked, CallInv, TickInv, LockTickOnce, Ticked, Limited, Refusals
  <2>11. CASE RecordRateStart(c)
    BY <2>11 DEF RecordRateStart, AnswerOf, LockTypeOK, LockInv, Locked, CallInv, TickInv, LockTickOnce, Ticked, Limited, Refusals
  <2>12. CASE RecordFails(c)
    BY <2>12 DEF RecordFails, RefuseCall, LockTypeOK, LockInv, Locked, CallInv, TickInv, LockTickOnce, Ticked, Limited, Refusals
  <2>13. CASE Unlock(c)
    BY <2>13 DEF Unlock, LockTypeOK, LockInv, Locked, CallInv, TickInv, LockTickOnce, Ticked, Limited, Refusals
  <2>14. CASE ReleaseLock(c)
    BY <2>14 DEF ReleaseLock, LockTypeOK, LockInv, Locked, CallInv, TickInv, LockTickOnce, Ticked, Limited, Refusals
  <2>15. CASE Die(c)
    BY <2>15 DEF Die, LockTypeOK, LockInv, Locked, CallInv, TickInv, LockTickOnce, Ticked, Limited, Refusals
  <2> QED
    BY <1>2, <2>1, <2>2, <2>3, <2>4, <2>5, <2>6, <2>7, <2>8,
       <2>9, <2>10, <2>11, <2>12, <2>13, <2>14, <2>15 DEF Step
<1> QED BY <1>1, <1>2, Cases

(* Every step keeps the windows within the limit: no start is recorded between the count a call makes and the start it records. *)
LEMMA RoomStep ==
    ASSUME LockTypeOK, LockInv, CallInv, RoomInv, WindowHolds, LockNext
    PROVE  (RoomInv /\ WindowHolds)'
<1> USE AcquiresAssumption DEF tickRow
<1> UNCHANGED hasLimit
  BY Cases
<1>1. CASE SetClock
  BY <1>1 DEF SetClock, LockTypeOK, RoomInv, WindowHolds, InWindow
<1>2. ASSUME NEW c \in Acquires, Step(c)
      PROVE  (RoomInv /\ WindowHolds)'
  <2>1. CASE Lock(c)
    BY <2>1 DEF Lock, LockTypeOK, RoomInv, WindowHolds, InWindow
  <2>2. CASE Contended(c)
    BY <2>2 DEF Contended, LockTypeOK, RoomInv, WindowHolds, InWindow
  <2>3. CASE Held(c)
    BY <2>3 DEF Held, LockTypeOK, RoomInv, WindowHolds, InWindow
  <2>4. CASE LockFails(c)
    BY <2>4 DEF LockFails, LockTypeOK, RoomInv, WindowHolds, InWindow
  <2>5. CASE Truncate(c)
    BY <2>5 DEF Truncate, AfterRecord, AnswerOf, LockTypeOK, RoomInv, WindowHolds, InWindow
  <2>6. CASE WriteHolder(c)
    BY <2>6 DEF WriteHolder, AfterRecord, AnswerOf, LockTypeOK, RoomInv, WindowHolds, InWindow
  <2>7. CASE LastTick(c)
    BY <2>7 DEF LastTick, RefuseCall, LockTypeOK, RoomInv, WindowHolds, InWindow
  <2>8. CASE SetLastTick(c)
    BY <2>8 DEF SetLastTick, AfterTick, AnswerOf, LockTypeOK, RoomInv, WindowHolds, InWindow
  <2>9. CASE ReadClock(c)
    <3>1. ASSUME NEW d \in Acquires, call'[d] = "starting"
          PROVE  call[d] = "starting" /\ readAt'[d] = readAt[d]
      BY <2>9, <3>1 DEF ReadClock, LockTypeOK
    <3> QED BY <2>9, <3>1 DEF ReadClock, RoomInv, WindowHolds, InWindow
  <2>10. CASE CountRateStarts(c)
    <3>1. IsFiniteSet(InWindow(readAt[c]))
      BY FS_Subset DEF InWindow, RoomInv
    <3>2. Cardinality(InWindow(readAt[c])) \in Nat
      BY <3>1, FS_CardinalityType
    <3>3. Limit \in Nat
      OBVIOUS
    <3>4. UNCHANGED <<starts, readAt>>
      BY <2>10 DEF CountRateStarts, RefuseCall
    <3>5. WindowHolds'
      BY <3>4 DEF WindowHolds
    <3>6. ASSUME NEW d \in Acquires, call'[d] = "starting"
          PROVE  Cardinality(InWindow(readAt[d])) < Limit
      <4>1. CASE d = c
        <5>1. ~(Cardinality(InWindow(readAt[c])) >= Limit)
          BY <2>10, <3>6, <4>1 DEF CountRateStarts, RefuseCall, LockTypeOK
        <5> QED BY <4>1, <5>1, <3>2, <3>3
      <4>2. CASE d # c
        <5>1. call[d] = "starting"
          BY <2>10, <3>6, <4>2 DEF CountRateStarts, RefuseCall, LockTypeOK
        <5> QED BY <5>1 DEF RoomInv
      <4> QED BY <4>1, <4>2
    <3> QED BY <3>4, <3>5, <3>6 DEF RoomInv, InWindow
  <2>11. CASE RecordRateStart(c)
    <3> DEFINE s == [run |-> c, at |-> readAt[c]]
    <3>1. starts' = starts \cup {s}
      BY <2>11 DEF RecordRateStart
    <3>2. readAt[c] \in Instants /\ Instants \subseteq Int /\ starts \subseteq [run : Acquires, at : Instants]
      BY <2>11 DEF RecordRateStart, CallInv, LockTypeOK
    <3>3. IsFiniteSet(starts')
      BY <3>1, FS_AddElement DEF RoomInv
    <3>4. \A d \in Acquires : call'[d] # "starting"
      BY <2>11 DEF RecordRateStart, LockTypeOK, LockInv, Locked
    <3>5. ASSUME NEW t \in Instants
          PROVE  Cardinality({r \in starts' : t <= r.at /\ r.at <= t + Per}) <= Limit
      <4> DEFINE Old == {r \in starts : t <= r.at /\ r.at <= t + Per}
                 New == {r \in starts' : t <= r.at /\ r.at <= t + Per}
      <4>1. IsFiniteSet(Old) /\ IsFiniteSet(InWindow(readAt[c]))
        BY FS_Subset DEF RoomInv, InWindow
      <4>2. Cardinality(Old) \in Nat /\ Cardinality(InWindow(readAt[c])) \in Nat
        BY <4>1, FS_CardinalityType
      <4>3. CASE t <= readAt[c] /\ readAt[c] <= t + Per
        <5>1. New = Old \cup {s}
          BY <3>1, <4>3
        <5>2. Cardinality(New) <= Cardinality(Old) + 1
          <6>1. Cardinality(New) = Cardinality(Old) \/ Cardinality(New) = Cardinality(Old) + 1
            BY <4>1, <5>1, FS_AddElement, Zenon
          <6> HIDE DEF Old, New
          <6> QED BY <6>1, <4>2
        <5>3. Old \subseteq InWindow(readAt[c])
          <6>1. ASSUME NEW r \in Old PROVE r.at >= readAt[c] - Per
            <7>1. r.at \in Int /\ t \in Int /\ readAt[c] \in Int /\ Per \in Nat
              BY <3>2
            <7>2. t <= r.at
              OBVIOUS
            <7> QED BY <7>1, <7>2, <4>3
          <6> QED BY <6>1 DEF InWindow
        <5>4. Cardinality(Old) <= Cardinality(InWindow(readAt[c]))
          BY <4>1, <5>3, FS_Subset
        <5>5. Cardinality(InWindow(readAt[c])) < Limit
          BY <2>11 DEF RecordRateStart, RoomInv
        <5>6. Cardinality(New) \in Nat
          <6>1. IsFiniteSet(New)
            <7>1. IsFiniteSet(Old \cup {s})
              BY <4>1, FS_AddElement, Zenon
            <7> QED BY <5>1, <7>1, Zenon
          <6> QED BY <6>1, FS_CardinalityType, Zenon
        <5> HIDE DEF Old, New
        <5>7. Limit \in Nat
          OBVIOUS
        <5>8. Cardinality(New) <= Limit
          BY <4>2, <5>2, <5>4, <5>5, <5>6, <5>7
        <5> QED BY <5>8 DEF New
      <4>4. CASE ~(t <= readAt[c] /\ readAt[c] <= t + Per)
        <5>1. New = Old
          BY <3>1, <4>4
        <5> QED BY <5>1 DEF WindowHolds
      <4> QED BY <4>3, <4>4
    <3>6. WindowHolds'
      BY <3>5 DEF WindowHolds
    <3> QED BY <3>3, <3>4, <3>6 DEF RoomInv
  <2>12. CASE RecordFails(c)
    BY <2>12 DEF RecordFails, RefuseCall, LockTypeOK, RoomInv, WindowHolds, InWindow
  <2>13. CASE Unlock(c)
    BY <2>13 DEF Unlock, LockTypeOK, RoomInv, WindowHolds, InWindow
  <2>14. CASE ReleaseLock(c)
    BY <2>14 DEF ReleaseLock, LockTypeOK, RoomInv, WindowHolds, InWindow
  <2>15. CASE Die(c)
    BY <2>15 DEF Die, LockTypeOK, RoomInv, WindowHolds, InWindow
  <2> QED
    BY <1>2, <2>1, <2>2, <2>3, <2>4, <2>5, <2>6, <2>7, <2>8,
       <2>9, <2>10, <2>11, <2>12, <2>13, <2>14, <2>15 DEF Step
<1> QED BY <1>1, <1>2, Cases

-----------------------------------------------------------------------------
LEMMA Invariance == LockSpec => []Inv
<1>1. Inv /\ [LockNext]_lockVars => Inv'
  <2> SUFFICES ASSUME Inv, [LockNext]_lockVars PROVE Inv'
    OBVIOUS
  <2>1. CASE LockNext
    BY <2>1, TypeStep, LockStep, CallStep, TickStep, RoomStep DEF Inv
  <2>2. CASE UNCHANGED lockVars
    <3>1. LockTypeOK'
      BY <2>2 DEF lockVars, tickRow, Inv, LockTypeOK
    <3>2. LockInv' /\ CallInv' /\ TickInv' /\ LockTickOnce'
      BY <2>2 DEF lockVars, tickRow, Inv, LockInv, CallInv, TickInv, LockTickOnce, Limited
    <3>3. RoomInv' /\ WindowHolds'
      BY <2>2 DEF lockVars, tickRow, Inv, RoomInv, WindowHolds, InWindow
    <3> QED BY <3>1, <3>2, <3>3 DEF Inv
  <2> QED BY <2>1, <2>2
<1> QED BY InitInv, <1>1, PTL DEF LockSpec

(* LockTypeOK is an invariant: every variable of the file lock keeps its type. *)
THEOREM TypeCorrect == LockSpec => []LockTypeOK
<1>1. Inv => LockTypeOK
  BY DEF Inv
<1> QED BY <1>1, Invariance, PTL

(* C13, tick: no tick is taken by two calls, however many processes contend for
   the lock and wherever they die. *)
THEOREM OneCallPerTick == LockSpec => []LockTickOnce
<1>1. Inv => LockTickOnce
  BY DEF Inv
<1> QED BY <1>1, Invariance, PTL

(* C8 and C9, rate: no window of length Per holds more than Runs starts, however
   the wall clock is set back or forward between the runs. *)
THEOREM WindowsHold == LockSpec => []WindowHolds
<1>1. Inv => WindowHolds
  BY DEF Inv
<1> QED BY <1>1, Invariance, PTL

(* The file lock keeps the coordinator's contract: every step of Acquire, of
   ReleaseLock or of the kernel takes the claim with its tick, gives it back, or
   leaves both alone. *)
THEOREM KeepsContract == LockSpec => LockKeepsTheContract
<1> DEFINE holder == IF hasLimit THEN Nobody ELSE Claimed
           tickOf == IF hasLimit THEN 0 ELSE last
<1>1. LockInit => LockContract!Init
  BY DEF LockInit, LockContract!Init, Claimed
<1>2. Inv /\ [LockNext]_lockVars => [LockContract!Next]_<<holder, tickOf>>
  <2> SUFFICES ASSUME Inv, [LockNext]_lockVars, ~UNCHANGED <<holder, tickOf>>
               PROVE  LockContract!Next
    OBVIOUS
  <2> USE AcquiresAssumption DEF tickRow
  <2>1. LockNext /\ UNCHANGED hasLimit
    <3>1. ~UNCHANGED lockVars
      BY DEF lockVars, Claimed
    <3> QED BY <3>1, Cases
  <2>2. ~hasLimit
    BY <2>1
  <2>3. ~UNCHANGED <<Claimed, last>>
    BY <2>1
  <2> HIDE DEF holder, tickOf
  <2>4. ASSUME NEW c \in Acquires, Claimed = Nobody, Claimed' = c,
               IF TickOf[c] = 0 THEN last' = last ELSE last < TickOf[c] /\ last' = TickOf[c]
        PROVE  LockContract!Next
    BY <2>1, <2>2, <2>4 DEF LockContract!Next, LockContract!Take
  <2>5. ASSUME Claimed # Nobody, Claimed' = Nobody, last' = last
        PROVE  LockContract!Next
    BY <2>1, <2>2, <2>5 DEF LockContract!Next, LockContract!Free
  <2>6. ~SetClock
    BY <2>3 DEF SetClock, Claimed
  <2>7. ASSUME NEW c \in Acquires,
               \/ Lock(c) \/ Contended(c) \/ Held(c) \/ LockFails(c) \/ LastTick(c) \/ ReadClock(c)
               \/ CountRateStarts(c) \/ RecordFails(c) \/ Unlock(c)
        PROVE  FALSE
    BY <2>3, <2>7 DEF Lock, Contended, Held, LockFails, LastTick, ReadClock, CountRateStarts, RecordFails,
                      RefuseCall, Unlock, Claimed, Inv, LockInv, Locked, LockTypeOK
  <2>8. ASSUME NEW c \in Acquires, RecordRateStart(c)
        PROVE  FALSE
    BY <2>2, <2>8 DEF RecordRateStart, Inv, CallInv, Limited
  <2>9. ASSUME NEW c \in Acquires, Truncate(c) \/ WriteHolder(c)
        PROVE  LockContract!Next
    <3>1. Claimed = Nobody /\ last' = last
      BY <2>9 DEF Truncate, WriteHolder, Claimed, Inv, LockInv, Locked
    <3>2. Claimed' = Nobody \/ (Claimed' = c /\ call'[c] = "held")
      BY <2>9 DEF Truncate, WriteHolder, Claimed, Inv, LockInv, Locked, LockTypeOK
    <3>3. call'[c] = "held" => TickOf[c] = 0
      BY <2>9 DEF Truncate, WriteHolder, AfterRecord, Ticked, Inv, LockTypeOK
    <3> QED BY <3>1, <3>2, <3>3, <2>3, <2>4
  <2>10. ASSUME NEW c \in Acquires, SetLastTick(c)
         PROVE  LockContract!Next
    <3>1. Claimed = Nobody /\ Claimed' = c
      BY <2>2, <2>10 DEF SetLastTick, AfterTick, Limited, Claimed, Inv, LockInv, Locked, LockTypeOK
    <3>2. last < TickOf[c] /\ last' = TickOf[c] /\ TickOf[c] # 0
      BY <2>10 DEF SetLastTick, Inv, TickInv, CallInv, Ticked, LockTypeOK
    <3> QED BY <3>1, <3>2, <2>4
  <2>11. ASSUME NEW c \in Acquires, ReleaseLock(c) \/ Die(c)
         PROVE  LockContract!Next
    <3>1. Claimed # Nobody /\ Claimed' = Nobody /\ last' = last
      BY <2>3, <2>11 DEF ReleaseLock, Die, Claimed, Inv, LockInv, Locked, LockTypeOK
    <3> QED BY <3>1, <2>5
  <2> QED BY <2>1, <2>6, <2>7, <2>8, <2>9, <2>10, <2>11, Cases DEF Step
<1> QED BY <1>1, <1>2, Invariance, PTL DEF LockSpec, LockKeepsTheContract, LockContract!Spec
=============================================================================

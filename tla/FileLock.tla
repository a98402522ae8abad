------------------------------ MODULE FileLock ------------------------------
(***************************************************************************)
(* The single-host coordinator: Acquire and Release of several processes   *)
(* over one playbook's advisory file lock, with its last tick and its rate *)
(* window in the record store.                                             *)
(*                                                                         *)
(* Source: runtime/internal/run/filelock.go, claim and acquireLock of      *)
(* run.go, and the store's ticks.go and rate.go.  flock and the store are  *)
(* external.                                                               *)
(*                                                                         *)
(* The wall clock the window is read on may be set forward or back.        *)
(***************************************************************************)
EXTENDS Integers, FiniteSets

CONSTANTS
    Acquires,   \* the Acquire calls, each of its own run
    TickOf,     \* the tick of each call: 0 for any trigger but a scheduled one
    Limit,      \* the limit: this many runs,
    Per,        \*   in this long
    Instants,   \* what the wall clock may read
    Nobody

ASSUME AcquiresAssumption ==
    /\ TickOf \in [Acquires -> Nat]
    /\ Limit \in Nat \ {0} /\ Per \in Nat
    /\ Instants \subseteq Int /\ Instants # {}
    /\ Nobody \notin Acquires

VARIABLES
    hasLimit,   \* whether the playbook declares a rate limit
    locked,     \* the call whose open file has the lock, or Nobody
    contents,   \* the run the lock file names, or Nobody when it is empty
    last,       \* the store's last tick of the playbook, 0 for none
    lastRun,    \* and the run it was recorded for
    starts,     \* the store's rate_starts: the run and its start
    wall,       \* the wall clock
    call,       \* where each call is
    readAt,     \* the clock its rate check reads
    told,       \* what Acquire returns
    names       \* the run its refusal names, or Nobody

tickRow  == <<last, lastRun>>
lockVars == <<locked, contents, tickRow, starts, wall, call, readAt, told, names, hasLimit>>

Ticked == {c \in Acquires : TickOf[c] # 0}

(* The calls whose request carries the limit. *)
Limited == IF hasLimit THEN Acquires ELSE {}

LockInit ==
    /\ hasLimit \in BOOLEAN
    /\ locked = Nobody /\ contents = Nobody /\ last = 0 /\ lastRun = Nobody /\ starts = {}
    /\ wall \in Instants
    /\ call = [c \in Acquires |-> "idle"]
    /\ readAt = [c \in Acquires |-> 0]
    /\ told = [c \in Acquires |-> "none"]
    /\ names = [c \in Acquires |-> Nobody]

-----------------------------------------------------------------------------
(***************************************************************************)
(* The lock, and who it names.                                             *)
(***************************************************************************)

Lock(c) ==
    /\ call[c] = "idle"
    /\ locked = Nobody
    /\ locked' = c
    /\ call' = [call EXCEPT ![c] = "truncating"]
    /\ UNCHANGED <<contents, tickRow, starts, wall, readAt, told, names>>

(* Another open file has the lock: the refusal is decided, and only then is
   the file read for the name. *)
Contended(c) ==
    /\ call[c] = "idle"
    /\ locked # Nobody
    /\ call' = [call EXCEPT ![c] = "naming"]
    /\ UNCHANGED <<locked, contents, tickRow, starts, wall, readAt, told, names>>

Held(c) ==
    /\ call[c] = "naming"
    /\ told' = [told EXCEPT ![c] = "held"]
    /\ names' = [names EXCEPT ![c] = contents]
    /\ call' = [call EXCEPT ![c] = "refused"]
    /\ UNCHANGED <<locked, contents, tickRow, starts, wall, readAt>>

(* The directory, the file or the lock itself fails. *)
LockFails(c) ==
    /\ call[c] = "idle"
    /\ told' = [told EXCEPT ![c] = "unavailable"]
    /\ call' = [call EXCEPT ![c] = "refused"]
    /\ UNCHANGED <<locked, contents, tickRow, starts, wall, readAt, names>>

(* Where Acquire goes once the lock file is written, or could not be. *)
AfterRecord(c) ==
    CASE c \in Ticked -> "ticking"
      [] c \in Limited \ Ticked -> "rating"
      [] OTHER -> "held"

AnswerOf(c, next) == [told EXCEPT ![c] = IF next = "held" THEN "taken" ELSE @]

(* record: truncate, then write; a failure costs the name alone. *)
Truncate(c) ==
    /\ call[c] = "truncating"
    /\ \/ contents' = Nobody /\ call' = [call EXCEPT ![c] = "writing"] /\ UNCHANGED told
       \/ /\ UNCHANGED contents
          /\ call' = [call EXCEPT ![c] = AfterRecord(c)]
          /\ told' = AnswerOf(c, AfterRecord(c))
    /\ UNCHANGED <<locked, tickRow, starts, wall, readAt, names>>

WriteHolder(c) ==
    /\ call[c] = "writing"
    /\ contents' \in {c, contents}
    /\ call' = [call EXCEPT ![c] = AfterRecord(c)]
    /\ told' = AnswerOf(c, AfterRecord(c))
    /\ UNCHANGED <<locked, tickRow, starts, wall, readAt, names>>

-----------------------------------------------------------------------------
(***************************************************************************)
(* The tick and the rate window, in the store, under the lock.             *)
(***************************************************************************)

(* Acquire is to return a refusal, and gives the lock back first. *)
RefuseCall(c, what) ==
    /\ told' = [told EXCEPT ![c] = what]
    /\ call' = [call EXCEPT ![c] = "unlocking"]
    /\ UNCHANGED <<locked, contents, tickRow, starts, wall, readAt>>

(* Fault variant: the tick recorded last is let through. *)
LastTickInclusive(c) ==
    /\ call[c] = "ticking"
    /\ IF TickOf[c] >= last
       THEN /\ call' = [call EXCEPT ![c] = "advancing"]
            /\ UNCHANGED <<locked, contents, tickRow, starts, wall, readAt, told, names>>
       ELSE RefuseCall(c, "tick_ran") /\ names' = [names EXCEPT ![c] = lastRun]

LastTick(c) ==
    /\ call[c] = "ticking"
    /\ IF TickOf[c] > last
       THEN /\ call' = [call EXCEPT ![c] = "advancing"]
            /\ UNCHANGED <<locked, contents, tickRow, starts, wall, readAt, told, names>>
       ELSE RefuseCall(c, "tick_ran") /\ names' = [names EXCEPT ![c] = lastRun]

AfterTick(c) == IF c \in Limited THEN "rating" ELSE "held"

SetLastTick(c) ==
    /\ call[c] = "advancing"
    /\ last' = TickOf[c] /\ lastRun' = c
    /\ call' = [call EXCEPT ![c] = AfterTick(c)]
    /\ told' = AnswerOf(c, AfterTick(c))
    /\ UNCHANGED <<locked, contents, starts, wall, readAt, names>>

(* The clock is read once, for the count and for the start. *)
ReadClock(c) ==
    /\ call[c] = "rating"
    /\ readAt' = [readAt EXCEPT ![c] = wall]
    /\ call' = [call EXCEPT ![c] = "counting"]
    /\ UNCHANGED <<locked, contents, tickRow, starts, wall, told, names>>

(* Fault variant: a start dated later than the clock reads is not counted. *)
InWindowSoFar(t) == {s \in starts : s.at >= t - Per /\ s.at <= t}

InWindow(t) == {s \in starts : s.at >= t - Per}

CountRateStarts(c) ==
    /\ call[c] = "counting"
    /\ IF Cardinality(InWindow(readAt[c])) >= Limit
       THEN RefuseCall(c, "rate_limited") /\ UNCHANGED names
       ELSE /\ call' = [call EXCEPT ![c] = "starting"]
            /\ UNCHANGED <<locked, contents, tickRow, starts, wall, readAt, told, names>>

RecordRateStart(c) ==
    /\ call[c] = "starting"
    /\ starts' = starts \cup {[run |-> c, at |-> readAt[c]]}
    /\ call' = [call EXCEPT ![c] = "held"]
    /\ told' = AnswerOf(c, "held")
    /\ UNCHANGED <<locked, contents, tickRow, wall, readAt, names>>

(* The store fails, or the call's deadline has passed. *)
RecordFails(c) ==
    /\ call[c] \in {"ticking", "advancing", "counting", "starting"}
    /\ RefuseCall(c, "unavailable")
    /\ UNCHANGED names

-----------------------------------------------------------------------------
(***************************************************************************)
(* The lock given back, by the call, by the run or by the kernel.          *)
(***************************************************************************)

(* Fault variant: the descriptor is left open, and the lock with it. *)
UnlockLeavingItOpen(c) ==
    /\ call[c] = "unlocking"
    /\ call' = [call EXCEPT ![c] = "refused"]
    /\ UNCHANGED <<locked, contents, tickRow, starts, wall, readAt, told, names>>

Unlock(c) ==
    /\ call[c] = "unlocking"
    /\ locked' = Nobody
    /\ call' = [call EXCEPT ![c] = "refused"]
    /\ UNCHANGED <<contents, tickRow, starts, wall, readAt, told, names>>

ReleaseLock(c) ==
    /\ call[c] = "held"
    /\ locked' = Nobody
    /\ call' = [call EXCEPT ![c] = "released"]
    /\ UNCHANGED <<contents, tickRow, starts, wall, readAt, told, names>>

(* The process dies: the kernel drops its lock. *)
Die(c) ==
    /\ call[c] \notin {"refused", "released", "dead"}
    /\ locked' = IF locked = c THEN Nobody ELSE locked
    /\ call' = [call EXCEPT ![c] = "dead"]
    /\ UNCHANGED <<contents, tickRow, starts, wall, readAt, told, names>>

SetClock ==
    /\ wall' \in Instants
    /\ UNCHANGED <<locked, contents, tickRow, starts, call, readAt, told, names>>

-----------------------------------------------------------------------------

Step(c) ==
    \/ Lock(c) \/ Contended(c) \/ Held(c) \/ LockFails(c)
    \/ Truncate(c) \/ WriteHolder(c) \/ LastTick(c) \/ SetLastTick(c)
    \/ ReadClock(c) \/ CountRateStarts(c) \/ RecordRateStart(c)
    \/ RecordFails(c) \/ Unlock(c) \/ ReleaseLock(c) \/ Die(c)

LockNext == (SetClock \/ \E c \in Acquires : Step(c)) /\ UNCHANGED hasLimit

LockSpec == LockInit /\ [][LockNext]_lockVars

(* A process that is alive goes on with a call it has begun, and a run ends. *)
Proceeds(c) == call[c] # "idle" /\ Step(c) /\ UNCHANGED hasLimit

LockFairness == \A c \in Acquires : WF_lockVars(Proceeds(c))
-----------------------------------------------------------------------------
(***************************************************************************)
(* Properties.                                                             *)
(***************************************************************************)

Refusals == {"held", "tick_ran", "rate_limited", "unavailable"}

(* Every variable has its type. *)
LockTypeOK ==
    /\ hasLimit \in BOOLEAN
    /\ locked \in Acquires \cup {Nobody} /\ contents \in Acquires \cup {Nobody}
    /\ last \in Nat /\ lastRun \in Acquires \cup {Nobody}
    /\ starts \subseteq [run : Acquires, at : Instants]
    /\ wall \in Instants
    /\ call \in [Acquires -> {"idle", "naming", "truncating", "writing", "ticking", "advancing",
                         "rating", "counting", "starting", "held", "unlocking", "refused",
                         "released", "dead"}]
    /\ readAt \in [Acquires -> Instants \cup {0}]
    /\ told \in [Acquires -> Refusals \cup {"none", "taken"}]
    /\ names \in [Acquires -> Acquires \cup {Nobody}]

(* C13, tick: no tick is taken by two calls, whichever processes made them and
   whenever they died. *)
LockTickOnce ==
    \A c, d \in Ticked :
        told[c] = "taken" /\ told[d] = "taken" /\ c # d => TickOf[c] # TickOf[d]

(* C8 and C9, rate: no window of length Per holds more than Runs starts, wherever
   the clock was set in between. *)
WindowHolds ==
    \A t \in Instants :
        Cardinality({s \in starts : t <= s.at /\ s.at <= t + Per}) <= Limit

(* C7, releaseLock: a lock that refuses someone is given up. *)
LockComesFree == (locked # Nobody) ~> (locked = Nobody)

(* The claim the calls see through the lock: of the call that was given it. *)
Claimed == IF locked # Nobody /\ call[locked] = "held" THEN locked ELSE Nobody

(* The contract is asked of a playbook without a limit: with one, a tick may be
   recorded for a call the window then refuses. *)
LockContract == INSTANCE Coordinator
                    WITH Calls  <- Acquires, DueAt <- TickOf, None <- Nobody,
                         holder <- IF hasLimit THEN Nobody ELSE Claimed,
                         last   <- IF hasLimit THEN 0 ELSE last

(* The file lock keeps the coordinator's contract: one claim at a time, and the
   tick with it. *)
LockKeepsTheContract == LockContract!Spec
=============================================================================

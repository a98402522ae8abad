------------------------------ MODULE Schedule ------------------------------
(***************************************************************************)
(* The scheduler of `gronin serve`: one loop that ticks every armed        *)
(* playbook, records the occurrences that were missed, fires the last one  *)
(* and waits for the next.  A fire is the whole run, and the loop is in it *)
(* until the run ends.  The process may stop at any instant and be started *)
(* again, and the wall clock may be set.                                   *)
(*                                                                         *)
(* Source: runtime/internal/schedule/schedule.go, and of cmd/gronin/       *)
(* serve_cmd.go the arming, fire and scheduledOutcome.  The cron library   *)
(* is external: Next is the first occurrence after an instant, and the     *)
(* zero time for an expression that has none.                              *)
(*                                                                         *)
(* Occurrences lie in 1..MaxNow.  One that comes later is beyond the       *)
(* model's horizon, and the loop then waits for good.                      *)
(***************************************************************************)
EXTENDS Integers, Sequences, FiniteSets, FiniteSetsExt

CONSTANTS
    Playbooks,      \* the armed playbooks
    Occurs,         \* the occurrences of each: none for one like February 30th
    CatchUpLimit,   \* how many past occurrences a tick remembers
    MaxNow,         \* bound: the clock's horizon
    MaxStarts,      \* bound: how often the process is started
    MaxJumps,       \* bound: how often the wall clock is set
    MaxOverflow     \* bound: how far the overflow is counted

ASSUME ScheduleAssumption ==
    /\ Playbooks # {} /\ Occurs \in [Playbooks -> SUBSET (1..MaxNow)]
    /\ CatchUpLimit \in Nat \ {0} /\ MaxOverflow \in Nat \ {0}
    /\ {MaxNow, MaxStarts, MaxJumps} \subseteq Nat
    /\ MaxNow <= MaxOverflow   \* only a walk that does not end comes to the bound

VARIABLES
    now,        \* the wall clock
    jumps,      \* how often it has been set
    starts,     \* how often the process has been started
    armed,      \* the instant of its last start
    seenTo,     \* each entry's instant caught up to
    pc,         \* where the loop is
    ticked,     \* the instant the tick covers
    queue,      \* the playbooks it has still to tick
    book,       \* the one it is at,
    at,         \*   the occurrence it has walked to,
    due,        \*   the ones it remembers,
    overflow,   \*   and how many it does not
    wait,       \* how long the timer still runs
    fired,      \* the occurrences fired, by playbook, instant and start
    missed,     \* the rows of missed_occurrences, with their reason
    lost        \* what could not be recorded, and was logged

time   == <<now, jumps>>
walk   == <<book, at, due, overflow>>
record == <<fired, missed, lost>>
vars   == <<time, starts, armed, seenTo, pc, ticked, queue, walk, wait, record>>

(* The zero time, and a wait that does not end. *)
Zero == 0
Forever == MaxNow + 1

Init ==
    /\ now = 0 /\ jumps = 0 /\ starts = 0 /\ armed = 0
    /\ seenTo = [b \in Playbooks |-> 0]
    /\ pc = "down" /\ ticked = 0 /\ queue = {}
    /\ book \in Playbooks /\ at = Zero /\ due = <<>> /\ overflow = 0 /\ wait = 0
    /\ fired = {} /\ missed = {} /\ lost = {}

(* Schedule.Next. *)
NextOf(b, t) ==
    IF Occurs[b] = {} THEN Zero ELSE Min({o \in Occurs[b] : o > t} \cup {MaxNow + 1})

-----------------------------------------------------------------------------
(***************************************************************************)
(* The process, and the clock.                                             *)
(***************************************************************************)

(* serve starts: every schedule is armed from now. *)
Start ==
    /\ pc = "down"
    /\ starts < MaxStarts
    /\ starts' = starts + 1
    /\ armed' = now
    /\ seenTo' = [b \in Playbooks |-> now]
    /\ pc' = "top"
    /\ UNCHANGED <<time, ticked, queue, walk, wait, record>>

(* It is signalled or killed. *)
Stop ==
    /\ pc # "down"
    /\ pc' = "down"
    /\ queue' = {} /\ due' = <<>> /\ overflow' = 0 /\ wait' = 0
    /\ UNCHANGED <<time, starts, armed, seenTo, ticked, book, at, record>>

Elapse ==
    /\ now < MaxNow \/ (pc = "waiting" /\ wait > 0 /\ wait # Forever)
    /\ now' = IF now < MaxNow THEN now + 1 ELSE now
    /\ wait' = IF pc = "waiting" /\ wait > 0 /\ wait # Forever THEN wait - 1 ELSE wait
    /\ UNCHANGED <<jumps, starts, armed, seenTo, pc, ticked, queue, walk, record>>

SetClock ==
    /\ jumps < MaxJumps
    /\ jumps' = jumps + 1
    /\ now' \in 0..MaxNow
    /\ UNCHANGED <<starts, armed, seenTo, pc, ticked, queue, walk, wait, record>>

-----------------------------------------------------------------------------
(***************************************************************************)
(* Tick and tickOne.                                                       *)
(***************************************************************************)

BeginTick ==
    /\ pc = "top"
    /\ ticked' = now
    /\ queue' = Playbooks
    /\ pc' = "next"
    /\ UNCHANGED <<time, starts, armed, seenTo, walk, wait, record>>

(* In the order of their names, which may be any. *)
TakeUp(b) ==
    /\ pc = "next"
    /\ b \in queue
    /\ queue' = queue \ {b}
    /\ book' = b
    /\ at' = NextOf(b, seenTo[b])
    /\ due' = <<>> /\ overflow' = 0
    /\ pc' = "walking"
    /\ UNCHANGED <<time, starts, armed, seenTo, ticked, wait, record>>

(* Fault variant: the forgotten are not counted. *)
WalkUncounted ==
    /\ pc = "walking"
    /\ at <= ticked
    /\ due' = IF Len(due) = CatchUpLimit THEN [due EXCEPT ![Len(due)] = at] ELSE Append(due, at)
    /\ at' = NextOf(book, at)
    /\ UNCHANGED <<time, starts, armed, seenTo, pc, ticked, queue, book, overflow, wait, record>>

(* One more occurrence that is due; past the limit the middle is forgotten. *)
Walk ==
    /\ pc = "walking"
    /\ at <= ticked
    /\ IF Len(due) = CatchUpLimit
       THEN /\ due' = [due EXCEPT ![Len(due)] = at]
            /\ overflow' = Min({overflow + 1, MaxOverflow})
       ELSE due' = Append(due, at) /\ UNCHANGED overflow
    /\ at' = NextOf(book, at)
    /\ UNCHANGED <<time, starts, armed, seenTo, pc, ticked, queue, book, wait, record>>

(* Fault variant: the entry is moved to the tick's instant even when nothing was
   due, which is back if the clock was set back. *)
WalkEndsMovesAlways ==
    /\ pc = "walking"
    /\ at > ticked
    /\ pc' = IF due = <<>> THEN "next" ELSE "recording"
    /\ seenTo' = [seenTo EXCEPT ![book] = ticked]
    /\ UNCHANGED <<time, starts, armed, ticked, queue, walk, wait, record>>

WalkEnds ==
    /\ pc = "walking"
    /\ at > ticked
    /\ IF due = <<>>
       THEN pc' = "next" /\ UNCHANGED seenTo
       ELSE pc' = "recording" /\ seenTo' = [seenTo EXCEPT ![book] = ticked]
    /\ UNCHANGED <<time, starts, armed, ticked, queue, walk, wait, record>>

(* A row of missed_occurrences: written, or lost and logged. *)
Write(row) ==
    /\ \/ missed' = missed \cup {row} /\ UNCHANGED lost
       \/ lost' = lost \cup {row} /\ UNCHANGED missed
    /\ UNCHANGED fired

Row(t, why, n) == [book |-> book, at |-> t, why |-> why, count |-> n, start |-> starts]

RecordMissed ==
    /\ pc = "recording"
    /\ Len(due) > 1
    /\ Write(Row(due[1], "not_running", 1))
    /\ due' = Tail(due)
    /\ UNCHANGED <<time, starts, armed, seenTo, pc, ticked, queue, book, at, overflow, wait>>

RecordOverflow ==
    /\ pc = "recording"
    /\ Len(due) = 1 /\ overflow > 0
    /\ Write(Row(due[1], "overflow", overflow))
    /\ overflow' = 0
    /\ UNCHANGED <<time, starts, armed, seenTo, pc, ticked, queue, book, at, due, wait>>

Fire ==
    /\ pc = "recording"
    /\ Len(due) = 1 /\ overflow = 0
    /\ fired' = fired \cup {[book |-> book, at |-> due[1], start |-> starts]}
    /\ pc' = "firing"
    /\ UNCHANGED <<time, starts, armed, seenTo, ticked, queue, walk, wait, missed, lost>>

(* A run of any status, or a refusal of the guard's. *)
FireReturns ==
    /\ pc = "firing"
    /\ pc' = "next" /\ due' = <<>>
    /\ UNCHANGED <<time, starts, armed, seenTo, ticked, queue, book, at, overflow, wait, record>>

(* Anything else did not become a run. *)
FireFails ==
    /\ pc = "firing"
    /\ Write(Row(due[1], "no_run", 1))
    /\ pc' = "next" /\ due' = <<>>
    /\ UNCHANGED <<time, starts, armed, seenTo, ticked, queue, book, at, overflow, wait>>

-----------------------------------------------------------------------------
(***************************************************************************)
(* Run: the wait between two ticks.                                        *)
(***************************************************************************)

(* The earliest armed occurrence.  The zero time does not get here: a tick of a
   playbook that has no occurrence does not end. *)
NextDue(t) == Min({NextOf(b, t) : b \in Playbooks})

(* At least a second, and for good where nothing comes within the horizon. *)
Until(next) == IF next > MaxNow THEN Forever ELSE Max({next - now, 1})

(* Fault variant: the next occurrence is looked for from a fresh reading. *)
WaitFromNow ==
    /\ pc = "next" /\ queue = {}
    /\ wait' = Until(NextDue(now))
    /\ pc' = "waiting"
    /\ UNCHANGED <<time, starts, armed, seenTo, ticked, queue, walk, record>>

Wait ==
    /\ pc = "next" /\ queue = {}
    /\ wait' = Until(NextDue(ticked))
    /\ pc' = "waiting"
    /\ UNCHANGED <<time, starts, armed, seenTo, ticked, queue, walk, record>>

Wake ==
    /\ pc = "waiting" /\ wait = 0
    /\ pc' = "top"
    /\ UNCHANGED <<time, starts, armed, seenTo, ticked, queue, walk, wait, record>>

-----------------------------------------------------------------------------

Loop ==
    \/ BeginTick \/ Walk \/ WalkEnds \/ RecordMissed \/ RecordOverflow \/ Fire
    \/ FireReturns \/ FireFails \/ Wait \/ Wake
    \/ \E b \in Playbooks : TakeUp(b)

Next == Start \/ Stop \/ Elapse \/ SetClock \/ Loop

Spec == Init /\ [][Next]_vars

(* The loop goes on, a run ends (its agent has a timeout), and time passes. *)
FairSpec == Spec /\ WF_vars(Loop) /\ WF_vars(Elapse)
-----------------------------------------------------------------------------
(***************************************************************************)
(* Properties.                                                             *)
(***************************************************************************)

Instants == 0..(MaxNow + 1)

(* Every variable has its type. *)
TypeOK ==
    /\ now \in 0..MaxNow /\ jumps \in 0..MaxJumps
    /\ starts \in 0..MaxStarts /\ armed \in 0..MaxNow
    /\ seenTo \in [Playbooks -> 0..MaxNow]
    /\ pc \in {"down", "top", "next", "walking", "recording", "firing", "waiting"}
    /\ ticked \in 0..MaxNow /\ queue \subseteq Playbooks /\ book \in Playbooks
    /\ at \in Instants
    /\ Len(due) <= CatchUpLimit /\ \A i \in 1..Len(due) : due[i] \in Instants
    /\ overflow \in 0..MaxOverflow
    /\ wait \in 0..(MaxNow + 2)

(* tickOne: a process fires an occurrence once, and a playbook's occurrences in
   their order, wherever the clock was set and however long a run took. *)
FiredOnceInOrder ==
    [][pc = "recording" /\ pc' = "firing" =>
           \A f \in fired : f.book = book /\ f.start = starts => f.at < due[1]]_vars

(* What the process that runs has fired, and recorded or logged, of a playbook. *)
FiredOf(b) == {f \in fired : f.book = b /\ f.start = starts}
RowsOf(b)  == {r \in missed \cup lost : r.book = b /\ r.start = starts}

(* The occurrences its entry has moved past since the start. *)
Past(b) == {o \in Occurs[b] : armed < o /\ o <= seenTo[b]}

(* The rows for occurrences that were not fired, and what they count. *)
MissedOf(b) == {r \in RowsOf(b) : r.why # "no_run"}
Units(rows) == UNION {{r} \X (1..r.count) : r \in rows}

(* FR-030, tickOne: of the occurrences an entry has moved past, and whose tick is
   not still at it, each was fired, is in the record as missed, one by one or in
   the count, or was logged, and each but once. *)
EachAccountedFor ==
    \A b \in Playbooks : pc # "down" /\ ~(pc = "recording" /\ b = book) =>
        Cardinality(Past(b)) = Cardinality(FiredOf(b)) + Cardinality(Units(MissedOf(b)))

(* Run: an occurrence that comes due while the process runs is taken up by a
   tick, whatever the loop was doing at that instant. *)
DueIsTakenUp ==
    \A b \in Playbooks : \A o \in Occurs[b] : \A k \in 1..MaxStarts :
        (pc # "down" /\ starts = k /\ armed < o /\ o <= now) ~>
            (pc = "down" \/ starts # k \/ seenTo[b] >= o)
=============================================================================

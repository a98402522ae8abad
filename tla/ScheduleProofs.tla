--------------------------- MODULE ScheduleProofs ---------------------------
(***************************************************************************)
(* Proofs about the scheduler, for any playbooks, any occurrences, any     *)
(* limit of what a tick remembers, and a clock that is set at will: the    *)
(* occurrences of a playbook are fired once and in their order, and what   *)
(* is fired is an occurrence that came due after the process started.      *)
(***************************************************************************)
EXTENDS Schedule, FiniteSetTheorems, TLAPS

Fires == [book : Playbooks, at : Nat, start : Nat]
Rows  == [book : Playbooks, at : Nat, why : {"not_running", "overflow", "no_run"},
          count : Nat, start : Nat]

(* TypeOK, with due a sequence and what was fired and recorded typed. *)
TypeInv ==
    /\ TypeOK
    /\ due \in Seq(Instants)
    /\ fired \subseteq Fires /\ missed \subseteq Rows /\ lost \subseteq Rows

(* An occurrence that was fired or has a row of its own, or that is among those
   forgotten between two fires, of which a row has the count. *)
Accounted(b, o) ==
    \/ \E f \in FiredOf(b) : f.at = o
    \/ \E r \in RowsOf(b) : r.why = "not_running" /\ r.at = o
    \/ \E r \in RowsOf(b) :
         /\ r.why = "overflow" /\ o < r.at
         /\ \A f \in FiredOf(b) : f.at < o \/ r.at <= f.at

(* An occurrence that the tick at hand still accounts for. *)
InHand(o) ==
    \/ \E i \in 1..Len(due) : due[i] = o
    \/ /\ overflow > 0 /\ due # <<>> /\ o < due[Len(due)]
       /\ \A f \in FiredOf(book) : f.at < o

(* Within the walk of one playbook's occurrences, an expression without any
   stays at the zero time; otherwise the walk goes up, from where the entry had
   been caught up to, over occurrences that are due, and steps over none. *)
WalkPart ==
    pc = "walking" =>
        /\ Occurs[book] = {} => at = Zero
        /\ Occurs[book] # {} =>
             /\ at \in Occurs[book] \cup {MaxNow + 1}
             /\ seenTo[book] < at
             /\ \A i \in 1..Len(due) : due[i] < at
             /\ \A o \in Occurs[book] : seenTo[book] < o /\ o < at => InHand(o)

(* What a tick remembers, in order: occurrences not past its instant and, until
   the entry is moved, after the one it had been caught up to. *)
DuePart ==
    pc \in {"walking", "recording"} /\ Occurs[book] # {} =>
        /\ \A i \in 1..Len(due) :
             due[i] \in Occurs[book] /\ armed < due[i] /\ due[i] <= ticked
        /\ \A i, j \in 1..Len(due) : i < j => due[i] < due[j]
        /\ pc = "walking" => \A i \in 1..Len(due) : seenTo[book] < due[i]

(* A tick that records has moved the entry to its instant, and what it has to
   record and fire is later than all that was fired, and no earlier than all
   that was recorded. *)
RecordPart ==
    pc = "recording" =>
        /\ Occurs[book] # {} /\ due # <<>> /\ seenTo[book] = ticked
        /\ \A f \in FiredOf(book) : \A i \in 1..Len(due) : f.at < due[i]
        /\ \A r \in RowsOf(book) : r.at <= due[Len(due)]
        /\ \A o \in Occurs[book] : armed < o /\ o <= ticked => InHand(o) \/ Accounted(book, o)

(* An entry is never behind the instant it was armed at. *)
ArmedPart == pc # "down" => \A b \in Playbooks : armed <= seenTo[b]

(* What was recorded is of this process or an earlier one, and lies behind the
   entry; so does what is being fired. *)
BehindPart ==
    /\ pc = "firing" => due # <<>> /\ due[1] <= seenTo[book]
    /\ \A f \in fired : f.start <= starts
    /\ \A r \in missed \cup lost : r.start <= starts
    /\ \A b \in Playbooks : \A r \in RowsOf(b) : r.at <= seenTo[b]

(* tickOne: what is fired is an occurrence of its playbook; the process that runs
   fired none that came due before it was started, and none that the entry has
   not been moved past. *)
FiredWhenDue ==
    \A f \in fired :
        /\ f.at \in Occurs[f.book]
        /\ f.start = starts => armed < f.at /\ f.at <= seenTo[f.book]

(* FR-030, tickOne: an occurrence that an entry has moved past, and whose tick is
   not still at it, was fired, has a row of its own in the record or the log, or
   is one that a row of that tick counts. *)
NoneForgotten ==
    \A b \in Playbooks : pc # "down" /\ ~(pc = "recording" /\ b = book) =>
        \A o \in Occurs[b] : armed < o /\ o <= seenTo[b] => Accounted(b, o)

Inv ==
    /\ TypeInv /\ WalkPart /\ DuePart /\ RecordPart /\ ArmedPart /\ BehindPart
    /\ FiredWhenDue /\ NoneForgotten

-----------------------------------------------------------------------------
(* The order of the numbers as a relation, for the library's minima. *)
NatOrder == {pair \in Nat \X Nat : pair[1] < pair[2]}

LEMMA NatOrderWellFounded == IsWellFoundedOn(NatOrder, Nat)
  BY NatLessThanWellFounded, Zenon DEF OpToRel, NatOrder

(* A set of numbers that is not empty has a least one, and Min is it. *)
LEMMA MinIs ==
    ASSUME NEW S \in SUBSET Nat, S # {}
    PROVE  Min(S) \in S /\ \A j \in S : Min(S) <= j
<1>1. PICK i \in S : \A j \in S : <<j, i>> \notin NatOrder
  BY NatOrderWellFounded, WFMin
<1>2. \A j \in S : ~(j < i)
  BY <1>1 DEF NatOrder
<1>3. \A j \in S : i <= j
  BY <1>2
<1> QED BY <1>3 DEF Min

(* Next: an expression that has occurrences has a first one after an instant of
   the horizon, or one beyond it. *)
LEMMA NextOfIs ==
    ASSUME NEW b \in Playbooks, NEW t \in 0..MaxNow, Occurs[b] # {}
    PROVE  /\ NextOf(b, t) \in Occurs[b] \cup {MaxNow + 1}
           /\ t < NextOf(b, t)
           /\ \A o \in Occurs[b] : t < o => NextOf(b, t) <= o
<1> USE ScheduleAssumption
<1> DEFINE S == {o \in Occurs[b] : o > t} \cup {MaxNow + 1}
<1>1. Occurs[b] \subseteq 1..MaxNow /\ MaxNow \in Nat
  OBVIOUS
<1>2. S \in SUBSET Nat /\ S # {}
  BY <1>1
<1>3. Min(S) \in S /\ \A j \in S : Min(S) <= j
  BY <1>2, MinIs
<1>4. NextOf(b, t) = Min(S)
  BY DEF NextOf
<1> QED BY <1>1, <1>3, <1>4

LEMMA NextOfType ==
    ASSUME NEW b \in Playbooks, NEW t \in Nat
    PROVE  NextOf(b, t) \in Instants
<1> USE ScheduleAssumption
<1> DEFINE S == {o \in Occurs[b] : o > t} \cup {MaxNow + 1}
<1>1. Occurs[b] \subseteq 1..MaxNow /\ MaxNow \in Nat
  OBVIOUS
<1>2. S \in SUBSET Instants /\ S \in SUBSET Nat /\ S # {}
  BY <1>1 DEF Instants
<1>3. Min(S) \in S
  BY <1>2, MinIs
<1>4. NextOf(b, t) = IF Occurs[b] = {} THEN Zero ELSE Min(S)
  BY DEF NextOf
<1> QED BY <1>1, <1>2, <1>3, <1>4 DEF Instants, Zero

(* The wait between two ticks is bounded by the horizon. *)
LEMMA UntilType ==
    ASSUME TypeOK, NEW t \in Nat
    PROVE  Until(NextDue(t)) \in 0..(MaxNow + 2)
<1> USE ScheduleAssumption
<1> DEFINE S == {NextOf(b, t) : b \in Playbooks}
<1>1. S \in SUBSET Instants /\ S # {}
  BY NextOfType
<1>2. S \in SUBSET Nat
  BY <1>1 DEF Instants
<1>3. NextDue(t) \in S
  BY <1>1, <1>2, MinIs DEF NextDue
<1>4. NextDue(t) \in 0..(MaxNow + 1)
  BY <1>1, <1>3 DEF Instants
<1> HIDE DEF S
<1> DEFINE n == NextDue(t)
<1>5. n \in 0..(MaxNow + 1)
  BY <1>4
<1> HIDE DEF n
<1>6. CASE n > MaxNow
  BY <1>6 DEF Until, Forever, n
<1>7. CASE ~(n > MaxNow)
  <2>1. now \in Int /\ n - now \in Int /\ n - now <= MaxNow /\ MaxNow \in Nat
    BY <1>5, <1>7 DEF TypeOK
  <2>2. \A d \in Int : Max({d, 1}) = IF d >= 1 THEN d ELSE 1
    <3> TAKE d \in Int
    <3> QED BY DEF Max
  <2>3. Until(n) = Max({n - now, 1})
    BY <1>7 DEF Until
  <2> QED BY <2>1, <2>2, <2>3 DEF n
<1> QED BY <1>6, <1>7

-----------------------------------------------------------------------------
(* The record of this process as it was: what was accounted for still is. *)
LEMMA SameRecord ==
    ASSUME UNCHANGED record, UNCHANGED starts
    PROVE  /\ \A b : FiredOf(b)' = FiredOf(b) /\ RowsOf(b)' = RowsOf(b)
           /\ \A b, o : Accounted(b, o)' <=> Accounted(b, o)
<1>1. \A b : FiredOf(b)' = FiredOf(b) /\ RowsOf(b)' = RowsOf(b)
  BY DEF FiredOf, RowsOf, record
<1> QED BY <1>1 DEF Accounted

LEMMA InitInv == Init => Inv
<1> SUFFICES ASSUME Init PROVE Inv
  OBVIOUS
<1> USE ScheduleAssumption
<1>1. TypeInv
  BY DEF Init, TypeInv, TypeOK, Instants, Zero
<1>2. WalkPart /\ DuePart /\ RecordPart /\ ArmedPart
  BY DEF Init, WalkPart, DuePart, RecordPart, ArmedPart
<1>3. BehindPart /\ FiredWhenDue
  BY DEF Init, BehindPart, FiredWhenDue, RowsOf
<1>4. NoneForgotten
  BY DEF Init, NoneForgotten
<1> QED BY <1>1, <1>2, <1>3, <1>4 DEF Inv

LEMMA StartInv ==
    ASSUME Inv, Start
    PROVE  Inv'
<1> USE ScheduleAssumption
<1>0. TypeInv /\ BehindPart /\ FiredWhenDue
  BY DEF Inv
<1>1. /\ starts' = starts + 1 /\ armed' = now /\ seenTo' = [b \in Playbooks |-> now]
      /\ pc' = "top" /\ UNCHANGED <<now, jumps, ticked, queue, book, at, due, overflow, wait>>
      /\ UNCHANGED <<fired, missed, lost>> /\ starts < MaxStarts
  BY DEF Start, time, walk, record
<1>2. /\ starts \in Nat /\ now \in Nat
      /\ fired \subseteq Fires /\ missed \subseteq Rows /\ lost \subseteq Rows
  BY <1>0 DEF TypeInv, TypeOK
<1>3. TypeInv'
  <2>1. TypeOK
    BY <1>0 DEF TypeInv
  <2>2. /\ starts' \in 0..MaxStarts /\ armed' \in 0..MaxNow
        /\ seenTo' \in [Playbooks -> 0..MaxNow]
    BY <1>1, <2>1 DEF TypeOK
  <2>3. TypeOK'
    BY <1>1, <2>1, <2>2, Zenon DEF TypeOK, Instants
  <2> QED BY <1>0, <1>1, <2>3 DEF TypeInv
<1>4. WalkPart' /\ DuePart' /\ RecordPart'
  BY <1>1 DEF WalkPart, DuePart, RecordPart
<1>5. ArmedPart'
  BY <1>1, <1>2 DEF ArmedPart
<1>6. /\ \A f \in fired : f.start \in Nat /\ f.start <= starts
      /\ \A r \in missed \cup lost : r.start \in Nat /\ r.start <= starts
  BY <1>0, <1>2 DEF BehindPart, Fires, Rows
<1>7. /\ \A f \in fired : f.start <= starts' /\ f.start # starts'
      /\ \A r \in missed \cup lost : r.start <= starts' /\ r.start # starts'
  BY <1>1, <1>2, <1>6
<1>8. \A b : RowsOf(b)' = {}
  BY <1>1, <1>7, Zenon DEF RowsOf
<1>9. BehindPart'
  BY <1>1, <1>7, <1>8 DEF BehindPart
<1>10. FiredWhenDue'
  BY <1>0, <1>1, <1>7 DEF FiredWhenDue
<1>11. NoneForgotten'
  BY <1>1, <1>2 DEF NoneForgotten
<1> QED BY <1>3, <1>4, <1>5, <1>9, <1>10, <1>11 DEF Inv

(* A step that leaves the record, the entries and the walk alone, and is at none
   of the places of a tick at work, keeps all that is not a type. *)
LEMMA OutsideTick ==
    ASSUME Inv, TypeInv',
           UNCHANGED <<record, starts, armed, seenTo>>,
           pc' \notin {"walking", "recording", "firing"},
           pc \notin {"down", "recording"} \/ pc' = "down"
    PROVE  Inv'
<1>0. BehindPart /\ FiredWhenDue /\ NoneForgotten /\ ArmedPart
  BY DEF Inv
<1>1. WalkPart' /\ DuePart' /\ RecordPart'
  BY DEF WalkPart, DuePart, RecordPart
<1>2. ArmedPart'
  BY <1>0 DEF ArmedPart
<1>3. /\ \A b : FiredOf(b)' = FiredOf(b) /\ RowsOf(b)' = RowsOf(b)
      /\ \A b, o : Accounted(b, o)' <=> Accounted(b, o)
  BY SameRecord
<1>4. BehindPart'
  BY <1>0, <1>3 DEF BehindPart, record
<1>5. FiredWhenDue'
  BY <1>0 DEF FiredWhenDue, record
<1>6. NoneForgotten'
  BY <1>0, <1>3 DEF NoneForgotten
<1> QED BY <1>1, <1>2, <1>4, <1>5, <1>6 DEF Inv

LEMMA OutsideInv ==
    ASSUME Inv, Stop \/ BeginTick \/ Wait \/ Wake \/ FireReturns
    PROVE  Inv'
<1> USE ScheduleAssumption
<1>0. TypeInv
  BY DEF Inv
<1>1. CASE Stop
  <2>1. TypeInv'
    BY <1>0, <1>1 DEF TypeInv, TypeOK, Stop, time, record
  <2> QED BY <1>1, <2>1, OutsideTick DEF Stop
<1>2. CASE BeginTick
  <2>1. TypeInv'
    BY <1>0, <1>2 DEF TypeInv, TypeOK, BeginTick, time, walk, record
  <2> QED BY <1>2, <2>1, OutsideTick DEF BeginTick
<1>3. CASE Wait
  <2>1. wait' \in 0..(MaxNow + 2)
    BY <1>0, <1>3, UntilType DEF TypeInv, TypeOK, Wait
  <2>2. TypeInv'
    BY <1>0, <1>3, <2>1 DEF TypeInv, TypeOK, Wait, time, walk, record
  <2> QED BY <1>3, <2>2, OutsideTick DEF Wait
<1>4. CASE Wake
  <2>1. TypeInv'
    BY <1>0, <1>4 DEF TypeInv, TypeOK, Wake, time, walk, record
  <2> QED BY <1>4, <2>1, OutsideTick DEF Wake
<1>5. CASE FireReturns
  <2>1. TypeInv'
    BY <1>0, <1>5 DEF TypeInv, TypeOK, FireReturns, time, record
  <2> QED BY <1>5, <2>1, OutsideTick DEF FireReturns
<1> QED BY <1>1, <1>2, <1>3, <1>4, <1>5

(* The clock moves, or is set, and the loop has nothing that depends on it but
   the instants it has already read. *)
LEMMA ClockInv ==
    ASSUME Inv, Elapse \/ SetClock
    PROVE  Inv'
<1> USE ScheduleAssumption
<1>1. UNCHANGED <<starts, armed, seenTo, pc, ticked, queue, walk, record>>
  BY DEF Elapse, SetClock
<1>2. TypeInv'
  <2>1. CASE Elapse
    BY <2>1, SMTT(30) DEF Inv, TypeInv, TypeOK, Elapse, walk, record, Forever
  <2>2. CASE SetClock
    BY <2>2, SMTT(30) DEF Inv, TypeInv, TypeOK, SetClock, walk, record
  <2> QED BY <2>1, <2>2
<1>3. /\ \A b : FiredOf(b)' = FiredOf(b) /\ RowsOf(b)' = RowsOf(b)
      /\ \A b, o : Accounted(b, o)' <=> Accounted(b, o)
  BY <1>1, SameRecord
<1>4. \A o : InHand(o)' <=> InHand(o)
  BY <1>1, <1>3 DEF InHand, walk
<1>5. WalkPart'
  BY <1>1, <1>4 DEF Inv, WalkPart, walk
<1>6. DuePart'
  BY <1>1 DEF Inv, DuePart, walk
<1>7. RecordPart'
  BY <1>1, <1>3, <1>4 DEF Inv, RecordPart, walk
<1>8. ArmedPart' /\ FiredWhenDue'
  BY <1>1 DEF Inv, ArmedPart, FiredWhenDue, record
<1>9. BehindPart'
  BY <1>1, <1>3 DEF Inv, BehindPart, walk, record
<1>10. NoneForgotten'
  BY <1>1, <1>3 DEF Inv, NoneForgotten, walk
<1> QED BY <1>2, <1>5, <1>6, <1>7, <1>8, <1>9, <1>10 DEF Inv

-----------------------------------------------------------------------------
LEMMA TakeUpInv ==
    ASSUME Inv, NEW b \in Playbooks, TakeUp(b)
    PROVE  Inv'
<1> USE ScheduleAssumption DEF TakeUp, time, record
<1>0. TypeInv /\ TypeOK
  BY DEF Inv, TypeInv
<1>1. seenTo[b] \in 0..MaxNow /\ seenTo[b] \in Nat
  BY <1>0 DEF TypeOK
<1>2. TypeInv'
  <2>1. at' \in Instants
    BY <1>1, NextOfType
  <2> QED BY <1>0, <2>1 DEF TypeInv, TypeOK
<1>3. /\ \A c : FiredOf(c)' = FiredOf(c) /\ RowsOf(c)' = RowsOf(c)
      /\ \A c, o : Accounted(c, o)' <=> Accounted(c, o)
  BY SameRecord
<1>4. WalkPart'
  <2>1. Occurs[b] = {} => at' = Zero
    BY DEF NextOf
  <2>2. ASSUME Occurs[b] # {}
        PROVE  /\ at' \in Occurs[b] \cup {MaxNow + 1} /\ seenTo[b] < at'
               /\ \A o \in Occurs[b] : ~(seenTo[b] < o /\ o < at')
    <3>1. /\ at' \in Occurs[b] \cup {MaxNow + 1} /\ seenTo[b] < at'
          /\ \A o \in Occurs[b] : seenTo[b] < o => at' <= o
      BY <1>1, <2>2, NextOfIs
    <3>2. Occurs[b] \subseteq Int /\ at' \in Int
      BY <1>2 DEF TypeInv, TypeOK, Instants
    <3> QED BY <3>1, <3>2
  <2> QED BY <2>1, <2>2 DEF WalkPart
<1>5. DuePart' /\ RecordPart'
  BY DEF DuePart, RecordPart
<1>6. ArmedPart' /\ FiredWhenDue'
  BY DEF Inv, ArmedPart, FiredWhenDue
<1>7. BehindPart'
  BY <1>3 DEF Inv, BehindPart
<1>8. NoneForgotten'
  BY <1>3 DEF Inv, NoneForgotten
<1> QED BY <1>2, <1>4, <1>5, <1>6, <1>7, <1>8 DEF Inv

(* What a step of the walk makes of what the tick remembers: the occurrence it is
   at comes last, after what was there or in place of the last of it, which is
   then counted. *)
LEMMA WalkDue ==
    ASSUME TypeInv, Walk
    PROVE  /\ due' \in Seq(Instants) /\ Len(due') \in 1..CatchUpLimit
           /\ due'[Len(due')] = at
           /\ Len(due') - 1 <= Len(due)
           /\ \A i \in 1..(Len(due') - 1) : i \in 1..Len(due) /\ due'[i] = due[i]
           /\ overflow' \in 0..MaxOverflow
           /\ overflow > 0 => overflow' > 0
           /\ \/ Len(due') = Len(due) + 1
              \/ Len(due') = Len(due) /\ overflow' > 0
<1> USE ScheduleAssumption
<1>0. /\ due \in Seq(Instants) /\ Len(due) \in Nat /\ Len(due) <= CatchUpLimit
      /\ at \in Instants /\ overflow \in 0..MaxOverflow
  BY DEF TypeInv, TypeOK
<1>1. CASE Len(due) = CatchUpLimit
  <2>1. due' = [due EXCEPT ![Len(due)] = at] /\ overflow' = Min({overflow + 1, MaxOverflow})
    BY <1>1 DEF Walk
  <2>2. Len(due) \in 1..Len(due)
    BY <1>0, <1>1
  <2>3. Len(due') = Len(due) /\ due' \in Seq(Instants)
    BY <1>0, <2>1, <2>2
  <2>4. due'[Len(due)] = at /\ \A i \in 1..(Len(due) - 1) : i \in 1..Len(due) /\ due'[i] = due[i]
    BY <1>0, <2>1, <2>2
  <2>5. overflow' \in {overflow + 1, MaxOverflow} /\ overflow' <= MaxOverflow
    <3>1. {overflow + 1, MaxOverflow} \in SUBSET Nat
      BY <1>0
    <3> QED BY <2>1, <3>1, MinIs
  <2> QED BY <1>0, <1>1, <2>2, <2>3, <2>4, <2>5
<1>2. CASE Len(due) # CatchUpLimit
  <2>1. due' = Append(due, at) /\ overflow' = overflow
    BY <1>2 DEF Walk
  <2>2. due' \in Seq(Instants) /\ Len(due') = Len(due) + 1 /\ due'[Len(due) + 1] = at
    BY <1>0, <2>1
  <2>3. \A i \in 1..Len(due) : due'[i] = due[i]
    BY <1>0, <2>1
  <2> QED BY <1>0, <1>2, <2>1, <2>2, <2>3
<1> QED BY <1>1, <1>2

LEMMA WalkInv ==
    ASSUME Inv, Walk
    PROVE  Inv'
<1> USE ScheduleAssumption
<1>0. TypeInv /\ TypeOK /\ WalkPart /\ DuePart
  BY DEF Inv, TypeInv
<1>1. /\ due' \in Seq(Instants) /\ Len(due') \in 1..CatchUpLimit
      /\ due'[Len(due')] = at
      /\ Len(due') - 1 <= Len(due)
      /\ \A i \in 1..(Len(due') - 1) : i \in 1..Len(due) /\ due'[i] = due[i]
      /\ overflow' \in 0..MaxOverflow
      /\ overflow > 0 => overflow' > 0
      /\ \/ Len(due') = Len(due) + 1
         \/ Len(due') = Len(due) /\ overflow' > 0
  BY <1>0, WalkDue
<1>2. /\ pc = "walking" /\ at <= ticked /\ at' = NextOf(book, at)
      /\ UNCHANGED <<now, jumps, starts, armed, seenTo, pc, ticked, queue, book, wait,
                     fired, missed, lost>>
  BY DEF Walk, time, record
<1>3. at \in 0..MaxNow /\ at \in Nat /\ ticked \in Nat /\ Len(due) \in Nat
  BY <1>0, <1>2 DEF TypeOK, TypeInv, Instants
<1>4. TypeInv'
  <2>1. at' \in Instants
    BY <1>0, <1>2, <1>3, NextOfType DEF TypeOK
  <2>2. \A i \in 1..Len(due') : due'[i] \in Instants
    BY <1>1
  <2>3. Len(due') <= CatchUpLimit /\ due' \in Seq(Instants) /\ overflow' \in 0..MaxOverflow
    BY <1>1
  <2> QED BY <1>0, <1>2, <2>1, <2>2, <2>3 DEF TypeInv, TypeOK
<1>5. /\ \A c : FiredOf(c)' = FiredOf(c) /\ RowsOf(c)' = RowsOf(c)
      /\ \A c, o : Accounted(c, o)' <=> Accounted(c, o)
  BY <1>2, SameRecord DEF record
<1>6. ASSUME Occurs[book] # {}
      PROVE  /\ at \in Occurs[book] /\ seenTo[book] < at /\ armed < at
             /\ \A i \in 1..Len(due) : due[i] < at /\ due[i] \in Int
             /\ \A o \in Occurs[book] : o \in Int /\ (seenTo[book] < o /\ o < at => InHand(o))
             /\ at' \in Occurs[book] \cup {MaxNow + 1} /\ at < at'
             /\ \A o \in Occurs[book] : at < o => at' <= o
  <2>1. /\ at \in Occurs[book] \cup {MaxNow + 1} /\ seenTo[book] < at
        /\ \A i \in 1..Len(due) : due[i] < at
        /\ \A o \in Occurs[book] : seenTo[book] < o /\ o < at => InHand(o)
    BY <1>0, <1>2, <1>6 DEF WalkPart
  <2>2. at # MaxNow + 1 /\ book \in Playbooks /\ seenTo[book] \in Nat /\ armed \in Nat
    BY <1>0, <1>3 DEF TypeOK
  <2>3. armed <= seenTo[book]
    BY <1>2, <2>2 DEF Inv, ArmedPart
  <2>4. /\ at' \in Occurs[book] \cup {MaxNow + 1} /\ at < at'
        /\ \A o \in Occurs[book] : at < o => at' <= o
    BY <1>2, <1>3, <1>6, <2>2, NextOfIs
  <2>5. \A o \in Occurs[book] : o \in Int
    <3>1. Occurs[book] \subseteq 1..MaxNow
      BY <2>2
    <3> QED BY <3>1
  <2>6. \A i \in 1..Len(due) : due[i] \in Int
    BY <1>0 DEF TypeOK, Instants
  <2> QED BY <1>3, <2>1, <2>2, <2>3, <2>4, <2>5, <2>6
<1>7. \A i \in 1..Len(due') : i = Len(due') \/ i \in 1..(Len(due') - 1)
  BY <1>1
<1>8. WalkPart'
  <2>1. Occurs[book] = {} => at' = Zero
    BY <1>2 DEF NextOf
  <2>2. ASSUME Occurs[book] # {}
        PROVE  /\ seenTo[book] < at'
               /\ \A i \in 1..Len(due') : due'[i] < at'
    <3>1. seenTo[book] \in Int /\ at \in Int /\ at' \in Int
      BY <1>0, <1>3, <1>4 DEF TypeInv, TypeOK, Instants
    <3>2. \A i \in 1..Len(due') : due'[i] = at \/ (due'[i] < at /\ due'[i] \in Int)
      BY <1>1, <1>6, <1>7, <2>2
    <3> QED BY <1>6, <2>2, <3>1, <3>2
  <2>3. ASSUME Occurs[book] # {}, NEW o \in Occurs[book], seenTo[book] < o, o < at'
        PROVE  InHand(o)'
    <3>0. at \in Int /\ at' \in Int
      BY <1>3, <1>4 DEF TypeInv, TypeOK, Instants
    <3>1. o \in Int /\ at \in Int /\ at' \in Int /\ (o < at \/ o = at)
      <4>1. o \in Int /\ (at < o => at' <= o)
        BY <1>6, <2>3
      <4> QED BY <2>3, <3>0, <4>1
    <3>2. CASE o = at
      <4>1. Len(due') \in 1..Len(due') /\ due'[Len(due')] = o
        BY <1>1, <3>2
      <4> QED BY <4>1 DEF InHand
    <3>3. CASE o < at
      <4>1. InHand(o)
        BY <1>6, <2>3, <3>3
      <4>2. due' # <<>> /\ o < due'[Len(due')]
        BY <1>1, <3>3
      <4>3. \A f \in FiredOf(book) : f.at < o
        <5>1. \A f \in FiredOf(book) : f.at <= seenTo[book] /\ f.at \in Int
          BY <1>0 DEF Inv, FiredWhenDue, FiredOf, TypeInv, Fires
        <5>2. seenTo[book] \in Int
          BY <1>0 DEF TypeOK
        <5> QED BY <2>3, <3>1, <5>1, <5>2
      <4>4. CASE overflow' > 0
        BY <1>2, <1>5, <4>2, <4>3, <4>4 DEF InHand
      <4>5. CASE ~(overflow' > 0)
        <5>1. Len(due') = Len(due) + 1 /\ ~(overflow > 0)
          BY <1>1, <4>5
        <5>2. PICK i \in 1..Len(due) : due[i] = o
          BY <4>1, <5>1 DEF InHand
        <5>3. i \in 1..Len(due') /\ due'[i] = o
          BY <1>1, <1>3, <5>1, <5>2
        <5> QED BY <5>3 DEF InHand
      <4> QED BY <4>4, <4>5
    <3> QED BY <3>1, <3>2, <3>3
  <2> QED BY <1>2, <1>6, <2>1, <2>2, <2>3 DEF WalkPart
<1>9. DuePart'
  <2> SUFFICES ASSUME Occurs[book] # {}
               PROVE  /\ \A i \in 1..Len(due') :
                           /\ due'[i] \in Occurs[book] /\ armed < due'[i] /\ due'[i] <= ticked
                           /\ seenTo[book] < due'[i]
                      /\ \A i, j \in 1..Len(due') : i < j => due'[i] < due'[j]
    BY <1>2 DEF DuePart
  <2>1. /\ \A i \in 1..Len(due) :
             /\ due[i] \in Occurs[book] /\ armed < due[i] /\ due[i] <= ticked
             /\ seenTo[book] < due[i]
        /\ \A i, j \in 1..Len(due) : i < j => due[i] < due[j]
    BY <1>0, <1>2 DEF DuePart
  <2>2. \A i \in 1..Len(due') :
           /\ due'[i] \in Occurs[book] /\ armed < due'[i] /\ due'[i] <= ticked
           /\ seenTo[book] < due'[i]
    BY <1>1, <1>2, <1>6, <1>7, <2>1
  <2>3. ASSUME NEW i \in 1..Len(due'), NEW j \in 1..Len(due'), i < j
        PROVE  due'[i] < due'[j]
    <3>1. i \in 1..Len(due) /\ due'[i] = due[i]
      BY <1>1, <2>3
    <3>2. CASE j = Len(due')
      BY <1>1, <1>6, <3>1, <3>2
    <3>3. CASE j \in 1..(Len(due') - 1)
      BY <1>1, <2>1, <2>3, <3>1, <3>3
    <3> QED BY <1>7, <3>2, <3>3
  <2> QED BY <2>2, <2>3
<1>10. RecordPart' /\ ArmedPart' /\ FiredWhenDue'
  BY <1>2 DEF Inv, RecordPart, ArmedPart, FiredWhenDue
<1>11. BehindPart'
  BY <1>2, <1>5 DEF Inv, BehindPart
<1>12. NoneForgotten'
  BY <1>2, <1>5 DEF Inv, NoneForgotten
<1> QED BY <1>4, <1>8, <1>9, <1>10, <1>11, <1>12 DEF Inv

-----------------------------------------------------------------------------
(* The walk is at the first occurrence after the tick's instant: the entry is
   moved if there was something due, and then only forward. *)
LEMMA WalkEndsInv ==
    ASSUME Inv, WalkEnds
    PROVE  Inv'
<1> USE ScheduleAssumption
<1>0. TypeInv /\ TypeOK /\ WalkPart /\ DuePart
  BY DEF Inv, TypeInv
<1>1. /\ pc = "walking" /\ at > ticked
      /\ UNCHANGED <<now, jumps, starts, armed, ticked, queue, book, at, due, overflow, wait,
                     fired, missed, lost>>
  BY DEF WalkEnds, time, walk, record
<1>2. /\ \A c : FiredOf(c)' = FiredOf(c) /\ RowsOf(c)' = RowsOf(c)
      /\ \A c, o : Accounted(c, o)' <=> Accounted(c, o)
  BY <1>1, SameRecord DEF record
<1>3. CASE due = <<>>
  <2>1. pc' = "next" /\ UNCHANGED seenTo
    BY <1>3 DEF WalkEnds
  <2>2. TypeInv'
    BY <1>0, <1>1, <2>1 DEF TypeInv, TypeOK
  <2> QED BY <1>1, <2>1, <2>2, OutsideTick DEF record
<1>4. CASE due # <<>>
  <2>1. pc' = "recording" /\ seenTo' = [seenTo EXCEPT ![book] = ticked]
    BY <1>4 DEF WalkEnds
  <2>2. /\ book \in Playbooks /\ ticked \in Nat /\ at \in Nat /\ armed \in Nat
        /\ seenTo \in [Playbooks -> 0..MaxNow] /\ seenTo[book] \in Nat
        /\ due \in Seq(Instants) /\ Len(due) \in Nat /\ Len(due) # 0
    BY <1>0, <1>4, SMTT(30) DEF TypeInv, TypeOK, Instants
  <2>3. seenTo'[book] = ticked /\ \A b \in Playbooks : b # book => seenTo'[b] = seenTo[b]
    BY <2>1, <2>2
  <2>4. TypeInv'
    BY <1>0, <1>1, <2>1 DEF TypeInv, TypeOK
  <2>5. Occurs[book] # {}
    BY <1>0, <1>1, <2>2 DEF WalkPart, Zero
  <2>6. /\ \A i \in 1..Len(due) :
             /\ due[i] \in Occurs[book] /\ armed < due[i] /\ due[i] <= ticked
             /\ seenTo[book] < due[i]
        /\ \A i, j \in 1..Len(due) : i < j => due[i] < due[j]
        /\ \A o \in Occurs[book] : seenTo[book] < o /\ o < at => InHand(o)
    BY <1>0, <1>1, <2>5 DEF DuePart, WalkPart
  <2>7. seenTo[book] < ticked
    <3>1. 1 \in 1..Len(due) /\ due[1] \in Int
      BY <2>2 DEF Instants
    <3> QED BY <2>2, <2>6, <3>1
  <2>8. WalkPart' /\ DuePart'
    BY <1>1, <2>1, <2>6 DEF WalkPart, DuePart
  <2>9. ArmedPart'
    <3>1. \A b \in Playbooks : armed <= seenTo[b]
      BY <1>1 DEF Inv, ArmedPart
    <3> QED BY <1>1, <2>2, <2>3, <2>7, <3>1 DEF ArmedPart
  <2>10. /\ \A f \in FiredOf(book) : f.at <= seenTo[book] /\ f.at \in Int
         /\ \A r \in RowsOf(book) : r.at <= seenTo[book] /\ r.at \in Int
    <3>1. \A f \in FiredOf(book) : f.at <= seenTo[book] /\ f.at \in Int
      BY <1>0 DEF Inv, FiredWhenDue, FiredOf, TypeInv, Fires
    <3>2. \A r \in RowsOf(book) : r.at <= seenTo[book] /\ r.at \in Int
      BY <1>0, <2>2 DEF Inv, BehindPart, RowsOf, TypeInv, Rows
    <3> QED BY <3>1, <3>2
  <2>11. BehindPart'
    <3>1. \A b \in Playbooks : \A r \in RowsOf(b) : r.at <= seenTo'[b]
      <4> SUFFICES ASSUME NEW b \in Playbooks, NEW r \in RowsOf(b) PROVE r.at <= seenTo'[b]
        OBVIOUS
      <4>1. CASE b = book
        BY <2>2, <2>3, <2>7, <2>10, <4>1
      <4>2. CASE b # book
        BY <2>3, <4>2 DEF Inv, BehindPart
      <4> QED BY <4>1, <4>2
    <3> QED BY <1>1, <1>2, <2>1, <3>1 DEF Inv, BehindPart
  <2>12. FiredWhenDue'
    <3> SUFFICES ASSUME NEW f \in fired
                 PROVE  /\ f.at \in Occurs[f.book]
                        /\ f.start = starts => armed < f.at /\ f.at <= seenTo'[f.book]
      BY <1>1 DEF FiredWhenDue
    <3>1. f.book \in Playbooks /\ f.at \in Nat
      BY <1>0 DEF TypeInv, Fires
    <3>2. /\ f.at \in Occurs[f.book]
          /\ f.start = starts => armed < f.at /\ f.at <= seenTo[f.book]
      BY DEF Inv, FiredWhenDue
    <3>3. CASE f.book = book
      BY <2>2, <2>3, <2>7, <3>1, <3>2, <3>3
    <3>4. CASE f.book # book
      BY <2>3, <3>1, <3>2, <3>4
    <3> QED BY <3>3, <3>4
  <2>13. \A o : InHand(o)' <=> InHand(o)
    BY <1>1, <1>2 DEF InHand
  <2>14. RecordPart'
    <3>1. \A f \in FiredOf(book) : \A i \in 1..Len(due) : f.at < due[i]
      <4> SUFFICES ASSUME NEW f \in FiredOf(book), NEW i \in 1..Len(due) PROVE f.at < due[i]
        OBVIOUS
      <4>1. due[i] \in Int /\ seenTo[book] < due[i]
        BY <2>2, <2>6 DEF Instants
      <4> QED BY <2>2, <2>10, <4>1
    <3>2. \A r \in RowsOf(book) : r.at <= due[Len(due)]
      <4>1. Len(due) \in 1..Len(due) /\ due[Len(due)] \in Int /\ seenTo[book] < due[Len(due)]
        BY <2>2, <2>6 DEF Instants
      <4> QED BY <2>2, <2>10, <4>1
    <3>3. ASSUME NEW o \in Occurs[book], armed < o, o <= ticked
          PROVE  InHand(o) \/ Accounted(book, o)
      <4>1. o \in Int /\ o < at
        <5>1. Occurs[book] \subseteq 1..MaxNow
          BY <2>2
        <5> QED BY <1>1, <2>2, <3>3, <5>1
      <4>2. CASE seenTo[book] < o
        BY <2>6, <4>1, <4>2
      <4>3. CASE o <= seenTo[book]
        BY <1>1, <2>2, <3>3, <4>3 DEF Inv, NoneForgotten
      <4> QED BY <2>2, <4>1, <4>2, <4>3
    <3> QED BY <1>1, <1>2, <1>4, <2>3, <2>5, <2>13, <3>1, <3>2, <3>3 DEF RecordPart
  <2>15. NoneForgotten'
    <3> SUFFICES ASSUME NEW b \in Playbooks, b # book, NEW o \in Occurs[b],
                        armed < o, o <= seenTo'[b]
                 PROVE  Accounted(b, o)
      BY <1>1, <1>2, <2>1 DEF NoneForgotten
    <3> QED BY <1>1, <2>3 DEF Inv, NoneForgotten
  <2> QED BY <2>4, <2>8, <2>9, <2>11, <2>12, <2>14, <2>15 DEF Inv
<1> QED BY <1>3, <1>4

-----------------------------------------------------------------------------
(* A row of this process's, in the record or the log. *)
LEMMA WriteIs ==
    ASSUME TypeInv, NEW row \in Rows, row.start = starts, Write(row), UNCHANGED starts
    PROVE  /\ fired' = fired /\ missed' \subseteq Rows /\ lost' \subseteq Rows
           /\ (missed \cup lost)' = missed \cup lost \cup {row}
           /\ \A b : FiredOf(b)' = FiredOf(b)
           /\ \A b : RowsOf(b)' = RowsOf(b) \cup {r \in {row} : r.book = b}
           /\ \A b, o : Accounted(b, o) => Accounted(b, o)'
<1>1. fired' = fired /\ (missed \cup lost)' = missed \cup lost \cup {row}
  BY DEF Write
<1>2. missed' \subseteq Rows /\ lost' \subseteq Rows
  BY DEF Write, TypeInv
<1>3. \A b : FiredOf(b)' = FiredOf(b)
  BY <1>1 DEF FiredOf
<1>4. \A b : RowsOf(b)' = RowsOf(b) \cup {r \in {row} : r.book = b}
  BY <1>1 DEF RowsOf
<1>5. \A b, o : Accounted(b, o) => Accounted(b, o)'
  BY <1>3, <1>4 DEF Accounted
<1> QED BY <1>1, <1>2, <1>3, <1>4, <1>5

(* Where the tick records: what it has left, and what that is. *)
LEMMA Recording ==
    ASSUME Inv, pc = "recording"
    PROVE  /\ book \in Playbooks /\ Occurs[book] # {} /\ Occurs[book] \subseteq 1..MaxNow
           /\ due \in Seq(Instants) /\ Len(due) \in Nat /\ Len(due) >= 1
           /\ ticked \in Nat /\ starts \in Nat /\ armed \in Nat /\ overflow \in Nat
           /\ seenTo[book] = ticked
           /\ \A i \in 1..Len(due) :
                /\ due[i] \in Nat /\ due[i] \in Occurs[book]
                /\ armed < due[i] /\ due[i] <= ticked
           /\ \A i, j \in 1..Len(due) : i < j => due[i] < due[j]
<1> USE ScheduleAssumption
<1>1. /\ book \in Playbooks /\ due \in Seq(Instants) /\ Len(due) \in Nat
      /\ ticked \in Nat /\ starts \in Nat /\ armed \in Nat /\ overflow \in Nat
  BY DEF Inv, TypeInv, TypeOK
<1>2. Occurs[book] # {} /\ due # <<>> /\ seenTo[book] = ticked
  BY DEF Inv, RecordPart
<1>3. Occurs[book] \subseteq 1..MaxNow
  BY <1>1
<1>4. Len(due) >= 1
  BY <1>1, <1>2
<1>5. /\ \A i \in 1..Len(due) :
           due[i] \in Occurs[book] /\ armed < due[i] /\ due[i] <= ticked
      /\ \A i, j \in 1..Len(due) : i < j => due[i] < due[j]
  BY <1>2 DEF Inv, DuePart
<1>6. \A i \in 1..Len(due) : due[i] \in Nat
  BY <1>1 DEF Instants
<1> QED BY <1>1, <1>2, <1>3, <1>4, <1>5, <1>6

LEMMA RecordMissedInv ==
    ASSUME Inv, RecordMissed
    PROVE  Inv'
<1> USE ScheduleAssumption
<1> DEFINE row == Row(due[1], "not_running", 1)
<1>1. /\ pc = "recording" /\ Len(due) > 1 /\ due' = Tail(due) /\ Write(row)
      /\ UNCHANGED <<now, jumps, starts, armed, seenTo, pc, ticked, queue, book, at,
                     overflow, wait>>
  BY DEF RecordMissed, time
<1>2. /\ book \in Playbooks /\ Occurs[book] # {} /\ Occurs[book] \subseteq 1..MaxNow
      /\ due \in Seq(Instants) /\ Len(due) \in Nat /\ Len(due) >= 1
      /\ ticked \in Nat /\ starts \in Nat /\ armed \in Nat /\ overflow \in Nat
      /\ seenTo[book] = ticked
      /\ \A i \in 1..Len(due) :
           /\ due[i] \in Nat /\ due[i] \in Occurs[book]
           /\ armed < due[i] /\ due[i] <= ticked
      /\ \A i, j \in 1..Len(due) : i < j => due[i] < due[j]
  BY <1>1, Recording
<1>3. 1 \in 1..Len(due)
  BY <1>1, <1>2
<1>4. /\ row \in Rows /\ row.start = starts /\ row.book = book /\ row.at = due[1]
      /\ row.why = "not_running"
  BY <1>2, <1>3 DEF Row, Rows
<1> HIDE DEF row
<1>5. /\ fired' = fired /\ missed' \subseteq Rows /\ lost' \subseteq Rows
      /\ (missed \cup lost)' = missed \cup lost \cup {row}
      /\ \A b : FiredOf(b)' = FiredOf(b)
      /\ \A b : RowsOf(b)' = RowsOf(b) \cup {r \in {row} : r.book = b}
      /\ \A b, o : Accounted(b, o) => Accounted(b, o)'
  BY <1>1, <1>4, WriteIs DEF Inv
<1>6. /\ due' \in Seq(Instants) /\ Len(due') = Len(due) - 1 /\ due' # <<>>
      /\ Len(due') \in Nat /\ Len(due') >= 1
      /\ \A i \in 1..Len(due') : i + 1 \in 1..Len(due) /\ due'[i] = due[i + 1]
  <2>1. due \in Seq(Instants) /\ Len(due) > 1 /\ due' = Tail(due)
    BY <1>1, <1>2
  <2>2. due # <<>> /\ Len(due) \in Nat
    BY <2>1
  <2>3. due' \in Seq(Instants) /\ Len(due') = Len(due) - 1
    BY <2>1, <2>2
  <2>4. due' # <<>> /\ Len(due') \in Nat /\ Len(due') >= 1
    <3>1. Len(due') \in Nat /\ Len(due') >= 1
      BY <2>1, <2>2, <2>3
    <3> QED BY <3>1
  <2>5. \A i \in 1..Len(due') : i + 1 \in 1..Len(due) /\ due'[i] = due[i + 1]
    BY <2>1, <2>2, <2>3
  <2> QED BY <2>3, <2>4, <2>5
<1>7. due'[Len(due')] = due[Len(due)]
  BY <1>2, <1>6
<1>8. TypeInv'
  <2>1. TypeOK /\ fired \subseteq Fires
    BY DEF Inv, TypeInv
  <2>2. Len(due') <= CatchUpLimit
    BY <1>2, <1>6, <2>1 DEF TypeOK
  <2>3. \A i \in 1..Len(due') : due'[i] \in Instants
    BY <1>6
  <2>4. TypeOK'
    BY <1>1, <2>1, <2>2, <2>3 DEF TypeOK
  <2> QED BY <1>5, <1>6, <2>1, <2>4 DEF TypeInv
<1>9. WalkPart' /\ ArmedPart'
  BY <1>1 DEF Inv, WalkPart, ArmedPart
<1>10. DuePart'
  <2>1. \A i \in 1..Len(due') :
           due'[i] \in Occurs[book] /\ armed < due'[i] /\ due'[i] <= ticked
    BY <1>2, <1>6
  <2>2. ASSUME NEW i \in 1..Len(due'), NEW j \in 1..Len(due'), i < j
        PROVE  due'[i] < due'[j]
    <3>1. i + 1 < j + 1
      BY <1>6, <2>2
    <3> QED BY <1>2, <1>6, <3>1
  <2> QED BY <1>1, <2>1, <2>2 DEF DuePart
<1>11. BehindPart'
  <2>1. \A b \in Playbooks : \A r \in RowsOf(b)' : r.at <= seenTo[b]
    <3>1. \A b \in Playbooks : \A r \in RowsOf(b) : r.at <= seenTo[b]
      BY DEF Inv, BehindPart
    <3>2. row.at <= seenTo[book]
      BY <1>2, <1>3, <1>4
    <3> QED BY <1>4, <1>5, <3>1, <3>2
  <2>2. \A r \in (missed \cup lost)' : r.start <= starts
    BY <1>2, <1>4, <1>5 DEF Inv, BehindPart
  <2> QED BY <1>1, <1>5, <2>1, <2>2 DEF Inv, BehindPart
<1>12. FiredWhenDue'
  BY <1>1, <1>5 DEF Inv, FiredWhenDue
<1>13. ASSUME NEW o, o = due[1] PROVE Accounted(book, o)'
  <2>1. row \in RowsOf(book)'
    BY <1>1, <1>4, <1>5
  <2> QED BY <1>1, <1>4, <1>13, <2>1 DEF Accounted
<1>14. RecordPart'
  <2>1. /\ \A f \in FiredOf(book) : \A i \in 1..Len(due) : f.at < due[i]
        /\ \A r \in RowsOf(book) : r.at <= due[Len(due)]
        /\ \A o \in Occurs[book] : armed < o /\ o <= ticked => InHand(o) \/ Accounted(book, o)
    BY <1>1 DEF Inv, RecordPart
  <2>2. \A f \in FiredOf(book) : \A i \in 1..Len(due') : f.at < due'[i]
    BY <1>6, <2>1
  <2>3. \A r \in RowsOf(book)' : r.at <= due'[Len(due')]
    <3>1. due[1] < due[Len(due)] /\ due[1] \in Nat /\ due[Len(due)] \in Nat
      BY <1>1, <1>2, <1>3
    <3> QED BY <1>1, <1>4, <1>5, <1>7, <2>1, <3>1
  <2>4. ASSUME NEW o \in Occurs[book], armed < o, o <= ticked
        PROVE  InHand(o)' \/ Accounted(book, o)'
    <3>1. CASE Accounted(book, o)
      BY <1>1, <1>5, <3>1
    <3>2. CASE InHand(o)
      <4>1. CASE overflow > 0 /\ due # <<>> /\ o < due[Len(due)] /\ \A f \in FiredOf(book) : f.at < o
        BY <1>1, <1>5, <1>6, <1>7, <4>1 DEF InHand
      <4>2. ASSUME NEW i \in 1..Len(due), due[i] = o
            PROVE  InHand(o)' \/ Accounted(book, o)'
        <5>1. CASE i = 1
          BY <1>1, <1>13, <4>2, <5>1
        <5>2. CASE i # 1
          <6>1. i - 1 \in 1..Len(due') /\ due'[i - 1] = o
            BY <1>2, <1>6, <4>2, <5>2
          <6> QED BY <6>1 DEF InHand
        <5> QED BY <5>1, <5>2
      <4> QED BY <3>2, <4>1, <4>2 DEF InHand
    <3> QED BY <2>1, <2>4, <3>1, <3>2
  <2> QED BY <1>1, <1>2, <1>5, <1>6, <2>2, <2>3, <2>4 DEF RecordPart
<1>15. NoneForgotten'
  BY <1>1, <1>5 DEF Inv, NoneForgotten
<1> QED BY <1>8, <1>9, <1>10, <1>11, <1>12, <1>14, <1>15 DEF Inv

LEMMA RecordOverflowInv ==
    ASSUME Inv, RecordOverflow
    PROVE  Inv'
<1> USE ScheduleAssumption
<1> DEFINE row == Row(due[1], "overflow", overflow)
<1>1. /\ pc = "recording" /\ Len(due) = 1 /\ overflow' = 0 /\ Write(row)
      /\ UNCHANGED <<now, jumps, starts, armed, seenTo, pc, ticked, queue, book, at, due, wait>>
  BY DEF RecordOverflow, time
<1>2. /\ book \in Playbooks /\ Occurs[book] # {} /\ Occurs[book] \subseteq 1..MaxNow
      /\ due \in Seq(Instants) /\ Len(due) \in Nat /\ Len(due) >= 1
      /\ ticked \in Nat /\ starts \in Nat /\ armed \in Nat /\ overflow \in Nat
      /\ seenTo[book] = ticked
      /\ \A i \in 1..Len(due) :
           /\ due[i] \in Nat /\ due[i] \in Occurs[book]
           /\ armed < due[i] /\ due[i] <= ticked
      /\ \A i, j \in 1..Len(due) : i < j => due[i] < due[j]
  BY <1>1, Recording
<1>3. 1 \in 1..Len(due)
  BY <1>1, <1>2
<1>4. /\ row \in Rows /\ row.start = starts /\ row.book = book /\ row.at = due[1]
      /\ row.why = "overflow"
  BY <1>2, <1>3 DEF Row, Rows
<1> HIDE DEF row
<1>5. /\ fired' = fired /\ missed' \subseteq Rows /\ lost' \subseteq Rows
      /\ (missed \cup lost)' = missed \cup lost \cup {row}
      /\ \A b : FiredOf(b)' = FiredOf(b)
      /\ \A b : RowsOf(b)' = RowsOf(b) \cup {r \in {row} : r.book = b}
      /\ \A b, o : Accounted(b, o) => Accounted(b, o)'
  BY <1>1, <1>4, WriteIs DEF Inv
<1>6. TypeInv'
  <2>1. TypeOK /\ fired \subseteq Fires /\ due \in Seq(Instants)
    BY DEF Inv, TypeInv
  <2>2. TypeOK'
    <3>1. Len(due') <= CatchUpLimit /\ \A i \in 1..Len(due') : due'[i] \in Instants
      BY <1>1, <2>1 DEF TypeOK
    <3> QED BY <1>1, <2>1, <3>1 DEF TypeOK
  <2> QED BY <1>1, <1>5, <2>1, <2>2 DEF TypeInv
<1>7. WalkPart' /\ ArmedPart' /\ DuePart'
  BY <1>1 DEF Inv, WalkPart, ArmedPart, DuePart
<1>8. BehindPart'
  <2>1. \A b \in Playbooks : \A r \in RowsOf(b)' : r.at <= seenTo[b]
    <3>1. \A b \in Playbooks : \A r \in RowsOf(b) : r.at <= seenTo[b]
      BY DEF Inv, BehindPart
    <3>2. row.at <= seenTo[book]
      BY <1>2, <1>3, <1>4
    <3> QED BY <1>4, <1>5, <3>1, <3>2
  <2>2. \A r \in (missed \cup lost)' : r.start <= starts
    BY <1>2, <1>4, <1>5 DEF Inv, BehindPart
  <2> QED BY <1>1, <1>5, <2>1, <2>2 DEF Inv, BehindPart
<1>9. FiredWhenDue'
  BY <1>1, <1>5 DEF Inv, FiredWhenDue
<1>10. RecordPart'
  <2>1. /\ due # <<>>
        /\ \A f \in FiredOf(book) : \A i \in 1..Len(due) : f.at < due[i]
        /\ \A r \in RowsOf(book) : r.at <= due[Len(due)]
        /\ \A o \in Occurs[book] : armed < o /\ o <= ticked => InHand(o) \/ Accounted(book, o)
    BY <1>1 DEF Inv, RecordPart
  <2>2. \A r \in RowsOf(book)' : r.at <= due[Len(due)]
    BY <1>1, <1>2, <1>3, <1>4, <1>5, <2>1
  <2>3. ASSUME NEW o \in Occurs[book], armed < o, o <= ticked
        PROVE  InHand(o)' \/ Accounted(book, o)'
    <3>1. CASE Accounted(book, o)
      BY <1>1, <1>5, <3>1
    <3>2. CASE InHand(o)
      <4>1. CASE o < due[Len(due)] /\ \A f \in FiredOf(book) : f.at < o
        <5>1. row \in RowsOf(book)'
          BY <1>1, <1>4, <1>5
        <5>2. row.why = "overflow" /\ o < row.at
          BY <1>1, <1>4, <4>1
        <5> QED BY <1>1, <1>5, <4>1, <5>1, <5>2 DEF Accounted
      <4>2. CASE \E i \in 1..Len(due) : due[i] = o
        BY <1>1, <4>2 DEF InHand
      <4> QED BY <3>2, <4>1, <4>2 DEF InHand
    <3> QED BY <2>1, <2>3, <3>1, <3>2
  <2> QED BY <1>1, <1>2, <1>5, <2>1, <2>2, <2>3 DEF RecordPart
<1>11. NoneForgotten'
  BY <1>1, <1>5 DEF Inv, NoneForgotten
<1> QED BY <1>6, <1>7, <1>8, <1>9, <1>10, <1>11 DEF Inv

LEMMA FireInv ==
    ASSUME Inv, Fire
    PROVE  Inv'
<1> USE ScheduleAssumption
<1> DEFINE fire == [book |-> book, at |-> due[1], start |-> starts]
<1>1. /\ pc = "recording" /\ Len(due) = 1 /\ overflow = 0
      /\ fired' = fired \cup {fire} /\ pc' = "firing"
      /\ UNCHANGED <<now, jumps, starts, armed, seenTo, ticked, queue, book, at, due, overflow,
                     wait, missed, lost>>
  BY DEF Fire, time, walk
<1>2. /\ book \in Playbooks /\ Occurs[book] # {} /\ Occurs[book] \subseteq 1..MaxNow
      /\ due \in Seq(Instants) /\ Len(due) \in Nat /\ Len(due) >= 1
      /\ ticked \in Nat /\ starts \in Nat /\ armed \in Nat /\ overflow \in Nat
      /\ seenTo[book] = ticked
      /\ \A i \in 1..Len(due) :
           /\ due[i] \in Nat /\ due[i] \in Occurs[book]
           /\ armed < due[i] /\ due[i] <= ticked
      /\ \A i, j \in 1..Len(due) : i < j => due[i] < due[j]
  BY <1>1, Recording
<1>3. /\ due[1] \in Nat /\ due[1] \in Occurs[book] /\ armed < due[1] /\ due[1] <= ticked
  <2>1. 1 \in 1..Len(due)
    BY <1>1
  <2> QED BY <1>2, <2>1
<1>4. fire \in Fires /\ fire.start = starts /\ fire.book = book /\ fire.at = due[1]
  BY <1>2, <1>3 DEF Fires
<1> HIDE DEF fire
<1>5. TypeInv'
  <2>1. TypeInv /\ TypeOK
    BY DEF Inv, TypeInv
  <2>2. TypeOK'
    BY <1>1, <2>1 DEF TypeOK
  <2> QED BY <1>1, <1>4, <2>1, <2>2 DEF TypeInv
<1>6. WalkPart' /\ DuePart' /\ RecordPart' /\ ArmedPart'
  BY <1>1 DEF Inv, WalkPart, DuePart, RecordPart, ArmedPart
<1>7. /\ \A b : RowsOf(b)' = RowsOf(b)
      /\ \A b : FiredOf(b)' = FiredOf(b) \cup {f \in {fire} : f.book = b}
  BY <1>1, <1>4 DEF RowsOf, FiredOf
<1>8. BehindPart'
  <2>1. due # <<>>
    BY <1>1, <1>2
  <2>2. \A f \in fired' : f.start <= starts
    BY <1>1, <1>2, <1>4 DEF Inv, BehindPart
  <2> QED BY <1>1, <1>2, <1>3, <1>7, <2>1, <2>2 DEF Inv, BehindPart
<1>9. FiredWhenDue'
  <2> SUFFICES ASSUME NEW f \in fired'
               PROVE  /\ f.at \in Occurs[f.book]
                      /\ f.start = starts => armed < f.at /\ f.at <= seenTo[f.book]
    BY <1>1 DEF FiredWhenDue
  <2>1. CASE f \in fired
    BY <2>1 DEF Inv, FiredWhenDue
  <2>2. CASE f = fire
    BY <1>2, <1>3, <1>4, <2>2
  <2> QED BY <1>1, <2>1, <2>2
<1>10. /\ due # <<>> /\ Len(due) \in 1..Len(due) /\ due[Len(due)] = due[1]
       /\ \A r \in RowsOf(book) : r.at <= due[1]
       /\ \A o \in Occurs[book] : armed < o /\ o <= ticked => InHand(o) \/ Accounted(book, o)
  BY <1>1, <1>2 DEF Inv, RecordPart
<1>11. ASSUME NEW b \in Playbooks, NEW o \in Occurs[b], Accounted(b, o)
       PROVE  Accounted(b, o)'
  <2>1. CASE \E f \in FiredOf(b) : f.at = o
    BY <1>7, <2>1 DEF Accounted
  <2>2. CASE \E r \in RowsOf(b) : r.why = "not_running" /\ r.at = o
    BY <1>7, <2>2 DEF Accounted
  <2>3. ASSUME NEW r \in RowsOf(b), r.why = "overflow", o < r.at,
               \A f \in FiredOf(b) : f.at < o \/ r.at <= f.at
        PROVE  Accounted(b, o)'
    <3>1. \A f \in FiredOf(b)' : f.at < o \/ r.at <= f.at
      <4>1. b = book => r.at <= fire.at
        BY <1>4, <1>10, <2>3
      <4> QED BY <1>4, <1>7, <2>3, <4>1
    <3> QED BY <1>7, <2>3, <3>1 DEF Accounted
  <2> QED BY <1>11, <2>1, <2>2, <2>3 DEF Accounted
<1>12. NoneForgotten'
  <2> SUFFICES ASSUME NEW b \in Playbooks, NEW o \in Occurs[b], armed < o, o <= seenTo[b]
               PROVE  Accounted(b, o)'
    BY <1>1 DEF NoneForgotten
  <2>1. CASE b # book
    BY <1>1, <1>11, <2>1 DEF Inv, NoneForgotten
  <2>2. CASE b = book /\ Accounted(b, o)
    BY <1>11, <2>2
  <2>3. CASE b = book /\ ~Accounted(b, o)
    <3>1. InHand(o)
      BY <1>2, <1>10, <2>3
    <3>2. o = due[1]
      BY <1>1, <3>1 DEF InHand
    <3>3. fire \in FiredOf(b)' /\ fire.at = o
      BY <1>4, <1>7, <2>3, <3>2
    <3> QED BY <3>3 DEF Accounted
  <2> QED BY <2>1, <2>2, <2>3
<1> QED BY <1>5, <1>6, <1>8, <1>9, <1>12 DEF Inv

LEMMA FireFailsInv ==
    ASSUME Inv, FireFails
    PROVE  Inv'
<1> USE ScheduleAssumption
<1> DEFINE row == Row(due[1], "no_run", 1)
<1>1. /\ pc = "firing" /\ pc' = "next" /\ due' = <<>> /\ Write(row)
      /\ UNCHANGED <<now, jumps, starts, armed, seenTo, ticked, queue, book, at, overflow, wait>>
  BY DEF FireFails, time
<1>2. /\ TypeInv /\ TypeOK /\ book \in Playbooks /\ starts \in Nat
      /\ due \in Seq(Instants) /\ due # <<>> /\ due[1] <= seenTo[book]
  BY <1>1, SMTT(30) DEF Inv, TypeInv, TypeOK, BehindPart
<1>3. due[1] \in Nat
  BY <1>2 DEF Instants
<1>4. row \in Rows /\ row.start = starts /\ row.book = book /\ row.at = due[1]
  BY <1>2, <1>3 DEF Row, Rows
<1> HIDE DEF row
<1>5. /\ fired' = fired /\ missed' \subseteq Rows /\ lost' \subseteq Rows
      /\ (missed \cup lost)' = missed \cup lost \cup {row}
      /\ \A b : FiredOf(b)' = FiredOf(b)
      /\ \A b : RowsOf(b)' = RowsOf(b) \cup {r \in {row} : r.book = b}
      /\ \A b, o : Accounted(b, o) => Accounted(b, o)'
  BY <1>1, <1>2, <1>4, WriteIs
<1>6. TypeInv'
  <2>1. TypeOK'
    BY <1>1, <1>2 DEF TypeOK
  <2> QED BY <1>1, <1>2, <1>5, <2>1 DEF TypeInv
<1>7. WalkPart' /\ DuePart' /\ RecordPart' /\ ArmedPart'
  BY <1>1 DEF Inv, WalkPart, DuePart, RecordPart, ArmedPart
<1>8. BehindPart'
  <2>1. \A b \in Playbooks : \A r \in RowsOf(b)' : r.at <= seenTo[b]
    <3>1. \A b \in Playbooks : \A r \in RowsOf(b) : r.at <= seenTo[b]
      BY DEF Inv, BehindPart
    <3> QED BY <1>2, <1>4, <1>5, <3>1
  <2>2. \A r \in (missed \cup lost)' : r.start <= starts
    BY <1>2, <1>4, <1>5 DEF Inv, BehindPart
  <2> QED BY <1>1, <1>5, <2>1, <2>2 DEF Inv, BehindPart
<1>9. FiredWhenDue'
  BY <1>1, <1>5 DEF Inv, FiredWhenDue
<1>10. NoneForgotten'
  BY <1>1, <1>5 DEF Inv, NoneForgotten
<1> QED BY <1>6, <1>7, <1>8, <1>9, <1>10 DEF Inv

-----------------------------------------------------------------------------
LEMMA StutterInv ==
    ASSUME Inv, UNCHANGED vars
    PROVE  Inv'
<1>1. UNCHANGED <<now, jumps, starts, armed, seenTo, pc, ticked, queue, book, at, due,
                  overflow, wait, fired, missed, lost>>
  BY DEF vars, time, walk, record
<1>2. /\ \A b : FiredOf(b)' = FiredOf(b) /\ RowsOf(b)' = RowsOf(b)
      /\ \A b, o : Accounted(b, o)' <=> Accounted(b, o)
  BY <1>1, SameRecord DEF record
<1>3. \A o : InHand(o)' <=> InHand(o)
  BY <1>1, <1>2 DEF InHand
<1>4. TypeInv'
  BY <1>1 DEF Inv, TypeInv, TypeOK
<1>5. WalkPart' /\ DuePart'
  BY <1>1, <1>3 DEF Inv, WalkPart, DuePart
<1>6. RecordPart'
  BY <1>1, <1>2, <1>3 DEF Inv, RecordPart
<1>7. ArmedPart' /\ FiredWhenDue'
  BY <1>1 DEF Inv, ArmedPart, FiredWhenDue
<1>8. BehindPart' /\ NoneForgotten'
  BY <1>1, <1>2 DEF Inv, BehindPart, NoneForgotten
<1> QED BY <1>4, <1>5, <1>6, <1>7, <1>8 DEF Inv

LEMMA NextInv ==
    ASSUME Inv, [Next]_vars
    PROVE  Inv'
<1>1. CASE Start
  BY <1>1, StartInv
<1>2. CASE Stop \/ BeginTick \/ Wait \/ Wake \/ FireReturns
  BY <1>2, OutsideInv
<1>3. CASE Elapse \/ SetClock
  BY <1>3, ClockInv
<1>4. CASE \E b \in Playbooks : TakeUp(b)
  BY <1>4, TakeUpInv
<1>5. CASE Walk
  BY <1>5, WalkInv
<1>6. CASE WalkEnds
  BY <1>6, WalkEndsInv
<1>7. CASE RecordMissed
  BY <1>7, RecordMissedInv
<1>8. CASE RecordOverflow
  BY <1>8, RecordOverflowInv
<1>9. CASE Fire
  BY <1>9, FireInv
<1>10. CASE FireFails
  BY <1>10, FireFailsInv
<1>11. CASE UNCHANGED vars
  BY <1>11, StutterInv
<1> QED
  BY <1>1, <1>2, <1>3, <1>4, <1>5, <1>6, <1>7, <1>8, <1>9, <1>10, <1>11, Zenon DEF Next, Loop

(* The inductive invariant: the walk and what it remembers, what is recorded and
   what is fired, and where both lie of the entries. *)
THEOREM Invariance == Spec => []Inv
<1>1. Init => Inv
  BY InitInv
<1>2. Inv /\ [Next]_vars => Inv'
  BY NextInv
<1> QED BY <1>1, <1>2, PTL DEF Spec

(* Every variable has its type: the walk is within the horizon, a tick remembers
   no more than CatchUpLimit, and the wait is bounded. *)
THEOREM TypeCorrect == Spec => []TypeOK
<1>1. Inv => TypeOK
  BY DEF Inv, TypeInv
<1> QED BY <1>1, Invariance, PTL

(* tickOne: a process fires an occurrence once, and a playbook's occurrences in
   their order, wherever the clock is set and however long a run takes. *)
THEOREM FiresInOrder == Spec => FiredOnceInOrder
<1> DEFINE A == pc = "recording" /\ pc' = "firing" =>
                    \A f \in fired : f.book = book /\ f.start = starts => f.at < due[1]
<1>1. Inv /\ [Next]_vars => [A]_vars
  <2> SUFFICES ASSUME Inv, pc = "recording", NEW f \in fired, f.book = book, f.start = starts
               PROVE  f.at < due[1]
    OBVIOUS
  <2>1. f \in FiredOf(book)
    BY DEF FiredOf
  <2>2. Len(due) \in Nat /\ Len(due) >= 1
    BY Recording
  <2>3. 1 \in 1..Len(due)
    BY <2>2
  <2> QED BY <2>1, <2>3 DEF Inv, RecordPart
<1> QED BY <1>1, Invariance, PTL DEF Spec, FiredOnceInOrder

(* tickOne: what is fired is an occurrence of its playbook, and one that came due
   after the process that fired it was started: nothing of before is caught up. *)
THEOREM FiresWhatCameDue == Spec => []FiredWhenDue
<1>1. Inv => FiredWhenDue
  BY DEF Inv
<1> QED BY <1>1, Invariance, PTL

(* FR-030: no occurrence that an entry has moved past is forgotten, however many
   were missed, wherever the clock is set and whatever could not be written. *)
THEOREM NoOccurrenceIsForgotten == Spec => []NoneForgotten
<1>1. Inv => NoneForgotten
  BY DEF Inv
<1> QED BY <1>1, Invariance, PTL
-----------------------------------------------------------------------------
(***************************************************************************)
(* The counts.  The second invariant rests on the first: of the            *)
(* occurrences an entry has moved past, none is accounted for twice.       *)
(***************************************************************************)

(* The occurrences the walk at hand has stepped over. *)
Walked == {o \in Occurs[book] : seenTo[book] < o /\ o < at}

(* The walk has each of them in hand, or in the count. *)
WalkCount ==
    pc = "walking" /\ Occurs[book] # {} => Cardinality(Walked) = Len(due) + overflow

(* What the tick has still to record and fire is what its entry was moved past
   and nothing accounts for. *)
TickCount ==
    pc = "recording" =>
        Cardinality(Past(book)) =
            Cardinality(FiredOf(book)) + Cardinality(Units(MissedOf(book))) + Len(due) + overflow

(* What was recorded is before what is left; the count is recorded at the last. *)
RowsBefore ==
    pc = "recording" => \A r \in MissedOf(book) :
        \/ r.at < due[1]
        \/ r.at = due[1] /\ r.why = "overflow" /\ Len(due) = 1 /\ overflow = 0

FinitePart ==
    \A b \in Playbooks : IsFiniteSet(FiredOf(b)) /\ IsFiniteSet(Units(MissedOf(b)))

CountInv == FinitePart /\ EachAccountedFor /\ WalkCount /\ TickCount /\ RowsBefore

(* A row of n counts n more. *)
LEMMA UnitsOfRow ==
    ASSUME NEW R, IsFiniteSet(Units(R)), NEW r, r \notin R, r.count \in Nat
    PROVE  /\ IsFiniteSet(Units(R \cup {r}))
           /\ Cardinality(Units(R \cup {r})) = Cardinality(Units(R)) + r.count
<1> DEFINE N == {r} \X (1..r.count)
<1>1. Units(R \cup {r}) = Units(R) \cup N
  BY DEF Units
<1>2. Units(R) \cap N = {}
  BY DEF Units
<1>3. IsFiniteSet(1..r.count) /\ Cardinality(1..r.count) = r.count
  BY FS_Interval
<1>4. IsFiniteSet({r}) /\ Cardinality({r}) = 1
  BY FS_Singleton
<1>5. IsFiniteSet(N) /\ Cardinality(N) = Cardinality({r}) * Cardinality(1..r.count)
  BY <1>3, <1>4, FS_Product
<1>6. Cardinality(N) = r.count
  BY <1>3, <1>4, <1>5
<1> HIDE DEF N
<1>7. /\ IsFiniteSet(Units(R) \cup N)
      /\ Cardinality(Units(R) \cup N)
           = Cardinality(Units(R)) + Cardinality(N) - Cardinality(Units(R) \cap N)
  BY <1>5, FS_Union
<1>8. Cardinality({}) = 0 /\ Cardinality(Units(R)) \in Nat
  BY FS_EmptySet, FS_CardinalityType
<1>9. Cardinality(Units(R) \cup N) = Cardinality(Units(R)) + r.count
  <2>1. \A c, n, d, i \in Int : d = c + n - i /\ i = 0 => d = c + n
    OBVIOUS
  <2>2. Cardinality(Units(R) \cap N) = 0
    BY <1>2, <1>8
  <2>3. Cardinality(Units(R) \cup N) \in Int
    BY <1>7, FS_CardinalityType
  <2> QED BY <1>6, <1>7, <1>8, <2>1, <2>2, <2>3
<1> QED BY <1>1, <1>7, <1>9

(* The occurrences within the horizon are finitely many. *)
LEMMA OccurrencesAreFinite ==
    ASSUME NEW b \in Playbooks, NEW S \in SUBSET Occurs[b]
    PROVE  IsFiniteSet(S) /\ Cardinality(S) \in Nat /\ Cardinality(S) <= MaxNow
<1>1. MaxNow \in Nat /\ S \in SUBSET (1..MaxNow)
  BY ScheduleAssumption DEF ScheduleAssumption
<1>2. IsFiniteSet(1..MaxNow) /\ Cardinality(1..MaxNow) = MaxNow
  BY <1>1, FS_Interval
<1> QED BY <1>1, <1>2, FS_Subset, FS_CardinalityType

(* A step outside the tick of a playbook, or that leaves it. *)
LEMMA OutsideCounts ==
    ASSUME CountInv, UNCHANGED <<record, starts, armed, seenTo>>,
           pc' \notin {"walking", "recording"},
           pc \notin {"down", "recording"} \/ pc' = "down"
    PROVE  CountInv'
<1>1. \A b : FiredOf(b)' = FiredOf(b) /\ MissedOf(b)' = MissedOf(b) /\ Past(b)' = Past(b)
  BY DEF FiredOf, MissedOf, RowsOf, Past, record
<1>2. \A b : Units(MissedOf(b))' = Units(MissedOf(b))
  BY <1>1 DEF Units
<1>3. FinitePart'
  BY <1>1, <1>2 DEF CountInv, FinitePart
<1>4. EachAccountedFor'
  BY <1>1, <1>2 DEF CountInv, EachAccountedFor
<1> QED BY <1>3, <1>4 DEF CountInv, WalkCount, TickCount, RowsBefore

(* A process starts with every entry armed and nothing to account for. *)
LEMMA StartCounts ==
    ASSUME Inv, CountInv, Start
    PROVE  CountInv'
<1>1. /\ starts' = starts + 1 /\ armed' = now /\ seenTo' = [b \in Playbooks |-> now]
      /\ pc' = "top" /\ UNCHANGED <<fired, missed, lost>>
      /\ starts \in Nat /\ now \in Nat
  BY ScheduleAssumption DEF Start, record, Inv, TypeInv, TypeOK
<1>2. /\ \A f \in fired : f.start # starts'
      /\ \A r \in missed \cup lost : r.start # starts'
  <2>1. /\ \A f \in fired : f.start \in Nat /\ f.start <= starts
        /\ \A r \in missed \cup lost : r.start \in Nat /\ r.start <= starts
    BY DEF Inv, TypeInv, BehindPart, Fires, Rows
  <2> QED BY <1>1, <2>1
<1>3. \A b : FiredOf(b)' = {} /\ MissedOf(b)' = {}
  BY <1>1, <1>2, Zenon DEF FiredOf, MissedOf, RowsOf
<1>4. \A b : Units(MissedOf(b))' = {}
  BY <1>3 DEF Units
<1>5. \A b \in Playbooks : Past(b)' = {}
  <2> SUFFICES ASSUME NEW b \in Playbooks, NEW o \in Occurs[b], now < o, o <= now
               PROVE  FALSE
    BY <1>1 DEF Past
  <2>1. o \in Int
    BY ScheduleAssumption DEF ScheduleAssumption
  <2> QED BY <1>1, <2>1
<1>6. IsFiniteSet({}) /\ Cardinality({}) = 0
  BY FS_EmptySet
<1>7. FinitePart'
  BY <1>3, <1>4, <1>6 DEF FinitePart
<1>8. EachAccountedFor'
  BY <1>3, <1>4, <1>5, <1>6 DEF EachAccountedFor
<1> QED BY <1>1, <1>7, <1>8 DEF CountInv, WalkCount, TickCount, RowsBefore

(* A step of the clock, and one that changes nothing. *)
LEMMA ClockCounts ==
    ASSUME CountInv, UNCHANGED <<starts, armed, seenTo, pc, book, at, due, overflow,
                                 fired, missed, lost>>
    PROVE  CountInv'
<1>1. \A b : FiredOf(b)' = FiredOf(b) /\ MissedOf(b)' = MissedOf(b) /\ Past(b)' = Past(b)
  BY DEF FiredOf, MissedOf, RowsOf, Past
<1>2. \A b : Units(MissedOf(b))' = Units(MissedOf(b))
  BY <1>1 DEF Units
<1>3. FinitePart' /\ EachAccountedFor'
  BY <1>1, <1>2 DEF CountInv, FinitePart, EachAccountedFor
<1>4. WalkCount' /\ RowsBefore'
  BY <1>1 DEF CountInv, WalkCount, Walked, RowsBefore
<1>5. TickCount'
  BY <1>1, <1>2 DEF CountInv, TickCount
<1> QED BY <1>3, <1>4, <1>5 DEF CountInv

(* An entry taken up starts a walk that has gone past nothing. *)
LEMMA TakeUpCounts ==
    ASSUME Inv, CountInv, NEW b \in Playbooks, TakeUp(b)
    PROVE  CountInv'
<1>1. /\ pc = "next" /\ pc' = "walking" /\ book' = b /\ due' = <<>> /\ overflow' = 0
      /\ at' = NextOf(b, seenTo[b])
      /\ UNCHANGED <<starts, armed, seenTo, fired, missed, lost>>
  BY DEF TakeUp, record
<1>2. \A c : FiredOf(c)' = FiredOf(c) /\ MissedOf(c)' = MissedOf(c) /\ Past(c)' = Past(c)
  BY <1>1 DEF FiredOf, MissedOf, RowsOf, Past
<1>3. \A c : Units(MissedOf(c))' = Units(MissedOf(c))
  BY <1>2 DEF Units
<1>4. FinitePart' /\ EachAccountedFor'
  BY <1>1, <1>2, <1>3 DEF CountInv, FinitePart, EachAccountedFor
<1>5. ASSUME Occurs[b] # {} PROVE Walked' = {}
  <2>1. seenTo[b] \in 0..MaxNow
    BY DEF Inv, TypeInv, TypeOK
  <2>2. \A o \in Occurs[b] : seenTo[b] < o => at' <= o
    BY <1>1, <1>5, <2>1, NextOfIs
  <2>3. at' \in Int /\ \A o \in Occurs[b] : o \in Int
    <3>1. Occurs[b] \subseteq 1..MaxNow /\ seenTo[b] \in Nat /\ MaxNow \in Nat
      BY <2>1, ScheduleAssumption DEF ScheduleAssumption
    <3>2. at' \in 0..(MaxNow + 1)
      BY <1>1, <3>1, NextOfType DEF Instants
    <3> QED BY <3>1, <3>2
  <2> QED BY <1>1, <2>2, <2>3 DEF Walked
<1>6. WalkCount'
  <2>1. Occurs[b] # {} => Cardinality(Walked') = 0
    BY <1>5, FS_EmptySet
  <2>2. Len(due') + overflow' = 0
    BY <1>1
  <2> QED BY <1>1, <2>1, <2>2 DEF WalkCount
<1> QED BY <1>1, <1>4, <1>6 DEF CountInv, TickCount, RowsBefore

(* A step of the walk remembers one occurrence more, or counts one it forgets. *)
LEMMA WalkCounts ==
    ASSUME Inv, CountInv, Walk
    PROVE  CountInv'
<1> USE ScheduleAssumption
<1>0. TypeInv /\ TypeOK /\ book \in Playbooks
  BY DEF Inv, TypeInv, TypeOK
<1>1. /\ pc = "walking" /\ at <= ticked /\ at' = NextOf(book, at)
      /\ UNCHANGED <<starts, armed, seenTo, pc, book, fired, missed, lost>>
  BY DEF Walk, record
<1>2. \A c : FiredOf(c)' = FiredOf(c) /\ MissedOf(c)' = MissedOf(c) /\ Past(c)' = Past(c)
  BY <1>1 DEF FiredOf, MissedOf, RowsOf, Past
<1>3. \A c : Units(MissedOf(c))' = Units(MissedOf(c))
  BY <1>2 DEF Units
<1>4. FinitePart' /\ EachAccountedFor'
  BY <1>1, <1>2, <1>3 DEF CountInv, FinitePart, EachAccountedFor
<1>5. ASSUME Occurs[book] # {}
      PROVE  Cardinality(Walked') = Len(due') + overflow'
  <2>1. /\ at \in 0..MaxNow /\ at \in Nat /\ seenTo[book] \in Nat /\ MaxNow \in Nat
        /\ due \in Seq(Instants) /\ Len(due) \in Nat /\ overflow \in Nat /\ MaxOverflow \in Nat
    BY <1>0, <1>1 DEF TypeInv, TypeOK, Instants
  <2>2. at \in Occurs[book] /\ seenTo[book] < at
    BY <1>0, <1>1, <1>5, <2>1 DEF Inv, WalkPart
  <2>3. /\ at' \in Occurs[book] \cup {MaxNow + 1} /\ at < at'
        /\ \A o \in Occurs[book] : at < o => at' <= o
    BY <1>0, <1>1, <1>5, <2>1, NextOfIs
  <2>4. Occurs[book] \subseteq 1..MaxNow
    BY <1>0
  <2>5. Walked' = Walked \cup {at} /\ at \notin Walked
    <3>1. ASSUME NEW o \in Occurs[book]
          PROVE  seenTo[book] < o /\ o < at' <=> (seenTo[book] < o /\ o < at) \/ o = at
      <4>1. o \in Int /\ at' \in Int
        BY <2>1, <2>3, <2>4
      <4>2. at < o => at' <= o
        BY <2>3
      <4> QED BY <2>1, <2>2, <2>3, <4>1, <4>2
    <3>2. Walked' = {o \in Occurs[book] : seenTo[book] < o /\ o < at'}
      BY <1>1 DEF Walked
    <3>3. Walked' = {o \in Occurs[book] : (seenTo[book] < o /\ o < at) \/ o = at}
      BY <3>1, <3>2
    <3>4. ~(at < at)
      BY <2>1
    <3> QED BY <2>2, <3>3, <3>4, Zenon DEF Walked
  <2>6. IsFiniteSet(Walked) /\ Cardinality(Walked) = Len(due) + overflow
    BY <1>0, <1>1, <1>5, OccurrencesAreFinite DEF CountInv, WalkCount, Walked
  <2>7. Cardinality(Walked') = Cardinality(Walked) + 1
    BY <2>5, <2>6, FS_AddElement
  <2>8. Cardinality(Walked') <= MaxNow
    BY <1>0, <1>1, OccurrencesAreFinite DEF Walked
  <2>9. CASE Len(due) = CatchUpLimit
    <3>1. due' = [due EXCEPT ![Len(due)] = at] /\ overflow' = Min({overflow + 1, MaxOverflow})
      BY <2>9 DEF Walk
    <3>2. overflow + 1 <= MaxOverflow
      BY <2>1, <2>6, <2>7, <2>8
    <3>3. {overflow + 1, MaxOverflow} \in SUBSET Nat
      BY <2>1
    <3>4. overflow' = overflow + 1
      BY <2>1, <3>1, <3>2, <3>3, MinIs
    <3>5. Len(due') = Len(due)
      BY <2>1, <3>1
    <3> QED BY <2>1, <2>6, <2>7, <3>4, <3>5
  <2>10. CASE Len(due) # CatchUpLimit
    <3>1. due' = Append(due, at) /\ overflow' = overflow
      BY <2>10 DEF Walk
    <3>2. Len(due') = Len(due) + 1
      BY <2>1, <3>1
    <3> QED BY <2>1, <2>6, <2>7, <3>1, <3>2
  <2> QED BY <2>9, <2>10
<1>6. WalkCount'
  BY <1>1, <1>5 DEF WalkCount
<1> QED BY <1>1, <1>4, <1>6 DEF CountInv, TickCount, RowsBefore

(* At its end the walk has all of them in hand. *)
LEMMA WalkEndsCounts ==
    ASSUME Inv, CountInv, WalkEnds
    PROVE  CountInv'
<1> USE ScheduleAssumption
<1>0. TypeInv /\ TypeOK /\ WalkPart /\ DuePart
  BY DEF Inv, TypeInv
<1>1. /\ pc = "walking" /\ at > ticked
      /\ UNCHANGED <<starts, armed, ticked, book, at, due, overflow, fired, missed, lost>>
  BY DEF WalkEnds, walk, record
<1>2. CASE due = <<>>
  <2>1. pc' = "next" /\ UNCHANGED seenTo
    BY <1>2 DEF WalkEnds
  <2> QED BY <1>1, <2>1, OutsideCounts DEF record
<1>3. CASE due # <<>>
  <2>1. pc' = "recording" /\ seenTo' = [seenTo EXCEPT ![book] = ticked]
    BY <1>3 DEF WalkEnds
  <2>2. /\ book \in Playbooks /\ ticked \in Nat /\ at \in Nat /\ armed \in Nat
        /\ seenTo \in [Playbooks -> 0..MaxNow] /\ seenTo[book] \in Nat /\ overflow \in Nat
        /\ due \in Seq(Instants) /\ Len(due) \in Nat /\ 1 \in 1..Len(due)
    BY <1>0, <1>3, SMTT(30) DEF TypeInv, TypeOK, Instants
  <2>3. seenTo'[book] = ticked /\ \A b \in Playbooks : b # book => seenTo'[b] = seenTo[b]
    BY <2>1, <2>2
  <2>4. Occurs[book] # {} /\ Occurs[book] \subseteq 1..MaxNow
    BY <1>0, <1>1, <2>2 DEF WalkPart, Zero
  <2>5. /\ \A i \in 1..Len(due) : due[i] \in Int /\ due[i] <= ticked /\ seenTo[book] < due[i]
        /\ \A o \in Occurs[book] : seenTo[book] < o /\ o < at => InHand(o)
    BY <1>0, <1>1, <2>2, <2>4 DEF DuePart, WalkPart, Instants
  <2>6. armed <= seenTo[book] /\ seenTo[book] < ticked
    BY <1>1, <2>2, <2>5 DEF Inv, ArmedPart
  <2>7. \A c : FiredOf(c)' = FiredOf(c) /\ MissedOf(c)' = MissedOf(c)
    BY <1>1 DEF FiredOf, MissedOf, RowsOf
  <2>8. \A c : Units(MissedOf(c))' = Units(MissedOf(c))
    BY <2>7 DEF Units
  <2>9. \A c \in Playbooks : c # book => Past(c)' = Past(c)
    BY <1>1, <2>3 DEF Past
  <2>10. FinitePart' /\ EachAccountedFor'
    BY <1>1, <2>1, <2>7, <2>8, <2>9 DEF CountInv, FinitePart, EachAccountedFor
  <2>11. Past(book)' = Past(book) \cup Walked /\ Past(book) \cap Walked = {}
    <3>1. ASSUME NEW o \in Occurs[book]
          PROVE  /\ armed < o /\ o <= ticked
                      <=> (armed < o /\ o <= seenTo[book]) \/ (seenTo[book] < o /\ o < at)
                 /\ ~(o <= seenTo[book] /\ seenTo[book] < o)
      <4>1. o \in Int
        BY <2>4
      <4>2. ASSUME seenTo[book] < o, o < at PROVE o <= ticked
        <5>1. InHand(o)
          BY <2>5, <4>2
        <5>2. CASE \E i \in 1..Len(due) : due[i] = o
          BY <2>5, <5>2
        <5>3. CASE o < due[Len(due)]
          <6>1. Len(due) \in 1..Len(due)
            BY <2>2
          <6> QED BY <2>2, <2>5, <4>1, <5>3, <6>1
        <5> QED BY <5>1, <5>2, <5>3 DEF InHand
      <4> QED BY <1>1, <2>2, <2>6, <4>1, <4>2
    <3>2. Past(book)' = {o \in Occurs[book] : armed < o /\ o <= ticked}
      BY <1>1, <2>3 DEF Past
    <3>3. Past(book) = {o \in Occurs[book] : armed < o /\ o <= seenTo[book]}
      BY DEF Past
    <3> QED BY <3>1, <3>2, <3>3 DEF Walked
  <2>12. TickCount'
    <3>1. IsFiniteSet(Past(book)) /\ IsFiniteSet(Walked)
      BY <2>2, OccurrencesAreFinite DEF Past, Walked
    <3>2. Cardinality(Past(book)') = Cardinality(Past(book)) + Cardinality(Walked)
                                       - Cardinality(Past(book) \cap Walked)
      BY <2>11, <3>1, FS_Union
    <3>3. Cardinality(Past(book) \cap Walked) = 0
      BY <2>11, FS_EmptySet
    <3>4. /\ Cardinality(Walked) = Len(due) + overflow
          /\ Cardinality(Past(book)) = Cardinality(FiredOf(book)) + Cardinality(Units(MissedOf(book)))
      BY <1>1, <2>2, <2>4 DEF CountInv, WalkCount, EachAccountedFor
    <3>5. /\ Cardinality(FiredOf(book)) \in Nat /\ Cardinality(Units(MissedOf(book))) \in Nat
      BY <2>2, FS_CardinalityType DEF CountInv, FinitePart
    <3>6. Cardinality(Past(book)') = Cardinality(FiredOf(book))
              + Cardinality(Units(MissedOf(book))) + Len(due) + overflow
      BY <2>2, <3>2, <3>3, <3>4, <3>5
    <3> QED BY <1>1, <2>7, <2>8, <3>6 DEF TickCount
  <2>13. RowsBefore'
    <3>1. \A r \in MissedOf(book) : r.at \in Int /\ r.at <= seenTo[book]
      BY <1>0, <2>2 DEF Inv, BehindPart, MissedOf, RowsOf, TypeInv, Rows
    <3>2. \A r \in MissedOf(book) : r.at < due[1]
      BY <2>2, <2>5, <3>1
    <3> QED BY <1>1, <2>7, <3>2 DEF RowsBefore
  <2> QED BY <2>1, <2>10, <2>12, <2>13 DEF CountInv, WalkCount
<1> QED BY <1>2, <1>3

-----------------------------------------------------------------------------
(* A row that is new among those of its playbook adds its count. *)
LEMMA RowCounts ==
    ASSUME Inv, CountInv, NEW row \in Rows, row.start = starts, row.book = book,
           row.why # "no_run", row \notin MissedOf(book), Write(row),
           UNCHANGED <<starts, armed, seenTo, book>>
    PROVE  /\ \A b : FiredOf(b)' = FiredOf(b) /\ Past(b)' = Past(b)
           /\ \A b \in Playbooks : b # book => MissedOf(b)' = MissedOf(b)
           /\ MissedOf(book)' = MissedOf(book) \cup {row}
           /\ FinitePart'
           /\ \A b \in Playbooks : b # book => Units(MissedOf(b))' = Units(MissedOf(b))
           /\ Cardinality(Units(MissedOf(book)))' = Cardinality(Units(MissedOf(book))) + row.count
<1>0. TypeInv /\ book \in Playbooks
  BY DEF Inv, TypeInv, TypeOK
<1>1. /\ \A b : FiredOf(b)' = FiredOf(b)
      /\ \A b : RowsOf(b)' = RowsOf(b) \cup {r \in {row} : r.book = b}
  BY <1>0, WriteIs
<1>2. \A b : Past(b)' = Past(b)
  BY DEF Past
<1>3. /\ \A b \in Playbooks : b # book => MissedOf(b)' = MissedOf(b)
      /\ MissedOf(book)' = MissedOf(book) \cup {row}
  BY <1>1 DEF MissedOf
<1>4. \A b \in Playbooks : b # book => Units(MissedOf(b))' = Units(MissedOf(b))
  BY <1>3 DEF Units
<1>5. Units(MissedOf(book))' = Units(MissedOf(book) \cup {row})
  BY <1>3 DEF Units
<1>6. /\ IsFiniteSet(Units(MissedOf(book) \cup {row}))
      /\ Cardinality(Units(MissedOf(book) \cup {row})) = Cardinality(Units(MissedOf(book))) + row.count
  <2>1. row.count \in Nat
    BY DEF Rows
  <2>2. IsFiniteSet(Units(MissedOf(book)))
    BY <1>0 DEF CountInv, FinitePart
  <2> QED BY <2>1, <2>2, UnitsOfRow
<1>7. FinitePart'
  <2> SUFFICES ASSUME NEW b \in Playbooks
               PROVE  IsFiniteSet(FiredOf(b)') /\ IsFiniteSet(Units(MissedOf(b))')
    BY DEF FinitePart
  <2>1. CASE b = book
    BY <1>0, <1>1, <1>5, <1>6, <2>1 DEF CountInv, FinitePart
  <2>2. CASE b # book
    BY <1>1, <1>4, <2>2 DEF CountInv, FinitePart
  <2> QED BY <2>1, <2>2
<1> QED BY <1>1, <1>2, <1>3, <1>4, <1>5, <1>6, <1>7

(* One occurrence in hand becomes a row. *)
LEMMA RecordMissedCounts ==
    ASSUME Inv, CountInv, RecordMissed
    PROVE  CountInv'
<1> DEFINE row == Row(due[1], "not_running", 1)
<1>1. /\ pc = "recording" /\ Len(due) > 1 /\ due' = Tail(due) /\ Write(row)
      /\ UNCHANGED <<starts, armed, seenTo, pc, book, overflow>>
  BY DEF RecordMissed
<1>2. /\ book \in Playbooks /\ due \in Seq(Instants) /\ Len(due) \in Nat
      /\ starts \in Nat /\ overflow \in Nat
      /\ \A i \in 1..Len(due) : due[i] \in Nat
      /\ \A i, j \in 1..Len(due) : i < j => due[i] < due[j]
  BY <1>1, Recording
<1>3. 1 \in 1..Len(due) /\ 2 \in 1..Len(due)
  BY <1>1, <1>2
<1>4. /\ row \in Rows /\ row.start = starts /\ row.book = book /\ row.at = due[1]
      /\ row.why = "not_running" /\ row.count = 1
  BY <1>2, <1>3 DEF Row, Rows
<1> HIDE DEF row
<1>5. row \notin MissedOf(book)
  BY <1>1, <1>2, <1>3, <1>4 DEF CountInv, RowsBefore
<1>6. /\ \A b : FiredOf(b)' = FiredOf(b) /\ Past(b)' = Past(b)
      /\ MissedOf(book)' = MissedOf(book) \cup {row}
      /\ FinitePart'
      /\ \A b \in Playbooks : b # book => Units(MissedOf(b))' = Units(MissedOf(b))
      /\ Cardinality(Units(MissedOf(book)))' = Cardinality(Units(MissedOf(book))) + 1
  BY <1>1, <1>4, <1>5, RowCounts
<1>7. Len(due') = Len(due) - 1 /\ due'[1] = due[2]
  BY <1>1, <1>2
<1>8. EachAccountedFor'
  BY <1>1, <1>6 DEF CountInv, EachAccountedFor
<1>9. TickCount'
  <2>1. /\ Cardinality(FiredOf(book)) \in Nat /\ Cardinality(Units(MissedOf(book))) \in Nat
    BY <1>2, FS_CardinalityType DEF CountInv, FinitePart
  <2>2. Cardinality(Past(book)) = Cardinality(FiredOf(book))
            + Cardinality(Units(MissedOf(book))) + Len(due) + overflow
    BY <1>1 DEF CountInv, TickCount
  <2>3. Cardinality(Past(book)) = Cardinality(FiredOf(book))
            + (Cardinality(Units(MissedOf(book))) + 1) + Len(due') + overflow
    BY <1>2, <1>7, <2>1, <2>2
  <2> QED BY <1>1, <1>6, <2>3 DEF TickCount
<1>10. RowsBefore'
  <2>1. due[1] < due[2] /\ due[1] \in Int /\ due[2] \in Int
    BY <1>2, <1>3
  <2>2. \A r \in MissedOf(book) : r.at \in Int /\ r.at <= due[1]
    BY <1>1, <2>1 DEF CountInv, RowsBefore, Inv, TypeInv, Rows, MissedOf, RowsOf
  <2>3. \A r \in MissedOf(book)' : r.at < due'[1]
    BY <1>4, <1>6, <1>7, <2>1, <2>2
  <2> QED BY <1>1, <2>3 DEF RowsBefore
<1> QED BY <1>1, <1>6, <1>8, <1>9, <1>10 DEF CountInv, WalkCount

(* The number forgotten becomes the number of a row. *)
LEMMA RecordOverflowCounts ==
    ASSUME Inv, CountInv, RecordOverflow
    PROVE  CountInv'
<1> DEFINE row == Row(due[1], "overflow", overflow)
<1>1. /\ pc = "recording" /\ Len(due) = 1 /\ overflow > 0 /\ overflow' = 0 /\ Write(row)
      /\ UNCHANGED <<starts, armed, seenTo, pc, book, due>>
  BY DEF RecordOverflow
<1>2. /\ book \in Playbooks /\ starts \in Nat /\ overflow \in Nat
      /\ \A i \in 1..Len(due) : due[i] \in Nat
  BY <1>1, Recording
<1>3. 1 \in 1..Len(due)
  BY <1>1
<1>4. /\ row \in Rows /\ row.start = starts /\ row.book = book /\ row.at = due[1]
      /\ row.why = "overflow" /\ row.count = overflow
  BY <1>2, <1>3 DEF Row, Rows
<1> HIDE DEF row
<1>5. row \notin MissedOf(book)
  BY <1>1, <1>2, <1>3, <1>4 DEF CountInv, RowsBefore
<1>6. /\ \A b : FiredOf(b)' = FiredOf(b) /\ Past(b)' = Past(b)
      /\ MissedOf(book)' = MissedOf(book) \cup {row}
      /\ FinitePart'
      /\ \A b \in Playbooks : b # book => Units(MissedOf(b))' = Units(MissedOf(b))
      /\ Cardinality(Units(MissedOf(book)))' = Cardinality(Units(MissedOf(book))) + overflow
  BY <1>1, <1>4, <1>5, RowCounts
<1>7. EachAccountedFor'
  BY <1>1, <1>6 DEF CountInv, EachAccountedFor
<1>8. TickCount'
  <2>1. /\ Cardinality(FiredOf(book)) \in Nat /\ Cardinality(Units(MissedOf(book))) \in Nat
    BY <1>2, FS_CardinalityType DEF CountInv, FinitePart
  <2>2. Cardinality(Past(book)) = Cardinality(FiredOf(book))
            + Cardinality(Units(MissedOf(book))) + Len(due) + overflow
    BY <1>1 DEF CountInv, TickCount
  <2>3. Cardinality(Past(book)) = Cardinality(FiredOf(book))
            + (Cardinality(Units(MissedOf(book))) + overflow) + Len(due) + 0
    BY <1>1, <1>2, <2>1, <2>2
  <2> QED BY <1>1, <1>6, <2>3 DEF TickCount
<1>9. RowsBefore'
  <2>1. \A r \in MissedOf(book) : r.at < due[1]
    BY <1>1, <1>2 DEF CountInv, RowsBefore
  <2> QED BY <1>1, <1>4, <1>6, <2>1 DEF RowsBefore
<1> QED BY <1>1, <1>6, <1>7, <1>8, <1>9 DEF CountInv, WalkCount

(* The last in hand is fired. *)
LEMMA FireCounts ==
    ASSUME Inv, CountInv, Fire
    PROVE  CountInv'
<1> DEFINE fire == [book |-> book, at |-> due[1], start |-> starts]
<1>1. /\ pc = "recording" /\ Len(due) = 1 /\ overflow = 0
      /\ fired' = fired \cup {fire} /\ pc' = "firing"
      /\ UNCHANGED <<starts, armed, seenTo, book, missed, lost>>
  BY DEF Fire, walk
<1>2. book \in Playbooks /\ 1 \in 1..Len(due) /\ due[1] \in Nat
  BY <1>1, Recording
<1>3. fire.start = starts /\ fire.book = book /\ fire.at = due[1]
  OBVIOUS
<1> HIDE DEF fire
<1>4. fire \notin FiredOf(book)
  BY <1>1, <1>2, <1>3 DEF Inv, RecordPart
<1>5. /\ \A b : MissedOf(b)' = MissedOf(b) /\ Past(b)' = Past(b)
      /\ \A b \in Playbooks : b # book => FiredOf(b)' = FiredOf(b)
      /\ FiredOf(book)' = FiredOf(book) \cup {fire}
  BY <1>1, <1>3 DEF MissedOf, RowsOf, Past, FiredOf
<1>6. \A b : Units(MissedOf(b))' = Units(MissedOf(b))
  BY <1>5 DEF Units
<1>7. IsFiniteSet(FiredOf(book)') /\ Cardinality(FiredOf(book)') = Cardinality(FiredOf(book)) + 1
  BY <1>2, <1>4, <1>5, FS_AddElement DEF CountInv, FinitePart
<1>8. FinitePart'
  BY <1>1, <1>5, <1>6, <1>7 DEF CountInv, FinitePart
<1>9. EachAccountedFor'
  <2>1. /\ Cardinality(FiredOf(book)) \in Nat /\ Cardinality(Units(MissedOf(book))) \in Nat
    BY <1>2, FS_CardinalityType DEF CountInv, FinitePart
  <2>2. Cardinality(Past(book)) = Cardinality(FiredOf(book)) + 1 + Cardinality(Units(MissedOf(book)))
    BY <1>1, <2>1 DEF CountInv, TickCount
  <2> SUFFICES ASSUME NEW b \in Playbooks
               PROVE  Cardinality(Past(b)')
                        = Cardinality(FiredOf(b)') + Cardinality(Units(MissedOf(b))')
    BY DEF EachAccountedFor
  <2>3. CASE b = book
    BY <1>1, <1>5, <1>6, <1>7, <2>2, <2>3
  <2>4. CASE b # book
    BY <1>1, <1>5, <1>6, <2>4 DEF CountInv, EachAccountedFor
  <2> QED BY <2>3, <2>4
<1> QED BY <1>1, <1>8, <1>9 DEF CountInv, WalkCount, TickCount, RowsBefore

(* A fire that became no run was counted when it was fired. *)
LEMMA FireFailsCounts ==
    ASSUME Inv, CountInv, FireFails
    PROVE  CountInv'
<1> DEFINE row == Row(due[1], "no_run", 1)
<1>1. /\ pc = "firing" /\ pc' = "next" /\ Write(row)
      /\ UNCHANGED <<starts, armed, seenTo>>
  BY DEF FireFails
<1>2. row.why = "no_run"
  BY DEF Row
<1> HIDE DEF row
<1>3. fired' = fired /\ (missed \cup lost)' = missed \cup lost \cup {row}
  BY <1>1 DEF Write
<1>4. \A b : FiredOf(b)' = FiredOf(b) /\ MissedOf(b)' = MissedOf(b) /\ Past(b)' = Past(b)
  BY <1>1, <1>2, <1>3 DEF FiredOf, MissedOf, RowsOf, Past
<1>5. \A b : Units(MissedOf(b))' = Units(MissedOf(b))
  BY <1>4 DEF Units
<1>6. FinitePart' /\ EachAccountedFor'
  BY <1>1, <1>4, <1>5 DEF CountInv, FinitePart, EachAccountedFor
<1> QED BY <1>1, <1>6 DEF CountInv, WalkCount, TickCount, RowsBefore

(* Every step, and every stuttering one, keeps CountInv. *)
LEMMA NextCounts ==
    ASSUME Inv, CountInv, [Next]_vars
    PROVE  CountInv'
<1>1. CASE Start
  BY <1>1, StartCounts
<1>2. CASE Stop \/ BeginTick \/ Wait \/ Wake \/ FireReturns
  BY <1>2, OutsideCounts DEF Stop, BeginTick, Wait, Wake, FireReturns
<1>3. CASE Elapse \/ SetClock \/ UNCHANGED vars
  BY <1>3, ClockCounts DEF Elapse, SetClock, vars, walk, record
<1>4. CASE \E b \in Playbooks : TakeUp(b)
  BY <1>4, TakeUpCounts
<1> QED
  BY <1>1, <1>2, <1>3, <1>4, WalkCounts, WalkEndsCounts, RecordMissedCounts,
     RecordOverflowCounts, FireCounts, FireFailsCounts, Zenon DEF Next, Loop

(* The second inductive invariant: what the walk and the tick have in hand is as
   much as the entry was moved past and nothing accounts for. *)
THEOREM CountInvariance == Spec => []CountInv
<1>1. Init => CountInv
  <2> SUFFICES ASSUME Init PROVE CountInv
    OBVIOUS
  <2>1. \A b : FiredOf(b) = {} /\ MissedOf(b) = {}
    BY DEF Init, FiredOf, MissedOf, RowsOf
  <2>2. \A b : Units(MissedOf(b)) = {}
    BY <2>1 DEF Units
  <2>3. pc = "down"
    BY DEF Init
  <2> QED BY <2>1, <2>2, <2>3, FS_EmptySet
          DEF CountInv, FinitePart, EachAccountedFor, WalkCount, TickCount, RowsBefore
<1>2. Inv /\ CountInv /\ [Next]_vars => CountInv'
  BY NextCounts
<1> QED BY <1>1, <1>2, Invariance, PTL DEF Spec

(* FR-030, tickOne: of the occurrences an entry has moved past, each was fired, is
   in the record as missed, one by one or in the count, or was logged, and each
   but once: for any occurrences, any limit and a clock that is set at will. *)
THEOREM EachIsAccountedForOnce == Spec => []EachAccountedFor
<1>1. CountInv => EachAccountedFor
  BY DEF CountInv
<1> QED BY <1>1, CountInvariance, PTL
=============================================================================

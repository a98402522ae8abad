----------------------------- MODULE RunsProofs -----------------------------
(***************************************************************************)
(* Proofs about the runs and their record, for any number of runs, inputs, *)
(* sinks and editions: what a run called succeeded has in the record, what *)
(* is kept before a working directory goes, what a replay or a resume has  *)
(* of its parent, and that an outcome is final.                            *)
(***************************************************************************)
EXTENDS Runs, TLAPS

(* Where a run can be: writing its record, and past its Finish. *)
Working == {"gather", "keep", "restore", "sinks", "fence", "agent", "deliver", "note", "finishing"}
Over == {"removing", "releasing", "over"}
Places == {"idle", "beginning"} \cup Working \cup Over

Says == {"incomplete", "resumable"}

Memory ==
    [pc : Places, kind : {"manual", "replay", "resume"}, parent : Ids \cup {None},
     book : Editions \cup {0}, asked : Editions \cup {0},
     files : SUBSET Inputs, todo : SUBSET Inputs,
     status : Terminal \ {"interrupted"}, says : SUBSET Says,
     prompt : Editions \cup {0}, resolved : Editions \cup {0}, report : Ids \cup {None},
     sink : 1..(Sinks + 1), sent : [1..Sinks -> {"no", "delivered", "failed"}],
     stopped : BOOLEAN, cancelled : BOOLEAN]

Row ==
    [status : Terminal \cup {"none", "running"}, says : SUBSET Says,
     prompt : Editions \cup {0}, resolved : Editions \cup {0}, report : Ids \cup {None}]

(* The types, of the records too; the run with the claim is the one alive. *)
TypeInv ==
    /\ file \in [book : Editions, prompt : Editions]
    /\ claim \in Ids \cup {None}
    /\ mem \in [Ids -> Memory]
    /\ row \in [Ids -> Row]
    /\ kept \in [Ids -> [Inputs -> {"no", "row", "blob"}]]
    /\ noted \in [Ids -> [1..Sinks -> {"no", "delivered", "failed"}]]
    /\ dirs \subseteq Ids
    /\ \A r \in Ids : Live(r) <=> claim = r

(* A row with the outcome its own run gave it. *)
Settled(r) == row[r].status \in Terminal \ {"interrupted"}

(* A row is settled by Finish, and by nothing earlier; until then it is empty. *)
RowPart(r) ==
    /\ Settled(r) => mem[r].pc \in Over
    /\ ~Settled(r) =>
         row[r].says = {} /\ row[r].prompt = 0 /\ row[r].resolved = 0 /\ row[r].report = None
    /\ mem[r].pc \in Working => row[r].status \in {"running", "interrupted"}
    /\ mem[r].pc \in {"idle", "beginning"} => row[r].status = "none"

(* What a run has before it has read anything. *)
FreshPart(r) ==
    /\ mem[r].pc = "idle" => mem[r] = Blank
    /\ mem[r].pc \in {"idle", "beginning"} =>
         /\ mem[r].says = {}
         /\ \A i \in Inputs : kept[r][i] = "no"
    /\ mem[r].pc \in {"idle", "beginning", "gather"} => mem[r].files = {}
    /\ mem[r].pc \in {"idle", "beginning", "gather", "restore"} =>
         mem[r].asked = 0 /\ mem[r].prompt = 0
    /\ mem[r].pc = "restore" => mem[r].kind = "replay"
    /\ mem[r].pc \in {"gather", "keep"} => mem[r].kind = "manual"
    /\ mem[r].kind = "resume" => mem[r].asked = 0

(* What the run has read is in the record, is about to be, or is noted as missing. *)
KeptPart(r) ==
    /\ \A i \in Inputs : kept[r][i] = "blob" => i \in mem[r].files
    /\ mem[r].pc = "keep" => mem[r].todo \subseteq mem[r].files
    /\ \/ mem[r].pc \in Over
       \/ "incomplete" \in mem[r].says
       \/ \A i \in mem[r].files : kept[r][i] = "blob" \/ (mem[r].pc = "keep" /\ i \in mem[r].todo)
    /\ Settled(r) => \/ "incomplete" \in row[r].says
                     \/ \A i \in mem[r].files : kept[r][i] = "blob"

(* The same, of the prompt and of the playbook. *)
AskedPart(r) ==
    /\ \/ mem[r].pc \in Over
       \/ "incomplete" \in mem[r].says
       \/ mem[r].prompt = mem[r].asked
    /\ mem[r].prompt # 0 => mem[r].prompt = mem[r].asked
    /\ mem[r].resolved # 0 => mem[r].resolved = mem[r].book
    /\ mem[r].pc \in Working \ {"gather"} /\ mem[r].kind = "manual" =>
         "incomplete" \in mem[r].says \/ mem[r].resolved = mem[r].book
    /\ row[r].prompt # 0 => row[r].prompt = mem[r].asked
    /\ row[r].resolved # 0 => row[r].resolved = mem[r].book

(* A run that still counts as succeeded has delivered to every sink whose outcome
   it has noted, and has the report it delivers. *)
SinkPart(r) ==
    /\ mem[r].status = "succeeded" =>
         /\ mem[r].pc \in {"deliver", "note", "finishing"}
         /\ "incomplete" \in mem[r].says \/ mem[r].report # None
    /\ mem[r].pc \notin {"deliver", "note", "finishing"} => mem[r].sink = 1
    /\ mem[r].pc = "deliver" =>
         \A n \in 1..Sinks : n < mem[r].sink => mem[r].sent[n] # "no"
    /\ mem[r].pc = "note" /\ ~mem[r].stopped =>
         \A n \in 1..Sinks : mem[r].sent[n] # "no"
    /\ mem[r].pc = "note" /\ mem[r].status = "succeeded" =>
         \/ "incomplete" \in mem[r].says
         \/ \A n \in 1..Sinks : n < mem[r].sink => noted[r][n] = "delivered"
    /\ mem[r].pc = "finishing" /\ mem[r].status = "succeeded" =>
         \/ mem[r].stopped
         \/ "incomplete" \in mem[r].says
         \/ \A n \in 1..Sinks : noted[r][n] = "delivered"

(* SucceededIsWhole, of one run. *)
WholePart(r) ==
    row[r].status = "succeeded" =>
        /\ \A n \in 1..Sinks : noted[r][n] = "delivered"
        /\ row[r].report # None
        /\ mem[r].kind # "resume" =>
             /\ row[r].prompt = mem[r].asked
             /\ \A i \in mem[r].files : kept[r][i] = "blob"
        /\ mem[r].kind = "manual" => row[r].resolved = mem[r].book

(* What a run found in the record of p when it was admitted is there still. *)
ParentPart(r, p) ==
    /\ mem[r].kind = "manual" <=> p = None
    /\ mem[r].kind # "manual" =>
         /\ mem[p].pc = "over" /\ Settled(p)
         /\ row[p].resolved = mem[r].book /\ mem[r].book # 0
    /\ mem[r].kind = "replay" => row[p].prompt # 0
    /\ mem[r].kind = "resume" => row[p].report # None
    /\ mem[r].kind = "replay" /\ mem[r].pc = "restore" =>
         mem[r].files \cup mem[r].todo = {i \in Inputs : kept[p][i] = "blob"}
    /\ mem[r].kind = "replay" /\ mem[r].asked # 0 =>
         /\ mem[r].asked = row[p].prompt
         /\ mem[r].files = {i \in Inputs : kept[p][i] = "blob"}

(* The report q is of a run that was admitted, under the playbook r has. *)
WrittenFor(q, r) == q # None => mem[q].pc # "idle" /\ mem[q].book = mem[r].book

(* Every step that is of one run. *)
RunStep(r) == Admit(r) \/ Step(r) \/ Signal(r) \/ ClaimLost(r) \/ Die(r)

LocalPart(r) ==
    RowPart(r) /\ FreshPart(r) /\ KeptPart(r) /\ AskedPart(r) /\ SinkPart(r) /\ WholePart(r)

SharedPart(r) ==
    ParentPart(r, mem[r].parent) /\ WrittenFor(mem[r].report, r) /\ WrittenFor(row[r].report, r)

Inv == TypeInv /\ \A r \in Ids : LocalPart(r) /\ SharedPart(r)

-----------------------------------------------------------------------------
(* A step of one run leaves the others alone. *)
LEMMA Frame ==
    ASSUME TypeInv, NEW r \in Ids, RunStep(r)
    PROVE  \A q \in Ids \ {r} :
               /\ mem'[q] = mem[q] /\ row'[q] = row[q]
               /\ kept'[q] = kept[q] /\ noted'[q] = noted[q]
<1> USE RunsAssumption DEF At, Live, others, record
<1> USE DEF TypeInv
<1>1. CASE Admit(r)
  BY <1>1 DEF Admit, Admitted, SameAsRecorded
<1>2. CASE Begin(r)
  BY <1>2 DEF Begin
<1>3. CASE BeginFails(r)
  BY <1>3 DEF BeginFails, Left
<1>4. CASE Gather(r)
  BY <1>4 DEF Gather, Note
<1>5. CASE KeepGathered(r)
  BY <1>5 DEF KeepGathered, Keep, Note
<1>6. CASE GatherRefused(r)
  BY <1>6 DEF GatherRefused, Ends
<1>7. CASE Prompt(r)
  BY <1>7 DEF Prompt
<1>8. CASE PromptRefused(r)
  BY <1>8 DEF PromptRefused, Ends
<1>9. CASE Restore(r)
  BY <1>9 DEF Restore, Note
<1>10. CASE RestoreRefused(r)
  BY <1>10 DEF RestoreRefused, Ends
<1>11. CASE Restored(r)
  BY <1>11 DEF Restored, Note
<1>12. CASE Prepare(r)
  BY <1>12 DEF Prepare
<1>13. CASE PrepareRefused(r)
  BY <1>13 DEF PrepareRefused, Ends
<1>14. CASE TakeReport(r)
  BY <1>14 DEF TakeReport, Note
<1>15. CASE FencePasses(r)
  BY <1>15 DEF FencePasses
<1>16. CASE FenceFails(r)
  BY <1>16 DEF FenceFails, Ends
<1>17. CASE AgentEnds(r)
  BY <1>17 DEF AgentEnds, Note, Ends
<1>18. CASE ReportRefused(r)
  BY <1>18 DEF ReportRefused, Note
<1>19. CASE Report(r)
  BY <1>19 DEF Report, Note
<1>20. CASE Deliver(r)
  BY <1>20 DEF Deliver
<1>21. CASE GateRefuses(r)
  BY <1>21 DEF GateRefuses
<1>22. CASE Delivered(r)
  BY <1>22 DEF Delivered
<1>23. CASE NoteSink(r)
  BY <1>23 DEF NoteSink, Note
<1>24. CASE NotedAll(r)
  BY <1>24 DEF NotedAll
<1>25. CASE FinishRun(r)
  BY <1>25 DEF FinishRun, Left, FinalStatus, Finished
<1>26. CASE RemoveDir(r)
  BY <1>26 DEF RemoveDir
<1>27. CASE Release(r)
  BY <1>27 DEF Release, Left
<1>28. CASE Signal(r)
  BY <1>28 DEF Signal, InHand
<1>29. CASE ClaimLost(r)
  BY <1>29 DEF ClaimLost, InHand
<1>30. CASE Die(r)
  BY <1>30 DEF Die, Left
<1> QED
  BY <1>1, <1>2, <1>3, <1>4, <1>5, <1>6, <1>7, <1>8, <1>9, <1>10, <1>11, <1>12, <1>13, <1>14, <1>15,
     <1>16, <1>17, <1>18, <1>19, <1>20, <1>21, <1>22, <1>23, <1>24, <1>25, <1>26, <1>27, <1>28,
        <1>29, <1>30 DEF RunStep, Step

(* What copying an input leaves alone in a run's memory. *)
Alike(m, n) ==
    /\ m.pc = n.pc /\ m.kind = n.kind /\ m.parent = n.parent /\ m.book = n.book
    /\ m.asked = n.asked /\ m.status = n.status /\ m.prompt = n.prompt
    /\ m.resolved = n.resolved /\ m.report = n.report /\ m.sink = n.sink
    /\ m.sent = n.sent /\ m.stopped = n.stopped /\ m.cancelled = n.cancelled

(* What keeping an input does. *)
LEMMA KeepDoes ==
    ASSUME TypeInv, NEW r \in Ids, KeepGathered(r)
    PROVE  /\ mem[r].pc = "keep"
           /\ \E i \in mem[r].todo, as \in {"no", "row", "blob"} :
                /\ kept' = [kept EXCEPT ![r][i] = as]
                /\ mem'[r].todo = mem[r].todo \ {i} /\ mem'[r].files = mem[r].files
                /\ mem'[r].says = mem[r].says \cup (IF as = "blob" THEN {} ELSE {"incomplete"})
           /\ mem'[r] \in Memory /\ Alike(mem'[r], mem[r])
           /\ UNCHANGED <<file, claim, row, noted, dirs>>
<1>1. PICK i \in mem[r].todo, as \in {"no", "row", "blob"} :
         /\ kept' = [kept EXCEPT ![r][i] = as]
         /\ mem' = [mem EXCEPT ![r] = Note([mem[r] EXCEPT !.todo = @ \ {i}], as = "blob")]
         /\ UNCHANGED <<file, claim, row, noted, dirs>>
  BY DEF KeepGathered, Keep, others
<1>2. /\ mem'[r].todo = mem[r].todo \ {i} /\ mem'[r].files = mem[r].files
      /\ mem'[r].says = mem[r].says \cup (IF as = "blob" THEN {} ELSE {"incomplete"})
      /\ Alike(mem'[r], mem[r])
  <2>1. CASE as = "blob"
    BY <1>1, <2>1 DEF Note, TypeInv, Memory, Alike
  <2>2. CASE as # "blob"
    BY <1>1, <2>2 DEF Note, TypeInv, Memory, Alike
  <2> QED BY <2>1, <2>2
<1>4. mem'[r] \in Memory
  <2>1. mem[r] \in Memory /\ mem[r].todo \ {i} \in SUBSET Inputs
        /\ mem[r].says \cup {"incomplete"} \in SUBSET Says
    BY DEF TypeInv, Memory, Says
  <2> QED BY <1>1, <2>1, ZenonT(60) DEF Note, TypeInv, Memory
<1>3. mem[r].pc = "keep"
  BY DEF KeepGathered, At
<1> QED BY <1>1, <1>2, <1>3, <1>4, Zenon

(* What restoring an input does. *)
LEMMA RestoreDoes ==
    ASSUME TypeInv, NEW r \in Ids, Restore(r)
    PROVE  /\ mem[r].pc = "restore"
           /\ \E i \in mem[r].todo, ok \in BOOLEAN :
                /\ kept' = [kept EXCEPT ![r][i] = IF ok THEN "blob" ELSE "no"]
                /\ mem'[r].todo = mem[r].todo \ {i} /\ mem'[r].files = mem[r].files \cup {i}
                /\ mem'[r].says = mem[r].says \cup (IF ok THEN {} ELSE {"incomplete"})
           /\ mem'[r] \in Memory /\ Alike(mem'[r], mem[r])
           /\ UNCHANGED <<file, claim, row, noted, dirs>>
<1>1. PICK i \in mem[r].todo, ok \in BOOLEAN :
         /\ kept' = [kept EXCEPT ![r][i] = IF ok THEN "blob" ELSE "no"]
         /\ mem' = [mem EXCEPT ![r] = Note([mem[r] EXCEPT !.todo = @ \ {i}, !.files = @ \cup {i}], ok)]
         /\ UNCHANGED <<file, claim, row, noted, dirs>>
  BY DEF Restore, others
<1>2. /\ mem'[r].todo = mem[r].todo \ {i} /\ mem'[r].files = mem[r].files \cup {i}
      /\ mem'[r].says = mem[r].says \cup (IF ok THEN {} ELSE {"incomplete"})
      /\ Alike(mem'[r], mem[r])
  BY <1>1, SMTT(30) DEF Note, TypeInv, Memory, Alike
<1>4. mem'[r] \in Memory
  <2>1. mem[r] \in Memory /\ mem[r].todo \ {i} \in SUBSET Inputs
        /\ mem[r].files \cup {i} \in SUBSET Inputs
        /\ mem[r].says \cup {"incomplete"} \in SUBSET Says
    BY DEF TypeInv, Memory, Says
  <2> QED BY <1>1, <2>1, ZenonT(60) DEF Note, TypeInv, Memory
<1>3. mem[r].pc = "restore"
  BY DEF Restore, At
<1> QED BY <1>1, <1>2, <1>3, <1>4, Zenon

(* The memory of a run that is not begun, is over, ends, or has a fault noted. *)
LEMMA BlankType == Blank \in Memory
  BY RunsAssumption DEF Memory, Blank, Says, Places, Over, Terminal, Editions

LEMMA LeftType == ASSUME NEW m \in Memory, NEW pc \in Places PROVE Left(m, pc) \in Memory
<1>1. /\ m.kind \in {"manual", "replay", "resume"} /\ m.parent \in Ids \cup {None}
      /\ m.book \in Editions \cup {0} /\ m.asked \in Editions \cup {0} /\ m.files \in SUBSET Inputs
  BY DEF Memory
<1> QED BY <1>1, BlankType DEF Memory, Left

LEMMA EndsType ==
    ASSUME NEW m \in Memory, NEW status \in Terminal \ {"interrupted"}
    PROVE  Ends(m, status) \in Memory
  BY DEF Memory, Ends, Places, Working

LEMMA NoteType == ASSUME NEW m \in Memory, NEW ok \in BOOLEAN PROVE Note(m, ok) \in Memory
  BY DEF Memory, Note, Says

(* Every step keeps what a run remembers within its type. *)
LEMMA MemStep ==
    ASSUME TypeInv, NEW r \in Ids, LocalPart(r), SharedPart(r), RunStep(r)
    PROVE  mem' \in [Ids -> Memory]
<1> USE RunsAssumption DEF At, Live, others, record
<1>0. mem[r] \in Memory
  BY DEF TypeInv
<1>1. CASE Admit(r)
  <2>1. PICK kind \in {"manual", "replay", "resume"}, p \in Ids \cup {None} : Admitted(r, kind, p)
    BY <1>1 DEF Admit
  <2>2. file.book \in Editions
    BY DEF TypeInv
  <2>3. [Blank EXCEPT !.pc = "beginning", !.kind = kind, !.parent = p, !.book = file.book] \in Memory
    BY <2>2, BlankType DEF Memory, Places
  <2> QED BY <2>1, <2>3 DEF Admitted, TypeInv
<1>2. CASE Begin(r)
  <2> DEFINE pc == CASE mem[r].kind = "manual" -> "gather"
                     [] mem[r].kind = "replay" -> "restore"
                     [] mem[r].kind = "resume" -> "sinks"
             todo == {i \in Inputs : mem[r].kind = "replay" /\ kept[mem[r].parent][i] = "blob"}
  <2>1. pc \in Places /\ todo \in SUBSET Inputs
    BY DEF TypeInv, Memory, Places, Working
  <2>2. mem' = [mem EXCEPT ![r].pc = pc, ![r].todo = todo]
    BY <1>2 DEF Begin
  <2> HIDE DEF pc, todo
  <2>3. [mem[r] EXCEPT !.pc = pc, !.todo = todo] \in Memory
    BY <1>0, <2>1 DEF Memory
  <2> QED BY <2>2, <2>3 DEF TypeInv
<1>3. CASE BeginFails(r)
  BY <1>3, LeftType DEF BeginFails, TypeInv, Places, Over
<1>4. CASE Gather(r)
  <2>1. PICK stored, ok, read \in BOOLEAN, files \in SUBSET Inputs :
             mem' = [mem EXCEPT ![r] = Note([mem[r] EXCEPT
               !.pc = "keep", !.files = files, !.todo = files,
               !.status = IF ok THEN @ ELSE "refused",
               !.resolved = IF stored THEN mem[r].book ELSE 0], stored /\ read)]
    BY <1>4 DEF Gather
  <2> DEFINE status == IF ok THEN mem[r].status ELSE "refused"
             resolved == IF stored THEN mem[r].book ELSE 0
  <2>2. status \in Terminal \ {"interrupted"} /\ resolved \in Editions \cup {0}
    BY DEF TypeInv, Memory, Terminal
  <2>3. mem' = [mem EXCEPT ![r] = Note([mem[r] EXCEPT !.pc = "keep", !.files = files, !.todo = files,
                             !.status = status, !.resolved = resolved], stored /\ read)]
    BY <2>1
  <2> HIDE DEF status, resolved
  <2>4. [mem[r] EXCEPT !.pc = "keep", !.files = files, !.todo = files,
                       !.status = status, !.resolved = resolved] \in Memory
    BY <1>0, <2>2 DEF Memory, Places, Working
  <2> QED BY <2>3, <2>4, NoteType DEF TypeInv
<1>5. CASE KeepGathered(r)
  <2>1. mem'[r] \in Memory
    BY <1>5, KeepDoes
  <2>2. \A q \in Ids \ {r} : mem'[q] = mem[q]
    BY Frame
  <2>3. mem' = [q \in Ids |-> mem'[q]]
    BY <1>5 DEF KeepGathered, Keep, TypeInv
  <2> QED BY <2>1, <2>2, <2>3 DEF TypeInv
<1>6. CASE GatherRefused(r)
  BY <1>6, EndsType DEF GatherRefused, TypeInv, Terminal
<1>7. CASE Prompt(r)
  <2>1. file.prompt \in Editions
    BY DEF TypeInv
  <2>2. [mem[r] EXCEPT !.pc = "sinks", !.prompt = file.prompt, !.asked = file.prompt] \in Memory
    BY <1>0, <2>1 DEF Memory, Places, Working
  <2> QED BY <1>7, <2>2 DEF Prompt, TypeInv
<1>8. CASE PromptRefused(r)
  BY <1>8, EndsType DEF PromptRefused, TypeInv, Terminal
<1>9. CASE Restore(r)
  <2>1. mem'[r] \in Memory
    BY <1>9, RestoreDoes
  <2>2. \A q \in Ids \ {r} : mem'[q] = mem[q]
    BY Frame
  <2>3. mem' = [q \in Ids |-> mem'[q]]
    BY <1>9 DEF Restore, TypeInv
  <2> QED BY <2>1, <2>2, <2>3 DEF TypeInv
<1>10. CASE RestoreRefused(r)
  BY <1>10, EndsType DEF RestoreRefused, TypeInv, Terminal
<1>11. CASE Restored(r)
  <2>1. PICK ok, stored \in BOOLEAN :
             mem' = [mem EXCEPT ![r] = Note([mem[r] EXCEPT
               !.pc = "sinks", !.asked = row[mem[r].parent].prompt,
               !.prompt = IF ok THEN row[mem[r].parent].prompt ELSE 0,
               !.resolved = IF stored THEN mem[r].book ELSE 0], ok)]
    BY <1>11 DEF Restored
  <2> DEFINE asked == row[mem[r].parent].prompt
             prompt == IF ok THEN row[mem[r].parent].prompt ELSE 0
             resolved == IF stored THEN mem[r].book ELSE 0
  <2>2. mem[r].parent \in Ids
    BY <1>11 DEF Restored, SharedPart, ParentPart, LocalPart, FreshPart, TypeInv, Memory
  <2>3. {asked, prompt, resolved} \subseteq Editions \cup {0}
    BY <2>2 DEF TypeInv, Memory, Row
  <2>4. mem' = [mem EXCEPT ![r] = Note([mem[r] EXCEPT !.pc = "sinks", !.asked = asked,
                             !.prompt = prompt, !.resolved = resolved], ok)]
    BY <2>1
  <2> HIDE DEF asked, prompt, resolved
  <2>5. [mem[r] EXCEPT !.pc = "sinks", !.asked = asked, !.prompt = prompt, !.resolved = resolved] \in Memory
    BY <1>0, <2>3 DEF Memory, Places, Working
  <2> QED BY <2>4, <2>5, NoteType DEF TypeInv
<1>12. CASE Prepare(r)
  <2>1. [mem[r] EXCEPT !.pc = "fence"] \in Memory
    BY <1>0 DEF Memory, Places, Working, Over
  <2> QED BY <1>12, <2>1 DEF Prepare, TypeInv
<1>13. CASE PrepareRefused(r)
  BY <1>13, EndsType DEF PrepareRefused, TypeInv, Terminal
<1>14. CASE TakeReport(r)
  <2>1. mem[r].parent \in Ids
    BY <1>14 DEF TakeReport, SharedPart, ParentPart, TypeInv, Memory
  <2>2. row[mem[r].parent].report \in Ids \cup {None}
    BY <2>1 DEF TypeInv, Row
  <2>3. \A q \in Ids \cup {None} :
             [mem[r] EXCEPT !.pc = "deliver", !.status = "succeeded", !.report = q] \in Memory
    BY <1>0 DEF Memory, Places, Working, Terminal
  <2>4. PICK ok \in BOOLEAN :
             mem' = [mem EXCEPT ![r] = Note([mem[r] EXCEPT !.pc = "deliver", !.status = "succeeded",
               !.report = IF ok THEN row[mem[r].parent].report ELSE None], ok)]
    BY <1>14 DEF TakeReport
  <2> QED BY <2>2, <2>3, <2>4, NoteType DEF TypeInv
<1>15. CASE FencePasses(r)
  <2>1. [mem[r] EXCEPT !.pc = "agent"] \in Memory
    BY <1>0 DEF Memory, Places, Working, Over
  <2> QED BY <1>15, <2>1 DEF FencePasses, TypeInv
<1>16. CASE FenceFails(r)
  <2>1. Ends(mem[r], "failed") \in Memory
    BY EndsType DEF TypeInv, Terminal
  <2>2. [Ends(mem[r], "failed") EXCEPT !.stopped = TRUE] \in Memory
    BY <2>1 DEF Memory
  <2> QED BY <1>16, <2>2 DEF FenceFails, TypeInv
<1>17. CASE AgentEnds(r)
  <2>1. \A status \in {"failed", "refused", "timed_out"} : Ends(mem[r], status) \in Memory
    BY EndsType DEF TypeInv, Terminal
  <2> QED BY <1>17, <2>1, NoteType DEF AgentEnds, TypeInv
<1>18. CASE ReportRefused(r)
  <2>1. [mem[r] EXCEPT !.pc = "deliver", !.status = "failed"] \in Memory
    BY <1>0 DEF Memory, Places, Working, Terminal
  <2> QED BY <1>18, <2>1, NoteType DEF ReportRefused, TypeInv
<1>19. CASE Report(r)
  <2>1. \A q \in Ids \cup {None} :
             [mem[r] EXCEPT !.pc = "deliver", !.status = "succeeded", !.report = q] \in Memory
    BY <1>0 DEF Memory, Places, Working, Terminal
  <2>2. PICK ok, stored \in BOOLEAN :
             mem' = [mem EXCEPT ![r] = Note([mem[r] EXCEPT !.pc = "deliver", !.status = "succeeded",
               !.report = IF stored THEN r ELSE None], ok /\ stored)]
    BY <1>19 DEF Report
  <2> QED BY <2>1, <2>2, NoteType DEF TypeInv
<1>20. CASE Deliver(r)
  <2>1. PICK how \in {"delivered", "failed"} :
             mem' = [mem EXCEPT ![r].sent[mem[r].sink] = how, ![r].sink = @ + 1]
    BY <1>20 DEF Deliver
  <2> DEFINE sent == [mem[r].sent EXCEPT ![mem[r].sink] = how]
             sink == mem[r].sink + 1
  <2>2. sink \in 1..(Sinks + 1) /\ sent \in [1..Sinks -> {"no", "delivered", "failed"}]
    BY <1>20 DEF Deliver, TypeInv, Memory
  <2>3. mem' = [mem EXCEPT ![r] = [mem[r] EXCEPT !.sent = sent, !.sink = sink]]
    BY <2>1 DEF TypeInv, Memory
  <2> HIDE DEF sent, sink
  <2>4. [mem[r] EXCEPT !.sent = sent, !.sink = sink] \in Memory
    BY <1>0, <2>2 DEF Memory
  <2> QED BY <2>3, <2>4 DEF TypeInv
<1>21. CASE GateRefuses(r)
  <2>1. [mem[r] EXCEPT !.stopped = TRUE, !.pc = "note", !.todo = {}, !.sink = 1] \in Memory
    BY <1>0, 1 \in 1..(Sinks + 1) DEF Memory, Places, Working, Over
  <2> QED BY <1>21, <2>1 DEF GateRefuses, TypeInv
<1>22. CASE Delivered(r)
  <2>1. [mem[r] EXCEPT !.pc = "note", !.sink = 1] \in Memory
    BY <1>0, 1 \in 1..(Sinks + 1) DEF Memory, Places, Working, Over
  <2> QED BY <1>22, <2>1 DEF Delivered, TypeInv
<1>23. CASE NoteSink(r)
  <2> DEFINE n == mem[r].sink
             failed == mem[r].sent[n] = "failed" /\ mem[r].status = "succeeded"
             status == IF failed THEN "failed" ELSE mem[r].status
             says == IF failed THEN mem[r].says \cup {"resumable"} ELSE mem[r].says
  <2>1. PICK ok \in BOOLEAN :
             mem' = [mem EXCEPT ![r] = Note([mem[r] EXCEPT !.sink = n + 1, !.status = status,
             !.says = says], ok)]
    BY <1>23 DEF NoteSink
  <2>2. n + 1 \in 1..(Sinks + 1) /\ status \in Terminal \ {"interrupted"} /\ says \in SUBSET Says
    BY <1>23 DEF NoteSink, TypeInv, Memory, Terminal, Says
  <2> HIDE DEF n, status, says
  <2>3. [mem[r] EXCEPT !.sink = n + 1, !.status = status, !.says = says] \in Memory
    BY <1>0, <2>2 DEF Memory
  <2> QED BY <2>1, <2>3, NoteType DEF TypeInv
<1>24. CASE NotedAll(r)
  <2>1. [mem[r] EXCEPT !.pc = "finishing"] \in Memory
    BY <1>0 DEF Memory, Places, Working, Over
  <2> QED BY <1>24, <2>1 DEF NotedAll, TypeInv
<1>25. CASE FinishRun(r)
  BY <1>25, LeftType DEF FinishRun, TypeInv, Places, Over
<1>26. CASE RemoveDir(r)
  <2>1. [mem[r] EXCEPT !.pc = "releasing"] \in Memory
    BY <1>0 DEF Memory, Places, Working, Over
  <2> QED BY <1>26, <2>1 DEF RemoveDir, TypeInv
<1>27. CASE Release(r)
  BY <1>27, LeftType DEF Release, TypeInv, Places, Over
<1>28. CASE Signal(r)
  <2>1. [mem[r] EXCEPT !.cancelled = TRUE] \in Memory
    BY <1>0 DEF Memory, Places, Working, Over
  <2> QED BY <1>28, <2>1 DEF Signal, TypeInv
<1>29. CASE ClaimLost(r)
  <2>1. [mem[r] EXCEPT !.stopped = TRUE] \in Memory
    BY <1>0 DEF Memory, Places, Working, Over
  <2> QED BY <1>29, <2>1 DEF ClaimLost, TypeInv
<1>30. CASE Die(r)
  BY <1>30, LeftType DEF Die, TypeInv, Places, Over
<1> QED
  BY <1>1, <1>2, <1>3, <1>4, <1>5, <1>6, <1>7, <1>8, <1>9, <1>10, <1>11, <1>12, <1>13, <1>14, <1>15,
     <1>16, <1>17, <1>18, <1>19, <1>20, <1>21, <1>22, <1>23, <1>24, <1>25, <1>26, <1>27, <1>28,
        <1>29, <1>30 DEF RunStep, Step

(* Every step keeps the types of what is recorded. *)
LEMMA RecordStep ==
    ASSUME TypeInv, NEW r \in Ids, RunStep(r)
    PROVE  /\ row' \in [Ids -> Row] /\ kept' \in [Ids -> [Inputs -> {"no", "row", "blob"}]]
           /\ noted' \in [Ids -> [1..Sinks -> {"no", "delivered", "failed"}]]
           /\ dirs' \subseteq Ids /\ file' = file
<1> USE RunsAssumption DEF At, Live, others, record
<1>1. CASE Begin(r)
  <2>1. row[r] \in Row
    BY DEF TypeInv
  <2>2. [row[r] EXCEPT !.status = "running"] \in Row
    BY <2>1 DEF Row
  <2> QED BY <1>1, <2>2 DEF Begin, TypeInv
<1>2. CASE KeepGathered(r)
  <2>1. PICK i \in Inputs, as \in {"no", "row", "blob"} : kept' = [kept EXCEPT ![r][i] = as]
    BY <1>2 DEF KeepGathered, Keep
  <2> QED BY <1>2, <2>1 DEF KeepGathered, Keep, TypeInv
<1>3. CASE Restore(r)
  <2>1. PICK i \in mem[r].todo, ok \in BOOLEAN : kept' = [kept EXCEPT ![r][i] = IF ok THEN "blob" ELSE "no"]
    BY <1>3 DEF Restore
  <2>2. i \in Inputs
    BY DEF TypeInv, Memory
  <2> QED BY <1>3, <2>1, <2>2 DEF Restore, TypeInv
<1>4. CASE NoteSink(r)
  <2>1. PICK ok \in BOOLEAN :
             noted' = [noted EXCEPT ![r][mem[r].sink] = IF ok THEN mem[r].sent[mem[r].sink] ELSE "no"]
    BY <1>4 DEF NoteSink
  <2>2. mem[r].sink \in 1..Sinks /\ mem[r].sent[mem[r].sink] \in {"no", "delivered", "failed"}
    BY <1>4 DEF NoteSink, TypeInv, Memory
  <2> QED BY <1>4, <2>1, <2>2 DEF NoteSink, TypeInv
<1>5. CASE FinishRun(r)
  <2>1. FinalStatus(mem[r]) \in Terminal
    BY DEF FinalStatus, Finished, TypeInv, Memory, Terminal
  <2>2. mem[r] \in Memory
    BY DEF TypeInv
  <2>3. [status |-> FinalStatus(mem[r]), says |-> mem[r].says, prompt |-> mem[r].prompt,
         resolved |-> mem[r].resolved, report |-> mem[r].report] \in Row
    BY <2>1, <2>2 DEF Memory, Row
  <2> QED BY <1>5, <2>3, ZenonT(60) DEF FinishRun, TypeInv
<1> USE DEF TypeInv
<1>6. CASE Admit(r)
  BY <1>6 DEF Admit, Admitted, SameAsRecorded
<1>7. CASE BeginFails(r)
  BY <1>7 DEF BeginFails, Left
<1>8. CASE Gather(r)
  BY <1>8 DEF Gather, Note
<1>9. CASE GatherRefused(r)
  BY <1>9 DEF GatherRefused, Ends
<1>10. CASE Prompt(r)
  BY <1>10 DEF Prompt
<1>11. CASE PromptRefused(r)
  BY <1>11 DEF PromptRefused, Ends
<1>12. CASE RestoreRefused(r)
  BY <1>12 DEF RestoreRefused, Ends
<1>13. CASE Restored(r)
  BY <1>13 DEF Restored, Note
<1>14. CASE Prepare(r)
  BY <1>14 DEF Prepare
<1>15. CASE PrepareRefused(r)
  BY <1>15 DEF PrepareRefused, Ends
<1>16. CASE TakeReport(r)
  BY <1>16 DEF TakeReport, Note
<1>17. CASE FencePasses(r)
  BY <1>17 DEF FencePasses
<1>18. CASE FenceFails(r)
  BY <1>18 DEF FenceFails, Ends
<1>19. CASE AgentEnds(r)
  BY <1>19 DEF AgentEnds, Note, Ends
<1>20. CASE ReportRefused(r)
  BY <1>20 DEF ReportRefused, Note
<1>21. CASE Report(r)
  BY <1>21 DEF Report, Note
<1>22. CASE Deliver(r)
  BY <1>22 DEF Deliver
<1>23. CASE GateRefuses(r)
  BY <1>23 DEF GateRefuses
<1>24. CASE Delivered(r)
  BY <1>24 DEF Delivered
<1>25. CASE NotedAll(r)
  BY <1>25 DEF NotedAll
<1>26. CASE RemoveDir(r)
  BY <1>26 DEF RemoveDir
<1>27. CASE Release(r)
  BY <1>27 DEF Release, Left
<1>28. CASE Signal(r)
  BY <1>28 DEF Signal, InHand
<1>29. CASE ClaimLost(r)
  BY <1>29 DEF ClaimLost, InHand
<1>30. CASE Die(r)
  BY <1>30 DEF Die, Left
<1> QED
  BY <1>1, <1>2, <1>3, <1>4, <1>5, <1>6, <1>7, <1>8, <1>9, <1>10, <1>11, <1>12, <1>13, <1>14, <1>15,
     <1>16, <1>17, <1>18, <1>19, <1>20, <1>21, <1>22, <1>23, <1>24, <1>25, <1>26, <1>27, <1>28,
        <1>29, <1>30 DEF RunStep, Step

(* Every step keeps the claim with the run that is alive. *)
LEMMA ClaimStep ==
    ASSUME TypeInv, NEW r \in Ids, RunStep(r)
    PROVE  claim' \in Ids \cup {None} /\ \A q \in Ids : Live(q)' <=> claim' = q
<1> USE RunsAssumption DEF At, Live, others, record
<1>1. CASE Begin(r)
  <2>1. mem'[r].pc \in {"gather", "restore", "sinks"} /\ claim' = claim
    BY <1>1 DEF Begin, TypeInv, Memory
  <2>2. mem[r].pc = "beginning"
    BY <1>1 DEF Begin
  <2> QED BY <2>1, <2>2, Frame DEF TypeInv
<1>2. CASE KeepGathered(r)
  <2>1. mem'[r].pc = mem[r].pc /\ claim' = claim
    BY <1>2, KeepDoes DEF Alike
  <2> QED BY <2>1, Frame DEF TypeInv
<1>3. CASE Restore(r)
  <2>1. mem'[r].pc = mem[r].pc /\ claim' = claim
    BY <1>3, RestoreDoes DEF Alike
  <2> QED BY <2>1, Frame DEF TypeInv
<1> USE DEF TypeInv, Memory, Blank
<1>4. CASE Admit(r)
  BY <1>4 DEF Admit, Admitted, SameAsRecorded
<1>5. CASE BeginFails(r)
  BY <1>5 DEF BeginFails, Left
<1>6. CASE Gather(r)
  BY <1>6 DEF Gather, Note
<1>7. CASE GatherRefused(r)
  BY <1>7 DEF GatherRefused, Ends
<1>8. CASE Prompt(r)
  BY <1>8 DEF Prompt
<1>9. CASE PromptRefused(r)
  BY <1>9 DEF PromptRefused, Ends
<1>10. CASE RestoreRefused(r)
  BY <1>10 DEF RestoreRefused, Ends
<1>11. CASE Restored(r)
  BY <1>11 DEF Restored, Note
<1>12. CASE Prepare(r)
  BY <1>12 DEF Prepare
<1>13. CASE PrepareRefused(r)
  BY <1>13 DEF PrepareRefused, Ends
<1>14. CASE TakeReport(r)
  BY <1>14 DEF TakeReport, Note
<1>15. CASE FencePasses(r)
  BY <1>15 DEF FencePasses
<1>16. CASE FenceFails(r)
  BY <1>16 DEF FenceFails, Ends
<1>17. CASE AgentEnds(r)
  BY <1>17 DEF AgentEnds, Note, Ends
<1>18. CASE ReportRefused(r)
  BY <1>18 DEF ReportRefused, Note
<1>19. CASE Report(r)
  BY <1>19 DEF Report, Note
<1>20. CASE Deliver(r)
  BY <1>20 DEF Deliver
<1>21. CASE GateRefuses(r)
  BY <1>21 DEF GateRefuses
<1>22. CASE Delivered(r)
  BY <1>22 DEF Delivered
<1>23. CASE NoteSink(r)
  BY <1>23 DEF NoteSink, Note
<1>24. CASE NotedAll(r)
  BY <1>24 DEF NotedAll
<1>25. CASE FinishRun(r)
  BY <1>25 DEF FinishRun, Left, FinalStatus, Finished
<1>26. CASE RemoveDir(r)
  BY <1>26 DEF RemoveDir
<1>27. CASE Release(r)
  BY <1>27 DEF Release, Left
<1>28. CASE Signal(r)
  BY <1>28 DEF Signal, InHand
<1>29. CASE ClaimLost(r)
  BY <1>29 DEF ClaimLost, InHand
<1>30. CASE Die(r)
  BY <1>30 DEF Die, Left
<1> QED
  BY <1>1, <1>2, <1>3, <1>4, <1>5, <1>6, <1>7, <1>8, <1>9, <1>10, <1>11, <1>12, <1>13, <1>14, <1>15,
     <1>16, <1>17, <1>18, <1>19, <1>20, <1>21, <1>22, <1>23, <1>24, <1>25, <1>26, <1>27, <1>28,
        <1>29, <1>30 DEF RunStep, Step

(* A step keeps the row of its run empty until its Finish. *)
LEMMA RowStep ==
    ASSUME TypeInv, NEW r \in Ids, LocalPart(r), SharedPart(r), RunStep(r)
    PROVE  RowPart(r)'
<1> USE RunsAssumption DEF LocalPart, At, Live, others, record
<1> USE DEF TypeInv, RowPart, Settled, NoRow, Memory, Row, Editions, Terminal, Working, Over,
   Places, Says, Blank
<1>1. CASE Admit(r)
  BY <1>1 DEF Admit, Admitted, SameAsRecorded
<1>2. CASE Begin(r)
  BY <1>2 DEF Begin
<1>3. CASE BeginFails(r)
  BY <1>3 DEF BeginFails, Left
<1>4. CASE Gather(r)
  BY <1>4 DEF Gather, Note
<1>5. CASE KeepGathered(r)
  BY <1>5 DEF KeepGathered, Keep, Note
<1>6. CASE GatherRefused(r)
  BY <1>6 DEF GatherRefused, Ends
<1>7. CASE Prompt(r)
  BY <1>7 DEF Prompt
<1>8. CASE PromptRefused(r)
  BY <1>8 DEF PromptRefused, Ends
<1>9. CASE Restore(r)
  BY <1>9 DEF Restore, Note
<1>10. CASE RestoreRefused(r)
  BY <1>10 DEF RestoreRefused, Ends
<1>11. CASE Restored(r)
  BY <1>11 DEF Restored, Note
<1>12. CASE Prepare(r)
  BY <1>12 DEF Prepare
<1>13. CASE PrepareRefused(r)
  BY <1>13 DEF PrepareRefused, Ends
<1>14. CASE TakeReport(r)
  BY <1>14 DEF TakeReport, Note
<1>15. CASE FencePasses(r)
  BY <1>15 DEF FencePasses
<1>16. CASE FenceFails(r)
  BY <1>16 DEF FenceFails, Ends
<1>17. CASE AgentEnds(r)
  BY <1>17 DEF AgentEnds, Note, Ends
<1>18. CASE ReportRefused(r)
  BY <1>18 DEF ReportRefused, Note
<1>19. CASE Report(r)
  BY <1>19 DEF Report, Note
<1>20. CASE Deliver(r)
  BY <1>20 DEF Deliver
<1>21. CASE GateRefuses(r)
  BY <1>21 DEF GateRefuses
<1>22. CASE Delivered(r)
  BY <1>22 DEF Delivered
<1>23. CASE NoteSink(r)
  BY <1>23 DEF NoteSink, Note
<1>24. CASE NotedAll(r)
  BY <1>24 DEF NotedAll
<1>25. CASE FinishRun(r)
  BY <1>25 DEF FinishRun, Left, FinalStatus, Finished
<1>26. CASE RemoveDir(r)
  BY <1>26 DEF RemoveDir
<1>27. CASE Release(r)
  BY <1>27 DEF Release, Left
<1>28. CASE Signal(r)
  BY <1>28 DEF Signal, InHand
<1>29. CASE ClaimLost(r)
  BY <1>29 DEF ClaimLost, InHand
<1>30. CASE Die(r)
  BY <1>30 DEF Die, Left
<1> QED
  BY <1>1, <1>2, <1>3, <1>4, <1>5, <1>6, <1>7, <1>8, <1>9, <1>10, <1>11, <1>12, <1>13, <1>14, <1>15,
     <1>16, <1>17, <1>18, <1>19, <1>20, <1>21, <1>22, <1>23, <1>24, <1>25, <1>26, <1>27, <1>28,
        <1>29, <1>30 DEF RunStep, Step

(* A step keeps what its run has not read. *)
LEMMA FreshStep ==
    ASSUME TypeInv, NEW r \in Ids, LocalPart(r), SharedPart(r), RunStep(r)
    PROVE  FreshPart(r)'
<1> USE RunsAssumption DEF LocalPart, At, Live, others, record
<1>1. CASE KeepGathered(r)
  BY <1>1, KeepDoes DEF Alike, TypeInv, FreshPart, Settled, NoRow, Memory, Row, Editions, Terminal,
     Working, Over, Places, Says, Blank
<1>2. CASE Restore(r)
  BY <1>2, RestoreDoes DEF Alike, TypeInv, FreshPart, Settled, NoRow, Memory, Row, Editions,
     Terminal, Working, Over, Places, Says, Blank
<1> USE DEF TypeInv, FreshPart, Settled, NoRow, Memory, Row, Editions, Terminal, Working, Over,
   Places, Says, Blank
<1>3. CASE Admit(r)
  BY <1>3 DEF Admit, Admitted, SameAsRecorded
<1>4. CASE Begin(r)
  BY <1>4 DEF Begin
<1>5. CASE BeginFails(r)
  BY <1>5 DEF BeginFails, Left
<1>6. CASE Gather(r)
  BY <1>6 DEF Gather, Note
<1>7. CASE GatherRefused(r)
  BY <1>7 DEF GatherRefused, Ends
<1>8. CASE Prompt(r)
  BY <1>8 DEF Prompt
<1>9. CASE PromptRefused(r)
  BY <1>9 DEF PromptRefused, Ends
<1>10. CASE RestoreRefused(r)
  BY <1>10 DEF RestoreRefused, Ends
<1>11. CASE Restored(r)
  BY <1>11 DEF Restored, Note
<1>12. CASE Prepare(r)
  BY <1>12 DEF Prepare
<1>13. CASE PrepareRefused(r)
  BY <1>13 DEF PrepareRefused, Ends
<1>14. CASE TakeReport(r)
  BY <1>14 DEF TakeReport, Note
<1>15. CASE FencePasses(r)
  BY <1>15 DEF FencePasses
<1>16. CASE FenceFails(r)
  BY <1>16 DEF FenceFails, Ends
<1>17. CASE AgentEnds(r)
  BY <1>17 DEF AgentEnds, Note, Ends
<1>18. CASE ReportRefused(r)
  BY <1>18 DEF ReportRefused, Note
<1>19. CASE Report(r)
  BY <1>19 DEF Report, Note
<1>20. CASE Deliver(r)
  BY <1>20 DEF Deliver
<1>21. CASE GateRefuses(r)
  BY <1>21 DEF GateRefuses
<1>22. CASE Delivered(r)
  BY <1>22 DEF Delivered
<1>23. CASE NoteSink(r)
  BY <1>23 DEF NoteSink, Note
<1>24. CASE NotedAll(r)
  BY <1>24 DEF NotedAll
<1>25. CASE FinishRun(r)
  BY <1>25 DEF FinishRun, Left, FinalStatus, Finished
<1>26. CASE RemoveDir(r)
  BY <1>26 DEF RemoveDir
<1>27. CASE Release(r)
  BY <1>27 DEF Release, Left
<1>28. CASE Signal(r)
  BY <1>28 DEF Signal, InHand
<1>29. CASE ClaimLost(r)
  BY <1>29 DEF ClaimLost, InHand
<1>30. CASE Die(r)
  BY <1>30 DEF Die, Left
<1> QED
  BY <1>1, <1>2, <1>3, <1>4, <1>5, <1>6, <1>7, <1>8, <1>9, <1>10, <1>11, <1>12, <1>13, <1>14, <1>15,
     <1>16, <1>17, <1>18, <1>19, <1>20, <1>21, <1>22, <1>23, <1>24, <1>25, <1>26, <1>27, <1>28,
        <1>29, <1>30 DEF RunStep, Step

(* A step keeps what its run read in the record. *)
LEMMA KeptStep ==
    ASSUME TypeInv, NEW r \in Ids, LocalPart(r), SharedPart(r), RunStep(r)
    PROVE  KeptPart(r)'
<1> USE RunsAssumption DEF LocalPart, At, Live, others, record
<1>1. CASE KeepGathered(r)
  <2>1. PICK i \in mem[r].todo, as \in {"no", "row", "blob"} :
             /\ kept' = [kept EXCEPT ![r][i] = as]
             /\ mem'[r].todo = mem[r].todo \ {i} /\ mem'[r].files = mem[r].files
             /\ mem'[r].says = mem[r].says \cup (IF as = "blob" THEN {} ELSE {"incomplete"})
    BY <1>1, KeepDoes, Zenon
  <2>2. mem[r].pc = "keep" /\ mem'[r].pc = "keep" /\ row' = row
    BY <1>1, KeepDoes DEF Alike
  <2>3. mem[r].todo \subseteq mem[r].files /\ mem[r].files \subseteq Inputs
    BY <2>2 DEF KeptPart, TypeInv, Memory
  <2>4. i \in Inputs /\ kept'[r] = [kept[r] EXCEPT ![i] = as]
    BY <2>1, <2>3 DEF TypeInv
  <2>5. ~Settled(r) /\ ~Settled(r)'
    BY <2>2 DEF RowPart, Settled, Working, Terminal
  <2>6. \A j \in Inputs : kept'[r][j] = IF j = i THEN as ELSE kept[r][j]
    BY <2>4 DEF TypeInv
  <2>7. \A j \in Inputs : kept'[r][j] = "blob" => j \in mem'[r].files
    BY <2>1, <2>3, <2>6 DEF KeptPart
  <2>8. "incomplete" \in mem'[r].says \/ \A j \in mem'[r].files : kept'[r][j] = "blob" \/ j \in mem'[r].todo
    <3>1. CASE as = "blob" /\ "incomplete" \notin mem[r].says
      BY <2>1, <2>2, <2>3, <2>6, <3>1 DEF KeptPart, Over
    <3>2. CASE as # "blob" \/ "incomplete" \in mem[r].says
      BY <2>1, <3>2
    <3> QED BY <3>1, <3>2
  <2> QED BY <2>1, <2>2, <2>3, <2>5, <2>7, <2>8 DEF KeptPart
<1>2. CASE Restore(r)
  <2>1. PICK i \in mem[r].todo, ok \in BOOLEAN :
             /\ kept' = [kept EXCEPT ![r][i] = IF ok THEN "blob" ELSE "no"]
             /\ mem'[r].todo = mem[r].todo \ {i} /\ mem'[r].files = mem[r].files \cup {i}
             /\ mem'[r].says = mem[r].says \cup (IF ok THEN {} ELSE {"incomplete"})
    BY <1>2, RestoreDoes, Zenon
  <2>2. mem[r].pc = "restore" /\ mem'[r].pc = "restore" /\ row' = row
    BY <1>2, RestoreDoes DEF Alike
  <2>3. mem[r].todo \subseteq Inputs /\ mem[r].files \subseteq Inputs
    BY DEF TypeInv, Memory
  <2>4. i \in Inputs /\ kept'[r] = [kept[r] EXCEPT ![i] = IF ok THEN "blob" ELSE "no"]
    BY <2>1, <2>3 DEF TypeInv
  <2>5. ~Settled(r) /\ ~Settled(r)'
    BY <2>2 DEF RowPart, Settled, Working, Terminal
  <2>6. \A j \in Inputs : kept'[r][j] = IF j = i THEN IF ok THEN "blob" ELSE "no" ELSE kept[r][j]
    BY <2>4 DEF TypeInv
  <2>7. \A j \in Inputs : kept'[r][j] = "blob" => j \in mem'[r].files
    BY <2>1, <2>6 DEF KeptPart
  <2>8. "incomplete" \in mem'[r].says \/ \A j \in mem'[r].files : kept'[r][j] = "blob"
    <3>1. CASE ok /\ "incomplete" \notin mem[r].says
      BY <2>1, <2>2, <2>3, <2>4, <2>6, <3>1 DEF KeptPart, Over
    <3>2. CASE ~ok \/ "incomplete" \in mem[r].says
      BY <2>1, <3>2
    <3> QED BY <3>1, <3>2
  <2> QED BY <2>2, <2>5, <2>7, <2>8 DEF KeptPart
<1> USE DEF TypeInv, KeptPart, Settled, NoRow, Memory, Row, Editions, Terminal, Working, Over,
   Places, Says, Blank, RowPart, FreshPart
<1>3. CASE Admit(r)
  BY <1>3 DEF Admit, Admitted, SameAsRecorded
<1>4. CASE Begin(r)
  BY <1>4 DEF Begin
<1>5. CASE BeginFails(r)
  BY <1>5 DEF BeginFails, Left
<1>6. CASE Gather(r)
  BY <1>6 DEF Gather, Note
<1>7. CASE GatherRefused(r)
  BY <1>7 DEF GatherRefused, Ends
<1>8. CASE Prompt(r)
  BY <1>8 DEF Prompt
<1>9. CASE PromptRefused(r)
  BY <1>9 DEF PromptRefused, Ends
<1>10. CASE RestoreRefused(r)
  BY <1>10 DEF RestoreRefused, Ends
<1>11. CASE Restored(r)
  BY <1>11 DEF Restored, Note
<1>12. CASE Prepare(r)
  BY <1>12 DEF Prepare
<1>13. CASE PrepareRefused(r)
  BY <1>13 DEF PrepareRefused, Ends
<1>14. CASE TakeReport(r)
  BY <1>14 DEF TakeReport, Note
<1>15. CASE FencePasses(r)
  BY <1>15 DEF FencePasses
<1>16. CASE FenceFails(r)
  BY <1>16 DEF FenceFails, Ends
<1>17. CASE AgentEnds(r)
  BY <1>17 DEF AgentEnds, Note, Ends
<1>18. CASE ReportRefused(r)
  BY <1>18 DEF ReportRefused, Note
<1>19. CASE Report(r)
  BY <1>19 DEF Report, Note
<1>20. CASE Deliver(r)
  BY <1>20 DEF Deliver
<1>21. CASE GateRefuses(r)
  BY <1>21 DEF GateRefuses
<1>22. CASE Delivered(r)
  BY <1>22 DEF Delivered
<1>23. CASE NoteSink(r)
  BY <1>23 DEF NoteSink, Note
<1>24. CASE NotedAll(r)
  BY <1>24 DEF NotedAll
<1>25. CASE FinishRun(r)
  BY <1>25 DEF FinishRun, Left, FinalStatus, Finished
<1>26. CASE RemoveDir(r)
  BY <1>26 DEF RemoveDir
<1>27. CASE Release(r)
  BY <1>27 DEF Release, Left
<1>28. CASE Signal(r)
  BY <1>28 DEF Signal, InHand
<1>29. CASE ClaimLost(r)
  BY <1>29 DEF ClaimLost, InHand
<1>30. CASE Die(r)
  BY <1>30 DEF Die, Left
<1> QED
  BY <1>1, <1>2, <1>3, <1>4, <1>5, <1>6, <1>7, <1>8, <1>9, <1>10, <1>11, <1>12, <1>13, <1>14, <1>15,
     <1>16, <1>17, <1>18, <1>19, <1>20, <1>21, <1>22, <1>23, <1>24, <1>25, <1>26, <1>27, <1>28,
        <1>29, <1>30 DEF RunStep, Step

(* A step keeps what its run asked in the record. *)
LEMMA AskedStep ==
    ASSUME TypeInv, NEW r \in Ids, LocalPart(r), SharedPart(r), RunStep(r)
    PROVE  AskedPart(r)'
<1> USE RunsAssumption DEF LocalPart, At, Live, others, record
<1>1. CASE KeepGathered(r)
  <2>1. mem[r].says \subseteq mem'[r].says /\ Alike(mem'[r], mem[r]) /\ row' = row
    BY <1>1, KeepDoes
  <2> QED BY <2>1 DEF AskedPart, Alike
<1>2. CASE Restore(r)
  <2>1. mem[r].says \subseteq mem'[r].says /\ Alike(mem'[r], mem[r]) /\ row' = row
    BY <1>2, RestoreDoes
  <2> QED BY <2>1 DEF AskedPart, Alike
<1> USE DEF TypeInv, AskedPart, Settled, NoRow, Memory, Row, Editions, Terminal, Working, Over,
   Places, Says, Blank, RowPart, FreshPart
<1>3. CASE Admit(r)
  BY <1>3 DEF Admit, Admitted, SameAsRecorded
<1>4. CASE Begin(r)
  BY <1>4 DEF Begin
<1>5. CASE BeginFails(r)
  BY <1>5 DEF BeginFails, Left
<1>6. CASE Gather(r)
  BY <1>6 DEF Gather, Note
<1>7. CASE GatherRefused(r)
  BY <1>7 DEF GatherRefused, Ends
<1>8. CASE Prompt(r)
  BY <1>8 DEF Prompt
<1>9. CASE PromptRefused(r)
  BY <1>9 DEF PromptRefused, Ends
<1>10. CASE RestoreRefused(r)
  BY <1>10 DEF RestoreRefused, Ends
<1>11. CASE Restored(r)
  BY <1>11 DEF Restored, Note
<1>12. CASE Prepare(r)
  BY <1>12 DEF Prepare
<1>13. CASE PrepareRefused(r)
  BY <1>13 DEF PrepareRefused, Ends
<1>14. CASE TakeReport(r)
  BY <1>14 DEF TakeReport, Note
<1>15. CASE FencePasses(r)
  BY <1>15 DEF FencePasses
<1>16. CASE FenceFails(r)
  BY <1>16 DEF FenceFails, Ends
<1>17. CASE AgentEnds(r)
  BY <1>17 DEF AgentEnds, Note, Ends
<1>18. CASE ReportRefused(r)
  BY <1>18 DEF ReportRefused, Note
<1>19. CASE Report(r)
  BY <1>19 DEF Report, Note
<1>20. CASE Deliver(r)
  BY <1>20 DEF Deliver
<1>21. CASE GateRefuses(r)
  BY <1>21 DEF GateRefuses
<1>22. CASE Delivered(r)
  BY <1>22 DEF Delivered
<1>23. CASE NoteSink(r)
  BY <1>23 DEF NoteSink, Note
<1>24. CASE NotedAll(r)
  BY <1>24 DEF NotedAll
<1>25. CASE FinishRun(r)
  BY <1>25 DEF FinishRun, Left, FinalStatus, Finished
<1>26. CASE RemoveDir(r)
  BY <1>26 DEF RemoveDir
<1>27. CASE Release(r)
  BY <1>27 DEF Release, Left
<1>28. CASE Signal(r)
  BY <1>28 DEF Signal, InHand
<1>29. CASE ClaimLost(r)
  BY <1>29 DEF ClaimLost, InHand
<1>30. CASE Die(r)
  BY <1>30 DEF Die, Left
<1> QED
  BY <1>1, <1>2, <1>3, <1>4, <1>5, <1>6, <1>7, <1>8, <1>9, <1>10, <1>11, <1>12, <1>13, <1>14, <1>15,
     <1>16, <1>17, <1>18, <1>19, <1>20, <1>21, <1>22, <1>23, <1>24, <1>25, <1>26, <1>27, <1>28,
        <1>29, <1>30 DEF RunStep, Step

(* A step keeps what its run delivered in the record. *)
LEMMA SinkStep ==
    ASSUME TypeInv, NEW r \in Ids, LocalPart(r), SharedPart(r), RunStep(r)
    PROVE  SinkPart(r)'
<1> USE RunsAssumption DEF LocalPart, At, Live, others, record
<1>1. CASE KeepGathered(r)
  BY <1>1, KeepDoes DEF Alike, TypeInv, SinkPart, Settled, NoRow, Memory, Row, Editions, Terminal,
     Working, Over, Places, Says, Blank, SharedPart, ParentPart
<1>2. CASE Restore(r)
  BY <1>2, RestoreDoes DEF Alike, TypeInv, SinkPart, Settled, NoRow, Memory, Row, Editions,
     Terminal, Working, Over, Places, Says, Blank, SharedPart, ParentPart
<1> USE DEF TypeInv, SinkPart, Settled, NoRow, Memory, Row, Editions, Terminal, Working, Over,
   Places, Says, Blank, SharedPart, ParentPart
<1>3. CASE Admit(r)
  BY <1>3 DEF Admit, Admitted, SameAsRecorded
<1>4. CASE Begin(r)
  BY <1>4 DEF Begin
<1>5. CASE BeginFails(r)
  BY <1>5 DEF BeginFails, Left
<1>6. CASE Gather(r)
  BY <1>6 DEF Gather, Note
<1>7. CASE GatherRefused(r)
  BY <1>7 DEF GatherRefused, Ends
<1>8. CASE Prompt(r)
  BY <1>8 DEF Prompt
<1>9. CASE PromptRefused(r)
  BY <1>9 DEF PromptRefused, Ends
<1>10. CASE RestoreRefused(r)
  BY <1>10 DEF RestoreRefused, Ends
<1>11. CASE Restored(r)
  BY <1>11 DEF Restored, Note
<1>12. CASE Prepare(r)
  BY <1>12 DEF Prepare
<1>13. CASE PrepareRefused(r)
  BY <1>13 DEF PrepareRefused, Ends
<1>14. CASE TakeReport(r)
  BY <1>14 DEF TakeReport, Note
<1>15. CASE FencePasses(r)
  BY <1>15 DEF FencePasses
<1>16. CASE FenceFails(r)
  BY <1>16 DEF FenceFails, Ends
<1>17. CASE AgentEnds(r)
  BY <1>17 DEF AgentEnds, Note, Ends
<1>18. CASE ReportRefused(r)
  BY <1>18 DEF ReportRefused, Note
<1>19. CASE Report(r)
  BY <1>19 DEF Report, Note
<1>20. CASE Deliver(r)
  BY <1>20 DEF Deliver
<1>21. CASE GateRefuses(r)
  BY <1>21 DEF GateRefuses
<1>22. CASE Delivered(r)
  BY <1>22 DEF Delivered
<1>23. CASE NoteSink(r)
  BY <1>23 DEF NoteSink, Note
<1>24. CASE NotedAll(r)
  BY <1>24 DEF NotedAll
<1>25. CASE FinishRun(r)
  BY <1>25 DEF FinishRun, Left, FinalStatus, Finished
<1>26. CASE RemoveDir(r)
  BY <1>26 DEF RemoveDir
<1>27. CASE Release(r)
  BY <1>27 DEF Release, Left
<1>28. CASE Signal(r)
  BY <1>28 DEF Signal, InHand
<1>29. CASE ClaimLost(r)
  BY <1>29 DEF ClaimLost, InHand
<1>30. CASE Die(r)
  BY <1>30 DEF Die, Left
<1> QED
  BY <1>1, <1>2, <1>3, <1>4, <1>5, <1>6, <1>7, <1>8, <1>9, <1>10, <1>11, <1>12, <1>13, <1>14, <1>15,
     <1>16, <1>17, <1>18, <1>19, <1>20, <1>21, <1>22, <1>23, <1>24, <1>25, <1>26, <1>27, <1>28,
        <1>29, <1>30 DEF RunStep, Step

(* A step keeps a run called succeeded whole. *)
LEMMA WholeStep ==
    ASSUME TypeInv, NEW r \in Ids, LocalPart(r), SharedPart(r), RunStep(r)
    PROVE  WholePart(r)'
<1> USE RunsAssumption DEF LocalPart, At, Live, others, record
<1>1. CASE KeepGathered(r)
  BY <1>1, KeepDoes DEF Alike, TypeInv, WholePart, Settled, NoRow, Memory, Row, Editions, Terminal,
     Working, Over, Places, Says, Blank, RowPart
<1>2. CASE Restore(r)
  BY <1>2, RestoreDoes DEF Alike, TypeInv, WholePart, Settled, NoRow, Memory, Row, Editions,
     Terminal, Working, Over, Places, Says, Blank, RowPart
<1>3. CASE FinishRun(r)
  BY <1>3 DEF FinishRun, Left, FinalStatus, Finished, TypeInv, WholePart, Settled, NoRow, Memory,
     Row, Editions, Terminal, Working, Over, Places, Says, Blank, RowPart, KeptPart, AskedPart, SinkPart
<1> USE DEF TypeInv, WholePart, Settled, NoRow, Memory, Row, Editions, Terminal, Working, Over,
   Places, Says, Blank, RowPart
<1>4. CASE Admit(r)
  BY <1>4 DEF Admit, Admitted, SameAsRecorded
<1>5. CASE Begin(r)
  BY <1>5 DEF Begin
<1>6. CASE BeginFails(r)
  BY <1>6 DEF BeginFails, Left
<1>7. CASE Gather(r)
  BY <1>7 DEF Gather, Note
<1>8. CASE GatherRefused(r)
  BY <1>8 DEF GatherRefused, Ends
<1>9. CASE Prompt(r)
  BY <1>9 DEF Prompt
<1>10. CASE PromptRefused(r)
  BY <1>10 DEF PromptRefused, Ends
<1>11. CASE RestoreRefused(r)
  BY <1>11 DEF RestoreRefused, Ends
<1>12. CASE Restored(r)
  BY <1>12 DEF Restored, Note
<1>13. CASE Prepare(r)
  BY <1>13 DEF Prepare
<1>14. CASE PrepareRefused(r)
  BY <1>14 DEF PrepareRefused, Ends
<1>15. CASE TakeReport(r)
  BY <1>15 DEF TakeReport, Note
<1>16. CASE FencePasses(r)
  BY <1>16 DEF FencePasses
<1>17. CASE FenceFails(r)
  BY <1>17 DEF FenceFails, Ends
<1>18. CASE AgentEnds(r)
  BY <1>18 DEF AgentEnds, Note, Ends
<1>19. CASE ReportRefused(r)
  BY <1>19 DEF ReportRefused, Note
<1>20. CASE Report(r)
  BY <1>20 DEF Report, Note
<1>21. CASE Deliver(r)
  BY <1>21 DEF Deliver
<1>22. CASE GateRefuses(r)
  BY <1>22 DEF GateRefuses
<1>23. CASE Delivered(r)
  BY <1>23 DEF Delivered
<1>24. CASE NoteSink(r)
  BY <1>24 DEF NoteSink, Note
<1>25. CASE NotedAll(r)
  BY <1>25 DEF NotedAll
<1>26. CASE RemoveDir(r)
  BY <1>26 DEF RemoveDir
<1>27. CASE Release(r)
  BY <1>27 DEF Release, Left
<1>28. CASE Signal(r)
  BY <1>28 DEF Signal, InHand
<1>29. CASE ClaimLost(r)
  BY <1>29 DEF ClaimLost, InHand
<1>30. CASE Die(r)
  BY <1>30 DEF Die, Left
<1> QED
  BY <1>1, <1>2, <1>3, <1>4, <1>5, <1>6, <1>7, <1>8, <1>9, <1>10, <1>11, <1>12, <1>13, <1>14, <1>15,
     <1>16, <1>17, <1>18, <1>19, <1>20, <1>21, <1>22, <1>23, <1>24, <1>25, <1>26, <1>27, <1>28,
        <1>29, <1>30 DEF RunStep, Step

(* A run that is over takes no step; one that was admitted remains so, under the same playbook. *)
LEMMA Stays ==
    ASSUME TypeInv, NEW r \in Ids, RunStep(r)
    PROVE  /\ mem[r].pc # "over" /\ mem'[r].pc # "idle"
           /\ mem[r].pc # "idle" =>
                /\ mem'[r].book = mem[r].book /\ mem'[r].kind = mem[r].kind
                /\ mem'[r].parent = mem[r].parent
<1> USE RunsAssumption DEF At, Live, others, record
<1>1. CASE KeepGathered(r)
  BY <1>1, KeepDoes DEF Alike
<1>2. CASE Restore(r)
  BY <1>2, RestoreDoes DEF Alike
<1> USE DEF TypeInv, Memory, Blank
<1>3. CASE Admit(r)
  BY <1>3 DEF Admit, Admitted, SameAsRecorded
<1>4. CASE Begin(r)
  BY <1>4 DEF Begin
<1>5. CASE BeginFails(r)
  BY <1>5 DEF BeginFails, Left
<1>6. CASE Gather(r)
  BY <1>6 DEF Gather, Note
<1>7. CASE GatherRefused(r)
  BY <1>7 DEF GatherRefused, Ends
<1>8. CASE Prompt(r)
  BY <1>8 DEF Prompt
<1>9. CASE PromptRefused(r)
  BY <1>9 DEF PromptRefused, Ends
<1>10. CASE RestoreRefused(r)
  BY <1>10 DEF RestoreRefused, Ends
<1>11. CASE Restored(r)
  BY <1>11 DEF Restored, Note
<1>12. CASE Prepare(r)
  BY <1>12 DEF Prepare
<1>13. CASE PrepareRefused(r)
  BY <1>13 DEF PrepareRefused, Ends
<1>14. CASE TakeReport(r)
  BY <1>14 DEF TakeReport, Note
<1>15. CASE FencePasses(r)
  BY <1>15 DEF FencePasses
<1>16. CASE FenceFails(r)
  BY <1>16 DEF FenceFails, Ends
<1>17. CASE AgentEnds(r)
  BY <1>17 DEF AgentEnds, Note, Ends
<1>18. CASE ReportRefused(r)
  BY <1>18 DEF ReportRefused, Note
<1>19. CASE Report(r)
  BY <1>19 DEF Report, Note
<1>20. CASE Deliver(r)
  BY <1>20 DEF Deliver
<1>21. CASE GateRefuses(r)
  BY <1>21 DEF GateRefuses
<1>22. CASE Delivered(r)
  BY <1>22 DEF Delivered
<1>23. CASE NoteSink(r)
  BY <1>23 DEF NoteSink, Note
<1>24. CASE NotedAll(r)
  BY <1>24 DEF NotedAll
<1>25. CASE FinishRun(r)
  BY <1>25 DEF FinishRun, Left, FinalStatus, Finished
<1>26. CASE RemoveDir(r)
  BY <1>26 DEF RemoveDir
<1>27. CASE Release(r)
  BY <1>27 DEF Release, Left
<1>28. CASE Signal(r)
  BY <1>28 DEF Signal, InHand
<1>29. CASE ClaimLost(r)
  BY <1>29 DEF ClaimLost, InHand
<1>30. CASE Die(r)
  BY <1>30 DEF Die, Left
<1> QED
  BY <1>1, <1>2, <1>3, <1>4, <1>5, <1>6, <1>7, <1>8, <1>9, <1>10, <1>11, <1>12, <1>13, <1>14, <1>15,
     <1>16, <1>17, <1>18, <1>19, <1>20, <1>21, <1>22, <1>23, <1>24, <1>25, <1>26, <1>27, <1>28,
        <1>29, <1>30 DEF RunStep, Step

(* The report a run remembers, or its row has, is its own, the one its parent
   recorded, or the one it was. *)
LEMMA Reports ==
    ASSUME TypeInv, NEW r \in Ids, RunStep(r)
    PROVE  /\ \/ mem'[r].report \in {None, mem[r].report, r}
              \/ mem[r].kind = "resume" /\ mem'[r].report = row[mem[r].parent].report
           /\ row'[r].report \in {row[r].report, mem[r].report}
           /\ mem[r].pc = "idle" => mem'[r].report = None /\ row' = row
<1> USE RunsAssumption DEF At, Live, others, record
<1>1. CASE KeepGathered(r)
  BY <1>1, KeepDoes DEF Alike
<1>2. CASE Restore(r)
  BY <1>2, RestoreDoes DEF Alike
<1> USE DEF TypeInv, Memory, Row, Blank
<1>3. CASE Admit(r)
  BY <1>3 DEF Admit, Admitted, SameAsRecorded
<1>4. CASE Begin(r)
  BY <1>4 DEF Begin
<1>5. CASE BeginFails(r)
  BY <1>5 DEF BeginFails, Left
<1>6. CASE Gather(r)
  BY <1>6 DEF Gather, Note
<1>7. CASE GatherRefused(r)
  BY <1>7 DEF GatherRefused, Ends
<1>8. CASE Prompt(r)
  BY <1>8 DEF Prompt
<1>9. CASE PromptRefused(r)
  BY <1>9 DEF PromptRefused, Ends
<1>10. CASE RestoreRefused(r)
  BY <1>10 DEF RestoreRefused, Ends
<1>11. CASE Restored(r)
  BY <1>11 DEF Restored, Note
<1>12. CASE Prepare(r)
  BY <1>12 DEF Prepare
<1>13. CASE PrepareRefused(r)
  BY <1>13 DEF PrepareRefused, Ends
<1>14. CASE TakeReport(r)
  BY <1>14 DEF TakeReport, Note
<1>15. CASE FencePasses(r)
  BY <1>15 DEF FencePasses
<1>16. CASE FenceFails(r)
  BY <1>16 DEF FenceFails, Ends
<1>17. CASE AgentEnds(r)
  BY <1>17 DEF AgentEnds, Note, Ends
<1>18. CASE ReportRefused(r)
  BY <1>18 DEF ReportRefused, Note
<1>19. CASE Report(r)
  BY <1>19 DEF Report, Note
<1>20. CASE Deliver(r)
  BY <1>20 DEF Deliver
<1>21. CASE GateRefuses(r)
  BY <1>21 DEF GateRefuses
<1>22. CASE Delivered(r)
  BY <1>22 DEF Delivered
<1>23. CASE NoteSink(r)
  BY <1>23 DEF NoteSink, Note
<1>24. CASE NotedAll(r)
  BY <1>24 DEF NotedAll
<1>25. CASE FinishRun(r)
  BY <1>25 DEF FinishRun, Left, FinalStatus, Finished
<1>26. CASE RemoveDir(r)
  BY <1>26 DEF RemoveDir
<1>27. CASE Release(r)
  BY <1>27 DEF Release, Left
<1>28. CASE Signal(r)
  BY <1>28 DEF Signal, InHand
<1>29. CASE ClaimLost(r)
  BY <1>29 DEF ClaimLost, InHand
<1>30. CASE Die(r)
  BY <1>30 DEF Die, Left
<1> QED
  BY <1>1, <1>2, <1>3, <1>4, <1>5, <1>6, <1>7, <1>8, <1>9, <1>10, <1>11, <1>12, <1>13, <1>14, <1>15,
     <1>16, <1>17, <1>18, <1>19, <1>20, <1>21, <1>22, <1>23, <1>24, <1>25, <1>26, <1>27, <1>28,
        <1>29, <1>30 DEF RunStep, Step

(* What a replay takes from its parent: the inputs in its record one by one, then its prompt. *)
LEMMA Given ==
    ASSUME TypeInv, NEW r \in Ids, LocalPart(r), SharedPart(r), ~Admit(r), RunStep(r)
    PROVE  /\ mem'[r].kind = "replay" /\ mem'[r].pc = "restore" =>
                mem'[r].files \cup mem'[r].todo = {i \in Inputs : kept[mem[r].parent][i] = "blob"}
           /\ mem'[r].kind = "replay" /\ mem'[r].asked # 0 =>
                /\ mem'[r].asked = row[mem[r].parent].prompt
                /\ mem'[r].files = {i \in Inputs : kept[mem[r].parent][i] = "blob"}
<1> USE RunsAssumption DEF At, Live, others, record
<1>1. CASE Begin(r)
  <2>1. mem[r].pc = "beginning"
    BY <1>1 DEF Begin
  <2>2. mem'[r].files = {} /\ mem'[r].asked = 0 /\ mem'[r].kind = mem[r].kind
    BY <1>1, <2>1 DEF Begin, TypeInv, Memory, LocalPart, FreshPart
  <2>3. mem'[r].todo = {i \in Inputs : mem[r].kind = "replay" /\ kept[mem[r].parent][i] = "blob"}
    BY <1>1 DEF Begin, TypeInv, Memory
  <2> QED BY <2>2, <2>3
<1>2. CASE KeepGathered(r)
  BY <1>2, KeepDoes DEF Alike, LocalPart, FreshPart
<1>3. CASE Restore(r)
  <2>1. PICK i \in mem[r].todo, ok \in BOOLEAN :
             mem'[r].todo = mem[r].todo \ {i} /\ mem'[r].files = mem[r].files \cup {i}
    BY <1>3, RestoreDoes, Zenon
  <2>2. mem'[r].todo \cup mem'[r].files = mem[r].todo \cup mem[r].files
    BY <2>1
  <2>3. mem[r].pc = "restore" /\ Alike(mem'[r], mem[r])
    BY <1>3, RestoreDoes
  <2> QED BY <2>2, <2>3 DEF Alike, LocalPart, FreshPart, SharedPart, ParentPart
<1> USE DEF TypeInv, LocalPart, FreshPart, SharedPart, ParentPart, Memory, Blank
<1>4. CASE Admit(r)
  BY <1>4 DEF Admit, Admitted, SameAsRecorded
<1>5. CASE BeginFails(r)
  BY <1>5 DEF BeginFails, Left
<1>6. CASE Gather(r)
  BY <1>6 DEF Gather, Note
<1>7. CASE GatherRefused(r)
  BY <1>7 DEF GatherRefused, Ends
<1>8. CASE Prompt(r)
  BY <1>8 DEF Prompt
<1>9. CASE PromptRefused(r)
  BY <1>9 DEF PromptRefused, Ends
<1>10. CASE RestoreRefused(r)
  BY <1>10 DEF RestoreRefused, Ends
<1>11. CASE Restored(r)
  BY <1>11 DEF Restored, Note
<1>12. CASE Prepare(r)
  BY <1>12 DEF Prepare
<1>13. CASE PrepareRefused(r)
  BY <1>13 DEF PrepareRefused, Ends
<1>14. CASE TakeReport(r)
  BY <1>14 DEF TakeReport, Note
<1>15. CASE FencePasses(r)
  BY <1>15 DEF FencePasses
<1>16. CASE FenceFails(r)
  BY <1>16 DEF FenceFails, Ends
<1>17. CASE AgentEnds(r)
  BY <1>17 DEF AgentEnds, Note, Ends
<1>18. CASE ReportRefused(r)
  BY <1>18 DEF ReportRefused, Note
<1>19. CASE Report(r)
  BY <1>19 DEF Report, Note
<1>20. CASE Deliver(r)
  BY <1>20 DEF Deliver
<1>21. CASE GateRefuses(r)
  BY <1>21 DEF GateRefuses
<1>22. CASE Delivered(r)
  BY <1>22 DEF Delivered
<1>23. CASE NoteSink(r)
  BY <1>23 DEF NoteSink, Note
<1>24. CASE NotedAll(r)
  BY <1>24 DEF NotedAll
<1>25. CASE FinishRun(r)
  BY <1>25 DEF FinishRun, Left, FinalStatus, Finished
<1>26. CASE RemoveDir(r)
  BY <1>26 DEF RemoveDir
<1>27. CASE Release(r)
  BY <1>27 DEF Release, Left
<1>28. CASE Signal(r)
  BY <1>28 DEF Signal, InHand
<1>29. CASE ClaimLost(r)
  BY <1>29 DEF ClaimLost, InHand
<1>30. CASE Die(r)
  BY <1>30 DEF Die, Left
<1> QED
  BY <1>1, <1>2, <1>3, <1>4, <1>5, <1>6, <1>7, <1>8, <1>9, <1>10, <1>11, <1>12, <1>13, <1>14, <1>15,
     <1>16, <1>17, <1>18, <1>19, <1>20, <1>21, <1>22, <1>23, <1>24, <1>25, <1>26, <1>27, <1>28,
        <1>29, <1>30 DEF RunStep, Step

(* A step of one run keeps what that run has of its parent. *)
LEMMA OwnShared ==
    ASSUME TypeInv, \A q \in Ids : LocalPart(q) /\ SharedPart(q), NEW r \in Ids, RunStep(r), TypeInv'
    PROVE  SharedPart(r)'
<1>1. \A q \in Ids \ {r} : mem'[q] = mem[q] /\ row'[q] = row[q] /\ kept'[q] = kept[q]
  BY Frame
<1>2. ASSUME NEW q \in Ids \cup {None}, WrittenFor(q, r), mem[r].pc # "idle"
      PROVE  WrittenFor(q, r)'
  BY <1>1, <1>2, Stays DEF WrittenFor
<1>3. mem[r].report \in Ids \cup {None} /\ row[r].report \in Ids \cup {None}
  BY DEF TypeInv, Memory, Row
<1>4. CASE mem[r].pc = "idle"
  <2>1. PICK kind \in {"manual", "replay", "resume"}, p \in Ids \cup {None} : p # r /\ Admitted(r, kind, p)
    BY <1>4 DEF RunStep, Step, Admit, At, Begin, BeginFails, Gather, KeepGathered, GatherRefused, Prompt,
                PromptRefused, Restore, RestoreRefused, Restored, Prepare, PrepareRefused, TakeReport,
                FencePasses, FenceFails, AgentEnds, ReportRefused, Report, Deliver, GateRefuses, Delivered,
                NoteSink, NotedAll, FinishRun, RemoveDir, Release, Signal, ClaimLost, Die, InHand, Live
  <2>2. /\ mem'[r].kind = kind /\ mem'[r].parent = p /\ mem'[r].book = file.book
        /\ mem'[r].pc = "beginning" /\ mem'[r].asked = 0
    BY <2>1 DEF Admitted, TypeInv, Blank
  <2>3. kind = "manual" <=> p = None
    BY <2>1 DEF Admitted
  <2>4. ASSUME kind # "manual"
        PROVE  /\ mem[p].pc = "over" /\ Settled(p) /\ row[p].resolved = file.book /\ file.book # 0
               /\ kind = "replay" => row[p].prompt # 0
               /\ kind = "resume" => row[p].report # None
    <3>1. p \in Ids
      BY <2>3, <2>4
    <3>2. /\ row[p].resolved # 0 /\ row[p].resolved = file.book
          /\ kind = "replay" => row[p].prompt # 0
          /\ kind = "resume" => row[p].report # None
      BY <2>1, <2>4 DEF Admitted, SameAsRecorded
    <3>3. Settled(p) /\ mem[p].pc \in Over
      BY <3>1, <3>2 DEF LocalPart, RowPart
    <3>4. ~Live(p)
      BY <2>1, <3>1, RunsAssumption DEF Admitted, TypeInv
    <3> QED BY <3>2, <3>3, <3>4 DEF Live, Over
  <2>5. p \in Ids => mem'[p] = mem[p] /\ row'[p] = row[p]
    BY <1>1, <2>1
  <2>6. ParentPart(r, p)'
    BY <2>2, <2>3, <2>4, <2>5 DEF ParentPart, Settled
  <2>7. mem'[r].report = None /\ row'[r].report = None
    BY <1>4, Reports DEF LocalPart, RowPart, Settled, Terminal
  <2> QED BY <2>2, <2>6, <2>7 DEF SharedPart, WrittenFor
<1>5. CASE mem[r].pc # "idle"
  <2> DEFINE p == mem[r].parent
  <2>1. /\ mem'[r].kind = mem[r].kind /\ mem'[r].parent = p /\ mem'[r].book = mem[r].book
        /\ mem'[r].pc # "idle" /\ mem[r].pc # "over"
    BY <1>5, Stays
  <2>2. ~Admit(r)
    BY <1>5 DEF Admit, Admitted, At
  <2>3. ParentPart(r, p)
    BY DEF SharedPart
  <2>4. mem[r].kind # "manual" =>
          /\ p \in Ids \ {r} /\ mem'[p] = mem[p] /\ row'[p] = row[p] /\ kept'[p] = kept[p]
          /\ row[p].resolved = mem[p].book
    <3>1. p \in Ids \cup {None}
      BY DEF TypeInv, Memory
    <3>2. mem[r].kind # "manual" => p \in Ids /\ mem[p].pc = "over" /\ row[p].resolved # 0
      BY <2>3, <3>1 DEF ParentPart
    <3> QED BY <1>1, <2>1, <3>2 DEF LocalPart, AskedPart
  <2>5. /\ mem'[r].kind = "replay" /\ mem'[r].pc = "restore" =>
             mem'[r].files \cup mem'[r].todo = {i \in Inputs : kept[p][i] = "blob"}
        /\ mem'[r].kind = "replay" /\ mem'[r].asked # 0 =>
             /\ mem'[r].asked = row[p].prompt
             /\ mem'[r].files = {i \in Inputs : kept[p][i] = "blob"}
    BY <2>2, Given
  <2>6. ParentPart(r, p)'
    BY <2>1, <2>3, <2>4, <2>5 DEF ParentPart, Settled
  <2>7. WrittenFor(mem[r].report, r)' /\ WrittenFor(row[r].report, r)'
    <3>1. ASSUME NEW q \in Ids \cup {None}, q \in {None, mem[r].report, row[r].report, r}
          PROVE  q # None => mem'[q].pc # "idle" /\ mem'[q].book = mem'[r].book
      <4>1. WrittenFor(q, r)
        BY <1>5, <3>1 DEF SharedPart, WrittenFor
      <4> QED BY <1>2, <1>5, <4>1 DEF WrittenFor
    <3>2. row'[r].report # None => mem'[row'[r].report].pc # "idle" /\ mem'[row'[r].report].book = mem'[r].book
      BY <1>3, <3>1, Reports
    <3>3. CASE mem'[r].report \in {None, mem[r].report, r}
      BY <1>3, <3>1, <3>2, <3>3 DEF WrittenFor
    <3>4. CASE mem[r].kind = "resume" /\ mem'[r].report = row[p].report
      <4>1. p \in Ids /\ mem[p].book = mem[r].book
        BY <2>3, <2>4, <3>4 DEF ParentPart
      <4>2. row[p].report \in Ids \cup {None}
        BY <4>1 DEF TypeInv, Row
      <4>3. WrittenFor(row[p].report, p)
        BY <4>1 DEF SharedPart
      <4>4. WrittenFor(row[p].report, r)
        BY <4>1, <4>3 DEF WrittenFor
      <4>5. row[p].report # None =>
              mem'[row[p].report].pc # "idle" /\ mem'[row[p].report].book = mem'[r].book
        BY <1>2, <1>5, <4>2, <4>4 DEF WrittenFor
      <4> QED BY <3>2, <3>4, <4>5 DEF WrittenFor
    <3> QED BY <3>3, <3>4, Reports
  <2> QED BY <2>1, <2>6, <2>7 DEF SharedPart
<1> QED BY <1>4, <1>5

(* It keeps what the other runs have of theirs: a parent is over, and takes no step. *)
LEMMA OtherShared ==
    ASSUME TypeInv, \A q \in Ids : LocalPart(q) /\ SharedPart(q), NEW r \in Ids, RunStep(r),
           NEW q \in Ids \ {r}
    PROVE  SharedPart(q)'
<1>1. \A x \in Ids \ {r} : mem'[x] = mem[x] /\ row'[x] = row[x] /\ kept'[x] = kept[x]
  BY Frame
<1>2. ASSUME NEW x \in Ids \cup {None}, WrittenFor(x, q)
      PROVE  x # None => mem'[x].pc # "idle" /\ mem'[x].book = mem'[q].book
  BY <1>1, <1>2, Stays DEF WrittenFor
<1>3. mem[q].report \in Ids \cup {None} /\ row[q].report \in Ids \cup {None}
  BY DEF TypeInv, Memory, Row
<1>4. WrittenFor(mem[q].report, q)' /\ WrittenFor(row[q].report, q)'
  BY <1>1, <1>2, <1>3 DEF WrittenFor, SharedPart
<1> DEFINE p == mem[q].parent
<1>5. ParentPart(q, p) /\ p \in Ids \cup {None}
  BY DEF SharedPart, TypeInv, Memory
<1>6. mem[q].kind # "manual" => p \in Ids \ {r}
  BY <1>5, Stays DEF ParentPart
<1>7. ParentPart(q, p)'
  BY <1>1, <1>5, <1>6 DEF ParentPart, Settled
<1> QED BY <1>1, <1>4, <1>7 DEF SharedPart

(* Every step of a run keeps the invariant. *)
LEMMA RunStepInv == ASSUME Inv, NEW r \in Ids, RunStep(r) PROVE Inv'
<1>1. TypeInv /\ \A q \in Ids : LocalPart(q) /\ SharedPart(q)
  BY DEF Inv
<1>2. TypeInv'
  BY <1>1, MemStep, RecordStep, ClaimStep DEF TypeInv
<1>3. LocalPart(r)'
  BY <1>1, RowStep, FreshStep, KeptStep, AskedStep, SinkStep, WholeStep DEF LocalPart
<1>4. ASSUME NEW q \in Ids \ {r} PROVE LocalPart(q)'
  <2>1. /\ mem'[q] = mem[q] /\ row'[q] = row[q]
        /\ kept'[q] = kept[q] /\ noted'[q] = noted[q]
    BY <1>1, Frame
  <2>2. LocalPart(q)
    BY <1>1
  <2> QED BY <2>1, <2>2 DEF LocalPart, RowPart, FreshPart, KeptPart, AskedPart, SinkPart, WholePart, Settled
<1>5. \A q \in Ids : SharedPart(q)'
  BY <1>1, <1>2, OwnShared, OtherShared
<1> QED BY <1>2, <1>3, <1>4, <1>5 DEF Inv

(* serve's reconciliation touches no row that is settled, and no run. *)
LEMMA MarkStep == ASSUME Inv, MarkRunningAsInterrupted PROVE Inv'
<1>1. UNCHANGED <<file, claim, mem, kept, noted, dirs>>
  BY DEF MarkRunningAsInterrupted, others
<1>2. \A r \in Ids :
        \/ row'[r] = row[r]
        \/ row[r].status = "running" /\ row'[r] = [row[r] EXCEPT !.status = "interrupted", !.says = {}]
  BY DEF MarkRunningAsInterrupted
<1>3. TypeInv'
  <2>1. \A r \in Ids : row'[r] \in Row
    <3>1. \A r \in Ids : row[r] \in Row
      BY DEF Inv, TypeInv
    <3>2. ASSUME NEW x \in Row PROVE [x EXCEPT !.status = "interrupted", !.says = {}] \in Row
      BY DEF Row, Terminal
    <3>3. ASSUME NEW r \in Ids PROVE row'[r] \in Row
      <4>1. row[r] \in Row /\ [row[r] EXCEPT !.status = "interrupted", !.says = {}] \in Row
        BY <3>1, <3>2
      <4> QED BY <1>2, <4>1
    <3> QED BY <3>3
  <2>2. row' \in [Ids -> Row]
    BY <2>1 DEF MarkRunningAsInterrupted
  <2> QED BY <1>1, <2>2 DEF Inv, TypeInv, Live
<1>4. ASSUME NEW r \in Ids
      PROVE  /\ Settled(r)' <=> Settled(r)
             /\ Settled(r) => row'[r] = row[r]
             /\ row[r].status \in {"none", "succeeded"} => row'[r] = row[r]
             /\ row'[r].status \in {"none", "succeeded"} => row'[r] = row[r]
             /\ row[r].status = "running" => row'[r].status \in {"running", "interrupted"}
             /\ row[r].status = "interrupted" => row'[r].status = "interrupted"
             /\ row'[r].prompt = row[r].prompt /\ row'[r].resolved = row[r].resolved
             /\ row'[r].report = row[r].report
             /\ ~Settled(r) /\ row[r].says = {} => row'[r].says = {}
  <2>1. row[r] \in Row
    BY DEF Inv, TypeInv
  <2> QED BY <1>2, <2>1 DEF Settled, Terminal, Row
<1>5. ASSUME NEW r \in Ids PROVE LocalPart(r)'
  <2>1. LocalPart(r)
    BY DEF Inv
  <2>2. RowPart(r)'
    BY <1>1, <1>4, <2>1 DEF LocalPart, RowPart
  <2>3. FreshPart(r)' /\ SinkPart(r)'
    BY <1>1, <2>1 DEF LocalPart, FreshPart, SinkPart
  <2>4. KeptPart(r)' /\ AskedPart(r)' /\ WholePart(r)'
    BY <1>1, <1>4, <2>1 DEF LocalPart, KeptPart, AskedPart, WholePart
  <2> QED BY <2>2, <2>3, <2>4 DEF LocalPart
<1>6. ASSUME NEW r \in Ids PROVE SharedPart(r)'
  <2>1. SharedPart(r) /\ mem[r].parent \in Ids \cup {None}
    BY DEF Inv, TypeInv, Memory
  <2>2. mem[r].kind # "manual" => mem[r].parent \in Ids
    BY <2>1 DEF SharedPart, ParentPart
  <2> QED BY <1>1, <1>4, <2>1, <2>2 DEF SharedPart, ParentPart, WrittenFor
<1> QED BY <1>3, <1>5, <1>6 DEF Inv

(* The steps outside the runs, and none, leave the runs and the record alone. *)
LEMMA StillStep ==
    ASSUME Inv, UNCHANGED <<claim, mem, row, kept, noted, dirs>>,
           file' \in [book : Editions, prompt : Editions]
    PROVE  Inv'
<1>1. TypeInv'
  BY DEF Inv, TypeInv, Live
<1>2. ASSUME NEW r \in Ids PROVE LocalPart(r)'
  BY DEF Inv, LocalPart, RowPart, FreshPart, KeptPart, AskedPart, SinkPart, WholePart, Settled
<1>3. ASSUME NEW r \in Ids PROVE SharedPart(r)'
  BY DEF Inv, SharedPart, ParentPart, WrittenFor, Settled
<1> QED BY <1>1, <1>2, <1>3 DEF Inv

LEMMA InitInv == Init => Inv
<1> SUFFICES ASSUME Init PROVE Inv
  OBVIOUS
<1>1. TypeInv
  <2>1. NoRow \in Row
    BY DEF NoRow, Row, Terminal
  <2>2. \A r \in Ids : mem[r].pc = "idle" /\ claim # r
    BY RunsAssumption DEF Init, Blank
  <2>3. file \in [book : Editions, prompt : Editions]
    BY RunsAssumption DEF Init, Editions
  <2> QED BY <2>1, <2>2, <2>3, BlankType DEF Init, TypeInv, Live
<1>2. ASSUME NEW r \in Ids PROVE LocalPart(r)
  <2>1. mem[r] = Blank /\ row[r] = NoRow /\ kept[r] = [i \in Inputs |-> "no"]
    BY DEF Init
  <2>2. RowPart(r) /\ FreshPart(r) /\ KeptPart(r) /\ AskedPart(r) /\ WholePart(r)
    BY <2>1 DEF RowPart, FreshPart, KeptPart, AskedPart, WholePart, Settled, NoRow, Terminal, Blank, Over, Working
  <2>3. SinkPart(r)
    BY <2>1 DEF SinkPart, Blank
  <2> QED BY <2>2, <2>3 DEF LocalPart
<1>3. ASSUME NEW r \in Ids PROVE SharedPart(r)
  BY DEF Init, SharedPart, ParentPart, WrittenFor, Blank, NoRow
<1> QED BY <1>1, <1>2, <1>3 DEF Inv

LEMMA Cases ==
    ASSUME [Next]_vars
    PROVE  \/ \E r \in Ids : RunStep(r)
           \/ MarkRunningAsInterrupted
           \/ \E which \in {"book", "prompt"} : Edit(which)
           \/ UNCHANGED vars
  BY DEF Next, RunStep

LEMMA Invariance == Spec => []Inv
<1>1. Inv /\ [Next]_vars => Inv'
  <2> SUFFICES ASSUME Inv, [Next]_vars PROVE Inv'
    OBVIOUS
  <2>1. ASSUME NEW r \in Ids, RunStep(r) PROVE Inv'
    BY <2>1, RunStepInv
  <2>2. CASE MarkRunningAsInterrupted
    BY <2>2, MarkStep
  <2>3. ASSUME NEW which \in {"book", "prompt"}, Edit(which) PROVE Inv'
    <3>1. file \in [book : Editions, prompt : Editions]
      BY DEF Inv, TypeInv
    <3>2. file[which] \in Editions /\ file[which] + 1 \in Editions
      BY <2>3, <3>1, RunsAssumption DEF Edit, Editions
    <3>3. file' \in [book : Editions, prompt : Editions]
      BY <2>3, <3>1, <3>2 DEF Edit
    <3>4. UNCHANGED <<claim, mem, row, kept, noted, dirs>>
      BY <2>3 DEF Edit, record
    <3> QED BY <3>3, <3>4, StillStep
  <2>4. CASE UNCHANGED vars
    BY <2>4, StillStep DEF vars, Inv, TypeInv
  <2> QED BY <2>1, <2>2, <2>3, <2>4, Cases
<1> QED BY InitInv, <1>1, PTL DEF Spec

-----------------------------------------------------------------------------
(* TypeOK is an invariant: every variable keeps its type, and the run that has
   the claim is the one that is alive. *)
THEOREM TypeCorrect == Spec => []TypeOK
<1>1. Inv => TypeOK
  <2> SUFFICES ASSUME Inv PROVE TypeOK
    OBVIOUS
  <2>1. file \in [{"book", "prompt"} -> Editions]
    BY DEF Inv, TypeInv
  <2>2. ASSUME NEW r \in Ids
        PROVE  /\ mem[r].parent \in Ids \cup {None}
               /\ mem[r].files \subseteq Inputs /\ mem[r].todo \subseteq Inputs
               /\ mem[r].sink \in 1..(Sinks + 1)
    BY DEF Inv, TypeInv, Memory
  <2>3. ASSUME NEW r \in Ids
        PROVE  /\ row[r].status \in Terminal \cup {"none", "running"}
               /\ row[r].says \subseteq {"incomplete", "resumable"}
               /\ {row[r].prompt, row[r].resolved} \subseteq Editions \cup {0}
               /\ row[r].report \in Ids \cup {None}
    BY DEF Inv, TypeInv, Row, Says
  <2> QED BY <2>1, <2>2, <2>3 DEF TypeOK, Inv, TypeInv
<1> QED BY <1>1, Invariance, PTL

(* execute.go, finished and deliver: a run the record calls succeeded has in the
   record every sink as not failed, its report, and whatever its agent read. *)
THEOREM SucceededRunsAreWhole == Spec => []SucceededIsWhole
<1>1. Inv => SucceededIsWhole
  BY DEF Inv, LocalPart, WholePart, SucceededIsWhole
<1> QED BY <1>1, Invariance, PTL

(* FR-011 and FR-026, Finish: by the time a working directory is gone, what was in
   it is in the record, or the row says the record is incomplete. *)
THEOREM NothingIsLost == Spec => []KeptBeforeRemoved
<1>1. Inv => KeptBeforeRemoved
  BY DEF Inv, LocalPart, KeptPart, Settled, KeptBeforeRemoved
<1> QED BY <1>1, Invariance, PTL

(* FR-027, FR-028 and ErrPlaybookChanged: a replay works on the inputs its parent's
   record kept, and under the same playbook; a resume delivers under the playbook
   its report was written for. *)
THEOREM ReplaysWorkOnTheRecord == Spec => []SameInputs
<1>1. Inv => SameInputs
  <2> SUFFICES ASSUME Inv, NEW r \in Ids
               PROVE  /\ mem[r].kind = "replay" /\ mem[r].asked # 0 =>
                           /\ mem[r].files = {i \in Inputs : kept[mem[r].parent][i] = "blob"}
                           /\ "incomplete" \notin row[mem[r].parent].says =>
                                mem[r].files = mem[mem[r].parent].files
                           /\ mem[r].book = mem[mem[r].parent].book
                      /\ mem[r].kind = "resume" /\ mem[r].report # None =>
                           mem[r].book = mem[mem[r].report].book
    BY DEF SameInputs
  <2> DEFINE p == mem[r].parent
  <2>1. ParentPart(r, p) /\ WrittenFor(mem[r].report, r)
    BY DEF Inv, SharedPart
  <2>2. mem[r].kind = "resume" /\ mem[r].report # None => mem[r].book = mem[mem[r].report].book
    BY <2>1 DEF WrittenFor
  <2>3. ASSUME mem[r].kind = "replay", mem[r].asked # 0
        PROVE  /\ mem[r].files = {i \in Inputs : kept[p][i] = "blob"}
               /\ "incomplete" \notin row[p].says => mem[r].files = mem[p].files
               /\ mem[r].book = mem[p].book
    <3>1. p \in Ids
      BY <2>1, <2>3 DEF ParentPart, Inv, TypeInv, Memory
    <3>2. AskedPart(p) /\ KeptPart(p) /\ mem[p].files \subseteq Inputs
      BY <3>1 DEF Inv, LocalPart, TypeInv, Memory
    <3>3. mem[r].book = mem[p].book
      BY <2>1, <2>3, <3>2 DEF ParentPart, AskedPart
    <3>4. Settled(p) /\ mem[r].files = {i \in Inputs : kept[p][i] = "blob"}
      BY <2>1, <2>3 DEF ParentPart
    <3>5. "incomplete" \notin row[p].says => {i \in Inputs : kept[p][i] = "blob"} = mem[p].files
      BY <3>2, <3>4 DEF KeptPart
    <3> QED BY <3>3, <3>4, <3>5
  <2> QED BY <2>2, <2>3
<1> QED BY <1>1, Invariance, PTL

(* FR-031: a row that has an outcome keeps it: only one marked interrupted may yet
   get that of its own run, at its Finish. *)
THEOREM OutcomesAreFinal == Spec => OutcomeIsFinal
<1> DEFINE Final == \A r \in Ids : row[r].status \in Terminal /\ row'[r] # row[r] =>
                        row[r].status = "interrupted" /\ At(r, "finishing")
<1>1. Inv /\ [Next]_vars => [Final]_vars
  <2> SUFFICES ASSUME Inv, [Next]_vars,
                      NEW q \in Ids, row[q].status \in Terminal, row'[q] # row[q]
               PROVE  row[q].status = "interrupted" /\ At(q, "finishing")
    BY DEF vars
  <2>1. ASSUME NEW r \in Ids, RunStep(r)
        PROVE  row[q].status = "interrupted" /\ At(q, "finishing")
    <3>1. q = r /\ TypeInv /\ RowPart(q)
      BY <2>1, Frame DEF Inv, LocalPart
    <3>2. ~Begin(q)
      BY <3>1 DEF Begin, At, RowPart, Terminal
    <3>3. CASE FinishRun(q)
      BY <3>1, <3>3 DEF FinishRun, At, RowPart, Working, Settled, Over, Terminal
    <3>4. CASE ~FinishRun(q)
      <4>1. row' = row
        BY <2>1, <3>1, <3>2, <3>4
           DEF RunStep, Step, Admit, Admitted, BeginFails, Gather, KeepGathered, Keep, GatherRefused, Prompt,
               PromptRefused, Restore, RestoreRefused, Restored, Prepare, PrepareRefused, TakeReport,
               FencePasses, FenceFails, AgentEnds, ReportRefused, Report, Deliver, GateRefuses, Delivered,
               NoteSink, NotedAll, RemoveDir, Release, Signal, ClaimLost, Die, record
      <4> QED BY <4>1
    <3> QED BY <3>3, <3>4
  <2>2. ~MarkRunningAsInterrupted
    BY DEF MarkRunningAsInterrupted, Terminal
  <2>3. ASSUME NEW which \in {"book", "prompt"}, Edit(which) PROVE FALSE
    BY <2>3 DEF Edit, record
  <2>4. ~UNCHANGED vars
    BY DEF vars
  <2> QED BY <2>1, <2>2, <2>3, <2>4, Cases
<1> QED BY <1>1, Invariance, PTL DEF Spec, OutcomeIsFinal
=============================================================================

-------------------------------- MODULE Runs --------------------------------
(***************************************************************************)
(* The runs of a playbook and their record: Execute, Replay and Resume     *)
(* from admission to release, the rows and blobs each leaves, and the      *)
(* reconciliation `gronin serve` does when it starts.  Every run is in a   *)
(* process of its own, which may be signalled, lose its claim or die       *)
(* between any two steps; any write to the record may fail.                *)
(*                                                                         *)
(* Source: runtime/internal/run (execute.go, replay.go, and of run.go      *)
(* Begin and Finish), record/runs.go, sink/sink.go and, of cmd/gronin/     *)
(* serve_cmd.go, the call to MarkRunningAsInterrupted.  How a claim is     *)
(* won and lost is in Waiting, EtcdCoordinator, FileLock and Hold.         *)
(*                                                                         *)
(* The inputs stand for what gather steps and retrievals alike put in the  *)
(* working directory.  A playbook and its prompt are each an edition of    *)
(* their file; a report is named by the run whose agent wrote it.          *)
(***************************************************************************)
EXTENDS Integers, FiniteSets

CONSTANTS
    Ids,            \* run identifiers
    None,           \* no run
    Inputs,         \* what the playbook gathers and retrieves
    Sinks,          \* how many sinks it declares
    MaxEdition      \* bound: how many editions a file goes through

ASSUME RunsAssumption ==
    /\ None \notin Ids
    /\ Sinks \in Nat /\ MaxEdition \in Nat \ {0}

VARIABLES
    file,   \* the editions of the playbook and of its prompt on disk
    claim,  \* the run that holds the playbook's claim
    mem,    \* each run's memory
    row,    \* the runs table
    kept,   \* gathered_inputs and retrievals: each run's rows, with their blob or without
    noted,  \* sink_outcomes: what each run's record says of each sink
    dirs    \* the runs whose working directory exists

vars == <<file, claim, mem, row, kept, noted, dirs>>

Editions == 1..MaxEdition
Terminal == {"succeeded", "failed", "refused", "timed_out", "claim_lost", "interrupted"}

Blank ==
    [pc |-> "idle", kind |-> "manual", parent |-> None, book |-> 0, asked |-> 0,
     files |-> {}, todo |-> {}, status |-> "failed", says |-> {},
     prompt |-> 0, resolved |-> 0, report |-> None,
     sink |-> 1, sent |-> [n \in 1..Sinks |-> "no"],
     stopped |-> FALSE, cancelled |-> FALSE]

NoRow == [status |-> "none", says |-> {}, prompt |-> 0, resolved |-> 0, report |-> None]

Init ==
    /\ file = [book |-> 1, prompt |-> 1]
    /\ claim = None
    /\ mem = [r \in Ids |-> Blank]
    /\ row = [r \in Ids |-> NoRow]
    /\ kept = [r \in Ids |-> [i \in Inputs |-> "no"]]
    /\ noted = [r \in Ids |-> [n \in 1..Sinks |-> "no"]]
    /\ dirs = {}

record == <<row, kept, noted, dirs>>
others == <<file, claim>>

-----------------------------------------------------------------------------
(***************************************************************************)
(* Steps of one run.  A step is where its memory goes to; the caller's     *)
(* context reaches the store, and the run's own the stages.                *)
(***************************************************************************)

At(r, pc) == mem[r].pc = pc

(* Whether a write to the database may succeed, and a stage run to its end. *)
StoreWorks(r) == ~mem[r].cancelled
StagesGoOn(r) == ~mem[r].cancelled /\ ~mem[r].stopped

(* Every early return: the status, and on to the deferred Finish. *)
Ends(m, status) == [m EXCEPT !.pc = "finishing", !.status = status]

(* problems.note: the record is incomplete, and the row will say so. *)
Note(m, ok) == IF ok THEN m ELSE [m EXCEPT !.says = @ \cup {"incomplete"}]

(* What is left of a run's memory once its outcome is out of its hands: what it
   was asked, which the properties speak of. *)
Left(m, pc) == [Blank EXCEPT !.pc = pc, !.kind = m.kind, !.parent = m.parent,
                             !.book = m.book, !.asked = m.asked, !.files = m.files]

(* Fault variant: the parent's playbook is not compared. *)
SameAsAnything(p) == row[p].resolved # 0

(* sameAsRecorded. *)
SameAsRecorded(p) == row[p].resolved # 0 /\ row[p].resolved = file.book

(* The guard admits the trigger.  Before it is asked, a replay wants a recorded
   prompt, a resume a report, and both an unchanged playbook. *)
Admitted(r, kind, p) ==
    /\ At(r, "idle") /\ claim = None
    /\ kind = "manual" <=> p = None
    /\ kind = "replay" => row[p].prompt # 0 /\ SameAsRecorded(p)
    /\ kind = "resume" => row[p].report # None /\ SameAsRecorded(p)
    /\ claim' = r
    /\ dirs' = dirs \cup {r}
    /\ mem' = [mem EXCEPT ![r] = [Blank EXCEPT
         !.pc = "beginning", !.kind = kind, !.parent = p, !.book = file.book]]
    /\ UNCHANGED <<file, row, kept, noted>>

Begin(r) ==
    /\ At(r, "beginning") /\ StoreWorks(r)
    /\ row' = [row EXCEPT ![r].status = "running"]
    /\ mem' = [mem EXCEPT
         ![r].pc = CASE mem[r].kind = "manual" -> "gather"
                     [] mem[r].kind = "replay" -> "restore"
                     [] mem[r].kind = "resume" -> "sinks",
         ![r].todo = {i \in Inputs : mem[r].kind = "replay" /\ kept[mem[r].parent][i] = "blob"}]
    /\ UNCHANGED <<others, kept, noted, dirs>>

(* The row could not be created: the directory goes, and the claim. *)
BeginFails(r) ==
    /\ At(r, "beginning")
    /\ mem' = [mem EXCEPT ![r] = Left(@, "over")]
    /\ dirs' = dirs \ {r}
    /\ claim' = None
    /\ UNCHANGED <<file, row, kept, noted>>

(* storeResolved, and the gather steps and retrievals: all of them, or those up
   to one that fails, which may have left no file to read. *)
Gather(r) ==
    /\ At(r, "gather")
    /\ \E stored, ok, read \in BOOLEAN, files \in SUBSET Inputs :
         /\ ok => files = Inputs /\ read /\ StagesGoOn(r)
         /\ mem' = [mem EXCEPT ![r] = Note([mem[r] EXCEPT
              !.pc = "keep", !.files = files, !.todo = files,
              !.status = IF ok THEN @ ELSE "refused",
              !.resolved = IF stored THEN mem[r].book ELSE 0], stored /\ read)]
    /\ UNCHANGED <<others, record>>

(* Fault variant: a failure to keep an input is not noted. *)
KeepUnnoted(r, i) ==
    /\ i \in mem[r].todo
    /\ \E as \in {"no", "row", "blob"} :
         /\ as # "no" => StoreWorks(r)
         /\ kept' = [kept EXCEPT ![r][i] = as]
    /\ mem' = [mem EXCEPT ![r].todo = @ \ {i}]
    /\ UNCHANGED <<others, row, noted, dirs>>

(* One input copied into the record: its blob and its row, its row alone, or
   nothing. *)
Keep(r, i) ==
    /\ i \in mem[r].todo
    /\ \E as \in {"no", "row", "blob"} :
         /\ as # "no" => StoreWorks(r)
         /\ kept' = [kept EXCEPT ![r][i] = as]
         /\ mem' = [mem EXCEPT ![r] = Note([mem[r] EXCEPT !.todo = @ \ {i}], as = "blob")]
    /\ UNCHANGED <<others, row, noted, dirs>>

KeepGathered(r) == At(r, "keep") /\ \E i \in Inputs : Keep(r, i)

(* Gather or retrieve failed: refused, with what was collected kept. *)
GatherRefused(r) ==
    /\ At(r, "keep") /\ mem[r].todo = {} /\ mem[r].status = "refused"
    /\ mem' = [mem EXCEPT ![r] = Ends(@, "refused")]
    /\ UNCHANGED <<others, record>>

(* The prompt is read from its file now, and kept. *)
Prompt(r) ==
    /\ At(r, "keep") /\ mem[r].todo = {} /\ mem[r].status # "refused"
    /\ mem' = [mem EXCEPT ![r].pc = "sinks", ![r].prompt = file.prompt, ![r].asked = file.prompt]
    /\ UNCHANGED <<others, record>>

PromptRefused(r) ==
    /\ At(r, "keep") /\ mem[r].todo = {} /\ mem[r].status # "refused"
    /\ mem' = [mem EXCEPT ![r] = Ends(@, "refused")]
    /\ UNCHANGED <<others, record>>

(* A replay puts a recorded input back, and records it again. *)
Restore(r) ==
    /\ At(r, "restore")
    /\ \E i \in mem[r].todo, ok \in BOOLEAN :
         /\ ok => StoreWorks(r)
         /\ kept' = [kept EXCEPT ![r][i] = IF ok THEN "blob" ELSE "no"]
         /\ mem' = [mem EXCEPT ![r] = Note([mem[r] EXCEPT
              !.todo = @ \ {i}, !.files = @ \cup {i}], ok)]
    /\ UNCHANGED <<others, row, noted, dirs>>

RestoreRefused(r) ==
    /\ At(r, "restore") /\ mem[r].todo # {}
    /\ mem' = [mem EXCEPT ![r] = Ends(@, "refused")]
    /\ UNCHANGED <<others, record>>

(* The parent's prompt, kept again; that the playbook could not be is dropped. *)
Restored(r) ==
    /\ At(r, "restore") /\ mem[r].todo = {}
    /\ \E ok, stored \in BOOLEAN :
         LET prompt == row[mem[r].parent].prompt
         IN  mem' = [mem EXCEPT ![r] = Note([mem[r] EXCEPT
               !.pc = "sinks", !.asked = prompt, !.prompt = IF ok THEN prompt ELSE 0,
               !.resolved = IF stored THEN mem[r].book ELSE 0], ok)]
    /\ UNCHANGED <<others, record>>

-----------------------------------------------------------------------------
(***************************************************************************)
(* agentAndSinks and deliver.                                              *)
(***************************************************************************)

(* The sinks are built, the timeout and the servers read; any may refuse. *)
Prepare(r) ==
    /\ At(r, "sinks") /\ mem[r].kind # "resume"
    /\ mem' = [mem EXCEPT ![r].pc = "fence"]
    /\ UNCHANGED <<others, record>>

PrepareRefused(r) ==
    /\ At(r, "sinks")
    /\ mem' = [mem EXCEPT ![r] = Ends(@, "refused")]
    /\ UNCHANGED <<others, record>>

(* A resume takes the report its parent kept, and counts on delivering it. *)
TakeReport(r) ==
    /\ At(r, "sinks") /\ mem[r].kind = "resume"
    /\ \E ok \in BOOLEAN :
         mem' = [mem EXCEPT ![r] = Note([mem[r] EXCEPT
           !.pc = "deliver", !.status = "succeeded",
           !.report = IF ok THEN row[mem[r].parent].report ELSE None], ok)]
    /\ UNCHANGED <<others, record>>

(* The first fence. *)
FencePasses(r) ==
    /\ At(r, "fence") /\ ~mem[r].stopped
    /\ mem' = [mem EXCEPT ![r].pc = "agent"]
    /\ UNCHANGED <<others, record>>

(* A fence that fails has decided to stop the run. *)
FenceFails(r) ==
    /\ At(r, "fence")
    /\ mem' = [mem EXCEPT ![r] = [Ends(@, "failed") EXCEPT !.stopped = TRUE]]
    /\ UNCHANGED <<others, record>>

(* The agent could not be run, was aborted at startup, or timed out. *)
AgentEnds(r) ==
    /\ At(r, "agent")
    /\ \E ok \in BOOLEAN, status \in {"failed", "refused", "timed_out"} :
         mem' = [mem EXCEPT ![r] = Note(Ends(@, status), ok)]
    /\ UNCHANGED <<others, record>>

(* Its report is not one, and the sinks are told that. *)
ReportRefused(r) ==
    /\ At(r, "agent")
    /\ \E ok \in BOOLEAN :
         mem' = [mem EXCEPT ![r] = Note([mem[r] EXCEPT !.pc = "deliver", !.status = "failed"], ok)]
    /\ UNCHANGED <<others, record>>

Report(r) ==
    /\ At(r, "agent") /\ StagesGoOn(r)
    /\ \E ok, stored \in BOOLEAN :
         mem' = [mem EXCEPT ![r] = Note([mem[r] EXCEPT
           !.pc = "deliver", !.status = "succeeded", !.report = IF stored THEN r ELSE None],
           ok /\ stored)]
    /\ UNCHANGED <<others, record>>

(* DeliverAll: a fence before each sink, and a sink that fails stops nothing.
   "delivered" is any outcome that is not a failure: a sink that has nothing to
   do is skipped, on whatever context. *)
Deliver(r) ==
    /\ At(r, "deliver") /\ mem[r].sink <= Sinks /\ ~mem[r].stopped
    /\ \E how \in {"delivered", "failed"} :
         mem' = [mem EXCEPT ![r].sent[mem[r].sink] = how, ![r].sink = @ + 1]
    /\ UNCHANGED <<others, record>>

(* The gate refuses, and nothing more is delivered. *)
GateRefuses(r) ==
    /\ At(r, "deliver") /\ mem[r].sink <= Sinks
    /\ mem' = [mem EXCEPT ![r].stopped = TRUE, ![r].pc = "note",
                          ![r].todo = {}, ![r].sink = 1]
    /\ UNCHANGED <<others, record>>

Delivered(r) ==
    /\ At(r, "deliver") /\ mem[r].sink > Sinks
    /\ mem' = [mem EXCEPT ![r].pc = "note", ![r].sink = 1]
    /\ UNCHANGED <<others, record>>

(* What one sink did, in the record; a failed one fails the run. *)
NoteSink(r) ==
    LET n == mem[r].sink
        did == mem[r].sent[n]
        failed == did = "failed" /\ mem[r].status = "succeeded"
    IN  /\ At(r, "note") /\ n <= Sinks
        /\ did # "no"
        /\ \E ok \in BOOLEAN :
             /\ ok => StoreWorks(r)
             /\ noted' = [noted EXCEPT ![r][n] = IF ok THEN did ELSE "no"]
             /\ mem' = [mem EXCEPT ![r] = Note([mem[r] EXCEPT !.sink = n + 1,
                  !.status = IF failed THEN "failed" ELSE @,
                  !.says = IF failed THEN @ \cup {"resumable"} ELSE @], ok)]
        /\ UNCHANGED <<others, row, kept, dirs>>

NotedAll(r) ==
    /\ At(r, "note")
    /\ mem[r].sink <= Sinks => mem[r].sent[mem[r].sink] = "no"
    /\ mem' = [mem EXCEPT ![r].pc = "finishing"]
    /\ UNCHANGED <<others, record>>

-----------------------------------------------------------------------------
(***************************************************************************)
(* Finish: the terminal state, the directory, the claim, in that order and *)
(* whatever fails.                                                         *)
(***************************************************************************)

(* Fault variant: an incomplete record fails nothing. *)
StatusWhateverIsKept(m) == IF m.stopped THEN "claim_lost" ELSE m.status

(* finished: a run whose record is incomplete did not succeed. *)
Finished(m) ==
    IF m.status = "succeeded" /\ "incomplete" \in m.says THEN "failed" ELSE m.status

(* stoppedByTheGuard. *)
FinalStatus(m) == IF m.stopped THEN "claim_lost" ELSE Finished(m)

FinishRun(r) ==
    /\ At(r, "finishing")
    /\ \/ /\ StoreWorks(r)
          /\ row' = [row EXCEPT ![r] =
               [status |-> FinalStatus(mem[r]), says |-> mem[r].says, prompt |-> mem[r].prompt,
                resolved |-> mem[r].resolved, report |-> mem[r].report]]
       \/ UNCHANGED row
    /\ mem' = [mem EXCEPT ![r] = Left(@, "removing")]
    /\ UNCHANGED <<others, kept, noted, dirs>>

(* Fault variant: a terminal state that was not recorded returns at once. *)
RemoveIfRecorded(r) ==
    /\ At(r, "removing")
    /\ row[r].status \in Terminal
    /\ mem' = [mem EXCEPT ![r].pc = "releasing"]
    /\ dirs' = dirs \ {r}
    /\ UNCHANGED <<others, row, kept, noted>>

RemoveDir(r) ==
    /\ At(r, "removing")
    /\ mem' = [mem EXCEPT ![r].pc = "releasing"]
    /\ dirs' = dirs \ {r}
    /\ UNCHANGED <<others, row, kept, noted>>

Release(r) ==
    /\ At(r, "releasing")
    /\ mem' = [mem EXCEPT ![r] = Left(@, "over")]
    /\ claim' = None
    /\ UNCHANGED <<file, record>>

-----------------------------------------------------------------------------
(***************************************************************************)
(* What happens to a run, and around it.                                   *)
(***************************************************************************)

Live(r) == mem[r].pc \notin {"idle", "over"}

(* Past FinishRun neither context is read. *)
InHand(r) == Live(r) /\ mem[r].pc \notin {"removing", "releasing"}

(* serve is signalled: both contexts end.  The other commands have no handler, and
   a signal is a death. *)
Signal(r) ==
    /\ InHand(r) /\ ~mem[r].cancelled
    /\ mem' = [mem EXCEPT ![r].cancelled = TRUE]
    /\ UNCHANGED <<others, record>>

(* The hold decides to stop the run (Hold): its own context ends. *)
ClaimLost(r) ==
    /\ InHand(r) /\ ~mem[r].stopped /\ ~At(r, "beginning")
    /\ mem' = [mem EXCEPT ![r].stopped = TRUE]
    /\ UNCHANGED <<others, record>>

(* The process dies, and the coordinator frees its claim. *)
Die(r) ==
    /\ Live(r)
    /\ mem' = [mem EXCEPT ![r] = Left(@, "over")]
    /\ claim' = None
    /\ UNCHANGED <<file, record>>

(* Fault variant: every run that did not succeed is marked. *)
MarkUnfinishedAsInterrupted ==
    /\ \E r \in Ids : row[r].status = "running"
    /\ row' = [r \in Ids |-> IF row[r].status \in {"running", "failed"}
                             THEN [row[r] EXCEPT !.status = "interrupted", !.says = {}]
                             ELSE row[r]]
    /\ UNCHANGED <<others, mem, kept, noted, dirs>>

(* serve starts: what the record calls running cannot be. *)
MarkRunningAsInterrupted ==
    /\ \E r \in Ids : row[r].status = "running"
    /\ row' = [r \in Ids |-> IF row[r].status = "running"
                             THEN [row[r] EXCEPT !.status = "interrupted", !.says = {}]
                             ELSE row[r]]
    /\ UNCHANGED <<others, mem, kept, noted, dirs>>

(* Someone edits the playbook, or its prompt. *)
Edit(which) ==
    /\ file[which] < MaxEdition
    /\ file' = [file EXCEPT ![which] = @ + 1]
    /\ UNCHANGED <<claim, mem, record>>

-----------------------------------------------------------------------------

Step(r) ==
    \/ Begin(r) \/ BeginFails(r) \/ Gather(r) \/ KeepGathered(r) \/ GatherRefused(r)
    \/ Prompt(r) \/ PromptRefused(r) \/ Restore(r) \/ RestoreRefused(r) \/ Restored(r)
    \/ Prepare(r) \/ PrepareRefused(r) \/ TakeReport(r) \/ FencePasses(r) \/ FenceFails(r)
    \/ AgentEnds(r) \/ ReportRefused(r) \/ Report(r)
    \/ Deliver(r) \/ GateRefuses(r) \/ Delivered(r) \/ NoteSink(r) \/ NotedAll(r)
    \/ FinishRun(r) \/ RemoveDir(r) \/ Release(r)

Admit(r) ==
    \E kind \in {"manual", "replay", "resume"}, p \in Ids \cup {None} :
        p # r /\ Admitted(r, kind, p)

Next ==
    \/ \E r \in Ids : Admit(r) \/ Step(r) \/ Signal(r) \/ ClaimLost(r) \/ Die(r)
    \/ MarkRunningAsInterrupted
    \/ \E which \in {"book", "prompt"} : Edit(which)

Spec == Init /\ [][Next]_vars

-----------------------------------------------------------------------------
(***************************************************************************)
(* Properties.                                                             *)
(***************************************************************************)

(* Every variable has its type. *)
TypeOK ==
    /\ file \in [{"book", "prompt"} -> Editions]
    /\ claim \in Ids \cup {None}
    /\ \A r \in Ids :
         /\ mem[r].parent \in Ids \cup {None}
         /\ mem[r].files \subseteq Inputs /\ mem[r].todo \subseteq Inputs
         /\ mem[r].sink \in 1..(Sinks + 1)
         /\ row[r].status \in Terminal \cup {"none", "running"}
         /\ row[r].says \subseteq {"incomplete", "resumable"}
         /\ {row[r].prompt, row[r].resolved} \subseteq Editions \cup {0}
         /\ row[r].report \in Ids \cup {None}
         /\ Live(r) <=> claim = r
    /\ kept \in [Ids -> [Inputs -> {"no", "row", "blob"}]]
    /\ noted \in [Ids -> [1..Sinks -> {"no", "delivered", "failed"}]]
    /\ dirs \subseteq Ids

(* execute.go, finished and deliver: a run the record calls succeeded has every
   sink in the record as not failed, its report, and whatever its agent read, be
   it the first run, a replay or a resume. *)
SucceededIsWhole ==
    \A r \in Ids : row[r].status = "succeeded" =>
        /\ \A n \in 1..Sinks : noted[r][n] = "delivered"
        /\ row[r].report # None
        /\ mem[r].kind # "resume" =>
             /\ row[r].prompt = mem[r].asked
             /\ \A i \in mem[r].files : kept[r][i] = "blob"
        /\ mem[r].kind = "manual" => row[r].resolved = mem[r].book

(* FR-011 and FR-026, Finish: of what was in a working directory that is gone,
   nothing is missing from the record of a run that finished, however it did,
   unless the row says the record is incomplete. *)
KeptBeforeRemoved ==
    \A r \in Ids \ dirs : row[r].status \in Terminal \ {"interrupted"} =>
        \/ "incomplete" \in row[r].says
        \/ \A i \in mem[r].files : kept[r][i] = "blob"

(* FR-027, FR-028 and ErrPlaybookChanged: a replay works on exactly the inputs its
   parent's record kept, which are all the parent had unless its row says the
   record is incomplete, under the playbook the parent had; a resume delivers a
   report under the playbook it was written for. *)
SameInputs ==
    \A r \in Ids :
        /\ mem[r].kind = "replay" /\ mem[r].asked # 0 =>
             LET p == mem[r].parent
             IN  /\ mem[r].files = {i \in Inputs : kept[p][i] = "blob"}
                 /\ "incomplete" \notin row[p].says => mem[r].files = mem[p].files
                 /\ mem[r].book = mem[p].book
        /\ mem[r].kind = "resume" /\ mem[r].report # None =>
             mem[r].book = mem[mem[r].report].book

(* FR-031: a row that has an outcome keeps it; only one marked interrupted may yet
   get that of its own run, and none goes back to running. *)
OutcomeIsFinal ==
    [][\A r \in Ids : row[r].status \in Terminal /\ row'[r] # row[r] =>
           row[r].status = "interrupted" /\ At(r, "finishing")]_vars

(* Finish: whatever fails, the run that has the claim has a step it can take; no
   step of a run leads back to an earlier one, so it comes to its Release. *)
ClaimComesBack == \A r \in Ids : claim = r => ENABLED Step(r)
=============================================================================

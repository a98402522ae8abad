------------------------------ MODULE Waiting ------------------------------
(***************************************************************************)
(* The guard's waiting slot: a manual trigger refused because its playbook *)
(* is running waits for the claim, at most one per playbook among the      *)
(* processes that share a state directory.  The wait lives in the memory   *)
(* of one `gronin run` process; the record store keeps its row, and an     *)
(* advisory lock on instances/<id>.lock says whether that process still    *)
(* lives.  Any process may reconcile: mark dropped the rows whose process  *)
(* is gone.                                                                *)
(*                                                                         *)
(* Source: runtime/internal/guard/wait.go, guard.go (Admit), instance.go,  *)
(* stamp.go, internal/record/waiting.go and runs.go (CreateRun),           *)
(* cmd/gronin/run_cmd.go and deployment.go.                                *)
(*                                                                         *)
(* One process carries one manual trigger, so a process stands for its     *)
(* trigger, its instance identifier and its waiting row.  The coordinator  *)
(* is taken at its interface: Acquire answers taken, held or another       *)
(* refusal, Released may return at any time (coordinator.go:17-19).        *)
(***************************************************************************)
EXTENDS Integers, FiniteSets

CONSTANTS
    Processes,     \* the `gronin run` processes
    Reconcilers,   \* `gronin refusals` and `serve` starting up, again and again
    Playbooks,     \* playbook names
    BookOf,        \* the playbook each process was asked to run
    Unreadable,    \* instances whose lock file cannot be examined while it exists
    Tick,          \* a run of the playbook that is nobody's trigger here
    None,          \* no holder, no row
    MaxEdits,      \* bound: edits of a playbook's directory
    MaxFaults      \* bound: record-store calls that fail

Actors == Processes \cup Reconcilers

ASSUME ProcessesAssumption ==
    /\ BookOf \in [Processes -> Playbooks]
    /\ Processes \cap Reconcilers = {}
    /\ None \notin Actors /\ Tick \notin Actors /\ None # Tick

ASSUME BoundsAssumption == MaxEdits \in Nat /\ MaxFaults \in Nat

VARIABLES
    pc,         \* where each process is, between HoldInstance and its exit
    expired,    \* the trigger's declared wait has passed, on the monotonic reading
    stamp,      \* the directory stamp of the last read of the playbook
    loaded,     \* the version of the playbook that read returned, -1 before one
    claimedAt,  \* history: the version on disk when the claim was taken
    file,       \* instances/<p>.lock exists
    flock,      \* who holds the advisory lock on it
    step,       \* where each actor's Reconcile is
    todo,       \* the waiting rows it read and has not handled
    named,      \* those of them a run already named when it read them
    at,         \* the row it is looking at
    row,        \* waiting_triggers: the outcome column of each process's row
    refusals,   \* how many refusals the record holds for each trigger
    runs,       \* the run row each trigger became
    claim,      \* who holds each playbook's claim
    version,    \* the playbook's directory, as its stamp tells it apart
    content,    \* what the load gate makes of the file now
    faults      \* record-store failures so far

mem   == <<expired, stamp, loaded, claimedAt>>
proc  == <<pc, mem>>
inst  == <<file, flock>>
recon == <<step, todo, named, at>>
store == <<row, refusals, runs>>
disk  == <<version, content>>
vars  == <<proc, inst, recon, store, claim, disk, faults>>

(* The states of a process in which its wait is in progress: await's loop. *)
InWait == {"round", "watching", "reading", "loading", "claiming", "checking"}

(* The states from which a run can still start or is going. *)
Entitled == {"checking", "admitted", "running"}

Live == InWait \cup Entitled \cup
        {"asking", "reconciling", "accepting", "closing", "unlocking"}

PCs == Live \cup {"idle", "gone"}

Steps == {"off", "read", "each", "opened", "locked", "ended"}

WaitOutcomes == {"ran", "wait_expired", "rate_limited", "playbook_changed",
                 "backend_unavailable", "dropped"}

Init ==
    /\ pc = [p \in Processes |-> "idle"]
    /\ expired = [p \in Processes |-> FALSE]
    /\ stamp = [p \in Processes |-> 0]
    /\ loaded = [p \in Processes |-> -1]
    /\ claimedAt = [p \in Processes |-> -1]
    /\ file = [p \in Processes |-> FALSE]
    /\ flock = [p \in Processes |-> None]
    /\ step = [a \in Actors |-> "off"]
    /\ todo = [a \in Actors |-> {}]
    /\ named = [a \in Actors |-> {}]
    /\ at = [a \in Actors |-> None]
    /\ row = [p \in Processes |-> "none"]
    /\ refusals = [p \in Processes |-> 0]
    /\ runs = [p \in Processes |-> "none"]
    /\ claim \in [Playbooks -> {None, Tick}]
    /\ version = [b \in Playbooks |-> 0]
    /\ content = [b \in Playbooks |-> "loads"]
    /\ faults = 0

-----------------------------------------------------------------------------
(***************************************************************************)
(* Parts shared by the actions.                                            *)
(***************************************************************************)

Go(p, next) == pc' = [pc EXCEPT ![p] = next]

OnlyMoves(p, from, to) ==
    /\ pc[p] = from
    /\ Go(p, to)
    /\ UNCHANGED <<mem, inst, recon, store, claim, disk, faults>>

(* A record-store call that fails: the failure is the model's, and bounded. *)
StoreFails == faults < MaxFaults /\ faults' = faults + 1

(* Fault variants: EndWait without its WHERE outcome = 'waiting', and with the
   refusal inserted whether or not a row changed. *)
EndWaitUnconditionally(q, outcome) ==
    /\ row' = [row EXCEPT ![q] = outcome]
    /\ refusals' = [refusals EXCEPT ![q] = @ + 1]

EndWaitRefusingAnyway(q, outcome) ==
    /\ row' = IF row[q] = "waiting" THEN [row EXCEPT ![q] = outcome] ELSE row
    /\ refusals' = [refusals EXCEPT ![q] = @ + 1]

(* EndWait: one transaction that ends the wait and writes its refusal, and
   changes nothing when the wait has already ended. *)
EndWait(q, outcome) ==
    IF row[q] = "waiting"
    THEN /\ row' = [row EXCEPT ![q] = outcome]
         /\ refusals' = IF outcome = "ran" THEN refusals
                        ELSE [refusals EXCEPT ![q] = @ + 1]
    ELSE UNCHANGED <<row, refusals>>

(* endWait: a wait ended by its own process, whose write may fail. *)
EndOwnWait(p, outcome) ==
    /\ \/ EndWait(p, outcome) /\ UNCHANGED faults
       \/ StoreFails /\ UNCHANGED <<row, refusals>>
    /\ Go(p, "closing")
    /\ UNCHANGED <<mem, inst, recon, runs, claim, disk>>

(* recordRefusal: a trigger refused without having waited. *)
Refuse(p) ==
    /\ \/ refusals' = [refusals EXCEPT ![p] = @ + 1] /\ UNCHANGED faults
       \/ StoreFails /\ UNCHANGED refusals
    /\ Go(p, "closing")
    /\ UNCHANGED <<mem, inst, recon, row, runs, claim, disk>>

(* Claim.Release, which a backend out of reach may leave to the expiry. *)
Release(p) ==
    \/ claim' = [claim EXCEPT ![BookOf[p]] = None]
    \/ UNCHANGED claim

(* What a process lets go of when it ends: every advisory lock it holds. *)
Unlocked(p) == [q \in Processes |-> IF flock[q] = p THEN None ELSE flock[q]]

-----------------------------------------------------------------------------
(***************************************************************************)
(* A `gronin run` process, from HoldInstance to the first answer.          *)
(***************************************************************************)

(* HoldInstance: no row names the instance yet, so its two system calls are
   one step to everyone else. *)
Start(p) ==
    /\ pc[p] = "idle"
    /\ Go(p, "asking")
    /\ file' = [file EXCEPT ![p] = TRUE]
    /\ flock' = [flock EXCEPT ![p] = p]
    /\ UNCHANGED <<mem, recon, store, claim, disk, faults>>

(* Admit: the first Acquire.  Held sends the trigger to wait, and waiting
   begins with a reconciliation. *)
AskTaken(p) ==
    /\ pc[p] = "asking"
    /\ claim[BookOf[p]] = None
    /\ claim' = [claim EXCEPT ![BookOf[p]] = p]
    /\ Go(p, "admitted")
    /\ UNCHANGED <<mem, inst, recon, store, disk, faults>>

AskHeld(p) ==
    /\ pc[p] = "asking"
    /\ claim[BookOf[p]] # None
    /\ Go(p, "reconciling")
    /\ step' = [step EXCEPT ![p] = "read"]
    /\ UNCHANGED <<mem, inst, todo, named, at, store, claim, disk, faults>>

AskRefused(p) ==
    /\ pc[p] = "asking"
    /\ Refuse(p)

-----------------------------------------------------------------------------
(***************************************************************************)
(* Reconcile, run by any actor.                                            *)
(***************************************************************************)

ReconcileStart(a) ==
    /\ a \in Reconcilers
    /\ step[a] = "off"
    /\ step' = [step EXCEPT ![a] = "read"]
    /\ UNCHANGED <<proc, inst, todo, named, at, store, claim, disk, faults>>

(* The end of Reconcile, which a process does before it takes the slot. *)
LeaveReconcile(a) ==
    /\ step' = [step EXCEPT ![a] = "off"]
    /\ todo' = [todo EXCEPT ![a] = {}]
    /\ named' = [named EXCEPT ![a] = {}]
    /\ at' = [at EXCEPT ![a] = None]
    /\ pc' = IF a \in Processes THEN [pc EXCEPT ![a] = "accepting"] ELSE pc
    /\ UNCHANGED mem

StillWaiting(a) ==
    /\ step[a] = "read"
    /\ step' = [step EXCEPT ![a] = "each"]
    /\ todo' = [todo EXCEPT ![a] = {q \in Processes : row[q] = "waiting"}]
    /\ named' = [named EXCEPT ![a] = {q \in Processes : row[q] = "waiting" /\ runs[q] # "none"}]
    /\ UNCHANGED <<proc, inst, at, store, claim, disk, faults>>

(* Fault variant: a missing lock file reads as alive. *)
ReconcileOpenMissingIsAlive(a) ==
    /\ step[a] = "each"
    /\ \E q \in todo[a] :
         LET next == IF q \in named[a] THEN "ended" ELSE IF file[q] THEN "opened" ELSE "each"
         IN  /\ step' = [step EXCEPT ![a] = next]
             /\ todo' = [todo EXCEPT ![a] = @ \ {q}]
             /\ at' = [at EXCEPT ![a] = IF next = "each" THEN None ELSE q]
    /\ UNCHANGED <<proc, inst, named, store, claim, disk, faults>>

(* alive, first half: the lock file is opened.  Missing means dead; one that
   cannot be examined reads as alive.  A row a run names is not probed. *)
ReconcileOpen(a) ==
    /\ step[a] = "each"
    /\ \E q \in todo[a] :
         LET next == IF q \in named[a] \/ ~file[q] THEN "ended"
                     ELSE IF q \in Unreadable THEN "each" ELSE "opened"
         IN  /\ step' = [step EXCEPT ![a] = next]
             /\ todo' = [todo EXCEPT ![a] = @ \ {q}]
             /\ at' = [at EXCEPT ![a] = IF next = "each" THEN None ELSE q]
    /\ UNCHANGED <<proc, inst, named, store, claim, disk, faults>>

(* alive, second half: the lock is asked for.  Refused means alive. *)
ReconcileAlive(a) ==
    /\ step[a] = "opened"
    /\ flock[at[a]] # None
    /\ step' = [step EXCEPT ![a] = "each"]
    /\ at' = [at EXCEPT ![a] = None]
    /\ UNCHANGED <<proc, inst, todo, named, store, claim, disk, faults>>

(* Fault variant: the answer of the lock call is not looked at. *)
ReconcileLockUnchecked(a) ==
    /\ step[a] = "opened"
    /\ step' = [step EXCEPT ![a] = "locked"]
    /\ UNCHANGED <<proc, inst, todo, named, at, store, claim, disk, faults>>

ReconcileLock(a) ==
    /\ step[a] = "opened"
    /\ flock[at[a]] = None
    /\ flock' = [flock EXCEPT ![at[a]] = a]
    /\ step' = [step EXCEPT ![a] = "locked"]
    /\ UNCHANGED <<proc, file, todo, named, at, store, claim, disk, faults>>

(* Proven dead while the lock is held: the file goes, then the descriptor. *)
ReconcileRemove(a) ==
    /\ step[a] = "locked"
    /\ file' = [file EXCEPT ![at[a]] = FALSE]
    /\ flock' = [flock EXCEPT ![at[a]] = None]
    /\ step' = [step EXCEPT ![a] = "ended"]
    /\ UNCHANGED <<proc, todo, named, at, store, claim, disk, faults>>

ReconcileEnd(a) ==
    /\ step[a] = "ended"
    /\ EndWait(at[a], IF at[a] \in named[a] THEN "ran" ELSE "dropped")
    /\ step' = [step EXCEPT ![a] = "each"]
    /\ at' = [at EXCEPT ![a] = None]
    /\ UNCHANGED <<proc, inst, todo, named, runs, claim, disk, faults>>

(* A store call that fails ends the reconciliation, its other rows unread. *)
ReconcileFails(a) ==
    /\ step[a] \in {"read", "ended"}
    /\ StoreFails
    /\ LeaveReconcile(a)
    /\ UNCHANGED <<inst, store, claim, disk>>

ReconcileDone(a) ==
    /\ step[a] = "each"
    /\ todo[a] = {}
    /\ LeaveReconcile(a)
    /\ UNCHANGED <<inst, store, claim, disk, faults>>

-----------------------------------------------------------------------------
(***************************************************************************)
(* The wait: accept, then rounds of try.                                   *)
(***************************************************************************)

SlotFull(p) == \E q \in Processes : BookOf[q] = BookOf[p] /\ row[q] = "waiting"

(* Fault variant: the row is inserted without looking for another. *)
AcceptWaitingUnchecked(p) ==
    /\ pc[p] = "accepting"
    /\ row' = [row EXCEPT ![p] = "waiting"]
    /\ Go(p, "round")
    /\ UNCHANGED <<mem, inst, recon, refusals, runs, claim, disk, faults>>

(* AcceptWaiting: the row is inserted only if no other waits, in one
   statement. *)
AcceptWaiting(p) ==
    /\ pc[p] = "accepting"
    /\ ~SlotFull(p)
    /\ row' = [row EXCEPT ![p] = "waiting"]
    /\ Go(p, "round")
    /\ UNCHANGED <<mem, inst, recon, refusals, runs, claim, disk, faults>>

AcceptSlotFull(p) ==
    /\ pc[p] = "accepting"
    /\ SlotFull(p)
    /\ Refuse(p)

AcceptFails(p) ==
    /\ pc[p] = "accepting"
    /\ StoreFails
    /\ Go(p, "closing")
    /\ UNCHANGED <<mem, inst, recon, store, claim, disk>>

(* The clock passes accepted + expiry. *)
Expire(p) ==
    /\ pc[p] \in InWait \cup {"accepting", "admitted"}
    /\ ~expired[p]
    /\ expired' = [expired EXCEPT ![p] = TRUE]
    /\ UNCHANGED <<pc, stamp, loaded, claimedAt, inst, recon, store, claim, disk, faults>>

(* The top of try. *)
RoundWatch(p) == ~expired[p] /\ OnlyMoves(p, "round", "watching")

RoundExpired(p) ==
    /\ pc[p] = "round"
    /\ expired[p]
    /\ EndOwnWait(p, "wait_expired")

(* Released returned, or its watch ended with the expiry: the wait goes on
   only if it has not expired by now. *)
WatchReturns(p) == OnlyMoves(p, "watching", IF expired[p] THEN "round" ELSE "reading")

WatchFails(p) ==
    /\ pc[p] = "watching"
    /\ ~expired[p]
    /\ EndOwnWait(p, "backend_unavailable")

(* reread: the directory is stamped first, and read only if it changed. *)
ReadStamp(p) ==
    /\ pc[p] = "reading"
    /\ Go(p, IF loaded[p] # -1 /\ stamp[p] = version[BookOf[p]] THEN "claiming" ELSE "loading")
    /\ stamp' = [stamp EXCEPT ![p] = version[BookOf[p]]]
    /\ UNCHANGED <<expired, loaded, claimedAt, inst, recon, store, claim, disk, faults>>

Reload(p) ==
    /\ pc[p] = "loading"
    /\ content[BookOf[p]] = "loads"
    /\ loaded' = [loaded EXCEPT ![p] = version[BookOf[p]]]
    /\ Go(p, "claiming")
    /\ UNCHANGED <<expired, stamp, claimedAt, inst, recon, store, claim, disk, faults>>

(* The file no longer passes the gate, or declares another name. *)
ReloadRefused(p) ==
    /\ pc[p] = "loading"
    /\ content[BookOf[p]] # "loads"
    /\ EndOwnWait(p, "playbook_changed")

(* Acquire, again. *)
ClaimTaken(p) ==
    /\ pc[p] = "claiming"
    /\ claim[BookOf[p]] = None
    /\ claim' = [claim EXCEPT ![BookOf[p]] = p]
    /\ claimedAt' = [claimedAt EXCEPT ![p] = version[BookOf[p]]]
    /\ Go(p, "checking")
    /\ UNCHANGED <<expired, stamp, loaded, inst, recon, store, disk, faults>>

ClaimHeld(p) == claim[BookOf[p]] # None /\ OnlyMoves(p, "claiming", "round")

ClaimRefused(p) ==
    /\ pc[p] = "claiming"
    /\ \E outcome \in {"rate_limited", "backend_unavailable"} : EndOwnWait(p, outcome)

(* The file changed while Acquire was in flight: giveBack, and another round. *)
GiveBack(p) ==
    /\ pc[p] = "checking"
    /\ stamp[p] # version[BookOf[p]]
    /\ Release(p)
    /\ Go(p, "round")
    /\ UNCHANGED <<mem, inst, recon, store, disk, faults>>

(* Fault variant: the file is not looked at again once the claim is held. *)
AdmitUnchecked(p) == OnlyMoves(p, "checking", "admitted")

Admit(p) == stamp[p] = version[BookOf[p]] /\ OnlyMoves(p, "checking", "admitted")

(* The caller's context ends while it waits: the row stays waiting. *)
StopWaiting(p) == \E from \in InWait \ {"checking"} : OnlyMoves(p, from, "closing")

-----------------------------------------------------------------------------
(***************************************************************************)
(* The run, and the end of the process.                                    *)
(***************************************************************************)

(* CreateRun: the run and the end of the wait it came from are one
   transaction, refused when that wait has already ended. *)
CreateRun(p) ==
    /\ pc[p] = "admitted"
    /\ row[p] \in {"none", "waiting"}
    /\ runs' = [runs EXCEPT ![p] = "running"]
    /\ row' = [row EXCEPT ![p] = IF @ = "waiting" THEN "ran" ELSE @]
    /\ Go(p, "running")
    /\ UNCHANGED <<mem, inst, recon, refusals, claim, disk, faults>>

(* Begin failed, on the store or on a wait that had already ended: the claim
   is released and Execute returns. *)
BeginFails(p) ==
    /\ pc[p] = "admitted"
    /\ row[p] \in {"none", "waiting"} => faults < MaxFaults
    /\ faults' = IF row[p] \in {"none", "waiting"} THEN faults + 1 ELSE faults
    /\ Release(p)
    /\ Go(p, "closing")
    /\ UNCHANGED <<mem, inst, recon, store, disk>>

Finish(p) ==
    /\ pc[p] = "running"
    /\ runs' = [runs EXCEPT ![p] = "finished"]
    /\ Release(p)
    /\ Go(p, "closing")
    /\ UNCHANGED <<mem, inst, recon, row, refusals, disk, faults>>

(* Instance.Close: the file goes first, then the lock. *)
CloseRemove(p) ==
    /\ pc[p] = "closing"
    /\ file' = [file EXCEPT ![p] = FALSE]
    /\ Go(p, "unlocking")
    /\ UNCHANGED <<mem, flock, recon, store, claim, disk, faults>>

CloseUnlock(p) ==
    /\ pc[p] = "unlocking"
    /\ flock' = [flock EXCEPT ![p] = None]
    /\ Go(p, "gone")
    /\ UNCHANGED <<mem, file, recon, store, claim, disk, faults>>

(* SIGKILL, at any instant: the kernel gives back its locks, nothing else is
   written. *)
Kill(p) ==
    /\ pc[p] \in Live
    /\ Go(p, "gone")
    /\ flock' = Unlocked(p)
    /\ step' = [step EXCEPT ![p] = "off"]
    /\ todo' = [todo EXCEPT ![p] = {}]
    /\ named' = [named EXCEPT ![p] = {}]
    /\ at' = [at EXCEPT ![p] = None]
    /\ UNCHANGED <<mem, file, store, claim, disk, faults>>

-----------------------------------------------------------------------------
(***************************************************************************)
(* The environment: other runs of the playbook, a claim nobody is using    *)
(* any more, and an operator's editor.                                     *)
(***************************************************************************)

TickTakes(b) ==
    /\ claim[b] = None
    /\ claim' = [claim EXCEPT ![b] = Tick]
    /\ UNCHANGED <<proc, inst, recon, store, disk, faults>>

TickReleases(b) ==
    /\ claim[b] = Tick
    /\ claim' = [claim EXCEPT ![b] = None]
    /\ UNCHANGED <<proc, inst, recon, store, disk, faults>>

Lapse(b) ==
    /\ claim[b] \in Processes
    /\ pc[claim[b]] \notin Entitled
    /\ claim' = [claim EXCEPT ![b] = None]
    /\ UNCHANGED <<proc, inst, recon, store, disk, faults>>

Edit(b) ==
    /\ version[b] < MaxEdits
    /\ version' = [version EXCEPT ![b] = @ + 1]
    /\ \E now \in {"loads", "refused"} : content' = [content EXCEPT ![b] = now]
    /\ UNCHANGED <<proc, inst, recon, store, claim, faults>>

-----------------------------------------------------------------------------

ReconcileStep(a) ==
    \/ StillWaiting(a) \/ ReconcileOpen(a) \/ ReconcileAlive(a) \/ ReconcileLock(a)
    \/ ReconcileRemove(a) \/ ReconcileEnd(a) \/ ReconcileFails(a) \/ ReconcileDone(a)

(* What a process does of itself once it has started. *)
ProcessStep(p) ==
    \/ AskTaken(p) \/ AskHeld(p) \/ AskRefused(p)
    \/ AcceptWaiting(p) \/ AcceptSlotFull(p) \/ AcceptFails(p)
    \/ RoundWatch(p) \/ RoundExpired(p) \/ WatchReturns(p) \/ WatchFails(p)
    \/ ReadStamp(p) \/ Reload(p) \/ ReloadRefused(p)
    \/ ClaimTaken(p) \/ ClaimHeld(p) \/ ClaimRefused(p)
    \/ GiveBack(p) \/ Admit(p) \/ CreateRun(p) \/ BeginFails(p) \/ Finish(p)
    \/ CloseRemove(p) \/ CloseUnlock(p)

Environment(b) == TickTakes(b) \/ TickReleases(b) \/ Lapse(b) \/ Edit(b)

Next ==
    \/ \E p \in Processes :
          Start(p) \/ ProcessStep(p) \/ Expire(p) \/ StopWaiting(p) \/ Kill(p)
    \/ \E a \in Actors : ReconcileStart(a) \/ ReconcileStep(a)
    \/ \E b \in Playbooks : Environment(b)

Spec == Init /\ [][Next]_vars

(* A process that is scheduled takes its next step, its clock advances, and a
   reconciliation begun is carried through; one is begun again and again, by
   `gronin refusals`, `serve` or the next trigger to wait.  Nothing makes a
   process start, stop or be killed. *)
Fairness ==
    /\ \A p \in Processes : /\ WF_vars(ProcessStep(p))
                            /\ WF_vars(ReconcileStep(p))
                            /\ WF_vars(Expire(p))
    /\ \A a \in Reconcilers : /\ WF_vars(ReconcileStart(a))
                              /\ WF_vars(ReconcileStep(a))

FairSpec == Spec /\ Fairness
-----------------------------------------------------------------------------
(***************************************************************************)
(* Properties.                                                             *)
(***************************************************************************)

(* Every variable has its type. *)
TypeOK ==
    /\ pc \in [Processes -> PCs]
    /\ expired \in [Processes -> BOOLEAN]
    /\ stamp \in [Processes -> Nat]
    /\ loaded \in [Processes -> Nat \cup {-1}]
    /\ claimedAt \in [Processes -> Nat \cup {-1}]
    /\ file \in [Processes -> BOOLEAN]
    /\ flock \in [Processes -> Actors \cup {None}]
    /\ step \in [Actors -> Steps]
    /\ todo \in [Actors -> SUBSET Processes]
    /\ named \in [Actors -> SUBSET Processes]
    /\ at \in [Actors -> Processes \cup {None}]
    /\ row \in [Processes -> WaitOutcomes \cup {"none", "waiting"}]
    /\ refusals \in [Processes -> Nat]
    /\ runs \in [Processes -> {"none", "running", "finished"}]
    /\ claim \in [Playbooks -> Processes \cup {None, Tick}]
    /\ version \in [Playbooks -> Nat]
    /\ content \in [Playbooks -> {"loads", "refused"}]
    /\ faults \in Nat

(* FR-111, wait.go accept and waiting.go AcceptWaiting: at most one trigger
   of a playbook waits, however many processes share the state directory. *)
OneWaiterPerPlaybook ==
    \A p, q \in Processes :
        /\ row[p] = "waiting" /\ row[q] = "waiting" /\ BookOf[p] = BookOf[q]
        => p = q

(* FR-117, EndWait and CreateRun: whatever a trigger's own process, a kill
   and any number of reconciliations do, the record never says both that it
   ran and that it was refused, and never refuses it twice. *)
RunXorRefusal ==
    \A p \in Processes :
        /\ refusals[p] <= 1
        /\ runs[p] # "none" => refusals[p] = 0 /\ row[p] \in {"none", "ran"}
        /\ row[p] = "ran" => runs[p] # "none"

(* FR-113, instance.go alive and Reconcile: a wait is dropped only once its
   process has removed its lock file or is gone, so never while the trigger
   could still become a run. *)
LiveWaitNotDropped ==
    \A p \in Processes : row[p] = "dropped" => pc[p] \in {"unlocking", "gone"}

(* waiting.go:125-127: a wait ends once.  No later step, of its process or of
   a reconciliation that read its row earlier, changes how it ended or adds a
   refusal. *)
WaitEndsOnce ==
    [][\A p \in Processes :
          row[p] \in WaitOutcomes =>
              row'[p] = row[p] /\ refusals'[p] = refusals[p]]_vars

(* FR-121, wait.go reread and changed: a trigger that waited runs the file as
   it stood when its claim was taken, whenever the file was edited. *)
RunsTheClaimedFile ==
    \A p \in Processes :
        row[p] # "none" /\ pc[p] \in {"admitted", "running"} => loaded[p] = claimedAt[p]

(* FR-110, FR-113: a wait always ends, by its own process or, when that one is
   stopped, killed or cannot write, by a reconciliation. *)
WaitEventuallyEnds ==
    \A p \in Processes \ Unreadable : row[p] = "waiting" ~> row[p] # "waiting"
=============================================================================

# A TLA+ model of Gronin

Gronin runs *playbooks*: a trigger (a schedule, a command, a webhook) makes the
runtime gather inputs, ask an agent, and hand its report to sinks.  Two kinds of
promise are worth verifying.  Around the run: one run of a playbook at a time on
one host or on many, every trigger accounted for, every run recorded as what it
was, a delivery accepted once and decided once, an occurrence fired once, an
index that is searched whole while it is rewritten.  All of that is kept by
cooperating processes which share SQLite databases, a directory of advisory
locks and optionally an etcd cluster, and which may be killed between any two of
their steps.  And in the run: what the load gate looked at and accepted is bound
as it said, nothing is delivered of an agent that owned up to a tool or server
beyond its bounds, only a checked report is delivered, and a sink never opens more
than its cap.

The modules here model those parts of `runtime/`.  Definitions keep the source's
names; `PROJECT.json` maps each to its lines.

## Inventory

| component | state | operations | hard because |
|---|---|---|---|
| guard: waiting slot (`guard/wait.go`, `instance.go`, `stamp.go`) | the waiting row, the instance lock file, the wait's own memory (expiry, stamp, what was loaded) | Admit, accept, await, reread, giveBack, endWait, Reconcile, HoldInstance, Close | the wait is in one process and its row in a store everyone reconciles |
| guard: holding a claim (`guard/holder.go`, `config.go`) | the last renewal, the stop deadline, the fence, the exit timer | renew, stop, Fence, Done, Check | time: a renewal whose answer is lost, a timer that is late |
| guard: coordinator contract (`guard/coordinator.go`) | who has the claim, the last tick | Acquire, Release | both backends must keep it |
| guard: etcd coordinator (`guard/etcd/etcd.go`) | claim, tick and rate-slot keys, leases, revisions | Acquire, Fence, Renew, Release, Released | a transaction may commit after its caller gave up |
| run: file-lock coordinator (`run/filelock.go`, `record/ticks.go`, `rate.go`) | flock, the lock file's contents, last tick, rate starts | Acquire, Release | several steps, none of them atomic with the others |
| run: execution (`run/execute.go`, `replay.go`, `run.go`, `record/runs.go`) | rows, blobs, sink outcomes, the working directory | Execute, Replay, Resume, Finish, MarkRunningAsInterrupted | any write fails, the run is signalled, loses its claim or dies |
| ingress: acceptance and hand-off (`ingress/ingress.go`, `handoff.go`, `record/accept.go`) | delivery rows, hand-off rows | Accept, judge, HandOff, finishDelivery | retries of a sender reach other processes while the first hands off |
| schedule (`schedule/schedule.go`, `cmd/gronin/serve_cmd.go`) | the instant each entry is caught up to | Run, Tick, tickOne, NextDue | a fire blocks the loop, the clock is set, the process restarts |
| playbooks and the gate (`playbook/validate.go`, `load.go`, `values.go`) | the playbooks loaded | Validate, Load, LoadFile, Extract, Check | many rules, each about what another component does later |
| config and interpolation (`config/interpolate.go`, `shell.go`) | none | Interpolate, BindShell, QuotedReferences | a value must reach the shell as one word whatever surrounds its reference |
| stages gather and retrieve (`stage/gather`, `stage/retrieve`) | the files of the working directory | Run, runStep, retrieve, render | bound before one line runs; texts cut at bounds |
| stage agent (`stage/agent`, `proc`) | a child process, its pipe, the decoded stream, the stage's context | Run, Decode, CheckReceipt, observe, ValidateReport | the child may say anything in any order while its deadline, its claim or itself ends |
| sinks (`sink/build.go`, `github.go`, `webhook.go`) | open issues, posted messages, the delivery under way | Build, Deliver, openIssues, create, DeliverAll | a request may fail after it took effect; the repository changes between pages |
| index, collections (`internal/index`) | the generation, documents and passages of a database, and its locks | Open, Update, Rebuild, Compare, Search, the walks | an index is rewritten while it is searched and while its sources change |
| sources, MCP catalogue | files read | Load, Resolve, CheckReferences | pure |
| record store, blobs, redaction | tables and files | Open, Put, Redact | the tables are in the modules whose operations write them |
| commands, HTTP API, logging, identifiers | none of their own | | |

How they interact.  A command or the scheduler calls `guard.Admit`, which asks
the coordinator for the claim (and may wait for it, a manual trigger only), and
hands the run a bound context; `run.Execute` creates the row, works through the
stages asking the fence before each side effect, and `Finish` records the
terminal state and releases.  The holder's loop cancels that context.  The
ingress writes a delivery and then, per bound playbook, a hand-off, through a
dispatcher the repository declares and does not implement.  Inside a run, gather
binds every line before it runs one; each retrieval brings its collection's index
up to date and searches it; the prompt is read again; the sinks are built before
the agent is started and delivered to, one after the other behind the fence,
after its answer was validated.  `serve` reconciles
the runs and the waits of processes that are gone when it starts; `gronin
refusals` and every trigger that is about to wait reconcile the waits too.

What makes each correct, in one line each: a playbook's slot holds one waiter
and a trigger ends in a run or in one refusal (Waiting); a run that cannot renew
its claim is stopped in time, and outlives it by no more than is said below
(Hold); a held claim is current and a tick is taken
once (EtcdCoordinator, FileLock); what the record calls succeeded is whole and
what it says is final (Runs); along a chain of retries each playbook is decided
once (Delivery); an occurrence is fired or recorded, once and in order
(Schedule); an index's generation names what it holds, a search sees one, and
whoever uses it ends (Index); nothing the gate looks at refuses an accepted
playbook later, and a value is one word (Gate, Interpolate); nothing leaves a run
whose agent gave a receipt beyond its bounds or whose answer was not checked
(Agent);
what is open never passes the cap (Sinks).

## Modules and the code

| module | models | composed with |
|---|---|---|
| `Coordinator` | the `Coordinator` interface: abstract specification | refined by the two below |
| `EtcdCoordinator` | etcd.go, request by request | `INSTANCE Coordinator` with the claim key and the tick key |
| `FileLock` | filelock.go and the store's ticks and rate | `INSTANCE Coordinator` with the claim a call was answered |
| `Waiting` | Admit for a manual trigger, the wait, instance locks, Reconcile | the coordinator at its interface |
| `Hold` | the renewal loop, fence and exit around one run | the backend at its interface |
| `Runs` | Execute, Replay, Resume, Finish, and serve's reconciliation | claims at their interface |
| `Delivery` | Accept to finishDelivery over several processes | dispatcher external |
| `Schedule` | the loop of serve, its fires and restarts | a fire is a run of some length |
| `Passages` | how texts, reports, queries and result files are cut: operators over bytes | used by `MCIndex` |
| `Index` | one collection's index under retrievals, rebuilds and listings | `Cut` is `TextPassages` of `Passages` in `MCIndex` |
| `Interpolate` | references, their resolution, and the binding of a shell line: operators over tokens | extended by `Gate` |
| `Gate` | validate.go, load.go and values.go as operators over an abstract playbook | extended by `Agent` and `Sinks` |
| `Agent` | the child and what it leaves behind, its stream, its receipts, its deadline | composed in `Stages` |
| `Sinks` | build.go, the webhook's post, the github sink request by request | composed in `Stages` |
| `Stages` | a playbook from the gate to its sinks, then a resume or a second run | `Gate`, `Agent` and `Sinks` |

`EtcdCoordinatorProofs`, `FileLockProofs`, `RunsProofs`, `DeliveryProofs`,
`ScheduleProofs`, `IndexProofs` and `StagesProofs` extend the modules they are
named after with theorems, and `GuardProofs` extends `Waiting` and `Hold`, whose
specification is `HoldSpec` so that the two can stand in one module.
`MC*.tla` give the constants their values.  `EtcdCoordinator`, `FileLock` and `Hold`
share no name, so that `MCClaims` can check the three side by side.

**Waiting.**  A `gronin run` process carries one trigger, so one name stands for
the process, its instance and its row.  `pc` is where the process is in Admit,
await or the run; `inst` is the lock file and who has it; `recon` is where each
actor is in Reconcile, including the set of rows it read and may find stale;
`store` the rows.  One action per call that another process can see: `AskHeld`
then `AcceptWaiting` are the refused Acquire and the row's transaction; a round
of await is `RoundWatch`, `WatchReturns`, `ReadStamp`, `Reload`, `ClaimTaken`,
and either `GiveBack` (the file changed) or `Admit`.  `Kill` is at any point and
lets the lock go.  `MaxFaults` calls of the store fail, `MaxEdits` edits are
made.

**Hold.**  Ticks of the monotonic clock, durations as constants under exactly
what `Config.Check` demands.  `loop` is the renewal goroutine, `stage` the run,
`renewal` and `fence` the request in flight and what the backend made of it: an
extension may be made and its answer lost.  Code that waits for nothing takes no
time, and a timer is late by at most `Late`.

**EtcdCoordinator.**  Revisions, leases, transactions and watches are external
and reduced to what etcd.go relies on.  A request in flight after its caller
gave up stays in flight.  Time is left out, since a lease may end whenever it is
no longer renewed.

**FileLock.**  Lock, look at the tick, record it, look at the window, record the
start, write the contents: each a step, with a death between any two, and a wall
clock set to any of `Instants`.  `hasLimit` is whether the playbook declares a rate
limit.

**Runs.**  `mem` is what a process knows of its run, `row`, `kept` and `noted`
the record.  Every stage ends well or not by choice; every write may fail.
`serve` marks running rows interrupted whenever it starts.  Only `serve` handles
a signal; for another command a signal is a death.

**Delivery.**  All requests carry one identity, the case in which they interact.
A request without route, source, secret, body or signature is turned away whole
(`TurnAway`); one without a single identity is recorded (`RefuseIdentity`).
The decision of a playbook, run or refusal, is external: `Dispatcher` is an
interface in the repository, and a guard's refusal and a refusal of the
trigger's values are both a refusal row.  The chain of deliveries that
`decidedInChain` walks back to its root is `Chain(d)`, the least set that has `d`
and is closed under `supersedes`; the loop is not written out.

**Schedule.**  Occurrences are sets of instants.  Within a tick the playbooks
are taken up in any order.  A signal stops serve at once.

**Index.**  `db` is the database as last committed, `lock` SQLite's shared,
reserved and pending locks, `mem` what each process has: its walk, the generation
it read, its transaction.  Every read of a file and every statement that another
process could come between is a step.  A process dies, or its context ends, at
any of them.  A digest is the content it is taken of.  `since` and `overtaken` in
`mem` are history, kept for the properties.

**Passages.**  A text is a sequence of bytes: `x` and `s` are a letter and a
space, `n` a newline, `#` a mark of heading, `l` the first and `c` the second byte
of one character, `k` a secret.  `CutsAreWhole` of `MCIndex` compares every cut of
every input of a few bytes with a reference definition: nothing that is not
whitespace is lost, no character is split, no passage is over its size, no
neighbours that would fit together are apart, and a results file holds what it
says it holds.

**Interpolate, Gate.**  A text is a sequence of tokens, of which `${` is one, so a
reference that is nested, unterminated or repeated is written in a few.  A refusal
is the kind of its rule.  `Reads` is how `sh` reads a bound line, and
`OneWordEach` says that each reference's variable stands in one word by itself
and expands to the value.

**Agent.**  The child writes any of its events in any order; a line is read, and
decoded unless the reading has ended, in which case it is drained.  The deadline,
the child's exit and the kill are steps of their own, so each may come between any
two lines.  The child may leave a process outside its group with its stdout, its
stderr or both open (`ChildDetaches`): the kill does not reach it, it may write, and
the stream ends only when it lets go.  Where it has stderr, `os/exec` closes the
runtime's ends of the pipes a `WaitDelay` after the end of the context
(`ClosePipes`), and the wait of a stage whose context lives may fail.  No receipt
is asked for: a run whose agent gives none is delivered, in the model as in the
code, and a receipt is compared with the declaration whenever one comes.  The
schema's own tool is folded in always, since every playbook declares a schema.

**Sinks.**  The repository lists a label's issues newest first, a page at a time;
people close issues.  A request fails before or after it took effect.  A request
the runtime has given up on takes effect at once or never: one that the server
held back past the run would not be seen by a later listing.

**Stages.**  One state of `Stages` is one playbook of one deployment; `setup`
holds both with what the agent may say and what follows the run.  The claim may
be lost at any moment (`Stop`): the fence then refuses, and the stages are
cancelled.  Runs of one playbook do not overlap, which is what `Waiting`, `Hold`
and the coordinators are about.

## Runs

Passing runs.  The bounds are the constants named; the instance says why they
are enough for the question.

| run | question | instance |
|---|---|---|
| `MCWaiting` | slot, run or refusal, no live wait dropped, the file run is the file claimed, a wait ends once, every wait ends | 2 triggers, 1 independent reconciler (each trigger reconciles too), 1 edit, 1 failed write: two waiters compete, and a stale reconciliation meets each of them |
| `MCClaims` | etcd: a held claim is current, slots have one taker, refinement of Coordinator, no missed release, abandoned claims end; the file lock: window never exceeded, refinement of Coordinator, the lock comes free; the holder: decision, overrun of the lapse, loss and fence | etcd: without a limit 3 calls of 2 ticks (one tick fired by two hosts) and a watcher, under a limit of one run a tick and a manual trigger; the file lock: without a limit 4 calls of 2 ticks, under a limit 3 calls and a clock set among 3 instants; the holder: two effects, several renewals before `MaxNow`, every timer possibly late, and a margin that is less than an attempt, as with the defaults |
| `MCDelivery` | decided once along a chain, handed_off is true, one delivery per window, accepted is recorded | 3 requests so that a retry of a retry happens, 3 processes, 2 playbooks; for 2 of the requests also 2 instants, a window of 1, a death, a failed write and the answers |
| `MCSchedule` | no occurrence fired twice or out of order, every occurrence accounted for and taken up | 2 schedules of 4 and 1 occurrences, a limit of 2 so that the overflow happens, the clock set once to any instant |
| `MCRuns` | succeeded is whole, kept before removed, same inputs, outcome final, no run stops short of its release | a run and its replay or resume, at most one of which meets trouble, as often as it may; and a third, of the first or of a replay, without trouble |
| `MCIndex` | a generation names its contents, searches and listings are true of one, a search is fresh, every use ends, cuts are whole | pairs of a retrieval, a rebuild and a listing, and all three over reports; 2 files, 2 contents, 2 edits, a retry of the walk more than once; texts of up to 5 characters, reports three deep |
| `MCStages` | accepted is bound, delivered is checked, created is capped, a run ends | 3809 setups: lines of up to 5 quotes, escapes and references; every text field with every pair of references, open and closed; each rule of the gate broken alone; an agent of up to 3 events out of 10, and one that leaves something outside its group; repositories of 0 to 4 open issues, pages of 2, caps of 2 and 4, one github sink or two in a row, over two runs or a resume |

About 3900 texts and 2600 reports go through `CutsAreWhole` in each initial state of
`MCIndex`, whose constraint is that at most one process is in trouble.  In the code a
page holds 100 issues and the walk takes 20 pages and one that confirms its end, so
2100 open issues are one too many to count; with pages of two and a walk of one page
and its confirmation, the four issues of an instance are at that boundary.

Whether the playbook declares a rate limit is chosen at the start in the two
coordinators, and the constraint `Explored` of `MCClaims` says what is explored of
each case.  A behaviour of `MCClaims` is of etcd, of the file lock or of the holder,
chosen at the start too.  `MCDelivery` identifies states up to renaming of requests,
processes and playbooks; its constraint leaves out failed writes and a moving clock
in a chain of three.  `MCRuns`'s constraint means that two troubled runs are not
explored.  `MCIndex` makes two edits, so that it says nothing of a file that never
stops changing.  Instances in which everything comes to
an end do not check for deadlock; those of `Waiting` do.

`ClaimComesBack` is a safety form of a liveness property: a run is straight-line
code, so that a run which can always take a step comes to its release.

Fairness.  `Waiting`: a live process is scheduled, its expiry comes, and someone
reconciles again and again (the next trigger to wait, `gronin refusals`, `serve`
starting); an instance whose lock file cannot be examined is left out, as `alive`
then answers that it lives.  `EtcdCoordinator`: the server ends a lease nobody
renews.  `FileLock`, `Delivery`: a live process takes its next step; its death
also lets the lock go.  `Schedule`: the loop is scheduled, a run ends (its agent
has a timeout) and time passes.  `Index`: a process that can take a step does; it
needs no strong fairness, because a writer at COMMIT bars new readers.  `Stages`:
the run's own steps are taken (requests, gather steps and retrievals have
timeouts), the stage's deadline passes and a signal sent to the child's group
arrives; the child itself, and what it leaves behind, are owed nothing.  The first is written with `Runnable`
for the states in which one of those steps is enabled, which was checked to be
ENABLED of them on the smaller setups: TLC evaluates ENABLED too slowly over the
texts.  Nothing makes a process start, be signalled or
die.

### Where the code and what is said of it differ

Five runs check a sentence of a document or comment, and TLC finds a behaviour of
the code that contradicts it; `PROJECT.json` quotes the sentence under
"findings".

* `MCScheduleNever`: a playbook whose expression never occurs (February 30th)
  keeps the loop in its walk, and no other playbook is fired again.
* `MCIndexMoved`: an update whose walk is older than the generation it is applied
  to removes what its own walk did not see (`index.go:663`), so that one which
  commits between a retrieval's update and its search takes out what the
  retrieval had put in.  `FreshSearch` holds when none does.
* `MCClaimsDefaults`: with the default durations a run outlives its claim.  The
  loop asks once more when it wakes at its deadline, 18 s after the last renewal;
  the attempt may hang for 4 s, the stop bound is 10 s, and the claim lapses at
  30 s (FR-105).  Timers are never late in this run.  `LapseOverrunBounded`, which
  `MCClaims` checks and `OverrunIsBounded` proves, says by how much a run may
  overrun: an attempt and three late timers, less the margin.
* `MCDeliveryFails`: a read or write of the store that fails in the middle of a
  hand-off ends it, in a process that lives (`handoff.go:95`, `ingress.go:144`), and
  the playbooks that are left are never handed the delivery (FR-314).
* `MCStagesGate`: a reference to a source there is none of (`${env.k}`) passes the
  gate and refuses the run, though a name that resolves to nothing is to be refused
  at load (`playbook-format.md:107`, `specs/001-runtime-core/spec.md:164`).  The
  gate lets through, in the same way, a reference that stands inside another, one
  that does not close, a creating sink's label that resolves to nothing
  (`playbook-format.md:177`), and a scheduled playbook's reference to a value of its
  trigger, which has none.  `GateAnswers` lists what is left: the problems the gate
  does look for, which `AcceptedIsBound` says no run meets.

The modules have these other behaviours as the code does, and the properties
are stated so as to allow them; each departs from what is written somewhere, or is
one a reader of the code may not expect:

* an attempt outstanding at the deadline is waited for, so the decision is up to
  `renew_bound` late (`holder.go:97`): `DecidesInTime` allows for it;
* a tick the rate limit refuses stays recorded (`filelock.go:76`;
  `coordinator.go:12-13`): `FileLock` implements `Coordinator` without a limit, and
  `LockKeepsTheContract` says nothing of a playbook with one;
* a wait that expires while its claim is being asked for still becomes a run
  (`wait.go:165`; `wait.go:158-159` says none does);
* `Check` puts no limit on `decision_bound` (`config.go:201`), which is why the
  theorems about `Hold` assume `DecisionFits`;
* a stop bound that ends during a slow release ends the process of a run whose
  terminal state is recorded (`run.go:193`);
* an etcd transaction that commits after its caller gave up leaves its tick taken
  (`etcd.go:319`; `coordinator.go:12-13` says together or not at all);
* a full rate window is reported before the holder (`etcd.go:297`; C1 of
  `coordination.md` says `ErrHeld`), and a call on its way to a refusal makes
  another fail as held (`filelock.go:59`);
* a retry moves the date in the identity's row to its own, so that on a clock that
  was set back the row's date goes back too, and the next delivery may be recorded
  within a window of an earlier one (`accept.go:170`).  `data-model.md:149` counts
  the window from the row, and so does `OnePerWindow`: a delivery is recorded a
  window after the row's date as it reads at the commit, or in the place of the
  dropped delivery the row points at;
* a retry whose playbooks were all decided before is recorded as unbound
  (`handoff.go:132`);
* an occurrence that falls while serve is down is neither fired nor recorded
  (`serve_cmd.go:149`), and one that falls during a run is recorded as missed
  because the runtime was not running (`schedule.go:175`);
* `serve` starting marks interrupted the runs of other live processes
  (`record/runs.go:379`): `OutcomeIsFinal` excuses the outcome they get later;
* a replay asks with the prompt its parent recorded (`replay.go:162`), and is refused
  once the playbook was edited (`replay.go:84`), while `architecture.md:116-117`,
  `quickstart.md:101` and `replay.go:59-61` call it what one reaches for after
  changing a prompt.  `SameInputs` is about what all of them promise, the inputs, and
  says nothing of the prompt;
* a replay of an incomplete record has fewer inputs than its parent had
  (`replay.go:123`): `SameInputs` says that it has those the record holds;
* a resume records no resolved playbook, so that a resume of a resume is always
  refused, though one whose sink failed says that the run can be resumed
  (`replay.go:380`);
* a resume builds its sinks with no values of the trigger, so one whose sinks
  name the trigger is refused (`replay.go:194`);
* a query may name a value of the trigger nobody declared, and is refused at run
  time only (`query.go:44`);
* a retrieval named `trigger.json`, or an input named `mcp.json`, shares its name
  with a file the runtime writes (`execute.go:387`, `argv.go:136`):
  `AcceptedIsBound` excuses the two names;
* a reference that follows a backslash is accepted and bound behind an escaped quote
  (`shell.go:89`), so that the shell splits its value, which `shell.go:28-30` and
  `playbook-format.md:118-120` say never happens: `OneWordEach` is about a line up to
  such a reference;
* an issue closed between two pages of a listing moves the rest, and one that is
  not seen may be opened again under its title (`github.go:229`): the title part
  of `CreatedIsCapped` excuses it, the cap does not need it; two playbooks of one
  label have the cap each counts, and may pass it together by opening at once;
* the stream is read to its end before the child is waited for (`agent.go:107,125`),
  so that a process outside the child's group which keeps stdout open, and not
  stderr, keeps the stage open for as long as it likes: neither the signal nor the
  bound of `proc.go` ends that, though `proc.go:9-12` says that no grandchild holding
  a pipe can hold the runtime.  `RunEnds` names a held stdout as its one exception;
* a run whose agent gives no receipt is delivered (FR-018), so that
  `DeliveredIsChecked` is about the receipts there are, and about what any playbook
  may be given rather than what this one declared;
* a file that grew past the bound, or became a link, between the walk's look at it and
  its read fails the walk (`walk.go:213`), and otherwise it is skipped.

## Proofs

The theorems hold for every value of the constants under the modules' own
assumptions.

**GuardProofs, of Waiting** (any number of processes, reconcilers and playbooks, any
number of edits and faults).  `TypeCorrect`, `SlotHoldsOne`, `RunOrRefusal`,
`NoLiveDrop`, `RunsCurrentFile`, `EndsOnce`.  None is inductive alone.  `Inv`
adds `InstanceInv` (a process that has not closed holds the lock of its own
file, so nobody else can), `ReconcileInv` (a reconciler about to mark a row
dropped has the lock of that instance, whose process is therefore gone),
`RecordInv` (what a process's place in the code says of its row, run and
refusals) and `VersionInv` (what stamp, load and claim relate to the file's
version).  The steps are proved per conjunct (`TypeStep`, `LifeStep`,
`StoreStep`, `VersionStep`), one case per action.

**GuardProofs, of Hold** (all durations `Check` accepts, all numbers of effects, all
latenesses).  `DecisionInTime`, `LossStops`, `FenceHolds` and `HoldTypeCorrect`
assume `DecisionFits`: the decision bound leaves room before the deadline, which
`Check` does not ask for.
`OverrunIsBounded` follows from the same: a run that is still going is past its
claim by no more than an attempt and three late timers beyond the margin.  With a
margin that covers those it would be over before its claim lapses; `Check` asks for
none such, and the defaults have none.  `HoldInv` adds
`LoopInv` (the loop's clock against the deadline), `StopInv` (the exit timer
counts from a decision in time), `LeaseInv` (what the holder knows of the
backend is never ahead of it) and `FenceInv` (a fence answered "held" was sent
before the loss).

**EtcdCoordinatorProofs** (any number of hosts, ticks, slots and watchers).
`TypeCorrect`, `HeldClaimIsCurrent`, `OneSlotEach`, `WatchMissesNothing`, and
`KeepsContract`: the initial states are those of `Coordinator`, and every step
takes the claim together with its tick, ends it, or changes neither.  `Inv` adds
`ClaimInv` (the key is of the one call whose transaction won and whose lease
lives, and tokens of won calls differ), `CallInv` (which transactions a call's
place allows), `TickInv` (what was read of the tick still holds unless the key's
revision moved, which the transaction compares), `SlotInv` and `WatchInv` (a
watch without an event from a revision after the last deletion is of a claim
still held).  Without `TickInv` a stale read could take a tick twice.

**FileLockProofs** (any number of processes, any limit and length of the window,
any set of instants).  `TypeCorrect`, `OneCallPerTick`, `WindowsHold`, and
`KeepsContract` for a playbook without a limit.  `Inv` adds `LockInv` (the lock
is of exactly the call that is between its flock and its unlock), `TickInv` (no
taken tick is later than the last one, and the call at the rate window is the one
that wrote it), and `RoomInv` (what was counted still holds when the start is
recorded, because of `LockInv`).

**RunsProofs** (any number of runs, inputs, sinks and editions; every failure,
signal, loss of the claim and death).  `TypeCorrect`, `SucceededRunsAreWhole`,
`NothingIsLost`, `ReplaysWorkOnTheRecord`, and the action property
`OutcomesAreFinal`.  `Inv` says for each run what its place in the code means for
its row (`RowPart`), its blobs (`KeptPart`), its prompt and playbook
(`AskedPart`) and its sinks (`SinkPart`), and that what a replay or a resume read
of its parent's record is there still (`ParentPart`, `WrittenFor`), for which the
record must never be taken back.  The parts of a run are disturbed by its own
steps and by the reconciliation only; those about a parent also by the parent's.

**DeliveryProofs** (any number of requests, processes and playbooks, any window
and any set of instants).  `HandedOffIsInTheRecord`, `ChainDecidesOnce`,
`DroppedIsRetriedOnce`, `AcceptedIsInTheRecord` and the action property
`OneDeliveryPerWindow`.  The invariant is in three layers.  `Inv` (`Invariance`) has the write lock with the row
read under it (`LockPart`), a durable record behind each hand-off that reads
decided or is about to (`RecordPart`, `DecidingPart`), and `RetriedOnce`.
`ChainInv` (`ChainInvariance`, from `Inv`) says that a dropped delivery is of a
dead process and its rows say all that was decided (`SettledPart`), that only
dropped ones are retried (`RetriedPart`), and that a retry has no hand-off of
what its chain decided (`ApartPart`); hence two members of a chain never decide
the same playbook (`OncePart`).  The lemmas on `Chain` use that it is the least
closed set, in place of an induction on its length.  `CountInv`
(`CountInvariance`, from `Inv`) says that as many requests have committed as a
repeat as the record counts, and that a sender is told accepted only after the
commit; the count is the size of the set of pairs of a delivery and a number on
it, which grows by one element with each repeat, so that no sum is taken.

**ScheduleProofs** (any playbooks and occurrences, any catch-up limit, a clock
set anywhere).  `TypeCorrect`, `FiresInOrder`, `FiresWhatCameDue`,
`NoOccurrenceIsForgotten` (an occurrence the entry has moved past was fired, has
a row, or lies in the span of those whose number a row of its tick has) and
`EachIsAccountedForOnce` (fires, rows and those numbers add up to the occurrences
moved past).  `Inv` has what a walk holds in hand (`WalkPart`, `DuePart`), that
what remains of a tick is later than all that was fired (`RecordPart`), and where
records and entries lie (`ArmedPart`, `BehindPart`).  `CountInv`
(`CountInvariance`, from `Inv`) says in the middle of a tick what the property
says between two: what the walk remembers and counts is as many as it has gone
past (`WalkCount`), and what is still in hand is what is missing from the record
(`TickCount`); a row about to be written is a new one, because those written are
of earlier instants (`RowsBefore`).  The
numbers are sizes of sets of pairs of a row and a number, as in `Delivery`.

**IndexProofs** (any sources, contents and processes of any kind, any `Cut`).
`TypeCorrect`, `GenerationIsItsContents`, `ReadsAreOfOneGeneration`,
`SearchIsFresh`.  `Inv` has the locks a change and a read are under (`LockInv`),
what a walk knows of a source that did not change since (`WalkPart`), that a read
is of the committed generation while its transaction lasts (`ReadPart`), what a
change has made so far (`ChangePart`), and what a search has found against the
sources and the generation it names (`SearchPart`, `FoundPart`).

**StagesProofs** (any deployment, playbooks, prompts, agents and repositories;
any number of runs, events, pages and closings).  `DeliveredIsTrusted` and
`OpenedIsUnderTheCap`.  The first rests on `CheckInv` (`CheckInvariance`): a run
past the gate was served by it (`ServedPart`), has nothing to say and reached
nobody until its agent ended (`BeforePart`), keeps only receipts that passed
`CheckReceipt` (`ReceiptPart`), and has reached a sink only with an agent within
its bounds and deadline and with the valid answer of its last terminal event
(`TrustPart`); what it posted is what it has to say (`MinePart`), so that a
resume, which starts with the report of another run, is covered too.  That a
checked receipt names nothing the gate gives nobody takes lemmas on the gate
itself: from `Validate(...) = {}` to the rule on each tool, server and allowance
(`ServedIsValid` and those after it).  The second rests on `CapInv`
(`CapInvariance`, from `CheckInv`): where the sink under way is in its findings
(`OpenPart`), that pages gone over were full and all that is open was counted when
the listing ended (`CountPart`), that their titles are known unless an issue was
closed between two pages (`TitlePart`), and that what a sink opened is what it will
say it created (`ByPart`).  Without `CountPart` a cap is compared with a count
that a closed issue or an unread page could have made too low.

Assumptions: each component module names its own (`CallsAssumption`, `AcquiresAssumption`,
`RunsAssumption`, `DeliveryAssumption`, `ScheduleAssumption`, `IndexAssumption`,
`PagesAssumption` and `SetupsAssumption` of the stages).
They say what the constants range over: due instants are natural numbers, `None`
is nobody's name, limits the code refuses at zero are positive, and the bound on what
`Schedule` counts is one that only a walk without an end reaches.  A setup's
playbook is what is in the files under its path, its lists are lists, its answers
are of the shapes JSON has, and a cap is a number.

Only model-checked:

* liveness (`WaitEventuallyEnds`, `AbandonedClaimEnds`, `LockComesFree`, and those of `Schedule`, `Index` and `Stages`), which needs
  fairness, and `ClaimComesBack`, which needs ENABLED;
* the bound on repeats in `Delivery`'s `TypeOK`, of which the proofs have the rest
  as `TypeInv`;
* `CutsAreWhole` and `Passages`, and `AcceptedIsBound` of `Stages` with the texts of
  `Interpolate`: what they compute is recursive over data, and for every text it
  would take an induction over texts.

## Not modelled

Dialling and TLS, HTTP and its limits, SQL and its migrations, cryptography,
YAML and JSON schemas, ranking, logging, flags and printing.  The HTTP API reads
the record and changes nothing.  The catalogues of sources, collections and MCP
servers are what a reference to them finds; reading and checking their files is
left out, as are a listing that finds an index's schema half written, the probe of the agent's executable at start, the files of blobs
and the bound on what a gather step prints.  `Runs` takes a stage or a sink by its
outcome, which `Stages` models, and `Stages` takes the record as written, which
`Runs` models.

## Plan

1. Done: `Waiting` and `Hold` with proofs, `Coordinator` with its two
   implementations, `Runs`, `Delivery`, `Schedule`, `Index` with `Passages`,
   `Interpolate`, `Gate`, `Agent`, `Sinks` and their composition `Stages`.
2. Done: the theorems listed above, for every component: of the invariants the
   runs check, all but `ClaimComesBack`, `CutsAreWhole` and `AcceptedIsBound`.
3. Left: those three and liveness, which a prover with ENABLED and with induction
   over data would reach.

------------------------------- MODULE Stages --------------------------------
(***************************************************************************)
(* A playbook from the gate to the sinks: loaded whole or refused, its      *)
(* trigger's values checked, its texts resolved stage by stage, its agent   *)
(* run inside its bounds, its report delivered; then resumed, or run again. *)
(*                                                                         *)
(* Source: runtime/internal/run (execute.go, replay.go), stage/gather,      *)
(* stage/retrieve (retrieve.go, query.go) and mcpcatalog.  Composes Gate,   *)
(* Agent and Sinks.  Holding the claim is Hold's: here it may be lost at    *)
(* any moment, which cancels the stages and is found by the next fence.     *)
(* Runs of one playbook do not overlap, so there is one at a time.          *)
(***************************************************************************)
EXTENDS Agent, Sinks

CONSTANTS Setups,    \* the deployments and playbooks looked at
          MaxRuns    \* how many runs follow one another

(* An answer's findings are texts, and a declared list is one. *)
AnswerType == [valid : BOOLEAN, shape : {"nothing", "findings", "string", "other"}, findings : Seq(STRING)]
IsList(s) == Len(s) \in Nat /\ DOMAIN s = 1..Len(s)

ASSUME SetupsAssumption ==
    /\ MaxRuns \in Nat \ {0} /\ MaxEvents \in Nat
    /\ \A s \in Setups :
        /\ \A i \in DOMAIN s.files : s.files[i].path = s.book.path => s.files[i] = s.book
        /\ \A entry \in ToSet(s.book.agent.tools) \cup ToSet(s.book.agent.allow) : IsList(entry.parts)
        /\ IsList(s.book.sinks)
        /\ \A sink \in ToSet(s.book.sinks) : capOf(sink.config).ceiling \in Int
        /\ s.issues \in Seq(STRING)
        /\ \A event \in s.events : event.type = "result" => {event.structured, event.result} \subseteq AnswerType

VARIABLES setup,     \* the one this is
          run, pc,   \* the run's number, and where it is
          values,    \* the trigger's values, checked
          written,   \* the names written into the working directory, in order
          handed,    \* the gather lines handed to the shell, bound
          reasons,   \* why the run was refused: pairs of a stage and a problem
          status,    \* what the record says of the run
          said,      \* what the sinks are given: [failure, report]
          stopped    \* the claim can no longer be proven held

vars == <<setup, run, pc, values, written, handed, reasons, status, said, stopped, agentVars, sinkVars>>

Book == setup.book
Webhook == Book.trigger.type = "webhook"
None == [failure |-> TRUE, report |-> Nothing]
NoValues == <<>>

Init ==
    /\ setup \in Setups
    /\ run = 1 /\ pc = "load" /\ values = NoValues
    /\ written = <<>> /\ handed = <<>> /\ reasons = {} /\ status = "pending"
    /\ said = None /\ stopped = FALSE
    /\ child = NoChild /\ ctx = "live" /\ stream = NewStream
    /\ issues = [i \in DOMAIN setup.issues |-> [title |-> setup.issues[i], run |-> 0, sink |-> 0]]
    /\ posts = {} /\ open = Idle /\ outcomes = <<>> /\ closings = [number |-> 0, listing |-> FALSE]

-----------------------------------------------------------------------------
(* stoppedByTheGuard: a run whose claim was lost is recorded as that. *)
Ends(as) == pc' = "over" /\ status' = IF stopped THEN "claim_lost" ELSE as

Refuse(stage, problems) ==
    /\ Ends("refused")
    /\ reasons' = {<<stage, problem>> : problem \in problems}

(* resolveAll, over every server the catalogue holds. *)
CheckReferences(dep) ==
    UNION {Interpolate(dep.servers[name], dep.config, NoValues).problems : name \in DOMAIN dep.servers}

(* A playbook that is served has a run for a delivery whose values pass. *)
Accept(served, delivery) ==
    \/ /\ served /\ (Webhook => delivery.refusals = {})
       /\ pc' = "bind" /\ status' = "running"
       /\ values' = IF Webhook THEN delivery.checked ELSE setup.values
    \/ /\ ~(served /\ (Webhook => delivery.refusals = {}))
       /\ pc' = "over" /\ status' = "not_a_run" /\ values' = NoValues

(* The deployment comes up, the directory loads, and a delivery's values pass. *)
LoadBook ==
    /\ pc = "load"
    /\ Accept(/\ CheckReferences(setup.dep) = {}
              /\ LoadFile(setup.files, setup.prompts, setup.dep, Book.path) # {},
              Check(Book, Extract(Book.trigger, setup.payload)))
    /\ UNCHANGED <<setup, run, written, handed, reasons, said, stopped, agentVars, sinkVars>>

(* The first line that cannot be bound refuses the stage. *)
HandOver(bound) ==
    LET problems == FirstOf([i \in DOMAIN bound |-> bound[i].problems])
    IN \/ /\ problems # {} /\ Refuse("gather", problems) /\ UNCHANGED handed
       \/ /\ problems = {} /\ pc' = "gather" /\ handed' = bound /\ UNCHANGED <<status, reasons>>

(* gather: a webhook's values become a file, and every line is bound before one runs. *)
BindGather ==
    /\ pc = "bind"
    /\ HandOver([i \in DOMAIN Book.gather |-> BindShell(Book.gather[i].run, setup.dep.config, values)])
    /\ written' = IF Webhook THEN <<"trigger.json">> ELSE <<>>
    /\ UNCHANGED <<setup, run, values, said, stopped, agentVars, sinkVars>>

safeName(name) == name # "../out"

(* The steps whose output is written, the data file of a webhook's aside. *)
StepsDone == Len(written) - (IF Webhook THEN 1 ELSE 0)

(* runStep: a line runs, and its output takes a name nothing has; it fails by     *)
(* itself, at its timeout, or stopped.                                            *)
RunStep ==
    /\ pc = "gather" /\ StepsDone < Len(Book.gather)
    /\ LET step == Book.gather[StepsDone + 1] IN
        \/ /\ ~safeName(step.as) \/ Contains(written, step.as)
           /\ Refuse("gather", {"name"}) /\ UNCHANGED written
        \/ /\ safeName(step.as) /\ ~Contains(written, step.as)
           /\ Refuse("gather", {"step"}) /\ written' = Append(written, step.as)
        \/ /\ safeName(step.as) /\ ~Contains(written, step.as) /\ ~stopped
           /\ written' = Append(written, step.as)
           /\ UNCHANGED <<pc, status, reasons>>
    /\ UNCHANGED <<setup, run, values, handed, said, stopped, agentVars, sinkVars>>

(* resolveQuery: from the gathered file, or from the text. *)
resolveQuery(one) ==
    IF one.query_from # ""
    THEN [problems |-> If(~Contains(written, one.query_from), "unread"), text |-> <<"word">>]
    ELSE Interpolate(one.query, setup.dep.config, values)

(* What refuses a retrieval before its collection is searched. *)
RetrievalProblems(one, query) ==
    IF one.collection \notin DOMAIN setup.dep.collections THEN {"collection"}
    ELSE IF setup.dep.collections[one.collection] # "lexical" THEN {"semantic"}
    ELSE IF query.problems # {} THEN query.problems
    ELSE If(SelectSeq(query.text, LAMBDA c : c # " ") = <<>>, "empty_query")

(* A retrieval that is refused, whose search fails, or whose results are written. *)
Retrieve(one, problems) ==
    \/ /\ problems # {} /\ Refuse("retrieve", problems) /\ UNCHANGED written
    \/ /\ problems = {} /\ Refuse("retrieve", {"search"}) /\ UNCHANGED written
    \/ /\ problems = {} /\ ~stopped /\ written' = Append(written, one.as)
       /\ UNCHANGED <<pc, status, reasons>>

(* retrieve: one retrieval, in order; the search itself is Index's and may fail.  *)
RunRetrieval ==
    /\ pc = "gather" /\ StepsDone >= Len(Book.gather)
    /\ StepsDone < Len(Book.gather) + Len(Book.retrieve)
    /\ LET one == Book.retrieve[StepsDone - Len(Book.gather) + 1]
       IN Retrieve(one, RetrievalProblems(one, resolveQuery(one)))
    /\ UNCHANGED <<setup, run, values, handed, said, stopped, agentVars, sinkVars>>

(* A prompt that is refused, or given to the agent. *)
Prompted(problems) ==
    \/ /\ problems # {} /\ Refuse("prompt", problems)
    \/ /\ problems = {} /\ pc' = "build" /\ UNCHANGED <<status, reasons>>

(* prompt: the file as it is now, resolved; a webhook's with no value of its own. *)
ReadPrompt ==
    /\ pc = "gather" /\ StepsDone = Len(Book.gather) + Len(Book.retrieve)
    /\ Prompted(IF setup.promptNow = Missing THEN {"missing"}
                ELSE Interpolate(setup.promptNow, setup.dep.config,
                                 IF Webhook THEN NoValues ELSE values).problems)
    /\ UNCHANGED <<setup, run, values, written, handed, said, stopped, agentVars, sinkVars>>

(* serversOf: each server the playbook names, resolved with no value of the trigger. *)
serversOf(book, dep) ==
    LET named == book.agent.mcp IN
    FirstOf([i \in DOMAIN named |-> IF named[i] \notin DOMAIN dep.servers THEN {"server"}
                                    ELSE Interpolate(dep.servers[named[i]], dep.config, NoValues).problems])

(* What is left of it once the sinks and what the agent is given have their problems. *)
Launch(unbuilt, late, unargued) ==
    \/ /\ unbuilt # {} /\ Refuse("sinks", unbuilt) /\ UNCHANGED <<written, agentVars>>
    \/ /\ unbuilt = {} /\ late # {} /\ Refuse("agent", late) /\ UNCHANGED <<written, agentVars>>
    \/ /\ unbuilt \cup late = {} /\ stopped
       /\ Ends("failed") /\ UNCHANGED <<reasons, written, agentVars>>
    \/ /\ unbuilt \cup late = {} /\ ~stopped
       /\ Ends("failed")
       /\ reasons' = {<<"agent", IF unargued # {} THEN "entry" ELSE "start">>}
       /\ written' = Append(written, "mcp.json") /\ UNCHANGED agentVars
    \/ /\ unbuilt \cup late \cup unargued = {} /\ ~stopped
       /\ written' = Append(written, "mcp.json")
       /\ pc' = "agent" /\ Start /\ UNCHANGED <<status, reasons>>

(* The sinks are built before the agent, and the fence asked before it starts. *)
StartAgent ==
    /\ pc = "build"
    /\ Launch(Build(Book.sinks, [config |-> setup.dep.config, trigger |-> values], Webhook),
              FirstOf(<<If(Book.agent.timeout = "unparseable", "timeout"), serversOf(Book, setup.dep)>>),
              BuildArgs(Book.agent))
    /\ UNCHANGED <<setup, run, values, handed, said, stopped, sinkVars>>

InStage == pc = "agent" /\ UNCHANGED <<setup, run, pc, values, written, handed, reasons, status, said, stopped, sinkVars>>

Says == InStage /\ child.said < setup.says /\ ChildSays(setup.events)
Detaches == InStage /\ setup.detaches /\ ChildDetaches
HeirLetsGo == InStage /\ HeirEnds
ClosesPipes == InStage /\ ClosePipes
Exits == InStage /\ ChildExits
Killed == InStage /\ Kill
TimesOut == InStage /\ Deadline
ReadsLine == InStage /\ ReadLine(Book.agent)

(* The child is waited for, and what came of it decides: nothing is delivered of   *)
(* a stage in error, refused or timed out; otherwise the report, or its refusal.   *)
(* The wait itself may fail once the context is over, or when stderr is held.      *)
AgentEnds ==
    /\ pc = "agent" /\ Drained
    /\ \E waitFailed \in IF ctx = "live" /\ child.heirs = {} THEN {FALSE} ELSE BOOLEAN :
        LET outcome == Outcome(waitFailed) IN
        \/ /\ outcome \in {"error", "refused", "timed_out"}
           /\ Ends(IF outcome = "error" THEN "failed" ELSE outcome) /\ UNCHANGED said
        \/ /\ outcome \in {"succeeded", "failed"}
           /\ pc' = "sinks" /\ status' = outcome
           /\ said' = IF outcome = "failed" THEN None ELSE [failure |-> FALSE, report |-> Report(stream)]
    /\ UNCHANGED <<setup, run, values, written, handed, reasons, stopped, agentVars, sinkVars>>

-----------------------------------------------------------------------------
Sink == Book.sinks[Len(outcomes) + 1]
Delivering == pc = "sinks" /\ Len(outcomes) < Len(Book.sinks)
Cap == capOf(Sink.config).ceiling
OnSinks == UNCHANGED <<setup, run, pc, values, written, handed, reasons, status, said, stopped, agentVars>>

(* DeliverAll asks the fence before each sink: refused, nothing more is delivered. *)
FenceRefuses ==
    /\ Delivering /\ open = Idle /\ stopped
    /\ Ends(status)
    /\ UNCHANGED <<setup, run, values, written, handed, reasons, said, stopped, agentVars, sinkVars>>

Posts == Delivering /\ ~stopped /\ Sink.type # "github" /\ DeliverWebhook(run, said) /\ OnSinks
FindsNothing == Delivering /\ ~stopped /\ open = Idle /\ Sink.type = "github" /\ DeliverNothing(said) /\ OnSinks
Lists == Delivering /\ ~stopped /\ Sink.type = "github" /\ (StartListing(said) \/ ListPage(Cap, said)) /\ OnSinks
FailsToList == Delivering /\ ListFails /\ OnSinks
Skips == Delivering /\ open.item > 0 /\ SkipItem(Cap, said) /\ OnSinks
Creates == Delivering /\ ~stopped /\ open.item > 0 /\ CreateItem(Cap, run, said) /\ OnSinks
FailsToCreate == Delivering /\ open.item > 0 /\ CreateFails(Cap, run, said) /\ OnSinks
EndsItems == Delivering /\ open.item > 0 /\ EndItems(said) /\ OnSinks

(* deliver: a sink that failed fails a run that had succeeded. *)
Delivered ==
    /\ pc = "sinks" /\ Len(outcomes) = Len(Book.sinks)
    /\ Ends(IF \E i \in DOMAIN outcomes : outcomes[i].status = "failed" THEN "failed" ELSE status)
    /\ UNCHANGED <<setup, run, values, written, handed, reasons, said, stopped, agentVars, sinkVars>>

-----------------------------------------------------------------------------
(* The claim is lost: the stages are cancelled. *)
Stop ==
    /\ setup.stops /\ ~stopped /\ pc \notin {"load", "over"}
    /\ stopped' = TRUE
    /\ ctx' = IF pc = "agent" /\ ctx = "live" THEN "cancelled" ELSE ctx
    /\ UNCHANGED <<setup, run, pc, values, written, handed, reasons, status, said, child, stream, sinkVars>>

Closes ==
    /\ HumanCloses
    /\ UNCHANGED <<setup, run, pc, values, written, handed, reasons, status, said, stopped, agentVars>>

(* What follows once the sinks are built again. *)
DeliverAgain(unbuilt) ==
    /\ pc' = IF unbuilt = {} THEN "sinks" ELSE "over"
    /\ status' = IF unbuilt = {} THEN "succeeded" ELSE "refused"
    /\ reasons' = {<<"sinks", problem>> : problem \in unbuilt}

(* Resume: the sinks alone, given the report the run produced, with no trigger. *)
Resume ==
    /\ pc = "over" /\ run < MaxRuns /\ setup.follows = "resume" /\ ~said.failure
    /\ DeliverAgain(Build(Book.sinks, [config |-> setup.dep.config, trigger |-> NoValues], Webhook))
    /\ run' = run + 1 /\ stopped' = FALSE /\ outcomes' = <<>> /\ open' = Idle
    /\ UNCHANGED <<setup, values, written, handed, said, agentVars, issues, posts, closings>>

(* The playbook's trigger fires again. *)
Again ==
    /\ pc = "over" /\ run < MaxRuns /\ setup.follows = "again" /\ status # "not_a_run"
    /\ run' = run + 1 /\ pc' = "bind" /\ status' = "running"
    /\ written' = <<>> /\ handed' = <<>> /\ reasons' = {} /\ said' = None /\ stopped' = FALSE
    /\ child' = NoChild /\ ctx' = "live" /\ stream' = NewStream
    /\ outcomes' = <<>> /\ open' = Idle
    /\ UNCHANGED <<setup, values, issues, posts, closings>>

RunSteps ==
    \/ LoadBook \/ BindGather \/ RunStep \/ RunRetrieval \/ ReadPrompt \/ StartAgent \/ ReadsLine \/ AgentEnds
    \/ FenceRefuses \/ Posts \/ FindsNothing \/ Lists \/ FailsToList \/ Skips \/ Creates \/ FailsToCreate
    \/ EndsItems \/ Delivered

ChildSteps == Says \/ Exits \/ Killed \/ TimesOut \/ Detaches \/ HeirLetsGo \/ ClosesPipes

Next == RunSteps \/ ChildSteps \/ Stop \/ Closes \/ Resume \/ Again

(* Where the run itself has a step to take: while the agent runs, only to read   *)
(* what it wrote or to end with it.                                              *)
Runnable == pc # "over" /\ (pc = "agent" => child.pipe # <<>> \/ Drained)

(* The runtime's own steps are taken: a request and a gather step end at their   *)
(* timeouts, the stage's deadline passes, and the kernel delivers the signal.    *)
(* The first conjunct is weak fairness of RunSteps, Runnable being where one of  *)
(* them is enabled.  Nothing is asked of what left the child's group.            *)
Fairness ==
    /\ []<>~Runnable \/ []<><<RunSteps>>_vars
    /\ WF_vars(Killed)
    /\ WF_vars(TimesOut)

Spec == Init /\ [][Next]_vars /\ Fairness

-----------------------------------------------------------------------------
TypeOK ==
    /\ setup \in Setups /\ run \in 1..MaxRuns
    /\ pc \in {"load", "bind", "gather", "build", "agent", "sinks", "over"}
    /\ status \in {"pending", "not_a_run", "running", "succeeded", "failed", "refused", "timed_out", "claim_lost"}
    /\ child \in [alive : BOOLEAN, said : 0..MaxEvents, pipe : Seq(setup.events),
                   heirs : SUBSET {"stdout", "stderr"}]
    /\ ctx \in {"live", "deadline", "cancelled"}
    /\ stopped \in BOOLEAN

(* What the gate answers for: the problems a run of an accepted playbook does not  *)
(* meet.  The prompt is read again, so its problems count while it is unchanged;   *)
(* a webhook's declared values are all there once a delivery passed.  A reference  *)
(* to another source, one that does not close or stands in another, and a label    *)
(* that resolves to nothing are not among them: the gate lets them through.        *)
GateAnswers ==
         {"gather"} \X ({"quoted", "unnamed", "unconfigured"} \cup If(Webhook, "absent"))
    \cup {"retrieve"} \X {"unnamed", "unconfigured", "collection", "unread"}
    \cup {"sinks"} \X {"unnamed", "unconfigured", "sink_shape", "sink_type", "no_cap", "label_kind",
                       "trigger_label", "trigger_in_sink"}
    \cup {"agent"} \X {"server", "timeout", "unnamed", "unconfigured"}
    \cup (IF setup.promptNow = setup.prompts[Book.path]
          THEN {"prompt"} \X ({"missing", "unnamed", "unconfigured"} \cup If(Webhook, "absent")) ELSE {})

(* A playbook the gate let through is never refused at run time for what the gate  *)
(* looks at, however its texts nest, quote or repeat their references; each value   *)
(* a gather line is bound to reaches the shell as one word, up to a reference after *)
(* a backslash, a sender's never as an option; and no retrieval writes over a file gathered or retrieved before it.     *)
AcceptedIsBound ==
    /\ reasons \cap GateAnswers = {}
    /\ \A i \in DOMAIN handed :
        /\ OneWordEach(Book.gather[i].run, handed[i], setup.dep.config, values)
        /\ Webhook => \A name \in TriggerReferences(Book.gather[i].run) :
                        values[name] = <<>> \/ values[name][1] # "-"
    /\ \A i \in (Len(Book.gather) + (IF Webhook THEN 1 ELSE 0) + 1)..Len(written) :
        written[i] = "mcp.json" \/ written[i] = "trigger.json" \/ ~Contains(SubSeq(written, 1, i - 1), written[i])

(* A name in a playbook's texts that resolves to nothing is refused at load, and no *)
(* run is refused for one.                                                          *)
RefusedAtLoad ==
    setup.promptNow = setup.prompts[Book.path] =>
        \A stage \in {"gather", "retrieve", "prompt", "sinks"}, problem \in {"unnamed", "unconfigured", "unknown_source"} :
            <<stage, problem>> \notin reasons

(* Tools that read and no more, those of the catalogue's servers, and the one the  *)
(* schema's flag adds.                                                             *)
Bounded(tool) ==
    \/ tool = StructuredOutput
    \/ ~tool.scoped /\ Len(tool.parts) = 1 /\ tool.parts[1] \in readOnlyTools
    \/ ~tool.scoped /\ Len(tool.parts) >= 3 /\ tool.parts[1] = "mcp" /\ tool.parts[2] \in DOMAIN setup.dep.servers

(* Nothing leaves a run whose agent timed out, or gave a receipt, its first or a   *)
(* later one, naming a tool or a server beyond what the gate lets a playbook have;  *)
(* and a report that leaves is the answer of the last terminal event, accepted by   *)
(* the playbook's schema, in a resume as in the run itself.                         *)
DeliveredIsChecked ==
    LET posted == {p \in posts : p.run = run}
        acted == \E i \in DOMAIN issues : issues[i].run = run
    IN posted # {} \/ acted =>
        /\ ctx # "deadline"
        /\ \A i \in DOMAIN stream.receipts :
            /\ \A tool \in stream.receipts[i].tools : Bounded(tool)
            /\ stream.receipts[i].servers \subseteq ToSet(Book.agent.mcp) \cap DOMAIN setup.dep.servers
        /\ (acted \/ \E p \in posted : ~p.said.failure) =>
            /\ stream.result # NoResult /\ Report(stream).valid
            /\ \A p \in posted : p.said.report = Report(stream)

(* What is open under the playbook's label passes neither what it was nor the cap  *)
(* of its sinks, over runs, resumes, lost answers and issues closed meanwhile.      *)
OpenIsCapped ==
    \/ Len(issues) <= Len(setup.issues)
    \/ \E sink \in ToSet(Book.sinks) : sink.type = "github" /\ Len(issues) <= capOf(sink.config).ceiling

(* No title that a run opened is open twice, unless an issue was closed between    *)
(* two pages of a listing.                                                          *)
OpenedIsNew ==
    \A i, j \in DOMAIN issues :
        (i # j /\ issues[i].run # 0 /\ issues[i].title = issues[j].title) => closings.listing

(* What the record says a sink created it did create, at most one more having been *)
(* opened by the request that failed, and every finding is accounted for.           *)
OpenedBy(sink) == {i \in DOMAIN issues : issues[i].run = run /\ issues[i].sink = sink}
RecordedIsOpened ==
    \A i \in DOMAIN outcomes :
        (Book.sinks[i].type = "github" /\ ~said.failure) =>
            /\ outcomes[i].created + outcomes[i].skipped \in {0, Len(said.report.findings)}
            /\ closings.number = 0 =>
                Cardinality(OpenedBy(i)) - outcomes[i].created
                    \in (IF outcomes[i].status = "failed" THEN {0, 1} ELSE {0})

(* The cap of a sink that creates: what is open, what is opened, what is recorded. *)
CreatedIsCapped == OpenIsCapped /\ OpenedIsNew /\ RecordedIsOpened

(* A run that has begun ends, whatever its child says and though it never exits: it  *)
(* is killed at its deadline, and a listing that never ends is given up.  The one     *)
(* thing that can hold it is a process outside the child's group that keeps stdout     *)
(* open, for the stage reads to the end of it before it waits.                         *)
RunEnds == (pc # "over") ~> (pc = "over" \/ "stdout" \in child.heirs)
=============================================================================

-------------------------------- MODULE Gate ---------------------------------
(***************************************************************************)
(* The load gate: what a playbook may declare, the directory that is loaded *)
(* whole or not at all, and the values a webhook's delivery must carry.     *)
(*                                                                         *)
(* Source: runtime/internal/playbook (validate.go, load.go, values.go,      *)
(* playbook.go, parse.go).                                                  *)
(*                                                                         *)
(* A playbook is a record of its fields.  Texts are those of Interpolate;   *)
(* an entry of the tool set is its parts at "__" and its scope's segments.  *)
(* A refusal is the kind of its rule, without field or wording.             *)
(***************************************************************************)
EXTENDS Interpolate

If(condition, problem) == IF condition THEN {problem} ELSE {}

readOnlyTools == {"Read", "Grep", "Glob", "WebFetch", "WebSearch"}
shells == {"Bash", "Shell", "PowerShell", "Zsh", "Sh", "BashOutput", "KillShell"}
writingTools == {"Write", "Edit", "MultiEdit", "NotebookEdit", "Task", "Agent"}

(* mcpShape: the server an entry names, and whether a tool of it follows. *)
mcpShape(entry) ==
    LET parts == entry.parts
        isMCP == Len(parts) >= 2 /\ parts[1] = "mcp" /\ parts[2] # ""
    IN [isMCP |-> isMCP, server |-> IF isMCP THEN parts[2] ELSE "",
        wholeServer |-> entry.scoped \/ Len(parts) < 3 \/ parts[3] = ""]

mcpProblems(entry, dep) ==
    LET shape == mcpShape(entry)
    IN IF shape.wholeServer THEN {"whole_server"}
       ELSE If(shape.server \notin DOMAIN dep.servers, "server")

(* insideWorkingDirectory: the scope resolved against a notional root. *)
insideWorkingDirectory(scope) ==
    LET resolved[i \in 0..Len(scope)] ==
            IF i = 0 THEN <<"run">>
            ELSE LET at == resolved[i - 1] IN
                 CASE scope[i] = "." -> at
                   [] scope[i] = ".." -> IF at = <<>> THEN at ELSE Front(at)
                   [] OTHER -> Append(at, scope[i])
        end == resolved[Len(scope)]
    IN /\ scope[1] \notin {"/", "~"}
       /\ end # <<>> /\ end[1] = "run"

scopeProblems(entry) ==
    LET tool == entry.parts[1] known == Len(entry.parts) = 1 /\ tool \in readOnlyTools
    IN CASE ~entry.scoped -> If(~known, "form")
         [] entry.scoped /\ ~known -> {"tool"}
         [] entry.scoped /\ known /\ entry.scope = <<>> -> {"scope"}
         [] OTHER -> If(~insideWorkingDirectory(entry.scope), "scope")

(* One entry of the tool set. *)
toolProblems(entry, dep) ==
    LET tool == entry.parts[1] alone == Len(entry.parts) = 1 /\ ~entry.scoped
    IN CASE alone /\ tool \in shells -> {"shell"}
         [] alone /\ tool \in writingTools -> {"writes"}
         [] mcpShape(entry).isMCP -> mcpProblems(entry, dep)
         [] OTHER -> If(~(alone /\ tool \in readOnlyTools), "tool")

(* One entry of what the tools may reach. *)
allowProblems(entry, dep) ==
    IF mcpShape(entry).isMCP THEN mcpProblems(entry, dep) ELSE scopeProblems(entry)

serverProblems(name, dep) == If(name \notin DOMAIN dep.servers, "server")

unconfigured(text, dep) ==
    LET spans == configReference(text)
    IN If(\E k \in DOMAIN spans : spans[k].name \notin DOMAIN dep.config, "unconfigured")

bareReferences(text) == If(bareReference(text), "unnamed")

(* The prompt as it is read when the playbook is loaded; Missing is not there, *)
(* not regular or too large.                                                   *)
Missing == <<"missing">>

promptProblems(book, prompt, dep) ==
    IF prompt = Missing THEN {"prompt"}
    ELSE bareReferences(prompt) \cup unconfigured(prompt, dep)
            \cup If(book.trigger.type = "webhook" /\ triggerReference(prompt) # <<>>, "trigger_in_prompt")

validateAgent(book, prompt, dep) ==
    LET agent == book.agent IN
       If(~agent.restricted /\ book.description = <<>>, "undescribed")
    \cup (UNION {toolProblems(entry, dep) : entry \in ToSet(agent.tools)})
    \cup (UNION {allowProblems(entry, dep) : entry \in ToSet(agent.allow)})
    \cup (UNION {serverProblems(name, dep) : name \in ToSet(agent.mcp)})
    \cup promptProblems(book, prompt, dep)
    \cup If(agent.timeout = "unparseable", "timeout")

-----------------------------------------------------------------------------
(* Every string under a sink's key (walkValue). *)
texts(sink) == {sink.config[key].text : key \in {key \in DOMAIN sink.config : sink.config[key].kind = "string"}}

OpensTrigger(text) == \E i \in 1..(Len(text) - 2) : SubSeq(text, i, i + 2) = <<"${", "trigger", ".">>

(* Fault variant: a reference to the trigger may name the label. *)
labelProblemsOfText(config) ==
    IF "label" \notin DOMAIN config THEN {}
    ELSE LET raw == config.label IN
         CASE raw.kind # "string" -> {"label"}
           [] raw.kind = "string" /\ ~Contains(raw.text, "${")
                /\ SelectSeq(raw.text, LAMBDA c : c # " ") = <<>> -> {"label"}
           [] OTHER -> If(Contains(raw.text, ","), "label")

(* labelProblems: the label is what the cap is counted against. *)
labelProblems(config) ==
    IF "label" \notin DOMAIN config THEN {}
    ELSE LET raw == config.label IN
         CASE raw.kind # "string" -> {"label"}
           [] raw.kind = "string" /\ ~Contains(raw.text, "${")
                /\ SelectSeq(raw.text, LAMBDA c : c # " ") = <<>> -> {"label"}
           [] OTHER -> If(Contains(raw.text, ",") \/ OpensTrigger(raw.text), "label")

validateSinks(book, dep) ==
    UNION {CASE ~sink.mapping -> {"sink_shape"}
             [] sink.mapping /\ sink.type \notin dep.sinkTypes -> {"sink_type"}
             [] sink.mapping /\ sink.type \in dep.creating ->
                    If("cap" \notin DOMAIN sink.config, "cap") \cup labelProblems(sink.config)
             [] OTHER -> {} : sink \in ToSet(book.sinks)}

MaxResultsCeiling == 50
MaxBytesCeiling == 65536

(* validateRetrieve: the collection is declared, query_from is a gathered file,  *)
(* and nothing before writes the same name.                                      *)
validateRetrieve(book, dep) ==
    LET gathered == {step.as : step \in ToSet(book.gather)}
        before(at) == gathered \cup {book.retrieve[j].as : j \in 1..(at - 1)}
        from(at) == gathered \ {book.retrieve[j].as : j \in 1..(at - 1)}
    IN UNION {LET one == book.retrieve[at] IN
                   If(one.collection \notin DOMAIN dep.collections, "collection")
              \cup If(one.query_from # "" /\ one.query_from \notin from(at), "query_from")
              \cup If(one.as \in before(at), "results_name")
              \cup If(one.max_results > MaxResultsCeiling \/ one.max_bytes > MaxBytesCeiling, "ceiling") :
                    at \in DOMAIN book.retrieve}

(* Every key of the guard block is applied by now. *)
appliedGuardKeys == {"rate", "wait"}
validateGuard(book) == If(~(book.guard \subseteq appliedGuardKeys), "guard")

(* validateWebhook: the source, the declared values, and where they may appear. *)
validateWebhook(book, dep) ==
    LET values == book.trigger.values IN
    IF book.trigger.type # "webhook" THEN {}
    ELSE    If(book.trigger.source \notin dep.sources, "source")
       \cup If(\E name \in DOMAIN values :
                    \/ ~values[name].pattern.compiles
                    \/ values[name].max_length <= 0
                    \/ values[name].at # <<>> /\ values[name].at[1] # "/", "value")
       \cup If(\E sink \in ToSet(book.sinks) :
                    sink.mapping /\ \E text \in texts(sink) : triggerReference(text) # <<>>, "trigger_in_sink")
       \cup If(\E step \in ToSet(book.gather) : step.as = "trigger.json", "gather_name")
       \cup If(\E step \in ToSet(book.gather) :
                    ~(TriggerReferences(step.run) \subseteq DOMAIN values), "undeclared")

(* Fault variant: only what the gather steps and the sinks hold is resolved. *)
validateInterpolationOfGather(book, dep) ==
    LET resolvedHere == {step.run : step \in ToSet(book.gather)}
                          \cup (UNION {texts(sink) : sink \in {s \in ToSet(book.sinks) : s.mapping}})
    IN (UNION {bareReferences(text) : text \in resolvedHere \cup ToSet(book.others)
                                        \cup {one.query : one \in ToSet(book.retrieve)}})
       \cup (UNION {unconfigured(text, dep) : text \in resolvedHere})
       \cup If(\E step \in ToSet(book.gather) : QuotedReferences(step.run) # {}, "quoted")

(* validateInterpolation: every text names its sources, those the runtime        *)
(* resolves name keys the deployment holds, and a gather line quotes none.       *)
validateInterpolation(book, dep) ==
    LET resolvedHere == {step.run : step \in ToSet(book.gather)}
                          \cup {one.query : one \in ToSet(book.retrieve)}
                          \cup (UNION {texts(sink) : sink \in {s \in ToSet(book.sinks) : s.mapping}})
    IN (UNION {bareReferences(text) : text \in resolvedHere \cup ToSet(book.others)})
       \cup (UNION {unconfigured(text, dep) : text \in resolvedHere})
       \cup If(\E step \in ToSet(book.gather) : QuotedReferences(step.run) # {}, "quoted")

Validate(book, prompt, dep) ==
    validateAgent(book, prompt, dep) \cup validateSinks(book, dep) \cup validateRetrieve(book, dep)
        \cup validateGuard(book) \cup validateWebhook(book, dep) \cup validateInterpolation(book, dep)

(* Load: of the files of a directory, in order, those accepted and those refused. *)
(* A name is taken by the first playbook accepted under it, which is the first of   *)
(* that name that passes the gate.                                                  *)
Load(files, prompts, dep) ==
    LET passes(i) == files[i].parses /\ Validate(files[i], prompts[files[i].path], dep) = {}
        accepted == {i \in DOMAIN files :
                        passes(i) /\ \A j \in 1..(i - 1) : files[j].name = files[i].name => ~passes(j)}
    IN [playbooks |-> {files[i] : i \in accepted}, refusals |-> DOMAIN files \ accepted]

OK(loaded) == loaded.refusals = {}

(* LoadFile: the playbook at a path, refused when anything beside it is. *)
FileOf(loaded, path) ==
    IF OK(loaded) THEN {book \in loaded.playbooks : book.path = path} ELSE {}

LoadFile(files, prompts, dep, path) == FileOf(Load(files, prompts, dep), path)

-----------------------------------------------------------------------------
(* AtPointer: where a pointer leads in a document; null when it leads nowhere. *)
Null == [kind |-> "null"]
index(segment) == CASE segment = "0" -> 1 [] segment = "1" -> 2 [] OTHER -> 0

AtPointer(document, pointer) ==
    LET segments == SelectSeq(pointer, LAMBDA c : c # "/")
        walk[i \in 0..Len(segments)] ==
            IF i = 0 THEN document
            ELSE LET node == walk[i - 1] IN
                 CASE node.kind = "object" /\ segments[i] \in DOMAIN node.of -> node.of[segments[i]]
                   [] node.kind = "array" /\ index(segments[i]) \in DOMAIN node.of ->
                        node.of[index(segments[i])]
                   [] OTHER -> Null
    IN walk[Len(segments)]

(* Extract: a document that is not one has nothing anywhere. *)
Extract(trigger, document) ==
    [name \in DOMAIN trigger.values |-> AtPointer(document, trigger.values[name].at)]

SingleValue(node) == node.kind \in {"string", "number", "boolean"}

gatherReferenced(book) == UNION {TriggerReferences(step.run) : step \in ToSet(book.gather)}

(* Fault variant: the dash rule is not applied. *)
ValueProblemDashing(book, name, values) ==
    LET declared == book.trigger.values[name] IN
    IF name \notin DOMAIN values \/ values[name].kind = "null" THEN "absent"
    ELSE IF ~SingleValue(values[name]) THEN "not_single"
    ELSE IF Len(values[name].text) > declared.max_length THEN "too_long"
    ELSE IF values[name].text \notin declared.pattern.matches THEN "no_match"
    ELSE "none"

(* Why one declared value is refused, in the order Check looks. *)
ValueProblem(book, name, values) ==
    LET declared == book.trigger.values[name] IN
    IF name \notin DOMAIN values \/ values[name].kind = "null" THEN "absent"
    ELSE IF ~SingleValue(values[name]) THEN "not_single"
    ELSE IF Len(values[name].text) > declared.max_length THEN "too_long"
    ELSE IF values[name].text \notin declared.pattern.matches THEN "no_match"
    ELSE IF name \in gatherReferenced(book) /\ values[name].text # <<>> /\ values[name].text[1] = "-"
    THEN "leading_dash" ELSE "none"

(* Check: the values as texts when every one passes. *)
Checked(values, problems) ==
    [refusals |-> problems \ {"none"},
     checked |-> IF problems \ {"none"} # {} THEN <<>> ELSE [name \in DOMAIN values |-> values[name].text]]

Check(book, values) ==
    Checked(values, {ValueProblem(book, name, values) : name \in DOMAIN book.trigger.values})
=============================================================================

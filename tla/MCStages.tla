------------------------------ MODULE MCStages -------------------------------
(* Setups for Stages: many playbooks through the gate with the simplest agent,   *)
(* one playbook under an agent that says anything, and one whose reports fill a  *)
(* repository up to its cap.                                                     *)
EXTENDS Stages

Ref(source, key) == <<"${", source, ".", key, "}">>
Text(text) == [kind |-> "string", text |-> text, number |-> 0]
Number(n) == [kind |-> "number", text |-> <<>>, number |-> n]

Deployment ==
    [servers |-> [srv |-> Ref("config", "k"), other |-> <<"url">>],
     sinkTypes |-> Types, creating |-> CreatingTypes,
     collections |-> [notes |-> "lexical", vectors |-> "semantic"],
     config |-> (<<"k">> :> <<"v">>) @@ (<<"K">> :> <<"w">>) @@ (<<"empty">> :> <<>>),
     sources |-> {"forge"}]

Entry(parts) == [parts |-> parts, scoped |-> FALSE, scope |-> <<>>]
Scoped(tool, scope) == [parts |-> <<tool>>, scoped |-> TRUE, scope |-> scope]
Tool == Entry(<<"mcp", "srv", "get">>)
Discord == [type |-> "discord", mapping |-> TRUE, config |-> [webhook |-> Text(Ref("config", "k"))]]
GitHub(cap) == [type |-> "github", mapping |-> TRUE,
                config |-> [repo |-> Text(<<"owner", "/", "name">>), cap |-> Number(cap),
                            label |-> Text(<<"l">>), token |-> Text(Ref("config", "k"))]]

Declared(pattern) == <<"t">> :> [at |-> <<"/", "a">>, max_length |-> 2,
                                 pattern |-> [compiles |-> TRUE, matches |-> pattern]]
Scheduled == [type |-> "schedule", source |-> "", values |-> <<>>]
Hooked(pattern) == [type |-> "webhook", source |-> "forge", values |-> Declared(pattern)]
Dashes == {<<"v">>, <<"-", "v">>, <<>>}

Base ==
    [name |-> "nightly", path |-> "nightly.yaml", parses |-> TRUE, description |-> <<"d">>,
     trigger |-> Scheduled, gather |-> <<[run |-> <<"cmd">>, as |-> "in"]>>, retrieve |-> <<>>,
     agent |-> [restricted |-> TRUE, tools |-> <<Entry(<<"Read">>)>>, allow |-> <<Tool>>,
                mcp |-> <<"srv">>, timeout |-> "set"],
     sinks |-> <<Discord>>, guard |-> {"rate"}, others |-> <<>>]

Payload(text) == [kind |-> "object", of |-> [a |-> [kind |-> "string", text |-> text]]]

Setup(book) ==
    [book |-> book, files |-> <<book>>, prompts |-> book.path :> <<"p">>,
     promptNow |-> <<"p">>, dep |-> Deployment, payload |-> Payload(<<"v">>), values |-> <<>>,
     issues |-> <<>>, events |-> {}, says |-> 0, stops |-> FALSE, follows |-> "nothing",
     detaches |-> FALSE]

-----------------------------------------------------------------------------
Sequenced(items, n) == {FlattenSeq(s) : s \in UNION {[1..m -> items] : m \in 0..n}}

(* Lines of quotes, escapes and references, some of them of one variable. *)
Lines == Sequenced({Ref("config", "k"), Ref("config", "K"), Ref("trigger", "t"), <<"'">>, <<"\"">>, <<"\\">>}, 3)
            \cup Sequenced({Ref("config", "k"), <<"'">>, <<"\"">>, <<"\\">>}, 4)
            \cup Sequenced({Ref("config", "k"), <<"'">>, <<"\\">>}, 5)

(* Texts whose references close, nest, repeat, name no source or nothing held. *)
Texts == Sequenced({Ref("config", "k"), Ref("config", "gone"), Ref("trigger", "t"), Ref("trigger", "u"),
                    Ref("env", "k"), <<"${", "k", "}">>, <<"${">>, <<"${", "trigger", ".">>, <<"}">>, <<",">>}, 2)
            \cup {<<"l">>, <<" ">>, Ref("config", "empty")}

Triggers == {Scheduled, Hooked(Dashes)}
Fired(trigger) == [Base EXCEPT !.trigger = trigger]

LineSetups ==
    {Setup([Fired(trigger) EXCEPT !.gather[1].run = line]) : trigger \in Triggers, line \in Lines}

PayloadSetups ==
    {[Setup([Fired(Hooked(Dashes)) EXCEPT !.gather[1].run = line]) EXCEPT !.payload = payload] :
        line \in {<<"cmd">>, Ref("trigger", "t")},
        payload \in {Payload(<<"-", "v">>), Payload(<<"v", "v", "v">>), Payload(<<>>), Payload(<<"no">>), Null,
                     [kind |-> "object", of |-> [a |-> [kind |-> "array", of |-> <<>>]]]}}

With(sink, key, text) == [sink EXCEPT !.config = (key :> Text(text)) @@ @]
TextSetups ==
    UNION {{Setup([Fired(trigger) EXCEPT !.sinks = <<With(GitHub(1), "label", text)>>]),
            Setup([Fired(trigger) EXCEPT !.sinks = <<With(GitHub(1), "token", text)>>]),
            Setup([Fired(trigger) EXCEPT !.sinks = <<With(Discord, "webhook", text)>>]),
            Setup([Fired(trigger) EXCEPT !.gather[1].run = text]),
            Setup([Fired(trigger) EXCEPT !.others = <<text>>]),
            Setup([Fired(trigger) EXCEPT !.retrieve = <<[collection |-> "notes", query |-> text, query_from |-> "",
                        as |-> "found", max_results |-> 5, max_bytes |-> 100]>>]),
            [Setup(Fired(trigger)) EXCEPT !.prompts = "nightly.yaml" :> text, !.promptNow = text],
            [Setup(Fired(trigger)) EXCEPT !.promptNow = text],
            [Setup(Fired(trigger)) EXCEPT !.dep.servers.srv = text]} : trigger \in Triggers, text \in Texts}

Retrieval(collection, from, as) ==
    [collection |-> collection, query |-> <<"word">>, query_from |-> from, as |-> as,
     max_results |-> 5, max_bytes |-> 100]
Retrievals == {Retrieval(collection, from, as) : collection \in {"notes", "vectors", "gone"},
                 from \in {"", "in", "found", "two"}, as \in {"found", "in", "trigger.json", "mcp.json"}}
RetrieveSetups ==
    {Setup([Fired(trigger) EXCEPT !.retrieve = <<first>>]) : trigger \in Triggers, first \in Retrievals}
    \cup {Setup([Base EXCEPT !.retrieve = <<Retrieval("notes", "in", "found"), second>>]) : second \in Retrievals}

Entries == {Entry(<<"Read">>), Entry(<<"Bash">>), Entry(<<"Write">>), Entry(<<"Other">>), Entry(<<"-p">>),
            Tool, Entry(<<"mcp", "srv">>), Entry(<<"mcp", "gone", "get">>), Entry(<<"mcp", "other", "get">>),
            Scoped("Read", <<".", "a">>), Scoped("Read", <<"a,b">>), Scoped("Read", <<"..", "run">>),
            Scoped("Read", <<"/">>), Scoped("Write", <<"a">>), Scoped("Read", <<>>)}
ShapeSetups ==
    {Setup([Base EXCEPT !.agent.tools = <<entry>>]) : entry \in Entries}
    \cup {Setup([Base EXCEPT !.agent.allow = <<entry>>]) : entry \in Entries}
    \cup {Setup([Base EXCEPT !.agent.mcp = mcp]) : mcp \in {<<>>, <<"srv", "other">>, <<"gone">>}}
    \cup {Setup([Base EXCEPT !.agent.timeout = "unparseable"]),
          Setup([Base EXCEPT !.agent.restricted = FALSE, !.description = <<>>]),
          Setup([Base EXCEPT !.guard = {"wait", "group"}]), Setup([Base EXCEPT !.parses = FALSE]),
          [Setup(Base) EXCEPT !.prompts = "nightly.yaml" :> Missing, !.promptNow = Missing],
          [Setup(Base) EXCEPT !.promptNow = Missing],
          [Setup(Base) EXCEPT !.files = <<Base, [Base EXCEPT !.path = "twice.yaml"]>>,
                              !.prompts = ("nightly.yaml" :> <<"p">>) @@ ("twice.yaml" :> <<"p">>)]}
    \cup {Setup([Base EXCEPT !.sinks = <<sink>>]) :
            sink \in {[Discord EXCEPT !.mapping = FALSE], [Discord EXCEPT !.type = "pager"],
                      [Discord EXCEPT !.config = <<>>], GitHub(0),
                      [GitHub(1) EXCEPT !.config.cap = Text(<<"1">>)], [GitHub(1) EXCEPT !.config.label = Number(1)],
                      [GitHub(1) EXCEPT !.config.repo = Text(<<"owner">>)],
                      [GitHub(1) EXCEPT !.config = [repo |-> Text(<<"owner", "/", "name">>)]]}}
    \cup {Setup([Fired(trigger) EXCEPT !.gather = <<[run |-> <<"cmd">>, as |-> as], [run |-> <<"cmd">>, as |-> "in"]>>]) :
            trigger \in Triggers, as \in {"in", "two", "../out", "trigger.json"}}
    \cup {Setup(Fired([Hooked(Dashes) EXCEPT !.source = "gone"])),
          Setup(Fired([Hooked(Dashes) EXCEPT !.values[<<"t">>].max_length = 0])),
          Setup(Fired([Hooked(Dashes) EXCEPT !.values[<<"t">>].at = <<"a">>])),
          Setup(Fired([Hooked(Dashes) EXCEPT !.values[<<"t">>].pattern.compiles = FALSE]))}

-----------------------------------------------------------------------------
Found(titles) == [valid |-> TRUE, shape |-> "findings", findings |-> titles]
Ended(structured, result) == [type |-> "result", structured |-> structured, result |-> result]
Receipt(tools, servers) == [type |-> "init", tools |-> tools, servers |-> servers]
Good == Found(<<"x">>)

Anything ==
    {Receipt({Entry(<<"Read">>), Tool, StructuredOutput}, {"srv"}), Receipt({Entry(<<"Bash">>)}, {}),
     Receipt({}, {"other"}), Ended(Good, Quoted(Good)), Ended(Nothing, Quoted(Good)), Ended(Nothing, Found(<<"y">>)),
     [type |-> "tool_use", id |-> 1], [type |-> "tool_result", id |-> 1, is_error |-> TRUE],
     [type |-> "garbage"], [type |-> "oversized"]}

AgentSetups ==
    {[Setup(Base) EXCEPT !.events = Anything, !.says = 3, !.stops = TRUE, !.follows = "resume"],
     [Setup([Base EXCEPT !.sinks = <<GitHub(1)>>]) EXCEPT
        !.events = {e \in Anything : e.type \in {"init", "result"}}, !.says = 2],
     [Setup(Base) EXCEPT !.events = {e \in Anything : e.type \in {"init", "result"}}, !.says = 2,
        !.stops = TRUE, !.detaches = TRUE]}

Reports == {Found(<<"x", " x", "y">>), Found(<<" ", "y", "z">>), Found(<<>>),
            [valid |-> TRUE, shape |-> "other", findings |-> <<>>]}
Opens == {<<>>, <<"x", "x">>, <<"w", "w", "y">>, <<"a", "b", "c", "d">>}

Answers(reports) == {Ended(report, Quoted(report)) : report \in reports}
SinkSetups ==
    {[Setup([Base EXCEPT !.sinks = <<GitHub(cap)>>]) EXCEPT !.events = Answers({report}),
        !.says = 1, !.stops = TRUE, !.follows = "resume", !.issues = opens] :
            cap \in {2, 4}, report \in Reports, opens \in Opens}
    \cup {[Setup([Base EXCEPT !.sinks = <<GitHub(cap)>>]) EXCEPT
            !.events = Answers(Reports), !.says = 1, !.follows = "again", !.issues = opens] :
            cap \in {2, 4}, opens \in Opens}
    \cup {[Setup([Base EXCEPT !.sinks = <<GitHub(2), Discord>>]) EXCEPT
            !.events = Answers({Good}), !.says = 1, !.stops = TRUE, !.follows = "resume"],
          [Setup([Base EXCEPT !.sinks = <<GitHub(1), GitHub(2)>>]) EXCEPT
            !.events = Answers({Found(<<"x", " x", "y">>)}), !.says = 1, !.follows = "resume"]}

AllSetups ==
    LineSetups \cup PayloadSetups \cup TextSetups \cup RetrieveSetups \cup ShapeSetups
        \cup AgentSetups \cup SinkSetups
=============================================================================

-------------------------------- MODULE Sinks --------------------------------
(***************************************************************************)
(* The sinks: how a declaration becomes one, the messages a webhook posts,  *)
(* and the issues the github sink opens up to the cap its playbook declares.*)
(*                                                                         *)
(* Source: runtime/internal/sink (build.go, sink.go, github.go, webhook.go).*)
(*                                                                         *)
(* The repository is external.  It lists the open issues of a label newest  *)
(* first, a page at a time; a request may fail before or after it took      *)
(* effect, and one that was given up on takes effect at once or never.      *)
(* People close issues; nobody else opens one under the label.              *)
(***************************************************************************)
EXTENDS Gate

CONSTANTS perPage,      \* issues on a page of the listing
          maxPages,     \* pages of the walk, before the one that confirms its end
          MaxClosings   \* issues people close at most

ASSUME PagesAssumption == perPage \in Nat \ {0} /\ maxPages \in Nat \ {0} /\ MaxClosings \in Nat

VARIABLES issues,     \* the open issues under the label: a sequence of [title, run, sink]
          posts,      \* the messages that reached a webhook: a set of [run, said]
          open,       \* the delivery under way: [page, count, titles, item, created, skipped]
          outcomes,   \* what each sink did: a sequence of [status, created, skipped]
          closings    \* issues closed so far, and whether one was during a listing

sinkVars == <<issues, posts, open, outcomes, closings>>

-----------------------------------------------------------------------------
Types == {"discord", "slack", "github"}
CreatingTypes == {"github"}

stringAt(config, key) ==
    IF key \in DOMAIN config /\ config[key].kind = "string" THEN config[key].text ELSE <<>>

(* interpolate, with what the run gives the sinks: [config, trigger]. *)
interpolate(text, given) == Interpolate(text, given.config, given.trigger)

(* resolved: a field that has to be there. *)
resolved(config, key, given) ==
    LET raw == stringAt(config, key)
    IN IF raw = <<>> THEN [problems |-> {"no_field"}, text |-> <<>>] ELSE interpolate(raw, given)

(* A field's own problems, or that it resolves to nothing. *)
NotEmpty(field, problem) ==
    IF field.problems # {} THEN field.problems ELSE If(field.text = <<>>, problem)

webhookURL(config, given) == NotEmpty(resolved(config, "webhook", given), "empty_webhook")

(* capOf: a number however it was decoded; anything else is no cap. *)
capOf(config) ==
    IF "cap" \in DOMAIN config /\ config.cap.kind = "number"
    THEN [declared |-> TRUE, ceiling |-> config.cap.number] ELSE [declared |-> FALSE, ceiling |-> 0]

repoName(repo) ==
    IF repo.problems # {} THEN repo.problems ELSE If(repo.text # <<"owner", "/", "name">>, "repo")

(* A label that resolves is not blank and names one. *)
OneLabel(label) ==
    IF label.problems # {} THEN label.problems
    ELSE If(SelectSeq(label.text, LAMBDA c : c # " ") = <<>> \/ Contains(label.text, ","), "label_resolved")

(* The label as buildGitHub reads it. *)
LabelOf(config, given) ==
    IF "label" \notin DOMAIN config THEN {}
    ELSE IF config.label.kind # "string" THEN {"label_kind"}
    ELSE IF OpensTrigger(config.label.text) THEN {"trigger_label"}
    ELSE OneLabel(interpolate(config.label.text, given))

(* Checks are made in order, and the first that finds a problem refuses. *)
FirstOf(checks) == LET at == SelectInSeq(checks, LAMBDA problems : problems # {})
                   IN IF at = 0 THEN {} ELSE checks[at]

(* buildGitHub: the fields in the order they are read. *)
buildGitHub(config, given) ==
    FirstOf(<<repoName(resolved(config, "repo", given)),
              IF "token" \in DOMAIN config THEN NotEmpty(resolved(config, "token", given), "empty_token") ELSE {},
              LabelOf(config, given),
              If(capOf(config).declared /\ capOf(config).ceiling <= 0, "cap_value"),
              interpolate(stringAt(config, "api"), given).problems>>)

(* CheckCap: what creates has a ceiling. *)
CheckCap(sink) ==
    If(sink.type \in CreatingTypes /\ ~capOf(sink.config).declared,
       IF "cap" \in DOMAIN sink.config THEN "cap_value" ELSE "no_cap")

buildOne(sink, given) ==
    CASE sink.type \in {"discord", "slack"} -> webhookURL(sink.config, given)
      [] sink.type = "github" -> buildGitHub(sink.config, given)
      [] OTHER -> {"sink_type"}

triggerReferenceIn(sink) == \E text \in texts(sink) : triggerReference(text) # <<>>

(* Build: every declaration's refusal. *)
Build(declared, given, refusePayloadReference) ==
    UNION {FirstOf(<<If(~sink.mapping, "sink_shape"),
                     If(refusePayloadReference /\ triggerReferenceIn(sink), "trigger_in_sink"),
                     buildOne(sink, given), CheckCap(sink)>>) : sink \in ToSet(declared)}

-----------------------------------------------------------------------------
Idle == [page |-> 0, count |-> 0, titles |-> {}, item |-> 0, created |-> 0, skipped |-> 0]

Record(status, created, skipped) ==
    outcomes' = Append(outcomes, [status |-> status, created |-> created, skipped |-> skipped])

(* A webhook is posted what the run has to say, its refusal included. *)
DeliverWebhook(run, said) ==
    /\ \E arrives, answered \in BOOLEAN :
        /\ posts' = IF arrives THEN posts \cup {[run |-> run, said |-> said]} ELSE posts
        /\ answered => arrives
        /\ Record(IF answered THEN "delivered" ELSE "failed", 0, 0)
    /\ UNCHANGED <<issues, open, closings>>

(* github, before any request: no report, a report of another shape, none found. *)
DeliverNothing(said) ==
    /\ \/ said.failure /\ Record("skipped", 0, 0)
       \/ ~said.failure /\ said.report.shape # "findings" /\ Record("failed", 0, 0)
       \/ ~said.failure /\ said.report.shape = "findings" /\ said.report.findings = <<>>
            /\ Record("skipped", 0, 0)
    /\ UNCHANGED <<issues, posts, open, closings>>

HasFindings(said) == ~said.failure /\ said.report.shape = "findings" /\ said.report.findings # <<>>

StartListing(said) ==
    /\ open.page = 0 /\ HasFindings(said)
    /\ open' = [Idle EXCEPT !.page = 1]
    /\ UNCHANGED <<issues, posts, outcomes, closings>>

Page(n) == SubSeq(issues, (n - 1) * perPage + 1, Min({n * perPage, Len(issues)}))

TitlesOn(page) == {page[i].title : i \in DOMAIN page}

(* Fault variant: what is counted is the titles, and two issues may share one. *)
CountTitles(so, page) ==
    [so EXCEPT !.count = Cardinality(so.titles \cup TitlesOn(page)), !.titles = @ \cup TitlesOn(page)]

(* The count of what is open, and apart from it the titles. *)
Count(so, page) == [so EXCEPT !.count = @ + Len(page), !.titles = @ \cup TitlesOn(page)]

(* openIssues asks for a page; a full one asks for the next, and the walk that   *)
(* ends on a full page fails.  With no room the delivery is over.                *)
ListPage(cap, said) ==
    /\ open.page > 0 /\ open.item = 0
    /\ LET page == Page(open.page) counted == Count(open, page)
           full == Len(page) = perPage
       IN \/ /\ full /\ open.page <= maxPages
             /\ open' = [counted EXCEPT !.page = @ + 1] /\ UNCHANGED outcomes
          \/ /\ full /\ open.page > maxPages
             /\ open' = Idle /\ Record("failed", 0, 0)
          \/ /\ ~full /\ counted.count >= cap
             /\ open' = Idle /\ Record("capped", 0, Len(said.report.findings))
          \/ /\ ~full /\ counted.count < cap
             /\ open' = [counted EXCEPT !.item = 1] /\ UNCHANGED outcomes
    /\ UNCHANGED <<issues, posts, closings>>

(* The listing's request fails, or answers with what is no list. *)
ListFails ==
    /\ open.page > 0 /\ open.item = 0
    /\ open' = Idle /\ Record("failed", 0, 0)
    /\ UNCHANGED <<issues, posts, closings>>

TrimSpace(title) == CASE title = " x" -> "x" [] title = " " -> "" [] OTHER -> title

(* What the loop does with the finding it is at: titles come before the room. *)
Verdict(cap, title) ==
    IF title = "" \/ title \in open.titles \/ open.created >= cap - open.count
    THEN "skip" ELSE "create"

(* A finding with no title, open already, or past the room. *)
SkipItem(cap, said) ==
    /\ open.item \in DOMAIN said.report.findings
    /\ Verdict(cap, TrimSpace(said.report.findings[open.item])) = "skip"
    /\ open' = [open EXCEPT !.item = @ + 1, !.skipped = @ + 1]
    /\ UNCHANGED <<issues, posts, outcomes, closings>>

Opened(run, title) == <<[title |-> title, run |-> run, sink |-> Len(outcomes) + 1]>> \o issues

(* An issue is opened, and the answer says so. *)
CreateItem(cap, run, said) ==
    /\ open.item \in DOMAIN said.report.findings
    /\ LET title == TrimSpace(said.report.findings[open.item]) IN
        /\ Verdict(cap, title) = "create"
        /\ issues' = Opened(run, title)
        /\ open' = [open EXCEPT !.item = @ + 1, !.created = @ + 1, !.titles = @ \cup {title}]
    /\ UNCHANGED <<posts, outcomes, closings>>

(* Fault variant: the item that failed is not accounted for. *)
SkippedAfter(so, findings) == so.skipped + (Len(findings) - so.item)

(* What is not created is skipped, the one that failed included. *)
NotCreated(so, findings) == Len(findings) - so.created

(* The request fails, whether or not the issue was opened: what was created stays. *)
CreateFails(cap, run, said) ==
    /\ open.item \in DOMAIN said.report.findings
    /\ LET title == TrimSpace(said.report.findings[open.item]) IN
        /\ Verdict(cap, title) = "create"
        /\ issues' \in {issues, Opened(run, title)}
        /\ Record("failed", open.created, NotCreated(open, said.report.findings))
        /\ open' = Idle
    /\ UNCHANGED <<posts, closings>>

(* Every finding was looked at. *)
EndItems(said) ==
    /\ open.item = Len(said.report.findings) + 1
    /\ Record(IF open.created = 0 THEN "skipped" ELSE "created", open.created, open.skipped)
    /\ open' = Idle
    /\ UNCHANGED <<issues, posts, closings>>

(* Somebody closes an issue. *)
HumanCloses ==
    /\ closings.number < MaxClosings
    /\ \E i \in DOMAIN issues : issues' = RemoveAt(issues, i)
    /\ closings' = [number |-> closings.number + 1,
                    listing |-> closings.listing \/ (open.page > 1 /\ open.item = 0)]
    /\ UNCHANGED <<posts, open, outcomes>>
=============================================================================

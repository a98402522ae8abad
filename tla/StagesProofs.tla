---------------------------- MODULE StagesProofs ----------------------------
(***************************************************************************)
(* Proofs about a playbook from the gate to the sinks, for any deployment, *)
(* any playbook, any agent and any repository: nothing leaves a run whose  *)
(* agent went beyond what the gate lets a playbook have, and the github    *)
(* sinks stay under their caps and record what they opened.                *)
(***************************************************************************)
EXTENDS Stages, FiniteSetTheorems, SequenceTheorems, TLAPS

(* The playbook passed the gate, with all beside it. *)
Served == LoadFile(setup.files, setup.prompts, setup.dep, Book.path) # {}

(* Before the gate, or turned away at it. *)
Unserved == pc = "load" \/ status = "not_a_run"

(* Titles are texts, trimmed; the provers do not know of a literal that it is one. *)
Titles == STRING \cup {"", "x"}

IssueType == [title : Titles, run : Nat, sink : Nat]
SaidType == [failure : BOOLEAN, report : AnswerType]
OutcomeType == [status : {"delivered", "failed", "skipped", "capped", "created"}, created : Nat, skipped : Int]
OpenType == [page : Nat, count : Nat, titles : SUBSET Titles, item : Nat, created : Nat, skipped : Nat]

(* The types of what the other parts read. *)
RunType ==
    /\ setup \in Setups /\ run \in Nat \ {0}
    /\ pc \in {"load", "bind", "gather", "build", "agent", "sinks", "over"}

StreamType(events, s) ==
    /\ s \in [receipts : Seq(events), result : events \cup {NoResult},
              calls : {s.calls}, end : {"none", "aborted", "decode_error"}]
    /\ s.result # NoResult => s.result.type = "result"

ChildType(events) ==
    [alive : BOOLEAN, said : Nat, pipe : Seq(events), heirs : SUBSET {"stdout", "stderr"}]

AgentType ==
    /\ child \in ChildType(setup.events)
    /\ StreamType(setup.events, stream)

SinkType ==
    /\ said \in SaidType /\ (said.failure => said = None)
    /\ issues \in Seq(IssueType)
    /\ posts \subseteq [run : Nat, said : SaidType]
    /\ open \in OpenType
    /\ outcomes \in Seq(OutcomeType)
    /\ closings \in [number : Nat, listing : BOOLEAN]

(* The run has reached somebody. *)
Acted == (\E p \in posts : p.run = run) \/ \E i \in DOMAIN issues : issues[i].run = run

(* What a run may act on: an agent that kept its bounds and its deadline and, if  *)
(* there is a report, the valid answer of its last terminal event.                *)
Trusted ==
    /\ stream.end # "aborted" /\ ctx # "deadline"
    /\ ~said.failure => /\ stream.result # NoResult /\ Report(stream).valid
                        /\ said.report = Report(stream)

(* What was not served has nothing to say and reached nobody. *)
ServedPart ==
    /\ ~Unserved => Served
    /\ Unserved => said = None /\ pc \in {"load", "over"}

(* Until its agent has ended a run has nothing to say, and no sink is at work. *)
BeforePart ==
    pc \notin {"sinks", "over"} => said = None /\ ~Acted /\ outcomes = <<>> /\ open = Idle

(* Every receipt of a reading that was not broken off was checked. *)
ReceiptPart ==
    stream.end # "aborted" => \A i \in DOMAIN stream.receipts :
        stream.receipts[i].type = "init" /\ CheckReceipt(Book.agent, stream.receipts[i])

TrustPart == pc = "sinks" \/ said # None \/ Acted => Trusted /\ ~Unserved

(* What a run posted is what it has to say, and what it opened is of a report. *)
MinePart ==
    /\ \A p \in posts : p.run <= run /\ (p.run = run => p.said = said)
    /\ \A i \in DOMAIN issues : issues[i].run <= run /\ (issues[i].run = run => ~said.failure)

CheckInv == RunType /\ AgentType /\ SinkType /\ ServedPart /\ BeforePart /\ ReceiptPart /\ TrustPart /\ MinePart

(* A delivery under way is of a github sink with findings, and it has gone through *)
(* those before the one it is at.                                                   *)
OpenPart ==
    /\ open.page = 0 => open = Idle
    /\ open # Idle => /\ pc = "sinks" /\ Len(outcomes) < Len(Book.sinks)
                      /\ Sink.type = "github" /\ HasFindings(said)
    /\ open.item = 0 => open.created = 0 /\ open.skipped = 0
    /\ open.item > 0 => /\ open.item <= Len(said.report.findings) + 1
                        /\ open.created + open.skipped = open.item - 1

(* What a listing has gone over is full pages, and all that is open was counted   *)
(* when it ended.                                                                  *)
CountPart ==
    open.page > 0 => IF open.item = 0 THEN open.count = (open.page - 1) * perPage
                     ELSE Len(issues) <= open.count + open.created

(* The titles of what was gone over are known, unless an issue was closed between *)
(* two pages.                                                                      *)
TitlePart ==
    ~closings.listing /\ open.page > 0 =>
        \A i \in DOMAIN issues :
            open.item > 0 \/ i <= (open.page - 1) * perPage => issues[i].title \in open.titles

(* What a sink opened so far is what it will say it created. *)
ByPart ==
    closings.number = 0 => \A s \in (Len(outcomes) + 1)..Len(Book.sinks) :
        Cardinality(OpenedBy(s)) = IF s = Len(outcomes) + 1 THEN open.created ELSE 0

CapInv == OpenPart /\ CountPart /\ TitlePart /\ ByPart /\ CreatedIsCapped

-----------------------------------------------------------------------------
(***************************************************************************)
(* The gate.                                                               *)
(***************************************************************************)

(* What was served passed Validate. *)
LEMMA ServedIsValid ==
    ASSUME setup \in Setups, Served
    PROVE  Validate(Book, setup.prompts[Book.path], setup.dep) = {}
<1> DEFINE files == setup.files
           prompts == setup.prompts
           dep == setup.dep
           passes(i) == files[i].parses /\ Validate(files[i], prompts[files[i].path], dep) = {}
           accepted == {i \in DOMAIN files :
                           passes(i) /\ \A j \in 1..(i - 1) : files[j].name = files[i].name => ~passes(j)}
           books == {files[i] : i \in accepted}
<1>1. Load(files, prompts, dep) = [playbooks |-> books, refusals |-> DOMAIN files \ accepted]
  BY DEF Load
<1>2. LoadFile(files, prompts, dep, Book.path) = FileOf(Load(files, prompts, dep), Book.path)
  BY DEF LoadFile
<1> HIDE DEF books, accepted
<1>3. Load(files, prompts, dep).playbooks = books
  BY <1>1
<1>4. PICK book \in books : book.path = Book.path
  BY <1>2, <1>3 DEF Served, FileOf
<1>5. PICK i \in DOMAIN files : passes(i) /\ book = files[i]
  BY DEF books, accepted
<1>6. files[i] = Book
  BY <1>4, <1>5, SetupsAssumption DEF SetupsAssumption, Book
<1> QED BY <1>5, <1>6

(* What a valid playbook's agent may be given: tools that read, tools of servers
   the catalogue holds, and those servers alone. *)
LEMMA ValidIsBounded ==
    ASSUME setup \in Setups, Served
    PROVE  /\ \A tool \in ToSet(Book.agent.tools) \cup mcpToolsIn(Book.agent.allow)
                            \cup {StructuredOutput} : Bounded(tool)
           /\ ToSet(Book.agent.mcp) \subseteq DOMAIN setup.dep.servers
<1> DEFINE agent == Book.agent
           dep == setup.dep
<1>1. validateAgent(Book, setup.prompts[Book.path], dep) = {}
  BY ServedIsValid DEF Validate
<1>2. /\ \A entry \in ToSet(agent.tools) : toolProblems(entry, dep) = {}
      /\ \A entry \in ToSet(agent.allow) : allowProblems(entry, dep) = {}
      /\ \A name \in ToSet(agent.mcp) : serverProblems(name, dep) = {}
  <2> DEFINE all == validateAgent(Book, setup.prompts[Book.path], dep)
  <2>1. ASSUME NEW entry \in ToSet(agent.tools), NEW x \in toolProblems(entry, dep) PROVE x \in all
    BY DEF validateAgent
  <2>2. ASSUME NEW entry \in ToSet(agent.allow), NEW x \in allowProblems(entry, dep) PROVE x \in all
    BY DEF validateAgent
  <2>3. ASSUME NEW name \in ToSet(agent.mcp), NEW x \in serverProblems(name, dep) PROVE x \in all
    BY DEF validateAgent
  <2> HIDE DEF all
  <2>4. all = {}
    BY <1>1 DEF all
  <2> QED BY <2>1, <2>2, <2>3, <2>4
<1>3. \A entry \in ToSet(agent.tools) \cup ToSet(agent.allow) : IsList(entry.parts)
  BY SetupsAssumption DEF SetupsAssumption, Book
<1>4. ASSUME NEW entry, IsList(entry.parts), mcpShape(entry).isMCP, mcpProblems(entry, dep) = {}
      PROVE  Bounded(entry)
  <2>1. ~mcpShape(entry).wholeServer /\ mcpShape(entry).server \in DOMAIN dep.servers
    BY <1>4 DEF mcpProblems, If
  <2>2. ~entry.scoped /\ ~(Len(entry.parts) < 3)
    BY <2>1 DEF mcpShape
  <2>3. /\ entry.parts[1] = "mcp" /\ mcpShape(entry).server = entry.parts[2]
    BY <1>4 DEF mcpShape
  <2> QED BY <1>4, <2>1, <2>2, <2>3 DEF Bounded, IsList
<1>5. ASSUME NEW entry \in ToSet(agent.tools) PROVE Bounded(entry)
  <2>1. toolProblems(entry, dep) = {}
    BY <1>2
  <2>2. CASE mcpShape(entry).isMCP
    <3>1. ~(Len(entry.parts) = 1)
      <4>1. IsList(entry.parts)
        BY <1>3
      <4>2. Len(entry.parts) >= 2
        BY <2>2 DEF mcpShape
      <4>3. PICK n \in Nat : n = Len(entry.parts)
        BY <4>1 DEF IsList
      <4>4. n >= 2 \/ n >= 3
        BY <4>2, <4>3, Zenon
      <4>5. n # 1
        BY <4>4
      <4> QED BY <4>3, <4>5, Zenon
    <3>2. mcpProblems(entry, dep) = {}
      BY <2>1, <2>2, <3>1 DEF toolProblems
    <3> QED BY <1>3, <1>4, <2>2, <3>2
  <2>3. CASE ~mcpShape(entry).isMCP
    BY <2>1, <2>3 DEF toolProblems, If, Bounded
  <2> QED BY <2>2, <2>3
<1>6. ASSUME NEW entry \in mcpToolsIn(agent.allow) PROVE Bounded(entry)
  <2>1. entry \in ToSet(agent.allow) /\ entry.parts[1] = "mcp" /\ Len(entry.parts) >= 3
    BY DEF mcpToolsIn
  <2>2. CASE mcpShape(entry).isMCP
    <3>1. mcpProblems(entry, dep) = {}
      BY <1>2, <2>1, <2>2 DEF allowProblems
    <3> QED BY <1>3, <1>4, <2>1, <2>2, <3>1
  <2>3. CASE ~mcpShape(entry).isMCP
    <3>1. scopeProblems(entry) = {}
      BY <1>2, <2>1, <2>3 DEF allowProblems
    <3>2. ~(Len(entry.parts) = 1)
      <4>1. IsList(entry.parts)
        BY <1>3, <2>1
      <4>3. PICK n \in Nat : n = Len(entry.parts)
        BY <4>1 DEF IsList
      <4>4. n >= 2 \/ n >= 3
        BY <2>1, <4>3, Zenon
      <4>5. n # 1
        BY <4>4
      <4> QED BY <4>3, <4>5, Zenon
    <3>3. FALSE
      BY <3>1, <3>2 DEF scopeProblems, If
    <3> QED BY <3>3
  <2> QED BY <2>2, <2>3
<1>7. ToSet(agent.mcp) \subseteq DOMAIN dep.servers
  BY <1>2 DEF serverProblems, If
<1> QED BY <1>5, <1>6, <1>7 DEF Bounded

-----------------------------------------------------------------------------
(***************************************************************************)
(* What leaves a run: CheckInv.                                            *)
(***************************************************************************)

(* What a run starts with has its type: nothing said, no delivery under way. *)
LEMMA NoneIsSaid == None \in SaidType /\ None.failure /\ Idle \in OpenType
<1>1. <<>> \in Seq(STRING)
  BY EmptySeq
<1>2. ASSUME NEW e \in Seq(STRING)
      PROVE  [valid |-> FALSE, shape |-> "nothing", findings |-> e] \in AnswerType
  BY DEF AnswerType
<1>3. Nothing \in AnswerType
  BY <1>1, <1>2 DEF Nothing
<1> QED BY <1>3 DEF None, SaidType, Idle, OpenType

(* And a child that has said nothing, read up to nothing. *)
LEMMA NewIsTyped ==
    ASSUME NEW E
    PROVE  /\ NoChild \in ChildType(E)
           /\ [NoChild EXCEPT !.alive = TRUE] \in ChildType(E)
           /\ StreamType(E, NewStream) /\ DOMAIN NewStream.receipts = {}
<1>1. <<>> \in Seq(E) /\ DOMAIN <<>> = {}
  BY EmptySeq
<1> QED BY <1>1 DEF NoChild, NewStream, StreamType, ChildType

(* A run that has not been loaded has reached nobody. *)
LEMMA InitCheck == Init => CheckInv
<1> SUFFICES ASSUME Init PROVE CheckInv
  OBVIOUS
<1>1. RunType /\ Unserved
  BY DEF Init, RunType, Unserved
<1>2. AgentType /\ ReceiptPart
  BY NewIsTyped DEF Init, AgentType, ReceiptPart
<1>3. issues \in Seq(IssueType) /\ \A i \in DOMAIN issues : issues[i].run = 0
  <2>1. setup.issues \in Seq(STRING)
    BY SetupsAssumption DEF SetupsAssumption, Init
  <2>2. PICK n \in Nat : n = Len(setup.issues) /\ DOMAIN setup.issues = 1..n
    BY <2>1, LenProperties
  <2>3. \A i \in 1..n : setup.issues[i] \in STRING
    BY <2>1, <2>2, ElementOfSeq
  <2>4. issues = [i \in 1..n |-> [title |-> setup.issues[i], run |-> 0, sink |-> 0]]
    BY <2>2 DEF Init
  <2>5. \A i \in 1..n : issues[i] = [title |-> setup.issues[i], run |-> 0, sink |-> 0]
    BY <2>4
  <2>6. issues \in [1..n -> IssueType]
    BY <2>3, <2>4 DEF IssueType, Titles
  <2>7. issues \in Seq(IssueType)
    BY <2>6, SeqDef
  <2> QED BY <2>4, <2>5, <2>7
<1>4. SinkType
  <2>1. outcomes \in Seq(OutcomeType)
    BY EmptySeq DEF Init
  <2> QED BY <1>3, <2>1, NoneIsSaid DEF Init, SinkType
<1>5. ~Acted /\ MinePart
  BY <1>3 DEF Init, Acted, MinePart
<1>6. ServedPart /\ BeforePart /\ TrustPart
  BY <1>1, <1>5 DEF Init, ServedPart, BeforePart, TrustPart
<1> QED BY <1>1, <1>2, <1>4, <1>5, <1>6 DEF CheckInv

(* A step that leaves the agent and the sinks alone. *)
LEMMA FrameCheck ==
    ASSUME CheckInv, UNCHANGED <<setup, run, said, child, stream>>, UNCHANGED sinkVars,
           ctx' = "deadline" => ctx = "deadline",
           pc' \in {"load", "bind", "gather", "build", "agent", "sinks", "over"},
           pc' = "sinks" => pc = "sinks",
           pc' \notin {"sinks", "over"} => pc \notin {"sinks", "over"},
           Unserved' => Unserved /\ pc' \in {"load", "over"},
           ~Unserved' => Served
    PROVE  CheckInv'
<1>1. RunType' /\ AgentType' /\ ReceiptPart'
  BY DEF CheckInv, RunType, AgentType, ReceiptPart, Book
<1>2. SinkType' /\ MinePart' /\ (Acted' <=> Acted)
  BY DEF CheckInv, SinkType, MinePart, Acted, sinkVars
<1>3. ServedPart'
  BY DEF CheckInv, ServedPart, Served, Book
<1>4. BeforePart'
  BY <1>2 DEF CheckInv, BeforePart, sinkVars
<1>5. TrustPart'
  BY <1>2 DEF CheckInv, TrustPart, Trusted
<1> QED BY <1>1, <1>2, <1>3, <1>4, <1>5 DEF CheckInv

(* A step of the agent's. *)
LEMMA AgentCheck ==
    ASSUME CheckInv, UNCHANGED <<setup, run, said, status>>, UNCHANGED sinkVars,
           pc \notin {"load", "sinks", "over"}, pc' = "agent",
           AgentType', ReceiptPart'
    PROVE  CheckInv'
<1>1. RunType' /\ ~Unserved /\ ~Unserved'
  BY DEF CheckInv, RunType, ServedPart, Unserved
<1>2. SinkType' /\ MinePart' /\ (Acted' <=> Acted)
  BY DEF CheckInv, SinkType, MinePart, Acted, sinkVars
<1>3. ServedPart'
  BY <1>1 DEF CheckInv, ServedPart, Served, Book
<1>4. BeforePart' /\ TrustPart'
  BY <1>2 DEF CheckInv, BeforePart, TrustPart, sinkVars
<1> QED BY <1>1, <1>2, <1>3, <1>4 DEF CheckInv

(* A step of a sink's. *)
LEMMA SinkCheck ==
    ASSUME CheckInv, pc = "sinks", UNCHANGED <<setup, run, pc, status, said>>, UNCHANGED agentVars,
           SinkType', MinePart'
    PROVE  CheckInv'
<1>1. RunType' /\ AgentType' /\ ReceiptPart'
  BY DEF CheckInv, RunType, AgentType, ReceiptPart, Book, agentVars
<1>2. ServedPart'
  BY DEF CheckInv, ServedPart, Served, Book, Unserved
<1>3. BeforePart'
  BY DEF BeforePart
<1>4. TrustPart'
  BY DEF CheckInv, TrustPart, Trusted, agentVars, Unserved
<1> QED BY <1>1, <1>2, <1>3, <1>4 DEF CheckInv

(* What a sink does to the types, with a delivery recorded. *)
LEMMA RecordIsTyped ==
    ASSUME CheckInv, NEW st \in {"delivered", "failed", "skipped", "capped", "created"},
           NEW c \in Nat, NEW k \in Int, Record(st, c, k)
    PROVE  outcomes' \in Seq(OutcomeType)
<1>1. [status |-> st, created |-> c, skipped |-> k] \in OutcomeType
  BY DEF OutcomeType
<1>2. outcomes \in Seq(OutcomeType)
  BY DEF CheckInv, SinkType
<1> QED BY <1>1, <1>2, AppendProperties DEF Record

(* An issue opened comes before the others. *)
LEMMA PrependIs ==
    ASSUME NEW S, NEW s \in Seq(S), NEW e \in S
    PROVE  /\ <<e>> \o s \in Seq(S)
           /\ Len(<<e>> \o s) = Len(s) + 1
           /\ DOMAIN (<<e>> \o s) = 1..(Len(s) + 1)
           /\ (<<e>> \o s)[1] = e
           /\ \A i \in 1..Len(s) : (<<e>> \o s)[i + 1] = s[i]
           /\ \A i \in 2..(Len(s) + 1) : i - 1 \in 1..Len(s) /\ (<<e>> \o s)[i] = s[i - 1]
<1>1. <<e>> \in Seq(S) /\ Len(<<e>>) = 1 /\ <<e>>[1] = e
  OBVIOUS
<1>2. Len(s) \in Nat
  BY LenProperties
<1>3. /\ <<e>> \o s \in Seq(S)
      /\ Len(<<e>> \o s) = 1 + Len(s)
      /\ \A i \in 1..(1 + Len(s)) : (<<e>> \o s)[i] = IF i <= 1 THEN <<e>>[i] ELSE s[i - 1]
  BY <1>1, ConcatProperties
<1>4. DOMAIN (<<e>> \o s) = 1..(Len(s) + 1)
  BY <1>2, <1>3, LenProperties
<1>5. \A i \in 1..Len(s) : i + 1 \in 1..(1 + Len(s)) /\ ~(i + 1 <= 1) /\ (i + 1) - 1 = i
  BY <1>2
<1>6. \A i \in 2..(Len(s) + 1) : i \in 1..(1 + Len(s)) /\ ~(i <= 1) /\ i - 1 \in 1..Len(s)
  BY <1>2
<1>7. 1 \in 1..(1 + Len(s))
  BY <1>2
<1> QED BY <1>1, <1>2, <1>3, <1>4, <1>5, <1>6, <1>7

(* What is left of a sequence when one of it is taken out. *)
LEMMA RemoveAtIs ==
    ASSUME NEW S, NEW s \in Seq(S), NEW i \in DOMAIN s
    PROVE  /\ RemoveAt(s, i) \in Seq(S)
           /\ Len(RemoveAt(s, i)) = Len(s) - 1
           /\ \A j \in 1..(Len(s) - 1) : RemoveAt(s, i)[j] = IF j < i THEN s[j] ELSE s[j + 1]
<1> DEFINE a == SubSeq(s, 1, i - 1)
           b == SubSeq(s, i + 1, Len(s))
<1>1. Len(s) \in Nat /\ i \in 1..Len(s)
  BY LenProperties
<1>2. a \in Seq(S) /\ Len(a) = i - 1 /\ \A j \in 1..(i - 1) : a[j] = s[j]
  <2>1. \A j \in 1..(i - 1) : j \in 1..Len(s)
    BY <1>1
  <2>2. /\ a \in Seq(S) /\ Len(a) = (IF 1 <= i - 1 THEN (i - 1) - 1 + 1 ELSE 0)
        /\ \A j \in 1..((i - 1) - 1 + 1) : a[j] = s[1 + j - 1]
    BY <1>1, <2>1, SubSeqProperties
  <2> QED BY <1>1, <2>2
<1>3. b \in Seq(S) /\ Len(b) = Len(s) - i /\ \A j \in 1..(Len(s) - i) : b[j] = s[i + j]
  <2>1. \A j \in (i + 1)..Len(s) : j \in 1..Len(s)
    BY <1>1
  <2>2. /\ b \in Seq(S) /\ Len(b) = (IF i + 1 <= Len(s) THEN Len(s) - (i + 1) + 1 ELSE 0)
        /\ \A j \in 1..(Len(s) - (i + 1) + 1) : b[j] = s[(i + 1) + j - 1]
    BY <1>1, <2>1, SubSeqProperties
  <2> QED BY <1>1, <2>2
<1>4. RemoveAt(s, i) = a \o b
  BY DEF RemoveAt
<1> HIDE DEF a, b
<1>5. /\ a \o b \in Seq(S) /\ Len(a \o b) = (i - 1) + (Len(s) - i)
      /\ \A j \in 1..((i - 1) + (Len(s) - i)) : (a \o b)[j] = IF j <= i - 1 THEN a[j] ELSE b[j - (i - 1)]
  <2>1. /\ a \o b \in Seq(S) /\ Len(a \o b) = Len(a) + Len(b)
        /\ \A j \in 1..(Len(a) + Len(b)) : (a \o b)[j] = IF j <= Len(a) THEN a[j] ELSE b[j - Len(a)]
    BY <1>2, <1>3, ConcatProperties
  <2>2. Len(a) = i - 1 /\ Len(b) = Len(s) - i
    BY <1>2, <1>3
  <2> QED BY <2>1, <2>2
<1>6. ASSUME NEW j \in 1..(Len(s) - 1)
      PROVE  (a \o b)[j] = IF j < i THEN s[j] ELSE s[j + 1]
  <2>1. j \in 1..((i - 1) + (Len(s) - i)) /\ (j <= i - 1 <=> j < i)
    BY <1>1
  <2>2. CASE j < i
    BY <1>1, <1>2, <1>5, <2>1, <2>2
  <2>3. CASE ~(j < i)
    <3>1. j - (i - 1) \in 1..(Len(s) - i) /\ i + (j - (i - 1)) = j + 1
      BY <1>1, <2>3
    <3> QED BY <1>3, <1>5, <2>1, <2>3, <3>1
  <2> QED BY <2>2, <2>3
<1>7. Len(a \o b) = Len(s) - 1
  BY <1>1, <1>5
<1> QED BY <1>4, <1>5, <1>6, <1>7

(* Every receipt that d holds s held, unless it is e's, which passed. *)
Receives(d, s, e, agent) ==
    d.end # "aborted" /\ s.end # "aborted" =>
        \A i \in DOMAIN d.receipts :
            \/ i \in DOMAIN s.receipts /\ d.receipts[i] = s.receipts[i]
            \/ d.receipts[i] = e /\ e.type = "init" /\ CheckReceipt(agent, e)

(* One line of the agent's is read: what is held keeps its type, and a receipt that
   does not pass breaks the reading off. *)
LEMMA DecodeIs ==
    ASSUME NEW E, NEW s, StreamType(E, s), NEW e \in E, NEW agent
    PROVE  /\ StreamType(E, Decode(s, e, agent))
           /\ Receives(Decode(s, e, agent), s, e, agent)
<1> USE DEF StreamType
<1>d. PICK d : d = Decode(s, e, agent)
  OBVIOUS
<1> SUFFICES StreamType(E, d) /\ Receives(d, s, e, agent)
  BY <1>d
<1> DEFINE read == CASE e.type = "init" -> [s EXCEPT !.receipts = Append(@, e)]
                     [] e.type = "result" -> [s EXCEPT !.result = e]
                     [] e.type \in {"tool_use", "tool_result"} -> [s EXCEPT !.calls = observe(@, e)]
                     [] OTHER -> s
           T == [receipts : Seq(E), result : E \cup {NoResult}, calls : {read.calls},
                 end : {"none", "aborted", "decode_error"}]
<1>1. /\ read \in T /\ (read.result # NoResult => read.result.type = "result")
      /\ read.end = s.end
      /\ \A i \in DOMAIN read.receipts :
            \/ i \in DOMAIN s.receipts /\ read.receipts[i] = s.receipts[i]
            \/ read.receipts[i] = e /\ e.type = "init"
  <2>1. CASE e.type = "init"
    <3>1. read = [s EXCEPT !.receipts = Append(s.receipts, e)]
      BY <2>1
    <3> HIDE DEF read
    <3>2. /\ Append(s.receipts, e) \in Seq(E)
          /\ \A i \in DOMAIN Append(s.receipts, e) :
                \/ i \in DOMAIN s.receipts /\ Append(s.receipts, e)[i] = s.receipts[i]
                \/ Append(s.receipts, e)[i] = e
      <4>1. s.receipts \in Seq(E)
        OBVIOUS
      <4>2. PICK r \in Seq(E) : r = s.receipts
        BY <4>1
      <4>3. /\ Append(r, e) \in Seq(E) /\ Len(Append(r, e)) = Len(r) + 1
            /\ \A i \in 1..Len(r) : Append(r, e)[i] = r[i]
            /\ Append(r, e)[Len(r) + 1] = e
        BY AppendProperties
      <4>4. Len(r) \in Nat /\ DOMAIN r = 1..Len(r) /\ DOMAIN Append(r, e) = 1..(Len(r) + 1)
        BY <4>3, LenProperties
      <4>5. \A i \in 1..(Len(r) + 1) : i \in 1..Len(r) \/ i = Len(r) + 1
        BY <4>4
      <4> QED BY <4>2, <4>3, <4>4, <4>5
    <3> QED BY <2>1, <3>1, <3>2
  <2>2. CASE e.type # "init" /\ e.type = "result"
    <3>1. read = [s EXCEPT !.result = e]
      BY <2>2
    <3> QED BY <2>2, <3>1
  <2>3. CASE e.type \in {"tool_use", "tool_result"}
    <3>1. read = [s EXCEPT !.calls = observe(s.calls, e)]
      BY <2>3
    <3> QED BY <2>3, <3>1
  <2>4. CASE e.type \notin {"init", "result", "tool_use", "tool_result"}
    <3>1. read = s
      BY <2>4
    <3> QED BY <3>1
  <2> QED BY <2>1, <2>2, <2>3, <2>4
<1>2. d = CASE e.type = "oversized" -> [s EXCEPT !.end = "decode_error"]
            [] ~CheckReceipt(agent, e) -> [read EXCEPT !.end = "aborted"]
            [] OTHER -> read
  BY <1>d DEF Decode
<1> HIDE DEF read
<1>3. CASE e.type = "oversized"
  <2>1. CheckReceipt(agent, e)
    BY <1>3 DEF CheckReceipt
  <2>2. d = [s EXCEPT !.end = "decode_error"]
    BY <1>2, <1>3, <2>1
  <2> QED BY <2>2 DEF Receives
<1>4. CASE e.type # "oversized" /\ ~CheckReceipt(agent, e)
  <2>1. d = [read EXCEPT !.end = "aborted"]
    BY <1>2, <1>4
  <2> QED BY <1>1, <2>1 DEF Receives
<1>5. CASE e.type # "oversized" /\ CheckReceipt(agent, e)
  <2>1. d = read
    BY <1>2, <1>5
  <2> QED BY <1>1, <1>5, <2>1 DEF Receives
<1> QED BY <1>3, <1>4, <1>5

(* Decode: a receipt that is kept was checked, and the last terminal event is kept. *)
LEMMA ReadsLineCheck == CheckInv /\ ReadsLine => CheckInv'
<1> SUFFICES ASSUME CheckInv, ReadsLine PROVE CheckInv'
  OBVIOUS
<1> USE DEF ReadsLine, InStage
<1>1. /\ child.pipe # <<>> /\ child.pipe \in Seq(setup.events)
      /\ child \in ChildType(setup.events)
      /\ child' = [child EXCEPT !.pipe = Tail(child.pipe)]
      /\ stream' = IF stream.end = "none" THEN Decode(stream, Head(child.pipe), Book.agent) ELSE stream
  BY DEF CheckInv, AgentType, ChildType, ReadLine
<1>2. PICK q \in Seq(setup.events) : q = child.pipe
  BY <1>1
<1>3. Head(q) \in setup.events /\ Tail(q) \in Seq(setup.events)
  BY <1>1, <1>2, HeadTailProperties
<1>4. child' \in ChildType(setup.events)
  BY <1>1, <1>2, <1>3 DEF ChildType
<1>5. CASE stream.end # "none"
  <2>1. AgentType' /\ ReceiptPart'
    BY <1>1, <1>4, <1>5 DEF CheckInv, AgentType, ReceiptPart, Book
  <2> QED BY <2>1, AgentCheck
<1>6. CASE stream.end = "none"
  <2>1. PICK d : d = Decode(stream, Head(q), Book.agent)
    OBVIOUS
  <2>2. stream' = d
    BY <1>1, <1>2, <1>6, <2>1
  <2>4. StreamType(setup.events, stream)
    BY DEF CheckInv, AgentType
  <2>5. StreamType(setup.events, d) /\ Receives(d, stream, Head(q), Book.agent)
    BY <1>3, <2>1, <2>4, DecodeIs
  <2>6. AgentType'
    BY <1>4, <2>2, <2>5 DEF AgentType
  <2>7. ReceiptPart'
    <3>1. \A i \in DOMAIN stream.receipts :
            stream.receipts[i].type = "init" /\ CheckReceipt(Book.agent, stream.receipts[i])
      BY <1>6 DEF CheckInv, ReceiptPart
    <3>2. d.end # "aborted" => \A i \in DOMAIN d.receipts :
            d.receipts[i].type = "init" /\ CheckReceipt(Book.agent, d.receipts[i])
      BY <1>6, <2>5, <3>1 DEF Receives
    <3> QED BY <2>2, <3>2 DEF ReceiptPart, Book
  <2> QED BY <2>6, <2>7, AgentCheck
<1> QED BY <1>5, <1>6

(* The other steps of the agent's: what it says and leaves behind, how it ends, and *)
(* its deadline.                                                                     *)
LEMMA SpeaksCheck ==
    CheckInv /\ (Says \/ Exits \/ Killed \/ TimesOut \/ Detaches \/ HeirLetsGo) => CheckInv'
<1> SUFFICES ASSUME CheckInv, Says \/ Exits \/ Killed \/ TimesOut \/ Detaches \/ HeirLetsGo PROVE CheckInv'
  OBVIOUS
<1> USE DEF InStage
<1>1. pc = "agent" /\ pc' = "agent" /\ UNCHANGED <<setup, run, said, status>> /\ UNCHANGED sinkVars
      /\ UNCHANGED stream
  BY DEF Says, Exits, Killed, TimesOut, Detaches, HeirLetsGo,
         ChildSays, ChildExits, Kill, Deadline, ChildDetaches, HeirEnds
<1>2. child' \in ChildType(setup.events)
  <2>1. child \in ChildType(setup.events)
    BY DEF CheckInv, AgentType
  <2> USE DEF ChildType
  <2>2. CASE Says
    <3>1. PICK event \in setup.events :
            child' = [child EXCEPT !.said = child.said + 1, !.pipe = Append(child.pipe, event)]
      BY <2>2 DEF Says, ChildSays
    <3>2. PICK q \in Seq(setup.events) : q = child.pipe
      BY <2>1
    <3>3. Append(q, event) \in Seq(setup.events)
      BY AppendProperties
    <3>4. PICK n \in Nat : n = child.said + 1
      BY <2>1
    <3>5. child' = [child EXCEPT !.said = n, !.pipe = Append(q, event)]
      BY <3>1, <3>2, <3>4
    <3>6. PICK more \in Seq(setup.events) : more = Append(q, event)
      BY <3>3
    <3> QED BY <2>1, <3>5, <3>6
  <2>3. CASE Exits \/ Killed
    BY <2>1, <2>3 DEF Exits, Killed, ChildExits, Kill
  <2>4. CASE TimesOut
    BY <2>1, <2>4 DEF TimesOut, Deadline
  <2>5. CASE Detaches \/ HeirLetsGo
    BY <2>1, <2>5 DEF Detaches, HeirLetsGo, ChildDetaches, HeirEnds
  <2> QED BY <2>2, <2>3, <2>4, <2>5
<1>3. AgentType' /\ ReceiptPart'
  BY <1>1, <1>2 DEF CheckInv, AgentType, ReceiptPart, Book
<1> QED BY <1>1, <1>3, AgentCheck

(* A reading that the runtime itself closed has what it had read. *)
LEMMA ClosesPipesCheck == CheckInv /\ ClosesPipes => CheckInv'
<1> SUFFICES ASSUME CheckInv, ClosesPipes PROVE CheckInv'
  OBVIOUS
<1>1. /\ pc = "agent" /\ pc' = "agent" /\ UNCHANGED <<setup, run, said, status, ctx>> /\ UNCHANGED sinkVars
      /\ child' = [NoChild EXCEPT !.said = child.said]
      /\ stream' = IF stream.end = "none" THEN [stream EXCEPT !.end = "decode_error"] ELSE stream
  BY DEF ClosesPipes, InStage, ClosePipes
<1>2. child' \in ChildType(setup.events)
  <2>1. NoChild \in ChildType(setup.events) /\ child.said \in Nat
    BY NewIsTyped DEF CheckInv, AgentType, ChildType
  <2> QED BY <1>1, <2>1 DEF ChildType
<1>3. StreamType(setup.events, stream)
  BY DEF CheckInv, AgentType
<1>4. /\ StreamType(setup.events, stream') /\ stream'.receipts = stream.receipts
      /\ stream'.end # "aborted" => stream.end # "aborted"
  BY <1>1, <1>3 DEF StreamType
<1>5. AgentType' /\ ReceiptPart'
  BY <1>1, <1>2, <1>4 DEF CheckInv, AgentType, ReceiptPart, Book
<1> QED BY <1>1, <1>5, AgentCheck

(* Every step of the child's and of what it left behind. *)
LEMMA ChildCheck == CheckInv /\ ChildSteps => CheckInv'
BY SpeaksCheck, ClosesPipesCheck DEF ChildSteps

(* A step of a run on its way that leaves the agent and the sinks alone. *)
LEMMA StepCheck ==
    ASSUME CheckInv, UNCHANGED <<setup, run, said, child, stream>>, UNCHANGED sinkVars,
           ctx' = "deadline" => ctx = "deadline",
           pc \notin {"load", "over"},
           pc' \in {"bind", "gather", "build", "agent", "sinks", "over"},
           pc' = "sinks" => pc = "sinks", pc = "sinks" => pc' \in {"sinks", "over"},
           status' = "not_a_run" => status = "not_a_run"
    PROVE  CheckInv'
<1>1. ~Unserved /\ Served
  BY DEF CheckInv, ServedPart
<1>2. ~Unserved'
  BY <1>1 DEF Unserved
<1> QED BY <1>1, <1>2, FrameCheck DEF CheckInv, RunType

(* What leaves the gate was served; what does not is over with nothing said. *)
LEMMA LoadCheck == CheckInv /\ LoadBook => CheckInv'
<1> SUFFICES ASSUME CheckInv, LoadBook PROVE CheckInv'
  OBVIOUS
<1> DEFINE served == /\ CheckReferences(setup.dep) = {}
                     /\ LoadFile(setup.files, setup.prompts, setup.dep, Book.path) # {}
<1>1. PICK delivery : Accept(served, delivery)
  BY DEF LoadBook
<1>2. served => Served
  BY DEF Served
<1> HIDE DEF served
<1>3. /\ pc = "load" /\ Unserved
      /\ UNCHANGED <<setup, run, said, child, stream, ctx>> /\ UNCHANGED sinkVars
  BY DEF LoadBook, Unserved, agentVars
<1>4. \/ pc' = "bind" /\ status' = "running" /\ served
      \/ pc' = "over" /\ status' = "not_a_run"
  BY <1>1 DEF Accept
<1>5. (Unserved' => pc' = "over") /\ (~Unserved' => Served)
  BY <1>2, <1>4 DEF Unserved
<1> QED BY <1>3, <1>4, <1>5, FrameCheck

(* The stages before the agent, a refused fence, the end of the sinks and a stop *)
(* say nothing and reach nobody.                                                  *)
LEMMA StagesCheck ==
    CheckInv /\ (BindGather \/ RunStep \/ RunRetrieval \/ ReadPrompt \/ FenceRefuses \/ Delivered \/ Stop)
        => CheckInv'
<1> SUFFICES ASSUME CheckInv,
                    BindGather \/ RunStep \/ RunRetrieval \/ ReadPrompt \/ FenceRefuses \/ Delivered \/ Stop
             PROVE  CheckInv'
  OBVIOUS
<1> USE DEF agentVars
<1>1. CASE BindGather
  <2>1. PICK bound : HandOver(bound)
    BY <1>1 DEF BindGather
  <2>2. pc' \in {"gather", "over"} /\ (status' = "not_a_run" => status = "not_a_run")
    BY <2>1 DEF HandOver, Refuse, Ends
  <2> QED BY <1>1, <2>2, StepCheck DEF BindGather
<1>2. CASE RunStep
  <2>1. pc' \in {"gather", "over"} /\ (status' = "not_a_run" => status = "not_a_run")
    BY <1>2 DEF RunStep, Refuse, Ends
  <2> QED BY <1>2, <2>1, StepCheck DEF RunStep
<1>3. CASE RunRetrieval
  <2>1. pc = "gather" /\ \E one, problems : Retrieve(one, problems)
    BY <1>3 DEF RunRetrieval
  <2>2. pc' \in {"gather", "over"} /\ (status' = "not_a_run" => status = "not_a_run")
    BY <2>1 DEF Retrieve, Refuse, Ends
  <2> QED BY <1>3, <2>2, StepCheck DEF RunRetrieval
<1>4. CASE ReadPrompt
  <2>1. PICK problems : Prompted(problems)
    BY <1>4 DEF ReadPrompt
  <2>2. pc' \in {"build", "over"} /\ (status' = "not_a_run" => status = "not_a_run")
    BY <2>1 DEF Prompted, Refuse, Ends
  <2> QED BY <1>4, <2>2, StepCheck DEF ReadPrompt
<1>5. CASE FenceRefuses
  BY <1>5, StepCheck DEF FenceRefuses, Delivering, Ends
<1>6. CASE Delivered
  BY <1>6, StepCheck DEF Delivered, Ends
<1>7. CASE Stop
  BY <1>7, StepCheck DEF Stop, CheckInv, RunType
<1> QED BY <1>1, <1>2, <1>3, <1>4, <1>5, <1>6, <1>7

(* The agent starts with nothing read of it. *)
LEMMA StartCheck == CheckInv /\ StartAgent => CheckInv'
<1> SUFFICES ASSUME CheckInv, StartAgent PROVE CheckInv'
  OBVIOUS
<1> USE DEF agentVars
<1>1. PICK unbuilt, late, unargued : Launch(unbuilt, late, unargued)
  BY DEF StartAgent
<1>2. pc = "build" /\ UNCHANGED <<setup, run, said>> /\ UNCHANGED sinkVars
  BY DEF StartAgent
<1>3. CASE pc' = "agent" /\ Start /\ UNCHANGED status
  <2>1. AgentType' /\ ReceiptPart'
    BY <1>3, NewIsTyped DEF Start, AgentType, ReceiptPart
  <2> QED BY <1>2, <1>3, <2>1, AgentCheck
<1>4. CASE /\ pc' = "over" /\ status' \in {"claim_lost", "refused", "failed"}
           /\ UNCHANGED agentVars
  BY <1>2, <1>4, StepCheck
<1> QED BY <1>1, <1>3, <1>4 DEF Launch, Refuse, Ends

(* An event that ends a reading holds answers, and so a report is one. *)
LEMMA ReportIsTyped ==
    ASSUME CheckInv, stream.result # NoResult
    PROVE  Report(stream) \in AnswerType
<1>1. stream.result \in setup.events /\ stream.result.type = "result"
  BY DEF CheckInv, AgentType, StreamType
<1>2. {stream.result.structured, stream.result.result} \subseteq AnswerType
  BY <1>1, SetupsAssumption DEF SetupsAssumption, CheckInv, RunType
<1> QED BY <1>2 DEF Report

(* A report is said only of an agent that kept its bounds, its deadline and its schema. *)
LEMMA AgentEndsCheck == CheckInv /\ AgentEnds => CheckInv'
<1> SUFFICES ASSUME CheckInv, AgentEnds PROVE CheckInv'
  OBVIOUS
<1>1. /\ pc = "agent" /\ UNCHANGED <<setup, run, child, ctx, stream>> /\ UNCHANGED sinkVars
  BY DEF AgentEnds, agentVars
<1>2. PICK failed, outcome :
        /\ outcome = Outcome(failed)
        /\ \/ /\ outcome \in {"error", "refused", "timed_out"}
              /\ Ends(IF outcome = "error" THEN "failed" ELSE outcome) /\ UNCHANGED said
           \/ /\ outcome \in {"succeeded", "failed"}
              /\ pc' = "sinks" /\ status' = outcome
              /\ said' = IF outcome = "failed" THEN None ELSE [failure |-> FALSE, report |-> Report(stream)]
  BY DEF AgentEnds
<1>3. CASE outcome \in {"error", "refused", "timed_out"}
  <2>1. pc' = "over" /\ status' # "not_a_run" /\ UNCHANGED said
    BY <1>2, <1>3 DEF Ends
  <2> QED BY <1>1, <2>1, StepCheck
<1>4. CASE outcome \in {"succeeded", "failed"}
  <2>1. /\ pc' = "sinks" /\ status' = outcome
        /\ said' = IF outcome = "failed" THEN None ELSE [failure |-> FALSE, report |-> Report(stream)]
    BY <1>2, <1>4
  <2>2. /\ stream.end # "aborted" /\ ctx # "deadline"
        /\ outcome = "succeeded" => stream.result # NoResult /\ Report(stream).valid
    BY <1>2, <1>4 DEF Outcome, ValidateReport
  <2>3. /\ said' \in SaidType /\ (said'.failure => said' = None)
        /\ ~said'.failure => /\ stream.result # NoResult /\ Report(stream).valid
                             /\ said'.report = Report(stream)
    <3>1. CASE outcome = "failed"
      BY <2>1, <3>1, NoneIsSaid
    <3>2. CASE outcome = "succeeded"
      <4>1. PICK report \in AnswerType : report = Report(stream)
        BY <2>2, <3>2, ReportIsTyped
      <4>2. said' = [failure |-> FALSE, report |-> report]
        BY <2>1, <3>2, <4>1
      <4> QED BY <2>2, <3>2, <4>1, <4>2 DEF SaidType
    <3> QED BY <1>4, <3>1, <3>2
  <2>4. ~Unserved /\ Served /\ ~Acted
    BY <1>1 DEF CheckInv, ServedPart, BeforePart
  <2>5. ~Unserved' /\ Served' /\ ~Acted'
    BY <1>1, <1>4, <2>1, <2>4 DEF Unserved, Served, Book, Acted, sinkVars
  <2>6. RunType' /\ AgentType' /\ ReceiptPart'
    BY <1>1, <2>1 DEF CheckInv, RunType, AgentType, ReceiptPart, Book
  <2>7. SinkType'
    BY <1>1, <2>3 DEF CheckInv, SinkType, sinkVars, None
  <2>8. MinePart'
    <3>1. /\ \A p \in posts : p.run <= run /\ p.run # run
          /\ \A i \in DOMAIN issues : issues[i].run <= run /\ issues[i].run # run
      BY <2>4 DEF CheckInv, MinePart, Acted
    <3> QED BY <1>1, <3>1 DEF MinePart, sinkVars
  <2>9. TrustPart'
    BY <1>1, <2>2, <2>3, <2>5 DEF TrustPart, Trusted
  <2>10. ServedPart' /\ BeforePart'
    BY <2>1, <2>5 DEF ServedPart, BeforePart
  <2> QED BY <2>6, <2>7, <2>8, <2>9, <2>10 DEF CheckInv
<1> QED BY <1>2, <1>3, <1>4

(* Sinks that post, that say nothing, that list, and that are done. *)
LEMMA PostsCheck == CheckInv /\ Posts => CheckInv'
<1> SUFFICES ASSUME CheckInv, Posts PROVE CheckInv'
  OBVIOUS
<1>1. PICK arrives, answered \in BOOLEAN :
        /\ posts' = IF arrives THEN posts \cup {[run |-> run, said |-> said]} ELSE posts
        /\ Record(IF answered THEN "delivered" ELSE "failed", 0, 0)
  BY DEF Posts, DeliverWebhook
<1>2. /\ pc = "sinks" /\ UNCHANGED <<setup, run, pc, status, said>> /\ UNCHANGED agentVars
      /\ UNCHANGED <<issues, open, closings>>
  BY DEF Posts, Delivering, OnSinks, DeliverWebhook
<1>3. outcomes' \in Seq(OutcomeType)
  <2>1. PICK st \in {"delivered", "failed"} : Record(st, 0, 0)
    BY <1>1
  <2> QED BY <2>1, RecordIsTyped
<1>4. run \in Nat /\ said \in SaidType
  BY DEF CheckInv, RunType, SinkType
<1>5. SinkType'
  <2>1. posts' \subseteq [run : Nat, said : SaidType]
    BY <1>1, <1>4 DEF CheckInv, SinkType
  <2> QED BY <1>2, <1>3, <2>1 DEF CheckInv, SinkType, None
<1>6. MinePart'
  <2>1. \A p \in posts' : p.run <= run /\ (p.run = run => p.said = said)
    BY <1>1, <1>4 DEF CheckInv, MinePart
  <2> QED BY <1>2, <2>1 DEF CheckInv, MinePart
<1> QED BY <1>2, <1>5, <1>6, SinkCheck

(* A step of a sink's that opens nothing and posts nothing. *)
LEMMA QuietCheck ==
    ASSUME CheckInv, pc = "sinks", UNCHANGED <<setup, run, pc, status, said>>, UNCHANGED agentVars,
           UNCHANGED <<issues, posts, closings>>, open' \in OpenType, outcomes' \in Seq(OutcomeType)
    PROVE  CheckInv'
<1>1. SinkType'
  BY DEF CheckInv, SinkType, None
<1>2. MinePart'
  BY DEF CheckInv, MinePart
<1> QED BY <1>1, <1>2, SinkCheck

(* The lesser of two numbers is one of them. *)
LEMMA MinOfTwo ==
    ASSUME NEW a \in Nat, NEW b \in Nat
    PROVE  Min({a, b}) \in {a, b} /\ Min({a, b}) <= a /\ Min({a, b}) <= b
<1>1. \E x \in {a, b} : \A y \in {a, b} : x =< y
  <2>1. CASE a <= b
    BY <2>1
  <2>2. CASE b <= a
    BY <2>2
  <2> QED BY <2>1, <2>2
<1>2. Min({a, b}) \in {a, b} /\ \A y \in {a, b} : Min({a, b}) =< y
  BY <1>1 DEF Min
<1> QED BY <1>2

(* How far the pages before one go. *)
LEMMA PagesBefore ==
    ASSUME NEW n \in Nat \ {0}, NEW p \in Nat
    PROVE  (n - 1) * p \in Nat /\ n * p = (n - 1) * p + p /\ (n = 1 => (n - 1) * p = 0)
<1>1. PICK m \in Nat : m = n - 1
  OBVIOUS
<1>2. m * p \in Nat
  OBVIOUS
<1>3. n = m + 1
  BY <1>1
<1>4. (m + 1) * p = m * p + p
  OBVIOUS
<1>5. m = 0 => m * p = 0
  OBVIOUS
<1> QED BY <1>1, <1>2, <1>3, <1>4, <1>5

(* A page of the listing: full, it lies whole in what is open; not full, nothing
   is open after it. *)
LEMMA PageIs ==
    ASSUME issues \in Seq(IssueType), NEW n \in Nat \ {0}
    PROVE  /\ Len(Page(n)) \in Nat
           /\ Len(Page(n)) = perPage => n * perPage <= Len(issues)
           /\ Len(Page(n)) # perPage => Len(issues) <= (n - 1) * perPage + Len(Page(n))
           /\ \A i \in DOMAIN issues :
                (n - 1) * perPage < i /\ i <= (n - 1) * perPage + Len(Page(n))
                    => issues[i].title \in TitlesOn(Page(n))
           /\ TitlesOn(Page(n)) \subseteq Titles
<1>1. perPage \in Nat \ {0}
  BY PagesAssumption DEF PagesAssumption
<1>2. PICK a \in Nat : a = (n - 1) * perPage /\ n * perPage = a + perPage
  BY <1>1, PagesBefore
<1>3. Len(issues) \in Nat /\ DOMAIN issues = 1..Len(issues)
  BY LenProperties
<1>4. PICK m \in Nat : m = Min({a + perPage, Len(issues)}) /\ m \in {a + perPage, Len(issues)}
                       /\ m <= a + perPage /\ m <= Len(issues)
  <2>0. PICK x \in Nat : x = a + perPage
    BY <1>1
  <2>1. PICK y \in Nat : y = Len(issues)
    BY <1>3
  <2>2. Min({x, y}) \in {x, y} /\ Min({x, y}) <= x /\ Min({x, y}) <= y
    BY MinOfTwo
  <2>3. Min({x, y}) \in Nat
    BY <2>2
  <2> QED BY <2>0, <2>1, <2>2, <2>3
<1>5. PICK page : page = Page(n) /\ page = SubSeq(issues, a + 1, m)
  BY <1>2, <1>4 DEF Page
<1>6. /\ page \in Seq(IssueType)
      /\ Len(page) = IF a + 1 <= m THEN m - (a + 1) + 1 ELSE 0
      /\ \A i \in 1..(m - (a + 1) + 1) : page[i] = issues[(a + 1) + i - 1]
  <2>1. \A i \in (a + 1)..m : i \in 1..Len(issues)
    BY <1>3, <1>4
  <2>2. \A i \in (a + 1)..m : issues[i] \in IssueType
    BY <2>1, ElementOfSeq
  <2>3. a + 1 \in Int /\ m \in Int
    OBVIOUS
  <2> QED BY <1>5, <2>2, <2>3, SubSeqProperties
<1>7. Len(page) \in Nat /\ DOMAIN page = 1..Len(page)
  BY <1>6, LenProperties
<1>8. Len(page) = perPage => a + perPage <= Len(issues)
  BY <1>1, <1>3, <1>4, <1>6
<1>9. Len(page) # perPage => Len(issues) <= a + Len(page)
  BY <1>1, <1>3, <1>4, <1>6
<1>10. ASSUME NEW i \in DOMAIN issues, a < i, i <= a + Len(page)
       PROVE  issues[i].title \in TitlesOn(page)
  <2>1. i - a \in 1..Len(page) /\ i - a \in 1..(m - (a + 1) + 1) /\ (a + 1) + (i - a) - 1 = i
    <3>1. PICK l \in Nat : l = Len(page) /\ i \in Int /\ l = IF a + 1 <= m THEN m - (a + 1) + 1 ELSE 0
      BY <1>3, <1>6, <1>7
    <3>2. a < i /\ i <= a + l
      BY <1>10, <3>1
    <3>3. i - a \in 1..l /\ i - a \in 1..(m - (a + 1) + 1) /\ (a + 1) + (i - a) - 1 = i
      BY <3>1, <3>2
    <3> QED BY <3>1, <3>3
  <2>2. page[i - a] = issues[i]
    BY <1>6, <2>1
  <2> QED BY <1>7, <2>1, <2>2 DEF TitlesOn
<1>11. TitlesOn(page) \subseteq Titles
  <2>1. \A i \in DOMAIN page : page[i] \in IssueType
    BY <1>6, <1>7, ElementOfSeq
  <2> QED BY <2>1 DEF TitlesOn, IssueType
<1> QED BY <1>2, <1>5, <1>7, <1>8, <1>9, <1>10, <1>11

(* What a listing leads to: the next page, the first finding, or an end. *)
LEMMA ListPageIs ==
    ASSUME CheckInv, NEW cap, ListPage(cap, said)
    PROVE  LET page == Page(open.page)
               count == open.count + Len(page)
               titles == open.titles \cup TitlesOn(page)
           IN /\ open.page > 0 /\ open.item = 0 /\ UNCHANGED <<issues, posts, closings>>
              /\ count \in Nat /\ titles \subseteq Titles
              /\ \/ /\ Len(page) = perPage /\ UNCHANGED outcomes
                    /\ open' = [open EXCEPT !.page = open.page + 1, !.count = count, !.titles = titles]
                 \/ open' = Idle /\ Record("failed", 0, 0)
                 \/ open' = Idle /\ Record("capped", 0, Len(said.report.findings))
                 \/ /\ Len(page) # perPage /\ count < cap /\ UNCHANGED outcomes
                    /\ open' = [open EXCEPT !.item = 1, !.count = count, !.titles = titles]
<1> DEFINE page == Page(open.page)
           count == open.count + Len(page)
           titles == open.titles \cup TitlesOn(page)
<1>1. open \in OpenType /\ issues \in Seq(IssueType)
  BY DEF CheckInv, SinkType
<1>2. open.page \in Nat /\ open.count \in Nat /\ open.titles \subseteq Titles
  BY <1>1 DEF OpenType
<1>3. open.page > 0 /\ open.item = 0 /\ UNCHANGED <<issues, posts, closings>>
  BY DEF ListPage
<1>4. open.page \in Nat \ {0}
  BY <1>2, <1>3
<1>5. Len(page) \in Nat /\ TitlesOn(page) \subseteq Titles
  BY <1>1, <1>4, PageIs
<1>6. count \in Nat /\ titles \subseteq Titles
  BY <1>2, <1>5
<1>7. PICK counted : counted = Count(open, page)
  OBVIOUS
<1>8. counted = [open EXCEPT !.count = count, !.titles = titles]
  BY <1>7 DEF Count
<1>9. \/ Len(page) = perPage /\ open' = [counted EXCEPT !.page = counted.page + 1] /\ UNCHANGED outcomes
      \/ open' = Idle /\ Record("failed", 0, 0)
      \/ open' = Idle /\ Record("capped", 0, Len(said.report.findings))
      \/ /\ Len(page) # perPage /\ counted.count < cap
         /\ open' = [counted EXCEPT !.item = 1] /\ UNCHANGED outcomes
  BY <1>7 DEF ListPage
<1> HIDE DEF page, count, titles
<1>10. /\ counted.page = open.page /\ counted.count = count
       /\ [counted EXCEPT !.page = counted.page + 1]
            = [open EXCEPT !.page = open.page + 1, !.count = count, !.titles = titles]
       /\ [counted EXCEPT !.item = 1] = [open EXCEPT !.item = 1, !.count = count, !.titles = titles]
  BY <1>1, <1>8 DEF OpenType
<1>11. \/ /\ Len(page) = perPage /\ UNCHANGED outcomes
          /\ open' = [open EXCEPT !.page = open.page + 1, !.count = count, !.titles = titles]
       \/ open' = Idle /\ Record("failed", 0, 0)
       \/ open' = Idle /\ Record("capped", 0, Len(said.report.findings))
       \/ /\ Len(page) # perPage /\ count < cap /\ UNCHANGED outcomes
          /\ open' = [open EXCEPT !.item = 1, !.count = count, !.titles = titles]
  BY <1>9, <1>10
<1> QED BY <1>3, <1>6, <1>11 DEF page, count, titles

(* A sink with nothing to do is recorded and opens nothing. *)
LEMMA FindsNothingCheck == CheckInv /\ FindsNothing => CheckInv'
<1> SUFFICES ASSUME CheckInv, FindsNothing PROVE CheckInv'
  OBVIOUS
<1>1. /\ pc = "sinks" /\ UNCHANGED <<setup, run, pc, status, said>> /\ UNCHANGED agentVars
      /\ UNCHANGED <<issues, posts, open, closings>>
      /\ Record("skipped", 0, 0) \/ Record("failed", 0, 0)
  BY DEF FindsNothing, Delivering, OnSinks, DeliverNothing
<1>2. outcomes' \in Seq(OutcomeType)
  <2>1. PICK st \in {"skipped", "failed"} : Record(st, 0, 0)
    BY <1>1
  <2> QED BY <2>1, RecordIsTyped
<1>3. open' \in OpenType
  BY <1>1 DEF CheckInv, SinkType
<1> QED BY <1>1, <1>2, <1>3, QuietCheck

(* A listing opens nothing. *)
LEMMA ListsCheck == CheckInv /\ (Lists \/ FailsToList) => CheckInv'
<1> SUFFICES ASSUME CheckInv, Lists \/ FailsToList PROVE CheckInv'
  OBVIOUS
<1>1. pc = "sinks" /\ UNCHANGED <<setup, run, pc, status, said>> /\ UNCHANGED agentVars
  BY DEF Lists, FailsToList, Delivering, OnSinks
<1>2. open \in OpenType /\ outcomes \in Seq(OutcomeType) /\ said.report \in AnswerType
  BY DEF CheckInv, SinkType, SaidType
<1>3. CASE StartListing(said)
  <2>1. open' = [Idle EXCEPT !.page = 1] /\ UNCHANGED <<issues, posts, outcomes, closings>>
    BY <1>3 DEF StartListing
  <2>2. open' \in OpenType
    BY <2>1, NoneIsSaid DEF OpenType
  <2> QED BY <1>1, <1>2, <2>1, <2>2, QuietCheck
<1>4. CASE ListPage(Cap, said)
  <2>1. PICK page, count, titles :
           /\ open.page > 0 /\ UNCHANGED <<issues, posts, closings>>
           /\ count \in Nat /\ titles \subseteq Titles
           /\ \/ /\ UNCHANGED outcomes
                 /\ open' = [open EXCEPT !.page = open.page + 1, !.count = count, !.titles = titles]
              \/ open' = Idle /\ Record("failed", 0, 0)
              \/ open' = Idle /\ Record("capped", 0, Len(said.report.findings))
              \/ /\ UNCHANGED outcomes
                 /\ open' = [open EXCEPT !.item = 1, !.count = count, !.titles = titles]
    BY <1>4, ListPageIs
  <2>2. open' \in OpenType
    <3>1. PICK n \in Nat : n = open.page + 1
      BY <1>2 DEF OpenType
    <3>2. [open EXCEPT !.page = n, !.count = count, !.titles = titles] \in OpenType
      BY <1>2, <2>1 DEF OpenType
    <3>3. [open EXCEPT !.item = 1, !.count = count, !.titles = titles] \in OpenType
      BY <1>2, <2>1 DEF OpenType
    <3> QED BY <2>1, <3>1, <3>2, <3>3, NoneIsSaid
  <2>3. outcomes' \in Seq(OutcomeType)
    <3>1. Len(said.report.findings) \in Int
      <4>1. PICK f \in Seq(STRING) : f = said.report.findings
        BY <1>2 DEF AnswerType
      <4> QED BY <4>1, LenProperties
    <3>2. Record("failed", 0, 0) => outcomes' \in Seq(OutcomeType)
      BY RecordIsTyped
    <3>3. Record("capped", 0, Len(said.report.findings)) => outcomes' \in Seq(OutcomeType)
      BY <3>1, RecordIsTyped
    <3> QED BY <1>2, <2>1, <3>2, <3>3
  <2> QED BY <1>1, <2>1, <2>2, <2>3, QuietCheck
<1>5. CASE ListFails
  <2>1. open' = Idle /\ Record("failed", 0, 0) /\ UNCHANGED <<issues, posts, closings>>
    BY <1>5 DEF ListFails
  <2>2. outcomes' \in Seq(OutcomeType)
    BY <2>1, RecordIsTyped
  <2> QED BY <1>1, <2>1, <2>2, QuietCheck, NoneIsSaid
<1> QED BY <1>3, <1>4, <1>5 DEF Lists, FailsToList

(* Neither does a finding that is skipped, nor the end of the findings. *)
LEMMA ItemsCheck == CheckInv /\ (Skips \/ EndsItems) => CheckInv'
<1> SUFFICES ASSUME CheckInv, Skips \/ EndsItems PROVE CheckInv'
  OBVIOUS
<1>1. pc = "sinks" /\ UNCHANGED <<setup, run, pc, status, said>> /\ UNCHANGED agentVars
  BY DEF Skips, EndsItems, Delivering, OnSinks
<1>2. open \in OpenType /\ outcomes \in Seq(OutcomeType)
  BY DEF CheckInv, SinkType
<1>3. CASE Skips
  <2>1. /\ open' = [open EXCEPT !.item = open.item + 1, !.skipped = open.skipped + 1]
        /\ UNCHANGED <<issues, posts, outcomes, closings>>
    BY <1>3 DEF Skips, SkipItem
  <2>2. PICK n \in Nat : n = open.item + 1
    BY <1>2 DEF OpenType
  <2>3. PICK k \in Nat : k = open.skipped + 1
    BY <1>2 DEF OpenType
  <2>4. open' \in OpenType
    BY <1>2, <2>1, <2>2, <2>3 DEF OpenType
  <2> QED BY <1>1, <1>2, <2>1, <2>4, QuietCheck
<1>4. CASE EndsItems
  <2>1. /\ Record(IF open.created = 0 THEN "skipped" ELSE "created", open.created, open.skipped)
        /\ open' = Idle /\ UNCHANGED <<issues, posts, closings>>
    BY <1>4 DEF EndsItems, EndItems
  <2>2. open.created \in Nat /\ open.skipped \in Int
    BY <1>2 DEF OpenType
  <2>3. outcomes' \in Seq(OutcomeType)
    <3>1. PICK st \in {"skipped", "created"} : Record(st, open.created, open.skipped)
      BY <2>1
    <3> QED BY <2>2, <3>1, RecordIsTyped
  <2> QED BY <1>1, <2>1, <2>3, QuietCheck, NoneIsSaid
<1> QED BY <1>3, <1>4

(* An issue is opened by a run with a report, and is of that run. *)
LEMMA OpenedIs ==
    ASSUME CheckInv, open.item \in DOMAIN said.report.findings,
           NEW title, title = TrimSpace(said.report.findings[open.item])
    PROVE  /\ title \in Titles /\ ~said.failure
           /\ Opened(run, title) \in Seq(IssueType)
           /\ Len(Opened(run, title)) = Len(issues) + 1
           /\ DOMAIN Opened(run, title) = 1..(Len(issues) + 1)
           /\ Opened(run, title)[1] = [title |-> title, run |-> run, sink |-> Len(outcomes) + 1]
           /\ \A i \in 1..Len(issues) : Opened(run, title)[i + 1] = issues[i]
           /\ \A i \in 2..(Len(issues) + 1) :
                i - 1 \in DOMAIN issues /\ Opened(run, title)[i] = issues[i - 1]
           /\ \A i \in DOMAIN Opened(run, title) :
                i = 1 \/ (i - 1 \in DOMAIN issues /\ Opened(run, title)[i] = issues[i - 1])
<1>1. /\ said \in SaidType /\ (said.failure => said = None) /\ run \in Nat
      /\ issues \in Seq(IssueType) /\ outcomes \in Seq(OutcomeType)
  BY DEF CheckInv, SinkType, RunType
<1>2. PICK f \in Seq(STRING) : f = said.report.findings
  BY <1>1 DEF SaidType, AnswerType
<1>3. f[open.item] \in STRING
  BY <1>2, LenProperties, ElementOfSeq
<1>4. title \in Titles
  BY <1>2, <1>3 DEF TrimSpace, Titles
<1>5. ~said.failure
  <2>1. SUFFICES ASSUME said = None PROVE FALSE
    BY <1>1
  <2>2. said.report.findings = <<>>
    BY <2>1 DEF None, Nothing
  <2> QED BY <2>2
<1>6. Len(outcomes) + 1 \in Nat
  BY <1>1, LenProperties
<1>7. PICK e \in IssueType : e = [title |-> title, run |-> run, sink |-> Len(outcomes) + 1]
  BY <1>1, <1>4, <1>6 DEF IssueType
<1>8. Opened(run, title) = <<e>> \o issues
  BY <1>7 DEF Opened
<1>9. PICK s : s = <<e>> \o issues
  OBVIOUS
<1>10. Len(issues) \in Nat /\ DOMAIN issues = 1..Len(issues)
  BY <1>1, LenProperties
<1>11. /\ s \in Seq(IssueType) /\ Len(s) = Len(issues) + 1 /\ DOMAIN s = 1..(Len(issues) + 1)
       /\ s[1] = e
       /\ \A i \in 1..Len(issues) : s[i + 1] = issues[i]
       /\ \A i \in 2..(Len(issues) + 1) : i - 1 \in 1..Len(issues) /\ s[i] = issues[i - 1]
  BY <1>1, <1>9, PrependIs
<1>12. \A i \in DOMAIN s : i = 1 \/ i \in 2..(Len(issues) + 1)
  BY <1>10, <1>11
<1> QED BY <1>4, <1>5, <1>7, <1>8, <1>9, <1>10, <1>11, <1>12

(* An issue is opened for this run, which has a report. *)
LEMMA CreatesCheck == CheckInv /\ (Creates \/ FailsToCreate) => CheckInv'
<1> SUFFICES ASSUME CheckInv, Creates \/ FailsToCreate PROVE CheckInv'
  OBVIOUS
<1>1. /\ pc = "sinks" /\ UNCHANGED <<setup, run, pc, status, said>> /\ UNCHANGED agentVars
      /\ UNCHANGED <<posts, closings>> /\ open.item \in DOMAIN said.report.findings
  BY DEF Creates, FailsToCreate, Delivering, OnSinks, CreateItem, CreateFails
<1>2. PICK title : title = TrimSpace(said.report.findings[open.item])
  OBVIOUS
<1>3. PICK s : s = Opened(run, title)
  OBVIOUS
<1>4. /\ title \in Titles /\ ~said.failure /\ s \in Seq(IssueType)
      /\ s[1] = [title |-> title, run |-> run, sink |-> Len(outcomes) + 1]
      /\ \A i \in DOMAIN s : i = 1 \/ (i - 1 \in DOMAIN issues /\ s[i] = issues[i - 1])
  BY <1>1, <1>2, <1>3, OpenedIs
<1>5. open \in OpenType /\ outcomes \in Seq(OutcomeType) /\ issues \in Seq(IssueType) /\ run \in Nat
  BY DEF CheckInv, SinkType, RunType
<1>6. issues' \in {issues, s} /\ open' \in OpenType /\ outcomes' \in Seq(OutcomeType)
  <2>1. CASE Creates
    <3>1. /\ issues' = s /\ UNCHANGED outcomes
          /\ open' = [open EXCEPT !.item = open.item + 1, !.created = open.created + 1,
                                  !.titles = open.titles \cup {title}]
      BY <1>2, <1>3, <2>1 DEF Creates, CreateItem
    <3>2. PICK n \in Nat : n = open.item + 1
      BY <1>5 DEF OpenType
    <3>3. PICK k \in Nat : k = open.created + 1
      BY <1>5 DEF OpenType
    <3>4. PICK t \in SUBSET Titles : t = open.titles \cup {title}
      BY <1>4, <1>5 DEF OpenType
    <3>5. open' \in OpenType
      BY <1>5, <3>1, <3>2, <3>3, <3>4 DEF OpenType
    <3> QED BY <1>5, <3>1, <3>5
  <2>2. CASE FailsToCreate
    <3>1. /\ issues' \in {issues, s} /\ open' = Idle
          /\ Record("failed", open.created, NotCreated(open, said.report.findings))
      BY <1>2, <1>3, <2>2 DEF FailsToCreate, CreateFails
    <3>2. NotCreated(open, said.report.findings) \in Int /\ open.created \in Nat
      <4>1. PICK f \in Seq(STRING) : f = said.report.findings
        BY DEF CheckInv, SinkType, SaidType, AnswerType
      <4>2. Len(f) \in Nat /\ open.created \in Nat
        BY <1>5, LenProperties DEF OpenType
      <4> QED BY <4>1, <4>2 DEF NotCreated
    <3>3. outcomes' \in Seq(OutcomeType)
      BY <3>1, <3>2, RecordIsTyped
    <3> QED BY <3>1, <3>3, NoneIsSaid
  <2> QED BY <2>1, <2>2
<1>7. SinkType'
  BY <1>1, <1>4, <1>5, <1>6 DEF CheckInv, SinkType, None
<1>8. MinePart'
  <2>1. \A i \in DOMAIN issues : issues[i].run <= run
    BY DEF CheckInv, MinePart
  <2>2. \A i \in DOMAIN s : s[i].run <= run
    <3>1. s[1].run <= run
      BY <1>4, <1>5
    <3> QED BY <1>4, <2>1, <3>1
  <2> QED BY <1>1, <1>4, <1>6, <2>1, <2>2 DEF CheckInv, MinePart
<1> QED BY <1>1, <1>7, <1>8, SinkCheck

(* Of what is left once an issue was closed each was there, in the same order. *)
LEMMA ClosesIs ==
    ASSUME CheckInv, HumanCloses
    PROVE  /\ issues' \in Seq(IssueType) /\ Len(issues') = Len(issues) - 1
           /\ closings' \in [number : Nat, listing : BOOLEAN]
           /\ closings'.number > 0 /\ (closings.listing => closings'.listing)
           /\ \A j \in DOMAIN issues' : \E k \in DOMAIN issues :
                (k = j \/ k = j + 1) /\ issues'[j] = issues[k]
           /\ \E i \in DOMAIN issues : \A j \in DOMAIN issues' :
                j \in DOMAIN issues /\ j + 1 \in DOMAIN issues
                /\ issues'[j] = IF j < i THEN issues[j] ELSE issues[j + 1]
<1>1. issues \in Seq(IssueType) /\ closings \in [number : Nat, listing : BOOLEAN] /\ open \in OpenType
  BY DEF CheckInv, SinkType
<1>2. PICK i \in DOMAIN issues : issues' = RemoveAt(issues, i)
  BY DEF HumanCloses
<1>3. /\ issues' \in Seq(IssueType) /\ Len(issues') = Len(issues) - 1
      /\ \A j \in 1..(Len(issues) - 1) : issues'[j] = IF j < i THEN issues[j] ELSE issues[j + 1]
  BY <1>1, <1>2, RemoveAtIs
<1>4. Len(issues) \in Nat /\ DOMAIN issues = 1..Len(issues) /\ DOMAIN issues' = 1..(Len(issues) - 1)
  BY <1>1, <1>3, LenProperties
<1>5. \A j \in DOMAIN issues' :
        /\ j \in DOMAIN issues /\ j + 1 \in DOMAIN issues
        /\ issues'[j] = IF j < i THEN issues[j] ELSE issues[j + 1]
  BY <1>3, <1>4
<1>6. closings' = [number |-> closings.number + 1,
                   listing |-> closings.listing \/ (open.page > 1 /\ open.item = 0)]
  BY DEF HumanCloses
<1>7. closings' \in [number : Nat, listing : BOOLEAN] /\ closings'.number > 0
      /\ (closings.listing => closings'.listing)
  BY <1>1, <1>6
<1> QED BY <1>3, <1>5, <1>7

(* Closing an issue leaves the others with the runs that opened them. *)
LEMMA ClosesCheck == CheckInv /\ Closes => CheckInv'
<1> SUFFICES ASSUME CheckInv, Closes PROVE CheckInv'
  OBVIOUS
<1>1. /\ UNCHANGED <<setup, run, pc, status, said, child, ctx, stream>> /\ UNCHANGED <<posts, open, outcomes>>
  BY DEF Closes, HumanCloses, agentVars
<1>2. /\ issues' \in Seq(IssueType) /\ closings' \in [number : Nat, listing : BOOLEAN]
      /\ \A j \in DOMAIN issues' : \E k \in DOMAIN issues : issues'[j] = issues[k]
  BY ClosesIs DEF Closes
<1>3. SinkType'
  BY <1>1, <1>2 DEF CheckInv, SinkType, None
<1>4. MinePart'
  BY <1>1, <1>2 DEF CheckInv, MinePart
<1>5. Acted' => Acted
  BY <1>1, <1>2 DEF Acted
<1>6. RunType' /\ AgentType' /\ ReceiptPart'
  BY <1>1 DEF CheckInv, RunType, AgentType, ReceiptPart, Book
<1>7. ServedPart'
  BY <1>1 DEF CheckInv, ServedPart, Served, Book, Unserved
<1>8. BeforePart' /\ TrustPart'
  BY <1>1, <1>5 DEF CheckInv, BeforePart, TrustPart, Trusted, Unserved, None
<1> QED BY <1>3, <1>4, <1>6, <1>7, <1>8 DEF CheckInv

(* The run that comes after: nothing is of it yet. *)
LEMMA LaterIsNew ==
    ASSUME CheckInv, run' = run + 1, UNCHANGED <<issues, posts>>
    PROVE  /\ ~Acted' /\ run' \in Nat \ {0}
           /\ \A p \in posts : p.run <= run' /\ p.run # run'
           /\ \A i \in DOMAIN issues : issues[i].run <= run' /\ issues[i].run # run'
<1>1. run \in Nat \ {0} /\ issues \in Seq(IssueType) /\ posts \subseteq [run : Nat, said : SaidType]
  BY DEF CheckInv, RunType, SinkType
<1>2. \A p \in posts : p.run \in Nat /\ p.run <= run
  BY <1>1 DEF CheckInv, MinePart
<1>3. \A i \in DOMAIN issues : issues[i].run \in Nat /\ issues[i].run <= run
  <2>1. \A i \in DOMAIN issues : issues[i] \in IssueType
    BY <1>1, LenProperties, ElementOfSeq
  <2> QED BY <2>1 DEF CheckInv, MinePart, IssueType
<1>4. \A n \in Nat : n <= run => n <= run' /\ n # run'
  BY <1>1
<1> QED BY <1>1, <1>2, <1>3, <1>4 DEF Acted

(* A resume starts over with the report of the run it resumes. *)
LEMMA ResumeCheck == CheckInv /\ Resume => CheckInv'
<1> SUFFICES ASSUME CheckInv, Resume PROVE CheckInv'
  OBVIOUS
<1>1. PICK unbuilt : DeliverAgain(unbuilt)
  BY DEF Resume
<1>2. /\ pc = "over" /\ ~said.failure /\ run' = run + 1 /\ outcomes' = <<>> /\ open' = Idle
      /\ UNCHANGED <<setup, said, child, ctx, stream, issues, posts, closings>>
  BY DEF Resume, agentVars
<1>3. pc' \in {"sinks", "over"} /\ status' # "not_a_run"
  BY <1>1 DEF DeliverAgain
<1>4. /\ ~Acted' /\ run' \in Nat \ {0}
      /\ \A p \in posts : p.run <= run' /\ p.run # run'
      /\ \A i \in DOMAIN issues : issues[i].run <= run' /\ issues[i].run # run'
  BY <1>2, LaterIsNew
<1>5. Trusted /\ ~Unserved /\ Served
  <2>1. said # None
    BY <1>2, NoneIsSaid
  <2> QED BY <2>1 DEF CheckInv, TrustPart, ServedPart
<1>6. ~Unserved' /\ Served' /\ Trusted'
  BY <1>2, <1>3, <1>5 DEF Unserved, Served, Trusted, Book
<1>7. RunType' /\ AgentType' /\ ReceiptPart'
  BY <1>2, <1>3, <1>4 DEF CheckInv, RunType, AgentType, ReceiptPart, Book
<1>8. SinkType'
  <2>1. outcomes' \in Seq(OutcomeType)
    BY <1>2, EmptySeq
  <2> QED BY <1>2, <2>1, NoneIsSaid DEF CheckInv, SinkType, None
<1>9. MinePart'
  BY <1>2, <1>4 DEF MinePart
<1>10. ServedPart' /\ BeforePart' /\ TrustPart'
  BY <1>3, <1>6 DEF ServedPart, BeforePart, TrustPart
<1> QED BY <1>7, <1>8, <1>9, <1>10 DEF CheckInv

(* A second run starts over with nothing said. *)
LEMMA AgainCheck == CheckInv /\ Again => CheckInv'
<1> SUFFICES ASSUME CheckInv, Again PROVE CheckInv'
  OBVIOUS
<1>1. /\ pc = "over" /\ status # "not_a_run" /\ run' = run + 1 /\ pc' = "bind" /\ status' = "running"
      /\ said' = None /\ child' = NoChild /\ stream' = NewStream /\ outcomes' = <<>> /\ open' = Idle
      /\ UNCHANGED <<setup, issues, posts, closings>>
  BY DEF Again
<1>2. /\ ~Acted' /\ run' \in Nat \ {0}
      /\ \A p \in posts : p.run <= run' /\ p.run # run'
      /\ \A i \in DOMAIN issues : issues[i].run <= run' /\ issues[i].run # run'
  BY <1>1, LaterIsNew
<1>4. Served' /\ ~Unserved'
  BY <1>1 DEF CheckInv, ServedPart, Unserved, Served, Book
<1>5. RunType' /\ AgentType' /\ ReceiptPart'
  BY <1>1, <1>2, NewIsTyped DEF CheckInv, RunType, AgentType, ReceiptPart
<1>6. SinkType'
  <2>1. outcomes' \in Seq(OutcomeType)
    BY <1>1, EmptySeq
  <2> QED BY <1>1, <2>1, NoneIsSaid DEF CheckInv, SinkType, None
<1>7. MinePart'
  BY <1>1, <1>2 DEF MinePart
<1>8. ServedPart' /\ BeforePart' /\ TrustPart'
  BY <1>1, <1>2, <1>4 DEF ServedPart, BeforePart, TrustPart, None
<1> QED BY <1>5, <1>6, <1>7, <1>8 DEF CheckInv

(* Every step, and every stuttering one, keeps CheckInv. *)
LEMMA NextCheck == CheckInv /\ [Next]_vars => CheckInv'
<1> SUFFICES ASSUME CheckInv, [Next]_vars PROVE CheckInv'
  OBVIOUS
<1>1. CASE UNCHANGED vars
  <2>1. /\ UNCHANGED <<setup, run, pc, status, said, child, ctx, stream>> /\ UNCHANGED sinkVars
    BY <1>1 DEF vars, agentVars
  <2>2. (Unserved' <=> Unserved) /\ (Unserved => pc \in {"load", "over"}) /\ (~Unserved => Served)
    BY <2>1 DEF CheckInv, ServedPart, Unserved
  <2> QED BY <2>1, <2>2, FrameCheck DEF CheckInv, RunType
<1>2. CASE RunSteps
  BY <1>2, LoadCheck, StagesCheck, StartCheck, ReadsLineCheck, AgentEndsCheck, PostsCheck,
     FindsNothingCheck, ListsCheck, ItemsCheck, CreatesCheck DEF RunSteps
<1>3. CASE ChildSteps \/ Stop \/ Closes \/ Resume \/ Again
  BY <1>3, ChildCheck, StagesCheck, ClosesCheck, ResumeCheck, AgainCheck
<1> QED BY <1>1, <1>2, <1>3 DEF Next

(* What a run acts on is trusted, in every state of every deployment. *)
THEOREM CheckInvariance == Spec => []CheckInv
<1>1. Init => CheckInv
  BY InitCheck
<1>2. CheckInv /\ [Next]_vars => CheckInv'
  BY NextCheck
<1> QED BY <1>1, <1>2, PTL DEF Spec

(* The invariant says of every receipt what the gate says of the tools and servers it lists. *)
LEMMA CheckedByInv == CheckInv => DeliveredIsChecked
<1> SUFFICES ASSUME CheckInv PROVE DeliveredIsChecked
  OBVIOUS
<1> DEFINE posted == {p \in posts : p.run = run}
           acted == \E i \in DOMAIN issues : issues[i].run = run
<1> SUFFICES ASSUME posted # {} \/ acted
             PROVE  /\ ctx # "deadline"
                    /\ \A i \in DOMAIN stream.receipts :
                        /\ \A tool \in stream.receipts[i].tools : Bounded(tool)
                        /\ stream.receipts[i].servers \subseteq ToSet(Book.agent.mcp) \cap DOMAIN setup.dep.servers
                    /\ (acted \/ \E p \in posted : ~p.said.failure) =>
                        /\ stream.result # NoResult /\ Report(stream).valid
                        /\ \A p \in posted : p.said.report = Report(stream)
  BY DEF DeliveredIsChecked
<1>1. Acted
  BY DEF Acted
<1>2. Trusted /\ Served
  BY <1>1 DEF CheckInv, TrustPart, ServedPart
<1>3. ctx # "deadline"
  BY <1>2 DEF Trusted
<1>4. ASSUME NEW i \in DOMAIN stream.receipts
      PROVE  /\ \A tool \in stream.receipts[i].tools : Bounded(tool)
             /\ stream.receipts[i].servers \subseteq ToSet(Book.agent.mcp) \cap DOMAIN setup.dep.servers
  <2>1. PICK receipt : receipt = stream.receipts[i]
    OBVIOUS
  <2>2. receipt.type = "init" /\ CheckReceipt(Book.agent, receipt)
    BY <1>2, <2>1 DEF CheckInv, ReceiptPart, Trusted
  <2>3. /\ receipt.tools \subseteq ToSet(Book.agent.tools) \cup mcpToolsIn(Book.agent.allow)
                                     \cup {StructuredOutput}
        /\ receipt.servers \subseteq ToSet(Book.agent.mcp)
    BY <2>2 DEF CheckReceipt
  <2>4. /\ \A tool \in ToSet(Book.agent.tools) \cup mcpToolsIn(Book.agent.allow)
                         \cup {StructuredOutput} : Bounded(tool)
        /\ ToSet(Book.agent.mcp) \subseteq DOMAIN setup.dep.servers
    BY <1>2, ValidIsBounded DEF CheckInv, RunType
  <2> QED BY <2>1, <2>3, <2>4
<1>5. ASSUME acted \/ \E p \in posted : ~p.said.failure
      PROVE  /\ stream.result # NoResult /\ Report(stream).valid
             /\ \A p \in posted : p.said.report = Report(stream)
  <2>1. \A p \in posted : p.said = said
    BY DEF CheckInv, MinePart
  <2>2. ~said.failure
    BY <1>5, <2>1 DEF CheckInv, MinePart
  <2> QED BY <1>2, <2>1, <2>2 DEF Trusted
<1> QED BY <1>3, <1>4, <1>5

(* Nothing leaves a run whose agent timed out or said, in any of its receipts,     *)
(* that it has more than the gate lets a playbook have; and a report that leaves    *)
(* is the valid answer of the last terminal event.                                  *)
THEOREM DeliveredIsTrusted == Spec => []DeliveredIsChecked
BY CheckInvariance, CheckedByInv, PTL

-----------------------------------------------------------------------------
(***************************************************************************)
(* What a run opens: CapInv.                                               *)
(***************************************************************************)

(* The issues of a list that a run opened through one of its sinks. *)
Of(list, r, sink) == {i \in DOMAIN list : list[i].run = r /\ list[i].sink = sink}

Prepended(more, list) ==
    /\ list \in Seq(IssueType) /\ more \in Seq(IssueType) /\ Len(more) = Len(list) + 1
    /\ \A i \in 1..Len(list) : more[i + 1] = list[i]

(* One more issue, before the others, is one more of its own sink's. *)
LEMMA OfOpened ==
    ASSUME NEW list, NEW more, Prepended(more, list),
           NEW r, NEW k, more[1].run = r, more[1].sink = k, NEW sink
    PROVE  /\ Cardinality(Of(list, r, sink)) \in Nat
           /\ sink = k => Cardinality(Of(more, r, sink)) = Cardinality(Of(list, r, sink)) + 1
           /\ sink # k => Cardinality(Of(more, r, sink)) = Cardinality(Of(list, r, sink))
<1> USE DEF Prepended
<1> DEFINE old == Of(list, r, sink)
           moved == {i + 1 : i \in old}
<1>1. /\ Len(list) \in Nat /\ DOMAIN list = 1..Len(list) /\ DOMAIN more = 1..(Len(list) + 1)
  BY LenProperties
<1>2. old \subseteq 1..Len(list)
  BY <1>1 DEF Of
<1>3. IsFiniteSet(old) /\ Cardinality(old) \in Nat
  <2>1. IsFiniteSet(1..Len(list))
    BY <1>1, FS_Interval
  <2> QED BY <1>2, <2>1, FS_Subset, FS_CardinalityType
<1>4. IsFiniteSet(moved) /\ Cardinality(moved) = Cardinality(old)
  <2>1. PICK f : f = [i \in old |-> i + 1]
    OBVIOUS
  <2>2. f \in Bijection(old, moved)
    <3>1. \A i \in old : f[i] = i + 1 /\ i \in Int
      BY <1>2, <2>1
    <3>2. f \in [old -> moved]
      BY <2>1
    <3>3. \A a, b \in old : f[a] = f[b] => a = b
      BY <3>1
    <3>4. \A t \in moved : \E a \in old : f[a] = t
      BY <3>1
    <3> HIDE DEF old, moved
    <3> QED BY <3>2, <3>3, <3>4 DEF Bijection, Injection, Surjection, IsInjective
  <2> HIDE DEF old, moved
  <2>3. ExistsBijection(old, moved)
    BY <2>2 DEF ExistsBijection
  <2> QED BY <1>3, <2>3, FS_Bijection
<1>5. 1 \notin moved
  BY <1>2
<1>6. Of(more, r, sink) = IF sink = k THEN moved \cup {1} ELSE moved
  <2>1. ASSUME NEW i \in 2..(Len(list) + 1) PROVE i \in Of(more, r, sink) <=> i \in moved
    <3>1. i - 1 \in 1..Len(list) /\ (i - 1) + 1 = i /\ i \in 1..(Len(list) + 1)
      BY <1>1
    <3>2. more[i] = list[i - 1]
      BY <3>1
    <3>3. i \in Of(more, r, sink) <=> i - 1 \in old
      BY <1>1, <3>1, <3>2 DEF Of
    <3>4. i - 1 \in old <=> i \in moved
      BY <1>2, <3>1
    <3> QED BY <3>3, <3>4
  <2>2. 1 \in Of(more, r, sink) <=> sink = k
    BY <1>1 DEF Of
  <2>3. Of(more, r, sink) \subseteq 1..(Len(list) + 1) /\ moved \subseteq 2..(Len(list) + 1)
    BY <1>1, <1>2 DEF Of
  <2>4. \A i \in 1..(Len(list) + 1) : i = 1 \/ i \in 2..(Len(list) + 1)
    BY <1>1
  <2> HIDE DEF old, moved
  <2>5. CASE sink = k
    BY <1>5, <2>1, <2>2, <2>3, <2>4, <2>5
  <2>6. CASE sink # k
    <3>1. Of(more, r, sink) \subseteq 2..(Len(list) + 1)
      BY <2>2, <2>3, <2>4, <2>6
    <3>2. Of(more, r, sink) = moved
      BY <2>1, <2>3, <3>1, Zenon
    <3> QED BY <2>6, <3>2
  <2> QED BY <2>5, <2>6
<1> HIDE DEF old, moved
<1>7. Cardinality(moved \cup {1}) = Cardinality(moved) + 1
  BY <1>4, <1>5, FS_AddElement
<1> QED BY <1>3, <1>4, <1>6, <1>7 DEF old

(* A run that has opened nothing. *)
LEMMA OfNone ==
    ASSUME NEW list, NEW r, NEW sink, \A i \in DOMAIN list : list[i].run # r
    PROVE  Cardinality(Of(list, r, sink)) = 0
<1>1. Of(list, r, sink) = {}
  BY DEF Of
<1> QED BY <1>1, FS_EmptySet

(* The types the next lemmas use. *)
LEMMA CapTypes ==
    ASSUME CheckInv
    PROVE  /\ Len(outcomes) \in Nat /\ DOMAIN outcomes = 1..Len(outcomes)
           /\ Len(issues) \in Nat /\ DOMAIN issues = 1..Len(issues) /\ issues \in Seq(IssueType)
           /\ Len(said.report.findings) \in Nat
           /\ DOMAIN said.report.findings = 1..Len(said.report.findings)
           /\ open.page \in Nat /\ open.count \in Nat /\ open.item \in Nat
           /\ open.created \in Nat /\ open.skipped \in Nat
           /\ Len(Book.sinks) \in Nat /\ DOMAIN Book.sinks = 1..Len(Book.sinks)
           /\ perPage \in Nat \ {0}
           /\ Len(outcomes) < Len(Book.sinks) =>
                Sink \in ToSet(Book.sinks) /\ Cap \in Int /\ Len(outcomes) + 1 \in DOMAIN Book.sinks
<1>1. outcomes \in Seq(OutcomeType) /\ issues \in Seq(IssueType) /\ open \in OpenType /\ setup \in Setups
  BY DEF CheckInv, SinkType, RunType
<1>2. PICK f \in Seq(STRING) : f = said.report.findings
  BY DEF CheckInv, SinkType, SaidType, AnswerType
<1>3. IsList(Book.sinks) /\ \A sink \in ToSet(Book.sinks) : capOf(sink.config).ceiling \in Int
  BY <1>1, SetupsAssumption DEF SetupsAssumption, Book
<1>4. Len(outcomes) \in Nat /\ DOMAIN outcomes = 1..Len(outcomes)
      /\ Len(issues) \in Nat /\ DOMAIN issues = 1..Len(issues)
      /\ Len(f) \in Nat /\ DOMAIN f = 1..Len(f)
  BY <1>1, LenProperties
<1>5. ASSUME Len(outcomes) < Len(Book.sinks)
      PROVE  Sink \in ToSet(Book.sinks) /\ Cap \in Int /\ Len(outcomes) + 1 \in DOMAIN Book.sinks
  <2>1. Len(outcomes) + 1 \in 1..Len(Book.sinks)
    BY <1>3, <1>4, <1>5 DEF IsList
  <2>2. Len(outcomes) + 1 \in DOMAIN Book.sinks
    BY <1>3, <2>1 DEF IsList
  <2>3. Sink \in ToSet(Book.sinks)
    BY <2>2 DEF Sink, ToSet
  <2> QED BY <1>3, <2>2, <2>3 DEF Cap
<1> QED BY <1>1, <1>2, <1>3, <1>4, <1>5, PagesAssumption DEF OpenType, IsList, PagesAssumption

(* Nothing has been opened, and no delivery is under way. *)
LEMMA InitCap == Init => CapInv
<1> SUFFICES ASSUME Init PROVE CapInv
  OBVIOUS
<1>1. CheckInv
  BY InitCheck
<1>2. open = Idle /\ outcomes = <<>> /\ run = 1 /\ \A i \in DOMAIN issues : issues[i].run = 0
  BY DEF Init
<1>3. open.page = 0 /\ open.item = 0 /\ open.created = 0 /\ open.skipped = 0
  BY <1>2 DEF Idle
<1>4. OpenPart /\ CountPart /\ TitlePart
  BY <1>2, <1>3 DEF OpenPart, CountPart, TitlePart
<1>5. ByPart
  <2>1. ASSUME NEW sink PROVE Cardinality(OpenedBy(sink)) = 0
    <3>1. OpenedBy(sink) = Of(issues, run, sink)
      BY DEF OpenedBy, Of
    <3> QED BY <1>2, <3>1, OfNone
  <2> QED BY <1>3, <2>1 DEF ByPart
<1>6. Len(issues) <= Len(setup.issues)
  <2>1. DOMAIN issues = DOMAIN setup.issues
    BY DEF Init
  <2>2. setup.issues \in Seq(STRING)
    BY SetupsAssumption DEF SetupsAssumption, Init
  <2>3. PICK t \in Seq(STRING) : t = setup.issues
    BY <2>2
  <2>4. Len(t) \in Nat /\ DOMAIN t = 1..Len(t)
    BY LenProperties
  <2>5. Len(issues) \in Nat /\ DOMAIN issues = 1..Len(issues)
    BY <1>1, CapTypes
  <2> QED BY <2>1, <2>3, <2>4, <2>5
<1>7. CreatedIsCapped
  <2>1. DOMAIN outcomes = {}
    BY <1>2
  <2> QED BY <1>2, <1>6, <2>1 DEF CreatedIsCapped, OpenIsCapped, OpenedIsNew, RecordedIsOpened
<1> QED BY <1>4, <1>5, <1>7 DEF CapInv

(* A step that leaves the sinks alone, a delivery under way being one of them. *)
LEMMA FrameCap ==
    ASSUME CheckInv, CapInv, UNCHANGED <<setup, run>>, UNCHANGED sinkVars,
           UNCHANGED said \/ (open = Idle /\ outcomes = <<>>),
           open # Idle => pc' = "sinks" /\ UNCHANGED said
    PROVE  CapInv'
<1> USE DEF sinkVars
<1>1. open = Idle => open.page = 0 /\ open.item = 0 /\ open.created = 0 /\ open.skipped = 0
  BY DEF Idle
<1>2. OpenPart'
  <2>1. CASE open = Idle
    BY <1>1, <2>1 DEF OpenPart, Idle
  <2>2. CASE open # Idle
    BY <2>2 DEF CapInv, OpenPart, Book, Sink, Idle
  <2> QED BY <2>1, <2>2
<1>3. CountPart' /\ TitlePart'
  BY DEF CapInv, CountPart, TitlePart
<1>4. ByPart'
  BY DEF CapInv, ByPart, OpenedBy, Book
<1>5. OpenIsCapped' /\ OpenedIsNew'
  BY DEF CapInv, CreatedIsCapped, OpenIsCapped, OpenedIsNew, Book
<1>6. RecordedIsOpened'
  <2>1. CASE UNCHANGED said
    BY <2>1 DEF CapInv, CreatedIsCapped, RecordedIsOpened, OpenedBy, Book
  <2>2. CASE outcomes = <<>>
    <3>1. DOMAIN outcomes' = {}
      BY <2>2
    <3> QED BY <3>1 DEF RecordedIsOpened
  <2> QED BY <2>1, <2>2
<1> QED BY <1>2, <1>3, <1>4, <1>5, <1>6 DEF CapInv, CreatedIsCapped

(* A sink is done: what it recorded is what it opened. *)
LEMMA RecordCap ==
    ASSUME CheckInv, CapInv, Delivering, UNCHANGED <<setup, run, said, pc, closings>>,
           NEW st \in {"delivered", "failed", "skipped", "capped", "created"}, NEW c \in Nat, NEW k \in Int,
           Record(st, c, k), open' = Idle, OpenIsCapped', OpenedIsNew',
           NEW at, at = Len(outcomes) + 1,
           \A sink : sink # at => Cardinality(Of(issues', run, sink)) = Cardinality(Of(issues, run, sink)),
           Sink.type = "github" /\ ~said.failure =>
               /\ c + k \in {0, Len(said.report.findings)}
               /\ closings.number = 0 =>
                    Cardinality(Of(issues', run, at)) - c \in (IF st = "failed" THEN {0, 1} ELSE {0})
    PROVE  CapInv'
<1>1. /\ Len(outcomes) \in Nat /\ DOMAIN outcomes = 1..Len(outcomes)
      /\ Len(Book.sinks) \in Nat /\ DOMAIN Book.sinks = 1..Len(Book.sinks)
  BY CapTypes
<1>2. /\ outcomes' \in Seq(OutcomeType) /\ Len(outcomes') = at
      /\ DOMAIN outcomes' = 1..at
      /\ \A i \in 1..Len(outcomes) : outcomes'[i] = outcomes[i]
      /\ outcomes'[at] = [status |-> st, created |-> c, skipped |-> k]
  <2>1. PICK e \in OutcomeType : e = [status |-> st, created |-> c, skipped |-> k]
    BY DEF OutcomeType
  <2>2. outcomes' = Append(outcomes, e)
    BY <2>1 DEF Record
  <2>3. outcomes \in Seq(OutcomeType)
    BY DEF CheckInv, SinkType
  <2>4. /\ outcomes' \in Seq(OutcomeType) /\ Len(outcomes') = at
        /\ \A i \in 1..Len(outcomes) : outcomes'[i] = outcomes[i]
        /\ outcomes'[at] = e
    BY <2>2, <2>3, AppendProperties
  <2> QED BY <2>1, <2>4, LenProperties
<1>3. open'.page = 0 /\ open'.item = 0 /\ open'.created = 0 /\ open'.skipped = 0
  BY DEF Idle
<1>4. OpenPart' /\ CountPart' /\ TitlePart'
  BY <1>3 DEF OpenPart, CountPart, TitlePart, Idle
<1>5. ASSUME NEW sink PROVE OpenedBy(sink)' = Of(issues', run, sink) /\ OpenedBy(sink) = Of(issues, run, sink)
  BY DEF OpenedBy, Of
<1>6. ByPart'
  <2>1. SUFFICES ASSUME closings.number = 0, NEW sink \in (at + 1)..Len(Book.sinks)
                 PROVE  Cardinality(OpenedBy(sink)') = 0
    BY <1>2, <1>3 DEF ByPart, Book
  <2>2. sink \in (Len(outcomes) + 1)..Len(Book.sinks) /\ sink # at
    BY <1>1
  <2>3. Cardinality(OpenedBy(sink)) = 0
    BY <2>1, <2>2 DEF CapInv, ByPart
  <2> QED BY <1>5, <2>2, <2>3
<1>7. RecordedIsOpened'
  <2>1. SUFFICES ASSUME NEW i \in 1..at, Book.sinks[i].type = "github", ~said.failure
                 PROVE  /\ outcomes'[i].created + outcomes'[i].skipped \in {0, Len(said.report.findings)}
                        /\ closings.number = 0 =>
                            Cardinality(Of(issues', run, i)) - outcomes'[i].created
                                \in (IF outcomes'[i].status = "failed" THEN {0, 1} ELSE {0})
    BY <1>2, <1>5 DEF RecordedIsOpened, Book
  <2>2. CASE i = at
    <3>1. Sink.type = "github"
      BY <2>1, <2>2 DEF Sink
    <3> QED BY <1>2, <2>1, <2>2, <3>1
  <2>3. CASE i # at
    <3>1. i \in 1..Len(outcomes)
      BY <1>1, <2>3
    <3>2. /\ outcomes[i].created + outcomes[i].skipped \in {0, Len(said.report.findings)}
          /\ closings.number = 0 =>
              Cardinality(OpenedBy(i)) - outcomes[i].created
                  \in (IF outcomes[i].status = "failed" THEN {0, 1} ELSE {0})
      BY <1>1, <2>1, <3>1 DEF CapInv, CreatedIsCapped, RecordedIsOpened
    <3>3. outcomes'[i] = outcomes[i] /\ Cardinality(Of(issues', run, i)) = Cardinality(OpenedBy(i))
      BY <1>2, <1>5, <2>3, <3>1
    <3> QED BY <3>2, <3>3
  <2> QED BY <2>2, <2>3
<1> QED BY <1>4, <1>6, <1>7 DEF CapInv, CreatedIsCapped

(* A sink is at work, and opens nothing. *)
LEMMA WorkCap ==
    ASSUME CheckInv, CapInv, UNCHANGED <<setup, run, said>>, UNCHANGED <<issues, outcomes, closings>>,
           open'.created = open.created, OpenPart', CountPart', TitlePart'
    PROVE  CapInv'
<1>1. ByPart'
  BY DEF CapInv, ByPart, OpenedBy, Book
<1>2. OpenIsCapped' /\ OpenedIsNew' /\ RecordedIsOpened'
  BY DEF CapInv, CreatedIsCapped, OpenIsCapped, OpenedIsNew, RecordedIsOpened, OpenedBy, Book
<1> QED BY <1>1, <1>2 DEF CapInv, CreatedIsCapped

(* What a sink that ends with nothing more opened leaves. *)
LEMMA EndCap ==
    ASSUME CheckInv, CapInv, Delivering, UNCHANGED <<setup, run, said, pc, closings, issues>>, open' = Idle,
           NEW st \in {"delivered", "failed", "skipped", "capped", "created"}, NEW k \in Int,
           Record(st, open.created, k),
           Sink.type = "github" /\ ~said.failure => open.created + k \in {0, Len(said.report.findings)}
    PROVE  CapInv'
<1>1. PICK at : at = Len(outcomes) + 1
  OBVIOUS
<1>2. OpenIsCapped' /\ OpenedIsNew'
  BY DEF CapInv, CreatedIsCapped, OpenIsCapped, OpenedIsNew, Book
<1>3. at \in (Len(outcomes) + 1)..Len(Book.sinks) /\ open.created \in Nat
  BY <1>1, CapTypes DEF Delivering
<1>4. closings.number = 0 => Cardinality(Of(issues', run, at)) = open.created
  <2>1. OpenedBy(at) = Of(issues, run, at)
    BY DEF OpenedBy, Of
  <2> QED BY <1>1, <1>3, <2>1 DEF CapInv, ByPart
<1>5. closings.number = 0 =>
        Cardinality(Of(issues', run, at)) - open.created \in (IF st = "failed" THEN {0, 1} ELSE {0})
  <2>1. \A n \in Nat : n - n = 0
    OBVIOUS
  <2> QED BY <1>3, <1>4, <2>1
<1>6. \A sink : Cardinality(Of(issues', run, sink)) = Cardinality(Of(issues, run, sink))
  OBVIOUS
<1> QED BY <1>1, <1>2, <1>3, <1>5, <1>6, RecordCap

(* The steps that are not of a sink. *)
LEMMA StagesCap ==
    ASSUME CheckInv, CapInv,
           \/ LoadBook \/ BindGather \/ RunStep \/ RunRetrieval \/ ReadPrompt \/ StartAgent \/ ReadsLine
           \/ AgentEnds \/ FenceRefuses \/ Delivered \/ ChildSteps \/ Stop
    PROVE  CapInv'
<1>1. CASE LoadBook \/ BindGather \/ RunStep \/ RunRetrieval \/ ReadPrompt \/ StartAgent \/ AgentEnds
  <2>1. pc \notin {"sinks", "over"} /\ UNCHANGED <<setup, run>> /\ UNCHANGED sinkVars
    BY <1>1 DEF LoadBook, BindGather, RunStep, RunRetrieval, ReadPrompt, StartAgent, AgentEnds
  <2>2. open = Idle /\ outcomes = <<>>
    BY <2>1 DEF CheckInv, BeforePart
  <2> QED BY <2>1, <2>2, FrameCap
<1>2. CASE ReadsLine \/ ChildSteps \/ Stop
  <2>1. UNCHANGED <<setup, run, said, pc>> /\ UNCHANGED sinkVars
    BY <1>2 DEF ReadsLine, ChildSteps, Says, Exits, Killed, TimesOut, Detaches, HeirLetsGo, ClosesPipes,
                Stop, InStage
  <2>2. open # Idle => pc = "sinks"
    BY DEF CapInv, OpenPart
  <2> QED BY <2>1, <2>2, FrameCap
<1>3. CASE FenceRefuses
  BY <1>3, FrameCap DEF FenceRefuses
<1>4. CASE Delivered
  <2>1. open = Idle
    <3>1. Len(outcomes) \in Nat /\ Len(Book.sinks) \in Nat /\ Len(outcomes) = Len(Book.sinks)
      BY <1>4, CapTypes DEF Delivered
    <3>2. open # Idle => Len(outcomes) < Len(Book.sinks)
      BY DEF CapInv, OpenPart
    <3> QED BY <3>1, <3>2
  <2> QED BY <1>4, <2>1, FrameCap DEF Delivered
<1> QED BY <1>1, <1>2, <1>3, <1>4

(* The sinks that end at once, and the listings that fail. *)
LEMMA EndsCap ==
    ASSUME CheckInv, CapInv, Posts \/ FindsNothing \/ FailsToList \/ EndsItems
    PROVE  CapInv'
<1>0. Delivering /\ UNCHANGED <<setup, run, said, pc, closings, issues>>
  BY DEF Posts, FindsNothing, FailsToList, EndsItems, OnSinks, DeliverWebhook, DeliverNothing, ListFails, EndItems
<1>1. open = Idle => open.created = 0
  BY DEF Idle
<1>2. CASE Posts
  <2>1. open = Idle
    BY <1>2 DEF CapInv, OpenPart, Posts
  <2>2. open' = Idle
    BY <1>2, <2>1 DEF Posts, DeliverWebhook
  <2>3. PICK st \in {"delivered", "failed"} : Record(st, 0, 0)
    BY <1>2 DEF Posts, DeliverWebhook
  <2> QED BY <1>0, <1>1, <1>2, <2>1, <2>2, <2>3, EndCap DEF Posts
<1>3. CASE FindsNothing
  <2>1. open = Idle /\ open' = Idle
    BY <1>3 DEF FindsNothing, DeliverNothing
  <2>2. PICK st \in {"skipped", "failed"} : Record(st, 0, 0)
    BY <1>3 DEF FindsNothing, DeliverNothing
  <2> QED BY <1>0, <1>1, <2>1, <2>2, EndCap
<1>4. CASE FailsToList
  <2>1. open.item = 0 /\ open' = Idle /\ Record("failed", 0, 0)
    BY <1>4 DEF FailsToList, ListFails
  <2>2. open.created = 0
    BY <2>1 DEF CapInv, OpenPart
  <2> QED BY <1>0, <2>1, <2>2, EndCap
<1>5. CASE EndsItems
  <2>1. /\ open.item > 0 /\ open.item = Len(said.report.findings) + 1 /\ open' = Idle
        /\ Record(IF open.created = 0 THEN "skipped" ELSE "created", open.created, open.skipped)
    BY <1>5 DEF EndsItems, EndItems
  <2>2. PICK st \in {"skipped", "created"} : Record(st, open.created, open.skipped)
    BY <2>1
  <2>3. open.created + open.skipped = open.item - 1
    BY <2>1 DEF CapInv, OpenPart
  <2>4. /\ open.created \in Nat /\ open.skipped \in Nat /\ open.item \in Nat
        /\ Len(said.report.findings) \in Nat
    BY CapTypes
  <2>5. open.created + open.skipped = Len(said.report.findings)
    BY <2>1, <2>3, <2>4
  <2> QED BY <1>0, <2>1, <2>2, <2>4, <2>5, EndCap
<1> QED BY <1>2, <1>3, <1>4, <1>5

(* A delivery under way was asked for findings by a github sink. *)
LEMMA UnderWay ==
    ASSUME CheckInv, CapInv, open.page > 0 \/ open.item > 0
    PROVE  /\ open.page > 0 /\ open # Idle /\ pc = "sinks" /\ Len(outcomes) < Len(Book.sinks)
           /\ Sink.type = "github" /\ HasFindings(said)
<1>1. Idle.page = 0 /\ Idle.item = 0
  BY DEF Idle
<1>2. open.page \in Nat /\ open.item \in Nat
  BY CapTypes
<1>3. open.page # 0
  BY <1>1, <1>2 DEF CapInv, OpenPart
<1>4. open # Idle /\ open.page > 0
  BY <1>1, <1>2, <1>3
<1> QED BY <1>4 DEF CapInv, OpenPart

(* A page that is listed is counted, and its titles are known. *)
LEMMA ListsCap ==
    ASSUME CheckInv, CapInv, Lists
    PROVE  CapInv'
<1>0. Delivering /\ pc = "sinks" /\ UNCHANGED <<setup, run, said, pc>> /\ Sink.type = "github"
      /\ Len(outcomes) < Len(Book.sinks)
  BY DEF Lists, OnSinks, Delivering
<1>1. /\ open.page \in Nat /\ open.count \in Nat /\ open.item \in Nat
      /\ open.created \in Nat /\ open.skipped \in Nat /\ perPage \in Nat \ {0}
      /\ Len(issues) \in Nat /\ DOMAIN issues = 1..Len(issues) /\ issues \in Seq(IssueType)
      /\ Len(said.report.findings) \in Nat
  BY CapTypes
<1>2. CASE StartListing(said)
  <2>1. /\ open = Idle /\ HasFindings(said) /\ UNCHANGED <<issues, outcomes, closings>>
        /\ open' = [Idle EXCEPT !.page = 1]
    BY <1>2 DEF StartListing, CapInv, OpenPart
  <2>2. /\ open'.page = 1 /\ open'.count = 0 /\ open'.item = 0 /\ open'.created = 0 /\ open'.skipped = 0
        /\ open.created = 0
    BY <2>1 DEF Idle
  <2>3. OpenPart'
    BY <1>0, <2>1, <2>2 DEF OpenPart, Sink, Book, HasFindings
  <2>4. (1 - 1) * perPage = 0
    BY <1>1
  <2>5. CountPart'
    BY <2>2, <2>4 DEF CountPart
  <2>6. TitlePart'
    BY <1>1, <2>1, <2>2, <2>4 DEF TitlePart
  <2> QED BY <1>0, <2>1, <2>2, <2>3, <2>5, <2>6, WorkCap
<1>3. CASE ListPage(Cap, said)
  <2> DEFINE page == Page(open.page)
             count == open.count + Len(page)
             titles == open.titles \cup TitlesOn(page)
  <2>1. /\ open.page > 0 /\ open.item = 0 /\ UNCHANGED <<issues, posts, closings>>
        /\ \/ /\ Len(page) = perPage /\ UNCHANGED outcomes
              /\ open' = [open EXCEPT !.page = open.page + 1, !.count = count, !.titles = titles]
           \/ open' = Idle /\ Record("failed", 0, 0)
           \/ open' = Idle /\ Record("capped", 0, Len(said.report.findings))
           \/ /\ Len(page) # perPage /\ count < Cap /\ UNCHANGED outcomes
              /\ open' = [open EXCEPT !.item = 1, !.count = count, !.titles = titles]
    BY <1>3, ListPageIs
  <2>2. /\ HasFindings(said) /\ open.created = 0 /\ open.skipped = 0 /\ open.page \in Nat \ {0}
        /\ open # Idle
    BY <1>1, <2>1, UnderWay DEF CapInv, OpenPart
  <2>3. PICK a \in Nat : a = (open.page - 1) * perPage /\ open.page * perPage = a + perPage
    BY <1>1, <2>2, PagesBefore
  <2>4. /\ Len(page) \in Nat
        /\ Len(page) # perPage => Len(issues) <= a + Len(page)
        /\ \A i \in DOMAIN issues : a < i /\ i <= a + Len(page) => issues[i].title \in TitlesOn(page)
    BY <1>1, <2>1, <2>2, <2>3, PageIs
  <2>t. titles = open.titles \cup TitlesOn(page) /\ count = open.count + Len(page)
    OBVIOUS
  <2> HIDE DEF page, count, titles
  <2>5. open.count = a
    BY <2>1, <2>3 DEF CapInv, CountPart
  <2>6. ~closings.listing => \A i \in DOMAIN issues : i <= a => issues[i].title \in open.titles
    BY <2>1, <2>3 DEF CapInv, TitlePart
  <2>7. ~closings.listing => \A i \in DOMAIN issues : i <= a + Len(page) => issues[i].title \in titles
    <3>1. \A i \in DOMAIN issues : i <= a \/ a < i
      BY <1>1
    <3> QED BY <2>t, <2>4, <2>6, <3>1
  <2>8. CASE /\ Len(page) = perPage /\ UNCHANGED outcomes
             /\ open' = [open EXCEPT !.page = open.page + 1, !.count = count, !.titles = titles]
    <3>1. /\ open'.page = open.page + 1 /\ open'.count = count /\ open'.titles = titles
          /\ open'.item = 0 /\ open'.created = 0 /\ open'.skipped = 0
      BY <2>1, <2>2, <2>8 DEF CheckInv, SinkType, OpenType
    <3>2. (open'.page - 1) * perPage = a + perPage /\ open'.page # 0
      BY <2>2, <2>3, <3>1
    <3>3. OpenPart'
      BY <1>0, <2>2, <2>8, <3>1, <3>2 DEF OpenPart, Sink, Book, HasFindings
    <3>4. CountPart'
      BY <2>t, <2>5, <2>8, <3>1, <3>2 DEF CountPart
    <3>5. TitlePart'
      BY <2>1, <2>7, <2>8, <3>1, <3>2 DEF TitlePart
    <3> QED BY <1>0, <2>1, <2>2, <2>8, <3>1, <3>3, <3>4, <3>5, WorkCap
  <2>9. CASE /\ Len(page) # perPage /\ UNCHANGED outcomes
             /\ open' = [open EXCEPT !.item = 1, !.count = count, !.titles = titles]
    <3>1. /\ open'.page = open.page /\ open'.count = count /\ open'.titles = titles
          /\ open'.item = 1 /\ open'.created = 0 /\ open'.skipped = 0
      BY <2>1, <2>2, <2>9 DEF CheckInv, SinkType, OpenType
    <3>2. OpenPart'
      BY <1>0, <1>1, <2>2, <2>9, <3>1 DEF OpenPart, Sink, Book, HasFindings
    <3>3. Len(issues) <= count + 0
      BY <1>1, <2>t, <2>4, <2>5, <2>9
    <3>4. CountPart'
      BY <2>1, <3>1, <3>3 DEF CountPart
    <3>5. \A i \in DOMAIN issues : i <= a + Len(page)
      BY <1>1, <2>4, <2>9
    <3>6. TitlePart'
      BY <2>1, <2>7, <3>1, <3>5 DEF TitlePart
    <3> QED BY <1>0, <2>1, <2>2, <2>9, <3>1, <3>2, <3>4, <3>6, WorkCap
  <2>10. CASE open' = Idle /\ Record("failed", 0, 0)
    BY <1>0, <2>1, <2>2, <2>10, EndCap
  <2>11. CASE open' = Idle /\ Record("capped", 0, Len(said.report.findings))
    <3>1. 0 + Len(said.report.findings) = Len(said.report.findings) /\ Len(said.report.findings) \in Int
      BY <1>1
    <3> QED BY <1>0, <2>1, <2>2, <2>11, <3>1, EndCap
  <2> QED BY <2>1, <2>8, <2>9, <2>10, <2>11
<1> QED BY <1>2, <1>3 DEF Lists

(* A finding that is skipped is accounted for. *)
LEMMA SkipsCap ==
    ASSUME CheckInv, CapInv, Skips
    PROVE  CapInv'
<1>1. /\ open.page \in Nat /\ open.count \in Nat /\ open.item \in Nat
      /\ open.created \in Nat /\ open.skipped \in Nat
      /\ Len(said.report.findings) \in Nat
      /\ DOMAIN said.report.findings = 1..Len(said.report.findings)
  BY CapTypes
<1>2. /\ Delivering /\ UNCHANGED <<setup, run, said, pc>> /\ UNCHANGED <<issues, outcomes, closings>>
      /\ open.item > 0 /\ open.item \in DOMAIN said.report.findings
      /\ open' = [open EXCEPT !.item = open.item + 1, !.skipped = open.skipped + 1]
  BY DEF Skips, OnSinks, SkipItem
<1>3. /\ open'.page = open.page /\ open'.count = open.count /\ open'.titles = open.titles
      /\ open'.item = open.item + 1 /\ open'.created = open.created /\ open'.skipped = open.skipped + 1
  BY <1>2 DEF CheckInv, SinkType, OpenType
<1>4. /\ open.page > 0 /\ pc = "sinks" /\ Len(outcomes) < Len(Book.sinks)
      /\ Sink.type = "github" /\ HasFindings(said)
  BY <1>2, UnderWay
<1>5. OpenPart'
  <2>1. open.created + open.skipped = open.item - 1
    BY <1>2 DEF CapInv, OpenPart
  <2>a. \A i, c, k, n \in Nat : c + k = i - 1 /\ i \in 1..n =>
            /\ i + 1 # 0 /\ i + 1 <= n + 1
            /\ c + (k + 1) = (i + 1) - 1 /\ (c + 1) + k = (i + 1) - 1
    OBVIOUS
  <2>2. /\ open'.item # 0 /\ open'.item <= Len(said.report.findings) + 1
        /\ open'.created + open'.skipped = open'.item - 1
    <3>1. PICK i, c, k, n \in Nat : /\ i = open.item /\ c = open.created /\ k = open.skipped
                                    /\ n = Len(said.report.findings)
      BY <1>1, Zenon
    <3>2. c + k = i - 1 /\ i \in 1..n
      BY <1>1, <1>2, <2>1, <3>1, Zenon
    <3>3. i + 1 # 0 /\ i + 1 <= n + 1 /\ c + (k + 1) = (i + 1) - 1
      BY <2>a, <3>2
    <3>4. open'.item = i + 1 /\ open'.created = c /\ open'.skipped = k + 1
      BY <1>3, <3>1, Zenon
    <3> QED BY <3>1, <3>3, <3>4, Zenon
  <2>3. open'.page # 0
    BY <1>1, <1>3, <1>4
  <2> QED BY <1>2, <1>4, <2>2, <2>3 DEF OpenPart, Sink, Book, HasFindings
<1>6. open'.item # 0 /\ open'.item > 0
  BY <1>1, <1>3
<1>7. CountPart'
  BY <1>1, <1>2, <1>3, <1>4, <1>6 DEF CapInv, CountPart
<1>8. TitlePart'
  BY <1>1, <1>2, <1>3, <1>4, <1>6 DEF CapInv, TitlePart
<1> QED BY <1>2, <1>3, <1>5, <1>7, <1>8, WorkCap

(* What opening one more issue leaves true: there was room for it, and its title
   was not open. *)
LEMMA OpeningIs ==
    ASSUME CheckInv, CapInv, Delivering, open.item > 0, open.item \in DOMAIN said.report.findings,
           NEW title, title = TrimSpace(said.report.findings[open.item]), Verdict(Cap, title) = "create",
           NEW s, s = Opened(run, title)
    PROVE  /\ Len(s) = Len(issues) + 1 /\ s \in Seq(IssueType)
           /\ Len(issues) <= open.count + open.created
           /\ Len(s) <= Cap /\ Sink.type = "github" /\ Sink \in ToSet(Book.sinks)
           /\ \A i, j \in DOMAIN s :
                (i # j /\ s[i].run # 0 /\ s[i].title = s[j].title) => closings.listing
           /\ ~closings.listing => \A i \in DOMAIN s : s[i].title \in open.titles \cup {title}
           /\ \A sink : Cardinality(Of(issues, run, sink)) \in Nat
           /\ \A sink :
                /\ sink = Len(outcomes) + 1 =>
                    Cardinality(Of(s, run, sink)) = Cardinality(Of(issues, run, sink)) + 1
                /\ sink # Len(outcomes) + 1 =>
                    Cardinality(Of(s, run, sink)) = Cardinality(Of(issues, run, sink))
<1>1. /\ open.page \in Nat /\ open.count \in Nat /\ open.item \in Nat /\ open.created \in Nat
      /\ Len(issues) \in Nat /\ DOMAIN issues = 1..Len(issues) /\ issues \in Seq(IssueType)
      /\ Len(outcomes) < Len(Book.sinks) /\ Sink \in ToSet(Book.sinks) /\ Cap \in Int
  BY CapTypes DEF Delivering
<1>2. /\ s \in Seq(IssueType) /\ Len(s) = Len(issues) + 1 /\ DOMAIN s = 1..(Len(issues) + 1)
      /\ s[1] = [title |-> title, run |-> run, sink |-> Len(outcomes) + 1]
      /\ \A i \in 1..Len(issues) : s[i + 1] = issues[i]
      /\ \A i \in DOMAIN s : i = 1 \/ (i - 1 \in DOMAIN issues /\ s[i] = issues[i - 1])
  BY OpenedIs
<1>3. s[1].title = title /\ s[1].run = run /\ s[1].sink = Len(outcomes) + 1
  BY <1>2
<1>4. open.page > 0 /\ Sink.type = "github"
  BY UnderWay
<1>5. Len(issues) <= open.count + open.created
  BY <1>1, <1>4 DEF CapInv, CountPart
<1>6. title \notin open.titles /\ ~(open.created >= Cap - open.count)
  BY DEF Verdict
<1>7. Len(s) <= Cap
  <2>1. PICK n, c, o \in Nat : n = Len(issues) /\ c = open.count /\ o = open.created
    BY <1>1, Zenon
  <2>2. PICK cap \in Int : cap = Cap
    BY <1>1
  <2>3. n <= c + o /\ ~(o >= cap - c)
    BY <1>5, <1>6, <2>1, <2>2
  <2>4. n + 1 <= cap
    BY <2>3
  <2> QED BY <1>2, <2>1, <2>2, <2>4
<1>8. ~closings.listing => \A i \in DOMAIN issues : issues[i].title \in open.titles
  BY <1>1, <1>4 DEF CapInv, TitlePart
<1>9. ASSUME NEW i \in DOMAIN s, NEW j \in DOMAIN s, i # j, s[i].run # 0, s[i].title = s[j].title,
             ~closings.listing
      PROVE  FALSE
  <2>1. i = 1 \/ (i - 1 \in DOMAIN issues /\ s[i] = issues[i - 1])
    BY <1>2
  <2>2. j = 1 \/ (j - 1 \in DOMAIN issues /\ s[j] = issues[j - 1])
    BY <1>2
  <2>3. ~(i # 1 /\ j # 1)
    <3>1. SUFFICES ASSUME i # 1, j # 1 PROVE FALSE
      OBVIOUS
    <3>2. i - 1 # j - 1
      <4>1. PICK n \in Nat : n = Len(issues)
        BY <1>1, Zenon
      <4>2. i \in 1..(n + 1) /\ j \in 1..(n + 1)
        BY <1>2, <1>9, <4>1, Zenon
      <4> QED BY <1>9, <4>2
    <3> QED BY <1>9, <2>1, <2>2, <3>1, <3>2 DEF CapInv, CreatedIsCapped, OpenedIsNew
  <2>4. CASE i = 1
    BY <1>3, <1>6, <1>8, <1>9, <2>2, <2>4
  <2>5. CASE j = 1
    BY <1>3, <1>6, <1>8, <1>9, <2>1, <2>5
  <2> QED BY <2>3, <2>4, <2>5
<1>10. ~closings.listing => \A i \in DOMAIN s : s[i].title \in open.titles \cup {title}
  BY <1>2, <1>3, <1>8
<1>11. ASSUME NEW sink
       PROVE  /\ Cardinality(Of(issues, run, sink)) \in Nat
              /\ sink = Len(outcomes) + 1 =>
                    Cardinality(Of(s, run, sink)) = Cardinality(Of(issues, run, sink)) + 1
              /\ sink # Len(outcomes) + 1 =>
                    Cardinality(Of(s, run, sink)) = Cardinality(Of(issues, run, sink))
  <2>1. PICK k, r, list : k = Len(outcomes) + 1 /\ r = run /\ list = issues
    OBVIOUS
  <2>2. Prepended(s, list) /\ s[1].run = r /\ s[1].sink = k
    BY <1>1, <1>2, <1>3, <2>1 DEF Prepended
  <2>3. /\ Cardinality(Of(list, r, sink)) \in Nat
        /\ sink = k => Cardinality(Of(s, r, sink)) = Cardinality(Of(list, r, sink)) + 1
        /\ sink # k => Cardinality(Of(s, r, sink)) = Cardinality(Of(list, r, sink))
    BY <2>2, OfOpened
  <2> QED BY <2>1, <2>3
<1> QED BY <1>1, <1>2, <1>4, <1>5, <1>7, <1>9, <1>10, <1>11

(* One is opened under the cap, under a title that is not open. *)
LEMMA CreatesCap ==
    ASSUME CheckInv, CapInv, Creates
    PROVE  CapInv'
<1>1. PICK title : title = TrimSpace(said.report.findings[open.item])
  OBVIOUS
<1>2. PICK s : s = Opened(run, title)
  OBVIOUS
<1>3. /\ Delivering /\ UNCHANGED <<setup, run, said, pc>> /\ UNCHANGED <<outcomes, closings>>
      /\ open.item > 0 /\ open.item \in DOMAIN said.report.findings
      /\ Verdict(Cap, title) = "create" /\ issues' = s
      /\ open' = [open EXCEPT !.item = open.item + 1, !.created = open.created + 1,
                              !.titles = open.titles \cup {title}]
  BY <1>1, <1>2 DEF Creates, OnSinks, CreateItem
<1>4. /\ open'.page = open.page /\ open'.count = open.count /\ open'.titles = open.titles \cup {title}
      /\ open'.item = open.item + 1 /\ open'.created = open.created + 1 /\ open'.skipped = open.skipped
  BY <1>3 DEF CheckInv, SinkType, OpenType
<1>5. /\ Len(s) = Len(issues) + 1 /\ s \in Seq(IssueType)
      /\ Len(issues) <= open.count + open.created
      /\ Len(s) <= Cap /\ Sink.type = "github" /\ Sink \in ToSet(Book.sinks)
      /\ \A i, j \in DOMAIN s :
           (i # j /\ s[i].run # 0 /\ s[i].title = s[j].title) => closings.listing
      /\ ~closings.listing => \A i \in DOMAIN s : s[i].title \in open.titles \cup {title}
      /\ \A sink : Cardinality(Of(issues, run, sink)) \in Nat
      /\ \A sink :
           /\ sink = Len(outcomes) + 1 =>
               Cardinality(Of(s, run, sink)) = Cardinality(Of(issues, run, sink)) + 1
           /\ sink # Len(outcomes) + 1 =>
               Cardinality(Of(s, run, sink)) = Cardinality(Of(issues, run, sink))
  <2>1. /\ Delivering /\ open.item > 0 /\ open.item \in DOMAIN said.report.findings
        /\ Verdict(Cap, title) = "create"
    BY <1>3, Zenon
  <2> QED BY <1>1, <1>2, <2>1, OpeningIs, SMTT(30)
<1>6. /\ open.page > 0 /\ pc = "sinks" /\ Len(outcomes) < Len(Book.sinks)
      /\ Sink.type = "github" /\ HasFindings(said)
  BY <1>3, UnderWay
<1>7. /\ open.page \in Nat /\ open.count \in Nat /\ open.item \in Nat
      /\ open.created \in Nat /\ open.skipped \in Nat /\ Len(issues) \in Nat
      /\ Len(said.report.findings) \in Nat /\ Len(outcomes) \in Nat /\ Len(Book.sinks) \in Nat
      /\ DOMAIN said.report.findings = 1..Len(said.report.findings)
      /\ DOMAIN outcomes = 1..Len(outcomes)
  BY CapTypes
<1>8. OpenPart'
  <2>1. open.created + open.skipped = open.item - 1
    BY <1>3 DEF CapInv, OpenPart
  <2>a. \A i, c, k, n \in Nat : c + k = i - 1 /\ i \in 1..n =>
            /\ i + 1 # 0 /\ i + 1 <= n + 1
            /\ c + (k + 1) = (i + 1) - 1 /\ (c + 1) + k = (i + 1) - 1
    OBVIOUS
  <2>2. /\ open'.item # 0 /\ open'.item <= Len(said.report.findings) + 1
        /\ open'.created + open'.skipped = open'.item - 1
    <3>1. /\ open.item + 1 # 0 /\ open.item + 1 <= Len(said.report.findings) + 1
          /\ (open.created + 1) + open.skipped = (open.item + 1) - 1
      <4>1. open.item \in Nat /\ open.created \in Nat /\ open.skipped \in Nat
            /\ Len(said.report.findings) \in Nat /\ open.item \in 1..Len(said.report.findings)
        BY <1>3, <1>7
      <4> QED BY <2>1, <2>a, <4>1, Zenon
    <3> QED BY <1>4, <3>1
  <2>3. open'.page # 0
    BY <1>4, <1>6, <1>7
  <2> QED BY <1>3, <1>6, <2>2, <2>3 DEF OpenPart, Sink, Book, HasFindings
<1>9. open'.item # 0 /\ open'.item > 0
  BY <1>4, <1>7
<1>10. CountPart'
  <2>1. Len(issues) + 1 <= open.count + (open.created + 1)
    BY <1>5, <1>7
  <2> QED BY <1>3, <1>4, <1>5, <1>9, <2>1 DEF CountPart
<1>11. TitlePart'
  BY <1>3, <1>4, <1>5 DEF TitlePart
<1>12. ASSUME NEW sink PROVE OpenedBy(sink)' = Of(s, run, sink) /\ OpenedBy(sink) = Of(issues, run, sink)
  BY <1>3 DEF OpenedBy, Of
<1>13. ByPart'
  <2>1. SUFFICES ASSUME closings.number = 0, NEW sink \in (Len(outcomes) + 1)..Len(Book.sinks)
                 PROVE  Cardinality(OpenedBy(sink)') =
                            IF sink = Len(outcomes) + 1 THEN open.created + 1 ELSE 0
    BY <1>3, <1>4 DEF ByPart, Book
  <2>2. Cardinality(OpenedBy(sink)) = IF sink = Len(outcomes) + 1 THEN open.created ELSE 0
    BY <2>1 DEF CapInv, ByPart
  <2>3. /\ sink = Len(outcomes) + 1 => Cardinality(OpenedBy(sink)') = Cardinality(OpenedBy(sink)) + 1
        /\ sink # Len(outcomes) + 1 => Cardinality(OpenedBy(sink)') = Cardinality(OpenedBy(sink))
    BY <1>5, <1>12
  <2> QED BY <1>7, <2>2, <2>3
<1>14. RecordedIsOpened'
  <2>1. ASSUME NEW i \in DOMAIN outcomes PROVE Cardinality(OpenedBy(i)') = Cardinality(OpenedBy(i))
    <3>1. i # Len(outcomes) + 1
      BY <1>7
    <3> QED BY <1>5, <1>12, <3>1
  <2> QED BY <1>3, <2>1 DEF CapInv, CreatedIsCapped, RecordedIsOpened, Book
<1>15. OpenIsCapped' /\ OpenedIsNew'
  BY <1>3, <1>5 DEF OpenIsCapped, OpenedIsNew, Cap, Book
<1> QED BY <1>8, <1>10, <1>11, <1>13, <1>14, <1>15 DEF CapInv, CreatedIsCapped

(* The request that fails may have opened its issue: at most that one is not said. *)
LEMMA FailsToCreateCap ==
    ASSUME CheckInv, CapInv, FailsToCreate
    PROVE  CapInv'
<1>1. PICK title : title = TrimSpace(said.report.findings[open.item])
  OBVIOUS
<1>2. PICK s : s = Opened(run, title)
  OBVIOUS
<1>3. /\ Delivering /\ UNCHANGED <<setup, run, said, pc, closings>>
      /\ open.item > 0 /\ open.item \in DOMAIN said.report.findings
      /\ Verdict(Cap, title) = "create" /\ issues' \in {issues, s} /\ open' = Idle
      /\ Record("failed", open.created, NotCreated(open, said.report.findings))
  BY <1>1, <1>2 DEF FailsToCreate, OnSinks, CreateFails
<1>4. /\ Len(s) <= Cap /\ Sink.type = "github" /\ Sink \in ToSet(Book.sinks)
      /\ \A i, j \in DOMAIN s :
           (i # j /\ s[i].run # 0 /\ s[i].title = s[j].title) => closings.listing
      /\ \A sink : Cardinality(Of(issues, run, sink)) \in Nat
      /\ \A sink :
           /\ sink = Len(outcomes) + 1 =>
               Cardinality(Of(s, run, sink)) = Cardinality(Of(issues, run, sink)) + 1
           /\ sink # Len(outcomes) + 1 =>
               Cardinality(Of(s, run, sink)) = Cardinality(Of(issues, run, sink))
  BY <1>1, <1>2, <1>3, OpeningIs
<1>5. /\ open.created \in Nat /\ Len(said.report.findings) \in Nat
      /\ Len(outcomes) \in Nat /\ Len(Book.sinks) \in Nat /\ Len(outcomes) < Len(Book.sinks)
  BY <1>3, CapTypes DEF Delivering
<1>6. OpenIsCapped' /\ OpenedIsNew'
  <2>1. CASE issues' = s
    BY <1>3, <1>4, <2>1 DEF OpenIsCapped, OpenedIsNew, Cap, Book
  <2>2. CASE issues' = issues
    BY <1>3, <2>2 DEF CapInv, CreatedIsCapped, OpenIsCapped, OpenedIsNew, Book
  <2> QED BY <1>3, <2>1, <2>2
<1>7. PICK at : at = Len(outcomes) + 1
  OBVIOUS
<1>8. \A sink : sink # at => Cardinality(Of(issues', run, sink)) = Cardinality(Of(issues, run, sink))
  BY <1>3, <1>4, <1>7
<1>9. closings.number = 0 => Cardinality(Of(issues', run, at)) - open.created \in {0, 1}
  <2>1. OpenedBy(at) = Of(issues, run, at)
    BY DEF OpenedBy, Of
  <2>2. at \in (Len(outcomes) + 1)..Len(Book.sinks)
    BY <1>5, <1>7
  <2>3. closings.number = 0 => Cardinality(Of(issues, run, at)) = open.created
    BY <1>7, <2>1, <2>2 DEF CapInv, ByPart
  <2>4. Cardinality(Of(issues', run, at))
            \in {Cardinality(Of(issues, run, at)), Cardinality(Of(issues, run, at)) + 1}
    BY <1>3, <1>4, <1>7
  <2>5. \A n \in Nat : n - n \in {0, 1} /\ (n + 1) - n \in {0, 1}
    OBVIOUS
  <2> QED BY <1>5, <2>3, <2>4, <2>5
<1>10. PICK k \in Int : k = NotCreated(open, said.report.findings) /\ open.created + k = Len(said.report.findings)
  <2>1. \A n, c \in Nat : n - c \in Int /\ c + (n - c) = n
    OBVIOUS
  <2> QED BY <1>5, <2>1 DEF NotCreated
<1>11. Record("failed", open.created, k)
  BY <1>3, <1>10
<1> QED BY <1>3, <1>5, <1>6, <1>7, <1>8, <1>9, <1>10, <1>11, RecordCap

(* Closing one lowers what is open and moves the later ones up. *)
LEMMA ClosesCap ==
    ASSUME CheckInv, CapInv, Closes
    PROVE  CapInv'
<1>1. /\ UNCHANGED <<setup, run, said, pc>> /\ UNCHANGED <<open, outcomes>> /\ HumanCloses
      /\ closings' = [number |-> closings.number + 1,
                      listing |-> closings.listing \/ (open.page > 1 /\ open.item = 0)]
  BY DEF Closes, HumanCloses
<1>2. /\ issues' \in Seq(IssueType) /\ Len(issues') = Len(issues) - 1
      /\ closings'.number > 0 /\ closings'.number \in Nat
      /\ \A j \in DOMAIN issues' : \E n \in DOMAIN issues : (n = j \/ n = j + 1) /\ issues'[j] = issues[n]
      /\ \E i \in DOMAIN issues : \A j \in DOMAIN issues' :
           j \in DOMAIN issues /\ j + 1 \in DOMAIN issues
           /\ issues'[j] = IF j < i THEN issues[j] ELSE issues[j + 1]
  BY <1>1, ClosesIs
<1>3. /\ Len(issues) \in Nat /\ DOMAIN issues = 1..Len(issues) /\ open.page \in Nat /\ open.item \in Nat
      /\ open.count \in Nat /\ open.created \in Nat /\ perPage \in Nat \ {0}
  BY CapTypes
<1>4. DOMAIN issues' = 1..(Len(issues) - 1)
  BY <1>2, LenProperties
<1>5. closings'.listing <=> closings.listing \/ (open.page > 1 /\ open.item = 0)
  BY <1>1
<1>6. OpenPart'
  BY <1>1 DEF CapInv, OpenPart, Sink, Book, HasFindings, Idle
<1>7. CountPart'
  BY <1>1, <1>2, <1>3 DEF CapInv, CountPart
<1>8. TitlePart'
  <2>1. SUFFICES ASSUME ~closings'.listing, open.page > 0, NEW j \in DOMAIN issues',
                        open.item > 0 \/ j <= (open.page - 1) * perPage
                 PROVE  issues'[j].title \in open.titles
    BY <1>1 DEF TitlePart
  <2>2. open.item > 0
    <3>1. SUFFICES ASSUME open.item = 0 PROVE FALSE
      BY <1>3
    <3>2. open.page = 1
      BY <1>3, <1>5, <2>1, <3>1
    <3>3. (open.page - 1) * perPage = 0
      BY <1>3, <3>2
    <3> QED BY <1>3, <1>4, <2>1, <3>1, <3>3
  <2>3. PICK n \in DOMAIN issues : issues'[j] = issues[n]
    BY <1>2
  <2> QED BY <1>5, <2>1, <2>2, <2>3 DEF CapInv, TitlePart
<1>9. closings'.number # 0
  BY <1>2
<1>10. ByPart'
  BY <1>9 DEF ByPart
<1>11. RecordedIsOpened'
  BY <1>1, <1>9 DEF CapInv, CreatedIsCapped, RecordedIsOpened, Book
<1>12. OpenIsCapped'
  <2>1. \A n \in Int : Len(issues) <= n => Len(issues') <= n
    BY <1>2, <1>3
  <2>2. /\ Len(setup.issues) \in Int
        /\ \A sink \in ToSet(Book.sinks) : capOf(sink.config).ceiling \in Int
    <3>1. setup.issues \in Seq(STRING) /\ \A sink \in ToSet(Book.sinks) : capOf(sink.config).ceiling \in Int
      BY SetupsAssumption DEF SetupsAssumption, Book, CheckInv, RunType
    <3>2. PICK t \in Seq(STRING) : t = setup.issues
      BY <3>1
    <3> QED BY <3>1, <3>2, LenProperties
  <2> QED BY <1>1, <2>1, <2>2 DEF CapInv, CreatedIsCapped, OpenIsCapped, Book
<1>13. OpenedIsNew'
  <2>1. SUFFICES ASSUME NEW a \in DOMAIN issues', NEW b \in DOMAIN issues', a # b,
                        issues'[a].run # 0, issues'[a].title = issues'[b].title
                 PROVE  closings'.listing
    BY DEF OpenedIsNew
  <2>2. PICK i \in DOMAIN issues : \A j \in DOMAIN issues' :
           j \in DOMAIN issues /\ j + 1 \in DOMAIN issues
           /\ issues'[j] = IF j < i THEN issues[j] ELSE issues[j + 1]
    BY <1>2
  <2>3. a \in Int /\ b \in Int /\ i \in Int
    BY <1>3, <1>4
  <2>4. PICK m \in DOMAIN issues, n \in DOMAIN issues :
          m # n /\ issues'[a] = issues[m] /\ issues'[b] = issues[n]
    <3> DEFINE at(j) == IF j < i THEN j ELSE j + 1
    <3>1. at(a) \in DOMAIN issues /\ at(b) \in DOMAIN issues
          /\ issues'[a] = issues[at(a)] /\ issues'[b] = issues[at(b)]
      BY <2>2
    <3>2. at(a) # at(b)
      BY <2>1, <2>3
    <3> QED BY <3>1, <3>2
  <2>5. closings.listing
    BY <2>1, <2>4 DEF CapInv, CreatedIsCapped, OpenedIsNew
  <2> QED BY <1>5, <2>5
<1> QED BY <1>6, <1>7, <1>8, <1>10, <1>11, <1>12, <1>13 DEF CapInv, CreatedIsCapped

(* The run that comes after has opened nothing. *)
LEMMA LaterCap ==
    ASSUME CheckInv, CapInv, Resume \/ Again
    PROVE  CapInv'
<1>1. /\ run' = run + 1 /\ outcomes' = <<>> /\ open' = Idle /\ UNCHANGED <<setup, issues, posts, closings>>
  BY DEF Resume, Again
<1>2. \A i \in DOMAIN issues' : issues'[i].run # run'
  BY <1>1, LaterIsNew
<1>3. /\ open'.page = 0 /\ open'.item = 0 /\ open'.created = 0 /\ open'.skipped = 0
      /\ DOMAIN outcomes' = {}
  BY <1>1 DEF Idle
<1>4. OpenPart' /\ CountPart' /\ TitlePart'
  BY <1>1, <1>3 DEF OpenPart, CountPart, TitlePart, Idle
<1>5. ASSUME NEW sink PROVE Cardinality(OpenedBy(sink)') = 0
  <2>1. OpenedBy(sink)' = Of(issues', run', sink)
    BY DEF OpenedBy, Of
  <2> QED BY <1>2, <2>1, OfNone
<1>6. ByPart'
  BY <1>3, <1>5 DEF ByPart
<1>7. OpenIsCapped' /\ OpenedIsNew' /\ RecordedIsOpened'
  BY <1>1, <1>3 DEF CapInv, CreatedIsCapped, OpenIsCapped, OpenedIsNew, RecordedIsOpened, Book
<1> QED BY <1>4, <1>6, <1>7 DEF CapInv, CreatedIsCapped

(* Every step, and every stuttering one, keeps CapInv. *)
LEMMA NextCap == CheckInv /\ CapInv /\ [Next]_vars => CapInv'
<1> SUFFICES ASSUME CheckInv, CapInv, [Next]_vars PROVE CapInv'
  OBVIOUS
<1>1. CASE UNCHANGED vars
  <2>1. UNCHANGED <<setup, run, said, pc>> /\ UNCHANGED sinkVars
    BY <1>1 DEF vars
  <2>2. open # Idle => pc = "sinks"
    BY DEF CapInv, OpenPart
  <2> QED BY <2>1, <2>2, FrameCap
<1>2. CASE RunSteps
  BY <1>2, StagesCap, EndsCap, ListsCap, SkipsCap, CreatesCap, FailsToCreateCap DEF RunSteps
<1>3. CASE ChildSteps \/ Stop \/ Closes \/ Resume \/ Again
  BY <1>3, StagesCap, ClosesCap, LaterCap
<1> QED BY <1>1, <1>2, <1>3 DEF Next

(* The github sinks of a run keep count of what they open, in every state. *)
THEOREM CapInvariance == Spec => []CapInv
<1>1. Init => CapInv
  BY InitCap
<1>2. CheckInv /\ CapInv /\ [Next]_vars => CapInv'
  BY NextCap
<1> QED BY <1>1, <1>2, CheckInvariance, PTL DEF Spec

(* What is open under the label never passes what it was or a sink's cap, no title  *)
(* is opened twice, and the record says what each sink opened.                      *)
THEOREM OpenedIsUnderTheCap == Spec => []CreatedIsCapped
<1>1. CapInv => CreatedIsCapped
  BY DEF CapInv
<1> QED BY <1>1, CapInvariance, PTL

=============================================================================

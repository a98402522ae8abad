-------------------------------- MODULE Agent --------------------------------
(***************************************************************************)
(* The agent stage: the child process that is given a bounded tool set, the *)
(* decoding of what it says, the check of every receipt it gives (it may    *)
(* give none), and the ways it ends: by itself, at its deadline, refused or *)
(* stopped.                                                                 *)
(*                                                                         *)
(* Source: runtime/internal/stage/agent (agent.go, stream.go, receipt.go,   *)
(* toolcalls.go, argv.go, validate.go) and runtime/internal/proc.           *)
(*                                                                         *)
(* An answer is a record: whether it satisfies the playbook's schema, and   *)
(* the findings it holds; Nothing is the empty one, Quoted the same answer  *)
(* as a JSON string, which no schema accepts.                               *)
(*                                                                         *)
(* What the child started may have left its process group, and then no      *)
(* signal reaches it: such an heir may outlive the child with the child's   *)
(* stdout or stderr still open.                                             *)
(***************************************************************************)
EXTENDS Gate

CONSTANT MaxEvents   \* how many lines the child writes at most

VARIABLES child,    \* [alive, said, pipe, heirs]: the process, what it wrote that is not read,
                    \* and which of its pipes an heir outside its group holds open
          ctx,      \* the stage's context: "live", "deadline" or "cancelled"
          stream    \* what Decode holds: [receipts, result, calls, end]

agentVars == <<child, ctx, stream>>

Nothing == [valid |-> FALSE, shape |-> "nothing", findings |-> <<>>]
Quoted(answer) == [answer EXCEPT !.valid = FALSE, !.shape = "string"]
NoResult == [type |-> "none"]

NoChild == [alive |-> FALSE, said |-> 0, pipe |-> <<>>, heirs |-> {}]
NewStream == [receipts |-> <<>>, result |-> NoResult, calls |-> <<>>, end |-> "none"]

-----------------------------------------------------------------------------
(* An entry that holds a comma, and one that begins with a dash. *)
separated(entry) == "a,b" \in ToSet(entry.scope)
dashed(entry) == entry.parts[1] = "-p"

(* BuildArgs: the vector is made, or an entry refuses it. *)
BuildArgs(agent) ==
    LET entries == ToSet(agent.tools) \cup ToSet(agent.allow)
    IN If(\E entry \in entries : separated(entry) \/ dashed(entry), "entry")

(* mcpToolsIn: the allowed entries a receipt could name. *)
mcpToolsIn(allow) == {entry \in ToSet(allow) : entry.parts[1] = "mcp" /\ Len(entry.parts) >= 3}

StructuredOutput == [parts |-> <<"StructuredOutput">>, scoped |-> FALSE, scope |-> <<>>]

(* CheckReceipt: what the child says it has is no wider than what was declared.    *)
(* The schema's own tool is always among it: it is folded in when the declaration   *)
(* has an output schema, and the playbook's schema requires one.                    *)
CheckReceipt(agent, event) ==
    \/ event.type # "init"
    \/ /\ event.tools \subseteq ToSet(agent.tools) \cup mcpToolsIn(agent.allow) \cup {StructuredOutput}
       /\ event.servers \subseteq ToSet(agent.mcp)

(* observe: a tool's use is a call, and its answer goes to the last call of that  *)
(* identifier, if there is one.                                                   *)
observe(calls, event) ==
    LET last == SelectLastInSeq(calls, LAMBDA call : call.id = event.id)
    IN CASE event.type = "tool_use" -> Append(calls, [id |-> event.id, outcome |-> "ok"])
         [] event.type = "tool_result" /\ event.is_error /\ last # 0 ->
                [calls EXCEPT ![last].outcome = "error"]
         [] OTHER -> calls

(* Fault variant: only the first receipt is compared. *)
DecodeFirstReceipt(s, event, agent) ==
    LET read == CASE event.type = "init" -> [s EXCEPT !.receipts = Append(@, event)]
                  [] event.type = "result" -> [s EXCEPT !.result = event]
                  [] event.type \in {"tool_use", "tool_result"} -> [s EXCEPT !.calls = observe(@, event)]
                  [] OTHER -> s
    IN CASE event.type = "oversized" -> [s EXCEPT !.end = "decode_error"]
         [] s.receipts = <<>> /\ ~CheckReceipt(agent, event) -> [read EXCEPT !.end = "aborted"]
         [] OTHER -> read

(* Decode: one line of the child's.  A line that is not JSON is skipped, one too   *)
(* long ends the reading, and so does a receipt that is refused.                   *)
Decode(s, event, agent) ==
    LET read == CASE event.type = "init" -> [s EXCEPT !.receipts = Append(@, event)]
                  [] event.type = "result" -> [s EXCEPT !.result = event]
                  [] event.type \in {"tool_use", "tool_result"} -> [s EXCEPT !.calls = observe(@, event)]
                  [] OTHER -> s
    IN CASE event.type = "oversized" -> [s EXCEPT !.end = "decode_error"]
         [] ~CheckReceipt(agent, event) -> [read EXCEPT !.end = "aborted"]
         [] OTHER -> read

-----------------------------------------------------------------------------
(* The child is started in a group of its own, under the stage's deadline. *)
Start ==
    /\ child' = [NoChild EXCEPT !.alive = TRUE]
    /\ ctx' = "live"
    /\ stream' = NewStream

(* Something can still write to the child's stdout. *)
Writable == child.alive \/ "stdout" \in child.heirs

(* The child writes a line, or an heir of its stdout does. *)
ChildSays(events) ==
    /\ Writable /\ child.said < MaxEvents
    /\ \E event \in events :
        child' = [child EXCEPT !.said = @ + 1, !.pipe = Append(@, event)]
    /\ UNCHANGED <<ctx, stream>>

ChildExits ==
    /\ child.alive
    /\ child' = [child EXCEPT !.alive = FALSE]
    /\ UNCHANGED <<ctx, stream>>

(* The child starts something outside its group, which inherits its pipes. *)
ChildDetaches ==
    /\ child.alive /\ child.heirs = {}
    /\ \E pipes \in SUBSET {"stdout", "stderr"} :
        pipes # {} /\ child' = [child EXCEPT !.heirs = pipes]
    /\ UNCHANGED <<ctx, stream>>

(* What was started ends, or closes what it had inherited. *)
HeirEnds ==
    /\ child.heirs # {}
    /\ child' = [child EXCEPT !.heirs = {}]
    /\ UNCHANGED <<ctx, stream>>

(* Fault variant: the signal is not sent when the deadline ends the context. *)
KillCancelled ==
    /\ child.alive /\ ctx = "cancelled"
    /\ child' = [child EXCEPT !.alive = FALSE]
    /\ UNCHANGED <<ctx, stream>>

(* Isolate: the end of the context reaches the child's whole group, and nothing  *)
(* that has left it.                                                             *)
Kill ==
    /\ child.alive /\ ctx # "live"
    /\ child' = [child EXCEPT !.alive = FALSE]
    /\ UNCHANGED <<ctx, stream>>

(* The stage's deadline passes. *)
Deadline ==
    /\ ctx = "live"
    /\ ctx' = "deadline"
    /\ UNCHANGED <<child, stream>>

(* One line is read: decoded, or drained once the reading has ended. *)
ReadLine(agent) ==
    /\ child.pipe # <<>>
    /\ child' = [child EXCEPT !.pipe = Tail(@)]
    /\ stream' = IF stream.end = "none" THEN Decode(stream, Head(child.pipe), agent) ELSE stream
    /\ ctx' = IF ctx = "live" /\ stream'.end # "none" THEN "cancelled" ELSE ctx

(* WaitDelay, after the end of the context: while the copy of stderr is still    *)
(* under way the runtime's ends of the pipes are closed, and with them the one    *)
(* that is being read.  Where stderr has ended the reading goes on.               *)
ClosePipes ==
    /\ ctx # "live" /\ "stderr" \in child.heirs
    /\ child' = [NoChild EXCEPT !.said = child.said]
    /\ stream' = IF stream.end = "none" THEN [stream EXCEPT !.end = "decode_error"] ELSE stream
    /\ UNCHANGED ctx

(* The stream is at its end: nothing holds its other end, and all that was written *)
(* is read.                                                                        *)
Drained == ~Writable /\ child.pipe = <<>>

(* Report: the object, unless there is none, then the text of the terminal event. *)
Report(s) ==
    IF s.result.structured # Nothing THEN s.result.structured ELSE s.result.result

(* ValidateReport: an answer of nothing, or of another shape, is refused. *)
ValidateReport(answer) == answer.valid

(* How Run's outcome is read by the caller, in the order it looks.  A wait that     *)
(* does not end with the child's exit is an error of the stage, unless the runtime   *)
(* killed the child on purpose.                                                      *)
Outcome(waitFailed) ==
    IF ctx # "deadline" /\ waitFailed /\ stream.end = "none" THEN "error"
    ELSE IF stream.end = "aborted" THEN "refused"
    ELSE IF ctx = "deadline" THEN "timed_out"
    ELSE IF stream.result # NoResult /\ ValidateReport(Report(stream)) THEN "succeeded"
    ELSE "failed"
=============================================================================

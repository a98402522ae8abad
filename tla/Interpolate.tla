----------------------------- MODULE Interpolate -----------------------------
(***************************************************************************)
(* References in a playbook's texts: what resolves them against the         *)
(* configuration and the trigger, and what binds those of a shell line to   *)
(* variables of the step's environment.                                     *)
(*                                                                         *)
(* Source: runtime/internal/config (interpolate.go, shell.go), and the      *)
(* expressions of playbook/validate.go that find references.                *)
(*                                                                         *)
(* A text is a sequence of tokens: "${", "}", ".", the quotes, the          *)
(* backslash and words.  A key is a sequence of tokens too, so that two of  *)
(* them may differ by a dash or by their case.                              *)
(***************************************************************************)
EXTENDS Integers, Sequences, FiniteSetsExt, SequencesExt

(* Where a reference whose name begins at i closes: the first brace, or 0. *)
closing(text, i) == SelectInSubSeq(text, i, Len(text), LAMBDA c : c = "}")

(* The matches of `prefix name }`, leftmost first, none overlapping. *)
FindAll(text, prefix) ==
    LET opens(i) == /\ SubSeq(text, i, Min({i + Len(prefix) - 1, Len(text)})) = prefix
                    /\ closing(text, i + Len(prefix)) # 0
        find[i \in 1..(Len(text) + 1)] ==
            IF i > Len(text) THEN <<>>
            ELSE IF ~opens(i) THEN find[i + 1]
            ELSE LET end == closing(text, i + Len(prefix))
                 IN <<[at |-> i, end |-> end, name |-> SubSeq(text, i + Len(prefix), end - 1)]>>
                        \o find[end + 1]
    IN find[1]

reference(text) == FindAll(text, <<"${">>)
configReference(text) == FindAll(text, <<"${", "config", ".">>)
triggerReference(text) == FindAll(text, <<"${", "trigger", ".">>)

(* bareReference: some reference, where it closes first, names no source. *)
bareReference(text) ==
    \E i \in DOMAIN text :
        /\ text[i] = "${"
        /\ LET end == closing(text, i) IN end # 0 /\ \A j \in i..end : text[j] # "."

(* A reference opens outside every one that closes. *)
unterminated(text, spans) ==
    \E i \in DOMAIN text : /\ text[i] = "${"
                           /\ \A k \in DOMAIN spans : ~(spans[k].at <= i /\ i <= spans[k].end)

(* strings.Cut at the first dot: the namespace and the key. *)
cut(name) ==
    LET dot == SelectInSeq(name, LAMBDA c : c = ".")
    IN [found |-> dot # 0, namespace |-> SubSeq(name, 1, dot - 1),
        key |-> SubSeq(name, dot + 1, Len(name))]

(* resolve: the value a name has, or what is wrong with it. *)
resolve(name, config, trigger) ==
    LET named == cut(name)
        from(values, problem) == IF named.key \in DOMAIN values
                                 THEN [problem |-> "none", value |-> values[named.key]]
                                 ELSE [problem |-> problem, value |-> <<>>]
    IN CASE ~named.found -> [problem |-> "unnamed", value |-> <<>>]
         [] named.found /\ named.namespace = <<"config">> -> from(config, "unconfigured")
         [] named.found /\ named.namespace = <<"trigger">> -> from(trigger, "absent")
         [] OTHER -> [problem |-> "unknown_source", value |-> <<>>]

(* The text with each of its spans replaced, and the others kept. *)
Replaced(text, spans, by) ==
    LET from(k) == IF k = 1 THEN 1 ELSE spans[k - 1].end + 1
    IN FlattenSeq([k \in 1..Len(spans) |-> SubSeq(text, from(k), spans[k].at - 1) \o by[k]])
        \o SubSeq(text, from(Len(spans) + 1), Len(text))

(* Each reference's value; one that stands inside another is refused. *)
Each(spans, config, trigger) ==
    [k \in DOMAIN spans |-> IF Contains(spans[k].name, "${") THEN [problem |-> "nested", value |-> <<>>]
                            ELSE resolve(spans[k].name, config, trigger)]

(* The problems of a text's references, each by itself and of the text. *)
Problems(text, spans, own) ==
    ({own[k] : k \in DOMAIN spans} \ {"none"})
        \cup (IF unterminated(text, spans) THEN {"unterminated"} ELSE {})

Substituted(text, spans, each) ==
    [problems |-> Problems(text, spans, [k \in DOMAIN each |-> each[k].problem]),
     text |-> Replaced(text, spans, [k \in DOMAIN each |-> each[k].value])]

(* Interpolate: the text resolved, or every problem it has. *)
Interpolate(text, config, trigger) ==
    Substituted(text, reference(text), Each(reference(text), config, trigger))

-----------------------------------------------------------------------------
(* Fault variant: a backslash escapes inside single quotes too. *)
quotedAnyhow(line, at) ==
    LET scan[i \in 0..(at - 1)] ==
            IF i = 0 THEN [single |-> FALSE, double |-> FALSE, skip |-> FALSE]
            ELSE LET s == scan[i - 1] IN
                 IF s.skip THEN [s EXCEPT !.skip = FALSE]
                 ELSE CASE line[i] = "\\" -> [s EXCEPT !.skip = TRUE]
                        [] line[i] = "'" /\ ~s.double -> [s EXCEPT !.single = ~@]
                        [] line[i] = "\"" /\ ~s.single -> [s EXCEPT !.double = ~@]
                        [] OTHER -> s
    IN scan[at - 1].single \/ scan[at - 1].double

(* quoted: the token at `at` is inside quotes. *)
quoted(line, at) ==
    LET scan[i \in 0..(at - 1)] ==
            IF i = 0 THEN [single |-> FALSE, double |-> FALSE, skip |-> FALSE]
            ELSE LET s == scan[i - 1] IN
                 IF s.skip THEN [s EXCEPT !.skip = FALSE]
                 ELSE CASE line[i] = "\\" /\ ~s.single -> [s EXCEPT !.skip = TRUE]
                        [] line[i] = "'" /\ ~s.double -> [s EXCEPT !.single = ~@]
                        [] line[i] = "\"" /\ ~s.single -> [s EXCEPT !.double = ~@]
                        [] OTHER -> s
    IN scan[at - 1].single \/ scan[at - 1].double

QuotedReferences(line) ==
    LET spans == reference(line) IN {spans[k].name : k \in {k \in DOMAIN spans : quoted(line, spans[k].at)}}

(* The trigger's values a line names, quoted or not. *)
TriggerReferences(line) ==
    LET spans == reference(line)
        names == {cut(spans[k].name) : k \in DOMAIN spans}
    IN {n.key : n \in {n \in names : n.found /\ n.namespace = <<"trigger">>}}

(* envSafe: a dash becomes an underscore, and letters upper case. *)
envSafe(key) ==
    [i \in DOMAIN key |-> CASE key[i] = "-" -> "_" [] key[i] = "k" -> "K" [] OTHER -> key[i]]

Variable(name) == cut(name).namespace \o envSafe(cut(name).key)

(* What a bound line is made of: a token of the line, or a variable's expansion. *)
Char(c) == [char |-> c, var |-> <<>>]
Expansion(variable) == <<Char("\""), [char |-> "$", var |-> variable], Char("\"")>>

(* What refuses each reference of a line by itself. *)
Refused(line, spans, config, trigger) ==
    [k \in DOMAIN spans |-> IF quoted(line, spans[k].at) THEN "quoted"
                            ELSE resolve(spans[k].name, config, trigger).problem]

(* The same, and the references whose variable an earlier one of another name has. *)
Collided(spans, own) ==
    LET first(k) == Min({j \in DOMAIN spans : own[j] = "none"
                            /\ Variable(spans[j].name) = Variable(spans[k].name)})
    IN [k \in DOMAIN spans |-> IF own[k] = "none" /\ spans[first(k)].name # spans[k].name
                               THEN "collision" ELSE own[k]]

(* A line with no problem is bound. *)
Bound(line, spans, problems, config, trigger) ==
    [problems |-> problems,
     line |-> IF problems # {} THEN <<>>
              ELSE Replaced([i \in DOMAIN line |-> Char(line[i])], spans,
                            [k \in DOMAIN spans |-> Expansion(Variable(spans[k].name))]),
     env |-> IF problems # {} THEN <<>>
             ELSE [v \in {Variable(spans[k].name) : k \in DOMAIN spans} |->
                     LET k == CHOOSE k \in DOMAIN spans : Variable(spans[k].name) = v
                     IN resolve(spans[k].name, config, trigger).value]]

(* A line whose references were found. *)
BindSpans(line, spans, config, trigger) ==
    Bound(line, spans, Problems(line, spans, Collided(spans, Refused(line, spans, config, trigger))),
          config, trigger)

(* BindShell: each reference becomes a quoted expansion, and the environment      *)
(* gives its variable the value.                                                  *)
BindShell(line, config, trigger) == BindSpans(line, reference(line), config, trigger)

-----------------------------------------------------------------------------
(* How a shell reads a line: the quoting in force before each of its tokens.     *)
Reads(line) ==
    LET after(s, c) ==
            CASE s.escaped -> [s EXCEPT !.escaped = FALSE]
              [] ~s.escaped /\ c = "\\" /\ s.mode # "single" -> [s EXCEPT !.escaped = TRUE]
              [] ~s.escaped /\ c = "'" /\ s.mode = "bare" -> [s EXCEPT !.mode = "single"]
              [] ~s.escaped /\ c = "'" /\ s.mode = "single" -> [s EXCEPT !.mode = "bare"]
              [] ~s.escaped /\ c = "\"" /\ s.mode = "bare" -> [s EXCEPT !.mode = "double"]
              [] ~s.escaped /\ c = "\"" /\ s.mode = "double" -> [s EXCEPT !.mode = "bare"]
              [] OTHER -> s
        read[i \in 1..(Len(line) + 1)] ==
            IF i = 1 THEN [mode |-> "bare", escaped |-> FALSE] ELSE after(read[i - 1], line[i - 1].char)
    IN read

(* Each expansion of a bound line is one word to the shell, opened and closed by *)
(* its own quotes, and its variable has the value the reference names.  A        *)
(* reference the author wrote after a backslash is bound too, and then its       *)
(* opening quote is escaped: it and what follows it in the line are left out.    *)
OneWordEach(line, bound, config, trigger) ==
    LET read == Reads(bound.line)
        spans == reference(line)
        at == {i \in DOMAIN bound.line : bound.line[i].var # <<>>}
        plain == {i \in at : \A j \in at : j <= i => ~read[j - 1].escaped}
    IN bound.problems = {} =>
        /\ \A i \in plain : /\ read[i - 1].mode = "bare" /\ read[i].mode = "double"
                            /\ ~read[i].escaped /\ read[i + 2].mode = "bare"
        /\ Cardinality(at) = Len(spans)
        /\ \A k \in DOMAIN spans :
            bound.env[Variable(spans[k].name)] = resolve(spans[k].name, config, trigger).value
=============================================================================

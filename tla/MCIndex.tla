------------------------------ MODULE MCIndex -------------------------------
(* Instances of Index for TLC, over the cuts of Passages. *)
EXTENDS Index, Passages, TLC

CONSTANTS p1, p2, p3, i, j, fa, fb

(* Every text of at most five characters, one of them of two bytes. *)
Chars == {<<"x">>, <<"s">>, <<"n">>, <<"#">>, <<"l", "c">>}
AllTexts == UNION {{FlattenSeq(f) : f \in [1..n -> Chars]} : n \in 0..5}

(* Reports: a value, or arrays and objects of at most two, three levels deep. *)
Mark(kind) == <<[kind |-> kind, text |-> <<>>, key |-> FALSE]>>
Key == <<[kind |-> "string", text |-> <<"#">>, key |-> TRUE]>>
Scalars == {<<[kind |-> "string", text |-> <<"x">>, key |-> FALSE]>>,
            <<[kind |-> "number", text |-> <<"x", "x">>, key |-> FALSE]>>, Mark("literal")}
Lists(of) == {<<>>} \cup of \cup {a \o b : a, b \in of}
Arrays(of) == {Mark("[") \o e \o Mark("]") : e \in Lists(of)}
Objects(of) == {Mark("{") \o e \o Mark("}") : e \in Lists({Key \o v : v \in of})}
Flat == Scalars \cup Arrays(Scalars) \cup Objects(Scalars)
AllReports == Flat \cup Arrays(Flat) \cup Objects(Flat)
                \cup {Mark("[") \o e \o Mark("]") : e \in Objects(Flat)}

(* Up to two hits, of a name that breaks its line or not and a text that holds  *)
(* a character of two bytes, a secret, or neither.                              *)
AllHits == UNION {[1..n -> [source : {<<"x">>, <<"n">>},
                            text : {<<"x">>, <<"l", "c">>, <<"k", "n">>}]] : n \in 0..2}

(* Two contents, the second of which is cut in two. *)
Second == <<"x", "n", "#", "s", "x">>
TwoContents == {<<"x">>, Second}
Cuts2 == [c \in TwoContents |-> TextPassages(c)]
CutOf(c) == Cuts2[c]

(* A directory of one file, or one report. *)
Setup(kinds, ids, becomes) ==
    [reports |-> FALSE, kind |-> p1 :> kinds[1] @@ p2 :> kinds[2] @@ p3 :> kinds[3],
     identity |-> p1 :> ids[1] @@ p2 :> ids[2] @@ p3 :> ids[3],
     files |-> fa :> <<"x">> @@ fb :> None, becomes |-> becomes]

(* Two processes of each kind while files appear, change and go, and all three  *)
(* kinds at once over reports.                                                  *)
AllSetups ==
    {Setup(<<"retrieve", "retrieve", "none">>, <<i, i, i>>, {Second, None}),
     Setup(<<"retrieve", "rebuild", "none">>, <<i, j, i>>, {Second, NotText}),
     Setup(<<"retrieve", "list", "none">>, <<i, i, i>>, {Second, TooLarge}),
     Setup(<<"rebuild", "list", "none">>, <<i, j, i>>, {Second}),
     [Setup(<<"retrieve", "rebuild", "list">>, <<i, i, j>>, {Second}) EXCEPT !.reports = TRUE]}

(* Before anything changes, over the bounded inputs above: a text, a report and  *)
(* a query are cut between whole characters with nothing lost, and a results     *)
(* file holds the hits it is said to hold (passage.go, reports.go, query.go,     *)
(* results.go).                                                                  *)
CutsAreWhole ==
    edits = 0 => TextIsCutWhole /\ ReportIsCutWhole /\ QueryIsCutWhole /\ ResultsAreTheFile

(* At most one process dies, is refused or has its context end. *)
OneInTrouble ==
    Cardinality({p \in Processes : mem[p].ended # "no"
                    \/ mem[p].outcome \in {"held", "changed", "refused", "died"}}) <= 1
=============================================================================

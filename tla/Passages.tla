------------------------------ MODULE Passages ------------------------------
(***************************************************************************)
(* internal/index/passage.go and internal/stage/retrieve's query.go and    *)
(* results.go: how a document is cut into the passages an index stores, how *)
(* a query is cut, and how what was found is written for the agent.         *)
(*                                                                         *)
(* A text is a sequence of bytes of six classes: "x" any other character of *)
(* one byte, "s" a space, "n" a line break, "#" the heading mark, and "l"   *)
(* then "c" a character of two bytes.  Offsets start at 0, as in the code.  *)
(***************************************************************************)
EXTENDS Integers, Sequences, SequencesExt, FiniteSets, FiniteSetsExt

CONSTANTS
    PassageBytes,    \* the most a passage holds
    MaxQueryBytes,   \* the longest query searched
    Texts,           \* the texts the properties range over
    Reports,         \* the recorded reports, each as its sequence of JSON tokens
    HitLists,        \* what searches may find: sequences of [source, text]
    ByteBounds       \* the max_bytes a retrieval may declare

(* A cut falls between characters only if the bound holds the widest one. *)
ASSUME BoundsHoldACharacter == PassageBytes \in Nat \ (0..1) /\ MaxQueryBytes \in Nat \ (0..1)

Byte(text, at) == text[at + 1]
IsSpace(byte) == byte \in {"s", "n"}

(* What TrimLeftFunc leaves of text[a:b] begins at TrimLeft, what            *)
(* TrimRightFunc leaves of it ends at TrimRight.                             *)
TrimLeft(text, a, b) == Min({i \in a..(b - 1) : ~IsSpace(Byte(text, i))} \cup {b})
TrimRight(text, a, b) == Max({i \in (a + 1)..b : ~IsSpace(Byte(text, i - 1))} \cup {a})

-----------------------------------------------------------------------------
(* Fault variant: a cut may split a character. *)
boundaryAnywhere(text, limit) == IF limit >= Len(text) THEN Len(text) ELSE limit

(* The largest cut at or below limit that does not split a character. *)
boundary(text, limit) ==
    IF limit >= Len(text) THEN Len(text)
    ELSE Max({i \in 0..limit : Byte(text, i) # "c"} \cup {0})

(* Fault variant: the cut falls after the run of whitespace. *)
lastWhitespaceEnd(window) == Max({i \in 1..Len(window) : IsSpace(window[i])} \cup {0})

(* Where the last run of whitespace in window begins, or 0 when there is none *)
(* past its first byte.                                                       *)
lastWhitespaceRun(window) ==
    LET last == Max({i \in 1..Len(window) : IsSpace(window[i])} \cup {0})
    IN TrimRight(window, 0, last)

(* cut: the pieces of a block longer than the cap.  Only the first carries the *)
(* block's heading.                                                            *)
cut(text, block) ==
    LET pieces[start \in 0..block.end] ==
            IF block.end - start <= PassageBytes
            THEN <<[start |-> start, end |-> block.end, heading |-> FALSE]>>
            ELSE LET space == lastWhitespaceRun(SubSeq(text, start + 1, start + PassageBytes + 1))
                     end == start + IF space > 0 THEN space
                                    ELSE boundary(SubSeq(text, start + 1, Len(text)), PassageBytes)
                 IN <<[start |-> start, end |-> end, heading |-> FALSE]>>
                        \o pieces[TrimLeft(text, end, block.end)]
    IN [pieces[block.start] EXCEPT ![1].heading = block.heading]

(* pack: pieces fill a passage in order while they fit the cap, and a heading *)
(* opens a new one.                                                           *)
pack(text, spans) ==
    LET take(passages, piece) ==
            IF passages = <<>> \/ piece.heading
                               \/ piece.end - Last(passages).start > PassageBytes
            THEN Append(passages, [start |-> piece.start, end |-> piece.end])
            ELSE [passages EXCEPT ![Len(passages)].end = piece.end]
        pieces == FlattenSeq([i \in 1..Len(spans) |-> cut(text, spans[i])])
    IN FoldLeft(take, <<>>, pieces)

(* The lines of a text, each without its line break. *)
Lines(text) ==
    LET breaks == {i \in 0..(Len(text) - 1) : Byte(text, i) = "n"}
        starts == {i \in {0} \cup {b + 1 : b \in breaks} : i < Len(text)}
        line(at) == [start |-> at, end |-> Min({b \in breaks : b >= at} \cup {Len(text)})]
    IN [i \in 1..Cardinality(starts) |-> line(SetToSortSeq(starts, <)[i])]

(* atxHeading: one to six marks and a space open the line. *)
atxHeading(text, line) ==
    \E k \in 1..6 : /\ line.start + k < line.end
                    /\ \A i \in 0..(k - 1) : Byte(text, line.start + i) = "#"
                    /\ Byte(text, line.start + k) = "s"

(* blocks: the text between blank lines, a heading opening a block of its own. *)
blocks(text) ==
    LET flush(acc) == [out |-> acc.out \o acc.current, current |-> <<>>]
        take(acc, line) ==
            LET left == TrimLeft(text, line.start, line.end)
                right == TrimRight(text, line.start, line.end)
                heading == atxHeading(text, line)
                begun == IF heading THEN flush(acc) ELSE acc
            IN IF left = line.end THEN flush(acc)
               ELSE [begun EXCEPT !.current =
                        IF @ = <<>> THEN <<[start |-> left, end |-> right, heading |-> heading]>>
                        ELSE [@ EXCEPT ![1].end = right]]
    IN flush(FoldLeft(take, [out |-> <<>>, current |-> <<>>], Lines(text))).out

TextPassages(text) == pack(text, blocks(text))

-----------------------------------------------------------------------------
(* Fault variant: a value does not tell its object that a key is next. *)
FilledNever(stack) == stack

(* ReportPassages reads the decoder's tokens: a kind ("{", "[", "}", "]",       *)
(* "string", "number" or "literal") and a text.  The decoder gives a key and a  *)
(* string value alike; the field key is known to the properties alone.          *)
Filled(stack) ==
    IF stack # <<>> /\ ~Last(stack).array
    THEN [stack EXCEPT ![Len(stack)].expectingKey = TRUE] ELSE stack

isKey(stack) == stack # <<>> /\ ~Last(stack).array /\ Last(stack).expectingKey

(* One value becomes a block, headed when an object of an array has opened. *)
value(acc, text) ==
    LET joined == IF acc.joined = <<>> THEN <<>> ELSE acc.joined \o <<"n", "n">>
        block == [start |-> Len(joined), end |-> Len(joined) + Len(text), heading |-> acc.headsNext]
    IN [stack |-> Filled(acc.stack), headsNext |-> FALSE,
        joined |-> joined \o text, spans |-> Append(acc.spans, block)]

readToken(acc, token) ==
    CASE token.kind \in {"{", "["} ->
            [acc EXCEPT
                !.headsNext = @ \/ (token.kind = "{" /\ acc.stack # <<>> /\ Last(acc.stack).array),
                !.stack = Append(Filled(@), [array |-> token.kind = "[",
                                             expectingKey |-> token.kind = "{"])]
      [] token.kind \in {"}", "]"} -> [acc EXCEPT !.stack = Filled(Front(@))]
      [] token.kind # "number" /\ isKey(acc.stack) ->
            [acc EXCEPT !.stack[Len(acc.stack)].expectingKey = FALSE]
      [] token.kind = "literal" /\ ~isKey(acc.stack) -> [acc EXCEPT !.stack = Filled(@)]
      [] OTHER -> value(acc, token.text)

readReport(tokens) ==
    FoldLeft(readToken, [stack |-> <<>>, headsNext |-> FALSE, joined |-> <<>>, spans |-> <<>>], tokens)

ReportPassages(tokens) == LET read == readReport(tokens) IN pack(read.joined, read.spans)

-----------------------------------------------------------------------------
(* cutQuery: the query held to its bound, and whether it was cut. *)
cutQuery(query) ==
    LET left == TrimLeft(query, 0, Len(query))
        text == SubSeq(query, left + 1, TrimRight(query, left, Len(query)))
        space == Max({i \in 0..MaxQueryBytes : IsSpace(Byte(text, i))} \cup {0})
        end == IF space > 0 THEN space ELSE boundary(text, MaxQueryBytes)
    IN IF Len(text) <= MaxQueryBytes THEN [query |-> text, truncated |-> FALSE]
       ELSE [query |-> SubSeq(text, 1, TrimRight(text, 0, end)), truncated |-> TRUE]

(* Searchable: plainQuery keeps the words, and a space, a line break or a mark *)
(* is in none.                                                                 *)
Searchable(query) == \E i \in 1..Len(query) : query[i] \in {"x", "l", "k"}

-----------------------------------------------------------------------------
(* The results file.  "k" is a byte of a secret value: Redact puts a wider     *)
(* mask in its place.  Printable writes a line break as its escape.            *)
Redact(text) == FlattenSeq([i \in 1..Len(text) |-> IF text[i] = "k" THEN <<"x", "x">> ELSE <<text[i]>>])
Printable(text) == FlattenSeq([i \in 1..Len(text) |-> IF text[i] = "n" THEN <<"x", "x">> ELSE <<text[i]>>])

(* strings.Fields joined by spaces. *)
Fields(text) ==
    LET kept == {i \in 1..Len(text) : ~IsSpace(text[i])
                    \/ (i > 1 /\ ~IsSpace(text[i - 1]) /\ \E j \in i..Len(text) : ~IsSpace(text[j]))}
        at == SetToSortSeq(kept, <)
    IN [i \in 1..Len(at) |-> IF IsSpace(text[at[i]]) THEN "s" ELSE text[at[i]]]

(* Fault variant: a cut may split a character. *)
cutAtAnywhere(text, limit) == Min({limit, Len(text)})

cutAt(text, limit) == boundary(text, limit)

(* fill: the pieces in order until the budget is spent, the one that does not  *)
(* fit cut, and a result none of whose passage fits dropped.                   *)
fill(pieces, budget) ==
    LET take(acc, one) ==
            LET full == one.head \o one.body
                keep == IF Len(full) > budget - Len(acc.out) THEN cutAt(full, budget - Len(acc.out))
                        ELSE Len(full)
                text == SubSeq(full, Len(one.head) + 1, keep)
            IN IF acc.done \/ (one.hit /\ keep <= Len(one.head)) THEN [acc EXCEPT !.done = TRUE]
               ELSE [out |-> acc.out \o SubSeq(full, 1, keep),
                     items |-> IF ~one.hit THEN acc.items
                               ELSE Append(acc.items, IF Last(text) = "n" THEN Front(text) ELSE text),
                     done |-> keep < Len(full)]
    IN FoldLeft(take, [out |-> <<>>, items |-> <<>>, done |-> FALSE], pieces)

(* The note that the file was cut takes this many bytes. *)
trailer == <<"n", "x", "n">>

(* The pieces of a results file: the heading, then nothing matched, or each    *)
(* result under a line of its own.                                             *)
piecesOf(query, hits) ==
    LET heading == [head |-> <<"#">> \o Printable(Fields(Redact(query))) \o <<"n">>,
                    body |-> <<>>, hit |-> FALSE]
        nothingMatched == [head |-> <<"n", "x", "n">>, body |-> <<>>, hit |-> FALSE]
        result(hit) == [head |-> <<"n", "#">> \o Printable(Redact(hit.source)) \o <<"n">>,
                        body |-> Redact(hit.text) \o <<"n">>, hit |-> TRUE]
    IN <<heading>> \o IF hits = <<>> THEN <<nothingMatched>>
                      ELSE [i \in 1..Len(hits) |-> result(hits[i])]

render(query, hits, maxBytes) ==
    LET pieces == piecesOf(query, hits)
        total == FoldLeft(LAMBDA n, one : n + Len(one.head) + Len(one.body), 0, pieces)
        whole == fill(pieces, total)
        part == fill(pieces, Max({maxBytes - Len(trailer), 0}))
        out == part.out \o trailer
    IN IF total <= maxBytes THEN [file |-> whole.out, items |-> whole.items, truncated |-> FALSE]
       ELSE [file |-> IF Len(out) > maxBytes THEN SubSeq(out, 1, cutAt(out, maxBytes)) ELSE out,
             items |-> part.items, truncated |-> TRUE]

-----------------------------------------------------------------------------
(* Properties of the cuts, over every text and report of the instance. *)

(* The bytes from a to b are whole characters. *)
WholeCharacters(text, a, b) ==
    /\ a < Len(text) => Byte(text, a) # "c"
    /\ b < Len(text) => Byte(text, b) # "c"

(* The passages are in order and apart, each within the cap, and between them  *)
(* they hold every byte that is not whitespace.                                *)
CutWhole(text, passages) ==
    /\ \A i \in 1..(Len(passages) - 1) : passages[i].end <= passages[i + 1].start
    /\ \A i \in 1..Len(passages) : LET p == passages[i] IN
        /\ p.end - p.start <= PassageBytes
        /\ WholeCharacters(text, p.start, p.end)
    /\ \A at \in 0..(Len(text) - 1) : IsSpace(Byte(text, at))
        \/ \E i \in 1..Len(passages) : at \in passages[i].start..(passages[i].end - 1)

MiscutTexts ==
    {text \in Texts : ~(
        LET passages == TextPassages(text)
            headings == {i \in 1..Len(Lines(text)) : atxHeading(text, Lines(text)[i])}
            first == TrimLeft(text, 0, Len(text))
            last == TrimRight(text, 0, Len(text))
        IN /\ CutWhole(text, passages)
           /\ \A i \in 1..Len(passages) :
                /\ ~IsSpace(Byte(text, passages[i].start))
                /\ ~IsSpace(Byte(text, passages[i].end - 1))
           /\ \A h \in headings : \E i \in 1..Len(passages) :
                passages[i].start = Lines(text)[h].start
           /\ (first < last /\ last - first <= PassageBytes
                    /\ \A h \in headings : Lines(text)[h].start = first)
                => passages = <<[start |-> first, end |-> last]>>)}

(* TextPassages loses no text and repeats none, splits no character, neither    *)
(* begins nor ends a passage in whitespace, opens one at every heading, and     *)
(* keeps in one passage a text that fits it and holds no later heading.         *)
TextIsCutWhole == MiscutTexts = {}

(* The position in a report's values of the value at token k, keys not counted. *)
IsValue(token) == token.kind \in {"string", "number"} /\ ~token.key
ValueAt(tokens, k) == Cardinality({i \in 1..k : IsValue(tokens[i])})

(* The token that closes what token i opens, and what encloses token i. *)
Opens(tokens, a, b) == Cardinality({i \in a..b : tokens[i].kind \in {"{", "["}})
Closes(tokens, a, b) == Cardinality({i \in a..b : tokens[i].kind \in {"}", "]"}})
CloseOf(tokens, i) == Min({j \in i..Len(tokens) : Opens(tokens, i, j) = Closes(tokens, i, j)})
IsElement(tokens, i) ==
    /\ tokens[i].kind = "{"
    /\ \E h \in 1..(i - 1) :
        /\ tokens[h].kind = "["
        /\ Opens(tokens, h, i - 1) = Closes(tokens, h, i - 1) + 1
        /\ \A k \in (h + 1)..(i - 1) : Opens(tokens, k, i - 1) <= Closes(tokens, k, i - 1)

MiscutReports ==
    {tokens \in Reports : ~(
        LET read == readReport(tokens)
            values == SelectSeq(tokens, IsValue)
            passages == pack(read.joined, read.spans)
            span(k) == read.spans[ValueAt(tokens, k)]
        IN /\ [i \in 1..Len(read.spans) |->
                    SubSeq(read.joined, read.spans[i].start + 1, read.spans[i].end)]
               = [i \in 1..Len(values) |-> values[i].text]
           /\ CutWhole(read.joined, passages)
           /\ \A i \in 1..Len(tokens) : IsElement(tokens, i) =>
                LET inside == {k \in i..CloseOf(tokens, i) : IsValue(tokens[k])}
                    from == span(Min(inside)).start
                    to == span(Max(inside)).end
                IN (/\ inside # {}
                    /\ \A k \in (i + 1)..CloseOf(tokens, i) : ~IsElement(tokens, k)
                    /\ to - from <= PassageBytes)
                   => \E p \in 1..Len(passages) : passages[p].start = from /\ to <= passages[p].end)}

(* ReportPassages indexes each string and number that is a value, in order, and *)
(* no key; an object of an array, a finding, stays in one passage when its      *)
(* values fit and no finding is inside it.                                      *)
ReportIsCutWhole == MiscutReports = {}

MiscutQueries ==
    {text \in Texts : ~(
        LET cutq == cutQuery(text)
            left == TrimLeft(text, 0, Len(text))
            end == left + Len(cutq.query)
            full == TrimRight(text, left, Len(text))
        IN /\ Len(cutq.query) <= MaxQueryBytes
           /\ cutq.query = SubSeq(text, left + 1, end)
           /\ WholeCharacters(text, left, end)
           /\ cutq.truncated <=> end < full
           /\ (end < full /\ \E i \in left..end : IsSpace(Byte(text, i))) => IsSpace(Byte(text, end)))}

(* cutQuery: what is searched is within the bound, holds whole characters, and   *)
(* is the beginning of the query; a word is cut only when none ends before.      *)
QueryIsCutWhole == MiscutQueries = {}

MismadeFiles ==
    {<<hits, maxBytes>> \in HitLists \X ByteBounds : ~(
        LET query == <<"x", "n", "k">>
            pieces == piecesOf(query, hits)
            full == FlattenSeq([i \in 1..Len(pieces) |-> pieces[i].head \o pieces[i].body])
            bodyAt(i) == FoldLeft(LAMBDA n, one : n + Len(one.head) + Len(one.body), 0,
                                  SubSeq(pieces, 1, i)) + Len(pieces[i + 1].head)
            made == render(query, hits, maxBytes)
            kept == IF made.truncated THEN Max({Len(made.file) - Len(trailer), 0}) ELSE Len(full)
            bodyIn(i) == SubSeq(full, bodyAt(i) + 1, Min({kept, bodyAt(i) + Len(pieces[i + 1].body)}))
        IN /\ Len(made.file) <= maxBytes
           /\ made.truncated <=> Len(full) > maxBytes
           /\ \A i \in 1..Len(made.file) :
                /\ made.file[i] # "k"
                /\ made.file[i] = "l" => i < Len(made.file) /\ made.file[i + 1] = "c"
           /\ SubSeq(made.file, 1, kept) = SubSeq(full, 1, kept)
           /\ Len(made.items) = Cardinality({i \in 1..Len(hits) : kept > bodyAt(i)})
           /\ \A i \in 1..Len(made.items) :
                bodyIn(i) \in {made.items[i], Append(made.items[i], "n")})}

(* The results file keeps its bound, splits no character and holds no secret,   *)
(* and the items recorded are exactly the passages the file holds, as it holds  *)
(* them: the record and the agent's file are one text.                          *)
ResultsAreTheFile == MismadeFiles = {}

=============================================================================

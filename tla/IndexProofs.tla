---------------------------- MODULE IndexProofs -----------------------------
(***************************************************************************)
(* Proofs about a collection's index, for any number of sources, contents  *)
(* and processes of any kind, whichever way a content is cut, however the  *)
(* sources change and wherever the processes die: that a generation names  *)
(* what the index holds, that what a process reads is of one generation,   *)
(* and that a search finds what was there when its own walk read it.       *)
(***************************************************************************)
EXTENDS Index, TLAPS

Fields == {"pc", "ended", "held", "listed", "walk", "read", "tx", "todo", "changed", "rewalks",
           "outcome", "found", "since", "overtaken"}

(* A process's memory is a record of these fields. *)
Shaped(m) == m = [f \in Fields |-> m[f]]

(* The configuration identities of every instance, and what names a generation. *)
Identities == UNION {{s.identity[p] : p \in Processes} : s \in Setups}
Named == {None} \cup (Identities \X Documents)
Database == [schema : BOOLEAN, generation : Named, documents : Documents,
             passages : [Sources -> Cuts]]
Reads == [generation : Named, documents : Documents]
Changes == [documents : Documents, passages : [Sources -> Cuts]]
Searches == [generation : Named, hits : [Sources -> Cuts]]

Ends == {"no", "deadline", "cancelled"}
Outcomes == {"none", "found", "listed", "rebuilt", "held", "changed", "refused", "died"}

(* The database, the sources and the instance have their types. *)
StoreInv ==
    /\ setup \in Setups
    /\ files \in [Sources -> Contents \cup {None, TooLarge, NotText}]
    /\ edits \in 0..MaxEdits
    /\ db \in Database /\ db.generation \in Generations
    /\ lock \in [shared : SUBSET Processes, reserved : Processes \cup {None}, pending : BOOLEAN]
    /\ mem = [p \in Processes |-> mem[p]]

(* A change of the index is made under the write lock, and a read of it under
   the read lock. *)
LockInv ==
    \A p \in Processes :
        /\ mem[p].pc \in {"apply", "commit"} => lock.reserved = p
        /\ mem[p].pc \in {"documents", "hits"} => p \in lock.shared

(* The types of a memory's fields. *)
TypePart(m) ==
    /\ Shaped(m)
    /\ m.pc \in Pcs /\ m.ended \in Ends
    /\ m.held \in BOOLEAN /\ m.changed \in BOOLEAN /\ m.overtaken \in BOOLEAN
    /\ m.listed \subseteq Sources /\ m.todo \subseteq Sources /\ m.since \subseteq Sources
    /\ m.walk \in Documents /\ m.rewalks \in Nat /\ m.outcome \in Outcomes

(* A walk holds what is in every source it has read that did not change since. *)
WalkPart(m) ==
    m.pc \notin {"idle", "over"} =>
        /\ \A s \in Sources \ (m.since \cup m.listed) : m.walk[s] = Doc(files[s])
        /\ m.pc # "walk" => m.listed = {}

(* While its transaction lasts, what a read saw is what is there, and afterwards
   it is of one generation. *)
ReadPart(m) ==
    /\ m.pc = "documents" => m.read \in Reads /\ m.read.generation = db.generation
    /\ m.pc = "begin" =>
         /\ m.read \in Reads
         /\ m.read.generation # None => m.read.documents = m.read.generation[2]

(* A change under way has made of every document it is done with what the walk
   says, with the passages of that content. *)
ChangePart(m) ==
    m.pc \in {"apply", "commit"} =>
        /\ m.tx \in Changes /\ m.todo \subseteq Present(m.walk)
        /\ m.pc = "commit" => m.todo = {}
        /\ \A s \in Sources \ m.todo :
             m.tx.documents[s] = m.walk[s] /\ m.tx.passages[s] = PassagesOf(m.walk)[s]

(* These passages are of the sources as they stand, but for what changed. *)
Fresh(passages, since) == \A s \in Sources \ since : passages[s] = PassagesOf(Sourced)[s]

(* Whoever searches finds a generation, as fresh as its walk unless it was
   overtaken, and the one it names until it has read the passages. *)
SearchPart(m) ==
    /\ m.pc \in {"search", "hits"} =>
         db.generation # None /\ (~m.overtaken => Fresh(db.passages, m.since))
    /\ m.pc = "hits" => m.found \in Searches /\ m.found.generation = db.generation

(* ListingForetells, of one listing. *)
Foretells(identity, of) ==
    LET removes == Removes(identity, of.read, of.walk, FALSE)
    IN /\ of.shows.added \cup of.shows.modified = Adds(identity, of.read, of.walk, FALSE)
       /\ of.shows.removed \cup of.shows.modified = Present(of.read.documents) \cap removes
       /\ of.shows.changed <=> removes # {}

(* And what it ended with stays so. *)
FoundPart(p, m) ==
    /\ m.pc # "over" => m.outcome = "none"
    /\ m.outcome = "found" =>
         /\ m.found.generation # None
         /\ m.found.hits = PassagesOf(m.found.generation[2])
         /\ ~m.overtaken => Fresh(m.found.hits, m.since)
    /\ m.outcome = "listed" => Foretells(Identity(p), m.found)

(* One memory has the walk, the context and the outcome of another. *)
Alike(n, m) ==
    /\ Shaped(n) /\ n.held \in BOOLEAN /\ n.changed \in BOOLEAN
    /\ n.ended = m.ended /\ n.overtaken = m.overtaken /\ n.rewalks = m.rewalks
    /\ n.outcome = m.outcome
    /\ n.listed = m.listed /\ n.walk = m.walk /\ n.since = m.since

Parts(p, m) ==
    /\ TypePart(m) /\ WalkPart(m) /\ ReadPart(m) /\ ChangePart(m) /\ SearchPart(m)
    /\ FoundPart(p, m)

Inv ==
    /\ StoreInv /\ GenerationNamesContents /\ LockInv
    /\ \A p \in Processes : Parts(p, mem[p])

-----------------------------------------------------------------------------
(***************************************************************************)
(* What a step has to show: the parts of the process that takes it.        *)
(***************************************************************************)

Locks == [shared : SUBSET Processes, reserved : Processes \cup {None}, pending : BOOLEAN]

(* What a listing foretold is of the record it read and of its own identity. *)
LEMMA ForetoldStays ==
    ASSUME NEW q \in Processes, NEW of, UNCHANGED setup, mem'[q].found = of,
           Foretells(Identity(q), of)
    PROVE  Foretells(Identity(q), mem[q].found)'
<1>1. PICK identity : identity = Identity(q)
  OBVIOUS
<1>2. of = mem'[q].found /\ identity = setup'.identity[q]
  BY <1>1 DEF Identity
<1>3. Foretells(identity, of)
  BY <1>1
<1> DEFINE found == mem[q].found
<1>4. Removes(Identity(q), found.read, found.walk, FALSE)' = Removes(identity, of.read, of.walk, FALSE)
  BY <1>2 DEF Removes, Identity
<1>5. /\ Present(found.walk)' = Present(of.walk)
      /\ Present(found.read.documents)' = Present(of.read.documents)
  BY <1>2 DEF Present
<1>6. Adds(Identity(q), found.read, found.walk, FALSE)' = Adds(identity, of.read, of.walk, FALSE)
  BY <1>4, <1>5 DEF Adds
<1> QED BY <1>2, <1>3, <1>4, <1>5, <1>6 DEF Foretells

(* A step of one process that leaves the documents and the sources alone, and
   takes no lock from another, keeps the invariant if it keeps the process's own
   parts. *)
LEMMA OwnStep ==
    ASSUME Inv, NEW p \in Processes,
           mem' = [q \in Processes |-> mem'[q]], Parts(p, mem'[p]),
           \A q \in Processes \ {p} : mem'[q] = mem[q],
           UNCHANGED <<setup, files, edits>>,
           db' \in Database, db'.generation = db.generation,
           db'.documents = db.documents, db'.passages = db.passages,
           lock' \in Locks,
           mem'[p].pc \in {"apply", "commit"} => lock'.reserved = p,
           mem'[p].pc \in {"documents", "hits"} => p \in lock'.shared,
           \A q \in Processes \ {p} : /\ lock.reserved = q => lock'.reserved = q
                                      /\ q \in lock.shared => q \in lock'.shared
    PROVE  Inv'
<1>1. StoreInv'
  BY DEF Inv, StoreInv, Locks, Generations, Identity
<1>2. GenerationNamesContents'
  BY DEF Inv, GenerationNamesContents, PassagesOf
<1>3. LockInv'
  BY DEF Inv, LockInv
<1>4. ASSUME NEW q \in Processes PROVE Parts(q, mem[q])'
  <2>1. Parts(q, mem'[q])
    BY DEF Inv
  <2>2. TypePart(mem[q])' /\ WalkPart(mem[q])'
    BY <2>1 DEF Parts, TypePart, Shaped, WalkPart
  <2>3. ReadPart(mem[q])' /\ ChangePart(mem[q])'
    BY <2>1 DEF Parts, ReadPart, ChangePart, PassagesOf
  <2>4. Sourced' = Sourced
    BY DEF Sourced
  <2>5. SearchPart(mem[q])'
    BY <2>1, <2>4 DEF Parts, SearchPart, Fresh, PassagesOf
  <2>6. FoundPart(q, mem[q])'
    <3>1. FoundPart(q, mem'[q])
      BY <2>1 DEF Parts
    <3>2. mem'[q].outcome = "listed" => Foretells(Identity(q), mem[q].found)'
      BY <3>1, ForetoldStays DEF FoundPart
    <3> QED BY <2>4, <3>1, <3>2 DEF FoundPart, Fresh, PassagesOf
  <2> QED BY <2>2, <2>3, <2>5, <2>6 DEF Parts
<1> QED BY <1>1, <1>2, <1>3, <1>4 DEF Inv

(* Letting its locks go takes none from another. *)
LEMMA ReleasedIs ==
    ASSUME Inv, NEW p \in Processes
    PROVE  /\ Released(p) \in Locks
           /\ \A q \in Processes \ {p} :
                /\ lock.reserved = q => Released(p).reserved = q
                /\ q \in lock.shared => q \in Released(p).shared
  BY DEF Inv, StoreInv, Released, Locks

(* What an end keeps of a process. *)
LEMMA OverIs ==
    ASSUME NEW m, NEW outcome
    PROVE  LET n == Over(m, outcome) IN
           /\ Shaped(n) /\ n.pc = "over" /\ n.ended = "no" /\ n.held \in BOOLEAN
           /\ n.listed = {} /\ n.walk = Empty /\ n.todo = {} /\ n.changed \in BOOLEAN
           /\ n.rewalks = 0 /\ n.outcome = outcome /\ n.since = m.since
           /\ n.overtaken = m.overtaken /\ n.found = m.found
  BY DEF Over, Blank, Shaped, Fields

(* However a process ends but with a search or a listing, there is nothing more
   to say of it. *)
LEMMA OverParts ==
    ASSUME NEW p \in Processes, NEW m, TypePart(m),
           NEW outcome \in Outcomes \ {"found", "listed"}
    PROVE  /\ Parts(p, Over(m, outcome)) /\ Over(m, outcome).pc = "over"
           /\ Over(m, outcome).outcome = outcome
<1> DEFINE n == Over(m, outcome)
<1>1. /\ Shaped(n) /\ n.pc = "over" /\ n.ended = "no" /\ n.held \in BOOLEAN /\ n.listed = {}
      /\ n.walk = Empty /\ n.todo = {} /\ n.changed \in BOOLEAN /\ n.rewalks = 0
      /\ n.outcome = outcome /\ n.since = m.since /\ n.overtaken = m.overtaken
  BY OverIs
<1>2. Empty \in Documents
  BY DEF Empty, Documents
<1> HIDE DEF n
<1>3. TypePart(n)
  BY <1>1, <1>2 DEF TypePart, Pcs, Ends
<1>4. WalkPart(n) /\ ReadPart(n) /\ ChangePart(n) /\ SearchPart(n)
  BY <1>1 DEF WalkPart, ReadPart, ChangePart, SearchPart
<1>5. FoundPart(p, n)
  BY <1>1 DEF FoundPart
<1> QED BY <1>1, <1>3, <1>4, <1>5 DEF Parts, n

(* Nor is there where a process is about to open the index, to read it or to walk
   its sources, but for what the walk holds. *)
LEMMA PlainParts ==
    ASSUME NEW p \in Processes, NEW n, TypePart(n), WalkPart(n),
           n.pc \in {"idle", "walk", "open", "read"}, n.outcome = "none"
    PROVE  Parts(p, n)
  BY DEF Parts, ReadPart, ChangePart, SearchPart, FoundPart

(* The walk stands wherever the process goes on to from it. *)
LEMMA AlikeParts ==
    ASSUME NEW m, NEW n, TypePart(m), WalkPart(m), Alike(n, m), n.todo \subseteq Sources,
           m.pc \notin {"idle", "walk", "over"}, n.pc \in Pcs \ {"idle", "walk", "over"}
    PROVE  TypePart(n) /\ WalkPart(n)
  BY DEF TypePart, WalkPart, Alike

(* A walk begins, of a directory or of the recorded reports. *)
LEMMA WalkStarts ==
    ASSUME Inv, NEW p \in Processes, NEW m, TypePart(m), m.outcome = "none", m.listed = {}
    PROVE  /\ Parts(p, SourceWalk(p, m))
           /\ SourceWalk(p, m).pc \in {"walk", "open", "read"}
<1> DEFINE n == SourceWalk(p, m)
<1>1. files \in [Sources -> Contents \cup {None, TooLarge, NotText}] /\ None \notin Contents
  BY IndexAssumption DEF Inv, StoreInv, IndexAssumption
<1>2. Sourced \in Documents /\ Empty \in Documents
  BY <1>1 DEF Sourced, Doc, Documents, Empty
<1>3. AfterWalk(p, m) \in {"read", "open"}
  BY DEF AfterWalk
<1>4. /\ Shaped(n) /\ n.pc \in {"walk", "read", "open"} /\ n.since = {}
      /\ n.listed \subseteq Sources /\ n.walk \in Documents
      /\ n.ended = m.ended /\ n.held = m.held /\ n.changed = m.changed
      /\ n.overtaken = m.overtaken /\ n.todo = m.todo /\ n.rewalks = m.rewalks
      /\ n.outcome = m.outcome
      /\ \/ n.walk = Sourced /\ n.listed = {}
         \/ n.walk = Empty /\ n.listed = Present(files) /\ n.pc = "walk"
  <2>1. CASE setup.reports
    <3>1. n = [m EXCEPT !.pc = AfterWalk(p, m), !.since = {}, !.walk = Sourced]
      BY <2>1 DEF SourceWalk, ReportsWalk
    <3> HIDE DEF n
    <3> QED BY <1>2, <1>3, <3>1 DEF TypePart, Shaped, Fields
  <2>2. CASE ~setup.reports
    <3>1. n = [m EXCEPT !.pc = "walk", !.since = {}, !.walk = Empty, !.listed = Present(files)]
      BY <2>2 DEF SourceWalk, WalkDirectory
    <3>2. Present(files) \subseteq Sources
      BY DEF Present
    <3> HIDE DEF n
    <3> QED BY <1>2, <3>1, <3>2 DEF TypePart, Shaped, Fields
  <2> QED BY <2>1, <2>2
<1> HIDE DEF n
<1>5. TypePart(n)
  BY <1>4 DEF TypePart, Pcs
<1>6. WalkPart(n)
  <2>1. CASE n.walk = Sourced /\ n.listed = {}
    BY <2>1 DEF WalkPart, Sourced
  <2>2. CASE n.walk = Empty /\ n.listed = Present(files) /\ n.pc = "walk"
    BY <1>1, <2>2 DEF WalkPart, Empty, Present, Doc
  <2> QED BY <1>4, <2>1, <2>2
<1>7. Parts(p, n)
  BY <1>4, <1>5, <1>6, PlainParts
<1> QED BY <1>4, <1>7 DEF n

(* A process's memory is replaced, and no other's. *)
LEMMA SetIs ==
    ASSUME Inv, NEW p \in Processes, NEW n, Set(p, n)
    PROVE  /\ mem' = [q \in Processes |-> mem'[q]] /\ mem'[p] = n
           /\ \A q \in Processes \ {p} : mem'[q] = mem[q]
<1>1. mem = [q \in Processes |-> mem[q]]
  BY DEF Inv, StoreInv
<1> QED BY <1>1 DEF Set

(* A step that touches no lock. *)
LEMMA QuietStep ==
    ASSUME Inv, NEW p \in Processes, NEW n, Set(p, n), Parts(p, n),
           UNCHANGED <<setup, files, edits, db, lock>>,
           n.pc \in {"apply", "commit"} => mem[p].pc \in {"apply", "commit"},
           n.pc \in {"documents", "hits"} => mem[p].pc \in {"documents", "hits"}
    PROVE  Inv'
<1>1. /\ mem' = [q \in Processes |-> mem'[q]] /\ mem'[p] = n
      /\ \A q \in Processes \ {p} : mem'[q] = mem[q]
  BY SetIs
<1>2. db \in Database /\ lock \in Locks
  BY DEF Inv, StoreInv, Locks
<1>3. /\ mem[p].pc \in {"apply", "commit"} => lock.reserved = p
      /\ mem[p].pc \in {"documents", "hits"} => p \in lock.shared
  BY DEF Inv, LockInv
<1> QED BY <1>1, <1>2, <1>3, OwnStep

(* A step that lets its locks go. *)
LEMMA ReleasingStep ==
    ASSUME Inv, NEW p \in Processes, NEW n, Set(p, n), Parts(p, n),
           UNCHANGED <<setup, files, edits, db>>, lock' = Released(p),
           n.pc \notin {"apply", "commit", "documents", "hits"}
    PROVE  Inv'
<1>1. /\ mem' = [q \in Processes |-> mem'[q]] /\ mem'[p] = n
      /\ \A q \in Processes \ {p} : mem'[q] = mem[q]
  BY SetIs
<1>2. db \in Database
  BY DEF Inv, StoreInv
<1> QED BY <1>1, <1>2, ReleasedIs, OwnStep

-----------------------------------------------------------------------------
(***************************************************************************)
(* Every action keeps the invariant.                                       *)
(***************************************************************************)

(* A use of the index begins. *)
LEMMA StartKeeps == ASSUME Inv, NEW p \in Processes, Start(p) PROVE Inv'
<1>1. TypePart(Blank) /\ Blank.outcome = "none" /\ Blank.listed = {}
  BY DEF TypePart, Shaped, Fields, Blank, Pcs, Ends, Outcomes, Empty, Documents
<1>2. /\ Parts(p, SourceWalk(p, Blank))
      /\ SourceWalk(p, Blank).pc \in {"walk", "open", "read"}
  BY <1>1, WalkStarts
<1>3. Set(p, SourceWalk(p, Blank)) /\ UNCHANGED <<setup, files, edits, db, lock>>
  BY DEF Start
<1> QED BY <1>2, <1>3, QuietStep

(* Fail is an end like another. *)
LEMMA FailedParts ==
    ASSUME NEW p \in Processes, NEW m, TypePart(m), NEW outcome \in {"held", "refused"}
    PROVE  Parts(p, Failed(m, outcome)) /\ Failed(m, outcome).pc = "over"
<1> DEFINE o == IF m.changed /\ m.ended # "no" /\ outcome # "held" THEN "changed" ELSE outcome
<1>1. o \in Outcomes \ {"found", "listed"}
  BY DEF Outcomes
<1>2. Failed(m, outcome) = Over(m, o)
  BY DEF Failed
<1> HIDE DEF o
<1> QED BY <1>1, <1>2, OverParts

(* A file of the walk is read, or the last was. *)
LEMMA WalkFileKeeps == ASSUME Inv, NEW p \in Processes, WalkFile(p) PROVE Inv'
<1> DEFINE m == mem[p]
           s == First(m.listed)
           next == [m EXCEPT !.pc = AfterWalk(p, m)]
           read == [m EXCEPT !.listed = @ \ {s}, !.walk[s] = Doc(files[s])]
<1>1. Parts(p, m) /\ m.pc = "walk"
  BY DEF Inv, WalkFile, Going
<1>2. TypePart(m) /\ WalkPart(m) /\ m.outcome = "none"
  BY <1>1 DEF Parts, FoundPart
<1>3. UNCHANGED <<setup, files, edits, db, lock>>
  BY DEF WalkFile
<1>4. CASE m.listed = {} /\ Set(p, next)
  <2>1. Set(p, next)
    BY <1>4
  <2>2. AfterWalk(p, m) \in {"read", "open"}
    BY DEF AfterWalk
  <2> HIDE DEF m
  <2>3. /\ Shaped(next) /\ next.pc \in {"read", "open"} /\ next.ended = m.ended
        /\ next.held = m.held /\ next.changed = m.changed /\ next.overtaken = m.overtaken
        /\ next.listed = m.listed /\ next.todo = m.todo /\ next.since = m.since
        /\ next.walk = m.walk /\ next.rewalks = m.rewalks /\ next.outcome = m.outcome
    BY <1>2, <2>2 DEF TypePart, Shaped, Fields
  <2> HIDE DEF next
  <2>4. TypePart(next)
    BY <1>2, <2>3 DEF TypePart, Pcs
  <2>5. WalkPart(next)
    BY <1>1, <1>2, <1>4, <2>3 DEF WalkPart
  <2>6. Parts(p, next)
    BY <1>2, <2>3, <2>4, <2>5, PlainParts
  <2> QED BY <1>3, <2>1, <2>3, <2>6, QuietStep
<1>5. CASE Set(p, Failed(m, "refused"))
  <2>1. Set(p, Failed(m, "refused"))
    BY <1>5
  <2> QED BY <1>2, <1>3, <2>1, FailedParts, QuietStep
<1>6. CASE m.listed # {} /\ Set(p, read)
  <2>1. Set(p, read)
    BY <1>6
  <2>2. s \in m.listed /\ s \in Sources
    BY <1>2, <1>6 DEF First, TypePart
  <2>3. Doc(files[s]) \in Contents \cup {None}
    BY DEF Doc
  <2> HIDE DEF m, s
  <2>4. /\ Shaped(read) /\ read.pc = m.pc /\ read.ended = m.ended
        /\ read.held = m.held /\ read.changed = m.changed /\ read.overtaken = m.overtaken
        /\ read.listed = m.listed \ {s} /\ read.todo = m.todo /\ read.since = m.since
        /\ read.walk = [m.walk EXCEPT ![s] = Doc(files[s])] /\ read.rewalks = m.rewalks
        /\ read.outcome = m.outcome
    BY <1>2, <2>2 DEF TypePart, Shaped, Fields
  <2> HIDE DEF read
  <2>5. TypePart(read)
    BY <1>2, <2>2, <2>3, <2>4 DEF TypePart, Documents
  <2>6. WalkPart(read)
    BY <1>1, <1>2, <2>2, <2>4 DEF WalkPart, TypePart, Documents
  <2>7. Parts(p, read)
    BY <1>1, <1>2, <2>4, <2>5, <2>6, PlainParts
  <2> QED BY <1>1, <1>3, <2>1, <2>4, <2>7, QuietStep
<1>7. \/ m.listed = {} /\ Set(p, next)
      \/ Set(p, Failed(m, "refused"))
      \/ m.listed # {} /\ Set(p, read)
  BY DEF WalkFile
<1> QED BY <1>4, <1>5, <1>6, <1>7

(* The index is opened. *)
LEMMA OpenKeeps == ASSUME Inv, NEW p \in Processes, Open(p) PROVE Inv'
<1> DEFINE m == mem[p]
           n == [m EXCEPT !.pc = "read", !.held = FALSE]
<1>1. Parts(p, m) /\ m.pc = "open"
  BY DEF Inv, Open, Going
<1>2. TypePart(m) /\ WalkPart(m) /\ m.outcome = "none"
  BY <1>1 DEF Parts, FoundPart
<1>3. Set(p, n) /\ UNCHANGED <<setup, files, edits, lock>> /\ db' = [db EXCEPT !.schema = TRUE]
  BY DEF Open
<1>4. db \in Database /\ lock \in Locks
  BY DEF Inv, StoreInv, Locks
<1>5. /\ mem' = [q \in Processes |-> mem'[q]] /\ mem'[p] = n
      /\ \A q \in Processes \ {p} : mem'[q] = mem[q]
  BY <1>3, SetIs
<1>6. /\ db' \in Database /\ db'.generation = db.generation
      /\ db'.documents = db.documents /\ db'.passages = db.passages
  BY <1>3, <1>4 DEF Database
<1> HIDE DEF m
<1>7. Alike(n, m) /\ n.pc = "read" /\ n.todo = m.todo
  BY <1>2 DEF TypePart, Alike, Shaped, Fields
<1> HIDE DEF n
<1>8. TypePart(n) /\ WalkPart(n)
  BY <1>1, <1>2, <1>7, AlikeParts DEF TypePart, Pcs
<1>9. Parts(p, n)
  BY <1>2, <1>7, <1>8, PlainParts DEF Alike
<1> QED BY <1>3, <1>4, <1>5, <1>6, <1>7, <1>9, OwnStep

(* The generation is read, under the read lock. *)
LEMMA ReadGenerationKeeps == ASSUME Inv, NEW p \in Processes, ReadGeneration(p) PROVE Inv'
<1> DEFINE m == mem[p]
           r == [generation |-> db.generation, documents |-> Empty]
           n == [m EXCEPT !.pc = "documents", !.held = FALSE, !.read = r]
<1>1. Parts(p, m) /\ m.pc = "read"
  BY DEF Inv, ReadGeneration, Going
<1>2. TypePart(m) /\ WalkPart(m) /\ m.outcome = "none"
  BY <1>1 DEF Parts, FoundPart
<1>3. /\ Set(p, n) /\ UNCHANGED <<setup, files, edits, db>>
      /\ lock' = [lock EXCEPT !.shared = @ \cup {p}]
  BY DEF ReadGeneration
<1>4. db \in Database /\ lock \in Locks
  BY DEF Inv, StoreInv, Locks
<1>5. /\ mem' = [q \in Processes |-> mem'[q]] /\ mem'[p] = n
      /\ \A q \in Processes \ {p} : mem'[q] = mem[q]
  BY <1>3, SetIs
<1>6. /\ lock' \in Locks /\ p \in lock'.shared /\ lock'.reserved = lock.reserved
      /\ lock.shared \subseteq lock'.shared
  BY <1>3, <1>4 DEF Locks
<1>7. r \in Reads /\ r.generation = db.generation
  BY <1>4 DEF Database, Reads, Empty, Documents
<1> HIDE DEF m, r
<1>8. Alike(n, m) /\ n.pc = "documents" /\ n.todo = m.todo /\ n.read = r
  BY <1>2 DEF TypePart, Alike, Shaped, Fields
<1> HIDE DEF n
<1>9. TypePart(n) /\ WalkPart(n)
  BY <1>1, <1>2, <1>8, AlikeParts DEF TypePart, Pcs
<1>10. ReadPart(n) /\ ChangePart(n) /\ SearchPart(n) /\ FoundPart(p, n)
  BY <1>2, <1>7, <1>8 DEF ReadPart, ChangePart, SearchPart, FoundPart, Alike
<1>11. Parts(p, n)
  BY <1>9, <1>10 DEF Parts
<1> QED BY <1>3, <1>4, <1>5, <1>6, <1>8, <1>11, OwnStep

(* No pair is None, whatever identity and documents it is of. *)
LEMMA PairIsNamed ==
    ASSUME Inv, NEW p \in Processes, NEW walk \in Documents
    PROVE  /\ GenerationOf(Identity(p), walk) # None
           /\ GenerationOf(Identity(p), walk) \in Identities \X Documents
<1>1. setup \in Setups
  BY DEF Inv, StoreInv
<1>2. setup.identity[p] \in Identities
  BY <1>1 DEF Identities
<1>3. <<setup.identity[p], walk>> # None
  BY <1>1, IndexAssumption DEF IndexAssumption, Documents
<1> QED BY <1>2, <1>3 DEF GenerationOf, Identity

(* A listing that compared a walk with one generation says what an update would
   do. *)
LEMMA CompareForetells ==
    ASSUME Inv, NEW p \in Processes, NEW walk \in Documents, NEW read \in Reads,
           read.generation # None => read.documents = read.generation[2]
    PROVE  Foretells(Identity(p), [walk |-> walk, read |-> read,
                                   shows |-> Compare(Identity(p), read, walk)])
<1> DEFINE id == Identity(p)
           shows == Compare(id, read, walk)
           removes == Removes(id, read, walk, FALSE)
           same == read.generation # None /\ read.generation[1] = id
<1>1. /\ read.generation = None \/ read.generation \in Identities \X Documents
      /\ read.documents \in Documents
  BY DEF Reads, Named
<1>2. <<id, walk>> # None
  BY PairIsNamed DEF GenerationOf
<1>3. Sources # {}
  BY IndexAssumption DEF IndexAssumption
<1>4. /\ shows.changed = (read.generation # <<id, walk>>)
      /\ shows.added = {s \in Present(walk) : (IF same THEN read.documents[s] ELSE None) = None}
      /\ shows.modified = {s \in Present(walk) :
                             (IF same THEN read.documents[s] ELSE None) \notin {None, walk[s]}}
      /\ shows.removed = {s \in Present(read.documents) : ~same \/ walk[s] = None}
  BY DEF Compare, GenerationOf
<1>5. removes = IF same THEN {s \in Sources : read.documents[s] # walk[s]} ELSE Sources
  BY DEF Removes
<1> HIDE DEF id, shows, removes
<1>6. CASE ~same
  <2>1. read.generation # <<id, walk>>
    BY <1>1, <1>2, <1>6
  <2>2. removes = Sources
    BY <1>5, <1>6
  <2>3. shows.added = Present(walk) /\ shows.modified = {} /\ shows.removed = Present(read.documents)
    BY <1>4, <1>6
  <2>4. shows.changed
    BY <1>4, <2>1
  <2> QED BY <1>3, <2>2, <2>3, <2>4 DEF Foretells, Adds, Present, id, shows, removes
<1>7. CASE same
  <2>1. read.generation = <<id, read.documents>>
    BY <1>1, <1>7
  <2>2. removes = {s \in Sources : read.documents[s] # walk[s]}
    BY <1>5, <1>7
  <2>3. /\ shows.added = {s \in Present(walk) : read.documents[s] = None}
        /\ shows.modified = {s \in Present(walk) : read.documents[s] \notin {None, walk[s]}}
        /\ shows.removed = {s \in Present(read.documents) : walk[s] = None}
    BY <1>4, <1>7
  <2>4. read.documents = walk <=> \A s \in Sources : read.documents[s] = walk[s]
    BY <1>1 DEF Documents
  <2>5. shows.changed <=> removes # {}
    <3>1. (read.generation # <<id, walk>>) <=> removes # {}
      BY <2>1, <2>2, <2>4
    <3> QED BY <1>4, <3>1
  <2>6. shows.added \cup shows.modified = Present(walk) \cap removes
    BY <2>2, <2>3 DEF Present
  <2>7. shows.removed \cup shows.modified = Present(read.documents) \cap removes
    BY <2>2, <2>3 DEF Present
  <2> QED BY <2>5, <2>6, <2>7 DEF Foretells, Adds, id, shows, removes
<1> QED BY <1>6, <1>7

(* The documents are read, and the read lock is let go of. *)
LEMMA ReadDocumentsKeeps == ASSUME Inv, NEW p \in Processes, ReadDocuments(p) PROVE Inv'
<1> DEFINE m == mem[p]
           r == [m.read EXCEPT !.documents = db.documents]
           m1 == [m EXCEPT !.read.documents = db.documents]
           of == [walk |-> m1.walk, read |-> m1.read,
                  shows |-> Compare(Identity(p), m1.read, m1.walk)]
           m2 == [m1 EXCEPT !.found = of]
           listing == Over(m2, "listed")
           current == [m1 EXCEPT !.pc = "search", !.read = None]
           behind == [m1 EXCEPT !.pc = "begin"]
<1>1. Parts(p, m) /\ m.pc = "documents"
  BY DEF Inv, ReadDocuments, Going
<1>2. TypePart(m) /\ WalkPart(m) /\ m.outcome = "none"
  BY <1>1 DEF Parts, FoundPart
<1>3. UNCHANGED <<setup, files, edits, db>> /\ lock' = Released(p)
  BY DEF ReadDocuments
<1>4. m.read \in Reads /\ m.read.generation = db.generation /\ db \in Database
  BY <1>1 DEF Parts, ReadPart, Inv, StoreInv
<1>5. r \in Reads /\ r.generation = db.generation /\ r.documents = db.documents
  BY <1>4 DEF Reads, Database
<1>6. db.generation # None =>
        db.documents = db.generation[2] /\ db.passages = PassagesOf(db.documents)
  BY DEF Inv, GenerationNamesContents
<1>7. \/ Kind(p) = "list" /\ Set(p, listing)
      \/ /\ Kind(p) = "retrieve" /\ m1.read.generation = GenerationOf(Identity(p), m1.walk)
         /\ Set(p, current)
      \/ Set(p, behind)
  BY DEF ReadDocuments
<1> HIDE DEF m
<1>8. Alike(m1, m) /\ m1.todo = m.todo /\ m1.pc = m.pc /\ m1.read = r
  BY <1>2 DEF TypePart, Alike, Shaped, Fields
<1>9. TypePart(m1)
  BY <1>2, <1>8 DEF Alike, TypePart
<1> HIDE DEF m1, r
<1>10. CASE Kind(p) = "list" /\ Set(p, listing)
  <2>1. Foretells(Identity(p), of)
    BY <1>5, <1>6, <1>8, <1>9, CompareForetells DEF TypePart
  <2> HIDE DEF of
  <2>2. TypePart(m2) /\ m2.found = of
    BY <1>9 DEF TypePart, Shaped, Fields
  <2> HIDE DEF m2
  <2>3. /\ Shaped(listing) /\ listing.pc = "over" /\ listing.ended = "no"
        /\ listing.held \in BOOLEAN /\ listing.listed = {} /\ listing.walk = Empty
        /\ listing.todo = {} /\ listing.changed \in BOOLEAN /\ listing.rewalks = 0
        /\ listing.outcome = "listed" /\ listing.since = m2.since
        /\ listing.overtaken = m2.overtaken
        /\ listing.found = of
    BY <2>2, OverIs
  <2>4. Empty \in Documents
    BY DEF Empty, Documents
  <2> HIDE DEF listing
  <2>5. TypePart(listing)
    BY <2>2, <2>3, <2>4 DEF TypePart, Pcs, Ends, Outcomes
  <2>6. WalkPart(listing) /\ ReadPart(listing) /\ ChangePart(listing) /\ SearchPart(listing)
    BY <2>3 DEF WalkPart, ReadPart, ChangePart, SearchPart
  <2>7. FoundPart(p, listing)
    BY <2>1, <2>3 DEF FoundPart
  <2>8. Parts(p, listing)
    BY <2>5, <2>6, <2>7 DEF Parts
  <2> QED BY <1>3, <1>10, <2>3, <2>8, ReleasingStep
<1>11. CASE /\ Kind(p) = "retrieve" /\ m1.read.generation = GenerationOf(Identity(p), m1.walk)
            /\ Set(p, current)
  <2>1. Alike(current, m) /\ current.pc = "search" /\ current.todo = m.todo
    BY <1>8, <1>9 DEF TypePart, Alike, Shaped, Fields
  <2> HIDE DEF current
  <2>2. TypePart(current) /\ WalkPart(current)
    BY <1>1, <1>2, <2>1, AlikeParts DEF TypePart, Pcs
  <2>3. /\ db.generation = <<Identity(p), current.walk>> /\ db.generation # None
        /\ current.walk \in Documents
    BY <1>5, <1>8, <1>9, <1>11, <2>1, PairIsNamed DEF Alike, TypePart, GenerationOf
  <2>4. db.passages = PassagesOf(current.walk)
    BY <1>6, <2>3
  <2>5. Fresh(db.passages, current.since)
    <3> SUFFICES ASSUME NEW s \in Sources \ current.since
                 PROVE  db.passages[s] = PassagesOf(Sourced)[s]
      BY DEF Fresh
    <3>1. current.walk[s] = Doc(files[s])
      BY <2>1, <2>2 DEF WalkPart
    <3> QED BY <2>4, <3>1 DEF PassagesOf, Sourced
  <2>6. ReadPart(current) /\ ChangePart(current) /\ FoundPart(p, current)
    BY <1>2, <2>1 DEF ReadPart, ChangePart, FoundPart, Alike
  <2>7. SearchPart(current)
    BY <2>1, <2>3, <2>5 DEF SearchPart
  <2>8. Parts(p, current)
    BY <2>2, <2>6, <2>7 DEF Parts
  <2> QED BY <1>3, <1>11, <2>1, <2>8, ReleasingStep
<1>12. CASE Set(p, behind)
  <2>1. Alike(behind, m) /\ behind.pc = "begin" /\ behind.todo = m.todo /\ behind.read = r
    BY <1>8, <1>9 DEF TypePart, Alike, Shaped, Fields
  <2> HIDE DEF behind
  <2>2. TypePart(behind) /\ WalkPart(behind)
    BY <1>1, <1>2, <2>1, AlikeParts DEF TypePart, Pcs
  <2>3. ReadPart(behind)
    BY <1>5, <1>6, <2>1 DEF ReadPart
  <2>4. ChangePart(behind) /\ SearchPart(behind) /\ FoundPart(p, behind)
    BY <1>2, <2>1 DEF ChangePart, SearchPart, FoundPart, Alike
  <2>5. Parts(p, behind)
    BY <2>2, <2>3, <2>4 DEF Parts
  <2> QED BY <1>3, <1>12, <2>1, <2>5, ReleasingStep
<1> QED BY <1>7, <1>10, <1>11, <1>12

(* The transaction begins, with what it removes; or the update reads again. *)
LEMMA BeginKeeps == ASSUME Inv, NEW p \in Processes, Begin(p) PROVE Inv'
<1> DEFINE m == mem[p]
           rebuild == Kind(p) = "rebuild"
           removes == Removes(Identity(p), m.read, m.walk, rebuild)
           without(f) == [s \in Sources |-> IF s \in removes THEN None ELSE f[s]]
           change == [documents |-> without(db.documents), passages |-> without(db.passages)]
           todo == Adds(Identity(p), m.read, m.walk, rebuild)
           back == [m EXCEPT !.pc = "read", !.held = FALSE, !.read = None]
           n == [m EXCEPT !.pc = "apply", !.held = FALSE, !.todo = todo, !.tx = change]
<1>1. Parts(p, m) /\ m.pc = "begin"
  BY DEF Inv, Begin, Going
<1>2. TypePart(m) /\ WalkPart(m) /\ m.outcome = "none"
  BY <1>1 DEF Parts, FoundPart
<1>3. UNCHANGED <<setup, files, edits, db>> /\ lock.reserved = None
  BY DEF Begin, MayWrite
<1>4. /\ m.read \in Reads
      /\ m.read.generation # None => m.read.documents = m.read.generation[2]
  BY <1>1 DEF Parts, ReadPart
<1>5. \/ Set(p, back) /\ UNCHANGED lock
      \/ /\ db.generation = m.read.generation
         /\ Set(p, n) /\ lock' = [lock EXCEPT !.reserved = p]
  BY DEF Begin
<1>6. db \in Database /\ lock \in Locks
  BY DEF Inv, StoreInv, Locks
<1>7. CASE Set(p, back) /\ UNCHANGED lock
  <2> HIDE DEF m
  <2>1. Alike(back, m) /\ back.pc = "read" /\ back.todo = m.todo
    BY <1>2 DEF TypePart, Alike, Shaped, Fields
  <2> HIDE DEF back
  <2>2. TypePart(back) /\ WalkPart(back)
    BY <1>1, <1>2, <2>1, AlikeParts DEF TypePart, Pcs
  <2>3. Parts(p, back)
    BY <1>2, <2>1, <2>2, PlainParts DEF Alike
  <2> QED BY <1>3, <1>7, <2>1, <2>3, QuietStep
<1>8. CASE /\ db.generation = m.read.generation
           /\ Set(p, n) /\ lock' = [lock EXCEPT !.reserved = p]
  <2>1. /\ removes \subseteq Sources /\ todo = Present(m.walk) \cap removes
        /\ \A s \in Sources \ removes :
             m.read.generation # None /\ m.read.documents[s] = m.walk[s]
    BY DEF Removes, Adds
  <2>2. \A s \in Sources \ removes :
          db.documents[s] = m.walk[s] /\ db.passages[s] = PassagesOf(m.walk)[s]
    <3>1. db.generation # None =>
            db.documents = db.generation[2] /\ db.passages = PassagesOf(db.documents)
      BY DEF Inv, GenerationNamesContents
    <3> HIDE DEF m, removes
    <3> QED BY <1>4, <1>8, <2>1, <3>1 DEF PassagesOf
  <2>3. \A s \in removes \ todo : m.walk[s] = None /\ PassagesOf(m.walk)[s] = None
    BY <2>1 DEF Present, PassagesOf
  <2> HIDE DEF m, removes, todo
  <2>4. /\ without(db.documents) \in Documents /\ without(db.passages) \in [Sources -> Cuts]
        /\ \A s \in Sources \ todo :
             /\ without(db.documents)[s] = m.walk[s]
             /\ without(db.passages)[s] = PassagesOf(m.walk)[s]
    BY <1>6, <2>1, <2>2, <2>3 DEF Database, Documents, Cuts
  <2>5. /\ change \in Changes
        /\ \A s \in Sources \ todo :
             change.documents[s] = m.walk[s] /\ change.passages[s] = PassagesOf(m.walk)[s]
    <3> HIDE DEF without
    <3> QED BY <2>4 DEF Changes
  <2> HIDE DEF change
  <2>6. Alike(n, m) /\ n.pc = "apply" /\ n.todo = todo /\ n.tx = change
    BY <1>2 DEF TypePart, Alike, Shaped, Fields
  <2> HIDE DEF n
  <2>7. TypePart(n) /\ WalkPart(n)
    BY <1>1, <1>2, <2>1, <2>6, AlikeParts DEF Pcs
  <2>8. ChangePart(n)
    BY <2>1, <2>5, <2>6 DEF ChangePart, Alike
  <2>9. ReadPart(n) /\ SearchPart(n) /\ FoundPart(p, n)
    BY <1>2, <2>6 DEF ReadPart, SearchPart, FoundPart, Alike
  <2>10. Parts(p, n)
    BY <2>7, <2>8, <2>9 DEF Parts
  <2>11. /\ mem' = [q \in Processes |-> mem'[q]] /\ mem'[p] = n
         /\ \A q \in Processes \ {p} : mem'[q] = mem[q]
    BY <1>8, SetIs
  <2>12. /\ lock' \in Locks /\ lock'.reserved = p /\ lock'.shared = lock.shared
         /\ \A q \in Processes : lock.reserved # q
    BY <1>3, <1>6, <1>8, IndexAssumption DEF Locks, IndexAssumption
  <2> QED BY <1>3, <1>6, <2>6, <2>10, <2>11, <2>12, OwnStep
<1> QED BY <1>5, <1>7, <1>8

(* One document is indexed. *)
Applied(m, s, document, cut) ==
    [m EXCEPT !.todo = @ \ {s}, !.tx.documents[s] = document, !.tx.passages[s] = cut]

(* What that does to a memory. *)
LEMMA AppliedIs ==
    ASSUME NEW m, TypePart(m), m.tx \in Changes,
           NEW s \in Sources, NEW document \in Contents \cup {None}, NEW cut \in Cuts
    PROVE  LET n == Applied(m, s, document, cut)
           IN  /\ Alike(n, m) /\ n.pc = m.pc /\ n.todo = m.todo \ {s}
               /\ n.tx \in Changes
               /\ n.tx.documents[s] = document /\ n.tx.passages[s] = cut
               /\ \A t \in Sources \ {s} : /\ n.tx.documents[t] = m.tx.documents[t]
                                           /\ n.tx.passages[t] = m.tx.passages[t]
<1> DEFINE a == [m EXCEPT !.todo = @ \ {s}]
           b == [a EXCEPT !.tx.documents[s] = document]
           n == [b EXCEPT !.tx.passages[s] = cut]
<1>1. Alike(a, m) /\ a.pc = m.pc /\ a.todo = m.todo \ {s} /\ a.tx = m.tx
  BY DEF TypePart, Alike, Shaped, Fields
<1> HIDE DEF a
<1>2. /\ Alike(b, a) /\ b.pc = a.pc /\ b.todo = a.todo
      /\ b.tx = [a.tx EXCEPT !.documents[s] = document]
  BY <1>1 DEF Alike, Shaped, Fields
<1> HIDE DEF b
<1>3. /\ Alike(n, b) /\ n.pc = b.pc /\ n.todo = b.todo
      /\ n.tx = [b.tx EXCEPT !.passages[s] = cut]
  BY <1>2 DEF Alike, Shaped, Fields
<1>4. n = Applied(m, s, document, cut)
  BY DEF a, b, Applied
<1> HIDE DEF n
<1>5. Alike(n, m)
  BY <1>1, <1>2, <1>3 DEF Alike
<1>6. /\ b.tx.documents = [m.tx.documents EXCEPT ![s] = document]
      /\ b.tx.passages = m.tx.passages /\ b.tx \in Changes
  BY <1>1, <1>2 DEF Changes, Documents
<1>7. /\ n.tx.passages = [b.tx.passages EXCEPT ![s] = cut]
      /\ n.tx.documents = b.tx.documents /\ n.tx \in Changes
  BY <1>3, <1>6 DEF Changes
<1>8. /\ n.tx.documents[s] = document /\ n.tx.passages[s] = cut
      /\ \A t \in Sources \ {s} : /\ n.tx.documents[t] = m.tx.documents[t]
                                  /\ n.tx.passages[t] = m.tx.passages[t]
  BY <1>6, <1>7 DEF Changes, Documents
<1> QED BY <1>1, <1>2, <1>3, <1>4, <1>5, <1>7, <1>8

(* A document is indexed as the walk saw it, or the change is rolled back. *)
LEMMA ApplyKeeps == ASSUME Inv, NEW p \in Processes, Apply(p) PROVE Inv'
<1> DEFINE m == mem[p]
           s == First(m.todo)
           content == contentOf(p, s)
           again == [m EXCEPT !.changed = TRUE, !.rewalks = @ + 1, !.read = None, !.tx = None,
                              !.todo = {}]
           document == m.walk[s]
           cut == Cut(content)
           n == Applied(m, s, document, cut)
<1>1. Parts(p, m) /\ m.pc = "apply" /\ m.todo # {}
  BY DEF Inv, Apply, Going
<1>2. TypePart(m) /\ WalkPart(m) /\ m.outcome = "none" /\ ChangePart(m)
  BY <1>1 DEF Parts, FoundPart
<1>3. UNCHANGED <<setup, files, edits, db>>
  BY DEF Apply
<1>4. \/ content = m.walk[s] /\ Set(p, n) /\ UNCHANGED lock
      \/ lock' = Released(p) /\ Set(p, Failed(m, "refused"))
      \/ lock' = Released(p) /\ Set(p, Over(m, "changed"))
      \/ lock' = Released(p) /\ Set(p, SourceWalk(p, again))
  BY DEF Apply, Applied
<1>5. CASE content = m.walk[s] /\ Set(p, n) /\ UNCHANGED lock
  <2>1. s \in m.todo /\ s \in Sources /\ m.walk[s] \in Contents
    BY <1>1, <1>2 DEF First, ChangePart, Present, TypePart, Documents
  <2>2. /\ m.tx \in Changes /\ document = m.walk[s]
        /\ cut \in Cuts /\ cut = PassagesOf(m.walk)[s]
    <3>1. None \notin Contents
      BY IndexAssumption DEF IndexAssumption
    <3> QED BY <1>1, <1>2, <1>5, <2>1, <3>1 DEF ChangePart, Cuts, PassagesOf
  <2> HIDE DEF m, s, content, document, cut
  <2>3. /\ Alike(n, m) /\ n.pc = m.pc /\ n.todo = m.todo \ {s} /\ n.tx \in Changes
        /\ n.tx.documents[s] = document /\ n.tx.passages[s] = cut
        /\ \A t \in Sources \ {s} : /\ n.tx.documents[t] = m.tx.documents[t]
                                    /\ n.tx.passages[t] = m.tx.passages[t]
    BY <1>2, <2>1, <2>2, AppliedIs
  <2> HIDE DEF n
  <2>5. TypePart(n) /\ WalkPart(n)
    BY <1>1, <1>2, <2>3, AlikeParts DEF TypePart, Pcs
  <2>6. ASSUME NEW t \in Sources \ n.todo
        PROVE  n.tx.documents[t] = m.walk[t] /\ n.tx.passages[t] = PassagesOf(m.walk)[t]
    BY <1>1, <1>2, <2>2, <2>3 DEF ChangePart
  <2>7. ChangePart(n)
    BY <1>1, <1>2, <2>3, <2>6 DEF ChangePart, Alike
  <2>8. ReadPart(n) /\ SearchPart(n) /\ FoundPart(p, n)
    BY <1>1, <1>2, <2>3 DEF ReadPart, SearchPart, FoundPart, Alike
  <2>9. Parts(p, n)
    BY <2>5, <2>7, <2>8 DEF Parts
  <2> QED BY <1>1, <1>3, <1>5, <2>3, <2>9, QuietStep DEF m
<1>6. CASE lock' = Released(p) /\ Set(p, Failed(m, "refused"))
  BY <1>2, <1>3, <1>6, FailedParts, ReleasingStep
<1>7. CASE lock' = Released(p) /\ Set(p, Over(m, "changed"))
  <2>1. Parts(p, Over(m, "changed")) /\ Over(m, "changed").pc = "over"
    BY <1>2, OverParts DEF Outcomes
  <2> QED BY <1>3, <1>7, <2>1, ReleasingStep
<1>8. CASE lock' = Released(p) /\ Set(p, SourceWalk(p, again))
  <2> HIDE DEF m
  <2>1. /\ Shaped(again) /\ again.pc = m.pc /\ again.ended = m.ended /\ again.held = m.held
        /\ again.changed \in BOOLEAN /\ again.overtaken = m.overtaken
        /\ again.rewalks = m.rewalks + 1 /\ again.outcome = m.outcome
        /\ again.listed = m.listed /\ again.todo = {} /\ again.since = m.since
        /\ again.walk = m.walk
    BY <1>2 DEF TypePart, Shaped, Fields
  <2> HIDE DEF again
  <2>2. TypePart(again)
    BY <1>2, <2>1 DEF TypePart
  <2>3. again.outcome = "none" /\ again.listed = {}
    BY <1>1, <1>2, <2>1 DEF WalkPart
  <2>4. /\ Parts(p, SourceWalk(p, again))
        /\ SourceWalk(p, again).pc \in {"walk", "open", "read"}
    BY <2>2, <2>3, WalkStarts
  <2> QED BY <1>3, <1>8, <2>4, ReleasingStep
<1> QED BY <1>4, <1>5, <1>6, <1>7, <1>8

(* Every document is indexed; the commit waits for the readers there are. *)
LEMMA SettleKeeps == ASSUME Inv, NEW p \in Processes, Settle(p) PROVE Inv'
<1> DEFINE m == mem[p]
           n == [m EXCEPT !.pc = "commit", !.changed = FALSE]
<1>1. Parts(p, m) /\ m.pc = "apply" /\ m.todo = {}
  BY DEF Inv, Settle, Going
<1>2. TypePart(m) /\ WalkPart(m) /\ m.outcome = "none" /\ ChangePart(m)
  BY <1>1 DEF Parts, FoundPart
<1>3. /\ UNCHANGED <<setup, files, edits, db>> /\ Set(p, n)
      /\ lock' = [lock EXCEPT !.pending = TRUE]
  BY DEF Settle
<1>4. db \in Database /\ lock \in Locks /\ lock.reserved = p
  BY <1>1 DEF Inv, StoreInv, Locks, LockInv
<1>5. lock' \in Locks /\ lock'.shared = lock.shared /\ lock'.reserved = lock.reserved
  BY <1>3, <1>4 DEF Locks
<1>6. /\ mem' = [q \in Processes |-> mem'[q]] /\ mem'[p] = n
      /\ \A q \in Processes \ {p} : mem'[q] = mem[q]
  BY <1>3, SetIs
<1> HIDE DEF m
<1>7. Alike(n, m) /\ n.pc = "commit" /\ n.todo = m.todo /\ n.tx = m.tx
  BY <1>2 DEF TypePart, Alike, Shaped, Fields
<1> HIDE DEF n
<1>8. TypePart(n) /\ WalkPart(n)
  BY <1>1, <1>2, <1>7, AlikeParts DEF TypePart, Pcs
<1>9. ChangePart(n)
  BY <1>1, <1>2, <1>7 DEF ChangePart, Alike
<1>10. ReadPart(n) /\ SearchPart(n) /\ FoundPart(p, n)
  BY <1>2, <1>7 DEF ReadPart, SearchPart, FoundPart, Alike
<1>11. Parts(p, n)
  BY <1>8, <1>9, <1>10 DEF Parts
<1> QED BY <1>3, <1>4, <1>5, <1>6, <1>7, <1>11, OwnStep

(* A reader outlasted the commit. *)
LEMMA CommitGivesUpKeeps == ASSUME Inv, NEW p \in Processes, CommitGivesUp(p) PROVE Inv'
<1>1. TypePart(mem[p])
  BY DEF Inv, Parts
<1>2. /\ Set(p, Failed(mem[p], "refused")) /\ lock' = Released(p)
      /\ UNCHANGED <<setup, files, edits, db>>
  BY DEF CommitGivesUp
<1> QED BY <1>1, <1>2, FailedParts, ReleasingStep

(* A search reads the generation, under the read lock. *)
LEMMA SearchGenerationKeeps == ASSUME Inv, NEW p \in Processes, SearchGeneration(p) PROVE Inv'
<1> DEFINE m == mem[p]
           f == [generation |-> db.generation, hits |-> Empty]
           n == [m EXCEPT !.pc = "hits", !.held = FALSE, !.found = f]
<1>1. Parts(p, m) /\ m.pc = "search"
  BY DEF Inv, SearchGeneration, Going
<1>2. TypePart(m) /\ WalkPart(m) /\ m.outcome = "none" /\ SearchPart(m)
  BY <1>1 DEF Parts, FoundPart
<1>3. /\ Set(p, n) /\ UNCHANGED <<setup, files, edits, db>>
      /\ lock' = [lock EXCEPT !.shared = @ \cup {p}]
  BY DEF SearchGeneration
<1>4. db \in Database /\ lock \in Locks
  BY DEF Inv, StoreInv, Locks
<1>5. /\ mem' = [q \in Processes |-> mem'[q]] /\ mem'[p] = n
      /\ \A q \in Processes \ {p} : mem'[q] = mem[q]
  BY <1>3, SetIs
<1>6. /\ lock' \in Locks /\ p \in lock'.shared /\ lock'.reserved = lock.reserved
      /\ lock.shared \subseteq lock'.shared
  BY <1>3, <1>4 DEF Locks
<1>7. f \in Searches /\ f.generation = db.generation
  BY <1>4 DEF Database, Searches, Empty, Cuts
<1> HIDE DEF m, f
<1>8. Alike(n, m) /\ n.pc = "hits" /\ n.todo = m.todo /\ n.found = f
  BY <1>2 DEF TypePart, Alike, Shaped, Fields
<1> HIDE DEF n
<1>9. TypePart(n) /\ WalkPart(n)
  BY <1>1, <1>2, <1>8, AlikeParts DEF TypePart, Pcs
<1>10. ReadPart(n) /\ ChangePart(n) /\ FoundPart(p, n)
  BY <1>2, <1>8 DEF ReadPart, ChangePart, FoundPart, Alike
<1>11. SearchPart(n)
  BY <1>1, <1>2, <1>7, <1>8 DEF SearchPart, Alike
<1>12. Parts(p, n)
  BY <1>9, <1>10, <1>11 DEF Parts
<1> QED BY <1>3, <1>4, <1>5, <1>6, <1>8, <1>12, OwnStep

(* And the passages, with which it ends. *)
LEMMA SearchHitsKeeps == ASSUME Inv, NEW p \in Processes, SearchHits(p) PROVE Inv'
<1> DEFINE m == mem[p]
           m1 == [m EXCEPT !.found.hits = db.passages]
           f == [m.found EXCEPT !.hits = db.passages]
           n == Over(m1, "found")
<1>1. Parts(p, m) /\ m.pc = "hits"
  BY DEF Inv, SearchHits, Going
<1>2. TypePart(m) /\ SearchPart(m)
  BY <1>1 DEF Parts
<1>3. Set(p, n) /\ UNCHANGED <<setup, files, edits, db>> /\ lock' = Released(p)
  BY DEF SearchHits
<1>4. /\ db.generation # None => db.documents = db.generation[2]
      /\ db.generation # None => db.passages = PassagesOf(db.documents)
  BY DEF Inv, GenerationNamesContents
<1>5. /\ f.generation = db.generation /\ f.hits = db.passages /\ db.generation # None
      /\ ~m.overtaken => Fresh(db.passages, m.since)
  BY <1>1, <1>2 DEF SearchPart, Searches
<1> HIDE DEF m
<1>6. m1.found = f /\ m1.since = m.since /\ m1.overtaken = m.overtaken
  BY <1>2 DEF TypePart, Shaped, Fields
<1> HIDE DEF m1, f
<1>7. /\ Shaped(n) /\ n.pc = "over" /\ n.ended = "no" /\ n.held \in BOOLEAN /\ n.listed = {}
      /\ n.walk = Empty /\ n.todo = {} /\ n.changed \in BOOLEAN /\ n.rewalks = 0
      /\ n.outcome = "found" /\ n.since = m.since /\ n.overtaken = m.overtaken
      /\ n.found = f
  BY <1>6, OverIs
<1>8. Empty \in Documents
  BY DEF Empty, Documents
<1> HIDE DEF n
<1>9. TypePart(n)
  BY <1>2, <1>7, <1>8 DEF TypePart, Pcs, Ends, Outcomes
<1>10. WalkPart(n) /\ ReadPart(n) /\ ChangePart(n) /\ SearchPart(n)
  BY <1>7 DEF WalkPart, ReadPart, ChangePart, SearchPart
<1>11. FoundPart(p, n)
  BY <1>4, <1>5, <1>7 DEF FoundPart
<1>12. Parts(p, n)
  BY <1>9, <1>10, <1>11 DEF Parts
<1> QED BY <1>3, <1>7, <1>12, ReleasingStep

(* The index is found held. *)
LEMMA BusyKeeps == ASSUME Inv, NEW p \in Processes, Busy(p) PROVE Inv'
<1> DEFINE m == mem[p]
           n == [m EXCEPT !.held = TRUE]
<1>1. Parts(p, m) /\ m.pc \in {"open", "read", "search", "begin"}
  BY DEF Inv, Busy
<1>2. TypePart(m) /\ WalkPart(m) /\ m.outcome = "none" /\ ReadPart(m) /\ SearchPart(m)
  BY <1>1 DEF Parts, FoundPart
<1>3. Set(p, n) /\ UNCHANGED <<setup, files, edits, db, lock>>
  BY DEF Busy
<1> HIDE DEF m
<1>4. /\ Alike(n, m) /\ n.pc = m.pc /\ n.todo = m.todo /\ n.read = m.read
      /\ n.found = m.found
  BY <1>2 DEF TypePart, Alike, Shaped, Fields
<1> HIDE DEF n
<1>5. TypePart(n) /\ WalkPart(n)
  BY <1>1, <1>2, <1>4, AlikeParts DEF TypePart, Pcs
<1>6. ReadPart(n) /\ ChangePart(n) /\ SearchPart(n) /\ FoundPart(p, n)
  BY <1>1, <1>2, <1>4 DEF ReadPart, ChangePart, SearchPart, FoundPart, Alike
<1>7. Parts(p, n)
  BY <1>5, <1>6 DEF Parts
<1> QED BY <1>1, <1>3, <1>4, <1>7, QuietStep

(* The context ends. *)
LEMMA ContextEndsKeeps == ASSUME Inv, NEW p \in Processes, ContextEnds(p) PROVE Inv'
<1> DEFINE m == mem[p]
           end == IF Kind(p) = "rebuild" THEN "cancelled" ELSE "deadline"
           n == [m EXCEPT !.ended = end]
<1>1. Parts(p, m)
  BY DEF Inv
<1>2. /\ TypePart(m) /\ WalkPart(m) /\ ReadPart(m) /\ ChangePart(m) /\ SearchPart(m)
      /\ FoundPart(p, m)
  BY <1>1 DEF Parts
<1>3. Set(p, n) /\ UNCHANGED <<setup, files, edits, db, lock>>
  BY DEF ContextEnds
<1>4. end \in Ends
  BY DEF Ends
<1> HIDE DEF m, end
<1>5. /\ Shaped(n) /\ n.pc = m.pc /\ n.ended = end /\ n.held = m.held /\ n.changed = m.changed
      /\ n.overtaken = m.overtaken /\ n.rewalks = m.rewalks /\ n.outcome = m.outcome
      /\ n.listed = m.listed /\ n.todo = m.todo /\ n.since = m.since /\ n.walk = m.walk
      /\ n.read = m.read /\ n.tx = m.tx /\ n.found = m.found
  BY <1>2 DEF TypePart, Shaped, Fields
<1> HIDE DEF n
<1>6. TypePart(n)
  BY <1>2, <1>4, <1>5 DEF TypePart
<1>7. WalkPart(n) /\ ReadPart(n) /\ ChangePart(n)
  BY <1>2, <1>5 DEF WalkPart, ReadPart, ChangePart
<1>8. SearchPart(n) /\ FoundPart(p, n)
  BY <1>2, <1>5 DEF SearchPart, FoundPart
<1>9. Parts(p, n)
  BY <1>6, <1>7, <1>8 DEF Parts
<1> QED BY <1>3, <1>5, <1>9, QuietStep DEF m

(* A process gives up. *)
LEMMA GivesUpKeeps == ASSUME Inv, NEW p \in Processes, GivesUp(p) PROVE Inv'
<1> DEFINE m == mem[p]
           without == [m EXCEPT !.found = None]
           o == IF m.held /\ m.ended = "deadline" /\ m.pc \in {"read", "begin", "search"}
                THEN "held" ELSE "refused"
<1>1. TypePart(m)
  BY DEF Inv, Parts
<1>2. Set(p, Failed(without, o)) /\ lock' = Released(p) /\ UNCHANGED <<setup, files, edits, db>>
  BY DEF GivesUp
<1>3. o \in {"held", "refused"}
  OBVIOUS
<1> HIDE DEF m, o
<1>4. TypePart(without)
  BY <1>1 DEF TypePart, Shaped, Fields
<1> QED BY <1>2, <1>3, <1>4, FailedParts, ReleasingStep

(* A process dies. *)
LEMMA DieKeeps == ASSUME Inv, NEW p \in Processes, Die(p) PROVE Inv'
<1> DEFINE m == mem[p]
           without == [m EXCEPT !.found = None]
<1>1. TypePart(m)
  BY DEF Inv, Parts
<1>2. Set(p, Over(without, "died")) /\ lock' = Released(p) /\ UNCHANGED <<setup, files, edits, db>>
  BY DEF Die
<1> HIDE DEF m
<1>3. TypePart(without)
  BY <1>1 DEF TypePart, Shaped, Fields
<1>4. Parts(p, Over(without, "died")) /\ Over(without, "died").pc = "over"
  BY <1>3, OverParts DEF Outcomes
<1> QED BY <1>2, <1>4, ReleasingStep

(* A source changes under every process that has begun. *)
LEMMA EditKeeps == ASSUME Inv, Edit PROVE Inv'
<1>1. PICK s \in Sources, c \in setup.becomes :
        /\ edits < MaxEdits
        /\ files' = [files EXCEPT ![s] = c]
        /\ edits' = edits + 1
        /\ mem' = [p \in Processes |-> IF mem[p].pc = "idle" THEN mem[p]
                                       ELSE [mem[p] EXCEPT !.since = @ \cup {s}]]
        /\ UNCHANGED <<setup, db, lock>>
  BY DEF Edit
<1>2. /\ setup \in Setups /\ files \in [Sources -> Contents \cup {None, TooLarge, NotText}]
      /\ edits \in 0..MaxEdits /\ db \in Database
      /\ lock \in Locks
  BY DEF Inv, StoreInv, Locks
<1>3. c \in Contents \cup {None, TooLarge, NotText} /\ MaxEdits \in Nat
  BY <1>2, IndexAssumption DEF IndexAssumption
<1>4. files' \in [Sources -> Contents \cup {None, TooLarge, NotText}]
  BY <1>1, <1>2, <1>3
<1>5. edits' \in 0..MaxEdits
  BY <1>1, <1>2, <1>3
<1>6. mem' = [p \in Processes |-> mem'[p]]
  BY <1>1
<1>7. StoreInv'
  BY <1>1, <1>2, <1>4, <1>5, <1>6 DEF Inv, StoreInv, Locks, Generations, Identity
<1>8. GenerationNamesContents'
  BY <1>1 DEF Inv, GenerationNamesContents, PassagesOf
<1>9. \A t \in Sources \ {s} : files'[t] = files[t] /\ Sourced'[t] = Sourced[t]
  BY <1>1, <1>2 DEF Sourced
<1>10. ASSUME NEW q \in Processes
       PROVE  LET m == mem[q] n == mem'[q] IN
              /\ TypePart(m) /\ TypePart(n) /\ n.pc = m.pc /\ n.overtaken = m.overtaken
              /\ n.outcome = m.outcome /\ n.listed = m.listed /\ n.todo = m.todo
              /\ n.walk = m.walk /\ n.read = m.read /\ n.tx = m.tx /\ n.found = m.found
              /\ m.since \subseteq n.since /\ (m.pc # "idle" => s \in n.since)
  <2> DEFINE m == mem[q]
             n == [m EXCEPT !.since = @ \cup {s}]
  <2>1. TypePart(m)
    BY DEF Inv, Parts
  <2>2. mem'[q] = IF m.pc = "idle" THEN m ELSE n
    BY <1>1
  <2> HIDE DEF m
  <2>3. /\ Shaped(n) /\ n.pc = m.pc /\ n.ended = m.ended /\ n.held = m.held
        /\ n.changed = m.changed /\ n.overtaken = m.overtaken /\ n.rewalks = m.rewalks
        /\ n.outcome = m.outcome /\ n.listed = m.listed /\ n.todo = m.todo
        /\ n.walk = m.walk /\ n.read = m.read /\ n.tx = m.tx /\ n.found = m.found
        /\ n.since = m.since \cup {s}
    BY <2>1 DEF TypePart, Shaped, Fields
  <2> HIDE DEF n
  <2>4. TypePart(n)
    BY <2>1, <2>3 DEF TypePart
  <2>5. CASE m.pc = "idle"
    BY <2>1, <2>2, <2>5 DEF m
  <2>6. CASE m.pc # "idle"
    BY <2>1, <2>2, <2>3, <2>4, <2>6 DEF m
  <2> QED BY <2>5, <2>6
<1>11. LockInv'
  BY <1>1, <1>10 DEF Inv, LockInv
<1>12. ASSUME NEW q \in Processes PROVE Parts(q, mem[q])'
  <2> DEFINE m == mem[q]
             n == mem'[q]
  <2>1. Parts(q, m)
    BY DEF Inv
  <2>2. /\ TypePart(n) /\ n.pc = m.pc /\ n.overtaken = m.overtaken
        /\ n.outcome = m.outcome /\ n.listed = m.listed /\ n.todo = m.todo
        /\ n.walk = m.walk /\ n.read = m.read /\ n.tx = m.tx /\ n.found = m.found
        /\ m.since \subseteq n.since /\ (m.pc # "idle" => s \in n.since)
    BY <1>10
  <2>3. TypePart(mem[q])'
    BY <2>2 DEF TypePart, Shaped
  <2>4. WalkPart(mem[q])'
    BY <1>9, <2>1, <2>2 DEF Parts, WalkPart
  <2>5. ReadPart(mem[q])' /\ ChangePart(mem[q])'
    BY <1>1, <2>1, <2>2 DEF Parts, ReadPart, ChangePart, PassagesOf
  <2>6. ASSUME NEW passages, m.pc # "idle", \A t \in Sources \ m.since : passages[t] = PassagesOf(Sourced)[t]
        PROVE  \A t \in Sources \ n.since : passages[t] = PassagesOf(Sourced')[t]
    BY <1>9, <2>2, <2>6 DEF PassagesOf
  <2>7. SearchPart(mem[q])'
    <3>1. SearchPart(m)
      BY <2>1 DEF Parts
    <3>2. m.pc \in {"search", "hits"} /\ ~n.overtaken =>
            \A t \in Sources \ n.since : db.passages[t] = PassagesOf(Sourced')[t]
      BY <2>2, <2>6, <3>1 DEF SearchPart, Fresh
    <3>3. PassagesOf(Sourced)' = PassagesOf(Sourced')
      BY DEF PassagesOf
    <3> QED BY <1>1, <2>2, <3>1, <3>2, <3>3 DEF SearchPart, Fresh
  <2>8. FoundPart(q, mem[q])'
    <3>1. FoundPart(q, m)
      BY <2>1 DEF Parts
    <3>2. m.outcome = "found" /\ ~n.overtaken =>
            \A t \in Sources \ n.since : m.found.hits[t] = PassagesOf(Sourced')[t]
      BY <2>2, <2>6, <3>1 DEF FoundPart, Fresh
    <3>3. m.outcome = "listed" => Foretells(Identity(q), m.found)
      BY <3>1 DEF FoundPart
    <3>4. n.outcome = "listed" => Foretells(Identity(q), mem[q].found)'
      BY <1>1, <2>2, <3>3, ForetoldStays
    <3>5. n.outcome = "found" =>
            /\ n.found.generation # None
            /\ n.found.hits = PassagesOf(mem[q].found.generation[2])'
            /\ ~n.overtaken => Fresh(mem[q].found.hits, mem[q].since)'
      BY <2>2, <3>1, <3>2 DEF FoundPart, Fresh, PassagesOf
    <3> QED BY <2>2, <3>1, <3>4, <3>5 DEF FoundPart
  <2> QED BY <2>3, <2>4, <2>5, <2>7, <2>8 DEF Parts
<1> QED BY <1>7, <1>8, <1>11, <1>12 DEF Inv

(* The generation is replaced. *)
LEMMA CommitKeeps == ASSUME Inv, NEW p \in Processes, Commit(p) PROVE Inv'
<1> DEFINE m == mem[p]
           search == [m EXCEPT !.pc = "search", !.read = None, !.tx = None]
           done == IF Kind(p) = "rebuild" THEN Over(m, "rebuilt") ELSE search
<1>1. /\ m.pc = "commit" /\ lock.shared = {}
      /\ db' = [schema |-> TRUE, generation |-> GenerationOf(Identity(p), m.walk),
                documents |-> m.tx.documents, passages |-> m.tx.passages]
      /\ lock' = Released(p)
      /\ mem' = [q \in Processes |->
                   IF q = p THEN done
                   ELSE IF mem[q].pc = "search" /\ m.since # {}
                   THEN [mem[q] EXCEPT !.overtaken = TRUE] ELSE mem[q]]
      /\ UNCHANGED <<setup, files, edits>>
  BY DEF Commit, MayCommit
<1>2. Parts(p, m) /\ StoreInv /\ lock.reserved = p
  BY <1>1 DEF Inv, LockInv
<1>3. TypePart(m) /\ WalkPart(m) /\ m.outcome = "none" /\ ChangePart(m)
  BY <1>1, <1>2 DEF Parts, FoundPart
<1>4. /\ m.tx \in Changes /\ m.todo = {} /\ m.listed = {}
      /\ \A s \in Sources :
           m.tx.documents[s] = m.walk[s] /\ m.tx.passages[s] = PassagesOf(m.walk)[s]
      /\ \A s \in Sources \ m.since : m.walk[s] = Doc(files[s])
  BY <1>1, <1>3 DEF ChangePart, WalkPart
<1>5. /\ m.tx.documents = m.walk /\ m.tx.passages = PassagesOf(m.walk)
      /\ m.walk \in Documents /\ m.tx.passages \in [Sources -> Cuts]
  BY <1>3, <1>4 DEF Changes, Documents, PassagesOf, TypePart
<1>6. /\ GenerationOf(Identity(p), m.walk) # None
      /\ GenerationOf(Identity(p), m.walk) \in Identities \X Documents
      /\ GenerationOf(Identity(p), m.walk)[2] = m.walk
  BY <1>5, PairIsNamed DEF GenerationOf
<1>7. /\ db' \in Database /\ db'.generation # None /\ db'.generation[2] = m.walk
      /\ db'.documents = m.walk /\ db'.passages = PassagesOf(m.walk)
  BY <1>1, <1>5, <1>6 DEF Database, Named
<1>8. GenerationNamesContents'
  BY <1>7 DEF GenerationNamesContents, PassagesOf
<1>9. mem' = [q \in Processes |-> mem'[q]]
  BY <1>1
<1>10. StoreInv'
  <2>1. db'.generation \in Generations'
    BY <1>1, <1>5 DEF Generations, GenerationOf, Identity
  <2> QED BY <1>1, <1>2, <1>7, <1>9, <2>1, ReleasedIs DEF StoreInv, Locks
<1>11. Fresh(db'.passages, m.since)
  <2> SUFFICES ASSUME NEW s \in Sources \ m.since
               PROVE  db'.passages[s] = PassagesOf(Sourced)[s]
    BY DEF Fresh
  <2>1. m.walk[s] = Doc(files[s])
    BY <1>4
  <2> QED BY <1>7, <2>1 DEF PassagesOf, Sourced
<1>12. /\ Sourced' = Sourced
       /\ \A passages, since : Fresh(passages, since)' <=> Fresh(passages', since')
  BY <1>1 DEF Sourced, Fresh, PassagesOf
<1>13. Parts(p, mem[p])' /\ mem'[p].pc \in {"over", "search"}
  <2>1. mem'[p] = done
    BY <1>1
  <2>2. CASE Kind(p) = "rebuild"
    <3> DEFINE n == Over(m, "rebuilt")
    <3>1. Parts(p, n) /\ n.pc = "over" /\ n.outcome = "rebuilt" /\ mem'[p] = n
      BY <1>3, <2>1, <2>2, OverParts DEF Outcomes
    <3> HIDE DEF n, done
    <3>2. TypePart(mem[p])'
      BY <3>1 DEF Parts, TypePart, Shaped
    <3>3. /\ WalkPart(mem[p])' /\ ReadPart(mem[p])' /\ ChangePart(mem[p])'
          /\ SearchPart(mem[p])'
      BY <3>1 DEF WalkPart, ReadPart, ChangePart, SearchPart
    <3>4. FoundPart(p, mem[p])'
      BY <3>1 DEF FoundPart
    <3> QED BY <3>1, <3>2, <3>3, <3>4 DEF Parts
  <2>3. CASE Kind(p) # "rebuild"
    <3>1. mem'[p] = search
      BY <2>1, <2>3
    <3> HIDE DEF m, done
    <3>2. Alike(search, m) /\ search.pc = "search" /\ search.todo = m.todo
      BY <1>3 DEF TypePart, Alike, Shaped, Fields
    <3> HIDE DEF search
    <3>3. TypePart(search) /\ WalkPart(search)
      BY <1>1, <1>3, <3>2, AlikeParts DEF TypePart, Pcs
    <3>4. TypePart(mem[p])'
      BY <3>1, <3>3 DEF TypePart, Shaped
    <3>5. WalkPart(mem[p])'
      BY <1>1, <3>1, <3>3 DEF WalkPart
    <3>6. ReadPart(mem[p])' /\ ChangePart(mem[p])' /\ FoundPart(p, mem[p])'
      BY <1>3, <3>1, <3>2 DEF ReadPart, ChangePart, FoundPart, Alike
    <3>7. SearchPart(mem[p])'
      BY <1>7, <1>11, <1>12, <3>1, <3>2 DEF SearchPart, Alike
    <3> QED BY <3>1, <3>2, <3>4, <3>5, <3>6, <3>7 DEF Parts
  <2> QED BY <2>2, <2>3
<1>14. ASSUME NEW q \in Processes \ {p}
       PROVE  LET k == mem[q] n == mem'[q] IN
              /\ TypePart(n) /\ n.pc = k.pc
              /\ n.outcome = k.outcome /\ n.listed = k.listed /\ n.todo = k.todo
              /\ n.walk = k.walk /\ n.read = k.read /\ n.tx = k.tx /\ n.found = k.found
              /\ n.since = k.since
              /\ k.pc # "search" => n = k
              /\ k.pc = "search" /\ ~n.overtaken => m.since = {}
  <2> DEFINE k == mem[q]
             n == [k EXCEPT !.overtaken = TRUE]
  <2>1. TypePart(k)
    BY DEF Inv, Parts
  <2>2. mem'[q] = IF k.pc = "search" /\ m.since # {} THEN n ELSE k
    BY <1>1
  <2> HIDE DEF k, m
  <2>3. /\ Shaped(n) /\ n.pc = k.pc /\ n.ended = k.ended /\ n.held = k.held
        /\ n.changed = k.changed /\ n.overtaken \in BOOLEAN /\ n.overtaken /\ n.rewalks = k.rewalks
        /\ n.outcome = k.outcome /\ n.listed = k.listed /\ n.todo = k.todo
        /\ n.walk = k.walk /\ n.read = k.read /\ n.tx = k.tx /\ n.found = k.found
        /\ n.since = k.since
    BY <2>1 DEF TypePart, Shaped, Fields
  <2> HIDE DEF n
  <2>4. TypePart(n)
    BY <2>1, <2>3 DEF TypePart
  <2>5. CASE k.pc = "search" /\ m.since # {}
    BY <2>2, <2>3, <2>4, <2>5 DEF k
  <2>6. CASE ~(k.pc = "search" /\ m.since # {})
    BY <2>1, <2>2, <2>6 DEF k
  <2> QED BY <2>5, <2>6
<1>15. ASSUME NEW q \in Processes \ {p} PROVE Parts(q, mem[q])' /\ mem'[q].pc = mem[q].pc
  <2> DEFINE k == mem[q]
             n == mem'[q]
  <2>1. Parts(q, k)
    BY DEF Inv
  <2>2. k.pc \notin {"apply", "commit", "documents", "hits"}
    BY <1>1, <1>2 DEF Inv, LockInv
  <2>3. /\ TypePart(n) /\ n.pc = k.pc
        /\ n.outcome = k.outcome /\ n.listed = k.listed /\ n.todo = k.todo
        /\ n.walk = k.walk /\ n.read = k.read /\ n.tx = k.tx /\ n.found = k.found
        /\ n.since = k.since
        /\ k.pc # "search" => n = k
        /\ k.pc = "search" /\ ~n.overtaken => m.since = {}
    BY <1>14
  <2>4. TypePart(mem[q])'
    BY <2>3 DEF TypePart, Shaped
  <2>5. WalkPart(mem[q])'
    BY <1>1, <2>1, <2>3 DEF Parts, WalkPart
  <2>6. ReadPart(mem[q])' /\ ChangePart(mem[q])'
    BY <2>1, <2>2, <2>3 DEF Parts, ReadPart, ChangePart
  <2>7. SearchPart(mem[q])'
    <3>1. m.since = {} => Fresh(db'.passages, n.since)
      BY <1>11 DEF Fresh
    <3> QED BY <1>7, <1>12, <2>2, <2>3, <3>1 DEF SearchPart
  <2>8. FoundPart(q, mem[q])'
    <3>1. FoundPart(q, k)
      BY <2>1 DEF Parts
    <3>2. CASE k.pc = "search"
      BY <2>3, <3>1, <3>2 DEF FoundPart
    <3>3. CASE k.pc # "search"
      <4>1. k.outcome = "listed" => Foretells(Identity(q), mem[q].found)'
        BY <1>1, <2>3, <3>1, ForetoldStays DEF FoundPart
      <4> QED BY <1>1, <1>12, <2>3, <3>1, <3>3, <4>1 DEF FoundPart, PassagesOf
    <3> QED BY <3>2, <3>3
  <2> QED BY <2>3, <2>4, <2>5, <2>6, <2>7, <2>8 DEF Parts
<1>16. LockInv'
  <2>1. \A q \in Processes \ {p} : /\ lock.reserved = q => Released(p).reserved = q
                                   /\ q \in lock.shared => q \in Released(p).shared
    BY ReleasedIs
  <2> QED BY <1>1, <1>13, <1>15, <2>1 DEF Inv, LockInv
<1> QED BY <1>8, <1>10, <1>13, <1>15, <1>16 DEF Inv

-----------------------------------------------------------------------------
LEMMA InitInv == Init => Inv
<1> SUFFICES ASSUME Init PROVE Inv
  OBVIOUS
<1>1. StoreInv
  BY IndexAssumption DEF Init, StoreInv, IndexAssumption, Database, Named, Documents, Empty, Cuts,
     Generations
<1>2. GenerationNamesContents
  BY DEF Init, GenerationNamesContents
<1>3. TypePart(Blank) /\ Blank.pc = "idle" /\ Blank.outcome = "none"
  BY DEF TypePart, Shaped, Fields, Blank, Pcs, Ends, Outcomes, Empty, Documents
<1>4. \A p \in Processes : mem[p] = Blank
  BY DEF Init
<1>5. WalkPart(Blank)
  BY <1>3 DEF WalkPart
<1>6. \A p \in Processes : Parts(p, mem[p])
  BY <1>3, <1>4, <1>5, PlainParts
<1>7. LockInv
  BY <1>3, <1>4 DEF LockInv
<1> QED BY <1>1, <1>2, <1>6, <1>7 DEF Inv

LEMMA NextInv == ASSUME Inv, [Next]_vars PROVE Inv'
<1>1. CASE UNCHANGED vars
  <2> USE <1>1 DEF vars
  <2>1. StoreInv' /\ GenerationNamesContents' /\ LockInv'
    BY DEF Inv, StoreInv, GenerationNamesContents, PassagesOf, LockInv, Generations, Identity
  <2>2. ASSUME NEW q \in Processes PROVE Parts(q, mem[q])'
    <3>1. Parts(q, mem[q]) /\ Sourced' = Sourced
      BY DEF Inv, Sourced
    <3>2. TypePart(mem[q])' /\ WalkPart(mem[q])' /\ ReadPart(mem[q])' /\ ChangePart(mem[q])'
      BY <3>1 DEF Parts, TypePart, Shaped, WalkPart, ReadPart, ChangePart, PassagesOf
    <3>3. SearchPart(mem[q])' /\ FoundPart(q, mem[q])'
      BY <3>1 DEF Parts, SearchPart, FoundPart, Fresh, PassagesOf, Foretells, Removes, Adds,
         Identity
    <3> QED BY <3>2, <3>3 DEF Parts
  <2> QED BY <2>1, <2>2 DEF Inv
<1>2. CASE Edit
  BY <1>2, EditKeeps
<1>3. ASSUME NEW p \in Processes, Step(p) PROVE Inv'
  BY <1>3, WalkFileKeeps, OpenKeeps, ReadGenerationKeeps, ReadDocumentsKeeps, BeginKeeps,
     ApplyKeeps, SettleKeeps, CommitKeeps, CommitGivesUpKeeps, SearchGenerationKeeps,
     SearchHitsKeeps, GivesUpKeeps, Zenon DEF Step
<1> QED BY <1>1, <1>2, <1>3, StartKeeps, BusyKeeps, ContextEndsKeeps, DieKeeps, Zenon DEF Next

(* The inductive invariant: the store, its locks, and what each process has read,
   changed and found. *)
THEOREM Invariance == Spec => []Inv
  BY InitInv, NextInv, PTL DEF Spec

-----------------------------------------------------------------------------
(* Every variable has its type. *)
THEOREM TypeCorrect == Spec => []TypeOK
<1>1. ASSUME Inv PROVE TypeOK
  <2>1. /\ setup \in Setups /\ files \in [Sources -> Contents \cup {None, TooLarge, NotText}]
        /\ edits \in 0..MaxEdits /\ db \in Database /\ db.generation \in Generations
        /\ lock \in [shared : SUBSET Processes, reserved : Processes \cup {None},
                     pending : BOOLEAN]
    BY <1>1 DEF Inv, StoreInv
  <2>2. \A p \in Processes : TypePart(mem[p])
    BY <1>1 DEF Inv, Parts
  <2> QED BY <2>1, <2>2 DEF TypeOK, TypePart, Ends, Outcomes, Database
<1> QED BY <1>1, Invariance, PTL

(* commit and contentOf: the identifier a generation is committed under names the
   documents the index holds, and their passages are cut from those contents,
   however the files changed between the walk and the transaction. *)
THEOREM GenerationIsItsContents == Spec => []GenerationNamesContents
<1>1. Inv => GenerationNamesContents
  BY DEF Inv
<1> QED BY <1>1, Invariance, PTL

(* search and Compare: what a search or a listing reads is of one generation,
   whatever commits between its two reads, and a listing says what an update
   would do. *)
THEOREM ReadsAreOfOneGeneration == Spec => []ReadsAreWhole
<1>1. ASSUME Inv PROVE ReadsAreWhole
  <2>1. \A p \in Processes : FoundPart(p, mem[p])
    BY <1>1 DEF Inv, Parts
  <2>2. SearchSeesOneGeneration
    BY <2>1 DEF FoundPart, SearchSeesOneGeneration
  <2>3. ListingForetells
    BY <2>1 DEF FoundPart, ListingForetells, Foretells
  <2> QED BY <2>2, <2>3 DEF ReadsAreWhole
<1> QED BY <1>1, Invariance, PTL

(* search in retrieve.go: a search finds every source as it stands, of those that
   have not changed since its own walk, unless an update that walked before a
   change commits between its update and its search. *)
THEOREM SearchIsFresh == Spec => []FreshSearch
<1>1. ASSUME Inv PROVE FreshSearch
  <2>1. \A p \in Processes : FoundPart(p, mem[p])
    BY <1>1 DEF Inv, Parts
  <2> QED BY <2>1 DEF FoundPart, FreshSearch, Fresh
<1> QED BY <1>1, Invariance, PTL
=============================================================================

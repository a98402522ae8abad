------------------------------- MODULE Index --------------------------------
(***************************************************************************)
(* One collection's index and the processes that use it: retrievals, which  *)
(* bring it up to date with its sources and search it under a deadline,     *)
(* `gronin collections rebuild`, which has none, and `gronin collections    *)
(* list`.  The sources change while they are walked and indexed, a process  *)
(* may die between any two steps, and the index is an SQLite database with  *)
(* a rollback journal, whose locks are the only thing between processes.    *)
(*                                                                         *)
(* Source: runtime/internal/index (index.go, walk.go, lexical.go,          *)
(* reports.go), search in stage/retrieve/retrieve.go, SourceWalk in        *)
(* stage/retrieve/reports.go, inspect and rebuild in                       *)
(* cmd/gronin/collections_cmd.go.                                          *)
(*                                                                         *)
(* A digest is the content it is taken of, and a generation's identifier    *)
(* the pair it is derived from: no two contents share a digest.             *)
(***************************************************************************)
EXTENDS Integers, FiniteSets

CONSTANTS
    None,         \* nothing: no document, no generation, no process
    Sources,      \* the names a document may have
    Contents,     \* what a document may hold
    TooLarge,     \* a file past MaxDocumentBytes
    NotText,      \* a file that is not text
    Processes,
    Setups,       \* the instances explored: [reports, kind, identity, files, becomes]
    Cut(_),       \* the walk's passages: what TextPassages or ReportPassages makes of a content
    MaxEdits,     \* bound: how often a source changes
    maxRewalks    \* how often an update with no deadline walks again

ASSUME IndexAssumption ==
    /\ Sources # {}
    /\ None \notin Contents \cup {TooLarge, NotText} \cup Processes
    /\ {TooLarge, NotText} \cap Contents = {}
    /\ \A s \in Setups : /\ s.reports \in BOOLEAN
                         /\ s.kind \in [Processes -> {"retrieve", "rebuild", "list", "none"}]
                         /\ DOMAIN s.identity = Processes
                         /\ s.files \in [Sources -> Contents \cup {None}]
                         /\ s.becomes \subseteq Contents \cup {None, TooLarge, NotText}
                         /\ s.reports => s.becomes \subseteq Contents
                         /\ \A p \in Processes, d \in [Sources -> Contents \cup {None}] :
                              <<s.identity[p], d>> # None
    /\ MaxEdits \in Nat /\ maxRewalks \in Nat \ {0}

VARIABLES
    setup,   \* whether the source is recorded reports, what each process is, the
             \* configuration identity it has, and what a source may become
    files,   \* the sources: None is no such file
    edits,   \* how many times they changed
    db,      \* the database as last committed
    lock,    \* SQLite's locks on it
    mem      \* each process's memory

vars == <<setup, files, edits, db, lock, mem>>

Empty == [s \in Sources |-> None]

(* What a walk reads of a file: one that is too large or not text is skipped. *)
Doc(file) == IF file \in Contents THEN file ELSE None

(* The documents the sources hold now. *)
Sourced == [s \in Sources |-> Doc(files[s])]

Present(documents) == {s \in Sources : documents[s] # None}

GenerationOf(identity, documents) == <<identity, documents>>

(* The passages the index holds of each of these documents. *)
PassagesOf(documents) == [s \in Sources |-> IF documents[s] = None THEN None ELSE Cut(documents[s])]

Blank ==
    [pc |-> "idle", ended |-> "no", held |-> FALSE, listed |-> {}, walk |-> Empty,
     read |-> None, tx |-> None, todo |-> {}, changed |-> FALSE, rewalks |-> 0,
     outcome |-> "none", found |-> None, since |-> {}, overtaken |-> FALSE]

Init ==
    /\ setup \in Setups
    /\ files = setup.files
    /\ edits = 0
    /\ db = [schema |-> FALSE, generation |-> None, documents |-> Empty, passages |-> Empty]
    /\ lock = [shared |-> {}, reserved |-> None, pending |-> FALSE]
    /\ mem = [p \in Processes |-> Blank]

Kind(p) == setup.kind[p]
Identity(p) == setup.identity[p]
Active(p) == mem[p].pc \notin {"idle", "over"}
Going(p, pc) == mem[p].pc = pc /\ mem[p].ended = "no"
First(set) == CHOOSE s \in set : TRUE    \* the walk and the change keep one order
Set(p, m) == mem' = [mem EXCEPT ![p] = m]

(* Fault variant: a read transaction is left open. *)
ReleasedButReads(p) ==
    [shared |-> lock.shared,
     reserved |-> IF lock.reserved = p THEN None ELSE lock.reserved,
     pending |-> lock.pending /\ lock.reserved # p]

(* The locks p lets go of when its transaction ends, however it ends. *)
Released(p) ==
    [shared |-> lock.shared \ {p},
     reserved |-> IF lock.reserved = p THEN None ELSE lock.reserved,
     pending |-> lock.pending /\ lock.reserved # p]

(* How p ends: what a search found is kept, and the rest of its memory is gone. *)
Over(m, outcome) ==
    [Blank EXCEPT !.pc = "over", !.outcome = outcome, !.found = m.found,
                  !.since = m.since, !.overtaken = m.overtaken]

(* fail: the file that kept changing is named with the context's end. *)
Failed(m, outcome) == Over(m, IF m.changed /\ m.ended # "no" /\ outcome # "held" THEN "changed" ELSE outcome)

-----------------------------------------------------------------------------
(* A source changes.  A recorded report never does: another is recorded. *)
Edit ==
    \E s \in Sources, c \in setup.becomes :
        /\ edits < MaxEdits /\ c # files[s]
        /\ setup.reports => files[s] = None
        /\ files' = [files EXCEPT ![s] = c]
        /\ edits' = edits + 1
        /\ mem' = [p \in Processes |-> IF mem[p].pc = "idle" THEN mem[p]
                                       ELSE [mem[p] EXCEPT !.since = @ \cup {s}]]
        /\ UNCHANGED <<setup, db, lock>>

(* Where a walk goes on to once it has read every file. *)
AfterWalk(p, m) ==
    IF m.rewalks > 0 \/ Kind(p) = "list" THEN "read" ELSE "open"

(* WalkDirectory begins by listing the directory. *)
WalkDirectory(m) == [m EXCEPT !.pc = "walk", !.since = {}, !.walk = Empty, !.listed = Present(files)]

(* ReportsWalk fetches every report, and holds its content. *)
ReportsWalk(p, m) == [m EXCEPT !.pc = AfterWalk(p, m), !.since = {}, !.walk = Sourced]

SourceWalk(p, m) == IF setup.reports THEN ReportsWalk(p, m) ELSE WalkDirectory(m)

(* A retrieval reaches the index, or the operator asks for a listing or a rebuild. *)
Start(p) ==
    /\ mem[p].pc = "idle" /\ Kind(p) # "none"
    /\ Set(p, SourceWalk(p, Blank))
    /\ UNCHANGED <<setup, files, edits, db, lock>>

(* One file of the walk is read.  One that is gone since it was listed fails the   *)
(* walk, and so may one that has become no document since: it grew past the bound,  *)
(* or became a link, between the look at it and the read.                           *)
WalkFile(p) ==
    LET m == mem[p] s == First(m.listed) IN
    /\ Going(p, "walk")
    /\ \/ /\ m.listed = {}
          /\ Set(p, [m EXCEPT !.pc = AfterWalk(p, m)])
       \/ /\ m.listed # {} /\ (files[s] = None \/ (s \in m.since /\ Doc(files[s]) = None))
          /\ Set(p, Failed(m, "refused"))
       \/ /\ m.listed # {} /\ files[s] # None
          /\ Set(p, [m EXCEPT !.listed = @ \ {s}, !.walk[s] = Doc(files[s])])
    /\ UNCHANGED <<setup, files, edits, db, lock>>

-----------------------------------------------------------------------------
(* SQLite: a reader is refused while a writer waits at COMMIT, a writer while   *)
(* there is another, and a COMMIT waits for the readers there are.              *)
MayRead == ~lock.pending
MayWrite == lock.reserved = None
MayCommit == lock.shared = {}

(* Open: a first open writes the schema.  Its statements commit one by one, each    *)
(* creates only what is not there, and every open runs them all before it reads:     *)
(* they are one step here.  A listing, which opens without them, that lands between   *)
(* two of them ends with an error and reads nothing: that listing is left out.        *)
Open(p) ==
    /\ Going(p, "open")
    /\ MayRead /\ (db.schema \/ (MayWrite /\ MayCommit))
    /\ db' = [db EXCEPT !.schema = TRUE]
    /\ Set(p, [mem[p] EXCEPT !.pc = "read", !.held = FALSE])
    /\ UNCHANGED <<setup, files, edits, lock>>

(* readStored: the generation, and later the documents, in one transaction. *)
ReadGeneration(p) ==
    /\ Going(p, "read") /\ MayRead
    /\ Set(p, [mem[p] EXCEPT !.pc = "documents", !.held = FALSE,
                             !.read = [generation |-> db.generation, documents |-> Empty]])
    /\ lock' = [lock EXCEPT !.shared = @ \cup {p}]
    /\ UNCHANGED <<setup, files, edits, db>>

(* Fault variant: a file that is gone stays indexed. *)
RemovesNothingGone(identity, read, walk, rebuild) ==
    IF rebuild \/ read.generation = None \/ read.generation[1] # identity THEN Sources
    ELSE {s \in Present(walk) : read.documents[s] # walk[s]}

(* difference: what an update removes, and what it adds. *)
Removes(identity, read, walk, rebuild) ==
    IF rebuild \/ read.generation = None \/ read.generation[1] # identity THEN Sources
    ELSE {s \in Sources : read.documents[s] # walk[s]}

(* Fault variant: a document that changed is not indexed again. *)
AddsNewOnly(identity, read, walk, rebuild) ==
    {s \in Present(walk) : read.documents[s] = None}

Adds(identity, read, walk, rebuild) ==
    Present(walk) \cap Removes(identity, read, walk, rebuild)

(* Fault variant: a listing compares with what another identity stored. *)
CompareAnyIdentity(identity, read, walk) ==
    [changed |-> read.generation # GenerationOf(identity, walk),
     added |-> {s \in Present(walk) : read.documents[s] = None},
     modified |-> {s \in Present(walk) : read.documents[s] \notin {None, walk[s]}},
     removed |-> {s \in Present(read.documents) : walk[s] = None}]

(* Compare: what a listing shows of a walk against what the index holds. *)
Compare(identity, read, walk) ==
    LET same == read.generation # None /\ read.generation[1] = identity
        holds(s) == IF same THEN read.documents[s] ELSE None
    IN [changed |-> read.generation # GenerationOf(identity, walk),
        added |-> {s \in Present(walk) : holds(s) = None},
        modified |-> {s \in Present(walk) : holds(s) \notin {None, walk[s]}},
        removed |-> {s \in Present(read.documents) : ~same \/ walk[s] = None}]

(* The read ends, and with it the transaction.  A listing compares; an update   *)
(* whose target is the generation it read has nothing to do.                    *)
ReadDocuments(p) ==
    LET m == [mem[p] EXCEPT !.read.documents = db.documents]
        target == GenerationOf(Identity(p), m.walk)
    IN /\ Going(p, "documents")
       /\ lock' = Released(p)
       /\ Set(p, IF Kind(p) = "list"
                 THEN Over([m EXCEPT !.found = [walk |-> m.walk, read |-> m.read,
                                shows |-> Compare(Identity(p), m.read, m.walk)]], "listed")
                 ELSE IF Kind(p) = "retrieve" /\ m.read.generation = target
                 THEN [m EXCEPT !.pc = "search", !.read = None]
                 ELSE [m EXCEPT !.pc = "begin"])
       /\ UNCHANGED <<setup, files, edits, db>>

(* commit begins its transaction: a generation that is no longer the one read    *)
(* sends the update back to read again, with the walk it has; else what it       *)
(* removes goes first.                                                           *)
Begin(p) ==
    LET m == mem[p]
        rebuild == Kind(p) = "rebuild"
        removes == Removes(Identity(p), m.read, m.walk, rebuild)
        without(f) == [s \in Sources |-> IF s \in removes THEN None ELSE f[s]]
    IN /\ Going(p, "begin") /\ MayRead /\ MayWrite
       /\ IF db.generation # m.read.generation
          THEN /\ Set(p, [m EXCEPT !.pc = "read", !.held = FALSE, !.read = None])
               /\ UNCHANGED lock
          ELSE /\ Set(p, [m EXCEPT !.pc = "apply", !.held = FALSE,
                            !.todo = Adds(Identity(p), m.read, m.walk, rebuild),
                            !.tx = [documents |-> without(db.documents),
                                    passages |-> without(db.passages)]])
               /\ lock' = [lock EXCEPT !.reserved = p]
       /\ UNCHANGED <<setup, files, edits, db>>

(* contentOf: the file as it is now; a report is in hand from the walk. *)
contentOf(p, s) == IF setup.reports THEN mem[p].walk[s] ELSE files[s]

(* apply: one document is read again and indexed.  A file that is gone or too    *)
(* large fails the update; one whose digest is not the walk's rolls it back, to  *)
(* walk again, or to give up where no deadline would end it.                     *)
Apply(p) ==
    LET m == mem[p] s == First(m.todo) content == contentOf(p, s)
        again == [m EXCEPT !.changed = TRUE, !.rewalks = @ + 1, !.read = None, !.tx = None, !.todo = {}]
    IN /\ Going(p, "apply") /\ m.todo # {}
       /\ \/ /\ content = m.walk[s]
             /\ Set(p, [m EXCEPT !.todo = @ \ {s}, !.tx.documents[s] = m.walk[s],
                                 !.tx.passages[s] = Cut(content)])
             /\ UNCHANGED lock
          \/ /\ content # m.walk[s]
             /\ lock' = Released(p)
             /\ Set(p, IF content \in {None, TooLarge} THEN Failed(m, "refused")
                       ELSE IF Kind(p) = "rebuild" /\ again.rewalks >= maxRewalks THEN Over(m, "changed")
                       ELSE SourceWalk(p, again))
       /\ UNCHANGED <<setup, files, edits, db>>

(* Every document was read unchanged; COMMIT bars new readers and waits. *)
Settle(p) ==
    /\ Going(p, "apply") /\ mem[p].todo = {}
    /\ Set(p, [mem[p] EXCEPT !.pc = "commit", !.changed = FALSE])
    /\ lock' = [lock EXCEPT !.pending = TRUE]
    /\ UNCHANGED <<setup, files, edits, db>>

(* The generation is replaced whole.  The commit goes through even as the        *)
(* context ends; what it overtakes is only recorded for the properties.          *)
Commit(p) ==
    LET m == mem[p]
        done == IF Kind(p) = "rebuild" THEN Over(m, "rebuilt")
                ELSE [m EXCEPT !.pc = "search", !.read = None, !.tx = None]
    IN /\ m.pc = "commit" /\ MayCommit
       /\ db' = [schema |-> TRUE, generation |-> GenerationOf(Identity(p), m.walk),
                 documents |-> m.tx.documents, passages |-> m.tx.passages]
       /\ lock' = Released(p)
       /\ mem' = [q \in Processes |->
                    IF q = p THEN done
                    ELSE IF mem[q].pc = "search" /\ m.since # {}
                    THEN [mem[q] EXCEPT !.overtaken = TRUE] ELSE mem[q]]
       /\ UNCHANGED <<setup, files, edits>>

(* A reader outlasted the bound: the old generation stays. *)
CommitGivesUp(p) ==
    /\ mem[p].pc = "commit" /\ mem[p].ended = "deadline" /\ ~MayCommit
    /\ Set(p, Failed(mem[p], "refused"))
    /\ lock' = Released(p)
    /\ UNCHANGED <<setup, files, edits, db>>

(* Fault variant: the two reads are not one transaction. *)
SearchGenerationUnlocked(p) ==
    /\ Going(p, "search") /\ MayRead
    /\ Set(p, [mem[p] EXCEPT !.pc = "hits", !.held = FALSE,
                             !.found = [generation |-> db.generation, hits |-> Empty]])
    /\ UNCHANGED <<setup, files, edits, db, lock>>

(* search: the generation, and then the passages that match, in one transaction. *)
SearchGeneration(p) ==
    /\ Going(p, "search") /\ MayRead
    /\ Set(p, [mem[p] EXCEPT !.pc = "hits", !.held = FALSE,
                             !.found = [generation |-> db.generation, hits |-> Empty]])
    /\ lock' = [lock EXCEPT !.shared = @ \cup {p}]
    /\ UNCHANGED <<setup, files, edits, db>>

SearchHits(p) ==
    /\ Going(p, "hits")
    /\ Set(p, Over([mem[p] EXCEPT !.found.hits = db.passages], "found"))
    /\ lock' = Released(p)
    /\ UNCHANGED <<setup, files, edits, db>>

-----------------------------------------------------------------------------
(* retryBusy: an operation found the index held, and is tried again. *)
Busy(p) ==
    LET m == mem[p] IN
    /\ m.ended = "no" /\ ~m.held
    /\ \/ m.pc = "open" /\ ~(MayRead /\ (db.schema \/ (MayWrite /\ MayCommit)))
       \/ m.pc \in {"read", "search"} /\ ~MayRead
       \/ m.pc = "begin" /\ ~(MayRead /\ MayWrite)
    /\ Set(p, [m EXCEPT !.held = TRUE])
    /\ UNCHANGED <<setup, files, edits, db, lock>>

(* The context ends: a retrieval's bound, a listing's once it waits for the      *)
(* index, or the operator's interrupt of a rebuild.                              *)
ContextEnds(p) ==
    /\ Active(p) /\ mem[p].ended = "no"
    /\ Kind(p) = "list" => mem[p].pc \in {"read", "documents"}
    /\ Set(p, [mem[p] EXCEPT !.ended = IF Kind(p) = "rebuild" THEN "cancelled" ELSE "deadline"])
    /\ UNCHANGED <<setup, files, edits, db, lock>>

(* Whatever p asks next fails.  The index was held only when a deadline ended a  *)
(* wait for a transaction that never began.                                      *)
GivesUp(p) ==
    LET m == mem[p] IN
    /\ Active(p) /\ m.ended # "no" /\ m.pc # "commit"
    /\ Set(p, Failed([m EXCEPT !.found = None],
                     IF m.held /\ m.ended = "deadline" /\ m.pc \in {"read", "begin", "search"}
                     THEN "held" ELSE "refused"))
    /\ lock' = Released(p)
    /\ UNCHANGED <<setup, files, edits, db>>

(* The process dies: the journal takes back what it had not committed. *)
Die(p) ==
    /\ Active(p)
    /\ Set(p, Over([mem[p] EXCEPT !.found = None], "died"))
    /\ lock' = Released(p)
    /\ UNCHANGED <<setup, files, edits, db>>

Step(p) ==
    \/ WalkFile(p) \/ Open(p) \/ ReadGeneration(p) \/ ReadDocuments(p) \/ Begin(p)
    \/ Apply(p) \/ Settle(p) \/ Commit(p) \/ CommitGivesUp(p)
    \/ SearchGeneration(p) \/ SearchHits(p) \/ GivesUp(p)

Next ==
    \/ Edit
    \/ \E p \in Processes : Start(p) \/ Step(p) \/ Busy(p) \/ ContextEnds(p) \/ Die(p)

Spec == Init /\ [][Next]_vars

(* A process that can go on does: SQLite's locks are let go of in finite time,   *)
(* and an operation that found them taken is tried again every 20 ms.            *)
FairSpec == Spec /\ \A p \in Processes : WF_vars(Step(p))

-----------------------------------------------------------------------------
Pcs == {"idle", "walk", "open", "read", "documents", "begin", "apply", "commit", "search", "hits", "over"}
Documents == [Sources -> Contents \cup {None}]
Generations == {None} \cup ({Identity(p) : p \in Processes} \X Documents)
Cuts == {None} \cup {Cut(c) : c \in Contents}

TypeOK ==
    /\ setup \in Setups
    /\ files \in [Sources -> Contents \cup {None, TooLarge, NotText}]
    /\ edits \in 0..MaxEdits
    /\ db.schema \in BOOLEAN /\ db.generation \in Generations
    /\ db.documents \in Documents /\ db.passages \in [Sources -> Cuts]
    /\ lock \in [shared : SUBSET Processes, reserved : Processes \cup {None}, pending : BOOLEAN]
    /\ \A p \in Processes : LET m == mem[p] IN
        /\ m.pc \in Pcs /\ m.ended \in {"no", "deadline", "cancelled"}
        /\ m.held \in BOOLEAN /\ m.changed \in BOOLEAN /\ m.overtaken \in BOOLEAN
        /\ m.listed \subseteq Sources /\ m.todo \subseteq Sources /\ m.since \subseteq Sources
        /\ m.walk \in Documents /\ m.rewalks \in Nat
        /\ m.outcome \in {"none", "found", "listed", "rebuilt", "held", "changed", "refused", "died"}

(* A committed generation's identifier names the documents the index holds, and  *)
(* their passages are cut from the contents those digests were taken of, however *)
(* the files changed between the walk and the transaction (commit, contentOf).   *)
GenerationNamesContents ==
    db.generation # None =>
        /\ db.documents = db.generation[2]
        /\ db.passages = PassagesOf(db.documents)

(* What a search returns is of the one generation it names, whatever commits     *)
(* between its two reads (search in lexical.go, FR-219).                         *)
SearchSeesOneGeneration ==
    \A p \in Processes : mem[p].outcome = "found" =>
        /\ mem[p].found.generation # None
        /\ mem[p].found.hits = PassagesOf(mem[p].found.generation[2])

(* A search finds every source as it stands, of those that have not changed      *)
(* since its own walk, when nothing that walked before a change commits between  *)
(* its update and its search (search in retrieve.go, FR-217).                    *)
FreshSearch ==
    \A p \in Processes : (mem[p].outcome = "found" /\ ~mem[p].overtaken) =>
        \A s \in Sources \ mem[p].since : mem[p].found.hits[s] = PassagesOf(Sourced)[s]

(* What a retrieval searches is the result of its own update: FreshSearch        *)
(* whatever other updates commit meanwhile.                                      *)
SearchesTheResult ==
    \A p \in Processes : mem[p].outcome = "found" =>
        \A s \in Sources \ mem[p].since : mem[p].found.hits[s] = PassagesOf(Sourced)[s]

(* A listing says what an update from the same walk would do: it says nothing    *)
(* changed exactly when the update would return the generation it read, and      *)
(* names the documents the update would index (Compare and difference).          *)
ListingForetells ==
    \A p \in Processes : mem[p].outcome = "listed" =>
        LET of == mem[p].found
            removes == Removes(Identity(p), of.read, of.walk, FALSE)
        IN /\ of.shows.added \cup of.shows.modified = Adds(Identity(p), of.read, of.walk, FALSE)
           /\ of.shows.removed \cup of.shows.modified = Present(of.read.documents) \cap removes
           /\ of.shows.changed <=> removes # {}

(* What a process learns of the index, by a search or by a listing, is true of    *)
(* one generation.                                                               *)
ReadsAreWhole == SearchSeesOneGeneration /\ ListingForetells

(* Whoever starts ends: no update waits for a reader that waits for it, and a    *)
(* file that keeps changing holds neither (write, retryBusy, commit).            *)
EveryUseEnds == \A p \in Processes : mem[p].pc # "idle" ~> mem[p].pc = "over"

=============================================================================

------------------------------- MODULE MCRuns -------------------------------
(* Small instances of Runs. *)
EXTENDS Runs, TLC

(* A run that met trouble: a write that failed, a signal, a lost claim, a death. *)
Troubled(r) ==
    \/ mem[r].cancelled \/ mem[r].stopped
    \/ "incomplete" \in mem[r].says \cup row[r].says
    \/ row[r].status \in {"interrupted", "claim_lost"}
    \/ row[r].status \in {"none", "running"} /\ mem[r].pc = "over"

(* Of two runs at most one does, as often as it may; a third, the replay or the
   resume of one that may itself be a replay or a resume, comes after two that
   met none, meets none, and finds the files as they were. *)
Explored ==
    LET started  == {r \in Ids : mem[r].pc # "idle"}
        troubled == {r \in Ids : Troubled(r)}
    IN IF Cardinality(started) <= 2
       THEN Cardinality(troubled) <= 1
       ELSE troubled = {} /\ file.book = 1 /\ file.prompt = 1

Symmetric == Permutations(Ids)
=============================================================================

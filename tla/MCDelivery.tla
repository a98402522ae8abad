---------------------------- MODULE MCDelivery -----------------------------
(* Instances of Delivery for TLC. *)
EXTENDS Delivery, TLC

(* Every process has every playbook bound to the source. *)
AllBound == [x \in Processes |-> Playbooks]

(* A chain of retries over three requests and as many processes, while the clock
   stands still, the store takes every write and nobody has been answered, which
   changes nothing else; or two requests, one death and one decision on record,
   with all of these. *)
Explored ==
    \/ /\ now = 0 /\ failures = 0
       /\ \A r \in Requests : at[r] = 0 /\ answer[r] = "none"
    \/ /\ Cardinality({r \in Requests : pc[r] # "idle"}) <= 2
       /\ Cardinality(Processes \ alive) <= 1
       /\ Cardinality(runs \cup refusals \cup waits) <= 1

Symmetric == Permutations(Requests) \cup Permutations(Processes) \cup Permutations(Playbooks)
=============================================================================

----------------------------- MODULE MCWaiting -----------------------------
(* Instances of Waiting for TLC: one playbook, which every process asks for. *)
EXTENDS Waiting, TLC

CONSTANTS drift,    \* the playbook
          p1, p2,   \* the processes
          r1        \* the reconciler

OneBook == [p \in Processes |-> drift]

(* The processes start in one order, and the playbook is edited where no fault,
   no other reconciler and no expiry is about: what those do to an edited
   playbook is in the theorems. *)
Explored ==
    /\ pc[p2] # "idle" => pc[p1] # "idle"
    /\ version[drift] > 0 => /\ faults = 0 /\ step[r1] = "off"
                             /\ \A p \in Processes : ~expired[p]
=============================================================================

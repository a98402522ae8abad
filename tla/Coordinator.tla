---------------------------- MODULE Coordinator ----------------------------
(***************************************************************************)
(* What a coordinator promises the guard, whichever backend it is over:    *)
(* one playbook name, whose claim one call has at a time, and whose last   *)
(* tick moves forward with the very step that takes the claim.             *)
(*                                                                         *)
(* Source: the Coordinator interface of runtime/internal/guard/            *)
(* coordinator.go.  EtcdCoordinator and FileLock are shown to implement    *)
(* it.                                                                     *)
(***************************************************************************)
EXTENDS Integers

CONSTANTS
    Calls,      \* the Acquire calls
    DueAt,      \* the tick of each call: 0 for any trigger but a scheduled one
    None

VARIABLES
    holder,     \* the call that has the claim, or None
    last        \* the last tick taken, 0 for none

Init == holder = None /\ last = 0

(* Acquire succeeds: the claim and the tick, together. *)
Take(c) ==
    /\ holder = None
    /\ holder' = c
    /\ IF DueAt[c] = 0
       THEN last' = last
       ELSE last < DueAt[c] /\ last' = DueAt[c]

(* Release, expiry or the death of the holder. *)
Free ==
    /\ holder # None
    /\ holder' = None
    /\ last' = last

Next == Free \/ \E c \in Calls : Take(c)

Spec == Init /\ [][Next]_<<holder, last>>
=============================================================================

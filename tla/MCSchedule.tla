----------------------------- MODULE MCSchedule -----------------------------
(* Small instances of Schedule: a frequent playbook, a rare one, and one whose
   expression has no occurrence. *)
EXTENDS Schedule, TLC

CONSTANTS a, b, never

TwoSchedules == a :> {1, 2, 3, 4} @@ b :> {3}
WithNever    == a :> {1, 2} @@ never :> {}
=============================================================================

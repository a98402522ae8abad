------------------------------ MODULE MCClaims ------------------------------
(* Claims for TLC.  The two coordinators and the holder share no variable, so
   one configuration checks them side by side: a behaviour is of etcd, of the
   file lock or of one holder, and leaves the other two where they start. *)
EXTENDS EtcdCoordinator, FileLock, Hold, TLC

CONSTANTS a, b, m, n,      \* etcd: two hosts fire the same tick, a third call
                           \*   is the next one, a fourth a manual trigger
          fa, fb, fd, fm   \* the file lock: the first tick, the second from two
                           \*   processes, and a manual trigger

VARIABLE part

EtcdTicks == (a :> 1) @@ (b :> 1) @@ (m :> 2) @@ (n :> 0)

LockTicks == (fa :> 1) @@ (fb :> 2) @@ (fd :> 2) @@ (fm :> 0)

claimVars == <<part, vars, lockVars, holdVars>>

ClaimsInit ==
    /\ part \in {"etcd", "lock", "hold"}
    /\ Init     /\ (part # "etcd" => ~limited)
    /\ LockInit /\ (part # "lock" => wall = 0 /\ ~hasLimit)
    /\ HoldInit /\ (part # "hold" => now = 0)

ClaimsNext ==
    \/ part = "etcd" /\ Next     /\ UNCHANGED <<part, lockVars, holdVars>>
    \/ part = "lock" /\ LockNext /\ UNCHANGED <<part, vars, holdVars>>
    \/ part = "hold" /\ HoldNext /\ UNCHANGED <<part, vars, lockVars>>

(* No fair action is enabled where its part has not begun. *)
ClaimsSpec == ClaimsInit /\ [][ClaimsNext]_claimVars /\ Fairness /\ LockFairness

(* Under a limit, a tick and a manual trigger that contend for one slot;
   without one, the ticks and the watchers. *)
EtcdExplored ==
    IF limited
    THEN pc[b] = "idle" /\ pc[m] = "idle" /\ \A w \in Watchers : watch[w] = "off"
    ELSE pc[n] = "idle"

(* Under a limit, three of the calls and a clock that is set; without one
   nothing reads the clock.  The two processes of one tick start in one order. *)
LockExplored ==
    /\ IF hasLimit THEN call[fa] = "idle" ELSE wall = 0
    /\ call[fd] # "idle" => call[fb] # "idle"

(* What comes before the first fence is short, the first side effect shorter;
   a fence and the second effect take as long as they may.  A run that is over
   is followed only until its loop sees it. *)
HoldExplored ==
    /\ Going \/ (stage \in {"finishing", "over"} /\ loop = "waiting")
    /\ left = Effects => now <= 3
    /\ stage = "effect" /\ left > 0 => now = began

Explored == EtcdExplored /\ LockExplored /\ HoldExplored

(* The search for a run that outlives its claim: one that gathers, and whose
   claim nobody takes away. *)
StillGathering == part = "hold" /\ stage = "gathering" /\ lostAt = -1
=============================================================================

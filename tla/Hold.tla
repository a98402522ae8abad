-------------------------------- MODULE Hold --------------------------------
(***************************************************************************)
(* The holder's side of one claim that expires: the loop that renews it,   *)
(* the deadline at which a run that cannot prove it still holds its claim  *)
(* is stopped, the fence asked before each side effect, and the exit that  *)
(* enforces the stop.  The backend is taken at its interface (C4, C5, C6). *)
(*                                                                         *)
(* Source: runtime/internal/guard/holder.go, config.go (Check), guard.go   *)
(* (bound, Admit), internal/run/execute.go, replay.go (agentAndSinks,      *)
(* deliver), internal/sink/sink.go (DeliverAll), run.go (Finish).          *)
(*                                                                         *)
(* Time is a count of ticks on the holder's monotonic reading.  A timer    *)
(* fires no earlier than it is due and at most Late ticks later; code that *)
(* waits for nothing takes no time.                                        *)
(***************************************************************************)
EXTENDS Integers

CONSTANTS
    ClaimExpiry, RenewEvery, RenewBound, StopBound, DecisionBound, MarginFloor,
    Effects,   \* fenced side effects of the run: the agent stage and each sink
    Late,      \* how late a timer may fire
    MaxNow     \* bound: the clock

(* Config.Check, and the positive durations document.config insists on.  It
   says nothing of DecisionBound. *)
ASSUME ConfigAssumption ==
    /\ {ClaimExpiry, RenewEvery, RenewBound, StopBound, DecisionBound, MarginFloor}
         \subseteq Nat \ {0}
    /\ RenewEvery + RenewBound + StopBound + MarginFloor <= ClaimExpiry
    /\ RenewBound < RenewEvery

ASSUME HoldBoundsAssumption == Effects \in Nat \ {0} /\ Late \in Nat /\ MaxNow \in Nat

VARIABLES
    now,        \* the monotonic reading; the grant was sent at 0
    loop,       \* where the renewal loop is
    sent,       \* when the last renewal that succeeded was sent
    attempt,    \* when the last attempt was sent
    wake,       \* when the loop's timer is due
    renewal,    \* the attempt in flight: what the backend has made of it
    stage,      \* where the run is
    left,       \* fenced side effects it has yet to begin
    fence,      \* the fence in flight
    fenceSent,  \* when it was sent
    began,      \* history: when the side effect going on began
    stopped,    \* the stop decision has been made
    exitAt,     \* when the stop bound ends
    recorded,   \* FinishRun has written the run's terminal state
    lease,      \* when the backend's countdown ends
    lostAt      \* when the backend let go of the claim, -1 while it is held

renewing == <<loop, sent, attempt, wake, renewal>>
work     == <<stage, left, fence, fenceSent, began, recorded>>
deciding == <<stopped, exitAt>>
backend  == <<lease, lostAt>>
holdVars == <<now, renewing, work, deciding, backend>>

(* Fault variant: a deadline without the stop bound. *)
StopDeadlineWithoutStopBound(from) == from + ClaimExpiry - MarginFloor

(* StopDeadline. *)
StopDeadline(from) == from + ClaimExpiry - StopBound - MarginFloor

Going == stage \in {"gathering", "fencing", "effect"}

Least(a, b) == IF a <= b THEN a ELSE b

(* Admit anchored the deadline at the instant the grant was sent; Acquire
   answered within the decision bound, and the backend's countdown began
   somewhere between the two. *)
HoldInit ==
    /\ now \in 0..(DecisionBound + Late)
    /\ loop = "top" /\ sent = 0 /\ attempt = 0 /\ wake = 0 /\ renewal = "none"
    /\ stage = "gathering" /\ left = Effects /\ recorded = FALSE
    /\ fence = "none" /\ fenceSent = 0 /\ began = 0
    /\ stopped = FALSE /\ exitAt = 0
    /\ \E granted \in 0..now : lease = granted + ClaimExpiry
    /\ lostAt = -1

-----------------------------------------------------------------------------
(***************************************************************************)
(* The stop decision.                                                      *)
(***************************************************************************)

(* decideToStop: once.  The run's context is cancelled and the stop bound
   starts. *)
DecideToStop ==
    /\ stopped' = TRUE
    /\ exitAt' = IF stopped THEN exitAt ELSE now + StopBound

(* enforce: the run is still not over a stop bound later, and the process
   ends. *)
Exit ==
    /\ stopped
    /\ now >= exitAt
    /\ stage \notin {"over", "exited"}
    /\ stage' = "exited"
    /\ loop' = "over"
    /\ UNCHANGED <<now, sent, attempt, wake, renewal, left, fence, fenceSent, began, recorded,
                   deciding, backend>>

-----------------------------------------------------------------------------
(***************************************************************************)
(* renew.                                                                  *)
(***************************************************************************)

(* The top of the loop, with the deadline reached. *)
LoopDecides ==
    /\ loop = "top"
    /\ now >= StopDeadline(sent)
    /\ DecideToStop
    /\ loop' = "over"
    /\ UNCHANGED <<now, sent, attempt, wake, renewal, work, backend>>

(* Fault variant: the wait for the next attempt does not look at the deadline. *)
LoopWaitsForTheInterval ==
    /\ loop = "top"
    /\ now < StopDeadline(sent)
    /\ wake' = attempt + RenewEvery
    /\ loop' = "waiting"
    /\ UNCHANGED <<now, sent, attempt, renewal, work, deciding, backend>>

(* The wait for the next attempt, or for the deadline if that comes first. *)
LoopWaits ==
    /\ loop = "top"
    /\ now < StopDeadline(sent)
    /\ wake' = Least(attempt + RenewEvery, StopDeadline(sent))
    /\ loop' = "waiting"
    /\ UNCHANGED <<now, sent, attempt, renewal, work, deciding, backend>>

LoopOver ==
    /\ loop = "waiting"
    /\ stage = "over"
    /\ loop' = "over"
    /\ UNCHANGED <<now, sent, attempt, wake, renewal, work, deciding, backend>>

LoopAsks ==
    /\ loop = "waiting"
    /\ now >= wake
    /\ loop' = "asking"
    /\ attempt' = now
    /\ renewal' = "sent"
    /\ UNCHANGED <<now, sent, wake, work, deciding, backend>>

(* The backend receives the attempt: a lease it still has counts down afresh. *)
RenewArrives ==
    /\ renewal = "sent"
    /\ IF lostAt = -1
       THEN renewal' = "extended" /\ lease' = now + ClaimExpiry
       ELSE renewal' = "lost" /\ UNCHANGED lease
    /\ UNCHANGED <<now, loop, sent, attempt, wake, work, deciding, lostAt>>

(* Fault variant: any answer renews the claim. *)
RenewSucceedsWhateverTheAnswer ==
    /\ loop = "asking"
    /\ renewal \in {"extended", "lost"}
    /\ sent' = attempt
    /\ loop' = "top"
    /\ renewal' = "none"
    /\ UNCHANGED <<now, attempt, wake, work, deciding, backend>>

RenewSucceeds ==
    /\ loop = "asking"
    /\ renewal = "extended"
    /\ sent' = attempt
    /\ loop' = "top"
    /\ renewal' = "none"
    /\ UNCHANGED <<now, attempt, wake, work, deciding, backend>>

RenewalLost ==
    /\ loop = "asking"
    /\ renewal = "lost"
    /\ DecideToStop
    /\ loop' = "over"
    /\ renewal' = "none"
    /\ UNCHANGED <<now, sent, attempt, wake, work, backend>>

(* The attempt fails, or its bound ends it: whether or not it arrived, no
   answer came. *)
RenewFails ==
    /\ loop = "asking"
    /\ loop' = "top"
    /\ renewal' = "none"
    /\ UNCHANGED <<now, sent, attempt, wake, work, deciding, backend>>

-----------------------------------------------------------------------------
(***************************************************************************)
(* The run: gather and retrieve, then the agent stage and each sink, each  *)
(* behind a fence.                                                         *)
(***************************************************************************)

AskFence ==
    /\ stage' = "fencing"
    /\ fence' = "sent"
    /\ fenceSent' = now

Gathered ==
    /\ stage = "gathering"
    /\ AskFence
    /\ UNCHANGED <<now, renewing, left, began, recorded, deciding, backend>>

FenceArrives ==
    /\ stage = "fencing"
    /\ fence = "sent"
    /\ fence' = IF lostAt = -1 THEN "held" ELSE "lost"
    /\ UNCHANGED <<now, renewing, stage, left, fenceSent, began, recorded, deciding, backend>>

(* Fault variant: a fence that has not been answered lets the effect begin. *)
EffectBeginsUnanswered ==
    /\ stage = "fencing"
    /\ ~stopped
    /\ stage' = "effect"
    /\ left' = left - 1
    /\ fence' = "none"
    /\ began' = now
    /\ UNCHANGED <<now, renewing, fenceSent, recorded, deciding, backend>>

(* The fence answered.  The stage is started on the run's own context, so
   nothing begins on one already cancelled. *)
EffectBegins ==
    /\ stage = "fencing"
    /\ fence = "held"
    /\ ~stopped
    /\ stage' = "effect"
    /\ left' = left - 1
    /\ fence' = "none"
    /\ began' = now
    /\ UNCHANGED <<now, renewing, fenceSent, recorded, deciding, backend>>

(* The next sink, behind a fence of its own. *)
EffectEnds ==
    /\ stage = "effect"
    /\ left > 0
    /\ AskFence
    /\ UNCHANGED <<now, renewing, left, began, recorded, deciding, backend>>

(* Finish: the terminal state is written, then the claim is released. *)
Finishes ==
    /\ stage' = "finishing"
    /\ recorded' = TRUE
    /\ fence' = "none"
    /\ UNCHANGED <<left, fenceSent, began>>

(* The fence failed, for whatever reason, or its bound ended it. *)
FenceFails ==
    /\ stage = "fencing"
    /\ DecideToStop
    /\ Finishes
    /\ UNCHANGED <<now, renewing, backend>>

(* The last effect is done, or a stage refused, failed or was cancelled. *)
RunEnds ==
    /\ \/ stage \in {"gathering", "effect"}
       \/ stage = "fencing" /\ fence = "held" /\ stopped
    /\ Finishes
    /\ UNCHANGED <<now, renewing, deciding, backend>>

ReleaseArrives ==
    /\ stage = "finishing"
    /\ lostAt = -1
    /\ lostAt' = now
    /\ UNCHANGED <<now, renewing, work, deciding, lease>>

(* Release returned, and Done closes over. *)
Done ==
    /\ stage = "finishing"
    /\ stage' = "over"
    /\ UNCHANGED <<now, renewing, left, fence, fenceSent, began, recorded, deciding, backend>>

-----------------------------------------------------------------------------
(***************************************************************************)
(* The backend and the clock.                                              *)
(***************************************************************************)

(* The backend lets go of the claim: its countdown ended, or the lease was
   revoked under the holder. *)
Lose ==
    /\ lostAt = -1
    /\ lostAt' = now
    /\ UNCHANGED <<now, renewing, work, deciding, lease>>

(* The clock moves unless something is due that may be no later. *)
ClockTicks ==
    /\ now < MaxNow
    /\ loop # "top"
    /\ loop = "waiting" => now < wake + Late
    /\ loop = "asking" => now < attempt + RenewBound + Late
    /\ stage = "fencing" => now < fenceSent + RenewBound + Late
    /\ stopped /\ stage \notin {"over", "exited"} => now < exitAt + Late
    /\ now' = now + 1
    /\ UNCHANGED <<renewing, work, deciding, backend>>

RenewStep ==
    \/ LoopDecides \/ LoopWaits \/ LoopOver \/ LoopAsks
    \/ RenewArrives \/ RenewSucceeds \/ RenewalLost \/ RenewFails

RunStep ==
    \/ Gathered \/ FenceArrives \/ EffectBegins \/ EffectEnds \/ FenceFails \/ RunEnds
    \/ ReleaseArrives \/ Done

HoldNext == RenewStep \/ RunStep \/ Exit \/ Lose \/ ClockTicks

HoldSpec == HoldInit /\ [][HoldNext]_holdVars
-----------------------------------------------------------------------------
(***************************************************************************)
(* Properties.                                                             *)
(***************************************************************************)

(* Every variable has its type. *)
HoldTypeOK ==
    /\ {now, sent, attempt, wake, fenceSent, began, exitAt, lease} \subseteq Nat
    /\ loop \in {"top", "waiting", "asking", "over"}
    /\ renewal \in {"none", "sent", "extended", "lost"}
    /\ stage \in {"gathering", "fencing", "effect", "finishing", "over", "exited"}
    /\ left \in 0..Effects
    /\ fence \in {"none", "sent", "held", "lost"}
    /\ stopped \in BOOLEAN /\ recorded \in BOOLEAN
    /\ lostAt \in Nat \cup {-1}

(* The decision to admit is over by the time an attempt made at the deadline
   would be: nothing in Config.Check requires it. *)
DecisionFits == DecisionBound <= StopDeadline(0) + RenewBound + Late

(* renew, holder.go:73-112: whatever attempts fail, hang or lose their answer,
   no run goes on undecided for longer than one bounded attempt past the
   deadline of the last renewal that succeeded. *)
DecidesInTime ==
    Going /\ ~stopped => now <= StopDeadline(sent) + RenewBound + 2 * Late

(* FR-105, and holder.go:17-19: the run is over by the instant the backend's
   countdown can end, the last at which nobody else can hold the claim.  The
   code does not see to it: an attempt sent at the deadline may take longer than
   the margin, and Check compares neither with the other. *)
OverBeforeLapse == Going => now <= lease

(* What the code does see to: a run outlives its claim by no more than an
   attempt outstanding at the deadline, and three timers firing late in a row,
   exceed the margin; and not at all where the margin covers them. *)
LapseOverrunBounded == Going => now <= lease + (RenewBound + 3 * Late - MarginFloor)

(* R2: a run whose claim was lost, to a revocation or to a lapse, does not go on
   undecided for longer than the time to its deadline and one attempt, even
   when nothing it asks is answered. *)
LossStopsTheRun ==
    Going /\ ~stopped /\ lostAt # -1 =>
        now <= StopDeadline(lostAt) + RenewBound + 2 * Late

(* R3: even when the claim is lost early, no side effect begins later than one
   bounded fence after the loss. *)
NoEffectAfterLoss ==
    stage = "effect" /\ lostAt # -1 => began <= lostAt + RenewBound + Late
=============================================================================

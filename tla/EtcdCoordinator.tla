-------------------------- MODULE EtcdCoordinator --------------------------
(***************************************************************************)
(* The cross-host coordinator: what Acquire, Fence, Renew, Release and     *)
(* Released of several hosts do to the etcd keys of one playbook name,     *)
(* request by request.  A host may give up at any instant, because its     *)
(* deadline passed or a request failed, and a transaction it has sent may  *)
(* commit after that.                                                      *)
(*                                                                         *)
(* Source: runtime/internal/guard/etcd/etcd.go.  The server (revisions,    *)
(* leases, transactions, watches) is external and modelled from how        *)
(* etcd.go uses it.                                                        *)
(*                                                                         *)
(* A call is one Acquire and what becomes of the claim it takes.  Time is  *)
(* left out: a lease may end at any instant, which is all a client can     *)
(* assume of one it has stopped renewing.                                  *)
(***************************************************************************)
EXTENDS Integers, FiniteSets

CONSTANTS
    Calls,      \* the Acquire calls, each of its own run
    DueAt,      \* the tick of each call: 0 for a manual trigger
    Runs,       \* the limit: how many rate slots there are
    Watchers,   \* the calls of Released, again and again
    None

Slots == 1..Runs

ASSUME CallsAssumption ==
    /\ DueAt \in [Calls -> Nat]
    /\ Runs \in Nat \ {0}
    /\ None \notin Calls

VARIABLES
    limited,    \* whether the playbook declares a rate limit
    rev,        \* the store's revision
    claim,      \* the claim key: the call that wrote it, or None
    claimRev,   \* its creation revision, 0 when the key does not exist
    tick,       \* the tick key: the instant it records, 0 when it does not exist
    tickRev,    \* its modification revision, 0 when it does not exist
    slot,       \* the rate keys
    leases,     \* the calls whose claim lease the server has
    rateLeases, \* the calls whose rate lease the server has
    deleted,    \* the revision of the last deletion of the claim key
    pc,         \* where each call is
    read,       \* what its last read, or its failed transaction, returned
    txn,        \* its transaction: what the server has made of it
    token,      \* its fencing token: the revision its transaction's reply carries
    answer,     \* what Acquire returned
    giving,     \* the leases it still has to revoke
    watch,      \* where each watcher is
    from        \* the revision it watches from

keys   == <<claim, claimRev, tick, tickRev, slot>>
server == <<rev, keys, leases, rateLeases, deleted>>
client == <<pc, read, txn, token, answer, giving>>
watchs == <<watch, from>>
vars   == <<server, client, watchs, limited>>

Scheduled == {c \in Calls : DueAt[c] # 0}

(* The calls whose request carries the limit. *)
Rated == IF limited THEN Calls ELSE {}

(* The states of a call that has yet to be answered. *)
Deciding == {"rating", "reading", "deciding", "committing"}

(* read: the claim, the tick and the slots, all at one revision. *)
Snapshot == [holder |-> claim, tick |-> tick, tickRev |-> tickRev,
             free |-> {i \in Slots : slot[i] = None}]

Init ==
    /\ limited \in BOOLEAN
    /\ rev = 1 /\ claim = None /\ claimRev = 0 /\ tick = 0 /\ tickRev = 0
    /\ slot = [i \in Slots |-> None]
    /\ leases = {} /\ rateLeases = {} /\ deleted = 0
    /\ pc = [c \in Calls |-> "idle"]
    /\ read = [c \in Calls |-> Snapshot]
    /\ txn = [c \in Calls |-> "none"]
    /\ token = [c \in Calls |-> 0]
    /\ answer = [c \in Calls |-> "none"]
    /\ giving = [c \in Calls |-> {}]
    /\ watch = [w \in Watchers |-> "off"]
    /\ from = [w \in Watchers |-> 0]

-----------------------------------------------------------------------------
(***************************************************************************)
(* Acquire, up to its transaction.                                         *)
(***************************************************************************)

(* Acquire returns a refusal: the leases it was granted are to be revoked. *)
Return(c, what) ==
    /\ answer' = [answer EXCEPT ![c] = what]
    /\ pc' = [pc EXCEPT ![c] = "refused"]
    /\ giving' = [giving EXCEPT ![c] =
                    {"claim"} \cup (IF c \in Rated /\ pc[c] # "rating" THEN {"rate"} ELSE {})]

Grant(c) ==
    /\ pc[c] = "idle"
    /\ leases' = leases \cup {c}
    /\ pc' = [pc EXCEPT ![c] = IF c \in Rated THEN "rating" ELSE "reading"]
    /\ UNCHANGED <<rev, keys, rateLeases, deleted, read, txn, token, answer, giving, watchs>>

GrantRate(c) ==
    /\ pc[c] = "rating"
    /\ rateLeases' = rateLeases \cup {c}
    /\ pc' = [pc EXCEPT ![c] = "reading"]
    /\ UNCHANGED <<rev, keys, leases, deleted, read, txn, token, answer, giving, watchs>>

(* A request failed, a lease was granted short (CheckGrant), or the deadline
   passed.  A transaction already sent is out of reach. *)
GiveUp(c) ==
    /\ pc[c] \in Deciding
    /\ Return(c, "unavailable")
    /\ UNCHANGED <<server, read, txn, token, watchs>>

Read(c) ==
    /\ pc[c] = "reading"
    /\ read' = [read EXCEPT ![c] = Snapshot]
    /\ pc' = [pc EXCEPT ![c] = "deciding"]
    /\ UNCHANGED <<server, txn, token, answer, giving, watchs>>

(* Fault variant: only the very tick recorded is refused. *)
TickRanExactly(c) == c \in Scheduled /\ DueAt[c] = read[c].tick

(* tickRan: the occurrence is at or before the one recorded. *)
TickRan(c) == c \in Scheduled /\ DueAt[c] <= read[c].tick

RefuseTick(c) ==
    /\ pc[c] = "deciding"
    /\ TickRan(c)
    /\ Return(c, IF read[c].holder # None THEN "held" ELSE "tick_ran")
    /\ UNCHANGED <<server, read, txn, token, watchs>>

RefuseRate(c) ==
    /\ pc[c] = "deciding"
    /\ ~TickRan(c)
    /\ c \in Rated
    /\ read[c].free = {}
    /\ Return(c, "rate_limited")
    /\ UNCHANGED <<server, read, txn, token, watchs>>

(* freeSlot. *)
FreeSlot(c) == CHOOSE i \in read[c].free : \A j \in read[c].free : i <= j

SendTxn(c) ==
    /\ pc[c] = "deciding"
    /\ ~TickRan(c)
    /\ c \in Rated => read[c].free # {}
    /\ txn' = [txn EXCEPT ![c] = "sent"]
    /\ pc' = [pc EXCEPT ![c] = "committing"]
    /\ UNCHANGED <<server, read, token, answer, giving, watchs>>

-----------------------------------------------------------------------------
(***************************************************************************)
(* The transaction, at the server, and its reply.                          *)
(***************************************************************************)

(* Fault variants: the claim key, or the slot, is not compared. *)
ComparesNoClaim(c) ==
    /\ c \in Scheduled => tickRev = read[c].tickRev
    /\ c \in Rated => slot[FreeSlot(c)] = None

ComparesNoSlot(c) ==
    /\ claim = None
    /\ c \in Scheduled => tickRev = read[c].tickRev

Compares(c) ==
    /\ claim = None
    /\ c \in Scheduled => tickRev = read[c].tickRev
    /\ c \in Rated => slot[FreeSlot(c)] = None

(* Writes that name a lease the server no longer has are refused; like a
   request that never arrives, the transaction then has no effect and its
   caller gives up. *)
LeasesLive(c) == c \in leases /\ (c \in Rated => c \in rateLeases)

Commit(c) ==
    /\ txn[c] = "sent"
    /\ Compares(c)
    /\ LeasesLive(c)
    /\ rev' = rev + 1
    /\ claim' = c
    /\ claimRev' = rev + 1
    /\ IF c \in Scheduled
       THEN tick' = DueAt[c] /\ tickRev' = rev + 1
       ELSE UNCHANGED <<tick, tickRev>>
    /\ slot' = IF c \in Rated THEN [slot EXCEPT ![FreeSlot(c)] = c] ELSE slot
    /\ txn' = [txn EXCEPT ![c] = "won"]
    /\ token' = [token EXCEPT ![c] = rev + 1]
    /\ UNCHANGED <<leases, rateLeases, deleted, pc, read, answer, giving, watchs>>

(* A comparison lost: the Else branch reads everything again.  For a caller
   that has given up it changes nothing. *)
Conflict(c) ==
    /\ txn[c] = "sent"
    /\ pc[c] = "committing"
    /\ ~Compares(c)
    /\ txn' = [txn EXCEPT ![c] = "overtaken"]
    /\ read' = [read EXCEPT ![c] = Snapshot]
    /\ UNCHANGED <<server, pc, token, answer, giving, watchs>>

ReplyWon(c) ==
    /\ pc[c] = "committing"
    /\ txn[c] = "won"
    /\ answer' = [answer EXCEPT ![c] = "taken"]
    /\ pc' = [pc EXCEPT ![c] = "held"]
    /\ UNCHANGED <<server, read, txn, token, giving, watchs>>

ReplyRefused(c) ==
    /\ pc[c] = "committing"
    /\ txn[c] = "overtaken"
    /\ read[c].holder # None \/ TickRan(c)
    /\ Return(c, IF read[c].holder # None THEN "held" ELSE "tick_ran")
    /\ UNCHANGED <<server, read, txn, token, watchs>>

(* Overtaken by a host that has since let go, or that took the slot. *)
ReplyAgain(c) ==
    /\ pc[c] = "committing"
    /\ txn[c] = "overtaken"
    /\ read[c].holder = None /\ ~TickRan(c)
    /\ txn' = [txn EXCEPT ![c] = "none"]
    /\ pc' = [pc EXCEPT ![c] = "reading"]
    /\ UNCHANGED <<server, read, token, answer, giving, watchs>>

-----------------------------------------------------------------------------
(***************************************************************************)
(* Leases: revoked, released or run out.                                   *)
(***************************************************************************)

(* Fault variant: the claim key is written without its lease. *)
EndLeaseKeepingTheKey(c) ==
    /\ leases' = leases \ {c}
    /\ UNCHANGED <<rev, keys, rateLeases, deleted>>

(* A claim lease ends, and the key written under it goes with it. *)
EndLease(c) ==
    /\ leases' = leases \ {c}
    /\ IF claim = c
       THEN claim' = None /\ claimRev' = 0 /\ rev' = rev + 1 /\ deleted' = rev + 1
       ELSE UNCHANGED <<claim, claimRev, rev, deleted>>
    /\ UNCHANGED <<tick, tickRev, slot, rateLeases>>

EndRateLease(c) ==
    /\ rateLeases' = rateLeases \ {c}
    /\ slot' = [i \in Slots |-> IF slot[i] = c THEN None ELSE slot[i]]
    /\ rev' = IF slot' = slot THEN rev ELSE rev + 1
    /\ UNCHANGED <<claim, claimRev, tick, tickRev, leases, deleted>>

(* revoke, of a lease the call is not going to use; it may fail, twice.  A
   process that dies is one that gave up and whose revocations fail. *)
Revoke(c) ==
    /\ \E which \in giving[c] :
         /\ giving' = [giving EXCEPT ![c] = @ \ {which}]
         /\ \/ which = "claim" /\ EndLease(c)
            \/ which = "rate" /\ EndRateLease(c)
            \/ UNCHANGED server
    /\ UNCHANGED <<pc, read, txn, token, answer, watchs>>

(* A lease nobody renews any more runs out; so does a rate window. *)
LeaseExpires(c) ==
    /\ c \in leases
    /\ EndLease(c)
    /\ UNCHANGED <<client, watchs>>

WindowPasses(c) ==
    /\ c \in rateLeases
    /\ EndRateLease(c)
    /\ UNCHANGED <<client, watchs>>

(* Release: the lease is revoked, or is left to run out. *)
Release(c) ==
    /\ pc[c] \in {"held", "lost"}
    /\ pc' = [pc EXCEPT ![c] = "released"]
    /\ EndLease(c) \/ UNCHANGED server
    /\ UNCHANGED <<read, txn, token, answer, giving, watchs>>

(* Renew: a lease the server does not have is a loss. *)
RenewLost(c) ==
    /\ pc[c] = "held"
    /\ c \notin leases
    /\ pc' = [pc EXCEPT ![c] = "lost"]
    /\ UNCHANGED <<server, read, txn, token, answer, giving, watchs>>

(* Fence: does the claim key still have this creation revision? *)
FenceHolds(c) == claimRev = token[c]

FenceLost(c) ==
    /\ pc[c] = "held"
    /\ ~FenceHolds(c)
    /\ pc' = [pc EXCEPT ![c] = "lost"]
    /\ UNCHANGED <<server, read, txn, token, answer, giving, watchs>>

-----------------------------------------------------------------------------
(***************************************************************************)
(* Released: read the key, then watch it from the next revision.           *)
(***************************************************************************)

WatchGet(w) ==
    /\ watch[w] = "off"
    /\ claim # None
    /\ watch' = [watch EXCEPT ![w] = "read"]
    /\ from' = [from EXCEPT ![w] = rev + 1]
    /\ UNCHANGED <<server, client>>

(* Fault variant: the watch starts at the revision it is opened at. *)
WatchOpensNow(w) ==
    /\ watch[w] = "read"
    /\ watch' = [watch EXCEPT ![w] = "watching"]
    /\ from' = [from EXCEPT ![w] = rev + 1]
    /\ UNCHANGED <<server, client>>

WatchOpens(w) ==
    /\ watch[w] = "read"
    /\ watch' = [watch EXCEPT ![w] = "watching"]
    /\ UNCHANGED <<server, client, from>>

(* A deletion is seen, or the watch ends with an error or its deadline. *)
WatchReturns(w) ==
    /\ watch[w] \in {"read", "watching"}
    /\ watch' = [watch EXCEPT ![w] = "off"]
    /\ from' = [from EXCEPT ![w] = 0]
    /\ UNCHANGED <<server, client>>

-----------------------------------------------------------------------------

CallStep(c) ==
    \/ Grant(c) \/ GrantRate(c) \/ GiveUp(c) \/ Read(c)
    \/ RefuseTick(c) \/ RefuseRate(c) \/ SendTxn(c)
    \/ ReplyWon(c) \/ ReplyRefused(c) \/ ReplyAgain(c)
    \/ Revoke(c) \/ Release(c) \/ RenewLost(c) \/ FenceLost(c)

ServerStep(c) ==
    \/ Commit(c) \/ Conflict(c) \/ LeaseExpires(c) \/ WindowPasses(c)

WatchStep(w) == WatchGet(w) \/ WatchOpens(w) \/ WatchReturns(w)

Next ==
    /\ \/ \E c \in Calls : CallStep(c) \/ ServerStep(c)
       \/ \E w \in Watchers : WatchStep(w)
    /\ UNCHANGED limited

Spec == Init /\ [][Next]_vars

(* A lease that nobody renews any more runs out. *)
AbandonedLeaseExpires(c) ==
    pc[c] \in {"refused", "released"} /\ LeaseExpires(c) /\ UNCHANGED limited

Fairness == \A c \in Calls : WF_vars(AbandonedLeaseExpires(c))
-----------------------------------------------------------------------------
(***************************************************************************)
(* Properties.                                                             *)
(***************************************************************************)

Answers == {"none", "taken", "held", "tick_ran", "rate_limited", "unavailable"}

(* Every variable has its type. *)
TypeOK ==
    /\ limited \in BOOLEAN
    /\ rev \in Nat /\ claimRev \in Nat /\ tick \in Nat /\ tickRev \in Nat /\ deleted \in Nat
    /\ claim \in Calls \cup {None}
    /\ slot \in [Slots -> Calls \cup {None}]
    /\ leases \subseteq Calls /\ rateLeases \subseteq Rated
    /\ pc \in [Calls -> Deciding \cup {"idle", "held", "lost", "released", "refused"}]
    /\ read \in [Calls -> [holder : Calls \cup {None}, tick : Nat, tickRev : Nat,
                           free : SUBSET Slots]]
    /\ txn \in [Calls -> {"none", "sent", "won", "overtaken"}]
    /\ token \in [Calls -> Nat]
    /\ answer \in [Calls -> Answers]
    /\ giving \in [Calls -> SUBSET {"claim", "rate"}]
    /\ watch \in [Watchers -> {"off", "read", "watching"}]
    /\ from \in [Watchers -> Nat]

(* C1 and C6, take and Fence: a call that was told it has the claim has it for
   as long as the server has its lease, under the token it was given, however
   late that answer came; so no two calls have it, and a fence passes for no
   other. *)
HeldIsCurrent ==
    \A c \in Calls :
        pc[c] = "held" => (c \in leases <=> claim = c) /\ (FenceHolds(c) <=> claim = c)

(* C13, take: no tick is taken twice, however the readers of its record and
   the hosts that gave up interleave. *)
TickTakenOnce ==
    \A c, d \in Scheduled : txn[c] = "won" /\ txn[d] = "won" /\ c # d => DueAt[c] # DueAt[d]

Contract == INSTANCE Coordinator WITH holder <- claim, last <- tick

(* C1 and C13, take: the adapter keeps the coordinator's contract: one claim at
   a time, and the tick with it, never back. *)
KeepsTheContract == Contract!Spec

(* C8 and C9, take: every run admitted inside the window has a slot of its own,
   so the window never admits more than Runs. *)
SlotOfItsOwn ==
    \A c \in Rated : txn[c] = "won" /\ c \in rateLeases =>
        \E i \in Slots : slot[i] = c /\ \A j \in Slots \ {i} : slot[j] # c

(* Released: a watch that has seen no deletion is of a claim still held, so no
   release falls between the read and the watch. *)
NoMissedRelease ==
    \A w \in Watchers : watch[w] = "watching" /\ deleted < from[w] => claim # None

(* C4, revoke: a claim taken by a transaction whose caller had given up, or
   died, or could not release it, does not block the playbook for good. *)
AbandonedClaimEnds ==
    LET abandoned == claim # None /\ pc[claim] \in {"refused", "released"}
    IN abandoned ~> ~abandoned
=============================================================================

----------------------------- MODULE GuardProofs -----------------------------
(***************************************************************************)
(* Proofs about the guard: the waiting slot (Waiting) and the holder's side *)
(* of a claim (Hold).  The two share no state; Hold's definitions carry its *)
(* name.                                                                   *)
(***************************************************************************)
EXTENDS Waiting, Hold, TLAPS

-----------------------------------------------------------------------------
(***************************************************************************)
(* The waiting slot, for any number of processes, playbooks and            *)
(* reconcilers.  The inductive invariant has four parts beside the types:  *)
(* what the instance locks say of a process's life, what a reconciliation  *)
(* knows of the row it is looking at, what the record says of a trigger at *)
(* each point of its process, and how the versions of the playbook file a  *)
(* wait has seen are ordered.                                              *)
(***************************************************************************)


(* A process holds its instance lock for as long as it lives, and its lock
   file is there until it closes. *)
InstanceInv ==
    \A p \in Processes :
        /\ pc[p] \in Live => flock[p] = p
        /\ pc[p] \in Live \ {"unlocking"} => file[p]

(* What a reconciliation may rely on about the row it is looking at: its
   process had started, and once the lock was taken or the file found
   missing, it can no longer start a run. *)
ReconcileInv ==
    \A a \in Actors :
        /\ named[a] = {}
        /\ \A q \in todo[a] : pc[q] # "idle"
        /\ step[a] \in {"opened", "locked", "ended"} => at[a] \in Processes /\ pc[at[a]] # "idle"
        /\ step[a] = "locked" => pc[at[a]] = "gone" /\ flock[at[a]] = a
        /\ step[a] = "ended" => pc[at[a]] \in {"unlocking", "gone"}
        /\ a \in Processes /\ step[a] # "off" => pc[a] = "reconciling"

(* What the record says of a trigger, by where its process is. *)
RecordInv ==
    \A p \in Processes :
        /\ pc[p] \in {"idle", "asking", "reconciling", "accepting"} => row[p] = "none"
        /\ pc[p] \in {"idle", "asking", "reconciling", "accepting", "admitted"} \cup InWait =>
              refusals[p] = 0 /\ runs[p] = "none"
        /\ pc[p] \in InWait => row[p] = "waiting"
        /\ pc[p] = "admitted" => row[p] \in {"none", "waiting"}
        /\ pc[p] = "running" => runs[p] # "none" /\ row[p] \in {"none", "ran"}
        /\ row[p] = "waiting" => refusals[p] = 0 /\ runs[p] = "none"

(* The stamp is taken before the file is read, the file is read before the
   claim is taken, and versions only grow. *)
VersionInv ==
    \A p \in Processes :
        /\ stamp[p] <= version[BookOf[p]]
        /\ pc[p] \in {"idle", "asking", "reconciling", "accepting"} => loaded[p] = -1
        /\ pc[p] = "claiming" => loaded[p] # -1
        /\ pc[p] \in InWait \ {"loading"} /\ loaded[p] # -1 =>
              stamp[p] <= loaded[p] /\ loaded[p] <= version[BookOf[p]]
        /\ pc[p] = "checking" =>
              loaded[p] # -1 /\ loaded[p] <= claimedAt[p] /\ claimedAt[p] <= version[BookOf[p]]
        /\ pc[p] = "admitted" /\ row[p] = "waiting" => loaded[p] = claimedAt[p]
        /\ pc[p] = "running" /\ row[p] = "ran" => loaded[p] = claimedAt[p]

LifeInv == InstanceInv /\ ReconcileInv

StoreInv == RecordInv /\ OneWaiterPerPlaybook /\ RunXorRefusal /\ LiveWaitNotDropped

(* What a step may not do to a wait that has ended. *)
EndedStays ==
    \A p \in Processes :
        row[p] \in WaitOutcomes => row'[p] = row[p] /\ refusals'[p] = refusals[p]

Inv == TypeOK /\ LifeInv /\ StoreInv /\ VersionInv


(* The effect of refusing a trigger: one more refusal in the record, or none
   when it cannot be written. *)
Refused(p) ==
    /\ pc' = [pc EXCEPT ![p] = "closing"]
    /\ UNCHANGED <<mem, inst, recon, row, runs, claim, disk>>
    /\ \/ refusals' = [refusals EXCEPT ![p] = refusals[p] + 1]
       \/ UNCHANGED refusals
    /\ refusals' \in [Processes -> Nat] /\ faults' \in Nat

(* The effect of ending a wait from its own process: the row and its refusal
   change together, or not at all. *)
WaitEnded(p, outcome) ==
    /\ pc' = [pc EXCEPT ![p] = "closing"]
    /\ UNCHANGED <<mem, inst, recon, runs, claim, disk>>
    /\ \/ /\ row' = [row EXCEPT ![p] = outcome]
          /\ refusals' = [refusals EXCEPT ![p] = refusals[p] + 1]
          /\ row[p] = "waiting"
       \/ UNCHANGED <<row, refusals>>
    /\ row' \in [Processes -> WaitOutcomes \cup {"none", "waiting"}]
    /\ refusals' \in [Processes -> Nat] /\ faults' \in Nat

(* Refuse has the effect Refused. *)
LEMMA RefuseEffect ==
    ASSUME TypeOK, NEW p \in Processes, Refuse(p)
    PROVE  Refused(p)
  BY DEF TypeOK, Refuse, Refused, StoreFails, Go, mem, inst, recon, disk

(* EndOwnWait has the effect WaitEnded. *)
LEMMA EndOwnWaitEffect ==
    ASSUME TypeOK, NEW p \in Processes,
           NEW outcome \in WaitOutcomes \ {"ran", "dropped"}, EndOwnWait(p, outcome)
    PROVE  WaitEnded(p, outcome)
  BY DEF TypeOK, EndOwnWait, EndWait, WaitEnded, StoreFails, Go, WaitOutcomes, mem, inst, recon, disk

(* A wait ended by its own process keeps the record in step. *)
LEMMA WaitEndedKeepsStore ==
    ASSUME TypeOK, StoreInv, NEW p \in Processes, pc[p] \in InWait,
           NEW outcome \in WaitOutcomes \ {"ran", "dropped"}, WaitEnded(p, outcome)
    PROVE  StoreInv' /\ EndedStays
<1>1. /\ row[p] = "waiting" /\ refusals[p] = 0 /\ runs[p] = "none"
      /\ runs' = runs /\ pc'[p] = "closing"
      /\ \A q \in Processes \ {p} :
            row'[q] = row[q] /\ refusals'[q] = refusals[q] /\ pc'[q] = pc[q]
  BY DEF StoreInv, RecordInv, WaitEnded, TypeOK
<1>2. \/ row'[p] = "waiting" /\ refusals'[p] = 0
      \/ row'[p] \notin {"none", "waiting", "ran", "dropped"} /\ refusals'[p] = 1
  BY <1>1 DEF WaitEnded, WaitOutcomes, TypeOK
<1>3. RecordInv'
  BY <1>1, <1>2 DEF StoreInv, RecordInv, InWait
<1>4. OneWaiterPerPlaybook'
  BY <1>1, <1>2 DEF StoreInv, OneWaiterPerPlaybook
<1>5. RunXorRefusal'
  BY <1>1, <1>2 DEF StoreInv, RunXorRefusal
<1>6. LiveWaitNotDropped'
  BY <1>1, <1>2 DEF StoreInv, LiveWaitNotDropped
<1>7. EndedStays
  BY <1>1 DEF EndedStays, WaitOutcomes
<1>8. QED
  BY <1>3, <1>4, <1>5, <1>6, <1>7 DEF StoreInv

(* So does a refusal of a trigger that has not waited. *)
LEMMA RefusedKeepsStore ==
    ASSUME TypeOK, StoreInv, NEW p \in Processes, pc[p] \in {"asking", "accepting"}, Refused(p)
    PROVE  StoreInv' /\ EndedStays
<1>1. /\ row[p] = "none" /\ refusals[p] = 0 /\ runs[p] = "none"
      /\ row' = row /\ runs' = runs /\ pc'[p] = "closing" /\ refusals'[p] \in {0, 1}
      /\ \A q \in Processes \ {p} : refusals'[q] = refusals[q] /\ pc'[q] = pc[q]
  BY DEF StoreInv, RecordInv, Refused, TypeOK
<1>2. RecordInv'
  BY <1>1 DEF StoreInv, RecordInv, InWait
<1>3. OneWaiterPerPlaybook' /\ LiveWaitNotDropped' /\ EndedStays
  BY <1>1 DEF StoreInv, OneWaiterPerPlaybook, LiveWaitNotDropped, EndedStays, WaitOutcomes
<1>4. RunXorRefusal'
  BY <1>1 DEF StoreInv, RunXorRefusal
<1>5. QED
  BY <1>2, <1>3, <1>4 DEF StoreInv

(* Every step keeps the types. *)
LEMMA TypeStep ==
    ASSUME TypeOK, Next
    PROVE  TypeOK'
<1> USE ProcessesAssumption
    DEF PCs, Live, InWait, Entitled, Actors, proc, mem, inst, recon, store, disk
<1>1. ASSUME NEW p \in Processes, Start(p) PROVE TypeOK'
  BY <1>1 DEF Start, Go, TypeOK, Steps, WaitOutcomes
<1>2. ASSUME NEW p \in Processes, AskTaken(p) PROVE TypeOK'
  BY <1>2 DEF AskTaken, Go, TypeOK, Steps, WaitOutcomes
<1>3. ASSUME NEW p \in Processes, AskHeld(p) PROVE TypeOK'
  BY <1>3 DEF AskHeld, Go, TypeOK, Steps, WaitOutcomes
<1>4. ASSUME NEW p \in Processes, AskRefused(p) PROVE TypeOK'
  <2>1. Refused(p)
    BY <1>4, RefuseEffect DEF AskRefused
  <2>2. QED
    BY <1>4, <2>1 DEF AskRefused, Refused, TypeOK, Steps, WaitOutcomes
<1>5. ASSUME NEW p \in Processes, AcceptWaiting(p) PROVE TypeOK'
  BY <1>5 DEF AcceptWaiting, Go, SlotFull, TypeOK, Steps, WaitOutcomes
<1>6. ASSUME NEW p \in Processes, AcceptSlotFull(p) PROVE TypeOK'
  <2>1. Refused(p)
    BY <1>6, RefuseEffect DEF AcceptSlotFull
  <2>2. QED
    BY <1>6, <2>1 DEF AcceptSlotFull, Refused, TypeOK, Steps, WaitOutcomes
<1>7. ASSUME NEW p \in Processes, AcceptFails(p) PROVE TypeOK'
  BY <1>7 DEF AcceptFails, StoreFails, Go, TypeOK, Steps, WaitOutcomes
<1>8. ASSUME NEW p \in Processes, RoundWatch(p) PROVE TypeOK'
  BY <1>8 DEF RoundWatch, OnlyMoves, Go, TypeOK, Steps, WaitOutcomes
<1>9. ASSUME NEW p \in Processes, RoundExpired(p) PROVE TypeOK'
  <2>1. WaitEnded(p, "wait_expired")
    BY <1>9, EndOwnWaitEffect DEF RoundExpired, WaitOutcomes
  <2>2. QED
    BY <1>9, <2>1 DEF RoundExpired, WaitEnded, TypeOK, Steps, WaitOutcomes
<1>10. ASSUME NEW p \in Processes, WatchReturns(p) PROVE TypeOK'
  BY <1>10 DEF WatchReturns, OnlyMoves, Go, TypeOK, Steps, WaitOutcomes
<1>11. ASSUME NEW p \in Processes, WatchFails(p) PROVE TypeOK'
  <2>1. WaitEnded(p, "backend_unavailable")
    BY <1>11, EndOwnWaitEffect DEF WatchFails, WaitOutcomes
  <2>2. QED
    BY <1>11, <2>1 DEF WatchFails, WaitEnded, TypeOK, Steps, WaitOutcomes
<1>12. ASSUME NEW p \in Processes, ReadStamp(p) PROVE TypeOK'
  BY <1>12 DEF ReadStamp, Go, TypeOK, Steps, WaitOutcomes
<1>13. ASSUME NEW p \in Processes, Reload(p) PROVE TypeOK'
  BY <1>13 DEF Reload, Go, TypeOK, Steps, WaitOutcomes
<1>14. ASSUME NEW p \in Processes, ReloadRefused(p) PROVE TypeOK'
  <2>1. WaitEnded(p, "playbook_changed")
    BY <1>14, EndOwnWaitEffect DEF ReloadRefused, WaitOutcomes
  <2>2. QED
    BY <1>14, <2>1 DEF ReloadRefused, WaitEnded, TypeOK, Steps, WaitOutcomes
<1>15. ASSUME NEW p \in Processes, ClaimTaken(p) PROVE TypeOK'
  BY <1>15 DEF ClaimTaken, Go, TypeOK, Steps, WaitOutcomes
<1>16. ASSUME NEW p \in Processes, ClaimHeld(p) PROVE TypeOK'
  BY <1>16 DEF ClaimHeld, OnlyMoves, Go, TypeOK, Steps, WaitOutcomes
<1>17. ASSUME NEW p \in Processes, ClaimRefused(p) PROVE TypeOK'
  <2>1. PICK outcome \in {"rate_limited", "backend_unavailable"} : EndOwnWait(p, outcome)
    BY <1>17 DEF ClaimRefused
  <2>2. WaitEnded(p, outcome)
    BY <2>1, EndOwnWaitEffect DEF WaitOutcomes
  <2>3. QED
    BY <1>17, <2>1, <2>2 DEF ClaimRefused, WaitEnded, TypeOK, Steps, WaitOutcomes
<1>18. ASSUME NEW p \in Processes, GiveBack(p) PROVE TypeOK'
  BY <1>18 DEF GiveBack, Go, Release, TypeOK, Steps, WaitOutcomes
<1>19. ASSUME NEW p \in Processes, Admit(p) PROVE TypeOK'
  BY <1>19 DEF Admit, OnlyMoves, Go, TypeOK, Steps, WaitOutcomes
<1>20. ASSUME NEW p \in Processes, CreateRun(p) PROVE TypeOK'
  BY <1>20 DEF CreateRun, Go, TypeOK, Steps, WaitOutcomes
<1>21. ASSUME NEW p \in Processes, BeginFails(p) PROVE TypeOK'
  BY <1>21 DEF BeginFails, Go, Release, TypeOK, Steps, WaitOutcomes
<1>22. ASSUME NEW p \in Processes, Finish(p) PROVE TypeOK'
  BY <1>22 DEF Finish, Go, Release, TypeOK, Steps, WaitOutcomes
<1>23. ASSUME NEW p \in Processes, CloseRemove(p) PROVE TypeOK'
  BY <1>23 DEF CloseRemove, Go, TypeOK, Steps, WaitOutcomes
<1>24. ASSUME NEW p \in Processes, CloseUnlock(p) PROVE TypeOK'
  BY <1>24 DEF CloseUnlock, Go, TypeOK, Steps, WaitOutcomes
<1>25. ASSUME NEW p \in Processes, Expire(p) PROVE TypeOK'
  BY <1>25 DEF Expire, TypeOK, Steps, WaitOutcomes
<1>26. ASSUME NEW p \in Processes, StopWaiting(p) PROVE TypeOK'
  BY <1>26 DEF StopWaiting, OnlyMoves, Go, TypeOK, Steps, WaitOutcomes
<1>27. ASSUME NEW p \in Processes, Kill(p) PROVE TypeOK'
  BY <1>27 DEF Kill, Go, Unlocked, TypeOK, Steps, WaitOutcomes
<1>28. ASSUME NEW a \in Actors, ReconcileStart(a) PROVE TypeOK'
  BY <1>28 DEF ReconcileStart, TypeOK, Steps, WaitOutcomes
<1>29. ASSUME NEW a \in Actors, StillWaiting(a) PROVE TypeOK'
  BY <1>29 DEF StillWaiting, TypeOK, Steps, WaitOutcomes
<1>30. ASSUME NEW a \in Actors, ReconcileOpen(a) PROVE TypeOK'
  BY <1>30 DEF ReconcileOpen, TypeOK, Steps, WaitOutcomes
<1>31. ASSUME NEW a \in Actors, ReconcileAlive(a) PROVE TypeOK'
  BY <1>31 DEF ReconcileAlive, TypeOK, Steps, WaitOutcomes
<1>32. ASSUME NEW a \in Actors, ReconcileLock(a) PROVE TypeOK'
  BY <1>32 DEF ReconcileLock, TypeOK, Steps, WaitOutcomes
<1>33. ASSUME NEW a \in Actors, ReconcileRemove(a) PROVE TypeOK'
  BY <1>33 DEF ReconcileRemove, TypeOK, Steps, WaitOutcomes
<1>34. ASSUME NEW a \in Actors, ReconcileEnd(a) PROVE TypeOK'
  BY <1>34 DEF ReconcileEnd, EndWait, TypeOK, Steps, WaitOutcomes
<1>35. ASSUME NEW a \in Actors, ReconcileFails(a) PROVE TypeOK'
  BY <1>35 DEF ReconcileFails, StoreFails, LeaveReconcile, TypeOK, Steps, WaitOutcomes
<1>36. ASSUME NEW a \in Actors, ReconcileDone(a) PROVE TypeOK'
  BY <1>36 DEF ReconcileDone, LeaveReconcile, TypeOK, Steps, WaitOutcomes
<1>37. ASSUME NEW b \in Playbooks, TickTakes(b) PROVE TypeOK'
  BY <1>37 DEF TickTakes, TypeOK, Steps, WaitOutcomes
<1>38. ASSUME NEW b \in Playbooks, TickReleases(b) PROVE TypeOK'
  BY <1>38 DEF TickReleases, TypeOK, Steps, WaitOutcomes
<1>39. ASSUME NEW b \in Playbooks, Lapse(b) PROVE TypeOK'
  BY <1>39 DEF Lapse, TypeOK, Steps, WaitOutcomes
<1>40. ASSUME NEW b \in Playbooks, Edit(b) PROVE TypeOK'
  BY <1>40 DEF Edit, TypeOK, Steps, WaitOutcomes
<1>41. QED
  BY <1>1, <1>2, <1>3, <1>4, <1>5, <1>6, <1>7, <1>8, <1>9, <1>10, <1>11, <1>12, <1>13, <1>14,
       <1>15, <1>16, <1>17, <1>18, <1>19, <1>20, <1>21, <1>22, <1>23, <1>24, <1>25, <1>26, <1>27,
       <1>28, <1>29, <1>30, <1>31, <1>32, <1>33, <1>34, <1>35, <1>36, <1>37, <1>38, <1>39, <1>40
     DEF Next, ProcessStep, ReconcileStep, Environment

(* Every step keeps the locks and what a reconciliation knows in step with the processes. *)
LEMMA LifeStep ==
    ASSUME TypeOK, LifeInv, RecordInv, Next
    PROVE  LifeInv'
<1> USE ProcessesAssumption
    DEF PCs, Live, InWait, Entitled, Actors, proc, mem, inst, recon, store, disk
<1>1. ASSUME NEW p \in Processes, Start(p) PROVE LifeInv'
  BY <1>1 DEF Start, Go, TypeOK, LifeInv, InstanceInv, ReconcileInv, RecordInv
<1>2. ASSUME NEW p \in Processes, AskTaken(p) PROVE LifeInv'
  BY <1>2 DEF AskTaken, Go, TypeOK, LifeInv, InstanceInv, ReconcileInv, RecordInv
<1>3. ASSUME NEW p \in Processes, AskHeld(p) PROVE LifeInv'
  BY <1>3 DEF AskHeld, Go, TypeOK, LifeInv, InstanceInv, ReconcileInv, RecordInv
<1>4. ASSUME NEW p \in Processes, AskRefused(p) PROVE LifeInv'
  <2>1. Refused(p)
    BY <1>4, RefuseEffect DEF AskRefused
  <2>2. QED
    BY <1>4, <2>1 DEF AskRefused, Refused, TypeOK, LifeInv, InstanceInv, ReconcileInv, RecordInv
<1>5. ASSUME NEW p \in Processes, AcceptWaiting(p) PROVE LifeInv'
  BY <1>5 DEF AcceptWaiting, Go, SlotFull, TypeOK, LifeInv, InstanceInv, ReconcileInv, RecordInv
<1>6. ASSUME NEW p \in Processes, AcceptSlotFull(p) PROVE LifeInv'
  <2>1. Refused(p)
    BY <1>6, RefuseEffect DEF AcceptSlotFull
  <2>2. QED
    BY <1>6, <2>1 DEF AcceptSlotFull, Refused, TypeOK, LifeInv, InstanceInv, ReconcileInv, RecordInv
<1>7. ASSUME NEW p \in Processes, AcceptFails(p) PROVE LifeInv'
  BY <1>7 DEF AcceptFails, StoreFails, Go, TypeOK, LifeInv, InstanceInv, ReconcileInv, RecordInv
<1>8. ASSUME NEW p \in Processes, RoundWatch(p) PROVE LifeInv'
  BY <1>8 DEF RoundWatch, OnlyMoves, Go, TypeOK, LifeInv, InstanceInv, ReconcileInv, RecordInv
<1>9. ASSUME NEW p \in Processes, RoundExpired(p) PROVE LifeInv'
  <2>1. WaitEnded(p, "wait_expired")
    BY <1>9, EndOwnWaitEffect DEF RoundExpired, WaitOutcomes
  <2>2. QED
    BY <1>9, <2>1 DEF RoundExpired, WaitEnded, TypeOK, LifeInv, InstanceInv, ReconcileInv, RecordInv
<1>10. ASSUME NEW p \in Processes, WatchReturns(p) PROVE LifeInv'
  BY <1>10 DEF WatchReturns, OnlyMoves, Go, TypeOK, LifeInv, InstanceInv, ReconcileInv, RecordInv
<1>11. ASSUME NEW p \in Processes, WatchFails(p) PROVE LifeInv'
  <2>1. WaitEnded(p, "backend_unavailable")
    BY <1>11, EndOwnWaitEffect DEF WatchFails, WaitOutcomes
  <2>2. QED
    BY <1>11, <2>1 DEF WatchFails, WaitEnded, TypeOK, LifeInv, InstanceInv, ReconcileInv, RecordInv
<1>12. ASSUME NEW p \in Processes, ReadStamp(p) PROVE LifeInv'
  BY <1>12 DEF ReadStamp, Go, TypeOK, LifeInv, InstanceInv, ReconcileInv, RecordInv
<1>13. ASSUME NEW p \in Processes, Reload(p) PROVE LifeInv'
  BY <1>13 DEF Reload, Go, TypeOK, LifeInv, InstanceInv, ReconcileInv, RecordInv
<1>14. ASSUME NEW p \in Processes, ReloadRefused(p) PROVE LifeInv'
  <2>1. WaitEnded(p, "playbook_changed")
    BY <1>14, EndOwnWaitEffect DEF ReloadRefused, WaitOutcomes
  <2>2. QED
    BY <1>14, <2>1 DEF ReloadRefused, WaitEnded, TypeOK, LifeInv, InstanceInv, ReconcileInv,
         RecordInv
<1>15. ASSUME NEW p \in Processes, ClaimTaken(p) PROVE LifeInv'
  BY <1>15 DEF ClaimTaken, Go, TypeOK, LifeInv, InstanceInv, ReconcileInv, RecordInv
<1>16. ASSUME NEW p \in Processes, ClaimHeld(p) PROVE LifeInv'
  BY <1>16 DEF ClaimHeld, OnlyMoves, Go, TypeOK, LifeInv, InstanceInv, ReconcileInv, RecordInv
<1>17. ASSUME NEW p \in Processes, ClaimRefused(p) PROVE LifeInv'
  <2>1. PICK outcome \in {"rate_limited", "backend_unavailable"} : EndOwnWait(p, outcome)
    BY <1>17 DEF ClaimRefused
  <2>2. WaitEnded(p, outcome)
    BY <2>1, EndOwnWaitEffect DEF WaitOutcomes
  <2>3. QED
    BY <1>17, <2>1, <2>2 DEF ClaimRefused, WaitEnded, TypeOK, LifeInv, InstanceInv, ReconcileInv,
         RecordInv
<1>18. ASSUME NEW p \in Processes, GiveBack(p) PROVE LifeInv'
  BY <1>18 DEF GiveBack, Go, Release, TypeOK, LifeInv, InstanceInv, ReconcileInv, RecordInv
<1>19. ASSUME NEW p \in Processes, Admit(p) PROVE LifeInv'
  BY <1>19 DEF Admit, OnlyMoves, Go, TypeOK, LifeInv, InstanceInv, ReconcileInv, RecordInv
<1>20. ASSUME NEW p \in Processes, CreateRun(p) PROVE LifeInv'
  BY <1>20 DEF CreateRun, Go, TypeOK, LifeInv, InstanceInv, ReconcileInv, RecordInv
<1>21. ASSUME NEW p \in Processes, BeginFails(p) PROVE LifeInv'
  BY <1>21 DEF BeginFails, Go, Release, TypeOK, LifeInv, InstanceInv, ReconcileInv, RecordInv
<1>22. ASSUME NEW p \in Processes, Finish(p) PROVE LifeInv'
  BY <1>22 DEF Finish, Go, Release, TypeOK, LifeInv, InstanceInv, ReconcileInv, RecordInv
<1>23. ASSUME NEW p \in Processes, CloseRemove(p) PROVE LifeInv'
  BY <1>23 DEF CloseRemove, Go, TypeOK, LifeInv, InstanceInv, ReconcileInv, RecordInv
<1>24. ASSUME NEW p \in Processes, CloseUnlock(p) PROVE LifeInv'
  BY <1>24 DEF CloseUnlock, Go, TypeOK, LifeInv, InstanceInv, ReconcileInv, RecordInv
<1>25. ASSUME NEW p \in Processes, Expire(p) PROVE LifeInv'
  BY <1>25 DEF Expire, TypeOK, LifeInv, InstanceInv, ReconcileInv, RecordInv
<1>26. ASSUME NEW p \in Processes, StopWaiting(p) PROVE LifeInv'
  BY <1>26 DEF StopWaiting, OnlyMoves, Go, TypeOK, LifeInv, InstanceInv, ReconcileInv, RecordInv
<1>27. ASSUME NEW p \in Processes, Kill(p) PROVE LifeInv'
  BY <1>27 DEF Kill, Go, Unlocked, TypeOK, LifeInv, InstanceInv, ReconcileInv, RecordInv
<1>28. ASSUME NEW a \in Actors, ReconcileStart(a) PROVE LifeInv'
  BY <1>28 DEF ReconcileStart, TypeOK, LifeInv, InstanceInv, ReconcileInv, RecordInv
<1>29. ASSUME NEW a \in Actors, StillWaiting(a) PROVE LifeInv'
  BY <1>29 DEF StillWaiting, TypeOK, LifeInv, InstanceInv, ReconcileInv, RecordInv
<1>30. ASSUME NEW a \in Actors, ReconcileOpen(a) PROVE LifeInv'
  BY <1>30 DEF ReconcileOpen, TypeOK, LifeInv, InstanceInv, ReconcileInv, RecordInv
<1>31. ASSUME NEW a \in Actors, ReconcileAlive(a) PROVE LifeInv'
  BY <1>31 DEF ReconcileAlive, TypeOK, LifeInv, InstanceInv, ReconcileInv, RecordInv
<1>32. ASSUME NEW a \in Actors, ReconcileLock(a) PROVE LifeInv'
  BY <1>32 DEF ReconcileLock, TypeOK, LifeInv, InstanceInv, ReconcileInv, RecordInv
<1>33. ASSUME NEW a \in Actors, ReconcileRemove(a) PROVE LifeInv'
  BY <1>33 DEF ReconcileRemove, TypeOK, LifeInv, InstanceInv, ReconcileInv, RecordInv
<1>34. ASSUME NEW a \in Actors, ReconcileEnd(a) PROVE LifeInv'
  BY <1>34 DEF ReconcileEnd, EndWait, TypeOK, LifeInv, InstanceInv, ReconcileInv, RecordInv
<1>35. ASSUME NEW a \in Actors, ReconcileFails(a) PROVE LifeInv'
  BY <1>35 DEF ReconcileFails, StoreFails, LeaveReconcile, TypeOK, LifeInv, InstanceInv,
       ReconcileInv, RecordInv
<1>36. ASSUME NEW a \in Actors, ReconcileDone(a) PROVE LifeInv'
  BY <1>36 DEF ReconcileDone, LeaveReconcile, TypeOK, LifeInv, InstanceInv, ReconcileInv, RecordInv
<1>37. ASSUME NEW b \in Playbooks, TickTakes(b) PROVE LifeInv'
  BY <1>37 DEF TickTakes, TypeOK, LifeInv, InstanceInv, ReconcileInv, RecordInv
<1>38. ASSUME NEW b \in Playbooks, TickReleases(b) PROVE LifeInv'
  BY <1>38 DEF TickReleases, TypeOK, LifeInv, InstanceInv, ReconcileInv, RecordInv
<1>39. ASSUME NEW b \in Playbooks, Lapse(b) PROVE LifeInv'
  BY <1>39 DEF Lapse, TypeOK, LifeInv, InstanceInv, ReconcileInv, RecordInv
<1>40. ASSUME NEW b \in Playbooks, Edit(b) PROVE LifeInv'
  BY <1>40 DEF Edit, TypeOK, LifeInv, InstanceInv, ReconcileInv, RecordInv
<1>41. QED
  BY <1>1, <1>2, <1>3, <1>4, <1>5, <1>6, <1>7, <1>8, <1>9, <1>10, <1>11, <1>12, <1>13, <1>14,
       <1>15, <1>16, <1>17, <1>18, <1>19, <1>20, <1>21, <1>22, <1>23, <1>24, <1>25, <1>26, <1>27,
       <1>28, <1>29, <1>30, <1>31, <1>32, <1>33, <1>34, <1>35, <1>36, <1>37, <1>38, <1>39, <1>40
     DEF Next, ProcessStep, ReconcileStep, Environment

(* Every step keeps the record in step with the processes, and no ended wait changes. *)
LEMMA StoreStep ==
    ASSUME TypeOK, LifeInv, StoreInv, Next
    PROVE  StoreInv' /\ EndedStays
<1> USE ProcessesAssumption
    DEF PCs, Live, InWait, Entitled, Actors, proc, mem, inst, recon, store, disk
<1>1. ASSUME NEW p \in Processes, Start(p) PROVE StoreInv' /\ EndedStays
  BY <1>1 DEF Start, Go, TypeOK, LifeInv, ReconcileInv, StoreInv, RecordInv, OneWaiterPerPlaybook,
       RunXorRefusal, LiveWaitNotDropped, EndedStays, WaitOutcomes
<1>2. ASSUME NEW p \in Processes, AskTaken(p) PROVE StoreInv' /\ EndedStays
  BY <1>2 DEF AskTaken, Go, TypeOK, LifeInv, ReconcileInv, StoreInv, RecordInv,
       OneWaiterPerPlaybook, RunXorRefusal, LiveWaitNotDropped, EndedStays, WaitOutcomes
<1>3. ASSUME NEW p \in Processes, AskHeld(p) PROVE StoreInv' /\ EndedStays
  BY <1>3 DEF AskHeld, Go, TypeOK, LifeInv, ReconcileInv, StoreInv, RecordInv,
       OneWaiterPerPlaybook, RunXorRefusal, LiveWaitNotDropped, EndedStays, WaitOutcomes
<1>4. ASSUME NEW p \in Processes, AskRefused(p) PROVE StoreInv' /\ EndedStays
  BY <1>4, RefuseEffect, RefusedKeepsStore DEF AskRefused
<1>5. ASSUME NEW p \in Processes, AcceptWaiting(p) PROVE StoreInv' /\ EndedStays
  BY <1>5 DEF AcceptWaiting, Go, SlotFull, TypeOK, LifeInv, ReconcileInv, StoreInv, RecordInv,
       OneWaiterPerPlaybook, RunXorRefusal, LiveWaitNotDropped, EndedStays, WaitOutcomes
<1>6. ASSUME NEW p \in Processes, AcceptSlotFull(p) PROVE StoreInv' /\ EndedStays
  BY <1>6, RefuseEffect, RefusedKeepsStore DEF AcceptSlotFull
<1>7. ASSUME NEW p \in Processes, AcceptFails(p) PROVE StoreInv' /\ EndedStays
  BY <1>7 DEF AcceptFails, StoreFails, Go, TypeOK, LifeInv, ReconcileInv, StoreInv, RecordInv,
       OneWaiterPerPlaybook, RunXorRefusal, LiveWaitNotDropped, EndedStays, WaitOutcomes
<1>8. ASSUME NEW p \in Processes, RoundWatch(p) PROVE StoreInv' /\ EndedStays
  BY <1>8 DEF RoundWatch, OnlyMoves, Go, TypeOK, LifeInv, ReconcileInv, StoreInv, RecordInv,
       OneWaiterPerPlaybook, RunXorRefusal, LiveWaitNotDropped, EndedStays, WaitOutcomes
<1>9. ASSUME NEW p \in Processes, RoundExpired(p) PROVE StoreInv' /\ EndedStays
  <2>1. WaitEnded(p, "wait_expired")
    BY <1>9, EndOwnWaitEffect DEF RoundExpired, WaitOutcomes
  <2>2. QED
    BY <1>9, <2>1, WaitEndedKeepsStore DEF RoundExpired, WaitOutcomes
<1>10. ASSUME NEW p \in Processes, WatchReturns(p) PROVE StoreInv' /\ EndedStays
  BY <1>10 DEF WatchReturns, OnlyMoves, Go, TypeOK, LifeInv, ReconcileInv, StoreInv, RecordInv,
       OneWaiterPerPlaybook, RunXorRefusal, LiveWaitNotDropped, EndedStays, WaitOutcomes
<1>11. ASSUME NEW p \in Processes, WatchFails(p) PROVE StoreInv' /\ EndedStays
  <2>1. WaitEnded(p, "backend_unavailable")
    BY <1>11, EndOwnWaitEffect DEF WatchFails, WaitOutcomes
  <2>2. QED
    BY <1>11, <2>1, WaitEndedKeepsStore DEF WatchFails, WaitOutcomes
<1>12. ASSUME NEW p \in Processes, ReadStamp(p) PROVE StoreInv' /\ EndedStays
  BY <1>12 DEF ReadStamp, Go, TypeOK, LifeInv, ReconcileInv, StoreInv, RecordInv,
       OneWaiterPerPlaybook, RunXorRefusal, LiveWaitNotDropped, EndedStays, WaitOutcomes
<1>13. ASSUME NEW p \in Processes, Reload(p) PROVE StoreInv' /\ EndedStays
  BY <1>13 DEF Reload, Go, TypeOK, LifeInv, ReconcileInv, StoreInv, RecordInv,
       OneWaiterPerPlaybook, RunXorRefusal, LiveWaitNotDropped, EndedStays, WaitOutcomes
<1>14. ASSUME NEW p \in Processes, ReloadRefused(p) PROVE StoreInv' /\ EndedStays
  <2>1. WaitEnded(p, "playbook_changed")
    BY <1>14, EndOwnWaitEffect DEF ReloadRefused, WaitOutcomes
  <2>2. QED
    BY <1>14, <2>1, WaitEndedKeepsStore DEF ReloadRefused, WaitOutcomes
<1>15. ASSUME NEW p \in Processes, ClaimTaken(p) PROVE StoreInv' /\ EndedStays
  BY <1>15 DEF ClaimTaken, Go, TypeOK, LifeInv, ReconcileInv, StoreInv, RecordInv,
       OneWaiterPerPlaybook, RunXorRefusal, LiveWaitNotDropped, EndedStays, WaitOutcomes
<1>16. ASSUME NEW p \in Processes, ClaimHeld(p) PROVE StoreInv' /\ EndedStays
  BY <1>16 DEF ClaimHeld, OnlyMoves, Go, TypeOK, LifeInv, ReconcileInv, StoreInv, RecordInv,
       OneWaiterPerPlaybook, RunXorRefusal, LiveWaitNotDropped, EndedStays, WaitOutcomes
<1>17. ASSUME NEW p \in Processes, ClaimRefused(p) PROVE StoreInv' /\ EndedStays
  <2>1. PICK outcome \in {"rate_limited", "backend_unavailable"} : EndOwnWait(p, outcome)
    BY <1>17 DEF ClaimRefused
  <2>2. WaitEnded(p, outcome)
    BY <2>1, EndOwnWaitEffect DEF WaitOutcomes
  <2>3. QED
    BY <1>17, <2>2, WaitEndedKeepsStore DEF ClaimRefused, WaitOutcomes
<1>18. ASSUME NEW p \in Processes, GiveBack(p) PROVE StoreInv' /\ EndedStays
  BY <1>18 DEF GiveBack, Go, Release, TypeOK, LifeInv, ReconcileInv, StoreInv, RecordInv,
       OneWaiterPerPlaybook, RunXorRefusal, LiveWaitNotDropped, EndedStays, WaitOutcomes
<1>19. ASSUME NEW p \in Processes, Admit(p) PROVE StoreInv' /\ EndedStays
  BY <1>19 DEF Admit, OnlyMoves, Go, TypeOK, LifeInv, ReconcileInv, StoreInv, RecordInv,
       OneWaiterPerPlaybook, RunXorRefusal, LiveWaitNotDropped, EndedStays, WaitOutcomes
<1>20. ASSUME NEW p \in Processes, CreateRun(p) PROVE StoreInv' /\ EndedStays
  BY <1>20 DEF CreateRun, Go, TypeOK, LifeInv, ReconcileInv, StoreInv, RecordInv,
       OneWaiterPerPlaybook, RunXorRefusal, LiveWaitNotDropped, EndedStays, WaitOutcomes
<1>21. ASSUME NEW p \in Processes, BeginFails(p) PROVE StoreInv' /\ EndedStays
  BY <1>21 DEF BeginFails, Go, Release, TypeOK, LifeInv, ReconcileInv, StoreInv, RecordInv,
       OneWaiterPerPlaybook, RunXorRefusal, LiveWaitNotDropped, EndedStays, WaitOutcomes
<1>22. ASSUME NEW p \in Processes, Finish(p) PROVE StoreInv' /\ EndedStays
  BY <1>22 DEF Finish, Go, Release, TypeOK, LifeInv, ReconcileInv, StoreInv, RecordInv,
       OneWaiterPerPlaybook, RunXorRefusal, LiveWaitNotDropped, EndedStays, WaitOutcomes
<1>23. ASSUME NEW p \in Processes, CloseRemove(p) PROVE StoreInv' /\ EndedStays
  BY <1>23 DEF CloseRemove, Go, TypeOK, LifeInv, ReconcileInv, StoreInv, RecordInv,
       OneWaiterPerPlaybook, RunXorRefusal, LiveWaitNotDropped, EndedStays, WaitOutcomes
<1>24. ASSUME NEW p \in Processes, CloseUnlock(p) PROVE StoreInv' /\ EndedStays
  BY <1>24 DEF CloseUnlock, Go, TypeOK, LifeInv, ReconcileInv, StoreInv, RecordInv,
       OneWaiterPerPlaybook, RunXorRefusal, LiveWaitNotDropped, EndedStays, WaitOutcomes
<1>25. ASSUME NEW p \in Processes, Expire(p) PROVE StoreInv' /\ EndedStays
  BY <1>25 DEF Expire, TypeOK, LifeInv, ReconcileInv, StoreInv, RecordInv, OneWaiterPerPlaybook,
       RunXorRefusal, LiveWaitNotDropped, EndedStays, WaitOutcomes
<1>26. ASSUME NEW p \in Processes, StopWaiting(p) PROVE StoreInv' /\ EndedStays
  BY <1>26 DEF StopWaiting, OnlyMoves, Go, TypeOK, LifeInv, ReconcileInv, StoreInv, RecordInv,
       OneWaiterPerPlaybook, RunXorRefusal, LiveWaitNotDropped, EndedStays, WaitOutcomes
<1>27. ASSUME NEW p \in Processes, Kill(p) PROVE StoreInv' /\ EndedStays
  BY <1>27 DEF Kill, Go, Unlocked, TypeOK, LifeInv, ReconcileInv, StoreInv, RecordInv,
       OneWaiterPerPlaybook, RunXorRefusal, LiveWaitNotDropped, EndedStays, WaitOutcomes
<1>28. ASSUME NEW a \in Actors, ReconcileStart(a) PROVE StoreInv' /\ EndedStays
  BY <1>28 DEF ReconcileStart, TypeOK, LifeInv, ReconcileInv, StoreInv, RecordInv,
       OneWaiterPerPlaybook, RunXorRefusal, LiveWaitNotDropped, EndedStays, WaitOutcomes
<1>29. ASSUME NEW a \in Actors, StillWaiting(a) PROVE StoreInv' /\ EndedStays
  BY <1>29 DEF StillWaiting, TypeOK, LifeInv, ReconcileInv, StoreInv, RecordInv,
       OneWaiterPerPlaybook, RunXorRefusal, LiveWaitNotDropped, EndedStays, WaitOutcomes
<1>30. ASSUME NEW a \in Actors, ReconcileOpen(a) PROVE StoreInv' /\ EndedStays
  BY <1>30 DEF ReconcileOpen, TypeOK, LifeInv, ReconcileInv, StoreInv, RecordInv,
       OneWaiterPerPlaybook, RunXorRefusal, LiveWaitNotDropped, EndedStays, WaitOutcomes
<1>31. ASSUME NEW a \in Actors, ReconcileAlive(a) PROVE StoreInv' /\ EndedStays
  BY <1>31 DEF ReconcileAlive, TypeOK, LifeInv, ReconcileInv, StoreInv, RecordInv,
       OneWaiterPerPlaybook, RunXorRefusal, LiveWaitNotDropped, EndedStays, WaitOutcomes
<1>32. ASSUME NEW a \in Actors, ReconcileLock(a) PROVE StoreInv' /\ EndedStays
  BY <1>32 DEF ReconcileLock, TypeOK, LifeInv, ReconcileInv, StoreInv, RecordInv,
       OneWaiterPerPlaybook, RunXorRefusal, LiveWaitNotDropped, EndedStays, WaitOutcomes
<1>33. ASSUME NEW a \in Actors, ReconcileRemove(a) PROVE StoreInv' /\ EndedStays
  BY <1>33 DEF ReconcileRemove, TypeOK, LifeInv, ReconcileInv, StoreInv, RecordInv,
       OneWaiterPerPlaybook, RunXorRefusal, LiveWaitNotDropped, EndedStays, WaitOutcomes
<1>34. ASSUME NEW a \in Actors, ReconcileEnd(a) PROVE StoreInv' /\ EndedStays
  <2>1. /\ at[a] \in Processes /\ pc[at[a]] \in {"unlocking", "gone"} /\ at[a] \notin named[a]
        /\ UNCHANGED <<pc, runs>>
    BY <1>34 DEF ReconcileEnd, LifeInv, ReconcileInv
  <2>2. CASE UNCHANGED <<row, refusals>>
    BY <2>1, <2>2
       DEF StoreInv, RecordInv, OneWaiterPerPlaybook, RunXorRefusal, LiveWaitNotDropped, EndedStays
  <2>3. CASE /\ row[at[a]] = "waiting"
             /\ row' = [row EXCEPT ![at[a]] = "dropped"]
             /\ refusals' = [refusals EXCEPT ![at[a]] = refusals[at[a]] + 1]
    <3>1. /\ row'[at[a]] = "dropped" /\ refusals[at[a]] = 0 /\ refusals'[at[a]] = 1
          /\ runs[at[a]] = "none"
          /\ \A q \in Processes \ {at[a]} : row'[q] = row[q] /\ refusals'[q] = refusals[q]
      BY <2>1, <2>3 DEF TypeOK, StoreInv, RecordInv
    <3>2. RecordInv'
      BY <2>1, <3>1 DEF StoreInv, RecordInv
    <3>3. OneWaiterPerPlaybook' /\ LiveWaitNotDropped'
      BY <2>1, <3>1 DEF StoreInv, OneWaiterPerPlaybook, LiveWaitNotDropped
    <3>4. RunXorRefusal' /\ EndedStays
      BY <2>1, <2>3, <3>1 DEF StoreInv, RunXorRefusal, EndedStays, WaitOutcomes
    <3>5. QED
      BY <3>2, <3>3, <3>4 DEF StoreInv
  <2>4. QED
    BY <1>34, <2>1, <2>2, <2>3 DEF ReconcileEnd, EndWait
<1>35. ASSUME NEW a \in Actors, ReconcileFails(a) PROVE StoreInv' /\ EndedStays
  BY <1>35 DEF ReconcileFails, StoreFails, LeaveReconcile, TypeOK, LifeInv, ReconcileInv,
       StoreInv, RecordInv, OneWaiterPerPlaybook, RunXorRefusal, LiveWaitNotDropped, EndedStays,
       WaitOutcomes
<1>36. ASSUME NEW a \in Actors, ReconcileDone(a) PROVE StoreInv' /\ EndedStays
  BY <1>36 DEF ReconcileDone, LeaveReconcile, TypeOK, LifeInv, ReconcileInv, StoreInv, RecordInv,
       OneWaiterPerPlaybook, RunXorRefusal, LiveWaitNotDropped, EndedStays, WaitOutcomes
<1>37. ASSUME NEW b \in Playbooks, TickTakes(b) PROVE StoreInv' /\ EndedStays
  BY <1>37 DEF TickTakes, TypeOK, LifeInv, ReconcileInv, StoreInv, RecordInv,
       OneWaiterPerPlaybook, RunXorRefusal, LiveWaitNotDropped, EndedStays, WaitOutcomes
<1>38. ASSUME NEW b \in Playbooks, TickReleases(b) PROVE StoreInv' /\ EndedStays
  BY <1>38 DEF TickReleases, TypeOK, LifeInv, ReconcileInv, StoreInv, RecordInv,
       OneWaiterPerPlaybook, RunXorRefusal, LiveWaitNotDropped, EndedStays, WaitOutcomes
<1>39. ASSUME NEW b \in Playbooks, Lapse(b) PROVE StoreInv' /\ EndedStays
  BY <1>39 DEF Lapse, TypeOK, LifeInv, ReconcileInv, StoreInv, RecordInv, OneWaiterPerPlaybook,
       RunXorRefusal, LiveWaitNotDropped, EndedStays, WaitOutcomes
<1>40. ASSUME NEW b \in Playbooks, Edit(b) PROVE StoreInv' /\ EndedStays
  BY <1>40 DEF Edit, TypeOK, LifeInv, ReconcileInv, StoreInv, RecordInv, OneWaiterPerPlaybook,
       RunXorRefusal, LiveWaitNotDropped, EndedStays, WaitOutcomes
<1>41. QED
  BY <1>1, <1>2, <1>3, <1>4, <1>5, <1>6, <1>7, <1>8, <1>9, <1>10, <1>11, <1>12, <1>13, <1>14,
       <1>15, <1>16, <1>17, <1>18, <1>19, <1>20, <1>21, <1>22, <1>23, <1>24, <1>25, <1>26, <1>27,
       <1>28, <1>29, <1>30, <1>31, <1>32, <1>33, <1>34, <1>35, <1>36, <1>37, <1>38, <1>39, <1>40
     DEF Next, ProcessStep, ReconcileStep, Environment

(* Every step keeps the versions ordered. *)
LEMMA VersionStep ==
    ASSUME TypeOK, LifeInv, RecordInv, VersionInv, Next
    PROVE  VersionInv'
<1> USE ProcessesAssumption
    DEF PCs, Live, InWait, Entitled, Actors, proc, mem, inst, recon, store, disk
<1>1. ASSUME NEW p \in Processes, Start(p) PROVE VersionInv'
  BY <1>1 DEF Start, Go, TypeOK, LifeInv, ReconcileInv, RecordInv, VersionInv
<1>2. ASSUME NEW p \in Processes, AskTaken(p) PROVE VersionInv'
  BY <1>2 DEF AskTaken, Go, TypeOK, LifeInv, ReconcileInv, RecordInv, VersionInv
<1>3. ASSUME NEW p \in Processes, AskHeld(p) PROVE VersionInv'
  BY <1>3 DEF AskHeld, Go, TypeOK, LifeInv, ReconcileInv, RecordInv, VersionInv
<1>4. ASSUME NEW p \in Processes, AskRefused(p) PROVE VersionInv'
  <2>1. Refused(p)
    BY <1>4, RefuseEffect DEF AskRefused
  <2>2. QED
    BY <1>4, <2>1 DEF AskRefused, Refused, TypeOK, LifeInv, ReconcileInv, RecordInv, VersionInv
<1>5. ASSUME NEW p \in Processes, AcceptWaiting(p) PROVE VersionInv'
  BY <1>5 DEF AcceptWaiting, Go, SlotFull, TypeOK, LifeInv, ReconcileInv, RecordInv, VersionInv
<1>6. ASSUME NEW p \in Processes, AcceptSlotFull(p) PROVE VersionInv'
  <2>1. Refused(p)
    BY <1>6, RefuseEffect DEF AcceptSlotFull
  <2>2. QED
    BY <1>6, <2>1 DEF AcceptSlotFull, Refused, TypeOK, LifeInv, ReconcileInv, RecordInv, VersionInv
<1>7. ASSUME NEW p \in Processes, AcceptFails(p) PROVE VersionInv'
  BY <1>7 DEF AcceptFails, StoreFails, Go, TypeOK, LifeInv, ReconcileInv, RecordInv, VersionInv
<1>8. ASSUME NEW p \in Processes, RoundWatch(p) PROVE VersionInv'
  BY <1>8 DEF RoundWatch, OnlyMoves, Go, TypeOK, LifeInv, ReconcileInv, RecordInv, VersionInv
<1>9. ASSUME NEW p \in Processes, RoundExpired(p) PROVE VersionInv'
  <2>1. WaitEnded(p, "wait_expired")
    BY <1>9, EndOwnWaitEffect DEF RoundExpired, WaitOutcomes
  <2>2. QED
    BY <1>9, <2>1 DEF RoundExpired, WaitEnded, TypeOK, LifeInv, ReconcileInv, RecordInv, VersionInv
<1>10. ASSUME NEW p \in Processes, WatchReturns(p) PROVE VersionInv'
  BY <1>10 DEF WatchReturns, OnlyMoves, Go, TypeOK, LifeInv, ReconcileInv, RecordInv, VersionInv
<1>11. ASSUME NEW p \in Processes, WatchFails(p) PROVE VersionInv'
  <2>1. WaitEnded(p, "backend_unavailable")
    BY <1>11, EndOwnWaitEffect DEF WatchFails, WaitOutcomes
  <2>2. QED
    BY <1>11, <2>1 DEF WatchFails, WaitEnded, TypeOK, LifeInv, ReconcileInv, RecordInv, VersionInv
<1>12. ASSUME NEW p \in Processes, ReadStamp(p) PROVE VersionInv'
  BY <1>12 DEF ReadStamp, Go, TypeOK, LifeInv, ReconcileInv, RecordInv, VersionInv
<1>13. ASSUME NEW p \in Processes, Reload(p) PROVE VersionInv'
  BY <1>13 DEF Reload, Go, TypeOK, LifeInv, ReconcileInv, RecordInv, VersionInv
<1>14. ASSUME NEW p \in Processes, ReloadRefused(p) PROVE VersionInv'
  <2>1. WaitEnded(p, "playbook_changed")
    BY <1>14, EndOwnWaitEffect DEF ReloadRefused, WaitOutcomes
  <2>2. QED
    BY <1>14, <2>1 DEF ReloadRefused, WaitEnded, TypeOK, LifeInv, ReconcileInv, RecordInv,
         VersionInv
<1>15. ASSUME NEW p \in Processes, ClaimTaken(p) PROVE VersionInv'
  BY <1>15 DEF ClaimTaken, Go, TypeOK, LifeInv, ReconcileInv, RecordInv, VersionInv
<1>16. ASSUME NEW p \in Processes, ClaimHeld(p) PROVE VersionInv'
  BY <1>16 DEF ClaimHeld, OnlyMoves, Go, TypeOK, LifeInv, ReconcileInv, RecordInv, VersionInv
<1>17. ASSUME NEW p \in Processes, ClaimRefused(p) PROVE VersionInv'
  <2>1. PICK outcome \in {"rate_limited", "backend_unavailable"} : EndOwnWait(p, outcome)
    BY <1>17 DEF ClaimRefused
  <2>2. WaitEnded(p, outcome)
    BY <2>1, EndOwnWaitEffect DEF WaitOutcomes
  <2>3. QED
    BY <1>17, <2>1, <2>2 DEF ClaimRefused, WaitEnded, TypeOK, LifeInv, ReconcileInv, RecordInv,
         VersionInv
<1>18. ASSUME NEW p \in Processes, GiveBack(p) PROVE VersionInv'
  BY <1>18 DEF GiveBack, Go, Release, TypeOK, LifeInv, ReconcileInv, RecordInv, VersionInv
<1>19. ASSUME NEW p \in Processes, Admit(p) PROVE VersionInv'
  <2>1. /\ stamp[p] <= loaded[p] /\ loaded[p] <= claimedAt[p] /\ claimedAt[p] <= version[BookOf[p]]
        /\ stamp[p] = version[BookOf[p]]
    BY <1>19 DEF Admit, OnlyMoves, InWait, VersionInv
  <2>2. stamp[p] \in Int /\ loaded[p] \in Int /\ claimedAt[p] \in Int /\ version[BookOf[p]] \in Int
    BY DEF TypeOK
  <2>3. loaded[p] = claimedAt[p]
    BY <2>1, <2>2
  <2>4. QED
    BY <1>19, <2>3 DEF Admit, OnlyMoves, Go, TypeOK, LifeInv, ReconcileInv, RecordInv, VersionInv
<1>20. ASSUME NEW p \in Processes, CreateRun(p) PROVE VersionInv'
  BY <1>20 DEF CreateRun, Go, TypeOK, LifeInv, ReconcileInv, RecordInv, VersionInv
<1>21. ASSUME NEW p \in Processes, BeginFails(p) PROVE VersionInv'
  BY <1>21 DEF BeginFails, Go, Release, TypeOK, LifeInv, ReconcileInv, RecordInv, VersionInv
<1>22. ASSUME NEW p \in Processes, Finish(p) PROVE VersionInv'
  BY <1>22 DEF Finish, Go, Release, TypeOK, LifeInv, ReconcileInv, RecordInv, VersionInv
<1>23. ASSUME NEW p \in Processes, CloseRemove(p) PROVE VersionInv'
  BY <1>23 DEF CloseRemove, Go, TypeOK, LifeInv, ReconcileInv, RecordInv, VersionInv
<1>24. ASSUME NEW p \in Processes, CloseUnlock(p) PROVE VersionInv'
  BY <1>24 DEF CloseUnlock, Go, TypeOK, LifeInv, ReconcileInv, RecordInv, VersionInv
<1>25. ASSUME NEW p \in Processes, Expire(p) PROVE VersionInv'
  BY <1>25 DEF Expire, TypeOK, LifeInv, ReconcileInv, RecordInv, VersionInv
<1>26. ASSUME NEW p \in Processes, StopWaiting(p) PROVE VersionInv'
  BY <1>26 DEF StopWaiting, OnlyMoves, Go, TypeOK, LifeInv, ReconcileInv, RecordInv, VersionInv
<1>27. ASSUME NEW p \in Processes, Kill(p) PROVE VersionInv'
  BY <1>27 DEF Kill, Go, Unlocked, TypeOK, LifeInv, ReconcileInv, RecordInv, VersionInv
<1>28. ASSUME NEW a \in Actors, ReconcileStart(a) PROVE VersionInv'
  BY <1>28 DEF ReconcileStart, TypeOK, LifeInv, ReconcileInv, RecordInv, VersionInv
<1>29. ASSUME NEW a \in Actors, StillWaiting(a) PROVE VersionInv'
  BY <1>29 DEF StillWaiting, TypeOK, LifeInv, ReconcileInv, RecordInv, VersionInv
<1>30. ASSUME NEW a \in Actors, ReconcileOpen(a) PROVE VersionInv'
  BY <1>30 DEF ReconcileOpen, TypeOK, LifeInv, ReconcileInv, RecordInv, VersionInv
<1>31. ASSUME NEW a \in Actors, ReconcileAlive(a) PROVE VersionInv'
  BY <1>31 DEF ReconcileAlive, TypeOK, LifeInv, ReconcileInv, RecordInv, VersionInv
<1>32. ASSUME NEW a \in Actors, ReconcileLock(a) PROVE VersionInv'
  BY <1>32 DEF ReconcileLock, TypeOK, LifeInv, ReconcileInv, RecordInv, VersionInv
<1>33. ASSUME NEW a \in Actors, ReconcileRemove(a) PROVE VersionInv'
  BY <1>33 DEF ReconcileRemove, TypeOK, LifeInv, ReconcileInv, RecordInv, VersionInv
<1>34. ASSUME NEW a \in Actors, ReconcileEnd(a) PROVE VersionInv'
  BY <1>34 DEF ReconcileEnd, EndWait, TypeOK, LifeInv, ReconcileInv, RecordInv, VersionInv
<1>35. ASSUME NEW a \in Actors, ReconcileFails(a) PROVE VersionInv'
  BY <1>35 DEF ReconcileFails, StoreFails, LeaveReconcile, TypeOK, LifeInv, ReconcileInv,
       RecordInv, VersionInv
<1>36. ASSUME NEW a \in Actors, ReconcileDone(a) PROVE VersionInv'
  BY <1>36 DEF ReconcileDone, LeaveReconcile, TypeOK, LifeInv, ReconcileInv, RecordInv, VersionInv
<1>37. ASSUME NEW b \in Playbooks, TickTakes(b) PROVE VersionInv'
  BY <1>37 DEF TickTakes, TypeOK, LifeInv, ReconcileInv, RecordInv, VersionInv
<1>38. ASSUME NEW b \in Playbooks, TickReleases(b) PROVE VersionInv'
  BY <1>38 DEF TickReleases, TypeOK, LifeInv, ReconcileInv, RecordInv, VersionInv
<1>39. ASSUME NEW b \in Playbooks, Lapse(b) PROVE VersionInv'
  BY <1>39 DEF Lapse, TypeOK, LifeInv, ReconcileInv, RecordInv, VersionInv
<1>40. ASSUME NEW b \in Playbooks, Edit(b) PROVE VersionInv'
  <2>1. \A q \in Processes : BookOf[q] \in Playbooks
    OBVIOUS
  <2>2. \A q \in Processes : version[BookOf[q]] <= version'[BookOf[q]] /\ version'[BookOf[q]] \in
       Nat
    BY <1>40, <2>1 DEF Edit, TypeOK
  <2>3. UNCHANGED <<pc, mem, row>>
    BY <1>40 DEF Edit, proc, store
  <2>4. QED
    BY <2>1, <2>2, <2>3 DEF TypeOK, LifeInv, ReconcileInv, RecordInv, VersionInv
<1>41. QED
  BY <1>1, <1>2, <1>3, <1>4, <1>5, <1>6, <1>7, <1>8, <1>9, <1>10, <1>11, <1>12, <1>13, <1>14,
       <1>15, <1>16, <1>17, <1>18, <1>19, <1>20, <1>21, <1>22, <1>23, <1>24, <1>25, <1>26, <1>27,
       <1>28, <1>29, <1>30, <1>31, <1>32, <1>33, <1>34, <1>35, <1>36, <1>37, <1>38, <1>39, <1>40
     DEF Next, ProcessStep, ReconcileStep, Environment

(* The initial states satisfy the invariant. *)
LEMMA InitInv == Init => Inv
  BY ProcessesAssumption
     DEF Init, Inv, TypeOK, LifeInv, InstanceInv, ReconcileInv, StoreInv, RecordInv, VersionInv,
         OneWaiterPerPlaybook, RunXorRefusal, LiveWaitNotDropped,
         PCs, Live, InWait, Entitled, Steps, Actors, WaitOutcomes

(* Every step, and every stuttering one, keeps it, and leaves alone every wait
   that has ended. *)
LEMMA NextInv == Inv /\ [Next]_vars => Inv' /\ EndedStays
<1> SUFFICES ASSUME Inv, [Next]_vars PROVE Inv' /\ EndedStays
  OBVIOUS
<1>1. CASE Next
  BY <1>1, TypeStep, LifeStep, StoreStep, VersionStep DEF Inv, StoreInv, LifeInv
<1>2. CASE UNCHANGED vars
  BY <1>2 DEF vars, proc, mem, inst, recon, store, disk, EndedStays, Inv, TypeOK, LifeInv,
              InstanceInv, ReconcileInv, StoreInv, RecordInv, VersionInv,
              OneWaiterPerPlaybook, RunXorRefusal, LiveWaitNotDropped
<1>3. QED
  BY <1>1, <1>2

(* Every reachable state satisfies the inductive invariant. *)
THEOREM Invariance == Spec => []Inv
<1>1. Init => Inv
  BY InitInv
<1>2. Inv /\ [Next]_vars => Inv'
  BY NextInv
<1>3. QED
  BY <1>1, <1>2, PTL DEF Spec

(* The types hold in every reachable state. *)
THEOREM TypeCorrect == Spec => []TypeOK
<1>1. Inv => TypeOK
  BY DEF Inv
<1>2. QED
  BY <1>1, Invariance, PTL

(* FR-111 for any number of processes and playbooks: AcceptWaiting's one
   statement keeps at most one waiter per playbook. *)
THEOREM SlotHoldsOne == Spec => []OneWaiterPerPlaybook
<1>1. Inv => OneWaiterPerPlaybook
  BY DEF Inv, StoreInv
<1>2. QED
  BY <1>1, Invariance, PTL

(* FR-117: EndWait and CreateRun never record a trigger both as run and as
   refused, nor as refused twice, whoever races whom and whoever is killed. *)
THEOREM RunOrRefusal == Spec => []RunXorRefusal
<1>1. Inv => RunXorRefusal
  BY DEF Inv, StoreInv
<1>2. QED
  BY <1>1, Invariance, PTL

(* FR-113: alive's probe of the instance lock never lets Reconcile drop the
   wait of a process that could still run it. *)
THEOREM NoLiveDrop == Spec => []LiveWaitNotDropped
<1>1. Inv => LiveWaitNotDropped
  BY DEF Inv, StoreInv
<1>2. QED
  BY <1>1, Invariance, PTL

(* FR-121: with the stamp taken before the file is read and compared again
   after the claim is taken, a waiting trigger runs the file as it stood when
   its claim was taken. *)
THEOREM RunsCurrentFile == Spec => []RunsTheClaimedFile
<1>1. Inv => RunsTheClaimedFile
  BY DEF Inv, StoreInv, RecordInv, VersionInv, RunsTheClaimedFile
<1>2. QED
  BY <1>1, Invariance, PTL

(* waiting.go:125-127: a wait ends once. *)
THEOREM EndsOnce == Spec => WaitEndsOnce
<1>1. Inv /\ [Next]_vars =>
        [\A p \in Processes :
            row[p] \in WaitOutcomes => row'[p] = row[p] /\ refusals'[p] = refusals[p]]_vars
  BY NextInv DEF EndedStays
<1>2. QED
  BY <1>1, Invariance, PTL DEF Spec, WaitEndsOnce

-----------------------------------------------------------------------------
(***************************************************************************)
(* The holder's side of a claim, for every choice of durations             *)
(* Config.Check accepts, every number of side effects and every lateness   *)
(* of the timers.                                                          *)
(***************************************************************************)


(* The longest a run may go on after the deadline before it is decided on. *)
Slack == RenewBound + 2 * Late

(* The loop's own clock: an attempt starts no later than the deadline, and is
   over within its bound; the loop ends with a decision or with the run. *)
LoopInv ==
    /\ sent <= attempt /\ attempt <= now
    /\ loop = "top" => now <= StopDeadline(sent) + Slack
    /\ loop = "waiting" => wake <= StopDeadline(sent) /\ now <= StopDeadline(sent) + Late
    /\ loop = "asking" => /\ attempt <= StopDeadline(sent) + Late
                          /\ now <= attempt + RenewBound + Late
    /\ loop = "over" => stopped \/ stage \in {"over", "exited"}

(* The stop bound counts from a decision made in time. *)
StopInv ==
    stopped => /\ exitAt <= StopDeadline(sent) + Slack + StopBound
               /\ stage \notin {"over", "exited"} => now <= exitAt + Late

(* What the holder knows of the backend is never ahead of it. *)
LeaseInv ==
    /\ sent + ClaimExpiry <= lease
    /\ renewal = "extended" => attempt + ClaimExpiry <= lease
    /\ lostAt # -1 => sent <= lostAt
    /\ renewal = "extended" /\ lostAt # -1 => attempt <= lostAt

(* A fence answered "held" was sent before the claim was lost. *)
FenceInv ==
    /\ fenceSent <= now /\ began <= now
    /\ stage = "fencing" => now <= fenceSent + RenewBound + Late
    /\ stage = "fencing" => left > 0
    /\ stage = "gathering" => left = Effects
    /\ stage = "fencing" /\ fence = "held" /\ lostAt # -1 => fenceSent <= lostAt
    /\ NoEffectAfterLoss

HoldInv == HoldTypeOK /\ LoopInv /\ StopInv /\ LeaseInv /\ FenceInv

(* The durations are numbers, and Config.Check relates them. *)
LEMMA Durations ==
    /\ ClaimExpiry \in Nat /\ RenewEvery \in Nat /\ RenewBound \in Nat /\ StopBound \in Nat
    /\ DecisionBound \in Nat /\ MarginFloor \in Nat /\ Late \in Nat /\ Effects \in Nat
    /\ RenewEvery + RenewBound + StopBound + MarginFloor <= ClaimExpiry
    /\ Effects > 0 /\ MaxNow \in Nat
  BY ConfigAssumption, HoldBoundsAssumption

(* Every step keeps the types. *)
LEMMA HoldTypeStep ==
    ASSUME HoldTypeOK, FenceInv, HoldNext
    PROVE  HoldTypeOK'
<1> USE Durations DEF renewing, work, deciding, backend
<1>1. CASE Exit
  BY <1>1
     DEF Exit, HoldTypeOK, FenceInv
<1>2. CASE LoopDecides
  BY <1>2
     DEF LoopDecides, DecideToStop, HoldTypeOK, FenceInv
<1>3. CASE LoopWaits
  BY <1>3
     DEF LoopWaits, Least, HoldTypeOK, FenceInv
<1>4. CASE LoopOver
  BY <1>4
     DEF LoopOver, HoldTypeOK, FenceInv
<1>5. CASE LoopAsks
  BY <1>5
     DEF LoopAsks, HoldTypeOK, FenceInv
<1>6. CASE RenewArrives
  BY <1>6
     DEF RenewArrives, HoldTypeOK, FenceInv
<1>7. CASE RenewSucceeds
  BY <1>7
     DEF RenewSucceeds, HoldTypeOK, FenceInv
<1>8. CASE RenewalLost
  BY <1>8
     DEF RenewalLost, DecideToStop, HoldTypeOK, FenceInv
<1>9. CASE RenewFails
  BY <1>9
     DEF RenewFails, HoldTypeOK, FenceInv
<1>10. CASE Gathered
  BY <1>10
     DEF Gathered, AskFence, HoldTypeOK, FenceInv
<1>11. CASE FenceArrives
  BY <1>11
     DEF FenceArrives, HoldTypeOK, FenceInv
<1>12. CASE EffectBegins
  BY <1>12
     DEF EffectBegins, HoldTypeOK, FenceInv
<1>13. CASE EffectEnds
  BY <1>13
     DEF EffectEnds, AskFence, HoldTypeOK, FenceInv
<1>14. CASE FenceFails
  BY <1>14
     DEF FenceFails, DecideToStop, Finishes, HoldTypeOK, FenceInv
<1>15. CASE RunEnds
  BY <1>15
     DEF RunEnds, Finishes, HoldTypeOK, FenceInv
<1>16. CASE ReleaseArrives
  BY <1>16
     DEF ReleaseArrives, HoldTypeOK, FenceInv
<1>17. CASE Done
  BY <1>17
     DEF Done, HoldTypeOK, FenceInv
<1>18. CASE Lose
  BY <1>18
     DEF Lose, HoldTypeOK, FenceInv
<1>19. CASE ClockTicks
  BY <1>19
     DEF ClockTicks, HoldTypeOK, FenceInv
<1>20. QED
  BY <1>1, <1>2, <1>3, <1>4, <1>5, <1>6, <1>7, <1>8, <1>9, <1>10, <1>11, <1>12, <1>13, <1>14,
     <1>15, <1>16, <1>17, <1>18, <1>19 DEF HoldNext, RenewStep, RunStep

(* Every step keeps the loop's clock. *)
LEMMA LoopStep ==
    ASSUME HoldTypeOK, LoopInv, HoldNext
    PROVE  LoopInv'
<1> USE Durations DEF renewing, work, deciding, backend
<1>1. CASE Exit
  BY <1>1
     DEF Exit, HoldTypeOK, LoopInv, StopDeadline, Slack
<1>2. CASE LoopDecides
  BY <1>2
     DEF LoopDecides, DecideToStop, HoldTypeOK, LoopInv, StopDeadline, Slack
<1>3. CASE LoopWaits
  BY <1>3
     DEF LoopWaits, Least, HoldTypeOK, LoopInv, StopDeadline, Slack
<1>4. CASE LoopOver
  BY <1>4
     DEF LoopOver, HoldTypeOK, LoopInv, StopDeadline, Slack
<1>5. CASE LoopAsks
  BY <1>5
     DEF LoopAsks, HoldTypeOK, LoopInv, StopDeadline, Slack
<1>6. CASE RenewArrives
  BY <1>6
     DEF RenewArrives, HoldTypeOK, LoopInv, StopDeadline, Slack
<1>7. CASE RenewSucceeds
  BY <1>7
     DEF RenewSucceeds, HoldTypeOK, LoopInv, StopDeadline, Slack
<1>8. CASE RenewalLost
  BY <1>8
     DEF RenewalLost, DecideToStop, HoldTypeOK, LoopInv, StopDeadline, Slack
<1>9. CASE RenewFails
  BY <1>9
     DEF RenewFails, HoldTypeOK, LoopInv, StopDeadline, Slack
<1>10. CASE Gathered
  BY <1>10
     DEF Gathered, AskFence, HoldTypeOK, LoopInv, StopDeadline, Slack
<1>11. CASE FenceArrives
  BY <1>11
     DEF FenceArrives, HoldTypeOK, LoopInv, StopDeadline, Slack
<1>12. CASE EffectBegins
  BY <1>12
     DEF EffectBegins, HoldTypeOK, LoopInv, StopDeadline, Slack
<1>13. CASE EffectEnds
  BY <1>13
     DEF EffectEnds, AskFence, HoldTypeOK, LoopInv, StopDeadline, Slack
<1>14. CASE FenceFails
  BY <1>14
     DEF FenceFails, DecideToStop, Finishes, HoldTypeOK, LoopInv, StopDeadline, Slack
<1>15. CASE RunEnds
  BY <1>15
     DEF RunEnds, Finishes, HoldTypeOK, LoopInv, StopDeadline, Slack
<1>16. CASE ReleaseArrives
  BY <1>16
     DEF ReleaseArrives, HoldTypeOK, LoopInv, StopDeadline, Slack
<1>17. CASE Done
  BY <1>17
     DEF Done, HoldTypeOK, LoopInv, StopDeadline, Slack
<1>18. CASE Lose
  BY <1>18
     DEF Lose, HoldTypeOK, LoopInv, StopDeadline, Slack
<1>19. CASE ClockTicks
  BY <1>19
     DEF ClockTicks, HoldTypeOK, LoopInv, StopDeadline, Slack
<1>20. QED
  BY <1>1, <1>2, <1>3, <1>4, <1>5, <1>6, <1>7, <1>8, <1>9, <1>10, <1>11, <1>12, <1>13, <1>14,
     <1>15, <1>16, <1>17, <1>18, <1>19 DEF HoldNext, RenewStep, RunStep

(* Every step keeps the stop bound within a decision made in time. *)
LEMMA StopStep ==
    ASSUME HoldTypeOK, LoopInv, StopInv, HoldNext
    PROVE  StopInv'
<1> USE Durations DEF renewing, work, deciding, backend
<1>1. CASE Exit
  BY <1>1
     DEF Exit, HoldTypeOK, LoopInv, StopInv, StopDeadline, Slack
<1>2. CASE LoopDecides
  BY <1>2
     DEF LoopDecides, DecideToStop, HoldTypeOK, LoopInv, StopInv, StopDeadline, Slack
<1>3. CASE LoopWaits
  BY <1>3
     DEF LoopWaits, Least, HoldTypeOK, LoopInv, StopInv, StopDeadline, Slack
<1>4. CASE LoopOver
  BY <1>4
     DEF LoopOver, HoldTypeOK, LoopInv, StopInv, StopDeadline, Slack
<1>5. CASE LoopAsks
  BY <1>5
     DEF LoopAsks, HoldTypeOK, LoopInv, StopInv, StopDeadline, Slack
<1>6. CASE RenewArrives
  BY <1>6
     DEF RenewArrives, HoldTypeOK, LoopInv, StopInv, StopDeadline, Slack
<1>7. CASE RenewSucceeds
  BY <1>7
     DEF RenewSucceeds, HoldTypeOK, LoopInv, StopInv, StopDeadline, Slack
<1>8. CASE RenewalLost
  BY <1>8
     DEF RenewalLost, DecideToStop, HoldTypeOK, LoopInv, StopInv, StopDeadline, Slack
<1>9. CASE RenewFails
  BY <1>9
     DEF RenewFails, HoldTypeOK, LoopInv, StopInv, StopDeadline, Slack
<1>10. CASE Gathered
  BY <1>10
     DEF Gathered, AskFence, HoldTypeOK, LoopInv, StopInv, StopDeadline, Slack
<1>11. CASE FenceArrives
  BY <1>11
     DEF FenceArrives, HoldTypeOK, LoopInv, StopInv, StopDeadline, Slack
<1>12. CASE EffectBegins
  BY <1>12
     DEF EffectBegins, HoldTypeOK, LoopInv, StopInv, StopDeadline, Slack
<1>13. CASE EffectEnds
  BY <1>13
     DEF EffectEnds, AskFence, HoldTypeOK, LoopInv, StopInv, StopDeadline, Slack
<1>14. CASE FenceFails
  BY <1>14
     DEF FenceFails, DecideToStop, Finishes, HoldTypeOK, LoopInv, StopInv, StopDeadline, Slack
<1>15. CASE RunEnds
  BY <1>15
     DEF RunEnds, Finishes, HoldTypeOK, LoopInv, StopInv, StopDeadline, Slack
<1>16. CASE ReleaseArrives
  BY <1>16
     DEF ReleaseArrives, HoldTypeOK, LoopInv, StopInv, StopDeadline, Slack
<1>17. CASE Done
  BY <1>17
     DEF Done, HoldTypeOK, LoopInv, StopInv, StopDeadline, Slack
<1>18. CASE Lose
  BY <1>18
     DEF Lose, HoldTypeOK, LoopInv, StopInv, StopDeadline, Slack
<1>19. CASE ClockTicks
  BY <1>19
     DEF ClockTicks, HoldTypeOK, LoopInv, StopInv, StopDeadline, Slack
<1>20. QED
  BY <1>1, <1>2, <1>3, <1>4, <1>5, <1>6, <1>7, <1>8, <1>9, <1>10, <1>11, <1>12, <1>13, <1>14,
     <1>15, <1>16, <1>17, <1>18, <1>19 DEF HoldNext, RenewStep, RunStep

(* Every step keeps the holder behind the backend. *)
LEMMA LeaseStep ==
    ASSUME HoldTypeOK, LoopInv, LeaseInv, HoldNext
    PROVE  LeaseInv'
<1> USE Durations DEF renewing, work, deciding, backend
<1>1. CASE Exit
  BY <1>1
     DEF Exit, HoldTypeOK, LoopInv, LeaseInv
<1>2. CASE LoopDecides
  BY <1>2
     DEF LoopDecides, DecideToStop, HoldTypeOK, LoopInv, LeaseInv
<1>3. CASE LoopWaits
  BY <1>3
     DEF LoopWaits, Least, HoldTypeOK, LoopInv, LeaseInv
<1>4. CASE LoopOver
  BY <1>4
     DEF LoopOver, HoldTypeOK, LoopInv, LeaseInv
<1>5. CASE LoopAsks
  BY <1>5
     DEF LoopAsks, HoldTypeOK, LoopInv, LeaseInv
<1>6. CASE RenewArrives
  BY <1>6
     DEF RenewArrives, HoldTypeOK, LoopInv, LeaseInv
<1>7. CASE RenewSucceeds
  BY <1>7
     DEF RenewSucceeds, HoldTypeOK, LoopInv, LeaseInv
<1>8. CASE RenewalLost
  BY <1>8
     DEF RenewalLost, DecideToStop, HoldTypeOK, LoopInv, LeaseInv
<1>9. CASE RenewFails
  BY <1>9
     DEF RenewFails, HoldTypeOK, LoopInv, LeaseInv
<1>10. CASE Gathered
  BY <1>10
     DEF Gathered, AskFence, HoldTypeOK, LoopInv, LeaseInv
<1>11. CASE FenceArrives
  BY <1>11
     DEF FenceArrives, HoldTypeOK, LoopInv, LeaseInv
<1>12. CASE EffectBegins
  BY <1>12
     DEF EffectBegins, HoldTypeOK, LoopInv, LeaseInv
<1>13. CASE EffectEnds
  BY <1>13
     DEF EffectEnds, AskFence, HoldTypeOK, LoopInv, LeaseInv
<1>14. CASE FenceFails
  BY <1>14
     DEF FenceFails, DecideToStop, Finishes, HoldTypeOK, LoopInv, LeaseInv
<1>15. CASE RunEnds
  BY <1>15
     DEF RunEnds, Finishes, HoldTypeOK, LoopInv, LeaseInv
<1>16. CASE ReleaseArrives
  BY <1>16
     DEF ReleaseArrives, HoldTypeOK, LoopInv, LeaseInv
<1>17. CASE Done
  BY <1>17
     DEF Done, HoldTypeOK, LoopInv, LeaseInv
<1>18. CASE Lose
  BY <1>18
     DEF Lose, HoldTypeOK, LoopInv, LeaseInv
<1>19. CASE ClockTicks
  BY <1>19
     DEF ClockTicks, HoldTypeOK, LoopInv, LeaseInv
<1>20. QED
  BY <1>1, <1>2, <1>3, <1>4, <1>5, <1>6, <1>7, <1>8, <1>9, <1>10, <1>11, <1>12, <1>13, <1>14,
     <1>15, <1>16, <1>17, <1>18, <1>19 DEF HoldNext, RenewStep, RunStep

(* Every step keeps the fence ahead of its effect. *)
LEMMA FenceStep ==
    ASSUME HoldTypeOK, FenceInv, HoldNext
    PROVE  FenceInv'
<1> USE Durations DEF renewing, work, deciding, backend
<1>1. CASE Exit
  BY <1>1
     DEF Exit, HoldTypeOK, FenceInv, NoEffectAfterLoss
<1>2. CASE LoopDecides
  BY <1>2
     DEF LoopDecides, DecideToStop, HoldTypeOK, FenceInv, NoEffectAfterLoss
<1>3. CASE LoopWaits
  BY <1>3
     DEF LoopWaits, Least, HoldTypeOK, FenceInv, NoEffectAfterLoss
<1>4. CASE LoopOver
  BY <1>4
     DEF LoopOver, HoldTypeOK, FenceInv, NoEffectAfterLoss
<1>5. CASE LoopAsks
  BY <1>5
     DEF LoopAsks, HoldTypeOK, FenceInv, NoEffectAfterLoss
<1>6. CASE RenewArrives
  BY <1>6
     DEF RenewArrives, HoldTypeOK, FenceInv, NoEffectAfterLoss
<1>7. CASE RenewSucceeds
  BY <1>7
     DEF RenewSucceeds, HoldTypeOK, FenceInv, NoEffectAfterLoss
<1>8. CASE RenewalLost
  BY <1>8
     DEF RenewalLost, DecideToStop, HoldTypeOK, FenceInv, NoEffectAfterLoss
<1>9. CASE RenewFails
  BY <1>9
     DEF RenewFails, HoldTypeOK, FenceInv, NoEffectAfterLoss
<1>10. CASE Gathered
  BY <1>10
     DEF Gathered, AskFence, HoldTypeOK, FenceInv, NoEffectAfterLoss
<1>11. CASE FenceArrives
  BY <1>11
     DEF FenceArrives, HoldTypeOK, FenceInv, NoEffectAfterLoss
<1>12. CASE EffectBegins
  BY <1>12
     DEF EffectBegins, HoldTypeOK, FenceInv, NoEffectAfterLoss
<1>13. CASE EffectEnds
  BY <1>13
     DEF EffectEnds, AskFence, HoldTypeOK, FenceInv, NoEffectAfterLoss
<1>14. CASE FenceFails
  BY <1>14
     DEF FenceFails, DecideToStop, Finishes, HoldTypeOK, FenceInv, NoEffectAfterLoss
<1>15. CASE RunEnds
  BY <1>15
     DEF RunEnds, Finishes, HoldTypeOK, FenceInv, NoEffectAfterLoss
<1>16. CASE ReleaseArrives
  BY <1>16
     DEF ReleaseArrives, HoldTypeOK, FenceInv, NoEffectAfterLoss
<1>17. CASE Done
  BY <1>17
     DEF Done, HoldTypeOK, FenceInv, NoEffectAfterLoss
<1>18. CASE Lose
  BY <1>18
     DEF Lose, HoldTypeOK, FenceInv, NoEffectAfterLoss
<1>19. CASE ClockTicks
  BY <1>19
     DEF ClockTicks, HoldTypeOK, FenceInv, NoEffectAfterLoss
<1>20. QED
  BY <1>1, <1>2, <1>3, <1>4, <1>5, <1>6, <1>7, <1>8, <1>9, <1>10, <1>11, <1>12, <1>13, <1>14,
     <1>15, <1>16, <1>17, <1>18, <1>19 DEF HoldNext, RenewStep, RunStep

(* The initial states satisfy the invariant, when the decision fits. *)
LEMMA HoldInitInv == DecisionFits /\ HoldInit => HoldInv
<1> SUFFICES ASSUME DecisionFits, HoldInit PROVE HoldInv
  OBVIOUS
<1>1. PICK granted \in 0..now : lease = granted + ClaimExpiry
  BY DEF HoldInit
<1>2. /\ now \in Nat /\ now <= DecisionBound + Late
      /\ lease \in Nat /\ ClaimExpiry <= lease
  BY <1>1, Durations DEF HoldInit
<1>3. HoldTypeOK
  <2>1. {now, sent, attempt, wake, fenceSent, began, exitAt, lease} \subseteq Nat
    BY <1>2 DEF HoldInit
  <2>2. left \in 0..Effects
    BY Durations DEF HoldInit
  <2>3. QED
    BY <2>1, <2>2 DEF HoldInit, HoldTypeOK
<1>4. LoopInv
  BY <1>2, Durations DEF HoldInit, DecisionFits, LoopInv, StopDeadline, Slack
<1>5. StopInv /\ LeaseInv /\ FenceInv
  BY <1>2, Durations DEF HoldInit, StopInv, LeaseInv, FenceInv, NoEffectAfterLoss
<1>6. QED
  BY <1>3, <1>4, <1>5 DEF HoldInv

(* Every step, and every stuttering one, keeps it. *)
LEMMA HoldNextInv == HoldInv /\ [HoldNext]_holdVars => HoldInv'
<1> SUFFICES ASSUME HoldInv, [HoldNext]_holdVars PROVE HoldInv'
  OBVIOUS
<1>1. CASE HoldNext
  BY <1>1, HoldTypeStep, LoopStep, StopStep, LeaseStep, FenceStep DEF HoldInv
<1>2. CASE UNCHANGED holdVars
  BY <1>2
     DEF holdVars, renewing, work, deciding, backend, HoldInv, HoldTypeOK, LoopInv, StopInv,
         LeaseInv, FenceInv, NoEffectAfterLoss
<1>3. QED
  BY <1>1, <1>2

(* Every reachable state satisfies the inductive invariant. *)
THEOREM HoldInvariance == ASSUME DecisionFits PROVE HoldSpec => []HoldInv
<1>1. HoldInit => HoldInv
  BY HoldInitInv
<1>2. HoldInv /\ [HoldNext]_holdVars => HoldInv'
  BY HoldNextInv
<1>3. QED
  BY <1>1, <1>2, PTL DEF HoldSpec

(* The types hold in every reachable state. *)
THEOREM HoldTypeCorrect == ASSUME DecisionFits PROVE HoldSpec => []HoldTypeOK
<1>1. HoldInv => HoldTypeOK
  BY DEF HoldInv
<1>2. QED
  BY <1>1, HoldInvariance, PTL

(* renew decides at most one bounded attempt after the deadline, for every
   choice of durations whose decision bound fits, whatever attempts fail, hang
   or lose their answer. *)
THEOREM DecisionInTime == ASSUME DecisionFits PROVE HoldSpec => []DecidesInTime
<1>1. HoldInv => DecidesInTime
  BY Durations DEF HoldInv, HoldTypeOK, LoopInv, DecidesInTime, Going, StopDeadline, Slack
<1>2. QED
  BY <1>1, HoldInvariance, PTL

(* For every choice of durations Check accepts, whether or not the margin
   covers an attempt: a run still going when its claim can have lapsed is over
   within what an attempt made at the deadline, and late timers, add to the
   margin. *)
THEOREM OverrunIsBounded == ASSUME DecisionFits PROVE HoldSpec => []LapseOverrunBounded
<1>1. HoldInv => LapseOverrunBounded
  BY Durations
     DEF HoldInv, HoldTypeOK, LoopInv, StopInv, LeaseInv, LapseOverrunBounded, Going,
         StopDeadline, Slack
<1>2. QED
  BY <1>1, HoldInvariance, PTL

(* R2: a lost claim stops its run, even when no answer says it was lost. *)
THEOREM LossStops == ASSUME DecisionFits PROVE HoldSpec => []LossStopsTheRun
<1>1. HoldInv => LossStopsTheRun
  BY Durations
     DEF HoldInv, HoldTypeOK, LoopInv, LeaseInv, LossStopsTheRun, Going, StopDeadline, Slack
<1>2. QED
  BY <1>1, HoldInvariance, PTL

(* R3: no side effect begins more than one bounded fence after the claim was
   lost. *)
THEOREM FenceHolds == ASSUME DecisionFits PROVE HoldSpec => []NoEffectAfterLoss
<1>1. HoldInv => NoEffectAfterLoss
  BY DEF HoldInv, FenceInv
<1>2. QED
  BY <1>1, HoldInvariance, PTL

=============================================================================

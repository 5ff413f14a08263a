-------------------------- MODULE SedaPoolSchedule --------------------------
(***************************************************************************)
(* Preservation of the invariant by the calls of Threadpool::schedule,     *)
(* whichever thread makes them.                                            *)
(***************************************************************************)
EXTENDS SedaPoolInvariant

\* Where thread t continues after a call of schedule().
Continuation(t, next) ==
  \/ t \in Workers /\ pc[t] = "schedule" /\ next = "handle"
  \/ t \in Clients /\ pc[t] = "schedule" /\ next = "ready"
  \/ t = Admin /\ pc[t] \in {"backlog", "schedule"} /\ next \in {"backlog", "kill_gen"}

\* What a call of schedule() changes: one more place in the run queue, one
\* pending call less if there was one, and perhaps one thread less asleep.
LEMMA ScheduleEffect ==
  ASSUME IInv, NEW t \in Threads, NEW stage \in AllStages, NEW next,
         Continuation(t, next), schedule(t, stage, next),
         UNCHANGED <<run_stage, target>>
  PROVE  /\ run_queue' \in Seq(AllStages) /\ PcTyped' /\ pc'[t] = next
         /\ t # Admin => pc'[Admin] = pc[Admin]
         /\ \A s \in AllStages :
              /\ Cardinality(Queued(s)') = Cardinality(Queued(s)) + (IF s = stage THEN 1 ELSE 0)
              /\ Cardinality(Scheduling(s)') =
                   Cardinality(Scheduling(s)) - (IF t \in Scheduling(s) THEN 1 ELSE 0)
              /\ Removing(s)' = Removing(s) /\ Holders(s)' = Holders(s)
         /\ Resting' = Resting /\ Alive' = Alive /\ BeingKilled' = BeingKilled
         /\ \A v \in Workers : pc'[v] = "schedule" => run_stage'[v] # KillThreads
<1> USE DEF IInv
<1>0. Countable
  BY CountsAreNumbers
<1> DEFINE AllPc == WorkerPc \cup AdminPc \cup {"ready"}
<1>1. /\ pc' \in [Threads -> AllPc]
      /\ pc'[t] = next
      /\ \A x \in Threads :
           x # t => \/ pc'[x] = pc[x]
                    \/ x \in Workers /\ pc[x] = "idle" /\ pc'[x] = "woken"
  <2>1. next \in AllPc /\ "woken" \in AllPc /\ pc[t] # "idle" /\ pc \in [Threads -> AllPc]
    BY DEF Continuation, WorkerPc, AdminPc, Typed, PcTyped
  <2> HIDE DEF AllPc
  <2>2. CASE pc' = [pc EXCEPT ![t] = next]
    BY <2>1, <2>2
  <2>3. CASE \E w \in Idle : pc' = [pc EXCEPT ![t] = next, ![w] = "woken"]
    <3>1. PICK w \in Idle : pc' = [pc EXCEPT ![t] = next, ![w] = "woken"]
      BY ZenonT(30), <2>3
    <3>2. w \in Workers /\ w \in Threads /\ w # t /\ pc[w] = "idle"
      BY <2>1, Kinds DEF Idle
    <3> QED
      BY <2>1, <3>1, <3>2
  <2> QED
    BY <2>2, <2>3 DEF schedule
<1>2. PcTyped'
  BY ZenonT(30), <1>1, Kinds DEF Typed, PcTyped, Continuation, WorkerPc, AdminPc
<1>3. run_queue' = Append(run_queue, stage) /\ run_queue \in Seq(AllStages)
  BY DEF schedule, Typed
<1>4. run_queue' \in Seq(AllStages)
  BY <1>3
<1>5. ASSUME NEW s \in AllStages
      PROVE  Cardinality(Queued(s)') = Cardinality(Queued(s)) + (IF s = stage THEN 1 ELSE 0)
  <2>1. Cardinality(Occurrences(Append(run_queue, stage), s)) =
          Cardinality(Occurrences(run_queue, s)) + (IF stage = s THEN 1 ELSE 0)
    BY <1>3, AppendOccurrences
  <2>2. Queued(s) = Occurrences(run_queue, s) /\ Queued(s)' = Occurrences(Append(run_queue, stage), s)
    BY <1>3 DEF Queued
  <2> QED
    BY <2>1, <2>2
<1>6. ASSUME NEW s \in AllStages
      PROVE  Cardinality(Scheduling(s)') =
               Cardinality(Scheduling(s)) - (IF t \in Scheduling(s) THEN 1 ELSE 0)
  <2>1. Scheduling(s)' = Scheduling(s) \ {t}
    BY <1>1 DEF Scheduling, Continuation
  <2> QED
    BY SMTT(30), <1>0, <2>1, CountRemove DEF Countable
<1>7. ASSUME NEW s \in AllStages
      PROVE  Removing(s)' = Removing(s) /\ Holders(s)' = Holders(s)
  BY <1>1, Kinds DEF Removing, Holders, Continuation
<1>8. Resting' = Resting /\ Alive' = Alive /\ BeingKilled' = BeingKilled
  BY <1>1, Kinds DEF Resting, Alive, BeingKilled, Killed, Continuation, PoolLedger
<1>9. \A v \in Workers : pc'[v] = "schedule" => run_stage'[v] # KillThreads
  BY <1>1, Kinds DEF PoolLedger, Continuation
<1>10. t # Admin => pc'[Admin] = pc[Admin]
  BY <1>1, Kinds
<1> QED
  BY <1>1, <1>2, <1>4, <1>5, <1>6, <1>7, <1>8, <1>9, <1>10

\* A client or a service thread completes its add_event().
LEMMA ScheduleTargetStep ==
  ASSUME NEW t \in Workers \cup Clients, IInv, ScheduleTarget(t)
  PROVE  IInv'
<1> USE DEF IInv
<1>0. Countable /\ t \in Threads /\ t # Admin
  BY CountsAreNumbers, Kinds
<1>a. PICK stage \in AllStages : stage = target[t]
  BY <1>0 DEF Typed
<1>b. PICK next : next = IF t \in Workers THEN "handle" ELSE "ready"
  OBVIOUS
<1>1. schedule(t, stage, next) /\ Continuation(t, next) /\ UNCHANGED <<run_stage, target>>
  BY <1>0, <1>a, <1>b, Kinds DEF ScheduleTarget, Continuation
<1>2. \A s \in AllStages : t \in Scheduling(s) <=> s = stage
  BY <1>0, <1>a DEF ScheduleTarget, Scheduling
<1>3. /\ run_queue' \in Seq(AllStages) /\ PcTyped' /\ pc'[Admin] = pc[Admin]
      /\ \A s \in AllStages :
           /\ Cardinality(Queued(s)') = Cardinality(Queued(s)) + (IF s = stage THEN 1 ELSE 0)
           /\ Cardinality(Scheduling(s)') =
                Cardinality(Scheduling(s)) - (IF s = stage THEN 1 ELSE 0)
           /\ Removing(s)' = Removing(s) /\ Holders(s)' = Holders(s)
      /\ Resting' = Resting /\ Alive' = Alive /\ BeingKilled' = BeingKilled
      /\ \A v \in Workers : pc'[v] = "schedule" => run_stage'[v] # KillThreads
  BY <1>0, <1>1, <1>2, ScheduleEffect
<1>c. /\ run_queue' \in Seq(AllStages) /\ PcTyped' /\ pc'[Admin] = pc[Admin]
      /\ \A s \in AllStages : Removing(s)' = Removing(s) /\ Holders(s)' = Holders(s)
      /\ Resting' = Resting /\ Alive' = Alive /\ BeingKilled' = BeingKilled
      /\ \A v \in Workers : pc'[v] = "schedule" => run_stage'[v] # KillThreads
  BY ZenonT(30), <1>3
<1>4. Typed'
  BY <1>c DEF Typed, ScheduleTarget, stageVars
<1>5. \A s \in AllStages : Backlog(s)' = Backlog(s)
  BY <1>c DEF Backlog, ScheduleTarget
<1>6. \A s \in AllStages : Tokens(s)' = Tokens(s)
  <2> SUFFICES ASSUME NEW s \in AllStages PROVE Tokens(s)' = Tokens(s)
    OBVIOUS
  <2>a. /\ Cardinality(Queued(s)) \in Nat /\ Cardinality(Scheduling(s)) \in Nat
        /\ Cardinality(Removing(s)) \in Nat /\ Backlog(s) \in Nat
    BY <1>0 DEF Countable
  <2>1. CASE s = stage
    <3>1. /\ Cardinality(Queued(s)') = Cardinality(Queued(s)) + 1 /\ Removing(s)' = Removing(s)
          /\ Cardinality(Scheduling(s)') = Cardinality(Scheduling(s)) - 1
          /\ Backlog(s)' = Backlog(s)
      BY <1>3, <1>5, <2>a, <2>1
    <3> QED
      BY <2>a, <3>1 DEF Tokens
  <2>2. CASE s # stage
    <3>1. /\ Cardinality(Queued(s)') = Cardinality(Queued(s)) /\ Removing(s)' = Removing(s)
          /\ Cardinality(Scheduling(s)') = Cardinality(Scheduling(s)) /\ Backlog(s)' = Backlog(s)
      BY <1>3, <1>5, <2>a, <2>2
    <3> QED
      BY <3>1 DEF Tokens
  <2> QED
    BY <2>1, <2>2
<1>7. StageLedger'
  BY <1>c, <1>6 DEF StageLedger, ScheduleTarget, stageVars
<1>8. StagePhases'
  BY <1>c DEF StagePhases, ScheduleTarget, stageVars, Killing, Disconnecting
<1>9. PoolLedger'
  BY <1>c, <1>6, Kinds
  DEF PoolLedger, ScheduleTarget, stageVars, Killing, Disconnecting, PendingKills
<1> QED
  BY <1>4, <1>7, <1>8, <1>9

\* connect() schedules the stage for an event that was waiting.
LEMMA ScheduleBacklogStep ==
  ASSUME IInv, ScheduleBacklog
  PROVE  IInv'
<1> USE DEF IInv
<1>0. Countable /\ Admin \in Threads /\ Admin \notin Workers
  BY CountsAreNumbers, Kinds
<1>a. PICK stage \in AllStages : stage = target[Admin]
  BY <1>0 DEF Typed
<1>1. schedule(Admin, stage, "backlog") /\ Continuation(Admin, "backlog")
      /\ UNCHANGED <<run_stage, target>>
  BY <1>a DEF ScheduleBacklog, Continuation
<1>2. \A s \in AllStages : Admin \notin Scheduling(s)
  BY DEF ScheduleBacklog, Scheduling
<1>3. /\ run_queue' \in Seq(AllStages) /\ PcTyped' /\ pc'[Admin] = "backlog"
      /\ \A s \in AllStages :
           /\ Cardinality(Queued(s)') = Cardinality(Queued(s)) + (IF s = stage THEN 1 ELSE 0)
           /\ Cardinality(Scheduling(s)') = Cardinality(Scheduling(s)) - 0
           /\ Removing(s)' = Removing(s) /\ Holders(s)' = Holders(s)
      /\ Resting' = Resting /\ Alive' = Alive /\ BeingKilled' = BeingKilled
      /\ \A v \in Workers : pc'[v] = "schedule" => run_stage'[v] # KillThreads
  BY <1>0, <1>1, <1>2, ScheduleEffect
<1>c. /\ run_queue' \in Seq(AllStages) /\ PcTyped' /\ pc'[Admin] = "backlog"
      /\ \A s \in AllStages : Removing(s)' = Removing(s) /\ Holders(s)' = Holders(s)
      /\ Resting' = Resting /\ Alive' = Alive /\ BeingKilled' = BeingKilled
      /\ \A v \in Workers : pc'[v] = "schedule" => run_stage'[v] # KillThreads
  BY ZenonT(30), <1>3
<1>4. Typed'
  BY <1>c DEF Typed, ScheduleBacklog, stageVars
<1>5. \A s \in AllStages : Backlog(s)' = Backlog(s) - (IF s = stage THEN 1 ELSE 0)
  BY <1>a, <1>c DEF Backlog, ScheduleBacklog, Typed
<1>6. \A s \in AllStages : Tokens(s)' = Tokens(s)
  <2> SUFFICES ASSUME NEW s \in AllStages PROVE Tokens(s)' = Tokens(s)
    OBVIOUS
  <2>a. /\ Cardinality(Queued(s)) \in Nat /\ Cardinality(Scheduling(s)) \in Nat
        /\ Cardinality(Removing(s)) \in Nat /\ Backlog(s) \in Nat
    BY <1>0 DEF Countable
  <2>1. CASE s = stage
    <3>1. /\ Cardinality(Queued(s)') = Cardinality(Queued(s)) + 1 /\ Removing(s)' = Removing(s)
          /\ Cardinality(Scheduling(s)') = Cardinality(Scheduling(s))
          /\ Backlog(s)' = Backlog(s) - 1
      BY <1>3, <1>5, <2>a, <2>1
    <3> QED
      BY <2>a, <3>1 DEF Tokens
  <2>2. CASE s # stage
    <3>1. /\ Cardinality(Queued(s)') = Cardinality(Queued(s)) /\ Removing(s)' = Removing(s)
          /\ Cardinality(Scheduling(s)') = Cardinality(Scheduling(s)) /\ Backlog(s)' = Backlog(s)
      BY <1>3, <1>5, <2>a, <2>2
    <3> QED
      BY <3>1 DEF Tokens
  <2> QED
    BY <2>1, <2>2
<1>7. StageLedger'
  BY <1>c, <1>6 DEF StageLedger, ScheduleBacklog, stageVars
<1>8. StagePhases'
  BY <1>c DEF StagePhases, ScheduleBacklog, stageVars, Killing, Disconnecting
<1>9. ~Killing
  BY SMTT(30) DEF PoolLedger, ScheduleBacklog
<1>10. PoolLedger'
  BY <1>c, <1>6, <1>9, Kinds
  DEF PoolLedger, ScheduleBacklog, stageVars, Killing, Disconnecting, PendingKills
<1> QED
  BY <1>4, <1>7, <1>8, <1>10

\* gen_kill_thread_events() schedules the KillThreads stage.
LEMMA ScheduleKillStep ==
  ASSUME IInv, ScheduleKill
  PROVE  IInv'
<1> USE DEF IInv
<1>0. Countable /\ Admin \in Threads /\ Admin \notin Workers
  BY CountsAreNumbers, Kinds
<1>1. schedule(Admin, KillThreads, "kill_gen") /\ Continuation(Admin, "kill_gen")
      /\ UNCHANGED <<run_stage, target>>
  BY DEF ScheduleKill, Continuation
<1>2. \A s \in AllStages : Admin \in Scheduling(s) <=> s = KillThreads
  BY <1>0 DEF ScheduleKill, Scheduling, StagePhases
<1>3. /\ run_queue' \in Seq(AllStages) /\ PcTyped' /\ pc'[Admin] = "kill_gen"
      /\ \A s \in AllStages :
           /\ Cardinality(Queued(s)') = Cardinality(Queued(s)) + (IF s = KillThreads THEN 1 ELSE 0)
           /\ Cardinality(Scheduling(s)') =
                Cardinality(Scheduling(s)) - (IF s = KillThreads THEN 1 ELSE 0)
           /\ Removing(s)' = Removing(s) /\ Holders(s)' = Holders(s)
      /\ Resting' = Resting /\ Alive' = Alive /\ BeingKilled' = BeingKilled
      /\ \A v \in Workers : pc'[v] = "schedule" => run_stage'[v] # KillThreads
  BY SMTT(30), <1>0, <1>1, <1>2, ScheduleEffect, Kinds
<1>c. /\ run_queue' \in Seq(AllStages) /\ PcTyped' /\ pc'[Admin] = "kill_gen"
      /\ \A s \in AllStages : Removing(s)' = Removing(s) /\ Holders(s)' = Holders(s)
      /\ Resting' = Resting /\ Alive' = Alive /\ BeingKilled' = BeingKilled
      /\ \A v \in Workers : pc'[v] = "schedule" => run_stage'[v] # KillThreads
  BY ZenonT(30), <1>3
<1>4. Typed'
  BY <1>c DEF Typed, ScheduleKill, stageVars
<1>5. \A s \in AllStages : Backlog(s)' = Backlog(s)
  BY <1>c DEF Backlog, ScheduleKill
<1>6. \A s \in AllStages : Tokens(s)' = Tokens(s)
  <2> SUFFICES ASSUME NEW s \in AllStages PROVE Tokens(s)' = Tokens(s)
    OBVIOUS
  <2>a. /\ Cardinality(Queued(s)) \in Nat /\ Cardinality(Scheduling(s)) \in Nat
        /\ Cardinality(Removing(s)) \in Nat /\ Backlog(s) \in Nat
    BY <1>0 DEF Countable
  <2>1. CASE s = KillThreads
    <3>1. /\ Cardinality(Queued(s)') = Cardinality(Queued(s)) + 1 /\ Removing(s)' = Removing(s)
          /\ Cardinality(Scheduling(s)') = Cardinality(Scheduling(s)) - 1
          /\ Backlog(s)' = Backlog(s)
      BY <1>3, <1>5, <2>a, <2>1
    <3> QED
      BY <2>a, <3>1 DEF Tokens
  <2>2. CASE s # KillThreads
    <3>1. /\ Cardinality(Queued(s)') = Cardinality(Queued(s)) /\ Removing(s)' = Removing(s)
          /\ Cardinality(Scheduling(s)') = Cardinality(Scheduling(s)) /\ Backlog(s)' = Backlog(s)
      BY <1>3, <1>5, <2>a, <2>2
    <3> QED
      BY <3>1 DEF Tokens
  <2> QED
    BY <2>1, <2>2
<1>7. StageLedger'
  BY SMTT(30), <1>c, <1>6 DEF StageLedger, ScheduleKill, stageVars
<1>8. StagePhases'
  BY <1>c, Kinds DEF StagePhases, ScheduleKill, stageVars, Killing, Disconnecting
<1>9. PendingKills' = PendingKills
  <2>1. Tokens(KillThreads)' = Tokens(KillThreads)
    BY <1>6, Kinds
  <2>2. BeingKilled' = BeingKilled
    BY <1>c
  <2> QED
    BY <2>1, <2>2 DEF PendingKills
<1>10. PoolLedger'
  BY SMTT(30), <1>c, <1>9, Kinds
  DEF PoolLedger, StagePhases, ScheduleKill, stageVars, Killing, Disconnecting
<1> QED
  BY <1>4, <1>7, <1>8, <1>10
=============================================================================

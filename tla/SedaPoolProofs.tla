--------------------------- MODULE SedaPoolProofs ---------------------------
(***************************************************************************)
(* Preservation of the invariant by the rest of SedaConfig, and the theorems*)
(* about the SEDA runtime, for any finite number of threads, stages and    *)
(* events.                                                                 *)
(***************************************************************************)
EXTENDS SedaPoolWorkers, SedaPoolSchedule, SedaPoolAddEvent, SedaPoolAdmin

\* clear_config() goes on to the next stage, then to the pool.
LEMMA ClearConfigStep ==
  ASSUME IInv, clear_config
  PROVE  IInv'
<1> USE DEF IInv
<1>0. KillThreads \in AllStages /\ pc[Admin] = "cleanup" /\ \A s \in Stages : ~connected[s]
  BY Kinds DEF clear_config
<1>1. ~connected[KillThreads] /\ ~Killing /\ ~Disconnecting(KillThreads)
  BY <1>0 DEF StagePhases, Killing, Disconnecting
<1>2. \A t \in Workers \cup Clients : pc'[t] = pc[t] /\ target'[t] = target[t]
  BY Kinds DEF clear_config, BeginConnect, Typed, PcTyped
<1>3. event_list' \in [AllStages -> Seq(Events \cup {KillEvent})]
  BY DEF clear_config, Typed
<1>4. event_list'[KillThreads] = event_list[KillThreads]
  BY Kinds DEF clear_config, Typed
<1>5. \A s \in AllStages : event_ref[s] = 0
  BY SMTT(30), <1>0, <1>1 DEF StagePhases, Disconnecting, AllStages
<1>6. /\ event_ref' \in [AllStages -> Int] /\ event_ref'[KillThreads] = Len(event_list[KillThreads])
      /\ \A s \in AllStages : s # KillThreads => event_ref'[s] = event_ref[s]
      /\ connected' \in [AllStages -> BOOLEAN] /\ connected'[KillThreads]
      /\ \A s \in AllStages : s # KillThreads => connected'[s] = connected[s]
      /\ target' \in [Threads -> AllStages] /\ target'[Admin] = KillThreads
      /\ PcTyped' /\ pc'[Admin] = "backlog"
      /\ left' = Len(event_list[KillThreads]) /\ left' \in Nat
      /\ StageLedger'
      /\ Resting' = Resting /\ Alive' = Alive /\ BeingKilled' = BeingKilled
      /\ \A v \in Workers : pc'[v] = "schedule" => run_stage'[v] # KillThreads
  BY SMTT(30), <1>0, <1>1, <1>2, <1>3, <1>4, <1>5, BeginConnectStep DEF clear_config, poolVars
<1>7. /\ attached' \in [AllStages -> BOOLEAN] /\ attached'[KillThreads]
      /\ \A s \in AllStages : s # KillThreads => attached'[s] = attached[s]
  BY SMTT(30), <1>0 DEF clear_config, Typed
<1>8. Typed'
  BY SMTT(30), <1>3, <1>6, <1>7 DEF Typed, clear_config, poolVars
<1>9. Len(event_list[KillThreads]) = 0 /\ threads_to_kill = 0
  BY SMTT(30), <1>0, <1>1 DEF PoolLedger
<1>10. StagePhases'
  <2>1. Killing' /\ \A s \in AllStages : ~Disconnecting(s)'
    BY <1>6 DEF Killing, Disconnecting
  <2>2. \A s \in Stages : ~connected'[s] /\ event_ref'[s] = 0
    BY <1>0, <1>5, <1>6, Kinds
  <2>3. \A s \in AllStages :
          /\ ~connected'[s] => event_ref'[s] = 0
          /\ ~attached'[s] => ~connected'[s] /\ event_ref'[s] = 0
    BY SMTT(30), <1>6, <1>7, <2>2 DEF AllStages
  <2> QED
    BY <1>6, <2>1, <2>2, <2>3, Kinds DEF StagePhases
<1>11. PoolLedger'
  BY <1>6, <1>9 DEF PoolLedger, clear_config, poolVars, Killing, Disconnecting
<1> QED
  BY <1>6, <1>8, <1>10, <1>11

\* The constructor starts some of the threads it was asked for.
LEMMA AddThreadsStep ==
  ASSUME IInv, add_threads
  PROVE  IInv'
<1> USE DEF IInv
<1>0. Countable
  BY CountsAreNumbers
<1>1. PICK started \in SUBSET Workers :
        /\ nthreads' = Cardinality(started)
        /\ pc' = [t \in Threads |-> IF t = Admin THEN "start"
                                    ELSE IF t \in started THEN "loop" ELSE pc[t]]
  BY DEF add_threads
<1>2. PcTyped' /\ pc'[Admin] = "start"
  BY SMTT(30), <1>1, Kinds DEF Typed, PcTyped, WorkerPc, AdminPc
<1>3. \A s \in Stages : attached[s]
  BY DEF StagePhases, add_threads
<1>4. nthreads' \in Nat
  BY <1>1, ThreadsAssumption, SubsetCount
<1>5. Typed'
  BY <1>2, <1>4 DEF Typed, add_threads, stageVars
<1>6. \A w \in Workers : pc[w] = "unborn"
  BY SMTT(30) DEF Typed, PcTyped, add_threads
<1>7. \A s \in AllStages : /\ Queued(s)' = Queued(s) /\ Scheduling(s)' = Scheduling(s)
                           /\ Removing(s)' = Removing(s) /\ Holders(s)' = Holders(s)
                           /\ Backlog(s)' = Backlog(s)
  BY SMTT(30), <1>1, <1>2, <1>6, Kinds DEF add_threads, Queued, Scheduling, Removing, Holders, Backlog
<1>8. Resting' = Resting /\ Alive' = started /\ BeingKilled' = BeingKilled
  BY ZenonT(30), <1>1, <1>6, Kinds DEF Resting, Alive, BeingKilled, Killed, add_threads
<1>9. \A s \in AllStages : Tokens(s)' = Tokens(s)
  BY <1>7 DEF Tokens
<1>10. StageLedger'
  BY SMTT(30), <1>7, <1>9 DEF StageLedger, add_threads, stageVars
<1>11. StagePhases'
  BY <1>2, <1>3 DEF StagePhases, add_threads, stageVars, Killing, Disconnecting
<1>12. \A v \in Workers : pc'[v] = "schedule" => run_stage'[v] # KillThreads
  BY SMTT(30), <1>1, <1>6, Kinds
<1>13. PoolLedger'
  BY <1>1, <1>2, <1>8, <1>12 DEF PoolLedger, add_threads, stageVars, Killing, Disconnecting
<1> QED
  BY <1>5, <1>10, <1>11, <1>13

-----------------------------------------------------------------------------
(* Theorems *)

\* The inductive invariant holds before start().
LEMMA InitIInv == Init => IInv
<1> SUFFICES ASSUME Init PROVE IInv
  OBVIOUS
<1>1. PcTyped /\ pc[Admin] = "boot" /\ \A w \in Workers : pc[w] = "unborn"
  BY Kinds DEF Init, PcTyped, WorkerPc, AdminPc
<1>2. Typed
  BY <1>1 DEF Init, Typed, AllStages
<1>3. \A s \in AllStages : /\ Queued(s) = {} /\ Scheduling(s) = {} /\ Removing(s) = {}
                           /\ Holders(s) = {} /\ Backlog(s) = 0
  BY <1>1, Kinds DEF Init, Queued, Occurrences, Scheduling, Removing, Holders, Backlog, Threads
<1>4. Resting = {} /\ Alive = {} /\ BeingKilled = {}
  BY <1>1 DEF Resting, Alive, BeingKilled
<1>5. \A s \in AllStages : Tokens(s) = 0 /\ Cardinality(Holders(s)) = 0
  BY <1>3, FS_EmptySet DEF Tokens
<1>6. StageLedger
  BY <1>5 DEF StageLedger, Init
<1>7. StagePhases
  BY ZenonT(30), <1>1, Kinds DEF StagePhases, Init, Killing, Disconnecting
<1>8. PoolLedger
  BY <1>1, <1>4, FS_EmptySet, Kinds DEF PoolLedger, Init, Killing, Disconnecting
<1> QED
  BY <1>2, <1>6, <1>7, <1>8 DEF IInv

\* Every step of every thread preserves the inductive invariant.
LEMMA NextIInv == IInv /\ [Next]_vars => IInv'
<1> SUFFICES ASSUME IInv, [Next]_vars PROVE IInv'
  OBVIOUS
<1>1. ASSUME NEW w \in Workers, WorkerStep(w) PROVE IInv'
  BY <1>1, DequeueStep, RemoveEventStep, HandlerReturnsStep, ThreadKillStep, ReleaseEventStep,
     ScheduleTargetStep DEF WorkerStep
<1>2. ASSUME NEW w \in Workers, SpuriousWakeup(w) \/ HandlerAddsEvent(w) \/ HandlerForwards(w)
      PROVE  IInv'
  BY <1>2, SpuriousWakeupStep, HandlerAddsEventStep, HandlerForwardsStep
<1>3. ASSUME NEW c \in Clients, ClientAddEvent(c) \/ ScheduleTarget(c) PROVE IInv'
  BY <1>3, ClientAddEventStep, ScheduleTargetStep
<1>4. ASSUME NEW s \in Stages, connect(s) PROVE IInv'
  BY <1>4, ConnectStep
<1>5. ASSUME NEW s \in Stages, disconnect(s) PROVE IInv'
  BY <1>5, BeginDisconnectStep, Kinds DEF disconnect
<1>6. CASE KillsDone
  <2>1. connected[KillThreads] /\ pc[Admin] = "kill_woken"
    BY <1>6 DEF KillsDone, IInv, StagePhases, Killing
  <2> QED
    BY SMTT(30), <1>6, <2>1, BeginDisconnectStep, Kinds DEF KillsDone
<1>7. CASE AdminCleanupStep
  BY SMTT(30), <1>5, <1>6, <1>7, DisconnectRecheckStep, ClearConfigStep, GenKillThreadEventStep,
     ScheduleKillStep, WaitForKillsStep DEF AdminCleanupStep
<1>8. CASE add_threads \/ ScheduleBacklog \/ ConnectReturns \/ BeginCleanup \/ SpuriousKillWakeup
  BY <1>8, AddThreadsStep, ScheduleBacklogStep, ConnectReturnsStep, BeginCleanupStep,
     SpuriousKillWakeupStep
<1>9. CASE UNCHANGED vars
  <2> USE <1>9 DEF vars, stageVars, poolVars
  <2>1. Typed' = Typed
    BY SMTT(30) DEF Typed, PcTyped
  <2>2. \A s \in AllStages : Tokens(s)' = Tokens(s) /\ Holders(s)' = Holders(s)
    BY DEF Tokens, Queued, Scheduling, Removing, Holders, Backlog
  <2>3. StageLedger' = StageLedger
    BY SMTT(30), <2>2 DEF StageLedger
  <2>4. StagePhases' = StagePhases
    BY SMTT(30) DEF StagePhases, Killing, Disconnecting
  <2>5. Resting' = Resting /\ Alive' = Alive /\ BeingKilled' = BeingKilled
    BY DEF Resting, Alive, Killed, BeingKilled
  <2>6. PendingKills' = PendingKills
    BY SMTT(30), <2>2, <2>5, Kinds DEF PendingKills
  <2>7. PoolLedger' = PoolLedger
    BY <2>5, <2>6 DEF PoolLedger, Killing, Disconnecting
  <2> QED
    BY SMTT(30), <2>1, <2>3, <2>4, <2>7 DEF IInv
<1> QED
  BY <1>1, <1>2, <1>3, <1>4, <1>7, <1>8, <1>9 DEF Next

\* Every state of the runtime satisfies the inductive invariant.
THEOREM Invariance == Spec => []IInv
BY InitIInv, NextIInv, PTL DEF Spec

(***************************************************************************)
(* The counters of Stage and Threadpool, which the code decrements without *)
(* a test, never go below zero, however many threads and stages there are. *)
(***************************************************************************)
THEOREM TypeCorrect == Spec => []TypeOK
<1>1. IInv => TypeOK
  <2> SUFFICES ASSUME IInv PROVE TypeOK
    OBVIOUS
  <2>0. Countable
    BY CountsAreNumbers DEF IInv
  <2>1. \A s \in AllStages : event_ref[s] \in Nat
    BY SMTT(30), <2>0 DEF IInv, StageLedger, Countable
  <2>2. n_idles \in Nat /\ nthreads \in Nat
    BY <2>0 DEF IInv, PoolLedger, Countable
  <2>3. PendingKills \in Nat
    BY <2>0, Kinds DEF PendingKills, Countable
  <2>4. threads_to_kill \in Nat
    <3>1. CASE threads_to_kill = 0
      BY SMTT(30), <3>1
    <3>2. CASE threads_to_kill # 0
      BY <2>3, <3>2 DEF IInv, PoolLedger, StagePhases, Killing
    <3> QED
      BY <3>1, <3>2
  <2> QED
    BY <2>1, <2>2, <2>4 DEF IInv, Typed, PcTyped, TypeOK
<1> QED
  BY <1>1, Invariance, PTL

(***************************************************************************)
(* event_ref_ is exactly the number of events disconnect() must wait for.  *)
(***************************************************************************)
THEOREM ReferenceCounting == Spec => []RefCountsOutstanding
<1>1. IInv => RefCountsOutstanding
  BY DEF IInv, StageLedger, RefCountsOutstanding
<1> QED
  BY <1>1, Invariance, PTL

(***************************************************************************)
(* No assertion of stage.cpp or thread_pool.cpp fails: remove_event()      *)
(* never meets an empty list, schedule() is never called for an empty      *)
(* stage or through a pool pointer that disconnect() has cleared.          *)
(***************************************************************************)
THEOREM NoAssertionFails == Spec => []AssertionsHold
<1>1. IInv => AssertionsHold
  <2> SUFFICES ASSUME IInv PROVE AssertionsHold
    OBVIOUS
  <2>0. Countable
    BY CountsAreNumbers DEF IInv
  <2>1. ASSUME NEW s \in AllStages,
               Scheduling(s) # {} \/ Removing(s) # {} \/ Backlog(s) > 0
        PROVE  event_list[s] # <<>>
    <3>1. Cardinality(Scheduling(s)) >= 1 \/ Cardinality(Removing(s)) >= 1 \/ Backlog(s) >= 1
      BY <2>0, <2>1, CountMember DEF Countable
    <3>a. /\ Cardinality(Queued(s)) \in Nat /\ Cardinality(Scheduling(s)) \in Nat
          /\ Cardinality(Removing(s)) \in Nat /\ Backlog(s) \in Nat
      BY <2>0 DEF Countable
    <3>2. Tokens(s) >= 1
      BY <3>1, <3>a DEF Tokens
    <3>3. Len(event_list[s]) >= 1
      BY <2>0, <3>2 DEF IInv, StageLedger, Countable
    <3> QED
      BY <3>3
  <2>2. \A w \in Workers : pc[w] = "remove" => event_list[run_stage[w]] # <<>>
    <3> SUFFICES ASSUME NEW w \in Workers, pc[w] = "remove" PROVE event_list[run_stage[w]] # <<>>
      OBVIOUS
    <3>1. run_stage[w] \in AllStages /\ w \in Removing(run_stage[w])
      BY DEF IInv, Typed, Removing
    <3> QED
      BY <2>1, <3>1
  <2>3. \A t \in Threads : pc[t] = "schedule" => event_list[target[t]] # <<>> /\ attached[target[t]]
    <3> SUFFICES ASSUME NEW t \in Threads, pc[t] = "schedule"
                 PROVE  event_list[target[t]] # <<>> /\ attached[target[t]]
      OBVIOUS
    <3>1. target[t] \in AllStages /\ t \in Scheduling(target[t])
      BY DEF IInv, Typed, Scheduling
    <3> QED
      BY <2>1, <3>1, ReferenceHeld
  <2>4. pc[Admin] = "backlog" /\ left > 0 => event_list[target[Admin]] # <<>>
    <3> SUFFICES ASSUME pc[Admin] = "backlog", left > 0 PROVE event_list[target[Admin]] # <<>>
      OBVIOUS
    <3>1. target[Admin] \in AllStages /\ Backlog(target[Admin]) > 0
      BY Kinds DEF IInv, Typed, Backlog
    <3> QED
      BY <2>1, <3>1
  <2> QED
    BY <2>2, <2>3, <2>4 DEF AssertionsHold
<1> QED
  BY <1>1, Invariance, PTL

(***************************************************************************)
(* When disconnect() has returned, no thread and no entry of the run queue *)
(* refers to the stage, so deleting it is safe.                            *)
(***************************************************************************)
THEOREM DisconnectIsSafe == Spec => []DetachedIsQuiescent
<1>1. IInv => DetachedIsQuiescent
  BY ReferenceHeld DEF DetachedIsQuiescent
<1> QED
  BY <1>1, Invariance, PTL

(***************************************************************************)
(* ~Threadpool destroys its mutexes only after its last thread has exited. *)
(***************************************************************************)
THEOREM DestructorIsSafe == Spec => []PoolDestroyedEmpty
<1>1. IInv => PoolDestroyedEmpty
  <2> SUFFICES ASSUME IInv, pc[Admin] = "done"
               PROVE  /\ \A w \in Workers : pc[w] \in {"unborn", "dead"}
                      /\ nthreads = 0 /\ threads_to_kill = 0 /\ run_queue = <<>>
    BY DEF PoolDestroyedEmpty
  <2>0. Countable
    BY SMTT(30), CountsAreNumbers DEF IInv
  <2>1. \A s \in AllStages : ~connected[s] /\ ~Disconnecting(s)
    BY DEF IInv, StagePhases, Killing, Disconnecting, AllStages
  <2>2. \A s \in AllStages : Holders(s) = {} /\ Queued(s) = {}
    BY <2>1, ReferenceHeld
  <2>3. Tokens(KillThreads) = 0
    <3>1. event_ref[KillThreads] = 0
      BY SMTT(30), <2>1, Kinds DEF IInv, StagePhases
    <3> QED
      BY SMTT(30), <2>0, <3>1, Kinds DEF IInv, StageLedger, Countable
  <2>4. BeingKilled = {}
    BY <2>2, Kinds DEF BeingKilled, Holders
  <2>a. Cardinality(BeingKilled) = 0
    BY <2>4, FS_EmptySet
  <2>b. PendingKills = 0
    BY <2>3, <2>a DEF PendingKills
  <2>5. nthreads = 0 /\ threads_to_kill = 0
    BY SMTT(30), <2>b DEF IInv, PoolLedger
  <2>6. Alive = {}
    BY ZenonT(30), <2>0, <2>5, FS_EmptySet DEF IInv, PoolLedger, Countable
  <2>7. \A w \in Workers : pc[w] \in {"unborn", "dead"}
    <3> SUFFICES ASSUME NEW w \in Workers PROVE pc[w] \in {"unborn", "dead"}
      OBVIOUS
    <3>1. ~Killed(w)
      BY <2>2, Kinds DEF Killed, Holders
    <3> QED
      BY <2>6, <3>1 DEF Alive
  <2>8. run_queue = <<>>
    <3> SUFFICES ASSUME run_queue # <<>> PROVE FALSE
      OBVIOUS
    <3>1. run_queue \in Seq(AllStages)
      BY DEF IInv, Typed
    <3>2. run_queue[1] \in AllStages /\ 1 \in 1 .. Len(run_queue)
      BY <3>1
    <3>3. 1 \in Queued(run_queue[1])
      BY <3>2 DEF Queued, Occurrences
    <3> QED
      BY <2>2, <3>2, <3>3
  <2> QED
    BY <2>5, <2>7, <2>8
<1> QED
  BY <1>1, Invariance, PTL
=============================================================================

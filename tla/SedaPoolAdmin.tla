--------------------------- MODULE SedaPoolAdmin ----------------------------
(***************************************************************************)
(* Preservation of the invariant by connect(), disconnect() and            *)
(* kill_threads(), which the thread that runs SedaConfig calls.            *)
(***************************************************************************)
EXTENDS SedaPoolInvariant

\* A step of the thread that runs SedaConfig, outside schedule() and
\* add_event(), leaves the other threads and the run queue alone.
LEMMA AdminFrame ==
  ASSUME IInv, \A t \in Workers \cup Clients : pc'[t] = pc[t] /\ target'[t] = target[t],
         pc[Admin] # "schedule", pc'[Admin] # "schedule", UNCHANGED <<run_queue, run_stage>>
  PROVE  /\ \A s \in AllStages : /\ Queued(s)' = Queued(s) /\ Scheduling(s)' = Scheduling(s)
                                 /\ Removing(s)' = Removing(s) /\ Holders(s)' = Holders(s)
         /\ Resting' = Resting /\ Alive' = Alive /\ BeingKilled' = BeingKilled
         /\ \A v \in Workers : pc'[v] = "schedule" => run_stage'[v] # KillThreads
BY Kinds DEF IInv, PoolLedger, Queued, Scheduling, Removing, Holders, Resting, Alive,
             BeingKilled, Killed, Threads

\* The same for a step that does not change a reference count or a list and
\* neither starts nor leaves a connect() with events waiting.
LEMMA AdminLedgerFrame ==
  ASSUME IInv, \A t \in Workers \cup Clients : pc'[t] = pc[t] /\ target'[t] = target[t],
         pc[Admin] # "schedule", pc'[Admin] \in AdminPc \ {"schedule", "backlog"},
         pc[Admin] = "backlog" => left = 0,
         UNCHANGED <<event_list, event_ref, run_queue, run_stage>>
  PROVE  /\ \A s \in AllStages : Tokens(s)' = Tokens(s)
         /\ StageLedger' /\ PendingKills' = PendingKills
         /\ Resting' = Resting /\ Alive' = Alive
         /\ \A v \in Workers : pc'[v] = "schedule" => run_stage'[v] # KillThreads
<1>1. /\ \A s \in AllStages : /\ Queued(s)' = Queued(s) /\ Scheduling(s)' = Scheduling(s)
                              /\ Removing(s)' = Removing(s) /\ Holders(s)' = Holders(s)
      /\ Resting' = Resting /\ Alive' = Alive /\ BeingKilled' = BeingKilled
      /\ \A v \in Workers : pc'[v] = "schedule" => run_stage'[v] # KillThreads
  BY AdminFrame
<1>2. \A s \in AllStages : Backlog(s)' = Backlog(s)
  BY DEF Backlog
<1>3. \A s \in AllStages : Tokens(s)' = Tokens(s)
  BY <1>1, <1>2 DEF Tokens
<1> QED
  BY <1>1, <1>3, Kinds DEF StageLedger, PendingKills, IInv

\* cleanup() starts to disconnect the stages.
LEMMA BeginCleanupStep ==
  ASSUME IInv, BeginCleanup
  PROVE  IInv'
<1> USE DEF IInv
<1>1. PcTyped' /\ pc'[Admin] = "cleanup" /\ \A t \in Workers \cup Clients : pc'[t] = pc[t]
  BY Kinds DEF Typed, PcTyped, BeginCleanup, AdminPc
<1>2. Typed'
  BY <1>1 DEF Typed, BeginCleanup, stageVars, poolVars
<1>3. /\ \A s \in AllStages : Tokens(s)' = Tokens(s)
      /\ StageLedger' /\ PendingKills' = PendingKills
      /\ Resting' = Resting /\ Alive' = Alive
      /\ \A v \in Workers : pc'[v] = "schedule" => run_stage'[v] # KillThreads
  BY <1>1, AdminLedgerFrame DEF BeginCleanup, stageVars, poolVars, AdminPc
<1>4. StagePhases'
  BY <1>1 DEF StagePhases, BeginCleanup, stageVars, Killing, Disconnecting
<1>5. PoolLedger'
  BY <1>1, <1>3 DEF PoolLedger, BeginCleanup, stageVars, poolVars, Killing, Disconnecting
<1> QED
  BY <1>2, <1>3, <1>4, <1>5

\* The wait of kill_threads() ends before the threads are gone.
LEMMA SpuriousKillWakeupStep ==
  ASSUME IInv, SpuriousKillWakeup
  PROVE  IInv'
<1> USE DEF IInv
<1>1. PcTyped' /\ pc'[Admin] = "kill_woken" /\ \A t \in Workers \cup Clients : pc'[t] = pc[t]
  BY Kinds DEF Typed, PcTyped, SpuriousKillWakeup, AdminPc
<1>2. Typed'
  BY <1>1 DEF Typed, SpuriousKillWakeup, stageVars, poolVars
<1>3. /\ \A s \in AllStages : Tokens(s)' = Tokens(s)
      /\ StageLedger' /\ PendingKills' = PendingKills
      /\ Resting' = Resting /\ Alive' = Alive
      /\ \A v \in Workers : pc'[v] = "schedule" => run_stage'[v] # KillThreads
  BY <1>1, AdminLedgerFrame DEF SpuriousKillWakeup, stageVars, poolVars, AdminPc
<1>4. StagePhases'
  BY <1>1 DEF StagePhases, SpuriousKillWakeup, stageVars, Killing, Disconnecting
<1>5. PoolLedger'
  BY <1>1, <1>3 DEF PoolLedger, StagePhases, SpuriousKillWakeup, stageVars, poolVars,
                    Killing, Disconnecting
<1> QED
  BY <1>2, <1>3, <1>4, <1>5

\* kill_threads() waits for its kill events to be handled.
LEMMA WaitForKillsStep ==
  ASSUME IInv, WaitForKills
  PROVE  IInv'
<1> USE DEF IInv
<1>1. PcTyped' /\ pc'[Admin] = "kill_wait" /\ \A t \in Workers \cup Clients : pc'[t] = pc[t]
  BY Kinds DEF Typed, PcTyped, WaitForKills, AdminPc
<1>2. Typed'
  BY <1>1 DEF Typed, WaitForKills, stageVars
<1>3. /\ \A s \in AllStages : Tokens(s)' = Tokens(s)
      /\ StageLedger' /\ PendingKills' = PendingKills
      /\ Resting' = Resting /\ Alive' = Alive
      /\ \A v \in Workers : pc'[v] = "schedule" => run_stage'[v] # KillThreads
  BY <1>1, AdminLedgerFrame DEF WaitForKills, stageVars, AdminPc
<1>4. StagePhases'
  BY <1>1 DEF StagePhases, WaitForKills, stageVars, Killing, Disconnecting
<1>5. nthreads = PendingKills
  <2>1. Countable
    BY CountsAreNumbers
  <2>a. Tokens(KillThreads) \in Nat /\ Cardinality(BeingKilled) \in Nat
    BY <2>1, Kinds DEF Countable
  <2>b. PendingKills \in Nat
    BY <2>a DEF PendingKills
  <2>2. PendingKills \in Nat /\ left = 0 /\ left + PendingKills = nthreads
    BY <2>b DEF PoolLedger, WaitForKills
  <2> QED
    BY <2>2
<1>6. PoolLedger'
  BY <1>1, <1>3, <1>5 DEF PoolLedger, StagePhases, WaitForKills, stageVars, Killing, Disconnecting
<1> QED
  BY <1>2, <1>3, <1>4, <1>6

\* connect() has scheduled the backlog.
LEMMA ConnectReturnsStep ==
  ASSUME IInv, ConnectReturns
  PROVE  IInv'
<1> USE DEF IInv
<1>0. Countable
  BY CountsAreNumbers
<1>1. /\ PcTyped' /\ \A t \in Workers \cup Clients : pc'[t] = pc[t]
      /\ target[Admin] = KillThreads => pc'[Admin] = "kill_gen" /\ left' = nthreads
      /\ target[Admin] # KillThreads => pc'[Admin] = "start" /\ left' = left
  BY ZenonT(30), Kinds DEF Typed, PcTyped, ConnectReturns, AdminPc
<1>2. nthreads \in Nat
  BY <1>0 DEF PoolLedger, Countable
<1>3. Typed'
  BY <1>1, <1>2 DEF Typed, ConnectReturns, stageVars, poolVars
<1>4. /\ \A s \in AllStages : Tokens(s)' = Tokens(s)
      /\ StageLedger' /\ PendingKills' = PendingKills
      /\ Resting' = Resting /\ Alive' = Alive
      /\ \A v \in Workers : pc'[v] = "schedule" => run_stage'[v] # KillThreads
  BY <1>1, AdminLedgerFrame DEF ConnectReturns, stageVars, poolVars, AdminPc
<1>5. target[Admin] = KillThreads \/ target[Admin] \in Stages
  BY Kinds DEF Typed, AllStages
<1>6. StagePhases'
  BY <1>1, <1>5, Kinds DEF StagePhases, ConnectReturns, stageVars, Killing, Disconnecting
<1>7. target[Admin] = KillThreads => PendingKills = 0
  <2> SUFFICES ASSUME target[Admin] = KillThreads PROVE PendingKills = 0
    OBVIOUS
  <2>1. event_ref[KillThreads] = 0
    BY DEF PoolLedger, Killing, ConnectReturns
  <2>2. Tokens(KillThreads) = 0 /\ Cardinality(Holders(KillThreads)) = 0
    BY <1>0, <2>1, Kinds DEF StageLedger, Countable
  <2>3. BeingKilled \subseteq Holders(KillThreads)
    BY DEF BeingKilled, Holders
  <2>4. BeingKilled = {}
    BY <1>0, <2>2, <2>3, Kinds, FS_EmptySet DEF Countable
  <2> QED
    BY <2>2, <2>4, FS_EmptySet DEF PendingKills
<1>8. target[Admin] = KillThreads => left' + PendingKills' = nthreads'
  BY <1>1, <1>2, <1>4, <1>7 DEF ConnectReturns, poolVars
<1>9. PoolLedger'
  BY <1>1, <1>4, <1>8 DEF PoolLedger, StagePhases, ConnectReturns, stageVars, poolVars,
                          Killing, Disconnecting
<1> QED
  BY <1>3, <1>4, <1>6, <1>9

\* disconnect() closes stage st and waits if references are out.
LEMMA BeginDisconnectStep ==
  ASSUME IInv, NEW st \in AllStages, BeginDisconnect(st), connected[st],
         \/ pc[Admin] = "cleanup" /\ st \in Stages
         \/ pc[Admin] = "kill_woken" /\ st = KillThreads,
         UNCHANGED <<event_list, event_ref, poolVars, run_stage, event, left, unused>>
  PROVE  IInv'
<1> USE DEF IInv
<1>1. /\ pc'[Admin] \in {"disc_wait", "done", "cleanup"}
      /\ target'[Admin] = st /\ target' \in [Threads -> AllStages]
      /\ \A t \in Workers \cup Clients : pc'[t] = pc[t] /\ target'[t] = target[t]
      /\ pc'[Admin] = "cleanup" => st \in Stages
      /\ pc'[Admin] = "done" => st = KillThreads
  BY Kinds DEF Typed, PcTyped, BeginDisconnect, FinishDisconnect
<1>2. pc' \in [Threads -> WorkerPc \cup AdminPc \cup {"ready"}]
  BY ZenonT(30) DEF Typed, PcTyped, BeginDisconnect, FinishDisconnect, AdminPc
<1>3. PcTyped'
  BY <1>1, <1>2 DEF Typed, PcTyped, AdminPc
<1>4. /\ connected' \in [AllStages -> BOOLEAN] /\ ~connected'[st]
      /\ \A s \in AllStages : s # st => connected'[s] = connected[s]
  BY DEF Typed, BeginDisconnect
<1>5. /\ attached' \in [AllStages -> BOOLEAN]
      /\ \A s \in AllStages : s # st => attached'[s] = attached[s]
      /\ pc'[Admin] = "disc_wait" => attached' = attached
      /\ pc'[Admin] # "disc_wait" => event_ref[st] = 0
  <2>1. event_ref[st] \in Int /\ ~(event_ref[st] < 0)
    <3>1. Countable
      BY CountsAreNumbers
    <3> QED
      BY <3>1 DEF StageLedger, Countable
  <2>2. CASE event_ref[st] > 0
    BY <2>1, <2>2, Kinds DEF Typed, PcTyped, BeginDisconnect
  <2>3. CASE ~(event_ref[st] > 0)
    <3>1. event_ref[st] = 0
      BY <2>1, <2>3
    <3>2. attached' = [attached EXCEPT ![st] = FALSE] /\ pc'[Admin] # "disc_wait"
      BY <2>3, Kinds DEF Typed, PcTyped, BeginDisconnect, FinishDisconnect
    <3> QED
      BY <3>1, <3>2 DEF Typed
  <2> QED
    BY <2>2, <2>3
<1>6. Typed'
  BY <1>1, <1>3, <1>4, <1>5 DEF Typed, poolVars
<1>7. /\ \A s \in AllStages : Tokens(s)' = Tokens(s)
      /\ StageLedger' /\ PendingKills' = PendingKills
      /\ Resting' = Resting /\ Alive' = Alive
      /\ \A v \in Workers : pc'[v] = "schedule" => run_stage'[v] # KillThreads
  BY <1>1, AdminLedgerFrame DEF poolVars, AdminPc
<1>8. attached[st]
  BY DEF StagePhases, Typed
<1>9. StagePhases'
  BY SMTT(30), <1>1, <1>4, <1>5, <1>8, Kinds DEF StagePhases, Killing, Disconnecting
<1>10. PoolLedger'
  BY <1>1, <1>7, Kinds DEF PoolLedger, StagePhases, poolVars, Killing, Disconnecting
<1> QED
  BY <1>6, <1>7, <1>9, <1>10

\* disconnect() tests its condition again.
LEMMA DisconnectRecheckStep ==
  ASSUME IInv, DisconnectRecheck
  PROVE  IInv'
<1> USE DEF IInv
<1>a. PICK st \in AllStages : st = target[Admin]
  BY Kinds DEF Typed
<1>1. /\ pc'[Admin] \in {"disc_wait", "done", "cleanup"}
      /\ \A t \in Workers \cup Clients : pc'[t] = pc[t]
      /\ pc'[Admin] = "cleanup" => st \in Stages
      /\ pc'[Admin] = "done" => st = KillThreads
  BY <1>a, Kinds DEF Typed, PcTyped, DisconnectRecheck, FinishDisconnect, AllStages
<1>2. pc' \in [Threads -> WorkerPc \cup AdminPc \cup {"ready"}]
  BY ZenonT(30) DEF Typed, PcTyped, DisconnectRecheck, FinishDisconnect, AdminPc
<1>3. PcTyped'
  BY <1>1, <1>2 DEF Typed, PcTyped, AdminPc
<1>4. /\ attached' \in [AllStages -> BOOLEAN]
      /\ \A s \in AllStages : s # st => attached'[s] = attached[s]
      /\ pc'[Admin] = "disc_wait" => attached' = attached
      /\ pc'[Admin] # "disc_wait" => event_ref[st] = 0
  <2>1. event_ref[st] \in Int /\ ~(event_ref[st] < 0)
    <3>1. Countable
      BY CountsAreNumbers
    <3> QED
      BY <3>1 DEF StageLedger, Countable
  <2>2. CASE event_ref[st] > 0
    BY <1>a, <2>1, <2>2, Kinds DEF Typed, PcTyped, DisconnectRecheck
  <2>3. CASE ~(event_ref[st] > 0)
    <3>1. event_ref[st] = 0
      BY <2>1, <2>3
    <3>2. attached' = [attached EXCEPT ![st] = FALSE] /\ pc'[Admin] # "disc_wait"
      BY <1>a, <2>3, Kinds DEF Typed, PcTyped, DisconnectRecheck, FinishDisconnect
    <3> QED
      BY <3>1, <3>2 DEF Typed
  <2> QED
    BY <2>2, <2>3
<1>5. Typed'
  BY <1>3, <1>4 DEF Typed, DisconnectRecheck, poolVars
<1>6. /\ \A s \in AllStages : Tokens(s)' = Tokens(s)
      /\ StageLedger' /\ PendingKills' = PendingKills
      /\ Resting' = Resting /\ Alive' = Alive
      /\ \A v \in Workers : pc'[v] = "schedule" => run_stage'[v] # KillThreads
  BY <1>1, AdminLedgerFrame DEF DisconnectRecheck, poolVars, AdminPc
<1>7. pc[Admin] = "disc_woken" /\ Disconnecting(st) /\ attached[st] /\ ~connected[st]
  BY <1>a DEF StagePhases, DisconnectRecheck, Disconnecting
<1>8. StagePhases'
  BY SMTT(30), <1>a, <1>1, <1>4, <1>7, Kinds DEF StagePhases, DisconnectRecheck, Killing, Disconnecting
<1>9. PoolLedger'
  BY SMTT(30), <1>a, <1>1, <1>6, <1>7, Kinds DEF PoolLedger, DisconnectRecheck, poolVars, Killing, Disconnecting
<1> QED
  BY <1>5, <1>6, <1>8, <1>9

\* The events that wait on the list of a stage without references become its
\* references, all of them in connect()'s backlog.
LEMMA BacklogLedger ==
  ASSUME NEW s \in AllStages, Countable, StageLedger, event_ref[s] = 0,
         Queued(s)' = Queued(s), Scheduling(s)' = Scheduling(s),
         Removing(s)' = Removing(s), Holders(s)' = Holders(s),
         Backlog(s) = 0, Backlog(s)' = Len(event_list[s]), event_list'[s] = event_list[s]
  PROVE  Tokens(s)' = Len(event_list'[s]) /\ Cardinality(Holders(s)') = 0
<1>1. /\ Cardinality(Queued(s)) \in Nat /\ Cardinality(Scheduling(s)) \in Nat
      /\ Cardinality(Removing(s)) \in Nat /\ Cardinality(Holders(s)) \in Nat
      /\ Len(event_list[s]) \in Nat
  BY DEF Countable
<1>2. 0 = Cardinality(Queued(s)) + Cardinality(Scheduling(s)) + Cardinality(Removing(s)) + 0
            + Cardinality(Holders(s))
  BY DEF StageLedger, Tokens
<1>3. /\ Cardinality(Queued(s)) = 0 /\ Cardinality(Scheduling(s)) = 0
      /\ Cardinality(Removing(s)) = 0 /\ Cardinality(Holders(s)) = 0
  BY <1>1, <1>2
<1>4. Tokens(s)' = 0 + 0 + 0 + Len(event_list[s])
  BY <1>3 DEF Tokens
<1> QED
  BY <1>1, <1>3, <1>4

\* connect() opens stage st: the events that wait on its list become
\* references that it still has to schedule.
LEMMA BeginConnectStep ==
  ASSUME IInv, NEW st \in AllStages, BeginConnect(st), ~connected[st],
         pc[Admin] \in {"start", "cleanup"},
         \A t \in Workers \cup Clients : pc'[t] = pc[t] /\ target'[t] = target[t],
         event_list' \in [AllStages -> Seq(Events \cup {KillEvent})],
         event_list'[st] = event_list[st],
         \A s \in AllStages : event_list'[s] = event_list[s] \/ event_ref[s] = 0,
         UNCHANGED <<run_queue, run_stage>>
  PROVE  /\ event_ref' \in [AllStages -> Int] /\ event_ref'[st] = Len(event_list[st])
         /\ \A s \in AllStages : s # st => event_ref'[s] = event_ref[s]
         /\ connected' \in [AllStages -> BOOLEAN] /\ connected'[st]
         /\ \A s \in AllStages : s # st => connected'[s] = connected[s]
         /\ target' \in [Threads -> AllStages] /\ target'[Admin] = st
         /\ PcTyped' /\ pc'[Admin] = "backlog"
         /\ left' = Len(event_list[st]) /\ left' \in Nat
         /\ StageLedger'
         /\ Resting' = Resting /\ Alive' = Alive /\ BeingKilled' = BeingKilled
         /\ \A v \in Workers : pc'[v] = "schedule" => run_stage'[v] # KillThreads
<1> USE DEF IInv
<1>0. Countable
  BY SMTT(30), CountsAreNumbers
<1>1. Len(event_list[st]) \in Nat
  BY <1>0 DEF Countable
<1>2. /\ event_ref' \in [AllStages -> Int] /\ event_ref'[st] = Len(event_list[st])
      /\ \A s \in AllStages : s # st => event_ref'[s] = event_ref[s]
  BY <1>1 DEF BeginConnect, Typed
<1>3. /\ connected' \in [AllStages -> BOOLEAN] /\ connected'[st]
      /\ \A s \in AllStages : s # st => connected'[s] = connected[s]
  BY DEF BeginConnect, Typed
<1>4. /\ target' \in [Threads -> AllStages] /\ target'[Admin] = st
      /\ pc'[Admin] = "backlog" /\ left' = Len(event_list[st])
  BY Kinds DEF BeginConnect, Typed, PcTyped
<1>5. PcTyped'
  BY Kinds DEF BeginConnect, Typed, PcTyped, AdminPc
<1>6. /\ \A s \in AllStages : /\ Queued(s)' = Queued(s) /\ Scheduling(s)' = Scheduling(s)
                              /\ Removing(s)' = Removing(s) /\ Holders(s)' = Holders(s)
      /\ Resting' = Resting /\ Alive' = Alive /\ BeingKilled' = BeingKilled
      /\ \A v \in Workers : pc'[v] = "schedule" => run_stage'[v] # KillThreads
  BY <1>4, AdminFrame
<1>7. event_ref[st] = 0
  BY DEF StagePhases, Disconnecting
<1>8. StageLedger'
  <2> SUFFICES ASSUME NEW s \in AllStages
               PROVE  /\ event_ref'[s] = Tokens(s)' + Cardinality(Holders(s)')
                      /\ Tokens(s)' <= Len(event_list'[s])
    BY DEF StageLedger
  <2>1. /\ event_ref[s] = Tokens(s) + Cardinality(Holders(s)) /\ Tokens(s) <= Len(event_list[s])
        /\ Tokens(s) \in Nat /\ Cardinality(Holders(s)) \in Nat /\ Len(event_list[s]) \in Nat
    BY ZenonT(30), <1>0 DEF StageLedger, Countable
  <2>a. Len(event_list'[s]) \in Nat
    OBVIOUS
  <2>3. Backlog(s) = 0 /\ Backlog(s)' = IF s = st THEN Len(event_list[st]) ELSE 0
    BY <1>4 DEF Backlog
  <2>4. CASE s = st
    <3>1. event_ref[s] = 0 /\ event_list'[s] = event_list[s] /\ Backlog(s)' = Len(event_list[s])
      BY <1>7, <2>3, <2>4
    <3>2. Tokens(s)' = Len(event_list'[s]) /\ Cardinality(Holders(s)') = 0
      BY <1>0, <1>6, <2>3, <3>1, BacklogLedger
    <3>3. event_ref'[s] = Len(event_list'[s])
      BY <1>2, <2>4, <3>1
    <3> QED
      BY <2>a, <3>2, <3>3
  <2>5. CASE s # st
    <3>1. Tokens(s)' = Tokens(s)
      BY SMTT(30), <1>6, <2>3, <2>5 DEF Tokens
    <3>2. event_ref'[s] = event_ref[s] /\ Cardinality(Holders(s)') = Cardinality(Holders(s))
      BY SMTT(30), <1>2, <1>6, <2>5
    <3>a. event_ref[s] = 0 => Tokens(s) = 0
      BY <2>1
    <3>b. event_list'[s] = event_list[s] \/ event_ref[s] = 0
      OBVIOUS
    <3>3. Tokens(s) <= Len(event_list'[s])
      BY <2>1, <2>a, <3>a, <3>b
    <3> QED
      BY SMTT(30), <2>1, <3>1, <3>2, <3>3
  <2> QED
    BY <2>4, <2>5
<1> QED
  BY <1>1, <1>2, <1>3, <1>4, <1>5, <1>6, <1>8

\* start() connects a configured stage.
LEMMA ConnectStep ==
  ASSUME NEW st \in Stages, IInv, connect(st)
  PROVE  IInv'
<1> USE DEF IInv
<1>0. st \in AllStages /\ st # KillThreads
  BY Kinds
<1>1. /\ \A t \in Workers \cup Clients : pc'[t] = pc[t] /\ target'[t] = target[t]
      /\ BeginConnect(st) /\ ~connected[st] /\ pc[Admin] = "start"
  BY Kinds DEF connect, BeginConnect, Typed, PcTyped
<1>2. event_list' = event_list /\ event_list \in [AllStages -> Seq(Events \cup {KillEvent})]
      /\ UNCHANGED <<attached, poolVars, run_stage, event, unused>>
  BY DEF connect, Typed
<1>3. /\ event_ref' \in [AllStages -> Int] /\ event_ref'[st] = Len(event_list[st])
      /\ \A s \in AllStages : s # st => event_ref'[s] = event_ref[s]
      /\ connected' \in [AllStages -> BOOLEAN] /\ connected'[st]
      /\ \A s \in AllStages : s # st => connected'[s] = connected[s]
      /\ target' \in [Threads -> AllStages] /\ target'[Admin] = st
      /\ PcTyped' /\ pc'[Admin] = "backlog"
      /\ left' = Len(event_list[st]) /\ left' \in Nat
      /\ StageLedger'
      /\ Resting' = Resting /\ Alive' = Alive /\ BeingKilled' = BeingKilled
      /\ \A v \in Workers : pc'[v] = "schedule" => run_stage'[v] # KillThreads
  BY <1>0, <1>1, <1>2, BeginConnectStep DEF poolVars
<1>4. Typed'
  BY SMTT(30), <1>2, <1>3 DEF Typed, poolVars
<1>5. StagePhases'
  BY ZenonT(30), <1>0, <1>1, <1>2, <1>3, Kinds DEF StagePhases, Killing, Disconnecting
<1>6. PoolLedger'
  BY ZenonT(30), <1>0, <1>1, <1>2, <1>3, Kinds DEF PoolLedger, poolVars, Killing, Disconnecting
<1> QED
  BY <1>3, <1>4, <1>5, <1>6
=============================================================================

-------------------------- MODULE SedaPoolWorkers ---------------------------
(***************************************************************************)
(* Preservation of the invariant by the steps of a service thread in       *)
(* Threadpool::run_thread.                                                 *)
(***************************************************************************)
EXTENDS SedaPoolInvariant

\* run_thread() waits for work or pops the run queue.
LEMMA DequeueStep ==
  ASSUME NEW w \in Workers, IInv, Dequeue(w)
  PROVE  IInv'
<1> USE DEF IInv
<1>0. Countable
  BY CountsAreNumbers
<1>1. Typed'
  <2>1. PcTyped'
    BY ZenonT(30), Kinds DEF Typed, PcTyped, Dequeue, WorkerPc, AdminPc
  <2>2. run_queue # <<>> => Head(run_queue) \in AllStages /\ Tail(run_queue) \in Seq(AllStages)
    BY DEF Typed
  <2>3. run_queue' \in Seq(AllStages) /\ run_stage' \in [Workers -> AllStages]
    <3>1. CASE run_queue = <<>>
      BY <3>1 DEF Typed, Dequeue
    <3>2. CASE run_queue # <<>>
      BY ZenonT(30), <2>2, <3>2 DEF Typed, Dequeue
    <3> QED
      BY <3>1, <3>2
  <2>4. n_idles' \in Int
    BY DEF Typed, Dequeue
  <2> QED
    BY <2>1, <2>3, <2>4 DEF Typed, Dequeue, stageVars
<1>2. /\ \A s \in AllStages : Backlog(s)' = Backlog(s) /\ Scheduling(s)' = Scheduling(s)
                              /\ Holders(s)' = Holders(s)
      /\ Alive' = Alive
      /\ BeingKilled' = BeingKilled
      /\ pc'[Admin] = pc[Admin]
  BY ZenonT(30), Kinds DEF Dequeue, Typed, PcTyped, Backlog, Scheduling, Holders, Alive, BeingKilled, Killed
<1>3. \A s \in AllStages : Tokens(s)' = Tokens(s)
  <2>1. CASE run_queue = <<>>
    <3>1. \A s \in AllStages : Queued(s)' = Queued(s) /\ Removing(s)' = Removing(s)
      BY <2>1, Kinds DEF Dequeue, Typed, PcTyped, Queued, Removing
    <3> QED
      BY <1>2, <3>1 DEF Tokens
  <2>2. CASE run_queue # <<>>
    <3> SUFFICES ASSUME NEW s \in AllStages PROVE Tokens(s)' = Tokens(s)
      OBVIOUS
    <3>1. Cardinality(Queued(s)') = Cardinality(Queued(s)) - (IF Head(run_queue) = s THEN 1 ELSE 0)
      <4>1. run_queue' = Tail(run_queue) /\ run_queue \in Seq(AllStages)
        BY <2>2 DEF Dequeue, Typed
      <4>2. /\ Cardinality(Occurrences(Tail(run_queue), s)) \in Nat
            /\ Cardinality(Occurrences(run_queue, s)) =
                 Cardinality(Occurrences(Tail(run_queue), s))
                 + (IF Head(run_queue) = s THEN 1 ELSE 0)
        BY <2>2, <4>1, TailOccurrences
      <4>3. /\ Queued(s) = Occurrences(run_queue, s)
            /\ Queued(s)' = Occurrences(Tail(run_queue), s)
        BY <4>1 DEF Queued
      <4> QED
        BY <4>2, <4>3
    <3>2. CASE Head(run_queue) = s
      <4>1. Removing(s)' = Removing(s) \cup {w} /\ w \notin Removing(s)
        BY ZenonT(30), <2>2, <3>2, Kinds DEF Dequeue, Typed, PcTyped, Removing
      <4> QED
        BY SMTT(30), <1>0, <1>2, <3>1, <3>2, <4>1, CountAdd DEF Tokens, Countable
    <3>3. CASE Head(run_queue) # s
      <4>1. Removing(s)' = Removing(s)
        BY ZenonT(30), <2>2, <3>3, Kinds DEF Dequeue, Typed, PcTyped, Removing
      <4> QED
        BY <1>0, <1>2, <3>1, <3>3, <4>1 DEF Tokens, Countable
    <3> QED
      BY <3>2, <3>3
  <2> QED
    BY <2>1, <2>2
<1>4. StageLedger'
  BY <1>2, <1>3 DEF StageLedger, Dequeue, stageVars
<1>5. StagePhases'
  BY <1>2 DEF StagePhases, Dequeue, stageVars, Killing, Disconnecting
<1>6. n_idles' = Cardinality(Resting')
  <2>1. CASE run_queue = <<>>
    <3>1. Resting' = Resting \cup {w} /\ n_idles' = n_idles + (IF w \in Resting THEN 0 ELSE 1)
      BY <2>1, Kinds DEF Dequeue, Typed, PcTyped, Resting
    <3> QED
      BY <1>0, <3>1, CountAdd DEF Countable, PoolLedger
  <2>2. CASE run_queue # <<>>
    <3>1. Resting' = Resting \ {w}
      BY ZenonT(30), <2>2, Kinds DEF Dequeue, Typed, PcTyped, Resting
    <3>2. n_idles' = n_idles - (IF w \in Resting THEN 1 ELSE 0)
      BY <2>2 DEF Dequeue, Typed, Resting
    <3> QED
      BY <1>0, <3>1, <3>2, CountRemove DEF Countable, PoolLedger
  <2> QED
    BY <2>1, <2>2
<1>7. \A v \in Workers : pc'[v] = "schedule" => run_stage'[v] # KillThreads
  BY ZenonT(30), Kinds DEF PoolLedger, Dequeue, Typed, PcTyped
<1>8. PoolLedger'
  BY <1>2, <1>3, <1>6, <1>7, Kinds
  DEF PoolLedger, Dequeue, stageVars, Killing, Disconnecting, PendingKills
<1> QED
  BY <1>1, <1>4, <1>5, <1>8

\* A service thread is woken without a signal.
LEMMA SpuriousWakeupStep ==
  ASSUME NEW w \in Workers, IInv, SpuriousWakeup(w)
  PROVE  IInv'
<1> USE DEF IInv
<1>1. PcTyped' /\ pc'[Admin] = pc[Admin]
  BY Kinds DEF Typed, PcTyped, SpuriousWakeup, WorkerPc, AdminPc
<1>2. Typed'
  BY <1>1 DEF Typed, SpuriousWakeup, stageVars, poolVars
<1>3. \A s \in AllStages : /\ Queued(s)' = Queued(s) /\ Scheduling(s)' = Scheduling(s)
                           /\ Removing(s)' = Removing(s) /\ Holders(s)' = Holders(s)
                           /\ Backlog(s)' = Backlog(s)
  BY Kinds DEF SpuriousWakeup, poolVars, Typed, PcTyped, Queued, Scheduling, Removing,
               Holders, Backlog
<1>4. Resting' = Resting /\ Alive' = Alive /\ BeingKilled' = BeingKilled
  BY SMTT(30), Kinds DEF SpuriousWakeup, Typed, PcTyped, Resting, Alive, BeingKilled, Killed
<1>5. \A s \in AllStages : Tokens(s)' = Tokens(s)
  BY <1>3 DEF Tokens
<1>6. StageLedger'
  BY <1>3, <1>5 DEF StageLedger, SpuriousWakeup, stageVars
<1>7. StagePhases'
  BY <1>1 DEF StagePhases, SpuriousWakeup, stageVars, Killing, Disconnecting
<1>8. \A v \in Workers : pc'[v] = "schedule" => run_stage'[v] # KillThreads
  BY Kinds DEF PoolLedger, SpuriousWakeup, Typed, PcTyped
<1>9. PoolLedger'
  BY <1>1, <1>4, <1>5, <1>8, Kinds
  DEF PoolLedger, SpuriousWakeup, stageVars, poolVars, Killing, Disconnecting, PendingKills
<1> QED
  BY <1>2, <1>6, <1>7, <1>9

\* A service thread takes an event off the list of the stage it popped.
LEMMA RemoveEventStep ==
  ASSUME NEW w \in Workers, IInv, remove_event(w)
  PROVE  IInv'
<1> USE DEF IInv
<1>a. PICK rs \in AllStages : rs = run_stage[w]
  BY DEF Typed
<1>0. Countable
  BY CountsAreNumbers
<1>1. PcTyped' /\ pc'[Admin] = pc[Admin]
  BY Kinds DEF Typed, PcTyped, remove_event, WorkerPc, AdminPc
<1>2. /\ Head(event_list[rs]) \in Events \cup {KillEvent}
      /\ Tail(event_list[rs]) \in Seq(Events \cup {KillEvent})
      /\ Len(Tail(event_list[rs])) = Len(event_list[rs]) - 1
  BY <1>a DEF remove_event, Typed
<1>3. Typed'
  BY <1>a, <1>1, <1>2 DEF Typed, remove_event, poolVars
<1>4. \A s \in AllStages : /\ Queued(s)' = Queued(s) /\ Scheduling(s)' = Scheduling(s)
                           /\ Backlog(s)' = Backlog(s)
                           /\ s # rs => Removing(s)' = Removing(s) /\ Holders(s)' = Holders(s)
  BY <1>a, Kinds DEF remove_event, poolVars, Typed, PcTyped, Queued, Scheduling, Removing,
               Holders, Backlog
<1>5. /\ Removing(rs)' = Removing(rs) \ {w} /\ w \in Removing(rs)
      /\ Holders(rs)' = Holders(rs) \cup {w} /\ w \notin Holders(rs)
  BY <1>a, Kinds DEF remove_event, Typed, PcTyped, Removing, Holders
<1>6. /\ Cardinality(Removing(rs)') = Cardinality(Removing(rs)) - 1
      /\ Cardinality(Holders(rs)') = Cardinality(Holders(rs)) + 1
  BY <1>0, <1>5, CountAdd, CountRemove DEF Countable
<1>7. \A s \in AllStages : Tokens(s)' = Tokens(s) - (IF s = rs THEN 1 ELSE 0)
  <2>1. Tokens(rs)' = Tokens(rs) - 1
    BY SMTT(30), <1>0, <1>4, <1>6 DEF Tokens, Countable
  <2>2. \A s \in AllStages : s # rs => Tokens(s)' = Tokens(s)
    BY <1>4 DEF Tokens
  <2> QED
    BY <1>0, <2>1, <2>2 DEF Countable
<1>8. \A s \in AllStages : Len(event_list'[s]) = Len(event_list[s]) - (IF s = rs THEN 1 ELSE 0)
  BY <1>a, <1>2 DEF remove_event, Typed
<1>9. StageLedger'
  <2> SUFFICES ASSUME NEW s \in AllStages
               PROVE  /\ event_ref'[s] = Tokens(s)' + Cardinality(Holders(s)')
                      /\ Tokens(s)' <= Len(event_list'[s])
    BY DEF StageLedger
  <2>1. event_ref'[s] = event_ref[s] /\ event_ref[s] = Tokens(s) + Cardinality(Holders(s))
        /\ Tokens(s) <= Len(event_list[s])
    BY DEF StageLedger, remove_event
  <2>2. Tokens(s) \in Nat /\ Cardinality(Holders(s)) \in Nat /\ Len(event_list[s]) \in Nat
    BY <1>0 DEF Countable
  <2>3. Tokens(s)' = Tokens(s) - (IF s = rs THEN 1 ELSE 0)
    BY <1>7
  <2>4. Cardinality(Holders(s)') = Cardinality(Holders(s)) + (IF s = rs THEN 1 ELSE 0)
    BY <1>4, <1>6, <2>2
  <2>5. Len(event_list'[s]) = Len(event_list[s]) - (IF s = rs THEN 1 ELSE 0)
    BY ZenonT(30), <1>8
  <2>6. event_ref'[s] = Tokens(s)' + Cardinality(Holders(s)')
    BY <2>1, <2>2, <2>3, <2>4
  <2>7. Tokens(s)' <= Len(event_list'[s])
    <3>1. CASE s = rs
      BY <2>1, <2>2, <2>3, <2>5, <3>1
    <3>2. CASE s # rs
      BY <2>1, <2>2, <2>3, <2>5, <3>2
    <3> QED
      BY <3>1, <3>2
  <2> QED
    BY <2>6, <2>7
<1>10. StagePhases'
  BY <1>1 DEF StagePhases, remove_event, Killing, Disconnecting
<1>11. Resting' = Resting /\ Alive' = Alive
  BY SMTT(30), Kinds DEF remove_event, Typed, PcTyped, Resting, Alive, Killed
<1>12. PendingKills' = PendingKills
  <2>1. CASE rs = KillThreads
    <3>1. BeingKilled' = BeingKilled \cup {w} /\ w \notin BeingKilled
      BY ZenonT(30), <1>a, <2>1, Kinds DEF remove_event, Typed, PcTyped, BeingKilled
    <3> QED
      <4>1. Cardinality(BeingKilled') = Cardinality(BeingKilled) + 1
        BY <1>0, <3>1, CountAdd DEF Countable
      <4>2. Tokens(KillThreads)' = Tokens(KillThreads) - 1
        BY <1>7, <2>1, Kinds
      <4> QED
        BY SMTT(30), <1>0, <4>1, <4>2, Kinds DEF Countable, PendingKills
  <2>2. CASE rs # KillThreads
    <3>1. BeingKilled' = BeingKilled
      BY <1>a, <2>2, Kinds DEF remove_event, Typed, PcTyped, BeingKilled
    <3> QED
      BY <1>0, <1>7, <2>2, <3>1, Kinds DEF PendingKills, Countable
  <2> QED
    BY <2>1, <2>2
<1>13. event_list'[KillThreads] = <<>> \/ Killing \/ Disconnecting(KillThreads) \/ pc[Admin] = "done"
  BY SMTT(30), <1>0, Kinds DEF PoolLedger, remove_event, Typed
<1>14. \A v \in Workers : pc'[v] = "schedule" => run_stage'[v] # KillThreads
  BY SMTT(30), Kinds DEF PoolLedger, remove_event, Typed, PcTyped
<1>15. PoolLedger'
  BY SMTT(30), <1>1, <1>11, <1>12, <1>13, <1>14, Kinds
  DEF PoolLedger, remove_event, poolVars, Killing, Disconnecting
<1> QED
  BY <1>3, <1>9, <1>10, <1>15

\* handle_event() of a stage returns.
LEMMA HandlerReturnsStep ==
  ASSUME NEW w \in Workers, IInv, HandlerReturns(w)
  PROVE  IInv'
<1> USE DEF IInv
<1>1. PcTyped' /\ pc'[Admin] = pc[Admin]
  BY Kinds DEF Typed, PcTyped, HandlerReturns, WorkerPc, AdminPc
<1>2. Typed'
  BY <1>1 DEF Typed, HandlerReturns, stageVars, poolVars
<1>3. \A s \in AllStages : /\ Queued(s)' = Queued(s) /\ Scheduling(s)' = Scheduling(s)
                           /\ Removing(s)' = Removing(s) /\ Holders(s)' = Holders(s)
                           /\ Backlog(s)' = Backlog(s)
  BY Kinds DEF HandlerReturns, poolVars, Typed, PcTyped, Queued, Scheduling, Removing,
               Holders, Backlog
<1>4. Resting' = Resting /\ Alive' = Alive /\ BeingKilled' = BeingKilled
  BY SMTT(30), Kinds DEF HandlerReturns, Typed, PcTyped, Resting, Alive, BeingKilled, Killed
<1>5. \A s \in AllStages : Tokens(s)' = Tokens(s)
  BY <1>3 DEF Tokens
<1>6. StageLedger'
  BY <1>3, <1>5 DEF StageLedger, HandlerReturns, stageVars
<1>7. StagePhases'
  BY <1>1 DEF StagePhases, HandlerReturns, stageVars, Killing, Disconnecting
<1>8. \A v \in Workers : pc'[v] = "schedule" => run_stage'[v] # KillThreads
  BY SMTT(30), Kinds DEF PoolLedger, HandlerReturns, Typed, PcTyped
<1>9. PoolLedger'
  BY SMTT(30), <1>1, <1>4, <1>5, <1>8, Kinds
  DEF PoolLedger, HandlerReturns, stageVars, poolVars, Killing, Disconnecting, PendingKills
<1> QED
  BY <1>2, <1>6, <1>7, <1>9

\* KillThreadStage::handle_event counts its thread out of the pool.
LEMMA ThreadKillStep ==
  ASSUME NEW w \in Workers, IInv, thread_kill(w)
  PROVE  IInv'
<1> USE DEF IInv
<1>0. Countable
  BY CountsAreNumbers
<1>1. pc[Admin] \in {"kill_wait", "kill_woken"} /\ connected[KillThreads]
  <2>1. w \in Holders(KillThreads)
    BY DEF thread_kill, Holders
  <2>2. connected[KillThreads] \/ Disconnecting(KillThreads)
    BY <2>1, ReferenceHeld, Kinds
  <2> QED
    BY <2>2 DEF thread_kill, ThreadMutexHeld, StagePhases, Killing, Disconnecting
<1>2. pc'[Admin] \in {"kill_wait", "kill_woken"}
  BY <1>1, Kinds DEF thread_kill, Typed, PcTyped
<1>3. PcTyped'
  BY ZenonT(30), <1>2, Kinds DEF thread_kill, Typed, PcTyped, WorkerPc, AdminPc
<1>4. Typed'
  BY <1>3 DEF Typed, thread_kill, stageVars
<1>5. \A s \in AllStages : /\ Queued(s)' = Queued(s) /\ Scheduling(s)' = Scheduling(s)
                           /\ Removing(s)' = Removing(s) /\ Holders(s)' = Holders(s)
                           /\ Backlog(s)' = Backlog(s)
  BY <1>1, <1>2, Kinds DEF thread_kill, Typed, PcTyped, Queued, Scheduling, Removing,
                           Holders, Backlog
<1>6. \A s \in AllStages : Tokens(s)' = Tokens(s)
  BY <1>5 DEF Tokens
<1>7. StageLedger'
  BY <1>5, <1>6 DEF StageLedger, thread_kill, stageVars
<1>8. StagePhases'
  BY <1>1, <1>2 DEF StagePhases, thread_kill, stageVars, Killing, Disconnecting
<1>9. /\ Resting' = Resting
      /\ Alive' = Alive \ {w} /\ w \in Alive
      /\ BeingKilled' = BeingKilled \ {w} /\ w \in BeingKilled
  BY SMTT(30), <1>1, <1>2, Kinds DEF thread_kill, Typed, PcTyped, Resting, Alive, BeingKilled, Killed
<1>10. /\ Cardinality(Alive') = Cardinality(Alive) - 1
       /\ Cardinality(BeingKilled') = Cardinality(BeingKilled) - 1
  BY <1>0, <1>9, CountRemove DEF Countable
<1>11. PendingKills' = PendingKills - 1 /\ PendingKills \in Nat
  <2>1. Tokens(KillThreads)' = Tokens(KillThreads) /\ Tokens(KillThreads) \in Nat
    BY <1>0, <1>6, Kinds DEF Countable
  <2> QED
    BY <1>0, <1>10, <2>1 DEF PendingKills, Countable
<1>12. \A v \in Workers : pc'[v] = "schedule" => run_stage'[v] # KillThreads
  BY <1>1, <1>2, Kinds DEF PoolLedger, thread_kill, Typed, PcTyped
<1>13. threads_to_kill' = PendingKills' /\ nthreads' = PendingKills' /\ nthreads' = Cardinality(Alive')
  BY SMTT(30), <1>0, <1>1, <1>10, <1>11 DEF PoolLedger, thread_kill, Countable
<1>14. n_idles' = Cardinality(Resting')
  BY <1>9 DEF PoolLedger, thread_kill
<1>15. Killing' /\ ~Disconnecting(KillThreads)'
  BY SMTT(30), <1>1, <1>2 DEF Killing, Disconnecting, StagePhases, thread_kill
<1>16. PoolLedger'
  BY <1>2, <1>12, <1>13, <1>14, <1>15 DEF PoolLedger
<1> QED
  BY <1>4, <1>7, <1>8, <1>16

\* A service thread gives its reference back and leaves the stage.
LEMMA ReleaseEventStep ==
  ASSUME NEW w \in Workers, IInv, release_event(w)
  PROVE  IInv'
<1> USE DEF IInv
<1>0. Countable
  BY CountsAreNumbers
<1>a. PICK rs \in AllStages : rs = run_stage[w]
  BY DEF Typed
<1>1. event_ref[rs] >= 1 /\ attached[rs] /\ (connected[rs] \/ Disconnecting(rs))
  <2>1. w \in Holders(rs)
    BY <1>a DEF release_event, Holders
  <2> QED
    BY <2>1, ReferenceHeld
<1>2. \/ pc'[Admin] = pc[Admin]
      \/ pc[Admin] = "disc_wait" /\ pc'[Admin] = "disc_woken"
  BY Kinds DEF release_event, Typed, PcTyped
<1>3. PcTyped'
  BY ZenonT(30), <1>2, Kinds DEF release_event, Typed, PcTyped, WorkerPc, AdminPc
<1>4. event_ref' = [event_ref EXCEPT ![rs] = event_ref[rs] - 1]
  BY <1>a DEF release_event
<1>5. Typed'
  BY <1>3, <1>4 DEF Typed, release_event, poolVars
<1>6. \A s \in AllStages : /\ Queued(s)' = Queued(s) /\ Scheduling(s)' = Scheduling(s)
                           /\ Removing(s)' = Removing(s) /\ Backlog(s)' = Backlog(s)
                           /\ s # rs => Holders(s)' = Holders(s)
  BY SMTT(30), <1>a, <1>2, Kinds DEF release_event, poolVars, Typed, PcTyped, Queued, Scheduling,
                           Removing, Holders, Backlog
<1>7. \A s \in AllStages : Tokens(s)' = Tokens(s)
  BY <1>6 DEF Tokens
<1>8. Cardinality(Holders(rs)') = Cardinality(Holders(rs)) - 1
  <2>1. Holders(rs)' = Holders(rs) \ {w} /\ w \in Holders(rs)
    BY <1>a, <1>2, Kinds DEF release_event, Typed, PcTyped, Holders
  <2> QED
    BY SMTT(30), <1>0, <2>1, CountRemove DEF Countable
<1>9. StageLedger'
  <2> SUFFICES ASSUME NEW s \in AllStages
               PROVE  /\ event_ref'[s] = Tokens(s)' + Cardinality(Holders(s)')
                      /\ Tokens(s)' <= Len(event_list'[s])
    BY DEF StageLedger
  <2>1. Cardinality(Holders(s)') = Cardinality(Holders(s)) - (IF s = rs THEN 1 ELSE 0)
    BY SMTT(30), <1>0, <1>6, <1>8 DEF Countable
  <2>2. event_ref'[s] = event_ref[s] - (IF s = rs THEN 1 ELSE 0)
    BY <1>4 DEF Typed
  <2>3. /\ event_ref[s] = Tokens(s) + Cardinality(Holders(s))
        /\ Tokens(s) \in Nat /\ Cardinality(Holders(s)) \in Nat
    BY <1>0 DEF StageLedger, Countable
  <2>4. event_ref'[s] = Tokens(s) + Cardinality(Holders(s)')
    BY <2>1, <2>2, <2>3
  <2>5. Tokens(s) <= Len(event_list'[s])
    BY DEF StageLedger, release_event
  <2> QED
    BY <1>7, <2>4, <2>5
<1>10. \A s \in AllStages : Disconnecting(s)' = Disconnecting(s)
  BY <1>2 DEF Disconnecting, release_event
<1>11. Killing' = Killing
  BY SMTT(30), <1>2 DEF Killing, release_event
<1>12. StagePhases'
  <2>1. \A s \in AllStages : s # rs => event_ref'[s] = event_ref[s]
    BY SMTT(30), <1>4 DEF Typed
  <2>2. \A s \in AllStages :
          /\ ~connected'[s] /\ ~Disconnecting(s)' => event_ref'[s] = 0
          /\ ~attached'[s] => ~connected'[s] /\ event_ref'[s] = 0
          /\ Disconnecting(s)' => attached'[s] /\ ~connected'[s]
    BY SMTT(30), <1>1, <1>10, <2>1 DEF StagePhases, release_event
  <2> QED
    BY <1>2, <1>10, <1>11, <2>2, Kinds DEF StagePhases, release_event
<1>13. Resting' = Resting /\ Alive' = Alive /\ BeingKilled' = BeingKilled
  BY ZenonT(30), <1>2, Kinds DEF release_event, Typed, PcTyped, Resting, Alive, BeingKilled, Killed
<1>14. \A v \in Workers : pc'[v] = "schedule" => run_stage'[v] # KillThreads
  BY <1>2, Kinds DEF PoolLedger, release_event, Typed, PcTyped
<1>15. PendingKills' = PendingKills
  BY <1>7, <1>13, Kinds DEF PendingKills
<1>16. Killing /\ pc[Admin] = "backlog" => event_ref'[KillThreads] = 0
  BY SMTT(30), <1>1, <1>4, Kinds DEF PoolLedger, Typed
<1>17. PoolLedger'
  BY ZenonT(30), <1>2, <1>10, <1>11, <1>13, <1>14, <1>15, <1>16, Kinds
  DEF PoolLedger, release_event, poolVars
<1> QED
  BY <1>5, <1>9, <1>12, <1>17
=============================================================================

-------------------------- MODULE SedaPoolAddEvent --------------------------
(***************************************************************************)
(* Preservation of the invariant by the calls of Stage::add_event,         *)
(* whichever thread makes them.                                            *)
(***************************************************************************)
EXTENDS SedaPoolInvariant

\* Where thread t may be when it calls add_event() on stage st.
Caller(t, st) ==
  \/ t \in Workers /\ pc[t] = "handle" /\ run_stage[t] # KillThreads /\ st \in Stages
  \/ t \in Clients /\ pc[t] = "ready" /\ st \in Stages
  \/ t = Admin /\ pc[t] = "kill_gen" /\ st = KillThreads

\* add_event() adds an event to the list; on a connected stage it also takes a
\* reference and owes one call of schedule().
LEMMA AddEventEffect ==
  ASSUME IInv, NEW t \in Threads, NEW st \in AllStages, NEW e \in Events \cup {KillEvent},
         Caller(t, st), add_event(t, st, e),
         UNCHANGED <<connected, attached, poolVars, run_stage>>, t # Admin => left' = left
  PROVE  /\ event_list' \in [AllStages -> Seq(Events \cup {KillEvent})]
         /\ event_ref' \in [AllStages -> Int]
         /\ target' \in [Threads -> AllStages]
         /\ PcTyped' /\ (t # Admin => pc'[Admin] = pc[Admin] /\ target'[Admin] = target[Admin])
         /\ \A s \in AllStages :
              /\ s # st => event_ref'[s] = event_ref[s] /\ event_list'[s] = event_list[s]
              /\ Tokens(s)' = Tokens(s) + (IF s = st /\ connected[st] THEN 1 ELSE 0)
         /\ ~connected[st] => event_ref' = event_ref
         /\ StageLedger'
         /\ Resting' = Resting /\ Alive' = Alive /\ BeingKilled' = BeingKilled
         /\ \A v \in Workers : pc'[v] = "schedule" => run_stage'[v] # KillThreads
<1> USE DEF IInv
<1>0. Countable
  BY CountsAreNumbers
<1>1. /\ event_list' \in [AllStages -> Seq(Events \cup {KillEvent})]
      /\ \A s \in AllStages : s # st => event_list'[s] = event_list[s]
      /\ Len(event_list'[st]) = Len(event_list[st]) + 1
  BY DEF add_event, Typed
<1>2. /\ event_ref' \in [AllStages -> Int]
      /\ ~connected[st] => event_ref' = event_ref
      /\ \A s \in AllStages : event_ref'[s] = event_ref[s] + (IF s = st /\ connected[st] THEN 1 ELSE 0)
  BY DEF add_event, Typed
<1>3. /\ target' \in [Threads -> AllStages]
      /\ \A x \in Threads : x # t => target'[x] = target[x] /\ pc'[x] = pc[x]
      /\ connected[st] => pc'[t] = "schedule" /\ target'[t] = st
      /\ ~connected[st] => pc' = pc /\ target' = target
  BY ZenonT(30) DEF add_event, Typed, PcTyped
<1>4. PcTyped'
  <2>1. pc' \in [Threads -> WorkerPc \cup AdminPc \cup {"ready"}]
    BY ZenonT(30) DEF add_event, Typed, PcTyped, WorkerPc
  <2>2. \A w \in Workers : pc'[w] = pc[w] \/ (pc[w] = "handle" /\ pc'[w] = "schedule")
    BY <1>3, Kinds DEF Caller
  <2>3. \A c \in Clients : pc'[c] = pc[c] \/ pc'[c] = "schedule"
    BY <1>3, Kinds DEF Caller
  <2>4. pc'[Admin] = pc[Admin] \/ pc'[Admin] = "schedule"
    BY <1>3, Kinds DEF Caller
  <2> QED
    BY <2>1, <2>2, <2>3, <2>4 DEF PcTyped, Typed, WorkerPc, AdminPc
<1>5. t # Admin => pc'[Admin] = pc[Admin] /\ target'[Admin] = target[Admin]
  BY SMTT(30), <1>3, Kinds
<1>6. /\ Resting' = Resting /\ Alive' = Alive /\ BeingKilled' = BeingKilled
      /\ \A v \in Workers : pc'[v] = "schedule" => run_stage'[v] # KillThreads
      /\ \A s \in AllStages : Removing(s)' = Removing(s) /\ Holders(s)' = Holders(s)
  BY <1>3, Kinds DEF Caller, Resting, Alive, BeingKilled, Killed, Removing, Holders, PoolLedger
<1>7. \A s \in AllStages : Queued(s)' = Queued(s) /\ Backlog(s)' = Backlog(s)
  BY <1>3, <1>5, Kinds DEF Queued, Backlog, poolVars, Caller
<1>8. \A s \in AllStages :
        Cardinality(Scheduling(s)') =
          Cardinality(Scheduling(s)) + (IF s = st /\ connected[st] THEN 1 ELSE 0)
  <2> SUFFICES ASSUME NEW s \in AllStages
               PROVE  Cardinality(Scheduling(s)') =
                        Cardinality(Scheduling(s)) + (IF s = st /\ connected[st] THEN 1 ELSE 0)
    OBVIOUS
  <2>1. CASE s = st /\ connected[st]
    <3>1. Scheduling(s)' = Scheduling(s) \cup {t} /\ t \notin Scheduling(s)
      BY <1>3, <2>1 DEF Scheduling, Caller
    <3> QED
      BY <1>0, <2>1, <3>1, CountAdd DEF Countable
  <2>2. CASE ~(s = st /\ connected[st])
    <3>1. Scheduling(s)' = Scheduling(s)
      BY <1>3, <2>2 DEF Scheduling, Caller
    <3> QED
      BY <1>0, <2>2, <3>1 DEF Countable
  <2> QED
    BY <2>1, <2>2
<1>9. \A s \in AllStages : Tokens(s)' = Tokens(s) + (IF s = st /\ connected[st] THEN 1 ELSE 0)
  <2> SUFFICES ASSUME NEW s \in AllStages
               PROVE  Tokens(s)' = Tokens(s) + (IF s = st /\ connected[st] THEN 1 ELSE 0)
    OBVIOUS
  <2>1. CASE s = st /\ connected[st]
    <3>1. Cardinality(Scheduling(s)') = Cardinality(Scheduling(s)) + 1
      BY <1>8, <2>1
    <3>2. /\ Cardinality(Queued(s)) \in Nat /\ Cardinality(Scheduling(s)) \in Nat
          /\ Cardinality(Removing(s)) \in Nat /\ Backlog(s) \in Nat
      BY SMTT(30), <1>0 DEF Countable
    <3>3. Cardinality(Queued(s)') = Cardinality(Queued(s)) /\ Backlog(s)' = Backlog(s)
          /\ Cardinality(Removing(s)') = Cardinality(Removing(s))
      BY <1>6, <1>7
    <3>4. Tokens(s)' = Tokens(s) + 1
      BY <3>1, <3>2, <3>3 DEF Tokens
    <3> QED
      BY <2>1, <3>4
  <2>2. CASE ~(s = st /\ connected[st])
    <3>1. Cardinality(Scheduling(s)') = Cardinality(Scheduling(s))
      BY SMTT(30), <1>0, <1>8, <2>2 DEF Countable
    <3>2. Tokens(s)' = Tokens(s) /\ Tokens(s) \in Nat
      BY SMTT(30), <1>0, <1>6, <1>7, <3>1 DEF Tokens, Countable
    <3> QED
      BY <2>2, <3>2
  <2> QED
    BY <2>1, <2>2
<1>10. StageLedger'
  <2> SUFFICES ASSUME NEW s \in AllStages
               PROVE  /\ event_ref'[s] = Tokens(s)' + Cardinality(Holders(s)')
                      /\ Tokens(s)' <= Len(event_list'[s])
    BY DEF StageLedger
  <2>1. /\ event_ref[s] = Tokens(s) + Cardinality(Holders(s)) /\ Tokens(s) <= Len(event_list[s])
        /\ Tokens(s) \in Nat /\ Cardinality(Holders(s)) \in Nat /\ Len(event_list[s]) \in Nat
    BY SMTT(30), <1>0 DEF StageLedger, Countable
  <2>2. Cardinality(Holders(s)') = Cardinality(Holders(s))
    BY <1>6
  <2>3. CASE s = st /\ connected[st]
    <3>1. event_ref'[s] = event_ref[s] + 1 /\ Tokens(s)' = Tokens(s) + 1
      BY SMTT(30), <1>2, <1>9, <2>3
    <3>2. Len(event_list'[s]) = Len(event_list[s]) + 1
      BY SMTT(30), <1>1, <2>3
    <3> QED
      BY <2>1, <2>2, <3>1, <3>2
  <2>4. CASE ~(s = st /\ connected[st])
    <3>1. event_ref'[s] = event_ref[s] + 0 /\ Tokens(s)' = Tokens(s) + 0
      BY <1>2, <1>9, <2>4
    <3>2. Len(event_list'[s]) = Len(event_list[s]) \/ Len(event_list'[s]) = Len(event_list[s]) + 1
      BY <1>1
    <3> QED
      BY <2>1, <2>2, <3>1, <3>2
  <2> QED
    BY <2>3, <2>4
<1>11. \A s \in AllStages : s # st => event_ref'[s] = event_ref[s]
  BY <1>2 DEF Typed
<1> QED
  BY ZenonT(30), <1>1, <1>2, <1>3, <1>4, <1>5, <1>6, <1>9, <1>10, <1>11

\* A client or a service thread adds an event to a configured stage.
LEMMA AddEventStep ==
  ASSUME IInv, NEW t \in Workers \cup Clients, NEW st \in Stages, NEW e \in Events \cup {KillEvent},
         Caller(t, st), add_event(t, st, e),
         event' \in [Workers -> Events \cup {KillEvent, NoEvent}], unused' \in SUBSET Events,
         UNCHANGED <<connected, attached, poolVars, run_stage, left>>
  PROVE  IInv'
<1> USE DEF IInv
<1>0. Countable /\ t \in Threads /\ t # Admin /\ st \in AllStages /\ st # KillThreads
  BY SMTT(30), CountsAreNumbers, Kinds
<1>1. /\ event_list' \in [AllStages -> Seq(Events \cup {KillEvent})]
      /\ event_ref' \in [AllStages -> Int]
      /\ target' \in [Threads -> AllStages]
      /\ PcTyped' /\ pc'[Admin] = pc[Admin] /\ target'[Admin] = target[Admin]
      /\ \A s \in AllStages :
           /\ s # st => event_ref'[s] = event_ref[s] /\ event_list'[s] = event_list[s]
           /\ Tokens(s)' = Tokens(s) + (IF s = st /\ connected[st] THEN 1 ELSE 0)
      /\ ~connected[st] => event_ref' = event_ref
      /\ StageLedger'
      /\ Resting' = Resting /\ Alive' = Alive /\ BeingKilled' = BeingKilled
      /\ \A v \in Workers : pc'[v] = "schedule" => run_stage'[v] # KillThreads
  BY SMTT(30), <1>0, AddEventEffect
<1>2. Typed'
  BY ZenonT(30), <1>1 DEF Typed, poolVars
<1>3. StagePhases'
  BY ZenonT(30), <1>1, Kinds DEF StagePhases, Killing, Disconnecting
<1>4. PendingKills' = PendingKills
  <2>a. Tokens(KillThreads)' = Tokens(KillThreads) + 0
    BY <1>0, <1>1, Kinds
  <2>b. Tokens(KillThreads) \in Nat
    BY <1>0, Kinds DEF Countable
  <2>1. Tokens(KillThreads)' = Tokens(KillThreads)
    BY SMTT(30), <2>a, <2>b
  <2> QED
    BY ZenonT(30), <1>1, <2>1 DEF PendingKills
<1>5. event_list'[KillThreads] = event_list[KillThreads] /\ event_ref'[KillThreads] = event_ref[KillThreads]
  BY ZenonT(30), <1>0, <1>1, Kinds
<1>6. PoolLedger'
  BY ZenonT(30), <1>1, <1>4, <1>5 DEF PoolLedger, poolVars, Killing, Disconnecting
<1> QED
  BY <1>1, <1>2, <1>3, <1>6

\* A client calls add_event().
LEMMA ClientAddEventStep ==
  ASSUME NEW c \in Clients, IInv, ClientAddEvent(c)
  PROVE  IInv'
<1>1. PICK s \in Stages, e \in unused : add_event(c, s, e) /\ unused' = unused \ {e}
  BY DEF ClientAddEvent
<1>2. e \in Events /\ unused' \in SUBSET Events /\ event \in [Workers -> Events \cup {KillEvent, NoEvent}]
  BY SMTT(30), <1>1 DEF IInv, Typed
<1>3. Caller(c, s) /\ UNCHANGED <<connected, attached, poolVars, run_stage, left>> /\ event' = event
  BY ZenonT(30) DEF ClientAddEvent, Caller
<1> QED
  BY <1>1, <1>2, <1>3, AddEventStep

\* A handler adds a new event to a stage.
LEMMA HandlerAddsEventStep ==
  ASSUME NEW w \in Workers, IInv, HandlerAddsEvent(w)
  PROVE  IInv'
<1>1. PICK s \in Stages, e \in unused : add_event(w, s, e) /\ unused' = unused \ {e}
  BY DEF HandlerAddsEvent
<1>2. e \in Events /\ unused' \in SUBSET Events /\ event \in [Workers -> Events \cup {KillEvent, NoEvent}]
  BY SMTT(30), <1>1 DEF IInv, Typed
<1>3. Caller(w, s) /\ UNCHANGED <<connected, attached, poolVars, run_stage, left>> /\ event' = event
  BY DEF HandlerAddsEvent, Caller
<1> QED
  BY <1>1, <1>2, <1>3, AddEventStep

\* A handler passes its event on to a stage.
LEMMA HandlerForwardsStep ==
  ASSUME NEW w \in Workers, IInv, HandlerForwards(w)
  PROVE  IInv'
<1>1. PICK s \in Stages : add_event(w, s, event[w])
  BY DEF HandlerForwards
<1>2. /\ event[w] \in Events \cup {KillEvent} /\ unused \in SUBSET Events
      /\ event' \in [Workers -> Events \cup {KillEvent, NoEvent}]
  BY DEF HandlerForwards, IInv, Typed
<1>3. Caller(w, s) /\ UNCHANGED <<connected, attached, poolVars, run_stage, left, unused>>
  BY DEF HandlerForwards, Caller
<1>4. PICK e \in Events \cup {KillEvent} : e = event[w]
  BY SMTT(30), <1>2
<1> QED
  BY <1>1, <1>2, <1>3, <1>4, AddEventStep

\* gen_kill_thread_events() adds a kill event.
LEMMA GenKillThreadEventStep ==
  ASSUME IInv, gen_kill_thread_event
  PROVE  IInv'
<1> USE DEF IInv
<1>0. Countable /\ Admin \in Threads /\ KillThreads \in AllStages /\ connected[KillThreads]
  BY ZenonT(30), CountsAreNumbers, Kinds DEF gen_kill_thread_event, StagePhases, Killing
<1>1. Caller(Admin, KillThreads) /\ UNCHANGED <<connected, attached, poolVars, run_stage>>
  BY SMTT(30) DEF gen_kill_thread_event, Caller
<1>2. /\ event_list' \in [AllStages -> Seq(Events \cup {KillEvent})]
      /\ event_ref' \in [AllStages -> Int]
      /\ target' \in [Threads -> AllStages]
      /\ PcTyped'
      /\ \A s \in AllStages :
           /\ s # KillThreads => event_ref'[s] = event_ref[s] /\ event_list'[s] = event_list[s]
           /\ Tokens(s)' = Tokens(s) + (IF s = KillThreads /\ connected[KillThreads] THEN 1 ELSE 0)
      /\ StageLedger'
      /\ Resting' = Resting /\ Alive' = Alive /\ BeingKilled' = BeingKilled
      /\ \A v \in Workers : pc'[v] = "schedule" => run_stage'[v] # KillThreads
  BY SMTT(30), <1>0, <1>1, AddEventEffect DEF gen_kill_thread_event
<1>3. pc[Admin] = "kill_gen" /\ pc'[Admin] = "schedule" /\ target'[Admin] = KillThreads
      /\ target[Admin] = KillThreads /\ left' = left - 1 /\ left > 0
  BY <1>0 DEF gen_kill_thread_event, add_event, Typed, PcTyped, StagePhases
<1>a. left' \in Nat
  BY <1>3 DEF Typed
<1>b. UNCHANGED <<connected, attached, run_queue, n_idles, nthreads, threads_to_kill,
                  run_stage, event, unused>>
  BY <1>1 DEF gen_kill_thread_event, poolVars
<1>4. Typed'
  BY SMTT(30), <1>2, <1>a, <1>b DEF Typed
<1>5. StagePhases'
  BY ZenonT(30), <1>0, <1>1, <1>2, <1>3, Kinds DEF StagePhases, Killing, Disconnecting
<1>6. left' + PendingKills' = nthreads
  <2>1. Tokens(KillThreads)' = Tokens(KillThreads) + 1 /\ Tokens(KillThreads) \in Nat
    BY SMTT(30), <1>0, <1>2 DEF Countable
  <2>2. Cardinality(BeingKilled) \in Nat /\ Cardinality(BeingKilled') = Cardinality(BeingKilled)
    BY <1>0, <1>2 DEF Countable
  <2>3. PendingKills' = PendingKills + 1 /\ PendingKills \in Nat
    BY SMTT(30), <2>1, <2>2 DEF PendingKills
  <2>4. nthreads = left + PendingKills /\ left \in Nat
    BY <1>3 DEF PoolLedger, Killing, Typed
  <2> QED
    BY <1>3, <2>3, <2>4
<1>7. PoolLedger'
  BY ZenonT(30), <1>1, <1>2, <1>3, <1>6 DEF PoolLedger, poolVars, Killing, Disconnecting
<1> QED
  BY SMTT(30), <1>2, <1>4, <1>5, <1>7
=============================================================================

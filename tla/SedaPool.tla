------------------------------ MODULE SedaPool ------------------------------
(***************************************************************************)
(* The SEDA runtime of deps/common/seda: a Threadpool (thread_pool.cpp)    *)
(* whose service threads run the events queued on Stages (stage.cpp), the  *)
(* KillThreads stage with which the pool destroys its own threads          *)
(* (kill_thread.cpp) and the start / cleanup script of SedaConfig.         *)
(*                                                                         *)
(* get_thread_pool() in seda_config.cpp returns the default pool for every *)
(* stage whatever the configuration says, so one pool serves all stages.   *)
(*                                                                         *)
(* A critical section of one mutex is one action.  Between two of them any *)
(* other thread may run: add_event() releases list_mutex_ before it calls  *)
(* schedule(), and run_thread() pops the run queue before it pops the      *)
(* stage's event list.  thread_mutex_ is held by kill_threads() across     *)
(* several of these steps and is modelled by ThreadMutexHeld.              *)
(***************************************************************************)
EXTENDS Naturals, Sequences, FiniteSets

CONSTANTS
  Workers,        \* service threads the pool may create
  Clients,        \* threads outside the pool that add events (network, timer)
  Admin,          \* the thread that runs SedaConfig start(), cleanup()
  Stages,         \* the configured stages
  KillThreads,    \* the pool's own KillThreadStage
  Events,         \* identities of the events the system ever creates
  KillEvent,      \* an event of the KillThreads stage
  NoEvent,        \* no event in hand
  SpuriousThreadCond  \* may the wait on thread_cond_ return unsignalled?

ASSUME ThreadsAssumption ==
  /\ IsFiniteSet(Workers) /\ IsFiniteSet(Clients)
  /\ Workers \cap Clients = {}
  /\ Admin \notin Workers \cup Clients

ASSUME StagesAssumption ==
  /\ KillThreads \notin Stages
  /\ KillEvent \notin Events /\ NoEvent \notin Events \cup {KillEvent}
  /\ SpuriousThreadCond \in BOOLEAN

VARIABLES
  event_list,     \* Stage::event_list_, per stage
  connected,      \* Stage::connected_
  event_ref,      \* Stage::event_ref_
  attached,       \* Stage::th_pool_ # NULL
  run_queue,      \* Threadpool::run_queue_
  n_idles,        \* Threadpool::n_idles_
  nthreads,       \* Threadpool::nthreads_
  threads_to_kill,\* Threadpool::threads_to_kill_
  pc,             \* where each thread is
  run_stage,      \* run_thread()'s local run_stage
  event,          \* the event a service thread has in hand
  target,         \* the stage a thread's add_event/connect/disconnect is on
  left,           \* Admin's loop counter: backlog in connect(), kill events to add
  unused          \* events not created yet

stageVars == <<event_list, connected, event_ref, attached>>
poolVars == <<run_queue, n_idles, nthreads, threads_to_kill>>
vars == <<stageVars, poolVars, pc, run_stage, event, target, left, unused>>

Threads == Workers \cup Clients \cup {Admin}
AllStages == Stages \cup {KillThreads}

WorkerPc == {"unborn", "loop", "idle", "woken", "remove", "handle", "schedule",
             "release", "dead"}
AdminPc == {"boot", "start", "backlog", "cleanup", "disc_wait", "disc_woken",
            "kill_gen", "schedule", "kill_wait", "kill_woken", "done"}

(***************************************************************************)
(* kill_threads() keeps thread_mutex_ locked except inside its COND_WAIT.  *)
(***************************************************************************)
ThreadMutexHeld ==
  /\ target[Admin] = KillThreads
  /\ pc[Admin] \in {"backlog", "kill_gen", "schedule", "disc_wait", "disc_woken"}

\* clear_config() deletes the stages and goes on to kill_threads() at once.
StagesExist == ~attached[KillThreads] /\ pc[Admin] # "done"

Idle == {w \in Workers : pc[w] = "idle"}

Init ==
  /\ event_list = [s \in AllStages |-> <<>>]
  /\ connected = [s \in AllStages |-> FALSE]
  /\ event_ref = [s \in AllStages |-> 0]
  /\ attached = [s \in AllStages |-> s # KillThreads]
  /\ run_queue = <<>>
  /\ n_idles = 0 /\ nthreads = 0 /\ threads_to_kill = 0
  /\ pc = [t \in Threads |-> IF t = Admin THEN "boot"
                             ELSE IF t \in Workers THEN "unborn" ELSE "ready"]
  /\ run_stage = [w \in Workers |-> KillThreads]
  /\ event = [w \in Workers |-> NoEvent]
  /\ target = [t \in Threads |-> KillThreads]
  /\ left = 0
  /\ unused = Events

\* Mutant of schedule: the test for a caller outside the pool is left out.
MutScheduleNoSignal(t, stage, next) ==
  /\ run_queue' = Append(run_queue, stage)
  /\ IF run_queue # <<>> /\ n_idles > 0 /\ Idle # {}
     THEN \E w \in Idle : pc' = [pc EXCEPT ![t] = next, ![w] = "woken"]
     ELSE pc' = [pc EXCEPT ![t] = next]

(***************************************************************************)
(* Threadpool::schedule(stage) called by thread t, which continues at      *)
(* next: push the stage on the run queue and wake one idle service thread, *)
(* unless t is itself a thread of the pool and the queue was empty.        *)
(***************************************************************************)
schedule(t, stage, next) ==
  /\ run_queue' = Append(run_queue, stage)
  /\ IF (run_queue # <<>> \/ t \notin Workers) /\ n_idles > 0 /\ Idle # {}
     THEN \E w \in Idle : pc' = [pc EXCEPT ![t] = next, ![w] = "woken"]
     ELSE pc' = [pc EXCEPT ![t] = next]

(***************************************************************************)
(* Stage::add_event(e) on stage s called by thread t, up to the release of *)
(* list_mutex_.  The call of schedule() that follows is a step of its own. *)
(***************************************************************************)
add_event(t, s, e) ==
  /\ event_list' = [event_list EXCEPT ![s] = Append(@, e)]
  /\ IF connected[s]
     THEN /\ event_ref' = [event_ref EXCEPT ![s] = @ + 1]
          /\ pc' = [pc EXCEPT ![t] = "schedule"]
          /\ target' = [target EXCEPT ![t] = s]
     ELSE UNCHANGED <<event_ref, pc, target>>

-----------------------------------------------------------------------------
(* Client threads *)

\* Server::recv() or the timer thread hands a new event to a stage.  The
\* stages exist until SedaConfig::clear_config() has deleted them.
ClientAddEvent(c) ==
  /\ pc[c] = "ready"
  /\ StagesExist
  /\ \E s \in Stages, e \in unused :
       /\ add_event(c, s, e)
       /\ unused' = unused \ {e}
  /\ UNCHANGED <<connected, attached, poolVars, run_stage, event, left>>

\* The second half of add_event() in a client or a service thread.
ScheduleTarget(t) ==
  /\ pc[t] = "schedule" /\ t # Admin
  /\ schedule(t, target[t], IF t \in Workers THEN "handle" ELSE "ready")
  /\ UNCHANGED <<stageVars, n_idles, nthreads, threads_to_kill, run_stage,
                 event, target, left, unused>>

-----------------------------------------------------------------------------
(* Service threads: Threadpool::run_thread *)

\* Mutant of Dequeue: a woken thread takes its n_idles_ back on every turn of
\* the loop.
MutDequeueIdles(w) ==
  /\ pc[w] \in {"loop", "woken"}
  /\ IF run_queue = <<>>
     THEN /\ pc' = [pc EXCEPT ![w] = "idle"]
          /\ n_idles' = n_idles + 1
          /\ UNCHANGED <<run_queue, run_stage>>
     ELSE /\ pc' = [pc EXCEPT ![w] = "remove"]
          /\ n_idles' = n_idles - 1
          /\ run_stage' = [run_stage EXCEPT ![w] = Head(run_queue)]
          /\ run_queue' = Tail(run_queue)
  /\ UNCHANGED <<stageVars, nthreads, threads_to_kill, event, target, left, unused>>

\* Lock run_mutex_, wait while the run queue is empty, pop its first stage.
\* A woken thread first takes back its increment of n_idles_.
Dequeue(w) ==
  /\ pc[w] \in {"loop", "woken"}
  /\ LET idles == IF pc[w] = "woken" THEN n_idles - 1 ELSE n_idles IN
     IF run_queue = <<>>
     THEN /\ pc' = [pc EXCEPT ![w] = "idle"]
          /\ n_idles' = idles + 1
          /\ UNCHANGED <<run_queue, run_stage>>
     ELSE /\ pc' = [pc EXCEPT ![w] = "remove"]
          /\ n_idles' = idles
          /\ run_stage' = [run_stage EXCEPT ![w] = Head(run_queue)]
          /\ run_queue' = Tail(run_queue)
  /\ UNCHANGED <<stageVars, nthreads, threads_to_kill, event, target, left, unused>>

\* POSIX lets the wait on run_cond_ return without a signal.
SpuriousWakeup(w) ==
  /\ pc[w] = "idle"
  /\ pc' = [pc EXCEPT ![w] = "woken"]
  /\ UNCHANGED <<stageVars, poolVars, run_stage, event, target, left, unused>>

\* Stage::remove_event().  Its assertion that the list is not empty is
\* AssertionsHold; a failing one would stop the program here.
remove_event(w) ==
  /\ pc[w] = "remove"
  /\ event_list[run_stage[w]] # <<>>
  /\ event' = [event EXCEPT ![w] = Head(event_list[run_stage[w]])]
  /\ event_list' = [event_list EXCEPT ![run_stage[w]] = Tail(@)]
  /\ pc' = [pc EXCEPT ![w] = "handle"]
  /\ UNCHANGED <<connected, event_ref, attached, poolVars, run_stage, target, left, unused>>

\* While it handles its event, a stage may create another event for any
\* stage (MetricsStage::handle_event, SessionStage, ...).
HandlerAddsEvent(w) ==
  /\ pc[w] = "handle" /\ run_stage[w] # KillThreads
  /\ \E s \in Stages, e \in unused :
       /\ add_event(w, s, e)
       /\ unused' = unused \ {e}
  /\ UNCHANGED <<connected, attached, poolVars, run_stage, event, left>>

\* It may also pass its own event on: to a next stage, or back to the stage
\* of the topmost completion callback (StageEvent::done).
HandlerForwards(w) ==
  /\ pc[w] = "handle" /\ run_stage[w] # KillThreads
  /\ event[w] # NoEvent
  /\ \E s \in Stages : add_event(w, s, event[w])
  /\ event' = [event EXCEPT ![w] = NoEvent]
  /\ UNCHANGED <<connected, attached, poolVars, run_stage, left, unused>>

\* handle_event() returns; an event it has not passed on is deleted (done()
\* with no callback left).
HandlerReturns(w) ==
  /\ pc[w] = "handle" /\ run_stage[w] # KillThreads
  /\ event' = [event EXCEPT ![w] = NoEvent]
  /\ pc' = [pc EXCEPT ![w] = "release"]
  /\ UNCHANGED <<stageVars, poolVars, run_stage, target, left, unused>>

\* KillThreadStage::handle_event: Threadpool::thread_kill() under
\* thread_mutex_, then the event is deleted.
thread_kill(w) ==
  /\ pc[w] = "handle" /\ run_stage[w] = KillThreads
  /\ ~ThreadMutexHeld
  /\ nthreads' = nthreads - 1
  /\ threads_to_kill' = threads_to_kill - 1
  /\ event' = [event EXCEPT ![w] = NoEvent]
  /\ pc' = [pc EXCEPT ![w] = "release",
                      ![Admin] = IF threads_to_kill = 1 /\ @ = "kill_wait"
                                 THEN "kill_woken" ELSE @]
  /\ UNCHANGED <<stageVars, run_queue, n_idles, run_stage, target, left, unused>>

\* Mutant of release_event: the waiting disconnect() is not signalled.
MutReleaseNoSignal(w) ==
  LET s == run_stage[w] IN
  /\ pc[w] = "release"
  /\ event_ref' = [event_ref EXCEPT ![s] = @ - 1]
  /\ pc' = [pc EXCEPT ![w] = IF s = KillThreads THEN "dead" ELSE "loop"]
  /\ UNCHANGED <<event_list, connected, attached, poolVars, run_stage, event,
                 target, left, unused>>

\* Stage::release_event(); a thread that handled a kill event exits instead
\* of returning to its loop.
release_event(w) ==
  LET s == run_stage[w] IN
  /\ pc[w] = "release"
  /\ event_ref' = [event_ref EXCEPT ![s] = @ - 1]
  /\ pc' = [pc EXCEPT ![w] = IF s = KillThreads THEN "dead" ELSE "loop",
                      ![Admin] = IF /\ ~connected[s] /\ event_ref[s] = 1
                                    /\ @ = "disc_wait" /\ target[Admin] = s
                                 THEN "disc_woken" ELSE @]
  /\ UNCHANGED <<event_list, connected, attached, poolVars, run_stage, event,
                 target, left, unused>>

-----------------------------------------------------------------------------
(* The thread that runs SedaConfig and the Threadpool constructor/destructor *)

\* Threadpool::add_threads; pthread_create may fail after some threads.
add_threads ==
  /\ pc[Admin] = "boot"
  /\ \E started \in SUBSET Workers :
       /\ nthreads' = Cardinality(started)
       /\ pc' = [t \in Threads |-> IF t = Admin THEN "start"
                                   ELSE IF t \in started THEN "loop" ELSE pc[t]]
  /\ UNCHANGED <<stageVars, run_queue, n_idles, threads_to_kill, run_stage,
                 event, target, left, unused>>

\* Mutant of BeginConnect: the events already waiting are not counted.
MutConnectNoRef(s) ==
  /\ UNCHANGED event_ref
  /\ connected' = [connected EXCEPT ![s] = TRUE]
  /\ left' = Len(event_list[s])
  /\ target' = [target EXCEPT ![Admin] = s]
  /\ pc' = [pc EXCEPT ![Admin] = "backlog"]

\* Stage::connect() on s up to the release of list_mutex_.
BeginConnect(s) ==
  /\ event_ref' = [event_ref EXCEPT ![s] = Len(event_list[s])]
  /\ connected' = [connected EXCEPT ![s] = TRUE]
  /\ left' = Len(event_list[s])
  /\ target' = [target EXCEPT ![Admin] = s]
  /\ pc' = [pc EXCEPT ![Admin] = "backlog"]

\* SedaConfig::start() connects the stages one by one.
connect(s) ==
  /\ pc[Admin] = "start"
  /\ ~connected[s]
  /\ BeginConnect(s)
  /\ UNCHANGED <<event_list, attached, poolVars, run_stage, event, unused>>

\* connect() schedules the stage once for every event that was waiting.
ScheduleBacklog ==
  /\ pc[Admin] = "backlog" /\ left > 0
  /\ schedule(Admin, target[Admin], "backlog")
  /\ left' = left - 1
  /\ UNCHANGED <<stageVars, n_idles, nthreads, threads_to_kill, run_stage,
                 event, target, unused>>

\* connect() returns; kill_threads() goes on to create the kill events, as
\* many as the pool has threads (~Threadpool kills them all).
ConnectReturns ==
  /\ pc[Admin] = "backlog" /\ left = 0
  /\ IF target[Admin] = KillThreads
     THEN /\ pc' = [pc EXCEPT ![Admin] = "kill_gen"]
          /\ left' = nthreads
     ELSE /\ pc' = [pc EXCEPT ![Admin] = "start"]
          /\ UNCHANGED left
  /\ UNCHANGED <<stageVars, poolVars, run_stage, event, target, unused>>

\* start() ends, or an initialize() fails, and SedaConfig::cleanup() begins.
BeginCleanup ==
  /\ pc[Admin] = "start"
  /\ pc' = [pc EXCEPT ![Admin] = "cleanup"]
  /\ UNCHANGED <<stageVars, poolVars, run_stage, event, target, left, unused>>

\* The end of Stage::disconnect(): the stage leaves the pool and the caller
\* continues, SedaConfig::cleanup() with the next stage, ~Threadpool with
\* the end of kill_threads().
FinishDisconnect(s) ==
  /\ attached' = [attached EXCEPT ![s] = FALSE]
  /\ pc' = [pc EXCEPT ![Admin] = IF s = KillThreads THEN "done" ELSE "cleanup"]

\* Mutant of BeginDisconnect: disconnect() does not wait for event_ref_.
MutDisconnectNoWait(s) ==
  /\ connected' = [connected EXCEPT ![s] = FALSE]
  /\ target' = [target EXCEPT ![Admin] = s]
  /\ FinishDisconnect(s)

\* Stage::disconnect() up to its first wait.
BeginDisconnect(s) ==
  /\ connected' = [connected EXCEPT ![s] = FALSE]
  /\ target' = [target EXCEPT ![Admin] = s]
  /\ IF event_ref[s] > 0
     THEN /\ pc' = [pc EXCEPT ![Admin] = "disc_wait"]
          /\ UNCHANGED attached
     ELSE FinishDisconnect(s)

disconnect(s) ==
  /\ pc[Admin] = "cleanup"
  /\ connected[s]
  /\ BeginDisconnect(s)
  /\ UNCHANGED <<event_list, event_ref, poolVars, run_stage, event, left, unused>>

\* disconnect() wakes up from disconnect_cond_ and tests event_ref_ again.
DisconnectRecheck ==
  /\ pc[Admin] = "disc_woken"
  /\ IF event_ref[target[Admin]] > 0
     THEN /\ pc' = [pc EXCEPT ![Admin] = "disc_wait"]
          /\ UNCHANGED attached
     ELSE FinishDisconnect(target[Admin])
  /\ UNCHANGED <<event_list, connected, event_ref, poolVars, run_stage, event,
                 target, left, unused>>

\* SedaConfig::clear_config() deletes the stages, with the events they still
\* hold, and then the pool: kill_threads() connects the KillThreads stage.
clear_config ==
  /\ pc[Admin] = "cleanup"
  /\ \A s \in Stages : ~connected[s]
  /\ event_list' = [s \in AllStages |-> IF s \in Stages THEN <<>> ELSE event_list[s]]
  /\ attached' = [attached EXCEPT ![KillThreads] = TRUE]
  /\ BeginConnect(KillThreads)
  /\ UNCHANGED <<poolVars, run_stage, event, unused>>

\* Threadpool::gen_kill_thread_events: add one kill event.
gen_kill_thread_event ==
  /\ pc[Admin] = "kill_gen" /\ left > 0
  /\ add_event(Admin, KillThreads, KillEvent)
  /\ left' = left - 1
  /\ UNCHANGED <<connected, attached, poolVars, run_stage, event, unused>>

ScheduleKill ==
  /\ pc[Admin] = "schedule"
  /\ schedule(Admin, KillThreads, "kill_gen")
  /\ UNCHANGED <<stageVars, n_idles, nthreads, threads_to_kill, run_stage,
                 event, target, left, unused>>

\* kill_threads() sets the counter and waits on thread_cond_, once and with
\* no test of a condition around the wait.
WaitForKills ==
  /\ pc[Admin] = "kill_gen" /\ left = 0
  /\ threads_to_kill' = nthreads
  /\ pc' = [pc EXCEPT ![Admin] = "kill_wait"]
  /\ UNCHANGED <<stageVars, run_queue, n_idles, nthreads, run_stage, event,
                 target, left, unused>>

SpuriousKillWakeup ==
  /\ SpuriousThreadCond
  /\ pc[Admin] = "kill_wait"
  /\ pc' = [pc EXCEPT ![Admin] = "kill_woken"]
  /\ UNCHANGED <<stageVars, poolVars, run_stage, event, target, left, unused>>

\* kill_threads() has its wake-up and disconnects the KillThreads stage.
KillsDone ==
  /\ pc[Admin] = "kill_woken"
  /\ BeginDisconnect(KillThreads)
  /\ UNCHANGED <<event_list, event_ref, poolVars, run_stage, event, left, unused>>

-----------------------------------------------------------------------------
WorkerStep(w) ==
  \/ Dequeue(w) \/ remove_event(w) \/ HandlerReturns(w) \/ thread_kill(w)
  \/ release_event(w) \/ ScheduleTarget(w)

AdminCleanupStep ==
  \/ \E s \in Stages : disconnect(s)
  \/ DisconnectRecheck \/ clear_config
  \/ gen_kill_thread_event \/ ScheduleKill \/ WaitForKills \/ KillsDone

Next ==
  \/ \E w \in Workers : \/ WorkerStep(w) \/ SpuriousWakeup(w)
                        \/ HandlerAddsEvent(w) \/ HandlerForwards(w)
  \/ \E c \in Clients : ClientAddEvent(c) \/ ScheduleTarget(c)
  \/ add_threads
  \/ \E s \in Stages : connect(s)
  \/ ScheduleBacklog \/ ConnectReturns \/ BeginCleanup
  \/ AdminCleanupStep \/ SpuriousKillWakeup

Spec == Init /\ [][Next]_vars

(***************************************************************************)
(* Service threads keep running and every handle_event() returns; Admin    *)
(* finishes a connect or a cleanup it has begun.  Nobody is obliged to     *)
(* create an event, to begin the cleanup or to be woken spuriously.        *)
(***************************************************************************)
Fairness ==
  /\ \A w \in Workers : WF_vars(WorkerStep(w))
  /\ \A c \in Clients : WF_vars(ScheduleTarget(c))
  /\ WF_vars(ScheduleBacklog \/ ConnectReturns \/ AdminCleanupStep)

FairSpec == Spec /\ Fairness

-----------------------------------------------------------------------------
(* Properties *)

\* The state has its type.  The counters are unsigned in the code: n_idles_,
\* threads_to_kill_ and event_ref_ are never taken below zero.
TypeOK ==
  /\ event_list \in [AllStages -> Seq(Events \cup {KillEvent})]
  /\ connected \in [AllStages -> BOOLEAN]
  /\ event_ref \in [AllStages -> Nat]
  /\ attached \in [AllStages -> BOOLEAN]
  /\ run_queue \in Seq(AllStages)
  /\ n_idles \in Nat /\ nthreads \in Nat /\ threads_to_kill \in Nat
  /\ pc \in [Threads -> WorkerPc \cup AdminPc \cup {"ready"}]
  /\ run_stage \in [Workers -> AllStages]
  /\ event \in [Workers -> Events \cup {KillEvent, NoEvent}]
  /\ target \in [Threads -> AllStages]
  /\ left \in Nat
  /\ unused \in SUBSET Events

\* What a stage is owed by the pool: its places in the run queue, the calls of
\* schedule() on their way there and the threads that popped it but have not
\* yet called remove_event().
Occurrences(q, s) == {i \in 1 .. Len(q) : q[i] = s}
Queued(s) == Occurrences(run_queue, s)
Scheduling(s) == {t \in Threads : pc[t] = "schedule" /\ target[t] = s}
Removing(s) == {w \in Workers : pc[w] = "remove" /\ run_stage[w] = s}
Backlog(s) == IF pc[Admin] = "backlog" /\ target[Admin] = s THEN left ELSE 0
Tokens(s) == Cardinality(Queued(s)) + Cardinality(Scheduling(s))
             + Cardinality(Removing(s)) + Backlog(s)

\* Event e is on the list of stage s.
Waiting(e, s) == \E i \in 1 .. Len(event_list[s]) : event_list[s][i] = e

\* Threads between remove_event() and release_event() of stage s.
Holders(s) == {w \in Workers : pc[w] \in {"handle", "schedule", "release"}
                               /\ run_stage[w] = s}

(***************************************************************************)
(* The assertions of the code hold: remove_event() finds an event,         *)
(* schedule() is called for a stage whose list is not empty, add_event()   *)
(* calls schedule() through a th_pool_ that disconnect() has not cleared.  *)
(***************************************************************************)
AssertionsHold ==
  /\ \A w \in Workers : pc[w] = "remove" => event_list[run_stage[w]] # <<>>
  /\ \A t \in Threads : pc[t] = "schedule" =>
        event_list[target[t]] # <<>> /\ attached[target[t]]
  /\ pc[Admin] = "backlog" /\ left > 0 => event_list[target[Admin]] # <<>>

(***************************************************************************)
(* event_ref_ counts exactly the events disconnect() has to wait for: the  *)
(* ones scheduled or about to be, and the ones being handled.              *)
(***************************************************************************)
RefCountsOutstanding ==
  \A s \in AllStages : event_ref[s] = Tokens(s) + Cardinality(Holders(s))

(***************************************************************************)
(* Once disconnect() has returned, no thread is inside the stage and the   *)
(* pool holds no reference to it, so clear_config() may delete it.         *)
(***************************************************************************)
DetachedIsQuiescent ==
  \A s \in AllStages : ~attached[s] =>
     Queued(s) = {} /\ Scheduling(s) = {} /\ Removing(s) = {} /\ Holders(s) = {}

(***************************************************************************)
(* schedule() leaves out the wake-up when a thread of the pool finds the   *)
(* queue empty.  Still, queued work is never left to sleepers only: some   *)
(* thread that will come back to the run queue is awake.                   *)
(***************************************************************************)
NoStrandedWork ==
  run_queue # <<>> /\ Idle # {} =>
    \E w \in Workers :
      \/ pc[w] \in {"loop", "woken"}
      \/ pc[w] \in {"remove", "handle", "schedule", "release"}
         /\ run_stage[w] # KillThreads

(***************************************************************************)
(* When ~Threadpool goes on to destroy the mutexes, every thread it        *)
(* created has exited and none is in the middle of an event.               *)
(***************************************************************************)
PoolDestroyedEmpty ==
  pc[Admin] = "done" =>
    /\ \A w \in Workers : pc[w] \in {"unborn", "dead"}
    /\ nthreads = 0 /\ threads_to_kill = 0 /\ run_queue = <<>>

(***************************************************************************)
(* An event on the list of a connected stage is eventually taken off it,   *)
(* as long as the pool has a thread.                                       *)
(***************************************************************************)
EventsAreServed ==
  \A s \in Stages, e \in Events :
    (connected[s] /\ nthreads > 0 /\ Waiting(e, s)) ~> ~Waiting(e, s)

(***************************************************************************)
(* cleanup() terminates: every disconnect() and the kill_threads() of the  *)
(* destructor come back.                                                   *)
(***************************************************************************)
CleanupCompletes ==
  (pc[Admin] = "cleanup" /\ nthreads > 0) ~> pc[Admin] = "done"
=============================================================================

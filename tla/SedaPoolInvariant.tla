------------------------- MODULE SedaPoolInvariant --------------------------
(***************************************************************************)
(* The inductive invariant of SedaPool and the lemmas about what its ledgers*)
(* count.                                                                  *)
(***************************************************************************)
EXTENDS SedaPool, FiniteSetTheorems, TLAPS

-----------------------------------------------------------------------------
(* Counting *)

(***************************************************************************)
(* schedule() pushes one more occurrence of the stage on the run queue and *)
(* leaves those of the other stages alone.                                 *)
(***************************************************************************)
LEMMA AppendOccurrences ==
  ASSUME NEW S, NEW q \in Seq(S), NEW x \in S, NEW s \in S
  PROVE  /\ IsFiniteSet(Occurrences(q, s))
         /\ Cardinality(Occurrences(q, s)) \in Nat
         /\ Cardinality(Occurrences(Append(q, x), s)) =
              Cardinality(Occurrences(q, s)) + (IF x = s THEN 1 ELSE 0)
<1> DEFINE n == Len(q)
<1>1. n \in Nat
  OBVIOUS
<1>2. IsFiniteSet(1 .. n)
  BY <1>1, FS_Interval
<1>3. IsFiniteSet(Occurrences(q, s))
  BY <1>2, FS_Subset DEF Occurrences
<1>4. CASE x = s
  <2>1. Occurrences(Append(q, x), s) = Occurrences(q, s) \cup {n + 1}
    BY <1>1, <1>4 DEF Occurrences
  <2>2. n + 1 \notin Occurrences(q, s)
    BY <1>1 DEF Occurrences
  <2> QED
    BY <1>3, <1>4, <2>1, <2>2, FS_AddElement, FS_CardinalityType
<1>5. CASE x # s
  <2>1. Occurrences(Append(q, x), s) = Occurrences(q, s)
    BY <1>1, <1>5 DEF Occurrences
  <2> QED
    BY <1>3, <1>5, <2>1, FS_CardinalityType
<1> QED
  BY <1>4, <1>5

(***************************************************************************)
(* run_thread() pops one occurrence of the first stage of the run queue    *)
(* and leaves those of the other stages alone.                             *)
(***************************************************************************)
LEMMA TailOccurrences ==
  ASSUME NEW S, NEW q \in Seq(S), q # <<>>, NEW s \in S
  PROVE  /\ Cardinality(Occurrences(Tail(q), s)) \in Nat
         /\ Cardinality(Occurrences(q, s)) =
              Cardinality(Occurrences(Tail(q), s)) + (IF Head(q) = s THEN 1 ELSE 0)
<1> DEFINE n == Len(q)
           T == Occurrences(Tail(q), s)
           U == Occurrences(q, s) \ {1}
           f == [i \in T |-> i + 1]
<1>1. n \in Nat \ {0} /\ Len(Tail(q)) = n - 1
  OBVIOUS
<1>2. IsFiniteSet(1 .. n) /\ IsFiniteSet(1 .. (n - 1))
  BY <1>1, FS_Interval
<1>3. IsFiniteSet(Occurrences(q, s))
  BY <1>2, FS_Subset DEF Occurrences
<1>4. IsFiniteSet(T)
  BY <1>1, <1>2, FS_Subset DEF Occurrences
<1>5. ExistsBijection(T, U)
  <2>1. \A i \in T : i \in Nat /\ i + 1 \in U
    BY <1>1 DEF Occurrences
  <2>2. \A j \in U : j - 1 \in T /\ f[j - 1] = j
    BY <1>1 DEF Occurrences
  <2>3. f \in [T -> U]
    BY <2>1
  <2> HIDE DEF T, U
  <2>4. \A a, b \in T : f[a] = f[b] => a = b
    BY <2>1
  <2>5. \A j \in U : \E i \in T : f[i] = j
    BY ZenonT(30), <2>2
  <2>6. f \in Injection(T, U) /\ f \in Surjection(T, U)
    BY <2>3, <2>4, <2>5 DEF Injection, Surjection, IsInjective
  <2>7. f \in Bijection(T, U)
    BY <2>6 DEF Bijection
  <2> QED
    BY <2>7 DEF ExistsBijection
<1>6. IsFiniteSet(U) /\ Cardinality(U) = Cardinality(T)
  BY <1>4, <1>5, FS_Bijection
<1>7. Head(q) = s <=> 1 \in Occurrences(q, s)
  BY <1>1 DEF Occurrences
<1> QED
  BY <1>3, <1>4, <1>6, <1>7, FS_RemoveElement, FS_CardinalityType

-----------------------------------------------------------------------------
(* The inductive invariant *)

\* Where each kind of thread may be; the pool begins without threads.
PcTyped ==
  /\ pc \in [Threads -> WorkerPc \cup AdminPc \cup {"ready"}]
  /\ \A w \in Workers : pc[w] \in WorkerPc
  /\ \A c \in Clients : pc[c] \in {"ready", "schedule"}
  /\ pc[Admin] \in AdminPc
  /\ pc[Admin] = "boot" => \A w \in Workers : pc[w] = "unborn"

\* The types of the variables.  That the counters never go below zero needs
\* the ledgers below.
Typed ==
  /\ event_list \in [AllStages -> Seq(Events \cup {KillEvent})]
  /\ connected \in [AllStages -> BOOLEAN]
  /\ event_ref \in [AllStages -> Int]
  /\ attached \in [AllStages -> BOOLEAN]
  /\ run_queue \in Seq(AllStages)
  /\ n_idles \in Int /\ nthreads \in Int /\ threads_to_kill \in Int
  /\ PcTyped
  /\ run_stage \in [Workers -> AllStages]
  /\ event \in [Workers -> Events \cup {KillEvent, NoEvent}]
  /\ target \in [Threads -> AllStages]
  /\ left \in Nat
  /\ unused \in SUBSET Events

\* A stage's reference count and its event list against what is under way.
StageLedger ==
  \A s \in AllStages :
    /\ event_ref[s] = Tokens(s) + Cardinality(Holders(s))
    /\ Tokens(s) <= Len(event_list[s])

Disconnecting(s) == pc[Admin] \in {"disc_wait", "disc_woken"} /\ target[Admin] = s

\* kill_threads() is between its connect() and its disconnect().
Killing == /\ target[Admin] = KillThreads
           /\ pc[Admin] \in {"backlog", "kill_gen", "schedule", "kill_wait", "kill_woken"}

\* Nothing of a stage is under way unless it is connected or disconnect() is
\* waiting for it; and where start() and cleanup() have got to.
StagePhases ==
  /\ \A s \in AllStages :
       /\ ~connected[s] /\ ~Disconnecting(s) => event_ref[s] = 0
       /\ ~attached[s] => ~connected[s] /\ event_ref[s] = 0
       /\ Disconnecting(s) => attached[s] /\ ~connected[s]
  /\ pc[Admin] \in {"boot", "start"} => \A s \in Stages : attached[s]
  /\ pc[Admin] = "backlog" /\ target[Admin] \in Stages =>
       \A s \in Stages : attached[s]
  /\ pc[Admin] = "backlog" => connected[target[Admin]]
  /\ pc[Admin] \in {"kill_gen", "schedule", "kill_wait", "kill_woken"} =>
       target[Admin] = KillThreads
  /\ connected[KillThreads] <=> Killing
  /\ Killing \/ Disconnecting(KillThreads) \/ pc[Admin] = "done" =>
       \A s \in Stages : ~connected[s]

Resting == {w \in Workers : pc[w] \in {"idle", "woken"}}
Killed(w) == run_stage[w] = KillThreads /\ pc[w] = "release"
Alive == {w \in Workers : pc[w] \notin {"unborn", "dead"} /\ ~Killed(w)}
BeingKilled == {w \in Workers : pc[w] = "handle" /\ run_stage[w] = KillThreads}
PendingKills == Tokens(KillThreads) + Cardinality(BeingKilled)

\* The pool's counters against its threads, and kill_threads()'s progress.
PoolLedger ==
  /\ n_idles = Cardinality(Resting)
  /\ nthreads = Cardinality(Alive)
  /\ \A w \in Workers : pc[w] = "schedule" => run_stage[w] # KillThreads
  /\ ~Killing /\ ~Disconnecting(KillThreads) /\ pc[Admin] # "done" =>
       event_list[KillThreads] = <<>> /\ threads_to_kill = 0
  /\ Killing /\ pc[Admin] = "backlog" => left = 0 /\ event_ref[KillThreads] = 0
  /\ Killing /\ pc[Admin] \in {"backlog", "kill_gen", "schedule"} => threads_to_kill = 0
  /\ pc[Admin] \in {"kill_gen", "schedule"} => left + PendingKills = nthreads
  /\ pc[Admin] \in {"kill_wait", "kill_woken", "done"} \/ Disconnecting(KillThreads) =>
       threads_to_kill = PendingKills /\ nthreads = PendingKills

IInv == Typed /\ StageLedger /\ StagePhases /\ PoolLedger

-----------------------------------------------------------------------------
(* Preservation *)

\* What the ledgers count are finite sets.
Countable ==
  /\ \A s \in AllStages :
       /\ IsFiniteSet(Queued(s)) /\ Cardinality(Queued(s)) \in Nat
       /\ IsFiniteSet(Scheduling(s)) /\ Cardinality(Scheduling(s)) \in Nat
       /\ IsFiniteSet(Removing(s)) /\ Cardinality(Removing(s)) \in Nat
       /\ IsFiniteSet(Holders(s)) /\ Cardinality(Holders(s)) \in Nat
       /\ Backlog(s) \in Nat
       /\ Tokens(s) \in Nat /\ Len(event_list[s]) \in Nat
  /\ IsFiniteSet(Resting) /\ Cardinality(Resting) \in Nat
  /\ IsFiniteSet(Alive) /\ Cardinality(Alive) \in Nat
  /\ IsFiniteSet(BeingKilled) /\ Cardinality(BeingKilled) \in Nat

\* Every part of a finite set can be counted.
LEMMA SubsetCount ==
  ASSUME NEW S, IsFiniteSet(S), NEW T, T \subseteq S
  PROVE  IsFiniteSet(T) /\ Cardinality(T) \in Nat
BY FS_Subset, FS_CardinalityType

\* The sets of threads and of run queue places the ledgers count are finite.
LEMMA CountsAreNumbers == Typed => Countable
<1> SUFFICES ASSUME Typed PROVE Countable
  OBVIOUS
<1>1. IsFiniteSet(Workers) /\ IsFiniteSet(Threads)
  BY ZenonT(30), ThreadsAssumption, FS_Union, FS_AddElement DEF Threads
<1>2. ASSUME NEW s \in AllStages
      PROVE  /\ Occurrences(run_queue, s) = Queued(s)
             /\ Scheduling(s) \subseteq Threads
             /\ Removing(s) \subseteq Workers
             /\ Holders(s) \subseteq Workers
  BY DEF Queued, Scheduling, Removing, Holders
<1>3. ASSUME NEW s \in AllStages
      PROVE  IsFiniteSet(Queued(s)) /\ Cardinality(Queued(s)) \in Nat
  BY <1>2, AppendOccurrences DEF Typed
<1>4. ASSUME NEW s \in AllStages
      PROVE  Backlog(s) \in Nat
  BY DEF Backlog, Typed
<1>5. Resting \subseteq Workers /\ Alive \subseteq Workers /\ BeingKilled \subseteq Workers
  BY DEF Resting, Alive, BeingKilled
<1>6. ASSUME NEW s \in AllStages
      PROVE  /\ IsFiniteSet(Scheduling(s)) /\ Cardinality(Scheduling(s)) \in Nat
             /\ IsFiniteSet(Removing(s)) /\ Cardinality(Removing(s)) \in Nat
             /\ IsFiniteSet(Holders(s)) /\ Cardinality(Holders(s)) \in Nat
  BY <1>1, <1>2, SubsetCount
<1>7. ASSUME NEW s \in AllStages
      PROVE  Tokens(s) \in Nat /\ Len(event_list[s]) \in Nat
  BY <1>3, <1>4, <1>6 DEF Tokens, Typed
<1> QED
  BY <1>1, <1>3, <1>4, <1>5, <1>6, <1>7, SubsetCount DEF Countable

\* Counting with one more element.
LEMMA CountAdd ==
  ASSUME NEW S, IsFiniteSet(S), NEW x
  PROVE  Cardinality(S \cup {x}) = Cardinality(S) + (IF x \in S THEN 0 ELSE 1)
BY FS_AddElement, FS_CardinalityType

\* Counting with one element taken away.
LEMMA CountRemove ==
  ASSUME NEW S, IsFiniteSet(S), NEW x
  PROVE  Cardinality(S \ {x}) = Cardinality(S) - (IF x \in S THEN 1 ELSE 0)
BY FS_RemoveElement, FS_CardinalityType

\* A set with an element counts at least one.
LEMMA CountMember ==
  ASSUME NEW S, IsFiniteSet(S), NEW x \in S
  PROVE  Cardinality(S) >= 1
BY FS_EmptySet, FS_CardinalityType

\* The kinds of threads, and of stages, are disjoint.
LEMMA Kinds ==
  /\ \A w \in Workers : w \in Threads /\ w # Admin /\ w \notin Clients
  /\ \A c \in Clients : c \in Threads /\ c # Admin /\ c \notin Workers
  /\ Admin \in Threads
  /\ \A s \in Stages : s \in AllStages /\ s # KillThreads
  /\ KillThreads \in AllStages
BY ThreadsAssumption, StagesAssumption DEF Threads, AllStages

\* A thread inside a stage, or on its way to its event list, holds a reference
\* and a stage with references is in use.
LEMMA ReferenceHeld ==
  ASSUME IInv, NEW s \in AllStages,
         Holders(s) # {} \/ Scheduling(s) # {} \/ Removing(s) # {} \/ Queued(s) # {}
  PROVE  /\ event_ref[s] >= 1 /\ attached[s]
         /\ connected[s] \/ Disconnecting(s)
<1>0. Countable
  BY CountsAreNumbers DEF IInv
<1>1. /\ Cardinality(Holders(s)) >= 1 \/ Cardinality(Scheduling(s)) >= 1
         \/ Cardinality(Removing(s)) >= 1 \/ Cardinality(Queued(s)) >= 1
  BY <1>0, CountMember DEF Countable
<1>a. /\ Cardinality(Queued(s)) \in Nat /\ Cardinality(Scheduling(s)) \in Nat
      /\ Cardinality(Removing(s)) \in Nat /\ Backlog(s) \in Nat /\ Cardinality(Holders(s)) \in Nat
  BY <1>0 DEF Countable
<1>2. Tokens(s) + Cardinality(Holders(s)) >= 1
  BY <1>1, <1>a DEF Tokens
<1>3. event_ref[s] >= 1
  BY <1>2 DEF IInv, StageLedger
<1> QED
  BY <1>3 DEF IInv, StagePhases
=============================================================================

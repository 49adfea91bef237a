------------------------ MODULE MemoryPipeline_proofs ------------------------
(***************************************************************************)
(* Proofs about AsyncMemoryProcessor and about MemoryPipeline, which       *)
(* composes it with the LTM and the hot tier, for every set of tasks,      *)
(* controllers and memories and every size, with Redis or without.         *)
(*                                                                         *)
(* No task is lost and every event is told once even when calls of start() *)
(* and stop() overlap (Conservation, EventsOnceHolds).  What a returning   *)
(* stop() promises, and the queue of MemoryTaskQueue, are proved for one   *)
(* coroutine that starts and stops the processor (OneController).  What    *)
(* the workers do to the stores is proved for every number of workers and  *)
(* controllers.                                                            *)
(***************************************************************************)
EXTENDS MemoryPipeline, SequenceFilters_proofs, FunctionTheorems, TLAPS

USE TasksAssumption, TypeAssumption, SizesAssumption, OptionsAssumption

\* A worker holds a task exactly while it processes one, and the workers not yet
\* created hold nothing: what TypeOK needs to be inductive.
WorkersOK ==
    /\ \A w \in WorkerIds : wtask[w] = NoTask <=> wpc[w] \notin ProcessStates
    /\ \A w \in WorkerIds : w > spawned => wpc[w] = "none"

TypeInv == TypeOK /\ WorkersOK

-----------------------------------------------------------------------------
(* Sequences.                                                              *)

\* The elements of a sequence to which one element is appended.
LEMMA RangeOfAppend ==
    ASSUME NEW S, NEW s \in Seq(S), NEW e \in S
    PROVE  RangeOf(Append(s, e)) = RangeOf(s) \cup {e}
<1>1. Len(Append(s, e)) = Len(s) + 1 /\ Append(s, e)[Len(s) + 1] = e
      /\ \A i \in 1..Len(s) : Append(s, e)[i] = s[i]
  OBVIOUS
<1>2. 1..(Len(s) + 1) = (1..Len(s)) \cup {Len(s) + 1}
  OBVIOUS
<1>. QED  BY <1>1, <1>2 DEF RangeOf

\* The elements of a non-empty sequence are its head and those of its tail.
LEMMA RangeOfTail ==
    ASSUME NEW S, NEW s \in Seq(S), s # <<>>
    PROVE  RangeOf(s) = {Head(s)} \cup RangeOf(Tail(s))
<1>1. Len(s) >= 1 /\ Len(Tail(s)) = Len(s) - 1 /\ Head(s) = s[1]
      /\ \A i \in 1..(Len(s) - 1) : Tail(s)[i] = s[i + 1]
  OBVIOUS
<1>2. \A i \in 2..Len(s) : i - 1 \in 1..(Len(s) - 1) /\ s[i] = Tail(s)[i - 1]
  BY <1>1
<1>3. RangeOf(s) \subseteq {Head(s)} \cup RangeOf(Tail(s))
  <2>. SUFFICES ASSUME NEW i \in 1..Len(s)
                PROVE  s[i] \in {Head(s)} \cup RangeOf(Tail(s))
    BY DEF RangeOf
  <2>1. CASE i = 1
    BY <2>1, <1>1
  <2>2. CASE i # 1
    BY <2>2, <1>1, <1>2 DEF RangeOf
  <2>. QED  BY <2>1, <2>2
<1>4. {Head(s)} \cup RangeOf(Tail(s)) \subseteq RangeOf(s)
  <2>1. Head(s) \in RangeOf(s)
    BY <1>1 DEF RangeOf
  <2>2. \A i \in 1..Len(Tail(s)) : i + 1 \in 1..Len(s) /\ Tail(s)[i] = s[i + 1]
    BY <1>1
  <2>. QED  BY <2>1, <2>2 DEF RangeOf
<1>. QED  BY <1>3, <1>4

\* The sequence of sentinels that stop() puts behind the queue.
LEMMA PutSentinelsQueue ==
    ASSUME NEW S, NEW s \in Seq(S), NEW e \in S, NEW n \in Nat
    PROVE  LET r == s \o [j \in 1..n |-> e] IN
           /\ r \in Seq(S)
           /\ Len(r) = Len(s) + n
           /\ \A i \in 1..Len(s) : r[i] = s[i]
           /\ \A i \in (Len(s) + 1)..(Len(s) + n) : r[i] = e
<1>. DEFINE t == [j \in 1..n |-> e]
<1>1. t \in Seq(S) /\ Len(t) = n
  OBVIOUS
<1>. QED  BY <1>1

-----------------------------------------------------------------------------
(* Type correctness.                                                       *)

\* The sentinels that stop() puts keep the shape of the state.
LEMMA PutSentinelsType ==
    ASSUME TypeInv, NEW c \in Controllers, NEW i \in Nat, NEW n \in 0..Room,
           PutSentinels(c, i, n)
    PROVE  /\ queue' \in Seq(Tasks \cup {Sentinel})
           /\ Len(queue') <= QueueMaxsize
           /\ cpc' \in [Controllers -> ControllerStates]
           /\ cput' \in [Controllers -> Nat]
           /\ cwait' \in [Controllers -> SUBSET WorkerIds]
<1>. USE DEF TypeInv, TypeOK
<1>1. queue' = queue \o [j \in 1..n |-> Sentinel]
  BY DEF PutSentinels
<1>2. n \in Nat /\ Len(queue) + n <= QueueMaxsize
  BY DEF Room
<1>3. queue' \in Seq(Tasks \cup {Sentinel}) /\ Len(queue') = Len(queue) + n
  BY <1>1, <1>2, PutSentinelsQueue
<1>4. RangeOf(workers) \in SUBSET WorkerIds
  BY DEF RangeOf
<1>5. i + n \in Nat
  BY <1>2
<1>6. CASE i + n < Len(workers)
  <2>1. /\ cpc' = [cpc EXCEPT ![c] = "put"]
        /\ cput' = [cput EXCEPT ![c] = i + n]
        /\ cwait' = cwait
    BY <1>6 DEF PutSentinels
  <2>. QED  BY <1>2, <1>3, <1>5, <2>1 DEF ControllerStates
<1>7. CASE ~(i + n < Len(workers))
  <2>. DEFINE next == IF workers = <<>> THEN "idle" ELSE "gather"
  <2>1. /\ cpc' = [cpc EXCEPT ![c] = next]
        /\ cput' = [cput EXCEPT ![c] = 0]
        /\ cwait' = [cwait EXCEPT ![c] = RangeOf(workers)]
    BY <1>7 DEF PutSentinels
  <2>2. next \in ControllerStates
    BY DEF ControllerStates
  <2>. HIDE DEF next
  <2>. QED  BY <1>2, <1>3, <1>4, <2>1, <2>2
<1>. QED  BY <1>6, <1>7

\* The state keeps its shape, and workers hold tasks only while processing.
THEOREM TypeCorrect == Spec => []TypeInv
<1>1. Init => TypeInv
  <2>. SUFFICES ASSUME Init
                PROVE  TypeInv
    OBVIOUS
  <2>1. queue \in Seq(Tasks \cup {Sentinel}) /\ Len(queue) <= QueueMaxsize
    BY DEF Init
  <2>2. workers \in Seq(WorkerIds)
    BY DEF Init
  <2>3. inbox \in [SubscriberIds -> Seq(Tasks \X BOOLEAN)]
    <3>1. <<>> \in Seq(Tasks \X BOOLEAN)
      OBVIOUS
    <3>. QED  BY <3>1 DEF Init
  <2>4. /\ wpc \in [WorkerIds -> WorkerStates]
        /\ wtask \in [WorkerIds -> Tasks \cup {NoTask}]
        /\ wok \in [WorkerIds -> BOOLEAN]
        /\ wnext \in [WorkerIds -> 0..MaxSubscribers]
    BY DEF Init, WorkerStates
  <2>5. /\ cpc \in [Controllers -> ControllerStates]
        /\ cput \in [Controllers -> Nat]
        /\ cwait \in [Controllers -> SUBSET WorkerIds]
        /\ before \in [Controllers -> SUBSET Tasks]
        /\ joined \in [SubscriberIds -> SUBSET Tasks]
    <3>1. 0 \in Nat /\ {} \in SUBSET WorkerIds /\ {} \in SUBSET Tasks
          /\ "idle" \in ControllerStates
      BY DEF ControllerStates
    <3>. QED  BY <3>1 DEF Init
  <2>6. WorkersOK
    BY DEF Init, WorkersOK, ProcessStates
  <2>7. spawned \in 0..MaxWorkers /\ subscribers \in 0..MaxSubscribers
    BY DEF Init
  <2>8. accepted \subseteq Tasks /\ rejected \subseteq Tasks
        /\ applied \subseteq Tasks /\ done \subseteq Tasks
    BY Zenon DEF Init
  <2>9. running \in BOOLEAN
    BY Zenon DEF Init
  <2>. QED  BY <2>1, <2>2, <2>3, <2>4, <2>5, <2>6, <2>7, <2>8, <2>9 DEF TypeInv, TypeOK
<1>2. TypeInv /\ [Next]_vars => TypeInv'
  <2>. SUFFICES ASSUME TypeInv, [Next]_vars
                PROVE  TypeInv'
    OBVIOUS
  <2>. USE DEF TypeInv, TypeOK, WorkersOK, workerVars, controlVars,
               subscriberVars, historyVars, WorkerStates, ProcessStates
  <2>1. ASSUME NEW t \in Tasks, Enqueue(t)
        PROVE  TypeInv'
    BY <2>1 DEF Enqueue, IsFull
  <2>2. ASSUME NEW t \in Tasks, EnqueueFull(t)
        PROVE  TypeInv'
    BY <2>2 DEF EnqueueFull
  <2>3. ASSUME Subscribe
        PROVE  TypeInv'
    <3>1. Held \cup done \in SUBSET Tasks
      BY DEF Held
    <3>2. joined' \in [SubscriberIds -> SUBSET Tasks]
      BY <2>3, <3>1 DEF Subscribe
    <3>. QED  BY <2>3, <3>2 DEF Subscribe
  <2>4. ASSUME NEW c \in Controllers, Start(c)
        PROVE  TypeInv'
    <3>1. spawned' \in 0..MaxWorkers /\ spawned < spawned'
      BY <2>4 DEF Start
    <3>2. workers' \in Seq(WorkerIds)
      <4>1. [i \in 1..WorkerCount |-> spawned + i] \in Seq(WorkerIds)
        BY <2>4 DEF Start, WorkerIds
      <4>. QED  BY <2>4, <4>1 DEF Start
    <3>3. wpc' \in [WorkerIds -> WorkerStates]
      BY <2>4 DEF Start
    <3>4. WorkersOK'
      <4>1. ASSUME NEW w \in WorkerIds
            PROVE  wtask'[w] = NoTask <=> wpc'[w] \notin ProcessStates
        BY <2>4, <4>1 DEF Start, WorkerIds
      <4>2. ASSUME NEW w \in WorkerIds, w > spawned'
            PROVE  wpc'[w] = "none"
        BY <2>4, <4>2 DEF Start, WorkerIds
      <4>. QED  BY <4>1, <4>2
    <3>. QED  BY <2>4, <3>1, <3>2, <3>3, <3>4 DEF Start
  <2>5. ASSUME NEW c \in Controllers, BeginStop(c)
        PROVE  TypeInv'
    <3>1. Least(Len(workers), Room) \in 0..Room
      BY DEF Least, Room
    <3>2. PutSentinels(c, 0, Least(Len(workers), Room))
      BY <2>5 DEF BeginStop
    <3>. QED  BY <2>5, <3>1, <3>2, PutSentinelsType DEF BeginStop
  <2>6. ASSUME NEW c \in Controllers, ResumeStop(c)
        PROVE  TypeInv'
    <3>1. Most(1, Least(Len(workers) - cput[c], Room)) \in 0..Room
      BY <2>6 DEF ResumeStop, Most, Least, Room, IsFull
    <3>2. PutSentinels(c, cput[c], Most(1, Least(Len(workers) - cput[c], Room)))
      BY <2>6 DEF ResumeStop
    <3>3. cput[c] \in Nat
      OBVIOUS
    <3>. QED  BY <2>6, <3>1, <3>2, <3>3, PutSentinelsType DEF ResumeStop
  <2>7. ASSUME NEW c \in Controllers, FinishStop(c)
        PROVE  TypeInv'
    BY <2>7 DEF FinishStop, ControllerStates
  <2>8. ASSUME NEW w \in WorkerIds, WorkerStep(w)
        PROVE  TypeInv'
    <3>. USE DEF FirstState
    <3>1. CASE TakeTask(w)
      <4>1. Head(queue) \in Tasks /\ Head(queue) # NoTask
        BY <3>1 DEF TakeTask
      <4>. QED  BY <3>1, <4>1 DEF TakeTask
    <3>2. CASE TakeSentinel(w)
      BY <3>2 DEF TakeSentinel
    <3>3. CASE CheckEnds(w)
      BY <3>3 DEF CheckEnds
    <3>4. CASE WriteSucceeds(w)
      BY <3>4 DEF WriteSucceeds
    <3>5. CASE WriteFails(w)
      BY <3>5 DEF WriteFails
    <3>6. CASE SearchEnds(w)
      BY <3>6 DEF SearchEnds, SearchEndsIn, AfterSearch
    <3>7. CASE WarmEnds(w)
      BY <3>7 DEF WarmEnds
    <3>8. CASE Notify(w)
      <4>1. wtask[w] \in Tasks /\ wok[w] \in BOOLEAN
        BY <3>8 DEF Notify
      <4>2. wnext[w] + 1 \in SubscriberIds /\ wnext[w] + 1 \in 0..MaxSubscribers
        BY <3>8 DEF Notify, SubscriberIds
      <4>3. inbox' \in [SubscriberIds -> Seq(Tasks \X BOOLEAN)]
        BY <3>8, <4>1, <4>2 DEF Notify
      <4>. QED  BY <3>8, <4>2, <4>3 DEF Notify
    <3>9. CASE EndTask(w)
      BY <3>9 DEF EndTask
    <3>. QED  BY <2>8, <3>1, <3>2, <3>3, <3>4, <3>5, <3>6, <3>7, <3>8, <3>9
              DEF WorkerStep
  <2>9. CASE UNCHANGED vars
    BY <2>9 DEF vars
  <2>. QED  BY <2>1, <2>2, <2>3, <2>4, <2>5, <2>6, <2>7, <2>8, <2>9 DEF Next, StopStep
<1>. QED  BY <1>1, <1>2, PTL DEF Spec

-----------------------------------------------------------------------------
(* No task is lost, taken twice or invented.                               *)

\* Sentinels behind the queue change neither its tasks nor their places.
LEMMA PutSentinelsTasks ==
    ASSUME TypeInv, TaskConservation,
           NEW c \in Controllers, NEW i \in Nat, NEW n \in Nat, PutSentinels(c, i, n)
    PROVE  /\ Queued' = Queued
           /\ \A k, l \in 1..Len(queue') :
                 queue'[k] = queue'[l] /\ k # l => queue'[k] = Sentinel
<1>1. queue' = queue \o [j \in 1..n |-> Sentinel]
  BY DEF PutSentinels
<1>2. queue \in Seq(Tasks \cup {Sentinel}) /\ Len(queue) \in Nat
  BY DEF TypeInv, TypeOK
<1>3. /\ Len(queue') = Len(queue) + n
      /\ \A k \in 1..Len(queue) : queue'[k] = queue[k]
      /\ \A k \in (Len(queue) + 1)..(Len(queue) + n) : queue'[k] = Sentinel
  BY <1>1, <1>2, PutSentinelsQueue
<1>4. \A k \in 1..Len(queue') :
         k \in 1..Len(queue) \/ k \in (Len(queue) + 1)..(Len(queue) + n)
  BY <1>2, <1>3
<1>5. \A k \in 1..Len(queue) : k \in 1..Len(queue')
  BY <1>2, <1>3
<1>6. Queued' = Queued
  BY <1>3, <1>4, <1>5 DEF Queued, RangeOf
<1>7. ASSUME NEW k \in 1..Len(queue'), NEW l \in 1..Len(queue'),
             queue'[k] = queue'[l], k # l
      PROVE  queue'[k] = Sentinel
  BY <1>3, <1>4, <1>7 DEF TaskConservation
<1>. QED  BY <1>6, <1>7

\* A step that changes neither the queue nor what is held, accepted or done.
LEMMA SameTasks ==
    ASSUME TaskConservation, UNCHANGED <<queue, wtask, accepted, done>>
    PROVE  TaskConservation'
BY DEF TaskConservation, Queued, RangeOf, Held

\* A step of the worker w that keeps its task in hand.
LEMMA WorkerKeepsTask ==
    ASSUME NEW w \in WorkerIds,
           \/ CheckEnds(w) \/ WriteSucceeds(w) \/ WriteFails(w)
           \/ SearchEnds(w) \/ WarmEnds(w) \/ Notify(w)
    PROVE  UNCHANGED <<queue, wtask, accepted, done>>
BY DEF CheckEnds, WriteSucceeds, WriteFails, SearchEnds, SearchEndsIn, AfterSearch, WarmEnds,
       Notify, controlVars, subscriberVars, historyVars

\* enqueue() adds a task that was nowhere to the end of the queue.
LEMMA EnqueueConserves ==
    ASSUME TypeInv, TaskConservation, NEW t \in Tasks, Enqueue(t)
    PROVE  TaskConservation'
<1>1. queue \in Seq(Tasks \cup {Sentinel}) /\ t \in Tasks \cup {Sentinel} /\ t # Sentinel
  BY DEF TypeInv, TypeOK
<1>2. queue' = Append(queue, t) /\ accepted' = accepted \cup {t} /\ t \notin accepted
      /\ wtask' = wtask /\ done' = done
  BY DEF Enqueue, workerVars
<1>3. Queued' = Queued \cup {t}
  BY <1>1, <1>2, RangeOfAppend DEF Queued
<1>4. Held' = Held
  BY <1>2 DEF Held
<1>5. /\ Len(queue') = Len(queue) + 1 /\ queue'[Len(queue) + 1] = t
      /\ \A i \in 1..Len(queue) : queue'[i] = queue[i]
  BY <1>1, <1>2
<1>6. \A i \in 1..Len(queue) : queue[i] # t
  BY <1>1, <1>2 DEF TaskConservation, Queued, RangeOf
<1>7. \A i \in 1..Len(queue') : i \in 1..Len(queue) \/ i = Len(queue) + 1
  BY <1>1, <1>5
<1>8. ASSUME NEW i \in 1..Len(queue'), NEW j \in 1..Len(queue'),
             queue'[i] = queue'[j], i # j
      PROVE  queue'[i] = Sentinel
  BY <1>5, <1>6, <1>7, <1>8 DEF TaskConservation
<1>9. t \notin Held /\ t \notin done
  BY <1>2 DEF TaskConservation
<1>. QED  BY <1>2, <1>3, <1>4, <1>8, <1>9 DEF TaskConservation

\* A worker takes the head of the queue in hand.
LEMMA TakeTaskConserves ==
    ASSUME TypeInv, TaskConservation, NEW w \in WorkerIds, TakeTask(w)
    PROVE  TaskConservation'
<1>. DEFINE t == Head(queue)
<1>1. queue \in Seq(Tasks \cup {Sentinel}) /\ queue # <<>> /\ t \in Tasks
      /\ queue' = Tail(queue) /\ wtask' = [wtask EXCEPT ![w] = t]
      /\ accepted' = accepted /\ done' = done
  BY DEF TypeInv, TypeOK, TakeTask, historyVars
<1>2. /\ Len(queue) >= 1 /\ Len(queue') = Len(queue) - 1 /\ t = queue[1]
      /\ \A i \in 1..Len(queue') : i + 1 \in 1..Len(queue) /\ queue'[i] = queue[i + 1]
  BY <1>1
<1>3. t # Sentinel /\ t # NoTask
  BY <1>1
<1>4. Queued = {t} \cup Queued'
  BY <1>1, <1>3, RangeOfTail DEF Queued
<1>5. t \notin Queued'
  <2>1. ASSUME NEW i \in 1..Len(queue')
        PROVE  queue'[i] # t
    <3>1. i + 1 \in 1..Len(queue) /\ 1 \in 1..Len(queue) /\ i + 1 # 1
      BY <1>1, <1>2
    <3>. QED  BY <1>2, <1>3, <3>1 DEF TaskConservation
  <2>. QED  BY <2>1 DEF Queued, RangeOf
<1>6. wtask[w] = NoTask /\ wtask \in [WorkerIds -> Tasks \cup {NoTask}]
  BY DEF TypeInv, TypeOK, WorkersOK, TakeTask, ProcessStates
<1>7. Held' = Held \cup {t}
  BY <1>1, <1>3, <1>6 DEF Held
<1>8. t \notin Held /\ t \notin done
  BY <1>4 DEF TaskConservation
<1>9. ASSUME NEW i \in 1..Len(queue'), NEW j \in 1..Len(queue'),
             queue'[i] = queue'[j], i # j
      PROVE  queue'[i] = Sentinel
  <2>1. i + 1 \in 1..Len(queue) /\ j + 1 \in 1..Len(queue) /\ i + 1 # j + 1
        /\ queue'[i] = queue[i + 1] /\ queue'[j] = queue[j + 1]
    BY <1>1, <1>2, <1>9
  <2>. QED  BY <1>9, <2>1 DEF TaskConservation
<1>10. ASSUME NEW v \in WorkerIds, NEW u \in WorkerIds, wtask'[v] = wtask'[u], v # u
       PROVE  wtask'[v] = NoTask
  <2>1. \A x \in WorkerIds : wtask[x] # t
    BY <1>3, <1>8 DEF Held
  <2>. QED  BY <1>1, <1>6, <1>10, <2>1 DEF TaskConservation
<1>. HIDE DEF t
<1>. QED  BY <1>1, <1>4, <1>5, <1>7, <1>8, <1>9, <1>10 DEF TaskConservation

\* A worker that takes a sentinel takes no task.
LEMMA TakeSentinelConserves ==
    ASSUME TypeInv, TaskConservation, NEW w \in WorkerIds, TakeSentinel(w)
    PROVE  TaskConservation'
<1>1. queue \in Seq(Tasks \cup {Sentinel}) /\ queue # <<>> /\ Head(queue) = Sentinel
      /\ queue' = Tail(queue) /\ UNCHANGED <<wtask, accepted, done>>
  BY DEF TypeInv, TypeOK, TakeSentinel, historyVars
<1>2. \A i \in 1..Len(queue') : i + 1 \in 1..Len(queue) /\ queue'[i] = queue[i + 1]
  BY <1>1
<1>3. Queued' = Queued
  BY <1>1, RangeOfTail DEF Queued
<1>4. ASSUME NEW i \in 1..Len(queue'), NEW j \in 1..Len(queue'),
             queue'[i] = queue'[j], i # j
      PROVE  queue'[i] = Sentinel
  <2>1. i + 1 \in 1..Len(queue) /\ j + 1 \in 1..Len(queue) /\ i + 1 # j + 1
        /\ queue'[i] = queue[i + 1] /\ queue'[j] = queue[j + 1]
    BY <1>1, <1>2, <1>4
  <2>. QED  BY <1>4, <2>1 DEF TaskConservation
<1>5. Held' = Held
  BY <1>1 DEF Held
<1>. QED  BY <1>1, <1>3, <1>4, <1>5 DEF TaskConservation

\* A worker puts the task in its hands among those done.
LEMMA EndTaskConserves ==
    ASSUME TypeInv, TaskConservation, NEW w \in WorkerIds, EndTask(w)
    PROVE  TaskConservation'
<1>1. wtask' = [wtask EXCEPT ![w] = NoTask] /\ done' = done \cup {wtask[w]}
      /\ UNCHANGED <<queue, accepted>> /\ wtask[w] # NoTask
      /\ wtask \in [WorkerIds -> Tasks \cup {NoTask}]
  BY DEF TypeInv, TypeOK, WorkersOK, EndTask, ProcessStates
<1>2. wtask[w] \in Held /\ \A v \in WorkerIds : wtask[v] = wtask[w] => v = w
  BY <1>1 DEF TaskConservation, Held
<1>3. Held' = Held \ {wtask[w]}
  BY <1>1, <1>2 DEF Held
<1>4. Queued' = Queued
  BY <1>1 DEF Queued, RangeOf
<1>5. \A v, u \in WorkerIds : wtask'[v] = wtask'[u] /\ v # u => wtask'[v] = NoTask
  BY <1>1 DEF TaskConservation
<1>. QED  BY <1>1, <1>2, <1>3, <1>4, <1>5 DEF TaskConservation

\* In every reachable state an accepted task is in exactly one place: see
\* TaskConservation.
THEOREM Conservation == Spec => []TaskConservation
<1>1. Init => TaskConservation
  <2>. SUFFICES ASSUME Init
                PROVE  TaskConservation
    OBVIOUS
  <2>1. queue = <<>> /\ accepted = {} /\ done = {}
        /\ wtask = [w \in WorkerIds |-> NoTask]
    BY Zenon DEF Init
  <2>2. Len(queue) = 0 /\ Queued = {}
    BY <2>1 DEF Queued, RangeOf
  <2>3. Held = {}
    BY <2>1 DEF Held
  <2>. QED  BY <2>1, <2>2, <2>3 DEF TaskConservation
<1>2. TypeInv /\ TaskConservation /\ [Next]_vars => TaskConservation'
  <2>. SUFFICES ASSUME TypeInv, TaskConservation, [Next]_vars
                PROVE  TaskConservation'
    OBVIOUS
  <2>1. ASSUME NEW t \in Tasks, Enqueue(t)
        PROVE  TaskConservation'
    BY <2>1, EnqueueConserves
  <2>2. ASSUME NEW t \in Tasks, EnqueueFull(t)
        PROVE  TaskConservation'
    BY <2>2, SameTasks DEF EnqueueFull, workerVars
  <2>3. CASE Subscribe
    BY <2>3, SameTasks DEF Subscribe, workerVars, historyVars
  <2>4. ASSUME NEW c \in Controllers, Start(c)
        PROVE  TaskConservation'
    BY <2>4, SameTasks DEF Start, historyVars
  <2>5. ASSUME NEW c \in Controllers, NEW i \in Nat, NEW n \in Nat,
               PutSentinels(c, i, n), UNCHANGED <<workerVars, historyVars>>
        PROVE  TaskConservation'
    <3>1. /\ Queued' = Queued
          /\ \A k, l \in 1..Len(queue') :
                queue'[k] = queue'[l] /\ k # l => queue'[k] = Sentinel
      BY <2>5, PutSentinelsTasks
    <3>2. Held' = Held /\ UNCHANGED <<wtask, accepted, done>>
      BY <2>5 DEF workerVars, historyVars, Held
    <3>. QED  BY <3>1, <3>2 DEF TaskConservation
  <2>6. ASSUME NEW c \in Controllers, BeginStop(c)
        PROVE  TaskConservation'
    <3>1. Least(Len(workers), Room) \in Nat
      BY DEF TypeInv, TypeOK, Least, Room
    <3>. QED  BY <2>5, <2>6, <3>1 DEF BeginStop
  <2>7. ASSUME NEW c \in Controllers, ResumeStop(c)
        PROVE  TaskConservation'
    <3>1. cput[c] \in Nat /\ Most(1, Least(Len(workers) - cput[c], Room)) \in Nat
      BY DEF TypeInv, TypeOK, Most, Least, Room
    <3>. QED  BY <2>5, <2>7, <3>1 DEF ResumeStop
  <2>8. ASSUME NEW c \in Controllers, FinishStop(c)
        PROVE  TaskConservation'
    BY <2>8, SameTasks DEF FinishStop, workerVars, historyVars
  <2>9. ASSUME NEW w \in WorkerIds, WorkerStep(w)
        PROVE  TaskConservation'
    <3>1. CASE TakeTask(w)
      BY <3>1, TakeTaskConserves
    <3>2. CASE TakeSentinel(w)
      BY <3>2, TakeSentinelConserves
    <3>3. CASE EndTask(w)
      BY <3>3, EndTaskConserves
    <3>4. CASE \/ CheckEnds(w) \/ WriteSucceeds(w) \/ WriteFails(w)
               \/ SearchEnds(w) \/ WarmEnds(w) \/ Notify(w)
      BY <3>4, WorkerKeepsTask, SameTasks
    <3>. QED  BY <2>9, <3>1, <3>2, <3>3, <3>4 DEF WorkerStep
  <2>10. CASE UNCHANGED vars
    BY <2>10, SameTasks DEF vars, workerVars, historyVars
  <2>. QED  BY <2>1, <2>2, <2>3, <2>4, <2>6, <2>7, <2>8, <2>9, <2>10 DEF Next, StopStep
<1>. QED  BY <1>1, <1>2, TypeCorrect, PTL DEF Spec

\* The shape of the state that the runs check.
THEOREM TypeOKHolds == Spec => []TypeOK
<1>1. TypeInv => TypeOK
  BY DEF TypeInv
<1>. QED  BY <1>1, TypeCorrect, PTL

-----------------------------------------------------------------------------
(* The events of the subscribers.                                          *)

\* How far the worker w has come with its task, and what it has told of it.
WorkerTold(w) ==
    /\ wpc[w] \in {"check", "write"} =>
          ~wok[w] /\ wtask[w] \notin applied /\ Type[wtask[w]] # "check_conflicts"
    /\ wpc[w] \in {"search", "warm"} => wok[w] /\ wtask[w] \in applied
    /\ wpc[w] = "notify" =>
          (wok[w] <=> (wtask[w] \in applied \/ Type[wtask[w]] = "check_conflicts"))
    /\ wpc[w] # "notify" => wnext[w] = 0
    /\ wnext[w] <= subscribers
    /\ wpc[w] \in ProcessStates =>
          \A s \in SubscriberIds : wtask[w] \in Received(s) <=> s <= wnext[w]

\* Nothing is told or applied of a task that no worker has taken.
TakenOnly ==
    /\ applied \subseteq Held \cup done
    /\ \A s \in SubscriberIds : Received(s) \subseteq Held \cup done

EventInv == (\A w \in WorkerIds : WorkerTold(w)) /\ TakenOnly /\ EventsOnce

\* A step that neither starts, applies, tells nor ends a task.
LEMMA NothingTold ==
    ASSUME TypeInv, EventInv,
           UNCHANGED <<wpc, wtask, wok, wnext, subscribers, joined, inbox, applied, done>>
    PROVE  EventInv'
<1>1. Held' = Held /\ \A s \in SubscriberIds : Received(s)' = Received(s)
  BY DEF Held, Received
<1>2. ASSUME NEW w \in WorkerIds PROVE WorkerTold(w)'
  BY <1>1 DEF EventInv, WorkerTold
<1>3. TakenOnly'
  BY <1>1 DEF EventInv, TakenOnly
<1>4. EventsOnce'
  BY <1>1 DEF EventInv, EventsOnce
<1>. QED  BY <1>2, <1>3, <1>4 DEF EventInv

\* start() creates workers that have nothing to tell.
LEMMA StartTells ==
    ASSUME TypeInv, EventInv, NEW c \in Controllers, Start(c)
    PROVE  EventInv'
<1>1. UNCHANGED <<wtask, wok, wnext, subscribers, joined, inbox, applied, done>>
  BY DEF Start, subscriberVars, historyVars
<1>2. Held' = Held /\ \A s \in SubscriberIds : Received(s)' = Received(s)
  BY <1>1 DEF Held, Received
<1>3. ASSUME NEW w \in WorkerIds PROVE WorkerTold(w)'
  <2>1. CASE w > spawned /\ w <= spawned + WorkerCount
    <3>1. wpc'[w] = "get" /\ wpc[w] = "none" /\ wnext[w] = 0 /\ subscribers \in Nat
      BY <2>1 DEF Start, TypeInv, TypeOK, WorkersOK, WorkerIds, EventInv, WorkerTold
    <3>. QED  BY <1>1, <3>1 DEF WorkerTold, ProcessStates
  <2>2. CASE ~(w > spawned /\ w <= spawned + WorkerCount)
    <3>1. wpc'[w] = wpc[w]
      BY <2>2 DEF Start, TypeInv, TypeOK, WorkerIds
    <3>. QED  BY <1>1, <1>2, <3>1 DEF EventInv, WorkerTold
  <2>. QED  BY <2>1, <2>2
<1>4. TakenOnly' /\ EventsOnce'
  BY <1>1, <1>2 DEF EventInv, TakenOnly, EventsOnce
<1>. QED  BY <1>3, <1>4 DEF EventInv

\* Whoever subscribes is owed no event of the tasks already taken.
LEMMA SubscribeTells ==
    ASSUME TypeInv, EventInv, Subscribe
    PROVE  EventInv'
<1>1. /\ UNCHANGED <<wpc, wtask, wok, wnext, inbox, applied, done>>
      /\ subscribers' = subscribers + 1 /\ subscribers \in Nat
      /\ joined' = [joined EXCEPT ![subscribers + 1] = Held \cup done]
  BY DEF Subscribe, workerVars, historyVars, TypeInv, TypeOK
<1>2. Held' = Held /\ \A s \in SubscriberIds : Received(s)' = Received(s)
  BY <1>1 DEF Held, Received
<1>3. ASSUME NEW w \in WorkerIds PROVE WorkerTold(w)'
  <2>1. wnext[w] <= subscribers'
    BY <1>1 DEF EventInv, WorkerTold, TypeInv, TypeOK
  <2>. QED  BY <1>1, <1>2, <2>1 DEF EventInv, WorkerTold
<1>4. TakenOnly'
  BY <1>1, <1>2 DEF EventInv, TakenOnly
<1>5. EventsOnce'
  <2>1. ASSUME NEW s \in SubscriberIds, s <= subscribers'
        PROVE  done \ joined'[s] \subseteq Received(s)
    <3>1. CASE s = subscribers + 1
      BY <1>1, <3>1 DEF TypeInv, TypeOK
    <3>2. CASE s # subscribers + 1
      <4>1. s <= subscribers /\ joined'[s] = joined[s]
        BY <1>1, <2>1, <3>2 DEF TypeInv, TypeOK, SubscriberIds
      <4>2. s <= subscribers => done \ joined[s] \subseteq Received(s)
        BY Zenon DEF EventInv, EventsOnce
      <4>. QED  BY <4>1, <4>2
    <3>. QED  BY <3>1, <3>2
  <2>. QED  BY <1>1, <1>2, <2>1 DEF EventInv, EventsOnce
<1>. QED  BY <1>3, <1>4, <1>5 DEF EventInv

\* What the worker w does with its task is no matter of the others.
LEMMA OthersTold ==
    ASSUME TypeInv, TaskConservation, NEW w \in WorkerIds, NEW v \in WorkerIds, v # w,
           WorkerTold(v),
           wpc'[v] = wpc[v], wtask'[v] = wtask[v], wok'[v] = wok[v], wnext'[v] = wnext[v],
           subscribers' = subscribers,
           applied \subseteq applied', applied' \subseteq applied \cup {wtask[w]},
           \A s \in SubscriberIds : /\ Received(s) \subseteq Received(s)'
                                   /\ Received(s)' \subseteq Received(s) \cup {wtask[w]}
    PROVE  WorkerTold(v)'
<1>1. CASE wpc[v] \in ProcessStates
  <2>1. wtask[v] # wtask[w]
    BY <1>1 DEF TypeInv, WorkersOK, TaskConservation
  <2>2. wtask[v] \in applied' <=> wtask[v] \in applied
    BY <2>1
  <2>3. \A s \in SubscriberIds : wtask[v] \in Received(s)' <=> wtask[v] \in Received(s)
    BY <2>1
  <2>. QED  BY <2>2, <2>3 DEF WorkerTold
<1>2. CASE wpc[v] \notin ProcessStates
  BY <1>2 DEF WorkerTold, ProcessStates
<1>. QED  BY <1>1, <1>2

\* The task a worker takes has not been told or applied before.
LEMMA TakeTaskTells ==
    ASSUME TypeInv, TaskConservation, EventInv, NEW w \in WorkerIds, TakeTask(w)
    PROVE  EventInv'
<1>. DEFINE t == Head(queue)
<1>1. queue \in Seq(Tasks \cup {Sentinel}) /\ queue # <<>> /\ t \in Tasks /\ t \in Queued
  <2>1. queue \in Seq(Tasks \cup {Sentinel}) /\ queue # <<>> /\ t # Sentinel
    BY DEF TypeInv, TypeOK, TakeTask
  <2>2. t \in RangeOf(queue)
    BY <2>1, RangeOfTail
  <2>. QED  BY <2>1, <2>2 DEF Queued
<1>2. t \notin Held /\ t \notin done
  BY <1>1 DEF TaskConservation
<1>3. t \notin applied /\ \A s \in SubscriberIds : t \notin Received(s)
  BY <1>2 DEF EventInv, TakenOnly
<1>4. /\ wpc' = [wpc EXCEPT ![w] = FirstState(t)]
      /\ wtask' = [wtask EXCEPT ![w] = t]
      /\ wok' = [wok EXCEPT ![w] = (Type[t] = "check_conflicts")]
      /\ wnext' = [wnext EXCEPT ![w] = 0]
      /\ UNCHANGED <<subscribers, joined, inbox, applied, done>>
      /\ wtask[w] = NoTask
  BY DEF TakeTask, subscriberVars, historyVars, TypeInv, WorkersOK, ProcessStates
<1>. HIDE DEF t
<1>5. Held \subseteq Held' /\ \A s \in SubscriberIds : Received(s)' = Received(s)
  BY <1>4 DEF Held, Received, TypeInv, TypeOK
<1>6. TakenOnly' /\ EventsOnce'
  BY <1>4, <1>5 DEF EventInv, TakenOnly, EventsOnce
<1>7. WorkerTold(w)'
  <2>1. /\ wpc'[w] = FirstState(t) /\ wtask'[w] = t /\ wnext'[w] = 0
        /\ wok'[w] = (Type[t] = "check_conflicts")
    BY <1>4 DEF TypeInv, TypeOK
  <2>2. \A s \in SubscriberIds : ~(s <= 0)
    BY DEF SubscriberIds
  <2>3. subscribers \in Nat
    BY DEF TypeInv, TypeOK
  <2>4. /\ wtask'[w] \notin applied' /\ wnext'[w] <= subscribers'
        /\ \A s \in SubscriberIds : wtask'[w] \in Received(s)' <=> s <= wnext'[w]
    BY <1>3, <1>4, <1>5, <2>1, <2>2, <2>3
  <2>5. CASE Type[t] = "check_conflicts"
    <3>1. wpc'[w] = "notify" /\ wok'[w]
      BY <2>1, <2>5 DEF FirstState
    <3>. QED  BY <2>1, <2>4, <2>5, <3>1 DEF WorkerTold
  <2>6. CASE Type[t] # "check_conflicts"
    <3>1. wpc'[w] \in {"check", "write"} /\ ~wok'[w]
      BY <2>1, <2>6 DEF FirstState
    <3>. QED  BY <2>1, <2>4, <2>6, <3>1 DEF WorkerTold
  <2>. QED  BY <2>5, <2>6
<1>8. ASSUME NEW v \in WorkerIds, v # w PROVE WorkerTold(v)'
  <2>1. wpc'[v] = wpc[v] /\ wtask'[v] = wtask[v] /\ wok'[v] = wok[v] /\ wnext'[v] = wnext[v]
    BY <1>4, <1>8 DEF TypeInv, TypeOK
  <2>. QED  BY <1>4, <1>5, <1>8, <2>1, OthersTold DEF EventInv
<1>. QED  BY <1>6, <1>7, <1>8 DEF EventInv

\* A worker goes from one call to the next, without applying, telling or ending anything.
LEMMA MovesOn ==
    ASSUME TypeInv, TaskConservation, EventInv, NEW w \in WorkerIds,
           NEW where, wpc' = [wpc EXCEPT ![w] = where],
           UNCHANGED <<wtask, wok, wnext, subscribers, joined, inbox, applied, done>>,
           WorkerTold(w)'
    PROVE  EventInv'
<1>1. Held' = Held /\ \A s \in SubscriberIds : Received(s)' = Received(s)
  BY DEF Held, Received
<1>2. TakenOnly' /\ EventsOnce'
  BY <1>1 DEF EventInv, TakenOnly, EventsOnce
<1>3. ASSUME NEW v \in WorkerIds, v # w PROVE WorkerTold(v)'
  <2>1. wpc'[v] = wpc[v]
    BY <1>3 DEF TypeInv, TypeOK
  <2>. QED  BY <1>1, <1>3, <2>1, OthersTold DEF EventInv
<1>. QED  BY <1>2, <1>3 DEF EventInv

LEMMA MovesOnTells ==
    ASSUME TypeInv, TaskConservation, EventInv, NEW w \in WorkerIds,
           \/ TakeSentinel(w) \/ CheckEnds(w) \/ WriteFails(w)
           \/ SearchEnds(w) \/ WarmEnds(w)
    PROVE  EventInv'
<1>. DEFINE where == wpc'[w]
<1>1. /\ wpc' = [wpc EXCEPT ![w] = where]
      /\ UNCHANGED <<wtask, wok, wnext, subscribers, joined, inbox, applied, done>>
  BY DEF TakeSentinel, CheckEnds, WriteFails, SearchEnds, SearchEndsIn, AfterSearch, WarmEnds,
         subscriberVars, historyVars, TypeInv, TypeOK
<1>2. \A s \in SubscriberIds : Received(s)' = Received(s)
  BY <1>1 DEF Received
<1>3. \/ wpc[w] = "get" /\ wpc'[w] = "exited"
      \/ wpc[w] = "check" /\ wpc'[w] = "write"
      \/ wpc[w] = "write" /\ wpc'[w] = "notify"
      \/ wpc[w] = "search" /\ wpc'[w] \in {"warm", "notify"}
      \/ wpc[w] = "warm" /\ wpc'[w] = "notify"
  BY DEF TakeSentinel, CheckEnds, WriteFails, SearchEnds, SearchEndsIn, AfterSearch, WarmEnds,
         TypeInv, TypeOK
<1>4. WorkerTold(w)
  BY DEF EventInv
<1>5. WorkerTold(w)'
  BY <1>1, <1>2, <1>3, <1>4 DEF WorkerTold, ProcessStates
<1>. HIDE DEF where
<1>. QED  BY <1>1, <1>5, MovesOn

\* The write of a task nobody has been told of yet.
LEMMA WriteSucceedsTells ==
    ASSUME TypeInv, TaskConservation, EventInv, NEW w \in WorkerIds, WriteSucceeds(w)
    PROVE  EventInv'
<1>. DEFINE t == wtask[w]
            where == IF HasRouter /\ Type[wtask[w]] = "add" THEN "search" ELSE "notify"
<1>1. /\ wpc[w] = "write" /\ wpc' = [wpc EXCEPT ![w] = where] /\ wok' = [wok EXCEPT ![w] = TRUE]
      /\ applied' = applied \cup {t}
      /\ UNCHANGED <<wtask, wnext, subscribers, joined, inbox, done>>
  BY DEF WriteSucceeds, subscriberVars
<1>2. Held' = Held /\ \A s \in SubscriberIds : Received(s)' = Received(s)
  BY <1>1 DEF Held, Received
<1>3. /\ t \in Held /\ wnext[w] = 0
      /\ \A s \in SubscriberIds : t \in Received(s) <=> s <= wnext[w]
  BY <1>1 DEF TypeInv, WorkersOK, ProcessStates, Held, EventInv, WorkerTold
<1>4. \A s \in SubscriberIds : t \notin Received(s)
  BY <1>3 DEF SubscriberIds
<1>5. TakenOnly'
  BY <1>1, <1>2, <1>3 DEF EventInv, TakenOnly
<1>6. EventsOnce'
  <2>1. ASSUME NEW s \in SubscriberIds, NEW i \in 1..Len(inbox[s])
        PROVE  inbox[s][i][1] # t
    BY <1>4, <2>1 DEF Received
  <2>2. ASSUME NEW s \in SubscriberIds, NEW i \in 1..Len(inbox[s])
        PROVE  inbox[s][i][2] <=> (inbox[s][i][1] \in applied' \/ Type[inbox[s][i][1]] = "check_conflicts")
    BY <1>1, <2>1 DEF EventInv, EventsOnce
  <2>. QED  BY <1>1, <1>2, <2>2 DEF EventInv, EventsOnce
<1>7. WorkerTold(w)'
  <2>1. wpc'[w] = where /\ wok'[w] /\ where \in {"search", "notify"} /\ wtask'[w] \in applied'
    BY <1>1 DEF TypeInv, TypeOK
  <2>2. wnext'[w] = 0 /\ wnext'[w] <= subscribers'
        /\ \A s \in SubscriberIds : wtask'[w] \in Received(s)' <=> s <= wnext'[w]
    BY <1>1, <1>2, <1>3 DEF EventInv, WorkerTold
  <2>. QED  BY <2>1, <2>2 DEF WorkerTold
<1>8. ASSUME NEW v \in WorkerIds, v # w PROVE WorkerTold(v)'
  <2>1. wpc'[v] = wpc[v] /\ wok'[v] = wok[v]
    BY <1>1, <1>8 DEF TypeInv, TypeOK
  <2>. QED  BY <1>1, <1>2, <1>8, <2>1, OthersTold DEF EventInv
<1>. QED  BY <1>5, <1>6, <1>7, <1>8 DEF EventInv

\* The next subscriber is told once, and told what happened.
LEMMA NotifyTells ==
    ASSUME TypeInv, TaskConservation, EventInv, NEW w \in WorkerIds, Notify(w)
    PROVE  EventInv'
<1>0. PICK n \in SubscriberIds : n = wnext[w] + 1
  BY DEF Notify, TypeInv, TypeOK, SubscriberIds
<1>. DEFINE t == wtask[w]
            event == <<t, wok[w]>>
<1>1. /\ wpc[w] = "notify" /\ wnext[w] < subscribers
      /\ inbox' = [inbox EXCEPT ![n] = Append(@, event)]
      /\ wnext' = [wnext EXCEPT ![w] = n]
      /\ UNCHANGED <<wpc, wtask, wok, subscribers, joined, applied, done>>
  BY <1>0 DEF Notify, subscriberVars, historyVars, TypeInv, TypeOK
<1>2. /\ n \in SubscriberIds /\ wnext[w] \in Nat /\ n <= subscribers
      /\ t \in Tasks /\ event \in Tasks \X BOOLEAN /\ inbox[n] \in Seq(Tasks \X BOOLEAN)
      /\ event[1] = t /\ event[2] = wok[w]
  BY <1>0, <1>1 DEF SubscriberIds, TypeInv, TypeOK, WorkersOK, ProcessStates
<1>3. /\ t \in Held
      /\ \A s \in SubscriberIds : t \in Received(s) <=> s <= wnext[w]
      /\ wok[w] <=> (t \in applied \/ Type[t] = "check_conflicts")
  BY <1>1 DEF TypeInv, WorkersOK, ProcessStates, Held, EventInv, WorkerTold
<1>. HIDE DEF t, event
<1>4. /\ inbox'[n] = Append(inbox[n], event) /\ \A s \in SubscriberIds : s # n => inbox'[s] = inbox[s]
      /\ Len(inbox'[n]) = Len(inbox[n]) + 1 /\ Len(inbox[n]) \in Nat
      /\ inbox'[n][Len(inbox[n]) + 1] = event
      /\ \A i \in 1..Len(inbox[n]) : inbox'[n][i] = inbox[n][i]
      /\ \A i \in 1..(Len(inbox[n]) + 1) : i \in 1..Len(inbox[n]) \/ i = Len(inbox[n]) + 1
      /\ \A i \in 1..Len(inbox[n]) : i \in 1..(Len(inbox[n]) + 1)
  <2>1. inbox'[n] = Append(inbox[n], event) /\ \A s \in SubscriberIds : s # n => inbox'[s] = inbox[s]
    BY <1>1, <1>2 DEF TypeInv, TypeOK
  <2>. QED  BY <1>2, <2>1
<1>5. Held' = Held /\ \A s \in SubscriberIds : s # n => Received(s)' = Received(s)
  BY <1>1, <1>4 DEF Held, Received
<1>6. Received(n)' = Received(n) \cup {t}
  <2>1. Received(n)' = {inbox'[n][i][1] : i \in 1..(Len(inbox[n]) + 1)}
    BY <1>4 DEF Received
  <2>2. Len(inbox[n]) + 1 \in 1..(Len(inbox[n]) + 1)
    BY <1>4
  <2>3. \A i \in 1..Len(inbox[n]) : inbox'[n][i][1] = inbox[n][i][1]
    BY <1>4
  <2>. QED  BY <1>2, <1>4, <2>1, <2>2, <2>3 DEF Received
<1>7. TakenOnly'
  BY <1>1, <1>3, <1>5, <1>6 DEF EventInv, TakenOnly
<1>8. t \notin Received(n)
  BY <1>0, <1>2, <1>3
<1>9. EventsOnce'
  <2>1. ASSUME NEW s \in SubscriberIds, NEW i \in 1..Len(inbox'[s]), NEW j \in 1..Len(inbox'[s]),
               inbox'[s][i][1] = inbox'[s][j][1]
        PROVE  i = j
    <3>1. CASE s # n
      BY <1>4, <2>1, <3>1 DEF EventInv, EventsOnce
    <3>2. CASE s = n
      <4>1. \A k \in 1..Len(inbox[n]) : inbox[n][k][1] # t
        BY <1>8 DEF Received
      <4>2. \A k, l \in 1..Len(inbox[n]) : inbox[n][k][1] = inbox[n][l][1] => k = l
        BY Zenon DEF EventInv, EventsOnce
      <4>3. \A k \in 1..Len(inbox'[n]) :
               \/ k \in 1..Len(inbox[n]) /\ inbox'[n][k][1] = inbox[n][k][1]
               \/ k = Len(inbox[n]) + 1 /\ inbox'[n][k][1] = t
        BY <1>2, <1>4
      <4>. QED  BY <2>1, <3>2, <4>1, <4>2, <4>3
    <3>. QED  BY <3>1, <3>2
  <2>2. ASSUME NEW s \in SubscriberIds, NEW i \in 1..Len(inbox'[s])
        PROVE  inbox'[s][i][2] <=> (inbox'[s][i][1] \in applied' \/ Type[inbox'[s][i][1]] = "check_conflicts")
    <3>1. CASE s # n
      BY <1>1, <1>4, <2>2, <3>1 DEF EventInv, EventsOnce
    <3>2. CASE s = n /\ i \in 1..Len(inbox[n])
      BY <1>1, <1>4, <2>2, <3>2 DEF EventInv, EventsOnce
    <3>3. CASE s = n /\ i = Len(inbox[n]) + 1
      BY <1>1, <1>2, <1>3, <1>4, <3>3
    <3>. QED  BY <1>4, <2>2, <3>1, <3>2, <3>3
  <2>3. ASSUME NEW s \in SubscriberIds, s <= subscribers'
        PROVE  done' \ joined'[s] \subseteq Received(s)'
    <3>1. done \ joined[s] \subseteq Received(s)
      BY <1>1, <2>3 DEF EventInv, EventsOnce
    <3>2. Received(s) \subseteq Received(s)'
      BY <1>5, <1>6
    <3>. QED  BY <1>1, <3>1, <3>2
  <2>. QED  BY <2>1, <2>2, <2>3 DEF EventsOnce
<1>10. WorkerTold(w)'
  <2>1. wnext'[w] = n /\ n <= subscribers' /\ wpc'[w] = "notify"
    BY <1>1, <1>2 DEF TypeInv, TypeOK
  <2>2. wok'[w] <=> (wtask'[w] \in applied' \/ Type[wtask'[w]] = "check_conflicts")
    BY <1>1, <1>3 DEF t
  <2>3. ASSUME NEW s \in SubscriberIds
        PROVE  wtask'[w] \in Received(s)' <=> s <= n
    <3>1. s \in Nat
      BY DEF SubscriberIds
    <3>2. CASE s = n
      BY <1>1, <1>2, <1>6, <3>1, <3>2 DEF t, SubscriberIds
    <3>3. CASE s # n
      BY <1>0, <1>1, <1>2, <1>3, <1>5, <3>1, <3>3 DEF t
    <3>. QED  BY <3>2, <3>3
  <2>. QED  BY <2>1, <2>2, <2>3 DEF WorkerTold
<1>11. ASSUME NEW v \in WorkerIds, v # w PROVE WorkerTold(v)'
  <2>1. wnext'[v] = wnext[v]
    BY <1>1, <1>11 DEF TypeInv, TypeOK
  <2>2. \A s \in SubscriberIds : /\ Received(s) \subseteq Received(s)'
                                /\ Received(s)' \subseteq Received(s) \cup {wtask[w]}
    BY <1>5, <1>6 DEF t
  <2>. QED  BY <1>1, <1>11, <2>1, <2>2, OthersTold DEF EventInv
<1>. QED  BY <1>7, <1>9, <1>10, <1>11 DEF EventInv

\* A task is done when every subscriber has its event.
LEMMA EndTaskTells ==
    ASSUME TypeInv, TaskConservation, EventInv, NEW w \in WorkerIds, EndTask(w)
    PROVE  EventInv'
<1>. DEFINE t == wtask[w]
<1>1. /\ wpc[w] = "notify" /\ wnext[w] = subscribers
      /\ done' = done \cup {t} /\ wpc' = [wpc EXCEPT ![w] = "get"]
      /\ wtask' = [wtask EXCEPT ![w] = NoTask] /\ wok' = [wok EXCEPT ![w] = FALSE]
      /\ wnext' = [wnext EXCEPT ![w] = 0]
      /\ UNCHANGED <<subscribers, joined, inbox, applied>>
  BY DEF EndTask, subscriberVars
<1>2. \A s \in SubscriberIds : Received(s)' = Received(s)
  BY <1>1 DEF Received
<1>3. \A s \in SubscriberIds : t \in Received(s) <=> s <= subscribers
  BY <1>1 DEF EventInv, WorkerTold, ProcessStates
<1>4. Held \cup done \subseteq Held' \cup done'
  BY <1>1 DEF Held, TypeInv, TypeOK
<1>5. TakenOnly'
  BY <1>1, <1>2, <1>4 DEF EventInv, TakenOnly
<1>6. EventsOnce'
  <2>1. ASSUME NEW s \in SubscriberIds, s <= subscribers
        PROVE  done' \ joined[s] \subseteq Received(s)
    BY <1>1, <1>3, <2>1 DEF EventInv, EventsOnce
  <2>. QED  BY <1>1, <1>2, <2>1 DEF EventInv, EventsOnce
<1>7. WorkerTold(w)'
  <2>1. wpc'[w] = "get" /\ wnext'[w] = 0 /\ 0 <= subscribers'
    BY <1>1 DEF TypeInv, TypeOK
  <2>. QED  BY <2>1 DEF WorkerTold, ProcessStates
<1>8. ASSUME NEW v \in WorkerIds, v # w PROVE WorkerTold(v)'
  <2>1. wpc'[v] = wpc[v] /\ wtask'[v] = wtask[v] /\ wok'[v] = wok[v] /\ wnext'[v] = wnext[v]
    BY <1>1, <1>8 DEF TypeInv, TypeOK
  <2>. QED  BY <1>1, <1>2, <1>8, <2>1, OthersTold DEF EventInv
<1>. QED  BY <1>5, <1>6, <1>7, <1>8 DEF EventInv

\* Whatever starts, stops and subscriptions do, each subscriber is told once of each
\* task taken after it joined, before the task is done, and is told truly whether the
\* LTM call returned.
THEOREM EventsOnceHolds == Spec => []EventsOnce
<1>1. Init => EventInv
  <2>. SUFFICES ASSUME Init PROVE EventInv
    OBVIOUS
  <2>1. /\ wpc = [w \in WorkerIds |-> "none"] /\ wnext = [w \in WorkerIds |-> 0] /\ subscribers = 0
        /\ inbox = [s \in SubscriberIds |-> <<>>] /\ applied = {} /\ done = {}
    BY Zenon DEF Init
  <2>2. \A s \in SubscriberIds : Len(inbox[s]) = 0 /\ Received(s) = {} /\ ~(s <= 0)
    BY <2>1 DEF Received, SubscriberIds
  <2>3. \A w \in WorkerIds : WorkerTold(w)
    BY <2>1 DEF WorkerTold, ProcessStates
  <2>4. TakenOnly /\ EventsOnce
    BY <2>1, <2>2 DEF TakenOnly, EventsOnce
  <2>. QED  BY <2>3, <2>4 DEF EventInv
<1>2. TypeInv /\ TaskConservation /\ EventInv /\ [Next]_vars => EventInv'
  <2>. SUFFICES ASSUME TypeInv, TaskConservation, EventInv, [Next]_vars PROVE EventInv'
    OBVIOUS
  <2>. USE DEF workerVars, subscriberVars, historyVars
  <2>1. ASSUME NEW t \in Tasks, Enqueue(t) \/ EnqueueFull(t) PROVE EventInv'
    BY <2>1, NothingTold DEF Enqueue, EnqueueFull
  <2>2. ASSUME NEW c \in Controllers, BeginStop(c) \/ StopStep(c) PROVE EventInv'
    BY <2>2, NothingTold DEF BeginStop, StopStep, ResumeStop, FinishStop
  <2>3. ASSUME NEW w \in WorkerIds, WorkerStep(w) PROVE EventInv'
    BY <2>3, TakeTaskTells, MovesOnTells, WriteSucceedsTells, NotifyTells, EndTaskTells
       DEF WorkerStep
  <2>4. CASE UNCHANGED vars
    BY <2>4, NothingTold DEF vars
  <2>. QED  BY <2>1, <2>2, <2>3, <2>4, SubscribeTells, StartTells DEF Next
<1>3. EventInv => EventsOnce
  BY DEF EventInv
<1>. QED  BY <1>1, <1>2, <1>3, TypeCorrect, Conservation, PTL DEF Spec

-----------------------------------------------------------------------------
(* One coroutine starts and stops the processor.                           *)

OneController == \A c, d \in Controllers : c = d

Sentinels == {i \in 1..Len(queue) : queue[i] = Sentinel}
Exited == {w \in RangeOf(workers) : wpc[w] = "exited"}

\* The list is empty or holds the last workers created, and nobody else is alive.
Pool ==
    /\ \/ workers = <<>>
       \/ /\ spawned >= WorkerCount
          /\ workers = [i \in 1..WorkerCount |-> (spawned - WorkerCount) + i]
    /\ \A w \in WorkerIds : Alive(w) => w \in RangeOf(workers)

\* The sentinels on the queue and the workers that took one are the sentinels put.
StopProgress(c) ==
    /\ cpc[c] = "idle" =>
          Sentinels = {} /\ Exited = {} /\ (running <=> workers # <<>>)
    /\ cpc[c] = "put" =>
          Cardinality(Sentinels) + Cardinality(Exited) = cput[c] /\ cput[c] < Len(workers)
    /\ cpc[c] = "gather" =>
          Cardinality(Sentinels) + Cardinality(Exited) = Len(workers) /\ cwait[c] = RangeOf(workers)
    /\ cpc[c] # "idle" => ~running /\ workers # <<>>

\* What was accepted before stop() is ahead of every sentinel.
StopOrder(c) ==
    cpc[c] # "idle" =>
        /\ before[c] \subseteq accepted
        /\ \A i \in Sentinels, j \in 1..Len(queue) : queue[j] \in before[c] => j < i
        /\ Exited # {} => Queued \cap before[c] = {}

LifeInv ==
    /\ Pool
    /\ \A c \in Controllers : StopProgress(c) /\ StopOrder(c)

\* The list of workers, and how many they are.
LEMMA PoolSize ==
    ASSUME TypeInv, Pool
    PROVE  /\ workers = <<>> => Len(workers) = 0 /\ RangeOf(workers) = {}
           /\ workers # <<>> => Len(workers) = WorkerCount /\ RangeOf(workers) # {}
           /\ IsFiniteSet(RangeOf(workers)) /\ Cardinality(RangeOf(workers)) = Len(workers)
           /\ RangeOf(workers) \subseteq WorkerIds
           /\ IsFiniteSet(Exited) /\ Cardinality(Exited) \in Nat
<1>1. RangeOf(workers) \subseteq WorkerIds
  BY DEF TypeInv, TypeOK, RangeOf
<1>2. CASE workers = <<>>
  <2>1. Len(workers) = 0 /\ RangeOf(workers) = {}
    BY <1>2 DEF RangeOf
  <2>2. IsFiniteSet(RangeOf(workers)) /\ Cardinality(RangeOf(workers)) = Len(workers) /\ Exited = {}
    BY <2>1, FS_EmptySet DEF Exited
  <2>3. IsFiniteSet(Exited) /\ Cardinality(Exited) \in Nat
    BY <2>2, FS_EmptySet
  <2>4. workers # <<>> => Len(workers) = WorkerCount /\ RangeOf(workers) # {}
    BY <1>2
  <2>. QED  BY Zenon, <1>1, <1>2, <2>1, <2>2, <2>3, <2>4
<1>3. CASE workers # <<>>
  <2>. DEFINE first == (spawned - WorkerCount) + 1
  <2>1. /\ spawned \in Nat /\ spawned >= WorkerCount /\ first \in Int
        /\ workers = [i \in 1..WorkerCount |-> (spawned - WorkerCount) + i]
    BY <1>3 DEF Pool, TypeInv, TypeOK
  <2>2. Len(workers) = WorkerCount
    BY <2>1
  <2>3. RangeOf(workers) = first..spawned
    <3>1. \A i \in 1..WorkerCount : workers[i] = (spawned - WorkerCount) + i /\ workers[i] \in first..spawned
      BY <2>1
    <3>2. \A w \in first..spawned : w - (spawned - WorkerCount) \in 1..WorkerCount
                                  /\ workers[w - (spawned - WorkerCount)] = w
      BY <2>1
    <3>. QED  BY <2>2, <3>1, <3>2 DEF RangeOf
  <2>4. IsFiniteSet(first..spawned) /\ Cardinality(first..spawned) = WorkerCount /\ spawned \in first..spawned
    BY <2>1, FS_Interval
  <2>5. IsFiniteSet(Exited) /\ Cardinality(Exited) \in Nat
    <3>1. IsFiniteSet(Exited)
      BY <2>3, <2>4, FS_Subset DEF Exited
    <3>. QED  BY <3>1, FS_CardinalityType
  <2>. HIDE DEF first
  <2>6. RangeOf(workers) # {} /\ IsFiniteSet(RangeOf(workers))
        /\ Cardinality(RangeOf(workers)) = Len(workers)
    BY <2>2, <2>3, <2>4
  <2>7. workers # <<>> => Len(workers) = WorkerCount /\ RangeOf(workers) # {}
    BY <2>2, <2>6
  <2>. QED  BY Zenon, <1>1, <1>3, <2>5, <2>6, <2>7
<1>. QED  BY <1>2, <1>3

LEMMA SentinelsCount ==
    ASSUME TypeInv
    PROVE  IsFiniteSet(Sentinels) /\ Cardinality(Sentinels) \in Nat
<1>1. Len(queue) \in Int
  BY DEF TypeInv, TypeOK
<1>2. IsFiniteSet(1..Len(queue))
  BY <1>1, FS_Interval
<1>3. IsFiniteSet(Sentinels)
  BY <1>2, FS_Subset DEF Sentinels
<1>. QED  BY <1>3, FS_CardinalityType

\* The sentinels when the head of the queue is taken.
LEMMA SentinelsTail ==
    ASSUME TypeInv, queue # <<>>, queue' = Tail(queue)
    PROVE  /\ \A i \in 1..Len(queue') : i + 1 \in 1..Len(queue) /\ queue'[i] = queue[i + 1]
           /\ \A i \in Sentinels' : i + 1 \in Sentinels
           /\ Head(queue) # Sentinel => Cardinality(Sentinels') = Cardinality(Sentinels)
           /\ Head(queue) = Sentinel => 1 \in Sentinels /\ Cardinality(Sentinels') = Cardinality(Sentinels) - 1
<1>. DEFINE T == Sentinels \ {1}
<1>1. /\ queue \in Seq(Tasks \cup {Sentinel}) /\ Len(queue) \in Nat /\ Len(queue) >= 1
      /\ Len(queue') = Len(queue) - 1 /\ Head(queue) = queue[1]
      /\ \A i \in 1..Len(queue') : i + 1 \in 1..Len(queue) /\ queue'[i] = queue[i + 1]
  BY DEF TypeInv, TypeOK
<1>2. \A i \in Sentinels' : i \in Nat /\ i + 1 \in T
  BY <1>1 DEF Sentinels
<1>3. \A i \in T : i - 1 \in Sentinels' /\ (i - 1) + 1 = i
  BY <1>1 DEF Sentinels
<1>4. IsFiniteSet(T) /\ Cardinality(Sentinels') = Cardinality(T)
  <2>. DEFINE f == [i \in T |-> i - 1]
              U == Sentinels'
  <2>1. IsFiniteSet(T)
    BY SentinelsCount, FS_RemoveElement
  <2>2. T \subseteq Nat
    BY DEF Sentinels
  <2>3. f \in [T -> U] /\ (\A i, j \in T : f[i] = f[j] => i = j) /\ \A u \in U : u + 1 \in T /\ f[u + 1] = u
    BY <1>2, <1>3, <2>2
  <2>. HIDE DEF f, T, U
  <2>4. f \in Bijection(T, U)
    BY <2>3, Fun_IsBij
  <2>. QED  BY <2>1, <2>4, FS_Bijection DEF ExistsBijection, U
<1>5. CASE Head(queue) # Sentinel
  <2>1. T = Sentinels
    BY <1>1, <1>5 DEF Sentinels
  <2>. QED  BY <1>1, <1>2, <1>4, <1>5, <2>1
<1>6. CASE Head(queue) = Sentinel
  <2>1. 1 \in Sentinels
    BY <1>1, <1>6 DEF Sentinels
  <2>2. Cardinality(T) = Cardinality(Sentinels) - 1
    BY <2>1, SentinelsCount, FS_RemoveElement
  <2>. QED  BY <1>1, <1>2, <1>4, <1>6, <2>1, <2>2
<1>. QED  BY <1>5, <1>6

\* The sentinels when n more are put.
LEMMA SentinelsPut ==
    ASSUME TypeInv, NEW n \in Nat, queue' = queue \o [j \in 1..n |-> Sentinel]
    PROVE  /\ Sentinels' = Sentinels \cup ((Len(queue) + 1)..(Len(queue) + n))
           /\ Cardinality(Sentinels') = Cardinality(Sentinels) + n
           /\ \A i \in 1..Len(queue) : queue'[i] = queue[i]
           /\ Len(queue') = Len(queue) + n /\ Len(queue) \in Nat
<1>. DEFINE I == (Len(queue) + 1)..(Len(queue) + n)
<1>1. queue \in Seq(Tasks \cup {Sentinel}) /\ Len(queue) \in Nat
  BY DEF TypeInv, TypeOK
<1>2. /\ Len(queue') = Len(queue) + n /\ \A i \in 1..Len(queue) : queue'[i] = queue[i]
      /\ \A i \in I : queue'[i] = Sentinel
  BY <1>1, PutSentinelsQueue
<1>3. 1..(Len(queue) + n) = (1..Len(queue)) \cup I /\ (1..Len(queue)) \cap I = {}
  BY <1>1
<1>4. Sentinels' = Sentinels \cup I /\ Sentinels \cap I = {}
  BY <1>2, <1>3 DEF Sentinels
<1>5. IsFiniteSet(I) /\ Cardinality(I) = n
  BY <1>1, FS_Interval
<1>6. Cardinality(Sentinels \cup I) = Cardinality(Sentinels) + n
  <2>. HIDE DEF I
  <2>1. Cardinality(Sentinels \cap I) = 0
    BY <1>4, FS_EmptySet
  <2>2. Cardinality(Sentinels \cup I) = Cardinality(Sentinels) + Cardinality(I) - Cardinality(Sentinels \cap I)
    BY <1>5, SentinelsCount, FS_Union
  <2>. QED  BY <1>5, <2>1, <2>2, SentinelsCount
<1>. QED  BY <1>1, <1>2, <1>4, <1>6

\* A step that neither starts, stops nor touches the queue.
LEMMA LifeFrame ==
    ASSUME TypeInv, LifeInv,
           UNCHANGED <<queue, running, workers, spawned, cpc, cput, cwait, before>>,
           accepted \subseteq accepted',
           \A w \in WorkerIds : /\ Alive(w)' <=> Alive(w)
                                /\ wpc'[w] = "exited" <=> wpc[w] = "exited"
    PROVE  LifeInv'
<1>1. Sentinels' = Sentinels /\ Queued' = Queued /\ RangeOf(workers)' = RangeOf(workers)
  BY DEF Sentinels, Queued, RangeOf
<1>2. Exited' = Exited
  BY <1>1, PoolSize DEF Exited, LifeInv
<1>3. Pool'
  BY <1>1 DEF LifeInv, Pool
<1>4. ASSUME NEW c \in Controllers PROVE StopProgress(c)'
  BY <1>1, <1>2 DEF LifeInv, StopProgress
<1>5. ASSUME NEW c \in Controllers PROVE StopOrder(c)'
  <2>1. StopOrder(c)
    BY DEF LifeInv
  <2>. QED  BY <2>1, <1>1, <1>2 DEF StopOrder
<1>. QED  BY <1>3, <1>4, <1>5 DEF LifeInv

\* A task is put behind the sentinels, if there are any.
LEMMA LifeEnqueue ==
    ASSUME TypeInv, TaskConservation, LifeInv, NEW t \in Tasks, Enqueue(t)
    PROVE  LifeInv'
<1>1. /\ t \notin accepted /\ queue' = Append(queue, t) /\ accepted' = accepted \cup {t}
      /\ UNCHANGED <<running, workers, spawned, wpc, cpc, cput, cwait, before>>
  BY DEF Enqueue, workerVars, controlVars
<1>2. /\ queue \in Seq(Tasks \cup {Sentinel}) /\ t # Sentinel /\ Len(queue) \in Nat
      /\ Len(queue') = Len(queue) + 1 /\ queue'[Len(queue) + 1] = t
      /\ \A i \in 1..Len(queue) : queue'[i] = queue[i]
      /\ 1..(Len(queue) + 1) = (1..Len(queue)) \cup {Len(queue) + 1}
  BY <1>1 DEF TypeInv, TypeOK
<1>3. Sentinels' = Sentinels
  BY <1>2 DEF Sentinels
<1>4. Queued' = Queued \cup {t}
  BY <1>1, <1>2, RangeOfAppend DEF Queued
<1>5. RangeOf(workers)' = RangeOf(workers) /\ Exited' = Exited
  BY <1>1 DEF RangeOf, Exited
<1>6. Pool'
  BY <1>1, <1>5 DEF LifeInv, Pool, Alive
<1>7. ASSUME NEW c \in Controllers PROVE StopProgress(c)'
  BY <1>1, <1>3, <1>5 DEF LifeInv, StopProgress
<1>8. ASSUME NEW c \in Controllers PROVE StopOrder(c)'
  <2>1. StopOrder(c)
    BY DEF LifeInv
  <2>. SUFFICES ASSUME cpc[c] # "idle"
                PROVE  /\ before[c] \subseteq accepted'
                       /\ \A i \in Sentinels', j \in 1..Len(queue') : queue'[j] \in before[c] => j < i
                       /\ Exited' # {} => Queued' \cap before[c] = {}
    BY <1>1 DEF StopOrder
  <2>2. before[c] \subseteq accepted /\ t \notin before[c]
    BY <2>1, <1>1 DEF StopOrder
  <2>3. ASSUME NEW i \in Sentinels', NEW j \in 1..Len(queue'), queue'[j] \in before[c] PROVE j < i
    <3>1. j \in 1..Len(queue)
      BY <1>2, <2>2, <2>3
    <3>. QED  BY <1>2, <1>3, <2>1, <2>3, <3>1 DEF StopOrder
  <2>. QED  BY <1>1, <1>4, <1>5, <2>1, <2>2, <2>3 DEF StopOrder
<1>. QED  BY <1>6, <1>7, <1>8 DEF LifeInv

\* The head of the queue is taken: the order of the others stays.
LEMMA LifeTakeTask ==
    ASSUME TypeInv, LifeInv, NEW w \in WorkerIds, TakeTask(w)
    PROVE  LifeInv'
<1>1. /\ wpc[w] = "get" /\ queue # <<>> /\ Head(queue) # Sentinel /\ queue' = Tail(queue)
      /\ wpc' = [wpc EXCEPT ![w] = FirstState(Head(queue))] /\ accepted' = accepted
      /\ UNCHANGED <<running, workers, spawned, cpc, cput, cwait, before>>
  BY DEF TakeTask, controlVars, historyVars
<1>2. FirstState(Head(queue)) \in {"notify", "check", "write"}
  BY DEF FirstState
<1>3. \A v \in WorkerIds : /\ Alive(v)' <=> Alive(v)
                           /\ wpc'[v] = "exited" <=> wpc[v] = "exited"
  BY <1>1, <1>2 DEF Alive, TypeInv, TypeOK
<1>4. /\ \A i \in 1..Len(queue') : i + 1 \in 1..Len(queue) /\ queue'[i] = queue[i + 1]
      /\ \A i \in Sentinels' : i + 1 \in Sentinels
      /\ Cardinality(Sentinels') = Cardinality(Sentinels)
  BY <1>1, SentinelsTail
<1>5. RangeOf(workers)' = RangeOf(workers)
  BY <1>1 DEF RangeOf
<1>6. Exited' = Exited
  BY <1>3, <1>5, PoolSize DEF Exited, LifeInv
<1>7. Queued' \subseteq Queued
  BY <1>4 DEF Queued, RangeOf
<1>8. Pool'
  BY <1>1, <1>3, <1>5 DEF LifeInv, Pool
<1>9. ASSUME NEW c \in Controllers PROVE StopProgress(c)'
  <2>1. Sentinels = {} => Sentinels' = {}
    BY <1>4
  <2>. QED  BY <1>1, <1>4, <1>5, <1>6, <2>1 DEF LifeInv, StopProgress
<1>10. ASSUME NEW c \in Controllers PROVE StopOrder(c)'
  <2>1. StopOrder(c)
    BY DEF LifeInv
  <2>. SUFFICES ASSUME cpc[c] # "idle"
                PROVE  /\ before[c] \subseteq accepted
                       /\ \A i \in Sentinels', j \in 1..Len(queue') : queue'[j] \in before[c] => j < i
                       /\ Exited # {} => Queued' \cap before[c] = {}
    BY <1>1, <1>6 DEF StopOrder
  <2>2. ASSUME NEW i \in Sentinels', NEW j \in 1..Len(queue'), queue'[j] \in before[c] PROVE j < i
    <3>1. i + 1 \in Sentinels /\ j + 1 \in 1..Len(queue) /\ queue[j + 1] \in before[c]
      BY <1>4, <2>2
    <3>2. j + 1 < i + 1
      BY <2>1, <3>1 DEF StopOrder
    <3>3. i \in Int /\ j \in Int
      BY DEF Sentinels
    <3>. QED  BY <3>2, <3>3
  <2>. QED  BY <1>7, <2>1, <2>2 DEF StopOrder
<1>. QED  BY <1>8, <1>9, <1>10 DEF LifeInv

\* A worker takes a sentinel: no earlier task is left on the queue.
LEMMA LifeTakeSentinel ==
    ASSUME TypeInv, LifeInv, NEW w \in WorkerIds, TakeSentinel(w)
    PROVE  LifeInv'
<1>1. /\ wpc[w] = "get" /\ queue # <<>> /\ Head(queue) = Sentinel /\ queue' = Tail(queue)
      /\ wpc' = [wpc EXCEPT ![w] = "exited"] /\ accepted' = accepted
      /\ UNCHANGED <<running, workers, spawned, cpc, cput, cwait, before>>
  BY DEF TakeSentinel, controlVars, historyVars
<1>2. \A v \in WorkerIds : wpc'[v] = IF v = w THEN "exited" ELSE wpc[v]
  BY <1>1 DEF TypeInv, TypeOK
<1>3. /\ \A i \in 1..Len(queue') : i + 1 \in 1..Len(queue) /\ queue'[i] = queue[i + 1]
      /\ \A i \in Sentinels' : i + 1 \in Sentinels
      /\ 1 \in Sentinels
      /\ Cardinality(Sentinels') = Cardinality(Sentinels) - 1
  BY <1>1, SentinelsTail
<1>4. RangeOf(workers)' = RangeOf(workers) /\ RangeOf(workers) \subseteq WorkerIds
      /\ IsFiniteSet(Exited) /\ Cardinality(Exited) \in Nat
  BY <1>1, PoolSize DEF RangeOf, LifeInv
<1>5. Exited' = Exited \cup {w} /\ w \notin Exited
  <2>1. w \in RangeOf(workers)
    BY <1>1 DEF LifeInv, Pool, Alive
  <2>. QED  BY <1>1, <1>2, <1>4, <2>1 DEF Exited
<1>6. Cardinality(Exited') = Cardinality(Exited) + 1
  BY <1>4, <1>5, FS_AddElement
<1>7. Queued' \subseteq Queued
  BY <1>3 DEF Queued, RangeOf
<1>8. Pool'
  BY <1>1, <1>2, <1>4 DEF LifeInv, Pool, Alive
<1>9. ASSUME NEW c \in Controllers PROVE StopProgress(c)' /\ cpc[c] # "idle"
  <2>1. cpc[c] # "idle"
    BY <1>3 DEF LifeInv, StopProgress
  <2>2. Cardinality(Sentinels') + Cardinality(Exited') = Cardinality(Sentinels) + Cardinality(Exited)
    BY <1>3, <1>4, <1>6, SentinelsCount
  <2>. QED  BY <1>1, <1>4, <2>1, <2>2 DEF LifeInv, StopProgress
<1>10. ASSUME NEW c \in Controllers PROVE StopOrder(c)'
  <2>1. StopOrder(c) /\ cpc[c] # "idle"
    BY <1>9 DEF LifeInv
  <2>2. Queued \cap before[c] = {}
    <3>1. ASSUME NEW j \in 1..Len(queue), queue[j] \in before[c] PROVE FALSE
      <4>1. j < 1
        BY <1>3, <2>1, <3>1 DEF StopOrder
      <4>. QED  BY <4>1
    <3>. QED  BY <3>1 DEF Queued, RangeOf
  <2>3. ASSUME NEW j \in 1..Len(queue'), queue'[j] \in before[c] PROVE FALSE
    <3>1. j + 1 \in 1..Len(queue) /\ queue[j + 1] \in before[c]
      BY <1>3, <2>3
    <3>2. j + 1 < 1
      BY <1>3, <2>1, <3>1 DEF StopOrder
    <3>. QED  BY <3>2
  <2>. QED  BY <1>1, <1>7, <2>1, <2>2, <2>3 DEF StopOrder
<1>. QED  BY <1>8, <1>9, <1>10 DEF LifeInv

\* start() finds an empty list of workers, and nobody alive.
LEMMA LifeStart ==
    ASSUME OneController, TypeInv, LifeInv, NEW c \in Controllers, Start(c)
    PROVE  LifeInv'
<1>1. /\ cpc[c] = "idle" /\ ~running /\ running' = TRUE /\ spawned' = spawned + WorkerCount
      /\ workers' = workers \o [i \in 1..WorkerCount |-> spawned + i]
      /\ wpc' = [w \in WorkerIds |->
                   IF w \in (spawned + 1)..(spawned + WorkerCount) THEN "get" ELSE wpc[w]]
      /\ UNCHANGED <<queue, accepted, cpc, cput, cwait, before>>
  BY DEF Start, historyVars
<1>2. workers = <<>> /\ Sentinels = {} /\ Exited = {}
  BY <1>1 DEF LifeInv, StopProgress
<1>3. spawned \in Nat
  BY DEF TypeInv, TypeOK
<1>4. workers' = [i \in 1..WorkerCount |-> spawned + i] /\ workers' # <<>>
  <2>. DEFINE new == [i \in 1..WorkerCount |-> spawned + i]
  <2>1. new \in Seq(Nat) /\ Len(new) = WorkerCount /\ WorkerCount # 0
    BY <1>3
  <2>. HIDE DEF new
  <2>2. <<>> \o new = new /\ new # <<>>
    BY <2>1
  <2>. QED  BY <1>1, <1>2, <2>2 DEF new
<1>5. RangeOf(workers)' = (spawned + 1)..(spawned + WorkerCount)
  <2>1. Len(workers') = WorkerCount
    BY <1>4
  <2>2. \A w \in (spawned + 1)..(spawned + WorkerCount) :
           w - spawned \in 1..WorkerCount /\ workers'[w - spawned] = w
    BY <1>3, <1>4
  <2>3. \A i \in 1..WorkerCount : workers'[i] \in (spawned + 1)..(spawned + WorkerCount)
    BY <1>3, <1>4
  <2>4. RangeOf(workers)' = {workers'[i] : i \in 1..WorkerCount}
    BY <2>1 DEF RangeOf
  <2>. QED  BY <2>2, <2>3, <2>4
<1>6. Pool'
  <2>1. spawned' >= WorkerCount /\ spawned' - WorkerCount = spawned
    BY <1>1, <1>3
  <2>2. workers' = [i \in 1..WorkerCount |-> (spawned' - WorkerCount) + i]
    BY <1>4, <2>1
  <2>3. RangeOf(workers) = {}
    BY <1>2, PoolSize DEF LifeInv
  <2>4. ASSUME NEW w \in WorkerIds, Alive(w)' PROVE w \in RangeOf(workers)'
    <3>1. CASE w \in (spawned + 1)..(spawned + WorkerCount)
      BY <1>5, <3>1
    <3>2. CASE w \notin (spawned + 1)..(spawned + WorkerCount)
      <4>1. wpc'[w] = wpc[w]
        BY <1>1, <3>2
      <4>. QED  BY <2>3, <2>4, <4>1 DEF Alive, LifeInv, Pool
    <3>. QED  BY <3>1, <3>2
  <2>. QED  BY <2>1, <2>2, <2>4 DEF Pool
<1>7. Sentinels' = {}
  BY <1>1, <1>2 DEF Sentinels
<1>8. Exited' = {}
  <2>1. \A w \in RangeOf(workers)' : w \in WorkerIds => wpc'[w] = "get"
    BY <1>1, <1>5
  <2>2. RangeOf(workers)' \subseteq WorkerIds
    <3>1. spawned + WorkerCount <= MaxWorkers
      BY DEF Start
    <3>2. (spawned + 1)..(spawned + WorkerCount) \subseteq WorkerIds
      BY <1>3, <3>1 DEF WorkerIds
    <3>. QED  BY <1>5, <3>2
  <2>. QED  BY <2>1, <2>2 DEF Exited
<1>9. ASSUME NEW d \in Controllers PROVE StopProgress(d)' /\ StopOrder(d)'
  <2>1. cpc'[d] = "idle"
    BY <1>1 DEF OneController
  <2>. QED  BY <1>1, <1>4, <1>7, <1>8, <2>1 DEF StopProgress, StopOrder
<1>. QED  BY <1>6, <1>9 DEF LifeInv

\* The n sentinels that stop() puts after the first i, which the queue or the workers
\* that took one account for.
LEMMA LifePutSentinels ==
    ASSUME OneController, TypeInv, LifeInv, NEW c \in Controllers, NEW i \in Nat, NEW n \in Nat,
           PutSentinels(c, i, n), UNCHANGED <<workers, spawned, wpc, accepted>>,
           i + n <= Len(workers),
           Cardinality(Sentinels) + Cardinality(Exited) = i,
           running' = FALSE,
           before'[c] \subseteq accepted,
           \A k \in Sentinels, j \in 1..Len(queue) : queue[j] \in before'[c] => j < k,
           Exited # {} => Queued \cap before'[c] = {}
    PROVE  LifeInv'
<1>1. queue' = queue \o [j \in 1..n |-> Sentinel]
  BY DEF PutSentinels
<1>2. /\ Sentinels' = Sentinels \cup ((Len(queue) + 1)..(Len(queue) + n))
      /\ Cardinality(Sentinels') = Cardinality(Sentinels) + n
      /\ \A j \in 1..Len(queue) : queue'[j] = queue[j]
      /\ Len(queue') = Len(queue) + n /\ Len(queue) \in Nat
  BY <1>1, SentinelsPut
<1>3. RangeOf(workers)' = RangeOf(workers) /\ Exited' = Exited
  BY DEF RangeOf, Exited
<1>4. /\ Cardinality(Exited) \in Nat /\ Cardinality(Sentinels) \in Nat
      /\ workers = <<>> => Len(workers) = 0
      /\ workers # <<>> => Len(workers) # 0
      /\ Len(workers) \in Nat
  <2>1. Len(workers) \in Nat
    BY DEF TypeInv, TypeOK
  <2>. QED  BY <2>1, PoolSize, SentinelsCount DEF LifeInv
<1>5. Cardinality(Sentinels') + Cardinality(Exited') = i + n
  <2>1. Cardinality(Exited') = Cardinality(Exited)
    BY <1>3
  <2>2. PICK a \in Nat : a = Cardinality(Exited)
    BY <1>4
  <2>3. PICK b \in Nat : b = Cardinality(Sentinels)
    BY <1>4
  <2>4. Cardinality(Sentinels') = b + n
    BY <1>2, <2>3
  <2>5. b + a = i
    BY <2>2, <2>3
  <2>. QED  BY <2>1, <2>2, <2>4, <2>5
<1>6. /\ i + n < Len(workers) => cpc'[c] = "put" /\ cput'[c] = i + n
      /\ ~(i + n < Len(workers)) =>
            /\ cpc'[c] = IF workers = <<>> THEN "idle" ELSE "gather"
            /\ cwait'[c] = RangeOf(workers)
  BY DEF PutSentinels, TypeInv, TypeOK
<1>7. Pool'
  BY <1>3 DEF LifeInv, Pool, Alive
<1>8. StopProgress(c)'
  <2>1. CASE i + n < Len(workers)
    <3>1. workers # <<>>
      BY <1>4, <2>1
    <3>. QED  BY <1>5, <1>6, <2>1, <3>1 DEF StopProgress
  <2>2. CASE ~(i + n < Len(workers)) /\ workers # <<>>
    <3>1. i + n = Len(workers)
      BY <1>4, <2>2
    <3>. QED  BY <1>3, <1>5, <1>6, <2>2, <3>1 DEF StopProgress
  <2>3. CASE ~(i + n < Len(workers)) /\ workers = <<>>
    <3>1. n = 0 /\ i = 0
      BY <1>4, <2>3
    <3>2. Cardinality(Sentinels') = 0 /\ Cardinality(Exited') = 0
      BY <1>2, <1>3, <1>4, <3>1
    <3>3. Sentinels' = {} /\ Exited' = {}
      <4>1. IsFiniteSet(Sentinels) /\ IsFiniteSet(Exited)
        BY SentinelsCount, PoolSize DEF LifeInv
      <4>2. Sentinels = {} /\ Exited = {}
        BY <1>2, <1>3, <1>4, <3>1, <3>2, <4>1, FS_EmptySet
      <4>. QED  BY <1>2, <1>3, <3>1, <4>2
    <3>. QED  BY <1>6, <2>3, <3>3 DEF StopProgress
  <2>. QED  BY <2>1, <2>2, <2>3
<1>9. StopOrder(c)'
  <2>1. before'[c] \subseteq Tasks
    BY DEF TypeInv, TypeOK
  <2>2. ASSUME NEW k \in Sentinels', NEW j \in 1..Len(queue'), queue'[j] \in before'[c] PROVE j < k
    <3>1. j \in 1..Len(queue)
      <4>1. \A m \in (Len(queue) + 1)..(Len(queue) + n) : m \in Sentinels'
        BY <1>2
      <4>2. queue'[j] # Sentinel
        BY <2>1, <2>2
      <4>3. j \notin Sentinels'
        BY <4>2 DEF Sentinels
      <4>. QED  BY <1>2, <2>2, <4>1, <4>3
    <3>. QED  BY <1>2, <2>2, <3>1
  <2>3. Queued' \subseteq Queued
    <3>1. ASSUME NEW j \in 1..Len(queue'), queue'[j] # Sentinel PROVE queue'[j] \in Queued
      <4>1. j \in 1..Len(queue)
        <5>1. \A m \in (Len(queue) + 1)..(Len(queue) + n) : queue'[m] = Sentinel
          BY <1>2 DEF Sentinels
        <5>. QED  BY <1>2, <3>1, <5>1
      <4>. QED  BY <1>2, <3>1, <4>1 DEF Queued, RangeOf
    <3>. QED  BY <3>1 DEF Queued, RangeOf
  <2>. QED  BY <1>3, <2>2, <2>3 DEF StopOrder
<1>10. ASSUME NEW d \in Controllers PROVE StopProgress(d)' /\ StopOrder(d)'
  <2>1. c = d
    BY DEF OneController
  <2>. QED  BY <1>8, <1>9, <2>1
<1>. QED  BY <1>7, <1>10 DEF LifeInv

\* stop() begins: nothing is ahead of the sentinels but tasks accepted before.
LEMMA LifeBeginStop ==
    ASSUME OneController, TypeInv, LifeInv, NEW c \in Controllers, BeginStop(c)
    PROVE  LifeInv'
<1>. DEFINE n == Least(Len(workers), Room)
<1>1. Len(workers) \in Nat /\ n \in Nat /\ n <= Len(workers)
  BY DEF Least, Room, TypeInv, TypeOK
<1>2. /\ cpc[c] = "idle" /\ running' = FALSE /\ before'[c] = accepted
      /\ PutSentinels(c, 0, n) /\ UNCHANGED <<workers, spawned, wpc, accepted>>
  BY DEF BeginStop, TypeInv, TypeOK, workerVars, historyVars
<1>3. Sentinels = {} /\ Exited = {}
  BY <1>2 DEF LifeInv, StopProgress
<1>4. Cardinality(Sentinels) + Cardinality(Exited) = 0
  BY <1>3, FS_EmptySet
<1>. HIDE DEF n
<1>5. 0 + n <= Len(workers) /\ 0 \in Nat
  BY <1>1
<1>. QED  BY <1>1, <1>2, <1>3, <1>4, <1>5, LifePutSentinels

\* stop() goes on once there is room.
LEMMA LifeResumeStop ==
    ASSUME OneController, TypeInv, LifeInv, NEW c \in Controllers, ResumeStop(c)
    PROVE  LifeInv'
<1>. DEFINE i == cput[c]
            n == Most(1, Least(Len(workers) - i, Room))
<1>1. /\ cpc[c] = "put" /\ ~IsFull /\ PutSentinels(c, i, n)
      /\ UNCHANGED <<running, workers, spawned, wpc, accepted, before>>
  BY DEF ResumeStop, workerVars, historyVars
<1>2. /\ Cardinality(Sentinels) + Cardinality(Exited) = i /\ i < Len(workers) /\ ~running
      /\ StopOrder(c)
  BY <1>1 DEF LifeInv, StopProgress
<1>3. i \in Nat /\ Len(workers) \in Nat /\ n \in Nat /\ i + n <= Len(workers)
  <2>1. Len(workers) \in Nat /\ i \in Nat /\ Room \in Nat /\ Room >= 1
    BY <1>1 DEF IsFull, Room, TypeInv, TypeOK
  <2>. QED  BY <1>2, <2>1 DEF Most, Least
<1>4. running' = FALSE
  BY <1>1, <1>2 DEF TypeInv, TypeOK
<1>. HIDE DEF i, n
<1>5. /\ before'[c] \subseteq accepted
      /\ \A k \in Sentinels, j \in 1..Len(queue) : queue[j] \in before'[c] => j < k
      /\ Exited # {} => Queued \cap before'[c] = {}
  BY <1>1, <1>2 DEF StopOrder
<1>. QED  BY <1>1, <1>2, <1>3, <1>4, <1>5, LifePutSentinels

\* stop() ends: every worker of the list took its sentinel.
LEMMA AllExited ==
    ASSUME OneController, TypeInv, LifeInv, NEW c \in Controllers, FinishStop(c)
    PROVE  /\ Exited = RangeOf(workers) /\ Exited # {} /\ Sentinels = {}
           /\ \A w \in WorkerIds : ~Alive(w)
<1>1. /\ cpc[c] = "gather" /\ \A w \in cwait[c] : wpc[w] = "exited"
      /\ cwait[c] = RangeOf(workers) /\ workers # <<>>
      /\ Cardinality(Sentinels) + Cardinality(Exited) = Len(workers)
  BY DEF FinishStop, LifeInv, StopProgress
<1>2. Exited = RangeOf(workers) /\ Exited # {}
  BY <1>1, PoolSize DEF Exited, LifeInv
<1>3. Cardinality(Exited) = Len(workers) /\ Len(workers) \in Nat
  BY <1>2, PoolSize DEF LifeInv, TypeInv, TypeOK
<1>4. Cardinality(Sentinels) = 0
  BY <1>1, <1>3, SentinelsCount
<1>5. Sentinels = {}
  BY <1>4, SentinelsCount, FS_EmptySet
<1>6. \A w \in WorkerIds : ~Alive(w)
  BY <1>1 DEF LifeInv, Pool, Alive
<1>. QED  BY <1>2, <1>5, <1>6

LEMMA LifeFinishStop ==
    ASSUME OneController, TypeInv, LifeInv, NEW c \in Controllers, FinishStop(c)
    PROVE  LifeInv'
<1>1. /\ cpc'[c] = "idle" /\ workers' = <<>> /\ ~running
      /\ UNCHANGED <<queue, running, wpc>>
  BY DEF FinishStop, TypeInv, TypeOK, workerVars, LifeInv, StopProgress
<1>2. Sentinels' = {} /\ \A w \in WorkerIds : ~Alive(w)
  BY <1>1, AllExited DEF Sentinels
<1>3. RangeOf(workers)' = {} /\ Exited' = {}
  BY <1>1 DEF RangeOf, Exited
<1>4. Pool'
  BY <1>1, <1>2 DEF Pool, Alive
<1>5. ASSUME NEW d \in Controllers PROVE StopProgress(d)' /\ StopOrder(d)'
  <2>1. cpc'[d] = "idle"
    BY <1>1 DEF OneController
  <2>. QED  BY <1>1, <1>2, <1>3, <2>1 DEF StopProgress, StopOrder
<1>. QED  BY <1>4, <1>5 DEF LifeInv

\* With one coroutine that starts and stops it, the life of the processor is orderly.
THEOREM LifeHolds == OneController => (Spec => []LifeInv)
<1>. SUFFICES ASSUME OneController PROVE Spec => []LifeInv
  OBVIOUS
<1>1. Init => LifeInv
  <2>. SUFFICES ASSUME Init PROVE LifeInv
    OBVIOUS
  <2>1. /\ queue = <<>> /\ running = FALSE /\ workers = <<>> /\ spawned = 0
        /\ wpc = [w \in WorkerIds |-> "none"] /\ cpc = [c \in Controllers |-> "idle"]
    BY Zenon DEF Init
  <2>2. Sentinels = {} /\ Exited = {} /\ RangeOf(workers) = {}
    BY <2>1 DEF Sentinels, Exited, RangeOf
  <2>3. Pool
    BY <2>1 DEF Pool, Alive
  <2>4. \A c \in Controllers : StopProgress(c) /\ StopOrder(c)
    BY <2>1, <2>2 DEF StopProgress, StopOrder
  <2>. QED  BY <2>3, <2>4 DEF LifeInv
<1>2. TypeInv /\ TaskConservation /\ LifeInv /\ [Next]_vars => LifeInv'
  <2>. SUFFICES ASSUME TypeInv, TaskConservation, LifeInv, [Next]_vars PROVE LifeInv'
    OBVIOUS
  <2>. USE DEF workerVars, controlVars, historyVars
  <2>1. ASSUME NEW t \in Tasks, Enqueue(t) \/ EnqueueFull(t) PROVE LifeInv'
    BY <2>1, LifeEnqueue, LifeFrame DEF EnqueueFull, Alive
  <2>2. CASE Subscribe
    BY <2>2, LifeFrame DEF Subscribe, Alive
  <2>3. ASSUME NEW c \in Controllers, Start(c) \/ BeginStop(c) \/ StopStep(c) PROVE LifeInv'
    BY <2>3, LifeStart, LifeBeginStop, LifeResumeStop, LifeFinishStop DEF StopStep
  <2>4. ASSUME NEW w \in WorkerIds, WorkerStep(w) PROVE LifeInv'
    <3>1. CASE TakeTask(w) \/ TakeSentinel(w)
      BY <3>1, LifeTakeTask, LifeTakeSentinel
    <3>2. CASE ~(TakeTask(w) \/ TakeSentinel(w))
      <4>1. /\ UNCHANGED <<queue, running, workers, spawned, cpc, cput, cwait, before, accepted>>
            /\ wpc[w] \notin {"none", "exited"}
            /\ \E p \in WorkerStates \ {"none", "exited"} : wpc' = [wpc EXCEPT ![w] = p]
        <5>1. CASE CheckEnds(w)
          BY <5>1 DEF CheckEnds, WorkerStates
        <5>2. CASE WriteSucceeds(w)
          BY <5>2 DEF WriteSucceeds, WorkerStates
        <5>3. CASE WriteFails(w) \/ SearchEnds(w) \/ WarmEnds(w)
          BY <5>3 DEF WriteFails, SearchEnds, SearchEndsIn, AfterSearch, WarmEnds, WorkerStates
        <5>4. CASE Notify(w)
          <6>1. wpc' = [wpc EXCEPT ![w] = "notify"]
            BY <5>4 DEF Notify, TypeInv, TypeOK
          <6>. QED  BY <5>4, <6>1 DEF Notify, WorkerStates
        <5>5. CASE EndTask(w)
          BY <5>5 DEF EndTask, WorkerStates
        <5>. QED  BY <2>4, <3>2, <5>1, <5>2, <5>3, <5>4, <5>5 DEF WorkerStep
      <4>2. \A v \in WorkerIds : /\ Alive(v)' <=> Alive(v)
                                 /\ wpc'[v] = "exited" <=> wpc[v] = "exited"
        BY <4>1 DEF Alive, TypeInv, TypeOK
      <4>. QED  BY <4>1, <4>2, LifeFrame
    <3>. QED  BY <3>1, <3>2
  <2>5. CASE UNCHANGED vars
    BY <2>5, LifeFrame DEF vars, Alive
  <2>. QED  BY <2>1, <2>2, <2>3, <2>4, <2>5 DEF Next
<1>. QED  BY <1>1, <1>2, TypeCorrect, Conservation, PTL DEF Spec

\* When stop() returns, every task accepted before it was called is done.
THEOREM StopHolds == OneController => (Spec => StopFinishesEarlierTasks)
<1>. SUFFICES ASSUME OneController PROVE Spec => StopFinishesEarlierTasks
  OBVIOUS
<1>1. ASSUME TypeInv, TaskConservation, LifeInv, [Next]_vars, NEW c \in Controllers, Returns(c)
      PROVE  before[c] \subseteq done'
  <2>1. cpc[c] # "idle" /\ cpc'[c] = "idle" /\ cpc' # cpc
    BY <1>1 DEF Returns
  <2>2. FinishStop(c)
    <3>1. PICK d \in Controllers : Start(d) \/ BeginStop(d) \/ StopStep(d)
      BY <1>1, <2>1 DEF Next, Enqueue, EnqueueFull, Subscribe, WorkerStep, TakeTask, TakeSentinel,
         CheckEnds, WriteSucceeds, WriteFails, SearchEnds, SearchEndsIn, AfterSearch, WarmEnds, Notify,
         EndTask, controlVars, vars
    <3>2. d = c
      BY DEF OneController
    <3>3. ~Start(c) /\ ~BeginStop(c)
      BY <2>1 DEF Start, BeginStop
    <3>4. ~ResumeStop(c)
      <4>. SUFFICES ASSUME ResumeStop(c) PROVE FALSE
        OBVIOUS
      <4>1. cpc'[c] \in {"put", "gather"}
        BY <1>1 DEF ResumeStop, PutSentinels, LifeInv, StopProgress, TypeInv, TypeOK
      <4>. QED  BY <2>1, <4>1
    <3>. QED  BY <3>1, <3>2, <3>3, <3>4 DEF StopStep
  <2>3. Exited # {} /\ \A w \in WorkerIds : ~Alive(w)
    BY <1>1, <2>2, AllExited
  <2>4. Held = {}
    BY <1>1, <2>3 DEF Held, Alive, TypeInv, TypeOK, WorkersOK, ProcessStates
  <2>5. Queued \cap before[c] = {} /\ before[c] \subseteq accepted
    BY <1>1, <2>1, <2>3 DEF LifeInv, StopOrder
  <2>6. before[c] \subseteq done
    BY <1>1, <2>4, <2>5 DEF TaskConservation
  <2>. QED  BY <2>2, <2>6 DEF FinishStop, historyVars
<1>2. TypeInv /\ TaskConservation /\ LifeInv /\ [Next]_vars
        => [\A c \in Controllers : Returns(c) => before[c] \subseteq done']_vars
  BY <1>1
<1>. QED  BY <1>2, TypeCorrect, Conservation, LifeHolds, PTL DEF Spec, StopFinishesEarlierTasks

-----------------------------------------------------------------------------
(* The processor implements a bounded first-in first-out queue.            *)

\* The abstract queue holds the tasks of the queue, whichever sentinels lie between.
LEMMA PendingTasks ==
    ASSUME TypeInv
    PROVE  LET pending == Keep(queue, Tasks) IN
           /\ pending \in Seq(Tasks) /\ Len(pending) <= Len(queue)
           /\ {pending[i] : i \in 1..Len(pending)} = Queued
<1>. DEFINE S == Tasks \cup {Sentinel}
            r == Keep(queue, Tasks)
<1>1. queue \in Seq(S)
  BY DEF TypeInv, TypeOK
<1>2. r \in Seq(S \cap Tasks) /\ Len(r) <= Len(queue)
  BY <1>1, KeepType
<1>3. S \cap Tasks = Tasks
  OBVIOUS
<1>4. PICK place : Picks(place, queue, Tasks)
  BY <1>1, KeepPicks
<1>5. /\ \A k \in 1..Len(r) : place[k] \in 1..Len(queue) /\ r[k] = queue[place[k]] /\ r[k] \in Tasks
      /\ \A i \in 1..Len(queue) : queue[i] \in Tasks => \E k \in 1..Len(r) : place[k] = i
  BY <1>4 DEF Picks
<1>6. \A i \in 1..Len(queue) : queue[i] \in Tasks <=> queue[i] # Sentinel
  BY <1>1
<1>. HIDE DEF r
<1>7. {r[k] : k \in 1..Len(r)} \subseteq Queued
  BY <1>5 DEF Queued, RangeOf
<1>8. ASSUME NEW t \in Queued PROVE \E k \in 1..Len(r) : r[k] = t
  <2>1. PICK i \in 1..Len(queue) : queue[i] = t /\ t # Sentinel
    BY DEF Queued, RangeOf
  <2>. QED  BY <1>5, <1>6, <2>1
<1>. QED  BY <1>2, <1>3, <1>7, <1>8 DEF r

\* A worker that waits for a task leaves fewer than WorkerCount others to hold one.
LEMMA HeldBound ==
    ASSUME TypeInv, LifeInv, NEW w \in WorkerIds, wpc[w] = "get"
    PROVE  Cardinality(Held) < WorkerCount
<1>. DEFINE Busy == {v \in WorkerIds : wtask[v] # NoTask}
            Others == RangeOf(workers) \ {w}
            f == [v \in Busy |-> wtask[v]]
<1>1. w \in RangeOf(workers)
  BY DEF LifeInv, Pool, Alive
<1>2. IsFiniteSet(RangeOf(workers)) /\ Cardinality(RangeOf(workers)) = WorkerCount
  <2>1. workers # <<>>
    BY <1>1, PoolSize DEF LifeInv
  <2>. QED  BY <2>1, PoolSize DEF LifeInv
<1>3. IsFiniteSet(Others) /\ Cardinality(Others) = WorkerCount - 1
  BY <1>1, <1>2, FS_RemoveElement
<1>4. Busy \subseteq Others
  BY DEF Alive, LifeInv, Pool, TypeInv, WorkersOK, ProcessStates
<1>5. f \in [Busy -> Held] /\ \A t \in Held : \E v \in Busy : f[v] = t
  BY DEF Held
<1>. HIDE DEF Others, Busy, f
<1>6. IsFiniteSet(Busy) /\ Cardinality(Busy) <= WorkerCount - 1
  BY <1>3, <1>4, FS_Subset
<1>7. f \in Surjection(Busy, Held)
  BY <1>5 DEF Surjection
<1>8. IsFiniteSet(Held) /\ Cardinality(Held) <= Cardinality(Busy)
  BY <1>6, <1>7, FS_Surjection
<1>. QED  BY <1>6, <1>8, FS_CardinalityType

\* A step of the queue that only moves sentinels is invisible.
LEMMA SentinelsInvisible ==
    ASSUME TypeInv
    PROVE  /\ \A n \in Nat : Keep(queue \o [j \in 1..n |-> Sentinel], Tasks) = Keep(queue, Tasks)
           /\ queue # <<>> /\ Head(queue) = Sentinel => Keep(Tail(queue), Tasks) = Keep(queue, Tasks)
<1>. DEFINE S == Tasks \cup {Sentinel}
<1>1. queue \in Seq(S)
  BY DEF TypeInv, TypeOK
<1>2. ASSUME NEW n \in Nat
      PROVE  Keep(queue \o [j \in 1..n |-> Sentinel], Tasks) = Keep(queue, Tasks)
  <2>. DEFINE t == [j \in 1..n |-> Sentinel]
              k == Keep(t, Tasks)
  <2>1. t \in Seq({Sentinel}) /\ t \in Seq(S)
    OBVIOUS
  <2>. HIDE DEF t
  <2>2. k \in Seq({Sentinel} \cap Tasks)
    BY <2>1, KeepType
  <2>3. {Sentinel} \cap Tasks = {}
    OBVIOUS
  <2>4. k = <<>>
    <3>. HIDE DEF k
    <3>. QED  BY <2>2, <2>3
  <2>5. Keep(queue \o t, Tasks) = Keep(queue, Tasks) \o k
    BY <1>1, <2>1, KeepConcat
  <2>6. Keep(queue, Tasks) \in Seq(S)
    BY <1>1, KeepSequence
  <2>7. Keep(queue, Tasks) \o <<>> = Keep(queue, Tasks)
    BY <2>6
  <2>. QED  BY <2>4, <2>5, <2>7 DEF t
<1>3. ASSUME queue # <<>>, Head(queue) = Sentinel
      PROVE  Keep(Tail(queue), Tasks) = Keep(queue, Tasks)
  <2>1. Head(queue) \notin Tasks
    BY <1>3
  <2>. QED  BY <1>1, <1>3, <2>1, KeepHead
<1>. QED  BY <1>2, <1>3

\* With one coroutine that starts and stops it, the processor does what MemoryTaskQueue
\* promises: every step is an acceptance, a dispatch, an end of a task, or nothing to it.
THEOREM RefinesTaskQueue == OneController => (Spec => ImplementsTaskQueue)
<1>. SUFFICES ASSUME OneController PROVE Spec => ImplementsTaskQueue
  OBVIOUS
<1>1. Init => Abstract!Init
  <2>. SUFFICES ASSUME Init PROVE Abstract!Init
    OBVIOUS
  <2>1. queue = <<>> /\ done = {} /\ wtask = [w \in WorkerIds |-> NoTask]
    BY Zenon DEF Init
  <2>2. Keep(queue, Tasks) = <<>>
    BY <2>1, KeepEmpty
  <2>3. Held = {}
    BY <2>1 DEF Held
  <2>. QED  BY <2>1, <2>2, <2>3 DEF Abstract!Init
<1>2. TypeInv /\ TaskConservation /\ LifeInv /\ [Next]_vars => [Abstract!Next]_Abstract!vars
  <2>. SUFFICES ASSUME TypeInv, TaskConservation, LifeInv, [Next]_vars
                PROVE  [Abstract!Next]_Abstract!vars
    OBVIOUS
  <2>. DEFINE pending == Keep(queue, Tasks)
  <2>0. UNCHANGED <<queue, wtask, done>> => [Abstract!Next]_Abstract!vars
    BY DEF Abstract!vars, Held
  <2>1. ASSUME NEW t \in Tasks, Enqueue(t) PROVE [Abstract!Next]_Abstract!vars
    <3>1. t \notin accepted /\ ~IsFull /\ queue' = Append(queue, t) /\ UNCHANGED <<wtask, done>>
      BY <2>1 DEF Enqueue, workerVars
    <3>2. queue \in Seq(Tasks \cup {Sentinel}) /\ t \in Tasks \cup {Sentinel}
      BY DEF TypeInv, TypeOK
    <3>3. pending' = Append(pending, t)
      BY <3>1, <3>2, KeepAppend
    <3>4. pending \in Seq(Tasks) /\ Len(pending) <= Len(queue)
          /\ {pending[i] : i \in 1..Len(pending)} = Queued
      BY PendingTasks
    <3>5. Len(pending) < QueueMaxsize
      BY <3>1, <3>2, <3>4 DEF IsFull
    <3>6. t \notin Abstract!Known
      BY <3>1, <3>4 DEF Abstract!Known, TaskConservation
    <3>7. Held' = Held /\ done' = done
      BY <3>1 DEF Held
    <3>8. Abstract!Accept(t)
      BY <3>3, <3>5, <3>6, <3>7 DEF Abstract!Accept
    <3>. QED  BY <3>8 DEF Abstract!Next
  <2>2. ASSUME NEW t \in Tasks, EnqueueFull(t) PROVE [Abstract!Next]_Abstract!vars
    BY <2>0, <2>2 DEF EnqueueFull, workerVars
  <2>3. CASE Subscribe
    BY <2>0, <2>3 DEF Subscribe, workerVars, historyVars
  <2>4. ASSUME NEW c \in Controllers, Start(c) \/ FinishStop(c) PROVE [Abstract!Next]_Abstract!vars
    BY <2>0, <2>4 DEF Start, FinishStop, workerVars, historyVars
  <2>5. ASSUME NEW c \in Controllers, BeginStop(c) \/ ResumeStop(c) PROVE [Abstract!Next]_Abstract!vars
    <3>1. UNCHANGED <<wtask, done>>
      BY <2>5 DEF BeginStop, ResumeStop, workerVars, historyVars
    <3>2. \E n \in Nat : queue' = queue \o [j \in 1..n |-> Sentinel]
      <4>1. Len(workers) \in Nat /\ Room \in Nat /\ cput[c] \in Nat
        BY DEF TypeInv, TypeOK, Room
      <4>2. Least(Len(workers), Room) \in Nat /\ Most(1, Least(Len(workers) - cput[c], Room)) \in Nat
        BY <4>1 DEF Least, Most
      <4>3. CASE BeginStop(c)
        BY <4>2, <4>3 DEF BeginStop, PutSentinels
      <4>4. CASE ResumeStop(c)
        BY <4>2, <4>4 DEF ResumeStop, PutSentinels
      <4>. QED  BY <2>5, <4>3, <4>4
    <3>3. pending' = pending
      BY <3>2, SentinelsInvisible
    <3>. QED  BY <3>1, <3>3 DEF Abstract!vars, Held
  <2>6. ASSUME NEW w \in WorkerIds, TakeTask(w) PROVE [Abstract!Next]_Abstract!vars
    <3>. DEFINE t == Head(queue)
    <3>1. /\ wpc[w] = "get" /\ queue # <<>> /\ t \in Tasks /\ queue' = Tail(queue)
          /\ wtask' = [wtask EXCEPT ![w] = t] /\ done' = done
          /\ queue \in Seq(Tasks \cup {Sentinel})
      BY <2>6 DEF TakeTask, historyVars, TypeInv, TypeOK
    <3>2. pending # <<>> /\ Head(pending) = t /\ pending' = Tail(pending)
      BY <3>1, KeepHead
    <3>3. Cardinality(Held) < WorkerCount
      BY <3>1, HeldBound
    <3>4. Held' = Held \cup {t}
      BY <3>1 DEF Held, TypeInv, TypeOK, WorkersOK, ProcessStates
    <3>5. Held' = Held \cup {Head(pending)} /\ done' = done
      BY <3>1, <3>2, <3>4
    <3>6. Abstract!Cardinality(Held) = Cardinality(Held)
      BY DEF Abstract!Cardinality, Cardinality
    <3>7. Abstract!Dispatch
      BY <3>2, <3>3, <3>5, <3>6 DEF Abstract!Dispatch
    <3>. QED  BY <3>7 DEF Abstract!Next
  <2>7. ASSUME NEW w \in WorkerIds, TakeSentinel(w) PROVE [Abstract!Next]_Abstract!vars
    <3>1. pending' = pending
      BY <2>7, SentinelsInvisible DEF TakeSentinel
    <3>. QED  BY <2>7, <3>1 DEF TakeSentinel, historyVars, Abstract!vars, Held
  <2>8. ASSUME NEW w \in WorkerIds, EndTask(w) PROVE [Abstract!Next]_Abstract!vars
    <3>. DEFINE t == wtask[w]
    <3>1. /\ queue' = queue /\ wtask' = [wtask EXCEPT ![w] = NoTask] /\ done' = done \cup {t}
          /\ t \in Tasks
      BY <2>8 DEF EndTask, TypeInv, TypeOK, WorkersOK, ProcessStates
    <3>2. t \in Held /\ Held' = Held \ {t}
      BY <3>1 DEF Held, TaskConservation, TypeInv, TypeOK
    <3>3. Abstract!Finish(t)
      BY <3>1, <3>2 DEF Abstract!Finish
    <3>. QED  BY <3>1, <3>3 DEF Abstract!Next
  <2>9. ASSUME NEW w \in WorkerIds, WorkerStep(w), ~TakeTask(w), ~TakeSentinel(w), ~EndTask(w)
        PROVE  [Abstract!Next]_Abstract!vars
    <3>1. UNCHANGED <<queue, wtask, done>>
      BY <2>9, WorkerKeepsTask DEF WorkerStep
    <3>. QED  BY <2>0, <3>1
  <2>10. CASE UNCHANGED vars
    BY <2>0, <2>10 DEF vars, workerVars, historyVars
  <2>. QED  BY <2>1, <2>2, <2>3, <2>4, <2>5, <2>6, <2>7, <2>8, <2>9, <2>10 DEF Next, StopStep
<1>. QED  BY <1>1, <1>2, TypeCorrect, Conservation, LifeHolds, PTL
          DEF Spec, ImplementsTaskQueue, Abstract!Spec

-----------------------------------------------------------------------------
(* The composition with the LTM and the hot tier: the order of the tasks.  *)

USE MemoriesAssumption

\* The task t was accepted before u, or both were in process at the same time.
Before(t, u) == t \in earlier[u] \/ t \in beside[u]

OrderTypes ==
    /\ earlier \in [Tasks -> SUBSET Tasks]
    /\ beside \in [Tasks -> SUBSET Tasks]

\* The tasks of the queue are in the order of their acceptance, behind every task
\* taken; of the tasks taken only those held at the same time have no order.
OrderInv ==
    /\ \A u \in Queued : Held \cup done \subseteq earlier[u]
    /\ \A i, j \in 1..Len(queue) :
          i < j /\ queue[i] # Sentinel /\ queue[j] # Sentinel => queue[i] \in earlier[queue[j]]
    /\ \A t, u \in Held : t # u => t \in beside[u]
    /\ \A t \in done, u \in Held : Before(t, u)

LEMMA RunsProcessor ==
    /\ PipelineInit => Init
    /\ [PipelineNext]_pipelineVars => [Next]_vars
<1>1. PipelineInit => Init
  BY DEF PipelineInit
<1>2. ASSUME [PipelineNext]_pipelineVars PROVE [Next]_vars
  <2>1. ASSUME NEW t \in Tasks, Accept(t) PROVE Next
    BY <2>1 DEF Accept, Next
  <2>2. CASE QuietStep
    BY <2>2 DEF QuietStep, Next, WorkerStep
  <2>3. ASSUME NEW w \in WorkerIds, Take(w) PROVE Next
    BY <2>3 DEF Take, Next, WorkerStep
  <2>4. ASSUME NEW w \in WorkerIds, StoreStep(w) PROVE [Next]_vars
    BY <2>4 DEF StoreStep, WriteReturns, WriteRaises, SearchReads, SearchRaises, SearchReturns,
                SearchReturnsAndWarms, WarmReturns, WarmSwallows, SearchEnds, SearchEndsIn,
                Next, WorkerStep
  <2>5. CASE Expire \/ \E k \in Markers : UsageRead(k) \/ UsageWrite(k)
    BY <2>5 DEF Expire, UsageRead, UsageWrite
  <2>6. CASE UNCHANGED pipelineVars
    BY <2>6 DEF pipelineVars
  <2>. QED  BY <1>2, <2>1, <2>2, <2>3, <2>4, <2>5, <2>6 DEF PipelineNext
<1>. QED  BY <1>1, <1>2

LEMMA OrderFrame ==
    ASSUME OrderInv, UNCHANGED <<queue, wtask, done, earlier, beside>>
    PROVE  OrderInv'
BY DEF OrderInv, Queued, RangeOf, Held, Before

\* A new task is accepted after every other one.
LEMMA AcceptOrder ==
    ASSUME TypeInv, TaskConservation, OrderTypes, OrderInv, NEW t \in Tasks, Accept(t)
    PROVE  OrderTypes' /\ OrderInv'
<1>1. /\ queue \in Seq(Tasks \cup {Sentinel}) /\ t # Sentinel /\ accepted \subseteq Tasks
      /\ queue' = Append(queue, t) /\ t \notin accepted /\ UNCHANGED <<wtask, done, beside>>
      /\ earlier' = [earlier EXCEPT ![t] = accepted]
  BY DEF TypeInv, TypeOK, Accept, Enqueue, workerVars
<1>2. Queued' = Queued \cup {t} /\ Held' = Held
  BY <1>1, RangeOfAppend DEF Queued, Held
<1>3. /\ accepted = Queued \cup Held \cup done /\ Queued \subseteq Tasks
      /\ t \notin Queued /\ t \notin Held /\ t \notin done
  BY <1>1 DEF TaskConservation
<1>4. earlier'[t] = accepted /\ \A u \in Tasks : u # t => earlier'[u] = earlier[u]
  BY <1>1 DEF OrderTypes
<1>5. \A u \in Queued' : Held' \cup done' \subseteq earlier'[u]
  BY <1>1, <1>2, <1>3, <1>4 DEF OrderInv
<1>6. ASSUME NEW i \in 1..Len(queue'), NEW j \in 1..Len(queue'),
             i < j, queue'[i] # Sentinel, queue'[j] # Sentinel
      PROVE  queue'[i] \in earlier'[queue'[j]]
  <2>1. i \in 1..Len(queue) /\ queue'[i] = queue[i] /\ queue[i] \in Queued
    BY <1>1, <1>6 DEF Queued, RangeOf
  <2>2. CASE j \in 1..Len(queue)
    <3>1. queue'[j] = queue[j] /\ queue[j] \in Queued
      BY <1>1, <1>6, <2>2 DEF Queued, RangeOf
    <3>. QED  BY <1>3, <1>4, <1>6, <2>1, <2>2, <3>1 DEF OrderInv
  <2>3. CASE j = Len(queue) + 1
    BY <1>1, <1>3, <1>4, <2>1, <2>3
  <2>. QED  BY <1>1, <2>2, <2>3
<1>7. \A x \in done', u \in Held' : Before(x, u)'
  <2>1. Held \subseteq Tasks /\ \A u \in Held : u # t
    BY <1>1, <1>3
  <2>. QED  BY <1>1, <1>2, <1>4, <2>1 DEF OrderInv, Before
<1>8. \A x, u \in Held' : x # u => x \in beside'[u]
  BY <1>1, <1>2 DEF OrderInv
<1>9. OrderTypes'
  BY <1>1 DEF OrderTypes
<1>. QED  BY <1>5, <1>6, <1>7, <1>8, <1>9 DEF OrderInv

\* What is left of the queue without its head keeps its order.
LEMMA TailOrder ==
    ASSUME TypeInv, OrderInv, queue # <<>>, queue' = Tail(queue), earlier' = earlier
    PROVE  /\ \A i, j \in 1..Len(queue') :
                i < j /\ queue'[i] # Sentinel /\ queue'[j] # Sentinel =>
                    queue'[i] \in earlier'[queue'[j]]
           /\ Head(queue) # Sentinel => \A u \in Queued' : Head(queue) \in earlier[u]
<1>1. queue \in Seq(Tasks \cup {Sentinel}) /\ Head(queue) = queue[1] /\ 1 \in 1..Len(queue)
  BY DEF TypeInv, TypeOK
<1>2. \A i \in 1..Len(queue') : i + 1 \in 1..Len(queue) /\ queue'[i] = queue[i + 1] /\ 1 < i + 1
  BY <1>1
<1>3. ASSUME NEW i \in 1..Len(queue'), NEW j \in 1..Len(queue'),
             i < j, queue'[i] # Sentinel, queue'[j] # Sentinel
      PROVE  queue'[i] \in earlier'[queue'[j]]
  <2>1. i + 1 < j + 1
    BY <1>1, <1>3
  <2>. QED  BY <1>2, <1>3, <2>1 DEF OrderInv
<1>4. ASSUME Head(queue) # Sentinel, NEW u \in Queued' PROVE Head(queue) \in earlier[u]
  <2>1. PICK i \in 1..Len(queue') : u = queue'[i] /\ u # Sentinel
    BY DEF Queued, RangeOf
  <2>. QED  BY <1>1, <1>2, <1>4, <2>1 DEF OrderInv
<1>. QED  BY <1>3, <1>4

\* A task taken is in process together with the tasks the other workers hold.
LEMMA TakeOrder ==
    ASSUME TypeInv, TaskConservation, OrderTypes, OrderInv, NEW w \in WorkerIds, Take(w)
    PROVE  OrderTypes' /\ OrderInv'
<1>. DEFINE t == Head(queue)
<1>1. /\ queue \in Seq(Tasks \cup {Sentinel}) /\ queue # <<>> /\ t \in Tasks /\ t # NoTask
      /\ t # Sentinel /\ queue' = Tail(queue) /\ wtask' = [wtask EXCEPT ![w] = t]
      /\ done' = done /\ earlier' = earlier
      /\ beside' = [x \in Tasks |-> CASE x = t -> Held
                                      [] x \in Held -> beside[x] \cup {t}
                                      [] OTHER -> beside[x]]
  BY DEF TypeInv, TypeOK, Take, TakeTask, historyVars
<1>2. wtask[w] = NoTask /\ wtask \in [WorkerIds -> Tasks \cup {NoTask}] /\ Held \subseteq Tasks
  <2>1. wtask \in [WorkerIds -> Tasks \cup {NoTask}]
    BY DEF TypeInv, TypeOK
  <2>2. wpc[w] = "get"
    BY DEF Take, TakeTask
  <2>. QED  BY <2>1, <2>2 DEF TypeInv, WorkersOK, ProcessStates, Held
<1>3. Held' = Held \cup {t}
  BY <1>1, <1>2 DEF Held
<1>4. Queued = {t} \cup Queued'
  BY <1>1, RangeOfTail DEF Queued
<1>5. t \notin Held /\ t \notin done
  BY <1>4 DEF TaskConservation
<1>. HIDE DEF t
<1>6. /\ beside'[t] = Held
      /\ \A x \in Held : beside'[x] = beside[x] \cup {t}
      /\ \A x \in Tasks : x # t => beside[x] \subseteq beside'[x]
  BY <1>1, <1>2, <1>5
<1>7. \A u \in Queued' : Held' \cup done' \subseteq earlier'[u]
  <2>1. \A u \in Queued' : t \in earlier[u]
    BY <1>1, TailOrder DEF t
  <2>. QED  BY <1>1, <1>3, <1>4, <2>1 DEF OrderInv
<1>8. \A x, u \in Held' : x # u => x \in beside'[u]
  BY <1>3, <1>5, <1>6 DEF OrderInv
<1>9. \A x \in done', u \in Held' : Before(x, u)'
  <2>1. \A x \in done : x \in earlier[t]
    BY <1>4 DEF OrderInv
  <2>2. \A x \in done, u \in Held : Before(x, u) /\ beside[u] \subseteq beside'[u]
    BY <1>6 DEF OrderInv
  <2>. QED  BY <1>1, <1>3, <2>1, <2>2 DEF Before
<1>10. OrderTypes'
  <2>1. \A x \in Tasks : beside'[x] \subseteq Tasks
    BY <1>1, <1>2 DEF OrderTypes
  <2>. QED  BY <1>1, <2>1 DEF OrderTypes
<1>11. \A i, j \in 1..Len(queue') :
          i < j /\ queue'[i] # Sentinel /\ queue'[j] # Sentinel =>
              queue'[i] \in earlier'[queue'[j]]
  BY <1>1, TailOrder
<1>. QED  BY <1>7, <1>8, <1>9, <1>10, <1>11 DEF OrderInv

LEMMA TakeSentinelOrder ==
    ASSUME TypeInv, OrderInv, NEW w \in WorkerIds, TakeSentinel(w),
           UNCHANGED <<earlier, beside>>
    PROVE  OrderInv'
<1>1. queue \in Seq(Tasks \cup {Sentinel}) /\ queue # <<>> /\ Head(queue) = Sentinel
      /\ queue' = Tail(queue) /\ UNCHANGED <<wtask, done>>
  BY DEF TypeInv, TypeOK, TakeSentinel, historyVars
<1>2. Queued' = Queued /\ Held' = Held
  BY <1>1, RangeOfTail DEF Queued, Held
<1>3. \A i, j \in 1..Len(queue') :
          i < j /\ queue'[i] # Sentinel /\ queue'[j] # Sentinel =>
              queue'[i] \in earlier'[queue'[j]]
  BY <1>1, TailOrder
<1>. QED  BY <1>1, <1>2, <1>3 DEF OrderInv, Before

LEMMA PutSentinelsOrder ==
    ASSUME TypeInv, TaskConservation, OrderInv, NEW c \in Controllers, NEW k \in Nat,
           NEW n \in Nat, PutSentinels(c, k, n), UNCHANGED <<wtask, done, earlier, beside>>
    PROVE  OrderInv'
<1>1. queue' = queue \o [j \in 1..n |-> Sentinel]
      /\ queue \in Seq(Tasks \cup {Sentinel}) /\ Len(queue) \in Nat
  BY DEF PutSentinels, TypeInv, TypeOK
<1>2. /\ Len(queue') = Len(queue) + n
      /\ \A i \in 1..Len(queue) : queue'[i] = queue[i]
      /\ \A i \in (Len(queue) + 1)..(Len(queue) + n) : queue'[i] = Sentinel
  BY <1>1, PutSentinelsQueue
<1>3. \A i \in 1..Len(queue') : queue'[i] # Sentinel => i \in 1..Len(queue)
  BY <1>1, <1>2
<1>4. Queued' = Queued /\ Held' = Held
  BY PutSentinelsTasks DEF Held
<1>5. \A i, j \in 1..Len(queue') :
          i < j /\ queue'[i] # Sentinel /\ queue'[j] # Sentinel =>
              queue'[i] \in earlier'[queue'[j]]
  BY <1>2, <1>3 DEF OrderInv
<1>. QED  BY <1>4, <1>5 DEF OrderInv, Before

LEMMA EndTaskOrder ==
    ASSUME TypeInv, TaskConservation, OrderInv, NEW w \in WorkerIds, EndTask(w),
           UNCHANGED <<earlier, beside>>
    PROVE  OrderInv'
<1>1. wtask' = [wtask EXCEPT ![w] = NoTask] /\ done' = done \cup {wtask[w]}
      /\ queue' = queue /\ wtask[w] # NoTask
      /\ wtask \in [WorkerIds -> Tasks \cup {NoTask}]
  BY DEF TypeInv, TypeOK, WorkersOK, EndTask, ProcessStates
<1>2. wtask[w] \in Held /\ \A v \in WorkerIds : wtask[v] = wtask[w] => v = w
  BY <1>1 DEF TaskConservation, Held
<1>3. Held' = Held \ {wtask[w]} /\ Queued' = Queued
  BY <1>1, <1>2 DEF Held, Queued, RangeOf
<1>. QED  BY <1>1, <1>2, <1>3 DEF OrderInv, Before

\* Every step of the composition keeps the order.
LEMMA OrderStep ==
    ASSUME TypeInv, TaskConservation, OrderTypes, OrderInv, [PipelineNext]_pipelineVars
    PROVE  OrderTypes' /\ OrderInv'
<1>1. ASSUME NEW t \in Tasks, Accept(t) PROVE OrderTypes' /\ OrderInv'
  BY <1>1, AcceptOrder
<1>2. ASSUME NEW w \in WorkerIds, Take(w) PROVE OrderTypes' /\ OrderInv'
  BY <1>2, TakeOrder
<1>3. CASE QuietStep
  <2>1. OrderTypes' /\ UNCHANGED <<earlier, beside>>
    BY <1>3 DEF QuietStep, orderVars, OrderTypes
  <2>2. ASSUME NEW c \in Controllers, BeginStop(c) PROVE OrderInv'
    <3>1. Least(Len(workers), Room) \in Nat
      BY DEF TypeInv, TypeOK, Least, Room
    <3>2. UNCHANGED <<wtask, done>> /\ PutSentinels(c, 0, Least(Len(workers), Room))
      BY <2>2 DEF BeginStop, workerVars, historyVars
    <3>. QED  BY <2>1, <3>1, <3>2, PutSentinelsOrder
  <2>3. ASSUME NEW c \in Controllers, ResumeStop(c) PROVE OrderInv'
    <3>1. cput[c] \in Nat /\ Most(1, Least(Len(workers) - cput[c], Room)) \in Nat
      BY DEF TypeInv, TypeOK, Most, Least, Room
    <3>2. UNCHANGED <<wtask, done>>
          /\ PutSentinels(c, cput[c], Most(1, Least(Len(workers) - cput[c], Room)))
      BY <2>3 DEF ResumeStop, workerVars, historyVars
    <3>. QED  BY <2>1, <3>1, <3>2, PutSentinelsOrder
  <2>4. ASSUME NEW w \in WorkerIds, TakeSentinel(w) \/ EndTask(w) PROVE OrderInv'
    BY <2>1, <2>4, TakeSentinelOrder, EndTaskOrder
  <2>5. CASE \/ \E t \in Tasks : EnqueueFull(t)
             \/ Subscribe
             \/ \E c \in Controllers : Start(c) \/ FinishStop(c)
             \/ \E w \in WorkerIds : CheckEnds(w) \/ Notify(w)
    <3>1. UNCHANGED <<queue, wtask, done>>
      BY <2>5 DEF EnqueueFull, Subscribe, Start, FinishStop, CheckEnds, Notify, workerVars,
                  historyVars
    <3>. QED  BY <2>1, <3>1, OrderFrame
  <2>. QED  BY <1>3, <2>1, <2>2, <2>3, <2>4, <2>5 DEF QuietStep, StopStep
<1>4. CASE \/ \E w \in WorkerIds : StoreStep(w)
           \/ Expire
           \/ \E k \in Markers : UsageRead(k) \/ UsageWrite(k)
           \/ UNCHANGED pipelineVars
  <2>1. UNCHANGED <<queue, wtask, done, earlier, beside>>
    BY <1>4 DEF StoreStep, WriteReturns, WriteSucceeds, WriteRaises, WriteFails, SearchReads,
                SearchRaises, SearchReturns, SearchReturnsAndWarms, SearchEndsIn, WarmReturns,
                WarmSwallows, WarmEnds, Expire, UsageRead, UsageWrite, pipelineVars, orderVars,
                vars, workerVars, historyVars
  <2>2. OrderTypes'
    BY <2>1 DEF OrderTypes
  <2>. QED  BY <2>1, <2>2, OrderFrame
<1>. QED  BY <1>1, <1>2, <1>3, <1>4 DEF PipelineNext

-----------------------------------------------------------------------------
(* What the tasks make of the LTM.                                         *)

StoreTypes ==
    /\ ltm \in [Memories -> Tasks \cup {Absent}]
    /\ replaced \subseteq Tasks
    /\ found = [w \in WorkerIds |-> found[w]]
    /\ outdated \in [WorkerIds -> SUBSET Tasks]

\* The tasks that will not write the LTM any more.
Wrote == done \cup {wtask[w] : w \in {v \in WorkerIds : wpc[v] \in {"search", "warm", "notify"}}}

\* Every task writes once and its own memory only: what it wrote is in the LTM or
\* replaced for good.
EffectInv ==
    /\ applied \subseteq Wrote
    /\ replaced \subseteq Wrote
    /\ \A m \in Memories : ltm[m] # Absent => ltm[m] \in Wrote /\ Target[ltm[m]] = m
    /\ \A m \in Memories : ltm[m] \notin replaced
    /\ LtmKeepsOrder

\* A task whose write is over is done or held, so it was accepted.
LEMMA WroteIsAccepted ==
    ASSUME TypeInv, TaskConservation
    PROVE  Wrote \subseteq Held \cup done /\ Wrote \subseteq accepted /\ Wrote \subseteq Tasks
<1>1. ASSUME NEW w \in WorkerIds, wpc[w] \in {"search", "warm", "notify"}
      PROVE  wtask[w] \in Held
  BY <1>1 DEF TypeInv, WorkersOK, ProcessStates, Held
<1>2. Wrote \subseteq Held \cup done
  BY <1>1 DEF Wrote
<1>3. Held \cup done \subseteq accepted /\ accepted \subseteq Tasks
  BY DEF TaskConservation, TypeInv, TypeOK
<1>. QED  BY <1>2, <1>3

\* What is written stays written, and no task is taken back.
LEMMA WroteGrows ==
    ASSUME TypeInv, TaskConservation, [Next]_vars
    PROVE  Wrote \subseteq Wrote' /\ accepted \subseteq accepted'
<1>. DEFINE over == {"search", "warm", "notify"}
<1>1. accepted \subseteq accepted' /\ done \subseteq done'
  BY DEF Next, Enqueue, EnqueueFull, Subscribe, Start, BeginStop, StopStep, ResumeStop, FinishStop,
         WorkerStep, TakeTask, TakeSentinel, CheckEnds, WriteSucceeds, WriteFails, SearchEnds,
         SearchEndsIn, WarmEnds, Notify, EndTask, historyVars, vars
<1>2. ASSUME NEW w \in WorkerIds, wpc[w] \in over
      PROVE  wtask[w] \in done' \/ (wtask'[w] = wtask[w] /\ wpc'[w] \in over)
  <2>1. CASE \/ \E t \in Tasks : Enqueue(t) \/ EnqueueFull(t)
             \/ Subscribe
             \/ \E c \in Controllers : BeginStop(c) \/ StopStep(c)
             \/ UNCHANGED vars
    BY <1>2, <2>1 DEF Enqueue, EnqueueFull, Subscribe, BeginStop, StopStep, ResumeStop, FinishStop,
                      workerVars, vars
  <2>2. ASSUME NEW c \in Controllers, Start(c)
        PROVE  wtask'[w] = wtask[w] /\ wpc'[w] \in over
    <3>1. ~(w > spawned) /\ spawned \in Nat
      BY <1>2 DEF TypeInv, TypeOK, WorkersOK
    <3>2. w \notin (spawned + 1)..(spawned + WorkerCount)
      BY <3>1 DEF WorkerIds
    <3>. QED  BY <1>2, <2>2, <3>2 DEF Start
  <2>3. ASSUME NEW v \in WorkerIds, WorkerStep(v), v # w
        PROVE  wtask'[w] = wtask[w] /\ wpc'[w] \in over
    BY <1>2, <2>3 DEF WorkerStep, TakeTask, TakeSentinel, CheckEnds, WriteSucceeds, WriteFails,
                      SearchEnds, SearchEndsIn, WarmEnds, Notify, EndTask,
                      TypeInv, TypeOK
  <2>4. ASSUME EndTask(w) PROVE wtask[w] \in done'
    BY <2>4, Zenon DEF EndTask
  <2>5. CASE SearchEnds(w) \/ WarmEnds(w) \/ Notify(w)
    BY <1>2, <2>5 DEF SearchEnds, SearchEndsIn, AfterSearch, WarmEnds, Notify, TypeInv, TypeOK
  <2>6. CASE TakeTask(w) \/ TakeSentinel(w) \/ CheckEnds(w) \/ WriteSucceeds(w) \/ WriteFails(w)
    BY <1>2, <2>6 DEF TakeTask, TakeSentinel, CheckEnds, WriteSucceeds, WriteFails
  <2>7. ASSUME WorkerStep(w)
        PROVE  wtask[w] \in done' \/ (wtask'[w] = wtask[w] /\ wpc'[w] \in over)
    BY <2>4, <2>5, <2>6, <2>7 DEF WorkerStep
  <2>. HIDE DEF over
  <2>. QED  BY <2>1, <2>2, <2>3, <2>7 DEF Next
<1>. QED  BY <1>1, <1>2 DEF Wrote

\* The order among the tasks taken and those accepted before only grows.
LEMMA OrderGrows ==
    ASSUME TypeInv, TaskConservation, OrderTypes, [PipelineNext]_pipelineVars
    PROVE  \A u \in Held \cup done : earlier[u] \subseteq earlier'[u] /\ beside[u] \subseteq beside'[u]
<1>. SUFFICES ASSUME NEW u \in Held \cup done
              PROVE  earlier[u] \subseteq earlier'[u] /\ beside[u] \subseteq beside'[u]
  OBVIOUS
<1>1. u \in accepted /\ u \in Tasks /\ u \notin Queued
  BY DEF TaskConservation, TypeInv, TypeOK
<1>2. CASE \E t \in Tasks : Accept(t)
  BY <1>1, <1>2 DEF Accept, Enqueue, OrderTypes
<1>3. ASSUME NEW w \in WorkerIds, Take(w)
      PROVE  earlier[u] \subseteq earlier'[u] /\ beside[u] \subseteq beside'[u]
  <2>1. queue \in Seq(Tasks \cup {Sentinel}) /\ queue # <<>> /\ Head(queue) # Sentinel
    BY <1>3 DEF Take, TakeTask, TypeInv, TypeOK
  <2>2. Head(queue) \in Queued
    BY <2>1, RangeOfTail DEF Queued
  <2>3. u # Head(queue)
    BY <1>1, <2>2
  <2>. QED  BY <1>1, <1>3, <2>3 DEF Take, OrderTypes
<1>4. CASE UNCHANGED <<earlier, beside>>
  BY <1>4
<1>5. CASE \/ QuietStep
           \/ \E w \in WorkerIds : StoreStep(w)
           \/ Expire
           \/ \E k \in Markers : UsageRead(k) \/ UsageWrite(k)
           \/ UNCHANGED pipelineVars
  BY <1>5 DEF QuietStep, StoreStep, WriteReturns, WriteRaises, SearchReads, SearchRaises,
              SearchReturns, SearchReturnsAndWarms, WarmReturns, WarmSwallows, Expire, UsageRead,
              UsageWrite, pipelineVars, orderVars
<1>. QED  BY <1>2, <1>3, <1>5 DEF PipelineNext

\* A step without effect on the LTM.
LEMMA EffectFrame ==
    ASSUME TypeInv, TaskConservation, OrderTypes, StoreTypes, EffectInv,
           [PipelineNext]_pipelineVars, UNCHANGED <<ltm, replaced, applied>>
    PROVE  EffectInv'
<1>1. Wrote \subseteq Wrote' /\ accepted \subseteq accepted'
  BY RunsProcessor, WroteGrows
<1>2. \A u \in Wrote : earlier[u] \subseteq earlier'[u] /\ beside[u] \subseteq beside'[u]
  BY OrderGrows, WroteIsAccepted
<1>3. ASSUME NEW t \in applied'
      PROVE  LET u == ltm'[Target[t]] IN
             \/ u = t
             \/ u \in accepted' /\ (t \in earlier'[u] \/ t \in beside'[u])
             \/ Type[t] # "add" /\ Target[t] \notin Present'
  <2>1. t \in applied /\ t \in Tasks /\ Target[t] \in Memories
    BY WroteIsAccepted DEF EffectInv
  <2>2. Present' = Present
    BY DEF Present
  <2>3. ltm[Target[t]] \in accepted => ltm[Target[t]] \in Wrote
    BY <2>1 DEF EffectInv, TypeInv, TypeOK
  <2>. QED  BY <1>1, <1>2, <2>1, <2>2, <2>3 DEF EffectInv, LtmKeepsOrder
<1>. QED  BY <1>1, <1>3 DEF EffectInv, LtmKeepsOrder

\* The write of the task of w takes effect: whatever it overwrites was accepted
\* before it or is in process at the same time.
LEMMA WriteEffect ==
    ASSUME TypeInv, TaskConservation, OrderTypes, OrderInv, StoreTypes, EffectInv,
           [PipelineNext]_pipelineVars, NEW w \in WorkerIds,
           WriteReturns(w) \/ WriteRaises(w), TakesEffect(wtask[w])
    PROVE  EffectInv'
<1>. DEFINE t == wtask[w]
            m == Target[t]
<1>1. /\ wpc[w] = "write" /\ t \in Tasks /\ t \in Held /\ m \in Memories
      /\ UNCHANGED <<wtask, accepted, done, earlier, beside>>
      /\ applied' \subseteq applied \cup {t} /\ wpc'[w] \in {"search", "notify"}
  <2>1. WriteSucceeds(w) \/ WriteFails(w)
    BY DEF WriteReturns, WriteRaises
  <2>2. wpc[w] = "write" /\ UNCHANGED <<wtask, accepted, done>>
    BY <2>1 DEF WriteSucceeds, WriteFails, historyVars
  <2>3. applied' \subseteq applied \cup {t} /\ wpc'[w] \in {"search", "notify"}
    BY <2>1 DEF WriteSucceeds, WriteFails, historyVars, TypeInv, TypeOK
  <2>4. t \in Tasks /\ t \in Held
    BY <2>2 DEF TypeInv, TypeOK, WorkersOK, ProcessStates, Held
  <2>5. m \in Memories
    BY <2>4
  <2>6. UNCHANGED <<earlier, beside>>
    BY DEF WriteReturns, WriteRaises, orderVars
  <2>. QED  BY <2>2, <2>3, <2>4, <2>5, <2>6
<1>2. t \notin Wrote
  <2>1. t \notin done
    BY <1>1 DEF TaskConservation
  <2>2. \A v \in WorkerIds : wtask[v] = t => v = w
    BY <1>1 DEF TaskConservation
  <2>. QED  BY <1>1, <2>1, <2>2 DEF Wrote
<1>3. Wrote \subseteq Wrote' /\ t \in Wrote'
  <2>1. Wrote \subseteq Wrote'
    BY RunsProcessor, WroteGrows
  <2>. QED  BY <1>1, <2>1 DEF Wrote
<1>4. Wrote \subseteq Held \cup done /\ Wrote \subseteq Tasks /\ Held \cup done \subseteq accepted
  BY WroteIsAccepted DEF TaskConservation
<1>5. \A x \in applied : x # t /\ Before(x, t)
  <2>1. \A x \in Held \cup done : x # t => Before(x, t)
    BY <1>1 DEF OrderInv, Before
  <2>. QED  BY <1>2, <1>4, <2>1 DEF EffectInv
<1>. DEFINE effective == Type[t] = "add" \/ m \in Present
<1>6. CASE effective
  <2>1. ltm' = [ltm EXCEPT ![m] = t]
    BY <1>6 DEF TakesEffect
  <2>2. ltm'[m] = t /\ \A n \in Memories : n # m => ltm'[n] = ltm[n]
    BY <1>1, <2>1 DEF StoreTypes
  <2>3. ltm[m] # t /\ t \notin replaced
    BY <1>1, <1>2 DEF EffectInv, MemoriesAssumption
  <2>4. ltm' # ltm
    BY <2>2, <2>3
  <2>5. replaced' = (replaced \cup {ltm[m]}) \ {Absent}
    BY <2>4 DEF TakesEffect
  <2>6. replaced' \subseteq Wrote'
    BY <1>1, <1>3, <2>5 DEF EffectInv
  <2>7. \A n \in Memories : ltm'[n] # Absent => ltm'[n] \in Wrote' /\ Target[ltm'[n]] = n
    BY <1>1, <1>3, <2>2 DEF EffectInv
  <2>8. ASSUME NEW n \in Memories PROVE ltm'[n] \notin replaced'
    <3>1. CASE n = m
      BY <2>2, <2>3, <2>5, <3>1
    <3>2. CASE n # m
      <4>1. ltm'[n] = ltm[n] /\ ltm[n] \notin replaced
        BY <2>2, <3>2 DEF EffectInv
      <4>2. ltm[n] = ltm[m] => ltm[n] = Absent
        BY <1>1, <3>2 DEF EffectInv
      <4>. QED  BY <2>5, <4>1, <4>2
    <3>. QED  BY <3>1, <3>2
  <2>9. ASSUME NEW x \in applied'
        PROVE  LET u == ltm'[Target[x]] IN
               \/ u = x
               \/ u \in accepted' /\ (x \in earlier'[u] \/ x \in beside'[u])
               \/ Type[x] # "add" /\ Target[x] \notin Present'
    <3>1. x \in Tasks /\ Target[x] \in Memories
      BY <1>1, <1>4 DEF EffectInv
    <3>2. CASE Target[x] = m
      <4>1. x = t \/ Before(x, t)
        BY <1>1, <1>5
      <4>2. t \in accepted'
        BY <1>1, <1>4
      <4>. QED  BY <1>1, <2>2, <3>2, <4>1, <4>2 DEF Before
    <3>3. CASE Target[x] # m
      <4>1. x \in applied /\ ltm'[Target[x]] = ltm[Target[x]]
        BY <1>1, <2>2, <3>1, <3>3
      <4>2. Target[x] \in Present' <=> Target[x] \in Present
        BY <3>1, <4>1 DEF Present
      <4>. QED  BY <1>1, <4>1, <4>2 DEF EffectInv, LtmKeepsOrder
    <3>. QED  BY <3>2, <3>3
  <2>10. applied' \subseteq Wrote'
    BY <1>1, <1>3 DEF EffectInv
  <2>. QED  BY <2>6, <2>7, <2>8, <2>9, <2>10 DEF EffectInv, LtmKeepsOrder
<1>7. CASE ~effective
  <2>1. ltm' = ltm /\ replaced' = replaced
    BY <1>7 DEF TakesEffect
  <2>2. Present' = Present
    BY <2>1 DEF Present
  <2>3. ASSUME NEW x \in applied'
        PROVE  LET u == ltm'[Target[x]] IN
               \/ u = x
               \/ u \in accepted' /\ (x \in earlier'[u] \/ x \in beside'[u])
               \/ Type[x] # "add" /\ Target[x] \notin Present'
    <3>1. CASE x = t
      BY <1>7, <2>2, <3>1
    <3>2. CASE x # t
      BY <1>1, <2>1, <2>2, <3>2 DEF EffectInv, LtmKeepsOrder
    <3>. QED  BY <3>1, <3>2
  <2>4. applied' \subseteq Wrote'
    BY <1>1, <1>3 DEF EffectInv
  <2>. QED  BY <1>3, <2>1, <2>3, <2>4 DEF EffectInv, LtmKeepsOrder
<1>. QED  BY <1>6, <1>7
-----------------------------------------------------------------------------
(* What the refreshes put into the hot tier.                               *)

\* What a search found was in the LTM after the write of its task.
RefreshOf(w) ==
    /\ outdated[w] \subseteq replaced
    /\ Values(found[w]) \cap outdated[w] = {}
    /\ wpc[w] \notin {"search", "warm"} => Values(found[w]) = {}

RefreshInv == \A w \in WorkerIds : RefreshOf(w)

PipelineInv ==
    /\ TypeInv
    /\ TaskConservation
    /\ OrderTypes
    /\ OrderInv
    /\ StoreTypes
    /\ EffectInv
    /\ RefreshInv

\* A part of an entry holds nothing new.
LEMMA ValuesOfPart ==
    ASSUME NEW entry, NEW S
    PROVE  Values(Part(entry, S)) \subseteq Values(entry)
<1>1. DOMAIN Part(entry, S) = DOMAIN entry \cap S
  BY DEF Part
<1>2. \A m \in DOMAIN entry \cap S : Part(entry, S)[m] = entry[m]
  BY DEF Part
<1>3. ASSUME NEW m \in DOMAIN Part(entry, S) PROVE Part(entry, S)[m] \in Values(entry)
  <2>1. m \in DOMAIN entry /\ Part(entry, S)[m] = entry[m]
    BY <1>1, <1>2
  <2>. QED  BY <2>1 DEF Values
<1>. QED  BY <1>3, Zenon DEF Values

LEMMA ValuesOfEmpty == Values(Empty) = {}
BY DEF Values, Empty

\* A step that leaves the stores and the refreshes of the workers alone.
LEMMA RefreshFrame ==
    ASSUME StoreTypes, RefreshInv, UNCHANGED <<ltm, replaced, found, outdated>>,
           \A w \in WorkerIds : wpc[w] \in {"search", "warm"} => wpc'[w] \in {"search", "warm"}
    PROVE  StoreTypes' /\ RefreshInv'
<1>1. StoreTypes'
  BY DEF StoreTypes
<1>2. ASSUME NEW w \in WorkerIds PROVE RefreshOf(w)'
  <2>1. Values(found[w])' = Values(found[w])
    BY DEF Values
  <2>. QED  BY <2>1 DEF RefreshInv, RefreshOf
<1>. QED  BY <1>1, <1>2 DEF RefreshInv

\* No step of another coroutine ends the refresh of a worker.
LEMMA RefreshGoesOn ==
    ASSUME TypeInv,
           (\E t \in Tasks : Accept(t)) \/ QuietStep \/ (\E v \in WorkerIds : Take(v))
    PROVE  \A w \in WorkerIds : wpc[w] \in {"search", "warm"} => wpc'[w] = wpc[w]
<1>. SUFFICES ASSUME NEW w \in WorkerIds, wpc[w] \in {"search", "warm"}
              PROVE  wpc'[w] = wpc[w]
  OBVIOUS
<1>1. CASE \/ \E t \in Tasks : Enqueue(t) \/ EnqueueFull(t)
           \/ Subscribe
           \/ \E c \in Controllers : BeginStop(c) \/ StopStep(c)
  BY <1>1 DEF Enqueue, EnqueueFull, Subscribe, BeginStop, StopStep, ResumeStop, FinishStop,
              workerVars
<1>2. ASSUME NEW c \in Controllers, Start(c) PROVE wpc'[w] = wpc[w]
  <2>1. ~(w > spawned) /\ spawned \in Nat
    BY DEF TypeInv, TypeOK, WorkersOK
  <2>2. w \notin (spawned + 1)..(spawned + WorkerCount)
    BY <2>1 DEF WorkerIds
  <2>. QED  BY <1>2, <2>2 DEF Start
<1>3. ASSUME NEW v \in WorkerIds,
             TakeTask(v) \/ TakeSentinel(v) \/ CheckEnds(v) \/ Notify(v) \/ EndTask(v)
      PROVE  wpc'[w] = wpc[w]
  BY <1>3 DEF TakeTask, TakeSentinel, CheckEnds, Notify, EndTask, TypeInv, TypeOK
<1>. QED  BY <1>1, <1>2, <1>3 DEF Accept, QuietStep, Take

\* A write begins the refresh of its task with what is outdated by then.
LEMMA WriteRefresh ==
    ASSUME TypeInv, StoreTypes, RefreshInv, NEW w \in WorkerIds,
           WriteReturns(w) \/ WriteRaises(w)
    PROVE  StoreTypes' /\ RefreshInv'
<1>1. /\ wpc[w] = "write" /\ wtask[w] \in Tasks /\ Target[wtask[w]] \in Memories
      /\ found' = found
      /\ \A v \in WorkerIds : v # w => wpc'[v] = wpc[v]
  <2>1. WriteSucceeds(w) \/ WriteFails(w)
    BY DEF WriteReturns, WriteRaises
  <2>2. wpc[w] = "write" /\ \A v \in WorkerIds : v # w => wpc'[v] = wpc[v]
    BY <2>1 DEF WriteSucceeds, WriteFails, TypeInv, TypeOK
  <2>3. wtask[w] \in Tasks
    BY <2>2 DEF TypeInv, TypeOK, WorkersOK, ProcessStates
  <2>. QED  BY <2>2, <2>3 DEF WriteReturns, WriteRaises
<1>2. /\ ltm' \in [Memories -> Tasks \cup {Absent}]
      /\ replaced \subseteq replaced' /\ replaced' \subseteq Tasks
  <2>1. CASE TakesEffect(wtask[w])
    <3>1. ltm' \in [Memories -> Tasks \cup {Absent}]
      BY <1>1, <2>1 DEF TakesEffect, StoreTypes
    <3>2. ltm[Target[wtask[w]]] \in Tasks \cup {Absent}
      BY <1>1 DEF StoreTypes
    <3>3. replaced \subseteq replaced' /\ replaced' \subseteq Tasks
      BY <2>1, <3>2 DEF TakesEffect, StoreTypes, MemoriesAssumption
    <3>. QED  BY <3>1, <3>3
  <2>2. CASE NoEffect
    BY <2>2 DEF NoEffect, StoreTypes
  <2>. QED  BY <2>1, <2>2 DEF WriteReturns, WriteRaises
<1>3. /\ outdated' \in [WorkerIds -> SUBSET Tasks]
      /\ outdated'[w] \subseteq replaced'
      /\ \A v \in WorkerIds : v # w => outdated'[v] = outdated[v]
  <2>1. CASE WriteReturns(w)
    BY <1>2, <2>1 DEF WriteReturns, StoreTypes
  <2>2. CASE WriteRaises(w)
    BY <1>2, <2>2 DEF WriteRaises, StoreTypes, RefreshInv, RefreshOf
  <2>. QED  BY <2>1, <2>2
<1>4. ASSUME NEW v \in WorkerIds PROVE RefreshOf(v)'
  <2>1. Values(found[v])' = Values(found[v])
    BY <1>1 DEF Values
  <2>2. CASE v = w
    <3>1. Values(found[v]) = {}
      BY <1>1, <2>2 DEF RefreshInv, RefreshOf
    <3>. QED  BY <1>3, <2>1, <2>2, <3>1 DEF RefreshOf
  <2>3. CASE v # w
    BY <1>1, <1>2, <1>3, <2>1, <2>3 DEF RefreshInv, RefreshOf
  <2>. QED  BY <2>2, <2>3
<1>. QED  BY <1>1, <1>2, <1>3, <1>4 DEF StoreTypes, RefreshInv

\* A search finds nothing that is outdated: the LTM holds none of it any more.
LEMMA SearchRefresh ==
    ASSUME StoreTypes, EffectInv, RefreshInv, NEW w \in WorkerIds, SearchReads(w)
    PROVE  StoreTypes' /\ RefreshInv'
<1>1. PICK S \in SUBSET Memories : found' = [found EXCEPT ![w] = Part(ltm, S)]
  BY DEF SearchReads
<1>2. /\ wpc[w] = "search" /\ wpc' = wpc /\ UNCHANGED <<ltm, replaced, outdated>>
  BY DEF SearchReads, vars, workerVars, effectVars
<1>3. Values(ltm) \cap replaced = {}
  BY DEF Values, StoreTypes, EffectInv
<1>4. Values(Part(ltm, S)) \subseteq Values(ltm)
  BY ValuesOfPart
<1>5. found'[w] = Part(ltm, S) /\ \A v \in WorkerIds : v # w => found'[v] = found[v]
  BY <1>1 DEF StoreTypes
<1>6. ASSUME NEW v \in WorkerIds PROVE RefreshOf(v)'
  <2>1. CASE v = w
    <3>1. Values(found[v])' = Values(Part(ltm, S))
      BY <1>5, <2>1 DEF Values
    <3>2. outdated[v] \subseteq replaced
      BY DEF RefreshInv, RefreshOf
    <3>. QED  BY <1>2, <1>3, <1>4, <2>1, <3>1, <3>2 DEF RefreshOf
  <2>2. CASE v # w
    <3>1. Values(found[v])' = Values(found[v])
      BY <1>5, <2>2 DEF Values
    <3>. QED  BY <1>2, <3>1 DEF RefreshInv, RefreshOf
  <2>. QED  BY <2>1, <2>2
<1>7. found' = [v \in WorkerIds |-> found'[v]]
  BY <1>1 DEF StoreTypes
<1>. QED  BY <1>2, <1>6, <1>7 DEF StoreTypes, RefreshInv

\* The end of a refresh forgets what it found.
LEMMA EndRefresh ==
    ASSUME TypeInv, StoreTypes, RefreshInv, NEW w \in WorkerIds,
           SearchEndsIn(w, "notify") \/ WarmEnds(w), Forget(w), UNCHANGED <<ltm, replaced>>
    PROVE  StoreTypes' /\ RefreshInv'
<1>1. \A v \in WorkerIds : v # w => wpc'[v] = wpc[v]
  BY DEF SearchEndsIn, WarmEnds, TypeInv, TypeOK
<1>2. /\ found' = [found EXCEPT ![w] = Empty]
      /\ outdated' = [outdated EXCEPT ![w] = {}]
  BY DEF Forget
<1>3. /\ found'[w] = Empty /\ outdated'[w] = {}
      /\ \A v \in WorkerIds : v # w => found'[v] = found[v] /\ outdated'[v] = outdated[v]
  BY <1>2 DEF StoreTypes
<1>4. ASSUME NEW v \in WorkerIds PROVE RefreshOf(v)'
  <2>1. CASE v = w
    <3>1. Values(found[v])' = {}
      BY <1>3, <2>1, ValuesOfEmpty DEF Values
    <3>. QED  BY <1>3, <2>1, <3>1 DEF RefreshOf
  <2>2. CASE v # w
    <3>1. Values(found[v])' = Values(found[v])
      BY <1>3, <2>2 DEF Values
    <3>. QED  BY <1>1, <1>3, <2>2, <3>1 DEF RefreshInv, RefreshOf
  <2>. QED  BY <2>1, <2>2
<1>5. StoreTypes'
  <2>1. found' = [v \in WorkerIds |-> found'[v]]
    BY <1>2 DEF StoreTypes
  <2>2. outdated' \in [WorkerIds -> SUBSET Tasks]
    BY <1>2 DEF StoreTypes
  <2>. QED  BY <2>1, <2>2 DEF StoreTypes
<1>. QED  BY <1>4, <1>5 DEF RefreshInv

\* Every step of the composition.
LEMMA RefreshStep ==
    ASSUME TypeInv, StoreTypes, EffectInv, RefreshInv, [PipelineNext]_pipelineVars
    PROVE  StoreTypes' /\ RefreshInv'
<1>1. CASE (\E t \in Tasks : Accept(t)) \/ QuietStep \/ (\E v \in WorkerIds : Take(v))
  <2>1. UNCHANGED <<ltm, replaced, found, outdated>>
    BY <1>1 DEF Accept, QuietStep, Take, storeVars, effectVars
  <2>. QED  BY <1>1, <2>1, RefreshGoesOn, RefreshFrame
<1>2. CASE \/ Expire
           \/ \E k \in Markers : UsageRead(k) \/ UsageWrite(k)
           \/ UNCHANGED pipelineVars
  <2>1. UNCHANGED <<ltm, replaced, found, outdated, wpc>>
    BY <1>2 DEF Expire, UsageRead, UsageWrite, pipelineVars, vars, workerVars, storeVars,
                effectVars
  <2>. QED  BY <2>1, RefreshFrame
<1>3. ASSUME NEW w \in WorkerIds, StoreStep(w) PROVE StoreTypes' /\ RefreshInv'
  <2>1. CASE WriteReturns(w) \/ WriteRaises(w)
    BY <2>1, WriteRefresh
  <2>2. CASE SearchReads(w)
    BY <2>2, SearchRefresh
  <2>3. CASE SearchReturns(w)
    <3>1. UNCHANGED <<ltm, replaced, found, outdated>>
      BY <2>3 DEF SearchReturns, storeVars, effectVars
    <3>2. \A v \in WorkerIds : wpc[v] \in {"search", "warm"} => wpc'[v] \in {"search", "warm"}
      BY <2>3 DEF SearchReturns, SearchEndsIn, TypeInv, TypeOK
    <3>. QED  BY <3>1, <3>2, RefreshFrame
  <2>4. CASE SearchRaises(w) \/ SearchReturnsAndWarms(w) \/ WarmReturns(w) \/ WarmSwallows(w)
    <3>1. /\ SearchEndsIn(w, "notify") \/ WarmEnds(w)
          /\ Forget(w)
          /\ UNCHANGED <<ltm, replaced>>
      BY <2>4 DEF SearchRaises, SearchReturnsAndWarms, WarmReturns, WarmSwallows
    <3>. QED  BY <3>1, EndRefresh
  <2>. QED  BY <1>3, <2>1, <2>2, <2>3, <2>4 DEF StoreStep
<1>. QED  BY <1>1, <1>2, <1>3 DEF PipelineNext

\* Only a write that returned or raised changes the LTM, and only one that returned
\* counts as applied.
LEMMA EffectStep ==
    ASSUME PipelineInv, [PipelineNext]_pipelineVars
    PROVE  EffectInv'
<1>. USE DEF PipelineInv
<1>1. ASSUME NEW w \in WorkerIds, WriteReturns(w) \/ WriteRaises(w) PROVE EffectInv'
  <2>1. CASE TakesEffect(wtask[w])
    BY <1>1, <2>1, WriteEffect
  <2>2. CASE NoEffect /\ WriteRaises(w)
    <3>1. UNCHANGED <<ltm, replaced, applied>>
      BY <2>2 DEF NoEffect, WriteRaises, WriteFails, historyVars
    <3>. QED  BY <3>1, EffectFrame
  <2>. QED  BY <1>1, <2>1, <2>2 DEF WriteReturns, WriteRaises
<1>2. CASE ~\E w \in WorkerIds : WriteReturns(w) \/ WriteRaises(w)
  <2>1. UNCHANGED <<ltm, replaced>>
    BY <1>2 DEF PipelineNext, Accept, QuietStep, Take, StoreStep, SearchReads, SearchRaises,
                SearchReturns, SearchReturnsAndWarms, WarmReturns, WarmSwallows, Expire,
                UsageRead, UsageWrite, pipelineVars, storeVars, effectVars
  <2>2. applied' = applied
    BY <1>2 DEF PipelineNext, Accept, Enqueue, QuietStep, EnqueueFull, Subscribe, Start, BeginStop,
                StopStep, ResumeStop, FinishStop, TakeSentinel, CheckEnds, Notify, EndTask, Take,
                TakeTask, StoreStep, SearchReads, SearchRaises, SearchEndsIn, SearchReturns,
                SearchReturnsAndWarms, WarmReturns, WarmSwallows, WarmEnds, Expire, UsageRead,
                UsageWrite, pipelineVars, vars, historyVars
  <2>. QED  BY <2>1, <2>2, EffectFrame
<1>. QED  BY <1>1, <1>2

\* The invariant of the composition, for every number of workers.
THEOREM PipelineHolds == PipelineSpec => []PipelineInv
<1>1. PipelineInit => OrderTypes /\ OrderInv /\ StoreTypes /\ EffectInv /\ RefreshInv
  <2>. SUFFICES ASSUME PipelineInit
                PROVE  OrderTypes /\ OrderInv /\ StoreTypes /\ EffectInv /\ RefreshInv
    OBVIOUS
  <2>1. /\ queue = <<>> /\ wtask = [w \in WorkerIds |-> NoTask] /\ done = {} /\ applied = {}
        /\ wpc = [w \in WorkerIds |-> "none"]
    BY DEF PipelineInit, Init
  <2>2. Held = {} /\ Queued = {} /\ Len(queue) = 0
    BY <2>1 DEF Held, Queued, RangeOf
  <2>3. OrderTypes /\ OrderInv
    BY <2>1, <2>2 DEF PipelineInit, OrderTypes, OrderInv
  <2>4. StoreTypes
    BY DEF PipelineInit, StoreTypes
  <2>5. EffectInv
    BY <2>1 DEF PipelineInit, EffectInv, LtmKeepsOrder
  <2>6. RefreshInv
    BY ValuesOfEmpty DEF PipelineInit, RefreshInv, RefreshOf
  <2>. QED  BY <2>3, <2>4, <2>5, <2>6
<1>2. PipelineSpec => Spec
  BY RunsProcessor, PTL DEF PipelineSpec, Spec
<1>3. PipelineInv /\ [PipelineNext]_pipelineVars =>
          OrderTypes' /\ OrderInv' /\ StoreTypes' /\ EffectInv' /\ RefreshInv'
  BY OrderStep, RefreshStep, EffectStep DEF PipelineInv
<1>. QED  BY <1>1, <1>2, <1>3, TypeCorrect, Conservation, PTL DEF PipelineSpec, PipelineInv

\* However many workers apply them, and whatever they suspend or fail in: what a task
\* made of a memory is overwritten only by a later task or by one in process with it.
THEOREM LtmHolds == PipelineSpec => []LtmKeepsOrder
BY PipelineHolds, PTL DEF PipelineInv, EffectInv

\* Whatever the search of a refresh leaves out, and whatever happens until its end, it
\* brings back nothing that was replaced by the time of the write of its task.
THEOREM RefreshHolds == PipelineSpec => RefreshBringsNothingBack
<1>1. ASSUME PipelineInv, [PipelineNext]_pipelineVars, NEW w \in WorkerIds,
             wpc[w] \in {"search", "warm"}, wpc'[w] = "notify", hot' # hot
      PROVE  Values(hot') \cap outdated[w] = {}
  <2>. USE <1>1 DEF PipelineInv
  <2>1. ~((\E t \in Tasks : Accept(t)) \/ QuietStep \/ (\E v \in WorkerIds : Take(v)))
    BY RefreshGoesOn
  <2>2. ~(Expire \/ (\E k \in Markers : UsageRead(k) \/ UsageWrite(k)) \/ UNCHANGED pipelineVars)
    BY DEF Expire, UsageRead, UsageWrite, pipelineVars, vars, workerVars
  <2>3. PICK v \in WorkerIds : StoreStep(v)
    BY <2>1, <2>2 DEF PipelineNext
  <2>4. SearchReturnsAndWarms(v) \/ WarmReturns(v) \/ WarmSwallows(v)
    BY <2>3 DEF StoreStep, WriteReturns, WriteRaises, SearchReads, SearchReturns, SearchRaises,
                storeVars
  <2>5. v = w
    BY <2>4 DEF SearchReturnsAndWarms, SearchEndsIn, WarmReturns, WarmSwallows, WarmEnds,
                TypeInv, TypeOK
  <2>6. hot' = Cacheable(found[w])
    BY <2>4, <2>5 DEF SearchReturnsAndWarms, WarmReturns, WarmSwallows, WarmCache
  <2>7. Values(hot') \subseteq Values(found[w])
    BY <2>6, ValuesOfPart DEF Cacheable
  <2>. QED  BY <2>7 DEF RefreshInv, RefreshOf
<1>2. PipelineInv /\ [PipelineNext]_pipelineVars =>
          [\A w \in WorkerIds :
              wpc[w] \in {"search", "warm"} /\ wpc'[w] = "notify" /\ hot' # hot =>
                  Values(hot') \cap outdated[w] = {}]_pipelineVars
  BY <1>1
<1>. QED  BY <1>2, PipelineHolds, PTL DEF PipelineSpec, RefreshBringsNothingBack
=============================================================================

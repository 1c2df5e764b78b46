-------------------------- MODULE ThreadPoolProofs --------------------------
(***************************************************************************)
(* The safety of the thread pool for any number of workers, submitters and *)
(* tasks.  TypeOK alone is not inductive: WorkerExecute keeps the types    *)
(* only because a worker that executes has a job, and QueueUserWorkItem    *)
(* because a submitter that pushes has a task.  PoolInv says so.           *)
(***************************************************************************)
EXTENDS ThreadPool, SequenceTheorems, TLAPS

IInv == TypeOK /\ PoolInv

LEMMA IInvInit == Init => IInv
<1> SUFFICES ASSUME Init PROVE IInv
    OBVIOUS
<1>1. TypeOK
  <2>1. tasks \in Seq(Tasks) /\ pushed \in Seq(Tasks) /\ popped \in Seq(Tasks)
    BY DEF Init
  <2>2. worker \in [Workers -> WorkerPC] /\ job \in [Workers -> Tasks \cup {NoTask}]
    BY DEF Init, WorkerPC
  <2>3. /\ submitter \in [Submitters -> SubmitterPC]
        /\ item \in [Submitters -> Tasks \cup {NoTask}]
    BY DEF Init, SubmitterPC
  <2>4. executed \in [Tasks -> Nat] /\ deleted \in SUBSET Tasks
    BY DEF Init
  <2> QED BY <2>1, <2>2, <2>3, <2>4 DEF Init, TypeOK, OwnerPC
<1>2. PoolInv BY DEF Init, PoolInv
<1> QED BY <1>1, <1>2 DEF IInv

LEMMA WorkerStep ==
    ASSUME IInv, NEW w \in Workers, WorkerThread(w)
    PROVE  IInv'
<1> USE PoolAssumption DEF IInv, TypeOK, PoolInv, WorkerPC, SubmitterPC,
                           OwnerPC, history
<1>1. CASE WorkerCheck(w) BY <1>1 DEF WorkerCheck
<1>2. CASE WorkerLock(w) BY <1>2 DEF WorkerLock
<1>3. CASE WorkerWait(w) BY <1>3 DEF WorkerWait
<1>4. CASE WorkerTake(w)
  <2>1. tasks # <<>> => Head(tasks) \in Tasks /\ Tail(tasks) \in Seq(Tasks)
    OBVIOUS
  <2>2. CASE run
    <3>1. TypeOK'
      <4>1. popped' \in Seq(Tasks)
        <5>1. popped' = Append(popped, Head(tasks)) BY <1>4, <2>2 DEF WorkerTake
        <5>2. Head(tasks) \in Tasks BY <1>4, <2>1 DEF WorkerTake
        <5> QED BY <5>1, <5>2
      <4>2. job' \in [Workers -> Tasks \cup {NoTask}]
        BY <1>4, <2>1, <2>2 DEF WorkerTake
      <4>3. tasks' \in Seq(Tasks) BY <1>4, <2>1, <2>2 DEF WorkerTake
      <4>4. worker' \in [Workers -> WorkerPC] BY <1>4 DEF WorkerTake
      <4> QED BY <1>4, <4>1, <4>2, <4>3, <4>4 DEF WorkerTake
    <3>2. PoolInv' BY <1>4, <2>1, <2>2 DEF WorkerTake
    <3> QED BY <3>1, <3>2
  <2>3. CASE ~run BY <1>4, <2>3 DEF WorkerTake
  <2> QED BY <2>2, <2>3
<1>5. CASE WorkerRelock(w) BY <1>5 DEF WorkerRelock
<1>6. CASE WorkerUnlock(w) BY <1>6 DEF WorkerUnlock
<1>7. CASE WorkerExecute(w)
  <2>1. job[w] \in Tasks BY <1>7 DEF WorkerExecute
  <2> QED BY <1>7, <2>1 DEF WorkerExecute
<1> QED BY <1>1, <1>2, <1>3, <1>4, <1>5, <1>6, <1>7 DEF WorkerThread

LEMMA SubmitterStep ==
    ASSUME IInv, NEW s \in Submitters, SubmitterThread(s)
    PROVE  IInv'
<1> USE PoolAssumption DEF IInv, TypeOK, PoolInv, WorkerPC, SubmitterPC,
                           OwnerPC, history
<1>1. CASE SubmitterLock(s) BY <1>1 DEF SubmitterLock
<1>2. CASE SubmitterPush(s)
  <2>1. item[s] \in Tasks BY <1>2 DEF SubmitterPush
  <2> QED BY <1>2, <2>1 DEF SubmitterPush
<1>3. CASE SubmitterSignal(s) BY <1>3 DEF SubmitterSignal
<1> QED BY <1>1, <1>2, <1>3 DEF SubmitterThread

LEMMA IInvStep == IInv /\ [Next]_vars => IInv'
<1> SUFFICES ASSUME IInv, [Next]_vars PROVE IInv'
    OBVIOUS
<1> USE PoolAssumption DEF IInv, TypeOK, PoolInv, WorkerPC, SubmitterPC,
                           OwnerPC, history
<1>1. CASE Start BY <1>1 DEF Start
<1>2. CASE StopFlag BY <1>2 DEF StopFlag
<1>3. CASE StopBroadcast BY <1>3 DEF StopBroadcast
<1>4. CASE StopJoin BY <1>4 DEF StopJoin
<1>5. CASE Destroy BY <1>5 DEF Destroy
<1>6. ASSUME NEW w \in Workers, CreateThread(w) PROVE IInv'
    BY <1>6 DEF CreateThread
<1>7. ASSUME NEW w \in Workers, SpuriousWakeup(w) PROVE IInv'
    BY <1>7 DEF SpuriousWakeup
<1>8. ASSUME NEW s \in Submitters, NEW t \in Tasks, QueueUserWorkItem(s, t)
      PROVE IInv'
    BY <1>8 DEF QueueUserWorkItem
<1>9. CASE UNCHANGED vars BY <1>9 DEF vars
<1> QED BY <1>1, <1>2, <1>3, <1>4, <1>5, <1>6, <1>7, <1>8, <1>9,
           WorkerStep, SubmitterStep DEF Next

\* The pool never leaves its types (threadpool.h:36-43), for any number of
\* threads and tasks.
THEOREM TypeCorrect == Spec => []TypeOK
<1>1. IInv => TypeOK BY DEF IInv
<1> QED BY IInvInit, IInvStep, <1>1, PTL DEF Spec
-----------------------------------------------------------------------------
LEMMA NoSleepOnWorkStep == IInv /\ NoSleepOnWork /\ [Next]_vars => NoSleepOnWork'
<1> SUFFICES ASSUME IInv, NoSleepOnWork, [Next]_vars PROVE NoSleepOnWork'
    OBVIOUS
<1> USE PoolAssumption DEF IInv, TypeOK, PoolInv, NoSleepOnWork, history
<1>1. CASE Start BY <1>1 DEF Start
<1>2. CASE StopFlag BY <1>2 DEF StopFlag
<1>3. CASE StopBroadcast BY <1>3 DEF StopBroadcast
<1>4. CASE StopJoin BY <1>4 DEF StopJoin
<1>5. CASE Destroy BY <1>5 DEF Destroy
<1>6. ASSUME NEW w \in Workers, CreateThread(w) PROVE NoSleepOnWork'
    BY <1>6 DEF CreateThread
<1>7. ASSUME NEW w \in Workers, SpuriousWakeup(w) PROVE NoSleepOnWork'
    BY <1>7 DEF SpuriousWakeup
<1>8. ASSUME NEW w \in Workers, WorkerThread(w) PROVE NoSleepOnWork'
    BY <1>8 DEF WorkerThread, WorkerCheck, WorkerLock, WorkerWait, WorkerTake,
                WorkerRelock, WorkerUnlock, WorkerExecute
<1>9. ASSUME NEW s \in Submitters, SubmitterThread(s) PROVE NoSleepOnWork'
  <2>1. CASE SubmitterLock(s) BY <2>1 DEF SubmitterLock
  <2>2. CASE SubmitterPush(s) BY <2>2 DEF SubmitterPush
  <2>3. CASE SubmitterSignal(s)
    <3>1. ASSUME NEW w \in Workers, worker[w] = "waiting",
                 worker' = [worker EXCEPT ![w] = "relock"]
          PROVE  NoSleepOnWork'
      BY <3>1
    <3>2. ASSUME \A w \in Workers : worker[w] # "waiting", worker' = worker
          PROVE  NoSleepOnWork'
      BY <2>3, <3>2 DEF SubmitterSignal
    <3> QED BY <2>3, <3>1, <3>2 DEF SubmitterSignal
  <2> QED BY <1>9, <2>1, <2>2, <2>3 DEF SubmitterThread
<1>10. ASSUME NEW s \in Submitters, NEW t \in Tasks, QueueUserWorkItem(s, t)
       PROVE NoSleepOnWork'
    BY <1>10 DEF QueueUserWorkItem
<1>11. CASE UNCHANGED vars BY <1>11 DEF vars
<1> QED BY <1>1, <1>2, <1>3, <1>4, <1>5, <1>6, <1>7, <1>8, <1>9, <1>10, <1>11
        DEF Next

\* A signal sent after the unlock (threadpool.cpp:72-73) loses no wake-up for
\* work: a running pool with a non-empty queue has somebody awake or a signal
\* on its way, however many threads there are.
THEOREM NoLostWork == Spec => []NoSleepOnWork
<1>1. Init => NoSleepOnWork BY DEF Init, NoSleepOnWork
<1> QED BY IInvInit, IInvStep, NoSleepOnWorkStep, <1>1, PTL DEF Spec
-----------------------------------------------------------------------------
LEMMA StoppedIsQuietStep ==
    IInv /\ StoppedIsQuiet /\ [Next]_vars => StoppedIsQuiet'
<1> SUFFICES ASSUME IInv, StoppedIsQuiet, [Next]_vars PROVE StoppedIsQuiet'
    OBVIOUS
<1> USE PoolAssumption DEF IInv, TypeOK, PoolInv, StoppedIsQuiet, history
<1>1. CASE Start \/ StopFlag \/ StopBroadcast
    BY <1>1 DEF Start, StopFlag, StopBroadcast
<1>2. CASE StopJoin BY <1>2 DEF StopJoin
<1>3. CASE Destroy BY <1>3 DEF Destroy
<1>4. ASSUME NEW w \in Workers, CreateThread(w) \/ SpuriousWakeup(w)
      PROVE StoppedIsQuiet'
    BY <1>4 DEF CreateThread, SpuriousWakeup
<1>5. ASSUME NEW w \in Workers, WorkerThread(w) PROVE StoppedIsQuiet'
    BY <1>5 DEF WorkerThread, WorkerCheck, WorkerLock, WorkerWait, WorkerTake,
                WorkerRelock, WorkerUnlock, WorkerExecute
<1>6. ASSUME NEW s \in Submitters, SubmitterThread(s) PROVE StoppedIsQuiet'
    BY <1>6 DEF SubmitterThread, SubmitterLock, SubmitterPush, SubmitterSignal
<1>7. ASSUME NEW s \in Submitters, NEW t \in Tasks, QueueUserWorkItem(s, t)
      PROVE StoppedIsQuiet'
    BY <1>7 DEF QueueUserWorkItem
<1>8. CASE UNCHANGED vars BY <1>8 DEF vars
<1> QED BY <1>1, <1>2, <1>3, <1>4, <1>5, <1>6, <1>7, <1>8 DEF Next

\* When Stop has returned (threadpool.cpp:63-66) no worker is inside a task.
THEOREM QuietAfterStop == Spec => []StoppedIsQuiet
<1>1. Init => StoppedIsQuiet BY DEF Init, StoppedIsQuiet
<1> QED BY IInvInit, IInvStep, StoppedIsQuietStep, <1>1, PTL DEF Spec
-----------------------------------------------------------------------------
\* Appending to the right part of a concatenation.
LEMMA ConcatAppend ==
    ASSUME NEW S, NEW s \in Seq(S), NEW t \in Seq(S), NEW e \in S
    PROVE  s \o Append(t, e) = Append(s \o t, e)
<1>1. Append(t, e) = t \o <<e>> BY AppendIsConcat
<1>2. s \o t \in Seq(S) BY ConcatProperties
<1>3. Append(s \o t, e) = (s \o t) \o <<e>> BY <1>2, AppendIsConcat
<1>4. <<e>> \in Seq(S) OBVIOUS
<1> QED BY <1>1, <1>3, <1>4, ConcatAssociative

\* Moving the head of the right part to the end of the left part.
LEMMA MoveHead ==
    ASSUME NEW S, NEW s \in Seq(S), NEW t \in Seq(S), t # <<>>
    PROVE  Append(s, Head(t)) \o Tail(t) = s \o t
<1>1. Head(t) \in S /\ Tail(t) \in Seq(S) /\ t = <<Head(t)>> \o Tail(t)
    BY HeadTailProperties
<1>2. Append(s, Head(t)) = s \o <<Head(t)>> BY <1>1, AppendIsConcat
<1>3. <<Head(t)>> \in Seq(S) BY <1>1
<1> QED BY <1>1, <1>2, <1>3, ConcatAssociative

LEMMA FifoOrderStep == IInv /\ FifoOrder /\ [Next]_vars => FifoOrder'
<1> SUFFICES ASSUME IInv, FifoOrder, [Next]_vars PROVE FifoOrder'
    OBVIOUS
<1> USE DEF FifoOrder, history
<1>1. CASE Start \/ StopFlag \/ StopBroadcast \/ StopJoin
    BY <1>1 DEF Start, StopFlag, StopBroadcast, StopJoin
<1>2. CASE Destroy BY <1>2 DEF Destroy
<1>3. ASSUME NEW w \in Workers, CreateThread(w) PROVE FifoOrder'
    BY <1>3 DEF CreateThread
<1>4. ASSUME NEW w \in Workers, SpuriousWakeup(w) PROVE FifoOrder'
    BY <1>4 DEF SpuriousWakeup
<1>5. ASSUME NEW w \in Workers, WorkerThread(w) PROVE FifoOrder'
  <2>1. CASE WorkerTake(w)
    <3>1. CASE run
      <4>1. Append(popped, Head(tasks)) \o Tail(tasks) = popped \o tasks
        BY <2>1, MoveHead DEF WorkerTake, IInv, TypeOK
      <4> QED BY <2>1, <3>1, <4>1 DEF WorkerTake
    <3>2. CASE ~run BY <2>1, <3>2 DEF WorkerTake
    <3> QED BY <3>1, <3>2
  <2>2. CASE ~WorkerTake(w)
    BY <1>5, <2>2 DEF WorkerThread, WorkerCheck, WorkerLock, WorkerWait,
                      WorkerRelock, WorkerUnlock, WorkerExecute
  <2> QED BY <2>1, <2>2
<1>6. ASSUME NEW s \in Submitters, SubmitterThread(s) PROVE FifoOrder'
  <2>1. CASE SubmitterPush(s)
    <3>1. item[s] \in Tasks BY <2>1 DEF SubmitterPush, IInv, TypeOK, PoolInv
    <3>2. popped \o Append(tasks, item[s]) = Append(popped \o tasks, item[s])
      BY <3>1, ConcatAppend DEF IInv, TypeOK
    <3> QED BY <2>1, <3>2 DEF SubmitterPush
  <2>2. CASE SubmitterLock(s) \/ SubmitterSignal(s)
    BY <2>2 DEF SubmitterLock, SubmitterSignal
  <2> QED BY <1>6, <2>1, <2>2 DEF SubmitterThread
<1>7. ASSUME NEW s \in Submitters, NEW t \in Tasks, QueueUserWorkItem(s, t)
      PROVE FifoOrder'
    BY <1>7 DEF QueueUserWorkItem
<1>8. CASE UNCHANGED vars BY <1>8 DEF vars
<1> QED BY <1>1, <1>2, <1>3, <1>4, <1>5, <1>6, <1>7, <1>8 DEF Next

\* Whatever the number of workers, tasks leave the queue in the order
\* QueueUserWorkItem pushed them (threadpool.cpp:71, 85-86).
THEOREM TakenInOrder == Spec => []FifoOrder
<1>1. Init => FifoOrder BY DEF Init, FifoOrder
<1> QED BY IInvInit, IInvStep, FifoOrderStep, <1>1, PTL DEF Spec
-----------------------------------------------------------------------------
(* The pool implements the work queue.  PlaceInv is needed: Submit asks that *)
(* the task is nowhere yet, Finish that it is in one hand only.              *)

QInv == IInv /\ StoppedIsQuiet /\ PlaceInv

LEMMA TailElements ==
    ASSUME NEW S, NEW q \in Seq(S), q # <<>>
    PROVE  /\ 1 \in DOMAIN q /\ Head(q) = q[1]
           /\ \A i \in DOMAIN Tail(q) : /\ i + 1 \in DOMAIN q /\ i + 1 # 1
                                        /\ i \in Nat
                                        /\ Tail(q)[i] = q[i + 1]
    OBVIOUS

LEMMA AppendElements ==
    ASSUME NEW S, NEW q \in Seq(S), NEW e \in S
    PROVE  /\ \A i \in DOMAIN Append(q, e) :
                 \/ i \in DOMAIN q /\ Append(q, e)[i] = q[i]
                 \/ i = Len(q) + 1 /\ Append(q, e)[i] = e
           /\ \A i \in DOMAIN q : /\ i \in DOMAIN Append(q, e)
                                  /\ Append(q, e)[i] = q[i]
           /\ Len(q) + 1 \in DOMAIN Append(q, e)
           /\ Append(q, e)[Len(q) + 1] = e
    OBVIOUS

LEMMA PlaceTake ==
    ASSUME QInv, NEW w \in Workers, WorkerTake(w)
    PROVE  PlaceInv'
<1> USE PoolAssumption
<1>1. CASE ~run
    BY <1>1 DEF QInv, WorkerTake, PlaceInv, Pushed
<1>2. CASE run
  <2>1. tasks \in Seq(Tasks) /\ tasks # <<>> /\ job \in [Workers -> Tasks \cup {NoTask}]
    BY DEF QInv, IInv, TypeOK, WorkerTake
  <2>2. /\ tasks' = Tail(tasks) /\ job' = [job EXCEPT ![w] = Head(tasks)]
        /\ UNCHANGED <<item, submitter, owner, pushed, executed, deleted>>
    BY <1>2 DEF WorkerTake
  <2>3. /\ 1 \in DOMAIN tasks /\ Head(tasks) = tasks[1]
        /\ \A i \in DOMAIN tasks' : /\ i + 1 \in DOMAIN tasks /\ i + 1 # 1
                                    /\ i \in Nat /\ tasks'[i] = tasks[i + 1]
    BY <2>1, <2>2, TailElements
  <2>4. Pushed' = Pushed BY <2>2 DEF Pushed
  <2>5. PlaceInv BY DEF QInv
  <2>6. \A i, j \in DOMAIN tasks' : tasks'[i] = tasks'[j] => i = j
    <3> SUFFICES ASSUME NEW i \in DOMAIN tasks', NEW j \in DOMAIN tasks',
                        tasks'[i] = tasks'[j]
                 PROVE  i = j
        OBVIOUS
    <3>1. i + 1 = j + 1 BY <2>3, <2>5 DEF PlaceInv
    <3> QED BY <2>3, <3>1
  <2>7. \A i \in DOMAIN tasks' : tasks'[i] \in Pushed' /\ tasks'[i] \notin deleted'
    BY <2>2, <2>3, <2>4, <2>5 DEF PlaceInv
  <2>8. \A i \in DOMAIN tasks', v \in Workers : job'[v] # tasks'[i]
    BY <2>1, <2>2, <2>3, <2>5 DEF PlaceInv
  <2>9. \A u, v \in Workers : job'[u] = job'[v] /\ job'[v] # NoTask => u = v
    BY <2>1, <2>2, <2>3, <2>5 DEF PlaceInv
  <2>10. \A v \in Workers :
            job'[v] # NoTask => job'[v] \in Pushed' /\ job'[v] \notin deleted'
    BY <2>1, <2>2, <2>3, <2>4, <2>5 DEF PlaceInv
  <2>11. owner' # "destroyed"
    BY <1>2, <2>2 DEF QInv, IInv, PoolInv
  <2> QED
    BY <2>2, <2>4, <2>5, <2>6, <2>7, <2>8, <2>9, <2>10, <2>11 DEF PlaceInv
<1> QED BY <1>1, <1>2

LEMMA PlaceExecute ==
    ASSUME QInv, NEW w \in Workers, WorkerExecute(w)
    PROVE  PlaceInv'
<1> USE PoolAssumption
<1>1. /\ job \in [Workers -> Tasks \cup {NoTask}] /\ job[w] \in Tasks
      /\ executed \in [Tasks -> Nat] /\ job[w] # NoTask
    BY DEF QInv, IInv, TypeOK, PoolInv, WorkerExecute
<1>2. /\ job' = [job EXCEPT ![w] = NoTask] /\ deleted' = deleted \cup {job[w]}
      /\ executed' = [executed EXCEPT ![job[w]] = @ + 1]
      /\ UNCHANGED <<tasks, item, submitter, owner, pushed>>
    BY DEF WorkerExecute
<1>3. Pushed' = Pushed BY <1>2 DEF Pushed
<1>4. PlaceInv BY DEF QInv
<1>5. /\ \A i \in DOMAIN tasks' : tasks'[i] \in Pushed' /\ tasks'[i] \notin deleted'
      /\ \A i \in DOMAIN tasks', v \in Workers : job'[v] # tasks'[i]
  <2>1. \A i \in DOMAIN tasks : tasks[i] \in Pushed BY <1>4 DEF PlaceInv
  <2>2. \A i \in DOMAIN tasks : tasks[i] # NoTask
    BY DEF QInv, IInv, TypeOK
  <2> QED BY <1>1, <1>2, <1>3, <1>4, <2>1, <2>2 DEF PlaceInv
<1>6. /\ \A u, v \in Workers : job'[u] = job'[v] /\ job'[v] # NoTask => u = v
      /\ \A v \in Workers :
            job'[v] # NoTask => job'[v] \in Pushed' /\ job'[v] \notin deleted'
    BY <1>1, <1>2, <1>3, <1>4 DEF PlaceInv
<1>7. \A t \in Tasks : executed'[t] = 0 \/ t \in deleted'
    BY <1>1, <1>2, <1>4 DEF PlaceInv
<1>8. \A t \in deleted' : t \in Pushed' BY <1>1, <1>2, <1>3, <1>4 DEF PlaceInv
<1> QED BY <1>2, <1>3, <1>4, <1>5, <1>6, <1>7, <1>8 DEF PlaceInv

LEMMA PlacePush ==
    ASSUME QInv, NEW s \in Submitters, SubmitterPush(s)
    PROVE  PlaceInv'
<1> USE PoolAssumption
<1>1. /\ item \in [Submitters -> Tasks \cup {NoTask}] /\ item[s] \in Tasks
      /\ item[s] # NoTask /\ tasks \in Seq(Tasks) /\ pushed \in Seq(Tasks)
    BY DEF QInv, IInv, TypeOK, PoolInv, SubmitterPush
<1>2. /\ tasks' = Append(tasks, item[s]) /\ pushed' = Append(pushed, item[s])
      /\ item' = [item EXCEPT ![s] = NoTask]
      /\ UNCHANGED <<job, owner, executed, deleted>>
    BY DEF SubmitterPush
<1>3. PlaceInv BY DEF QInv
<1>4. Pushed' = Pushed \cup {item[s]}
    BY <1>1, <1>2, AppendElements DEF Pushed
<1>5. \A i \in DOMAIN tasks' :
         \/ i \in DOMAIN tasks /\ tasks'[i] = tasks[i]
         \/ i = Len(tasks) + 1 /\ tasks'[i] = item[s]
    BY <1>1, <1>2, AppendElements
<1>6. item[s] \notin Pushed BY <1>1, <1>3 DEF PlaceInv
<1>7. /\ \A i \in DOMAIN tasks : tasks[i] # item[s]
      /\ \A w \in Workers : job[w] # item[s]
      /\ item[s] \notin deleted
    BY <1>1, <1>3, <1>6 DEF PlaceInv
<1>8. \A i, j \in DOMAIN tasks' : tasks'[i] = tasks'[j] => i = j
    BY <1>3, <1>5, <1>7 DEF PlaceInv
<1>9. /\ \A i \in DOMAIN tasks' : tasks'[i] \in Pushed' /\ tasks'[i] \notin deleted'
      /\ \A i \in DOMAIN tasks', w \in Workers : job'[w] # tasks'[i]
    BY <1>2, <1>3, <1>4, <1>5, <1>7 DEF PlaceInv
<1>10. /\ \A r \in Submitters : item'[r] # NoTask => item'[r] \notin Pushed'
       /\ \A q, r \in Submitters : item'[q] = item'[r] /\ item'[r] # NoTask => q = r
    BY <1>1, <1>2, <1>3, <1>4 DEF PlaceInv
<1>11. owner' # "destroyed" BY <1>2, <1>3 DEF PlaceInv, SubmitterPush
<1> QED BY <1>2, <1>3, <1>4, <1>8, <1>9, <1>10, <1>11 DEF PlaceInv

LEMMA PlaceStep == QInv /\ [Next]_vars => PlaceInv'
<1> SUFFICES ASSUME QInv, [Next]_vars PROVE PlaceInv'
    OBVIOUS
<1> USE PoolAssumption DEF history
<1>1. CASE Start \/ StopFlag \/ StopBroadcast \/ StopJoin
    BY <1>1 DEF Start, StopFlag, StopBroadcast, StopJoin, QInv, PlaceInv, Pushed
<1>2. CASE Destroy
  <2>1. Pushed' = Pushed BY <1>2 DEF Destroy, Pushed
  <2>2. \A w \in Workers : job[w] = NoTask
    BY <1>2 DEF Destroy, QInv, IInv, PoolInv, StoppedIsQuiet
  <2>3. tasks' = <<>> /\ DOMAIN tasks' = {} BY <1>2 DEF Destroy
  <2> QED BY <1>2, <2>1, <2>2, <2>3 DEF Destroy, QInv, PlaceInv
<1>3. ASSUME NEW w \in Workers, CreateThread(w) \/ SpuriousWakeup(w)
      PROVE  PlaceInv'
    BY <1>3 DEF CreateThread, SpuriousWakeup, QInv, PlaceInv, Pushed
<1>4. ASSUME NEW w \in Workers, WorkerThread(w) PROVE PlaceInv'
  <2>1. CASE WorkerTake(w) BY <2>1, PlaceTake
  <2>2. CASE WorkerExecute(w) BY <2>2, PlaceExecute
  <2>3. CASE ~WorkerTake(w) /\ ~WorkerExecute(w)
    BY <1>4, <2>3 DEF WorkerThread, WorkerCheck, WorkerLock, WorkerWait,
                      WorkerRelock, WorkerUnlock, QInv, PlaceInv, Pushed
  <2> QED BY <2>1, <2>2, <2>3
<1>5. ASSUME NEW s \in Submitters, SubmitterThread(s) PROVE PlaceInv'
  <2>1. CASE SubmitterPush(s) BY <2>1, PlacePush
  <2>2. CASE SubmitterLock(s) \/ SubmitterSignal(s)
    BY <2>2 DEF SubmitterLock, SubmitterSignal, QInv, PlaceInv, Pushed,
                IInv, TypeOK
  <2> QED BY <1>5, <2>1, <2>2 DEF SubmitterThread
<1>6. ASSUME NEW s \in Submitters, NEW t \in Tasks, QueueUserWorkItem(s, t)
      PROVE  PlaceInv'
  <2>1. item \in [Submitters -> Tasks \cup {NoTask}]
    BY DEF QInv, IInv, TypeOK
  <2>2. Pushed' = Pushed BY <1>6 DEF QueueUserWorkItem, Pushed
  <2>3. t \notin Pushed BY <1>6 DEF QueueUserWorkItem, Pushed
  <2> QED BY <1>6, <2>1, <2>2, <2>3 DEF QueueUserWorkItem, QInv, PlaceInv
<1>7. CASE UNCHANGED vars BY <1>7 DEF vars, QInv, PlaceInv, Pushed
<1> QED BY <1>1, <1>2, <1>3, <1>4, <1>5, <1>6, <1>7 DEF Next

\* Every step of a thread is a step of the work queue or leaves it alone.
LEMMA QueueStep == QInv /\ [Next]_vars => [Queue!QNext]_(Queue!qvars)
<1> SUFFICES ASSUME QInv, [Next]_vars PROVE [Queue!QNext]_(Queue!qvars)
    OBVIOUS
<1> USE PoolAssumption DEF history, Queue!qvars
<1>1. CASE Start \/ StopFlag \/ StopBroadcast \/ StopJoin
    BY <1>1 DEF Start, StopFlag, StopBroadcast, StopJoin
<1>2. CASE Destroy
  <2>1. \A w \in Workers : job[w] = NoTask
    BY <1>2 DEF Destroy, QInv, IInv, PoolInv, StoppedIsQuiet
  <2>2. {job[w] : w \in Workers} \ {NoTask} = {} BY <2>1
  <2>3. Queue!Discard BY <1>2, <2>2 DEF Destroy, Queue!Discard, Queue!Queued
  <2> QED BY <2>3 DEF Queue!QNext
<1>3. ASSUME NEW w \in Workers, CreateThread(w) \/ SpuriousWakeup(w)
      PROVE  UNCHANGED Queue!qvars
    BY <1>3 DEF CreateThread, SpuriousWakeup
<1>4. ASSUME NEW w \in Workers, WorkerThread(w)
      PROVE  [Queue!QNext]_(Queue!qvars)
  <2>1. job \in [Workers -> Tasks \cup {NoTask}] /\ tasks \in Seq(Tasks)
    BY DEF QInv, IInv, TypeOK
  <2>2. CASE WorkerTake(w) /\ run
    <3>1. job[w] = NoTask BY <2>2 DEF QInv, IInv, PoolInv, WorkerTake
    <3>2. tasks # <<>> /\ Head(tasks) \in Tasks /\ Head(tasks) # NoTask
      BY <2>1, <2>2 DEF WorkerTake
    <3>3. job' = [job EXCEPT ![w] = Head(tasks)] BY <2>2 DEF WorkerTake
    <3>4. {job'[v] : v \in Workers} \ {NoTask}
            = ({job[v] : v \in Workers} \ {NoTask}) \cup {Head(tasks)}
      BY <2>1, <3>1, <3>2, <3>3
    <3>5. Queue!Take BY <2>2, <3>4 DEF WorkerTake, Queue!Take
    <3> QED BY <3>5 DEF Queue!QNext
  <2>3. CASE WorkerExecute(w)
    <3>1. job[w] \in Tasks /\ job[w] # NoTask
      BY <2>1, <2>3 DEF QInv, IInv, PoolInv, WorkerExecute
    <3>2. executed[job[w]] = 0 /\ executed \in [Tasks -> Nat]
      BY <3>1 DEF QInv, PlaceInv, IInv, TypeOK
    <3>3. job' = [job EXCEPT ![w] = NoTask] BY <2>3 DEF WorkerExecute
    <3>4. \A v \in Workers \ {w} : job[v] # job[w]
      BY <3>1 DEF QInv, PlaceInv
    <3>5. {job'[v] : v \in Workers} \ {NoTask}
            = ({job[v] : v \in Workers} \ {NoTask}) \ {job[w]}
      BY <2>1, <3>1, <3>3, <3>4
    <3>6. executed' = [executed EXCEPT ![job[w]] = 1]
      BY <2>3, <3>1, <3>2 DEF WorkerExecute
    <3>7. PICK t \in Tasks : t = job[w] BY <3>1
    <3>8. Queue!Finish(t)
      BY <2>3, <3>1, <3>2, <3>5, <3>6, <3>7 DEF WorkerExecute, Queue!Finish
    <3> QED BY <3>8 DEF Queue!QNext
  <2>4. CASE ~(WorkerTake(w) /\ run) /\ ~WorkerExecute(w)
    BY <1>4, <2>4 DEF WorkerThread, WorkerCheck, WorkerLock, WorkerWait,
                      WorkerTake, WorkerRelock, WorkerUnlock
  <2> QED BY <2>2, <2>3, <2>4
<1>5. ASSUME NEW s \in Submitters, SubmitterThread(s)
      PROVE  [Queue!QNext]_(Queue!qvars)
  <2>1. CASE SubmitterPush(s)
    <3>1. item[s] \in Tasks /\ item[s] # NoTask
      BY <2>1 DEF QInv, IInv, TypeOK, PoolInv, SubmitterPush
    <3>2. item[s] \notin Pushed BY <3>1 DEF QInv, PlaceInv
    <3>3. /\ \A i \in DOMAIN tasks : tasks[i] # item[s]
          /\ \A w \in Workers : job[w] # item[s]
          /\ item[s] \notin deleted
      BY <3>1, <3>2 DEF QInv, PlaceInv
    <3>4. owner # "destroyed" BY <2>1 DEF QInv, PlaceInv, SubmitterPush
    <3>5. Queue!Submit(item[s])
      BY <2>1, <3>1, <3>3, <3>4 DEF SubmitterPush, Queue!Submit, Queue!Queued
    <3> QED BY <3>1, <3>5 DEF Queue!QNext
  <2>2. CASE SubmitterLock(s) \/ SubmitterSignal(s)
    BY <2>2 DEF SubmitterLock, SubmitterSignal
  <2> QED BY <1>5, <2>1, <2>2 DEF SubmitterThread
<1>6. ASSUME NEW s \in Submitters, NEW t \in Tasks, QueueUserWorkItem(s, t)
      PROVE  UNCHANGED Queue!qvars
    BY <1>6 DEF QueueUserWorkItem
<1>7. CASE UNCHANGED vars BY <1>7 DEF vars
<1> QED BY <1>1, <1>2, <1>3, <1>4, <1>5, <1>6, <1>7 DEF Next

\* For any number of workers, submitters and tasks the pool is a work queue:
\* tasks are taken in the order of the pushes, executed at most once, and
\* freed once (threadpool.cpp:18-30, 68-99).
THEOREM PoolIsQueue == Spec => Implements
<1>1. Init => Queue!QInit
  <2> SUFFICES ASSUME Init PROVE Queue!QInit
      OBVIOUS
  <2>1. {job[w] : w \in Workers} \ {NoTask} = {} BY DEF Init
  <2> QED BY <2>1 DEF Init, Queue!QInit
<1>2. Init => QInv
  <2>1. Init => PlaceInv BY DEF Init, PlaceInv
  <2>2. Init => StoppedIsQuiet BY DEF Init, StoppedIsQuiet
  <2> QED BY <2>1, <2>2, IInvInit DEF QInv
<1>3. QInv /\ [Next]_vars => QInv'
    BY IInvStep, StoppedIsQuietStep, PlaceStep DEF QInv
<1> QED BY <1>1, <1>2, <1>3, QueueStep, PTL DEF Spec, Implements, Queue!QSpec
=============================================================================

----------------------------- MODULE ThreadPool -----------------------------
(***************************************************************************)
(* base/thread/threadpool.{h,cpp}: a pool of POSIX threads that take Task  *)
(* objects from one queue.  Every step between two points where another   *)
(* thread can interleave is an action: run_ is read and written without    *)
(* the mutex, QueueUserWorkItem signals after it has unlocked, and Stop    *)
(* broadcasts without taking the mutex.                                    *)
(***************************************************************************)
EXTENDS Naturals, Sequences, FiniteSets

CONSTANTS Workers,     \* the thread_min_ threads that Start creates
          Submitters,  \* threads that call QueueUserWorkItem
          Tasks,       \* the Task objects handed to the pool
          NoTask,      \* the NULL job
          NoThread     \* "nobody owns mutex_"

ASSUME PoolAssumption ==
    /\ Workers # {}
    /\ Workers \cap Submitters = {}
    /\ NoTask \notin Tasks
    /\ NoThread \notin Workers \cup Submitters

VARIABLES
    run,        \* run_
    mutex,      \* the owner of mutex_
    tasks,      \* tasks_
    worker,     \* where each worker thread stands in WorkerThread
    job,        \* the local variable job of each worker
    submitter,  \* where each submitter stands in QueueUserWorkItem
    item,       \* the argument of the submitter's current call
    owner,      \* where the owning thread stands in Start / Stop / ~ThreadPool
    pushed,     \* history: every task in the order it was pushed
    popped,     \* history: every task in the order it was popped
    executed,   \* history: how often OnTaskExecute ran on each task
    deleted     \* the tasks that have been deleted

vars == <<run, mutex, tasks, worker, job, submitter, item, owner,
          pushed, popped, executed, deleted>>

WorkerPC == {"unborn", "check", "lock", "locked", "waiting", "relock",
             "unlock", "execute", "exited"}
SubmitterPC == {"idle", "lock", "locked", "signal"}
OwnerPC == {"new", "starting", "running", "flagged", "joining", "stopped",
            "destroyed"}

Init ==
    /\ run = FALSE
    /\ mutex = NoThread
    /\ tasks = <<>>
    /\ worker = [w \in Workers |-> "unborn"]
    /\ job = [w \in Workers |-> NoTask]
    /\ submitter = [s \in Submitters |-> "idle"]
    /\ item = [s \in Submitters |-> NoTask]
    /\ owner = "new"
    /\ pushed = <<>>
    /\ popped = <<>>
    /\ executed = [t \in Tasks |-> 0]
    /\ deleted = {}

history == <<pushed, popped, executed, deleted>>

-----------------------------------------------------------------------------
(* The owning thread. *)

\* Start: the flag is up before the first thread exists.
Start ==
    /\ owner = "new"
    /\ run' = TRUE
    /\ owner' = "starting"
    /\ UNCHANGED <<mutex, tasks, worker, job, submitter, item, history>>

\* One pthread_create of Start's loop; the new thread may run at once.
CreateThread(w) ==
    /\ owner = "starting"
    /\ worker[w] = "unborn"
    /\ worker' = [worker EXCEPT ![w] = "check"]
    /\ owner' = IF \E v \in Workers \ {w} : worker[v] = "unborn"
                THEN owner ELSE "running"
    /\ UNCHANGED <<run, mutex, tasks, job, submitter, item, history>>

\* Stop, first statement: the flag goes down without the mutex.
StopFlag ==
    /\ owner = "running"
    /\ run' = FALSE
    /\ owner' = "flagged"
    /\ UNCHANGED <<mutex, tasks, worker, job, submitter, item, history>>

\* A faulty Stop that signals one sleeper instead of waking all of them.
StopBroadcast_SignalOne ==
    /\ owner = "flagged"
    /\ owner' = "joining"
    /\ IF \E w \in Workers : worker[w] = "waiting"
       THEN \E w \in Workers :
              /\ worker[w] = "waiting"
              /\ worker' = [worker EXCEPT ![w] = "relock"]
       ELSE UNCHANGED worker
    /\ UNCHANGED <<run, mutex, tasks, job, submitter, item, history>>

\* Stop, second statement: whoever is asleep now is woken.
StopBroadcast ==
    /\ owner = "flagged"
    /\ owner' = "joining"
    /\ worker' = [w \in Workers |->
                    IF worker[w] = "waiting" THEN "relock" ELSE worker[w]]
    /\ UNCHANGED <<run, mutex, tasks, job, submitter, item, history>>

\* A faulty Stop that returns without joining the threads.
StopJoin_NoJoin ==
    /\ owner = "joining"
    /\ owner' = "stopped"
    /\ UNCHANGED <<run, mutex, tasks, worker, job, submitter, item, history>>

\* Stop, the join loop: it ends when every thread has returned.
StopJoin ==
    /\ owner = "joining"
    /\ \A w \in Workers : worker[w] = "exited"
    /\ owner' = "stopped"
    /\ UNCHANGED <<run, mutex, tasks, worker, job, submitter, item, history>>

\* ~ThreadPool of a stopped (or never started) pool: the tasks that nobody
\* took are deleted without having been executed.  Calling a method of the
\* pool while it is destroyed is the caller's error, hence the guard.
Destroy ==
    /\ owner \in {"new", "stopped"}
    /\ \A s \in Submitters : submitter[s] = "idle"
    /\ owner' = "destroyed"
    /\ deleted' = deleted \cup {tasks[i] : i \in DOMAIN tasks}
    /\ tasks' = <<>>
    /\ UNCHANGED <<run, mutex, worker, job, submitter, item, pushed, popped,
                   executed>>

-----------------------------------------------------------------------------
(* QueueUserWorkItem, by any thread that holds the pool. *)

\* The caller hands over a task nobody has handed over before.
QueueUserWorkItem(s, t) ==
    /\ owner # "destroyed"
    /\ submitter[s] = "idle"
    /\ \A i \in DOMAIN pushed : pushed[i] # t
    /\ \A r \in Submitters : item[r] # t
    /\ submitter' = [submitter EXCEPT ![s] = "lock"]
    /\ item' = [item EXCEPT ![s] = t]
    /\ UNCHANGED <<run, mutex, tasks, worker, job, owner, history>>

SubmitterLock(s) ==
    /\ submitter[s] = "lock"
    /\ mutex = NoThread
    /\ mutex' = s
    /\ submitter' = [submitter EXCEPT ![s] = "locked"]
    /\ UNCHANGED <<run, tasks, worker, job, item, owner, history>>

\* tasks_.push under the mutex, then the unlock.
SubmitterPush(s) ==
    /\ submitter[s] = "locked"
    /\ tasks' = Append(tasks, item[s])
    /\ pushed' = Append(pushed, item[s])
    /\ item' = [item EXCEPT ![s] = NoTask]
    /\ mutex' = NoThread
    /\ submitter' = [submitter EXCEPT ![s] = "signal"]
    /\ UNCHANGED <<run, worker, job, owner, popped, executed, deleted>>

\* A faulty QueueUserWorkItem that never signals.
SubmitterSignal_Forgotten(s) ==
    /\ submitter[s] = "signal"
    /\ submitter' = [submitter EXCEPT ![s] = "idle"]
    /\ UNCHANGED <<run, mutex, tasks, worker, job, item, owner, history>>

\* pthread_cond_signal: one sleeper wakes, if there is one.
SubmitterSignal(s) ==
    /\ submitter[s] = "signal"
    /\ submitter' = [submitter EXCEPT ![s] = "idle"]
    /\ \/ \E w \in Workers :
            /\ worker[w] = "waiting"
            /\ worker' = [worker EXCEPT ![w] = "relock"]
       \/ /\ \A w \in Workers : worker[w] # "waiting"
          /\ UNCHANGED worker
    /\ UNCHANGED <<run, mutex, tasks, job, item, owner, history>>

-----------------------------------------------------------------------------
(* WorkerThread *)

\* while (run_), read without the mutex
WorkerCheck(w) ==
    /\ worker[w] = "check"
    /\ worker' = [worker EXCEPT ![w] = IF run THEN "lock" ELSE "exited"]
    /\ UNCHANGED <<run, mutex, tasks, job, submitter, item, owner, history>>

WorkerLock(w) ==
    /\ worker[w] = "lock"
    /\ mutex = NoThread
    /\ mutex' = w
    /\ worker' = [worker EXCEPT ![w] = "locked"]
    /\ UNCHANGED <<run, tasks, job, submitter, item, owner, history>>

\* The queue is empty: pthread_cond_wait releases the mutex and sleeps in one
\* step, whatever run_ says by now.
WorkerWait(w) ==
    /\ worker[w] = "locked"
    /\ tasks = <<>>
    /\ mutex' = NoThread
    /\ worker' = [worker EXCEPT ![w] = "waiting"]
    /\ UNCHANGED <<run, tasks, job, submitter, item, owner, history>>

\* The queue is not empty: take its front, unless the pool is stopping.
WorkerTake(w) ==
    /\ worker[w] = "locked"
    /\ tasks # <<>>
    /\ IF run
       THEN /\ job' = [job EXCEPT ![w] = Head(tasks)]
            /\ popped' = Append(popped, Head(tasks))
            /\ tasks' = Tail(tasks)
       ELSE UNCHANGED <<job, tasks, popped>>
    /\ worker' = [worker EXCEPT ![w] = "unlock"]
    /\ UNCHANGED <<run, mutex, submitter, item, owner, pushed, executed, deleted>>

\* POSIX lets pthread_cond_wait return although nobody signalled.
SpuriousWakeup(w) ==
    /\ worker[w] = "waiting"
    /\ worker' = [worker EXCEPT ![w] = "relock"]
    /\ UNCHANGED <<run, mutex, tasks, job, submitter, item, owner, history>>

\* pthread_cond_wait takes the mutex again before it returns.
WorkerRelock(w) ==
    /\ worker[w] = "relock"
    /\ mutex = NoThread
    /\ mutex' = w
    /\ worker' = [worker EXCEPT ![w] = "unlock"]
    /\ UNCHANGED <<run, tasks, job, submitter, item, owner, history>>

\* A faulty worker that does not test job for NULL after a wake-up.
WorkerUnlock_NoNullTest(w) ==
    /\ worker[w] = "unlock"
    /\ mutex' = NoThread
    /\ worker' = [worker EXCEPT ![w] = "execute"]
    /\ UNCHANGED <<run, tasks, job, submitter, item, owner, history>>

\* The unlock, and the test of job that follows it.
WorkerUnlock(w) ==
    /\ worker[w] = "unlock"
    /\ mutex' = NoThread
    /\ worker' = [worker EXCEPT ![w] = IF job[w] # NoTask
                                       THEN "execute" ELSE "check"]
    /\ UNCHANGED <<run, tasks, job, submitter, item, owner, history>>

\* A faulty worker that keeps its job pointer after the task has run.
WorkerExecute_KeepJob(w) ==
    /\ worker[w] = "execute"
    /\ executed' = [executed EXCEPT ![job[w]] = @ + 1]
    /\ deleted' = deleted \cup {job[w]}
    /\ worker' = [worker EXCEPT ![w] = "check"]
    /\ UNCHANGED <<run, mutex, tasks, job, submitter, item, owner, pushed, popped>>

\* job->OnTaskExecute(); delete job; job = NULL
WorkerExecute(w) ==
    /\ worker[w] = "execute"
    /\ executed' = [executed EXCEPT ![job[w]] = @ + 1]
    /\ deleted' = deleted \cup {job[w]}
    /\ job' = [job EXCEPT ![w] = NoTask]
    /\ worker' = [worker EXCEPT ![w] = "check"]
    /\ UNCHANGED <<run, mutex, tasks, submitter, item, owner, pushed, popped>>

WorkerThread(w) ==
    \/ WorkerCheck(w) \/ WorkerLock(w) \/ WorkerWait(w) \/ WorkerTake(w)
    \/ WorkerRelock(w) \/ WorkerUnlock(w) \/ WorkerExecute(w)

SubmitterThread(s) == SubmitterLock(s) \/ SubmitterPush(s) \/ SubmitterSignal(s)

Next ==
    \/ Start \/ StopFlag \/ StopBroadcast \/ StopJoin \/ Destroy
    \/ \E w \in Workers :
          CreateThread(w) \/ SpuriousWakeup(w) \/ WorkerThread(w)
    \/ \E s \in Submitters :
          \/ SubmitterThread(s)
          \/ \E t \in Tasks : QueueUserWorkItem(s, t)

\* The kernel schedules every runnable thread, and hands mutex_ to a thread
\* that keeps asking for it.  Nothing obliges the owner to call Stop, a
\* submitter to submit, or a spurious wake-up to happen.
Fairness ==
    /\ \A w \in Workers :
          /\ WF_vars(CreateThread(w))
          /\ WF_vars(WorkerThread(w))
          /\ SF_vars(WorkerLock(w))
          /\ SF_vars(WorkerRelock(w))
    /\ \A s \in Submitters : WF_vars(SubmitterThread(s)) /\ SF_vars(SubmitterLock(s))
    /\ WF_vars(StopBroadcast)
    /\ WF_vars(StopJoin)

Spec == Init /\ [][Next]_vars

FairSpec == Spec /\ Fairness
-----------------------------------------------------------------------------
(* Properties *)

TypeOK ==
    /\ run \in BOOLEAN
    /\ mutex \in Workers \cup Submitters \cup {NoThread}
    /\ tasks \in Seq(Tasks)
    /\ worker \in [Workers -> WorkerPC]
    /\ job \in [Workers -> Tasks \cup {NoTask}]
    /\ submitter \in [Submitters -> SubmitterPC]
    /\ item \in [Submitters -> Tasks \cup {NoTask}]
    /\ owner \in OwnerPC
    /\ pushed \in Seq(Tasks)
    /\ popped \in Seq(Tasks)
    /\ executed \in [Tasks -> Nat]
    /\ deleted \in SUBSET Tasks

\* What the safety proofs rest on besides the types: the flag follows the
\* owner's calls, a worker carries a task only between the pop and the delete,
\* and a submitter only until its push.
PoolInv ==
    /\ run <=> owner \in {"starting", "running"}
    /\ owner = "new" => \A w \in Workers : worker[w] = "unborn"
    /\ \A w \in Workers :
          /\ worker[w] = "exited" => ~run
          /\ worker[w] = "execute" => job[w] # NoTask
          /\ worker[w] \notin {"unlock", "execute"} => job[w] = NoTask
    /\ \A s \in Submitters : submitter[s] \in {"lock", "locked"} => item[s] # NoTask

Pushed == {pushed[i] : i \in DOMAIN pushed}

\* Every task handed to QueueUserWorkItem is in one place at a time: still in
\* its caller's hands, in the queue, in one worker's job, or deleted.
PlaceInv ==
    /\ \A i, j \in DOMAIN tasks : tasks[i] = tasks[j] => i = j
    /\ \A i \in DOMAIN tasks : tasks[i] \in Pushed /\ tasks[i] \notin deleted
    /\ \A i \in DOMAIN tasks, w \in Workers : job[w] # tasks[i]
    /\ \A v, w \in Workers : job[v] = job[w] /\ job[w] # NoTask => v = w
    /\ \A w \in Workers : job[w] # NoTask => job[w] \in Pushed /\ job[w] \notin deleted
    /\ \A t \in deleted : t \in Pushed
    /\ \A s \in Submitters : item[s] # NoTask => item[s] \notin Pushed
    /\ \A r, s \in Submitters : item[r] = item[s] /\ item[s] # NoTask => r = s
    /\ \A t \in Tasks : executed[t] = 0 \/ t \in deleted
    /\ owner = "destroyed" => /\ tasks = <<>>
                              /\ \A s \in Submitters : submitter[s] = "idle"

\* The pool seen as a plain work queue.
Queue == INSTANCE WorkQueue WITH
            queue  <- tasks,
            inhand <- {job[w] : w \in Workers} \ {NoTask},
            done   <- executed,
            freed  <- deleted,
            closed <- owner = "destroyed"

\* However its threads interleave, the pool does to its tasks only what the
\* work queue allows: it takes them in the order of the pushes, executes each
\* at most once and never after it was deleted, and deletes unexecuted only
\* what nobody took when the pool is destroyed (threadpool.cpp:18-30, 68-99).
Implements == Queue!QSpec

\* The workers take the tasks in the order QueueUserWorkItem pushed them,
\* whichever worker takes which: what was taken followed by what is queued is
\* what was pushed (until the destructor discards the queue).
FifoOrder == owner # "destroyed" => popped \o tasks = pushed

\* No wake-up for work is lost although QueueUserWorkItem signals only after
\* it has unlocked: in a running pool with work in the queue somebody is awake,
\* or a submitter is about to signal.
NoSleepOnWork ==
    (run /\ tasks # <<>>) =>
        \/ \E w \in Workers : worker[w] \notin {"waiting", "exited"}
        \/ \E s \in Submitters : submitter[s] = "signal"

\* Once Stop has returned no worker is inside a task, so the owner may free
\* what the tasks use.
StoppedIsQuiet ==
    owner \in {"stopped", "destroyed"} =>
        \A w \in Workers : worker[w] \in {"unborn", "exited"} /\ job[w] = NoTask

\* While the pool is not stopped, every queued task is executed.
TasksExecuted ==
    \A t \in Tasks :
        (\E i \in DOMAIN tasks : tasks[i] = t) ~> (executed[t] = 1 \/ ~run)

\* A worker that has seen run_ set and will find the queue empty goes to sleep
\* without looking at run_ again.  If Stop's broadcast comes in that window the
\* wake-up is lost and pthread_join waits for ever (threadpool.cpp:60-66).
LostWakeupWindow ==
    tasks = <<>> /\ \E w \in Workers : worker[w] \in {"lock", "locked"}

\* Stop returns whenever no worker is in that window when run_ goes down (no
\* worker can enter it afterwards).
StopReturns ==
    (owner = "flagged" /\ ~LostWakeupWindow) ~> owner \in {"stopped", "destroyed"}
=============================================================================

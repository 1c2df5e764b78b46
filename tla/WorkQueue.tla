----------------------------- MODULE WorkQueue ------------------------------
(***************************************************************************)
(* What a pool of threads promises about the tasks it is given, without    *)
(* threads, mutex or condition variable: first in, first out, each task    *)
(* executed at most once and then freed, and a queue that is thrown away   *)
(* only when nobody holds a task.                                          *)
(***************************************************************************)
EXTENDS Naturals, Sequences

CONSTANT Tasks

VARIABLES queue,   \* the tasks nobody has taken, oldest first
          inhand,  \* the tasks that are being executed
          done,    \* how often each task was executed
          freed,   \* the tasks that are gone
          closed   \* the pool is gone

qvars == <<queue, inhand, done, freed, closed>>

Queued == {queue[i] : i \in DOMAIN queue}

QInit ==
    /\ queue = <<>>
    /\ inhand = {}
    /\ done = [t \in Tasks |-> 0]
    /\ freed = {}
    /\ closed = FALSE

\* A task is accepted once in its life.
Submit(t) ==
    /\ ~closed
    /\ t \notin Queued \cup inhand \cup freed
    /\ queue' = Append(queue, t)
    /\ UNCHANGED <<inhand, done, freed, closed>>

\* The oldest task is handed to one thread.
Take ==
    /\ queue # <<>>
    /\ inhand' = inhand \cup {Head(queue)}
    /\ queue' = Tail(queue)
    /\ UNCHANGED <<done, freed, closed>>

\* A task in hand is executed for the first time, and freed.
Finish(t) ==
    /\ t \in inhand
    /\ done[t] = 0
    /\ inhand' = inhand \ {t}
    /\ done' = [done EXCEPT ![t] = 1]
    /\ freed' = freed \cup {t}
    /\ UNCHANGED <<queue, closed>>

\* What nobody took is freed unexecuted, when no task is being executed.
Discard ==
    /\ ~closed
    /\ inhand = {}
    /\ freed' = freed \cup Queued
    /\ queue' = <<>>
    /\ closed' = TRUE
    /\ UNCHANGED <<inhand, done>>

QNext == Take \/ Discard \/ \E t \in Tasks : Submit(t) \/ Finish(t)

QSpec == QInit /\ [][QNext]_qvars
=============================================================================

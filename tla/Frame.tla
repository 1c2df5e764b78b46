-------------------------------- MODULE Frame --------------------------------
(***************************************************************************)
(* One frame of base/event/dispatcher.cpp after another, and what runs in  *)
(* it: the quick timer (base/timer.h), the command queues (base/command)   *)
(* and events (base/event.h).  Everything runs on one thread; what is hard *)
(* is that callbacks run in the middle of the walks over delayqueue_,      *)
(* list_ and handlers_, and may set timers, push commands, let linkers go, *)
(* destroy the object they are called on, or trigger the event again.      *)
(*                                                                         *)
(* An owner stands for a session: it holds the linker of an interval timer *)
(* and of a handler of the event, and a Runner with its queue of commands. *)
(* Times are relative to the tick of the current frame.                    *)
(***************************************************************************)
EXTENDS Integers, Sequences, FiniteSets, SequencesExt

CONSTANTS
    Owners,
    Cmds,       \* commands, each pushed once
    None,       \* nullptr: no owner, no queue, no handler
    Interval,   \* of the owners' timers
    Delays,     \* arguments of SetTimeout
    Steps,      \* how far the clock may go from one frame to the next
    MaxTimers,  \* bound: timers made
    Budgets,    \* bound: how many operations of each kind the code above makes
    MaxDepth,   \* bound: Triggers inside one another
    Careless    \* may a handler be let go under an outer Trigger?

Kinds == {"restart", "timeout", "push", "trigger", "detach", "destroy"}

ASSUME FrameAssumption ==
    /\ None \notin Owners
    /\ Interval \in Nat \ {0}
    /\ Delays \subseteq Nat /\ Steps \subseteq Nat /\ Steps \ {0} # {}
    /\ {MaxTimers, MaxDepth} \subseteq Nat
    /\ Budgets \subseteq [Kinds -> Nat]
    /\ Careless \in BOOLEAN

Ids == 1 .. MaxTimers

VARIABLES
    alive,       \* the owners that exist
    timerOf,     \* timeout_linker_ of each owner: its timer, or 0
    timer,       \* the timers made: their owner and their linker's count
    delayqueue,  \* delayqueue_, by time
    intervals,   \* intervals_
    since,       \* time since an owner's timer was started or ran, up to Interval
    cmds,        \* cmds_ of each owner's queue, with executed_ and finish_
    qrefs,       \* reference_count() of each owner's queue
    list,        \* RunnerMgr::list_
    handlers,    \* handlers_ of the event: one per owner at most
    hrefs,       \* reference_count() of their linkers
    pc,          \* "timers", "commands", "io" or "exited"
    cursor,      \* q in RunnerMgr::Update
    stack,       \* the callbacks that are running, innermost last
    exit,        \* exit_
    pushed,
    left         \* what is left of the budget

timing == <<timerOf, timer, delayqueue, intervals, since>>
queues == <<cmds, qrefs, list, pushed>>
events == <<handlers, hrefs>>
loop == <<pc, cursor, exit>>
vars == <<alive, timing, queues, events, loop, stack, left>>

Init ==
    /\ alive = {}
    /\ timerOf = [o \in Owners |-> 0]
    /\ timer = <<>>
    /\ delayqueue = <<>>
    /\ intervals = <<>>
    /\ since = [o \in Owners |-> 0]
    /\ cmds = [o \in Owners |-> <<>>]
    /\ qrefs = [o \in Owners |-> 0]
    /\ list = <<>>
    /\ pushed = {}
    /\ handlers = <<>>
    /\ hrefs = [o \in Owners |-> 0]
    /\ pc = "io"
    /\ cursor = None
    /\ stack = <<>>
    /\ exit = FALSE
    /\ left \in Budgets

-----------------------------------------------------------------------------
(* Lists and the stack *)

FirstOf(s) == IF s = <<>> THEN None ELSE s[1]

\* list_next(): what follows x.
NextOf(s, x) ==
    LET after == {i \in 2 .. Len(s) : s[i - 1] = x} IN
    IF after = {} THEN None ELSE s[CHOOSE i \in after : TRUE]

\* erase() of x, which is in a list at most once.
Without(s, x) == IF x \in ToSet(s) THEN RemoveAt(s, CHOOSE i \in DOMAIN s : s[i] = x) ELSE s

\* A callback: of which kind, on whose behalf, how far it is, and whether
\* its owner existed, and its time had come, when it was called; first says
\* that the walk under it has just looked, at the count of a queue or of a
\* linker.
Entered(kind, o, at, ontime) ==
    [kind |-> kind, of |-> o, at |-> at, live |-> o = None \/ o \in alive,
     ontime |-> ontime, first |-> TRUE]

Top == stack[Len(stack)]

InFrame(kind, at) == stack # <<>> /\ Top.kind = kind /\ Top.at = at

\* emplace of timers, one after the other: behind those of the same time.
Emplaced(dq, due, ids) ==
    LET n == Cardinality({i \in DOMAIN dq : dq[i].due <= due}) IN
    SubSeq(dq, 1, n) \o [i \in DOMAIN ids |-> [due |-> due, id |-> ids[i]]]
                    \o SubSeq(dq, n + 1, Len(dq))

-----------------------------------------------------------------------------
(* Timer::Update *)

Due == delayqueue # <<>> /\ delayqueue[1].due <= 0

\* Faulty: a timer that lost its linker runs too.
Fires_Silenced(id) == TRUE

\* linker_ == nullptr || linker_->reference_count() == 2
Fires(id) == timer[id].owner = None \/ timer[id].refs = 2

TimerFires ==
    LET id == delayqueue[1].id
        o  == timer[id].owner
    IN  /\ pc = "timers" /\ stack = <<>> /\ Due
        /\ Fires(id)
        /\ stack' = <<Entered("timer", o, "in", o = None \/ since[o] = Interval)>>
        /\ since' = IF o = None THEN since ELSE [since EXCEPT ![o] = 0]
        /\ UNCHANGED <<alive, timerOf, timer, delayqueue, intervals, queues, events, loop, left>>

\* The first of delayqueue_ leaves it, an interval for intervals_.
Retire ==
    LET id == delayqueue[1].id IN
    /\ delayqueue' = Tail(delayqueue)
    /\ intervals' = IF timer[id].owner = None THEN intervals ELSE Append(intervals, id)

TimerSilent ==
    /\ pc = "timers" /\ stack = <<>> /\ Due
    /\ ~Fires(delayqueue[1].id)
    /\ Retire
    /\ UNCHANGED <<alive, timerOf, timer, since, queues, events, loop, stack, left>>

TimerReturns ==
    /\ InFrame("timer", "in")
    /\ stack' = <<>>
    /\ Retire
    /\ UNCHANGED <<alive, timerOf, timer, since, queues, events, loop, left>>

\* Faulty: off by one.
NextTimeout_Short == Interval - 1

\* ResetTimeout(tick + interval)
NextTimeout == Interval

\* The intervals that ran are put back, behind those of the same time.
TimersDone ==
    /\ pc = "timers" /\ stack = <<>> /\ ~Due
    /\ delayqueue' = Emplaced(delayqueue, NextTimeout, intervals)
    /\ intervals' = <<>>
    /\ pc' = "commands"
    /\ cursor' = FirstOf(list)
    /\ UNCHANGED <<alive, timerOf, timer, since, queues, events, exit, stack, left>>

-----------------------------------------------------------------------------
(* RunnerMgr::Update and CommandQueue::TryExecute *)

\* Release of a queue: the last one deletes it and its commands, without
\* OnCleanup.
Released(o) ==
    /\ qrefs' = [qrefs EXCEPT ![o] = @ - 1]
    /\ cmds' = IF qrefs[o] = 1 THEN [cmds EXCEPT ![o] = <<>>] ELSE cmds

\* Erase queue o from list_, release it and go on.
Dropped(o) ==
    /\ list' = Without(list, o)
    /\ cursor' = NextOf(list, o)
    /\ Released(o)

\* Faulty: the queue leaves list_ when its last command was looked at.
TryExecuteEnds_LastCommand(o, rest) ==
    /\ stack' = <<>>
    /\ IF Len(cmds[o]) <= 1
       THEN Dropped(o)
       ELSE /\ cmds' = [cmds EXCEPT ![o] = rest]
            /\ cursor' = NextOf(list, o)
            /\ UNCHANGED <<list, qrefs>>

\* TryExecute returns with rest in the queue of o: an empty queue leaves list_.
TryExecuteEnds(o, rest) ==
    /\ stack' = <<>>
    /\ IF rest = <<>>
       THEN /\ list' = Without(list, o)
            /\ qrefs' = [qrefs EXCEPT ![o] = @ - 1]
            /\ cmds' = [cmds EXCEPT ![o] = <<>>]
       ELSE /\ cmds' = [cmds EXCEPT ![o] = rest]
            /\ UNCHANGED <<list, qrefs>>
    /\ cursor' = NextOf(list, o)

Visiting(o) == pc = "commands" /\ stack = <<>> /\ cursor = o /\ o # None

\* The queue's Runner is gone: nobody but list_ holds it.
QueueAbandoned(o) ==
    /\ Visiting(o)
    /\ qrefs[o] # 2
    /\ Dropped(o)
    /\ UNCHANGED <<alive, timing, pushed, events, pc, exit, stack, left>>

\* TryExecute looks at the first command.  (A queue on list_ has one.)
TryExecute(o) ==
    LET top == cmds[o][1] IN
    /\ Visiting(o)
    /\ qrefs[o] = 2
    /\ \/ /\ ~top.executed
          /\ stack' = <<Entered("command", o, "setup", TRUE)>>
          /\ UNCHANGED <<list, qrefs, cmds, cursor>>
       \/ /\ top.executed /\ top.finish
          /\ stack' = <<Entered("command", o, "cleanup", TRUE)>>
          /\ UNCHANGED <<list, qrefs, cmds, cursor>>
       \/ /\ top.executed /\ ~top.finish
          /\ TryExecuteEnds(o, cmds[o])
    /\ UNCHANGED <<alive, timing, pushed, events, pc, exit, left>>

\* TryExecute goes on to the next callback of its command.  It does not ask
\* whether the one before has destroyed the owner.
NextStage(at) ==
    <<[Top EXCEPT !.at = at, !.live = Top.of \in alive, !.first = FALSE]>>

\* OnSetup returns true: Execute.
SetupAccepts ==
    /\ InFrame("command", "setup")
    /\ cmds' = [cmds EXCEPT ![Top.of][1].executed = TRUE]
    /\ stack' = NextStage("execute")
    /\ UNCHANGED <<alive, timing, qrefs, list, pushed, events, loop, left>>

\* OnSetup returns false: the command is deleted.
SetupRefuses ==
    /\ InFrame("command", "setup")
    /\ TryExecuteEnds(Top.of, Tail(cmds[Top.of]))
    /\ UNCHANGED <<alive, timing, pushed, events, pc, exit, left>>

\* OnCommandExecute returns; a command that is finished already is cleaned up.
ExecuteReturns ==
    /\ InFrame("command", "execute")
    /\ IF cmds[Top.of][1].finish
       THEN /\ stack' = NextStage("cleanup")
            /\ UNCHANGED <<list, qrefs, cmds, cursor>>
       ELSE TryExecuteEnds(Top.of, cmds[Top.of])
    /\ UNCHANGED <<alive, timing, pushed, events, pc, exit, left>>

\* OnCleanup returns: the command is deleted.
CleanupReturns ==
    /\ InFrame("command", "cleanup")
    /\ TryExecuteEnds(Top.of, Tail(cmds[Top.of]))
    /\ UNCHANGED <<alive, timing, pushed, events, pc, exit, left>>

\* Faulty: the loop ends without asking for commands.
MayExit_AtOnce == exit

\* The loop's own condition, in a process without sockets.
MayExit == exit /\ list = <<>>

\* The end of the frame: StopAll deletes the timers and releases their linkers.
CommandsDone ==
    /\ pc = "commands" /\ stack = <<>> /\ cursor = None
    /\ IF MayExit
       THEN /\ pc' = "exited"
            /\ delayqueue' = <<>>
            /\ timer' = [id \in DOMAIN timer |->
                  IF timer[id].owner = None THEN timer[id] ELSE [timer[id] EXCEPT !.refs = @ - 1]]
       ELSE /\ pc' = "io"
            /\ UNCHANGED <<delayqueue, timer>>
    /\ UNCHANGED <<alive, timerOf, intervals, since, queues, events, cursor, exit, stack, left>>

\* The next frame, d later.
Advance(d) ==
    /\ pc = "io" /\ stack = <<>>
    /\ delayqueue' = [i \in DOMAIN delayqueue |-> [delayqueue[i] EXCEPT !.due = @ - d]]
    /\ since' = [o \in Owners |-> IF since[o] + d > Interval THEN Interval ELSE since[o] + d]
    /\ pc' = "timers"
    /\ UNCHANGED <<alive, timerOf, timer, intervals, queues, events, cursor, exit, stack, left>>

NextFrame == \E d \in Steps : Advance(d)

-----------------------------------------------------------------------------
(* Event::Trigger *)

\* A handler with its linker held is called.
HandlerCalled ==
    /\ InFrame("event", "look")
    /\ Top.of # None
    /\ hrefs[Top.of] >= 2
    /\ stack' = [stack EXCEPT ![Len(stack)] = Entered("event", Top.of, "in", TRUE)]
    /\ UNCHANGED <<alive, timing, queues, events, loop, left>>

\* Any other one is erased and deleted.
HandlerErased ==
    /\ InFrame("event", "look")
    /\ Top.of # None
    /\ hrefs[Top.of] < 2
    /\ handlers' = Without(handlers, Top.of)
    /\ hrefs' = [hrefs EXCEPT ![Top.of] = @ - 1]
    /\ stack' = [stack EXCEPT ![Len(stack)].of = NextOf(handlers, Top.of)]
    /\ UNCHANGED <<alive, timing, queues, loop, left>>

\* cur = cur->list_next(), which reads the handler that was called.
HandlerReturns ==
    /\ InFrame("event", "in")
    /\ stack' = [stack EXCEPT ![Len(stack)].of = NextOf(handlers, Top.of),
                              ![Len(stack)].at = "look"]
    /\ UNCHANGED <<alive, timing, queues, events, loop, left>>

TriggerReturns ==
    /\ InFrame("event", "look")
    /\ Top.of = None
    /\ stack' = Front(stack)
    /\ UNCHANGED <<alive, timing, queues, events, loop, left>>

-----------------------------------------------------------------------------
(* What callbacks and the handlers of sockets do *)

\* In the handler of a socket, in the main loop's callback after the commands,
\* or in a callback of this module.
UserCode ==
    \/ pc = "io" /\ stack = <<>>
    \/ pc = "commands" /\ cursor = None /\ stack = <<>>
    \/ stack # <<>> /\ Top.at # "look"

Op(kind) ==
    /\ UserCode
    /\ left[kind] > 0
    /\ left' = [left EXCEPT ![kind] = @ - 1]

\* The handlers that a Trigger stands on; those under a nested Trigger.
StoodOn == {stack[i].of : i \in {j \in DOMAIN stack : stack[j].kind = "event"}}
Nested == {stack[i].of : i \in {j \in DOMAIN stack :
              stack[j].kind = "event" /\ \E k \in j + 1 .. Len(stack) : stack[k].kind = "event"}}

\* SetIntervalWithLinker, retained; the linker of the old timer is let go, and
\* that timer stays in the queue.
StartTimer(o) ==
    LET id == Len(timer) + 1
        tm == IF timerOf[o] = 0 THEN timer ELSE [timer EXCEPT ![timerOf[o]].refs = @ - 1]
    IN  /\ id \in Ids
        /\ timer' = Append(tm, [owner |-> o, refs |-> 2])
        /\ timerOf' = [timerOf EXCEPT ![o] = id]
        /\ delayqueue' = Emplaced(delayqueue, Interval, <<id>>)
        /\ since' = [since EXCEPT ![o] = 0]
        /\ UNCHANGED intervals

\* StopTimer
StopTimer(o) ==
    /\ timer' = IF timerOf[o] = 0 THEN timer ELSE [timer EXCEPT ![timerOf[o]].refs = @ - 1]
    /\ timerOf' = [timerOf EXCEPT ![o] = 0]
    /\ UNCHANGED <<delayqueue, intervals, since>>

\* A session is made, once: its Runner, a handler whose linker it keeps, its
\* timer.
Create(o) ==
    /\ pc = "io" /\ stack = <<>>
    /\ \A id \in DOMAIN timer : timer[id].owner # o
    /\ alive' = alive \cup {o}
    /\ qrefs' = [qrefs EXCEPT ![o] = 1]
    /\ handlers' = <<o>> \o handlers
    /\ hrefs' = [hrefs EXCEPT ![o] = 2]
    /\ StartTimer(o)
    /\ UNCHANGED <<cmds, list, pushed, loop, stack, left>>

\* The session starts its timer again.
RestartTimer(o) ==
    /\ Op("restart")
    /\ o \in alive
    /\ StartTimer(o)
    /\ UNCHANGED <<alive, queues, events, loop, stack>>

\* The session lets its handler go.
Detach(o) ==
    /\ Op("detach")
    /\ o \in alive
    /\ hrefs[o] = 2
    /\ Careless \/ o \notin Nested
    /\ hrefs' = [hrefs EXCEPT ![o] = 1]
    /\ UNCHANGED <<alive, timing, queues, handlers, loop, stack>>

\* The session is destroyed: StopTimer, its handler's linker, ~Runner.
Destroy(o) ==
    /\ Op("destroy")
    /\ o \in alive
    /\ Careless \/ o \notin Nested
    /\ alive' = alive \ {o}
    /\ StopTimer(o)
    /\ hrefs' = [hrefs EXCEPT ![o] = IF @ = 2 THEN 1 ELSE @]
    /\ Released(o)
    /\ UNCHANGED <<list, pushed, handlers, loop, stack>>

SetTimeout(d) ==
    LET id == Len(timer) + 1 IN
    /\ Op("timeout")
    /\ id \in Ids
    /\ timer' = Append(timer, [owner |-> None, refs |-> 0])
    /\ delayqueue' = Emplaced(delayqueue, d, <<id>>)
    /\ UNCHANGED <<alive, timerOf, intervals, since, queues, events, loop, stack>>

\* PushCommand: Push, and Register unless list_ contains the queue.
PushCommand(o) ==
    LET c == CHOOSE d \in Cmds \ pushed : TRUE IN
    /\ Op("push")
    /\ o \in alive
    /\ pushed # Cmds
    /\ pushed' = pushed \cup {c}
    /\ cmds' = [cmds EXCEPT ![o] = Append(@, [id |-> c, executed |-> FALSE, finish |-> FALSE])]
    /\ IF o \in ToSet(list)
       THEN UNCHANGED <<list, qrefs>>
       ELSE /\ list' = <<o>> \o list
            /\ qrefs' = [qrefs EXCEPT ![o] = @ + 1]
    /\ UNCHANGED <<alive, timing, events, loop, stack>>

\* Somebody calls Stop of a command that is still in its queue.
Stop(c) ==
    /\ UserCode
    /\ \E o \in Owners : \E i \in DOMAIN cmds[o] :
          /\ cmds[o][i].id = c /\ ~cmds[o][i].finish
          /\ cmds' = [cmds EXCEPT ![o][i].finish = TRUE]
    /\ UNCHANGED <<alive, timing, qrefs, list, pushed, events, loop, stack, left>>

Trigger ==
    /\ Op("trigger")
    /\ Cardinality({i \in DOMAIN stack : stack[i].kind = "event"}) < MaxDepth
    /\ Careless \/ \A h \in StoodOn \ {None} : hrefs[h] >= 2
    /\ stack' = Append(stack, Entered("event", FirstOf(handlers), "look", TRUE))
    /\ UNCHANGED <<alive, timing, queues, events, loop>>

NormalExit ==
    /\ UserCode
    /\ ~exit
    /\ exit' = TRUE
    /\ UNCHANGED <<alive, timing, queues, events, pc, cursor, stack, left>>

-----------------------------------------------------------------------------

\* What the loop does by itself, callbacks returning included.
Loop ==
    \/ TimerFires \/ TimerSilent \/ TimerReturns \/ TimersDone
    \/ \E o \in Owners : QueueAbandoned(o) \/ TryExecute(o)
    \/ SetupAccepts \/ SetupRefuses \/ ExecuteReturns \/ CleanupReturns
    \/ CommandsDone \/ NextFrame
    \/ HandlerCalled \/ HandlerErased \/ HandlerReturns \/ TriggerReturns

User ==
    \/ \E o \in Owners :
          Create(o) \/ RestartTimer(o) \/ Detach(o) \/ Destroy(o) \/ PushCommand(o)
    \/ \E d \in Delays : SetTimeout(d)
    \/ \E c \in Cmds : Stop(c)
    \/ Trigger \/ NormalExit

Next == Loop \/ User

Spec == Init /\ [][Next]_vars

\* The thread runs, callbacks return, the clock goes on and every command is
\* stopped in the end by whatever it waits for.
Fairness ==
    /\ WF_vars(Loop)
    /\ SF_vars(\E d \in Steps \ {0} : Advance(d))
    /\ \A c \in Cmds : SF_vars(Stop(c))

FairSpec == Spec /\ Fairness

-----------------------------------------------------------------------------
(* Properties *)

Frames ==
    [kind : {"timer", "command", "event"}, of : Owners \cup {None},
     at : {"in", "look", "setup", "execute", "cleanup"}, live : BOOLEAN, ontime : BOOLEAN,
     first : BOOLEAN]

TypeOK ==
    /\ alive \subseteq Owners
    /\ timerOf \in [Owners -> Ids \cup {0}]
    /\ timer \in Seq([owner : Owners \cup {None}, refs : 0 .. 2])
    /\ delayqueue \in Seq([due : Int, id : Ids])
    /\ intervals \in Seq(Ids)
    /\ since \in [Owners -> 0 .. Interval]
    /\ cmds \in [Owners -> Seq([id : Cmds, executed : BOOLEAN, finish : BOOLEAN])]
    /\ qrefs \in [Owners -> 0 .. 2] /\ hrefs \in [Owners -> 0 .. 2]
    /\ list \in Seq(Owners) /\ handlers \in Seq(Owners)
    /\ pushed \subseteq Cmds
    /\ pc \in {"timers", "commands", "io", "exited"}
    /\ cursor \in Owners \cup {None}
    /\ stack \in Seq(Frames)
    /\ exit \in BOOLEAN
    /\ left \in [Kinds -> Nat]

One(b) == IF b THEN 1 ELSE 0

\* Counts of queues and timers are their holders: the owner, and the list or
\* the queue that they are in.
RefsBalance ==
    /\ \A o \in Owners : qrefs[o] = One(o \in alive) + One(o \in ToSet(list))
    /\ \A id \in DOMAIN timer :
          LET o == timer[id].owner IN
          o # None => timer[id].refs =
              One(id \in ToSet(intervals) \cup {delayqueue[i].id : i \in DOMAIN delayqueue})
              + One(timerOf[o] = id)

\* No command is stranded: the queue of a live owner that has commands is on
\* list_, whoever pushed them and from inside which callback; and Update
\* never meets an empty queue.
NoStrandedCommand ==
    /\ \A o \in alive : cmds[o] # <<>> => o \in ToSet(list)
    /\ \A o \in ToSet(list) : cmds[o] # <<>>

\* Types, reference counts, and the list of queues with work.
FrameSound == TypeOK /\ RefsBalance /\ NoStrandedCommand

\* A walk never begins with an owner that is destroyed: neither a timer nor a
\* handler runs on one, nor the first callback of a TryExecute.  A later one
\* does when an earlier one of the same TryExecute destroyed the owner.  Even
\* then what the walk goes back to is still there: the handler in handlers_,
\* the queue in list_ with its command at the front.
SafeFrames ==
    \A i \in DOMAIN stack :
        stack[i].at # "look" =>
            /\ stack[i].first => stack[i].live
            /\ stack[i].kind = "event" => stack[i].of \in ToSet(handlers)
            /\ stack[i].kind = "command" =>
                  stack[i].of \in ToSet(list) /\ cmds[stack[i].of] # <<>>

\* An interval timer never runs before its interval has passed since it was
\* started or last ran, however late it was and whatever is set meanwhile.
TimersKeepTime == \A i \in DOMAIN stack : stack[i].ontime

Queued(c) == \E o \in Owners : \E i \in DOMAIN cmds[o] : cmds[o][i].id = c

\* Every command leaves its queue, the timer of a live owner keeps running,
\* and the loop ends after NormalExit.
FrameLive ==
    /\ \A c \in Cmds : Queued(c) ~> ~Queued(c)
    /\ \A o \in Owners :
          o \in alive ~> \/ o \notin alive \/ exit
                        \/ \E i \in DOMAIN stack : stack[i].kind = "timer" /\ stack[i].of = o
    /\ exit ~> pc = "exited"
=============================================================================

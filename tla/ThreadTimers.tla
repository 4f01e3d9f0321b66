----------------------------- MODULE ThreadTimers -----------------------------
(***************************************************************************)
(* The thread backend: one thread serves the actors of a system context.   *)
(* It works off the queue, then waits on a condition variable for messages *)
(* of other threads or for the first deadline of its sorted timer list.    *)
(*                                                                         *)
(* A timer's callback runs inside update_time() or cancel_timer(), and a   *)
(* handler tagged as blocking (tag_io()) makes every timer operation call  *)
(* update_time() first, for much time may have passed.  So these functions *)
(* are re-entered: `stack` is the thread's call stack, its top first, as   *)
(* far as it touches timers, and each step runs to the next call of user   *)
(* code.  The clock goes on between any two steps.                         *)
(***************************************************************************)
EXTENDS Naturals, Sequences, SequencesExt

CONSTANTS
    Actors,         \* those with timers; the root supervisor ends after them
    Timers,         \* timer ids; next_request_id() never gives one out twice
    Owner,          \* the actor that may start each timer
    Intervals,      \* what a timer is started with
    Horizon,        \* bound of the clock
    MaxMessages,    \* bound of the messages other threads send
    Careful         \* TRUE if callbacks, and tagged handlers, use timers only
                    \* in the way that TouchesSafely says

ASSUME TimersAssumption ==
    /\ Owner \in [Timers -> Actors]
    /\ Intervals \subseteq Nat
    /\ Horizon \in Nat
    /\ MaxMessages \in Nat
    /\ Careful \in BOOLEAN

Messages == [kind : {"plain", "io", "end"}, to : Actors]
Nodes == [timer : Timers, deadline : Nat]

Frames ==
    [op : {"handler", "finish"}, who : Actors]
        \cup [op : {"fired", "cancelled"}, who : Actors, timer : Timers]
        \cup [op : {"update"}]
        \cup [op : {"find"}, timer : Timers]
        \cup [op : {"insert"}, timer : Timers, interval : Intervals]

VARIABLES
    clock,          \* clock_t::now()
    now,            \* what the context takes for it
    timer_nodes,    \* the list of deadlines
    timers_map,     \* the timers the actors hold a handler for
    intercepting,   \* a tagged handler runs
    inbound,        \* what other threads have sent
    queue,          \* of the root supervisor
    stack,
    started,        \* timers given out
    calls,          \* how often each timer's callback was called
    down,           \* actors that are SHUT_DOWN
    posted,         \* messages sent so far
    failed          \* assertions that failed, iterators that had been erased

timerVars == <<timer_nodes, timers_map, calls>>
messageVars == <<inbound, queue, posted>>
vars == <<clock, now, timerVars, intercepting, messageVars, stack, started, down, failed>>

TypeOK ==
    /\ clock \in Nat /\ now \in Nat
    /\ timer_nodes \in Seq(Nodes)
    /\ timers_map \subseteq Timers
    /\ intercepting \in BOOLEAN
    /\ inbound \in Seq(Messages) /\ queue \in Seq(Messages)
    /\ stack \in Seq(Frames)
    /\ started \subseteq Timers
    /\ calls \in [Timers -> Nat]
    /\ down \subseteq Actors
    /\ posted \in Nat
    /\ failed \subseteq {"timer has been found", "handler erased twice", "node erased twice"}

Init ==
    /\ clock = 0 /\ now = 0
    /\ timer_nodes = <<>> /\ timers_map = {} /\ calls = [t \in Timers |-> 0]
    /\ intercepting = FALSE
    /\ inbound = <<>> /\ queue = <<>> /\ posted = 0
    /\ stack = <<>>
    /\ started = {} /\ down = {} /\ failed = {}

-----------------------------------------------------------------------------
(* Plausible mistakes in the definitions below, named after them.  They are *)
(* not part of the specification; they show that the properties notice.    *)

ForgottenNever(t) == timers_map
EraseFirstNode(t) == timer_nodes' = IF timer_nodes = <<>> THEN <<>> ELSE Tail(timer_nodes)
PushNode(node) == timer_nodes' = Append(timer_nodes, node)
DueForMessages == inbound # <<>>

-----------------------------------------------------------------------------
(* The list of deadlines *)

IsNode(t) == \E k \in DOMAIN timer_nodes : timer_nodes[k].timer = t

\* timer_nodes.erase(it)
EraseNode(t) ==
    \/ \E k \in DOMAIN timer_nodes :
        /\ timer_nodes[k].timer = t
        /\ timer_nodes' = RemoveAt(timer_nodes, k)
    \/ ~IsNode(t) /\ UNCHANGED timer_nodes

\* The new node comes after those with the same deadline.
InsertNode(node) ==
    \E k \in 0..Len(timer_nodes) :
        /\ \A i \in 1..k : timer_nodes[i].deadline <= node.deadline
        /\ \A i \in (k + 1)..Len(timer_nodes) : node.deadline < timer_nodes[i].deadline
        /\ timer_nodes' = InsertAt(timer_nodes, k + 1, node)

\* actor_base_t::start_timer() after supervisor->do_start_timer()'s update.
Arm(t, interval, time) ==
    /\ InsertNode([timer |-> t, deadline |-> time + interval])
    /\ timers_map' = timers_map \cup {t}

\* timers_map.erase(it), the handler's end
Forgotten(t) == timers_map \ {t}

\* The call of update_time(): the clock is read.
UpdateTime == [op |-> "update"]
ReadsClock == now' = clock

-----------------------------------------------------------------------------
(* What user code does when it has the thread. *)

UserOps == {"handler", "fired", "cancelled"}
UserRuns(a) == stack # <<>> /\ Head(stack).op \in UserOps /\ Head(stack).who = a

\* While a tagged handler runs, callbacks leave timers alone and the handler
\* itself cancels none.
TouchesSafely(cancels) == intercepting => Head(stack).op = "handler" /\ ~cancels

StartTimer(a, t, interval) ==
    /\ UserRuns(a)
    /\ Owner[t] = a /\ t \notin started /\ a \notin down
    /\ clock + interval < Horizon
    /\ Careful => TouchesSafely(FALSE)
    /\ started' = started \cup {t}
    /\ IF intercepting
       THEN /\ ReadsClock
            /\ stack' = <<UpdateTime, [op |-> "insert", timer |-> t, interval |-> interval]>>
                            \o stack
            /\ UNCHANGED timerVars
       ELSE /\ Arm(t, interval, now)
            /\ UNCHANGED <<now, stack, calls>>
    /\ UNCHANGED <<clock, intercepting, messageVars, down, failed>>

\* cancel_timer() from the find_if() on: the callback is called at once.
FindAndCancel(t, rest) ==
    IF IsNode(t)
    THEN /\ stack' = <<[op |-> "cancelled", who |-> Owner[t], timer |-> t]>> \o rest
         /\ calls' = [calls EXCEPT ![t] = @ + 1]
         /\ UNCHANGED failed
    ELSE /\ failed' = failed \cup {"timer has been found"}
         /\ stack' = rest
         /\ UNCHANGED calls

\* system_context_thread_t::cancel_timer()
CancelTimer(t, rest) ==
    IF intercepting
    THEN /\ ReadsClock
         /\ stack' = <<UpdateTime, [op |-> "find", timer |-> t]>> \o rest
         /\ UNCHANGED <<calls, failed>>
    ELSE FindAndCancel(t, rest) /\ UNCHANGED now

\* An actor cancels a timer it has not heard of yet.
UserCancels(a, t) ==
    /\ UserRuns(a)
    /\ Owner[t] = a /\ t \in timers_map /\ calls[t] = 0
    /\ Careful => TouchesSafely(TRUE)
    /\ CancelTimer(t, stack)
    /\ UNCHANGED <<clock, timer_nodes, timers_map, intercepting, messageVars, started, down>>

\* The handler returns; after a tagged one, check() takes what has come in.
HandlerReturns ==
    /\ stack # <<>> /\ Head(stack).op = "handler"
    /\ intercepting' = FALSE
    /\ IF intercepting
       THEN /\ queue' = queue \o inbound /\ inbound' = <<>>
            /\ ReadsClock
            /\ stack' = <<UpdateTime>> \o Tail(stack)
       ELSE /\ stack' = Tail(stack)
            /\ UNCHANGED <<queue, inbound, now>>
    /\ UNCHANGED <<clock, timerVars, posted, started, down, failed>>

\* The callback returns to on_timer_trigger(), which erases the handler, and
\* that to update_time() or cancel_timer(), which erases the node.
CallbackReturns ==
    /\ stack # <<>> /\ Head(stack).op \in {"fired", "cancelled"}
    /\ LET t == Head(stack).timer
       IN  /\ timers_map' = Forgotten(t)
           /\ EraseNode(t)
           /\ failed' = failed
                \cup (IF t \in timers_map THEN {} ELSE {"handler erased twice"})
                \cup (IF IsNode(t) THEN {} ELSE {"node erased twice"})
    /\ stack' = Tail(stack)
    /\ UNCHANGED <<clock, now, calls, intercepting, messageVars, started, down>>

-----------------------------------------------------------------------------
(* What the context does in between. *)

\* update_time(): the callback of the first node that has expired; a handler
\* that is gone is not called, but its node is erased.
Expired == timer_nodes # <<>> /\ Head(timer_nodes).deadline < now

Fire ==
    /\ stack # <<>> /\ Head(stack).op = "update"
    /\ LET t == Head(timer_nodes).timer
       IN  \/ /\ Expired /\ t \in timers_map
              /\ stack' = <<[op |-> "fired", who |-> Owner[t], timer |-> t]>> \o stack
              /\ calls' = [calls EXCEPT ![t] = @ + 1]
              /\ UNCHANGED timer_nodes
           \/ /\ Expired /\ t \notin timers_map
              /\ timer_nodes' = Tail(timer_nodes)
              /\ UNCHANGED <<stack, calls>>
           \/ /\ ~Expired
              /\ stack' = Tail(stack)
              /\ UNCHANGED <<timer_nodes, calls>>
    /\ UNCHANGED <<clock, now, timers_map, intercepting, messageVars, started, down, failed>>

InsertAfterUpdate ==
    /\ stack # <<>> /\ Head(stack).op = "insert"
    /\ Arm(Head(stack).timer, Head(stack).interval, now)
    /\ stack' = Tail(stack)
    /\ UNCHANGED <<clock, now, calls, intercepting, messageVars, started, down, failed>>

FindAfterUpdate ==
    /\ stack # <<>> /\ Head(stack).op = "find"
    /\ FindAndCancel(Head(stack).timer, Tail(stack))
    /\ UNCHANGED <<clock, now, timer_nodes, timers_map, intercepting, messageVars, started, down>>

\* actor_base_t::shutdown_finish(): the actor cancels what timers it has.
Finish ==
    /\ stack # <<>> /\ Head(stack).op = "finish"
    /\ LET a == Head(stack).who
           mine == {t \in timers_map : Owner[t] = a}
       IN  \/ /\ \E t \in mine : CancelTimer(t, stack)
              /\ UNCHANGED down
           \/ /\ mine = {}
              /\ down' = down \cup {a}
              /\ stack' = Tail(stack)
              /\ UNCHANGED <<now, calls, failed>>
    /\ UNCHANGED <<clock, timer_nodes, timers_map, intercepting, messageVars, started>>

\* do_process() takes a message; supervisor_thread_t::intercept() calls the
\* handler if it is tagged.
Take ==
    /\ stack = <<>> /\ queue # <<>>
    /\ LET m == Head(queue)
           body == [op |-> IF m.kind = "end" THEN "finish" ELSE "handler", who |-> m.to]
           tagged == m.kind = "io" /\ m.to \notin down
       IN  /\ intercepting' = tagged
           /\ queue' = IF tagged THEN Tail(queue) \o inbound ELSE Tail(queue)
           /\ inbound' = IF tagged THEN <<>> ELSE inbound
           /\ now' = IF tagged THEN clock ELSE now
           /\ stack' = IF m.to \in down THEN <<>>
                       ELSE IF tagged THEN <<UpdateTime, body>> ELSE <<body>>
    /\ UNCHANGED <<clock, timerVars, posted, started, down, failed>>

\* The predicate of the wait, or the end of wait_until().
Due ==
    \/ inbound # <<>>
    \/ timer_nodes # <<>> /\ Head(timer_nodes).deadline <= clock

\* system_context_thread_t::run(), around the wait.
Wait ==
    /\ stack = <<>> /\ queue = <<>>
    /\ Due
    /\ queue' = inbound /\ inbound' = <<>>
    /\ ReadsClock
    /\ stack' = <<UpdateTime>>
    /\ UNCHANGED <<clock, timerVars, intercepting, posted, started, down, failed>>

-----------------------------------------------------------------------------
(* Other threads, and time *)

\* supervisor_thread_t::enqueue()
Enqueue(m) ==
    /\ posted < MaxMessages
    /\ posted' = posted + 1
    /\ inbound' = Append(inbound, m)
    /\ UNCHANGED <<clock, now, timerVars, intercepting, queue, stack, started, down, failed>>

Tick ==
    /\ clock < Horizon
    /\ clock' = clock + 1
    /\ UNCHANGED <<now, timerVars, intercepting, messageVars, stack, started, down, failed>>

\* run() leaves its loop when the root supervisor is down, after its actors.
Thread ==
    /\ failed = {} /\ down # Actors
    /\ \/ Take \/ Wait \/ Fire \/ InsertAfterUpdate \/ FindAfterUpdate \/ Finish
       \/ HandlerReturns \/ CallbackReturns
       \/ \E a \in Actors, t \in Timers :
            \/ UserCancels(a, t)
            \/ \E i \in Intervals : StartTimer(a, t, i)

Next ==
    \/ Thread
    \/ failed = {} /\ \E m \in Messages : Enqueue(m)
    \/ failed = {} /\ Tick

Spec == Init /\ [][Next]_vars
FairSpec == Spec /\ WF_vars(Thread) /\ WF_vars(Tick)

-----------------------------------------------------------------------------
(* Properties *)

\* The callback of a timer is called once at most, whether the timer strikes
\* or is cancelled (on_timer_trigger() calls it before it erases the handler).
FiredOnce == \A t \in Timers : calls[t] <= 1

\* cancel_timer() finds the timer it is asked to cancel, and neither
\* update_time() nor on_timer_trigger() erases what a callback has erased.
NoAssertionFails == failed = {}

\* Where no operation is under way the list of deadlines and the actors'
\* handlers are about the same timers, so that run() waits for those there are,
\* and an actor that has ended has left none (update_time(), shutdown_finish()).
TimersAgree ==
    stack = <<>> =>
        /\ timers_map = {timer_nodes[k].timer : k \in DOMAIN timer_nodes}
        /\ \A t \in timers_map : Owner[t] \notin down

\* The list of deadlines is sorted, for update_time() and run() look at its
\* first node only (start_timer()).
Sorted ==
    \A i, j \in DOMAIN timer_nodes :
        i < j => timer_nodes[i].deadline <= timer_nodes[j].deadline

\* A timer that was started strikes or is cancelled, whatever else the thread
\* is busy with (run() waits no longer than to the first deadline).
EveryTimerIsCalled == \A t \in Timers : t \in started ~> calls[t] > 0
=============================================================================

-------------------------------- MODULE Loops --------------------------------
(***************************************************************************)
(* Two supervisors, one on a libev loop and one on a strand of boost asio, *)
(* each in a thread of its own, as in examples/ping-pong-ev_and_asio.cpp:  *)
(* the pinger lives with the first, the ponger with the second.  A message *)
(* to the asio supervisor is a job on its strand.  The ev supervisor takes *)
(* its messages under a mutex and is woken by an asynchronous watcher,     *)
(* whose signals libev joins into one; it counts references to itself for  *)
(* the time a wake-up is under way.                                        *)
(*                                                                         *)
(* The model begins when both supervisors have started their actors, and   *)
(* pinger and ponger are linked.                                           *)
(***************************************************************************)
EXTENDS Integers, Sequences, FiniteSets, SequencesExt

CONSTANTS
    Pings,          \* pings_count
    News,           \* how many messages actors of the asio side send unasked
    Early           \* TRUE if they may do so before the ev side has spoken

ASSUME CountsAssumption == Pings \in Nat /\ News \in Nat /\ Early \in BOOLEAN

Ids == 1..Pings
\* To another loop, and within one; `n` counts the messages sent to a loop.
Remote == {"ping", "pong", "notice", "news", "trigger"}
Local == {"go", "error", "leave", "end"}
Messages == [kind : Remote \cup Local, id : 0..Pings, n : Nat]
Message(kind, id) == [kind |-> kind, id |-> id, n |-> 0]

VARIABLES
    main,           \* where main() is
    \* the ev supervisor
    evState, evRun, \* its state, and what its thread is doing
    refs,           \* references to it
    inbound, pending,
    signal,         \* its async_watcher was sent a signal
    watching,       \*     and is active
    queue,
    timers,         \* ids of the requests whose ev_timer is active
    \* the asio supervisor
    asioState, asioRun,
    strand,         \* jobs
    asioQueue,
    guard,          \* the work guard of the io_context
    \* pinger and ponger
    pings_left, waiting, linked, announced,
    sent            \* messages sent to each loop

evVars == <<evState, evRun, refs, inbound, pending, signal, watching, queue, timers>>
asioVars == <<asioState, asioRun, strand, asioQueue, guard>>
vars == <<main, evVars, asioVars, pings_left, waiting, linked, announced, sent>>

Jobs == [job : {"start", "shutdown", "announce"}] \cup [job : {"message"}, message : Messages]

TypeOK ==
    /\ main \in {"starting", "ev_run", "shutdown", "join", "done"}
    /\ evState \in {"OPERATIONAL", "SHUT_DOWN"}
    /\ evRun \in {"loop", "move", "process", "stop", "drain"}
    /\ refs \in Nat
    /\ inbound \in Seq(Messages) /\ queue \in Seq(Messages) /\ asioQueue \in Seq(Messages)
    /\ {pending, signal, watching, guard, linked} \subseteq BOOLEAN
    /\ timers \subseteq Ids
    /\ asioState \in {"OPERATIONAL", "SHUTTING_DOWN", "SHUT_DOWN"}
    /\ asioRun \in {"idle", "process", "signal"}
    /\ strand \in Seq(Jobs)
    /\ pings_left \in 0..Pings /\ waiting \in 0..Pings /\ announced \in 0..News
    /\ sent \in [{"ev", "asio"} -> Nat]

Init ==
    /\ main = "starting"
    /\ evState = "OPERATIONAL" /\ evRun = "loop"
    /\ refs = 1                     \* sup_ev of main()
    /\ inbound = <<>> /\ pending = FALSE
    /\ signal = FALSE /\ watching = TRUE
    /\ queue = <<Message("go", 0)>>
    /\ timers = {}
    /\ asioState = "OPERATIONAL" /\ asioRun = "idle"
    /\ strand = <<[job |-> "start"]>>
    /\ asioQueue = <<>> /\ guard = TRUE
    /\ pings_left = Pings /\ waiting = 0 /\ linked = TRUE /\ announced = 0
    /\ sent = [l \in {"ev", "asio"} |-> 0]

-----------------------------------------------------------------------------
(* Plausible mistakes in the definitions below, named after them.  They are *)
(* not part of the specification; they show that the properties notice.    *)

FirstOfBatch == ~pending /\ inbound = <<>>
TakenOne == IF inbound = <<>> THEN <<>> ELSE <<Head(inbound)>>
WokenIdle == watching /\ evRun = "loop"

-----------------------------------------------------------------------------
(* Messages to the other thread *)

Numbered(m, l) == [m EXCEPT !.n = sent[l] + 1]
CountsSent(l) == sent' = [sent EXCEPT ![l] = @ + 1]

\* supervisor_ev_t::enqueue(), under the mutex.
Accepts == evState # "SHUT_DOWN"
TakesReference == ~pending
EvEnqueue(m, base) ==
    /\ CountsSent("ev")
    /\ IF Accepts
       THEN /\ inbound' = Append(inbound, Numbered(m, "ev"))
            /\ refs' = IF TakesReference THEN base + 1 ELSE base
       ELSE UNCHANGED inbound /\ refs' = base

\* supervisor_asio_t::enqueue()
AsioEnqueue(m) ==
    /\ CountsSent("asio")
    /\ strand' = Append(strand, [job |-> "message", message |-> Numbered(m, "asio")])

-----------------------------------------------------------------------------
(* The ev supervisor *)

\* supervisor_ev_t::start()
EvStart ==
    /\ refs' = IF pending THEN refs ELSE refs + 1
    /\ pending' = TRUE
    /\ signal' = TRUE

\* async_cb(), on_async(): libev calls it once for all signals.
OnAsync ==
    /\ main = "ev_run" /\ evRun = "loop"
    /\ signal /\ watching
    /\ signal' = FALSE
    /\ refs' = refs - 1
    /\ evRun' = "move"
    /\ UNCHANGED <<main, evState, inbound, pending, watching, queue, timers, asioVars,
                   pings_left, waiting, linked, announced, sent>>

\* move_inbound_queue() takes all there is, for libev joins the signals.
Taken == inbound
Left == SubSeq(inbound, Len(Taken) + 1, Len(inbound))
MoveInbound ==
    /\ evRun \in {"move", "drain"}
    /\ queue' = queue \o Taken
    /\ inbound' = Left
    /\ pending' = FALSE
    /\ evRun' = "process"
    /\ UNCHANGED <<main, evState, refs, signal, watching, timers, asioVars,
                   pings_left, waiting, linked, announced, sent>>

\* timer_cb(): the request is answered with an error.
TimerCb(id) ==
    /\ main = "ev_run" /\ evRun = "loop"
    /\ id \in timers
    /\ timers' = timers \ {id}
    /\ refs' = refs - 1
    /\ waiting' = 0
    /\ queue' = Append(queue, Message("error", id))
    /\ evRun' = "process"
    /\ UNCHANGED <<main, evState, inbound, pending, signal, watching, asioVars,
                   pings_left, linked, announced, sent>>

\* do_start_timer()
StartsTimer(id, active, count) == timers' = active \cup {id} /\ refs' = count + 1

\* pinger_t::send_ping(): a request with its timer, or the end.
SendPing(rest, active, count) ==
    IF pings_left > 0
    THEN LET id == Pings - pings_left + 1
         IN  /\ pings_left' = pings_left - 1
             /\ waiting' = id
             /\ queue' = Append(rest, Message("ping", id))
             /\ StartsTimer(id, active, count)
    ELSE /\ queue' = Append(rest, Message("leave", 0))
         /\ timers' = active /\ refs' = count /\ waiting' = 0
         /\ UNCHANGED pings_left

\* on_start(), and on_pong() after an error.
OnStart ==
    /\ Head(queue).kind \in {"go", "error"}
    /\ SendPing(Tail(queue), timers, refs)
    /\ UNCHANGED <<evState, evRun, inbound, signal, strand, linked, sent>>

\* on_pong(); the answer to a request that is no longer known is discarded.
OnPong ==
    /\ Head(queue).kind = "pong"
    /\ IF Head(queue).id = waiting
       THEN SendPing(Tail(queue), timers \ {waiting}, refs - 1)
       ELSE queue' = Tail(queue) /\ UNCHANGED <<pings_left, waiting, timers, refs>>
    /\ UNCHANGED <<evState, evRun, inbound, signal, strand, linked, sent>>

OnNews ==
    /\ Head(queue).kind = "news"
    /\ queue' = Tail(queue)
    /\ UNCHANGED <<evState, evRun, inbound, signal, strand, linked, sent, pings_left, waiting,
                   timers, refs>>

ToPonger ==
    /\ Head(queue).kind \in {"ping", "notice"}
    /\ AsioEnqueue(Head(queue))
    /\ queue' = Tail(queue)
    /\ UNCHANGED <<evState, evRun, inbound, signal, linked, pings_left, waiting, timers, refs>>

\* The pinger ends: it gives up the link, and its shutdown_finish() calls
\* supervisor_ev_t::shutdown(), which sends the supervisor a trigger.
OnLeave ==
    /\ Head(queue).kind = "leave"
    /\ queue' = Append(Tail(queue), Message("notice", 0))
    /\ EvEnqueue(Message("trigger", 0), refs)
    /\ signal' = TRUE
    /\ UNCHANGED <<evState, evRun, strand, linked, pings_left, waiting, timers>>

OnTrigger ==
    /\ Head(queue).kind = "trigger"
    /\ queue' = Append(Tail(queue), Message("end", 0))
    /\ UNCHANGED <<evState, evRun, inbound, signal, strand, linked, sent, pings_left, waiting,
                   timers, refs>>

\* supervisor_ev_t::shutdown_finish(), up to ev_async_stop()
ShutdownFinish ==
    /\ Head(queue).kind = "end"
    /\ queue' = Tail(queue)
    /\ evState' = "SHUT_DOWN"
    /\ evRun' = "stop"
    /\ UNCHANGED <<inbound, signal, strand, linked, sent, pings_left, waiting, timers, refs>>

Stop ==
    /\ evRun = "stop"
    /\ watching' = FALSE /\ signal' = FALSE
    /\ evRun' = "drain"
    /\ UNCHANGED <<main, evState, refs, inbound, pending, queue, timers, asioVars,
                   pings_left, waiting, linked, announced, sent>>

\* do_process()
Process ==
    /\ evRun = "process" /\ queue # <<>>
    /\ \/ OnStart \/ OnPong \/ OnNews \/ ToPonger \/ OnLeave \/ OnTrigger \/ ShutdownFinish
    /\ UNCHANGED <<main, pending, watching, asioState, asioRun, asioQueue, guard, announced>>

Processed ==
    /\ evRun = "process" /\ queue = <<>>
    /\ evRun' = "loop"
    /\ UNCHANGED <<main, evState, refs, inbound, pending, signal, watching, queue, timers,
                   asioVars, pings_left, waiting, linked, announced, sent>>

-----------------------------------------------------------------------------
(* The asio supervisor *)

\* The strand runs one job at a time; each ends with do_process().
RunJob ==
    /\ main # "starting"
    /\ asioRun = "idle" /\ strand # <<>>
    /\ strand' = Tail(strand)
    /\ asioRun' = "process"
    /\ LET j == Head(strand)
           ends == j.job = "shutdown" /\ ~linked
       IN  /\ asioQueue' = IF j.job = "message" THEN <<j.message>>
                           ELSE IF j.job = "announce" THEN <<Message("news", 0)>> ELSE <<>>
           /\ asioState' = IF ends THEN "SHUT_DOWN"
                           ELSE IF j.job = "shutdown" THEN "SHUTTING_DOWN" ELSE asioState
           /\ guard' = (guard /\ ~ends)
    /\ UNCHANGED <<main, evVars, pings_left, waiting, linked, announced, sent>>

\* ponger_t::on_ping()
OnPing ==
    /\ Head(asioQueue).kind = "ping"
    /\ asioQueue' = IF asioState = "SHUT_DOWN" THEN Tail(asioQueue)
                    ELSE Append(Tail(asioQueue), Message("pong", Head(asioQueue).id))
    /\ UNCHANGED <<refs, inbound, asioState, asioRun, guard, linked, sent>>

\* The ponger's client has gone: a shutdown that waits for it goes on.
OnNotice ==
    /\ Head(asioQueue).kind = "notice"
    /\ asioQueue' = Tail(asioQueue)
    /\ linked' = FALSE
    /\ asioState' = IF asioState = "SHUTTING_DOWN" THEN "SHUT_DOWN" ELSE asioState
    /\ guard' = (guard /\ asioState # "SHUTTING_DOWN")
    /\ UNCHANGED <<refs, inbound, asioRun, sent>>

ToPinger ==
    /\ Head(asioQueue).kind \in {"pong", "news"}
    /\ EvEnqueue(Head(asioQueue), refs)
    /\ asioQueue' = Tail(asioQueue)
    /\ asioRun' = IF Accepts THEN "signal" ELSE asioRun
    /\ UNCHANGED <<asioState, guard, linked>>

AsioProcess ==
    /\ asioRun = "process" /\ asioQueue # <<>>
    /\ OnPing \/ OnNotice \/ ToPinger
    /\ UNCHANGED <<main, evState, evRun, pending, signal, watching, queue, timers, strand,
                   pings_left, waiting, announced>>

\* enqueue() of the ev supervisor has left the mutex: ev_async_send(), which
\* libev forgets of a watcher that was stopped.
Woken == watching
AsyncSend ==
    /\ asioRun = "signal"
    /\ signal' = Woken
    /\ asioRun' = "process"
    /\ UNCHANGED <<main, evState, evRun, refs, inbound, pending, watching, queue, timers,
                   asioState, strand, asioQueue, guard, pings_left, waiting, linked, announced,
                   sent>>

AsioProcessed ==
    /\ asioRun = "process" /\ asioQueue = <<>>
    /\ asioRun' = "idle"
    /\ UNCHANGED <<main, evVars, asioState, strand, asioQueue, guard, pings_left, waiting,
                   linked, announced, sent>>

\* An actor of the asio side has something to tell, through its forwarder.
Announce ==
    /\ announced < News /\ asioState = "OPERATIONAL"
    /\ Early \/ sent["asio"] > 0
    /\ announced' = announced + 1
    /\ strand' = Append(strand, [job |-> "announce"])
    /\ UNCHANGED <<main, evVars, asioState, asioRun, asioQueue, guard, pings_left, waiting,
                   linked, sent>>

-----------------------------------------------------------------------------
(* main() *)

Starts ==
    /\ main = "starting"
    /\ EvStart
    /\ main' = "ev_run"
    /\ UNCHANGED <<evState, evRun, inbound, watching, queue, timers, asioVars,
                   pings_left, waiting, linked, announced, sent>>

\* ev_run() returns when no watcher is active.
EvRunReturns ==
    /\ main = "ev_run" /\ evRun = "loop" /\ ~watching /\ timers = {}
    /\ main' = "shutdown"
    /\ UNCHANGED <<evVars, asioVars, pings_left, waiting, linked, announced, sent>>

\* sup_asio->shutdown()
ShutsAsioDown ==
    /\ main = "shutdown"
    /\ strand' = Append(strand, [job |-> "shutdown"])
    /\ main' = "join"
    /\ UNCHANGED <<evVars, asioState, asioRun, asioQueue, guard, pings_left, waiting, linked,
                   announced, sent>>

\* io_context::run() returns when nothing is left to do.
Joins ==
    /\ main = "join"
    /\ ~guard /\ strand = <<>> /\ asioRun = "idle"
    /\ main' = "done"
    /\ UNCHANGED <<evVars, asioVars, pings_left, waiting, linked, announced, sent>>

MainThread ==
    \/ Starts \/ OnAsync \/ MoveInbound \/ Process \/ Processed \/ Stop
    \/ EvRunReturns \/ ShutsAsioDown \/ Joins
AsioThread == RunJob \/ AsioProcess \/ AsyncSend \/ AsioProcessed

Next ==
    \/ MainThread \/ AsioThread \/ Announce
    \/ \E id \in Ids : TimerCb(id)

Spec == Init /\ [][Next]_vars
FairSpec == Spec /\ WF_vars(MainThread) /\ WF_vars(AsioThread)

-----------------------------------------------------------------------------
(* Properties *)

\* The messages sent from one loop to the other are taken once each, in order,
\* and only an ev supervisor that has ended refuses them: however enqueue(),
\* on_async() and shutdown_finish() interleave.
Numbers(seq) == {seq[i].n : i \in 1 .. Len(seq)} \ {0}
JobNumber(j) == IF j.job = "message" THEN j.message.n ELSE 0
JobNumbers(jobs) == {JobNumber(jobs[i]) : i \in 1 .. Len(jobs)} \ {0}
Boxes ==
    [l \in {"ev", "asio"} |->
        IF l = "ev" THEN Numbers(queue) \cup Numbers(inbound)
                    ELSE Numbers(asioQueue) \cup JobNumbers(strand)]
Box == INSTANCE Inbox WITH
    Loops <- {"ev", "asio"},
    box <- Boxes,
    closed <- IF evState = "SHUT_DOWN" THEN {"ev"} ELSE {}
ImplementsInbox == Box!Spec

\* While main() and the active timers hold the ev supervisor it is not
\* destroyed: on_async() releases no reference but those enqueue() and start()
\* took for a wake-up.
RefsAreHeld == refs >= 1 + Cardinality(timers)

\* Each reference that was taken for a wake-up has been released in the end.
RefsAreReturned == main = "done" => refs = 1

\* main() returns: neither loop waits for a message that was sent, or for a
\* timer, and the notice of the pinger precedes the shutdown of the ponger's
\* supervisor.
Terminates == <>(main = "done")
=============================================================================

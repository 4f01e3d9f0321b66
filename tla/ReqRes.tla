------------------------------- MODULE ReqRes -------------------------------
(***************************************************************************)
(* Requests and responses of the actors of one supervisor                  *)
(* (include/rotor/request.hpp, include/rotor/supervisor.h,                 *)
(* src/rotor/supervisor.cpp).                                              *)
(*                                                                         *)
(* A request carries as its reply address not the address of its author    *)
(* but an "imaginary" address the supervisor subscribed a lambda to.  A    *)
(* response therefore makes two hops through the queue: to the imaginary   *)
(* address, where the lambda looks the id up in request_map, and from      *)
(* there to the author.  A timer per request, owned by the supervisor,     *)
(* makes an error response that goes to the author in one hop.  The        *)
(* hazards are the races of these: the timer against a response that is    *)
(* between its hops, a late or a second response against an id that was    *)
(* already settled, an author or a supervisor that shuts down with         *)
(* requests in flight.                                                     *)
(*                                                                         *)
(* Abstracted: one response type, so one imaginary address per actor; the  *)
(* payload and the error code of a reply, which the lambda copies; and     *)
(* request_id_t does not wrap here (see the README).  A request id is the  *)
(* value last_req_id has when the request is made.                         *)
(***************************************************************************)
EXTENDS Naturals, Sequences

CONSTANTS
    Actors,         \* the authors of requests: the children and the supervisor
    Sup,            \* the supervisor
    Nobody,         \* the author of an id that is not in use yet
    MaxRequests,    \* bound: requests made in a behaviour
    MaxReplies      \* bound: replies the server sends to one request

ASSUME ActorsAssumption == Sup \in Actors /\ Nobody \notin Actors
ASSUME BoundsAssumption == MaxRequests \in Nat /\ MaxReplies \in Nat

Ids == 1 .. MaxRequests
Outcomes == {"reply", "timeout"}

\* The messages: the request, a response at the imaginary address, an answer
\* at the author's address, and the confirmation of the unsubscription from
\* an imaginary address.
Request == [kind : {"request"}, id : Ids]
Response == [kind : {"response"}, id : Ids]
Answer == [kind : {"answer"}, id : Ids, outcome : Outcomes]
Unsubscription == [kind : {"unsubscription"}, actor : Actors]
Messages == Request \cup Response \cup Answer \cup Unsubscription

AnswerToUnset(id, outcome) == [kind |-> "answer", id |-> id, outcome |-> "unset"]
AnswerTo(id, outcome) == [kind |-> "answer", id |-> id, outcome |-> outcome]

\* address_mapping_t and the subscription it holds, for one actor.
MappingStates == {"none", "mapped", "unsubscribing", "gone"}

VARIABLES
    last_req_id,    \* the last id that was given out
    owner,          \* [Ids -> Actors \cup {Nobody}]: request_curry_t::origin
    request_map,    \* the ids in supervisor_t::request_map
    timers_map,     \* the ids in the supervisor's actor_base_t::timers_map
    expired,        \* ids whose expiry waits in the event loop to be run
    queue,          \* the supervisor's queue
    held,           \* [Ids -> 0..MaxReplies]: replies the server may still send
    mapping,        \* [Actors -> MappingStates]
    alive,          \* the actors subscribed to their own address
    sup_down,       \* supervisor_t::shutdown_finish() has run
    answers,        \* history: [Ids -> Seq(Outcomes)], what the author saw
    discarded       \* history: ids given up through discard_request()

vars == <<last_req_id, owner, request_map, timers_map, expired, queue, held,
          mapping, alive, sup_down, answers, discarded>>

Init ==
    /\ last_req_id = 0
    /\ owner = [id \in Ids |-> Nobody]
    /\ request_map = {}
    /\ timers_map = {}
    /\ expired = {}
    /\ queue = <<>>
    /\ held = [id \in Ids |-> 0]
    /\ mapping = [a \in Actors |-> "none"]
    /\ alive = Actors
    /\ sup_down = FALSE
    /\ answers = [id \in Ids |-> <<>>]
    /\ discarded = {}

---------------------------------------------------------------------------
\* Plausible mistakes in the actions below, named after them.  They are not
\* part of the specification; they show that the properties notice.

\* send() that does not start the timer.
SendRequestUntimed(a) ==
    /\ a \in alive
    /\ last_req_id < MaxRequests
    /\ last_req_id' = last_req_id + 1
    /\ owner' = [owner EXCEPT ![last_req_id'] = a]
    /\ request_map' = request_map \cup {last_req_id'}
    /\ queue' = Append(queue, [kind |-> "request", id |-> last_req_id'])
    /\ mapping' = [mapping EXCEPT ![a] = IF @ = "none" THEN "mapped" ELSE @]
    /\ UNCHANGED <<timers_map, expired, held, alive, sup_down, answers, discarded>>

\* The lambda without discard_request().
ForwardResponseKept ==
    /\ queue # <<>>
    /\ Head(queue).kind = "response"
    /\ Head(queue).id \in request_map
    /\ queue' = Append(Tail(queue), AnswerTo(Head(queue).id, "reply"))
    /\ UNCHANGED <<last_req_id, owner, request_map, timers_map, expired, held,
                   mapping, alive, sup_down, answers, discarded>>

\* on_request_trigger() that takes every trigger for a cancellation.
TimerFiresSilently(id) ==
    /\ id \in expired
    /\ expired' = expired \ {id}
    /\ request_map' = IF id \in timers_map THEN request_map \ {id} ELSE request_map
    /\ timers_map' = timers_map \ {id}
    /\ UNCHANGED <<last_req_id, owner, queue, held, mapping, alive, sup_down,
                   answers, discarded>>

\* discard_request() that only cancels the timer.
DiscardRequestKept(id) ==
    /\ owner[id] = Sup
    /\ Sup \in alive
    /\ id \in timers_map
    /\ timers_map' = timers_map \ {id}
    /\ discarded' = discarded \cup {id}
    /\ UNCHANGED <<last_req_id, owner, request_map, expired, queue, held,
                   mapping, alive, sup_down, answers>>

---------------------------------------------------------------------------
\* do_request(...).send(timeout): take an id, map the author to an imaginary
\* address on its first request, remember the request, put it into the queue
\* and start its timer.
SendRequest(a) ==
    /\ a \in alive
    /\ last_req_id < MaxRequests
    /\ LET id == last_req_id + 1 IN
        /\ last_req_id' = id
        /\ owner' = [owner EXCEPT ![id] = a]
        /\ request_map' = request_map \cup {id}
        /\ timers_map' = timers_map \cup {id}
        /\ queue' = Append(queue, [kind |-> "request", id |-> id])
    /\ mapping' = [mapping EXCEPT ![a] = IF @ = "none" THEN "mapped" ELSE @]
    /\ UNCHANGED <<expired, held, alive, sup_down, answers, discarded>>

\* The server gets the request and keeps the message to reply to it later.
DeliverRequest ==
    /\ queue # <<>>
    /\ Head(queue).kind = "request"
    /\ held' = [held EXCEPT ![Head(queue).id] = MaxReplies]
    /\ queue' = Tail(queue)
    /\ UNCHANGED <<last_req_id, owner, request_map, timers_map, expired,
                   mapping, alive, sup_down, answers, discarded>>

\* reply_to() or reply_with_error() by the server, at any time, perhaps again.
ServerReplies(id) ==
    /\ held[id] > 0
    /\ held' = [held EXCEPT ![id] = @ - 1]
    /\ queue' = Append(queue, [kind |-> "response", id |-> id])
    /\ UNCHANGED <<last_req_id, owner, request_map, timers_map, expired,
                   mapping, alive, sup_down, answers, discarded>>

\* The lambda at the imaginary address gets a response it waits for: it
\* forwards the payload to the author, cancels the timer, forgets the id.
ForwardResponse ==
    /\ queue # <<>>
    /\ Head(queue).kind = "response"
    /\ LET id == Head(queue).id IN
        /\ mapping[owner[id]] \in {"mapped", "unsubscribing"}
        /\ id \in request_map
        /\ queue' = Append(Tail(queue), AnswerTo(id, "reply"))
        /\ request_map' = request_map \ {id}
        /\ timers_map' = timers_map \ {id}
    /\ UNCHANGED <<last_req_id, owner, expired, held, mapping, alive, sup_down,
                   answers, discarded>>

\* The imaginary address has no subscriber any more, or the id is not in
\* request_map: the response is silently dropped.
DropResponse ==
    /\ queue # <<>>
    /\ Head(queue).kind = "response"
    /\ LET id == Head(queue).id IN
        \/ mapping[owner[id]] \notin {"mapped", "unsubscribing"}
        \/ id \notin request_map
    /\ queue' = Tail(queue)
    /\ UNCHANGED <<last_req_id, owner, request_map, timers_map, expired, held,
                   mapping, alive, sup_down, answers, discarded>>

\* The author sees the answer if it is still subscribed to its address.
DeliverAnswer ==
    /\ queue # <<>>
    /\ Head(queue).kind = "answer"
    /\ LET m == Head(queue) IN
        answers' = IF owner[m.id] \in alive
                   THEN [answers EXCEPT ![m.id] = Append(@, m.outcome)]
                   ELSE answers
    /\ queue' = Tail(queue)
    /\ UNCHANGED <<last_req_id, owner, request_map, timers_map, expired, held,
                   mapping, alive, sup_down, discarded>>

\* The event loop notices that the timer is due and queues its callback
\* (asio defers it to the strand; ev and thread run it at once).
TimerExpires(id) ==
    /\ id \in timers_map
    /\ id \notin expired
    /\ expired' = expired \cup {id}
    /\ UNCHANGED <<last_req_id, owner, request_map, timers_map, queue, held,
                   mapping, alive, sup_down, answers, discarded>>

\* The callback: nothing if the timer was cancelled meanwhile, otherwise
\* on_request_trigger(id, false) answers the author with request_timeout.
TimerFires(id) ==
    /\ id \in expired
    /\ expired' = expired \ {id}
    /\ queue' = IF id \in timers_map /\ id \in request_map
                THEN Append(queue, AnswerTo(id, "timeout"))
                ELSE queue
    /\ request_map' = IF id \in timers_map THEN request_map \ {id} ELSE request_map
    /\ timers_map' = timers_map \ {id}
    /\ UNCHANGED <<last_req_id, owner, held, mapping, alive, sup_down, answers,
                   discarded>>

\* The supervisor gives up a request of its own (cancel_init() of the child
\* manager): only if its timer still runs.
DiscardRequest(id) ==
    /\ owner[id] = Sup
    /\ Sup \in alive
    /\ id \in timers_map
    /\ request_map' = request_map \ {id}
    /\ timers_map' = timers_map \ {id}
    /\ discarded' = discarded \cup {id}
    /\ UNCHANGED <<last_req_id, owner, expired, queue, held, mapping, alive,
                   sup_down, answers>>

\* An actor has unsubscribed from its own address on its shutdown.  The
\* supervisor is the last one to go.
ActorLeaves(a) ==
    /\ a \in alive
    /\ a = Sup => \A b \in Actors \ {Sup} :
                    b \notin alive /\ mapping[b] \in {"none", "gone"}
    /\ alive' = alive \ {a}
    /\ UNCHANGED <<last_req_id, owner, request_map, timers_map, expired, queue,
                   held, mapping, sup_down, answers, discarded>>

\* lifetime_plugin_t::unsubscribe() for the imaginary address of an actor
\* that left: the subscription lasts until the message comes back.
UnsubscribeMapping(a) ==
    /\ a \notin alive
    /\ mapping[a] = "mapped"
    /\ mapping' = [mapping EXCEPT ![a] = "unsubscribing"]
    /\ queue' = Append(queue, [kind |-> "unsubscription", actor |-> a])
    /\ UNCHANGED <<last_req_id, owner, request_map, timers_map, expired, held,
                   alive, sup_down, answers, discarded>>

DeliverUnsubscription ==
    /\ queue # <<>>
    /\ Head(queue).kind = "unsubscription"
    /\ mapping' = [mapping EXCEPT ![Head(queue).actor] = "gone"]
    /\ queue' = Tail(queue)
    /\ UNCHANGED <<last_req_id, owner, request_map, timers_map, expired, held,
                   alive, sup_down, answers, discarded>>

\* supervisor_t::shutdown_finish(): every timer is cancelled, and cancelling
\* the timer of a request erases the request.
ShutdownFinish ==
    /\ ~sup_down
    /\ alive = {}
    /\ \A a \in Actors : mapping[a] \in {"none", "gone"}
    /\ sup_down' = TRUE
    /\ request_map' = request_map \ timers_map
    /\ timers_map' = {}
    /\ UNCHANGED <<last_req_id, owner, expired, queue, held, mapping, alive,
                   answers, discarded>>

Deliver ==
    \/ DeliverRequest
    \/ ForwardResponse
    \/ DropResponse
    \/ DeliverAnswer
    \/ DeliverUnsubscription

Next ==
    \/ Deliver
    \/ ShutdownFinish
    \/ \E a \in Actors : SendRequest(a) \/ ActorLeaves(a) \/ UnsubscribeMapping(a)
    \/ \E id \in Ids :
        ServerReplies(id) \/ TimerExpires(id) \/ TimerFires(id) \/ DiscardRequest(id)

\* do_process() drains the queue, and the event loop runs until the root
\* supervisor is SHUT_DOWN, so that timers are served.  Nothing obliges a
\* server to reply or an actor to leave.
Fairness ==
    /\ WF_vars(Deliver)
    /\ \A id \in Ids : WF_vars(TimerExpires(id)) /\ WF_vars(TimerFires(id))

Spec == Init /\ [][Next]_vars /\ Fairness

---------------------------------------------------------------------------
TypeOK ==
    /\ last_req_id \in 0 .. MaxRequests
    /\ owner \in [Ids -> Actors \cup {Nobody}]
    /\ request_map \subseteq Ids
    /\ timers_map \subseteq Ids
    /\ expired \subseteq Ids
    /\ queue \in Seq(Messages)
    /\ held \in [Ids -> 0 .. MaxReplies]
    /\ mapping \in [Actors -> MappingStates]
    /\ alive \subseteq Actors
    /\ sup_down \in BOOLEAN
    /\ answers \in [Ids -> Seq(Outcomes)]
    /\ discarded \subseteq Ids

\* The author of a request sees at most one answer to it, whatever the order
\* of the response's two hops, its duplicates and the timeout
\* (supervisor.h: the lambda drops responses to ids it does not know).
AtMostOneAnswer == \A id \in Ids : Len(answers[id]) <= 1

\* A request is in request_map exactly as long as its timer runs.  Both
\* asserts on the way of an answer (in discard_request() and cancel_timer())
\* and the one of supervisor_t::shutdown_finish() rest on it.
RequestsHaveTimers ==
    /\ request_map = timers_map
    /\ sup_down => request_map = {}

\* discard_request() is the last that is heard of a request: cancel_init()
\* chose to forget the request over answering it, so that no unexpected
\* message can be seen.
DiscardIsFinal == \A id \in discarded : answers[id] = <<>>

QueuedAnswer(q, id) ==
    \E i \in 1 .. Len(q) : q[i].kind = "answer" /\ q[i].id = id

\* Refinement: every request is asked, and answered once or withdrawn.
StatusOf(id) ==
    IF owner[id] = Nobody THEN "idle"
    ELSE IF answers[id] # <<>> THEN "answered"
    ELSE IF id \in request_map \/ QueuedAnswer(queue, id) THEN "asked"
    ELSE "withdrawn"

Ex == INSTANCE Exchange WITH
        author <- owner,
        status <- [id \in Ids |-> StatusOf(id)],
        present <- alive

\* The machinery implements the promise: no request is answered twice, none
\* is revived, and only absent authors or the supervisor lose one.
ImplementsExchange == Ex!Spec

\* Every request is settled in the end, even if the server never replies:
\* the timer guards it until the answer is on its way.
EveryRequestSettles ==
    \A id \in Ids : (StatusOf(id) = "asked") ~> (StatusOf(id) # "asked")
=============================================================================

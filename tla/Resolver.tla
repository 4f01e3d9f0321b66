------------------------------- MODULE Resolver -------------------------------
(***************************************************************************)
(* resolver_worker_t of examples/boost-asio/beast-scrapper.cpp: one actor  *)
(* that resolves hosts for all the workers of Scrapper, one at a time,     *)
(* answers whoever waits for the same host at once and keeps a cache.      *)
(*                                                                         *)
(* Its handlers call each other: cancelling the timer of a resolution runs *)
(* on_timer() on the spot, which answers and may begin the next resolution *)
(* before on_resolve() goes on.  So each handler is an operator from what  *)
(* the actor remembers to what it remembers then, and an action applies    *)
(* one.  Completions and expiries are deferred to the strand and run there *)
(* in the order they came, an expiry if its timer is still there.          *)
(***************************************************************************)
EXTENDS Naturals, Sequences, FiniteSets, SequencesExt

CONSTANTS
    Requests, Endpoints,
    Of,             \* the endpoint each request asks for
    None            \* no request, and nothing in the cache

ASSUME EndpointsAssumption ==
    /\ IsFiniteSet(Requests)
    /\ Of \in [Requests -> Endpoints]
    /\ None \notin Requests \cup Endpoints

\* An answer is the addresses of an endpoint, which stands for them, or an error.
Errors == {"cancelled", "request_timeout", "not resolved"}

VARIABLES
    state,
    resolver,       \* what the actor remembers:
                    \*   queue, request, cache, timer_request,
                    \*   io      the resolutions under way, each holds resource::io
                    \*   timers  those that have a timer, each holds resource::timer
                    \*   answers what each request was answered
    asked,          \* the requests that have come
    strand, failed

vars == <<state, resolver, asked, strand, failed>>

Jobs == [job : {"io"}, request : Requests, ok : BOOLEAN] \cup [job : {"expiry"}, request : Requests]

TypeOK ==
    /\ state \in {"OPERATIONAL", "SHUTTING_DOWN"}
    /\ resolver \in [queue : Seq(Requests), request : Requests \cup {None},
                     cache : [Endpoints -> Endpoints \cup {None}],
                     timer_request : Requests \cup {None},
                     io : SUBSET Requests, timers : SUBSET Requests,
                     answers : [Requests -> Seq(Endpoints \cup Errors)]]
    /\ asked \subseteq Requests
    /\ strand \in Seq(Jobs)
    /\ failed \subseteq {"request does exist"}

Init ==
    /\ state = "OPERATIONAL"
    /\ resolver = [queue |-> <<>>, request |-> None, cache |-> [e \in Endpoints |-> None],
                   timer_request |-> None, io |-> {}, timers |-> {},
                   answers |-> [r \in Requests |-> <<>>]]
    /\ asked = {} /\ strand = <<>> /\ failed = {}

-----------------------------------------------------------------------------
(* Plausible mistakes in the definitions below, named after them.  They are *)
(* not part of the specification; they show that the properties notice.    *)

HoldsIo(R) == R.io # {}
AnswersKept(R, e, answer) ==
    IF R.request = None THEN R
    ELSE [R EXCEPT
            !.answers = [r \in Requests |->
                            IF r = R.request \/ (r \in Range(R.queue) /\ Of[r] = e)
                            THEN Append(@[r], answer) ELSE @[r]],
            !.request = None]

-----------------------------------------------------------------------------
(* What the handlers are made of *)

HasAny(R) == R.io # {} \/ R.timers # {}

\* mass_reply(): the request under way and those in the queue for the endpoint.
MassReply(R, e, answer) ==
    IF R.request = None THEN R
    ELSE [R EXCEPT
            !.answers = [r \in Requests |->
                            IF r = R.request \/ (r \in Range(R.queue) /\ Of[r] = e)
                            THEN Append(@[r], answer) ELSE @[r]],
            !.queue = SelectSeq(@, LAMBDA r : Of[r] # e),
            !.request = None]

ResolveStart(R) ==
    [R EXCEPT !.io = @ \cup {R.request},
              !.timers = @ \cup {R.request},
              !.timer_request = R.request]

\* Whether process() returns at once.
Busy(R) == HasAny(R) \/ R.queue = <<>>

\* process().  What the cache holds is offered to the request under way, of
\* which there is none here.
Process(R) ==
    LET e == Of[Head(R.queue)]
        offered == IF R.cache[e] = None THEN R ELSE MassReply(R, e, R.cache[e])
        taken == IF offered.request = None /\ offered.queue # <<>>
                 THEN [offered EXCEPT !.request = Head(offered.queue), !.queue = Tail(@)]
                 ELSE offered
    IN  IF Busy(R) THEN R
        ELSE IF taken.request = None THEN taken ELSE ResolveStart(taken)

\* on_timer(): the timer has struck, or is cancelled.
OnTimer(R, t, cancelled) ==
    Process(MassReply([R EXCEPT !.timers = @ \ {t}], Of[R.request],
                      IF cancelled THEN "cancelled" ELSE "request_timeout"))

\* do_cancel_timer() of the supervisor calls on_timer() on the spot.
DoCancelTimer(R, t) == OnTimer(R, t, TRUE)

CancelRequestTimer(R) ==
    IF R.timer_request = None THEN R
    ELSE [DoCancelTimer(R, R.timer_request) EXCEPT !.timer_request = None]

\* One more mistake: the queue is not looked at again.
AnswersOnly(R, addresses, ok) ==
    IF R.request = None THEN R
    ELSE MassReply(R, Of[R.request], IF ok THEN addresses ELSE "not resolved")

\* on_resolve() and on_resolve_error(), the timer having been cancelled: they
\* go on with the request that is under way now.
Resolved(R, addresses, ok) ==
    LET e == Of[R.request]
        cached == IF R.cache[e] = None THEN [R EXCEPT !.cache[e] = addresses] ELSE R
    IN  Process(IF R.request = None THEN R
                ELSE IF ok THEN MassReply(cached, e, cached.cache[e])
                ELSE MassReply(R, e, "not resolved"))

-----------------------------------------------------------------------------
(* The actions *)

\* on_request()
OnRequest(r) ==
    /\ r \notin asked
    /\ asked' = asked \cup {r}
    /\ \/ /\ state = "OPERATIONAL"
          /\ LET queued == [resolver EXCEPT !.queue = Append(@, r)]
             IN  resolver' = IF HasAny(resolver) THEN queued ELSE Process(queued)
       \/ /\ state = "SHUTTING_DOWN"
          /\ resolver' = [resolver EXCEPT !.answers[r] = Append(@, "cancelled")]
    /\ UNCHANGED <<state, strand, failed>>

\* The actor is to shut down, and does not before its resources are released.
Shutdown ==
    /\ state = "OPERATIONAL"
    /\ state' = "SHUTTING_DOWN"
    /\ UNCHANGED <<resolver, asked, strand, failed>>

\* The job of a completion.  cancel_timer() asserts that the timer is there;
\* it is not if it has struck, for on_timer() leaves timer_request set.
IoJob(r, ok) ==
    LET released == [resolver EXCEPT !.io = @ \ {r}]
    IN  IF released.timer_request \in released.timers \cup {None}
        THEN /\ \E cancelled \in {CancelRequestTimer(released)} :
                    resolver' = Resolved(cancelled, Of[r], ok)
             /\ UNCHANGED failed
        ELSE /\ resolver' = released
             /\ failed' = failed \cup {"request does exist"}

ExpiryJob(t) ==
    /\ resolver' = IF t \in resolver.timers THEN OnTimer(resolver, t, FALSE) ELSE resolver
    /\ UNCHANGED failed

RunJob ==
    /\ strand # <<>>
    /\ strand' = Tail(strand)
    /\ LET j == Head(strand)
       IN  \/ j.job = "io" /\ IoJob(j.request, j.ok)
           \/ j.job = "expiry" /\ ExpiryJob(j.request)
    /\ UNCHANGED <<state, asked>>

\* A resolution ends, or a timer strikes: a job for the strand.
Completes(r, ok) ==
    /\ r \in resolver.io
    /\ \A j \in Range(strand) : j.job = "io" => j.request # r
    /\ strand' = Append(strand, [job |-> "io", request |-> r, ok |-> ok])
    /\ UNCHANGED <<state, resolver, asked, failed>>

Expires(t) ==
    /\ t \in resolver.timers
    /\ [job |-> "expiry", request |-> t] \notin Range(strand)
    /\ strand' = Append(strand, [job |-> "expiry", request |-> t])
    /\ UNCHANGED <<state, resolver, asked, failed>>

-----------------------------------------------------------------------------
\* A failed assertion ends the program.
Next ==
    /\ failed = {}
    /\ \/ RunJob \/ Shutdown
       \/ \E r \in Requests : OnRequest(r) \/ Expires(r) \/ \E ok \in BOOLEAN : Completes(r, ok)

Spec == Init /\ [][Next]_vars
\* The strand goes on, a resolution ends one way or the other and a timer that
\* is not cancelled strikes in the end.
FairSpec ==
    /\ Spec /\ WF_vars(failed = {} /\ RunJob)
    /\ \A r \in Requests :
        /\ WF_vars(failed = {} /\ \E ok \in BOOLEAN : Completes(r, ok))
        /\ WF_vars(failed = {} /\ Expires(r))

-----------------------------------------------------------------------------
(* Properties *)

Places(r) ==
    Len(resolver.answers[r])
        + Cardinality({i \in 1 .. Len(resolver.queue) : resolver.queue[i] = r})
        + (IF resolver.request = r THEN 1 ELSE 0)

\* A request that has come waits in the queue, is under way or has been
\* answered, one of them and once, although the end of a resolution answers
\* twice, in on_timer() and in on_resolve(), with another begun in between.
NoneLost == \A r \in Requests : Places(r) = IF r \in asked THEN 1 ELSE 0

\* There is one resolution at a time and one timer, although a resolution may
\* begin within the end of another, and a timer outlives the one it was for.
OneAtATime == Cardinality(resolver.io) <= 1 /\ Cardinality(resolver.timers) <= 1

\* No request waits forever, though the timers of the resolutions that begin
\* within another's end are never cancelled: the queue waits for them.
EveryoneAnswered ==
    \A r \in Requests : r \in asked ~> resolver.answers[r] # <<>> \/ failed # {}

\* Nobody cancels a request: one that has been resolved in time is not answered
\* that it was cancelled.  It is: on_resolve() cancels the timer first.
NoneCancelled ==
    state = "OPERATIONAL" =>
        \A r \in Requests : "cancelled" \notin Range(resolver.answers[r])

\* The timer that is cancelled when a resolution ends is there.  It is not if it
\* has struck before, for on_timer() leaves timer_request set.
NoAssertionFails == failed = {}

\* The cache holds of an endpoint what that endpoint was resolved to.  It does
\* not if another resolution was begun while the timer was being cancelled.
CacheIsRight == \A e \in Endpoints : resolver.cache[e] \in {e, None}
=============================================================================

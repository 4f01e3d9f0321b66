------------------------------- MODULE Scrapper -------------------------------
(***************************************************************************)
(* examples/boost-asio/beast-scrapper.cpp: a client keeps a number of http *)
(* requests under way; the manager, a supervisor, gives each to a free     *)
(* worker and creates a worker when there is none; a worker resolves the   *)
(* host, connects, writes and reads, and has a timer on that.  Each of the *)
(* three waits for the next with a timer of its own.                       *)
(*                                                                         *)
(* All actors share one strand: a job is the completion of an operation or *)
(* the expiry of a timer, and it ends when the queue of messages is empty. *)
(* An expiry is deferred to the strand and finds its timer cancelled or    *)
(* not.  The resolver is the environment here, and so is the http server.  *)
(***************************************************************************)
EXTENDS Naturals, Sequences, FiniteSets, SequencesExt

CONSTANTS
    MaxWorkers,     \* no more are created
    concurrency, max_requests,
    MaxFailures,    \* MAX_HTTP_FAILURES
    Strikes,        \* whose timers may expire
    Slow            \* the requests that may last as long as a timer

ASSUME LoadAssumption ==
    /\ MaxWorkers \in Nat
    /\ concurrency \in Nat \ {0} /\ max_requests \in Nat \ {0}
    /\ MaxFailures \in Nat
    /\ Strikes \subseteq {"client", "manager", "worker"}
    /\ Slow \subseteq Nat

Workers == 1..MaxWorkers    \* in the order the manager creates them
None == 0
Requests == 1..max_requests
Timers == [of : {"client", "manager", "worker"}, request : Requests]
Timer(of, r) == [of |-> of, request |-> r]

\* kind, the worker it is to or from, the request, and whether all went well
Messages ==
    [kind : {"request", "work", "response", "answer"}, worker : Workers \cup {None},
     request : Requests, ok : BOOLEAN]
        \cup [kind : {"resolved"}, worker : Workers, ok : BOOLEAN]
        \cup [kind : {"created"}, worker : Workers]
Message(kind, w, r, ok) == [kind |-> kind, worker |-> w, request |-> r, ok |-> ok]

Jobs == [job : {"expiry"}, timer : Timers] \cup [job : {"io"}, worker : Workers, ok : BOOLEAN]

\* orig_req, response, sock, and timer_request, the id the worker remembers;
\* what it has acquired: resolve so many times, io and what for, the timer.
Idle == [orig |-> 0, response |-> "none", sock |-> FALSE, timer_request |-> 0,
         resolve |-> 0, io |-> "none", timer |-> FALSE]

VARIABLES
    client,             \* the state of the client
    active_requests, total_requests, http_errors,
    req_mapping,        \* the worker each request was forwarded to, or None
    free_workers, delayed_queue,
    created,            \* workers there are, initializing or not
    worker,
    asked,              \* requests that await a response: <<of, request>> as a Timer
    timers,             \* timers of the supervisors' timers_map
    queue, strand,
    failed

clientVars == <<client, active_requests, total_requests, http_errors>>
managerVars == <<req_mapping, free_workers, delayed_queue, created>>
vars == <<clientVars, managerVars, worker, asked, timers, queue, strand, failed>>

TypeOK ==
    /\ client \in {"OPERATIONAL", "SHUTTING_DOWN"}
    /\ active_requests \subseteq Requests
    /\ total_requests \in 0..max_requests /\ http_errors \in Nat
    /\ req_mapping \in [Requests -> Workers \cup {None}]
    /\ free_workers \subseteq created /\ created \subseteq Workers
    /\ delayed_queue \in Seq(Requests)
    /\ worker \in [Workers -> [orig : 0..max_requests, response : {"none", "ok", "error"},
                               sock : BOOLEAN, timer_request : 0..max_requests,
                               resolve : Nat, io : {"none", "connect", "write", "read"},
                               timer : BOOLEAN]]
    /\ asked \subseteq Timers /\ timers \subseteq Timers
    /\ queue \in Seq(Messages) /\ strand \in Seq(Jobs)
    /\ failed \subseteq {"socket", "request does exist", "worker initialized"}

-----------------------------------------------------------------------------
(* Plausible mistakes in the definitions below, named after them.  They are *)
(* not part of the specification; they show that the properties notice.    *)

GivesUpLate(errors) == errors > MaxFailures
TimerCancelledOnly(k) == [k EXCEPT !.timer_request = 0]

-----------------------------------------------------------------------------
(* The client *)

\* make_request(), so many times: a request with its timer.
New(n) ==
    LET most == IF client = "OPERATIONAL" THEN max_requests - total_requests ELSE 0
    IN  total_requests + 1 .. total_requests + (IF n < most THEN n ELSE most)
RequestMessages(S) == [i \in 1..Cardinality(S) |->
                          Message("request", None, total_requests + i, TRUE)]
Asks(of, S) == {Timer(of, r) : r \in S}

\* on_start() of the client is the initial state.
Init ==
    LET first == 1..(IF concurrency < max_requests THEN concurrency ELSE max_requests)
    IN  /\ client = "OPERATIONAL"
        /\ active_requests = first /\ total_requests = Cardinality(first) /\ http_errors = 0
        /\ req_mapping = [r \in Requests |-> None]
        /\ free_workers = {} /\ delayed_queue = <<>> /\ created = {}
        /\ worker = [w \in Workers |-> Idle]
        /\ asked = Asks("client", first) /\ timers = Asks("client", first)
        /\ queue = [i \in first |-> Message("request", None, i, TRUE)]
        /\ strand = <<>> /\ failed = {}

Next1(kind) == queue # <<>> /\ Head(queue).kind = kind
Post(ms) == queue' = Tail(queue) \o ms

\* A response is of use to a supervisor that still waits for it; it cancels
\* the timer then, and otherwise the response is discarded.
Awaited(of, r) == Timer(of, r) \in asked
Settle(of, r, S) ==
    /\ asked' = (asked \ {Timer(of, r)}) \cup S
    /\ timers' = (timers \ {Timer(of, r)}) \cup S

\* Whether the client has had enough.
GivesUp(errors) == errors >= MaxFailures

\* client_t::on_response(); an answer that came may still be an http error.
OnAnswer ==
    /\ Next1("answer")
    /\ LET r == Head(queue).request
       IN  IF Awaited("client", r)
           THEN \E well \in {Head(queue).ok, FALSE} :
                LET errors == IF well THEN http_errors ELSE http_errors + 1
                    more == IF GivesUp(errors) THEN {} ELSE New(1)
                    left == (active_requests \ {r}) \cup more
                IN  /\ Settle("client", r, Asks("client", more))
                    /\ active_requests' = left
                    /\ total_requests' = total_requests + Cardinality(more)
                    /\ http_errors' = errors
                    /\ client' = IF left = {} THEN "SHUTTING_DOWN" ELSE client
                    /\ Post(RequestMessages(more))
           ELSE Post(<<>>) /\ UNCHANGED <<clientVars, asked, timers>>
    /\ UNCHANGED <<managerVars, worker, strand, failed>>

-----------------------------------------------------------------------------
(* The manager *)

\* forward()
Forward(r, w) ==
    /\ req_mapping' = [req_mapping EXCEPT ![r] = w]
    /\ asked' = asked \cup {Timer("manager", r)}
    /\ timers' = timers \cup {Timer("manager", r)}
    /\ Post(<<Message("work", w, r, TRUE)>>)

\* on_request(): a free worker, or a new one, which is told of as a child.
OnRequest ==
    /\ Next1("request")
    /\ LET r == Head(queue).request
       IN  \/ \E w \in free_workers :
                /\ free_workers' = free_workers \ {w}
                /\ Forward(r, w)
                /\ UNCHANGED <<delayed_queue, created>>
           \/ /\ free_workers = {}
              /\ LET w == Cardinality(created) + 1
                 IN  /\ w \in Workers
                     /\ created' = created \cup {w}
                     /\ Post(<<[kind |-> "created", worker |-> w]>>)
              /\ delayed_queue' = Append(delayed_queue, r)
              /\ UNCHANGED <<free_workers, req_mapping, asked, timers>>
    /\ UNCHANGED <<clientVars, worker, strand, failed>>

\* on_child_init(), which asserts that the worker has been initialized.
OnChildInit ==
    /\ Next1("created")
    /\ \/ /\ Forward(Head(delayed_queue), Head(queue).worker)
          /\ delayed_queue' = Tail(delayed_queue)
          /\ UNCHANGED failed
       \/ /\ failed' = failed \cup {"worker initialized"}
          /\ UNCHANGED <<req_mapping, delayed_queue, asked, timers, queue>>
    /\ UNCHANGED <<clientVars, free_workers, created, worker, strand>>

\* http_manager_t::on_response(), of the worker or of the manager's timer
OnResponse ==
    /\ Next1("response")
    /\ LET r == Head(queue).request
       IN  IF Awaited("manager", r)
           THEN /\ Settle("manager", r, {})
                /\ free_workers' = free_workers \cup {req_mapping[r]}
                /\ req_mapping' = [req_mapping EXCEPT ![r] = None]
                /\ Post(<<Message("answer", None, r, Head(queue).ok)>>)
           ELSE Post(<<>>) /\ UNCHANGED <<req_mapping, free_workers, asked, timers>>
    /\ UNCHANGED <<clientVars, delayed_queue, created, worker, strand, failed>>

-----------------------------------------------------------------------------
(* The workers *)

HasAny(k) == k.resolve > 0 \/ k.io # "none" \/ k.timer

\* make_response(), unless there is one.
WithResponse(k, result) == [k EXCEPT !.response = IF @ = "none" THEN result ELSE @]

\* finish_response(): the response is sent when no resource is held.
Finished(k) == IF HasAny(k) THEN k ELSE [k EXCEPT !.orig = 0, !.response = "none"]
Reply(w, k) ==
    IF HasAny(k) \/ k.orig = 0 THEN <<>>
    ELSE <<Message("response", w, k.orig, k.response = "ok")>>

Becomes(w, k) == worker' = [worker EXCEPT ![w] = k]

\* cancel_timer(), and on_timer() it calls, at the end of a request.
Remembered(k) == Timer("worker", k.timer_request)
TimerCancelled(k) ==
    [WithResponse(k, "error") EXCEPT !.timer = FALSE, !.timer_request = 0]

\* on_request_read() and on_tcp_error(): io is released; the response leaves
\* with the last resource, which is the timer unless it has struck.
Completes(w, k, result) ==
    LET done == WithResponse([k EXCEPT !.io = "none"], result)
        waiting == Finished(done)
        last == TimerCancelled(waiting)
    IN  IF waiting.timer_request = 0
        THEN Becomes(w, waiting) /\ queue' = Reply(w, done) /\ UNCHANGED <<timers, failed>>
        ELSE IF Remembered(waiting) \in timers
        THEN /\ Becomes(w, Finished(last))
             /\ timers' = timers \ {Remembered(waiting)}
             /\ queue' = Reply(w, done) \o Reply(w, last)
             /\ UNCHANGED failed
        ELSE /\ failed' = failed \cup {"request does exist"}
             /\ Becomes(w, waiting) /\ queue' = Reply(w, done) /\ UNCHANGED timers

\* http_worker_t::on_request(), which asserts that there is no socket.
OnWork ==
    /\ Next1("work")
    /\ LET w == Head(queue).worker
       IN  /\ Becomes(w, [worker[w] EXCEPT !.orig = Head(queue).request, !.resolve = @ + 1])
           /\ failed' = IF worker[w].sock THEN failed \cup {"socket"} ELSE failed
    /\ Post(<<>>)
    /\ UNCHANGED <<clientVars, managerVars, asked, timers, strand>>

\* on_resolve(): the socket is there if the host has been resolved, and may
\* fail to open.
OnResolve ==
    /\ Next1("resolved")
    /\ LET w == Head(queue).worker
           freed == [worker[w] EXCEPT !.resolve = @ - 1]
           k == IF Head(queue).ok THEN [freed EXCEPT !.sock = TRUE] ELSE freed
           bad == WithResponse(k, "error")
           t == Timer("worker", k.orig)
       IN  \/ /\ Becomes(w, Finished(bad))
              /\ Post(Reply(w, bad))
              /\ UNCHANGED timers
           \/ /\ Head(queue).ok
              /\ Becomes(w, [k EXCEPT !.io = "connect", !.timer = TRUE,
                                      !.timer_request = k.orig])
              /\ timers' = timers \cup {t}
              /\ Post(<<>>)
    /\ UNCHANGED <<clientVars, managerVars, asked, strand, failed>>

\* The job of an io operation: on_connect(), on_request_sent(),
\* on_request_read() or on_tcp_error().
IoJob(w, ok) ==
    LET k == worker[w]
    IN  \/ /\ ok /\ k.io \in {"connect", "write"} /\ k.response = "none"
           /\ Becomes(w, [k EXCEPT !.io = IF @ = "connect" THEN "write" ELSE "read"])
           /\ UNCHANGED <<timers, queue, failed>>
        \/ /\ ok /\ k.io = "read"
           /\ Completes(w, [k EXCEPT !.sock = FALSE], "ok")
        \/ /\ ~ok
           /\ Completes(w, k, "error")

\* on_timer() that was not cancelled: the socket is, and timer_request stays.
\* An operation whose completion is in the strand already is not aborted.
OnStrike(w) ==
    LET k == [worker[w] EXCEPT !.timer = FALSE]
        underway == \A j \in Range(strand) : j.job = "io" => j.worker # w
    IN  /\ Becomes(w, Finished(k))
        /\ queue' = Reply(w, k)
        /\ strand' = Tail(strand)
              \o IF k.sock /\ k.io # "none" /\ underway
                 THEN <<[job |-> "io", worker |-> w, ok |-> FALSE]>> ELSE <<>>

-----------------------------------------------------------------------------
(* The strand and what surrounds it *)

\* The work of each timer that is still there when its job comes.
ExpiryJob(t) ==
    LET r == t.request
    IN  \/ /\ t \notin timers
           /\ strand' = Tail(strand)
           /\ UNCHANGED <<worker, asked, timers, queue>>
        \/ /\ t \in timers /\ t.of # "worker"
           /\ timers' = timers \ {t}
           /\ queue' = <<Message(IF t.of = "client" THEN "answer" ELSE "response", None, r,
                                 FALSE)>>
           /\ strand' = Tail(strand)
           /\ UNCHANGED <<worker, asked>>
        \/ /\ t \in timers /\ t.of = "worker"
           /\ timers' = timers \ {t}
           /\ \E w \in Workers : worker[w].timer /\ worker[w].timer_request = r /\ OnStrike(w)
           /\ UNCHANGED asked

RunJob ==
    /\ queue = <<>> /\ strand # <<>>
    /\ LET j == Head(strand)
       IN  \/ j.job = "io" /\ IoJob(j.worker, j.ok) /\ strand' = Tail(strand) /\ UNCHANGED asked
           \/ j.job = "expiry" /\ ExpiryJob(j.timer) /\ UNCHANGED failed
    /\ UNCHANGED <<clientVars, managerVars>>

\* What happens elsewhere while the strand drains its queue is taken to have
\* happened before or after.
Resolver(w, ok) ==
    /\ worker[w].resolve > 0
    /\ queue' = <<[kind |-> "resolved", worker |-> w, ok |-> ok]>>
    /\ UNCHANGED <<clientVars, managerVars, worker, asked, timers, strand, failed>>

\* An operation completes; forwarder_t defers the handler to the strand.
IoCompletes(w, ok) ==
    /\ worker[w].io # "none"
    /\ \A j \in Range(strand) : j.job = "io" => j.worker # w
    /\ strand' = Append(strand, [job |-> "io", worker |-> w, ok |-> ok])
    /\ UNCHANGED <<clientVars, managerVars, worker, asked, timers, queue, failed>>

Expires(t) ==
    /\ t.of \in Strikes /\ t.request \in Slow
    /\ t \in timers
    /\ [job |-> "expiry", timer |-> t] \notin Range(strand)
    /\ strand' = Append(strand, [job |-> "expiry", timer |-> t])
    /\ UNCHANGED <<clientVars, managerVars, worker, asked, timers, queue, failed>>

\* A failed assertion ends the program.
Strand ==
    /\ failed = {}
    /\ \/ OnAnswer \/ OnRequest \/ OnChildInit \/ OnResponse \/ OnWork \/ OnResolve
       \/ RunJob
Outside(w, ok) == failed = {} /\ queue = <<>> /\ (Resolver(w, ok) \/ IoCompletes(w, ok))

Next ==
    \/ Strand
    \/ \E w \in Workers, ok \in BOOLEAN : Outside(w, ok)
    \/ \E t \in Timers : failed = {} /\ queue = <<>> /\ Expires(t)

Spec == Init /\ [][Next]_vars
\* The strand goes on, the host is resolved in the end, and operations
\* complete; no timer need expire.
FairSpec ==
    /\ Spec /\ WF_vars(Strand)
    /\ \A w \in Workers :
        /\ SF_vars(\E ok \in BOOLEAN : failed = {} /\ queue = <<>> /\ Resolver(w, ok))
        /\ SF_vars(\E ok \in BOOLEAN : failed = {} /\ queue = <<>> /\ IoCompletes(w, ok))

-----------------------------------------------------------------------------
(* Properties *)

\* No assertion fails.  It does when a worker's own timer strikes: on_timer()
\* leaves timer_request set, so that the end of the operation cancels the
\* timer again, which asserts that it is there.
NoAssertionFails == failed = {}

\* A worker is only given a request when its last socket is gone, as
\* on_request() asserts, although the manager takes a worker for free when its
\* own timer has struck, and a failed operation leaves the socket.  It rests
\* on the client's giving up at the first failure.
WorkerIsDone == "socket" \notin failed

\* The manager creates no more workers than the client has requests at a time,
\* although the two may give a request up at different times.
WorkersMatchLoad == Cardinality(created) <= concurrency

\* A request is with one worker, which is not free and not with another; the
\* answers of a worker that was given up do not free it a second time.
OneRequestEach ==
    \A r \in Requests : req_mapping[r] # None =>
        /\ req_mapping[r] \notin free_workers
        /\ \A q \in Requests \ {r} : req_mapping[q] # req_mapping[r]

\* What the manager counts on of its workers, though it answers for a worker
\* whose request has taken too long.
ManagerIsRight == WorkerIsDone /\ WorkersMatchLoad /\ OneRequestEach

\* However requests fail, are late or are answered twice, the client is told
\* of every one in the end and shuts down, unless the program crashes.
ClientEnds == <>(client = "SHUTTING_DOWN" \/ failed # {})
=============================================================================

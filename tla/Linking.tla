------------------------------- MODULE Linking -------------------------------
(***************************************************************************)
(* Linking clients to servers (src/rotor/plugin/link_client.cpp,           *)
(* link_server.cpp): link requests with their timeouts, unlink requests    *)
(* and notifications, while any of the actors is being shut down.          *)
(*                                                                         *)
(* The actors may be in different localities: each has a FIFO queue, and   *)
(* what is for an actor elsewhere is passed on when its turn comes.  An    *)
(* answer to a request makes two hops (see ReqRes), the first of which is  *)
(* to the supervisor of who asked.                                         *)
(*                                                                         *)
(* Abstracted: the supervisors are there all the time, and of what they do *)
(* (see Supervision) only that they pass on what starts an actor or shuts  *)
(* it down is kept, in one hop; the unsubscriptions of an actor are one    *)
(* message to itself; an actor links to a server once.  Where a handler    *)
(* goes through a hash map the order of its messages is arbitrary.  The    *)
(* build has assertions on.                                                *)
(***************************************************************************)
EXTENDS Naturals, Sequences, FiniteSets, SequencesExt

CONSTANTS
    Actors,
    Localities,
    Home,           \* [Actors -> Localities]
    Wants,          \* links, as pairs <<client, server>>
    Strict,         \* those with operational_only
    Quitters,       \* actors on which user code calls do_shutdown()
    Hasty,          \* those on which it does so while one of their links is made
    Interceptors,   \* clients with an unlink_reaction
    Holders,        \* actors of which shutdown_start() acquires a resource
    LinkExpires,    \* links whose link request may time out
    UnlinkExpires   \* links whose unlink request may time out

ASSUME LinksAssumption ==
    /\ Wants \subseteq {x \in Actors \X Actors : x[1] # x[2]}
    /\ Strict \subseteq Wants
    /\ Home \in [Actors -> Localities]
    /\ IsFiniteSet(Actors)

VARIABLES
    state,          \* [Actors -> States]
    init_request,   \* actors with actor_base_t::init_request set
    asked,          \* actors with a shutdown request
    linking,        \* records LINKING of the clients' servers_map
    linked,         \* records OPERATIONAL of it
    pending,        \* records PENDING of the servers' linked_clients
    active,         \* records OPERATIONAL of it
    unlinking,      \* records UNLINKING of it
    link_timers,    \* links whose link request is in the client's request_map
    unlink_timers,  \* links whose unlink request is in the server's
    unlink_queue,   \* links in the clients' unlink_queue
    held,           \* unlink requests user code keeps for a later forget_link()
    holding,        \* actors shutting down whose resource is not released yet
    deaf,           \* actors without subscriptions
    queue,          \* [Localities -> Seq(Message)]
    fault           \* which assertion or contract was violated

clients == <<linking, linked, unlink_queue, link_timers>>
servers == <<pending, active, unlinking, unlink_timers>>
lives == <<state, init_request, asked, holding, deaf>>
vars == <<clients, servers, lives, held, queue, fault>>

States == {"INITIALIZING", "INITIALIZED", "OPERATIONAL", "SHUTTING_DOWN", "SHUT_DOWN"}
Live == {"INITIALIZING", "INITIALIZED", "OPERATIONAL"}

\* By whom a message is received: the client or the server of a link (who is
\* both where a message is about one actor), or the supervisor of either.
ToClient == {"link_response", "unlink_request", "init_request", "start_actor",
             "shutdown_request", "unsubscription"}
ToServer == {"link_request", "unlink_notify", "unlink_response"}
ToClientsSup == {"link_reply", "shutdown_trigger", "shutdown_error"}
ToServersSup == {"unlink_reply"}

Message == [kind : ToClient \cup ToServer \cup ToClientsSup \cup ToServersSup,
            link : Actors \X Actors, ok : BOOLEAN]

Msg(kind, x) == [kind |-> kind, link |-> x, ok |-> TRUE]
Failed(kind, x) == [kind |-> kind, link |-> x, ok |-> FALSE]
About(kind, a) == Msg(kind, <<a, a>>)

\* The messages of kind "kind" for the links of S, in any order.
ForEach(kind, S) == SetToSeqs({Msg(kind, x) : x \in S})

Faults == {"none", "on_link_response", "on_unlink_notify", "on_unlink_response",
           "discard_request", "cancel_timer", "init_continue", "on_error"}

\* The actors are created, and asked to initialize, in some order.
Init ==
    /\ state = [a \in Actors |-> "INITIALIZING"]
    /\ init_request = {} /\ asked = {}
    /\ linking = {} /\ linked = {} /\ unlink_queue = {} /\ link_timers = {}
    /\ pending = {} /\ active = {} /\ unlinking = {} /\ unlink_timers = {}
    /\ held = {} /\ holding = {} /\ deaf = {}
    /\ queue \in [Localities -> UNION {ForEach("init_request", {<<a, a>> : a \in S}) :
                                        S \in SUBSET Actors}]
    /\ \A l \in Localities :
        {queue[l][i].link[1] : i \in 1 .. Len(queue[l])} = {a \in Actors : Home[a] = l}
    /\ fault = "none"

---------------------------------------------------------------------------
\* What the handlers are made of.

Receiver(m) == m.link[IF m.kind \in ToServer \cup ToServersSup THEN 2 ELSE 1]

\* Who has given up its subscriptions is not called.
Heard(m) == m.kind \in ToClient \cup ToServer => Receiver(m) \notin deaf

\* Locality l comes to a message for one of its actors.
Due(l, kind) ==
    /\ fault = "none"
    /\ queue[l] # <<>>
    /\ Head(queue[l]).kind = kind
    /\ Home[Receiver(Head(queue[l]))] = l
    /\ Heard(Head(queue[l]))

Link(l) == Head(queue[l]).link
Subject(l) == Link(l)[1]

\* Locality l handles its next message and sends others.
Handled(l, sent) == queue' = [queue EXCEPT ![l] = Tail(@) \o sent]

---------------------------------------------------------------------------
\* Plausible mistakes in the definitions below, named after them.  They are
\* not part of the specification; they show that the properties notice.

ClientsActive(a) == {x \in active : x[2] = a}

RefusesLate(s) == state[s] = "SHUT_DOWN"

PostponesInitialized(x) == x \in Strict /\ state[x[2]] = "INITIALIZED"

ForgetLinkOnly(x, q) ==
    /\ unlink_queue' = unlink_queue \cup {x}
    /\ linking' = linking \ {x}
    /\ linked' = linked \ {x}
    /\ queue' = [queue EXCEPT ![Home[x[1]]] = Append(q, Msg("unlink_reply", x))]
    /\ UNCHANGED <<link_timers, servers, fault>>

ForgetClientOnly(x, l) ==
    /\ pending' = pending \ {x}
    /\ active' = active \ {x}
    /\ unlinking' = unlinking \ {x}
    /\ Handled(l, <<>>)
    /\ UNCHANGED <<linking, linked, link_timers, unlink_timers, fault>>

---------------------------------------------------------------------------
\* The records of a as a server, linked_clients, and as a client, servers_map.
Clients(a) == {x \in pending \cup active \cup unlinking : x[2] = a}
Servers(a) == {x \in linking \cup linked : x[1] = a}

\* actor_base_t::do_shutdown().
DoShutdown(a) == IF state[a] \in Live THEN <<About("shutdown_trigger", a)>> ELSE <<>>

\* Whether shutdown_start() of a acquires a resource.
Acquires(a) == a \in Holders

\* Whether a link request is refused, or answered when the server starts.
Refuses(s) == state[s] \notin Live
Postpones(x) == x \in Strict /\ state[x[2]] # "OPERATIONAL"

\* actor_base_t::shutdown_continue() of an actor whose records of the links
\* of "erased" are being erased; q is the queue of its locality so far, busy
\* whether its resources plugin objects.  As a client it turns to its servers
\* once it has no clients itself: it answers the unlink requests it had to put
\* off, and notifies the other servers.  As a server it is polled after that:
\* it asks its clients.  If neither objects it gives up its subscriptions.
ShutdownContinue(a, erased, busy, q) ==
    LET cs == Clients(a) \ erased
        ss == Servers(a) \ erased
        released == IF cs = {} /\ ~busy THEN ss ELSE {}
        put_off == released \cap unlink_queue
        ask == IF ss = {} /\ ~busy THEN active \cap cs ELSE {}
    IN
    /\ \E rs \in ForEach("unlink_reply", put_off),
          ns \in ForEach("unlink_notify", released \ put_off),
          us \in ForEach("unlink_request", ask) :
        queue' = [queue EXCEPT ![Home[a]] = q \o rs \o ns \o us \o
                    IF cs = {} /\ ~busy THEN <<About("unsubscription", a)>> ELSE <<>>]
    /\ linking' = linking \ {x \in erased \cup released : x[1] = a}
    /\ linked' = linked \ {x \in erased \cup released : x[1] = a}
    /\ link_timers' = link_timers \ ((linking \cap released) \ put_off)
    /\ pending' = pending \ {x \in erased : x[2] = a}
    /\ active' = active \ ({x \in erased : x[2] = a} \cup ask)
    /\ unlinking' = (unlinking \ {x \in erased : x[2] = a}) \cup ask
    /\ unlink_timers' = (unlink_timers \ {x \in erased : x[2] = a}) \cup ask
    /\ fault' = IF (linking \cap released) \ put_off \subseteq link_timers
                THEN fault ELSE "discard_request"

---------------------------------------------------------------------------
\* Starting, and asking for links.

\* on_init() and the first init_continue(): configure() calls link() for each
\* server, with timers for the requests.  Who wants none is initialized.
OnInitRequest(l) ==
    LET a == Subject(l)
        wanted == {x \in Wants : x[1] = a}
    IN
    /\ Due(l, "init_request")
    /\ IF state[a] # "INITIALIZING"
       THEN /\ init_request' = init_request \cup {a}
            /\ Handled(l, <<>>)
            /\ UNCHANGED <<state, linking, link_timers>>
       ELSE IF wanted = {}
       THEN /\ state' = [state EXCEPT ![a] = "INITIALIZED"]
            /\ Handled(l, <<About("start_actor", a)>>)
            /\ UNCHANGED <<init_request, linking, link_timers>>
       ELSE /\ init_request' = init_request \cup {a}
            /\ linking' = linking \cup wanted
            /\ link_timers' = link_timers \cup wanted
            /\ \E s \in ForEach("link_request", wanted) : Handled(l, s)
            /\ UNCHANGED state
    /\ UNCHANGED <<servers, asked, holding, deaf, linked, unlink_queue, held, fault>>

\* starter_plugin_t::on_start(), link_server_plugin_t::handle_start(): the
\* clients put off are answered, but it is a copy of the record in which that
\* is noted: they stay PENDING.
OnStart(l) ==
    LET a == Subject(l) IN
    /\ Due(l, "start_actor")
    /\ IF state[a] = "INITIALIZED"
       THEN /\ state' = [state EXCEPT ![a] = "OPERATIONAL"]
            /\ \E s \in ForEach("link_reply", {x \in pending : x[2] = a}) : Handled(l, s)
       ELSE Handled(l, <<>>) /\ UNCHANGED state
    /\ UNCHANGED <<clients, servers, init_request, asked, holding, deaf, held, fault>>

OnLinkRequest(l) ==
    LET x == Link(l) IN
    /\ Due(l, "link_request")
    /\ IF Refuses(x[2])
       THEN /\ Handled(l, <<Failed("link_reply", x)>>)
            /\ UNCHANGED <<pending, active>>
       ELSE IF Postpones(x)
       THEN /\ pending' = pending \cup {x}
            /\ Handled(l, <<>>)
            /\ UNCHANGED active
       ELSE /\ active' = active \cup {x}
            /\ Handled(l, <<Msg("link_reply", x)>>)
            /\ UNCHANGED pending
    /\ UNCHANGED <<clients, lives, unlinking, unlink_timers, held, fault>>

\* The answer on its first hop: the supervisor of the client passes it on if
\* it still has the request.
OnLinkReply(l) ==
    LET m == Head(queue[l]) IN
    /\ Due(l, "link_reply")
    /\ link_timers' = link_timers \ {m.link}
    /\ Handled(l, IF m.link \in link_timers THEN <<[m EXCEPT !.kind = "link_response"]>>
                                            ELSE <<>>)
    /\ UNCHANGED <<servers, lives, linking, linked, unlink_queue, held, fault>>

\* supervisor_t::on_request_trigger() for a link request.
LinkTimeout(x) ==
    /\ fault = "none"
    /\ x \in LinkExpires \cap link_timers
    /\ link_timers' = link_timers \ {x}
    /\ queue' = [queue EXCEPT ![Home[x[1]]] = Append(@, Failed("link_response", x))]
    /\ UNCHANGED <<servers, lives, linking, linked, unlink_queue, held, fault>>

\* The client initialized goes on once no link is LINKING; a link that failed
\* fails the initialization, whereupon the supervisor shuts the actor down.
OnLinkResponse(l) ==
    LET x == Link(l)
        c == x[1]
        ok == Head(queue[l]).ok
        waits == c \in init_request
        ready == ok /\ waits /\ Servers(c) \cap linking = {x}
    IN
    /\ Due(l, "link_response")
    /\ IF x \notin linking
       THEN /\ fault' = "on_link_response"
            /\ Handled(l, <<>>)
            /\ UNCHANGED <<linking, linked, init_request, state>>
       ELSE /\ linking' = linking \ {x}
            /\ linked' = IF ok THEN linked \cup {x} ELSE linked
            /\ init_request' = IF ready \/ ~ok THEN init_request \ {c} ELSE init_request
            /\ state' = IF ready /\ state[c] = "INITIALIZING"
                        THEN [state EXCEPT ![c] = "INITIALIZED"] ELSE state
            /\ fault' = IF ok /\ waits /\ state[c] # "INITIALIZING"
                        THEN "init_continue" ELSE fault
            /\ Handled(l, IF ready THEN <<About("start_actor", c)>>
                          ELSE IF ~ok /\ waits THEN DoShutdown(c) ELSE <<>>)
    /\ UNCHANGED <<servers, asked, holding, deaf, unlink_queue, link_timers, held>>

---------------------------------------------------------------------------
\* Shutting down.

UnderWay(m) == \E l \in Localities : \E i \in 1 .. Len(queue[l]) : queue[l][i] = m

\* A link of a, as a client or as a server, is still to be made.
Settling(a) ==
    \E x \in Wants :
        /\ a \in {x[1], x[2]}
        /\ x \in linking \/ UnderWay(About("init_request", x[1]))

\* do_shutdown() by user code, once: the supervisor would ignore another.
UserShutdown(a) ==
    /\ fault = "none"
    /\ a \in Quitters \ asked
    /\ state[a] \in Live
    /\ a \in Hasty \/ ~Settling(a)
    /\ ~UnderWay(About("shutdown_trigger", a))
    /\ queue' = [queue EXCEPT ![Home[a]] = @ \o DoShutdown(a)]
    /\ UNCHANGED <<clients, servers, lives, held, fault>>

\* child_manager_plugin_t::on_shutdown_trigger() of the supervisor.
OnShutdownTrigger(l) ==
    LET a == Subject(l) IN
    /\ Due(l, "shutdown_trigger")
    /\ asked' = asked \cup {a}
    /\ Handled(l, IF a \in asked THEN <<>> ELSE <<About("shutdown_request", a)>>)
    /\ UNCHANGED <<clients, servers, state, init_request, holding, deaf, held, fault>>

OnShutdownRequest(l) ==
    LET a == Subject(l) IN
    /\ Due(l, "shutdown_request")
    /\ state' = [state EXCEPT ![a] = "SHUTTING_DOWN"]
    /\ holding' = IF Acquires(a) THEN holding \cup {a} ELSE holding
    /\ ShutdownContinue(a, {}, Acquires(a), Tail(queue[l]))
    /\ UNCHANGED <<init_request, asked, deaf, unlink_queue, held>>

\* resources_plugin_t::release() of the resource the shutdown waits for.
Release(a) ==
    /\ fault = "none"
    /\ a \in holding
    /\ holding' = holding \ {a}
    /\ ShutdownContinue(a, {}, FALSE, queue[Home[a]])
    /\ UNCHANGED <<state, init_request, asked, deaf, unlink_queue, held>>

\* link_client_plugin_t::forget_link(), try_forget_links(): a client with
\* clients of its own puts the request off; otherwise it answers all it has
\* put off, and shuts down.  q is the queue of its locality so far.
ForgetLink(x, q) ==
    LET c == x[1]
        answered == (unlink_queue \cup {x}) \cap Servers(c)
        keep == UNCHANGED <<linking, linked, link_timers, servers, fault>>
    IN
    IF x \notin Servers(c)
    THEN /\ queue' = [queue EXCEPT ![Home[c]] = q]
         /\ keep /\ UNCHANGED unlink_queue
    ELSE /\ unlink_queue' = unlink_queue \cup {x}
         /\ IF Clients(c) # {}
            THEN /\ queue' = [queue EXCEPT ![Home[c]] = q]
                 /\ keep
            ELSE \E s \in ForEach("unlink_reply", answered) :
                 IF state[c] = "SHUTTING_DOWN"
                 THEN ShutdownContinue(c, answered, c \in holding, q \o s)
                 ELSE /\ linking' = linking \ answered
                      /\ linked' = linked \ answered
                      /\ queue' = [queue EXCEPT ![Home[c]] = q \o s \o DoShutdown(c)]
                      /\ UNCHANGED <<link_timers, servers, fault>>

\* User code may take the request over and call forget_link() later.
OnUnlinkRequest(l) ==
    LET x == Link(l) IN
    /\ Due(l, "unlink_request")
    /\ \/ /\ ForgetLink(x, Tail(queue[l]))
          /\ UNCHANGED held
       \/ /\ x[1] \in Interceptors
          /\ held' = held \cup {x}
          /\ Handled(l, <<>>)
          /\ UNCHANGED <<clients, servers, fault>>
    /\ UNCHANGED lives

UserForgets(x) ==
    /\ fault = "none"
    /\ x \in held
    /\ held' = held \ {x}
    /\ ForgetLink(x, queue[Home[x[1]]])
    /\ UNCHANGED lives

\* The answer on its first hop, and the timeout of the request.
OnUnlinkReply(l) ==
    LET x == Link(l) IN
    /\ Due(l, "unlink_reply")
    /\ unlink_timers' = unlink_timers \ {x}
    /\ Handled(l, IF x \in unlink_timers THEN <<Msg("unlink_response", x)>> ELSE <<>>)
    /\ UNCHANGED <<clients, lives, pending, active, unlinking, held, fault>>

UnlinkTimeout(x) ==
    /\ fault = "none"
    /\ x \in UnlinkExpires \cap unlink_timers
    /\ unlink_timers' = unlink_timers \ {x}
    /\ queue' = [queue EXCEPT ![Home[x[2]]] = Append(@, Failed("unlink_response", x))]
    /\ UNCHANGED <<clients, lives, pending, active, unlinking, held, fault>>

\* The end of on_unlink_response() and on_unlink_notify(): the record of the
\* client is erased, and a shutdown that is under way goes on.
ForgetClient(x, l) ==
    IF state[x[2]] = "SHUTTING_DOWN"
    THEN ShutdownContinue(x[2], {x}, x[2] \in holding, Tail(queue[l]))
    ELSE /\ pending' = pending \ {x}
         /\ active' = active \ {x}
         /\ unlinking' = unlinking \ {x}
         /\ Handled(l, <<>>)
         /\ UNCHANGED <<linking, linked, link_timers, unlink_timers, fault>>

\* A request that timed out fails the shutdown.
OnUnlinkResponse(l) ==
    LET x == Link(l)
        stop == Handled(l, IF Head(queue[l]).ok THEN <<>>
                           ELSE <<About("shutdown_error", x[2])>>)
                /\ UNCHANGED <<clients, servers>>
    IN
    /\ Due(l, "unlink_response")
    /\ IF ~Head(queue[l]).ok THEN stop /\ UNCHANGED fault
       ELSE IF x \notin Clients(x[2]) THEN stop /\ fault' = "on_unlink_response"
       ELSE ForgetClient(x, l)
    /\ UNCHANGED <<lives, unlink_queue, held>>

\* child_manager_plugin_t::on_shutdown_fail() of the supervisor.
OnShutdownError(l) ==
    /\ Due(l, "shutdown_error")
    /\ fault' = "on_error"
    /\ Handled(l, <<>>)
    /\ UNCHANGED <<clients, servers, lives, held>>

\* The client went first: an unlink request to it is taken back.
OnUnlinkNotify(l) ==
    LET x == Link(l)
        stop(why) == fault' = why /\ Handled(l, <<>>) /\ UNCHANGED <<clients, servers>>
    IN
    /\ Due(l, "unlink_notify")
    /\ IF x \notin Clients(x[2]) THEN stop("on_unlink_notify")
       ELSE IF x \in unlinking \ unlink_timers THEN stop("cancel_timer")
       ELSE ForgetClient(x, l)
    /\ UNCHANGED <<lives, unlink_queue, held>>

\* All subscriptions are gone: shutdown_finish().
OnUnsubscription(l) ==
    LET a == Subject(l) IN
    /\ Due(l, "unsubscription")
    /\ state' = [state EXCEPT ![a] = "SHUT_DOWN"]
    /\ deaf' = deaf \cup {a}
    /\ Handled(l, <<>>)
    /\ UNCHANGED <<clients, servers, init_request, asked, holding, held, fault>>

---------------------------------------------------------------------------
\* Between the localities.

\* delivery_plugin_t: what is for an actor of another locality goes there.
Transfer(l) ==
    /\ fault = "none"
    /\ queue[l] # <<>>
    /\ LET m == Head(queue[l])
           h == Home[Receiver(m)]
       IN  /\ h # l
           /\ queue' = [queue EXCEPT ![l] = Tail(@), ![h] = Append(@, m)]
    /\ UNCHANGED <<clients, servers, lives, held, fault>>

Drop(l) ==
    /\ fault = "none"
    /\ queue[l] # <<>>
    /\ Home[Receiver(Head(queue[l]))] = l
    /\ ~Heard(Head(queue[l]))
    /\ Handled(l, <<>>)
    /\ UNCHANGED <<clients, servers, lives, held, fault>>

Deliver(l) ==
    \/ OnInitRequest(l)
    \/ OnStart(l)
    \/ OnLinkRequest(l)
    \/ OnLinkReply(l)
    \/ OnLinkResponse(l)
    \/ OnShutdownTrigger(l)
    \/ OnShutdownRequest(l)
    \/ OnUnlinkRequest(l)
    \/ OnUnlinkReply(l)
    \/ OnUnlinkResponse(l)
    \/ OnUnlinkNotify(l)
    \/ OnShutdownError(l)
    \/ OnUnsubscription(l)
    \/ Transfer(l)
    \/ Drop(l)

Next ==
    \/ \E l \in Localities : Deliver(l)
    \/ \E a \in Actors : UserShutdown(a) \/ Release(a)
    \/ \E x \in Wants : LinkTimeout(x) \/ UnlinkTimeout(x) \/ UserForgets(x)

Spec == Init /\ [][Next]_vars

\* The event loop of each locality runs, and user code does not sit for ever
\* on an unlink request that it takes over or on a resource.
FairSpec ==
    /\ Spec
    /\ \A l \in Localities : WF_vars(Deliver(l))
    /\ \A x \in Wants : WF_vars(UserForgets(x))
    /\ \A a \in Actors : WF_vars(Release(a))

---------------------------------------------------------------------------
\* Properties.

TypeOK ==
    /\ state \in [Actors -> States]
    /\ init_request \subseteq Actors /\ asked \subseteq Actors /\ deaf \subseteq Actors
    /\ holding \subseteq Holders
    /\ linking \subseteq Wants /\ linked \subseteq Wants
    /\ unlink_queue \subseteq Wants /\ held \subseteq Wants
    /\ link_timers \subseteq Wants /\ unlink_timers \subseteq Wants
    /\ pending \subseteq Wants /\ active \subseteq Wants /\ unlinking \subseteq Wants
    /\ queue \in [Localities -> Seq(Message)]
    /\ fault \in Faults

\* What linking is for (docs/Design.md): whatever the order in which the
\* messages of the localities, the timeouts and the calls of user code come, a
\* server is never SHUT_DOWN while a client counts on it, nor a client while
\* it still counts on a server.
L == INSTANCE Links WITH gone <- {a \in Actors : state[a] = "SHUT_DOWN"}
ImplementsLinks == L!Spec

\* A client that asked for an operational server does not see its link in
\* force before the server has started.
OperationalOnlyIsKept ==
    \A x \in linked \cap Strict : state[x[2]] \notin {"INITIALIZING", "INITIALIZED"}

\* None of the assertions of link_client.cpp, link_server.cpp, init_continue(),
\* cancel_timer() and discard_request() fails.
NoAssertionFails == fault \in {"none", "on_error"}

\* An actor whose supervisor has been told to shut it down does end, also
\* where its clients have to let go of it first (docs/Patterns.md).
ShutdownCompletes ==
    \A a \in Actors :
        a \in asked ~> (state[a] = "SHUT_DOWN" \/ fault # "none")

\* A client that is asked to unlink shuts down itself (docs/Patterns.md).
LostServerEndsClient ==
    \A x \in Wants :
        x \in unlink_queue ~> (state[x[1]] = "SHUT_DOWN" \/ fault # "none")
=============================================================================

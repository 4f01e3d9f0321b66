------------------------------ MODULE Registry ------------------------------
(***************************************************************************)
(* The registry (src/rotor/registry.cpp) and the plugin by which actors    *)
(* register and discover names while they initialize (plugin/registry.cpp).*)
(*                                                                         *)
(* The registry and its users may be in different localities; the queues   *)
(* and the two hops of an answer are those of Linking.                     *)
(*                                                                         *)
(* Abstracted: the registry is there all the time and admits every client, *)
(* so that of the link to it only the request and its answer are left;     *)
(* how the link to a discovered address comes about (see Linking) is left  *)
(* open, as is what a supervisor does (see Supervision) except to pass on  *)
(* what starts an actor or shuts it down.  Unordered maps are gone through *)
(* in any order.  The build has assertions on.                             *)
(***************************************************************************)
EXTENDS Naturals, Sequences, FiniteSets, SequencesExt

CONSTANTS
    Actors,         \* the users of the registry
    Names,
    NoOne,          \* no address, no name
    Localities, ClientsHome, RegistryHome,
    Registers,      \* [Actors -> SUBSET Names], names an actor registers
    Discovers,      \* those it discovers at once,
    Promises,       \* and those it discovers delayed
    Quitters,       \* actors on which user code calls do_shutdown()
    Hasty,          \* those on which it does so while they initialize
    Served,         \* actors that have clients when they are shut down
    Manual,         \* actors that send a deregistration_notify of their own
    Expires         \* requests that may time out, as <<what, client, name>>

\* What the registry is asked, and answers to the supervisor of who asked, who
\* passes it on.
Asks == {"link", "registration", "discovery", "promise"}
Request == ({"link"} \X Actors \X {NoOne})
           \cup ((Asks \ {"link"}) \X Actors \X Names)

ASSUME RegistryAssumption ==
    /\ NoOne \notin Actors \cup Names
    /\ IsFiniteSet(Names)
    /\ {ClientsHome, RegistryHome} \subseteq Localities
    /\ Registers \in [Actors -> SUBSET Names]
    /\ Discovers \in [Actors -> SUBSET Names]
    /\ Promises \in [Actors -> SUBSET Names]
    /\ \A a \in Actors : Discovers[a] \cap Promises[a] = {}
    /\ Expires \subseteq Request

VARIABLES
    registered_map, \* [Names -> Actors \cup {NoOne}]
    revese_map,     \* addresses with an entry -> sets of names
    promises,       \* Seq of the promises not fulfilled, as <<client, name>>
    state,          \* [Actors -> States]
    init_request,   \* actors with actor_base_t::init_request set
    answered,       \* actors whose supervisor has an answer to that request
    asked,          \* actors with a shutdown request
    deaf,           \* actors without subscriptions
    plugin_state,   \* [Actors -> {"", "LINKING", "LINKED", "REFUSED"}], with its link
    registering,    \* [Actors -> SUBSET Names], REGISTERING in register_map
    owned,          \* OPERATIONAL in it
    tasks,          \* names in discovery_map
    linking,        \* names of it whose address is being linked to
    linked,         \* names to whose address the actor is linked
    found,          \* [Actors -> [Names -> Actors \cup {NoOne}]]
    requests,       \* requests of the actors in their supervisor's request_map
    queue,          \* [Localities -> Seq(Message)]
    fault           \* which assertion was violated

registry == <<registered_map, revese_map, promises>>
lives == <<state, init_request, answered, asked, deaf>>
plugin == <<plugin_state, registering, owned, tasks, linking, linked, found>>
vars == <<registry, lives, plugin, requests, queue, fault>>

States == {"NEW", "INITIALIZING", "INITIALIZED", "OPERATIONAL", "SHUTTING_DOWN", "SHUT_DOWN"}
Live == {"INITIALIZING", "INITIALIZED", "OPERATIONAL"}

\* What the registry is told, and what an actor is.
Told == {"deregistration_service", "deregistration_notify", "discovery_cancel"}
Orders == {"init_request", "start_actor", "shutdown_request", "unsubscription"}

\* "address" is the one found, or the one registered; NoOne is a failure.  Actors
\* register their own address.
Message == [to : {"registry", "supervisor", "actor"},
            kind : Asks \cup Told \cup Orders \cup {"shutdown_trigger"},
            actor : Actors, name : Names \cup {NoOne}, address : Actors \cup {NoOne}]

Msg(to, kind, a, n, addr) ==
    [to |-> to, kind |-> kind, actor |-> a, name |-> n, address |-> addr]
Order(kind, a) == Msg("actor", kind, a, NoOne, NoOne)
Reply(kind, a, n, addr) == Msg("supervisor", kind, a, n, addr)

\* What actor a has to say to the registry on each name of S, in any order.
ForEach(kind, a, S) == SetToSeqs({Msg("registry", kind, a, n, NoOne) : n \in S})

Faults == {"none", "on_link_response", "on_registration", "process_discovery",
           "link", "task", "continue_init", "init_continue", "discard_request", "at"}

Init ==
    /\ registered_map = [n \in Names |-> NoOne]
    /\ revese_map = <<>> /\ promises = <<>>
    /\ state = [a \in Actors |-> "NEW"]
    /\ init_request = {} /\ answered = {} /\ asked = {} /\ deaf = {}
    /\ plugin_state = [a \in Actors |-> ""]
    /\ registering = [a \in Actors |-> {}] /\ owned = [a \in Actors |-> {}]
    /\ tasks = [a \in Actors |-> {}]
    /\ linking = [a \in Actors |-> {}] /\ linked = [a \in Actors |-> {}]
    /\ found = [a \in Actors |-> [n \in Names |-> NoOne]]
    /\ requests = {}
    /\ queue = [l \in Localities |-> <<>>]
    /\ fault = "none"

---------------------------------------------------------------------------
\* What the handlers are made of.

Home(m) == IF m.to = "registry" THEN RegistryHome ELSE ClientsHome

\* Who has given up its subscriptions is not called.
Heard(m) == m.to = "actor" => m.actor \notin deaf

\* Locality l comes to a message for somebody there.
Due(l, to, kind) ==
    /\ fault = "none"
    /\ queue[l] # <<>>
    /\ Head(queue[l]).to = to /\ Head(queue[l]).kind = kind
    /\ Home(Head(queue[l])) = l
    /\ Heard(Head(queue[l]))

Subject(l) == Head(queue[l]).actor
Name(l) == Head(queue[l]).name

\* Locality l handles its next message and sends others.
Handled(l, sent) == queue' = [queue EXCEPT ![l] = Tail(@) \o sent]

\* An assertion fails: nothing happens afterwards.
Fails(what) == fault' = what /\ UNCHANGED <<queue, state, init_request, answered>>

\* actor_base_t::do_shutdown().
DoShutdown(a) ==
    IF state[a] \in Live THEN <<Msg("supervisor", "shutdown_trigger", a, NoOne, NoOne)>>
                         ELSE <<>>

---------------------------------------------------------------------------
\* Plausible mistakes in the definitions below, named after them.  They are
\* not part of the specification; they show that the properties notice.

KeepsThemAll(n) == {Len(promises)}
UnlistedNever(a, n) == [revese_map EXCEPT ![a] = @ \cup {n}]
OwnedAnyway(a, n, ok) == owned[a] \cup {n}
DeregistersPending(a) == registering[a]
CancelsUnasked(a) == IF plugin_state[a] = "LINKING" THEN tasks[a] ELSE {}

---------------------------------------------------------------------------
\* The registry.

\* Locality l handles its next message; the two maps and the promises change.
Answer(l, reg, rev, left, sent) ==
    /\ registered_map' = reg
    /\ revese_map' = rev
    /\ promises' = left
    /\ Handled(l, sent)
    /\ UNCHANGED <<lives, plugin, requests, fault>>

OnLinkRequest(l) ==
    /\ Due(l, "registry", "link")
    /\ Answer(l, registered_map, revese_map, promises,
              <<Reply("link", Subject(l), NoOne, Subject(l))>>)

\* How many promises on_reg() keeps when n is registered: std::find_if() looks for
\* the first one for n, and from there it is erase() that finds the next.
Keeps(n) ==
    {k \in 0 .. Len(promises) :
        /\ \A i \in 1 .. k : promises[i][2] # n
        /\ k < Len(promises) => promises[k + 1][2] = n}

\* n goes from, or comes to, the names under which a is listed.
Listed(a, n) ==
    [x \in DOMAIN revese_map \cup {a} |->
        IF x # a THEN revese_map[x]
        ELSE IF a \in DOMAIN revese_map THEN revese_map[a] \cup {n} ELSE {n}]
Unlisted(a, n) == [revese_map EXCEPT ![a] = @ \ {n}]

OnReg(l) ==
    LET a == Subject(l)
        n == Name(l)
    IN
    /\ Due(l, "registry", "registration")
    /\ IF registered_map[n] # NoOne
       THEN Answer(l, registered_map, revese_map, promises,
                   <<Reply("registration", a, n, NoOne)>>)
       ELSE \E kept \in Keeps(n) :
            LET met == SubSeq(promises, kept + 1, Len(promises)) IN
            Answer(l, [registered_map EXCEPT ![n] = a], Listed(a, n),
                   SubSeq(promises, 1, kept),
                   <<Reply("registration", a, n, a)>>
                     \o [i \in 1 .. Len(met) |-> Reply("promise", met[i][1], met[i][2], a)])

\* All names of an address go.
OnDereg(l) ==
    LET a == Subject(l)
        names == IF a \in DOMAIN revese_map THEN revese_map[a] ELSE {}
    IN
    /\ Due(l, "registry", "deregistration_notify")
    /\ Answer(l, [n \in Names |-> IF n \in names THEN NoOne ELSE registered_map[n]],
              [x \in DOMAIN revese_map \ {a} |-> revese_map[x]], promises, <<>>)

\* A name goes, whoever asks.  The registry relies on at() not to throw.
OnDeregService(l) ==
    LET n == Name(l)
        a == registered_map[n]
    IN
    /\ Due(l, "registry", "deregistration_service")
    /\ IF a = NoOne
       THEN Answer(l, registered_map, revese_map, promises, <<>>)
       ELSE IF a \notin DOMAIN revese_map
       THEN Fails("at") /\ UNCHANGED <<registry, asked, deaf, plugin, requests>>
       ELSE Answer(l, [registered_map EXCEPT ![n] = NoOne], Unlisted(a, n), promises, <<>>)

OnDiscovery(l) ==
    /\ Due(l, "registry", "discovery")
    /\ Answer(l, registered_map, revese_map, promises,
              <<Reply("discovery", Subject(l), Name(l), registered_map[Name(l)])>>)

OnPromise(l) ==
    LET n == Name(l) IN
    /\ Due(l, "registry", "promise")
    /\ IF registered_map[n] # NoOne
       THEN Answer(l, registered_map, revese_map, promises,
                   <<Reply("promise", Subject(l), n, registered_map[n])>>)
       ELSE Answer(l, registered_map, revese_map,
                   Append(promises, <<Subject(l), n>>), <<>>)

\* A promise is identified by its client and the id of the request, of which
\* there is one for each name.  The last one goes.
OnCancel(l) ==
    LET p == <<Subject(l), Name(l)>>
        matching == {i \in 1 .. Len(promises) : promises[i] = p}
    IN
    /\ Due(l, "registry", "discovery_cancel")
    /\ \/ /\ matching = {}
          /\ Answer(l, registered_map, revese_map, promises, <<>>)
       \/ \E i \in matching :
            /\ \A j \in matching : j <= i
            /\ Answer(l, registered_map, revese_map, RemoveAt(promises, i),
                      <<Reply("promise", p[1], p[2], NoOne)>>)

---------------------------------------------------------------------------
\* The plugin: initialization.

\* actor_base_t::init_continue(), when "done" is what the plugins will say; q is
\* the queue of the actors so far.
InitContinue(a, done, q) ==
    IF state[a] # "INITIALIZING" THEN Fails("init_continue")
    ELSE /\ IF done
            THEN /\ state' = [state EXCEPT ![a] = "INITIALIZED"]
                 /\ init_request' = init_request \ {a}
                 /\ answered' = answered \cup {a}
                 /\ queue' = [queue EXCEPT ![ClientsHome] =
                        IF a \in answered THEN q ELSE Append(q, Order("start_actor", a))]
            ELSE /\ queue' = [queue EXCEPT ![ClientsHome] = q]
                 /\ UNCHANGED <<state, init_request, answered>>
         /\ UNCHANGED fault

\* The initialization fails: the first such answer makes the supervisor shut
\* the actor down.
Refuse(a, q) ==
    /\ answered' = answered \cup {a}
    /\ queue' = [queue EXCEPT ![ClientsHome] =
                    IF a \in answered THEN q ELSE q \o DoShutdown(a)]
    /\ UNCHANGED <<state, fault>>

\* registry_plugin_t::continue_init().
ContinueInit(a, ok, done, q) ==
    IF a \notin init_request THEN Fails("continue_init")
    ELSE IF ok THEN InitContinue(a, done, q)
    ELSE Refuse(a, q) /\ UNCHANGED init_request

\* create_child() of the supervisor, at any time.
Create(a) ==
    /\ fault = "none"
    /\ state[a] = "NEW"
    /\ state' = [state EXCEPT ![a] = "INITIALIZING"]
    /\ queue' = [queue EXCEPT ![ClientsHome] = Append(@, Order("init_request", a))]
    /\ UNCHANGED <<registry, init_request, answered, asked, deaf, plugin, requests, fault>>

\* The names for which discover_name() creates tasks.
ToDiscover(a) == Discovers[a] \cup Promises[a]

\* The first init_continue(): configure() registers and discovers names, for
\* which there must be a link to the registry first.
OnInitRequest(l) ==
    LET a == Subject(l)
        wanted == Registers[a] \cup ToDiscover(a)
        fresh == state[a] = "INITIALIZING"
    IN
    /\ Due(l, "actor", "init_request")
    /\ IF fresh /\ wanted = {}
       THEN /\ state' = [state EXCEPT ![a] = "INITIALIZED"]
            /\ answered' = answered \cup {a}
            /\ Handled(l, <<Order("start_actor", a)>>)
            /\ UNCHANGED init_request
       ELSE /\ init_request' = init_request \cup {a}
            /\ Handled(l, IF fresh THEN <<Msg("registry", "link", a, NoOne, NoOne)>> ELSE <<>>)
            /\ UNCHANGED <<state, answered>>
    /\ IF fresh /\ wanted # {}
       THEN /\ plugin_state' = [plugin_state EXCEPT ![a] = "LINKING"]
            /\ registering' = [registering EXCEPT ![a] = Registers[a]]
            /\ tasks' = [tasks EXCEPT ![a] = ToDiscover(a)]
            /\ requests' = requests \cup {<<"link", a, NoOne>>}
       ELSE UNCHANGED <<plugin_state, registering, tasks, requests>>
    /\ UNCHANGED <<registry, asked, deaf, owned, linking, linked, found, fault>>

OnStart(l) ==
    LET a == Subject(l) IN
    /\ Due(l, "actor", "start_actor")
    /\ state' = IF state[a] = "INITIALIZED" THEN [state EXCEPT ![a] = "OPERATIONAL"]
                                            ELSE state
    /\ Handled(l, <<>>)
    /\ UNCHANGED <<registry, init_request, answered, asked, deaf, plugin, requests, fault>>

\* on_link(): now all requests go out; their answers let the initialization go on.
OnLinkResponse(l) ==
    LET a == Subject(l)
        ok == Head(queue[l]).address # NoOne
        asks == {<<"registration", registering[a]>>,
                 <<"discovery", tasks[a] \cap Discovers[a]>>,
                 <<"promise", tasks[a] \cap Promises[a]>>}
    IN
    /\ Due(l, "actor", "link")
    /\ IF plugin_state[a] # "LINKING"
       THEN /\ Fails("on_link_response")
            /\ UNCHANGED <<plugin_state, requests>>
       ELSE IF ok
       THEN /\ plugin_state' = [plugin_state EXCEPT ![a] = "LINKED"]
            /\ requests' = requests \cup
                    UNION {{<<k[1], a, n>> : n \in k[2]} : k \in asks}
            /\ \E rs \in ForEach("registration", a, registering[a]),
                  ds \in SetToSeqs(UNION {{Msg("registry", k[1], a, n, NoOne) : n \in k[2]} :
                                          k \in {x \in asks : x[1] # "registration"}}) :
                  IF a \in init_request
                  THEN InitContinue(a, FALSE, Tail(queue[l]) \o rs \o ds)
                  ELSE /\ Handled(l, rs \o ds)
                       /\ UNCHANGED <<state, init_request, answered, fault>>
       ELSE /\ plugin_state' = [plugin_state EXCEPT ![a] = "REFUSED"]
            /\ init_request' = init_request \ {a}
            /\ IF a \in init_request
               THEN Refuse(a, Tail(queue[l]))
               ELSE Handled(l, <<>>) /\ UNCHANGED <<state, answered, fault>>
            /\ UNCHANGED requests
    /\ UNCHANGED <<registry, asked, deaf, registering, owned, tasks, linking, linked, found>>

\* Nothing is left to register, to discover, or to link to.
Done(rs, ts, ls) == rs = {} /\ ts = {} /\ ls = {}

\* The names of which a knows that they are its own, after an answer for n.
NowOwned(a, n, ok) == IF ok THEN owned[a] \cup {n} ELSE owned[a]

OnRegistration(l) ==
    LET a == Subject(l)
        n == Name(l)
        ok == Head(queue[l]).address # NoOne
        rest == registering[a] \ {n}
    IN
    /\ Due(l, "actor", "registration")
    /\ IF n \notin registering[a]
       THEN Fails("on_registration") /\ UNCHANGED <<registering, owned>>
       ELSE /\ registering' = [registering EXCEPT ![a] = rest]
            /\ owned' = [owned EXCEPT ![a] = NowOwned(a, n, ok)]
            /\ IF rest = {} \/ ~ok
               THEN ContinueInit(a, ok, Done(rest, tasks[a], linking[a]), Tail(queue[l]))
               ELSE Handled(l, <<>>) /\ UNCHANGED <<state, init_request, answered, fault>>
    /\ UNCHANGED <<registry, asked, deaf, plugin_state, tasks, linking, linked, found, requests>>

\* process_discovery(): an address found is linked to, whether link() was
\* called for the task or not; link() demands that it was not before.
OnFound(l) ==
    LET a == Subject(l)
        n == Name(l)
        address == Head(queue[l]).address
    IN
    /\ Due(l, "actor", "discovery") \/ Due(l, "actor", "promise")
    /\ IF n \notin tasks[a]
       THEN Fails("process_discovery") /\ UNCHANGED <<found, tasks, linking>>
       ELSE IF address = NoOne
       THEN /\ tasks' = [tasks EXCEPT ![a] = @ \ {n}]
            /\ ContinueInit(a, FALSE, FALSE, Tail(queue[l]))
            /\ UNCHANGED <<found, linking>>
       ELSE /\ found' = [found EXCEPT ![a][n] = address]
            /\ IF address \in {found[a][x] : x \in linking[a] \cup linked[a]}
               THEN Fails("link") /\ UNCHANGED linking
               ELSE /\ linking' = [linking EXCEPT ![a] = @ \cup {n}]
                    /\ Handled(l, <<>>)
                    /\ UNCHANGED <<state, init_request, answered, fault>>
            /\ UNCHANGED tasks
    /\ UNCHANGED <<registry, asked, deaf, plugin_state, registering, owned, linked, requests>>

\* The answer to the link request, for the discovery task: its callback holds
\* a reference to the task.
LinkDone(a, n) ==
    LET rest == tasks[a] \ {n}
        ls == linking[a] \ {n}
    IN
    /\ fault = "none"
    /\ n \in linking[a]
    /\ linking' = [linking EXCEPT ![a] = ls]
    /\ linked' = [linked EXCEPT ![a] = @ \cup {n}]
    /\ tasks' = [tasks EXCEPT ![a] = rest]
    /\ IF n \notin tasks[a] THEN Fails("task")
       ELSE IF a \in init_request
       THEN InitContinue(a, Done(registering[a], rest, ls), queue[ClientsHome])
       ELSE IF rest = {} THEN Fails("continue_init")
       ELSE UNCHANGED <<queue, state, init_request, answered, fault>>
    /\ UNCHANGED <<registry, asked, deaf, plugin_state, registering, owned, found, requests>>

LinkFails(a, n) ==
    /\ fault = "none"
    /\ n \in linking[a]
    /\ linking' = [linking EXCEPT ![a] = @ \ {n}]
    /\ tasks' = [tasks EXCEPT ![a] = @ \ {n}]
    /\ IF n \notin tasks[a] THEN Fails("task")
       ELSE IF a \notin init_request THEN Fails("continue_init")
       ELSE /\ Refuse(a, queue[ClientsHome])
            /\ init_request' = init_request \ {a}
    /\ UNCHANGED <<registry, asked, deaf, plugin_state, registering, owned, linked, found, requests>>

\* The first hop of an answer, to the supervisor, and the timeout of a request.
OnReply(l) ==
    \E kind \in Asks :
        LET m == Head(queue[l])
            r == <<kind, m.actor, m.name>>
        IN
        /\ Due(l, "supervisor", kind)
        /\ requests' = requests \ {r}
        /\ Handled(l, IF r \in requests THEN <<[m EXCEPT !.to = "actor"]>> ELSE <<>>)
        /\ UNCHANGED <<registry, lives, plugin, fault>>

RequestTimeout(r) ==
    /\ fault = "none"
    /\ r \in Expires \cap requests
    /\ requests' = requests \ {r}
    /\ queue' = [queue EXCEPT ![ClientsHome] =
                    Append(@, Msg("actor", r[1], r[2], r[3], NoOne))]
    /\ UNCHANGED <<registry, lives, plugin, fault>>

---------------------------------------------------------------------------
\* Shutting down.

\* actor_base_t::send() of a deregistration_notify, by user code.
UserDeregisters(a) ==
    /\ fault = "none"
    /\ a \in Manual
    /\ state[a] = "OPERATIONAL"
    /\ \E n \in Names : registered_map[n] = a
    /\ LET m == Msg("registry", "deregistration_notify", a, NoOne, NoOne) IN
       /\ \A l \in Localities : \A i \in 1 .. Len(queue[l]) : queue[l][i] # m
       /\ queue' = [queue EXCEPT ![ClientsHome] = Append(@, m)]
    /\ UNCHANGED <<registry, lives, plugin, requests, fault>>

\* Something the plugin of a asked for is not there yet.
Settling(a) ==
    \/ plugin_state[a] = "LINKING" \/ registering[a] # {} \/ tasks[a] # {}
    \/ \E i \in 1 .. Len(queue[ClientsHome]) :
        queue[ClientsHome][i] = Order("init_request", a)

UserShutdown(a) ==
    /\ fault = "none"
    /\ a \in Quitters \ asked
    /\ state[a] \in Live
    /\ a \in Hasty \/ ~Settling(a)
    /\ \A i \in 1 .. Len(queue[ClientsHome]) :
        queue[ClientsHome][i].kind = "shutdown_trigger" => queue[ClientsHome][i].actor # a
    /\ queue' = [queue EXCEPT ![ClientsHome] = @ \o DoShutdown(a)]
    /\ UNCHANGED <<registry, lives, plugin, requests, fault>>

\* child_manager_plugin_t::on_shutdown_trigger() of the supervisor.
OnShutdownTrigger(l) ==
    LET a == Subject(l) IN
    /\ Due(l, "supervisor", "shutdown_trigger")
    /\ asked' = asked \cup {a}
    /\ Handled(l, IF a \in asked THEN <<>> ELSE <<Order("shutdown_request", a)>>)
    /\ UNCHANGED <<registry, state, init_request, answered, deaf, plugin, requests, fault>>

\* link_client_plugin_t::handle_shutdown(): once there are no clients, a gives
\* up its links, also to the registry, and after that its subscriptions.
GiveUpLinks(a, q) ==
    LET r == <<"link", a, NoOne>>
        unanswered == plugin_state[a] = "LINKING"
    IN
    /\ plugin_state' = [plugin_state EXCEPT ![a] = IF unanswered THEN "" ELSE @]
    /\ linking' = [linking EXCEPT ![a] = {}]
    /\ linked' = [linked EXCEPT ![a] = {}]
    /\ requests' = IF unanswered THEN requests \ {r} ELSE requests
    /\ fault' = IF unanswered /\ r \notin requests THEN "discard_request" ELSE fault
    /\ queue' = [queue EXCEPT ![ClientsHome] = Append(q, Order("unsubscription", a))]

\* The names a deregisters, and the promises it cancels.
Deregisters(a) == owned[a]
Cancels(a) == IF plugin_state[a] = "LINKED" THEN tasks[a] \cap Promises[a] ELSE {}

\* registry_plugin_t::handle_shutdown(), which comes first.
OnShutdownRequest(l) ==
    LET a == Subject(l) IN
    /\ Due(l, "actor", "shutdown_request")
    /\ state' = [state EXCEPT ![a] = "SHUTTING_DOWN"]
    /\ registering' = [registering EXCEPT ![a] = {}]
    /\ owned' = [owned EXCEPT ![a] = {}]
    /\ tasks' = [tasks EXCEPT ![a] = {}]
    /\ \E ds \in ForEach("deregistration_service", a, Deregisters(a)),
          cs \in ForEach("discovery_cancel", a, Cancels(a)) :
        LET q == Tail(queue[l]) \o ds \o cs IN
        IF a \in Served
        THEN /\ queue' = [queue EXCEPT ![l] = q]
             /\ UNCHANGED <<plugin_state, linking, linked, requests, fault>>
        ELSE GiveUpLinks(a, q)
    /\ UNCHANGED <<registry, init_request, answered, asked, deaf, found>>

\* The last client of a is gone.
ClientsLeave(a) ==
    /\ fault = "none"
    /\ a \in Served
    /\ state[a] = "SHUTTING_DOWN"
    /\ \A i \in 1 .. Len(queue[ClientsHome]) :
        queue[ClientsHome][i] # Order("unsubscription", a)
    /\ GiveUpLinks(a, queue[ClientsHome])
    /\ UNCHANGED <<registry, lives, registering, owned, tasks, found>>

OnUnsubscription(l) ==
    LET a == Subject(l) IN
    /\ Due(l, "actor", "unsubscription")
    /\ state' = [state EXCEPT ![a] = "SHUT_DOWN"]
    /\ deaf' = deaf \cup {a}
    /\ Handled(l, <<>>)
    /\ UNCHANGED <<registry, init_request, answered, asked, plugin, requests, fault>>

---------------------------------------------------------------------------
\* Between the localities.

\* delivery_plugin_t: what is for an actor of another locality goes there.
Transfer(l) ==
    /\ fault = "none"
    /\ queue[l] # <<>>
    /\ LET m == Head(queue[l]) IN
       /\ Home(m) # l
       /\ queue' = [queue EXCEPT ![l] = Tail(@), ![Home(m)] = Append(@, m)]
    /\ UNCHANGED <<registry, lives, plugin, requests, fault>>

Drop(l) ==
    /\ fault = "none"
    /\ queue[l] # <<>>
    /\ Home(Head(queue[l])) = l
    /\ ~Heard(Head(queue[l]))
    /\ Handled(l, <<>>)
    /\ UNCHANGED <<registry, lives, plugin, requests, fault>>

Deliver(l) ==
    \/ OnLinkRequest(l)
    \/ OnReg(l)
    \/ OnDereg(l)
    \/ OnDeregService(l)
    \/ OnDiscovery(l)
    \/ OnPromise(l)
    \/ OnCancel(l)
    \/ OnInitRequest(l)
    \/ OnStart(l)
    \/ OnLinkResponse(l)
    \/ OnRegistration(l)
    \/ OnFound(l)
    \/ OnReply(l)
    \/ OnShutdownTrigger(l)
    \/ OnShutdownRequest(l)
    \/ OnUnsubscription(l)
    \/ Transfer(l)
    \/ Drop(l)

LinkSettles(a) == \E n \in Names : LinkDone(a, n) \/ LinkFails(a, n)

Next ==
    \/ \E l \in Localities : Deliver(l)
    \/ \E a \in Actors : \/ Create(a) \/ LinkSettles(a) \/ UserDeregisters(a)
                         \/ UserShutdown(a) \/ ClientsLeave(a)
    \/ \E r \in Expires : RequestTimeout(r)

Spec == Init /\ [][Next]_vars

\* The event loop of each locality runs; requests to link are answered or time
\* out, and clients let go of an actor that is shut down (see Linking).
FairSpec ==
    /\ Spec
    /\ \A l \in Localities : WF_vars(Deliver(l))
    /\ \A a \in Actors : WF_vars(LinkSettles(a)) /\ WF_vars(ClientsLeave(a))

---------------------------------------------------------------------------
\* Properties.

Promise == Actors \X Names

TypeOK ==
    /\ registered_map \in [Names -> Actors \cup {NoOne}]
    /\ DOMAIN revese_map \subseteq Actors
    /\ \A a \in DOMAIN revese_map : revese_map[a] \subseteq Names
    /\ promises \in Seq(Promise)
    /\ state \in [Actors -> States]
    /\ init_request \subseteq Actors /\ answered \subseteq Actors
    /\ asked \subseteq Actors /\ deaf \subseteq Actors
    /\ plugin_state \in [Actors -> {"", "LINKING", "LINKED", "REFUSED"}]
    /\ \A names \in {registering, owned, tasks, linking, linked} :
        names \in [Actors -> SUBSET Names]
    /\ \A a \in Actors :
        /\ registering[a] \cup owned[a] \subseteq Registers[a]
        /\ tasks[a] \cup linking[a] \cup linked[a] \subseteq Discovers[a] \cup Promises[a]
    /\ found \in [Actors -> [Names -> Actors \cup {NoOne}]]
    /\ requests \subseteq Request
    /\ queue \in [Localities -> Seq(Message)]
    /\ fault \in Faults

\* The two maps of the registry say the same, whatever is registered and
\* deregistered by whom: revese_map.at() in on_dereg_service() finds an entry.
MapsAgree ==
    /\ \A n \in Names, a \in Actors :
        registered_map[n] = a <=> a \in DOMAIN revese_map /\ n \in revese_map[a]
    /\ fault # "at"

\* No promise waits for a name that is registered: on_reg() and on_promise()
\* do not miss each other (docs/Patterns.md, delayed discovery).
NoPromiseIsMissed ==
    \A i \in 1 .. Len(promises) : registered_map[promises[i][2]] = NoOne

\* A client is told the address of an actor that registers the name it asked for.
AnswersAreTrue ==
    \A a \in Actors, n \in Names :
        found[a][n] # NoOne => n \in Registers[found[a][n]]

\* A name stays with its owner until that owner deregisters or is shut down:
\* no other's failure to register it takes it away.
NamesAreKept ==
    [][\A n \in Names, a \in Actors \ Manual :
        registered_map[n] = a /\ registered_map'[n] # a => a \in asked]_vars

\* "upon the termination it undoes the registration" (docs/Patterns.md): in the
\* end no name belongs to an actor that is gone.
NamesAreReturned ==
    <>[](fault # "none" \/ \A n \in Names, a \in Actors :
                            state[a] = "SHUT_DOWN" => registered_map[n] # a)

\* Nor does the registry keep a promise to an actor that is gone: on_cancel()
\* withdraws what its shutdown leaves behind.
PromisesAreCancelled ==
    <>[](fault # "none" \/ \A i \in 1 .. Len(promises) :
                            state[promises[i][1]] # "SHUT_DOWN")

\* A client does not wait for ever for a name that is there.
FoundInTheEnd ==
    <>[](fault # "none" \/ \A a \in Actors, n \in Names :
                            n \in tasks[a] => registered_map[n] = NoOne)
=============================================================================

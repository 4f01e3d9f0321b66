---------------------------- MODULE Supervision -----------------------------
(***************************************************************************)
(* The tree of supervisors: creation, initialization, start and shutdown   *)
(* of actors (src/rotor/plugin/child_manager.cpp, init_shutdown.cpp,       *)
(* starter.cpp, resources.cpp, src/rotor/actor_base.cpp, supervisor.cpp).  *)
(*                                                                         *)
(* All actors share one locality, so all messages go through the FIFO      *)
(* queue of the locality leader and handlers do not run concurrently.      *)
(* What does interleave with the queue is user code (children created,     *)
(* do_shutdown(), resources acquired and released) and the event loop      *)
(* (timeouts of the init and shutdown requests, answers to link requests). *)
(*                                                                         *)
(* Abstracted: a request's answer keeps its two hops (see ReqRes) but is   *)
(* named by the actor it is about; the subscriptions an actor gives up on  *)
(* shutdown are two batches of messages, those of all plugins and then     *)
(* those of the lifetime plugin, each batch one message; the server of a   *)
(* link request is the environment.  entry.initialized and postponed_init  *)
(* are left out: a child with the former is past INITIALIZING already, and *)
(* a supervisor that is INITIALIZING and has children always has the       *)
(* latter.  The build has assertions on.                                   *)
(***************************************************************************)
EXTENDS Naturals, Sequences, FiniteSets, SequencesExt

CONSTANTS
    Actors,         \* the actors, supervisors included
    Root,           \* the root supervisor
    Parent,         \* [Actors -> Actors]: the supervisor of each; the root's is itself
    Supervisors,    \* the actors that are supervisors
    SyncStart,      \* supervisors with synchronize_start(true)
    ShutdownSelf,   \* supervisors with the policy shutdown_self (others: shutdown_failed)
    Linkers,        \* actors that link to a server while they initialize
    Holders,        \* plain actors that acquire a resource
    Subscribers,    \* actors that subscribe to messages of their own
    InitExpires,    \* actors whose initialization may time out
    ShutdownExpires,\* actors whose shutdown may time out
    Quitters,       \* actors on which user code calls do_shutdown()
    MaxShutdowns    \* bound: how often it does

ASSUME TreeAssumption ==
    /\ Root \in Supervisors
    /\ Supervisors \subseteq Actors
    /\ IsFiniteSet(Actors)
    /\ Parent \in [Actors -> Supervisors]
    /\ \A a \in Actors : Parent[a] = a <=> a = Root
ASSUME HoldersAssumption == Holders \subseteq Actors \ Supervisors
ASSUME BoundAssumption == MaxShutdowns \in Nat

VARIABLES
    booted,             \* do_initialize() of the root has requested its own init
    state,              \* [Actors -> States]: actor_base_t::state
    poll,               \* [Actors -> Plugins]: where the last init_continue() stopped
    holding,            \* actors whose resources plugin has_any()
    init_request,       \* actors with actor_base_t::init_request set
    shutdown_request,   \* actors with actor_base_t::shutdown_request set
    pending_init,       \* actors whose init request is in their supervisor's request_map
    pending_shutdown,   \* the same for shutdown requests
    managed,            \* actors in actors_map of their supervisor
    strated,            \* entries with strated [sic]
    asked,              \* entries with shutdown # NONE
    closing,            \* actors that have sent off their unsubscriptions
    deaf,               \* actors unsubscribed from all but lifetime messages
    queue,              \* the queue of the locality leader
    shutdowns,          \* calls of do_shutdown() so far
    fault               \* why the program was aborted, if it was

vars == <<booted, state, poll, holding, init_request, shutdown_request,
          pending_init, pending_shutdown, managed, strated, asked, closing,
          deaf, queue, shutdowns, fault>>

States == {"NEW", "INITIALIZING", "INITIALIZED", "OPERATIONAL",
           "SHUTTING_DOWN", "SHUT_DOWN"}
Live == {"INITIALIZING", "INITIALIZED", "OPERATIONAL"}

\* The plugins an initialization waits for, in the order they are polled.
\* Where an actor has not got its init request, init_shutdown_t is the one.
Plugins == {"init_shutdown", "child_manager", "link_client", "resources",
            "starter", "none"}

\* Messages to the actor itself, and to its supervisor.  A "_reply" is a
\* response on its first hop; "forget" confirms the unsubscription from the
\* imaginary addresses the supervisor keeps for an actor.
ToActor == {"init_request", "shutdown_request", "start_actor", "subscription",
            "unsubscription", "deactivation"}
ToSupervisor == {"create_actor", "init_reply", "init_response",
                 "shutdown_trigger", "shutdown_reply", "shutdown_response",
                 "forget"}
Message == [kind : ToActor \cup ToSupervisor, actor : Actors, ok : BOOLEAN]

Msg(kind, a) == [kind |-> kind, actor |-> a, ok |-> TRUE]
FailedSilently(kind, a) == Msg(kind, a)
Failed(kind, a) == [kind |-> kind, actor |-> a, ok |-> FALSE]

Faults == {"none", "assertion", "no entry", "on_error"}

Init ==
    /\ booted = FALSE
    /\ state = [a \in Actors |-> IF a = Root THEN "INITIALIZING" ELSE "NEW"]
    /\ poll = [a \in Actors |-> "init_shutdown"]
    /\ holding = {}
    /\ init_request = {}
    /\ shutdown_request = {}
    /\ pending_init = {}
    /\ pending_shutdown = {}
    /\ managed = {Root}
    /\ strated = {}
    /\ asked = {}
    /\ closing = {}
    /\ deaf = {}
    /\ queue = <<>>
    /\ shutdowns = 0
    /\ fault = "none"

---------------------------------------------------------------------------
\* Plausible mistakes in the definitions below, named after them.  They are
\* not part of the specification; they show that the properties notice.

KidsNotAsked(p) == {c \in managed \ ({Root} \cup asked) : Parent[c] = p}

AnyInitializingOffByOne(kids) == \E c \in kids : state[c] = "NEW"

DoShutdownAgain(a) ==
    IF state[a] # "NEW" THEN <<Msg("shutdown_trigger", a)>> ELSE <<>>

CancelledNever(S) == {}

StartsAtOnce(a) == a \in managed

ManagerContinuesChildless(p, kids) ==
    /\ state[p] = "INITIALIZING"
    /\ p \in init_request
    /\ poll[p] = "child_manager"
    /\ kids = {}

UnheardLifetime(x) ==
    IF x.kind \in ToActor THEN x.actor \in deaf ELSE Parent[x.actor] \in deaf

---------------------------------------------------------------------------
\* The entries of p's actors_map but its own.
Kids(p) == {c \in managed \ {Root} : Parent[c] = p}

\* child_manager_plugin_t::has_initializing() over these entries.
AnyInitializing(kids) == \E c \in kids : state[c] = "INITIALIZING"

\* An actor whose link_client has asked for a link has made a request
\* through its supervisor: the supervisor keeps an imaginary address for it.
Mapped(a) ==
    /\ a \in Linkers \ Supervisors
    /\ poll[a] # "init_shutdown"

\* child_manager_plugin_t::cancel_init(): of which actors of S the request is
\* discarded; it is found through the message, where that was delivered.
Cancelled(S) == S \cap init_request

\* Whether on_init() starts an actor that was initialized.
Starts(a) ==
    /\ a \in managed
    /\ IF a = Root THEN state[Root] \in Live ELSE Parent[a] \notin SyncStart

\* actor_base_t::do_shutdown(): what it sends.
DoShutdown(a) ==
    IF state[a] \in Live THEN <<Msg("shutdown_trigger", a)>> ELSE <<>>

\* The messages of kind "kind" to each of the actors of S: actors_map is a
\* hash map, so in any order.
ToEach(kind, S) ==
    {[i \in 1 .. Cardinality(S) |-> Msg(kind, f[i])] : f \in SetToSeqs(S)}

\* The plugin that stops a poll once the plugins up to "done" have agreed.
StopsAt(a, done, kids) ==
    IF done = "init_shutdown" /\ a \in Supervisors /\ AnyInitializing(kids)
    THEN "child_manager"
    ELSE IF done \in {"init_shutdown", "child_manager"} /\ a \in Linkers
    THEN "link_client"
    ELSE IF done \notin {"resources", "starter"} /\ a \in Holders
    THEN "resources"
    ELSE IF done # "starter" /\ a \in Subscribers
    THEN "starter"
    ELSE "none"

\* actor_base_t::init_continue() of an actor whose plugins up to "done" have
\* agreed: each next plugin is configured when the poll first reaches it (it
\* asks for its link, acquires its resource, subscribes), and init_finish()
\* replies if none objects.  q is the queue so far.
InitContinue(a, done, kids, q) ==
    LET stop == StopsAt(a, done, kids) IN
    /\ poll' = [poll EXCEPT ![a] = stop]
    /\ holding' = IF stop = "resources" THEN holding \cup {a} ELSE holding \ {a}
    /\ IF stop = "none"
       THEN /\ state' = [state EXCEPT ![a] = "INITIALIZED"]
            /\ init_request' = init_request \ {a}
       ELSE /\ init_request' = init_request \cup {a}
            /\ UNCHANGED state
    /\ queue' = CASE stop = "none" -> Append(q, Msg("init_reply", a))
                  [] stop = "starter" -> Append(q, Msg("subscription", a))
                  [] OTHER -> q

\* child_manager_plugin_t::init_continue() of a supervisor p, which has these
\* kids left: only if p still waits for its children is there more to do.
ManagerContinues(p, kids) ==
    /\ state[p] = "INITIALIZING"
    /\ p \in init_request
    /\ poll[p] = "child_manager"
    /\ ~AnyInitializing(kids)

\* child_manager_plugin_t::remove_child(): a child that was never started
\* takes an INITIALIZING supervisor with it; the last child to go lets a
\* SHUTTING_DOWN one proceed, and any child an INITIALIZING one.
RemoveChild(c, q) ==
    LET p == Parent[c]
        kids == Kids(p) \ {c}
        failed == state[p] = "INITIALIZING" /\ c \notin strated
        escalates == failed /\ p \in ShutdownSelf /\ p \in init_request
        sent == q \o (IF failed /\ p \notin ShutdownSelf THEN DoShutdown(p)
                      ELSE IF escalates THEN <<Failed("init_reply", p)>>
                      ELSE <<>>)
    IN
    /\ managed' = managed \ {c}
    /\ pending_init' = pending_init \ Cancelled({c})
    /\ IF ManagerContinues(p, kids) /\ ~escalates
       THEN /\ InitContinue(p, "child_manager", {}, sent)
            /\ UNCHANGED closing
       ELSE /\ init_request' = IF escalates THEN init_request \ {p}
                                            ELSE init_request
            /\ IF state[p] = "SHUTTING_DOWN" /\ kids = {}
               THEN /\ closing' = closing \cup {p}
                    /\ queue' = Append(sent, Msg("unsubscription", p))
               ELSE queue' = sent /\ UNCHANGED closing
            /\ UNCHANGED <<state, poll, holding>>
    /\ fault' = IF c \in managed THEN fault ELSE "no entry"
    /\ UNCHANGED <<booted, shutdown_request, pending_shutdown, strated, asked,
                   deaf, shutdowns>>

\* shutdown_start() and the first shutdown_continue() of a: a supervisor asks
\* all its children, an actor with resources waits for their release, and who
\* has nothing to wait for gives up its subscriptions.  "own" is the entry
\* that made a shut down, where the root has one for itself.
ShutdownStart(a, own, q) ==
    LET ask == Kids(a) \ asked IN
    /\ state' = [state EXCEPT ![a] = "SHUTTING_DOWN"]
    /\ asked' = asked \cup ask \cup own
    /\ pending_init' = pending_init \ Cancelled(ask \cup own)
    /\ pending_shutdown' = pending_shutdown \cup ask
    /\ IF Kids(a) = {} /\ a \notin holding
       THEN /\ closing' = closing \cup {a}
            /\ queue' = Append(q, Msg("unsubscription", a))
       ELSE /\ \E s \in ToEach("shutdown_request", ask) : queue' = q \o s
            /\ UNCHANGED closing

---------------------------------------------------------------------------
\* User code and the event loop.

\* create_actor<...>().finish(): the child's plugins are activated, and its
\* supervisor gets an entry and a message to itself.
Create(a) ==
    /\ fault = "none"
    /\ state[a] = "NEW"
    /\ state[Parent[a]] \in Live
    /\ state' = [state EXCEPT ![a] = "INITIALIZING"]
    /\ managed' = managed \cup {a}
    /\ queue' = Append(queue, Msg("create_actor", a))
    /\ UNCHANGED <<booted, poll, holding, init_request, shutdown_request,
                   pending_init, pending_shutdown, strated, asked, closing,
                   deaf, shutdowns, fault>>

\* supervisor_t::do_initialize() of the root, which has no supervisor to ask
\* it to initialize; configure() may have created children before.
Boot ==
    /\ ~booted
    /\ booted' = TRUE
    /\ pending_init' = pending_init \cup {Root}
    /\ queue' = Append(queue, Msg("init_request", Root))
    /\ UNCHANGED <<state, poll, holding, init_request, shutdown_request,
                   pending_shutdown, managed, strated, asked, closing, deaf,
                   shutdowns, fault>>

UserShutdown(a) ==
    /\ fault = "none"
    /\ booted
    /\ a \in Quitters
    /\ state[a] # "NEW"
    /\ shutdowns < MaxShutdowns
    /\ shutdowns' = shutdowns + 1
    /\ queue' = queue \o DoShutdown(a)
    /\ UNCHANGED <<booted, state, poll, holding, init_request,
                   shutdown_request, pending_init, pending_shutdown, managed,
                   strated, asked, closing, deaf, fault>>

\* resources_plugin_t::acquire() by an actor at work.
Acquire(a) ==
    /\ fault = "none"
    /\ a \in Holders \ holding
    /\ state[a] = "OPERATIONAL"
    /\ holding' = holding \cup {a}
    /\ UNCHANGED <<booted, state, poll, init_request, shutdown_request,
                   pending_init, pending_shutdown, managed, strated, asked,
                   closing, deaf, queue, shutdowns, fault>>

\* resources_plugin_t::release() of the last resource: an initialization or a
\* shutdown that waited for it goes on.
Release(a) ==
    /\ fault = "none"
    /\ a \in holding
    /\ IF state[a] = "INITIALIZING" /\ a \in init_request
       THEN InitContinue(a, "resources", {}, queue) /\ UNCHANGED <<closing, fault>>
       ELSE /\ holding' = holding \ {a}
            /\ fault' = IF state[a] = "INITIALIZING" THEN "assertion" ELSE fault
            /\ IF state[a] = "SHUTTING_DOWN"
               THEN /\ closing' = closing \cup {a}
                    /\ queue' = Append(queue, Msg("unsubscription", a))
               ELSE UNCHANGED <<closing, queue>>
            /\ UNCHANGED <<state, poll, init_request>>
    /\ UNCHANGED <<booted, shutdown_request, pending_init, pending_shutdown,
                   managed, strated, asked, deaf, shutdowns>>

\* link_client_plugin_t::on_link_response() while the answer matters; what it
\* does with one that comes during the shutdown is not in this module.
LinkDone(a) ==
    /\ fault = "none"
    /\ state[a] = "INITIALIZING"
    /\ poll[a] = "link_client"
    /\ a \in init_request
    /\ InitContinue(a, "link_client", {}, queue)
    /\ UNCHANGED <<booted, shutdown_request, pending_init, pending_shutdown,
                   managed, strated, asked, closing, deaf, shutdowns, fault>>

\* The link was refused or timed out: the initialization has failed.
LinkFails(a) ==
    /\ fault = "none"
    /\ state[a] = "INITIALIZING"
    /\ poll[a] = "link_client"
    /\ a \in init_request
    /\ init_request' = init_request \ {a}
    /\ queue' = Append(queue, Failed("init_reply", a))
    /\ UNCHANGED <<booted, state, poll, holding, shutdown_request,
                   pending_init, pending_shutdown, managed, strated, asked,
                   closing, deaf, shutdowns, fault>>

\* on_request_trigger() for an init request: the supervisor gets an error
\* response, in one hop.
InitTimeout(a) ==
    /\ fault = "none"
    /\ a \in InitExpires \cap pending_init
    /\ pending_init' = pending_init \ {a}
    /\ queue' = Append(queue, Failed("init_response", a))
    /\ UNCHANGED <<booted, state, poll, holding, init_request,
                   shutdown_request, pending_shutdown, managed, strated, asked,
                   closing, deaf, shutdowns, fault>>

ShutdownTimeout(a) ==
    /\ fault = "none"
    /\ a \in ShutdownExpires \cap pending_shutdown
    /\ pending_shutdown' = pending_shutdown \ {a}
    /\ queue' = Append(queue, Failed("shutdown_response", a))
    /\ UNCHANGED <<booted, state, poll, holding, init_request,
                   shutdown_request, pending_init, managed, strated, asked,
                   closing, deaf, shutdowns, fault>>

---------------------------------------------------------------------------
\* The handlers.  m is the message delivered, rest the queue behind it.

Receiver(x) == IF x.kind \in ToActor THEN x.actor ELSE Parent[x.actor]

\* The lifetime plugin is the last to be unsubscribed.
Unheard(x) == x.kind # "deactivation" /\ Receiver(x) \in deaf

Delivery == booted /\ fault = "none" /\ queue # <<>>

Received(kind) ==
    /\ Delivery
    /\ Head(queue).kind = kind
    /\ ~Unheard(Head(queue))

m == Head(queue)
rest == Tail(queue)

\* delivery_plugin_t::process(): no recipients.
Drop ==
    /\ Delivery
    /\ Unheard(m)
    /\ queue' = rest
    /\ UNCHANGED <<booted, state, poll, holding, init_request,
                   shutdown_request, pending_init, pending_shutdown, managed,
                   strated, asked, closing, deaf, shutdowns, fault>>

\* child_manager_plugin_t::on_create(): asks the child to initialize.
OnCreate ==
    /\ Received("create_actor")
    /\ pending_init' = pending_init \cup {m.actor}
    /\ queue' = Append(rest, Msg("init_request", m.actor))
    /\ fault' = IF m.actor \in managed THEN fault ELSE "assertion"
    /\ UNCHANGED <<booted, state, poll, holding, init_request,
                   shutdown_request, pending_shutdown, managed, strated, asked,
                   closing, deaf, shutdowns>>

\* init_shutdown_plugin_t::on_init(): the first poll, unless it comes too late.
OnInitRequest ==
    /\ Received("init_request")
    /\ IF state[m.actor] = "INITIALIZING"
       THEN InitContinue(m.actor, "init_shutdown", Kids(m.actor), rest)
       ELSE /\ init_request' = init_request \cup {m.actor}
            /\ queue' = rest
            /\ UNCHANGED <<state, poll, holding>>
    /\ UNCHANGED <<booted, shutdown_request, pending_init, pending_shutdown,
                   managed, strated, asked, closing, deaf, shutdowns, fault>>

\* The lambda of request_builder_t::install_handler(): a response to a
\* request that is not pending any more is dropped.
OnInitReply ==
    /\ Received("init_reply")
    /\ pending_init' = pending_init \ {m.actor}
    /\ queue' = IF m.actor \in pending_init
                THEN Append(rest, [m EXCEPT !.kind = "init_response"])
                ELSE rest
    /\ UNCHANGED <<booted, state, poll, holding, init_request,
                   shutdown_request, pending_shutdown, managed, strated, asked,
                   closing, deaf, shutdowns, fault>>

\* child_manager_plugin_t::on_init() without an error: the child is started
\* unless it has to wait for its siblings, and the supervisor may be done.
OnInitSuccess ==
    /\ Received("init_response")
    /\ m.ok
    /\ LET p == Parent[m.actor]
           sent == IF Starts(m.actor)
                   THEN Append(rest, Msg("start_actor", m.actor))
                   ELSE rest
       IN
        /\ strated' = IF Starts(m.actor) THEN strated \cup {m.actor} ELSE strated
        /\ IF ManagerContinues(p, Kids(p))
           THEN InitContinue(p, "child_manager", {}, sent)
           ELSE queue' = sent /\ UNCHANGED <<state, poll, holding, init_request>>
    /\ UNCHANGED <<booted, shutdown_request, pending_init, pending_shutdown,
                   managed, asked, closing, deaf, shutdowns, fault>>

\* child_manager_plugin_t::on_init() with an error: under shutdown_self an
\* INITIALIZING supervisor fails its own initialization, or shuts down when
\* it has done so already.  Otherwise the child is shut down, or, when it is
\* gone, the supervisor.
OnInitFailure ==
    /\ Received("init_response")
    /\ ~m.ok
    /\ LET p == Parent[m.actor]
           self == state[p] = "INITIALIZING" /\ p \in ShutdownSelf
           victim == IF ~self /\ m.actor \in managed THEN m.actor ELSE p
       IN
        IF self /\ p \in init_request
        THEN /\ init_request' = init_request \ {p}
             /\ queue' = Append(rest, Failed("init_reply", p))
        ELSE /\ queue' = rest \o DoShutdown(victim)
             /\ UNCHANGED init_request
    /\ UNCHANGED <<booted, state, poll, holding, shutdown_request,
                   pending_init, pending_shutdown, managed, strated, asked,
                   closing, deaf, shutdowns, fault>>

\* child_manager_plugin_t::on_shutdown_trigger(): only the root shuts down at
\* once, any other actor is asked to, once.
OnShutdownTrigger ==
    /\ Received("shutdown_trigger")
    /\ fault' = IF m.actor \in managed THEN fault ELSE "no entry"
    /\ IF m.actor \in asked \/ m.actor \notin managed
       THEN /\ queue' = rest
            /\ UNCHANGED <<state, asked, pending_init, pending_shutdown, closing>>
       ELSE IF m.actor = Root
       THEN ShutdownStart(Root, {Root}, rest)
       ELSE /\ asked' = asked \cup {m.actor}
            /\ pending_init' = pending_init \ Cancelled({m.actor})
            /\ pending_shutdown' = pending_shutdown \cup {m.actor}
            /\ queue' = Append(rest, Msg("shutdown_request", m.actor))
            /\ UNCHANGED <<state, closing>>
    /\ UNCHANGED <<booted, poll, holding, init_request, shutdown_request,
                   managed, strated, deaf, shutdowns>>

\* init_shutdown_plugin_t::on_shutdown().
OnShutdownRequest ==
    /\ Received("shutdown_request")
    /\ shutdown_request' = shutdown_request \cup {m.actor}
    /\ ShutdownStart(m.actor, {}, rest)
    /\ UNCHANGED <<booted, poll, holding, init_request, managed, strated, deaf,
                   shutdowns, fault>>

\* The first hop of the confirmation.
OnShutdownReply ==
    /\ Received("shutdown_reply")
    /\ pending_shutdown' = pending_shutdown \ {m.actor}
    /\ queue' = IF m.actor \in pending_shutdown
                THEN Append(rest, [m EXCEPT !.kind = "shutdown_response"])
                ELSE rest
    /\ UNCHANGED <<booted, state, poll, holding, init_request,
                   shutdown_request, pending_init, managed, strated, asked,
                   closing, deaf, shutdowns, fault>>

\* child_manager_plugin_t::on_shutdown_confirm(): the child is removed, at
\* once or when the imaginary addresses kept for it are gone.  A child that
\* did not shut down in time is an error of the system context, which aborts.
OnShutdownResponse ==
    /\ Received("shutdown_response")
    /\ IF ~m.ok
       THEN /\ fault' = IF m.actor \in managed THEN "on_error" ELSE "no entry"
            /\ queue' = rest
            /\ UNCHANGED <<booted, state, poll, holding, init_request,
                           shutdown_request, pending_init, pending_shutdown,
                           managed, strated, asked, closing, deaf, shutdowns>>
       ELSE IF Mapped(m.actor)
       THEN /\ fault' = IF m.actor \in managed THEN fault ELSE "no entry"
            /\ queue' = Append(rest, Msg("forget", m.actor))
            /\ UNCHANGED <<booted, state, poll, holding, init_request,
                           shutdown_request, pending_init, pending_shutdown,
                           managed, strated, asked, closing, deaf, shutdowns>>
       ELSE RemoveChild(m.actor, rest)

\* child_manager_plugin_t::handle_unsubscription() for the last of them.
OnForget ==
    /\ Received("forget")
    /\ RemoveChild(m.actor, rest)

\* starter_plugin_t::on_start(): only in INITIALIZED.  A supervisor that
\* starts its children together tells them now.
OnStart ==
    /\ Received("start_actor")
    /\ LET kids == IF m.actor \in SyncStart THEN Kids(m.actor) ELSE {} IN
        IF state[m.actor] = "INITIALIZED"
        THEN /\ state' = [state EXCEPT ![m.actor] = "OPERATIONAL"]
             /\ strated' = strated \cup kids
             /\ \E s \in ToEach("start_actor", kids) : queue' = rest \o s
        ELSE queue' = rest /\ UNCHANGED <<state, strated>>
    /\ UNCHANGED <<booted, poll, holding, init_request, shutdown_request,
                   pending_init, pending_shutdown, managed, asked, closing,
                   deaf, shutdowns, fault>>

\* starter_plugin_t::handle_subscription(): the last confirmation the actor
\* waited for makes it go on, whatever state it is in by now.
OnSubscription ==
    /\ Received("subscription")
    /\ IF state[m.actor] = "INITIALIZING" /\ m.actor \in init_request
       THEN InitContinue(m.actor, "starter", {}, rest) /\ UNCHANGED fault
       ELSE /\ fault' = "assertion"
            /\ queue' = rest
            /\ UNCHANGED <<state, poll, holding, init_request>>
    /\ UNCHANGED <<booted, shutdown_request, pending_init, pending_shutdown,
                   managed, strated, asked, closing, deaf, shutdowns>>

\* The plugins are unsubscribed, and lifetime_plugin_t::unsubscribe() gives
\* up its own subscriptions.  The root removes its own entry on the way.
OnUnsubscription ==
    /\ Received("unsubscription")
    /\ deaf' = deaf \cup {m.actor}
    /\ queue' = Append(rest, Msg("deactivation", m.actor))
    /\ IF m.actor = Root
       THEN /\ managed' = managed \ {Root}
            /\ pending_init' = pending_init \ Cancelled({Root})
       ELSE UNCHANGED <<managed, pending_init>>
    /\ UNCHANGED <<booted, state, poll, holding, init_request,
                   shutdown_request, pending_shutdown, strated, asked, closing,
                   shutdowns, fault>>

\* actor_base_t::shutdown_finish(): the actor confirms, and the timers of its
\* requests are cancelled.
OnDeactivation ==
    /\ Received("deactivation")
    /\ LET own == {c \in Actors : Parent[c] = m.actor} IN
        /\ pending_init' = pending_init \ own
        /\ pending_shutdown' = pending_shutdown \ own
    /\ state' = [state EXCEPT ![m.actor] = "SHUT_DOWN"]
    /\ shutdown_request' = shutdown_request \ {m.actor}
    /\ queue' = IF m.actor \in shutdown_request
                THEN Append(rest, Msg("shutdown_reply", m.actor))
                ELSE rest
    /\ UNCHANGED <<booted, poll, holding, init_request, managed, strated,
                   asked, closing, deaf, shutdowns, fault>>

Deliver ==
    \/ Drop
    \/ OnCreate
    \/ OnInitRequest
    \/ OnInitReply
    \/ OnInitSuccess
    \/ OnInitFailure
    \/ OnShutdownTrigger
    \/ OnShutdownRequest
    \/ OnShutdownReply
    \/ OnShutdownResponse
    \/ OnForget
    \/ OnStart
    \/ OnSubscription
    \/ OnUnsubscription
    \/ OnDeactivation

Next ==
    \/ Boot
    \/ Deliver
    \/ \E a \in Actors :
        \/ Create(a)
        \/ UserShutdown(a)
        \/ Acquire(a)
        \/ Release(a)
        \/ LinkDone(a)
        \/ LinkFails(a)
        \/ InitTimeout(a)
        \/ ShutdownTimeout(a)

\* The root is booted when it is created, do_process() drains the queue, a
\* link request is answered (by its server or by its timeout), and user code
\* releases what it has acquired.  Nothing obliges user code to create
\* children or to shut anything down, nor a timeout to strike.
Fairness ==
    /\ WF_vars(Boot)
    /\ WF_vars(Deliver)
    /\ \A a \in Actors :
        WF_vars(Release(a)) /\ WF_vars(LinkDone(a) \/ LinkFails(a))

Spec == Init /\ [][Next]_vars /\ Fairness

---------------------------------------------------------------------------
TypeOK ==
    /\ booted \in BOOLEAN
    /\ state \in [Actors -> States]
    /\ poll \in [Actors -> Plugins]
    /\ holding \subseteq Holders
    /\ init_request \subseteq Actors
    /\ shutdown_request \subseteq Actors
    /\ pending_init \subseteq Actors
    /\ pending_shutdown \subseteq Actors
    /\ managed \subseteq Actors
    /\ strated \subseteq Actors
    /\ asked \subseteq Actors
    /\ closing \subseteq Actors
    /\ deaf \subseteq closing
    /\ queue \in Seq(Message)
    /\ shutdowns \in 0 .. MaxShutdowns
    /\ fault \in Faults

\* No interleaving of user code, timeouts and messages makes an assertion of
\* child_manager.cpp, actor_base.cpp or resources.cpp fail, nor
\* actors_map.at() throw out of a noexcept handler.
NoAssertionFails == fault \notin {"assertion", "no entry"}

L == INSTANCE Lifecycle

\* The tree keeps the promise of docs/Design.md: states advance in one
\* direction, a supervisor finishes only after every actor it created, and
\* none is created by one that is on its way out.
FollowsLifecycle == L!Spec

\* An actor that was forgotten by its supervisor has left no request behind
\* in its request_map: a timer that fired for it later would be taken for a
\* failure of the supervisor itself (child_manager.cpp:161).
ForgottenLeavesNoRequest ==
    \A a \in Actors :
        state[a] # "NEW" /\ a \notin managed =>
            a \notin pending_init \cup pending_shutdown

\* What actors confirm is true when the confirmation is handled, however
\* long it was in the queue and whatever happened meanwhile.
ConfirmationsAreTrue ==
    \A i \in 1 .. Len(queue) :
        queue[i].ok =>
            /\ queue[i].kind \in {"shutdown_reply", "shutdown_response"} =>
                    state[queue[i].actor] = "SHUT_DOWN"
            /\ queue[i].kind \in {"init_reply", "init_response"} =>
                    state[queue[i].actor] \notin {"NEW", "INITIALIZING"}

\* With synchronize_start a child is OPERATIONAL only after its supervisor
\* (child_manager_plugin_t::handle_start()).
ChildrenStartAfterSupervisor ==
    \A a \in Actors \ {Root} :
        Parent[a] \in SyncStart /\ state[a] = "OPERATIONAL" =>
            state[Parent[a]] \in {"OPERATIONAL", "SHUTTING_DOWN"}

\* docs/Design.md:161: a supervisor waits until all of its children confirm
\* that they are INITIALIZED, and only after that confirms itself.
WaitsForChildren ==
    [][\A p \in Supervisors :
        state[p] = "INITIALIZING" /\ state'[p] = "INITIALIZED" =>
            \A c \in Actors : Parent[c] = p /\ c # p => state'[c] # "INITIALIZING"
      ]_vars

\* Who was asked to shut down gets there: supervisors wait for their
\* children, children for their resources, and no message is missing.  A
\* failed assertion or on_error() ends the program before.
ShutdownCompletes ==
    \A a \in Actors : (a \in asked) ~> (state[a] = "SHUT_DOWN" \/ fault # "none")

\* docs/Design.md:116: an actor whose initialization fails does not become
\* operational and starts to shut down.  None stays INITIALIZING for ever.
InitializationSettles ==
    \A a \in Actors :
        (state[a] = "INITIALIZING") ~> (state[a] # "INITIALIZING" \/ fault # "none")
=============================================================================

--------------------------- MODULE Subscriptions ---------------------------
(***************************************************************************)
(* Subscriptions across supervisors.  An actor subscribes a handler to an  *)
(* address; the supervisor that owns the address keeps the table of        *)
(* handlers.  When that is not the actor's own supervisor, the subscription *)
(* lives in two places: with the actor (its starter and lifetime plugins)  *)
(* and with the owner (its foreigners_support plugin), which are told of   *)
(* each other's changes by messages only, and a message published to the   *)
(* address reaches the handler in two hops.                                *)
(*                                                                         *)
(* Every supervisor leads a locality of its own: it has a queue, which its *)
(* thread works off to the end, and an inbox, which the other localities   *)
(* fill.  The thread takes the inbox when its queue is empty, and around a *)
(* handler marked tag_io() also when it is not.                            *)
(***************************************************************************)
EXTENDS Naturals, Sequences, FiniteSets, SequencesExt

CONSTANTS
    Supervisors, Actors, Addresses,
    Home,           \* the supervisor of each actor
    Owner,          \* the supervisor that made each address
    Subscribes,     \* the addresses each actor's configure() subscribes to, in order
    Later,          \* the addresses each actor may subscribe to at run time
    Publishes,      \* the addresses each actor may send to
    Budget,         \* how often each actor may send, or subscribe at run time
    Linked,         \* TRUE if subscribers are linked to the owner of the address
    Tagged          \* the supervisors whose thread also runs handlers marked tag_io()

Points == [actor : Actors, address : Addresses]
Point(a, x) == [actor |-> a, address |-> x]
PluginOwned(p) == p.address \in Range(Subscribes[p.actor])
InternalAddress(p) == Owner[p.address] = Home[p.actor]

ASSUME KindsAssumption ==
    /\ IsFiniteSet(Actors) /\ IsFiniteSet(Addresses)
    /\ Supervisors \cap Actors = {}
    /\ Addresses \cap (Supervisors \cup Actors) = {}
ASSUME PlacesAssumption ==
    /\ Home \in [Actors -> Supervisors]
    /\ Owner \in [Addresses -> Supervisors]
    /\ Subscribes \in [Actors -> Seq(Addresses)]
    /\ Later \in [Actors -> SUBSET Addresses]
    /\ Publishes \in [Actors -> SUBSET Addresses]
    /\ Budget \in [Actors -> Nat]
    /\ Linked \in BOOLEAN
    /\ Tagged \subseteq Supervisors
\* A handler is subscribed to an address once, by the plugin or by the actor.
ASSUME OnceAssumption ==
    \A a \in Actors :
        /\ IsInjective(Subscribes[a])
        /\ Later[a] \cap Range(Subscribes[a]) = {}

VARIABLES
    state,          \* the state of each actor
    own,            \* starter's own_subscriptions, addresses in the order subscribed
    tracked,        \* starter's tracked: the addresses not yet confirmed
    points,         \* lifetime's points
    leaving,        \* the points whose info is UNSUBSCRIBING
    parting,        \* the actors whose lifetime plugin gives up its own subscriptions
    internal,       \* mine_handlers of the owner: handlers of its own actors
    external,       \*     and of other supervisors' actors
    foreign,        \* foreign_points of each supervisor
    evicted,        \* the foreign points whose info is UNSUBSCRIBING
    supState,       \* the state of each supervisor
    queue, inbox,   \* of each supervisor
    sent,           \* how often each actor has done so
    handled,        \* what each handler was called with, in order
    owed,           \* what was sent to an address while the handler was subscribed
    failed          \* assertions that failed, and iterators that were not there

actorVars == <<state, own, tracked, points, leaving, parting>>
ownerVars == <<internal, external, foreign, evicted, supState>>
userVars == <<sent, handled, owed>>
vars == <<actorVars, ownerVars, queue, inbox, userVars, failed>>

-----------------------------------------------------------------------------
(* Messages: `to` is an actor, a supervisor or an address. *)

UserMessages == UNION {[source : {a}, number : 1..Budget[a]] : a \in Actors}

AboutPoint ==
    [kind : {"subscription", "unsubscription", "unsubscription_external",
             "foreign_unsubscription"}, to : Actors, point : Points]
        \cup [kind : {"external_subscription", "commit_unsubscription"},
              to : Supervisors, point : Points]
Messages ==
    AboutPoint
        \cup [kind : {"shutdown", "farewell"}, to : Actors]
        \cup [kind : {"sup_farewell"}, to : Supervisors]
        \cup [kind : {"user"}, to : Addresses, data : UserMessages]
        \cup [kind : {"handler_call"}, to : Supervisors, point : Points, data : UserMessages]

ToActor(kind, p) == [kind |-> kind, to |-> p.actor, point |-> p]
ToOwner(kind, p) == [kind |-> kind, to |-> Owner[p.address], point |-> p]

Destination(m) ==
    IF m.to \in Supervisors THEN m.to
    ELSE IF m.to \in Actors THEN Home[m.to] ELSE Owner[m.to]

TypeOK ==
    /\ state \in [Actors -> {"NEW", "INITIALIZING", "OPERATIONAL", "SHUTTING_DOWN", "SHUT_DOWN"}]
    /\ own \in [Actors -> Seq(Addresses)]
    /\ tracked \in [Actors -> SUBSET Addresses]
    /\ points \in [Actors -> SUBSET Addresses]
    /\ leaving \subseteq Points
    /\ parting \subseteq Actors
    /\ internal \in [Addresses -> SUBSET Points]
    /\ external \in [Addresses -> SUBSET Points]
    /\ foreign \in [Supervisors -> SUBSET Points]
    /\ evicted \subseteq Points
    /\ supState \in [Supervisors -> {"OPERATIONAL", "SHUTTING_DOWN", "CLOSING", "SHUT_DOWN"}]
    /\ queue \in [Supervisors -> Seq(Messages)]
    /\ inbox \in [Supervisors -> Seq(Messages)]
    /\ sent \in [Actors -> Nat]
    /\ handled \in [Points -> Seq(UserMessages)]
    /\ owed \in [Points -> SUBSET UserMessages]
    /\ failed \subseteq {"already subscribed", "unsubscription handled", "no such point",
                         "no such foreign point"}

Init ==
    /\ state = [a \in Actors |-> "NEW"]
    /\ own = [a \in Actors |-> <<>>]
    /\ tracked = [a \in Actors |-> {}]
    /\ points = [a \in Actors |-> {}]
    /\ leaving = {} /\ parting = {} /\ evicted = {} /\ failed = {}
    /\ internal = [x \in Addresses |-> {}]
    /\ external = [x \in Addresses |-> {}]
    /\ foreign = [s \in Supervisors |-> {}]
    /\ supState = [s \in Supervisors |-> "OPERATIONAL"]
    /\ queue = [s \in Supervisors |-> <<>>]
    /\ inbox = [s \in Supervisors |-> <<>>]
    /\ sent = [a \in Actors |-> 0]
    /\ handled = [p \in Points |-> <<>>]
    /\ owed = [p \in Points |-> {}]

-----------------------------------------------------------------------------
(* Plausible mistakes in the definitions below, named after them.  They are *)
(* not part of the specification; they show that the properties notice.    *)

RemainingAgain(a) == points[a] \ Range(Subscribes[a])
CommitsNever(p) == <<>>
LastForeignUnheeded(s, left) == FALSE
CallsUnlessLocal(m, t) ==
    LET calls == SetToSeq({p \in external[m.to] : Home[p.actor] = t /\ internal[m.to] = {}})
    IN  [i \in 1..Len(calls) |->
            [kind |-> "handler_call", to |-> t, point |-> calls[i], data |-> m.data]]

-----------------------------------------------------------------------------
(* Subscribing *)

\* supervisor_t::subscribe(): a local address is recorded and confirmed at
\* once, for another the owner is asked.
Subscription(p) ==
    IF InternalAddress(p) THEN ToActor("subscription", p)
                          ELSE ToOwner("external_subscription", p)

\* subscription_t::materialize(), the part that records the handler.
Record(table, S) == [x \in Addresses |-> table[x] \cup {p \in S : p.address = x}]
\* subscription_t::forget()
Forget(table, p) == [table EXCEPT ![p.address] = @ \ {p}]

\* The actor is initialized: its starter plugin calls configure().
Configure(a) ==
    LET S == {Point(a, x) : x \in Range(Subscribes[a])}
        n == Len(Subscribes[a])
    IN  /\ state[a] = "NEW"
        /\ supState[Home[a]] = "OPERATIONAL"
        /\ Linked => \A p \in S : supState[Owner[p.address]] = "OPERATIONAL"
        /\ state' = [state EXCEPT ![a] = "INITIALIZING"]
        /\ own' = [own EXCEPT ![a] = Subscribes[a]]
        /\ tracked' = [tracked EXCEPT ![a] = Range(Subscribes[a])]
        /\ points' = [points EXCEPT ![a] = Range(Subscribes[a])]
        /\ internal' = Record(internal, {p \in S : InternalAddress(p)})
        /\ queue' = [queue EXCEPT ![Home[a]] =
                        @ \o [i \in 1..n |-> Subscription(Point(a, Subscribes[a][i]))]]
        /\ UNCHANGED <<leaving, parting, external, foreign, evicted, supState, inbox,
                       userVars, failed>>

\* actor_base_t::subscribe() out of a handler, owner_tag_t::ANONYMOUS.
SubscribeLater(a, x) ==
    LET p == Point(a, x)
    IN  /\ state[a] = "OPERATIONAL"
        /\ x \in Later[a] \ points[a]
        /\ sent[a] < Budget[a]
        /\ sent' = [sent EXCEPT ![a] = @ + 1]
        /\ Linked => supState[Owner[x]] = "OPERATIONAL"
        /\ points' = [points EXCEPT ![a] = @ \cup {x}]
        /\ internal' = IF InternalAddress(p) THEN Record(internal, {p}) ELSE internal
        /\ queue' = [queue EXCEPT ![Home[a]] = Append(@, Subscription(p))]
        /\ UNCHANGED <<state, own, tracked, leaving, parting, external, foreign, evicted, supState,
                       inbox, handled, owed, failed>>

-----------------------------------------------------------------------------
(* Unsubscribing, the actor's side *)

\* lifetime_plugin_t::unsubscribe(info)
Unsubscription(p) ==
    ToActor(IF InternalAddress(p) THEN "unsubscription" ELSE "unsubscription_external", p)

Unsubscriptions(a, xs) == [i \in 1..Len(xs) |-> Unsubscription(Point(a, xs[i]))]

Anonymous(a, S) == S \ Range(Subscribes[a])

\* The points that are no plugin's and not being given up already.  (The
\* plugins' points are not before the shutdown.)
Remaining(a) == {x \in Anonymous(a, points[a]) : Point(a, x) \notin leaving}

\* lifetime_plugin_t::handle_shutdown(), the last to be polled: the plugins'
\* points are dropped, the others unsubscribed.  It gives up its own
\* subscriptions when it is the last active plugin.
Parts(a, mine) == Anonymous(a, points[a]) = {} /\ mine = <<>> /\ a \notin parting

LifetimeEnds(a, mine) ==
    /\ points' = [points EXCEPT ![a] = Anonymous(a, @)]
    /\ parting' = IF Parts(a, mine) THEN parting \cup {a} ELSE parting
LifetimeMessages(a, mine) ==
    Unsubscriptions(a, SetToSeq(Remaining(a)))
        \o IF Parts(a, mine) THEN <<[kind |-> "farewell", to |-> a]>> ELSE <<>>

\* The next message of a supervisor's queue, one of its own.
Next1(s, kind) ==
    /\ queue[s] # <<>>
    /\ Head(queue[s]).kind = kind
    /\ Destination(Head(queue[s])) = s
Post(s, ms) == queue' = [queue EXCEPT ![s] = Tail(@) \o ms]

Listens(a) == state[a] # "SHUT_DOWN"

\* starter_plugin_t::handle_subscription()
OnSubscription(s) ==
    /\ Next1(s, "subscription")
    /\ Post(s, <<>>)
    /\ LET p == Head(queue[s]).point
           a == p.actor
           left == tracked[a] \ {p.address}
       IN  IF Listens(a)
           THEN /\ tracked' = [tracked EXCEPT ![a] = left]
                /\ state' = IF state[a] = "INITIALIZING" /\ left = {}
                            THEN [state EXCEPT ![a] = "OPERATIONAL"] ELSE state
           ELSE UNCHANGED <<tracked, state>>
    /\ UNCHANGED <<own, points, leaving, parting, ownerVars, inbox, userVars, failed>>

\* An actor is to shut down; the request reaches it through its queue.
AskToLeave(a) ==
    /\ state[a] = "OPERATIONAL"
    /\ [kind |-> "shutdown", to |-> a] \notin Range(queue[Home[a]])
    /\ queue' = [queue EXCEPT ![Home[a]] = Append(@, [kind |-> "shutdown", to |-> a])]
    /\ UNCHANGED <<actorVars, ownerVars, inbox, userVars, failed>>

\* init_shutdown_plugin_t::on_shutdown(): the plugins are deactivated, starter
\* first, and lifetime is polled.
OnShutdown(s) ==
    /\ Next1(s, "shutdown")
    /\ LET a == Head(queue[s]).to
       IN  /\ state' = [state EXCEPT ![a] = "SHUTTING_DOWN"]
           /\ tracked' = [tracked EXCEPT ![a] = {}]
           /\ LifetimeEnds(a, own[a])
           /\ leaving' = leaving \cup {Point(a, x) : x \in points[a] \cup Range(own[a])}
           /\ Post(s, Unsubscriptions(a, Reverse(own[a])) \o LifetimeMessages(a, own[a]))
    /\ UNCHANGED <<own, ownerVars, inbox, userVars, failed>>

\* plugin_base_t::forget_subscription() of the starter plugin, whose last
\* subscription continues the shutdown.
StarterForgets(s, p, answers) ==
    LET a == p.actor
        it == CHOOSE i \in 1..Len(own[a]) : own[a][i] = p.address
        mine == RemoveAt(own[a], it)
        ends == mine = <<>> /\ state[a] = "SHUTTING_DOWN"
    IN  /\ own' = [own EXCEPT ![a] = mine]
        /\ internal' = IF InternalAddress(p) THEN Forget(internal, p) ELSE internal
        /\ leaving' = leaving \ {p}
        /\ IF ends THEN LifetimeEnds(a, mine) ELSE UNCHANGED <<points, parting>>
        /\ Post(s, (IF ends THEN LifetimeMessages(a, mine) ELSE <<>>) \o answers)
        /\ UNCHANGED failed

\* lifetime_plugin_t::handle_unsubscription() of a point that is no plugin's.
LifetimeForgets(s, p) ==
    LET a == p.actor
        left == points[a] \ {p.address}
        ends == left = {} /\ a \notin parting
    IN  IF p.address \in points[a]
        THEN /\ points' = [points EXCEPT ![a] = left]
             /\ internal' = IF InternalAddress(p) THEN Forget(internal, p) ELSE internal
             /\ leaving' = leaving \ {p}
             /\ parting' = IF ends THEN parting \cup {a} ELSE parting
             /\ Post(s, IF ends THEN <<[kind |-> "farewell", to |-> a]>> ELSE <<>>)
             /\ UNCHANGED <<own, failed>>
        ELSE /\ failed' = failed \cup {"no such point"}
             /\ Post(s, <<>>)
             /\ UNCHANGED <<own, points, internal, leaving, parting>>

\* actor_base_t::on_unsubscription(): the plugins are polled, starter first
\* and lifetime last.  A foreign owner that shuts down sends it, too.
OnUnsubscription(s, kind) ==
    /\ kind \in {"unsubscription", "foreign_unsubscription"}
    /\ Next1(s, kind)
    /\ LET p == Head(queue[s]).point
       IN  \/ /\ Listens(p.actor) /\ p.address \in Range(own[p.actor])
              /\ StarterForgets(s, p, <<>>)
           \/ /\ Listens(p.actor) /\ p.address \notin Range(own[p.actor])
              /\ LifetimeForgets(s, p)
           \/ /\ ~Listens(p.actor)
              /\ Post(s, <<>>)
              /\ UNCHANGED <<own, points, internal, leaving, parting, failed>>
    /\ UNCHANGED <<state, tracked, external, foreign, evicted, supState, inbox, userVars>>

\* The owner is told that a subscription is gone.
Commits(p) == <<ToOwner("commit_unsubscription", p)>>

\* actor_base_t::on_unsubscription_external(): every plugin that is polled
\* asserts that the subscription is its own, and starter is the first.
OnUnsubscriptionExternal(s) ==
    /\ Next1(s, "unsubscription_external")
    /\ LET p == Head(queue[s]).point
       IN  IF p.address \in Range(own[p.actor])
           THEN StarterForgets(s, p, Commits(p))
           ELSE /\ failed' = failed \cup {"unsubscription handled"}
                /\ Post(s, <<>>)
                /\ UNCHANGED <<own, points, internal, leaving, parting>>
    /\ UNCHANGED <<state, tracked, external, foreign, evicted, supState, inbox, userVars>>

\* The lifetime plugin's own subscriptions are confirmed to be gone: the actor
\* handles nothing any more and finishes its shutdown.
OnFarewell(s) ==
    /\ Next1(s, "farewell")
    /\ state' = [state EXCEPT ![Head(queue[s]).to] = "SHUT_DOWN"]
    /\ Post(s, <<>>)
    /\ UNCHANGED <<own, tracked, points, leaving, parting, ownerVars, inbox, userVars, failed>>

\* An actor gives up a subscription it made at run time.
UnsubscribeLater(a, x) ==
    LET p == Point(a, x)
    IN  /\ state[a] = "OPERATIONAL"
        /\ x \in Anonymous(a, points[a])
        /\ p \notin leaving
        /\ leaving' = leaving \cup {p}
        /\ queue' = [queue EXCEPT ![Home[a]] = Append(@, Unsubscription(p))]
        /\ UNCHANGED <<state, own, tracked, points, parting, ownerVars, inbox, userVars, failed>>

-----------------------------------------------------------------------------
(* The owner's side: foreigners_support *)

\* on_subscription_external()
OnExternalSubscription(s) ==
    /\ Next1(s, "external_subscription")
    /\ LET p == Head(queue[s]).point
       IN  /\ external' = Record(external, {p})
           /\ foreign' = [foreign EXCEPT ![s] = @ \cup {p}]
           /\ evicted' = evicted \ {p}
           /\ Post(s, <<ToActor("subscription", p)>>)
    /\ UNCHANGED <<actorVars, internal, supState, inbox, userVars, failed>>

\* Whether the point just forgotten is the one a shutdown waits for.
LastForeign(s, left) == left = {} /\ supState[s] = "SHUTTING_DOWN"

\* on_unsubscription(): the last point lets a shutdown go on.
OnCommitUnsubscription(s) ==
    /\ Next1(s, "commit_unsubscription")
    /\ LET p == Head(queue[s]).point
           left == foreign[s] \ {p}
           ends == LastForeign(s, left)
       IN  IF p \in foreign[s]
           THEN /\ external' = Forget(external, p)
                /\ foreign' = [foreign EXCEPT ![s] = left]
                /\ evicted' = evicted \ {p}
                /\ supState' = IF ends THEN [supState EXCEPT ![s] = "CLOSING"] ELSE supState
                /\ Post(s, IF ends THEN <<[kind |-> "sup_farewell", to |-> s]>> ELSE <<>>)
                /\ UNCHANGED failed
           ELSE /\ failed' = failed \cup {"no such foreign point"}
                /\ Post(s, <<>>)
                /\ UNCHANGED <<external, foreign, evicted, supState>>
    /\ UNCHANGED <<actorVars, internal, inbox, userVars>>

\* A client that is linked to an actor of the supervisor lets go of the link
\* when it shuts down itself, and the supervisor waits for that actor.
LetsGo(a, s) ==
    \/ \A x \in points[a] \cup Range(own[a]) : Owner[x] # s
    \/ state[a] \in {"SHUTTING_DOWN", "SHUT_DOWN"}

\* deactivate(): the supervisor shuts down, its children are gone.
ShutdownSupervisor(s) ==
    LET evictions == SetToSeq(foreign[s])
    IN  /\ supState[s] = "OPERATIONAL"
        /\ \A a \in Actors : Home[a] = s => state[a] \in {"NEW", "SHUT_DOWN"}
        /\ Linked => \A a \in Actors : LetsGo(a, s)
        /\ IF foreign[s] = {}
           THEN /\ supState' = [supState EXCEPT ![s] = "CLOSING"]
                /\ queue' = [queue EXCEPT ![s] = Append(@, [kind |-> "sup_farewell", to |-> s])]
           ELSE /\ supState' = [supState EXCEPT ![s] = "SHUTTING_DOWN"]
                /\ queue' = [queue EXCEPT ![s] = @ \o
                       [i \in 1..Len(evictions) |-> ToActor("foreign_unsubscription", evictions[i])]]
        /\ evicted' = evicted \cup foreign[s]
        /\ UNCHANGED <<actorVars, internal, external, foreign, inbox, userVars, failed>>

OnSupFarewell(s) ==
    /\ Next1(s, "sup_farewell")
    /\ supState' = [supState EXCEPT ![s] = "SHUT_DOWN"]
    /\ Post(s, <<>>)
    /\ UNCHANGED <<actorVars, internal, external, foreign, evicted, inbox, userVars, failed>>

-----------------------------------------------------------------------------
(* Messages of the users *)

\* An actor publishes a message; owed says whom it must reach.
Publish(a, x) ==
    LET m == [source |-> a, number |-> sent[a] + 1]
    IN  /\ state[a] = "OPERATIONAL"
        /\ x \in Publishes[a]
        /\ sent[a] < Budget[a]
        /\ sent' = [sent EXCEPT ![a] = @ + 1]
        /\ queue' = [queue EXCEPT ![Home[a]] =
                        Append(@, [kind |-> "user", to |-> x, data |-> m])]
        /\ owed' = [p \in Points |->
                        IF p.address = x /\ PluginOwned(p) /\ state[p.actor] = "OPERATIONAL"
                        THEN owed[p] \cup {m} ELSE owed[p]]
        /\ UNCHANGED <<actorVars, ownerVars, inbox, handled, failed>>

Call(S, m) == handled' = [p \in Points |-> IF p \in S THEN Append(handled[p], m) ELSE handled[p]]

\* The calls of the handlers that live with supervisor t.
Calls(m, t) ==
    LET calls == SetToSeq({p \in external[m.to] : Home[p.actor] = t})
    IN  [i \in 1..Len(calls) |->
            [kind |-> "handler_call", to |-> t, point |-> calls[i], data |-> m.data]]

\* local_delivery_t::delivery(): a handler of another supervisor is called by
\* that supervisor, wrapped in a handler_call.
Deliver(s) ==
    /\ Next1(s, "user")
    /\ LET m == Head(queue[s])
       IN  /\ inbox' = [t \in Supervisors |-> inbox[t] \o Calls(m, t)]
           /\ Call(internal[m.to], m.data)
    /\ Post(s, <<>>)
    /\ UNCHANGED <<actorVars, ownerVars, sent, owed, failed>>

\* foreigners_support_plugin_t::on_call()
OnCall(s) ==
    /\ Next1(s, "handler_call")
    /\ Call({Head(queue[s]).point}, Head(queue[s]).data)
    /\ Post(s, <<>>)
    /\ UNCHANGED <<actorVars, ownerVars, inbox, sent, owed, failed>>

\* delivery_plugin_t::process(), a message for another locality.
Forward(s) ==
    /\ queue[s] # <<>>
    /\ LET m == Head(queue[s])
       IN  /\ Destination(m) # s
           /\ inbox' = [inbox EXCEPT ![Destination(m)] = Append(@, m)]
    /\ Post(s, <<>>)
    /\ UNCHANGED <<actorVars, ownerVars, userVars, failed>>

\* The supervisor's loop has emptied the queue and takes what others sent.
Load(s) ==
    /\ queue[s] = <<>> /\ inbox[s] # <<>>
    /\ queue' = [queue EXCEPT ![s] = inbox[s]]
    /\ inbox' = [inbox EXCEPT ![s] = <<>>]
    /\ UNCHANGED <<actorVars, ownerVars, userVars, failed>>

\* check(), which intercept() calls before and after a handler marked tag_io():
\* what others sent goes behind what is in the queue.  The messages of such
\* handlers are not modelled, they may stand anywhere in the queue.
Check(s) ==
    /\ s \in Tagged /\ inbox[s] # <<>>
    /\ queue' = [queue EXCEPT ![s] = @ \o inbox[s]]
    /\ inbox' = [inbox EXCEPT ![s] = <<>>]
    /\ UNCHANGED <<actorVars, ownerVars, userVars, failed>>

-----------------------------------------------------------------------------
\* One step of the supervisor's thread.  A failed assertion ends the program;
\* a supervisor that is SHUT_DOWN has left its loop.
Process(s) ==
    /\ failed = {}
    /\ supState[s] # "SHUT_DOWN"
    /\ \/ Load(s) \/ Check(s) \/ Forward(s) \/ Deliver(s) \/ OnCall(s)
       \/ OnSubscription(s) \/ OnShutdown(s) \/ OnFarewell(s)
       \/ OnUnsubscription(s, "unsubscription")
       \/ OnUnsubscription(s, "foreign_unsubscription")
       \/ OnUnsubscriptionExternal(s)
       \/ OnExternalSubscription(s) \/ OnCommitUnsubscription(s) \/ OnSupFarewell(s)

\* What the users' code and the rest of the system decide.
Act(a) ==
    /\ failed = {}
    /\ \/ Configure(a) \/ AskToLeave(a)
       \/ \E x \in Addresses : SubscribeLater(a, x) \/ UnsubscribeLater(a, x) \/ Publish(a, x)

Next ==
    \/ \E s \in Supervisors : Process(s) \/ (failed = {} /\ ShutdownSupervisor(s))
    \/ \E a \in Actors : Act(a)

Spec == Init /\ [][Next]_vars
FairSpec == Spec /\ \A s \in Supervisors : WF_vars(Process(s))

-----------------------------------------------------------------------------
(* Properties *)

\* Whatever the order in which the messages of the supervisors, the shutdowns
\* and the subscriptions made at run time come, no handler is subscribed or
\* unsubscribed twice, and no iterator of foreigners_support.cpp or
\* lifetime.cpp is used that find() did not return.
NoAssertionFails == failed = {}

\* The part of it plugin_base.cpp:86 asserts: a subscription an actor gives up
\* is known to the plugin that made it.  It is not where an eviction overtakes
\* the actor's own message, which it can if its thread runs tagged handlers.
UnsubscriptionHandled == "unsubscription handled" \notin failed

\* A message sent to an address reaches every handler that an OPERATIONAL actor
\* has subscribed to it in configure(), on whichever supervisor that actor
\* lives, unless the actor is on its way out (docs/Design.md, "Actor").
OwedIsHandled ==
    \A p \in {q \in Points : PluginOwned(q)} : \A m \in UserMessages :
        m \in owed[p] ~> \/ m \in Range(handled[p])
                         \/ state[p.actor] \in {"SHUTTING_DOWN", "SHUT_DOWN"}

\* The owner of an address does not keep a handler of an actor that is gone:
\* the confirmations of both sides arrive, whoever of them ends first.
NothingStays ==
    \A a \in Actors :
        state[a] = "SHUT_DOWN" ~>
            \A x \in Addresses : Point(a, x) \notin internal[x] \cup external[x]

\* A supervisor that waits for the handlers of other supervisors' actors to be
\* given up (foreigners_support_plugin_t::deactivate()) does end.
SupervisorsEnd ==
    \A s \in Supervisors : supState[s] \in {"SHUTTING_DOWN", "CLOSING"} ~> supState[s] = "SHUT_DOWN"

\* An actor that is SHUT_DOWN handles nothing any more.  It does where the
\* address is another supervisor's: on_call() does not look.
SilentWhenDown ==
    [][\A p \in Points : handled'[p] # handled[p] => state[p.actor] # "SHUT_DOWN"]_vars
=============================================================================

# A formal model of rotor

rotor (version 0.12) is a C++ framework for actors that live on event loops.
This directory holds TLA+ modules for its core, TLC configurations that check
them on small instances, and proofs TLAPS checks for every instance.
`PROJECT.json` lists, for each definition, the source lines it stands for, and
for each run, theorem, hazard and finding where it is.

How to run, here:

    tlc -workers 2 -config MCFlat.cfg MCSupervision
    tlapm ReqResProofs.tla
    tlapm SupervisionProofs.tla
    tlapm LinkingProofs.tla
    tlapm RegistryProofs.tla
    tlapm ThreadTimersProofs.tla
    tlapm LoopsProofs.tla
    tlapm SubscriptionsProofs.tla
    tlapm ScrapperProofs.tla

## The system

| part | source | state | operations |
|---|---|---|---|
| requests and responses | `request.hpp`, `supervisor.h`, `supervisor.cpp`, `address_mapping.*` | `last_req_id`, `request_map`, `timers_map`, the imaginary addresses | `do_request().send()`, `reply_to`, the lambda at an imaginary address, `on_request_trigger`, `discard_request` |
| supervision tree | `plugin/child_manager.*`, `supervisor.*` | `actors_map` with an `actor_state_t` per child | `create_child`, `on_create`, `on_init`, `on_shutdown_trigger`, `on_shutdown_confirm`, `remove_child` |
| life cycle of an actor | `actor_base.*`, `plugin/init_shutdown.*`, `plugin/starter.*` | `state`, the suspended `init_request` and `shutdown_request`, the reactions of the plugins | `init_continue`, `on_start`, `shutdown_start`, `shutdown_continue`, `shutdown_finish` |
| resources | `plugin/resources.*` | counters | `acquire`, `release` |
| lifetime | `plugin/lifetime.*`, `plugin/plugin_base.*` | subscription points | `unsubscribe`, `handle_unsubscription` |
| subscriptions, foreigners | `subscription*.cpp`, `plugin/foreigners_support.*` | handlers per address and type, internal and external | `materialize`, `forget`, forwarding of calls |
| delivery, locality | `plugin/delivery.*`, `plugin/locality.*`, `plugin/address_maker.*` | the queue of the locality leader | `process` |
| links | `plugin/link_client.*`, `plugin/link_server.*` | links of both sides, queue of unlink requests | `link`, link and unlink requests, responses and notices |
| registry | `registry.cpp`, `plugin/registry.*` | names, promises; per client: what it has asked for | register, deregister, discover, promise, cancel |
| backends | `asio/`, `ev/`, `thread/`, `wx/` | timers, inbound queues, references | `start`, `shutdown`, `enqueue`, `do_start_timer`, `do_cancel_timer` |
| http scrapper, an example | `examples/boost-asio/beast-scrapper.cpp` | requests, free workers, sockets, timers of three parties | `on_request`, `on_response`, `on_timer`, ... |
| builders, messages, errors | `actor_config.h`, `messages.hpp`, `error_code.*`, ... | none | |

How they interact.  Everything between actors is a message.  `send()` puts it
into the queue of the locality leader; `do_process()` takes messages out one by
one and calls the handlers subscribed to the address, or hands the message to
another locality with `enqueue()`.  A supervisor creates an actor, asks it to
initialize with a timed request, starts it, and asks it to shut down with a
timed request.  Within the actor the plugins are polled by direct calls: in
order for the initialization, in reverse order for the shutdown, and a plugin
that is not ready calls `init_continue()` or `shutdown_continue()` later.
Timers call back into the supervisor from the event loop.

What is hard, and what makes each part correct:

- *Requests.*  A response makes two hops; a timer, a second reply, a discard or
  the end of an actor may come between them.  An author gets at most one
  answer, gets one unless it left or gave up, and the maps the assertions look
  into agree.
- *Tree and life cycle.*  User code and timeouts interleave with messages that
  were sent when the tree looked different.  States advance in one direction, a
  supervisor ends after its children, every initialization and every shutdown
  comes to an end, confirmations are true when they are handled, no handler
  looks up an entry that is gone.
- *Links.*  Both sides may let go at once, or while the link is being made.  A
  server outlives its clients.
- *Registry.*  Promises cross registrations and cancellations.  Names belong to who
  registered them until it is gone, and who waits for one hears of it.
- *Subscriptions.*  The subscriber, the address and the handler may belong to
  different supervisors, and messages are under way when a subscription goes.
- *Backends.*  Timers that fire while they are started or cancelled; threads
  that enqueue while the loop goes to sleep.
- *Scrapper.*  Three timers for one request, each of which may strike while the
  operation completes.  A worker that was given up is still at work.  The end of a
  resolution may begin the next one before it is over.

## The modules

| module | what it is | used by |
|---|---|---|
| `Exchange` | abstract: requests are asked, then answered once or withdrawn | `ReqRes` (refinement) |
| `ReqRes` | the machinery of requests at one supervisor | `MCReqRes`, `ReqResProofs` |
| `Lifecycle` | abstract: the states of the actors of a tree | `Supervision` (refinement) |
| `Supervision` | the tree of supervisors with its messages, timeouts and faults | `MCSupervision`, `SupervisionProofs` |
| `Links` | abstract: a server outlives the clients linked to it | `Linking` (refinement) |
| `Linking` | both ends of links, in several localities, while any of them shuts down | `MCLinking`, `LinkingProofs` |
| `Registry` | the registry, and the plugin of its users | `MCRegistry`, `RegistryProofs` |
| `Subscriptions` | subscriptions to addresses of other supervisors, and the calls they lead to | `MCSubscriptions`, `SubscriptionsProofs` |
| `ThreadTimers` | the timer list of the thread backend, re-entered by callbacks | `MCThreadTimers`, `ThreadTimersProofs` |
| `Inbox` | abstract: what is sent to a loop is taken once, in order | `Loops` (refinement) |
| `Loops` | a libev loop and an asio strand that send each other messages | `LoopsProofs` |
| `Scrapper` | client, manager and workers of the http scrapper | `ScrapperProofs` |
| `Resolver` | the resolver the workers of the scrapper ask | `MCResolver` |
| `MCReqRes`, `MCSupervision`, `MCLinking`, `MCRegistry`, `MCSubscriptions`, `MCThreadTimers`, `MCResolver` | instances for TLC | the `.cfg` files |
| `ReqResProofs`, `SupervisionProofs`, `RegistryProofs`, `ThreadTimersProofs`, `LinkingProofs`, `LoopsProofs`, `SubscriptionsProofs`, `ScrapperProofs` | theorems about `ReqRes`, `Supervision`, `Registry`, `ThreadTimers`, `Linking`, `Loops`, `Subscriptions` and `Scrapper` | |

`Loops` and `Scrapper` have constants that are numbers and strings only and need no
module of instances.

The detailed modules have a section "Plausible mistakes".  Its operators are
not used by the specifications: each is another version of the definition it is
named after, with a bug in it, and the properties tell it from the real one.

### ReqRes

One supervisor, its children, a server somewhere, and the queue.

| code | model |
|---|---|
| `request_builder_t` constructor and `send()` | `SendRequest` |
| `delivery->process()` handing over a request, a response, an answer | `DeliverRequest`, `ForwardResponse` / `DropResponse`, `DeliverAnswer` |
| the lambda of `install_handler()` | `ForwardResponse`, `DropResponse` |
| `reply_to()`, `reply_with_error()`, perhaps again | `ServerReplies` |
| the backend's timer; asio notices and defers, then runs it | `TimerExpires`, `TimerFires` |
| `on_request_trigger()` | `TimerFires` |
| `discard_request()` from `cancel_init()` | `DiscardRequest` |
| an actor unsubscribed from its own address | `ActorLeaves` |
| `lifetime->unsubscribe()` of its imaginary address, its confirmation | `UnsubscribeMapping`, `DeliverUnsubscription` |
| `supervisor_t::shutdown_finish()` | `ShutdownFinish` |

`answers` and `discarded` are history: what an author was told, and which ids
were given up.  Payloads are left out: the lambda copies them.  Ids do not wrap.

### Supervision

All actors are in one locality, so there is one FIFO queue and no two handlers
run at once.  Between any two deliveries there may be: user code that creates a
child, calls `do_shutdown()`, acquires or releases a resource (another actor's
handler, another thread, a callback of the loop); a link that is granted or
refused; a timer.  A timer between two messages of one burst is what the thread
backend does: `intercept()` of a handler tagged for I/O calls `check()`, and
that runs `update_time()`, which fires timers while the queue is not empty.
The other backends fire timers with an empty queue, a special case.

| code | model |
|---|---|
| `supervisor_t::do_initialize()` of the root | `Boot` |
| `create_child()` | `Create` |
| `do_shutdown()` of an actor and of a supervisor | `DoShutdown`, `UserShutdown` |
| `child_manager_plugin_t` | `OnCreate`, `OnInitSuccess`, `OnInitFailure`, `OnShutdownTrigger`, `OnShutdownResponse`, `OnForget`, with `RemoveChild`, `Cancelled`, `AnyInitializing`, `ManagerContinues`, `ShutdownStart` |
| `init_shutdown_plugin_t` | `OnInitRequest`, `OnShutdownRequest` |
| `starter_plugin_t` | `OnStart`, `OnSubscription` |
| `init_continue()`, `init_finish()` | `InitContinue`, `StopsAt` |
| `shutdown_start()`, `shutdown_continue()` | `ShutdownStart`, and the end of `Release` and `RemoveChild` |
| unsubscription of all plugins, then of `lifetime_plugin_t` | `OnUnsubscription`, `OnDeactivation` |
| `shutdown_finish()` | `OnDeactivation` |
| the lambda of `install_handler()` | `OnInitReply`, `OnShutdownReply` |
| `on_request_trigger()` | `InitTimeout`, `ShutdownTimeout` |
| a failed `assert`, an exception out of a `noexcept` handler, `on_error()` | `fault` |

What is merged and what is dropped, and why that loses nothing the properties
speak of:

- A request is named by the actor it is about (an actor is asked to initialize
  once and to shut down once), and a response keeps its two hops.
- `poll` is the plugin at which the last `init_continue()` stopped.  The plugins
  that may stop one are, in order, the child manager (a supervisor with children
  that are INITIALIZING), `link_client`, `resources` (plain actors only) and the
  starter.  A plugin that has agreed is not asked again.
- The unsubscriptions of one actor are two messages, one for the plugins'
  subscriptions and one for those of the lifetime plugin.  Their confirmations
  follow each other in the queue, and what the actor still hears between them
  is what the lifetime plugin is subscribed to.
- `entry.initialized` says nothing that the child's state does not, once the
  response was handled; `postponed_init` is true whenever it is read in
  INITIALIZING with children.
- Of the own entries supervisors keep in `actors_map` only the root's matters.
- `on_state_request()` changes nothing.
- Assertions are on, and `on_error()` aborts, as it does by default.

### Linking

A queue per locality; a message for an actor elsewhere is passed on in its turn
(`Transfer`).  A link is a pair of a client and its server; what a message is
about is a link, or one actor.

| code | model |
|---|---|
| `link_client_plugin_t::handle_init()`, `link()` | `OnInitRequest` |
| `on_link_request()` | `OnLinkRequest`, with `Refuses` and `Postpones` |
| `on_link_response()` | `OnLinkResponse` |
| `on_unlink_request()`, the interceptor, `forget_link()` | `OnUnlinkRequest`, `UserForgets`, `ForgetLink` |
| `on_unlink_response()`, `on_unlink_notify()` | `OnUnlinkResponse`, `OnUnlinkNotify`, `ForgetClient` |
| both `handle_shutdown()`, and the plugins polled around them | `ShutdownContinue` |
| `handle_start()` of the server | `OnStart` |
| the lambda of `install_handler()` | `OnLinkReply`, `OnUnlinkReply` |
| `on_request_trigger()` | `LinkTimeout`, `UnlinkTimeout` |
| `servers_map` | `linking`, `linked` (by the state of the record) |
| `linked_clients` | `pending`, `active`, `unlinking` |
| `request_map` of the supervisors | `link_timers`, `unlink_timers` |
| a failed `assert`, `on_error()` | `fault`, after which nothing happens |

What supervisors do is cut down to the messages that start an actor or shut it
down, with fewer hops than in `Supervision`: an actor that is initialized is sent
`start_actor`, one that fails to initialize is sent a `shutdown_trigger`.
`shutdown_continue()` polls resources, then the link client, then the link server;
a resource acquired in `shutdown_start()` (`Holders`) is what may hold it up before
it comes to the links.  All subscriptions of an actor go with one message.  Where
code walks through a map or a list of links, the order of the messages is any.

`Hasty` are the actors that user code may shut down while one of their links is
still to be made, by which the runs tell the two situations apart: an actor that
shuts down when its links are made is safe, one that does so before meets the
assertions below.

### Registry

The queues are those of `Linking`.  An answer of the registry goes to the supervisor
of who asked first.

| code | model |
|---|---|
| `registry_t::on_reg()`, `on_dereg()`, `on_dereg_service()`, `on_discovery()`, `on_promise()`, `on_cancel()` | `OnReg` and so on, with `Keeps` for the loop over the promises |
| `create_child()` of the supervisor, at any time | `Create` |
| `handle_init()`, `register_name()`, `discover_name()`, `link_registry()` | `OnInitRequest` |
| `on_link()` | `OnLinkResponse` |
| `on_registration()`, `process_discovery()` | `OnRegistration`, `OnFound` |
| the callback of `discovery_task_t::on_discovery()` | `LinkDone`, `LinkFails` |
| `continue_init()`, `init_continue()`, `reply_with_error()` | `ContinueInit`, `InitContinue`, `Refuse` |
| `handle_shutdown()` of the plugin and of the link client | `OnShutdownRequest`, `GiveUpLinks`, `ClientsLeave` |
| `register_map` | `registering`, `owned` (by the state of the record) |
| `discovery_map` | `tasks`; `linking` and `linked` are the links made for them |
| a failed `assert`, a reference to an erased task | `fault`, after which nothing happens |

The registry has no end of its own and takes any client, whose link to it is a
request and an answer; how the link to a discovered address is made or refused is
left open (`Linking` has it).  `answered` is what the supervisor knows of an
initialization: only the first answer counts.

### Subscriptions

Every supervisor leads a locality of its own, with a `queue` its thread works off and
an `inbox` others fill.  A point is an actor with an address; each has one handler
there.

| code | model |
|---|---|
| `supervisor_t::subscribe()`, `subscription_t::materialize()`, `forget()` | `Subscription`, `Record`, `Forget` |
| the starter plugin's `configure()`, `handle_subscription()` | `Configure`, `OnSubscription` |
| `actor_base_t::subscribe()` and `unsubscribe()` out of a handler | `SubscribeLater`, `UnsubscribeLater` |
| shutdown of the actor, up to the lifetime plugin's own subscriptions | `AskToLeave`, `OnShutdown`, `LifetimeEnds`, `LifetimeMessages` with `Remaining`, `OnFarewell` |
| `on_unsubscription()`, `on_unsubscription_external()`, `forget_subscription()` of the plugins | `OnUnsubscription`, `OnUnsubscriptionExternal`, `StarterForgets`, `LifetimeForgets` |
| `foreigners_support_plugin_t` | `OnExternalSubscription`, `OnCommitUnsubscription`, `OnCall`, `ShutdownSupervisor` |
| `local_delivery_t::delivery()`, `delivery_plugin_t::process()` | `Deliver` with `Calls`, `Forward` |
| the `inbox` is taken by `run()`, when the queue is empty, and by `check()` around a tagged handler, when it is not | `Load`, `Check` |
| an actor sends a message to an address | `Publish` |
| `subscription_map`; `foreign_points`; the `UNSUBSCRIBING` state of an info | `internal`, `external`; `foreign`; `leaving`, `evicted` |
| failed `assert`, iterators `find()` did not return | `failed` |

The links between an actor and the supervisor it subscribes at are those of `Linking`;
`Linked` keeps of them only that who is linked lets go before the other side ends.
`Tagged` are the supervisors with handlers marked by `tag_io()` on their thread: in the thread
backend `intercept()` calls `check()` before and after such a handler, which puts what other
threads have sent behind what is queued (`Check`), so that an actor may hear from elsewhere
between two messages of its own.  The tagged messages themselves are not in the queue:
`Check` may come between any two others.  Plugins other than starter and lifetime are left
out, as are the tagging of a foreign subscription and `update()`.

### ThreadTimers

One thread, several actors.  `stack` is the call stack of the thread as far as it
touches timers: what makes the code hard is that `cancel_timer()` and `update_time()`
call user code, which starts and cancels timers, and that a tagged handler makes both
call `update_time()` first.

| code | model |
|---|---|
| `run()` | `Take` while there are messages, `Wait` with `Due` |
| `check()`, `intercept()` | `Take` and `HandlerReturns` of a tagged message |
| `update_time()` | a frame "update", `Fire` |
| `start_timer()` | `StartTimer`, `InsertAfterUpdate`, `Arm`, `InsertNode` |
| `cancel_timer()` | `UserCancels`, `CancelTimer`, `FindAfterUpdate`, `FindAndCancel` |
| `on_timer_trigger()` | frames "fired" and "cancelled", `CallbackReturns` with `Forgotten`, `EraseNode` |
| `actor_base_t::shutdown_finish()`, its loop over the timers | `Finish` |
| `supervisor_thread_t::enqueue()` | `Enqueue` |

The clock goes on between any two steps.  `Careful` says what user code is assumed to
do: while a tagged handler runs, callbacks leave timers alone, and the handler starts
timers but cancels none.  Without it the assertions below fail.

### Loops

The two supervisors of `ping-pong-ev_and_asio.cpp`.  Each step of a loop's thread runs to the
next place where the other thread can tell a difference: the mutex, the
`ev_async_send()` after it, the end of a handler.

| code | model |
|---|---|
| `supervisor_ev_t::enqueue()`: under the mutex, then the signal | `EvEnqueue` in `ToPinger`, then `AsyncSend` |
| `start()`, `on_async()`, `move_inbound_queue()` | `EvStart`, `OnAsync`, `MoveInbound` |
| `shutdown()`, `shutdown_finish()` | `OnLeave`, `OnTrigger`, `ShutdownFinish`, `Stop`, and `MoveInbound` again |
| `do_start_timer()`, `do_cancel_timer()`, `timer_cb()` | `SendPing`, `OnPong`, `TimerCb` |
| `supervisor_asio_t::enqueue()`, `shutdown()`, `shutdown_finish()` | `AsioEnqueue`, `RunJob`, `OnNotice` |
| `forwarder_t` | `Announce` |
| the pinger, the ponger, `main()` | `OnStart`, `OnPong`, `OnLeave`; `OnPing`, `OnNotice`; `Starts`, `EvRunReturns`, `ShutsAsioDown`, `Joins` |

libev is modelled from how it is used: signals to one watcher are joined, one to a
stopped watcher is lost, `ev_run()` returns when no watcher is active.  `refs` counts
the references to the ev supervisor by `main()`, wake-ups and active timers.
Messages to the other loop are numbered, those within a loop have the number 0; of
the numbers of what waits at a loop, be it on its strand, inbound or in its queue,
`Inbox` takes the least.

### Scrapper

All actors are on one strand; a job is the completion of an operation or the expiry of
a timer, and ends with an empty queue.

| code | model |
|---|---|
| `client_t::make_request()`, `on_response()` | `New`, `RequestMessages`, `OnAnswer` |
| `http_manager_t::on_request()`, `on_child_init()`, `on_response()` | `OnRequest`, `OnChildInit`, `OnResponse` |
| `http_worker_t::on_request()`, `on_resolve()` | `OnWork`, `OnResolve` |
| `on_connect()`, `on_request_sent()`, `on_request_read()`, `on_tcp_error()` | `IoJob`, `Completes` |
| `on_timer()`, `cancel_timer()`, `finish_response()` | `OnStrike`, `TimerCancelled`, `Finished` with `Reply` |
| asio's deferred expiry of a timer | `Expires`, `ExpiryJob` |
| the resolver, the network | `Resolver`, `IoCompletes` |

`OnChildInit` may find that the worker failed to initialize, which is asserted not to happen, and
`OnResolve` that the socket cannot be opened.

### Resolver

The actor that `Scrapper` has as its environment.  Its handlers call each other: `on_resolve()`
cancels the timer, `do_cancel_timer()` calls `on_timer()` on the spot, this answers
and calls `process()`, which may begin the next resolution, and then `on_resolve()` goes
on.  So a handler is an operator from what the actor remembers to what it remembers
afterwards, and these are composed as the code calls them.

| code | model |
|---|---|
| `on_request()` | `OnRequest` |
| `process()`, `resolve_start()` | `Process` with `Busy`, `ResolveStart` |
| `mass_reply()`, `reply()` | `MassReply` |
| `on_resolve()`, `on_resolve_error()` | `IoJob`, `Resolved` |
| `on_timer()`, `cancel_request_timer()`, `do_cancel_timer()` | `OnTimer`, `CancelRequestTimer`, `DoCancelTimer` |
| `resources->has_any()` | `HasAny` |
| the end of `async_resolve()`, a timer that strikes, the strand | `Completes`, `Expires` with `ExpiryJob`, `RunJob` |
| `shutdown_start()`; the resources plugin holds up the end | `Shutdown` |
| `assert` in `cancel_timer()` | `failed` |

`on_cancel()` is left out, as nobody in the program sends a `resolve_cancel_t`, and so is the
end of the actor once its resources are released.

## The runs

| run | instance | shows |
|---|---|---|
| `reqres` | a supervisor and a child, 2 requests, 2 replies each | types, no second answer, a timer for each request, the refinement of `Exchange`, and that each request settles |
| `flat` | root with two children: one links and its initialization may time out, one holds a resource and its shutdown may; one `do_shutdown()` on anyone | no failed assertion, refinement of `Lifecycle`, every initialization ends |
| `deep` | root, a supervisor with the other policy and `synchronize_start`, its child with link, subscription, resource and init timeout; two `do_shutdown()` | no request outlives its entry, confirmations are true, start order, waiting for children, every shutdown ends |
| `links` | a client of two servers, one of which is a client of the other and wanted operational only; the client and the last server are shut down at any time, a link request and an unlink request time out, interception, a resource | no link before the server's start where that was asked for, refinement of `Links` |
| `settled` | two clients and a server, each shut down once its links are made, interception, resources | no failed assertion, every shutdown ends, a client asked to unlink ends |
| `registry` | two actors offer one name, the third another one, which one of the two discovers at once (its link to the registry may time out) and the other delayed; the registry in another locality; two actors, one of each name, are shut down once they have what they asked for; the one that discovers has clients; the other deregisters by itself | the two maps agree, no promise is missed, names are kept and given back, promises are cancelled, nobody waits for a name that is there |
| `subscriptions` | two supervisors with an actor each; both subscribe to an address of the second and publish to it, one makes and gives up a subscription of its own at run time; the thread of the second runs tagged handlers; all shut down in any order | no failed assertion, messages that are owed arrive, the owner of an address keeps no handler of the gone, supervisors end |
| `thread` | two actors, three timers that expire at once or later, two messages of any kind, among them blocking and final ones | no failed assertion, list and handlers agree, the list is sorted, each timer is called |
| `loops` | two pings that may time out, a message of the other side's own | no reference is released too many, refinement of `Inbox`, `main()` returns |
| `scrapper` | three requests, two at a time, of which the first may outlast any of its three timers; a client that gives up at the first failure | a worker has one request, which it gets when it is done with the last; no more workers than needed; the client ends |
| `resolver` | two requests for each of two hosts, any of which may be late or fail | each request is in one place and answered once, one resolution and one timer at a time, all are answered in the end |

Bounds.  Two requests are the least that can be confused with each other, and
two replies the least to make a duplicate; every race of one request needs only
its response, its timer and its author.  Three actors are the least with which a
supervisor has children that fail separately, or a tree has a middle.  Of links, two
clients are the least for a server that waits for one while the other is gone, and
the triangle has the rest: two servers of one client, of which one link may be
made and one not, and an actor that is both.  Two localities let messages overtake
each other.  For the registry, three actors and two names have a name contested, a
client that is an owner too, and a promise that may be met, withdrawn or neither.  Two calls
of `do_shutdown()` meet each other from two sides of an edge of the tree, and a
third would find the actor asked already.  Queues are as
long as the actions make them.

For `Subscriptions`, two supervisors are the least for a foreign point, and the address
has one subscriber on either side, so that one delivery has both kinds of call; three
sends in all have messages overtake the confirmations.  For `ThreadTimers`, three timers
are the least for one to be started or cancelled while two others are in the list, one
before and one after it, and the intervals 0 and 2 with a clock up to 4 make equal,
earlier and later deadlines.  For `Loops`, two pings let the answer to the first arrive
after its timeout, and one message more makes two in one batch.  For `Scrapper`, two
requests at a time and a third have a worker used twice while another is busy.  For `Resolver`,
two requests of a kind are the least for one to be answered by the end of the other's
resolution, and two kinds the least for a resolution to begin within the end of another.

The flat instance has no subscriptions, which lead to a finding below; the deep one has
them, but only properties that hold nevertheless, and those about the end of a
shutdown or an initialization make an exception of a tree left by a fault.  `Linking` is
run with actors that are shut down before their links are made only for the properties
that hold then.

The type invariants of `Supervision`, `Registry` and `Subscriptions`, and `DiscardIsFinal` of
`ReqRes`, are theorems below and no run repeats them; `TypeOK` of `Resolver` holds in the instance
of its run.

Deadlock is not checked: rotor is at rest when there is nothing to deliver, and
stops when the root is SHUT_DOWN or a fault has aborted it.  What must not stop
is stated by the liveness properties.

Fairness.  `WF(Deliver)`: `do_process()` runs until the queue is empty.
`WF(Boot)`: the root is initialized by `create_supervisor()`.  `WF(Release)`: user
code releases what it acquires, as the resources plugin demands.
`WF(LinkDone \/ LinkFails)`: a link request has a timeout.
In `Linking`, `WF(Deliver(l))`: the loop of each locality runs; `WF(UserForgets)`: who
takes an unlink request over calls `forget_link()` later, as `link_client.h` demands;
`WF(Release)` as before.  `WF(TimerExpires)` and
`WF(TimerFires)` in `ReqRes`: the loop serves timers.  No server has to reply, no
timeout of an initialization or shutdown has to strike, nobody has to create or
shut down anything.  In `Subscriptions`, `WF(Process(s))`: the thread of each supervisor
runs.  In `ThreadTimers`, `WF(Thread)` and `WF(Tick)`: the thread runs, time goes on; no
message has to come.  In `Loops`, `WF(MainThread)` and `WF(AsioThread)`: both threads run;
no timer has to expire, as the pings are answered.  In `Scrapper`, `WF(Strand)`, and
`SF` of the resolver's answer and of the completion of each worker's operation, strong
as both are only looked at between jobs: a name is resolved or fails to be, an operation ends
(the system's own timeouts), while no timer has to strike.  In `Resolver`,
`WF(RunJob)`, `WF(Completes)` of a resolution, which fails if it does not succeed, and
`WF(Expires)`: a timer that nobody cancels strikes.  In `Registry`, `WF(LinkSettles)` and `WF(ClientsLeave)`: requests
to link are answered or time out, and the clients of an actor that is shut down let
go of it, both as `Linking` has it.

### Where code and words differ

One run shows a statement of the repository violated by the model of what the
code does; `PROJECT.json` quotes it.

- `early_shutdown` (`starter.cpp:49`).  A subscription confirmed after the
  actor's shutdown has begun calls `init_continue()`, whose assertion that the
  actor is INITIALIZING fails.

The models show more, of which no run is kept; with the given property and
constants TLC finds each in a second or two.

- `child_manager.cpp:87`.  `policy.h:18` promises that under `shutdown_failed` the
  initialization continues without the failed child; the supervisor shuts down
  instead (and a test expects that).  `Supervision`, flat tree, one of `Linkers`,
  nobody in `ShutdownSelf`: the root leaves INITIALIZING for SHUTTING_DOWN.
- `child_manager.cpp:161`.  A child is shut down while it initializes, and its init
  timeout strikes while the shutdown is being confirmed.  The response finds no
  entry and an OPERATIONAL supervisor shuts itself down.  Flat tree, a child in
  `Holders`, `InitExpires` and `Quitters`.
- `child_manager.cpp:150`.  The root's init request times out; the root answers that
  request, which is forgotten already, clears it, and is INITIALIZING for ever.
  `InitializationSettles`, the root in `InitExpires`, a child in `Holders`.
- `child_manager.cpp:117`.  A child created while its supervisor waits for a link
  only is not waited for.  `WaitsForChildren`, the root in `Linkers`.
- `link_client.cpp:142`.  A client that is asked to unlink by one server gives up its
  request to another, of which the answer is between its hops: the request is not
  there to be discarded.  `NoAssertionFails`, a client of two servers of which one
  is in `Quitters`, nobody in `Hasty`.
- `link_server.cpp:71`.  A client gives up a link that the server has just refused.
  This is the race of which the comment says "no idea, how to trigger/cause".
  `NoAssertionFails`, one link, both ends in `Quitters` and `Hasty`.
- `link_client.cpp:58`.  The unlink request of a server that grants a link and shuts
  down at once overtakes the answer, which finds no record.  `NoAssertionFails`,
  one link, the server in `Quitters` and `Hasty`.
- `link_client.cpp:76`.  A link granted to an actor whose shutdown waits for a
  resource continues its initialization.  `NoAssertionFails`, one link, the client
  in `Quitters`, `Hasty` and `Holders`.
- `link_client.cpp:92`.  A client that has clients itself does not answer an unlink
  request, and its clients are not asked; the server's shutdown does not end.
  `ShutdownCompletes`, a chain of two links, the last server in `Quitters`.
- `link_server.cpp:127`.  A client put off until the server started is never asked to
  unlink, as `handle_start()` changes its record in a copy; the server's shutdown does
  not end.  `Patterns.md:284` says the server "will ask the client-actor to unlink".
  `ShutdownCompletes`, one link in `Strict`, the server in `Quitters`.
- `link_client.cpp:65`.  A client whose link request timed out tells the server
  nothing; the server keeps its record, and its shutdown does not end.
  `ShutdownCompletes`, one link in `LinkExpires`, the server in `Quitters`.
- `plugin/registry.cpp:70`, `plugin/registry.h:122`.  An actor is shut down while an answer of
  the registry is on its way: its maps are cleared, and the handler's assertion
  that the name is there fails.  The registry in the same locality, an actor in
  `Quitters` and `Hasty`: `fault` becomes `on_registration` or `process_discovery`.
- `plugin/registry.cpp:144`.  With the registry in another locality the same actor ends
  before the answer, and the name it was registering stays for ever.
  `NamesAreReturned`; so it does after a registration that timed out, and without any
  haste when another name of the same actor was refused.
- `plugin/registry.cpp:194`.  A delayed discovery that timed out is erased from the map
  of the client, which then cancels nothing: the registry keeps the promise.
  `PromisesAreCancelled`, a promise in `Expires`.
- `plugin/registry.cpp:177`.  Two names of one address are discovered, which `registry.h:27`
  allows to register: `link()` asserts that the address is not linked to yet.
- `plugin/registry.cpp:177`.  The callback of the link refers to its discovery task.  A
  client that has clients itself keeps the link while it shuts down, but not the
  task: `fault` becomes `task` in the `registry` run.
- `registry.cpp:59`.  An actor that has deregistered all its names with a message of its
  own deregisters them again when it is shut down, by then from another owner.
  `NamesAreKept` of that owner, an actor in `Manual` with a name others register.
- `registry.cpp:44`.  A registration answers the promises made for its name, and then
  all that come after the first of them in the list, whatever name they wait for;
  `messages.hpp:254` promises an answer "when the target service name has been registered".
  `AnswersAreTrue` in `MCRegistry` with `Registers <- OneOffer`, `Discovers <- Nothing`,
  `Promises <- TwoWait`, `Expires <- Never`, nobody in the other sets.
- `system_context_thread.cpp:59`.  A tagged handler lets the owner's `unsubscription`
  for a foreign subscriber in behind that subscriber's `shutdown_request`, which is queued
  already.  The subscriber shuts down and queues its own `unsubscription_external` behind
  both; the starter plugin forgets the point at the first and asserts that it has it
  (`plugin_base.cpp:86`, "unsubscription handled") at the second.  In the other order, and
  between actors that are linked as well, `lifetime.cpp:112` uses an iterator that `find()` did
  not return.  `UnsubscriptionHandled` in the `subscriptions` run with `Tagged = {here}`,
  `Later <- Nothing` and `Linked = FALSE`.
- `plugin_base.cpp:86`.  An actor that subscribes to an address of another supervisor
  out of a handler, not in `configure()`: the starter plugin, which is polled first,
  asserts that the subscription is its own when it is removed.  `Subscriptions`,
  `NoAssertionFails`, with `Later <- RemoteLater` and `Subscribes <- Plain`.
- `foreigners_support.cpp:46`.  A call on its way to a foreign handler reaches it after
  the actor is SHUT_DOWN; `Design.md:138` says such an actor receives no messages.
  `SilentWhenDown` in the `subscriptions` run.
- `foreigners_support.cpp:37`.  An actor that is not linked to the supervisor it
  subscribed at, and has ended, is not there to confirm that its handlers are given up.
  `SupervisorsEnd` with `Linked = FALSE`.
- `supervisor_ev.cpp:67`.  `enqueue()` takes a reference if `pending` is unset but leaves it
  unset, so that two messages in one batch take two references and `on_async()` returns
  one; `supervisor_ev.h:110` says of the flag that "inc/dec will happen only once".
  `RefsAreReturned` in `Loops`.
- `supervisor_ev.cpp:147`.  A message that comes between `start()` and the first
  `on_async()` takes no reference, but its signal, if it comes after the watcher was
  served, has one released.  `RefsAreHeld` with `Early = TRUE`.  (Before the ev side
  has sent its first message nobody knows its address in the example.)
- `system_context_thread.cpp:65` and `:88`.  A callback that starts or cancels a timer while a
  tagged handler runs makes `update_time()` run within itself, which calls the same
  callback again; `Examples.md:125` says that "timer handler will be invoked once
  anyway".  `FiredOnce` and `NoAssertionFails` in `ThreadTimers` with `Careful = FALSE`.
- `beast-scrapper.cpp:546`.  A worker's timer strikes: `on_timer()` leaves `timer_request`
  set, and the cancelled operation cancels the timer again, which asserts that it is
  there.  `NoAssertionFails` in the `scrapper` run, and the reason why `ClientEnds`
  makes an exception of a crash; line 63 has "There should be no crashes".
- `beast-scrapper.cpp:353`.  `on_resolve()` cancels the timer, by which `on_timer()` tells
  everyone who waits that the request was cancelled (`supervisor_asio.cpp:75`); nobody is left
  to be given the addresses, and they are not cached.  `NoneCancelled` in `MCResolver` with
  `Of <- OneHost`.
- `beast-scrapper.cpp:387`.  A resolution ends after its timer has struck, and cancels that
  timer, which `actor_base.cpp:208` asserts is there.  `NoAssertionFails` in the `resolver` run.
- `beast-scrapper.cpp:357`.  While `on_resolve()` cancels the timer, `on_timer()` begins the
  resolution of another host: `on_resolve()` files the addresses it has under that host and gives
  them to who asked for it.  `CacheIsRight` in the `resolver` run.  The program's own client
  asks for one host only.

Where a server waits for ever it is the timeout of its shutdown, and so
`on_error()`, that ends the waiting; `Linking` leaves that timeout to `Supervision`.

## The proofs

`ReqResProofs` proves, for any set of actors, any number of requests and of
replies, from the two assumptions of `ReqRes` (the supervisor is an actor and
`Nobody` is none; the bounds are natural numbers):

- `Typing`: `Spec => []TypeOK`
- `AnsweredOnce`: `Spec => []AtMostOneAnswer`
- `TimersGuardRequests`: `Spec => []RequestsHaveTimers`
- `DiscardedStaysSilent`: `Spec => []DiscardIsFinal`
- `Refinement`: `Spec => ImplementsExchange`

`AtMostOneAnswer` is not inductive: an answer that is already in the queue, or an
id that is still in `request_map`, may yet become a second one.  The invariant
`Inv` adds `Exclusive` (the places a request may be in exclude each other:
waited for, on its way to the author, seen by it, given up), `OneAnswerEach` (no
two answers to one id are in the queue), `Fresh` (an id that was not given out
has left no trace) and that the supervisor ends after all actors have left.
Lemmas `Put` and `Take` say what appending to and taking from the queue does to
these; `InvNext` has one step per action.  `Refinement` shows that a step is a
step of `Exchange` or changes none of its variables: `SendRequest` is `Ask`,
`DeliverAnswer` to a present author is `Answer`, discarding is `Withdraw`, the
delivery to an absent author, or the timers cancelled by `ShutdownFinish`, are
`Withdraw` too, and `ActorLeaves` is `Leave`.

`SupervisionProofs` proves, for any finite tree of actors, any policies, any set
of actors that link, hold resources, subscribe or may time out, and any number
of `do_shutdown()` calls, from `TreeAssumption` (the shape of the tree),
`HoldersAssumption` (resources are held by plain actors only, a restriction of the
model) and `BoundAssumption`:

- `Typing`: `Spec => []TypeOK`
- `TrueConfirmations`: `Spec => []ConfirmationsAreTrue`
- `LifecycleKept`: `Spec => FollowsLifecycle`

None of the last two is inductive: that a supervisor ends after its children
rests on what is in the queue.  `Inv` says of each queued message what it implies
about its actor.  `Confirms`: a confirmation of the shutdown, or the `forget` that
follows it, is from an actor other than the root that is SHUT_DOWN.  `Staged`: who
has a `shutdown_request` in the queue was asked and is still at work, an
`unsubscription` is from an actor that has closed and still hears, a `deactivation`
from one that is deaf and SHUTTING_DOWN; of these an actor gets each once
(`Once`).  `StageOf` ties the bookkeeping of the supervisor to the states: who was
not asked does not shut down, who has no entry is NEW or SHUT_DOWN, who has
closed has no children left and holds nothing.  A failed assertion leaves the tree
half way, so that `Staged`, `Once` and `StageOf` are claimed only while `fault` is
"none"; the types and `Confirms` hold always.  `Taken`, `Appended` and `AllSent` say
what the queue operations do to these (`Grows`), `Moved` and `Quiet` reduce an
action to what it changes, `ContinuedInv`, `RemoveChildInv` and
`ShutdownStartInv` treat what several actions share, and `NextInv` has a lemma per
action.  `NextWalks` shows each step to be a step of `Lifecycle` or none:
`OnDeactivation` is `FinishShutdown`, whose guard over all children follows from
`deaf \subseteq closing`, from `Kids(a) = {}` of those that have closed, and from
who has no entry being NEW or SHUT_DOWN.

Its second part proves from the same assumptions, of the order of the messages about an
actor:

- `ForgottenWithoutRequest`: `Spec => []ForgottenLeavesNoRequest`
- `StartedTogether`: `Spec => []ChildrenStartAfterSupervisor`
- `EntriesAreThere`: `Spec => [](fault # "no entry")`
- `AssertionsHold`: `ASSUME Subscribers = {} PROVE Spec => []NoAssertionFails`
- `ChildrenFirst`: `ASSUME Supervisors \cap (Linkers \cup Subscribers) = {} PROVE
  Spec => WaitsForChildren`

Each assumption leaves out a case in which the code does otherwise: a subscriber that
is shut down early (the `early_shutdown` run), and a supervisor that waits for a link or
a subscription of its own after it has looked at its children (`child_manager.cpp:117`
under "Where code and words differ").

That a request is settled before its entry goes is a matter of the order of messages.
`Tidy` says so of each two in the queue (`Ordered`): `create_actor` is ahead of
everything about its actor; nothing an actor does while it has an entry
(`EarlyKinds`) is behind a message by which it leaves (`Late`), and only one message
is the last (`LastKinds`).  `Says` has what a single message implies: about an
early one the entry is there and the actor hears, of a last one the shutdown request
is settled.  With these `at()` finds its entry at each handler.  `Owed` says where the
init request of a supervisor's `pending_init` is, with the actor or in the queue, so that no
answer can be sent twice, or be missing when the entry goes.  A failed assertion
leaves the order broken, but not the maps: `Chain` is claimed while `fault` is "none",
`pending_init \cup pending_shutdown \subseteq managed` always.  `StartedTogether` needs
more than the edge of the tree it speaks of: a `start_actor` message may have passed a
supervisor only after it started itself, and a supervisor is SHUT_DOWN only after its
children (`Around`).  `Extends` and the lemmas named after it treat what is appended,
`Mild` a handler that leaves the entries alone, `ContinuesTidy`, `ShutdownStartTidy`
and `RemoveChildTidy` what actions share, and `TidyKept` has a lemma per action; `Inv`
is used throughout.

`RegistryProofs` proves, for any actors, any finite set of names, any habits of user
code and any requests that may time out, from `RegistryAssumption` (what an actor
registers and discovers are names, no name both at once and delayed):

- `Typing`: `Spec => []TypeOK`
- `MapsStayInverse`: `Spec => []MapsAgree`
- `PromisesAreMet`: `Spec => []NoPromiseIsMissed`
- `NamesKept`: `ASSUME ManualApart PROVE Spec => NamesAreKept`

`MapsAgree` is inductive but for two things, which `Inv` adds: what is in the queues
is about actors and, of the kinds in `Naming`, about names (`Mail`), and so are the
promises.  `OnRegInv` shows that what `on_reg()` keeps of the promises waits for other
names; `OnDeregServiceInv` that `at()` finds an entry because the maps agree.
`AnswerInv` is shared by the handlers of the registry, which leave everything else
alone; `InitContinueInv`, `RefuseInv`, `ContinueInitInv` and `GiveUpLinksInv` treat
what the handlers of the plugin share.

`on_dereg_service()` takes a name from whoever has it, so that `NamesAreKept` rests on
what is under way to the registry.  `Kept` says so: who deregisters a name has it, is
shut down and was asked to (`Tells`), and a deregistration is under way once, over the
queues of all localities (`Once`); an answer of success to an actor that is not shut down
is still true when it is read, and so is what the plugin has noted (`Owners`), which the
shutdown forgets as it deregisters.  `ManualApart` leaves out the one case in which the code does
otherwise, a name of an actor that deregisters by hand and of another
(`registry.cpp:59` under "Where code and words differ"): by the time of the first one's
shutdown the name is the other's.  `Calms` and the lemmas named after it treat what says
nothing of names, `Grows` what is put behind a queue, `AnswerKept` the handlers of the
registry, and `KeptNext` has a lemma per action; `Takes` is the step that
`NamesAreKept` is about.

`ThreadTimersProofs` proves, for any actors, timers, intervals and bounds, from
`TimersAssumption`:

- `StaysSorted`: `Spec => []Sorted`
- `ListAndMapAgree`: `Spec => []TimersAgree`
- `CarefulUsersAreSafe`: `ASSUME Careful PROVE Spec => []NoAssertionFails`

`TimersAgree` speaks of the moments when no timer operation is under way, but the reason is
that list and map are about the same timers always (`ListOK`), which needs that no timer
is twice in the list, and this, that one that is about to be inserted was not before and is
so in one frame of the stack only (`FramesOK`).  That an actor that has ended has left no timer
needs that the frame of its end is at the bottom of the stack, so that nothing is
pending then.  `CareOK` is claimed of careful users only: no callback is twice
under way, there is none below an `update_time()`, and no frame looks for a timer
after other callbacks have run.  `InsertKeeps` and `EraseKeeps` treat the list,
`PushOne` and `Pop` the stack, and `NextInv` has a lemma per action.

`LinkingProofs` proves, for any actors, localities, links, timeouts and habits of user
code, from `LinksAssumption`:

- `OperationalKept`: `Spec => []OperationalOnlyIsKept`
- `LinksKept`: `Spec => ImplementsLinks`
- `NothingFails`: `ASSUME Calm PROVE Spec => []NoAssertionFails`

None of them follows from the maps alone.  `Inv` adds what a message says as long as it is
under way, perhaps through two localities (`Says`): a granted link that its client still
waits for has a record at the server, and a server that is started if the link is
operational only; a client that answers an unlink request or sends a notice has erased its
record; an actor that gives up its subscriptions has neither clients nor servers
(`Ended`).  A late answer to an earlier request for the same link would break this; that there
is none rests on an actor being asked to initialize once (`InitOnce`) and on nothing
being known of a link before its client asks for it (`Touched`).  `Keeps` reduces an
action to what it sends and to how the maps change.  `StepMaps` shows each step to be
one of `Links`: an unlink request taken is `Unlink`, as is a shutdown that drops all links,
`OnLinkResponse` is `Link`, and `OnUnsubscription` is `End`, whose guard is `Ended`.

`Calm` is what keeps the findings above away: user code shuts an actor down between its
links only (without it `link_client.cpp:58`, `:76` and `link_server.cpp:71`), unlink
requests do not time out (`link_server.cpp:79` would end the process), and a client has
one link, unless its servers stay, have no servers themselves, and answer in time
(`link_client.cpp:142`).  Refusals, link timeouts, chains of clients, resources that hold an
actor back and servers that do not start are all in.  The instance of `settled` is calm.
The invariant `Orderly` says that an actor whose shutdown is under way has no link still to be
made (`Course`); that a request to shut down or to unlink comes from nobody else, and an
answer to a link request finds the request (`Tells`); that of a link there is one answer at
most in all the queues, and one message at most that lets go of it (`ApartIn`), so none comes
for a link that is forgotten; and that a link let go of has its timer, or its answer is on its way,
so no timer is cancelled twice.  `Shrunk` and `Lengthened` treat `ApartIn` where a message is
taken and where some are sent, `Stays` and `Continues` are what the actions share that move no
link, `ForgetLinkOrderly` and `ForgetClientOrderly` the two ways a link ends, and there is a
lemma per action.

`LoopsProofs` proves, for any number of pings and of messages of the asio side's own,
from `CountsAssumption`:

- `ReferencesHeld`: `ASSUME ~Early PROVE Spec => []RefsAreHeld`
- `MessagesInOrder`: `Spec => []WaitInOrder`
- `PromiseKept`: `Spec => KeepsPromise`, the safety part of `Inbox`

With `Early` the asio side speaks to a supervisor that has not spoken to it, which
nobody does in the example, as nobody knows the address; then the code does release one
reference too many (`supervisor_ev.cpp:147` above).  `RefsAreHeld` becomes inductive with
the wake-ups under way: each signal that may yet be served, and each
`ev_async_send()` that is still to come, has a reference of its own (`WakeUps`), where
one to a stopped watcher does not count.  The wake-up of `start()` is the exception in
the code, and `Starting` says that while it lasts no other thread can interfere.
The other two theorems have an invariant of their own, `Boxed`: what waits at a loop
is sorted over all the places it may be in, its numbers are at most the number of messages
sent, and exactly what the other loop has sent is numbered.  That each message is taken in the
end is left to the run.

`SubscriptionsProofs` proves, for any finite sets of actors and addresses, any
supervisors and any `Home`, `Owner` and `Subscribes`, linked or not, from
`KindsAssumption`, `PlacesAssumption` and `OnceAssumption`:

- `Typing`: `Spec => []TypeOK`
- `NothingFails`: `ASSUME LocalLater, TaggedAtHome PROVE Spec => []NoAssertionFails`
- `OwnersKnow`: `ASSUME LocalLater, TaggedAtHome PROVE Spec => []OwnerKnows`: the owner of an
  address keeps a foreign point until the subscriber itself has given it up

`LocalLater` says that what actors subscribe to out of handlers is of their own
supervisor; `TaggedAtHome` that actors of a supervisor whose thread runs tagged handlers subscribe
to addresses of that supervisor only.  Other actors may subscribe to what these
supervisors own, as in the `subscriptions` run.  Without either the theorem is false: the first is the
`plugin_base.cpp:86` above, the second the `system_context_thread.cpp:59`.
`KindsAssumption` says that an address is no actor, and that there are finitely many.
A subscription is with its actor, with the owner of the address, and perhaps in a message
between the two, and the three agree at no moment.  `Inv` says of each message
what the two sides have recorded as long as it is under way (`Says`): a confirmation of the
end is in no queue while the actor still has the subscription; there is at most one message of
each kind that ends something (`Unique`).  The hard case is an owner and an actor
that shut down at the same time, when the owner's `foreign_unsubscription` and the actor's
own `unsubscription_external` cross: were the first handled between the
shutdown of the actor and the second, the assertion in `plugin_base.cpp:86` would fail.
Where tagged handlers run this happens.  Where none do it cannot: an eviction comes from another
locality, so it enters the actor's queue by `Load`, only when that is empty, and while an actor is
SHUTTING_DOWN its queue is not: what it still waits for is there (`DrivenOK`).  And at a
tagged supervisor there are no evictions by `TaggedAtHome`, so that `CheckInv` has nothing to
say of them.  So an eviction in the queue is ahead of
every shutdown request (`Early`), and handled by an actor that has not begun to shut down
or is SHUT_DOWN (`Placed`).  `Sending` reduces a step to
the messages it takes and sends, `Forgets` is what the two plugins' ways to forget a point share, and there
is a lemma per action.

`ScrapperProofs` proves, for any numbers of workers, requests and requests at a time,
and any timers that strike, from `LoadAssumption`:

- `ManagerRight`: `ASSUME MaxFailures <= 1 PROVE Spec => []ManagerIsRight`

`MAX_HTTP_FAILURES` is 1 in the code.  With 2 the theorem is false: the client goes on after
a failure, and a worker may be given a request while it still has the socket of one that the
manager has given up.  Nothing that the manager or a worker does by itself excludes this.
`Inv` says why it does not happen: a worker is away from the manager's books, or has
a socket and no request, only in `Trouble`, that is when the client has been told of a failure or
a message that tells it is the only one in the queue (`Staff`, `Tells`).
Requests, work and new workers may be in the queue together, but only before the first
failure, and any other message is there alone (`Orderly`, `Says`), so no worker is given
anything after that.  The bound on the workers is a matter of counting: there
are as many workers that are not free as requests that the manager holds (`Manager`), and
unless a request has failed the client still waits for each of these (`Client`).
`Taken` and `Sent` treat the queue, `Works` and `Worked` whatever a worker does that may end in
a reply, `Gives` and `Given` the two ways a request comes to a worker, and there is a
lemma per action.

Only model-checked: all liveness, which TLAPS does not reach.  So are, of `Registry`, that
names are given back and promises are cancelled, and all of `Resolver`.

## What is not modelled, and the plan

In this order:

1. Request ids with `% 2^w`: `next_request_id()` (`supervisor.h:289`) skips the ids pending at the
   locality leader, while a supervisor of the same locality has a map of its own.
2. Several supervisors on one libev loop: `enqueue()` of a child takes references of the child
   and `on_async()` releases the leader's.

Also left out: `update()` and `tag_io()` of a foreign subscription (what tagged handlers do to
the order of other messages is in `Subscriptions` and `ThreadTimers`); a handler that
subscribes while `delivery()` walks the list it is put into; children created by a
supervisor that shuts down, or after its start with `synchronize_start`; resources
acquired before the init request (`resources.cpp:65`); unlink requests that time out
(`link_server.cpp:79`) with an `on_error()` that does not abort; of the scrapper
`http_cancel`, the end of the resolver and the emergency shutdown.

Left out for good: builders and configuration (compile-time; their options are
constants here), message types and reference counting of intrusive pointers,
texts of errors, the wx backend (calls into wxWidgets), what Boost.Asio and libev
do inside, the other examples (tutorials of what is modelled above) and tests.

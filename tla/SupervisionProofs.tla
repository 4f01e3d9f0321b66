-------------------------- MODULE SupervisionProofs --------------------------
(***************************************************************************)
(* Proofs about Supervision for any tree of actors, any policies, timeouts *)
(* and habits of user code: its type invariant, that confirmations are     *)
(* true when they are handled, and that the tree implements Lifecycle; and *)
(* that what is in actors_map and in the request_map of a supervisor fits  *)
(* together, that a supervisor waits for its children before it confirms   *)
(* its own initialization, and that children that are started together are *)
(* started after it.                                                       *)
(***************************************************************************)
EXTENDS Supervision, FiniteSetTheorems, TLAPS

\* Messages an actor gets only once in its life.
OnceKinds == {"shutdown_request", "unsubscription", "deactivation"}

Same(x, y) == x.kind = y.kind /\ x.actor = y.actor

Once(q) ==
    \A i, j \in 1 .. Len(q) :
        q[i].kind \in OnceKinds /\ Same(q[i], q[j]) => i = j

\* What a confirmation says of the actor it comes from.
Confirms(x) ==
    /\ x.kind = "forget" \/ (x.kind \in {"shutdown_reply", "shutdown_response"} /\ x.ok)
          => x.actor # Root /\ state[x.actor] = "SHUT_DOWN"
    /\ x.kind \in {"init_reply", "init_response"} /\ x.ok
          => state[x.actor] \notin {"NEW", "INITIALIZING"}

\* What the other messages say of the stage of its shutdown an actor is in.
Staged(x) ==
    /\ x.kind = "shutdown_request"
          => x.actor \in asked \ {Root} /\ state[x.actor] \in Live
    /\ x.kind = "unsubscription" => x.actor \in closing \ deaf
    /\ x.kind = "deactivation"
          => x.actor \in deaf /\ state[x.actor] = "SHUTTING_DOWN"

\* The stages themselves: nobody begins to shut down unasked, whom the
\* supervisor has no entry for is not there, who closes has nothing to wait for.
StageOf(a) ==
    /\ a \notin asked => state[a] \in {"NEW"} \cup Live
    /\ a \in managed => state[a] # "NEW"
    /\ a \notin managed \cup {Root} => state[a] \in {"NEW", "SHUT_DOWN"}
    /\ a \in closing => /\ state[a] \in {"SHUTTING_DOWN", "SHUT_DOWN"}
                        /\ Kids(a) = {}
                        /\ a \notin holding
    /\ state[a] = "SHUT_DOWN" => a \in deaf

Stages == Root \notin shutdown_request /\ \A a \in Actors : StageOf(a)

Orderly ==
    /\ Stages
    /\ Once(queue)
    /\ \A x \in Range(queue) : Staged(x)

\* A failed assertion leaves the tree as it is at that moment, so that only
\* the first two parts are true of it.
Inv ==
    /\ TypeOK
    /\ \A x \in Range(queue) : Confirms(x)
    /\ fault = "none" => Orderly
---------------------------------------------------------------------------
\* Messages the invariant has nothing to say about.
Silent(x) ==
    /\ x.kind \notin OnceKinds \cup {"forget"}
    /\ x.kind \in {"init_reply", "init_response", "shutdown_reply",
                   "shutdown_response"} => ~x.ok

\* r is q with the messages of S, and perhaps silent ones, behind it.
Grows(q, r, S) ==
    /\ r \in Seq(Message)
    /\ \A x \in Range(r) : x \in Range(q) \cup S \/ Silent(x)
    /\ /\ Once(q)
       /\ \A x \in Range(q), y \in S : y.kind \in OnceKinds => ~Same(x, y)
       => Once(r)

LEMMA MsgType ==
    ASSUME NEW kind \in ToActor \cup ToSupervisor, NEW a \in Actors
    PROVE  /\ Msg(kind, a) \in Message
           /\ Failed(kind, a) \in Message
           /\ Msg(kind, a).kind = kind /\ Msg(kind, a).actor = a /\ Msg(kind, a).ok
           /\ Failed(kind, a).kind = kind /\ Failed(kind, a).actor = a
           /\ ~Failed(kind, a).ok
  BY DEF Msg, Failed, Message

\* Taking the first message off the queue.
LEMMA Taken ==
    ASSUME NEW q \in Seq(Message), q # <<>>
    PROVE  /\ Head(q) \in Message
           /\ Head(q) \in Range(q)
           /\ Tail(q) \in Seq(Message)
           /\ Range(Tail(q)) \subseteq Range(q)
           /\ Once(q) => Once(Tail(q))
           /\ Once(q) /\ Head(q).kind \in OnceKinds
                => \A x \in Range(Tail(q)) : ~Same(x, Head(q))
  <1> DEFINE r == Tail(q)
             h == Head(q)
  <1>1. /\ r \in Seq(Message)
        /\ h \in Message
        /\ Len(q) \in Nat
        /\ Len(q) > 0
        /\ Len(r) = Len(q) - 1
        /\ h = q[1]
        /\ \A i \in 1 .. Len(r) : r[i] = q[i + 1]
        /\ DOMAIN q = 1 .. Len(q)
        /\ DOMAIN r = 1 .. Len(r)
    OBVIOUS
  <1> HIDE DEF r, h
  <1>2. h \in Range(q)
    BY <1>1 DEF Range
  <1>3. \A i \in 1 .. Len(r) : i + 1 \in 1 .. Len(q) /\ i + 1 # 1
    BY <1>1
  <1>4. Range(r) \subseteq Range(q)
    BY <1>1, <1>3 DEF Range
  <1>5. Once(q) => Once(r)
    <2> SUFFICES ASSUME Once(q), NEW i \in 1 .. Len(r), NEW j \in 1 .. Len(r),
                        r[i].kind \in OnceKinds, Same(r[i], r[j])
                 PROVE  i = j
      BY DEF Once
    <2>1. i + 1 = j + 1
      BY <1>1, <1>3 DEF Once
    <2>2. QED
      BY <2>1, <1>1
  <1>6. ASSUME Once(q), h.kind \in OnceKinds, NEW x \in Range(r) PROVE ~Same(x, h)
    <2>1. PICK i \in 1 .. Len(r) : x = q[i + 1]
      BY <1>1 DEF Range
    <2>2. Same(x, h) => q[1].kind \in OnceKinds /\ Same(q[1], q[i + 1])
      BY <1>1, <1>6, <2>1 DEF Same
    <2>3. QED
      BY <1>1, <1>3, <1>6, <2>2 DEF Once
  <1>7. QED
    BY <1>1, <1>2, <1>4, <1>5, <1>6 DEF r, h

LEMMA Appended ==
    ASSUME NEW q \in Seq(Message), NEW x \in Message
    PROVE  /\ Grows(q, Append(q, x), {x})
           /\ Silent(x) => Grows(q, Append(q, x), {})
  <1> DEFINE r == Append(q, x)
  <1>1. /\ r \in Seq(Message)
        /\ Len(r) = Len(q) + 1
        /\ Len(q) \in Nat
        /\ r[Len(q) + 1] = x
        /\ \A i \in 1 .. Len(q) : r[i] = q[i]
        /\ DOMAIN q = 1 .. Len(q)
        /\ DOMAIN r = 1 .. Len(r)
    OBVIOUS
  <1> HIDE DEF r
  <1>2. \A i \in 1 .. Len(r) : i \in 1 .. Len(q) \/ i = Len(q) + 1
    BY <1>1
  <1>3. \A y \in Range(r) : y \in Range(q) \cup {x}
    BY <1>1, <1>2 DEF Range
  <1>4. ASSUME Once(q), x.kind \in OnceKinds => \A y \in Range(q) : ~Same(y, x)
        PROVE  Once(r)
    <2> SUFFICES ASSUME NEW i \in 1 .. Len(r), NEW j \in 1 .. Len(r),
                        r[i].kind \in OnceKinds, Same(r[i], r[j])
                 PROVE  i = j
      BY DEF Once
    <2>1. CASE i \in 1 .. Len(q) /\ j \in 1 .. Len(q)
      BY <1>1, <1>4, <2>1 DEF Once
    <2>2. CASE i = Len(q) + 1 /\ j = Len(q) + 1
      BY <2>2
    <2>3. CASE i \in 1 .. Len(q) /\ j = Len(q) + 1
      <3>1. q[i] \in Range(q) /\ r[i] = q[i] /\ r[j] = x
        BY <1>1, <2>3 DEF Range
      <3>2. x.kind \in OnceKinds /\ Same(q[i], x)
        BY <3>1 DEF Same
      <3>3. QED
        BY <1>4, <3>1, <3>2
    <2>4. CASE i = Len(q) + 1 /\ j \in 1 .. Len(q)
      <3>1. q[j] \in Range(q) /\ r[j] = q[j] /\ r[i] = x
        BY <1>1, <2>4 DEF Range
      <3>2. x.kind \in OnceKinds /\ Same(q[j], x)
        BY <3>1 DEF Same
      <3>3. QED
        BY <1>4, <3>1, <3>2
    <2>5. QED
      BY <1>2, <2>1, <2>2, <2>3, <2>4
  <1>5. Grows(q, r, {x})
    BY <1>1, <1>3, <1>4 DEF Grows
  <1>6. Silent(x) => Grows(q, r, {})
    BY <1>1, <1>3, <1>4 DEF Grows, Silent
  <1>7. QED
    BY <1>5, <1>6 DEF r

\* Silent messages first, others behind them.
LEMMA Silently ==
    ASSUME NEW q \in Seq(Message), NEW r, NEW t, NEW S,
           Grows(q, r, {}), Grows(r, t, S)
    PROVE  Grows(q, t, S)
  <1>1. \A x \in Range(r) : x \in Range(q) \/ Silent(x)
    BY DEF Grows
  <1>2. Once(q) => Once(r)
    BY DEF Grows
  <1>3. ASSUME \A x \in Range(q), y \in S : y.kind \in OnceKinds => ~Same(x, y)
        PROVE  \A x \in Range(r), y \in S : y.kind \in OnceKinds => ~Same(x, y)
    BY <1>1, <1>3 DEF Silent, Same
  <1>4. QED
    BY <1>1, <1>2, <1>3 DEF Grows

LEMMA NothingSent == ASSUME NEW q \in Seq(Message) PROVE Grows(q, q, {})
  BY DEF Grows

\* do_shutdown() sends a trigger or nothing.
LEMMA TriggerSent ==
    ASSUME NEW q \in Seq(Message), NEW a \in Actors
    PROVE  Grows(q, q \o DoShutdown(a), {})
  <1> DEFINE x == Msg("shutdown_trigger", a)
  <1>1. x \in Message /\ Silent(x)
    BY MsgType DEF Silent, ToActor, ToSupervisor, OnceKinds
  <1>2. q \o <<>> = q /\ q \o <<x>> = Append(q, x)
    BY <1>1
  <1>3. QED
    BY <1>1, <1>2, Appended, NothingSent DEF DoShutdown

LEMMA AllSent ==
    ASSUME NEW q \in Seq(Message), NEW kind \in ToActor \cup ToSupervisor,
           NEW S \in SUBSET Actors, NEW s \in ToEach(kind, S)
    PROVE  /\ Grows(q, q \o s, {Msg(kind, c) : c \in S})
           /\ kind = "start_actor" => Grows(q, q \o s, {})
  <1> DEFINE n == Cardinality(S)
             r == q \o s
             T == {Msg(kind, c) : c \in S}
  <1>1. n \in Nat
    BY TreeAssumption, FS_Subset, FS_CardinalityType
  <1> HIDE DEF n
  <1>2. PICK f \in [1 .. n -> S] :
            /\ \A i, j \in 1 .. n : i # j => f[i] # f[j]
            /\ s = [i \in 1 .. n |-> Msg(kind, f[i])]
    BY DEF ToEach, SetToSeqs, n
  <1>3. s \in Seq(Message) /\ Len(s) = n
    BY <1>1, <1>2, MsgType
  <1>4. /\ r \in Seq(Message)
        /\ Len(q) \in Nat
        /\ Len(r) = Len(q) + n
        /\ \A i \in 1 .. Len(q) : r[i] = q[i]
        /\ \A i \in 1 .. n : r[Len(q) + i] = s[i]
        /\ DOMAIN q = 1 .. Len(q)
        /\ DOMAIN r = 1 .. Len(r)
    BY <1>1, <1>3
  <1> HIDE DEF r
  <1>5. \A i \in 1 .. Len(r) :
            \/ i \in 1 .. Len(q) /\ r[i] = q[i] /\ q[i] \in Range(q)
            \/ /\ i - Len(q) \in 1 .. n
               /\ r[i] = Msg(kind, f[i - Len(q)])
               /\ f[i - Len(q)] \in S
    <2> SUFFICES ASSUME NEW i \in 1 .. Len(r), i \notin 1 .. Len(q)
                 PROVE  /\ i - Len(q) \in 1 .. n
                        /\ r[i] = Msg(kind, f[i - Len(q)])
                        /\ f[i - Len(q)] \in S
      BY <1>4 DEF Range
    <2>1. i - Len(q) \in 1 .. n /\ Len(q) + (i - Len(q)) = i
      BY <1>1, <1>4
    <2>2. QED
      BY <1>2, <1>4, <2>1
  <1>6. \A x \in Range(r) : x \in Range(q) \cup T
    BY <1>4, <1>5 DEF Range
  <1>7. ASSUME Once(q), \A x \in Range(q), y \in T : y.kind \in OnceKinds => ~Same(x, y)
        PROVE  Once(r)
    <2> SUFFICES ASSUME NEW i \in 1 .. Len(r), NEW j \in 1 .. Len(r),
                        r[i].kind \in OnceKinds, Same(r[i], r[j])
                 PROVE  i = j
      BY DEF Once
    <2>1. CASE i \in 1 .. Len(q) /\ j \in 1 .. Len(q)
      BY <1>4, <1>7, <2>1 DEF Once
    <2>2. CASE i \in 1 .. Len(q) /\ j \notin 1 .. Len(q)
      <3>1. r[i] \in Range(q) /\ r[j] \in T
        BY <1>5, <2>2
      <3>2. QED
        BY <1>7, <3>1 DEF Same
    <2>3. CASE i \notin 1 .. Len(q) /\ j \in 1 .. Len(q)
      <3>1. r[j] \in Range(q) /\ r[i] \in T
        BY <1>5, <2>3
      <3>2. QED
        BY <1>7, <3>1 DEF Same
    <2>4. CASE i \notin 1 .. Len(q) /\ j \notin 1 .. Len(q)
      <3>1. f[i - Len(q)] = f[j - Len(q)]
        BY <1>5, <2>4, MsgType DEF Same
      <3>2. i - Len(q) = j - Len(q)
        BY <1>2, <1>5, <2>4, <3>1
      <3>3. QED
        BY <1>4, <3>2
    <2>5. QED
      BY <2>1, <2>2, <2>3, <2>4
  <1>8. Grows(q, r, T)
    BY <1>4, <1>6, <1>7 DEF Grows
  <1>9. kind = "start_actor" => \A y \in T : Silent(y) /\ y.kind \notin OnceKinds
    BY MsgType DEF Silent, OnceKinds
  <1>10. kind = "start_actor" => Grows(q, r, {})
    BY <1>4, <1>6, <1>7, <1>9 DEF Grows
  <1>11. QED
    BY <1>8, <1>10 DEF r

\* What init_continue() may do to an actor.
LEMMA Continued ==
    ASSUME TypeOK, NEW a \in Actors, NEW q \in Seq(Message), NEW kids,
           NEW done, InitContinue(a, done, kids, q)
    PROVE  /\ poll' \in [Actors -> Plugins]
           /\ holding' \subseteq Holders
           /\ holding' \subseteq holding \cup {a}
           /\ init_request' \subseteq Actors
           /\ \/ /\ state' = [state EXCEPT ![a] = "INITIALIZED"]
                 /\ Grows(q, queue', {Msg("init_reply", a)})
              \/ UNCHANGED state /\ Grows(q, queue', {})
  <1> DEFINE stop == StopsAt(a, done, kids)
  <1>1. stop \in Plugins /\ (stop = "resources" => a \in Holders)
    BY DEF StopsAt, Plugins
  <1> HIDE DEF stop
  <1>2. /\ poll' = [poll EXCEPT ![a] = stop]
        /\ holding' = IF stop = "resources" THEN holding \cup {a} ELSE holding \ {a}
        /\ IF stop = "none"
           THEN /\ state' = [state EXCEPT ![a] = "INITIALIZED"]
                /\ init_request' = init_request \ {a}
           ELSE /\ init_request' = init_request \cup {a}
                /\ UNCHANGED state
        /\ queue' = CASE stop = "none" -> Append(q, Msg("init_reply", a))
                      [] stop = "starter" -> Append(q, Msg("subscription", a))
                      [] OTHER -> q
    BY DEF InitContinue, stop
  <1>3. /\ poll' \in [Actors -> Plugins]
        /\ holding' \subseteq Holders
        /\ holding' \subseteq holding \cup {a}
        /\ init_request' \subseteq Actors
    BY <1>1, <1>2 DEF TypeOK
  <1>4. /\ Msg("init_reply", a) \in Message
        /\ Msg("subscription", a) \in Message
        /\ Silent(Msg("subscription", a))
    BY MsgType DEF ToActor, ToSupervisor, Silent, OnceKinds
  <1>5. CASE stop = "none"
    BY <1>2, <1>3, <1>4, <1>5, Appended
  <1>6. CASE stop # "none"
    BY <1>2, <1>3, <1>4, <1>6, Appended, NothingSent
  <1>7. QED
    BY <1>5, <1>6

---------------------------------------------------------------------------
\* No actor goes back from what a confirmation says of it.
Advances ==
    \A a \in Actors :
        /\ state[a] = "SHUT_DOWN" => state'[a] = "SHUT_DOWN"
        /\ state[a] \notin {"NEW", "INITIALIZING"}
                => state'[a] \notin {"NEW", "INITIALIZING"}

LEMMA Ranges == ASSUME Inv, NEW x \in Range(queue)
                PROVE  x \in Message /\ x.actor \in Actors
  <1>1. queue \in Seq(Message)
    BY DEF Inv, TypeOK
  <1>2. DOMAIN queue = 1 .. Len(queue) /\ \A i \in 1 .. Len(queue) : queue[i] \in Message
    BY <1>1
  <1>3. x \in Message
    BY <1>2 DEF Range
  <1>4. QED
    BY <1>3 DEF Message

\* The queue grows behind q, the part of it that was there before.
LEMMA ConfirmsKept ==
    ASSUME Inv, NEW q, Range(q) \subseteq Range(queue), NEW S,
           Grows(q, queue', S), Advances, \A x \in S : Confirms(x)'
    PROVE  (\A x \in Range(queue) : Confirms(x))'
  <1> SUFFICES ASSUME NEW x \in Range(queue') PROVE Confirms(x)'
    OBVIOUS
  <1>1. CASE x \in Range(q)
    <2>1. Confirms(x) /\ x.actor \in Actors
      BY <1>1, Ranges DEF Inv
    <2>2. QED
      BY <2>1 DEF Confirms, Advances
  <1>2. CASE Silent(x)
    BY <1>2 DEF Silent, Confirms
  <1>3. QED
    BY <1>1, <1>2 DEF Grows

LEMMA OrderlyKept ==
    ASSUME NEW q, Once(q), NEW S, Grows(q, queue', S),
           \A x \in Range(q), y \in S : y.kind \in OnceKinds => ~Same(x, y),
           \A x \in Range(q) \cup S : Staged(x)',
           Stages'
    PROVE  Orderly'
  <1>1. Once(queue')
    BY DEF Grows
  <1>2. \A x \in Range(queue') : Silent(x) => Staged(x)'
    BY DEF Silent, Staged, OnceKinds
  <1>3. \A x \in Range(queue') : Staged(x)'
    BY <1>2 DEF Grows
  <1>4. QED
    BY <1>1, <1>3 DEF Orderly

\* A step that touches nothing the invariant is about, but the queue.
LEMMA Quiet ==
    ASSUME Inv, fault = "none",
           NEW q, Once(q), Range(q) \subseteq Range(queue),
           NEW S, Grows(q, queue', S),
           \A x \in S : x.kind \notin OnceKinds /\ Confirms(x),
           UNCHANGED <<state, holding, shutdown_request, managed, asked,
                       closing, deaf>>,
           TypeOK'
    PROVE  Inv'
  <1>1. Advances
    BY DEF Advances
  <1>2. Stages'
    BY DEF Inv, Orderly, Stages, StageOf, Kids
  <1>3. \A x \in Range(q) \cup S : Staged(x)'
    BY DEF Inv, Orderly, Staged, OnceKinds
  <1>4. \A x \in S : Confirms(x)'
    BY DEF Confirms
  <1>5. (\A x \in Range(queue) : Confirms(x))'
    BY <1>1, <1>4, ConfirmsKept
  <1>6. Orderly'
    BY <1>2, <1>3, OrderlyKept
  <1>7. QED
    BY <1>5, <1>6 DEF Inv

\* The queue before a step of user code or of the event loop.
LEMMA Before ==
    ASSUME Inv, fault = "none"
    PROVE  /\ queue \in Seq(Message)
           /\ Range(queue) \subseteq Range(queue)
           /\ Once(queue)
           /\ Stages
           /\ \A x \in Range(queue) : Staged(x) /\ Confirms(x)
  BY DEF Inv, TypeOK, Orderly

\* The queue behind the message that is delivered.
LEMMA Behind ==
    ASSUME Inv, Delivery
    PROVE  /\ fault = "none"
           /\ m \in Message
           /\ m.actor \in Actors
           /\ Parent[m.actor] \in Supervisors
           /\ Parent[m.actor] \in Actors
           /\ Staged(m)
           /\ Confirms(m)
           /\ rest \in Seq(Message)
           /\ Range(rest) \subseteq Range(queue)
           /\ Once(rest)
           /\ m.kind \in OnceKinds => \A x \in Range(rest) : ~Same(x, m)
           /\ Stages
           /\ \A x \in Range(rest) : Staged(x) /\ Confirms(x)
  <1>1. fault = "none" /\ queue \in Seq(Message) /\ queue # <<>> /\ Orderly
    BY DEF Inv, TypeOK, Delivery
  <1>2. /\ m \in Message
        /\ m \in Range(queue)
        /\ rest \in Seq(Message)
        /\ Range(rest) \subseteq Range(queue)
        /\ Once(rest)
        /\ m.kind \in OnceKinds => \A x \in Range(rest) : ~Same(x, m)
    BY <1>1, Taken DEF Orderly, m, rest
  <1>3. m.actor \in Actors /\ Parent[m.actor] \in Supervisors
    BY <1>2, TreeAssumption DEF Message
  <1>4. QED
    BY <1>1, <1>2, <1>3, TreeAssumption DEF Orderly, Inv

---------------------------------------------------------------------------
LEMMA InitInv == Init => Inv
  <1> SUFFICES ASSUME Init PROVE Inv
    OBVIOUS
  <1>1. Root \in Actors
    BY TreeAssumption
  <1>2. TypeOK
    <2>1. state \in [Actors -> States] /\ poll \in [Actors -> Plugins]
      BY DEF Init, States, Plugins
    <2>2. queue \in Seq(Message) /\ shutdowns \in 0 .. MaxShutdowns
      BY BoundAssumption DEF Init
    <2>3. fault \in Faults /\ managed \subseteq Actors
      BY <1>1 DEF Init, Faults
    <2>4. QED
      BY <2>1, <2>2, <2>3 DEF Init, TypeOK
  <1>3. Range(queue) = {} /\ Once(queue)
    BY DEF Init, Range, Once
  <1>4. Stages
    BY <1>1 DEF Init, Stages, StageOf, Live, Kids
  <1>5. QED
    BY <1>2, <1>3, <1>4 DEF Inv, Orderly

---------------------------------------------------------------------------
\* The steps of user code and of the event loop.
LEMMA BootInv == ASSUME Inv, Boot PROVE Inv'
  <1> DEFINE x == Msg("init_request", Root)
  <1>1. Root \in Actors /\ queue \in Seq(Message)
    BY TreeAssumption DEF Inv, TypeOK
  <1>2. x \in Message /\ Silent(x)
    BY <1>1, MsgType DEF Silent, ToActor, ToSupervisor, OnceKinds
  <1> HIDE DEF x
  <1>3. Grows(queue, queue', {})
    BY <1>1, <1>2, Appended DEF Boot, x
  <1>4. TypeOK'
    BY <1>1, <1>3 DEF Inv, TypeOK, Boot, Grows
  <1>5. CASE fault = "none"
    BY <1>3, <1>4, <1>5, Before, Quiet DEF Boot
  <1>6. CASE fault # "none"
    <2>1. Advances
      BY DEF Boot, Advances
    <2>2. QED
      BY <1>3, <1>4, <1>6, <2>1, ConfirmsKept DEF Boot, Inv
  <1>7. QED
    BY <1>5, <1>6

LEMMA UserShutdownInv ==
    ASSUME Inv, NEW a \in Actors, UserShutdown(a) PROVE Inv'
  <1>1. fault = "none"
    BY DEF UserShutdown
  <1>2. Grows(queue, queue', {})
    BY <1>1, Before, TriggerSent DEF UserShutdown
  <1>3. TypeOK'
    BY <1>2, BoundAssumption DEF Inv, TypeOK, UserShutdown, Grows
  <1>4. QED
    BY <1>1, <1>2, <1>3, Before, Quiet DEF UserShutdown

LEMMA LinkFailsInv ==
    ASSUME Inv, NEW a \in Actors, LinkFails(a) PROVE Inv'
  <1> DEFINE x == Failed("init_reply", a)
  <1>1. x \in Message /\ Silent(x)
    BY MsgType DEF Silent, ToActor, ToSupervisor, OnceKinds
  <1> HIDE DEF x
  <1>2. fault = "none"
    BY DEF LinkFails
  <1>3. Grows(queue, queue', {})
    BY <1>1, <1>2, Before, Appended DEF LinkFails, x
  <1>4. TypeOK'
    BY <1>3 DEF Inv, TypeOK, LinkFails, Grows
  <1>5. QED
    BY <1>2, <1>3, <1>4, Before, Quiet DEF LinkFails

LEMMA InitTimeoutInv ==
    ASSUME Inv, NEW a \in Actors, InitTimeout(a) PROVE Inv'
  <1> DEFINE x == Failed("init_response", a)
  <1>1. x \in Message /\ Silent(x)
    BY MsgType DEF Silent, ToActor, ToSupervisor, OnceKinds
  <1> HIDE DEF x
  <1>2. fault = "none"
    BY DEF InitTimeout
  <1>3. Grows(queue, queue', {})
    BY <1>1, <1>2, Before, Appended DEF InitTimeout, x
  <1>4. TypeOK'
    BY <1>3 DEF Inv, TypeOK, InitTimeout, Grows
  <1>5. QED
    BY <1>2, <1>3, <1>4, Before, Quiet DEF InitTimeout

LEMMA ShutdownTimeoutInv ==
    ASSUME Inv, NEW a \in Actors, ShutdownTimeout(a) PROVE Inv'
  <1> DEFINE x == Failed("shutdown_response", a)
  <1>1. x \in Message /\ Silent(x)
    BY MsgType DEF Silent, ToActor, ToSupervisor, OnceKinds
  <1> HIDE DEF x
  <1>2. fault = "none"
    BY DEF ShutdownTimeout
  <1>3. Grows(queue, queue', {})
    BY <1>1, <1>2, Before, Appended DEF ShutdownTimeout, x
  <1>4. TypeOK'
    BY <1>3 DEF Inv, TypeOK, ShutdownTimeout, Grows
  <1>5. QED
    BY <1>2, <1>3, <1>4, Before, Quiet DEF ShutdownTimeout

\* Where an action shows what it does to the stages, and to the messages that
\* speak of them.
LEMMA Moved ==
    ASSUME Inv,
           NEW q, Once(q), Range(q) \subseteq Range(queue),
           NEW S, Grows(q, queue', S),
           \A x \in Range(q), y \in S : y.kind \in OnceKinds => ~Same(x, y),
           Advances,
           \A x \in S : Confirms(x)',
           \A x \in Range(q) \cup S : Staged(x)',
           Stages',
           TypeOK'
    PROVE  Inv'
  BY ConfirmsKept, OrderlyKept DEF Inv

\* An actor that is INITIALIZING goes on, while its supervisor may forget
\* actors that are SHUT_DOWN.  r is q with silent messages behind it.
LEMMA ContinuedInv ==
    ASSUME Inv, fault = "none",
           NEW a \in Actors, state[a] = "INITIALIZING",
           NEW q \in Seq(Message), Once(q), Range(q) \subseteq Range(queue),
           NEW r, Grows(q, r, {}),
           NEW done, NEW kids, InitContinue(a, done, kids, r),
           managed' \subseteq managed,
           \A c \in managed \ managed' : c # Root /\ state[c] = "SHUT_DOWN",
           pending_init' \subseteq Actors, strated' \subseteq Actors,
           fault' \in Faults,
           UNCHANGED <<booted, shutdown_request, pending_shutdown, asked,
                       closing, deaf, shutdowns>>
    PROVE  Inv'
  <1>1. TypeOK /\ Stages /\ \A x \in Range(q) : Staged(x)
    BY DEF Inv, Orderly
  <1>2. r \in Seq(Message)
    BY DEF Grows
  <1>3. /\ poll' \in [Actors -> Plugins]
        /\ holding' \subseteq Holders
        /\ holding' \subseteq holding \cup {a}
        /\ init_request' \subseteq Actors
        /\ \/ /\ state' = [state EXCEPT ![a] = "INITIALIZED"]
              /\ Grows(r, queue', {Msg("init_reply", a)})
           \/ UNCHANGED state /\ Grows(r, queue', {})
    BY <1>1, <1>2, Continued
  <1>4. PICK S \in SUBSET {Msg("init_reply", a)} :
            /\ Grows(q, queue', S)
            /\ S # {} => state'[a] = "INITIALIZED"
    <2>1. state \in [Actors -> States]
      BY <1>1 DEF TypeOK
    <2>2. CASE UNCHANGED state /\ Grows(r, queue', {})
      BY <2>2, Silently
    <2>3. CASE state' = [state EXCEPT ![a] = "INITIALIZED"]
               /\ Grows(r, queue', {Msg("init_reply", a)})
      BY <2>1, <2>3, Silently
    <2>4. QED
      BY <1>3, <2>2, <2>3
  <1>5. /\ state' \in [Actors -> States]
        /\ \A b \in Actors \ {a} : state'[b] = state[b]
        /\ state'[a] \in {"INITIALIZING", "INITIALIZED"}
    BY <1>1, <1>3 DEF TypeOK, States
  <1>6. TypeOK'
    BY <1>1, <1>3, <1>4, <1>5 DEF TypeOK, Grows
  <1>7. Advances
    BY <1>5 DEF Advances
  <1>8. Stages'
    <2>1. Root \notin shutdown_request'
      BY <1>1 DEF Stages
    <2> SUFFICES ASSUME NEW b \in Actors PROVE StageOf(b)'
      BY <2>1 DEF Stages
    <2>2. Kids(b)' \subseteq Kids(b)
      BY DEF Kids
    <2>3. CASE b = a
      BY <1>1, <1>5, <2>3 DEF Stages, StageOf, Live
    <2>4. CASE b # a
      BY <1>1, <1>3, <1>5, <2>2, <2>4 DEF Stages, StageOf
    <2>5. QED
      BY <2>3, <2>4
  <1>9. \A x \in S : Confirms(x)' /\ Staged(x)' /\ x.kind \notin OnceKinds
    BY <1>4, MsgType DEF Confirms, Staged, OnceKinds, ToActor, ToSupervisor
  <1>10. \A x \in Range(q) : Staged(x)'
    <2> SUFFICES ASSUME NEW x \in Range(q) PROVE Staged(x)'
      OBVIOUS
    <2>1. x.actor \in Actors
      BY Ranges
    <2>2. CASE x.actor = a
      BY <1>1, <1>5, <2>2 DEF Staged, Live
    <2>3. CASE x.actor # a
      BY <1>1, <1>5, <2>1, <2>3 DEF Staged
    <2>4. QED
      BY <2>2, <2>3
  <1>11. QED
    BY <1>4, <1>6, <1>7, <1>8, <1>9, <1>10, Moved

LEMMA LinkDoneInv ==
    ASSUME Inv, NEW a \in Actors, LinkDone(a) PROVE Inv'
  <1>1. fault = "none" /\ state[a] = "INITIALIZING"
    BY DEF LinkDone
  <1>2. Grows(queue, queue, {})
    BY <1>1, Before, NothingSent
  <1>3. /\ pending_init' \subseteq Actors
        /\ strated' \subseteq Actors
        /\ fault' \in Faults
    BY DEF LinkDone, Inv, TypeOK
  <1>4. QED
    BY <1>1, <1>2, <1>3, Before, ContinuedInv DEF LinkDone

LEMMA CreateInv ==
    ASSUME Inv, NEW a \in Actors, Create(a) PROVE Inv'
  <1> DEFINE x == Msg("create_actor", a)
  <1>1. x \in Message /\ Silent(x)
    BY MsgType DEF Silent, ToActor, ToSupervisor, OnceKinds
  <1> HIDE DEF x
  <1>2. fault = "none" /\ TypeOK /\ Parent[a] \in Actors
    BY TreeAssumption DEF Create, Inv
  <1>3. Stages /\ \A y \in Range(queue) : Staged(y)
    BY <1>2, Before
  <1>4. Grows(queue, queue', {})
    BY <1>1, <1>2, Before, Appended DEF Create, x
  <1>5. /\ state' \in [Actors -> States]
        /\ \A b \in Actors \ {a} : state'[b] = state[b]
        /\ state[a] = "NEW"
        /\ state'[a] = "INITIALIZING"
        /\ state[Parent[a]] \in Live
        /\ managed' = managed \cup {a}
    BY <1>2 DEF Create, TypeOK, States
  <1>6. TypeOK'
    BY <1>2, <1>4, <1>5 DEF TypeOK, Create, Grows
  <1>7. Advances
    BY <1>5 DEF Advances
  <1>8. Stages'
    <2>1. /\ Root \notin shutdown_request'
          /\ UNCHANGED <<asked, closing, deaf, holding>>
      BY <1>3 DEF Stages, Create
    <2>2. \A b \in Actors : Kids(b)' \subseteq Kids(b) \cup (IF b = Parent[a] THEN {a} ELSE {})
      BY <1>5 DEF Kids
    <2>3. Parent[a] \notin closing /\ a \notin closing
      BY <1>2, <1>3, <1>5 DEF Stages, StageOf, Live
    <2> SUFFICES ASSUME NEW b \in Actors PROVE StageOf(b)'
      BY <2>1 DEF Stages
    <2>4. CASE b = a
      BY <1>5, <2>1, <2>3, <2>4 DEF StageOf, Live
    <2>5. CASE b # a
      BY <1>3, <1>5, <2>1, <2>2, <2>3, <2>5 DEF Stages, StageOf
    <2>6. QED
      BY <2>4, <2>5
  <1>9. \A y \in Range(queue) : Staged(y)'
    <2> SUFFICES ASSUME NEW y \in Range(queue) PROVE Staged(y)'
      OBVIOUS
    <2>1. y.actor \in Actors /\ Staged(y) /\ UNCHANGED <<asked, closing, deaf>>
      BY <1>3, Ranges DEF Create
    <2>2. QED
      BY <1>5, <2>1 DEF Staged, Live
  <1>10. QED
    BY <1>2, <1>4, <1>6, <1>7, <1>8, <1>9, Before, Moved

LEMMA AcquireInv ==
    ASSUME Inv, NEW a \in Actors, Acquire(a) PROVE Inv'
  <1>1. fault = "none" /\ a \in Holders /\ state[a] = "OPERATIONAL"
    BY DEF Acquire
  <1>2. Grows(queue, queue', {}) /\ Stages /\ \A x \in Range(queue) : Staged(x)
    BY <1>1, Before, NothingSent DEF Acquire
  <1>3. TypeOK'
    BY <1>1 DEF Inv, TypeOK, Acquire
  <1>4. Advances
    BY DEF Advances, Acquire
  <1>5. Stages'
    BY <1>1, <1>2 DEF Stages, StageOf, Kids, Acquire
  <1>6. \A x \in Range(queue) : Staged(x)'
    BY <1>2 DEF Staged, Acquire
  <1>7. QED
    BY <1>1, <1>2, <1>3, <1>4, <1>5, <1>6, Before, Moved

\* An actor with resources is no supervisor and has no children, so that it
\* can close as soon as it holds none.
LEMMA ReleaseInv ==
    ASSUME Inv, NEW a \in Actors, Release(a) PROVE Inv'
  <1>1. fault = "none" /\ a \in holding /\ TypeOK
    BY DEF Release, Inv
  <1>2. Grows(queue, queue, {}) /\ Stages /\ \A x \in Range(queue) : Staged(x)
    BY <1>1, Before, NothingSent
  <1>3. CASE state[a] = "INITIALIZING" /\ a \in init_request
    <2>1. /\ pending_init' \subseteq Actors
          /\ strated' \subseteq Actors
          /\ fault' \in Faults
      BY <1>3, <1>1 DEF Release, TypeOK
    <2>2. QED
      BY <1>1, <1>2, <1>3, <2>1, Before, ContinuedInv DEF Release
  <1>4. CASE ~(state[a] = "INITIALIZING" /\ a \in init_request)
    <2> DEFINE x == Msg("unsubscription", a)
               S == {x}
    <2>1. /\ holding' = holding \ {a}
          /\ fault' \in Faults
          /\ UNCHANGED <<booted, state, poll, init_request, shutdown_request,
                         pending_init, pending_shutdown, managed, strated,
                         asked, deaf, shutdowns>>
          /\ \/ state[a] = "SHUTTING_DOWN" /\ closing' = closing \cup {a}
                /\ queue' = Append(queue, x)
             \/ UNCHANGED <<closing, queue>>
      BY <1>1, <1>4 DEF Release, Faults, TypeOK
    <2>2. /\ x \in Message
          /\ x.kind = "unsubscription"
          /\ x.actor = a
      BY MsgType DEF ToActor, ToSupervisor
    <2> HIDE DEF x
    <2>3. Advances
      BY <2>1 DEF Advances
    <2>4. a \notin closing /\ a \notin deaf
      BY <1>1, <1>2 DEF Stages, StageOf, TypeOK
    <2>5. CASE UNCHANGED <<closing, queue>>
      <3>1. TypeOK'
        BY <1>1, <2>1, <2>5 DEF TypeOK
      <3>2. Stages'
        BY <1>2, <2>1, <2>5 DEF Stages, StageOf, Kids
      <3>3. \A y \in Range(queue) : Staged(y)'
        BY <1>2, <2>1, <2>5 DEF Staged
      <3>4. QED
        BY <1>1, <1>2, <2>3, <2>5, <3>1, <3>2, <3>3, Before, Moved
    <2>6. CASE /\ state[a] = "SHUTTING_DOWN"
               /\ closing' = closing \cup {a}
               /\ queue' = Append(queue, x)
      <3>1. Grows(queue, queue', S)
        BY <1>1, <2>2, <2>6, Before, Appended
      <3>2. TypeOK'
        BY <1>1, <2>1, <2>6, <3>1 DEF TypeOK, Grows
      <3>3. Kids(a) = {}
        BY <1>1, TreeAssumption, HoldersAssumption DEF Kids, TypeOK
      <3>4. Stages'
        BY <1>2, <2>1, <2>6, <3>3 DEF Stages, StageOf, Kids
      <3>5. \A y \in Range(queue) : Staged(y)' /\ ~Same(y, x)
        BY <1>2, <2>1, <2>2, <2>4, <2>6 DEF Staged, Same
      <3>6. Confirms(x)' /\ Staged(x)'
        BY <2>1, <2>2, <2>4, <2>6 DEF Confirms, Staged
      <3>7. QED
        BY <1>1, <2>3, <3>1, <3>2, <3>4, <3>5, <3>6, Before, Moved
    <2>7. QED
      BY <2>1, <2>5, <2>6
  <1>5. QED
    BY <1>3, <1>4

---------------------------------------------------------------------------
\* The handlers.
LEMMA DropInv == ASSUME Inv, Drop PROVE Inv'
  <1>1. Delivery
    BY DEF Drop
  <1>2. Grows(rest, queue', {})
    BY <1>1, Behind, NothingSent DEF Drop
  <1>3. TypeOK'
    BY <1>2 DEF Inv, TypeOK, Drop, Grows
  <1>4. QED
    BY <1>1, <1>2, <1>3, Behind, Quiet DEF Drop

LEMMA OnCreateInv == ASSUME Inv, OnCreate PROVE Inv'
  <1> DEFINE x == Msg("init_request", m.actor)
  <1>1. Delivery /\ m.actor \in Actors
    BY Behind DEF OnCreate, Received
  <1>2. x \in Message /\ Silent(x)
    BY <1>1, MsgType DEF Silent, ToActor, ToSupervisor, OnceKinds
  <1> HIDE DEF x
  <1>3. Grows(rest, queue', {})
    BY <1>1, <1>2, Behind, Appended DEF OnCreate, x
  <1>4. TypeOK'
    BY <1>1, <1>3 DEF Inv, TypeOK, OnCreate, Grows, Faults
  <1>5. QED
    BY <1>1, <1>3, <1>4, Behind, Quiet DEF OnCreate

LEMMA OnInitRequestInv == ASSUME Inv, OnInitRequest PROVE Inv'
  <1>1. Delivery /\ m.actor \in Actors /\ fault = "none"
    BY Behind DEF OnInitRequest, Received
  <1>2. Grows(rest, rest, {})
    BY <1>1, Behind, NothingSent
  <1>3. CASE state[m.actor] = "INITIALIZING"
    <2>1. /\ pending_init' \subseteq Actors
          /\ strated' \subseteq Actors
          /\ fault' \in Faults
      BY DEF OnInitRequest, Inv, TypeOK
    <2>2. QED
      BY <1>1, <1>2, <1>3, <2>1, Behind, ContinuedInv DEF OnInitRequest
  <1>4. CASE state[m.actor] # "INITIALIZING"
    <2>1. Grows(rest, queue', {})
      BY <1>2, <1>4 DEF OnInitRequest
    <2>2. TypeOK'
      BY <1>1, <1>4, <2>1 DEF Inv, TypeOK, OnInitRequest, Grows
    <2>3. QED
      BY <1>1, <1>4, <2>1, <2>2, Behind, Quiet DEF OnInitRequest
  <1>5. QED
    BY <1>3, <1>4

LEMMA OnInitReplyInv == ASSUME Inv, OnInitReply PROVE Inv'
  <1> DEFINE x == [m EXCEPT !.kind = "init_response"]
  <1>1. /\ Delivery
        /\ m.kind = "init_reply"
        /\ m \in Message
        /\ Confirms(m)
        /\ rest \in Seq(Message)
    BY Behind DEF OnInitReply, Received, m
  <1>2. /\ x \in Message
        /\ x.kind = "init_response"
        /\ x.actor = m.actor
        /\ x.ok = m.ok
    BY <1>1 DEF Message, ToActor, ToSupervisor
  <1> HIDE DEF x
  <1>3. x.kind \notin OnceKinds /\ Confirms(x)
    BY <1>1, <1>2 DEF Confirms, OnceKinds
  <1>4. PICK S \in SUBSET {x} : Grows(rest, queue', S)
    <2>1. queue' \in {Append(rest, x), rest}
      BY DEF OnInitReply, x
    <2>2. QED
      BY <1>1, <1>2, <2>1, Appended, NothingSent
  <1>5. TypeOK'
    BY <1>4 DEF Inv, TypeOK, OnInitReply, Grows
  <1>6. QED
    BY <1>1, <1>3, <1>4, <1>5, Behind, Quiet DEF OnInitReply

LEMMA OnShutdownReplyInv == ASSUME Inv, OnShutdownReply PROVE Inv'
  <1> DEFINE x == [m EXCEPT !.kind = "shutdown_response"]
  <1>1. /\ Delivery
        /\ m.kind = "shutdown_reply"
        /\ m \in Message
        /\ Confirms(m)
        /\ rest \in Seq(Message)
    BY Behind DEF OnShutdownReply, Received, m
  <1>2. /\ x \in Message
        /\ x.kind = "shutdown_response"
        /\ x.actor = m.actor
        /\ x.ok = m.ok
    BY <1>1 DEF Message, ToActor, ToSupervisor
  <1> HIDE DEF x
  <1>3. x.kind \notin OnceKinds /\ Confirms(x)
    BY <1>1, <1>2 DEF Confirms, OnceKinds
  <1>4. PICK S \in SUBSET {x} : Grows(rest, queue', S)
    <2>1. queue' \in {Append(rest, x), rest}
      BY DEF OnShutdownReply, x
    <2>2. QED
      BY <1>1, <1>2, <2>1, Appended, NothingSent
  <1>5. TypeOK'
    BY <1>4 DEF Inv, TypeOK, OnShutdownReply, Grows
  <1>6. QED
    BY <1>1, <1>3, <1>4, <1>5, Behind, Quiet DEF OnShutdownReply

LEMMA OnInitSuccessInv == ASSUME Inv, OnInitSuccess PROVE Inv'
  <1> DEFINE x == Msg("start_actor", m.actor)
             p == Parent[m.actor]
             sent == IF Starts(m.actor) THEN Append(rest, x) ELSE rest
  <1>1. /\ Delivery
        /\ fault = "none"
        /\ m.actor \in Actors
        /\ p \in Actors
    BY Behind DEF OnInitSuccess, Received
  <1>2. x \in Message /\ Silent(x)
    BY <1>1, MsgType DEF Silent, ToActor, ToSupervisor, OnceKinds
  <1>3. Grows(rest, sent, {})
    BY <1>1, <1>2, Behind, Appended, NothingSent
  <1>4. /\ pending_init' \subseteq Actors
        /\ strated' \subseteq Actors
        /\ fault' \in Faults
    BY <1>1 DEF OnInitSuccess, Inv, TypeOK
  <1>5. CASE ManagerContinues(p, Kids(p))
    <2>1. state[p] = "INITIALIZING" /\ InitContinue(p, "child_manager", {}, sent)
      BY <1>5 DEF OnInitSuccess, ManagerContinues
    <2> HIDE DEF sent, p
    <2>2. QED
      BY <1>1, <1>3, <1>4, <2>1, Behind, ContinuedInv DEF OnInitSuccess
  <1>6. CASE ~ManagerContinues(p, Kids(p))
    <2>1. Grows(rest, queue', {}) /\ UNCHANGED <<state, poll, holding, init_request>>
      BY <1>3, <1>6 DEF OnInitSuccess
    <2>2. TypeOK'
      BY <1>4, <2>1 DEF Inv, TypeOK, OnInitSuccess, Grows
    <2>3. QED
      BY <1>1, <2>1, <2>2, Behind, Quiet DEF OnInitSuccess
  <1>7. QED
    BY <1>5, <1>6

LEMMA OnInitFailureInv == ASSUME Inv, OnInitFailure PROVE Inv'
  <1> DEFINE p == Parent[m.actor]
             x == Failed("init_reply", p)
  <1>1. /\ Delivery
        /\ m.actor \in Actors
        /\ p \in Actors
        /\ rest \in Seq(Message)
    BY Behind DEF OnInitFailure, Received
  <1>2. x \in Message /\ Silent(x)
    BY <1>1, MsgType DEF Silent, ToActor, ToSupervisor, OnceKinds
  <1>3. /\ init_request' \subseteq Actors
        /\ \/ queue' = Append(rest, x)
           \/ \E a \in Actors : queue' = rest \o DoShutdown(a)
    BY <1>1 DEF OnInitFailure, Inv, TypeOK
  <1>4. Grows(rest, queue', {})
    BY <1>1, <1>2, <1>3, Appended, TriggerSent
  <1>5. TypeOK'
    BY <1>3, <1>4 DEF Inv, TypeOK, OnInitFailure, Grows
  <1>6. QED
    BY <1>1, <1>4, <1>5, Behind, Quiet DEF OnInitFailure

\* A child that is SHUT_DOWN is removed; q is the queue behind the message
\* that makes it so.  The supervisor was waiting for it and cannot have closed
\* before, unless there is no entry to remove.
LEMMA RemoveChildInv ==
    ASSUME Inv, fault = "none",
           NEW c \in Actors, c # Root, state[c] = "SHUT_DOWN",
           NEW q \in Seq(Message), Once(q), Range(q) \subseteq Range(queue),
           RemoveChild(c, q)
    PROVE  Inv'
  <1> DEFINE p == Parent[c]
             kids == Kids(p) \ {c}
             failed == state[p] = "INITIALIZING" /\ c \notin strated
             escalates == failed /\ p \in ShutdownSelf /\ p \in init_request
             sent == q \o (IF failed /\ p \notin ShutdownSelf THEN DoShutdown(p)
                           ELSE IF escalates THEN <<Failed("init_reply", p)>>
                           ELSE <<>>)
             x == Msg("unsubscription", p)
  <1>1. /\ TypeOK
        /\ Stages
        /\ \A y \in Range(q) : Staged(y)
        /\ p \in Actors
        /\ p \in Supervisors
        /\ Kids(p)' = kids
    BY TreeAssumption DEF Inv, Orderly, RemoveChild, Kids
  <1>2. Grows(q, sent, {})
    <2> DEFINE y == Failed("init_reply", p)
    <2>1. y \in Message /\ Silent(y)
      BY <1>1, MsgType DEF Silent, ToActor, ToSupervisor, OnceKinds
    <2>2. q \o <<y>> = Append(q, y) /\ q \o <<>> = q
      BY <2>1
    <2>3. sent \in {q \o DoShutdown(p), q \o <<y>>, q \o <<>>}
      OBVIOUS
    <2>4. QED
      BY <1>1, <2>1, <2>2, <2>3, Appended, NothingSent, TriggerSent
  <1>3. /\ managed' = managed \ {c}
        /\ pending_init' \subseteq Actors
        /\ strated' \subseteq Actors
        /\ fault' \in Faults
        /\ fault' = "none" => c \in managed
        /\ UNCHANGED <<booted, shutdown_request, pending_shutdown, strated,
                       asked, deaf, shutdowns>>
    BY <1>1 DEF RemoveChild, TypeOK, Faults, Cancelled
  <1>4. CASE ManagerContinues(p, kids) /\ ~escalates
    <2>1. /\ state[p] = "INITIALIZING"
          /\ InitContinue(p, "child_manager", {}, sent)
          /\ UNCHANGED closing
      BY <1>4 DEF RemoveChild, ManagerContinues
    <2> HIDE DEF sent, p
    <2>2. QED
      BY <1>1, <1>2, <1>3, <2>1, ContinuedInv
  <1>5. CASE ~(ManagerContinues(p, kids) /\ ~escalates)
    <2>1. /\ UNCHANGED <<state, poll, holding>>
          /\ init_request' \subseteq init_request
          /\ \/ /\ state[p] = "SHUTTING_DOWN" /\ kids = {}
                /\ closing' = closing \cup {p}
                /\ queue' = Append(sent, x)
             \/ queue' = sent /\ UNCHANGED closing
      BY <1>5 DEF RemoveChild
    <2>2. /\ x \in Message
          /\ x.kind = "unsubscription"
          /\ x.actor = p
      BY <1>1, MsgType DEF ToActor, ToSupervisor
    <2>3. sent \in Seq(Message)
      BY <1>2 DEF Grows
    <2> HIDE DEF sent, p, x, kids
    <2>4. Advances
      BY <2>1 DEF Advances
    <2>5. CASE queue' = sent /\ UNCHANGED closing
      <3>1. TypeOK'
        BY <1>1, <1>3, <2>1, <2>3, <2>5 DEF TypeOK
      <3>2. Stages'
        BY <1>1, <1>3, <2>1, <2>5 DEF Stages, StageOf, Kids
      <3>3. \A y \in Range(q) : Staged(y)'
        BY <1>1, <1>3, <2>1, <2>5 DEF Staged
      <3>4. QED
        BY <1>2, <2>4, <2>5, <3>1, <3>2, <3>3, Moved
    <2>6. CASE /\ state[p] = "SHUTTING_DOWN" /\ kids = {}
               /\ closing' = closing \cup {p}
               /\ queue' = Append(sent, x)
      <3>1. Grows(q, queue', {x})
        BY <1>2, <2>2, <2>3, <2>6, Appended, Silently
      <3>2. TypeOK'
        BY <1>1, <1>3, <2>1, <2>6, <3>1 DEF TypeOK, Grows
      <3>3. \A y \in {x} : Confirms(y)'
        BY <2>2 DEF Confirms
      <3>4. (\A y \in Range(queue) : Confirms(y))'
        BY <2>4, <3>1, <3>3, ConfirmsKept
      <3>5. ASSUME c \in managed PROVE Orderly'
        <4>1. c \in Kids(p)
          BY <1>1, <3>5 DEF Kids, p
        <4>2. p \notin closing /\ p \notin deaf
          BY <1>1, <4>1 DEF Stages, StageOf, TypeOK
        <4>3. p \notin holding
          BY <1>1, HoldersAssumption DEF TypeOK
        <4>4. Stages'
          BY <1>1, <1>3, <2>1, <2>6, <4>3 DEF Stages, StageOf, Kids
        <4>5. \A y \in Range(q) : Staged(y)' /\ ~Same(y, x)
          BY <1>1, <1>3, <2>1, <2>2, <2>6, <4>2 DEF Staged, Same
        <4>6. \A y \in {x} : Staged(y)'
          BY <1>3, <2>2, <2>6, <4>2 DEF Staged
        <4>7. QED
          BY <3>1, <4>4, <4>5, <4>6, OrderlyKept
      <3>6. QED
        BY <1>3, <3>2, <3>4, <3>5 DEF Inv
    <2>7. QED
      BY <2>1, <2>5, <2>6
  <1>6. QED
    BY <1>4, <1>5

LEMMA OnForgetInv == ASSUME Inv, OnForget PROVE Inv'
  <1>1. /\ Delivery
        /\ m.kind = "forget"
        /\ RemoveChild(m.actor, rest)
    BY DEF OnForget, Received, m
  <1>2. m.actor # Root /\ state[m.actor] = "SHUT_DOWN"
    BY <1>1, Behind DEF Confirms
  <1>3. QED
    BY <1>1, <1>2, Behind, RemoveChildInv

\* With an own entry kept for imaginary addresses the child is removed later.
LEMMA OnShutdownResponseInv == ASSUME Inv, OnShutdownResponse PROVE Inv'
  <1> DEFINE x == Msg("forget", m.actor)
  <1>1. /\ Delivery
        /\ m.kind = "shutdown_response"
        /\ m.actor \in Actors
        /\ fault = "none"
        /\ Confirms(m)
        /\ rest \in Seq(Message)
    BY Behind DEF OnShutdownResponse, Received, m
  <1>2. CASE ~m.ok
    <2>1. /\ Grows(rest, queue', {})
          /\ fault' \in Faults
          /\ UNCHANGED <<booted, state, poll, holding, init_request,
                         shutdown_request, pending_init, pending_shutdown,
                         managed, strated, asked, closing, deaf, shutdowns>>
      BY <1>1, <1>2, NothingSent DEF OnShutdownResponse, Faults
    <2>2. TypeOK'
      BY <2>1 DEF Inv, TypeOK, Grows
    <2>3. QED
      BY <1>1, <2>1, <2>2, Behind, Quiet
  <1>3. CASE m.ok /\ Mapped(m.actor)
    <2>1. x \in Message /\ x.kind = "forget" /\ x.actor = m.actor /\ x.ok
      BY <1>1, MsgType DEF ToActor, ToSupervisor
    <2> HIDE DEF x
    <2>2. x.kind \notin OnceKinds /\ Confirms(x)
      BY <1>1, <1>3, <2>1 DEF Confirms, OnceKinds
    <2>3. Grows(rest, queue', {x}) /\ fault' \in Faults
      BY <1>1, <1>3, <2>1, Appended DEF OnShutdownResponse, Faults, x
    <2>4. TypeOK'
      BY <1>3, <2>3 DEF Inv, TypeOK, OnShutdownResponse, Grows
    <2>5. QED
      BY <1>1, <1>3, <2>2, <2>3, <2>4, Behind, Quiet DEF OnShutdownResponse
  <1>4. CASE m.ok /\ ~Mapped(m.actor)
    <2>1. RemoveChild(m.actor, rest)
      BY <1>4 DEF OnShutdownResponse
    <2>2. m.actor # Root /\ state[m.actor] = "SHUT_DOWN"
      BY <1>1, <1>4 DEF Confirms
    <2>3. QED
      BY <1>1, <2>1, <2>2, Behind, RemoveChildInv
  <1>5. QED
    BY <1>2, <1>3, <1>4

LEMMA OnSubscriptionInv == ASSUME Inv, OnSubscription PROVE Inv'
  <1>1. Delivery /\ m.actor \in Actors /\ fault = "none"
    BY Behind DEF OnSubscription, Received
  <1>2. Grows(rest, rest, {})
    BY <1>1, Behind, NothingSent
  <1>3. CASE state[m.actor] = "INITIALIZING" /\ m.actor \in init_request
    <2>1. /\ pending_init' \subseteq Actors
          /\ strated' \subseteq Actors
          /\ fault' \in Faults
      BY <1>3 DEF OnSubscription, Inv, TypeOK
    <2>2. QED
      BY <1>1, <1>2, <1>3, <2>1, Behind, ContinuedInv DEF OnSubscription
  <1>4. CASE ~(state[m.actor] = "INITIALIZING" /\ m.actor \in init_request)
    <2>1. /\ Grows(rest, queue', {})
          /\ fault' \in Faults
          /\ UNCHANGED <<state, poll, holding, init_request>>
      BY <1>2, <1>4 DEF OnSubscription, Faults
    <2>2. TypeOK'
      BY <2>1 DEF Inv, TypeOK, OnSubscription, Grows
    <2>3. QED
      BY <1>1, <2>1, <2>2, Behind, Quiet DEF OnSubscription
  <1>5. QED
    BY <1>3, <1>4

LEMMA OnStartInv == ASSUME Inv, OnStart PROVE Inv'
  <1> DEFINE a == m.actor
             kids == IF a \in SyncStart THEN Kids(a) ELSE {}
  <1>1. /\ Delivery
        /\ a \in Actors
        /\ fault = "none"
        /\ TypeOK
        /\ rest \in Seq(Message)
        /\ Stages
        /\ \A x \in Range(rest) : Staged(x)
        /\ Range(rest) \subseteq Range(queue)
    BY Behind DEF OnStart, Received, Inv
  <1>2. CASE state[a] = "INITIALIZED"
    <2>1. kids \in SUBSET Actors
      BY <1>1 DEF Kids, TypeOK
    <2>2. Grows(rest, queue', {})
      <3>1. PICK s \in ToEach("start_actor", kids) : queue' = rest \o s
        BY <1>2 DEF OnStart
      <3> HIDE DEF kids
      <3>2. QED
        BY <1>1, <2>1, <3>1, AllSent DEF ToActor
    <2>3. /\ state' \in [Actors -> States]
          /\ \A b \in Actors \ {a} : state'[b] = state[b]
          /\ state'[a] = "OPERATIONAL"
          /\ strated' \subseteq Actors
      BY <1>1, <1>2, <2>1 DEF OnStart, TypeOK, States
    <2> HIDE DEF a, kids
    <2>4. TypeOK'
      BY <1>1, <2>2, <2>3 DEF TypeOK, OnStart, Grows
    <2>5. Advances
      BY <1>2, <2>3 DEF Advances
    <2>6. Stages'
      <3>1. /\ Root \notin shutdown_request'
            /\ UNCHANGED <<asked, closing, deaf, holding, managed>>
        BY <1>1 DEF Stages, OnStart
      <3> SUFFICES ASSUME NEW b \in Actors PROVE StageOf(b)'
        BY <3>1 DEF Stages
      <3>2. CASE b = a
        BY <1>1, <1>2, <2>3, <3>1, <3>2 DEF Stages, StageOf, Kids, Live
      <3>3. CASE b # a
        BY <1>1, <2>3, <3>1, <3>3 DEF Stages, StageOf, Kids
      <3>4. QED
        BY <3>2, <3>3
    <2>7. \A x \in Range(rest) : Staged(x)'
      <3> SUFFICES ASSUME NEW x \in Range(rest) PROVE Staged(x)'
        OBVIOUS
      <3>1. x.actor \in Actors /\ Staged(x) /\ UNCHANGED <<asked, closing, deaf>>
        BY <1>1, Ranges DEF OnStart
      <3>2. QED
        BY <1>2, <2>3, <3>1 DEF Staged, Live
    <2>8. QED
      BY <1>1, <2>2, <2>4, <2>5, <2>6, <2>7, Behind, Moved
  <1>3. CASE state[a] # "INITIALIZED"
    <2>1. Grows(rest, queue', {}) /\ UNCHANGED <<state, strated>>
      BY <1>1, <1>3, NothingSent DEF OnStart
    <2>2. TypeOK'
      BY <1>1, <2>1 DEF TypeOK, OnStart, Grows
    <2>3. QED
      BY <1>1, <2>1, <2>2, Behind, Quiet DEF OnStart
  <1>4. QED
    BY <1>2, <1>3

\* An actor begins to shut down, asked by its supervisor or, as the root, by
\* itself.  Its children that were not asked before are at work.
LEMMA ShutdownStartInv ==
    ASSUME Inv, fault = "none",
           NEW a \in Actors, state[a] \in Live,
           NEW own \in SUBSET {Root}, a \in asked \cup own, Root \in own => a = Root,
           NEW q \in Seq(Message), Once(q), Range(q) \subseteq Range(queue),
           \A x \in Range(q) : x.kind = "shutdown_request" => x.actor # a,
           ShutdownStart(a, own, q),
           shutdown_request' \subseteq Actors \ {Root},
           fault' \in Faults,
           UNCHANGED <<booted, poll, holding, init_request, managed, strated,
                       deaf, shutdowns>>
    PROVE  Inv'
  <1> DEFINE ask == Kids(a) \ asked
             x == Msg("unsubscription", a)
             T == {Msg("shutdown_request", c) : c \in ask}
  <1>1. /\ TypeOK
        /\ Stages
        /\ \A y \in Range(q) : Staged(y) /\ y.actor \in Actors
    BY Ranges DEF Inv, Orderly
  <1>2. ask \in SUBSET Actors /\ own \subseteq Actors
    BY <1>1, TreeAssumption DEF Kids, TypeOK
  <1>3. \A c \in ask : c # a /\ c # Root /\ c \notin asked /\ state[c] \in Live
    BY <1>1, <1>2, TreeAssumption DEF Kids, Stages, StageOf
  <1>4. /\ state' \in [Actors -> States]
        /\ \A b \in Actors \ {a} : state'[b] = state[b]
        /\ state'[a] = "SHUTTING_DOWN"
        /\ asked' = asked \cup ask \cup own
        /\ pending_init' \subseteq Actors
        /\ pending_shutdown' \subseteq Actors
    BY <1>1, <1>2 DEF ShutdownStart, TypeOK, States, Cancelled
  <1>5. a \notin closing /\ a \notin deaf
    BY <1>1 DEF Stages, StageOf, TypeOK, Live
  <1>6. PICK S :
            /\ Grows(q, queue', S)
            /\ \/ /\ S = {x}
                  /\ Kids(a) = {} /\ a \notin holding
                  /\ closing' = closing \cup {a}
               \/ S = T /\ UNCHANGED closing
    <2>1. CASE Kids(a) = {} /\ a \notin holding
      <3>1. x \in Message
        BY MsgType DEF ToActor
      <3> HIDE DEF x
      <3>2. queue' = Append(q, x) /\ closing' = closing \cup {a}
        BY <2>1 DEF ShutdownStart, x
      <3>3. QED
        BY <2>1, <3>1, <3>2, Appended
    <2>2. CASE ~(Kids(a) = {} /\ a \notin holding)
      <3>1. PICK s \in ToEach("shutdown_request", ask) : queue' = q \o s
        BY <2>2 DEF ShutdownStart
      <3>2. UNCHANGED closing
        BY <2>2 DEF ShutdownStart
      <3> HIDE DEF ask
      <3>3. Grows(q, queue', T)
        BY <1>2, <3>1, AllSent DEF ToActor
      <3>4. QED
        BY <3>2, <3>3
    <2>3. QED
      BY <2>1, <2>2
  <1>7. /\ x.kind = "unsubscription" /\ x.actor = a
        /\ \A y \in T : y.kind = "shutdown_request" /\ y.actor \in ask
    BY <1>2, MsgType DEF ToActor
  <1> HIDE DEF ask, x, T
  <1>8. TypeOK'
    <2>1. asked' \subseteq Actors /\ deaf' \subseteq closing' /\ closing' \subseteq Actors
      BY <1>1, <1>2, <1>4, <1>6 DEF TypeOK
    <2>2. QED
      BY <1>1, <1>4, <1>6, <2>1 DEF TypeOK, Grows
  <1>9. Advances
    BY <1>4 DEF Advances, Live
  <1>10. Stages'
    <2> SUFFICES ASSUME NEW b \in Actors PROVE StageOf(b)'
      BY DEF Stages
    <2>1. CASE b = a
      BY <1>1, <1>4, <1>5, <1>6, <2>1 DEF StageOf, Kids, Stages, Live
    <2>2. CASE b # a
      BY <1>1, <1>4, <1>6, <2>2 DEF StageOf, Kids, Stages
    <2>3. QED
      BY <2>1, <2>2
  <1>11. \A y \in S : Confirms(y)' /\ Staged(y)'
    <2>1. \A c \in ask : c \in asked' \ {Root} /\ state'[c] \in Live
      BY <1>2, <1>3, <1>4
    <2>2. ASSUME NEW y \in S PROVE Confirms(y)' /\ Staged(y)'
      BY <1>5, <1>6, <1>7, <2>1, <2>2 DEF Confirms, Staged
    <2>3. QED
      BY <2>2
  <1>12. \A y \in Range(q), z \in S : ~Same(y, z)
    BY <1>1, <1>3, <1>5, <1>6, <1>7 DEF Same, Staged
  <1>13. \A y \in Range(q) : Staged(y)'
    BY <1>1, <1>4, <1>6 DEF Staged, Live
  <1>14. QED
    BY <1>6, <1>8, <1>9, <1>10, <1>11, <1>12, <1>13, Moved

LEMMA OnShutdownRequestInv == ASSUME Inv, OnShutdownRequest PROVE Inv'
  <1>1. /\ Delivery
        /\ m.kind = "shutdown_request"
        /\ ShutdownStart(m.actor, {}, rest)
        /\ shutdown_request' = shutdown_request \cup {m.actor}
        /\ UNCHANGED <<booted, poll, holding, init_request, managed, strated,
                       deaf, shutdowns, fault>>
    BY DEF OnShutdownRequest, Received, m
  <1>2. /\ m.actor \in asked \ {Root} /\ state[m.actor] \in Live
        /\ \A x \in Range(rest) : x.kind = "shutdown_request" => x.actor # m.actor
    BY <1>1, Behind DEF Staged, OnceKinds, Same
  <1>3. shutdown_request' \subseteq Actors \ {Root} /\ fault' \in Faults
    BY <1>1, <1>2, Behind DEF Inv, TypeOK, Stages
  <1>4. QED
    BY <1>1, <1>2, <1>3, Behind, ShutdownStartInv

LEMMA OnUnsubscriptionInv == ASSUME Inv, OnUnsubscription PROVE Inv'
  <1> DEFINE a == m.actor
             x == Msg("deactivation", a)
  <1>1. /\ Delivery
        /\ a \in Actors
        /\ fault = "none"
        /\ TypeOK
        /\ rest \in Seq(Message)
        /\ Stages
        /\ \A y \in Range(rest) : Staged(y) /\ y.actor \in Actors
    BY Behind, Ranges DEF OnUnsubscription, Received, Inv
  <1>2. /\ a \in closing \ deaf
        /\ state[a] = "SHUTTING_DOWN"
        /\ \A y \in Range(rest) : y.kind = "unsubscription" => y.actor # a
    BY <1>1, Behind DEF OnUnsubscription, Received, m, Staged, OnceKinds, Same,
                        Stages, StageOf
  <1>3. /\ deaf' = deaf \cup {a}
        /\ queue' = Append(rest, x)
        /\ managed' \subseteq managed
        /\ managed \subseteq managed' \cup {Root}
        /\ pending_init' \subseteq Actors
        /\ UNCHANGED <<booted, state, poll, holding, init_request,
                       shutdown_request, pending_shutdown, strated, asked,
                       closing, shutdowns, fault>>
    BY <1>1 DEF OnUnsubscription, TypeOK, Cancelled
  <1> HIDE DEF a
  <1>4. x \in Message /\ x.kind = "deactivation" /\ x.actor = a
    <2>1. a \in Actors
      BY <1>1
    <2>2. QED
      BY <2>1, MsgType DEF ToActor
  <1> HIDE DEF x
  <1>5. Grows(rest, queue', {x})
    BY <1>1, <1>3, <1>4, Appended
  <1>6. TypeOK'
    BY <1>1, <1>2, <1>3, <1>5 DEF TypeOK, Grows
  <1>7. Advances
    BY <1>3 DEF Advances
  <1>8. Stages'
    BY <1>1, <1>2, <1>3 DEF Stages, StageOf, Kids
  <1>9. \A y \in Range(rest) : Staged(y)' /\ ~Same(y, x)
    <2>1. /\ UNCHANGED <<state, asked, closing>>
          /\ deaf' = deaf \cup {a}
      BY <1>3
    <2>2. QED
      BY <1>1, <1>2, <1>4, <2>1 DEF Staged, Same
  <1>10. \A y \in {x} : Confirms(y)' /\ Staged(y)'
    <2>1. a \in deaf' /\ state'[a] = "SHUTTING_DOWN"
      BY <1>2, <1>3
    <2>2. QED
      BY <1>4, <2>1 DEF Confirms, Staged
  <1>11. QED
    BY <1>1, <1>5, <1>6, <1>7, <1>8, <1>9, <1>10, Behind, Moved

\* Who asked for the shutdown hears of it, while no one asks the root.
LEMMA OnDeactivationInv == ASSUME Inv, OnDeactivation PROVE Inv'
  <1> DEFINE a == m.actor
             x == Msg("shutdown_reply", a)
  <1>1. /\ Delivery
        /\ a \in Actors
        /\ fault = "none"
        /\ TypeOK
        /\ rest \in Seq(Message)
        /\ Stages
        /\ \A y \in Range(rest) : Staged(y) /\ y.actor \in Actors
    BY Behind, Ranges DEF OnDeactivation, Received, Inv
  <1>2. /\ a \in deaf
        /\ state[a] = "SHUTTING_DOWN"
        /\ \A y \in Range(rest) : y.kind = "deactivation" => y.actor # a
    BY <1>1, Behind DEF OnDeactivation, Received, m, Staged, OnceKinds, Same
  <1>3. /\ state' \in [Actors -> States]
        /\ \A b \in Actors \ {a} : state'[b] = state[b]
        /\ state'[a] = "SHUT_DOWN"
        /\ shutdown_request' = shutdown_request \ {a}
        /\ pending_init' \subseteq Actors
        /\ pending_shutdown' \subseteq Actors
        /\ \/ a \in shutdown_request /\ queue' = Append(rest, x)
           \/ queue' = rest
        /\ UNCHANGED <<booted, poll, holding, init_request, managed, strated,
                       asked, closing, deaf, shutdowns, fault>>
    BY <1>1 DEF OnDeactivation, TypeOK, States
  <1> HIDE DEF a
  <1>4. x \in Message /\ x.kind = "shutdown_reply" /\ x.actor = a
    <2>1. a \in Actors
      BY <1>1
    <2>2. QED
      BY <2>1, MsgType DEF ToActor, ToSupervisor
  <1> HIDE DEF x
  <1>5. PICK S \in SUBSET {x} :
            /\ Grows(rest, queue', S)
            /\ S # {} => a # Root
    BY <1>1, <1>3, <1>4, Appended, NothingSent DEF Stages
  <1>6. TypeOK'
    BY <1>1, <1>3, <1>5 DEF TypeOK, Grows
  <1>7. Advances
    BY <1>3 DEF Advances
  <1>8. Stages'
    <2>1. Root \notin shutdown_request'
      BY <1>1, <1>3 DEF Stages
    <2> SUFFICES ASSUME NEW b \in Actors PROVE StageOf(b)'
      BY <2>1 DEF Stages
    <2>2. CASE b = a
      BY <1>1, <1>2, <1>3, <2>2 DEF Stages, StageOf, Kids, Live
    <2>3. CASE b # a
      BY <1>1, <1>3, <2>3 DEF Stages, StageOf, Kids
    <2>4. QED
      BY <2>2, <2>3
  <1>9. \A y \in Range(rest) : Staged(y)'
    BY <1>1, <1>2, <1>3 DEF Staged, Live
  <1>10. \A y \in S : Confirms(y)' /\ Staged(y)' /\ y.kind \notin OnceKinds
    BY <1>3, <1>4, <1>5 DEF Confirms, Staged, OnceKinds
  <1>11. QED
    BY <1>1, <1>5, <1>6, <1>7, <1>8, <1>9, <1>10, Behind, Moved

LEMMA OnShutdownTriggerInv == ASSUME Inv, OnShutdownTrigger PROVE Inv'
  <1> DEFINE a == m.actor
             x == Msg("shutdown_request", a)
  <1>1. /\ Delivery
        /\ a \in Actors
        /\ fault = "none"
        /\ TypeOK
        /\ rest \in Seq(Message)
        /\ Stages
        /\ \A y \in Range(rest) : Staged(y) /\ y.actor \in Actors
    BY Behind, Ranges DEF OnShutdownTrigger, Received, Inv
  <1>2. /\ fault' \in Faults
        /\ UNCHANGED <<booted, poll, holding, init_request, shutdown_request,
                       managed, strated, deaf, shutdowns>>
    BY <1>1 DEF OnShutdownTrigger, Faults
  <1>3. CASE a \in asked \/ a \notin managed
    <2>1. /\ Grows(rest, queue', {})
          /\ UNCHANGED <<state, asked, pending_init, pending_shutdown, closing>>
      BY <1>1, <1>3, NothingSent DEF OnShutdownTrigger
    <2>2. TypeOK'
      BY <1>1, <1>2, <2>1 DEF TypeOK, Grows
    <2>3. QED
      BY <1>1, <1>2, <2>1, <2>2, Behind, Quiet
  <1>4. CASE a \in managed \ asked /\ a = Root
    <2>1. ShutdownStart(Root, {Root}, rest)
      BY <1>4 DEF OnShutdownTrigger
    <2>2. state[Root] \in Live
      BY <1>1, <1>4 DEF Stages, StageOf
    <2>3. \A y \in Range(rest) : y.kind = "shutdown_request" => y.actor # Root
      BY <1>1 DEF Staged
    <2>4. shutdown_request' \subseteq Actors \ {Root}
      BY <1>1, <1>2 DEF TypeOK, Stages
    <2>5. QED
      BY <1>1, <1>2, <1>4, <2>1, <2>2, <2>3, <2>4, Behind, ShutdownStartInv
  <1>5. CASE a \in managed \ asked /\ a # Root
    <2>1. /\ asked' = asked \cup {a}
          /\ pending_init' \subseteq Actors
          /\ pending_shutdown' \subseteq Actors
          /\ queue' = Append(rest, x)
          /\ UNCHANGED <<state, closing>>
      BY <1>1, <1>5 DEF OnShutdownTrigger, TypeOK, Cancelled
    <2> HIDE DEF a
    <2>2. x \in Message /\ x.kind = "shutdown_request" /\ x.actor = a
      <3>1. a \in Actors
        BY <1>1
      <3>2. QED
        BY <3>1, MsgType DEF ToActor, ToSupervisor
    <2> HIDE DEF x
    <2>3. Grows(rest, queue', {x})
      BY <1>1, <2>1, <2>2, Appended
    <2>4. TypeOK'
      BY <1>1, <1>2, <2>1, <2>3 DEF TypeOK, Grows
    <2>5. Advances
      BY <2>1 DEF Advances
    <2>6. Stages'
      BY <1>1, <1>2, <2>1 DEF Stages, StageOf, Kids
    <2>7. \A y \in Range(rest) : Staged(y)' /\ ~Same(y, x)
      BY <1>1, <1>2, <1>5, <2>1, <2>2 DEF Staged, Same
    <2>8. \A y \in {x} : Confirms(y)' /\ Staged(y)'
      <3>1. state'[a] \in Live /\ a \in asked' \ {Root}
        BY <1>1, <1>5, <2>1 DEF Stages, StageOf
      <3>2. QED
        BY <2>2, <3>1 DEF Confirms, Staged
    <2>9. QED
      BY <1>1, <2>3, <2>4, <2>5, <2>6, <2>7, <2>8, Behind, Moved
  <1>6. QED
    BY <1>3, <1>4, <1>5

---------------------------------------------------------------------------
LEMMA NextInv == ASSUME Inv, [Next]_vars PROVE Inv'
  <1>1. CASE Deliver
    BY <1>1, DropInv, OnCreateInv, OnInitRequestInv, OnInitReplyInv,
       OnInitSuccessInv, OnInitFailureInv, OnShutdownTriggerInv,
       OnShutdownRequestInv, OnShutdownReplyInv, OnShutdownResponseInv,
       OnForgetInv, OnStartInv, OnSubscriptionInv, OnUnsubscriptionInv,
       OnDeactivationInv
    DEF Deliver
  <1>2. ASSUME NEW a \in Actors,
               \/ Create(a) \/ UserShutdown(a) \/ Acquire(a) \/ Release(a)
               \/ LinkDone(a) \/ LinkFails(a) \/ InitTimeout(a)
               \/ ShutdownTimeout(a)
        PROVE  Inv'
    BY <1>2, CreateInv, UserShutdownInv, AcquireInv, ReleaseInv, LinkDoneInv,
       LinkFailsInv, InitTimeoutInv, ShutdownTimeoutInv
  <1>3. CASE UNCHANGED vars
    BY <1>3 DEF vars, Inv, TypeOK, Confirms, Orderly, Stages, StageOf, Kids,
                Once, Staged
  <1>4. QED
    BY <1>1, <1>2, <1>3, BootInv DEF Next

THEOREM Invariance == Spec => []Inv
  BY InitInv, NextInv, PTL DEF Spec

\* The variables keep their types, whatever the tree and whatever user code,
\* timeouts and servers do: among them, only who gave up its subscriptions is
\* deaf, and only plain actors ever hold resources.
THEOREM Typing == Spec => []TypeOK
  <1>1. Inv => TypeOK
    BY DEF Inv
  <1>2. QED
    BY <1>1, Invariance, PTL

\* on_shutdown_confirm() and on_init() of child_manager.cpp may rely on the
\* confirmations they handle: no actor steps back from what it confirmed
\* while the message passes its two hops.
THEOREM TrueConfirmations == Spec => []ConfirmationsAreTrue
  <1>1. ASSUME Inv PROVE ConfirmationsAreTrue
    <2> SUFFICES ASSUME NEW i \in 1 .. Len(queue), queue[i].ok
                 PROVE  /\ queue[i].kind \in {"shutdown_reply", "shutdown_response"}
                             => state[queue[i].actor] = "SHUT_DOWN"
                        /\ queue[i].kind \in {"init_reply", "init_response"}
                             => state[queue[i].actor] \notin {"NEW", "INITIALIZING"}
      BY DEF ConfirmationsAreTrue
    <2>1. queue \in Seq(Message)
      BY <1>1 DEF Inv, TypeOK
    <2>2. queue[i] \in Range(queue)
      BY <2>1 DEF Range
    <2>3. Confirms(queue[i])
      BY <1>1, <2>2 DEF Inv
    <2>4. QED
      BY <2>3 DEF Confirms
  <1>2. QED
    BY <1>1, Invariance, PTL

---------------------------------------------------------------------------
\* The tree implements Lifecycle: each step moves one actor one state on, or
\* none.
Walks == [L!Next]_state

LEMMA ContinuedWalks ==
    ASSUME NEW a \in Actors, state[a] = "INITIALIZING",
           NEW done, NEW kids, NEW q, InitContinue(a, done, kids, q)
    PROVE  Walks
  <1>1. UNCHANGED state \/ state' = [state EXCEPT ![a] = "INITIALIZED"]
    BY DEF InitContinue
  <1>2. CASE state' = [state EXCEPT ![a] = "INITIALIZED"]
    BY <1>2 DEF Walks, L!Next, L!Initialize, L!Become
  <1>3. QED
    BY <1>1, <1>2 DEF Walks

LEMMA RemoveChildWalks ==
    ASSUME NEW c \in Actors, NEW q, RemoveChild(c, q)
    PROVE  Walks
  <1>1. Parent[c] \in Actors
    BY TreeAssumption
  <1>2. \/ UNCHANGED state
        \/ /\ state[Parent[c]] = "INITIALIZING"
           /\ \E r : InitContinue(Parent[c], "child_manager", {}, r)
    BY DEF RemoveChild, ManagerContinues
  <1>3. QED
    BY <1>1, <1>2, ContinuedWalks DEF Walks

LEMMA ShutdownStartWalks ==
    ASSUME NEW a \in Actors, state[a] \in Live,
           NEW own, NEW q, ShutdownStart(a, own, q)
    PROVE  Walks
  <1>1. state' = [state EXCEPT ![a] = "SHUTTING_DOWN"]
    BY DEF ShutdownStart
  <1>2. QED
    BY <1>1 DEF Walks, L!Next, L!BeginShutdown, L!Become, L!Live, Live

\* An actor that has closed has no children left in its actors_map, and those
\* that are not there are gone or never were.
LEMMA DeactivationWalks ==
    ASSUME Inv, OnDeactivation
    PROVE  Walks
  <1> DEFINE a == m.actor
  <1>1. /\ a \in Actors
        /\ a \in deaf
        /\ state[a] = "SHUTTING_DOWN"
        /\ state' = [state EXCEPT ![a] = "SHUT_DOWN"]
        /\ TypeOK
        /\ Stages
    BY Behind DEF OnDeactivation, Received, Staged, m, Inv
  <1> HIDE DEF a
  <1>2. Kids(a) = {}
    BY <1>1 DEF TypeOK, Stages, StageOf
  <1>3. \A c \in Actors \ {a} : Parent[c] = a => state[c] \in {"NEW", "SHUT_DOWN"}
    <2> SUFFICES ASSUME NEW c \in Actors, c # a, Parent[c] = a
                 PROVE  state[c] \in {"NEW", "SHUT_DOWN"}
      OBVIOUS
    <2>1. c # Root
      BY TreeAssumption
    <2>2. c \notin managed
      BY <1>2, <2>1 DEF Kids
    <2>3. QED
      BY <1>1, <2>1, <2>2 DEF Stages, StageOf
  <1>4. L!FinishShutdown(a)
    BY <1>1, <1>3 DEF L!FinishShutdown, L!Become
  <1>5. QED
    BY <1>1, <1>4 DEF Walks, L!Next

LEMMA DeliveryWalks == ASSUME Inv, Deliver PROVE Walks
  <1>1. /\ Delivery
        /\ m.actor \in Actors
        /\ Parent[m.actor] \in Actors
        /\ Staged(m)
        /\ Stages
    <2>1. Delivery
      BY DEF Deliver, Drop, Received, OnCreate, OnInitRequest, OnInitReply,
             OnInitSuccess, OnInitFailure, OnShutdownTrigger, OnShutdownRequest,
             OnShutdownReply, OnShutdownResponse, OnForget, OnStart,
             OnSubscription, OnUnsubscription, OnDeactivation
    <2>2. QED
      BY <2>1, Behind
  <1>2. ASSUME \/ Drop \/ OnCreate \/ OnInitReply \/ OnInitFailure
               \/ OnShutdownReply \/ OnUnsubscription
        PROVE  Walks
    BY <1>2 DEF Walks, Drop, OnCreate, OnInitReply, OnInitFailure,
                OnShutdownReply, OnUnsubscription
  <1>3. CASE OnInitRequest
    BY <1>1, <1>3, ContinuedWalks DEF OnInitRequest, Walks
  <1>4. CASE OnInitSuccess
    <2>1. \/ UNCHANGED state
          \/ /\ state[Parent[m.actor]] = "INITIALIZING"
             /\ \E q : InitContinue(Parent[m.actor], "child_manager", {}, q)
      BY <1>4 DEF OnInitSuccess, ManagerContinues
    <2>2. QED
      BY <1>1, <2>1, ContinuedWalks DEF Walks
  <1>5. CASE OnShutdownTrigger
    <2>1. \/ UNCHANGED state
          \/ Root \in managed \ asked /\ ShutdownStart(Root, {Root}, rest)
      BY <1>5 DEF OnShutdownTrigger
    <2>2. Root \in Actors
      BY TreeAssumption
    <2>3. Root \in managed \ asked => state[Root] \in Live
      BY <1>1, <2>2 DEF Stages, StageOf
    <2>4. QED
      BY <2>1, <2>2, <2>3, ShutdownStartWalks DEF Walks
  <1>6. CASE OnShutdownRequest
    <2>1. m.kind = "shutdown_request" /\ ShutdownStart(m.actor, {}, rest)
      BY <1>6 DEF OnShutdownRequest, Received, m
    <2>2. QED
      BY <1>1, <2>1, ShutdownStartWalks DEF Staged
  <1>7. CASE OnShutdownResponse
    <2>1. UNCHANGED state \/ RemoveChild(m.actor, rest)
      BY <1>7 DEF OnShutdownResponse
    <2>2. QED
      BY <1>1, <2>1, RemoveChildWalks DEF Walks
  <1>8. CASE OnForget
    BY <1>1, <1>8, RemoveChildWalks DEF OnForget
  <1>9. CASE OnStart
    <2>1. \/ UNCHANGED state
          \/ /\ state[m.actor] = "INITIALIZED"
             /\ state' = [state EXCEPT ![m.actor] = "OPERATIONAL"]
      BY <1>9 DEF OnStart
    <2>2. QED
      BY <1>1, <2>1 DEF Walks, L!Next, L!Start, L!Become
  <1>10. CASE OnSubscription
    BY <1>1, <1>10, ContinuedWalks DEF OnSubscription, Walks
  <1>11. CASE OnDeactivation
    BY <1>11, DeactivationWalks
  <1>12. QED
    BY <1>2, <1>3, <1>4, <1>5, <1>6, <1>7, <1>8, <1>9, <1>10, <1>11 DEF Deliver

LEMMA NextWalks == ASSUME Inv, [Next]_vars PROVE Walks
  <1>1. CASE Deliver
    BY <1>1, DeliveryWalks
  <1>2. ASSUME NEW a \in Actors, Create(a) PROVE Walks
    BY <1>2 DEF Create, Walks, L!Next, L!Create, L!Become, L!Live, Live
  <1>3. ASSUME NEW a \in Actors,
               \/ UserShutdown(a) \/ Acquire(a) \/ LinkFails(a)
               \/ InitTimeout(a) \/ ShutdownTimeout(a)
        PROVE  Walks
    BY <1>3 DEF Walks, UserShutdown, Acquire, LinkFails, InitTimeout, ShutdownTimeout
  <1>4. ASSUME NEW a \in Actors, Release(a) PROVE Walks
    BY <1>4, ContinuedWalks DEF Release, Walks
  <1>5. ASSUME NEW a \in Actors, LinkDone(a) PROVE Walks
    BY <1>5, ContinuedWalks DEF LinkDone
  <1>6. CASE Boot \/ UNCHANGED vars
    BY <1>6 DEF Walks, Boot, vars
  <1>7. QED
    BY <1>1, <1>2, <1>3, <1>4, <1>5, <1>6 DEF Next

\* docs/Design.md: states advance in one direction, an actor is created by a
\* supervisor that is not on its way out, and a supervisor is SHUT_DOWN only
\* after all it created are.
THEOREM LifecycleKept == Spec => FollowsLifecycle
  <1>1. Init => L!Init
    BY DEF Init, L!Init
  <1>2. Inv /\ [Next]_vars => [L!Next]_state
    BY NextWalks DEF Walks
  <1>3. QED
    BY <1>1, <1>2, Invariance, PTL DEF Spec, FollowsLifecycle, L!Spec

---------------------------------------------------------------------------
\* What rests on the order of the messages about an actor.


\* Messages that an actor gets, or its supervisor gets about it, while it is in
\* its supervisor's actors_map; and those that tell that it will not be for long.
EarlyKinds == {"create_actor", "init_request", "init_reply", "shutdown_trigger"}
LastKinds == {"shutdown_response", "forget"}
Late(x) ==
    \/ x.kind \in {"unsubscription", "deactivation", "forget"}
    \/ x.kind \in {"shutdown_reply", "shutdown_response"} /\ x.ok

\* y must not be in the queue behind x.
Wrong(x, y) ==
    /\ x.actor = y.actor
    /\ \/ y.kind = "create_actor"
       \/ Late(x) /\ y.kind \in EarlyKinds
       \/ x.kind \in LastKinds /\ y.kind \in LastKinds
Ordered(q) == \A i, j \in 1 .. Len(q) : i < j => ~Wrong(q[i], q[j])

\* A child that is started together with its siblings has a supervisor that was.
Led(a) ==
    a # Root /\ Parent[a] \in SyncStart =>
        state[Parent[a]] \in {"OPERATIONAL", "SHUTTING_DOWN", "SHUT_DOWN"}

Says(x) ==
    /\ state[x.actor] # "NEW"
    /\ x.kind = "create_actor" => x.actor # Root /\ state[x.actor] \in Live
    /\ x.kind \in EarlyKinds => x.actor \in managed \ deaf
    /\ x.kind \in LastKinds =>
         x.actor \in (managed \cap asked) \ (pending_shutdown \cup {Root})
    /\ x.kind = "subscription" => x.actor \in Subscribers
    /\ x.kind = "start_actor" => Led(x.actor)

\* The init request of a is with a, or on its way.
Owed(a) ==
    \/ a \in init_request
    \/ \E x \in Range(queue) : x.actor = a /\ x.kind \in {"init_request", "init_reply"}

Polled(a) ==
    /\ a \in pending_init => Owed(a)
    /\ a \in holding =>
         /\ state[a] # "NEW"
         /\ state[a] = "INITIALIZING" => a \in init_request /\ poll[a] = "resources"
    /\ poll[a] = "link_client" => a \in Linkers

Chain ==
    /\ Ordered(queue)
    /\ \A x \in Range(queue) : Says(x)
    /\ \A a \in Actors : Polled(a)
    /\ pending_shutdown \subseteq asked \ {Root}
    /\ Root \in managed <=> Root \notin deaf

\* Nobody looks for an entry that is gone; only a subscription of an actor that
\* is shut down early may find it in a state that is asserted not to be.
NothingMissing ==
    /\ fault # "no entry"
    /\ Subscribers = {} => fault # "assertion"

\* A failed assertion leaves the chain of messages broken, but not the maps.
Entries ==
    /\ pending_init \cup pending_shutdown \subseteq managed
    /\ fault = "none" => Chain
    /\ NothingMissing

Unbooted ==
    /\ fault = "none" /\ Root \in managed
    /\ init_request = {} /\ holding = {}
    /\ \A a \in Actors : state[a] \in {"NEW", "INITIALIZING"}

\* Supervisors are started before their children, and finish after them.
Around ==
    \A a \in Actors :
        /\ state[a] = "OPERATIONAL" => Led(a)
        /\ a # Root /\ state[Parent[a]] = "SHUT_DOWN" => state[a] \in {"NEW", "SHUT_DOWN"}

Tidy ==
    /\ Entries
    /\ booted \/ Unbooted
    /\ Around

---------------------------------------------------------------------------
\* The queue r is q with messages of S behind it.
Extends(q, r, S) ==
    /\ r \in Seq(Message)
    /\ Len(q) <= Len(r)
    /\ \A i \in 1 .. Len(q) : r[i] = q[i]
    /\ \A i \in 1 .. Len(r) : i \in 1 .. Len(q) \/ r[i] \in S

LEMMA ExtendsNot == ASSUME NEW q \in Seq(Message) PROVE Extends(q, q, {})
  BY DEF Extends

LEMMA ExtendsOnce ==
    ASSUME NEW q \in Seq(Message), NEW x \in Message
    PROVE  Extends(q, Append(q, x), {x}) /\ x \in Range(Append(q, x))
  <1> DEFINE r == Append(q, x)
  <1>1. /\ r \in Seq(Message) /\ Len(r) = Len(q) + 1 /\ Len(q) \in Nat
        /\ r[Len(q) + 1] = x
        /\ \A i \in 1 .. Len(q) : r[i] = q[i]
        /\ DOMAIN r = 1 .. Len(r)
    OBVIOUS
  <1> HIDE DEF r
  <1>2. x \in Range(r)
    BY <1>1 DEF Range
  <1>3. Extends(q, r, {x})
    BY <1>1 DEF Extends
  <1>4. QED
    BY <1>2, <1>3 DEF r

LEMMA ExtendsMore ==
    ASSUME NEW q, NEW r, NEW S, NEW T, S \subseteq T, Extends(q, r, S)
    PROVE  Extends(q, r, T)
  BY DEF Extends

LEMMA ExtendsThen ==
    ASSUME NEW q \in Seq(Message), NEW r, NEW t, NEW S, NEW T,
           Extends(q, r, S), Extends(r, t, T)
    PROVE  Extends(q, t, S \cup T)
  <1>1. /\ t \in Seq(Message) /\ r \in Seq(Message)
        /\ Len(q) \in Nat /\ Len(r) \in Nat /\ Len(t) \in Nat
        /\ Len(q) <= Len(r) /\ Len(r) <= Len(t)
    BY DEF Extends
  <1>2. \A i \in 1 .. Len(q) : i \in 1 .. Len(r)
    BY <1>1
  <1>3. \A i \in 1 .. Len(q) : t[i] = q[i]
    BY <1>2 DEF Extends
  <1>4. \A i \in 1 .. Len(t) : i \in 1 .. Len(q) \/ t[i] \in S \cup T
    BY DEF Extends
  <1>5. QED
    BY <1>1, <1>3, <1>4 DEF Extends

LEMMA ExtendsTrigger ==
    ASSUME NEW q \in Seq(Message), NEW a \in Actors
    PROVE  Extends(q, q \o DoShutdown(a),
                   {x \in {Msg("shutdown_trigger", a)} : state[a] \in Live})
  <1> DEFINE x == Msg("shutdown_trigger", a)
  <1>1. x \in Message
    BY MsgType DEF ToActor, ToSupervisor
  <1> HIDE DEF x
  <1>2. q \o <<>> = q /\ q \o <<x>> = Append(q, x)
    BY <1>1
  <1>3. CASE state[a] \in Live
    <2>1. q \o DoShutdown(a) = Append(q, x)
      BY <1>2, <1>3 DEF DoShutdown, x
    <2>2. Extends(q, Append(q, x), {x})
      BY <1>1, ExtendsOnce
    <2>3. {y \in {x} : state[a] \in Live} = {x}
      BY <1>3
    <2>4. QED
      BY <2>1, <2>2, <2>3 DEF x
  <1>4. CASE state[a] \notin Live
    <2>1. q \o DoShutdown(a) = q
      BY <1>2, <1>4 DEF DoShutdown
    <2>2. {y \in {x} : state[a] \in Live} = {}
      BY <1>4
    <2>3. QED
      BY <2>1, <2>2, ExtendsNot DEF x
  <1>5. QED
    BY <1>3, <1>4

LEMMA ExtendsAll ==
    ASSUME NEW q \in Seq(Message), NEW kind \in ToActor \cup ToSupervisor,
           NEW S \in SUBSET Actors, NEW s \in ToEach(kind, S)
    PROVE  Extends(q, q \o s, {Msg(kind, c) : c \in S})
  <1> DEFINE n == Cardinality(S)
             r == q \o s
  <1>1. n \in Nat
    BY TreeAssumption, FS_Subset, FS_CardinalityType
  <1> HIDE DEF n
  <1>2. PICK f \in [1 .. n -> S] : s = [i \in 1 .. n |-> Msg(kind, f[i])]
    BY DEF ToEach, SetToSeqs, n
  <1>3. s \in Seq(Message) /\ Len(s) = n
    BY <1>1, <1>2, MsgType
  <1>4. /\ r \in Seq(Message)
        /\ Len(q) \in Nat /\ Len(r) = Len(q) + n
        /\ \A i \in 1 .. Len(q) : r[i] = q[i]
        /\ \A i \in 1 .. n : r[Len(q) + i] = s[i]
    BY <1>1, <1>3
  <1> HIDE DEF r
  <1>5. ASSUME NEW i \in 1 .. Len(r), i \notin 1 .. Len(q)
        PROVE  r[i] \in {Msg(kind, c) : c \in S}
    <2>1. i - Len(q) \in 1 .. n /\ Len(q) + (i - Len(q)) = i
      BY <1>1, <1>4, <1>5
    <2>2. r[i] = Msg(kind, f[i - Len(q)]) /\ f[i - Len(q)] \in S
      BY <1>2, <1>4, <2>1
    <2>3. QED
      BY <2>2
  <1>6. QED
    BY <1>1, <1>4, <1>5 DEF Extends, r

LEMMA ExtendsRange ==
    ASSUME NEW q \in Seq(Message), NEW r, NEW S, Extends(q, r, S)
    PROVE  Range(r) \subseteq Range(q) \cup S /\ Range(q) \subseteq Range(r)
  <1>1. /\ r \in Seq(Message) /\ Len(q) \in Nat /\ Len(r) \in Nat /\ Len(q) <= Len(r)
        /\ DOMAIN q = 1 .. Len(q) /\ DOMAIN r = 1 .. Len(r)
    BY DEF Extends
  <1>2. \A i \in 1 .. Len(q) : i \in 1 .. Len(r)
    BY <1>1
  <1>3. QED
    BY <1>1, <1>2 DEF Extends, Range

---------------------------------------------------------------------------
\* The order of the queue.
LEMMA OrderedFirst ==
    ASSUME NEW q \in Seq(Message), q # <<>>, Ordered(q)
    PROVE  Ordered(Tail(q)) /\ \A x \in Range(Tail(q)) : ~Wrong(Head(q), x)
  <1> DEFINE r == Tail(q)
             h == Head(q)
  <1>1. /\ Len(q) \in Nat /\ Len(q) > 0 /\ Len(r) = Len(q) - 1
        /\ h = q[1]
        /\ \A i \in 1 .. Len(r) : r[i] = q[i + 1]
        /\ DOMAIN r = 1 .. Len(r)
    OBVIOUS
  <1> HIDE DEF r, h
  <1>2. 1 \in 1 .. Len(q) /\ \A i \in 1 .. Len(r) : i + 1 \in 1 .. Len(q) /\ 1 < i + 1
    BY <1>1
  <1>3. ASSUME NEW i \in 1 .. Len(r), NEW j \in 1 .. Len(r), i < j
        PROVE  ~Wrong(r[i], r[j])
    <2>1. i + 1 < j + 1
      BY <1>3
    <2>2. QED
      BY <1>1, <1>2, <2>1 DEF Ordered
  <1>4. ASSUME NEW x \in Range(r) PROVE ~Wrong(h, x)
    <2>1. PICK i \in 1 .. Len(r) : x = q[i + 1]
      BY <1>1 DEF Range
    <2>2. QED
      BY <1>1, <1>2, <2>1 DEF Ordered
  <1>5. QED
    BY <1>3, <1>4 DEF Ordered, r, h

LEMMA OrderedOnce ==
    ASSUME NEW q \in Seq(Message), NEW y \in Message, Ordered(q),
           \A x \in Range(q) : ~Wrong(x, y)
    PROVE  Ordered(Append(q, y))
  <1> DEFINE r == Append(q, y)
  <1>1. /\ Len(r) = Len(q) + 1 /\ Len(q) \in Nat
        /\ r[Len(q) + 1] = y
        /\ \A i \in 1 .. Len(q) : r[i] = q[i]
        /\ DOMAIN q = 1 .. Len(q)
    OBVIOUS
  <1> HIDE DEF r
  <1>2. ASSUME NEW i \in 1 .. Len(r), NEW j \in 1 .. Len(r), i < j
        PROVE  ~Wrong(r[i], r[j])
    <2>1. i \in 1 .. Len(q)
      BY <1>1, <1>2
    <2>2. CASE j \in 1 .. Len(q)
      BY <1>1, <1>2, <2>1, <2>2 DEF Ordered
    <2>3. CASE j = Len(q) + 1
      <3>1. r[j] = y /\ r[i] = q[i] /\ q[i] \in Range(q)
        BY <1>1, <2>1, <2>3 DEF Range
      <3>2. QED
        BY <3>1
    <2>4. QED
      BY <1>1, <2>2, <2>3
  <1>3. QED
    BY <1>2 DEF Ordered, r

LEMMA OrderedMore ==
    ASSUME NEW q \in Seq(Message), NEW r, NEW S, Ordered(q), Extends(q, r, S),
           \A y \in S : \A x \in Range(q) \cup S : ~Wrong(x, y)
    PROVE  Ordered(r)
  <1>1. /\ r \in Seq(Message) /\ Len(q) \in Nat /\ Len(r) \in Nat
        /\ DOMAIN q = 1 .. Len(q)
    BY DEF Extends
  <1>2. ASSUME NEW i \in 1 .. Len(r), NEW j \in 1 .. Len(r), i < j
        PROVE  ~Wrong(r[i], r[j])
    <2>1. CASE j \in 1 .. Len(q)
      <3>1. i \in 1 .. Len(q)
        BY <1>1, <1>2, <2>1
      <3>2. QED
        BY <1>2, <2>1, <3>1 DEF Ordered, Extends
    <2>2. CASE j \notin 1 .. Len(q)
      <3>1. r[j] \in S
        BY <2>2 DEF Extends
      <3>2. r[i] \in Range(q) \cup S
        BY <1>1 DEF Extends, Range
      <3>3. QED
        BY <3>1, <3>2
    <2>3. QED
      BY <2>1, <2>2
  <1>3. QED
    BY <1>2 DEF Ordered

LEMMA RangeFirst ==
    ASSUME NEW q \in Seq(Message), q # <<>>
    PROVE  Range(q) = Range(Tail(q)) \cup {Head(q)}
  <1> DEFINE r == Tail(q)
  <1>1. /\ Len(q) \in Nat /\ Len(q) > 0 /\ Len(r) = Len(q) - 1
        /\ Head(q) = q[1]
        /\ \A i \in 1 .. Len(r) : r[i] = q[i + 1]
        /\ DOMAIN r = 1 .. Len(r) /\ DOMAIN q = 1 .. Len(q)
    OBVIOUS
  <1> HIDE DEF r
  <1>2. ASSUME NEW i \in 1 .. Len(q) PROVE i = 1 \/ (q[i] = r[i - 1] /\ i - 1 \in 1 .. Len(r))
    BY <1>1
  <1>3. \A i \in 1 .. Len(r) : i + 1 \in 1 .. Len(q)
    BY <1>1
  <1>4. Range(q) \subseteq Range(r) \cup {Head(q)}
    BY <1>1, <1>2 DEF Range
  <1>5. Range(r) \cup {Head(q)} \subseteq Range(q)
    BY <1>1, <1>3 DEF Range
  <1>6. QED
    BY <1>4, <1>5 DEF r

---------------------------------------------------------------------------
\* States advance.
Onward ==
    \A a \in Actors :
        /\ state[a] # "NEW" => state'[a] # "NEW"
        /\ state[a] \in {"OPERATIONAL", "SHUTTING_DOWN", "SHUT_DOWN"} =>
             state'[a] \in {"OPERATIONAL", "SHUTTING_DOWN", "SHUT_DOWN"}

LEMMA StatesAdvance == ASSUME Inv, [Next]_vars PROVE Onward
  <1>1. state \in [Actors -> States]
    BY DEF Inv, TypeOK
  <1>2. Walks
    BY NextWalks
  <1>3. CASE UNCHANGED state
    BY <1>3 DEF Onward
  <1>4. ASSUME NEW a \in Actors,
               L!Create(a) \/ L!Initialize(a) \/ L!Start(a) \/ L!BeginShutdown(a)
                 \/ L!FinishShutdown(a)
        PROVE  Onward
    <2>1. \/ state[a] = "NEW" /\ state' = [state EXCEPT ![a] = "INITIALIZING"]
          \/ state[a] = "INITIALIZING" /\ state' = [state EXCEPT ![a] = "INITIALIZED"]
          \/ state[a] = "INITIALIZED" /\ state' = [state EXCEPT ![a] = "OPERATIONAL"]
          \/ state' = [state EXCEPT ![a] = "SHUTTING_DOWN"]
          \/ state' = [state EXCEPT ![a] = "SHUT_DOWN"]
      BY <1>4 DEF L!Create, L!Initialize, L!Start, L!BeginShutdown, L!FinishShutdown, L!Become
    <2>2. QED
      BY <1>1, <2>1 DEF Onward
  <1>5. QED
    BY <1>2, <1>3, <1>4 DEF Walks, L!Next

LEMMA LateState ==
    ASSUME Inv, fault = "none", NEW x \in Range(queue), Late(x)
    PROVE  state[x.actor] \in {"SHUTTING_DOWN", "SHUT_DOWN"}
  <1>1. Staged(x) /\ Confirms(x) /\ Stages /\ x.actor \in Actors
    BY Before, Ranges
  <1>2. x.actor \in closing => state[x.actor] \in {"SHUTTING_DOWN", "SHUT_DOWN"}
    BY <1>1 DEF Stages, StageOf
  <1>3. QED
    BY <1>1, <1>2 DEF Late, Staged, Confirms

LEMMA LiveManaged ==
    ASSUME Inv, fault = "none", Chain, NEW a \in Actors, state[a] \in Live
    PROVE  a \in managed \ deaf
  <1>1. Stages /\ StageOf(a) /\ deaf \subseteq closing
    BY Before DEF Stages, Inv, TypeOK
  <1>2. a \notin deaf
    BY <1>1 DEF StageOf, Live
  <1>3. a \in managed
    BY <1>1, <1>2 DEF StageOf, Live, Chain
  <1>4. QED
    BY <1>2, <1>3

\* Nothing early is sent about an actor that has begun to shut down.
LEMMA NewOrdered ==
    ASSUME Inv, fault = "none",
           NEW q \in Seq(Message), Range(q) \subseteq Range(queue), Ordered(q),
           NEW S, Extends(q, queue', S),
           \A y \in S :
              /\ y.kind \notin LastKinds \cup {"create_actor"}
              /\ y.kind \in EarlyKinds =>
                   /\ state[y.actor] \in Live
                   /\ \A x \in S : Late(x) => x.actor # y.actor
    PROVE  Ordered(queue')
  <1>1. ASSUME NEW y \in S, NEW x \in Range(q) \cup S PROVE ~Wrong(x, y)
    <2>1. CASE x \in Range(q)
      BY <2>1, LateState DEF Wrong, Live
    <2>2. CASE x \in S
      BY <2>2 DEF Wrong
    <2>3. QED
      BY <2>1, <2>2
  <1>2. QED
    BY <1>1, OrderedMore

LEMMA SaysKept ==
    ASSUME Onward, NEW x, x.actor \in Actors, Says(x), asked \subseteq asked',
           x.kind = "create_actor" => state'[x.actor] \in Live,
           x.kind \in EarlyKinds => x.actor \in managed' \ deaf',
           x.kind \in LastKinds => x.actor \in managed' \ pending_shutdown'
    PROVE  Says(x)'
  <1>1. Led(x.actor) => Led(x.actor)'
    BY TreeAssumption DEF Onward, Led
  <1>2. QED
    BY <1>1 DEF Says, Onward

\* A step that has nothing to do with a.
LEMMA PolledKept ==
    ASSUME NEW a \in Actors, Polled(a), Onward, poll'[a] = poll[a],
           a \in holding' => a \in holding,
           state'[a] = "INITIALIZING" => state[a] = "INITIALIZING" \/ a \notin holding,
           a \in init_request => a \in init_request',
           a \in pending_init' => a \in pending_init,
           \A x \in Range(queue) :
              x.actor = a /\ x.kind \in {"init_request", "init_reply"} => x \in Range(queue')
    PROVE  Polled(a)'
  <1>1. Owed(a) => Owed(a)'
    BY DEF Owed
  <1>2. QED
    BY <1>1 DEF Polled, Onward

\* A step in which nobody is removed from actors_map.
LEMMA Steady ==
    ASSUME Inv, Tidy, Onward, fault = "none", fault' = "none",
           NEW q \in Seq(Message), Range(q) \subseteq Range(queue),
           NEW S, Extends(q, queue', S), Ordered(queue'),
           \A y \in S : Says(y)',
           deaf' = deaf, managed \subseteq managed', Root \in managed' => Root \in managed,
           \A x \in Range(q) : x.kind = "create_actor" => state'[x.actor] \in Live,
           asked \subseteq asked',
           \A a \in pending_shutdown' \ pending_shutdown :
              a \in (managed \cap asked') \ ({Root} \cup asked),
           pending_init' \subseteq managed',
           \A a \in Actors : Polled(a)'
    PROVE  Entries'
  <1>1. Chain /\ pending_init \cup pending_shutdown \subseteq managed
    BY DEF Tidy, Entries
  <1>2. ASSUME NEW x \in Range(q) PROVE Says(x)'
    <2>1. x.actor \in Actors /\ Says(x)
      BY <1>1, Ranges DEF Chain
    <2>2. x.kind \in EarlyKinds => x.actor \in managed' \ deaf'
      BY <2>1 DEF Says
    <2>3. x.kind \in LastKinds => x.actor \in managed' \ pending_shutdown'
      BY <2>1 DEF Says
    <2>4. QED
      BY <2>1, <2>2, <2>3, SaysKept
  <1>3. \A x \in Range(queue') : Says(x)'
    BY <1>2, ExtendsRange
  <1>4. pending_shutdown' \subseteq (managed' \cap asked') \ {Root}
    BY <1>1 DEF Chain
  <1>5. Root \in managed' <=> Root \notin deaf'
    BY <1>1 DEF Chain
  <1>6. Chain'
    BY <1>3, <1>4, <1>5 DEF Chain
  <1>7. QED
    BY <1>4, <1>6 DEF Entries, NothingMissing

\* A step in which nobody begins to shut down, either.
LEMMA Mild ==
    ASSUME Inv, Tidy, Onward, fault = "none",
           UNCHANGED <<managed, deaf, asked, pending_shutdown, fault>>,
           \A a \in Actors : state[a] \in Live => state'[a] \in Live,
           NEW q \in Seq(Message), Range(q) \subseteq Range(queue), Ordered(q),
           NEW S, Extends(q, queue', S),
           \A y \in S :
              /\ y.actor \in Actors
              /\ state[y.actor] # "NEW"
              /\ y.kind \notin LastKinds \cup {"create_actor"}
              /\ y.kind \in EarlyKinds =>
                   /\ state[y.actor] \in Live
                   /\ \A x \in S : Late(x) => x.actor # y.actor
              /\ y.kind = "subscription" => y.actor \in Subscribers
              /\ y.kind = "start_actor" => Led(y.actor)',
           pending_init' \subseteq managed,
           \A a \in Actors : Polled(a)'
    PROVE  Entries'
  <1>1. Chain
    BY DEF Tidy, Entries
  <1>2. Ordered(queue')
    BY NewOrdered
  <1>3. ASSUME NEW y \in S PROVE Says(y)'
    <2>1. y.kind \in EarlyKinds => y.actor \in managed' \ deaf'
      BY <1>1, LiveManaged
    <2>2. QED
      BY <2>1 DEF Says, Onward
  <1>4. ASSUME NEW x \in Range(q), x.kind = "create_actor" PROVE state'[x.actor] \in Live
    <2>1. x.actor \in Actors /\ Says(x)
      BY <1>1, Ranges DEF Chain
    <2>2. QED
      BY <1>4, <2>1 DEF Says
  <1>5. QED
    BY <1>2, <1>3, <1>4, Steady

\* The queue before a step of user code or of the event loop.
LEMMA BeforeTidy ==
    ASSUME Inv, Tidy, fault = "none"
    PROVE  /\ queue \in Seq(Message) /\ Range(queue) \subseteq Range(queue)
           /\ Ordered(queue)
           /\ Chain /\ Stages
           /\ pending_init \subseteq managed /\ pending_shutdown \subseteq managed
           /\ \A a \in managed : a \in Actors /\ state[a] # "NEW"
           /\ \A a \in Actors : Polled(a)
  BY Before DEF Tidy, Entries, Chain, Stages, StageOf, Inv, TypeOK

\* The queue behind the message that is delivered.
LEMMA BehindTidy ==
    ASSUME Inv, Tidy, Delivery
    PROVE  /\ fault = "none"
           /\ m \in Message /\ m.actor \in Actors /\ Parent[m.actor] \in Actors
           /\ Parent[m.actor] \in Supervisors
           /\ Staged(m) /\ Confirms(m) /\ Says(m)
           /\ rest \in Seq(Message) /\ Range(rest) \subseteq Range(queue)
           /\ Range(queue) = Range(rest) \cup {m}
           /\ Ordered(rest)
           /\ \A x \in Range(rest) : ~Wrong(m, x)
  <1>1. fault = "none" /\ queue \in Seq(Message) /\ queue # <<>> /\ Ordered(queue)
    BY BeforeTidy DEF Delivery
  <1>2. Range(queue) = Range(rest) \cup {m} /\ Ordered(rest) /\ \A x \in Range(rest) : ~Wrong(m, x)
    BY <1>1, RangeFirst, OrderedFirst DEF m, rest
  <1>3. Says(m)
    BY <1>1, <1>2, BeforeTidy DEF Chain
  <1>4. QED
    BY <1>1, <1>2, <1>3, Behind

---------------------------------------------------------------------------
\* The steps before do_initialize() of the root.
LEMMA BootedKept == ASSUME Inv, Tidy, [Next]_vars PROVE booted' \/ Unbooted'
  <1> SUFFICES ASSUME ~booted' PROVE Unbooted'
    OBVIOUS
  <1>1. CASE UNCHANGED vars
    BY <1>1 DEF vars, Tidy, Unbooted
  <1>2. CASE Boot
    BY <1>2 DEF Boot
  <1>3. CASE Deliver
    <2>1. Delivery
      BY <1>3 DEF Deliver, Drop, Received, OnCreate, OnInitRequest, OnInitReply,
             OnInitSuccess, OnInitFailure, OnShutdownTrigger, OnShutdownRequest,
             OnShutdownReply, OnShutdownResponse, OnForget, OnStart,
             OnSubscription, OnUnsubscription, OnDeactivation
    <2>2. UNCHANGED booted
      BY <1>3 DEF Deliver, Drop, OnCreate, OnInitRequest, OnInitReply,
             OnInitSuccess, OnInitFailure, OnShutdownTrigger, OnShutdownRequest,
             OnShutdownReply, OnShutdownResponse, RemoveChild, OnForget, OnStart,
             OnSubscription, OnUnsubscription, OnDeactivation
    <2>3. QED
      BY <2>1, <2>2 DEF Delivery
  <1>4. ASSUME NEW a \in Actors,
               Create(a) \/ InitTimeout(a) \/ ShutdownTimeout(a)
        PROVE  Unbooted'
    <2>1. UNCHANGED <<booted, fault, init_request, holding>> /\ managed \subseteq managed'
      BY <1>4 DEF Create, InitTimeout, ShutdownTimeout
    <2>2. UNCHANGED state \/ state' = [state EXCEPT ![a] = "INITIALIZING"]
      BY <1>4 DEF Create, InitTimeout, ShutdownTimeout
    <2>3. QED
      BY <2>1, <2>2 DEF Tidy, Unbooted, Inv, TypeOK
  <1>5. ASSUME NEW a \in Actors,
               UserShutdown(a) \/ Acquire(a) \/ Release(a) \/ LinkDone(a) \/ LinkFails(a)
        PROVE  FALSE
    <2>1. UNCHANGED booted
      BY <1>5 DEF UserShutdown, Acquire, Release, LinkDone, LinkFails
    <2>2. QED
      BY <1>5, <2>1 DEF Tidy, Unbooted, UserShutdown, Acquire, Release, LinkDone, LinkFails
  <1>6. QED
    BY <1>1, <1>2, <1>3, <1>4, <1>5 DEF Next

\* A supervisor is there as long as its children are, and before some of them.
LEMMA OnStartAround == ASSUME Inv, Tidy, Onward, OnStart PROVE Around'
  <1>1. /\ m.kind = "start_actor" /\ m.actor \in Actors /\ Says(m)
        /\ state \in [Actors -> States]
    BY BehindTidy DEF OnStart, Received, m, Inv, TypeOK
  <1>2. \/ UNCHANGED state
        \/ state' = [state EXCEPT ![m.actor] = "OPERATIONAL"] /\ state[m.actor] = "INITIALIZED"
    BY DEF OnStart
  <1>3. ASSUME NEW a \in Actors, state'[a] = "OPERATIONAL" PROVE Led(a)'
    <2>1. Led(a)
      BY <1>1, <1>2, <1>3 DEF Says, Tidy, Around
    <2>2. QED
      BY <2>1, TreeAssumption DEF Onward, Led
  <1>4. ASSUME NEW a \in Actors, a # Root, state'[Parent[a]] = "SHUT_DOWN"
        PROVE  state'[a] \in {"NEW", "SHUT_DOWN"}
    <2>1. Parent[a] \in Actors
      BY TreeAssumption
    <2>2. state[Parent[a]] = "SHUT_DOWN"
      BY <1>1, <1>2, <1>4, <2>1
    <2>3. state[a] \in {"NEW", "SHUT_DOWN"}
      BY <1>4, <2>2 DEF Tidy, Around
    <2>4. QED
      BY <1>1, <1>2, <2>3
  <1>5. QED
    BY <1>3, <1>4 DEF Around

LEMMA NoneStarted ==
    ASSUME Inv, [Next]_vars, ~OnStart, NEW b \in Actors, state'[b] = "OPERATIONAL"
    PROVE  state[b] = "OPERATIONAL"
  <1> DEFINE Becomes(s) == \E c \in Actors : state' = [state EXCEPT ![c] = s]
  <1>1. state \in [Actors -> States]
    BY DEF Inv, TypeOK
  <1>2. /\ \A c, q, done, kids :
             InitContinue(c, done, kids, q) =>
               UNCHANGED state \/ state' = [state EXCEPT ![c] = "INITIALIZED"]
        /\ \A c, own, q :
             ShutdownStart(c, own, q) => state' = [state EXCEPT ![c] = "SHUTTING_DOWN"]
    BY DEF InitContinue, ShutdownStart
  <1>3. ASSUME NEW c \in Actors, NEW q, RemoveChild(c, q)
        PROVE  UNCHANGED state \/ Becomes("INITIALIZED")
    <2>1. Parent[c] \in Actors
      BY TreeAssumption
    <2>2. QED
      BY <1>2, <1>3, <2>1 DEF RemoveChild
  <1>4. CASE Deliver
    <2>1. m.actor \in Actors /\ Parent[m.actor] \in Actors /\ Root \in Actors
      <3>1. Delivery
        BY <1>4 DEF Deliver, Drop, Received, OnCreate, OnInitRequest, OnInitReply,
               OnInitSuccess, OnInitFailure, OnShutdownTrigger, OnShutdownRequest,
               OnShutdownReply, OnShutdownResponse, OnForget, OnStart,
               OnSubscription, OnUnsubscription, OnDeactivation
      <3>2. QED
        BY <3>1, Behind, TreeAssumption
    <2>2. CASE \/ Drop \/ OnCreate \/ OnInitReply \/ OnInitFailure
               \/ OnShutdownReply \/ OnUnsubscription
      BY <2>2 DEF Drop, OnCreate, OnInitReply, OnInitFailure, OnShutdownReply,
                  OnUnsubscription
    <2>3. CASE OnInitRequest \/ OnInitSuccess \/ OnSubscription
      <3>1. UNCHANGED state \/ Becomes("INITIALIZED")
        BY <1>2, <2>1, <2>3 DEF OnInitRequest, OnInitSuccess, OnSubscription
      <3>2. QED
        BY <1>1, <3>1
    <2>4. CASE OnShutdownTrigger \/ OnShutdownRequest
      <3>1. UNCHANGED state \/ Becomes("SHUTTING_DOWN")
        BY <1>2, <2>1, <2>4 DEF OnShutdownTrigger, OnShutdownRequest
      <3>2. QED
        BY <1>1, <3>1
    <2>5. CASE OnShutdownResponse \/ OnForget
      <3>1. UNCHANGED state \/ Becomes("INITIALIZED")
        BY <1>3, <2>1, <2>5 DEF OnShutdownResponse, OnForget
      <3>2. QED
        BY <1>1, <3>1
    <2>6. CASE OnDeactivation
      BY <1>1, <2>1, <2>6 DEF OnDeactivation
    <2>7. QED
      BY <1>4, <2>2, <2>3, <2>4, <2>5, <2>6 DEF Deliver
  <1>5. ASSUME NEW a \in Actors,
               \/ Create(a) \/ UserShutdown(a) \/ Acquire(a) \/ Release(a) \/ LinkDone(a)
               \/ LinkFails(a) \/ InitTimeout(a) \/ ShutdownTimeout(a)
        PROVE  state[b] = "OPERATIONAL"
    <2>1. UNCHANGED state \/ Becomes("INITIALIZING") \/ Becomes("INITIALIZED")
      BY <1>2, <1>5 DEF Create, UserShutdown, Acquire, Release, LinkDone, LinkFails,
         InitTimeout, ShutdownTimeout
    <2>2. QED
      BY <1>1, <2>1
  <1>6. CASE Boot \/ UNCHANGED vars
    BY <1>6 DEF Boot, vars
  <1>7. QED
    BY <1>4, <1>5, <1>6 DEF Next

LEMMA AroundKept == ASSUME Inv, Tidy, [Next]_vars PROVE Around'
  <1>1. Onward /\ Walks /\ state \in [Actors -> States]
    BY StatesAdvance, NextWalks DEF Inv, TypeOK
  <1>2. CASE OnStart
    BY <1>1, <1>2, OnStartAround
  <1>3. CASE ~OnStart
    <2>1. ASSUME NEW a \in Actors, state'[a] = "OPERATIONAL" PROVE Led(a)'
      <3>1. Led(a)
        BY <1>3, <2>1, NoneStarted DEF Tidy, Around
      <3>2. QED
        BY <1>1, <3>1, TreeAssumption DEF Onward, Led
    <2>2. ASSUME NEW a \in Actors, a # Root, state'[Parent[a]] = "SHUT_DOWN"
          PROVE  state'[a] \in {"NEW", "SHUT_DOWN"}
      <3> DEFINE p == Parent[a]
      <3>1. p \in Actors /\ p # a
        BY <2>2, TreeAssumption
      <3>2. state[p] = "SHUT_DOWN" => state[a] \in {"NEW", "SHUT_DOWN"}
        BY <2>2 DEF Tidy, Around
      <3>3. CASE UNCHANGED state
        BY <2>2, <3>2, <3>3
      <3>4. ASSUME NEW c \in Actors,
                   L!Create(c) \/ L!Initialize(c) \/ L!Start(c) \/ L!BeginShutdown(c)
            PROVE  state'[a] \in {"NEW", "SHUT_DOWN"}
        <4>1. /\ \E s \in {"INITIALIZING", "INITIALIZED", "OPERATIONAL", "SHUTTING_DOWN"} :
                    state' = [state EXCEPT ![c] = s]
              /\ state[c] \in L!Live \/ (state[c] = "NEW" /\ state[Parent[c]] \in L!Live)
          BY <3>4 DEF L!Create, L!Initialize, L!Start, L!BeginShutdown, L!Become, L!Live
        <4>2. state[p] = "SHUT_DOWN"
          BY <1>1, <2>2, <3>1, <4>1
        <4>3. c # a
          BY <3>2, <4>1, <4>2 DEF L!Live
        <4>4. state'[a] = state[a]
          BY <1>1, <4>1, <4>3
        <4>5. QED
          BY <3>2, <4>2, <4>4
      <3>5. ASSUME NEW c \in Actors, L!FinishShutdown(c)
            PROVE  state'[a] \in {"NEW", "SHUT_DOWN"}
        <4>1. /\ state' = [state EXCEPT ![c] = "SHUT_DOWN"]
              /\ \A b \in Actors \ {c} : Parent[b] = c => state[b] \in {"NEW", "SHUT_DOWN"}
          BY <3>5 DEF L!FinishShutdown, L!Become
        <4>2. CASE c = a
          BY <1>1, <4>1, <4>2
        <4>3. CASE c # a
          <5>1. state'[a] = state[a]
            BY <1>1, <4>1, <4>3
          <5>2. state[p] = "SHUT_DOWN" \/ c = p
            BY <1>1, <2>2, <3>1, <4>1
          <5>3. QED
            BY <3>2, <4>1, <4>3, <5>1, <5>2
        <4>4. QED
          BY <4>2, <4>3
      <3>6. QED
        BY <1>1, <3>3, <3>4, <3>5 DEF Walks, L!Next
    <2>3. QED
      BY <2>1, <2>2 DEF Around
  <1>4. QED
    BY <1>2, <1>3

---------------------------------------------------------------------------
\* What init_continue() does to an actor, and what it sends.
LEMMA Continues ==
    ASSUME TypeOK, NEW a \in Actors, NEW r \in Seq(Message), NEW done, NEW kids,
           InitContinue(a, done, kids, r)
    PROVE  /\ \E S : /\ Extends(r, queue', S)
                     /\ \A y \in S : /\ y.actor = a
                                     /\ \/ y.kind = "init_reply"
                                        \/ y.kind = "subscription" /\ a \in Subscribers
           /\ UNCHANGED state \/ state' = [state EXCEPT ![a] = "INITIALIZED"]
           /\ \/ a \in init_request'
              \/ \E x \in Range(queue') : x.actor = a /\ x.kind = "init_reply"
           /\ a \in holding' => a \in init_request' /\ poll'[a] = "resources"
           /\ poll'[a] = "link_client" => a \in Linkers
           /\ \A b \in Actors \ {a} :
                /\ poll'[b] = poll[b]
                /\ b \in holding' => b \in holding
                /\ b \in init_request => b \in init_request'
  <1> DEFINE stop == StopsAt(a, done, kids)
  <1>1. /\ stop \in Plugins
        /\ stop = "link_client" => a \in Linkers
        /\ stop = "starter" => a \in Subscribers
    BY DEF StopsAt, Plugins
  <1> HIDE DEF stop
  <1>2. /\ poll' = [poll EXCEPT ![a] = stop]
        /\ holding' = IF stop = "resources" THEN holding \cup {a} ELSE holding \ {a}
        /\ IF stop = "none"
           THEN /\ state' = [state EXCEPT ![a] = "INITIALIZED"]
                /\ init_request' = init_request \ {a}
           ELSE /\ init_request' = init_request \cup {a}
                /\ UNCHANGED state
        /\ queue' = CASE stop = "none" -> Append(r, Msg("init_reply", a))
                      [] stop = "starter" -> Append(r, Msg("subscription", a))
                      [] OTHER -> r
    BY DEF InitContinue, stop
  <1>3. poll'[a] = stop /\ \A b \in Actors \ {a} : poll'[b] = poll[b]
    BY <1>2 DEF TypeOK
  <1>4. /\ a \in holding' => a \in init_request' /\ poll'[a] = "resources"
        /\ poll'[a] = "link_client" => a \in Linkers
        /\ \A b \in Actors \ {a} :
                /\ poll'[b] = poll[b]
                /\ b \in holding' => b \in holding
                /\ b \in init_request => b \in init_request'
    BY <1>1, <1>2, <1>3
  <1> DEFINE reply == Msg("init_reply", a)
             subscription == Msg("subscription", a)
  <1>5. /\ reply \in Message /\ reply.actor = a /\ reply.kind = "init_reply"
        /\ subscription \in Message /\ subscription.actor = a
        /\ subscription.kind = "subscription"
    BY MsgType DEF ToActor, ToSupervisor
  <1>6. UNCHANGED state \/ state' = [state EXCEPT ![a] = "INITIALIZED"]
    BY <1>2
  <1>7. CASE stop = "none"
    <2>1. queue' = Append(r, reply)
      BY <1>2, <1>7
    <2> HIDE DEF reply
    <2>2. Extends(r, queue', {reply}) /\ reply \in Range(queue')
      BY <1>5, <2>1, ExtendsOnce
    <2>3. \E x \in Range(queue') : x.actor = a /\ x.kind = "init_reply"
      BY <1>5, <2>2
    <2>4. QED
      BY <1>4, <1>5, <1>6, <2>2, <2>3
  <1>8. CASE stop = "starter"
    <2>1. queue' = Append(r, subscription) /\ a \in init_request'
      BY <1>2, <1>8
    <2> HIDE DEF subscription
    <2>2. Extends(r, queue', {subscription})
      BY <1>5, <2>1, ExtendsOnce
    <2>3. QED
      BY <1>1, <1>4, <1>5, <1>6, <1>8, <2>1, <2>2
  <1>9. CASE stop \notin {"none", "starter"}
    <2>1. queue' = r /\ a \in init_request'
      BY <1>2, <1>9
    <2>2. Extends(r, queue', {})
      BY <2>1, ExtendsNot
    <2>3. QED
      BY <1>4, <1>6, <2>1, <2>2
  <1>10. QED
    BY <1>7, <1>8, <1>9

LEMMA ContinuesPolled ==
    ASSUME Inv, Tidy, Onward, fault = "none", NEW a \in Actors, state[a] # "NEW",
           NEW q \in Seq(Message), NEW T, Extends(q, queue', T),
           UNCHANGED state \/ state' = [state EXCEPT ![a] = "INITIALIZED"],
           \/ a \in init_request'
           \/ \E x \in Range(queue') : x.actor = a /\ x.kind = "init_reply",
           a \in holding' => a \in init_request' /\ poll'[a] = "resources",
           poll'[a] = "link_client" => a \in Linkers,
           \A b \in Actors \ {a} :
                /\ poll'[b] = poll[b]
                /\ b \in holding' => b \in holding
                /\ b \in init_request => b \in init_request',
           pending_init' \subseteq pending_init,
           \A x \in Range(queue) :
              x.kind \in {"init_request", "init_reply"} =>
                x \in Range(q) \/ x.actor = a \/ x.actor \notin pending_init'
    PROVE  \A b \in Actors : Polled(b)'
  <1>1. (\A b \in Actors : Polled(b)) /\ state \in [Actors -> States]
    BY BeforeTidy DEF Inv, TypeOK
  <1>2. Polled(a)'
    BY DEF Polled, Owed, Onward
  <1>3. ASSUME NEW b \in Actors, b # a PROVE Polled(b)'
    <2>1. state'[b] = state[b]
      BY <1>1, <1>3
    <2>2. CASE b \in pending_init'
      <3>1. \A x \in Range(queue) :
              x.actor = b /\ x.kind \in {"init_request", "init_reply"} => x \in Range(queue')
        BY <1>3, <2>2, ExtendsRange
      <3>2. QED
        BY <1>1, <1>3, <2>1, <3>1, PolledKept
    <2>3. CASE b \notin pending_init'
      BY <1>1, <1>3, <2>1, <2>3 DEF Polled, Onward
    <2>4. QED
      BY <2>2, <2>3
  <1>4. QED
    BY <1>2, <1>3

\* The step that continues an initialization, after sending T.
LEMMA ContinuesTidy ==
    ASSUME Inv, Tidy, Onward, fault = "none", NEW a \in Actors, state[a] = "INITIALIZING",
           NEW q \in Seq(Message), Range(q) \subseteq Range(queue), Ordered(q),
           NEW T, NEW r, Extends(q, r, T),
           \A y \in T : /\ y.actor \in Actors /\ state[y.actor] # "NEW"
                        /\ y.kind = "start_actor" /\ Led(y.actor)',
           NEW done, NEW kids, InitContinue(a, done, kids, r),
           UNCHANGED <<managed, deaf, asked, pending_shutdown, fault>>,
           pending_init' \subseteq pending_init,
           \A x \in Range(queue) :
              x.kind \in {"init_request", "init_reply"} =>
                x \in Range(q) \/ x.actor = a \/ x.actor \notin pending_init'
    PROVE  Entries'
  <1>1. TypeOK /\ r \in Seq(Message) /\ pending_init \subseteq managed
    BY BeforeTidy DEF Inv, Extends
  <1>2. PICK S :
           /\ Extends(r, queue', S)
           /\ \A y \in S : /\ y.actor = a
                           /\ \/ y.kind = "init_reply"
                              \/ y.kind = "subscription" /\ a \in Subscribers
    BY <1>1, Continues
  <1>3. Extends(q, queue', T \cup S)
    BY <1>1, <1>2, ExtendsThen
  <1> DEFINE U == T \cup S
  <1>4. Extends(q, queue', U)
    BY <1>3
  <1>5. \A y \in U :
              /\ y.actor \in Actors
              /\ state[y.actor] # "NEW"
              /\ y.kind \notin LastKinds \cup {"create_actor"}
              /\ y.kind \in EarlyKinds =>
                   /\ state[y.actor] \in Live
                   /\ \A x \in U : Late(x) => x.actor # y.actor
              /\ y.kind = "subscription" => y.actor \in Subscribers
              /\ y.kind = "start_actor" => Led(y.actor)'
    BY <1>2 DEF LastKinds, EarlyKinds, Late, Live
  <1> HIDE DEF U
  <1>6. \A b \in Actors : Polled(b)'
    <2>1. UNCHANGED state \/ state' = [state EXCEPT ![a] = "INITIALIZED"]
      BY <1>1, Continues
    <2>2. \/ a \in init_request'
          \/ \E x \in Range(queue') : x.actor = a /\ x.kind = "init_reply"
      BY <1>1, Continues
    <2>3. /\ a \in holding' => a \in init_request' /\ poll'[a] = "resources"
          /\ poll'[a] = "link_client" => a \in Linkers
          /\ \A b \in Actors \ {a} :
                /\ poll'[b] = poll[b]
                /\ b \in holding' => b \in holding
                /\ b \in init_request => b \in init_request'
      BY <1>1, Continues
    <2>4. QED
      BY <1>4, <2>1, <2>2, <2>3, ContinuesPolled
  <1>7. \A b \in Actors : state[b] \in Live => state'[b] \in Live
    <2>1. UNCHANGED state \/ state' = [state EXCEPT ![a] = "INITIALIZED"]
      BY <1>1, Continues
    <2>2. QED
      BY <1>1, <2>1 DEF TypeOK, Live
  <1>8. QED
    BY <1>1, <1>4, <1>5, <1>6, <1>7, Mild

---------------------------------------------------------------------------
\* Every step keeps Entries.
LEMMA InitTidy == Init => Tidy
  <1> SUFFICES ASSUME Init PROVE Tidy
    OBVIOUS
  <1>1. /\ queue = <<>> /\ Range(queue) = {} /\ Len(queue) = 0
        /\ \A a \in Actors : state[a] \in {"NEW", "INITIALIZING"}
        /\ \A a \in Actors : poll[a] = "init_shutdown"
        /\ Root \in Actors /\ Parent \in [Actors -> Actors]
    BY TreeAssumption DEF Init, Range
  <1>2. Chain
    BY <1>1 DEF Init, Chain, Ordered, Polled
  <1>3. Entries /\ Unbooted
    BY <1>1, <1>2 DEF Init, Entries, NothingMissing, Unbooted
  <1>4. Around
    BY <1>1 DEF Around
  <1>5. QED
    BY <1>3, <1>4 DEF Tidy

\* do_shutdown().
LEMMA TriggerTidy ==
    ASSUME Inv, Tidy, Onward, fault = "none",
           NEW q \in Seq(Message), Range(q) \subseteq Range(queue), Ordered(q),
           NEW a \in Actors, queue' = q \o DoShutdown(a),
           UNCHANGED <<managed, deaf, asked, pending_shutdown, pending_init, fault,
                       state, poll, holding, init_request>>,
           \A x \in Range(queue) : x.kind \in {"init_request", "init_reply"} => x \in Range(q)
    PROVE  Entries'
  <1> DEFINE S == {x \in {Msg("shutdown_trigger", a)} : state[a] \in Live}
  <1>1. Extends(q, queue', S)
    BY ExtendsTrigger
  <1>2. \A y \in S : y.actor = a /\ y.kind = "shutdown_trigger" /\ state[a] \in Live
    BY MsgType DEF ToActor, ToSupervisor
  <1> HIDE DEF S
  <1>3. \A b \in Actors : Polled(b)'
    BY <1>1, BeforeTidy, ExtendsRange, PolledKept
  <1>4. \A y \in S :
              /\ y.actor \in Actors
              /\ state[y.actor] # "NEW"
              /\ y.kind \notin LastKinds \cup {"create_actor"}
              /\ y.kind \in EarlyKinds =>
                   /\ state[y.actor] \in Live
                   /\ \A x \in S : Late(x) => x.actor # y.actor
              /\ y.kind = "subscription" => y.actor \in Subscribers
              /\ y.kind = "start_actor" => Led(y.actor)'
    BY <1>2 DEF LastKinds, Late, Live
  <1>5. \A b \in Actors : state[b] \in Live => state'[b] \in Live
    OBVIOUS
  <1>6. QED
    BY <1>1, <1>3, <1>4, <1>5, BeforeTidy, Mild

LEMMA UserShutdownTidy ==
    ASSUME Inv, Tidy, Onward, NEW a \in Actors, UserShutdown(a) PROVE Entries'
  <1>1. /\ fault = "none" /\ queue' = queue \o DoShutdown(a)
        /\ UNCHANGED <<managed, deaf, asked, pending_shutdown, pending_init, fault,
                       state, poll, holding, init_request>>
    BY DEF UserShutdown
  <1>2. QED
    BY <1>1, BeforeTidy, TriggerTidy

\* A message about somebody whose initialization has failed or who is late.
LEMMA FailedTidy ==
    ASSUME Inv, Tidy, Onward, fault = "none",
           UNCHANGED <<managed, deaf, asked, pending_shutdown, fault, state>>,
           NEW q \in Seq(Message), Range(q) \subseteq Range(queue), Ordered(q),
           NEW y \in Message, queue' = Append(q, y), state[y.actor] # "NEW",
           \/ y.kind \in {"init_response", "shutdown_reply"} /\ ~y.ok
           \/ y.kind \in {"init_reply", "init_request", "shutdown_trigger"}
                /\ state[y.actor] \in Live,
           pending_init' \subseteq managed,
           \A a \in Actors : Polled(a)'
    PROVE  Entries'
  <1> DEFINE S == {y}
  <1>1. Extends(q, queue', S)
    BY ExtendsOnce
  <1>2. \A x \in S :
              /\ x.actor \in Actors
              /\ state[x.actor] # "NEW"
              /\ x.kind \notin LastKinds \cup {"create_actor"}
              /\ x.kind \in EarlyKinds =>
                   /\ state[x.actor] \in Live
                   /\ \A z \in S : Late(z) => z.actor # x.actor
              /\ x.kind = "subscription" => x.actor \in Subscribers
              /\ x.kind = "start_actor" => Led(x.actor)'
    BY DEF LastKinds, EarlyKinds, Late, Message
  <1> HIDE DEF S
  <1>3. \A b \in Actors : state[b] \in Live => state'[b] \in Live
    OBVIOUS
  <1>4. QED
    BY <1>1, <1>2, <1>3, Mild

LEMMA InitTimeoutTidy ==
    ASSUME Inv, Tidy, Onward, NEW a \in Actors, InitTimeout(a) PROVE Entries'
  <1> DEFINE y == Failed("init_response", a)
  <1>1. /\ fault = "none" /\ a \in pending_init /\ pending_init' = pending_init \ {a}
        /\ queue' = Append(queue, y)
        /\ UNCHANGED <<managed, deaf, asked, pending_shutdown, fault,
                       state, poll, holding, init_request>>
    BY DEF InitTimeout
  <1>2. y \in Message /\ y.actor = a /\ y.kind = "init_response" /\ ~y.ok
    BY MsgType DEF ToActor, ToSupervisor
  <1> HIDE DEF y
  <1>3. Extends(queue, queue', {y}) /\ state[a] # "NEW"
    BY <1>1, <1>2, BeforeTidy, ExtendsOnce
  <1>4. \A b \in Actors : Polled(b)'
    BY <1>1, <1>3, BeforeTidy, ExtendsRange, PolledKept
  <1>5. QED
    BY <1>1, <1>2, <1>3, <1>4, BeforeTidy, FailedTidy

LEMMA LinkFailsTidy ==
    ASSUME Inv, Tidy, Onward, NEW a \in Actors, LinkFails(a) PROVE Entries'
  <1> DEFINE y == Failed("init_reply", a)
  <1>1. /\ fault = "none" /\ state[a] = "INITIALIZING" /\ poll[a] = "link_client"
        /\ init_request' = init_request \ {a}
        /\ queue' = Append(queue, y)
        /\ UNCHANGED <<managed, deaf, asked, pending_init, pending_shutdown, fault,
                       state, poll, holding>>
    BY DEF LinkFails
  <1>2. y \in Message /\ y.actor = a /\ y.kind = "init_reply"
    BY MsgType DEF ToActor, ToSupervisor
  <1> HIDE DEF y
  <1>3. Extends(queue, queue', {y}) /\ y \in Range(queue')
    BY <1>1, <1>2, BeforeTidy, ExtendsOnce
  <1>4. \A b \in Actors \ {a} : Polled(b)'
    BY <1>1, <1>3, BeforeTidy, ExtendsRange, PolledKept
  <1>5. Polled(a)'
    BY <1>1, <1>2, <1>3, BeforeTidy DEF Polled, Owed
  <1>6. QED
    BY <1>1, <1>2, <1>4, <1>5, BeforeTidy, FailedTidy DEF Live

LEMMA AcquireTidy ==
    ASSUME Inv, Tidy, Onward, NEW a \in Actors, Acquire(a) PROVE Entries'
  <1>1. /\ fault = "none" /\ state[a] = "OPERATIONAL" /\ holding' = holding \cup {a}
        /\ UNCHANGED <<managed, deaf, asked, pending_init, pending_shutdown, fault,
                       state, poll, init_request, queue>>
    BY DEF Acquire
  <1>2. Extends(queue, queue', {})
    BY <1>1, BeforeTidy, ExtendsNot
  <1>3. \A b \in Actors \ {a} : Polled(b)'
    BY <1>1, <1>2, BeforeTidy, ExtendsRange, PolledKept
  <1>4. Polled(a)'
    BY <1>1, BeforeTidy DEF Polled, Owed
  <1>5. QED
    BY <1>1, <1>2, <1>3, <1>4, BeforeTidy, Mild

LEMMA LinkDoneTidy ==
    ASSUME Inv, Tidy, Onward, NEW a \in Actors, LinkDone(a) PROVE Entries'
  <1>1. /\ fault = "none" /\ state[a] = "INITIALIZING"
        /\ InitContinue(a, "link_client", {}, queue)
        /\ UNCHANGED <<managed, deaf, asked, pending_init, pending_shutdown, fault>>
    BY DEF LinkDone
  <1>2. Extends(queue, queue, {})
    BY <1>1, BeforeTidy, ExtendsNot
  <1>3. QED
    BY <1>1, <1>2, BeforeTidy, ContinuesTidy

LEMMA ReleaseTidy ==
    ASSUME Inv, Tidy, Onward, NEW a \in Actors, Release(a) PROVE Entries'
  <1>1. /\ fault = "none" /\ a \in holding
        /\ UNCHANGED <<managed, deaf, asked, pending_init, pending_shutdown>>
    BY DEF Release
  <1>2. /\ Polled(a) /\ state[a] # "NEW"
        /\ state[a] = "INITIALIZING" => a \in init_request
    BY <1>1, BeforeTidy DEF Polled
  <1>3. CASE state[a] = "INITIALIZING"
    <2>1. InitContinue(a, "resources", {}, queue) /\ UNCHANGED fault
      BY <1>2, <1>3 DEF Release
    <2>2. Extends(queue, queue, {})
      BY <1>1, BeforeTidy, ExtendsNot
    <2>3. QED
      BY <1>1, <1>3, <2>1, <2>2, BeforeTidy, ContinuesTidy
  <1>4. CASE state[a] # "INITIALIZING"
    <2> DEFINE y == Msg("unsubscription", a)
               S == {x \in {y} : state[a] = "SHUTTING_DOWN"}
    <2>1. /\ holding' = holding \ {a}
          /\ queue' = IF state[a] = "SHUTTING_DOWN" THEN Append(queue, y) ELSE queue
          /\ UNCHANGED <<fault, state, poll, init_request>>
      BY <1>4 DEF Release
    <2>2. y \in Message /\ y.actor = a /\ y.kind = "unsubscription"
      BY MsgType DEF ToActor, ToSupervisor
    <2> HIDE DEF y
    <2>3. Extends(queue, queue', S)
      <3>1. CASE state[a] = "SHUTTING_DOWN"
        BY <1>1, <2>1, <2>2, <3>1, BeforeTidy, ExtendsOnce, ExtendsMore
      <3>2. CASE state[a] # "SHUTTING_DOWN"
        BY <1>1, <2>1, <2>2, <3>2, BeforeTidy, ExtendsNot, ExtendsMore
      <3>3. QED
        BY <3>1, <3>2
    <2>4. \A x \in S :
              /\ x.actor \in Actors
              /\ state[x.actor] # "NEW"
              /\ x.kind \notin LastKinds \cup {"create_actor"}
              /\ x.kind \in EarlyKinds =>
                   /\ state[x.actor] \in Live
                   /\ \A z \in S : Late(z) => z.actor # x.actor
              /\ x.kind = "subscription" => x.actor \in Subscribers
              /\ x.kind = "start_actor" => Led(x.actor)'
      BY <1>2, <2>2 DEF LastKinds, EarlyKinds
    <2> HIDE DEF S
    <2>5. \A b \in Actors : Polled(b)'
      <3>1. \A b \in Actors : b \in holding' => b \in holding
        BY <2>1
      <3>2. QED
        BY <1>1, <2>1, <2>3, <3>1, BeforeTidy, ExtendsRange, PolledKept
    <2>6. \A b \in Actors : state[b] \in Live => state'[b] \in Live
      BY <2>1
    <2>7. QED
      BY <1>1, <2>1, <2>3, <2>4, <2>5, <2>6, BeforeTidy, Mild
  <1>5. QED
    BY <1>3, <1>4

\* A lost message was not about somebody who waits for it.
LEMMA DropTidy == ASSUME Inv, Tidy, Onward, Drop PROVE Entries'
  <1>1. /\ Delivery /\ Unheard(m) /\ queue' = rest
        /\ UNCHANGED <<managed, deaf, asked, pending_init, pending_shutdown, fault,
                       state, poll, holding, init_request>>
    BY DEF Drop
  <1>2. Extends(rest, queue', {})
    BY <1>1, BehindTidy, ExtendsNot
  <1>3. m.kind \notin {"init_request", "init_reply"}
    <2>1. m.kind = "init_request" => m.actor \notin deaf
      BY <1>1, BehindTidy DEF Says, EarlyKinds
    <2>2. m.kind = "init_reply" => Parent[m.actor] \notin deaf
      <3> SUFFICES ASSUME m.kind = "init_reply", Parent[m.actor] \in deaf PROVE FALSE
        OBVIOUS
      <3>1. m.actor \in managed \ deaf /\ Stages /\ deaf \subseteq closing
        BY <1>1, BehindTidy, BeforeTidy DEF Says, EarlyKinds, Inv, TypeOK
      <3>2. Kids(Parent[m.actor]) = {}
        BY <1>1, <3>1, BehindTidy DEF Stages, StageOf
      <3>3. m.actor # Root
        BY <3>1, TreeAssumption
      <3>4. QED
        BY <3>1, <3>2, <3>3 DEF Kids
    <2>3. QED
      BY <1>1, <2>1, <2>2 DEF Unheard, Receiver, ToActor
  <1>4. \A b \in Actors : Polled(b)'
    <2>1. \A x \in Range(queue) : x.kind \in {"init_request", "init_reply"} => x \in Range(queue')
      BY <1>1, <1>3, BehindTidy
    <2>2. QED
      BY <1>1, <2>1, BehindTidy, BeforeTidy, PolledKept
  <1>5. \A b \in Actors : state[b] \in Live => state'[b] \in Live
    BY <1>1
  <1>6. QED
    BY <1>1, <1>2, <1>4, <1>5, BehindTidy, BeforeTidy, Mild

LEMMA OnInitReplyTidy == ASSUME Inv, Tidy, Onward, OnInitReply PROVE Entries'
  <1> DEFINE y == [m EXCEPT !.kind = "init_response"]
             S == {x \in {y} : m.actor \in pending_init}
  <1>1. /\ Delivery /\ m.kind = "init_reply"
        /\ pending_init' = pending_init \ {m.actor}
        /\ queue' = IF m.actor \in pending_init THEN Append(rest, y) ELSE rest
        /\ UNCHANGED <<managed, deaf, asked, pending_shutdown, fault,
                       state, poll, holding, init_request>>
    BY DEF OnInitReply, Received, m
  <1>2. y \in Message /\ y.actor = m.actor /\ y.kind = "init_response"
    BY <1>1, BehindTidy DEF Message, ToActor, ToSupervisor
  <1> HIDE DEF y
  <1>3. Extends(rest, queue', S)
    <2>1. CASE m.actor \in pending_init
      BY <1>1, <1>2, <2>1, BehindTidy, ExtendsOnce, ExtendsMore
    <2>2. CASE m.actor \notin pending_init
      BY <1>1, <1>2, <2>2, BehindTidy, ExtendsNot, ExtendsMore
    <2>3. QED
      BY <2>1, <2>2
  <1>4. \A x \in S :
              /\ x.actor \in Actors
              /\ state[x.actor] # "NEW"
              /\ x.kind \notin LastKinds \cup {"create_actor"}
              /\ x.kind \in EarlyKinds =>
                   /\ state[x.actor] \in Live
                   /\ \A z \in S : Late(z) => z.actor # x.actor
              /\ x.kind = "subscription" => x.actor \in Subscribers
              /\ x.kind = "start_actor" => Led(x.actor)'
    BY <1>1, <1>2, BehindTidy DEF LastKinds, EarlyKinds, Says
  <1> HIDE DEF S
  <1>5. \A b \in Actors : Polled(b)'
    <2>1. Range(rest) \subseteq Range(queue')
      BY <1>1, <1>3, BehindTidy, ExtendsRange
    <2>2. ASSUME NEW b \in Actors PROVE Polled(b)'
      <3>1. CASE b = m.actor
        BY <1>1, <3>1, BehindTidy, BeforeTidy DEF Polled
      <3>2. CASE b # m.actor
        <4>1. \A x \in Range(queue) :
                x.actor = b /\ x.kind \in {"init_request", "init_reply"} => x \in Range(queue')
          BY <1>1, <2>1, <3>2, BehindTidy
        <4>2. Polled(b)
          BY <1>1, BehindTidy, BeforeTidy
        <4>3. QED
          BY <1>1, <4>1, <4>2, PolledKept
      <3>3. QED
        BY <3>1, <3>2
    <2>3. QED
      BY <2>2
  <1>6. \A b \in Actors : state[b] \in Live => state'[b] \in Live
    BY <1>1
  <1>7. QED
    BY <1>1, <1>3, <1>4, <1>5, <1>6, BehindTidy, BeforeTidy, Mild

LEMMA OnInitFailureTidy == ASSUME Inv, Tidy, Onward, OnInitFailure PROVE Entries'
  <1>1. PICK p \in Supervisors : p = Parent[m.actor] /\ p \in Actors
    BY BehindTidy DEF OnInitFailure, Received
  <1> DEFINE y == Failed("init_reply", p)
             self == state[p] = "INITIALIZING" /\ p \in ShutdownSelf
             victim == IF ~self /\ m.actor \in managed THEN m.actor ELSE p
  <1>2. /\ Delivery /\ m.kind = "init_response"
        /\ IF self /\ p \in init_request
           THEN init_request' = init_request \ {p} /\ queue' = Append(rest, y)
           ELSE queue' = rest \o DoShutdown(victim) /\ UNCHANGED init_request
        /\ UNCHANGED <<managed, deaf, asked, pending_init, pending_shutdown, fault,
                       state, poll, holding>>
    BY <1>1 DEF OnInitFailure, Received, m
  <1>3. y \in Message /\ y.actor = p /\ y.kind = "init_reply"
    BY <1>1, MsgType DEF ToActor, ToSupervisor
  <1>4. \A x \in Range(queue) : x.kind \in {"init_request", "init_reply"} => x \in Range(rest)
    BY <1>2, BehindTidy
  <1> HIDE DEF y
  <1>5. CASE self /\ p \in init_request
    <2>1. queue' = Append(rest, y) /\ init_request' = init_request \ {p}
          /\ state[p] = "INITIALIZING"
      BY <1>2, <1>5
    <2>2. Range(rest) \subseteq Range(queue') /\ y \in Range(queue')
      BY <1>2, <1>3, <2>1, BehindTidy, ExtendsOnce, ExtendsRange
    <2>3. Polled(p)'
      <3>1. p \notin holding
        BY HoldersAssumption DEF Inv, TypeOK
      <3>2. QED
        BY <1>1, <1>2, <1>3, <2>2, <3>1, BehindTidy, BeforeTidy DEF Polled, Owed
    <2>4. \A b \in Actors \ {p} : Polled(b)'
      BY <1>2, <1>4, <2>1, <2>2, BehindTidy, BeforeTidy, PolledKept
    <2>5. QED
      BY <1>2, <1>3, <2>1, <2>3, <2>4, BehindTidy, BeforeTidy, FailedTidy DEF Live
  <1>6. CASE ~(self /\ p \in init_request)
    <2>1. PICK a \in Actors : a = victim
      BY <1>1, <1>2, BehindTidy
    <2>2. queue' = rest \o DoShutdown(a) /\ UNCHANGED init_request
      BY <1>2, <1>6, <2>1
    <2>3. QED
      BY <1>2, <1>4, <2>2, BehindTidy, TriggerTidy
  <1>7. QED
    BY <1>5, <1>6

LEMMA OnStartTidy == ASSUME Inv, Tidy, Onward, OnStart PROVE Entries'
  <1>1. PICK a \in Actors : a = m.actor
    BY BehindTidy DEF OnStart, Received
  <1> DEFINE kids == IF a \in SyncStart THEN Kids(a) ELSE {}
             S == {Msg("start_actor", c) : c \in kids}
  <1>2. /\ Delivery /\ m.kind = "start_actor"
        /\ IF state[a] = "INITIALIZED"
           THEN /\ state' = [state EXCEPT ![a] = "OPERATIONAL"]
                /\ \E s \in ToEach("start_actor", kids) : queue' = rest \o s
           ELSE queue' = rest /\ UNCHANGED state
        /\ UNCHANGED <<managed, deaf, asked, pending_init, pending_shutdown, fault,
                       poll, holding, init_request>>
    BY <1>1 DEF OnStart, Received, m
  <1>3. kids \subseteq managed \ {Root} /\ \A c \in kids : Parent[c] = a
    BY DEF Kids
  <1>4. state \in [Actors -> States] /\ kids \in SUBSET Actors
    BY <1>3 DEF Inv, TypeOK
  <1>5. /\ \E T : /\ Extends(rest, queue', T)
                  /\ T = {} \/ (T = S /\ state' = [state EXCEPT ![a] = "OPERATIONAL"])
    <2>1. CASE state[a] = "INITIALIZED"
      <3>1. PICK s \in ToEach("start_actor", kids) : queue' = rest \o s
        BY <1>2, <2>1
      <3>2. "start_actor" \in ToActor \cup ToSupervisor
        BY DEF ToActor
      <3> HIDE DEF kids
      <3>3. Extends(rest, rest \o s, S)
        BY <1>2, <1>4, <3>1, <3>2, BehindTidy, ExtendsAll
      <3>4. QED
        BY <1>2, <2>1, <3>1, <3>3
    <2>2. CASE state[a] # "INITIALIZED"
      BY <1>2, <2>2, BehindTidy, ExtendsNot
    <2>3. QED
      BY <2>1, <2>2
  <1>6. PICK T : /\ Extends(rest, queue', T)
                 /\ T = {} \/ (T = S /\ state' = [state EXCEPT ![a] = "OPERATIONAL"])
    BY <1>5
  <1>7. ASSUME NEW y \in T
        PROVE  /\ y.actor \in Actors
               /\ state[y.actor] # "NEW"
               /\ y.kind = "start_actor"
               /\ Led(y.actor)'
    <2>1. PICK c \in kids : y = Msg("start_actor", c)
      BY <1>6, <1>7
    <2>2. y.actor = c /\ y.kind = "start_actor"
      BY <2>1 DEF Msg
    <2>3. Parent[c] = a /\ state'[a] = "OPERATIONAL"
      BY <1>3, <1>4, <1>6, <1>7, <2>1
    <2>4. Led(c)'
      BY <2>3 DEF Led
    <2>5. c \in Actors /\ state[c] # "NEW"
      BY <1>2, <1>3, <2>1, BehindTidy, BeforeTidy
    <2>6. QED
      BY <2>2, <2>4, <2>5
  <1>8. \A y \in T :
              /\ y.actor \in Actors
              /\ state[y.actor] # "NEW"
              /\ y.kind \notin LastKinds \cup {"create_actor"}
              /\ y.kind \in EarlyKinds =>
                   /\ state[y.actor] \in Live
                   /\ \A x \in T : Late(x) => x.actor # y.actor
              /\ y.kind = "subscription" => y.actor \in Subscribers
              /\ y.kind = "start_actor" => Led(y.actor)'
    BY <1>7 DEF LastKinds, EarlyKinds
  <1>9. \A b \in Actors :
          /\ state[b] \in Live => state'[b] \in Live
          /\ state'[b] = "INITIALIZING" => state[b] = "INITIALIZING"
    BY <1>2, <1>4 DEF Live
  <1>10. \A b \in Actors : Polled(b)'
    <2>1. \A x \in Range(queue) : x.kind \in {"init_request", "init_reply"} => x \in Range(queue')
      BY <1>2, <1>6, BehindTidy, ExtendsRange
    <2>2. QED
      BY <1>2, <1>9, <2>1, BehindTidy, BeforeTidy, PolledKept
  <1>11. QED
    BY <1>2, <1>6, <1>8, <1>9, <1>10, BehindTidy, BeforeTidy, Mild

LEMMA OnInitRequestTidy == ASSUME Inv, Tidy, Onward, OnInitRequest PROVE Entries'
  <1>1. PICK a \in Actors : a = m.actor
    BY BehindTidy DEF OnInitRequest, Received
  <1>2. /\ Delivery /\ m.kind = "init_request"
        /\ UNCHANGED <<managed, deaf, asked, pending_init, pending_shutdown, fault>>
    BY DEF OnInitRequest, Received, m
  <1>3. \A x \in Range(queue) :
          x.kind \in {"init_request", "init_reply"} => x \in Range(rest) \/ x.actor = a
    BY <1>1, <1>2, BehindTidy
  <1>4. CASE state[a] = "INITIALIZING"
    <2>1. InitContinue(a, "init_shutdown", Kids(a), rest)
      BY <1>1, <1>4 DEF OnInitRequest
    <2>2. Extends(rest, rest, {})
      BY <1>2, BehindTidy, ExtendsNot
    <2>3. QED
      BY <1>2, <1>3, <1>4, <2>1, <2>2, BehindTidy, BeforeTidy, ContinuesTidy
  <1>5. CASE state[a] # "INITIALIZING"
    <2>1. /\ init_request' = init_request \cup {a}
          /\ queue' = rest
          /\ UNCHANGED <<state, poll, holding>>
      BY <1>1, <1>5 DEF OnInitRequest
    <2>2. Extends(rest, queue', {})
      BY <1>2, <2>1, BehindTidy, ExtendsNot
    <2>3. ASSUME NEW b \in Actors PROVE Polled(b)'
      <3>1. Polled(b)
        BY <1>2, BehindTidy, BeforeTidy
      <3>2. CASE b = a
        BY <1>2, <1>5, <2>1, <3>1, <3>2 DEF Polled, Owed
      <3>3. CASE b # a
        <4>1. \A x \in Range(queue) :
                x.actor = b /\ x.kind \in {"init_request", "init_reply"} => x \in Range(queue')
          BY <1>3, <2>1, <3>3
        <4>2. QED
          BY <1>2, <2>1, <3>1, <4>1, PolledKept
      <3>4. QED
        BY <3>2, <3>3
    <2>4. \A b \in Actors : state[b] \in Live => state'[b] \in Live
      BY <2>1
    <2>5. QED
      BY <1>2, <2>2, <2>3, <2>4, BehindTidy, BeforeTidy, Mild
  <1>6. QED
    BY <1>4, <1>5

LEMMA OnInitSuccessTidy == ASSUME Inv, Tidy, Onward, OnInitSuccess PROVE Entries'
  <1>1. /\ Delivery /\ m.kind = "init_response" /\ m.ok
        /\ UNCHANGED <<managed, deaf, asked, pending_init, pending_shutdown, fault>>
    BY DEF OnInitSuccess, Received, m
  <1>2. PICK a \in Actors, p \in Actors :
          a = m.actor /\ p = Parent[a] /\ p \in Supervisors
    BY <1>1, BehindTidy
  <1> DEFINE y == Msg("start_actor", a)
             T == {x \in {y} : Starts(a)}
             sent == IF Starts(a) THEN Append(rest, y) ELSE rest
  <1>3. y \in Message /\ y.actor = a /\ y.kind = "start_actor"
    BY MsgType DEF ToActor, ToSupervisor
  <1>4. IF ManagerContinues(p, Kids(p))
        THEN InitContinue(p, "child_manager", {}, sent)
        ELSE queue' = sent /\ UNCHANGED <<state, poll, holding, init_request>>
    BY <1>2 DEF OnInitSuccess
  <1> HIDE DEF y
  <1>5. Extends(rest, sent, T)
    <2>1. CASE Starts(a)
      BY <1>1, <1>3, <2>1, BehindTidy, ExtendsOnce, ExtendsMore
    <2>2. CASE ~Starts(a)
      BY <1>1, <1>3, <2>2, BehindTidy, ExtendsNot, ExtendsMore
    <2>3. QED
      BY <2>1, <2>2
  <1>6. \A x \in T :
          /\ x.actor = a /\ x.actor \in Actors /\ state[x.actor] # "NEW"
          /\ x.kind = "start_actor" /\ Led(x.actor)'
    <2>1. state[a] # "NEW"
      BY <1>1, <1>2, BehindTidy DEF Confirms
    <2>2. Starts(a) => Led(a)'
      BY DEF Starts, Led
    <2>3. QED
      BY <1>3, <2>1, <2>2
  <1>7. \A x \in Range(queue) :
          x.kind \in {"init_request", "init_reply"} => x \in Range(rest)
    BY <1>1, BehindTidy
  <1> HIDE DEF T, sent
  <1>8. CASE ManagerContinues(p, Kids(p))
    <2>1. state[p] = "INITIALIZING" /\ InitContinue(p, "child_manager", {}, sent)
      BY <1>4, <1>8 DEF ManagerContinues
    <2>2. QED
      BY <1>1, <1>5, <1>6, <1>7, <2>1, BehindTidy, BeforeTidy, ContinuesTidy
  <1>9. CASE ~ManagerContinues(p, Kids(p))
    <2>1. queue' = sent /\ UNCHANGED <<state, poll, holding, init_request>>
      BY <1>4, <1>9
    <2>2. Extends(rest, queue', T)
      BY <1>5, <2>1
    <2>3. \A b \in Actors : Polled(b)'
      BY <1>1, <1>7, <2>1, <2>2, BehindTidy, BeforeTidy, ExtendsRange, PolledKept
    <2>4. \A x \in T :
              /\ x.actor \in Actors
              /\ state[x.actor] # "NEW"
              /\ x.kind \notin LastKinds \cup {"create_actor"}
              /\ x.kind \in EarlyKinds =>
                   /\ state[x.actor] \in Live
                   /\ \A z \in T : Late(z) => z.actor # x.actor
              /\ x.kind = "subscription" => x.actor \in Subscribers
              /\ x.kind = "start_actor" => Led(x.actor)'
      BY <1>6 DEF LastKinds, EarlyKinds
    <2>5. \A b \in Actors : state[b] \in Live => state'[b] \in Live
      BY <2>1
    <2>6. QED
      BY <1>1, <2>2, <2>3, <2>4, <2>5, BehindTidy, BeforeTidy, Mild
  <1>10. QED
    BY <1>8, <1>9

LEMMA OnSubscriptionTidy == ASSUME Inv, Tidy, Onward, OnSubscription PROVE Entries'
  <1>1. PICK a \in Actors : a = m.actor
    BY BehindTidy DEF OnSubscription, Received
  <1>2. /\ Delivery /\ m.kind = "subscription"
        /\ UNCHANGED <<managed, deaf, asked, pending_init, pending_shutdown>>
    BY DEF OnSubscription, Received, m
  <1>3. CASE state[a] = "INITIALIZING" /\ a \in init_request
    <2>1. InitContinue(a, "starter", {}, rest) /\ UNCHANGED fault
      BY <1>1, <1>3 DEF OnSubscription
    <2>2. Extends(rest, rest, {})
      BY <1>2, BehindTidy, ExtendsNot
    <2>3. \A x \in Range(queue) :
            x.kind \in {"init_request", "init_reply"} => x \in Range(rest)
      BY <1>2, BehindTidy
    <2>4. QED
      BY <1>2, <1>3, <2>1, <2>2, <2>3, BehindTidy, BeforeTidy, ContinuesTidy
  <1>4. CASE ~(state[a] = "INITIALIZING" /\ a \in init_request)
    <2>1. fault' = "assertion"
      BY <1>1, <1>4 DEF OnSubscription
    <2>2. Subscribers # {}
      BY <1>2, BehindTidy DEF Says
    <2>3. QED
      BY <1>2, <2>1, <2>2, BehindTidy, BeforeTidy DEF Entries, NothingMissing
  <1>5. QED
    BY <1>3, <1>4

LEMMA CreateTidy ==
    ASSUME Inv, Tidy, Onward, NEW a \in Actors, Create(a) PROVE Entries'
  <1> DEFINE y == Msg("create_actor", a)
             S == {y}
  <1>1. /\ fault = "none" /\ state[a] = "NEW" /\ state[Parent[a]] \in Live
        /\ state' = [state EXCEPT ![a] = "INITIALIZING"]
        /\ managed' = managed \cup {a}
        /\ queue' = Append(queue, y)
        /\ UNCHANGED <<deaf, asked, pending_init, pending_shutdown, fault,
                       poll, holding, init_request>>
    BY DEF Create
  <1>2. y \in Message /\ y.actor = a /\ y.kind = "create_actor"
    BY MsgType DEF ToActor, ToSupervisor
  <1> HIDE DEF y
  <1>3. Extends(queue, queue', S)
    BY <1>1, <1>2, BeforeTidy, ExtendsOnce
  <1>4. Ordered(queue')
    <2>1. \A x \in Range(queue) : ~Wrong(x, y)
      BY <1>1, <1>2, BeforeTidy DEF Chain, Says, Wrong
    <2>2. QED
      BY <1>1, <1>2, <2>1, BeforeTidy, OrderedOnce
  <1>5. /\ state \in [Actors -> States] /\ deaf \subseteq closing
        /\ a # Root /\ a \notin closing /\ a \notin managed
    BY <1>1, BeforeTidy, TreeAssumption DEF Inv, TypeOK, Stages, StageOf, Live
  <1>6. \A x \in S : Says(x)'
    BY <1>1, <1>2, <1>5 DEF Says, LastKinds, Live
  <1>7. \A x \in Range(queue) : x.kind = "create_actor" => state'[x.actor] \in Live
    BY <1>1, <1>5, BeforeTidy, Ranges DEF Chain, Says, Live
  <1>8. \A b \in Actors : Polled(b)'
    <2>1. a \notin holding
      BY <1>1, BeforeTidy DEF Polled
    <2>2. \A b \in Actors :
            state'[b] = "INITIALIZING" => state[b] = "INITIALIZING" \/ b \notin holding
      BY <1>1, <1>5, <2>1
    <2>3. QED
      BY <1>1, <1>3, <2>2, BeforeTidy, ExtendsRange, PolledKept
  <1> HIDE DEF S
  <1>9. \A b \in pending_shutdown' \ pending_shutdown :
          b \in (managed \cap asked') \ ({Root} \cup asked)
    BY <1>1
  <1>10. pending_init' \subseteq managed' /\ (Root \in managed' => Root \in managed)
         /\ fault' = "none" /\ deaf' = deaf /\ asked \subseteq asked'
         /\ managed \subseteq managed'
    BY <1>1, <1>5, BeforeTidy
  <1>11. QED
    BY <1>1, <1>3, <1>4, <1>6, <1>7, <1>8, <1>9, <1>10, BeforeTidy, Steady

LEMMA OnCreateTidy == ASSUME Inv, Tidy, Onward, OnCreate PROVE Entries'
  <1>1. PICK a \in Actors : a = m.actor
    BY BehindTidy DEF OnCreate, Received
  <1> DEFINE y == Msg("init_request", a)
  <1>2. /\ Delivery /\ m.kind = "create_actor"
        /\ pending_init' = pending_init \cup {a}
        /\ queue' = Append(rest, y)
        /\ UNCHANGED <<managed, deaf, asked, pending_shutdown, state, poll,
                       holding, init_request>>
    BY <1>1 DEF OnCreate, Received, m
  <1>3. a \in managed /\ state[a] \in Live /\ UNCHANGED fault
    BY <1>1, <1>2, BehindTidy DEF OnCreate, Says, EarlyKinds
  <1>4. y \in Message /\ y.actor = a /\ y.kind = "init_request"
    BY MsgType DEF ToActor, ToSupervisor
  <1> HIDE DEF y
  <1>5. Range(rest) \subseteq Range(queue') /\ y \in Range(queue')
    BY <1>2, <1>4, BehindTidy, ExtendsOnce, ExtendsRange
  <1>6. ASSUME NEW b \in Actors PROVE Polled(b)'
    <2>1. Polled(b)
      BY <1>2, BehindTidy, BeforeTidy
    <2>2. CASE b = a
      BY <1>2, <1>4, <1>5, <2>1, <2>2 DEF Polled, Owed
    <2>3. CASE b # a
      <3>1. \A x \in Range(queue) :
              x.actor = b /\ x.kind \in {"init_request", "init_reply"} => x \in Range(queue')
        BY <1>2, <1>5, BehindTidy
      <3>2. QED
        BY <1>2, <2>1, <2>3, <3>1, PolledKept
    <2>4. QED
      BY <2>2, <2>3
  <1>7. pending_init' \subseteq managed /\ state[y.actor] # "NEW"
    BY <1>2, <1>3, <1>4, BehindTidy, BeforeTidy DEF Live
  <1>8. QED
    BY <1>2, <1>3, <1>4, <1>6, <1>7, BehindTidy, BeforeTidy, FailedTidy

LEMMA BootTidy == ASSUME Inv, Tidy, Onward, Boot PROVE Entries'
  <1> DEFINE y == Msg("init_request", Root)
  <1>1. /\ ~booted
        /\ pending_init' = pending_init \cup {Root}
        /\ queue' = Append(queue, y)
        /\ UNCHANGED <<managed, deaf, asked, pending_shutdown, fault, state, poll,
                       holding, init_request>>
    BY DEF Boot
  <1>2. fault = "none" /\ Root \in managed
    BY <1>1 DEF Tidy, Unbooted
  <1>3. Root \in Actors /\ state[Root] = "INITIALIZING"
    BY <1>1, <1>2, BeforeTidy DEF Tidy, Unbooted
  <1>4. y \in Message /\ y.actor = Root /\ y.kind = "init_request"
    BY <1>3, MsgType DEF ToActor, ToSupervisor
  <1> HIDE DEF y
  <1>5. Range(queue) \subseteq Range(queue') /\ y \in Range(queue')
    BY <1>1, <1>2, <1>4, BeforeTidy, ExtendsOnce, ExtendsRange
  <1>6. ASSUME NEW b \in Actors PROVE Polled(b)'
    <2>1. Polled(b)
      BY <1>2, BeforeTidy
    <2>2. CASE b = Root
      BY <1>1, <1>4, <1>5, <2>1, <2>2 DEF Polled, Owed
    <2>3. CASE b # Root
      BY <1>1, <1>5, <2>1, <2>3, PolledKept
    <2>4. QED
      BY <2>2, <2>3
  <1>7. pending_init' \subseteq managed
    BY <1>1, <1>2, BeforeTidy
  <1>8. QED
    BY <1>1, <1>2, <1>3, <1>4, <1>6, <1>7, BeforeTidy, FailedTidy DEF Live

\* A step on somebody's way out, in which nobody is removed.
LEMMA ShuttingTidy ==
    ASSUME Inv, Tidy, Onward, Delivery, m.kind \notin {"init_request", "init_reply"},
           NEW a \in Actors, a = m.actor,
           UNCHANGED <<managed, deaf, fault, poll, holding, init_request>>,
           \A b \in Actors \ {a} : state'[b] = state[b],
           state'[a] = state[a] \/ state'[a] # "INITIALIZING",
           asked \subseteq asked',
           \A b \in pending_shutdown' \ pending_shutdown :
              b \in (managed \cap asked') \ ({Root} \cup asked),
           pending_init' \subseteq pending_init,
           NEW S, Extends(rest, queue', S),
           \A y \in S : /\ y.actor \in Actors
                        /\ state[y.actor] # "NEW"
                        /\ y.kind \in {"shutdown_request", "unsubscription", "shutdown_reply"}
    PROVE  Entries'
  <1>1. \A x \in Range(rest) : x.kind = "create_actor" => state'[x.actor] \in Live
    BY BehindTidy, BeforeTidy, Ranges DEF Wrong, Chain, Says
  <1>2. Ordered(queue')
    <2>1. \A y \in S : \A x \in Range(rest) \cup S : ~Wrong(x, y)
      BY DEF Wrong, EarlyKinds, LastKinds
    <2>2. QED
      BY <2>1, BehindTidy, OrderedMore
  <1>3. \A y \in S : Says(y)'
    BY DEF Says, Onward, EarlyKinds, LastKinds
  <1>4. ASSUME NEW b \in Actors PROVE Polled(b)'
    <2>1. \A x \in Range(queue) : x.kind \in {"init_request", "init_reply"} => x \in Range(queue')
      BY BehindTidy, ExtendsRange
    <2>2. Polled(b)
      BY BehindTidy, BeforeTidy
    <2>3. state'[b] = "INITIALIZING" => state[b] = "INITIALIZING"
      OBVIOUS
    <2>4. QED
      BY <2>1, <2>2, <2>3, PolledKept
  <1>5. /\ fault = "none" /\ fault' = "none" /\ managed \subseteq managed'
        /\ pending_init' \subseteq managed' /\ (Root \in managed' => Root \in managed)
    BY BehindTidy, BeforeTidy
  <1>6. QED
    BY <1>1, <1>2, <1>3, <1>4, <1>5, BehindTidy, Steady

LEMMA OnDeactivationTidy == ASSUME Inv, Tidy, Onward, OnDeactivation PROVE Entries'
  <1>1. PICK a \in Actors : a = m.actor
    BY BehindTidy DEF OnDeactivation, Received
  <1> DEFINE y == Msg("shutdown_reply", a)
             S == {x \in {y} : a \in shutdown_request}
  <1>2. /\ Delivery /\ m.kind = "deactivation"
        /\ pending_init' \subseteq pending_init
        /\ pending_shutdown' \subseteq pending_shutdown
        /\ state' = [state EXCEPT ![a] = "SHUT_DOWN"]
        /\ queue' = IF a \in shutdown_request THEN Append(rest, y) ELSE rest
        /\ UNCHANGED <<managed, deaf, asked, fault, poll, holding, init_request>>
    BY <1>1 DEF OnDeactivation, Received, m
  <1>3. y \in Message /\ y.actor = a /\ y.kind = "shutdown_reply"
    BY MsgType DEF ToActor, ToSupervisor
  <1> HIDE DEF y
  <1>4. Extends(rest, queue', S)
    <2>1. CASE a \in shutdown_request
      BY <1>2, <1>3, <2>1, BehindTidy, ExtendsOnce, ExtendsMore
    <2>2. CASE a \notin shutdown_request
      BY <1>2, <1>3, <2>2, BehindTidy, ExtendsNot, ExtendsMore
    <2>3. QED
      BY <2>1, <2>2
  <1>5. \A x \in S : /\ x.actor \in Actors
                     /\ state[x.actor] # "NEW"
                     /\ x.kind \in {"shutdown_request", "unsubscription", "shutdown_reply"}
    BY <1>1, <1>2, <1>3, BehindTidy DEF Says
  <1> HIDE DEF S
  <1>6. \A b \in Actors \ {a} : state'[b] = state[b]
    BY <1>2
  <1>7. state'[a] # "INITIALIZING"
    BY <1>2 DEF Inv, TypeOK
  <1>8. QED
    BY <1>1, <1>2, <1>4, <1>5, <1>6, <1>7, ShuttingTidy

LEMMA ShutdownStartTidy ==
    ASSUME Inv, Tidy, Onward, Delivery, m.kind \notin {"init_request", "init_reply"},
           NEW a \in Actors, a = m.actor,
           UNCHANGED <<managed, deaf, fault, poll, holding, init_request>>,
           NEW own, ShutdownStart(a, own, rest)
    PROVE  Entries'
  <1> DEFINE ask == Kids(a) \ asked
             y == Msg("unsubscription", a)
             S == {Msg("shutdown_request", c) : c \in ask}
  <1>1. /\ state' = [state EXCEPT ![a] = "SHUTTING_DOWN"]
        /\ asked' = asked \cup ask \cup own
        /\ pending_init' = pending_init \ Cancelled(ask \cup own)
        /\ pending_shutdown' = pending_shutdown \cup ask
        /\ \/ queue' = Append(rest, y)
           \/ \E s \in ToEach("shutdown_request", ask) : queue' = rest \o s
    BY DEF ShutdownStart
  <1>2. /\ y \in Message /\ y.actor = a /\ y.kind = "unsubscription"
        /\ "shutdown_request" \in ToActor \cup ToSupervisor
    BY MsgType DEF ToActor, ToSupervisor
  <1>3. /\ \A b \in Actors \ {a} : state'[b] = state[b]
        /\ state'[a] # "INITIALIZING"
    BY <1>1 DEF Inv, TypeOK
  <1>4. /\ asked \subseteq asked' /\ pending_init' \subseteq pending_init
        /\ \A b \in pending_shutdown' \ pending_shutdown :
              b \in (managed \cap asked') \ ({Root} \cup asked)
    BY <1>1 DEF Kids
  <1>5. \A c \in ask : c \in Actors /\ state[c] # "NEW"
    BY BehindTidy, BeforeTidy DEF Kids
  <1>6. ask \in SUBSET Actors
    BY <1>5
  <1>7. state[a] # "NEW"
    BY BehindTidy DEF Says
  <1> HIDE DEF ask, y
  <1>8. CASE queue' = Append(rest, y)
    <2>1. Extends(rest, queue', {y})
      BY <1>2, <1>8, BehindTidy, ExtendsOnce
    <2> DEFINE T == {y}
    <2>2. \A x \in T :
             /\ x.actor \in Actors
             /\ state[x.actor] # "NEW"
             /\ x.kind \in {"shutdown_request", "unsubscription", "shutdown_reply"}
      BY <1>2, <1>7
    <2>3. Extends(rest, queue', T)
      BY <2>1
    <2> HIDE DEF T
    <2>4. QED
      BY <1>3, <1>4, <2>2, <2>3, ShuttingTidy
  <1>9. ASSUME NEW s \in ToEach("shutdown_request", ask), queue' = rest \o s
        PROVE  Entries'
    <2>1. Extends(rest, queue', S)
      BY <1>2, <1>6, <1>9, BehindTidy, ExtendsAll
    <2>2. \A x \in S :
             /\ x.actor \in Actors
             /\ state[x.actor] # "NEW"
             /\ x.kind \in {"shutdown_request", "unsubscription", "shutdown_reply"}
      BY <1>5 DEF Msg
    <2> HIDE DEF S
    <2>3. QED
      BY <1>3, <1>4, <2>1, <2>2, ShuttingTidy
  <1>10. QED
    BY <1>1, <1>8, <1>9

LEMMA OnShutdownRequestTidy == ASSUME Inv, Tidy, Onward, OnShutdownRequest PROVE Entries'
  <1>1. PICK a \in Actors : a = m.actor
    BY BehindTidy DEF OnShutdownRequest, Received
  <1>2. /\ Delivery /\ m.kind = "shutdown_request"
        /\ ShutdownStart(a, {}, rest)
        /\ UNCHANGED <<managed, deaf, fault, poll, holding, init_request>>
    BY <1>1 DEF OnShutdownRequest, Received, m
  <1>3. QED
    BY <1>1, <1>2, ShutdownStartTidy

LEMMA OnShutdownTriggerTidy == ASSUME Inv, Tidy, Onward, OnShutdownTrigger PROVE Entries'
  <1>1. PICK a \in Actors : a = m.actor
    BY BehindTidy DEF OnShutdownTrigger, Received
  <1>2. /\ Delivery /\ m.kind = "shutdown_trigger" /\ a \in managed
    BY <1>1, BehindTidy DEF OnShutdownTrigger, Received, m, Says, EarlyKinds
  <1>3. UNCHANGED <<managed, deaf, fault, poll, holding, init_request>>
    BY <1>1, <1>2 DEF OnShutdownTrigger
  <1>4. CASE a \in asked
    <2>1. queue' = rest
          /\ UNCHANGED <<state, asked, pending_init, pending_shutdown>>
      BY <1>1, <1>4 DEF OnShutdownTrigger
    <2>2. Extends(rest, queue', {})
      BY <1>2, <2>1, BehindTidy, ExtendsNot
    <2>3. QED
      BY <1>1, <1>2, <1>3, <2>1, <2>2, ShuttingTidy
  <1>5. CASE a \notin asked /\ a = Root
    <2>1. ShutdownStart(a, {Root}, rest)
      BY <1>1, <1>2, <1>5 DEF OnShutdownTrigger
    <2>2. QED
      BY <1>1, <1>2, <1>3, <2>1, ShutdownStartTidy
  <1>6. CASE a \notin asked /\ a # Root
    <2> DEFINE y == Msg("shutdown_request", a)
               S == {y}
    <2>1. /\ asked' = asked \cup {a}
          /\ pending_init' \subseteq pending_init
          /\ pending_shutdown' = pending_shutdown \cup {a}
          /\ queue' = Append(rest, y)
          /\ UNCHANGED state
      BY <1>1, <1>2, <1>6 DEF OnShutdownTrigger
    <2>2. y \in Message /\ y.actor = a /\ y.kind = "shutdown_request"
      BY MsgType DEF ToActor, ToSupervisor
    <2> HIDE DEF y
    <2>3. Extends(rest, queue', S)
      BY <1>2, <2>1, <2>2, BehindTidy, ExtendsOnce
    <2>4. \A x \in S :
             /\ x.actor \in Actors
             /\ state[x.actor] # "NEW"
             /\ x.kind \in {"shutdown_request", "unsubscription", "shutdown_reply"}
      BY <1>2, <2>2, BehindTidy, BeforeTidy
    <2> HIDE DEF S
    <2>5. asked \subseteq asked'
          /\ \A b \in pending_shutdown' \ pending_shutdown :
                b \in (managed \cap asked') \ ({Root} \cup asked)
      BY <1>2, <1>6, <2>1
    <2>6. QED
      BY <1>1, <1>2, <1>3, <2>1, <2>3, <2>4, <2>5, ShuttingTidy
  <1>7. QED
    BY <1>4, <1>5, <1>6

\* The confirmation of a shutdown on its second hop, or the notice of a
\* timeout in its place: there is no other behind it.
LEMMA LastTidy ==
    ASSUME Inv, Tidy, Onward, fault = "none",
           UNCHANGED <<managed, deaf, asked, fault, state, poll, holding, init_request,
                       pending_init>>,
           NEW q \in Seq(Message), Range(q) \subseteq Range(queue), Ordered(q),
           NEW y \in Message, queue' = Append(q, y), y.kind \in LastKinds,
           y.actor \in (managed \cap asked) \ {Root},
           pending_shutdown' = pending_shutdown \ {y.actor},
           \A x \in Range(q) : x.actor = y.actor => x.kind \notin LastKinds,
           \A x \in Range(queue) : x.kind \in {"init_request", "init_reply"} => x \in Range(q)
    PROVE  Entries'
  <1> DEFINE S == {y}
  <1>1. Extends(q, queue', S)
    BY ExtendsOnce
  <1>2. Ordered(queue')
    <2>1. \A x \in Range(q) : ~Wrong(x, y)
      BY DEF Wrong, LastKinds, EarlyKinds
    <2>2. QED
      BY <2>1, OrderedOnce
  <1>3. \A x \in S : Says(x)'
    BY BeforeTidy DEF Says, LastKinds, EarlyKinds
  <1>4. \A b \in Actors : Polled(b)'
    BY <1>1, BeforeTidy, ExtendsRange, PolledKept
  <1>5. \A x \in Range(q) : x.kind = "create_actor" => state'[x.actor] \in Live
    BY BeforeTidy DEF Chain, Says
  <1> HIDE DEF S
  <1>6. /\ pending_shutdown' \subseteq pending_shutdown
        /\ pending_init' \subseteq managed'
    BY BeforeTidy
  <1>7. QED
    BY <1>1, <1>2, <1>3, <1>4, <1>5, <1>6, Steady

LEMMA ShutdownTimeoutTidy ==
    ASSUME Inv, Tidy, Onward, NEW a \in Actors, ShutdownTimeout(a) PROVE Entries'
  <1> DEFINE y == Failed("shutdown_response", a)
  <1>1. /\ fault = "none" /\ a \in pending_shutdown
        /\ pending_shutdown' = pending_shutdown \ {a}
        /\ queue' = Append(queue, y)
        /\ UNCHANGED <<managed, deaf, asked, fault, state, poll, holding, init_request,
                       pending_init>>
    BY DEF ShutdownTimeout
  <1>2. y \in Message /\ y.actor = a /\ y.kind \in LastKinds
    BY MsgType DEF ToActor, ToSupervisor, LastKinds
  <1> HIDE DEF y
  <1>3. a \in (managed \cap asked) \ {Root}
    BY <1>1, BeforeTidy DEF Chain
  <1>4. \A x \in Range(queue) : x.actor = a => x.kind \notin LastKinds
    BY <1>1, BeforeTidy DEF Chain, Says
  <1>5. QED
    BY <1>1, <1>2, <1>3, <1>4, BeforeTidy, LastTidy

LEMMA OnShutdownReplyTidy == ASSUME Inv, Tidy, Onward, OnShutdownReply PROVE Entries'
  <1>1. PICK a \in Actors : a = m.actor
    BY BehindTidy DEF OnShutdownReply, Received
  <1> DEFINE y == [m EXCEPT !.kind = "shutdown_response"]
  <1>2. /\ Delivery /\ m.kind = "shutdown_reply"
        /\ pending_shutdown' = pending_shutdown \ {a}
        /\ queue' = IF a \in pending_shutdown THEN Append(rest, y) ELSE rest
        /\ UNCHANGED <<managed, deaf, asked, fault, state, poll, holding, init_request,
                       pending_init>>
    BY <1>1 DEF OnShutdownReply, Received, m
  <1>3. y \in Message /\ y.actor = a /\ y.kind \in LastKinds
    BY <1>1, <1>2, BehindTidy DEF Message, ToActor, ToSupervisor, LastKinds
  <1> HIDE DEF y
  <1>4. CASE a \in pending_shutdown
    <2>1. a \in (managed \cap asked) \ {Root}
      BY <1>2, <1>4, BehindTidy, BeforeTidy DEF Chain
    <2>2. \A x \in Range(rest) : x.actor = a => x.kind \notin LastKinds
      BY <1>2, <1>4, BehindTidy, BeforeTidy DEF Chain, Says
    <2>3. \A x \in Range(queue) : x.kind \in {"init_request", "init_reply"} => x \in Range(rest)
      BY <1>2, BehindTidy
    <2>4. queue' = Append(rest, y) /\ pending_shutdown' = pending_shutdown \ {y.actor}
      BY <1>2, <1>3, <1>4
    <2>5. QED
      BY <1>2, <1>3, <2>1, <2>2, <2>3, <2>4, BehindTidy, LastTidy
  <1>5. CASE a \notin pending_shutdown
    <2>1. queue' = rest /\ pending_shutdown' = pending_shutdown
      BY <1>2, <1>5
    <2>2. Extends(rest, queue', {})
      BY <1>2, <2>1, BehindTidy, ExtendsNot
    <2>3. QED
      BY <1>1, <1>2, <2>1, <2>2, ShuttingTidy
  <1>6. QED
    BY <1>4, <1>5

---------------------------------------------------------------------------
\* The steps that remove an entry of actors_map, or unsubscribe an actor.
LEMMA NoneOwed ==
    ASSUME Inv, Tidy, Delivery, Late(m), NEW c \in Actors, c = m.actor
    PROVE  c \notin pending_init \ Cancelled({c})
  <1> SUFFICES ASSUME c \in pending_init, c \notin init_request PROVE FALSE
    BY DEF Cancelled
  <1>1. PICK x \in Range(queue) : x.actor = c /\ x.kind \in {"init_request", "init_reply"}
    BY BehindTidy, BeforeTidy DEF Polled, Owed
  <1>2. x \in Range(rest)
    BY <1>1, BehindTidy DEF Late
  <1>3. QED
    BY <1>1, <1>2, BehindTidy DEF Wrong, EarlyKinds

LEMMA Leaving ==
    ASSUME Inv, Tidy, Onward, Delivery, Late(m), NEW c \in Actors, c = m.actor,
           managed' \subseteq managed, managed \ {c} \subseteq managed',
           deaf' \subseteq deaf \cup {c}, Root \in managed' <=> Root \notin deaf',
           \/ c \in managed'
           \/ /\ c \notin pending_shutdown
              /\ \A x \in Range(rest) : x.actor = c => x.kind \notin LastKinds,
           UNCHANGED <<asked, pending_shutdown, fault>>,
           pending_init' \subseteq managed',
           \A a \in Actors : state[a] \in Live => state'[a] \in Live,
           NEW S, Extends(rest, queue', S),
           \A y \in S :
              /\ y.actor \in Actors
              /\ state[y.actor] # "NEW"
              /\ y.kind \notin LastKinds \cup {"create_actor", "start_actor"}
              /\ y.kind \in EarlyKinds =>
                   /\ state[y.actor] \in Live
                   /\ y.actor # c
                   /\ \A x \in S : Late(x) => x.actor # y.actor
              /\ y.kind = "subscription" => y.actor \in Subscribers,
           \A a \in Actors : Polled(a)'
    PROVE  Entries'
  <1>1. /\ Chain /\ fault = "none" /\ rest \in Seq(Message)
        /\ Range(rest) \subseteq Range(queue) /\ Ordered(rest)
        /\ pending_shutdown \subseteq managed
    BY BehindTidy, BeforeTidy
  <1>2. Ordered(queue')
    <2>1. \A y \in S :
              /\ y.kind \notin LastKinds \cup {"create_actor"}
              /\ y.kind \in EarlyKinds =>
                   /\ state[y.actor] \in Live
                   /\ \A x \in S : Late(x) => x.actor # y.actor
      OBVIOUS
    <2>2. QED
      BY <1>1, <2>1, NewOrdered
  <1>3. ASSUME NEW y \in S PROVE Says(y)'
    <2>1. y.kind \in EarlyKinds => y.actor \in managed' \ deaf'
      BY <1>1, LiveManaged
    <2>2. QED
      BY <2>1 DEF Says, Onward
  <1>4. ASSUME NEW x \in Range(rest) PROVE Says(x)'
    <2>1. x.actor \in Actors /\ Says(x) /\ ~Wrong(m, x)
      BY <1>1, Ranges, BehindTidy DEF Chain
    <2>2. x.kind \in EarlyKinds => x.actor # c
      BY <2>1 DEF Wrong
    <2>3. x.kind \in EarlyKinds => x.actor \in managed' \ deaf'
      BY <2>1, <2>2 DEF Says
    <2>4. x.kind \in LastKinds => x.actor \in managed' \ pending_shutdown'
      BY <2>1 DEF Says
    <2>5. x.kind = "create_actor" => state'[x.actor] \in Live
      BY <2>1 DEF Says
    <2>6. QED
      BY <2>1, <2>3, <2>4, <2>5, SaysKept
  <1>5. \A x \in Range(queue') : Says(x)'
    BY <1>1, <1>3, <1>4, ExtendsRange
  <1>6. pending_shutdown' \subseteq asked' \ {Root} /\ pending_shutdown' \subseteq managed'
    BY <1>1 DEF Chain
  <1>7. Chain'
    BY <1>2, <1>5, <1>6 DEF Chain
  <1>8. QED
    BY <1>1, <1>6, <1>7 DEF Entries, NothingMissing

LEMMA OnUnsubscriptionTidy == ASSUME Inv, Tidy, Onward, OnUnsubscription PROVE Entries'
  <1>1. PICK a \in Actors : a = m.actor
    BY BehindTidy DEF OnUnsubscription, Received
  <1> DEFINE y == Msg("deactivation", a)
             S == {y}
  <1>2. /\ Delivery /\ m.kind = "unsubscription"
        /\ deaf' = deaf \cup {a}
        /\ queue' = Append(rest, y)
        /\ IF a = Root
           THEN /\ managed' = managed \ {Root}
                /\ pending_init' = pending_init \ Cancelled({Root})
           ELSE UNCHANGED <<managed, pending_init>>
        /\ UNCHANGED <<asked, pending_shutdown, fault, state, poll, holding, init_request>>
    BY <1>1 DEF OnUnsubscription, Received, m
  <1>3. y \in Message /\ y.actor = a /\ y.kind = "deactivation"
    BY MsgType DEF ToActor, ToSupervisor
  <1>4. Late(m) /\ state[a] # "NEW" /\ a \notin deaf
    BY <1>1, <1>2, BehindTidy DEF Late, Says, Staged
  <1> HIDE DEF y
  <1>5. Extends(rest, queue', S)
    BY <1>2, <1>3, BehindTidy, ExtendsOnce
  <1>6. \A x \in S :
              /\ x.actor \in Actors
              /\ state[x.actor] # "NEW"
              /\ x.kind \notin LastKinds \cup {"create_actor", "start_actor"}
              /\ x.kind \in EarlyKinds =>
                   /\ state[x.actor] \in Live
                   /\ x.actor # a
                   /\ \A z \in S : Late(z) => z.actor # x.actor
              /\ x.kind = "subscription" => x.actor \in Subscribers
    BY <1>3, <1>4 DEF LastKinds, EarlyKinds
  <1> HIDE DEF S
  <1>7. \A b \in Actors : Polled(b)'
    <2>1. \A x \in Range(queue) : x.kind \in {"init_request", "init_reply"} => x \in Range(queue')
      BY <1>2, <1>5, BehindTidy, ExtendsRange
    <2>2. pending_init' \subseteq pending_init
      BY <1>2
    <2>3. QED
      BY <1>2, <2>1, <2>2, BehindTidy, BeforeTidy, PolledKept
  <1>8. pending_init' \subseteq managed'
    <2>1. a \notin pending_init \ Cancelled({a})
      BY <1>1, <1>2, <1>4, NoneOwed
    <2>2. QED
      BY <1>2, <2>1, BehindTidy, BeforeTidy
  <1>9. /\ managed' \subseteq managed /\ managed \ {a} \subseteq managed'
        /\ deaf' \subseteq deaf \cup {a} /\ (Root \in managed' <=> Root \notin deaf')
    BY <1>2, BehindTidy, BeforeTidy DEF Chain
  <1>10. \/ a \in managed'
         \/ /\ a \notin pending_shutdown
            /\ \A x \in Range(rest) : x.actor = a => x.kind \notin LastKinds
    <2>1. CASE a = Root
      <3>1. Root \notin pending_shutdown
        BY <1>2, BehindTidy, BeforeTidy DEF Chain
      <3>2. \A x \in Range(rest) : x.kind \in LastKinds => x.actor # Root
        BY <1>2, BehindTidy, BeforeTidy DEF Chain, Says
      <3>3. QED
        BY <2>1, <3>1, <3>2
    <2>2. CASE a # Root
      <3>1. state[a] # "SHUT_DOWN" /\ Stages
        BY <1>2, <1>4, BehindTidy, BeforeTidy DEF Stages, StageOf
      <3>2. a \in managed
        BY <1>4, <2>2, <3>1 DEF Stages, StageOf
      <3>3. QED
        BY <1>2, <2>2, <3>2
    <2>3. QED
      BY <2>1, <2>2
  <1>11. \A b \in Actors : state[b] \in Live => state'[b] \in Live
    BY <1>2
  <1>12. QED
    BY <1>1, <1>2, <1>4, <1>5, <1>6, <1>7, <1>8, <1>9, <1>10, <1>11, Leaving

LEMMA RemoveChildTidy ==
    ASSUME Inv, Tidy, Onward, Delivery, Late(m), m.kind \in LastKinds,
           NEW c \in Actors, c = m.actor, RemoveChild(c, rest), UNCHANGED deaf
    PROVE  Entries'
  <1>1. PICK p \in Supervisors : p = Parent[c] /\ p \in Actors
    BY BehindTidy
  <1> DEFINE kids == Kids(p) \ {c}
             failed == state[p] = "INITIALIZING" /\ c \notin strated
             escalates == failed /\ p \in ShutdownSelf /\ p \in init_request
             f == Failed("init_reply", p)
             u == Msg("unsubscription", p)
             sent == rest \o (IF failed /\ p \notin ShutdownSelf THEN DoShutdown(p)
                              ELSE IF escalates THEN <<f>> ELSE <<>>)
             T == {x \in {f, Msg("shutdown_trigger", p)} : state[p] = "INITIALIZING"}
  <1>2. /\ managed' = managed \ {c}
        /\ pending_init' = pending_init \ Cancelled({c})
        /\ IF ManagerContinues(p, kids) /\ ~escalates
           THEN InitContinue(p, "child_manager", {}, sent)
           ELSE /\ init_request' = IF escalates THEN init_request \ {p} ELSE init_request
                /\ queue' = IF state[p] = "SHUTTING_DOWN" /\ kids = {}
                            THEN Append(sent, u) ELSE sent
                /\ UNCHANGED <<state, poll, holding>>
        /\ fault' = IF c \in managed THEN fault ELSE "no entry"
        /\ UNCHANGED <<asked, pending_shutdown>>
    BY <1>1 DEF RemoveChild
  <1>3. /\ c \in managed /\ c \notin pending_shutdown /\ c # Root
        /\ UNCHANGED fault /\ p # c /\ fault = "none"
    BY <1>1, <1>2, BehindTidy, TreeAssumption DEF Says
  <1>4. /\ f \in Message /\ f.actor = p /\ f.kind = "init_reply"
        /\ u \in Message /\ u.actor = p /\ u.kind = "unsubscription"
    BY <1>1, MsgType DEF ToActor, ToSupervisor
  <1>5. \A x \in T : x.actor = p /\ x.kind \in {"init_reply", "shutdown_trigger"}
                     /\ state[p] = "INITIALIZING"
    BY <1>1, <1>4, MsgType DEF ToActor, ToSupervisor
  <1> HIDE DEF f, u, kids
  <1>6. Extends(rest, sent, T) /\ (escalates => f \in Range(sent))
    <2>1. rest \in Seq(Message) /\ rest \o <<>> = rest /\ rest \o <<f>> = Append(rest, f)
      BY <1>4, BehindTidy
    <2>2. CASE failed /\ p \notin ShutdownSelf
      <3>1. Extends(rest, rest \o DoShutdown(p),
                    {x \in {Msg("shutdown_trigger", p)} : state[p] \in Live})
        BY <1>1, <2>1, ExtendsTrigger
      <3>2. {x \in {Msg("shutdown_trigger", p)} : state[p] \in Live} \subseteq T
        BY <2>2
      <3>3. QED
        BY <2>2, <3>1, <3>2, ExtendsMore
    <2>3. CASE escalates
      <3>1. sent = Append(rest, f)
        BY <2>1, <2>3
      <3>2. {f} \subseteq T
        BY <2>3
      <3>3. Extends(rest, Append(rest, f), {f}) /\ f \in Range(Append(rest, f))
        BY <1>4, <2>1, ExtendsOnce
      <3>4. f \in Range(sent) /\ Extends(rest, sent, {f})
        BY <3>1, <3>3
      <3> HIDE DEF T, sent
      <3>5. QED
        BY <3>2, <3>4, ExtendsMore
    <2>4. CASE ~(failed /\ p \notin ShutdownSelf) /\ ~escalates
      <3>1. sent = rest
        BY <2>1, <2>4
      <3> HIDE DEF T, sent
      <3>2. Extends(rest, sent, {})
        BY <2>1, <3>1, ExtendsNot
      <3>3. QED
        BY <2>4, <3>2, ExtendsMore
    <2>5. QED
      BY <2>2, <2>3, <2>4
  <1>7. \A x \in Range(queue) : x.kind \in {"init_request", "init_reply"} => x \in Range(rest)
    BY BehindTidy DEF LastKinds
  <1>8. \A x \in Range(rest) : x.actor = c => x.kind \notin LastKinds
    BY BehindTidy DEF Wrong
  <1>9. pending_init' \subseteq managed' /\ pending_init' \subseteq pending_init
    <2>1. c \notin pending_init'
      BY <1>2, NoneOwed
    <2>2. QED
      BY <1>2, <1>3, <2>1, BeforeTidy
  <1>10. managed' \subseteq managed /\ managed \ {c} \subseteq managed'
         /\ deaf' \subseteq deaf \cup {c} /\ (Root \in managed' <=> Root \notin deaf')
    BY <1>2, <1>3, BeforeTidy DEF Chain
  <1> HIDE DEF T, sent
  <1>11. CASE ManagerContinues(p, kids) /\ ~escalates
    <2>1. InitContinue(p, "child_manager", {}, sent) /\ state[p] = "INITIALIZING"
      BY <1>2, <1>11 DEF ManagerContinues
    <2>2. TypeOK /\ sent \in Seq(Message)
      BY <1>6 DEF Inv, Extends
    <2>3. PICK S :
           /\ Extends(sent, queue', S)
           /\ \A y \in S : /\ y.actor = p
                           /\ \/ y.kind = "init_reply"
                              \/ y.kind = "subscription" /\ p \in Subscribers
      BY <1>1, <2>1, <2>2, Continues
    <2> DEFINE U == T \cup S
    <2>4. Extends(rest, queue', U)
      BY <1>6, <2>3, BehindTidy, ExtendsThen
    <2>5. \A y \in U :
              /\ y.actor \in Actors
              /\ state[y.actor] # "NEW"
              /\ y.kind \notin LastKinds \cup {"create_actor", "start_actor"}
              /\ y.kind \in EarlyKinds =>
                   /\ state[y.actor] \in Live
                   /\ y.actor # c
                   /\ \A x \in U : Late(x) => x.actor # y.actor
              /\ y.kind = "subscription" => y.actor \in Subscribers
      BY <1>1, <1>3, <1>5, <2>1, <2>3 DEF LastKinds, EarlyKinds, Late, Live
    <2> HIDE DEF U
    <2>6. UNCHANGED state \/ state' = [state EXCEPT ![p] = "INITIALIZED"]
      BY <1>1, <2>1, <2>2, Continues
    <2>7. /\ \/ p \in init_request'
             \/ \E x \in Range(queue') : x.actor = p /\ x.kind = "init_reply"
          /\ p \in holding' => p \in init_request' /\ poll'[p] = "resources"
          /\ poll'[p] = "link_client" => p \in Linkers
          /\ \A b \in Actors \ {p} :
                /\ poll'[b] = poll[b]
                /\ b \in holding' => b \in holding
                /\ b \in init_request => b \in init_request'
      BY <1>1, <2>1, <2>2, Continues
    <2>8. \A b \in Actors : Polled(b)'
      BY <1>1, <1>3, <1>7, <1>9, <2>1, <2>4, <2>6, <2>7, BehindTidy, ContinuesPolled
    <2>9. \A b \in Actors : state[b] \in Live => state'[b] \in Live
      BY <2>2, <2>6 DEF TypeOK, Live
    <2>10. QED
      BY <1>2, <1>3, <1>8, <1>9, <1>10, <2>4, <2>5, <2>8, <2>9, Leaving
  <1>12. CASE ~(ManagerContinues(p, kids) /\ ~escalates)
    <2>1. /\ init_request' = IF escalates THEN init_request \ {p} ELSE init_request
          /\ queue' = IF state[p] = "SHUTTING_DOWN" /\ kids = {}
                      THEN Append(sent, u) ELSE sent
          /\ UNCHANGED <<state, poll, holding>>
      BY <1>2, <1>12
    <2> DEFINE S == {x \in {u} : state[p] = "SHUTTING_DOWN"}
               U == T \cup S
    <2>2. Extends(sent, queue', S)
      <3>1. CASE state[p] = "SHUTTING_DOWN" /\ kids = {}
        BY <1>4, <1>6, <2>1, <3>1, ExtendsOnce, ExtendsMore DEF Extends
      <3>2. CASE ~(state[p] = "SHUTTING_DOWN" /\ kids = {})
        BY <1>6, <2>1, <3>2, ExtendsNot, ExtendsMore DEF Extends
      <3>3. QED
        BY <3>1, <3>2
    <2>3. Extends(rest, queue', U)
      BY <1>6, <2>2, BehindTidy, ExtendsThen
    <2>4. \A y \in U :
              /\ y.actor \in Actors
              /\ state[y.actor] # "NEW"
              /\ y.kind \notin LastKinds \cup {"create_actor", "start_actor"}
              /\ y.kind \in EarlyKinds =>
                   /\ state[y.actor] \in Live
                   /\ y.actor # c
                   /\ \A x \in U : Late(x) => x.actor # y.actor
              /\ y.kind = "subscription" => y.actor \in Subscribers
      BY <1>1, <1>3, <1>4, <1>5 DEF LastKinds, EarlyKinds, Late, Live
    <2>5. Range(sent) \subseteq Range(queue') /\ Range(rest) \subseteq Range(queue')
      BY <1>6, <2>2, <2>3, BehindTidy, ExtendsRange DEF Extends
    <2> HIDE DEF U, S
    <2>6. ASSUME NEW b \in Actors PROVE Polled(b)'
      <3>1. Polled(b)
        BY <1>3, BeforeTidy
      <3>2. CASE b = p /\ escalates
        <4>1. p \notin holding
          BY HoldersAssumption DEF Inv, TypeOK
        <4>2. f \in Range(queue')
          BY <1>6, <2>5, <3>2
        <4>3. QED
          BY <1>4, <2>1, <3>1, <3>2, <4>1, <4>2 DEF Polled, Owed
      <3>3. CASE ~(b = p /\ escalates)
        <4>1. b \in init_request => b \in init_request'
          BY <2>1, <3>3
        <4>2. QED
          BY <1>7, <1>9, <2>1, <2>5, <3>1, <4>1, PolledKept
      <3>4. QED
        BY <3>2, <3>3
    <2>7. \A b \in Actors : state[b] \in Live => state'[b] \in Live
      BY <2>1
    <2>8. QED
      BY <1>2, <1>3, <1>8, <1>9, <1>10, <2>3, <2>4, <2>6, <2>7, Leaving
  <1>13. QED
    BY <1>11, <1>12

LEMMA OnForgetTidy == ASSUME Inv, Tidy, Onward, OnForget PROVE Entries'
  <1>1. PICK c \in Actors : c = m.actor
    BY BehindTidy DEF OnForget, Received
  <1>2. /\ Delivery /\ m.kind = "forget" /\ RemoveChild(c, rest)
    BY <1>1 DEF OnForget, Received, m
  <1>3. Late(m) /\ m.kind \in LastKinds /\ UNCHANGED deaf
    BY <1>2 DEF Late, LastKinds, RemoveChild
  <1>4. QED
    BY <1>1, <1>2, <1>3, RemoveChildTidy

LEMMA OnShutdownResponseTidy == ASSUME Inv, Tidy, Onward, OnShutdownResponse PROVE Entries'
  <1>1. PICK a \in Actors : a = m.actor
    BY BehindTidy DEF OnShutdownResponse, Received
  <1>2. /\ Delivery /\ m.kind = "shutdown_response" /\ m.kind \in LastKinds
        /\ a \in (managed \cap asked) \ (pending_shutdown \cup {Root})
    BY <1>1, BehindTidy DEF OnShutdownResponse, Received, m, Says, LastKinds
  <1>3. CASE ~m.ok
    <2>1. fault' = "on_error" /\ UNCHANGED <<managed, pending_init, pending_shutdown>>
      BY <1>1, <1>2, <1>3 DEF OnShutdownResponse
    <2>2. QED
      BY <1>2, <2>1, BehindTidy, BeforeTidy DEF Entries, NothingMissing
  <1>4. CASE m.ok /\ Mapped(a)
    <2> DEFINE y == Msg("forget", a)
    <2>1. /\ queue' = Append(rest, y)
          /\ UNCHANGED <<managed, deaf, asked, fault, state, poll, holding, init_request,
                         pending_init, pending_shutdown>>
      BY <1>1, <1>2, <1>4 DEF OnShutdownResponse
    <2>2. y \in Message /\ y.actor = a /\ y.kind \in LastKinds
      BY MsgType DEF ToActor, ToSupervisor, LastKinds
    <2> HIDE DEF y
    <2>3. \A x \in Range(rest) : x.actor = a => x.kind \notin LastKinds
      BY <1>1, <1>2, BehindTidy DEF Wrong
    <2>4. \A x \in Range(queue) : x.kind \in {"init_request", "init_reply"} => x \in Range(rest)
      BY <1>2, BehindTidy
    <2>5. pending_shutdown' = pending_shutdown \ {y.actor}
      BY <1>2, <2>1, <2>2
    <2>6. QED
      BY <1>2, <2>1, <2>2, <2>3, <2>4, <2>5, BehindTidy, LastTidy
  <1>5. CASE m.ok /\ ~Mapped(a)
    <2>1. RemoveChild(a, rest)
      BY <1>1, <1>5 DEF OnShutdownResponse
    <2>2. Late(m) /\ UNCHANGED deaf
      BY <1>2, <1>5, <2>1 DEF Late, RemoveChild
    <2>3. QED
      BY <1>1, <1>2, <2>1, <2>2, RemoveChildTidy
  <1>6. QED
    BY <1>3, <1>4, <1>5

---------------------------------------------------------------------------
LEMMA TidyKept == ASSUME Inv, Tidy, [Next]_vars PROVE Tidy'
  <1>1. Onward
    BY StatesAdvance
  <1>2. ASSUME UNCHANGED vars PROVE Entries'
    BY <1>2 DEF vars, Tidy, Entries, Chain, Says, Led, Polled, Owed, NothingMissing
  <1>3. ASSUME Boot PROVE Entries'
    BY <1>1, <1>3, BootTidy
  <1>4. ASSUME Deliver PROVE Entries'
    BY <1>1, <1>4, DropTidy, OnCreateTidy, OnInitRequestTidy, OnInitReplyTidy,
       OnInitSuccessTidy, OnInitFailureTidy, OnShutdownTriggerTidy,
       OnShutdownRequestTidy, OnShutdownReplyTidy, OnShutdownResponseTidy,
       OnForgetTidy, OnStartTidy, OnSubscriptionTidy, OnUnsubscriptionTidy,
       OnDeactivationTidy DEF Deliver
  <1>5. ASSUME NEW a \in Actors,
               \/ Create(a) \/ UserShutdown(a) \/ Acquire(a) \/ Release(a) \/ LinkDone(a)
               \/ LinkFails(a) \/ InitTimeout(a) \/ ShutdownTimeout(a)
        PROVE  Entries'
    BY <1>1, <1>5, CreateTidy, UserShutdownTidy, AcquireTidy, ReleaseTidy, LinkDoneTidy,
       LinkFailsTidy, InitTimeoutTidy, ShutdownTimeoutTidy
  <1>6. Entries'
    BY <1>2, <1>3, <1>4, <1>5 DEF Next, Tidy
  <1>7. QED
    BY <1>6, BootedKept, AroundKept DEF Tidy

\* What is in actors_map, in the request_map of the supervisors and in the
\* queue fits together, in every state of every behaviour
\* (src/rotor/plugin/child_manager.cpp, init_shutdown.cpp).
THEOREM Tidiness == Spec => []Tidy
  <1>1. Init => Tidy
    BY InitTidy
  <1>2. Inv /\ Tidy /\ [Next]_vars => Tidy'
    BY TidyKept
  <1>3. QED
    BY <1>1, <1>2, Invariance, PTL DEF Spec

\* A supervisor keeps no request to a child it has forgotten, so that no timer
\* of such a request fires later (child_manager.cpp:161).
THEOREM ForgottenWithoutRequest == Spec => []ForgottenLeavesNoRequest
  <1>1. Tidy => ForgottenLeavesNoRequest
    BY DEF Tidy, Entries, ForgottenLeavesNoRequest
  <1>2. QED
    BY <1>1, Tidiness, PTL

\* With synchronize_start no child is OPERATIONAL before its supervisor, nor
\* after it (child_manager_plugin_t::handle_start()).
THEOREM StartedTogether == Spec => []ChildrenStartAfterSupervisor
  <1>1. Tidy => ChildrenStartAfterSupervisor
    BY DEF Tidy, Around, Led, ChildrenStartAfterSupervisor
  <1>2. QED
    BY <1>1, Tidiness, PTL

\* actors_map.at() in the noexcept handlers of child_manager.cpp finds its entry,
\* with and without subscribers, so that it never throws.
THEOREM EntriesAreThere == Spec => [](fault # "no entry")
  <1>1. Tidy => fault # "no entry"
    BY DEF Tidy, Entries, NothingMissing
  <1>2. QED
    BY <1>1, Tidiness, PTL

\* Where no actor has subscriptions of its own to wait for, no assertion of
\* child_manager.cpp, actor_base.cpp or resources.cpp fails and actors_map.at()
\* does not throw.  (A subscriber that is shut down early makes one fail.)
THEOREM AssertionsHold == ASSUME Subscribers = {} PROVE Spec => []NoAssertionFails
  <1>1. Tidy => NoAssertionFails
    BY DEF Tidy, Entries, NothingMissing, NoAssertionFails
  <1>2. QED
    BY <1>1, Tidiness, PTL

---------------------------------------------------------------------------
\* Who finishes an initialization.
LEMMA ContinuesFree ==
    ASSUME TypeOK, NEW a \in Actors, NEW done, NEW kids, NEW q, InitContinue(a, done, kids, q),
           NEW p \in Supervisors, state[p] = "INITIALIZING", state'[p] = "INITIALIZED"
    PROVE  /\ a = p /\ \A c \in Actors \ {p} : state'[c] = state[c]
           /\ done = "init_shutdown" => ~AnyInitializing(kids)
  <1>1. state \in [Actors -> States] /\ p \in Actors
    BY TreeAssumption DEF TypeOK
  <1>2. state' = [state EXCEPT ![a] = "INITIALIZED"] \/ UNCHANGED state
    BY DEF InitContinue
  <1>3. state' = [state EXCEPT ![a] = "INITIALIZED"] /\ a = p
    BY <1>1, <1>2
  <1>4. StopsAt(a, done, kids) = "none"
    <2>1. state'[a] # state[a]
      BY <1>3
    <2>2. QED
      BY <2>1 DEF InitContinue
  <1>5. done = "init_shutdown" => ~AnyInitializing(kids)
    BY <1>3, <1>4 DEF StopsAt
  <1>6. QED
    BY <1>1, <1>3, <1>5

\* What there is of p's children is in its actors_map.
LEMMA FreeWaits ==
    ASSUME Inv, fault = "none", NEW p \in Supervisors, NEW x,
           \A c \in Kids(p) \ {x} : state[c] # "INITIALIZING",
           x \in Kids(p) => state[x] # "INITIALIZING",
           \A c \in Actors \ {p} : state'[c] = state[c]
    PROVE  \A c \in Actors : Parent[c] = p /\ c # p => state'[c] # "INITIALIZING"
  <1> SUFFICES ASSUME NEW c \in Actors, Parent[c] = p, c # p
               PROVE  state[c] # "INITIALIZING"
    OBVIOUS
  <1>1. c # Root
    BY TreeAssumption
  <1>2. CASE c \in managed
    BY <1>1, <1>2 DEF Kids
  <1>3. CASE c \notin managed
    BY <1>1, <1>3, Before DEF Stages, StageOf
  <1>4. QED
    BY <1>2, <1>3

LEMMA RemoveChildWaits ==
    ASSUME Inv, Tidy, Delivery, Late(m), m.kind \in LastKinds,
           NEW x \in Actors, x = m.actor, RemoveChild(x, rest),
           NEW p \in Supervisors, state[p] = "INITIALIZING", state'[p] = "INITIALIZED"
    PROVE  \A c \in Actors : Parent[c] = p /\ c # p => state'[c] # "INITIALIZING"
  <1>1. TypeOK /\ Parent[x] \in Actors /\ state[x] # "INITIALIZING" /\ fault = "none"
    BY BehindTidy DEF Inv, Late, LastKinds, Confirms
  <1>2. PICK q : /\ ManagerContinues(Parent[x], Kids(Parent[x]) \ {x})
                 /\ InitContinue(Parent[x], "child_manager", {}, q)
    BY <1>1 DEF RemoveChild, TypeOK
  <1>3. Parent[x] = p /\ \A c \in Actors \ {p} : state'[c] = state[c]
    BY <1>1, <1>2, ContinuesFree
  <1>4. \A c \in Kids(p) \ {x} : state[c] # "INITIALIZING"
    BY <1>2, <1>3 DEF ManagerContinues, AnyInitializing
  <1>5. QED
    BY <1>1, <1>3, <1>4, FreeWaits

LEMMA DeliveryWaits ==
    ASSUME Inv, Tidy, Deliver, Supervisors \cap (Linkers \cup Subscribers) = {},
           NEW p \in Supervisors, state[p] = "INITIALIZING", state'[p] = "INITIALIZED"
    PROVE  \A c \in Actors : Parent[c] = p /\ c # p => state'[c] # "INITIALIZING"
  <1>1. Delivery
    BY DEF Deliver, Drop, Received, OnCreate, OnInitRequest, OnInitReply,
           OnInitSuccess, OnInitFailure, OnShutdownTrigger, OnShutdownRequest,
           OnShutdownReply, OnShutdownResponse, OnForget, OnStart,
           OnSubscription, OnUnsubscription, OnDeactivation
  <1>2. TypeOK /\ fault = "none" /\ m.actor \in Actors /\ Parent[m.actor] \in Actors
        /\ Root \in Actors /\ p \in Actors /\ state \in [Actors -> States]
    BY <1>1, BehindTidy, TreeAssumption DEF Inv, TypeOK
  <1>3. CASE OnInitRequest
    <2>1. InitContinue(m.actor, "init_shutdown", Kids(m.actor), rest)
      BY <1>3 DEF OnInitRequest
    <2>2. /\ m.actor = p /\ ~AnyInitializing(Kids(p))
          /\ \A c \in Actors \ {p} : state'[c] = state[c]
      BY <1>2, <2>1, ContinuesFree
    <2>3. QED
      BY <1>2, <2>2, FreeWaits DEF AnyInitializing
  <1>4. CASE OnInitSuccess
    <2>1. PICK q : /\ ManagerContinues(Parent[m.actor], Kids(Parent[m.actor]))
                   /\ InitContinue(Parent[m.actor], "child_manager", {}, q)
      BY <1>4 DEF OnInitSuccess
    <2>2. Parent[m.actor] = p /\ \A c \in Actors \ {p} : state'[c] = state[c]
      BY <1>2, <2>1, ContinuesFree
    <2>3. QED
      BY <1>2, <2>1, <2>2, FreeWaits DEF ManagerContinues, AnyInitializing
  <1>5. CASE OnSubscription
    <2>1. m.kind = "subscription" /\ InitContinue(m.actor, "starter", {}, rest)
      BY <1>5 DEF OnSubscription, Received, m
    <2>2. m.actor = p /\ p \in Subscribers
      BY <1>1, <1>2, <2>1, ContinuesFree, BehindTidy DEF Says
    <2>3. QED
      BY <2>2
  <1>6. CASE OnShutdownResponse
    <2>1. m.kind = "shutdown_response" /\ m.ok /\ RemoveChild(m.actor, rest)
      BY <1>6 DEF OnShutdownResponse, Received, m
    <2>2. QED
      BY <1>1, <1>2, <2>1, RemoveChildWaits DEF Late, LastKinds
  <1>7. CASE OnForget
    <2>1. m.kind = "forget" /\ RemoveChild(m.actor, rest)
      BY <1>7 DEF OnForget, Received, m
    <2>2. QED
      BY <1>1, <1>2, <2>1, RemoveChildWaits DEF Late, LastKinds
  <1>8. CASE \/ Drop \/ OnCreate \/ OnInitReply \/ OnInitFailure
             \/ OnShutdownReply \/ OnUnsubscription
    BY <1>8 DEF Drop, OnCreate, OnInitReply, OnInitFailure, OnShutdownReply,
                OnUnsubscription
  <1>9. CASE OnShutdownTrigger \/ OnShutdownRequest
    BY <1>2, <1>9 DEF OnShutdownTrigger, OnShutdownRequest, ShutdownStart
  <1>10. CASE OnStart \/ OnDeactivation
    BY <1>2, <1>10 DEF OnStart, OnDeactivation
  <1>11. QED
    BY <1>3, <1>4, <1>5, <1>6, <1>7, <1>8, <1>9, <1>10 DEF Deliver

\* docs/Design.md:161: a supervisor confirms its initialization only after all
\* of its children have confirmed theirs.  It holds of supervisors that neither
\* link to a server nor have subscriptions of their own to wait for: such a
\* supervisor does not look at its children again once it waits for those.
THEOREM ChildrenFirst ==
    ASSUME Supervisors \cap (Linkers \cup Subscribers) = {} PROVE Spec => WaitsForChildren
  <1> DEFINE Step == \A p \in Supervisors :
        state[p] = "INITIALIZING" /\ state'[p] = "INITIALIZED" =>
            \A c \in Actors : Parent[c] = p /\ c # p => state'[c] # "INITIALIZING"
  <1>1. ASSUME Inv, Tidy, [Next]_vars PROVE [Step]_vars
    <2> SUFFICES ASSUME NEW p \in Supervisors,
                        state[p] = "INITIALIZING", state'[p] = "INITIALIZED"
                 PROVE  \A c \in Actors : Parent[c] = p /\ c # p => state'[c] # "INITIALIZING"
      OBVIOUS
    <2>1. state \in [Actors -> States] /\ p \in Actors /\ TypeOK
      BY <1>1, TreeAssumption DEF Inv, TypeOK
    <2>2. CASE Deliver
      BY <1>1, <2>2, DeliveryWaits
    <2>3. ASSUME NEW a \in Actors, Release(a) PROVE FALSE
      <3>1. InitContinue(a, "resources", {}, queue) /\ a \in holding
        BY <2>1, <2>3 DEF Release
      <3>2. a = p
        BY <2>1, <3>1, ContinuesFree
      <3>3. QED
        BY <2>1, <3>1, <3>2, HoldersAssumption DEF TypeOK
    <2>4. ASSUME NEW a \in Actors, LinkDone(a) PROVE FALSE
      <3>1. InitContinue(a, "link_client", {}, queue) /\ poll[a] = "link_client"
            /\ fault = "none"
        BY <2>4 DEF LinkDone
      <3>2. a = p
        BY <2>1, <3>1, ContinuesFree
      <3>3. QED
        BY <1>1, <3>1, <3>2, BeforeTidy DEF Polled
    <2>5. ASSUME NEW a \in Actors,
                 \/ UserShutdown(a) \/ Acquire(a) \/ LinkFails(a) \/ InitTimeout(a)
                 \/ ShutdownTimeout(a)
          PROVE  FALSE
      BY <2>1, <2>5 DEF UserShutdown, Acquire, LinkFails, InitTimeout, ShutdownTimeout
    <2>6. ASSUME NEW a \in Actors, Create(a) PROVE FALSE
      BY <2>1, <2>6 DEF Create
    <2>7. CASE Boot \/ UNCHANGED vars
      BY <2>7 DEF Boot, vars
    <2>8. QED
      BY <1>1, <2>2, <2>3, <2>4, <2>5, <2>6, <2>7 DEF Next
  <1>2. Inv /\ Tidy /\ [Next]_vars => [Step]_vars
    BY <1>1
  <1>3. WaitsForChildren <=> [][Step]_vars
    BY PTL DEF WaitsForChildren
  <1> HIDE DEF Step
  <1>4. QED
    BY <1>2, <1>3, Tidiness, Invariance, PTL DEF Spec
=============================================================================

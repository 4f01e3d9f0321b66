------------------------ MODULE SubscriptionsProofs ------------------------
(***************************************************************************)
(* Proofs about Subscriptions for any supervisors, actors and addresses:   *)
(* its type invariant, and that no assertion of the two sides fails if     *)
(* what an actor subscribes to at run time is of its own supervisor, and   *)
(* so is all it subscribes to where tagged handlers run.                   *)
(***************************************************************************)
EXTENDS Subscriptions, FiniteSetTheorems, SequenceTheorems, TLAPS

Ready == {"INITIALIZING", "OPERATIONAL"}
Ended == {"SHUTTING_DOWN", "SHUT_DOWN"}

\* What has been recorded of an actor's subscriptions.
ActorOK(a) ==
    /\ IsInjective(own[a]) /\ Range(own[a]) \subseteq Range(Subscribes[a])
    /\ points[a] \subseteq Range(Subscribes[a]) \cup Later[a]
    /\ state[a] = "NEW" => own[a] = <<>> /\ points[a] = {}
    /\ state[a] \in Ready =>
        /\ Range(Subscribes[a]) \subseteq points[a]
        /\ \A x \in Range(Subscribes[a]) \ Range(own[a]) :
            Owner[x] # Home[a] /\ supState[Owner[x]] # "OPERATIONAL"
    /\ state[a] = "INITIALIZING" => points[a] \subseteq Range(Subscribes[a])
    /\ state[a] = "OPERATIONAL" => Range(Subscribes[a]) # {}
    /\ state[a] = "SHUTTING_DOWN" =>
        /\ points[a] \cap Range(Subscribes[a]) = {}
        /\ \A x \in points[a] \cup Range(own[a]) : Point(a, x) \in leaving
        /\ own[a] = <<>> /\ points[a] = {} => a \in parting
    /\ a \in parting => state[a] \in Ended
    /\ state[a] \notin Ended =>
        \A x \in Addresses : Point(a, x) \in leaving => x \in Anonymous(a, points[a])

\* The owner of an address knows of each confirmed subscription of others.
KnownOK(a) ==
    \A x \in Range(own[a]) :
        Owner[x] # Home[a] =>
            \/ Point(a, x) \in foreign[Owner[x]]
            \/ state[a] = "INITIALIZING" /\ x \in tracked[a]
ForeignOK ==
    \A s \in Supervisors : \A p \in foreign[s] :
        /\ Owner[p.address] = s /\ ~InternalAddress(p) /\ PluginOwned(p)
        /\ state[p.actor] # "NEW"

\* What is still to come is in the queue.
DrivenOK(a) ==
    LET q == queue[Home[a]] IN
    /\ state[a] = "SHUTTING_DOWN" /\ a \in parting =>
            [kind |-> "farewell", to |-> a] \in Range(q)
    /\ Listens(a) =>
        \A x \in Range(own[a]) \cup Anonymous(a, points[a]) :
            Point(a, x) \in leaving => Unsubscription(Point(a, x)) \in Range(q)

\* Messages that stay with one supervisor, and those there is one of.
Inner == {"unsubscription", "unsubscription_external", "shutdown", "farewell"}
Single == {"unsubscription", "unsubscription_external", "foreign_unsubscription",
           "commit_unsubscription", "shutdown"}

Foreign(p) == ~InternalAddress(p) /\ PluginOwned(p)

Says(m) ==
    /\ m.kind = "subscription" =>
        LET p == m.point IN
        /\ m = ToActor("subscription", p)
        /\ state[p.actor] # "NEW"
        /\ state[p.actor] = "INITIALIZING" => PluginOwned(p)
        /\ ~InternalAddress(p) /\ p.address \in Range(own[p.actor]) => p \in foreign[Owner[p.address]]
    /\ m.kind = "external_subscription" =>
        LET p == m.point IN
        m = ToOwner("external_subscription", p) /\ Foreign(p) /\ state[p.actor] # "NEW"
    /\ m.kind = "unsubscription" =>
        LET p == m.point IN
        /\ m = ToActor("unsubscription", p)
        /\ InternalAddress(p) /\ p \in leaving
        /\ IF PluginOwned(p) THEN p.address \in Range(own[p.actor]) /\ state[p.actor] \in Ended
                             ELSE p.address \in points[p.actor]
    /\ m.kind = "unsubscription_external" =>
        LET p == m.point IN
        /\ m = ToActor("unsubscription_external", p)
        /\ Foreign(p) /\ p \in leaving
        /\ p.address \in Range(own[p.actor]) /\ state[p.actor] \in Ended
    /\ m.kind = "foreign_unsubscription" =>
        LET p == m.point IN
        /\ m = ToActor("foreign_unsubscription", p)
        /\ Foreign(p)
        /\ supState[Owner[p.address]] # "OPERATIONAL"
        /\ state[p.actor] \in Ready => p.address \in Range(own[p.actor])
        /\ state[p.actor] # "NEW"
    /\ m.kind = "commit_unsubscription" =>
        LET p == m.point IN
        /\ m = ToOwner("commit_unsubscription", p)
        /\ Foreign(p) /\ p \in foreign[Owner[p.address]]
        /\ p.address \notin Range(own[p.actor]) /\ state[p.actor] \in Ended
    /\ m.kind = "shutdown" => m = [kind |-> "shutdown", to |-> m.to] /\ state[m.to] = "OPERATIONAL"
    /\ m.kind = "farewell" => m.to \in parting

\* Supervisors have two boxes each.
Boxes == {"queue", "inbox"} \X Supervisors
Box(b) == IF b[1] = "queue" THEN queue[b[2]] ELSE inbox[b[2]]
HomeBox(a) == <<"queue", Home[a]>>

\* A foreign_unsubscription that is at its actor is too late, or early enough.
Placed(b, m) ==
    /\ m.kind \in Inner => b = HomeBox(m.to)
    /\ m.kind = "foreign_unsubscription" /\ b = HomeBox(m.to) => state[m.to] # "SHUTTING_DOWN"

OneEach(q) == \A i, j \in 1 .. Len(q) : q[i].kind \in Single /\ q[i] = q[j] => i = j
Near(s, m) == m.kind = "foreign_unsubscription" /\ Home[m.to] = s
Early(s, q) == \A i, j \in 1 .. Len(q) : i < j /\ q[i].kind = "shutdown" => ~Near(s, q[j])
Unique ==
    /\ \A b \in Boxes : OneEach(Box(b))
    /\ \A b, c \in Boxes : \A m \in Range(Box(b)) \cap Range(Box(c)) : m.kind \in Single => b = c
Said == \A b \in Boxes : \A m \in Range(Box(b)) : Says(m) /\ Placed(b, m)
Mails == Unique /\ Said /\ \A s \in Supervisors : Early(s, queue[s])

Places == \A a \in Actors : ActorOK(a) /\ KnownOK(a)
Driven == \A a \in Actors : DrivenOK(a)

Inv == TypeOK /\ failed = {} /\ Places /\ ForeignOK /\ Driven /\ Mails
---------------------------------------------------------------------------
\* Sequences

LEMMA Elements ==
    ASSUME NEW S, NEW q \in Seq(S)
    PROVE  /\ Len(q) \in Nat /\ DOMAIN q = 1 .. Len(q)
           /\ Range(q) \subseteq S
           /\ \A i \in 1 .. Len(q) : q[i] \in Range(q)
           /\ \A x \in Range(q) : \E i \in 1 .. Len(q) : q[i] = x
           /\ Range(q) = {} => q = <<>>
  <1>1. Len(q) \in Nat /\ DOMAIN q = 1 .. Len(q) /\ \A i \in 1 .. Len(q) : q[i] \in S
    OBVIOUS
  <1>2. \A i \in 1 .. Len(q) : q[i] \in Range(q)
    BY <1>1 DEF Range
  <1>3. ASSUME q # <<>> PROVE Range(q) # {}
    <2>1. 1 \in 1 .. Len(q)
      BY <1>3
    <2>2. QED
      BY <1>2, <2>1
  <1>4. QED
    BY <1>1, <1>2, <1>3 DEF Range

LEMMA NoElements == <<>> \in Seq({}) /\ Range(<<>>) = {} /\ Len(<<>>) = 0
  BY DEF Range

LEMMA Listed ==
    ASSUME NEW S, IsFiniteSet(S)
    PROVE  /\ SetToSeq(S) \in Seq(S)
           /\ Range(SetToSeq(S)) = S
           /\ IsInjective(SetToSeq(S))
  <1> DEFINE n == Cardinality(S)
             q == SetToSeq(S)
  <1>1. n \in Nat /\ ExistsBijection(1 .. n, S)
    BY FS_CardinalityType
  <1>2. \E f \in [1 .. n -> S] : IsInjective(f)
    BY <1>1 DEF ExistsBijection, Bijection, Injection
  <1>3. q \in [1 .. n -> S] /\ IsInjective(q)
    BY <1>2 DEF SetToSeq
  <1> HIDE DEF q
  <1>4. q \in Injection(1 .. n, S)
    BY <1>3 DEF Injection
  <1>5. IsFiniteSet(1 .. n) /\ Cardinality(1 .. n) = n
    BY <1>1, FS_Interval
  <1>6. q \in Surjection(1 .. n, S)
    BY <1>4, <1>5, FS_Injection
  <1>7. Range(q) = S
    BY <1>3, <1>6 DEF Range, Surjection
  <1>8. q \in Seq(S)
    BY <1>1, <1>3
  <1>9. QED
    BY <1>3, <1>7, <1>8 DEF q

LEMMA Reversed ==
    ASSUME NEW S, NEW q \in Seq(S), IsInjective(q)
    PROVE  Reverse(q) \in Seq(S) /\ Range(Reverse(q)) = Range(q) /\ IsInjective(Reverse(q))
  <1> DEFINE n == Len(q)
             r == Reverse(q)
  <1>1. n \in Nat /\ DOMAIN q = 1 .. n /\ \A i \in 1 .. n : q[i] \in S
    OBVIOUS
  <1>2. \A i \in 1 .. n : (n - i) + 1 \in 1 .. n /\ (n - ((n - i) + 1)) + 1 = i
    BY <1>1
  <1>3. r = [i \in 1 .. n |-> q[(n - i) + 1]]
    BY DEF Reverse
  <1> HIDE DEF n, r
  <1>4. DOMAIN r = 1 .. n /\ \A i \in 1 .. n : r[i] = q[(n - i) + 1] /\ r[(n - i) + 1] = q[i]
    BY <1>2, <1>3
  <1>5. r \in Seq(S)
    BY <1>1, <1>2, <1>3
  <1>6. Range(r) = Range(q)
    BY <1>1, <1>2, <1>4 DEF Range
  <1>7. ASSUME NEW i \in 1 .. n, NEW j \in 1 .. n, r[i] = r[j]
        PROVE  i = j
    <2>1. (n - i) + 1 = (n - j) + 1
      BY <1>1, <1>2, <1>4, <1>7 DEF IsInjective
    <2>2. QED
      BY <1>1, <2>1
  <1>8. IsInjective(r)
    BY <1>4, <1>7 DEF IsInjective
  <1>9. QED
    BY <1>5, <1>6, <1>8 DEF r

LEMMA Removed ==
    ASSUME NEW S, NEW q \in Seq(S), NEW i \in 1 .. Len(q)
    PROVE  /\ RemoveAt(q, i) \in Seq(S)
           /\ IsInjective(q) =>
                /\ IsInjective(RemoveAt(q, i))
                /\ Range(RemoveAt(q, i)) = Range(q) \ {q[i]}
  <1> DEFINE n == Len(q)
             l == SubSeq(q, 1, i - 1)
             r == SubSeq(q, i + 1, Len(q))
             m == RemoveAt(q, i)
  <1>1. n \in Nat /\ i \in Nat /\ i >= 1 /\ i <= n /\ DOMAIN q = 1 .. n
    OBVIOUS
  <1>2. /\ l \in Seq(S)
        /\ Len(l) = i - 1
        /\ \A j \in 1 .. i - 1 : l[j] = q[j]
    BY SubSeqProperties
  <1>3. /\ r \in Seq(S)
        /\ Len(r) = n - i
        /\ \A j \in 1 .. n - i : r[j] = q[i + j]
    BY SubSeqProperties
  <1>4. m = l \o r
    BY DEF RemoveAt
  <1> HIDE DEF n, l, r, m
  <1>5. /\ m \in Seq(S)
        /\ Len(m) = Len(l) + Len(r)
        /\ \A j \in 1 .. Len(l) + Len(r) :
              m[j] = IF j <= Len(l) THEN l[j] ELSE r[j - Len(l)]
    BY <1>2, <1>3, <1>4, ConcatProperties
  <1>6. Len(m) = n - 1 /\ DOMAIN m = 1 .. n - 1
    BY <1>1, <1>2, <1>3, <1>5
  <1>7. ASSUME NEW j \in 1 .. n - 1
        PROVE  m[j] = IF j < i THEN q[j] ELSE q[j + 1]
    <2>1. CASE j < i
      <3>1. j <= Len(l) /\ j \in 1 .. i - 1 /\ j \in 1 .. Len(l) + Len(r)
        BY <1>1, <1>2, <1>3, <2>1
      <3>2. QED
        BY <1>2, <1>5, <2>1, <3>1
    <2>2. CASE j >= i
      <3>1. /\ ~(j <= Len(l)) /\ j - Len(l) \in 1 .. n - i /\ i + (j - Len(l)) = j + 1
            /\ j \in 1 .. Len(l) + Len(r) /\ ~(j < i)
        BY <1>1, <1>2, <1>3, <2>2
      <3>2. QED
        BY <1>3, <1>5, <3>1
    <2>3. QED
      BY <1>1, <2>1, <2>2
  <1>8. ASSUME IsInjective(q) PROVE IsInjective(m)
    <2> SUFFICES ASSUME NEW j \in 1 .. n - 1, NEW k \in 1 .. n - 1, m[j] = m[k]
                 PROVE  j = k
      BY <1>6 DEF IsInjective
    <2> DEFINE t(x) == IF x < i THEN x ELSE x + 1
    <2>1. m[j] = q[t(j)] /\ m[k] = q[t(k)] /\ t(j) \in 1 .. n /\ t(k) \in 1 .. n
      BY <1>1, <1>7
    <2>2. t(j) = t(k)
      BY <1>1, <1>8, <2>1 DEF IsInjective
    <2>3. QED
      BY <1>1, <2>2
  <1>9. ASSUME IsInjective(q) PROVE Range(m) = Range(q) \ {q[i]}
    <2>1. ASSUME NEW j \in 1 .. n - 1 PROVE m[j] \in Range(q) /\ m[j] # q[i]
      <3>1. j \in 1 .. n /\ j + 1 \in 1 .. n /\ (j < i => j # i) /\ (~(j < i) => j + 1 # i)
        BY <1>1
      <3>2. QED
        BY <1>1, <1>7, <1>9, <3>1 DEF Range, IsInjective
    <2>2. ASSUME NEW j \in 1 .. n, j # i PROVE q[j] \in Range(m)
      <3>1. CASE j < i
        <4>1. j \in 1 .. n - 1
          BY <1>1, <3>1
        <4>2. QED
          BY <1>6, <1>7, <3>1, <4>1 DEF Range
      <3>2. CASE j > i
        <4>1. j - 1 \in 1 .. n - 1 /\ ~(j - 1 < i) /\ (j - 1) + 1 = j
          BY <1>1, <3>2
        <4>2. QED
          BY <1>6, <1>7, <4>1 DEF Range
      <3>3. QED
        BY <1>1, <2>2, <3>1, <3>2
    <2>3. QED
      BY <1>1, <1>6, <2>1, <2>2 DEF Range
  <1>10. QED
    BY <1>5, <1>8, <1>9 DEF m
---------------------------------------------------------------------------
\* Messages

LEMMA PointType ==
    /\ IsFiniteSet(Points)
    /\ \A a \in Actors, x \in Addresses :
        Point(a, x) \in Points /\ Point(a, x).actor = a /\ Point(a, x).address = x
    /\ \A p \in Points :
        p.actor \in Actors /\ p.address \in Addresses /\ p = Point(p.actor, p.address)
    /\ \A a \in Actors : /\ Home[a] \in Supervisors /\ Subscribes[a] \in Seq(Addresses)
                         /\ Range(Subscribes[a]) \subseteq Addresses /\ Later[a] \subseteq Addresses
    /\ \A x \in Addresses : Owner[x] \in Supervisors
  <1>1. IsFiniteSet(Actors \X Addresses)
    BY KindsAssumption, FS_Product
  <1> DEFINE f == [c \in Actors \X Addresses |-> Point(c[1], c[2])]
  <1>2. f \in Surjection(Actors \X Addresses, Points)
    <2>1. f \in [Actors \X Addresses -> Points]
      BY DEF Points, Point
    <2>2. ASSUME NEW p \in Points PROVE \E c \in Actors \X Addresses : f[c] = p
      <3>1. p.actor \in Actors /\ p.address \in Addresses
            /\ p = [actor |-> p.actor, address |-> p.address]
        BY DEF Points
      <3>2. <<p.actor, p.address>> \in Actors \X Addresses
            /\ f[<<p.actor, p.address>>] = p
        BY <3>1 DEF Point
      <3>3. QED
        BY <3>2
    <2>3. QED
      BY <2>1, <2>2 DEF Surjection
  <1> HIDE DEF f
  <1>3. IsFiniteSet(Points)
    BY <1>1, <1>2, FS_Surjection
  <1>4. \A a \in Actors, x \in Addresses :
            Point(a, x) \in Points /\ Point(a, x).actor = a /\ Point(a, x).address = x
    BY DEF Points, Point
  <1>5. \A p \in Points :
            p.actor \in Actors /\ p.address \in Addresses /\ p = Point(p.actor, p.address)
    BY DEF Points, Point
  <1>6. \A a \in Actors : Subscribes[a] \in Seq(Addresses) /\ Range(Subscribes[a]) \subseteq Addresses
    BY PlacesAssumption, Elements
  <1>7. QED
    BY <1>3, <1>4, <1>5, <1>6, PlacesAssumption

LEMMA MsgType ==
    ASSUME NEW m \in Messages
    PROVE  /\ m.kind \in {"subscription", "unsubscription", "unsubscription_external",
                          "foreign_unsubscription"} => m.to \in Actors /\ m.point \in Points
           /\ m.kind \in {"external_subscription", "commit_unsubscription"} =>
                m.to \in Supervisors /\ m.point \in Points
           /\ m.kind \in {"shutdown", "farewell"} =>
                m.to \in Actors /\ m = [kind |-> m.kind, to |-> m.to]
           /\ m.kind = "user" => m.to \in Addresses /\ m.data \in UserMessages
           /\ m.kind = "handler_call" => m.point \in Points /\ m.data \in UserMessages
           /\ m.kind \in Inner => m.to \in Actors
           /\ Destination(m) \in Supervisors
           /\ m.to \in Actors => Destination(m) = Home[m.to]
           /\ m.to \in Supervisors => Destination(m) = m.to
  <1>1. /\ m.kind \in {"subscription", "unsubscription", "unsubscription_external",
                       "foreign_unsubscription"} => m.to \in Actors /\ m.point \in Points
        /\ m.kind \in {"external_subscription", "commit_unsubscription"} =>
             m.to \in Supervisors /\ m.point \in Points
        /\ m.kind \in {"shutdown", "farewell"} =>
             m.to \in Actors /\ m = [kind |-> m.kind, to |-> m.to]
        /\ m.kind = "user" => m.to \in Addresses /\ m.data \in UserMessages
        /\ m.kind = "handler_call" => m.point \in Points /\ m.data \in UserMessages
        /\ m.kind \in Inner => m.to \in Actors
        /\ m.to \in Supervisors \cup Actors \cup Addresses
    BY DEF Messages, AboutPoint, Inner
  <1>2. QED
    BY <1>1, PointType, KindsAssumption DEF Destination

LEMMA PointMessages ==
    ASSUME NEW p \in Points
    PROVE  /\ \A k \in {"subscription", "unsubscription", "unsubscription_external",
                        "foreign_unsubscription"} :
                /\ ToActor(k, p) \in Messages
                /\ ToActor(k, p).kind = k /\ ToActor(k, p).to = p.actor /\ ToActor(k, p).point = p
           /\ \A k \in {"external_subscription", "commit_unsubscription"} :
                /\ ToOwner(k, p) \in Messages
                /\ ToOwner(k, p).kind = k /\ ToOwner(k, p).to = Owner[p.address]
                /\ ToOwner(k, p).point = p
           /\ Subscription(p) \in Messages /\ Subscription(p).point = p
           /\ Subscription(p).kind \notin Single
           /\ Unsubscription(p) \in Messages /\ Unsubscription(p).point = p
           /\ Unsubscription(p).to = p.actor
           /\ Unsubscription(p).kind =
                IF InternalAddress(p) THEN "unsubscription" ELSE "unsubscription_external"
  <1>1. p.actor \in Actors /\ Owner[p.address] \in Supervisors
    BY PointType
  <1>2. \A k \in {"subscription", "unsubscription", "unsubscription_external",
                  "foreign_unsubscription"} :
            /\ ToActor(k, p) \in Messages
            /\ ToActor(k, p).kind = k /\ ToActor(k, p).to = p.actor /\ ToActor(k, p).point = p
    BY <1>1 DEF ToActor, Messages, AboutPoint
  <1>3. \A k \in {"external_subscription", "commit_unsubscription"} :
            /\ ToOwner(k, p) \in Messages
            /\ ToOwner(k, p).kind = k /\ ToOwner(k, p).to = Owner[p.address]
            /\ ToOwner(k, p).point = p
    BY <1>1 DEF ToOwner, Messages, AboutPoint
  <1>4. QED
    BY <1>2, <1>3 DEF Subscription, Unsubscription, Single

LEMMA OtherMessages ==
    /\ \A a \in Actors : /\ [kind |-> "shutdown", to |-> a] \in Messages
                         /\ [kind |-> "farewell", to |-> a] \in Messages
    /\ \A s \in Supervisors : [kind |-> "sup_farewell", to |-> s] \in Messages
    /\ \A x \in Addresses, d \in UserMessages :
        [kind |-> "user", to |-> x, data |-> d] \in Messages
    /\ \A s \in Supervisors, p \in Points, d \in UserMessages :
        [kind |-> "handler_call", to |-> s, point |-> p, data |-> d] \in Messages
  BY DEF Messages

LEMMA Few ==
    /\ <<>> \in Seq(Messages) /\ Range(<<>>) = {} /\ OneEach(<<>>)
    /\ \A m \in Messages : <<m>> \in Seq(Messages) /\ Range(<<m>>) = {m} /\ OneEach(<<m>>)
    /\ \A q \in Seq(Messages), m \in Messages : Append(q, m) = q \o <<m>>
    /\ \A q \in Seq(Messages) : q \o <<>> = q /\ <<>> \o q = q
  <1>1. <<>> \in Seq(Messages) /\ Range(<<>>) = {} /\ OneEach(<<>>)
    BY DEF Range, OneEach
  <1>2. ASSUME NEW m \in Messages PROVE <<m>> \in Seq(Messages) /\ Range(<<m>>) = {m} /\ OneEach(<<m>>)
    <2>1. <<m>> \in Seq(Messages) /\ DOMAIN <<m>> = {1} /\ <<m>>[1] = m /\ Len(<<m>>) = 1
      OBVIOUS
    <2>2. QED
      BY <2>1 DEF Range, OneEach
  <1>3. \A q \in Seq(Messages), m \in Messages : Append(q, m) = q \o <<m>>
    OBVIOUS
  <1>4. \A q \in Seq(Messages) : q \o <<>> = q /\ <<>> \o q = q
    OBVIOUS
  <1>5. QED
    BY <1>1, <1>2, <1>3, <1>4

LEMMA GivenUp ==
    ASSUME NEW a \in Actors, NEW xs \in Seq(Addresses)
    PROVE  /\ Unsubscriptions(a, xs) \in Seq(Messages)
           /\ Range(Unsubscriptions(a, xs)) = {Unsubscription(Point(a, x)) : x \in Range(xs)}
           /\ IsInjective(xs) => OneEach(Unsubscriptions(a, xs))
  <1> DEFINE us == Unsubscriptions(a, xs)
  <1>1. /\ Len(xs) \in Nat /\ DOMAIN xs = 1 .. Len(xs)
        /\ \A i \in 1 .. Len(xs) : xs[i] \in Addresses /\ xs[i] \in Range(xs)
        /\ \A x \in Range(xs) : \E i \in 1 .. Len(xs) : xs[i] = x
    BY Elements
  <1>2. us = [i \in 1 .. Len(xs) |-> Unsubscription(Point(a, xs[i]))]
    BY DEF Unsubscriptions
  <1> HIDE DEF us
  <1>3. \A i \in 1 .. Len(xs) :
            /\ Unsubscription(Point(a, xs[i])) \in Messages
            /\ Unsubscription(Point(a, xs[i])).point = Point(a, xs[i])
            /\ Point(a, xs[i]).address = xs[i]
    BY <1>1, PointType, PointMessages
  <1>4. us \in Seq(Messages) /\ Len(us) = Len(xs)
        /\ \A i \in 1 .. Len(xs) : us[i] = Unsubscription(Point(a, xs[i]))
    BY <1>1, <1>2, <1>3
  <1>5. Range(us) = {Unsubscription(Point(a, x)) : x \in Range(xs)}
    BY <1>1, <1>2, <1>4 DEF Range
  <1>6. ASSUME IsInjective(xs) PROVE OneEach(us)
    BY <1>1, <1>3, <1>4, <1>6 DEF OneEach, IsInjective
  <1>7. QED
    BY <1>4, <1>5, <1>6 DEF us
---------------------------------------------------------------------------
\* Types

LEMMA Taken ==
    ASSUME TypeOK, NEW s \in Supervisors, queue[s] # <<>>
    PROVE  /\ queue[s] \in Seq(Messages)
           /\ Head(queue[s]) \in Messages /\ Tail(queue[s]) \in Seq(Messages)
           /\ Head(queue[s]) \in Range(queue[s])
  <1>1. queue[s] \in Seq(Messages)
    BY DEF TypeOK
  <1>2. 1 \in 1 .. Len(queue[s]) /\ Head(queue[s]) = queue[s][1]
    BY <1>1
  <1>3. QED
    BY <1>1, <1>2, Elements, HeadTailProperties

LEMMA PostType ==
    ASSUME TypeOK, NEW s \in Supervisors, queue[s] # <<>>, NEW ms \in Seq(Messages), Post(s, ms)
    PROVE  queue' \in [Supervisors -> Seq(Messages)]
  <1>1. Tail(queue[s]) \o ms \in Seq(Messages)
    BY Taken, ConcatProperties
  <1>2. QED
    BY <1>1 DEF TypeOK, Post

LEMMA AddType ==
    ASSUME TypeOK, NEW s \in Supervisors, NEW ms \in Seq(Messages),
           queue' = [queue EXCEPT ![s] = @ \o ms]
    PROVE  queue' \in [Supervisors -> Seq(Messages)]
  <1>1. queue[s] \o ms \in Seq(Messages)
    BY ConcatProperties DEF TypeOK
  <1>2. QED
    BY <1>1 DEF TypeOK

LEMMA RecordType ==
    ASSUME NEW table \in [Addresses -> SUBSET Points], NEW S \in SUBSET Points, NEW p \in Points
    PROVE  /\ Record(table, S) \in [Addresses -> SUBSET Points]
           /\ Forget(table, p) \in [Addresses -> SUBSET Points]
  BY PointType DEF Record, Forget

\* What LifetimeMessages() sends: the points left, and perhaps a farewell.
LEMMA Lasting ==
    ASSUME TypeOK, NEW a \in Actors, NEW mine
    PROVE  LET left == SetToSeq(Remaining(a))
               bye == [kind |-> "farewell", to |-> a]
               last == IF Parts(a, mine) THEN <<bye>> ELSE <<>>
           IN  /\ Remaining(a) \subseteq Addresses
               /\ left \in Seq(Addresses) /\ Range(left) = Remaining(a) /\ IsInjective(left)
               /\ last \in Seq(Messages) /\ OneEach(last)
               /\ Range(last) = IF Parts(a, mine) THEN {bye} ELSE {}
               /\ LifetimeMessages(a, mine) = Unsubscriptions(a, left) \o last
               /\ LifetimeMessages(a, mine) \in Seq(Messages)
  <1> DEFINE left == SetToSeq(Remaining(a))
             bye == [kind |-> "farewell", to |-> a]
             last == IF Parts(a, mine) THEN <<bye>> ELSE <<>>
  <1>1. Remaining(a) \in SUBSET Addresses
    BY DEF TypeOK, Remaining, Anonymous
  <1>2. IsFiniteSet(Remaining(a))
    BY <1>1, KindsAssumption, FS_Subset
  <1>3. left \in Seq(Remaining(a)) /\ Range(left) = Remaining(a) /\ IsInjective(left)
    BY <1>2, Listed
  <1>4. left \in Seq(Addresses)
    BY <1>1, <1>3, SeqMonotonic
  <1>5. bye \in Messages
    BY OtherMessages
  <1>6. last \in Seq(Messages) /\ OneEach(last) /\ Range(last) = IF Parts(a, mine) THEN {bye} ELSE {}
    BY <1>5, Few
  <1>7. LifetimeMessages(a, mine) = Unsubscriptions(a, left) \o last
    BY DEF LifetimeMessages
  <1>8. Unsubscriptions(a, left) \in Seq(Messages)
    BY <1>4, GivenUp
  <1> HIDE DEF left, last
  <1>9. Unsubscriptions(a, left) \o last \in Seq(Messages)
    BY <1>6, <1>8, ConcatProperties
  <1>10. QED
    BY <1>1, <1>3, <1>4, <1>6, <1>7, <1>9 DEF left, last

LEMMA EndsType ==
    ASSUME TypeOK, NEW a \in Actors, NEW mine, LifetimeEnds(a, mine)
    PROVE  points' \in [Actors -> SUBSET Addresses] /\ parting' \subseteq Actors
  <1>1. Anonymous(a, points[a]) \in SUBSET Addresses
    BY DEF TypeOK, Anonymous
  <1>2. points' = [points EXCEPT ![a] = Anonymous(a, points[a])]
        /\ (parting' = parting \/ parting' = parting \cup {a})
    BY DEF LifetimeEnds
  <1>3. points \in [Actors -> SUBSET Addresses] /\ parting \subseteq Actors
    BY DEF TypeOK
  <1>4. points' \in [Actors -> SUBSET Addresses]
    BY <1>1, <1>2, <1>3
  <1>5. parting' \subseteq Actors
    BY <1>2, <1>3
  <1>6. QED
    BY <1>4, <1>5

LEMMA ConfigureType ==
    ASSUME TypeOK, NEW a \in Actors, Configure(a)
    PROVE  TypeOK'
  <1> DEFINE S == {Point(a, x) : x \in Range(Subscribes[a])}
             n == Len(Subscribes[a])
             ms == [i \in 1 .. n |-> Subscription(Point(a, Subscribes[a][i]))]
  <1>1. /\ n \in Nat
        /\ \A i \in 1 .. n : Subscribes[a][i] \in Addresses
    BY PointType, Elements
  <1>2. \A i \in 1 .. n : Subscription(Point(a, Subscribes[a][i])) \in Messages
    BY <1>1, PointType, PointMessages
  <1>3. ms \in Seq(Messages)
    BY <1>1, <1>2
  <1>4. queue' = [queue EXCEPT ![Home[a]] = @ \o ms]
    BY DEF Configure
  <1> HIDE DEF ms
  <1>5. queue' \in [Supervisors -> Seq(Messages)]
    BY <1>3, <1>4, PointType, AddType
  <1>6. {p \in S : InternalAddress(p)} \in SUBSET Points
    BY PointType
  <1>7. internal' = Record(internal, {p \in S : InternalAddress(p)})
    BY DEF Configure
  <1> HIDE DEF S
  <1>8. internal' \in [Addresses -> SUBSET Points]
    BY <1>6, <1>7 DEF TypeOK, Record
  <1>9. /\ state' \in [Actors -> {"NEW", "INITIALIZING", "OPERATIONAL", "SHUTTING_DOWN", "SHUT_DOWN"}]
        /\ own' \in [Actors -> Seq(Addresses)]
        /\ tracked' \in [Actors -> SUBSET Addresses]
        /\ points' \in [Actors -> SUBSET Addresses]
    BY PointType DEF TypeOK, Configure
  <1>10. QED
    BY <1>5, <1>8, <1>9 DEF TypeOK, Configure, userVars

LEMMA SubscribeLaterType ==
    ASSUME TypeOK, NEW a \in Actors, NEW x \in Addresses, SubscribeLater(a, x)
    PROVE  TypeOK'
  <1>1. Point(a, x) \in Points /\ Subscription(Point(a, x)) \in Messages /\ Home[a] \in Supervisors
    BY PointType, PointMessages
  <1>2. <<Subscription(Point(a, x))>> \in Seq(Messages)
    BY <1>1, Few
  <1>3. queue' = [queue EXCEPT ![Home[a]] = @ \o <<Subscription(Point(a, x))>>]
    BY <1>1, Few DEF TypeOK, SubscribeLater
  <1>4. queue' \in [Supervisors -> Seq(Messages)]
    BY <1>1, <1>2, <1>3, AddType
  <1>5. internal' \in [Addresses -> SUBSET Points]
    BY <1>1 DEF TypeOK, SubscribeLater, Record
  <1>6. /\ points \in [Actors -> SUBSET Addresses] /\ sent \in [Actors -> Nat]
        /\ points' = [points EXCEPT ![a] = @ \cup {x}] /\ sent' = [sent EXCEPT ![a] = @ + 1]
    BY DEF TypeOK, SubscribeLater
  <1>7. points' \in [Actors -> SUBSET Addresses] /\ sent' \in [Actors -> Nat]
    BY <1>6
  <1>8. QED
    BY <1>4, <1>5, <1>7 DEF TypeOK, SubscribeLater

LEMMA OnSubscriptionType ==
    ASSUME TypeOK, NEW s \in Supervisors, OnSubscription(s)
    PROVE  TypeOK'
  <1> DEFINE m == Head(queue[s])
             p == m.point
  <1>1. queue[s] # <<>> /\ m.kind = "subscription" /\ Post(s, <<>>)
    BY DEF OnSubscription, Next1
  <1>2. m \in Messages
    BY <1>1, Taken
  <1>3. p \in Points
    BY <1>1, <1>2, MsgType
  <1>4. queue' \in [Supervisors -> Seq(Messages)]
    BY <1>1, Few, PostType
  <1>5. \/ tracked' = tracked
        \/ tracked' = [tracked EXCEPT ![p.actor] = tracked[p.actor] \ {p.address}]
    BY DEF OnSubscription
  <1>6. state' = state \/ state' = [state EXCEPT ![p.actor] = "OPERATIONAL"]
    BY DEF OnSubscription
  <1> HIDE DEF m, p
  <1>7. tracked' \in [Actors -> SUBSET Addresses]
    <2>1. tracked \in [Actors -> SUBSET Addresses]
      BY DEF TypeOK
    <2>2. QED
      BY <1>5, <2>1
  <1>8. state' \in [Actors -> {"NEW", "INITIALIZING", "OPERATIONAL", "SHUTTING_DOWN", "SHUT_DOWN"}]
    BY <1>6 DEF TypeOK
  <1>9. QED
    BY <1>4, <1>7, <1>8 DEF TypeOK, OnSubscription, ownerVars, userVars

LEMMA AskToLeaveType ==
    ASSUME TypeOK, NEW a \in Actors, AskToLeave(a)
    PROVE  TypeOK'
  <1> DEFINE m == [kind |-> "shutdown", to |-> a]
  <1>1. m \in Messages /\ Home[a] \in Supervisors
    BY OtherMessages, PointType
  <1>2. <<m>> \in Seq(Messages)
    BY <1>1, Few
  <1>3. queue' = [queue EXCEPT ![Home[a]] = Append(@, m)]
    BY DEF AskToLeave
  <1> HIDE DEF m
  <1>4. queue' = [queue EXCEPT ![Home[a]] = @ \o <<m>>]
    BY <1>1, <1>3, Few DEF TypeOK
  <1>5. queue' \in [Supervisors -> Seq(Messages)]
    BY <1>1, <1>2, <1>4, AddType
  <1>6. QED
    BY <1>5 DEF TypeOK, AskToLeave, actorVars, ownerVars, userVars

\* The messages of a shutdown.
LEMMA ShutdownSends ==
    ASSUME TypeOK, NEW a \in Actors
    PROVE  Unsubscriptions(a, Reverse(own[a])) \o LifetimeMessages(a, own[a]) \in Seq(Messages)
  <1>1. own[a] \in Seq(Addresses)
    BY DEF TypeOK
  <1>2. Reverse(own[a]) \in Seq(Addresses)
    <2> DEFINE q == own[a]
               n == Len(q)
    <2>1. n \in Nat /\ \A i \in 1 .. n : q[i] \in Addresses
      BY <1>1, ElementOfSeq
    <2> HIDE DEF n
    <2>2. \A i \in 1 .. n : (n - i) + 1 \in 1 .. n
      BY <2>1
    <2>3. Reverse(q) = [i \in 1 .. n |-> q[(n - i) + 1]]
      BY DEF Reverse, n
    <2> HIDE DEF q
    <2>4. Reverse(q) \in Seq(Addresses)
      BY <2>1, <2>2, <2>3
    <2>5. QED
      BY <2>4 DEF q
  <1>3. Unsubscriptions(a, Reverse(own[a])) \in Seq(Messages)
    BY <1>2, GivenUp
  <1>4. LifetimeMessages(a, own[a]) \in Seq(Messages)
    BY Lasting
  <1>5. QED
    BY <1>3, <1>4, ConcatProperties

LEMMA OnShutdownType ==
    ASSUME TypeOK, NEW s \in Supervisors, OnShutdown(s)
    PROVE  TypeOK'
  <1>1. PICK a : a = Head(queue[s]).to
    OBVIOUS
  <1>2. queue[s] # <<>> /\ Head(queue[s]).kind = "shutdown"
    BY DEF OnShutdown, Next1
  <1>3. a \in Actors
    BY <1>1, <1>2, Taken, MsgType
  <1>4. /\ state' = [state EXCEPT ![a] = "SHUTTING_DOWN"]
        /\ tracked' = [tracked EXCEPT ![a] = {}]
        /\ LifetimeEnds(a, own[a])
        /\ leaving' = leaving \cup {Point(a, x) : x \in points[a] \cup Range(own[a])}
        /\ Post(s, Unsubscriptions(a, Reverse(own[a])) \o LifetimeMessages(a, own[a]))
    BY <1>1 DEF OnShutdown
  <1>5. queue' \in [Supervisors -> Seq(Messages)]
    BY <1>2, <1>3, <1>4, ShutdownSends, PostType
  <1>6. points' \in [Actors -> SUBSET Addresses] /\ parting' \subseteq Actors
    BY <1>3, <1>4, EndsType
  <1>7. points[a] \cup Range(own[a]) \subseteq Addresses
    <2>1. points[a] \subseteq Addresses /\ own[a] \in Seq(Addresses)
      BY <1>3 DEF TypeOK
    <2>2. QED
      BY <2>1, Elements
  <1>8. leaving' \subseteq Points
    <2>1. \A x \in points[a] \cup Range(own[a]) : Point(a, x) \in Points
      BY <1>3, <1>7, PointType
    <2>2. leaving \subseteq Points
      BY DEF TypeOK
    <2>3. QED
      BY <1>4, <2>1, <2>2
  <1>9. /\ state' \in [Actors -> {"NEW", "INITIALIZING", "OPERATIONAL", "SHUTTING_DOWN", "SHUT_DOWN"}]
        /\ tracked' \in [Actors -> SUBSET Addresses]
    BY <1>4 DEF TypeOK
  <1>10. QED
    BY <1>5, <1>6, <1>8, <1>9 DEF TypeOK, OnShutdown, ownerVars, userVars

\* StarterForgets() of a point the plugin has.
LEMMA StarterType ==
    ASSUME TypeOK, NEW s \in Supervisors, NEW p \in Points, NEW answers \in Seq(Messages),
           queue[s] # <<>>, p.address \in Range(own[p.actor]), StarterForgets(s, p, answers)
    PROVE  /\ queue' \in [Supervisors -> Seq(Messages)]
           /\ own' \in [Actors -> Seq(Addresses)]
           /\ internal' \in [Addresses -> SUBSET Points]
           /\ leaving' \subseteq Points
           /\ points' \in [Actors -> SUBSET Addresses] /\ parting' \subseteq Actors
           /\ failed' = failed
  <1> DEFINE a == p.actor
             it == CHOOSE i \in 1 .. Len(own[a]) : own[a][i] = p.address
             mine == RemoveAt(own[a], it)
             ends == mine = <<>> /\ state[a] = "SHUTTING_DOWN"
             ms == (IF ends THEN LifetimeMessages(a, mine) ELSE <<>>) \o answers
  <1>1. a \in Actors /\ own[a] \in Seq(Addresses)
    BY PointType DEF TypeOK
  <1>2. \E i \in 1 .. Len(own[a]) : own[a][i] = p.address
    BY <1>1, Elements
  <1>3. it \in 1 .. Len(own[a])
    BY <1>2
  <1> HIDE DEF it
  <1>4. mine \in Seq(Addresses)
    BY <1>1, <1>3, Removed
  <1>5. /\ own' = [own EXCEPT ![a] = mine]
        /\ internal' = IF InternalAddress(p) THEN Forget(internal, p) ELSE internal
        /\ leaving' = leaving \ {p}
        /\ IF ends THEN LifetimeEnds(a, mine) ELSE UNCHANGED <<points, parting>>
        /\ Post(s, ms)
        /\ UNCHANGED failed
    BY DEF StarterForgets, it
  <1> HIDE DEF mine
  <1>6. LifetimeMessages(a, mine) \in Seq(Messages)
    BY <1>1, Lasting
  <1>7. ms \in Seq(Messages)
    BY <1>6, Few, ConcatProperties
  <1> HIDE DEF ms
  <1>8. queue' \in [Supervisors -> Seq(Messages)]
    BY <1>5, <1>7, PostType
  <1>9. points' \in [Actors -> SUBSET Addresses] /\ parting' \subseteq Actors
    <2>1. CASE ends
      BY <1>1, <1>5, <2>1, EndsType
    <2>2. CASE ~ends
      BY <1>5, <2>2 DEF TypeOK
    <2>3. QED
      BY <2>1, <2>2
  <1> HIDE DEF ends
  <1>10. internal' \in [Addresses -> SUBSET Points]
    BY <1>5, RecordType DEF TypeOK
  <1>11. own' \in [Actors -> Seq(Addresses)] /\ leaving' \subseteq Points
    BY <1>4, <1>5 DEF TypeOK
  <1>12. QED
    BY <1>5, <1>8, <1>9, <1>10, <1>11

LEMMA LifetimeType ==
    ASSUME TypeOK, NEW s \in Supervisors, NEW p \in Points, queue[s] # <<>>, LifetimeForgets(s, p)
    PROVE  /\ queue' \in [Supervisors -> Seq(Messages)]
           /\ own' \in [Actors -> Seq(Addresses)]
           /\ internal' \in [Addresses -> SUBSET Points]
           /\ leaving' \subseteq Points
           /\ points' \in [Actors -> SUBSET Addresses] /\ parting' \subseteq Actors
           /\ failed' \subseteq failed \cup {"no such point"}
  <1> DEFINE a == p.actor
             left == points[a] \ {p.address}
             ends == left = {} /\ a \notin parting
             bye == [kind |-> "farewell", to |-> a]
             ms == IF ends THEN <<bye>> ELSE <<>>
  <1>1. a \in Actors /\ points[a] \subseteq Addresses
    BY PointType DEF TypeOK
  <1>2. ms \in Seq(Messages)
    BY <1>1, OtherMessages, Few
  <1>3. CASE p.address \in points[a]
    <2>1. /\ points' = [points EXCEPT ![a] = left]
          /\ internal' = IF InternalAddress(p) THEN Forget(internal, p) ELSE internal
          /\ leaving' = leaving \ {p}
          /\ parting' = IF ends THEN parting \cup {a} ELSE parting
          /\ Post(s, ms)
          /\ UNCHANGED <<own, failed>>
      BY <1>3 DEF LifetimeForgets
    <2> HIDE DEF ms, left
    <2>2. queue' \in [Supervisors -> Seq(Messages)]
      BY <1>2, <2>1, PostType
    <2>3. internal' \in [Addresses -> SUBSET Points]
      BY <2>1, RecordType DEF TypeOK
    <2>4. left \subseteq Addresses
      BY <1>1 DEF left
    <2>5. points' \in [Actors -> SUBSET Addresses]
      BY <2>1, <2>4 DEF TypeOK
    <2>6. parting' \subseteq Actors /\ leaving' \subseteq Points
      BY <1>1, <2>1 DEF TypeOK
    <2>7. own' \in [Actors -> Seq(Addresses)]
      BY <2>1 DEF TypeOK
    <2>8. QED
      BY <2>1, <2>2, <2>3, <2>5, <2>6, <2>7
  <1>4. CASE p.address \notin points[a]
    <2>1. /\ failed' = failed \cup {"no such point"}
          /\ Post(s, <<>>)
          /\ UNCHANGED <<own, points, internal, leaving, parting>>
      BY <1>4 DEF LifetimeForgets
    <2>2. queue' \in [Supervisors -> Seq(Messages)]
      BY <2>1, Few, PostType
    <2>3. QED
      BY <2>1, <2>2 DEF TypeOK
  <1>5. QED
    BY <1>3, <1>4

LEMMA OnUnsubscriptionType ==
    ASSUME TypeOK, NEW s \in Supervisors, NEW kind \in {"unsubscription", "foreign_unsubscription"},
           OnUnsubscription(s, kind)
    PROVE  TypeOK'
  <1> DEFINE m == Head(queue[s])
             p == m.point
  <1>1. queue[s] # <<>> /\ m.kind = kind
    BY DEF OnUnsubscription, Next1
  <1>2. p \in Points
    BY <1>1, Taken, MsgType
  <1>3. UNCHANGED <<state, tracked, external, foreign, evicted, supState, inbox, userVars>>
    BY DEF OnUnsubscription
  <1>4. \/ p.address \in Range(own[p.actor]) /\ StarterForgets(s, p, <<>>)
        \/ LifetimeForgets(s, p)
        \/ Post(s, <<>>) /\ UNCHANGED <<own, points, internal, leaving, parting, failed>>
    BY DEF OnUnsubscription
  <1> HIDE DEF p
  <1>5. CASE p.address \in Range(own[p.actor]) /\ StarterForgets(s, p, <<>>)
    BY <1>1, <1>2, <1>3, <1>5, Few, StarterType DEF TypeOK, userVars
  <1>6. CASE LifetimeForgets(s, p)
    BY <1>1, <1>2, <1>3, <1>6, LifetimeType DEF TypeOK, userVars
  <1>7. CASE Post(s, <<>>) /\ UNCHANGED <<own, points, internal, leaving, parting, failed>>
    <2>1. queue' \in [Supervisors -> Seq(Messages)]
      BY <1>1, <1>7, Few, PostType
    <2>2. QED
      BY <1>3, <1>7, <2>1 DEF TypeOK, userVars
  <1>8. QED
    BY <1>4, <1>5, <1>6, <1>7

LEMMA OnUnsubscriptionExternalType ==
    ASSUME TypeOK, NEW s \in Supervisors, OnUnsubscriptionExternal(s)
    PROVE  TypeOK'
  <1> DEFINE m == Head(queue[s])
             p == m.point
  <1>1. queue[s] # <<>> /\ m.kind = "unsubscription_external"
    BY DEF OnUnsubscriptionExternal, Next1
  <1>2. p \in Points
    BY <1>1, Taken, MsgType
  <1>3. UNCHANGED <<state, tracked, external, foreign, evicted, supState, inbox, userVars>>
    BY DEF OnUnsubscriptionExternal
  <1>4. \/ p.address \in Range(own[p.actor]) /\ StarterForgets(s, p, Commits(p))
        \/ /\ failed' = failed \cup {"unsubscription handled"}
           /\ Post(s, <<>>) /\ UNCHANGED <<own, points, internal, leaving, parting>>
    BY DEF OnUnsubscriptionExternal
  <1> HIDE DEF p
  <1>5. Commits(p) \in Seq(Messages)
    BY <1>2, PointMessages, Few DEF Commits
  <1>6. CASE p.address \in Range(own[p.actor]) /\ StarterForgets(s, p, Commits(p))
    BY <1>1, <1>2, <1>3, <1>5, <1>6, StarterType DEF TypeOK, userVars
  <1>7. CASE /\ failed' = failed \cup {"unsubscription handled"}
             /\ Post(s, <<>>) /\ UNCHANGED <<own, points, internal, leaving, parting>>
    <2>1. queue' \in [Supervisors -> Seq(Messages)]
      BY <1>1, <1>7, Few, PostType
    <2>2. QED
      BY <1>3, <1>7, <2>1 DEF TypeOK, userVars
  <1>8. QED
    BY <1>4, <1>6, <1>7

LEMMA OnFarewellType ==
    ASSUME TypeOK, NEW s \in Supervisors, OnFarewell(s)
    PROVE  TypeOK'
  <1>1. queue[s] # <<>> /\ Post(s, <<>>)
    BY DEF OnFarewell, Next1
  <1>2. queue' \in [Supervisors -> Seq(Messages)]
    BY <1>1, Few, PostType
  <1>3. state' \in [Actors -> {"NEW", "INITIALIZING", "OPERATIONAL", "SHUTTING_DOWN", "SHUT_DOWN"}]
    BY DEF TypeOK, OnFarewell
  <1>4. QED
    BY <1>2, <1>3 DEF TypeOK, OnFarewell, ownerVars, userVars

LEMMA UnsubscribeLaterType ==
    ASSUME TypeOK, NEW a \in Actors, NEW x \in Addresses, UnsubscribeLater(a, x)
    PROVE  TypeOK'
  <1>1. /\ Point(a, x) \in Points /\ Unsubscription(Point(a, x)) \in Messages
        /\ Home[a] \in Supervisors
    BY PointType, PointMessages
  <1>2. <<Unsubscription(Point(a, x))>> \in Seq(Messages)
    BY <1>1, Few
  <1>3. queue' = [queue EXCEPT ![Home[a]] = @ \o <<Unsubscription(Point(a, x))>>]
    BY <1>1, Few DEF TypeOK, UnsubscribeLater
  <1>4. queue' \in [Supervisors -> Seq(Messages)]
    BY <1>1, <1>2, <1>3, AddType
  <1>5. leaving' \subseteq Points
    BY <1>1 DEF TypeOK, UnsubscribeLater
  <1>6. QED
    BY <1>4, <1>5 DEF TypeOK, UnsubscribeLater, ownerVars, userVars

LEMMA OnExternalSubscriptionType ==
    ASSUME TypeOK, NEW s \in Supervisors, OnExternalSubscription(s)
    PROVE  TypeOK'
  <1> DEFINE m == Head(queue[s])
             p == m.point
  <1>1. queue[s] # <<>> /\ m.kind = "external_subscription"
    BY DEF OnExternalSubscription, Next1
  <1>2. p \in Points
    BY <1>1, Taken, MsgType
  <1>3. /\ external' = Record(external, {p})
        /\ foreign' = [foreign EXCEPT ![s] = @ \cup {p}]
        /\ evicted' = evicted \ {p}
        /\ Post(s, <<ToActor("subscription", p)>>)
    BY DEF OnExternalSubscription
  <1> HIDE DEF p
  <1>4. <<ToActor("subscription", p)>> \in Seq(Messages)
    BY <1>2, PointMessages, Few
  <1>5. queue' \in [Supervisors -> Seq(Messages)]
    BY <1>1, <1>3, <1>4, PostType
  <1>6. external' \in [Addresses -> SUBSET Points]
    BY <1>2, <1>3, RecordType DEF TypeOK
  <1>7. foreign' \in [Supervisors -> SUBSET Points] /\ evicted' \subseteq Points
    BY <1>2, <1>3 DEF TypeOK
  <1>8. QED
    BY <1>5, <1>6, <1>7 DEF TypeOK, OnExternalSubscription, actorVars, userVars

LEMMA OnCommitUnsubscriptionType ==
    ASSUME TypeOK, NEW s \in Supervisors, OnCommitUnsubscription(s)
    PROVE  TypeOK'
  <1> DEFINE m == Head(queue[s])
             p == m.point
             left == foreign[s] \ {p}
             ends == LastForeign(s, left)
             ms == IF ends THEN <<[kind |-> "sup_farewell", to |-> s]>> ELSE <<>>
  <1>1. queue[s] # <<>> /\ m.kind = "commit_unsubscription"
    BY DEF OnCommitUnsubscription, Next1
  <1>2. p \in Points
    BY <1>1, Taken, MsgType
  <1>3. ms \in Seq(Messages)
    BY OtherMessages, Few
  <1>4. CASE p \in foreign[s]
    <2>1. /\ external' = Forget(external, p)
          /\ foreign' = [foreign EXCEPT ![s] = left]
          /\ evicted' = evicted \ {p}
          /\ supState' = IF ends THEN [supState EXCEPT ![s] = "CLOSING"] ELSE supState
          /\ Post(s, ms)
          /\ UNCHANGED failed
      BY <1>4 DEF OnCommitUnsubscription
    <2>2. left \subseteq Points
      BY DEF TypeOK
    <2> HIDE DEF ms, left, ends, p
    <2>3. queue' \in [Supervisors -> Seq(Messages)]
      BY <1>1, <1>3, <2>1, PostType
    <2>4. external' \in [Addresses -> SUBSET Points]
      BY <1>2, <2>1, RecordType DEF TypeOK
    <2>5. foreign' \in [Supervisors -> SUBSET Points] /\ evicted' \subseteq Points
      BY <2>1, <2>2 DEF TypeOK
    <2>6. supState' \in [Supervisors -> {"OPERATIONAL", "SHUTTING_DOWN", "CLOSING", "SHUT_DOWN"}]
      BY <2>1 DEF TypeOK
    <2>7. QED
      BY <2>1, <2>3, <2>4, <2>5, <2>6 DEF TypeOK, OnCommitUnsubscription, actorVars, userVars
  <1>5. CASE p \notin foreign[s]
    <2>1. /\ failed' = failed \cup {"no such foreign point"}
          /\ Post(s, <<>>)
          /\ UNCHANGED <<external, foreign, evicted, supState>>
      BY <1>5 DEF OnCommitUnsubscription
    <2>2. queue' \in [Supervisors -> Seq(Messages)]
      BY <1>1, <2>1, Few, PostType
    <2>3. QED
      BY <2>1, <2>2 DEF TypeOK, OnCommitUnsubscription, actorVars, userVars
  <1>6. QED
    BY <1>4, <1>5

\* The messages of a supervisor that shuts down, one for each foreign point.
LEMMA Evicting ==
    ASSUME TypeOK, NEW s \in Supervisors
    PROVE  LET evictions == SetToSeq(foreign[s])
               ms == [i \in 1 .. Len(evictions) |->
                        ToActor("foreign_unsubscription", evictions[i])]
           IN  /\ ms \in Seq(Messages) /\ OneEach(ms)
               /\ Range(ms) = {ToActor("foreign_unsubscription", p) : p \in foreign[s]}
  <1> DEFINE ps == SetToSeq(foreign[s])
             e(p) == ToActor("foreign_unsubscription", p)
             ms == [i \in 1 .. Len(ps) |-> e(ps[i])]
  <1>1. foreign[s] \in SUBSET Points
    BY DEF TypeOK
  <1>2. IsFiniteSet(foreign[s])
    BY <1>1, PointType, FS_Subset
  <1>3. ps \in Seq(foreign[s]) /\ Range(ps) = foreign[s] /\ IsInjective(ps)
    BY <1>2, Listed
  <1> HIDE DEF ps
  <1>4. /\ Len(ps) \in Nat /\ DOMAIN ps = 1 .. Len(ps)
        /\ \A i \in 1 .. Len(ps) : ps[i] \in foreign[s]
        /\ \A p \in foreign[s] : \E i \in 1 .. Len(ps) : ps[i] = p
    BY <1>3, Elements
  <1>5. \A p \in foreign[s] : e(p) \in Messages /\ e(p).point = p
    BY <1>1, PointMessages
  <1> HIDE DEF e
  <1>6. /\ ms \in Seq(Messages) /\ Len(ms) = Len(ps) /\ DOMAIN ms = 1 .. Len(ps)
        /\ \A i \in 1 .. Len(ps) : ms[i] = e(ps[i])
    BY <1>4, <1>5
  <1> HIDE DEF ms
  <1>7. Range(ms) = {e(p) : p \in foreign[s]}
    BY <1>4, <1>6 DEF Range
  <1>8. OneEach(ms)
    BY <1>3, <1>4, <1>5, <1>6 DEF OneEach, IsInjective
  <1>9. QED
    BY <1>6, <1>7, <1>8 DEF ms, e, ps

LEMMA ShutdownSupervisorType ==
    ASSUME TypeOK, NEW s \in Supervisors, ShutdownSupervisor(s)
    PROVE  TypeOK'
  <1> DEFINE evictions == SetToSeq(foreign[s])
             bye == [kind |-> "sup_farewell", to |-> s]
             ms == [i \in 1 .. Len(evictions) |->
                        ToActor("foreign_unsubscription", evictions[i])]
  <1>1. bye \in Messages /\ <<bye>> \in Seq(Messages) /\ ms \in Seq(Messages)
    BY OtherMessages, Few, Evicting
  <1>2. \/ queue' = [queue EXCEPT ![s] = Append(@, bye)]
        \/ queue' = [queue EXCEPT ![s] = @ \o ms]
    BY DEF ShutdownSupervisor
  <1> HIDE DEF ms, bye
  <1>3. ASSUME queue' = [queue EXCEPT ![s] = Append(@, bye)]
        PROVE  queue' \in [Supervisors -> Seq(Messages)]
    <2>1. queue' = [queue EXCEPT ![s] = @ \o <<bye>>]
      BY <1>1, <1>3, Few DEF TypeOK
    <2>2. QED
      BY <1>1, <2>1, AddType
  <1>4. ASSUME queue' = [queue EXCEPT ![s] = @ \o ms]
        PROVE  queue' \in [Supervisors -> Seq(Messages)]
    BY <1>1, <1>4, AddType
  <1>5. queue' \in [Supervisors -> Seq(Messages)]
    BY <1>2, <1>3, <1>4
  <1>6. /\ evicted' = evicted \cup foreign[s]
        /\ \/ supState' = [supState EXCEPT ![s] = "CLOSING"]
           \/ supState' = [supState EXCEPT ![s] = "SHUTTING_DOWN"]
        /\ UNCHANGED <<actorVars, internal, external, foreign, inbox, userVars, failed>>
    BY DEF ShutdownSupervisor
  <1>7. evicted' \subseteq Points
    BY <1>6 DEF TypeOK
  <1>8. supState' \in [Supervisors -> {"OPERATIONAL", "SHUTTING_DOWN", "CLOSING", "SHUT_DOWN"}]
    BY <1>6 DEF TypeOK
  <1>9. QED
    BY <1>5, <1>6, <1>7, <1>8 DEF TypeOK, actorVars, userVars

LEMMA OnSupFarewellType ==
    ASSUME TypeOK, NEW s \in Supervisors, OnSupFarewell(s)
    PROVE  TypeOK'
  <1>1. queue[s] # <<>> /\ Post(s, <<>>)
    BY DEF OnSupFarewell, Next1
  <1>2. queue' \in [Supervisors -> Seq(Messages)]
    BY <1>1, Few, PostType
  <1>3. supState' \in [Supervisors -> {"OPERATIONAL", "SHUTTING_DOWN", "CLOSING", "SHUT_DOWN"}]
    BY DEF TypeOK, OnSupFarewell
  <1>4. QED
    BY <1>2, <1>3 DEF TypeOK, OnSupFarewell, actorVars, userVars

LEMMA PublishType ==
    ASSUME TypeOK, NEW a \in Actors, NEW x \in Addresses, Publish(a, x)
    PROVE  TypeOK'
  <1> DEFINE d == [source |-> a, number |-> sent[a] + 1]
             m == [kind |-> "user", to |-> x, data |-> d]
  <1>1. sent[a] \in Nat /\ Budget[a] \in Nat /\ sent[a] < Budget[a]
    BY PlacesAssumption DEF TypeOK, Publish
  <1>2. sent[a] + 1 \in 1 .. Budget[a]
    BY <1>1
  <1>3. d \in UserMessages
    BY <1>2 DEF UserMessages
  <1>4. queue' = [queue EXCEPT ![Home[a]] = Append(@, m)]
        /\ owed' = [p \in Points |->
                        IF p.address = x /\ PluginOwned(p) /\ state[p.actor] = "OPERATIONAL"
                        THEN owed[p] \cup {d} ELSE owed[p]]
        /\ sent' = [sent EXCEPT ![a] = @ + 1]
    BY DEF Publish
  <1> HIDE DEF d
  <1>5. m \in Messages /\ Home[a] \in Supervisors
    BY <1>3, OtherMessages, PointType
  <1> HIDE DEF m
  <1>6. queue' = [queue EXCEPT ![Home[a]] = @ \o <<m>>] /\ <<m>> \in Seq(Messages)
    BY <1>4, <1>5, Few DEF TypeOK
  <1>7. queue' \in [Supervisors -> Seq(Messages)]
    BY <1>5, <1>6, AddType
  <1>8. owed' \in [Points -> SUBSET UserMessages]
    BY <1>3, <1>4 DEF TypeOK
  <1>9. sent' \in [Actors -> Nat]
    <2>1. sent \in [Actors -> Nat]
      BY DEF TypeOK
    <2>2. QED
      BY <1>1, <1>4, <2>1
  <1>10. QED
    BY <1>7, <1>8, <1>9 DEF TypeOK, Publish, actorVars, ownerVars

LEMMA CallType ==
    ASSUME TypeOK, NEW S, NEW d \in UserMessages, Call(S, d)
    PROVE  handled' \in [Points -> Seq(UserMessages)]
  <1>1. \A p \in Points : handled[p] \in Seq(UserMessages)
    BY DEF TypeOK
  <1>2. \A p \in Points : Append(handled[p], d) \in Seq(UserMessages)
    BY <1>1, AppendProperties
  <1>3. QED
    BY <1>1, <1>2 DEF Call

LEMMA Wrapped ==
    ASSUME TypeOK, NEW m \in Messages, m.kind = "user", NEW t \in Supervisors
    PROVE  /\ Calls(m, t) \in Seq(Messages)
           /\ \A c \in Range(Calls(m, t)) : c.kind = "handler_call"
  <1> DEFINE S == {p \in external[m.to] : Home[p.actor] = t}
             calls == SetToSeq(S)
             cs == Calls(m, t)
  <1>1. m.to \in Addresses /\ m.data \in UserMessages
    BY MsgType
  <1>2. S \in SUBSET Points
    BY <1>1 DEF TypeOK
  <1>3. IsFiniteSet(S)
    BY <1>2, PointType, FS_Subset
  <1>4. cs = [i \in 1 .. Len(calls) |->
                [kind |-> "handler_call", to |-> t, point |-> calls[i], data |-> m.data]]
    BY DEF Calls
  <1> HIDE DEF S, cs
  <1>5. calls \in Seq(S)
    BY <1>3, Listed
  <1>6. Len(calls) \in Nat /\ \A i \in 1 .. Len(calls) : calls[i] \in Points
    BY <1>2, <1>5, Elements
  <1> HIDE DEF calls
  <1>7. cs \in Seq(Messages) /\ Len(cs) = Len(calls)
        /\ \A i \in 1 .. Len(calls) : cs[i].kind = "handler_call"
    BY <1>1, <1>4, <1>6, OtherMessages
  <1>8. QED
    BY <1>7, Elements DEF cs

LEMMA DeliverType ==
    ASSUME TypeOK, NEW s \in Supervisors, Deliver(s)
    PROVE  TypeOK'
  <1> DEFINE m == Head(queue[s])
  <1>1. queue[s] # <<>> /\ m.kind = "user"
    BY DEF Deliver, Next1
  <1>2. m \in Messages
    BY <1>1, Taken
  <1>3. /\ inbox' = [t \in Supervisors |-> inbox[t] \o Calls(m, t)]
        /\ Call(internal[m.to], m.data)
        /\ Post(s, <<>>)
    BY DEF Deliver
  <1> HIDE DEF m
  <1>4. handled' \in [Points -> Seq(UserMessages)]
    BY <1>1, <1>2, <1>3, MsgType, CallType
  <1>5. queue' \in [Supervisors -> Seq(Messages)]
    BY <1>1, <1>3, Few, PostType
  <1>6. \A t \in Supervisors : inbox[t] \o Calls(m, t) \in Seq(Messages)
    BY <1>1, <1>2, Wrapped, ConcatProperties DEF TypeOK
  <1>7. inbox' \in [Supervisors -> Seq(Messages)]
    BY <1>3, <1>6
  <1>8. QED
    BY <1>4, <1>5, <1>7 DEF TypeOK, Deliver, actorVars, ownerVars

LEMMA OnCallType ==
    ASSUME TypeOK, NEW s \in Supervisors, OnCall(s)
    PROVE  TypeOK'
  <1> DEFINE m == Head(queue[s])
  <1>1. queue[s] # <<>> /\ m.kind = "handler_call" /\ Post(s, <<>>)
    BY DEF OnCall, Next1
  <1>2. m.data \in UserMessages
    BY <1>1, Taken, MsgType
  <1>3. Call({m.point}, m.data)
    BY DEF OnCall
  <1> HIDE DEF m
  <1>4. handled' \in [Points -> Seq(UserMessages)]
    BY <1>2, <1>3, CallType
  <1>5. queue' \in [Supervisors -> Seq(Messages)]
    BY <1>1, Few, PostType
  <1>6. QED
    BY <1>4, <1>5 DEF TypeOK, OnCall, actorVars, ownerVars

LEMMA ForwardType ==
    ASSUME TypeOK, NEW s \in Supervisors, Forward(s)
    PROVE  TypeOK'
  <1>1. PICK m : m = Head(queue[s])
    OBVIOUS
  <1>2. queue[s] # <<>> /\ Post(s, <<>>)
        /\ inbox' = [inbox EXCEPT ![Destination(m)] = Append(@, m)]
    BY <1>1 DEF Forward
  <1>3. m \in Messages
    BY <1>1, <1>2, Taken
  <1>4. Destination(m) \in Supervisors
    BY <1>3, MsgType
  <1>5. Append(inbox[Destination(m)], m) \in Seq(Messages)
    BY <1>3, <1>4, AppendProperties DEF TypeOK
  <1>6. inbox' \in [Supervisors -> Seq(Messages)]
    BY <1>2, <1>5 DEF TypeOK
  <1>7. queue' \in [Supervisors -> Seq(Messages)]
    BY <1>2, Few, PostType
  <1>8. QED
    BY <1>6, <1>7 DEF TypeOK, Forward, actorVars, ownerVars, userVars

LEMMA LoadType ==
    ASSUME TypeOK, NEW s \in Supervisors, Load(s)
    PROVE  TypeOK'
  <1>1. queue' \in [Supervisors -> Seq(Messages)] /\ inbox' \in [Supervisors -> Seq(Messages)]
    BY Few DEF TypeOK, Load
  <1>2. QED
    BY <1>1 DEF TypeOK, Load, actorVars, ownerVars, userVars

LEMMA CheckType ==
    ASSUME TypeOK, NEW s \in Supervisors, Check(s)
    PROVE  TypeOK'
  <1>1. queue[s] \o inbox[s] \in Seq(Messages)
    <2>1. queue[s] \in Seq(Messages) /\ inbox[s] \in Seq(Messages)
      BY DEF TypeOK
    <2>2. \A q, r \in Seq(Messages) : q \o r \in Seq(Messages)
      OBVIOUS
    <2>3. QED
      BY <2>1, <2>2
  <1>2. queue' \in [Supervisors -> Seq(Messages)] /\ inbox' \in [Supervisors -> Seq(Messages)]
    BY <1>1, Few DEF TypeOK, Check
  <1>3. QED
    BY <1>2 DEF TypeOK, Check, actorVars, ownerVars, userVars

LEMMA InitType == Init => TypeOK
  <1> SUFFICES ASSUME Init PROVE TypeOK
    OBVIOUS
  <1>1. <<>> \in Seq(Addresses) /\ <<>> \in Seq(Messages) /\ <<>> \in Seq(UserMessages)
    OBVIOUS
  <1>2. QED
    BY <1>1 DEF Init, TypeOK

LEMMA TypeNext == TypeOK /\ [Next]_vars => TypeOK'
  <1> SUFFICES ASSUME TypeOK, [Next]_vars PROVE TypeOK'
    OBVIOUS
  <1>1. CASE UNCHANGED vars
    BY <1>1 DEF TypeOK, vars, actorVars, ownerVars, userVars
  <1>2. ASSUME NEW s \in Supervisors, Process(s) PROVE TypeOK'
    BY <1>2, LoadType, CheckType, ForwardType, DeliverType, OnCallType, OnSubscriptionType, OnShutdownType,
       OnFarewellType, OnUnsubscriptionType, OnUnsubscriptionExternalType,
       OnExternalSubscriptionType, OnCommitUnsubscriptionType, OnSupFarewellType DEF Process
  <1>3. ASSUME NEW a \in Actors, Act(a) PROVE TypeOK'
    BY <1>3, ConfigureType, AskToLeaveType, SubscribeLaterType, UnsubscribeLaterType,
       PublishType DEF Act
  <1>4. QED
    BY <1>1, <1>2, <1>3, ShutdownSupervisorType DEF Next

\* Every variable keeps its type, whatever the order of the messages of the
\* supervisors: what is said of an actor's points, of the owner's, of the
\* queues and of what was handled.
THEOREM Typing == Spec => []TypeOK
  BY InitType, TypeNext, PTL DEF Spec

---------------------------------------------------------------------------
\* The boxes

LEMMA BoxTypes ==
    ASSUME TypeOK
    PROVE  /\ \A b \in Boxes : Box(b) \in Seq(Messages) /\ Range(Box(b)) \subseteq Messages
           /\ \A s \in Supervisors : /\ <<"queue", s>> \in Boxes /\ <<"inbox", s>> \in Boxes
                                     /\ Box(<<"queue", s>>) = queue[s]
                                     /\ Box(<<"inbox", s>>) = inbox[s]
           /\ \A b \in Boxes : \E s \in Supervisors :
                b = <<"queue", s>> \/ b = <<"inbox", s>>
           /\ \A a \in Actors : HomeBox(a) \in Boxes /\ Box(HomeBox(a)) = queue[Home[a]]
  <1>1. \A s \in Supervisors : /\ <<"queue", s>> \in Boxes /\ <<"inbox", s>> \in Boxes
                               /\ Box(<<"queue", s>>) = queue[s]
                               /\ Box(<<"inbox", s>>) = inbox[s]
    BY DEF Boxes, Box
  <1>2. \A b \in Boxes : \E s \in Supervisors :
            b = <<"queue", s>> \/ b = <<"inbox", s>>
    BY DEF Boxes
  <1>3. \A s \in Supervisors : queue[s] \in Seq(Messages) /\ inbox[s] \in Seq(Messages)
    BY DEF TypeOK
  <1>4. \A b \in Boxes : Box(b) \in Seq(Messages)
    BY <1>1, <1>2, <1>3
  <1>5. \A b \in Boxes : Range(Box(b)) \subseteq Messages
    BY <1>4, Elements
  <1>6. QED
    BY <1>1, <1>2, <1>4, <1>5, PointType DEF HomeBox

\* Messages put behind others.
LEMMA Joined ==
    ASSUME NEW q \in Seq(Messages), NEW ms \in Seq(Messages)
    PROVE  LET r == q \o ms
           IN  /\ r \in Seq(Messages) /\ Len(r) \in Nat
               /\ \A i \in 1 .. Len(r) :
                    \/ i \in 1 .. Len(q) /\ r[i] = q[i]
                    \/ i \notin 1 .. Len(q) /\ i - Len(q) \in 1 .. Len(ms) /\ r[i] = ms[i - Len(q)]
               /\ Len(q) \in Nat
               /\ Range(r) = Range(q) \cup Range(ms)
  <1> DEFINE r == q \o ms
  <1>1. /\ r \in Seq(Messages)
        /\ Len(q) \in Nat /\ Len(ms) \in Nat
        /\ Len(r) = Len(q) + Len(ms)
        /\ \A i \in 1 .. Len(q) : r[i] = q[i]
        /\ \A i \in 1 .. Len(ms) : r[Len(q) + i] = ms[i]
        /\ DOMAIN q = 1 .. Len(q)
        /\ DOMAIN ms = 1 .. Len(ms)
        /\ DOMAIN r = 1 .. Len(r)
    OBVIOUS
  <1> HIDE DEF r
  <1>2. ASSUME NEW i \in 1 .. Len(r)
        PROVE  \/ i \in 1 .. Len(q) /\ r[i] = q[i]
               \/ i \notin 1 .. Len(q) /\ i - Len(q) \in 1 .. Len(ms) /\ r[i] = ms[i - Len(q)]
    <2>1. CASE i \in 1 .. Len(q)
      BY <1>1, <2>1
    <2>2. CASE i \notin 1 .. Len(q)
      <3>1. i - Len(q) \in 1 .. Len(ms) /\ Len(q) + (i - Len(q)) = i
        BY <1>1, <2>2
      <3>2. QED
        BY <1>1, <2>2, <3>1
    <2>3. QED
      BY <2>1, <2>2
  <1>3. Range(r) \subseteq Range(q) \cup Range(ms)
    BY <1>1, <1>2 DEF Range
  <1>4. \A i \in 1 .. Len(q) : i \in 1 .. Len(r)
    BY <1>1
  <1>5. \A i \in 1 .. Len(ms) : Len(q) + i \in 1 .. Len(r)
    BY <1>1
  <1>6. Range(q) \subseteq Range(r) /\ Range(ms) \subseteq Range(r)
    BY <1>1, <1>4, <1>5 DEF Range
  <1>7. QED
    BY <1>1, <1>2, <1>3, <1>6 DEF r

LEMMA JoinedOnce ==
    ASSUME NEW q \in Seq(Messages), NEW ms \in Seq(Messages), OneEach(q), OneEach(ms),
           \A m \in Range(ms) : m.kind \in Single => m \notin Range(q)
    PROVE  OneEach(q \o ms)
  <1> DEFINE r == q \o ms
  <1>1. /\ Len(q) \in Nat /\ Len(r) \in Nat
        /\ \A i \in 1 .. Len(r) :
            \/ i \in 1 .. Len(q) /\ r[i] = q[i]
            \/ i \notin 1 .. Len(q) /\ i - Len(q) \in 1 .. Len(ms) /\ r[i] = ms[i - Len(q)]
    BY Joined
  <1> HIDE DEF r
  <1> SUFFICES ASSUME NEW i \in 1 .. Len(r), NEW j \in 1 .. Len(r),
                      r[i].kind \in Single, r[i] = r[j]
               PROVE  i = j
    BY DEF OneEach, r
  <1>2. \A k \in 1 .. Len(q) : q[k] \in Range(q)
    BY Elements
  <1>3. \A k \in 1 .. Len(ms) : ms[k] \in Range(ms)
    BY Elements
  <1>4. CASE i \in 1 .. Len(q) /\ r[i] = q[i]
    <2>1. j \in 1 .. Len(q) /\ r[j] = q[j]
      BY <1>1, <1>2, <1>3, <1>4
    <2>2. QED
      BY <1>4, <2>1 DEF OneEach
  <1>5. CASE i - Len(q) \in 1 .. Len(ms) /\ r[i] = ms[i - Len(q)]
    <2>1. j - Len(q) \in 1 .. Len(ms) /\ r[j] = ms[j - Len(q)]
      BY <1>1, <1>2, <1>3, <1>5
    <2>2. i - Len(q) = j - Len(q)
      BY <1>5, <2>1 DEF OneEach
    <2>3. QED
      BY <1>1, <2>2
  <1>6. QED
    BY <1>1, <1>4, <1>5

\* No message that ends a subscription comes behind a shutdown.
LEMMA JoinedEarly ==
    ASSUME NEW s, NEW q \in Seq(Messages), NEW ms \in Seq(Messages), Early(s, q),
           \A m \in Range(ms) : ~Near(s, m)
    PROVE  Early(s, q \o ms)
  <1> DEFINE r == q \o ms
  <1>1. /\ Len(q) \in Nat /\ Len(r) \in Nat
        /\ \A i \in 1 .. Len(r) :
            \/ i \in 1 .. Len(q) /\ r[i] = q[i]
            \/ i \notin 1 .. Len(q) /\ i - Len(q) \in 1 .. Len(ms) /\ r[i] = ms[i - Len(q)]
    BY Joined
  <1> HIDE DEF r
  <1> SUFFICES ASSUME NEW i \in 1 .. Len(r), NEW j \in 1 .. Len(r), i < j,
                      r[i].kind = "shutdown", Near(s, r[j])
               PROVE  FALSE
    BY DEF Early, r
  <1>2. \A k \in 1 .. Len(ms) : ms[k] \in Range(ms)
    BY Elements
  <1>3. j \in 1 .. Len(q) /\ r[j] = q[j]
    BY <1>1, <1>2
  <1>4. i \in 1 .. Len(q)
    BY <1>1, <1>3
  <1>5. r[i] = q[i]
    BY <1>1, <1>4
  <1>6. QED
    BY <1>3, <1>4, <1>5 DEF Early

\* r is the queue of s, perhaps without its first message.
Rest(s, r) ==
    /\ r \in Seq(Messages) /\ Range(r) \subseteq Range(queue[s])
    /\ OneEach(r) /\ Early(s, r)

LEMMA AllOfIt ==
    ASSUME TypeOK, Mails, NEW s \in Supervisors
    PROVE  Rest(s, queue[s])
  <1>1. queue[s] \in Seq(Messages) /\ Box(<<"queue", s>>) = queue[s] /\ <<"queue", s>> \in Boxes
    BY BoxTypes
  <1>2. OneEach(queue[s]) /\ Early(s, queue[s])
    BY <1>1 DEF Mails, Unique
  <1>3. QED
    BY <1>1, <1>2 DEF Rest

LEMMA TailOfIt ==
    ASSUME TypeOK, Mails, NEW s \in Supervisors, queue[s] # <<>>
    PROVE  /\ Rest(s, Tail(queue[s]))
           /\ Range(queue[s]) = {Head(queue[s])} \cup Range(Tail(queue[s]))
           /\ Head(queue[s]).kind \in Single => Head(queue[s]) \notin Range(Tail(queue[s]))
           /\ Head(queue[s]).kind = "shutdown" =>
                \A m \in Range(Tail(queue[s])) : ~Near(s, m)
  <1> DEFINE q == queue[s]
             r == Tail(q)
             x == Head(q)
  <1>1. q \in Seq(Messages) /\ OneEach(q) /\ Early(s, q)
    BY BoxTypes DEF TypeOK, Mails, Unique
  <1> HIDE DEF q
  <1>2. q # <<>>
    BY DEF q
  <1>3. /\ r \in Seq(Messages)
        /\ Len(q) \in Nat /\ Len(q) > 0
        /\ Len(r) = Len(q) - 1
        /\ x = q[1]
        /\ \A i \in 1 .. Len(r) : r[i] = q[i + 1]
        /\ DOMAIN q = 1 .. Len(q)
        /\ DOMAIN r = 1 .. Len(r)
    BY <1>1, <1>2
  <1> HIDE DEF r, x
  <1>4. \A i \in 1 .. Len(r) : i + 1 \in 1 .. Len(q) /\ i + 1 # 1 /\ 1 < i + 1
    BY <1>3
  <1>5. Range(r) \subseteq Range(q)
    BY <1>3, <1>4 DEF Range
  <1>6. OneEach(r)
    <2> SUFFICES ASSUME NEW i \in 1 .. Len(r), NEW j \in 1 .. Len(r),
                        r[i].kind \in Single, r[i] = r[j]
                 PROVE  i = j
      BY DEF OneEach
    <2>1. i + 1 = j + 1
      BY <1>1, <1>3, <1>4 DEF OneEach
    <2>2. QED
      BY <2>1, <1>3
  <1>7. Early(s, r)
    <2> SUFFICES ASSUME NEW i \in 1 .. Len(r), NEW j \in 1 .. Len(r), i < j,
                        r[i].kind = "shutdown", Near(s, r[j])
                 PROVE  FALSE
      BY DEF Early
    <2>1. i + 1 < j + 1
      BY <1>3
    <2>2. QED
      BY <1>1, <1>3, <1>4, <2>1 DEF Early
  <1>8. 1 \in 1 .. Len(q)
    BY <1>3
  <1>9. ASSUME x.kind \in Single, x \in Range(r) PROVE FALSE
    <2>1. PICK i \in 1 .. Len(r) : x = q[i + 1]
      BY <1>3, <1>9 DEF Range
    <2>2. i + 1 \in 1 .. Len(q) /\ i + 1 # 1
      BY <1>4
    <2>3. QED
      BY <1>1, <1>3, <1>8, <1>9, <2>1, <2>2 DEF OneEach
  <1>10. ASSUME x.kind = "shutdown", NEW m \in Range(r) PROVE ~Near(s, m)
    <2>1. PICK i \in 1 .. Len(r) : m = q[i + 1]
      BY <1>3 DEF Range
    <2>2. i + 1 \in 1 .. Len(q) /\ 1 < i + 1
      BY <1>4
    <2>3. QED
      BY <1>1, <1>3, <1>8, <1>10, <2>1, <2>2 DEF Early
  <1>11. Range(q) = {x} \cup Range(r)
    <2>1. ASSUME NEW i \in 1 .. Len(q), i # 1 PROVE q[i] \in Range(r)
      <3>1. i - 1 \in 1 .. Len(r) /\ (i - 1) + 1 = i
        BY <1>3, <2>1
      <3>2. QED
        BY <1>3, <3>1 DEF Range
    <2>2. QED
      BY <1>3, <1>5, <1>8, <2>1 DEF Range
  <1>12. QED
    BY <1>3, <1>5, <1>6, <1>7, <1>9, <1>10, <1>11 DEF Rest, q, r, x

Flying == UNION {Range(Box(b)) : b \in Boxes}

\* A supervisor's queue loses its first message, or none, and gets new ones:
\* what the invariant says of the messages is kept if it is said of those left
\* and of the new ones, and of these none is on its way already.
LEMMA Sending ==
    ASSUME TypeOK, TypeOK', Mails, NEW s \in Supervisors, NEW r, Rest(s, r),
           NEW ms \in Seq(Messages), OneEach(ms),
           \A m \in Range(ms) : (m.kind \in Single => m \notin Flying) /\ ~Near(s, m),
           queue' = [queue EXCEPT ![s] = r \o ms], inbox' = inbox,
           \A b \in Boxes : \A m \in Range(Box(b)) :
                (b = <<"queue", s>> => m \in Range(r)) => Says(m)' /\ Placed(b, m)',
           \A m \in Range(ms) : Says(m)' /\ Placed(<<"queue", s>>, m)'
    PROVE  Mails'
  <1> DEFINE c == <<"queue", s>>
  <1>1. c \in Boxes /\ Box(c) = queue[s] /\ Range(r) \subseteq Range(Box(c))
    BY BoxTypes DEF Rest
  <1>2. queue \in [Supervisors -> Seq(Messages)]
    BY DEF TypeOK
  <1>3. queue'[s] = r \o ms /\ \A t \in Supervisors : t # s => queue'[t] = queue[t]
    BY <1>2
  <1>4. \A b \in Boxes : b # c => Box(b)' = Box(b)
    BY <1>3 DEF Boxes, Box
  <1>5. Box(c)' = r \o ms
    BY <1>3 DEF Box
  <1>6. Range(r \o ms) = Range(r) \cup Range(ms)
    BY Joined DEF Rest
  <1>7. ASSUME NEW b \in Boxes, NEW m \in Range(Box(b)') PROVE Says(m)' /\ Placed(b, m)'
    <2>1. CASE b = c
      BY <1>1, <1>5, <1>6, <1>7, <2>1
    <2>2. CASE b # c
      BY <1>4, <1>7, <2>2
    <2>3. QED
      BY <2>1, <2>2
  <1>8. OneEach(r \o ms) /\ Early(s, r \o ms)
    <2>1. \A m \in Range(ms) : m.kind \in Single => m \notin Range(r)
      BY <1>1 DEF Flying
    <2>2. QED
      BY <2>1, JoinedOnce, JoinedEarly DEF Rest
  <1>9. \A b \in Boxes : OneEach(Box(b)')
    BY <1>4, <1>5, <1>8 DEF Mails, Unique
  <1>10. ASSUME NEW b \in Boxes, NEW d \in Boxes, NEW m \in Range(Box(b)'),
                m \in Range(Box(d)'), m.kind \in Single
         PROVE  b = d
    <2>1. CASE m \in Range(ms)
      <3>1. m \notin Range(Box(b)) /\ m \notin Range(Box(d))
        BY <1>10, <2>1 DEF Flying
      <3>2. QED
        BY <1>4, <1>10, <3>1
    <2>2. CASE m \notin Range(ms)
      <3>1. m \in Range(Box(b)) /\ m \in Range(Box(d))
        BY <1>1, <1>4, <1>5, <1>6, <1>10, <2>2
      <3>2. QED
        BY <1>10, <3>1 DEF Mails, Unique
    <2>3. QED
      BY <2>1, <2>2
  <1>11. \A t \in Supervisors : Early(t, queue'[t])
    BY <1>3, <1>8 DEF Mails
  <1>12. Unique'
    BY <1>9, <1>10 DEF Unique
  <1>13. Said'
    BY <1>7 DEF Said
  <1>14. QED
    BY <1>11, <1>12, <1>13 DEF Mails

LEMMA Sent ==
    ASSUME TypeOK, NEW s \in Supervisors, NEW r, Rest(s, r), NEW ms \in Seq(Messages),
           queue' = [queue EXCEPT ![s] = r \o ms]
    PROVE  /\ Range(queue'[s]) = Range(r) \cup Range(ms)
           /\ \A t \in Supervisors : t # s => queue'[t] = queue[t]
  <1>1. queue'[s] = r \o ms /\ \A t \in Supervisors : t # s => queue'[t] = queue[t]
    BY DEF TypeOK
  <1>2. QED
    BY <1>1, Joined DEF Rest

LEMMA InFlight ==
    ASSUME TypeOK, Mails, NEW b \in Boxes, NEW m \in Range(Box(b))
    PROVE  m \in Messages /\ m \in Flying /\ Says(m) /\ Placed(b, m)
  BY BoxTypes DEF Mails, Said, Flying

\* The message at the head of a queue.
LEMMA HeadSays ==
    ASSUME TypeOK, Mails, NEW s \in Supervisors, queue[s] # <<>>
    PROVE  LET m == Head(queue[s])
           IN  /\ m \in Messages /\ Says(m) /\ Placed(<<"queue", s>>, m)
               /\ m.kind \in Single =>
                    \A b \in Boxes : \A n \in Range(Box(b)) :
                        (b = <<"queue", s>> => n \in Range(Tail(queue[s]))) => n # m
  <1>1. Head(queue[s]) \in Messages /\ Head(queue[s]) \in Range(queue[s])
    BY Taken
  <1>2. <<"queue", s>> \in Boxes /\ Box(<<"queue", s>>) = queue[s]
    BY BoxTypes
  <1>3. Says(Head(queue[s])) /\ Placed(<<"queue", s>>, Head(queue[s]))
    BY <1>1, <1>2 DEF Mails, Said
  <1>4. ASSUME NEW b \in Boxes, NEW n \in Range(Box(b)), Head(queue[s]).kind \in Single,
               b = <<"queue", s>> => n \in Range(Tail(queue[s])), n = Head(queue[s])
        PROVE  FALSE
    <2>1. b = <<"queue", s>>
      BY <1>1, <1>2, <1>4 DEF Mails, Unique
    <2>2. QED
      BY <1>4, <2>1, TailOfIt
  <1>5. QED
    BY <1>1, <1>3, <1>4

---------------------------------------------------------------------------
\* The invariant, step by step

\* What the invariant speaks of besides the messages.
spoken == <<state, own, tracked, points, leaving, parting, foreign, supState>>

LEMMA Frame ==
    ASSUME UNCHANGED spoken
    PROVE  /\ Places => Places'
           /\ ForeignOK => ForeignOK'
           /\ \A m : Says(m) => Says(m)'
           /\ \A b, m : Placed(b, m) => Placed(b, m)'
  <1>1. Places => Places'
    BY DEF spoken, Places, ActorOK, KnownOK
  <1>2. ForeignOK => ForeignOK'
    BY DEF spoken, ForeignOK
  <1>3. \A m : Says(m) => Says(m)'
    BY DEF spoken, Says
  <1>4. \A b, m : Placed(b, m) => Placed(b, m)'
    BY DEF spoken, Placed
  <1>5. QED
    BY <1>1, <1>2, <1>3, <1>4

Ends == {"unsubscription", "unsubscription_external", "farewell"}

LEMMA StillDriven ==
    ASSUME TypeOK, Driven, UNCHANGED <<state, own, points, leaving, parting>>,
           \A t \in Supervisors : \A m \in Range(queue[t]) : m.kind \in Ends => m \in Range(queue'[t])
    PROVE  Driven'
  <1>1. \A a \in Actors : \A x \in Range(own[a]) \cup Anonymous(a, points[a]) :
            x \in Addresses /\ Unsubscription(Point(a, x)).kind \in Ends
    <2>1. \A a \in Actors : Range(own[a]) \cup Anonymous(a, points[a]) \subseteq Addresses
      <3>1. \A a \in Actors : own[a] \in Seq(Addresses) /\ points[a] \subseteq Addresses
        BY DEF TypeOK
      <3>2. QED
        BY <3>1, Elements DEF Anonymous
    <2>2. QED
      BY <2>1, PointType, PointMessages DEF Ends
  <1>2. \A a \in Actors : [kind |-> "farewell", to |-> a].kind \in Ends
    BY DEF Ends
  <1>3. \A a \in Actors : Home[a] \in Supervisors
    BY PointType
  <1>4. QED
    BY <1>1, <1>2, <1>3 DEF Driven, DrivenOK, Listens, Anonymous

\* A step that only sends messages of which nothing is said, and perhaps
\* handles one that ends nothing.
Silent(m) == m.kind \in {"user", "handler_call", "sup_farewell"}

LEMMA SilentSays ==
    ASSUME NEW m, Silent(m)
    PROVE  m.kind \notin Single /\ Says(m)' /\ (\A b : Placed(b, m)') /\ \A s : ~Near(s, m)
  BY DEF Silent, Single, Says, Placed, Near, Inner

\* The queue of s after a step, and what of it was there before.
Sends(s, r, ms) == queue' = [queue EXCEPT ![s] = r \o ms]
Left(s, r) ==
    \/ r = queue[s]
    \/ queue[s] # <<>> /\ r = Tail(queue[s])

LEMMA LeftRest ==
    ASSUME TypeOK, Mails, NEW s \in Supervisors, NEW r, Left(s, r)
    PROVE  Rest(s, r)
  BY AllOfIt, TailOfIt DEF Left

LEMMA LeftStays ==
    ASSUME TypeOK, Mails, NEW s \in Supervisors, NEW r, Left(s, r), NEW ms \in Seq(Messages),
           Sends(s, r, ms), r = queue[s] \/ Head(queue[s]).kind \notin Ends
    PROVE  \A t \in Supervisors : \A m \in Range(queue[t]) :
                m.kind \in Ends => m \in Range(queue'[t])
  <1>1. Rest(s, r)
    BY LeftRest
  <1>2. Range(queue'[s]) = Range(r) \cup Range(ms)
        /\ \A t \in Supervisors : t # s => queue'[t] = queue[t]
    BY <1>1, Sent DEF Sends
  <1>3. \A m \in Range(queue[s]) : m.kind \in Ends => m \in Range(r)
    BY TailOfIt DEF Left
  <1>4. QED
    BY <1>2, <1>3

LEMMA QuietInv ==
    ASSUME Inv, TypeOK', NEW s \in Supervisors, NEW r, Left(s, r), NEW ms \in Seq(Messages),
           Sends(s, r, ms), r = queue[s] \/ Head(queue[s]).kind \notin Ends,
           \A m \in Range(ms) : Silent(m),
           UNCHANGED <<spoken, inbox, failed>>
    PROVE  Inv'
  <1>1. TypeOK /\ Mails /\ Rest(s, r) /\ UNCHANGED spoken
    BY LeftRest DEF Inv
  <1>2. \A m \in Range(ms) :
            m.kind \notin Single /\ Says(m)' /\ Placed(<<"queue", s>>, m)' /\ ~Near(s, m)
    BY SilentSays
  <1>3. OneEach(ms)
    BY <1>2, Elements DEF OneEach
  <1>4. \A b \in Boxes : \A m \in Range(Box(b)) : Says(m)' /\ Placed(b, m)'
    BY <1>1, InFlight, Frame
  <1>5. Mails'
    BY <1>1, <1>2, <1>3, <1>4, Sending DEF Sends
  <1>6. Driven'
    BY <1>1, LeftStays, StillDriven DEF Inv, spoken
  <1>7. QED
    BY <1>1, <1>5, <1>6, Frame DEF Inv

LEMMA PublishInv ==
    ASSUME Inv, TypeOK', NEW a \in Actors, NEW x \in Addresses, Publish(a, x)
    PROVE  Inv'
  <1> DEFINE d == [source |-> a, number |-> sent[a] + 1]
             m == [kind |-> "user", to |-> x, data |-> d]
             s == Home[a]
  <1>1. sent[a] \in Nat /\ Budget[a] \in Nat /\ sent[a] < Budget[a]
    BY PlacesAssumption DEF Inv, TypeOK, Publish
  <1>2. sent[a] + 1 \in 1 .. Budget[a]
    BY <1>1
  <1>3. d \in UserMessages
    BY <1>2 DEF UserMessages
  <1>4. queue' = [queue EXCEPT ![Home[a]] = Append(@, m)]
        /\ UNCHANGED <<spoken, inbox, failed>>
    BY DEF Publish, spoken, actorVars, ownerVars
  <1> HIDE DEF d
  <1>5. m \in Messages /\ s \in Supervisors /\ m.kind = "user"
    BY <1>3, OtherMessages, PointType
  <1> HIDE DEF m
  <1>6. <<m>> \in Seq(Messages) /\ Range(<<m>>) = {m}
    BY <1>5, Few
  <1>7. queue[s] \in Seq(Messages)
    BY <1>5 DEF Inv, TypeOK
  <1> DEFINE r == queue[s]
  <1>8. Sends(s, r, <<m>>)
    BY <1>4, <1>5, <1>7, Few DEF Sends
  <1>9. Left(s, r) /\ r = queue[s]
    BY DEF Left
  <1>10. \A n \in Range(<<m>>) : Silent(n)
    BY <1>5, <1>6 DEF Silent
  <1> HIDE DEF r, s
  <1>11. QED
    BY <1>4, <1>5, <1>6, <1>8, <1>9, <1>10, QuietInv

LEMMA PostSends ==
    ASSUME NEW s \in Supervisors, NEW ms, queue[s] # <<>>, Post(s, ms)
    PROVE  Sends(s, Tail(queue[s]), ms) /\ Left(s, Tail(queue[s]))
  BY DEF Post, Sends, Left

LEMMA OnCallInv ==
    ASSUME Inv, TypeOK', NEW s \in Supervisors, OnCall(s)
    PROVE  Inv'
  <1>1. queue[s] # <<>> /\ Head(queue[s]).kind = "handler_call" /\ Post(s, <<>>)
    BY DEF OnCall, Next1
  <1>2. UNCHANGED <<spoken, inbox, failed>>
    BY DEF OnCall, spoken, actorVars, ownerVars
  <1>3. Head(queue[s]).kind \notin Ends
    BY <1>1 DEF Ends
  <1> DEFINE r == Tail(queue[s])
  <1>4. Sends(s, r, <<>>) /\ Left(s, r)
    BY <1>1, PostSends
  <1> HIDE DEF r
  <1>5. QED
    BY <1>2, <1>3, <1>4, Few, QuietInv

\* Messages that go from one supervisor to another.
LEMMA DeliverInv ==
    ASSUME Inv, TypeOK', NEW s \in Supervisors, Deliver(s)
    PROVE  Inv'
  <1> DEFINE h == Head(queue[s])
             r == Tail(queue[s])
  <1>1. queue[s] # <<>> /\ h.kind = "user" /\ Post(s, <<>>)
    BY DEF Deliver, Next1
  <1>2. h \in Messages
    BY <1>1, Taken DEF Inv
  <1>3. inbox' = [t \in Supervisors |-> inbox[t] \o Calls(h, t)]
    BY DEF Deliver
  <1>4. UNCHANGED spoken /\ UNCHANGED failed
    BY DEF Deliver, spoken, actorVars, ownerVars
  <1>5. Sends(s, r, <<>>) /\ Left(s, r)
    BY <1>1, PostSends
  <1>6. h.kind \notin Ends
    BY <1>1 DEF Ends
  <1> HIDE DEF h, r
  <1>7. TypeOK /\ Mails /\ Rest(s, r) /\ <<>> \in Seq(Messages)
    BY <1>5, LeftRest, Few DEF Inv
  <1>8. Driven'
    BY <1>4, <1>5, <1>6, <1>7, LeftStays, StillDriven DEF Inv, spoken, h
  <1>9. \A t \in Supervisors : queue'[t] = IF t = s THEN r ELSE queue[t]
    <2>1. r \o <<>> = r
      BY <1>7, Few DEF Rest
    <2>2. QED
      BY <1>5, <1>7, <2>1 DEF Sends, TypeOK
  <1>10. ASSUME NEW t \in Supervisors
         PROVE  /\ OneEach(inbox'[t])
                /\ \A m \in Range(inbox'[t]) : m \in Range(inbox[t]) \/ m.kind = "handler_call"
    <2>1. inbox[t] \in Seq(Messages) /\ OneEach(inbox[t])
      <3>1. <<"inbox", t>> \in Boxes /\ Box(<<"inbox", t>>) = inbox[t]
        BY <1>7, BoxTypes
      <3>2. inbox[t] \in Seq(Messages)
        BY <1>7 DEF TypeOK
      <3>3. QED
        BY <1>7, <3>1, <3>2 DEF Mails, Unique
    <2> DEFINE cs == Calls(h, t)
    <2>2. cs \in Seq(Messages) /\ \A c \in Range(cs) : c.kind = "handler_call"
      BY <1>1, <1>2, <1>7, Wrapped DEF h
    <2> HIDE DEF cs
    <2>3. OneEach(cs) /\ \A c \in Range(cs) : c.kind \notin Single
      BY <2>2, Elements DEF OneEach, Single
    <2>4. inbox'[t] = inbox[t] \o cs
      BY <1>3 DEF cs
    <2>5. OneEach(inbox[t] \o cs)
      BY <2>1, <2>2, <2>3, JoinedOnce
    <2>6. Range(inbox[t] \o cs) = Range(inbox[t]) \cup Range(cs)
      BY <2>1, <2>2, Joined
    <2>7. QED
      BY <2>2, <2>4, <2>5, <2>6
  <1>11. \A b \in Boxes :
            /\ OneEach(Box(b)')
            /\ \A m \in Range(Box(b)') : m \in Range(Box(b)) \/ m.kind = "handler_call"
    <2>1. ASSUME NEW t \in Supervisors
          PROVE  /\ OneEach(queue'[t]) /\ Range(queue'[t]) \subseteq Range(queue[t])
      <3>1. OneEach(queue[t])
        BY <1>7, BoxTypes DEF Mails, Unique
      <3>2. QED
        BY <1>7, <1>9, <3>1 DEF Rest
    <2>2. QED
      BY <1>10, <2>1 DEF Boxes, Box
  <1>12. Unique'
    <2>1. \A m : m.kind = "handler_call" => m.kind \notin Single
      BY DEF Single
    <2>2. QED
      BY <1>7, <1>11, <2>1 DEF Mails, Unique
  <1>13. Said'
    <2>1. \A m : m.kind = "handler_call" => Says(m)' /\ \A b : Placed(b, m)'
      BY SilentSays DEF Silent
    <2>2. \A b \in Boxes : \A m \in Range(Box(b)) : Says(m)' /\ Placed(b, m)'
      BY <1>4, <1>7, InFlight, Frame
    <2>3. QED
      BY <1>11, <2>1, <2>2 DEF Said
  <1>14. \A t \in Supervisors : Early(t, queue'[t])
    BY <1>7, <1>9 DEF Mails, Rest
  <1>15. Mails'
    BY <1>12, <1>13, <1>14 DEF Mails
  <1>16. QED
    BY <1>4, <1>8, <1>15, Frame DEF Inv

LEMMA ForwardInv ==
    ASSUME Inv, TypeOK', NEW s \in Supervisors, Forward(s)
    PROVE  Inv'
  <1>1. PICK m : m = Head(queue[s])
    OBVIOUS
  <1>2. PICK d : d = Destination(m)
    OBVIOUS
  <1> DEFINE r == Tail(queue[s])
             bs == <<"queue", s>>
             bd == <<"inbox", d>>
  <1>3. /\ queue[s] # <<>> /\ Post(s, <<>>) /\ d # s
        /\ inbox' = [inbox EXCEPT ![d] = Append(@, m)]
        /\ UNCHANGED spoken /\ UNCHANGED failed
    BY <1>1, <1>2 DEF Forward, spoken, actorVars, ownerVars
  <1>4. TypeOK /\ Mails
    BY DEF Inv
  <1>5. /\ m \in Messages /\ Says(m) /\ Placed(bs, m)
        /\ m.kind \in Single =>
             \A b \in Boxes : \A n \in Range(Box(b)) : (b = bs => n \in Range(r)) => n # m
    BY <1>1, <1>3, <1>4, HeadSays
  <1>6. d \in Supervisors
    BY <1>2, <1>5, MsgType
  <1>7. Sends(s, r, <<>>) /\ Left(s, r)
    BY <1>3, PostSends
  <1>8. Rest(s, r) /\ Range(queue[s]) = {m} \cup Range(r)
    BY <1>1, <1>3, <1>4, <1>7, LeftRest, TailOfIt
  <1> HIDE DEF r
  <1>9. \A t \in Supervisors : queue'[t] = IF t = s THEN r ELSE queue[t]
    <2>1. r \o <<>> = r
      BY <1>8, Few DEF Rest
    <2>2. QED
      BY <1>4, <1>7, <2>1 DEF Sends, TypeOK
  <1>10. /\ bs \in Boxes /\ Box(bs) = queue[s]
         /\ bd \in Boxes /\ Box(bd) = inbox[d] /\ bs # bd
    BY <1>4, <1>6, BoxTypes
  <1>11. /\ \A b \in Boxes : b # bs /\ b # bd => Box(b)' = Box(b)
         /\ Box(bs)' = r /\ Box(bd)' = Append(inbox[d], m)
    <2>1. inbox'[d] = Append(inbox[d], m) /\ \A t \in Supervisors : t # d => inbox'[t] = inbox[t]
      BY <1>3, <1>4, <1>6 DEF TypeOK
    <2>2. \A b \in Boxes : b # bs /\ b # bd => Box(b)' = Box(b)
      BY <1>9, <2>1 DEF Boxes, Box
    <2>3. Box(bs)' = r /\ Box(bd)' = Append(inbox[d], m)
      BY <1>9, <2>1, PlacesAssumption DEF Box
    <2>4. QED
      BY <2>2, <2>3
  <1>12. /\ Append(inbox[d], m) = inbox[d] \o <<m>>
         /\ inbox[d] \in Seq(Messages) /\ OneEach(inbox[d])
         /\ <<m>> \in Seq(Messages) /\ Range(<<m>>) = {m} /\ OneEach(<<m>>)
    <2>1. inbox[d] \in Seq(Messages) /\ OneEach(inbox[d])
      BY <1>4, <1>6, <1>10 DEF TypeOK, Mails, Unique
    <2>2. <<m>> \in Seq(Messages) /\ Range(<<m>>) = {m} /\ OneEach(<<m>>)
      BY <1>5, Few
    <2>3. QED
      BY <1>5, <2>1, <2>2, Few
  <1>13. m.kind \in Single => m \notin Range(inbox[d])
    BY <1>5, <1>10
  <1>14. OneEach(Append(inbox[d], m)) /\ Range(Append(inbox[d], m)) = Range(inbox[d]) \cup {m}
    <2>1. OneEach(inbox[d] \o <<m>>)
      BY <1>12, <1>13, JoinedOnce
    <2>2. Range(inbox[d] \o <<m>>) = Range(inbox[d]) \cup Range(<<m>>)
      BY <1>12, Joined
    <2>3. QED
      BY <1>12, <2>1, <2>2
  <1> HIDE DEF bs, bd
  <1>15. \A b \in Boxes : OneEach(Box(b)')
    BY <1>4, <1>8, <1>11, <1>14 DEF Mails, Unique, Rest
  <1>16. \A b \in Boxes : \A n \in Range(Box(b)') :
            \/ n \in Range(Box(b)) /\ (b = bs => n \in Range(r))
            \/ n = m /\ b = bd
    BY <1>8, <1>10, <1>11, <1>14 DEF Rest
  <1>17. ASSUME NEW b \in Boxes, NEW c \in Boxes, NEW n \in Range(Box(b)'),
                n \in Range(Box(c)'), n.kind \in Single
         PROVE  b = c
    <2>1. CASE n = m
      BY <1>5, <1>16, <1>17, <2>1
    <2>2. CASE n # m
      BY <1>4, <1>16, <1>17, <2>2 DEF Mails, Unique
    <2>3. QED
      BY <2>1, <2>2
  <1>18. Unique'
    BY <1>15, <1>17 DEF Unique
  <1>19. m.kind \notin Inner
    <2> SUFFICES ASSUME m.kind \in Inner PROVE FALSE
      OBVIOUS
    <2>1. m.to \in Actors /\ d = Home[m.to]
      BY <1>2, <1>5, MsgType
    <2>2. HomeBox(m.to) = <<"queue", s>>
      BY <1>5 DEF Placed, bs
    <2>3. QED
      BY <1>3, <2>1, <2>2 DEF HomeBox
  <1>20. Says(m)' /\ Placed(bd, m)'
    <2>1. \A a : HomeBox(a) # bd
      BY DEF HomeBox, bd
    <2>2. Placed(bd, m)
      BY <1>19, <2>1 DEF Placed
    <2>3. QED
      BY <1>3, <1>5, <2>2, Frame
  <1>21. \A b \in Boxes : \A n \in Range(Box(b)) : Says(n)' /\ Placed(b, n)'
    BY <1>3, <1>4, InFlight, Frame
  <1>22. Said'
    BY <1>16, <1>20, <1>21 DEF Said
  <1>23. \A t \in Supervisors : Early(t, queue'[t])
    BY <1>4, <1>8, <1>9 DEF Mails, Rest
  <1>24. Mails'
    BY <1>18, <1>22, <1>23 DEF Mails
  <1>25. m.kind \notin Ends
    BY <1>19 DEF Inner, Ends
  <1>26. Driven'
    <2>1. \A t \in Supervisors : \A n \in Range(queue[t]) : n.kind \in Ends => n \in Range(queue'[t])
      BY <1>8, <1>9, <1>25
    <2>2. QED
      BY <1>3, <1>4, <2>1, StillDriven DEF Inv, spoken
  <1>27. QED
    BY <1>3, <1>24, <1>26, Frame DEF Inv

\* An actor that shuts down has something to wait for in its queue.
LEMMA ShuttingDownWaits ==
    ASSUME Inv, NEW a \in Actors, state[a] = "SHUTTING_DOWN"
    PROVE  queue[Home[a]] # <<>>
  <1>1. ActorOK(a) /\ DrivenOK(a)
    BY DEF Inv, Places, Driven
  <1>2. Range(queue[Home[a]]) # {}
    <2>1. CASE a \in parting
      BY <1>1, <2>1 DEF DrivenOK
    <2>2. CASE a \notin parting
      <3>1. Range(own[a]) \cup points[a] # {}
        <4>1. own[a] \in Seq(Addresses)
          BY DEF Inv, TypeOK
        <4>2. own[a] # <<>> \/ points[a] # {}
          BY <1>1, <2>2 DEF ActorOK
        <4>3. QED
          BY <4>1, <4>2, Elements
      <3>2. PICK x \in Range(own[a]) \cup points[a] : TRUE
        BY <3>1
      <3>3. x \in Range(own[a]) \cup Anonymous(a, points[a]) /\ Point(a, x) \in leaving
        BY <1>1, <3>2 DEF ActorOK, Anonymous
      <3>4. QED
        BY <1>1, <3>3 DEF DrivenOK, Listens
    <2>3. QED
      BY <2>1, <2>2
  <1>3. QED
    BY <1>2, NoElements

LEMMA LoadInv ==
    ASSUME Inv, TypeOK', NEW s \in Supervisors, Load(s)
    PROVE  Inv'
  <1> DEFINE bs == <<"queue", s>>
             bi == <<"inbox", s>>
  <1>1. /\ queue[s] = <<>>
        /\ queue' = [queue EXCEPT ![s] = inbox[s]]
        /\ inbox' = [inbox EXCEPT ![s] = <<>>]
        /\ UNCHANGED spoken /\ UNCHANGED failed
    BY DEF Load, spoken, actorVars, ownerVars
  <1>2. TypeOK /\ Mails
    BY DEF Inv
  <1>3. bs \in Boxes /\ bi \in Boxes /\ bs # bi /\ Box(bs) = queue[s] /\ Box(bi) = inbox[s]
    BY <1>2, BoxTypes
  <1>4. /\ \A b \in Boxes : b # bs /\ b # bi => Box(b)' = Box(b)
        /\ Box(bs)' = inbox[s] /\ Box(bi)' = <<>>
    <2>1. /\ queue'[s] = inbox[s] /\ inbox'[s] = <<>>
          /\ \A t \in Supervisors : t # s => queue'[t] = queue[t] /\ inbox'[t] = inbox[t]
      BY <1>1, <1>2 DEF TypeOK
    <2>2. \A b \in Boxes : b # bs /\ b # bi => Box(b)' = Box(b)
      BY <2>1 DEF Boxes, Box
    <2>3. Box(bs)' = inbox[s] /\ Box(bi)' = <<>>
      BY <2>1 DEF Box
    <2>4. QED
      BY <2>2, <2>3
  <1>5. /\ queue'[s] = inbox[s]
        /\ \A t \in Supervisors : t # s => queue'[t] = queue[t]
    BY <1>1, <1>2 DEF TypeOK
  <1>6. \A m \in Range(inbox[s]) : m.kind \notin Inner /\ m.kind # "shutdown"
    <2>1. \A a : HomeBox(a) # bi
      BY DEF HomeBox
    <2>2. \A m \in Range(inbox[s]) : Placed(bi, m)
      BY <1>2, <1>3 DEF Mails, Said
    <2> HIDE DEF bi
    <2>3. QED
      BY <2>1, <2>2 DEF Placed, Inner
  <1>7. Unique'
    <2> HIDE DEF bs, bi
    <2>1. \A b \in Boxes : OneEach(Box(b)')
      BY <1>2, <1>3, <1>4, Few DEF Mails, Unique
    <2>2. \A b \in Boxes : \A n \in Range(Box(b)') :
            b # bi /\ n \in Range(Box(IF b = bs THEN bi ELSE b))
      BY <1>3, <1>4, NoElements
    <2>3. ASSUME NEW b \in Boxes, NEW c \in Boxes, NEW n \in Range(Box(b)'),
                 n \in Range(Box(c)'), n.kind \in Single
          PROVE  b = c
      <3> DEFINE o(x) == IF x = bs THEN bi ELSE x
      <3>1. o(b) \in Boxes /\ o(c) \in Boxes /\ n \in Range(Box(o(b))) /\ n \in Range(Box(o(c)))
        BY <1>3, <2>2, <2>3
      <3>2. o(b) = o(c)
        BY <1>2, <2>3, <3>1 DEF Mails, Unique
      <3>3. QED
        BY <2>2, <2>3, <3>2
    <2>4. QED
      BY <2>1, <2>3 DEF Unique
  <1>8. Said'
    <2>1. \A b \in Boxes : \A n \in Range(Box(b)) : Says(n)' /\ Placed(b, n)'
      BY <1>1, <1>2, InFlight, Frame
    <2>2. ASSUME NEW m \in Range(inbox[s]) PROVE Says(m)' /\ Placed(bs, m)'
      <3>1. Says(m)' /\ m \in Messages
        BY <1>2, <1>3, <2>1, InFlight
      <3>2. ASSUME m.kind = "foreign_unsubscription", bs = HomeBox(m.to)
            PROVE  state[m.to] # "SHUTTING_DOWN"
        <4>1. m.to \in Actors /\ Home[m.to] = s
          BY <3>1, <3>2, MsgType DEF HomeBox
        <4>2. QED
          BY <1>1, <4>1, ShuttingDownWaits
      <3>3. Placed(bs, m)
        BY <1>6, <3>2 DEF Placed
      <3>4. QED
        BY <1>1, <3>1, <3>3, Frame
    <2> HIDE DEF bs, bi
    <2>3. ASSUME NEW b \in Boxes, NEW n \in Range(Box(b)') PROVE Says(n)' /\ Placed(b, n)'
      BY <1>3, <1>4, <2>1, <2>2, <2>3, NoElements
    <2>4. QED
      BY <2>3 DEF Said
  <1>9. \A t \in Supervisors : Early(t, queue'[t])
    <2>1. Early(s, inbox[s])
      <3>1. \A i \in 1 .. Len(inbox[s]) : inbox[s][i] \in Range(inbox[s])
        BY <1>2, Elements DEF TypeOK
      <3>2. QED
        BY <1>6, <3>1 DEF Early
    <2>2. QED
      BY <1>2, <1>5, <2>1 DEF Mails
  <1>10. Mails'
    BY <1>7, <1>8, <1>9 DEF Mails
  <1>11. Driven'
    <2>1. \A t \in Supervisors : \A n \in Range(queue[t]) : n.kind \in Ends => n \in Range(queue'[t])
      BY <1>1, <1>5, NoElements
    <2>2. QED
      BY <1>1, <1>2, <2>1, StillDriven DEF Inv, spoken
  <1>12. QED
    BY <1>1, <1>10, <1>11, Frame DEF Inv

\* The actors of a supervisor whose thread runs tagged handlers subscribe in
\* configure() to what their own supervisor has made.
TaggedAtHome ==
    \A a \in Actors : Home[a] \in Tagged => \A x \in Range(Subscribes[a]) : Owner[x] = Home[a]

LEMMA CheckInv ==
    ASSUME TaggedAtHome, Inv, TypeOK', NEW s \in Supervisors, Check(s)
    PROVE  Inv'
  <1> DEFINE bs == <<"queue", s>>
             bi == <<"inbox", s>>
             r == queue[s] \o inbox[s]
  <1>1. /\ s \in Tagged
        /\ queue' = [queue EXCEPT ![s] = r]
        /\ inbox' = [inbox EXCEPT ![s] = <<>>]
        /\ UNCHANGED spoken /\ UNCHANGED failed
    BY DEF Check, spoken, actorVars, ownerVars
  <1>2. TypeOK /\ Mails /\ queue[s] \in Seq(Messages) /\ inbox[s] \in Seq(Messages)
    BY DEF Inv, TypeOK
  <1>3. bs \in Boxes /\ bi \in Boxes /\ bs # bi /\ Box(bs) = queue[s] /\ Box(bi) = inbox[s]
    BY <1>2, BoxTypes
  <1>4. /\ queue'[s] = r /\ inbox'[s] = <<>>
        /\ \A t \in Supervisors : t # s => queue'[t] = queue[t] /\ inbox'[t] = inbox[t]
    BY <1>1, <1>2 DEF TypeOK
  <1>5. Range(r) = Range(queue[s]) \cup Range(inbox[s])
    BY <1>2, Joined
  <1> HIDE DEF r
  <1>6. /\ \A b \in Boxes : b # bs /\ b # bi => Box(b)' = Box(b)
        /\ Box(bs)' = r /\ Box(bi)' = <<>>
    <2>1. \A b \in Boxes : b # bs /\ b # bi => Box(b)' = Box(b)
      BY <1>4 DEF Boxes, Box
    <2>2. Box(bs)' = r /\ Box(bi)' = <<>>
      BY <1>4 DEF Box
    <2>3. QED
      BY <2>1, <2>2
  <1>7. ASSUME NEW m \in Range(inbox[s])
        PROVE  m \in Messages /\ Says(m) /\ m.kind \notin Inner /\ ~Near(s, m)
    <2>1. \A a : HomeBox(a) # bi
      BY DEF HomeBox
    <2>2. m \in Messages /\ Says(m) /\ Placed(bi, m)
      BY <1>2, <1>3, <1>7, InFlight
    <2> HIDE DEF bi
    <2>3. m.kind \notin Inner
      BY <2>1, <2>2 DEF Placed
    <2>4. ASSUME m.kind = "foreign_unsubscription" PROVE Home[m.to] # s
      <3>1. m.to \in Actors /\ m.to = m.point.actor /\ Foreign(m.point)
        BY <2>2, <2>4, MsgType DEF Says, ToActor
      <3>2. m.point.address \in Range(Subscribes[m.to]) /\ Owner[m.point.address] # Home[m.to]
        BY <3>1 DEF Foreign, InternalAddress, PluginOwned
      <3>3. QED
        BY <1>1, <3>1, <3>2 DEF TaggedAtHome
    <2>5. QED
      BY <2>2, <2>3, <2>4 DEF Near
  <1>8. OneEach(r) /\ Early(s, r)
    <2>1. OneEach(queue[s]) /\ OneEach(inbox[s]) /\ Early(s, queue[s])
      BY <1>2, <1>3 DEF Mails, Unique
    <2>2. \A m \in Range(inbox[s]) : m.kind \in Single => m \notin Range(queue[s])
      BY <1>2, <1>3 DEF Mails, Unique
    <2>3. QED
      BY <1>2, <1>7, <2>1, <2>2, JoinedOnce, JoinedEarly DEF r
  <1>9. Unique'
    <2> HIDE DEF bs, bi
    <2>1. OneEach(<<>>)
      BY Few
    <2>2. \A b \in Boxes : OneEach(Box(b)')
      BY <1>2, <1>3, <1>6, <1>8, <2>1 DEF Mails, Unique
    <2>3. \A b \in Boxes : \A n \in Range(Box(b)') :
            b # bi /\ (n \in Range(Box(b)) \/ (b = bs /\ n \in Range(Box(bi))))
      BY <1>3, <1>5, <1>6, NoElements
    <2>4. ASSUME NEW b \in Boxes, NEW c \in Boxes, NEW n \in Range(Box(b)'),
                 n \in Range(Box(c)'), n.kind \in Single
          PROVE  b = c
      <3>1. /\ b # bi /\ (n \in Range(Box(b)) \/ (b = bs /\ n \in Range(Box(bi))))
            /\ c # bi /\ (n \in Range(Box(c)) \/ (c = bs /\ n \in Range(Box(bi))))
        BY <2>3, <2>4
      <3>2. \A d, e \in Boxes : n \in Range(Box(d)) /\ n \in Range(Box(e)) => d = e
        BY <1>2, <2>4 DEF Mails, Unique
      <3>3. QED
        BY <1>3, <3>1, <3>2
    <2>5. QED
      BY <2>2, <2>4 DEF Unique
  <1>10. Said'
    <2>1. \A b \in Boxes : \A n \in Range(Box(b)) : Says(n)' /\ Placed(b, n)'
      BY <1>1, <1>2, InFlight, Frame
    <2>2. ASSUME NEW m \in Range(inbox[s]) PROVE Says(m)' /\ Placed(bs, m)'
      <3>1. m \in Messages /\ Says(m) /\ m.kind \notin Inner /\ ~Near(s, m)
        BY <1>7
      <3>2. m.kind = "foreign_unsubscription" => m.to \in Actors /\ bs # HomeBox(m.to)
        BY <3>1, MsgType DEF HomeBox, Near
      <3>3. Placed(bs, m)
        BY <3>1, <3>2 DEF Placed
      <3>4. QED
        BY <1>1, <3>1, <3>3, Frame
    <2> HIDE DEF bs, bi
    <2>3. ASSUME NEW b \in Boxes, NEW n \in Range(Box(b)') PROVE Says(n)' /\ Placed(b, n)'
      BY <1>3, <1>5, <1>6, <2>1, <2>2, <2>3, NoElements
    <2>4. QED
      BY <2>3 DEF Said
  <1>11. \A t \in Supervisors : Early(t, queue'[t])
    BY <1>2, <1>4, <1>8 DEF Mails
  <1>12. Mails'
    BY <1>9, <1>10, <1>11 DEF Mails
  <1>13. Driven'
    <2>1. \A t \in Supervisors : \A n \in Range(queue[t]) : n.kind \in Ends => n \in Range(queue'[t])
      BY <1>4, <1>5
    <2>2. QED
      BY <1>1, <1>2, <2>1, StillDriven DEF Inv, spoken
  <1>14. QED
    BY <1>1, <1>12, <1>13, Frame DEF Inv

\* A step of an owner: no supervisor becomes OPERATIONAL, and of the foreign
\* points only one is dropped of which the actor knows no more.
LEMMA OwnerFrame ==
    ASSUME Inv, UNCHANGED <<state, own, tracked, points, leaving, parting>>,
           NEW gone \in SUBSET Points, \A p \in gone : p.address \notin Range(own[p.actor]),
           \A t \in Supervisors : /\ supState[t] # "OPERATIONAL" => supState'[t] # "OPERATIONAL"
                                  /\ foreign[t] \ gone \subseteq foreign'[t]
    PROVE  /\ Places'
           /\ \A m \in Messages :
                /\ Says(m) /\ (m.kind = "commit_unsubscription" => m.point \notin gone) => Says(m)'
                /\ \A b : Placed(b, m) => Placed(b, m)'
  <1>1. \A x \in Addresses : Owner[x] \in Supervisors
    BY PointType
  <1>2. ASSUME NEW a \in Actors PROVE ActorOK(a)' /\ KnownOK(a)'
    <2>1. /\ own[a] \in Seq(Addresses) /\ Range(own[a]) \subseteq Addresses
          /\ Range(Subscribes[a]) \subseteq Addresses
      BY PointType, Elements DEF Inv, TypeOK
    <2>2. ActorOK(a) /\ KnownOK(a)
      BY DEF Inv, Places
    <2>3. ActorOK(a)'
      BY <1>1, <2>1, <2>2 DEF ActorOK
    <2>4. \A x \in Range(own[a]) : Point(a, x) \notin gone
      BY <2>1, PointType
    <2>5. KnownOK(a)'
      BY <1>1, <2>1, <2>2, <2>4 DEF KnownOK
    <2>6. QED
      BY <2>3, <2>5
  <1>3. Places'
    BY <1>2 DEF Places
  <1>4. ASSUME NEW m \in Messages, Says(m),
               m.kind = "commit_unsubscription" => m.point \notin gone
        PROVE  Says(m)'
    <2>1. m.kind \in {"subscription", "foreign_unsubscription", "commit_unsubscription"} =>
            m.point \in Points /\ Owner[m.point.address] \in Supervisors
      BY PointType, MsgType
    <2>2. CASE m.kind = "subscription"
      BY <1>4, <2>1, <2>2 DEF Says
    <2>3. CASE m.kind = "foreign_unsubscription"
      BY <1>4, <2>1, <2>3 DEF Says
    <2>4. CASE m.kind = "commit_unsubscription"
      BY <1>4, <2>1, <2>4 DEF Says
    <2>5. CASE m.kind \notin {"subscription", "foreign_unsubscription", "commit_unsubscription"}
      BY <1>4, <2>5 DEF Says
    <2>6. QED
      BY <2>2, <2>3, <2>4, <2>5
  <1>5. ASSUME NEW m \in Messages PROVE \A b : Placed(b, m) => Placed(b, m)'
    BY DEF Placed
  <1>6. QED
    BY <1>3, <1>4, <1>5

LEMMA OnSupFarewellInv ==
    ASSUME Inv, TypeOK', NEW s \in Supervisors, OnSupFarewell(s)
    PROVE  Inv'
  <1> DEFINE r == Tail(queue[s])
             none == {}
  <1>1. /\ queue[s] # <<>> /\ Head(queue[s]).kind = "sup_farewell" /\ Post(s, <<>>)
        /\ UNCHANGED <<state, own, tracked, points, leaving, parting>>
        /\ UNCHANGED foreign /\ UNCHANGED inbox /\ UNCHANGED failed
        /\ supState' = [supState EXCEPT ![s] = "SHUT_DOWN"]
    BY DEF OnSupFarewell, Next1, actorVars
  <1>2. \A t \in Supervisors : /\ supState[t] # "OPERATIONAL" => supState'[t] # "OPERATIONAL"
                               /\ foreign[t] \ none \subseteq foreign'[t]
    BY <1>1 DEF Inv, TypeOK
  <1>3. none \in SUBSET Points /\ \A p : p \notin none
    OBVIOUS
  <1> HIDE DEF none
  <1>4. /\ Places'
        /\ \A m \in Messages : /\ Says(m) => Says(m)'
                               /\ \A b : Placed(b, m) => Placed(b, m)'
    BY <1>1, <1>2, <1>3, OwnerFrame
  <1>5. TypeOK /\ Mails
    BY DEF Inv
  <1>6. Sends(s, r, <<>>) /\ Left(s, r) /\ <<>> \in Seq(Messages)
    BY <1>1, PostSends, Few
  <1>7. Rest(s, r)
    BY <1>5, <1>6, LeftRest
  <1> HIDE DEF r
  <1>8. Mails'
    <2>1. \A b \in Boxes : \A m \in Range(Box(b)) : Says(m)' /\ Placed(b, m)'
      BY <1>4, <1>5, InFlight
    <2>2. QED
      BY <1>1, <1>5, <1>6, <1>7, <2>1, Few, Sending DEF Sends
  <1>9. Driven'
    <2>1. Head(queue[s]).kind \notin Ends
      BY <1>1 DEF Ends
    <2>2. QED
      BY <1>1, <1>5, <1>6, <2>1, LeftStays, StillDriven DEF Inv
  <1>10. ForeignOK'
    BY <1>1 DEF Inv, ForeignOK
  <1>11. QED
    BY <1>1, <1>4, <1>8, <1>9, <1>10 DEF Inv

\* The owner asks the actors to let go, none of which has done so.
LEMMA ShutdownSupervisorInv ==
    ASSUME Inv, TypeOK', NEW s \in Supervisors, ShutdownSupervisor(s)
    PROVE  Inv'
  <1> DEFINE evictions == SetToSeq(foreign[s])
             bye == [kind |-> "sup_farewell", to |-> s]
             es == [i \in 1 .. Len(evictions) |->
                        ToActor("foreign_unsubscription", evictions[i])]
             ms == IF foreign[s] = {} THEN <<bye>> ELSE es
             r == queue[s]
             none == {}
  <1>1. TypeOK /\ Mails /\ Places /\ ForeignOK /\ Driven
    BY DEF Inv
  <1>2. /\ es \in Seq(Messages) /\ OneEach(es)
        /\ Range(es) = {ToActor("foreign_unsubscription", p) : p \in foreign[s]}
    BY <1>1, Evicting
  <1>3. /\ supState[s] = "OPERATIONAL"
        /\ \/ supState' = [supState EXCEPT ![s] = "CLOSING"]
           \/ supState' = [supState EXCEPT ![s] = "SHUTTING_DOWN"]
        /\ IF foreign[s] = {} THEN queue' = [queue EXCEPT ![s] = Append(@, bye)]
                              ELSE queue' = [queue EXCEPT ![s] = @ \o es]
        /\ UNCHANGED <<state, own, tracked, points, leaving, parting>>
        /\ UNCHANGED foreign /\ UNCHANGED inbox /\ UNCHANGED failed
    BY DEF ShutdownSupervisor, actorVars
  <1> HIDE DEF es
  <1>4. bye \in Messages /\ <<bye>> \in Seq(Messages) /\ Range(<<bye>>) = {bye} /\ OneEach(<<bye>>)
    BY OtherMessages, Few
  <1>5. bye.kind = "sup_farewell"
    OBVIOUS
  <1> HIDE DEF bye
  <1>6. queue[s] \in Seq(Messages)
    BY <1>1 DEF TypeOK
  <1>7. Sends(s, r, ms)
    BY <1>3, <1>4, <1>6, Few DEF Sends
  <1>8. /\ ms \in Seq(Messages) /\ OneEach(ms)
        /\ \A m \in Range(ms) : \/ m = bye
                                \/ \E p \in foreign[s] : m = ToActor("foreign_unsubscription", p)
    BY <1>2, <1>4
  <1> HIDE DEF ms
  <1>9. Left(s, r) /\ r = queue[s] /\ Rest(s, r)
    BY <1>1, LeftRest DEF Left
  <1> HIDE DEF r
  <1>10. \A t \in Supervisors : /\ supState[t] # "OPERATIONAL" => supState'[t] # "OPERATIONAL"
                                /\ foreign[t] \ none \subseteq foreign'[t]
    BY <1>1, <1>3 DEF TypeOK
  <1>11. none \in SUBSET Points /\ \A p : p \notin none
    OBVIOUS
  <1> HIDE DEF none
  <1>12. /\ Places'
         /\ \A m \in Messages : /\ Says(m) => Says(m)'
                                /\ \A b : Placed(b, m) => Placed(b, m)'
    BY <1>3, <1>10, <1>11, OwnerFrame
  <1>13. \A b \in Boxes : \A m \in Range(Box(b)) : Says(m)' /\ Placed(b, m)'
    BY <1>1, <1>12, InFlight
  <1>14. ASSUME NEW p \in foreign[s], NEW m, m = ToActor("foreign_unsubscription", p)
         PROVE  m \notin Flying /\ ~Near(s, m) /\ Says(m)' /\ Placed(<<"queue", s>>, m)'
    <2>1. p \in Points
      BY <1>1 DEF TypeOK
    <2>2. /\ m.kind = "foreign_unsubscription" /\ m.point = p /\ m.to = p.actor
          /\ p.actor \in Actors /\ p.address \in Addresses /\ p = Point(p.actor, p.address)
      BY <1>14, <2>1, PointMessages, PointType
    <2>3. /\ Owner[p.address] = s /\ ~InternalAddress(p) /\ PluginOwned(p)
          /\ state[p.actor] # "NEW"
      BY <1>1 DEF ForeignOK
    <2>4. Home[p.actor] # s
      BY <2>3 DEF InternalAddress
    <2>5. m \notin Flying
      <3> SUFFICES ASSUME NEW b \in Boxes, m \in Range(Box(b)) PROVE FALSE
        BY DEF Flying
      <3>1. Says(m)
        BY <1>1, InFlight
      <3>2. QED
        BY <1>3, <2>2, <2>3, <3>1 DEF Says
    <2>6. state[p.actor] \in Ready => p.address \in Range(own[p.actor])
      <3>1. ActorOK(p.actor)
        BY <1>1, <2>2 DEF Places
      <3>2. QED
        BY <1>3, <2>3, <3>1 DEF ActorOK, PluginOwned
    <2>7. supState'[s] # "OPERATIONAL"
      BY <1>1, <1>3 DEF TypeOK
    <2>8. Says(m)'
      BY <1>3, <1>14, <2>2, <2>3, <2>6, <2>7 DEF Says, Foreign
    <2>9. Placed(<<"queue", s>>, m)'
      BY <2>2, <2>4 DEF Placed, HomeBox, Inner
    <2>10. QED
      BY <2>2, <2>4, <2>5, <2>8, <2>9 DEF Near
  <1>15. \A m \in Range(ms) :
            /\ (m.kind \in Single => m \notin Flying) /\ ~Near(s, m)
            /\ Says(m)' /\ Placed(<<"queue", s>>, m)'
    BY <1>5, <1>8, <1>14, SilentSays DEF Silent
  <1>16. Mails'
    BY <1>1, <1>3, <1>7, <1>8, <1>9, <1>13, <1>15, Sending DEF Sends
  <1>17. Driven'
    BY <1>1, <1>3, <1>7, <1>8, <1>9, LeftStays, StillDriven
  <1>18. ForeignOK'
    BY <1>1, <1>3 DEF ForeignOK
  <1>19. QED
    BY <1>3, <1>12, <1>16, <1>17, <1>18 DEF Inv

LEMMA OnExternalSubscriptionInv ==
    ASSUME Inv, TypeOK', NEW s \in Supervisors, OnExternalSubscription(s)
    PROVE  Inv'
  <1>1. PICK p : p = Head(queue[s]).point
    OBVIOUS
  <1> DEFINE h == Head(queue[s])
             r == Tail(queue[s])
             m == ToActor("subscription", p)
             none == {}
  <1>2. TypeOK /\ Mails /\ Places /\ ForeignOK /\ Driven
    BY DEF Inv
  <1>3. /\ queue[s] # <<>> /\ h.kind = "external_subscription" /\ Destination(h) = s
        /\ Post(s, <<m>>)
        /\ foreign' = [foreign EXCEPT ![s] = @ \cup {p}]
        /\ UNCHANGED <<state, own, tracked, points, leaving, parting>>
        /\ UNCHANGED supState /\ UNCHANGED inbox /\ UNCHANGED failed
    BY <1>1 DEF OnExternalSubscription, Next1, actorVars
  <1>4. h \in Messages /\ Says(h)
    BY <1>2, <1>3, HeadSays
  <1>5. p \in Points /\ h.to \in Supervisors
    BY <1>1, <1>3, <1>4, MsgType
  <1>6. h = ToOwner("external_subscription", p) /\ Foreign(p) /\ state[p.actor] # "NEW"
    BY <1>1, <1>3, <1>4 DEF Says
  <1>7. Owner[p.address] = s
    <2>1. h.to = Owner[p.address]
      BY <1>5, <1>6, PointMessages
    <2>2. QED
      BY <1>3, <1>4, <1>5, <2>1, MsgType
  <1>8. /\ m \in Messages /\ m.kind = "subscription" /\ m.point = p
        /\ <<m>> \in Seq(Messages) /\ Range(<<m>>) = {m} /\ OneEach(<<m>>)
    BY <1>5, PointMessages, Few
  <1>9. Sends(s, r, <<m>>) /\ Left(s, r)
    BY <1>3, PostSends
  <1>10. Rest(s, r)
    BY <1>2, <1>9, LeftRest
  <1>11. h.kind \notin Ends
    BY <1>3 DEF Ends
  <1>12. \A t \in Supervisors : /\ supState[t] # "OPERATIONAL" => supState'[t] # "OPERATIONAL"
                                /\ foreign[t] \ none \subseteq foreign'[t]
    BY <1>2, <1>3 DEF TypeOK
  <1>13. none \in SUBSET Points /\ \A q : q \notin none
    OBVIOUS
  <1> HIDE DEF none
  <1>14. /\ Places'
         /\ \A n \in Messages : /\ Says(n) => Says(n)'
                                /\ \A b : Placed(b, n) => Placed(b, n)'
    BY <1>3, <1>12, <1>13, OwnerFrame
  <1>15. \A b \in Boxes : \A n \in Range(Box(b)) : Says(n)' /\ Placed(b, n)'
    BY <1>2, <1>14, InFlight
  <1>16. p \in foreign'[s]
    BY <1>2, <1>3 DEF TypeOK
  <1>17. Says(m)'
    BY <1>3, <1>6, <1>7, <1>8, <1>16 DEF Says, Foreign
  <1>18. Placed(<<"queue", s>>, m)' /\ m.kind \notin Single /\ ~Near(s, m)
    BY <1>8 DEF Placed, Inner, Single, Near
  <1> HIDE DEF m, r, h
  <1>19. Mails'
    BY <1>2, <1>3, <1>8, <1>9, <1>10, <1>15, <1>17, <1>18, Sending DEF Sends
  <1>20. Driven'
    BY <1>2, <1>3, <1>8, <1>9, <1>11, LeftStays, StillDriven DEF h
  <1>21. ForeignOK'
    <2>1. \A t \in Supervisors : foreign'[t] = IF t = s THEN foreign[t] \cup {p} ELSE foreign[t]
      BY <1>2, <1>3 DEF TypeOK
    <2>2. QED
      BY <1>2, <1>3, <1>6, <1>7, <2>1 DEF ForeignOK, Foreign
  <1>22. QED
    BY <1>3, <1>14, <1>19, <1>20, <1>21 DEF Inv

\* The point is still there, and no commit for it comes again.
LEMMA OnCommitUnsubscriptionInv ==
    ASSUME Inv, TypeOK', NEW s \in Supervisors, OnCommitUnsubscription(s)
    PROVE  Inv'
  <1>1. PICK p : p = Head(queue[s]).point
    OBVIOUS
  <1> DEFINE h == Head(queue[s])
             r == Tail(queue[s])
             bye == [kind |-> "sup_farewell", to |-> s]
             left == foreign[s] \ {p}
             ends == LastForeign(s, left)
             ms == IF ends THEN <<bye>> ELSE <<>>
  <1>2. TypeOK /\ Mails /\ Places /\ ForeignOK /\ Driven
    BY DEF Inv
  <1>3. queue[s] # <<>> /\ h.kind = "commit_unsubscription" /\ Destination(h) = s
    BY DEF OnCommitUnsubscription, Next1
  <1>4. /\ h \in Messages /\ Says(h)
        /\ h.kind \in Single =>
             \A b \in Boxes : \A n \in Range(Box(b)) : (b = <<"queue", s>> => n \in Range(r)) => n # h
    BY <1>2, <1>3, HeadSays
  <1>5. p \in Points /\ h.to \in Supervisors
    BY <1>1, <1>3, <1>4, MsgType
  <1>6. /\ h = ToOwner("commit_unsubscription", p) /\ p \in foreign[Owner[p.address]]
        /\ p.address \notin Range(own[p.actor])
    BY <1>1, <1>3, <1>4 DEF Says
  <1>7. Owner[p.address] = s
    <2>1. h.to = Owner[p.address]
      BY <1>5, <1>6, PointMessages
    <2>2. QED
      BY <1>3, <1>4, <1>5, <2>1, MsgType
  <1>8. /\ foreign' = [foreign EXCEPT ![s] = left]
        /\ supState' = IF ends THEN [supState EXCEPT ![s] = "CLOSING"] ELSE supState
        /\ Post(s, ms)
        /\ UNCHANGED failed
        /\ UNCHANGED <<state, own, tracked, points, leaving, parting>>
        /\ UNCHANGED inbox
    BY <1>1, <1>6, <1>7 DEF OnCommitUnsubscription, actorVars
  <1>9. ms \in Seq(Messages) /\ OneEach(ms) /\ \A m \in Range(ms) : Silent(m)
    <2>1. bye \in Messages /\ Silent(bye)
      BY OtherMessages DEF Silent
    <2> HIDE DEF bye
    <2>2. QED
      BY <2>1, Few
  <1>10. Sends(s, r, ms) /\ Left(s, r)
    BY <1>3, <1>8, PostSends
  <1>11. Rest(s, r)
    BY <1>2, <1>10, LeftRest
  <1>12. h.kind \notin Ends
    BY <1>3 DEF Ends
  <1> HIDE DEF r, ms
  <1> DEFINE gone == {p}
  <1>13. /\ gone \in SUBSET Points /\ \A q : q \in gone <=> q = p
         /\ \A q \in gone : q.address \notin Range(own[q.actor])
    BY <1>5, <1>6
  <1>14. \A t \in Supervisors : foreign'[t] = IF t = s THEN foreign[t] \ {p} ELSE foreign[t]
    BY <1>2, <1>8 DEF TypeOK
  <1>15. \A t \in Supervisors : /\ supState[t] # "OPERATIONAL" => supState'[t] # "OPERATIONAL"
                                /\ foreign[t] \ gone \subseteq foreign'[t]
    <2>1. \A t \in Supervisors : supState[t] # "OPERATIONAL" => supState'[t] # "OPERATIONAL"
      <3> HIDE DEF ends
      <3>1. QED
        BY <1>2, <1>8 DEF TypeOK
    <2>2. QED
      BY <1>14, <2>1
  <1> HIDE DEF gone, ends, left
  <1>16. /\ Places'
         /\ \A n \in Messages :
                /\ Says(n) /\ (n.kind = "commit_unsubscription" => n.point # p) => Says(n)'
                /\ \A b : Placed(b, n) => Placed(b, n)'
    <2>1. /\ Places'
          /\ \A n \in Messages :
                /\ Says(n) /\ (n.kind = "commit_unsubscription" => n.point \notin gone) => Says(n)'
                /\ \A b : Placed(b, n) => Placed(b, n)'
      BY <1>8, <1>13, <1>15, OwnerFrame
    <2>2. \A q : q \in gone <=> q = p
      BY <1>13
    <2>3. QED
      BY <2>1, <2>2
  <1>17. ASSUME NEW b \in Boxes, NEW n \in Range(Box(b)),
                b = <<"queue", s>> => n \in Range(r)
         PROVE  Says(n)' /\ Placed(b, n)'
    <2>1. n \in Messages /\ Says(n) /\ Placed(b, n)
      BY <1>2, InFlight
    <2>2. ASSUME n.kind = "commit_unsubscription", n.point = p PROVE FALSE
      <3>1. n = h
        BY <1>6, <2>1, <2>2 DEF Says
      <3>2. QED
        BY <1>3, <1>4, <1>17, <3>1 DEF Single, r
    <2>3. QED
      BY <1>16, <2>1, <2>2
  <1>18. \A m \in Range(ms) :
            /\ (m.kind \in Single => m \notin Flying) /\ ~Near(s, m)
            /\ Says(m)' /\ Placed(<<"queue", s>>, m)'
    BY <1>9, SilentSays
  <1>19. Mails'
    BY <1>2, <1>8, <1>9, <1>10, <1>11, <1>17, <1>18, Sending DEF Sends
  <1>20. Driven'
    BY <1>2, <1>8, <1>9, <1>10, <1>12, LeftStays, StillDriven
  <1>21. ForeignOK'
    <2>1. \A t \in Supervisors : foreign'[t] \subseteq foreign[t]
      BY <1>14
    <2>2. state' = state
      BY <1>8
    <2>3. QED
      BY <1>2, <2>1, <2>2 DEF ForeignOK
  <1>22. QED
    BY <1>8, <1>16, <1>19, <1>20, <1>21 DEF Inv

\* The actor's side.
AboutPoints == {"subscription", "unsubscription", "unsubscription_external",
                "foreign_unsubscription", "external_subscription", "commit_unsubscription"}

LEMMA ActorAndOwner ==
    ASSUME NEW m \in Messages
    PROVE  /\ m.kind \in AboutPoints =>
                /\ m.point \in Points /\ m.point.actor \in Actors /\ m.point.address \in Addresses
                /\ Owner[m.point.address] \in Supervisors
                /\ m.point = Point(m.point.actor, m.point.address)
           /\ m.kind \in {"shutdown", "farewell", "foreign_unsubscription"} => m.to \in Actors
  BY MsgType, PointType DEF AboutPoints

\* An actor whose subscriptions a step leaves alone.
LEMMA DrivenOther ==
    ASSUME TypeOK, Driven, NEW b \in Actors,
           own'[b] = own[b], points'[b] = points[b],
           \A x \in Addresses : Point(b, x) \in leaving' => Point(b, x) \in leaving,
           b \in parting' => b \in parting,
           Listens(b)' => Listens(b),
           state'[b] = "SHUTTING_DOWN" => state[b] = "SHUTTING_DOWN",
           \A n \in Range(queue[Home[b]]) :
                n.kind \in Ends /\ n.to = b => n \in Range(queue'[Home[b]])
    PROVE  DrivenOK(b)'
  <1>1. own[b] \in Seq(Addresses) /\ points[b] \subseteq Addresses
    BY DEF TypeOK
  <1>2. Range(own[b]) \cup Anonymous(b, points[b]) \subseteq Addresses
    BY <1>1, Elements DEF Anonymous
  <1>3. \A x \in Addresses :
            Unsubscription(Point(b, x)).kind \in Ends /\ Unsubscription(Point(b, x)).to = b
    BY PointType, PointMessages DEF Ends
  <1>4. [kind |-> "farewell", to |-> b].kind \in Ends /\ [kind |-> "farewell", to |-> b].to = b
    BY DEF Ends
  <1>5. DrivenOK(b)
    BY DEF Driven
  <1>6. QED
    BY <1>2, <1>3, <1>4, <1>5 DEF DrivenOK, Anonymous

LEMMA OnSubscriptionInv ==
    ASSUME Inv, TypeOK', NEW s \in Supervisors, OnSubscription(s)
    PROVE  Inv'
  <1>1. PICK p : p = Head(queue[s]).point
    OBVIOUS
  <1>2. PICK a : a = p.actor
    OBVIOUS
  <1> DEFINE h == Head(queue[s])
             r == Tail(queue[s])
             left == tracked[a] \ {p.address}
  <1>3. TypeOK /\ Mails /\ Places /\ ForeignOK /\ Driven
    BY DEF Inv
  <1>4. /\ queue[s] # <<>> /\ h.kind = "subscription" /\ Post(s, <<>>)
        /\ UNCHANGED <<own, points, leaving, parting>>
        /\ UNCHANGED foreign /\ UNCHANGED supState /\ UNCHANGED inbox /\ UNCHANGED failed
    BY DEF OnSubscription, Next1, ownerVars
  <1>5. \/ tracked' = tracked /\ state' = state
        \/ /\ tracked' = [tracked EXCEPT ![a] = left]
           /\ state' = IF state[a] = "INITIALIZING" /\ left = {}
                       THEN [state EXCEPT ![a] = "OPERATIONAL"] ELSE state
    BY <1>1, <1>2 DEF OnSubscription
  <1>6. h \in Messages /\ Says(h)
    BY <1>3, <1>4, HeadSays
  <1>7. p \in Points /\ a \in Actors /\ p.address \in Addresses /\ p = Point(a, p.address)
    BY <1>1, <1>2, <1>4, <1>6, ActorAndOwner DEF AboutPoints
  <1>8. /\ state[a] = "INITIALIZING" => p.address \in Range(Subscribes[a])
        /\ p.address \in Range(own[a]) /\ Owner[p.address] # Home[a] =>
             p \in foreign[Owner[p.address]]
    BY <1>1, <1>2, <1>4, <1>6 DEF Says, InternalAddress, PluginOwned
  <1>9. Sends(s, r, <<>>) /\ Left(s, r) /\ <<>> \in Seq(Messages)
    BY <1>4, PostSends, Few
  <1>10. Rest(s, r)
    BY <1>3, <1>9, LeftRest
  <1>11. h.kind \notin Ends
    BY <1>4 DEF Ends
  <1> HIDE DEF h, r
  <1>12. \A b \in Actors :
            /\ \/ state'[b] = state[b]
               \/ b = a /\ state[b] = "INITIALIZING" /\ state'[b] = "OPERATIONAL"
            /\ state'[b] # state[b] => left = {}
            /\ tracked'[b] = tracked[b] \/ (b = a /\ tracked'[b] = left)
    <2>1. tracked \in [Actors -> SUBSET Addresses]
          /\ state \in [Actors -> {"NEW", "INITIALIZING", "OPERATIONAL", "SHUTTING_DOWN", "SHUT_DOWN"}]
      BY <1>3 DEF TypeOK
    <2> HIDE DEF left
    <2>2. CASE tracked' = tracked /\ state' = state
      BY <2>2
    <2>3. CASE tracked' = [tracked EXCEPT ![a] = left] /\ state' = state
      BY <1>7, <2>1, <2>3
    <2>4. CASE /\ tracked' = [tracked EXCEPT ![a] = left]
               /\ state[a] = "INITIALIZING" /\ left = {}
               /\ state' = [state EXCEPT ![a] = "OPERATIONAL"]
      BY <1>7, <2>1, <2>4
    <2>5. QED
      BY <1>5, <2>2, <2>3, <2>4
  <1>13. ASSUME NEW b \in Actors PROVE ActorOK(b)'
    <2>1. ActorOK(b)
      BY <1>3 DEF Places
    <2>2. state'[b] = state[b] \/ (state[b] = "INITIALIZING" /\ state'[b] = "OPERATIONAL")
      BY <1>12
    <2>3. state'[b] # state[b] => Range(Subscribes[b]) # {}
      BY <1>8, <1>12
    <2>4. QED
      BY <1>4, <2>1, <2>2, <2>3 DEF ActorOK, Ready, Ended
  <1>14. ASSUME NEW b \in Actors PROVE KnownOK(b)'
    <2>1. KnownOK(b)
      BY <1>3 DEF Places
    <2> SUFFICES ASSUME NEW x \in Range(own[b]), Owner[x] # Home[b]
                 PROVE  \/ Point(b, x) \in foreign[Owner[x]]
                        \/ state'[b] = "INITIALIZING" /\ x \in tracked'[b]
      BY <1>4 DEF KnownOK
    <2>2. \/ Point(b, x) \in foreign[Owner[x]]
          \/ state[b] = "INITIALIZING" /\ x \in tracked[b]
      BY <2>1 DEF KnownOK
    <2>3. CASE b = a /\ x = p.address
      BY <1>7, <1>8, <2>3
    <2>4. CASE ~(b = a /\ x = p.address)
      BY <1>12, <2>2, <2>4
    <2>5. QED
      BY <2>3, <2>4
  <1>15. ForeignOK'
    <2>1. \A t \in Supervisors : \A q \in foreign[t] : q.actor \in Actors
      BY <1>3, PointType DEF TypeOK
    <2>2. QED
      BY <1>3, <1>4, <1>12, <2>1 DEF ForeignOK
  <1>16. ASSUME NEW n \in Messages, Says(n) PROVE Says(n)'
    <2>1. n.kind \in AboutPoints => n.point.actor \in Actors
      BY ActorAndOwner
    <2>2. n.kind = "shutdown" => n.to \in Actors
      BY ActorAndOwner
    <2>3. \A b \in Actors :
            /\ state[b] # "NEW" => state'[b] # "NEW"
            /\ state'[b] = "INITIALIZING" => state[b] = "INITIALIZING"
            /\ state[b] \in Ended <=> state'[b] \in Ended
            /\ state[b] \in Ready <=> state'[b] \in Ready
            /\ state[b] = "OPERATIONAL" => state'[b] = "OPERATIONAL"
      BY <1>12 DEF Ready, Ended
    <2>4. QED
      BY <1>4, <1>16, <2>1, <2>2, <2>3 DEF Says, AboutPoints
  <1>17. ASSUME NEW n \in Messages, NEW b, Placed(b, n) PROVE Placed(b, n)'
    <2>1. n.kind = "foreign_unsubscription" => n.to \in Actors
      BY ActorAndOwner
    <2>2. QED
      BY <1>12, <1>17, <2>1 DEF Placed
  <1>18. Mails'
    <2>1. \A b \in Boxes : \A n \in Range(Box(b)) : Says(n)' /\ Placed(b, n)'
      BY <1>3, <1>16, <1>17, InFlight
    <2>2. QED
      BY <1>3, <1>4, <1>9, <1>10, <2>1, Few, Sending DEF Sends
  <1>19. ASSUME NEW b \in Actors PROVE DrivenOK(b)'
    <2>1. \A t \in Supervisors : \A n \in Range(queue[t]) : n.kind \in Ends => n \in Range(queue'[t])
      BY <1>3, <1>9, <1>11, LeftStays DEF h
    <2>2. Home[b] \in Supervisors
      BY PointType
    <2>3. Listens(b)' => Listens(b)
      BY <1>12 DEF Listens
    <2>4. state'[b] = "SHUTTING_DOWN" => state[b] = "SHUTTING_DOWN"
      BY <1>12
    <2>5. QED
      BY <1>3, <1>4, <2>1, <2>2, <2>3, <2>4, DrivenOther
  <1>20. QED
    BY <1>4, <1>13, <1>14, <1>15, <1>18, <1>19 DEF Inv, Places, Driven, Ready, Ended

LEMMA ConfigureInv ==
    ASSUME Inv, TypeOK', NEW a \in Actors, Configure(a)
    PROVE  Inv'
  <1> DEFINE n == Len(Subscribes[a])
             ms == [i \in 1 .. n |-> Subscription(Point(a, Subscribes[a][i]))]
             s == Home[a]
             r == queue[s]
  <1>1. TypeOK /\ Mails /\ Places /\ ForeignOK /\ Driven /\ s \in Supervisors
    BY PointType DEF Inv
  <1>2. /\ state[a] = "NEW"
        /\ state' = [state EXCEPT ![a] = "INITIALIZING"]
        /\ own' = [own EXCEPT ![a] = Subscribes[a]]
        /\ tracked' = [tracked EXCEPT ![a] = Range(Subscribes[a])]
        /\ points' = [points EXCEPT ![a] = Range(Subscribes[a])]
        /\ queue' = [queue EXCEPT ![Home[a]] = @ \o ms]
        /\ UNCHANGED <<leaving, parting, foreign, supState, inbox, failed>>
    BY DEF Configure
  <1>3. /\ n \in Nat
        /\ \A i \in 1 .. n : Subscribes[a][i] \in Addresses /\ Subscribes[a][i] \in Range(Subscribes[a])
    BY PointType, Elements
  <1>4. \A i \in 1 .. n : Subscription(Point(a, Subscribes[a][i])) \in Messages
    BY <1>3, PointType, PointMessages
  <1>5. ms \in Seq(Messages) /\ Len(ms) = n
    BY <1>3, <1>4
  <1>6. \A m \in Range(ms) : \E x \in Range(Subscribes[a]) : m = Subscription(Point(a, x))
    <2>1. \A m \in Range(ms) : \E i \in 1 .. n : ms[i] = m
      BY <1>5, Elements
    <2>2. \A i \in 1 .. n : ms[i] = Subscription(Point(a, Subscribes[a][i]))
      BY <1>3
    <2> HIDE DEF ms
    <2>3. QED
      BY <1>3, <2>1, <2>2
  <1> HIDE DEF ms
  <1>7. Sends(s, r, ms) /\ Left(s, r)
    BY <1>2 DEF Sends, Left
  <1>8. Rest(s, r)
    BY <1>1, <1>7, LeftRest
  <1>9. ActorOK(a) /\ own[a] = <<>> /\ points[a] = {}
    BY <1>1, <1>2 DEF Places, ActorOK
  <1>10. /\ state'[a] = "INITIALIZING" /\ own'[a] = Subscribes[a]
         /\ points'[a] = Range(Subscribes[a]) /\ tracked'[a] = Range(Subscribes[a])
         /\ \A b \in Actors : b # a => /\ state'[b] = state[b] /\ own'[b] = own[b]
                                       /\ points'[b] = points[b] /\ tracked'[b] = tracked[b]
    BY <1>1, <1>2 DEF TypeOK
  <1>11. a \notin parting /\ \A x \in Addresses : Point(a, x) \notin leaving
    BY <1>2, <1>9 DEF ActorOK, Anonymous, Ended
  <1>12. ASSUME NEW b \in Actors PROVE ActorOK(b)' /\ KnownOK(b)'
    <2>1. CASE b = a
      <3>1. IsInjective(Subscribes[a])
        BY OnceAssumption
      <3>2. ActorOK(a)'
        BY <1>2, <1>10, <1>11, <3>1 DEF ActorOK, Ready, Ended
      <3>3. KnownOK(a)'
        BY <1>10 DEF KnownOK
      <3>4. QED
        BY <2>1, <3>2, <3>3
    <2>2. CASE b # a
      <3>1. ActorOK(b) /\ KnownOK(b)
        BY <1>1 DEF Places
      <3>2. ActorOK(b)'
        BY <1>2, <1>10, <2>2, <3>1 DEF ActorOK
      <3>3. KnownOK(b)'
        BY <1>2, <1>10, <2>2, <3>1 DEF KnownOK
      <3>4. QED
        BY <3>2, <3>3
    <2>3. QED
      BY <2>1, <2>2
  <1>13. ForeignOK'
    <2>1. \A t \in Supervisors : \A q \in foreign[t] : q.actor \in Actors
      BY <1>1, PointType DEF TypeOK
    <2>2. QED
      BY <1>1, <1>2, <1>10, <2>1 DEF ForeignOK
  <1>14. ASSUME NEW m \in Messages, Says(m) PROVE Says(m)'
    <2>1. m.kind \in AboutPoints => m.point.actor \in Actors
      BY ActorAndOwner
    <2>2. m.kind = "shutdown" => m.to \in Actors
      BY ActorAndOwner
    <2>3. m.kind \in AboutPoints => m.point.actor # a
      BY <1>2, <1>9, <1>14 DEF Says, AboutPoints, Ended
    <2>4. m.kind = "shutdown" => m.to # a
      BY <1>2, <1>14 DEF Says
    <2>5. QED
      BY <1>2, <1>10, <1>14, <2>1, <2>2, <2>3, <2>4 DEF Says, AboutPoints
  <1>15. ASSUME NEW m \in Messages, NEW b, Placed(b, m) PROVE Placed(b, m)'
    <2>1. m.kind = "foreign_unsubscription" => m.to \in Actors
      BY ActorAndOwner
    <2>2. QED
      BY <1>10, <1>15, <2>1 DEF Placed
  <1>16. ASSUME NEW x \in Range(Subscribes[a]), NEW m, m = Subscription(Point(a, x))
         PROVE  m.kind \notin Single /\ ~Near(s, m) /\ Says(m)' /\ Placed(<<"queue", s>>, m)'
    <2>1. PICK p : p = Point(a, x)
      OBVIOUS
    <2>2. p \in Points /\ p.actor = a /\ p.address = x
      BY <2>1, PointType
    <2>3. CASE InternalAddress(p)
      <3>1. m = ToActor("subscription", p) /\ m.kind = "subscription" /\ m.point = p
        BY <1>16, <2>1, <2>2, <2>3, PointMessages DEF Subscription
      <3>2. QED
        BY <1>10, <2>2, <2>3, <3>1 DEF Says, Placed, Single, Near, Inner, PluginOwned
    <2>4. CASE ~InternalAddress(p)
      <3>1. m = ToOwner("external_subscription", p) /\ m.kind = "external_subscription" /\ m.point = p
        BY <1>16, <2>1, <2>2, <2>4, PointMessages DEF Subscription
      <3>2. QED
        BY <1>10, <2>2, <2>4, <3>1 DEF Says, Placed, Single, Near, Inner, PluginOwned, Foreign
    <2>5. QED
      BY <2>3, <2>4
  <1>17. \A m \in Range(ms) : /\ m.kind \notin Single /\ ~Near(s, m)
                              /\ Says(m)' /\ Placed(<<"queue", s>>, m)'
    BY <1>6, <1>16
  <1>18. OneEach(ms)
    BY <1>5, <1>17, Elements DEF OneEach
  <1> HIDE DEF r
  <1>19. Mails'
    <2>1. \A b \in Boxes : \A m \in Range(Box(b)) : Says(m)' /\ Placed(b, m)'
      BY <1>1, <1>14, <1>15, InFlight
    <2>2. inbox' = inbox
      BY <1>2
    <2> HIDE DEF s
    <2>3. QED
      BY <1>1, <1>5, <1>7, <1>8, <1>17, <1>18, <2>1, <2>2, Sending DEF Sends
  <1>20. ASSUME NEW b \in Actors PROVE DrivenOK(b)'
    <2>1. CASE b = a
      <3>1. Range(Subscribes[a]) \subseteq Addresses
        BY PointType
      <3>2. QED
        BY <1>2, <1>10, <1>11, <2>1, <3>1 DEF DrivenOK, Anonymous
    <2>2. CASE b # a
      <3>1. \A t \in Supervisors : \A m \in Range(queue[t]) : m.kind \in Ends => m \in Range(queue'[t])
        <4> HIDE DEF s
        <4>1. QED
          BY <1>1, <1>5, <1>7, LeftStays DEF r
      <3>2. Home[b] \in Supervisors
        BY PointType
      <3>3. Listens(b)' => Listens(b)
        BY <1>10, <2>2 DEF Listens
      <3>4. QED
        BY <1>1, <1>2, <1>10, <2>2, <3>1, <3>2, <3>3, DrivenOther
    <2>3. QED
      BY <2>1, <2>2
  <1>21. QED
    BY <1>2, <1>12, <1>13, <1>19, <1>20 DEF Inv, Places, Driven

\* What an actor subscribes to at run time is of its own supervisor.
LocalLater == \A a \in Actors : \A x \in Later[a] : Owner[x] = Home[a]

LEMMA AnonymousIsLocal ==
    ASSUME LocalLater, Inv, NEW a \in Actors, NEW x \in Anonymous(a, points[a])
    PROVE  /\ x \in Addresses /\ x \in points[a] /\ Point(a, x) \in Points
           /\ Point(a, x).actor = a /\ Point(a, x).address = x
           /\ InternalAddress(Point(a, x)) /\ ~PluginOwned(Point(a, x))
           /\ Unsubscription(Point(a, x)) = ToActor("unsubscription", Point(a, x))
  <1>1. ActorOK(a) /\ points[a] \subseteq Addresses
    BY DEF Inv, Places, TypeOK
  <1>2. x \in Later[a] /\ x \notin Range(Subscribes[a]) /\ x \in points[a] /\ x \in Addresses
    BY <1>1 DEF ActorOK, Anonymous
  <1>3. /\ Point(a, x) \in Points /\ Point(a, x).actor = a /\ Point(a, x).address = x
    BY <1>2, PointType
  <1>4. InternalAddress(Point(a, x)) /\ ~PluginOwned(Point(a, x))
    BY <1>2, <1>3 DEF LocalLater, InternalAddress, PluginOwned
  <1>5. QED
    BY <1>2, <1>3, <1>4 DEF Unsubscription

LEMMA SubscribeLaterInv ==
    ASSUME LocalLater, Inv, TypeOK', NEW a \in Actors, NEW x \in Addresses, SubscribeLater(a, x)
    PROVE  Inv'
  <1> DEFINE p == Point(a, x)
             m == Subscription(p)
             s == Home[a]
             r == queue[s]
  <1>1. TypeOK /\ Mails /\ Places /\ ForeignOK /\ Driven /\ s \in Supervisors
    BY PointType DEF Inv
  <1>2. /\ state[a] = "OPERATIONAL" /\ x \in Later[a] \ points[a]
        /\ points' = [points EXCEPT ![a] = @ \cup {x}]
        /\ queue' = [queue EXCEPT ![Home[a]] = Append(@, m)]
        /\ UNCHANGED <<state, own, tracked, leaving, parting, foreign, supState, inbox, failed>>
    BY DEF SubscribeLater
  <1>3. p \in Points /\ p.actor = a /\ p.address = x
    BY PointType
  <1>4. InternalAddress(p)
    BY <1>2, <1>3 DEF LocalLater, InternalAddress
  <1>5. /\ m = ToActor("subscription", p) /\ m \in Messages /\ m.kind = "subscription"
        /\ m.point = p
        /\ <<m>> \in Seq(Messages) /\ Range(<<m>>) = {m} /\ OneEach(<<m>>)
    BY <1>3, <1>4, PointMessages, Few DEF Subscription
  <1>6. queue[s] \in Seq(Messages)
    BY <1>1 DEF TypeOK
  <1> HIDE DEF m, p
  <1>7. Sends(s, r, <<m>>) /\ Left(s, r)
    BY <1>2, <1>5, <1>6, Few DEF Sends, Left
  <1>8. Rest(s, r)
    BY <1>1, <1>7, LeftRest
  <1>9. /\ points'[a] = points[a] \cup {x}
        /\ \A b \in Actors : b # a => points'[b] = points[b]
    BY <1>1, <1>2 DEF TypeOK
  <1>10. ASSUME NEW b \in Actors PROVE ActorOK(b)' /\ KnownOK(b)'
    <2>1. ActorOK(b) /\ KnownOK(b)
      BY <1>1 DEF Places
    <2>2. KnownOK(b)'
      BY <1>2, <2>1 DEF KnownOK
    <2>3. CASE b # a
      BY <1>2, <1>9, <2>1, <2>2, <2>3 DEF ActorOK
    <2>4. CASE b = a
      BY <1>2, <1>9, <2>1, <2>2, <2>4 DEF ActorOK, Anonymous, Ready, Ended
    <2>5. QED
      BY <2>3, <2>4
  <1>11. ForeignOK'
    BY <1>1, <1>2 DEF ForeignOK
  <1>12. ASSUME NEW k \in Messages, Says(k) PROVE Says(k)'
    <2>1. k.kind = "unsubscription" => points[k.point.actor] \subseteq points'[k.point.actor]
      BY <1>9, ActorAndOwner DEF AboutPoints
    <2>2. CASE k.kind = "unsubscription"
      BY <1>2, <1>12, <2>1, <2>2 DEF Says
    <2>3. CASE k.kind # "unsubscription"
      BY <1>2, <1>12, <2>3 DEF Says
    <2>4. QED
      BY <2>2, <2>3
  <1>13. \A k, b : Placed(b, k) => Placed(b, k)'
    BY <1>2 DEF Placed
  <1>14. Says(m)' /\ Placed(<<"queue", s>>, m)' /\ m.kind \notin Single /\ ~Near(s, m)
    BY <1>2, <1>3, <1>4, <1>5 DEF Says, Placed, Inner, Single, Near
  <1> HIDE DEF r
  <1>15. Mails'
    <2>1. \A b \in Boxes : \A k \in Range(Box(b)) : Says(k)' /\ Placed(b, k)'
      BY <1>1, <1>12, <1>13, InFlight
    <2>2. inbox' = inbox
      BY <1>2
    <2> HIDE DEF s
    <2>3. QED
      BY <1>1, <1>5, <1>7, <1>8, <1>14, <2>1, <2>2, Sending DEF Sends
  <1>16. ASSUME NEW b \in Actors PROVE DrivenOK(b)'
    <2>1. \A t \in Supervisors : \A k \in Range(queue[t]) : k.kind \in Ends => k \in Range(queue'[t])
      <3> HIDE DEF s
      <3>1. QED
        BY <1>1, <1>5, <1>7, LeftStays DEF r
    <2>2. Home[b] \in Supervisors /\ DrivenOK(b)
      BY <1>1, PointType DEF Driven
    <2>3. CASE b # a
      BY <1>1, <1>2, <1>9, <2>1, <2>2, <2>3, DrivenOther DEF Listens
    <2>4. CASE b = a
      <3>1. Point(a, x) \notin leaving
        <4>1. ActorOK(a)
          BY <1>1 DEF Places
        <4>2. QED
          BY <1>2, <4>1 DEF ActorOK, Anonymous, Ended
      <3>2. /\ own[a] \in Seq(Addresses) /\ points[a] \subseteq Addresses
        BY <1>1 DEF TypeOK
      <3>3. Range(own[a]) \cup Anonymous(a, points[a]) \subseteq Addresses
        BY <3>2, Elements DEF Anonymous
      <3>4. \A y \in Addresses : Unsubscription(Point(a, y)).kind \in Ends
        BY PointType, PointMessages DEF Ends
      <3>5. \A y \in Range(own[a]) \cup Anonymous(a, points'[a]) :
                Point(a, y) \in leaving => y \in Range(own[a]) \cup Anonymous(a, points[a])
        BY <1>9, <3>1 DEF Anonymous
      <3>6. \A y \in Range(own[a]) \cup Anonymous(a, points[a]) :
                Point(a, y) \in leaving => Unsubscription(Point(a, y)) \in Range(queue'[Home[a]])
        BY <1>2, <2>1, <2>2, <2>4, <3>3, <3>4 DEF DrivenOK, Listens
      <3>7. QED
        BY <1>2, <2>4, <3>5, <3>6 DEF DrivenOK, Anonymous
    <2>5. QED
      BY <2>3, <2>4
  <1>17. QED
    BY <1>2, <1>10, <1>11, <1>15, <1>16 DEF Inv, Places, Driven

LEMMA AskToLeaveInv ==
    ASSUME Inv, TypeOK', NEW a \in Actors, AskToLeave(a)
    PROVE  Inv'
  <1> DEFINE m == [kind |-> "shutdown", to |-> a]
             s == Home[a]
             r == queue[s]
  <1>1. TypeOK /\ Mails /\ s \in Supervisors
    BY PointType DEF Inv
  <1>2. /\ state[a] = "OPERATIONAL" /\ m \notin Range(queue[s])
        /\ queue' = [queue EXCEPT ![s] = Append(@, m)]
        /\ UNCHANGED spoken /\ UNCHANGED inbox /\ UNCHANGED failed
    BY DEF AskToLeave, spoken, actorVars, ownerVars
  <1>3. /\ m \in Messages /\ m.kind = "shutdown" /\ m.to = a
        /\ <<m>> \in Seq(Messages) /\ Range(<<m>>) = {m} /\ OneEach(<<m>>)
    BY OtherMessages, Few
  <1>4. queue[s] \in Seq(Messages)
    BY <1>1 DEF TypeOK
  <1>5. m = [kind |-> "shutdown", to |-> m.to]
    OBVIOUS
  <1> HIDE DEF m
  <1>6. Sends(s, r, <<m>>) /\ Left(s, r)
    BY <1>2, <1>3, <1>4, Few DEF Sends, Left
  <1>7. Rest(s, r)
    BY <1>1, <1>6, LeftRest
  <1>8. HomeBox(a) = <<"queue", s>> /\ Box(<<"queue", s>>) = queue[s]
    BY <1>1, BoxTypes DEF HomeBox
  <1>9. m \notin Flying
    <2> SUFFICES ASSUME NEW b \in Boxes, m \in Range(Box(b)) PROVE FALSE
      BY DEF Flying
    <2>1. Placed(b, m)
      BY <1>1, InFlight
    <2>2. b = <<"queue", s>>
      BY <1>3, <1>8, <2>1 DEF Placed, Inner
    <2>3. QED
      BY <1>2, <1>8, <2>2
  <1>10. Says(m)' /\ Placed(<<"queue", s>>, m)' /\ ~Near(s, m)
    <2>1. Says(m)
      BY <1>2, <1>3, <1>5 DEF Says
    <2>2. Placed(<<"queue", s>>, m)
      BY <1>3, <1>8 DEF Placed
    <2>3. QED
      BY <1>2, <1>3, <2>1, <2>2, Frame DEF Near
  <1> HIDE DEF s, r
  <1>11. Mails'
    <2>1. \A b \in Boxes : \A k \in Range(Box(b)) : Says(k)' /\ Placed(b, k)'
      BY <1>1, <1>2, InFlight, Frame
    <2>2. inbox' = inbox
      BY <1>2
    <2>3. QED
      BY <1>1, <1>3, <1>6, <1>7, <1>9, <1>10, <2>1, <2>2, Sending DEF Sends
  <1>12. Driven'
    <2>1. \A t \in Supervisors : \A k \in Range(queue[t]) : k.kind \in Ends => k \in Range(queue'[t])
      BY <1>1, <1>3, <1>6, LeftStays DEF r
    <2>2. QED
      BY <1>1, <1>2, <2>1, StillDriven DEF Inv, spoken
  <1>13. QED
    BY <1>2, <1>11, <1>12, Frame DEF Inv

LEMMA UnsubscribeLaterInv ==
    ASSUME LocalLater, Inv, TypeOK', NEW a \in Actors, NEW x \in Addresses, UnsubscribeLater(a, x)
    PROVE  Inv'
  <1> DEFINE p == Point(a, x)
             m == Unsubscription(p)
             s == Home[a]
             r == queue[s]
  <1>1. TypeOK /\ Mails /\ Places /\ ForeignOK /\ Driven /\ s \in Supervisors
    BY PointType DEF Inv
  <1>2. /\ state[a] = "OPERATIONAL" /\ x \in Anonymous(a, points[a]) /\ p \notin leaving
        /\ leaving' = leaving \cup {p}
        /\ queue' = [queue EXCEPT ![Home[a]] = Append(@, m)]
        /\ UNCHANGED <<state, own, tracked, points, parting, foreign, supState, inbox, failed>>
    BY DEF UnsubscribeLater, ownerVars
  <1>3. /\ p \in Points /\ p.actor = a /\ p.address = x
        /\ InternalAddress(p) /\ ~PluginOwned(p) /\ x \in points[a]
        /\ m = ToActor("unsubscription", p)
    BY <1>2, AnonymousIsLocal
  <1>4. /\ m \in Messages /\ m.kind = "unsubscription" /\ m.point = p /\ m.to = a
        /\ <<m>> \in Seq(Messages) /\ Range(<<m>>) = {m} /\ OneEach(<<m>>)
    BY <1>3, PointMessages, Few
  <1>5. queue[s] \in Seq(Messages)
    BY <1>1 DEF TypeOK
  <1>6. \A b \in Actors, y \in Addresses : Point(b, y) = p => b = a /\ y = x
    BY <1>3, PointType
  <1> HIDE DEF m, p
  <1>7. Sends(s, r, <<m>>) /\ Left(s, r)
    BY <1>2, <1>4, <1>5, Few DEF Sends, Left
  <1>8. Rest(s, r)
    BY <1>1, <1>7, LeftRest
  <1>9. m \notin Flying
    <2> SUFFICES ASSUME NEW b \in Boxes, m \in Range(Box(b)) PROVE FALSE
      BY DEF Flying
    <2>1. Says(m)
      BY <1>1, InFlight
    <2>2. QED
      BY <1>2, <1>4, <2>1 DEF Says
  <1>10. ASSUME NEW b \in Actors PROVE ActorOK(b)' /\ KnownOK(b)'
    <2>1. ActorOK(b) /\ KnownOK(b)
      BY <1>1 DEF Places
    <2>2. KnownOK(b)'
      BY <1>2, <2>1 DEF KnownOK
    <2>3. ActorOK(b)'
      BY <1>2, <1>6, <2>1 DEF ActorOK
    <2>4. QED
      BY <2>2, <2>3
  <1>11. ForeignOK'
    BY <1>1, <1>2 DEF ForeignOK
  <1>12. ASSUME NEW k \in Messages, Says(k) PROVE Says(k)'
    BY <1>2, <1>12 DEF Says
  <1>13. \A k, b : Placed(b, k) => Placed(b, k)'
    BY <1>2 DEF Placed
  <1>14. Says(m)' /\ Placed(<<"queue", s>>, m)' /\ ~Near(s, m)
    <2>1. Says(m)'
      BY <1>2, <1>3, <1>4 DEF Says
    <2>2. Placed(<<"queue", s>>, m)'
      BY <1>4 DEF Placed, HomeBox
    <2>3. QED
      BY <1>4, <2>1, <2>2 DEF Near
  <1>15. ASSUME NEW b \in Actors PROVE DrivenOK(b)'
    <2>1. \A t \in Supervisors : \A k \in Range(queue[t]) : k.kind \in Ends => k \in Range(queue'[t])
      <3> HIDE DEF s
      <3>1. QED
        BY <1>1, <1>4, <1>7, LeftStays DEF r
    <2>2. Home[b] \in Supervisors /\ DrivenOK(b)
      BY <1>1, PointType DEF Driven
    <2>3. CASE b # a
      <3>1. \A y \in Addresses : Point(b, y) \in leaving' => Point(b, y) \in leaving
        BY <1>2, <1>6, <2>3
      <3>2. QED
        BY <1>1, <1>2, <2>1, <2>2, <3>1, DrivenOther DEF Listens
    <2>4. CASE b = a
      <3>1. m \in Range(queue'[Home[a]])
        <4>1. Range(queue'[s]) = Range(r) \cup Range(<<m>>)
          <5> HIDE DEF r, s
          <5>1. QED
            BY <1>1, <1>4, <1>7, <1>8, Sent DEF Sends
        <4>2. QED
          BY <1>4, <4>1
      <3>2. /\ own[a] \in Seq(Addresses) /\ points[a] \subseteq Addresses
        BY <1>1 DEF TypeOK
      <3>3. Range(own[a]) \cup Anonymous(a, points[a]) \subseteq Addresses
        BY <3>2, Elements DEF Anonymous
      <3>4. \A y \in Addresses : Unsubscription(Point(a, y)).kind \in Ends
        BY PointType, PointMessages DEF Ends
      <3>5. \A y \in Range(own[a]) \cup Anonymous(a, points[a]) :
                Point(a, y) \in leaving => Unsubscription(Point(a, y)) \in Range(queue'[Home[a]])
        BY <1>2, <2>1, <2>2, <2>4, <3>3, <3>4 DEF DrivenOK, Listens
      <3>6. Unsubscription(Point(a, x)) \in Range(queue'[Home[a]])
        BY <3>1 DEF m, p
      <3>7. \A y \in Addresses : Point(a, y) \in leaving' => Point(a, y) \in leaving \/ y = x
        BY <1>2, <1>6
      <3>8. QED
        BY <1>2, <2>4, <3>3, <3>5, <3>6, <3>7 DEF DrivenOK, Anonymous
    <2>5. QED
      BY <2>3, <2>4
  <1> HIDE DEF r, s
  <1>16. Mails'
    <2>1. \A b \in Boxes : \A k \in Range(Box(b)) : Says(k)' /\ Placed(b, k)'
      BY <1>1, <1>12, <1>13, InFlight
    <2>2. inbox' = inbox
      BY <1>2
    <2>3. QED
      BY <1>1, <1>4, <1>7, <1>8, <1>9, <1>14, <2>1, <2>2, Sending DEF Sends
  <1>17. QED
    BY <1>2, <1>10, <1>11, <1>15, <1>16 DEF Inv, Places, Driven

LEMMA OnFarewellInv ==
    ASSUME Inv, TypeOK', NEW s \in Supervisors, OnFarewell(s)
    PROVE  Inv'
  <1>1. PICK a : a = Head(queue[s]).to
    OBVIOUS
  <1> DEFINE h == Head(queue[s])
             r == Tail(queue[s])
  <1>2. TypeOK /\ Mails /\ Places /\ ForeignOK /\ Driven
    BY DEF Inv
  <1>3. /\ queue[s] # <<>> /\ h.kind = "farewell" /\ Post(s, <<>>)
        /\ state' = [state EXCEPT ![a] = "SHUT_DOWN"]
        /\ UNCHANGED <<own, tracked, points, leaving, parting, foreign, supState, inbox, failed>>
    BY <1>1 DEF OnFarewell, Next1, ownerVars
  <1>4. h \in Messages /\ Says(h)
    BY <1>2, <1>3, HeadSays
  <1>5. a \in Actors /\ a \in parting
    BY <1>1, <1>3, <1>4, ActorAndOwner DEF Says
  <1>6. state[a] \in Ended
    BY <1>2, <1>5 DEF Places, ActorOK
  <1>7. /\ state'[a] = "SHUT_DOWN"
        /\ \A b \in Actors : b # a => state'[b] = state[b]
    BY <1>2, <1>3, <1>5 DEF TypeOK
  <1>8. Sends(s, r, <<>>) /\ Left(s, r) /\ <<>> \in Seq(Messages)
    BY <1>3, PostSends, Few
  <1>9. Rest(s, r) /\ Range(queue[s]) = {h} \cup Range(r)
    BY <1>2, <1>3, <1>8, LeftRest, TailOfIt
  <1>10. h.to = a
    BY <1>1
  <1> HIDE DEF h, r
  <1>11. \A b \in Actors :
            /\ state[b] # "NEW" <=> state'[b] # "NEW"
            /\ state'[b] = "INITIALIZING" <=> state[b] = "INITIALIZING"
            /\ state[b] \in Ended <=> state'[b] \in Ended
            /\ state[b] \in Ready <=> state'[b] \in Ready
            /\ state[b] = "OPERATIONAL" <=> state'[b] = "OPERATIONAL"
            /\ state'[b] = "SHUTTING_DOWN" => state[b] = "SHUTTING_DOWN"
            /\ state'[b] # "SHUT_DOWN" => b # a /\ state[b] # "SHUT_DOWN"
    BY <1>6, <1>7 DEF Ready, Ended
  <1>12. ASSUME NEW b \in Actors PROVE ActorOK(b)' /\ KnownOK(b)'
    <2>1. ActorOK(b) /\ KnownOK(b)
      BY <1>2 DEF Places
    <2>2. ActorOK(b)'
      BY <1>3, <1>11, <2>1 DEF ActorOK
    <2>3. KnownOK(b)'
      BY <1>3, <1>11, <2>1 DEF KnownOK
    <2>4. QED
      BY <2>2, <2>3
  <1>13. ForeignOK'
    <2>1. \A t \in Supervisors : \A q \in foreign[t] : q.actor \in Actors
      BY <1>2, PointType DEF TypeOK
    <2>2. QED
      BY <1>2, <1>3, <1>11, <2>1 DEF ForeignOK
  <1>14. ASSUME NEW n \in Messages, Says(n) PROVE Says(n)'
    <2>1. n.kind \in AboutPoints => n.point.actor \in Actors
      BY ActorAndOwner
    <2>2. n.kind = "shutdown" => n.to \in Actors
      BY ActorAndOwner
    <2>3. QED
      BY <1>3, <1>11, <1>14, <2>1, <2>2 DEF Says, AboutPoints
  <1>15. ASSUME NEW n \in Messages, NEW b, Placed(b, n) PROVE Placed(b, n)'
    <2>1. n.kind = "foreign_unsubscription" => n.to \in Actors
      BY ActorAndOwner
    <2>2. QED
      BY <1>11, <1>15, <2>1 DEF Placed
  <1>16. Mails'
    <2>1. \A b \in Boxes : \A n \in Range(Box(b)) : Says(n)' /\ Placed(b, n)'
      BY <1>2, <1>14, <1>15, InFlight
    <2>2. inbox' = inbox
      BY <1>3
    <2>3. QED
      BY <1>2, <1>8, <1>9, <2>1, <2>2, Few, Sending DEF Sends
  <1>17. ASSUME NEW b \in Actors PROVE DrivenOK(b)'
    <2>1. CASE b = a
      BY <1>7, <2>1 DEF DrivenOK, Listens
    <2>2. CASE b # a
      <3>1. /\ Range(queue'[s]) = Range(r) \cup Range(<<>>)
            /\ \A t \in Supervisors : t # s => queue'[t] = queue[t]
        BY <1>2, <1>8, <1>9, Sent DEF Sends
      <3>2. \A n \in Range(queue[Home[b]]) : n.to = b => n \in Range(queue'[Home[b]])
        BY <1>9, <1>10, <2>2, <3>1, PointType
      <3>3. QED
        BY <1>2, <1>3, <1>11, <3>2, DrivenOther DEF Listens
    <2>3. QED
      BY <2>1, <2>2
  <1>18. QED
    BY <1>3, <1>12, <1>13, <1>16, <1>17 DEF Inv, Places, Driven

\* The messages of a shutdown, one for each point that is not being given up.
LEMMA ShutdownSendsOnce ==
    ASSUME TypeOK, NEW a \in Actors, ActorOK(a)
    PROVE  LET ms == Unsubscriptions(a, Reverse(own[a])) \o LifetimeMessages(a, own[a])
               bye == [kind |-> "farewell", to |-> a]
           IN  /\ ms \in Seq(Messages) /\ OneEach(ms)
               /\ Range(ms) = {Unsubscription(Point(a, x)) : x \in Range(own[a]) \cup Remaining(a)}
                                \cup IF Parts(a, own[a]) THEN {bye} ELSE {}
  <1> DEFINE bye == [kind |-> "farewell", to |-> a]
             left == SetToSeq(Remaining(a))
             last == IF Parts(a, own[a]) THEN <<bye>> ELSE <<>>
             us == Unsubscriptions(a, Reverse(own[a]))
             vs == Unsubscriptions(a, left)
             u(x) == Unsubscription(Point(a, x))
  <1>1. /\ own[a] \in Seq(Addresses) /\ IsInjective(own[a])
        /\ Range(own[a]) \subseteq Range(Subscribes[a]) /\ Range(own[a]) \subseteq Addresses
    BY Elements DEF TypeOK, ActorOK
  <1>2. Reverse(own[a]) \in Seq(Addresses) /\ Range(Reverse(own[a])) = Range(own[a])
        /\ IsInjective(Reverse(own[a]))
    BY <1>1, Reversed
  <1>3. us \in Seq(Messages) /\ OneEach(us) /\ Range(us) = {u(x) : x \in Range(own[a])}
    BY <1>2, GivenUp
  <1>4. /\ Remaining(a) \subseteq Addresses
        /\ left \in Seq(Addresses) /\ Range(left) = Remaining(a) /\ IsInjective(left)
        /\ last \in Seq(Messages) /\ OneEach(last)
        /\ Range(last) = IF Parts(a, own[a]) THEN {bye} ELSE {}
        /\ LifetimeMessages(a, own[a]) = vs \o last
    BY Lasting
  <1>5. vs \in Seq(Messages) /\ OneEach(vs) /\ Range(vs) = {u(x) : x \in Remaining(a)}
    BY <1>4, GivenUp
  <1>6. bye.kind \notin Single
    BY DEF Single
  <1> HIDE DEF us, vs, last, left, bye
  <1>7. \A m \in Range(last) : m.kind \in Single => m \notin Range(vs)
    BY <1>4, <1>6
  <1>8. /\ vs \o last \in Seq(Messages) /\ OneEach(vs \o last)
        /\ Range(vs \o last) = Range(vs) \cup Range(last)
    BY <1>4, <1>5, <1>7, JoinedOnce, Joined
  <1>9. \A x \in Addresses : u(x).point.address = x
    BY PointType, PointMessages
  <1> HIDE DEF u
  <1>10. Range(own[a]) \cap Remaining(a) = {}
    BY <1>1 DEF Remaining, Anonymous
  <1>11. \A m \in Range(vs \o last) : m.kind \in Single => m \notin Range(us)
    <2>1. \A m \in Range(us) : m.point.address \in Range(own[a])
      BY <1>1, <1>3, <1>9
    <2>2. \A m \in Range(vs) : m.point.address \in Remaining(a)
      BY <1>4, <1>5, <1>9
    <2>3. QED
      BY <1>4, <1>6, <1>8, <1>10, <2>1, <2>2
  <1> DEFINE ws == vs \o last
  <1> HIDE DEF ws
  <1>12. /\ us \o ws \in Seq(Messages) /\ OneEach(us \o ws)
         /\ Range(us \o ws) = Range(us) \cup Range(ws)
    BY <1>3, <1>8, <1>11, JoinedOnce, Joined DEF ws
  <1>13. Range(us \o ws) = {u(x) : x \in Range(own[a]) \cup Remaining(a)}
                                \cup IF Parts(a, own[a]) THEN {bye} ELSE {}
    BY <1>3, <1>4, <1>5, <1>8, <1>12 DEF ws
  <1>14. QED
    BY <1>4, <1>12, <1>13 DEF us, ws, u, bye

LEMMA OnShutdownInv ==
    ASSUME LocalLater, Inv, TypeOK', NEW s \in Supervisors, OnShutdown(s)
    PROVE  Inv'
  <1>1. PICK a : a = Head(queue[s]).to
    OBVIOUS
  <1> DEFINE h == Head(queue[s])
             r == Tail(queue[s])
             ms == Unsubscriptions(a, Reverse(own[a])) \o LifetimeMessages(a, own[a])
             bye == [kind |-> "farewell", to |-> a]
             u(x) == Unsubscription(Point(a, x))
             given == Range(own[a]) \cup Remaining(a)
  <1>2. TypeOK /\ Mails /\ Places /\ ForeignOK /\ Driven
    BY DEF Inv
  <1>3. /\ queue[s] # <<>> /\ h.kind = "shutdown" /\ Destination(h) = s /\ Post(s, ms)
        /\ state' = [state EXCEPT ![a] = "SHUTTING_DOWN"]
        /\ LifetimeEnds(a, own[a])
        /\ tracked' = [tracked EXCEPT ![a] = {}]
        /\ leaving' = leaving \cup {Point(a, x) : x \in points[a] \cup Range(own[a])}
        /\ UNCHANGED <<own, foreign, supState, inbox, failed>>
    BY <1>1 DEF OnShutdown, Next1, ownerVars
  <1>4. /\ h \in Messages /\ Says(h)
        /\ h.kind \in Single =>
             \A b \in Boxes : \A n \in Range(Box(b)) : (b = <<"queue", s>> => n \in Range(r)) => n # h
    BY <1>2, <1>3, HeadSays
  <1>5. a \in Actors /\ Home[a] = s /\ state[a] = "OPERATIONAL"
        /\ h = [kind |-> "shutdown", to |-> a]
    BY <1>1, <1>3, <1>4, MsgType DEF Says
  <1>6. ActorOK(a) /\ KnownOK(a) /\ DrivenOK(a)
    BY <1>2, <1>5 DEF Places, Driven
  <1>7. /\ ms \in Seq(Messages) /\ OneEach(ms)
        /\ Range(ms) = {u(x) : x \in given} \cup IF Parts(a, own[a]) THEN {bye} ELSE {}
    BY <1>2, <1>5, <1>6, ShutdownSendsOnce
  <1>8. Sends(s, r, ms) /\ Left(s, r)
    BY <1>3, PostSends
  <1>9. Rest(s, r) /\ Range(queue[s]) = {h} \cup Range(r)
    BY <1>2, <1>3, <1>8, LeftRest, TailOfIt
  <1>10. \A m \in Range(r) : ~Near(s, m)
    BY <1>2, <1>3, TailOfIt
  <1>11. h.to = a
    BY <1>1
  <1> HIDE DEF h, r, ms
  <1>12. /\ state'[a] = "SHUTTING_DOWN" /\ points'[a] = Anonymous(a, points[a])
         /\ \A b \in Actors : b # a => /\ state'[b] = state[b] /\ tracked'[b] = tracked[b]
                                       /\ points'[b] = points[b]
                                       /\ b \in parting' => b \in parting
         /\ parting \subseteq parting'
         /\ Parts(a, own[a]) => a \in parting'
         /\ a \in parting' => Parts(a, own[a])
    <2>1. /\ state'[a] = "SHUTTING_DOWN"
          /\ \A b \in Actors : b # a => /\ state'[b] = state[b] /\ tracked'[b] = tracked[b]
      BY <1>2, <1>3, <1>5 DEF TypeOK
    <2>2. a \notin parting
      BY <1>5, <1>6 DEF ActorOK, Ended
    <2>3. /\ points' = [points EXCEPT ![a] = Anonymous(a, points[a])]
          /\ parting' = IF Parts(a, own[a]) THEN parting \cup {a} ELSE parting
      BY <1>3 DEF LifetimeEnds
    <2>4. points'[a] = Anonymous(a, points[a]) /\ \A b \in Actors : b # a => points'[b] = points[b]
      <3>1. points \in [Actors -> SUBSET Addresses]
        BY <1>2 DEF TypeOK
      <3>2. QED
        BY <1>5, <2>3, <3>1
    <2>5. QED
      BY <2>1, <2>2, <2>3, <2>4
  <1>13. /\ own[a] \in Seq(Addresses) /\ Range(own[a]) \subseteq Addresses /\ points[a] \subseteq Addresses
         /\ Range(own[a]) \subseteq Range(Subscribes[a])
    <2>1. own[a] \in Seq(Addresses) /\ points[a] \subseteq Addresses
      BY <1>2, <1>5 DEF TypeOK
    <2>2. QED
      BY <1>6, <2>1, Elements DEF ActorOK
  <1>14. \A b \in Actors, x \in Addresses :
            /\ Point(b, x).actor = b /\ Point(b, x).address = x /\ Point(b, x) \in Points
    BY PointType
  <1>15. \A b \in Actors, x \in Addresses :
            b # a => (Point(b, x) \in leaving' <=> Point(b, x) \in leaving)
    BY <1>3, <1>5, <1>13, <1>14
  <1>16. leaving \subseteq leaving' /\ \A x \in points[a] \cup Range(own[a]) : Point(a, x) \in leaving'
    BY <1>3
  <1>17. ASSUME NEW b \in Actors PROVE ActorOK(b)' /\ KnownOK(b)'
    <2>1. ActorOK(b) /\ KnownOK(b)
      BY <1>2 DEF Places
    <2>2. CASE b = a
      <3>1. ActorOK(a)'
        <4>1. /\ own' = own /\ supState' = supState /\ points'[a] \subseteq points[a]
              /\ points'[a] \cap Range(Subscribes[a]) = {}
          BY <1>3, <1>12 DEF Anonymous
        <4>2. own[a] = <<>> /\ points'[a] = {} => a \in parting'
          BY <1>12 DEF LifetimeEnds, Parts
        <4>3. QED
          BY <1>6, <1>12, <1>16, <4>1, <4>2 DEF ActorOK, Ready, Ended
      <3>2. KnownOK(a)'
        BY <1>3, <1>5, <1>6 DEF KnownOK
      <3>3. QED
        BY <2>2, <3>1, <3>2
    <2>3. CASE b # a
      <3>1. ActorOK(b)'
        <4>1. own'[b] = own[b] /\ supState' = supState /\ state'[b] = state[b]
              /\ points'[b] = points[b] /\ (b \in parting' <=> b \in parting)
          BY <1>3, <1>12, <2>3
        <4>2. /\ own[b] \in Seq(Addresses) /\ Range(own[b]) \subseteq Addresses
              /\ points[b] \subseteq Addresses
          BY <1>2, Elements DEF TypeOK
        <4>3. \A x \in Addresses : Point(b, x) \in leaving' <=> Point(b, x) \in leaving
          BY <1>15, <2>3
        <4>4. QED
          BY <2>1, <4>1, <4>2, <4>3 DEF ActorOK, Anonymous
      <3>2. KnownOK(b)'
        BY <1>3, <1>12, <2>1, <2>3 DEF KnownOK
      <3>3. QED
        BY <3>1, <3>2
    <2>4. QED
      BY <2>2, <2>3
  <1>18. ForeignOK'
    <2>1. \A t \in Supervisors : \A q \in foreign[t] : q.actor \in Actors
      BY <1>2, PointType DEF TypeOK
    <2>2. QED
      BY <1>2, <1>3, <1>12, <2>1 DEF ForeignOK
  <1>19. ASSUME NEW b \in Boxes, NEW n \in Range(Box(b)),
                b = <<"queue", s>> => n \in Range(r)
         PROVE  Says(n)' /\ Placed(b, n)'
    <2>1. n \in Messages /\ Says(n) /\ Placed(b, n)
      BY <1>2, InFlight
    <2>2. /\ n.kind \in AboutPoints =>
                /\ n.point.actor \in Actors /\ n.point.address \in Addresses
          /\ n.kind \in {"shutdown", "farewell", "foreign_unsubscription"} => n.to \in Actors
      BY <2>1, ActorAndOwner
    <2>3. ASSUME n.kind = "shutdown" PROVE n.to # a
      <3>1. n = [kind |-> "shutdown", to |-> n.to]
        BY <2>1, <2>3 DEF Says
      <3>2. n # h
        BY <1>3, <1>4, <1>19 DEF Single, h, r
      <3>3. QED
        BY <1>5, <3>1, <3>2
    <2>4. ASSUME n.kind = "shutdown" PROVE Says(n)'
      BY <1>12, <2>1, <2>2, <2>3, <2>4 DEF Says
    <2>5. ASSUME n.kind = "unsubscription" PROVE Says(n)'
      <3>1. PICK q : q = n.point
        OBVIOUS
      <3>2. q.actor \in Actors
        BY <2>2, <2>5, <3>1 DEF AboutPoints
      <3>3. /\ n = ToActor("unsubscription", q) /\ InternalAddress(q) /\ q \in leaving
            /\ IF PluginOwned(q) THEN q.address \in Range(own[q.actor]) /\ state[q.actor] \in Ended
                                 ELSE q.address \in points[q.actor]
        BY <2>1, <2>5, <3>1 DEF Says
      <3>4. ~PluginOwned(q) => q.address \in points'[q.actor]
        BY <1>12, <3>2, <3>3 DEF Anonymous, PluginOwned
      <3>5. state[q.actor] \in Ended => state'[q.actor] \in Ended
        BY <1>12, <3>2 DEF Ended
      <3>6. QED
        BY <1>3, <1>16, <2>5, <3>1, <3>3, <3>4, <3>5 DEF Says
    <2>6. ASSUME n.kind \notin {"shutdown", "unsubscription"} PROVE Says(n)'
      <3>1. \A b1 \in Actors : /\ state[b1] # "NEW" => state'[b1] # "NEW"
                               /\ state'[b1] = "INITIALIZING" => state[b1] = "INITIALIZING"
                               /\ state[b1] \in Ended => state'[b1] \in Ended
                               /\ state'[b1] \in Ready => state[b1] \in Ready
        BY <1>12 DEF Ready, Ended
      <3>2. QED
        BY <1>3, <1>12, <1>16, <2>1, <2>2, <2>6, <3>1 DEF Says, AboutPoints
    <2>7. Placed(b, n)'
      <3>1. ASSUME n.kind = "foreign_unsubscription", b = HomeBox(n.to), n.to = a
            PROVE  FALSE
        <4>1. b = <<"queue", s>>
          BY <1>5, <3>1 DEF HomeBox
        <4>2. QED
          BY <1>5, <1>10, <1>19, <3>1, <4>1 DEF Near
      <3>2. QED
        BY <1>12, <2>1, <2>2, <3>1 DEF Placed
    <2>8. QED
      BY <2>4, <2>5, <2>6, <2>7
  <1>20. ASSUME NEW x \in given, NEW m, m = u(x)
         PROVE  /\ m \notin Flying /\ ~Near(s, m) /\ Says(m)' /\ Placed(<<"queue", s>>, m)'
    <2>1. PICK p : p = Point(a, x)
      OBVIOUS
    <2>2. /\ x \in Addresses /\ p \in Points /\ p.actor = a /\ p.address = x
          /\ x \in points[a] \cup Range(own[a])
      BY <1>5, <1>13, <1>14, <2>1 DEF Remaining, Anonymous
    <2>3. /\ m \in Messages /\ m.point = p /\ m.to = a
          /\ m.kind = IF InternalAddress(p) THEN "unsubscription" ELSE "unsubscription_external"
      BY <1>20, <2>1, <2>2, PointMessages
    <2>4. p \notin leaving
      <3>1. CASE x \in Range(own[a])
        BY <1>5, <1>6, <1>13, <2>1, <2>2, <3>1 DEF ActorOK, Anonymous, Ended
      <3>2. CASE x \in Remaining(a)
        BY <2>1, <3>2 DEF Remaining
      <3>3. QED
        BY <3>1, <3>2
    <2>5. m \notin Flying
      <3> SUFFICES ASSUME NEW b \in Boxes, m \in Range(Box(b)) PROVE FALSE
        BY DEF Flying
      <3>1. Says(m)
        BY <1>2, InFlight
      <3>2. QED
        BY <2>3, <2>4, <3>1 DEF Says
    <2>6. p \in leaving' /\ state'[a] \in Ended /\ own' = own
      BY <1>3, <1>12, <1>16, <2>1, <2>2 DEF Ended
    <2>7. Says(m)'
      <3>1. CASE x \in Range(own[a])
        <4>1. PluginOwned(p)
          BY <1>13, <2>2, <3>1 DEF PluginOwned
        <4>2. CASE InternalAddress(p)
          <5>1. m = ToActor("unsubscription", p)
            BY <1>20, <2>1, <4>2 DEF Unsubscription
          <5>2. QED
            BY <2>2, <2>3, <2>6, <3>1, <4>1, <4>2, <5>1 DEF Says
        <4>3. CASE ~InternalAddress(p)
          <5>1. m = ToActor("unsubscription_external", p)
            BY <1>20, <2>1, <4>3 DEF Unsubscription
          <5>2. QED
            BY <2>2, <2>3, <2>6, <3>1, <4>1, <4>3, <5>1 DEF Says, Foreign
        <4>4. QED
          BY <4>2, <4>3
      <3>2. CASE x \in Remaining(a)
        <4>1. x \in Anonymous(a, points[a])
          BY <3>2 DEF Remaining
        <4>2. InternalAddress(p) /\ ~PluginOwned(p) /\ m = ToActor("unsubscription", p)
          BY <1>5, <1>20, <2>1, <4>1, AnonymousIsLocal
        <4>3. x \in points'[a]
          BY <1>12, <4>1
        <4>4. QED
          BY <2>2, <2>3, <2>6, <4>2, <4>3 DEF Says
      <3>3. QED
        BY <3>1, <3>2
    <2>8. Placed(<<"queue", s>>, m)'
      BY <1>5, <2>3 DEF Placed, HomeBox
    <2>9. QED
      BY <2>3, <2>5, <2>7, <2>8 DEF Near
  <1>21. Parts(a, own[a]) => /\ bye.kind \notin Single /\ ~Near(s, bye)
                             /\ Says(bye)' /\ Placed(<<"queue", s>>, bye)'
    BY <1>5, <1>12 DEF Single, Near, Says, Placed, HomeBox
  <1>22. \A m \in Range(ms) :
            /\ (m.kind \in Single => m \notin Flying) /\ ~Near(s, m)
            /\ Says(m)' /\ Placed(<<"queue", s>>, m)'
    <2> HIDE DEF u, bye, given
    <2>1. QED
      BY <1>7, <1>20, <1>21
  <1>23. Mails'
    <2>1. inbox' = inbox
      BY <1>3
    <2>2. QED
      BY <1>2, <1>7, <1>8, <1>9, <1>19, <1>22, <2>1, Sending DEF Sends
  <1>24. Range(queue'[s]) = Range(r) \cup Range(ms)
         /\ \A t \in Supervisors : t # s => queue'[t] = queue[t]
    BY <1>2, <1>7, <1>8, <1>9, Sent DEF Sends
  <1>25. ASSUME NEW b \in Actors PROVE DrivenOK(b)'
    <2>1. CASE b = a
      <3>1. a \in parting' => bye \in Range(queue'[Home[a]])
        BY <1>5, <1>7, <1>12, <1>24
      <3>2. ASSUME NEW x \in Range(own[a]) \cup Anonymous(a, points[a])
            PROVE  u(x) \in Range(queue'[Home[a]])
        <4>1. CASE x \in given
          BY <1>5, <1>7, <1>24, <4>1
        <4>2. CASE x \notin given
          <5>1. x \in Anonymous(a, points[a]) /\ Point(a, x) \in leaving
            BY <4>2 DEF Remaining
          <5>2. u(x) \in Range(queue[s])
            BY <1>5, <1>6, <5>1 DEF DrivenOK, Listens
          <5>3. u(x).kind # "shutdown"
            BY <1>5, <1>13, <1>14, <3>2, PointMessages DEF Anonymous
          <5>4. QED
            BY <1>3, <1>5, <1>9, <1>24, <5>2, <5>3 DEF h
        <4>3. QED
          BY <4>1, <4>2
      <3>3. Anonymous(a, points'[a]) = Anonymous(a, points[a])
        BY <1>12 DEF Anonymous
      <3>4. own' = own
        BY <1>3
      <3>5. QED
        BY <2>1, <3>1, <3>2, <3>3, <3>4 DEF DrivenOK, Anonymous
    <2>2. CASE b # a
      <3>1. \A n \in Range(queue[Home[b]]) : n.to = b => n \in Range(queue'[Home[b]])
        BY <1>9, <1>11, <1>24, <2>2, PointType
      <3>2. \A x \in Addresses : Point(b, x) \in leaving' => Point(b, x) \in leaving
        BY <1>15, <2>2
      <3>3. own'[b] = own[b] /\ points'[b] = points[b] /\ state'[b] = state[b]
            /\ (b \in parting' => b \in parting)
        BY <1>3, <1>12, <2>2
      <3>4. QED
        BY <1>2, <3>1, <3>2, <3>3, DrivenOther DEF Listens
    <2>3. QED
      BY <2>1, <2>2
  <1>26. QED
    BY <1>3, <1>17, <1>18, <1>23, <1>25 DEF Inv, Places, Driven

\* A subscription is forgotten by the plugin that has it.
Leavings == {"unsubscription", "foreign_unsubscription", "unsubscription_external"}

Forgets(s, p, a, h, bye, commit, ms) ==
    /\ a = p.actor /\ Home[a] = s
    /\ queue[s] # <<>> /\ h = Head(queue[s])
    /\ h.kind \in Leavings /\ h = ToActor(h.kind, p)
    /\ state[a] # "NEW" /\ (h.kind = "foreign_unsubscription" => state[a] \in Ready)
    /\ bye = [kind |-> "farewell", to |-> a]
    /\ commit = ToOwner("commit_unsubscription", p)
    /\ OneEach(ms) /\ Range(ms) \subseteq {bye, commit}
    /\ bye \in Range(ms) => a \in parting'
    /\ commit \in Range(ms) => h.kind = "unsubscription_external"
    /\ Sends(s, Tail(queue[s]), ms)
    /\ IsInjective(own'[a]) /\ Range(own'[a]) = Range(own[a]) \ {p.address}
    /\ points'[a] = IF PluginOwned(p) THEN points[a] ELSE points[a] \ {p.address}
    /\ \A b \in Actors : b # a => /\ own'[b] = own[b] /\ points'[b] = points[b]
                                  /\ b \in parting' => b \in parting
    /\ leaving' = leaving \ {p} /\ parting \subseteq parting'
    /\ a \in parting' => a \in parting \/ (state[a] = "SHUTTING_DOWN" /\ bye \in Range(ms))
    /\ state[a] = "SHUTTING_DOWN" /\ own'[a] = <<>> /\ points'[a] = {} => a \in parting'
    /\ UNCHANGED <<state, tracked, foreign, supState, inbox, failed>>

LEMMA Forgotten ==
    ASSUME Inv, TypeOK', NEW s \in Supervisors, NEW p \in Points, NEW a, NEW h, NEW bye,
           NEW commit, NEW ms \in Seq(Messages), Forgets(s, p, a, h, bye, commit, ms)
    PROVE  Inv'
  <1> USE DEF Forgets
  <1> DEFINE x == p.address
             r == Tail(queue[s])
  <1>1. TypeOK /\ Mails /\ Places /\ ForeignOK /\ Driven
    BY DEF Inv
  <1>2. a \in Actors /\ x \in Addresses /\ p = Point(a, x) /\ h.to = a /\ h.point = p
    <2>1. ToActor(h.kind, p).to = p.actor /\ ToActor(h.kind, p).point = p
      BY PointMessages DEF Leavings
    <2>2. QED
      BY <2>1, PointType
  <1>3. /\ h \in Messages /\ Says(h)
        /\ h.kind \in Single =>
             \A b \in Boxes : \A n \in Range(Box(b)) : (b = <<"queue", s>> => n \in Range(r)) => n # h
    BY <1>1, HeadSays
  <1>4. /\ h.kind = "unsubscription" =>
            /\ InternalAddress(p)
            /\ PluginOwned(p) => state[a] \in Ended
        /\ h.kind = "unsubscription_external" =>
            Foreign(p) /\ x \in Range(own[a]) /\ state[a] \in Ended
        /\ h.kind = "foreign_unsubscription" =>
            Foreign(p) /\ supState[Owner[x]] # "OPERATIONAL"
    BY <1>2, <1>3 DEF Says
  <1>5. Sends(s, r, ms) /\ Left(s, r)
    BY DEF Left
  <1>6. Rest(s, r) /\ Range(queue[s]) = {h} \cup Range(r)
    BY <1>1, <1>5, LeftRest, TailOfIt
  <1> HIDE DEF r
  <1>7. h.kind \in Single
    BY DEF Leavings, Single
  <1>8. \A b \in Actors, y \in Addresses :
            /\ Point(b, y).actor = b /\ Point(b, y).address = y /\ Point(b, y) \in Points
            /\ Point(b, y) = p <=> b = a /\ y = x
    BY <1>2, PointType
  <1>9. \A b \in Actors : /\ own[b] \in Seq(Addresses) /\ Range(own[b]) \subseteq Addresses
                          /\ points[b] \subseteq Addresses /\ Range(Subscribes[b]) \subseteq Addresses
    <2>1. \A b \in Actors : own[b] \in Seq(Addresses) /\ points[b] \subseteq Addresses
      BY <1>1 DEF TypeOK
    <2>2. QED
      BY <2>1, Elements, PointType
  <1>10. ActorOK(a) /\ KnownOK(a) /\ DrivenOK(a)
    BY <1>1, <1>2 DEF Places, Driven
  <1>11. PluginOwned(p) <=> x \in Range(Subscribes[a])
    BY DEF PluginOwned
  <1>12. ActorOK(a)'
    <2>1. IsInjective(own'[a]) /\ Range(own'[a]) \subseteq Range(Subscribes[a])
      BY <1>10 DEF ActorOK
    <2>2. points'[a] \subseteq points[a]
      OBVIOUS
    <2>3. ASSUME state[a] \in Ready
          PROVE  /\ Range(Subscribes[a]) \subseteq points'[a]
                 /\ \A y \in Range(Subscribes[a]) \ Range(own'[a]) :
                        Owner[y] # Home[a] /\ supState[Owner[y]] # "OPERATIONAL"
      <3>1. Range(Subscribes[a]) \subseteq points'[a]
        BY <1>10, <1>11, <2>3 DEF ActorOK
      <3>2. ASSUME x \in Range(Subscribes[a])
            PROVE  Owner[x] # Home[a] /\ supState[Owner[x]] # "OPERATIONAL"
        <4>1. h.kind = "foreign_unsubscription"
          BY <1>4, <1>11, <2>3, <3>2 DEF Leavings, Ready, Ended
        <4>2. QED
          BY <1>4, <4>1 DEF Foreign, InternalAddress
      <3>3. QED
        BY <1>10, <2>3, <3>1, <3>2 DEF ActorOK
    <2>4. ASSUME state[a] = "SHUTTING_DOWN"
          PROVE  /\ points'[a] \cap Range(Subscribes[a]) = {}
                 /\ \A y \in points'[a] \cup Range(own'[a]) : Point(a, y) \in leaving'
      <3>1. points[a] \cap Range(Subscribes[a]) = {}
        BY <1>10, <2>4 DEF ActorOK
      <3>2. \A y \in points'[a] \cup Range(own'[a]) : y # x /\ y \in points[a] \cup Range(own[a])
        BY <1>11, <3>1
      <3>3. QED
        BY <1>2, <1>8, <1>9, <1>10, <2>2, <2>4, <3>1, <3>2 DEF ActorOK
    <2>5. a \in parting' => state[a] \in Ended
      BY <1>10 DEF ActorOK, Ended
    <2>6. ASSUME state[a] \notin Ended, NEW y \in Addresses, Point(a, y) \in leaving'
          PROVE  y \in Anonymous(a, points'[a])
      <3>1. y # x /\ Point(a, y) \in leaving
        BY <1>2, <2>6
      <3>2. y \in Anonymous(a, points[a])
        BY <1>10, <2>6, <3>1 DEF ActorOK
      <3>3. QED
        BY <3>1, <3>2 DEF Anonymous
    <2>7. QED
      BY <1>10, <2>1, <2>2, <2>3, <2>4, <2>5, <2>6 DEF ActorOK, Anonymous
  <1>13. ASSUME NEW b \in Actors PROVE ActorOK(b)' /\ KnownOK(b)'
    <2>1. ActorOK(b) /\ KnownOK(b)
      BY <1>1 DEF Places
    <2>2. Range(own'[b]) \subseteq Range(own[b])
      OBVIOUS
    <2>3. KnownOK(b)'
      BY <2>1, <2>2 DEF KnownOK
    <2>4. CASE b = a
      BY <1>12, <2>3, <2>4
    <2>5. CASE b # a
      <3>1. \A y \in Addresses : Point(b, y) \in leaving' <=> Point(b, y) \in leaving
        BY <1>8, <2>5
      <3>2. own'[b] = own[b] /\ points'[b] = points[b] /\ (b \in parting' <=> b \in parting)
        BY <2>5
      <3>3. ActorOK(b)'
        BY <1>9, <2>1, <3>1, <3>2 DEF ActorOK, Anonymous
      <3>4. QED
        BY <2>3, <3>3
    <2>6. QED
      BY <2>4, <2>5
  <1>14. ForeignOK'
    BY <1>1 DEF ForeignOK
  <1>15. ASSUME NEW b \in Boxes, NEW n \in Range(Box(b)),
                b = <<"queue", s>> => n \in Range(r)
         PROVE  Says(n)' /\ Placed(b, n)'
    <2>1. n \in Messages /\ Says(n) /\ Placed(b, n) /\ n # h
      BY <1>1, <1>3, <1>7, <1>15, InFlight
    <2>2. Placed(b, n)'
      BY <2>1 DEF Placed
    <2>3. PICK q : q = n.point
      OBVIOUS
    <2>4. n.kind \in AboutPoints =>
            q.actor \in Actors /\ q.address \in Addresses /\ q = Point(q.actor, q.address)
      BY <2>1, <2>3, ActorAndOwner
    <2>5. n.kind \in AboutPoints => Range(own'[q.actor]) \subseteq Range(own[q.actor])
      BY <2>4
    <2>6. ASSUME n.kind \in AboutPoints, q # p
          PROVE  /\ q.address \in Range(own[q.actor]) => q.address \in Range(own'[q.actor])
                 /\ q.address \in points[q.actor] => q.address \in points'[q.actor]
                 /\ q \in leaving => q \in leaving'
      <3>1. ~(q.actor = a /\ q.address = x)
        BY <1>8, <2>4, <2>6
      <3>2. QED
        BY <2>4, <2>6, <3>1
    <2>7. ASSUME n.kind \in Leavings, q = p, n.kind = "foreign_unsubscription" => state[a] \in Ready
          PROVE  FALSE
      <3>1. n = ToActor(n.kind, p)
        BY <2>1, <2>3, <2>7 DEF Says, Leavings
      <3>2. n.kind # h.kind
        BY <2>1, <3>1
      <3>3. /\ n.kind = "unsubscription" => InternalAddress(p)
            /\ n.kind = "unsubscription_external" => ~InternalAddress(p) /\ state[a] \in Ended
            /\ n.kind = "foreign_unsubscription" => ~InternalAddress(p) /\ state[a] \in Ready
        BY <2>1, <2>3, <2>7 DEF Says, Foreign
      <3>4. QED
        BY <1>4, <2>7, <3>2, <3>3 DEF Leavings, Foreign, Ready, Ended
    <2>8. ASSUME n.kind = "subscription" PROVE Says(n)'
      BY <2>1, <2>3, <2>5, <2>8 DEF Says, AboutPoints
    <2>9. ASSUME n.kind = "unsubscription" PROVE Says(n)'
      <3>1. q # p
        BY <2>7, <2>9 DEF Leavings
      <3>2. QED
        BY <2>1, <2>3, <2>6, <2>9, <3>1 DEF Says, AboutPoints
    <2>10. ASSUME n.kind = "unsubscription_external" PROVE Says(n)'
      <3>1. q # p
        BY <2>7, <2>10 DEF Leavings
      <3>2. QED
        BY <2>1, <2>3, <2>6, <2>10, <3>1 DEF Says, AboutPoints
    <2>11. ASSUME n.kind = "foreign_unsubscription" PROVE Says(n)'
      <3>1. q # p \/ state[a] \notin Ready
        BY <2>7, <2>11 DEF Leavings
      <3>2. QED
        BY <2>1, <2>3, <2>6, <2>11, <3>1 DEF Says, AboutPoints
    <2>12. ASSUME n.kind = "commit_unsubscription" PROVE Says(n)'
      BY <2>1, <2>3, <2>5, <2>12 DEF Says, AboutPoints
    <2>13. ASSUME n.kind \notin Leavings, n.kind # "subscription", n.kind # "commit_unsubscription"
           PROVE  Says(n)'
      BY <2>1, <2>13 DEF Says, Leavings
    <2>14. QED
      BY <2>2, <2>8, <2>9, <2>10, <2>11, <2>12, <2>13 DEF Leavings
  <1>16. ASSUME bye \in Range(ms)
         PROVE  /\ bye.kind \notin Single /\ ~Near(s, bye)
                /\ Says(bye)' /\ Placed(<<"queue", s>>, bye)'
    BY <1>16 DEF Single, Near, Says, Placed, HomeBox
  <1>17. ASSUME commit \in Range(ms)
         PROVE  /\ commit \notin Flying /\ ~Near(s, commit)
                /\ Says(commit)' /\ Placed(<<"queue", s>>, commit)'
    <2>1. commit.kind = "commit_unsubscription" /\ commit.point = p
      BY PointMessages
    <2>2. Foreign(p) /\ x \in Range(own[a]) /\ state[a] \in Ended
      BY <1>4, <1>17
    <2>3. commit \notin Flying
      <3> SUFFICES ASSUME NEW b \in Boxes, commit \in Range(Box(b)) PROVE FALSE
        BY DEF Flying
      <3>1. Says(commit)
        BY <1>1, InFlight
      <3>2. QED
        BY <2>1, <2>2, <3>1 DEF Says
    <2>4. p \in foreign[Owner[x]]
      BY <1>2, <1>10, <2>2 DEF KnownOK, Foreign, InternalAddress, Ended
    <2>5. x \notin Range(own'[a])
      OBVIOUS
    <2>6. Says(commit)'
      BY <2>1, <2>2, <2>4, <2>5 DEF Says
    <2>7. QED
      BY <2>1, <2>3, <2>6 DEF Near, Placed, Inner
  <1>18. \A m \in Range(ms) :
            /\ (m.kind \in Single => m \notin Flying) /\ ~Near(s, m)
            /\ Says(m)' /\ Placed(<<"queue", s>>, m)'
    BY <1>16, <1>17
  <1>19. Mails'
    BY <1>1, <1>5, <1>6, <1>15, <1>18, Sending DEF Sends
  <1>20. /\ Range(queue'[s]) = Range(r) \cup Range(ms)
         /\ \A t \in Supervisors : t # s => queue'[t] = queue[t]
    <2>1. queue' = [queue EXCEPT ![s] = r \o ms]
      BY <1>5 DEF Sends
    <2>2. TypeOK /\ Rest(s, r)
      BY <1>1, <1>6
    <2>3. QED
      BY <2>1, <2>2, Sent
  <1>21. ASSUME NEW b \in Actors PROVE DrivenOK(b)'
    <2>1. CASE b # a
      <3>1. \A n \in Range(queue[Home[b]]) : n.to = b => n \in Range(queue'[Home[b]])
        BY <1>2, <1>6, <1>20, <2>1, PointType
      <3>2. \A y \in Addresses : Point(b, y) \in leaving' => Point(b, y) \in leaving
        OBVIOUS
      <3>3. own'[b] = own[b] /\ points'[b] = points[b] /\ state'[b] = state[b]
            /\ (b \in parting' => b \in parting)
        BY <2>1
      <3>4. QED
        BY <1>1, <3>1, <3>2, <3>3, DrivenOther DEF Listens
    <2>2. CASE b = a
      <3>1. ASSUME state[a] = "SHUTTING_DOWN", a \in parting'
            PROVE  bye \in Range(queue'[s])
        <4>1. CASE bye \in Range(ms)
          BY <1>20, <4>1
        <4>2. CASE a \in parting
          <5>1. bye \in Range(queue[s])
            BY <1>10, <3>1, <4>2 DEF DrivenOK
          <5>2. bye # h
            BY DEF Leavings
          <5>3. QED
            BY <1>6, <1>20, <5>1, <5>2
        <4>3. QED
          BY <3>1, <4>1, <4>2
      <3>2. ASSUME Listens(a), NEW y \in Range(own'[a]) \cup Anonymous(a, points'[a]),
                   Point(a, y) \in leaving'
            PROVE  Unsubscription(Point(a, y)) \in Range(queue'[s])
        <4>1. y \in Range(own[a]) \cup Anonymous(a, points[a])
          BY <3>2 DEF Anonymous
        <4>2. y \in Addresses /\ Point(a, y) \in leaving /\ Point(a, y) # p
          BY <1>2, <1>9, <3>2, <4>1 DEF Anonymous
        <4>3. Unsubscription(Point(a, y)) \in Range(queue[s])
          BY <1>10, <3>2, <4>1, <4>2 DEF DrivenOK
        <4>4. Unsubscription(Point(a, y)).point = Point(a, y)
          BY <1>2, <1>8, <4>2, PointMessages
        <4>5. QED
          BY <1>2, <1>6, <1>20, <4>2, <4>3, <4>4
      <3>3. QED
        BY <2>2, <3>1, <3>2 DEF DrivenOK, Listens, Anonymous
    <2>3. QED
      BY <2>1, <2>2
  <1>22. QED
    BY <1>13, <1>14, <1>19, <1>21 DEF Inv, Places, Driven

LEMMA StarterInv ==
    ASSUME Inv, TypeOK', NEW s \in Supervisors, NEW p \in Points, NEW kind \in Leavings,
           Next1(s, kind), Head(queue[s]).point = p,
           kind = "unsubscription_external" \/ Listens(p.actor),
           p.address \in Range(own[p.actor]), NEW answers,
           answers = IF kind = "unsubscription_external" THEN Commits(p) ELSE <<>>,
           StarterForgets(s, p, answers),
           UNCHANGED <<state, tracked, foreign, supState, inbox>>
    PROVE  Inv'
  <1>1. PICK a : a = p.actor
    OBVIOUS
  <1>2. PICK h : h = Head(queue[s])
    OBVIOUS
  <1>3. TypeOK /\ Mails /\ Places
    BY DEF Inv
  <1>4. /\ queue[s] # <<>> /\ h.kind = kind /\ Destination(h) = s /\ h.point = p
        /\ h \in Messages /\ Says(h) /\ Placed(<<"queue", s>>, h)
    BY <1>2, <1>3, HeadSays DEF Next1
  <1>5. h = ToActor(h.kind, p) /\ h.to = a /\ a \in Actors /\ p = Point(a, p.address)
    <2>1. h = ToActor(h.kind, p)
      BY <1>4 DEF Says, Leavings
    <2>2. ToActor(h.kind, p).to = p.actor
      BY <1>4, PointMessages DEF Leavings
    <2>3. QED
      BY <1>1, <2>1, <2>2, PointType
  <1>6. Home[a] = s
    BY <1>4, <1>5, MsgType
  <1>7. ActorOK(a) /\ own[a] \in Seq(Addresses)
    BY <1>3, <1>5 DEF Places, TypeOK
  <1>8. PluginOwned(p)
    BY <1>1, <1>7 DEF ActorOK, PluginOwned
  <1>9. /\ kind = "foreign_unsubscription" => state[a] \in Ready
        /\ kind # "foreign_unsubscription" => state[a] \in Ended
    <2>1. state[a] \in {"NEW", "INITIALIZING", "OPERATIONAL", "SHUTTING_DOWN", "SHUT_DOWN"}
      BY <1>3, <1>5 DEF TypeOK
    <2>2. ASSUME kind = "foreign_unsubscription" PROVE state[a] \in Ready
      <3>1. state[a] # "NEW"
        BY <1>1, <1>4, <2>2 DEF Says
      <3>2. state[a] # "SHUTTING_DOWN"
        BY <1>4, <1>5, <1>6, <2>2 DEF Placed, HomeBox
      <3>3. state[a] # "SHUT_DOWN"
        BY <1>1, <2>2 DEF Listens
      <3>4. QED
        BY <2>1, <3>1, <3>2, <3>3 DEF Ready
    <2>3. ASSUME kind = "unsubscription" PROVE state[a] \in Ended
      BY <1>1, <1>4, <1>8, <2>3 DEF Says
    <2>4. ASSUME kind = "unsubscription_external" PROVE state[a] \in Ended
      BY <1>1, <1>4, <2>4 DEF Says
    <2>5. QED
      BY <2>2, <2>3, <2>4 DEF Leavings
  <1>10. PICK it \in 1 .. Len(own[a]) :
            /\ it = CHOOSE i \in 1 .. Len(own[a]) : own[a][i] = p.address
            /\ own[a][it] = p.address
    <2>1. \E i \in 1 .. Len(own[a]) : own[a][i] = p.address
      BY <1>1, <1>7, Elements
    <2>2. QED
      BY <2>1
  <1>11. PICK mine : mine = RemoveAt(own[a], it)
    OBVIOUS
  <1>12. mine \in Seq(Addresses) /\ IsInjective(mine) /\ Range(mine) = Range(own[a]) \ {p.address}
    <2>1. IsInjective(own[a]) /\ own[a] \in Seq(Addresses)
      BY <1>7 DEF ActorOK
    <2>2. /\ RemoveAt(own[a], it) \in Seq(Addresses)
          /\ IsInjective(RemoveAt(own[a], it))
          /\ Range(RemoveAt(own[a], it)) = Range(own[a]) \ {own[a][it]}
      BY <2>1, Removed
    <2>3. QED
      BY <1>10, <1>11, <2>2
  <1>13. PICK ends \in BOOLEAN : ends <=> mine = <<>> /\ state[a] = "SHUTTING_DOWN"
    OBVIOUS
  <1>14. PICK said : said = IF ends THEN LifetimeMessages(a, mine) ELSE <<>>
    OBVIOUS
  <1>15. /\ own' = [own EXCEPT ![a] = mine]
         /\ leaving' = leaving \ {p}
         /\ IF ends THEN LifetimeEnds(a, mine) ELSE UNCHANGED <<points, parting>>
         /\ Post(s, said \o answers)
         /\ UNCHANGED failed
    BY <1>1, <1>10, <1>11, <1>13, <1>14 DEF StarterForgets
  <1>16. state[a] = "SHUTTING_DOWN" =>
            /\ Anonymous(a, points[a]) = points[a]
            /\ Remaining(a) = {}
    BY <1>7 DEF ActorOK, Anonymous, Remaining
  <1>17. points[a] \subseteq Addresses
    BY <1>3, <1>5 DEF TypeOK
  <1> DEFINE bye == [kind |-> "farewell", to |-> a]
             commit == ToOwner("commit_unsubscription", p)
             last == IF Parts(a, mine) THEN <<bye>> ELSE <<>>
  <1>18. ends => said = last
    <2> SUFFICES ASSUME ends PROVE said = last
      OBVIOUS
    <2>1. PICK left : left = SetToSeq(Remaining(a))
      OBVIOUS
    <2>2. left \in Seq(Addresses) /\ Range(left) = Remaining(a)
          /\ LifetimeMessages(a, mine) = Unsubscriptions(a, left) \o last /\ last \in Seq(Messages)
      BY <1>3, <1>5, <2>1, Lasting
    <2>3. Range(left) = {}
      BY <1>13, <1>16, <2>2
    <2>4. Unsubscriptions(a, left) \in Seq(Messages) /\ Range(Unsubscriptions(a, left)) = {}
      BY <1>5, <2>2, <2>3, GivenUp
    <2>5. Unsubscriptions(a, left) = <<>>
      BY <2>4, Elements
    <2> HIDE DEF last
    <2>6. QED
      BY <1>14, <2>2, <2>5, Few
  <1>19. /\ bye \in Messages /\ bye.kind = "farewell"
         /\ commit \in Messages /\ commit.kind = "commit_unsubscription"
    BY <1>5, PointMessages, OtherMessages
  <1>20. /\ said \in Seq(Messages) /\ OneEach(said)
         /\ Range(said) = IF ends /\ Parts(a, mine) THEN {bye} ELSE {}
    BY <1>14, <1>18, <1>19, Few
  <1>21. /\ answers \in Seq(Messages) /\ OneEach(answers)
         /\ Range(answers) = IF kind = "unsubscription_external" THEN {commit} ELSE {}
    BY <1>19, Few DEF Commits
  <1>22. PICK ms : ms = said \o answers
    OBVIOUS
  <1>23. ms \in Seq(Messages) /\ Range(ms) = Range(said) \cup Range(answers)
    BY <1>20, <1>21, <1>22, Joined
  <1>24. OneEach(ms)
    <2>1. \A m \in Range(answers) : m \notin Range(said)
      BY <1>19, <1>20, <1>21
    <2>2. QED
      BY <1>20, <1>21, <1>22, <2>1, JoinedOnce
  <1> HIDE DEF bye, commit
  <1>25. /\ Range(ms) \subseteq {bye, commit}
         /\ bye \in Range(ms) <=> ends /\ Parts(a, mine)
         /\ commit \in Range(ms) => kind = "unsubscription_external"
    <2>1. bye # commit
      BY <1>19
    <2>2. QED
      BY <1>20, <1>21, <1>23, <2>1
  <1>26. Sends(s, Tail(queue[s]), ms)
    BY <1>4, <1>15, <1>22, PostSends
  <1>27. own'[a] = mine /\ \A b \in Actors : b # a => own'[b] = own[b]
    BY <1>3, <1>5, <1>15 DEF TypeOK
  <1>28. points' = points
    <2>1. CASE ends
      <3>1. points' = [points EXCEPT ![a] = points[a]]
        BY <1>13, <1>15, <1>16, <2>1 DEF LifetimeEnds
      <3>2. QED
        BY <1>3, <3>1 DEF TypeOK
    <2>2. CASE ~ends
      BY <1>15, <2>2
    <2>3. QED
      BY <2>1, <2>2
  <1>29. parting' = IF ends /\ Parts(a, mine) THEN parting \cup {a} ELSE parting
    BY <1>15 DEF LifetimeEnds
  <1>30. state[a] = "SHUTTING_DOWN" /\ own'[a] = <<>> /\ points'[a] = {} => a \in parting'
    BY <1>13, <1>16, <1>27, <1>28, <1>29 DEF Parts
  <1>31. QED
    <2>1. UNCHANGED <<state, tracked, foreign, supState, inbox, failed>>
      BY <1>15
    <2>2. IsInjective(own'[a]) /\ Range(own'[a]) = Range(own[a]) \ {p.address}
      BY <1>12, <1>27
    <2>3. points'[a] = IF PluginOwned(p) THEN points[a] ELSE points[a] \ {p.address}
      BY <1>8, <1>28
    <2>4. \A b \in Actors : b # a => /\ own'[b] = own[b] /\ points'[b] = points[b]
                                     /\ b \in parting' => b \in parting
      BY <1>27, <1>28, <1>29
    <2>5. /\ parting \subseteq parting'
          /\ a \in parting' => a \in parting \/ (state[a] = "SHUTTING_DOWN" /\ bye \in Range(ms))
          /\ bye \in Range(ms) => a \in parting'
      BY <1>13, <1>25, <1>29
    <2>6. h.kind \in Leavings /\ state[a] # "NEW"
          /\ (h.kind = "foreign_unsubscription" => state[a] \in Ready)
          /\ (commit \in Range(ms) => h.kind = "unsubscription_external")
      BY <1>4, <1>9, <1>25 DEF Ready, Ended
    <2>7. leaving' = leaving \ {p} /\ queue[s] # <<>>
      BY <1>4, <1>15
    <2>8. PICK b1, c1 : /\ b1 = bye /\ b1 = [kind |-> "farewell", to |-> a]
                        /\ c1 = commit /\ c1 = ToOwner("commit_unsubscription", p)
      BY DEF bye, commit
    <2>9. /\ b1 \in Range(ms) => a \in parting'
          /\ c1 \in Range(ms) => h.kind = "unsubscription_external"
          /\ a \in parting' => a \in parting \/ (state[a] = "SHUTTING_DOWN" /\ b1 \in Range(ms))
          /\ Range(ms) \subseteq {b1, c1}
      BY <1>25, <2>5, <2>6, <2>8
    <2>10. Forgets(s, p, a, h, b1, c1, ms)
      BY <1>1, <1>2, <1>5, <1>6, <1>24, <1>26, <1>30, <2>1, <2>2, <2>3, <2>4, <2>5,
         <2>6, <2>7, <2>8, <2>9 DEF Forgets
    <2>11. QED
      BY <1>23, <2>10, Forgotten

LEMMA LifetimeInv ==
    ASSUME Inv, TypeOK', NEW s \in Supervisors, NEW p \in Points,
           NEW kind \in {"unsubscription", "foreign_unsubscription"},
           Next1(s, kind), Head(queue[s]).point = p, Listens(p.actor),
           p.address \notin Range(own[p.actor]), LifetimeForgets(s, p),
           UNCHANGED <<state, tracked, foreign, supState, inbox>>
    PROVE  Inv'
  <1>1. PICK a, h, bye, commit, x :
            /\ a = p.actor /\ h = Head(queue[s]) /\ x = p.address
            /\ bye = [kind |-> "farewell", to |-> a]
            /\ commit = ToOwner("commit_unsubscription", p)
    OBVIOUS
  <1>2. TypeOK /\ Mails /\ Places
    BY DEF Inv
  <1>3. /\ queue[s] # <<>> /\ h.kind = kind /\ Destination(h) = s /\ h.point = p
        /\ h \in Messages /\ Says(h) /\ Placed(<<"queue", s>>, h)
    BY <1>1, <1>2, HeadSays DEF Next1
  <1>4. h = ToActor(h.kind, p) /\ h.to = a /\ a \in Actors
    <2>1. h = ToActor(h.kind, p)
      BY <1>3 DEF Says
    <2>2. ToActor(h.kind, p).to = p.actor
      BY <1>3, PointMessages
    <2>3. QED
      BY <1>1, <2>1, <2>2, PointType
  <1>5. Home[a] = s
    BY <1>3, <1>4, MsgType
  <1>6. state[a] \in {"NEW", "INITIALIZING", "OPERATIONAL", "SHUTTING_DOWN", "SHUT_DOWN"}
        /\ points[a] \subseteq Addresses /\ own[a] \in Seq(Addresses)
    BY <1>2, <1>4 DEF TypeOK
  <1>7. ActorOK(a)
    BY <1>2, <1>4 DEF Places
  <1>8. kind = "unsubscription"
    <2> SUFFICES ASSUME kind = "foreign_unsubscription" PROVE FALSE
      OBVIOUS
    <2>1. state[a] \notin Ready /\ state[a] # "NEW"
      BY <1>1, <1>3 DEF Says
    <2>2. state[a] # "SHUTTING_DOWN"
      BY <1>3, <1>4, <1>5 DEF Placed, HomeBox
    <2>3. state[a] # "SHUT_DOWN"
      BY <1>1 DEF Listens
    <2>4. QED
      BY <1>6, <2>1, <2>2, <2>3 DEF Ready
  <1>9. ~PluginOwned(p) /\ x \in points[a] /\ x \notin Range(Subscribes[a])
    <2>1. ~PluginOwned(p) /\ x \in points[a]
      BY <1>1, <1>3, <1>8 DEF Says
    <2>2. QED
      BY <1>1, <2>1 DEF PluginOwned
  <1>10. state[a] # "NEW" /\ state[a] # "SHUT_DOWN"
    BY <1>1, <1>7, <1>9 DEF ActorOK, Listens
  <1>11. PICK left : left = points[a] \ {x}
    OBVIOUS
  <1>12. PICK ends \in BOOLEAN : ends <=> left = {} /\ a \notin parting
    OBVIOUS
  <1>13. PICK ms : ms = IF ends THEN <<bye>> ELSE <<>>
    OBVIOUS
  <1>14. /\ points' = [points EXCEPT ![a] = left]
         /\ leaving' = leaving \ {p}
         /\ parting' = IF ends THEN parting \cup {a} ELSE parting
         /\ Post(s, ms)
         /\ UNCHANGED <<own, failed>>
    BY <1>1, <1>9, <1>11, <1>12, <1>13 DEF LifetimeForgets
  <1>15. left = {} => state[a] = "SHUTTING_DOWN"
    <2>1. ASSUME state[a] = "OPERATIONAL" PROVE left # {}
      <3>1. Range(Subscribes[a]) # {} /\ Range(Subscribes[a]) \subseteq points[a]
        BY <1>7, <2>1 DEF ActorOK, Ready
      <3>2. QED
        BY <1>9, <1>11, <3>1
    <2>2. state[a] # "INITIALIZING"
      BY <1>7, <1>9 DEF ActorOK
    <2>3. QED
      BY <1>6, <1>10, <2>1, <2>2
  <1>16. bye \in Messages /\ bye.kind = "farewell" /\ commit.kind = "commit_unsubscription"
    BY <1>1, <1>4, PointMessages, OtherMessages
  <1>17. ms \in Seq(Messages) /\ OneEach(ms) /\ Range(ms) = IF ends THEN {bye} ELSE {}
    BY <1>13, <1>16, Few
  <1>18. Sends(s, Tail(queue[s]), ms)
    BY <1>3, <1>14, PostSends
  <1>19. points'[a] = left /\ \A b \in Actors : b # a => points'[b] = points[b]
    BY <1>2, <1>4, <1>14 DEF TypeOK
  <1>20. own' = own
    BY <1>14
  <1>21. IsInjective(own'[a]) /\ Range(own'[a]) = Range(own[a]) \ {p.address}
    BY <1>1, <1>7, <1>20 DEF ActorOK
  <1>22. /\ Range(ms) \subseteq {bye, commit}
         /\ bye \in Range(ms) <=> ends
         /\ commit \notin Range(ms)
    <2>1. bye # commit
      BY <1>16
    <2>2. QED
      BY <1>17, <2>1
  <1>23. points'[a] = IF PluginOwned(p) THEN points[a] ELSE points[a] \ {p.address}
    BY <1>1, <1>9, <1>11, <1>19
  <1>24. /\ bye \in Range(ms) => a \in parting'
         /\ \A b \in Actors : b # a => /\ own'[b] = own[b] /\ points'[b] = points[b]
                                       /\ b \in parting' => b \in parting
         /\ parting \subseteq parting'
         /\ a \in parting' => a \in parting \/ (state[a] = "SHUTTING_DOWN" /\ bye \in Range(ms))
         /\ state[a] = "SHUTTING_DOWN" /\ own'[a] = <<>> /\ points'[a] = {} => a \in parting'
    BY <1>12, <1>14, <1>15, <1>19, <1>20, <1>22
  <1>25. Forgets(s, p, a, h, bye, commit, ms)
    <2>1. h.kind \in Leavings /\ h.kind # "foreign_unsubscription"
      BY <1>3, <1>8 DEF Leavings
    <2>2. UNCHANGED <<state, tracked, foreign, supState, inbox, failed>>
      BY <1>14
    <2>3. leaving' = leaving \ {p}
      BY <1>14
    <2>4. QED
      BY <1>1, <1>3, <1>4, <1>5, <1>10, <1>17, <1>18, <1>21, <1>22, <1>23, <1>24,
         <2>1, <2>2, <2>3 DEF Forgets
  <1>26. QED
    BY <1>17, <1>25, Forgotten

\* An actor that is SHUT_DOWN is not asked.
LEMMA UnheardInv ==
    ASSUME Inv, TypeOK', NEW s \in Supervisors, NEW kind \in Leavings,
           Next1(s, kind), NEW a, a = Head(queue[s]).to, ~Listens(a), Post(s, <<>>),
           UNCHANGED <<state, tracked, foreign, supState, inbox, own, points, leaving, parting, failed>>
    PROVE  Inv'
  <1> DEFINE r == Tail(queue[s])
  <1>1. TypeOK /\ Mails /\ Driven
    BY DEF Inv
  <1>2. queue[s] # <<>>
    BY DEF Next1
  <1>3. Sends(s, r, <<>>) /\ Left(s, r) /\ <<>> \in Seq(Messages)
    BY <1>2, PostSends, Few
  <1>4. Rest(s, r) /\ Range(queue[s]) = {Head(queue[s])} \cup Range(r)
    BY <1>1, <1>2, <1>3, LeftRest, TailOfIt
  <1> HIDE DEF r
  <1>5. UNCHANGED spoken
    BY DEF spoken
  <1>6. Mails'
    <2>1. \A b \in Boxes : \A n \in Range(Box(b)) : Says(n)' /\ Placed(b, n)'
      BY <1>1, <1>5, InFlight, Frame
    <2>2. inbox' = inbox
      OBVIOUS
    <2>3. QED
      BY <1>1, <1>3, <1>4, <2>1, <2>2, Few, Sending DEF Sends
  <1>7. ASSUME NEW b \in Actors PROVE DrivenOK(b)'
    <2>1. CASE b = a
      BY <2>1 DEF DrivenOK, Listens
    <2>2. CASE b # a
      <3>1. /\ Range(queue'[s]) = Range(r) \cup Range(<<>>)
            /\ \A t \in Supervisors : t # s => queue'[t] = queue[t]
        BY <1>1, <1>3, <1>4, Sent DEF Sends
      <3>2. \A n \in Range(queue[Home[b]]) : n.to = b => n \in Range(queue'[Home[b]])
        BY <1>4, <2>2, <3>1, PointType
      <3>3. QED
        BY <1>1, <3>2, DrivenOther DEF Listens
    <2>3. QED
      BY <2>1, <2>2
  <1>8. QED
    BY <1>5, <1>6, <1>7, Frame DEF Inv, Driven

LEMMA OnUnsubscriptionInv ==
    ASSUME Inv, TypeOK', NEW s \in Supervisors,
           NEW kind \in {"unsubscription", "foreign_unsubscription"}, OnUnsubscription(s, kind)
    PROVE  Inv'
  <1>1. PICK h, p : h = Head(queue[s]) /\ p = Head(queue[s]).point
    OBVIOUS
  <1>2. TypeOK /\ Mails
    BY DEF Inv
  <1>3. Next1(s, kind) /\ UNCHANGED <<state, tracked, foreign, supState, inbox>>
    BY DEF OnUnsubscription
  <1>4. h.kind = kind /\ h \in Messages /\ Says(h)
    BY <1>1, <1>2, <1>3, HeadSays DEF Next1
  <1>5. p \in Points
    BY <1>1, <1>4, MsgType
  <1>6. h = ToActor(h.kind, p)
    BY <1>1, <1>4 DEF Says
  <1>7. h.to = p.actor /\ kind \in Leavings
    BY <1>4, <1>5, <1>6, PointMessages DEF Leavings
  <1>8. \/ Listens(p.actor) /\ p.address \in Range(own[p.actor]) /\ StarterForgets(s, p, <<>>)
        \/ Listens(p.actor) /\ p.address \notin Range(own[p.actor]) /\ LifetimeForgets(s, p)
        \/ /\ ~Listens(p.actor)
           /\ Post(s, <<>>) /\ UNCHANGED <<own, points, leaving, parting, failed>>
    BY <1>1 DEF OnUnsubscription
  <1>9. CASE Listens(p.actor) /\ p.address \in Range(own[p.actor]) /\ StarterForgets(s, p, <<>>)
    <2>1. <<>> = IF kind = "unsubscription_external" THEN Commits(p) ELSE <<>>
      OBVIOUS
    <2>2. QED
      BY <1>1, <1>3, <1>5, <1>7, <1>9, <2>1, StarterInv
  <1>10. CASE Listens(p.actor) /\ p.address \notin Range(own[p.actor]) /\ LifetimeForgets(s, p)
    BY <1>1, <1>3, <1>5, <1>10, LifetimeInv
  <1>11. CASE /\ ~Listens(p.actor)
              /\ Post(s, <<>>) /\ UNCHANGED <<own, points, leaving, parting, failed>>
    BY <1>1, <1>3, <1>7, <1>11, UnheardInv
  <1>12. QED
    BY <1>8, <1>9, <1>10, <1>11

LEMMA OnUnsubscriptionExternalInv ==
    ASSUME Inv, TypeOK', NEW s \in Supervisors, OnUnsubscriptionExternal(s)
    PROVE  Inv'
  <1>1. PICK h, p : h = Head(queue[s]) /\ p = Head(queue[s]).point
    OBVIOUS
  <1>2. TypeOK /\ Mails
    BY DEF Inv
  <1>3. /\ Next1(s, "unsubscription_external")
        /\ UNCHANGED <<state, tracked, foreign, supState, inbox>>
    BY DEF OnUnsubscriptionExternal
  <1>4. h.kind = "unsubscription_external" /\ h \in Messages /\ Says(h)
    BY <1>1, <1>2, <1>3, HeadSays DEF Next1
  <1>5. p \in Points /\ p.address \in Range(own[p.actor])
    BY <1>1, <1>4, MsgType DEF Says
  <1>6. StarterForgets(s, p, Commits(p))
    BY <1>1, <1>5 DEF OnUnsubscriptionExternal
  <1>7. PICK kind \in Leavings : kind = "unsubscription_external"
    BY DEF Leavings
  <1>8. QED
    BY <1>1, <1>3, <1>5, <1>6, <1>7, StarterInv

---------------------------------------------------------------------------
\* The invariant

LEMMA InitInv == Init => Inv
  <1> SUFFICES ASSUME Init PROVE Inv
    OBVIOUS
  <1>1. TypeOK
    BY InitType
  <1>2. Range(<<>>) = {} /\ Len(<<>>) = 0 /\ IsInjective(<<>>)
    BY NoElements DEF IsInjective
  <1>3. /\ \A a \in Actors : state[a] = "NEW" /\ own[a] = <<>> /\ points[a] = {}
        /\ \A s \in Supervisors : foreign[s] = {} /\ queue[s] = <<>> /\ inbox[s] = <<>>
        /\ leaving = {} /\ parting = {} /\ failed = {}
    BY DEF Init
  <1>4. \A b \in Boxes : Box(b) = <<>>
    BY <1>1, <1>3, BoxTypes
  <1>5. Places
    BY <1>2, <1>3 DEF Places, ActorOK, KnownOK, Ready, Ended
  <1>6. ForeignOK
    BY <1>3 DEF ForeignOK
  <1>7. Driven
    BY <1>2, <1>3 DEF Driven, DrivenOK, Anonymous
  <1>8. OneEach(<<>>) /\ \A s : Early(s, <<>>)
    BY <1>2 DEF OneEach, Early
  <1>9. Unique
    BY <1>2, <1>4, <1>8 DEF Unique
  <1>10. Said
    BY <1>2, <1>4 DEF Said
  <1>11. Mails
    BY <1>3, <1>8, <1>9, <1>10 DEF Mails
  <1>12. QED
    BY <1>1, <1>3, <1>5, <1>6, <1>7, <1>11 DEF Inv

LEMMA NothingChanges == Inv /\ UNCHANGED vars => Inv'
  <1> SUFFICES ASSUME Inv, UNCHANGED vars PROVE Inv'
    OBVIOUS
  <1>1. UNCHANGED spoken /\ UNCHANGED <<queue, inbox, failed>> /\ TypeOK'
    BY TypeNext DEF Inv, vars, spoken, actorVars, ownerVars
  <1>2. Driven'
    BY <1>1 DEF Inv, spoken, Driven, DrivenOK, Listens, Anonymous
  <1>3. \A b : Box(b)' = Box(b)
    BY <1>1 DEF Box
  <1>4. Mails'
    BY <1>1, <1>3, Frame DEF Inv, Mails, Unique, Said
  <1>5. QED
    BY <1>1, <1>2, <1>4, Frame DEF Inv

LEMMA InvNext ==
    ASSUME LocalLater, TaggedAtHome, Inv, [Next]_vars
    PROVE  Inv'
  <1>1. TypeOK'
    BY TypeNext DEF Inv
  <1>2. CASE UNCHANGED vars
    BY <1>2, NothingChanges
  <1>3. ASSUME NEW s \in Supervisors, Process(s) PROVE Inv'
    BY <1>1, <1>3, LoadInv, CheckInv, ForwardInv, DeliverInv, OnCallInv, OnSubscriptionInv,
       OnShutdownInv, OnFarewellInv, OnUnsubscriptionInv, OnUnsubscriptionExternalInv,
       OnExternalSubscriptionInv, OnCommitUnsubscriptionInv, OnSupFarewellInv DEF Process
  <1>4. ASSUME NEW a \in Actors, Act(a) PROVE Inv'
    BY <1>1, <1>4, ConfigureInv, AskToLeaveInv, SubscribeLaterInv, UnsubscribeLaterInv,
       PublishInv DEF Act
  <1>5. QED
    BY <1>1, <1>2, <1>3, <1>4, ShutdownSupervisorInv DEF Next

LEMMA Invariance ==
    ASSUME LocalLater, TaggedAtHome
    PROVE  Spec => []Inv
  <1>1. Init => Inv
    BY InitInv
  <1>2. Inv /\ [Next]_vars => Inv'
    BY InvNext
  <1>3. QED
    BY <1>1, <1>2, PTL DEF Spec

\* No plugin is asked for a subscription it has not got and no side looks for
\* a point it does not know (the assertions and iterators of plugin_base.cpp,
\* lifetime.cpp and foreigners_support.cpp), whichever of an actor, the owner
\* of an address and their shutdowns comes first, if what an actor subscribes
\* to at run time is of its own supervisor, and what it subscribes to at all
\* where its thread runs handlers marked tag_io().  Another supervisor's
\* address makes the assertion of plugin_base.cpp:86 fail in both cases: in
\* the second check() puts an eviction behind the shutdown of the actor.
THEOREM NothingFails ==
    ASSUME LocalLater, TaggedAtHome
    PROVE  Spec => []NoAssertionFails
  <1>1. Inv => NoAssertionFails
    BY DEF Inv, NoAssertionFails
  <1>2. QED
    BY <1>1, Invariance, PTL

\* A handler that its actor has been told is subscribed to an address of
\* another supervisor is in that supervisor's foreign_points until the actor
\* itself has given it up, whichever side shuts down: the owner's shutdown
\* waits for it (foreigners_support_plugin_t::deactivate()).
OwnerKnows ==
    \A a \in Actors : \A x \in Range(own[a]) :
        Owner[x] # Home[a] /\ (state[a] = "INITIALIZING" => x \notin tracked[a]) =>
            Point(a, x) \in foreign[Owner[x]]

THEOREM OwnersKnow ==
    ASSUME LocalLater, TaggedAtHome
    PROVE  Spec => []OwnerKnows
  <1>1. Inv => OwnerKnows
    BY DEF Inv, Places, KnownOK, OwnerKnows
  <1>2. QED
    BY <1>1, Invariance, PTL
=============================================================================

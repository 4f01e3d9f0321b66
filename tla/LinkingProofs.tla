----------------------------- MODULE LinkingProofs -----------------------------
(***************************************************************************)
(* Proofs about Linking for any actors, localities, links, timeouts and    *)
(* habits of user code: its type invariant, that operational_only is kept, *)
(* and that it implements Links; and that no assertion fails, for those    *)
(* habits with which none does.                                            *)
(***************************************************************************)
EXTENDS Linking, FiniteSetTheorems, TLAPS

InFlight == UNION {Range(queue[l]) : l \in Localities}

\* The links a server keeps a record of.
Serving == pending \cup active \cup unlinking

Started(a) == state[a] \notin {"INITIALIZING", "INITIALIZED"}

\* Who has given up its subscriptions, or is about to, has let go of all.
Ended(a) ==
    /\ state[a] \in {"SHUTTING_DOWN", "SHUT_DOWN"}
    /\ Clients(a) = {}
    /\ Servers(a) = {}

LinkKinds == {"link_request", "link_reply", "link_response", "unlink_request",
              "unlink_reply", "unlink_response", "unlink_notify"}

\* A client that sends one of these has erased its record of the link.
LetsGo(m) ==
    \/ m.kind \in {"unlink_reply", "unlink_notify"}
    \/ m.kind = "unlink_response" /\ m.ok

Granted(m) == m.kind \in {"link_reply", "link_response"} /\ m.ok

\* What a message says is true all the time it is under way.
Says(m) ==
    /\ m.kind \in LinkKinds => m.link \in Wants
    /\ Granted(m) => /\ m.link \in linking => m.link \in Serving
                     /\ m.link \in Strict => Started(m.link[2])
    /\ LetsGo(m) => m.link \notin linking \cup linked
    /\ m.kind = "unsubscription" => Ended(m.link[1])

\* An actor is asked to initialize once, in its own locality.
InitsAtHome ==
    \A l \in Localities : \A m \in Range(queue[l]) :
        m.kind = "init_request" => Home[m.link[1]] = l
OneInit(q) ==
    \A i, j \in 1 .. Len(q) :
        /\ q[i].kind = "init_request" /\ q[j].kind = "init_request"
        /\ q[i].link[1] = q[j].link[1]
        => i = j
InitOnce == InitsAtHome /\ \A l \in Localities : OneInit(queue[l])

\* Nothing is known of a link before its client asks for it.
Untouched(x) == \E m \in InFlight : m.kind = "init_request" /\ m.link[1] = x[1]
Touched ==
    linking \cup linked \cup Serving \cup link_timers \cup unlink_timers
        \cup {m.link : m \in {n \in InFlight : n.kind \in LinkKinds}}

LifeOf(a) ==
    /\ state[a] = "SHUT_DOWN" => a \in deaf /\ Ended(a)
    /\ a \in holding => state[a] \in {"SHUTTING_DOWN", "SHUT_DOWN"}

Inv ==
    /\ TypeOK
    /\ InitOnce
    /\ \A m \in InFlight : Says(m)
    /\ linked \subseteq Serving
    /\ OperationalOnlyIsKept
    /\ \A a \in Actors : LifeOf(a)
    /\ \A x \in Wants : Untouched(x) => x \notin Touched

---------------------------------------------------------------------------
\* r is q, perhaps without its first message, with messages of S behind it.
Extends(q, r, S) ==
    /\ r \in Seq(Message)
    /\ Range(r) \subseteq Range(q) \cup S
    /\ OneInit(q) /\ (\A m \in S : m.kind # "init_request") => OneInit(r)

LEMMA MsgType ==
    ASSUME NEW kind \in ToClient \cup ToServer \cup ToClientsSup \cup ToServersSup,
           NEW x \in Actors \X Actors
    PROVE  /\ Msg(kind, x) \in Message /\ Failed(kind, x) \in Message
           /\ Msg(kind, x).kind = kind /\ Msg(kind, x).link = x /\ Msg(kind, x).ok
           /\ Failed(kind, x).kind = kind /\ Failed(kind, x).link = x /\ ~Failed(kind, x).ok
  BY DEF Msg, Failed, Message

LEMMA AboutType ==
    ASSUME NEW kind \in ToClient \cup ToServer \cup ToClientsSup \cup ToServersSup,
           NEW a \in Actors
    PROVE  /\ About(kind, a) \in Message
           /\ About(kind, a).kind = kind
           /\ About(kind, a).link[1] = a
  <1>1. <<a, a>> \in Actors \X Actors /\ <<a, a>>[1] = a
    OBVIOUS
  <1>2. QED
    BY <1>1, MsgType DEF About

LEMMA Few ==
    /\ <<>> \in Seq(Message) /\ Range(<<>>) = {}
    /\ \A m \in Message : <<m>> \in Seq(Message) /\ Range(<<m>>) = {m}
    /\ \A q \in Seq(Message), m \in Message : Append(q, m) = q \o <<m>>
  <1>1. <<>> \in Seq(Message) /\ Range(<<>>) = {}
    BY DEF Range
  <1>2. ASSUME NEW m \in Message PROVE <<m>> \in Seq(Message) /\ Range(<<m>>) = {m}
    <2>1. <<m>> \in Seq(Message) /\ DOMAIN <<m>> = {1} /\ <<m>>[1] = m
      OBVIOUS
    <2>2. QED
      BY <2>1 DEF Range
  <1>3. \A q \in Seq(Message), m \in Message : Append(q, m) = q \o <<m>>
    OBVIOUS
  <1>4. QED
    BY <1>1, <1>2, <1>3

\* Taking the first message off a queue.
LEMMA Taken ==
    ASSUME NEW q \in Seq(Message), q # <<>>
    PROVE  /\ Head(q) \in Message
           /\ Head(q) \in Range(q)
           /\ Tail(q) \in Seq(Message)
           /\ Extends(q, Tail(q), {})
           /\ OneInit(q) /\ Head(q).kind = "init_request" =>
                \A m \in Range(Tail(q)) :
                    m.kind = "init_request" => m.link[1] # Head(q).link[1]
  <1> DEFINE r == Tail(q)
             h == Head(q)
  <1>1. /\ r \in Seq(Message)
        /\ h \in Message
        /\ Len(q) \in Nat /\ Len(q) > 0
        /\ Len(r) = Len(q) - 1
        /\ h = q[1]
        /\ \A i \in 1 .. Len(r) : r[i] = q[i + 1]
        /\ DOMAIN q = 1 .. Len(q)
        /\ DOMAIN r = 1 .. Len(r)
    OBVIOUS
  <1> HIDE DEF r, h
  <1>2. h \in Range(q)
    BY <1>1 DEF Range
  <1>3. \A i \in 1 .. Len(r) : i + 1 \in 1 .. Len(q) /\ i + 1 # 1
    BY <1>1
  <1>4. Range(r) \subseteq Range(q)
    BY <1>1, <1>3 DEF Range
  <1>5. OneInit(q) => OneInit(r)
    <2> SUFFICES ASSUME OneInit(q), NEW i \in 1 .. Len(r), NEW j \in 1 .. Len(r),
                        r[i].kind = "init_request", r[j].kind = "init_request",
                        r[i].link[1] = r[j].link[1]
                 PROVE  i = j
      BY DEF OneInit
    <2>1. i + 1 = j + 1
      BY <1>1, <1>3 DEF OneInit
    <2>2. QED
      BY <2>1, <1>1
  <1>6. ASSUME OneInit(q), h.kind = "init_request",
               NEW m \in Range(r), m.kind = "init_request"
        PROVE  m.link[1] # h.link[1]
    <2>1. PICK i \in 1 .. Len(r) : m = q[i + 1]
      BY <1>1 DEF Range
    <2>2. i + 1 \in 1 .. Len(q) /\ 1 \in 1 .. Len(q) /\ i + 1 # 1
      BY <1>1, <1>3
    <2>3. QED
      BY <1>1, <1>6, <2>1, <2>2 DEF OneInit
  <1>7. QED
    BY <1>1, <1>2, <1>4, <1>5, <1>6 DEF r, h, Extends

LEMMA Joined ==
    ASSUME NEW q \in Seq(Message), NEW s \in Seq(Message)
    PROVE  Extends(q, q \o s, Range(s))
  <1> DEFINE r == q \o s
  <1>1. /\ r \in Seq(Message)
        /\ Len(q) \in Nat /\ Len(s) \in Nat
        /\ Len(r) = Len(q) + Len(s)
        /\ \A i \in 1 .. Len(q) : r[i] = q[i]
        /\ \A i \in 1 .. Len(s) : r[Len(q) + i] = s[i]
        /\ DOMAIN q = 1 .. Len(q)
        /\ DOMAIN s = 1 .. Len(s)
        /\ DOMAIN r = 1 .. Len(r)
    OBVIOUS
  <1> HIDE DEF r
  <1>2. ASSUME NEW i \in 1 .. Len(r)
        PROVE  \/ i \in 1 .. Len(q) /\ r[i] = q[i]
               \/ r[i] \in Range(s)
    <2>1. CASE i \in 1 .. Len(q)
      BY <1>1, <2>1
    <2>2. CASE i \notin 1 .. Len(q)
      <3>1. i - Len(q) \in 1 .. Len(s) /\ Len(q) + (i - Len(q)) = i
        BY <1>1, <2>2
      <3>2. r[i] = s[i - Len(q)]
        BY <1>1, <3>1
      <3>3. QED
        BY <1>1, <3>1, <3>2 DEF Range
    <2>3. QED
      BY <2>1, <2>2
  <1>3. Range(r) \subseteq Range(q) \cup Range(s)
    BY <1>1, <1>2 DEF Range
  <1>4. ASSUME OneInit(q), \A m \in Range(s) : m.kind # "init_request"
        PROVE  OneInit(r)
    <2> SUFFICES ASSUME NEW i \in 1 .. Len(r), NEW j \in 1 .. Len(r),
                        r[i].kind = "init_request", r[j].kind = "init_request",
                        r[i].link[1] = r[j].link[1]
                 PROVE  i = j
      BY DEF OneInit
    <2>1. /\ i \in 1 .. Len(q) /\ r[i] = q[i]
          /\ j \in 1 .. Len(q) /\ r[j] = q[j]
      BY <1>2, <1>4
    <2>2. QED
      BY <1>4, <2>1 DEF OneInit
  <1>5. QED
    BY <1>1, <1>3, <1>4 DEF Extends, r

LEMMA Chained ==
    ASSUME NEW q, NEW r, NEW S, Extends(q, r, S), NEW s \in Seq(Message)
    PROVE  Extends(q, r \o s, S \cup Range(s))
  <1>1. Extends(r, r \o s, Range(s))
    BY Joined DEF Extends
  <1>2. QED
    BY <1>1 DEF Extends

\* The messages of a loop over links.
LEMMA EachSent ==
    ASSUME NEW kind \in ToClient \cup ToServer \cup ToClientsSup \cup ToServersSup,
           NEW S \in SUBSET (Actors \X Actors), NEW s \in ForEach(kind, S)
    PROVE  /\ s \in Seq(Message)
           /\ \A m \in Range(s) : m.kind = kind /\ m.link \in S /\ m.ok
           /\ \A i, j \in 1 .. Len(s) : s[i].link = s[j].link => i = j
  <1> DEFINE T == {Msg(kind, x) : x \in S}
             f == [x \in S |-> Msg(kind, x)]
  <1>1. IsFiniteSet(S)
    BY LinksAssumption, FS_Product, FS_Subset
  <1>2. f \in Surjection(S, T)
    BY DEF Surjection
  <1>3. IsFiniteSet(T)
    BY <1>1, <1>2, FS_Surjection
  <1>4. Cardinality(T) \in Nat
    BY <1>3, FS_CardinalityType
  <1>5. \A m \in T : m \in Message /\ m.kind = kind /\ m.link \in S /\ m.ok
    BY MsgType
  <1>6. \A m, n \in T : m.link = n.link => m = n
    BY MsgType
  <1> HIDE DEF T
  <1>7. /\ s \in [1 .. Cardinality(T) -> T]
        /\ \A i, j \in 1 .. Cardinality(T) : i # j => s[i] # s[j]
    BY DEF ForEach, SetToSeqs, T
  <1>8. s \in Seq(Message) /\ Len(s) = Cardinality(T) /\ DOMAIN s = 1 .. Len(s)
    BY <1>4, <1>5, <1>7
  <1>9. \A m \in Range(s) : m \in T
    BY <1>7 DEF Range
  <1>10. \A i, j \in 1 .. Len(s) : s[i].link = s[j].link => i = j
    BY <1>6, <1>7, <1>8
  <1>11. QED
    BY <1>5, <1>8, <1>9, <1>10

---------------------------------------------------------------------------
\* What is under way is in one of the queues.
LEMMA Flying ==
    ASSUME TypeOK, NEW l \in Localities, NEW m \in Range(queue[l])
    PROVE  /\ m \in InFlight
           /\ m \in Message
           /\ m.link \in Actors \X Actors /\ m.link[1] \in Actors /\ m.link[2] \in Actors
  <1>1. queue[l] \in Seq(Message)
    BY DEF TypeOK
  <1>2. m \in Message
    BY <1>1 DEF Range
  <1>3. QED
    BY <1>2 DEF InFlight, Message

\* One queue changes, and what is new in it is of S.
LEMMA Grown ==
    ASSUME Inv, NEW h \in Localities, NEW r, NEW S,
           queue' = [queue EXCEPT ![h] = r],
           Extends(queue[h], r, S), \A m \in S : m.kind # "init_request"
    PROVE  /\ queue' \in [Localities -> Seq(Message)]
           /\ InitOnce'
           /\ InFlight' \subseteq InFlight \cup S
  <1>1. queue \in [Localities -> Seq(Message)]
    BY DEF Inv, TypeOK
  <1>2. queue' \in [Localities -> Seq(Message)]
    BY <1>1 DEF Extends
  <1>3. /\ queue'[h] = r
        /\ \A l \in Localities \ {h} : queue'[l] = queue[l]
    BY <1>1
  <1>4. \A l \in Localities : Range(queue'[l]) \subseteq Range(queue[l]) \cup S
    BY <1>3 DEF Extends
  <1>5. InFlight' \subseteq InFlight \cup S
    BY <1>4 DEF InFlight
  <1>6. InitsAtHome'
    BY <1>4 DEF Inv, InitOnce, InitsAtHome
  <1>7. \A l \in Localities : OneInit(queue'[l])
    BY <1>3 DEF Inv, InitOnce, Extends
  <1>8. QED
    BY <1>2, <1>5, <1>6, <1>7 DEF InitOnce

\* Messages s are sent behind q, the queue of h with or without its first.
LEMMA Posted ==
    ASSUME Inv, NEW h \in Localities, NEW q, Extends(queue[h], q, {}),
           NEW s \in Seq(Message), \A m \in Range(s) : m.kind # "init_request",
           queue' = [queue EXCEPT ![h] = q \o s]
    PROVE  /\ queue' \in [Localities -> Seq(Message)]
           /\ InitOnce'
           /\ InFlight' \subseteq InFlight \cup Range(s)
  <1>1. q \in Seq(Message)
    BY DEF Extends
  <1>2. Extends(q, q \o s, Range(s))
    BY <1>1, Joined
  <1>3. Extends(queue[h], q \o s, Range(s))
    BY <1>2 DEF Extends
  <1>4. QED
    BY <1>3, Grown

\* Locality l comes to a message.
LEMMA Arrives ==
    ASSUME Inv, NEW l \in Localities, queue[l] # <<>>
    PROVE  /\ Head(queue[l]) \in InFlight
           /\ Head(queue[l]) \in Message
           /\ Head(queue[l]).link \in Actors \X Actors
           /\ Head(queue[l]).link[1] \in Actors /\ Head(queue[l]).link[2] \in Actors
           /\ Says(Head(queue[l]))
           /\ Extends(queue[l], Tail(queue[l]), {})
           /\ Extends(queue[l], queue[l], {})
  <1>1. queue[l] \in Seq(Message)
    BY DEF Inv, TypeOK
  <1>2. /\ Head(queue[l]) \in Range(queue[l])
        /\ Extends(queue[l], Tail(queue[l]), {})
    BY <1>1, Taken
  <1>3. Head(queue[l]) \in InFlight
    BY <1>2 DEF InFlight
  <1>4. /\ Head(queue[l]) \in Message
        /\ Head(queue[l]).link \in Actors \X Actors
        /\ Head(queue[l]).link[1] \in Actors /\ Head(queue[l]).link[2] \in Actors
    BY <1>2, Flying DEF Inv
  <1>5. Says(Head(queue[l]))
    BY <1>3 DEF Inv
  <1>6. Extends(queue[l], queue[l], {})
    BY <1>1 DEF Extends
  <1>7. QED
    BY <1>2, <1>3, <1>4, <1>5, <1>6

LEMMA SameQueue ==
    ASSUME Inv, NEW h \in Localities
    PROVE  Extends(queue[h], queue[h], {})
  BY DEF Inv, TypeOK, Extends

\* An actor's end is final as long as no link is made.
LEMMA EndedKept ==
    ASSUME NEW a \in Actors, Ended(a),
           \A x \in Serving' : x \in Serving \/ x[2] # a,
           \A x \in linking' \cup linked' : x \in linking \cup linked \/ x[1] # a,
           state'[a] = state[a] \/ state'[a] \in {"SHUTTING_DOWN", "SHUT_DOWN"}
    PROVE  Ended(a)'
  BY DEF Ended, Clients, Servers, Serving

\* A step that asks for no link, and makes none that the messages under way
\* do not speak of, keeps the invariant if what it sends is true.
LEMMA Keeps ==
    ASSUME Inv, TypeOK', InitOnce', NEW S, InFlight' \subseteq InFlight \cup S,
           \A m \in S : m.kind # "init_request",
           \A m \in S : Says(m)',
           \A m \in S : m.kind \in LinkKinds => m.link \in Touched,
           linking' \subseteq linking,
           linking' \cup linked' \subseteq linking \cup linked,
           Serving \cap (linking' \cup linked') \subseteq Serving',
           Serving' \cup link_timers' \cup unlink_timers' \subseteq Touched,
           \A a \in Actors : Started(a) => Started(a)',
           \A a \in Actors : Ended(a) => Ended(a)',
           linked' \subseteq Serving',
           OperationalOnlyIsKept',
           \A a \in Actors : LifeOf(a)'
    PROVE  Inv'
  <1>1. ASSUME NEW m \in InFlight PROVE Says(m)'
    <2>1. Says(m) /\ m.link[1] \in Actors /\ m.link[2] \in Actors
      BY Flying DEF Inv, InFlight
    <2>2. QED
      BY <2>1 DEF Says
  <1>2. \A m \in InFlight' : Says(m)'
    BY <1>1
  <1>3. Touched' \subseteq Touched
    <2>1. \A m \in InFlight : m.kind \in LinkKinds => m.link \in Touched
      BY DEF Touched
    <2>2. linking \cup linked \subseteq Touched
      BY DEF Touched
    <2>3. QED
      BY <2>1, <2>2 DEF Touched
  <1>4. \A x \in Wants : Untouched(x)' => Untouched(x)
    BY DEF Untouched
  <1>5. QED
    BY <1>2, <1>3, <1>4 DEF Inv

---------------------------------------------------------------------------
\* A shutdown goes on: who is let go of hears of it, and who stays does not.
LEMMA Continued ==
    ASSUME Inv, NEW a \in Actors, NEW erased \in SUBSET Wants, NEW busy, NEW q, NEW T,
           Extends(queue[Home[a]], q, T),
           \A m \in T : /\ m.kind = "unlink_reply"
                        /\ m.link \in erased \cap Servers(a),
           ShutdownContinue(a, erased, busy, q),
           \A x \in erased : x[2] = a => x \notin linking \cup linked,
           state' \in [Actors -> States],
           \A b \in Actors \ {a} : state'[b] = state[b],
           state'[a] = state[a] \/ (state'[a] = "SHUTTING_DOWN" /\ state[a] # "SHUT_DOWN"),
           state'[a] \in {"SHUTTING_DOWN", "SHUT_DOWN"},
           init_request' \subseteq Actors, asked' \subseteq Actors, deaf' = deaf,
           holding' \subseteq Holders, holding' \subseteq holding \cup {a},
           unlink_queue' \subseteq Wants, held' \subseteq Wants
    PROVE  Inv'
  <1> DEFINE h == Home[a]
             cs == Clients(a) \ erased
             ss == Servers(a) \ erased
             released == IF cs = {} /\ ~busy THEN ss ELSE {}
             put_off == released \cap unlink_queue
             ask == IF ss = {} /\ ~busy THEN active \cap cs ELSE {}
             last == IF cs = {} /\ ~busy THEN <<About("unsubscription", a)>> ELSE <<>>
             mine == {x \in erased : x[2] = a}
             gone == {x \in erased \cup released : x[1] = a}
  <1>1. h \in Localities
    BY LinksAssumption
  <1>2. TypeOK
    BY DEF Inv
  <1>3. PICK rs \in ForEach("unlink_reply", put_off),
             ns \in ForEach("unlink_notify", released \ put_off),
             us \in ForEach("unlink_request", ask) :
                queue' = [queue EXCEPT ![h] = q \o rs \o ns \o us \o last]
    BY DEF ShutdownContinue
  <1>4. /\ linking' = linking \ gone
        /\ linked' = linked \ gone
        /\ link_timers' = link_timers \ ((linking \cap released) \ put_off)
        /\ pending' = pending \ mine
        /\ active' = active \ (mine \cup ask)
        /\ unlinking' = (unlinking \ mine) \cup ask
        /\ unlink_timers' = (unlink_timers \ mine) \cup ask
        /\ fault' \in {fault, "discard_request"}
    BY DEF ShutdownContinue
  <1>5. /\ Wants \subseteq Actors \X Actors
        /\ \A x \in Wants : x[1] \in Actors /\ x[2] \in Actors /\ x[1] # x[2]
    BY LinksAssumption
  <1>6. /\ released \subseteq Servers(a) /\ Servers(a) \subseteq linking \cup linked
        /\ Servers(a) \subseteq Wants /\ \A x \in Servers(a) : x[1] = a
        /\ ask \subseteq active /\ active \subseteq Wants /\ \A x \in ask : x[2] = a
        /\ put_off \subseteq released
        /\ released \cup ask \subseteq Actors \X Actors
    BY <1>2, <1>5 DEF Servers, Clients, TypeOK
  <1> DEFINE U == {About("unsubscription", a)}
             S == T \cup Range(rs) \cup Range(ns) \cup Range(us) \cup Range(last)
  <1>7. /\ rs \in Seq(Message)
        /\ \A m \in Range(rs) : m.kind = "unlink_reply" /\ m.link \in released
    BY <1>6, EachSent DEF ToServersSup
  <1>8. /\ ns \in Seq(Message)
        /\ \A m \in Range(ns) : m.kind = "unlink_notify" /\ m.link \in released
    BY <1>6, EachSent DEF ToServer
  <1>9. /\ us \in Seq(Message)
        /\ \A m \in Range(us) : m.kind = "unlink_request" /\ m.link \in ask
    BY <1>6, EachSent DEF ToClient
  <1>10. /\ last \in Seq(Message)
         /\ \A m \in Range(last) : /\ m.kind = "unsubscription" /\ m.link[1] = a
                                   /\ cs = {} /\ ~busy
    BY AboutType, Few DEF ToClient
  <1> HIDE DEF last, S
  <1>11. Extends(queue[h], q \o rs \o ns \o us \o last, S)
    BY <1>7, <1>8, <1>9, <1>10, Chained DEF S
  <1>12. \A m \in S : \/ /\ m.kind = "unlink_reply" \/ m.kind = "unlink_notify"
                         /\ m.link \in (erased \cup released) \cap Servers(a)
                      \/ m.kind = "unlink_request" /\ m.link \in ask
                      \/ m.kind = "unsubscription" /\ m.link[1] = a /\ cs = {} /\ ~busy
    BY <1>6, <1>7, <1>8, <1>9, <1>10 DEF S
  <1>13. \A m \in S : m.kind # "init_request"
    BY <1>12
  <1>14. /\ queue' \in [Localities -> Seq(Message)]
         /\ InitOnce'
         /\ InFlight' \subseteq InFlight \cup S
    BY <1>1, <1>3, <1>11, <1>13, Grown
  <1>15. Serving' = Serving \ mine
    <2>1. ask \subseteq Serving /\ ask \cap mine = {}
      BY DEF Serving
    <2>2. QED
      BY <1>4, <2>1 DEF Serving
  <1>16. /\ linking' \subseteq linking /\ linked' \subseteq linked
         /\ Serving' \subseteq Serving
    BY <1>4, <1>15
  <1>17. Serving \cap (linking' \cup linked') \subseteq Serving'
    BY <1>15, <1>16
  <1>18. \A m \in S : m.kind \in LinkKinds => m.link \in Touched /\ m.link \in Wants
    BY <1>6, <1>12 DEF Touched, LinkKinds, Serving
  <1>19. \A x \in (erased \cup released) \cap Servers(a) : x \notin linking' \cup linked'
    BY <1>4, <1>6
  <1>20. cs = {} /\ ~busy => Ended(a)'
    <2> SUFFICES ASSUME cs = {}, ~busy PROVE Ended(a)'
      OBVIOUS
    <2>1. \A x \in Clients(a)' : x \in Clients(a) /\ x \notin erased
      BY <1>15, <1>16 DEF Clients, Serving
    <2>2. \A x \in Servers(a)' : x \in Servers(a) /\ x \notin erased \cup released
      BY <1>4 DEF Servers
    <2>3. QED
      BY <2>1, <2>2 DEF Ended
  <1>21. \A m \in S : Says(m)'
    BY <1>12, <1>18, <1>19, <1>20 DEF Says, LetsGo, Granted
  <1>22. TypeOK'
    BY <1>2, <1>4, <1>6, <1>14, <1>16 DEF TypeOK, Faults
  <1>23. \A b \in Actors : /\ Started(b) => Started(b)'
                           /\ Ended(b) => Ended(b)'
    <2>1. \A b \in Actors : Started(b) => Started(b)'
      BY DEF Started
    <2>2. ASSUME NEW b \in Actors, Ended(b) PROVE Ended(b)'
      BY <1>16, <2>2, EndedKept
    <2>3. QED
      BY <2>1, <2>2
  <1>24. linked' \subseteq Serving'
    BY <1>16, <1>17 DEF Inv
  <1>25. OperationalOnlyIsKept'
    <2>1. \A x \in linked' \cap Strict : Started(x[2]) /\ x[2] \in Actors
      BY <1>5, <1>16, LinksAssumption DEF Inv, OperationalOnlyIsKept, Started
    <2>2. QED
      BY <1>23, <2>1 DEF OperationalOnlyIsKept, Started
  <1>26. \A b \in Actors : LifeOf(b)'
    <2> SUFFICES ASSUME NEW b \in Actors PROVE LifeOf(b)'
      OBVIOUS
    <2>1. LifeOf(b)
      BY DEF Inv
    <2>2. CASE b = a
      BY <1>23, <2>1, <2>2 DEF LifeOf
    <2>3. CASE b # a
      BY <1>23, <2>1, <2>3 DEF LifeOf
    <2>4. QED
      BY <2>2, <2>3
  <1>27. Serving' \cup link_timers' \cup unlink_timers' \subseteq Touched
    BY <1>4, <1>6, <1>16 DEF Touched, Serving
  <1>28. QED
    BY <1>13, <1>14, <1>16, <1>17, <1>18, <1>21, <1>22, <1>23, <1>24, <1>25, <1>26, <1>27, Keeps

---------------------------------------------------------------------------
LEMMA AtFirst ==
    ASSUME Init, NEW l \in Localities
    PROVE  \E A \in SUBSET Actors : queue[l] \in ForEach("init_request", {<<a, a>> : a \in A})
  <1> DEFINE Some == {ForEach("init_request", {<<a, a>> : a \in B}) : B \in SUBSET Actors}
  <1>1. queue \in [Localities -> UNION Some]
    BY DEF Init
  <1>2. PICK T \in Some : queue[l] \in T
    BY <1>1
  <1>3. QED
    BY <1>2

LEMMA InitInv == Init => Inv
  <1> SUFFICES ASSUME Init PROVE Inv
    OBVIOUS
  <1>1. ASSUME NEW l \in Localities
        PROVE  /\ queue[l] \in Seq(Message)
               /\ OneInit(queue[l])
               /\ \A m \in Range(queue[l]) : /\ m.kind = "init_request"
                                             /\ Home[m.link[1]] = l
    <2>1. PICK A \in SUBSET Actors : queue[l] \in ForEach("init_request", {<<a, a>> : a \in A})
      BY AtFirst
    <2>2. {<<a, a>> : a \in A} \in SUBSET (Actors \X Actors)
      OBVIOUS
    <2>3. /\ queue[l] \in Seq(Message)
          /\ \A m \in Range(queue[l]) : /\ m.kind = "init_request"
                                        /\ m.link \in {<<a, a>> : a \in A}
          /\ \A i, j \in 1 .. Len(queue[l]) : queue[l][i].link = queue[l][j].link => i = j
      BY <2>1, <2>2, EachSent DEF ToClient
    <2>4. DOMAIN queue[l] = 1 .. Len(queue[l])
      BY <2>3
    <2>5. \A i \in 1 .. Len(queue[l]) : \E a \in A : queue[l][i].link = <<a, a>>
      BY <2>3, <2>4 DEF Range
    <2>6. OneInit(queue[l])
      <3> SUFFICES ASSUME NEW i \in 1 .. Len(queue[l]), NEW j \in 1 .. Len(queue[l]),
                          queue[l][i].link[1] = queue[l][j].link[1]
                   PROVE  i = j
        BY DEF OneInit
      <3>1. PICK a \in A : queue[l][i].link = <<a, a>>
        BY <2>5
      <3>2. PICK b \in A : queue[l][j].link = <<b, b>>
        BY <2>5
      <3>3. a = b
        BY <3>1, <3>2
      <3>4. QED
        BY <2>3, <3>1, <3>2, <3>3
    <2>7. ASSUME NEW m \in Range(queue[l]) PROVE Home[m.link[1]] = l
      <3>1. PICK i \in 1 .. Len(queue[l]) : m = queue[l][i]
        BY <2>4 DEF Range
      <3>2. m.link[1] \in {b \in Actors : Home[b] = l}
        BY <3>1 DEF Init
      <3>3. QED
        BY <3>2
    <2>8. QED
      BY <2>3, <2>6, <2>7
  <1>2. TypeOK
    <2>1. queue \in [Localities -> Seq(Message)]
      <3>1. queue = [l \in Localities |-> queue[l]]
        BY DEF Init
      <3>2. QED
        BY <1>1, <3>1
    <2>2. QED
      BY <2>1 DEF Init, TypeOK, States, Faults
  <1>3. InitOnce
    BY <1>1 DEF InitOnce, InitsAtHome
  <1>4. \A m \in InFlight : m.kind = "init_request"
    BY <1>1 DEF InFlight
  <1>5. \A m \in InFlight : Says(m)
    BY <1>4 DEF Says, LinkKinds, Granted, LetsGo
  <1>6. Touched = {}
    BY <1>4 DEF Init, Touched, Serving, LinkKinds
  <1>7. /\ linked \subseteq Serving
        /\ OperationalOnlyIsKept
        /\ \A a \in Actors : LifeOf(a)
    BY DEF Init, OperationalOnlyIsKept, LifeOf
  <1>8. QED
    BY <1>2, <1>3, <1>5, <1>6, <1>7 DEF Inv

\* A message that may be sent where nothing else changes.
Harmless(m) ==
    /\ m.kind \notin {"init_request", "unsubscription"}
    /\ m.kind \in LinkKinds => m.link \in Touched \cap Wants
    /\ Granted(m) => /\ m.link \in linking => m.link \in Serving
                     /\ m.link \in Strict => Started(m.link[2])
    /\ LetsGo(m) => m.link \notin linking \cup linked

\* A step that leaves the records of the links and the actors' states alone.
LEMMA Quiet ==
    ASSUME Inv, TypeOK', InitOnce', NEW S, InFlight' \subseteq InFlight \cup S,
           \A m \in S : Harmless(m),
           UNCHANGED <<state, linking, linked, pending, active, unlinking, holding, deaf>>,
           link_timers' \subseteq link_timers, unlink_timers' \subseteq unlink_timers
    PROVE  Inv'
  <1>1. /\ Serving' = Serving /\ linking' = linking /\ linked' = linked
        /\ state' = state
    BY DEF Serving
  <1>2. \A m \in S : Says(m)'
    BY <1>1 DEF Says, Granted, LetsGo, Started, Harmless
  <1>3. \A a \in Actors : Started(a)' = Started(a)
    BY <1>1 DEF Started
  <1>4. \A a \in Actors : Ended(a)' = Ended(a)
    BY <1>1 DEF Ended, Clients, Servers
  <1>5. \A a \in Actors : LifeOf(a)'
    BY <1>4 DEF Inv, LifeOf
  <1>6. linked' \subseteq Serving' /\ OperationalOnlyIsKept'
    BY <1>1 DEF Inv, OperationalOnlyIsKept
  <1>7. Serving' \cup link_timers' \cup unlink_timers' \subseteq Touched
    BY <1>1 DEF Touched
  <1>8. QED
    BY <1>1, <1>2, <1>3, <1>4, <1>5, <1>6, <1>7, Keeps DEF Harmless

\* A handler takes the first message of its locality and sends s there.
LEMMA HandledPosts ==
    ASSUME Inv, NEW l \in Localities, queue[l] # <<>>,
           NEW s \in Seq(Message), \A m \in Range(s) : m.kind # "init_request",
           Handled(l, s)
    PROVE  /\ queue' \in [Localities -> Seq(Message)]
           /\ InitOnce'
           /\ InFlight' \subseteq InFlight \cup Range(s)
  <1>1. Extends(queue[l], Tail(queue[l]), {})
    BY Arrives
  <1>2. queue' = [queue EXCEPT ![l] = Tail(queue[l]) \o s]
    BY DEF Handled
  <1>3. QED
    BY <1>1, <1>2, Posted

LEMMA UserShutdownInv == ASSUME Inv, NEW a \in Actors, UserShutdown(a) PROVE Inv'
  <1> DEFINE m == About("shutdown_trigger", a)
  <1>1. m \in Message /\ m.kind = "shutdown_trigger"
    BY AboutType DEF ToClientsSup
  <1>2. DoShutdown(a) = <<m>>
    BY DEF UserShutdown, DoShutdown
  <1>3. <<m>> \in Seq(Message) /\ Range(<<m>>) = {m}
    BY <1>1, Few
  <1>4. Home[a] \in Localities
    BY LinksAssumption
  <1>5. queue' = [queue EXCEPT ![Home[a]] = queue[Home[a]] \o <<m>>]
    BY <1>2 DEF UserShutdown
  <1> HIDE DEF m
  <1>6. /\ queue' \in [Localities -> Seq(Message)]
        /\ InitOnce'
        /\ InFlight' \subseteq InFlight \cup {m}
    BY <1>1, <1>3, <1>4, <1>5, SameQueue, Posted
  <1>7. UNCHANGED <<clients, servers, lives, held, fault>>
    BY DEF UserShutdown
  <1>8. TypeOK'
    BY <1>6, <1>7 DEF Inv, TypeOK, clients, servers, lives
  <1>9. /\ UNCHANGED <<state, linking, linked, pending, active, unlinking, holding, deaf>>
        /\ link_timers' = link_timers /\ unlink_timers' = unlink_timers
    BY <1>7 DEF clients, servers, lives
  <1>10. m.kind \notin LinkKinds /\ ~Granted(m) /\ ~LetsGo(m)
    BY <1>1 DEF LinkKinds, Granted, LetsGo
  <1> DEFINE S == {m}
  <1>11. /\ \A n \in S : Harmless(n)
         /\ InFlight' \subseteq InFlight \cup S
    BY <1>1, <1>6, <1>10 DEF Harmless
  <1> HIDE DEF S
  <1>12. QED
    BY <1>6, <1>8, <1>9, <1>11, Quiet

LEMMA LinkTimeoutInv == ASSUME Inv, NEW x \in Wants, LinkTimeout(x) PROVE Inv'
  <1> DEFINE m == Failed("link_response", x)
  <1>1. x \in Actors \X Actors /\ Home[x[1]] \in Localities
    BY LinksAssumption
  <1>2. m \in Message /\ m.kind = "link_response" /\ m.link = x /\ ~m.ok
    BY <1>1, MsgType DEF ToClient
  <1>3. <<m>> \in Seq(Message) /\ Range(<<m>>) = {m}
    BY <1>2, Few
  <1>4. queue' = [queue EXCEPT ![Home[x[1]]] = queue[Home[x[1]]] \o <<m>>]
    <2>1. queue[Home[x[1]]] \in Seq(Message)
      BY <1>1 DEF Inv, TypeOK
    <2>2. queue' = [queue EXCEPT ![Home[x[1]]] = Append(queue[Home[x[1]]], m)]
      BY DEF LinkTimeout
    <2>3. QED
      BY <1>2, <2>1, <2>2, Few
  <1> HIDE DEF m
  <1>5. /\ queue' \in [Localities -> Seq(Message)]
        /\ InitOnce'
        /\ InFlight' \subseteq InFlight \cup {m}
    BY <1>1, <1>2, <1>3, <1>4, SameQueue, Posted
  <1>6. /\ UNCHANGED <<servers, lives, linking, linked, unlink_queue, held, fault>>
        /\ x \in link_timers /\ link_timers' = link_timers \ {x}
    BY DEF LinkTimeout
  <1>7. TypeOK'
    BY <1>5, <1>6 DEF Inv, TypeOK, servers, lives
  <1>8. x \in Touched
    BY <1>6 DEF Touched
  <1>9. /\ UNCHANGED <<state, linking, linked, pending, active, unlinking, holding, deaf>>
        /\ link_timers' \subseteq link_timers /\ unlink_timers' = unlink_timers
    BY <1>6 DEF servers, lives
  <1>10. ~Granted(m) /\ ~LetsGo(m)
    BY <1>2 DEF Granted, LetsGo
  <1> DEFINE S == {m}
  <1>11. /\ \A n \in S : Harmless(n)
         /\ InFlight' \subseteq InFlight \cup S
    BY <1>2, <1>5, <1>8, <1>10 DEF Harmless
  <1> HIDE DEF S
  <1>12. QED
    BY <1>5, <1>7, <1>9, <1>11, Quiet

LEMMA UnlinkTimeoutInv == ASSUME Inv, NEW x \in Wants, UnlinkTimeout(x) PROVE Inv'
  <1> DEFINE m == Failed("unlink_response", x)
  <1>1. x \in Actors \X Actors /\ Home[x[2]] \in Localities
    BY LinksAssumption
  <1>2. m \in Message /\ m.kind = "unlink_response" /\ m.link = x /\ ~m.ok
    BY <1>1, MsgType DEF ToServer
  <1>3. <<m>> \in Seq(Message) /\ Range(<<m>>) = {m}
    BY <1>2, Few
  <1>4. queue' = [queue EXCEPT ![Home[x[2]]] = queue[Home[x[2]]] \o <<m>>]
    <2>1. queue[Home[x[2]]] \in Seq(Message)
      BY <1>1 DEF Inv, TypeOK
    <2>2. queue' = [queue EXCEPT ![Home[x[2]]] = Append(queue[Home[x[2]]], m)]
      BY DEF UnlinkTimeout
    <2>3. QED
      BY <1>2, <2>1, <2>2, Few
  <1> HIDE DEF m
  <1>5. /\ queue' \in [Localities -> Seq(Message)]
        /\ InitOnce'
        /\ InFlight' \subseteq InFlight \cup {m}
    BY <1>1, <1>2, <1>3, <1>4, SameQueue, Posted
  <1>6. /\ UNCHANGED <<clients, lives, pending, active, unlinking, held, fault>>
        /\ x \in unlink_timers /\ unlink_timers' = unlink_timers \ {x}
    BY DEF UnlinkTimeout
  <1>7. TypeOK'
    BY <1>5, <1>6 DEF Inv, TypeOK, clients, lives
  <1>8. x \in Touched
    BY <1>6 DEF Touched
  <1>9. /\ UNCHANGED <<state, linking, linked, pending, active, unlinking, holding, deaf>>
        /\ unlink_timers' \subseteq unlink_timers /\ link_timers' = link_timers
    BY <1>6 DEF clients, lives
  <1>10. ~Granted(m) /\ ~LetsGo(m)
    BY <1>2 DEF Granted, LetsGo
  <1> DEFINE S == {m}
  <1>11. /\ \A n \in S : Harmless(n)
         /\ InFlight' \subseteq InFlight \cup S
    BY <1>2, <1>5, <1>8, <1>10 DEF Harmless
  <1> HIDE DEF S
  <1>12. QED
    BY <1>5, <1>7, <1>9, <1>11, Quiet

LEMMA QuietlyHandled ==
    ASSUME Inv, NEW l \in Localities, queue[l] # <<>>,
           NEW s \in Seq(Message), Handled(l, s), \A m \in Range(s) : Harmless(m),
           UNCHANGED <<state, linking, linked, pending, active, unlinking, holding, deaf>>,
           link_timers' \subseteq link_timers, unlink_timers' \subseteq unlink_timers,
           init_request' \subseteq Actors, asked' \subseteq Actors,
           unlink_queue' \subseteq Wants, held' \subseteq Wants, fault' \in Faults
    PROVE  Inv'
  <1>1. \A m \in Range(s) : m.kind # "init_request"
    BY DEF Harmless
  <1>2. /\ queue' \in [Localities -> Seq(Message)]
        /\ InitOnce'
        /\ InFlight' \subseteq InFlight \cup Range(s)
    BY <1>1, HandledPosts
  <1>3. TypeOK'
    BY <1>2 DEF Inv, TypeOK
  <1>4. QED
    BY <1>2, <1>3, Quiet

LEMMA DropInv == ASSUME Inv, NEW l \in Localities, Drop(l) PROVE Inv'
  <1>1. /\ queue[l] # <<>> /\ Handled(l, <<>>)
        /\ UNCHANGED <<clients, servers, lives, held, fault>>
    BY DEF Drop
  <1>2. TypeOK
    BY DEF Inv
  <1>3. QED
    BY <1>1, <1>2, Few, QuietlyHandled DEF clients, servers, lives, TypeOK

LEMMA OnShutdownErrorInv == ASSUME Inv, NEW l \in Localities, OnShutdownError(l) PROVE Inv'
  <1>1. /\ queue[l] # <<>> /\ Handled(l, <<>>)
        /\ UNCHANGED <<clients, servers, lives, held>>
        /\ fault' = "on_error"
    BY DEF OnShutdownError, Due
  <1>2. TypeOK
    BY DEF Inv
  <1>3. QED
    BY <1>1, <1>2, Few, QuietlyHandled DEF clients, servers, lives, TypeOK, Faults

LEMMA OnShutdownTriggerInv == ASSUME Inv, NEW l \in Localities, OnShutdownTrigger(l) PROVE Inv'
  <1> DEFINE a == Subject(l)
             m == About("shutdown_request", a)
  <1>1. /\ queue[l] # <<>>
        /\ UNCHANGED <<clients, servers, state, init_request, holding, deaf, held, fault>>
        /\ asked' = asked \cup {a}
    BY DEF OnShutdownTrigger, Due
  <1>2. a \in Actors /\ TypeOK
    BY <1>1, Arrives DEF Subject, Link, Inv
  <1> HIDE DEF a
  <1>3. m \in Message /\ Harmless(m)
    BY <1>2, AboutType DEF ToClient, Harmless, LinkKinds, Granted, LetsGo
  <1> HIDE DEF m
  <1>4. PICK s \in {<<>>, <<m>>} : Handled(l, s)
    BY DEF OnShutdownTrigger, a, m
  <1>5. s \in Seq(Message) /\ \A n \in Range(s) : Harmless(n)
    BY <1>3, Few
  <1>6. /\ UNCHANGED <<linking, linked, pending, active, unlinking, link_timers,
                       unlink_timers, unlink_queue>>
    BY <1>1 DEF clients, servers
  <1>7. QED
    BY <1>1, <1>2, <1>4, <1>5, <1>6, QuietlyHandled DEF TypeOK

LEMMA OnLinkReplyInv == ASSUME Inv, NEW l \in Localities, OnLinkReply(l) PROVE Inv'
  <1> DEFINE m == Head(queue[l])
             n == [m EXCEPT !.kind = "link_response"]
  <1>1. /\ queue[l] # <<>> /\ m.kind = "link_reply"
        /\ UNCHANGED <<servers, lives, linking, linked, unlink_queue, held, fault>>
        /\ link_timers' = link_timers \ {m.link}
    BY DEF OnLinkReply, Due
  <1>2. m \in Message /\ m \in InFlight /\ Says(m) /\ TypeOK
    BY <1>1, Arrives DEF Inv
  <1>3. PICK s \in {<<>>, <<n>>} : Handled(l, s)
    BY DEF OnLinkReply
  <1> HIDE DEF m
  <1>4. /\ n \in Message /\ n.kind = "link_response" /\ n.link = m.link /\ n.ok = m.ok
    BY <1>2 DEF Message, ToClient
  <1> HIDE DEF n
  <1>5. Harmless(n)
    <2>1. m.link \in Touched /\ m.link \in Wants
      BY <1>1, <1>2 DEF Touched, LinkKinds, Says
    <2>2. QED
      BY <1>1, <1>2, <1>4, <2>1 DEF Harmless, Says, Granted, LetsGo, LinkKinds
  <1>6. s \in Seq(Message) /\ \A k \in Range(s) : Harmless(k)
    BY <1>4, <1>5, Few
  <1>7. UNCHANGED <<state, pending, active, unlinking, holding, deaf, unlink_timers,
                    init_request, asked>>
    BY <1>1 DEF servers, lives
  <1>8. QED
    BY <1>1, <1>2, <1>3, <1>6, <1>7, QuietlyHandled DEF TypeOK

LEMMA OnUnlinkReplyInv == ASSUME Inv, NEW l \in Localities, OnUnlinkReply(l) PROVE Inv'
  <1> DEFINE m == Head(queue[l])
             n == Msg("unlink_response", m.link)
  <1>1. /\ queue[l] # <<>> /\ m.kind = "unlink_reply"
        /\ UNCHANGED <<clients, lives, pending, active, unlinking, held, fault>>
        /\ unlink_timers' = unlink_timers \ {m.link}
    BY DEF OnUnlinkReply, Due, Link
  <1>2. /\ m \in Message /\ m \in InFlight /\ Says(m) /\ TypeOK
        /\ m.link \in Actors \X Actors
    BY <1>1, Arrives DEF Inv
  <1>3. PICK s \in {<<>>, <<n>>} : Handled(l, s)
    BY DEF OnUnlinkReply, Link
  <1> HIDE DEF m
  <1>4. /\ n \in Message /\ n.kind = "unlink_response" /\ n.link = m.link
    BY <1>2, MsgType DEF ToServer
  <1> HIDE DEF n
  <1>5. Harmless(n)
    <2>1. m.link \in Touched /\ m.link \in Wants
      BY <1>1, <1>2 DEF Touched, LinkKinds, Says
    <2>2. QED
      BY <1>1, <1>2, <1>4, <2>1 DEF Harmless, Says, Granted, LetsGo, LinkKinds
  <1>6. s \in Seq(Message) /\ \A k \in Range(s) : Harmless(k)
    BY <1>4, <1>5, Few
  <1>7. UNCHANGED <<state, linking, linked, holding, deaf, link_timers, unlink_queue,
                    init_request, asked>>
    BY <1>1 DEF clients, lives
  <1>8. QED
    BY <1>1, <1>2, <1>3, <1>6, <1>7, QuietlyHandled DEF TypeOK

\* What goes from one locality to another stays under way.
LEMMA TransferInv == ASSUME Inv, NEW l \in Localities, Transfer(l) PROVE Inv'
  <1> DEFINE m == Head(queue[l])
             h == Home[Receiver(m)]
  <1>1. /\ queue[l] # <<>> /\ h # l
        /\ queue' = [queue EXCEPT ![l] = Tail(queue[l]), ![h] = Append(queue[h], m)]
        /\ UNCHANGED <<clients, servers, lives, held, fault>>
    BY DEF Transfer
  <1>2. /\ m \in Message /\ m \in InFlight
        /\ m.link[1] \in Actors /\ m.link[2] \in Actors
        /\ Extends(queue[l], Tail(queue[l]), {})
    BY <1>1, Arrives
  <1>3. queue \in [Localities -> Seq(Message)] /\ queue[l] \in Seq(Message)
    BY DEF Inv, TypeOK
  <1>4. h \in Localities
    BY <1>2, LinksAssumption DEF Receiver
  <1>5. m.kind # "init_request"
    <2>1. m.kind = "init_request" => Home[m.link[1]] = l
      BY <1>1, <1>3, Taken DEF Inv, InitOnce, InitsAtHome
    <2>2. QED
      BY <1>1, <2>1 DEF Receiver, ToServer, ToServersSup
  <1> HIDE DEF m, h
  <1>6. Extends(queue[h], Append(queue[h], m), {m})
    <2>1. <<m>> \in Seq(Message) /\ Range(<<m>>) = {m} /\ Append(queue[h], m) = queue[h] \o <<m>>
      BY <1>2, <1>3, <1>4, Few
    <2>2. queue[h] \in Seq(Message)
      BY <1>3, <1>4
    <2>3. QED
      BY <2>1, <2>2, Joined
  <1>7. /\ queue'[l] = Tail(queue[l]) /\ queue'[h] = Append(queue[h], m)
        /\ \A k \in Localities \ {l, h} : queue'[k] = queue[k]
        /\ queue' \in [Localities -> Seq(Message)]
    BY <1>1, <1>2, <1>3, <1>4, <1>6 DEF Extends
  <1>8. \A k \in Localities : Range(queue'[k]) \subseteq Range(queue[k]) \cup {m}
    BY <1>2, <1>6, <1>7 DEF Extends
  <1>9. InFlight' \subseteq InFlight
    BY <1>2, <1>8 DEF InFlight
  <1>10. InitsAtHome'
    BY <1>5, <1>8 DEF Inv, InitOnce, InitsAtHome
  <1>11. \A k \in Localities : OneInit(queue'[k])
    <2>1. OneInit(queue'[l])
      BY <1>2, <1>7 DEF Inv, InitOnce, Extends
    <2>2. OneInit(queue'[h])
      BY <1>4, <1>5, <1>6, <1>7 DEF Inv, InitOnce, Extends
    <2>3. QED
      BY <1>7, <2>1, <2>2 DEF Inv, InitOnce
  <1>12. InitOnce'
    BY <1>10, <1>11 DEF InitOnce
  <1>13. /\ UNCHANGED <<state, linking, linked, pending, active, unlinking, holding, deaf>>
         /\ link_timers' = link_timers /\ unlink_timers' = unlink_timers
    BY <1>1 DEF clients, servers, lives
  <1>14. TypeOK'
    BY <1>1, <1>7 DEF Inv, TypeOK, clients, servers, lives
  <1> DEFINE S == {}
  <1>15. InFlight' \subseteq InFlight \cup S /\ \A k \in S : Harmless(k)
    BY <1>9
  <1> HIDE DEF S
  <1>16. QED
    BY <1>12, <1>13, <1>14, <1>15, Quiet

---------------------------------------------------------------------------
\* The actor that is asked to initialize has no links yet, nor is it asked again.
LEMMA OnInitRequestInv == ASSUME Inv, NEW l \in Localities, OnInitRequest(l) PROVE Inv'
  <1> DEFINE m == Head(queue[l])
             a == m.link[1]
             wanted == {x \in Wants : x[1] = a}
  <1>1. /\ queue[l] # <<>> /\ m.kind = "init_request"
        /\ UNCHANGED <<servers, asked, holding, deaf, linked, unlink_queue, held, fault>>
    BY DEF OnInitRequest, Due
  <1>2. /\ m \in Message /\ m \in InFlight /\ a \in Actors /\ TypeOK
        /\ queue[l] \in Seq(Message)
    BY <1>1, Arrives DEF Inv, TypeOK
  <1>3. CASE state[a] # "INITIALIZING"
    <2>1. /\ init_request' = init_request \cup {a} /\ Handled(l, <<>>)
          /\ UNCHANGED <<state, linking, link_timers>>
      BY <1>3 DEF OnInitRequest, Subject, Link
    <2>2. UNCHANGED <<pending, active, unlinking, unlink_timers>>
      BY <1>1 DEF servers
    <2> HIDE DEF m
    <2>3. QED
      BY <1>1, <1>2, <2>1, <2>2, Few, QuietlyHandled DEF TypeOK
  <1>4. CASE state[a] = "INITIALIZING" /\ wanted = {}
    <2> DEFINE n == About("start_actor", a)
    <2>1. /\ state' = [state EXCEPT ![a] = "INITIALIZED"]
          /\ Handled(l, <<n>>)
          /\ UNCHANGED <<init_request, linking, link_timers>>
      BY <1>4 DEF OnInitRequest, Subject, Link
    <2>2. UNCHANGED <<pending, active, unlinking, unlink_timers>>
      BY <1>1 DEF servers
    <2>3. n \in Message /\ n.kind = "start_actor"
      BY <1>2, AboutType DEF ToClient
    <2> HIDE DEF n, m
    <2> DEFINE S == {n}
    <2>4. <<n>> \in Seq(Message) /\ Range(<<n>>) = S
      BY <2>3, Few
    <2>5. \A k \in S : /\ k.kind # "init_request" /\ k.kind \notin LinkKinds
                       /\ Says(k)'
      BY <2>3 DEF LinkKinds, Says, Granted, LetsGo
    <2> HIDE DEF S
    <2>6. /\ queue' \in [Localities -> Seq(Message)]
          /\ InitOnce'
          /\ InFlight' \subseteq InFlight \cup S
      BY <1>1, <2>1, <2>4, <2>5, HandledPosts
    <2>7. TypeOK'
      BY <1>1, <1>2, <2>1, <2>2, <2>6 DEF TypeOK, States
    <2>8. /\ Serving' = Serving /\ linking' = linking /\ linked' = linked
      BY <1>1, <2>1, <2>2 DEF Serving
    <2>9. \A b \in Actors : state'[b] = state[b] \/ (b = a /\ state[b] = "INITIALIZING")
      BY <1>2, <1>4, <2>1 DEF TypeOK
    <2>10. \A b \in Actors : /\ Started(b) => Started(b)'
                             /\ Ended(b) => Ended(b)'
                             /\ LifeOf(b)'
      <3> SUFFICES ASSUME NEW b \in Actors
                   PROVE  /\ Started(b) => Started(b)'
                          /\ Ended(b) => Ended(b)'
                          /\ LifeOf(b)'
        OBVIOUS
      <3>1. CASE state'[b] = state[b]
        <4>1. LifeOf(b)
          BY DEF Inv
        <4>2. Ended(b) => Ended(b)'
          BY <2>8, <3>1 DEF Ended, Clients, Servers, Serving
        <4>3. Started(b) => Started(b)'
          BY <3>1 DEF Started
        <4>4. LifeOf(b)'
          BY <1>1, <3>1, <4>1, <4>2 DEF LifeOf
        <4>5. QED
          BY <4>2, <4>3, <4>4
      <3>2. CASE b = a
        <4>1. state[b] = "INITIALIZING" /\ state'[b] = "INITIALIZED" /\ b \notin holding
          BY <1>2, <1>4, <2>1, <3>2 DEF TypeOK, Inv, LifeOf
        <4>2. QED
          BY <1>1, <4>1 DEF Started, Ended, LifeOf
      <3>3. QED
        BY <2>9, <3>1, <3>2
    <2>11. linked' \subseteq Serving' /\ OperationalOnlyIsKept'
      <3>1. \A x \in linked \cap Strict : Started(x[2]) /\ x[2] \in Actors
        BY LinksAssumption DEF Inv, OperationalOnlyIsKept, Started
      <3>2. QED
        BY <2>8, <2>10, <3>1 DEF Inv, OperationalOnlyIsKept, Started
    <2>12. Serving' \cup link_timers' \cup unlink_timers' \subseteq Touched
      BY <2>1, <2>2, <2>8 DEF Touched
    <2>13. QED
      BY <2>5, <2>6, <2>7, <2>8, <2>10, <2>11, <2>12, Keeps
  <1>5. CASE state[a] = "INITIALIZING" /\ wanted # {}
    <2>1. /\ init_request' = init_request \cup {a}
          /\ linking' = linking \cup wanted
          /\ link_timers' = link_timers \cup wanted
          /\ state' = state
      BY <1>5 DEF OnInitRequest, Subject, Link
    <2>2. PICK s \in ForEach("link_request", wanted) : Handled(l, s)
      BY <1>5 DEF OnInitRequest, Subject, Link
    <2>3. UNCHANGED <<pending, active, unlinking, unlink_timers>>
      BY <1>1 DEF servers
    <2>4. wanted \subseteq Wants /\ wanted \in SUBSET (Actors \X Actors)
      BY LinksAssumption
    <2>5. /\ s \in Seq(Message)
          /\ \A k \in Range(s) : k.kind = "link_request" /\ k.link \in wanted
      BY <2>2, <2>4, EachSent DEF ToServer
    <2>6. /\ queue' \in [Localities -> Seq(Message)]
          /\ InitOnce'
          /\ InFlight' \subseteq InFlight \cup Range(s)
      BY <1>1, <2>2, <2>5, HandledPosts
    <2>7. \A x \in wanted : Untouched(x)
      BY <1>1, <1>2 DEF Untouched
    <2>8. \A x \in wanted : x \notin Touched
      BY <2>4, <2>7 DEF Inv
    <2>9. \A x \in wanted : ~Untouched(x)'
      <3>1. queue'[l] = Tail(queue[l]) \o s
        BY <1>2, <2>2 DEF Handled, TypeOK
      <3>2. \A k \in Range(Tail(queue[l])) : k.kind = "init_request" => k.link[1] # a
        BY <1>1, <1>2, Taken DEF Inv, InitOnce
      <3>3. Range(queue'[l]) \subseteq Range(Tail(queue[l])) \cup Range(s)
        BY <1>1, <1>2, <2>5, <3>1, Taken, Joined DEF Extends
      <3>4. \A k \in Range(queue'[l]) : k.kind = "init_request" => k.link[1] # a
        BY <2>5, <3>2, <3>3
      <3>5. Home[a] = l
        BY <1>1, <1>2, Taken DEF Inv, InitOnce, InitsAtHome
      <3>6. \A j \in Localities \ {l} : \A k \in Range(queue'[j]) :
                k.kind = "init_request" => k.link[1] # a
        BY <2>6, <3>5 DEF InitOnce, InitsAtHome
      <3>7. \A k \in InFlight' : k.kind = "init_request" => k.link[1] # a
        BY <3>4, <3>6 DEF InFlight
      <3>8. QED
        BY <3>7 DEF Untouched
    <2>10. Serving' = Serving /\ linked' = linked
      BY <1>1, <2>3 DEF Serving
    <2>11. TypeOK'
      BY <1>1, <1>2, <2>1, <2>3, <2>4, <2>6 DEF TypeOK
    <2>12. ASSUME NEW b \in Actors PROVE /\ Ended(b) => Ended(b)'
                                         /\ LifeOf(b)'
      <3>1. Ended(b) => b # a
        BY <1>5 DEF Ended
      <3>2. Ended(b) => Ended(b)'
        BY <2>1, <2>10, <3>1 DEF Ended, Clients, Servers, Serving
      <3>3. LifeOf(b)
        BY DEF Inv
      <3>4. QED
        BY <1>1, <2>1, <3>2, <3>3 DEF LifeOf
    <2>13. ASSUME NEW k \in InFlight' PROVE Says(k)'
      <3>1. CASE k \in Range(s)
        BY <2>4, <2>5, <3>1 DEF Says, LinkKinds, Granted, LetsGo
      <3>2. CASE k \in InFlight
        <4>1. Says(k) /\ k.link[1] \in Actors /\ k.link[2] \in Actors
          BY <1>2, <3>2, Flying DEF Inv, InFlight
        <4>2. k.kind \in LinkKinds => k.link \notin wanted
          BY <2>8, <3>2 DEF Touched
        <4>3. Granted(k) \/ LetsGo(k) => k.kind \in LinkKinds
          BY DEF Granted, LetsGo, LinkKinds
        <4>4. Started(k.link[2])' = Started(k.link[2])
          BY <2>1 DEF Started
        <4>5. QED
          BY <2>1, <2>10, <2>12, <4>1, <4>2, <4>3, <4>4 DEF Says
      <3>3. QED
        BY <2>6, <3>1, <3>2
    <2>14. ASSUME NEW x \in Wants, Untouched(x)' PROVE x \notin Touched'
      <3>1. x \notin wanted
        BY <2>9, <2>14
      <3>2. Untouched(x)
        BY <2>5, <2>6, <2>14 DEF Untouched
      <3>3. x \notin Touched
        BY <3>2 DEF Inv
      <3>4. \A k \in InFlight' : k.kind \in LinkKinds => k.link # x
        BY <2>5, <2>6, <3>1, <3>3 DEF Touched
      <3>5. QED
        BY <2>1, <2>3, <2>10, <3>1, <3>3, <3>4 DEF Touched
    <2>15. linked' \subseteq Serving' /\ OperationalOnlyIsKept'
      BY <2>1, <2>10 DEF Inv, OperationalOnlyIsKept
    <2>16. QED
      BY <2>6, <2>11, <2>12, <2>13, <2>14, <2>15 DEF Inv
  <1>6. QED
    BY <1>3, <1>4, <1>5

LEMMA OnStartInv == ASSUME Inv, NEW l \in Localities, OnStart(l) PROVE Inv'
  <1> DEFINE m == Head(queue[l])
             a == m.link[1]
             clients_of == {x \in pending : x[2] = a}
  <1>1. /\ queue[l] # <<>>
        /\ UNCHANGED <<linking, linked, unlink_queue, link_timers, pending, active, unlinking,
                       unlink_timers, init_request, asked, holding, deaf, held, fault>>
    BY DEF OnStart, Due, clients, servers
  <1>2. a \in Actors /\ TypeOK
    BY <1>1, Arrives DEF Inv
  <1>3. CASE state[a] # "INITIALIZED"
    <2>1. Handled(l, <<>>) /\ UNCHANGED state
      BY <1>3 DEF OnStart, Subject, Link
    <2> HIDE DEF m
    <2>2. QED
      BY <1>1, <1>2, <2>1, Few, QuietlyHandled DEF TypeOK
  <1>4. CASE state[a] = "INITIALIZED"
    <2>1. state' = [state EXCEPT ![a] = "OPERATIONAL"]
      BY <1>4 DEF OnStart, Subject, Link
    <2>2. PICK s \in ForEach("link_reply", clients_of) : Handled(l, s)
      BY <1>4 DEF OnStart, Subject, Link
    <2>3. clients_of \subseteq Serving /\ clients_of \subseteq Wants
          /\ clients_of \in SUBSET (Actors \X Actors)
      BY <1>2, LinksAssumption DEF Serving, TypeOK
    <2> HIDE DEF m
    <2>4. /\ s \in Seq(Message)
          /\ \A k \in Range(s) : k.kind = "link_reply" /\ k.link \in clients_of
      <3>1. s \in ForEach("link_reply", clients_of)
        BY <2>2
      <3>2. "link_reply" \in ToClient \cup ToServer \cup ToClientsSup \cup ToServersSup
        BY DEF ToClientsSup
      <3> HIDE DEF clients_of
      <3>3. QED
        BY <2>3, <3>1, <3>2, EachSent
    <2> DEFINE S == Range(s)
    <2>5. /\ queue' \in [Localities -> Seq(Message)]
          /\ InitOnce'
          /\ InFlight' \subseteq InFlight \cup S
      BY <1>1, <2>2, <2>4, HandledPosts DEF m
    <2> HIDE DEF S
    <2>6. TypeOK'
      BY <1>1, <1>2, <2>1, <2>5 DEF TypeOK, States
    <2>7. /\ Serving' = Serving /\ linking' = linking /\ linked' = linked
      BY <1>1 DEF Serving
    <2>8. \A b \in Actors : \/ state'[b] = state[b]
                            \/ /\ b = a /\ state[b] = "INITIALIZED"
                               /\ state'[b] = "OPERATIONAL"
      BY <1>2, <1>4, <2>1 DEF TypeOK
    <2>9. state'[a] = "OPERATIONAL"
      BY <1>2, <2>1 DEF TypeOK
    <2>10. ASSUME NEW k \in S
           PROVE  /\ k.kind # "init_request" /\ Says(k)'
                  /\ k.kind \in LinkKinds => k.link \in Touched
      <3>1. k.link \in Serving' /\ k.link \in Wants /\ Started(k.link[2])'
        BY <2>3, <2>4, <2>7, <2>9 DEF Started, S
      <3>2. k.link \in Touched
        BY <2>3, <2>4 DEF Touched, S
      <3>3. QED
        BY <2>4, <3>1, <3>2 DEF Says, LetsGo, S
    <2>11. ASSUME NEW b \in Actors
           PROVE  /\ Started(b) => Started(b)'
                  /\ Ended(b) => Ended(b)'
                  /\ LifeOf(b)'
      <3>1. LifeOf(b)
        BY DEF Inv
      <3>2. Ended(b) => Ended(b)'
        BY <2>7, <2>8 DEF Ended, Clients, Servers, Serving
      <3>3. Started(b) => Started(b)'
        BY <2>8 DEF Started
      <3>4. LifeOf(b)'
        BY <1>1, <2>8, <3>1, <3>2 DEF LifeOf
      <3>5. QED
        BY <3>2, <3>3, <3>4
    <2>12. linked' \subseteq Serving' /\ OperationalOnlyIsKept'
      <3>1. \A x \in linked \cap Strict : Started(x[2]) /\ x[2] \in Actors
        BY LinksAssumption DEF Inv, OperationalOnlyIsKept, Started
      <3>2. QED
        BY <2>7, <2>11, <3>1 DEF Inv, OperationalOnlyIsKept, Started
    <2>13. Serving' \cup link_timers' \cup unlink_timers' \subseteq Touched
      BY <1>1, <2>7 DEF Touched
    <2>14. QED
      BY <2>5, <2>6, <2>7, <2>10, <2>11, <2>12, <2>13, Keeps
  <1>5. QED
    BY <1>3, <1>4

LEMMA OnLinkRequestInv == ASSUME Inv, NEW l \in Localities, OnLinkRequest(l) PROVE Inv'
  <1> DEFINE m == Head(queue[l])
             x == m.link
             no == Failed("link_reply", x)
             yes == Msg("link_reply", x)
  <1>1. /\ queue[l] # <<>> /\ m.kind = "link_request"
        /\ UNCHANGED <<linking, linked, unlink_queue, link_timers, state, init_request, asked,
                       holding, deaf, unlinking, unlink_timers, held, fault>>
    BY DEF OnLinkRequest, Due, clients, lives
  <1>2. /\ m \in InFlight /\ x \in Wants /\ x \in Actors \X Actors /\ TypeOK
        /\ x[1] \in Actors /\ x[2] \in Actors
    BY <1>1, Arrives DEF Inv, Says, LinkKinds
  <1>3. x \in Touched
    BY <1>1, <1>2 DEF Touched, LinkKinds
  <1>4. \/ /\ Handled(l, <<no>>) /\ UNCHANGED <<pending, active>>
        \/ /\ ~Refuses(x[2]) /\ Postpones(x) /\ Handled(l, <<>>)
           /\ pending' = pending \cup {x} /\ UNCHANGED active
        \/ /\ ~Refuses(x[2]) /\ ~Postpones(x) /\ Handled(l, <<yes>>)
           /\ active' = active \cup {x} /\ UNCHANGED pending
    BY DEF OnLinkRequest, Link
  <1>5. /\ no \in Message /\ no.kind = "link_reply" /\ no.link = x /\ ~no.ok
        /\ yes \in Message /\ yes.kind = "link_reply" /\ yes.link = x
    BY <1>2, MsgType DEF ToClientsSup
  <1> HIDE DEF m, x, no, yes
  <1>6. CASE Handled(l, <<no>>) /\ UNCHANGED <<pending, active>>
    <2>1. Harmless(no)
      BY <1>2, <1>3, <1>5 DEF Harmless, Granted, LetsGo
    <2>2. QED
      BY <1>1, <1>2, <1>5, <1>6, <2>1, Few, QuietlyHandled DEF TypeOK
  <1>7. CASE ~Refuses(x[2]) /\ UNCHANGED unlinking
             /\ \E s \in {<<>>, <<yes>>} :
                    /\ Handled(l, s)
                    /\ s = <<yes>> => ~Postpones(x)
             /\ pending' \subseteq pending \cup {x} /\ active' \subseteq active \cup {x}
             /\ Serving' = Serving \cup {x}
    <2>1. PICK s \in {<<>>, <<yes>>} : /\ Handled(l, s)
                                       /\ s = <<yes>> => ~Postpones(x)
      BY <1>7
    <2> DEFINE S == Range(s)
    <2>2. s \in Seq(Message) /\ \A k \in S : k = yes /\ s = <<yes>>
      BY <1>5, Few
    <2> HIDE DEF S
    <2>3. /\ queue' \in [Localities -> Seq(Message)]
          /\ InitOnce'
          /\ InFlight' \subseteq InFlight \cup S
      BY <1>1, <1>5, <2>1, <2>2, HandledPosts DEF S
    <2>4. TypeOK'
      BY <1>1, <1>2, <1>7, <2>3 DEF TypeOK
    <2>5. state[x[2]] \in Live
      BY <1>7 DEF Refuses
    <2>6. ASSUME NEW k \in S
          PROVE  /\ k.kind # "init_request" /\ Says(k)'
                 /\ k.kind \in LinkKinds => k.link \in Touched
      <3>1. k = yes /\ ~Postpones(x)
        BY <2>1, <2>2
      <3>2. k.link = x /\ k.kind = "link_reply" /\ x \in Serving'
        BY <1>5, <1>7, <3>1
      <3>3. k.link \in Strict => state'[k.link[2]] \notin {"INITIALIZING", "INITIALIZED"}
        BY <1>1, <2>5, <3>1, <3>2 DEF Postpones, Live
      <3>4. Says(k)'
        BY <1>2, <3>2, <3>3 DEF Says, LetsGo, Started
      <3>5. QED
        BY <1>3, <3>2, <3>4
    <2>7. ASSUME NEW b \in Actors
          PROVE  /\ Started(b) => Started(b)'
                 /\ Ended(b) => Ended(b)'
                 /\ LifeOf(b)'
      <3>1. LifeOf(b)
        BY DEF Inv
      <3>2. Ended(b) => b # x[2]
        BY <2>5 DEF Ended, Live
      <3>3. Ended(b) => Ended(b)'
        BY <1>1, <1>7, <3>2, EndedKept
      <3>4. QED
        BY <1>1, <3>1, <3>3 DEF LifeOf, Started
    <2>8. linked' \subseteq Serving' /\ OperationalOnlyIsKept'
      BY <1>1, <1>7 DEF Inv, OperationalOnlyIsKept
    <2>9. Serving' \cup link_timers' \cup unlink_timers' \subseteq Touched
      BY <1>1, <1>3, <1>7 DEF Touched
    <2>10. linking' = linking /\ linked' = linked /\ Serving \subseteq Serving'
      BY <1>1, <1>7
    <2>11. QED
      BY <2>3, <2>4, <2>6, <2>7, <2>8, <2>9, <2>10, Keeps
  <1>8. QED
    BY <1>1, <1>4, <1>6, <1>7 DEF Serving

\* A link in force is one the server has a record of, and has agreed to.
LEMMA OnLinkResponseInv == ASSUME Inv, NEW l \in Localities, OnLinkResponse(l) PROVE Inv'
  <1> DEFINE m == Head(queue[l])
             x == m.link
             c == x[1]
  <1>1. /\ queue[l] # <<>> /\ m.kind = "link_response"
        /\ UNCHANGED <<servers, asked, holding, deaf, unlink_queue, link_timers, held>>
    BY DEF OnLinkResponse, Due
  <1>2. /\ m \in InFlight /\ m \in Message /\ x \in Wants /\ c \in Actors /\ x[2] \in Actors
        /\ Says(m) /\ TypeOK
    BY <1>1, Arrives DEF Inv, Says, LinkKinds
  <1>3. UNCHANGED <<pending, active, unlinking, unlink_timers>>
    BY <1>1 DEF servers
  <1>4. CASE x \notin linking
    <2>1. /\ fault' = "on_link_response" /\ Handled(l, <<>>)
          /\ UNCHANGED <<linking, linked, init_request, state>>
      BY <1>4 DEF OnLinkResponse, Link
    <2> HIDE DEF m
    <2>2. QED
      BY <1>1, <1>2, <1>3, <2>1, Few, QuietlyHandled DEF TypeOK, Faults
  <1>5. CASE x \in linking
    <2> DEFINE start == About("start_actor", c)
               trigger == About("shutdown_trigger", c)
    <2>1. /\ linking' = linking \ {x}
          /\ linked' = IF m.ok THEN linked \cup {x} ELSE linked
          /\ init_request' \subseteq init_request
          /\ state' = state \/ (state[c] = "INITIALIZING"
                                  /\ state' = [state EXCEPT ![c] = "INITIALIZED"])
          /\ fault' \in {fault, "init_continue"}
      BY <1>5 DEF OnLinkResponse, Link
    <2>2. PICK s \in {<<>>, <<start>>, <<trigger>>} : Handled(l, s)
      BY <1>5 DEF OnLinkResponse, Link, DoShutdown
    <2>3. /\ start \in Message /\ start.kind = "start_actor"
          /\ trigger \in Message /\ trigger.kind = "shutdown_trigger"
      BY <1>2, AboutType DEF ToClient, ToClientsSup
    <2> HIDE DEF start, trigger
    <2>4. /\ s \in Seq(Message)
          /\ \A k \in Range(s) : k.kind \in {"start_actor", "shutdown_trigger"}
      BY <2>3, Few
    <2> DEFINE S == Range(s)
    <2>5. /\ queue' \in [Localities -> Seq(Message)]
          /\ InitOnce'
          /\ InFlight' \subseteq InFlight \cup S
      BY <1>1, <2>2, <2>4, HandledPosts DEF m
    <2>6. \A k \in S : /\ k.kind # "init_request" /\ k.kind \notin LinkKinds
                       /\ Says(k)'
      BY <2>4 DEF LinkKinds, Says, Granted, LetsGo
    <2> HIDE DEF S
    <2>7. TypeOK'
      BY <1>1, <1>2, <1>3, <2>1, <2>5 DEF TypeOK, States, Faults
    <2>8. m.ok => /\ x \in Serving
                  /\ x \in Strict => Started(x[2])
      BY <1>1, <1>2, <1>5 DEF Says, Granted
    <2>9. /\ linking' \subseteq linking
          /\ linking' \cup linked' \subseteq linking \cup linked
          /\ linked' \subseteq linked \cup {x}
          /\ linked' \subseteq Serving'
          /\ Serving' = Serving
      BY <1>3, <1>5, <2>1, <2>8 DEF Serving, Inv
    <2>10. \A b \in Actors : \/ state'[b] = state[b]
                             \/ /\ b = c /\ state[b] = "INITIALIZING"
                                /\ state'[b] = "INITIALIZED"
      BY <1>2, <2>1 DEF TypeOK
    <2>11. ASSUME NEW b \in Actors
           PROVE  /\ Started(b) => Started(b)'
                  /\ Ended(b) => Ended(b)'
                  /\ LifeOf(b)'
      <3>1. LifeOf(b)
        BY DEF Inv
      <3>2. Ended(b) => state[b] = state'[b]
        BY <2>10 DEF Ended
      <3>3. Ended(b) => Ended(b)'
        BY <2>9, <3>2, EndedKept
      <3>4. Started(b) => Started(b)'
        BY <2>10 DEF Started
      <3>5. LifeOf(b)'
        BY <1>1, <2>10, <3>1, <3>3 DEF LifeOf
      <3>6. QED
        BY <3>3, <3>4, <3>5
    <2>12. OperationalOnlyIsKept'
      <3>1. \A y \in linked' \cap Strict : Started(y[2]) /\ y[2] \in Actors
        BY <1>2, <2>1, <2>8, LinksAssumption DEF Inv, OperationalOnlyIsKept, Started
      <3>2. QED
        BY <2>11, <3>1 DEF OperationalOnlyIsKept, Started
    <2>13. Serving' \cup link_timers' \cup unlink_timers' \subseteq Touched
      BY <1>1, <1>3, <2>9 DEF Touched
    <2>14. QED
      BY <2>5, <2>6, <2>7, <2>9, <2>11, <2>12, <2>13, Keeps
  <1>6. QED
    BY <1>4, <1>5

---------------------------------------------------------------------------
LEMMA OnShutdownRequestInv == ASSUME Inv, NEW l \in Localities, OnShutdownRequest(l) PROVE Inv'
  <1> DEFINE a == Subject(l)
             q == Tail(queue[l])
  <1>1. /\ queue[l] # <<>> /\ Head(queue[l]).kind = "shutdown_request"
        /\ Home[Receiver(Head(queue[l]))] = l /\ Heard(Head(queue[l]))
        /\ state' = [state EXCEPT ![a] = "SHUTTING_DOWN"]
        /\ holding' \subseteq holding \cup (Holders \cap {a})
        /\ ShutdownContinue(a, {}, Acquires(a), q)
        /\ UNCHANGED <<init_request, asked, deaf, unlink_queue, held>>
    BY DEF OnShutdownRequest, Due, Acquires
  <1>2. a \in Actors /\ TypeOK /\ Extends(queue[l], q, {})
    BY <1>1, Arrives DEF Subject, Link, Inv
  <1>3. Home[a] = l /\ a \notin deaf
    BY <1>1 DEF Receiver, Heard, Subject, Link, ToServer, ToServersSup, ToClient
  <1>4. state[a] # "SHUT_DOWN"
    BY <1>2, <1>3 DEF Inv, LifeOf
  <1> HIDE DEF a, q
  <1>5. /\ state' \in [Actors -> States]
        /\ state'[a] = "SHUTTING_DOWN"
        /\ \A b \in Actors \ {a} : state'[b] = state[b]
    BY <1>1, <1>2 DEF TypeOK, States
  <1> DEFINE none == {}
  <1>6. /\ none \in SUBSET Wants
        /\ \A m \in none : m.kind = "unlink_reply" /\ m.link \in none \cap Servers(a)
        /\ \A x \in none : x[2] = a => x \notin linking \cup linked
        /\ Extends(queue[Home[a]], q, none)
        /\ ShutdownContinue(a, none, Acquires(a), q)
    BY <1>1, <1>2, <1>3
  <1> HIDE DEF none
  <1>7. /\ init_request' \subseteq Actors /\ asked' \subseteq Actors /\ deaf' = deaf
        /\ holding' \subseteq Holders /\ holding' \subseteq holding \cup {a}
        /\ unlink_queue' \subseteq Wants /\ held' \subseteq Wants
    BY <1>1, <1>2 DEF TypeOK
  <1>8. QED
    BY <1>2, <1>4, <1>5, <1>6, <1>7, Continued

LEMMA ReleaseInv == ASSUME Inv, NEW a \in Actors, Release(a) PROVE Inv'
  <1>1. /\ a \in holding /\ holding' = holding \ {a}
        /\ ShutdownContinue(a, {}, FALSE, queue[Home[a]])
        /\ UNCHANGED <<state, init_request, asked, deaf, unlink_queue, held>>
    BY DEF Release
  <1>2. TypeOK /\ Home[a] \in Localities
    BY LinksAssumption DEF Inv
  <1>3. state[a] \in {"SHUTTING_DOWN", "SHUT_DOWN"}
    BY <1>1 DEF Inv, LifeOf
  <1> DEFINE none == {}
  <1>4. /\ none \in SUBSET Wants
        /\ \A m \in none : m.kind = "unlink_reply" /\ m.link \in none \cap Servers(a)
        /\ \A x \in none : x[2] = a => x \notin linking \cup linked
        /\ Extends(queue[Home[a]], queue[Home[a]], none)
        /\ ShutdownContinue(a, none, FALSE, queue[Home[a]])
    BY <1>1, <1>2, SameQueue
  <1> HIDE DEF none
  <1>5. /\ init_request' \subseteq Actors /\ asked' \subseteq Actors /\ deaf' = deaf
        /\ holding' \subseteq Holders /\ holding' \subseteq holding \cup {a}
        /\ unlink_queue' \subseteq Wants /\ held' \subseteq Wants
        /\ state' \in [Actors -> States] /\ state' = state
    BY <1>1, <1>2 DEF TypeOK
  <1>6. QED
    BY <1>3, <1>4, <1>5, Continued

---------------------------------------------------------------------------
\* A request to unlink that is put off changes no record, and one that is
\* answered leaves the client without the link.
LEMMA ForgetLinkInv ==
    ASSUME Inv, NEW x \in Wants, NEW q, Extends(queue[Home[x[1]]], q, {}),
           ForgetLink(x, q), UNCHANGED lives, held' \subseteq Wants
    PROVE  Inv'
  <1> DEFINE c == x[1]
             h == Home[c]
             answered == (unlink_queue \cup {x}) \cap Servers(c)
  <1>1. /\ TypeOK /\ c \in Actors /\ h \in Localities
        /\ Wants \subseteq Actors \X Actors
        /\ \A y \in Wants : y[1] # y[2] /\ y[2] \in Actors
    BY LinksAssumption DEF Inv
  <1>2. UNCHANGED <<state, init_request, asked, holding, deaf>>
    BY DEF lives
  <1>3. /\ answered \subseteq Servers(c) /\ Servers(c) \subseteq linking \cup linked
        /\ Servers(c) \subseteq Wants
        /\ \A y \in answered : y[1] = c
    BY <1>1 DEF Servers, TypeOK
  <1> HIDE DEF answered
  <1>4. CASE /\ queue' = [queue EXCEPT ![h] = q]
             /\ UNCHANGED <<linking, linked, link_timers, servers, fault>>
             /\ unlink_queue' \subseteq unlink_queue \cup {x}
    <2> DEFINE none == {}
    <2>1. Extends(queue[h], q, none) /\ \A k \in none : k.kind # "init_request" /\ Harmless(k)
      OBVIOUS
    <2> HIDE DEF none, h
    <2>2. /\ queue' \in [Localities -> Seq(Message)]
          /\ InitOnce'
          /\ InFlight' \subseteq InFlight \cup none
      BY <1>1, <1>4, <2>1, Grown
    <2>3. TypeOK'
      BY <1>1, <1>2, <1>4, <2>2 DEF TypeOK, servers
    <2>4. UNCHANGED <<pending, active, unlinking, unlink_timers>>
      BY <1>4 DEF servers
    <2>5. QED
      BY <1>2, <1>4, <2>1, <2>2, <2>3, <2>4, Quiet
  <1>5. CASE /\ x \in Servers(c) /\ Clients(c) = {}
             /\ unlink_queue' = unlink_queue \cup {x}
             /\ \E s \in ForEach("unlink_reply", answered) :
                 IF state[c] = "SHUTTING_DOWN"
                 THEN ShutdownContinue(c, answered, c \in holding, q \o s)
                 ELSE /\ linking' = linking \ answered
                      /\ linked' = linked \ answered
                      /\ queue' = [queue EXCEPT ![h] = q \o s \o DoShutdown(c)]
                      /\ UNCHANGED <<link_timers, servers, fault>>
    <2>1. PICK s \in ForEach("unlink_reply", answered) :
                 IF state[c] = "SHUTTING_DOWN"
                 THEN ShutdownContinue(c, answered, c \in holding, q \o s)
                 ELSE /\ linking' = linking \ answered
                      /\ linked' = linked \ answered
                      /\ queue' = [queue EXCEPT ![h] = q \o s \o DoShutdown(c)]
                      /\ UNCHANGED <<link_timers, servers, fault>>
      BY <1>5
    <2>2. /\ s \in Seq(Message)
          /\ \A k \in Range(s) : k.kind = "unlink_reply" /\ k.link \in answered
      <3>1. answered \in SUBSET (Actors \X Actors)
        BY <1>1, <1>3
      <3>2. "unlink_reply" \in ToClient \cup ToServer \cup ToClientsSup \cup ToServersSup
        BY DEF ToServersSup
      <3>3. QED
        BY <3>1, <3>2, EachSent
    <2> DEFINE T == Range(s)
    <2>3. Extends(queue[h], q \o s, T)
      <3>1. Extends(queue[h], q \o s, {} \cup Range(s))
        BY <2>2, Chained
      <3>2. QED
        BY <3>1
    <2>4. \A k \in T : k.kind = "unlink_reply" /\ k.link \in answered \cap Servers(c)
      BY <1>3, <2>2
    <2> HIDE DEF T
    <2>5. CASE state[c] = "SHUTTING_DOWN"
      <3>1. ShutdownContinue(c, answered, c \in holding, q \o s)
        BY <2>1, <2>5
      <3>2. /\ answered \in SUBSET Wants
            /\ \A y \in answered : y[2] = c => y \notin linking \cup linked
        BY <1>1, <1>3
      <3>3. /\ init_request' \subseteq Actors /\ asked' \subseteq Actors /\ deaf' = deaf
            /\ holding' \subseteq Holders /\ holding' \subseteq holding \cup {c}
            /\ unlink_queue' \subseteq Wants
            /\ state' \in [Actors -> States] /\ state' = state
        BY <1>1, <1>2, <1>5 DEF TypeOK
      <3> HIDE DEF c
      <3>4. QED
        BY <1>1, <2>3, <2>4, <2>5, <3>1, <3>2, <3>3, Continued DEF h
    <2>6. CASE state[c] # "SHUTTING_DOWN"
      <3> DEFINE m == About("shutdown_trigger", c)
                 d == DoShutdown(c)
      <3>1. /\ linking' = linking \ answered /\ linked' = linked \ answered
            /\ queue' = [queue EXCEPT ![h] = q \o s \o d]
            /\ UNCHANGED <<link_timers, servers, fault>>
        BY <2>1, <2>6
      <3>2. m \in Message /\ m.kind = "shutdown_trigger"
        BY <1>1, AboutType DEF ToClientsSup
      <3>3. d \in Seq(Message) /\ \A k \in Range(d) : k.kind = "shutdown_trigger"
        BY <3>2, Few DEF DoShutdown
      <3> HIDE DEF d, m, h, c
      <3> DEFINE S == T \cup Range(d)
      <3>4. Extends(queue[h], q \o s \o d, S)
        BY <2>3, <3>3, Chained
      <3>5. \A k \in S : \/ k.kind = "unlink_reply" /\ k.link \in answered
                         \/ k.kind = "shutdown_trigger"
        BY <2>4, <3>3
      <3> HIDE DEF S
      <3>6. /\ queue' \in [Localities -> Seq(Message)]
            /\ InitOnce'
            /\ InFlight' \subseteq InFlight \cup S
        BY <1>1, <3>1, <3>4, <3>5, Grown
      <3>7. UNCHANGED <<pending, active, unlinking, unlink_timers>> /\ Serving' = Serving
        BY <3>1 DEF servers, Serving
      <3>8. TypeOK'
        BY <1>1, <1>2, <1>5, <3>1, <3>6, <3>7 DEF TypeOK
      <3>9. /\ linking' \subseteq linking /\ linked' \subseteq linked
            /\ \A y \in answered : y \notin linking' \cup linked'
        BY <3>1
      <3>10. ASSUME NEW k \in S
             PROVE  /\ k.kind # "init_request" /\ Says(k)'
                    /\ k.kind \in LinkKinds => k.link \in Touched
        <4>1. k.kind = "unlink_reply" => k.link \in Touched /\ k.link \in Wants
          BY <1>3, <3>5 DEF Touched
        <4>2. QED
          BY <3>5, <3>9, <4>1 DEF Says, LinkKinds, Granted, LetsGo
      <3>11. ASSUME NEW b \in Actors
             PROVE  /\ Started(b) => Started(b)'
                    /\ Ended(b) => Ended(b)'
                    /\ LifeOf(b)'
        <4>1. LifeOf(b)
          BY DEF Inv
        <4>2. Ended(b) => Ended(b)'
          BY <1>2, <3>7, <3>9, EndedKept
        <4>3. QED
          BY <1>2, <4>1, <4>2 DEF LifeOf, Started
      <3>12. linked' \subseteq Serving' /\ OperationalOnlyIsKept'
        BY <1>2, <3>7, <3>9 DEF Inv, OperationalOnlyIsKept
      <3>13. Serving' \cup link_timers' \cup unlink_timers' \subseteq Touched
        BY <3>1, <3>7 DEF Touched
      <3>14. QED
        BY <3>6, <3>7, <3>8, <3>9, <3>10, <3>11, <3>12, <3>13, Keeps
    <2>7. QED
      BY <2>5, <2>6
  <1>6. QED
    BY <1>4, <1>5 DEF ForgetLink, answered

LEMMA OnUnlinkRequestInv == ASSUME Inv, NEW l \in Localities, OnUnlinkRequest(l) PROVE Inv'
  <1> DEFINE x == Link(l)
             q == Tail(queue[l])
  <1>1. /\ queue[l] # <<>> /\ Head(queue[l]).kind = "unlink_request"
        /\ Home[Receiver(Head(queue[l]))] = l
        /\ UNCHANGED lives
    BY DEF OnUnlinkRequest, Due
  <1>2. /\ x \in Wants /\ TypeOK /\ Extends(queue[l], q, {})
    BY <1>1, Arrives DEF Link, Inv, Says, LinkKinds
  <1>3. Home[x[1]] = l
    BY <1>1 DEF Receiver, Link, ToServer, ToServersSup
  <1>4. CASE ForgetLink(x, q) /\ UNCHANGED held
    <2> HIDE DEF x, q
    <2>1. QED
      BY <1>1, <1>2, <1>3, <1>4, ForgetLinkInv DEF TypeOK
  <1>5. CASE held' = held \cup {x} /\ Handled(l, <<>>) /\ UNCHANGED <<clients, servers, fault>>
    <2> HIDE DEF x
    <2>1. held' \subseteq Wants
      BY <1>2, <1>5 DEF TypeOK
    <2>2. QED
      BY <1>1, <1>2, <1>5, <2>1, Few, QuietlyHandled DEF clients, servers, lives, TypeOK
  <1>6. QED
    BY <1>4, <1>5 DEF OnUnlinkRequest

LEMMA UserForgetsInv == ASSUME Inv, NEW x \in Wants, UserForgets(x) PROVE Inv'
  <1>1. /\ UNCHANGED lives /\ held' \subseteq held
        /\ ForgetLink(x, queue[Home[x[1]]])
    BY DEF UserForgets
  <1>2. Home[x[1]] \in Localities /\ TypeOK
    BY LinksAssumption DEF Inv
  <1>3. QED
    BY <1>1, <1>2, SameQueue, ForgetLinkInv DEF TypeOK

\* A server forgets a client that has erased its own record.
LEMMA ForgetClientInv ==
    ASSUME Inv, NEW l \in Localities, queue[l] # <<>>, NEW x \in Wants, Home[x[2]] = l,
           x \notin linking \cup linked,
           ForgetClient(x, l), UNCHANGED <<lives, unlink_queue, held>>
    PROVE  Inv'
  <1> DEFINE a == x[2]
             q == Tail(queue[l])
  <1>1. a \in Actors /\ TypeOK /\ Extends(queue[l], q, {}) /\ Home[a] = l
    BY Arrives, LinksAssumption DEF Inv
  <1>2. UNCHANGED <<state, init_request, asked, holding, deaf>>
    BY DEF lives
  <1> DEFINE none == {}
  <1>3. CASE state[a] = "SHUTTING_DOWN"
    <2> DEFINE one == {x}
    <2>1. ShutdownContinue(a, one, a \in holding, q)
      BY <1>3 DEF ForgetClient
    <2>2. /\ one \in SUBSET Wants
          /\ \A m \in none : m.kind = "unlink_reply" /\ m.link \in one \cap Servers(a)
          /\ \A y \in one : y[2] = a => y \notin linking \cup linked
          /\ Extends(queue[Home[a]], q, none)
      BY <1>1
    <2>3. /\ init_request' \subseteq Actors /\ asked' \subseteq Actors /\ deaf' = deaf
          /\ holding' \subseteq Holders /\ holding' \subseteq holding \cup {a}
          /\ unlink_queue' \subseteq Wants /\ held' \subseteq Wants
          /\ state' \in [Actors -> States] /\ state' = state
      BY <1>1, <1>2 DEF TypeOK
    <2> HIDE DEF one, none, a, q
    <2>4. QED
      BY <1>1, <1>3, <2>1, <2>2, <2>3, Continued
  <1>4. CASE state[a] # "SHUTTING_DOWN"
    <2>1. /\ pending' = pending \ {x} /\ active' = active \ {x} /\ unlinking' = unlinking \ {x}
          /\ Handled(l, <<>>)
          /\ UNCHANGED <<linking, linked, link_timers, unlink_timers, fault>>
      BY <1>4 DEF ForgetClient
    <2>2. \A m \in none : m.kind # "init_request" /\ Says(m)'
                          /\ (m.kind \in LinkKinds => m.link \in Touched)
      OBVIOUS
    <2>3. <<>> \in Seq(Message) /\ Range(<<>>) = none
      BY Few
    <2> HIDE DEF none, a, q
    <2>4. /\ queue' \in [Localities -> Seq(Message)]
          /\ InitOnce'
          /\ InFlight' \subseteq InFlight \cup none
      BY <2>1, <2>2, <2>3, HandledPosts
    <2>5. TypeOK'
      BY <1>1, <1>2, <2>1, <2>4 DEF TypeOK
    <2>6. /\ linking' = linking /\ linked' = linked
          /\ Serving' = Serving \ {x}
      BY <2>1 DEF Serving
    <2>7. ASSUME NEW b \in Actors
          PROVE  /\ Started(b) => Started(b)'
                 /\ Ended(b) => Ended(b)'
                 /\ LifeOf(b)'
      <3>1. LifeOf(b)
        BY DEF Inv
      <3>2. Ended(b) => Ended(b)'
        BY <1>2, <2>6, EndedKept
      <3>3. QED
        BY <1>2, <3>1, <3>2 DEF LifeOf, Started
    <2>8. linked' \subseteq Serving' /\ OperationalOnlyIsKept'
      BY <1>2, <2>6 DEF Inv, OperationalOnlyIsKept
    <2>9. Serving' \cup link_timers' \cup unlink_timers' \subseteq Touched
      BY <2>1, <2>6 DEF Touched
    <2>10. Serving \cap (linking' \cup linked') \subseteq Serving'
      BY <2>6
    <2>11. /\ linking' \subseteq linking
           /\ linking' \cup linked' \subseteq linking \cup linked
      BY <2>6
    <2>12. QED
      BY <2>2, <2>4, <2>5, <2>7, <2>8, <2>9, <2>10, <2>11, Keeps
  <1>5. QED
    BY <1>3, <1>4

LEMMA OnUnlinkResponseInv == ASSUME Inv, NEW l \in Localities, OnUnlinkResponse(l) PROVE Inv'
  <1> DEFINE m == Head(queue[l])
             x == m.link
             n == About("shutdown_error", x[2])
  <1>1. /\ queue[l] # <<>> /\ m.kind = "unlink_response" /\ Home[Receiver(m)] = l
        /\ UNCHANGED <<lives, unlink_queue, held>>
    BY DEF OnUnlinkResponse, Due
  <1>2. /\ Says(m) /\ x \in Wants /\ x[2] \in Actors /\ TypeOK
    BY <1>1, Arrives DEF Inv, Says, LinkKinds
  <1>3. Home[x[2]] = l
    BY <1>1 DEF Receiver, ToServer
  <1>4. \/ /\ \E s \in {<<>>, <<n>>} : Handled(l, s)
           /\ UNCHANGED <<clients, servers>>
           /\ fault' \in {fault, "on_unlink_response"}
        \/ m.ok /\ ForgetClient(x, l)
    BY DEF OnUnlinkResponse, Link
  <1>5. CASE m.ok /\ ForgetClient(x, l)
    <2>1. x \notin linking \cup linked
      BY <1>1, <1>2, <1>5 DEF Says, LetsGo
    <2> HIDE DEF m, x
    <2>2. QED
      BY <1>1, <1>2, <1>3, <1>5, <2>1, ForgetClientInv
  <1>6. CASE /\ \E s \in {<<>>, <<n>>} : Handled(l, s)
             /\ UNCHANGED <<clients, servers>>
             /\ fault' \in {fault, "on_unlink_response"}
    <2>1. n \in Message /\ Harmless(n)
      BY <1>2, AboutType DEF ToClientsSup, Harmless, LinkKinds, Granted, LetsGo
    <2>2. PICK s \in {<<>>, <<n>>} : Handled(l, s)
      BY <1>6
    <2> HIDE DEF m, x, n
    <2>3. s \in Seq(Message) /\ \A k \in Range(s) : Harmless(k)
      BY <2>1, Few
    <2>4. /\ UNCHANGED <<linking, linked, pending, active, unlinking, link_timers, unlink_timers>>
          /\ UNCHANGED <<state, init_request, asked, holding, deaf, unlink_queue, held>>
      BY <1>1, <1>6 DEF clients, servers, lives
    <2>5. fault' \in Faults
      BY <1>2, <1>6 DEF TypeOK, Faults
    <2>6. QED
      BY <1>1, <1>2, <2>2, <2>3, <2>4, <2>5, QuietlyHandled DEF TypeOK, m
  <1>7. QED
    BY <1>4, <1>5, <1>6

LEMMA OnUnlinkNotifyInv == ASSUME Inv, NEW l \in Localities, OnUnlinkNotify(l) PROVE Inv'
  <1> DEFINE m == Head(queue[l])
             x == m.link
  <1>1. /\ queue[l] # <<>> /\ m.kind = "unlink_notify" /\ Home[Receiver(m)] = l
        /\ UNCHANGED <<lives, unlink_queue, held>>
    BY DEF OnUnlinkNotify, Due
  <1>2. /\ Says(m) /\ x \in Wants /\ x[2] \in Actors /\ TypeOK
    BY <1>1, Arrives DEF Inv, Says, LinkKinds
  <1>3. Home[x[2]] = l
    BY <1>1 DEF Receiver, ToServer
  <1>4. \/ /\ Handled(l, <<>>) /\ UNCHANGED <<clients, servers>>
           /\ fault' \in {"on_unlink_notify", "cancel_timer"}
        \/ ForgetClient(x, l)
    BY DEF OnUnlinkNotify, Link
  <1>5. CASE ForgetClient(x, l)
    <2>1. x \notin linking \cup linked
      BY <1>1, <1>2 DEF Says, LetsGo
    <2> HIDE DEF m, x
    <2>2. QED
      BY <1>1, <1>2, <1>3, <1>5, <2>1, ForgetClientInv
  <1>6. CASE /\ Handled(l, <<>>) /\ UNCHANGED <<clients, servers>>
             /\ fault' \in {"on_unlink_notify", "cancel_timer"}
    <2>1. /\ UNCHANGED <<linking, linked, pending, active, unlinking, link_timers, unlink_timers>>
          /\ UNCHANGED <<state, init_request, asked, holding, deaf, unlink_queue, held>>
      BY <1>1, <1>6 DEF clients, servers, lives
    <2>2. fault' \in Faults
      BY <1>6 DEF Faults
    <2> HIDE DEF x
    <2>3. QED
      BY <1>1, <1>2, <1>6, <2>1, <2>2, Few, QuietlyHandled DEF TypeOK
  <1>7. QED
    BY <1>4, <1>5, <1>6

LEMMA OnUnsubscriptionInv == ASSUME Inv, NEW l \in Localities, OnUnsubscription(l) PROVE Inv'
  <1> DEFINE m == Head(queue[l])
             a == m.link[1]
             none == {}
  <1>1. /\ queue[l] # <<>> /\ m.kind = "unsubscription"
        /\ state' = [state EXCEPT ![a] = "SHUT_DOWN"]
        /\ deaf' = deaf \cup {a}
        /\ Handled(l, <<>>)
        /\ UNCHANGED <<clients, servers, init_request, asked, holding, held, fault>>
    BY DEF OnUnsubscription, Due, Subject, Link
  <1>2. a \in Actors /\ TypeOK /\ Says(m)
    BY <1>1, Arrives DEF Inv
  <1>3. Ended(a)
    BY <1>1, <1>2 DEF Says
  <1> HIDE DEF m, a
  <1>4. \A k \in none : k.kind # "init_request" /\ Says(k)'
                        /\ (k.kind \in LinkKinds => k.link \in Touched)
    OBVIOUS
  <1>5. <<>> \in Seq(Message) /\ Range(<<>>) = none
    BY Few
  <1> HIDE DEF none
  <1>6. /\ queue' \in [Localities -> Seq(Message)]
        /\ InitOnce'
        /\ InFlight' \subseteq InFlight \cup none
    BY <1>1, <1>4, <1>5, HandledPosts
  <1>7. UNCHANGED <<linking, linked, unlink_queue, link_timers,
                    pending, active, unlinking, unlink_timers>>
    BY <1>1 DEF clients, servers
  <1>8. Serving' = Serving
    BY <1>7 DEF Serving
  <1>9. /\ TypeOK'
        /\ state'[a] = "SHUT_DOWN" /\ a \in deaf'
        /\ \A b \in Actors \ {a} : state'[b] = state[b]
    BY <1>1, <1>2, <1>6, <1>7 DEF TypeOK, States
  <1>10. ASSUME NEW b \in Actors
         PROVE  /\ Started(b) => Started(b)'
                /\ Ended(b) => Ended(b)'
                /\ LifeOf(b)'
    <2>1. LifeOf(b)
      BY DEF Inv
    <2>2. Ended(b) => Ended(b)'
      BY <1>7, <1>8, <1>9, EndedKept
    <2>3. Started(b) => Started(b)'
      BY <1>9 DEF Started
    <2>4. CASE b = a
      BY <1>3, <1>9, <2>2, <2>3, <2>4 DEF LifeOf
    <2>5. CASE b # a
      BY <1>1, <1>9, <2>1, <2>2, <2>3, <2>5 DEF LifeOf
    <2>6. QED
      BY <2>4, <2>5
  <1>11. linked' \subseteq Serving' /\ OperationalOnlyIsKept'
    <2>1. \A x \in linked \cap Strict : Started(x[2]) /\ x[2] \in Actors
      BY LinksAssumption DEF Inv, OperationalOnlyIsKept, Started
    <2>2. QED
      BY <1>7, <1>8, <1>10, <2>1 DEF Inv, OperationalOnlyIsKept, Started
  <1>12. Serving' \cup link_timers' \cup unlink_timers' \subseteq Touched
    BY <1>7, <1>8 DEF Touched
  <1>13. /\ linking' \subseteq linking
         /\ linking' \cup linked' \subseteq linking \cup linked
         /\ Serving \cap (linking' \cup linked') \subseteq Serving'
    BY <1>7, <1>8
  <1>14. QED
    BY <1>4, <1>6, <1>9, <1>10, <1>11, <1>12, <1>13, Keeps

---------------------------------------------------------------------------
LEMMA NextInv == ASSUME Inv, [Next]_vars PROVE Inv'
  <1>1. CASE UNCHANGED vars
    <2>1. UNCHANGED <<state, init_request, asked, linking, linked, pending, active, unlinking,
                      link_timers, unlink_timers, unlink_queue, held, holding, deaf,
                      queue, fault>>
      BY <1>1 DEF vars, clients, servers, lives
    <2>2. InFlight' = InFlight /\ Serving' = Serving
      BY <2>1 DEF InFlight, Serving
    <2>3. \A m \in InFlight : Says(m)' = Says(m)
      BY <2>1, <2>2 DEF Says, Granted, LetsGo, Started, Ended, Clients, Servers
    <2>4. TypeOK' = TypeOK /\ InitOnce' = InitOnce
      BY <2>1 DEF TypeOK, InitOnce, InitsAtHome
    <2>5. OperationalOnlyIsKept' = OperationalOnlyIsKept
      BY <2>1 DEF OperationalOnlyIsKept
    <2>6. \A a \in Actors : LifeOf(a)' = LifeOf(a)
      BY <2>1 DEF LifeOf, Ended, Clients, Servers
    <2>7. Touched' = Touched /\ \A x \in Wants : Untouched(x)' = Untouched(x)
      BY <2>1, <2>2 DEF Touched, Untouched
    <2>8. QED
      BY <2>1, <2>2, <2>3, <2>4, <2>5, <2>6, <2>7 DEF Inv
  <1>2. ASSUME NEW l \in Localities, Deliver(l) PROVE Inv'
    BY <1>2, OnInitRequestInv, OnStartInv, OnLinkRequestInv, OnLinkReplyInv, OnLinkResponseInv,
       OnShutdownTriggerInv, OnShutdownRequestInv, OnUnlinkRequestInv, OnUnlinkReplyInv,
       OnUnlinkResponseInv, OnUnlinkNotifyInv, OnShutdownErrorInv, OnUnsubscriptionInv,
       TransferInv, DropInv DEF Deliver
  <1>3. ASSUME NEW a \in Actors, UserShutdown(a) \/ Release(a) PROVE Inv'
    BY <1>3, UserShutdownInv, ReleaseInv
  <1>4. ASSUME NEW x \in Wants, LinkTimeout(x) \/ UnlinkTimeout(x) \/ UserForgets(x) PROVE Inv'
    BY <1>4, LinkTimeoutInv, UnlinkTimeoutInv, UserForgetsInv
  <1>5. QED
    BY <1>1, <1>2, <1>3, <1>4 DEF Next

\* The inductive invariant holds in every state (for any constants).
THEOREM Invariance == Spec => []Inv
  BY InitInv, NextInv, PTL DEF Spec

\* operational_only (link_server.cpp, on_link_request() and handle_start()): a
\* link asked for with it is not in force before its server is OPERATIONAL,
\* whatever the order of the requests, starts, timeouts and shutdowns.
THEOREM OperationalKept == Spec => []OperationalOnlyIsKept
  <1>1. Inv => OperationalOnlyIsKept
    BY DEF Inv
  <1>2. QED
    BY <1>1, Invariance, PTL

---------------------------------------------------------------------------
\* The refinement.
Gone == {a \in Actors : state[a] = "SHUT_DOWN"}

\* A step that makes no link and ends no actor.
LEMMA LettingGo ==
    ASSUME linked' \subseteq linked, Gone' = Gone
    PROVE  L!Next
  <1> DEFINE S == linked \ linked'
  <1>1. S \in SUBSET linked /\ linked' = linked \ S
    OBVIOUS
  <1> HIDE DEF S
  <1>2. L!Unlink(S)
    BY <1>1 DEF L!Unlink, Gone
  <1>3. QED
    BY <1>1, <1>2 DEF L!Next

\* The states of the others stay, and that of a is not SHUT_DOWN.
LEMMA NobodyEnds ==
    ASSUME TypeOK, NEW a \in Actors, NEW s \in States \ {"SHUT_DOWN"},
           state[a] # "SHUT_DOWN",
           state' = state \/ state' = [state EXCEPT ![a] = s]
    PROVE  Gone' = Gone
  <1>1. state \in [Actors -> States]
    BY DEF TypeOK
  <1>2. \A b \in Actors : state'[b] = state[b] \/ (b = a /\ state'[b] = s)
    BY <1>1
  <1>3. \A b \in Actors : state'[b] = "SHUT_DOWN" <=> state[b] = "SHUT_DOWN"
    BY <1>2
  <1>4. QED
    BY <1>3 DEF Gone

LEMMA ContinueLetsGo ==
    ASSUME NEW a, NEW erased, NEW busy, NEW q, ShutdownContinue(a, erased, busy, q)
    PROVE  linked' \subseteq linked
  BY DEF ShutdownContinue

LEMMA ForgetsLink ==
    ASSUME NEW x, NEW q, ForgetLink(x, q)
    PROVE  linked' \subseteq linked
  BY ContinueLetsGo DEF ForgetLink

LEMMA ForgetsClient ==
    ASSUME NEW x, NEW l, ForgetClient(x, l)
    PROVE  linked' \subseteq linked
  BY ContinueLetsGo DEF ForgetClient

\* The step by which a link is made: both ends have a record of it.
LEMMA OnLinkResponseMaps ==
    ASSUME Inv, NEW l \in Localities, OnLinkResponse(l)
    PROVE  L!Next \/ UNCHANGED <<linked, Gone>>
  <1> DEFINE m == Head(queue[l])
             x == m.link
             c == x[1]
  <1>1. queue[l] # <<>> /\ m.kind = "link_response"
    BY DEF OnLinkResponse, Due
  <1>2. /\ x \in Wants /\ c \in Actors /\ x[2] \in Actors
        /\ Says(m) /\ TypeOK
    BY <1>1, Arrives DEF Inv, Says, LinkKinds
  <1>3. /\ linked' \in {linked, linked \cup {x}}
        /\ linked' # linked => m.ok /\ x \in linking
        /\ state' = state \/ (state[c] # "SHUT_DOWN"
                                /\ state' = [state EXCEPT ![c] = "INITIALIZED"])
    BY DEF OnLinkResponse, Link
  <1> HIDE DEF m, x, c
  <1>4. Gone' = Gone
    <2>1. CASE state' = state
      BY <2>1 DEF Gone
    <2>2. CASE state[c] # "SHUT_DOWN" /\ state' = [state EXCEPT ![c] = "INITIALIZED"]
      BY <1>2, <2>2, NobodyEnds DEF States
    <2>3. QED
      BY <1>3, <2>1, <2>2
  <1>5. CASE linked' # linked
    <2>1. x \in linking /\ x \in Serving /\ x \notin linked /\ linked' = linked \cup {x}
      BY <1>1, <1>2, <1>3, <1>5 DEF Says, Granted, x
    <2>2. ~Ended(x[1]) /\ ~Ended(x[2])
      BY <2>1 DEF Ended, Clients, Servers, Serving
    <2>3. x[1] \notin Gone /\ x[2] \notin Gone
      BY <1>2, <2>2 DEF Inv, LifeOf, Gone
    <2>4. L!Link(x)
      BY <1>2, <1>4, <2>1, <2>3 DEF L!Link, Gone
    <2>5. QED
      BY <1>2, <2>4 DEF L!Next
  <1>6. QED
    BY <1>4, <1>5

\* The step by which an actor ends: it counts on nobody, and nobody on it.
LEMMA OnUnsubscriptionMaps ==
    ASSUME Inv, NEW l \in Localities, OnUnsubscription(l)
    PROVE  L!Next
  <1> DEFINE m == Head(queue[l])
  <1>1. /\ queue[l] # <<>> /\ m.kind = "unsubscription"
        /\ state' = [state EXCEPT ![m.link[1]] = "SHUT_DOWN"]
        /\ linked' = linked
    BY DEF OnUnsubscription, Due, Subject, Link, clients
  <1>2. m.link[1] \in Actors /\ TypeOK /\ Says(m)
    BY <1>1, Arrives DEF Inv
  <1>3. PICK a \in Actors : a = m.link[1]
    BY <1>2
  <1>4. Ended(a)
    BY <1>1, <1>2, <1>3 DEF Says
  <1> HIDE DEF m
  <1>5. Gone' = Gone \cup {a}
    BY <1>1, <1>2, <1>3 DEF Gone, TypeOK
  <1>6. \A x \in linked : a \notin {x[1], x[2]}
    BY <1>4 DEF Inv, Ended, Clients, Servers, Serving
  <1>7. L!End(a)
    BY <1>1, <1>5, <1>6 DEF L!End, Gone
  <1>8. QED
    BY <1>7 DEF L!Next

LEMMA StepMaps ==
    ASSUME Inv, [Next]_vars
    PROVE  L!Next \/ UNCHANGED <<linked, Gone>>
  <1>1. TypeOK
    BY DEF Inv
  <1>2. CASE linked' \subseteq linked /\ state' = state
    BY <1>2, LettingGo DEF Gone
  <1>3. CASE UNCHANGED vars
    BY <1>2, <1>3 DEF vars, clients, lives
  <1>4. ASSUME NEW a \in Actors, UserShutdown(a) \/ Release(a)
        PROVE  linked' \subseteq linked /\ state' = state
    BY <1>4, ContinueLetsGo DEF UserShutdown, Release, clients, lives
  <1>5. ASSUME NEW x \in Wants, LinkTimeout(x) \/ UnlinkTimeout(x) \/ UserForgets(x)
        PROVE  linked' \subseteq linked /\ state' = state
    BY <1>5, ForgetsLink DEF LinkTimeout, UnlinkTimeout, UserForgets, clients, lives
  <1>6. ASSUME NEW l \in Localities, Deliver(l)
        PROVE  L!Next \/ UNCHANGED <<linked, Gone>>
    <2> DEFINE a == Subject(l)
    <2>1. CASE \/ OnLinkRequest(l) \/ OnLinkReply(l) \/ OnShutdownTrigger(l)
               \/ OnUnlinkReply(l) \/ OnShutdownError(l) \/ Transfer(l) \/ Drop(l)
      <3>1. linked' = linked /\ state' = state
        BY <2>1 DEF OnLinkRequest, OnLinkReply, OnShutdownTrigger, OnUnlinkReply,
           OnShutdownError, Transfer, Drop, clients, lives
      <3>2. QED
        BY <1>2, <3>1
    <2>2. CASE OnUnlinkRequest(l) \/ OnUnlinkResponse(l) \/ OnUnlinkNotify(l)
      <3>1. state' = state
        BY <2>2 DEF OnUnlinkRequest, OnUnlinkResponse, OnUnlinkNotify, lives
      <3>2. linked' \subseteq linked
        BY <2>2, ForgetsLink, ForgetsClient
           DEF OnUnlinkRequest, OnUnlinkResponse, OnUnlinkNotify, clients
      <3>3. QED
        BY <1>2, <3>1, <3>2
    <2>3. CASE OnInitRequest(l) \/ OnStart(l)
      <3>1. queue[l] # <<>>
        BY <2>3 DEF OnInitRequest, OnStart, Due
      <3>2. a \in Actors
        BY <3>1, Arrives DEF Subject, Link
      <3>3. PICK s \in {"INITIALIZED", "OPERATIONAL"} :
                \/ state' = state
                \/ state[a] # "SHUT_DOWN" /\ state' = [state EXCEPT ![a] = s]
        BY <2>3 DEF OnInitRequest, OnStart
      <3>4. linked' = linked
        BY <2>3 DEF OnInitRequest, OnStart, clients
      <3> HIDE DEF a
      <3>5. CASE state' = state
        BY <1>2, <3>4, <3>5
      <3>6. CASE state[a] # "SHUT_DOWN" /\ state' = [state EXCEPT ![a] = s]
        <4>1. Gone' = Gone
          BY <1>1, <3>2, <3>6, NobodyEnds DEF States
        <4>2. QED
          BY <3>4, <4>1
      <3>7. QED
        BY <3>3, <3>5, <3>6
    <2>4. CASE OnShutdownRequest(l)
      <3>1. /\ queue[l] # <<>> /\ Head(queue[l]).kind = "shutdown_request"
            /\ Heard(Head(queue[l]))
            /\ state' = [state EXCEPT ![a] = "SHUTTING_DOWN"]
            /\ linked' \subseteq linked
        BY <2>4, ContinueLetsGo DEF OnShutdownRequest, Due
      <3>2. a \in Actors /\ a \notin deaf
        BY <3>1, Arrives DEF Subject, Link, Heard, Receiver, ToClient, ToServer, ToServersSup
      <3>3. state[a] # "SHUT_DOWN"
        BY <3>2 DEF Inv, LifeOf
      <3> HIDE DEF a
      <3>4. Gone' = Gone
        BY <1>1, <3>1, <3>2, <3>3, NobodyEnds DEF States
      <3>5. QED
        BY <3>1, <3>4, LettingGo
    <2>5. QED
      BY <1>6, <2>1, <2>2, <2>3, <2>4, OnLinkResponseMaps, OnUnsubscriptionMaps DEF Deliver
  <1>7. QED
    BY <1>2, <1>3, <1>4, <1>5, <1>6 DEF Next

\* What linking is for: a server is not SHUT_DOWN while a client counts on it,
\* nor a client while it counts on a server (link_client.cpp, link_server.cpp).
THEOREM LinksKept == Spec => ImplementsLinks
  <1>1. Init => L!Init
    BY DEF Init, L!Init
  <1>2. Inv /\ [Next]_vars => [L!Next]_<<linked, Gone>>
    BY StepMaps
  <1>3. QED
    BY <1>1, <1>2, Invariance, PTL DEF Spec, ImplementsLinks, L!Spec, Gone

---------------------------------------------------------------------------
\* That no assertion fails, where the links of whoever is shut down are settled.

\* The client of link x has no other link, and an actor is always there for
\* its clients: user code does not end it, and no server can.
Alone(x) == \A y \in Wants : y # x => x[1] \notin {y[1], y[2]}
Steady(a) == a \notin Quitters /\ \A x \in Wants : x[1] # a

\* User code shuts an actor down between its links only, clients let go in
\* time, and who has several links is not told by one of them to shut down.
Calm ==
    /\ Quitters \cap Hasty = {}
    /\ UnlinkExpires \cap Wants = {}
    /\ \A x \in Wants : Alone(x) \/ (Steady(x[2]) /\ x \notin LinkExpires)

\* The supervisor of a is going to shut it down, or has asked it to.
Going(a) ==
    \/ a \in asked
    \/ \E m \in InFlight : m.kind = "shutdown_trigger" /\ m.link[1] = a

\* A link of a is still to be made.
Unsettled(a) == \E x \in Wants : a \in {x[1], x[2]} /\ (x \in linking \/ Untouched(x))

Tells(m) ==
    /\ m.kind = "init_request" => m = About("init_request", m.link[1])
    /\ m.kind = "shutdown_request" => m.link[1] \in asked
    /\ m.kind = "unlink_request" => Going(m.link[2])
    /\ m.kind = "link_response" => m.link \in linking
    /\ m.kind \in {"link_reply", "link_response"} /\ ~m.ok => Alone(m.link)
    /\ LetsGo(m) => m.link \in Serving
    /\ m.kind = "unlink_response" => m.ok
    /\ m.kind # "shutdown_error"

\* Of a link one answer at most is under way, and it is let go of once.
Same(m, n) ==
    /\ m.link = n.link
    /\ \/ LetsGo(m) /\ LetsGo(n)
       \/ m.kind = "link_response" /\ n.kind = "link_response"
ApartIn(qs) ==
    \A l, k \in Localities : \A i \in 1 .. Len(qs[l]), j \in 1 .. Len(qs[k]) :
        Same(qs[l][i], qs[k][j]) => l = k /\ i = j

Answered(x) == \E m \in InFlight : m.kind = "unlink_response" /\ m.ok /\ m.link = x

Course(a) ==
    /\ Going(a) => ~Unsettled(a) /\ ~Steady(a)
    /\ state[a] \in {"SHUTTING_DOWN", "SHUT_DOWN"} => a \in asked
    /\ a \in deaf => state[a] = "SHUT_DOWN"

Orderly ==
    /\ fault = "none"
    /\ \A a \in Actors : Course(a)
    /\ \A m \in InFlight : Tells(m)
    /\ \A x \in held \cup unlinking \cup unlink_queue : Going(x[2])
    /\ \A x \in linking : state[x[1]] = "INITIALIZING"
    /\ \A x \in link_timers :
        x \in linking /\ \A m \in InFlight : m.kind = "link_response" => m.link # x
    /\ \A x \in unlinking \ unlink_timers : Answered(x)
    /\ ApartIn(queue)

---------------------------------------------------------------------------
\* The messages of all the queues of qs.
AllOf(qs) == UNION {Range(qs[l]) : l \in Localities}

Sparse(s) == \A i, j \in 1 .. Len(s) : Same(s[i], s[j]) => i = j

LEMMA Symmetric == \A m, n : Same(m, n) => Same(n, m)
  BY DEF Same

LEMMA Listed ==
    ASSUME NEW q \in Seq(Message)
    PROVE  /\ Len(q) \in Nat
           /\ \A i \in 1 .. Len(q) : q[i] \in Range(q)
           /\ \A m \in Range(q) : \E i \in 1 .. Len(q) : q[i] = m
  <1>1. Len(q) \in Nat /\ DOMAIN q = 1 .. Len(q)
    OBVIOUS
  <1>2. QED
    BY <1>1 DEF Range

\* The first message of queue l is taken; s is sent, where nothing is like it.
Shortens(qs, l, rs) ==
    /\ qs \in [Localities -> Seq(Message)] /\ ApartIn(qs)
    /\ l \in Localities /\ qs[l] # <<>>
    /\ rs = [qs EXCEPT ![l] = Tail(qs[l])]
Lengthens(qs, h, s, rs) ==
    /\ qs \in [Localities -> Seq(Message)] /\ ApartIn(qs)
    /\ h \in Localities
    /\ s \in Seq(Message) /\ Sparse(s)
    /\ rs = [qs EXCEPT ![h] = qs[h] \o s]
    /\ \A m \in Range(s), n \in AllOf(qs) : ~Same(m, n)

\* Without the first message of a queue nothing is left that is like it.
LEMMA Shrunk ==
    ASSUME NEW qs, NEW l, NEW rs, Shortens(qs, l, rs)
    PROVE  /\ rs \in [Localities -> Seq(Message)]
           /\ ApartIn(rs)
           /\ AllOf(qs) = AllOf(rs) \cup {Head(qs[l])}
           /\ \A m \in AllOf(rs) : ~Same(Head(qs[l]), m)
  <1> USE DEF Shortens
  <1> DEFINE q == qs[l]
             r == Tail(q)
  <1>1. /\ q \in Seq(Message) /\ r \in Seq(Message)
        /\ Len(q) \in Nat /\ Len(q) > 0
        /\ Len(r) = Len(q) - 1
        /\ Head(q) = q[1]
        /\ \A i \in 1 .. Len(r) : r[i] = q[i + 1]
    OBVIOUS
  <1> HIDE DEF r
  <1>2. /\ rs \in [Localities -> Seq(Message)]
        /\ rs[l] = r
        /\ \A k \in Localities \ {l} : rs[k] = qs[k]
    BY <1>1 DEF r
  <1> HIDE DEF q
  <1> DEFINE At(k, i) == IF k = l THEN i + 1 ELSE i
  <1>3. ASSUME NEW k \in Localities, NEW i \in 1 .. Len(rs[k])
        PROVE  /\ At(k, i) \in 1 .. Len(qs[k])
               /\ qs[k][At(k, i)] = rs[k][i]
               /\ k = l => At(k, i) # 1
    <2>1. CASE k = l
      <3>1. i \in 1 .. Len(r) /\ rs[k][i] = r[i]
        BY <1>2, <2>1
      <3>2. i + 1 \in 1 .. Len(q) /\ i + 1 # 1
        BY <1>1, <3>1
      <3>3. QED
        BY <1>1, <2>1, <3>1, <3>2 DEF q
    <2>2. CASE k # l
      BY <1>2, <2>2
    <2>3. QED
      BY <2>1, <2>2
  <1>4. ApartIn(rs)
    <2> SUFFICES ASSUME NEW j \in Localities, NEW k \in Localities,
                        NEW m \in 1 .. Len(rs[j]), NEW n \in 1 .. Len(rs[k]),
                        Same(rs[j][m], rs[k][n])
                 PROVE  j = k /\ m = n
      BY DEF ApartIn
    <2>1. /\ At(j, m) \in 1 .. Len(qs[j]) /\ At(k, n) \in 1 .. Len(qs[k])
          /\ Same(qs[j][At(j, m)], qs[k][At(k, n)])
      BY <1>3
    <2> HIDE DEF At
    <2>2. j = k /\ At(j, m) = At(k, n)
      BY <2>1 DEF ApartIn
    <2>3. m \in Int /\ n \in Int
      OBVIOUS
    <2>4. m = n
      BY <2>2, <2>3 DEF At
    <2>5. QED
      BY <2>2, <2>4
  <1>5. \A k \in Localities : \A m \in Range(rs[k]) :
            \E i \in 1 .. Len(qs[k]) : m = qs[k][i] /\ (k = l => i # 1)
    <2> SUFFICES ASSUME NEW k \in Localities, NEW m \in Range(rs[k])
                 PROVE  \E i \in 1 .. Len(qs[k]) : m = qs[k][i] /\ (k = l => i # 1)
      OBVIOUS
    <2> HIDE DEF At
    <2>1. rs[k] \in Seq(Message)
      BY <1>2
    <2>2. PICK i \in 1 .. Len(rs[k]) : rs[k][i] = m
      <3>1. \A n \in Range(rs[k]) : \E i \in 1 .. Len(rs[k]) : rs[k][i] = n
        BY ONLY <2>1, Listed
      <3>2. QED
        BY <3>1
    <2>3. QED
      BY <1>3, <2>2
  <1>6. \A m \in AllOf(rs) : m \in AllOf(qs) /\ ~Same(Head(q), m)
    <2> SUFFICES ASSUME NEW m \in AllOf(rs) PROVE m \in AllOf(qs) /\ ~Same(Head(q), m)
      OBVIOUS
    <2>1. PICK k \in Localities : m \in Range(rs[k])
      BY DEF AllOf
    <2>2. PICK i \in 1 .. Len(qs[k]) : m = qs[k][i] /\ (k = l => i # 1)
      BY <1>5, <2>1
    <2>3. 1 \in 1 .. Len(q)
      BY <1>1
    <2>4. ~Same(q[1], qs[k][i])
      BY <2>2, <2>3 DEF ApartIn, q
    <2>5. m \in AllOf(qs)
      BY <2>2, Listed DEF AllOf
    <2>6. QED
      BY <1>1, <2>2, <2>4, <2>5
  <1>7. \A m \in AllOf(qs) : m \in AllOf(rs) \/ m = Head(q)
    <2> SUFFICES ASSUME NEW m \in AllOf(qs), m # Head(q) PROVE m \in AllOf(rs)
      OBVIOUS
    <2>1. PICK k \in Localities : m \in Range(qs[k])
      BY DEF AllOf
    <2>2. CASE k # l
      BY <1>2, <2>1, <2>2 DEF AllOf
    <2>3. CASE k = l
      <3>1. PICK i \in 1 .. Len(q) : q[i] = m
        BY <1>1, <2>1, <2>3, Listed DEF q
      <3>2. i - 1 \in 1 .. Len(r) /\ (i - 1) + 1 = i
        BY <1>1, <3>1
      <3>3. r[i - 1] = m
        BY <1>1, <3>1, <3>2
      <3>4. m \in Range(rs[l])
        BY <1>1, <1>2, <3>2, <3>3, Listed
      <3>5. QED
        BY <3>4 DEF AllOf
    <2>4. QED
      BY <2>2, <2>3
  <1>8. Head(q) \in AllOf(qs)
    <2>1. 1 \in 1 .. Len(q)
      BY <1>1
    <2>2. q[1] \in Range(q)
      BY <1>1, <2>1, Listed
    <2>3. QED
      BY <1>1, <2>2 DEF AllOf, q
  <1>9. QED
    BY <1>2, <1>4, <1>6, <1>7, <1>8 DEF q

\* Messages that are like no other are sent.
LEMMA Lengthened ==
    ASSUME NEW qs, NEW h, NEW s, NEW rs, Lengthens(qs, h, s, rs)
    PROVE  /\ rs \in [Localities -> Seq(Message)]
           /\ ApartIn(rs)
           /\ AllOf(rs) = AllOf(qs) \cup Range(s)
  <1> USE DEF Lengthens
  <1> DEFINE q == qs[h]
             r == q \o s
  <1>1. /\ q \in Seq(Message) /\ r \in Seq(Message)
        /\ Len(q) \in Nat /\ Len(s) \in Nat
        /\ Len(r) = Len(q) + Len(s)
        /\ \A i \in 1 .. Len(q) : r[i] = q[i]
        /\ \A i \in 1 .. Len(s) : r[Len(q) + i] = s[i]
    OBVIOUS
  <1>2. /\ rs \in [Localities -> Seq(Message)]
        /\ rs[h] = r
        /\ \A k \in Localities \ {h} : rs[k] = qs[k]
    BY <1>1
  <1> HIDE DEF r, q
  <1> DEFINE Old(k, i) == i \in 1 .. Len(qs[k]) /\ rs[k][i] = qs[k][i]
             New(k, i) == /\ k = h /\ i - Len(q) \in 1 .. Len(s)
                          /\ rs[k][i] = s[i - Len(q)]
  <1>3. ASSUME NEW k \in Localities, NEW i \in 1 .. Len(rs[k])
        PROVE  Old(k, i) \/ New(k, i)
    <2>1. CASE k # h
      BY <1>2, <2>1
    <2>2. CASE k = h /\ i \in 1 .. Len(q)
      BY <1>1, <1>2, <2>2 DEF q
    <2>3. CASE k = h /\ i \notin 1 .. Len(q)
      <3>1. i \in 1 .. Len(r) /\ rs[k][i] = r[i]
        BY <1>2, <2>3
      <3>2. i - Len(q) \in 1 .. Len(s) /\ Len(q) + (i - Len(q)) = i
        BY <1>1, <2>3, <3>1
      <3>3. r[i] = s[i - Len(q)]
        BY <1>1, <3>2
      <3>4. QED
        BY <2>3, <3>1, <3>2, <3>3
    <2>4. QED
      BY <2>1, <2>2, <2>3
  <1>4. ASSUME NEW k \in Localities, NEW i \in 1 .. Len(rs[k])
        PROVE  /\ Old(k, i) => rs[k][i] \in AllOf(qs)
               /\ New(k, i) => rs[k][i] \in Range(s)
    <2>1. Old(k, i) => rs[k][i] \in Range(qs[k])
      BY Listed
    <2>2. New(k, i) => rs[k][i] \in Range(s)
      BY Listed
    <2>3. QED
      BY <2>1, <2>2 DEF AllOf
  <1>5. ApartIn(rs)
    <2> SUFFICES ASSUME NEW j \in Localities, NEW k \in Localities,
                        NEW m \in 1 .. Len(rs[j]), NEW n \in 1 .. Len(rs[k]),
                        Same(rs[j][m], rs[k][n])
                 PROVE  j = k /\ m = n
      BY DEF ApartIn
    <2>1. CASE Old(j, m) /\ Old(k, n)
      BY <2>1 DEF ApartIn
    <2>2. CASE New(j, m) /\ New(k, n)
      <3>1. j = k
        BY <2>2
      <3>2. m - Len(q) = n - Len(q)
        BY <2>2 DEF Sparse
      <3>3. m \in Int /\ n \in Int /\ Len(q) \in Int
        BY <1>1
      <3>4. QED
        BY <3>1, <3>2, <3>3
    <2>3. CASE Old(j, m) /\ New(k, n)
      <3>1. rs[j][m] \in AllOf(qs) /\ rs[k][n] \in Range(s)
        BY <1>4, <2>3
      <3>2. QED
        BY <3>1, Symmetric
    <2>4. CASE New(j, m) /\ Old(k, n)
      <3>1. rs[k][n] \in AllOf(qs) /\ rs[j][m] \in Range(s)
        BY <1>4, <2>4
      <3>2. QED
        BY <3>1
    <2> HIDE DEF Old, New
    <2>5. QED
      BY <1>3, <2>1, <2>2, <2>3, <2>4
  <1>6. AllOf(rs) \subseteq AllOf(qs) \cup Range(s)
    <2> SUFFICES ASSUME NEW m \in AllOf(rs) PROVE m \in AllOf(qs) \cup Range(s)
      OBVIOUS
    <2>1. PICK k \in Localities : m \in Range(rs[k])
      BY DEF AllOf
    <2> HIDE DEF Old, New
    <2>2. PICK i \in 1 .. Len(rs[k]) : rs[k][i] = m
      <3>1. rs[k] \in Seq(Message)
        BY <1>2
      <3>2. \A n \in Range(rs[k]) : \E i \in 1 .. Len(rs[k]) : rs[k][i] = n
        BY ONLY <3>1, Listed
      <3>3. QED
        BY <2>1, <3>2
    <2>3. QED
      BY <1>3, <1>4, <2>2
  <1>7. AllOf(qs) \subseteq AllOf(rs)
    <2>1. \A m \in Range(q) : m \in Range(r)
      <3> SUFFICES ASSUME NEW m \in Range(q) PROVE m \in Range(r)
        OBVIOUS
      <3>1. PICK i \in 1 .. Len(q) : q[i] = m
        BY <1>1, Listed
      <3>2. i \in 1 .. Len(r) /\ r[i] = m
        BY <1>1, <3>1
      <3>3. QED
        BY <1>1, <3>2, Listed
    <2>2. QED
      BY <1>2, <2>1 DEF AllOf, q
  <1>8. Range(s) \subseteq AllOf(rs)
    <2> SUFFICES ASSUME NEW m \in Range(s) PROVE m \in AllOf(rs)
      OBVIOUS
    <2>1. PICK i \in 1 .. Len(s) : s[i] = m
      BY Listed
    <2>2. Len(q) + i \in 1 .. Len(r)
      BY <1>1, <2>1
    <2>3. r[Len(q) + i] = m
      BY <1>1, <2>1
    <2>4. m \in Range(rs[h])
      BY <1>1, <1>2, <2>2, <2>3, Listed
    <2>5. QED
      BY <2>4 DEF AllOf
  <1>9. QED
    BY <1>2, <1>5, <1>6, <1>7, <1>8

\* Queue h is to become q: no two messages are alike, and those that are left.
Base(h, q) ==
    /\ [queue EXCEPT ![h] = q] \in [Localities -> Seq(Message)]
    /\ ApartIn([queue EXCEPT ![h] = q])
Left(h, q) == AllOf([queue EXCEPT ![h] = q])

\* Messages of which many may be under way.
Plain(m) == ~LetsGo(m) /\ m.kind # "link_response"

LEMMA Unlike ==
    ASSUME NEW s \in Seq(Message), \A m \in Range(s) : Plain(m)
    PROVE  Sparse(s) /\ \A m \in Range(s) : \A n : ~Same(m, n)
  <1>1. \A m \in Range(s) : \A n : ~Same(m, n)
    BY DEF Plain, Same
  <1>2. \A i \in 1 .. Len(s) : s[i] \in Range(s)
    BY Listed
  <1>3. QED
    BY <1>1, <1>2 DEF Sparse

LEMMA Short ==
    ASSUME NEW m \in Message
    PROVE  Sparse(<<>>) /\ Sparse(<<m>>)
  <1>1. Len(<<>>) = 0 /\ Len(<<m>>) = 1
    OBVIOUS
  <1>2. \A i, j \in 1 .. Len(<<>>) : i = j
    BY <1>1
  <1>3. \A i, j \in 1 .. Len(<<m>>) : i = j
    BY <1>1
  <1>4. QED
    BY <1>2, <1>3 DEF Sparse

LEMMA Takes ==
    ASSUME Inv, Orderly, NEW l \in Localities, queue[l] # <<>>
    PROVE  /\ Base(l, Tail(queue[l]))
           /\ InFlight = Left(l, Tail(queue[l])) \cup {Head(queue[l])}
           /\ \A m \in Left(l, Tail(queue[l])) : ~Same(Head(queue[l]), m)
  <1>1. queue \in [Localities -> Seq(Message)] /\ ApartIn(queue)
    BY DEF Inv, TypeOK, Orderly
  <1> DEFINE rs == [queue EXCEPT ![l] = Tail(queue[l])]
  <1>2. rs = [queue EXCEPT ![l] = Tail(queue[l])]
    OBVIOUS
  <1> HIDE DEF rs
  <1>3. /\ rs \in [Localities -> Seq(Message)]
        /\ ApartIn(rs)
        /\ AllOf(queue) = AllOf(rs) \cup {Head(queue[l])}
        /\ \A m \in AllOf(rs) : ~Same(Head(queue[l]), m)
    <2>1. Shortens(queue, l, rs)
      BY <1>1, <1>2 DEF Shortens
    <2>2. QED
      BY ONLY <2>1, Shrunk
  <1>4. AllOf(queue) = InFlight
    BY DEF AllOf, InFlight
  <1>5. QED
    BY <1>2, <1>3, <1>4 DEF Base, Left

LEMMA AsItIs ==
    ASSUME Inv, Orderly, NEW h \in Localities
    PROVE  Base(h, queue[h]) /\ Left(h, queue[h]) = InFlight
  <1>1. queue \in [Localities -> Seq(Message)] /\ ApartIn(queue)
    BY DEF Inv, TypeOK, Orderly
  <1>2. [queue EXCEPT ![h] = queue[h]] = queue
    BY <1>1
  <1>3. AllOf(queue) = InFlight
    BY DEF AllOf, InFlight
  <1>4. QED
    BY <1>1, <1>2, <1>3 DEF Base, Left

LEMMA Appends ==
    ASSUME Inv, NEW h \in Localities, NEW q, Base(h, q), NEW s \in Seq(Message), Sparse(s),
           \A m \in Range(s), n \in Left(h, q) : ~Same(m, n)
    PROVE  Base(h, q \o s) /\ Left(h, q \o s) = Left(h, q) \cup Range(s)
  <1> DEFINE qs == [queue EXCEPT ![h] = q]
             rs == [queue EXCEPT ![h] = q \o s]
  <1>1. queue \in [Localities -> Seq(Message)]
    BY DEF Inv, TypeOK
  <1>2. qs[h] = q
    BY <1>1
  <1>3. rs = [qs EXCEPT ![h] = qs[h] \o s]
    BY <1>1, <1>2
  <1>4. /\ qs \in [Localities -> Seq(Message)] /\ ApartIn(qs)
        /\ AllOf(qs) = Left(h, q) /\ AllOf(rs) = Left(h, q \o s)
        /\ Base(h, q \o s) <=> rs \in [Localities -> Seq(Message)] /\ ApartIn(rs)
    BY DEF Base, Left
  <1> HIDE DEF qs, rs
  <1>5. /\ rs \in [Localities -> Seq(Message)]
        /\ ApartIn(rs)
        /\ AllOf(rs) = AllOf(qs) \cup Range(s)
    <2>1. Lengthens(qs, h, s, rs)
      BY <1>3, <1>4 DEF Lengthens
    <2>2. QED
      BY ONLY <2>1, Lengthened
  <1>6. QED
    BY <1>4, <1>5

LEMMA Becomes ==
    ASSUME NEW h, NEW q, Base(h, q), queue' = [queue EXCEPT ![h] = q]
    PROVE  ApartIn(queue') /\ InFlight' = Left(h, q)
  BY DEF Base, Left, AllOf, InFlight

\* A handler takes the first message of its locality and sends s.
LEMMA Sends ==
    ASSUME Inv, Orderly, NEW l \in Localities, queue[l] # <<>>, NEW s \in Seq(Message),
           Sparse(s), \A m \in Range(s), n \in Left(l, Tail(queue[l])) : ~Same(m, n),
           Handled(l, s)
    PROVE  /\ ApartIn(queue')
           /\ InFlight' = Left(l, Tail(queue[l])) \cup Range(s)
  <1>1. queue' = [queue EXCEPT ![l] = Tail(queue[l]) \o s]
    BY DEF Handled
  <1> DEFINE q == Tail(queue[l])
  <1>2. Base(l, q)
    BY Takes
  <1> HIDE DEF q
  <1>3. Base(l, q \o s) /\ Left(l, q \o s) = Left(l, q) \cup Range(s)
    BY <1>2, Appends DEF q
  <1>4. QED
    BY <1>1, <1>3, Becomes DEF q

LEMMA PlainlySends ==
    ASSUME Inv, Orderly, NEW l \in Localities, queue[l] # <<>>, NEW s \in Seq(Message),
           \A m \in Range(s) : Plain(m), Handled(l, s)
    PROVE  /\ ApartIn(queue')
           /\ InFlight' = Left(l, Tail(queue[l])) \cup Range(s)
  <1>1. Sparse(s) /\ \A m \in Range(s) : \A n : ~Same(m, n)
    BY Unlike
  <1>2. QED
    BY <1>1, Sends

---------------------------------------------------------------------------
\* A step takes the messages of G, leaves those of R and sends those of S.
Moved(R, S, G) == /\ InFlight = R \cup G /\ InFlight' = R \cup S
                  /\ ApartIn(queue')

LEMMA Stays ==
    ASSUME Inv, TypeOK', Orderly, NEW R, NEW S, NEW G,
           Moved(R, S, G), fault' = "none",
           asked \subseteq asked', \A a \in asked' : Going(a),
           \A m \in G : m.kind = "shutdown_trigger" => m.link[1] \in asked',
           \A m \in S : m.kind # "init_request" /\ Tells(m)',
           \A m \in S : m.kind = "shutdown_trigger" =>
                            ~Unsettled(m.link[1])' /\ ~Steady(m.link[1]),
           \A x \in linking' : x \in linking \/ Untouched(x),
           \A a \in Actors : /\ state'[a] \in {"SHUTTING_DOWN", "SHUT_DOWN"} => a \in asked'
                             /\ a \in deaf' => state'[a] = "SHUT_DOWN",
           \A m \in R : /\ m.kind = "link_response" => m.link \in linking'
                        /\ LetsGo(m) => m.link \in Serving',
           \A x \in held' \cup unlinking' \cup unlink_queue' :
                x \in held \cup unlinking \cup unlink_queue \/ Going(x[2]),
           \A x \in linking' : state'[x[1]] = "INITIALIZING",
           \A x \in link_timers' :
                x \in linking' /\ \A m \in R \cup S : m.kind = "link_response" => m.link # x,
           \A x \in unlinking' \ unlink_timers' :
                \E m \in R \cup S : m.kind = "unlink_response" /\ m.ok /\ m.link = x
    PROVE  Orderly'
  <1> USE DEF Moved
  <1>1. \A a : Going(a) => Going(a)'
    BY DEF Going
  <1>2. \A x : Untouched(x)' => Untouched(x)
    BY DEF Untouched
  <1>3. \A a \in Actors : Unsettled(a)' => Unsettled(a)
    BY <1>2 DEF Unsettled
  <1>4. ASSUME NEW a \in Actors PROVE Course(a)'
    <2>1. Course(a)
      BY DEF Orderly
    <2>2. ASSUME Going(a)' PROVE ~Unsettled(a)' /\ ~Steady(a)
      <3>1. CASE Going(a)
        BY <1>3, <2>1, <3>1 DEF Course
      <3>2. CASE ~Going(a)
        <4>1. PICK m \in InFlight' : m.kind = "shutdown_trigger" /\ m.link[1] = a
          BY <2>2, <3>2 DEF Going
        <4>2. m \in S
          BY <3>2, <4>1 DEF Going
        <4>3. QED
          BY <4>1, <4>2
      <3>3. QED
        BY <3>1, <3>2
    <2>3. Steady(a)' = Steady(a)
      BY DEF Steady
    <2>4. QED
      BY <2>2, <2>3 DEF Course
  <1>5. ASSUME NEW m \in InFlight' PROVE Tells(m)'
    <2>1. CASE m \in R
      <3>1. Tells(m)
        BY <2>1 DEF Orderly
      <3>2. Alone(m.link)' = Alone(m.link)
        BY DEF Alone
      <3>3. About("init_request", m.link[1])' = About("init_request", m.link[1])
        BY DEF About, Msg
      <3>4. LetsGo(m)' = LetsGo(m)
        BY DEF LetsGo
      <3>5. QED
        BY <1>1, <2>1, <3>1, <3>2, <3>3, <3>4 DEF Tells
    <2>2. QED
      BY <2>1
  <1>6. \A x \in held' \cup unlinking' \cup unlink_queue' : Going(x[2])'
    BY <1>1 DEF Orderly
  <1>7. \A x \in unlinking' \ unlink_timers' : Answered(x)'
    BY DEF Answered
  <1>8. ApartIn(queue)'
    OBVIOUS
  <1>9. QED
    BY <1>4, <1>5, <1>6, <1>7, <1>8 DEF Orderly

\* A step that leaves the records of the links alone, but for the requests to
\* unlink that are put off, and ends no actor.
LEMMA Deferred ==
    ASSUME Inv, TypeOK', Orderly, NEW R, NEW S, NEW G,
           Moved(R, S, G),
           UNCHANGED <<linking, unlinking, unlink_timers, deaf, fault>>,
           \A x \in held' \cup unlink_queue' : x \in held \cup unlink_queue \/ Going(x[2]),
           Serving \subseteq Serving', link_timers' \subseteq link_timers,
           asked \subseteq asked', \A a \in asked' : Going(a),
           \A m \in G : /\ m.kind = "shutdown_trigger" => m.link[1] \in asked'
                        /\ m.kind = "unlink_response" => m \in S \/ m.link \notin unlinking,
           \A m \in S : m.kind # "init_request" /\ Tells(m)',
           \A m \in S : m.kind = "shutdown_trigger" =>
                            ~Unsettled(m.link[1])' /\ ~Steady(m.link[1]),
           \A m \in S : m.kind = "link_response" => m.link \notin link_timers',
           \A a \in Actors : \/ state'[a] = state[a]
                             \/ state[a] = "INITIALIZED" /\ state'[a] = "OPERATIONAL"
    PROVE  Orderly'
  <1> USE DEF Moved
  <1>1. /\ linking' = linking /\ unlinking' = unlinking /\ unlink_timers' = unlink_timers
        /\ deaf' = deaf /\ fault' = fault
    OBVIOUS
  <1>2. \A a \in Actors :
            /\ state'[a] \in {"SHUTTING_DOWN", "SHUT_DOWN"} => a \in asked'
            /\ a \in deaf' => state'[a] = "SHUT_DOWN"
    BY <1>1 DEF Orderly, Course
  <1>3. \A m \in R : /\ m.kind = "link_response" => m.link \in linking'
                     /\ LetsGo(m) => m.link \in Serving'
    BY <1>1 DEF Orderly, Tells
  <1>4. \A x \in linking' : state'[x[1]] = "INITIALIZING"
    <2>1. \A x \in linking : x[1] \in Actors /\ state[x[1]] = "INITIALIZING"
      BY LinksAssumption DEF Orderly, Inv, TypeOK
    <2>2. QED
      BY <1>1, <2>1
  <1>5. \A x \in link_timers' :
            x \in linking' /\ \A m \in R \cup S : m.kind = "link_response" => m.link # x
    BY <1>1 DEF Orderly
  <1>6. \A x \in unlinking' \ unlink_timers' :
            \E m \in R \cup S : m.kind = "unlink_response" /\ m.ok /\ m.link = x
    BY <1>1 DEF Orderly, Answered
  <1>7. \A x \in held' \cup unlinking' \cup unlink_queue' :
            x \in held \cup unlinking \cup unlink_queue \/ Going(x[2])
    BY <1>1
  <1>8. fault' = "none" /\ \A x \in linking' : x \in linking \/ Untouched(x)
    BY <1>1 DEF Orderly
  <1> HIDE DEF Moved
  <1>9. QED
    BY <1>2, <1>3, <1>4, <1>5, <1>6, <1>7, <1>8, Stays

\* A step that leaves the records of the links alone, and ends no actor.
LEMMA Unmoved ==
    ASSUME Inv, TypeOK', Orderly, NEW R, NEW S, NEW G,
           Moved(R, S, G),
           UNCHANGED <<linking, unlinking, unlink_timers, held, unlink_queue, deaf, fault>>,
           Serving \subseteq Serving', link_timers' \subseteq link_timers,
           asked \subseteq asked', \A a \in asked' : Going(a),
           \A m \in G : /\ m.kind = "shutdown_trigger" => m.link[1] \in asked'
                        /\ m.kind = "unlink_response" => m \in S \/ m.link \notin unlinking,
           \A m \in S : m.kind # "init_request" /\ Tells(m)',
           \A m \in S : m.kind = "shutdown_trigger" =>
                            ~Unsettled(m.link[1])' /\ ~Steady(m.link[1]),
           \A m \in S : m.kind = "link_response" => m.link \notin link_timers',
           \A a \in Actors : \/ state'[a] = state[a]
                             \/ state[a] = "INITIALIZED" /\ state'[a] = "OPERATIONAL"
    PROVE  Orderly'
  <1>1. \A x \in held' \cup unlink_queue' : x \in held \cup unlink_queue \/ Going(x[2])
    OBVIOUS
  <1>2. QED
    BY <1>1, Deferred

---------------------------------------------------------------------------
LEMMA InitOrderly == Init => Orderly
  <1> SUFFICES ASSUME Init PROVE Orderly
    OBVIOUS
  <1>1. ASSUME NEW l \in Localities
        PROVE  /\ queue[l] \in Seq(Message)
               /\ \A m \in Range(queue[l]) : m.kind = "init_request"
                                             /\ m = About("init_request", m.link[1])
    <2>1. PICK A \in SUBSET Actors : queue[l] \in ForEach("init_request", {<<a, a>> : a \in A})
      BY AtFirst
    <2>2. {<<a, a>> : a \in A} \in SUBSET (Actors \X Actors)
      OBVIOUS
    <2>3. /\ queue[l] \in Seq(Message)
          /\ \A m \in Range(queue[l]) : /\ m.kind = "init_request" /\ m.ok
                                        /\ m.link \in {<<a, a>> : a \in A}
      BY <2>1, <2>2, EachSent DEF ToClient
    <2>4. ASSUME NEW m \in Range(queue[l]) PROVE m = About("init_request", m.link[1])
      <3>1. m \in Message
        BY <2>3 DEF Range
      <3>2. m.kind = "init_request" /\ m.ok = TRUE
        BY <2>3, <3>1 DEF Message
      <3>3. PICK a \in A : m.link = <<a, a>>
        BY <2>3
      <3>4. m.link[1] = a
        BY <3>3
      <3>5. m = [kind |-> "init_request", link |-> <<a, a>>, ok |-> TRUE]
        BY <3>1, <3>2, <3>3 DEF Message
      <3>6. QED
        BY <3>4, <3>5 DEF About, Msg
    <2>5. QED
      BY <2>3, <2>4
  <1>2. \A m \in InFlight : m.kind = "init_request" /\ m = About("init_request", m.link[1])
    BY <1>1 DEF InFlight
  <1>3. \A m \in InFlight : Tells(m) /\ Plain(m)
    BY <1>2 DEF Tells, LetsGo, Plain
  <1>4. ApartIn(queue)
    <2> SUFFICES ASSUME NEW l \in Localities, NEW k \in Localities,
                        NEW i \in 1 .. Len(queue[l]), NEW j \in 1 .. Len(queue[k])
                 PROVE  ~Same(queue[l][i], queue[k][j])
      BY DEF ApartIn
    <2>1. queue[l][i] \in Range(queue[l])
      BY <1>1, Listed
    <2>2. Plain(queue[l][i])
      BY <1>3, <2>1 DEF InFlight
    <2>3. QED
      BY <2>2 DEF Plain, Same
  <1>5. \A a \in Actors : Course(a)
    <2>1. \A a \in Actors : ~Going(a)
      BY <1>2 DEF Init, Going
    <2>2. QED
      BY <2>1 DEF Init, Course
  <1>6. QED
    BY <1>3, <1>4, <1>5 DEF Init, Orderly

\* s is sent to h, where nothing is taken.
LEMMA Posts ==
    ASSUME Inv, Orderly, NEW h \in Localities, NEW s \in Seq(Message), Sparse(s),
           \A m \in Range(s), n \in InFlight : ~Same(m, n),
           queue' = [queue EXCEPT ![h] = queue[h] \o s]
    PROVE  ApartIn(queue') /\ InFlight' = InFlight \cup Range(s)
  <1> DEFINE q == queue[h]
  <1>1. Base(h, q) /\ Left(h, q) = InFlight
    BY AsItIs
  <1>2. queue' = [queue EXCEPT ![h] = q \o s]
    OBVIOUS
  <1> HIDE DEF q
  <1>3. Base(h, q \o s) /\ Left(h, q \o s) = InFlight \cup Range(s)
    BY <1>1, Appends
  <1>4. QED
    BY <1>2, <1>3, Becomes

\* A message of which much the same can be said at any time.
LEMMA Silent ==
    ASSUME NEW m,
           m.kind \in {"shutdown_trigger", "start_actor", "unsubscription", "link_request"}
    PROVE  Tells(m)' /\ Plain(m)
  BY DEF Tells, Plain, LetsGo

LEMMA UserShutdownOrderly ==
    ASSUME Calm, Inv, Inv', Orderly, NEW a \in Actors, UserShutdown(a)
    PROVE  Orderly'
  <1>1. PICK m : m = About("shutdown_trigger", a)
    OBVIOUS
  <1>2. m \in Message /\ m.kind = "shutdown_trigger" /\ m.link[1] = a
    BY <1>1, AboutType DEF ToClientsSup
  <1>3. /\ queue' = [queue EXCEPT ![Home[a]] = queue[Home[a]] \o <<m>>]
        /\ UNCHANGED <<clients, servers, lives, held, fault>>
        /\ a \in Quitters /\ (a \in Hasty \/ ~Settling(a))
    BY <1>1 DEF UserShutdown, DoShutdown
  <1>4. Home[a] \in Localities
    BY LinksAssumption
  <1>5. <<m>> \in Seq(Message) /\ Range(<<m>>) = {m} /\ Sparse(<<m>>)
    BY <1>2, Few, Short
  <1>6. Plain(m)
    BY <1>2, Silent
  <1>7. ApartIn(queue') /\ InFlight' = InFlight \cup {m}
    BY <1>3, <1>4, <1>5, <1>6, Posts DEF Plain, Same
  <1>8. ~Settling(a) /\ ~Steady(a)
    BY <1>3 DEF Calm, Steady
  <1>9. ~Unsettled(a)'
    <2> SUFFICES ASSUME NEW x \in Wants, a \in {x[1], x[2]}, (x \in linking \/ Untouched(x))'
                 PROVE  FALSE
      BY DEF Unsettled
    <2>1. x \notin linking /\ ~UnderWay(About("init_request", x[1]))
      BY <1>8 DEF Settling
    <2>2. Untouched(x)
      BY <1>2, <1>3, <1>7, <2>1 DEF Untouched, clients
    <2>3. PICK n \in InFlight : n.kind = "init_request" /\ n.link[1] = x[1]
      BY <2>2 DEF Untouched
    <2>4. n = About("init_request", x[1])
      BY <2>3 DEF Orderly, Tells
    <2>5. PICK l \in Localities : n \in Range(queue[l])
      BY DEF InFlight
    <2>6. queue[l] \in Seq(Message)
      BY DEF Inv, TypeOK
    <2>7. PICK i \in 1 .. Len(queue[l]) : queue[l][i] = n
      BY <2>5, <2>6, Listed
    <2>8. QED
      BY <2>1, <2>4, <2>7 DEF UnderWay
  <1> DEFINE S == {m}
             G == {}
  <1>10. InFlight = InFlight \cup G /\ InFlight' = InFlight \cup S /\ Moved(InFlight, S, G)
    BY <1>7 DEF Moved
  <1>11. /\ \A n \in S : n.kind = "shutdown_trigger" /\ n.link[1] = a /\ Tells(n)'
         /\ \A n \in G : FALSE
    BY <1>2, Silent
  <1>12. /\ UNCHANGED <<linking, unlinking, unlink_timers, held, unlink_queue, deaf, fault>>
         /\ Serving' = Serving /\ link_timers' = link_timers
         /\ asked' = asked /\ state' = state
    BY <1>3 DEF clients, servers, lives, Serving
  <1>13. \A b \in asked' : Going(b)
    BY <1>12 DEF Going
  <1> HIDE DEF S, G
  <1>14. TypeOK'
    BY DEF Inv
  <1>15. QED
    BY <1>7, <1>8, <1>9, <1>10, <1>11, <1>12, <1>13, <1>14, Unmoved

LEMMA LinkTimeoutOrderly ==
    ASSUME Calm, Inv, Inv', Orderly, NEW x \in Wants, LinkTimeout(x)
    PROVE  Orderly'
  <1>1. PICK m : m = Failed("link_response", x)
    OBVIOUS
  <1>2. x \in Actors \X Actors /\ x[1] \in Actors /\ Home[x[1]] \in Localities
    BY LinksAssumption
  <1>3. m \in Message /\ m.kind = "link_response" /\ m.link = x /\ ~m.ok
    BY <1>1, <1>2, MsgType DEF ToClient
  <1>4. /\ queue' = [queue EXCEPT ![Home[x[1]]] = queue[Home[x[1]]] \o <<m>>]
        /\ UNCHANGED <<servers, lives, linking, linked, unlink_queue, held, fault>>
        /\ x \in LinkExpires /\ x \in link_timers /\ link_timers' = link_timers \ {x}
    <2>1. queue[Home[x[1]]] \in Seq(Message)
      BY <1>2 DEF Inv, TypeOK
    <2>2. queue' = [queue EXCEPT ![Home[x[1]]] = Append(queue[Home[x[1]]], m)]
      BY <1>1 DEF LinkTimeout
    <2>3. queue' = [queue EXCEPT ![Home[x[1]]] = queue[Home[x[1]]] \o <<m>>]
      BY <1>3, <2>1, <2>2, Few
    <2>4. QED
      BY <2>3 DEF LinkTimeout
  <1>5. <<m>> \in Seq(Message) /\ Range(<<m>>) = {m} /\ Sparse(<<m>>)
    BY <1>3, Few, Short
  <1>6. \A n \in InFlight : ~Same(m, n)
    BY <1>3, <1>4 DEF Orderly, Same, LetsGo
  <1>7. ApartIn(queue') /\ InFlight' = InFlight \cup {m}
    BY <1>2, <1>4, <1>5, <1>6, Posts
  <1>8. x \in linking /\ Alone(x)
    BY <1>4 DEF Orderly, Calm
  <1>9. Tells(m)'
    <2>1. x \in linking' /\ Alone(x)'
      BY <1>4, <1>8 DEF Alone
    <2>2. QED
      BY <1>3, <2>1 DEF Tells, LetsGo
  <1> DEFINE S == {m}
             G == {}
  <1>10. InFlight = InFlight \cup G /\ InFlight' = InFlight \cup S /\ Moved(InFlight, S, G)
    BY <1>7 DEF Moved
  <1>11. /\ \A n \in S : /\ n.kind \notin {"init_request", "shutdown_trigger"}
                          /\ n.link \notin link_timers' /\ Tells(n)'
         /\ \A n \in G : FALSE
    BY <1>3, <1>4, <1>9
  <1>12. /\ UNCHANGED <<linking, unlinking, unlink_timers, held, unlink_queue, deaf, fault>>
         /\ Serving' = Serving /\ asked' = asked /\ state' = state
    BY <1>4 DEF servers, lives, Serving
  <1>13. \A b \in asked' : Going(b)
    BY <1>12 DEF Going
  <1>14. x \notin link_timers' /\ link_timers' \subseteq link_timers
    BY <1>4
  <1> HIDE DEF S, G
  <1>15. TypeOK'
    BY DEF Inv
  <1>16. QED
    BY <1>7, <1>10, <1>11, <1>12, <1>13, <1>14, <1>15, Unmoved

\* A handler that leaves the records of the links alone, and ends no actor.
LEMMA UnmovedHandled ==
    ASSUME Inv, TypeOK', Orderly, NEW l \in Localities, queue[l] # <<>>,
           NEW s \in Seq(Message), Handled(l, s),
           \A m \in Range(s) : /\ m.kind \notin {"init_request", "shutdown_trigger"}
                               /\ Plain(m) /\ Tells(m)',
           NEW h, h = Head(queue[l]),
           h.kind = "shutdown_trigger" => h.link[1] \in asked',
           h.kind = "unlink_response" => h.link \notin unlinking,
           UNCHANGED <<linking, unlinking, unlink_timers, held, unlink_queue, deaf, fault>>,
           Serving \subseteq Serving', link_timers' = link_timers,
           asked \subseteq asked', \A a \in asked' : Going(a),
           \A a \in Actors : \/ state'[a] = state[a]
                             \/ state[a] = "INITIALIZED" /\ state'[a] = "OPERATIONAL"
    PROVE  Orderly'
  <1>1. PICK R : R = Left(l, Tail(queue[l]))
    OBVIOUS
  <1>2. ApartIn(queue') /\ InFlight' = R \cup Range(s)
    BY <1>1, PlainlySends
  <1> DEFINE G == {h}
             S == Range(s)
  <1>3. InFlight = R \cup G
    BY <1>1, Takes
  <1>4. /\ InFlight' = R \cup S
        /\ \A m \in S : /\ m.kind \notin {"init_request", "shutdown_trigger", "link_response"}
                        /\ Tells(m)'
        /\ \A m \in G : /\ m.kind = "shutdown_trigger" => m.link[1] \in asked'
                        /\ m.kind = "unlink_response" => m.link \notin unlinking
    BY <1>2 DEF Plain
  <1> HIDE DEF S, G
  <1>5. Moved(R, S, G)
    BY <1>2, <1>3, <1>4 DEF Moved
  <1>6. QED
    BY <1>4, <1>5, Unmoved

LEMMA AskedGoing ==
    ASSUME asked' = asked
    PROVE  asked \subseteq asked' /\ \A a \in asked' : Going(a)
  BY DEF Going

LEMMA UnlinkTimeoutOrderly == ASSUME Calm, NEW x \in Wants, UnlinkTimeout(x) PROVE Orderly'
  BY DEF Calm, UnlinkTimeout

LEMMA OnShutdownErrorOrderly ==
    ASSUME Inv, Orderly, NEW l \in Localities, OnShutdownError(l)
    PROVE  Orderly'
  <1>1. queue[l] # <<>> /\ Head(queue[l]).kind = "shutdown_error"
    BY DEF OnShutdownError, Due
  <1>2. Head(queue[l]) \in InFlight
    BY <1>1, Arrives
  <1>3. QED
    BY <1>1, <1>2 DEF Orderly, Tells

LEMMA OnShutdownTriggerOrderly ==
    ASSUME Inv, Inv', Orderly, NEW l \in Localities, OnShutdownTrigger(l)
    PROVE  Orderly'
  <1>1. PICK h, a : h = Head(queue[l]) /\ a = h.link[1]
    OBVIOUS
  <1>2. PICK m : m = About("shutdown_request", a)
    OBVIOUS
  <1>3. /\ queue[l] # <<>> /\ h.kind = "shutdown_trigger"
        /\ asked' = asked \cup {a}
        /\ \E s \in {<<>>, <<m>>} : Handled(l, s)
        /\ UNCHANGED <<clients, servers, state, init_request, holding, deaf, held, fault>>
    BY <1>1, <1>2 DEF OnShutdownTrigger, Due, Subject, Link
  <1>4. h \in InFlight /\ a \in Actors
    BY <1>1, <1>3, Arrives
  <1>5. m \in Message /\ m.kind = "shutdown_request" /\ m.link[1] = a
    BY <1>2, <1>4, AboutType DEF ToClient
  <1>6. PICK s \in {<<>>, <<m>>} : Handled(l, s)
    BY <1>3
  <1>7. s \in Seq(Message) /\ Range(s) \subseteq {m}
    BY <1>5, Few
  <1>8. /\ m.kind \notin {"init_request", "shutdown_trigger"}
        /\ Plain(m) /\ Tells(m)'
    BY <1>3, <1>5 DEF Plain, LetsGo, Tells
  <1>9. \A b \in asked' : Going(b)
    BY <1>1, <1>3, <1>4 DEF Going
  <1>10. /\ UNCHANGED <<linking, unlinking, unlink_timers, held, unlink_queue, deaf, fault>>
         /\ Serving' = Serving /\ link_timers' = link_timers
         /\ state' = state /\ asked \subseteq asked'
    BY <1>3 DEF clients, servers, Serving
  <1>11. h.kind # "unlink_response" /\ h.link[1] \in asked'
    BY <1>1, <1>3
  <1>12. TypeOK'
    BY DEF Inv
  <1>13. QED
    BY <1>1, <1>3, <1>6, <1>7, <1>8, <1>9, <1>10, <1>11, <1>12, UnmovedHandled

LEMMA OnStartOrderly ==
    ASSUME Inv, Inv', Orderly, NEW l \in Localities, OnStart(l)
    PROVE  Orderly'
  <1>1. PICK h, a : h = Head(queue[l]) /\ a = h.link[1]
    OBVIOUS
  <1>2. /\ queue[l] # <<>> /\ h.kind = "start_actor"
        /\ \/ Handled(l, <<>>) /\ state' = state
           \/ /\ state[a] = "INITIALIZED"
              /\ state' = [state EXCEPT ![a] = "OPERATIONAL"]
              /\ \E s \in ForEach("link_reply", {x \in pending : x[2] = a}) : Handled(l, s)
        /\ UNCHANGED <<clients, servers, init_request, asked, holding, deaf, held, fault>>
    BY <1>1 DEF OnStart, Due, Subject, Link
  <1>3. a \in Actors /\ TypeOK
    BY <1>1, <1>2, Arrives DEF Inv
  <1>4. {x \in pending : x[2] = a} \in SUBSET (Actors \X Actors)
    BY <1>3, LinksAssumption DEF TypeOK
  <1>5. \A s \in ForEach("link_reply", {x \in pending : x[2] = a}) :
            s \in Seq(Message) /\ \A m \in Range(s) : m.kind = "link_reply" /\ m.ok
    <2> DEFINE P == {x \in pending : x[2] = a}
    <2>1. P \in SUBSET (Actors \X Actors)
      BY <1>4
    <2> HIDE DEF P
    <2>2. \A s \in ForEach("link_reply", P) :
            s \in Seq(Message) /\ \A m \in Range(s) : m.kind = "link_reply" /\ m.ok
      BY <2>1, EachSent DEF ToClientsSup
    <2>3. QED
      BY <2>2 DEF P
  <1>6. PICK s : /\ Handled(l, s) /\ s \in Seq(Message)
                 /\ \A m \in Range(s) : m.kind = "link_reply" /\ m.ok
    <2>1. CASE Handled(l, <<>>)
      BY <2>1, Few
    <2>2. CASE \E t \in ForEach("link_reply", {x \in pending : x[2] = a}) : Handled(l, t)
      BY <1>5, <2>2
    <2>3. QED
      BY <1>2, <2>1, <2>2
  <1>7. \A m \in Range(s) : /\ m.kind \notin {"init_request", "shutdown_trigger"}
                            /\ Plain(m) /\ Tells(m)'
    BY <1>6 DEF Plain, LetsGo, Tells
  <1>8. /\ UNCHANGED <<linking, unlinking, unlink_timers, held, unlink_queue, deaf, fault>>
        /\ Serving' = Serving /\ link_timers' = link_timers /\ asked' = asked
    BY <1>2 DEF clients, servers, Serving
  <1>9. \A b \in Actors : \/ state'[b] = state[b]
                          \/ state[b] = "INITIALIZED" /\ state'[b] = "OPERATIONAL"
    <2>1. state \in [Actors -> States]
      BY <1>3 DEF TypeOK
    <2>2. QED
      BY <1>2, <1>3, <2>1
  <1>10. h.kind \notin {"shutdown_trigger", "unlink_response"}
    BY <1>2
  <1>11. TypeOK' /\ \A b \in asked' : Going(b)
    BY <1>8, AskedGoing DEF Inv
  <1>12. QED
    BY <1>1, <1>2, <1>6, <1>7, <1>8, <1>9, <1>10, <1>11, UnmovedHandled

LEMMA OnLinkRequestOrderly ==
    ASSUME Calm, Inv, Inv', Orderly, NEW l \in Localities, OnLinkRequest(l)
    PROVE  Orderly'
  <1>1. PICK h, x : h = Head(queue[l]) /\ x = h.link
    OBVIOUS
  <1>2. PICK m, n : m = Failed("link_reply", x) /\ n = Msg("link_reply", x)
    OBVIOUS
  <1>3. /\ queue[l] # <<>> /\ h.kind = "link_request"
        /\ \/ Refuses(x[2]) /\ Handled(l, <<m>>)
           \/ Handled(l, <<>>)
           \/ Handled(l, <<n>>)
        /\ pending \subseteq pending' /\ active \subseteq active'
        /\ UNCHANGED <<clients, lives, unlinking, unlink_timers, held, fault>>
    BY <1>1, <1>2 DEF OnLinkRequest, Due, Link
  <1>4. /\ x \in Wants /\ x \in Actors \X Actors /\ x[2] \in Actors /\ TypeOK
    BY <1>1, <1>3, Arrives DEF Inv, Says, LinkKinds
  <1>5. /\ m \in Message /\ m.kind = "link_reply" /\ m.link = x
        /\ n \in Message /\ n.kind = "link_reply" /\ n.ok
    BY <1>2, <1>4, MsgType DEF ToClientsSup
  <1>6. Refuses(x[2]) => Alone(x)
    <2>1. state[x[2]] \in States
      BY <1>4 DEF TypeOK
    <2>2. Refuses(x[2]) => x[2] \in asked
      BY <1>4, <2>1 DEF Refuses, States, Live, Orderly, Course
    <2>3. Refuses(x[2]) => ~Steady(x[2])
      BY <1>4, <2>2 DEF Going, Orderly, Course
    <2>4. QED
      BY <1>4, <2>3 DEF Calm
  <1>7. PICK s : /\ Handled(l, s) /\ s \in Seq(Message)
                 /\ \A k \in Range(s) : k.kind = "link_reply" /\ (~k.ok => Alone(k.link))
    <2>1. CASE Refuses(x[2]) /\ Handled(l, <<m>>)
      BY <1>5, <1>6, <2>1, Few
    <2>2. CASE Handled(l, <<>>)
      BY <2>2, Few
    <2>3. CASE Handled(l, <<n>>)
      BY <1>5, <2>3, Few
    <2>4. QED
      BY <1>3, <2>1, <2>2, <2>3
  <1>8. \A k \in Range(s) : /\ k.kind \notin {"init_request", "shutdown_trigger"}
                            /\ Plain(k) /\ Tells(k)'
    <2>1. \A k \in Range(s) : Alone(k.link)' = Alone(k.link)
      BY DEF Alone
    <2>2. QED
      BY <1>7, <2>1 DEF Plain, LetsGo, Tells
  <1>9. /\ UNCHANGED <<linking, unlinking, unlink_timers, held, unlink_queue, deaf, fault>>
        /\ Serving \subseteq Serving' /\ link_timers' = link_timers
        /\ asked' = asked /\ state' = state
    BY <1>3 DEF clients, lives, Serving
  <1>10. h.kind \notin {"shutdown_trigger", "unlink_response"}
    BY <1>3
  <1>11. TypeOK' /\ \A b \in asked' : Going(b)
    BY <1>9, AskedGoing DEF Inv
  <1>12. QED
    BY <1>1, <1>3, <1>7, <1>8, <1>9, <1>10, <1>11, UnmovedHandled

LEMMA OnLinkReplyOrderly ==
    ASSUME Inv, Inv', Orderly, NEW l \in Localities, OnLinkReply(l)
    PROVE  Orderly'
  <1>1. PICK h, R : h = Head(queue[l]) /\ R = Left(l, Tail(queue[l]))
    OBVIOUS
  <1>2. PICK m, x : m = [h EXCEPT !.kind = "link_response"] /\ x = h.link
    OBVIOUS
  <1>3. /\ queue[l] # <<>> /\ h.kind = "link_reply"
        /\ link_timers' = link_timers \ {x}
        /\ Handled(l, IF x \in link_timers THEN <<m>> ELSE <<>>)
        /\ UNCHANGED <<servers, lives, linking, linked, unlink_queue, held, fault>>
    BY <1>1, <1>2 DEF OnLinkReply, Due
  <1>4. h \in InFlight /\ h \in Message
    BY <1>1, <1>3, Arrives
  <1>5. InFlight = R \cup {h}
    BY <1>1, <1>3, Takes
  <1>6. m \in Message /\ m.kind = "link_response" /\ m.link = x /\ m.ok = h.ok
    BY <1>2, <1>4 DEF Message, ToClient
  <1>7. PICK s \in {<<>>, <<m>>} : Handled(l, s) /\ (s # <<>> => x \in link_timers)
    BY <1>3
  <1>8. s \in Seq(Message) /\ Range(s) \subseteq {m} /\ Sparse(s)
    BY <1>6, Few, Short
  <1>9. \A k \in Range(s) : k = m /\ x \in link_timers
    <2>1. s = <<>> => Range(s) = {}
      BY Few
    <2>2. QED
      BY <1>7, <1>8, <2>1
  <1>10. \A k \in Range(s), n \in R : ~Same(k, n)
    BY <1>5, <1>6, <1>9 DEF Orderly, Same, LetsGo
  <1>11. ApartIn(queue') /\ InFlight' = R \cup Range(s)
    BY <1>1, <1>3, <1>7, <1>8, <1>10, Sends
  <1>12. \A k \in Range(s) : Tells(k)'
    <2> SUFFICES ASSUME NEW k \in Range(s) PROVE Tells(k)'
      OBVIOUS
    <2>1. k.kind = "link_response" /\ k.link = x /\ k.ok = h.ok /\ x \in linking
      BY <1>6, <1>9 DEF Orderly
    <2>2. ~h.ok => Alone(x)
      BY <1>2, <1>3, <1>4 DEF Orderly, Tells
    <2>3. linking' = linking /\ Alone(x)' = Alone(x)
      BY <1>3 DEF Alone
    <2>4. QED
      BY <2>1, <2>2, <2>3 DEF Tells, LetsGo
  <1> DEFINE S == Range(s)
             G == {h}
  <1>13. InFlight = R \cup G /\ InFlight' = R \cup S /\ Moved(R, S, G)
    BY <1>5, <1>11 DEF Moved
  <1>14. /\ \A k \in S : /\ k.kind \notin {"init_request", "shutdown_trigger"}
                         /\ k.link \notin link_timers' /\ Tells(k)'
         /\ \A k \in G : k.kind \notin {"shutdown_trigger", "unlink_response"}
    BY <1>3, <1>6, <1>9, <1>12
  <1>15. /\ UNCHANGED <<linking, unlinking, unlink_timers, held, unlink_queue, deaf, fault>>
         /\ Serving' = Serving /\ link_timers' \subseteq link_timers
         /\ asked' = asked /\ state' = state
    BY <1>3 DEF servers, lives, Serving
  <1>16. TypeOK' /\ \A b \in asked' : Going(b)
    BY <1>15, AskedGoing DEF Inv
  <1> HIDE DEF S, G
  <1>17. QED
    BY <1>11, <1>13, <1>14, <1>15, <1>16, Unmoved

\* The answer of a client goes on to its server, unless the request is gone.
LEMMA OnUnlinkReplyOrderly ==
    ASSUME Inv, Inv', Orderly, NEW l \in Localities, OnUnlinkReply(l)
    PROVE  Orderly'
  <1>1. PICK h, R : h = Head(queue[l]) /\ R = Left(l, Tail(queue[l]))
    OBVIOUS
  <1>2. PICK m, x : m = Msg("unlink_response", x) /\ x = h.link
    OBVIOUS
  <1>3. /\ queue[l] # <<>> /\ h.kind = "unlink_reply"
        /\ unlink_timers' = unlink_timers \ {x}
        /\ Handled(l, IF x \in unlink_timers THEN <<m>> ELSE <<>>)
        /\ UNCHANGED <<clients, lives, pending, active, unlinking, held, fault>>
    BY <1>1, <1>2 DEF OnUnlinkReply, Due, Link
  <1>4. h \in InFlight /\ x \in Actors \X Actors
    BY <1>1, <1>2, <1>3, Arrives
  <1>5. InFlight = R \cup {h} /\ \A n \in R : ~Same(h, n)
    BY <1>1, <1>3, Takes
  <1>6. m \in Message /\ m.kind = "unlink_response" /\ m.link = x /\ m.ok
    BY <1>2, <1>4, MsgType DEF ToServer
  <1>7. PICK s \in {<<>>, <<m>>} : /\ Handled(l, s)
                                   /\ s = IF x \in unlink_timers THEN <<m>> ELSE <<>>
    BY <1>3
  <1>8. s \in Seq(Message) /\ Range(s) \subseteq {m} /\ Sparse(s)
    BY <1>6, Few, Short
  <1>9. x \in unlink_timers => m \in Range(s)
    BY <1>6, <1>7, Few
  <1>10. \A k \in Range(s) : k = m
    BY <1>8
  <1>11. \A n \in R : LetsGo(n) => n.link # x
    BY <1>2, <1>3, <1>5 DEF Same, LetsGo
  <1>12. \A k \in Range(s), n \in R : ~Same(k, n)
    BY <1>6, <1>10, <1>11 DEF Same
  <1>13. ApartIn(queue') /\ InFlight' = R \cup Range(s)
    BY <1>1, <1>3, <1>7, <1>8, <1>12, Sends
  <1>14. /\ linking' = linking /\ unlinking' = unlinking /\ link_timers' = link_timers
         /\ held' = held /\ unlink_queue' = unlink_queue /\ deaf' = deaf
         /\ fault' = "none" /\ Serving' = Serving /\ asked' = asked /\ state' = state
    BY <1>3 DEF clients, lives, Serving, Orderly
  <1>15. \A k \in Range(s) : Tells(k)'
    <2>1. x \in Serving
      BY <1>2, <1>3, <1>4 DEF Orderly, Tells, LetsGo
    <2>2. QED
      BY <1>6, <1>10, <1>14, <2>1 DEF Tells
  <1> DEFINE S == Range(s)
             G == {h}
  <1>16. InFlight = R \cup G /\ InFlight' = R \cup S /\ Moved(R, S, G)
    BY <1>5, <1>13 DEF Moved
  <1>17. /\ \A k \in S : /\ k.kind = "unlink_response" /\ Tells(k)'
                         /\ k.kind \notin {"init_request", "shutdown_trigger", "link_response"}
         /\ \A k \in G : k.kind # "shutdown_trigger"
    BY <1>3, <1>6, <1>10, <1>15
  <1>18. \A y \in unlinking' \ unlink_timers' :
            \E k \in R \cup S : k.kind = "unlink_response" /\ k.ok /\ k.link = y
    <2> SUFFICES ASSUME NEW y \in unlinking, y \notin unlink_timers'
                 PROVE  \E k \in R \cup S : k.kind = "unlink_response" /\ k.ok /\ k.link = y
      BY <1>14
    <2>1. CASE y \in unlink_timers
      <3>1. y = x
        BY <1>3, <2>1
      <3>2. m \in S /\ m.link = y
        BY <1>6, <1>9, <2>1, <3>1
      <3>3. QED
        BY <1>6, <3>2
    <2>2. CASE y \notin unlink_timers
      <3>1. PICK k \in InFlight : k.kind = "unlink_response" /\ k.ok /\ k.link = y
        BY <2>2 DEF Orderly, Answered
      <3>2. k \in R
        BY <1>3, <1>5, <3>1
      <3>3. QED
        BY <3>1, <3>2
    <2>3. QED
      BY <2>1, <2>2
  <1> HIDE DEF S, G
  <1>19. \A y \in link_timers' :
            y \in linking' /\ \A k \in R \cup S : k.kind = "link_response" => k.link # y
    BY <1>14, <1>16, <1>17 DEF Orderly
  <1>20. \A k \in R : /\ k.kind = "link_response" => k.link \in linking'
                      /\ LetsGo(k) => k.link \in Serving'
    BY <1>14, <1>16 DEF Orderly, Tells
  <1>21. /\ \A y \in held' \cup unlinking' \cup unlink_queue' :
                y \in held \cup unlinking \cup unlink_queue \/ Going(y[2])
         /\ \A y \in linking' : y \in linking \/ Untouched(y)
         /\ \A y \in linking' : state'[y[1]] = "INITIALIZING"
         /\ \A a \in Actors : /\ state'[a] \in {"SHUTTING_DOWN", "SHUT_DOWN"} => a \in asked'
                              /\ a \in deaf' => state'[a] = "SHUT_DOWN"
    BY <1>14 DEF Orderly, Course
  <1>22. TypeOK' /\ asked \subseteq asked' /\ \A b \in asked' : Going(b)
    BY <1>14, AskedGoing DEF Inv
  <1>23. QED
    BY <1>13, <1>14, <1>16, <1>17, <1>18, <1>19, <1>20, <1>21, <1>22, Stays

LEMMA TransferOrderly ==
    ASSUME Inv, Inv', Orderly, NEW l \in Localities, Transfer(l)
    PROVE  Orderly'
  <1>1. PICK m, k : m = Head(queue[l]) /\ k = Home[Receiver(m)]
    OBVIOUS
  <1>2. /\ queue[l] # <<>> /\ k # l
        /\ queue' = [queue EXCEPT ![l] = Tail(queue[l]), ![k] = Append(queue[k], m)]
        /\ UNCHANGED <<clients, servers, lives, held, fault>>
    BY <1>1 DEF Transfer
  <1>3. m \in Message /\ m.link[1] \in Actors /\ m.link[2] \in Actors
    BY <1>1, <1>2, Arrives
  <1>4. k \in Localities
    BY <1>1, <1>3, LinksAssumption DEF Receiver
  <1>5. queue \in [Localities -> Seq(Message)] /\ ApartIn(queue)
    BY DEF Inv, TypeOK, Orderly
  <1>6. PICK qs : qs = [queue EXCEPT ![l] = Tail(queue[l])]
    OBVIOUS
  <1>7. /\ qs \in [Localities -> Seq(Message)] /\ ApartIn(qs)
        /\ AllOf(queue) = AllOf(qs) \cup {m}
        /\ \A n \in AllOf(qs) : ~Same(m, n)
    <2>1. Shortens(queue, l, qs)
      BY <1>2, <1>5, <1>6 DEF Shortens
    <2>2. /\ qs \in [Localities -> Seq(Message)] /\ ApartIn(qs)
          /\ AllOf(queue) = AllOf(qs) \cup {Head(queue[l])}
          /\ \A n \in AllOf(qs) : ~Same(Head(queue[l]), n)
      BY ONLY <2>1, Shrunk
    <2>3. QED
      BY <1>1, <2>2
  <1>8. <<m>> \in Seq(Message) /\ Range(<<m>>) = {m} /\ Sparse(<<m>>)
    BY <1>3, Few, Short
  <1>9. PICK s : s = <<m>>
    OBVIOUS
  <1>10. queue' = [qs EXCEPT ![k] = qs[k] \o s]
    <2>1. qs[k] = queue[k] /\ queue[k] \in Seq(Message)
      BY <1>2, <1>4, <1>5, <1>6
    <2>2. Append(queue[k], m) = qs[k] \o s
      BY <1>3, <1>9, <2>1, Few
    <2>3. QED
      BY <1>2, <1>4, <1>5, <1>6, <2>2
  <1>11. ApartIn(queue') /\ AllOf(queue') = AllOf(qs) \cup {m}
    <2>1. Lengthens(qs, k, s, queue')
      BY <1>4, <1>7, <1>8, <1>9, <1>10 DEF Lengthens
    <2>2. ApartIn(queue') /\ AllOf(queue') = AllOf(qs) \cup Range(s)
      BY ONLY <2>1, Lengthened
    <2>3. QED
      BY <1>8, <1>9, <2>2
  <1>12. InFlight' = InFlight
    BY <1>7, <1>11 DEF AllOf, InFlight
  <1> DEFINE none == {}
  <1>13. /\ Moved(InFlight, none, none)
         /\ \A n \in none : FALSE
    BY <1>11, <1>12 DEF Moved
  <1>14. /\ UNCHANGED <<linking, unlinking, unlink_timers, held, unlink_queue, deaf, fault>>
         /\ Serving' = Serving /\ link_timers' = link_timers
         /\ asked' = asked /\ state' = state
    BY <1>2 DEF clients, servers, lives, Serving
  <1>15. TypeOK' /\ \A b \in asked' : Going(b)
    BY <1>14, AskedGoing DEF Inv
  <1> HIDE DEF none
  <1>16. QED
    BY <1>13, <1>14, <1>15, Unmoved

\* What is dropped is for an actor that has let go of all its clients.
LEMMA DropOrderly ==
    ASSUME Inv, Inv', Orderly, NEW l \in Localities, Drop(l)
    PROVE  Orderly'
  <1>1. PICK h, s : h = Head(queue[l]) /\ s = <<>>
    OBVIOUS
  <1>2. /\ queue[l] # <<>> /\ ~Heard(h) /\ Handled(l, s)
        /\ UNCHANGED <<clients, servers, lives, held, fault>>
    BY <1>1 DEF Drop
  <1>3. h \in Message /\ h.link \in Actors \X Actors /\ h.link[1] \in Actors /\ h.link[2] \in Actors
    BY <1>1, <1>2, Arrives
  <1>4. s \in Seq(Message) /\ Range(s) = {}
    BY <1>1, Few
  <1>5. /\ h.kind # "shutdown_trigger"
        /\ h.kind = "unlink_response" => h.link[2] \in deaf
    BY <1>2 DEF Heard, Receiver, ToClient, ToServer, ToServersSup
  <1>6. h.kind = "unlink_response" => h.link \notin unlinking
    <2>1. \A a \in deaf \cap Actors : Ended(a)
      BY DEF Orderly, Course, Inv, LifeOf
    <2>2. QED
      BY <1>3, <1>5, <2>1 DEF Ended, Clients
  <1>7. /\ UNCHANGED <<linking, unlinking, unlink_timers, held, unlink_queue, deaf, fault>>
        /\ Serving' = Serving /\ link_timers' = link_timers
        /\ asked' = asked /\ state' = state
    BY <1>2 DEF clients, servers, lives, Serving
  <1>8. TypeOK' /\ \A b \in asked' : Going(b)
    BY <1>7, AskedGoing DEF Inv
  <1>9. QED
    BY <1>1, <1>2, <1>4, <1>5, <1>6, <1>7, <1>8, UnmovedHandled

LEMMA OnUnsubscriptionOrderly ==
    ASSUME Inv, Inv', Orderly, NEW l \in Localities, OnUnsubscription(l)
    PROVE  Orderly'
  <1>1. PICK h, a, R : h = Head(queue[l]) /\ a = h.link[1] /\ R = Left(l, Tail(queue[l]))
    OBVIOUS
  <1>2. /\ queue[l] # <<>> /\ h.kind = "unsubscription"
        /\ state' = [state EXCEPT ![a] = "SHUT_DOWN"]
        /\ deaf' = deaf \cup {a}
        /\ Handled(l, <<>>)
        /\ UNCHANGED <<clients, servers, init_request, asked, holding, held, fault>>
    BY <1>1 DEF OnUnsubscription, Due, Subject, Link
  <1>3. a \in Actors /\ Says(h) /\ TypeOK
    BY <1>1, <1>2, Arrives DEF Inv
  <1>4. Ended(a) /\ a \in asked
    BY <1>1, <1>2, <1>3 DEF Says, Ended, Orderly, Course
  <1>5. <<>> \in Seq(Message) /\ Range(<<>>) = {}
    BY Few
  <1>6. ApartIn(queue') /\ InFlight' = R
    BY <1>1, <1>2, <1>5, PlainlySends
  <1> DEFINE S == {}
             G == {h}
  <1>7. InFlight = R \cup G /\ InFlight' = R \cup S /\ Moved(R, S, G)
    BY <1>1, <1>2, <1>6, Takes DEF Moved
  <1>8. /\ \A m \in S : FALSE
        /\ \A m \in G : m.kind \notin {"shutdown_trigger", "unlink_response"}
    BY <1>2
  <1> HIDE DEF S, G
  <1>9. /\ linking' = linking /\ unlinking' = unlinking /\ link_timers' = link_timers
        /\ unlink_timers' = unlink_timers
        /\ held' = held /\ unlink_queue' = unlink_queue
        /\ fault' = "none" /\ Serving' = Serving /\ asked' = asked
    BY <1>2 DEF clients, servers, Serving, Orderly
  <1>10. state'[a] = "SHUT_DOWN" /\ \A b \in Actors \ {a} : state'[b] = state[b]
    <2>1. state \in [Actors -> States]
      BY <1>3 DEF TypeOK
    <2>2. QED
      BY <1>2, <1>3, <2>1
  <1>11. \A b \in Actors : /\ state'[b] \in {"SHUTTING_DOWN", "SHUT_DOWN"} => b \in asked'
                           /\ b \in deaf' => state'[b] = "SHUT_DOWN"
    <2> SUFFICES ASSUME NEW b \in Actors
                 PROVE  /\ state'[b] \in {"SHUTTING_DOWN", "SHUT_DOWN"} => b \in asked'
                        /\ b \in deaf' => state'[b] = "SHUT_DOWN"
      OBVIOUS
    <2>1. CASE b = a
      BY <1>4, <1>9, <1>10, <2>1
    <2>2. CASE b # a
      BY <1>2, <1>9, <1>10, <2>2 DEF Orderly, Course
    <2>3. QED
      BY <2>1, <2>2
  <1>12. \A y \in linking' : state'[y[1]] = "INITIALIZING"
    <2>1. \A y \in linking : y[1] \in Actors /\ y[1] # a /\ state[y[1]] = "INITIALIZING"
      BY <1>3, <1>4, LinksAssumption DEF TypeOK, Ended, Servers, Orderly
    <2>2. QED
      BY <1>9, <1>10, <2>1
  <1>13. \A y \in unlinking' \ unlink_timers' :
            \E k \in R \cup S : k.kind = "unlink_response" /\ k.ok /\ k.link = y
    BY <1>7, <1>8, <1>9 DEF Orderly, Answered
  <1>14. \A y \in link_timers' :
            y \in linking' /\ \A k \in R \cup S : k.kind = "link_response" => k.link # y
    BY <1>7, <1>8, <1>9 DEF Orderly
  <1>15. \A k \in R : /\ k.kind = "link_response" => k.link \in linking'
                      /\ LetsGo(k) => k.link \in Serving'
    BY <1>7, <1>9 DEF Orderly, Tells
  <1>16. /\ \A y \in held' \cup unlinking' \cup unlink_queue' :
                y \in held \cup unlinking \cup unlink_queue \/ Going(y[2])
         /\ \A y \in linking' : y \in linking \/ Untouched(y)
    BY <1>9
  <1>17. TypeOK' /\ asked \subseteq asked' /\ \A b \in asked' : Going(b)
    BY <1>9, AskedGoing DEF Inv
  <1>18. QED
    BY <1>6, <1>7, <1>8, <1>9, <1>11, <1>12, <1>13, <1>14, <1>15, <1>16, <1>17, Stays

\* An actor with links to make asks for all of them at once.
LEMMA AsksForLinks ==
    ASSUME Inv, TypeOK', Orderly, NEW l \in Localities, queue[l] # <<>>,
           NEW h, h = Head(queue[l]), h.kind = "init_request",
           NEW wanted, wanted = {x \in Wants : x[1] = h.link[1]},
           NEW s \in ForEach("link_request", wanted), Handled(l, s),
           state[h.link[1]] = "INITIALIZING",
           linking' = linking \cup wanted, link_timers' = link_timers \cup wanted,
           UNCHANGED <<state, servers, asked, holding, deaf, linked, unlink_queue, held, fault>>
    PROVE  Orderly'
  <1>1. PICK R : R = Left(l, Tail(queue[l]))
    OBVIOUS
  <1>2. h \in InFlight /\ h.link[1] \in Actors /\ TypeOK
    BY Arrives DEF Inv
  <1>3. wanted \in SUBSET (Actors \X Actors) /\ wanted \subseteq Wants
    BY LinksAssumption
  <1>4. s \in Seq(Message) /\ \A m \in Range(s) : m.kind = "link_request"
    BY <1>3, EachSent DEF ToServer
  <1>5. \A m \in Range(s) : Plain(m) /\ Tells(m)'
    BY <1>4, Silent
  <1>6. ApartIn(queue') /\ InFlight' = R \cup Range(s)
    BY <1>1, <1>4, <1>5, PlainlySends
  <1> DEFINE S == Range(s)
             G == {h}
  <1>7. InFlight = R \cup G /\ InFlight' = R \cup S /\ Moved(R, S, G)
    BY <1>1, <1>6, Takes DEF Moved
  <1>8. /\ \A m \in S : /\ m.kind = "link_request" /\ Tells(m)'
                        /\ m.kind \notin {"init_request", "shutdown_trigger", "link_response"}
        /\ \A m \in G : m.kind \notin {"shutdown_trigger", "unlink_response"}
    BY <1>4, <1>5
  <1> HIDE DEF S, G
  <1>9. \A x \in wanted : Untouched(x) /\ x \notin Touched
    <2>1. \A x \in wanted : Untouched(x)
      BY <1>2 DEF Untouched
    <2>2. QED
      BY <1>3, <2>1 DEF Inv
  <1>10. \A x \in wanted : \A m \in R : m.kind = "link_response" => m.link # x
    BY <1>7, <1>9 DEF Touched, LinkKinds
  <1>11. /\ unlinking' = unlinking /\ unlink_timers' = unlink_timers
         /\ held' = held /\ unlink_queue' = unlink_queue /\ deaf' = deaf
         /\ fault' = "none" /\ Serving' = Serving /\ asked' = asked /\ state' = state
    BY DEF servers, Serving, Orderly
  <1>12. /\ \A y \in link_timers' :
                y \in linking' /\ \A k \in R \cup S : k.kind = "link_response" => k.link # y
         /\ \A y \in linking' : y \in linking \/ Untouched(y)
         /\ \A y \in linking' : state'[y[1]] = "INITIALIZING"
    <2>1. \A y \in link_timers : y \in linking /\ \A k \in R : k.kind = "link_response" => k.link # y
      BY <1>7 DEF Orderly
    <2>2. \A y \in link_timers' : y \in linking' /\ \A k \in R : k.kind = "link_response" => k.link # y
      BY <1>10, <2>1
    <2>3. \A y \in linking' : y \in linking \/ Untouched(y)
      BY <1>9
    <2>4. \A y \in linking' : state'[y[1]] = "INITIALIZING"
      BY <1>11 DEF Orderly
    <2>5. QED
      BY <1>8, <2>2, <2>3, <2>4
  <1>13. \A y \in unlinking' \ unlink_timers' :
            \E k \in R \cup S : k.kind = "unlink_response" /\ k.ok /\ k.link = y
    BY <1>7, <1>8, <1>11 DEF Orderly, Answered
  <1>14. \A k \in R : /\ k.kind = "link_response" => k.link \in linking'
                      /\ LetsGo(k) => k.link \in Serving'
    BY <1>7, <1>11 DEF Orderly, Tells
  <1>15. /\ \A y \in held' \cup unlinking' \cup unlink_queue' :
                y \in held \cup unlinking \cup unlink_queue \/ Going(y[2])
         /\ \A a \in Actors : /\ state'[a] \in {"SHUTTING_DOWN", "SHUT_DOWN"} => a \in asked'
                              /\ a \in deaf' => state'[a] = "SHUT_DOWN"
    BY <1>11 DEF Orderly, Course
  <1>16. asked \subseteq asked' /\ \A b \in asked' : Going(b)
    BY <1>11, AskedGoing
  <1>17. QED
    BY <1>7, <1>8, <1>11, <1>12, <1>13, <1>14, <1>15, <1>16, Stays

\* One without links is initialized at once.
LEMMA StartsAtOnce ==
    ASSUME Inv, TypeOK', Orderly, NEW l \in Localities, queue[l] # <<>>,
           NEW h, h = Head(queue[l]), h.kind = "init_request",
           NEW a \in Actors, \A x \in Wants : x[1] # a, state[a] = "INITIALIZING",
           NEW s \in Seq(Message), \A m \in Range(s) : m.kind = "start_actor", Handled(l, s),
           state' = [state EXCEPT ![a] = "INITIALIZED"],
           UNCHANGED <<clients, servers, asked, holding, deaf, held, fault>>
    PROVE  Orderly'
  <1>1. PICK R : R = Left(l, Tail(queue[l]))
    OBVIOUS
  <1>2. \A m \in Range(s) : Plain(m) /\ Tells(m)'
    BY Silent
  <1>3. ApartIn(queue') /\ InFlight' = R \cup Range(s)
    BY <1>1, <1>2, PlainlySends
  <1> DEFINE S == Range(s)
             G == {h}
  <1>4. InFlight = R \cup G /\ InFlight' = R \cup S /\ Moved(R, S, G)
    BY <1>1, <1>3, Takes DEF Moved
  <1>5. /\ \A m \in S : /\ m.kind = "start_actor" /\ Tells(m)'
                        /\ m.kind \notin {"init_request", "shutdown_trigger", "link_response"}
        /\ \A m \in G : m.kind \notin {"shutdown_trigger", "unlink_response"}
    BY <1>2
  <1> HIDE DEF S, G
  <1>6. /\ linking' = linking /\ unlinking' = unlinking /\ link_timers' = link_timers
        /\ unlink_timers' = unlink_timers
        /\ held' = held /\ unlink_queue' = unlink_queue /\ deaf' = deaf
        /\ fault' = "none" /\ Serving' = Serving /\ asked' = asked
    BY DEF clients, servers, Serving, Orderly
  <1>7. state'[a] = "INITIALIZED" /\ \A b \in Actors \ {a} : state'[b] = state[b]
    <2>1. state \in [Actors -> States]
      BY DEF Inv, TypeOK
    <2>2. QED
      BY <2>1
  <1>8. \A b \in Actors : /\ state'[b] \in {"SHUTTING_DOWN", "SHUT_DOWN"} => b \in asked'
                          /\ b \in deaf' => state'[b] = "SHUT_DOWN"
    <2> SUFFICES ASSUME NEW b \in Actors
                 PROVE  /\ state'[b] \in {"SHUTTING_DOWN", "SHUT_DOWN"} => b \in asked'
                        /\ b \in deaf' => state'[b] = "SHUT_DOWN"
      OBVIOUS
    <2>1. CASE b = a
      BY <1>6, <1>7, <2>1 DEF Orderly, Course
    <2>2. CASE b # a
      BY <1>6, <1>7, <2>2 DEF Orderly, Course
    <2>3. QED
      BY <2>1, <2>2
  <1>9. \A y \in linking' : state'[y[1]] = "INITIALIZING"
    <2>1. \A y \in linking : y[1] \in Actors /\ y[1] # a /\ state[y[1]] = "INITIALIZING"
      BY LinksAssumption DEF Inv, TypeOK, Orderly
    <2>2. QED
      BY <1>6, <1>7, <2>1
  <1>10. \A y \in link_timers' :
            y \in linking' /\ \A k \in R \cup S : k.kind = "link_response" => k.link # y
    BY <1>4, <1>5, <1>6 DEF Orderly
  <1>11. \A y \in unlinking' \ unlink_timers' :
            \E k \in R \cup S : k.kind = "unlink_response" /\ k.ok /\ k.link = y
    BY <1>4, <1>5, <1>6 DEF Orderly, Answered
  <1>12. \A k \in R : /\ k.kind = "link_response" => k.link \in linking'
                      /\ LetsGo(k) => k.link \in Serving'
    BY <1>4, <1>6 DEF Orderly, Tells
  <1>13. /\ \A y \in held' \cup unlinking' \cup unlink_queue' :
                y \in held \cup unlinking \cup unlink_queue \/ Going(y[2])
         /\ \A y \in linking' : y \in linking \/ Untouched(y)
    BY <1>6
  <1>14. asked \subseteq asked' /\ \A b \in asked' : Going(b)
    BY <1>6, AskedGoing
  <1>15. QED
    BY <1>4, <1>5, <1>6, <1>8, <1>9, <1>10, <1>11, <1>12, <1>13, <1>14, Stays

LEMMA OnInitRequestOrderly ==
    ASSUME Inv, Inv', Orderly, NEW l \in Localities, OnInitRequest(l)
    PROVE  Orderly'
  <1>1. PICK h, a : h = Head(queue[l]) /\ a = h.link[1]
    OBVIOUS
  <1>2. PICK m, wanted : m = About("start_actor", a) /\ wanted = {x \in Wants : x[1] = a}
    OBVIOUS
  <1>3. /\ queue[l] # <<>> /\ h.kind = "init_request"
        /\ UNCHANGED <<servers, asked, holding, deaf, linked, unlink_queue, held, fault>>
        /\ \/ Handled(l, <<>>) /\ UNCHANGED <<state, linking, link_timers>>
           \/ /\ state[a] = "INITIALIZING" /\ wanted = {}
              /\ state' = [state EXCEPT ![a] = "INITIALIZED"]
              /\ Handled(l, <<m>>)
              /\ UNCHANGED <<linking, link_timers>>
           \/ /\ state[a] = "INITIALIZING"
              /\ linking' = linking \cup wanted /\ link_timers' = link_timers \cup wanted
              /\ \E s \in ForEach("link_request", wanted) : Handled(l, s)
              /\ UNCHANGED state
    BY <1>1, <1>2 DEF OnInitRequest, Due, Subject, Link
  <1>4. a \in Actors
    BY <1>1, <1>3, Arrives
  <1>5. m \in Message /\ m.kind = "start_actor"
    BY <1>2, <1>4, AboutType DEF ToClient
  <1>6. TypeOK' /\ asked' = asked
    BY <1>3 DEF Inv
  <1>7. CASE Handled(l, <<>>) /\ UNCHANGED <<state, linking, link_timers>>
    <2>1. PICK s : s = <<>>
      OBVIOUS
    <2>2. s \in Seq(Message) /\ Range(s) = {} /\ Handled(l, s)
      BY <1>7, <2>1, Few
    <2>3. /\ UNCHANGED <<linking, unlinking, unlink_timers, held, unlink_queue, deaf, fault>>
          /\ Serving' = Serving /\ link_timers' = link_timers /\ state' = state
      BY <1>3, <1>7 DEF servers, Serving
    <2>4. h.kind \notin {"shutdown_trigger", "unlink_response"}
      BY <1>3
    <2>5. QED
      BY <1>1, <1>3, <1>6, <2>2, <2>3, <2>4, AskedGoing, UnmovedHandled
  <1>8. CASE /\ state[a] = "INITIALIZING" /\ wanted = {}
             /\ state' = [state EXCEPT ![a] = "INITIALIZED"]
             /\ Handled(l, <<m>>)
             /\ UNCHANGED <<linking, link_timers>>
    <2>1. PICK s : s = <<m>>
      OBVIOUS
    <2>2. s \in Seq(Message) /\ Range(s) = {m} /\ Handled(l, s)
      BY <1>5, <1>8, <2>1, Few
    <2>3. UNCHANGED <<clients, servers, asked, holding, deaf, held, fault>>
      BY <1>3, <1>8 DEF clients
    <2>4. \A x \in Wants : x[1] # a
      BY <1>2, <1>8
    <2>5. QED
      BY <1>1, <1>3, <1>4, <1>5, <1>6, <1>8, <2>2, <2>3, <2>4, StartsAtOnce
  <1>9. CASE /\ state[a] = "INITIALIZING"
             /\ linking' = linking \cup wanted /\ link_timers' = link_timers \cup wanted
             /\ \E s \in ForEach("link_request", wanted) : Handled(l, s)
             /\ UNCHANGED state
    <2>1. PICK s \in ForEach("link_request", wanted) : Handled(l, s)
      BY <1>9
    <2>2. wanted = {x \in Wants : x[1] = h.link[1]}
      BY <1>1, <1>2
    <2>3. UNCHANGED <<state, servers, asked, holding, deaf, linked, unlink_queue, held, fault>>
      BY <1>3, <1>9
    <2>4. QED
      BY <1>1, <1>3, <1>6, <1>9, <2>1, <2>2, <2>3, AsksForLinks
  <1>10. QED
    BY <1>3, <1>7, <1>8, <1>9

\* The client of x has its answer: it goes on, or is shut down, with no other
\* link left to make.
LEMMA OnLinkResponseOrderly ==
    ASSUME Calm, Inv, Inv', Orderly, NEW l \in Localities, OnLinkResponse(l)
    PROVE  Orderly'
  <1>1. PICK h, R : h = Head(queue[l]) /\ R = Left(l, Tail(queue[l]))
    OBVIOUS
  <1>2. PICK x : x = h.link
    OBVIOUS
  <1>3. PICK c : c = x[1]
    OBVIOUS
  <1>4. PICK ready \in BOOLEAN : ready = (h.ok /\ c \in init_request /\ Servers(c) \cap linking = {x})
    OBVIOUS
  <1>5. PICK n, t : n = About("start_actor", c) /\ t = About("shutdown_trigger", c)
    OBVIOUS
  <1>6. queue[l] # <<>> /\ h.kind = "link_response"
    BY <1>1 DEF OnLinkResponse, Due
  <1>7. h \in InFlight /\ h \in Message /\ x \in Wants /\ c \in Actors /\ TypeOK
    BY <1>1, <1>2, <1>3, <1>6, Arrives DEF Inv, Says, LinkKinds
  <1>8. InFlight = R \cup {h} /\ \A m \in R : ~Same(h, m)
    BY <1>1, <1>6, Takes
  <1>9. x \in linking /\ state[c] = "INITIALIZING" /\ (~h.ok => Alone(x))
    BY <1>2, <1>3, <1>6, <1>7 DEF Orderly, Tells
  <1>10. /\ linking' = linking \ {x}
         /\ fault' = "none"
         /\ state' = IF ready THEN [state EXCEPT ![c] = "INITIALIZED"] ELSE state
         /\ Handled(l, IF ready THEN <<n>>
                       ELSE IF ~h.ok /\ c \in init_request THEN <<t>> ELSE <<>>)
         /\ UNCHANGED <<servers, asked, holding, deaf, unlink_queue, link_timers, held>>
    BY <1>1, <1>2, <1>3, <1>4, <1>5, <1>9
       DEF OnLinkResponse, Link, Orderly, DoShutdown, Live
  <1>11. /\ n \in Message /\ n.kind = "start_actor"
         /\ t \in Message /\ t.kind = "shutdown_trigger" /\ t.link[1] = c
    BY <1>5, <1>7, AboutType DEF ToClient, ToClientsSup
  <1>12. PICK s : /\ s \in Seq(Message) /\ Handled(l, s)
                  /\ \A m \in Range(s) : m = n \/ (m = t /\ ~h.ok)
    <2>1. CASE Handled(l, <<n>>)
      BY <1>11, <2>1, Few
    <2>2. CASE Handled(l, <<t>>) /\ ~h.ok
      BY <1>11, <2>2, Few
    <2>3. CASE Handled(l, <<>>)
      BY <2>3, Few
    <2>4. QED
      BY <1>10, <2>1, <2>2, <2>3
  <1>13. \A m \in Range(s) : Plain(m) /\ Tells(m)'
    BY <1>11, <1>12, Silent
  <1>14. ApartIn(queue') /\ InFlight' = R \cup Range(s)
    BY <1>1, <1>6, <1>12, <1>13, PlainlySends
  <1>15. ~h.ok => ~Unsettled(c)' /\ ~Steady(c)
    <2> SUFFICES ASSUME ~h.ok PROVE ~Unsettled(c)' /\ ~Steady(c)
      OBVIOUS
    <2>1. ~Steady(c)
      BY <1>3, <1>7 DEF Steady
    <2>2. ASSUME NEW y \in Wants, c \in {y[1], y[2]}, (y \in linking \/ Untouched(y))'
          PROVE  FALSE
      <3>1. y = x
        BY <1>3, <1>7, <1>9, <2>2 DEF Alone
      <3>2. Untouched(x)
        <4>1. Untouched(x)'
          BY <1>10, <2>2, <3>1
        <4>2. \A m \in InFlight' : m.kind = "init_request" => m \in InFlight
          BY <1>8, <1>11, <1>12, <1>14
        <4>3. QED
          BY <4>1, <4>2 DEF Untouched
      <3>3. x \notin Touched
        BY <1>7, <3>2 DEF Inv
      <3>4. QED
        BY <1>9, <3>3 DEF Touched
    <2>3. QED
      BY <2>1, <2>2 DEF Unsettled
  <1> DEFINE S == Range(s)
             G == {h}
  <1>16. InFlight = R \cup G /\ InFlight' = R \cup S /\ Moved(R, S, G)
    BY <1>8, <1>14 DEF Moved
  <1>17. /\ \A m \in S : Tells(m)' /\ m.kind \notin {"init_request", "link_response"}
         /\ \A m \in G : m.kind \notin {"shutdown_trigger", "unlink_response"}
    BY <1>6, <1>11, <1>12, <1>13
  <1>18. \A m \in S : m.kind = "shutdown_trigger" =>
                        ~Unsettled(m.link[1])' /\ ~Steady(m.link[1])
    <2>1. \A m \in S : m.kind = "shutdown_trigger" => m.link[1] = c /\ ~h.ok
      BY <1>11, <1>12
    <2>2. QED
      BY <1>15, <2>1
  <1> HIDE DEF S, G
  <1>19. /\ unlinking' = unlinking /\ link_timers' = link_timers
         /\ unlink_timers' = unlink_timers
         /\ held' = held /\ unlink_queue' = unlink_queue /\ deaf' = deaf
         /\ Serving' = Serving /\ asked' = asked
    BY <1>10 DEF servers, Serving
  <1>20. /\ \A b \in Actors \ {c} : state'[b] = state[b]
         /\ state'[c] = IF ready THEN "INITIALIZED" ELSE "INITIALIZING"
    <2>1. state \in [Actors -> States]
      BY <1>7 DEF TypeOK
    <2>2. QED
      BY <1>7, <1>9, <1>10, <2>1
  <1>21. \A b \in Actors : /\ state'[b] \in {"SHUTTING_DOWN", "SHUT_DOWN"} => b \in asked'
                           /\ b \in deaf' => state'[b] = "SHUT_DOWN"
    <2> SUFFICES ASSUME NEW b \in Actors
                 PROVE  /\ state'[b] \in {"SHUTTING_DOWN", "SHUT_DOWN"} => b \in asked'
                        /\ b \in deaf' => state'[b] = "SHUT_DOWN"
      OBVIOUS
    <2>1. CASE b = c
      BY <1>9, <1>19, <1>20, <2>1 DEF Orderly, Course
    <2>2. CASE b # c
      BY <1>19, <1>20, <2>2 DEF Orderly, Course
    <2>3. QED
      BY <2>1, <2>2
  <1>22. \A y \in linking' : state'[y[1]] = "INITIALIZING"
    <2> SUFFICES ASSUME NEW y \in linking' PROVE state'[y[1]] = "INITIALIZING"
      OBVIOUS
    <2>1. y \in linking /\ y # x /\ y[1] \in Actors /\ state[y[1]] = "INITIALIZING"
      BY <1>7, <1>10, LinksAssumption DEF TypeOK, Orderly
    <2>2. CASE y[1] = c
      <3>1. y \in Servers(c) \cap linking
        BY <2>1, <2>2 DEF Servers
      <3>2. ~ready
        BY <1>4, <2>1, <3>1
      <3>3. QED
        BY <1>20, <2>2, <3>2
    <2>3. CASE y[1] # c
      BY <1>20, <2>1, <2>3
    <2>4. QED
      BY <2>2, <2>3
  <1>23. \A y \in link_timers' :
            y \in linking' /\ \A k \in R \cup S : k.kind = "link_response" => k.link # y
    <2>1. x \notin link_timers
      BY <1>2, <1>6, <1>7 DEF Orderly
    <2>2. QED
      BY <1>10, <1>16, <1>17, <1>19, <2>1 DEF Orderly
  <1>24. \A y \in unlinking' \ unlink_timers' :
            \E k \in R \cup S : k.kind = "unlink_response" /\ k.ok /\ k.link = y
    BY <1>16, <1>17, <1>19 DEF Orderly, Answered
  <1>25. \A k \in R : /\ k.kind = "link_response" => k.link \in linking'
                      /\ LetsGo(k) => k.link \in Serving'
    <2>1. \A k \in R : k.kind = "link_response" => k.link # x
      BY <1>2, <1>6, <1>8 DEF Same
    <2>2. QED
      BY <1>10, <1>16, <1>19, <2>1 DEF Orderly, Tells
  <1>26. /\ \A y \in held' \cup unlinking' \cup unlink_queue' :
                y \in held \cup unlinking \cup unlink_queue \/ Going(y[2])
         /\ \A y \in linking' : y \in linking \/ Untouched(y)
    BY <1>10, <1>19
  <1>27. TypeOK' /\ asked \subseteq asked' /\ \A b \in asked' : Going(b)
    BY <1>19, AskedGoing DEF Inv
  <1>28. QED
    BY <1>10, <1>16, <1>17, <1>18, <1>19, <1>21, <1>22, <1>23, <1>24, <1>25, <1>26, <1>27, Stays

---------------------------------------------------------------------------
\* The shutdown of a goes on: the messages of G are taken, those of R left, and
\* those of T are answers that have just been sent.
Continues(a, erased, busy, p, T, R, G) ==
    /\ Base(Home[a], p) /\ Left(Home[a], p) = R \cup T /\ InFlight = R \cup G
    /\ \A m \in T : m.kind = "unlink_reply" /\ m.link \in erased \cap Servers(a)
    /\ \A m \in G : /\ m.kind # "shutdown_trigger"
                    /\ m.kind = "unlink_response" => m.link \in erased /\ m.link[2] = a
    /\ \A m \in R : LetsGo(m) => ~(m.link \in erased /\ m.link[2] = a)
    /\ ShutdownContinue(a, erased, busy, p)

LEMMA ContinuedOrderly ==
    ASSUME Inv, Inv', Orderly, NEW a \in Actors, NEW erased \in SUBSET Wants, NEW busy,
           NEW p, NEW T, NEW R, NEW G, Continues(a, erased, busy, p, T, R, G),
           a \in asked, asked' = asked, deaf' = deaf,
           \A b \in Actors \ {a} : state'[b] = state[b],
           state'[a] = state[a] \/ (state'[a] = "SHUTTING_DOWN" /\ a \notin deaf),
           \A x \in held' \cup unlink_queue' : x \in held \cup unlink_queue \/ Going(x[2])
    PROVE  Orderly'
  <1> USE DEF Continues
  <1> DEFINE cs == Clients(a) \ erased
             ss == Servers(a) \ erased
             released == IF cs = {} /\ ~busy THEN ss ELSE {}
             put_off == released \cap unlink_queue
             others == released \ put_off
             ask == IF ss = {} /\ ~busy THEN active \cap cs ELSE {}
             last == IF cs = {} /\ ~busy THEN <<About("unsubscription", a)>> ELSE <<>>
             mine == {x \in erased : x[2] = a}
             gone == {x \in erased \cup released : x[1] = a}
             h == Home[a]
  <1>1. PICK rs \in ForEach("unlink_reply", put_off),
             ns \in ForEach("unlink_notify", others),
             us \in ForEach("unlink_request", ask) :
                queue' = [queue EXCEPT ![h] = p \o rs \o ns \o us \o last]
    BY DEF ShutdownContinue
  <1>2. /\ linking' = linking \ gone
        /\ linked' = linked \ gone
        /\ link_timers' = link_timers \ ((linking \cap released) \ put_off)
        /\ pending' = pending \ mine
        /\ active' = active \ (mine \cup ask)
        /\ unlinking' = (unlinking \ mine) \cup ask
        /\ unlink_timers' = (unlink_timers \ mine) \cup ask
        /\ fault' = IF (linking \cap released) \ put_off \subseteq link_timers
                    THEN fault ELSE "discard_request"
    BY DEF ShutdownContinue
  <1>3. TypeOK
    BY DEF Inv
  <1>4. /\ Wants \subseteq Actors \X Actors
        /\ \A x \in Wants : x[1] \in Actors /\ x[2] \in Actors /\ x[1] # x[2]
        /\ h \in Localities
    BY LinksAssumption
  <1>5. Going(a) /\ \A x \in linking : x[1] # a
    <2>1. Going(a)
      BY DEF Going
    <2>2. ~Unsettled(a)
      BY <2>1 DEF Orderly, Course
    <2>3. QED
      BY <1>3, <2>1, <2>2 DEF Unsettled, TypeOK
  <1>6. /\ Servers(a) \subseteq linked /\ Servers(a) \subseteq Serving
        /\ Servers(a) \subseteq Wants /\ \A x \in Servers(a) : x[1] = a
    BY <1>3, <1>5 DEF Servers, TypeOK, Inv
  <1>7. /\ released \subseteq ss /\ ss \subseteq Servers(a) /\ ss \cap erased = {}
        /\ put_off \subseteq released /\ others \subseteq released /\ put_off \cap others = {}
    OBVIOUS
  <1>8. ask \subseteq active /\ \A x \in ask : x[2] = a
    BY DEF Clients
  <1>9. mine \subseteq erased /\ (\A x \in mine : x[2] = a) /\ ask \cap mine = {}
    OBVIOUS
  <1>10. \A x \in gone : x[1] = a
    OBVIOUS
  <1>11. /\ put_off \in SUBSET (Actors \X Actors) /\ others \in SUBSET (Actors \X Actors)
         /\ ask \in SUBSET (Actors \X Actors)
    BY <1>3, <1>4, <1>6, <1>7, <1>8 DEF TypeOK
  <1>12. (linking \cap released) = {}
    BY <1>5, <1>6, <1>7
  <1>13. \A x \in erased : x[2] = a <=> x \in mine
    OBVIOUS
  <1>14. last \in Seq(Message) /\ \A m \in Range(last) : m.kind = "unsubscription"
    BY AboutType, Few DEF ToClient
  <1> HIDE DEF cs, ss, released, put_off, others, ask, last, mine, gone, h
  <1>15. /\ rs \in Seq(Message) /\ Sparse(rs)
         /\ \A m \in Range(rs) : m.kind = "unlink_reply" /\ m.link \in put_off
    <2>1. /\ rs \in Seq(Message)
          /\ \A m \in Range(rs) : m.kind = "unlink_reply" /\ m.link \in put_off /\ m.ok
          /\ \A i, j \in 1 .. Len(rs) : rs[i].link = rs[j].link => i = j
      BY ONLY <1>1, <1>11, EachSent DEF ToServersSup
    <2>2. QED
      BY <2>1 DEF Sparse, Same
  <1>16. /\ ns \in Seq(Message) /\ Sparse(ns)
         /\ \A m \in Range(ns) : m.kind = "unlink_notify" /\ m.link \in others
    <2>1. /\ ns \in Seq(Message)
          /\ \A m \in Range(ns) : m.kind = "unlink_notify" /\ m.link \in others /\ m.ok
          /\ \A i, j \in 1 .. Len(ns) : ns[i].link = ns[j].link => i = j
      BY ONLY <1>1, <1>11, EachSent DEF ToServer
    <2>2. QED
      BY <2>1 DEF Sparse, Same
  <1>17. /\ us \in Seq(Message)
         /\ \A m \in Range(us) : m.kind = "unlink_request" /\ m.link \in ask
    BY ONLY <1>1, <1>11, EachSent DEF ToClient
  <1>18. \A m \in R : LetsGo(m) => m.link \notin linked
    BY DEF Inv, Says
  <1>19. Base(h, p \o rs) /\ Left(h, p \o rs) = R \cup T \cup Range(rs)
    <2>1. \A m \in Range(rs), n \in R \cup T : ~Same(m, n)
      <3>1. \A m \in Range(rs) : m.link \in linked /\ m.link \notin erased
                                 /\ m.kind # "link_response"
        BY <1>6, <1>7, <1>15
      <3>2. QED
        BY <1>18, <3>1 DEF Same
    <2>2. Base(h, p) /\ Left(h, p) = R \cup T
      BY DEF h
    <2>3. QED
      BY <1>4, <1>15, <2>1, <2>2, Appends
  <1>20. PICK p1 : p1 = p \o rs
    OBVIOUS
  <1>21. Base(h, p1 \o ns) /\ Left(h, p1 \o ns) = R \cup T \cup Range(rs) \cup Range(ns)
    <2>1. \A m \in Range(ns), n \in R \cup T \cup Range(rs) : ~Same(m, n)
      <3>1. \A m \in Range(ns) : m.link \in linked /\ m.link \notin erased
                                 /\ m.link \notin put_off /\ m.kind # "link_response"
        BY <1>6, <1>7, <1>16
      <3>2. QED
        BY <1>15, <1>18, <3>1 DEF Same
    <2>2. Base(h, p1) /\ Left(h, p1) = R \cup T \cup Range(rs)
      BY <1>19, <1>20
    <2>3. QED
      BY <1>4, <1>16, <2>1, <2>2, Appends
  <1>22. PICK p2 : p2 = p1 \o ns
    OBVIOUS
  <1>23. /\ Base(h, p2 \o us)
         /\ Left(h, p2 \o us) = R \cup T \cup Range(rs) \cup Range(ns) \cup Range(us)
    <2>1. Sparse(us) /\ \A m \in Range(us) : \A n : ~Same(m, n)
      BY <1>17, Unlike DEF Plain, LetsGo
    <2>2. /\ Base(h, p2)
          /\ Left(h, p2) = R \cup T \cup Range(rs) \cup Range(ns)
      BY <1>21, <1>22
    <2>3. QED
      BY <1>4, <1>17, <2>1, <2>2, Appends
  <1>24. PICK p3 : p3 = p2 \o us
    OBVIOUS
  <1>25. /\ Base(h, p3 \o last)
         /\ Left(h, p3 \o last) =
                R \cup T \cup Range(rs) \cup Range(ns) \cup Range(us) \cup Range(last)
    <2>1. Sparse(last) /\ \A m \in Range(last) : \A n : ~Same(m, n)
      BY <1>14, Unlike DEF Plain, LetsGo
    <2>2. /\ Base(h, p3)
          /\ Left(h, p3) = R \cup T \cup Range(rs) \cup Range(ns) \cup Range(us)
      BY <1>23, <1>24
    <2>3. QED
      BY <1>4, <1>14, <2>1, <2>2, Appends
  <1> DEFINE S == T \cup Range(rs) \cup Range(ns) \cup Range(us) \cup Range(last)
  <1>26. InFlight' = R \cup S /\ Moved(R, S, G)
    <2>1. queue' = [queue EXCEPT ![h] = p3 \o last]
      BY <1>1, <1>20, <1>22, <1>24
    <2>2. ApartIn(queue') /\ InFlight' = Left(h, p3 \o last)
      BY <1>25, <2>1, Becomes
    <2>3. InFlight' = R \cup S
      BY <1>25, <2>2
    <2>4. QED
      BY <2>2, <2>3 DEF Moved
  <1>27. Serving' = Serving \ mine
    BY <1>2, <1>8, <1>9 DEF Serving
  <1>28. /\ linking' = linking /\ link_timers' = link_timers /\ fault' = "none"
    BY <1>2, <1>5, <1>10, <1>12 DEF Orderly
  <1>29. Going(a)'
    BY DEF Going
  <1>30. \A m \in S :
            \/ /\ m.kind \in {"unlink_reply", "unlink_notify"}
               /\ m.link \in Servers(a)
            \/ m.kind = "unlink_request" /\ m.link[2] = a
            \/ m.kind = "unsubscription"
    BY <1>6, <1>7, <1>8, <1>14, <1>15, <1>16, <1>17
  <1>31. \A m \in S : /\ m.kind \notin {"init_request", "shutdown_trigger", "link_response"}
                      /\ Tells(m)'
    <2>1. Servers(a) \subseteq Serving'
      BY <1>4, <1>6, <1>9, <1>27
    <2>2. QED
      BY <1>29, <1>30, <2>1 DEF Tells, LetsGo
  <1> HIDE DEF S
  <1>32. \A b \in Actors : /\ state'[b] \in {"SHUTTING_DOWN", "SHUT_DOWN"} => b \in asked'
                           /\ b \in deaf' => state'[b] = "SHUT_DOWN"
    <2> SUFFICES ASSUME NEW b \in Actors
                 PROVE  /\ state'[b] \in {"SHUTTING_DOWN", "SHUT_DOWN"} => b \in asked'
                        /\ b \in deaf' => state'[b] = "SHUT_DOWN"
      OBVIOUS
    <2>1. CASE b = a
      BY <2>1 DEF Orderly, Course
    <2>2. CASE b # a
      BY <2>2 DEF Orderly, Course
    <2>3. QED
      BY <2>1, <2>2
  <1>33. \A m \in R : /\ m.kind = "link_response" => m.link \in linking'
                      /\ LetsGo(m) => m.link \in Serving'
    BY <1>9, <1>27, <1>28 DEF Orderly, Tells
  <1>34. \A x \in held' \cup unlinking' \cup unlink_queue' :
            x \in held \cup unlinking \cup unlink_queue \/ Going(x[2])
    BY <1>2, <1>5, <1>8
  <1>35. \A x \in linking' : state'[x[1]] = "INITIALIZING"
    <2>1. \A x \in linking : x[1] \in Actors \ {a} /\ state[x[1]] = "INITIALIZING"
      BY <1>3, <1>4, <1>5 DEF TypeOK, Orderly
    <2>2. QED
      BY <1>28, <2>1
  <1>36. \A x \in link_timers' :
            x \in linking' /\ \A m \in R \cup S : m.kind = "link_response" => m.link # x
    BY <1>28, <1>31 DEF Orderly
  <1>37. \A x \in unlinking' \ unlink_timers' :
            \E m \in R \cup S : m.kind = "unlink_response" /\ m.ok /\ m.link = x
    <2> SUFFICES ASSUME NEW x \in unlinking' \ unlink_timers'
                 PROVE  \E m \in R : m.kind = "unlink_response" /\ m.ok /\ m.link = x
      OBVIOUS
    <2>1. x \in unlinking \ unlink_timers /\ x \notin mine
      BY <1>2
    <2>2. PICK m \in InFlight : m.kind = "unlink_response" /\ m.ok /\ m.link = x
      BY <2>1 DEF Orderly, Answered
    <2>3. m \notin G
      BY <1>13, <2>1, <2>2
    <2>4. QED
      BY <2>2, <2>3
  <1>38. TypeOK' /\ asked \subseteq asked' /\ \A b \in asked' : Going(b)
    BY AskedGoing DEF Inv
  <1>39. \A x \in linking' : x \in linking \/ Untouched(x)
    BY <1>28
  <1>40. \A m \in G : m.kind # "shutdown_trigger"
    OBVIOUS
  <1>41. QED
    BY <1>26, <1>28, <1>31, <1>32, <1>33, <1>34, <1>35, <1>36, <1>37, <1>38, <1>39, <1>40, Stays

LEMMA OnShutdownRequestOrderly ==
    ASSUME Inv, Inv', Orderly, NEW l \in Localities, OnShutdownRequest(l)
    PROVE  Orderly'
  <1>1. PICK h, a, R : h = Head(queue[l]) /\ a = h.link[1] /\ R = Left(l, Tail(queue[l]))
    OBVIOUS
  <1>2. PICK busy : busy = Acquires(a)
    OBVIOUS
  <1>3. /\ queue[l] # <<>> /\ h.kind = "shutdown_request" /\ Home[Receiver(h)] = l /\ Heard(h)
        /\ state' = [state EXCEPT ![a] = "SHUTTING_DOWN"]
        /\ ShutdownContinue(a, {}, busy, Tail(queue[l]))
        /\ UNCHANGED <<init_request, asked, deaf, unlink_queue, held>>
    BY <1>1, <1>2 DEF OnShutdownRequest, Due, Subject, Link
  <1>4. h \in InFlight /\ a \in Actors /\ TypeOK
    BY <1>1, <1>3, Arrives DEF Inv
  <1>5. Home[a] = l /\ a \notin deaf /\ a \in asked
    <2>1. Receiver(h) = a
      BY <1>1, <1>3 DEF Receiver, ToServer, ToServersSup
    <2>2. Home[a] = l /\ a \notin deaf
      BY <1>3, <2>1 DEF Heard, ToClient
    <2>3. a \in asked
      BY <1>1, <1>3, <1>4 DEF Orderly, Tells
    <2>4. QED
      BY <2>2, <2>3
  <1>6. state'[a] = "SHUTTING_DOWN" /\ \A b \in Actors \ {a} : state'[b] = state[b]
    <2>1. state \in [Actors -> States]
      BY <1>4 DEF TypeOK
    <2>2. QED
      BY <1>3, <1>4, <2>1
  <1> DEFINE none == {}
             G == {h}
             p == Tail(queue[l])
  <1>7. /\ none \in SUBSET Wants
        /\ Base(Home[a], p) /\ Left(Home[a], p) = R \cup none
        /\ InFlight = R \cup G
        /\ ShutdownContinue(a, none, busy, p)
    BY <1>1, <1>3, <1>5, Takes
  <1>8. /\ \A m \in G : m.kind \notin {"shutdown_trigger", "unlink_response"}
        /\ \A m \in none : FALSE
    BY <1>3
  <1> HIDE DEF none, G, p
  <1>9. \A x \in held' \cup unlink_queue' : x \in held \cup unlink_queue \/ Going(x[2])
    BY <1>3
  <1>10. \A m \in R : LetsGo(m) => ~(m.link \in none /\ m.link[2] = a)
    BY <1>8
  <1>11. asked' = asked /\ deaf' = deaf
    BY <1>3
  <1>12. \A m \in none : m.kind = "unlink_reply" /\ m.link \in none \cap Servers(a)
    BY <1>8
  <1>13. \A m \in G : /\ m.kind # "shutdown_trigger"
                      /\ m.kind = "unlink_response" => m.link \in none /\ m.link[2] = a
    BY <1>8
  <1>14. Continues(a, none, busy, p, none, R, G)
    BY <1>7, <1>10, <1>12, <1>13 DEF Continues
  <1>15. QED
    BY <1>4, <1>5, <1>6, <1>7, <1>9, <1>11, <1>14, ContinuedOrderly

LEMMA ReleaseOrderly ==
    ASSUME Inv, Inv', Orderly, NEW a \in Actors, Release(a)
    PROVE  Orderly'
  <1>1. PICK busy : busy = FALSE
    OBVIOUS
  <1> DEFINE none == {}
             taken == {}
             p == queue[Home[a]]
  <1>2. /\ a \in holding
        /\ ShutdownContinue(a, none, busy, p)
        /\ UNCHANGED <<state, init_request, asked, deaf, unlink_queue, held>>
    BY <1>1 DEF Release
  <1>3. PICK R : R = InFlight
    OBVIOUS
  <1>4. Home[a] \in Localities
    BY LinksAssumption
  <1>5. /\ none \in SUBSET Wants
        /\ Base(Home[a], p) /\ Left(Home[a], p) = R \cup none
        /\ InFlight = R \cup taken
        /\ \A m \in none \cup taken : FALSE
    BY <1>3, <1>4, AsItIs
  <1>6. a \in asked
    BY <1>2 DEF Inv, LifeOf, Orderly, Course
  <1> HIDE DEF none, taken, p
  <1>7. /\ asked' = asked /\ deaf' = deaf /\ state'[a] = state[a]
        /\ \A b \in Actors \ {a} : state'[b] = state[b]
        /\ \A x \in held' \cup unlink_queue' : x \in held \cup unlink_queue \/ Going(x[2])
    BY <1>2
  <1>8. /\ \A m \in none : m.kind = "unlink_reply" /\ m.link \in none \cap Servers(a)
        /\ \A m \in taken : /\ m.kind # "shutdown_trigger"
                            /\ m.kind = "unlink_response" => m.link \in none /\ m.link[2] = a
        /\ \A m \in R : LetsGo(m) => ~(m.link \in none /\ m.link[2] = a)
    BY <1>5
  <1>9. Continues(a, none, busy, p, none, R, taken)
    BY <1>2, <1>5, <1>8 DEF Continues
  <1>10. QED
    BY <1>5, <1>6, <1>7, <1>9, ContinuedOrderly

---------------------------------------------------------------------------
\* A link that is let go of, or asked about, has been made before.
LEMMA LinkMade ==
    ASSUME Inv, Orderly, NEW x \in Wants, Going(x[2])
    PROVE  x \notin linking /\ ~Untouched(x) /\ ~Steady(x[2])
  <1>1. x[2] \in Actors
    BY LinksAssumption
  <1>2. ~Unsettled(x[2]) /\ ~Steady(x[2])
    BY <1>1 DEF Orderly, Course
  <1>3. QED
    BY <1>2 DEF Unsettled

\* A client that is not being shut down yet answers, and asks to be.
LEMMA LetsAllGo ==
    ASSUME Calm, Inv, TypeOK', Orderly, NEW x \in Wants, Going(x[2]),
           NEW c, c = x[1], NEW q, NEW R, NEW G,
           Base(Home[c], q), Left(Home[c], q) = R, InFlight = R \cup G,
           \A m \in G : m.kind \notin {"shutdown_trigger", "unlink_response"},
           NEW answered, answered = (unlink_queue \cup {x}) \cap Servers(c),
           NEW s \in ForEach("unlink_reply", answered),
           linking' = linking \ answered, linked' = linked \ answered,
           NEW d, d = DoShutdown(c),
           queue' = [queue EXCEPT ![Home[c]] = q \o s \o d],
           unlink_queue' = unlink_queue \cup {x}, held' \subseteq held,
           UNCHANGED <<link_timers, servers, fault, state, asked, deaf>>
    PROVE  Orderly'
  <1>1. TypeOK /\ c \in Actors /\ Home[c] \in Localities /\ Wants \subseteq Actors \X Actors
    BY LinksAssumption DEF Inv
  <1>2. answered \subseteq Wants /\ answered \subseteq linking \cup linked
    BY <1>1 DEF Servers, TypeOK
  <1>3. \A y \in answered : y \notin linking /\ y \in linked /\ y \in Serving
    <2>1. \A y \in answered : Going(y[2])
      BY DEF Orderly
    <2>2. \A y \in answered : y \notin linking
      BY <1>2, <2>1, LinkMade
    <2>3. QED
      BY <1>2, <2>2 DEF Inv
  <1>4. linking' = linking
    BY <1>3
  <1>5. answered \in SUBSET (Actors \X Actors)
    BY <1>1, <1>2
  <1>6. /\ s \in Seq(Message)
        /\ \A m \in Range(s) : m.kind = "unlink_reply" /\ m.link \in answered /\ m.ok
        /\ \A i, j \in 1 .. Len(s) : s[i].link = s[j].link => i = j
    BY <1>5, EachSent DEF ToServersSup
  <1>7. Base(Home[c], q \o s) /\ Left(Home[c], q \o s) = R \cup Range(s)
    <2>1. Sparse(s)
      BY <1>6 DEF Sparse, Same
    <2>2. \A m \in Range(s), n \in R : ~Same(m, n)
      <3>1. \A n \in R : LetsGo(n) => n.link \notin linked
        BY DEF Inv, Says
      <3>2. QED
        BY <1>3, <1>6, <3>1 DEF Same
    <2>3. QED
      BY <1>1, <1>6, <2>1, <2>2, Appends
  <1>8. PICK t : t = About("shutdown_trigger", c)
    OBVIOUS
  <1>9. t \in Message /\ t.kind = "shutdown_trigger" /\ t.link[1] = c
    BY ONLY <1>1, <1>8, AboutType DEF ToClientsSup
  <1>10. d \in Seq(Message) /\ \A m \in Range(d) : m = t
    BY <1>8, <1>9, Few DEF DoShutdown
  <1>11. \A m \in Range(d) : Plain(m) /\ Tells(m)'
    BY <1>9, <1>10, Silent
  <1>12. PICK r : r = q \o s
    OBVIOUS
  <1>13. /\ Base(Home[c], r \o d)
         /\ Left(Home[c], r \o d) = R \cup Range(s) \cup Range(d)
    <2>1. Sparse(d) /\ \A m \in Range(d) : \A n : ~Same(m, n)
      BY <1>10, <1>11, Unlike
    <2>2. Base(Home[c], r) /\ Left(Home[c], r) = R \cup Range(s)
      BY <1>7, <1>12
    <2>3. QED
      BY <1>1, <1>10, <2>1, <2>2, Appends
  <1> DEFINE S == Range(s) \cup Range(d)
  <1>14. InFlight' = R \cup S /\ Moved(R, S, G)
    <2>1. queue' = [queue EXCEPT ![Home[c]] = r \o d]
      BY <1>12
    <2>2. ApartIn(queue') /\ InFlight' = Left(Home[c], r \o d)
      BY <1>13, <2>1, Becomes
    <2>3. InFlight' = R \cup S
      BY <1>13, <2>2
    <2>4. QED
      BY <2>2, <2>3 DEF Moved
  <1>15. /\ unlinking' = unlinking /\ unlink_timers' = unlink_timers
         /\ link_timers' = link_timers /\ deaf' = deaf /\ fault' = "none"
         /\ Serving' = Serving /\ asked' = asked /\ state' = state
    BY DEF servers, Serving, Orderly
  <1>16. \A m \in S : /\ m.kind \notin {"init_request", "link_response"} /\ Tells(m)'
                      /\ m.kind = "shutdown_trigger" => m.link[1] = c
    <2>1. \A m \in Range(s) : m.link \in Serving' /\ m.kind = "unlink_reply"
      BY <1>3, <1>6, <1>15
    <2>2. \A m \in Range(s) : Tells(m)'
      BY <2>1 DEF Tells
    <2>3. QED
      BY <1>9, <1>10, <1>11, <2>1, <2>2
  <1> HIDE DEF S
  <1>17. x \notin linking /\ ~Untouched(x) /\ Alone(x)
    BY LinkMade DEF Calm
  <1>18. ~Steady(c) /\ ~Unsettled(c)'
    <2>1. ~Steady(c)
      BY DEF Steady
    <2>2. ASSUME NEW y \in Wants, c \in {y[1], y[2]}, (y \in linking \/ Untouched(y))'
          PROVE  FALSE
      <3>1. y = x
        BY <1>17, <2>2 DEF Alone
      <3>2. Untouched(x)'
        BY <1>4, <1>17, <2>2, <3>1
      <3>3. \A m \in InFlight' : m.kind = "init_request" => m \in InFlight
        BY <1>14, <1>16
      <3>4. QED
        BY <1>17, <3>2, <3>3 DEF Untouched
    <2>3. QED
      BY <2>1, <2>2 DEF Unsettled
  <1>19. \A m \in S : m.kind = "shutdown_trigger" =>
                        ~Unsettled(m.link[1])' /\ ~Steady(m.link[1])
    BY <1>16, <1>18
  <1>20. \A y \in unlinking' \ unlink_timers' :
            \E m \in R \cup S : m.kind = "unlink_response" /\ m.ok /\ m.link = y
    BY <1>15 DEF Orderly, Answered
  <1>21. \A y \in link_timers' :
            y \in linking' /\ \A m \in R \cup S : m.kind = "link_response" => m.link # y
    BY <1>4, <1>15, <1>16 DEF Orderly
  <1>22. \A m \in R : /\ m.kind = "link_response" => m.link \in linking'
                      /\ LetsGo(m) => m.link \in Serving'
    BY <1>4, <1>15 DEF Orderly, Tells
  <1>23. /\ \A y \in held' \cup unlinking' \cup unlink_queue' :
                y \in held \cup unlinking \cup unlink_queue \/ Going(y[2])
         /\ \A y \in linking' : y \in linking \/ Untouched(y)
    BY <1>4, <1>15
  <1>24. /\ \A y \in linking' : state'[y[1]] = "INITIALIZING"
         /\ \A b \in Actors : /\ state'[b] \in {"SHUTTING_DOWN", "SHUT_DOWN"} => b \in asked'
                              /\ b \in deaf' => state'[b] = "SHUT_DOWN"
    BY <1>4, <1>15 DEF Orderly, Course
  <1>25. asked \subseteq asked' /\ \A b \in asked' : Going(b)
    BY <1>15, AskedGoing
  <1>26. QED
    BY <1>14, <1>15, <1>16, <1>19, <1>20, <1>21, <1>22, <1>23, <1>24, <1>25, Stays

\* forget_link() for a link whose server is being shut down.
LEMMA ForgetLinkOrderly ==
    ASSUME Calm, Inv, Inv', Orderly, NEW x \in Wants, Going(x[2]),
           NEW q, NEW R, NEW G,
           Base(Home[x[1]], q), Left(Home[x[1]], q) = R, InFlight = R \cup G,
           \A m \in G : m.kind \notin {"shutdown_trigger", "unlink_response"},
           ForgetLink(x, q), UNCHANGED lives, held' \subseteq held
    PROVE  Orderly'
  <1>1. PICK c : c = x[1]
    OBVIOUS
  <1>2. PICK answered : answered = (unlink_queue \cup {x}) \cap Servers(c)
    OBVIOUS
  <1>3. PICK d, busy : d = DoShutdown(c) /\ busy = (c \in holding)
    OBVIOUS
  <1>4. \/ /\ queue' = [queue EXCEPT ![Home[c]] = q]
           /\ unlink_queue' \subseteq unlink_queue \cup {x}
           /\ UNCHANGED <<linking, linked, link_timers, servers, fault>>
        \/ /\ state[c] = "SHUTTING_DOWN" /\ unlink_queue' = unlink_queue \cup {x}
           /\ \E s \in ForEach("unlink_reply", answered) :
                ShutdownContinue(c, answered, busy, q \o s)
        \/ /\ unlink_queue' = unlink_queue \cup {x}
           /\ linking' = linking \ answered /\ linked' = linked \ answered
           /\ \E s \in ForEach("unlink_reply", answered) :
                queue' = [queue EXCEPT ![Home[c]] = q \o s \o d]
           /\ UNCHANGED <<link_timers, servers, fault>>
    BY <1>1, <1>2, <1>3 DEF ForgetLink
  <1>5. /\ TypeOK /\ TypeOK' /\ c \in Actors /\ Home[c] \in Localities
        /\ Wants \subseteq Actors \X Actors /\ \A y \in Wants : y[1] # y[2]
    BY <1>1, LinksAssumption DEF Inv
  <1>6. /\ Base(Home[c], q) /\ Left(Home[c], q) = R
        /\ UNCHANGED <<state, asked, deaf>>
    BY <1>1 DEF lives
  <1>7. \A y \in held' \cup unlink_queue' : y \in held \cup unlink_queue \/ Going(y[2])
    BY <1>4
  <1>8. CASE /\ queue' = [queue EXCEPT ![Home[c]] = q]
             /\ UNCHANGED <<linking, linked, link_timers, servers, fault>>
    <2>1. ApartIn(queue') /\ InFlight' = R
      BY <1>6, <1>8, Becomes
    <2> DEFINE none == {}
    <2>2. Moved(R, none, G) /\ \A m \in none : FALSE
      BY <2>1 DEF Moved
    <2> HIDE DEF none
    <2>3. /\ UNCHANGED <<linking, unlinking, unlink_timers, deaf, fault>>
          /\ Serving' = Serving /\ link_timers' = link_timers
          /\ asked' = asked /\ state' = state
      BY <1>6, <1>8 DEF servers, Serving
    <2>4. QED
      BY <1>5, <1>7, <2>2, <2>3, AskedGoing, Deferred
  <1>9. CASE /\ state[c] = "SHUTTING_DOWN"
             /\ \E s \in ForEach("unlink_reply", answered) :
                    ShutdownContinue(c, answered, busy, q \o s)
    <2>1. PICK s \in ForEach("unlink_reply", answered) :
                    ShutdownContinue(c, answered, busy, q \o s)
      BY <1>9
    <2>2. /\ answered \subseteq Wants /\ answered \subseteq linking \cup linked
          /\ answered \subseteq Servers(c) /\ \A y \in answered : y[1] = c
      BY <1>2, <1>5 DEF Servers, TypeOK
    <2>3. answered \in SUBSET (Actors \X Actors)
      BY <1>5, <2>2
    <2>4. /\ s \in Seq(Message)
          /\ \A m \in Range(s) : m.kind = "unlink_reply" /\ m.link \in answered /\ m.ok
          /\ \A i, j \in 1 .. Len(s) : s[i].link = s[j].link => i = j
      BY <2>1, <2>3, EachSent DEF ToServersSup
    <2>5. Base(Home[c], q \o s) /\ Left(Home[c], q \o s) = R \cup Range(s)
      <3>1. Sparse(s)
        BY <2>4 DEF Sparse, Same
      <3>2. \A m \in Range(s), n \in R : ~Same(m, n)
        <4>1. \A n \in R : LetsGo(n) => n.link \notin linking \cup linked
          BY DEF Inv, Says
        <4>2. QED
          BY <2>2, <2>4, <4>1 DEF Same
      <3>3. QED
        BY <1>5, <1>6, <2>4, <3>1, <3>2, Appends
    <2>6. c \in asked
      BY <1>5, <1>9 DEF Orderly, Course
    <2> DEFINE T == Range(s)
    <2>7. \A m \in T : m.kind = "unlink_reply" /\ m.link \in answered \cap Servers(c)
      BY <2>2, <2>4
    <2>8. \A m \in R : LetsGo(m) => ~(m.link \in answered /\ m.link[2] = c)
      BY <1>5, <2>2
    <2>9. PICK p : p = q \o s
      OBVIOUS
    <2>10. Base(Home[c], p) /\ Left(Home[c], p) = R \cup T /\ ShutdownContinue(c, answered, busy, p)
      BY <2>1, <2>5, <2>9
    <2> HIDE DEF T
    <2>11. Continues(c, answered, busy, p, T, R, G)
      BY <2>7, <2>8, <2>10 DEF Continues
    <2>12. /\ asked' = asked /\ deaf' = deaf /\ state'[c] = state[c]
           /\ \A b \in Actors \ {c} : state'[b] = state[b]
      BY <1>6
    <2>13. answered \in SUBSET Wants
      BY <2>2
    <2>14. QED
      BY <1>5, <1>7, <2>6, <2>11, <2>12, <2>13, ContinuedOrderly
  <1>10. CASE /\ unlink_queue' = unlink_queue \cup {x}
              /\ linking' = linking \ answered /\ linked' = linked \ answered
              /\ \E s \in ForEach("unlink_reply", answered) :
                    queue' = [queue EXCEPT ![Home[c]] = q \o s \o d]
              /\ UNCHANGED <<link_timers, servers, fault>>
    <2>1. PICK s \in ForEach("unlink_reply", answered) :
                    queue' = [queue EXCEPT ![Home[c]] = q \o s \o d]
      BY <1>10
    <2>2. UNCHANGED <<link_timers, servers, fault, state, asked, deaf>>
      BY <1>6, <1>10
    <2>3. QED
      BY <1>1, <1>2, <1>3, <1>5, <1>6, <1>10, <2>1, <2>2, LetsAllGo
  <1>11. QED
    BY <1>4, <1>8, <1>9, <1>10

LEMMA UserForgetsOrderly ==
    ASSUME Calm, Inv, Inv', Orderly, NEW x \in Wants, UserForgets(x)
    PROVE  Orderly'
  <1> DEFINE q == queue[Home[x[1]]]
             none == {}
  <1>1. ForgetLink(x, q) /\ UNCHANGED lives /\ held' \subseteq held /\ x \in held
    BY DEF UserForgets
  <1>2. Home[x[1]] \in Localities
    BY LinksAssumption
  <1>3. PICK R : R = InFlight
    OBVIOUS
  <1>4. /\ Base(Home[x[1]], q) /\ Left(Home[x[1]], q) = R /\ InFlight = R \cup none
        /\ \A m \in none : FALSE
    BY <1>2, <1>3, AsItIs
  <1>5. Going(x[2])
    BY <1>1 DEF Orderly
  <1> HIDE DEF q, none
  <1>6. \A m \in none : m.kind \notin {"shutdown_trigger", "unlink_response"}
    BY <1>4
  <1>7. QED
    BY <1>1, <1>4, <1>5, <1>6, ForgetLinkOrderly

LEMMA OnUnlinkRequestOrderly ==
    ASSUME Calm, Inv, Inv', Orderly, NEW l \in Localities, OnUnlinkRequest(l)
    PROVE  Orderly'
  <1>1. PICK h, x, R : h = Head(queue[l]) /\ x = h.link /\ R = Left(l, Tail(queue[l]))
    OBVIOUS
  <1>2. PICK q : q = Tail(queue[l])
    OBVIOUS
  <1>3. /\ queue[l] # <<>> /\ h.kind = "unlink_request" /\ Home[Receiver(h)] = l
        /\ \/ ForgetLink(x, q) /\ held' = held
           \/ /\ held' = held \cup {x}
              /\ Handled(l, <<>>)
              /\ UNCHANGED <<clients, servers, fault>>
        /\ UNCHANGED lives
    BY <1>1, <1>2 DEF OnUnlinkRequest, Due, Link
  <1>4. h \in InFlight /\ x \in Wants
    BY <1>1, <1>3, Arrives DEF Says, LinkKinds
  <1>5. Going(x[2]) /\ Home[x[1]] = l
    <2>1. Receiver(h) = x[1]
      BY <1>1, <1>3 DEF Receiver, ToServer, ToServersSup
    <2>2. Going(x[2])
      BY <1>1, <1>3, <1>4 DEF Orderly, Tells
    <2>3. QED
      BY <1>3, <2>1, <2>2
  <1>6. /\ Base(Home[x[1]], q) /\ Left(Home[x[1]], q) = R /\ InFlight = R \cup {h}
    BY <1>1, <1>2, <1>3, <1>5, Takes
  <1> DEFINE G == {h}
  <1>7. /\ \A m \in G : m.kind \notin {"shutdown_trigger", "unlink_response"}
        /\ InFlight = R \cup G
    BY <1>3, <1>6
  <1> HIDE DEF G
  <1>8. CASE ForgetLink(x, q) /\ held' = held
    <2>1. held' \subseteq held
      BY <1>8
    <2>2. QED
      BY <1>3, <1>4, <1>5, <1>6, <1>7, <1>8, <2>1, ForgetLinkOrderly
  <1>9. CASE held' = held \cup {x} /\ Handled(l, <<>>) /\ UNCHANGED <<clients, servers, fault>>
    <2>1. <<>> \in Seq(Message) /\ Range(<<>>) = {}
      BY Few
    <2>2. ApartIn(queue') /\ InFlight' = R
      BY <1>1, <1>3, <1>9, <2>1, PlainlySends
    <2> DEFINE none == {}
    <2>3. Moved(R, none, G) /\ \A m \in none : FALSE
      BY <1>7, <2>2 DEF Moved
    <2> HIDE DEF none
    <2>4. /\ UNCHANGED <<linking, unlinking, unlink_timers, deaf, fault>>
          /\ Serving' = Serving /\ link_timers' = link_timers
          /\ asked' = asked /\ state' = state
      BY <1>3, <1>9 DEF clients, servers, lives, Serving
    <2>5. \A y \in held' \cup unlink_queue' : y \in held \cup unlink_queue \/ Going(y[2])
      BY <1>5, <1>9 DEF clients
    <2>6. TypeOK'
      BY DEF Inv
    <2>7. QED
      BY <1>7, <2>3, <2>4, <2>5, <2>6, AskedGoing, Deferred
  <1>10. QED
    BY <1>3, <1>8, <1>9

---------------------------------------------------------------------------
\* The server has done with a client that has let go.
LEMMA ForgetClientOrderly ==
    ASSUME Inv, Inv', Orderly, NEW l \in Localities, queue[l] # <<>>,
           NEW h, h = Head(queue[l]), LetsGo(h),
           NEW x \in Wants, x = h.link, Home[x[2]] = l,
           ForgetClient(x, l), UNCHANGED <<lives, unlink_queue, held>>
    PROVE  Orderly'
  <1>1. PICK R, a, p, busy : /\ R = Left(l, Tail(queue[l])) /\ a = x[2]
                             /\ p = Tail(queue[l]) /\ busy = (a \in holding)
    OBVIOUS
  <1>2. /\ InFlight = R \cup {h} /\ \A m \in R : ~Same(h, m)
        /\ Base(l, p) /\ Left(l, p) = R
    BY <1>1, Takes
  <1>3. \A m \in R : LetsGo(m) => m.link # x
    BY <1>2 DEF Same
  <1>4. /\ h.kind # "shutdown_trigger" /\ h.kind # "link_response"
        /\ a \in Actors /\ TypeOK /\ TypeOK'
    BY <1>1, LinksAssumption DEF Inv, LetsGo
  <1>5. state' = state /\ asked' = asked /\ deaf' = deaf
    BY DEF lives
  <1> DEFINE G == {h}
  <1>6. InFlight = R \cup G /\ \A m \in G : m.kind # "shutdown_trigger" /\ m.link = x
    BY <1>2, <1>4
  <1>7. CASE state[a] = "SHUTTING_DOWN"
    <2> DEFINE erased == {x}
               none == {}
    <2>1. ShutdownContinue(a, erased, busy, p)
      BY <1>1, <1>7 DEF ForgetClient
    <2>2. /\ erased \in SUBSET Wants /\ \A y \in erased : y = x
          /\ Left(Home[a], p) = R \cup none /\ Base(Home[a], p)
          /\ \A m \in none : FALSE
          /\ x \in erased
      BY <1>1, <1>2
    <2> HIDE DEF erased, none, G
    <2>3. Continues(a, erased, busy, p, none, R, G)
      BY <1>1, <1>3, <1>6, <2>1, <2>2 DEF Continues
    <2>4. /\ \A y \in held' \cup unlink_queue' : y \in held \cup unlink_queue \/ Going(y[2])
          /\ state'[a] = state[a] /\ \A b \in Actors \ {a} : state'[b] = state[b]
      BY <1>5
    <2>5. a \in asked
      BY <1>4, <1>7 DEF Orderly, Course
    <2>6. QED
      BY <1>4, <1>5, <2>2, <2>3, <2>4, <2>5, ContinuedOrderly
  <1>8. CASE state[a] # "SHUTTING_DOWN"
    <2>1. /\ pending' = pending \ {x} /\ active' = active \ {x} /\ unlinking' = unlinking \ {x}
          /\ Handled(l, <<>>)
          /\ UNCHANGED <<linking, linked, link_timers, unlink_timers, fault>>
      BY <1>1, <1>8 DEF ForgetClient
    <2>2. <<>> \in Seq(Message) /\ Range(<<>>) = {}
      BY Few
    <2>3. ApartIn(queue') /\ InFlight' = R
      BY <1>1, <2>1, <2>2, PlainlySends
    <2> DEFINE S == {}
    <2>4. Moved(R, S, G) /\ \A m \in S : FALSE
      BY <1>6, <2>3 DEF Moved
    <2> HIDE DEF S, G
    <2>5. /\ linking' = linking /\ link_timers' = link_timers /\ unlink_timers' = unlink_timers
          /\ held' = held /\ unlink_queue' = unlink_queue /\ fault' = "none"
          /\ Serving' = Serving \ {x} /\ unlinking' = unlinking \ {x}
      BY <2>1 DEF Serving, Orderly
    <2>6. \A m \in R : /\ m.kind = "link_response" => m.link \in linking'
                       /\ LetsGo(m) => m.link \in Serving'
      BY <1>3, <1>6, <2>5 DEF Orderly, Tells
    <2>7. \A y \in unlinking' \ unlink_timers' :
            \E m \in R \cup S : m.kind = "unlink_response" /\ m.ok /\ m.link = y
      BY <1>6, <2>5 DEF Orderly, Answered
    <2>8. \A y \in link_timers' :
            y \in linking' /\ \A m \in R \cup S : m.kind = "link_response" => m.link # y
      BY <1>6, <2>4, <2>5 DEF Orderly
    <2>9. /\ \A y \in held' \cup unlinking' \cup unlink_queue' :
                y \in held \cup unlinking \cup unlink_queue \/ Going(y[2])
          /\ \A y \in linking' : y \in linking \/ Untouched(y)
      BY <2>5
    <2>10. /\ \A y \in linking' : state'[y[1]] = "INITIALIZING"
           /\ \A b \in Actors : /\ state'[b] \in {"SHUTTING_DOWN", "SHUT_DOWN"} => b \in asked'
                                /\ b \in deaf' => state'[b] = "SHUT_DOWN"
      BY <1>5, <2>5 DEF Orderly, Course
    <2>11. QED
      BY <1>4, <1>5, <1>6, <2>4, <2>5, <2>6, <2>7, <2>8, <2>9, <2>10, AskedGoing, Stays
  <1>9. QED
    BY <1>7, <1>8

LEMMA OnUnlinkResponseOrderly ==
    ASSUME Inv, Inv', Orderly, NEW l \in Localities, OnUnlinkResponse(l)
    PROVE  Orderly'
  <1>1. PICK h, x : h = Head(queue[l]) /\ x = h.link
    OBVIOUS
  <1>2. queue[l] # <<>> /\ h.kind = "unlink_response" /\ Home[Receiver(h)] = l
    BY <1>1 DEF OnUnlinkResponse, Due
  <1>3. h \in InFlight /\ x \in Wants
    BY <1>1, <1>2, Arrives DEF Says, LinkKinds
  <1>4. h.ok /\ LetsGo(h) /\ x \in Serving
    BY <1>1, <1>2, <1>3 DEF Orderly, Tells, LetsGo
  <1>5. Home[x[2]] = l
    BY <1>1, <1>2 DEF Receiver, ToServer
  <1>6. x \in Clients(x[2])
    BY <1>4 DEF Clients, Serving
  <1>7. ForgetClient(x, l) /\ UNCHANGED <<lives, unlink_queue, held>>
    BY <1>1, <1>4, <1>6 DEF OnUnlinkResponse, Link
  <1>8. QED
    BY <1>1, <1>2, <1>3, <1>4, <1>5, <1>7, ForgetClientOrderly

LEMMA OnUnlinkNotifyOrderly ==
    ASSUME Inv, Inv', Orderly, NEW l \in Localities, OnUnlinkNotify(l)
    PROVE  Orderly'
  <1>1. PICK h, x : h = Head(queue[l]) /\ x = h.link
    OBVIOUS
  <1>2. queue[l] # <<>> /\ h.kind = "unlink_notify" /\ Home[Receiver(h)] = l
    BY <1>1 DEF OnUnlinkNotify, Due
  <1>3. h \in InFlight /\ x \in Wants
    BY <1>1, <1>2, Arrives DEF Says, LinkKinds
  <1>4. LetsGo(h) /\ x \in Serving
    BY <1>1, <1>2, <1>3 DEF Orderly, Tells, LetsGo
  <1>5. Home[x[2]] = l
    BY <1>1, <1>2 DEF Receiver, ToServer
  <1>6. x \in Clients(x[2])
    BY <1>4 DEF Clients, Serving
  <1>7. x \notin unlinking \ unlink_timers
    <2> SUFFICES ASSUME x \in unlinking \ unlink_timers PROVE FALSE
      OBVIOUS
    <2>1. PICK m \in InFlight : m.kind = "unlink_response" /\ m.ok /\ m.link = x
      BY DEF Orderly, Answered
    <2>2. m # h /\ Same(h, m)
      BY <1>1, <1>2, <1>4, <2>1 DEF Same, LetsGo
    <2>3. QED
      BY <1>1, <1>2, <2>1, <2>2, Takes
  <1>8. ForgetClient(x, l) /\ UNCHANGED <<lives, unlink_queue, held>>
    BY <1>1, <1>6, <1>7 DEF OnUnlinkNotify, Link
  <1>9. QED
    BY <1>1, <1>2, <1>3, <1>4, <1>5, <1>8, ForgetClientOrderly

---------------------------------------------------------------------------
LEMMA NextOrderly == ASSUME Calm, Inv, Orderly, [Next]_vars PROVE Orderly'
  <1>1. Inv'
    BY NextInv
  <1>2. CASE UNCHANGED vars
    <2>1. UNCHANGED <<state, init_request, asked, linking, linked, pending, active, unlinking,
                      link_timers, unlink_timers, unlink_queue, held, holding, deaf,
                      queue, fault>>
      BY <1>2 DEF vars, clients, servers, lives
    <2>2. InFlight' = InFlight /\ Serving' = Serving
      BY <2>1 DEF InFlight, Serving
    <2>3. ApartIn(queue')
      BY <2>1 DEF Orderly
    <2> DEFINE none == {}
    <2>4. Moved(InFlight, none, none) /\ \A m \in none : FALSE
      BY <2>2, <2>3 DEF Moved
    <2> HIDE DEF none
    <2>5. TypeOK'
      BY <1>1 DEF Inv
    <2>6. QED
      BY <2>1, <2>2, <2>4, <2>5, AskedGoing, Unmoved
  <1>3. ASSUME NEW l \in Localities, Deliver(l) PROVE Orderly'
    BY <1>1, <1>3, OnInitRequestOrderly, OnStartOrderly, OnLinkRequestOrderly, OnLinkReplyOrderly,
       OnLinkResponseOrderly, OnShutdownTriggerOrderly, OnShutdownRequestOrderly,
       OnUnlinkRequestOrderly, OnUnlinkReplyOrderly, OnUnlinkResponseOrderly,
       OnUnlinkNotifyOrderly, OnShutdownErrorOrderly, OnUnsubscriptionOrderly,
       TransferOrderly, DropOrderly DEF Deliver
  <1>4. ASSUME NEW a \in Actors, UserShutdown(a) \/ Release(a) PROVE Orderly'
    BY <1>1, <1>4, UserShutdownOrderly, ReleaseOrderly
  <1>5. ASSUME NEW x \in Wants, LinkTimeout(x) \/ UnlinkTimeout(x) \/ UserForgets(x)
        PROVE  Orderly'
    BY <1>1, <1>5, LinkTimeoutOrderly, UnlinkTimeoutOrderly, UserForgetsOrderly
  <1>6. QED
    BY <1>2, <1>3, <1>4, <1>5 DEF Next

\* None of the assertions of link_client.cpp, link_server.cpp, init_continue(),
\* cancel_timer() and discard_request() fails, whatever the order of messages,
\* refusals, link timeouts and shutdowns, where user code shuts actors down
\* between their links only, no unlink request times out, and a client has one
\* link, unless its servers stay and answer in time.
THEOREM NothingFails == ASSUME Calm PROVE Spec => []NoAssertionFails
  <1>1. Inv /\ Orderly /\ [Next]_vars => Orderly'
    BY NextOrderly
  <1>2. Orderly => NoAssertionFails
    BY DEF Orderly, NoAssertionFails
  <1>3. QED
    BY InitOrderly, <1>1, <1>2, Invariance, PTL DEF Spec
=============================================================================

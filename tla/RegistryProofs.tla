--------------------------- MODULE RegistryProofs ---------------------------
(***************************************************************************)
(* Proofs about Registry for any actors, any finite set of names and any   *)
(* habits of their users: its type invariant, that the two maps of the     *)
(* registry are inverse to each other whatever is registered and taken     *)
(* back by whom, that no promise misses the registration it waits for, and *)
(* that a name leaves its owner only when the owner takes it back.         *)
(***************************************************************************)
EXTENDS Registry, FiniteSetTheorems, SequenceTheorems, TLAPS

\* Messages that are about a name.
Naming == {"registration", "discovery", "promise", "deregistration_service",
           "discovery_cancel"}

Mail == {m \in Message : m.kind \in Naming => m.name \in Names}

RegistryOK ==
    /\ registered_map \in [Names -> Actors \cup {NoOne}]
    /\ DOMAIN revese_map \subseteq Actors
    /\ \A a \in DOMAIN revese_map : revese_map[a] \subseteq Names
    /\ promises \in Seq(Promise)
    /\ \A n \in Names, a \in Actors :
        registered_map[n] = a <=> a \in DOMAIN revese_map /\ n \in revese_map[a]
    /\ \A i \in 1 .. Len(promises) : registered_map[promises[i][2]] = NoOne

LivesOK ==
    /\ state \in [Actors -> States]
    /\ init_request \subseteq Actors /\ answered \subseteq Actors
    /\ asked \subseteq Actors /\ deaf \subseteq Actors

PluginOK ==
    /\ plugin_state \in [Actors -> {"", "LINKING", "LINKED", "REFUSED"}]
    /\ registering \in [Actors -> SUBSET Names]
    /\ owned \in [Actors -> SUBSET Names]
    /\ tasks \in [Actors -> SUBSET Names]
    /\ linking \in [Actors -> SUBSET Names]
    /\ linked \in [Actors -> SUBSET Names]
    /\ \A a \in Actors :
        /\ registering[a] \cup owned[a] \subseteq Registers[a]
        /\ tasks[a] \cup linking[a] \cup linked[a] \subseteq Discovers[a] \cup Promises[a]
    /\ found \in [Actors -> [Names -> Actors \cup {NoOne}]]
    /\ requests \subseteq Request

MailOK == queue \in [Localities -> Seq(Mail)]

FaultOK == fault \in Faults \ {"at"}

Inv == RegistryOK /\ LivesOK /\ PluginOK /\ MailOK /\ FaultOK

LEMMA InvSuffices == Inv => TypeOK /\ MapsAgree /\ NoPromiseIsMissed
  <1> SUFFICES ASSUME Inv PROVE TypeOK /\ MapsAgree /\ NoPromiseIsMissed
    OBVIOUS
  <1> USE DEF Inv
  <1>1. Seq(Mail) \subseteq Seq(Message)
    BY SeqMonotonic DEF Mail
  <1>2. queue \in [Localities -> Seq(Message)]
    BY <1>1 DEF MailOK
  <1>3. \A names \in {registering, owned, tasks, linking, linked} :
            names \in [Actors -> SUBSET Names]
    BY DEF PluginOK
  <1>4. TypeOK
    BY <1>2, <1>3 DEF TypeOK, RegistryOK, LivesOK, PluginOK, FaultOK
  <1>5. MapsAgree
    BY DEF MapsAgree, RegistryOK, FaultOK
  <1>6. NoPromiseIsMissed
    BY DEF NoPromiseIsMissed, RegistryOK
  <1>7. QED
    BY <1>4, <1>5, <1>6
---------------------------------------------------------------------------
\* Messages.

LEMMA MsgType ==
    ASSUME NEW to \in {"registry", "supervisor", "actor"},
           NEW kind \in Asks \cup Told \cup Orders \cup {"shutdown_trigger"},
           NEW a \in Actors, NEW n \in Names \cup {NoOne}, NEW addr \in Actors \cup {NoOne},
           kind \in Naming => n \in Names
    PROVE  Msg(to, kind, a, n, addr) \in Mail
  BY DEF Msg, Mail, Message

\* What is sent about no name.
LEMMA OrderType ==
    ASSUME NEW a \in Actors
    PROVE  /\ \A kind \in Orders : Order(kind, a) \in Mail
           /\ DoShutdown(a) \in Seq(Mail)
           /\ Msg("registry", "link", a, NoOne, NoOne) \in Mail
           /\ Msg("registry", "deregistration_notify", a, NoOne, NoOne) \in Mail
  <1>1. \A kind \in Orders : Order(kind, a) \in Mail
    BY MsgType DEF Order, Orders, Naming
  <1>2. Msg("supervisor", "shutdown_trigger", a, NoOne, NoOne) \in Mail
    BY MsgType DEF Naming
  <1>3. DoShutdown(a) \in Seq(Mail)
    BY <1>2 DEF DoShutdown
  <1>4. Msg("registry", "link", a, NoOne, NoOne) \in Mail
    BY MsgType DEF Naming, Asks
  <1>5. Msg("registry", "deregistration_notify", a, NoOne, NoOne) \in Mail
    BY MsgType DEF Naming, Told
  <1>6. QED
    BY <1>1, <1>3, <1>4, <1>5

\* The message that is handled, and those behind it.
LEMMA Taken ==
    ASSUME MailOK, NEW l \in Localities, queue[l] # <<>>
    PROVE  /\ Head(queue[l]) \in Mail
           /\ Tail(queue[l]) \in Seq(Mail)
           /\ Subject(l) \in Actors
           /\ Name(l) \in Names \cup {NoOne}
           /\ Head(queue[l]).kind \in Naming => Name(l) \in Names
           /\ Head(queue[l]).address \in Actors \cup {NoOne}
  <1>1. queue[l] \in Seq(Mail)
    BY DEF MailOK
  <1>2. Head(queue[l]) \in Mail /\ Tail(queue[l]) \in Seq(Mail)
    BY <1>1, HeadTailProperties
  <1>3. QED
    BY <1>2 DEF Mail, Message, Subject, Name

LEMMA Sent ==
    ASSUME MailOK, NEW l \in Localities, queue[l] # <<>>, NEW sent \in Seq(Mail),
           Handled(l, sent)
    PROVE  MailOK'
  <1>1. Tail(queue[l]) \o sent \in Seq(Mail)
    BY Taken, ConcatProperties
  <1>2. QED
    BY <1>1 DEF MailOK, Handled

LEMMA SentHome ==
    ASSUME MailOK, NEW q \in Seq(Mail), queue' = [queue EXCEPT ![ClientsHome] = q]
    PROVE  MailOK'
  BY RegistryAssumption DEF MailOK

LEMMA AnyOrder ==
    ASSUME NEW S \in SUBSET Mail, IsFiniteSet(S), NEW s \in SetToSeqs(S)
    PROVE  s \in Seq(Mail)
  <1>1. Cardinality(S) \in Nat
    BY FS_CardinalityType
  <1>2. s \in [1 .. Cardinality(S) -> Mail]
    BY DEF SetToSeqs
  <1>3. QED
    BY <1>1, <1>2

\* What is said about each of some names.
LEMMA Each ==
    ASSUME NEW kind \in Asks \cup Told, NEW a \in Actors, NEW S \in SUBSET Names
    PROVE  /\ {Msg("registry", kind, a, n, NoOne) : n \in S} \in SUBSET Mail
           /\ IsFiniteSet({Msg("registry", kind, a, n, NoOne) : n \in S})
           /\ \A s \in ForEach(kind, a, S) : s \in Seq(Mail)
  <1> DEFINE M == {Msg("registry", kind, a, n, NoOne) : n \in S}
  <1>1. M \in SUBSET Mail
    BY MsgType
  <1>2. IsFiniteSet(S)
    BY RegistryAssumption, FS_Subset
  <1>3. IsFiniteSet(M)
    <2> DEFINE f == [n \in S |-> Msg("registry", kind, a, n, NoOne)]
    <2>1. f \in Surjection(S, M)
      BY DEF Surjection
    <2>2. QED
      BY <1>2, <2>1, FS_Surjection
  <1>4. \A s \in ForEach(kind, a, S) : s \in Seq(Mail)
    BY <1>1, <1>3, AnyOrder DEF ForEach
  <1>5. QED
    BY <1>1, <1>3, <1>4
---------------------------------------------------------------------------
\* The registry.

LEMMA AnswerInv ==
    ASSUME Inv, NEW l \in Localities, queue[l] # <<>>,
           NEW reg, NEW rev, NEW left, NEW sent \in Seq(Mail),
           Answer(l, reg, rev, left, sent), RegistryOK'
    PROVE  Inv'
  <1> USE DEF Inv, Answer
  <1>1. LivesOK' /\ PluginOK' /\ FaultOK'
    BY DEF lives, plugin, LivesOK, PluginOK, FaultOK
  <1>2. MailOK'
    BY Sent
  <1>3. QED
    BY <1>1, <1>2

\* The registry answers and remembers nothing.
LEMMA OnlyAnswerInv ==
    ASSUME Inv, NEW l \in Localities, queue[l] # <<>>, NEW sent \in Seq(Mail),
           Answer(l, registered_map, revese_map, promises, sent)
    PROVE  Inv'
  <1>1. RegistryOK'
    BY DEF Inv, RegistryOK, Answer
  <1>2. QED
    BY <1>1, AnswerInv

LEMMA ReplyType ==
    ASSUME NEW kind \in Asks, NEW a \in Actors, NEW n \in Names,
           NEW addr \in Actors \cup {NoOne}
    PROVE  Reply(kind, a, n, addr) \in Mail
  BY MsgType DEF Reply

LEMMA OnLinkRequestInv ==
    ASSUME Inv, NEW l \in Localities, OnLinkRequest(l)
    PROVE  Inv'
  <1>1. queue[l] # <<>> /\ Subject(l) \in Actors
    BY Taken DEF Inv, OnLinkRequest, Due
  <1>2. Reply("link", Subject(l), NoOne, Subject(l)) \in Mail
    BY <1>1, MsgType DEF Reply, Asks, Naming
  <1>3. <<Reply("link", Subject(l), NoOne, Subject(l))>> \in Seq(Mail)
    BY <1>2
  <1>4. QED
    BY <1>1, <1>3, OnlyAnswerInv DEF OnLinkRequest

\* A registration fulfils a tail of the promises, and what it keeps waits for
\* other names.
LEMMA OnRegInv ==
    ASSUME Inv, NEW l \in Localities, OnReg(l)
    PROVE  Inv'
  <1> DEFINE a == Subject(l)
             n == Name(l)
  <1>1. queue[l] # <<>> /\ a \in Actors /\ n \in Names
    BY Taken DEF Inv, OnReg, Due, Naming
  <1> HIDE DEF a, n
  <1>2. CASE registered_map[n] # NoOne
    <2>1. Reply("registration", a, n, NoOne) \in Mail
      BY <1>1, ReplyType DEF Asks
    <2>2. <<Reply("registration", a, n, NoOne)>> \in Seq(Mail)
      BY <2>1
    <2>3. QED
      BY <1>1, <1>2, <2>2, OnlyAnswerInv DEF OnReg, a, n
  <1>3. CASE registered_map[n] = NoOne
    <2> DEFINE met(k) == SubSeq(promises, k + 1, Len(promises))
               sent(k) == <<Reply("registration", a, n, a)>>
                   \o [i \in 1 .. Len(met(k)) |-> Reply("promise", met(k)[i][1], met(k)[i][2], a)]
    <2>1. PICK k \in Keeps(n) :
            Answer(l, [registered_map EXCEPT ![n] = a], Listed(a, n),
                   SubSeq(promises, 1, k), sent(k))
      BY <1>3 DEF OnReg, a, n
    <2>2. promises \in Seq(Promise) /\ Len(promises) \in Nat /\ k \in 0 .. Len(promises)
      BY DEF Inv, RegistryOK, Keeps
    <2>3. /\ SubSeq(promises, 1, k) \in Seq(Promise)
          /\ Len(SubSeq(promises, 1, k)) = k
          /\ \A i \in 1 .. k : SubSeq(promises, 1, k)[i] = promises[i]
      BY <2>2, SubSeqProperties
    <2>4. met(k) \in Seq(Promise)
      BY <2>2, SubSeqProperties
    <2>5. sent(k) \in Seq(Mail)
      <3> DEFINE t == met(k)
                 s == [i \in 1 .. Len(t) |-> Reply("promise", t[i][1], t[i][2], a)]
      <3>1. t \in Seq(Promise) /\ Len(t) \in Nat
        BY <2>4
      <3> HIDE DEF t
      <3>2. \A i \in 1 .. Len(t) : t[i][1] \in Actors /\ t[i][2] \in Names
        BY <3>1 DEF Promise
      <3>3. \A i \in 1 .. Len(t) : Reply("promise", t[i][1], t[i][2], a) \in Mail
        BY <1>1, <3>2, ReplyType DEF Asks
      <3>4. s \in Seq(Mail)
        BY <3>1, <3>3
      <3>5. Reply("registration", a, n, a) \in Mail
        BY <1>1, ReplyType DEF Asks
      <3>6. <<Reply("registration", a, n, a)>> \o s \in Seq(Mail)
        BY <3>4, <3>5, ConcatProperties
      <3>7. QED
        BY <3>6 DEF t
    <2>6. RegistryOK'
      <3>1. /\ registered_map' = [registered_map EXCEPT ![n] = a]
            /\ revese_map' = Listed(a, n)
            /\ promises' = SubSeq(promises, 1, k)
        BY <2>1 DEF Answer
      <3>2. registered_map' \in [Names -> Actors \cup {NoOne}]
        BY <1>1, <3>1 DEF Inv, RegistryOK
      <3>3. /\ DOMAIN revese_map' = DOMAIN revese_map \cup {a}
            /\ \A x \in DOMAIN revese_map \ {a} : revese_map'[x] = revese_map[x]
            /\ a \in DOMAIN revese_map => revese_map'[a] = revese_map[a] \cup {n}
            /\ a \notin DOMAIN revese_map => revese_map'[a] = {n}
        BY <3>1 DEF Listed
      <3>4. \A x \in DOMAIN revese_map' : revese_map'[x] \subseteq Names
        BY <1>1, <3>3 DEF Inv, RegistryOK
      <3>5. ASSUME NEW m \in Names, NEW b \in Actors
            PROVE  registered_map'[m] = b <=> b \in DOMAIN revese_map' /\ m \in revese_map'[b]
        <4>1. registered_map[m] = b <=> b \in DOMAIN revese_map /\ m \in revese_map[b]
          BY DEF Inv, RegistryOK
        <4>2. \A c \in DOMAIN revese_map : n \notin revese_map[c]
          BY <1>1, <1>3, RegistryAssumption DEF Inv, RegistryOK
        <4>3. registered_map'[m] = IF m = n THEN a ELSE registered_map[m]
          BY <3>1 DEF Inv, RegistryOK
        <4>4. QED
          BY <3>3, <4>1, <4>2, <4>3
      <3>6. \A i \in 1 .. k : promises[i][2] # n /\ promises[i][2] \in Names
        BY <2>2 DEF Keeps, Promise
      <3>7. \A i \in 1 .. Len(promises') : registered_map'[promises'[i][2]] = NoOne
        BY <2>2, <2>3, <3>1, <3>6 DEF Inv, RegistryOK
      <3>8. QED
        BY <1>1, <2>3, <3>1, <3>2, <3>3, <3>4, <3>5, <3>7 DEF Inv, RegistryOK
    <2>7. QED
      BY <1>1, <2>1, <2>5, <2>6, AnswerInv
  <1>4. QED
    BY <1>2, <1>3

\* Taking names out of the two maps, or whatever does not disturb them.
LEMMA OnDeregInv ==
    ASSUME Inv, NEW l \in Localities, OnDereg(l)
    PROVE  Inv'
  <1> DEFINE a == Subject(l)
             names == IF a \in DOMAIN revese_map THEN revese_map[a] ELSE {}
  <1>1. queue[l] # <<>> /\ a \in Actors
    BY Taken DEF Inv, OnDereg, Due
  <1>2. Answer(l, [n \in Names |-> IF n \in names THEN NoOne ELSE registered_map[n]],
               [x \in DOMAIN revese_map \ {a} |-> revese_map[x]], promises, <<>>)
    BY DEF OnDereg
  <1> HIDE DEF a
  <1>3. RegistryOK'
    <2>1. /\ registered_map' =
                [n \in Names |-> IF n \in names THEN NoOne ELSE registered_map[n]]
          /\ revese_map' = [x \in DOMAIN revese_map \ {a} |-> revese_map[x]]
          /\ promises' = promises
      BY <1>2 DEF Answer
    <2>2. ASSUME NEW m \in Names, NEW b \in Actors
          PROVE  registered_map'[m] = b <=> b \in DOMAIN revese_map' /\ m \in revese_map'[b]
      <3>1. /\ registered_map[m] = b <=> b \in DOMAIN revese_map /\ m \in revese_map[b]
            /\ registered_map[m] = a <=> a \in DOMAIN revese_map /\ m \in revese_map[a]
        BY <1>1 DEF Inv, RegistryOK
      <3>2. b # NoOne
        BY RegistryAssumption
      <3>3. QED
        BY <2>1, <3>1, <3>2
    <2>3. \A i \in 1 .. Len(promises) : promises[i][2] \in Names
      BY DEF Inv, RegistryOK, Promise
    <2>4. QED
      BY <2>1, <2>2, <2>3 DEF Inv, RegistryOK
  <1>4. QED
    BY <1>1, <1>2, <1>3, AnswerInv, EmptySeq

\* at() finds an entry, as the maps agree.
LEMMA OnDeregServiceInv ==
    ASSUME Inv, NEW l \in Localities, OnDeregService(l)
    PROVE  Inv'
  <1> DEFINE n == Name(l)
             a == registered_map[n]
  <1>1. queue[l] # <<>> /\ n \in Names
    BY Taken DEF Inv, OnDeregService, Due, Naming
  <1>2. CASE a = NoOne
    <2>1. Answer(l, registered_map, revese_map, promises, <<>>)
      BY <1>2 DEF OnDeregService
    <2>2. QED
      BY <1>1, <2>1, OnlyAnswerInv, EmptySeq
  <1>3. CASE a # NoOne
    <2>1. a \in Actors /\ a \in DOMAIN revese_map
      BY <1>1, <1>3 DEF Inv, RegistryOK
    <2>2. Answer(l, [registered_map EXCEPT ![n] = NoOne], Unlisted(a, n), promises, <<>>)
      BY <1>3, <2>1 DEF OnDeregService
    <2>3. RegistryOK'
      <3>1. /\ registered_map' = [registered_map EXCEPT ![n] = NoOne]
            /\ revese_map' = [revese_map EXCEPT ![a] = @ \ {n}]
            /\ promises' = promises
        BY <2>2 DEF Answer, Unlisted
      <3>2. ASSUME NEW m \in Names, NEW b \in Actors
            PROVE  registered_map'[m] = b <=> b \in DOMAIN revese_map' /\ m \in revese_map'[b]
        <4>1. /\ registered_map[m] = b <=> b \in DOMAIN revese_map /\ m \in revese_map[b]
              /\ registered_map[n] = b <=> b \in DOMAIN revese_map /\ n \in revese_map[b]
          BY <1>1 DEF Inv, RegistryOK
        <4>2. b # NoOne
          BY RegistryAssumption
        <4>3. registered_map'[m] = IF m = n THEN NoOne ELSE registered_map[m]
          BY <3>1 DEF Inv, RegistryOK
        <4>4. /\ DOMAIN revese_map' = DOMAIN revese_map
              /\ b \in DOMAIN revese_map =>
                    revese_map'[b] = IF b = a THEN revese_map[b] \ {n} ELSE revese_map[b]
          BY <3>1
        <4>5. QED
          BY <4>1, <4>2, <4>3, <4>4
      <3>3. \A i \in 1 .. Len(promises) : promises[i][2] \in Names
        BY DEF Inv, RegistryOK, Promise
      <3>4. registered_map' \in [Names -> Actors \cup {NoOne}]
        BY <3>1 DEF Inv, RegistryOK
      <3>5. /\ DOMAIN revese_map' = DOMAIN revese_map
            /\ \A x \in DOMAIN revese_map : revese_map'[x] \subseteq revese_map[x]
        BY <3>1
      <3>6. \A i \in 1 .. Len(promises') : registered_map'[promises'[i][2]] = NoOne
        BY <3>1, <3>3 DEF Inv, RegistryOK
      <3>7. QED
        BY <3>1, <3>2, <3>4, <3>5, <3>6 DEF Inv, RegistryOK
    <2>4. QED
      BY <1>1, <2>2, <2>3, AnswerInv, EmptySeq
  <1>4. QED
    BY <1>2, <1>3

LEMMA OnDiscoveryInv ==
    ASSUME Inv, NEW l \in Localities, OnDiscovery(l)
    PROVE  Inv'
  <1> DEFINE x == Reply("discovery", Subject(l), Name(l), registered_map[Name(l)])
  <1>1. queue[l] # <<>> /\ Subject(l) \in Actors /\ Name(l) \in Names
    BY Taken DEF Inv, OnDiscovery, Due, Naming
  <1>2. registered_map[Name(l)] \in Actors \cup {NoOne}
    BY <1>1 DEF Inv, RegistryOK
  <1>3. <<x>> \in Seq(Mail)
    BY <1>1, <1>2, ReplyType DEF Asks
  <1>4. QED
    BY <1>1, <1>3, OnlyAnswerInv DEF OnDiscovery

LEMMA OnPromiseInv ==
    ASSUME Inv, NEW l \in Localities, OnPromise(l)
    PROVE  Inv'
  <1> DEFINE a == Subject(l)
             n == Name(l)
             x == Reply("promise", a, n, registered_map[n])
  <1>1. queue[l] # <<>> /\ a \in Actors /\ n \in Names
    BY Taken DEF Inv, OnPromise, Due, Naming
  <1>2. registered_map[n] \in Actors \cup {NoOne}
    BY <1>1 DEF Inv, RegistryOK
  <1>3. CASE registered_map[n] # NoOne
    <2>1. <<x>> \in Seq(Mail)
      BY <1>1, <1>2, ReplyType DEF Asks
    <2>2. QED
      BY <1>1, <1>3, <2>1, OnlyAnswerInv DEF OnPromise
  <1>4. CASE registered_map[n] = NoOne
    <2>1. Answer(l, registered_map, revese_map, Append(promises, <<a, n>>), <<>>)
      BY <1>4 DEF OnPromise
    <2>2. promises \in Seq(Promise) /\ <<a, n>> \in Promise
      BY <1>1 DEF Inv, RegistryOK, Promise
    <2>3. promises' = Append(promises, <<a, n>>)
      BY <2>1 DEF Answer
    <2>4. \A i \in 1 .. Len(promises') : registered_map[promises'[i][2]] = NoOne
      BY <1>4, <2>2, <2>3, AppendProperties DEF Inv, RegistryOK
    <2>5. RegistryOK'
      BY <2>1, <2>2, <2>3, <2>4, AppendProperties DEF Inv, RegistryOK, Answer
    <2>6. QED
      BY <1>1, <2>1, <2>5, AnswerInv, EmptySeq
  <1>5. QED
    BY <1>3, <1>4

LEMMA OnCancelInv ==
    ASSUME Inv, NEW l \in Localities, OnCancel(l)
    PROVE  Inv'
  <1> DEFINE p == <<Subject(l), Name(l)>>
             x == Reply("promise", p[1], p[2], NoOne)
  <1>1. queue[l] # <<>> /\ Subject(l) \in Actors /\ Name(l) \in Names
    BY Taken DEF Inv, OnCancel, Due, Naming
  <1>2. CASE Answer(l, registered_map, revese_map, promises, <<>>)
    BY <1>1, <1>2, OnlyAnswerInv, EmptySeq
  <1>3. ASSUME NEW i \in 1 .. Len(promises),
               Answer(l, registered_map, revese_map, RemoveAt(promises, i), <<x>>)
        PROVE  Inv'
    <2>1. promises \in Seq(Promise) /\ Len(promises) \in Nat
      BY DEF Inv, RegistryOK
    <2> DEFINE q == SubSeq(promises, 1, i - 1)
               r == SubSeq(promises, i + 1, Len(promises))
    <2>2. /\ q \in Seq(Promise)
          /\ Len(q) = i - 1
          /\ \A j \in 1 .. i - 1 : q[j] = promises[j]
      BY <2>1, SubSeqProperties
    <2>3. /\ r \in Seq(Promise)
          /\ Len(r) = Len(promises) - i
          /\ \A j \in 1 .. Len(promises) - i : r[j] = promises[i + j]
      BY <2>1, SubSeqProperties
    <2> HIDE DEF q, r
    <2>4. /\ q \o r \in Seq(Promise)
          /\ Len(q \o r) = Len(promises) - 1
          /\ \A j \in 1 .. Len(promises) - 1 :
                (q \o r)[j] = IF j < i THEN promises[j] ELSE promises[j + 1]
      <3>1. /\ q \o r \in Seq(Promise)
            /\ Len(q \o r) = Len(q) + Len(r)
            /\ \A j \in 1 .. Len(q) + Len(r) :
                (q \o r)[j] = IF j <= Len(q) THEN q[j] ELSE r[j - Len(q)]
        BY <2>2, <2>3, ConcatProperties
      <3>2. ASSUME NEW j \in 1 .. Len(promises) - 1, j >= i
            PROVE  r[j - Len(q)] = promises[j + 1]
        <4>1. j - Len(q) \in 1 .. Len(promises) - i /\ i + (j - Len(q)) = j + 1
          BY <2>1, <2>2, <3>2
        <4>2. QED
          BY <2>3, <4>1
      <3>3. ASSUME NEW j \in 1 .. Len(promises) - 1, j < i
            PROVE  q[j] = promises[j]
        BY <2>2, <3>3
      <3>4. \A j \in 1 .. Len(promises) - 1 : j <= Len(q) <=> j < i
        BY <2>2
      <3>5. Len(q) + Len(r) = Len(promises) - 1
        BY <2>1, <2>2, <2>3
      <3>6. \A j \in 1 .. Len(promises) - 1 : j < i \/ j >= i
        BY <2>1
      <3>7. QED
        BY <3>1, <3>2, <3>3, <3>4, <3>5, <3>6
    <2>5. promises' = q \o r
      BY <1>3 DEF Answer, RemoveAt, q, r
    <2>6. ASSUME NEW j \in 1 .. Len(promises')
          PROVE  registered_map[promises'[j][2]] = NoOne
      <3>1. j \in 1 .. Len(promises) /\ j + 1 \in 1 .. Len(promises)
        BY <2>1, <2>4, <2>5
      <3>2. promises'[j] = promises[j] \/ promises'[j] = promises[j + 1]
        BY <2>4, <2>5
      <3>3. QED
        BY <3>1, <3>2 DEF Inv, RegistryOK
    <2>7. RegistryOK'
      BY <1>3, <2>4, <2>5, <2>6 DEF Inv, RegistryOK, Answer
    <2>8. <<x>> \in Seq(Mail)
      BY <1>1, ReplyType DEF Asks
    <2>9. QED
      BY <1>1, <1>3, <2>7, <2>8, AnswerInv
  <1>4. QED
    BY <1>2, <1>3 DEF OnCancel
---------------------------------------------------------------------------
\* The plugin.

LEMMA RegistryIdle ==
    ASSUME Inv, UNCHANGED registry
    PROVE  RegistryOK'
  BY DEF Inv, RegistryOK, registry

\* An assertion fails, other than that of at().
LEMMA FailsInv ==
    ASSUME Inv, NEW what \in Faults \ {"at"}, Fails(what),
           UNCHANGED <<asked, deaf>>
    PROVE  LivesOK' /\ MailOK' /\ FaultOK'
  BY DEF Inv, Fails, LivesOK, MailOK, FaultOK

LEMMA InitContinueInv ==
    ASSUME Inv, NEW a \in Actors, NEW done, NEW q \in Seq(Mail),
           InitContinue(a, done, q), UNCHANGED <<asked, deaf>>
    PROVE  LivesOK' /\ MailOK' /\ FaultOK'
  <1>1. CASE state[a] # "INITIALIZING"
    <2>1. Fails("init_continue")
      BY <1>1 DEF InitContinue
    <2>2. QED
      BY <2>1, FailsInv DEF Faults
  <1>2. CASE state[a] = "INITIALIZING" /\ done
    <2>1. Append(q, Order("start_actor", a)) \in Seq(Mail)
      BY OrderType, AppendProperties DEF Orders
    <2>2. /\ state' = [state EXCEPT ![a] = "INITIALIZED"]
          /\ init_request' = init_request \ {a}
          /\ answered' = answered \cup {a}
          /\ queue' = [queue EXCEPT ![ClientsHome] =
                IF a \in answered THEN q ELSE Append(q, Order("start_actor", a))]
          /\ fault' = fault
      BY <1>2 DEF InitContinue
    <2>3. MailOK'
      BY <2>1, <2>2, SentHome DEF Inv
    <2>4. QED
      BY <2>2, <2>3 DEF Inv, LivesOK, FaultOK, States
  <1>3. CASE state[a] = "INITIALIZING" /\ ~done
    <2>1. /\ queue' = [queue EXCEPT ![ClientsHome] = q]
          /\ UNCHANGED <<state, init_request, answered, fault>>
      BY <1>3 DEF InitContinue
    <2>2. MailOK'
      BY <2>1, SentHome DEF Inv
    <2>3. QED
      BY <2>1, <2>2 DEF Inv, LivesOK, FaultOK
  <1>4. QED
    BY <1>1, <1>2, <1>3

LEMMA RefuseInv ==
    ASSUME Inv, NEW a \in Actors, NEW q \in Seq(Mail), Refuse(a, q),
           init_request' \subseteq Actors, UNCHANGED <<asked, deaf>>
    PROVE  LivesOK' /\ MailOK' /\ FaultOK'
  <1>1. q \o DoShutdown(a) \in Seq(Mail)
    BY OrderType, ConcatProperties
  <1>2. MailOK'
    BY <1>1, SentHome DEF Refuse, Inv
  <1>3. QED
    BY <1>2 DEF Refuse, Inv, LivesOK, FaultOK

LEMMA ContinueInitInv ==
    ASSUME Inv, NEW a \in Actors, NEW ok, NEW done, NEW q \in Seq(Mail),
           ContinueInit(a, ok, done, q), UNCHANGED <<asked, deaf>>
    PROVE  LivesOK' /\ MailOK' /\ FaultOK'
  <1>1. CASE a \notin init_request
    <2>1. Fails("continue_init")
      BY <1>1 DEF ContinueInit
    <2>2. QED
      BY <2>1, FailsInv DEF Faults
  <1>2. CASE a \in init_request /\ ok
    BY <1>2, InitContinueInv DEF ContinueInit
  <1>3. CASE a \in init_request /\ ~ok
    BY <1>3, RefuseInv DEF ContinueInit, Inv, LivesOK
  <1>4. QED
    BY <1>1, <1>2, <1>3

LEMMA CreateInv ==
    ASSUME Inv, NEW a \in Actors, Create(a)
    PROVE  Inv'
  <1>1. queue[ClientsHome] \in Seq(Mail)
    BY RegistryAssumption DEF Inv, MailOK
  <1>2. Append(queue[ClientsHome], Order("init_request", a)) \in Seq(Mail)
    BY <1>1, OrderType, AppendProperties DEF Orders
  <1>3. MailOK'
    BY <1>2, SentHome DEF Create, Inv
  <1>4. LivesOK' /\ PluginOK' /\ FaultOK'
    BY DEF Create, Inv, LivesOK, PluginOK, FaultOK, plugin, States
  <1>5. QED
    BY <1>3, <1>4, RegistryIdle DEF Create, Inv

LEMMA OnInitRequestInv ==
    ASSUME Inv, NEW l \in Localities, OnInitRequest(l)
    PROVE  Inv'
  <1> DEFINE a == Subject(l)
             wanted == Registers[a] \cup ToDiscover(a)
             fresh == state[a] = "INITIALIZING"
  <1>1. queue[l] # <<>> /\ a \in Actors
    BY Taken DEF Inv, OnInitRequest, Due
  <1>2. /\ <<Order("start_actor", a)>> \in Seq(Mail)
        /\ <<Msg("registry", "link", a, NoOne, NoOne)>> \in Seq(Mail)
    BY <1>1, OrderType DEF Orders
  <1>3. MailOK'
    <2>1. PICK sent \in Seq(Mail) : Handled(l, sent)
      BY <1>2, EmptySeq DEF OnInitRequest
    <2>2. QED
      BY <1>1, <2>1, Sent DEF Inv
  <1>4. LivesOK'
    BY <1>1 DEF OnInitRequest, Inv, LivesOK, States
  <1>5. /\ Registers[a] \subseteq Names
        /\ ToDiscover(a) \subseteq Names
        /\ ToDiscover(a) = Discovers[a] \cup Promises[a]
        /\ <<"link", a, NoOne>> \in Request
    BY <1>1, RegistryAssumption DEF ToDiscover, Request, Asks
  <1>6. PluginOK'
    <2>1. CASE fresh /\ wanted # {}
      <3>1. /\ plugin_state' = [plugin_state EXCEPT ![a] = "LINKING"]
            /\ registering' = [registering EXCEPT ![a] = Registers[a]]
            /\ tasks' = [tasks EXCEPT ![a] = ToDiscover(a)]
            /\ requests' = requests \cup {<<"link", a, NoOne>>}
            /\ UNCHANGED <<owned, linking, linked, found>>
        BY <2>1 DEF OnInitRequest
      <3>2. QED
        BY <1>1, <1>5, <3>1 DEF Inv, PluginOK
    <2>2. CASE ~(fresh /\ wanted # {})
      <3>1. UNCHANGED plugin /\ UNCHANGED requests
        BY <2>2 DEF OnInitRequest, plugin
      <3>2. QED
        BY <3>1 DEF Inv, PluginOK, plugin
    <2>3. QED
      BY <2>1, <2>2
  <1>7. QED
    BY <1>3, <1>4, <1>6, RegistryIdle DEF OnInitRequest, Inv, FaultOK

LEMMA OnStartInv ==
    ASSUME Inv, NEW l \in Localities, OnStart(l)
    PROVE  Inv'
  <1>1. queue[l] # <<>> /\ Subject(l) \in Actors
    BY Taken DEF Inv, OnStart, Due
  <1>2. MailOK'
    BY <1>1, Sent, EmptySeq DEF OnStart, Inv
  <1>3. LivesOK' /\ PluginOK' /\ FaultOK'
    BY <1>1 DEF OnStart, Inv, LivesOK, PluginOK, FaultOK, plugin, States
  <1>4. QED
    BY <1>2, <1>3, RegistryIdle DEF OnStart, Inv

\* What goes out once there is a link to the registry, the registrations apart.
Asked(a) ==
    {<<"registration", registering[a]>>,
     <<"discovery", tasks[a] \cap Discovers[a]>>,
     <<"promise", tasks[a] \cap Promises[a]>>}
Later(a) ==
    UNION {{Msg("registry", k[1], a, n, NoOne) : n \in k[2]} :
           k \in {x \in Asked(a) : x[1] # "registration"}}

LEMMA AskedLater ==
    ASSUME Inv, NEW a \in Actors, NEW ds \in SetToSeqs(Later(a))
    PROVE  /\ ds \in Seq(Mail)
           /\ \A m \in Range(ds) : m.kind \in {"discovery", "promise"}
  <1> DEFINE D == {Msg("registry", "discovery", a, n, NoOne) : n \in tasks[a] \cap Discovers[a]}
             P == {Msg("registry", "promise", a, n, NoOne) : n \in tasks[a] \cap Promises[a]}
  <1>1. tasks[a] \subseteq Names
    BY DEF Inv, PluginOK
  <1>2. /\ D \in SUBSET Mail /\ IsFiniteSet(D)
        /\ P \in SUBSET Mail /\ IsFiniteSet(P)
    BY <1>1, Each DEF Asks
  <1>3. {x \in Asked(a) : x[1] # "registration"} =
            {<<"discovery", tasks[a] \cap Discovers[a]>>,
             <<"promise", tasks[a] \cap Promises[a]>>}
    BY DEF Asked
  <1>4. Later(a) \subseteq D \cup P
    <2> SUFFICES ASSUME NEW k \in {x \in Asked(a) : x[1] # "registration"},
                        NEW n \in k[2]
                 PROVE  Msg("registry", k[1], a, n, NoOne) \in D \cup P
      BY DEF Later
    <2>1. CASE k = <<"discovery", tasks[a] \cap Discovers[a]>>
      BY <2>1
    <2>2. CASE k = <<"promise", tasks[a] \cap Promises[a]>>
      BY <2>2
    <2>3. QED
      BY <1>3, <2>1, <2>2
  <1>5. \A m \in D \cup P : m.kind \in {"discovery", "promise"}
    BY DEF Msg
  <1> HIDE DEF D, P
  <1>6. IsFiniteSet(D \cup P)
    BY <1>2, FS_Union
  <1>7. Later(a) \in SUBSET Mail /\ IsFiniteSet(Later(a))
    BY <1>2, <1>4, <1>6, FS_Subset
  <1>8. ds \in Seq(Mail)
    BY <1>7, AnyOrder
  <1>9. Cardinality(Later(a)) \in Nat /\ ds \in [1 .. Cardinality(Later(a)) -> Later(a)]
    BY <1>7, FS_CardinalityType DEF SetToSeqs
  <1>10. \A m \in Range(ds) : m \in Later(a)
    BY <1>9 DEF Range
  <1>11. QED
    BY <1>4, <1>5, <1>8, <1>10

LEMMA OnLinkResponseInv ==
    ASSUME Inv, NEW l \in Localities, OnLinkResponse(l)
    PROVE  Inv'
  <1> DEFINE a == Subject(l)
             ok == Head(queue[l]).address # NoOne
             asks == {<<"registration", registering[a]>>,
                      <<"discovery", tasks[a] \cap Discovers[a]>>,
                      <<"promise", tasks[a] \cap Promises[a]>>}
  <1>1. queue[l] # <<>> /\ a \in Actors /\ Tail(queue[l]) \in Seq(Mail)
    BY Taken DEF Inv, OnLinkResponse, Due
  <1>2. UNCHANGED <<asked, deaf, registering, owned, tasks, linking, linked, found>>
    BY DEF OnLinkResponse
  <1>3. RegistryOK'
    BY RegistryIdle DEF OnLinkResponse
  <1>4. registering[a] \subseteq Names /\ tasks[a] \subseteq Names
    BY <1>1 DEF Inv, PluginOK
  <1>5. CASE plugin_state[a] # "LINKING"
    <2>1. Fails("on_link_response") /\ UNCHANGED <<plugin_state, requests>>
      BY <1>5 DEF OnLinkResponse
    <2>2. PluginOK'
      BY <1>2, <2>1 DEF Inv, PluginOK
    <2>3. QED
      BY <1>2, <1>3, <2>1, <2>2, FailsInv DEF Inv, Faults
  <1>6. CASE plugin_state[a] = "LINKING" /\ ok
    <2>1. /\ plugin_state' = [plugin_state EXCEPT ![a] = "LINKED"]
          /\ requests' = requests \cup
                UNION {{<<k[1], a, n>> : n \in k[2]} : k \in asks}
      BY <1>6 DEF OnLinkResponse
    <2>2. PICK rs \in ForEach("registration", a, registering[a]), ds \in SetToSeqs(Later(a)) :
            IF a \in init_request
            THEN InitContinue(a, FALSE, Tail(queue[l]) \o rs \o ds)
            ELSE /\ Handled(l, rs \o ds)
                 /\ UNCHANGED <<state, init_request, answered, fault>>
      BY <1>6 DEF OnLinkResponse, Later, Asked
    <2>3. rs \in Seq(Mail)
      BY <1>1, <1>4, Each DEF Asks
    <2>4. ds \in Seq(Mail)
      BY <1>1, AskedLater
    <2>5. /\ rs \o ds \in Seq(Mail)
          /\ Tail(queue[l]) \o rs \o ds \in Seq(Mail)
      BY <1>1, <2>3, <2>4, ConcatProperties
    <2>6. LivesOK' /\ MailOK' /\ FaultOK'
      <3>1. CASE a \in init_request
        BY <1>1, <1>2, <2>2, <2>5, <3>1, InitContinueInv
      <3>2. CASE a \notin init_request
        <4>1. Handled(l, rs \o ds) /\ UNCHANGED <<state, init_request, answered, fault>>
          BY <2>2, <3>2
        <4>2. MailOK'
          BY <1>1, <2>5, <4>1, Sent DEF Inv
        <4>3. QED
          BY <1>2, <4>1, <4>2 DEF Inv, LivesOK, FaultOK
      <3>3. QED
        BY <3>1, <3>2
    <2>7. \A k \in asks : k[1] \in Asks \ {"link"} /\ k[2] \subseteq Names
      BY <1>4 DEF Asks
    <2>8. UNION {{<<k[1], a, n>> : n \in k[2]} : k \in asks} \subseteq Request
      <3> SUFFICES ASSUME NEW k \in asks, NEW n \in k[2]
                   PROVE  <<k[1], a, n>> \in Request
        OBVIOUS
      <3>1. QED
        BY <1>1, <2>7 DEF Request
    <2>9. PluginOK'
      BY <1>2, <2>1, <2>8 DEF Inv, PluginOK
    <2>10. QED
      BY <1>3, <2>6, <2>9 DEF Inv
  <1>7. CASE plugin_state[a] = "LINKING" /\ ~ok
    <2>1. /\ plugin_state' = [plugin_state EXCEPT ![a] = "REFUSED"]
          /\ init_request' = init_request \ {a}
          /\ IF a \in init_request
             THEN Refuse(a, Tail(queue[l]))
             ELSE Handled(l, <<>>) /\ UNCHANGED <<state, answered, fault>>
          /\ UNCHANGED requests
      BY <1>7 DEF OnLinkResponse
    <2>2. init_request' \subseteq Actors
      BY <2>1 DEF Inv, LivesOK
    <2>3. LivesOK' /\ MailOK' /\ FaultOK'
      <3>1. CASE a \in init_request
        BY <1>1, <1>2, <2>1, <2>2, <3>1, RefuseInv
      <3>2. CASE a \notin init_request
        <4>1. MailOK'
          BY <1>1, <2>1, <3>2, Sent, EmptySeq DEF Inv
        <4>2. QED
          BY <1>2, <2>1, <2>2, <3>2, <4>1 DEF Inv, LivesOK, FaultOK
      <3>3. QED
        BY <3>1, <3>2
    <2>4. PluginOK'
      BY <1>2, <2>1 DEF Inv, PluginOK
    <2>5. QED
      BY <1>3, <2>3, <2>4 DEF Inv
  <1>8. QED
    BY <1>5, <1>6, <1>7

LEMMA OnRegistrationInv ==
    ASSUME Inv, NEW l \in Localities, OnRegistration(l)
    PROVE  Inv'
  <1> DEFINE a == Subject(l)
             n == Name(l)
             ok == Head(queue[l]).address # NoOne
             rest == registering[a] \ {n}
  <1>1. queue[l] # <<>> /\ a \in Actors /\ n \in Names /\ Tail(queue[l]) \in Seq(Mail)
    BY Taken DEF Inv, OnRegistration, Due, Naming
  <1>2. UNCHANGED <<asked, deaf, plugin_state, tasks, linking, linked, found, requests>>
    BY DEF OnRegistration
  <1>3. RegistryOK'
    BY RegistryIdle DEF OnRegistration
  <1>4. CASE n \notin registering[a]
    <2>1. Fails("on_registration") /\ UNCHANGED <<registering, owned>>
      BY <1>4 DEF OnRegistration
    <2>2. PluginOK'
      BY <1>2, <2>1 DEF Inv, PluginOK
    <2>3. QED
      BY <1>2, <1>3, <2>1, <2>2, FailsInv DEF Inv, Faults
  <1>5. CASE n \in registering[a]
    <2>1. /\ registering' = [registering EXCEPT ![a] = rest]
          /\ owned' = [owned EXCEPT ![a] = NowOwned(a, n, ok)]
          /\ IF rest = {} \/ ~ok
             THEN ContinueInit(a, ok, Done(rest, tasks[a], linking[a]), Tail(queue[l]))
             ELSE Handled(l, <<>>) /\ UNCHANGED <<state, init_request, answered, fault>>
      BY <1>5 DEF OnRegistration
    <2>2. NowOwned(a, n, ok) \subseteq owned[a] \cup registering[a]
      BY <1>5 DEF NowOwned
    <2>3. PluginOK'
      BY <1>1, <1>2, <2>1, <2>2 DEF Inv, PluginOK
    <2>4. LivesOK' /\ MailOK' /\ FaultOK'
      <3>1. CASE rest = {} \/ ~ok
        <4>1. ContinueInit(a, ok, Done(rest, tasks[a], linking[a]), Tail(queue[l]))
          BY <2>1, <3>1
        <4> HIDE DEF a, ok, rest
        <4>2. QED
          BY <1>1, <1>2, <4>1, ContinueInitInv
      <3>2. CASE ~(rest = {} \/ ~ok)
        <4>1. Handled(l, <<>>) /\ UNCHANGED <<state, init_request, answered, fault>>
          BY <2>1, <3>2
        <4>2. MailOK'
          BY <1>1, <4>1, Sent, EmptySeq DEF Inv
        <4>3. QED
          BY <1>2, <4>1, <4>2 DEF Inv, LivesOK, FaultOK
      <3>3. QED
        BY <3>1, <3>2
    <2>5. QED
      BY <1>3, <2>3, <2>4 DEF Inv
  <1>6. QED
    BY <1>4, <1>5

LEMMA OnFoundInv ==
    ASSUME Inv, NEW l \in Localities, OnFound(l)
    PROVE  Inv'
  <1> DEFINE a == Subject(l)
             n == Name(l)
             address == Head(queue[l]).address
  <1>1. /\ queue[l] # <<>> /\ a \in Actors /\ n \in Names
        /\ Tail(queue[l]) \in Seq(Mail)
        /\ address \in Actors \cup {NoOne}
    BY Taken DEF Inv, OnFound, Due, Naming
  <1>2. /\ UNCHANGED <<asked, deaf, plugin_state, registering, owned, linked, requests>>
        /\ UNCHANGED registry
    BY DEF OnFound
  <1>3. RegistryOK'
    BY <1>2, RegistryIdle
  <1>4. CASE n \notin tasks[a]
    <2>1. Fails("process_discovery") /\ UNCHANGED <<found, tasks, linking>>
      BY <1>4 DEF OnFound
    <2>2. PluginOK'
      BY <1>2, <2>1 DEF Inv, PluginOK
    <2>3. QED
      BY <1>2, <1>3, <2>1, <2>2, FailsInv DEF Inv, Faults
  <1>5. CASE n \in tasks[a] /\ address = NoOne
    <2>1. /\ tasks' = [tasks EXCEPT ![a] = @ \ {n}]
          /\ ContinueInit(a, FALSE, FALSE, Tail(queue[l]))
          /\ UNCHANGED <<found, linking>>
      BY <1>5 DEF OnFound
    <2>2. PluginOK'
      BY <1>1, <1>2, <2>1 DEF Inv, PluginOK
    <2>3. LivesOK' /\ MailOK' /\ FaultOK'
      BY <1>1, <1>2, <2>1, ContinueInitInv
    <2>4. QED
      BY <1>3, <2>2, <2>3 DEF Inv
  <1>6. CASE n \in tasks[a] /\ address # NoOne
    <2> DEFINE twice == address \in {found[a][x] : x \in linking[a] \cup linked[a]}
    <2>1. /\ found' = [found EXCEPT ![a][n] = address]
          /\ IF twice
             THEN Fails("link") /\ UNCHANGED linking
             ELSE /\ linking' = [linking EXCEPT ![a] = @ \cup {n}]
                  /\ Handled(l, <<>>)
                  /\ UNCHANGED <<state, init_request, answered, fault>>
          /\ UNCHANGED tasks
      BY <1>6 DEF OnFound
    <2> HIDE DEF twice
    <2>2. found' \in [Actors -> [Names -> Actors \cup {NoOne}]]
      BY <1>1, <2>1 DEF Inv, PluginOK
    <2>3. CASE twice
      <3>1. PluginOK'
        BY <1>2, <2>1, <2>2, <2>3 DEF Inv, PluginOK
      <3>2. QED
        BY <1>2, <1>3, <2>1, <2>3, <3>1, FailsInv DEF Inv, Faults
    <2>4. CASE ~twice
      <3>1. PluginOK'
        <4>1. linking' = [linking EXCEPT ![a] = @ \cup {n}] /\ UNCHANGED tasks
          BY <2>1, <2>4
        <4>2. n \in Discovers[a] \cup Promises[a]
          BY <1>1, <1>6 DEF Inv, PluginOK
        <4>3. linking' \in [Actors -> SUBSET Names]
          BY <1>1, <4>1 DEF Inv, PluginOK
        <4>4. \A b \in Actors : linking'[b] \subseteq Discovers[b] \cup Promises[b]
          BY <1>1, <4>1, <4>2 DEF Inv, PluginOK
        <4> HIDE DEF a, n, address
        <4>5. QED
          BY <1>2, <2>2, <4>1, <4>3, <4>4 DEF Inv, PluginOK
      <3>2. MailOK'
        BY <1>1, <2>1, <2>4, Sent, EmptySeq DEF Inv
      <3>3. QED
        BY <1>2, <1>3, <2>1, <2>4, <3>1, <3>2 DEF Inv, LivesOK, FaultOK
    <2>5. QED
      BY <2>3, <2>4
  <1>7. QED
    BY <1>4, <1>5, <1>6

LEMMA LinkDoneInv ==
    ASSUME Inv, NEW a \in Actors, NEW n \in Names, LinkDone(a, n)
    PROVE  Inv'
  <1> DEFINE rest == tasks[a] \ {n}
             ls == linking[a] \ {n}
  <1>1. /\ n \in linking[a]
        /\ linking' = [linking EXCEPT ![a] = ls]
        /\ linked' = [linked EXCEPT ![a] = @ \cup {n}]
        /\ tasks' = [tasks EXCEPT ![a] = rest]
        /\ UNCHANGED registry
        /\ UNCHANGED <<asked, deaf, plugin_state, registering, owned, found, requests>>
    BY DEF LinkDone
  <1>2. PluginOK'
    BY <1>1 DEF Inv, PluginOK
  <1>3. LivesOK' /\ MailOK' /\ FaultOK'
    <2>1. CASE n \notin tasks[a]
      <3>1. Fails("task")
        BY <2>1 DEF LinkDone
      <3>2. QED
        BY <1>1, <3>1, FailsInv DEF Faults
    <2>2. CASE n \in tasks[a] /\ a \in init_request
      <3>1. InitContinue(a, Done(registering[a], rest, ls), queue[ClientsHome])
        BY <2>2 DEF LinkDone
      <3>2. queue[ClientsHome] \in Seq(Mail)
        BY RegistryAssumption DEF Inv, MailOK
      <3>3. QED
        BY <1>1, <3>1, <3>2, InitContinueInv
    <2>3. CASE n \in tasks[a] /\ a \notin init_request /\ rest = {}
      <3>1. Fails("continue_init")
        BY <2>3 DEF LinkDone
      <3>2. QED
        BY <1>1, <3>1, FailsInv DEF Faults
    <2>4. CASE n \in tasks[a] /\ a \notin init_request /\ rest # {}
      <3>1. UNCHANGED <<queue, state, init_request, answered, fault>>
        BY <2>4 DEF LinkDone
      <3>2. QED
        BY <1>1, <3>1 DEF Inv, LivesOK, MailOK, FaultOK
    <2>5. QED
      BY <2>1, <2>2, <2>3, <2>4
  <1>4. QED
    BY <1>1, <1>2, <1>3, RegistryIdle DEF Inv

LEMMA LinkFailsInv ==
    ASSUME Inv, NEW a \in Actors, NEW n \in Names, LinkFails(a, n)
    PROVE  Inv'
  <1>1. /\ linking' = [linking EXCEPT ![a] = @ \ {n}]
        /\ tasks' = [tasks EXCEPT ![a] = @ \ {n}]
        /\ UNCHANGED registry
        /\ UNCHANGED <<asked, deaf, plugin_state, registering, owned, linked, found, requests>>
    BY DEF LinkFails
  <1>2. PluginOK'
    BY <1>1 DEF Inv, PluginOK
  <1>3. LivesOK' /\ MailOK' /\ FaultOK'
    <2>1. CASE n \notin tasks[a]
      <3>1. Fails("task")
        BY <2>1 DEF LinkFails
      <3>2. QED
        BY <1>1, <3>1, FailsInv DEF Faults
    <2>2. CASE n \in tasks[a] /\ a \notin init_request
      <3>1. Fails("continue_init")
        BY <2>2 DEF LinkFails
      <3>2. QED
        BY <1>1, <3>1, FailsInv DEF Faults
    <2>3. CASE n \in tasks[a] /\ a \in init_request
      <3>1. Refuse(a, queue[ClientsHome]) /\ init_request' = init_request \ {a}
        BY <2>3 DEF LinkFails
      <3>2. queue[ClientsHome] \in Seq(Mail)
        BY RegistryAssumption DEF Inv, MailOK
      <3>3. init_request' \subseteq Actors
        BY <3>1 DEF Inv, LivesOK
      <3>4. QED
        BY <1>1, <3>1, <3>2, <3>3, RefuseInv
    <2>4. QED
      BY <2>1, <2>2, <2>3
  <1>4. QED
    BY <1>1, <1>2, <1>3, RegistryIdle DEF Inv

LEMMA OnReplyInv ==
    ASSUME Inv, NEW l \in Localities, OnReply(l)
    PROVE  Inv'
  <1> DEFINE m == Head(queue[l])
             x == [m EXCEPT !.to = "actor"]
  <1>1. PICK kind \in Asks :
            LET r == <<kind, m.actor, m.name>> IN
            /\ Due(l, "supervisor", kind)
            /\ requests' = requests \ {r}
            /\ Handled(l, IF r \in requests THEN <<x>> ELSE <<>>)
            /\ UNCHANGED <<registry, lives, plugin, fault>>
    BY DEF OnReply
  <1>2. queue[l] # <<>> /\ m \in Mail
    BY <1>1, Taken DEF Inv, Due
  <1>3. x \in Mail
    BY <1>2 DEF Mail, Message
  <1> HIDE DEF m, x
  <1>4. <<x>> \in Seq(Mail)
    BY <1>3
  <1>5. MailOK'
    BY <1>1, <1>2, <1>4, Sent, EmptySeq DEF Inv
  <1>6. LivesOK' /\ PluginOK' /\ FaultOK'
    BY <1>1 DEF Inv, LivesOK, PluginOK, FaultOK, lives, plugin
  <1>7. QED
    BY <1>1, <1>5, <1>6, RegistryIdle DEF Inv

LEMMA RequestTimeoutInv ==
    ASSUME Inv, NEW r \in Expires, RequestTimeout(r)
    PROVE  Inv'
  <1> DEFINE x == Msg("actor", r[1], r[2], r[3], NoOne)
  <1>1. r \in Request
    BY RegistryAssumption
  <1>2. x \in Mail
    BY <1>1, MsgType DEF Request, Asks, Naming
  <1>3. queue[ClientsHome] \in Seq(Mail)
    BY RegistryAssumption DEF Inv, MailOK
  <1>4. Append(queue[ClientsHome], x) \in Seq(Mail)
    BY <1>2, <1>3, AppendProperties
  <1>5. MailOK'
    BY <1>4, SentHome DEF RequestTimeout, Inv
  <1>6. LivesOK' /\ PluginOK' /\ FaultOK'
    BY DEF RequestTimeout, Inv, LivesOK, PluginOK, FaultOK, lives, plugin
  <1>7. QED
    BY <1>5, <1>6, RegistryIdle DEF RequestTimeout, Inv
---------------------------------------------------------------------------
\* Shutting down.

LEMMA UserDeregistersInv ==
    ASSUME Inv, NEW a \in Actors, UserDeregisters(a)
    PROVE  Inv'
  <1> DEFINE x == Msg("registry", "deregistration_notify", a, NoOne, NoOne)
  <1>1. queue[ClientsHome] \in Seq(Mail)
    BY RegistryAssumption DEF Inv, MailOK
  <1>2. Append(queue[ClientsHome], x) \in Seq(Mail)
    BY <1>1, OrderType, AppendProperties
  <1>3. MailOK'
    BY <1>2, SentHome DEF UserDeregisters, Inv
  <1>4. LivesOK' /\ PluginOK' /\ FaultOK'
    BY DEF UserDeregisters, Inv, LivesOK, PluginOK, FaultOK, lives, plugin
  <1>5. QED
    BY <1>3, <1>4, RegistryIdle DEF UserDeregisters, Inv

LEMMA UserShutdownInv ==
    ASSUME Inv, NEW a \in Actors, UserShutdown(a)
    PROVE  Inv'
  <1>1. queue[ClientsHome] \in Seq(Mail)
    BY RegistryAssumption DEF Inv, MailOK
  <1>2. queue[ClientsHome] \o DoShutdown(a) \in Seq(Mail)
    BY <1>1, OrderType, ConcatProperties
  <1>3. MailOK'
    BY <1>2, SentHome DEF UserShutdown, Inv
  <1>4. LivesOK' /\ PluginOK' /\ FaultOK'
    BY DEF UserShutdown, Inv, LivesOK, PluginOK, FaultOK, lives, plugin
  <1>5. QED
    BY <1>3, <1>4, RegistryIdle DEF UserShutdown, Inv

LEMMA OnShutdownTriggerInv ==
    ASSUME Inv, NEW l \in Localities, OnShutdownTrigger(l)
    PROVE  Inv'
  <1>1. queue[l] # <<>> /\ Subject(l) \in Actors
    BY Taken DEF Inv, OnShutdownTrigger, Due
  <1>2. <<Order("shutdown_request", Subject(l))>> \in Seq(Mail)
    BY <1>1, OrderType DEF Orders
  <1>3. MailOK'
    BY <1>1, <1>2, Sent, EmptySeq DEF OnShutdownTrigger, Inv
  <1>4. LivesOK' /\ PluginOK' /\ FaultOK'
    BY <1>1 DEF OnShutdownTrigger, Inv, LivesOK, PluginOK, FaultOK, plugin
  <1>5. QED
    BY <1>3, <1>4, RegistryIdle DEF OnShutdownTrigger, Inv

LEMMA GiveUpLinksInv ==
    ASSUME Inv, NEW a \in Actors, NEW q \in Seq(Mail), GiveUpLinks(a, q)
    PROVE  /\ MailOK' /\ FaultOK'
           /\ plugin_state' \in [Actors -> {"", "LINKING", "LINKED", "REFUSED"}]
           /\ linking' = [linking EXCEPT ![a] = {}]
           /\ linked' = [linked EXCEPT ![a] = {}]
           /\ requests' \subseteq requests
  <1>1. Append(q, Order("unsubscription", a)) \in Seq(Mail)
    BY OrderType, AppendProperties DEF Orders
  <1>2. MailOK'
    BY <1>1, SentHome DEF GiveUpLinks, Inv
  <1>3. QED
    BY <1>2 DEF GiveUpLinks, Inv, PluginOK, FaultOK, Faults

LEMMA OnShutdownRequestInv ==
    ASSUME Inv, NEW l \in Localities, OnShutdownRequest(l)
    PROVE  Inv'
  <1> DEFINE a == Subject(l)
  <1>1. queue[l] # <<>> /\ a \in Actors /\ Tail(queue[l]) \in Seq(Mail)
    BY Taken DEF Inv, OnShutdownRequest, Due
  <1> DEFINE after(ds, cs) ==
                LET q == Tail(queue[l]) \o ds \o cs IN
                IF a \in Served
                THEN /\ queue' = [queue EXCEPT ![l] = q]
                     /\ UNCHANGED <<plugin_state, linking, linked, requests, fault>>
                ELSE GiveUpLinks(a, q)
  <1>2. /\ state' = [state EXCEPT ![a] = "SHUTTING_DOWN"]
        /\ registering' = [registering EXCEPT ![a] = {}]
        /\ owned' = [owned EXCEPT ![a] = {}]
        /\ tasks' = [tasks EXCEPT ![a] = {}]
        /\ UNCHANGED <<registry, init_request, answered, asked, deaf, found>>
    BY DEF OnShutdownRequest
  <1>3. PICK ds \in ForEach("deregistration_service", a, Deregisters(a)),
             cs \in ForEach("discovery_cancel", a, Cancels(a)) : after(ds, cs)
    BY DEF OnShutdownRequest
  <1>4. Deregisters(a) \subseteq Names /\ Cancels(a) \subseteq Names
    BY <1>1 DEF Deregisters, Cancels, Inv, PluginOK
  <1>5. ds \in Seq(Mail) /\ cs \in Seq(Mail)
    BY <1>1, <1>4, Each DEF Told
  <1> DEFINE q == Tail(queue[l]) \o ds \o cs
  <1>6. q \in Seq(Mail)
    BY <1>1, <1>5, ConcatProperties
  <1> HIDE DEF a, q
  <1>7. /\ MailOK' /\ FaultOK'
        /\ plugin_state' \in [Actors -> {"", "LINKING", "LINKED", "REFUSED"}]
        /\ linking' \in [Actors -> SUBSET Names]
        /\ linked' \in [Actors -> SUBSET Names]
        /\ \A b \in Actors : linking'[b] \subseteq linking[b] /\ linked'[b] \subseteq linked[b]
        /\ requests' \subseteq requests
    <2>1. CASE a \in Served
      <3>1. /\ queue' = [queue EXCEPT ![l] = q]
            /\ UNCHANGED <<plugin_state, linking, linked, requests, fault>>
        BY <1>3, <2>1 DEF q
      <3>2. QED
        BY <1>6, <3>1 DEF Inv, MailOK, FaultOK, PluginOK
    <2>2. CASE a \notin Served
      <3>1. GiveUpLinks(a, q)
        BY <1>3, <2>2 DEF q
      <3>2. QED
        BY <1>1, <1>6, <3>1, GiveUpLinksInv DEF Inv, PluginOK
    <2>3. QED
      BY <2>1, <2>2
  <1>8. PluginOK'
    BY <1>1, <1>2, <1>7 DEF Inv, PluginOK
  <1>9. LivesOK'
    BY <1>1, <1>2 DEF Inv, LivesOK, States
  <1>10. QED
    BY <1>2, <1>7, <1>8, <1>9, RegistryIdle DEF Inv

LEMMA ClientsLeaveInv ==
    ASSUME Inv, NEW a \in Actors, ClientsLeave(a)
    PROVE  Inv'
  <1>1. queue[ClientsHome] \in Seq(Mail)
    BY RegistryAssumption DEF Inv, MailOK
  <1>2. GiveUpLinks(a, queue[ClientsHome])
    BY DEF ClientsLeave
  <1>3. /\ MailOK' /\ FaultOK'
        /\ plugin_state' \in [Actors -> {"", "LINKING", "LINKED", "REFUSED"}]
        /\ linking' = [linking EXCEPT ![a] = {}]
        /\ linked' = [linked EXCEPT ![a] = {}]
        /\ requests' \subseteq requests
    BY <1>1, <1>2, GiveUpLinksInv
  <1>4. UNCHANGED <<registry, lives, registering, owned, tasks, found>>
    BY DEF ClientsLeave
  <1>5. LivesOK' /\ PluginOK'
    BY <1>3, <1>4 DEF Inv, LivesOK, PluginOK, lives
  <1>6. QED
    BY <1>3, <1>4, <1>5, RegistryIdle DEF Inv

LEMMA OnUnsubscriptionInv ==
    ASSUME Inv, NEW l \in Localities, OnUnsubscription(l)
    PROVE  Inv'
  <1>1. queue[l] # <<>> /\ Subject(l) \in Actors
    BY Taken DEF Inv, OnUnsubscription, Due
  <1>2. MailOK'
    BY <1>1, Sent, EmptySeq DEF OnUnsubscription, Inv
  <1>3. LivesOK' /\ PluginOK' /\ FaultOK'
    BY <1>1 DEF OnUnsubscription, Inv, LivesOK, PluginOK, FaultOK, plugin, States
  <1>4. QED
    BY <1>2, <1>3, RegistryIdle DEF OnUnsubscription, Inv

LEMMA TransferInv ==
    ASSUME Inv, NEW l \in Localities, Transfer(l) \/ Drop(l)
    PROVE  Inv'
  <1>1. queue[l] # <<>>
    BY DEF Transfer, Drop
  <1>2. Head(queue[l]) \in Mail /\ Tail(queue[l]) \in Seq(Mail)
    BY <1>1, Taken DEF Inv
  <1>3. CASE Transfer(l)
    <2> DEFINE m == Head(queue[l])
               h == Home(m)
    <2>1. h \in Localities
      BY RegistryAssumption DEF Home
    <2>2. h # l /\ queue' = [queue EXCEPT ![l] = Tail(@), ![h] = Append(@, m)]
      BY <1>3 DEF Transfer
    <2>3. Append(queue[h], m) \in Seq(Mail)
      BY <1>2, <2>1, AppendProperties DEF Inv, MailOK
    <2> HIDE DEF m, h
    <2>4. MailOK'
      BY <1>2, <2>1, <2>2, <2>3 DEF Inv, MailOK
    <2>5. LivesOK' /\ PluginOK' /\ FaultOK'
      BY <1>3 DEF Transfer, Inv, LivesOK, PluginOK, FaultOK, lives, plugin
    <2>6. QED
      BY <1>3, <2>4, <2>5, RegistryIdle DEF Transfer, Inv
  <1>4. CASE Drop(l)
    <2>1. MailOK'
      BY <1>1, <1>4, Sent, EmptySeq DEF Drop, Inv
    <2>2. LivesOK' /\ PluginOK' /\ FaultOK'
      BY <1>4 DEF Drop, Inv, LivesOK, PluginOK, FaultOK, lives, plugin
    <2>3. QED
      BY <1>4, <2>1, <2>2, RegistryIdle DEF Drop, Inv
  <1>5. QED
    BY <1>3, <1>4
---------------------------------------------------------------------------
LEMMA InitInv == Init => Inv
  <1> SUFFICES ASSUME Init PROVE Inv
    OBVIOUS
  <1>1. DOMAIN <<>> = {} /\ Len(<<>>) = 0 /\ <<>> \in Seq(Promise)
    OBVIOUS
  <1>2. /\ DOMAIN revese_map = {} /\ Len(promises) = 0 /\ promises \in Seq(Promise)
        /\ registered_map = [n \in Names |-> NoOne]
    BY <1>1 DEF Init
  <1>3. RegistryOK
    BY <1>2, RegistryAssumption DEF RegistryOK
  <1>4. MailOK
    BY EmptySeq DEF Init, MailOK
  <1>5. LivesOK /\ PluginOK /\ FaultOK
    BY DEF Init, LivesOK, PluginOK, FaultOK, States, Faults
  <1>6. QED
    BY <1>3, <1>4, <1>5 DEF Inv

LEMMA InvNext == Inv /\ [Next]_vars => Inv'
  <1> SUFFICES ASSUME Inv, [Next]_vars PROVE Inv'
    OBVIOUS
  <1>1. ASSUME NEW l \in Localities, Deliver(l) PROVE Inv'
    BY <1>1, OnLinkRequestInv, OnRegInv, OnDeregInv, OnDeregServiceInv,
       OnDiscoveryInv, OnPromiseInv, OnCancelInv, OnInitRequestInv, OnStartInv,
       OnLinkResponseInv, OnRegistrationInv, OnFoundInv, OnReplyInv,
       OnShutdownTriggerInv, OnShutdownRequestInv, OnUnsubscriptionInv, TransferInv
       DEF Deliver
  <1>2. ASSUME NEW a \in Actors, LinkSettles(a) PROVE Inv'
    BY <1>2, LinkDoneInv, LinkFailsInv DEF LinkSettles
  <1>3. ASSUME NEW a \in Actors,
               Create(a) \/ UserDeregisters(a) \/ UserShutdown(a) \/ ClientsLeave(a)
        PROVE  Inv'
    BY <1>3, CreateInv, UserDeregistersInv, UserShutdownInv, ClientsLeaveInv
  <1>4. CASE UNCHANGED vars
    BY <1>4, RegistryIdle DEF vars, Inv, LivesOK, PluginOK, MailOK, FaultOK, lives, plugin
  <1>5. QED
    BY <1>1, <1>2, <1>3, <1>4, RequestTimeoutInv DEF Next

LEMMA InvAlways == Spec => []Inv
  BY InitInv, InvNext, PTL DEF Spec

\* Every variable keeps its type, whatever the actors register, discover and do.
THEOREM Typing == Spec => []TypeOK
  BY InvAlways, InvSuffices, PTL

\* registered_map and revese_map stay inverse to each other over registrations,
\* deregistrations by name, by address and by strangers, in any order: at() in
\* on_dereg_service() never throws.
THEOREM MapsStayInverse == Spec => []MapsAgree
  BY InvAlways, InvSuffices, PTL

\* A promise is kept only while the name it waits for is not registered, so
\* that none is made too late or passed over by on_reg() (for the promises it
\* answers too early, see MCPromises.cfg).
THEOREM PromisesAreMet == Spec => []NoPromiseIsMissed
  BY InvAlways, InvSuffices, PTL

---------------------------------------------------------------------------
\* Names stay with their owners: what is told to the registry and to actors is
\* true as long as it is under way.

InFlight == UNION {Range(queue[l]) : l \in Localities}
Down(a) == state[a] \in {"SHUTTING_DOWN", "SHUT_DOWN"}

\* Who deregisters a name has it, and deregisters it once.
Dereg == "deregistration_service"
Tells(m) ==
    /\ m.kind = "registration" =>
        IF m.to = "registry" THEN m.name \in Registers[m.actor]
        ELSE m.address # NoOne /\ ~Down(m.actor) /\ m.actor \notin Manual =>
                registered_map[m.name] = m.actor
    /\ m.kind = Dereg =>
        /\ m = Msg("registry", Dereg, m.actor, m.name, NoOne)
        /\ Down(m.actor) /\ m.actor \in asked
        /\ m.name \in Registers[m.actor]
        /\ m.actor \notin Manual => registered_map[m.name] = m.actor
    /\ m.kind = "deregistration_notify" => m.actor \in Manual
    /\ m.kind = "shutdown_request" => m.actor \in asked
    /\ m.kind = "unsubscription" => Down(m.actor)

OneEach(q) ==
    \A i, j \in 1 .. Len(q) : q[i].kind = Dereg /\ q[i] = q[j] => i = j
Once ==
    /\ \A l \in Localities : OneEach(queue[l])
    /\ \A k, l \in Localities : \A m \in Range(queue[k]) :
        m.kind = Dereg /\ m \in Range(queue[l]) => k = l

Owners ==
    /\ \A a \in Actors :
        /\ Down(a) => registering[a] = {} /\ owned[a] = {}
        /\ a \notin Manual => \A n \in owned[a] : registered_map[n] = a
    /\ \A n \in Names : registered_map[n] # NoOne => n \in Registers[registered_map[n]]

Kept == Once /\ Owners /\ \A m \in InFlight : Tells(m)

\* Messages that say nothing of names.
Calm(m) ==
    m.kind \notin {"registration", Dereg, "deregistration_notify", "shutdown_request",
                   "unsubscription"}
LEMMA CalmTells == ASSUME NEW m, Calm(m) PROVE Tells(m) /\ Tells(m)'
  BY DEF Calm, Tells

---------------------------------------------------------------------------
\* r is the queue of h, perhaps without its first message, with those of S.
Grows(h, r, S) ==
    /\ r \in Seq(Mail)
    /\ OneEach(r)
    /\ Range(r) \subseteq Range(queue[h]) \cup S

LEMMA GrowsNot ==
    ASSUME Inv, Kept, NEW h \in Localities PROVE Grows(h, queue[h], {})
  BY DEF Inv, MailOK, Kept, Once, Grows

LEMMA GrowsTail ==
    ASSUME Inv, Kept, NEW h \in Localities, queue[h] # <<>>
    PROVE  /\ Grows(h, Tail(queue[h]), {})
           /\ Head(queue[h]) \in InFlight /\ Tells(Head(queue[h]))
           /\ Head(queue[h]).kind = Dereg => Head(queue[h]) \notin Range(Tail(queue[h]))
  <1> DEFINE q == queue[h]
             r == Tail(q)
             x == Head(q)
  <1>1. q \in Seq(Mail) /\ OneEach(q)
    BY DEF Inv, MailOK, Kept, Once
  <1> HIDE DEF q
  <1>2. q # <<>>
    BY DEF q
  <1>3. /\ r \in Seq(Mail)
        /\ Len(q) \in Nat /\ Len(q) > 0
        /\ Len(r) = Len(q) - 1
        /\ x = q[1]
        /\ \A i \in 1 .. Len(r) : r[i] = q[i + 1]
        /\ DOMAIN q = 1 .. Len(q)
        /\ DOMAIN r = 1 .. Len(r)
    BY <1>1, <1>2
  <1> HIDE DEF r, x
  <1>4. \A i \in 1 .. Len(r) : i + 1 \in 1 .. Len(q) /\ i + 1 # 1
    BY <1>3
  <1>5. Range(r) \subseteq Range(q)
    BY <1>3, <1>4 DEF Range
  <1>6. OneEach(r)
    <2> SUFFICES ASSUME NEW i \in 1 .. Len(r), NEW j \in 1 .. Len(r),
                        r[i].kind = Dereg, r[i] = r[j]
                 PROVE  i = j
      BY DEF OneEach
    <2>1. i + 1 = j + 1
      BY <1>1, <1>3, <1>4 DEF OneEach
    <2>2. QED
      BY <2>1, <1>3
  <1>7. ASSUME x.kind = Dereg, x \in Range(r) PROVE FALSE
    <2>1. PICK i \in 1 .. Len(r) : x = q[i + 1]
      BY <1>3, <1>7 DEF Range
    <2>2. i + 1 \in 1 .. Len(q) /\ 1 \in 1 .. Len(q) /\ i + 1 # 1
      BY <1>3, <1>4
    <2>3. QED
      BY <1>1, <1>3, <1>7, <2>1, <2>2 DEF OneEach
  <1>8. x \in Range(q)
    BY <1>3 DEF Range
  <1>9. x \in InFlight
    BY <1>8 DEF InFlight, q
  <1>10. QED
    BY <1>3, <1>5, <1>6, <1>7, <1>9 DEF Grows, Kept, q, r, x

\* Messages put behind others.
LEMMA JoinedOnce ==
    ASSUME NEW q \in Seq(Mail), NEW s \in Seq(Mail), OneEach(q), OneEach(s),
           \A m \in Range(s) : m.kind = Dereg => m \notin Range(q)
    PROVE  /\ q \o s \in Seq(Mail)
           /\ OneEach(q \o s)
           /\ Range(q \o s) \subseteq Range(q) \cup Range(s)
  <1> DEFINE r == q \o s
  <1>1. /\ r \in Seq(Mail)
        /\ Len(q) \in Nat /\ Len(s) \in Nat
        /\ Len(r) = Len(q) + Len(s)
        /\ \A i \in 1 .. Len(q) : r[i] = q[i]
        /\ \A i \in 1 .. Len(s) : r[Len(q) + i] = s[i]
        /\ DOMAIN q = 1 .. Len(q)
        /\ DOMAIN s = 1 .. Len(s)
        /\ DOMAIN r = 1 .. Len(r)
    OBVIOUS
  <1> HIDE DEF r
  <1>2. ASSUME NEW i \in 1 .. Len(r)
        PROVE  \/ i \in 1 .. Len(q) /\ r[i] = q[i]
               \/ i - Len(q) \in 1 .. Len(s) /\ r[i] = s[i - Len(q)]
    <2>1. CASE i \in 1 .. Len(q)
      BY <1>1, <2>1
    <2>2. CASE i \notin 1 .. Len(q)
      <3>1. i - Len(q) \in 1 .. Len(s) /\ Len(q) + (i - Len(q)) = i
        BY <1>1, <2>2
      <3>2. QED
        BY <1>1, <3>1
    <2>3. QED
      BY <2>1, <2>2
  <1>3. Range(r) \subseteq Range(q) \cup Range(s)
    BY <1>1, <1>2 DEF Range
  <1>4. OneEach(r)
    <2> SUFFICES ASSUME NEW i \in 1 .. Len(r), NEW j \in 1 .. Len(r),
                        r[i].kind = Dereg, r[i] = r[j]
                 PROVE  i = j
      BY DEF OneEach
    <2>1. \A k \in 1 .. Len(q) : q[k] \in Range(q)
      BY <1>1 DEF Range
    <2>2. \A k \in 1 .. Len(s) : s[k] \in Range(s)
      BY <1>1 DEF Range
    <2>3. CASE i \in 1 .. Len(q) /\ r[i] = q[i]
      <3>1. j \in 1 .. Len(q) /\ r[j] = q[j]
        BY <1>2, <2>1, <2>2, <2>3
      <3>2. QED
        BY <2>3, <3>1 DEF OneEach
    <2>4. CASE i - Len(q) \in 1 .. Len(s) /\ r[i] = s[i - Len(q)]
      <3>1. j - Len(q) \in 1 .. Len(s) /\ r[j] = s[j - Len(q)]
        BY <1>2, <2>1, <2>2, <2>4
      <3>2. i - Len(q) = j - Len(q)
        BY <2>4, <3>1 DEF OneEach
      <3>3. QED
        BY <1>1, <3>2
    <2>5. QED
      BY <1>2, <2>3, <2>4
  <1>5. QED
    BY <1>1, <1>3, <1>4 DEF r

LEMMA GrowsMore ==
    ASSUME NEW h \in Localities, NEW r, NEW S, Grows(h, r, S), NEW s \in Seq(Mail),
           \A m \in Range(s) : m.kind # Dereg
    PROVE  Grows(h, r \o s, S \cup Range(s))
  <1>1. OneEach(s)
    BY DEF OneEach, Range
  <1>2. QED
    BY <1>1, JoinedOnce DEF Grows

\* One message, or none.
LEMMA Few ==
    /\ <<>> \in Seq(Mail) /\ Range(<<>>) = {}
    /\ \A m \in Mail : <<m>> \in Seq(Mail) /\ Range(<<m>>) = {m}
    /\ \A q \in Seq(Mail), m \in Mail : Append(q, m) = q \o <<m>>
  <1>1. <<>> \in Seq(Mail) /\ Range(<<>>) = {}
    BY DEF Range
  <1>2. ASSUME NEW m \in Mail PROVE <<m>> \in Seq(Mail) /\ Range(<<m>>) = {m}
    <2>1. <<m>> \in Seq(Mail) /\ DOMAIN <<m>> = {1} /\ <<m>>[1] = m
      OBVIOUS
    <2>2. QED
      BY <2>1 DEF Range
  <1>3. \A q \in Seq(Mail), m \in Mail : Append(q, m) = q \o <<m>>
    OBVIOUS
  <1>4. QED
    BY <1>1, <1>2, <1>3

\* A queue changes; names are deregistered by new messages only.
LEMMA Sending ==
    ASSUME Inv, Kept, NEW h \in Localities, NEW r, NEW S, Grows(h, r, S),
           \A m \in S : m.kind = Dereg => m \notin InFlight,
           queue' = [queue EXCEPT ![h] = r]
    PROVE  Once' /\ InFlight' \subseteq InFlight \cup S
  <1>1. queue'[h] = r /\ \A l \in Localities \ {h} : queue'[l] = queue[l]
    BY DEF Inv, MailOK
  <1>2. \A l \in Localities : Range(queue'[l]) \subseteq Range(queue[l]) \cup S
    BY <1>1 DEF Grows
  <1>3. \A l \in Localities : OneEach(queue'[l])
    BY <1>1 DEF Grows, Kept, Once
  <1>4. ASSUME NEW k \in Localities, NEW l \in Localities, NEW m \in Range(queue'[k]),
               m.kind = Dereg, m \in Range(queue'[l])
        PROVE  k = l
    <2>1. CASE m \in S
      <3>1. m \notin Range(queue[k]) /\ m \notin Range(queue[l])
        BY <1>4, <2>1 DEF InFlight
      <3>2. k = h /\ l = h
        BY <1>1, <1>4, <3>1
      <3>3. QED
        BY <3>2
    <2>2. CASE m \notin S
      BY <1>2, <1>4, <2>2 DEF Kept, Once
    <2>3. QED
      BY <2>1, <2>2
  <1>5. InFlight' \subseteq InFlight \cup S
    BY <1>2 DEF InFlight
  <1>6. QED
    BY <1>3, <1>4, <1>5 DEF Once

LEMMA Flying == ASSUME Inv, NEW m \in InFlight PROVE m \in Mail /\ m.actor \in Actors
  <1>1. PICK l \in Localities : m \in Range(queue[l])
    BY DEF InFlight
  <1>2. queue[l] \in Seq(Mail)
    BY DEF Inv, MailOK
  <1>3. m \in Mail
    BY <1>1, <1>2 DEF Range
  <1>4. QED
    BY <1>3 DEF Mail, Message

\* A step that leaves the registry alone.
LEMMA Quiet ==
    ASSUME Inv, Kept, Once', Owners', registered_map' = registered_map,
           NEW S, InFlight' \subseteq InFlight \cup S, \A m \in S : Tells(m)',
           asked \subseteq asked', \A a \in Actors : Down(a) => Down(a)'
    PROVE  Kept'
  <1>1. ASSUME NEW m \in InFlight PROVE Tells(m)'
    <2>1. m.actor \in Actors /\ Tells(m)
      BY Flying DEF Kept
    <2>2. QED
      BY <2>1 DEF Tells
  <1>2. QED
    BY <1>1 DEF Kept

---------------------------------------------------------------------------
\* What the handlers of the plugin send.

LEMMA OrderCalm ==
    ASSUME NEW a \in Actors
    PROVE  /\ Calm(Order("init_request", a)) /\ Calm(Order("start_actor", a))
           /\ \A m \in Range(DoShutdown(a)) : Calm(m)
           /\ Calm(Msg("registry", "link", a, NoOne, NoOne))
  <1>1. /\ Calm(Order("init_request", a)) /\ Calm(Order("start_actor", a))
        /\ Calm(Msg("registry", "link", a, NoOne, NoOne))
    BY DEF Calm, Order, Msg, Dereg
  <1>2. Calm(Msg("supervisor", "shutdown_trigger", a, NoOne, NoOne))
        /\ Msg("supervisor", "shutdown_trigger", a, NoOne, NoOne) \in Mail
    BY MsgType DEF Calm, Msg, Dereg, Naming
  <1>3. \A m \in Range(DoShutdown(a)) : Calm(m)
    BY <1>2, Few DEF DoShutdown
  <1>4. QED
    BY <1>1, <1>3

LEMMA NoDereg == ASSUME NEW m, Calm(m) PROVE m.kind # Dereg
  BY DEF Calm

\* Nothing is sent of which anything has to be shown.
Calms(S) == Once' /\ InFlight' \subseteq InFlight \cup S \cup {m \in InFlight' : Calm(m)}

LEMMA Calmly ==
    ASSUME Inv, Kept, NEW h \in Localities, NEW q, NEW S, Grows(h, q, S),
           \A m \in S : m.kind = Dereg => m \notin InFlight,
           NEW s \in Seq(Mail), \A m \in Range(s) : Calm(m),
           queue' = [queue EXCEPT ![h] = q \o s]
    PROVE  Calms(S)
  <1>1. Grows(h, q \o s, S \cup Range(s))
    BY GrowsMore, NoDereg
  <1>2. \A m \in S \cup Range(s) : m.kind = Dereg => m \notin InFlight
    BY NoDereg
  <1> DEFINE T == S \cup Range(s)
             r == q \o s
  <1>3. Grows(h, r, T) /\ (\A m \in T : m.kind = Dereg => m \notin InFlight)
        /\ queue' = [queue EXCEPT ![h] = r]
    BY <1>1, <1>2
  <1> HIDE DEF T, r
  <1>4. Once' /\ InFlight' \subseteq InFlight \cup T
    BY <1>3, Sending
  <1>5. QED
    BY <1>4 DEF T, Calms

LEMMA SameCalms ==
    ASSUME Inv, Kept, queue' = queue, NEW S PROVE Calms(S)
  BY DEF Kept, Once, InFlight, Calms, OneEach

\* Nobody comes back from its shutdown.
SameDown == \A b \in Actors : Down(b) <=> Down(b)'

LEMMA InitContinueCalms ==
    ASSUME Inv, Kept, NEW a \in Actors, NEW done, NEW q, NEW S, Grows(ClientsHome, q, S),
           \A m \in S : m.kind = Dereg => m \notin InFlight,
           InitContinue(a, done, q)
    PROVE  Calms(S) /\ SameDown
  <1>1. ClientsHome \in Localities /\ state \in [Actors -> States] /\ q \in Seq(Mail)
    BY RegistryAssumption DEF Inv, LivesOK, Grows
  <1>2. Order("start_actor", a) \in Mail /\ Calm(Order("start_actor", a))
    BY OrderType, OrderCalm DEF Orders
  <1>3. ASSUME queue' = queue PROVE Calms(S)
    BY <1>3, SameCalms
  <1>4. ASSUME queue' = [queue EXCEPT ![ClientsHome] = q] PROVE Calms(S)
    <2>1. queue' = [queue EXCEPT ![ClientsHome] = q \o <<>>]
      BY <1>1, <1>4
    <2>2. QED
      BY <1>1, <2>1, Few, Calmly
  <1>5. ASSUME queue' = [queue EXCEPT ![ClientsHome] = Append(q, Order("start_actor", a))]
        PROVE  Calms(S)
    <2>1. queue' = [queue EXCEPT ![ClientsHome] = q \o <<Order("start_actor", a)>>]
      BY <1>1, <1>2, <1>5, Few
    <2> DEFINE s == <<Order("start_actor", a)>>
    <2>2. s \in Seq(Mail) /\ \A m \in Range(s) : Calm(m)
      BY <1>2, Few
    <2> HIDE DEF s
    <2>3. QED
      BY <1>1, <2>1, <2>2, Calmly DEF s
  <1>6. /\ \/ queue' = queue
           \/ queue' = [queue EXCEPT ![ClientsHome] = q]
           \/ queue' = [queue EXCEPT ![ClientsHome] = Append(q, Order("start_actor", a))]
        /\ \/ UNCHANGED state
           \/ state[a] = "INITIALIZING" /\ state' = [state EXCEPT ![a] = "INITIALIZED"]
    BY DEF InitContinue, Fails
  <1>7. SameDown
    BY <1>1, <1>6 DEF SameDown, Down
  <1>8. QED
    BY <1>3, <1>4, <1>5, <1>6, <1>7

LEMMA RefuseCalms ==
    ASSUME Inv, Kept, NEW a \in Actors, NEW q, NEW S, Grows(ClientsHome, q, S),
           \A m \in S : m.kind = Dereg => m \notin InFlight,
           Refuse(a, q)
    PROVE  Calms(S) /\ SameDown
  <1>1. ClientsHome \in Localities /\ q \in Seq(Mail) /\ DoShutdown(a) \in Seq(Mail)
    BY RegistryAssumption, OrderType DEF Grows
  <1>2. SameDown
    BY DEF Refuse, SameDown, Down
  <1>3. CASE a \in answered
    <2>1. queue' = [queue EXCEPT ![ClientsHome] = q \o <<>>]
      BY <1>1, <1>3 DEF Refuse
    <2>2. QED
      BY <1>1, <1>2, <2>1, Few, Calmly
  <1>4. CASE a \notin answered
    <2>1. queue' = [queue EXCEPT ![ClientsHome] = q \o DoShutdown(a)]
      BY <1>4 DEF Refuse
    <2>2. QED
      BY <1>1, <1>2, <2>1, OrderCalm, Calmly
  <1>5. QED
    BY <1>3, <1>4

LEMMA ContinueInitCalms ==
    ASSUME Inv, Kept, NEW a \in Actors, NEW ok, NEW done, NEW q, NEW S,
           Grows(ClientsHome, q, S),
           \A m \in S : m.kind = Dereg => m \notin InFlight,
           ContinueInit(a, ok, done, q)
    PROVE  Calms(S) /\ SameDown
  <1>1. CASE Fails("continue_init")
    BY <1>1, SameCalms DEF Fails, SameDown, Down
  <1>2. CASE InitContinue(a, done, q)
    BY <1>2, InitContinueCalms
  <1>3. CASE Refuse(a, q)
    BY <1>3, RefuseCalms
  <1>4. QED
    BY <1>1, <1>2, <1>3 DEF ContinueInit

\* Locality l handles a message and sends such as say nothing of names.
LEMMA HandledCalms ==
    ASSUME Inv, Kept, NEW l \in Localities, queue[l] # <<>>, NEW s \in Seq(Mail),
           \A m \in Range(s) : Calm(m), Handled(l, s)
    PROVE  Calms({})
  <1>1. queue' = [queue EXCEPT ![l] = Tail(queue[l]) \o s]
    BY DEF Handled
  <1>2. QED
    BY <1>1, GrowsTail, Calmly

LEMMA HandledOnly ==
    ASSUME Inv, Kept, NEW l \in Localities, queue[l] # <<>>, Handled(l, <<>>)
    PROVE  Calms({})
  BY Few, HandledCalms

\* Such a step keeps what the messages tell.
LEMMA QuietCalms ==
    ASSUME Inv, Kept, Owners', registered_map' = registered_map,
           NEW S, Calms(S), \A m \in S : Tells(m)',
           asked \subseteq asked', \A a \in Actors : Down(a) => Down(a)'
    PROVE  Kept'
  <1> DEFINE T == S \cup {m \in InFlight' : Calm(m)}
  <1>1. Once' /\ InFlight' \subseteq InFlight \cup T /\ \A m \in T : Tells(m)'
    BY CalmTells DEF Calms
  <1> HIDE DEF T
  <1>2. QED
    BY <1>1, Quiet

\* Nor does it disturb the owners of names if it neither registers nor owns.
LEMMA SameOwners ==
    ASSUME Kept, SameDown, UNCHANGED <<registered_map, registering, owned>>
    PROVE  Owners'
  BY DEF Kept, Owners, SameDown

LEMMA CalmKept ==
    ASSUME Inv, Kept, SameDown, UNCHANGED <<registered_map, registering, owned>>,
           Calms({}), asked \subseteq asked'
    PROVE  Kept'
  <1>1. \A a \in Actors : Down(a) => Down(a)'
    BY DEF SameDown
  <1>2. QED
    BY <1>1, SameOwners, QuietCalms

---------------------------------------------------------------------------
\* The registry.

LEMMA Head1 == ASSUME NEW q \in Seq(Mail), q # <<>> PROVE Head(q) \in Range(q)
  <1>1. Head(q) = q[1] /\ 1 \in DOMAIN q
    OBVIOUS
  <1>2. QED
    BY <1>1 DEF Range

LEMMA AnswerKept ==
    ASSUME Inv, Kept, NEW l \in Localities, queue[l] # <<>>,
           NEW s \in Seq(Mail), NEW S, \A m \in Range(s) : Calm(m) \/ m \in S,
           \A m \in S : Tells(m)' /\ m.kind # Dereg,
           NEW reg, NEW rev, NEW left, Answer(l, reg, rev, left, s),
           \A m \in InFlight : m # Head(queue[l]) \/ m.kind # Dereg => Tells(m)',
           Owners'
    PROVE  Kept'
  <1>1. Grows(l, Tail(queue[l]), {}) /\ queue' = [queue EXCEPT ![l] = Tail(queue[l]) \o s]
    BY GrowsTail DEF Answer, Handled
  <1>2. \A m \in Range(s) : m.kind # Dereg
    BY NoDereg
  <1> DEFINE r == Tail(queue[l]) \o s
             T == {} \cup Range(s)
  <1>3. Grows(l, r, T)
    BY <1>1, <1>2, GrowsMore
  <1>4. queue' = [queue EXCEPT ![l] = r]
    BY <1>1
  <1>5. \A m \in T : m.kind = Dereg => m \notin InFlight
    BY <1>2
  <1>6. \A m \in T : Tells(m)'
    BY CalmTells
  <1>7. Range(r) \subseteq Range(Tail(queue[l])) \cup T
    <2>1. OneEach(s)
      BY <1>2 DEF OneEach, Range
    <2>2. OneEach(Tail(queue[l])) /\ Tail(queue[l]) \in Seq(Mail)
      BY <1>1 DEF Grows
    <2>3. QED
      BY <1>2, <2>1, <2>2, JoinedOnce
  <1>8. T = Range(s)
    OBVIOUS
  <1> HIDE DEF r, T
  <1>9. Once' /\ InFlight' \subseteq InFlight \cup T
    BY <1>3, <1>4, <1>5, Sending
  <1>10. ASSUME Head(queue[l]).kind = Dereg, Head(queue[l]) \in InFlight'
         PROVE  FALSE
    <2> DEFINE x == Head(queue[l])
    <2>1. x \notin Range(Tail(queue[l])) /\ x \in Range(queue[l])
      BY <1>10, GrowsTail, Head1 DEF Inv, MailOK
    <2>2. PICK k \in Localities : x \in Range(queue'[k])
      BY <1>10 DEF InFlight
    <2>3. x \notin T
      BY <1>2, <1>8, <1>10
    <2>4. queue'[l] = r /\ \A j \in Localities \ {l} : queue'[j] = queue[j]
      BY <1>4 DEF Inv, MailOK
    <2> HIDE DEF x
    <2>5. k # l
      BY <1>7, <2>1, <2>2, <2>3, <2>4
    <2>6. x \in Range(queue[k]) /\ x.kind = Dereg
      BY <1>10, <2>2, <2>4, <2>5 DEF x
    <2>7. QED
      BY <2>1, <2>5, <2>6 DEF Kept, Once
  <1>11. ASSUME NEW m \in InFlight' PROVE Tells(m)'
    <2>1. CASE m \in T
      BY <1>6, <2>1
    <2>2. CASE m \in InFlight
      BY <1>10, <2>2
    <2>3. QED
      BY <1>9, <2>1, <2>2
  <1>12. QED
    BY <1>9, <1>11 DEF Kept

\* The registry answers and remembers nothing.
LEMMA OnlyAnswerKept ==
    ASSUME Inv, Kept, NEW l \in Localities, queue[l] # <<>>, NEW s \in Seq(Mail),
           \A m \in Range(s) : Calm(m) \/ (m.kind = "registration" /\ Tells(m)'),
           NEW rev, NEW left, Answer(l, registered_map, rev, left, s)
    PROVE  Kept'
  <1> DEFINE S == {m \in Range(s) : m.kind = "registration" /\ Tells(m)'}
  <1>1. /\ \A m \in Range(s) : Calm(m) \/ m \in S
        /\ \A m \in S : Tells(m)' /\ m.kind # Dereg
    BY DEF Dereg
  <1> HIDE DEF S
  <1>2. UNCHANGED <<registered_map, lives, plugin>>
    BY DEF Answer
  <1>3. Owners'
    BY <1>2, SameOwners DEF lives, plugin, SameDown, Down
  <1>4. \A m \in InFlight : Tells(m)'
    BY <1>2 DEF Kept, Tells, Down, lives
  <1>5. QED
    BY <1>1, <1>3, <1>4, AnswerKept

\* Who deregisters without being shut down has names of its own.
ManualApart ==
    \A a \in Manual : \A b \in Actors \ {a} : Registers[a] \cap Registers[b] = {}

LEMMA RegSent ==
    ASSUME Inv, NEW a \in Actors, NEW n \in Names, NEW met \in Seq(Promise)
    PROVE  LET s == <<Reply("registration", a, n, a)>>
                        \o [i \in 1 .. Len(met) |-> Reply("promise", met[i][1], met[i][2], a)]
           IN  s \in Seq(Mail) /\ \A m \in Range(s) : Calm(m) \/ m = Reply("registration", a, n, a)
  <1> DEFINE x == Reply("registration", a, n, a)
             t == [i \in 1 .. Len(met) |-> Reply("promise", met[i][1], met[i][2], a)]
  <1>1. x \in Mail
    BY ReplyType DEF Asks
  <1>2. \A i \in 1 .. Len(met) : met[i][1] \in Actors /\ met[i][2] \in Names
    BY DEF Promise
  <1>3. \A i \in 1 .. Len(met) : t[i] \in Mail /\ Calm(t[i])
    BY <1>2, ReplyType DEF Asks, Reply, Msg, Calm, Dereg
  <1>4. t \in Seq(Mail) /\ DOMAIN t = 1 .. Len(met) /\ Len(met) \in Nat /\ Len(t) = Len(met)
    BY <1>3
  <1>5. \A m \in Range(t) : Calm(m)
    BY <1>3, <1>4 DEF Range
  <1> HIDE DEF x, t
  <1>6. <<x>> \in Seq(Mail) /\ Range(<<x>>) = {x}
    BY <1>1, Few
  <1> DEFINE u == <<x>>
  <1>7. u \in Seq(Mail) /\ Len(u) = 1 /\ u[1] = x
    BY <1>1
  <1> HIDE DEF u
  <1>8. u \o t \in Seq(Mail) /\ Range(u \o t) \subseteq Range(u) \cup Range(t)
    <2>1. OneEach(t)
      BY <1>5, NoDereg DEF OneEach, Range
    <2>2. OneEach(u)
      BY <1>7 DEF OneEach
    <2>3. \A m \in Range(t) : m.kind # Dereg
      BY <1>5, NoDereg
    <2>4. QED
      BY <1>4, <1>7, <2>1, <2>2, <2>3, JoinedOnce
  <1>9. QED
    BY <1>5, <1>6, <1>8 DEF x, t, u

LEMMA OnRegKept ==
    ASSUME Inv, Kept, NEW l \in Localities, OnReg(l)
    PROVE  Kept'
  <1> DEFINE a == Subject(l)
             n == Name(l)
  <1>1. queue[l] # <<>> /\ a \in Actors /\ n \in Names
    BY Taken DEF Inv, OnReg, Due, Naming
  <1>2. n \in Registers[a]
    <2>1. Tells(Head(queue[l]))
      BY <1>1, GrowsTail
    <2>2. QED
      BY <2>1 DEF Tells, OnReg, Due, Subject, Name
  <1>3. registered_map \in [Names -> Actors \cup {NoOne}]
    BY DEF Inv, RegistryOK
  <1> HIDE DEF a, n
  <1>4. CASE registered_map[n] # NoOne
    <2> DEFINE x == Reply("registration", a, n, NoOne)
    <2>1. <<x>> \in Seq(Mail) /\ Range(<<x>>) = {x}
      BY <1>1, ReplyType, Few DEF Asks
    <2>2. \A y : y = x => y.kind = "registration" /\ Tells(y)'
      BY DEF Reply, Msg, Tells, Dereg
    <2>3. Answer(l, registered_map, revese_map, promises, <<x>>)
      BY <1>4 DEF OnReg, a, n
    <2> DEFINE s == <<x>>
    <2>4. /\ s \in Seq(Mail)
          /\ \A m \in Range(s) : Calm(m) \/ (m.kind = "registration" /\ Tells(m)')
          /\ Answer(l, registered_map, revese_map, promises, s)
      BY <2>1, <2>2, <2>3
    <2> HIDE DEF s
    <2>5. QED
      BY <1>1, <2>4, OnlyAnswerKept
  <1>5. CASE registered_map[n] = NoOne
    <2> DEFINE x == Reply("registration", a, n, a)
               met(k) == SubSeq(promises, k + 1, Len(promises))
               sent(k) == <<x>>
                   \o [i \in 1 .. Len(met(k)) |-> Reply("promise", met(k)[i][1], met(k)[i][2], a)]
    <2>1. PICK k \in Keeps(n) :
            Answer(l, [registered_map EXCEPT ![n] = a], Listed(a, n),
                   SubSeq(promises, 1, k), sent(k))
      BY <1>5 DEF OnReg, a, n
    <2>2. met(k) \in Seq(Promise)
      <3>1. promises \in Seq(Promise) /\ Len(promises) \in Nat /\ k \in 0 .. Len(promises)
        BY DEF Inv, RegistryOK, Keeps
      <3>2. QED
        BY <3>1, SubSeqProperties
    <2>3. sent(k) \in Seq(Mail) /\ \A m \in Range(sent(k)) : Calm(m) \/ m = x
      <3> DEFINE t == met(k)
      <3>1. t \in Seq(Promise)
        BY <2>2
      <3> HIDE DEF t, x
      <3>2. LET s == <<x>> \o [i \in 1 .. Len(t) |-> Reply("promise", t[i][1], t[i][2], a)]
            IN  s \in Seq(Mail) /\ \A m \in Range(s) : Calm(m) \/ m = x
        BY <1>1, <3>1, RegSent DEF x
      <3>3. QED
        BY <3>2 DEF t
    <2>4. /\ registered_map' = [registered_map EXCEPT ![n] = a]
          /\ UNCHANGED <<lives, plugin>>
      BY <2>1 DEF Answer
    <2>5. \A m \in Names : registered_map'[m] = IF m = n THEN a ELSE registered_map[m]
      BY <1>3, <2>4
    <2>6. \A y : y = x => Tells(y)' /\ y.kind # Dereg
      <3>1. /\ x.kind = "registration" /\ x.kind # Dereg /\ x.to # "registry"
            /\ x.actor = a /\ x.name = n
        BY DEF Dereg, Reply, Msg
      <3> HIDE DEF x
      <3>2. registered_map'[n] = a
        BY <1>1, <2>5
      <3>3. ASSUME NEW y, y = x PROVE Tells(y)'
        <4>1. /\ y.kind = "registration" /\ y.to # "registry"
              /\ registered_map'[y.name] = y.actor
          BY <3>1, <3>2, <3>3
        <4>2. QED
          BY <4>1 DEF Tells, Dereg
      <3>4. QED
        BY <3>1, <3>3
    <2>7. ASSUME NEW m \in InFlight PROVE Tells(m)'
      <3>1. m \in Mail /\ m.actor \in Actors /\ Tells(m) /\ m.actor # NoOne
        BY Flying, RegistryAssumption DEF Kept
      <3>2. m.kind \in {"registration", Dereg} => m.name \in Names
        BY <3>1 DEF Mail, Naming, Dereg
      <3>3. m.kind \in {"registration", Dereg} /\ registered_map[m.name] = m.actor =>
                registered_map'[m.name] = m.actor
        BY <1>5, <2>5, <3>1, <3>2
      <3>4. UNCHANGED <<state, asked>>
        BY <2>4 DEF lives
      <3>5. QED
        BY <3>1, <3>3, <3>4 DEF Tells, Down
    <2>8. Owners'
      <3>1. UNCHANGED <<state, registering, owned>>
        BY <2>4 DEF lives, plugin
      <3>2. \A b \in Actors : owned[b] \subseteq Names /\ b # NoOne
        BY RegistryAssumption DEF Inv, PluginOK
      <3>3. \A m \in Names : registered_map'[m] # NoOne => m \in Registers[registered_map'[m]]
        BY <1>2, <2>5 DEF Kept, Owners
      <3>4. ASSUME NEW b \in Actors \ Manual, NEW m \in owned[b] PROVE registered_map'[m] = b
        BY <1>5, <2>5, <3>2 DEF Kept, Owners
      <3>5. QED
        BY <3>1, <3>3, <3>4 DEF Kept, Owners, Down
    <2> DEFINE s == sent(k)
               S == {x}
    <2> HIDE DEF x, sent
    <2>9. /\ s \in Seq(Mail) /\ (\A m \in Range(s) : Calm(m) \/ m \in S)
          /\ \A m \in S : Tells(m)' /\ m.kind # Dereg
          /\ Answer(l, [registered_map EXCEPT ![n] = a], Listed(a, n),
                    SubSeq(promises, 1, k), s)
      BY <2>1, <2>3, <2>6
    <2> HIDE DEF s, S
    <2>10. QED
      BY <1>1, <2>7, <2>8, <2>9, AnswerKept
  <1>6. QED
    BY <1>4, <1>5

\* The names of who deregisters them all are nobody else's.
LEMMA OnDeregKept ==
    ASSUME Inv, Kept, NEW l \in Localities, OnDereg(l)
    PROVE  Kept'
  <1> DEFINE a == Subject(l)
             names == IF a \in DOMAIN revese_map THEN revese_map[a] ELSE {}
             reg == [n \in Names |-> IF n \in names THEN NoOne ELSE registered_map[n]]
             rev == [x \in DOMAIN revese_map \ {a} |-> revese_map[x]]
  <1>1. queue[l] # <<>> /\ a \in Actors
    BY Taken DEF Inv, OnDereg, Due
  <1>2. a \in Manual
    <2>1. Tells(Head(queue[l])) /\ Head(queue[l]).kind = "deregistration_notify"
      BY <1>1, GrowsTail DEF OnDereg, Due
    <2>2. QED
      BY <2>1 DEF Tells, Subject
  <1>3. Answer(l, reg, rev, promises, <<>>)
    BY DEF OnDereg
  <1>4. registered_map' = reg /\ UNCHANGED <<lives, plugin>>
    BY <1>3 DEF Answer
  <1>5. \A n \in names : registered_map[n] = a
    BY <1>1 DEF Inv, RegistryOK
  <1>6. \A n \in Names : registered_map'[n] = registered_map[n]
                         \/ (registered_map[n] = a /\ registered_map'[n] = NoOne)
    BY <1>4, <1>5
  <1> HIDE DEF a, names, reg, rev
  <1>7. \A n \in Names, b \in Actors \ Manual :
            registered_map[n] = b => registered_map'[n] = b
    BY <1>2, <1>6
  <1>8. ASSUME NEW m \in InFlight PROVE Tells(m)'
    <2>1. m \in Mail /\ m.actor \in Actors /\ Tells(m)
      BY Flying DEF Kept
    <2>2. m.kind \in {"registration", Dereg} => m.name \in Names
      BY <2>1 DEF Mail, Naming, Dereg
    <2>3. UNCHANGED <<state, asked>>
      BY <1>4 DEF lives
    <2>4. QED
      BY <1>7, <2>1, <2>2, <2>3 DEF Tells, Down
  <1>9. Owners'
    <2>1. UNCHANGED <<state, registering, owned>>
      BY <1>4 DEF lives, plugin
    <2>2. \A b \in Actors : owned[b] \subseteq Names
      BY DEF Inv, PluginOK
    <2>3. QED
      BY <1>6, <1>7, <2>1, <2>2 DEF Kept, Owners, Down
  <1>10. QED
    <2> DEFINE s == <<>>
               S == {}
    <2>1. /\ s \in Seq(Mail) /\ (\A m \in Range(s) : Calm(m) \/ m \in S)
          /\ \A m \in S : Tells(m)' /\ m.kind # Dereg
          /\ Answer(l, reg, rev, promises, s)
      BY <1>3, Few
    <2> HIDE DEF s, S
    <2>2. QED
      BY <1>1, <1>8, <1>9, <2>1, AnswerKept

\* Of those there are no two about one name of an actor.
LEMMA OneNotice ==
    ASSUME Kept, NEW x \in InFlight, NEW y \in InFlight, x.kind = Dereg, y.kind = Dereg,
           x.actor = y.actor, x.name = y.name
    PROVE  x = y
  <1>1. Tells(x) /\ Tells(y)
    BY DEF Kept
  <1>2. /\ x = Msg("registry", Dereg, x.actor, x.name, NoOne)
        /\ y = Msg("registry", Dereg, y.actor, y.name, NoOne)
    BY <1>1 DEF Tells
  <1>3. QED
    BY <1>2

\* Whoever has a name deregistered has it, and is told so once.
LEMMA OnDeregServiceKept ==
    ASSUME ManualApart, Inv, Kept, NEW l \in Localities, OnDeregService(l)
    PROVE  Kept'
  <1> DEFINE n == Name(l)
             b == Subject(l)
             a == registered_map[n]
             x == Head(queue[l])
  <1>1. queue[l] # <<>> /\ n \in Names /\ b \in Actors
    BY Taken DEF Inv, OnDeregService, Due, Naming
  <1>2. a \in Actors \cup {NoOne} /\ registered_map \in [Names -> Actors \cup {NoOne}]
    BY <1>1 DEF Inv, RegistryOK
  <1>3. /\ x.kind = Dereg /\ Tells(x) /\ x.actor = b /\ x.name = n
    BY <1>1, GrowsTail DEF OnDeregService, Due, Dereg, Subject, Name
  <1>4. /\ Down(b) /\ b \in asked /\ n \in Registers[b]
        /\ b \notin Manual => a = b
    BY <1>3 DEF Tells
  <1>5. CASE a = NoOne
    <2>1. Answer(l, registered_map, revese_map, promises, <<>>)
      BY <1>5 DEF OnDeregService
    <2> DEFINE s == <<>>
    <2>2. /\ s \in Seq(Mail)
          /\ \A m \in Range(s) : Calm(m) \/ (m.kind = "registration" /\ Tells(m)')
          /\ Answer(l, registered_map, revese_map, promises, s)
      BY <2>1, Few
    <2> HIDE DEF s
    <2>3. QED
      BY <1>1, <2>2, OnlyAnswerKept
  <1>6. CASE a # NoOne
    <2>1. a \in Actors /\ a \in DOMAIN revese_map
      BY <1>1, <1>2, <1>6 DEF Inv, RegistryOK
    <2>2. Answer(l, [registered_map EXCEPT ![n] = NoOne], Unlisted(a, n), promises, <<>>)
      BY <1>6, <2>1 DEF OnDeregService
    <2>3. n \in Registers[a]
      BY <1>1, <1>6 DEF Kept, Owners
    <2>4. a = b
      BY <1>4, <2>1, <2>3 DEF ManualApart
    <2>5. /\ registered_map' = [registered_map EXCEPT ![n] = NoOne]
          /\ UNCHANGED <<lives, plugin>>
      BY <2>2 DEF Answer
    <2>6. \A m \in Names : registered_map'[m] = IF m = n THEN NoOne ELSE registered_map[m]
      BY <1>2, <2>5
    <2>7. UNCHANGED <<state, asked, registering, owned>>
      BY <2>5 DEF lives, plugin
    <2>8. /\ \A c \in Actors : owned[c] \subseteq Names
          /\ owned[b] = {}
      BY <1>1, <1>4 DEF Inv, PluginOK, Kept, Owners
    <2>9. ASSUME NEW m \in InFlight, m # x \/ m.kind # Dereg PROVE Tells(m)'
      <3>1. m \in Mail /\ m.actor \in Actors /\ Tells(m)
        BY Flying DEF Kept
      <3>2. m.kind \in {"registration", Dereg} => m.name \in Names
        BY <3>1 DEF Mail, Naming, Dereg
      <3>3. CASE m.kind \in {"registration", Dereg} /\ m.name = n
                 /\ registered_map[n] = m.actor
        <4>1. m.actor = b
          BY <2>4, <3>3
        <4>2. m.kind # Dereg
          BY <1>3, <2>9, <3>1, <3>3, <4>1, OneNotice, GrowsTail, <1>1
        <4>3. QED
          BY <1>4, <2>7, <3>1, <4>1, <4>2 DEF Tells, Down
      <3>4. CASE ~(m.kind \in {"registration", Dereg} /\ m.name = n
                   /\ registered_map[n] = m.actor)
        <4>1. m.kind \in {"registration", Dereg} /\ registered_map[m.name] = m.actor =>
                registered_map'[m.name] = m.actor
          BY <2>6, <3>2, <3>4
        <4>2. QED
          BY <2>7, <3>1, <4>1 DEF Tells, Down
      <3>5. QED
        BY <3>3, <3>4
    <2>10. Owners'
      <3>1. \A m \in Names : registered_map'[m] # NoOne => m \in Registers[registered_map'[m]]
        BY <2>6 DEF Kept, Owners
      <3>2. ASSUME NEW c \in Actors \ Manual, NEW m \in owned[c] PROVE registered_map'[m] = c
        <4>1. m \in Names /\ registered_map[m] = c /\ c # b
          BY <2>8 DEF Kept, Owners
        <4>2. m # n
          BY <2>4, <4>1
        <4>3. QED
          BY <2>6, <4>1, <4>2
      <3>3. QED
        BY <2>7, <3>1, <3>2 DEF Kept, Owners, Down
    <2> DEFINE s == <<>>
               S == {}
    <2>11. /\ s \in Seq(Mail) /\ (\A m \in Range(s) : Calm(m) \/ m \in S)
           /\ \A m \in S : Tells(m)' /\ m.kind # Dereg
           /\ Answer(l, [registered_map EXCEPT ![n] = NoOne], Unlisted(a, n), promises, s)
      BY <2>2, Few
    <2> HIDE DEF s, S, a, n, b
    <2>12. QED
      BY <1>1, <2>9, <2>10, <2>11, AnswerKept
  <1>7. QED
    BY <1>5, <1>6

\* It answers, or not, and nothing of names is said.
LEMMA ReplyKept ==
    ASSUME Inv, Kept, NEW l \in Localities, queue[l] # <<>>, NEW x \in Mail, Calm(x),
           NEW s, s = <<x>> \/ s = <<>>,
           NEW rev, NEW left, Answer(l, registered_map, rev, left, s)
    PROVE  Kept'
  <1>1. s \in Seq(Mail) /\ \A m \in Range(s) : Calm(m)
    BY Few
  <1>2. QED
    BY <1>1, OnlyAnswerKept

LEMMA AsksKept ==
    ASSUME Inv, Kept, NEW l \in Localities,
           OnLinkRequest(l) \/ OnDiscovery(l) \/ OnPromise(l) \/ OnCancel(l)
    PROVE  Kept'
  <1> DEFINE a == Subject(l)
             n == Name(l)
             link == Reply("link", a, NoOne, a)
             discovered == Reply("discovery", a, n, registered_map[n])
             promised == Reply("promise", a, n, registered_map[n])
             cancelled == Reply("promise", a, n, NoOne)
  <1>1. queue[l] # <<>> /\ a \in Actors
    BY Taken DEF Inv, OnLinkRequest, OnDiscovery, OnPromise, OnCancel, Due
  <1>2. link \in Mail /\ Calm(link)
    BY <1>1, MsgType DEF Reply, Asks, Naming, Calm, Msg, Dereg
  <1>3. CASE OnLinkRequest(l)
    <2>1. Answer(l, registered_map, revese_map, promises, <<link>>)
      BY <1>3 DEF OnLinkRequest
    <2> HIDE DEF link
    <2>2. QED
      BY <1>1, <1>2, <2>1, ReplyKept
  <1>4. ASSUME OnDiscovery(l) \/ OnPromise(l) \/ OnCancel(l) PROVE n \in Names
    BY <1>4, Taken DEF Inv, OnDiscovery, OnPromise, OnCancel, Due, Naming
  <1>5. ASSUME n \in Names
        PROVE  /\ discovered \in Mail /\ promised \in Mail /\ cancelled \in Mail
               /\ Calm(discovered) /\ Calm(promised) /\ Calm(cancelled)
    <2>1. registered_map[n] \in Actors \cup {NoOne}
      BY <1>5 DEF Inv, RegistryOK
    <2>2. discovered \in Mail /\ promised \in Mail /\ cancelled \in Mail
      BY <1>1, <1>5, <2>1, ReplyType DEF Asks
    <2>3. QED
      BY <2>2 DEF Calm, Reply, Msg, Dereg
  <1>6. CASE OnDiscovery(l)
    <2>1. Answer(l, registered_map, revese_map, promises, <<discovered>>)
      BY <1>6 DEF OnDiscovery
    <2>2. discovered \in Mail /\ Calm(discovered)
      BY <1>4, <1>5, <1>6
    <2> HIDE DEF discovered
    <2>3. QED
      BY <1>1, <2>1, <2>2, ReplyKept
  <1>7. CASE OnPromise(l)
    <2>1. PICK left : \E s \in {<<promised>>, <<>>} :
            Answer(l, registered_map, revese_map, left, s)
      BY <1>7 DEF OnPromise
    <2>2. promised \in Mail /\ Calm(promised)
      BY <1>4, <1>5, <1>7
    <2> HIDE DEF promised
    <2>3. QED
      BY <1>1, <2>1, <2>2, ReplyKept
  <1>8. CASE OnCancel(l)
    <2>1. PICK left : \E s \in {<<cancelled>>, <<>>} :
            Answer(l, registered_map, revese_map, left, s)
      BY <1>8 DEF OnCancel
    <2>2. cancelled \in Mail /\ Calm(cancelled)
      BY <1>4, <1>5, <1>8
    <2> HIDE DEF cancelled
    <2>3. QED
      BY <1>1, <2>1, <2>2, ReplyKept
  <1>9. QED
    BY <1>3, <1>6, <1>7, <1>8

---------------------------------------------------------------------------
\* The plugin, which tells the registry of names only what is so.

LEMMA HomeCalms ==
    ASSUME Inv, Kept, NEW s \in Seq(Mail), \A m \in Range(s) : Calm(m),
           queue' = [queue EXCEPT ![ClientsHome] = queue[ClientsHome] \o s]
    PROVE  Calms({})
  BY RegistryAssumption, GrowsNot, Calmly

LEMMA AppendCalms ==
    ASSUME Inv, Kept, NEW x \in Mail, Calm(x),
           queue' = [queue EXCEPT ![ClientsHome] = Append(queue[ClientsHome], x)]
    PROVE  Calms({})
  <1> DEFINE s == <<x>>
  <1>1. s \in Seq(Mail) /\ \A m \in Range(s) : Calm(m)
    BY Few
  <1>2. queue[ClientsHome] \in Seq(Mail)
    BY RegistryAssumption DEF Inv, MailOK
  <1>3. queue' = [queue EXCEPT ![ClientsHome] = queue[ClientsHome] \o s]
    BY <1>2, Few
  <1> HIDE DEF s
  <1>4. QED
    BY <1>1, <1>3, HomeCalms

LEMMA CreateKept ==
    ASSUME Inv, Kept, NEW a \in Actors, Create(a)
    PROVE  Kept'
  <1> DEFINE x == Order("init_request", a)
  <1>1. x \in Mail /\ Calm(x)
    BY OrderType, OrderCalm DEF Orders
  <1>2. queue' = [queue EXCEPT ![ClientsHome] = Append(queue[ClientsHome], x)]
    BY DEF Create
  <1> HIDE DEF x
  <1>3. Calms({})
    BY <1>1, <1>2, AppendCalms
  <1>4. SameDown /\ UNCHANGED <<registered_map, registering, owned, asked>>
    BY DEF Create, SameDown, Down, Inv, LivesOK, registry, plugin
  <1>5. QED
    BY <1>3, <1>4, CalmKept

LEMMA OnStartKept ==
    ASSUME Inv, Kept, NEW l \in Localities, OnStart(l)
    PROVE  Kept'
  <1>1. queue[l] # <<>> /\ Subject(l) \in Actors
    BY Taken DEF Inv, OnStart, Due
  <1>2. Calms({})
    BY <1>1, HandledOnly DEF OnStart
  <1>3. SameDown /\ UNCHANGED <<registered_map, registering, owned, asked>>
    BY DEF OnStart, SameDown, Down, Inv, LivesOK, registry, plugin
  <1>4. QED
    BY <1>2, <1>3, CalmKept

LEMMA OnInitRequestKept ==
    ASSUME Inv, Kept, NEW l \in Localities, OnInitRequest(l)
    PROVE  Kept'
  <1> DEFINE a == Subject(l)
             start == Order("start_actor", a)
             link == Msg("registry", "link", a, NoOne, NoOne)
  <1>1. queue[l] # <<>> /\ a \in Actors
    BY Taken DEF Inv, OnInitRequest, Due
  <1>2. start \in Mail /\ Calm(start) /\ link \in Mail /\ Calm(link)
    BY <1>1, OrderType, OrderCalm DEF Orders
  <1>3. PICK s \in {<<start>>, <<link>>, <<>>} : Handled(l, s)
    BY DEF OnInitRequest
  <1>4. /\ UNCHANGED <<registered_map, owned, asked>>
        /\ \/ UNCHANGED state
           \/ state[a] = "INITIALIZING" /\ state' = [state EXCEPT ![a] = "INITIALIZED"]
        /\ \/ UNCHANGED registering
           \/ /\ state[a] = "INITIALIZING" /\ UNCHANGED state
              /\ registering' = [registering EXCEPT ![a] = Registers[a]]
    BY DEF OnInitRequest, registry
  <1> HIDE DEF a, start, link
  <1>5. s \in Seq(Mail) /\ \A m \in Range(s) : Calm(m)
    BY <1>2, Few
  <1>6. Calms({})
    BY <1>1, <1>3, <1>5, HandledCalms
  <1>7. SameDown
    BY <1>1, <1>4 DEF SameDown, Down, Inv, LivesOK
  <1>8. Owners'
    BY <1>1, <1>4, <1>7 DEF Kept, Owners, SameDown, Down, Inv, PluginOK
  <1>9. QED
    BY <1>4, <1>6, <1>7, <1>8, QuietCalms DEF SameDown

\* What is said about each name of a set is said of no other.
LEMMA SaidOf ==
    ASSUME NEW kind \in Asks \cup Told, NEW a \in Actors, NEW S \in SUBSET Names,
           NEW s \in ForEach(kind, a, S)
    PROVE  /\ s \in Seq(Mail)
           /\ \A m \in Range(s) : \E n \in S : m = Msg("registry", kind, a, n, NoOne)
           /\ OneEach(s)
  <1> DEFINE M == {Msg("registry", kind, a, n, NoOne) : n \in S}
  <1>1. s \in Seq(Mail) /\ IsFiniteSet(M)
    BY Each
  <1>2. s \in SetToSeqs(M)
    BY DEF ForEach
  <1>3. Cardinality(M) \in Nat
    BY <1>1, FS_CardinalityType
  <1>4. /\ s \in [1 .. Cardinality(M) -> M]
        /\ \A i, j \in 1 .. Cardinality(M) : s[i] = s[j] => i = j
    BY <1>2 DEF SetToSeqs
  <1>5. Len(s) = Cardinality(M) /\ DOMAIN s = 1 .. Cardinality(M)
    BY <1>1, <1>3, <1>4
  <1>6. \A m \in Range(s) : m \in M
    BY <1>4, <1>5 DEF Range
  <1>7. OneEach(s)
    BY <1>4, <1>5 DEF OneEach
  <1>8. QED
    BY <1>1, <1>6, <1>7

LEMMA TwoMore ==
    ASSUME Inv, Kept, NEW l \in Localities, queue[l] # <<>>,
           NEW rs \in Seq(Mail), NEW ds \in Seq(Mail),
           \A m \in Range(rs) \cup Range(ds) : m.kind # Dereg
    PROVE  /\ Grows(l, Tail(queue[l]) \o rs \o ds, Range(rs) \cup Range(ds))
           /\ Grows(l, Tail(queue[l]) \o (rs \o ds), Range(rs) \cup Range(ds))
  <1>1. Grows(l, Tail(queue[l]), {})
    BY GrowsTail
  <1> DEFINE q == Tail(queue[l])
             r == q \o rs
             t == rs \o ds
             S == {} \cup Range(rs)
             T == {} \cup Range(t)
  <1>2. Grows(l, r, S)
    BY <1>1, GrowsMore
  <1>3. t \in Seq(Mail) /\ Range(t) \subseteq Range(rs) \cup Range(ds)
    <2>1. OneEach(rs) /\ OneEach(ds)
      BY DEF OneEach, Range
    <2>2. QED
      BY <2>1, JoinedOnce
  <1>4. Grows(l, q \o t, T)
    BY <1>1, <1>3, GrowsMore
  <1> HIDE DEF r, t
  <1>5. Grows(l, r \o ds, S \cup Range(ds))
    <2> HIDE DEF S
    <2>1. QED
      BY <1>2, GrowsMore
  <1>6. QED
    BY <1>3, <1>4, <1>5 DEF Grows, r, t

LEMMA OnLinkResponseKept ==
    ASSUME Inv, Kept, NEW l \in Localities, OnLinkResponse(l)
    PROVE  Kept'
  <1> DEFINE a == Subject(l)
             ok == Head(queue[l]).address # NoOne
  <1>1. queue[l] # <<>> /\ a \in Actors /\ l = ClientsHome
    BY Taken DEF Inv, OnLinkResponse, Due, Home
  <1>2. UNCHANGED <<registered_map, asked, registering, owned>>
    BY DEF OnLinkResponse, registry
  <1>3. Grows(ClientsHome, Tail(queue[l]), {})
    BY <1>1, GrowsTail
  <1>4. CASE plugin_state[a] # "LINKING"
    <2>1. Fails("on_link_response")
      BY <1>4 DEF OnLinkResponse
    <2>2. Calms({}) /\ SameDown
      BY <2>1, SameCalms DEF Fails, SameDown, Down
    <2>3. QED
      BY <1>2, <2>2, CalmKept
  <1>5. CASE plugin_state[a] = "LINKING" /\ ok
    <2>1. PICK rs \in ForEach("registration", a, registering[a]), ds \in SetToSeqs(Later(a)) :
            IF a \in init_request
            THEN InitContinue(a, FALSE, Tail(queue[l]) \o rs \o ds)
            ELSE /\ Handled(l, rs \o ds)
                 /\ UNCHANGED <<state, init_request, answered, fault>>
      BY <1>5 DEF OnLinkResponse, Later, Asked
    <2>2. /\ ds \in Seq(Mail)
          /\ \A m \in Range(ds) : Calm(m)
      BY <1>1, AskedLater DEF Calm, Dereg
    <2>3. /\ rs \in Seq(Mail)
          /\ \A m \in Range(rs) : m.kind # Dereg /\ Tells(m)'
      <3>1. registering[a] \in SUBSET Names /\ registering[a] \subseteq Registers[a]
        BY <1>1 DEF Inv, PluginOK
      <3>2. /\ rs \in Seq(Mail)
            /\ \A m \in Range(rs) : \E n \in registering[a] :
                    m = Msg("registry", "registration", a, n, NoOne)
        BY <1>1, <3>1, SaidOf DEF Asks
      <3>3. ASSUME NEW m \in Range(rs)
            PROVE  /\ m.kind = "registration" /\ m.to = "registry"
                   /\ m.name \in Registers[m.actor]
        BY <3>1, <3>2 DEF Msg
      <3>4. QED
        BY <3>2, <3>3 DEF Tells, Dereg
    <2> DEFINE S == Range(rs) \cup Range(ds)
               q == Tail(queue[l]) \o rs \o ds
               r == Tail(queue[l]) \o (rs \o ds)
    <2>4. \A m \in S : m.kind # Dereg /\ Tells(m)'
      BY <2>2, <2>3, NoDereg, CalmTells
    <2>5. Grows(l, q, S) /\ Grows(l, r, S)
      BY <1>1, <2>2, <2>3, <2>4, TwoMore
    <2>6. IF a \in init_request THEN InitContinue(a, FALSE, q)
          ELSE queue' = [queue EXCEPT ![l] = r] /\ UNCHANGED state
      BY <2>1 DEF Handled
    <2> HIDE DEF S, q, r, a
    <2>7. Calms(S) /\ SameDown
      <3>1. CASE a \in init_request
        BY <1>1, <2>4, <2>5, <2>6, <3>1, InitContinueCalms
      <3>2. CASE a \notin init_request
        <4>1. queue' = [queue EXCEPT ![l] = r \o <<>>] /\ UNCHANGED state
          BY <2>5, <2>6, <3>2 DEF Grows
        <4>2. QED
          BY <2>4, <2>5, <4>1, Few, Calmly DEF SameDown, Down
      <3>3. QED
        BY <3>1, <3>2
    <2>8. Owners'
      BY <1>2, <2>7, SameOwners
    <2>9. QED
      BY <1>2, <2>4, <2>7, <2>8, QuietCalms DEF SameDown
  <1>6. CASE plugin_state[a] = "LINKING" /\ ~ok
    <2>1. IF a \in init_request THEN Refuse(a, Tail(queue[l]))
          ELSE Handled(l, <<>>) /\ UNCHANGED state
      BY <1>6 DEF OnLinkResponse
    <2> HIDE DEF a
    <2>2. Calms({}) /\ SameDown
      <3>1. CASE a \in init_request
        BY <1>1, <1>3, <2>1, <3>1, RefuseCalms
      <3>2. CASE a \notin init_request
        BY <1>1, <2>1, <3>2, HandledOnly DEF SameDown, Down
      <3>3. QED
        BY <3>1, <3>2
    <2>3. QED
      BY <1>2, <2>2, CalmKept
  <1>7. QED
    BY <1>4, <1>5, <1>6

LEMMA OnRegistrationKept ==
    ASSUME Inv, Kept, NEW l \in Localities, OnRegistration(l)
    PROVE  Kept'
  <1> DEFINE a == Subject(l)
             n == Name(l)
             ok == Head(queue[l]).address # NoOne
             rest == registering[a] \ {n}
  <1>1. queue[l] # <<>> /\ a \in Actors /\ n \in Names /\ l = ClientsHome
    BY Taken DEF Inv, OnRegistration, Due, Naming, Home
  <1>2. UNCHANGED <<registered_map, asked>>
    BY DEF OnRegistration, registry
  <1>3. CASE n \notin registering[a]
    <2>1. Fails("on_registration") /\ UNCHANGED <<registering, owned>>
      BY <1>3 DEF OnRegistration
    <2>2. Calms({}) /\ SameDown
      BY <2>1, SameCalms DEF Fails, SameDown, Down
    <2>3. QED
      BY <1>2, <2>1, <2>2, CalmKept
  <1>4. CASE n \in registering[a]
    <2>1. /\ registering' = [registering EXCEPT ![a] = rest]
          /\ owned' = [owned EXCEPT ![a] = NowOwned(a, n, ok)]
          /\ IF rest = {} \/ ~ok
             THEN ContinueInit(a, ok, Done(rest, tasks[a], linking[a]), Tail(queue[l]))
             ELSE Handled(l, <<>>) /\ UNCHANGED state
      BY <1>4 DEF OnRegistration
    <2>2. ~Down(a)
      BY <1>1, <1>4 DEF Kept, Owners
    <2>3. ok /\ a \notin Manual => registered_map[n] = a
      <3>1. /\ Tells(Head(queue[l])) /\ Head(queue[l]).kind = "registration"
            /\ Head(queue[l]).to # "registry"
        BY <1>1, GrowsTail DEF OnRegistration, Due
      <3>2. QED
        BY <2>2, <3>1 DEF Tells, Subject, Name
    <2>4. /\ \A b \in Actors \ {a} : registering'[b] = registering[b] /\ owned'[b] = owned[b]
          /\ ok => owned'[a] = owned[a] \cup {n}
          /\ ~ok => owned'[a] = owned[a]
      BY <1>1, <2>1 DEF NowOwned, Inv, PluginOK
    <2> DEFINE done == Done(rest, tasks[a], linking[a])
    <2>5. Calms({}) /\ SameDown
      <3>1. CASE rest = {} \/ ~ok
        <4>1. ContinueInit(a, ok, done, Tail(queue[l])) /\ Grows(ClientsHome, Tail(queue[l]), {})
          BY <1>1, <2>1, <3>1, GrowsTail
        <4> HIDE DEF a, ok, rest, done
        <4>2. QED
          BY <1>1, <4>1, ContinueInitCalms
      <3>2. CASE ~(rest = {} \/ ~ok)
        BY <1>1, <2>1, <3>2, HandledOnly DEF SameDown, Down
      <3>3. QED
        BY <3>1, <3>2
    <2> HIDE DEF a, n, ok, rest, done
    <2>6. Owners'
      <3>1. ASSUME NEW b \in Actors, Down(b)' PROVE registering'[b] = {} /\ owned'[b] = {}
        <4>1. Down(b) /\ b # a
          BY <2>2, <2>5, <3>1 DEF SameDown
        <4>2. QED
          BY <2>4, <4>1 DEF Kept, Owners
      <3>2. ASSUME NEW b \in Actors, b \notin Manual, NEW x \in owned'[b]
            PROVE  registered_map[x] = b
        <4>1. x \in owned[b] \/ (b = a /\ ok /\ x = n)
          BY <2>4, <3>2
        <4>2. QED
          BY <2>3, <3>2, <4>1 DEF Kept, Owners
      <3>3. QED
        BY <1>2, <3>1, <3>2 DEF Kept, Owners
    <2>7. QED
      BY <1>2, <2>5, <2>6, QuietCalms DEF SameDown
  <1>5. QED
    BY <1>3, <1>4

LEMMA OnFoundKept ==
    ASSUME Inv, Kept, NEW l \in Localities, OnFound(l)
    PROVE  Kept'
  <1> DEFINE a == Subject(l)
             n == Name(l)
             address == Head(queue[l]).address
  <1>1. /\ queue[l] # <<>> /\ a \in Actors /\ l = ClientsHome
    BY Taken DEF Inv, OnFound, Due, Home
  <1>2. UNCHANGED <<registered_map, registering, owned, asked>>
    BY DEF OnFound, registry
  <1>3. \/ \E what \in {"process_discovery", "link"} : Fails(what)
        \/ ContinueInit(a, FALSE, FALSE, Tail(queue[l]))
        \/ Handled(l, <<>>) /\ UNCHANGED state
    BY DEF OnFound
  <1> HIDE DEF a
  <1>4. CASE \E what \in {"process_discovery", "link"} : Fails(what)
    BY <1>2, <1>4, SameCalms, CalmKept DEF Fails, SameDown, Down
  <1>5. CASE ContinueInit(a, FALSE, FALSE, Tail(queue[l]))
    <2> DEFINE q == Tail(queue[l])
               no == FALSE
    <2>1. Grows(ClientsHome, q, {}) /\ ContinueInit(a, no, no, q)
      BY <1>1, <1>5, GrowsTail
    <2> HIDE DEF q, no
    <2>2. Calms({}) /\ SameDown
      BY <1>1, <2>1, ContinueInitCalms
    <2>3. QED
      BY <1>2, <2>2, CalmKept
  <1>6. CASE Handled(l, <<>>) /\ UNCHANGED state
    BY <1>1, <1>2, <1>6, HandledOnly, CalmKept DEF SameDown, Down
  <1>7. QED
    BY <1>3, <1>4, <1>5, <1>6

LEMMA LinkSettlesKept ==
    ASSUME Inv, Kept, NEW a \in Actors, LinkSettles(a)
    PROVE  Kept'
  <1> DEFINE q == queue[ClientsHome]
  <1>1. PICK n \in Names : LinkDone(a, n) \/ LinkFails(a, n)
    BY DEF LinkSettles
  <1>2. UNCHANGED <<registered_map, registering, owned, asked>>
    BY <1>1 DEF LinkDone, LinkFails, registry
  <1>3. \/ \E done \in BOOLEAN : InitContinue(a, done, q)
        \/ Refuse(a, q)
        \/ UNCHANGED <<queue, state>>
    <2>1. Done(registering[a], tasks[a] \ {n}, linking[a] \ {n}) \in BOOLEAN
      BY DEF Done
    <2>2. QED
      BY <1>1, <2>1 DEF LinkDone, LinkFails, Fails
  <1>4. Grows(ClientsHome, q, {})
    BY RegistryAssumption, GrowsNot
  <1> HIDE DEF q
  <1>5. Calms({}) /\ SameDown
    <2>1. ASSUME NEW done \in BOOLEAN, InitContinue(a, done, q) PROVE Calms({}) /\ SameDown
      BY <1>4, <2>1, InitContinueCalms
    <2>2. CASE Refuse(a, q)
      BY <1>4, <2>2, RefuseCalms
    <2>3. CASE UNCHANGED <<queue, state>>
      <3>1. Calms({})
        BY <2>3, SameCalms
      <3>2. SameDown
        BY <2>3 DEF SameDown, Down
      <3>3. QED
        BY <3>1, <3>2
    <2>4. QED
      BY <1>3, <2>1, <2>2, <2>3
  <1>6. QED
    BY <1>2, <1>5, CalmKept

---------------------------------------------------------------------------
\* What else is sent is told truly.

LEMMA SentKept ==
    ASSUME Inv, Kept, NEW h \in Localities, NEW r, NEW S, Grows(h, r, S),
           queue' = [queue EXCEPT ![h] = r],
           \A m \in S : Tells(m)' /\ (m.kind = Dereg => m \notin InFlight),
           Owners', registered_map' = registered_map,
           asked \subseteq asked', \A b \in Actors : Down(b) => Down(b)'
    PROVE  Kept'
  <1>1. Once' /\ InFlight' \subseteq InFlight \cup S
    BY Sending
  <1>2. QED
    BY <1>1, Quiet

LEMMA OneSent ==
    ASSUME Inv, Kept, NEW h \in Localities, NEW q, Grows(h, q, {}),
           NEW x \in Mail, x.kind # Dereg, Tells(x)',
           NEW s, s = <<x>> \/ s = <<>>, queue' = [queue EXCEPT ![h] = q \o s],
           Owners', registered_map' = registered_map,
           asked \subseteq asked', \A b \in Actors : Down(b) => Down(b)'
    PROVE  Kept'
  <1>1. s \in Seq(Mail) /\ \A m \in Range(s) : m = x
    BY Few
  <1> DEFINE S == {} \cup Range(s)
             r == q \o s
  <1>2. Grows(h, r, S)
    BY <1>1, GrowsMore
  <1>3. queue' = [queue EXCEPT ![h] = r]
    OBVIOUS
  <1>4. \A m \in S : Tells(m)' /\ (m.kind = Dereg => m \notin InFlight)
    BY <1>1
  <1> HIDE DEF S, r
  <1>5. QED
    BY <1>2, <1>3, <1>4, SentKept

LEMMA OnReplyKept ==
    ASSUME Inv, Kept, NEW l \in Localities, OnReply(l)
    PROVE  Kept'
  <1> DEFINE m == Head(queue[l])
             x == [m EXCEPT !.to = "actor"]
  <1>1. PICK kind \in Asks, s \in {<<x>>, <<>>} :
            /\ Due(l, "supervisor", kind)
            /\ Handled(l, s)
            /\ UNCHANGED <<registry, lives, plugin>>
    BY DEF OnReply
  <1>2. /\ queue[l] # <<>> /\ m \in Mail /\ m.kind = kind /\ m.to = "supervisor"
    BY <1>1, Taken DEF Inv, Due
  <1>3. Tells(m) /\ Grows(l, Tail(queue[l]), {})
    BY <1>2, GrowsTail
  <1>4. /\ x \in Mail
        /\ x.kind = m.kind /\ x.to = "actor" /\ x.name = m.name
        /\ x.actor = m.actor /\ x.address = m.address
    BY <1>2 DEF Mail, Message
  <1>5. queue' = [queue EXCEPT ![l] = Tail(queue[l]) \o s]
    BY <1>1 DEF Handled
  <1>6. UNCHANGED <<registered_map, registering, owned, asked, state>>
    BY <1>1 DEF registry, lives, plugin
  <1> HIDE DEF m, x
  <1>7. \A y : y = x => y.kind # Dereg /\ Tells(y)'
    BY <1>2, <1>3, <1>4, <1>6 DEF Tells, Asks, Dereg, Down
  <1>8. SameDown
    BY <1>6 DEF SameDown, Down
  <1>9. Owners'
    BY <1>6, <1>8, SameOwners
  <1>10. QED
    BY <1>3, <1>4, <1>5, <1>6, <1>7, <1>8, <1>9, OneSent DEF SameDown

LEMMA RequestTimeoutKept ==
    ASSUME Inv, Kept, NEW r \in Expires, RequestTimeout(r)
    PROVE  Kept'
  <1> DEFINE x == Msg("actor", r[1], r[2], r[3], NoOne)
             s == <<x>>
             q == queue[ClientsHome]
  <1>1. r \in Request
    BY RegistryAssumption
  <1>2. x \in Mail
    BY <1>1, MsgType DEF Request, Asks, Naming
  <1>3. x.kind \in Asks /\ x.to = "actor" /\ x.address = NoOne
    BY <1>1 DEF Request, Asks, Msg
  <1> HIDE DEF x
  <1>4. x.kind # Dereg /\ Tells(x)'
    BY <1>3 DEF Tells, Dereg, Asks
  <1>5. ClientsHome \in Localities /\ q \in Seq(Mail) /\ Grows(ClientsHome, q, {})
    BY RegistryAssumption, GrowsNot DEF Inv, MailOK
  <1>6. queue' = [queue EXCEPT ![ClientsHome] = q \o s]
    BY <1>2, <1>5, Few DEF RequestTimeout, x
  <1>7. UNCHANGED <<registered_map, registering, owned, asked, state>>
    BY DEF RequestTimeout, registry, lives, plugin
  <1> HIDE DEF q
  <1>8. SameDown
    BY <1>7 DEF SameDown, Down
  <1>9. Owners'
    BY <1>7, <1>8, SameOwners
  <1>10. QED
    BY <1>2, <1>4, <1>5, <1>6, <1>7, <1>8, <1>9, OneSent DEF SameDown

LEMMA UserDeregistersKept ==
    ASSUME Inv, Kept, NEW a \in Actors, UserDeregisters(a)
    PROVE  Kept'
  <1> DEFINE x == Msg("registry", "deregistration_notify", a, NoOne, NoOne)
             s == <<x>>
             q == queue[ClientsHome]
  <1>1. x \in Mail
    BY OrderType
  <1>2. x.kind = "deregistration_notify" /\ x.actor = a /\ a \in Manual
    BY DEF Msg, UserDeregisters
  <1> HIDE DEF x
  <1>3. x.kind # Dereg /\ Tells(x)'
    BY <1>2 DEF Tells, Dereg
  <1>4. ClientsHome \in Localities /\ q \in Seq(Mail) /\ Grows(ClientsHome, q, {})
    BY RegistryAssumption, GrowsNot DEF Inv, MailOK
  <1>5. queue' = [queue EXCEPT ![ClientsHome] = q \o s]
    BY <1>1, <1>4, Few DEF UserDeregisters, x
  <1>6. UNCHANGED <<registered_map, registering, owned, asked, state>>
    BY DEF UserDeregisters, registry, lives, plugin
  <1> HIDE DEF q
  <1>7. SameDown
    BY <1>6 DEF SameDown, Down
  <1>8. Owners'
    BY <1>6, <1>7, SameOwners
  <1>9. QED
    BY <1>1, <1>3, <1>4, <1>5, <1>6, <1>7, <1>8, OneSent DEF SameDown

LEMMA UserShutdownKept ==
    ASSUME Inv, Kept, NEW a \in Actors, UserShutdown(a)
    PROVE  Kept'
  <1> DEFINE s == DoShutdown(a)
  <1>1. s \in Seq(Mail) /\ (\A m \in Range(s) : Calm(m))
        /\ queue' = [queue EXCEPT ![ClientsHome] = queue[ClientsHome] \o s]
    BY OrderType, OrderCalm DEF UserShutdown
  <1> HIDE DEF s
  <1>2. Calms({})
    BY <1>1, HomeCalms
  <1>3. SameDown /\ UNCHANGED <<registered_map, registering, owned, asked>>
    BY DEF UserShutdown, SameDown, Down, registry, plugin, lives
  <1>4. QED
    BY <1>2, <1>3, CalmKept

LEMMA OnShutdownTriggerKept ==
    ASSUME Inv, Kept, NEW l \in Localities, OnShutdownTrigger(l)
    PROVE  Kept'
  <1> DEFINE a == Subject(l)
             x == Order("shutdown_request", a)
  <1>1. queue[l] # <<>> /\ a \in Actors
    BY Taken DEF Inv, OnShutdownTrigger, Due
  <1>2. x \in Mail
    BY <1>1, OrderType DEF Orders
  <1>3. x.kind = "shutdown_request" /\ x.actor = a
    BY DEF Order, Msg
  <1>4. PICK s \in {<<x>>, <<>>} : Handled(l, s)
    BY DEF OnShutdownTrigger
  <1>5. /\ asked' = asked \cup {a}
        /\ UNCHANGED <<registered_map, registering, owned, state>>
    BY DEF OnShutdownTrigger, registry, plugin
  <1>6. Grows(l, Tail(queue[l]), {})
    BY <1>1, GrowsTail
  <1>7. queue' = [queue EXCEPT ![l] = Tail(queue[l]) \o s]
    BY <1>4 DEF Handled
  <1> HIDE DEF x, a
  <1>8. \A y : y = x => y.kind # Dereg /\ Tells(y)'
    BY <1>3, <1>5 DEF Tells, Dereg
  <1>9. SameDown
    BY <1>5 DEF SameDown, Down
  <1>10. Owners'
    BY <1>5, <1>9, SameOwners
  <1>11. QED
    BY <1>2, <1>5, <1>6, <1>7, <1>8, <1>9, <1>10, OneSent DEF SameDown

---------------------------------------------------------------------------
\* Shutting down, names are taken back by who owns them.

LEMMA GiveUpLinksKept ==
    ASSUME Inv, Kept, NEW a \in Actors, NEW q, NEW S, Grows(ClientsHome, q, S),
           \A m \in S : Tells(m)' /\ (m.kind = Dereg => m \notin InFlight),
           GiveUpLinks(a, q), Down(a)',
           Owners', registered_map' = registered_map,
           asked \subseteq asked', \A b \in Actors : Down(b) => Down(b)'
    PROVE  Kept'
  <1> DEFINE x == Order("unsubscription", a)
             s == <<x>>
             T == S \cup Range(s)
             r == q \o s
  <1>1. x \in Mail /\ x.kind = "unsubscription" /\ x.actor = a
    BY OrderType DEF Orders, Order, Msg
  <1>2. q \in Seq(Mail) /\ ClientsHome \in Localities
    BY RegistryAssumption DEF Grows
  <1>3. queue' = [queue EXCEPT ![ClientsHome] = Append(q, x)]
    BY DEF GiveUpLinks
  <1> HIDE DEF x
  <1>4. s \in Seq(Mail) /\ Range(s) = {x} /\ Append(q, x) = q \o s
    BY <1>1, <1>2, Few
  <1>5. \A m \in Range(s) : m.kind # Dereg /\ Tells(m)'
    BY <1>1, <1>4 DEF Tells, Dereg
  <1> HIDE DEF s
  <1>6. Grows(ClientsHome, r, T)
    BY <1>2, <1>4, <1>5, GrowsMore
  <1>7. queue' = [queue EXCEPT ![ClientsHome] = r]
    BY <1>3, <1>4
  <1>8. \A m \in T : Tells(m)' /\ (m.kind = Dereg => m \notin InFlight)
    BY <1>5
  <1> HIDE DEF T, r
  <1>9. QED
    BY <1>2, <1>6, <1>7, <1>8, SentKept

LEMMA OnShutdownRequestKept ==
    ASSUME Inv, Kept, NEW l \in Localities, OnShutdownRequest(l)
    PROVE  Kept'
  <1>1. PICK a \in Actors : a = Subject(l) /\ queue[l] # <<>> /\ l = ClientsHome
    BY Taken DEF Inv, OnShutdownRequest, Due, Home
  <1>2. a \in asked
    <2>1. Tells(Head(queue[l])) /\ Head(queue[l]).kind = "shutdown_request"
      BY <1>1, GrowsTail DEF OnShutdownRequest, Due
    <2>2. QED
      BY <1>1, <2>1 DEF Tells, Subject
  <1> DEFINE after(ds, cs) ==
                LET q == Tail(queue[l]) \o ds \o cs IN
                IF a \in Served
                THEN /\ queue' = [queue EXCEPT ![l] = q]
                     /\ UNCHANGED <<plugin_state, linking, linked, requests, fault>>
                ELSE GiveUpLinks(a, q)
  <1>3. /\ state' = [state EXCEPT ![a] = "SHUTTING_DOWN"]
        /\ registering' = [registering EXCEPT ![a] = {}]
        /\ owned' = [owned EXCEPT ![a] = {}]
        /\ UNCHANGED <<registered_map, asked>>
    BY <1>1 DEF OnShutdownRequest, registry
  <1>4. PICK ds \in ForEach(Dereg, a, owned[a]),
             cs \in ForEach("discovery_cancel", a, Cancels(a)) : after(ds, cs)
    BY <1>1 DEF OnShutdownRequest, Deregisters, Dereg
  <1>5. /\ owned[a] \in SUBSET Names /\ owned[a] \subseteq Registers[a]
        /\ Cancels(a) \in SUBSET Names
    BY <1>1 DEF Cancels, Inv, PluginOK
  <1>6. Dereg \in Asks \cup Told /\ "discovery_cancel" \in Asks \cup Told
    BY DEF Dereg, Told
  <1>7. /\ ds \in Seq(Mail) /\ OneEach(ds)
        /\ \A m \in Range(ds) : \E n \in owned[a] : m = Msg("registry", Dereg, a, n, NoOne)
    BY <1>1, <1>5, <1>6, SaidOf
  <1>8. cs \in Seq(Mail) /\ \A m \in Range(cs) : Calm(m)
    <2>1. /\ cs \in Seq(Mail)
          /\ \A m \in Range(cs) : \E n \in Cancels(a) :
                m = Msg("registry", "discovery_cancel", a, n, NoOne)
      BY <1>1, <1>5, <1>6, SaidOf
    <2>2. QED
      BY <2>1 DEF Calm, Msg, Dereg
  <1> DEFINE t == Tail(queue[l])
             q == t \o ds \o cs
             S == Range(ds) \cup Range(cs)
  <1>9. \A b \in Actors \ {a} : state'[b] = state[b]
                                /\ registering'[b] = registering[b] /\ owned'[b] = owned[b]
    BY <1>3 DEF Inv, LivesOK, PluginOK
  <1>10. Down(a)' /\ registering'[a] = {} /\ owned'[a] = {}
    BY <1>1, <1>3 DEF Inv, LivesOK, PluginOK, Down
  <1>11. \A b \in Actors : Down(b) => Down(b)'
    BY <1>9, <1>10 DEF Down
  <1>12. \A m \in Range(ds) : m \notin InFlight
    <2> SUFFICES ASSUME NEW m \in Range(ds), m \in InFlight PROVE FALSE
      OBVIOUS
    <2>1. m.kind = Dereg /\ m.actor = a /\ owned[a] # {}
      BY <1>7 DEF Msg
    <2>2. Down(a)
      BY <2>1 DEF Kept, Tells
    <2>3. QED
      BY <1>1, <2>1, <2>2 DEF Kept, Owners
  <1>13. ASSUME NEW m \in Range(ds) PROVE Tells(m)'
    <2>1. PICK n \in owned[a] : m = Msg("registry", Dereg, a, n, NoOne)
      BY <1>7
    <2>2. m.kind = Dereg /\ m.actor = a /\ m.name = n
      BY <2>1 DEF Msg
    <2>3. m = Msg("registry", Dereg, m.actor, m.name, NoOne)
      BY <2>1, <2>2
    <2>4. n \in Registers[a] /\ (a \notin Manual => registered_map[n] = a)
      BY <1>1, <1>5 DEF Kept, Owners
    <2>5. Down(m.actor)'
      BY <1>10, <2>2
    <2>6. QED
      BY <1>2, <1>3, <2>2, <2>3, <2>4, <2>5 DEF Tells, Dereg
  <1>14. \A m \in S : Tells(m)' /\ (m.kind = Dereg => m \notin InFlight)
    BY <1>8, <1>12, <1>13, CalmTells, NoDereg
  <1>15. Grows(l, q, S)
    <2>1. Grows(l, t, {}) /\ t \in Seq(Mail) /\ OneEach(t) /\ Range(t) \subseteq Range(queue[l])
      BY <1>1, GrowsTail DEF Grows
    <2>2. \A m \in Range(ds) : m \notin Range(t)
      BY <1>12, <2>1 DEF InFlight
    <2> HIDE DEF t
    <2>3. Grows(l, t \o ds, Range(ds))
      BY <1>7, <2>1, <2>2, JoinedOnce DEF Grows
    <2>4. \A m \in Range(cs) : m.kind # Dereg
      BY <1>8, NoDereg
    <2> DEFINE r == t \o ds
               D == Range(ds)
    <2>5. Grows(l, r, D)
      BY <2>3
    <2> HIDE DEF r, D
    <2>6. Grows(l, r \o cs, D \cup Range(cs))
      BY <1>8, <2>4, <2>5, GrowsMore
    <2>7. QED
      BY <2>6 DEF r, D
  <1>16. Owners'
    <2>1. \A b \in Actors : Down(b)' => registering'[b] = {} /\ owned'[b] = {}
      BY <1>9, <1>10 DEF Kept, Owners, Down
    <2>2. \A b \in Actors : owned'[b] \subseteq owned[b]
      BY <1>9, <1>10
    <2>3. QED
      BY <1>3, <2>1, <2>2 DEF Kept, Owners
  <1>17. IF a \in Served THEN queue' = [queue EXCEPT ![l] = q] ELSE GiveUpLinks(a, q)
    BY <1>4
  <1> HIDE DEF q, S
  <1>18. CASE a \in Served
    BY <1>3, <1>11, <1>14, <1>15, <1>16, <1>17, <1>18, SentKept
  <1>19. CASE a \notin Served
    BY <1>1, <1>3, <1>10, <1>11, <1>14, <1>15, <1>16, <1>17, <1>19, GiveUpLinksKept
  <1>20. QED
    BY <1>18, <1>19

LEMMA ClientsLeaveKept ==
    ASSUME Inv, Kept, NEW a \in Actors, ClientsLeave(a)
    PROVE  Kept'
  <1> DEFINE q == queue[ClientsHome]
  <1>1. GiveUpLinks(a, q) /\ state[a] = "SHUTTING_DOWN"
        /\ UNCHANGED <<registered_map, registering, owned, asked, state>>
    BY DEF ClientsLeave, registry, lives
  <1>2. Grows(ClientsHome, q, {})
    BY RegistryAssumption, GrowsNot
  <1> HIDE DEF q
  <1>3. Down(a)' /\ SameDown
    BY <1>1 DEF Down, SameDown
  <1>4. Owners'
    BY <1>1, <1>3, SameOwners
  <1>5. QED
    BY <1>1, <1>2, <1>3, <1>4, GiveUpLinksKept DEF SameDown

LEMMA OnUnsubscriptionKept ==
    ASSUME Inv, Kept, NEW l \in Localities, OnUnsubscription(l)
    PROVE  Kept'
  <1>1. PICK a \in Actors : a = Subject(l) /\ queue[l] # <<>>
    BY Taken DEF Inv, OnUnsubscription, Due
  <1>2. Down(a)
    <2>1. Tells(Head(queue[l])) /\ Head(queue[l]).kind = "unsubscription"
      BY <1>1, GrowsTail DEF OnUnsubscription, Due
    <2>2. QED
      BY <1>1, <2>1 DEF Tells, Subject
  <1>3. /\ state' = [state EXCEPT ![a] = "SHUT_DOWN"]
        /\ Handled(l, <<>>)
        /\ UNCHANGED <<registered_map, registering, owned, asked>>
    BY <1>1 DEF OnUnsubscription, registry, plugin
  <1>4. SameDown
    BY <1>1, <1>2, <1>3 DEF SameDown, Down, Inv, LivesOK
  <1>5. Calms({})
    BY <1>1, <1>3, HandledOnly
  <1>6. QED
    BY <1>3, <1>4, <1>5, CalmKept

\* A message goes to another locality, and leaves this one.
LEMMA TransferKept ==
    ASSUME Inv, Kept, NEW l \in Localities, Transfer(l)
    PROVE  Kept'
  <1>1. PICK m \in InFlight : queue[l] # <<>> /\ m = Head(queue[l])
    BY GrowsTail DEF Transfer
  <1>2. PICK h \in Localities : h = Home(m) /\ h # l
    BY <1>1, RegistryAssumption DEF Transfer, Home
  <1>3. /\ queue' = [queue EXCEPT ![l] = Tail(@), ![h] = Append(@, m)]
        /\ UNCHANGED <<registered_map, registering, owned, asked, state>>
    BY <1>1, <1>2 DEF Transfer, registry, lives, plugin
  <1> DEFINE t == Tail(queue[l])
             s == <<m>>
             r == queue[h] \o s
  <1>4. m \in Mail /\ queue[h] \in Seq(Mail)
    BY Flying DEF Inv, MailOK
  <1>5. s \in Seq(Mail) /\ Range(s) = {m} /\ Append(queue[h], m) = r
    BY <1>4, Few
  <1>6. /\ queue'[l] = t /\ queue'[h] = r
        /\ \A k \in Localities \ {l, h} : queue'[k] = queue[k]
    BY <1>2, <1>3, <1>5 DEF Inv, MailOK
  <1>7. /\ OneEach(t) /\ Range(t) \subseteq Range(queue[l])
        /\ m \in Range(queue[l])
        /\ m.kind = Dereg => m \notin Range(t)
    BY <1>1, GrowsTail, Head1 DEF Grows, Inv, MailOK
  <1>8. m.kind = Dereg => \A k \in Localities \ {l} : m \notin Range(queue[k])
    BY <1>7 DEF Kept, Once
  <1>9. OneEach(r) /\ Range(r) \subseteq Range(queue[h]) \cup {m}
    <2>1. OneEach(queue[h])
      BY DEF Kept, Once
    <2>2. Len(s) = 1
      OBVIOUS
    <2>3. OneEach(s)
      BY <2>2 DEF OneEach
    <2> HIDE DEF s
    <2>4. QED
      BY <1>2, <1>4, <1>5, <1>8, <2>1, <2>3, JoinedOnce
  <1> HIDE DEF t, r
  <1>10. \A k \in Localities : OneEach(queue'[k])
    BY <1>6, <1>7, <1>9 DEF Kept, Once
  <1>11. \A k \in Localities : \A y \in Range(queue'[k]) :
            y \in Range(queue[k]) \/ (k = h /\ y = m)
    BY <1>6, <1>7, <1>9
  <1>12. ASSUME NEW k \in Localities, NEW j \in Localities, NEW y \in Range(queue'[k]),
                y.kind = Dereg, y \in Range(queue'[j])
         PROVE  k = j
    <2>1. CASE y = m
      <3>1. k = h /\ j = h
        BY <1>6, <1>7, <1>8, <1>11, <1>12, <2>1
      <3>2. QED
        BY <3>1
    <2>2. CASE y # m
      BY <1>11, <1>12, <2>2 DEF Kept, Once
    <2>3. QED
      BY <2>1, <2>2
  <1>13. Once'
    BY <1>10, <1>12 DEF Once
  <1>14. InFlight' \subseteq InFlight \cup {}
    BY <1>7, <1>11 DEF InFlight
  <1>15. SameDown
    BY <1>3 DEF SameDown, Down
  <1>16. Owners'
    BY <1>3, <1>15, SameOwners
  <1>17. QED
    BY <1>3, <1>13, <1>14, <1>15, <1>16, Quiet DEF SameDown

LEMMA DropKept ==
    ASSUME Inv, Kept, NEW l \in Localities, Drop(l)
    PROVE  Kept'
  <1>1. queue[l] # <<>> /\ Handled(l, <<>>)
        /\ UNCHANGED <<registered_map, registering, owned, asked, state>>
    BY DEF Drop, registry, lives, plugin
  <1>2. Calms({})
    BY <1>1, HandledOnly
  <1>3. SameDown
    BY <1>1 DEF SameDown, Down
  <1>4. QED
    BY <1>1, <1>2, <1>3, CalmKept

---------------------------------------------------------------------------
LEMMA InitKept == Init => Kept
  <1> SUFFICES ASSUME Init PROVE Kept
    OBVIOUS
  <1>1. \A l \in Localities : queue[l] = <<>>
    BY DEF Init
  <1>2. \A l \in Localities : Range(queue[l]) = {} /\ OneEach(queue[l])
    <2>1. Len(<<>>) = 0 /\ Range(<<>>) = {}
      BY Few
    <2>2. QED
      BY <1>1, <2>1 DEF OneEach
  <1>3. InFlight = {} /\ Once
    BY <1>2 DEF InFlight, Once
  <1>4. Owners
    BY DEF Init, Owners, Down
  <1>5. QED
    BY <1>3, <1>4 DEF Kept

LEMMA KeptNext ==
    ASSUME ManualApart, Inv, Kept, [Next]_vars
    PROVE  Kept'
  <1>1. ASSUME NEW l \in Localities, Deliver(l) PROVE Kept'
    BY <1>1, AsksKept, OnRegKept, OnDeregKept, OnDeregServiceKept,
       OnInitRequestKept, OnStartKept, OnLinkResponseKept, OnRegistrationKept,
       OnFoundKept, OnReplyKept, OnShutdownTriggerKept, OnShutdownRequestKept,
       OnUnsubscriptionKept, TransferKept, DropKept
       DEF Deliver
  <1>2. ASSUME NEW a \in Actors,
               Create(a) \/ LinkSettles(a) \/ UserDeregisters(a) \/ UserShutdown(a)
                 \/ ClientsLeave(a)
        PROVE  Kept'
    BY <1>2, CreateKept, LinkSettlesKept, UserDeregistersKept, UserShutdownKept,
       ClientsLeaveKept
  <1>3. CASE UNCHANGED vars
    <2>1. UNCHANGED <<queue, registered_map, registering, owned, asked, state>>
      BY <1>3 DEF vars, registry, lives, plugin
    <2>2. Calms({})
      BY <2>1, SameCalms
    <2>3. SameDown
      BY <2>1 DEF SameDown, Down
    <2>4. QED
      BY <2>1, <2>2, <2>3, CalmKept
  <1>4. QED
    BY <1>1, <1>2, <1>3, RequestTimeoutKept DEF Next

LEMMA KeptAlways == ASSUME ManualApart PROVE Spec => [](Inv /\ Kept)
  <1>1. Init => Inv /\ Kept
    BY InitInv, InitKept
  <1>2. Inv /\ Kept /\ [Next]_vars => Inv' /\ Kept'
    BY InvNext, KeptNext
  <1>3. QED
    BY <1>1, <1>2, PTL DEF Spec

\* A name changes hands only when its owner takes it back.
TakenBack ==
    \A n \in Names, a \in Actors \ Manual :
        registered_map[n] = a /\ registered_map'[n] # a => a \in asked

LEMMA OnRegTakes == ASSUME Inv, NEW l \in Localities, OnReg(l) PROVE TakenBack
  <1>1. \/ UNCHANGED registered_map
        \/ /\ registered_map[Name(l)] = NoOne
           /\ registered_map' = [registered_map EXCEPT ![Name(l)] = Subject(l)]
    BY DEF OnReg, Answer
  <1>2. QED
    BY <1>1, RegistryAssumption DEF TakenBack, Inv, RegistryOK

LEMMA OnDeregTakes == ASSUME Inv, Kept, NEW l \in Localities, OnDereg(l) PROVE TakenBack
  <1> DEFINE b == Subject(l)
             names == IF b \in DOMAIN revese_map THEN revese_map[b] ELSE {}
  <1>1. queue[l] # <<>> /\ b \in Actors
    BY Taken DEF Inv, OnDereg, Due
  <1>2. b \in Manual
    <2>1. Tells(Head(queue[l])) /\ Head(queue[l]).kind = "deregistration_notify"
      BY <1>1, GrowsTail DEF OnDereg, Due
    <2>2. QED
      BY <2>1 DEF Tells, Subject
  <1>3. registered_map' = [n \in Names |-> IF n \in names THEN NoOne ELSE registered_map[n]]
    BY DEF OnDereg, Answer
  <1>4. \A n \in names : registered_map[n] = b
    BY <1>1 DEF Inv, RegistryOK
  <1>5. QED
    BY <1>2, <1>3, <1>4 DEF TakenBack

LEMMA OnDeregServiceTakes ==
    ASSUME ManualApart, Inv, Kept, NEW l \in Localities, OnDeregService(l)
    PROVE  TakenBack
  <1> DEFINE n == Name(l)
             b == Subject(l)
  <1>1. queue[l] # <<>> /\ n \in Names /\ b \in Actors
    BY Taken DEF Inv, OnDeregService, Due, Naming
  <1>2. Tells(Head(queue[l])) /\ Head(queue[l]).kind = Dereg
    BY <1>1, GrowsTail DEF OnDeregService, Due, Dereg
  <1>3. /\ b \in asked /\ n \in Registers[b]
        /\ b \notin Manual => registered_map[n] = b
    BY <1>2 DEF Tells, Subject, Name
  <1>4. \/ UNCHANGED registered_map
        \/ registered_map' = [registered_map EXCEPT ![n] = NoOne]
    BY DEF OnDeregService, Answer, Fails, registry
  <1>5. ASSUME NEW a \in Actors \ Manual, registered_map[n] = a PROVE a = b
    <2>1. n \in Registers[a]
      BY <1>1, <1>5, RegistryAssumption DEF Kept, Owners
    <2>2. QED
      BY <1>1, <1>3, <1>5, <2>1 DEF ManualApart
  <1> HIDE DEF n, b
  <1>6. QED
    BY <1>3, <1>4, <1>5 DEF TakenBack, Inv, RegistryOK

LEMMA Takes == ASSUME ManualApart, Inv, Kept, [Next]_vars PROVE TakenBack
  <1>1. ASSUME UNCHANGED registered_map PROVE TakenBack
    BY <1>1 DEF TakenBack
  <1>2. ASSUME NEW l \in Localities, Deliver(l) PROVE TakenBack
    <2>1. CASE OnReg(l) \/ OnDereg(l) \/ OnDeregService(l)
      BY <2>1, OnRegTakes, OnDeregTakes, OnDeregServiceTakes
    <2>2. CASE OnLinkRequest(l) \/ OnDiscovery(l) \/ OnPromise(l) \/ OnCancel(l)
      BY <1>1, <2>2 DEF OnLinkRequest, OnDiscovery, OnPromise, OnCancel, Answer
    <2>3. CASE \/ OnInitRequest(l) \/ OnStart(l) \/ OnLinkResponse(l) \/ OnRegistration(l)
               \/ OnFound(l) \/ OnReply(l) \/ OnShutdownTrigger(l)
               \/ OnShutdownRequest(l) \/ OnUnsubscription(l) \/ Transfer(l) \/ Drop(l)
      BY <1>1, <2>3 DEF OnInitRequest, OnStart, OnLinkResponse, OnRegistration, OnFound,
         OnReply, OnShutdownTrigger, OnShutdownRequest, OnUnsubscription, Transfer, Drop,
         registry
    <2>4. QED
      BY <1>2, <2>1, <2>2, <2>3 DEF Deliver
  <1>3. CASE \E a \in Actors : Create(a) \/ LinkSettles(a) \/ UserDeregisters(a)
                               \/ UserShutdown(a) \/ ClientsLeave(a)
    BY <1>1, <1>3 DEF Create, LinkSettles, LinkDone, LinkFails, UserDeregisters,
       UserShutdown, ClientsLeave, registry
  <1>4. CASE \E r \in Expires : RequestTimeout(r)
    BY <1>1, <1>4 DEF RequestTimeout, registry
  <1>5. CASE UNCHANGED vars
    BY <1>1, <1>5 DEF vars, registry
  <1>6. QED
    BY <1>2, <1>3, <1>4, <1>5 DEF Next

\* on_dereg_service() erases a name whoever asks, and registry_plugin_t does not
\* say whose it is; yet a name leaves its owner only when that owner was asked
\* to shut down: only the names that on_registration() found to be its own are
\* deregistered, once, and nobody gets a name that has an owner.  Actors that
\* deregister by a message of their own have names which no other registers.
THEOREM NamesKept == ASSUME ManualApart PROVE Spec => NamesAreKept
  <1>1. Inv /\ Kept /\ [Next]_vars => TakenBack
    BY Takes
  <1> DEFINE Step == \A n \in Names, a \in Actors \ Manual :
                        registered_map[n] = a /\ registered_map'[n] # a => a \in asked
  <1>2. Inv /\ Kept /\ [Next]_vars => [Step]_vars
    BY <1>1 DEF TakenBack
  <1>3. NamesAreKept <=> [][Step]_vars
    BY PTL DEF NamesAreKept
  <1> HIDE DEF Step
  <1>4. QED
    BY <1>2, <1>3, KeptAlways, PTL DEF Spec
=============================================================================

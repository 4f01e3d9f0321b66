----------------------------- MODULE LoopsProofs -----------------------------
(***************************************************************************)
(* Proofs about Loops for any number of pings and news: that the ev        *)
(* supervisor is held for as long as main() or a timer counts on it,       *)
(* provided that nobody speaks to it early; and that messages wait and are *)
(* taken in the order in which they were sent.                             *)
(***************************************************************************)
EXTENDS Loops, FiniteSetTheorems, TLAPS

\* What is started with: until the ev side has taken its first messages the
\* wake-up of supervisor_ev_t::start() is under way, and nothing else.
Starting ==
    /\ main \in {"starting", "ev_run"}
    /\ evRun \in {"loop", "move"}
    /\ watching
    /\ timers = {}
    /\ sent["asio"] = 0
    /\ asioRun # "signal" /\ asioQueue = <<>>
    /\ \A i \in 1 .. Len(strand) : strand[i].job = "start"

\* A pong answers a ping, which has an id.
Pinged(m) == m.kind \in {"ping", "pong"} => m.id > 0
AllPinged(s) == \A i \in 1 .. Len(s) : Pinged(s[i])
JobsPinged(s) == \A i \in 1 .. Len(s) : s[i].job = "message" => Pinged(s[i].message)
PingsHaveIds ==
    /\ AllPinged(queue) /\ AllPinged(inbound) /\ AllPinged(asioQueue)
    /\ JobsPinged(strand)

\* The wake-ups under way of a watcher that still is active.
One(b) == IF b THEN 1 ELSE 0
WakeUps == One(watching /\ signal) + One(watching /\ asioRun = "signal")

Inv ==
    /\ TypeOK
    /\ PingsHaveIds
    /\ main = "starting" => ~pending /\ ~signal /\ evRun = "loop"
    /\ main = "starting" \/ pending => Starting
    /\ waiting # 0 => waiting \in timers
    /\ evState = "SHUT_DOWN" /\ watching => evRun = "stop"
    /\ refs >= 1 + Cardinality(timers) + WakeUps

---------------------------------------------------------------------------
LEMMA MessageType ==
    ASSUME NEW kind \in Remote \cup Local, NEW id \in 0 .. Pings
    PROVE  /\ Message(kind, id) \in Messages
           /\ Message(kind, id).kind = kind /\ Message(kind, id).id = id
           /\ Message(kind, id).n = 0
  BY DEF Message, Messages

\* Messages without an id.
LEMMA Unasked ==
    ASSUME NEW kind \in (Remote \cup Local) \ {"ping", "pong"}
    PROVE  Message(kind, 0) \in Messages /\ Pinged(Message(kind, 0))
                /\ Message(kind, 0).kind = kind /\ Message(kind, 0).n = 0
  <1>1. 0 \in 0 .. Pings
    BY CountsAssumption
  <1>2. QED
    BY <1>1, MessageType DEF Pinged

LEMMA NumberedAs ==
    ASSUME sent \in [{"ev", "asio"} -> Nat], NEW l \in {"ev", "asio"}, NEW m \in Messages
    PROVE  /\ Numbered(m, l) \in Messages
           /\ Numbered(m, l).kind = m.kind /\ Numbered(m, l).id = m.id
           /\ Numbered(m, l).n = sent[l] + 1
           /\ CountsSent(l) => sent' \in [{"ev", "asio"} -> Nat]
  <1>1. sent \in [{"ev", "asio"} -> Nat]
    OBVIOUS
  <1>2. sent[l] \in Nat /\ sent[l] + 1 \in Nat
    BY <1>1
  <1>3. Numbered(m, l) = [kind |-> m.kind, id |-> m.id, n |-> sent[l] + 1]
    BY DEF Numbered, Messages
  <1>4. Numbered(m, l) \in Messages
    BY <1>2, <1>3 DEF Messages
  <1>5. CountsSent(l) => sent' \in [{"ev", "asio"} -> Nat]
    BY <1>1, <1>2 DEF CountsSent
  <1>6. QED
    BY <1>3, <1>4, <1>5

LEMMA NumberedType ==
    ASSUME TypeOK, NEW l \in {"ev", "asio"}, NEW m \in Messages
    PROVE  /\ Numbered(m, l) \in Messages
           /\ Numbered(m, l).kind = m.kind /\ Numbered(m, l).id = m.id
           /\ CountsSent(l) => sent' \in [{"ev", "asio"} -> Nat]
  BY NumberedAs DEF TypeOK

LEMMA JobType ==
    /\ \A m \in Messages : [job |-> "message", message |-> m] \in Jobs
    /\ [job |-> "start"] \in Jobs /\ [job |-> "shutdown"] \in Jobs
    /\ [job |-> "announce"] \in Jobs
    /\ \A j \in Jobs : j.job = "message" => j.message \in Messages
  BY DEF Jobs

\* Queues of messages, with what is taken off them and put behind them.
LEMMA QueueOf ==
    /\ <<>> \in Seq(Messages) /\ AllPinged(<<>>)
    /\ \A m \in Messages : /\ <<m>> \in Seq(Messages)
                           /\ Pinged(m) => AllPinged(<<m>>)
    /\ \A s \in Seq(Messages), m \in Messages :
            /\ Append(s, m) \in Seq(Messages)
            /\ AllPinged(s) /\ Pinged(m) => AllPinged(Append(s, m))
  <1>1. \A m \in Messages : <<m>> \in Seq(Messages) /\ Len(<<m>>) = 1 /\ <<m>>[1] = m
    OBVIOUS
  <1>2. \A m \in Messages : \A i \in 1 .. 1 : <<m>>[i] = m
    BY <1>1
  <1>3. ASSUME NEW s \in Seq(Messages), NEW m \in Messages, AllPinged(s), Pinged(m)
        PROVE  AllPinged(Append(s, m))
    <2> DEFINE r == Append(s, m)
    <2>1. /\ Len(r) = Len(s) + 1 /\ Len(s) \in Nat
          /\ r[Len(s) + 1] = m
          /\ \A i \in 1 .. Len(s) : r[i] = s[i]
      OBVIOUS
    <2> HIDE DEF r
    <2>2. \A i \in 1 .. Len(r) : i \in 1 .. Len(s) \/ i = Len(s) + 1
      BY <2>1
    <2>3. AllPinged(r)
      BY <1>3, <2>1, <2>2 DEF AllPinged
    <2>4. QED
      BY <2>3 DEF r
  <1>4. QED
    BY <1>1, <1>2, <1>3 DEF AllPinged

LEMMA FirstOf ==
    ASSUME NEW s \in Seq(Messages), s # <<>>
    PROVE  /\ Head(s) \in Messages /\ Tail(s) \in Seq(Messages)
           /\ AllPinged(s) => Pinged(Head(s)) /\ AllPinged(Tail(s))
  <1> DEFINE r == Tail(s)
  <1>1. /\ Head(s) \in Messages /\ r \in Seq(Messages)
        /\ Len(s) \in Nat /\ 1 \in 1 .. Len(s) /\ Len(r) = Len(s) - 1
        /\ Head(s) = s[1]
        /\ \A i \in 1 .. Len(r) : i + 1 \in 1 .. Len(s) /\ r[i] = s[i + 1]
    OBVIOUS
  <1> HIDE DEF r
  <1>2. AllPinged(s) => Pinged(Head(s)) /\ AllPinged(r)
    BY <1>1 DEF AllPinged
  <1>3. QED
    BY <1>1, <1>2 DEF r

LEMMA BothOf ==
    ASSUME NEW s \in Seq(Messages), NEW t \in Seq(Messages), AllPinged(s), AllPinged(t)
    PROVE  s \o t \in Seq(Messages) /\ AllPinged(s \o t)
  <1> DEFINE r == s \o t
  <1>1. /\ r \in Seq(Messages)
        /\ Len(s) \in Nat /\ Len(t) \in Nat /\ Len(r) = Len(s) + Len(t)
        /\ \A i \in 1 .. Len(s) : r[i] = s[i]
        /\ \A i \in 1 .. Len(t) : r[Len(s) + i] = t[i]
    OBVIOUS
  <1> HIDE DEF r
  <1>2. ASSUME NEW i \in 1 .. Len(r), i \notin 1 .. Len(s)
        PROVE  Pinged(r[i])
    <2>1. i - Len(s) \in 1 .. Len(t) /\ Len(s) + (i - Len(s)) = i
      BY <1>1, <1>2
    <2>2. r[i] = t[i - Len(s)]
      BY <1>1, <2>1
    <2>3. QED
      BY <2>1, <2>2 DEF AllPinged
  <1>3. AllPinged(r)
    BY <1>1, <1>2 DEF AllPinged
  <1>4. QED
    BY <1>1, <1>3 DEF r

\* Jobs of the strand.
LEMMA JobsBehind ==
    ASSUME NEW s \in Seq(Jobs), NEW j \in Jobs
    PROVE  /\ Append(s, j) \in Seq(Jobs)
           /\ JobsPinged(s) /\ (j.job = "message" => Pinged(j.message))
                => JobsPinged(Append(s, j))
  <1> DEFINE r == Append(s, j)
  <1>1. /\ r \in Seq(Jobs)
        /\ Len(r) = Len(s) + 1 /\ Len(s) \in Nat
        /\ r[Len(s) + 1] = j
        /\ \A i \in 1 .. Len(s) : r[i] = s[i]
    OBVIOUS
  <1> HIDE DEF r
  <1>2. \A i \in 1 .. Len(r) : i \in 1 .. Len(s) \/ i = Len(s) + 1
    BY <1>1
  <1>3. JobsPinged(s) /\ (j.job = "message" => Pinged(j.message)) => JobsPinged(r)
    BY <1>1, <1>2 DEF JobsPinged
  <1>4. QED
    BY <1>1, <1>3 DEF r

LEMMA FirstJob ==
    ASSUME NEW s \in Seq(Jobs), s # <<>>
    PROVE  /\ Head(s) \in Jobs /\ Tail(s) \in Seq(Jobs)
           /\ JobsPinged(s) => JobsPinged(Tail(s))
           /\ JobsPinged(s) /\ Head(s).job = "message" =>
                Head(s).message \in Messages /\ Pinged(Head(s).message)
           /\ (\A i \in 1 .. Len(s) : s[i].job = "start") =>
                /\ Head(s).job = "start"
                /\ \A i \in 1 .. Len(Tail(s)) : Tail(s)[i].job = "start"
  <1> DEFINE r == Tail(s)
             h == Head(s)
  <1>1. /\ h \in Jobs /\ r \in Seq(Jobs)
        /\ Len(s) \in Nat /\ 1 \in 1 .. Len(s) /\ Len(r) = Len(s) - 1
        /\ h = s[1]
        /\ \A i \in 1 .. Len(r) : i + 1 \in 1 .. Len(s) /\ r[i] = s[i + 1]
    OBVIOUS
  <1> HIDE DEF r, h
  <1>2. JobsPinged(s) => JobsPinged(r)
    BY <1>1 DEF JobsPinged
  <1>3. JobsPinged(s) /\ h.job = "message" => h.message \in Messages /\ Pinged(h.message)
    BY <1>1, JobType DEF JobsPinged
  <1>4. (\A i \in 1 .. Len(s) : s[i].job = "start") =>
            h.job = "start" /\ \A i \in 1 .. Len(r) : r[i].job = "start"
    BY <1>1
  <1>5. QED
    BY <1>1, <1>2, <1>3, <1>4 DEF r, h

---------------------------------------------------------------------------
LEMMA TimersFinite == TypeOK => IsFiniteSet(timers) /\ Cardinality(timers) \in Nat
  <1>1. IsFiniteSet(Ids)
    BY CountsAssumption, FS_Interval DEF Ids
  <1>2. QED
    BY <1>1, FS_Subset, FS_CardinalityType DEF TypeOK

\* What the invariant says of the references.
LEMMA Held ==
    Inv => /\ refs \in Nat
           /\ refs >= 1 + Cardinality(timers) + WakeUps
           /\ WakeUps \in Nat
           /\ IsFiniteSet(timers) /\ Cardinality(timers) \in Nat
  BY TimersFinite DEF Inv, TypeOK, WakeUps, One

\* A ping takes a reference for its timer.
LEMMA SendPingHolds ==
    ASSUME Inv, NEW rest \in Seq(Messages), AllPinged(rest),
           NEW current \in SUBSET timers, NEW count \in Nat,
           count >= 1 + Cardinality(current) + WakeUps,
           SendPing(rest, current, count)
    PROVE  /\ queue' \in Seq(Messages) /\ AllPinged(queue')
           /\ pings_left' \in 0 .. Pings /\ waiting' \in 0 .. Pings
           /\ timers' \subseteq Ids /\ refs' \in Nat
           /\ waiting' # 0 => waiting' \in timers'
           /\ refs' >= 1 + Cardinality(timers') + WakeUps
  <1>1. pings_left \in 0 .. Pings /\ timers \subseteq Ids /\ Pings \in Nat
    BY CountsAssumption DEF Inv, TypeOK
  <1>2. /\ IsFiniteSet(current) /\ Cardinality(current) \in Nat
        /\ WakeUps \in Nat
    BY TimersFinite, FS_Subset, FS_CardinalityType DEF Inv, WakeUps, One
  <1>3. CASE pings_left > 0
    <2> DEFINE id == Pings - pings_left + 1
    <2>1. /\ pings_left' = pings_left - 1 /\ waiting' = id
          /\ queue' = Append(rest, Message("ping", id))
          /\ timers' = current \cup {id}
          /\ refs' = count + 1
      BY <1>3 DEF SendPing, StartsTimer
    <2>2. id \in 1 .. Pings /\ id \in 0 .. Pings /\ id > 0
      BY <1>1, <1>3
    <2> HIDE DEF id
    <2>3. Message("ping", id) \in Messages /\ Pinged(Message("ping", id))
      BY <2>2, MessageType DEF Remote, Pinged
    <2>4. queue' \in Seq(Messages) /\ AllPinged(queue')
      BY <2>1, <2>3, QueueOf
    <2>5. Cardinality(timers') \in {Cardinality(current), Cardinality(current) + 1}
      BY <1>2, <2>1, FS_AddElement
    <2>6. refs' >= 1 + Cardinality(timers') + WakeUps /\ refs' \in Nat
      BY <1>2, <2>1, <2>5
    <2>7. timers' \subseteq Ids /\ waiting' \in timers' /\ waiting' \in 0 .. Pings
      BY <1>1, <2>1, <2>2 DEF Ids
    <2>8. pings_left' \in 0 .. Pings
      BY <1>1, <1>3, <2>1
    <2>9. QED
      BY <2>4, <2>6, <2>7, <2>8
  <1>4. CASE ~(pings_left > 0)
    <2>1. /\ queue' = Append(rest, Message("leave", 0))
          /\ timers' = current /\ refs' = count /\ waiting' = 0 /\ pings_left' = pings_left
      BY <1>4 DEF SendPing, StartsTimer
    <2>2. Message("leave", 0) \in Messages /\ Pinged(Message("leave", 0))
      BY Unasked DEF Local
    <2>3. queue' \in Seq(Messages) /\ AllPinged(queue')
      BY <2>1, <2>2, QueueOf
    <2>4. QED
      BY <1>1, <2>1, <2>3
  <1>5. QED
    BY <1>3, <1>4

---------------------------------------------------------------------------
LEMMA InitInv == Init => Inv
  <1> SUFFICES ASSUME Init PROVE Inv
    OBVIOUS
  <1>1. Message("go", 0) \in Messages /\ Pinged(Message("go", 0))
    BY Unasked DEF Local
  <1>2. queue \in Seq(Messages) /\ AllPinged(queue)
    BY <1>1, QueueOf DEF Init
  <1>3. /\ strand = <<[job |-> "start"]>> /\ [job |-> "start"] \in Jobs
    BY JobType DEF Init
  <1>4. /\ strand \in Seq(Jobs) /\ Len(strand) = 1
        /\ \A i \in 1 .. Len(strand) : strand[i].job = "start"
    BY <1>3
  <1>5. PingsHaveIds
    BY <1>2, <1>4, QueueOf DEF Init, PingsHaveIds, JobsPinged
  <1>6. TypeOK
    <2>1. refs \in Nat /\ pings_left \in 0 .. Pings /\ waiting \in 0 .. Pings
          /\ announced \in 0 .. News /\ timers \subseteq Ids
      BY CountsAssumption DEF Init
    <2>2. sent \in [{"ev", "asio"} -> Nat]
      BY DEF Init
    <2>3. inbound \in Seq(Messages) /\ asioQueue \in Seq(Messages)
      BY QueueOf DEF Init
    <2>4. {pending, signal, watching, guard, linked} \subseteq BOOLEAN
      BY DEF Init
    <2>5. QED
      BY <1>2, <1>4, <2>1, <2>2, <2>3, <2>4 DEF Init, TypeOK
  <1>7. Cardinality(timers) = 0 /\ WakeUps = 0
    BY FS_EmptySet DEF Init, WakeUps, One
  <1>8. QED
    BY <1>4, <1>5, <1>6, <1>7 DEF Init, Inv, Starting

LEMMA StartsInv == ASSUME Inv, Starts PROVE Inv'
  <1>1. /\ main = "starting" /\ main' = "ev_run"
        /\ refs' = refs + 1 /\ pending' /\ signal'
        /\ pending' = TRUE /\ signal' = TRUE
        /\ UNCHANGED <<evState, evRun, inbound, watching, queue, timers, asioState, asioRun,
                       strand, asioQueue, guard, pings_left, waiting, linked, announced, sent>>
    BY DEF Inv, Starts, EvStart, asioVars
  <1>2. TypeOK'
    BY <1>1 DEF Inv, TypeOK
  <1>3. PingsHaveIds'
    BY <1>1 DEF Inv, PingsHaveIds, AllPinged, JobsPinged
  <1>4. Starting'
    BY <1>1 DEF Inv, Starting
  <1>5. /\ refs' >= 1 + Cardinality(timers') + WakeUps'
    BY <1>1, TimersFinite DEF Inv, TypeOK, WakeUps, One
  <1>6. QED
    BY <1>1, <1>2, <1>3, <1>4, <1>5 DEF Inv

LEMMA OnAsyncInv == ASSUME Inv, OnAsync PROVE Inv'
  <1>1. /\ main = "ev_run" /\ evRun = "loop" /\ signal /\ watching
        /\ signal' = FALSE /\ refs' = refs - 1 /\ evRun' = "move"
        /\ UNCHANGED <<main, evState, inbound, pending, watching, queue, timers, asioState,
                       asioRun, strand, asioQueue, guard, pings_left, waiting, linked,
                       announced, sent>>
    BY DEF OnAsync, asioVars
  <1>2. /\ refs' >= 1 + Cardinality(timers') + WakeUps' /\ refs' \in Nat
    BY <1>1, TimersFinite DEF Inv, TypeOK, WakeUps, One
  <1>3. TypeOK'
    BY <1>1, <1>2 DEF Inv, TypeOK
  <1>4. PingsHaveIds'
    BY <1>1 DEF Inv, PingsHaveIds, AllPinged, JobsPinged
  <1>5. Starting => Starting'
    BY <1>1 DEF Starting
  <1>6. QED
    BY <1>1, <1>2, <1>3, <1>4, <1>5 DEF Inv

LEMMA MoveInboundInv == ASSUME Inv, MoveInbound PROVE Inv'
  <1>1. /\ evRun \in {"move", "drain"}
        /\ queue' = queue \o inbound
        /\ inbound' = SubSeq(inbound, Len(inbound) + 1, Len(inbound))
        /\ pending' = FALSE /\ evRun' = "process"
        /\ UNCHANGED <<main, evState, refs, signal, watching, timers, asioState, asioRun,
                       strand, asioQueue, guard, pings_left, waiting, linked, announced, sent>>
    BY DEF MoveInbound, Taken, Left, asioVars
  <1>2. /\ queue \in Seq(Messages) /\ inbound \in Seq(Messages)
        /\ AllPinged(queue) /\ AllPinged(inbound)
    BY DEF Inv, TypeOK, PingsHaveIds
  <1>3. queue' \in Seq(Messages) /\ AllPinged(queue')
    BY <1>1, <1>2, BothOf
  <1>4. inbound' = <<>>
    BY <1>1, <1>2
  <1>5. TypeOK'
    BY <1>1, <1>3, <1>4, QueueOf DEF Inv, TypeOK
  <1>6. PingsHaveIds'
    BY <1>1, <1>3, <1>4, QueueOf DEF Inv, PingsHaveIds, JobsPinged, AllPinged
  <1>7. refs' >= 1 + Cardinality(timers') + WakeUps'
    BY <1>1 DEF Inv, WakeUps, One
  <1>8. QED
    BY <1>1, <1>5, <1>6, <1>7 DEF Inv

LEMMA TimerCbInv == ASSUME Inv, NEW id \in Ids, TimerCb(id) PROVE Inv'
  <1>1. /\ main = "ev_run" /\ evRun = "loop" /\ id \in timers
        /\ timers' = timers \ {id} /\ refs' = refs - 1 /\ waiting' = 0
        /\ queue' = Append(queue, Message("error", id))
        /\ evRun' = "process"
        /\ UNCHANGED <<main, evState, inbound, pending, signal, watching, asioState, asioRun,
                       strand, asioQueue, guard, pings_left, linked, announced, sent>>
    BY DEF TimerCb, asioVars
  <1>2. main # "starting" /\ ~pending
    BY <1>1 DEF Inv, Starting
  <1>3. Message("error", id) \in Messages /\ Pinged(Message("error", id))
    <2>1. id \in 0 .. Pings
      BY CountsAssumption DEF Ids
    <2>2. QED
      BY <2>1, MessageType DEF Local, Pinged
  <1>4. queue' \in Seq(Messages) /\ AllPinged(queue')
    BY <1>1, <1>3, QueueOf DEF Inv, TypeOK, PingsHaveIds
  <1>5. refs' \in Nat /\ refs' >= 1 + Cardinality(timers') + WakeUps'
    <2>1. WakeUps' = WakeUps /\ WakeUps \in Nat
      BY <1>1 DEF WakeUps, One
    <2>2. IsFiniteSet(timers) /\ Cardinality(timers) \in Nat
      BY TimersFinite DEF Inv
    <2>3. IsFiniteSet(timers') /\ Cardinality(timers') = Cardinality(timers) - 1
      BY <1>1, <2>2, FS_RemoveElement
    <2>4. Cardinality(timers') \in Nat
      BY <2>3, FS_CardinalityType
    <2>5. QED
      BY <1>1, <2>1, <2>3, <2>4, Held
  <1>6. TypeOK'
    <2>1. waiting' \in 0 .. Pings /\ timers' \subseteq Ids
      BY <1>1, CountsAssumption DEF Inv, TypeOK
    <2>2. QED
      BY <1>1, <1>4, <1>5, <2>1 DEF Inv, TypeOK
  <1>7. PingsHaveIds'
    BY <1>1, <1>4 DEF Inv, PingsHaveIds, AllPinged, JobsPinged
  <1>8. QED
    BY <1>1, <1>2, <1>5, <1>6, <1>7 DEF Inv

\* While the ev supervisor processes messages it has spoken already.
LEMMA Running ==
    ASSUME Inv, evRun = "process"
    PROVE  /\ TypeOK /\ main # "starting" /\ ~pending
           /\ evState = "SHUT_DOWN" => ~watching
           /\ queue # <<>> =>
                /\ Head(queue) \in Messages /\ Tail(queue) \in Seq(Messages)
                /\ Pinged(Head(queue)) /\ AllPinged(Tail(queue))
  <1>1. queue # <<>> =>
                /\ Head(queue) \in Messages /\ Tail(queue) \in Seq(Messages)
                /\ Pinged(Head(queue)) /\ AllPinged(Tail(queue))
    BY FirstOf DEF Inv, TypeOK, PingsHaveIds
  <1>2. QED
    BY <1>1 DEF Inv, Starting

\* The handlers of the pinger that may send a ping.
LEMMA PingerInv == ASSUME Inv, Process, OnStart \/ OnPong PROVE Inv'
  <1>1. /\ evRun = "process" /\ queue # <<>>
        /\ UNCHANGED <<main, pending, watching, asioState, asioRun, asioQueue, guard, announced>>
        /\ UNCHANGED <<evState, evRun, inbound, signal, strand, linked, sent>>
    BY DEF Process, OnStart, OnPong
  <1>2. /\ TypeOK /\ main # "starting" /\ ~pending
        /\ Head(queue) \in Messages /\ Tail(queue) \in Seq(Messages)
        /\ Pinged(Head(queue)) /\ AllPinged(Tail(queue))
    BY <1>1, Running
  <1>3. WakeUps' = WakeUps /\ WakeUps \in Nat
    BY <1>1 DEF WakeUps, One
  <1>4. /\ queue' \in Seq(Messages) /\ AllPinged(queue')
        /\ pings_left' \in 0 .. Pings /\ waiting' \in 0 .. Pings
        /\ timers' \subseteq Ids /\ refs' \in Nat
        /\ waiting' # 0 => waiting' \in timers'
        /\ refs' >= 1 + Cardinality(timers') + WakeUps
    <2>1. CASE OnStart
      <3>1. SendPing(Tail(queue), timers, refs)
        BY <2>1 DEF OnStart
      <3>2. refs \in Nat /\ refs >= 1 + Cardinality(timers) + WakeUps
        BY DEF Inv, TypeOK
      <3>3. QED
        BY <1>2, <3>1, <3>2, SendPingHolds
    <2>2. CASE OnPong /\ Head(queue).id = waiting
      <3>1. /\ SendPing(Tail(queue), timers \ {waiting}, refs - 1)
            /\ Head(queue).kind = "pong"
        BY <2>2 DEF OnPong
      <3>2. waiting \in timers
        BY <1>2, <2>2, <3>1 DEF Inv, Pinged
      <3>3. IsFiniteSet(timers) /\ Cardinality(timers) \in Nat
        BY <1>2, TimersFinite
      <3>4. Cardinality(timers \ {waiting}) = Cardinality(timers) - 1
        BY <3>2, <3>3, FS_RemoveElement
      <3>5. Cardinality(timers \ {waiting}) \in Nat
        BY <3>3, FS_RemoveElement, FS_CardinalityType
      <3>6. refs - 1 \in Nat /\ refs - 1 >= 1 + Cardinality(timers \ {waiting}) + WakeUps
        BY <1>3, <3>4, <3>5, Held
      <3>7. QED
        BY <1>2, <3>1, <3>6, SendPingHolds
    <2>3. CASE OnPong /\ Head(queue).id # waiting
      <3>1. queue' = Tail(queue) /\ UNCHANGED <<pings_left, waiting, timers, refs>>
        BY <2>3 DEF OnPong
      <3>2. /\ pings_left \in 0 .. Pings /\ waiting \in 0 .. Pings /\ timers \subseteq Ids
            /\ waiting # 0 => waiting \in timers
        BY <1>2 DEF Inv, TypeOK
      <3>3. QED
        BY <1>2, <3>1, <3>2, Held
    <2>4. QED
      BY <2>1, <2>2, <2>3
  <1>5. TypeOK'
    BY <1>1, <1>2, <1>4 DEF TypeOK
  <1>6. PingsHaveIds'
    BY <1>1, <1>4 DEF Inv, PingsHaveIds, AllPinged, JobsPinged
  <1>7. QED
    BY <1>1, <1>2, <1>3, <1>4, <1>5, <1>6 DEF Inv

\* Those that leave the pinger's request alone.
LEMMA OtherHandlersInv ==
    ASSUME Inv, Process, OnNews \/ OnTrigger \/ ShutdownFinish \/ ToPonger \/ OnLeave
    PROVE  Inv'
  <1>1. /\ evRun = "process" /\ queue # <<>>
        /\ UNCHANGED <<main, pending, watching, asioState, asioRun, asioQueue, guard, announced>>
        /\ UNCHANGED <<linked, pings_left, waiting, timers>>
    BY DEF Process, OnNews, OnTrigger, ShutdownFinish, ToPonger, OnLeave
  <1> DEFINE m == Head(queue)
             rest == Tail(queue)
  <1>2. /\ TypeOK /\ main # "starting" /\ ~pending
        /\ m \in Messages /\ rest \in Seq(Messages) /\ Pinged(m) /\ AllPinged(rest)
        /\ evState = "SHUT_DOWN" => ~watching
    BY <1>1, Running
  <1>3. IsFiniteSet(timers) /\ Cardinality(timers) \in Nat
    BY <1>2, TimersFinite
  <1>4. CASE OnNews \/ OnTrigger \/ ShutdownFinish
    <2>1. /\ UNCHANGED <<inbound, signal, strand, sent, refs>>
          /\ queue' = rest \/ queue' = Append(rest, Message("end", 0))
          /\ \/ UNCHANGED <<evState, evRun>>
             \/ evState' = "SHUT_DOWN" /\ evRun' = "stop"
      BY <1>4 DEF OnNews, OnTrigger, ShutdownFinish
    <2>2. Message("end", 0) \in Messages /\ Pinged(Message("end", 0))
      BY Unasked DEF Local
    <2> HIDE DEF m, rest
    <2>3. queue' \in Seq(Messages) /\ AllPinged(queue')
      BY <1>2, <2>1, <2>2, QueueOf
    <2>4. TypeOK'
      BY <1>1, <1>2, <2>1, <2>3 DEF TypeOK
    <2>5. PingsHaveIds'
      BY <1>1, <2>1, <2>3 DEF Inv, PingsHaveIds, AllPinged, JobsPinged
    <2>6. WakeUps' = WakeUps
      BY <1>1, <2>1 DEF WakeUps, One
    <2>7. QED
      BY <1>1, <1>2, <2>1, <2>4, <2>5, <2>6 DEF Inv
  <1>5. CASE ToPonger
    <2> DEFINE job == [job |-> "message", message |-> Numbered(m, "asio")]
    <2>1. /\ UNCHANGED <<evState, evRun, inbound, signal, refs>>
          /\ queue' = rest
          /\ CountsSent("asio") /\ strand' = Append(strand, job)
      BY <1>5 DEF ToPonger, AsioEnqueue
    <2>2. /\ Numbered(m, "asio") \in Messages /\ Pinged(Numbered(m, "asio"))
          /\ sent' \in [{"ev", "asio"} -> Nat]
      BY <1>2, <2>1, NumberedType DEF Pinged
    <2>3. job \in Jobs /\ job.job = "message" /\ Pinged(job.message)
      BY <2>2, JobType
    <2> HIDE DEF job
    <2>4. strand' \in Seq(Jobs) /\ JobsPinged(strand')
      BY <2>1, <2>3, JobsBehind DEF Inv, TypeOK, PingsHaveIds
    <2> HIDE DEF m, rest
    <2>5. TypeOK'
      BY <1>1, <1>2, <2>1, <2>2, <2>4 DEF TypeOK
    <2>6. PingsHaveIds'
      BY <1>1, <1>2, <2>1, <2>4 DEF Inv, PingsHaveIds, AllPinged
    <2>7. WakeUps' = WakeUps
      BY <1>1, <2>1 DEF WakeUps, One
    <2>8. QED
      BY <1>1, <1>2, <2>1, <2>5, <2>6, <2>7 DEF Inv
  <1>6. CASE OnLeave
    <2> DEFINE trigger == Numbered(Message("trigger", 0), "ev")
    <2>1. /\ queue' = Append(rest, Message("notice", 0))
          /\ CountsSent("ev")
          /\ \/ evState # "SHUT_DOWN" /\ inbound' = Append(inbound, trigger) /\ refs' = refs + 1
             \/ evState = "SHUT_DOWN" /\ UNCHANGED <<inbound, refs>>
          /\ signal' = TRUE
          /\ UNCHANGED <<evState, evRun, strand>>
      BY <1>2, <1>6 DEF OnLeave, EvEnqueue, Accepts, TakesReference
    <2>2. /\ Message("notice", 0) \in Messages /\ Pinged(Message("notice", 0))
          /\ Message("trigger", 0) \in Messages /\ Message("trigger", 0).kind = "trigger"
      BY Unasked DEF Remote
    <2>3. /\ trigger \in Messages /\ Pinged(trigger)
          /\ sent' \in [{"ev", "asio"} -> Nat]
      BY <1>2, <2>1, <2>2, NumberedType DEF Pinged
    <2> HIDE DEF m, rest, trigger
    <2>4. queue' \in Seq(Messages) /\ AllPinged(queue')
      BY <1>2, <2>1, <2>2, QueueOf
    <2>5. inbound' \in Seq(Messages) /\ AllPinged(inbound')
      BY <2>1, <2>3, QueueOf DEF Inv, TypeOK, PingsHaveIds
    <2>6. refs' \in Nat /\ refs' >= 1 + Cardinality(timers') + WakeUps'
      <3>1. CASE evState # "SHUT_DOWN"
        <4>1. refs' = refs + 1
          BY <2>1, <3>1
        <4>2. WakeUps' \in {WakeUps, WakeUps + 1}
          BY <1>1, <2>1 DEF WakeUps, One
        <4>3. QED
          BY <1>1, <4>1, <4>2, Held
      <3>2. CASE evState = "SHUT_DOWN"
        <4>1. refs' = refs /\ WakeUps' = 0
          BY <1>1, <1>2, <2>1, <3>2 DEF WakeUps, One
        <4>2. QED
          BY <1>1, <4>1, Held
      <3>3. QED
        BY <3>1, <3>2
    <2>7. TypeOK'
      BY <1>1, <1>2, <2>1, <2>3, <2>4, <2>5, <2>6 DEF TypeOK
    <2>8. PingsHaveIds'
      BY <1>1, <2>1, <2>4, <2>5 DEF Inv, PingsHaveIds, JobsPinged, AllPinged
    <2>9. QED
      BY <1>1, <1>2, <2>1, <2>6, <2>7, <2>8 DEF Inv
  <1>7. QED
    BY <1>4, <1>5, <1>6

LEMMA ProcessedInv == ASSUME Inv, Processed PROVE Inv'
  <1>1. /\ evRun = "process" /\ evRun' = "loop"
        /\ UNCHANGED <<main, evState, refs, inbound, pending, signal, watching, queue, timers,
                       asioState, asioRun, strand, asioQueue, guard, pings_left, waiting,
                       linked, announced, sent>>
    BY DEF Processed, asioVars
  <1>2. /\ TypeOK /\ main # "starting" /\ ~pending
        /\ evState = "SHUT_DOWN" => ~watching
    BY <1>1, Running
  <1>3. TypeOK' /\ PingsHaveIds' /\ WakeUps' = WakeUps
    BY <1>1, <1>2 DEF Inv, TypeOK, PingsHaveIds, AllPinged, JobsPinged, WakeUps, One
  <1>4. QED
    BY <1>1, <1>2, <1>3 DEF Inv

LEMMA StopInv == ASSUME Inv, Stop PROVE Inv'
  <1>1. /\ evRun = "stop" /\ evRun' = "drain" /\ watching' = FALSE /\ signal' = FALSE
        /\ UNCHANGED <<main, evState, refs, inbound, pending, queue, timers,
                       asioState, asioRun, strand, asioQueue, guard, pings_left, waiting,
                       linked, announced, sent>>
    BY DEF Stop, asioVars
  <1>2. main # "starting" /\ ~pending
    BY <1>1 DEF Inv, Starting
  <1>3. TypeOK' /\ PingsHaveIds'
    BY <1>1, <1>2 DEF Inv, TypeOK, PingsHaveIds, AllPinged, JobsPinged
  <1>4. refs' >= 1 + Cardinality(timers') + WakeUps'
    BY <1>1, TimersFinite DEF Inv, TypeOK, WakeUps, One
  <1>5. QED
    BY <1>1, <1>2, <1>3, <1>4 DEF Inv

---------------------------------------------------------------------------
LEMMA RunJobInv == ASSUME Inv, RunJob PROVE Inv'
  <1> DEFINE j == Head(strand)
  <1>1. /\ main # "starting" /\ asioRun = "idle" /\ strand # <<>>
        /\ strand' = Tail(strand) /\ asioRun' = "process"
        /\ \/ j.job = "message" /\ asioQueue' = <<j.message>>
           \/ j.job = "announce" /\ asioQueue' = <<Message("news", 0)>>
           \/ asioQueue' = <<>>
        /\ j.job = "start" => asioQueue' = <<>>
        /\ asioState' \in {"OPERATIONAL", "SHUTTING_DOWN", "SHUT_DOWN", asioState}
        /\ guard' \in BOOLEAN
        /\ UNCHANGED <<main, evState, evRun, refs, inbound, pending, signal, watching, queue,
                       timers, pings_left, waiting, linked, announced, sent>>
    BY DEF RunJob, evVars
  <1>2. /\ j \in Jobs /\ strand' \in Seq(Jobs) /\ JobsPinged(strand')
        /\ j.job = "message" => j.message \in Messages /\ Pinged(j.message)
        /\ (\A i \in 1 .. Len(strand) : strand[i].job = "start") =>
                /\ j.job = "start"
                /\ \A i \in 1 .. Len(strand') : strand'[i].job = "start"
    BY <1>1, FirstJob DEF Inv, TypeOK, PingsHaveIds
  <1> HIDE DEF j
  <1>3. asioQueue' \in Seq(Messages) /\ AllPinged(asioQueue')
    <2>1. Message("news", 0) \in Messages /\ Pinged(Message("news", 0))
      BY Unasked DEF Remote
    <2>2. QED
      BY <1>1, <1>2, <2>1, QueueOf
  <1>4. TypeOK'
    BY <1>1, <1>2, <1>3 DEF Inv, TypeOK
  <1>5. PingsHaveIds'
    BY <1>1, <1>2, <1>3 DEF Inv, PingsHaveIds, AllPinged
  <1>6. Starting => Starting'
    BY <1>1, <1>2 DEF Starting
  <1>7. WakeUps' = WakeUps
    BY <1>1 DEF WakeUps, One
  <1>8. QED
    BY <1>1, <1>4, <1>5, <1>6, <1>7 DEF Inv

LEMMA AsioProcessInv == ASSUME Inv, AsioProcess PROVE Inv'
  <1> DEFINE m == Head(asioQueue)
             rest == Tail(asioQueue)
  <1>1. /\ asioRun = "process" /\ asioQueue # <<>>
        /\ UNCHANGED <<main, evState, evRun, pending, signal, watching, queue, timers, strand,
                       pings_left, waiting, announced>>
    BY DEF AsioProcess
  <1>2. /\ TypeOK /\ main # "starting" /\ ~pending
        /\ evState = "SHUT_DOWN" /\ watching => evRun = "stop"
    BY <1>1 DEF Inv, Starting
  <1>3. /\ m \in Messages /\ rest \in Seq(Messages) /\ Pinged(m) /\ AllPinged(rest)
    BY <1>1, FirstOf DEF Inv, TypeOK, PingsHaveIds
  <1>4. CASE OnPing
    <2>1. /\ m.kind = "ping"
          /\ asioQueue' = rest \/ asioQueue' = Append(rest, Message("pong", m.id))
          /\ UNCHANGED <<refs, inbound, asioState, asioRun, guard, linked, sent>>
      BY <1>4 DEF OnPing
    <2>2. m.id \in 0 .. Pings /\ m.id > 0
      BY <1>3, <2>1 DEF Messages, Pinged
    <2> HIDE DEF m, rest
    <2>3. Message("pong", m.id) \in Messages /\ Pinged(Message("pong", m.id))
      BY <2>2, MessageType DEF Remote, Pinged
    <2>4. asioQueue' \in Seq(Messages) /\ AllPinged(asioQueue')
      BY <1>3, <2>1, <2>3, QueueOf
    <2>5. TypeOK'
      BY <1>1, <1>2, <2>1, <2>4 DEF TypeOK
    <2>6. PingsHaveIds' /\ WakeUps' = WakeUps
      BY <1>1, <2>1, <2>4 DEF Inv, PingsHaveIds, AllPinged, JobsPinged, WakeUps, One
    <2>7. QED
      BY <1>1, <1>2, <2>1, <2>5, <2>6 DEF Inv
  <1>5. CASE OnNotice
    <2>1. /\ asioQueue' = rest /\ linked' = FALSE
          /\ asioState' \in {asioState, "SHUT_DOWN"} /\ guard' \in BOOLEAN
          /\ UNCHANGED <<refs, inbound, asioRun, sent>>
      BY <1>5 DEF OnNotice
    <2> HIDE DEF m, rest
    <2>2. TypeOK'
      BY <1>1, <1>2, <1>3, <2>1 DEF TypeOK
    <2>3. PingsHaveIds' /\ WakeUps' = WakeUps
      BY <1>1, <1>3, <2>1 DEF Inv, PingsHaveIds, AllPinged, JobsPinged, WakeUps, One
    <2>4. QED
      BY <1>1, <1>2, <2>1, <2>2, <2>3 DEF Inv
  <1>6. CASE ToPinger
    <2> DEFINE n == Numbered(m, "ev")
    <2>1. /\ asioQueue' = rest /\ CountsSent("ev")
          /\ \/ /\ inbound' = Append(inbound, n) /\ refs' = refs + 1 /\ asioRun' = "signal"
             \/ UNCHANGED <<inbound, refs, asioRun>>
          /\ UNCHANGED <<asioState, guard, linked>>
      BY <1>2, <1>6 DEF ToPinger, EvEnqueue, Accepts, TakesReference
    <2>2. /\ n \in Messages /\ Pinged(n)
          /\ sent' \in [{"ev", "asio"} -> Nat]
      BY <1>2, <1>3, <2>1, NumberedType DEF Pinged
    <2> HIDE DEF m, rest, n
    <2>3. inbound' \in Seq(Messages) /\ AllPinged(inbound')
      BY <2>1, <2>2, QueueOf DEF Inv, TypeOK, PingsHaveIds
    <2>4. refs' \in Nat /\ refs' >= 1 + Cardinality(timers') + WakeUps'
      <3>1. \/ refs' = refs + 1 /\ WakeUps' \in {WakeUps, WakeUps + 1}
            \/ refs' = refs /\ WakeUps' = WakeUps
        BY <1>1, <2>1 DEF WakeUps, One
      <3>2. QED
        BY <1>1, <3>1, Held
    <2>5. TypeOK'
      BY <1>1, <1>2, <1>3, <2>1, <2>2, <2>3, <2>4 DEF TypeOK
    <2>6. PingsHaveIds'
      BY <1>1, <1>3, <2>1, <2>3 DEF Inv, PingsHaveIds, JobsPinged, AllPinged
    <2>7. QED
      BY <1>1, <1>2, <2>1, <2>4, <2>5, <2>6 DEF Inv
  <1>7. QED
    BY <1>4, <1>5, <1>6 DEF AsioProcess

LEMMA AsyncSendInv == ASSUME Inv, AsyncSend PROVE Inv'
  <1>1. /\ asioRun = "signal" /\ signal' = watching /\ asioRun' = "process"
        /\ UNCHANGED <<main, evState, evRun, refs, inbound, pending, watching, queue, timers,
                       asioState, strand, asioQueue, guard, pings_left, waiting, linked,
                       announced, sent>>
    BY DEF AsyncSend, Woken
  <1>2. main # "starting" /\ ~pending
    BY <1>1 DEF Inv, Starting
  <1>3. TypeOK'
    BY <1>1 DEF Inv, TypeOK
  <1>4. PingsHaveIds'
    BY <1>1 DEF Inv, PingsHaveIds, JobsPinged, AllPinged
  <1>5. refs' >= 1 + Cardinality(timers') + WakeUps'
    <2>1. WakeUps' \in {WakeUps, WakeUps - 1}
      BY <1>1 DEF WakeUps, One
    <2>2. QED
      BY <1>1, <2>1, Held
  <1>6. QED
    BY <1>1, <1>2, <1>3, <1>4, <1>5 DEF Inv

LEMMA AsioProcessedInv == ASSUME Inv, AsioProcessed PROVE Inv'
  <1>1. /\ asioRun = "process" /\ asioRun' = "idle"
        /\ UNCHANGED <<main, evState, evRun, refs, inbound, pending, signal, watching, queue,
                       timers, asioState, strand, asioQueue, guard, pings_left, waiting, linked,
                       announced, sent>>
    BY DEF AsioProcessed, evVars
  <1>2. TypeOK' /\ PingsHaveIds' /\ WakeUps' = WakeUps
    BY <1>1 DEF Inv, TypeOK, PingsHaveIds, JobsPinged, AllPinged, WakeUps, One
  <1>3. Starting => Starting'
    BY <1>1 DEF Starting
  <1>4. QED
    BY <1>1, <1>2, <1>3 DEF Inv

\* A job more on the strand, when the ev side has spoken.
LEMMA JobInv ==
    ASSUME Inv, main # "starting", ~pending, main' # "starting", TypeOK',
           NEW j \in Jobs, j.job # "message", strand' = Append(strand, j),
           UNCHANGED <<evState, evRun, refs, inbound, pending, signal, watching, queue,
                       timers, asioState, asioRun, asioQueue, guard, pings_left, waiting,
                       linked, sent>>
    PROVE  Inv'
  <1>1. JobsPinged(strand')
    BY JobsBehind DEF Inv, TypeOK, PingsHaveIds
  <1>2. PingsHaveIds' /\ WakeUps' = WakeUps
    BY <1>1 DEF Inv, PingsHaveIds, AllPinged, WakeUps, One
  <1>3. QED
    BY <1>2 DEF Inv

LEMMA AnnounceInv == ASSUME ~Early, Inv, Announce PROVE Inv'
  <1>1. /\ announced < News /\ sent["asio"] > 0
        /\ announced' = announced + 1
        /\ strand' = Append(strand, [job |-> "announce"])
        /\ UNCHANGED <<main, evState, evRun, refs, inbound, pending, signal, watching, queue,
                       timers, asioState, asioRun, asioQueue, guard, pings_left, waiting,
                       linked, sent>>
    BY DEF Announce, evVars
  <1>2. main # "starting" /\ ~pending
    BY <1>1 DEF Inv, Starting
  <1>3. strand' \in Seq(Jobs) /\ announced' \in 0 .. News
    BY <1>1, JobType, JobsBehind, CountsAssumption DEF Inv, TypeOK
  <1>4. TypeOK'
    BY <1>1, <1>3 DEF Inv, TypeOK
  <1>5. QED
    BY <1>1, <1>2, <1>4, JobType, JobInv

LEMMA ShutsAsioDownInv == ASSUME Inv, ShutsAsioDown PROVE Inv'
  <1>1. /\ main = "shutdown" /\ main' = "join"
        /\ strand' = Append(strand, [job |-> "shutdown"])
        /\ UNCHANGED <<evState, evRun, refs, inbound, pending, signal, watching, queue,
                       timers, asioState, asioRun, asioQueue, guard, pings_left, waiting,
                       linked, announced, sent>>
    BY DEF ShutsAsioDown, evVars
  <1>2. ~pending
    BY <1>1 DEF Inv, Starting
  <1>3. strand' \in Seq(Jobs)
    BY <1>1, JobType, JobsBehind DEF Inv, TypeOK
  <1>4. TypeOK'
    BY <1>1, <1>3 DEF Inv, TypeOK
  <1>5. QED
    BY <1>1, <1>2, <1>4, JobType, JobInv

\* The other steps of main().
LEMMA MainInv == ASSUME Inv, EvRunReturns \/ Joins PROVE Inv'
  <1>1. /\ main' \in {"shutdown", "done"}
        /\ ~watching \/ main = "join"
        /\ main # "starting"
        /\ UNCHANGED <<evState, evRun, refs, inbound, pending, signal, watching, queue, timers,
                       asioState, asioRun, strand, asioQueue, guard, pings_left, waiting,
                       linked, announced, sent>>
    BY DEF EvRunReturns, Joins, evVars, asioVars
  <1>2. ~pending
    BY <1>1 DEF Inv, Starting
  <1>3. TypeOK' /\ PingsHaveIds' /\ WakeUps' = WakeUps
    BY <1>1 DEF Inv, TypeOK, PingsHaveIds, AllPinged, JobsPinged, WakeUps, One
  <1>4. QED
    BY <1>1, <1>2, <1>3 DEF Inv

LEMMA NextInv == ASSUME ~Early, Inv, [Next]_vars PROVE Inv'
  <1>1. CASE UNCHANGED vars
    <2>1. UNCHANGED <<main, evState, evRun, refs, inbound, pending, signal, watching, queue,
                      timers, asioState, asioRun, strand, asioQueue, guard, pings_left,
                      waiting, linked, announced, sent>>
      BY <1>1 DEF vars, evVars, asioVars
    <2>2. TypeOK' /\ PingsHaveIds' /\ WakeUps' = WakeUps
      BY <2>1 DEF Inv, TypeOK, PingsHaveIds, AllPinged, JobsPinged, WakeUps, One
    <2>3. Starting' = Starting
      BY <2>1 DEF Starting
    <2>4. QED
      BY <2>1, <2>2, <2>3 DEF Inv
  <1>2. CASE MainThread
    <2>1. CASE Process
      BY <2>1, PingerInv, OtherHandlersInv DEF Process
    <2>2. QED
      BY <1>2, <2>1, StartsInv, OnAsyncInv, MoveInboundInv, ProcessedInv, StopInv, MainInv,
         ShutsAsioDownInv DEF MainThread
  <1>3. CASE AsioThread
    BY <1>3, RunJobInv, AsioProcessInv, AsyncSendInv, AsioProcessedInv DEF AsioThread
  <1>4. CASE Announce \/ \E id \in Ids : TimerCb(id)
    BY <1>4, AnnounceInv, TimerCbInv
  <1>5. QED
    BY <1>1, <1>2, <1>3, <1>4 DEF Next

THEOREM Invariance == ASSUME ~Early PROVE Spec => []Inv
  <1>1. Inv /\ [Next]_vars => Inv'
    BY NextInv
  <1>2. QED
    BY <1>1, InitInv, PTL DEF Spec

\* supervisor_ev_t::on_async() releases no reference that main() or a timer
\* counts on: those who send messages after the ev side has spoken first have
\* taken one for each wake-up.
THEOREM ReferencesHeld == ASSUME ~Early PROVE Spec => []RefsAreHeld
  <1>1. Inv => RefsAreHeld
    BY Held DEF RefsAreHeld
  <1>2. Spec => []Inv
    BY Invariance
  <1>3. QED
    BY <1>1, <1>2, PTL

---------------------------------------------------------------------------
\* The refinement of Inbox.  It does not depend on who speaks first.

\* What is sent from one loop to the other has a number, and nothing else has.
FromAsio == {"pong", "news", "trigger"}
FromEv == {"ping", "notice"}
AtEv == {m \in Messages : m.n > 0 <=> m.kind \in FromAsio}
ToEv == {m \in AtEv : m.n > 0}
AtAsio == {m \in Messages : m.n > 0 <=> m.kind \in FromEv}
ToAsio == {m \in AtAsio : m.n > 0}
AsioJobs == {j \in Jobs : j.job = "message" => j.message \in ToAsio}

\* The messages of another loop wait in the order in which they were sent, and
\* none of them waits twice: what on_async() has moved is no longer inbound, and
\* what the strand has begun with is no longer a job.
Sorted(seq) ==
    \A i, j \in 1 .. Len(seq) :
        i < j /\ seq[i].n > 0 /\ seq[j].n > 0 => seq[i].n < seq[j].n
JobsSorted(jobs) ==
    \A i, j \in 1 .. Len(jobs) :
        i < j /\ JobNumber(jobs[i]) > 0 /\ JobNumber(jobs[j]) > 0 =>
            JobNumber(jobs[i]) < JobNumber(jobs[j])
WaitInOrder ==
    /\ Sorted(queue) /\ Sorted(inbound) /\ Sorted(asioQueue) /\ JobsSorted(strand)
    /\ \A k \in Numbers(queue), n \in Numbers(inbound) : k < n
    /\ \A k \in Numbers(asioQueue), n \in JobNumbers(strand) : k < n

EvBox == Numbers(queue) \cup Numbers(inbound)
AsioBox == Numbers(asioQueue) \cup JobNumbers(strand)

\* The messages are in the order in which they were sent.
Boxed ==
    /\ sent \in [{"ev", "asio"} -> Nat]
    /\ pings_left \in 0 .. Pings
    /\ queue \in Seq(AtEv) /\ inbound \in Seq(ToEv)
    /\ asioQueue \in Seq(AtAsio) /\ strand \in Seq(AsioJobs)
    /\ asioRun = "idle" => asioQueue = <<>>
    /\ Sorted(queue) /\ Sorted(inbound) /\ Sorted(asioQueue) /\ JobsSorted(strand)
    /\ \A k \in Numbers(queue), n \in Numbers(inbound) : k < n
    /\ \A k \in Numbers(asioQueue), n \in JobNumbers(strand) : k < n
    /\ \A n \in EvBox : n <= sent["ev"]
    /\ \A n \in AsioBox : n <= sent["asio"]

\* A message without a number, or with one above the others, is put behind.
LEMMA SortedBehind ==
    ASSUME NEW S \in SUBSET Messages, NEW s \in Seq(S), NEW m \in S, Sorted(s),
           m.n = 0 \/ \A k \in Numbers(s) : k < m.n
    PROVE  /\ Append(s, m) \in Seq(S)
           /\ Sorted(Append(s, m))
           /\ Numbers(Append(s, m)) = Numbers(s) \cup ({m.n} \ {0})
  <1> DEFINE r == Append(s, m)
  <1>1. /\ r \in Seq(S)
        /\ Len(r) = Len(s) + 1 /\ Len(s) \in Nat
        /\ r[Len(s) + 1] = m
        /\ \A i \in 1 .. Len(s) : r[i] = s[i] /\ s[i] \in S
    OBVIOUS
  <1>2. m.n \in Nat /\ \A i \in 1 .. Len(s) : s[i].n \in Nat
    BY <1>1 DEF Messages
  <1> HIDE DEF r
  <1>3. /\ \A i \in 1 .. Len(r) : i \in 1 .. Len(s) \/ i = Len(s) + 1
        /\ \A i \in 1 .. Len(s) : i \in 1 .. Len(r) /\ i < Len(s) + 1
        /\ Len(s) + 1 \in 1 .. Len(r)
    BY <1>1
  <1>4. Sorted(r)
    <2> SUFFICES ASSUME NEW i \in 1 .. Len(r), NEW j \in 1 .. Len(r),
                        i < j, r[i].n > 0, r[j].n > 0
                 PROVE  r[i].n < r[j].n
      BY DEF Sorted
    <2>1. i \in 1 .. Len(s)
      BY <1>1, <1>3
    <2>2. CASE j \in 1 .. Len(s)
      BY <1>1, <2>1, <2>2 DEF Sorted
    <2>3. CASE j = Len(s) + 1
      <3>1. r[j] = m /\ r[i] = s[i] /\ m.n # 0
        BY <1>1, <1>2, <2>1, <2>3
      <3>2. s[i].n \in Numbers(s)
        BY <1>2, <2>1, <3>1 DEF Numbers
      <3>3. QED
        BY <3>1, <3>2
    <2>4. QED
      BY <1>3, <2>2, <2>3
  <1>5. Numbers(r) = Numbers(s) \cup ({m.n} \ {0})
    BY <1>1, <1>3 DEF Numbers
  <1>6. QED
    BY <1>1, <1>4, <1>5 DEF r

LEMMA SortedFirst ==
    ASSUME NEW S \in SUBSET Messages, NEW s \in Seq(S), s # <<>>, Sorted(s)
    PROVE  /\ Head(s) \in S /\ Tail(s) \in Seq(S)
           /\ Sorted(Tail(s))
           /\ Numbers(s) = Numbers(Tail(s)) \cup ({Head(s).n} \ {0})
           /\ Head(s).n > 0 => \A k \in Numbers(Tail(s)) : Head(s).n < k
  <1> DEFINE r == Tail(s)
             h == Head(s)
  <1>1. /\ h \in S /\ r \in Seq(S)
        /\ Len(s) \in Nat /\ 1 \in 1 .. Len(s) /\ Len(r) = Len(s) - 1
        /\ h = s[1]
        /\ \A i \in 1 .. Len(r) : i + 1 \in 1 .. Len(s) /\ r[i] = s[i + 1]
        /\ \A i \in 1 .. Len(s) : s[i] \in S
    OBVIOUS
  <1>2. \A i \in 1 .. Len(s) : s[i].n \in Nat
    BY <1>1 DEF Messages
  <1> HIDE DEF r, h
  <1>3. \A i \in 1 .. Len(s) : i = 1 \/ (i - 1 \in 1 .. Len(r) /\ (i - 1) + 1 = i)
    BY <1>1
  <1>4. Sorted(r)
    <2> SUFFICES ASSUME NEW i \in 1 .. Len(r), NEW j \in 1 .. Len(r),
                        i < j, r[i].n > 0, r[j].n > 0
                 PROVE  r[i].n < r[j].n
      BY DEF Sorted
    <2>1. i + 1 < j + 1
      OBVIOUS
    <2>2. QED
      BY <1>1, <2>1 DEF Sorted
  <1>5. Numbers(s) = Numbers(r) \cup ({h.n} \ {0})
    <2>1. ASSUME NEW k \in Numbers(s) PROVE k \in Numbers(r) \cup ({h.n} \ {0})
      <3>1. PICK i \in 1 .. Len(s) : k = s[i].n /\ k # 0
        BY DEF Numbers
      <3>2. i = 1 \/ s[i] = r[i - 1]
        BY <1>1, <1>3
      <3>3. QED
        BY <1>1, <1>3, <3>1, <3>2 DEF Numbers
    <2>2. h.n # 0 => h.n \in Numbers(s)
      BY <1>1 DEF Numbers
    <2>3. Numbers(r) \subseteq Numbers(s)
      BY <1>1 DEF Numbers
    <2>4. QED
      BY <2>1, <2>2, <2>3
  <1>6. ASSUME h.n > 0, NEW k \in Numbers(r) PROVE h.n < k
    <2>1. PICK i \in 1 .. Len(r) : k = r[i].n /\ k # 0
      BY DEF Numbers
    <2>2. i + 1 \in 1 .. Len(s) /\ 1 < i + 1 /\ s[i + 1].n = k /\ s[i + 1].n \in Nat
      BY <1>1, <1>2, <2>1
    <2>3. s[i + 1].n > 0
      BY <2>1, <2>2
    <2>4. QED
      BY <1>1, <1>6, <2>2, <2>3 DEF Sorted
  <1>7. QED
    BY <1>1, <1>4, <1>5, <1>6 DEF r, h

LEMMA SortedBoth ==
    ASSUME NEW S \in SUBSET Messages, NEW s \in Seq(S), NEW t \in Seq(S),
           Sorted(s), Sorted(t), \A k \in Numbers(s), n \in Numbers(t) : k < n
    PROVE  /\ s \o t \in Seq(S)
           /\ Sorted(s \o t)
           /\ Numbers(s \o t) = Numbers(s) \cup Numbers(t)
  <1> DEFINE r == s \o t
  <1>1. /\ r \in Seq(S)
        /\ Len(s) \in Nat /\ Len(t) \in Nat /\ Len(r) = Len(s) + Len(t)
        /\ \A i \in 1 .. Len(s) : r[i] = s[i] /\ s[i] \in S
        /\ \A i \in 1 .. Len(t) : r[Len(s) + i] = t[i] /\ t[i] \in S
    OBVIOUS
  <1>2. /\ \A i \in 1 .. Len(s) : s[i].n \in Nat
        /\ \A i \in 1 .. Len(t) : t[i].n \in Nat
    BY <1>1 DEF Messages
  <1> HIDE DEF r
  <1>3. ASSUME NEW i \in 1 .. Len(r)
        PROVE  \/ i \in 1 .. Len(s) /\ r[i] = s[i]
               \/ /\ i \notin 1 .. Len(s) /\ i - Len(s) \in 1 .. Len(t)
                  /\ r[i] = t[i - Len(s)]
    <2>1. CASE i \in 1 .. Len(s)
      BY <1>1, <2>1
    <2>2. CASE i \notin 1 .. Len(s)
      <3>1. i - Len(s) \in 1 .. Len(t) /\ Len(s) + (i - Len(s)) = i
        BY <1>1, <2>2
      <3>2. QED
        BY <1>1, <2>2, <3>1
    <2>3. QED
      BY <2>1, <2>2
  <1>4. /\ \A i \in 1 .. Len(s) : i \in 1 .. Len(r)
        /\ \A i \in 1 .. Len(t) : Len(s) + i \in 1 .. Len(r)
    BY <1>1
  <1>5. Sorted(r)
    <2> SUFFICES ASSUME NEW i \in 1 .. Len(r), NEW j \in 1 .. Len(r),
                        i < j, r[i].n > 0, r[j].n > 0
                 PROVE  r[i].n < r[j].n
      BY DEF Sorted
    <2>1. CASE i \in 1 .. Len(s) /\ j \in 1 .. Len(s)
      BY <1>1, <2>1 DEF Sorted
    <2>2. CASE i \in 1 .. Len(s) /\ j \notin 1 .. Len(s)
      <3>1. /\ r[i] = s[i] /\ j - Len(s) \in 1 .. Len(t) /\ r[j] = t[j - Len(s)]
        BY <1>1, <1>3, <2>2
      <3>2. r[i].n \in Numbers(s) /\ r[j].n \in Numbers(t)
        BY <2>2, <3>1 DEF Numbers
      <3>3. QED
        BY <3>2
    <2>3. CASE i \notin 1 .. Len(s)
      <3>1. j \notin 1 .. Len(s)
        BY <1>1, <2>3
      <3>2. /\ i - Len(s) \in 1 .. Len(t) /\ r[i] = t[i - Len(s)]
            /\ j - Len(s) \in 1 .. Len(t) /\ r[j] = t[j - Len(s)]
            /\ i - Len(s) < j - Len(s)
        BY <1>1, <1>3, <2>3, <3>1
      <3>3. QED
        BY <3>2 DEF Sorted
    <2>4. QED
      BY <2>1, <2>2, <2>3
  <1>6. Numbers(r) = Numbers(s) \cup Numbers(t)
    <2>1. Numbers(r) \subseteq Numbers(s) \cup Numbers(t)
      BY <1>3 DEF Numbers
    <2>2. Numbers(s) \subseteq Numbers(r)
      BY <1>1, <1>4 DEF Numbers
    <2>3. Numbers(t) \subseteq Numbers(r)
      <3>1. ASSUME NEW k \in Numbers(t) PROVE k \in Numbers(r)
        <4>1. PICK i \in 1 .. Len(t) : k = t[i].n /\ k # 0
          BY DEF Numbers
        <4>2. Len(s) + i \in 1 .. Len(r) /\ r[Len(s) + i] = t[i]
          BY <1>1, <1>4
        <4>3. QED
          BY <4>1, <4>2 DEF Numbers
      <3>2. QED
        BY <3>1
    <2>4. QED
      BY <2>1, <2>2, <2>3
  <1>7. QED
    BY <1>1, <1>5, <1>6 DEF r

\* The same of the jobs of a strand.
LEMMA JobsSortedBehind ==
    ASSUME NEW S \in SUBSET Jobs, NEW s \in Seq(S), NEW j \in S, JobsSorted(s),
           JobNumber(j) = 0 \/ \A k \in JobNumbers(s) : k < JobNumber(j)
    PROVE  /\ Append(s, j) \in Seq(S)
           /\ JobsSorted(Append(s, j))
           /\ JobNumbers(Append(s, j)) = JobNumbers(s) \cup ({JobNumber(j)} \ {0})
  <1> DEFINE r == Append(s, j)
  <1>1. /\ r \in Seq(S)
        /\ Len(r) = Len(s) + 1 /\ Len(s) \in Nat
        /\ r[Len(s) + 1] = j
        /\ \A i \in 1 .. Len(s) : r[i] = s[i] /\ s[i] \in S
    OBVIOUS
  <1>2. \A k \in Jobs : JobNumber(k) \in Nat
    BY DEF Jobs, JobNumber, Messages
  <1> HIDE DEF r
  <1>3. /\ \A i \in 1 .. Len(r) : i \in 1 .. Len(s) \/ i = Len(s) + 1
        /\ \A i \in 1 .. Len(s) : i \in 1 .. Len(r) /\ i < Len(s) + 1
        /\ Len(s) + 1 \in 1 .. Len(r)
    BY <1>1
  <1>4. JobsSorted(r)
    <2> SUFFICES ASSUME NEW a \in 1 .. Len(r), NEW b \in 1 .. Len(r), a < b,
                        JobNumber(r[a]) > 0, JobNumber(r[b]) > 0
                 PROVE  JobNumber(r[a]) < JobNumber(r[b])
      BY DEF JobsSorted
    <2>1. a \in 1 .. Len(s)
      BY <1>1, <1>3
    <2>2. CASE b \in 1 .. Len(s)
      BY <1>1, <2>1, <2>2 DEF JobsSorted
    <2>3. CASE b = Len(s) + 1
      <3>1. r[b] = j /\ r[a] = s[a] /\ JobNumber(j) # 0
        BY <1>1, <1>2, <2>1, <2>3
      <3>2. JobNumber(s[a]) # 0
        BY <3>1, <1>1, <1>2, <2>1
      <3>3. JobNumber(s[a]) \in JobNumbers(s)
        BY <2>1, <3>2 DEF JobNumbers
      <3>4. QED
        BY <3>1, <3>3
    <2>4. QED
      BY <1>3, <2>2, <2>3
  <1>5. JobNumbers(r) = JobNumbers(s) \cup ({JobNumber(j)} \ {0})
    BY <1>1, <1>3 DEF JobNumbers
  <1>6. QED
    BY <1>1, <1>4, <1>5 DEF r

LEMMA JobsSortedFirst ==
    ASSUME NEW S \in SUBSET Jobs, NEW s \in Seq(S), s # <<>>, JobsSorted(s)
    PROVE  /\ Head(s) \in S /\ Tail(s) \in Seq(S)
           /\ JobsSorted(Tail(s))
           /\ JobNumbers(s) = JobNumbers(Tail(s)) \cup ({JobNumber(Head(s))} \ {0})
           /\ JobNumber(Head(s)) > 0 =>
                \A k \in JobNumbers(Tail(s)) : JobNumber(Head(s)) < k
  <1> DEFINE r == Tail(s)
             h == Head(s)
  <1>1. /\ h \in S /\ r \in Seq(S)
        /\ Len(s) \in Nat /\ 1 \in 1 .. Len(s) /\ Len(r) = Len(s) - 1
        /\ h = s[1]
        /\ \A i \in 1 .. Len(r) : i + 1 \in 1 .. Len(s) /\ r[i] = s[i + 1]
        /\ \A i \in 1 .. Len(s) : s[i] \in S
    OBVIOUS
  <1>2. \A k \in Jobs : JobNumber(k) \in Nat
    BY DEF Jobs, JobNumber, Messages
  <1> HIDE DEF r, h
  <1>3. \A i \in 1 .. Len(s) : i = 1 \/ (i - 1 \in 1 .. Len(r) /\ (i - 1) + 1 = i)
    BY <1>1
  <1>4. JobsSorted(r)
    <2> SUFFICES ASSUME NEW a \in 1 .. Len(r), NEW b \in 1 .. Len(r), a < b,
                        JobNumber(r[a]) > 0, JobNumber(r[b]) > 0
                 PROVE  JobNumber(r[a]) < JobNumber(r[b])
      BY DEF JobsSorted
    <2>1. a + 1 < b + 1
      OBVIOUS
    <2>2. QED
      BY <1>1, <2>1 DEF JobsSorted
  <1>5. JobNumbers(s) = JobNumbers(r) \cup ({JobNumber(h)} \ {0})
    <2>1. ASSUME NEW k \in JobNumbers(s) PROVE k \in JobNumbers(r) \cup ({JobNumber(h)} \ {0})
      <3>1. PICK i \in 1 .. Len(s) : k = JobNumber(s[i]) /\ k # 0
        BY DEF JobNumbers
      <3>2. i = 1 \/ s[i] = r[i - 1]
        BY <1>1, <1>3
      <3>3. QED
        BY <1>1, <1>3, <3>1, <3>2 DEF JobNumbers
    <2>2. JobNumber(h) # 0 => JobNumber(h) \in JobNumbers(s)
      BY <1>1 DEF JobNumbers
    <2>3. JobNumbers(r) \subseteq JobNumbers(s)
      BY <1>1 DEF JobNumbers
    <2>4. QED
      BY <2>1, <2>2, <2>3
  <1>6. ASSUME JobNumber(h) > 0, NEW k \in JobNumbers(r) PROVE JobNumber(h) < k
    <2>1. PICK i \in 1 .. Len(r) : k = JobNumber(r[i]) /\ k # 0
      BY DEF JobNumbers
    <2>2. /\ i + 1 \in 1 .. Len(s) /\ 1 < i + 1
          /\ JobNumber(s[i + 1]) = k /\ JobNumber(s[i + 1]) \in Nat
      BY <1>1, <1>2, <2>1
    <2>3. JobNumber(s[i + 1]) > 0
      BY <2>1, <2>2
    <2>4. QED
      BY <1>1, <1>6, <2>2, <2>3 DEF JobsSorted
  <1>7. QED
    BY <1>1, <1>4, <1>5, <1>6 DEF r, h

---------------------------------------------------------------------------
\* The steps of Inbox.
Closed == IF evState = "SHUT_DOWN" THEN {"ev"} ELSE {}

LEMMA EvPuts ==
    ASSUME EvBox' = EvBox \cup {sent["ev"] + 1}, AsioBox' = AsioBox,
           sent' = [sent EXCEPT !["ev"] = @ + 1], evState' = evState
    PROVE  Box!Next
  <1>1. Box!Put("ev")
    BY DEF Box!Put, Boxes, EvBox, AsioBox
  <1>2. QED
    BY <1>1 DEF Box!Next

LEMMA AsioPuts ==
    ASSUME AsioBox' = AsioBox \cup {sent["asio"] + 1}, EvBox' = EvBox,
           sent' = [sent EXCEPT !["asio"] = @ + 1], evState' = evState
    PROVE  Box!Next
  <1>1. Box!Put("asio")
    BY DEF Box!Put, Boxes, EvBox, AsioBox
  <1>2. QED
    BY <1>1 DEF Box!Next

LEMMA EvRefuses ==
    ASSUME evState = "SHUT_DOWN", EvBox' = EvBox, AsioBox' = AsioBox,
           sent' = [sent EXCEPT !["ev"] = @ + 1], evState' = evState
    PROVE  Box!Next
  <1>1. Box!Refuse("ev")
    BY DEF Box!Refuse, Boxes, EvBox, AsioBox
  <1>2. QED
    BY <1>1 DEF Box!Next

LEMMA EvTakes ==
    ASSUME NEW n \in EvBox, \A k \in EvBox : n <= k,
           EvBox' = EvBox \ {n}, AsioBox' = AsioBox, sent' = sent, evState' = evState
    PROVE  Box!Next
  <1>1. Box!Take("ev")
    BY DEF Box!Take, Boxes, EvBox, AsioBox
  <1>2. QED
    BY <1>1 DEF Box!Next

LEMMA AsioTakes ==
    ASSUME NEW n \in AsioBox, \A k \in AsioBox : n <= k,
           AsioBox' = AsioBox \ {n}, EvBox' = EvBox, sent' = sent, evState' = evState
    PROVE  Box!Next
  <1>1. Box!Take("asio")
    BY DEF Box!Take, Boxes, EvBox, AsioBox
  <1>2. QED
    BY <1>1 DEF Box!Next

LEMMA EvCloses ==
    ASSUME evState' = "SHUT_DOWN", EvBox' = EvBox, AsioBox' = AsioBox, sent' = sent
    PROVE  Box!Next
  <1>1. Box!Close("ev")
    BY DEF Box!Close, Boxes, EvBox, AsioBox
  <1>2. QED
    BY <1>1 DEF Box!Next

LEMMA Stutters ==
    ASSUME EvBox' = EvBox, AsioBox' = AsioBox, sent' = sent, evState' = evState
    PROVE  UNCHANGED <<sent, Boxes, Closed>>
  BY DEF Boxes, EvBox, AsioBox, Closed

---------------------------------------------------------------------------
Refines == Box!Next \/ UNCHANGED <<sent, Boxes, Closed>>

LEMMA BoxedInit == Init => Boxed /\ Box!Init
  <1> SUFFICES ASSUME Init PROVE Boxed /\ Box!Init
    OBVIOUS
  <1> DEFINE go == Message("go", 0)
             start == [job |-> "start"]
  <1>1. go \in Messages /\ go.n = 0 /\ go.kind = "go"
    BY Unasked DEF Local
  <1>2. go \in AtEv
    BY <1>1 DEF AtEv, FromAsio
  <1>3. start \in Jobs /\ start.job = "start"
    BY JobType
  <1>4. start \in AsioJobs
    BY <1>3 DEF AsioJobs
  <1> HIDE DEF go, start
  <1>5. queue = <<go>> /\ strand = <<start>>
    BY DEF Init, go, start
  <1>6. /\ queue \in Seq(AtEv) /\ Len(queue) = 1 /\ queue[1] = go
        /\ strand \in Seq(AsioJobs) /\ Len(strand) = 1 /\ strand[1] = start
    BY <1>2, <1>4, <1>5
  <1>7. Numbers(queue) = {} /\ Sorted(queue)
    BY <1>1, <1>6 DEF Numbers, Sorted
  <1>8. JobNumbers(strand) = {} /\ JobsSorted(strand)
    BY <1>3, <1>6 DEF JobNumbers, JobNumber, JobsSorted
  <1>9. /\ inbound = <<>> /\ asioQueue = <<>> /\ Len(<<>>) = 0
        /\ sent = [l \in {"ev", "asio"} |-> 0] /\ pings_left = Pings
        /\ evState = "OPERATIONAL"
    BY DEF Init
  <1>10. /\ Numbers(inbound) = {} /\ Numbers(asioQueue) = {}
         /\ Sorted(inbound) /\ Sorted(asioQueue)
    BY <1>9 DEF Numbers, Sorted
  <1>11. sent \in [{"ev", "asio"} -> Nat] /\ pings_left \in 0 .. Pings
    BY <1>9, CountsAssumption
  <1>12. Boxed
    BY <1>6, <1>7, <1>8, <1>9, <1>10, <1>11 DEF Boxed, EvBox, AsioBox
  <1>13. Box!Init
    BY <1>7, <1>8, <1>9, <1>10 DEF Box!Init, Boxes
  <1>14. QED
    BY <1>12, <1>13

LEMMA BoxesNat == Boxed => EvBox \subseteq Nat /\ AsioBox \subseteq Nat
  <1> SUFFICES ASSUME Boxed PROVE EvBox \subseteq Nat /\ AsioBox \subseteq Nat
    OBVIOUS
  <1>1. \A m \in Messages : m.n \in Nat
    BY DEF Messages
  <1>2. \A j \in Jobs : JobNumber(j) \in Nat
    BY <1>1 DEF Jobs, JobNumber
  <1>3. /\ \A i \in 1 .. Len(queue) : queue[i] \in Messages
        /\ \A i \in 1 .. Len(inbound) : inbound[i] \in Messages
        /\ \A i \in 1 .. Len(asioQueue) : asioQueue[i] \in Messages
        /\ \A i \in 1 .. Len(strand) : strand[i] \in Jobs
    BY DEF Boxed, AtEv, ToEv, AtAsio, AsioJobs
  <1>4. QED
    BY <1>1, <1>2, <1>3 DEF EvBox, AsioBox, Numbers, JobNumbers

\* A handler takes the first message, and perhaps sends one in the same loop.
LEMMA EvHandles ==
    ASSUME Boxed, queue # <<>>, NEW m \in AtEv, m.n = 0,
           queue' \in {Tail(queue), Append(Tail(queue), m)}
    PROVE  /\ Head(queue) \in AtEv
           /\ queue' \in Seq(AtEv) /\ Sorted(queue')
           /\ Numbers(queue') \subseteq Numbers(queue)
           /\ Head(queue).n = 0 => Numbers(queue') = Numbers(queue)
           /\ Head(queue).n > 0 =>
                /\ Head(queue).n \in EvBox
                /\ \A k \in EvBox : Head(queue).n <= k
                /\ Numbers(queue') \cup Numbers(inbound) = EvBox \ {Head(queue).n}
  <1> DEFINE h == Head(queue)
             rest == Tail(queue)
  <1>1. AtEv \in SUBSET Messages /\ queue \in Seq(AtEv) /\ Sorted(queue)
    BY DEF AtEv, Boxed
  <1>2. /\ h \in AtEv /\ rest \in Seq(AtEv) /\ Sorted(rest)
        /\ Numbers(queue) = Numbers(rest) \cup ({h.n} \ {0})
        /\ h.n > 0 => \A k \in Numbers(rest) : h.n < k
    BY <1>1, SortedFirst
  <1> HIDE DEF h, rest
  <1>3. /\ queue' \in Seq(AtEv) /\ Sorted(queue')
        /\ Numbers(queue') = Numbers(rest)
    <2>1. CASE queue' = rest
      BY <1>2, <2>1
    <2>2. CASE queue' = Append(rest, m)
      <3>1. rest \in Seq(AtEv) /\ Sorted(rest)
        BY <1>2
      <3>2. /\ Append(rest, m) \in Seq(AtEv) /\ Sorted(Append(rest, m))
            /\ Numbers(Append(rest, m)) = Numbers(rest) \cup ({m.n} \ {0})
        BY <1>1, <3>1, SortedBehind
      <3>3. QED
        BY <2>2, <3>2
    <2>3. QED
      BY <2>1, <2>2 DEF rest
  <1>4. h.n \in Nat
    BY <1>2 DEF AtEv, Messages
  <1>5. ASSUME h.n > 0
        PROVE  /\ h.n \in EvBox
               /\ \A k \in EvBox : h.n <= k
               /\ Numbers(queue') \cup Numbers(inbound) = EvBox \ {h.n}
    <2>1. h.n \in Numbers(queue)
      BY <1>2, <1>4, <1>5
    <2>2. \A k \in Numbers(inbound) : h.n < k
      BY <2>1 DEF Boxed
    <2>3. \A k \in Numbers(rest) : h.n < k
      BY <1>2, <1>5
    <2>4. h.n \notin Numbers(rest) /\ h.n \notin Numbers(inbound)
      BY <1>4, <2>2, <2>3
    <2>5. \A k \in EvBox : k = h.n \/ h.n < k
      BY <1>2, <2>2, <2>3 DEF EvBox
    <2>6. QED
      <3>1. h.n \in EvBox /\ \A k \in EvBox : h.n <= k
        <4>1. h.n \in EvBox
          BY <2>1 DEF EvBox
        <4>2. EvBox \subseteq Nat
          BY BoxesNat
        <4>3. QED
          BY <1>4, <2>5, <4>1, <4>2
      <3>2. Numbers(queue') = Numbers(queue) \ {h.n}
        BY <1>2, <1>3, <1>5, <2>4
      <3>3. QED
        BY <2>4, <3>1, <3>2 DEF EvBox
  <1>6. QED
    BY <1>2, <1>3, <1>4, <1>5 DEF h

LEMMA AsioHandles ==
    ASSUME Boxed, asioQueue # <<>>, NEW m \in AtAsio, m.n = 0,
           asioQueue' \in {Tail(asioQueue), Append(Tail(asioQueue), m)}
    PROVE  /\ Head(asioQueue) \in AtAsio
           /\ asioQueue' \in Seq(AtAsio) /\ Sorted(asioQueue')
           /\ Numbers(asioQueue') \subseteq Numbers(asioQueue)
           /\ Head(asioQueue).n = 0 => Numbers(asioQueue') = Numbers(asioQueue)
           /\ Head(asioQueue).n > 0 =>
                /\ Head(asioQueue).n \in AsioBox
                /\ \A k \in AsioBox : Head(asioQueue).n <= k
                /\ Numbers(asioQueue') \cup JobNumbers(strand) = AsioBox \ {Head(asioQueue).n}
  <1> DEFINE h == Head(asioQueue)
             rest == Tail(asioQueue)
  <1>1. AtAsio \in SUBSET Messages /\ asioQueue \in Seq(AtAsio) /\ Sorted(asioQueue)
    BY DEF AtAsio, Boxed
  <1>2. /\ h \in AtAsio /\ rest \in Seq(AtAsio) /\ Sorted(rest)
        /\ Numbers(asioQueue) = Numbers(rest) \cup ({h.n} \ {0})
        /\ h.n > 0 => \A k \in Numbers(rest) : h.n < k
    BY <1>1, SortedFirst
  <1> HIDE DEF h, rest
  <1>3. /\ asioQueue' \in Seq(AtAsio) /\ Sorted(asioQueue')
        /\ Numbers(asioQueue') = Numbers(rest)
    <2>1. CASE asioQueue' = rest
      BY <1>2, <2>1
    <2>2. CASE asioQueue' = Append(rest, m)
      <3>1. rest \in Seq(AtAsio) /\ Sorted(rest)
        BY <1>2
      <3>2. /\ Append(rest, m) \in Seq(AtAsio) /\ Sorted(Append(rest, m))
            /\ Numbers(Append(rest, m)) = Numbers(rest) \cup ({m.n} \ {0})
        BY <1>1, <3>1, SortedBehind
      <3>3. QED
        BY <2>2, <3>2
    <2>3. QED
      BY <2>1, <2>2 DEF rest
  <1>4. h.n \in Nat
    BY <1>2 DEF AtAsio, Messages
  <1>5. ASSUME h.n > 0
        PROVE  /\ h.n \in AsioBox
               /\ \A k \in AsioBox : h.n <= k
               /\ Numbers(asioQueue') \cup JobNumbers(strand) = AsioBox \ {h.n}
    <2>1. h.n \in Numbers(asioQueue)
      BY <1>2, <1>4, <1>5
    <2>2. \A k \in JobNumbers(strand) : h.n < k
      BY <2>1 DEF Boxed
    <2>3. \A k \in Numbers(rest) : h.n < k
      BY <1>2, <1>5
    <2>4. h.n \notin Numbers(rest) /\ h.n \notin JobNumbers(strand)
      BY <1>4, <2>2, <2>3
    <2>5. \A k \in AsioBox : k = h.n \/ h.n < k
      BY <1>2, <2>2, <2>3 DEF AsioBox
    <2>6. QED
      <3>1. h.n \in AsioBox /\ \A k \in AsioBox : h.n <= k
        <4>1. h.n \in AsioBox
          BY <2>1 DEF AsioBox
        <4>2. AsioBox \subseteq Nat
          BY BoxesNat
        <4>3. QED
          BY <1>4, <2>5, <4>1, <4>2
      <3>2. Numbers(asioQueue') = Numbers(asioQueue) \ {h.n}
        BY <1>2, <1>3, <1>5, <2>4
      <3>3. QED
        BY <2>4, <3>1, <3>2 DEF AsioBox
  <1>6. QED
    BY <1>2, <1>3, <1>4, <1>5 DEF h

\* A message is sent to the ev supervisor, which may have ended.
LEMMA EvSent ==
    ASSUME Boxed, NEW m \in Messages, m.kind \in FromAsio, NEW base, EvEnqueue(m, base)
    PROVE  /\ sent' = [sent EXCEPT !["ev"] = sent["ev"] + 1]
           /\ inbound' \in Seq(ToEv) /\ Sorted(inbound')
           /\ \/ Numbers(inbound') = Numbers(inbound) \cup {sent["ev"] + 1}
              \/ evState = "SHUT_DOWN" /\ inbound' = inbound
  <1> DEFINE n == Numbered(m, "ev")
  <1>1. /\ sent \in [{"ev", "asio"} -> Nat] /\ sent["ev"] \in Nat
        /\ inbound \in Seq(ToEv) /\ Sorted(inbound)
        /\ \A k \in Numbers(inbound) : k <= sent["ev"]
    BY DEF Boxed, EvBox
  <1>2. n \in Messages /\ n.kind \in FromAsio /\ n.n = sent["ev"] + 1
    BY <1>1, NumberedAs
  <1> HIDE DEF n
  <1>3. n \in ToEv /\ ToEv \in SUBSET Messages
    BY <1>1, <1>2 DEF ToEv, AtEv
  <1>4. \A k \in Numbers(inbound) : k < n.n
    <2>1. \A k \in Numbers(inbound) : k \in Nat
      BY <1>1 DEF Numbers, ToEv, AtEv, Messages
    <2>2. QED
      BY <1>1, <1>2, <2>1
  <1>5. /\ Append(inbound, n) \in Seq(ToEv) /\ Sorted(Append(inbound, n))
        /\ Numbers(Append(inbound, n)) = Numbers(inbound) \cup {sent["ev"] + 1}
    <2>1. Numbers(Append(inbound, n)) = Numbers(inbound) \cup ({n.n} \ {0})
      BY <1>1, <1>3, <1>4, SortedBehind
    <2>2. QED
      BY <1>1, <1>2, <1>3, <1>4, <2>1, SortedBehind
  <1>6. \/ evState # "SHUT_DOWN" /\ inbound' = Append(inbound, n)
        \/ evState = "SHUT_DOWN" /\ inbound' = inbound
    BY DEF EvEnqueue, Accepts, n
  <1>7. QED
    BY <1>1, <1>5, <1>6 DEF EvEnqueue, CountsSent

\* Only the queue of the ev side changes, by a handler.
LEMMA EvBoxed ==
    ASSUME Boxed, queue' \in Seq(AtEv), Sorted(queue'), Numbers(queue') \subseteq Numbers(queue),
           pings_left' \in 0 .. Pings,
           UNCHANGED <<inbound, asioQueue, strand, asioRun, sent>>
    PROVE  /\ Boxed' /\ AsioBox' = AsioBox
           /\ EvBox' = Numbers(queue') \cup Numbers(inbound)
  <1>1. Numbers(inbound') = Numbers(inbound) /\ Sorted(inbound')
    BY DEF Boxed
  <1>2. AsioBox' = AsioBox /\ EvBox' = Numbers(queue') \cup Numbers(inbound)
    BY DEF EvBox, AsioBox
  <1>3. EvBox' \subseteq EvBox
    BY <1>2 DEF EvBox
  <1>4. QED
    BY <1>1, <1>2, <1>3 DEF Boxed

LEMMA AsioBoxed ==
    ASSUME Boxed, asioQueue' \in Seq(AtAsio), Sorted(asioQueue'),
           Numbers(asioQueue') \subseteq Numbers(asioQueue),
           UNCHANGED <<inbound, queue, strand, asioRun, sent, pings_left>>
    PROVE  /\ asioRun # "idle" => Boxed'
           /\ EvBox' = EvBox
           /\ AsioBox' = Numbers(asioQueue') \cup JobNumbers(strand)
  <1>1. EvBox' = EvBox /\ AsioBox' = Numbers(asioQueue') \cup JobNumbers(strand)
    BY DEF EvBox, AsioBox
  <1>2. AsioBox' \subseteq AsioBox
    BY <1>1 DEF AsioBox
  <1>3. QED
    BY <1>1, <1>2 DEF Boxed

\* Nothing is sent or taken.
LEMMA Idles ==
    ASSUME Boxed, UNCHANGED <<queue, inbound, asioQueue, strand, sent, pings_left, evState>>,
           asioRun' = "idle" => asioQueue = <<>>
    PROVE  Boxed' /\ Refines
  <1>1. EvBox' = EvBox /\ AsioBox' = AsioBox
    BY DEF EvBox, AsioBox
  <1>2. Boxed'
    BY <1>1 DEF Boxed
  <1>3. QED
    BY <1>1, <1>2, Stutters DEF Refines

LEMMA MoveInboundBoxed == ASSUME Boxed, MoveInbound PROVE Boxed' /\ Refines
  <1>1. /\ queue' = queue \o inbound
        /\ inbound' = SubSeq(inbound, Len(inbound) + 1, Len(inbound))
        /\ UNCHANGED <<asioQueue, strand, asioRun, sent, pings_left, evState>>
    BY DEF MoveInbound, Taken, Left, asioVars
  <1>2. /\ AtEv \in SUBSET Messages /\ queue \in Seq(AtEv) /\ inbound \in Seq(ToEv)
        /\ Sorted(queue) /\ Sorted(inbound)
        /\ \A k \in Numbers(queue), n \in Numbers(inbound) : k < n
    BY DEF AtEv, Boxed
  <1>3. inbound \in Seq(AtEv)
    BY <1>2 DEF ToEv
  <1>4. /\ queue' \in Seq(AtEv) /\ Sorted(queue')
        /\ Numbers(queue') = Numbers(queue) \cup Numbers(inbound)
    BY <1>1, <1>2, <1>3, SortedBoth
  <1>5. inbound' = <<>> /\ Len(<<>>) = 0 /\ <<>> \in Seq(ToEv)
    BY <1>1, <1>2
  <1>6. Numbers(inbound') = {} /\ Sorted(inbound')
    BY <1>5 DEF Numbers, Sorted
  <1>7. EvBox' = EvBox /\ AsioBox' = AsioBox
    BY <1>1, <1>4, <1>6 DEF EvBox, AsioBox
  <1>8. Boxed'
    BY <1>1, <1>4, <1>5, <1>6, <1>7 DEF Boxed
  <1>9. QED
    BY <1>1, <1>7, <1>8, Stutters DEF Refines

LEMMA TimerCbBoxed == ASSUME Boxed, NEW id \in Ids, TimerCb(id) PROVE Boxed' /\ Refines
  <1> DEFINE m == Message("error", id)
  <1>1. /\ queue' = Append(queue, m)
        /\ UNCHANGED <<inbound, asioQueue, strand, asioRun, sent, pings_left, evState>>
    BY DEF TimerCb, asioVars
  <1>2. id \in 0 .. Pings
    BY CountsAssumption DEF Ids
  <1>3. m \in AtEv /\ m.n = 0
    BY <1>2, MessageType DEF Local, AtEv, FromAsio
  <1>4. AtEv \in SUBSET Messages /\ queue \in Seq(AtEv) /\ Sorted(queue)
    BY DEF AtEv, Boxed
  <1> HIDE DEF m
  <1>5. /\ Append(queue, m) \in Seq(AtEv) /\ Sorted(Append(queue, m))
        /\ Numbers(Append(queue, m)) = Numbers(queue) \cup ({m.n} \ {0})
    BY <1>3, <1>4, SortedBehind
  <1>6. queue' \in Seq(AtEv) /\ Sorted(queue') /\ Numbers(queue') = Numbers(queue)
    BY <1>1, <1>3, <1>5
  <1>7. pings_left' \in 0 .. Pings
    BY <1>1 DEF Boxed
  <1>8. /\ Boxed' /\ AsioBox' = AsioBox
        /\ EvBox' = Numbers(queue') \cup Numbers(inbound)
    BY <1>1, <1>6, <1>7, EvBoxed
  <1>9. EvBox' = EvBox
    BY <1>6, <1>8 DEF EvBox
  <1>10. QED
    BY <1>1, <1>8, <1>9, Stutters DEF Refines

\* What the pinger sends is for its own loop.
LEMMA SendPingQueues ==
    ASSUME Boxed, NEW rest, NEW current, NEW count, SendPing(rest, current, count)
    PROVE  /\ pings_left' \in 0 .. Pings
           /\ \E m \in AtEv : m.n = 0 /\ queue' = Append(rest, m)
  <1>1. pings_left \in 0 .. Pings /\ Pings \in Nat
    BY CountsAssumption DEF Boxed
  <1>2. CASE pings_left > 0
    <2> DEFINE id == Pings - pings_left + 1
    <2>1. pings_left' = pings_left - 1 /\ queue' = Append(rest, Message("ping", id))
      BY <1>2 DEF SendPing, StartsTimer
    <2>2. id \in 0 .. Pings /\ pings_left' \in 0 .. Pings
      BY <1>1, <1>2, <2>1
    <2> HIDE DEF id
    <2>3. Message("ping", id) \in AtEv /\ Message("ping", id).n = 0
      BY <2>2, MessageType DEF Remote, AtEv, FromAsio
    <2>4. QED
      BY <2>1, <2>2, <2>3
  <1>3. CASE ~(pings_left > 0)
    <2>1. pings_left' = pings_left /\ queue' = Append(rest, Message("leave", 0))
      BY <1>3 DEF SendPing, StartsTimer
    <2>2. Message("leave", 0) \in AtEv /\ Message("leave", 0).n = 0
      BY Unasked DEF Local, AtEv, FromAsio
    <2>3. QED
      BY <1>1, <2>1, <2>2
  <1>4. QED
    BY <1>2, <1>3

\* A handler of the ev side that sends nothing to the other.
LEMMA EvHandled ==
    ASSUME Boxed, queue # <<>>, NEW m \in AtEv, m.n = 0,
           queue' \in {Tail(queue), Append(Tail(queue), m)}, pings_left' \in 0 .. Pings,
           UNCHANGED <<inbound, asioQueue, strand, asioRun, sent>>,
           evState' = evState \/ (evState' = "SHUT_DOWN" /\ Head(queue).n = 0)
    PROVE  Boxed' /\ Refines
  <1> DEFINE h == Head(queue)
  <1>1. /\ h \in AtEv
        /\ queue' \in Seq(AtEv) /\ Sorted(queue') /\ Numbers(queue') \subseteq Numbers(queue)
        /\ h.n = 0 => Numbers(queue') = Numbers(queue)
        /\ h.n > 0 =>
             /\ h.n \in EvBox
             /\ \A k \in EvBox : h.n <= k
             /\ Numbers(queue') \cup Numbers(inbound) = EvBox \ {h.n}
    BY EvHandles
  <1> HIDE DEF h
  <1>2. /\ Boxed' /\ AsioBox' = AsioBox
        /\ EvBox' = Numbers(queue') \cup Numbers(inbound)
    BY <1>1, EvBoxed
  <1>3. h.n \in Nat
    BY <1>1 DEF AtEv, Messages
  <1>4. CASE h.n > 0
    <2>1. evState' = evState
      BY <1>4 DEF h
    <2>2. PICK n \in EvBox : n = h.n
      BY <1>1, <1>4
    <2>3. (\A k \in EvBox : n <= k) /\ EvBox' = EvBox \ {n}
      BY <1>1, <1>2, <1>4, <2>2
    <2>4. Box!Next
      BY <1>2, <2>1, <2>3, EvTakes
    <2>5. QED
      BY <1>2, <2>4 DEF Refines
  <1>5. CASE h.n = 0
    <2>1. EvBox' = EvBox
      BY <1>1, <1>2, <1>5 DEF EvBox
    <2>2. QED
      BY <1>2, <2>1, Stutters, EvCloses DEF Refines
  <1>6. QED
    BY <1>3, <1>4, <1>5

LEMMA EvHandlersBoxed ==
    ASSUME Boxed, Process, OnStart \/ OnPong \/ OnNews \/ OnTrigger \/ ShutdownFinish
    PROVE  Boxed' /\ Refines
  <1> DEFINE end == Message("end", 0)
  <1>1. /\ queue # <<>>
        /\ UNCHANGED <<inbound, asioQueue, strand, asioRun, sent>>
    BY DEF Process, OnStart, OnPong, OnNews, OnTrigger, ShutdownFinish
  <1>2. /\ end \in AtEv /\ end.n = 0
        /\ pings_left \in 0 .. Pings
    <2>1. end \in AtEv /\ end.n = 0
      BY Unasked DEF Local, AtEv, FromAsio
    <2>2. QED
      BY <2>1 DEF Boxed
  <1>3. CASE OnNews \/ OnTrigger \/ (OnPong /\ Head(queue).id # waiting)
    <2>1. /\ queue' \in {Tail(queue), Append(Tail(queue), end)}
          /\ UNCHANGED <<pings_left, evState>>
      BY <1>3 DEF OnNews, OnTrigger, OnPong
    <2> HIDE DEF end
    <2>2. QED
      BY <1>1, <1>2, <2>1, EvHandled
  <1>4. CASE ShutdownFinish
    <2>1. /\ queue' \in {Tail(queue), Append(Tail(queue), end)}
          /\ UNCHANGED pings_left /\ evState' = "SHUT_DOWN"
          /\ Head(queue).kind = "end"
      BY <1>4 DEF ShutdownFinish
    <2>2. Head(queue) \in AtEv
      BY <1>1, <1>2, <2>1, EvHandles
    <2>3. Head(queue).n = 0
      BY <2>1, <2>2 DEF AtEv, FromAsio, Messages
    <2> HIDE DEF end
    <2>4. QED
      BY <1>1, <1>2, <2>1, <2>3, EvHandled
  <1>5. CASE OnStart \/ (OnPong /\ Head(queue).id = waiting)
    <2>1. UNCHANGED evState
      BY <1>5 DEF OnStart, OnPong
    <2>2. /\ pings_left' \in 0 .. Pings
          /\ \E m \in AtEv : m.n = 0 /\ queue' = Append(Tail(queue), m)
      BY <1>5, SendPingQueues DEF OnStart, OnPong
    <2>3. PICK m \in AtEv : m.n = 0 /\ queue' = Append(Tail(queue), m)
      BY <2>2
    <2>4. QED
      BY <1>1, <2>1, <2>2, <2>3, EvHandled
  <1>6. QED
    BY <1>3, <1>4, <1>5

LEMMA ToPongerBoxed == ASSUME Boxed, Process, ToPonger PROVE Boxed' /\ Refines
  <1> DEFINE h == Head(queue)
             m == Numbered(h, "asio")
             job == [job |-> "message", message |-> m]
             end == Message("end", 0)
  <1>1. /\ queue # <<>> /\ h.kind \in {"ping", "notice"}
        /\ queue' \in {Tail(queue), Append(Tail(queue), end)}
        /\ sent' = [sent EXCEPT !["asio"] = sent["asio"] + 1]
        /\ strand' = Append(strand, job)
        /\ UNCHANGED <<inbound, asioQueue, asioRun, pings_left, evState>>
    BY DEF Process, ToPonger, AsioEnqueue, CountsSent
  <1>2. end \in AtEv /\ end.n = 0
    BY Unasked DEF Local, AtEv, FromAsio
  <1> HIDE DEF end
  <1>3. /\ h \in AtEv
        /\ queue' \in Seq(AtEv) /\ Sorted(queue') /\ Numbers(queue') \subseteq Numbers(queue)
        /\ h.n = 0 => Numbers(queue') = Numbers(queue)
    BY <1>1, <1>2, EvHandles
  <1>4. h.n = 0 /\ h \in Messages
    BY <1>1, <1>3 DEF AtEv, FromAsio, Messages
  <1>5. sent \in [{"ev", "asio"} -> Nat] /\ sent["asio"] \in Nat
    BY DEF Boxed
  <1>6. m \in Messages /\ m.kind = h.kind /\ m.n = sent["asio"] + 1
    BY <1>4, <1>5, NumberedAs
  <1> HIDE DEF m, h
  <1>7. m \in ToAsio
    BY <1>1, <1>5, <1>6 DEF ToAsio, AtAsio, FromEv
  <1>8. job \in Jobs /\ job.job = "message" /\ job.message = m
    BY <1>6, JobType
  <1> HIDE DEF job
  <1>9. /\ job \in AsioJobs /\ JobNumber(job) = sent["asio"] + 1
        /\ AsioJobs \in SUBSET Jobs
    BY <1>6, <1>7, <1>8 DEF AsioJobs, JobNumber
  <1>10. /\ strand \in Seq(AsioJobs) /\ JobsSorted(strand)
         /\ \A k \in AsioBox : k <= sent["asio"] /\ k \in Nat
    BY BoxesNat DEF Boxed
  <1>11. \A k \in JobNumbers(strand) : k < JobNumber(job)
    BY <1>5, <1>9, <1>10 DEF AsioBox
  <1>12. /\ strand' \in Seq(AsioJobs) /\ JobsSorted(strand')
         /\ JobNumbers(strand') = JobNumbers(strand) \cup {sent["asio"] + 1}
    <2>1. /\ Append(strand, job) \in Seq(AsioJobs) /\ JobsSorted(Append(strand, job))
          /\ JobNumbers(Append(strand, job)) = JobNumbers(strand) \cup ({JobNumber(job)} \ {0})
      BY <1>9, <1>10, <1>11, JobsSortedBehind
    <2>2. QED
      BY <1>1, <1>5, <1>9, <2>1
  <1>13. AsioBox' = AsioBox \cup {sent["asio"] + 1} /\ EvBox' = EvBox
    BY <1>1, <1>3, <1>4, <1>12 DEF AsioBox, EvBox
  <1>14. /\ sent' \in [{"ev", "asio"} -> Nat]
         /\ sent'["asio"] = sent["asio"] + 1 /\ sent'["ev"] = sent["ev"]
    BY <1>1, <1>5
  <1>15. \A n \in AsioBox' : n <= sent'["asio"]
    BY <1>5, <1>10, <1>13, <1>14
  <1>16. \A k \in Numbers(asioQueue'), n \in JobNumbers(strand') : k < n
    <2>1. \A k \in Numbers(asioQueue) : k < sent["asio"] + 1
      BY <1>5, <1>10 DEF AsioBox
    <2>2. QED
      BY <1>1, <1>12, <2>1 DEF Boxed
  <1>17. Boxed'
    BY <1>1, <1>3, <1>12, <1>13, <1>14, <1>15, <1>16 DEF Boxed
  <1>18. Box!Next
    BY <1>1, <1>13, AsioPuts
  <1>19. QED
    BY <1>17, <1>18 DEF Refines

\* A step that sends a message to the ev supervisor keeps the order in its boxes.
LEMMA EvSentBoxed ==
    ASSUME Boxed, sent' = [sent EXCEPT !["ev"] = sent["ev"] + 1],
           inbound' \in Seq(ToEv), Sorted(inbound'),
           \/ Numbers(inbound') = Numbers(inbound) \cup {sent["ev"] + 1}
           \/ evState = "SHUT_DOWN" /\ inbound' = inbound,
           queue' \in Seq(AtEv), Sorted(queue'), Numbers(queue') = Numbers(queue),
           asioQueue' \in Seq(AtAsio), Sorted(asioQueue'),
           Numbers(asioQueue') = Numbers(asioQueue),
           asioRun' = "idle" => asioQueue' = <<>>,
           UNCHANGED <<strand, pings_left, evState>>
    PROVE  Boxed' /\ Refines
  <1>1. /\ sent \in [{"ev", "asio"} -> Nat] /\ sent["ev"] \in Nat
        /\ sent' \in [{"ev", "asio"} -> Nat]
        /\ sent'["ev"] = sent["ev"] + 1 /\ sent'["asio"] = sent["asio"]
    BY DEF Boxed
  <1>2. \A k \in EvBox : k <= sent["ev"] /\ k \in Nat
    BY BoxesNat DEF Boxed
  <1>3. AsioBox' = AsioBox
    BY DEF AsioBox
  <1>4. CASE Numbers(inbound') = Numbers(inbound) \cup {sent["ev"] + 1}
    <2>1. EvBox' = EvBox \cup {sent["ev"] + 1}
      BY <1>4 DEF EvBox
    <2>2. \A n \in EvBox' : n <= sent'["ev"]
      BY <1>1, <1>2, <2>1
    <2>3. \A k \in Numbers(queue'), n \in Numbers(inbound') : k < n
      <3>1. \A k \in Numbers(queue) : k < sent["ev"] + 1
        BY <1>1, <1>2 DEF EvBox
      <3>2. QED
        BY <1>4, <3>1 DEF Boxed
    <2>4. Boxed'
      BY <1>1, <1>3, <2>2, <2>3 DEF Boxed
    <2>5. Box!Next
      BY <1>3, <2>1, EvPuts
    <2>6. QED
      BY <2>4, <2>5 DEF Refines
  <1>5. CASE evState = "SHUT_DOWN" /\ inbound' = inbound
    <2>1. EvBox' = EvBox
      BY <1>5 DEF EvBox
    <2>2. \A n \in EvBox' : n <= sent'["ev"]
      BY <1>1, <1>2, <2>1
    <2>3. \A k \in Numbers(queue'), n \in Numbers(inbound') : k < n
      BY <1>5 DEF Boxed
    <2>4. Boxed'
      BY <1>1, <1>3, <1>5, <2>2, <2>3 DEF Boxed
    <2>5. Box!Next
      BY <1>3, <1>5, <2>1, EvRefuses
    <2>6. QED
      BY <2>4, <2>5 DEF Refines
  <1>6. QED
    BY <1>4, <1>5

LEMMA OnLeaveBoxed == ASSUME Boxed, Process, OnLeave PROVE Boxed' /\ Refines
  <1> DEFINE notice == Message("notice", 0)
             trigger == Message("trigger", 0)
  <1>1. /\ queue # <<>> /\ Head(queue).kind = "leave"
        /\ queue' \in {Tail(queue), Append(Tail(queue), notice)}
        /\ EvEnqueue(trigger, refs)
        /\ UNCHANGED <<asioQueue, asioRun, strand, pings_left, evState>>
    BY DEF Process, OnLeave
  <1>2. /\ notice \in AtEv /\ notice.n = 0
        /\ trigger \in Messages /\ trigger.kind \in FromAsio
    BY Unasked DEF Remote, AtEv, FromAsio
  <1> HIDE DEF notice, trigger
  <1>3. /\ Head(queue) \in AtEv
        /\ queue' \in Seq(AtEv) /\ Sorted(queue')
        /\ Head(queue).n = 0 => Numbers(queue') = Numbers(queue)
    BY <1>1, <1>2, EvHandles
  <1>4. Head(queue).n = 0
    BY <1>1, <1>3 DEF AtEv, FromAsio, Messages
  <1>5. /\ sent' = [sent EXCEPT !["ev"] = sent["ev"] + 1]
        /\ inbound' \in Seq(ToEv) /\ Sorted(inbound')
        /\ \/ Numbers(inbound') = Numbers(inbound) \cup {sent["ev"] + 1}
           \/ evState = "SHUT_DOWN" /\ inbound' = inbound
    BY <1>1, <1>2, EvSent
  <1>6. /\ asioQueue' \in Seq(AtAsio) /\ Sorted(asioQueue')
        /\ Numbers(asioQueue') = Numbers(asioQueue)
        /\ asioRun' = "idle" => asioQueue' = <<>>
    BY <1>1 DEF Boxed
  <1>7. QED
    BY <1>1, <1>3, <1>4, <1>5, <1>6, EvSentBoxed

LEMMA ToPingerBoxed == ASSUME Boxed, AsioProcess, ToPinger PROVE Boxed' /\ Refines
  <1> DEFINE h == Head(asioQueue)
             news == Message("news", 0)
  <1>1. /\ asioQueue # <<>> /\ h.kind \in {"pong", "news"}
        /\ asioQueue' \in {Tail(asioQueue), Append(Tail(asioQueue), news)}
        /\ EvEnqueue(h, refs)
        /\ asioRun' \in {asioRun, "signal"} /\ asioRun # "idle"
        /\ UNCHANGED <<queue, strand, pings_left, evState>>
    BY DEF AsioProcess, ToPinger
  <1>2. news \in AtAsio /\ news.n = 0
    BY Unasked DEF Remote, AtAsio, FromEv
  <1> HIDE DEF news
  <1>3. /\ h \in AtAsio
        /\ asioQueue' \in Seq(AtAsio) /\ Sorted(asioQueue')
        /\ h.n = 0 => Numbers(asioQueue') = Numbers(asioQueue)
    BY <1>1, <1>2, AsioHandles
  <1>4. h.n = 0 /\ h \in Messages /\ h.kind \in FromAsio
    BY <1>1, <1>3 DEF AtAsio, FromEv, FromAsio, Messages
  <1> HIDE DEF h
  <1>5. /\ sent' = [sent EXCEPT !["ev"] = sent["ev"] + 1]
        /\ inbound' \in Seq(ToEv) /\ Sorted(inbound')
        /\ \/ Numbers(inbound') = Numbers(inbound) \cup {sent["ev"] + 1}
           \/ evState = "SHUT_DOWN" /\ inbound' = inbound
    BY <1>1, <1>4, EvSent
  <1>6. /\ queue' \in Seq(AtEv) /\ Sorted(queue') /\ Numbers(queue') = Numbers(queue)
    BY <1>1 DEF Boxed
  <1>7. asioRun' # "idle"
    BY <1>1
  <1>8. QED
    BY <1>1, <1>3, <1>4, <1>5, <1>6, <1>7, EvSentBoxed

\* A job of the asio side that is no message waits behind the others.
LEMMA JobBoxed ==
    ASSUME Boxed, NEW j \in Jobs, j.job # "message", strand' = Append(strand, j),
           UNCHANGED <<queue, inbound, asioQueue, asioRun, sent, pings_left, evState>>
    PROVE  Boxed' /\ Refines
  <1>1. /\ AsioJobs \in SUBSET Jobs /\ j \in AsioJobs /\ JobNumber(j) = 0
        /\ strand \in Seq(AsioJobs) /\ JobsSorted(strand)
    BY DEF AsioJobs, JobNumber, Boxed
  <1>2. /\ Append(strand, j) \in Seq(AsioJobs) /\ JobsSorted(Append(strand, j))
        /\ JobNumbers(Append(strand, j)) = JobNumbers(strand) \cup ({JobNumber(j)} \ {0})
    BY <1>1, JobsSortedBehind
  <1>3. /\ strand' \in Seq(AsioJobs) /\ JobsSorted(strand')
        /\ JobNumbers(strand') = JobNumbers(strand)
    BY <1>1, <1>2
  <1>4. EvBox' = EvBox /\ AsioBox' = AsioBox
    BY <1>3 DEF EvBox, AsioBox
  <1>5. Boxed'
    BY <1>3, <1>4 DEF Boxed
  <1>6. QED
    BY <1>4, <1>5, Stutters DEF Refines

LEMMA RunJobBoxed == ASSUME Boxed, RunJob PROVE Boxed' /\ Refines
  <1> DEFINE j == Head(strand)
             news == Message("news", 0)
  <1>1. /\ strand # <<>> /\ strand' = Tail(strand)
        /\ asioRun = "idle" /\ asioRun' = "process"
        /\ \/ j.job = "message" /\ asioQueue' = <<j.message>>
           \/ j.job # "message" /\ asioQueue' \in {<<>>, <<news>>}
        /\ UNCHANGED <<queue, inbound, sent, pings_left, evState>>
    BY DEF RunJob, evVars
  <1>2. news \in AtAsio /\ news.n = 0
    BY Unasked DEF Remote, AtAsio, FromEv
  <1>3. /\ AsioJobs \in SUBSET Jobs
        /\ strand \in Seq(AsioJobs) /\ JobsSorted(strand) /\ asioQueue = <<>>
    BY <1>1 DEF AsioJobs, Boxed
  <1>4. /\ j \in AsioJobs /\ strand' \in Seq(AsioJobs) /\ JobsSorted(strand')
        /\ JobNumbers(strand) = JobNumbers(strand') \cup ({JobNumber(j)} \ {0})
        /\ JobNumber(j) > 0 => \A k \in JobNumbers(strand') : JobNumber(j) < k
    BY <1>1, <1>3, JobsSortedFirst
  <1> HIDE DEF j, news
  <1>5. /\ asioQueue' \in Seq(AtAsio) /\ Sorted(asioQueue')
        /\ Numbers(asioQueue') = {JobNumber(j)} \ {0}
    <2>1. CASE j.job = "message"
      <3>1. j.message \in AtAsio /\ JobNumber(j) = j.message.n
        BY <1>4, <2>1 DEF AsioJobs, ToAsio, JobNumber
      <3>2. /\ asioQueue' \in Seq(AtAsio) /\ Len(asioQueue') = 1
            /\ asioQueue'[1] = j.message
        BY <1>1, <2>1, <3>1
      <3>3. QED
        BY <3>1, <3>2 DEF Numbers, Sorted
    <2>2. CASE j.job # "message"
      <3>1. JobNumber(j) = 0
        BY <2>2 DEF JobNumber
      <3>2. \/ asioQueue' = <<>> /\ Len(asioQueue') = 0
            \/ asioQueue' = <<news>> /\ Len(asioQueue') = 1 /\ asioQueue'[1] = news
        BY <1>1, <2>2
      <3>3. asioQueue' \in Seq(AtAsio)
        <4>1. <<>> \in Seq(AtAsio) /\ <<news>> \in Seq(AtAsio)
          BY <1>2
        <4>2. QED
          BY <3>2, <4>1
      <3>4. QED
        BY <1>2, <3>1, <3>2, <3>3 DEF Numbers, Sorted
    <2>3. QED
      BY <2>1, <2>2
  <1>6. Numbers(asioQueue) = {}
    <2>1. asioQueue = <<>> /\ Len(<<>>) = 0
      BY <1>3
    <2>2. QED
      BY <2>1 DEF Numbers
  <1>7. EvBox' = EvBox /\ AsioBox' = AsioBox
    BY <1>1, <1>4, <1>5, <1>6 DEF EvBox, AsioBox
  <1>8. \A k \in Numbers(asioQueue'), n \in JobNumbers(strand') : k < n
    <2>1. JobNumber(j) \in Nat
      BY <1>4 DEF AsioJobs, ToAsio, AtAsio, JobNumber, Messages
    <2>2. QED
      BY <1>4, <1>5, <2>1
  <1>9. Boxed'
    BY <1>1, <1>4, <1>5, <1>7, <1>8 DEF Boxed
  <1>10. QED
    BY <1>1, <1>7, <1>9, Stutters DEF Refines

\* The handlers of the asio side that send nothing to the other.
LEMMA PongerBoxed == ASSUME Boxed, AsioProcess, OnPing \/ OnNotice PROVE Boxed' /\ Refines
  <1> DEFINE h == Head(asioQueue)
             pong == Message("pong", h.id)
  <1>1. /\ asioQueue # <<>> /\ asioRun # "idle"
        /\ h.kind \in {"ping", "notice"}
        /\ asioQueue' \in {Tail(asioQueue), Append(Tail(asioQueue), pong)}
        /\ UNCHANGED <<inbound, queue, strand, asioRun, sent, pings_left, evState>>
    BY DEF AsioProcess, OnPing, OnNotice
  <1>2. h \in AtAsio
    BY <1>1, FirstOf DEF Boxed, AtAsio
  <1>3. h.n > 0 /\ h.n \in Nat /\ h.id \in 0 .. Pings
    BY <1>1, <1>2 DEF AtAsio, FromEv, Messages
  <1>4. pong \in AtAsio /\ pong.n = 0
    BY <1>3, MessageType DEF Remote, AtAsio, FromEv
  <1> HIDE DEF pong
  <1>5. /\ asioQueue' \in Seq(AtAsio) /\ Sorted(asioQueue')
        /\ Numbers(asioQueue') \subseteq Numbers(asioQueue)
        /\ h.n \in AsioBox
        /\ \A k \in AsioBox : h.n <= k
        /\ Numbers(asioQueue') \cup JobNumbers(strand) = AsioBox \ {h.n}
    BY <1>1, <1>3, <1>4, AsioHandles
  <1> HIDE DEF h
  <1>6. /\ Boxed' /\ EvBox' = EvBox
        /\ AsioBox' = Numbers(asioQueue') \cup JobNumbers(strand)
    BY <1>1, <1>5, AsioBoxed
  <1>7. PICK n \in AsioBox : n = h.n
    BY <1>5
  <1>8. (\A k \in AsioBox : n <= k) /\ AsioBox' = AsioBox \ {n}
    BY <1>5, <1>6, <1>7
  <1>9. Box!Next
    BY <1>1, <1>6, <1>8, AsioTakes
  <1>10. QED
    BY <1>6, <1>9 DEF Refines

LEMMA StepBoxed == ASSUME Boxed, [Next]_vars PROVE Boxed' /\ Refines
  <1>1. CASE UNCHANGED vars
    BY <1>1, Idles DEF vars, evVars, asioVars, Boxed
  <1>2. CASE Starts \/ OnAsync \/ Processed \/ Stop \/ EvRunReturns \/ Joins
    <2>1. UNCHANGED <<queue, inbound, asioQueue, strand, asioRun, sent, pings_left, evState>>
      BY <1>2 DEF Starts, OnAsync, Processed, Stop, EvRunReturns, Joins, evVars, asioVars
    <2>2. QED
      BY <2>1, Idles DEF Boxed
  <1>3. CASE AsyncSend \/ AsioProcessed
    <2>1. /\ UNCHANGED <<queue, inbound, asioQueue, strand, sent, pings_left, evState>>
          /\ asioRun' = "idle" => asioQueue = <<>>
      BY <1>3 DEF AsyncSend, AsioProcessed, evVars
    <2>2. QED
      BY <2>1, Idles
  <1>4. CASE Announce \/ ShutsAsioDown
    <2>1. /\ UNCHANGED <<queue, inbound, asioQueue, asioRun, sent, pings_left, evState>>
          /\ \/ strand' = Append(strand, [job |-> "announce"])
             \/ strand' = Append(strand, [job |-> "shutdown"])
      BY <1>4 DEF Announce, ShutsAsioDown, evVars
    <2>2. PICK j \in Jobs : j.job # "message" /\ strand' = Append(strand, j)
      BY <2>1, JobType
    <2>3. QED
      BY <2>1, <2>2, JobBoxed
  <1>5. CASE Process
    BY <1>5, EvHandlersBoxed, ToPongerBoxed, OnLeaveBoxed DEF Process
  <1>6. CASE AsioProcess
    BY <1>6, PongerBoxed, ToPingerBoxed DEF AsioProcess
  <1>7. CASE MoveInbound \/ RunJob \/ \E id \in Ids : TimerCb(id)
    BY <1>7, MoveInboundBoxed, RunJobBoxed, TimerCbBoxed
  <1>8. QED
    BY <1>1, <1>2, <1>3, <1>4, <1>5, <1>6, <1>7 DEF Next, MainThread, AsioThread

\* However enqueue(), on_async(), shutdown_finish() and the jobs of the strand
\* interleave, the messages wait in the order they were sent in and none twice.
THEOREM MessagesInOrder == Spec => []WaitInOrder
  <1>1. Boxed /\ [Next]_vars => Boxed'
    BY StepBoxed
  <1>2. Boxed => WaitInOrder
    BY DEF Boxed, WaitInOrder
  <1>3. QED
    BY <1>1, <1>2, BoxedInit, PTL DEF Spec

\* The safety of Inbox: what is sent to a loop is taken once, in the order it was
\* sent, and only an ev supervisor that is SHUT_DOWN refuses a message.
KeepsPromise == Box!Init /\ [][Box!Next]_<<sent, Boxes, Closed>>

THEOREM PromiseKept == Spec => KeepsPromise
  <1>1. Init => Box!Init
    BY BoxedInit
  <1>2. Boxed /\ [Next]_vars => Boxed'
    BY StepBoxed
  <1>3. Boxed /\ [Next]_vars => [Box!Next]_<<sent, Boxes, Closed>>
    BY StepBoxed DEF Refines
  <1>4. QED
    BY <1>1, <1>2, <1>3, BoxedInit, PTL DEF Spec, KeepsPromise
=============================================================================

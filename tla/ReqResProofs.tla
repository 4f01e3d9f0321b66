---------------------------- MODULE ReqResProofs ----------------------------
(***************************************************************************)
(* Proofs about ReqRes for any set of actors and any bounds: its type      *)
(* invariant, that a request is answered at most once, that the maps the   *)
(* asserts rest on agree, and that ReqRes implements Exchange.             *)
(***************************************************************************)
EXTENDS ReqRes, TLAPS

\* No two answers to one request wait in the queue.
OneAnswerEach(q) ==
    \A i, j \in 1 .. Len(q) :
        /\ q[i].kind = "answer"
        /\ q[j].kind = "answer"
        /\ q[i].id = q[j].id
        => i = j

\* An id that was not given out yet left no trace.
Fresh ==
    \A id \in Ids :
        /\ id > last_req_id <=> owner[id] = Nobody
        /\ id > last_req_id => /\ id \notin request_map
                               /\ ~QueuedAnswer(queue, id)
                               /\ answers[id] = <<>>
                               /\ id \notin discarded

\* The places a request may be in exclude each other: waited for, on its way
\* to the author, seen by the author, given up.
Exclusive ==
    \A id \in Ids :
        /\ id \in request_map => ~QueuedAnswer(queue, id)
        /\ id \in request_map \/ QueuedAnswer(queue, id) \/ id \in discarded
              => answers[id] = <<>>
        /\ id \in discarded => id \notin request_map /\ ~QueuedAnswer(queue, id)

Inv ==
    /\ TypeOK
    /\ Fresh
    /\ Exclusive
    /\ OneAnswerEach(queue)
    /\ AtMostOneAnswer
    /\ RequestsHaveTimers
    /\ sup_down => alive = {}

---------------------------------------------------------------------------
\* What the properties need to know of putting a message into the queue.
LEMMA Put ==
    ASSUME NEW q \in Seq(Messages), NEW m \in Messages
    PROVE  /\ Append(q, m) \in Seq(Messages)
           /\ \A id \in Ids : QueuedAnswer(Append(q, m), id)
                                <=> \/ QueuedAnswer(q, id)
                                    \/ m.kind = "answer" /\ m.id = id
           /\ OneAnswerEach(q) /\ (m.kind = "answer" => ~QueuedAnswer(q, m.id))
                => OneAnswerEach(Append(q, m))
  <1> DEFINE r == Append(q, m)
  <1>1. /\ r \in Seq(Messages)
        /\ Len(r) = Len(q) + 1
        /\ Len(q) \in Nat
        /\ r[Len(q) + 1] = m
        /\ \A i \in 1 .. Len(q) : r[i] = q[i]
    OBVIOUS
  <1> HIDE DEF r
  <1>2. ASSUME NEW id \in Ids
        PROVE  QueuedAnswer(r, id) <=> \/ QueuedAnswer(q, id)
                                       \/ m.kind = "answer" /\ m.id = id
    <2>1. ASSUME QueuedAnswer(r, id), ~QueuedAnswer(q, id)
          PROVE  m.kind = "answer" /\ m.id = id
      BY <1>1, <2>1 DEF QueuedAnswer
    <2>2. ASSUME QueuedAnswer(q, id) PROVE QueuedAnswer(r, id)
      BY <1>1, <2>2 DEF QueuedAnswer
    <2>3. ASSUME m.kind = "answer", m.id = id PROVE QueuedAnswer(r, id)
      BY <1>1, <2>3 DEF QueuedAnswer
    <2>4. QED
      BY <2>1, <2>2, <2>3
  <1>3. ASSUME OneAnswerEach(q), m.kind = "answer" => ~QueuedAnswer(q, m.id)
        PROVE  OneAnswerEach(r)
    <2>1. SUFFICES ASSUME NEW i \in 1 .. Len(r), NEW j \in 1 .. Len(r),
                          r[i].kind = "answer", r[j].kind = "answer",
                          r[i].id = r[j].id
                   PROVE  i = j
      BY DEF OneAnswerEach
    <2>2. CASE i \in 1 .. Len(q) /\ j \in 1 .. Len(q)
      BY <1>1, <1>3, <2>1, <2>2 DEF OneAnswerEach
    <2>3. CASE i = Len(q) + 1 /\ j \in 1 .. Len(q)
      BY <1>1, <1>3, <2>1, <2>3 DEF QueuedAnswer
    <2>4. CASE j = Len(q) + 1 /\ i \in 1 .. Len(q)
      BY <1>1, <1>3, <2>1, <2>4 DEF QueuedAnswer
    <2>5. QED
      BY <1>1, <2>1, <2>2, <2>3, <2>4
  <1>4. QED
    BY <1>1, <1>2, <1>3 DEF r

\* And of taking the message at its head.
LEMMA Take ==
    ASSUME NEW q \in Seq(Messages), q # <<>>
    PROVE  /\ Tail(q) \in Seq(Messages)
           /\ Head(q) \in Messages
           /\ \A id \in Ids : QueuedAnswer(q, id)
                                <=> \/ QueuedAnswer(Tail(q), id)
                                    \/ Head(q).kind = "answer" /\ Head(q).id = id
           /\ OneAnswerEach(q)
                => /\ OneAnswerEach(Tail(q))
                   /\ Head(q).kind = "answer" => ~QueuedAnswer(Tail(q), Head(q).id)
  <1> DEFINE r == Tail(q)
             h == Head(q)
  <1>1. /\ r \in Seq(Messages)
        /\ h \in Messages
        /\ Len(q) \in Nat
        /\ Len(q) > 0
        /\ Len(r) = Len(q) - 1
        /\ h = q[1]
        /\ \A i \in 1 .. Len(r) : r[i] = q[i + 1]
    OBVIOUS
  <1> HIDE DEF r, h
  <1>2. ASSUME NEW id \in Ids
        PROVE  QueuedAnswer(q, id) <=> \/ QueuedAnswer(r, id)
                                       \/ h.kind = "answer" /\ h.id = id
    <2>1. ASSUME QueuedAnswer(q, id), ~(h.kind = "answer" /\ h.id = id)
          PROVE  QueuedAnswer(r, id)
      <3>1. PICK i \in 1 .. Len(q) : q[i].kind = "answer" /\ q[i].id = id
        BY <2>1 DEF QueuedAnswer
      <3>2. i # 1
        BY <1>1, <2>1, <3>1
      <3>3. i - 1 \in 1 .. Len(r) /\ r[i - 1] = q[i]
        BY <1>1, <3>2
      <3>4. QED
        BY <3>1, <3>3 DEF QueuedAnswer
    <2>2. ASSUME QueuedAnswer(r, id) PROVE QueuedAnswer(q, id)
      <3>1. PICK i \in 1 .. Len(r) : r[i].kind = "answer" /\ r[i].id = id
        BY <2>2 DEF QueuedAnswer
      <3>2. i + 1 \in 1 .. Len(q) /\ r[i] = q[i + 1]
        BY <1>1
      <3>3. QED
        BY <3>1, <3>2 DEF QueuedAnswer
    <2>3. ASSUME h.kind = "answer", h.id = id PROVE QueuedAnswer(q, id)
      <3>1. 1 \in 1 .. Len(q)
        BY <1>1
      <3>2. QED
        BY <1>1, <2>3, <3>1 DEF QueuedAnswer
    <2>4. QED
      BY <2>1, <2>2, <2>3
  <1>3. ASSUME OneAnswerEach(q) PROVE OneAnswerEach(r)
    <2>1. SUFFICES ASSUME NEW i \in 1 .. Len(r), NEW j \in 1 .. Len(r),
                          r[i].kind = "answer", r[j].kind = "answer",
                          r[i].id = r[j].id
                   PROVE  i = j
      BY DEF OneAnswerEach
    <2>2. /\ i + 1 \in 1 .. Len(q) /\ r[i] = q[i + 1]
          /\ j + 1 \in 1 .. Len(q) /\ r[j] = q[j + 1]
      BY <1>1
    <2>3. i + 1 = j + 1
      BY <1>3, <2>1, <2>2 DEF OneAnswerEach
    <2>4. QED
      BY <2>3
  <1>4. ASSUME OneAnswerEach(q), h.kind = "answer"
        PROVE  ~QueuedAnswer(r, h.id)
    <2>1. SUFFICES ASSUME NEW i \in 1 .. Len(r), r[i].kind = "answer", r[i].id = h.id
                   PROVE  FALSE
      BY DEF QueuedAnswer
    <2>2. i + 1 \in 1 .. Len(q) /\ r[i] = q[i + 1] /\ 1 \in 1 .. Len(q)
      BY <1>1
    <2>3. i + 1 = 1
      BY <1>1, <1>4, <2>1, <2>2 DEF OneAnswerEach
    <2>4. QED
      BY <2>3
  <1>5. QED
    BY <1>1, <1>2, <1>3, <1>4 DEF r, h

---------------------------------------------------------------------------
\* The invariant holds in the initial state.
LEMMA InvInit == Init => Inv
  <1> SUFFICES ASSUME Init PROVE Inv
    OBVIOUS
  <1> USE ActorsAssumption, BoundsAssumption
  <1>1. TypeOK
    <2>1. last_req_id \in 0 .. MaxRequests /\ queue \in Seq(Messages)
      BY DEF Init
    <2>2. answers \in [Ids -> Seq(Outcomes)]
      BY DEF Init
    <2>3. held \in [Ids -> 0 .. MaxReplies] /\ mapping \in [Actors -> MappingStates]
      BY DEF Init, MappingStates
    <2>4. QED
      BY <2>1, <2>2, <2>3 DEF Init, TypeOK
  <1>2. \A id \in Ids : ~QueuedAnswer(queue, id)
    BY DEF Init, QueuedAnswer
  <1>3. Fresh /\ Exclusive
    BY <1>2 DEF Init, Fresh, Exclusive, Ids
  <1>4. OneAnswerEach(queue) /\ AtMostOneAnswer
    BY DEF Init, OneAnswerEach, AtMostOneAnswer
  <1>5. QED
    BY <1>1, <1>3, <1>4 DEF Inv, Init, RequestsHaveTimers

\* The steps that only put a message that is no answer, or nothing, into the
\* queue and leave the requests alone.
LEMMA Quiet ==
    ASSUME Inv, TypeOK',
           UNCHANGED <<last_req_id, owner, request_map, timers_map, answers,
                       discarded, sup_down>>,
           alive' \subseteq alive,
           \A id \in Ids : QueuedAnswer(queue', id) <=> QueuedAnswer(queue, id),
           OneAnswerEach(queue')
    PROVE  Inv'
  <1>1. Fresh' /\ Exclusive'
    BY DEF Inv, Fresh, Exclusive
  <1>2. AtMostOneAnswer' /\ RequestsHaveTimers' /\ (sup_down' => alive' = {})
    BY DEF Inv, AtMostOneAnswer, RequestsHaveTimers
  <1>3. QED
    BY <1>1, <1>2 DEF Inv

\* Every step keeps the invariant.
LEMMA InvNext == Inv /\ [Next]_vars => Inv'
  <1> SUFFICES ASSUME Inv, [Next]_vars PROVE Inv'
    OBVIOUS
  <1> USE ActorsAssumption, BoundsAssumption
  <1>1. ASSUME NEW a \in Actors, SendRequest(a) PROVE Inv'
    <2> DEFINE id == last_req_id + 1
               m == [kind |-> "request", id |-> id]
    <2>1. id \in Ids /\ m \in Messages /\ m.kind # "answer"
      BY <1>1 DEF SendRequest, Inv, TypeOK, Ids, Messages, Request
    <2>2. queue' = Append(queue, m)
      BY <1>1 DEF SendRequest
    <2>3. /\ queue' \in Seq(Messages)
          /\ \A i \in Ids : QueuedAnswer(queue', i) <=> QueuedAnswer(queue, i)
          /\ OneAnswerEach(queue')
      BY <2>1, <2>2, Put DEF Inv, TypeOK
    <2>4. owner[id] = Nobody
      BY <2>1 DEF Inv, TypeOK, Fresh, Ids
    <2>5. TypeOK'
      BY <1>1, <2>1, <2>3 DEF SendRequest, Inv, TypeOK, Ids, MappingStates
    <2>6. Fresh'
      <3> SUFFICES ASSUME NEW i \in Ids
                   PROVE  /\ i > last_req_id' <=> owner'[i] = Nobody
                          /\ i > last_req_id' => /\ i \notin request_map'
                                                 /\ ~QueuedAnswer(queue', i)
                                                 /\ answers'[i] = <<>>
                                                 /\ i \notin discarded'
        BY DEF Fresh
      <3>1. last_req_id' = id /\ last_req_id \in Nat /\ i \in Nat
        BY <1>1 DEF SendRequest, Inv, TypeOK, Ids
      <3>2. owner'[i] = IF i = id THEN a ELSE owner[i]
        BY <1>1, <2>1 DEF SendRequest, Inv, TypeOK
      <3>3. QED
        BY <1>1, <2>3, <3>1, <3>2 DEF SendRequest, Inv, Fresh
    <2>7. Exclusive'
      <3>1. /\ id > last_req_id
            /\ id \notin request_map /\ ~QueuedAnswer(queue, id)
            /\ answers[id] = <<>> /\ id \notin discarded
        BY <2>1 DEF Inv, TypeOK, Fresh, Ids
      <3>2. request_map' = request_map \cup {id} /\ UNCHANGED <<answers, discarded>>
        BY <1>1 DEF SendRequest
      <3>3. QED
        BY <2>3, <3>1, <3>2 DEF Inv, Exclusive
    <2>8. AtMostOneAnswer' /\ RequestsHaveTimers' /\ (sup_down' => alive' = {})
      BY <1>1 DEF SendRequest, Inv, AtMostOneAnswer, RequestsHaveTimers
    <2>9. QED
      BY <2>3, <2>5, <2>6, <2>7, <2>8 DEF Inv
  <1>2. ASSUME DeliverRequest PROVE Inv'
    <2>1. Head(queue).kind # "answer" /\ Head(queue) \in Messages
      BY <1>2, Take DEF DeliverRequest, Inv, TypeOK
    <2>2. /\ queue' \in Seq(Messages)
          /\ \A i \in Ids : QueuedAnswer(queue', i) <=> QueuedAnswer(queue, i)
          /\ OneAnswerEach(queue')
      BY <1>2, <2>1, Take DEF DeliverRequest, Inv, TypeOK
    <2>3. TypeOK'
      BY <1>2, <2>1, <2>2
         DEF DeliverRequest, Inv, TypeOK, Messages, Request, Response, Answer,
             Unsubscription
    <2>4. QED
      BY <1>2, <2>2, <2>3, Quiet DEF DeliverRequest
  <1>3. ASSUME NEW id \in Ids, ServerReplies(id) PROVE Inv'
    <2> DEFINE m == [kind |-> "response", id |-> id]
    <2>1. m \in Messages /\ m.kind # "answer" /\ queue' = Append(queue, m)
      BY <1>3 DEF ServerReplies, Messages, Response
    <2>2. /\ queue' \in Seq(Messages)
          /\ \A i \in Ids : QueuedAnswer(queue', i) <=> QueuedAnswer(queue, i)
          /\ OneAnswerEach(queue')
      BY <2>1, Put DEF Inv, TypeOK
    <2>3. TypeOK'
      BY <1>3, <2>2 DEF ServerReplies, Inv, TypeOK
    <2>4. QED
      BY <1>3, <2>2, <2>3, Quiet DEF ServerReplies
  <1>4. ASSUME ForwardResponse PROVE Inv'
    <2> DEFINE id == Head(queue).id
               m == AnswerTo(id, "reply")
    <2>1. /\ Tail(queue) \in Seq(Messages)
          /\ \A i \in Ids : QueuedAnswer(Tail(queue), i) <=> QueuedAnswer(queue, i)
          /\ OneAnswerEach(Tail(queue))
      BY <1>4, Take DEF ForwardResponse, Inv, TypeOK
    <2>2. /\ id \in Ids /\ id \in request_map
          /\ m \in Messages /\ m.kind = "answer" /\ m.id = id
          /\ queue' = Append(Tail(queue), m)
      BY <1>4 DEF ForwardResponse, Inv, TypeOK, Messages, Answer, AnswerTo, Outcomes
    <2>3. ~QueuedAnswer(Tail(queue), m.id)
      BY <2>1, <2>2 DEF Inv, Exclusive
    <2>4. /\ queue' \in Seq(Messages)
          /\ \A i \in Ids : QueuedAnswer(queue', i) <=> QueuedAnswer(queue, i) \/ i = id
          /\ OneAnswerEach(queue')
      <3> DEFINE t == Tail(queue)
      <3> HIDE DEF t, m, id
      <3>1. /\ t \in Seq(Messages)
            /\ \A i \in Ids : QueuedAnswer(t, i) <=> QueuedAnswer(queue, i)
            /\ OneAnswerEach(t)
            /\ queue' = Append(t, m)
        BY <2>1, <2>2 DEF t
      <3>2. ~QueuedAnswer(t, m.id)
        BY <2>3 DEF t
      <3>3. m \in Messages /\ m.kind = "answer" /\ m.id = id
        BY <2>2
      <3>4. /\ Append(t, m) \in Seq(Messages)
            /\ \A i \in Ids : QueuedAnswer(Append(t, m), i) <=> QueuedAnswer(t, i) \/ i = id
            /\ OneAnswerEach(Append(t, m))
        BY <3>1, <3>2, <3>3, Put
      <3>5. QED
        BY <3>1, <3>4
    <2>5. TypeOK'
      BY <1>4, <2>4 DEF ForwardResponse, Inv, TypeOK
    <2>6. Fresh'
      BY <1>4, <2>2, <2>4 DEF ForwardResponse, Inv, Fresh
    <2>7. Exclusive'
      BY <1>4, <2>2, <2>4 DEF ForwardResponse, Inv, Exclusive
    <2>8. AtMostOneAnswer' /\ RequestsHaveTimers' /\ (sup_down' => alive' = {})
      BY <1>4 DEF ForwardResponse, Inv, AtMostOneAnswer, RequestsHaveTimers
    <2>9. QED
      BY <2>4, <2>5, <2>6, <2>7, <2>8 DEF Inv
  <1>5. ASSUME DropResponse PROVE Inv'
    <2>1. Head(queue).kind # "answer"
      BY <1>5 DEF DropResponse
    <2>2. /\ queue' \in Seq(Messages)
          /\ \A i \in Ids : QueuedAnswer(queue', i) <=> QueuedAnswer(queue, i)
          /\ OneAnswerEach(queue')
      BY <1>5, <2>1, Take DEF DropResponse, Inv, TypeOK
    <2>3. TypeOK'
      BY <1>5, <2>2 DEF DropResponse, Inv, TypeOK
    <2>4. QED
      BY <1>5, <2>2, <2>3, Quiet DEF DropResponse
  <1>6. ASSUME DeliverAnswer PROVE Inv'
    <2> DEFINE m == Head(queue)
    <2>1. /\ m.kind = "answer" /\ m.id \in Ids /\ m.outcome \in Outcomes
          /\ QueuedAnswer(queue, m.id)
          /\ queue' = Tail(queue)
      BY <1>6, Take DEF DeliverAnswer, Inv, TypeOK, Messages, Request, Response,
                        Answer, Unsubscription
    <2>2. /\ queue' \in Seq(Messages)
          /\ \A i \in Ids : QueuedAnswer(queue', i)
                               <=> QueuedAnswer(queue, i) /\ i # m.id
          /\ OneAnswerEach(queue')
      BY <1>6, <2>1, Take DEF DeliverAnswer, Inv, TypeOK
    <2>3. answers[m.id] = <<>> /\ m.id \notin request_map /\ m.id \notin discarded
      BY <2>1 DEF Inv, Exclusive
    <2>4. \A i \in Ids : \/ answers'[i] = answers[i]
                         \/ i = m.id /\ answers'[i] = <<m.outcome>>
      BY <1>6, <2>1, <2>3 DEF DeliverAnswer, Inv, TypeOK
    <2>5. TypeOK'
      BY <1>6, <2>1, <2>2 DEF DeliverAnswer, Inv, TypeOK
    <2>6. Fresh'
      BY <1>6, <2>1, <2>2, <2>4 DEF DeliverAnswer, Inv, Fresh
    <2>7. Exclusive'
      BY <1>6, <2>2, <2>3, <2>4 DEF DeliverAnswer, Inv, Exclusive
    <2>8. AtMostOneAnswer'
      <3> SUFFICES ASSUME NEW i \in Ids PROVE Len(answers'[i]) <= 1
        BY DEF AtMostOneAnswer
      <3>1. Len(answers[i]) <= 1 /\ Len(<<m.outcome>>) = 1
        BY DEF Inv, AtMostOneAnswer
      <3>2. CASE answers'[i] = answers[i]
        BY <3>1, <3>2
      <3>3. CASE answers'[i] = <<m.outcome>>
        BY <3>1, <3>3
      <3>4. QED
        BY <2>4, <3>2, <3>3
    <2>9. RequestsHaveTimers' /\ (sup_down' => alive' = {})
      BY <1>6 DEF DeliverAnswer, Inv, RequestsHaveTimers
    <2>10. QED
      BY <2>2, <2>5, <2>6, <2>7, <2>8, <2>9 DEF Inv
  <1>7. ASSUME NEW id \in Ids, TimerExpires(id) PROVE Inv'
    <2>1. TypeOK'
      BY <1>7 DEF TimerExpires, Inv, TypeOK
    <2>2. QED
      BY <1>7, <2>1, Quiet DEF TimerExpires, Inv
  <1>8. ASSUME NEW id \in Ids, TimerFires(id) PROVE Inv'
    <2> DEFINE m == AnswerTo(id, "timeout")
    <2>1. CASE id \in timers_map
      <3>1. id \in request_map /\ ~QueuedAnswer(queue, m.id)
        BY <2>1 DEF Inv, RequestsHaveTimers, Exclusive, AnswerTo
      <3>2. /\ m \in Messages /\ m.kind = "answer" /\ m.id = id
            /\ queue' = Append(queue, m)
            /\ request_map' = request_map \ {id}
        BY <1>8, <2>1, <3>1 DEF TimerFires, Messages, Answer, AnswerTo, Outcomes
      <3>3. /\ queue' \in Seq(Messages)
            /\ \A i \in Ids : QueuedAnswer(queue', i) <=> QueuedAnswer(queue, i) \/ i = id
            /\ OneAnswerEach(queue')
        BY <3>1, <3>2, Put DEF Inv, TypeOK
      <3>4. TypeOK'
        BY <1>8, <3>2, <3>3 DEF TimerFires, Inv, TypeOK
      <3>5. Fresh'
        BY <1>8, <3>1, <3>2, <3>3 DEF TimerFires, Inv, Fresh
      <3>6. Exclusive'
        BY <1>8, <3>1, <3>2, <3>3 DEF TimerFires, Inv, Exclusive
      <3>7. AtMostOneAnswer' /\ RequestsHaveTimers' /\ (sup_down' => alive' = {})
        BY <1>8, <3>2 DEF TimerFires, Inv, AtMostOneAnswer, RequestsHaveTimers
      <3>8. QED
        BY <3>3, <3>4, <3>5, <3>6, <3>7 DEF Inv
    <2>2. CASE id \notin timers_map
      <3>1. UNCHANGED <<queue, request_map, timers_map>>
        BY <1>8, <2>2 DEF TimerFires
      <3>2. TypeOK'
        BY <1>8, <3>1 DEF TimerFires, Inv, TypeOK
      <3>3. QED
        BY <1>8, <3>1, <3>2, Quiet DEF TimerFires, Inv
    <2>3. QED
      BY <2>1, <2>2
  <1>9. ASSUME NEW id \in Ids, DiscardRequest(id) PROVE Inv'
    <2>1. id \in request_map /\ ~QueuedAnswer(queue, id) /\ answers[id] = <<>>
      BY <1>9 DEF DiscardRequest, Inv, RequestsHaveTimers, Exclusive
    <2>2. TypeOK'
      BY <1>9 DEF DiscardRequest, Inv, TypeOK
    <2>3. Fresh' /\ Exclusive'
      BY <1>9, <2>1 DEF DiscardRequest, Inv, Fresh, Exclusive
    <2>4. AtMostOneAnswer' /\ RequestsHaveTimers' /\ (sup_down' => alive' = {})
      BY <1>9 DEF DiscardRequest, Inv, AtMostOneAnswer, RequestsHaveTimers
    <2>5. OneAnswerEach(queue')
      BY <1>9 DEF DiscardRequest, Inv
    <2>6. QED
      BY <2>2, <2>3, <2>4, <2>5 DEF Inv
  <1>10. ASSUME NEW a \in Actors, ActorLeaves(a) PROVE Inv'
    <2>1. TypeOK'
      BY <1>10 DEF ActorLeaves, Inv, TypeOK
    <2>2. QED
      BY <1>10, <2>1, Quiet DEF ActorLeaves, Inv
  <1>11. ASSUME NEW a \in Actors, UnsubscribeMapping(a) PROVE Inv'
    <2> DEFINE m == [kind |-> "unsubscription", actor |-> a]
    <2>1. m \in Messages /\ m.kind # "answer" /\ queue' = Append(queue, m)
      BY <1>11 DEF UnsubscribeMapping, Messages, Unsubscription
    <2>2. /\ queue' \in Seq(Messages)
          /\ \A i \in Ids : QueuedAnswer(queue', i) <=> QueuedAnswer(queue, i)
          /\ OneAnswerEach(queue')
      BY <2>1, Put DEF Inv, TypeOK
    <2>3. TypeOK'
      BY <1>11, <2>2 DEF UnsubscribeMapping, Inv, TypeOK, MappingStates
    <2>4. QED
      BY <1>11, <2>2, <2>3, Quiet DEF UnsubscribeMapping
  <1>12. ASSUME DeliverUnsubscription PROVE Inv'
    <2>1. Head(queue).kind # "answer"
      BY <1>12 DEF DeliverUnsubscription
    <2>2. /\ queue' \in Seq(Messages)
          /\ \A i \in Ids : QueuedAnswer(queue', i) <=> QueuedAnswer(queue, i)
          /\ OneAnswerEach(queue')
      BY <1>12, <2>1, Take DEF DeliverUnsubscription, Inv, TypeOK
    <2>3. TypeOK'
      BY <1>12, <2>2 DEF DeliverUnsubscription, Inv, TypeOK, MappingStates
    <2>4. QED
      BY <1>12, <2>2, <2>3, Quiet DEF DeliverUnsubscription
  <1>13. ASSUME ShutdownFinish PROVE Inv'
    <2>1. request_map' = {} /\ timers_map' = {} /\ alive' = {}
      BY <1>13 DEF ShutdownFinish, Inv, RequestsHaveTimers
    <2>2. TypeOK'
      BY <1>13, <2>1 DEF ShutdownFinish, Inv, TypeOK
    <2>3. Fresh' /\ Exclusive'
      BY <1>13, <2>1 DEF ShutdownFinish, Inv, Fresh, Exclusive
    <2>4. AtMostOneAnswer' /\ RequestsHaveTimers' /\ OneAnswerEach(queue')
      BY <1>13, <2>1 DEF ShutdownFinish, Inv, AtMostOneAnswer, RequestsHaveTimers
    <2>5. QED
      BY <2>1, <2>2, <2>3, <2>4 DEF Inv
  <1>14. CASE UNCHANGED vars
    <2>1. TypeOK'
      BY <1>14 DEF vars, Inv, TypeOK
    <2>2. QED
      BY <1>14, <2>1, Quiet DEF vars, Inv
  <1>15. QED
    BY <1>1, <1>2, <1>3, <1>4, <1>5, <1>6, <1>7, <1>8, <1>9, <1>10, <1>11,
       <1>12, <1>13, <1>14 DEF Next, Deliver

\* The strengthened invariant holds in every behaviour.
THEOREM Invariance == Spec => []Inv
  BY InvInit, InvNext, PTL DEF Spec

\* The types of the variables, for any actors and bounds.
THEOREM Typing == Spec => []TypeOK
  <1>1. Inv => TypeOK
    BY DEF Inv
  <1>2. QED
    BY <1>1, Invariance, PTL

\* The author of a request sees at most one answer to it.
THEOREM AnsweredOnce == Spec => []AtMostOneAnswer
  <1>1. Inv => AtMostOneAnswer
    BY DEF Inv
  <1>2. QED
    BY <1>1, Invariance, PTL

\* request_map and the timers agree, so the asserts of discard_request(),
\* cancel_timer() and shutdown_finish() hold.
THEOREM TimersGuardRequests == Spec => []RequestsHaveTimers
  <1>1. Inv => RequestsHaveTimers
    BY DEF Inv
  <1>2. QED
    BY <1>1, Invariance, PTL

\* A request that was discarded is never answered.
THEOREM DiscardedStaysSilent == Spec => []DiscardIsFinal
  <1>1. Inv => DiscardIsFinal
    BY DEF Inv, Exclusive, DiscardIsFinal, TypeOK
  <1>2. QED
    BY <1>1, Invariance, PTL

---------------------------------------------------------------------------
\* A step that moves no request from one place to another stutters in Exchange.
LEMMA Stutters ==
    ASSUME UNCHANGED <<owner, request_map, answers, alive>>,
           \A id \in Ids : QueuedAnswer(queue', id) <=> QueuedAnswer(queue, id)
    PROVE  UNCHANGED Ex!vars
  <1>1. \A id \in Ids : StatusOf(id)' = StatusOf(id)
    BY DEF StatusOf
  <1>2. QED
    BY <1>1 DEF Ex!vars

\* The status of the requests in a state where the invariant holds.
LEMMA StatusFacts ==
    ASSUME Inv, NEW id \in Ids
    PROVE  /\ StatusOf(id) = "idle" <=> owner[id] = Nobody
           /\ StatusOf(id) = "answered" <=> answers[id] # <<>>
           /\ StatusOf(id) = "asked" <=> id \in request_map \/ QueuedAnswer(queue, id)
  BY DEF Inv, Fresh, Exclusive, StatusOf

\* Every step of ReqRes is a step of Exchange or a stutter.
LEMMA StepRefines == Inv /\ Inv' /\ [Next]_vars => [Ex!Next]_(Ex!vars)
  <1> SUFFICES ASSUME Inv, Inv', [Next]_vars PROVE Ex!Next \/ UNCHANGED Ex!vars
    OBVIOUS
  <1> USE ActorsAssumption, BoundsAssumption
  <1> DEFINE st == [id \in Ids |-> StatusOf(id)]
  <1>0. /\ queue \in Seq(Messages)
        /\ \A i \in Ids : StatusOf(i)' \in Ex!Status
    BY DEF Inv, TypeOK, StatusOf, Ex!Status
  <1>1. ASSUME NEW a \in Actors, SendRequest(a) PROVE Ex!Next
    <2>0. PICK id \in Ids : id = last_req_id + 1
      BY <1>1 DEF SendRequest, Inv, TypeOK, Ids
    <2> DEFINE m == [kind |-> "request", id |-> id]
    <2>1. m \in Messages /\ m.kind # "answer" /\ queue' = Append(queue, m)
      BY <1>1, <2>0 DEF SendRequest, Messages, Request
    <2>2. \A i \in Ids : QueuedAnswer(queue', i) <=> QueuedAnswer(queue, i)
      BY <1>0, <2>1, Put
    <2>3. /\ owner' = [owner EXCEPT ![id] = a]
          /\ request_map' = request_map \cup {id}
          /\ a \in alive
          /\ UNCHANGED <<answers, alive>>
          /\ owner \in [Ids -> Actors \cup {Nobody}]
      BY <1>1, <2>0 DEF SendRequest, Inv, TypeOK
    <2>4. owner[id] = Nobody /\ answers[id] = <<>>
      BY <2>0 DEF Inv, TypeOK, Fresh, Ids
    <2>5. StatusOf(id) = "idle" /\ StatusOf(id)' = "asked"
      BY <2>3, <2>4 DEF StatusOf
    <2>6. \A i \in Ids : i # id => StatusOf(i)' = StatusOf(i)
      BY <2>1, <2>2, <2>3 DEF StatusOf
    <2>7. st' = [st EXCEPT ![id] = "asked"]
      BY <2>1, <2>5, <2>6
    <2>8. Ex!Ask(a, id)
      BY <2>1, <2>3, <2>5, <2>7 DEF Ex!Ask
    <2>9. QED
      BY <2>1, <2>8 DEF Ex!Next
  <1>2. ASSUME DeliverRequest \/ DropResponse \/ DeliverUnsubscription
        PROVE  UNCHANGED Ex!vars
    <2>1. queue # <<>> /\ Head(queue).kind # "answer" /\ queue' = Tail(queue)
      BY <1>2 DEF DeliverRequest, DropResponse, DeliverUnsubscription
    <2>2. \A i \in Ids : QueuedAnswer(queue', i) <=> QueuedAnswer(queue, i)
      BY <1>0, <2>1, Take
    <2>3. UNCHANGED <<owner, request_map, answers, alive>>
      BY <1>2 DEF DeliverRequest, DropResponse, DeliverUnsubscription
    <2>4. QED
      BY <2>2, <2>3, Stutters
  <1>3. ASSUME NEW id \in Ids, ServerReplies(id) PROVE UNCHANGED Ex!vars
    <2> DEFINE m == [kind |-> "response", id |-> id]
    <2>1. m \in Messages /\ m.kind # "answer" /\ queue' = Append(queue, m)
      BY <1>3 DEF ServerReplies, Messages, Response
    <2>2. \A i \in Ids : QueuedAnswer(queue', i) <=> QueuedAnswer(queue, i)
      BY <1>0, <2>1, Put
    <2>3. QED
      BY <1>3, <2>2, Stutters DEF ServerReplies
  <1>4. ASSUME NEW a \in Actors, UnsubscribeMapping(a) PROVE UNCHANGED Ex!vars
    <2> DEFINE m == [kind |-> "unsubscription", actor |-> a]
    <2>1. m \in Messages /\ m.kind # "answer" /\ queue' = Append(queue, m)
      BY <1>4 DEF UnsubscribeMapping, Messages, Unsubscription
    <2>2. \A i \in Ids : QueuedAnswer(queue', i) <=> QueuedAnswer(queue, i)
      BY <1>0, <2>1, Put
    <2>3. QED
      BY <1>4, <2>2, Stutters DEF UnsubscribeMapping
  <1>5. ASSUME ForwardResponse PROVE UNCHANGED Ex!vars
    <2> DEFINE id == Head(queue).id
               t == Tail(queue)
               m == AnswerTo(id, "reply")
    <2>1. /\ queue # <<>> /\ Head(queue).kind # "answer"
          /\ id \in request_map /\ id \in Ids
          /\ request_map' = request_map \ {id}
          /\ queue' = Append(t, m)
          /\ UNCHANGED <<owner, answers, alive>>
      BY <1>5 DEF ForwardResponse, Inv, TypeOK
    <2>2. m \in Messages /\ m.kind = "answer" /\ m.id = id
      BY <2>1 DEF Messages, Answer, AnswerTo, Outcomes
    <2>3. t \in Seq(Messages) /\ \A i \in Ids : QueuedAnswer(t, i) <=> QueuedAnswer(queue, i)
      BY <1>0, <2>1, Take
    <2> HIDE DEF id, t, m
    <2>4. \A i \in Ids : QueuedAnswer(Append(t, m), i) <=> QueuedAnswer(t, i) \/ i = id
      BY <2>2, <2>3, Put
    <2>5. \A i \in Ids : QueuedAnswer(queue', i) <=> QueuedAnswer(queue, i) \/ i = id
      BY <2>1, <2>3, <2>4
    <2>6. \A i \in Ids : StatusOf(i)' = StatusOf(i)
      BY <2>1, <2>5 DEF StatusOf
    <2>7. QED
      BY <2>1, <2>6 DEF Ex!vars
  <1>6. ASSUME DeliverAnswer PROVE Ex!Next
    <2>0. PICK id \in Ids : id = Head(queue).id
      BY <1>0, <1>6, Take DEF DeliverAnswer, Messages, Request, Response, Answer,
                              Unsubscription
    <2>1. /\ queue # <<>> /\ Head(queue).kind = "answer" /\ Head(queue).id = id
          /\ queue' = Tail(queue)
          /\ UNCHANGED <<owner, request_map, alive>>
      BY <1>6, <2>0 DEF DeliverAnswer
    <2>2. /\ QueuedAnswer(queue, id) /\ ~QueuedAnswer(queue', id)
          /\ \A i \in Ids : i # id =>
                (QueuedAnswer(queue', i) <=> QueuedAnswer(queue, i))
      BY <1>0, <2>1, Take DEF Inv
    <2>3. /\ owner[id] # Nobody /\ id \notin request_map /\ answers[id] = <<>>
          /\ answers \in [Ids -> Seq(Outcomes)]
      BY <2>1, <2>2 DEF Inv, TypeOK, Fresh, Exclusive
    <2>4. answers' = IF owner[id] \in alive
                    THEN [answers EXCEPT ![id] = Append(answers[id], Head(queue).outcome)]
                    ELSE answers
      BY <1>6, <2>0 DEF DeliverAnswer
    <2>5. StatusOf(id) = "asked"
      BY <2>2, <2>3 DEF StatusOf
    <2>6. CASE owner[id] \in alive
      <3>1. /\ answers'[id] # <<>>
            /\ \A i \in Ids : i # id => answers'[i] = answers[i]
        BY <2>3, <2>4, <2>6
      <3>2. StatusOf(id)' = "answered"
        BY <2>1, <2>3, <3>1 DEF StatusOf
      <3>3. \A i \in Ids : i # id => StatusOf(i)' = StatusOf(i)
        BY <2>1, <2>2, <3>1 DEF StatusOf
      <3>4. st' = [st EXCEPT ![id] = "answered"]
        BY <2>4, <3>2, <3>3
      <3>5. Ex!Answer(id)
        BY <2>1, <2>4, <2>5, <2>6, <3>4 DEF Ex!Answer
      <3>6. QED
        BY <2>4, <3>5 DEF Ex!Next
    <2>7. CASE owner[id] \notin alive
      <3>1. answers' = answers
        BY <2>4, <2>7
      <3>2. StatusOf(id)' = "withdrawn"
        BY <2>1, <2>2, <2>3, <2>4, <3>1 DEF StatusOf
      <3>3. \A i \in Ids : i # id => StatusOf(i)' = StatusOf(i)
        BY <2>1, <2>2, <3>1 DEF StatusOf
      <3>4. st' = [i \in Ids |-> IF i \in {id} THEN "withdrawn" ELSE st[i]]
        BY <2>4, <3>2, <3>3
      <3>5. Ex!Withdraw({id})
        BY <2>1, <2>4, <2>5, <2>7, <3>4 DEF Ex!Withdraw
      <3>6. QED
        BY <2>4, <3>5 DEF Ex!Next
    <2>8. QED
      BY <2>6, <2>7
  <1>7. ASSUME NEW id \in Ids, TimerExpires(id) PROVE UNCHANGED Ex!vars
    BY <1>7, Stutters DEF TimerExpires
  <1>8. ASSUME NEW id \in Ids, TimerFires(id) PROVE UNCHANGED Ex!vars
    <2> DEFINE m == AnswerTo(id, "timeout")
    <2>1. UNCHANGED <<owner, answers, alive>>
      BY <1>8 DEF TimerFires
    <2>2. CASE id \in timers_map
      <3>1. /\ m \in Messages /\ m.kind = "answer" /\ m.id = id
            /\ id \in request_map
            /\ queue' = Append(queue, m)
            /\ request_map' = request_map \ {id}
        BY <1>8, <2>2 DEF TimerFires, Inv, RequestsHaveTimers, Messages, Answer,
                          AnswerTo, Outcomes
      <3> HIDE DEF m
      <3>2. \A i \in Ids : QueuedAnswer(queue', i) <=> QueuedAnswer(queue, i) \/ i = id
        BY <1>0, <3>1, Put
      <3>3. \A i \in Ids : StatusOf(i)' = StatusOf(i)
        BY <2>1, <3>1, <3>2 DEF StatusOf
      <3>4. QED
        BY <2>1, <3>3 DEF Ex!vars
    <2>3. CASE id \notin timers_map
      BY <1>8, <2>3, Stutters DEF TimerFires
    <2>4. QED
      BY <2>2, <2>3
  <1>9. ASSUME NEW id \in Ids, DiscardRequest(id) PROVE Ex!Next
    <2>1. /\ owner[id] = Sup
          /\ id \in request_map /\ ~QueuedAnswer(queue, id) /\ answers[id] = <<>>
          /\ request_map' = request_map \ {id}
          /\ UNCHANGED <<owner, queue, answers, alive>>
      BY <1>9 DEF DiscardRequest, Inv, RequestsHaveTimers, Exclusive
    <2>2. StatusOf(id) = "asked" /\ StatusOf(id)' = "withdrawn"
      BY <2>1 DEF StatusOf
    <2>3. \A i \in Ids : i # id => StatusOf(i)' = StatusOf(i)
      BY <2>1 DEF StatusOf
    <2>4. st' = [i \in Ids |-> IF i \in {id} THEN "withdrawn" ELSE st[i]]
      BY <2>2, <2>3
    <2>5. Ex!Withdraw({id})
      BY <2>1, <2>2, <2>4 DEF Ex!Withdraw
    <2>6. QED
      BY <2>5 DEF Ex!Next
  <1>10. ASSUME NEW a \in Actors, ActorLeaves(a) PROVE Ex!Next
    <2>1. /\ a \in alive /\ alive' = alive \ {a}
          /\ UNCHANGED <<owner, request_map, queue, answers>>
      BY <1>10 DEF ActorLeaves
    <2>2. st' = st
      BY <2>1 DEF StatusOf
    <2>3. Ex!Leave(a)
      BY <2>1, <2>2 DEF Ex!Leave
    <2>4. QED
      BY <2>3 DEF Ex!Next
  <1>11. ASSUME ShutdownFinish PROVE Ex!Next
    <2>1. /\ alive = {} /\ request_map' = {}
          /\ UNCHANGED <<owner, queue, answers, alive>>
      BY <1>11 DEF ShutdownFinish, Inv, RequestsHaveTimers
    <2>2. \A i \in request_map : /\ i \in Ids /\ owner[i] # Nobody
                                 /\ answers[i] = <<>> /\ ~QueuedAnswer(queue, i)
      BY DEF Inv, TypeOK, Fresh, Exclusive
    <2>3. \A i \in request_map : StatusOf(i) = "asked" /\ StatusOf(i)' = "withdrawn"
      BY <2>1, <2>2 DEF StatusOf
    <2>4. \A i \in Ids \ request_map : StatusOf(i)' = StatusOf(i)
      BY <2>1 DEF StatusOf
    <2>5. st' = [i \in Ids |-> IF i \in request_map THEN "withdrawn" ELSE st[i]]
      BY <2>2, <2>3, <2>4
    <2>6. Ex!Withdraw(request_map)
      BY <2>1, <2>2, <2>3, <2>5 DEF Ex!Withdraw
    <2>7. request_map \in SUBSET Ids
      BY <2>2
    <2>8. QED
      BY <2>6, <2>7 DEF Ex!Next
  <1>12. CASE UNCHANGED vars
    BY <1>12, Stutters DEF vars
  <1>13. QED
    BY <1>1, <1>2, <1>3, <1>4, <1>5, <1>6, <1>7, <1>8, <1>9, <1>10, <1>11, <1>12
       DEF Next, Deliver

\* ReqRes implements Exchange: a request is asked once, and answered once or
\* withdrawn, and only absent authors or the supervisor itself lose one.
THEOREM Refinement == Spec => ImplementsExchange
  <1>1. Init => Ex!Init
    BY DEF Init, Ex!Init, StatusOf
  <1>2. QED
    BY <1>1, StepRefines, InvInit, InvNext, PTL DEF Spec, ImplementsExchange, Ex!Spec
=============================================================================

---------------------------- MODULE ScrapperProofs ----------------------------
(***************************************************************************)
(* Proofs about Scrapper for any numbers of workers and requests, any      *)
(* concurrency and any timers that may expire: what the manager counts on  *)
(* of its workers holds if the client gives up at the first failure.       *)
(***************************************************************************)
EXTENDS Scrapper, FiniteSetTheorems, TLAPS

\* Requests the manager has given to a worker, or will when the worker is there.
Mapped == {r \in Requests : req_mapping[r] # None}
Held == Mapped \cup Range(delayed_queue)

\* Workers of which on_child_init() is still to come.
Newcomers == {w \in Workers : [kind |-> "created", worker |-> w] \in Range(queue)}

\* What a worker remembers, what it does when it has no request, and what
\* its resources say of its stage when it has one.
Kept == [orig : 0..max_requests, response : {"none", "ok", "error"},
         sock : BOOLEAN, timer_request : 0..max_requests,
         resolve : Nat, io : {"none", "connect", "write", "read"}, timer : BOOLEAN]
Rests(k) == k.orig = 0 /\ k.response = "none" /\ ~k.sock /\ ~HasAny(k)
Sane(k) ==
    /\ k.resolve \in {0, 1}
    /\ HasAny(k) => k.orig # 0
    /\ k.io # "none" => k.resolve = 0
    /\ k.response = "ok" => k.resolve = 0 /\ k.io = "none" /\ ~k.sock

\* What a message says as long as it is under way.
Says(m) ==
    /\ m.kind = "request" =>
        m.request \notin Held /\ Timer("client", m.request) \in asked
    /\ m.kind = "created" =>
        /\ m.worker \in created \ free_workers
        /\ \A r \in Requests : req_mapping[r] # m.worker
    /\ m.kind = "work" =>
        /\ m.worker # None /\ Rests(worker[m.worker])
        /\ req_mapping[m.request] = m.worker
    /\ m.kind \in {"request", "created", "work"} => http_errors = 0
    /\ m.kind = "response" /\ m.ok /\ http_errors = 0 =>
        /\ m.worker # None /\ Rests(worker[m.worker])
        /\ req_mapping[m.request] \in {m.worker, None}
    /\ m.kind = "answer" /\ m.ok => m.request \notin Held
    /\ m.kind = "resolved" => worker[m.worker].resolve > 0

\* The client has been told of a failure, or is going to be.
Tells(m) ==
    /\ m.kind \in {"response", "answer"} /\ ~m.ok
    /\ Timer(IF m.kind = "answer" THEN "client" ELSE "manager", m.request) \in asked
Trouble == http_errors > 0 \/ \E m \in Range(queue) : Tells(m)

\* Messages of these kinds come together, any other alone; no request is in the
\* queue twice, nor is a worker created twice.
Loading == {"request", "created", "work"}
Clash(m, n) ==
    \/ m.kind = n.kind /\ m.kind \in {"request", "work"} /\ m.request = n.request
    \/ m.kind = n.kind /\ m.kind = "created" /\ m.worker = n.worker
Orderly(q) ==
    /\ \A i \in 1 .. Len(q) : q[i].kind \in Loading \/ Len(q) = 1
    /\ \A i, j \in 1 .. Len(q) : Clash(q[i], q[j]) => i = j

\* Unless a request has failed, the client waits for all the manager holds.
Client ==
    /\ active_requests \subseteq 1 .. total_requests
    /\ Cardinality(active_requests) <= concurrency
    /\ \A r \in Requests : Timer("client", r) \in asked => r \in active_requests
    /\ http_errors = 0 => \A r \in Held : Timer("client", r) \in asked

\* As many workers are not free as there are requests to work on.
Manager ==
    /\ created = 1 .. Cardinality(created)
    /\ \A r \in Requests : Timer("manager", r) \in asked <=> r \in Mapped
    /\ \A r \in Requests : req_mapping[r] \in created \cup {None}
    /\ Cardinality(created \ free_workers) = Cardinality(Held)
    /\ Mapped \cap Range(delayed_queue) = {}
    /\ \A i, j \in 1 .. Len(delayed_queue) : delayed_queue[i] = delayed_queue[j] => i = j
    /\ Cardinality(Newcomers) = Len(delayed_queue)

\* Unless there is trouble, a worker that is not at rest has a request, and it
\* is the one the manager has given it.
Staff ==
    \A w \in Workers :
        /\ Sane(worker[w])
        /\ ~Trouble /\ ~Rests(worker[w]) => worker[w].orig # 0
        /\ ~Trouble /\ worker[w].orig # 0 => req_mapping[worker[w].orig] = w

Inv ==
    /\ TypeOK
    /\ Client /\ Manager /\ Staff
    /\ Orderly(queue)
    /\ \A m \in Range(queue) : Says(m)
    /\ ManagerIsRight

---------------------------------------------------------------------------
\* Messages in the queue.

LEMMA Numbers ==
    /\ MaxWorkers \in Nat /\ concurrency \in Nat /\ max_requests \in Nat
    /\ concurrency >= 1 /\ max_requests >= 1 /\ MaxFailures \in Nat
    /\ None \notin Workers
  BY LoadAssumption DEF LoadAssumption, Workers, None

LEMMA Kinds ==
    ASSUME NEW m \in Messages
    PROVE  /\ m.kind \in {"request", "work", "response", "answer"} =>
                /\ m.worker \in Workers \cup {None} /\ m.request \in Requests
                /\ m.ok \in BOOLEAN
           /\ m.kind = "resolved" => m.worker \in Workers /\ m.ok \in BOOLEAN
           /\ m.kind = "created" =>
                m.worker \in Workers /\ m = [kind |-> "created", worker |-> m.worker]
           /\ m.kind \in {"request", "work", "response", "answer", "resolved", "created"}
  BY DEF Messages

LEMMA Ranged ==
    ASSUME NEW S, NEW q \in Seq(S)
    PROVE  /\ Len(q) \in Nat
           /\ \A i \in 1 .. Len(q) : q[i] \in Range(q)
           /\ \A x \in Range(q) : \E i \in 1 .. Len(q) : q[i] = x
           /\ Range(q) \subseteq S
           /\ q = <<>> <=> Range(q) = {}
  <1>1. Len(q) \in Nat /\ DOMAIN q = 1 .. Len(q) /\ \A i \in 1 .. Len(q) : q[i] \in S
    OBVIOUS
  <1>2. /\ \A i \in 1 .. Len(q) : q[i] \in Range(q)
        /\ \A x \in Range(q) : \E i \in 1 .. Len(q) : q[i] = x
    BY <1>1 DEF Range
  <1>3. q = <<>> <=> Len(q) = 0
    OBVIOUS
  <1>4. q = <<>> <=> Range(q) = {}
    BY <1>1, <1>2, <1>3
  <1>5. QED
    BY <1>1, <1>2, <1>4

LEMMA Rest ==
    ASSUME NEW S, NEW q \in Seq(S), q # <<>>
    PROVE  /\ Tail(q) \in Seq(S)
           /\ Head(q) \in S /\ Head(q) = q[1] /\ 1 \in 1 .. Len(q)
           /\ Len(q) \in Nat /\ Len(Tail(q)) = Len(q) - 1
           /\ \A i \in 1 .. Len(Tail(q)) : i + 1 \in 1 .. Len(q) /\ Tail(q)[i] = q[i + 1]
           /\ Range(q) = Range(Tail(q)) \cup {Head(q)}
  <1> DEFINE r == Tail(q)
  <1>1. /\ r \in Seq(S) /\ Head(q) = q[1] /\ Head(q) \in S /\ Len(q) \in Nat /\ Len(q) > 0
        /\ Len(r) = Len(q) - 1
        /\ \A i \in 1 .. Len(r) : r[i] = q[i + 1]
    OBVIOUS
  <1> HIDE DEF r
  <1>2. \A x \in Range(q) : x \in Range(r) \cup {Head(q)}
    <2> SUFFICES ASSUME NEW i \in 1 .. Len(q), i # 1
                 PROVE  q[i] \in Range(r)
      BY <1>1, Ranged
    <2>1. i - 1 \in 1 .. Len(r) /\ r[i - 1] = q[i]
      BY <1>1
    <2>2. QED
      BY <1>1, <2>1, Ranged
  <1>3. Head(q) \in Range(q)
    BY <1>1, Ranged
  <1>4. ASSUME NEW x \in Range(r)
        PROVE  x \in Range(q)
    <2>1. PICK i \in 1 .. Len(r) : r[i] = x
      BY <1>1, Ranged
    <2>2. i + 1 \in 1 .. Len(q) /\ q[i + 1] = x
      BY <1>1, <2>1
    <2>3. QED
      BY <2>2, Ranged
  <1>5. 1 \in 1 .. Len(q) /\ \A i \in 1 .. Len(r) : i + 1 \in 1 .. Len(q)
    BY <1>1
  <1>6. QED
    BY <1>1, <1>2, <1>3, <1>4, <1>5 DEF r

LEMMA Appended ==
    ASSUME NEW S, NEW q \in Seq(S), NEW x \in S
    PROVE  /\ q \o <<x>> \in Seq(S)
           /\ Len(q) \in Nat /\ Len(q \o <<x>>) = Len(q) + 1
           /\ (q \o <<x>>)[Len(q) + 1] = x
           /\ \A i \in 1 .. Len(q) : (q \o <<x>>)[i] = q[i]
           /\ Range(q \o <<x>>) = Range(q) \cup {x}
  <1> DEFINE r == q \o <<x>>
  <1>1. /\ r \in Seq(S) /\ Len(q) \in Nat /\ Len(r) = Len(q) + 1
        /\ r[Len(q) + 1] = x
        /\ \A i \in 1 .. Len(q) : r[i] = q[i]
    OBVIOUS
  <1> HIDE DEF r
  <1>2. \A i \in 1 .. Len(r) : i \in 1 .. Len(q) \/ i = Len(q) + 1
    BY <1>1
  <1>3. \A i \in 1 .. Len(q) : i \in 1 .. Len(r)
    BY <1>1
  <1>4. Len(q) + 1 \in 1 .. Len(r)
    BY <1>1
  <1>5. Range(r) = Range(q) \cup {x}
    BY <1>1, <1>2, <1>3, <1>4, Ranged
  <1>6. QED
    BY <1>1, <1>5 DEF r

\* A message is taken; those behind it are of the kinds that come together.
LEMMA Taken ==
    ASSUME NEW q \in Seq(Messages), q # <<>>, Orderly(q)
    PROVE  /\ Tail(q) \in Seq(Messages) /\ Orderly(Tail(q))
           /\ Head(q) \in Messages
           /\ Range(q) = Range(Tail(q)) \cup {Head(q)}
           /\ \A m \in Range(Tail(q)) : m.kind \in Loading /\ ~Clash(Head(q), m)
           /\ Head(q).kind \notin Loading => Tail(q) = <<>>
  <1> DEFINE r == Tail(q)
  <1>1. /\ r \in Seq(Messages) /\ Head(q) = q[1] /\ Head(q) \in Messages
        /\ 1 \in 1 .. Len(q) /\ Len(q) \in Nat
        /\ Len(r) = Len(q) - 1
        /\ \A i \in 1 .. Len(r) : i + 1 \in 1 .. Len(q) /\ r[i] = q[i + 1]
        /\ Range(q) = Range(r) \cup {Head(q)}
    BY Rest
  <1> HIDE DEF r
  <1>2. \A i \in 1 .. Len(r) : r[i].kind \in Loading /\ ~Clash(Head(q), r[i])
    <2> SUFFICES ASSUME NEW i \in 1 .. Len(r)
                 PROVE  r[i].kind \in Loading /\ ~Clash(Head(q), r[i])
      OBVIOUS
    <2>1. i + 1 \in 1 .. Len(q) /\ r[i] = q[i + 1] /\ i + 1 # 1 /\ Len(q) # 1
      BY <1>1
    <2>2. QED
      BY <1>1, <2>1 DEF Orderly
  <1>3. Orderly(r)
    <2>1. ASSUME NEW i \in 1 .. Len(r), NEW j \in 1 .. Len(r), Clash(r[i], r[j])
          PROVE  i = j
      <3>1. i + 1 = j + 1
        BY <1>1, <2>1 DEF Orderly
      <3>2. QED
        BY <3>1
    <2>2. QED
      BY <1>2, <2>1 DEF Orderly
  <1>4. Head(q).kind \notin Loading => r = <<>>
    <2>1. Head(q).kind \notin Loading => Len(r) = 0
      BY <1>1 DEF Orderly
    <2>2. QED
      BY <1>1, <2>1
  <1>5. \A m \in Range(r) : m.kind \in Loading /\ ~Clash(Head(q), m)
    BY <1>1, <1>2, Ranged
  <1>6. QED
    BY <1>1, <1>3, <1>4, <1>5 DEF r

\* A message is sent behind such, or alone.
LEMMA Sent ==
    ASSUME NEW q \in Seq(Messages), Orderly(q), NEW m \in Messages,
           \/ q = <<>>
           \/ m.kind \in Loading /\ \A n \in Range(q) : n.kind \in Loading /\ ~Clash(n, m)
    PROVE  /\ q \o <<m>> \in Seq(Messages) /\ Orderly(q \o <<m>>)
           /\ Range(q \o <<m>>) = Range(q) \cup {m}
  <1> DEFINE r == q \o <<m>>
  <1>1. /\ r \in Seq(Messages) /\ Len(q) \in Nat /\ Len(r) = Len(q) + 1
        /\ r[Len(q) + 1] = m
        /\ \A i \in 1 .. Len(q) : r[i] = q[i]
        /\ Range(r) = Range(q) \cup {m}
    BY Appended
  <1> HIDE DEF r
  <1>2. \A i \in 1 .. Len(r) : i \in 1 .. Len(q) \/ i = Len(q) + 1
    BY <1>1
  <1>3. \A i \in 1 .. Len(q) : q[i] \in Range(q)
    BY Ranged
  <1>4. CASE q = <<>>
    <2>1. Len(q) = 0 /\ Len(r) = 1
      BY <1>1, <1>4
    <2>2. Orderly(r)
      BY <2>1 DEF Orderly
    <2>3. QED
      BY <1>1, <2>2 DEF r
  <1>5. CASE m.kind \in Loading /\ \A n \in Range(q) : n.kind \in Loading /\ ~Clash(n, m)
    <2>1. \A i \in 1 .. Len(r) : r[i].kind \in Loading
      BY <1>1, <1>2, <1>3, <1>5
    <2>2. \A i \in 1 .. Len(q) : ~Clash(r[i], m) /\ ~Clash(m, r[i])
      BY <1>1, <1>3, <1>5 DEF Clash
    <2>3. \A i, j \in 1 .. Len(r) : Clash(r[i], r[j]) => i = j
      BY <1>1, <1>2, <2>2 DEF Orderly
    <2>4. Orderly(r)
      BY <2>1, <2>3 DEF Orderly
    <2>5. QED
      BY <1>1, <2>4 DEF r
  <1>6. QED
    BY <1>4, <1>5

LEMMA Single ==
    ASSUME NEW m \in Messages
    PROVE  <<m>> \in Seq(Messages) /\ Orderly(<<m>>) /\ Range(<<m>>) = {m}
  <1> DEFINE q == <<m>>
  <1>1. q \in Seq(Messages) /\ Len(q) = 1 /\ q[1] = m
    OBVIOUS
  <1> HIDE DEF q
  <1>2. \A i \in 1 .. Len(q) : q[i] = m
    BY <1>1
  <1>3. Orderly(q)
    BY <1>1 DEF Orderly
  <1>4. 1 \in 1 .. Len(q)
    BY <1>1
  <1>5. Range(q) = {m}
    <2>1. m \in Range(q)
      BY <1>1, <1>4, Ranged
    <2>2. \A x \in Range(q) : \E i \in 1 .. Len(q) : q[i] = x
      BY <1>1, Ranged
    <2>3. QED
      BY <1>2, <2>1, <2>2
  <1>6. QED
    BY <1>1, <1>3, <1>5 DEF q

\* Who is given work is not in trouble.
LEMMA AtEase ==
    ASSUME Inv, NEW m \in Range(queue), m.kind \in Loading
    PROVE  ~Trouble
  <1>1. http_errors = 0
    BY DEF Inv, Says, Loading
  <1>2. queue \in Seq(Messages) /\ Orderly(queue)
    BY DEF Inv, TypeOK
  <1>3. \A n \in Range(queue) : n.kind \in Loading
    <2> SUFFICES ASSUME NEW n \in Range(queue), n.kind \notin Loading
                 PROVE  FALSE
      OBVIOUS
    <2>1. PICK i \in 1 .. Len(queue) : queue[i] = n
      BY <1>2, Ranged
    <2>2. PICK j \in 1 .. Len(queue) : queue[j] = m
      BY <1>2, Ranged
    <2>3. Len(queue) = 1
      BY <1>2, <2>1 DEF Orderly
    <2>4. i = 1 /\ j = 1
      BY <2>3
    <2>5. QED
      BY <2>1, <2>2, <2>4
  <1>4. QED
    BY <1>1, <1>3 DEF Trouble, Tells, Loading

LEMMA InitInv == ASSUME Init PROVE Inv
  <1> DEFINE n == IF concurrency < max_requests THEN concurrency ELSE max_requests
             first == 1 .. n
  <1>1. n \in Nat /\ n <= max_requests /\ n <= concurrency /\ n >= 1
    BY Numbers
  <1>2. /\ client = "OPERATIONAL" /\ active_requests = first
        /\ total_requests = Cardinality(first) /\ http_errors = 0
        /\ req_mapping = [r \in Requests |-> None]
        /\ free_workers = {} /\ delayed_queue = <<>> /\ created = {}
        /\ worker = [w \in Workers |-> Idle]
        /\ asked = Asks("client", first) /\ timers = Asks("client", first)
        /\ queue = [i \in first |-> Message("request", None, i, TRUE)]
        /\ strand = <<>> /\ failed = {}
    BY DEF Init
  <1> HIDE DEF n
  <1>3. IsFiniteSet(first) /\ Cardinality(first) = n
    BY <1>1, FS_Interval
  <1>4. first \subseteq Requests
    BY <1>1, Numbers DEF Requests
  <1>5. /\ queue \in Seq(Messages) /\ Len(queue) = n
        /\ \A i \in 1 .. n : queue[i] = Message("request", None, i, TRUE)
    <2>1. \A i \in first : Message("request", None, i, TRUE) \in Messages
      BY <1>4 DEF Message, Messages
    <2>2. queue \in [1 .. n -> Messages]
      BY <1>2, <2>1
    <2>3. queue \in Seq(Messages) /\ Len(queue) = n
      BY <1>1, <2>2
    <2>4. \A i \in 1 .. n : queue[i] = Message("request", None, i, TRUE)
      BY <1>2
    <2>5. QED
      BY <2>3, <2>4
  <1>6. Held = {} /\ Mapped = {} /\ Range(delayed_queue) = {} /\ Len(delayed_queue) = 0
    <2>1. Mapped = {}
      BY <1>2 DEF Mapped
    <2>2. delayed_queue \in Seq(Requests)
      BY <1>2
    <2>3. Range(delayed_queue) = {}
      BY <1>2, <2>2, Ranged
    <2>4. QED
      BY <1>2, <2>1, <2>3 DEF Held
  <1>7. \A m \in Range(queue) :
            /\ m.kind = "request" /\ m.request \in first
            /\ m = Message("request", None, m.request, TRUE)
    <2> SUFFICES ASSUME NEW m \in Range(queue)
                 PROVE  /\ m.kind = "request" /\ m.request \in first
                        /\ m = Message("request", None, m.request, TRUE)
      OBVIOUS
    <2>1. PICK i \in 1 .. Len(queue) : queue[i] = m
      BY <1>5, Ranged
    <2>2. m = Message("request", None, i, TRUE) /\ i \in first
      BY <1>5, <2>1
    <2>3. m.kind = "request" /\ m.request = i
      BY <2>2 DEF Message
    <2>4. QED
      BY <2>2, <2>3
  <1>8. Newcomers = {}
    BY <1>7 DEF Newcomers
  <1>9. \A r \in first : Timer("client", r) \in asked
    BY <1>2 DEF Asks
  <1>10. \A x \in asked : x.of = "client" /\ x.request \in first
    BY <1>2 DEF Asks, Timer
  <1>11. \A w \in Workers : worker[w] = Idle
    BY <1>2
  <1>12. Rests(Idle) /\ Sane(Idle) /\ Idle \in Kept
    BY Numbers DEF Rests, Sane, Idle, HasAny, Kept
  <1>13. TypeOK
    <2>1. asked \subseteq Timers /\ timers \subseteq Timers
      BY <1>2, <1>4 DEF Asks, Timer, Timers
    <2>2. worker \in [Workers -> Kept]
      BY <1>2, <1>12
    <2>3. active_requests \subseteq Requests /\ total_requests \in 0 .. max_requests
      BY <1>1, <1>2, <1>3, <1>4, Numbers
    <2>4. delayed_queue \in Seq(Requests) /\ strand \in Seq(Jobs)
      BY <1>2
    <2>5. QED
      BY <1>2, <1>5, <2>1, <2>2, <2>3, <2>4 DEF TypeOK, Kept
  <1>14. Client
    <2>1. \A r \in Requests : Timer("client", r) \in asked => r \in active_requests
      BY <1>2, <1>10 DEF Timer
    <2>2. QED
      BY <1>1, <1>2, <1>3, <1>6, <2>1 DEF Client
  <1>15. Cardinality({}) = 0
    BY FS_EmptySet
  <1>16. Manager
    <2>1. created = 1 .. Cardinality(created)
      BY <1>2, <1>15
    <2>2. \A r \in Requests : Timer("manager", r) \in asked <=> r \in Mapped
      BY <1>6, <1>10 DEF Timer
    <2>3. Cardinality(created \ free_workers) = Cardinality(Held)
      BY <1>2, <1>6
    <2>4. QED
      BY <1>2, <1>6, <1>8, <1>15, <2>1, <2>2, <2>3 DEF Manager
  <1>17. Staff
    <2>1. \A w \in Workers : worker[w].orig = 0
      BY <1>11 DEF Idle
    <2>2. QED
      BY <1>11, <1>12, <2>1 DEF Staff
  <1>18. Orderly(queue)
    BY <1>5 DEF Orderly, Clash, Message, Loading
  <1>19. \A m \in Range(queue) : Says(m)
    BY <1>2, <1>6, <1>7, <1>9 DEF Says, Message
  <1>20. ManagerIsRight
    BY <1>1, <1>2, <1>15, Numbers DEF ManagerIsRight, WorkerIsDone, WorkersMatchLoad, OneRequestEach
  <1>21. QED
    BY <1>13, <1>14, <1>16, <1>17, <1>18, <1>19, <1>20 DEF Inv

---------------------------------------------------------------------------
\* What a worker does with a request: it goes on, or it has nothing left to wait
\* for and replies.
Works(w, k) ==
    /\ k \in Kept /\ Sane(k)
    /\ k.orig = worker[w].orig /\ (Rests(worker[w]) => ~k.sock)
    /\ Becomes(w, Finished(k))
    /\ queue' = Reply(w, k)
    /\ \A m \in Range(queue) : m.kind = "resolved"
    /\ timers' \subseteq Timers /\ strand' \in Seq(Jobs)
    /\ failed' \subseteq failed \cup {"request does exist"}
    /\ UNCHANGED <<clientVars, managerVars, asked>>

LEMMA Worked ==
    ASSUME Inv, NEW w \in Workers, NEW k, Works(w, k)
    PROVE  Inv'
  <1> DEFINE m == Message("response", w, k.orig, k.response = "ok")
             f == Finished(k)
  <1>1. /\ f \in Kept /\ Sane(f)
        /\ HasAny(k) => f = k
        /\ ~HasAny(k) => f.orig = 0 /\ (~k.sock => Rests(f))
    <2>1. k \in Kept /\ Sane(k)
      BY DEF Works
    <2>2. CASE HasAny(k)
      BY <2>1, <2>2 DEF Finished
    <2>3. CASE ~HasAny(k)
      <3>1. f = [k EXCEPT !.orig = 0, !.response = "none"]
        BY <2>3 DEF Finished
      <3> HIDE DEF f
      <3>2. f \in Kept
        <4>1. k.sock \in BOOLEAN /\ k.timer_request \in 0 .. max_requests /\ k.resolve \in Nat
              /\ k.io \in {"none", "connect", "write", "read"} /\ k.timer \in BOOLEAN
          BY <2>1 DEF Kept
        <4>2. f = [orig |-> 0, response |-> "none", sock |-> k.sock,
                   timer_request |-> k.timer_request, resolve |-> k.resolve, io |-> k.io,
                   timer |-> k.timer]
          BY <2>1, <3>1 DEF Kept
        <4>3. QED
          BY <4>1, <4>2, Numbers DEF Kept
      <3>3. /\ f.orig = 0 /\ f.response = "none" /\ f.sock = k.sock
            /\ f.resolve = k.resolve /\ f.io = k.io /\ f.timer = k.timer
        BY <2>1, <3>1 DEF Kept
      <3>4. QED
        BY <2>1, <2>3, <3>2, <3>3 DEF Sane, Rests, HasAny
    <2>4. QED
      BY <2>2, <2>3
  <1>2. worker' = [worker EXCEPT ![w] = f]
    BY DEF Works, Becomes
  <1> HIDE DEF f
  <1>3. /\ worker' \in [Workers -> Kept] /\ worker'[w] = f
        /\ \A v \in Workers \ {w} : worker'[v] = worker[v]
    BY <1>1, <1>2 DEF Inv, TypeOK, Kept
  <1>4. /\ client' = client /\ active_requests' = active_requests
        /\ total_requests' = total_requests /\ http_errors' = http_errors
        /\ req_mapping' = req_mapping /\ free_workers' = free_workers
        /\ delayed_queue' = delayed_queue /\ created' = created /\ asked' = asked
    BY DEF Works, clientVars, managerVars
  <1>5. Mapped' = Mapped /\ Held' = Held
    BY <1>4 DEF Mapped, Held
  <1>6. Trouble <=> http_errors > 0
    BY DEF Works, Trouble, Tells
  <1>7. k.orig # 0 => k.orig \in Requests
    <2>1. k.orig \in 0 .. max_requests
      BY DEF Works, Kept
    <2>2. QED
      BY <2>1, Numbers DEF Requests
  <1>8. \/ queue' = <<>> /\ (HasAny(k) \/ k.orig = 0)
        \/ queue' = <<m>> /\ ~HasAny(k) /\ k.orig # 0
    BY DEF Works, Reply
  <1>9. /\ k.orig # 0 => m \in Messages
        /\ m.kind = "response" /\ m.worker = w /\ m.request = k.orig
        /\ m.ok = (k.response = "ok")
    BY <1>7 DEF Message, Messages
  <1> HIDE DEF m
  <1>10. /\ queue' \in Seq(Messages) /\ Orderly(queue')
         /\ Range(queue') \subseteq {m}
         /\ queue' # <<>> => m \in Range(queue')
    <2>1. CASE queue' = <<>>
      <3>1. queue' \in Seq(Messages) /\ Len(queue') = 0
        BY <2>1
      <3>2. Range(queue') = {}
        BY <2>1, <3>1, Ranged
      <3>3. QED
        BY <2>1, <3>1, <3>2 DEF Orderly
    <2>2. CASE queue' = <<m>> /\ k.orig # 0
      <3>1. queue' \in Seq(Messages) /\ Len(queue') = 1 /\ queue'[1] = m
        BY <1>9, <2>2
      <3>2. Orderly(queue')
        BY <3>1 DEF Orderly
      <3>3. \A i \in 1 .. Len(queue') : queue'[i] = m
        BY <3>1
      <3>4. 1 \in 1 .. Len(queue')
        BY <3>1
      <3>5. Range(queue') = {m}
        BY <3>1, <3>3, <3>4, Ranged
      <3>6. QED
        BY <3>1, <3>2, <3>5
    <2>3. QED
      BY <1>8, <2>1, <2>2
  <1>11. Trouble => Trouble'
    BY <1>4, <1>6 DEF Trouble
  <1>12. ~Trouble => /\ k.orig # 0 => req_mapping[k.orig] = w
                     /\ ~Rests(worker[w]) => k.orig # 0
    BY DEF Works, Inv, Staff
  <1>13. k.sock /\ ~HasAny(k) => Trouble'
    <2> SUFFICES ASSUME k.sock, ~HasAny(k), ~Trouble
                 PROVE  Trouble'
      BY <1>11
    <2>1. k.orig # 0 /\ req_mapping[k.orig] = w /\ k.orig \in Requests
      BY <1>7, <1>12 DEF Works
    <2>2. Timer("manager", k.orig) \in asked
      BY <2>1, Numbers DEF Mapped, Inv, Manager
    <2>3. ~m.ok
      BY <1>9 DEF Works, Sane
    <2>4. m \in Range(queue')
      <3>1. queue' = <<m>>
        BY <1>8, <2>1
      <3>2. <<m>> # <<>>
        OBVIOUS
      <3>3. QED
        BY <1>10, <3>1, <3>2
    <2>5. QED
      BY <1>4, <1>9, <2>2, <2>3, <2>4 DEF Trouble, Tells
  <1>14. TypeOK'
    BY <1>3, <1>4, <1>10 DEF Inv, TypeOK, Works, Kept
  <1>15. Client'
    BY <1>4, <1>5 DEF Inv, Client
  <1>16. Newcomers = {} /\ Newcomers' = {}
    <2>1. \A v : [kind |-> "created", worker |-> v].kind = "created"
      OBVIOUS
    <2>2. \A n \in Range(queue) : n.kind # "created"
      BY DEF Works
    <2>3. \A n \in Range(queue') : n.kind # "created"
      BY <1>9, <1>10
    <2>4. QED
      BY <2>1, <2>2, <2>3 DEF Newcomers
  <1>17. Manager'
    BY <1>4, <1>5, <1>16 DEF Inv, Manager
  <1>18. Staff'
    <2> SUFFICES ASSUME NEW v \in Workers
                 PROVE  /\ Sane(worker'[v])
                        /\ ~Trouble' /\ ~Rests(worker'[v]) => worker'[v].orig # 0
                        /\ ~Trouble' /\ worker'[v].orig # 0
                                => req_mapping'[worker'[v].orig] = v
      BY DEF Staff
    <2>1. CASE v = w
      <3>1. HasAny(k) => k.orig # 0
        BY DEF Works, Sane
      <3>2. QED
        BY <1>1, <1>3, <1>4, <1>11, <1>12, <1>13, <2>1, <3>1
    <2>2. CASE v # w
      BY <1>3, <1>4, <1>11, <2>2 DEF Inv, Staff
    <2>3. QED
      BY <2>1, <2>2
  <1>19. ASSUME NEW n \in Range(queue')
         PROVE  Says(n)'
    <2>1. n = m /\ n \in Messages /\ ~HasAny(k) /\ k.orig # 0
      BY <1>8, <1>9, <1>10, Ranged
    <2>2. ASSUME m.ok, http_errors = 0
          PROVE  w # None /\ Rests(worker'[w]) /\ req_mapping[k.orig] = w
      <3>1. ~k.sock
        BY <1>9, <2>2 DEF Works, Sane
      <3>2. ~Trouble
        BY <1>6, <2>2
      <3>3. QED
        BY <1>1, <1>3, <1>12, <2>1, <3>1, <3>2, Numbers
    <2>3. QED
      BY <1>4, <1>9, <2>1, <2>2 DEF Says
  <1>20. ManagerIsRight'
    <2>1. "socket" \notin failed'
      BY DEF Works, Inv, ManagerIsRight, WorkerIsDone
    <2>2. QED
      BY <1>4, <2>1 DEF Inv, ManagerIsRight, WorkerIsDone, WorkersMatchLoad, OneRequestEach
  <1>21. QED
    BY <1>10, <1>14, <1>15, <1>17, <1>18, <1>19, <1>20 DEF Inv

\* A resource is given back with a result, unless there is one.
LEMMA Responds ==
    ASSUME NEW k \in Kept, NEW x \in {"ok", "error"}
    PROVE  /\ WithResponse(k, x) \in Kept
           /\ WithResponse(k, x).orig = k.orig /\ WithResponse(k, x).sock = k.sock
           /\ WithResponse(k, x).io = k.io /\ WithResponse(k, x).resolve = k.resolve
           /\ WithResponse(k, x).timer = k.timer
           /\ WithResponse(k, x).timer_request = k.timer_request
           /\ WithResponse(k, x).response \in {k.response, x}
  BY DEF WithResponse, Kept

LEMMA Fields ==
    ASSUME NEW k \in Kept
    PROVE  k = [orig |-> k.orig, response |-> k.response, sock |-> k.sock,
                timer_request |-> k.timer_request, resolve |-> k.resolve,
                io |-> k.io, timer |-> k.timer]
  BY DEF Kept

LEMMA Replies ==
    ASSUME NEW w \in Workers, NEW k \in Kept
    PROVE  Reply(w, k) \in Seq(Messages)
  <1> DEFINE m == Message("response", w, k.orig, k.response = "ok")
  <1>1. k.orig # 0 => m \in Messages
    <2>1. k.orig \in 0 .. max_requests
      BY DEF Kept
    <2>2. QED
      BY <2>1, Numbers DEF Message, Messages, Requests
  <1>2. Reply(w, k) = IF HasAny(k) \/ k.orig = 0 THEN <<>> ELSE <<m>>
    BY DEF Reply
  <1> HIDE DEF m
  <1>3. QED
    BY <1>1, <1>2

LEMMA Silent == ASSUME NEW w, NEW k, HasAny(k) PROVE Reply(w, k) = <<>> /\ Finished(k) = k
  BY DEF Reply, Finished

LEMMA ResolveInv == ASSUME Inv, OnResolve PROVE Inv'
  <1> DEFINE m == Head(queue)
             w == m.worker
             freed == [worker[w] EXCEPT !.resolve = @ - 1]
             k == IF m.ok THEN [freed EXCEPT !.sock = TRUE] ELSE freed
             bad == WithResponse(k, "error")
             good == [k EXCEPT !.io = "connect", !.timer = TRUE, !.timer_request = k.orig]
  <1>1. /\ Next1("resolved") /\ m.kind = "resolved"
        /\ UNCHANGED <<clientVars, managerVars, asked, strand, failed>>
        /\ \/ /\ Becomes(w, Finished(bad)) /\ Post(Reply(w, bad))
              /\ UNCHANGED timers
           \/ /\ Becomes(w, good) /\ Post(<<>>)
              /\ timers' = timers \cup {Timer("worker", k.orig)}
    BY DEF OnResolve, Next1
  <1>2. m \in Messages /\ Tail(queue) = <<>> /\ m \in Range(queue)
        /\ \A n \in Range(queue) : n.kind = "resolved"
    <2>1. queue \in Seq(Messages) /\ Orderly(queue) /\ queue # <<>>
      BY <1>1 DEF Inv, TypeOK, Next1
    <2>2. /\ m \in Messages /\ Range(queue) = Range(Tail(queue)) \cup {m}
          /\ m.kind \notin Loading => Tail(queue) = <<>>
      BY <2>1, Taken
    <2>3. Tail(queue) = <<>>
      BY <1>1, <2>2 DEF Loading
    <2>4. Range(Tail(queue)) = {}
      <3>1. <<>> \in Seq(Messages)
        OBVIOUS
      <3>2. QED
        BY <2>3, <3>1, Ranged
    <2>5. QED
      BY <1>1, <2>2, <2>3, <2>4
  <1>3. w \in Workers /\ worker[w] \in Kept /\ worker[w].resolve > 0
    BY <1>1, <1>2, Kinds DEF Inv, Says, TypeOK, Kept
  <1> HIDE DEF m, w
  <1>4. /\ worker[w].resolve = 1 /\ worker[w].io = "none"
        /\ worker[w].response # "ok" /\ worker[w].orig # 0
    BY <1>3 DEF Inv, Staff, Sane, HasAny, Kept
  <1>5. /\ k \in Kept /\ k.resolve = 0 /\ k.orig = worker[w].orig /\ k.io = "none"
        /\ k.response = worker[w].response
    <2>1. /\ freed \in Kept /\ freed.resolve = 0 /\ freed.orig = worker[w].orig
          /\ freed.io = "none" /\ freed.response = worker[w].response
      BY <1>3, <1>4 DEF Kept
    <2> HIDE DEF freed
    <2>2. QED
      BY <2>1 DEF Kept
  <1>6. Sane(worker[w]) /\ ~Rests(worker[w])
    BY <1>3, <1>4 DEF Inv, Staff, Rests
  <1>7. timers \subseteq Timers /\ strand \in Seq(Jobs)
    BY DEF Inv, TypeOK
  <1> HIDE DEF k, freed
  <1>8. CASE Becomes(w, Finished(bad)) /\ Post(Reply(w, bad)) /\ UNCHANGED timers
    <2>1. bad \in Kept /\ bad.orig = k.orig /\ Sane(bad)
      BY <1>4, <1>5, Responds DEF Sane
    <2> HIDE DEF bad
    <2>2. Reply(w, bad) \in Seq(Messages) /\ Tail(queue) \o Reply(w, bad) = Reply(w, bad)
      <3>1. Reply(w, bad) \in Seq(Messages)
        BY ONLY <1>3, <2>1, Replies
      <3>2. \A s \in Seq(Messages) : <<>> \o s = s
        OBVIOUS
      <3>3. QED
        BY ONLY <1>2, <3>1, <3>2
    <2>3. Works(w, bad)
      BY <1>1, <1>2, <1>5, <1>6, <1>7, <1>8, <2>1, <2>2 DEF Works, Post
    <2>4. QED
      BY <1>3, <2>3, Worked
  <1>9. CASE /\ Becomes(w, good) /\ Post(<<>>)
             /\ timers' = timers \cup {Timer("worker", k.orig)}
    <2>1. /\ good \in Kept /\ good.orig = k.orig /\ good.resolve = 0
          /\ good.response = k.response /\ HasAny(good)
      BY <1>5 DEF Kept, HasAny
    <2>2. Sane(good)
      BY <1>4, <1>5, <2>1 DEF Sane
    <2> HIDE DEF good
    <2>3. Timer("worker", k.orig) \in Timers
      BY <1>4, <1>5, Numbers DEF Timer, Timers, Kept, Requests
    <2>4. queue' = <<>> /\ Finished(good) = good /\ Reply(w, good) = <<>>
      BY <1>2, <1>9, <2>1, Silent DEF Post
    <2>5. Works(w, good)
      BY <1>1, <1>2, <1>5, <1>6, <1>7, <1>9, <2>1, <2>2, <2>3, <2>4 DEF Works
    <2>6. QED
      BY <1>3, <2>5, Worked
  <1>10. QED
    BY <1>1, <1>8, <1>9 DEF k, freed

\* At the end of an operation; the worker's own timer is the last to go.
LEMMA Completed ==
    ASSUME Inv, NEW w \in Workers, NEW k, NEW x \in {"ok", "error"},
           k \in {worker[w], [worker[w] EXCEPT !.sock = FALSE]},
           x = "ok" => worker[w].io = "read" /\ ~k.sock,
           Completes(w, k, x), queue = <<>>, strand' \in Seq(Jobs),
           UNCHANGED <<clientVars, managerVars, asked>>
    PROVE  Inv'
  <1> DEFINE given == [k EXCEPT !.io = "none"]
             done == WithResponse(given, x)
             waiting == Finished(done)
             last == TimerCancelled(waiting)
  <1>1. worker[w] \in Kept /\ Sane(worker[w]) /\ timers \subseteq Timers
    BY DEF Inv, TypeOK, Kept, Staff
  <1>2. /\ k \in Kept /\ k.orig = worker[w].orig /\ k.io = worker[w].io
        /\ k.resolve = worker[w].resolve /\ k.response = worker[w].response
        /\ k.timer = worker[w].timer /\ (k.sock => worker[w].sock)
    BY <1>1 DEF Kept
  <1>3. /\ given \in Kept /\ given.orig = k.orig /\ given.io = "none" /\ given.sock = k.sock
        /\ given.resolve = k.resolve /\ given.response = k.response /\ given.timer = k.timer
    BY <1>2 DEF Kept
  <1> HIDE DEF given
  <1>4. /\ done \in Kept /\ done.orig = k.orig /\ done.io = "none" /\ done.sock = k.sock
        /\ done.resolve = k.resolve /\ done.response \in {k.response, x}
        /\ done.timer = k.timer
    BY <1>3, Responds
  <1> HIDE DEF done
  <1>5. Sane(done)
    BY <1>1, <1>2, <1>4 DEF Sane, HasAny
  <1>6. Rests(worker[w]) => ~done.sock
    BY <1>2, <1>4 DEF Rests
  <1>7. \A m \in Range(queue) : m.kind = "resolved"
    BY Ranged DEF Inv, TypeOK
  <1>8. CASE /\ Becomes(w, waiting) /\ queue' = Reply(w, done)
             /\ timers' = timers /\ failed' \subseteq failed \cup {"request does exist"}
    <2>1. Works(w, done)
      BY <1>1, <1>2, <1>4, <1>5, <1>6, <1>7, <1>8 DEF Works
    <2>2. QED
      BY <2>1, Worked
  <1>9. CASE /\ Becomes(w, Finished(last)) /\ timers' = timers \ {Remembered(waiting)}
             /\ queue' = Reply(w, done) \o Reply(w, last) /\ failed' = failed
    <2>1. CASE HasAny(done)
      <3>1. waiting = done /\ Reply(w, done) = <<>>
        BY <2>1, Silent
      <3> DEFINE late == WithResponse(done, "error")
      <3>2. /\ late \in Kept /\ late.orig = done.orig /\ late.sock = done.sock
            /\ late.io = done.io /\ late.resolve = done.resolve
            /\ late.response \in {done.response, "error"}
        BY <1>4, Responds
      <3>3. last = [late EXCEPT !.timer = FALSE, !.timer_request = 0]
        BY <3>1 DEF TimerCancelled
      <3> HIDE DEF last, waiting, late
      <3>4. /\ last \in Kept /\ last.orig = done.orig /\ last.sock = done.sock
            /\ last.io = done.io /\ last.resolve = done.resolve
            /\ last.response \in {done.response, "error"} /\ last.timer = FALSE
        <4>1. last = [orig |-> late.orig, response |-> late.response, sock |-> late.sock,
                      timer_request |-> 0, resolve |-> late.resolve, io |-> late.io,
                      timer |-> FALSE]
          BY <3>2, <3>3 DEF Kept
        <4>2. /\ late.orig \in 0..max_requests /\ late.response \in {"none", "ok", "error"}
              /\ late.sock \in BOOLEAN /\ late.resolve \in Nat
              /\ late.io \in {"none", "connect", "write", "read"}
          BY <3>2 DEF Kept
        <4> HIDE DEF last
        <4>3. last \in Kept
          BY <4>1, <4>2, Numbers DEF Kept
        <4>4. QED
          BY <3>2, <4>1, <4>3
      <3>5. Sane(last)
        BY <1>5, <2>1, <3>4 DEF Sane, HasAny
      <3>6. queue' = Reply(w, last)
        <4>1. Reply(w, last) \in Seq(Messages)
          BY <3>4, Replies
        <4>2. QED
          BY <1>9, <3>1, <4>1
      <3>7. Works(w, last)
        BY <1>1, <1>2, <1>4, <1>6, <1>7, <1>9, <3>4, <3>5, <3>6 DEF Works
      <3>8. QED
        BY <3>7, Worked
    <2>2. CASE ~HasAny(done)
      <3> DEFINE all == [done EXCEPT !.timer_request = 0]
      <3>1. /\ all \in Kept /\ all.orig = done.orig /\ all.sock = done.sock
            /\ all.io = done.io /\ all.resolve = done.resolve
            /\ all.response = done.response /\ all.timer = done.timer
        BY <1>4, Numbers DEF Kept
      <3>2. Sane(all) /\ ~HasAny(all) /\ Reply(w, all) = Reply(w, done)
        BY <1>5, <2>2, <3>1 DEF Sane, HasAny, Reply
      <3>3. waiting = [done EXCEPT !.orig = 0, !.response = "none"]
        BY <2>2 DEF Finished
      <3>4. done.timer = FALSE /\ done.resolve = 0 /\ done.io = "none"
        BY <1>4, <2>2 DEF HasAny, Kept
      <3> HIDE DEF waiting
      <3>5. waiting = [orig |-> 0, response |-> "none", sock |-> done.sock,
                       timer_request |-> done.timer_request, resolve |-> done.resolve,
                       io |-> done.io, timer |-> done.timer]
        BY <1>4, <3>3 DEF Kept
      <3>6. last = [orig |-> 0, response |-> "error", sock |-> done.sock,
                    timer_request |-> 0, resolve |-> 0, io |-> "none", timer |-> FALSE]
        <4>1. WithResponse(waiting, "error") = [waiting EXCEPT !.response = "error"]
          BY <3>5 DEF WithResponse
        <4>2. last = [[waiting EXCEPT !.response = "error"]
                        EXCEPT !.timer = FALSE, !.timer_request = 0]
          BY <4>1 DEF TimerCancelled
        <4> HIDE DEF last
        <4>3. QED
          BY <3>4, <3>5, <4>2
      <3> HIDE DEF last
      <3>7. ~HasAny(last) /\ last.orig = 0
        BY <3>6 DEF HasAny
      <3>8. Finished(last) = [orig |-> 0, response |-> "none", sock |-> done.sock,
                    timer_request |-> 0, resolve |-> 0, io |-> "none", timer |-> FALSE]
        BY <3>6, <3>7 DEF Finished
      <3>9. Finished(all) = [orig |-> 0, response |-> "none", sock |-> done.sock,
                    timer_request |-> 0, resolve |-> 0, io |-> "none", timer |-> FALSE]
        <4>1. all = [orig |-> done.orig, response |-> done.response, sock |-> done.sock,
                    timer_request |-> 0, resolve |-> 0, io |-> "none", timer |-> FALSE]
          <5>1. all.timer_request = 0
            BY <1>4 DEF Kept
          <5> HIDE DEF all
          <5>2. QED
            BY <3>1, <3>4, <5>1, Fields
        <4> HIDE DEF all
        <4>2. QED
          BY <3>2, <4>1 DEF Finished
      <3> HIDE DEF all
      <3>10. queue' = Reply(w, all)
        <4>1. Reply(w, last) = <<>>
          BY <3>7 DEF Reply
        <4>2. Reply(w, all) \in Seq(Messages)
          BY <3>1, Replies
        <4>3. QED
          BY <1>9, <3>2, <4>1, <4>2
      <3>11. Works(w, all)
        BY <1>1, <1>2, <1>4, <1>6, <1>7, <1>9, <3>1, <3>2, <3>8, <3>9, <3>10 DEF Works
      <3>12. QED
        BY <3>11, Worked
    <2>3. QED
      BY <2>1, <2>2
  <1>10. QED
    BY <1>8, <1>9 DEF Completes, done, given

\* Only the strand and the timers change.
LEMMA Deferred ==
    ASSUME Inv, timers' \subseteq Timers, strand' \in Seq(Jobs),
           UNCHANGED <<clientVars, managerVars, worker, asked, queue, failed>>
    PROVE  Inv'
  <1>1. /\ client' = client /\ active_requests' = active_requests
        /\ total_requests' = total_requests /\ http_errors' = http_errors
        /\ req_mapping' = req_mapping /\ free_workers' = free_workers
        /\ delayed_queue' = delayed_queue /\ created' = created /\ asked' = asked
        /\ worker' = worker /\ queue' = queue /\ failed' = failed
    BY DEF clientVars, managerVars
  <1>2. Mapped' = Mapped /\ Held' = Held /\ Newcomers' = Newcomers /\ (Trouble' <=> Trouble)
    BY <1>1 DEF Mapped, Held, Newcomers, Trouble, Tells
  <1>3. TypeOK'
    BY <1>1 DEF Inv, TypeOK
  <1>4. Client' /\ Manager' /\ Staff'
    BY <1>1, <1>2 DEF Inv, Client, Manager, Staff
  <1>5. ManagerIsRight'
    BY <1>1 DEF Inv, ManagerIsRight, WorkerIsDone, WorkersMatchLoad, OneRequestEach
  <1>6. \A m \in Range(queue') : Says(m)'
    BY <1>1, <1>2 DEF Inv, Says
  <1>7. QED
    BY <1>1, <1>3, <1>4, <1>5, <1>6 DEF Inv

\* Something is told that happened elsewhere.
LEMMA Announced ==
    ASSUME Inv, queue = <<>>, NEW m \in Messages, m.kind \notin Loading, Says(m),
           queue' = <<m>>, timers' \subseteq Timers, strand' \in Seq(Jobs),
           UNCHANGED <<clientVars, managerVars, worker, asked, failed>>
    PROVE  Inv'
  <1>1. /\ client' = client /\ active_requests' = active_requests
        /\ total_requests' = total_requests /\ http_errors' = http_errors
        /\ req_mapping' = req_mapping /\ free_workers' = free_workers
        /\ delayed_queue' = delayed_queue /\ created' = created /\ asked' = asked
        /\ worker' = worker /\ failed' = failed
    BY DEF clientVars, managerVars
  <1>2. queue' \in Seq(Messages) /\ Orderly(queue') /\ Range(queue') = {m}
    BY Single
  <1>3. Range(queue) = {}
    BY Ranged DEF Inv, TypeOK
  <1>4. Mapped' = Mapped /\ Held' = Held
    BY <1>1 DEF Mapped, Held
  <1>5. Newcomers' = {} /\ Newcomers = {}
    <2>1. \A v : [kind |-> "created", worker |-> v].kind = "created"
      OBVIOUS
    <2>2. QED
      BY <1>2, <1>3, <2>1 DEF Newcomers, Loading
  <1>6. Trouble => Trouble'
    BY <1>1, <1>3 DEF Trouble
  <1>7. TypeOK'
    BY <1>1, <1>2 DEF Inv, TypeOK
  <1>8. Client' /\ Manager' /\ Staff'
    BY <1>1, <1>4, <1>5, <1>6 DEF Inv, Client, Manager, Staff
  <1>9. ManagerIsRight'
    BY <1>1 DEF Inv, ManagerIsRight, WorkerIsDone, WorkersMatchLoad, OneRequestEach
  <1>10. \A n \in Range(queue') : Says(n)'
    BY <1>1, <1>2, <1>4 DEF Says
  <1>11. QED
    BY <1>2, <1>7, <1>8, <1>9, <1>10 DEF Inv

LEMMA WorkInv == ASSUME Inv, OnWork PROVE Inv'
  <1> DEFINE m == Head(queue)
             w == m.worker
             k == worker[w]
             f == [k EXCEPT !.orig = m.request, !.resolve = @ + 1]
  <1>1. /\ m.kind = "work" /\ queue # <<>> /\ queue' = Tail(queue) \o <<>>
        /\ worker' = [worker EXCEPT ![w] = f]
        /\ failed' = IF k.sock THEN failed \cup {"socket"} ELSE failed
        /\ client' = client /\ active_requests' = active_requests
        /\ total_requests' = total_requests /\ http_errors' = http_errors
        /\ req_mapping' = req_mapping /\ free_workers' = free_workers
        /\ delayed_queue' = delayed_queue /\ created' = created /\ asked' = asked
        /\ timers' = timers /\ strand' = strand
    BY DEF OnWork, Next1, Post, Becomes, clientVars, managerVars
  <1>2. queue \in Seq(Messages) /\ Orderly(queue)
    BY DEF Inv, TypeOK
  <1>3. /\ Tail(queue) \in Seq(Messages) /\ Orderly(Tail(queue))
        /\ m \in Messages /\ Range(queue) = Range(Tail(queue)) \cup {m}
        /\ \A n \in Range(Tail(queue)) : n.kind \in Loading /\ ~Clash(m, n)
    BY <1>1, <1>2, Taken
  <1>4. queue' = Tail(queue)
    BY <1>1, <1>3
  <1>5. /\ w \in Workers /\ m.request \in Requests /\ req_mapping[m.request] = w
        /\ k \in Kept /\ Rests(k)
    BY <1>1, <1>3, Kinds DEF Inv, Says, TypeOK, Kept
  <1>6. ~Trouble
    BY <1>1, <1>3, AtEase DEF Loading
  <1> HIDE DEF m, w, k
  <1>7. /\ f \in Kept /\ f.orig = m.request /\ f.resolve = 1 /\ f.io = "none"
        /\ f.response = "none"
    <2>1. k.resolve = 0 /\ k.io = "none" /\ k.response = "none"
      BY <1>5 DEF Rests, HasAny, Kept
    <2>2. m.request \in 0 .. max_requests
      BY <1>5, Numbers DEF Requests
    <2>3. k \in Kept
      BY <1>5
    <2>4. f \in Kept
      <3> DEFINE n == k.resolve + 1
                 q == m.request
      <3>1. n \in Nat /\ q \in 0 .. max_requests
        BY <2>1, <2>2
      <3> HIDE DEF n, q
      <3>2. [k EXCEPT !.orig = q, !.resolve = n] \in Kept
        BY ONLY <2>3, <3>1 DEF Kept
      <3>3. QED
        BY <3>2 DEF f, n, q
    <2>5. f.orig = m.request /\ f.resolve = k.resolve + 1 /\ f.io = k.io /\ f.response = k.response
      BY ONLY <2>3 DEF f, Kept
    <2>6. QED
      BY <2>1, <2>4, <2>5
  <1>8. Sane(f) /\ f.orig # 0
    BY <1>5, <1>7, Numbers DEF Sane, Requests
  <1> HIDE DEF f
  <1>9. /\ worker' \in [Workers -> Kept] /\ worker'[w] = f
        /\ \A v \in Workers \ {w} : worker'[v] = worker[v]
    BY <1>1, <1>5, <1>7 DEF Inv, TypeOK, Kept
  <1>10. failed' = failed
    BY <1>1, <1>5 DEF Rests
  <1>11. Mapped' = Mapped /\ Held' = Held
    BY <1>1 DEF Mapped, Held
  <1>12. Newcomers' = Newcomers
    <2>1. \A v : [kind |-> "created", worker |-> v].kind = "created"
      OBVIOUS
    <2>2. QED
      BY <1>1, <1>3, <1>4, <2>1 DEF Newcomers
  <1>13. TypeOK'
    BY <1>1, <1>3, <1>4, <1>9, <1>10 DEF Inv, TypeOK, Kept
  <1>14. Client' /\ Manager'
    BY <1>1, <1>11, <1>12 DEF Inv, Client, Manager
  <1>15. Staff'
    <2> SUFFICES ASSUME NEW v \in Workers
                 PROVE  /\ Sane(worker'[v])
                        /\ ~Rests(worker'[v]) => worker'[v].orig # 0
                        /\ worker'[v].orig # 0 => req_mapping'[worker'[v].orig] = v
      BY DEF Staff
    <2>1. CASE v = w
      BY <1>1, <1>5, <1>7, <1>8, <1>9, <2>1
    <2>2. CASE v # w
      BY <1>1, <1>6, <1>9, <2>2 DEF Inv, Staff
    <2>3. QED
      BY <2>1, <2>2
  <1>16. ManagerIsRight'
    BY <1>1, <1>10 DEF Inv, ManagerIsRight, WorkerIsDone, WorkersMatchLoad, OneRequestEach
  <1>17. ASSUME NEW n \in Range(queue')
         PROVE  Says(n)'
    <2>1. n \in Messages /\ n.kind \in Loading /\ ~Clash(m, n) /\ Says(n) /\ n \in Range(queue)
      BY <1>3, <1>4, Ranged DEF Inv
    <2>2. n.kind = "work" => Rests(worker'[n.worker])
      <3> SUFFICES ASSUME n.kind = "work"
                   PROVE  n.worker \in Workers \ {w} /\ Rests(worker[n.worker])
        BY <1>9
      <3>1. /\ n.worker \in Workers /\ n.request \in Requests /\ n.worker # None
            /\ req_mapping[n.request] = n.worker /\ Rests(worker[n.worker])
        BY <2>1, Kinds DEF Says
      <3>2. n.request # m.request
        BY <1>1, <2>1 DEF Clash
      <3>3. n.worker # w
        BY <1>5, <3>1, <3>2 DEF Inv, ManagerIsRight, OneRequestEach
      <3>4. QED
        BY <3>1, <3>3
    <2>3. QED
      BY <1>1, <1>11, <2>1, <2>2 DEF Says, Loading
  <1>18. QED
    BY <1>3, <1>4, <1>13, <1>14, <1>15, <1>16, <1>17 DEF Inv

LEMMA IoInv ==
    ASSUME Inv, NEW w \in Workers, NEW ok \in BOOLEAN, IoJob(w, ok), queue = <<>>,
           strand' \in Seq(Jobs), UNCHANGED <<clientVars, managerVars, asked>>
    PROVE  Inv'
  <1>1. worker[w] \in Kept /\ Sane(worker[w]) /\ timers \subseteq Timers
    BY DEF Inv, TypeOK, Kept, Staff
  <1>2. CASE ~ok /\ Completes(w, worker[w], "error")
    BY <1>2, Completed
  <1>3. CASE worker[w].io = "read" /\ Completes(w, [worker[w] EXCEPT !.sock = FALSE], "ok")
    <2>1. ~[worker[w] EXCEPT !.sock = FALSE].sock
      BY <1>1 DEF Kept
    <2>2. QED
      BY <1>3, <2>1, Completed
  <1>4. CASE /\ worker[w].io \in {"connect", "write"} /\ worker[w].response = "none"
             /\ Becomes(w, [worker[w] EXCEPT !.io = IF @ = "connect" THEN "write" ELSE "read"])
             /\ UNCHANGED <<timers, queue, failed>>
    <2> DEFINE k == [worker[w] EXCEPT !.io = IF @ = "connect" THEN "write" ELSE "read"]
    <2>1. /\ k \in Kept /\ k.orig = worker[w].orig /\ k.io # "none"
          /\ k.resolve = worker[w].resolve /\ k.response = "none"
      BY <1>1, <1>4 DEF Kept
    <2> HIDE DEF k
    <2>2. HasAny(k) /\ Sane(k) /\ ~Rests(worker[w])
      BY <1>1, <1>4, <2>1 DEF HasAny, Sane, Rests
    <2>3. Finished(k) = k /\ Reply(w, k) = <<>>
      BY <2>2, Silent
    <2>4. \A m \in Range(queue) : m.kind = "resolved"
      BY Ranged DEF Inv, TypeOK
    <2>5. Becomes(w, Finished(k)) /\ queue' = Reply(w, k)
      BY <1>4, <2>3 DEF k
    <2>6. Works(w, k)
      BY <1>1, <1>4, <2>1, <2>2, <2>4, <2>5 DEF Works
    <2>7. QED
      BY <2>6, Worked
  <1>5. QED
    BY <1>2, <1>3, <1>4 DEF IoJob

LEMMA ExpiryInv ==
    ASSUME Inv, NEW t \in Timers, ExpiryJob(t), queue = <<>>, strand # <<>>,
           UNCHANGED <<clientVars, managerVars, failed>>
    PROVE  Inv'
  <1>1. timers \subseteq Timers /\ strand \in Seq(Jobs) /\ Tail(strand) \in Seq(Jobs)
    BY Rest DEF Inv, TypeOK
  <1>2. t.request \in Requests
    BY DEF Timers
  <1>3. CASE /\ strand' = Tail(strand)
             /\ UNCHANGED <<worker, asked, timers, queue>>
    BY <1>1, <1>3, Deferred
  <1>4. CASE /\ timers' = timers \ {t}
             /\ queue' = <<Message(IF t.of = "client" THEN "answer" ELSE "response", None,
                                   t.request, FALSE)>>
             /\ strand' = Tail(strand)
             /\ UNCHANGED <<worker, asked>>
    <2> DEFINE m == Message(IF t.of = "client" THEN "answer" ELSE "response", None,
                            t.request, FALSE)
    <2>1. m \in Messages /\ m.kind \in {"answer", "response"} /\ ~m.ok
      BY <1>2 DEF Message, Messages
    <2> HIDE DEF m
    <2>2. Says(m) /\ m.kind \notin Loading
      BY <2>1 DEF Says, Loading
    <2>3. QED
      BY <1>1, <1>4, <2>1, <2>2, Announced DEF m
  <1>5. CASE /\ timers' = timers \ {t} /\ UNCHANGED asked
             /\ \E w \in Workers : worker[w].timer /\ OnStrike(w)
    <2>1. PICK w \in Workers : worker[w].timer /\ OnStrike(w)
      BY <1>5
    <2> DEFINE k == [worker[w] EXCEPT !.timer = FALSE]
    <2>2. worker[w] \in Kept /\ Sane(worker[w])
      BY DEF Inv, TypeOK, Kept, Staff
    <2>3. /\ k \in Kept /\ k.orig = worker[w].orig /\ k.io = worker[w].io
          /\ k.resolve = worker[w].resolve /\ k.response = worker[w].response
          /\ k.timer = FALSE /\ k.sock = worker[w].sock
      BY <2>2 DEF Kept
    <2>4. Becomes(w, Finished(k)) /\ queue' = Reply(w, k)
      BY <2>1 DEF OnStrike
    <2>5. strand' \in Seq(Jobs)
      <3>1. [job |-> "io", worker |-> w, ok |-> FALSE] \in Jobs
        BY DEF Jobs
      <3>2. \/ strand' = Tail(strand) \o <<[job |-> "io", worker |-> w, ok |-> FALSE]>>
            \/ strand' = Tail(strand) \o <<>>
        BY <2>1 DEF OnStrike
      <3>3. Tail(strand) \o <<>> = Tail(strand)
        BY <1>1
      <3>4. Tail(strand) \o <<[job |-> "io", worker |-> w, ok |-> FALSE]>> \in Seq(Jobs)
        BY <1>1, <3>1, Appended
      <3>5. QED
        BY ONLY <1>1, <3>2, <3>3, <3>4
    <2> HIDE DEF k
    <2>6. Sane(k) /\ ~Rests(worker[w])
      BY <2>1, <2>2, <2>3 DEF Sane, Rests, HasAny
    <2>7. \A m \in Range(queue) : m.kind = "resolved"
      BY Ranged DEF Inv, TypeOK
    <2>8. Works(w, k)
      BY <1>1, <1>5, <2>3, <2>4, <2>5, <2>6, <2>7 DEF Works
    <2>9. QED
      BY <2>8, Worked
  <1>6. QED
    BY <1>3, <1>4, <1>5 DEF ExpiryJob

LEMMA JobInv == ASSUME Inv, RunJob PROVE Inv'
  <1> DEFINE j == Head(strand)
  <1>1. queue = <<>> /\ strand # <<>> /\ UNCHANGED <<clientVars, managerVars>>
    BY DEF RunJob
  <1>2. j \in Jobs /\ Tail(strand) \in Seq(Jobs)
    BY <1>1, Rest DEF Inv, TypeOK
  <1>3. CASE j.job = "io" /\ IoJob(j.worker, j.ok) /\ strand' = Tail(strand) /\ UNCHANGED asked
    <2>1. j.worker \in Workers /\ j.ok \in BOOLEAN
      BY <1>2, <1>3 DEF Jobs
    <2>2. QED
      BY <1>1, <1>2, <1>3, <2>1, IoInv
  <1>4. CASE j.job = "expiry" /\ ExpiryJob(j.timer) /\ UNCHANGED failed
    <2>1. j.timer \in Timers
      BY <1>2, <1>4 DEF Jobs
    <2>2. QED
      BY <1>1, <1>4, <2>1, ExpiryInv
  <1>5. QED
    BY <1>3, <1>4 DEF RunJob

LEMMA OutsideInv ==
    ASSUME Inv, NEW w \in Workers, NEW ok \in BOOLEAN, Outside(w, ok)
    PROVE  Inv'
  <1>1. queue = <<>> /\ timers \subseteq Timers /\ strand \in Seq(Jobs)
    BY DEF Outside, Inv, TypeOK
  <1>2. CASE Resolver(w, ok)
    <2> DEFINE m == [kind |-> "resolved", worker |-> w, ok |-> ok]
    <2>1. m \in Messages /\ m.kind = "resolved" /\ m.worker = w
      BY DEF Messages
    <2>2. queue' = <<m>> /\ worker[w].resolve > 0
          /\ UNCHANGED <<clientVars, managerVars, worker, asked, timers, strand, failed>>
      BY <1>2 DEF Resolver
    <2> HIDE DEF m
    <2>3. Says(m) /\ m.kind \notin Loading
      BY <2>1, <2>2 DEF Says, Loading
    <2>4. QED
      BY <1>1, <2>1, <2>2, <2>3, Announced
  <1>3. CASE IoCompletes(w, ok)
    <2>1. [job |-> "io", worker |-> w, ok |-> ok] \in Jobs
      BY DEF Jobs
    <2>2. strand' \in Seq(Jobs)
      BY <1>1, <1>3, <2>1 DEF IoCompletes
    <2>3. QED
      BY <1>1, <1>3, <2>2, Deferred DEF IoCompletes
  <1>4. QED
    BY <1>2, <1>3 DEF Outside

LEMMA ExpiresInv == ASSUME Inv, NEW t \in Timers, Expires(t) PROVE Inv'
  <1>1. timers \subseteq Timers /\ strand \in Seq(Jobs)
    BY DEF Inv, TypeOK
  <1>2. [job |-> "expiry", timer |-> t] \in Jobs
    BY DEF Jobs
  <1>3. strand' \in Seq(Jobs)
    BY <1>1, <1>2 DEF Expires
  <1>4. QED
    BY <1>1, <1>3, Deferred DEF Expires

---------------------------------------------------------------------------
\* The manager.

LEMMA Finite ==
    ASSUME Inv
    PROVE  /\ Held \subseteq Requests /\ Range(delayed_queue) \subseteq Requests
           /\ IsFiniteSet(Held) /\ Cardinality(Held) \in Nat
           /\ IsFiniteSet(created) /\ Cardinality(created) \in Nat
           /\ IsFiniteSet(created \ free_workers)
           /\ IsFiniteSet(Newcomers)
           /\ IsFiniteSet(active_requests) /\ Cardinality(active_requests) \in Nat
  <1>1. IsFiniteSet(Requests) /\ IsFiniteSet(Workers)
    BY FS_Interval, Numbers DEF Requests, Workers
  <1>2. Range(delayed_queue) \subseteq Requests
    BY Ranged DEF Inv, TypeOK
  <1>3. Held \subseteq Requests
    BY <1>2 DEF Held, Mapped
  <1>4. created \subseteq Workers /\ created \ free_workers \subseteq Workers
        /\ Newcomers \subseteq Workers /\ active_requests \subseteq Requests
    BY DEF Inv, TypeOK, Newcomers
  <1>5. /\ IsFiniteSet(Held) /\ IsFiniteSet(created) /\ IsFiniteSet(created \ free_workers)
        /\ IsFiniteSet(Newcomers) /\ IsFiniteSet(active_requests)
    BY <1>1, <1>3, <1>4, FS_Subset
  <1>6. QED
    BY <1>2, <1>3, <1>5, FS_CardinalityType

\* Which worker a request is given to: one that has none.
Gives(r, w) ==
    /\ r \in Requests \ Mapped /\ Timer("client", r) \in asked
    /\ w \in created /\ \A q \in Requests : req_mapping[q] # w
    /\ queue # <<>> /\ Head(queue).kind \in {"request", "created"}
    /\ \A n \in Range(Tail(queue)) :
        /\ n.kind = "request" => n.request # r
        /\ n.kind = "created" => n.worker # w
    /\ Forward(r, w)
    /\ free_workers' = free_workers \ {w}
    /\ delayed_queue' \in Seq(Requests) /\ Range(delayed_queue') \subseteq Held
    /\ UNCHANGED <<clientVars, created, worker, strand, failed>>

LEMMA Given ==
    ASSUME Inv, NEW r, NEW w, Gives(r, w)
    PROVE  /\ TypeOK' /\ Client' /\ Staff' /\ Orderly(queue')
           /\ \A m \in Range(queue') : Says(m)'
           /\ ManagerIsRight'
           /\ Mapped' = Mapped \cup {r}
           /\ \A q \in Requests : Timer("manager", q) \in asked' <=> q \in Mapped'
           /\ \A q \in Requests : req_mapping'[q] \in created' \cup {None}
           /\ Newcomers' = {v \in Workers :
                                [kind |-> "created", worker |-> v] \in Range(Tail(queue))}
  <1> DEFINE h == Head(queue)
             m == Message("work", w, r, TRUE)
  <1>1. /\ client' = client /\ active_requests' = active_requests
        /\ total_requests' = total_requests /\ http_errors' = http_errors
        /\ req_mapping' = [req_mapping EXCEPT ![r] = w]
        /\ asked' = asked \cup {Timer("manager", r)}
        /\ timers' = timers \cup {Timer("manager", r)}
        /\ queue' = Tail(queue) \o <<m>>
        /\ free_workers' = free_workers \ {w} /\ created' = created
        /\ worker' = worker /\ strand' = strand /\ failed' = failed
    BY DEF Gives, Forward, Post, clientVars
  <1>2. /\ queue \in Seq(Messages) /\ Orderly(queue) /\ queue # <<>>
        /\ h.kind \in {"request", "created"}
    BY DEF Inv, TypeOK, Gives
  <1>3. /\ Tail(queue) \in Seq(Messages) /\ Orderly(Tail(queue))
        /\ h \in Messages /\ Range(queue) = Range(Tail(queue)) \cup {h}
        /\ \A n \in Range(Tail(queue)) : n.kind \in Loading /\ ~Clash(h, n)
    BY <1>2, Taken
  <1>4. http_errors = 0 /\ ~Trouble
    <2>1. h \in Range(queue) /\ h.kind \in Loading
      BY <1>2, <1>3 DEF Loading
    <2>2. http_errors = 0
      BY <2>1 DEF Inv, Says, Loading
    <2>3. QED
      BY <2>1, <2>2, AtEase
  <1> HIDE DEF h
  <1>5. /\ r \in Requests /\ r \notin Mapped /\ req_mapping[r] = None
        /\ w \in Workers /\ w \in created /\ w # None
        /\ req_mapping \in [Requests -> Workers \cup {None}]
    BY Numbers DEF Gives, Mapped, Inv, TypeOK
  <1>6. /\ m \in Messages /\ m.kind = "work" /\ m.worker = w /\ m.request = r
    BY <1>5 DEF Message, Messages
  <1> HIDE DEF m
  <1>7. /\ req_mapping' \in [Requests -> Workers \cup {None}] /\ req_mapping'[r] = w
        /\ \A q \in Requests \ {r} : req_mapping'[q] = req_mapping[q]
    BY <1>1, <1>5
  <1>8. Mapped' = Mapped \cup {r}
    BY <1>5, <1>7 DEF Mapped
  <1>9. Held' \subseteq Held \cup {r}
    BY <1>8 DEF Held, Gives
  <1>10. /\ queue' \in Seq(Messages) /\ Orderly(queue')
         /\ Range(queue') = Range(Tail(queue)) \cup {m}
    <2>1. \A n \in Range(Tail(queue)) : ~Clash(n, m)
      <3> SUFFICES ASSUME NEW n \in Range(Tail(queue)), n.kind = "work", n.request = r
                   PROVE  FALSE
        BY <1>6 DEF Clash
      <3>1. req_mapping[r] = n.worker /\ n.worker # None
        BY <1>3 DEF Inv, Says
      <3>2. QED
        BY <1>5, <3>1
    <2>2. QED
      BY <1>1, <1>3, <1>6, <2>1, Sent DEF Loading
  <1>11. Timer("manager", r) \in Timers /\ \A q : Timer("client", q) # Timer("manager", r)
         /\ \A p : Timer("manager", p) = Timer("manager", r) => p = r
    BY <1>5 DEF Timer, Timers
  <1>12. TypeOK'
    BY <1>1, <1>7, <1>10, <1>11 DEF Inv, TypeOK, Gives
  <1>13. Client'
    BY <1>1, <1>4, <1>9, <1>11 DEF Inv, Client, Gives
  <1>14. \A v \in Workers : worker[v].orig # 0 =>
            /\ worker[v].orig \in Requests /\ worker[v].orig # r
            /\ req_mapping[worker[v].orig] = v
    <2> SUFFICES ASSUME NEW v \in Workers, worker[v].orig # 0
                 PROVE  /\ worker[v].orig \in Requests /\ worker[v].orig # r
                        /\ req_mapping[worker[v].orig] = v
      OBVIOUS
    <2>1. worker[v].orig \in Requests
      <3>1. worker[v] \in Kept
        BY DEF Inv, TypeOK, Kept
      <3>2. worker[v].orig \in 0 .. max_requests
        BY <3>1 DEF Kept
      <3>3. QED
        BY <3>2, Numbers DEF Requests
    <2>2. req_mapping[worker[v].orig] = v /\ v # None
      BY <1>4, Numbers DEF Inv, Staff
    <2>3. QED
      BY <1>5, <2>1, <2>2
  <1>15. Staff'
    <2> SUFFICES ASSUME NEW v \in Workers
                 PROVE  /\ Sane(worker[v])
                        /\ ~Rests(worker[v]) => worker[v].orig # 0
                        /\ worker[v].orig # 0 => req_mapping'[worker[v].orig] = v
      BY <1>1 DEF Staff
    <2>1. QED
      BY <1>4, <1>7, <1>14 DEF Inv, Staff
  <1>16. Rests(worker[w])
    <2>1. worker[w].orig = 0
      BY <1>5, <1>14 DEF Gives
    <2>2. QED
      BY <1>4, <1>5, <2>1 DEF Inv, Staff
  <1>17. ASSUME NEW n \in Range(queue')
         PROVE  Says(n)'
    <2>1. CASE n = m
      BY <1>1, <1>4, <1>5, <1>6, <1>7, <1>16, <2>1 DEF Says
    <2>2. CASE n \in Range(Tail(queue))
      <3>1. n \in Messages /\ n.kind \in Loading /\ Says(n)
        BY <1>3, <2>2, Ranged DEF Inv
      <3>2. n.kind = "request" => n.request \notin Held' /\ Timer("client", n.request) \in asked'
        BY <1>1, <1>9, <2>2, <3>1 DEF Says, Gives
      <3>3. n.kind = "created" => /\ n.worker \in created' \ free_workers'
                                  /\ \A q \in Requests : req_mapping'[q] # n.worker
        BY <1>1, <1>7, <2>2, <3>1 DEF Says, Gives
      <3>4. n.kind = "work" => /\ n.worker # None /\ Rests(worker'[n.worker])
                               /\ req_mapping'[n.request] = n.worker
        <4>1. n.kind = "work" => n.request \in Requests
          BY <3>1, Kinds
        <4>2. QED
          BY <1>1, <1>5, <1>7, <3>1, <4>1 DEF Says
      <3>5. QED
        BY <1>1, <1>4, <3>1, <3>2, <3>3, <3>4 DEF Says, Loading
    <2>3. QED
      BY <1>10, <2>1, <2>2
  <1>18. ManagerIsRight'
    <2>1. OneRequestEach'
      BY <1>1, <1>5, <1>7 DEF OneRequestEach, Inv, ManagerIsRight, Gives
    <2>2. QED
      BY <1>1, <2>1 DEF Inv, ManagerIsRight, WorkerIsDone, WorkersMatchLoad
  <1>19. \A q \in Requests : Timer("manager", q) \in asked' <=> q \in Mapped'
    BY <1>1, <1>8, <1>11 DEF Inv, Manager
  <1>20. \A q \in Requests : req_mapping'[q] \in created' \cup {None}
    BY <1>1, <1>5, <1>7 DEF Inv, Manager
  <1>21. Newcomers' = {v \in Workers :
                            [kind |-> "created", worker |-> v] \in Range(Tail(queue))}
    <2>1. \A v : [kind |-> "created", worker |-> v].kind = "created"
      OBVIOUS
    <2>2. QED
      BY <1>6, <1>10, <2>1 DEF Newcomers
  <1>22. QED
    BY <1>8, <1>10, <1>12, <1>13, <1>15, <1>17, <1>18, <1>19, <1>20, <1>21

LEMMA FreeWorkerInv ==
    ASSUME Inv, Next1("request"), NEW w \in free_workers,
           Forward(Head(queue).request, w), free_workers' = free_workers \ {w},
           UNCHANGED <<clientVars, delayed_queue, created, worker, strand, failed>>
    PROVE  Inv'
  <1> DEFINE h == Head(queue)
             r == h.request
  <1>1. h.kind = "request" /\ queue # <<>> /\ queue \in Seq(Messages) /\ Orderly(queue)
    BY DEF Next1, Inv, TypeOK
  <1>2. /\ h \in Messages /\ h \in Range(queue) /\ Range(queue) = Range(Tail(queue)) \cup {h}
        /\ \A n \in Range(Tail(queue)) : ~Clash(h, n)
    BY <1>1, Taken
  <1>3. r \in Requests /\ r \notin Held /\ Timer("client", r) \in asked
    BY <1>1, <1>2, Kinds DEF Inv, Says
  <1>4. w \in created /\ w # None /\ \A q \in Requests : req_mapping[q] # w
    BY Numbers DEF Inv, TypeOK, ManagerIsRight, OneRequestEach
  <1>5. delayed_queue' = delayed_queue /\ created' = created
    OBVIOUS
  <1>6. Gives(r, w)
    <2>1. \A n \in Range(Tail(queue)) :
            /\ n.kind = "request" => n.request # r
            /\ n.kind = "created" => n.worker # w
      <3>1. \A n \in Range(Tail(queue)) : n.kind = "created" => n.worker \notin free_workers
        BY <1>2 DEF Inv, Says
      <3>2. \A n \in Range(Tail(queue)) : n.kind = "request" => n.request # r
        BY <1>1, <1>2 DEF Clash
      <3>3. QED
        BY <3>1, <3>2
    <2>2. delayed_queue' \in Seq(Requests) /\ Range(delayed_queue') \subseteq Held
      BY <1>5 DEF Held, Inv, TypeOK
    <2>3. r \in Requests \ Mapped
      BY <1>3 DEF Held
    <2>4. QED
      BY <1>1, <1>3, <1>4, <2>1, <2>2, <2>3 DEF Gives
  <1> HIDE DEF h, r
  <1>7. Mapped' = Mapped \cup {r} /\ Held' = Held \cup {r}
    BY <1>5, <1>6, Given DEF Held
  <1>8. Newcomers' = Newcomers
    <2>1. Newcomers' = {v \in Workers :
                            [kind |-> "created", worker |-> v] \in Range(Tail(queue))}
      BY <1>6, Given
    <2>2. \A v : [kind |-> "created", worker |-> v] # h
      BY <1>1
    <2>3. QED
      BY <1>2, <2>1, <2>2 DEF Newcomers
  <1>9. Cardinality(created' \ free_workers') = Cardinality(Held')
    <2>1. created' \ free_workers' = (created \ free_workers) \cup {w}
      BY <1>4, <1>5
    <2>2. Cardinality((created \ free_workers) \cup {w}) = Cardinality(created \ free_workers) + 1
      BY Finite, FS_AddElement
    <2>3. Cardinality(Held \cup {r}) = Cardinality(Held) + 1
      BY <1>3, Finite, FS_AddElement
    <2>4. QED
      BY <1>7, <2>1, <2>2, <2>3 DEF Inv, Manager
  <1>10. Manager'
    <2>1. Mapped' \cap Range(delayed_queue') = {}
      BY <1>3, <1>5, <1>7 DEF Held, Inv, Manager
    <2>2. /\ \A q \in Requests : Timer("manager", q) \in asked' <=> q \in Mapped'
          /\ \A q \in Requests : req_mapping'[q] \in created' \cup {None}
      BY <1>6, Given
    <2>3. QED
      BY <1>5, <1>8, <1>9, <2>1, <2>2 DEF Inv, Manager
  <1>11. QED
    BY <1>6, <1>10, Given DEF Inv

LEMMA WorkerThereInv ==
    ASSUME Inv, Next1("created"), Forward(Head(delayed_queue), Head(queue).worker),
           delayed_queue' = Tail(delayed_queue),
           UNCHANGED <<clientVars, free_workers, created, worker, strand, failed>>
    PROVE  Inv'
  <1> DEFINE h == Head(queue)
             w == h.worker
             r == Head(delayed_queue)
  <1>1. /\ h.kind = "created" /\ queue # <<>> /\ queue \in Seq(Messages) /\ Orderly(queue)
        /\ Forward(r, w) /\ delayed_queue' = Tail(delayed_queue)
        /\ free_workers' = free_workers /\ created' = created
        /\ UNCHANGED <<clientVars, created, worker, strand, failed>>
    BY DEF Next1, Inv, TypeOK
  <1>2. /\ h \in Messages /\ h \in Range(queue) /\ Range(queue) = Range(Tail(queue)) \cup {h}
        /\ \A n \in Range(Tail(queue)) : ~Clash(h, n)
    BY <1>1, Taken
  <1>3. /\ w \in Workers /\ h = [kind |-> "created", worker |-> w] /\ http_errors = 0
        /\ w \in created \ free_workers /\ \A q \in Requests : req_mapping[q] # w
    BY <1>1, <1>2, Kinds DEF Inv, Says
  <1>4. w \in Newcomers
    BY <1>2, <1>3 DEF Newcomers
  <1>5. delayed_queue \in Seq(Requests) /\ Len(delayed_queue) = Cardinality(Newcomers)
    BY DEF Inv, TypeOK, Manager
  <1>6. delayed_queue # <<>>
    <2>1. Cardinality(Newcomers) # 0
      BY <1>4, Finite, FS_EmptySet
    <2>2. QED
      BY <1>5, <2>1
  <1> HIDE DEF h, w
  <1>7. /\ Tail(delayed_queue) \in Seq(Requests) /\ r \in Requests /\ r = delayed_queue[1]
        /\ 1 \in 1 .. Len(delayed_queue) /\ Len(delayed_queue) \in Nat
        /\ Len(Tail(delayed_queue)) = Len(delayed_queue) - 1
        /\ \A i \in 1 .. Len(Tail(delayed_queue)) :
            i + 1 \in 1 .. Len(delayed_queue) /\ Tail(delayed_queue)[i] = delayed_queue[i + 1]
        /\ Range(delayed_queue) = Range(Tail(delayed_queue)) \cup {r}
    BY <1>5, <1>6, Rest
  <1> HIDE DEF r
  <1>8. r \in Held /\ r \notin Mapped /\ Timer("client", r) \in asked
    BY <1>3, <1>7 DEF Held, Inv, Manager, Client
  <1>9. \A i, j \in 1 .. Len(delayed_queue) : delayed_queue[i] = delayed_queue[j] => i = j
    BY DEF Inv, Manager
  <1>10. r \notin Range(Tail(delayed_queue))
    <2> SUFFICES ASSUME r \in Range(Tail(delayed_queue))
                 PROVE  FALSE
      OBVIOUS
    <2> DEFINE s == Tail(delayed_queue)
    <2>1. s \in Seq(Requests) /\ r \in Range(s)
      BY <1>7
    <2> HIDE DEF s
    <2>2. PICK i \in 1 .. Len(s) : s[i] = r
      BY <2>1, Ranged
    <2>3. delayed_queue[i + 1] = delayed_queue[1] /\ i + 1 \in 1 .. Len(delayed_queue)
      BY <1>7, <2>2 DEF s
    <2>4. i + 1 = 1
      BY <1>7, <1>9, <2>3
    <2>5. QED
      BY <2>4
  <1>11. \A n \in Range(Tail(queue)) :
            /\ n.kind = "request" => n.request # r
            /\ n.kind = "created" => n.worker # w
    <2>1. \A n \in Range(Tail(queue)) : n.kind = "request" => n.request \notin Held
      BY <1>2 DEF Inv, Says
    <2>2. \A n \in Range(Tail(queue)) : n.kind = "created" => n.worker # w
      BY <1>1, <1>2 DEF Clash, w
    <2>3. QED
      BY <1>8, <2>1, <2>2
  <1>12. Gives(r, w)
    <2>1. Forward(r, w)
      BY <1>1 DEF r, w, h
    <2>2. Head(queue).kind \in {"request", "created"}
      BY <1>1 DEF h
    <2>3. free_workers' = free_workers \ {w}
      BY <1>1, <1>3
    <2>4. Range(delayed_queue') \subseteq Held
      BY <1>1, <1>7 DEF Held
    <2>5. QED
      BY <1>1, <1>3, <1>7, <1>8, <1>11, <2>1, <2>2, <2>3, <2>4 DEF Gives
  <1>13. Mapped' = Mapped \cup {r}
    BY <1>12, Given
  <1>14. Held' = Held
    BY <1>1, <1>7, <1>13 DEF Held
  <1>15. Newcomers' = Newcomers \ {w}
    <2>1. Newcomers' = {v \in Workers :
                            [kind |-> "created", worker |-> v] \in Range(Tail(queue))}
      BY <1>12, Given
    <2>2. \A v \in Workers : [kind |-> "created", worker |-> v] = h <=> v = w
      BY <1>3
    <2>3. [kind |-> "created", worker |-> w] \notin Range(Tail(queue))
      BY <1>11
    <2>4. QED
      BY <1>2, <2>1, <2>2, <2>3 DEF Newcomers
  <1>16. Cardinality(Newcomers') = Len(delayed_queue')
    BY <1>1, <1>4, <1>5, <1>7, <1>15, Finite, FS_RemoveElement
  <1>17. \A i, j \in 1 .. Len(delayed_queue') : delayed_queue'[i] = delayed_queue'[j] => i = j
    <2> DEFINE s == Tail(delayed_queue)
    <2> SUFFICES ASSUME NEW i \in 1 .. Len(s), NEW j \in 1 .. Len(s), s[i] = s[j]
                 PROVE  i = j
      BY <1>1
    <2>1. i + 1 = j + 1
      BY <1>7, <1>9
    <2>2. QED
      BY <2>1
  <1>18. Mapped' \cap Range(delayed_queue') = {}
    BY <1>1, <1>7, <1>10, <1>13 DEF Inv, Manager
  <1>19. Manager'
    <2>1. /\ \A q \in Requests : Timer("manager", q) \in asked' <=> q \in Mapped'
          /\ \A q \in Requests : req_mapping'[q] \in created' \cup {None}
      BY <1>12, Given
    <2>2. QED
      BY <1>1, <1>14, <1>16, <1>17, <1>18, <2>1 DEF Inv, Manager
  <1>20. QED
    BY <1>12, <1>19, Given DEF Inv

LEMMA ChildInitInv == ASSUME Inv, OnChildInit PROVE Inv'
  <1>1. CASE /\ failed' = failed \cup {"worker initialized"}
             /\ UNCHANGED <<req_mapping, delayed_queue, asked, timers, queue>>
    <2>1. /\ client' = client /\ active_requests' = active_requests
          /\ total_requests' = total_requests /\ http_errors' = http_errors
          /\ req_mapping' = req_mapping /\ free_workers' = free_workers
          /\ delayed_queue' = delayed_queue /\ created' = created /\ asked' = asked
          /\ worker' = worker /\ queue' = queue /\ timers' = timers /\ strand' = strand
      BY <1>1 DEF OnChildInit, clientVars
    <2>2. Mapped' = Mapped /\ Held' = Held /\ Newcomers' = Newcomers /\ (Trouble' <=> Trouble)
      BY <2>1 DEF Mapped, Held, Newcomers, Trouble, Tells
    <2>3. TypeOK'
      BY <1>1, <2>1 DEF Inv, TypeOK
    <2>4. Client' /\ Manager' /\ Staff'
      BY <2>1, <2>2 DEF Inv, Client, Manager, Staff
    <2>5. ManagerIsRight'
      BY <1>1, <2>1
      DEF Inv, ManagerIsRight, WorkerIsDone, WorkersMatchLoad, OneRequestEach
    <2>6. \A m \in Range(queue') : Says(m)'
      BY <2>1, <2>2 DEF Inv, Says
    <2>7. QED
      BY <2>1, <2>3, <2>4, <2>5, <2>6 DEF Inv
  <1>2. CASE Forward(Head(delayed_queue), Head(queue).worker) /\ UNCHANGED failed
             /\ delayed_queue' = Tail(delayed_queue)
    BY <1>2, WorkerThereInv DEF OnChildInit
  <1>3. QED
    BY <1>1, <1>2 DEF OnChildInit

LEMMA NewWorkerInv ==
    ASSUME Inv, Next1("request"), free_workers = {},
           NEW w, w = Cardinality(created) + 1, w \in Workers,
           created' = created \cup {w}, Post(<<[kind |-> "created", worker |-> w]>>),
           delayed_queue' = Append(delayed_queue, Head(queue).request),
           UNCHANGED <<free_workers, req_mapping, asked, timers>>,
           UNCHANGED <<clientVars, worker, strand, failed>>
    PROVE  Inv'
  <1> DEFINE h == Head(queue)
             r == h.request
             m == [kind |-> "created", worker |-> w]
  <1>1. /\ h.kind = "request" /\ queue # <<>> /\ queue \in Seq(Messages) /\ Orderly(queue)
        /\ queue' = Tail(queue) \o <<m>>
        /\ delayed_queue' = Append(delayed_queue, r)
        /\ delayed_queue \in Seq(Requests)
        /\ client' = client /\ active_requests' = active_requests
        /\ total_requests' = total_requests /\ http_errors' = http_errors
        /\ free_workers' = free_workers /\ req_mapping' = req_mapping /\ asked' = asked
        /\ worker' = worker /\ failed' = failed
    BY DEF Next1, Post, clientVars, Inv, TypeOK
  <1>2. /\ Tail(queue) \in Seq(Messages) /\ Orderly(Tail(queue))
        /\ h \in Messages /\ h \in Range(queue) /\ Range(queue) = Range(Tail(queue)) \cup {h}
        /\ \A n \in Range(Tail(queue)) : n.kind \in Loading /\ ~Clash(h, n)
    BY <1>1, Taken
  <1>3. /\ r \in Requests /\ r \notin Held /\ Timer("client", r) \in asked
        /\ http_errors = 0
    BY <1>1, <1>2, Kinds DEF Inv, Says
  <1>4. ~Trouble
    BY <1>1, <1>2, AtEase DEF Loading
  <1>5. /\ m \in Messages /\ m.kind = "created" /\ m.worker = w
        /\ \A v : [kind |-> "created", worker |-> v].kind = "created"
        /\ \A v : [kind |-> "created", worker |-> v] = m <=> v = w
    BY DEF Messages
  <1> HIDE DEF h, r, m
  <1>6. Cardinality(created) \in Nat /\ created = 1 .. Cardinality(created) /\ w \notin created
        /\ w # None
    <2>1. Cardinality(created) \in Nat /\ created = 1 .. Cardinality(created)
      BY Finite DEF Inv, Manager
    <2>2. w \notin created
      BY <2>1
    <2>3. QED
      BY <2>1, <2>2, Numbers
  <1>7. Cardinality(created') = Cardinality(created) + 1
    BY <1>6, Finite, FS_AddElement
  <1>8. created' = 1 .. Cardinality(created')
    BY <1>6, <1>7
  <1>9. /\ delayed_queue' \in Seq(Requests) /\ Len(delayed_queue) \in Nat
        /\ Len(delayed_queue') = Len(delayed_queue) + 1
        /\ delayed_queue'[Len(delayed_queue) + 1] = r
        /\ \A i \in 1 .. Len(delayed_queue) : delayed_queue'[i] = delayed_queue[i]
        /\ Range(delayed_queue') = Range(delayed_queue) \cup {r}
    <2>1. \A s \in Seq(Requests) : Append(s, r) = s \o <<r>>
      BY <1>3
    <2>2. delayed_queue' = delayed_queue \o <<r>>
      BY ONLY <1>1, <2>1
    <2>3. delayed_queue \in Seq(Requests) /\ r \in Requests
      BY <1>1, <1>3
    <2>4. QED
      BY ONLY <2>2, <2>3, Appended
  <1>10. Mapped' = Mapped /\ Held' = Held \cup {r}
    BY <1>1, <1>9 DEF Mapped, Held
  <1>11. /\ queue' \in Seq(Messages) /\ Orderly(queue')
         /\ Range(queue') = Range(Tail(queue)) \cup {m}
    <2>1. \A n \in Range(Tail(queue)) : ~Clash(n, m)
      <3>1. \A n \in Range(Tail(queue)) : n.kind = "created" => n.worker \in created
        BY <1>2 DEF Inv, Says
      <3>2. QED
        BY <1>5, <1>6, <3>1 DEF Clash
    <2>2. QED
      BY <1>1, <1>2, <1>5, <2>1, Sent DEF Loading
  <1>12. Newcomers' = Newcomers \cup {w} /\ w \notin Newcomers
    <2>1. w \notin Newcomers
      BY <1>5, <1>6 DEF Newcomers, Inv, Says
    <2>2. \A v : [kind |-> "created", worker |-> v] # h
      BY <1>1, <1>5
    <2>3. Newcomers' = Newcomers \cup {w}
      BY <1>2, <1>5, <1>11, <2>2 DEF Newcomers
    <2>4. QED
      BY <2>1, <2>3
  <1>13. Cardinality(Newcomers') = Len(delayed_queue')
    <2>1. Cardinality(Newcomers \cup {w}) = Cardinality(Newcomers) + 1
      BY <1>12, Finite, FS_AddElement
    <2>2. QED
      BY <1>9, <1>12, <2>1 DEF Inv, Manager
  <1>14. Cardinality(Held \cup {r}) = Cardinality(Held) + 1
    BY <1>3, Finite, FS_AddElement
  <1>15. Cardinality(created) = Cardinality(Held)
    <2>1. created \ free_workers = created
      OBVIOUS
    <2>2. QED
      BY <2>1 DEF Inv, Manager
  <1>16. Cardinality(created' \ free_workers') = Cardinality(Held')
    <2>1. created' \ free_workers' = created'
      BY <1>1
    <2>2. QED
      BY <1>7, <1>10, <1>14, <1>15, <2>1
  <1>17. \A i, j \in 1 .. Len(delayed_queue') : delayed_queue'[i] = delayed_queue'[j] => i = j
    <2>1. \A i \in 1 .. Len(delayed_queue') : i \in 1 .. Len(delayed_queue) \/ i = Len(delayed_queue) + 1
      BY <1>9
    <2>2. \A i \in 1 .. Len(delayed_queue) : delayed_queue[i] # r
      BY <1>1, <1>3, Ranged DEF Held
    <2>3. \A i, j \in 1 .. Len(delayed_queue) : delayed_queue[i] = delayed_queue[j] => i = j
      BY DEF Inv, Manager
    <2>4. QED
      BY <1>9, <2>1, <2>2, <2>3
  <1>18. Manager'
    <2>1. Mapped' \cap Range(delayed_queue') = {}
      BY <1>3, <1>9, <1>10 DEF Held, Inv, Manager
    <2>2. \A q \in Requests : req_mapping'[q] \in created' \cup {None}
      BY <1>1 DEF Inv, Manager
    <2>3. \A q \in Requests : Timer("manager", q) \in asked' <=> q \in Mapped'
      BY <1>1, <1>10 DEF Inv, Manager
    <2>4. QED
      BY <1>8, <1>13, <1>16, <1>17, <2>1, <2>2, <2>3 DEF Manager
  <1>19. Client'
    BY <1>1, <1>3, <1>10 DEF Inv, Client
  <1>20. Staff'
    BY <1>1, <1>4 DEF Inv, Staff
  <1>21. TypeOK'
    BY <1>1, <1>9, <1>11 DEF Inv, TypeOK
  <1>22. ASSUME NEW n \in Range(queue')
         PROVE  Says(n)'
    <2>1. CASE n = m
      <3>1. w \in created' \ free_workers' /\ \A q \in Requests : req_mapping'[q] # w
        BY <1>1, <1>6 DEF Inv, Manager
      <3>2. QED
        BY <1>1, <1>3, <1>5, <2>1, <3>1 DEF Says
    <2>2. CASE n \in Range(Tail(queue))
      <3>1. n.kind \in Loading /\ Says(n) /\ (n.kind = "request" => n.request # r)
        BY <1>1, <1>2, <2>2 DEF Inv, Clash, r
      <3>2. QED
        BY <1>1, <1>10, <3>1 DEF Says, Loading
    <2>3. QED
      BY <1>11, <2>1, <2>2
  <1>23. ManagerIsRight'
    <2>1. Held \cup {r} \subseteq active_requests
      BY <1>3, Finite DEF Inv, Client
    <2>2. Cardinality(Held \cup {r}) <= Cardinality(active_requests)
      BY <2>1, Finite, FS_Subset
    <2>3. Cardinality(created') <= concurrency
      BY <1>7, <1>14, <1>15, <2>2, Finite, Numbers DEF Inv, Client
    <2>4. QED
      BY <1>1, <2>3 DEF Inv, ManagerIsRight, WorkerIsDone, WorkersMatchLoad, OneRequestEach
  <1>24. QED
    BY <1>11, <1>18, <1>19, <1>20, <1>21, <1>22, <1>23 DEF Inv

LEMMA RequestInv == ASSUME Inv, OnRequest PROVE Inv'
  <1> DEFINE r == Head(queue).request
  <1>1. Next1("request") /\ UNCHANGED <<clientVars, worker, strand, failed>>
    BY DEF OnRequest
  <1>2. CASE \E w \in free_workers :
                /\ free_workers' = free_workers \ {w}
                /\ Forward(r, w)
                /\ UNCHANGED <<delayed_queue, created>>
    BY <1>1, <1>2, FreeWorkerInv
  <1>3. CASE /\ free_workers = {}
             /\ LET w == Cardinality(created) + 1
                IN  /\ w \in Workers
                    /\ created' = created \cup {w}
                    /\ Post(<<[kind |-> "created", worker |-> w]>>)
             /\ delayed_queue' = Append(delayed_queue, r)
             /\ UNCHANGED <<free_workers, req_mapping, asked, timers>>
    BY <1>1, <1>3, NewWorkerInv
  <1>4. QED
    BY <1>2, <1>3 DEF OnRequest

\* A message that nobody waits for any more, with nothing else in the queue.
LEMMA Dropped ==
    ASSUME Inv, NEW m, Range(queue) = {m}, m.kind \notin Loading, ~Tells(m), queue' = <<>>,
           UNCHANGED <<clientVars, managerVars, worker, asked, timers, strand, failed>>
    PROVE  Inv'
  <1>1. /\ client' = client /\ active_requests' = active_requests
        /\ total_requests' = total_requests /\ http_errors' = http_errors
        /\ req_mapping' = req_mapping /\ free_workers' = free_workers
        /\ delayed_queue' = delayed_queue /\ created' = created /\ asked' = asked
        /\ worker' = worker /\ failed' = failed /\ timers' = timers /\ strand' = strand
    BY DEF clientVars, managerVars
  <1>2. queue' \in Seq(Messages) /\ Len(queue') = 0
    OBVIOUS
  <1>3. Range(queue') = {} /\ Orderly(queue')
    BY <1>2, Ranged DEF Orderly
  <1>4. Mapped' = Mapped /\ Held' = Held
    BY <1>1 DEF Mapped, Held
  <1>5. Newcomers' = {} /\ Newcomers = {}
    <2>1. \A v : [kind |-> "created", worker |-> v].kind = "created"
      OBVIOUS
    <2>2. QED
      BY <1>3, <2>1 DEF Newcomers, Loading
  <1>6. Trouble => Trouble'
    BY <1>1 DEF Trouble
  <1>7. TypeOK'
    BY <1>1, <1>2 DEF Inv, TypeOK
  <1>8. Client' /\ Manager' /\ Staff'
    BY <1>1, <1>4, <1>5, <1>6 DEF Inv, Client, Manager, Staff
  <1>9. ManagerIsRight'
    BY <1>1 DEF Inv, ManagerIsRight, WorkerIsDone, WorkersMatchLoad, OneRequestEach
  <1>10. QED
    BY <1>3, <1>7, <1>8, <1>9 DEF Inv

\* A message that comes alone.
LEMMA Lone ==
    ASSUME Inv, NEW kind, Next1(kind), kind \notin Loading
    PROVE  /\ Head(queue) \in Messages /\ Head(queue).kind = kind
           /\ Range(queue) = {Head(queue)} /\ Tail(queue) = <<>>
           /\ Says(Head(queue))
  <1>1. queue \in Seq(Messages) /\ Orderly(queue) /\ queue # <<>> /\ Head(queue).kind = kind
    BY DEF Inv, TypeOK, Next1
  <1>2. /\ Head(queue) \in Messages /\ Tail(queue) = <<>>
        /\ Range(queue) = Range(Tail(queue)) \cup {Head(queue)}
        /\ Tail(queue) \in Seq(Messages)
    BY <1>1, Taken
  <1>3. Range(queue) = {Head(queue)}
    BY <1>2, Ranged
  <1>4. QED
    BY <1>1, <1>2, <1>3 DEF Inv

LEMMA ResponseInv == ASSUME Inv, OnResponse PROVE Inv'
  <1> DEFINE h == Head(queue)
             r == h.request
             w == req_mapping[r]
             m == Message("answer", None, r, h.ok)
  <1>1. Next1("response")
    BY DEF OnResponse
  <1>2. /\ h \in Messages /\ h.kind = "response" /\ Range(queue) = {h}
        /\ Tail(queue) = <<>> /\ Says(h)
    BY <1>1, Lone DEF Loading
  <1>3. r \in Requests /\ h.ok \in BOOLEAN
    BY <1>2, Kinds
  <1>4. m \in Messages /\ m.kind = "answer" /\ m.request = r /\ m.ok = h.ok
    BY <1>3 DEF Message, Messages
  <1> HIDE DEF m
  <1>5. CASE Awaited("manager", r)
    <2>1. /\ asked' = asked \ {Timer("manager", r)}
          /\ timers' = timers \ {Timer("manager", r)}
          /\ free_workers' = free_workers \cup {w}
          /\ req_mapping' = [req_mapping EXCEPT ![r] = None]
          /\ queue' = <<m>>
          /\ client' = client /\ active_requests' = active_requests
          /\ total_requests' = total_requests /\ http_errors' = http_errors
          /\ delayed_queue' = delayed_queue /\ created' = created
          /\ worker' = worker /\ strand' = strand /\ failed' = failed
      <3>1. Settle("manager", r, {}) /\ Post(<<m>>)
        BY <1>5 DEF OnResponse, m
      <3>2. queue' = <<m>>
        <4>1. <<>> \o <<m>> = <<m>>
          OBVIOUS
        <4>2. QED
          BY <1>2, <3>1, <4>1 DEF Post
      <3>3. QED
        BY <1>5, <3>1, <3>2 DEF OnResponse, Settle, clientVars
    <2>2. /\ r \in Mapped /\ w \in Workers /\ w \in created /\ w \notin free_workers
          /\ Timer("manager", r) \in asked /\ w # None
          /\ \A q \in Requests \ {r} : req_mapping[q] # w
      <3>1. r \in Mapped /\ w # None /\ Timer("manager", r) \in asked
        BY <1>3, <1>5 DEF Awaited, Inv, Manager, Mapped
      <3>2. QED
        BY <1>3, <3>1 DEF Inv, Manager, TypeOK, ManagerIsRight, OneRequestEach
    <2> HIDE DEF h, r, w
    <2>3. /\ req_mapping' \in [Requests -> Workers \cup {None}] /\ req_mapping'[r] = None
          /\ \A q \in Requests \ {r} : req_mapping'[q] = req_mapping[q]
      BY <1>3, <2>1 DEF Inv, TypeOK
    <2>4. Mapped' = Mapped \ {r}
      BY <1>3, <2>3 DEF Mapped
    <2>5. Held' = Held \ {r} /\ r \in Held
      BY <2>1, <2>2, <2>4 DEF Held, Inv, Manager
    <2>6. queue' \in Seq(Messages) /\ Orderly(queue') /\ Range(queue') = {m}
      BY <1>4, <2>1, Single
    <2>7. Newcomers' = {} /\ Newcomers = {}
      <3>1. \A v : [kind |-> "created", worker |-> v].kind = "created"
        OBVIOUS
      <3>2. QED
        BY <1>2, <1>4, <2>6, <3>1 DEF Newcomers
    <2>8. /\ \A q : Timer("client", q) # Timer("manager", r)
          /\ \A q : Timer("manager", q) = Timer("manager", r) => q = r
      BY DEF Timer
    <2>9. ~h.ok => Trouble
      BY <1>2, <2>2 DEF Trouble, Tells, r
    <2>10. ~h.ok => Trouble'
      <3>1. http_errors = 0 => Timer("client", r) \in asked
        BY <2>5 DEF Inv, Client
      <3>2. http_errors \in Nat
        BY DEF Inv, TypeOK
      <3>3. QED
        BY <1>4, <2>1, <2>6, <2>8, <3>1, <3>2 DEF Trouble, Tells
    <2>11. Trouble => Trouble'
      <3>1. h.ok => (Trouble <=> http_errors > 0)
        BY <1>2 DEF Trouble, Tells
      <3>2. QED
        BY <2>1, <2>10, <3>1 DEF Trouble
    <2>12. TypeOK'
      BY <2>1, <2>2, <2>3, <2>6 DEF Inv, TypeOK
    <2>13. Client'
      BY <2>1, <2>5, <2>8 DEF Inv, Client
    <2>14. Cardinality(created' \ free_workers') = Cardinality(Held')
      <3>1. created' \ free_workers' = (created \ free_workers) \ {w}
        BY <2>1
      <3>2. Cardinality((created \ free_workers) \ {w}) = Cardinality(created \ free_workers) - 1
        BY <2>2, Finite, FS_RemoveElement
      <3>3. Cardinality(Held \ {r}) = Cardinality(Held) - 1
        BY <2>5, Finite, FS_RemoveElement
      <3>4. QED
        BY <2>5, <3>1, <3>2, <3>3 DEF Inv, Manager
    <2>15. Manager'
      <3>1. \A q \in Requests : Timer("manager", q) \in asked' <=> q \in Mapped'
        BY <2>1, <2>4, <2>8 DEF Inv, Manager
      <3>2. \A q \in Requests : req_mapping'[q] \in created' \cup {None}
        BY <2>1, <2>3 DEF Inv, Manager
      <3>3. Mapped' \cap Range(delayed_queue') = {}
        BY <2>1, <2>4 DEF Inv, Manager
      <3>4. QED
        BY <2>1, <2>7, <2>14, <3>1, <3>2, <3>3 DEF Inv, Manager
    <2>16. Staff'
      <3> SUFFICES ASSUME NEW v \in Workers
                   PROVE  /\ Sane(worker[v])
                          /\ ~Trouble' /\ ~Rests(worker[v]) => worker[v].orig # 0
                          /\ ~Trouble' /\ worker[v].orig # 0
                                => req_mapping'[worker[v].orig] = v
        BY <2>1 DEF Staff
      <3>1. /\ Sane(worker[v])
            /\ ~Trouble' /\ ~Rests(worker[v]) => worker[v].orig # 0
        BY <2>11 DEF Inv, Staff
      <3>2. ASSUME ~Trouble', worker[v].orig # 0
            PROVE  req_mapping'[worker[v].orig] = v
        <4>1. worker[v].orig \in Requests
          <5>1. worker[v] \in Kept
            BY DEF Inv, TypeOK, Kept
          <5>2. worker[v].orig \in 0 .. max_requests
            BY <5>1 DEF Kept
          <5>3. QED
            BY <3>2, <5>2, Numbers DEF Requests
        <4>2. req_mapping[worker[v].orig] = v
          BY <2>11, <3>2 DEF Inv, Staff
        <4>3. http_errors = 0
          <5>1. http_errors \in Nat /\ ~(http_errors > 0)
            BY <2>11, <3>2 DEF Trouble, Inv, TypeOK
          <5>2. QED
            BY <5>1
        <4>4. h.ok
          BY <2>10, <3>2
        <4>5. h.worker = w /\ Rests(worker[w])
          BY <1>2, <2>2, <4>3, <4>4 DEF Says, r, w
        <4>6. worker[v].orig # r
          <5> SUFFICES ASSUME worker[v].orig = r
                       PROVE  FALSE
            OBVIOUS
          <5>1. v = w
            BY <4>2 DEF w
          <5>2. QED
            BY <3>2, <4>5, <5>1 DEF Rests
        <4>7. QED
          BY <2>3, <4>1, <4>2, <4>6
      <3>3. QED
        BY <3>1, <3>2
    <2>17. \A n \in Range(queue') : Says(n)'
      BY <1>4, <2>5, <2>6 DEF Says
    <2>18. ManagerIsRight'
      <3>1. OneRequestEach'
        BY <2>1, <2>2, <2>3 DEF OneRequestEach, Inv, ManagerIsRight
      <3>2. QED
        BY <2>1, <3>1 DEF Inv, ManagerIsRight, WorkerIsDone, WorkersMatchLoad
    <2>19. QED
      BY <2>6, <2>12, <2>13, <2>15, <2>16, <2>17, <2>18 DEF Inv
  <1>6. CASE ~Awaited("manager", r)
    <2>1. /\ Post(<<>>)
          /\ UNCHANGED <<clientVars, managerVars, worker, asked, timers, strand, failed>>
      BY <1>6 DEF OnResponse, managerVars
    <2>2. queue' = <<>>
      BY <1>2, <2>1 DEF Post
    <2>3. ~Tells(h)
      BY <1>2, <1>6 DEF Tells, Awaited
    <2>4. QED
      BY <1>2, <2>1, <2>2, <2>3, Dropped DEF Loading
  <1>7. QED
    BY <1>5, <1>6

---------------------------------------------------------------------------
\* The client.

LEMMA Counts ==
    ASSUME Inv
    PROVE  /\ total_requests \in Nat /\ total_requests <= max_requests
           /\ http_errors \in Nat
  <1>1. total_requests \in 0 .. max_requests /\ http_errors \in Nat
    BY DEF Inv, TypeOK
  <1>2. QED
    BY <1>1, Numbers

LEMMA Renewed ==
    ASSUME Inv
    PROVE  \/ New(1) = {}
           \/ New(1) = {total_requests + 1} /\ total_requests + 1 \in Requests
  <1>1. total_requests \in Nat /\ total_requests <= max_requests
    BY Counts
  <1> DEFINE most == IF client = "OPERATIONAL" THEN max_requests - total_requests ELSE 0
             n == IF 1 < most THEN 1 ELSE most
  <1>2. n \in {0, 1} /\ (n = 1 => total_requests + 1 <= max_requests)
    BY <1>1, Numbers
  <1>3. New(1) = total_requests + 1 .. total_requests + n
    BY DEF New
  <1> HIDE DEF n
  <1>4. CASE n = 0
    BY <1>1, <1>3, <1>4
  <1>5. CASE n = 1
    BY <1>1, <1>2, <1>3, <1>5 DEF Requests
  <1>6. QED
    BY <1>2, <1>4, <1>5

\* What the client does with an answer it waits for: more is what it asks then.
Goes(r, errors, more) ==
    /\ r \in Requests /\ Timer("client", r) \in asked
    /\ errors \in Nat /\ errors >= http_errors
    /\ asked' = (asked \ {Timer("client", r)}) \cup Asks("client", more)
    /\ timers' = (timers \ {Timer("client", r)}) \cup Asks("client", more)
    /\ active_requests' = (active_requests \ {r}) \cup more
    /\ http_errors' = errors
    /\ client' \in {"OPERATIONAL", "SHUTTING_DOWN"}
    /\ UNCHANGED <<managerVars, worker, strand, failed>>

\* It asks nothing more.
LEMMA Ceased ==
    ASSUME Inv, NEW r, NEW errors, Goes(r, errors, {}),
           NEW m, Range(queue) = {m}, m.kind \notin Loading,
           errors = 0 => r \notin Held, Tells(m) => errors > 0,
           queue' = <<>>, total_requests' = total_requests
    PROVE  Inv'
  <1>1. /\ asked' = asked \ {Timer("client", r)} /\ timers' = timers \ {Timer("client", r)}
        /\ active_requests' = active_requests \ {r} /\ http_errors' = errors
        /\ req_mapping' = req_mapping /\ free_workers' = free_workers
        /\ delayed_queue' = delayed_queue /\ created' = created
        /\ worker' = worker /\ failed' = failed /\ strand' = strand
    BY DEF Goes, Asks, managerVars
  <1>2. queue' \in Seq(Messages) /\ Len(queue') = 0
    OBVIOUS
  <1>3. Range(queue') = {} /\ Orderly(queue')
    BY <1>2, Ranged DEF Orderly
  <1>4. Mapped' = Mapped /\ Held' = Held
    BY <1>1 DEF Mapped, Held
  <1>5. Newcomers' = {} /\ Newcomers = {}
    <2>1. \A v : [kind |-> "created", worker |-> v].kind = "created"
      OBVIOUS
    <2>2. QED
      BY <1>3, <2>1 DEF Newcomers, Loading
  <1>6. errors \in Nat /\ errors >= http_errors /\ http_errors \in Nat
    BY DEF Goes, Inv, TypeOK
  <1>7. Trouble => Trouble'
    BY <1>1, <1>6 DEF Trouble
  <1>8. TypeOK'
    BY <1>1, <1>2 DEF Inv, TypeOK, Goes
  <1>9. /\ \A q : Timer("client", q) = Timer("client", r) => q = r
        /\ \A q : Timer("manager", q) # Timer("client", r)
    BY DEF Timer
  <1>10. Cardinality(active_requests') <= concurrency
    <2>1. /\ Cardinality(active_requests') \in Nat
          /\ Cardinality(active_requests') <= Cardinality(active_requests)
      BY <1>1, Finite, FS_Subset, FS_CardinalityType
    <2>2. QED
      BY <2>1, Finite, Numbers DEF Inv, Client
  <1>11. Client'
    <2>1. \A q \in Requests : Timer("client", q) \in asked' => q \in active_requests'
      BY <1>1, <1>9 DEF Inv, Client
    <2>2. ASSUME http_errors' = 0, NEW q \in Held'
          PROVE  Timer("client", q) \in asked'
      <3>1. errors = 0 /\ http_errors = 0
        BY <1>1, <1>6, <2>2
      <3>2. q # r /\ Timer("client", q) \in asked
        BY <1>4, <2>2, <3>1 DEF Inv, Client
      <3>3. QED
        BY <1>1, <1>9, <3>2
    <2>3. active_requests' \subseteq 1 .. total_requests'
      BY <1>1 DEF Inv, Client
    <2>4. QED
      BY <1>10, <2>1, <2>2, <2>3 DEF Client
  <1>12. Manager'
    <2>1. \A q \in Requests : Timer("manager", q) \in asked' <=> Timer("manager", q) \in asked
      BY <1>1, <1>9
    <2>2. QED
      BY <1>1, <1>4, <1>5, <2>1 DEF Inv, Manager
  <1>13. Staff'
    BY <1>1, <1>7 DEF Inv, Staff
  <1>14. ManagerIsRight'
    BY <1>1 DEF Inv, ManagerIsRight, WorkerIsDone, WorkersMatchLoad, OneRequestEach
  <1>15. QED
    BY <1>3, <1>8, <1>11, <1>12, <1>13, <1>14 DEF Inv

\* It makes another request.
LEMMA Continued ==
    ASSUME Inv, NEW r, NEW s \in Requests, s = total_requests + 1, Goes(r, 0, {s}),
           NEW m, Range(queue) = {m}, m.kind \notin Loading, ~Tells(m), r \notin Held,
           queue' = <<Message("request", None, s, TRUE)>>, total_requests' = s
    PROVE  Inv'
  <1> DEFINE n == Message("request", None, s, TRUE)
  <1>1. /\ asked' = (asked \ {Timer("client", r)}) \cup {Timer("client", s)}
        /\ timers' = (timers \ {Timer("client", r)}) \cup {Timer("client", s)}
        /\ active_requests' = (active_requests \ {r}) \cup {s} /\ http_errors' = 0
        /\ req_mapping' = req_mapping /\ free_workers' = free_workers
        /\ delayed_queue' = delayed_queue /\ created' = created
        /\ worker' = worker /\ failed' = failed /\ strand' = strand
        /\ queue' = <<n>> /\ total_requests' = s
    <2>1. Asks("client", {s}) = {Timer("client", s)}
      BY DEF Asks
    <2>2. QED
      BY <2>1 DEF Goes, managerVars
  <1>2. n \in Messages /\ n.kind = "request" /\ n.request = s
    BY DEF Message, Messages
  <1>3. /\ total_requests \in Nat /\ s \in Nat /\ s \in Requests /\ s <= max_requests
        /\ active_requests \subseteq 1 .. total_requests
    <2>1. s \in Nat /\ s <= max_requests
      BY Numbers DEF Requests
    <2>2. QED
      BY <2>1, Counts DEF Inv, Client
  <1>4. s \notin active_requests
    BY <1>3
  <1>5. \A q \in active_requests : q \in 1 .. s
    BY <1>3
  <1>6. s \in 1 .. s
    BY <1>3
  <1> HIDE DEF n
  <1>7. http_errors = 0 /\ r \in Requests /\ Timer("client", r) \in asked
    <2>1. 0 >= http_errors /\ r \in Requests /\ Timer("client", r) \in asked
      BY DEF Goes
    <2>2. QED
      BY <2>1, Counts
  <1>8. queue' \in Seq(Messages) /\ Range(queue') = {n} /\ Orderly(queue')
    BY <1>1, <1>2, Single
  <1>9. Mapped' = Mapped /\ Held' = Held
    BY <1>1 DEF Mapped, Held
  <1>10. Newcomers' = {} /\ Newcomers = {}
    <2>1. \A v : [kind |-> "created", worker |-> v].kind = "created"
      OBVIOUS
    <2>2. QED
      BY <1>2, <1>8, <2>1 DEF Newcomers, Loading
  <1>11. ~Trouble
    BY <1>7 DEF Trouble
  <1>12. /\ \A p, q : Timer("client", p) = Timer("client", q) => p = q
         /\ \A p, q : Timer("manager", q) # Timer("client", p)
    BY DEF Timer
  <1>13. TypeOK'
    <2>1. Timer("client", s) \in Timers
      BY <1>3 DEF Timer, Timers
    <2>2. asked' \subseteq Timers /\ timers' \subseteq Timers
      BY <1>1, <2>1 DEF Inv, TypeOK
    <2>3. total_requests' \in 0 .. max_requests /\ active_requests' \subseteq Requests
      <3>1. s \in 0 .. max_requests
        BY <1>3, Numbers
      <3>2. QED
        BY <1>1, <1>3, <3>1 DEF Inv, TypeOK
    <2>4. QED
      BY <1>1, <1>8, <2>2, <2>3 DEF Inv, TypeOK, Goes
  <1>14. r \in active_requests
    BY <1>7 DEF Inv, Client
  <1>15. Cardinality(active_requests') <= concurrency
    <2>1. /\ IsFiniteSet(active_requests \ {r})
          /\ Cardinality(active_requests \ {r}) = Cardinality(active_requests) - 1
      BY <1>14, Finite, FS_RemoveElement
    <2>2. Cardinality((active_requests \ {r}) \cup {s}) = Cardinality(active_requests \ {r}) + 1
      BY <1>4, <2>1, FS_AddElement
    <2>3. QED
      BY <1>1, <2>1, <2>2, Finite DEF Inv, Client
  <1>16. Client'
    <2>1. active_requests' \subseteq 1 .. total_requests'
      BY <1>1, <1>5, <1>6
    <2>2. \A q \in Requests : Timer("client", q) \in asked' => q \in active_requests'
      BY <1>1, <1>12 DEF Inv, Client
    <2>3. \A q \in Held' : Timer("client", q) \in asked'
      BY <1>1, <1>7, <1>9, <1>12 DEF Inv, Client
    <2>4. QED
      BY <1>15, <2>1, <2>2, <2>3 DEF Client
  <1>17. Manager'
    <2>1. \A q \in Requests : Timer("manager", q) \in asked' <=> Timer("manager", q) \in asked
      BY <1>1, <1>12
    <2>2. QED
      BY <1>1, <1>9, <1>10, <2>1 DEF Inv, Manager
  <1>18. Staff'
    BY <1>1, <1>11 DEF Inv, Staff
  <1>19. \A x \in Range(queue') : Says(x)'
    <2>1. s \notin Held
      BY <1>3, <1>4, <1>7, Finite DEF Inv, Client
    <2>2. Timer("client", s) \in asked' /\ http_errors' = 0
      BY <1>1
    <2>3. QED
      BY <1>2, <1>8, <1>9, <2>1, <2>2 DEF Says
  <1>20. ManagerIsRight'
    BY <1>1 DEF Inv, ManagerIsRight, WorkerIsDone, WorkersMatchLoad, OneRequestEach
  <1>21. QED
    BY <1>8, <1>13, <1>16, <1>17, <1>18, <1>19, <1>20 DEF Inv

LEMMA AnswerInv == ASSUME MaxFailures <= 1, Inv, OnAnswer PROVE Inv'
  <1> DEFINE h == Head(queue)
             r == h.request
  <1>1. Next1("answer")
    BY DEF OnAnswer
  <1>2. /\ h \in Messages /\ h.kind = "answer" /\ Range(queue) = {h}
        /\ Tail(queue) = <<>> /\ Says(h)
    BY <1>1, Lone DEF Loading
  <1>3. r \in Requests /\ h.ok \in BOOLEAN
    BY <1>2, Kinds
  <1>4. CASE Awaited("client", r)
    <2> DEFINE Errors(well) == IF well THEN http_errors ELSE http_errors + 1
               More(well) == IF GivesUp(Errors(well)) THEN {} ELSE New(1)
    <2>1. PICK well \in {h.ok, FALSE} :
            /\ Settle("client", r, Asks("client", More(well)))
            /\ active_requests' = (active_requests \ {r}) \cup More(well)
            /\ total_requests' = total_requests + Cardinality(More(well))
            /\ http_errors' = Errors(well)
            /\ client' = IF (active_requests \ {r}) \cup More(well) = {} THEN "SHUTTING_DOWN"
                         ELSE client
            /\ Post(RequestMessages(More(well)))
            /\ UNCHANGED <<managerVars, worker, strand, failed>>
      BY <1>4 DEF OnAnswer
    <2> DEFINE errors == Errors(well)
               more == More(well)
    <2>2. /\ errors \in Nat /\ errors >= http_errors /\ http_errors \in Nat
          /\ ~well => errors > 0
      <3>1. well \in BOOLEAN /\ http_errors \in Nat
        BY <1>3, <2>1, Counts
      <3>2. CASE well = TRUE
        BY <3>1, <3>2
      <3>3. CASE well = FALSE
        BY <3>1, <3>3
      <3>4. QED
        BY <3>1, <3>2, <3>3
    <2>3. errors = 0 => h.ok /\ r \notin Held
      <3>1. errors = 0 => well
        BY <2>2
      <3>2. well => h.ok
        BY <1>3, <2>1
      <3>3. h.ok => r \notin Held
        BY <1>2 DEF Says
      <3>4. QED
        BY ONLY <3>1, <3>2, <3>3
    <2>4. more # {} => errors = 0
      BY <2>2, Numbers DEF GivesUp
    <2>5. more = {} \/ (more = {total_requests + 1} /\ total_requests + 1 \in Requests)
      BY Renewed
    <2>6. h.ok => ~Tells(h)
      BY DEF Tells
    <2> HIDE DEF Errors, More
    <2>7. Goes(r, errors, more)
      BY <1>3, <1>4, <2>1, <2>2 DEF Goes, Settle, Awaited, Inv, TypeOK
    <2>8. RequestMessages(more) = [i \in 1 .. Cardinality(more) |->
                                    Message("request", None, total_requests + i, TRUE)]
      BY DEF RequestMessages
    <2> HIDE DEF errors, more
    <2>9. /\ Post(RequestMessages(more))
          /\ total_requests' = total_requests + Cardinality(more)
      BY <2>1 DEF more
    <2>10. CASE more = {}
      <3>1. Cardinality(more) = 0
        BY <2>10, FS_EmptySet
      <3>2. RequestMessages(more) = <<>>
        BY <2>8, <3>1
      <3>3. queue' = <<>>
        BY <1>2, <2>9, <3>2 DEF Post
      <3>4. total_requests' = total_requests
        BY <2>9, <3>1, Counts
      <3>5. Tells(h) => errors > 0
        BY <2>2, <2>3, <2>6
      <3>6. Goes(r, errors, {})
        BY <2>7, <2>10
      <3>7. QED
        BY <1>2, <2>3, <3>3, <3>4, <3>5, <3>6, Ceased DEF Loading
    <2>11. CASE more = {total_requests + 1} /\ total_requests + 1 \in Requests
      <3>1. Cardinality(more) = 1
        BY <2>11, FS_Singleton
      <3> DEFINE x == total_requests + 1
                 n == Message("request", None, x, TRUE)
      <3>2. RequestMessages(more) = <<n>>
        <4>1. \A i \in 1 .. 1 : total_requests + i = x
          OBVIOUS
        <4> HIDE DEF x
        <4>2. RequestMessages(more) = [i \in 1 .. 1 |-> n]
          BY <2>8, <3>1, <4>1
        <4> HIDE DEF n
        <4>3. [i \in 1 .. 1 |-> n] = <<n>>
          OBVIOUS
        <4>4. QED
          BY <4>2, <4>3
      <3>3. queue' = <<n>>
        <4> HIDE DEF n
        <4>1. <<>> \o <<n>> = <<n>>
          OBVIOUS
        <4>2. QED
          BY <1>2, <2>9, <3>2, <4>1 DEF Post
      <3>4. total_requests' = x
        BY <2>9, <3>1
      <3>5. errors = 0
        BY <2>4, <2>11
      <3>6. Goes(r, 0, {x}) /\ x \in Requests
        BY <2>7, <2>11, <3>5
      <3>7. QED
        BY <1>2, <2>3, <2>6, <3>3, <3>4, <3>5, <3>6, Continued DEF Loading
    <2>12. QED
      BY <2>5, <2>10, <2>11 DEF more
  <1>5. CASE ~Awaited("client", r)
    <2>1. /\ Post(<<>>)
          /\ UNCHANGED <<clientVars, managerVars, worker, asked, timers, strand, failed>>
      BY <1>5 DEF OnAnswer
    <2>2. queue' = <<>>
      BY <1>2, <2>1 DEF Post
    <2>3. ~Tells(h)
      BY <1>2, <1>5 DEF Tells, Awaited
    <2>4. QED
      BY <1>2, <2>1, <2>2, <2>3, Dropped DEF Loading
  <1>6. QED
    BY <1>4, <1>5

---------------------------------------------------------------------------

LEMMA NextInv == ASSUME MaxFailures <= 1, Inv, [Next]_vars PROVE Inv'
  <1>1. CASE UNCHANGED vars
    <2>1. timers' \subseteq Timers /\ strand' \in Seq(Jobs)
      BY <1>1 DEF vars, Inv, TypeOK
    <2>2. QED
      BY <1>1, <2>1, Deferred DEF vars
  <1>2. CASE Strand
    BY <1>2, AnswerInv, RequestInv, ChildInitInv, ResponseInv, WorkInv, ResolveInv, JobInv
    DEF Strand
  <1>3. CASE \E w \in Workers, ok \in BOOLEAN : Outside(w, ok)
    BY <1>3, OutsideInv
  <1>4. CASE \E t \in Timers : failed = {} /\ queue = <<>> /\ Expires(t)
    BY <1>4, ExpiresInv
  <1>5. QED
    BY <1>1, <1>2, <1>3, <1>4 DEF Next

\* A client that gives up at the first failure, as MAX_HTTP_FAILURES makes it,
\* never lets the manager go wrong, whichever timers strike: on_request() of a
\* worker finds no socket of an earlier request, there are no more workers than
\* requests the client has at a time, and no worker has two requests or is free
\* while it has one.
THEOREM ManagerRight == ASSUME MaxFailures <= 1 PROVE Spec => []ManagerIsRight
  <1>1. Inv /\ [Next]_vars => Inv'
    BY NextInv
  <1>2. Inv => ManagerIsRight
    BY DEF Inv
  <1>3. QED
    BY <1>1, <1>2, InitInv, PTL DEF Spec
=============================================================================

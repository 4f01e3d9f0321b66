-------------------------- MODULE ThreadTimersProofs --------------------------
(***************************************************************************)
(* Proofs about ThreadTimers for any actors, timers, intervals and bounds: *)
(* the list of deadlines stays sorted and is about the timers the actors   *)
(* hold a handler for, however its operations are re-entered; and if       *)
(* callbacks and tagged handlers use timers in the careful way, no         *)
(* operation erases what another has erased.                               *)
(***************************************************************************)
EXTENDS ThreadTimers, SequenceTheorems, TLAPS

Callbacks == {"fired", "cancelled"}

\* The list and the map are about the same timers, at any time.
ListOK ==
    /\ timer_nodes \in Seq(Nodes)
    /\ Sorted
    /\ \A i, j \in DOMAIN timer_nodes :
        timer_nodes[i].timer = timer_nodes[j].timer => i = j
    /\ timers_map = {timer_nodes[k].timer : k \in DOMAIN timer_nodes}

\* A stack of frames: the message handled is at its bottom, and no timer is
\* about to be inserted twice.
Once(s, ops) ==
    \A i, j \in DOMAIN s :
        s[i].op \in ops /\ s[j].op \in ops /\ s[i].timer = s[j].timer => i = j
StackOK(s) ==
    /\ s \in Seq(Frames)
    /\ \A i \in DOMAIN s : s[i].op \in {"handler", "finish"} => i = Len(s)
    /\ Once(s, {"insert"})

\* With careful users no callback is under way twice, and there are none below
\* an update_time().
CallsOK(s) ==
    /\ Once(s, Callbacks)
    /\ \A i, j \in DOMAIN s : s[i].op = "update" /\ i < j => s[j].op \notin Callbacks

\* A timer that is about to be inserted has not been before.
FramesOK ==
    /\ StackOK(stack)
    /\ started \subseteq Timers /\ down \subseteq Actors
    /\ timers_map \subseteq started
    /\ \A t \in timers_map : Owner[t] \notin down
    /\ \A f \in Range(stack) : f.op = "insert" =>
        f.timer \in started \ timers_map /\ Owner[f.timer] \notin down

\* With careful users a timer has its handler until its callback returns, and
\* none is looked for after other callbacks have run.
CareOK ==
    /\ calls \in [Timers -> Nat] /\ intercepting \in BOOLEAN
    /\ failed = {}
    /\ CallsOK(stack)
    /\ \A f \in Range(stack) :
        /\ f.op # "find"
        /\ f.op = "finish" => ~intercepting
        /\ f.op \in Callbacks => f.timer \in timers_map /\ calls[f.timer] > 0

OthersOK ==
    /\ clock \in Nat /\ now \in Nat
    /\ inbound \in Seq(Messages) /\ queue \in Seq(Messages)

Inv == ListOK /\ FramesOK /\ OthersOK /\ (Careful => CareOK)

-----------------------------------------------------------------------------
\* Sequences.

LEMMA Inserted ==
    ASSUME NEW S, NEW s \in Seq(S), NEW k \in 0..Len(s), NEW e \in S
    PROVE  /\ InsertAt(s, k + 1, e) \in Seq(S)
           /\ Len(InsertAt(s, k + 1, e)) = Len(s) + 1
           /\ \A i \in 1..Len(s) + 1 :
                InsertAt(s, k + 1, e)[i] =
                    IF i <= k THEN s[i] ELSE IF i = k + 1 THEN e ELSE s[i - 1]
  <1> DEFINE q == SubSeq(s, 1, k)
             r == SubSeq(s, k + 1, Len(s))
  <1>1. Len(s) \in Nat /\ \A i \in 1..Len(s) : s[i] \in S
    BY LenProperties
  <1>2. q \in Seq(S) /\ Len(q) = k /\ \A i \in 1..k : q[i] = s[i]
    BY <1>1, SubSeqProperties
  <1>3. /\ r \in Seq(S) /\ Len(r) = Len(s) - k
        /\ \A i \in 1..Len(s) - k : r[i] = s[k + i]
    BY <1>1, SubSeqProperties
  <1>4. InsertAt(s, k + 1, e) = q \o <<e>> \o r
    <2>1. (k + 1) - 1 = k
      OBVIOUS
    <2>2. QED
      BY <2>1 DEF InsertAt
  <1> HIDE DEF q, r
  <1>5. <<e>> \in Seq(S) /\ Len(<<e>>) = 1 /\ <<e>>[1] = e
    OBVIOUS
  <1>6. /\ q \o <<e>> \in Seq(S)
        /\ Len(q \o <<e>>) = k + 1
        /\ \A i \in 1..k + 1 : (q \o <<e>>)[i] = IF i <= k THEN s[i] ELSE e
    <2>1. /\ q \o <<e>> \in Seq(S)
          /\ Len(q \o <<e>>) = Len(q) + Len(<<e>>)
          /\ \A i \in 1..Len(q) + Len(<<e>>) :
                (q \o <<e>>)[i] = IF i <= Len(q) THEN q[i] ELSE <<e>>[i - Len(q)]
      BY <1>2, <1>5, ConcatProperties
    <2>2. QED
      BY <1>2, <1>5, <2>1
  <1> DEFINE h == q \o <<e>>
  <1>7. /\ h \o r \in Seq(S)
        /\ Len(h \o r) = Len(s) + 1
        /\ \A i \in 1..Len(s) + 1 : (h \o r)[i] = IF i <= k + 1 THEN h[i] ELSE r[i - (k + 1)]
    <2>1. h \in Seq(S) /\ Len(h) = k + 1
      BY <1>6
    <2> HIDE DEF h
    <2>2. /\ h \o r \in Seq(S)
          /\ Len(h \o r) = Len(h) + Len(r)
          /\ \A i \in 1..Len(h) + Len(r) :
                (h \o r)[i] = IF i <= Len(h) THEN h[i] ELSE r[i - Len(h)]
      BY <1>3, <2>1, ConcatProperties
    <2>3. Len(h) + Len(r) = Len(s) + 1
      BY <1>1, <1>3, <2>1
    <2>4. QED
      BY <2>1, <2>2, <2>3
  <1>8. \A i \in 1..k + 1 : h[i] = IF i <= k THEN s[i] ELSE e
    BY <1>6
  <1> HIDE DEF h
  <1>9. ASSUME NEW i \in 1..Len(s) + 1, i > k + 1
        PROVE  r[i - (k + 1)] = s[i - 1]
    <2>1. i - (k + 1) \in 1..Len(s) - k /\ k + (i - (k + 1)) = i - 1
      BY <1>1, <1>9
    <2>2. QED
      BY <1>3, <2>1
  <1>10. ASSUME NEW i \in 1..Len(s) + 1
         PROVE  (h \o r)[i] = IF i <= k THEN s[i] ELSE IF i = k + 1 THEN e ELSE s[i - 1]
    <2>1. CASE i <= k + 1
      BY <1>1, <1>7, <1>8, <2>1
    <2>2. CASE i > k + 1
      BY <1>1, <1>7, <1>9, <2>2
    <2>3. i <= k + 1 \/ i > k + 1
      BY <1>1
    <2>4. QED
      BY <2>1, <2>2, <2>3
  <1>11. QED
    <2>1. InsertAt(s, k + 1, e) = h \o r
      BY <1>4 DEF h
    <2> DEFINE t == h \o r
    <2>2. /\ t \in Seq(S) /\ Len(t) = Len(s) + 1
          /\ \A i \in 1..Len(s) + 1 :
                t[i] = IF i <= k THEN s[i] ELSE IF i = k + 1 THEN e ELSE s[i - 1]
      BY <1>7, <1>10
    <2>3. InsertAt(s, k + 1, e) = t
      BY <2>1
    <2> HIDE DEF t
    <2>4. QED
      BY <2>2, <2>3, Zenon

LEMMA Removed ==
    ASSUME NEW S, NEW s \in Seq(S), NEW k \in 1..Len(s)
    PROVE  /\ RemoveAt(s, k) \in Seq(S)
           /\ Len(RemoveAt(s, k)) = Len(s) - 1
           /\ \A i \in 1..Len(s) - 1 : RemoveAt(s, k)[i] = IF i < k THEN s[i] ELSE s[i + 1]
  <1> DEFINE q == SubSeq(s, 1, k - 1)
             r == SubSeq(s, k + 1, Len(s))
  <1>1. Len(s) \in Nat /\ \A i \in 1..Len(s) : s[i] \in S
    BY LenProperties
  <1>2. q \in Seq(S) /\ Len(q) = k - 1 /\ \A i \in 1..k - 1 : q[i] = s[i]
    BY <1>1, SubSeqProperties
  <1>3. /\ r \in Seq(S) /\ Len(r) = Len(s) - k
        /\ \A i \in 1..Len(s) - k : r[i] = s[k + i]
    BY <1>1, SubSeqProperties
  <1>4. RemoveAt(s, k) = q \o r
    BY DEF RemoveAt
  <1> HIDE DEF q, r
  <1>5. /\ q \o r \in Seq(S)
        /\ Len(q \o r) = Len(q) + Len(r)
        /\ \A i \in 1..Len(q) + Len(r) :
            (q \o r)[i] = IF i <= Len(q) THEN q[i] ELSE r[i - Len(q)]
    BY <1>2, <1>3, ConcatProperties
  <1>6. QED
    BY <1>1, <1>2, <1>3, <1>4, <1>5

\* A frame on top of others.
LEMMA Pushed ==
    ASSUME NEW f \in Frames, NEW rest \in Seq(Frames)
    PROVE  /\ <<f>> \o rest \in Seq(Frames)
           /\ DOMAIN (<<f>> \o rest) = 1..Len(rest) + 1
           /\ Len(<<f>> \o rest) = Len(rest) + 1
           /\ (<<f>> \o rest)[1] = f
           /\ \A i \in 2..Len(rest) + 1 : (<<f>> \o rest)[i] = rest[i - 1]
  <1>1. <<f>> \in Seq(Frames) /\ Len(<<f>>) = 1 /\ <<f>>[1] = f
    OBVIOUS
  <1>2. /\ <<f>> \o rest \in Seq(Frames)
        /\ Len(<<f>> \o rest) = Len(<<f>>) + Len(rest)
        /\ \A i \in 1..Len(<<f>>) + Len(rest) :
            (<<f>> \o rest)[i] = IF i <= Len(<<f>>) THEN <<f>>[i] ELSE rest[i - Len(<<f>>)]
    BY <1>1, ConcatProperties
  <1>3. QED
    BY <1>1, <1>2, LenProperties

LEMMA Popped ==
    ASSUME NEW s \in Seq(Frames), s # <<>>
    PROVE  /\ Head(s) = s[1] /\ s[1] \in Frames
           /\ 1 \in DOMAIN s
           /\ Tail(s) \in Seq(Frames)
           /\ Len(Tail(s)) = Len(s) - 1
           /\ Len(s) \in Nat \ {0}
           /\ DOMAIN Tail(s) = 1..Len(s) - 1
           /\ \A i \in 1..Len(s) - 1 : Tail(s)[i] = s[i + 1]
  BY HeadTailProperties, EmptySeq, LenProperties

LEMMA Empty == StackOK(<<>>) /\ CallsOK(<<>>) /\ Range(<<>>) = {}
  BY EmptySeq DEF StackOK, CallsOK, Once, Range

LEMMA PushOne ==
    ASSUME NEW f \in Frames, NEW s, StackOK(s),
           f.op \in {"handler", "finish"} => s = <<>>,
           f.op = "insert" => \A g \in Range(s) : g.op = "insert" => g.timer # f.timer
    PROVE  /\ StackOK(<<f>> \o s)
           /\ Range(<<f>> \o s) = {f} \cup Range(s)
           /\ CallsOK(s)
                /\ (f.op \in Callbacks =>
                        \A g \in Range(s) : g.op \in Callbacks => g.timer # f.timer)
                /\ (f.op = "update" => \A g \in Range(s) : g.op \notin Callbacks)
              => CallsOK(<<f>> \o s)
  <1> DEFINE n == Len(s)
             p == <<f>> \o s
  <1>1. s \in Seq(Frames) /\ n \in Nat /\ DOMAIN s = 1..n
    BY LenProperties DEF StackOK
  <1>2. /\ p \in Seq(Frames) /\ DOMAIN p = 1..n + 1 /\ Len(p) = n + 1
        /\ p[1] = f
        /\ \A i \in 2..n + 1 : p[i] = s[i - 1]
    BY <1>1, Pushed
  <1> HIDE DEF n, p
  <1>3. \A i \in 1..n + 1 : i = 1 \/ (i \in 2..n + 1 /\ i - 1 \in 1..n)
    BY <1>1
  <1>4. Range(p) = {f} \cup Range(s)
    <2>1. \A i \in 1..n : i + 1 \in 2..n + 1 /\ i + 1 \in 1..n + 1 /\ (i + 1) - 1 = i
      BY <1>1
    <2>2. \A i \in 1..n : p[i + 1] = s[i]
      BY <1>2, <2>1
    <2>3. 1 \in 1..n + 1
      BY <1>1
    <2>4. \A i \in 2..n + 1 : i - 1 \in 1..n /\ p[i] = s[i - 1]
      BY <1>1, <1>2
    <2>5. Range(p) = {p[i] : i \in 1..n + 1} /\ Range(s) = {s[i] : i \in 1..n}
      BY <1>1, <1>2 DEF Range
    <2>6. ASSUME NEW x \in Range(p) PROVE x \in {f} \cup Range(s)
      <3>1. PICK i \in 1..n + 1 : x = p[i]
        BY <2>5
      <3>2. CASE i = 1
        BY <1>2, <3>1, <3>2
      <3>3. CASE i \in 2..n + 1
        BY <2>4, <2>5, <3>1, <3>3
      <3>4. QED
        BY <1>3, <3>2, <3>3
    <2>7. ASSUME NEW x \in Range(s) PROVE x \in Range(p)
      <3>1. PICK i \in 1..n : x = s[i]
        BY <2>5
      <3>2. QED
        BY <2>1, <2>2, <2>5, <3>1
    <2>8. f \in Range(p)
      BY <1>2, <2>3, <2>5
    <2>9. QED
      BY <2>6, <2>7, <2>8
  <1>5. ASSUME NEW i \in 2..n + 1 PROVE p[i] \in Range(s)
    <2>1. i - 1 \in 1..n /\ p[i] = s[i - 1]
      BY <1>1, <1>2
    <2>2. QED
      BY <1>1, <2>1 DEF Range
  <1>6. ASSUME NEW ops, Once(s, ops),
               f.op \in ops => \A g \in Range(s) : g.op \in ops => g.timer # f.timer
        PROVE  Once(p, ops)
    <2> SUFFICES ASSUME NEW i \in 1..n + 1, NEW j \in 1..n + 1,
                        p[i].op \in ops, p[j].op \in ops, p[i].timer = p[j].timer
                 PROVE  i = j
      BY <1>2 DEF Once
    <2>1. CASE i = 1 /\ j \in 2..n + 1
      BY <1>2, <1>5, <1>6, <2>1
    <2>2. CASE j = 1 /\ i \in 2..n + 1
      BY <1>2, <1>5, <1>6, <2>2
    <2>3. CASE i \in 2..n + 1 /\ j \in 2..n + 1
      <3>1. i - 1 \in 1..n /\ j - 1 \in 1..n /\ p[i] = s[i - 1] /\ p[j] = s[j - 1]
        BY <1>1, <1>2, <2>3
      <3>2. i - 1 = j - 1
        BY <1>1, <1>6, <3>1 DEF Once
      <3>3. QED
        BY <1>1, <3>2
    <2>4. QED
      BY <1>3, <2>1, <2>2, <2>3
  <1>7. \A i \in DOMAIN p : p[i].op \in {"handler", "finish"} => i = Len(p)
    <2> SUFFICES ASSUME NEW i \in 1..n + 1, p[i].op \in {"handler", "finish"}
                 PROVE  i = n + 1
      BY <1>2
    <2>1. CASE i = 1
      BY <1>2, <2>1, EmptySeq DEF n
    <2>2. CASE i \in 2..n + 1
      <3>1. i - 1 \in 1..n /\ p[i] = s[i - 1]
        BY <1>1, <1>2, <2>2
      <3>2. i - 1 = n
        BY <1>1, <3>1 DEF StackOK, n
      <3>3. QED
        BY <1>1, <3>2
    <2>3. QED
      BY <1>3, <2>1, <2>2
  <1>8. StackOK(p)
    BY <1>2, <1>6, <1>7 DEF StackOK
  <1>9. ASSUME CallsOK(s),
               f.op \in Callbacks =>
                    \A g \in Range(s) : g.op \in Callbacks => g.timer # f.timer,
               f.op = "update" => \A g \in Range(s) : g.op \notin Callbacks
        PROVE  CallsOK(p)
    <2>1. Once(p, Callbacks)
      BY <1>6, <1>9 DEF CallsOK
    <2>2. ASSUME NEW i \in 1..n + 1, NEW j \in 1..n + 1, p[i].op = "update", i < j
          PROVE  p[j].op \notin Callbacks
      <3>1. j \in 2..n + 1
        BY <1>1, <2>2
      <3>2. CASE i = 1
        BY <1>2, <1>5, <1>9, <2>2, <3>1, <3>2
      <3>3. CASE i \in 2..n + 1
        <4>1. /\ i - 1 \in 1..n /\ j - 1 \in 1..n /\ i - 1 < j - 1
              /\ p[i] = s[i - 1] /\ p[j] = s[j - 1]
          BY <1>1, <1>2, <2>2, <3>1, <3>3
        <4>2. QED
          BY <1>1, <1>9, <2>2, <4>1 DEF CallsOK
      <3>4. QED
        BY <1>3, <3>2, <3>3
    <2>3. QED
      BY <1>2, <2>1, <2>2 DEF CallsOK
  <1>10. QED
    BY <1>4, <1>8, <1>9 DEF p

LEMMA PushTwo ==
    ASSUME NEW f \in Frames, NEW g \in Frames, NEW s \in Seq(Frames)
    PROVE  <<f, g>> \o s = <<f>> \o (<<g>> \o s)
  <1>1. <<f>> \in Seq(Frames) /\ <<g>> \in Seq(Frames) /\ <<f, g>> = <<f>> \o <<g>>
    <2>1. <<f>> \in Seq(Frames) /\ <<g>> \in Seq(Frames)
      OBVIOUS
    <2>2. Append(<<f>>, g) = <<f>> \o <<g>>
      BY <2>1, AppendIsConcat
    <2>3. Append(<<f>>, g) = <<f, g>>
      <3> DEFINE u == Append(<<f>>, g)
      <3>1. u \in Seq(Frames) /\ Len(u) = 2 /\ u[1] = f /\ u[2] = g
        BY <2>1, AppendProperties
      <3> HIDE DEF u
      <3>2. <<f, g>> \in Seq(Frames) /\ Len(<<f, g>>) = 2
        OBVIOUS
      <3>3. <<f, g>>[1] = f /\ <<f, g>>[2] = g
        OBVIOUS
      <3>4. \A i \in 1..Len(u) : u[i] = <<f, g>>[i]
        BY <3>1, <3>3
      <3>5. u = <<f, g>>
        BY <3>1, <3>2, <3>4, SeqEqual
      <3>6. QED
        BY <3>5 DEF u
    <2>4. QED
      BY <2>1, <2>2, <2>3
  <1>2. (<<f>> \o <<g>>) \o s = <<f>> \o (<<g>> \o s)
    BY <1>1, ConcatAssociative
  <1>3. QED
    BY <1>1, <1>2

LEMMA Pop ==
    ASSUME NEW s, StackOK(s), s # <<>>
    PROVE  /\ Head(s) \in Frames /\ Head(s) \in Range(s)
           /\ StackOK(Tail(s))
           /\ Range(Tail(s)) \subseteq Range(s)
           /\ Head(s).op \in {"handler", "finish"} => Tail(s) = <<>> /\ Range(s) = {Head(s)}
           /\ Head(s).op = "insert" =>
                \A g \in Range(Tail(s)) : g.op = "insert" => g.timer # Head(s).timer
           /\ CallsOK(s) =>
                /\ CallsOK(Tail(s))
                /\ Head(s).op \in Callbacks =>
                    \A g \in Range(Tail(s)) : g.op \in Callbacks => g.timer # Head(s).timer
                /\ Head(s).op = "update" => \A g \in Range(s) : g.op \notin Callbacks
  <1> DEFINE n == Len(s)
             q == Tail(s)
  <1>1. s \in Seq(Frames) /\ n \in Nat \ {0} /\ DOMAIN s = 1..n /\ 1 \in 1..n
    BY LenProperties, EmptySeq DEF StackOK
  <1>2. /\ Head(s) = s[1] /\ s[1] \in Frames
        /\ q \in Seq(Frames) /\ Len(q) = n - 1 /\ DOMAIN q = 1..n - 1
        /\ \A i \in 1..n - 1 : q[i] = s[i + 1]
    BY <1>1, Popped
  <1> HIDE DEF n, q
  <1>3. \A i \in 1..n - 1 : i + 1 \in 2..n /\ i + 1 \in 1..n /\ 1 # i + 1
    BY <1>1
  <1>4. Head(s) \in Range(s) /\ Range(q) \subseteq Range(s)
    BY <1>1, <1>2, <1>3 DEF Range
  <1>5. ASSUME NEW ops, Once(s, ops)
        PROVE  /\ Once(q, ops)
               /\ Head(s).op \in ops =>
                    \A g \in Range(q) : g.op \in ops => g.timer # Head(s).timer
    <2>1. Once(q, ops)
      <3> SUFFICES ASSUME NEW i \in 1..n - 1, NEW j \in 1..n - 1,
                          q[i].op \in ops, q[j].op \in ops, q[i].timer = q[j].timer
                   PROVE  i = j
        BY <1>2 DEF Once
      <3>1. i + 1 = j + 1
        BY <1>1, <1>2, <1>3, <1>5 DEF Once
      <3>2. QED
        BY <1>1, <3>1
    <2>2. ASSUME NEW i \in 1..n - 1, Head(s).op \in ops, q[i].op \in ops,
                 q[i].timer = Head(s).timer
          PROVE  FALSE
      <3>1. 1 = i + 1
        BY <1>1, <1>2, <1>3, <1>5, <2>2 DEF Once
      <3>2. QED
        BY <1>3, <3>1
    <2>3. QED
      BY <1>2, <2>1, <2>2 DEF Range
  <1>6. StackOK(q)
    <2>1. ASSUME NEW i \in 1..n - 1, q[i].op \in {"handler", "finish"}
          PROVE  i = n - 1
      <3>1. i + 1 = n
        BY <1>1, <1>2, <1>3, <2>1 DEF StackOK, n
      <3>2. QED
        BY <1>1, <3>1
    <2>2. Once(q, {"insert"})
      BY <1>5 DEF StackOK
    <2>3. QED
      BY <1>2, <2>1, <2>2 DEF StackOK
  <1>7. ASSUME Head(s).op \in {"handler", "finish"}
        PROVE  q = <<>> /\ Range(s) = {Head(s)}
    <2>1. n = 1
      BY <1>1, <1>2, <1>7 DEF StackOK, n
    <2>2. q = <<>>
      BY <1>2, <2>1, EmptySeq
    <2>3. QED
      BY <1>1, <1>2, <2>1, <2>2 DEF Range
  <1>8. ASSUME CallsOK(s)
        PROVE  /\ CallsOK(q)
               /\ Head(s).op = "update" => \A g \in Range(s) : g.op \notin Callbacks
    <2>1. \A i, j \in 1..n - 1 : q[i].op = "update" /\ i < j => q[j].op \notin Callbacks
      <3> SUFFICES ASSUME NEW i \in 1..n - 1, NEW j \in 1..n - 1, q[i].op = "update", i < j
                   PROVE  q[j].op \notin Callbacks
        OBVIOUS
      <3>1. i + 1 < j + 1
        BY <1>1
      <3>2. QED
        BY <1>1, <1>2, <1>3, <1>8, <3>1 DEF CallsOK
    <2>2. CallsOK(q)
      BY <1>2, <1>5, <1>8, <2>1 DEF CallsOK
    <2>3. ASSUME Head(s).op = "update", NEW i \in 1..n
          PROVE  s[i].op \notin Callbacks
      <3>1. CASE i = 1
        BY <1>2, <2>3, <3>1 DEF Callbacks
      <3>2. CASE i > 1
        BY <1>1, <1>2, <1>8, <2>3, <3>2 DEF CallsOK
      <3>3. QED
        BY <1>1, <3>1, <3>2
    <2>4. QED
      BY <1>1, <2>2, <2>3 DEF Range
  <1>9. /\ Head(s).op = "insert" =>
            \A g \in Range(q) : g.op = "insert" => g.timer # Head(s).timer
        /\ CallsOK(s) /\ Head(s).op \in Callbacks =>
            \A g \in Range(q) : g.op \in Callbacks => g.timer # Head(s).timer
    BY <1>5 DEF StackOK, CallsOK
  <1>10. QED
    BY <1>2, <1>4, <1>6, <1>7, <1>8, <1>9 DEF q

LEMMA FrameTypes ==
    ASSUME NEW f \in Frames
    PROVE  /\ f.op \in {"handler", "finish", "fired", "cancelled", "update", "find", "insert"}
           /\ f.op \in {"handler", "finish", "fired", "cancelled"} => f.who \in Actors
           /\ f.op \in {"fired", "cancelled", "find", "insert"} => f.timer \in Timers
           /\ f.op = "insert" => f.interval \in Intervals
  BY DEF Frames

-----------------------------------------------------------------------------
\* The list of deadlines.

LEMMA NodesTyped ==
    ASSUME ListOK
    PROVE  /\ timer_nodes \in Seq(Nodes)
           /\ Len(timer_nodes) \in Nat
           /\ DOMAIN timer_nodes = 1..Len(timer_nodes)
           /\ \A i \in 1..Len(timer_nodes) :
                /\ timer_nodes[i] \in Nodes
                /\ timer_nodes[i].timer \in Timers
                /\ timer_nodes[i].deadline \in Nat
                /\ timer_nodes[i].timer \in timers_map
  <1>1. timer_nodes \in Seq(Nodes)
    BY DEF ListOK
  <1>2. /\ Len(timer_nodes) \in Nat
        /\ DOMAIN timer_nodes = 1..Len(timer_nodes)
        /\ timer_nodes \in [1..Len(timer_nodes) -> Nodes]
    BY <1>1, LenProperties
  <1>3. \A i \in 1..Len(timer_nodes) : timer_nodes[i] \in Nodes
    BY <1>2
  <1>4. \A v \in Nodes : v.timer \in Timers /\ v.deadline \in Nat
    BY DEF Nodes
  <1>5. \A i \in 1..Len(timer_nodes) : timer_nodes[i].timer \in timers_map
    BY <1>2 DEF ListOK
  <1>6. QED
    BY <1>1, <1>2, <1>3, <1>4, <1>5

LEMMA InsertKeeps ==
    ASSUME ListOK, NEW t \in Timers \ timers_map, NEW d \in Nat,
           InsertNode([timer |-> t, deadline |-> d]),
           timers_map' = timers_map \cup {t}
    PROVE  ListOK'
  <1> DEFINE e == [timer |-> t, deadline |-> d]
             n == Len(timer_nodes)
  <1>1. timer_nodes \in Seq(Nodes) /\ n \in Nat /\ DOMAIN timer_nodes = 1..n
    BY NodesTyped
  <1>2. e \in Nodes /\ e.timer = t /\ e.deadline = d
    BY DEF Nodes
  <1>3. PICK k \in 0..n :
            /\ \A i \in 1..k : timer_nodes[i].deadline <= d
            /\ \A i \in (k + 1)..n : d < timer_nodes[i].deadline
            /\ timer_nodes' = InsertAt(timer_nodes, k + 1, e)
    BY <1>2 DEF InsertNode
  <1> HIDE DEF e
  <1>4. /\ timer_nodes' \in Seq(Nodes)
        /\ DOMAIN timer_nodes' = 1..n + 1
        /\ \A i \in 1..n + 1 :
            timer_nodes'[i] =
                IF i <= k THEN timer_nodes[i] ELSE IF i = k + 1 THEN e ELSE timer_nodes[i - 1]
    <2>1. /\ timer_nodes' \in Seq(Nodes)
          /\ Len(timer_nodes') = n + 1
          /\ \A i \in 1..n + 1 :
                timer_nodes'[i] =
                    IF i <= k THEN timer_nodes[i]
                    ELSE IF i = k + 1 THEN e ELSE timer_nodes[i - 1]
      <3>1. timer_nodes \in Seq(Nodes) /\ e \in Nodes /\ k \in 0..Len(timer_nodes)
        BY <1>1, <1>2
      <3> DEFINE longer == InsertAt(timer_nodes, k + 1, e)
      <3>2. /\ longer \in Seq(Nodes)
            /\ Len(longer) = Len(timer_nodes) + 1
            /\ \A i \in 1..Len(timer_nodes) + 1 :
                longer[i] =
                    IF i <= k THEN timer_nodes[i]
                    ELSE IF i = k + 1 THEN e ELSE timer_nodes[i - 1]
        <4> HIDE DEF n
        <4>1. QED
          BY <3>1, Inserted
      <3>3. timer_nodes' = longer
        BY <1>3
      <3> HIDE DEF longer
      <3>4. QED
        BY <3>2, <3>3, Zenon
    <2>2. QED
      BY <2>1, LenProperties
  <1>5. \A i \in 1..n : /\ timer_nodes[i] \in Nodes
                        /\ timer_nodes[i].timer \in timers_map
                        /\ timer_nodes[i].deadline \in Nat
    BY NodesTyped
  <1> HIDE DEF n
  <1>6. Sorted'
    <2> SUFFICES ASSUME NEW i \in 1..n + 1, NEW j \in 1..n + 1, i < j
                 PROVE  timer_nodes'[i].deadline <= timer_nodes'[j].deadline
      BY <1>4 DEF Sorted
    <2>1. \A x, y \in 1..n : x < y => timer_nodes[x].deadline <= timer_nodes[y].deadline
      BY <1>1 DEF ListOK, Sorted
    <2>2. CASE j <= k
      <3>1. i \in 1..n /\ j \in 1..n /\ i <= k
        BY <1>1, <2>2
      <3>2. timer_nodes'[i] = timer_nodes[i] /\ timer_nodes'[j] = timer_nodes[j]
        BY <1>4, <2>2, <3>1, Zenon
      <3>3. QED
        BY <2>1, <3>1, <3>2
    <2>3. CASE j = k + 1
      <3>1. i \in 1..k /\ i <= k /\ ~(j <= k)
        BY <1>1, <2>3
      <3>2. timer_nodes'[i] = timer_nodes[i] /\ timer_nodes'[j] = e
        BY <1>4, <2>3, <3>1, Zenon
      <3>3. QED
        BY <1>2, <1>3, <3>1, <3>2
    <2>4. CASE i <= k /\ j > k + 1
      <3>1. j - 1 \in 1..n /\ i \in 1..n /\ i < j - 1 /\ ~(j <= k) /\ j # k + 1
        BY <1>1, <2>4
      <3>2. timer_nodes'[i] = timer_nodes[i] /\ timer_nodes'[j] = timer_nodes[j - 1]
        BY <1>4, <2>4, <3>1, Zenon
      <3>3. QED
        BY <2>1, <3>1, <3>2
    <2>5. CASE i = k + 1
      <3>1. j - 1 \in (k + 1)..n
        BY <1>1, <2>5
      <3>2. d < timer_nodes[j - 1].deadline /\ timer_nodes[j - 1].deadline \in Nat
        BY <1>1, <1>3, <1>5, <3>1
      <3>3. ~(i <= k) /\ i = k + 1 /\ ~(j <= k) /\ j # k + 1
        BY <1>1, <2>5
      <3>4. timer_nodes'[i] = e /\ timer_nodes'[j] = timer_nodes[j - 1]
        BY <1>4, <3>3, Zenon
      <3>5. QED
        BY <1>2, <3>2, <3>4
    <2>6. CASE i > k + 1
      <3>1. /\ j - 1 \in 1..n /\ i - 1 \in 1..n /\ i - 1 < j - 1
            /\ ~(i <= k) /\ i # k + 1 /\ ~(j <= k) /\ j # k + 1
        BY <1>1, <2>6
      <3>2. timer_nodes'[i] = timer_nodes[i - 1] /\ timer_nodes'[j] = timer_nodes[j - 1]
        BY <1>4, <3>1, Zenon
      <3>3. QED
        BY <2>1, <3>1, <3>2
    <2>7. QED
      BY <1>1, <2>2, <2>3, <2>4, <2>5, <2>6
  <1>7. ASSUME NEW i \in 1..n + 1, NEW j \in 1..n + 1,
               timer_nodes'[i].timer = timer_nodes'[j].timer
        PROVE  i = j
    <2>1. \A x, y \in 1..n : timer_nodes[x].timer = timer_nodes[y].timer => x = y
      BY <1>1 DEF ListOK
    <2>2. \A x \in 1..n : timer_nodes[x].timer # t
      BY <1>5
    <2>3. QED
      BY <1>1, <1>2, <1>4, <1>7, <2>1, <2>2
  <1>8. timers_map' = {timer_nodes'[x].timer : x \in 1..n + 1}
    <2>1. \A x \in 1..n + 1 : timer_nodes'[x].timer \in timers_map \cup {t}
      BY <1>1, <1>2, <1>4, <1>5
    <2>2. \A u \in timers_map : \E x \in 1..n + 1 : timer_nodes'[x].timer = u
      <3> SUFFICES ASSUME NEW x \in 1..n
                   PROVE  \E y \in 1..n + 1 : timer_nodes'[y].timer = timer_nodes[x].timer
        BY <1>1 DEF ListOK
      <3>1. CASE x <= k
        BY <1>1, <1>4, <3>1
      <3>2. CASE x > k
        <4>1. x + 1 \in 1..n + 1 /\ (x + 1) - 1 = x /\ ~(x + 1 <= k) /\ x + 1 # k + 1
          BY <1>1, <3>2
        <4>2. QED
          BY <1>4, <4>1
      <3>3. QED
        BY <1>1, <3>1, <3>2
    <2>3. \E x \in 1..n + 1 : timer_nodes'[x].timer = t
      <3>1. k + 1 \in 1..n + 1 /\ ~(k + 1 <= k)
        BY <1>1
      <3>2. timer_nodes'[k + 1] = e
        BY <1>4, <3>1
      <3>3. QED
        BY <1>2, <3>1, <3>2
    <2>4. QED
      BY <2>1, <2>2, <2>3
  <1>9. QED
    BY <1>4, <1>6, <1>7, <1>8 DEF ListOK

LEMMA EraseKeeps ==
    ASSUME ListOK, NEW t, EraseNode(t), timers_map' = timers_map \ {t}
    PROVE  ListOK'
  <1> DEFINE n == Len(timer_nodes)
  <1>1. /\ timer_nodes \in Seq(Nodes) /\ n \in Nat /\ DOMAIN timer_nodes = 1..n
        /\ \A i \in 1..n : timer_nodes[i] \in Nodes /\ timer_nodes[i].deadline \in Nat
    BY NodesTyped
  <1> HIDE DEF n
  <1>2. CASE ~IsNode(t) /\ UNCHANGED timer_nodes
    <2>1. timers_map' = timers_map
      BY <1>2 DEF ListOK, IsNode
    <2>2. QED
      BY <1>2, <2>1 DEF ListOK, Sorted
  <1>3. CASE \E k \in DOMAIN timer_nodes :
                timer_nodes[k].timer = t /\ timer_nodes' = RemoveAt(timer_nodes, k)
    <2>1. PICK k \in 1..n : timer_nodes[k].timer = t /\ timer_nodes' = RemoveAt(timer_nodes, k)
      BY <1>1, <1>3
    <2>2. /\ timer_nodes' \in Seq(Nodes)
          /\ DOMAIN timer_nodes' = 1..n - 1
          /\ \A i \in 1..n - 1 :
                timer_nodes'[i] = IF i < k THEN timer_nodes[i] ELSE timer_nodes[i + 1]
      <3>1. /\ timer_nodes' \in Seq(Nodes)
            /\ Len(timer_nodes') = n - 1
            /\ \A i \in 1..n - 1 :
                timer_nodes'[i] = IF i < k THEN timer_nodes[i] ELSE timer_nodes[i + 1]
        BY <1>1, <2>1, Removed DEF n
      <3>2. QED
        BY <3>1, LenProperties
    <2> DEFINE old(i) == IF i < k THEN i ELSE i + 1
    <2>3. \A i \in 1..n - 1 : /\ old(i) \in 1..n /\ old(i) # k
                              /\ timer_nodes'[i] = timer_nodes[old(i)]
      BY <1>1, <2>2
    <2>4. \A i, j \in 1..n - 1 : (i < j => old(i) < old(j)) /\ (old(i) = old(j) => i = j)
      BY <1>1
    <2>5. \A x \in 1..n : x # k => \E i \in 1..n - 1 : old(i) = x
      <3> SUFFICES ASSUME NEW x \in 1..n, x # k PROVE \E i \in 1..n - 1 : old(i) = x
        OBVIOUS
      <3>1. CASE x < k
        BY <1>1, <3>1
      <3>2. CASE x > k
        <4>1. x - 1 \in 1..n - 1 /\ old(x - 1) = x
          BY <1>1, <3>2
        <4>2. QED
          BY <4>1
      <3>3. QED
        BY <1>1, <3>1, <3>2
    <2> HIDE DEF old
    <2>6. Sorted'
      BY <1>1, <2>2, <2>3, <2>4 DEF ListOK, Sorted
    <2>7. \A i, j \in 1..n - 1 : timer_nodes'[i].timer = timer_nodes'[j].timer => i = j
      BY <1>1, <2>3, <2>4 DEF ListOK
    <2>8. \A x \in 1..n : timer_nodes[x].timer = t <=> x = k
      BY <1>1, <2>1 DEF ListOK
    <2>9. timers_map' = {timer_nodes'[x].timer : x \in 1..n - 1}
      <3>1. timers_map' = {timer_nodes[x].timer : x \in 1..n} \ {t}
        BY <1>1 DEF ListOK
      <3>2. QED
        BY <2>3, <2>5, <2>8, <3>1
    <2>10. QED
      BY <2>2, <2>6, <2>7, <2>9 DEF ListOK
  <1>4. QED
    BY <1>2, <1>3 DEF EraseNode

-----------------------------------------------------------------------------
\* The invariant holds initially and is kept by each action.

LEMMA InitInv == Init => Inv
  <1> SUFFICES ASSUME Init PROVE Inv
    OBVIOUS
  <1> USE DEF Init
  <1>1. ListOK
    BY EmptySeq DEF ListOK, Sorted
  <1>2. FramesOK
    BY Empty DEF FramesOK
  <1>3. OthersOK
    BY EmptySeq DEF OthersOK
  <1>4. CareOK
    BY Empty DEF CareOK
  <1>5. QED
    BY <1>1, <1>2, <1>3, <1>4 DEF Inv

\* What is left alone.
LEMMA Idle ==
    /\ ListOK /\ UNCHANGED <<timer_nodes, timers_map>> => ListOK'
    /\ FramesOK /\ UNCHANGED <<stack, started, timers_map, down>> => FramesOK'
    /\ OthersOK /\ UNCHANGED <<clock, now, inbound, queue>> => OthersOK'
    /\ CareOK /\ UNCHANGED <<stack, calls, intercepting, failed, timers_map>> => CareOK'
  <1>1. ListOK /\ UNCHANGED <<timer_nodes, timers_map>> => ListOK'
    BY DEF ListOK, Sorted
  <1>2. FramesOK /\ UNCHANGED <<stack, started, timers_map, down>> => FramesOK'
    BY DEF FramesOK
  <1>3. OthersOK /\ UNCHANGED <<clock, now, inbound, queue>> => OthersOK'
    BY DEF OthersOK
  <1>4. CareOK /\ UNCHANGED <<stack, calls, intercepting, failed, timers_map>> => CareOK'
    BY DEF CareOK
  <1>5. QED
    BY <1>1, <1>2, <1>3, <1>4

LEMMA ReadsClockKeeps == OthersOK /\ ReadsClock /\ UNCHANGED <<clock, inbound, queue>> => OthersOK'
  BY DEF OthersOK, ReadsClock

\* Frames other than "insert" come and go.
LEMMA FramesKeep ==
    ASSUME FramesOK, UNCHANGED <<started, timers_map, down>>,
           StackOK(stack'),
           \A f \in Range(stack') : f.op = "insert" => f \in Range(stack)
    PROVE  FramesOK'
  BY DEF FramesOK

\* The callback of a timer that is cancelled is called.
LEMMA CancelInv ==
    ASSUME Inv, NEW t \in Timers, NEW rest,
           StackOK(rest), Range(rest) \subseteq Range(stack),
           FindAndCancel(t, rest),
           Careful => /\ t \in timers_map /\ CallsOK(rest)
                      /\ \A g \in Range(rest) : g.op \in Callbacks => g.timer # t,
           UNCHANGED <<timer_nodes, timers_map, intercepting, started, down>>
    PROVE  /\ ListOK' /\ FramesOK' /\ (Careful => CareOK')
  <1> DEFINE f == [op |-> "cancelled", who |-> Owner[t], timer |-> t]
  <1>1. f \in Frames /\ f.op = "cancelled" /\ f.timer = t
    BY TimersAssumption DEF Frames
  <1>2. /\ StackOK(<<f>> \o rest)
        /\ Range(<<f>> \o rest) = {f} \cup Range(rest)
        /\ Careful => CallsOK(<<f>> \o rest)
    <2> HIDE DEF f
    <2>1. QED
      BY <1>1, PushOne
  <1>3. IsNode(t) => stack' = <<f>> \o rest
    BY DEF FindAndCancel
  <1>4. ~IsNode(t) => stack' = rest
    BY DEF FindAndCancel
  <1>5. Careful => IsNode(t)
    BY DEF IsNode, Inv, ListOK
  <1> HIDE DEF f
  <1>6. FramesOK'
    <2>1. StackOK(stack') /\ Range(stack') \subseteq {f} \cup Range(stack)
      BY <1>2, <1>3, <1>4
    <2>2. QED
      BY <1>1, <2>1, FramesKeep DEF Inv
  <1>7. ASSUME Careful PROVE CareOK'
    <2>1. CareOK /\ IsNode(t) /\ CallsOK(rest)
      BY <1>5, <1>7 DEF Inv
    <2>2. /\ calls' = [calls EXCEPT ![t] = @ + 1] /\ UNCHANGED failed
          /\ stack' = <<f>> \o rest
      BY <1>3, <2>1 DEF FindAndCancel
    <2>3. CallsOK(stack') /\ Range(stack') = {f} \cup Range(rest)
      BY <1>2, <1>7, <2>2
    <2>4. calls' \in [Timers -> Nat] /\ calls'[t] > 0
          /\ \A u \in Timers : calls[u] > 0 => calls'[u] > 0
      BY <2>1, <2>2 DEF CareOK
    <2>5. ASSUME NEW g \in Range(rest), g.op \in Callbacks
          PROVE  g.timer \in timers_map' /\ calls'[g.timer] > 0
      <3>1. g \in Range(stack) /\ g.timer \in timers_map /\ calls[g.timer] > 0
        BY <2>1, <2>5 DEF CareOK
      <3>2. g.timer \in Timers
        BY <3>1 DEF Inv, FramesOK
      <3>3. QED
        BY <2>4, <3>1, <3>2
    <2>6. QED
      BY <1>1, <1>7, <2>1, <2>2, <2>3, <2>4, <2>5 DEF CareOK, Callbacks
  <1>8. ListOK'
    BY Idle DEF Inv
  <1>9. QED
    BY <1>6, <1>7, <1>8

LEMMA HeadKeeps ==
    ASSUME Inv, stack # <<>>
    PROVE  /\ Head(stack) \in Frames /\ Head(stack) \in Range(stack)
           /\ StackOK(Tail(stack)) /\ Range(Tail(stack)) \subseteq Range(stack)
           /\ Careful => CallsOK(Tail(stack))
  BY Pop DEF Inv, FramesOK, CareOK

\* The stack of an action that pops its frame.
LEMMA PopInv ==
    ASSUME Inv, stack # <<>>, stack' = Tail(stack),
           UNCHANGED <<started, timers_map, down, calls, failed>>,
           intercepting' = intercepting \/ intercepting' = FALSE
    PROVE  FramesOK' /\ (Careful => CareOK')
  <1>1. StackOK(stack') /\ Range(stack') \subseteq Range(stack)
    BY HeadKeeps
  <1>2. FramesOK'
    BY <1>1, FramesKeep DEF Inv
  <1>3. ASSUME Careful PROVE CareOK'
    <2>1. CareOK /\ CallsOK(stack')
      BY <1>3, HeadKeeps DEF Inv
    <2>2. intercepting' \in BOOLEAN /\ (~intercepting => ~intercepting')
      <3>1. CASE intercepting' = intercepting
        BY <2>1, <3>1, Zenon DEF CareOK
      <3>2. CASE intercepting' = FALSE
        BY <3>2
      <3>3. QED
        BY <3>1, <3>2
    <2>3. \A f \in Range(stack') : f.op = "finish" => ~intercepting'
      BY <1>1, <2>1, <2>2 DEF CareOK
    <2>4. QED
      BY <1>1, <2>1, <2>2, <2>3 DEF CareOK
  <1>4. QED
    BY <1>2, <1>3

UpdateFrame == UpdateTime \in Frames /\ UpdateTime.op = "update"
LEMMA UpdateFrameType == UpdateFrame
  BY DEF UpdateFrame, UpdateTime, Frames

\* The stack while update_time() runs and nothing else.
LEMMA SingleUpdate ==
    /\ StackOK(<<UpdateTime>>) /\ CallsOK(<<UpdateTime>>)
    /\ Range(<<UpdateTime>>) = {UpdateTime}
  <1>1. <<UpdateTime>> \o <<>> = <<UpdateTime>>
    <2>1. <<UpdateTime>> \in Seq(Frames)
      BY UpdateFrameType DEF UpdateFrame
    <2>2. QED
      BY <2>1, ConcatEmptySeq
  <1>2. StackOK(<<>>) /\ CallsOK(<<>>) /\ Range(<<>>) = {}
    BY Empty
  <1>3. /\ StackOK(<<UpdateTime>> \o <<>>) /\ CallsOK(<<UpdateTime>> \o <<>>)
        /\ Range(<<UpdateTime>> \o <<>>) = {UpdateTime} \cup Range(<<>>)
    BY <1>2, UpdateFrameType, PushOne DEF UpdateFrame, Callbacks
  <1>4. QED
    BY <1>1, <1>2, <1>3

\* start_timer() from the insertion on: the timer has not been inserted yet.
LEMMA ArmInv ==
    ASSUME Inv, NEW t \in Timers \ timers_map, NEW interval \in Intervals,
           Arm(t, interval, now)
    PROVE  ListOK'
  <1>1. now + interval \in Nat
    BY TimersAssumption DEF Inv, OthersOK
  <1>2. QED
    BY <1>1, InsertKeeps DEF Arm, Inv

LEMMA StartTimerInv ==
    ASSUME Inv, NEW a \in Actors, NEW t \in Timers, NEW interval \in Intervals,
           StartTimer(a, t, interval)
    PROVE  Inv'
  <1>1. /\ stack # <<>> /\ Head(stack).op \in UserOps /\ Owner[t] = a
        /\ t \notin started /\ a \notin down
        /\ started' = started \cup {t}
        /\ UNCHANGED <<clock, intercepting, messageVars, down, failed>>
    BY DEF StartTimer, UserRuns
  <1>2. t \notin timers_map
    BY <1>1 DEF Inv, FramesOK
  <1>3. CASE intercepting
    <2> DEFINE f == [op |-> "insert", timer |-> t, interval |-> interval]
               below == <<f>> \o stack
    <2>1. /\ ReadsClock /\ UNCHANGED timerVars
          /\ stack' = <<UpdateTime, f>> \o stack
      BY <1>3 DEF StartTimer
    <2>2. f \in Frames /\ f.op = "insert" /\ f.timer = t
      BY DEF Frames
    <2> HIDE DEF f
    <2>3. /\ StackOK(below) /\ Range(below) = {f} \cup Range(stack)
          /\ Careful => CallsOK(below)
      BY <1>1, <2>2, PushOne DEF Inv, FramesOK, CareOK, Callbacks
    <2>4. stack' = <<UpdateTime>> \o below
      <3>1. stack \in Seq(Frames)
        BY DEF Inv, FramesOK, StackOK
      <3>2. QED
        BY <2>1, <2>2, <3>1, PushTwo, UpdateFrameType DEF UpdateFrame
    <2>5. ASSUME Careful PROVE \A g \in Range(stack) : g.op \notin Callbacks
      <3>1. Head(stack).op = "handler"
        BY <1>3, <2>5 DEF StartTimer, TouchesSafely
      <3>2. Range(stack) = {Head(stack)}
        BY <1>1, <3>1, Pop DEF Inv, FramesOK
      <3>3. QED
        BY <3>1, <3>2 DEF Callbacks
    <2> HIDE DEF below
    <2>6. /\ StackOK(stack') /\ Range(stack') = {UpdateTime, f} \cup Range(stack)
          /\ Careful => CallsOK(stack')
      <3>1. /\ StackOK(<<UpdateTime>> \o below)
            /\ Range(<<UpdateTime>> \o below) = {UpdateTime} \cup Range(below)
            /\ Careful => CallsOK(<<UpdateTime>> \o below)
        <4>1. Careful => \A g \in Range(below) : g.op \notin Callbacks
          BY <2>2, <2>3, <2>5 DEF Callbacks
        <4>2. QED
          BY <2>3, <4>1, PushOne, UpdateFrameType DEF UpdateFrame, Callbacks
      <3>2. QED
        BY <2>3, <2>4, <3>1
    <2>7. FramesOK'
      <3>1. timers_map' = timers_map /\ down' = down
        BY <1>1, <2>1 DEF timerVars
      <3>2. \A g \in Range(stack') : g.op = "insert" =>
                g.timer \in started' \ timers_map' /\ Owner[g.timer] \notin down'
        BY <1>1, <1>2, <2>2, <2>6, <3>1, UpdateFrameType DEF Inv, FramesOK, UpdateFrame
      <3>3. QED
        BY <1>1, <2>6, <3>1, <3>2 DEF Inv, FramesOK
    <2>8. ASSUME Careful PROVE CareOK'
      <3>1. UNCHANGED <<calls, intercepting, failed, timers_map>> /\ CareOK
        BY <1>1, <2>1, <2>8 DEF timerVars, Inv
      <3>2. QED
        BY <2>2, <2>6, <2>8, <3>1, UpdateFrameType DEF CareOK, Callbacks, UpdateFrame
    <2>9. ListOK' /\ OthersOK'
      BY <1>1, <2>1, Idle, ReadsClockKeeps DEF Inv, timerVars, messageVars
    <2>10. QED
      BY <2>7, <2>8, <2>9 DEF Inv
  <1>4. CASE ~intercepting
    <2>1. Arm(t, interval, now) /\ UNCHANGED <<now, stack, calls>>
      BY <1>4 DEF StartTimer
    <2>2. timers_map' = timers_map \cup {t}
      BY <2>1 DEF Arm
    <2>3. FramesOK'
      BY <1>1, <2>1, <2>2 DEF Inv, FramesOK
    <2>4. ASSUME Careful PROVE CareOK'
      BY <1>1, <2>1, <2>2, <2>4 DEF Inv, CareOK
    <2>5. ListOK' /\ OthersOK'
      BY <1>1, <1>2, <2>1, ArmInv, Idle DEF Inv, messageVars
    <2>6. QED
      BY <2>3, <2>4, <2>5 DEF Inv
  <1>5. QED
    BY <1>3, <1>4

LEMMA UserCancelsInv ==
    ASSUME Inv, NEW a \in Actors, NEW t \in Timers, UserCancels(a, t)
    PROVE  Inv'
  <1>1. /\ stack # <<>> /\ t \in timers_map /\ calls[t] = 0
        /\ Careful => TouchesSafely(TRUE)
        /\ CancelTimer(t, stack)
        /\ UNCHANGED <<clock, timer_nodes, timers_map, intercepting, messageVars, started, down>>
    BY DEF UserCancels, UserRuns
  <1>2. StackOK(stack)
    BY DEF Inv, FramesOK
  <1>3. CASE intercepting
    <2> DEFINE f == [op |-> "find", timer |-> t]
               below == <<f>> \o stack
    <2>1. ~Careful
      BY <1>1, <1>3 DEF TouchesSafely
    <2>2. /\ ReadsClock /\ UNCHANGED <<calls, failed>>
          /\ stack' = <<UpdateTime, f>> \o stack
      BY <1>1, <1>3 DEF CancelTimer
    <2>3. f \in Frames /\ f.op = "find"
      BY DEF Frames
    <2> HIDE DEF f
    <2>4. StackOK(below) /\ Range(below) = {f} \cup Range(stack)
      BY <1>2, <2>3, PushOne
    <2>5. stack' = <<UpdateTime>> \o below
      <3>1. stack \in Seq(Frames)
        BY <1>2 DEF StackOK
      <3>2. QED
        BY <2>2, <2>3, <3>1, PushTwo, UpdateFrameType DEF UpdateFrame
    <2> HIDE DEF below
    <2>6. StackOK(stack') /\ Range(stack') = {UpdateTime, f} \cup Range(stack)
      <3>1. /\ StackOK(<<UpdateTime>> \o below)
            /\ Range(<<UpdateTime>> \o below) = {UpdateTime} \cup Range(below)
        BY <2>4, PushOne, UpdateFrameType DEF UpdateFrame
      <3>2. QED
        BY <2>4, <2>5, <3>1
    <2>7. FramesOK'
      BY <1>1, <2>3, <2>6, FramesKeep, UpdateFrameType DEF Inv, UpdateFrame
    <2>8. ListOK' /\ OthersOK'
      BY <1>1, <2>2, Idle, ReadsClockKeeps DEF Inv, messageVars
    <2>9. QED
      BY <2>1, <2>7, <2>8 DEF Inv
  <1>4. CASE ~intercepting
    <2>1. FindAndCancel(t, stack) /\ UNCHANGED now
      BY <1>1, <1>4 DEF CancelTimer
    <2>2. ASSUME Careful
          PROVE  /\ CallsOK(stack)
                 /\ \A g \in Range(stack) : g.op \in Callbacks => g.timer # t
      BY <1>1, <2>2 DEF Inv, CareOK
    <2>3. ListOK' /\ FramesOK' /\ (Careful => CareOK')
      BY <1>1, <1>2, <2>1, <2>2, CancelInv
    <2>4. OthersOK'
      BY <1>1, <2>1, Idle DEF Inv, messageVars
    <2>5. QED
      BY <2>3, <2>4 DEF Inv
  <1>5. QED
    BY <1>3, <1>4

LEMMA HandlerReturnsInv == ASSUME Inv, HandlerReturns PROVE Inv'
  <1>1. /\ stack # <<>> /\ Head(stack).op = "handler"
        /\ intercepting' = FALSE
        /\ UNCHANGED <<clock, timerVars, posted, started, down, failed>>
    BY DEF HandlerReturns
  <1>2. Tail(stack) = <<>>
    BY <1>1, Pop DEF Inv, FramesOK
  <1>3. CASE intercepting
    <2>1. /\ queue' = queue \o inbound /\ inbound' = <<>> /\ ReadsClock
          /\ stack' = <<UpdateTime>> \o <<>>
      BY <1>2, <1>3 DEF HandlerReturns
    <2>2. stack' = <<UpdateTime>>
      <3>1. <<UpdateTime>> \in Seq(Frames)
        BY UpdateFrameType DEF UpdateFrame
      <3>2. QED
        BY <2>1, <3>1, ConcatEmptySeq
    <2>3. FramesOK'
      <3>1. StackOK(stack') /\ Range(stack') = {UpdateTime}
        BY <2>2, SingleUpdate
      <3>2. QED
        BY <1>1, <3>1, FramesKeep, UpdateFrameType DEF Inv, UpdateFrame, timerVars
    <2>4. ASSUME Careful PROVE CareOK'
      BY <1>1, <2>2, <2>4, SingleUpdate, UpdateFrameType
         DEF Inv, CareOK, UpdateFrame, Callbacks, timerVars
    <2>5. OthersOK'
      BY <1>1, <2>1, ConcatProperties, EmptySeq DEF Inv, OthersOK, ReadsClock
    <2>6. ListOK'
      BY <1>1, Idle DEF Inv, timerVars
    <2>7. QED
      BY <2>3, <2>4, <2>5, <2>6 DEF Inv
  <1>4. CASE ~intercepting
    <2>1. stack' = Tail(stack) /\ UNCHANGED <<queue, inbound, now>>
      BY <1>4 DEF HandlerReturns
    <2>2. FramesOK' /\ (Careful => CareOK')
      BY <1>1, <2>1, PopInv DEF timerVars
    <2>3. ListOK' /\ OthersOK'
      BY <1>1, <2>1, Idle DEF Inv, timerVars
    <2>4. QED
      BY <2>2, <2>3 DEF Inv
  <1>5. QED
    BY <1>3, <1>4

LEMMA CallbackReturnsInv == ASSUME Inv, CallbackReturns PROVE Inv'
  <1> DEFINE t == Head(stack).timer
  <1>1. /\ stack # <<>> /\ Head(stack).op \in Callbacks
        /\ timers_map' = timers_map \ {t}
        /\ EraseNode(t)
        /\ failed' = failed \cup (IF t \in timers_map THEN {} ELSE {"handler erased twice"})
                            \cup (IF IsNode(t) THEN {} ELSE {"node erased twice"})
        /\ stack' = Tail(stack)
        /\ UNCHANGED <<clock, now, calls, intercepting, messageVars, started, down>>
    BY DEF CallbackReturns, Callbacks, Forgotten
  <1>2. ListOK'
    BY <1>1, EraseKeeps DEF Inv
  <1>3. FramesOK'
    BY <1>1, HeadKeeps DEF Inv, FramesOK
  <1>4. ASSUME Careful PROVE CareOK'
    <2>1. CareOK /\ Head(stack) \in Range(stack)
      BY <1>1, <1>4, HeadKeeps DEF Inv
    <2>2. t \in timers_map /\ IsNode(t)
      BY <1>1, <2>1 DEF CareOK, Inv, ListOK, IsNode
    <2>3. /\ CallsOK(stack') /\ Range(stack') \subseteq Range(stack)
          /\ \A g \in Range(stack') : g.op \in Callbacks => g.timer # t
      BY <1>1, <2>1, Pop DEF Inv, FramesOK, CareOK
    <2>4. failed' = {}
      BY <1>1, <2>1, <2>2 DEF CareOK
    <2>5. QED
      BY <1>1, <2>1, <2>3, <2>4 DEF CareOK
  <1>5. OthersOK'
    BY <1>1, Idle DEF Inv, messageVars
  <1>6. QED
    BY <1>2, <1>3, <1>4, <1>5 DEF Inv

LEMMA FireInv == ASSUME Inv, Fire PROVE Inv'
  <1> DEFINE t == Head(timer_nodes).timer
             f == [op |-> "fired", who |-> Owner[t], timer |-> t]
  <1>1. /\ stack # <<>> /\ Head(stack).op = "update"
        /\ UNCHANGED <<clock, now, timers_map, intercepting, messageVars, started, down, failed>>
    BY DEF Fire
  <1>2. OthersOK'
    BY <1>1, Idle DEF Inv, messageVars
  <1>3. Expired => t \in timers_map /\ t \in Timers
    <2>1. ASSUME timer_nodes # <<>> PROVE t \in timers_map /\ t \in Timers
      <3>1. Len(timer_nodes) \in Nat \ {0} /\ Head(timer_nodes) = timer_nodes[1]
        BY <2>1, NodesTyped, EmptySeq, HeadTailProperties
      <3>2. 1 \in 1..Len(timer_nodes)
        BY <3>1
      <3>3. QED
        BY <3>1, <3>2, NodesTyped DEF Inv
    <2>2. QED
      BY <2>1 DEF Expired
  <1>4. CASE Expired /\ t \in timers_map /\ stack' = <<f>> \o stack
             /\ calls' = [calls EXCEPT ![t] = @ + 1] /\ UNCHANGED timer_nodes
    <2>1. f \in Frames /\ f.op = "fired" /\ f.timer = t
      BY <1>3, <1>4, TimersAssumption DEF Frames
    <2>2. Careful => \A g \in Range(stack) : g.op \notin Callbacks
      BY <1>1, Pop DEF Inv, FramesOK, CareOK
    <2> HIDE DEF f
    <2>3. /\ StackOK(stack') /\ Range(stack') = {f} \cup Range(stack)
          /\ Careful => CallsOK(stack')
      BY <1>4, <2>1, <2>2, PushOne DEF Inv, FramesOK, CareOK
    <2>4. FramesOK'
      BY <1>1, <2>1, <2>3, FramesKeep DEF Inv
    <2>5. ASSUME Careful PROVE CareOK'
      <3>1. CareOK
        BY <2>5 DEF Inv
      <3>2. calls' \in [Timers -> Nat] /\ calls'[t] > 0
        BY <1>3, <1>4, <3>1 DEF CareOK
      <3>3. QED
        BY <1>1, <1>4, <2>1, <2>2, <2>3, <2>5, <3>1, <3>2 DEF CareOK, Callbacks
    <2>6. ListOK'
      BY <1>1, <1>4, Idle DEF Inv
    <2>7. QED
      BY <1>2, <2>4, <2>5, <2>6 DEF Inv
  <1>5. CASE ~Expired /\ stack' = Tail(stack) /\ UNCHANGED <<timer_nodes, calls>>
    <2>1. FramesOK' /\ (Careful => CareOK')
      BY <1>1, <1>5, PopInv
    <2>2. ListOK'
      BY <1>1, <1>5, Idle DEF Inv
    <2>3. QED
      BY <1>2, <2>1, <2>2 DEF Inv
  <1>6. QED
    BY <1>3, <1>4, <1>5 DEF Fire

LEMMA InsertAfterUpdateInv == ASSUME Inv, InsertAfterUpdate PROVE Inv'
  <1> DEFINE f == Head(stack)
  <1>1. /\ stack # <<>> /\ f.op = "insert"
        /\ Arm(f.timer, f.interval, now)
        /\ stack' = Tail(stack)
        /\ UNCHANGED <<clock, now, calls, intercepting, messageVars, started, down, failed>>
    BY DEF InsertAfterUpdate
  <1>2. f \in Frames /\ f \in Range(stack)
    BY <1>1, HeadKeeps
  <1>3. /\ f.timer \in Timers /\ f.interval \in Intervals
        /\ f.timer \in started \ timers_map /\ Owner[f.timer] \notin down
    BY <1>1, <1>2, FrameTypes DEF Inv, FramesOK
  <1>4. timers_map' = timers_map \cup {f.timer}
    BY <1>1 DEF Arm
  <1>5. /\ StackOK(stack') /\ Range(stack') \subseteq Range(stack)
        /\ Careful => CallsOK(stack')
    BY <1>1, HeadKeeps
  <1>6. \A g \in Range(stack') : g.op = "insert" => g.timer # f.timer
    BY <1>1, Pop DEF Inv, FramesOK
  <1> HIDE DEF f
  <1>7. FramesOK'
    BY <1>1, <1>3, <1>4, <1>5, <1>6 DEF Inv, FramesOK
  <1>8. ASSUME Careful PROVE CareOK'
    BY <1>1, <1>4, <1>5, <1>8 DEF Inv, CareOK
  <1>9. ListOK' /\ OthersOK'
    BY <1>1, <1>3, ArmInv, Idle DEF Inv, messageVars
  <1>10. QED
    BY <1>7, <1>8, <1>9 DEF Inv

LEMMA FindAfterUpdateInv == ASSUME Inv, FindAfterUpdate PROVE Inv'
  <1> DEFINE t == Head(stack).timer
  <1>1. /\ stack # <<>> /\ Head(stack).op = "find"
        /\ FindAndCancel(t, Tail(stack))
        /\ UNCHANGED <<clock, now, timer_nodes, timers_map, intercepting, messageVars, started,
                       down>>
    BY DEF FindAfterUpdate
  <1>2. /\ Head(stack) \in Frames /\ Head(stack) \in Range(stack)
        /\ StackOK(Tail(stack)) /\ Range(Tail(stack)) \subseteq Range(stack)
    BY <1>1, HeadKeeps
  <1>3. t \in Timers
    BY <1>1, <1>2, FrameTypes
  <1>4. ~Careful
    BY <1>1, <1>2 DEF Inv, CareOK
  <1> HIDE DEF t
  <1>5. ListOK' /\ FramesOK' /\ (Careful => CareOK')
    BY <1>1, <1>2, <1>3, <1>4, CancelInv
  <1>6. OthersOK'
    BY <1>1, Idle DEF Inv, messageVars
  <1>7. QED
    BY <1>5, <1>6 DEF Inv

LEMMA FinishInv == ASSUME Inv, Finish PROVE Inv'
  <1> DEFINE a == Head(stack).who
             mine == {t \in timers_map : Owner[t] = a}
  <1>1. /\ stack # <<>> /\ Head(stack).op = "finish"
        /\ UNCHANGED <<clock, timer_nodes, timers_map, intercepting, messageVars, started>>
    BY DEF Finish
  <1>2. /\ Head(stack) \in Frames /\ Head(stack) \in Range(stack)
        /\ StackOK(stack) /\ Tail(stack) = <<>> /\ Range(stack) = {Head(stack)}
    BY <1>1, Pop DEF Inv, FramesOK
  <1>3. a \in Actors
    BY <1>1, <1>2, FrameTypes
  <1>4. ASSUME NEW t \in mine, CancelTimer(t, stack), UNCHANGED down
        PROVE  Inv'
    <2>1. t \in Timers /\ t \in timers_map
      BY DEF Inv, FramesOK
    <2>2. CASE intercepting
      <3> DEFINE f == [op |-> "find", timer |-> t]
                 below == <<f>> \o stack
      <3>1. ~Careful
        BY <1>1, <1>2, <2>2 DEF Inv, CareOK
      <3>2. /\ ReadsClock /\ UNCHANGED <<calls, failed>>
            /\ stack' = <<UpdateTime, f>> \o stack
        BY <1>4, <2>2 DEF CancelTimer
      <3>3. f \in Frames /\ f.op = "find"
        BY <2>1 DEF Frames
      <3> HIDE DEF f
      <3>4. StackOK(below) /\ Range(below) = {f} \cup Range(stack)
        BY <1>2, <3>3, PushOne
      <3>5. stack' = <<UpdateTime>> \o below
        <4>1. stack \in Seq(Frames)
          BY <1>2 DEF StackOK
        <4>2. QED
          BY <3>2, <3>3, <4>1, PushTwo, UpdateFrameType DEF UpdateFrame
      <3> HIDE DEF below
      <3>6. StackOK(stack') /\ Range(stack') = {UpdateTime, f} \cup Range(stack)
        <4>1. /\ StackOK(<<UpdateTime>> \o below)
              /\ Range(<<UpdateTime>> \o below) = {UpdateTime} \cup Range(below)
          BY <3>4, PushOne, UpdateFrameType DEF UpdateFrame
        <4>2. QED
          BY <3>4, <3>5, <4>1
      <3>7. FramesOK'
        BY <1>1, <1>4, <3>3, <3>6, FramesKeep, UpdateFrameType DEF Inv, UpdateFrame
      <3>8. ListOK' /\ OthersOK'
        BY <1>1, <3>2, Idle, ReadsClockKeeps DEF Inv, messageVars
      <3>9. QED
        BY <3>1, <3>7, <3>8 DEF Inv
    <2>3. CASE ~intercepting
      <3>1. FindAndCancel(t, stack) /\ UNCHANGED now
        BY <1>4, <2>3 DEF CancelTimer
      <3>2. Careful => CallsOK(stack)
        BY DEF Inv, CareOK
      <3>3. \A g \in Range(stack) : g.op \notin Callbacks
        BY <1>1, <1>2 DEF Callbacks
      <3>4. ListOK' /\ FramesOK' /\ (Careful => CareOK')
        BY <1>1, <1>2, <1>4, <2>1, <3>1, <3>2, <3>3, CancelInv
      <3>5. OthersOK'
        BY <1>1, <3>1, Idle DEF Inv, messageVars
      <3>6. QED
        BY <3>4, <3>5 DEF Inv
    <2>4. QED
      BY <2>2, <2>3
  <1>5. ASSUME mine = {}, down' = down \cup {a}, stack' = Tail(stack),
               UNCHANGED <<now, calls, failed>>
        PROVE  Inv'
    <2>1. stack' = <<>> /\ StackOK(stack') /\ CallsOK(stack') /\ Range(stack') = {}
      BY <1>2, <1>5, Empty
    <2>2. \A t \in timers_map : Owner[t] # a
      BY <1>5
    <2>3. FramesOK'
      BY <1>1, <1>3, <1>5, <2>1, <2>2 DEF Inv, FramesOK
    <2>4. ASSUME Careful PROVE CareOK'
      BY <1>1, <1>5, <2>1, <2>4 DEF Inv, CareOK
    <2>5. ListOK' /\ OthersOK'
      BY <1>1, <1>5, Idle DEF Inv, messageVars
    <2>6. QED
      BY <2>3, <2>4, <2>5 DEF Inv
  <1>6. QED
    BY <1>4, <1>5 DEF Finish

LEMMA TakeInv == ASSUME Inv, Take PROVE Inv'
  <1> DEFINE m == Head(queue)
             body == [op |-> IF m.kind = "end" THEN "finish" ELSE "handler", who |-> m.to]
             tagged == m.kind = "io" /\ m.to \notin down
  <1>1. /\ stack = <<>> /\ queue # <<>>
        /\ intercepting' = tagged
        /\ queue' = IF tagged THEN Tail(queue) \o inbound ELSE Tail(queue)
        /\ inbound' = IF tagged THEN <<>> ELSE inbound
        /\ now' = IF tagged THEN clock ELSE now
        /\ stack' = IF m.to \in down THEN <<>>
                    ELSE IF tagged THEN <<UpdateTime, body>> ELSE <<body>>
        /\ UNCHANGED <<clock, timerVars, posted, started, down, failed>>
    BY DEF Take
  <1>2. m \in Messages /\ Tail(queue) \in Seq(Messages)
    BY <1>1, HeadTailProperties DEF Inv, OthersOK
  <1>3. /\ body \in Frames /\ body.op \in {"finish", "handler"}
        /\ body.op = "finish" => ~tagged
    BY <1>2 DEF Messages, Frames
  <1>4. tagged \in BOOLEAN
    OBVIOUS
  <1>5. OthersOK'
    <2>1. Tail(queue) \o inbound \in Seq(Messages)
      BY <1>2, ConcatProperties DEF Inv, OthersOK
    <2>2. QED
      BY <1>1, <1>2, <2>1, EmptySeq DEF Inv, OthersOK
  <1> HIDE DEF body, tagged
  <1>6. /\ StackOK(stack') /\ CallsOK(stack')
        /\ Range(stack') \subseteq {UpdateTime, body}
    <2>1. <<body>> = <<body>> \o <<>>
      <3>1. <<body>> \in Seq(Frames)
        BY <1>3
      <3>2. QED
        BY <3>1, ConcatEmptySeq
    <2>2. /\ StackOK(<<body>>) /\ CallsOK(<<body>>) /\ Range(<<body>>) = {body}
      <3>1. /\ StackOK(<<body>> \o <<>>) /\ CallsOK(<<body>> \o <<>>)
            /\ Range(<<body>> \o <<>>) = {body} \cup Range(<<>>)
        BY <1>3, Empty, PushOne DEF Callbacks
      <3>2. QED
        BY <2>1, <3>1, Empty
    <2>3. <<UpdateTime, body>> = <<UpdateTime>> \o <<body>>
      <3>1. <<>> \in Seq(Frames) /\ <<UpdateTime, body>> \in Seq(Frames)
        BY <1>3, UpdateFrameType, EmptySeq DEF UpdateFrame
      <3>2. <<UpdateTime, body>> \o <<>> = <<UpdateTime>> \o (<<body>> \o <<>>)
        BY <1>3, <3>1, PushTwo, UpdateFrameType DEF UpdateFrame
      <3>3. QED
        BY <2>1, <3>1, <3>2, ConcatEmptySeq
    <2>4. /\ StackOK(<<UpdateTime>> \o <<body>>) /\ CallsOK(<<UpdateTime>> \o <<body>>)
          /\ Range(<<UpdateTime>> \o <<body>>) = {UpdateTime} \cup Range(<<body>>)
      BY <1>3, <2>2, PushOne, UpdateFrameType DEF UpdateFrame, Callbacks
    <2>5. CASE stack' = <<>>
      BY <2>5, Empty
    <2>6. CASE stack' = <<body>>
      BY <2>2, <2>6
    <2>7. CASE stack' = <<UpdateTime, body>>
      BY <2>2, <2>3, <2>4, <2>7
    <2>8. QED
      BY <1>1, <2>5, <2>6, <2>7
  <1>7. FramesOK'
    BY <1>1, <1>3, <1>6, FramesKeep, UpdateFrameType DEF Inv, UpdateFrame, timerVars
  <1>8. ASSUME Careful PROVE CareOK'
    <2>1. CareOK /\ UNCHANGED <<calls, failed, timers_map>>
      BY <1>1, <1>8 DEF Inv, timerVars
    <2>2. intercepting' \in BOOLEAN
      BY <1>1, <1>4, Zenon
    <2>3. body.op = "finish" => ~intercepting'
      BY <1>1, <1>3, Zenon
    <2>4. QED
      BY <1>3, <1>6, <2>1, <2>2, <2>3, UpdateFrameType DEF CareOK, UpdateFrame, Callbacks
  <1>9. ListOK'
    BY <1>1, Idle DEF Inv, timerVars
  <1>10. QED
    BY <1>5, <1>7, <1>8, <1>9 DEF Inv

LEMMA WaitInv == ASSUME Inv, Wait PROVE Inv'
  <1>1. /\ stack = <<>>
        /\ queue' = inbound /\ inbound' = <<>>
        /\ ReadsClock /\ stack' = <<UpdateTime>>
        /\ UNCHANGED <<clock, timerVars, intercepting, posted, started, down, failed>>
    BY DEF Wait
  <1>2. FramesOK'
    <2>1. StackOK(stack') /\ Range(stack') = {UpdateTime}
      BY <1>1, SingleUpdate
    <2>2. QED
      BY <1>1, <2>1, FramesKeep, UpdateFrameType DEF Inv, UpdateFrame, timerVars
  <1>3. ASSUME Careful PROVE CareOK'
    BY <1>1, <1>3, SingleUpdate, UpdateFrameType
       DEF Inv, CareOK, UpdateFrame, Callbacks, timerVars
  <1>4. OthersOK'
    BY <1>1, EmptySeq DEF Inv, OthersOK, ReadsClock
  <1>5. ListOK'
    BY <1>1, Idle DEF Inv, timerVars
  <1>6. QED
    BY <1>2, <1>3, <1>4, <1>5 DEF Inv

LEMMA EnqueueInv == ASSUME Inv, NEW m \in Messages, Enqueue(m) PROVE Inv'
  <1>1. inbound' \in Seq(Messages)
    BY AppendProperties DEF Inv, OthersOK, Enqueue
  <1>2. OthersOK'
    BY <1>1 DEF Inv, OthersOK, Enqueue
  <1>3. QED
    BY <1>2, Idle DEF Inv, Enqueue, timerVars

LEMMA TickInv == ASSUME Inv, Tick PROVE Inv'
  <1>1. OthersOK'
    BY DEF Inv, OthersOK, Tick, messageVars
  <1>2. QED
    BY <1>1, Idle DEF Inv, Tick, timerVars

LEMMA NextInv == ASSUME Inv, [Next]_vars PROVE Inv'
  <1>1. ASSUME Thread PROVE Inv'
    BY <1>1, TakeInv, WaitInv, FireInv, InsertAfterUpdateInv, FindAfterUpdateInv, FinishInv,
       HandlerReturnsInv, CallbackReturnsInv, UserCancelsInv, StartTimerInv
       DEF Thread
  <1>2. CASE UNCHANGED vars
    BY <1>2, Idle DEF Inv, vars, timerVars, messageVars
  <1>3. QED
    BY <1>1, <1>2, EnqueueInv, TickInv DEF Next

LEMMA Invariance == Spec => []Inv
  <1>1. Inv /\ [Next]_vars => Inv'
    BY NextInv
  <1>2. QED
    BY InitInv, <1>1, PTL DEF Spec

-----------------------------------------------------------------------------
\* The theorems.

\* start_timer() inserts where the list stays sorted, cancel_timer() and
\* update_time() take out of it, however they are re-entered.
THEOREM StaysSorted == Spec => []Sorted
  <1>1. Inv => Sorted
    BY DEF Inv, ListOK
  <1>2. QED
    BY Invariance, <1>1, PTL

\* run() waits for the timers there are: the list of deadlines and the
\* handlers of the actors are about the same ones, none of an actor that has
\* ended.  It takes no care of the users.
THEOREM ListAndMapAgree == Spec => []TimersAgree
  <1>1. Inv => TimersAgree
    BY DEF Inv, ListOK, FramesOK, TimersAgree
  <1>2. QED
    BY Invariance, <1>1, PTL

\* If callbacks and tagged handlers use timers in the careful way, cancel_timer()
\* finds what it looks for and nothing is erased twice.
THEOREM CarefulUsersAreSafe ==
    ASSUME Careful
    PROVE  Spec => []NoAssertionFails
  <1>1. Inv => NoAssertionFails
    BY DEF Inv, CareOK, NoAssertionFails
  <1>2. QED
    BY Invariance, <1>1, PTL
=============================================================================

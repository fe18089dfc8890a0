------------------------------- MODULE Pipe_proofs -------------------------------
(***************************************************************************)
(* The pair of pipe_t is correct for every watermark, every number of      *)
(* messages and hiccups and every choice of who writes, hiccups and        *)
(* lingers.                                                                *)
(***************************************************************************)
EXTENDS Pipe, FiniteSetTheorems, SequenceTheorems, TLAPS

Item == [msg : Nat, more : BOOLEAN]
Cmd == [type : CommandTypes, arg : Nat]
Ypipe == [items : Seq(Item), complete : Nat, flushed : Nat, asleep : BOOLEAN]

(***************************************************************************)
(* A queue of commands: which types it holds, the ypipes that its hiccups  *)
(* bring, and the order in which an end sends: pipe_term once, no hiccup   *)
(* after it, and pipe_term_ack last.                                       *)
(***************************************************************************)
Has(q, t) == \E i \in 1..Len(q) : q[i].type = t

Brings(q, a) == \E i \in 1..Len(q) : q[i].type = "hiccup" /\ q[i].arg = a

Ordered(q) ==
  \A i, j \in 1..Len(q) :
    /\ q[i].type = "pipe_term" /\ i < j =>
         q[j].type # "pipe_term" /\ q[j].type # "hiccup"
    /\ q[i].type = "pipe_term_ack" => j <= i

\* The ypipes of hiccups are ever newer, the counts of messages never less.
Rising(q) ==
  \A i, j \in 1..Len(q) : i < j =>
    /\ q[i].type = "hiccup" /\ q[j].type = "hiccup" => q[i].arg < q[j].arg
    /\ q[i].type = "activate_write" /\ q[j].type = "activate_write" =>
         q[i].arg <= q[j].arg

\* The counts of messages in a queue are between two numbers.
Between(q, l, h) ==
  \A i \in 1..Len(q) : q[i].type = "activate_write" => l <= q[i].arg /\ q[i].arg <= h

(***************************************************************************)
(* A ypipe: flushed items are complete, and what lies beyond the complete  *)
(* messages is to be continued.                                            *)
(***************************************************************************)
UpipeOK(u) ==
  /\ u.flushed <= u.complete /\ u.complete <= Len(u.items)
  /\ \A i \in 1..Len(u.items) : i > u.complete => u.items[i].more
  /\ u.complete > 0 => ~ u.items[u.complete].more
  /\ u.flushed > 0 => ~ u.items[u.flushed].more

\* Items numbered on from message n; the delimiter follows a complete message
\* and nothing follows the delimiter.
Numbered(items, n) ==
  /\ Len(items) > 0 => items[1].msg \in {0, n}
  /\ \A i \in 1..Len(items) :
       IsDelimiter(items[i]) => i = Len(items) /\ ~ items[i].more
  /\ \A i \in 1..Len(items) : i > 1 =>
       IF items[i - 1].more THEN items[i].msg = items[i - 1].msg
       ELSE items[i].msg \in {0, items[i - 1].msg + 1}

\* What is in a ypipe when n of the messages written to it, or dropped before
\* it came, are gone and w have been written: the messages from n + 1 to w
\* and the parts of the next one.
Stream(u, n, w) ==
  /\ n + CountMessages(u.items) = w
  /\ Numbered(u.items, n + 1)
  /\ u.complete > 0 /\ ~ IsDelimiter(u.items[u.complete]) =>
       u.items[u.complete].msg = w
  /\ \A i \in 1..Len(u.items) : i > u.complete => u.items[i].msg = w + 1

\* The delimiter has been written.
Delimited(u) == u.complete > 0 /\ IsDelimiter(u.items[u.complete])

-----------------------------------------------------------------------------
(***************************************************************************)
(* Queues of commands.                                                     *)
(***************************************************************************)

(* A command added at the end.                                             *)
LEMMA AppendQueue ==
  ASSUME NEW q \in Seq(Cmd), NEW c \in Cmd
  PROVE  /\ Append(q, c) \in Seq(Cmd)
         /\ \A t : Has(Append(q, c), t) <=> Has(q, t) \/ c.type = t
         /\ \A a : Brings(Append(q, c), a) <=>
                     Brings(q, a) \/ (c.type = "hiccup" /\ c.arg = a)
<1> DEFINE r == Append(q, c)
<1>1. /\ r \in Seq(Cmd) /\ Len(r) = Len(q) + 1 /\ Len(q) \in Nat
      /\ \A i \in 1..Len(q) : r[i] = q[i]
      /\ r[Len(q) + 1] = c
  BY AppendProperties, LenProperties
<1> HIDE DEF r
<1>2. \A i \in 1..Len(r) : i \in 1..Len(q) \/ i = Len(q) + 1
  BY <1>1
<1>3. Len(q) + 1 \in 1..Len(r) /\ \A i \in 1..Len(q) : i \in 1..Len(r)
  BY <1>1
<1>4. \A t : Has(r, t) <=> Has(q, t) \/ c.type = t
  BY <1>1, <1>2, <1>3 DEF Has
<1>5. \A a : Brings(r, a) <=> Brings(q, a) \/ (c.type = "hiccup" /\ c.arg = a)
  BY <1>1, <1>2, <1>3 DEF Brings
<1> QED BY <1>1, <1>4, <1>5 DEF r

(* The order is kept by what an end may send.                              *)
LEMMA AppendOrdered ==
  ASSUME NEW q \in Seq(Cmd), NEW c \in Cmd, Ordered(q),
         ~ Has(q, "pipe_term_ack"),
         c.type \in {"pipe_term", "hiccup"} => ~ Has(q, "pipe_term")
  PROVE  Ordered(Append(q, c))
<1> DEFINE r == Append(q, c)
<1>1. /\ r \in Seq(Cmd) /\ Len(r) = Len(q) + 1 /\ Len(q) \in Nat
      /\ \A i \in 1..Len(q) : r[i] = q[i]
      /\ r[Len(q) + 1] = c
  BY AppendProperties, LenProperties
<1> HIDE DEF r
<1> SUFFICES ASSUME NEW i \in 1..Len(r), NEW j \in 1..Len(r)
             PROVE  /\ r[i].type = "pipe_term" /\ i < j =>
                         r[j].type # "pipe_term" /\ r[j].type # "hiccup"
                    /\ r[i].type = "pipe_term_ack" => j <= i
  BY DEF Ordered, r
<1>2. CASE i \in 1..Len(q) /\ j \in 1..Len(q)
  BY <1>1, <1>2 DEF Ordered
<1>3. CASE i \in 1..Len(q) /\ j = Len(q) + 1
  BY <1>1, <1>3 DEF Has
<1>4. CASE i = Len(q) + 1
  BY <1>1, <1>4
<1> QED BY <1>1, <1>2, <1>3, <1>4

(* An empty queue holds nothing.                                           *)
LEMMA EmptyQueue ==
  /\ <<>> \in Seq(Cmd) /\ Ordered(<<>>) /\ Rising(<<>>)
  /\ \A t : ~ Has(<<>>, t)
  /\ \A a : ~ Brings(<<>>, a)
  /\ \A l, h : Between(<<>>, l, h)
BY DEF Ordered, Rising, Has, Brings, Between

(* The first command taken.                                                *)
LEMMA TailQueue ==
  ASSUME NEW q \in Seq(Cmd), q # <<>>
  PROVE  /\ Head(q) \in Cmd /\ Tail(q) \in Seq(Cmd)
         /\ Has(q, Head(q).type)
         /\ \A t : Has(q, t) <=> Has(Tail(q), t) \/ Head(q).type = t
         /\ \A a : Brings(q, a) <=>
              Brings(Tail(q), a) \/ (Head(q).type = "hiccup" /\ Head(q).arg = a)
<1> DEFINE r == Tail(q)
<1>1. /\ r \in Seq(Cmd) /\ Len(r) = Len(q) - 1 /\ Len(q) \in Nat \ {0}
      /\ \A i \in 1..Len(r) : r[i] = q[i + 1]
      /\ Head(q) \in Cmd /\ Head(q) = q[1]
  BY HeadTailProperties, EmptySeq, LenProperties
<1> HIDE DEF r
<1>2. /\ 1 \in 1..Len(q)
      /\ \A i \in 1..Len(r) : i + 1 \in 1..Len(q)
      /\ \A i \in 1..Len(q) : i = 1 \/ (i - 1 \in 1..Len(r) /\ q[i] = r[i - 1])
  <2>1. \A i \in 1..Len(q) : i = 1 \/ (i - 1 \in 1..Len(r) /\ (i - 1) + 1 = i)
    BY <1>1
  <2> QED BY <1>1, <2>1
<1> DEFINE h == Head(q)
<1> HIDE DEF h
<1>3. h = q[1] BY <1>1 DEF h
<1>4. \A t : Has(q, t) <=> Has(r, t) \/ h.type = t
  BY <1>1, <1>2, <1>3 DEF Has
<1>5. \A a : Brings(q, a) <=> Brings(r, a) \/ (h.type = "hiccup" /\ h.arg = a)
  BY <1>1, <1>2, <1>3 DEF Brings
<1> QED BY <1>1, <1>4, <1>5 DEF r, h

(* What follows from the order when a command is taken.                    *)
LEMMA TailOrdered ==
  ASSUME NEW q \in Seq(Cmd), q # <<>>, Ordered(q)
  PROVE  /\ Ordered(Tail(q))
         /\ Head(q).type = "pipe_term" =>
              ~ Has(Tail(q), "pipe_term") /\ ~ Has(q, "hiccup")
         /\ Head(q).type = "pipe_term_ack" => Tail(q) = <<>>
<1> DEFINE r == Tail(q)
<1>1. /\ r \in Seq(Cmd) /\ Len(r) = Len(q) - 1 /\ Len(q) \in Nat \ {0}
      /\ \A i \in 1..Len(r) : r[i] = q[i + 1]
      /\ Head(q) \in Cmd /\ Head(q) = q[1]
  BY HeadTailProperties, EmptySeq, LenProperties
<1> HIDE DEF r
<1>2. /\ 1 \in 1..Len(q)
      /\ \A i \in 1..Len(r) : i + 1 \in 1..Len(q) /\ 1 < i + 1
      /\ \A i, j \in 1..Len(r) : (i < j <=> i + 1 < j + 1) /\ (j <= i <=> j + 1 <= i + 1)
  BY <1>1
<1>3. Ordered(r)
  <2> SUFFICES ASSUME NEW i \in 1..Len(r), NEW j \in 1..Len(r)
               PROVE  /\ r[i].type = "pipe_term" /\ i < j =>
                           r[j].type # "pipe_term" /\ r[j].type # "hiccup"
                      /\ r[i].type = "pipe_term_ack" => j <= i
    BY DEF Ordered
  <2>1. /\ r[i] = q[i + 1] /\ r[j] = q[j + 1]
        /\ i + 1 \in 1..Len(q) /\ j + 1 \in 1..Len(q)
        /\ (i < j <=> i + 1 < j + 1) /\ (j <= i <=> j + 1 <= i + 1)
    BY <1>1, <1>2
  <2> QED BY <2>1 DEF Ordered
<1>4. ASSUME Head(q).type = "pipe_term"
      PROVE  ~ Has(r, "pipe_term") /\ ~ Has(q, "hiccup")
  <2>1. \A j \in 1..Len(q) : 1 < j => q[j].type # "pipe_term" /\ q[j].type # "hiccup"
    BY <1>1, <1>2, <1>4 DEF Ordered
  <2>2. ~ Has(r, "pipe_term")
    BY <1>1, <1>2, <2>1 DEF Has
  <2>3. \A j \in 1..Len(q) : j = 1 \/ 1 < j
    BY <1>1
  <2>4. q[1].type # "hiccup"
    BY <1>1, <1>4
  <2> QED BY <2>1, <2>2, <2>3, <2>4 DEF Has
<1>5. ASSUME Head(q).type = "pipe_term_ack" PROVE r = <<>>
  <2>1. Len(q) <= 1
    BY <1>1, <1>2, <1>5 DEF Ordered
  <2>2. Len(r) = 0
    BY <1>1, <2>1
  <2> QED BY <1>1, <2>2, EmptySeq
<1> QED BY <1>3, <1>4, <1>5 DEF r

(* A rising queue, a command longer.                                       *)
LEMMA AppendRising ==
  ASSUME NEW q \in Seq(Cmd), NEW c \in Cmd, Rising(q),
         c.type = "hiccup" => \A a \in Nat : Brings(q, a) => a < c.arg,
         NEW l \in Nat, NEW h \in Nat, Between(q, l, h),
         c.type = "activate_write" => h <= c.arg /\ l <= h
  PROVE  /\ Rising(Append(q, c))
         /\ \A k \in Nat : h <= k /\ (c.type = "activate_write" => c.arg <= k) =>
              Between(Append(q, c), l, k)
<1> DEFINE r == Append(q, c)
<1>1. /\ r \in Seq(Cmd) /\ Len(r) = Len(q) + 1 /\ Len(q) \in Nat
      /\ \A i \in 1..Len(q) : r[i] = q[i] /\ q[i].arg \in Nat
      /\ r[Len(q) + 1] = c /\ c.arg \in Nat
  <2>1. \A i \in 1..Len(q) : q[i] \in Cmd
    BY ElementOfSeq
  <2> QED BY <2>1, AppendProperties, LenProperties DEF Cmd
<1> HIDE DEF r
<1>2. Rising(r)
  <2> SUFFICES ASSUME NEW i \in 1..Len(r), NEW j \in 1..Len(r), i < j
               PROVE  /\ r[i].type = "hiccup" /\ r[j].type = "hiccup" =>
                           r[i].arg < r[j].arg
                      /\ r[i].type = "activate_write" /\ r[j].type = "activate_write" =>
                           r[i].arg <= r[j].arg
    BY DEF Rising
  <2>1. i \in 1..Len(q)
    BY <1>1
  <2>2. CASE j \in 1..Len(q)
    BY <1>1, <2>1, <2>2 DEF Rising
  <2>3. CASE j = Len(q) + 1
    <3>1. r[j] = c /\ r[i] = q[i] /\ q[i].arg \in Nat
      BY <1>1, <2>1, <2>3
    <3>2. q[i].type = "hiccup" => Brings(q, q[i].arg)
      BY <2>1 DEF Brings
    <3>3. q[i].type = "activate_write" => q[i].arg <= h
      BY <2>1 DEF Between
    <3> QED BY <1>1, <3>1, <3>2, <3>3
  <2>4. j \in 1..Len(q) \/ j = Len(q) + 1
    BY <1>1
  <2> QED BY <2>2, <2>3, <2>4
<1>3. ASSUME NEW k \in Nat, h <= k, c.type = "activate_write" => c.arg <= k,
             NEW i \in 1..Len(r), r[i].type = "activate_write"
      PROVE  l <= r[i].arg /\ r[i].arg <= k
  <2>1. CASE i \in 1..Len(q)
    <3>1. l <= q[i].arg /\ q[i].arg <= h /\ r[i] = q[i] /\ q[i].arg \in Nat
      BY <1>1, <1>3, <2>1 DEF Between
    <3> QED BY <1>3, <3>1
  <2>2. CASE i = Len(q) + 1
    BY <1>1, <1>3, <2>2
  <2> QED BY <1>1, <2>1, <2>2
<1> QED BY <1>2, <1>3 DEF r, Between

(* A rising queue, without its first command.                              *)
LEMMA TailRising ==
  ASSUME NEW q \in Seq(Cmd), q # <<>>, Rising(q), NEW l, NEW h, Between(q, l, h)
  PROVE  /\ Rising(Tail(q))
         /\ Between(Tail(q), l, h)
         /\ Head(q).type = "hiccup" =>
              \A a : Brings(Tail(q), a) => Head(q).arg < a
         /\ Head(q).type = "activate_write" =>
              /\ l <= Head(q).arg /\ Head(q).arg <= h
              /\ Between(Tail(q), Head(q).arg, h)
<1> DEFINE r == Tail(q)
<1>1. /\ r \in Seq(Cmd) /\ Len(r) = Len(q) - 1 /\ Len(q) \in Nat \ {0}
      /\ \A i \in 1..Len(r) : r[i] = q[i + 1]
      /\ Head(q) \in Cmd /\ Head(q) = q[1]
  BY HeadTailProperties, EmptySeq, LenProperties
<1> HIDE DEF r
<1>2. /\ 1 \in 1..Len(q)
      /\ \A i \in 1..Len(r) : i + 1 \in 1..Len(q) /\ 1 < i + 1
      /\ \A i, j \in 1..Len(r) : i < j <=> i + 1 < j + 1
  BY <1>1
<1>3. Rising(r)
  <2> SUFFICES ASSUME NEW i \in 1..Len(r), NEW j \in 1..Len(r), i < j
               PROVE  /\ r[i].type = "hiccup" /\ r[j].type = "hiccup" =>
                           r[i].arg < r[j].arg
                      /\ r[i].type = "activate_write" /\ r[j].type = "activate_write" =>
                           r[i].arg <= r[j].arg
    BY DEF Rising
  <2>1. /\ r[i] = q[i + 1] /\ r[j] = q[j + 1] /\ i + 1 < j + 1
        /\ i + 1 \in 1..Len(q) /\ j + 1 \in 1..Len(q)
    BY <1>1, <1>2
  <2> QED BY <2>1 DEF Rising
<1>4. Between(r, l, h)
  BY <1>1, <1>2 DEF Between
<1>5. ASSUME Head(q).type = "hiccup", NEW a, Brings(r, a)
      PROVE  Head(q).arg < a
  <2>1. PICK i \in 1..Len(r) : r[i].type = "hiccup" /\ r[i].arg = a
    BY <1>5 DEF Brings
  <2>2. /\ q[i + 1] = r[i] /\ i + 1 \in 1..Len(q)
        /\ 1 \in 1..Len(q) /\ 1 < i + 1 /\ q[1].type = "hiccup"
    BY <1>1, <1>2, <1>5
  <2>3. q[1].arg < q[i + 1].arg BY <2>1, <2>2 DEF Rising
  <2> QED BY <1>1, <2>1, <2>2, <2>3
<1>6. Head(q).type = "activate_write" =>
        /\ l <= Head(q).arg /\ Head(q).arg <= h
        /\ Between(r, Head(q).arg, h)
  BY <1>1, <1>2 DEF Rising, Between
<1> QED BY <1>3, <1>4, <1>5, <1>6 DEF r

-----------------------------------------------------------------------------
(***************************************************************************)
(* Counting the messages in a sequence of items.                           *)
(***************************************************************************)
IsLast(x) == ~ x.more /\ ~ IsDelimiter(x)
Lasts(items) == {i \in 1..Len(items) : IsLast(items[i])}

(* The count is that of the last parts, a finite set.                      *)
LEMMA CountIsCardinality ==
  ASSUME NEW s \in Seq(Item)
  PROVE  /\ CountMessages(s) = Cardinality(Lasts(s))
         /\ IsFiniteSet(Lasts(s))
         /\ CountMessages(s) \in Nat
<1>1. DOMAIN s = 1..Len(s) /\ Len(s) \in Nat
  BY LenProperties
<1>2. CountMessages(s) = Cardinality(Lasts(s))
  <2>1. {i \in DOMAIN s : ~s[i].more /\ ~IsDelimiter(s[i])} = Lasts(s)
    BY <1>1 DEF Lasts, IsLast
  <2> QED BY <2>1 DEF CountMessages
<1>3. IsFiniteSet(1..Len(s))
  BY <1>1, FS_Interval
<1>4. IsFiniteSet(Lasts(s))
  BY <1>3, FS_Subset DEF Lasts
<1> QED BY <1>2, <1>4, FS_CardinalityType

(* Nothing is counted in an empty pipe.                                    *)
LEMMA CountEmpty == CountMessages(<<>>) = 0
<1>1. <<>> \in Seq(Item) /\ Len(<<>>) = 0
  BY EmptySeq
<1>2. Lasts(<<>>) = {}
  BY <1>1 DEF Lasts
<1> QED BY <1>1, <1>2, CountIsCardinality, FS_EmptySet

(* An item added at the end.                                               *)
LEMMA CountAppend ==
  ASSUME NEW s \in Seq(Item), NEW x \in Item
  PROVE  CountMessages(Append(s, x)) =
           CountMessages(s) + IF IsLast(x) THEN 1 ELSE 0
<1> DEFINE r == Append(s, x)
<1>1. /\ r \in Seq(Item) /\ Len(r) = Len(s) + 1 /\ Len(s) \in Nat
      /\ \A i \in 1..Len(s) : r[i] = s[i]
      /\ r[Len(s) + 1] = x
  BY AppendProperties, LenProperties
<1> HIDE DEF r
<1>2. Len(s) + 1 \notin Lasts(s)
  BY <1>1 DEF Lasts
<1>3. \A i \in 1..Len(r) : i \in 1..Len(s) \/ i = Len(s) + 1
  BY <1>1
<1>4. Len(s) + 1 \in 1..Len(r) /\ \A i \in 1..Len(s) : i \in 1..Len(r)
  BY <1>1
<1>5. CASE IsLast(x)
  <2>1. Lasts(r) = Lasts(s) \cup {Len(s) + 1}
    BY <1>1, <1>3, <1>4, <1>5 DEF Lasts
  <2>2. Cardinality(Lasts(s) \cup {Len(s) + 1}) = Cardinality(Lasts(s)) + 1
    BY <1>2, CountIsCardinality, FS_AddElement
  <2> QED BY <1>1, <1>5, <2>1, <2>2, CountIsCardinality DEF r
<1>6. CASE ~ IsLast(x)
  <2>1. Lasts(r) = Lasts(s)
    BY <1>1, <1>3, <1>4, <1>6 DEF Lasts
  <2>2. CountMessages(r) = CountMessages(s) /\ CountMessages(s) \in Nat
    BY <1>1, <2>1, CountIsCardinality
  <2> QED BY <1>6, <2>2 DEF r
<1> QED BY <1>5, <1>6

(* The first item taken: the last parts move down by one.                  *)
LEMMA CountTail ==
  ASSUME NEW s \in Seq(Item), s # <<>>
  PROVE  CountMessages(s) =
           CountMessages(Tail(s)) + IF IsLast(s[1]) THEN 1 ELSE 0
<1> DEFINE r == Tail(s)
<1>1. /\ r \in Seq(Item) /\ Len(r) = Len(s) - 1 /\ Len(s) \in Nat \ {0}
      /\ \A i \in 1..Len(r) : r[i] = s[i + 1]
  BY HeadTailProperties, EmptySeq, LenProperties
<1> HIDE DEF r
<1> DEFINE S == Lasts(r)
           T == Lasts(s) \ {1}
           f == [i \in S |-> i + 1]
<1>2. \A i \in S : i \in Nat /\ i + 1 \in T
  BY <1>1 DEF Lasts
<1>3. \A j \in T : j \in Nat /\ j - 1 \in S /\ (j - 1) + 1 = j
  BY <1>1 DEF Lasts
<1> HIDE DEF S, T
<1>4. f \in [S -> T]
  BY <1>2
<1>5. \A a, b \in S : f[a] = f[b] => a = b
  BY <1>2
<1>6. \A j \in T : \E a \in S : f[a] = j
  BY <1>3
<1> HIDE DEF f
<1>7. f \in Bijection(S, T)
  BY <1>4, <1>5, <1>6 DEF Bijection, Injection, Surjection, IsInjective
<1>8. ExistsBijection(S, T)
  BY <1>7 DEF ExistsBijection
<1>9. IsFiniteSet(S)
  BY <1>1, CountIsCardinality DEF S
<1>10. Cardinality(T) = Cardinality(S)
  BY <1>8, <1>9, FS_Bijection
<1>11. /\ Cardinality(S) = CountMessages(r) /\ CountMessages(r) \in Nat
       /\ Cardinality(Lasts(s)) = CountMessages(s) /\ CountMessages(s) \in Nat
       /\ IsFiniteSet(Lasts(s))
  BY <1>1, CountIsCardinality DEF S
<1>12. Cardinality(T) = IF 1 \in Lasts(s) THEN Cardinality(Lasts(s)) - 1
                        ELSE Cardinality(Lasts(s))
  BY <1>11, FS_RemoveElement DEF T
<1>13. 1 \in Lasts(s) <=> IsLast(s[1])
  BY <1>1 DEF Lasts
<1> QED BY <1>10, <1>11, <1>12, <1>13 DEF r

(* Parts to be continued are not counted.                                  *)
LEMMA CountPrefix ==
  ASSUME NEW s \in Seq(Item), NEW k \in 0..Len(s),
         \A i \in 1..Len(s) : i > k => s[i].more
  PROVE  CountMessages(SubSeq(s, 1, k)) = CountMessages(s)
<1> DEFINE r == SubSeq(s, 1, k)
<1>1. /\ Len(s) \in Nat /\ k \in Nat /\ k <= Len(s)
      /\ \A i \in 1..k : s[i] \in Item
  BY LenProperties, ElementOfSeq
<1>2. r \in Seq(Item) /\ Len(r) = k /\ \A i \in 1..k : r[i] = s[i]
  BY <1>1, SubSeqProperties
<1> HIDE DEF r
<1>3. Lasts(r) = Lasts(s)
  <2>1. \A i \in 1..Len(s) : IsLast(s[i]) => i \in 1..k
    BY <1>1 DEF IsLast
  <2>2. \A i \in 1..k : i \in 1..Len(s)
    BY <1>1
  <2> QED BY <1>2, <2>1, <2>2 DEF Lasts
<1> QED BY <1>2, <1>3, CountIsCardinality DEF r

-----------------------------------------------------------------------------
(***************************************************************************)
(* What the operations do to a ypipe.                                      *)
(***************************************************************************)

(* A new ypipe.                                                            *)
LEMMA NewEffect ==
  /\ NewUpipe \in Ypipe /\ UpipeOK(NewUpipe) /\ ~ Delimited(NewUpipe)
  /\ NewUpipe.items = <<>> /\ NewUpipe.flushed = 0
  /\ \A n \in Nat : Stream(NewUpipe, n, n)
<1>1. <<>> \in Seq(Item) /\ Len(<<>>) = 0
  BY EmptySeq
<1>2. /\ NewUpipe.items = <<>> /\ NewUpipe.complete = 0 /\ NewUpipe.flushed = 0
      /\ NewUpipe \in Ypipe
  BY <1>1 DEF NewUpipe, Ypipe
<1>3. UpipeOK(NewUpipe) /\ ~ Delimited(NewUpipe)
  BY <1>1, <1>2 DEF UpipeOK, Delimited
<1>4. ASSUME NEW n \in Nat PROVE Stream(NewUpipe, n, n)
  BY <1>1, <1>2, CountEmpty DEF Stream, Numbered
<1> QED BY <1>2, <1>3, <1>4

(* The numbering after an item that continues it.                          *)
LEMMA NumberedAppend ==
  ASSUME NEW s \in Seq(Item), NEW x \in Item, NEW n \in Nat, Numbered(s, n),
         \A i \in 1..Len(s) : ~ IsDelimiter(s[i]),
         IsDelimiter(x) => ~ x.more,
         Len(s) = 0 => x.msg \in {0, n},
         Len(s) > 0 => IF s[Len(s)].more THEN x.msg = s[Len(s)].msg
                       ELSE x.msg \in {0, s[Len(s)].msg + 1}
  PROVE  Numbered(Append(s, x), n)
<1> DEFINE r == Append(s, x)
<1>1. /\ r \in Seq(Item) /\ Len(r) = Len(s) + 1 /\ Len(s) \in Nat
      /\ \A i \in 1..Len(s) : r[i] = s[i]
      /\ r[Len(s) + 1] = x
  BY AppendProperties, LenProperties
<1> HIDE DEF r
<1>2. Len(r) > 0 => r[1].msg \in {0, n}
  <2>1. CASE Len(s) = 0
    BY <1>1, <2>1
  <2>2. CASE Len(s) > 0
    BY <1>1, <2>2 DEF Numbered
  <2> QED BY <1>1, <2>1, <2>2
<1>3. ASSUME NEW i \in 1..Len(r), IsDelimiter(r[i])
      PROVE  i = Len(r) /\ ~ r[i].more
  BY <1>1, <1>3
<1>4. ASSUME NEW i \in 1..Len(r), i > 1
      PROVE  IF r[i - 1].more THEN r[i].msg = r[i - 1].msg
             ELSE r[i].msg \in {0, r[i - 1].msg + 1}
  <2>1. CASE i \in 1..Len(s)
    <3>1. i - 1 \in 1..Len(s)
      BY <1>4, <2>1
    <3> QED BY <1>1, <1>4, <2>1, <3>1 DEF Numbered
  <2>2. CASE i = Len(s) + 1
    <3>1. i - 1 = Len(s) /\ Len(s) \in 1..Len(s) /\ Len(s) > 0
      BY <1>1, <1>4, <2>2
    <3>2. r[i] = x /\ r[i - 1] = s[Len(s)]
      BY <1>1, <2>2, <3>1
    <3> QED BY <3>1, <3>2
  <2>3. i \in 1..Len(s) \/ i = Len(s) + 1
    BY <1>1
  <2> QED BY <2>1, <2>2, <2>3
<1>5. Numbered(r, n)
  BY <1>2, <1>3, <1>4 DEF Numbered
<1> QED BY <1>5 DEF r

(* A delimiter is the last complete item.                                  *)
LEMMA DelimiterIsLast ==
  ASSUME NEW u \in Ypipe, UpipeOK(u), NEW n \in Nat, NEW w \in Nat, Stream(u, n, w),
         NEW i \in 1..Len(u.items), IsDelimiter(u.items[i])
  PROVE  i = Len(u.items) /\ u.complete = i /\ Delimited(u)
<1>1. i = Len(u.items) /\ ~ u.items[i].more
  BY DEF Stream, Numbered
<1>2. /\ u.complete \in Nat /\ u.complete <= Len(u.items) /\ Len(u.items) \in Nat
      /\ ~ i > u.complete
  BY <1>1, LenProperties DEF UpipeOK, Ypipe
<1> QED BY <1>1, <1>2 DEF Delimited

(* write: a part of message w + 1, the last or not.                        *)
LEMMA WriteEffect ==
  ASSUME NEW u \in Ypipe, UpipeOK(u), NEW n \in Nat, NEW w \in Nat, Stream(u, n, w),
         ~ Delimited(u), NEW more \in BOOLEAN
  PROVE  LET v == UWrite(u, [msg |-> w + 1, more |-> more], more)
         IN  /\ v \in Ypipe /\ UpipeOK(v) /\ ~ Delimited(v)
             /\ Stream(v, n, w + IF more THEN 0 ELSE 1)
             /\ v.flushed = u.flushed
             /\ u.flushed > 0 => v.items[1] = u.items[1]
<1> DEFINE x == [msg |-> w + 1, more |-> more]
           v == UWrite(u, x, more)
           s == u.items
           r == Append(s, x)
           k == u.complete
<1>0. x \in Item /\ x.msg = w + 1 /\ x.more = more /\ ~ IsDelimiter(x)
  BY DEF Item, IsDelimiter
<1>1. /\ s \in Seq(Item) /\ Len(s) \in Nat /\ k \in Nat /\ k <= Len(s)
      /\ u.flushed \in Nat /\ u.flushed <= k
  BY LenProperties DEF Ypipe, UpipeOK
<1>2. /\ r \in Seq(Item) /\ Len(r) = Len(s) + 1
      /\ \A i \in 1..Len(s) : r[i] = s[i]
      /\ r[Len(s) + 1] = x
  BY <1>0, <1>1, AppendProperties
<1>3. /\ v.items = r /\ v.complete = (IF more THEN k ELSE Len(s) + 1)
      /\ v.flushed = u.flushed /\ v \in Ypipe
  <2> DEFINE c == IF more THEN k ELSE Len(s) + 1
  <2>1. v = [u EXCEPT !.items = r, !.complete = c]
    BY DEF UWrite
  <2>2. c \in Nat
    BY <1>1
  <2> HIDE DEF v, r, c
  <2>3. v.items = r /\ v.complete = c /\ v.flushed = u.flushed /\ v \in Ypipe
    BY <1>2, <2>1, <2>2 DEF Ypipe
  <2> QED BY <2>3 DEF c
<1> HIDE DEF x, v, r, s, k
<1>4. UpipeOK(v)
  <2>1. ASSUME NEW i \in 1..Len(r), i > v.complete PROVE r[i].more
    <3>1. CASE more
      <4>1. i \in 1..Len(s) => s[i].more
        BY <1>3, <2>1, <3>1 DEF UpipeOK, s, k
      <4>2. i \in 1..Len(s) \/ i = Len(s) + 1
        BY <1>1, <1>2
      <4>3. x.more
        BY <1>0, <3>1
      <4> QED BY <1>2, <4>1, <4>2, <4>3
    <3>2. CASE ~ more
      BY <1>1, <1>2, <1>3, <2>1, <3>2
    <3> QED BY <3>1, <3>2
  <2>2. v.complete > 0 => ~ r[v.complete].more
    <3>1. CASE more
      BY <1>1, <1>2, <1>3, <3>1 DEF UpipeOK, s, k
    <3>2. CASE ~ more
      BY <1>0, <1>1, <1>2, <1>3, <3>2
    <3> QED BY <3>1, <3>2
  <2>3. v.flushed > 0 => ~ r[v.flushed].more
    <3>1. u.flushed > 0 => u.flushed \in 1..Len(s) /\ ~ s[u.flushed].more
      BY <1>1 DEF UpipeOK, s
    <3> QED BY <1>2, <1>3, <3>1
  <2>4. v.flushed <= v.complete /\ v.complete <= Len(r)
    BY <1>1, <1>2, <1>3
  <2> QED BY <1>3, <2>1, <2>2, <2>3, <2>4 DEF UpipeOK
<1>5. \A i \in 1..Len(s) : ~ IsDelimiter(s[i])
  BY DelimiterIsLast DEF s
<1>6. ~ Delimited(v)
  <2>1. v.complete > 0 => v.complete \in 1..Len(s) \/ v.complete = Len(s) + 1
    BY <1>1, <1>3
  <2> QED BY <1>0, <1>1, <1>2, <1>3, <1>5, <2>1 DEF Delimited
<1>7. CountMessages(r) = CountMessages(s) + (IF more THEN 0 ELSE 1)
        /\ CountMessages(s) \in Nat /\ n + CountMessages(s) = w
  <2>1. IsLast(x) <=> ~ more
    BY <1>0 DEF IsLast
  <2>2. CountMessages(r) = CountMessages(s) + IF IsLast(x) THEN 1 ELSE 0
    BY <1>0, <1>1, CountAppend DEF r
  <2>3. CountMessages(s) \in Nat /\ n + CountMessages(s) = w
    BY <1>1, CountIsCardinality DEF Stream, s
  <2> QED BY <2>1, <2>2, <2>3
<1>8. Numbered(r, n + 1)
  <2>1. Numbered(s, n + 1)
    BY DEF Stream, s
  <2>2. Len(s) = 0 => x.msg \in {0, n + 1}
    <3>1. Len(s) = 0 => s = <<>>
      BY <1>1, EmptySeq
    <3> QED BY <1>0, <1>7, <3>1, CountEmpty
  <2>3. ASSUME Len(s) > 0
        PROVE  IF s[Len(s)].more THEN x.msg = s[Len(s)].msg
               ELSE x.msg \in {0, s[Len(s)].msg + 1}
    <3>0. Len(s) \in 1..Len(s)
      BY <1>1, <2>3
    <3>1. CASE Len(s) > k
      BY <1>0, <3>0, <3>1 DEF UpipeOK, Stream, s, k
    <3>2. CASE Len(s) = k
      BY <1>0, <1>5, <3>0, <3>2, <2>3 DEF UpipeOK, Stream, s, k
    <3> QED BY <1>1, <3>1, <3>2
  <2> QED BY <1>0, <1>1, <1>5, <2>1, <2>2, <2>3, NumberedAppend DEF r
<1>9. Stream(v, n, w + IF more THEN 0 ELSE 1)
  <2>1. n + CountMessages(r) = w + IF more THEN 0 ELSE 1
    BY <1>7
  <2>2. v.complete > 0 /\ ~ IsDelimiter(r[v.complete]) =>
          r[v.complete].msg = w + IF more THEN 0 ELSE 1
    <3>1. CASE more
      <4>1. k > 0 => k \in 1..Len(s) /\ r[k] = s[k]
        BY <1>1, <1>2
      <4>2. k > 0 /\ ~ IsDelimiter(s[k]) => s[k].msg = w
        BY DEF Stream, s, k
      <4> QED BY <1>3, <3>1, <4>1, <4>2
    <3>2. CASE ~ more
      BY <1>0, <1>2, <1>3, <3>2
    <3> QED BY <3>1, <3>2
  <2>3. ASSUME NEW i \in 1..Len(r), i > v.complete
        PROVE  r[i].msg = (w + IF more THEN 0 ELSE 1) + 1
    <3>1. CASE more
      <4>1. i \in 1..Len(s) => s[i].msg = w + 1
        BY <1>3, <2>3, <3>1 DEF Stream, s, k
      <4> QED BY <1>0, <1>1, <1>2, <3>1, <4>1
    <3>2. CASE ~ more
      BY <1>1, <1>2, <1>3, <2>3, <3>2
    <3> QED BY <3>1, <3>2
  <2> QED BY <1>3, <1>8, <2>1, <2>2, <2>3 DEF Stream
<1>10. u.flushed > 0 => v.items[1] = u.items[1]
  BY <1>1, <1>2, <1>3 DEF s
<1> QED BY <1>3, <1>4, <1>6, <1>9, <1>10 DEF v, x

(* rollback: what is left are the complete messages, all of them.          *)
LEMMA RollbackEffect ==
  ASSUME NEW u \in Ypipe, UpipeOK(u)
  PROVE  LET v == URollback(u)
         IN  /\ v \in Ypipe /\ UpipeOK(v) /\ (Delimited(v) <=> Delimited(u))
             /\ Len(v.items) = v.complete
             /\ \A n, w \in Nat : Stream(u, n, w) => Stream(v, n, w)
             /\ v.flushed = u.flushed
             /\ u.flushed > 0 => v.items[1] = u.items[1]
<1> DEFINE v == URollback(u)
           s == u.items
           k == u.complete
           r == SubSeq(s, 1, k)
<1>1. /\ s \in Seq(Item) /\ Len(s) \in Nat /\ k \in Nat /\ k <= Len(s)
      /\ u.flushed \in Nat /\ u.flushed <= k
  BY LenProperties DEF Ypipe, UpipeOK
<1>2. r \in Seq(Item) /\ Len(r) = k /\ \A i \in 1..k : r[i] = s[i]
  <2>1. \A i \in 1..k : s[i] \in Item
    BY <1>1, ElementOfSeq
  <2> QED BY <1>1, <2>1, SubSeqProperties
<1>3. v.items = r /\ v.complete = k /\ v.flushed = u.flushed /\ v \in Ypipe
  <2>1. v = [u EXCEPT !.items = r]
    BY DEF URollback
  <2> HIDE DEF v, r
  <2> QED BY <1>2, <2>1 DEF Ypipe
<1>4. CountMessages(r) = CountMessages(s)
  BY <1>1, CountPrefix DEF UpipeOK
<1> HIDE DEF v, r, s, k
<1>5. UpipeOK(v)
  <2>1. \A i \in 1..Len(r) : ~ i > k
    BY <1>1, <1>2
  <2>2. k > 0 => ~ r[k].more
    BY <1>1, <1>2 DEF UpipeOK, s, k
  <2>3. u.flushed > 0 => ~ r[u.flushed].more
    <3> SUFFICES ASSUME u.flushed > 0 PROVE ~ r[u.flushed].more
      OBVIOUS
    <3>1. ~ s[u.flushed].more BY DEF UpipeOK, s
    <3>2. u.flushed \in 1..k BY <1>1
    <3> QED BY <1>2, <3>1, <3>2
  <2> QED BY <1>1, <1>2, <1>3, <2>1, <2>2, <2>3 DEF UpipeOK
<1>6. Delimited(v) <=> Delimited(u)
  <2>1. k > 0 => r[k] = s[k]
    BY <1>1, <1>2
  <2> QED BY <1>3, <2>1 DEF Delimited, s, k
<1>7. ASSUME NEW n \in Nat, NEW w \in Nat, Stream(u, n, w) PROVE Stream(v, n, w)
  <2>1. Numbered(r, n + 1)
    <3>0. Numbered(s, n + 1) /\ \A i \in 1..k : i \in 1..Len(s)
      BY <1>1, <1>7 DEF Stream, s
    <3>1. Len(r) > 0 => r[1].msg \in {0, n + 1}
      BY <1>1, <1>2, <3>0 DEF Numbered
    <3>2. \A i \in 1..Len(r) : IsDelimiter(r[i]) => i = Len(r) /\ ~ r[i].more
      BY <1>1, <1>2, <3>0 DEF Numbered
    <3>3. ASSUME NEW i \in 1..Len(r), i > 1
          PROVE  IF r[i - 1].more THEN r[i].msg = r[i - 1].msg
                 ELSE r[i].msg \in {0, r[i - 1].msg + 1}
      <4>1. i \in 1..Len(s) /\ i - 1 \in 1..k /\ r[i] = s[i] /\ r[i - 1] = s[i - 1]
        BY <1>1, <1>2, <3>3
      <4> QED BY <3>0, <3>3, <4>1 DEF Numbered
    <3> QED BY <3>1, <3>2, <3>3 DEF Numbered
  <2>2. n + CountMessages(r) = w
    BY <1>4, <1>7 DEF Stream, s
  <2>3. k > 0 /\ ~ IsDelimiter(r[k]) => r[k].msg = w
    BY <1>1, <1>2, <1>7 DEF Stream, s, k
  <2>4. \A i \in 1..Len(r) : ~ i > k
    BY <1>1, <1>2
  <2> QED BY <1>3, <2>1, <2>2, <2>3, <2>4 DEF Stream
<1>8. u.flushed > 0 => v.items[1] = u.items[1]
  BY <1>1, <1>2, <1>3 DEF s
<1> QED BY <1>2, <1>3, <1>5, <1>6, <1>7, <1>8 DEF v

(* The delimiter, after a rollback.                                        *)
LEMMA DelimiterEffect ==
  ASSUME NEW u \in Ypipe, UpipeOK(u), NEW n \in Nat, NEW w \in Nat, Stream(u, n, w),
         ~ Delimited(u), Len(u.items) = u.complete
  PROVE  LET v == UWrite(u, Delimiter, FALSE)
         IN  /\ v \in Ypipe /\ UpipeOK(v) /\ Stream(v, n, w)
             /\ v.flushed = u.flushed
             /\ u.flushed > 0 => v.items[1] = u.items[1]
<1> DEFINE x == Delimiter
           v == UWrite(u, x, FALSE)
           s == u.items
           r == Append(s, x)
           k == u.complete
<1>0. x \in Item /\ x.msg = 0 /\ x.more = FALSE /\ IsDelimiter(x)
  BY DEF Item, IsDelimiter, Delimiter
<1>1. /\ s \in Seq(Item) /\ Len(s) \in Nat /\ k \in Nat /\ k = Len(s)
      /\ u.flushed \in Nat /\ u.flushed <= k
  BY LenProperties DEF Ypipe, UpipeOK
<1>2. /\ r \in Seq(Item) /\ Len(r) = k + 1
      /\ \A i \in 1..k : r[i] = s[i]
      /\ r[k + 1] = x
  BY <1>0, <1>1, AppendProperties
<1>3. /\ v.items = r /\ v.complete = k + 1
      /\ v.flushed = u.flushed /\ v \in Ypipe
  <2> DEFINE c == k + 1
  <2>1. v = [u EXCEPT !.items = r, !.complete = c]
    BY <1>1 DEF UWrite
  <2>2. c \in Nat
    BY <1>1
  <2> HIDE DEF v, r, c
  <2>3. v.items = r /\ v.complete = c /\ v.flushed = u.flushed /\ v \in Ypipe
    BY <1>2, <2>1, <2>2 DEF Ypipe
  <2> QED BY <2>3 DEF c
<1> HIDE DEF x, v, r, s, k
<1>4. UpipeOK(v)
  <2>1. \A i \in 1..Len(r) : ~ i > k + 1
    BY <1>1, <1>2
  <2>2. ~ r[k + 1].more
    BY <1>0, <1>2
  <2>3. u.flushed > 0 => ~ r[u.flushed].more
    <3> SUFFICES ASSUME u.flushed > 0 PROVE ~ r[u.flushed].more
      OBVIOUS
    <3>1. ~ s[u.flushed].more BY DEF UpipeOK, s
    <3>2. u.flushed \in 1..k BY <1>1
    <3> QED BY <1>2, <3>1, <3>2
  <2> QED BY <1>1, <1>2, <1>3, <2>1, <2>2, <2>3 DEF UpipeOK
<1>5. \A i \in 1..Len(s) : ~ IsDelimiter(s[i])
  BY DelimiterIsLast DEF s
<1>6. CountMessages(r) = CountMessages(s)
  <2>1. ~ IsLast(x)
    BY <1>0 DEF IsLast
  <2>2. CountMessages(r) = CountMessages(s) + IF IsLast(x) THEN 1 ELSE 0
    BY <1>0, <1>1, CountAppend DEF r
  <2>3. CountMessages(s) \in Nat
    BY <1>1, CountIsCardinality
  <2> QED BY <2>1, <2>2, <2>3
<1>7. Numbered(r, n + 1)
  <2>1. Numbered(s, n + 1)
    BY DEF Stream, s
  <2>2. Len(s) > 0 => ~ s[Len(s)].more
    BY <1>1 DEF UpipeOK, s, k
  <2>3. ~ x.more
    BY <1>0
  <2> QED BY <1>0, <1>1, <1>5, <2>1, <2>2, <2>3, NumberedAppend DEF r
<1>8. Stream(v, n, w)
  <2>1. n + CountMessages(r) = w
    BY <1>6 DEF Stream, s
  <2>2. IsDelimiter(r[k + 1])
    BY <1>0, <1>2
  <2>3. \A i \in 1..Len(r) : ~ i > k + 1
    BY <1>1, <1>2
  <2> QED BY <1>3, <1>7, <2>1, <2>2, <2>3 DEF Stream
<1>9. u.flushed > 0 => v.items[1] = u.items[1]
  BY <1>1, <1>2, <1>3 DEF s
<1> QED BY <1>3, <1>4, <1>8, <1>9 DEF v, x

(* flush: the items are the same, the complete ones are flushed.           *)
LEMMA FlushEffect ==
  ASSUME NEW u \in Ypipe, UpipeOK(u)
  PROVE  LET v == UFlush(u)
         IN  /\ v \in Ypipe /\ UpipeOK(v) /\ (Delimited(v) <=> Delimited(u))
             /\ \A n, w \in Nat : Stream(u, n, w) => Stream(v, n, w)
             /\ v.items = u.items /\ v.flushed >= u.flushed
<1> DEFINE v == UFlush(u)
<1>1. /\ u.items \in Seq(Item) /\ Len(u.items) \in Nat
      /\ u.complete \in Nat /\ u.flushed \in Nat /\ u.flushed <= u.complete
  BY LenProperties DEF Ypipe, UpipeOK
<1>2. /\ v.items = u.items /\ v.complete = u.complete /\ v.flushed = u.complete
      /\ v \in Ypipe
  <2>1. CASE u.flushed = u.complete
    BY <2>1 DEF UFlush
  <2>2. CASE u.flushed # u.complete
    <3>1. v = [u EXCEPT !.flushed = u.complete, !.asleep = FALSE]
      BY <2>2 DEF UFlush
    <3> HIDE DEF v
    <3> QED BY <1>1, <3>1 DEF Ypipe
  <2> QED BY <2>1, <2>2
<1> HIDE DEF v
<1>3. UpipeOK(v)
  BY <1>1, <1>2 DEF UpipeOK
<1>4. Delimited(v) <=> Delimited(u)
  BY <1>2 DEF Delimited
<1>5. \A n, w \in Nat : Stream(u, n, w) => Stream(v, n, w)
  BY <1>2 DEF Stream
<1> QED BY <1>1, <1>2, <1>3, <1>4, <1>5 DEF v

(* read: the first item is taken.  A delimiter was the last; the rest of a *)
(* message that was begun is flushed.                                      *)
LEMMA PopEffect ==
  ASSUME NEW u \in Ypipe, UpipeOK(u), u.flushed > 0,
         NEW n \in Nat, NEW w \in Nat, Stream(u, n, w)
  PROVE  LET v == UPop(u)
             x == u.items[1]
         IN  /\ v \in Ypipe /\ UpipeOK(v) /\ (Delimited(v) => Delimited(u))
             /\ x \in Item /\ x = Head(u.items)
             /\ IsDelimiter(x) => v.items = <<>> /\ Delimited(u) /\ Stream(v, n, w) /\ n = w
             /\ ~ IsDelimiter(x) => Stream(v, n + IF x.more THEN 0 ELSE 1, w)
             /\ ~ IsDelimiter(x) /\ x.more =>
                  v.flushed > 0 /\ v.items[1].msg = n + 1
<1> DEFINE v == UPop(u)
           s == u.items
           r == Tail(s)
           k == u.complete
           x == s[1]
<1>1. /\ s \in Seq(Item) /\ Len(s) \in Nat /\ k \in Nat /\ k <= Len(s)
      /\ u.flushed \in Nat /\ u.flushed <= k /\ u.flushed > 0
  BY LenProperties DEF Ypipe, UpipeOK
<1>2. s # <<>> /\ 1 \in 1..Len(s)
  BY <1>1, EmptySeq
<1>3. /\ r \in Seq(Item) /\ Len(r) = Len(s) - 1
      /\ \A i \in 1..Len(r) : r[i] = s[i + 1]
      /\ x \in Item /\ x = Head(s)
  BY <1>1, <1>2, HeadTailProperties, ElementOfSeq
<1>4. /\ v.items = r /\ v.complete = k - 1
      /\ v.flushed = u.flushed - 1 /\ v \in Ypipe
  <2> DEFINE a == k - 1
             b == u.flushed - 1
  <2>1. v = [u EXCEPT !.items = r, !.complete = a, !.flushed = b]
    BY DEF UPop
  <2>2. a \in Nat /\ b \in Nat
    BY <1>1
  <2> HIDE DEF v, r, a, b
  <2>3. v.items = r /\ v.complete = a /\ v.flushed = b /\ v \in Ypipe
    BY <1>3, <2>1, <2>2 DEF Ypipe
  <2> QED BY <2>3 DEF a, b
<1> HIDE DEF x, v, r, s, k
<1>5. UpipeOK(v)
  <2>1. ASSUME NEW i \in 1..Len(r), i > k - 1 PROVE r[i].more
    <3>1. i + 1 \in 1..Len(s) /\ i + 1 > k
      BY <1>1, <1>3, <2>1
    <3> QED BY <1>3, <3>1 DEF UpipeOK, s, k
  <2>2. ASSUME k - 1 > 0 PROVE ~ r[k - 1].more
    <3>1. k - 1 \in 1..Len(r) /\ (k - 1) + 1 = k /\ k > 0
      BY <1>1, <1>3, <2>2
    <3>2. r[k - 1] = s[k]
      BY <1>3, <3>1
    <3> QED BY <3>1, <3>2 DEF UpipeOK, s, k
  <2>3. ASSUME u.flushed - 1 > 0 PROVE ~ r[u.flushed - 1].more
    <3>1. u.flushed - 1 \in 1..Len(r) /\ (u.flushed - 1) + 1 = u.flushed
      BY <1>1, <1>3, <2>3
    <3>2. r[u.flushed - 1] = s[u.flushed]
      BY <1>3, <3>1
    <3> QED BY <3>2 DEF UpipeOK, s
  <2> QED BY <1>1, <1>3, <1>4, <2>1, <2>2, <2>3 DEF UpipeOK
<1>6. k - 1 > 0 => r[k - 1] = s[k]
  <2>1. k - 1 > 0 => k - 1 \in 1..Len(r) /\ (k - 1) + 1 = k
    BY <1>1, <1>3
  <2> QED BY <1>3, <2>1
<1>7. Delimited(v) => Delimited(u)
  BY <1>1, <1>4, <1>6 DEF Delimited, s, k
<1>8. /\ CountMessages(s) = CountMessages(r) + IF IsLast(x) THEN 1 ELSE 0
      /\ CountMessages(r) \in Nat /\ n + CountMessages(s) = w
  BY <1>1, <1>2, <1>3, CountTail, CountIsCardinality DEF x, r, Stream, s
<1>9. ASSUME IsDelimiter(x)
      PROVE  v.items = <<>> /\ Delimited(u) /\ Stream(v, n, w) /\ n = w
  <2>1. Len(s) = 1 /\ Delimited(u)
    BY <1>2, <1>9, DelimiterIsLast DEF x, s
  <2>2. Len(r) = 0 /\ r = <<>>
    <3>1. Len(r) = 0
      BY <1>3, <2>1
    <3> QED BY <1>3, <3>1, EmptySeq
  <2>3. CountMessages(r) = 0 /\ ~ IsLast(x)
    BY <1>9, <2>2, CountEmpty DEF IsLast
  <2>4. n = w /\ n + CountMessages(r) = w
    BY <1>8, <2>3
  <2>5. k = 1
    <3>1. k <= 1 /\ 1 <= k
      BY <1>1, <2>1
    <3> QED BY <1>1, <3>1
  <2> QED BY <1>1, <1>4, <2>1, <2>2, <2>4, <2>5 DEF Stream, Numbered
<1>10. ASSUME ~ IsDelimiter(x)
       PROVE  /\ Stream(v, n + IF x.more THEN 0 ELSE 1, w)
              /\ x.more => v.flushed > 0 /\ v.items[1].msg = n + 1
  <2> DEFINE m == n + IF x.more THEN 0 ELSE 1
  <2>0. m \in Nat
    OBVIOUS
  <2>1. x.msg = n + 1
    BY <1>1, <1>2, <1>10 DEF Stream, Numbered, IsDelimiter, x, s
  <2>2. m + CountMessages(r) = w
    <3>1. CASE x.more
      <4>1. ~ IsLast(x)
        BY <3>1 DEF IsLast
      <4> QED BY <1>8, <3>1, <4>1
    <3>2. CASE ~ x.more
      <4>1. IsLast(x)
        BY <1>10, <3>2 DEF IsLast
      <4> QED BY <1>8, <3>2, <4>1
    <3> QED BY <3>1, <3>2
  <2>3. Numbered(s, n + 1)
    BY DEF Stream, s
  <2>4. Len(r) > 0 => IF x.more THEN r[1].msg = n + 1 ELSE r[1].msg \in {0, n + 2}
    <3>1. Len(r) > 0 => 2 \in 1..Len(s) /\ 2 > 1 /\ 2 - 1 = 1 /\ r[1] = s[2]
      BY <1>1, <1>3
    <3>2. Len(r) > 0 => IF s[1].more THEN s[2].msg = s[1].msg
                        ELSE s[2].msg \in {0, s[1].msg + 1}
      BY <2>3, <3>1 DEF Numbered
    <3>3. (n + 1) + 1 = n + 2
      OBVIOUS
    <3> QED BY <2>1, <3>1, <3>2, <3>3 DEF x
  <2>5. Numbered(r, m + 1)
    <3>1. Len(r) > 0 => r[1].msg \in {0, m + 1}
      BY <2>4
    <3>2. ASSUME NEW i \in 1..Len(r), IsDelimiter(r[i])
          PROVE  i = Len(r) /\ ~ r[i].more
      <4>1. i + 1 \in 1..Len(s) /\ r[i] = s[i + 1]
        BY <1>1, <1>3
      <4>2. i + 1 = Len(s) /\ ~ s[i + 1].more
        BY <2>3, <3>2, <4>1 DEF Numbered
      <4> QED BY <1>1, <1>3, <4>1, <4>2
    <3>3. ASSUME NEW i \in 1..Len(r), i > 1
          PROVE  IF r[i - 1].more THEN r[i].msg = r[i - 1].msg
                 ELSE r[i].msg \in {0, r[i - 1].msg + 1}
      <4>1. /\ i + 1 \in 1..Len(s) /\ i + 1 > 1 /\ (i + 1) - 1 = i
            /\ i - 1 \in 1..Len(r) /\ (i - 1) + 1 = i
        BY <1>1, <1>3, <3>3
      <4>2. r[i] = s[i + 1] /\ r[i - 1] = s[i]
        BY <1>3, <4>1
      <4>3. IF s[i].more THEN s[i + 1].msg = s[i].msg
            ELSE s[i + 1].msg \in {0, s[i].msg + 1}
        BY <2>3, <4>1 DEF Numbered
      <4> QED BY <4>2, <4>3
    <3> QED BY <3>1, <3>2, <3>3 DEF Numbered
  <2>6. k - 1 > 0 /\ ~ IsDelimiter(r[k - 1]) => r[k - 1].msg = w
    BY <1>1, <1>6 DEF Stream, s, k
  <2>7. ASSUME NEW i \in 1..Len(r), i > k - 1 PROVE r[i].msg = w + 1
    <3>1. i + 1 \in 1..Len(s) /\ i + 1 > k
      BY <1>1, <1>3, <2>7
    <3> QED BY <1>3, <3>1 DEF Stream, s, k
  <2>8. Stream(v, m, w)
    BY <1>4, <2>2, <2>5, <2>6, <2>7 DEF Stream
  <2>9. ASSUME x.more PROVE v.flushed > 0 /\ v.items[1].msg = n + 1
    <3>1. u.flushed # 1
      BY <2>9 DEF UpipeOK, x, s
    <3>2. Len(r) > 0
      BY <1>1, <1>3, <3>1
    <3> QED BY <1>1, <1>4, <2>4, <2>9, <3>1, <3>2
  <2> QED BY <2>8, <2>9
<1> QED BY <1>3, <1>4, <1>5, <1>7, <1>9, <1>10 DEF v, x, s

-----------------------------------------------------------------------------
(***************************************************************************)
(* The inductive invariant.                                                *)
(***************************************************************************)

\* The variables.
Types ==
  /\ state \in [Ends -> States]
  /\ in_active \in [Ends -> BOOLEAN] /\ out_active \in [Ends -> BOOLEAN]
  /\ msgs_read \in [Ends -> Nat] /\ msgs_written \in [Ends -> Nat]
  /\ peers_msgs_read \in [Ends -> Nat] /\ dropped \in [Ends -> Nat]
  /\ delay \in [Ends -> BOOLEAN]
  /\ allocated \subseteq Upipes /\ created \in Upipes
  /\ inpipe \in [Ends -> Upipes] /\ outpipe \in [Ends -> Upipes \cup {None}]
  /\ upipe \in [Upipes -> Ypipe]
  /\ cmds \in [Ends -> Seq(Cmd)]
  /\ ending \in [Ends -> {"no", "delimiter", "called"}]
  /\ wmore \in [Ends -> BOOLEAN] /\ rmore \in [Ends -> BOOLEAN]
  /\ cut \in [Ends -> BOOLEAN] /\ delimiterLost \in BOOLEAN
  /\ abort = FALSE

Open == {"active", "delimited"}
Closed == {"terminating", "double_terminated", "deleted"}

\* The states the two ends may be in together.
Together(s, r) ==
  /\ s \in Open => r \in Open \cup {"terminated"}
  /\ s = "pending" => r = "terminated"
  /\ s = "terminated" => r # "deleted"
  /\ s = "terminating" => r \in {"terminated", "deleted"}
  /\ s = "double_terminated" => r \in {"terminated", "double_terminated", "deleted"}
  /\ s = "deleted" => r \in Closed

\* The handshake: which of its commands are on their way from an end in state
\* r to one in state s follows from the two states.
HandshakeOK(s, r, q, out, end) ==
  /\ Together(s, r)
  /\ Has(q, "pipe_term") <=>
       s \in Open \cup {"terminated"} /\ r \in {"terminated", "double_terminated"}
  /\ Has(q, "pipe_term_ack") <=>
       s \in {"terminated", "terminating", "double_terminated"} /\ r \in Closed
  /\ Has(q, "hiccup") => s \in Open \cup {"terminated"}
  /\ Ordered(q)
  /\ s = "deleted" => q = <<>>
  /\ out = None <=> s \in Closed
  /\ end = "delimiter" => s \in {"terminated", "pending"}
  /\ s \in Open => end = "no"

Handshake(e) ==
  HandshakeOK(state[e], state[peer(e)], cmds[e], outpipe[e], ending[e])

\* The ypipes that lead to e: the one its peer writes to, the ones that are
\* brought to the peer by hiccups on their way, and the last of them, which
\* e reads.
OnLine(u, e) ==
  u = inpipe[e] \/ u = outpipe[peer(e)] \/ Brings(cmds[peer(e)], u)

LineOK(in, out, q) ==
  /\ out # None /\ ~ Has(q, "hiccup") => in = out
  /\ Has(q, "hiccup") => Brings(q, in)
  /\ \A a \in Nat : Brings(q, a) => out < a /\ a <= in
  /\ in <= created /\ out <= created
  /\ Rising(q)

Lines == \A e \in Ends : LineOK(inpipe[e], outpipe[peer(e)], cmds[peer(e)])

\* No ypipe leads to both ends; those that exist lead to an end that does.
Memory ==
  \A u \in Upipes :
    /\ \A e \in Ends : OnLine(u, e) => ~ OnLine(u, peer(e))
    /\ u \in allocated <=> \E e \in Ends : state[e] # "deleted" /\ OnLine(u, e)

\* The ypipe that holds what e has still to read; all others are empty.
Data(e) == IF outpipe[peer(e)] # None THEN outpipe[peer(e)] ELSE inpipe[e]

Contents ==
  \A u \in Upipes :
    /\ UpipeOK(upipe[u])
    /\ (\A e \in Ends : u # Data(e)) => upipe[u].items = <<>>

\* The messages of its peer that an end is done with.
Done(e) == msgs_read[e] + dropped[peer(e)]

\* Every message that an end has completed is read, dropped by a hiccup, or
\* still in the ypipe; only what its peer leaves unread when it goes is lost.
BalanceOK(e) ==
  /\ Done(e) <= msgs_written[peer(e)]
  /\ state[e] # "deleted" =>
       /\ Stream(upipe[Data(e)], Done(e), msgs_written[peer(e)])
       /\ Delimited(upipe[Data(e)]) =>
            state[peer(e)] # "active" /\ ending[peer(e)] = "called"

Balance == \A e \in Ends : BalanceOK(e)

\* The counts on their way to e are between the one it knows and that of its
\* peer, and it writes within the watermark of the count it knows.
WatermarkOK(e) ==
  /\ msgs_written[e] <= MaxMsgs[e]
  /\ peers_msgs_read[e] <= msgs_read[peer(e)]
  /\ Hwm > 0 => msgs_written[e] <= peers_msgs_read[e] + Hwm
  /\ Between(cmds[e], peers_msgs_read[e], msgs_read[peer(e)])

Watermark == \A e \in Ends : WatermarkOK(e)

\* A reader inside a message has the rest of it flushed before it.
InsideOK(e) ==
  rmore[e] /\ state[e] \in {"active", "pending"} =>
    /\ in_active[e]
    /\ upipe[inpipe[e]].flushed > 0
    /\ upipe[inpipe[e]].items[1].msg = Done(e) + 1

Inside == \A e \in Ends : InsideOK(e)

\* An end that goes without having given up messages has read them all.
ReadAllOK(e) ==
  /\ state[e] \in {"terminated", "double_terminated"} => cut[e]
  /\ state[e] \in {"delimited", "terminating", "deleted"} /\ ~ cut[e] =>
       /\ state[peer(e)] # "active"
       /\ ending[peer(e)] = "called"
       /\ ~ Has(cmds[peer(e)], "hiccup")
       /\ Done(e) = msgs_written[peer(e)]

ReadAll == \A e \in Ends : ReadAllOK(e)

Inv ==
  /\ Types
  /\ \A e \in Ends : Handshake(e)
  /\ Lines /\ Memory
  /\ Contents /\ Balance
  /\ Watermark /\ Inside /\ ReadAll

-----------------------------------------------------------------------------
(***************************************************************************)
(* Consequences of the invariant.                                          *)
(***************************************************************************)

(* There are two ends, each the peer of the other.                         *)
LEMMA TwoEnds ==
  ASSUME NEW e \in Ends
  PROVE  /\ peer(e) \in Ends /\ peer(e) # e /\ peer(peer(e)) = e
         /\ \A x \in Ends : x = e \/ x = peer(e)
BY DEF Ends, peer

(* Where the two ends read and write.                                      *)
LEMMA Places ==
  ASSUME Inv, NEW e \in Ends
  PROVE  /\ Data(e) \in Upipes /\ OnLine(Data(e), e)
         /\ inpipe[e] \in Upipes /\ OnLine(inpipe[e], e)
         /\ Data(e) # Data(peer(e)) /\ inpipe[e] # Data(peer(e))
         /\ inpipe[e] # inpipe[peer(e)]
         /\ outpipe[e] # None => outpipe[e] \in Upipes /\ Data(peer(e)) = outpipe[e]
         /\ outpipe[e] = None => Data(peer(e)) = inpipe[peer(e)]
         /\ inpipe[e] # Data(e) =>
              upipe[inpipe[e]].items = <<>> /\ upipe[inpipe[e]].flushed = 0
         /\ upipe[Data(e)] \in Ypipe /\ UpipeOK(upipe[Data(e)])
         /\ upipe[inpipe[e]] \in Ypipe /\ UpipeOK(upipe[inpipe[e]])
<1> DEFINE p == peer(e)
<1>0. p \in Ends /\ p # e /\ peer(p) = e /\ \A x \in Ends : x = e \/ x = p
  BY TwoEnds
<1> HIDE DEF p
<1>1. /\ inpipe[e] \in Upipes /\ outpipe[p] \in Upipes \cup {None}
      /\ inpipe[p] \in Upipes /\ outpipe[e] \in Upipes \cup {None}
  BY <1>0 DEF Inv, Types
<1>2. Data(e) = IF outpipe[p] # None THEN outpipe[p] ELSE inpipe[e]
  BY DEF Data, p
<1>3. Data(p) = IF outpipe[e] # None THEN outpipe[e] ELSE inpipe[p]
  BY <1>0 DEF Data
<1>4. /\ Data(e) \in Upipes /\ Data(p) \in Upipes
      /\ OnLine(Data(e), e) /\ OnLine(Data(p), p)
      /\ OnLine(inpipe[e], e) /\ OnLine(inpipe[p], p)
  BY <1>0, <1>1, <1>2, <1>3 DEF OnLine, p
<1>5. \A u \in Upipes : ~ (OnLine(u, e) /\ OnLine(u, p))
  BY <1>0 DEF Inv, Memory, p
<1>6. Data(e) # Data(p) /\ inpipe[e] # Data(p) /\ inpipe[e] # inpipe[p]
  BY <1>1, <1>4, <1>5
<1>7. upipe[inpipe[e]] \in Ypipe /\ upipe[Data(e)] \in Ypipe
  BY <1>1, <1>4 DEF Inv, Types
<1>8. UpipeOK(upipe[inpipe[e]]) /\ UpipeOK(upipe[Data(e)])
  BY <1>1, <1>4 DEF Inv, Contents
<1>9. ASSUME inpipe[e] # Data(e)
      PROVE  upipe[inpipe[e]].items = <<>> /\ upipe[inpipe[e]].flushed = 0
  <2>1. \A x \in Ends : inpipe[e] # Data(x)
    BY <1>0, <1>6, <1>9
  <2>2. upipe[inpipe[e]].items = <<>>
    BY <1>1, <2>1 DEF Inv, Contents
  <2>3. Len(upipe[inpipe[e]].items) = 0
    BY <2>2, EmptySeq
  <2> QED BY <1>7, <1>8, <2>2, <2>3 DEF UpipeOK, Ypipe
<1> QED BY <1>1, <1>3, <1>4, <1>6, <1>7, <1>8, <1>9 DEF p

(* A command sent to the peer.                                             *)
LEMMA SentEffect ==
  ASSUME Types, NEW e \in Ends, NEW c \in Cmd, cmds' = Sent(e, c)
  PROVE  /\ cmds' \in [Ends -> Seq(Cmd)]
         /\ cmds'[peer(e)] = Append(cmds[peer(e)], c)
         /\ cmds'[e] = cmds[e]
<1>1. /\ cmds \in [Ends -> Seq(Cmd)] /\ peer(e) \in Ends /\ peer(e) # e
      /\ \A x \in Ends : x = e \/ x = peer(e)
  BY TwoEnds DEF Types
<1> DEFINE a == Append(cmds[peer(e)], c)
<1>2. a \in Seq(Cmd)
  BY <1>1, AppendQueue
<1>3. cmds' = [cmds EXCEPT ![peer(e)] = a]
  BY <1>1 DEF Sent
<1> HIDE DEF a
<1> QED BY <1>1, <1>2, <1>3 DEF a

(* A command taken from the queue.                                         *)
LEMMA TakenEffect ==
  ASSUME Types, NEW e \in Ends, cmds[e] # <<>>, cmds' = Taken(e)
  PROVE  /\ cmds' \in [Ends -> Seq(Cmd)]
         /\ cmds'[e] = Tail(cmds[e])
         /\ cmds'[peer(e)] = cmds[peer(e)]
<1>1. /\ cmds \in [Ends -> Seq(Cmd)] /\ peer(e) \in Ends /\ peer(e) # e
      /\ \A x \in Ends : x = e \/ x = peer(e)
  BY TwoEnds DEF Types
<1> DEFINE a == Tail(cmds[e])
<1>2. a \in Seq(Cmd)
  BY <1>1, TailQueue
<1>3. cmds' = [cmds EXCEPT ![e] = a]
  BY <1>1 DEF Taken
<1> HIDE DEF a
<1> QED BY <1>1, <1>2, <1>3 DEF a

(* A command taken and answered.                                           *)
LEMMA AnsweredEffect ==
  ASSUME Types, NEW e \in Ends, cmds[e] # <<>>, NEW c \in Cmd,
         cmds' = Answered(e, c)
  PROVE  /\ cmds' \in [Ends -> Seq(Cmd)]
         /\ cmds'[e] = Tail(cmds[e])
         /\ cmds'[peer(e)] = Append(cmds[peer(e)], c)
<1>1. /\ cmds \in [Ends -> Seq(Cmd)] /\ peer(e) \in Ends /\ peer(e) # e
      /\ \A x \in Ends : x = e \/ x = peer(e)
  BY TwoEnds DEF Types
<1> DEFINE a == Tail(cmds[e])
           b == Append(cmds[peer(e)], c)
<1>2. a \in Seq(Cmd) /\ b \in Seq(Cmd)
  BY <1>1, TailQueue, AppendQueue
<1>3. cmds' = [cmds EXCEPT ![e] = a, ![peer(e)] = b]
  <2>1. cmds' = [cmds EXCEPT ![e] = Tail(@), ![peer(e)] = Append(@, c)]
    BY DEF Answered
  <2> QED BY <1>1, <2>1
<1> HIDE DEF a, b
<1> QED BY <1>1, <1>2, <1>3 DEF a, b

-----------------------------------------------------------------------------
(***************************************************************************)
(* Steps that leave the handshake and the ypipes as they are.              *)
(***************************************************************************)

\* The commands change in activate_read and activate_write at most.
Quiet ==
  /\ cmds' \in [Ends -> Seq(Cmd)]
  /\ \A x \in Ends :
       /\ Ordered(cmds'[x]) /\ Rising(cmds'[x])
       /\ state[x] = "deleted" => cmds'[x] = <<>>
       /\ \A t \in {"pipe_term", "pipe_term_ack", "hiccup"} :
            Has(cmds'[x], t) <=> Has(cmds[x], t)
       /\ \A a : Brings(cmds'[x], a) <=> Brings(cmds[x], a)

(* The invariant, of one queue.                                            *)
LEMMA QueueFacts ==
  ASSUME Inv, NEW e \in Ends
  PROVE  /\ cmds[e] \in Seq(Cmd) /\ Ordered(cmds[e]) /\ Rising(cmds[e])
         /\ Between(cmds[e], peers_msgs_read[e], msgs_read[peer(e)])
         /\ state[e] = "deleted" => cmds[e] = <<>>
         /\ peers_msgs_read[e] \in Nat /\ msgs_read[peer(e)] \in Nat
         /\ peers_msgs_read[e] <= msgs_read[peer(e)]
<1>1. peer(e) \in Ends /\ peer(peer(e)) = e
  BY TwoEnds
<1>2. Rising(cmds[e])
  BY <1>1 DEF Inv, Lines, LineOK
<1> QED BY <1>1, <1>2 DEF Inv, Types, Handshake, HandshakeOK, Watermark, WatermarkOK

(* No command at all is sent or taken.                                     *)
LEMMA QuietNothing ==
  ASSUME Inv, cmds' = cmds
  PROVE  Quiet
BY QueueFacts DEF Quiet, Inv, Types

(* activate_read or activate_write is sent, by an end that has an outpipe. *)
LEMMA QuietSend ==
  ASSUME Inv, NEW e \in Ends, state[e] \notin Closed, NEW c \in Cmd,
         c.type \in {"activate_read", "activate_write"},
         NEW k \in Nat, msgs_read[e] <= k,
         c.type = "activate_write" => c.arg = k,
         cmds' = Sent(e, c)
  PROVE  /\ Quiet
         /\ Between(cmds'[peer(e)], peers_msgs_read[peer(e)], k)
         /\ cmds'[e] = cmds[e]
<1> DEFINE p == peer(e)
           q == cmds[p]
<1>0. p \in Ends /\ p # e /\ peer(p) = e /\ \A x \in Ends : x = e \/ x = p
  BY TwoEnds
<1>1. /\ cmds' \in [Ends -> Seq(Cmd)]
      /\ cmds'[p] = Append(q, c)
      /\ cmds'[e] = cmds[e]
  BY SentEffect DEF Inv
<1> HIDE DEF p, q
<1>2. /\ q \in Seq(Cmd) /\ Ordered(q) /\ Rising(q)
      /\ Between(q, peers_msgs_read[p], msgs_read[e])
      /\ peers_msgs_read[p] \in Nat /\ msgs_read[e] \in Nat
      /\ peers_msgs_read[p] <= msgs_read[e]
  BY <1>0, QueueFacts DEF q
<1>3. ~ Has(q, "pipe_term_ack") /\ state[p] # "deleted"
  BY <1>0 DEF Inv, Handshake, HandshakeOK, Together, Closed, q
<1>4. Ordered(Append(q, c))
  BY <1>2, <1>3, AppendOrdered
<1>5. /\ \A t : Has(Append(q, c), t) <=> Has(q, t) \/ c.type = t
      /\ \A a : Brings(Append(q, c), a) <=>
                  Brings(q, a) \/ (c.type = "hiccup" /\ c.arg = a)
  BY <1>2, AppendQueue
<1>6. Rising(Append(q, c)) /\ Between(Append(q, c), peers_msgs_read[p], k)
  <2>1. c.arg \in Nat /\ c.type # "hiccup"
    BY DEF Cmd
  <2>2. c.type = "activate_write" =>
          msgs_read[e] <= c.arg /\ peers_msgs_read[p] <= msgs_read[e]
    BY <1>2
  <2>3. /\ Rising(Append(q, c))
        /\ \A j \in Nat : msgs_read[e] <= j /\ (c.type = "activate_write" => c.arg <= j) =>
             Between(Append(q, c), peers_msgs_read[p], j)
    BY <1>2, <2>1, <2>2, AppendRising
  <2> QED BY <2>1, <2>3
<1>7. Quiet
  <2> SUFFICES ASSUME NEW x \in Ends
               PROVE  /\ Ordered(cmds'[x]) /\ Rising(cmds'[x])
                      /\ state[x] = "deleted" => cmds'[x] = <<>>
                      /\ \A t \in {"pipe_term", "pipe_term_ack", "hiccup"} :
                           Has(cmds'[x], t) <=> Has(cmds[x], t)
                      /\ \A a : Brings(cmds'[x], a) <=> Brings(cmds[x], a)
    BY <1>1 DEF Quiet
  <2>1. CASE x = e
    BY <1>1, <2>1, QueueFacts
  <2>2. CASE x = p
    BY <1>1, <1>3, <1>4, <1>5, <1>6, <2>2 DEF q
  <2> QED BY <1>0, <2>1, <2>2
<1> QED BY <1>1, <1>6, <1>7 DEF p

(* activate_read or activate_write is taken.                               *)
LEMMA QuietTake ==
  ASSUME Inv, NEW e \in Ends, cmds[e] # <<>>,
         Head(cmds[e]).type \in {"activate_read", "activate_write"},
         cmds' = Taken(e)
  PROVE  /\ Quiet
         /\ Between(cmds'[e], peers_msgs_read[e], msgs_read[peer(e)])
         /\ Head(cmds[e]).type = "activate_write" =>
              /\ peers_msgs_read[e] <= Head(cmds[e]).arg
              /\ Head(cmds[e]).arg <= msgs_read[peer(e)]
              /\ Between(cmds'[e], Head(cmds[e]).arg, msgs_read[peer(e)])
         /\ cmds'[peer(e)] = cmds[peer(e)]
         /\ Head(cmds[e]).arg \in Nat
<1> DEFINE p == peer(e)
           q == cmds[e]
<1>0. p \in Ends /\ p # e /\ peer(p) = e /\ \A x \in Ends : x = e \/ x = p
  BY TwoEnds
<1>1. /\ cmds' \in [Ends -> Seq(Cmd)]
      /\ cmds'[e] = Tail(q)
      /\ cmds'[p] = cmds[p]
  BY TakenEffect DEF Inv
<1> HIDE DEF p, q
<1>2. /\ q \in Seq(Cmd) /\ Ordered(q) /\ Rising(q) /\ q # <<>>
      /\ Between(q, peers_msgs_read[e], msgs_read[p])
      /\ state[e] # "deleted"
  BY QueueFacts DEF q, p
<1>3. /\ Head(q) \in Cmd
      /\ \A t : Has(q, t) <=> Has(Tail(q), t) \/ Head(q).type = t
      /\ \A a : Brings(q, a) <=>
           Brings(Tail(q), a) \/ (Head(q).type = "hiccup" /\ Head(q).arg = a)
  BY <1>2, TailQueue
<1>4. Ordered(Tail(q))
  BY <1>2, TailOrdered
<1>5. /\ Rising(Tail(q))
      /\ Between(Tail(q), peers_msgs_read[e], msgs_read[p])
      /\ Head(q).type = "activate_write" =>
           /\ peers_msgs_read[e] <= Head(q).arg /\ Head(q).arg <= msgs_read[p]
           /\ Between(Tail(q), Head(q).arg, msgs_read[p])
  BY <1>2, TailRising
<1>6. Quiet
  <2> SUFFICES ASSUME NEW x \in Ends
               PROVE  /\ Ordered(cmds'[x]) /\ Rising(cmds'[x])
                      /\ state[x] = "deleted" => cmds'[x] = <<>>
                      /\ \A t \in {"pipe_term", "pipe_term_ack", "hiccup"} :
                           Has(cmds'[x], t) <=> Has(cmds[x], t)
                      /\ \A a : Brings(cmds'[x], a) <=> Brings(cmds[x], a)
    BY <1>1 DEF Quiet
  <2>1. CASE x = p
    BY <1>0, <1>1, <2>1, QueueFacts
  <2>2. CASE x = e
    <3>1. Head(q).type \in {"activate_read", "activate_write"}
      BY DEF q
    <3> QED BY <1>1, <1>2, <1>3, <1>4, <1>5, <2>2, <3>1 DEF q
  <2> QED BY <1>0, <2>1, <2>2
<1> QED BY <1>1, <1>3, <1>5, <1>6 DEF p, q, Cmd

(* The handshake is as it was.                                             *)
LEMMA QuietHandshake ==
  ASSUME Inv, Quiet, UNCHANGED <<state, outpipe>>,
         \A x \in Ends :
           /\ ending'[x] = "delimiter" => state[x] \in {"terminated", "pending"}
           /\ state[x] \in Open => ending'[x] = "no"
  PROVE  \A x \in Ends : Handshake(x)'
<1> SUFFICES ASSUME NEW x \in Ends PROVE Handshake(x)'
  OBVIOUS
<1>1. HandshakeOK(state[x], state[peer(x)], cmds[x], outpipe[x], ending[x])
  BY DEF Inv, Handshake
<1>2. /\ Ordered(cmds'[x])
      /\ state[x] = "deleted" => cmds'[x] = <<>>
      /\ \A t \in {"pipe_term", "pipe_term_ack", "hiccup"} :
           Has(cmds'[x], t) <=> Has(cmds[x], t)
  BY DEF Quiet
<1>3. HandshakeOK(state[x], state[peer(x)], cmds'[x], outpipe[x], ending'[x])
  BY <1>1, <1>2 DEF HandshakeOK
<1> QED BY <1>3 DEF Handshake

\* The queues carry the hiccups they carried.
SameHiccups ==
  \A x \in Ends :
    /\ Rising(cmds'[x])
    /\ Has(cmds'[x], "hiccup") <=> Has(cmds[x], "hiccup")
    /\ \A a : Brings(cmds'[x], a) <=> Brings(cmds[x], a)

(* The ypipes are where they were.                                         *)
LEMMA LinesKept ==
  ASSUME Inv, SameHiccups, UNCHANGED <<inpipe, outpipe, created, allocated>>,
         \A x \in Ends : state'[x] = "deleted" <=> state[x] = "deleted"
  PROVE  Lines' /\ Memory'
<1>1. \A x \in Ends : peer(x) \in Ends
  BY TwoEnds
<1>2. Lines'
  <2> SUFFICES ASSUME NEW x \in Ends
               PROVE  LineOK(inpipe[x], outpipe[peer(x)], cmds[peer(x)])'
    BY DEF Lines
  <2>1. LineOK(inpipe[x], outpipe[peer(x)], cmds[peer(x)])
    BY DEF Inv, Lines
  <2>2. /\ Rising(cmds'[peer(x)])
        /\ Has(cmds'[peer(x)], "hiccup") <=> Has(cmds[peer(x)], "hiccup")
        /\ \A a : Brings(cmds'[peer(x)], a) <=> Brings(cmds[peer(x)], a)
    BY <1>1 DEF SameHiccups
  <2> QED BY <2>1, <2>2 DEF LineOK
<1>3. \A u, x : x \in Ends => (OnLine(u, x)' <=> OnLine(u, x))
  BY <1>1 DEF SameHiccups, OnLine
<1>4. Memory'
  BY <1>1, <1>3 DEF Inv, Memory
<1> QED BY <1>2, <1>4

(* So they are when no hiccup is sent or taken.                            *)
LEMMA QuietLines ==
  ASSUME Inv, Quiet, UNCHANGED <<inpipe, outpipe, created, allocated>>,
         \A x \in Ends : state'[x] = "deleted" <=> state[x] = "deleted"
  PROVE  Lines' /\ Memory'
<1>1. SameHiccups
  BY DEF Quiet, SameHiccups
<1> QED BY <1>1, LinesKept

(* Messages and counters are as they were.                                 *)
LEMMA DataKept ==
  ASSUME Inv,
         UNCHANGED <<inpipe, outpipe, msgs_read, dropped, msgs_written, state>>,
         \A u \in Upipes :
           /\ upipe'[u].items = upipe[u].items
           /\ upipe'[u].complete = upipe[u].complete
           /\ upipe'[u].flushed = upipe[u].flushed,
         \A x \in Ends : ending[x] = "called" => ending'[x] = "called"
  PROVE  Contents' /\ Balance'
<1>1. \A x \in Ends : Data(x)' = Data(x) /\ Done(x)' = Done(x) /\ peer(x) \in Ends
  BY TwoEnds DEF Data, Done
<1>2. \A u \in Upipes : UpipeOK(upipe[u]) => UpipeOK(upipe'[u])
  BY DEF UpipeOK
<1>3. Contents'
  BY <1>1, <1>2 DEF Inv, Contents
<1>4. Balance'
  <2> SUFFICES ASSUME NEW x \in Ends PROVE BalanceOK(x)'
    BY DEF Balance
  <2>1. Data(x) \in Upipes
    BY Places
  <2>2. /\ \A n, w : Stream(upipe'[Data(x)], n, w) <=> Stream(upipe[Data(x)], n, w)
        /\ Delimited(upipe'[Data(x)]) <=> Delimited(upipe[Data(x)])
    BY <2>1 DEF Stream, Delimited
  <2>3. BalanceOK(x)
    BY DEF Inv, Balance
  <2> QED BY <1>1, <2>2, <2>3 DEF BalanceOK
<1> QED BY <1>3, <1>4

(* Nobody has gone meanwhile.                                              *)
LEMMA ReadAllKept ==
  ASSUME Inv, UNCHANGED <<state, cut>>,
         \A x \in Ends :
           /\ state[x] \in {"delimited", "terminating", "deleted"} => Done(x)' = Done(x)
           /\ state[x] # "active" => msgs_written'[x] = msgs_written[x]
           /\ ending[x] = "called" => ending'[x] = "called"
           /\ Has(cmds'[x], "hiccup") => Has(cmds[x], "hiccup")
  PROVE  ReadAll'
<1> SUFFICES ASSUME NEW x \in Ends PROVE ReadAllOK(x)'
  BY DEF ReadAll
<1>1. ReadAllOK(x) /\ peer(x) \in Ends
  BY TwoEnds DEF Inv, ReadAll
<1> QED BY <1>1 DEF ReadAllOK

(* Who was inside a message has what comes next as before.                 *)
LEMMA InsideKept ==
  ASSUME Inv,
         \A x \in Ends : rmore'[x] /\ state'[x] \in {"active", "pending"} =>
           /\ rmore[x] /\ state[x] \in {"active", "pending"}
           /\ in_active[x] => in_active'[x]
           /\ inpipe'[x] = inpipe[x] /\ Done(x)' = Done(x)
           /\ upipe[inpipe[x]].flushed > 0 =>
                /\ upipe'[inpipe[x]].flushed > 0
                /\ upipe'[inpipe[x]].items[1] = upipe[inpipe[x]].items[1]
  PROVE  Inside'
<1> SUFFICES ASSUME NEW x \in Ends PROVE InsideOK(x)'
  BY DEF Inside
<1>1. InsideOK(x)
  BY DEF Inv, Inside
<1> QED BY <1>1 DEF InsideOK

(* The counters of both ends and their commands are as they were.          *)
LEMMA WatermarkKept ==
  ASSUME Inv, UNCHANGED <<msgs_read, msgs_written, peers_msgs_read>>,
         \A x \in Ends : Between(cmds'[x], peers_msgs_read[x], msgs_read[peer(x)])
  PROVE  Watermark'
<1> SUFFICES ASSUME NEW x \in Ends PROVE WatermarkOK(x)'
  BY DEF Watermark
<1>1. WatermarkOK(x)
  BY DEF Inv, Watermark
<1> QED BY <1>1 DEF WatermarkOK

(* The part of the handshake that concerns terminate.                      *)
LEMMA EndingFacts ==
  ASSUME Inv, NEW x \in Ends
  PROVE  /\ ending[x] = "delimiter" => state[x] \in {"terminated", "pending"}
         /\ state[x] \in Open => ending[x] = "no"
BY DEF Inv, Handshake, HandshakeOK

-----------------------------------------------------------------------------
(***************************************************************************)
(* The steps, one lemma each.                                              *)
(***************************************************************************)

(* check_read finds the ypipe empty.                                       *)
LEMMA EmptyStep ==
  ASSUME Inv, NEW e \in Ends, check_read(e), In(e).flushed = 0
  PROVE  Inv'
<1> DEFINE i == inpipe[e]
<1>0. i \in Upipes /\ inpipe \in [Ends -> Upipes] /\ upipe \in [Upipes -> Ypipe]
  BY DEF Inv, Types
<1>1. /\ in_active' = [in_active EXCEPT ![e] = FALSE]
      /\ upipe' = [upipe EXCEPT ![i].asleep = TRUE]
      /\ UNCHANGED <<state, outpipe, cmds, abort, allocated, created,
                     out_active, msgs_read, msgs_written, peers_msgs_read,
                     delay, inpipe, ending, wmore, rmore, dropped,
                     delimiterLost, cut>>
  BY DEF check_read, history
<1> HIDE DEF i
<1>2. /\ upipe' \in [Upipes -> Ypipe]
      /\ \A u \in Upipes : /\ upipe'[u].items = upipe[u].items
                           /\ upipe'[u].complete = upipe[u].complete
                           /\ upipe'[u].flushed = upipe[u].flushed
  BY <1>0, <1>1 DEF Ypipe
<1>3. Types'
  BY <1>1, <1>2 DEF Inv, Types
<1>4. Quiet
  BY <1>1, QuietNothing
<1>5. \A x \in Ends : Handshake(x)'
  BY <1>1, <1>4, EndingFacts, QuietHandshake
<1>6. Lines' /\ Memory'
  BY <1>1, <1>4, QuietLines
<1>7. Contents' /\ Balance'
  BY <1>1, <1>2, DataKept
<1>8. Watermark'
  BY <1>1, QueueFacts, WatermarkKept
<1>9. Inside'
  <2>1. ASSUME NEW x \in Ends, rmore[x], state[x] \in {"active", "pending"}
        PROVE  in_active[x] => in_active'[x]
    <3>1. CASE x = e
      <4>1. upipe[inpipe[e]].flushed > 0
        BY <2>1, <3>1 DEF Inv, Inside, InsideOK
      <4> QED BY <4>1 DEF In
    <3>2. CASE x # e
      BY <1>1, <3>2 DEF Inv, Types
    <3> QED BY <3>1, <3>2
  <2>2. \A x \in Ends : inpipe[x] \in Upipes /\ Done(x)' = Done(x)
    BY <1>0, <1>1 DEF Done
  <2> QED BY <1>1, <1>2, <2>1, <2>2, InsideKept
<1>10. ReadAll'
  <2>1. \A x \in Ends : Done(x)' = Done(x)
    BY <1>1 DEF Done
  <2> QED BY <1>1, <2>1, ReadAllKept
<1> QED BY <1>3, <1>5, <1>6, <1>7, <1>8, <1>9, <1>10 DEF Inv

(* check_write finds the ypipe full.                                       *)
LEMMA FullStep ==
  ASSUME Inv, NEW e \in Ends, check_write(e)
  PROVE  Inv'
<1>1. /\ out_active' = [out_active EXCEPT ![e] = FALSE]
      /\ UNCHANGED <<state, outpipe, cmds, abort, allocated, created,
                     in_active, msgs_read, msgs_written, peers_msgs_read,
                     delay, inpipe, upipe, ending, wmore, rmore, dropped,
                     delimiterLost, cut>>
  BY DEF check_write, history
<1>2. Types'
  BY <1>1 DEF Inv, Types
<1>3. Quiet
  BY <1>1, QuietNothing
<1>4. \A x \in Ends : Handshake(x)'
  BY <1>1, <1>3, EndingFacts, QuietHandshake
<1>5. Lines' /\ Memory'
  BY <1>1, <1>3, QuietLines
<1>6. Contents' /\ Balance'
  BY <1>1, DataKept
<1>7. Watermark'
  BY <1>1, QueueFacts, WatermarkKept
<1>8. \A x \in Ends : Done(x)' = Done(x)
  BY <1>1 DEF Done
<1>9. Inside'
  BY <1>1, <1>8, InsideKept
<1>10. ReadAll'
  BY <1>1, <1>8, ReadAllKept
<1> QED BY <1>2, <1>4, <1>5, <1>6, <1>7, <1>9, <1>10 DEF Inv

(* process_activate_read.                                                  *)
LEMMA ActivateReadStep ==
  ASSUME Inv, NEW e \in Ends, process_activate_read(e)
  PROVE  Inv'
<1>1. /\ cmds[e] # <<>> /\ Head(cmds[e]).type = "activate_read"
      /\ cmds' = Taken(e)
      /\ UNCHANGED <<state, outpipe, abort, allocated, created,
                     out_active, msgs_read, msgs_written, peers_msgs_read,
                     delay, inpipe, upipe, ending, wmore, rmore, dropped,
                     delimiterLost, cut>>
  BY DEF process_activate_read, Receives, history
<1>2. /\ in_active' \in [Ends -> BOOLEAN]
      /\ \A x \in Ends : in_active[x] => in_active'[x]
  BY DEF process_activate_read, Inv, Types
<1>3. /\ Quiet
      /\ Between(cmds'[e], peers_msgs_read[e], msgs_read[peer(e)])
      /\ cmds'[peer(e)] = cmds[peer(e)]
  BY <1>1, QuietTake
<1>4. Types'
  BY <1>1, <1>2, <1>3 DEF Inv, Types, Quiet
<1>5. \A x \in Ends : Handshake(x)'
  BY <1>1, <1>3, EndingFacts, QuietHandshake
<1>6. Lines' /\ Memory'
  BY <1>1, <1>3, QuietLines
<1>7. Contents' /\ Balance'
  BY <1>1, DataKept
<1>8. Watermark'
  <2>1. \A x \in Ends : Between(cmds'[x], peers_msgs_read[x], msgs_read[peer(x)])
    BY <1>3, QueueFacts, TwoEnds
  <2> QED BY <1>1, <2>1, WatermarkKept
<1>9. \A x \in Ends : Done(x)' = Done(x)
  BY <1>1 DEF Done
<1>10. Inside'
  BY <1>1, <1>2, <1>9, InsideKept
<1>11. ReadAll'
  BY <1>1, <1>3, <1>9, ReadAllKept DEF Quiet
<1> QED BY <1>4, <1>5, <1>6, <1>7, <1>8, <1>10, <1>11 DEF Inv

(* process_activate_write: the count is not less than the one it had.      *)
LEMMA ActivateWriteStep ==
  ASSUME Inv, NEW e \in Ends, process_activate_write(e)
  PROVE  Inv'
<1> DEFINE a == Head(cmds[e]).arg
<1>1. /\ cmds[e] # <<>> /\ Head(cmds[e]).type = "activate_write"
      /\ cmds' = Taken(e)
      /\ peers_msgs_read' = [peers_msgs_read EXCEPT ![e] = a]
      /\ UNCHANGED <<state, outpipe, abort, allocated, created,
                     in_active, msgs_read, msgs_written,
                     delay, inpipe, upipe, ending, wmore, rmore, dropped,
                     delimiterLost, cut>>
  BY DEF process_activate_write, Receives, history
<1>2. out_active' \in [Ends -> BOOLEAN]
  BY DEF process_activate_write, Inv, Types
<1>3. /\ Quiet
      /\ peers_msgs_read[e] <= a /\ a <= msgs_read[peer(e)] /\ a \in Nat
      /\ Between(cmds'[e], a, msgs_read[peer(e)])
      /\ cmds'[peer(e)] = cmds[peer(e)]
  BY <1>1, QuietTake
<1> HIDE DEF a
<1>4. Types'
  BY <1>1, <1>2, <1>3 DEF Inv, Types, Quiet
<1>5. \A x \in Ends : Handshake(x)'
  BY <1>1, <1>3, EndingFacts, QuietHandshake
<1>6. Lines' /\ Memory'
  BY <1>1, <1>3, QuietLines
<1>7. Contents' /\ Balance'
  BY <1>1, DataKept
<1>8. Watermark'
  <2> SUFFICES ASSUME NEW x \in Ends PROVE WatermarkOK(x)'
    BY DEF Watermark
  <2>0. WatermarkOK(x) /\ msgs_written[x] \in Nat /\ peers_msgs_read[x] \in Nat
    BY DEF Inv, Watermark, Types
  <2>1. CASE x = e
    <3>1. peers_msgs_read'[x] = a /\ (Hwm > 0 => msgs_written[x] <= a + Hwm)
      <4>1. peers_msgs_read'[x] = a
        BY <1>1, <2>1 DEF Inv, Types
      <4>2. Hwm > 0 => msgs_written[x] <= peers_msgs_read[x] + Hwm
        BY <2>0 DEF WatermarkOK
      <4> QED BY <1>3, <2>0, <2>1, <4>1, <4>2, PipeAssumption
    <3> QED BY <1>1, <1>3, <2>0, <2>1, <3>1 DEF WatermarkOK
  <2>2. CASE x = peer(e)
    <3>1. peers_msgs_read'[x] = peers_msgs_read[x]
      BY <1>1, <2>2, TwoEnds DEF Inv, Types
    <3> QED BY <1>1, <1>3, <2>0, <2>2, <3>1 DEF WatermarkOK
  <2> QED BY <2>1, <2>2, TwoEnds
<1>9. \A x \in Ends : Done(x)' = Done(x)
  BY <1>1 DEF Done
<1>10. Inside'
  BY <1>1, <1>9, InsideKept
<1>11. ReadAll'
  BY <1>1, <1>3, <1>9, ReadAllKept DEF Quiet
<1> QED BY <1>4, <1>5, <1>6, <1>7, <1>8, <1>10, <1>11 DEF Inv

(* A ypipe written by the end that owns the other side of it.              *)
LEMMA OutFacts ==
  ASSUME Inv, NEW e \in Ends, outpipe[e] # None
  PROVE  /\ outpipe[e] \in Upipes /\ outpipe[e] = Data(peer(e))
         /\ state[e] \notin Closed /\ state[peer(e)] # "deleted"
         /\ Out(e) \in Ypipe /\ UpipeOK(Out(e))
         /\ Done(peer(e)) \in Nat /\ msgs_written[e] \in Nat
         /\ Stream(Out(e), Done(peer(e)), msgs_written[e])
         /\ Delimited(Out(e)) => state[e] # "active" /\ ending[e] = "called"
<1> DEFINE p == peer(e)
<1>0. p \in Ends /\ p # e /\ peer(p) = e /\ \A x \in Ends : x = e \/ x = p
  BY TwoEnds
<1>1. outpipe[e] \in Upipes /\ outpipe[e] = Data(p)
  BY Places
<1>2. upipe[Data(p)] \in Ypipe /\ UpipeOK(upipe[Data(p)])
  BY <1>0, Places
<1>3. state[e] \notin Closed
  BY DEF Inv, Handshake, HandshakeOK
<1>4. state[p] # "deleted"
  <2>1. Together(state[p], state[e])
    BY <1>0 DEF Inv, Handshake, HandshakeOK
  <2> QED BY <1>3, <2>1 DEF Together
<1>5. Done(p) \in Nat /\ msgs_written[e] \in Nat
  BY <1>0 DEF Inv, Types, Done
<1>6. BalanceOK(p)
  BY <1>0 DEF Inv, Balance
<1>7. /\ Stream(upipe[Data(p)], Done(p), msgs_written[e])
      /\ Delimited(upipe[Data(p)]) => state[e] # "active" /\ ending[e] = "called"
  BY <1>0, <1>4, <1>6 DEF BalanceOK
<1> QED BY <1>1, <1>2, <1>3, <1>4, <1>5, <1>7 DEF Out, p

(* One end has its ypipe, its messages and its peer as before.             *)
LEMMA BalanceKept ==
  ASSUME Inv, NEW x \in Ends, Data(x)' = Data(x), Done(x)' = Done(x),
         msgs_written'[peer(x)] = msgs_written[peer(x)],
         upipe'[Data(x)] = upipe[Data(x)],
         state[x] = "deleted" => state'[x] = "deleted",
         state'[peer(x)] = "active" => state[peer(x)] = "active",
         ending[peer(x)] = "called" => ending'[peer(x)] = "called"
  PROVE  BalanceOK(x)'
<1>1. BalanceOK(x)
  BY DEF Inv, Balance
<1> QED BY <1>1 DEF BalanceOK

(* Contents, balance and readers after e has changed the ypipe it writes.  *)
LEMMA OutEffect ==
  ASSUME Inv, NEW e \in Ends, outpipe[e] # None, NEW v \in Ypipe, UpipeOK(v),
         upipe' = [upipe EXCEPT ![outpipe[e]] = v],
         UNCHANGED <<state, inpipe, outpipe, msgs_read, dropped, in_active, rmore>>,
         msgs_written'[peer(e)] = msgs_written[peer(e)],
         msgs_written'[e] \in Nat, msgs_written[e] <= msgs_written'[e],
         Stream(v, Done(peer(e)), msgs_written'[e]),
         Delimited(v) => state[e] # "active" /\ ending'[e] = "called",
         ending'[peer(e)] = ending[peer(e)],
         Out(e).flushed > 0 => v.flushed > 0 /\ v.items[1] = Out(e).items[1]
  PROVE  upipe' \in [Upipes -> Ypipe] /\ Contents' /\ Balance' /\ Inside'
<1> DEFINE p == peer(e)
<1>0. p \in Ends /\ p # e /\ peer(p) = e /\ \A x \in Ends : x = e \/ x = p
  BY TwoEnds
<1>1. /\ outpipe[e] \in Upipes /\ outpipe[e] = Data(p)
      /\ Done(p) \in Nat /\ msgs_written[e] \in Nat
  BY OutFacts
<1>2. upipe \in [Upipes -> Ypipe]
  BY DEF Inv, Types
<1>3. /\ upipe' \in [Upipes -> Ypipe]
      /\ upipe'[Data(p)] = v
      /\ \A u \in Upipes : u # Data(p) => upipe'[u] = upipe[u]
  BY <1>1, <1>2
<1>4. \A x \in Ends : Data(x)' = Data(x) /\ Done(x)' = Done(x)
  BY DEF Data, Done
<1>5. Contents'
  <2>1. \A u \in Upipes : UpipeOK(upipe'[u])
    BY <1>3 DEF Inv, Contents
  <2>2. \A u \in Upipes : (\A x \in Ends : u # Data(x)) => upipe'[u].items = <<>>
    BY <1>0, <1>3 DEF Inv, Contents
  <2> QED BY <1>4, <2>1, <2>2 DEF Contents
<1>6. BalanceOK(e)'
  <2>1. Data(e) \in Upipes /\ Data(e) # Data(p)
    BY Places
  <2>2. upipe'[Data(e)] = upipe[Data(e)]
    BY <1>3, <2>1
  <2> QED BY <1>4, <2>2, BalanceKept
<1>7. BalanceOK(p)'
  <2>1. Done(p) <= msgs_written[e]
    BY <1>0 DEF Inv, Balance, BalanceOK
  <2>2. Done(p) <= msgs_written'[e]
    BY <1>1, <2>1
  <2>3. Done(p)' = Done(p) /\ upipe'[Data(p)'] = v /\ Data(p)' = Data(p)
    BY <1>0, <1>3, <1>4
  <2> QED BY <1>0, <2>2, <2>3 DEF BalanceOK
<1>8. Inside'
  <2>1. ASSUME NEW x \in Ends, upipe[inpipe[x]].flushed > 0
        PROVE  /\ upipe'[inpipe[x]].flushed > 0
               /\ upipe'[inpipe[x]].items[1] = upipe[inpipe[x]].items[1]
    <3>1. inpipe[x] \in Upipes
      BY DEF Inv, Types
    <3>2. CASE inpipe[x] = Data(p)
      BY <1>1, <1>3, <2>1, <3>2 DEF Out
    <3>3. CASE inpipe[x] # Data(p)
      BY <1>3, <2>1, <3>1, <3>3
    <3> QED BY <3>2, <3>3
  <2> QED BY <1>4, <2>1, InsideKept
<1> QED BY <1>0, <1>3, <1>5, <1>6, <1>7, <1>8 DEF Balance

(* write.                                                                  *)
LEMMA WriteStep ==
  ASSUME Inv, NEW e \in Ends, NEW more \in BOOLEAN, write(e, more)
  PROVE  Inv'
<1> DEFINE p == peer(e)
           w == msgs_written[e]
           i == IF more THEN 0 ELSE 1
           v == UWrite(Out(e), [msg |-> w + 1, more |-> more], more)
<1>0. p \in Ends /\ p # e /\ peer(p) = e /\ \A x \in Ends : x = e \/ x = p
  BY TwoEnds
<1>1. /\ w < MaxMsgs[e] /\ state[e] = "active" /\ ~ Full(e)
      /\ upipe' = [upipe EXCEPT ![outpipe[e]] = v]
      /\ msgs_written' = [msgs_written EXCEPT ![e] = w + i]
      /\ wmore' = [wmore EXCEPT ![e] = more]
      /\ UNCHANGED <<allocated, created, state, in_active, out_active, msgs_read,
                     peers_msgs_read, delay, inpipe, outpipe, cmds, ending, rmore,
                     dropped, delimiterLost, cut, abort>>
  <2>1. upipe \in [Upipes -> Ypipe] /\ msgs_written \in [Ends -> Nat]
    BY DEF Inv, Types
  <2> QED BY <2>1 DEF write, history, Out
<1>2. outpipe[e] # None
  BY <1>1 DEF Inv, Handshake, HandshakeOK, Closed
<1>3. /\ Out(e) \in Ypipe /\ UpipeOK(Out(e)) /\ Done(p) \in Nat /\ w \in Nat
      /\ Stream(Out(e), Done(p), w) /\ ~ Delimited(Out(e))
  BY <1>1, <1>2, OutFacts
<1>4. /\ v \in Ypipe /\ UpipeOK(v) /\ ~ Delimited(v)
      /\ Stream(v, Done(p), w + i)
      /\ v.flushed = Out(e).flushed
      /\ Out(e).flushed > 0 => v.items[1] = Out(e).items[1]
  BY <1>3, WriteEffect
<1>5. i \in {0, 1}
  OBVIOUS
<1> HIDE DEF v, i
<1>6. /\ msgs_written'[e] = w + i /\ msgs_written'[p] = msgs_written[p]
      /\ msgs_written' \in [Ends -> Nat] /\ w + i \in Nat /\ w <= w + i
  BY <1>0, <1>1, <1>3, <1>5 DEF Inv, Types
<1>7. upipe' \in [Upipes -> Ypipe] /\ Contents' /\ Balance' /\ Inside'
  BY <1>1, <1>2, <1>4, <1>6, OutEffect
<1>8. Types'
  BY <1>1, <1>6, <1>7 DEF Inv, Types
<1>9. Quiet
  BY <1>1, QuietNothing
<1>10. \A x \in Ends : Handshake(x)'
  BY <1>1, <1>9, EndingFacts, QuietHandshake
<1>11. Lines' /\ Memory'
  BY <1>1, <1>9, QuietLines
<1>12. Watermark'
  <2> SUFFICES ASSUME NEW x \in Ends PROVE WatermarkOK(x)'
    BY DEF Watermark
  <2>0. WatermarkOK(x) /\ peers_msgs_read[x] \in Nat
    BY DEF Inv, Watermark, Types
  <2>1. CASE x = e
    <3>1. w + i <= MaxMsgs[e]
      BY <1>1, <1>3, <1>5, PipeAssumption
    <3>2. Hwm > 0 => w + i <= peers_msgs_read[e] + Hwm
      BY <1>1, <1>3, <1>5, <2>0, <2>1, PipeAssumption DEF Full, WatermarkOK
    <3> QED BY <1>1, <1>6, <2>0, <2>1, <3>1, <3>2 DEF WatermarkOK
  <2>2. CASE x = p
    BY <1>1, <1>6, <2>0, <2>2 DEF WatermarkOK
  <2> QED BY <1>0, <2>1, <2>2
<1>13. ReadAll'
  <2>1. \A x \in Ends : Done(x)' = Done(x)
    BY <1>1 DEF Done
  <2>2. \A x \in Ends : state[x] # "active" => msgs_written'[x] = msgs_written[x]
    BY <1>0, <1>1, <1>6
  <2> QED BY <1>1, <2>1, <2>2, ReadAllKept
<1> QED BY <1>7, <1>8, <1>10, <1>11, <1>12, <1>13 DEF Inv

(* rollback: only parts to be continued are thrown away.                   *)
LEMMA RollbackStep ==
  ASSUME Inv, NEW e \in Ends, rollback(e)
  PROVE  Inv'
<1> DEFINE p == peer(e)
           v == URollback(Out(e))
<1>0. p \in Ends /\ p # e /\ peer(p) = e /\ \A x \in Ends : x = e \/ x = p
  BY TwoEnds
<1>1. /\ outpipe[e] # None
      /\ upipe' = [upipe EXCEPT ![outpipe[e]] = v]
      /\ wmore' = [wmore EXCEPT ![e] = FALSE]
      /\ abort' = (abort \/ \E i \in Out(e).complete+1 .. Len(Out(e).items) :
                              ~Out(e).items[i].more)
      /\ UNCHANGED <<allocated, created, state, in_active, out_active, msgs_read,
                     msgs_written, peers_msgs_read, delay, inpipe, outpipe, cmds,
                     ending, rmore, dropped, delimiterLost, cut>>
  <2>1. upipe \in [Upipes -> Ypipe]
    BY DEF Inv, Types
  <2> QED BY <2>1 DEF rollback, history, ends, Out
<1>2. /\ Out(e) \in Ypipe /\ UpipeOK(Out(e)) /\ Done(p) \in Nat /\ msgs_written[e] \in Nat
      /\ Stream(Out(e), Done(p), msgs_written[e])
      /\ Delimited(Out(e)) => state[e] # "active" /\ ending[e] = "called"
  BY <1>1, OutFacts
<1>3. /\ v \in Ypipe /\ UpipeOK(v) /\ (Delimited(v) => Delimited(Out(e)))
      /\ Stream(v, Done(p), msgs_written[e])
      /\ v.flushed = Out(e).flushed
      /\ Out(e).flushed > 0 => v.items[1] = Out(e).items[1]
  BY <1>2, RollbackEffect
<1> HIDE DEF v
<1>4. abort' = FALSE
  <2>1. \A i \in Out(e).complete+1 .. Len(Out(e).items) : Out(e).items[i].more
    BY <1>2 DEF UpipeOK, Ypipe
  <2> QED BY <1>1, <2>1 DEF Inv, Types
<1>5. upipe' \in [Upipes -> Ypipe] /\ Contents' /\ Balance' /\ Inside'
  <2>1. /\ msgs_written' = msgs_written /\ msgs_written'[e] \in Nat
        /\ msgs_written[e] <= msgs_written'[e]
    BY <1>1, <1>2
  <2>2. /\ Stream(v, Done(p), msgs_written'[e]) /\ ending' = ending
        /\ Delimited(v) => state[e] # "active" /\ ending'[e] = "called"
        /\ Out(e).flushed > 0 => v.flushed > 0 /\ v.items[1] = Out(e).items[1]
    BY <1>1, <1>2, <1>3
  <2> QED BY <1>1, <1>3, <2>1, <2>2, OutEffect
<1>6. Types'
  BY <1>1, <1>4, <1>5 DEF Inv, Types
<1>7. Quiet
  BY <1>1, QuietNothing
<1>8. \A x \in Ends : Handshake(x)'
  BY <1>1, <1>7, EndingFacts, QuietHandshake
<1>9. Lines' /\ Memory'
  BY <1>1, <1>7, QuietLines
<1>10. Watermark'
  BY <1>1, QueueFacts, WatermarkKept
<1>11. ReadAll'
  <2>1. \A x \in Ends : Done(x)' = Done(x)
    BY <1>1 DEF Done
  <2> QED BY <1>1, <2>1, ReadAllKept
<1> QED BY <1>5, <1>6, <1>8, <1>9, <1>10, <1>11 DEF Inv

(* The commands after a flush, which may wake the reader up.               *)
LEMMA FlushSends ==
  ASSUME Inv, NEW e \in Ends, state[e] \notin Closed, NEW b \in BOOLEAN,
         cmds' = IF b THEN Sent(e, Command("activate_read")) ELSE cmds
  PROVE  /\ Quiet
         /\ \A x \in Ends : Between(cmds'[x], peers_msgs_read[x], msgs_read[peer(x)])
<1> DEFINE c == Command("activate_read")
<1>1. c \in Cmd /\ c.type = "activate_read"
  BY DEF Command, Cmd, CommandTypes
<1> HIDE DEF c
<1>2. CASE b
  <2>1. msgs_read[e] \in Nat /\ msgs_read[e] <= msgs_read[e]
    BY DEF Inv, Types
  <2>2. cmds' = Sent(e, c)
    BY <1>2 DEF c
  <2>3. /\ Quiet
        /\ Between(cmds'[peer(e)], peers_msgs_read[peer(e)], msgs_read[e])
        /\ cmds'[e] = cmds[e]
    BY <1>1, <2>1, <2>2, QuietSend
  <2> QED BY <2>3, TwoEnds, QueueFacts
<1>3. CASE ~ b
  BY <1>3, QuietNothing, QueueFacts
<1> QED BY <1>2, <1>3

(* flush.                                                                  *)
LEMMA FlushStep ==
  ASSUME Inv, NEW e \in Ends, flush(e)
  PROVE  Inv'
<1> DEFINE p == peer(e)
           v == UFlush(Out(e))
           b == UFlushWakes(Out(e))
<1>0. p \in Ends /\ p # e /\ peer(p) = e /\ \A x \in Ends : x = e \/ x = p
  BY TwoEnds
<1>1. /\ outpipe[e] # None
      /\ upipe' = [upipe EXCEPT ![outpipe[e]] = v]
      /\ cmds' = IF b THEN Sent(e, Command("activate_read")) ELSE cmds
      /\ UNCHANGED <<allocated, created, state, in_active, out_active, msgs_read,
                     msgs_written, peers_msgs_read, delay, inpipe, outpipe, wmore,
                     ending, rmore, dropped, delimiterLost, cut, abort>>
  <2>1. upipe \in [Upipes -> Ypipe]
    BY DEF Inv, Types
  <2> QED BY <2>1 DEF flush, history, ends, Out
<1>2. /\ Out(e) \in Ypipe /\ UpipeOK(Out(e)) /\ Done(p) \in Nat /\ msgs_written[e] \in Nat
      /\ Stream(Out(e), Done(p), msgs_written[e])
      /\ Delimited(Out(e)) => state[e] # "active" /\ ending[e] = "called"
      /\ state[e] \notin Closed
  BY <1>1, OutFacts
<1>3. /\ v \in Ypipe /\ UpipeOK(v) /\ (Delimited(v) => Delimited(Out(e)))
      /\ Stream(v, Done(p), msgs_written[e])
      /\ v.items = Out(e).items /\ v.flushed >= Out(e).flushed
  BY <1>2, FlushEffect
<1>4. Out(e).flushed > 0 => v.flushed > 0
  BY <1>2, <1>3 DEF Ypipe
<1>5. b \in BOOLEAN
  BY <1>2 DEF UFlushWakes, Ypipe
<1> HIDE DEF v, b
<1>6. /\ Quiet
      /\ \A x \in Ends : Between(cmds'[x], peers_msgs_read[x], msgs_read[peer(x)])
  BY <1>1, <1>2, <1>5, FlushSends
<1>7. upipe' \in [Upipes -> Ypipe] /\ Contents' /\ Balance' /\ Inside'
  <2>1. /\ msgs_written' = msgs_written /\ msgs_written'[e] \in Nat
        /\ msgs_written[e] <= msgs_written'[e]
    BY <1>1, <1>2
  <2>2. /\ Stream(v, Done(p), msgs_written'[e]) /\ ending' = ending
        /\ Delimited(v) => state[e] # "active" /\ ending'[e] = "called"
        /\ Out(e).flushed > 0 => v.flushed > 0 /\ v.items[1] = Out(e).items[1]
    BY <1>1, <1>2, <1>3, <1>4
  <2> QED BY <1>1, <1>3, <2>1, <2>2, OutEffect
<1>8. Types'
  BY <1>1, <1>6, <1>7 DEF Inv, Types, Quiet
<1>9. \A x \in Ends : Handshake(x)'
  BY <1>1, <1>6, EndingFacts, QuietHandshake
<1>10. Lines' /\ Memory'
  BY <1>1, <1>6, QuietLines
<1>11. Watermark'
  BY <1>1, <1>6, WatermarkKept
<1>12. ReadAll'
  <2>1. \A x \in Ends : Done(x)' = Done(x)
    BY <1>1 DEF Done
  <2> QED BY <1>1, <1>6, <2>1, ReadAllKept DEF Quiet
<1> QED BY <1>7, <1>8, <1>9, <1>10, <1>11, <1>12 DEF Inv

(* The rest of terminate: the delimiter follows the complete messages.     *)
LEMMA WriteDelimiterStep ==
  ASSUME Inv, NEW e \in Ends, WriteDelimiter(e)
  PROVE  Inv'
<1> DEFINE p == peer(e)
           o == URollback(Out(e))
           u == UWrite(o, Delimiter, FALSE)
           v == UFlush(u)
           b == UFlushWakes(u)
<1>0. p \in Ends /\ p # e /\ peer(p) = e /\ \A x \in Ends : x = e \/ x = p
  BY TwoEnds
<1>1. /\ ending[e] = "delimiter"
      /\ upipe' = [upipe EXCEPT ![outpipe[e]] = v]
      /\ cmds' = IF b THEN Sent(e, Command("activate_read")) ELSE cmds
      /\ wmore' = [wmore EXCEPT ![e] = FALSE]
      /\ ending' = [ending EXCEPT ![e] = "called"]
      /\ UNCHANGED <<allocated, created, state, in_active, out_active, msgs_read,
                     msgs_written, peers_msgs_read, delay, inpipe, outpipe,
                     rmore, dropped, delimiterLost, cut, abort>>
  BY DEF WriteDelimiter, history, ends
<1>2. outpipe[e] # None /\ state[e] \in {"terminated", "pending"}
  BY <1>1 DEF Inv, Handshake, HandshakeOK, Closed
<1>3. /\ Out(e) \in Ypipe /\ UpipeOK(Out(e)) /\ Done(p) \in Nat /\ msgs_written[e] \in Nat
      /\ Stream(Out(e), Done(p), msgs_written[e]) /\ ~ Delimited(Out(e))
      /\ state[e] \notin Closed
  BY <1>1, <1>2, OutFacts
<1>4. /\ o \in Ypipe /\ UpipeOK(o) /\ ~ Delimited(o) /\ Len(o.items) = o.complete
      /\ Stream(o, Done(p), msgs_written[e])
      /\ o.flushed = Out(e).flushed
      /\ Out(e).flushed > 0 => o.items[1] = Out(e).items[1]
  BY <1>3, RollbackEffect
<1> HIDE DEF o
<1>5. /\ u \in Ypipe /\ UpipeOK(u) /\ Stream(u, Done(p), msgs_written[e])
      /\ u.flushed = o.flushed
      /\ o.flushed > 0 => u.items[1] = o.items[1]
  BY <1>3, <1>4, DelimiterEffect
<1> HIDE DEF u
<1>6. /\ v \in Ypipe /\ UpipeOK(v) /\ Stream(v, Done(p), msgs_written[e])
      /\ v.items = u.items /\ v.flushed >= u.flushed
  BY <1>3, <1>5, FlushEffect
<1>7. b \in BOOLEAN
  BY <1>5 DEF UFlushWakes, Ypipe
<1> HIDE DEF v, b
<1>8. Out(e).flushed > 0 => v.flushed > 0 /\ v.items[1] = Out(e).items[1]
  BY <1>3, <1>4, <1>5, <1>6 DEF Ypipe
<1>9. /\ Quiet
      /\ \A x \in Ends : Between(cmds'[x], peers_msgs_read[x], msgs_read[peer(x)])
  BY <1>1, <1>3, <1>7, FlushSends
<1>10. ending'[e] = "called" /\ ending'[p] = ending[p]
  BY <1>0, <1>1 DEF Inv, Types
<1>11. upipe' \in [Upipes -> Ypipe] /\ Contents' /\ Balance' /\ Inside'
  <2>1. /\ msgs_written' = msgs_written /\ msgs_written'[e] \in Nat
        /\ msgs_written[e] <= msgs_written'[e]
    BY <1>1, <1>3
  <2>2. /\ Stream(v, Done(p), msgs_written'[e]) /\ ending'[p] = ending[p]
        /\ state[e] # "active" /\ ending'[e] = "called"
    BY <1>1, <1>2, <1>6, <1>10
  <2> QED BY <1>1, <1>2, <1>6, <1>8, <2>1, <2>2, OutEffect
<1>12. Types'
  BY <1>1, <1>9, <1>11 DEF Inv, Types, Quiet
<1>13. \A x \in Ends : Handshake(x)'
  <2>1. \A x \in Ends :
           /\ ending'[x] = "delimiter" => state[x] \in {"terminated", "pending"}
           /\ state[x] \in Open => ending'[x] = "no"
    BY <1>0, <1>2, <1>10, EndingFacts DEF Open
  <2> QED BY <1>1, <1>9, <2>1, QuietHandshake
<1>14. Lines' /\ Memory'
  BY <1>1, <1>9, QuietLines
<1>15. Watermark'
  BY <1>1, <1>9, WatermarkKept
<1>16. ReadAll'
  <2>1. \A x \in Ends : Done(x)' = Done(x) /\ (ending[x] = "called" => ending'[x] = "called")
    BY <1>0, <1>1, <1>10 DEF Done
  <2> QED BY <1>1, <1>9, <2>1, ReadAllKept DEF Quiet
<1> QED BY <1>11, <1>12, <1>13, <1>14, <1>15, <1>16 DEF Inv

(* A wider interval holds the counts too.                                  *)
LEMMA Wider ==
  ASSUME NEW q \in Seq(Cmd), NEW l, NEW h \in Nat, NEW k \in Nat, h <= k,
         Between(q, l, h)
  PROVE  Between(q, l, k)
<1>1. \A i \in 1..Len(q) : q[i].arg \in Nat
  <2>1. \A i \in 1..Len(q) : q[i] \in Cmd
    BY ElementOfSeq
  <2> QED BY <2>1 DEF Cmd
<1> QED BY <1>1 DEF Between

(* A ypipe read by e.                                                      *)
LEMMA InFacts ==
  ASSUME Inv, NEW e \in Ends, state[e] # "deleted", In(e).flushed > 0
  PROVE  /\ inpipe[e] = Data(e) /\ inpipe[e] \in Upipes
         /\ In(e) \in Ypipe /\ UpipeOK(In(e))
         /\ Done(e) \in Nat /\ msgs_written[peer(e)] \in Nat
         /\ Stream(In(e), Done(e), msgs_written[peer(e)])
         /\ Delimited(In(e)) => state[peer(e)] # "active" /\ ending[peer(e)] = "called"
<1>1. /\ inpipe[e] \in Upipes /\ upipe[inpipe[e]] \in Ypipe
      /\ UpipeOK(upipe[inpipe[e]])
      /\ inpipe[e] # Data(e) => upipe[inpipe[e]].flushed = 0
  BY Places
<1>2. inpipe[e] = Data(e)
  BY <1>1 DEF In
<1>3. Done(e) \in Nat /\ msgs_written[peer(e)] \in Nat
  BY TwoEnds DEF Inv, Types, Done
<1>4. BalanceOK(e)
  BY DEF Inv, Balance
<1> QED BY <1>1, <1>2, <1>3, <1>4 DEF BalanceOK, In

(* Contents and balance after e has taken an item out.                     *)
LEMMA InEffect ==
  ASSUME Inv, NEW e \in Ends, inpipe[e] = Data(e),
         NEW v \in Ypipe, UpipeOK(v),
         upipe' = [upipe EXCEPT ![inpipe[e]] = v],
         UNCHANGED <<inpipe, dropped, msgs_written, ending>>,
         \A x \in Ends : Data(x)' = Data(x),
         \A x \in Ends : /\ state[x] = "deleted" <=> state'[x] = "deleted"
                         /\ state'[x] = "active" => state[x] = "active",
         Done(e)' \in Nat, Done(peer(e))' = Done(peer(e)),
         Stream(v, Done(e)', msgs_written[peer(e)]),
         Delimited(v) => Delimited(In(e)),
         state[e] # "deleted"
  PROVE  /\ upipe' \in [Upipes -> Ypipe] /\ Contents' /\ Balance'
         /\ upipe'[inpipe[e]] = v /\ upipe'[inpipe[peer(e)]] = upipe[inpipe[peer(e)]]
<1> DEFINE p == peer(e)
<1>0. p \in Ends /\ p # e /\ peer(p) = e /\ \A x \in Ends : x = e \/ x = p
  BY TwoEnds
<1>1. /\ Data(e) \in Upipes /\ upipe \in [Upipes -> Ypipe]
      /\ inpipe[p] \in Upipes /\ inpipe[p] # Data(e)
  BY <1>0, Places DEF Inv, Types
<1>2. /\ upipe' \in [Upipes -> Ypipe]
      /\ upipe'[Data(e)] = v
      /\ \A u \in Upipes : u # Data(e) => upipe'[u] = upipe[u]
  BY <1>1
<1>3. Contents'
  <2>1. \A u \in Upipes : UpipeOK(upipe'[u])
    BY <1>2 DEF Inv, Contents
  <2>2. \A u \in Upipes : (\A x \in Ends : u # Data(x)) => upipe'[u].items = <<>>
    BY <1>0, <1>2 DEF Inv, Contents
  <2> QED BY <2>1, <2>2 DEF Contents
<1>4. BalanceOK(p)'
  <2>1. Data(p) \in Upipes /\ Data(p) # Data(e)
    BY <1>0, Places
  <2>2. upipe'[Data(p)] = upipe[Data(p)]
    BY <1>2, <2>1
  <2> QED BY <1>0, <2>2, BalanceKept
<1>5. BalanceOK(e)'
  <2>1. Done(e)' + CountMessages(v.items) = msgs_written[p]
    BY DEF Stream
  <2>2. CountMessages(v.items) \in Nat
    BY CountIsCardinality DEF Ypipe
  <2>3. Done(e)' <= msgs_written[p] /\ msgs_written'[p] = msgs_written[p]
    BY <2>1, <2>2
  <2>4. Delimited(v) => state'[p] # "active" /\ ending'[p] = "called"
    BY <1>0 DEF Inv, Balance, BalanceOK, In
  <2>5. upipe'[Data(e)'] = v
    BY <1>2
  <2> QED BY <2>3, <2>4, <2>5 DEF BalanceOK
<1> QED BY <1>0, <1>1, <1>2, <1>3, <1>4, <1>5 DEF Balance

(* read: the count of a complete message goes to the writer now and then.  *)
LEMMA ReadStep ==
  ASSUME Inv, NEW e \in Ends, read(e)
  PROVE  Inv'
<1> DEFINE p == peer(e)
           x == In(e).items[1]
           i == IF x.more THEN 0 ELSE 1
           k == msgs_read[e] + i
           w == msgs_written[p]
           v == UPop(In(e))
           c == [type |-> "activate_write", arg |-> k]
<1>0. p \in Ends /\ p # e /\ peer(p) = e /\ \A y \in Ends : y = e \/ y = p
  BY TwoEnds
<1>1. /\ in_active[e] /\ state[e] \in {"active", "pending"} /\ In(e).flushed > 0
      /\ UNCHANGED <<allocated, created, state, in_active, out_active,
                     msgs_written, peers_msgs_read, delay, inpipe, outpipe,
                     ending, wmore, dropped, delimiterLost, cut, abort>>
  BY DEF read, Readable, history
<1>2. /\ inpipe[e] = Data(e) /\ inpipe[e] \in Upipes
      /\ In(e) \in Ypipe /\ UpipeOK(In(e)) /\ Done(e) \in Nat /\ w \in Nat
      /\ Stream(In(e), Done(e), w)
  BY <1>1, InFacts
<1>3. /\ v \in Ypipe /\ UpipeOK(v) /\ (Delimited(v) => Delimited(In(e)))
      /\ x \in Item /\ x = Head(In(e).items)
      /\ ~ IsDelimiter(x) => Stream(v, Done(e) + i, w)
      /\ ~ IsDelimiter(x) /\ x.more => v.flushed > 0 /\ v.items[1].msg = Done(e) + 1
  BY <1>1, <1>2, PopEffect
<1>4. /\ ~ IsDelimiter(x)
      /\ upipe' = [upipe EXCEPT ![inpipe[e]] = v]
      /\ msgs_read' = [msgs_read EXCEPT ![e] = k]
      /\ rmore' = [rmore EXCEPT ![e] = x.more]
      /\ \/ cmds' = cmds
         \/ cmds' = Sent(e, [type |-> "activate_write", arg |-> msgs_read'[e]])
  <2>1. upipe \in [Upipes -> Ypipe] /\ msgs_read \in [Ends -> Nat]
    BY DEF Inv, Types
  <2> QED BY <1>2, <1>3, <2>1 DEF read, In
<1>5. i \in {0, 1} /\ (x.more => i = 0) /\ x.more \in BOOLEAN
  BY <1>3 DEF Item
<1> HIDE DEF v, x, i
<1>6. /\ msgs_read'[e] = k /\ msgs_read'[p] = msgs_read[p]
      /\ msgs_read' \in [Ends -> Nat] /\ k \in Nat /\ msgs_read[e] <= k
      /\ msgs_read[e] \in Nat
  BY <1>0, <1>4, <1>5 DEF Inv, Types
<1>7. Done(e)' = Done(e) + i /\ Done(e) + i \in Nat /\ Done(p)' = Done(p)
  <2>1. dropped[p] \in Nat
    BY <1>0 DEF Inv, Types
  <2> QED BY <1>0, <1>1, <1>2, <1>5, <1>6, <2>1 DEF Done
<1>8. /\ Quiet
      /\ Between(cmds'[p], peers_msgs_read[p], k)
      /\ cmds'[e] = cmds[e]
  <2>1. CASE cmds' = cmds
    <3>1. cmds[p] \in Seq(Cmd) /\ Between(cmds[p], peers_msgs_read[p], msgs_read[e])
      BY <1>0, QueueFacts
    <3>2. Between(cmds[p], peers_msgs_read[p], k)
      BY <1>6, <3>1, Wider
    <3> QED BY <2>1, <3>2, QuietNothing
  <2>2. CASE cmds' = Sent(e, c)
    <3>1. c \in Cmd /\ c.type = "activate_write" /\ c.arg = k
      BY <1>6 DEF Cmd, CommandTypes
    <3>2. state[e] \notin Closed
      BY <1>1 DEF Closed
    <3> HIDE DEF c, k
    <3> QED BY <1>6, <2>2, <3>1, <3>2, QuietSend
  <2> QED BY <1>4, <1>6, <2>1, <2>2
<1>9. /\ upipe' \in [Upipes -> Ypipe] /\ Contents' /\ Balance'
      /\ upipe'[inpipe[e]] = v /\ upipe'[inpipe[p]] = upipe[inpipe[p]]
  <2>1. /\ \A y \in Ends : Data(y)' = Data(y)
        /\ state[e] # "deleted" /\ state' = state
        /\ Stream(v, Done(e)', w)
    BY <1>1, <1>3, <1>4, <1>7 DEF Data
  <2> QED BY <1>1, <1>2, <1>3, <1>4, <1>7, <2>1, InEffect
<1>10. Types'
  BY <1>1, <1>4, <1>5, <1>6, <1>8, <1>9 DEF Inv, Types, Quiet
<1>11. \A y \in Ends : Handshake(y)'
  BY <1>1, <1>8, EndingFacts, QuietHandshake
<1>12. Lines' /\ Memory'
  BY <1>1, <1>8, QuietLines
<1>13. Watermark'
  <2> SUFFICES ASSUME NEW y \in Ends PROVE WatermarkOK(y)'
    BY DEF Watermark
  <2>0. WatermarkOK(y) /\ peers_msgs_read[y] \in Nat
    BY DEF Inv, Watermark, Types
  <2>1. CASE y = e
    BY <1>1, <1>6, <1>8, <2>0, <2>1 DEF WatermarkOK
  <2>2. CASE y = p
    <3>1. peers_msgs_read[p] <= msgs_read[e]
      BY <1>0, <2>0, <2>2 DEF WatermarkOK
    <3>2. peers_msgs_read[p] <= k
      BY <1>6, <2>0, <2>2, <3>1
    <3> QED BY <1>0, <1>1, <1>6, <1>8, <2>0, <2>2, <3>2 DEF WatermarkOK
  <2> QED BY <1>0, <2>1, <2>2
<1>14. Inside'
  <2>1. InsideOK(e)'
    <3>1. rmore'[e] => v.flushed > 0 /\ v.items[1].msg = Done(e)' + 1
      <4>1. rmore'[e] = x.more
        BY <1>4 DEF Inv, Types
      <4> QED BY <1>2, <1>3, <1>4, <1>5, <1>7, <4>1
    <3> QED BY <1>1, <1>9, <3>1 DEF InsideOK
  <2>2. InsideOK(p)'
    <3>1. InsideOK(p)
      BY <1>0 DEF Inv, Inside
    <3>2. rmore'[p] = rmore[p]
      BY <1>0, <1>4 DEF Inv, Types
    <3> QED BY <1>1, <1>7, <1>9, <3>1, <3>2 DEF InsideOK
  <2> QED BY <1>0, <2>1, <2>2 DEF Inside
<1>15. ReadAll'
  <2>1. \A y \in Ends : state[y] \in {"delimited", "terminating", "deleted"} =>
                          Done(y)' = Done(y)
    BY <1>0, <1>1, <1>7
  <2> QED BY <1>1, <1>8, <2>1, ReadAllKept DEF Quiet
<1> QED BY <1>9, <1>10, <1>11, <1>12, <1>13, <1>14, <1>15 DEF Inv

-----------------------------------------------------------------------------
(***************************************************************************)
(* Steps of the handshake.                                                 *)
(***************************************************************************)

(* A queue with a command of the handshake added.                          *)
LEMMA Longer ==
  ASSUME Inv, NEW x \in Ends, NEW c \in Cmd,
         c.type \in {"pipe_term", "pipe_term_ack"},
         ~ Has(cmds[x], "pipe_term_ack"),
         c.type = "pipe_term" => ~ Has(cmds[x], "pipe_term")
  PROVE  LET r == Append(cmds[x], c)
         IN  /\ \A t : Has(r, t) <=> Has(cmds[x], t) \/ c.type = t
             /\ \A a : Brings(r, a) <=> Brings(cmds[x], a)
             /\ Ordered(r) /\ Rising(r)
             /\ Between(r, peers_msgs_read[x], msgs_read[peer(x)])
<1> DEFINE q == cmds[x]
<1>1. /\ q \in Seq(Cmd) /\ Ordered(q) /\ Rising(q)
      /\ Between(q, peers_msgs_read[x], msgs_read[peer(x)])
      /\ peers_msgs_read[x] \in Nat /\ msgs_read[peer(x)] \in Nat
      /\ peers_msgs_read[x] <= msgs_read[peer(x)]
  BY QueueFacts
<1>2. /\ \A t : Has(Append(q, c), t) <=> Has(q, t) \/ c.type = t
      /\ \A a : Brings(Append(q, c), a) <=> Brings(q, a)
  BY <1>1, AppendQueue
<1>3. Ordered(Append(q, c))
  BY <1>1, AppendOrdered
<1>4. /\ Rising(Append(q, c))
      /\ Between(Append(q, c), peers_msgs_read[x], msgs_read[peer(x)])
  BY <1>1, AppendRising
<1> QED BY <1>2, <1>3, <1>4

(* A queue without its first command.                                      *)
LEMMA Shorter ==
  ASSUME Inv, NEW x \in Ends, cmds[x] # <<>>
  PROVE  LET r == Tail(cmds[x])
             h == Head(cmds[x])
         IN  /\ h \in Cmd
             /\ \A t : Has(cmds[x], t) <=> Has(r, t) \/ h.type = t
             /\ \A a : Brings(cmds[x], a) <=>
                         Brings(r, a) \/ (h.type = "hiccup" /\ h.arg = a)
             /\ Ordered(r) /\ Rising(r)
             /\ Between(r, peers_msgs_read[x], msgs_read[peer(x)])
             /\ h.type = "pipe_term" =>
                  ~ Has(r, "pipe_term") /\ ~ Has(cmds[x], "hiccup")
             /\ h.type = "pipe_term_ack" => r = <<>>
             /\ h.type = "hiccup" => \A a : Brings(r, a) => h.arg < a
<1> DEFINE q == cmds[x]
<1>1. /\ q \in Seq(Cmd) /\ Ordered(q) /\ Rising(q)
      /\ Between(q, peers_msgs_read[x], msgs_read[peer(x)])
  BY QueueFacts
<1>2. /\ Head(q) \in Cmd
      /\ \A t : Has(q, t) <=> Has(Tail(q), t) \/ Head(q).type = t
      /\ \A a : Brings(q, a) <=>
           Brings(Tail(q), a) \/ (Head(q).type = "hiccup" /\ Head(q).arg = a)
  BY <1>1, TailQueue
<1>3. /\ Ordered(Tail(q))
      /\ Head(q).type = "pipe_term" =>
           ~ Has(Tail(q), "pipe_term") /\ ~ Has(q, "hiccup")
      /\ Head(q).type = "pipe_term_ack" => Tail(q) = <<>>
  BY <1>1, TailOrdered
<1>4. /\ Rising(Tail(q)) /\ Between(Tail(q), peers_msgs_read[x], msgs_read[peer(x)])
      /\ Head(q).type = "hiccup" => \A a : Brings(Tail(q), a) => Head(q).arg < a
  BY <1>1, TailRising
<1> QED BY <1>2, <1>3, <1>4

(* What is brought is brought by a hiccup.                                 *)
LEMMA BringsHas ==
  ASSUME NEW q, NEW a, Brings(q, a)
  PROVE  Has(q, "hiccup")
BY DEF Brings, Has

(* An end lets its outpipe go: the peer reads that ypipe by now.           *)
LEMMA LetGo ==
  ASSUME Inv, SameHiccups, NEW e \in Ends, ~ Has(cmds[e], "hiccup"),
         outpipe' = [outpipe EXCEPT ![e] = None], UNCHANGED <<inpipe, created>>
  PROVE  /\ outpipe' \in [Ends -> Upipes \cup {None}] /\ outpipe'[e] = None
         /\ outpipe'[peer(e)] = outpipe[peer(e)]
         /\ Lines'
         /\ \A x \in Ends : Data(x)' = Data(x)
         /\ \A x \in Ends : \A u \in Upipes : OnLine(u, x)' <=> OnLine(u, x)
<1> DEFINE p == peer(e)
<1>0. p \in Ends /\ p # e /\ peer(p) = e /\ \A x \in Ends : x = e \/ x = p
  BY TwoEnds
<1>1. /\ outpipe' \in [Ends -> Upipes \cup {None}]
      /\ outpipe'[e] = None /\ outpipe'[p] = outpipe[p]
      /\ created \in Nat /\ None \notin Upipes
  BY <1>0 DEF Inv, Types, Upipes, None
<1>2. LineOK(inpipe[p], outpipe[e], cmds[e]) /\ LineOK(inpipe[e], outpipe[p], cmds[p])
  BY <1>0 DEF Inv, Lines
<1>3. outpipe[e] # None => outpipe[e] = inpipe[p]
  BY <1>2 DEF LineOK
<1>4. Lines'
  <2>1. LineOK(inpipe[e], outpipe[p], cmds[p])'
    BY <1>0, <1>1, <1>2 DEF LineOK, SameHiccups
  <2>2. LineOK(inpipe[p], outpipe[e], cmds[e])'
    <3>1. ~ Has(cmds'[e], "hiccup") /\ Rising(cmds'[e])
      BY DEF SameHiccups
    <3>2. \A a : ~ Brings(cmds'[e], a)
      BY <3>1, BringsHas
    <3>3. None <= created
      BY <1>1 DEF None
    <3> QED BY <1>1, <1>2, <3>1, <3>2, <3>3 DEF LineOK
  <2> QED BY <1>0, <2>1, <2>2 DEF Lines
<1>5. \A x \in Ends : Data(x)' = Data(x)
  <2>1. Data(e)' = Data(e)
    BY <1>0, <1>1 DEF Data
  <2>2. Data(p)' = Data(p)
    BY <1>0, <1>1, <1>3 DEF Data
  <2> QED BY <1>0, <2>1, <2>2
<1>6. ASSUME NEW u \in Upipes PROVE OnLine(u, e)' <=> OnLine(u, e)
  BY <1>0, <1>1 DEF OnLine, SameHiccups
<1>7. ASSUME NEW u \in Upipes PROVE OnLine(u, p)' <=> OnLine(u, p)
  BY <1>0, <1>1, <1>3 DEF OnLine, SameHiccups
<1> QED BY <1>0, <1>1, <1>4, <1>5, <1>6, <1>7

(* The ypipes that exist, when no end is deleted.                          *)
LEMMA MemoryKept ==
  ASSUME Inv, UNCHANGED allocated,
         \A x \in Ends : \A u \in Upipes : OnLine(u, x)' <=> OnLine(u, x),
         \A x \in Ends : state'[x] = "deleted" <=> state[x] = "deleted"
  PROVE  Memory'
<1>1. \A x \in Ends : peer(x) \in Ends
  BY TwoEnds
<1> QED BY <1>1 DEF Inv, Memory

(* Contents and balance, when ypipes and counters are as they were.        *)
LEMMA DataSame ==
  ASSUME Inv, UNCHANGED <<upipe, msgs_read, dropped, msgs_written>>,
         \A x \in Ends :
           /\ Data(x)' = Data(x)
           /\ state[x] = "deleted" => state'[x] = "deleted"
           /\ state'[x] = "active" => state[x] = "active"
           /\ ending[x] = "called" => ending'[x] = "called"
  PROVE  Contents' /\ Balance' /\ \A x \in Ends : Done(x)' = Done(x)
<1>1. Contents'
  BY DEF Inv, Contents
<1>2. \A x \in Ends : Done(x)' = Done(x) /\ peer(x) \in Ends
  BY TwoEnds DEF Done
<1>3. ASSUME NEW x \in Ends PROVE BalanceOK(x)'
  BY <1>2, BalanceKept
<1> QED BY <1>1, <1>2, <1>3 DEF Balance

(* A pending end answers the pipe_term of its peer and lets its outpipe go.*)
LEMMA PendingAnswers ==
  ASSUME Inv, NEW e \in Ends, state[e] = "pending",
         state' = [state EXCEPT ![e] = "terminating"],
         outpipe' = [outpipe EXCEPT ![e] = None],
         cmds' = Sent(e, Command("pipe_term_ack")),
         UNCHANGED <<inpipe, created, allocated>>,
         ending'[peer(e)] = ending[peer(e)], ending'[e] # "delimiter"
  PROVE  /\ state' \in [Ends -> States] /\ cmds' \in [Ends -> Seq(Cmd)]
         /\ outpipe' \in [Ends -> Upipes \cup {None}]
         /\ state[peer(e)] = "terminated"
         /\ state'[e] = "terminating" /\ state'[peer(e)] = "terminated"
         /\ \A x \in Ends : Handshake(x)'
         /\ Lines' /\ Memory'
         /\ \A x \in Ends : Data(x)' = Data(x)
         /\ \A x \in Ends : Between(cmds'[x], peers_msgs_read[x], msgs_read[peer(x)])
<1> DEFINE p == peer(e)
           c == Command("pipe_term_ack")
<1>0. p \in Ends /\ p # e /\ peer(p) = e /\ \A x \in Ends : x = e \/ x = p
  BY TwoEnds
<1>1. c \in Cmd /\ c.type = "pipe_term_ack"
  BY DEF Command, Cmd, CommandTypes
<1> HIDE DEF c
<1>2. /\ cmds' \in [Ends -> Seq(Cmd)]
      /\ cmds'[p] = Append(cmds[p], c) /\ cmds'[e] = cmds[e]
  BY <1>1, SentEffect DEF c, Inv
<1>3. HandshakeOK(state[e], state[p], cmds[e], outpipe[e], ending[e])
  BY DEF Inv, Handshake
<1>4. HandshakeOK(state[p], state[e], cmds[p], outpipe[p], ending[p])
  BY <1>0 DEF Inv, Handshake
<1>5. /\ state[p] = "terminated" /\ ~ Has(cmds[p], "pipe_term_ack")
      /\ ~ Has(cmds[e], "hiccup")
  BY <1>3, <1>4 DEF HandshakeOK, Together, Open, Closed
<1>6. /\ \A t : Has(cmds'[p], t) <=> Has(cmds[p], t) \/ "pipe_term_ack" = t
      /\ \A a : Brings(cmds'[p], a) <=> Brings(cmds[p], a)
      /\ Ordered(cmds'[p]) /\ Rising(cmds'[p])
      /\ Between(cmds'[p], peers_msgs_read[p], msgs_read[peer(p)])
  <2>1. c.type \in {"pipe_term", "pipe_term_ack"} /\ c.type # "pipe_term"
    BY <1>1
  <2> DEFINE r == Append(cmds[p], c)
  <2>2. /\ \A t : Has(r, t) <=> Has(cmds[p], t) \/ c.type = t
        /\ \A a : Brings(r, a) <=> Brings(cmds[p], a)
        /\ Ordered(r) /\ Rising(r)
        /\ Between(r, peers_msgs_read[p], msgs_read[peer(p)])
    BY <1>0, <1>1, <1>5, <2>1, Longer
  <2>3. cmds'[p] = r
    BY <1>2
  <2> HIDE DEF r
  <2> QED BY <1>1, <2>2, <2>3
<1>7. /\ state' \in [Ends -> States]
      /\ state'[e] = "terminating" /\ state'[p] = state[p]
  BY <1>0 DEF Inv, Types, States
<1>8. SameHiccups
  BY <1>0, <1>2, <1>6, QueueFacts DEF SameHiccups
<1>9. /\ outpipe' \in [Ends -> Upipes \cup {None}] /\ outpipe'[e] = None
      /\ outpipe'[p] = outpipe[p] /\ Lines'
      /\ \A x \in Ends : Data(x)' = Data(x)
      /\ \A x \in Ends : \A u \in Upipes : OnLine(u, x)' <=> OnLine(u, x)
  BY <1>5, <1>8, LetGo
<1>10. Memory'
  BY <1>0, <1>5, <1>7, <1>9, MemoryKept
<1>11. HandshakeOK("terminating", "terminated", cmds'[e], None, ending'[e])
  BY <1>2, <1>3, <1>5 DEF HandshakeOK, Together, Open, Closed
<1>12. HandshakeOK("terminated", "terminating", cmds'[p], outpipe[p], ending[p])
  BY <1>4, <1>5, <1>6 DEF HandshakeOK, Together, Open, Closed
<1>13. Handshake(e)' /\ Handshake(p)'
  BY <1>0, <1>5, <1>7, <1>9, <1>11, <1>12 DEF Handshake
<1>14. \A x \in Ends : Between(cmds'[x], peers_msgs_read[x], msgs_read[peer(x)])
  BY <1>0, <1>2, <1>6, QueueFacts
<1> QED BY <1>0, <1>2, <1>5, <1>7, <1>9, <1>10, <1>13, <1>14

(* The delimiter is the next item: all messages are read, and the peer has *)
(* terminated.                                                             *)
LEMMA DelimiterFacts ==
  ASSUME Inv, NEW e \in Ends, state[e] \in {"active", "pending"},
         In(e).flushed > 0, IsDelimiter(Head(In(e).items)),
         upipe' = [upipe EXCEPT ![inpipe[e]] = UPop(@)]
  PROVE  LET v == UPop(In(e))
         IN  /\ inpipe[e] = Data(e) /\ v \in Ypipe /\ UpipeOK(v)
             /\ upipe' = [upipe EXCEPT ![inpipe[e]] = v]
             /\ Delimited(v) => Delimited(In(e))
             /\ Stream(v, Done(e), msgs_written[peer(e)])
             /\ Done(e) = msgs_written[peer(e)] /\ Done(e) \in Nat
             /\ state[peer(e)] = "terminated" /\ ending[peer(e)] = "called"
             /\ ~ Has(cmds[peer(e)], "hiccup")
<1> DEFINE p == peer(e)
           v == UPop(In(e))
           x == In(e).items[1]
<1>0. p \in Ends /\ p # e /\ peer(p) = e /\ \A y \in Ends : y = e \/ y = p
  BY TwoEnds
<1>1. /\ inpipe[e] = Data(e) /\ inpipe[e] \in Upipes
      /\ In(e) \in Ypipe /\ UpipeOK(In(e)) /\ Done(e) \in Nat
      /\ msgs_written[p] \in Nat
      /\ Stream(In(e), Done(e), msgs_written[p])
      /\ Delimited(In(e)) => state[p] # "active" /\ ending[p] = "called"
  BY InFacts
<1>2. /\ v \in Ypipe /\ UpipeOK(v) /\ (Delimited(v) => Delimited(In(e)))
      /\ x = Head(In(e).items)
      /\ IsDelimiter(x) => /\ Delimited(In(e)) /\ Stream(v, Done(e), msgs_written[p])
                           /\ Done(e) = msgs_written[p]
  BY <1>1, PopEffect
<1>3. upipe' = [upipe EXCEPT ![inpipe[e]] = v]
  BY <1>1 DEF Inv, Types, In
<1> HIDE DEF v, x
<1>4. IsDelimiter(x)
  BY <1>2
<1>5. state[p] = "terminated"
  <2>1. Together(state[e], state[p]) /\ HandshakeOK(state[p], state[e], cmds[p], outpipe[p], ending[p])
    BY <1>0 DEF Inv, Handshake, HandshakeOK
  <2> QED BY <1>1, <1>2, <1>4, <2>1 DEF HandshakeOK, Together, Open
<1>6. ~ Has(cmds[p], "hiccup")
  <2> SUFFICES ASSUME Has(cmds[p], "hiccup") PROVE FALSE
    OBVIOUS
  <2>1. outpipe[p] # None
    BY <1>0, <1>5 DEF Inv, Handshake, HandshakeOK, Closed
  <2>2. outpipe[p] = inpipe[e]
    BY <1>1, <2>1 DEF Data, p
  <2>3. LineOK(inpipe[e], outpipe[p], cmds[p])
    BY DEF Inv, Lines, p
  <2>4. inpipe[e] \in Nat
    BY <1>1 DEF Upipes
  <2>5. outpipe[p] < inpipe[e]
    BY <2>3, <2>4 DEF LineOK
  <2> QED BY <2>2, <2>4, <2>5
<1> QED BY <1>1, <1>2, <1>3, <1>4, <1>5, <1>6 DEF v

(* check_read finds the delimiter, the end being active.                   *)
LEMMA DelimitedStep ==
  ASSUME Inv, NEW e \in Ends, check_read(e), state[e] = "active",
         In(e).flushed # 0
  PROVE  Inv'
<1> DEFINE p == peer(e)
           v == UPop(In(e))
<1>0. p \in Ends /\ p # e /\ peer(p) = e /\ \A x \in Ends : x = e \/ x = p
  BY TwoEnds
<1>1. /\ In(e).flushed > 0 /\ IsDelimiter(Head(In(e).items))
      /\ upipe' = [upipe EXCEPT ![inpipe[e]] = UPop(@)]
      /\ state' = [state EXCEPT ![e] = "delimited"]
      /\ UNCHANGED <<outpipe, cmds, abort, in_active, allocated, created,
                     out_active, msgs_read, msgs_written, peers_msgs_read,
                     delay, inpipe, ending, wmore, rmore, dropped,
                     delimiterLost, cut>>
  BY DEF check_read, delimit, history
<1>2. /\ inpipe[e] = Data(e) /\ v \in Ypipe /\ UpipeOK(v)
      /\ upipe' = [upipe EXCEPT ![inpipe[e]] = v]
      /\ Delimited(v) => Delimited(In(e))
      /\ Stream(v, Done(e), msgs_written[p])
      /\ Done(e) = msgs_written[p] /\ Done(e) \in Nat
      /\ state[p] = "terminated" /\ ending[p] = "called"
      /\ ~ Has(cmds[p], "hiccup")
  BY <1>1, DelimiterFacts
<1> HIDE DEF v
<1>3. /\ state' \in [Ends -> States]
      /\ state'[e] = "delimited" /\ state'[p] = "terminated"
  BY <1>0, <1>1, <1>2 DEF Inv, Types, States
<1>4. \A x \in Ends : Data(x)' = Data(x) /\ Done(x)' = Done(x)
  BY <1>1 DEF Data, Done
<1>5. /\ upipe' \in [Upipes -> Ypipe] /\ Contents' /\ Balance'
      /\ upipe'[inpipe[p]] = upipe[inpipe[p]]
  <2>1. /\ \A x \in Ends : /\ state[x] = "deleted" <=> state'[x] = "deleted"
                           /\ state'[x] = "active" => state[x] = "active"
        /\ state[e] # "deleted" /\ Stream(v, Done(e)', msgs_written[p])
        /\ Done(e)' \in Nat
    BY <1>0, <1>2, <1>3, <1>4
  <2> QED BY <1>0, <1>1, <1>2, <1>4, <2>1, InEffect
<1>6. Types'
  BY <1>1, <1>3, <1>5 DEF Inv, Types
<1>7. HandshakeOK("active", "terminated", cmds[e], outpipe[e], ending[e])
  BY <1>2 DEF Inv, Handshake
<1>8. HandshakeOK("terminated", "active", cmds[p], outpipe[p], ending[p])
  BY <1>0, <1>2 DEF Inv, Handshake
<1>9. /\ HandshakeOK("delimited", "terminated", cmds[e], outpipe[e], ending[e])
      /\ HandshakeOK("terminated", "delimited", cmds[p], outpipe[p], ending[p])
  BY <1>7, <1>8 DEF HandshakeOK, Together, Open, Closed
<1>10. \A x \in Ends : Handshake(x)'
  BY <1>0, <1>1, <1>3, <1>9 DEF Handshake
<1>11. Lines' /\ Memory'
  <2>1. SameHiccups
    BY <1>1, QueueFacts DEF SameHiccups
  <2> QED BY <1>0, <1>1, <1>2, <1>3, <2>1, LinesKept
<1>12. Watermark'
  BY <1>1, QueueFacts, WatermarkKept
<1>13. Inside'
  <2>1. \A x \in Ends : state'[x] \in {"active", "pending"} => x = p
    BY <1>0, <1>3
  <2> QED BY <1>0, <1>1, <1>2, <1>3, <1>4, <1>5, <2>1, InsideKept
<1>14. ReadAll'
  <2>1. ReadAllOK(e) /\ ReadAllOK(p)
    BY <1>0 DEF Inv, ReadAll
  <2>2. ReadAllOK(e)'
    BY <1>0, <1>1, <1>2, <1>3, <1>4 DEF ReadAllOK
  <2>3. ReadAllOK(p)'
    BY <1>1, <1>2, <1>3, <2>1 DEF ReadAllOK
  <2> QED BY <1>0, <2>2, <2>3 DEF ReadAll
<1> QED BY <1>5, <1>6, <1>10, <1>11, <1>12, <1>13, <1>14 DEF Inv

(* check_read finds the delimiter, the end having been asked to terminate. *)
LEMMA PendingDelimitedStep ==
  ASSUME Inv, NEW e \in Ends, check_read(e), state[e] = "pending",
         In(e).flushed # 0
  PROVE  Inv'
<1> DEFINE p == peer(e)
           v == UPop(In(e))
<1>0. p \in Ends /\ p # e /\ peer(p) = e /\ \A x \in Ends : x = e \/ x = p
  BY TwoEnds
<1>1. /\ In(e).flushed > 0 /\ IsDelimiter(Head(In(e).items))
      /\ upipe' = [upipe EXCEPT ![inpipe[e]] = UPop(@)]
      /\ state' = [state EXCEPT ![e] = "terminating"]
      /\ outpipe' = [outpipe EXCEPT ![e] = None]
      /\ cmds' = Sent(e, Command("pipe_term_ack"))
      /\ ending[e] # "delimiter"
      /\ UNCHANGED <<abort, in_active, allocated, created,
                     out_active, msgs_read, msgs_written, peers_msgs_read,
                     delay, inpipe, ending, wmore, rmore, dropped,
                     delimiterLost, cut>>
  BY DEF check_read, delimit, history, Free
<1>2. /\ inpipe[e] = Data(e) /\ v \in Ypipe /\ UpipeOK(v)
      /\ upipe' = [upipe EXCEPT ![inpipe[e]] = v]
      /\ Delimited(v) => Delimited(In(e))
      /\ Stream(v, Done(e), msgs_written[p])
      /\ Done(e) = msgs_written[p] /\ Done(e) \in Nat
      /\ state[p] = "terminated" /\ ending[p] = "called"
      /\ ~ Has(cmds[p], "hiccup")
  BY <1>1, DelimiterFacts
<1> HIDE DEF v
<1>3. /\ state' \in [Ends -> States] /\ cmds' \in [Ends -> Seq(Cmd)]
      /\ outpipe' \in [Ends -> Upipes \cup {None}]
      /\ state'[e] = "terminating" /\ state'[p] = "terminated"
      /\ \A x \in Ends : Handshake(x)'
      /\ Lines' /\ Memory'
      /\ \A x \in Ends : Data(x)' = Data(x)
      /\ \A x \in Ends : Between(cmds'[x], peers_msgs_read[x], msgs_read[peer(x)])
  BY <1>1, PendingAnswers
<1>4. \A x \in Ends : Done(x)' = Done(x)
  BY <1>1 DEF Done
<1>5. /\ upipe' \in [Upipes -> Ypipe] /\ Contents' /\ Balance'
      /\ upipe'[inpipe[p]] = upipe[inpipe[p]]
  <2>1. /\ \A x \in Ends : /\ state[x] = "deleted" <=> state'[x] = "deleted"
                           /\ state'[x] = "active" => state[x] = "active"
        /\ state[e] # "deleted" /\ Stream(v, Done(e)', msgs_written[p])
        /\ Done(e)' \in Nat
    BY <1>0, <1>2, <1>3, <1>4
  <2> QED BY <1>0, <1>1, <1>2, <1>3, <1>4, <2>1, InEffect
<1>6. Types'
  BY <1>1, <1>3, <1>5 DEF Inv, Types
<1>7. Watermark'
  BY <1>1, <1>3, WatermarkKept
<1>8. Inside'
  <2>1. \A x \in Ends : state'[x] \notin {"active", "pending"}
    BY <1>0, <1>3
  <2> QED BY <2>1, InsideKept
<1>9. ReadAll'
  <2>1. ReadAllOK(e) /\ ReadAllOK(p)
    BY <1>0 DEF Inv, ReadAll
  <2>2. ReadAllOK(e)'
    <3>1. ~ Has(cmds'[p], "hiccup")
      <4>1. /\ Command("pipe_term_ack") \in Cmd
            /\ Command("pipe_term_ack").type = "pipe_term_ack"
        BY DEF Command, Cmd, CommandTypes
      <4>2. cmds'[p] = Append(cmds[p], Command("pipe_term_ack")) /\ cmds[p] \in Seq(Cmd)
        BY <1>0, <1>1, <4>1, SentEffect DEF Inv, Types
      <4> QED BY <1>2, <4>1, <4>2, AppendQueue
    <3> QED BY <1>0, <1>1, <1>2, <1>3, <1>4, <3>1 DEF ReadAllOK
  <2>3. ReadAllOK(p)'
    BY <1>1, <1>2, <1>3, <2>1 DEF ReadAllOK
  <2> QED BY <1>0, <2>2, <2>3 DEF ReadAll
<1> QED BY <1>3, <1>5, <1>6, <1>7, <1>8, <1>9 DEF Inv

(* check_read.                                                             *)
LEMMA CheckReadStep ==
  ASSUME Inv, NEW e \in Ends, check_read(e)
  PROVE  Inv'
<1>1. state[e] \in {"active", "pending"}
  BY DEF check_read, Readable
<1> QED BY <1>1, EmptyStep, DelimitedStep, PendingDelimitedStep

(* terminate, of an end that has not been asked to terminate.              *)
LEMMA TerminateOpenStep ==
  ASSUME Inv, NEW e \in Ends, NEW d \in BOOLEAN, terminate(e, d), state[e] \in Open
  PROVE  Inv'
<1> DEFINE p == peer(e)
           c == Command("pipe_term")
<1>0. p \in Ends /\ p # e /\ peer(p) = e /\ \A x \in Ends : x = e \/ x = p
  BY TwoEnds
<1>1. /\ state' = [state EXCEPT ![e] = "terminated"]
      /\ cmds' = Sent(e, c)
      /\ delay' = [delay EXCEPT ![e] = d]
      /\ out_active' = [out_active EXCEPT ![e] = FALSE]
      /\ ending' = [ending EXCEPT ![e] = IF outpipe[e] # None THEN "delimiter" ELSE "called"]
      /\ cut' = [cut EXCEPT ![e] = @ \/ state'[e] # "pending"]
      /\ UNCHANGED <<outpipe, allocated, created, in_active, msgs_read, msgs_written,
                     peers_msgs_read, inpipe, upipe, wmore, rmore, dropped,
                     delimiterLost, abort>>
  BY DEF terminate, Open
<1>2. c \in Cmd /\ c.type = "pipe_term"
  BY DEF Command, Cmd, CommandTypes
<1> HIDE DEF c
<1>3. HandshakeOK(state[e], state[p], cmds[e], outpipe[e], ending[e])
  BY DEF Inv, Handshake
<1>4. HandshakeOK(state[p], state[e], cmds[p], outpipe[p], ending[p])
  BY <1>0 DEF Inv, Handshake
<1>5. /\ outpipe[e] # None /\ ending[e] = "no"
      /\ state[p] \in Open \cup {"terminated"}
      /\ ~ Has(cmds[p], "pipe_term_ack") /\ ~ Has(cmds[p], "pipe_term")
  BY <1>3, <1>4 DEF HandshakeOK, Together, Open, Closed
<1>6. /\ state' \in [Ends -> States]
      /\ state'[e] = "terminated" /\ state'[p] = state[p]
      /\ ending' \in [Ends -> {"no", "delimiter", "called"}]
      /\ ending'[e] = "delimiter" /\ ending'[p] = ending[p]
      /\ cut' \in [Ends -> BOOLEAN] /\ cut'[e] /\ cut'[p] = cut[p]
  BY <1>0, <1>1, <1>5 DEF Inv, Types, States
<1>7. /\ cmds' \in [Ends -> Seq(Cmd)]
      /\ cmds'[p] = Append(cmds[p], c) /\ cmds'[e] = cmds[e]
  BY <1>1, <1>2, SentEffect DEF Inv
<1>8. /\ \A t : Has(cmds'[p], t) <=> Has(cmds[p], t) \/ "pipe_term" = t
      /\ \A a : Brings(cmds'[p], a) <=> Brings(cmds[p], a)
      /\ Ordered(cmds'[p]) /\ Rising(cmds'[p])
      /\ Between(cmds'[p], peers_msgs_read[p], msgs_read[peer(p)])
  <2>1. c.type \in {"pipe_term", "pipe_term_ack"}
    BY <1>2
  <2> DEFINE r == Append(cmds[p], c)
  <2>2. /\ \A t : Has(r, t) <=> Has(cmds[p], t) \/ c.type = t
        /\ \A a : Brings(r, a) <=> Brings(cmds[p], a)
        /\ Ordered(r) /\ Rising(r)
        /\ Between(r, peers_msgs_read[p], msgs_read[peer(p)])
    BY <1>0, <1>2, <1>5, <2>1, Longer
  <2>3. cmds'[p] = r
    BY <1>7
  <2> HIDE DEF r
  <2> QED BY <1>2, <2>2, <2>3
<1>9. Types'
  BY <1>1, <1>6, <1>7 DEF Inv, Types
<1>10. HandshakeOK("terminated", state[p], cmds[e], outpipe[e], "delimiter")
  BY <1>3, <1>5 DEF HandshakeOK, Together, Open, Closed
<1>11. HandshakeOK(state[p], "terminated", cmds'[p], outpipe[p], ending[p])
  BY <1>4, <1>5, <1>8 DEF HandshakeOK, Together, Open, Closed
<1>12. \A x \in Ends : Handshake(x)'
  <2>1. Handshake(e)'
    BY <1>1, <1>6, <1>7, <1>10 DEF Handshake
  <2>2. Handshake(p)'
    BY <1>0, <1>1, <1>6, <1>11 DEF Handshake
  <2> QED BY <1>0, <2>1, <2>2
<1>13. Lines' /\ Memory'
  <2>1. SameHiccups
    BY <1>0, <1>7, <1>8, QueueFacts DEF SameHiccups
  <2> QED BY <1>0, <1>1, <1>6, <2>1, LinesKept DEF Open
<1>14. Contents' /\ Balance' /\ \A x \in Ends : Done(x)' = Done(x)
  <2>1. \A x \in Ends : Data(x)' = Data(x)
    BY <1>1 DEF Data
  <2> QED BY <1>0, <1>1, <1>5, <1>6, <2>1, DataSame DEF Open
<1>15. Watermark'
  <2>1. \A x \in Ends : Between(cmds'[x], peers_msgs_read[x], msgs_read[peer(x)])
    BY <1>0, <1>7, <1>8, QueueFacts
  <2> QED BY <1>1, <2>1, WatermarkKept
<1>16. Inside'
  <2>1. \A x \in Ends : state'[x] \in {"active", "pending"} => x = p
    BY <1>0, <1>6
  <2> QED BY <1>1, <1>6, <1>14, <2>1, InsideKept
<1>17. ReadAll'
  <2>1. ReadAllOK(p)
    BY <1>0 DEF Inv, ReadAll
  <2>2. ReadAllOK(e)'
    BY <1>6 DEF ReadAllOK
  <2>3. ReadAllOK(p)'
    BY <1>0, <1>5, <1>6, <2>1 DEF ReadAllOK, Open
  <2> QED BY <1>0, <2>2, <2>3 DEF ReadAll
<1> QED BY <1>9, <1>12, <1>13, <1>14, <1>15, <1>16, <1>17 DEF Inv

(* terminate of a pending end, which does not linger.                      *)
LEMMA TerminatePendingStep ==
  ASSUME Inv, NEW e \in Ends, NEW d \in BOOLEAN, terminate(e, d),
         state[e] = "pending", ~ d
  PROVE  Inv'
<1> DEFINE p == peer(e)
<1>0. p \in Ends /\ p # e /\ peer(p) = e /\ \A x \in Ends : x = e \/ x = p
  BY TwoEnds
<1>1. /\ state' = [state EXCEPT ![e] = "terminating"]
      /\ cmds' = Sent(e, Command("pipe_term_ack"))
      /\ outpipe' = [outpipe EXCEPT ![e] = None]
      /\ delay' = [delay EXCEPT ![e] = d]
      /\ out_active' = [out_active EXCEPT ![e] = FALSE]
      /\ ending' = [ending EXCEPT ![e] = IF outpipe'[e] # None THEN "delimiter" ELSE "called"]
      /\ cut' = [cut EXCEPT ![e] = @ \/ state'[e] # "pending"]
      /\ UNCHANGED <<allocated, created, in_active, msgs_read, msgs_written,
                     peers_msgs_read, inpipe, upipe, wmore, rmore, dropped,
                     delimiterLost, abort>>
  BY DEF terminate
<1>2. outpipe'[e] = None
  BY <1>1 DEF Inv, Types
<1>3. /\ ending' \in [Ends -> {"no", "delimiter", "called"}]
      /\ ending'[e] = "called" /\ ending'[p] = ending[p]
  BY <1>0, <1>1, <1>2 DEF Inv, Types
<1>4. /\ state' \in [Ends -> States] /\ cmds' \in [Ends -> Seq(Cmd)]
      /\ outpipe' \in [Ends -> Upipes \cup {None}]
      /\ state[p] = "terminated"
      /\ state'[e] = "terminating" /\ state'[p] = "terminated"
      /\ \A x \in Ends : Handshake(x)'
      /\ Lines' /\ Memory'
      /\ \A x \in Ends : Data(x)' = Data(x)
      /\ \A x \in Ends : Between(cmds'[x], peers_msgs_read[x], msgs_read[peer(x)])
  <2>1. ending'[e] # "delimiter" /\ ending'[peer(e)] = ending[peer(e)]
    BY <1>3
  <2> QED BY <1>1, <2>1, PendingAnswers
<1>5. cut' \in [Ends -> BOOLEAN] /\ cut'[e] /\ cut'[p] = cut[p]
  BY <1>0, <1>1, <1>4 DEF Inv, Types
<1>6. Types'
  BY <1>1, <1>3, <1>4, <1>5 DEF Inv, Types
<1>7. Contents' /\ Balance' /\ \A x \in Ends : Done(x)' = Done(x)
  BY <1>0, <1>1, <1>3, <1>4, DataSame
<1>8. Watermark'
  BY <1>1, <1>4, WatermarkKept
<1>9. Inside'
  <2>1. \A x \in Ends : state'[x] \notin {"active", "pending"}
    BY <1>0, <1>4
  <2> QED BY <2>1, InsideKept
<1>10. ReadAll'
  <2>1. ReadAllOK(p)
    BY <1>0 DEF Inv, ReadAll
  <2>2. ReadAllOK(e)'
    BY <1>4, <1>5 DEF ReadAllOK
  <2>3. ReadAllOK(p)'
    BY <1>4, <1>5, <2>1 DEF ReadAllOK
  <2> QED BY <1>0, <2>2, <2>3 DEF ReadAll
<1> QED BY <1>4, <1>6, <1>7, <1>8, <1>9, <1>10 DEF Inv

(* terminate of a pending end that lingers: it goes on reading.            *)
LEMMA LingerStep ==
  ASSUME Inv, NEW e \in Ends, NEW d \in BOOLEAN, terminate(e, d),
         state[e] = "pending", d
  PROVE  Inv'
<1> DEFINE p == peer(e)
<1>0. p \in Ends /\ p # e /\ peer(p) = e /\ \A x \in Ends : x = e \/ x = p
  BY TwoEnds
<1>1. /\ ending[e] = "no"
      /\ delay' = [delay EXCEPT ![e] = d]
      /\ out_active' = [out_active EXCEPT ![e] = FALSE]
      /\ ending' = [ending EXCEPT ![e] = IF outpipe'[e] # None THEN "delimiter" ELSE "called"]
      /\ cut' = [cut EXCEPT ![e] = @ \/ state'[e] # "pending"]
      /\ UNCHANGED <<state, cmds, outpipe, allocated, created, in_active, msgs_read,
                     msgs_written, peers_msgs_read, inpipe, upipe, wmore, rmore,
                     dropped, delimiterLost, abort>>
  BY DEF terminate
<1>2. /\ ending' \in [Ends -> {"no", "delimiter", "called"}]
      /\ ending'[p] = ending[p]
  BY <1>0, <1>1 DEF Inv, Types
<1>3. cut' = cut
  <2>1. cut'[e] = cut[e]
    BY <1>1 DEF Inv, Types
  <2> QED BY <1>0, <1>1, <2>1 DEF Inv, Types
<1>4. Types'
  BY <1>1, <1>2, <1>3 DEF Inv, Types
<1>5. Quiet
  BY <1>1, QuietNothing
<1>6. \A x \in Ends : Handshake(x)'
  <2>1. \A x \in Ends :
           /\ ending'[x] = "delimiter" => state[x] \in {"terminated", "pending"}
           /\ state[x] \in Open => ending'[x] = "no"
    BY <1>0, <1>2, EndingFacts DEF Open
  <2> QED BY <1>1, <1>5, <2>1, QuietHandshake
<1>7. Lines' /\ Memory'
  BY <1>1, <1>5, QuietLines
<1>8. \A x \in Ends : ending[x] = "called" => ending'[x] = "called"
  BY <1>0, <1>1, <1>2
<1>9. Contents' /\ Balance'
  BY <1>1, <1>8, DataKept
<1>10. Watermark'
  BY <1>1, QueueFacts, WatermarkKept
<1>11. \A x \in Ends : Done(x)' = Done(x)
  BY <1>1 DEF Done
<1>12. Inside'
  BY <1>1, <1>11, InsideKept
<1>13. ReadAll'
  BY <1>1, <1>3, <1>8, <1>11, ReadAllKept
<1> QED BY <1>4, <1>6, <1>7, <1>9, <1>10, <1>12, <1>13 DEF Inv

(* terminate.                                                              *)
LEMMA TerminateStep ==
  ASSUME Inv, NEW e \in Ends, NEW d \in BOOLEAN, terminate(e, d)
  PROVE  Inv'
<1>1. state[e] \in Open \/ state[e] = "pending"
  BY DEF terminate, Open
<1> QED BY <1>1, TerminateOpenStep, TerminatePendingStep, LingerStep

(* hiccup: the new ypipe is newer than all, the one the peer writes stays. *)
LEMMA HiccupStep ==
  ASSUME Inv, NEW e \in Ends, hiccup(e)
  PROVE  Inv'
<1> DEFINE p == peer(e)
           h == created + 1
           c == [type |-> "hiccup", arg |-> h]
           q == cmds[p]
<1>0. p \in Ends /\ p # e /\ peer(p) = e /\ \A x \in Ends : x = e \/ x = p
  BY TwoEnds
<1>1. /\ state[e] = "active" /\ created < 2 + MaxHiccups
      /\ created' = h
      /\ allocated' = allocated \cup {h}
      /\ inpipe' = [inpipe EXCEPT ![e] = h]
      /\ cmds' = Sent(e, c)
      /\ in_active' = [in_active EXCEPT ![e] = TRUE]
      /\ rmore' = [rmore EXCEPT ![e] = FALSE]
      /\ UNCHANGED <<upipe, state, out_active, msgs_read, msgs_written,
                     peers_msgs_read, delay, outpipe, ending, wmore,
                     dropped, delimiterLost, cut, abort>>
  BY DEF hiccup, history
<1>2. /\ h \in Upipes /\ h \in Nat /\ created \in Nat /\ created < h
      /\ \A u \in Upipes : u \in Nat
      /\ \A u \in Upipes \cup {None} : u \in Nat
      /\ None \notin Upipes
  <2>1. created \in Upipes
    BY DEF Inv, Types
  <2> QED BY <1>1, <2>1, PipeAssumption DEF Upipes, None
<1>3. c \in Cmd /\ c.type = "hiccup" /\ c.arg = h
  BY <1>2 DEF Cmd, CommandTypes
<1> HIDE DEF c, h
<1>4. /\ cmds' \in [Ends -> Seq(Cmd)]
      /\ cmds'[p] = Append(q, c) /\ cmds'[e] = cmds[e]
  BY <1>1, <1>3, SentEffect DEF Inv
<1>5. /\ q \in Seq(Cmd) /\ Ordered(q) /\ Rising(q)
      /\ Between(q, peers_msgs_read[p], msgs_read[e])
      /\ peers_msgs_read[p] \in Nat /\ msgs_read[e] \in Nat
      /\ peers_msgs_read[p] <= msgs_read[e]
  BY <1>0, QueueFacts
<1> HIDE DEF q
<1>6. HandshakeOK(state[p], state[e], q, outpipe[p], ending[p])
  BY <1>0 DEF Inv, Handshake, q
<1>7. /\ state[p] \in Open \cup {"terminated"}
      /\ ~ Has(q, "pipe_term_ack") /\ ~ Has(q, "pipe_term")
      /\ outpipe[p] # None
  <2>1. Together(state[e], state[p])
    BY DEF Inv, Handshake, HandshakeOK
  <2> QED BY <1>1, <1>6, <2>1 DEF HandshakeOK, Together, Open, Closed
<1>8. LineOK(inpipe[e], outpipe[p], q) /\ LineOK(inpipe[p], outpipe[e], cmds[e])
  BY <1>0 DEF Inv, Lines, q
<1>9. /\ inpipe[e] \in Nat /\ inpipe[p] \in Nat /\ outpipe[e] \in Nat /\ outpipe[p] \in Nat
      /\ inpipe[e] < h /\ inpipe[p] < h /\ outpipe[e] < h /\ outpipe[p] < h
  <2>1. /\ inpipe[e] \in Nat /\ inpipe[p] \in Nat
        /\ outpipe[e] \in Nat /\ outpipe[p] \in Nat
    <3>1. /\ inpipe[e] \in Upipes /\ inpipe[p] \in Upipes
          /\ outpipe[e] \in Upipes \cup {None} /\ outpipe[p] \in Upipes \cup {None}
      BY <1>0 DEF Inv, Types
    <3> QED BY <1>2, <3>1
  <2>2. /\ inpipe[e] <= created /\ inpipe[p] <= created
        /\ outpipe[e] <= created /\ outpipe[p] <= created
    BY <1>8 DEF LineOK
  <2> QED BY <1>2, <2>1, <2>2
<1>10. \A a \in Nat : (Brings(q, a) => a < h) /\ (Brings(cmds[e], a) => a < h)
  <2>1. \A a \in Nat : (Brings(q, a) => a <= inpipe[e]) /\ (Brings(cmds[e], a) => a <= inpipe[p])
    BY <1>8 DEF LineOK
  <2> QED BY <1>2, <1>9, <2>1
<1>11. /\ \A t : Has(cmds'[p], t) <=> Has(q, t) \/ "hiccup" = t
       /\ \A a : Brings(cmds'[p], a) <=> Brings(q, a) \/ a = h
  BY <1>3, <1>4, <1>5, AppendQueue
<1>12. Ordered(cmds'[p])
  BY <1>3, <1>4, <1>5, <1>7, AppendOrdered
<1>13. Rising(cmds'[p]) /\ Between(cmds'[p], peers_msgs_read[p], msgs_read[e])
  <2>1. c.type = "hiccup" => \A a \in Nat : Brings(q, a) => a < c.arg
    BY <1>3, <1>10
  <2>2. c.type # "activate_write" /\ msgs_read[e] <= msgs_read[e]
    BY <1>3, <1>5
  <2> QED BY <1>3, <1>4, <1>5, <2>1, <2>2, AppendRising
<1>14. /\ inpipe' \in [Ends -> Upipes] /\ inpipe'[e] = h /\ inpipe'[p] = inpipe[p]
  BY <1>0, <1>1, <1>2 DEF Inv, Types
<1>15. Types'
  <2>1. allocated' \subseteq Upipes /\ created' \in Upipes
    BY <1>1, <1>2 DEF Inv, Types
  <2> QED BY <1>1, <1>4, <1>14, <2>1 DEF Inv, Types
<1>16. \A x \in Ends : Handshake(x)'
  <2>1. HandshakeOK(state[p], state[e], cmds'[p], outpipe[p], ending[p])
    BY <1>1, <1>6, <1>7, <1>11, <1>12 DEF HandshakeOK, Open
  <2>2. HandshakeOK(state[e], state[p], cmds[e], outpipe[e], ending[e])
    BY DEF Inv, Handshake
  <2> QED BY <1>0, <1>1, <1>4, <2>1, <2>2 DEF Handshake
<1>17. Lines'
  <2>1. LineOK(inpipe[e], outpipe[p], cmds[p])'
    <3>1. Has(cmds'[p], "hiccup") /\ Brings(cmds'[p], h)
      BY <1>11
    <3>2. \A a \in Nat : Brings(cmds'[p], a) => outpipe[p] < a /\ a <= h
      <4>1. \A a \in Nat : Brings(q, a) => outpipe[p] < a /\ a < h
        BY <1>8, <1>10 DEF LineOK
      <4> QED BY <1>2, <1>9, <1>11, <4>1
    <3> QED BY <1>1, <1>2, <1>9, <1>13, <1>14, <3>1, <3>2 DEF LineOK
  <2>2. LineOK(inpipe[p], outpipe[e], cmds[e])'
    BY <1>1, <1>2, <1>4, <1>8, <1>9, <1>14 DEF LineOK
  <2> QED BY <1>0, <2>1, <2>2 DEF Lines
<1>18. /\ \A u \in Upipes : OnLine(u, e)' <=> OnLine(u, e) \/ u = h
       /\ \A u \in Upipes : OnLine(u, p)' <=> OnLine(u, p)
       /\ ~ OnLine(h, p)
  <2>1. inpipe[e] = outpipe[p] \/ Brings(q, inpipe[e])
    BY <1>7, <1>8 DEF LineOK
  <2>2. \A u \in Upipes : OnLine(u, e)' <=> OnLine(u, e) \/ u = h
    BY <1>1, <1>11, <1>14, <2>1 DEF OnLine, p, q
  <2>3. \A u \in Upipes : OnLine(u, p)' <=> OnLine(u, p)
    BY <1>0, <1>1, <1>4, <1>14 DEF OnLine
  <2>4. ~ OnLine(h, p)
    BY <1>0, <1>2, <1>9, <1>10 DEF OnLine
  <2> QED BY <2>2, <2>3, <2>4
<1>19. Memory'
  <2> SUFFICES ASSUME NEW u \in Upipes
               PROVE  /\ \A x \in Ends : OnLine(u, x)' => ~ OnLine(u, peer(x))'
                      /\ u \in allocated' <=>
                           \E x \in Ends : state'[x] # "deleted" /\ OnLine(u, x)'
    BY DEF Memory
  <2>1. /\ ~ (OnLine(u, e) /\ OnLine(u, p))
        /\ u \in allocated <=> (state[e] # "deleted" /\ OnLine(u, e))
                               \/ (state[p] # "deleted" /\ OnLine(u, p))
    BY <1>0 DEF Inv, Memory
  <2>2. ~ (OnLine(u, e)' /\ OnLine(u, p)')
    BY <1>18, <2>1
  <2>3. u \in allocated' <=> (state'[e] # "deleted" /\ OnLine(u, e)')
                             \/ (state'[p] # "deleted" /\ OnLine(u, p)')
    BY <1>1, <1>18, <2>1
  <2> QED BY <1>0, <2>2, <2>3
<1>20. Contents' /\ Balance' /\ \A x \in Ends : Done(x)' = Done(x)
  <2>1. Data(e)' = Data(e)
    BY <1>1, <1>7 DEF Data, p
  <2>2. Data(p)' = Data(p)
    BY <1>0, <1>1, <1>14 DEF Data
  <2> QED BY <1>0, <1>1, <2>1, <2>2, DataSame
<1>21. Watermark'
  <2>1. \A x \in Ends : Between(cmds'[x], peers_msgs_read[x], msgs_read[peer(x)])
    BY <1>0, <1>4, <1>13, QueueFacts
  <2> QED BY <1>1, <2>1, WatermarkKept
<1>22. Inside'
  <2>1. ~ rmore'[e] /\ in_active'[p] = in_active[p] /\ rmore'[p] = rmore[p]
    BY <1>0, <1>1 DEF Inv, Types
  <2> QED BY <1>0, <1>1, <1>14, <1>20, <2>1, InsideKept
<1>23. ReadAll'
  <2>1. ReadAllOK(e) /\ ReadAllOK(p)
    BY <1>0 DEF Inv, ReadAll
  <2>2. ReadAllOK(e)'
    BY <1>1, <2>1 DEF ReadAllOK
  <2>3. ReadAllOK(p)'
    BY <1>0, <1>1, <2>1 DEF ReadAllOK
  <2> QED BY <1>0, <2>2, <2>3 DEF ReadAll
<1> QED BY <1>15, <1>16, <1>17, <1>19, <1>20, <1>21, <1>22, <1>23 DEF Inv

(* An empty ypipe holds what follows any number of messages.               *)
LEMMA EmptyStream ==
  ASSUME NEW u \in Ypipe, UpipeOK(u), u.items = <<>>, NEW w \in Nat
  PROVE  Stream(u, w, w) /\ ~ Delimited(u)
<1>1. Len(u.items) = 0 /\ CountMessages(u.items) = 0
  BY EmptySeq, CountEmpty
<1>2. u.complete = 0
  BY <1>1 DEF UpipeOK, Ypipe
<1> QED BY <1>1, <1>2 DEF Stream, Numbered, Delimited

(* process_hiccup: there is an outpipe, which goes with the messages in it,*)
(* and the reader uses a newer one already.                                *)
LEMMA ProcessHiccupStep ==
  ASSUME Inv, NEW e \in Ends, process_hiccup(e)
  PROVE  Inv'
<1> DEFINE p == peer(e)
           q == cmds[e]
           a == Head(q).arg
           o == outpipe[e]
           k == CountMessages(Out(e).items)
<1>0. p \in Ends /\ p # e /\ peer(p) = e /\ \A x \in Ends : x = e \/ x = p
  BY TwoEnds
<1>1. q # <<>> /\ Head(q).type = "hiccup" /\ cmds' = Taken(e) /\ ending[e] # "delimiter"
  BY DEF process_hiccup, Receives, Free
<1>2. /\ Head(q) \in Cmd
      /\ \A t : Has(q, t) <=> Has(Tail(q), t) \/ Head(q).type = t
      /\ \A b : Brings(q, b) <=>
                  Brings(Tail(q), b) \/ (Head(q).type = "hiccup" /\ Head(q).arg = b)
      /\ Ordered(Tail(q)) /\ Rising(Tail(q))
      /\ Between(Tail(q), peers_msgs_read[e], msgs_read[peer(e)])
      /\ Head(q).type = "hiccup" => \A b : Brings(Tail(q), b) => Head(q).arg < b
  BY <1>1, Shorter
<1>3. /\ cmds' \in [Ends -> Seq(Cmd)] /\ cmds'[e] = Tail(q) /\ cmds'[p] = cmds[p]
  BY <1>1, TakenEffect DEF Inv
<1>4. /\ a \in Nat /\ Has(q, "hiccup") /\ Brings(q, a)
      /\ \A t : t # "hiccup" => (Has(cmds'[e], t) <=> Has(q, t))
      /\ \A b : Brings(q, b) <=> Brings(cmds'[e], b) \/ a = b
      /\ \A b : Brings(cmds'[e], b) => a < b
      /\ Ordered(cmds'[e]) /\ Rising(cmds'[e])
      /\ Between(cmds'[e], peers_msgs_read[e], msgs_read[p])
  BY <1>1, <1>2, <1>3 DEF Cmd
<1> HIDE DEF a
<1>5. HandshakeOK(state[e], state[p], q, o, ending[e])
  BY DEF Inv, Handshake
<1> HIDE DEF q
<1>6. o # None /\ state[e] \in Open \cup {"terminated"}
  BY <1>4, <1>5 DEF HandshakeOK, Open, Closed
<1>7. /\ upipe' = [upipe EXCEPT ![o] = NewUpipe]
      /\ allocated' = allocated \ {o}
      /\ outpipe' = [outpipe EXCEPT ![e] = a]
      /\ out_active' = [out_active EXCEPT ![e] = TRUE]
      /\ dropped' = [dropped EXCEPT ![e] = @ + k]
      /\ delimiterLost' \in BOOLEAN
      /\ UNCHANGED <<cut, abort, created, state, in_active, msgs_read, msgs_written,
                     peers_msgs_read, delay, inpipe, ending, wmore, rmore>>
  <2>1. delimiterLost \in BOOLEAN
    BY DEF Inv, Types
  <2> QED BY <1>6, <2>1 DEF process_hiccup, a, q
<1>8. /\ o \in Upipes /\ o = Data(p) /\ state[p] # "deleted"
      /\ Done(p) \in Nat /\ msgs_written[e] \in Nat
      /\ Out(e) \in Ypipe
      /\ Stream(Out(e), Done(p), msgs_written[e])
  BY <1>6, OutFacts
<1>9. k \in Nat /\ Done(p) + k = msgs_written[e]
  <2>1. Out(e).items \in Seq(Item)
    BY <1>8 DEF Ypipe
  <2> QED BY <1>8, <2>1, CountIsCardinality DEF Stream
<1> HIDE DEF k
<1>10. LineOK(inpipe[p], o, q)
  BY <1>0 DEF Inv, Lines, q
<1>11. /\ inpipe[p] \in Upipes /\ \A u \in Upipes : u \in Nat
       /\ \A u \in Nat : o < u /\ u <= inpipe[p] => u \in Upipes
       /\ created \in Nat /\ None \notin Upipes
  <2>1. inpipe[p] \in Upipes /\ created \in Upipes
    BY <1>0 DEF Inv, Types
  <2> QED BY <1>8, <2>1, PipeAssumption DEF Upipes, None
<1>12. /\ Brings(q, inpipe[p])
       /\ \A b \in Nat : Brings(q, b) => o < b /\ b <= inpipe[p]
       /\ inpipe[p] <= created
  BY <1>4, <1>10 DEF LineOK
<1>13. a \in Upipes /\ a # None /\ o < a /\ a <= inpipe[p] /\ a # o /\ inpipe[p] # o
  <2>1. o < a /\ a <= inpipe[p] /\ o < inpipe[p]
    BY <1>4, <1>11, <1>12
  <2>2. a \in Upipes
    BY <1>4, <1>11, <2>1
  <2> QED BY <1>8, <1>11, <2>1, <2>2
<1>14. /\ outpipe' \in [Ends -> Upipes \cup {None}] /\ outpipe'[e] = a
       /\ outpipe'[p] = outpipe[p]
       /\ dropped' \in [Ends -> Nat] /\ dropped'[e] = dropped[e] + k
       /\ dropped'[p] = dropped[p]
  BY <1>0, <1>7, <1>9, <1>13 DEF Inv, Types
<1>15. /\ upipe' \in [Upipes -> Ypipe] /\ upipe'[o] = NewUpipe
       /\ \A u \in Upipes : u # o => upipe'[u] = upipe[u]
  BY <1>7, <1>8, NewEffect DEF Inv, Types
<1>16. Types'
  <2>1. allocated' \subseteq Upipes
    BY <1>7 DEF Inv, Types
  <2> QED BY <1>3, <1>7, <1>14, <1>15, <2>1 DEF Inv, Types
<1>17. \A x \in Ends : Handshake(x)'
  <2>1. HandshakeOK(state[e], state[p], cmds'[e], a, ending[e])
    <3>1. state[e] # "deleted" /\ state[e] \notin Closed
      BY <1>6 DEF Open, Closed
    <3> QED BY <1>4, <1>5, <1>6, <1>13, <3>1 DEF HandshakeOK
  <2>2. HandshakeOK(state[p], state[e], cmds[p], outpipe[p], ending[p])
    BY <1>0 DEF Inv, Handshake
  <2> QED BY <1>0, <1>3, <1>7, <1>14, <2>1, <2>2 DEF Handshake
<1>18. Lines'
  <2>1. LineOK(inpipe[p], a, cmds'[e])
    <3>1. ~ Has(cmds'[e], "hiccup") => inpipe[p] = a
      BY <1>4, <1>12, BringsHas
    <3>2. Has(cmds'[e], "hiccup") => Brings(cmds'[e], inpipe[p])
      <4> SUFFICES ASSUME Has(cmds'[e], "hiccup") PROVE Brings(cmds'[e], inpipe[p])
        OBVIOUS
      <4>1. PICK i \in 1..Len(cmds'[e]) : cmds'[e][i].type = "hiccup"
        BY DEF Has
      <4> DEFINE b == cmds'[e][i].arg
      <4>2. Brings(cmds'[e], b)
        BY <4>1 DEF Brings
      <4>3. b \in Nat
        <5>1. cmds'[e] \in Seq(Cmd)
          BY <1>3
        <5>2. cmds'[e][i] \in Cmd
          BY <5>1, ElementOfSeq
        <5> QED BY <5>2 DEF Cmd
      <4> HIDE DEF b
      <4>4. a < b /\ b <= inpipe[p]
        BY <1>4, <1>12, <4>2, <4>3
      <4>5. a # inpipe[p]
        BY <1>4, <1>11, <4>3, <4>4
      <4> QED BY <1>4, <1>12, <4>5
    <3>3. \A b \in Nat : Brings(cmds'[e], b) => a < b /\ b <= inpipe[p]
      BY <1>4, <1>12
    <3>4. a <= created
      <4>1. a \in Nat /\ inpipe[p] \in Nat /\ created \in Nat
        BY <1>4, <1>11
      <4>2. a <= inpipe[p] /\ inpipe[p] <= created
        BY <1>12, <1>13
      <4> HIDE DEF p
      <4> QED BY <4>1, <4>2
    <3> QED BY <1>4, <1>12, <3>1, <3>2, <3>3, <3>4 DEF LineOK
  <2>2. LineOK(inpipe[e], outpipe[p], cmds[p])
    BY DEF Inv, Lines
  <2>3. LineOK(inpipe[p], outpipe[peer(p)], cmds[peer(p)])'
    BY <1>0, <1>7, <1>14, <2>1 DEF LineOK
  <2>4. LineOK(inpipe[e], outpipe[peer(e)], cmds[peer(e)])'
    BY <1>3, <1>7, <1>14, <2>2 DEF LineOK
  <2> QED BY <1>0, <2>3, <2>4 DEF Lines
<1>19. /\ \A u \in Upipes : OnLine(u, p)' <=> OnLine(u, p) /\ u # o
       /\ \A u \in Upipes : OnLine(u, e)' <=> OnLine(u, e)
       /\ OnLine(o, p) /\ OnLine(a, p)
  <2>1. ~ Brings(cmds'[e], o)
    BY <1>4, <1>8, <1>11, <1>12
  <2>2. \A u \in Upipes : OnLine(u, p)' <=> OnLine(u, p) /\ u # o
    BY <1>0, <1>4, <1>7, <1>13, <1>14, <2>1 DEF OnLine, q
  <2>3. \A u \in Upipes : OnLine(u, e)' <=> OnLine(u, e)
    BY <1>0, <1>3, <1>7, <1>14 DEF OnLine
  <2> QED BY <1>0, <1>4, <2>2, <2>3 DEF OnLine, q
<1>20. Memory'
  <2> SUFFICES ASSUME NEW u \in Upipes
               PROVE  /\ \A x \in Ends : OnLine(u, x)' => ~ OnLine(u, peer(x))'
                      /\ u \in allocated' <=>
                           \E x \in Ends : state'[x] # "deleted" /\ OnLine(u, x)'
    BY DEF Memory
  <2>1. /\ ~ (OnLine(u, e) /\ OnLine(u, p))
        /\ u \in allocated <=> (state[e] # "deleted" /\ OnLine(u, e))
                               \/ (state[p] # "deleted" /\ OnLine(u, p))
    BY <1>0 DEF Inv, Memory
  <2>2. ~ (OnLine(u, e)' /\ OnLine(u, p)')
    BY <1>19, <2>1
  <2>3. u \in allocated' <=> (state'[e] # "deleted" /\ OnLine(u, e)')
                             \/ (state'[p] # "deleted" /\ OnLine(u, p)')
    BY <1>7, <1>19, <2>1
  <2> QED BY <1>0, <2>2, <2>3
<1>21. /\ Data(p)' = a /\ Data(e)' = Data(e) /\ Data(e) \in Upipes
       /\ a # Data(e) /\ o # Data(e)
  <2>1. Data(p)' = a
    BY <1>0, <1>13, <1>14 DEF Data
  <2>2. Data(e)' = Data(e)
    BY <1>0, <1>7, <1>14 DEF Data
  <2>3. OnLine(Data(e), e) /\ Data(e) \in Upipes
    BY Places
  <2>4. \A u \in Upipes : ~ (OnLine(u, e) /\ OnLine(u, p))
    BY <1>0 DEF Inv, Memory
  <2> QED BY <1>8, <1>13, <1>19, <2>1, <2>2, <2>3, <2>4
<1>22. Contents'
  <2>1. \A u \in Upipes : UpipeOK(upipe'[u])
    BY <1>15, NewEffect DEF Inv, Contents
  <2>2. ASSUME NEW u \in Upipes, \A x \in Ends : u # Data(x)' PROVE upipe'[u].items = <<>>
    <3>1. CASE u = o
      BY <1>15, <3>1, NewEffect
    <3>2. CASE u # o
      <4>1. \A x \in Ends : u # Data(x)
        BY <1>0, <1>8, <1>21, <2>2, <3>2
      <4> QED BY <1>15, <3>2, <4>1 DEF Inv, Contents
    <3> QED BY <3>1, <3>2
  <2> QED BY <2>1, <2>2 DEF Contents
<1>23. Done(e)' = Done(e) /\ Done(p)' = msgs_written[e]
  <2>1. /\ msgs_read[p] \in Nat /\ dropped[e] \in Nat
        /\ Done(p) = msgs_read[p] + dropped[e]
        /\ Done(p)' = msgs_read[p] + (dropped[e] + k)
    BY <1>0, <1>7, <1>14 DEF Inv, Types, Done
  <2>2. Done(e)' = Done(e)
    BY <1>7, <1>14 DEF Done
  <2> QED BY <1>9, <2>1, <2>2
<1>24. Balance'
  <2>1. BalanceOK(e)'
    <3>1. upipe'[Data(e)] = upipe[Data(e)]
      BY <1>15, <1>21
    <3> QED BY <1>7, <1>21, <1>23, <3>1, BalanceKept
  <2>2. BalanceOK(p)'
    <3>1. \A x \in Ends : a # Data(x)
      BY <1>0, <1>8, <1>13, <1>21
    <3>2. upipe[a] \in Ypipe /\ UpipeOK(upipe[a]) /\ upipe[a].items = <<>>
      BY <1>13, <3>1 DEF Inv, Contents, Types
    <3>3. Stream(upipe[a], msgs_written[e], msgs_written[e]) /\ ~ Delimited(upipe[a])
      BY <1>8, <3>2, EmptyStream
    <3>4. upipe'[a] = upipe[a]
      BY <1>13, <1>15
    <3>5. msgs_written[e] <= msgs_written[e]
      BY <1>8
    <3> QED BY <1>0, <1>7, <1>21, <1>23, <3>3, <3>4, <3>5 DEF BalanceOK
  <2> QED BY <1>0, <2>1, <2>2 DEF Balance
<1>25. Watermark'
  <2>1. \A x \in Ends : Between(cmds'[x], peers_msgs_read[x], msgs_read[peer(x)])
    BY <1>0, <1>3, <1>4, QueueFacts
  <2> QED BY <1>7, <2>1, WatermarkKept
<1>26. Inside'
  <2>1. InsideOK(p)'
    <3>1. InsideOK(p)
      BY <1>0 DEF Inv, Inside
    <3>2. upipe[inpipe[p]].flushed = 0
      BY <1>0, <1>8, <1>13, Places
    <3> QED BY <1>7, <3>1, <3>2 DEF InsideOK
  <2>2. InsideOK(e)'
    <3>1. InsideOK(e)
      BY DEF Inv, Inside
    <3>2. inpipe[e] \in Upipes /\ inpipe[e] # o
      BY <1>8, Places
    <3>3. upipe'[inpipe[e]] = upipe[inpipe[e]]
      BY <1>15, <3>2
    <3> QED BY <1>7, <1>23, <3>1, <3>3 DEF InsideOK
  <2> QED BY <1>0, <2>1, <2>2 DEF Inside
<1>27. ReadAll'
  <2>1. ReadAllOK(e) /\ ReadAllOK(p)
    BY <1>0 DEF Inv, ReadAll
  <2>2. ReadAllOK(e)'
    BY <1>3, <1>7, <1>23, <2>1 DEF ReadAllOK
  <2>3. ReadAllOK(p)'
    BY <1>0, <1>4, <1>7, <2>1 DEF ReadAllOK, q
  <2> QED BY <1>0, <2>2, <2>3 DEF ReadAll
<1> QED BY <1>16, <1>17, <1>18, <1>20, <1>22, <1>24, <1>25, <1>26, <1>27 DEF Inv

(* process_pipe_term comes in the states that expect it.                   *)
LEMMA PipeTermFacts ==
  ASSUME Inv, NEW e \in Ends, process_pipe_term(e)
  PROVE  /\ cmds[e] # <<>> /\ Head(cmds[e]).type = "pipe_term"
         /\ ending[e] # "delimiter"
         /\ state[e] \in Open \cup {"terminated"}
         /\ state[peer(e)] \in {"terminated", "double_terminated"}
         /\ state[e] \in Open => state[peer(e)] = "terminated"
         /\ ~ Has(cmds[e], "hiccup") /\ ~ Has(cmds[peer(e)], "pipe_term_ack")
         /\ ~ Has(Tail(cmds[e]), "pipe_term")
         /\ \A t : t # "pipe_term" => (Has(Tail(cmds[e]), t) <=> Has(cmds[e], t))
         /\ \A a : Brings(Tail(cmds[e]), a) <=> Brings(cmds[e], a)
         /\ Ordered(Tail(cmds[e])) /\ Rising(Tail(cmds[e]))
         /\ Between(Tail(cmds[e]), peers_msgs_read[e], msgs_read[peer(e)])
<1> DEFINE p == peer(e)
<1>0. p \in Ends /\ p # e /\ peer(p) = e
  BY TwoEnds
<1>1. cmds[e] # <<>> /\ Head(cmds[e]).type = "pipe_term" /\ ending[e] # "delimiter"
  BY DEF process_pipe_term, Receives, Free
<1>2. LET r == Tail(cmds[e])
          h == Head(cmds[e])
      IN  /\ \A t : Has(cmds[e], t) <=> Has(r, t) \/ h.type = t
          /\ \A a : Brings(cmds[e], a) <=>
                      Brings(r, a) \/ (h.type = "hiccup" /\ h.arg = a)
          /\ Ordered(r) /\ Rising(r)
          /\ Between(r, peers_msgs_read[e], msgs_read[p])
          /\ h.type = "pipe_term" =>
               ~ Has(r, "pipe_term") /\ ~ Has(cmds[e], "hiccup")
  BY <1>1, Shorter
<1>3. /\ HandshakeOK(state[e], state[p], cmds[e], outpipe[e], ending[e])
      /\ HandshakeOK(state[p], state[e], cmds[p], outpipe[p], ending[p])
  BY <1>0 DEF Inv, Handshake
<1>4. Has(cmds[e], "pipe_term")
  BY <1>1, <1>2
<1>5. /\ state[e] \in Open \cup {"terminated"}
      /\ state[p] \in {"terminated", "double_terminated"}
      /\ state[e] \in Open => state[p] = "terminated"
      /\ ~ Has(cmds[p], "pipe_term_ack")
  BY <1>3, <1>4 DEF HandshakeOK, Together, Open, Closed
<1> QED BY <1>1, <1>2, <1>5

(* process_pipe_term of an end that lingers: it goes on reading.           *)
LEMMA PendStep ==
  ASSUME Inv, NEW e \in Ends, process_pipe_term(e), state[e] = "active", delay[e]
  PROVE  Inv'
<1> DEFINE p == peer(e)
<1>0. p \in Ends /\ p # e /\ peer(p) = e /\ \A x \in Ends : x = e \/ x = p
  BY TwoEnds
<1>1. /\ state' = [state EXCEPT ![e] = "pending"]
      /\ cmds' = Taken(e)
      /\ UNCHANGED <<outpipe, cut, abort, allocated, created, in_active, out_active,
                     msgs_read, msgs_written, peers_msgs_read, delay, inpipe, upipe,
                     ending, wmore, rmore, dropped, delimiterLost>>
  BY DEF process_pipe_term
<1>2. /\ cmds[e] # <<>> /\ state[p] = "terminated"
      /\ ~ Has(cmds[e], "hiccup") /\ ~ Has(cmds[p], "pipe_term_ack")
      /\ ~ Has(Tail(cmds[e]), "pipe_term")
      /\ \A t : t # "pipe_term" => (Has(Tail(cmds[e]), t) <=> Has(cmds[e], t))
      /\ \A a : Brings(Tail(cmds[e]), a) <=> Brings(cmds[e], a)
      /\ Ordered(Tail(cmds[e])) /\ Rising(Tail(cmds[e]))
      /\ Between(Tail(cmds[e]), peers_msgs_read[e], msgs_read[p])
  BY PipeTermFacts DEF Open
<1>3. /\ cmds' \in [Ends -> Seq(Cmd)] /\ cmds'[e] = Tail(cmds[e])
      /\ cmds'[p] = cmds[p]
  BY <1>1, <1>2, TakenEffect DEF Inv
<1>4. /\ state' \in [Ends -> States]
      /\ state'[e] = "pending" /\ state'[p] = "terminated"
  BY <1>0, <1>1, <1>2 DEF Inv, Types, States
<1>5. Types'
  BY <1>1, <1>3, <1>4 DEF Inv, Types
<1>6. /\ HandshakeOK("active", "terminated", cmds[e], outpipe[e], ending[e])
      /\ HandshakeOK("terminated", "active", cmds[p], outpipe[p], ending[p])
  BY <1>0, <1>2 DEF Inv, Handshake
<1>7. HandshakeOK("pending", "terminated", cmds'[e], outpipe[e], ending[e])
  BY <1>2, <1>3, <1>6 DEF HandshakeOK, Together, Open, Closed
<1>8. HandshakeOK("terminated", "pending", cmds[p], outpipe[p], ending[p])
  BY <1>6 DEF HandshakeOK, Together, Open, Closed
<1>9. \A x \in Ends : Handshake(x)'
  <2>1. Handshake(e)'
    BY <1>1, <1>4, <1>7 DEF Handshake
  <2>2. Handshake(p)'
    BY <1>0, <1>1, <1>3, <1>4, <1>8 DEF Handshake
  <2> QED BY <1>0, <2>1, <2>2
<1>10. Lines' /\ Memory'
  <2>1. SameHiccups
    BY <1>0, <1>2, <1>3, QueueFacts DEF SameHiccups
  <2> QED BY <1>0, <1>1, <1>2, <1>4, <2>1, LinesKept
<1>11. Contents' /\ Balance' /\ \A x \in Ends : Done(x)' = Done(x)
  <2>1. \A x \in Ends : Data(x)' = Data(x)
    BY <1>1 DEF Data
  <2> QED BY <1>0, <1>1, <1>2, <1>4, <2>1, DataSame
<1>12. Watermark'
  <2>1. \A x \in Ends : Between(cmds'[x], peers_msgs_read[x], msgs_read[peer(x)])
    BY <1>0, <1>2, <1>3, QueueFacts
  <2> QED BY <1>1, <2>1, WatermarkKept
<1>13. Inside'
  <2>1. \A x \in Ends : state'[x] \in {"active", "pending"} =>
                          state[x] \in {"active", "pending"}
    BY <1>0, <1>2, <1>4
  <2> QED BY <1>1, <1>11, <2>1, InsideKept
<1>14. ReadAll'
  <2>1. ReadAllOK(p)
    BY <1>0 DEF Inv, ReadAll
  <2>2. ReadAllOK(e)'
    BY <1>4 DEF ReadAllOK
  <2>3. ReadAllOK(p)'
    BY <1>1, <1>2, <1>4, <2>1 DEF ReadAllOK
  <2> QED BY <1>0, <2>2, <2>3 DEF ReadAll
<1> QED BY <1>5, <1>9, <1>10, <1>11, <1>12, <1>13, <1>14 DEF Inv

(* process_pipe_term of an end that does not linger: it answers.           *)
LEMMA AnswerStep ==
  ASSUME Inv, NEW e \in Ends, process_pipe_term(e), ~ (state[e] = "active" /\ delay[e])
  PROVE  Inv'
<1> DEFINE p == peer(e)
           c == Command("pipe_term_ack")
           s == IF state[e] = "terminated" THEN "double_terminated" ELSE "terminating"
<1>0. p \in Ends /\ p # e /\ peer(p) = e /\ \A x \in Ends : x = e \/ x = p
  BY TwoEnds
<1>1. /\ cmds[e] # <<>> /\ ending[e] # "delimiter"
      /\ state[e] \in {"active", "delimited", "terminated"}
      /\ state[p] \in {"terminated", "double_terminated"}
      /\ state[e] # "terminated" => state[p] = "terminated"
      /\ ~ Has(cmds[e], "hiccup") /\ ~ Has(cmds[p], "pipe_term_ack")
      /\ ~ Has(Tail(cmds[e]), "pipe_term")
      /\ \A t : t # "pipe_term" => (Has(Tail(cmds[e]), t) <=> Has(cmds[e], t))
      /\ \A a : Brings(Tail(cmds[e]), a) <=> Brings(cmds[e], a)
      /\ Ordered(Tail(cmds[e])) /\ Rising(Tail(cmds[e]))
      /\ Between(Tail(cmds[e]), peers_msgs_read[e], msgs_read[p])
  BY PipeTermFacts DEF Open
<1>2. /\ state' = [state EXCEPT ![e] = s]
      /\ outpipe' = [outpipe EXCEPT ![e] = None]
      /\ cmds' = Answered(e, c)
      /\ cut' = [cut EXCEPT ![e] = @ \/ state[e] = "active"]
      /\ UNCHANGED <<abort, allocated, created, in_active, out_active,
                     msgs_read, msgs_written, peers_msgs_read, delay, inpipe, upipe,
                     ending, wmore, rmore, dropped, delimiterLost>>
  <2>1. state \in [Ends -> States]
    BY DEF Inv, Types
  <2> QED BY <1>1, <2>1 DEF process_pipe_term
<1>3. c \in Cmd /\ c.type = "pipe_term_ack"
  BY DEF Command, Cmd, CommandTypes
<1> HIDE DEF c
<1>4. /\ cmds' \in [Ends -> Seq(Cmd)] /\ cmds'[e] = Tail(cmds[e])
      /\ cmds'[p] = Append(cmds[p], c)
  BY <1>1, <1>2, <1>3, AnsweredEffect DEF Inv
<1>5. /\ \A t : Has(cmds'[p], t) <=> Has(cmds[p], t) \/ "pipe_term_ack" = t
      /\ \A a : Brings(cmds'[p], a) <=> Brings(cmds[p], a)
      /\ Ordered(cmds'[p]) /\ Rising(cmds'[p])
      /\ Between(cmds'[p], peers_msgs_read[p], msgs_read[e])
  <2>1. c.type \in {"pipe_term", "pipe_term_ack"} /\ c.type # "pipe_term"
    BY <1>3
  <2> DEFINE r == Append(cmds[p], c)
  <2>2. /\ \A t : Has(r, t) <=> Has(cmds[p], t) \/ c.type = t
        /\ \A a : Brings(r, a) <=> Brings(cmds[p], a)
        /\ Ordered(r) /\ Rising(r)
        /\ Between(r, peers_msgs_read[p], msgs_read[peer(p)])
    BY <1>0, <1>1, <1>3, <2>1, Longer
  <2>3. cmds'[p] = r
    BY <1>4
  <2> HIDE DEF r
  <2> QED BY <1>0, <1>3, <2>2, <2>3
<1>6. /\ state' \in [Ends -> States] /\ state'[e] = s /\ state'[p] = state[p]
      /\ cut' \in [Ends -> BOOLEAN] /\ cut'[p] = cut[p]
      /\ cut'[e] = (cut[e] \/ state[e] = "active")
  BY <1>0, <1>2 DEF Inv, Types, States
<1>7. SameHiccups
  BY <1>0, <1>1, <1>4, <1>5, QueueFacts DEF SameHiccups
<1>8. /\ outpipe' \in [Ends -> Upipes \cup {None}] /\ outpipe'[e] = None
      /\ outpipe'[p] = outpipe[p] /\ Lines'
      /\ \A x \in Ends : Data(x)' = Data(x)
      /\ \A x \in Ends : \A u \in Upipes : OnLine(u, x)' <=> OnLine(u, x)
  BY <1>1, <1>2, <1>7, LetGo
<1>9. Types'
  BY <1>2, <1>4, <1>6, <1>8 DEF Inv, Types
<1>10. /\ HandshakeOK(state[e], state[p], cmds[e], outpipe[e], ending[e])
       /\ HandshakeOK(state[p], state[e], cmds[p], outpipe[p], ending[p])
  BY <1>0 DEF Inv, Handshake
<1>11. HandshakeOK(s, state[p], cmds'[e], None, ending[e])
  <2>1. CASE state[e] = "terminated"
    BY <1>1, <1>4, <1>10, <2>1 DEF HandshakeOK, Together, Open, Closed
  <2>2. CASE state[e] \in {"active", "delimited"}
    BY <1>1, <1>4, <1>10, <2>2 DEF HandshakeOK, Together, Open, Closed
  <2> QED BY <1>1, <2>1, <2>2
<1>12. HandshakeOK(state[p], s, cmds'[p], outpipe[p], ending[p])
  <2>1. CASE state[e] = "terminated"
    BY <1>1, <1>5, <1>10, <2>1 DEF HandshakeOK, Together, Open, Closed
  <2>2. CASE state[e] \in {"active", "delimited"}
    BY <1>1, <1>5, <1>10, <2>2 DEF HandshakeOK, Together, Open, Closed
  <2> QED BY <1>1, <2>1, <2>2
<1>13. \A x \in Ends : Handshake(x)'
  <2>1. Handshake(e)'
    BY <1>2, <1>6, <1>8, <1>11 DEF Handshake
  <2>2. Handshake(p)'
    BY <1>0, <1>2, <1>6, <1>8, <1>12 DEF Handshake
  <2> QED BY <1>0, <2>1, <2>2
<1>14. \A x \in Ends : /\ state'[x] = "deleted" <=> state[x] = "deleted"
                       /\ state'[x] \notin {"active", "pending"}
  BY <1>0, <1>1, <1>6
<1>15. Memory'
  BY <1>2, <1>8, <1>14, MemoryKept
<1>16. Contents' /\ Balance' /\ \A x \in Ends : Done(x)' = Done(x)
  BY <1>2, <1>8, <1>14, DataSame
<1>17. Watermark'
  <2>1. \A x \in Ends : Between(cmds'[x], peers_msgs_read[x], msgs_read[peer(x)])
    BY <1>0, <1>1, <1>4, <1>5
  <2> QED BY <1>2, <2>1, WatermarkKept
<1>18. Inside'
  BY <1>14, InsideKept
<1>19. ReadAll'
  <2>1. ReadAllOK(e) /\ ReadAllOK(p)
    BY <1>0 DEF Inv, ReadAll
  <2>2. ReadAllOK(e)'
    BY <1>0, <1>1, <1>2, <1>5, <1>6, <1>16, <2>1 DEF ReadAllOK
  <2>3. ReadAllOK(p)'
    BY <1>1, <1>6, <2>1 DEF ReadAllOK
  <2> QED BY <1>0, <2>2, <2>3 DEF ReadAll
<1> QED BY <1>8, <1>9, <1>13, <1>15, <1>16, <1>17, <1>18, <1>19 DEF Inv

(* process_pipe_term.                                                      *)
LEMMA PipeTermStep ==
  ASSUME Inv, NEW e \in Ends, process_pipe_term(e)
  PROVE  Inv'
BY PendStep, AnswerStep

(* process_pipe_term_ack: the last command there is.  The end and its      *)
(* inpipe go; an end that terminated itself answers.                       *)
LEMMA PipeTermAckStep ==
  ASSUME Inv, NEW e \in Ends, process_pipe_term_ack(e)
  PROVE  Inv'
<1> DEFINE p == peer(e)
           c == Command("pipe_term_ack")
           i == inpipe[e]
<1>0. p \in Ends /\ p # e /\ peer(p) = e /\ \A x \in Ends : x = e \/ x = p
  BY TwoEnds
<1>1. /\ cmds[e] # <<>> /\ Head(cmds[e]).type = "pipe_term_ack"
      /\ ending[e] # "delimiter"
      /\ state' = [state EXCEPT ![e] = "deleted"]
      /\ outpipe' = [outpipe EXCEPT ![e] = None]
      /\ cmds' = IF state[e] = "terminated" THEN Answered(e, c) ELSE Taken(e)
      /\ upipe' = [upipe EXCEPT ![i] = NewUpipe]
      /\ allocated' = allocated \ {i}
      /\ abort' = (abort \/ state[e] \notin {"terminated", "terminating", "double_terminated"})
      /\ UNCHANGED <<created, in_active, out_active, msgs_read, msgs_written,
                     peers_msgs_read, delay, inpipe, ending, wmore, rmore,
                     dropped, delimiterLost, cut>>
  BY DEF process_pipe_term_ack, Receives, Free, history
<1>2. c \in Cmd /\ c.type = "pipe_term_ack"
  BY DEF Command, Cmd, CommandTypes
<1> HIDE DEF c
<1>3. /\ Has(cmds[e], "pipe_term_ack") /\ Tail(cmds[e]) = <<>>
      /\ ~ Has(cmds[e], "hiccup") /\ ~ Has(cmds[e], "pipe_term")
      /\ \A a : ~ Brings(cmds[e], a)
  <2>1. LET r == Tail(cmds[e])
            h == Head(cmds[e])
        IN  /\ \A t : Has(cmds[e], t) <=> Has(r, t) \/ h.type = t
            /\ \A a : Brings(cmds[e], a) <=>
                        Brings(r, a) \/ (h.type = "hiccup" /\ h.arg = a)
            /\ h.type = "pipe_term_ack" => r = <<>>
    BY <1>1, Shorter
  <2>2. Tail(cmds[e]) = <<>>
    BY <1>1, <2>1
  <2> QED BY <1>1, <2>1, <2>2, EmptyQueue
<1>4. /\ HandshakeOK(state[e], state[p], cmds[e], outpipe[e], ending[e])
      /\ HandshakeOK(state[p], state[e], cmds[p], outpipe[p], ending[p])
  BY <1>0 DEF Inv, Handshake
<1>5. /\ state[e] \in {"terminated", "terminating", "double_terminated"}
      /\ state[p] \in Closed
      /\ state[e] = "terminated" =>
           state[p] = "terminating" /\ ~ Has(cmds[p], "pipe_term_ack")
      /\ state[e] = "terminating" => state[p] = "deleted"
      /\ state[e] = "double_terminated" => state[p] \in {"double_terminated", "deleted"}
      /\ outpipe[p] = None /\ ~ Has(cmds[p], "hiccup")
  BY <1>3, <1>4 DEF HandshakeOK, Together, Open, Closed
<1>6. /\ state' \in [Ends -> States] /\ state'[e] = "deleted" /\ state'[p] = state[p]
      /\ abort' = FALSE
  BY <1>0, <1>1, <1>5 DEF Inv, Types, States
<1>7. /\ cmds' \in [Ends -> Seq(Cmd)] /\ cmds'[e] = <<>>
      /\ state[e] = "terminated" => cmds'[p] = Append(cmds[p], c)
      /\ state[e] # "terminated" => cmds'[p] = cmds[p]
  <2>1. CASE state[e] = "terminated"
    BY <1>1, <1>2, <1>3, <2>1, AnsweredEffect DEF Inv
  <2>2. CASE state[e] # "terminated"
    BY <1>1, <1>3, <2>2, TakenEffect DEF Inv
  <2> QED BY <2>1, <2>2
<1>8. /\ \A t : t # "pipe_term_ack" => (Has(cmds'[p], t) <=> Has(cmds[p], t))
      /\ Has(cmds'[p], "pipe_term_ack") <=>
           Has(cmds[p], "pipe_term_ack") \/ state[e] = "terminated"
      /\ \A a : Brings(cmds'[p], a) <=> Brings(cmds[p], a)
      /\ Ordered(cmds'[p]) /\ Rising(cmds'[p])
      /\ Between(cmds'[p], peers_msgs_read[p], msgs_read[e])
  <2>1. CASE state[e] = "terminated"
    <3>1. c.type \in {"pipe_term", "pipe_term_ack"} /\ c.type # "pipe_term"
      BY <1>2
    <3> DEFINE r == Append(cmds[p], c)
    <3>2. /\ \A t : Has(r, t) <=> Has(cmds[p], t) \/ c.type = t
          /\ \A a : Brings(r, a) <=> Brings(cmds[p], a)
          /\ Ordered(r) /\ Rising(r)
          /\ Between(r, peers_msgs_read[p], msgs_read[peer(p)])
      BY <1>0, <1>2, <1>5, <2>1, <3>1, Longer
    <3>3. cmds'[p] = r
      BY <1>7, <2>1
    <3> HIDE DEF r
    <3> QED BY <1>0, <1>2, <2>1, <3>2, <3>3
  <2>2. CASE state[e] # "terminated"
    BY <1>0, <1>7, <2>2, QueueFacts
  <2> QED BY <2>1, <2>2
<1>9. SameHiccups
  BY <1>0, <1>3, <1>7, <1>8, EmptyQueue DEF SameHiccups
<1>10. /\ outpipe' \in [Ends -> Upipes \cup {None}] /\ outpipe'[e] = None
       /\ outpipe'[p] = outpipe[p] /\ Lines'
       /\ \A x \in Ends : Data(x)' = Data(x)
       /\ \A x \in Ends : \A u \in Upipes : OnLine(u, x)' <=> OnLine(u, x)
  BY <1>1, <1>3, <1>9, LetGo
<1>11. /\ i \in Upipes /\ OnLine(i, e) /\ i = Data(e) /\ None \notin Upipes
       /\ Data(p) \in Upipes /\ Data(p) # i
       /\ \A u \in Upipes : OnLine(u, e) => u = i
       /\ ~ OnLine(i, p)
  <2>1. i \in Upipes /\ OnLine(i, e) /\ Data(p) \in Upipes /\ Data(p) # i
    BY <1>0, Places
  <2>2. i = Data(e)
    BY <1>5 DEF Data
  <2>3. \A a : ~ Brings(cmds[p], a)
    BY <1>5, BringsHas
  <2>4. None \notin Upipes
    BY PipeAssumption DEF None, Upipes
  <2>5. \A u \in Upipes : OnLine(u, e) => u = i
    BY <1>5, <2>3, <2>4 DEF OnLine
  <2>6. ~ OnLine(i, p)
    BY <1>0, <2>1 DEF Inv, Memory
  <2> QED BY <2>1, <2>2, <2>4, <2>5, <2>6
<1>12. /\ upipe' \in [Upipes -> Ypipe] /\ upipe'[i] = NewUpipe
       /\ \A u \in Upipes : u # i => upipe'[u] = upipe[u]
  BY <1>1, <1>11, NewEffect DEF Inv, Types
<1> HIDE DEF i
<1>13. Types'
  <2>1. allocated' \subseteq Upipes
    BY <1>1 DEF Inv, Types
  <2> QED BY <1>1, <1>6, <1>7, <1>10, <1>12, <2>1 DEF Inv, Types
<1>14. HandshakeOK("deleted", state[p], <<>>, None, ending[e])
  BY <1>1, <1>5, EmptyQueue DEF HandshakeOK, Together, Open, Closed
<1>15. HandshakeOK(state[p], "deleted", cmds'[p], outpipe[p], ending[p])
  <2>1. CASE state[e] = "terminated"
    BY <1>4, <1>5, <1>8, <2>1 DEF HandshakeOK, Together, Open, Closed
  <2>2. CASE state[e] = "terminating"
    BY <1>4, <1>5, <1>7, <2>2 DEF HandshakeOK, Together, Open, Closed
  <2>3. CASE state[e] = "double_terminated"
    BY <1>4, <1>5, <1>7, <2>3 DEF HandshakeOK, Together, Open, Closed
  <2> QED BY <1>5, <2>1, <2>2, <2>3
<1>16. \A x \in Ends : Handshake(x)'
  <2>1. Handshake(e)'
    BY <1>1, <1>6, <1>7, <1>10, <1>14 DEF Handshake
  <2>2. Handshake(p)'
    BY <1>0, <1>1, <1>6, <1>10, <1>15 DEF Handshake
  <2> QED BY <1>0, <2>1, <2>2
<1>17. Memory'
  <2> SUFFICES ASSUME NEW u \in Upipes
               PROVE  /\ \A x \in Ends : OnLine(u, x)' => ~ OnLine(u, peer(x))'
                      /\ u \in allocated' <=>
                           \E x \in Ends : state'[x] # "deleted" /\ OnLine(u, x)'
    BY DEF Memory
  <2>1. /\ ~ (OnLine(u, e) /\ OnLine(u, p))
        /\ u \in allocated <=> (state[e] # "deleted" /\ OnLine(u, e))
                               \/ (state[p] # "deleted" /\ OnLine(u, p))
    BY <1>0 DEF Inv, Memory
  <2>2. ~ (OnLine(u, e)' /\ OnLine(u, p)')
    BY <1>0, <1>10, <2>1
  <2>3. u \in allocated' <=> (state'[e] # "deleted" /\ OnLine(u, e)')
                             \/ (state'[p] # "deleted" /\ OnLine(u, p)')
    BY <1>0, <1>1, <1>6, <1>10, <1>11, <2>1
  <2> QED BY <1>0, <2>2, <2>3
<1>18. Contents'
  <2>1. \A u \in Upipes : UpipeOK(upipe'[u])
    BY <1>12, NewEffect DEF Inv, Contents
  <2>2. ASSUME NEW u \in Upipes, \A x \in Ends : u # Data(x)' PROVE upipe'[u].items = <<>>
    <3>1. u # i /\ \A x \in Ends : u # Data(x)
      BY <1>10, <1>11, <2>2
    <3> QED BY <1>12, <3>1 DEF Inv, Contents
  <2> QED BY <2>1, <2>2 DEF Contents
<1>19. \A x \in Ends : Done(x)' = Done(x)
  BY <1>1 DEF Done
<1>20. Balance'
  <2>1. BalanceOK(e)'
    <3>1. BalanceOK(e)
      BY DEF Inv, Balance
    <3> QED BY <1>1, <1>6, <1>19, <3>1 DEF BalanceOK
  <2>2. BalanceOK(p)'
    <3>1. upipe'[Data(p)] = upipe[Data(p)]
      BY <1>11, <1>12
    <3>2. state'[e] # "active" /\ (state[p] = "deleted" => state'[p] = "deleted")
      BY <1>6
    <3>3. Data(p)' = Data(p) /\ Done(p)' = Done(p)
      BY <1>0, <1>10, <1>19
    <3> QED BY <1>0, <1>1, <3>1, <3>2, <3>3, BalanceKept
  <2> QED BY <1>0, <2>1, <2>2 DEF Balance
<1>21. Watermark'
  <2>1. \A x \in Ends : Between(cmds'[x], peers_msgs_read[x], msgs_read[peer(x)])
    BY <1>0, <1>7, <1>8, EmptyQueue
  <2> QED BY <1>1, <2>1, WatermarkKept
<1>22. Inside'
  <2>1. \A x \in Ends : state'[x] \notin {"active", "pending"}
    BY <1>0, <1>5, <1>6 DEF Closed
  <2> QED BY <2>1, InsideKept
<1>23. ReadAll'
  <2>1. ReadAllOK(e) /\ ReadAllOK(p)
    BY <1>0 DEF Inv, ReadAll
  <2>2. ReadAllOK(e)'
    <3>1. ASSUME ~ cut[e]
          PROVE  /\ state[p] # "active" /\ ending[p] = "called"
                 /\ ~ Has(cmds[p], "hiccup") /\ Done(e) = msgs_written[p]
      BY <1>5, <2>1, <3>1 DEF ReadAllOK
    <3> QED BY <1>1, <1>6, <1>8, <1>19, <3>1 DEF ReadAllOK
  <2>3. ReadAllOK(p)'
    BY <1>0, <1>1, <1>6, <1>7, <1>19, <2>1, EmptyQueue DEF ReadAllOK
  <2> QED BY <1>0, <2>2, <2>3 DEF ReadAll
<1> QED BY <1>10, <1>13, <1>16, <1>17, <1>18, <1>20, <1>21, <1>22, <1>23 DEF Inv

-----------------------------------------------------------------------------
(***************************************************************************)
(* The theorems.                                                           *)
(***************************************************************************)

(* pipepair establishes the invariant.                                     *)
LEMMA InitInv == Init => Inv
<1> SUFFICES ASSUME Init PROVE Inv
  OBVIOUS
<1>0. /\ Ends = {1, 2} /\ peer(1) = 2 /\ peer(2) = 1 /\ None = 0
      /\ 1 \in Upipes /\ 2 \in Upipes /\ 0 \notin Upipes
  BY PipeAssumption DEF Ends, peer, None, Upipes
<1>1. /\ \A e \in Ends : /\ state[e] = "active" /\ inpipe[e] = e /\ outpipe[e] = peer(e)
                         /\ cmds[e] = <<>> /\ ending[e] = "no" /\ ~ rmore[e]
                         /\ msgs_read[e] = 0 /\ msgs_written[e] = 0
                         /\ peers_msgs_read[e] = 0 /\ dropped[e] = 0
      /\ \A u \in Upipes : upipe[u] = NewUpipe
      /\ allocated = Ends /\ created = 2
  BY DEF Init
<1>2. Types
  <2>1. upipe \in [Upipes -> Ypipe]
    BY NewEffect DEF Init
  <2>2. delay \in [Ends -> BOOLEAN]
    BY PipeAssumption DEF Init
  <2>3. cmds \in [Ends -> Seq(Cmd)]
    BY EmptyQueue DEF Init
  <2>4. inpipe \in [Ends -> Upipes] /\ outpipe \in [Ends -> Upipes \cup {None}]
    BY <1>0 DEF Init
  <2>5. allocated \subseteq Upipes /\ created \in Upipes
    BY <1>0, <1>1
  <2> QED BY <2>1, <2>2, <2>3, <2>4, <2>5 DEF Init, Types, States
<1>3. ASSUME NEW e \in Ends PROVE Handshake(e)
  <2>1. HandshakeOK("active", "active", <<>>, peer(e), "no")
    BY <1>0, EmptyQueue DEF HandshakeOK, Together, Open, Closed
  <2> QED BY <1>1, <2>1, TwoEnds DEF Handshake
<1>4. Lines
  <2>1. ASSUME NEW e \in Ends PROVE LineOK(e, e, <<>>)
    BY <1>0, <1>1, EmptyQueue DEF LineOK
  <2>2. \A e \in Ends : inpipe[e] = e /\ outpipe[peer(e)] = e /\ cmds[peer(e)] = <<>>
    BY <1>1, TwoEnds
  <2> QED BY <2>1, <2>2 DEF Lines
<1>5. \A e \in Ends : \A u : OnLine(u, e) <=> u = e
  BY <1>1, TwoEnds, EmptyQueue DEF OnLine
<1>6. Memory
  BY <1>0, <1>1, <1>5 DEF Memory
<1>7. \A e \in Ends : Data(e) = e /\ Done(e) = 0 /\ e \in Upipes /\ peer(e) \in Ends
  BY <1>0, <1>1, TwoEnds DEF Data, Done
<1>8. Contents
  BY <1>1, NewEffect DEF Contents
<1>9. Balance
  <2>1. Stream(NewUpipe, 0, 0) /\ ~ Delimited(NewUpipe)
    BY NewEffect
  <2> QED BY <1>1, <1>7, <2>1 DEF Balance, BalanceOK
<1>10. Watermark
  <2>1. \A e \in Ends : MaxMsgs[e] \in Nat
    BY PipeAssumption
  <2> QED BY <1>1, <1>7, <2>1, PipeAssumption, EmptyQueue DEF Watermark, WatermarkOK
<1>11. Inside
  BY <1>1 DEF Inside, InsideOK
<1>12. ReadAll
  BY <1>1 DEF ReadAll, ReadAllOK
<1> QED BY <1>2, <1>3, <1>4, <1>6, <1>8, <1>9, <1>10, <1>11, <1>12 DEF Inv

(* Every step keeps it.                                                    *)
LEMMA NextInv == Inv /\ [Next]_vars => Inv'
<1> SUFFICES ASSUME Inv, [Next]_vars PROVE Inv'
  OBVIOUS
<1>1. ASSUME NEW e \in Ends, User(e) PROVE Inv'
  <2>1. CASE check_read(e)
    BY <2>1, CheckReadStep
  <2>2. CASE read(e)
    BY <2>2, ReadStep
  <2>3. CASE check_write(e)
    BY <2>3, FullStep
  <2>4. CASE \E more \in BOOLEAN : write(e, more)
    BY <2>4, WriteStep
  <2>5. CASE rollback(e)
    BY <2>5, RollbackStep
  <2>6. CASE flush(e)
    BY <2>6, FlushStep
  <2>7. CASE hiccup(e)
    BY <2>7, HiccupStep
  <2>8. CASE \E d \in BOOLEAN : terminate(e, d)
    BY <2>8, TerminateStep
  <2> QED BY <1>1, <2>1, <2>2, <2>3, <2>4, <2>5, <2>6, <2>7, <2>8 DEF User
<1>2. ASSUME NEW e \in Ends, Process(e) PROVE Inv'
  BY <1>2, ActivateReadStep, ActivateWriteStep, ProcessHiccupStep, PipeTermStep,
     PipeTermAckStep DEF Process
<1>3. ASSUME NEW e \in Ends, WriteDelimiter(e) PROVE Inv'
  BY <1>3, WriteDelimiterStep
<1>4. CASE UNCHANGED vars
  <2>1. \A x \in Ends : Data(x)' = Data(x) /\ Done(x)' = Done(x)
    BY <1>4 DEF vars, ends, history, Data, Done
  <2>2. Quiet
    BY <1>4, QuietNothing DEF vars
  <2>3. \A x \in Ends : Handshake(x)'
    BY <1>4, <2>2, EndingFacts, QuietHandshake DEF vars, ends
  <2>4. Lines' /\ Memory'
    BY <1>4, <2>2, QuietLines DEF vars, ends
  <2>5. Contents' /\ Balance'
    BY <1>4, DataKept DEF vars, ends, history
  <2>6. Watermark'
    BY <1>4, QueueFacts, WatermarkKept DEF vars, ends
  <2>7. Inside'
    BY <1>4, <2>1, InsideKept DEF vars, ends
  <2>8. ReadAll'
    BY <1>4, <2>1, ReadAllKept DEF vars, ends, history
  <2>9. Types'
    BY <1>4 DEF vars, ends, history, Inv, Types
  <2> QED BY <2>3, <2>4, <2>5, <2>6, <2>7, <2>8, <2>9 DEF Inv
<1> QED BY <1>1, <1>2, <1>3, <1>4 DEF Next

(* The invariant implies that the pair is sound.                           *)
LEMMA InvSound == Inv => PipeSound
<1> SUFFICES ASSUME Inv PROVE PipeSound
  OBVIOUS
<1>1. TypeOK
  <2>1. ASSUME NEW e \in Ends
        PROVE  /\ msgs_written[e] \in 0..MaxMsgs[e]
               /\ msgs_read[e] \in 0..msgs_written[peer(e)]
               /\ peers_msgs_read[e] \in 0..msgs_read[peer(e)]
               /\ dropped[e] \in 0..msgs_written[e]
    <3> DEFINE p == peer(e)
    <3>0. p \in Ends /\ peer(p) = e
      BY TwoEnds
    <3>1. /\ msgs_written[e] \in Nat /\ msgs_read[e] \in Nat /\ peers_msgs_read[e] \in Nat
          /\ dropped[e] \in Nat /\ msgs_written[p] \in Nat /\ msgs_read[p] \in Nat
          /\ dropped[p] \in Nat /\ MaxMsgs[e] \in Nat
      BY <3>0, PipeAssumption DEF Inv, Types
    <3>2. msgs_written[e] <= MaxMsgs[e] /\ peers_msgs_read[e] <= msgs_read[p]
      BY DEF Inv, Watermark, WatermarkOK
    <3>3. msgs_read[e] + dropped[p] <= msgs_written[p]
      BY DEF Inv, Balance, BalanceOK, Done
    <3>4. msgs_read[p] + dropped[e] <= msgs_written[e]
      BY <3>0 DEF Inv, Balance, BalanceOK, Done
    <3> HIDE DEF p
    <3>5. /\ msgs_written[e] \in 0..MaxMsgs[e] /\ msgs_read[e] \in 0..msgs_written[p]
          /\ peers_msgs_read[e] \in 0..msgs_read[p] /\ dropped[e] \in 0..msgs_written[e]
      BY <3>1, <3>2, <3>3, <3>4
    <3> QED BY <3>5 DEF p
  <2>2. ASSUME NEW e \in Ends, NEW i \in DOMAIN cmds[e]
        PROVE  cmds[e][i].type \in CommandTypes
    <3>1. cmds[e] \in Seq(Cmd)
      BY DEF Inv, Types
    <3>2. cmds[e][i] \in Cmd
      BY <3>1, ElementOfSeq, LenProperties
    <3> QED BY <3>2 DEF Cmd
  <2> QED BY <2>1, <2>2 DEF Inv, Types, TypeOK
<1>2. AssertsHold
  BY DEF Inv, Types, AssertsHold
<1>3. NothingDangles
  <2>1. \A e \in Ends : state[e] = "deleted" => cmds[e] = <<>>
    BY QueueFacts
  <2>2. \A e \in Ends : state[e] # "deleted" => inpipe[e] \in allocated
    BY Places DEF Inv, Memory
  <2>3. ASSUME NEW e \in Ends, outpipe[e] # None PROVE outpipe[e] \in allocated
    <3>1. outpipe[e] \in Upipes /\ outpipe[e] = Data(peer(e)) /\ state[peer(e)] # "deleted"
      BY <2>3, OutFacts
    <3>2. peer(e) \in Ends /\ OnLine(Data(peer(e)), peer(e))
      BY TwoEnds, Places
    <3> QED BY <3>1, <3>2 DEF Inv, Memory
  <2>4. (\A e \in Ends : state[e] = "deleted") => allocated = {}
    BY DEF Inv, Memory, Types
  <2> QED BY <2>1, <2>2, <2>3, <2>4 DEF NothingDangles
<1> QED BY <1>1, <1>2, <1>3 DEF PipeSound

(* And that messages are kept.                                             *)
LEMMA InvKept == Inv => MessagesKept
<1> SUFFICES ASSUME Inv PROVE MessagesKept
  OBVIOUS
<1>1. WithinWatermark
  <2> SUFFICES ASSUME NEW e \in Ends, outpipe[e] # None, Hwm > 0
               PROVE  CountMessages(Out(e).items) <= Hwm
    BY DEF WithinWatermark
  <2> DEFINE p == peer(e)
             k == CountMessages(Out(e).items)
  <2>0. p \in Ends /\ peer(p) = e
    BY TwoEnds
  <2>1. /\ Out(e) \in Ypipe /\ Stream(Out(e), Done(p), msgs_written[e])
        /\ msgs_written[e] \in Nat
    BY OutFacts
  <2>2. k \in Nat
    BY <2>1, CountIsCardinality DEF Ypipe
  <2>3. msgs_read[p] + dropped[e] + k = msgs_written[e]
    BY <2>0, <2>1 DEF Stream, Done
  <2>4. peers_msgs_read[e] <= msgs_read[p] /\ msgs_written[e] <= peers_msgs_read[e] + Hwm
    BY DEF Inv, Watermark, WatermarkOK
  <2>5. /\ msgs_read[p] \in Nat /\ dropped[e] \in Nat /\ peers_msgs_read[e] \in Nat
        /\ Hwm \in Nat
    BY <2>0, PipeAssumption DEF Inv, Types
  <2> HIDE DEF p, k
  <2>6. k <= Hwm
    BY <2>1, <2>2, <2>3, <2>4, <2>5
  <2> QED BY <2>6 DEF k
<1>2. WholeMessages
  <2> SUFFICES ASSUME NEW e \in Ends, rmore[e], state[e] \in {"active", "pending"}
               PROVE  /\ in_active[e] /\ In(e).flushed > 0
                      /\ Head(In(e).items).msg = msgs_read[e] + dropped[peer(e)] + 1
    BY DEF WholeMessages
  <2>1. in_active[e] /\ In(e).flushed > 0 /\ In(e).items[1].msg = Done(e) + 1
    BY DEF Inv, Inside, InsideOK, In
  <2>2. In(e) \in Ypipe /\ UpipeOK(In(e))
    BY Places DEF In
  <2>3. In(e).items \in Seq(Item) /\ Len(In(e).items) > 0
    BY <2>1, <2>2 DEF Ypipe, UpipeOK
  <2>4. Head(In(e).items) = In(e).items[1]
    <3>1. In(e).items # <<>>
      BY <2>3, EmptySeq
    <3> QED BY <2>3, <3>1, HeadTailProperties
  <2> QED BY <2>1, <2>4 DEF Done
<1>3. DelayKeepsMessages
  BY DEF Inv, ReadAll, ReadAllOK, Done, DelayKeepsMessages
<1> QED BY <1>1, <1>2, <1>3 DEF MessagesKept

(* The invariant holds of every behaviour of the pair.                     *)
LEMMA Invariance == Spec => []Inv
BY InitInv, NextInv, PTL DEF Spec

\* In every behaviour, for every watermark, bound and choice of users, the
\* types hold, no assertion of pipe.cpp fails, no end that is gone is sent a
\* command, and no ypipe that is gone is used or one that nobody uses left.
THEOREM PipeSafe == Spec => []PipeSound
BY Invariance, InvSound, PTL

\* In every behaviour a pipe holds no more messages than the watermark, a
\* reader inside a message finds the rest of that message before it, and an
\* end that goes without giving messages up has read all that its peer wrote
\* and no hiccup destroyed.
THEOREM PipeKeepsMessages == Spec => []MessagesKept
BY Invariance, InvKept, PTL

=============================================================================

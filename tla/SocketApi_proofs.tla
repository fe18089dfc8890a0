-------------------------- MODULE SocketApi_proofs --------------------------
(***************************************************************************)
(* The calls on a socket never give up on what is there, and its options   *)
(* are what was set, for every number of sockets, every watermark and      *)
(* polling rate and every plan of an application and its peers.            *)
(*                                                                         *)
(* IInv joins what the pipe, the mailbox and the call know of each other:  *)
(* a reader that is passive sleeps before an empty pipe or has a command   *)
(* on its way, a writer learns from its commands all that was read, and a  *)
(* call that had something to do when it began has it until it returns.    *)
(* OInv says that the options are those that were accepted, and PInv that  *)
(* what zmq_proxy received from a peer is what it forwarded, then the part *)
(* it has in hand, then what waits in the pipe.                            *)
(***************************************************************************)
EXTENDS SocketApi, FiniteSetTheorems, SequenceTheorems, WellFoundedInduction,
        TLAPS

-----------------------------------------------------------------------------
(* The invariant *)

PartSet == [m : Int, more : BOOLEAN]
Command == [type : {"activate_read", "activate_write", "stop"}, read : Nat]

\* What a socket is made of.
SocketType(x) ==
  /\ DOMAIN x = {"in", "in_active", "asleep", "out", "written", "known",
                 "cmds", "ticks", "rcvmore", "ctx_terminated", "options"}
  /\ x.in \in Seq(PartSet) /\ x.out \in Seq(PartSet) /\ x.cmds \in Seq(Command)
  /\ x.in_active \in BOOLEAN /\ x.asleep \in BOOLEAN
  /\ x.written \in Nat /\ x.known \in Nat /\ x.ticks \in 0..Rate + 1
  /\ x.rcvmore \in BOOLEAN /\ x.ctx_terminated \in BOOLEAN

Sent(x, type) == {i \in DOMAIN x.cmds : x.cmds[i].type = type}

\* The reader of the pipe is active, or asleep before an empty pipe, or
\* woken by a command it has not taken.
Reading(x) ==
  /\ x.in_active => Sent(x, "activate_read") = {}
  /\ x.asleep => /\ ~x.in_active /\ x.in = <<>>
                 /\ Sent(x, "activate_read") = {}
  /\ ~x.asleep => x.in_active \/ Sent(x, "activate_read") # {}

\* Once it has taken its commands the writer knows of all n messages that
\* the peer has told of.
Knows(x, n) ==
  IF Sent(x, "activate_write") = {} THEN x.known = n
  ELSE \E i \in Sent(x, "activate_write") :
         /\ \A j \in Sent(x, "activate_write") : j <= i
         /\ x.cmds[i].read = n

Ends(out) == {i \in DOMAIN out : ~out[i].more}

\* Of the messages written the peer n has read some, told of some of these,
\* and the pipe holds those it has not read.
Peer(n) == n.told \in Nat /\ n.read \in Nat /\ n.told <= n.read
Writing(x, n) ==
  /\ Peer(n) /\ Knows(x, n.told) /\ x.known <= n.told /\ n.read <= x.written
  /\ x.written - n.told <= Hwm
  /\ IsFiniteSet(Ends(x.out))
  /\ Cardinality(Ends(x.out)) = x.written - n.read

Sound(x, n) == SocketType(x) /\ Reading(x) /\ Writing(x, n)

Sockets ==
  /\ DOMAIN sk = Socks /\ DOMAIN peer = Socks
  /\ \A s \in Socks : /\ DOMAIN peer[s] = {"sent", "read", "told", "got"}
                      /\ peer[s].told \in Nat /\ peer[s].sent \in Nat
                      /\ Sound(sk[s], peer[s])

\* What was set, and the filters the socket was bound with.
Remembered ==
  /\ DOMAIN sk["f"].options = Settable /\ DOMAIN app.set = Settable
  /\ \A o \in Settable : Stores(o, plan.keepalive) =>
                           sk["f"].options[o] = app.set[o]
Bound ==
  /\ DOMAIN listener = {"s", "plugged", "term", "options"}
  /\ listener.s \in {"retired", "open"}
  /\ listener.s = "open" =>
       listener.options["TCP_ACCEPT_FILTER"] = app.bound

AppType ==
  /\ DOMAIN app = {"pc", "from", "rev", "part", "next", "set", "bound",
                   "came"}
  /\ app.from \in Socks /\ app.part \in PartSet

Time == clock \in [now : 0..MaxTime, last : Int] /\ clock.last <= clock.now

Pcs == {"idle", "enter", "rate", "try", "nowait", "last", "wait", "retry",
        "first", "events"}
CallType ==
  call \in [fn : {"none", "recv", "send", "poll"}, pc : Pcs, s : Socks,
            timeo : Int, left : Int, end : Int, until : Int, t0 : Int,
            block : BOOLEAN, part : PartSet, was : BOOLEAN, i : Nat,
            seen : SUBSET {"in", "err"}, rev : SUBSET (Socks \cup {"raw"})]

\* The end of a call with a timeout, and when its wait ends.
Timed ==
  call.timeo > 0 =>
    /\ call.t0 + call.timeo - 1 <= call.end
    /\ call.end <= call.t0 + call.timeo
    /\ call.left >= 0
    /\ call.pc = "wait" => call.until <= call.t0 + call.timeo + 1

\* A message that was there stays there, and once the commands are taken
\* the reader knows of it.
Receiving ==
  call.fn = "recv" =>
    /\ call.pc \in {"enter", "rate", "try", "nowait", "last", "wait", "retry"}
    /\ call.was => sk[call.s].in # <<>>
    /\ call.pc \in {"nowait", "last"} => call.timeo = 0
    /\ call.pc \in {"last", "retry"} /\ call.was => sk[call.s].in_active
    /\ call.pc \in {"wait", "retry"} => Timed

Sending ==
  call.fn = "send" =>
    /\ call.pc \in {"enter", "try", "wait", "retry"}
    /\ call.was => call.timeo # 0 /\ Writable(call.s)
    /\ call.pc = "retry" /\ call.was => CanWrite(sk[call.s])
    /\ call.pc \in {"wait", "retry"} => Timed

\* An item with something to read, and one that the pass over the items has
\* not come to.
There(j) == IF Items[j] = "raw" THEN RawEvents # {}
            ELSE sk[Items[j]].in # <<>>
Ahead(j) == /\ call.i <= j
            /\ IF Items[j] = "raw" THEN call.seen # {}
               ELSE sk[Items[j]].in # <<>>

Polling ==
  call.fn = "poll" =>
    /\ call.pc \in {"enter", "first", "events", "wait"} /\ call.left = 0
    /\ call.was => \E j \in DOMAIN Items : There(j)
    /\ call.pc = "events" =>
         /\ call.i \in 1..Len(Items) + 1
         /\ call.was /\ call.rev = {} => \E j \in DOMAIN Items : Ahead(j)
         /\ call.block => Timed
    /\ call.pc = "wait" => Timed

Calls == /\ CallType /\ Receiving /\ Sending /\ Polling
         /\ call.fn = "none" => call.pc = "idle"

Answer ==
  /\ ret.rc \in {"ok", "error", "EINVAL", "EAGAIN", "EINTR", "ETERM"}
  /\ ret.part \in PartSet /\ ret.timeo \in Int /\ ret.t0 \in Int
  /\ ret.was \in BOOLEAN
  /\ NothingOverlooked
  /\ GaveUp /\ ret.timeo > 0 => clock.now >= ret.t0 + ret.timeo - 1

IInv == /\ plan \in Plans /\ raw \subseteq {"in", "err"}
        /\ Sockets /\ AppType /\ Time /\ Calls /\ Answer

OInv == Remembered /\ Bound /\ OptionsKept

-----------------------------------------------------------------------------
(* Taking the commands *)

LEMMA Least ==
  ASSUME NEW T, T \subseteq Nat, T # {}
  PROVE  \E m \in T : \A n \in T : m <= n
<1>1. PICK m \in T : \A n \in T : ~(<<n, m>> \in OpToRel(<, Nat))
  BY NatLessThanWellFounded, WFMin
<1>2. \A n \in T : ~(n < m) BY <1>1 DEF OpToRel
<1>3. QED BY <1>2

\* F is the function of the definition of Drain, up to the command k.
IsAfter(F, x, k) ==
  F = [n \in 0..k |-> IF n = 0 THEN [x EXCEPT !.cmds = <<>>]
                      ELSE process_command(F[n - 1], x.cmds[n])]

LEMMA AfterExists ==
  ASSUME NEW x, NEW N \in Nat
  PROVE  \E F : IsAfter(F, x, N)
<1> DEFINE T == {k \in Nat : ~\E F : IsAfter(F, x, k)}
<1>1. SUFFICES ASSUME T # {} PROVE FALSE OBVIOUS
<1>2. PICK m \in T : \A n \in T : m <= n BY <1>1, Least
<1>3. m # 0
  <2> DEFINE F == [n \in 0..0 |-> [x EXCEPT !.cmds = <<>>]]
  <2>1. F = [n \in 0..0 |-> IF n = 0 THEN [x EXCEPT !.cmds = <<>>]
                            ELSE process_command(F[n - 1], x.cmds[n])]
    OBVIOUS
  <2>2. IsAfter(F, x, 0) BY <2>1 DEF IsAfter
  <2>3. QED BY <2>2
<1>4. m - 1 \in Nat /\ m - 1 \notin T BY <1>2, <1>3
<1>5. PICK F : IsAfter(F, x, m - 1) BY <1>4
<1> DEFINE G == [n \in 0..m |-> IF n = m
                             THEN process_command(F[m - 1], x.cmds[m])
                                ELSE F[n]]
           H == [n \in 0..m |-> IF n = 0 THEN [x EXCEPT !.cmds = <<>>]
                                ELSE process_command(G[n - 1], x.cmds[n])]
<1>6. ASSUME NEW n \in 0..m PROVE G[n] = H[n]
  <2>1. CASE n = m
    <3>1. m - 1 \in 0..m /\ m - 1 # m /\ m # 0 /\ m \in 0..m BY <1>3, <1>4
    <3>2. G[m - 1] = F[m - 1] BY <3>1
    <3>3. QED BY <2>1, <3>1, <3>2
  <2>2. CASE n # m
    <3>1. n \in 0..m - 1 BY <2>2
    <3>2. F[n] = IF n = 0 THEN [x EXCEPT !.cmds = <<>>]
                 ELSE process_command(F[n - 1], x.cmds[n])
      BY <1>5, <3>1, Zenon DEF IsAfter
    <3>3. n # 0 => n - 1 \in 0..m /\ n - 1 # m BY <3>1
    <3>4. n # 0 => G[n - 1] = F[n - 1] BY <3>3
    <3>5. QED BY <2>2, <3>2, <3>4
  <2>3. QED BY <2>1, <2>2
<1>7. G = H BY <1>6
<1>8. IsAfter(G, x, m) BY <1>7 DEF IsAfter
<1>9. QED BY <1>2, <1>8

LEMMA DrainIs ==
  ASSUME NEW x, x.cmds \in Seq(Command)
  PROVE  \E F : IsAfter(F, x, Len(x.cmds)) /\ Drain(x) = F[Len(x.cmds)]
<1> DEFINE N == Len(x.cmds)
<1> DEFINE A == CHOOSE F : IsAfter(F, x, N)
<1>1. N \in Nat OBVIOUS
<1>2. \E F : IsAfter(F, x, N) BY <1>1, AfterExists
<1>3. IsAfter(A, x, N) BY <1>2, Zenon
<1>4. Drain(x) = A[N] BY DEF Drain, IsAfter
<1>5. QED BY <1>3, <1>4

\* a is x after its first k commands.
Upto(x, a, k) ==
  /\ DOMAIN a = DOMAIN x
  /\ a.in = x.in /\ a.asleep = x.asleep /\ a.out = x.out
  /\ a.written = x.written /\ a.ticks = x.ticks /\ a.rcvmore = x.rcvmore
  /\ a.options = x.options /\ a.cmds = <<>> /\ a.ctx_terminated \in BOOLEAN
  /\ a.in_active = (x.in_active \/ \E i \in 1..k :
                                   x.cmds[i].type = "activate_read")
  /\ \/ /\ \A i \in 1..k : x.cmds[i].type # "activate_write"
        /\ a.known = x.known
     \/ \E i \in 1..k :
          /\ x.cmds[i].type = "activate_write" /\ a.known = x.cmds[i].read
          /\ \A j \in 1..k : x.cmds[j].type = "activate_write" => j <= i

LEMMA UptoNext ==
  ASSUME NEW x, SocketType(x), NEW k \in 1..Len(x.cmds), NEW a,
         Upto(x, a, k - 1)
  PROVE  Upto(x, process_command(a, x.cmds[k]), k)
<1> DEFINE c == x.cmds[k]
           b == process_command(a, c)
<1>0. c \in Command BY DEF SocketType
<1>1. \A i : i \in 1..k <=> i \in 1..k - 1 \/ i = k OBVIOUS
<1>2. CASE c.type = "activate_read"
  <2>1. b = [a EXCEPT !.in_active = TRUE] BY <1>2 DEF process_command
  <2>2. QED BY <1>0, <1>1, <1>2, <2>1 DEF Upto, SocketType
<1>3. CASE c.type = "activate_write"
  <2>1. b = [a EXCEPT !.known = c.read] BY <1>3 DEF process_command
  <2>2. b.known = c.read BY <2>1 DEF Upto, SocketType
  <2>3. \E i \in 1..k :
          /\ x.cmds[i].type = "activate_write" /\ b.known = x.cmds[i].read
          /\ \A j \in 1..k : x.cmds[j].type = "activate_write" => j <= i
    BY <1>3, <2>2
  <2>4. (\E i \in 1..k : x.cmds[i].type = "activate_read")
          <=> \E i \in 1..k - 1 : x.cmds[i].type = "activate_read"
    BY <1>1, <1>3
  <2>5. /\ DOMAIN b = DOMAIN a /\ b.in = a.in /\ b.asleep = a.asleep
        /\ b.out = a.out /\ b.written = a.written /\ b.ticks = a.ticks
        /\ b.rcvmore = a.rcvmore /\ b.options = a.options /\ b.cmds = a.cmds
        /\ b.ctx_terminated = a.ctx_terminated /\ b.in_active = a.in_active
    BY <2>1 DEF Upto, SocketType
  <2> HIDE DEF b
  <2>6. b.in_active = (x.in_active \/ \E i \in 1..k :
                                      x.cmds[i].type = "activate_read")
    BY <2>4, <2>5 DEF Upto
  <2>7. /\ DOMAIN b = DOMAIN x
        /\ b.in = x.in /\ b.asleep = x.asleep /\ b.out = x.out
        /\ b.written = x.written /\ b.ticks = x.ticks /\ b.rcvmore = x.rcvmore
        /\ b.options = x.options /\ b.cmds = <<>> /\ b.ctx_terminated \in BOOLEAN
    BY <2>5 DEF Upto
  <2>8. \/ /\ \A i \in 1..k : x.cmds[i].type # "activate_write"
           /\ b.known = x.known
        \/ \E i \in 1..k :
             /\ x.cmds[i].type = "activate_write" /\ b.known = x.cmds[i].read
             /\ \A j \in 1..k : x.cmds[j].type = "activate_write" => j <= i
    BY <2>3
  <2>9. Upto(x, b, k) BY <2>6, <2>7, <2>8 DEF Upto
  <2>10. QED BY <2>9 DEF b
<1>4. CASE c.type = "stop"
  <2>1. b = [a EXCEPT !.ctx_terminated = TRUE] BY <1>4 DEF process_command
  <2>2. QED BY <1>0, <1>1, <1>4, <2>1 DEF Upto, SocketType
<1>5. QED BY <1>0, <1>2, <1>3, <1>4 DEF Command

LEMMA Drained ==
  ASSUME NEW x, SocketType(x)
  PROVE  Upto(x, Drain(x), Len(x.cmds))
<1> DEFINE N == Len(x.cmds)
<1>1. N \in Nat /\ x.cmds \in Seq(Command) BY DEF SocketType
<1>2. PICK F : IsAfter(F, x, N) /\ Drain(x) = F[N] BY <1>1, DrainIs
<1> DEFINE T == {k \in 0..N : ~Upto(x, F[k], k)}
<1>3. SUFFICES ASSUME T # {} PROVE FALSE BY <1>1, <1>2
<1>4. PICK k \in T : \A n \in T : k <= n
  <2>1. T \subseteq Nat BY <1>1
  <2>2. QED BY <1>3, <2>1, Least
<1>5. F[k] = IF k = 0 THEN [x EXCEPT !.cmds = <<>>]
             ELSE process_command(F[k - 1], x.cmds[k])
  BY <1>2, Zenon DEF IsAfter
<1>6. k # 0
  <2>1. Upto(x, [x EXCEPT !.cmds = <<>>], 0) BY DEF Upto, SocketType
  <2>2. QED BY <1>5, <2>1
<1>7. Upto(x, F[k - 1], k - 1) BY <1>1, <1>4, <1>6
<1>8. Upto(x, F[k], k) BY <1>1, <1>5, <1>6, <1>7, UptoNext
<1>9. QED BY <1>8

\* With its commands taken a socket knows all that it was told.
LEMMA DrainSound ==
  ASSUME NEW x, NEW n, Sound(x, n)
  PROVE  /\ Sound(Drain(x), n)
         /\ Drain(x).in = x.in /\ Drain(x).options = x.options
         /\ Drain(x).written = x.written /\ Drain(x).known = n.told
         /\ Drain(x).in # <<>> => Drain(x).in_active
<1> DEFINE y == Drain(x)
           N == Len(x.cmds)
<1>0. SocketType(x) /\ Reading(x) /\ Writing(x, n) BY DEF Sound
<1>1. Upto(x, y, N) BY <1>0, Drained
<1>2. N \in Nat /\ DOMAIN x.cmds = 1..N BY <1>0 DEF SocketType
<1>3. y.known = n.told
  <2>1. CASE Sent(x, "activate_write") = {}
    BY <1>0, <1>1, <1>2, <2>1 DEF Upto, Sent, Writing, Knows
  <2>2. CASE Sent(x, "activate_write") # {}
    <3>1. PICK i \in Sent(x, "activate_write") :
            /\ \A j \in Sent(x, "activate_write") : j <= i
            /\ x.cmds[i].read = n.told
      BY <1>0, <2>2 DEF Writing, Knows
    <3>2. i \in 1..N /\ x.cmds[i].type = "activate_write"
      BY <1>2, <3>1 DEF Sent
    <3>3. PICK h \in 1..N :
            /\ x.cmds[h].type = "activate_write" /\ y.known = x.cmds[h].read
            /\ \A j \in 1..N : x.cmds[j].type = "activate_write" => j <= h
      BY <1>1, <3>2 DEF Upto
    <3>4. h \in Sent(x, "activate_write") BY <1>2, <3>3 DEF Sent
    <3>5. h = i BY <3>1, <3>2, <3>3, <3>4
    <3>6. QED BY <3>1, <3>3, <3>5
  <2>3. QED BY <2>1, <2>2
<1>4. y.in_active = (x.in_active \/ Sent(x, "activate_read") # {})
  BY <1>1, <1>2 DEF Upto, Sent
<1>5. y.cmds = <<>> /\ y.in = x.in /\ y.asleep = x.asleep /\ y.out = x.out
      /\ y.written = x.written /\ y.options = x.options
  BY <1>1 DEF Upto
<1>6. SocketType(y)
  <2>1. n.told \in Nat BY <1>0 DEF Writing, Peer
  <2>2. QED BY <1>0, <1>1, <1>3, <1>4, <2>1 DEF Upto, SocketType
<1>7. Sent(y, "activate_read") = {} /\ Sent(y, "activate_write") = {}
  BY <1>5 DEF Sent
<1>8. Reading(y) BY <1>0, <1>4, <1>5, <1>7 DEF Reading
<1>9. Writing(y, n)
  <2>1. Knows(y, n.told) BY <1>3, <1>7 DEF Knows
  <2>2. n.told <= n.told BY <1>0 DEF Writing, Peer
  <2>3. QED BY <1>0, <1>3, <1>5, <2>1, <2>2 DEF Writing
<1>10. y.in # <<>> => y.in_active BY <1>0, <1>4, <1>5 DEF Reading, SocketType
<1>11. QED BY <1>3, <1>5, <1>6, <1>8, <1>9, <1>10 DEF Sound

LEMMA CheckReadSound ==
  ASSUME NEW x, NEW n, Sound(x, n)
  PROVE  /\ Sound(check_read(x), n)
         /\ check_read(x).in = x.in /\ check_read(x).options = x.options
         /\ check_read(x).written = x.written
         /\ check_read(x).known = x.known
         /\ x.in # <<>> => check_read(x) = x
         /\ x.ctx_terminated = check_read(x).ctx_terminated
<1> DEFINE y == check_read(x)
<1>0. SocketType(x) /\ Reading(x) /\ Writing(x, n) BY DEF Sound
<1>1. CASE x.in_active /\ x.in = <<>>
  <2>1. y = [x EXCEPT !.in_active = FALSE, !.asleep = TRUE]
    BY <1>1 DEF check_read
  <2>2. /\ DOMAIN y = DOMAIN x /\ y.in = x.in /\ y.options = x.options
        /\ y.written = x.written /\ y.known = x.known /\ y.cmds = x.cmds
        /\ y.out = x.out /\ y.ticks = x.ticks /\ y.rcvmore = x.rcvmore
        /\ y.ctx_terminated = x.ctx_terminated
        /\ y.in_active = FALSE /\ y.asleep = TRUE
    BY <1>0, <2>1 DEF SocketType
  <2>3. SocketType(y) BY <1>0, <2>2 DEF SocketType
  <2>4. Reading(y) BY <1>0, <1>1, <2>2 DEF Reading, Sent
  <2>5. Writing(y, n) BY <1>0, <2>2 DEF Writing, Knows, Sent
  <2>6. QED BY <1>1, <2>2, <2>3, <2>4, <2>5 DEF Sound
<1>2. CASE ~(x.in_active /\ x.in = <<>>) BY <1>2 DEF check_read
<1>3. QED BY <1>1, <1>2

\* A part is read: what the writer knows stays.
LEMMA XrecvSound ==
  ASSUME NEW x, NEW n, Sound(x, n), CanRead(x), NEW t \in 0..Rate + 1
  PROVE  /\ Sound(xrecv(x), n) /\ Head(x.in) \in PartSet
         /\ xrecv(x).options = x.options
         /\ Sound([xrecv(x) EXCEPT !.ticks = t], n)
         /\ [xrecv(x) EXCEPT !.ticks = t].options = x.options
<1> DEFINE y == xrecv(x)
           z == [y EXCEPT !.ticks = t]
<1>0. SocketType(x) /\ Reading(x) /\ Writing(x, n) /\ x.in_active
      /\ x.in # <<>>
  BY DEF Sound, CanRead
<1>1. Head(x.in) \in PartSet /\ Tail(x.in) \in Seq(PartSet)
  BY <1>0 DEF SocketType
<1>2. Head(x.in).more \in BOOLEAN BY <1>1 DEF PartSet
<1>3. /\ DOMAIN y = DOMAIN x /\ y.in = Tail(x.in) /\ y.options = x.options
      /\ y.written = x.written /\ y.known = x.known /\ y.cmds = x.cmds
      /\ y.out = x.out /\ y.ticks = x.ticks /\ y.rcvmore = Head(x.in).more
      /\ y.ctx_terminated = x.ctx_terminated
      /\ y.in_active = x.in_active /\ y.asleep = x.asleep
  BY <1>0 DEF SocketType, xrecv
<1>4. ~x.asleep BY <1>0 DEF Reading
<1>5. Sound(y, n)
  <2>1. SocketType(y) BY <1>0, <1>1, <1>2, <1>3 DEF SocketType
  <2>2. Reading(y) BY <1>0, <1>3, <1>4 DEF Reading, Sent
  <2>3. Writing(y, n) BY <1>0, <1>3 DEF Writing, Knows, Sent
  <2>4. QED BY <2>1, <2>2, <2>3 DEF Sound
<1>6. Sound(z, n) /\ z.options = y.options
  <2>1. /\ DOMAIN z = DOMAIN y /\ z.in = y.in /\ z.options = y.options
        /\ z.written = y.written /\ z.known = y.known /\ z.cmds = y.cmds
        /\ z.out = y.out /\ z.ticks = t /\ z.rcvmore = y.rcvmore
        /\ z.ctx_terminated = y.ctx_terminated
        /\ z.in_active = y.in_active /\ z.asleep = y.asleep
    BY <1>5 DEF SocketType, Sound
  <2>2. SocketType(z) BY <1>5, <2>1 DEF SocketType, Sound
  <2>3. Reading(z) BY <1>5, <2>1 DEF Reading, Sent, Sound
  <2>4. Writing(z, n) BY <1>5, <2>1 DEF Writing, Knows, Sent, Sound
  <2>5. QED BY <2>1, <2>2, <2>3, <2>4 DEF Sound
<1>7. QED BY <1>1, <1>3, <1>5, <1>6
LEMMA TicksSound ==
  ASSUME NEW x, NEW n, Sound(x, n), NEW t \in 0..Rate + 1
  PROVE  LET z == [x EXCEPT !.ticks = t]
         IN /\ Sound(z, n) /\ z.options = x.options /\ z.in = x.in
            /\ z.in_active = x.in_active
<1> DEFINE z == [x EXCEPT !.ticks = t]
<1>1. /\ DOMAIN z = DOMAIN x /\ z.in = x.in /\ z.options = x.options
      /\ z.written = x.written /\ z.known = x.known /\ z.cmds = x.cmds
      /\ z.out = x.out /\ z.ticks = t /\ z.rcvmore = x.rcvmore
      /\ z.ctx_terminated = x.ctx_terminated
      /\ z.in_active = x.in_active /\ z.asleep = x.asleep
  BY DEF SocketType, Sound
<1>2. SocketType(z) BY <1>1 DEF SocketType, Sound
<1>3. Reading(z) BY <1>1 DEF Reading, Sent, Sound
<1>4. Writing(z, n) BY <1>1 DEF Writing, Knows, Sent, Sound
<1>5. QED BY <1>1, <1>2, <1>3, <1>4 DEF Sound

LEMMA OptionsSound ==
  ASSUME NEW x, NEW n, Sound(x, n), NEW opts
  PROVE  Sound([x EXCEPT !.options = opts], n)
<1> DEFINE z == [x EXCEPT !.options = opts]
<1>1. /\ DOMAIN z = DOMAIN x /\ z.in = x.in
      /\ z.written = x.written /\ z.known = x.known /\ z.cmds = x.cmds
      /\ z.out = x.out /\ z.ticks = x.ticks /\ z.rcvmore = x.rcvmore
      /\ z.ctx_terminated = x.ctx_terminated
      /\ z.in_active = x.in_active /\ z.asleep = x.asleep
  BY DEF SocketType, Sound
<1>2. SocketType(z) BY <1>1 DEF SocketType, Sound
<1>3. Reading(z) BY <1>1 DEF Reading, Sent, Sound
<1>4. Writing(z, n) BY <1>1 DEF Writing, Knows, Sent, Sound
<1>5. QED BY <1>2, <1>3, <1>4 DEF Sound

LEMMA EndsAppend ==
  ASSUME NEW out \in Seq(PartSet), NEW p \in PartSet, NEW k \in Nat,
         IsFiniteSet(Ends(out)), Cardinality(Ends(out)) = k
  PROVE  /\ IsFiniteSet(Ends(Append(out, p)))
         /\ Cardinality(Ends(Append(out, p))) = IF p.more THEN k ELSE k + 1
<1> DEFINE N == Len(out)
           o == Append(out, p)
<1>1. /\ N \in Nat /\ DOMAIN out = 1..N /\ DOMAIN o = 1..N + 1
      /\ o[N + 1] = p /\ \A i \in 1..N : o[i] = out[i]
  OBVIOUS
<1>2. CASE p.more
  <2>1. Ends(o) = Ends(out) BY <1>1, <1>2 DEF Ends
  <2>2. QED BY <1>2, <2>1
<1>3. CASE ~p.more
  <2>1. Ends(o) = Ends(out) \cup {N + 1} BY <1>1, <1>3 DEF Ends
  <2>2. N + 1 \notin Ends(out) BY <1>1 DEF Ends
  <2>3. QED BY <1>3, <2>1, <2>2, FS_AddElement
<1>4. QED BY <1>2, <1>3

LEMMA XsendSound ==
  ASSUME NEW x, NEW n, Sound(x, n), CanWrite(x), NEW p \in PartSet
  PROVE  Sound(xsend(x, p), n) /\ xsend(x, p).options = x.options
<1> DEFINE y == xsend(x, p)
           w == IF p.more THEN x.written ELSE x.written + 1
<1>0. SocketType(x) /\ Reading(x) /\ Writing(x, n) BY DEF Sound
<1>1. /\ DOMAIN y = DOMAIN x /\ y.in = x.in /\ y.options = x.options
      /\ y.written = w /\ y.known = x.known /\ y.cmds = x.cmds
      /\ y.out = Append(x.out, p) /\ y.ticks = x.ticks
      /\ y.rcvmore = x.rcvmore /\ y.ctx_terminated = x.ctx_terminated
      /\ y.in_active = x.in_active /\ y.asleep = x.asleep
  BY <1>0 DEF SocketType, xsend
<1>2. x.out \in Seq(PartSet) /\ x.written \in Nat /\ x.known \in Nat
  BY <1>0 DEF SocketType
<1>3. /\ n.told \in Nat /\ n.read \in Nat /\ n.read <= x.written
      /\ x.written - x.known < Hwm /\ x.known <= n.told
      /\ x.written - n.told <= Hwm
  BY <1>0 DEF Writing, Peer, CanWrite
<1>4. Hwm \in Nat BY SocketApiAssumption
<1>5. w \in Nat /\ n.read <= w /\ w - n.told <= Hwm BY <1>2, <1>3, <1>4
<1>6. IsFiniteSet(Ends(y.out)) /\ Cardinality(Ends(y.out)) = w - n.read
  <2>1. /\ IsFiniteSet(Ends(x.out))
        /\ Cardinality(Ends(x.out)) = x.written - n.read
    BY <1>0 DEF Writing
  <2>2. x.written - n.read \in Nat BY <1>2, <1>3
  <2>3. /\ IsFiniteSet(Ends(Append(x.out, p)))
        /\ Cardinality(Ends(Append(x.out, p))) =
             IF p.more THEN x.written - n.read ELSE x.written - n.read + 1
    BY <1>2, <2>1, <2>2, EndsAppend
  <2>4. QED BY <1>1, <1>2, <1>3, <2>3
<1>7. SocketType(y)
  <2>1. Append(x.out, p) \in Seq(PartSet) BY <1>2
  <2>2. QED BY <1>0, <1>1, <1>5, <2>1 DEF SocketType
<1>8. Reading(y) BY <1>0, <1>1 DEF Reading, Sent
<1>9. Writing(y, n) 
  <2>1. Knows(y, n.told) BY <1>0, <1>1 DEF Writing, Knows, Sent
  <2>2. QED BY <1>0, <1>1, <1>3, <1>5, <1>6, <2>1 DEF Writing
<1>10. QED BY <1>1, <1>7, <1>8, <1>9 DEF Sound

\* One more command on its way.
OneMore(x, y, c) == /\ x.cmds \in Seq(Command) /\ c \in Command
                    /\ y.cmds = Append(x.cmds, c)

LEMMA SentAppend ==
  ASSUME NEW x, NEW y, NEW c, OneMore(x, y, c)
  PROVE  /\ y.cmds \in Seq(Command)
         /\ \A type : Sent(y, type) = IF c.type = type
                            THEN Sent(x, type) \cup {Len(x.cmds) + 1}
                            ELSE Sent(x, type)
         /\ y.cmds[Len(x.cmds) + 1] = c
<1> DEFINE N == Len(x.cmds)
<1>1. /\ N \in Nat /\ DOMAIN x.cmds = 1..N /\ DOMAIN y.cmds = 1..N + 1
      /\ y.cmds[N + 1] = c /\ \A i \in 1..N : y.cmds[i] = x.cmds[i]
      /\ y.cmds \in Seq(Command)
  BY DEF OneMore
<1>2. QED BY <1>1 DEF Sent

LEMMA KeptAppend ==
  ASSUME NEW x, NEW y, NEW c, OneMore(x, y, c)
  PROVE  \A i \in DOMAIN x.cmds : /\ i <= Len(x.cmds) + 1
                                  /\ y.cmds[i] = x.cmds[i]
BY DEF OneMore

LEMMA ShortSequences ==
  ASSUME NEW S, NEW a \in S, NEW b \in S
  PROVE  /\ <<a, b>> \in Seq(S) /\ <<a>> \in Seq(S)
         /\ <<a, b>> # <<>> /\ <<a>> # <<>>
OBVIOUS

LEMMA PartsType ==
  ASSUME NEW m \in Int
  PROVE  Parts(m) \in Seq(PartSet) /\ Parts(m) # <<>>
<1>1. Part(m, TRUE) \in PartSet /\ Part(m, FALSE) \in PartSet
  BY DEF Part, PartSet
<1>2. QED BY <1>1, ShortSequences, Zenon DEF Parts

\* The peer has sent message m.
PeerSent(x, y, m) ==
  y = [x EXCEPT !.in = @ \o Parts(m), !.asleep = FALSE,
         !.cmds = IF x.asleep
                  THEN Append(@, [type |-> "activate_read", read |-> 0])
                  ELSE @]

LEMMA SendsSound ==
  ASSUME NEW x, NEW n, Sound(x, n), NEW m \in Int, NEW y,
         PeerSent(x, y, m)
  PROVE  /\ Sound(y, n) /\ y.in # <<>>
         /\ y.options = x.options /\ y.written = x.written
         /\ y.known = x.known /\ y.in_active = x.in_active
<1> DEFINE c == [type |-> "activate_read", read |-> 0]
           cs == IF x.asleep THEN Append(x.cmds, c) ELSE x.cmds
<1>0. SocketType(x) /\ Reading(x) /\ Writing(x, n) BY DEF Sound
<1>1. c \in Command /\ c.type = "activate_read" BY DEF Command
<1> HIDE DEF c
<1>2. x.in \in Seq(PartSet) /\ x.cmds \in Seq(Command) /\ cs \in Seq(Command)
  BY <1>0, <1>1 DEF SocketType
<1>3. Parts(m) \in Seq(PartSet) /\ Parts(m) # <<>> BY PartsType
<1>4. x.in \o Parts(m) \in Seq(PartSet) /\ x.in \o Parts(m) # <<>>
  <2>1. Len(x.in \o Parts(m)) = Len(x.in) + Len(Parts(m)) BY <1>2, <1>3
  <2>2. Len(Parts(m)) > 0 /\ Len(x.in) \in Nat BY <1>2, <1>3
  <2>3. QED BY <1>2, <1>3, <2>1, <2>2
<1>5. /\ DOMAIN y = DOMAIN x /\ y.in = x.in \o Parts(m)
      /\ y.options = x.options /\ y.written = x.written
      /\ y.known = x.known /\ y.cmds = cs /\ y.out = x.out
      /\ y.ticks = x.ticks /\ y.rcvmore = x.rcvmore
      /\ y.ctx_terminated = x.ctx_terminated
      /\ y.in_active = x.in_active /\ y.asleep = FALSE
  BY <1>0 DEF SocketType, c, PeerSent
<1>6. SocketType(y) BY <1>0, <1>2, <1>4, <1>5 DEF SocketType
<1>7. /\ x.asleep => Sent(y, "activate_read") # {}
      /\ ~x.asleep => Sent(y, "activate_read") = Sent(x, "activate_read")
  <2>1. CASE x.asleep
    <3>1. OneMore(x, y, c) BY <1>1, <1>2, <1>5, <2>1 DEF OneMore
    <3>2. Sent(y, "activate_read")
            = Sent(x, "activate_read") \cup {Len(x.cmds) + 1}
      BY <1>1, <3>1, SentAppend
    <3>3. QED BY <2>1, <3>2
  <2>2. CASE ~x.asleep BY <1>5, <2>2 DEF Sent
  <2>3. QED BY <2>1, <2>2
<1>8. Reading(y) BY <1>0, <1>5, <1>7 DEF Reading
<1>9. Knows(y, n.told)
  <2>1. CASE x.asleep
    <3>1. OneMore(x, y, c) BY <1>1, <1>2, <1>5, <2>1 DEF OneMore
    <3>2. Sent(y, "activate_write") = Sent(x, "activate_write")
      BY <1>1, <3>1, SentAppend
    <3>3. \A i \in Sent(x, "activate_write") : y.cmds[i] = x.cmds[i]
      <4>1. \A i \in DOMAIN x.cmds : y.cmds[i] = x.cmds[i]
        BY <3>1, KeptAppend
      <4>2. QED BY <4>1 DEF Sent
    <3>4. QED BY <1>0, <1>5, <3>2, <3>3 DEF Writing, Knows
  <2>2. CASE ~x.asleep BY <1>0, <1>5, <2>2 DEF Sent, Writing, Knows
  <2>3. QED BY <2>1, <2>2
<1>10. Writing(y, n) BY <1>0, <1>5, <1>9 DEF Writing
<1>11. QED BY <1>4, <1>5, <1>6, <1>8, <1>10 DEF Sound

LEMMA StopSound ==
  ASSUME NEW x, NEW n, Sound(x, n), NEW y,
         y = [x EXCEPT !.cmds = Append(@, [type |-> "stop", read |-> 0])]
  PROVE  /\ Sound(y, n) /\ y.in = x.in
         /\ y.options = x.options /\ y.written = x.written
         /\ y.known = x.known /\ y.in_active = x.in_active
<1> DEFINE c == [type |-> "stop", read |-> 0]
<1>0. SocketType(x) /\ Reading(x) /\ Writing(x, n) BY DEF Sound
<1>1. c \in Command /\ c.type = "stop" BY DEF Command
<1>2. x.cmds \in Seq(Command) BY <1>0 DEF SocketType
<1>3. /\ DOMAIN y = DOMAIN x /\ y.in = x.in
      /\ y.options = x.options /\ y.written = x.written
      /\ y.known = x.known /\ y.cmds = Append(x.cmds, c) /\ y.out = x.out
      /\ y.ticks = x.ticks /\ y.rcvmore = x.rcvmore
      /\ y.ctx_terminated = x.ctx_terminated
      /\ y.in_active = x.in_active /\ y.asleep = x.asleep
  BY <1>0 DEF SocketType
<1> HIDE DEF c
<1>4. OneMore(x, y, c) /\ y.cmds \in Seq(Command)
  BY <1>1, <1>2, <1>3 DEF OneMore
<1>5. SocketType(y) BY <1>0, <1>3, <1>4 DEF SocketType
<1>6. Sent(y, "activate_read") = Sent(x, "activate_read")
  BY <1>1, <1>4, SentAppend
<1>7. Reading(y) BY <1>0, <1>3, <1>6 DEF Reading
<1>8. /\ Sent(y, "activate_write") = Sent(x, "activate_write")
      /\ \A i \in Sent(x, "activate_write") : y.cmds[i] = x.cmds[i]
  <2>1. Sent(y, "activate_write") = Sent(x, "activate_write")
    BY <1>1, <1>4, SentAppend
  <2>2. \A i \in Sent(x, "activate_write") : y.cmds[i] = x.cmds[i]
    BY <1>4, KeptAppend DEF Sent
  <2>3. QED BY <2>1, <2>2
<1>9. Knows(y, n.told) BY <1>0, <1>3, <1>8 DEF Writing, Knows
<1>10. Writing(y, n) BY <1>0, <1>3, <1>9 DEF Writing
<1>11. QED BY <1>3, <1>5, <1>7, <1>10 DEF Sound

\* What the pipe holds after the first part was taken out of it.
LEMMA EndsAfter ==
  ASSUME NEW out \in Seq(PartSet), out # <<>>, IsFiniteSet(Ends(out))
  PROVE  /\ Tail(out) \in Seq(PartSet) /\ Head(out) \in PartSet
         /\ IsFiniteSet(Ends(Tail(out)))
         /\ Cardinality(Ends(Tail(out)))
              = IF Head(out).more THEN Cardinality(Ends(out))
                ELSE Cardinality(Ends(out)) - 1
<1> DEFINE N == Len(out)
           rest == Tail(out)
           S == Ends(out) \ {1}
           f == [i \in S |-> i - 1]
<1>1. /\ N \in Nat /\ N >= 1 /\ DOMAIN out = 1..N /\ 1 \in 1..N
      /\ Head(out) = out[1] /\ Head(out) \in PartSet
  OBVIOUS
<1>2. /\ rest \in Seq(PartSet) /\ DOMAIN rest = 1..N - 1
      /\ \A i \in 1..N - 1 : rest[i] = out[i + 1]
  BY <1>1
<1> HIDE DEF rest
<1>3. \A i \in S : i \in 2..N /\ i - 1 \in Ends(rest)
  <2>1. SUFFICES ASSUME NEW i \in Ends(out), i # 1
                 PROVE  i \in 2..N /\ i - 1 \in Ends(rest)
    OBVIOUS
  <2>2. i \in 2..N /\ ~out[i].more BY <1>1, <2>1 DEF Ends
  <2>3. i - 1 \in 1..N - 1 /\ i - 1 + 1 = i BY <1>1, <2>2
  <2>4. rest[i - 1] = out[i] BY <1>2, <2>3
  <2>5. QED BY <1>2, <2>2, <2>3, <2>4 DEF Ends
<1>4. \A k \in Ends(rest) : k \in Int /\ k + 1 \in S /\ (k + 1) - 1 = k
  BY <1>1, <1>2 DEF Ends
<1>5. f \in Bijection(S, Ends(rest))
  <2>1. f \in [S -> Ends(rest)] BY <1>3
  <2>2. \A a, b \in S : f[a] = f[b] => a = b BY <1>1, <1>3
  <2>3. ASSUME NEW k \in Ends(rest) PROVE \E i \in S : f[i] = k
    <3>1. k + 1 \in S /\ (k + 1) - 1 = k BY <1>4
    <3>2. f[k + 1] = (k + 1) - 1 BY <3>1
    <3>3. QED BY <3>1, <3>2
  <2> HIDE DEF f, S
  <2>4. QED BY <2>1, <2>2, <2>3
          DEF Bijection, Injection, Surjection, IsInjective
<1>6. /\ IsFiniteSet(S)
      /\ Cardinality(S) = IF 1 \in Ends(out) THEN Cardinality(Ends(out)) - 1
                          ELSE Cardinality(Ends(out))
  <2>1. CASE 1 \in Ends(out) BY <2>1, FS_RemoveElement
  <2>2. CASE 1 \notin Ends(out)
    <3>1. S = Ends(out) BY <2>2
    <3>2. QED BY <2>2, <3>1
  <2>3. QED BY <2>1, <2>2
<1>7. 1 \in Ends(out) <=> ~Head(out).more BY <1>1 DEF Ends
<1>8. ExistsBijection(S, Ends(rest)) BY <1>5 DEF ExistsBijection
<1>9. IsFiniteSet(Ends(rest)) /\ Cardinality(Ends(rest)) = Cardinality(S)
  BY <1>6, <1>8, FS_Bijection
<1> HIDE DEF S
<1>10. QED BY <1>1, <1>2, <1>6, <1>7, <1>9 DEF rest

\* The peer n, now b, has read the next part of x; tells says whether it
\* tells of it.
PeerRead(x, y, n, b, tells) ==
  /\ b.read = IF Head(x.out).more THEN n.read ELSE n.read + 1
  /\ b.told = IF tells THEN b.read ELSE n.told
  /\ y = [x EXCEPT !.out = Tail(@),
            !.cmds = IF tells
                     THEN Append(@, [type |-> "activate_write",
                                     read |-> b.read])
                     ELSE @]

LEMMA ReadsSound ==
  ASSUME NEW x, NEW n, Sound(x, n), NEW y, NEW b, NEW tells \in BOOLEAN,
         Ends(x.out) # {}, PeerRead(x, y, n, b, tells)
  PROVE  /\ Sound(y, b) /\ n.told <= b.told /\ y.in = x.in
         /\ y.options = x.options /\ y.written = x.written
         /\ y.known = x.known /\ y.in_active = x.in_active
<1> DEFINE c == [type |-> "activate_write", read |-> b.read]
           cs == IF tells THEN Append(x.cmds, c) ELSE x.cmds
           rest == Tail(x.out)
           more == Head(x.out).more
<1>0. SocketType(x) /\ Reading(x) /\ Writing(x, n) BY DEF Sound
<1>1. x.cmds \in Seq(Command) /\ x.out \in Seq(PartSet) /\ x.written \in Nat
      /\ x.known \in Nat /\ x.out # <<>>
  BY <1>0 DEF SocketType, Ends
<1>2. /\ n.told \in Nat /\ n.read \in Nat /\ n.told <= n.read
      /\ Knows(x, n.told) /\ x.known <= n.told /\ x.written - n.told <= Hwm
      /\ n.read <= x.written /\ IsFiniteSet(Ends(x.out))
      /\ Cardinality(Ends(x.out)) = x.written - n.read
  BY <1>0 DEF Writing, Peer
<1>3. /\ rest \in Seq(PartSet) /\ more \in BOOLEAN
      /\ IsFiniteSet(Ends(rest))
      /\ Cardinality(Ends(rest)) = IF more THEN Cardinality(Ends(x.out))
                                   ELSE Cardinality(Ends(x.out)) - 1
  BY <1>1, <1>2, EndsAfter DEF PartSet
<1>4. Cardinality(Ends(rest)) \in Nat BY <1>3, FS_CardinalityType
<1>5. b.read = IF more THEN n.read ELSE n.read + 1 BY DEF PeerRead
<1>6. b.told = IF tells THEN b.read ELSE n.told BY DEF PeerRead
<1>7. /\ DOMAIN y = DOMAIN x /\ y.in = x.in
      /\ y.options = x.options /\ y.written = x.written
      /\ y.known = x.known /\ y.cmds = cs /\ y.out = rest
      /\ y.ticks = x.ticks /\ y.rcvmore = x.rcvmore
      /\ y.ctx_terminated = x.ctx_terminated
      /\ y.in_active = x.in_active /\ y.asleep = x.asleep
  BY <1>0 DEF SocketType, PeerRead
<1>8. b.read \in Nat /\ n.read <= b.read /\ b.read <= x.written
      /\ Cardinality(Ends(rest)) = x.written - b.read
  <2> DEFINE m == Cardinality(Ends(rest))
  <2>1. m \in Nat /\ m = IF more THEN x.written - n.read
                         ELSE x.written - n.read - 1
    BY <1>2, <1>3, <1>4
  <2> HIDE DEF m, more
  <2>2. CASE more BY <1>1, <1>2, <1>5, <2>1, <2>2 DEF m
  <2>3. CASE ~more BY <1>1, <1>2, <1>5, <2>1, <2>3 DEF m
  <2>4. QED BY <2>2, <2>3
<1>9. /\ b.told \in Nat /\ n.told <= b.told /\ b.told <= b.read
      /\ x.known <= b.told /\ x.written - b.told <= Hwm
  <2>1. Hwm \in Nat BY SocketApiAssumption
  <2>2. QED BY <1>1, <1>2, <1>6, <1>8, <2>1
<1>10. c \in Command /\ c.type = "activate_write" /\ c.read = b.read
  BY <1>8 DEF Command
<1> HIDE DEF c
<1>11. tells => OneMore(x, y, c) BY <1>1, <1>7, <1>10 DEF OneMore
<1>12. y.cmds \in Seq(Command) BY <1>1, <1>7, <1>11, SentAppend
<1>13. SocketType(y) BY <1>0, <1>3, <1>7, <1>12 DEF SocketType
<1>14. Sent(y, "activate_read") = Sent(x, "activate_read")
  <2>1. CASE tells BY <1>10, <1>11, <2>1, SentAppend
  <2>2. CASE ~tells BY <1>7, <2>2 DEF Sent
  <2>3. QED BY <2>1, <2>2
<1>15. Reading(y) BY <1>0, <1>7, <1>14 DEF Reading
<1>16. Knows(y, b.told)
  <2>1. CASE tells
    <3> DEFINE M == Len(x.cmds) + 1
    <3>1. Sent(y, "activate_write") = Sent(x, "activate_write") \cup {M}
      BY <1>10, <1>11, <2>1, SentAppend
    <3>2. \A i \in Sent(x, "activate_write") : i <= M
      BY <1>11, <2>1, KeptAppend DEF Sent
    <3>3. M \in Nat /\ M <= M BY <1>1
    <3>4. y.cmds[M].read = b.told BY <1>6, <1>10, <1>11, <2>1, SentAppend
    <3>5. QED BY <3>1, <3>2, <3>3, <3>4 DEF Knows
  <2>2. CASE ~tells BY <1>2, <1>6, <1>7, <2>2 DEF Knows, Sent
  <2>3. QED BY <2>1, <2>2
<1>17. Writing(y, b) BY <1>3, <1>7, <1>8, <1>9, <1>16 DEF Writing, Peer
<1>18. QED BY <1>7, <1>9, <1>13, <1>15, <1>17 DEF Sound

\* F is the function of the definition of FlattenSeq, up to k.
IsFlat(F, ss, k) ==
  F = [i \in 1..k |-> IF i = 1 THEN ss[i] ELSE F[i - 1] \o ss[i]]

LEMMA FlatExists ==
  ASSUME NEW ss, NEW N \in Nat
  PROVE  \E F : IsFlat(F, ss, N)
<1> DEFINE T == {k \in Nat : ~\E F : IsFlat(F, ss, k)}
<1>1. SUFFICES ASSUME T # {} PROVE FALSE OBVIOUS
<1>2. PICK m \in T : \A n \in T : m <= n BY <1>1, Least
<1>3. m # 0
  <2> DEFINE F == [i \in 1..0 |-> ss[i]]
  <2>1. F = [i \in 1..0 |-> IF i = 1 THEN ss[i] ELSE F[i - 1] \o ss[i]]
    OBVIOUS
  <2>2. IsFlat(F, ss, 0) BY <2>1 DEF IsFlat
  <2>3. QED BY <2>2
<1>4. m - 1 \in Nat /\ m - 1 \notin T BY <1>2, <1>3
<1>5. PICK F : IsFlat(F, ss, m - 1) BY <1>4
<1> DEFINE G == [i \in 1..m |-> IF i = m
                                THEN IF m = 1 THEN ss[m] ELSE F[m - 1] \o ss[m]
                                ELSE F[i]]
           H == [i \in 1..m |-> IF i = 1 THEN ss[i] ELSE G[i - 1] \o ss[i]]
<1>6. ASSUME NEW i \in 1..m PROVE G[i] = H[i]
  <2>1. CASE i = m
    <3>1. m # 1 => m - 1 \in 1..m /\ m - 1 # m BY <1>3, <1>4
    <3>2. m # 1 => G[m - 1] = F[m - 1] BY <3>1
    <3>3. QED BY <2>1, <3>2
  <2>2. CASE i # m
    <3>1. i \in 1..m - 1 BY <2>2
    <3>2. F[i] = IF i = 1 THEN ss[i] ELSE F[i - 1] \o ss[i]
      BY <1>5, <3>1, Zenon DEF IsFlat
    <3>3. i # 1 => i - 1 \in 1..m /\ i - 1 # m BY <3>1
    <3>4. i # 1 => G[i - 1] = F[i - 1] BY <3>3
    <3>5. QED BY <2>2, <3>2, <3>4
  <2>3. QED BY <2>1, <2>2
<1>7. G = H BY <1>6
<1>8. IsFlat(G, ss, m) BY <1>7 DEF IsFlat
<1>9. QED BY <1>2, <1>8

LEMMA FlattenSeqType ==
  ASSUME NEW S, NEW ss \in Seq(Seq(S))
  PROVE  FlattenSeq(ss) \in Seq(S)
<1> DEFINE N == Len(ss)
           A == CHOOSE F : IsFlat(F, ss, N)
<1>1. N \in Nat /\ \A i \in 1..N : ss[i] \in Seq(S) OBVIOUS
<1>2. CASE N = 0
  <2>1. ss \in Seq(S) BY <1>2
  <2>2. QED BY <1>2, <2>1 DEF FlattenSeq
<1>3. CASE N # 0
  <2>1. \E F : IsFlat(F, ss, N) BY <1>1, FlatExists
  <2>2. IsFlat(A, ss, N) BY <2>1, Zenon
  <2>3. FlattenSeq(ss) = A[N] BY <1>3 DEF FlattenSeq, IsFlat
  <2> HIDE DEF A
  <2> DEFINE T == {k \in 1..N : A[k] \notin Seq(S)}
  <2>4. SUFFICES ASSUME T # {} PROVE FALSE
    <3>1. N \in 1..N BY <1>1, <1>3
    <3> HIDE DEF N
    <3>2. QED BY <2>3, <3>1
  <2>5. T \subseteq Nat BY <1>1
  <2>6. PICK k \in T : \A n \in T : k <= n
    <3> HIDE DEF T
    <3>1. QED BY <2>4, <2>5, Least
  <2>7. A[k] = IF k = 1 THEN ss[k] ELSE A[k - 1] \o ss[k]
    BY <2>2, Zenon DEF IsFlat
  <2>8. k # 1 => A[k - 1] \in Seq(S)
    <3>1. k # 1 => k - 1 \in 1..N /\ k - 1 \notin T BY <1>1, <2>6
    <3>2. QED BY <3>1
  <2>9. A[k] \in Seq(S) BY <1>1, <2>7, <2>8
  <2>10. QED BY <2>9
<1>4. QED BY <1>2, <1>3

-----------------------------------------------------------------------------
(* The steps of a call *)

LEMMA Becoming ==
  ASSUME Sockets, NEW s \in Socks, NEW x, Sound(x, peer[s]),
         Becomes(s, x), peer' = peer
  PROVE  /\ Sockets' /\ sk'[s] = x
         /\ \A t \in Socks : t # s => sk'[t] = sk[t]
         /\ x.options = sk[s].options =>
              sk'["f"].options = sk["f"].options
<1>1. DOMAIN sk = Socks /\ sk' = [sk EXCEPT ![s] = x] BY DEF Sockets, Becomes
<1>2. DOMAIN sk' = Socks /\ sk'[s] = x
      /\ \A t \in Socks : t # s => sk'[t] = sk[t]
  BY <1>1
<1>3. Sockets' BY <1>2 DEF Sockets
<1>4. "f" \in Socks BY SocketApiAssumption
<1>5. QED BY <1>2, <1>3, <1>4

\* What taking the commands makes of x.
Took(x, y, n) == /\ Sound(y, n) /\ y.in = x.in /\ y.options = x.options
                 /\ y.written = x.written
Fresh(y, n) == y.known = n.told /\ (y.in # <<>> => y.in_active)

LEMMA Results ==
  ASSUME Sockets, NEW s \in Socks, NEW timeout, NEW throttle \in BOOLEAN,
         NEW r \in process_commands(s, timeout, throttle)
  PROVE  /\ Took(sk[s], r.x, peer[s])
         /\ r.rc \in {"ok", "ETERM", "EINTR"}
         /\ ~throttle => Fresh(r.x, peer[s])
<1> DEFINE n == peer[s]
           y == Drain(sk[s])
<1>1. Sound(sk[s], n) BY DEF Sockets
<1>2. Took(sk[s], y, n) /\ Fresh(y, n)
  BY <1>1, DrainSound DEF Took, Fresh
<1>3. Took(sk[s], sk[s], n) BY <1>1 DEF Took
<1>4. \/ throttle /\ r = [x |-> sk[s], rc |-> "ok"]
      \/ r = [x |-> y, rc |-> IF y.ctx_terminated THEN "ETERM" ELSE "ok"]
      \/ r = [x |-> y, rc |-> "EINTR"]
  BY DEF process_commands
<1>5. CASE throttle /\ r = [x |-> sk[s], rc |-> "ok"] BY <1>3, <1>5
<1> HIDE DEF y
<1>6. CASE r = [x |-> y, rc |-> IF y.ctx_terminated THEN "ETERM" ELSE "ok"]
  BY <1>2, <1>6
<1>7. CASE r = [x |-> y, rc |-> "EINTR"] BY <1>2, <1>7
<1>8. QED BY <1>4, <1>5, <1>6, <1>7

Codes == {"ok", "error", "EINVAL", "EAGAIN", "EINTR", "ETERM"}

\* A call may return when nothing was overlooked and its time has passed.
Allowed(rc) ==
  /\ call.was => IF call.fn = "poll" THEN rc = "ok" => call.rev # {}
                 ELSE rc # "EAGAIN"
  /\ (rc = "EAGAIN" \/ (call.fn = "poll" /\ rc = "ok" /\ call.rev = {}))
       /\ call.timeo > 0
       => clock.now >= call.t0 + call.timeo - 1

LEMMA NoPartType == NoPart \in PartSet
BY DEF NoPart, Part, PartSet

LEMMA NoCallType ==
  NoCall \in [fn : {"none", "recv", "send", "poll"}, pc : Pcs,
              s : Socks, timeo : Int, left : Int, end : Int, until : Int,
              t0 : Int, block : BOOLEAN, part : PartSet, was : BOOLEAN, i : Nat,
              seen : SUBSET {"in", "err"}, rev : SUBSET (Socks \cup {"raw"})]
<1>1. 0 \in Int /\ 1 \in Nat OBVIOUS
<1>2. "f" \in Socks /\ NoPart \in PartSet BY SocketApiAssumption, NoPartType
<1>3. FALSE \in BOOLEAN /\ "none" \in {"none", "recv", "send", "poll"}
      /\ {} \in SUBSET {"in", "err"}
      /\ {} \in SUBSET (Socks \cup {"raw"})
  BY Zenon
<1>4. "idle" \in Pcs BY Zenon DEF Pcs
<1>5. QED BY <1>1, <1>2, <1>3, <1>4, Zenon DEF NoCall

LEMMA Returning ==
  ASSUME CallType, Time, clock'.now = clock.now, call.fn # "none",
         NEW rc \in Codes, NEW part \in PartSet, Allowed(rc), Return(rc, part)
  PROVE  Calls' /\ Answer' /\ ret'.fn # "getsockopt"
<1>1. call' = NoCall BY DEF Return
<1>2. NoCall.fn = "none" /\ NoCall.pc = "idle" BY DEF NoCall
<1>3. CallType' BY <1>1, NoCallType DEF CallType
<1>4. Calls' BY <1>1, <1>2, <1>3 DEF Calls, Receiving, Sending, Polling
<1>5. /\ ret'.fn = call.fn /\ ret'.rc = rc /\ ret'.part = part
      /\ ret'.rev = call.rev /\ ret'.was = call.was
      /\ ret'.timeo = call.timeo /\ ret'.t0 = call.t0
  BY DEF Return, NoRet
<1>6. /\ call.fn \in {"recv", "send", "poll"} /\ call.was \in BOOLEAN
      /\ call.timeo \in Int /\ call.t0 \in Int
  BY DEF CallType
<1>7. NothingOverlooked'
  BY <1>5, <1>6 DEF NothingOverlooked, Allowed
<1>8. (GaveUp /\ ret.timeo > 0 => clock.now >= ret.t0 + ret.timeo - 1)'
  BY <1>5 DEF GaveUp, Allowed
<1>9. Answer' BY <1>5, <1>6, <1>7, <1>8 DEF Answer, Codes
<1>10. QED BY <1>4, <1>5, <1>6, <1>9

\* The call goes on.
Going(pc) ==
  /\ CallType' /\ call'.pc = pc /\ ret' = ret
  /\ call'.fn = call.fn /\ call'.s = call.s /\ call'.timeo = call.timeo
  /\ call'.was = call.was /\ call'.part = call.part

LEMMA GotoSound ==
  ASSUME CallType, NEW pc \in Pcs, Goto(pc)
  PROVE  Going(pc) /\ call'.end = call.end /\ call'.t0 = call.t0
                   /\ call'.until = call.until
BY DEF CallType, Goto, Going

LEMMA AnswerStays ==
  ASSUME Answer, ret' = ret, clock.now \in Int, clock'.now \in Int,
         clock'.now >= clock.now
  PROVE  Answer'
<1>1. ret.t0 \in Int /\ ret.timeo \in Int BY DEF Answer
<1>2. QED BY <1>1 DEF Answer, NothingOverlooked, GaveUp

\* The answer of what does not wait.
LEMMA Answered ==
  ASSUME ret'.fn # "poll",
         ret'.rc \in {"ok", "error", "EINVAL", "EINTR", "ETERM"},
         ret'.part = NoPart, ret'.was = FALSE, ret'.timeo = 0, ret'.t0 = 0
  PROVE  Answer'
<1>1. ret'.rc \in {"ok", "error", "EINVAL", "EAGAIN", "EINTR", "ETERM"}
      /\ ret'.rc # "EAGAIN"
  OBVIOUS
<1>2. ret'.part \in PartSet BY NoPartType
<1>3. ret'.timeo \in Int /\ ret'.t0 \in Int
  <2>1. 0 \in Int OBVIOUS
  <2>2. QED BY <2>1
<1>4. ret'.was \in BOOLEAN BY Zenon
<1>5. NothingOverlooked' BY DEF NothingOverlooked
<1>6. ~GaveUp' BY DEF GaveUp
<1>7. QED BY <1>1, <1>2, <1>3, <1>4, <1>5, <1>6 DEF Answer

LEMMA NowMs ==
  ASSUME Time, NEW t \in now_ms
  PROVE  /\ t \in Int /\ clock.now \in Int /\ t <= clock.now
         /\ t >= clock.now - 1
         /\ clock' = [clock EXCEPT !.last = t] =>
              Time' /\ clock'.now = clock.now
<1>1. MaxTime \in Nat BY SocketApiAssumption
<1>2. t \in Int /\ clock.now \in Int /\ t <= clock.now /\ t >= clock.now - 1
  BY <1>1 DEF Time, now_ms
<1>3. ASSUME clock' = [clock EXCEPT !.last = t]
      PROVE  Time' /\ clock'.now = clock.now
  BY <1>2, <1>3 DEF Time
<1>4. QED BY <1>2, <1>3

LEMMA StartWaitSound ==
  ASSUME CallType, Time, NEW pc \in Pcs, NEW block \in BOOLEAN,
         StartWait(pc, block)
  PROVE  Going(pc) /\ Time' /\ clock'.now = clock.now /\ Timed'
<1>1. PICK t \in now_ms :
        /\ clock' = [clock EXCEPT !.last = t]
        /\ call' = [call EXCEPT !.pc = pc, !.left = call.timeo,
                      !.block = block, !.end = t + call.timeo,
                      !.t0 = clock.now, !.until = clock.now + call.timeo]
        /\ ret' = ret
  BY DEF StartWait
<1>2. t \in Int /\ clock.now \in Int /\ t <= clock.now /\ t >= clock.now - 1
  BY NowMs
<1>3. Time' /\ clock'.now = clock.now BY <1>1, NowMs
<1>4. call.timeo \in Int BY DEF CallType
<1>5. /\ call'.pc = pc /\ call'.fn = call.fn /\ call'.s = call.s
      /\ call'.timeo = call.timeo /\ call'.was = call.was
      /\ call'.part = call.part /\ call'.left = call.timeo
      /\ call'.end = t + call.timeo /\ call'.t0 = clock.now
      /\ call'.until = clock.now + call.timeo
  BY <1>1 DEF CallType
<1>6. CallType'
  <2>1. t + call.timeo \in Int /\ clock.now + call.timeo \in Int
    BY <1>2, <1>4
  <2>2. QED BY <1>1, <1>2, <1>4, <2>1 DEF CallType
<1>7. Timed' BY <1>2, <1>4, <1>5 DEF Timed
<1>8. QED BY <1>1, <1>3, <1>5, <1>6, <1>7 DEF Going

LEMMA WaitMoreSound ==
  ASSUME CallType, Time, NEW pc \in Pcs, WaitMore(pc), Timed,
         call.pc = "retry"
  PROVE  /\ Time' /\ clock'.now = clock.now
         /\ \/ Going(pc) /\ Timed'
            \/ /\ Return("EAGAIN", NoPart)
               /\ call.timeo > 0 => clock.now >= call.t0 + call.timeo - 1
<1>0. call.left \in Int /\ call.timeo \in Int /\ call.t0 \in Int
      /\ call.end \in Int
  BY DEF CallType
<1>1. CASE call.left < 0
  <2>1. /\ call' = [call EXCEPT !.pc = pc, !.block = TRUE]
        /\ ret' = ret /\ clock' = clock
    BY <1>1 DEF WaitMore
  <2>2. Time' /\ clock'.now = clock.now BY <2>1 DEF Time
  <2>3. ~(call.timeo > 0) BY <1>0, <1>1 DEF Timed
  <2>4. Going(pc) BY <2>1 DEF CallType, Going
  <2>5. call'.timeo = call.timeo BY <2>4 DEF Going
  <2>6. Timed' BY <2>3, <2>5 DEF Timed
  <2>7. QED BY <2>2, <2>4, <2>6
<1>2. CASE ~(call.left < 0)
  <2>1. PICK t \in now_ms :
         /\ clock' = [clock EXCEPT !.last = t]
         /\ IF t >= call.end THEN Return("EAGAIN", NoPart)
            ELSE /\ call' = [call EXCEPT !.pc = pc, !.block = TRUE,
                               !.left = call.end - t,
                               !.until = clock.now + call.end - t]
                 /\ ret' = ret
    BY <1>2 DEF WaitMore
  <2>2. t \in Int /\ clock.now \in Int /\ t <= clock.now
        /\ t >= clock.now - 1
    BY NowMs
  <2>3. Time' /\ clock'.now = clock.now BY <2>1, NowMs
  <2>4. CASE t >= call.end
    <3>1. call.timeo > 0 => clock.now >= call.t0 + call.timeo - 1
      BY <1>0, <2>2, <2>4 DEF Timed
    <3>2. QED BY <2>1, <2>3, <2>4, <3>1
  <2>5. CASE ~(t >= call.end)
    <3> DEFINE u == clock.now + call.end - t
    <3>1. u \in Int /\ u <= call.end + 1 /\ call.end - t \in Int
      BY <1>0, <2>2
    <3>2. /\ call' = [call EXCEPT !.pc = pc, !.block = TRUE,
                        !.left = call.end - t, !.until = u]
          /\ ret' = ret
      BY <2>1, <2>5
    <3> HIDE DEF u
    <3>3. /\ CallType' /\ call'.pc = pc /\ call'.fn = call.fn
          /\ call'.s = call.s /\ call'.timeo = call.timeo
          /\ call'.was = call.was /\ call'.part = call.part
          /\ call'.end = call.end /\ call'.t0 = call.t0 /\ call'.until = u
          /\ call'.left = call.end - t
      BY <3>1, <3>2 DEF CallType
    <3>4. Timed' BY <1>0, <2>2, <2>5, <3>1, <3>3 DEF Timed
    <3>5. QED BY <2>3, <3>2, <3>3, <3>4 DEF Going
  <2>6. QED BY <2>4, <2>5
<1>3. QED BY <1>1, <1>2

\* What every step of a call does.
CallStep ==
  /\ Sockets' /\ Calls' /\ Answer' /\ Time'
  /\ sk'["f"].options = sk["f"].options
  /\ ret' = ret \/ ret'.fn # "getsockopt"

LEMMA RecvGoes ==
  ASSUME Calls, call.fn = "recv", NEW pc \in Pcs, Going(pc),
         pc \in {"enter", "rate", "try", "nowait", "last", "wait", "retry"},
         call.was => sk'[call.s].in # <<>>,
         pc \in {"nowait", "last"} => call.timeo = 0,
         pc \in {"last", "retry"} /\ call.was => sk'[call.s].in_active,
         pc \in {"wait", "retry"} => Timed'
  PROVE  Calls'
BY DEF Calls, Going, Receiving, Sending, Polling

LEMMA RecvStarts ==
  ASSUME IInv, recv
  PROVE  CallStep
<1> DEFINE s == call.s
           n == peer[s]
<1>1. /\ call.fn = "recv" /\ call.pc = "enter" /\ Kept
      /\ IF sk[s].ctx_terminated
         THEN Return("ETERM", NoPart) /\ UNCHANGED sk
         ELSE /\ Becomes(s, [sk[s] EXCEPT !.ticks = More(@)])
              /\ Goto(IF sk[s].ticks + 1 = Rate THEN "rate" ELSE "try")
  BY DEF recv, At
<1>2. CallType /\ Time /\ Sockets /\ Answer /\ Calls /\ s \in Socks
      /\ clock.now \in Int
  BY DEF IInv, Calls, CallType, Time
<1>3. clock' = clock /\ peer' = peer BY <1>1 DEF Kept
<1>4. Time' BY <1>2, <1>3 DEF Time
<1>5. call.was => sk[s].in # <<>> BY <1>1, <1>2 DEF Calls, Receiving
<1>6. Sound(sk[s], n) BY <1>2 DEF Sockets
<1>7. CASE sk[s].ctx_terminated
  <2>1. Return("ETERM", NoPart) /\ sk' = sk BY <1>1, <1>7
  <2>2. Allowed("ETERM") /\ "ETERM" \in Codes BY <1>1 DEF Allowed, Codes
  <2>3. Calls' /\ Answer' /\ ret'.fn # "getsockopt"
    BY <1>1, <1>2, <1>3, <2>1, <2>2, NoPartType, Returning
  <2>4. Sockets' BY <1>2, <1>3, <2>1 DEF Sockets
  <2>5. QED BY <1>4, <2>1, <2>3, <2>4 DEF CallStep
<1>8. CASE ~sk[s].ctx_terminated
  <2> DEFINE pc == IF sk[s].ticks + 1 = Rate THEN "rate" ELSE "try"
             t == More(sk[s].ticks)
             y == [sk[s] EXCEPT !.ticks = t]
  <2>1. Becomes(s, y) /\ Goto(pc) BY <1>1, <1>8
  <2>2. t \in 0..Rate + 1
    <3>1. sk[s].ticks \in 0..Rate + 1 BY <1>6 DEF Sound, SocketType
    <3>2. QED BY <3>1, SocketApiAssumption DEF More
  <2>3. Sound(y, n) /\ y.options = sk[s].options /\ y.in = sk[s].in
    BY <1>6, <2>2, TicksSound
  <2> HIDE DEF y
  <2>4. Sockets' /\ sk'[s] = y /\ sk'["f"].options = sk["f"].options
    BY <1>2, <1>3, <2>1, <2>3, Becoming
  <2>5. pc \in Pcs /\ pc \in {"rate", "try"} BY DEF Pcs
  <2> HIDE DEF pc
  <2>6. Going(pc) BY <1>2, <2>1, <2>5, GotoSound
  <2>7. Calls'
    BY <1>1, <1>2, <1>5, <2>3, <2>4, <2>5, <2>6, RecvGoes
  <2>8. Answer' BY <1>2, <1>3, <2>6, AnswerStays DEF Going
  <2>9. QED BY <1>4, <2>4, <2>6, <2>7, <2>8 DEF CallStep, Going
<1>9. QED BY <1>7, <1>8

\* What IInv says of a call that is running.
LEMMA InCall ==
  ASSUME IInv, call.fn # "none"
  PROVE  /\ CallType /\ Time /\ Sockets /\ Answer /\ Calls /\ AppType
         /\ call.s \in Socks /\ clock.now \in Int /\ call.timeo \in Int
         /\ Sound(sk[call.s], peer[call.s])
         /\ call.block \in BOOLEAN /\ call.part \in PartSet
<1>1. CallType /\ Time /\ Sockets /\ Answer /\ Calls /\ AppType
  BY DEF IInv, Calls
<1>2. call.s \in Socks /\ call.timeo \in Int /\ call.block \in BOOLEAN
      /\ call.part \in PartSet
  BY <1>1 DEF CallType
<1>3. clock.now \in Int BY <1>1 DEF Time
<1>4. Sound(sk[call.s], peer[call.s])
  BY <1>1, <1>2 DEF Sockets
<1>5. QED BY <1>1, <1>2, <1>3, <1>4

\* A call returns while it leaves x behind.
LEMMA ReturnStep ==
  ASSUME IInv, call.fn # "none", NEW s \in Socks, NEW x,
         Sound(x, peer[s]), x.options = sk[s].options, Becomes(s, x),
         peer' = peer, Time', clock'.now = clock.now,
         NEW rc \in Codes, NEW part \in PartSet, Allowed(rc), Return(rc, part)
  PROVE  CallStep
<1>1. CallType /\ Time /\ Sockets BY InCall
<1>2. Calls' /\ Answer' /\ ret'.fn # "getsockopt" BY <1>1, Returning
<1>3. Sockets' /\ sk'["f"].options = sk["f"].options BY <1>1, Becoming
<1>4. QED BY <1>2, <1>3 DEF CallStep

\* A call goes on and leaves x behind.
LEMMA GoStep ==
  ASSUME IInv, call.fn # "none", NEW s \in Socks, NEW x,
         Sound(x, peer[s]), x.options = sk[s].options, Becomes(s, x),
         peer' = peer, Time', clock'.now = clock.now, ret' = ret, Calls'
  PROVE  CallStep
<1>1. CallType /\ Time /\ Sockets /\ Answer /\ clock.now \in Int BY InCall
<1>2. Answer' BY <1>1, AnswerStays
<1>3. Sockets' /\ sk'["f"].options = sk["f"].options BY <1>1, Becoming
<1>4. QED BY <1>2, <1>3 DEF CallStep

\* The same while no socket changes.
LEMMA ReturnOnly ==
  ASSUME IInv, call.fn # "none", sk' = sk, peer' = peer, Time',
         clock'.now = clock.now,
         NEW rc \in Codes, NEW part \in PartSet, Allowed(rc), Return(rc, part)
  PROVE  CallStep
<1>1. CallType /\ Time /\ Sockets BY InCall
<1>2. Calls' /\ Answer' /\ ret'.fn # "getsockopt" BY <1>1, Returning
<1>3. Sockets' BY <1>1 DEF Sockets
<1>4. QED BY <1>2, <1>3 DEF CallStep

LEMMA GoOnly ==
  ASSUME IInv, call.fn # "none", sk' = sk, peer' = peer, Time',
         clock'.now = clock.now, ret' = ret, Calls'
  PROVE  CallStep
<1>1. CallType /\ Time /\ Sockets /\ Answer /\ clock.now \in Int BY InCall
<1>2. Answer' BY <1>1, AnswerStays
<1>3. Sockets' BY <1>1 DEF Sockets
<1>4. QED BY <1>2, <1>3 DEF CallStep

LEMMA RecvReads ==
  ASSUME IInv, call.fn = "recv", CanRead(sk[call.s]),
         Return("ok", Head(sk[call.s].in)), peer' = peer, clock' = clock,
         \/ Becomes(call.s, xrecv(sk[call.s]))
         \/ Becomes(call.s, [xrecv(sk[call.s]) EXCEPT !.ticks = 0])
  PROVE  CallStep
<1> DEFINE s == call.s
           y == xrecv(sk[s])
           z == [y EXCEPT !.ticks = 0]
<1>1. /\ CallType /\ Time /\ Sockets /\ s \in Socks /\ call.fn # "none"
      /\ Sound(sk[s], peer[s])
  BY InCall
<1>2. 0 \in 0..Rate + 1 BY SocketApiAssumption
<1>3. /\ Sound(y, peer[s]) /\ Head(sk[s].in) \in PartSet
      /\ Sound(z, peer[s])
      /\ y.options = sk[s].options /\ z.options = sk[s].options
  BY <1>1, <1>2, XrecvSound
<1>4. Allowed("ok") /\ "ok" \in Codes BY DEF Allowed, Codes
<1>5. Time' /\ clock'.now = clock.now BY <1>1 DEF Time
<1> HIDE DEF z, y
<1>6. CASE Becomes(s, y) BY <1>1, <1>3, <1>4, <1>5, <1>6, ReturnStep
<1>7. CASE Becomes(s, z) BY <1>1, <1>3, <1>4, <1>5, <1>7, ReturnStep
<1>8. QED BY <1>6, <1>7 DEF y, z

LEMMA RecvCommandsKeeps ==
  ASSUME IInv, RecvCommands
  PROVE  CallStep
<1> DEFINE s == call.s
           n == peer[s]
<1>1. call.fn = "recv" /\ call.pc \in {"rate", "nowait"} /\ Kept
  BY DEF RecvCommands
<1>2. PICK r \in process_commands(s, 0, FALSE) :
       IF r.rc # "ok" THEN Return(r.rc, NoPart) /\ Becomes(s, r.x)
       ELSE /\ Becomes(s, [r.x EXCEPT !.ticks = 0])
            /\ Goto(IF call.pc = "rate" THEN "try" ELSE "last")
  BY DEF RecvCommands
<1>3. /\ CallType /\ Time /\ Sockets /\ Calls /\ s \in Socks
      /\ call.fn # "none"
  BY <1>1, InCall
<1>4. clock' = clock /\ peer' = peer BY <1>1 DEF Kept
<1>5. Time' /\ clock'.now = clock.now BY <1>3, <1>4 DEF Time
<1>6. /\ Took(sk[s], r.x, n) /\ Fresh(r.x, n)
      /\ r.rc \in {"ok", "ETERM", "EINTR"}
  BY <1>3, Results
<1>7. CASE r.rc # "ok"
  <2>1. Allowed(r.rc) /\ r.rc \in Codes BY <1>1, <1>6, <1>7 DEF Allowed, Codes
  <2>2. QED
    BY <1>2, <1>3, <1>4, <1>5, <1>6, <1>7, <2>1, NoPartType, ReturnStep DEF Took
<1>8. CASE r.rc = "ok"
  <2> DEFINE pc == IF call.pc = "rate" THEN "try" ELSE "last"
             y == [r.x EXCEPT !.ticks = 0]
  <2>1. Becomes(s, y) /\ Goto(pc) BY <1>2, <1>8
  <2>2. 0 \in 0..Rate + 1 BY SocketApiAssumption
  <2>3. Sound(y, n) /\ y.options = sk[s].options /\ y.in = sk[s].in
        /\ y.in_active = r.x.in_active
    BY <1>3, <1>6, <2>2, TicksSound DEF Took
  <2> HIDE DEF y
  <2>4. y.in # <<>> => y.in_active BY <1>6, <2>3 DEF Took, Fresh
  <2>5. sk'[s] = y BY <1>3, <1>4, <2>1, <2>3, Becoming
  <2>6. pc \in Pcs /\ pc \in {"try", "last"}
        /\ (pc = "last" => call.pc = "nowait")
    BY <1>1 DEF Pcs
  <2> HIDE DEF pc
  <2>7. Going(pc) BY <1>3, <2>1, <2>6, GotoSound
  <2>8. /\ call.was => sk[s].in # <<>>
        /\ call.pc = "nowait" => call.timeo = 0
    BY <1>1, <1>3 DEF Calls, Receiving
  <2>9. Calls'
    BY <1>1, <1>3, <2>3, <2>4, <2>5, <2>6, <2>7, <2>8, RecvGoes
  <2>10. QED
    BY <1>3, <1>4, <1>5, <2>1, <2>3, <2>7, <2>9, GoStep DEF Going
<1>9. QED BY <1>7, <1>8

\* The pipe is empty, or its reader does not know yet.
LEMMA RecvMisses ==
  ASSUME IInv, call.fn = "recv", ~CanRead(sk[call.s]),
         Becomes(call.s, check_read(sk[call.s])), peer' = peer
  PROVE  LET s == call.s
             y == check_read(sk[s])
         IN /\ Sound(y, peer[s]) /\ y.options = sk[s].options
            /\ call.was => sk[s].in # <<>> /\ sk'[s].in # <<>>
            /\ call.pc \in {"last", "retry"} => ~call.was
<1>1. /\ CallType /\ Time /\ Sockets /\ Calls /\ call.s \in Socks
      /\ Sound(sk[call.s], peer[call.s])
  BY InCall
<1> DEFINE s == call.s
           y == check_read(sk[s])
<1>2. Sound(y, peer[s]) /\ y.options = sk[s].options /\ y.in = sk[s].in
  BY <1>1, CheckReadSound
<1> HIDE DEF y
<1>3. sk'[s] = y BY <1>1, <1>2, Becoming DEF y
<1>4. call.was => sk[s].in # <<>> BY <1>1 DEF Calls, Receiving
<1>5. call.pc \in {"last", "retry"} => ~call.was
  BY <1>1, <1>4 DEF Calls, Receiving, CanRead
<1>6. QED BY <1>2, <1>3, <1>4, <1>5 DEF y

LEMMA RecvTryKeeps ==
  ASSUME IInv, RecvTry
  PROVE  CallStep
<1> DEFINE s == call.s
           y == check_read(sk[s])
<1>1. call.fn = "recv" /\ call.pc = "try" /\ peer' = peer
      /\ call.fn # "none"
  BY DEF RecvTry, At, Outside
<1>2. CASE CanRead(sk[s])
  <2>1. /\ Return("ok", Head(sk[s].in)) /\ clock' = clock
        /\ Becomes(s, xrecv(sk[s]))
    BY <1>2 DEF RecvTry
  <2>2. QED BY <1>1, <1>2, <2>1, RecvReads
<1>3. CASE ~CanRead(sk[s])
  <2>1. /\ Becomes(s, y)
        /\ IF call.timeo = 0 THEN Goto("nowait") /\ clock' = clock
           ELSE StartWait("wait", sk[s].ticks # 0)
    BY <1>3 DEF RecvTry
  <2>2. /\ CallType /\ Time /\ Sockets /\ Calls /\ s \in Socks
    BY <1>1, InCall
  <2>3. /\ Sound(y, peer[s]) /\ y.options = sk[s].options
        /\ call.was => sk'[s].in # <<>>
    BY <1>1, <1>3, <2>1, RecvMisses
  <2> HIDE DEF y
  <2>4. CASE call.timeo = 0
    <3>1. Goto("nowait") /\ clock' = clock BY <2>1, <2>4
    <3>2. "nowait" \in Pcs BY DEF Pcs
    <3>3. Going("nowait") BY <2>2, <3>1, <3>2, GotoSound
    <3>4. Calls' BY <1>1, <2>2, <2>3, <2>4, <3>2, <3>3, RecvGoes
    <3>5. Time' BY <2>2, <3>1 DEF Time
    <3>6. QED
      BY <1>1, <2>1, <2>2, <2>3, <3>1, <3>3, <3>4, <3>5, GoStep DEF Going
  <2>5. CASE call.timeo # 0
    <3>1. StartWait("wait", sk[s].ticks # 0) BY <2>1, <2>5
    <3>2. "wait" \in Pcs /\ (sk[s].ticks # 0) \in BOOLEAN BY DEF Pcs
    <3>3. Going("wait") /\ Time' /\ clock'.now = clock.now /\ Timed'
      BY <2>2, <3>1, <3>2, StartWaitSound
    <3>4. Calls' BY <1>1, <2>2, <2>3, <3>2, <3>3, RecvGoes
    <3>5. QED
      BY <1>1, <2>1, <2>2, <2>3, <3>3, <3>4, GoStep DEF Going
  <2>6. QED BY <2>4, <2>5
<1>4. QED BY <1>2, <1>3
LEMMA RecvLastKeeps ==
  ASSUME IInv, RecvLast
  PROVE  CallStep
<1> DEFINE s == call.s
           y == check_read(sk[s])
<1>1. call.fn = "recv" /\ call.pc = "last" /\ peer' = peer
      /\ clock' = clock /\ call.fn # "none"
  BY DEF RecvLast, At, Kept
<1>2. CASE CanRead(sk[s])
  <2>1. Return("ok", Head(sk[s].in)) /\ Becomes(s, xrecv(sk[s]))
    BY <1>2 DEF RecvLast
  <2>2. QED BY <1>1, <1>2, <2>1, RecvReads
<1>3. CASE ~CanRead(sk[s])
  <2>1. Return("EAGAIN", NoPart) /\ Becomes(s, y)
    BY <1>3 DEF RecvLast
  <2>2. /\ CallType /\ Time /\ Sockets /\ Calls /\ s \in Socks
    BY <1>1, InCall
  <2>3. /\ Sound(y, peer[s]) /\ y.options = sk[s].options
        /\ ~call.was
    BY <1>1, <1>3, <2>1, RecvMisses
  <2> HIDE DEF y
  <2>4. call.timeo = 0 BY <1>1, <2>2 DEF Calls, Receiving
  <2>5. Allowed("EAGAIN") /\ "EAGAIN" \in Codes
    BY <1>1, <2>3, <2>4 DEF Allowed, Codes
  <2>6. Time' BY <1>1, <2>2 DEF Time
  <2>7. QED
    BY <1>1, <2>1, <2>2, <2>3, <2>5, <2>6, NoPartType, ReturnStep
<1>4. QED BY <1>2, <1>3

LEMMA RecvWaitKeeps ==
  ASSUME IInv, RecvWait
  PROVE  CallStep
<1> DEFINE s == call.s
           n == peer[s]
           t == IF call.block THEN call.left ELSE 0
<1>1. call.fn = "recv" /\ call.pc = "wait" /\ peer' = peer
      /\ clock' = clock /\ call.fn # "none"
  BY DEF RecvWait, At, Kept
<1>2. PICK r \in process_commands(s, t, FALSE) :
       /\ Becomes(s, r.x)
       /\ IF r.rc # "ok" THEN Return(r.rc, NoPart) ELSE Goto("retry")
  BY DEF RecvWait
<1> HIDE DEF t
<1>3. /\ CallType /\ Time /\ Sockets /\ Calls /\ s \in Socks
  BY <1>1, InCall
<1>4. Time' /\ clock'.now = clock.now BY <1>1, <1>3 DEF Time
<1>5. /\ Took(sk[s], r.x, n) /\ Fresh(r.x, n)
      /\ r.rc \in {"ok", "ETERM", "EINTR"}
  BY <1>3, Results
<1>6. CASE r.rc # "ok"
  <2>1. Allowed(r.rc) /\ r.rc \in Codes BY <1>1, <1>5, <1>6 DEF Allowed, Codes
  <2>2. QED
    BY <1>1, <1>2, <1>3, <1>4, <1>5, <1>6, <2>1, NoPartType, ReturnStep DEF Took
<1>7. CASE r.rc = "ok"
  <2>1. Goto("retry") /\ Becomes(s, r.x) BY <1>2, <1>7
  <2>2. "retry" \in Pcs BY DEF Pcs
  <2>3. Going("retry") /\ call'.end = call.end /\ call'.t0 = call.t0
    BY <1>3, <2>1, <2>2, GotoSound
  <2>4. call.was => sk[s].in # <<>> BY <1>1, <1>3 DEF Calls, Receiving
  <2>5. Sound(r.x, n) /\ r.x.options = sk[s].options BY <1>5 DEF Took
  <2>6. sk'[s] = r.x BY <1>1, <1>3, <2>1, <2>5, Becoming
  <2>7. Timed BY <1>1, <1>3 DEF Calls, Receiving
  <2>8. call'.left = call.left BY <1>3, <2>1 DEF Goto, CallType
  <2>9. Timed' BY <2>3, <2>7, <2>8 DEF Timed, Going
  <2>10. Calls'
    BY <1>1, <1>3, <1>5, <2>2, <2>3, <2>4, <2>6, <2>9, RecvGoes
       DEF Took, Fresh
  <2>11. QED
    BY <1>1, <1>3, <1>4, <2>1, <2>3, <2>5, <2>10, GoStep DEF Going
<1>8. QED BY <1>6, <1>7

LEMMA RecvRetryKeeps ==
  ASSUME IInv, RecvRetry
  PROVE  CallStep
<1> DEFINE s == call.s
           y == check_read(sk[s])
<1>1. call.fn = "recv" /\ call.pc = "retry" /\ peer' = peer
      /\ call.fn # "none"
  BY DEF RecvRetry, At, Outside
<1>2. CASE CanRead(sk[s])
  <2>1. /\ Return("ok", Head(sk[s].in)) /\ clock' = clock
        /\ Becomes(s, [xrecv(sk[s]) EXCEPT !.ticks = 0])
    BY <1>2 DEF RecvRetry
  <2>2. QED BY <1>1, <1>2, <2>1, RecvReads
<1>3. CASE ~CanRead(sk[s])
  <2>1. Becomes(s, y) /\ WaitMore("wait") BY <1>3 DEF RecvRetry
  <2>2. /\ CallType /\ Time /\ Sockets /\ Calls /\ s \in Socks
    BY <1>1, InCall
  <2>3. /\ Sound(y, peer[s]) /\ y.options = sk[s].options
        /\ call.was => sk'[s].in # <<>> /\ ~call.was
    BY <1>1, <1>3, <2>1, RecvMisses
  <2> HIDE DEF y
  <2>4. Timed BY <1>1, <2>2 DEF Calls, Receiving
  <2>5. "wait" \in Pcs BY DEF Pcs
  <2>6. /\ Time' /\ clock'.now = clock.now
        /\ \/ Going("wait") /\ Timed'
           \/ /\ Return("EAGAIN", NoPart)
              /\ call.timeo > 0 => clock.now >= call.t0 + call.timeo - 1
    BY <1>1, <2>1, <2>2, <2>4, <2>5, WaitMoreSound
  <2>7. CASE Going("wait") /\ Timed'
    <3>1. ~call.was BY <2>3
    <3>2. Calls' BY <1>1, <2>2, <2>5, <2>7, <3>1, RecvGoes
    <3>3. QED
      BY <1>1, <2>1, <2>2, <2>3, <2>6, <2>7, <3>2, GoStep DEF Going
  <2>8. CASE /\ Return("EAGAIN", NoPart)
             /\ call.timeo > 0 => clock.now >= call.t0 + call.timeo - 1
    <3>1. ~call.was BY <2>3
    <3>2. Allowed("EAGAIN") /\ "EAGAIN" \in Codes
      BY <1>1, <2>8, <3>1 DEF Allowed, Codes
    <3>3. QED
      BY <1>1, <2>1, <2>2, <2>3, <2>6, <2>8, <3>2, NoPartType, ReturnStep
  <2>9. QED BY <2>6, <2>7, <2>8
<1>4. QED BY <1>2, <1>3

-----------------------------------------------------------------------------
(* zmq_send *)

LEMMA SendGoes ==
  ASSUME Calls, Sockets, call.fn = "send", NEW pc \in Pcs, Going(pc),
         pc \in {"enter", "try", "wait", "retry"}, peer' = peer,
         sk'[call.s].written = sk[call.s].written,
         pc = "retry" /\ call.was => CanWrite(sk'[call.s]),
         pc \in {"wait", "retry"} => Timed'
  PROVE  Calls'
<1>1. /\ CallType' /\ call'.fn = "send" /\ call'.pc = pc
      /\ call'.s = call.s /\ call'.was = call.was
      /\ call'.timeo = call.timeo
  BY DEF Going
<1>2. call.was => call.timeo # 0 /\ Writable(call.s)
  BY DEF Calls, Sending
<1>3. call.was => Writable(call.s)' BY <1>1, <1>2 DEF Writable
<1>4. Sending' BY <1>1, <1>2, <1>3 DEF Sending
<1>5. QED BY <1>1, <1>4 DEF Calls, Receiving, Polling

LEMMA SendStarts ==
  ASSUME IInv, send
  PROVE  CallStep
<1> DEFINE s == call.s
           n == peer[s]
<1>1. call.fn = "send" /\ call.pc = "enter" /\ peer' = peer
      /\ clock' = clock /\ call.fn # "none"
  BY DEF send, At, Kept
<1>2. /\ CallType /\ Time /\ Sockets /\ Calls /\ s \in Socks
      /\ Sound(sk[s], n)
  BY <1>1, InCall
<1>3. Time' /\ clock'.now = clock.now BY <1>1, <1>2 DEF Time
<1>4. CASE sk[s].ctx_terminated
  <2>1. Return("ETERM", NoPart) /\ sk' = sk BY <1>4 DEF send
  <2>2. Allowed("ETERM") /\ "ETERM" \in Codes BY <1>1 DEF Allowed, Codes
  <2>3. QED BY <1>1, <1>3, <2>1, <2>2, NoPartType, ReturnOnly
<1>5. CASE ~sk[s].ctx_terminated
  <2>1. PICK r \in process_commands(s, 0, TRUE) :
            /\ Becomes(s, r.x)
            /\ IF r.rc # "ok" THEN Return(r.rc, NoPart) ELSE Goto("try")
    BY <1>5 DEF send
  <2>2. /\ Took(sk[s], r.x, n) /\ r.rc \in {"ok", "ETERM", "EINTR"}
    BY <1>2, Results
  <2>3. CASE r.rc # "ok"
    <3>1. Allowed(r.rc) /\ r.rc \in Codes
      BY <1>1, <2>2, <2>3 DEF Allowed, Codes
    <3>2. QED
      BY <1>1, <1>2, <1>3, <2>1, <2>2, <2>3, <3>1, NoPartType, ReturnStep
         DEF Took
  <2>4. CASE r.rc = "ok"
    <3>1. Goto("try") /\ "try" \in Pcs BY <2>1, <2>4 DEF Pcs
    <3>2. Going("try") BY <1>2, <3>1, GotoSound
    <3>3. Sound(r.x, n) /\ r.x.options = sk[s].options
          /\ r.x.written = sk[s].written
      BY <2>2 DEF Took
    <3>4. sk'[s] = r.x BY <1>1, <1>2, <2>1, <3>3, Becoming
    <3>5. Calls' BY <1>1, <1>2, <3>1, <3>2, <3>3, <3>4, SendGoes
    <3>6. QED
      BY <1>1, <1>2, <1>3, <2>1, <3>2, <3>3, <3>5, GoStep DEF Going
  <2>5. QED BY <2>3, <2>4
<1>6. QED BY <1>4, <1>5

LEMMA SendWrites ==
  ASSUME IInv, call.fn = "send", CanWrite(sk[call.s]),
         Return("ok", call.part), peer' = peer, clock' = clock,
         Becomes(call.s, xsend(sk[call.s], call.part))
  PROVE  CallStep
<1> DEFINE s == call.s
           y == xsend(sk[s], call.part)
<1>1. /\ CallType /\ Time /\ Sockets /\ s \in Socks /\ call.fn # "none"
      /\ Sound(sk[s], peer[s])
      /\ call.part \in PartSet
  BY InCall
<1>2. Sound(y, peer[s]) /\ y.options = sk[s].options
  BY <1>1, XsendSound
<1>3. Allowed("ok") /\ "ok" \in Codes BY DEF Allowed, Codes
<1>4. Time' BY <1>1 DEF Time
<1> HIDE DEF y
<1>5. Becomes(s, y) BY DEF y
<1>6. QED BY <1>1, <1>2, <1>3, <1>4, <1>5, ReturnStep

LEMMA SendTryKeeps ==
  ASSUME IInv, SendTry
  PROVE  CallStep
<1> DEFINE s == call.s
<1>1. call.fn = "send" /\ call.pc = "try" /\ peer' = peer
      /\ call.fn # "none"
  BY DEF SendTry, At, Outside
<1>2. CASE CanWrite(sk[s])
  <2>1. /\ Return("ok", call.part) /\ clock' = clock
        /\ Becomes(s, xsend(sk[s], call.part))
    BY <1>2 DEF SendTry
  <2>2. QED BY <1>1, <1>2, <2>1, SendWrites
<1>3. CASE ~CanWrite(sk[s])
  <2>1. /\ sk' = sk
        /\ IF call.timeo = 0
           THEN Return("EAGAIN", NoPart) /\ clock' = clock
           ELSE StartWait("wait", TRUE)
    BY <1>3 DEF SendTry
  <2>2. /\ CallType /\ Time /\ Sockets /\ Calls /\ s \in Socks
        /\ Sound(sk[s], peer[s])
    BY <1>1, InCall
  <2>5. CASE call.timeo = 0
    <3>1. Return("EAGAIN", NoPart) /\ clock' = clock BY <2>1, <2>5
    <3>2. ~call.was BY <1>1, <2>2, <2>5 DEF Calls, Sending
    <3>3. Allowed("EAGAIN") /\ "EAGAIN" \in Codes
      BY <1>1, <2>5, <3>2 DEF Allowed, Codes
    <3>4. Time' BY <2>2, <3>1 DEF Time
    <3>5. QED
      BY <1>1, <2>1, <3>1, <3>3, <3>4, NoPartType, ReturnOnly
  <2>6. CASE call.timeo # 0
    <3>1. StartWait("wait", TRUE) BY <2>1, <2>6
    <3>2. "wait" \in Pcs BY DEF Pcs
    <3>3. Going("wait") /\ Time' /\ clock'.now = clock.now /\ Timed'
      BY <2>2, <3>1, <3>2, StartWaitSound
    <3>4. Calls' BY <1>1, <2>1, <2>2, <3>2, <3>3, SendGoes
    <3>5. QED BY <1>1, <2>1, <3>3, <3>4, GoOnly DEF Going
  <2>7. QED BY <2>5, <2>6
<1>4. QED BY <1>2, <1>3

LEMMA SendWaitKeeps ==
  ASSUME IInv, SendWait
  PROVE  CallStep
<1> DEFINE s == call.s
           n == peer[s]
<1>1. call.fn = "send" /\ call.pc = "wait" /\ peer' = peer
      /\ clock' = clock /\ call.fn # "none"
  BY DEF SendWait, At, Kept
<1>2. PICK r \in process_commands(s, call.left, FALSE) :
       /\ Becomes(s, r.x)
       /\ IF r.rc # "ok" THEN Return(r.rc, NoPart) ELSE Goto("retry")
  BY DEF SendWait
<1>3. /\ CallType /\ Time /\ Sockets /\ Calls /\ s \in Socks
  BY <1>1, InCall
<1>4. Time' /\ clock'.now = clock.now BY <1>1, <1>3 DEF Time
<1>5. /\ Took(sk[s], r.x, n) /\ Fresh(r.x, n)
      /\ r.rc \in {"ok", "ETERM", "EINTR"}
  BY <1>3, Results
<1>6. CASE r.rc # "ok"
  <2>1. Allowed(r.rc) /\ r.rc \in Codes BY <1>1, <1>5, <1>6 DEF Allowed, Codes
  <2>2. QED
    BY <1>1, <1>2, <1>3, <1>4, <1>5, <1>6, <2>1, NoPartType, ReturnStep DEF Took
<1>7. CASE r.rc = "ok"
  <2>1. Goto("retry") /\ Becomes(s, r.x) BY <1>2, <1>7
  <2>2. "retry" \in Pcs BY DEF Pcs
  <2>3. Going("retry") /\ call'.end = call.end /\ call'.t0 = call.t0
    BY <1>3, <2>1, <2>2, GotoSound
  <2>4. Sound(r.x, n) /\ r.x.options = sk[s].options
        /\ r.x.written = sk[s].written /\ r.x.known = n.told
    BY <1>5 DEF Took, Fresh
  <2>5. sk'[s] = r.x BY <1>1, <1>3, <2>1, <2>4, Becoming
  <2>6. call.was => CanWrite(r.x)
    BY <1>1, <1>3, <2>4 DEF Calls, Sending, Writable, CanWrite
  <2>7. Timed BY <1>1, <1>3 DEF Calls, Sending
  <2>8. call'.left = call.left BY <1>3, <2>1 DEF Goto, CallType
  <2>9. Timed' BY <2>3, <2>7, <2>8 DEF Timed, Going
  <2>10. Calls'
    BY <1>1, <1>3, <2>2, <2>3, <2>4, <2>5, <2>6, <2>9, SendGoes
  <2>11. QED
    BY <1>1, <1>3, <1>4, <2>1, <2>3, <2>4, <2>10, GoStep DEF Going
<1>8. QED BY <1>6, <1>7

LEMMA SendRetryKeeps ==
  ASSUME IInv, SendRetry
  PROVE  CallStep
<1> DEFINE s == call.s
<1>1. call.fn = "send" /\ call.pc = "retry" /\ peer' = peer
      /\ call.fn # "none"
  BY DEF SendRetry, At, Outside
<1>2. CASE CanWrite(sk[s])
  <2>1. /\ Return("ok", call.part) /\ clock' = clock
        /\ Becomes(s, xsend(sk[s], call.part))
    BY <1>2 DEF SendRetry
  <2>2. QED BY <1>1, <1>2, <2>1, SendWrites
<1>3. CASE ~CanWrite(sk[s])
  <2>1. sk' = sk /\ WaitMore("wait") BY <1>3 DEF SendRetry
  <2>2. /\ CallType /\ Time /\ Sockets /\ Calls /\ s \in Socks
        /\ Sound(sk[s], peer[s])
    BY <1>1, InCall
  <2>5. Timed /\ ~call.was BY <1>1, <1>3, <2>2 DEF Calls, Sending
  <2>6. "wait" \in Pcs BY DEF Pcs
  <2>7. /\ Time' /\ clock'.now = clock.now
        /\ \/ Going("wait") /\ Timed'
           \/ /\ Return("EAGAIN", NoPart)
              /\ call.timeo > 0 => clock.now >= call.t0 + call.timeo - 1
    BY <1>1, <2>1, <2>2, <2>5, <2>6, WaitMoreSound
  <2>8. CASE Going("wait") /\ Timed'
    <3>1. Calls' BY <1>1, <2>1, <2>2, <2>6, <2>8, SendGoes
    <3>2. QED BY <1>1, <2>1, <2>7, <2>8, <3>1, GoOnly DEF Going
  <2>9. CASE /\ Return("EAGAIN", NoPart)
             /\ call.timeo > 0 => clock.now >= call.t0 + call.timeo - 1
    <3>1. Allowed("EAGAIN") /\ "EAGAIN" \in Codes
      BY <1>1, <2>5, <2>9 DEF Allowed, Codes
    <3>2. QED
      BY <1>1, <2>1, <2>7, <2>9, <3>1, NoPartType, ReturnOnly
  <2>10. QED BY <2>7, <2>8, <2>9
<1>4. QED BY <1>2, <1>3

-----------------------------------------------------------------------------
(* zmq_poll *)

LEMMA ItemsType ==
  ASSUME plan \in Plans
  PROVE  /\ Items \in Seq(Socks \cup {"raw"}) /\ Len(Items) \in Nat
         /\ DOMAIN Items = 1..Len(Items)
         /\ \A j \in DOMAIN Items : Items[j] # "raw" => Items[j] \in Socks
<1>1. Items \in Seq(Socks \cup {"raw"})
  BY SocketApiAssumption DEF Items
<1> HIDE DEF Items
<1>2. /\ Len(Items) \in Nat /\ DOMAIN Items = 1..Len(Items)
      /\ \A j \in DOMAIN Items : Items[j] \in Socks \cup {"raw"}
  BY <1>1
<1>3. QED BY <1>1, <1>2

LEMMA PollStarts ==
  ASSUME IInv, zmq_poll
  PROVE  CallStep
<1>1. call.fn = "poll" /\ call.pc = "enter" /\ peer' = peer /\ sk' = sk
      /\ plan' = plan /\ raw' = raw /\ call.fn # "none"
  BY DEF zmq_poll, At, Outside
<1>2. /\ CallType /\ Time /\ Sockets /\ Calls BY <1>1, InCall
<1>3. \/ Return("ETERM", NoPart) /\ clock' = clock
      \/ /\ call' = [call EXCEPT !.pc = "first"]
         /\ clock' = [clock EXCEPT !.last = clock.now] /\ ret' = ret
  BY DEF zmq_poll
<1>4. CASE Return("ETERM", NoPart) /\ clock' = clock
  <2>1. Allowed("ETERM") /\ "ETERM" \in Codes BY <1>1 DEF Allowed, Codes
  <2>2. Time' BY <1>2, <1>4 DEF Time
  <2>3. QED BY <1>1, <1>4, <2>1, <2>2, NoPartType, ReturnOnly
<1>5. CASE /\ call' = [call EXCEPT !.pc = "first"]
           /\ clock' = [clock EXCEPT !.last = clock.now] /\ ret' = ret
  <2>1. clock.now \in now_ms BY DEF now_ms
  <2>2. Time' /\ clock'.now = clock.now BY <1>2, <1>5, <2>1, NowMs
  <2>3. "first" \in Pcs BY DEF Pcs
  <2>4. /\ CallType' /\ call'.fn = "poll" /\ call'.pc = "first"
        /\ call'.was = call.was /\ call'.left = call.left
    BY <1>1, <1>2, <1>5, <2>3 DEF CallType
  <2>5. call.was => \E j \in DOMAIN Items : There(j)
    BY <1>1, <1>2 DEF Calls, Polling
  <2>6. (call.was => \E j \in DOMAIN Items : There(j))'
    BY <1>1, <2>4, <2>5 DEF There, RawEvents, Items
  <2>7. call.left = 0 BY <1>1, <1>2 DEF Calls, Polling
  <2>8. Calls' BY <2>4, <2>6, <2>7 DEF Calls, Receiving, Sending, Polling
  <2>9. QED BY <1>1, <1>5, <2>2, <2>8, GoOnly
<1>6. QED BY <1>3, <1>4, <1>5

LEMMA PollWaitKeeps ==
  ASSUME IInv, PollWait
  PROVE  CallStep
<1> DEFINE seen == IF \E i \in Hot : Items[i] = "raw" THEN RawEvents ELSE {}
           b == (call.pc = "wait")
<1>1. call.fn = "poll" /\ call.pc \in {"first", "wait"} /\ peer' = peer
      /\ sk' = sk /\ plan' = plan /\ raw' = raw /\ clock' = clock
      /\ call.fn # "none"
  BY DEF PollWait, Kept
<1>2. CallType /\ Time /\ Sockets /\ Calls BY <1>1, InCall
<1>3. Time' BY <1>1, <1>2 DEF Time
<1>4. \/ /\ call' = [call EXCEPT !.block = b, !.i = 1, !.pc = "events",
                       !.rev = {}, !.seen = seen]
         /\ ret' = ret
      \/ Return("EINTR", NoPart)
  BY Zenon DEF PollWait
<1>5. CASE Return("EINTR", NoPart)
  <2>1. Allowed("EINTR") /\ "EINTR" \in Codes BY <1>1 DEF Allowed, Codes
  <2>2. QED BY <1>1, <1>3, <1>5, <2>1, NoPartType, ReturnOnly
<1>6. CASE /\ call' = [call EXCEPT !.block = b, !.i = 1, !.pc = "events",
                         !.rev = {}, !.seen = seen]
           /\ ret' = ret
  <2>1. seen \in SUBSET {"in", "err"}
    <3>1. raw \subseteq {"in", "err"} BY DEF IInv
    <3>2. QED BY <3>1 DEF RawEvents
  <2>2. \A j \in DOMAIN Items : Items[j] = "raw" /\ RawEvents # {} =>
                                  seen # {}
    BY DEF Hot
  <2>3. b \in BOOLEAN /\ (b => call.pc = "wait") OBVIOUS
  <2> HIDE DEF seen, b
  <2>4. "events" \in Pcs BY DEF Pcs
  <2>5. CallType' BY <1>2, <1>6, <2>1, <2>3, <2>4 DEF CallType
  <2>6. /\ call'.fn = "poll" /\ call'.pc = "events" /\ call'.i = 1
        /\ call'.was = call.was /\ call'.seen = seen /\ call'.rev = {}
        /\ call'.block = b /\ call'.timeo = call.timeo
        /\ call'.end = call.end /\ call'.t0 = call.t0
        /\ call'.left = call.left
    BY <1>1, <1>2, <1>6 DEF CallType
  <2>7. call.was => \E j \in DOMAIN Items : There(j)
    BY <1>1, <1>2 DEF Calls, Polling
  <2>8. (call.was => \E j \in DOMAIN Items : There(j))'
    BY <1>1, <2>6, <2>7 DEF There, RawEvents, Items
  <2>9. Len(Items) \in Nat /\ DOMAIN Items = 1..Len(Items)
    BY ItemsType DEF IInv
  <2>10. Items' = Items BY <1>1 DEF Items
  <2>11. (call.i \in 1..Len(Items) + 1)' BY <2>6, <2>9, <2>10
  <2>12. ASSUME NEW j \in DOMAIN Items, There(j) PROVE Ahead(j)'
    <3>1. 1 <= j BY <2>9
    <3>2. QED BY <1>1, <2>2, <2>6, <2>10, <2>12, <3>1 DEF There, Ahead
  <2>13. (call.was /\ call.rev = {} => \E j \in DOMAIN Items : Ahead(j))'
    BY <2>6, <2>7, <2>10, <2>12
  <2>14. (call.block => Timed)'
    <3>1. b => Timed BY <1>1, <1>2, <2>3 DEF Calls, Polling
    <3>2. QED BY <2>6, <3>1 DEF Timed
  <2>15. Polling'
    <3>1. call.left = 0 BY <1>1, <1>2 DEF Calls, Polling
    <3>2. QED BY <2>6, <2>8, <2>11, <2>13, <2>14, <3>1 DEF Polling
  <2>16. Calls' BY <2>5, <2>6, <2>15 DEF Calls, Receiving, Sending
  <2>17. QED BY <1>1, <1>3, <1>6, <2>16, GoOnly
<1>7. QED BY <1>4, <1>5, <1>6

\* The pass over the items comes to the next one: found says that it has
\* something to read.
LEMMA NextItem ==
  ASSUME IInv, call.fn = "poll", call.pc = "events", call.i <= Len(Items),
         plan' = plan, raw' = raw, NEW found \in BOOLEAN,
         call' = [call EXCEPT !.i = @ + 1,
                    !.rev = IF found THEN @ \cup {Items[call.i]} ELSE @],
         \A s \in Socks : sk'[s].in = sk[s].in,
         IF Items[call.i] = "raw" THEN call.seen # {} => found
         ELSE sk[Items[call.i]].in # <<>> => found
  PROVE  Calls'
<1> DEFINE k == call.i
<1>1. CallType /\ Calls BY InCall
<1>2. /\ Len(Items) \in Nat /\ DOMAIN Items = 1..Len(Items)
      /\ \A j \in DOMAIN Items : Items[j] # "raw" => Items[j] \in Socks
      /\ Items \in Seq(Socks \cup {"raw"})
  BY ItemsType DEF IInv
<1>3. k \in 1..Len(Items) + 1 BY <1>1 DEF Calls, Polling
<1>4. k \in DOMAIN Items /\ k + 1 \in 1..Len(Items) + 1 BY <1>2, <1>3
<1>5. Items[k] \in Socks \cup {"raw"} BY <1>2, <1>4
<1>6. Items' = Items /\ RawEvents' = RawEvents BY DEF Items, RawEvents
<1> HIDE DEF Items
<1>7. CallType'
  <2>1. k + 1 \in Nat BY <1>3, <1>2
  <2>2. (IF found THEN call.rev \cup {Items[k]} ELSE call.rev)
          \in SUBSET (Socks \cup {"raw"})
    BY <1>1, <1>5 DEF CallType
  <2>3. QED BY <1>1, <2>1, <2>2 DEF CallType
<1>8. /\ call'.fn = "poll" /\ call'.pc = "events" /\ call'.i = k + 1
      /\ call'.was = call.was /\ call'.seen = call.seen
      /\ call'.rev = IF found THEN call.rev \cup {Items[k]} ELSE call.rev
      /\ call'.block = call.block /\ call'.timeo = call.timeo
      /\ call'.end = call.end /\ call'.t0 = call.t0
      /\ call'.left = call.left
  BY <1>1 DEF CallType
<1>9. call.was => \E j \in DOMAIN Items : There(j)
  BY <1>1 DEF Calls, Polling
<1>10. (call.was => \E j \in DOMAIN Items : There(j))'
  BY <1>2, <1>6, <1>8, <1>9 DEF There
<1>11. (call.was /\ call.rev = {} => \E j \in DOMAIN Items : Ahead(j))'
  <2>1. SUFFICES ASSUME call.was, call'.rev = {}
                 PROVE  (\E j \in DOMAIN Items : Ahead(j))'
    BY <1>8
  <2>2. ~found /\ call.rev = {}
    <3>1. found => Items[k] \in call'.rev BY <1>8
    <3>2. ~found BY <2>1, <3>1
    <3>3. QED BY <1>8, <2>1, <3>2
  <2>3. PICK j \in DOMAIN Items : Ahead(j)
    BY <1>1, <2>1, <2>2 DEF Calls, Polling
  <2>4. k <= j /\ j # k BY <2>2, <2>3 DEF Ahead
  <2>5. k + 1 <= j BY <1>2, <1>3, <2>4
  <2>6. Ahead(j)' BY <1>2, <1>6, <1>8, <2>3, <2>5 DEF Ahead
  <2>7. QED BY <1>6, <2>3, <2>6
<1>12. (call.block => Timed)'
  BY <1>1, <1>8 DEF Calls, Polling, Timed
<1>13. Polling'
  <2>1. call.left = 0 BY <1>1 DEF Calls, Polling
  <2>2. QED BY <1>4, <1>6, <1>8, <1>10, <1>11, <1>12, <2>1 DEF Polling
<1>14. QED BY <1>7, <1>8, <1>13 DEF Calls, Receiving, Sending

LEMMA PollEventsKeeps ==
  ASSUME IInv, PollEvents
  PROVE  CallStep
<1> DEFINE s == Items[call.i]
           Found(p) == /\ call' = [call EXCEPT !.i = @ + 1,
                                     !.rev = IF p THEN @ \cup {s} ELSE @]
                       /\ ret' = ret
<1>1. call.fn = "poll" /\ call.pc = "events" /\ call.i <= Len(Items)
      /\ peer' = peer /\ plan' = plan /\ raw' = raw /\ clock' = clock
      /\ call.fn # "none"
  BY DEF PollEvents, At, Kept
<1>2. CallType /\ Time /\ Sockets /\ Calls BY <1>1, InCall
<1>3. Time' BY <1>2, <1>1 DEF Time
<1>4. /\ Len(Items) \in Nat /\ DOMAIN Items = 1..Len(Items)
      /\ \A j \in DOMAIN Items : Items[j] # "raw" => Items[j] \in Socks
  BY ItemsType DEF IInv
<1>5. call.i \in DOMAIN Items BY <1>1, <1>2, <1>4 DEF Calls, Polling
<1>6. CASE s = "raw"
  <2>1. Found(call.seen # {}) /\ sk' = sk BY <1>6, Zenon DEF PollEvents
  <2>2. Calls' BY <1>1, <1>6, <2>1, NextItem
  <2>3. QED BY <1>1, <1>3, <2>1, <2>2, GoOnly
<1>7. CASE s # "raw" /\ sk[s].ctx_terminated
  <2>1. Return("ETERM", NoPart) /\ sk' = sk BY <1>7, Zenon DEF PollEvents
  <2>2. Allowed("ETERM") /\ "ETERM" \in Codes BY <1>1 DEF Allowed, Codes
  <2>3. QED BY <1>1, <1>3, <2>1, <2>2, NoPartType, ReturnOnly
<1>8. CASE s # "raw" /\ ~sk[s].ctx_terminated
  <2>1. s \in Socks BY <1>4, <1>5, <1>8
  <2>2. PICK r \in process_commands(s, 0, FALSE) :
               IF r.rc # "ok" THEN Return(r.rc, NoPart) /\ Becomes(s, r.x)
               ELSE Becomes(s, check_read(r.x)) /\ Found(CanRead(r.x))
    BY <1>8, Zenon DEF PollEvents
  <2> DEFINE n == peer[s]
             y == check_read(r.x)
  <2> HIDE DEF s
  <2>3. Took(sk[s], r.x, n) /\ Fresh(r.x, n)
        /\ r.rc \in {"ok", "ETERM", "EINTR"}
    BY <1>2, <2>1, Results DEF Sockets
  <2>4. CASE r.rc # "ok"
    <3>1. Allowed(r.rc) /\ r.rc \in Codes
      BY <1>1, <2>3, <2>4 DEF Allowed, Codes
    <3>2. QED
      BY <1>1, <1>3, <2>1, <2>2, <2>3, <2>4, <3>1, NoPartType, ReturnStep
         DEF Took
  <2>5. CASE r.rc = "ok"
    <3>1. Becomes(s, y) /\ Found(CanRead(r.x)) BY <2>2, <2>5
    <3>2. Sound(y, n) /\ y.options = sk[s].options /\ y.in = sk[s].in
      BY <2>3, CheckReadSound DEF Took
    <3> HIDE DEF y
    <3>3. sk'[s] = y /\ \A t \in Socks : t # s => sk'[t] = sk[t]
      BY <1>1, <1>2, <2>1, <3>1, <3>2, Becoming
    <3>4. \A t \in Socks : sk'[t].in = sk[t].in BY <3>2, <3>3
    <3>5. sk[s].in # <<>> => CanRead(r.x)
      BY <2>3 DEF Took, Fresh, CanRead
    <3>6. CanRead(r.x) \in BOOLEAN
      BY <2>3 DEF Took, Sound, SocketType, CanRead
    <3>7. Calls'
      BY <1>1, <1>8, <3>1, <3>4, <3>5, <3>6, NextItem DEF s
    <3>8. QED BY <1>1, <1>3, <2>1, <3>1, <3>2, <3>7, GoStep
  <2>6. QED BY <2>4, <2>5
<1>9. QED BY <1>6, <1>7, <1>8

LEMMA PollDecideKeeps ==
  ASSUME IInv, PollDecide
  PROVE  CallStep
<1>1. call.fn = "poll" /\ call.pc = "events" /\ call.i > Len(Items)
      /\ peer' = peer /\ plan' = plan /\ raw' = raw /\ sk' = sk
      /\ call.fn # "none"
  BY DEF PollDecide, At, Outside
<1>2. CallType /\ Time /\ Sockets /\ Calls /\ clock.now \in Int
      /\ call.timeo \in Int
  BY <1>1, InCall
<1>3. call.end \in Int /\ call.t0 \in Int /\ call.i \in Nat
  BY <1>2 DEF CallType
<1>4. Len(Items) \in Nat /\ DOMAIN Items = 1..Len(Items)
  BY ItemsType DEF IInv
<1>5. call.rev = {} => ~call.was
  BY <1>1, <1>2, <1>3, <1>4 DEF Calls, Polling, Ahead
<1>6. (call.block => Timed) /\ call.left = 0
  BY <1>1, <1>2 DEF Calls, Polling
<1>7. "wait" \in Pcs /\ "ok" \in Codes BY DEF Pcs, Codes
<1>8. CASE call.timeo = 0 \/ call.rev # {}
  <2>1. Return("ok", NoPart) /\ clock' = clock BY <1>8 DEF PollDecide
  <2>2. Allowed("ok") BY <1>1, <1>5, <1>8 DEF Allowed
  <2>3. Time' BY <1>2, <2>1 DEF Time
  <2>4. QED BY <1>1, <1>7, <2>1, <2>2, <2>3, NoPartType, ReturnOnly
<1>9. CASE call.timeo < 0 /\ call.rev = {}
  <2>1. call' = [call EXCEPT !.pc = "wait"] /\ ret' = ret /\ clock' = clock
    BY <1>2, <1>9 DEF PollDecide
  <2>2. Time' BY <1>2, <2>1 DEF Time
  <2>3. /\ CallType' /\ call'.fn = "poll" /\ call'.pc = "wait"
        /\ call'.was = call.was /\ call'.timeo = call.timeo
        /\ call'.left = call.left
    BY <1>1, <1>2, <1>7, <2>1 DEF CallType
  <2>4. Timed' BY <1>2, <1>9, <2>3 DEF Timed
  <2>5. Calls'
    BY <1>5, <1>6, <1>9, <2>3, <2>4 DEF Calls, Receiving, Sending, Polling
  <2>6. QED BY <1>1, <2>1, <2>2, <2>5, GoOnly
<1>10. CASE call.timeo > 0 /\ call.rev = {}
  <2>1. PICK t \in now_ms :
            LET end == IF call.block THEN call.end ELSE t + call.timeo
            IN /\ clock' = [clock EXCEPT !.last = t]
               /\ IF t >= end THEN Return("ok", NoPart)
                  ELSE PollAgain(t, end) /\ ret' = ret
    BY <1>2, <1>10 DEF PollDecide
  <2> DEFINE end == IF call.block THEN call.end ELSE t + call.timeo
  <2>2. t \in Int /\ t <= clock.now /\ t >= clock.now - 1 BY <1>2, NowMs
  <2>3. Time' /\ clock'.now = clock.now BY <1>2, <2>1, NowMs
  <2>4. call.block \in BOOLEAN BY <1>2 DEF CallType
  <2>5. end \in Int BY <1>2, <1>3, <2>2
  <2>6. CASE t >= end
    <3>1. Return("ok", NoPart) BY <2>1, <2>6
    <3>2. call.block BY <1>2, <1>10, <2>2, <2>6
    <3>3. clock.now >= call.t0 + call.timeo - 1
      BY <1>2, <1>3, <1>6, <1>10, <2>2, <2>6, <3>2 DEF Timed
    <3>4. Allowed("ok") BY <1>1, <1>5, <1>10, <3>3 DEF Allowed
    <3>5. QED BY <1>1, <1>7, <2>3, <3>1, <3>4, NoPartType, ReturnOnly
  <2>7. CASE ~(t >= end)
    <3> DEFINE u == clock.now + end - t
               z == IF call.block THEN call.t0 ELSE clock.now
    <3>1. call' = [call EXCEPT !.pc = "wait", !.end = end, !.until = u,
                                !.t0 = z]
          /\ ret' = ret
      BY <2>1, <2>7 DEF PollAgain
    <3>2. u \in Int /\ z \in Int BY <1>2, <1>3, <2>2, <2>5
    <3>3. u <= end + 1 BY <1>2, <2>2, <2>5
    <3>4. z + call.timeo - 1 <= end /\ end <= z + call.timeo
      BY <1>2, <1>3, <1>6, <1>10, <2>2 DEF Timed
    <3> HIDE DEF u, z, end
    <3>6. /\ CallType' /\ call'.fn = "poll" /\ call'.pc = "wait"
          /\ call'.was = call.was /\ call'.timeo = call.timeo
          /\ call'.end = end /\ call'.until = u /\ call'.t0 = z
          /\ call'.left = call.left
      BY <1>1, <1>2, <1>7, <2>5, <3>1, <3>2 DEF CallType
    <3>7. Timed' BY <1>2, <1>6, <2>5, <3>2, <3>3, <3>4, <3>6 DEF Timed
    <3>8. Calls'
      BY <1>5, <1>6, <1>10, <3>6, <3>7 DEF Calls, Receiving, Sending, Polling
    <3>9. QED BY <1>1, <2>3, <3>1, <3>8, GoOnly
  <2>8. QED BY <2>6, <2>7
<1>11. QED BY <1>2, <1>8, <1>9, <1>10

-----------------------------------------------------------------------------
(* The application *)

LEMMA Starting ==
  ASSUME IInv, NEW fn \in {"recv", "send", "poll"}, NEW s \in Socks,
         NEW timeo \in Int, NEW part \in PartSet, Start(fn, s, timeo, part)
  PROVE  CallStep
<1> DEFINE was == CASE fn = "recv" -> Readable(s)
                    [] fn = "send" -> timeo # 0 /\ Writable(s)
                    [] fn = "poll" -> \E i \in DOMAIN Items :
                         IF Items[i] = "raw" THEN RawEvents # {}
                         ELSE Readable(Items[i])
<1>1. /\ call' = [NoCall EXCEPT !.fn = fn, !.pc = "enter", !.s = s,
                    !.timeo = timeo, !.part = part, !.was = was]
      /\ ret' = NoRet
      /\ clock' = [now |-> 0, last |-> IF clock.last >= clock.now - 1
                                       THEN clock.last - clock.now ELSE -2]
      /\ plan' = plan /\ sk' = sk /\ peer' = peer /\ raw' = raw
  BY DEF Start
<1>2. CallType /\ Time /\ Sockets BY DEF IInv, Calls
<1>3. Sockets' BY <1>1, <1>2 DEF Sockets
<1>4. Time'
  <2>1. MaxTime \in Nat BY SocketApiAssumption
  <2>2. clock.last \in Int /\ clock.now \in Int /\ clock.last <= clock.now
    BY <1>2 DEF Time
  <2>3. QED BY <1>1, <2>1, <2>2 DEF Time
<1>5. was \in BOOLEAN
  <2>1. Readable(s) \in BOOLEAN BY DEF Readable
  <2>2. (timeo # 0 /\ Writable(s)) \in BOOLEAN
        /\ (\E i \in DOMAIN Items :
              IF Items[i] = "raw" THEN RawEvents # {} ELSE Readable(Items[i]))
             \in BOOLEAN
    OBVIOUS
  <2>3. QED BY <2>1, <2>2
<1>6. /\ fn = "recv" => was = Readable(s)
      /\ fn = "send" => was = (timeo # 0 /\ Writable(s))
      /\ fn = "poll" => was = \E i \in DOMAIN Items : There(i)
  BY DEF There, Readable
<1> HIDE DEF was
<1>7. /\ call'.fn = fn /\ call'.pc = "enter" /\ call'.s = s
      /\ call'.timeo = timeo /\ call'.part = part /\ call'.was = was
      /\ call'.left = 0 /\ call'.end = 0 /\ call'.until = 0 /\ call'.t0 = 0
      /\ call'.block = FALSE /\ call'.i = 1 /\ call'.seen = {}
      /\ call'.rev = {}
  BY <1>1 DEF NoCall
<1>8. call' = [fn |-> fn, pc |-> "enter", s |-> s, timeo |-> timeo,
               left |-> 0, end |-> 0, until |-> 0, t0 |-> 0, block |-> FALSE,
               part |-> part, was |-> was, i |-> 1, seen |-> {}, rev |-> {}]
  BY <1>1 DEF NoCall
<1>9. CallType'
  <2>1. 0 \in Int /\ 1 \in Nat OBVIOUS
  <2>2. FALSE \in BOOLEAN /\ {} \in SUBSET {"in", "err"}
        /\ {} \in SUBSET (Socks \cup {"raw"}) /\ "enter" \in Pcs
        /\ fn \in {"none", "recv", "send", "poll"}
    BY Zenon DEF Pcs
  <2>3. QED BY <1>5, <1>8, <2>1, <2>2, Zenon DEF CallType
<1>10. Receiving' BY <1>1, <1>6, <1>7 DEF Receiving, Readable
<1>11. Sending' BY <1>1, <1>6, <1>7 DEF Sending, Writable
<1>12. Polling'
  <2>1. fn = "poll" /\ was => (\E j \in DOMAIN Items : There(j))'
    BY <1>1, <1>6 DEF There, Items, RawEvents
  <2>2. QED BY <1>7, <2>1 DEF Polling
<1>13. Calls' BY <1>7, <1>9, <1>10, <1>11, <1>12 DEF Calls
<1>14. /\ ret'.fn = "none" /\ ret'.rc = "ok" /\ ret'.part = NoPart
       /\ ret'.was = FALSE /\ ret'.timeo = 0 /\ ret'.t0 = 0
  BY <1>1 DEF NoRet
<1>15. Answer' BY <1>14, Answered
<1>16. QED BY <1>1, <1>3, <1>4, <1>13, <1>14, <1>15 DEF CallStep

\* The sockets, the call and its answer stay; the application may go on.
LEMMA OnlyApp ==
  ASSUME IInv, plan' = plan, sk' = sk, peer' = peer, raw' = raw,
         call' = call, ret' = ret, clock' = clock
  PROVE  CallStep
<1>1. Sockets /\ Time /\ Calls /\ Answer BY DEF IInv
<1>2. Sockets' BY <1>1 DEF Sockets
<1>3. Time' BY <1>1 DEF Time
<1>4. Answer' BY <1>1 DEF Answer, NothingOverlooked, GaveUp
<1>5. Calls'
  BY <1>1 DEF Calls, CallType, Receiving, Sending, Polling, Timed, Writable,
              There, Ahead, RawEvents, Items
<1>6. QED BY <1>2, <1>3, <1>4, <1>5 DEF CallStep

LEMMA InPlan ==
  ASSUME IInv
  PROVE  /\ plan.msgs \in [Socks -> Nat] /\ plan.timeouts \subseteq Int
         /\ {"f", "b", "c"} \subseteq Socks /\ AppType
         /\ ret.part \in PartSet
BY SocketApiAssumption DEF IInv, Answer

\* What the programs do keeps the sockets, the calls and the application.
AppStep == CallStep /\ AppType' /\ plan' = plan /\ raw' = raw

LEMMA ReceiveKeeps ==
  ASSUME IInv, Receive
  PROVE  AppStep /\ app' = app
<1>1. app' = app BY DEF Receive
<1>2. PICK t \in plan.timeouts : Start("recv", "f", t, NoPart) BY DEF Receive
<1>3. t \in Int /\ "f" \in Socks /\ AppType BY InPlan
<1>4. CallStep BY <1>2, <1>3, NoPartType, Starting
<1>5. plan' = plan /\ raw' = raw BY <1>2 DEF Start
<1>6. QED BY <1>1, <1>3, <1>4, <1>5 DEF AppStep, AppType

LEMMA SendKeeps ==
  ASSUME IInv, Send
  PROVE  AppStep /\ app'.set = app.set /\ app'.bound = app.bound
                 /\ app'.came = app.came
<1> DEFINE all == FlattenSeq([m \in 1..plan.msgs["f"] |-> Parts(m)])
           next == IF ret.fn = "send" /\ ret.rc = "ok" THEN app.next + 1
                   ELSE app.next
<1>1. /\ next \in DOMAIN all /\ app' = [app EXCEPT !.next = next]
      /\ \E t \in plan.timeouts : Start("send", "f", t, all[next])
  BY DEF Send
<1>2. PICK t \in plan.timeouts : Start("send", "f", t, all[next]) BY <1>1
<1>3. t \in Int /\ "f" \in Socks /\ AppType /\ plan.msgs["f"] \in Nat
  BY InPlan
<1>4. all \in Seq(PartSet)
  <2> DEFINE ss == [m \in 1..plan.msgs["f"] |-> Parts(m)]
  <2>1. \A m \in 1..plan.msgs["f"] : Parts(m) \in Seq(PartSet)
    BY <1>3, PartsType
  <2>2. ss \in Seq(Seq(PartSet)) BY <1>3, <2>1
  <2> HIDE DEF ss
  <2>3. FlattenSeq(ss) \in Seq(PartSet) BY <2>2, FlattenSeqType
  <2>4. QED BY <2>3 DEF ss
<1> HIDE DEF all, next
<1>5. all[next] \in PartSet BY <1>1, <1>4
<1>6. CallStep BY <1>2, <1>3, <1>5, Starting
<1>7. plan' = plan /\ raw' = raw BY <1>2 DEF Start
<1>8. /\ AppType' /\ app'.set = app.set /\ app'.bound = app.bound
      /\ app'.came = app.came
  BY <1>1, <1>3 DEF AppType
<1>9. QED BY <1>6, <1>7, <1>8 DEF AppStep

LEMMA PollKeeps ==
  ASSUME IInv, Poll
  PROVE  AppStep /\ app' = app
<1>1. app' = app BY DEF Poll
<1>2. \/ Start("recv", "f", 0, NoPart)
      \/ \E t \in plan.timeouts : Start("poll", "f", t, NoPart)
  BY DEF Poll
<1>3. plan.timeouts \subseteq Int /\ "f" \in Socks /\ AppType BY InPlan
<1>4. CallStep /\ plan' = plan /\ raw' = raw
  <2>1. CASE Start("recv", "f", 0, NoPart)
    <3>1. CallStep BY <1>3, <2>1, NoPartType, Starting
    <3>2. QED BY <2>1, <3>1 DEF Start
  <2>2. ASSUME NEW t \in plan.timeouts, Start("poll", "f", t, NoPart)
        PROVE  CallStep /\ plan' = plan /\ raw' = raw
    <3>1. CallStep BY <1>3, <2>2, NoPartType, Starting
    <3>2. QED BY <2>2, <3>1 DEF Start
  <2>3. QED BY <1>2, <2>1, <2>2
<1>5. QED BY <1>1, <1>3, <1>4 DEF AppStep, AppType

\* The steps of zmq_proxy: a call, or the next place in its loop.
LEMMA ProxyKeeps ==
  ASSUME IInv, Proxy
  PROVE  AppStep /\ app'.set = app.set /\ app'.bound = app.bound
                 /\ app'.came = app.came
<1> DEFINE Same == app'.set = app.set /\ app'.bound = app.bound
                   /\ app'.came = app.came
<1>1. /\ {"f", "b", "c"} \subseteq Socks /\ AppType /\ ret.part \in PartSet
      /\ app.from \in Socks /\ app.part \in PartSet /\ -1 \in Int
  BY InPlan DEF AppType
<1>2. ASSUME NEW fn \in {"recv", "send", "poll"}, NEW s \in Socks,
             NEW part \in PartSet, Start(fn, s, -1, part)
      PROVE  CallStep /\ plan' = plan /\ raw' = raw
  <2>1. CallStep BY <1>1, <1>2, Starting
  <2>2. QED BY <1>2, <2>1 DEF Start
<1>3. ASSUME UNCHANGED <<plan, sk, peer, raw, call, ret, listener, clock>>
      PROVE  CallStep /\ plan' = plan /\ raw' = raw
  BY <1>3, OnlyApp
<1>4. OtherSide(app.from) \in Socks BY <1>1 DEF OtherSide
<1>5. CASE ProxyPoll
  <2>1. app' = [app EXCEPT !.pc = "polled"] /\ Start("poll", "f", -1, NoPart)
    BY <1>5 DEF ProxyPoll
  <2>2. AppType' /\ Same BY <1>1, <2>1 DEF AppType
  <2>3. QED BY <1>1, <1>2, <2>1, <2>2, NoPartType DEF AppStep
<1>6. ASSUME NEW side \in {"f", "b"}, NEW rev, ProxySide(side, rev)
      PROVE  AppStep /\ Same
  <2>1. CASE side \in rev
    <3>1. /\ app' = [app EXCEPT !.pc = "received", !.from = side, !.rev = rev]
          /\ Start("recv", side, -1, NoPart)
      BY <1>6, <2>1 DEF ProxySide
    <3>2. AppType' /\ Same BY <1>1, <3>1 DEF AppType
    <3>3. QED BY <1>1, <1>2, <3>1, <3>2, NoPartType DEF AppStep
  <2>2. CASE side \notin rev
    <3>1. /\ app' = [app EXCEPT
                       !.pc = IF side = "f" THEN "second" ELSE "start",
                       !.rev = rev]
          /\ UNCHANGED <<plan, sk, peer, raw, call, ret, listener, clock>>
      BY <1>6, <2>2 DEF ProxySide
    <3>2. AppType' /\ Same BY <1>1, <3>1 DEF AppType
    <3>3. QED BY <1>3, <3>1, <3>2 DEF AppStep
  <2>3. QED BY <2>1, <2>2
<1>7. CASE ProxyFirst BY <1>6, <1>7 DEF ProxyFirst
<1>8. CASE ProxySecond BY <1>6, <1>8 DEF ProxySecond
<1>9. ASSUME NEW part \in PartSet, Forward(part)
      PROVE  AppStep /\ Same
  <2>1. /\ app' = [app EXCEPT !.pc = "sent", !.part = part]
        /\ Start("send", OtherSide(app.from), -1, part)
    BY <1>9 DEF Forward
  <2>2. AppType' /\ Same BY <1>1, <2>1 DEF AppType
  <2>3. QED BY <1>2, <1>4, <2>1, <2>2 DEF AppStep
<1>10. CASE ProxyForward
  <2>1. Received \in PartSet
    <3>1. sk[app.from].rcvmore \in BOOLEAN
      BY <1>1 DEF IInv, Sockets, Sound, SocketType
    <3>2. QED BY <1>1, <3>1 DEF Received, PartSet
  <2>2. CASE plan.capture
    <3>1. /\ app' = [app EXCEPT !.pc = "captured", !.part = Received]
          /\ Start("send", "c", -1, Received)
      BY <1>10, <2>2 DEF ProxyForward
    <3>2. AppType' /\ Same BY <1>1, <2>1, <3>1 DEF AppType
    <3>3. QED BY <1>1, <1>2, <2>1, <3>1, <3>2 DEF AppStep
  <2>3. CASE ~plan.capture
    <3>1. Forward(Received) BY <1>10, <2>3 DEF ProxyForward
    <3>2. QED BY <1>9, <2>1, <3>1
  <2>4. QED BY <2>2, <2>3
<1>11. CASE ProxyCaptured BY <1>1, <1>9, <1>11 DEF ProxyCaptured
<1>12. CASE ProxySent
  <2>1. CASE app.part.more
    <3>1. /\ app' = [app EXCEPT !.pc = "received"]
          /\ Start("recv", app.from, -1, NoPart)
      BY <1>12, <2>1 DEF ProxySent
    <3>2. AppType' /\ Same BY <1>1, <3>1 DEF AppType
    <3>3. QED BY <1>1, <1>2, <3>1, <3>2, NoPartType DEF AppStep
  <2>2. CASE ~app.part.more
    <3>1. /\ app' = [app EXCEPT !.pc = IF app.from = "f" THEN "second"
                                       ELSE "start"]
          /\ UNCHANGED <<plan, sk, peer, raw, call, ret, listener, clock>>
      BY <1>12, <2>2 DEF ProxySent
    <3>2. AppType' /\ Same BY <1>1, <3>1 DEF AppType
    <3>3. QED BY <1>3, <3>1, <3>2 DEF AppStep
  <2>3. QED BY <2>1, <2>2
<1>13. CASE ProxyFails
  <2>1. /\ app' = [app EXCEPT !.pc = "over"]
        /\ UNCHANGED <<plan, sk, peer, raw, call, ret, listener, clock>>
    BY <1>13 DEF ProxyFails
  <2>2. AppType' /\ Same BY <1>1, <2>1 DEF AppType
  <2>3. QED BY <1>3, <2>1, <2>2 DEF AppStep
<1>14. QED
  BY <1>5, <1>7, <1>8, <1>10, <1>11, <1>12, <1>13 DEF Proxy

-----------------------------------------------------------------------------
(* The other threads *)

\* What a call may count on while others act on socket s.
Grows(s) ==
  /\ sk[s].in # <<>> => sk'[s].in # <<>>
  /\ sk'[s].in_active = sk[s].in_active /\ sk'[s].written = sk[s].written
  /\ sk'[s].known = sk[s].known /\ peer[s].told <= peer'[s].told

LEMMA CallsStay ==
  ASSUME Calls, Sockets, Sockets', plan \in Plans, plan' = plan, call' = call,
         \A s \in Socks : Grows(s),
         RawEvents # {} => RawEvents' # {}
  PROVE  Calls'
<1>1. CallType /\ CallType' /\ call.s \in Socks BY DEF Calls, CallType
<1>2. Grows(call.s) BY <1>1
<1>3. Receiving'
  BY <1>2 DEF Calls, Receiving, Grows, Timed
<1>4. Writable(call.s) => Writable(call.s)'
  <2>1. /\ peer[call.s].told \in Nat /\ peer'[call.s].told \in Nat
        /\ sk[call.s].written \in Nat /\ Hwm \in Nat
    BY <1>1, SocketApiAssumption DEF Sockets, Sound, SocketType
  <2>2. QED BY <1>2, <2>1 DEF Writable, Grows
<1>5. Sending'
  <2>1. CanWrite(sk[call.s]) => CanWrite(sk'[call.s])
    BY <1>2 DEF Grows, CanWrite
  <2>2. QED BY <1>2, <1>4, <2>1 DEF Calls, Sending, Timed
<1>6. Polling'
  <2>1. \A j \in DOMAIN Items : Items[j] \in Socks \cup {"raw"}
    BY ItemsType
  <2>2. Items' = Items BY DEF Items
  <2>3. \A j \in DOMAIN Items : /\ There(j) => There(j)'
                                /\ Ahead(j) => Ahead(j)'
    BY <2>1, <2>2 DEF There, Ahead, Grows
  <2>4. QED BY <2>2, <2>3 DEF Calls, Polling, Timed
<1>7. QED BY <1>1, <1>3, <1>5, <1>6 DEF Calls

\* What another thread's step does.
OtherStep ==
  /\ Sockets' /\ Calls' /\ Answer' /\ Time' /\ AppType'
  /\ plan' = plan /\ raw' \subseteq {"in", "err"} /\ ret' = ret
  /\ app' = app /\ listener' = listener
  /\ sk'["f"].options = sk["f"].options

\* A step on socket s, that becomes y, and its peer.
LEMMA PeerKeeps ==
  ASSUME IInv, NEW s \in Socks, NEW y, Becomes(s, y),
         UNCHANGED <<plan, raw, call, ret, app, listener, clock>>,
         DOMAIN peer' = Socks,
         \A t \in Socks : t # s => peer'[t] = peer[t],
         DOMAIN peer'[s] = {"sent", "read", "told", "got"},
         peer'[s].told \in Nat, peer'[s].sent \in Nat,
         peer[s].told <= peer'[s].told,
         Sound(y, peer'[s]), sk[s].in # <<>> => y.in # <<>>,
         y.in_active = sk[s].in_active, y.written = sk[s].written,
         y.known = sk[s].known, y.options = sk[s].options
  PROVE  OtherStep
<1>1. Sockets /\ Calls /\ Answer /\ Time /\ AppType /\ plan \in Plans
      /\ clock.now \in Int /\ raw \subseteq {"in", "err"}
  BY DEF IInv, Time
<1>2. /\ DOMAIN sk' = Socks /\ sk'[s] = y
      /\ \A t \in Socks : t # s => sk'[t] = sk[t]
  BY <1>1 DEF Sockets, Becomes
<1>3. Sockets' BY <1>1, <1>2 DEF Sockets
<1>4. \A t \in Socks : Grows(t)
  <2>1. SUFFICES ASSUME NEW t \in Socks PROVE Grows(t) OBVIOUS
  <2>2. CASE t = s BY <1>2, <2>2 DEF Grows
  <2>3. CASE t # s
    <3>1. peer[t].told \in Nat BY <1>1 DEF Sockets
    <3>2. peer[t].told <= peer'[t].told BY <2>3, <3>1
    <3>3. sk'[t] = sk[t] BY <1>2, <2>3
    <3>4. QED BY <3>2, <3>3 DEF Grows
  <2>4. QED BY <2>2, <2>3
<1>5. RawEvents' = RawEvents BY DEF RawEvents
<1>6. Calls' BY <1>1, <1>3, <1>4, <1>5, CallsStay
<1>7. Answer' BY <1>1, AnswerStays
<1>8. "f" \in Socks BY SocketApiAssumption
<1>9. sk'["f"].options = sk["f"].options BY <1>2, <1>8
<1>10. Time' /\ AppType' BY <1>1 DEF Time, AppType
<1>11. QED BY <1>1, <1>3, <1>6, <1>7, <1>9, <1>10 DEF OtherStep

\* All that a socket has to do with of its peer.
LEMMA SamePeer ==
  ASSUME NEW y, NEW n, NEW b, Sound(y, n), b.read = n.read, b.told = n.told
  PROVE  Sound(y, b)
BY DEF Sound, Writing, Peer

LEMMA PeerSendsKeeps ==
  ASSUME IInv, NEW s \in Socks, PeerSends(s)
  PROVE  OtherStep
<1> DEFINE k == peer[s].told
           m == MsgOf(s, peer[s].sent + 1)
           y == [sk[s] EXCEPT
                   !.in = @ \o Parts(m), !.asleep = FALSE,
                   !.cmds = IF sk[s].asleep
                            THEN Append(@, [type |-> "activate_read",
                                            read |-> 0])
                            ELSE @]
<1>1. /\ Becomes(s, y) /\ peer' = [peer EXCEPT ![s].sent = @ + 1]
      /\ UNCHANGED <<plan, raw, call, ret, app, listener, clock>>
  BY DEF PeerSends
<1>2. /\ DOMAIN peer = Socks /\ k \in Nat /\ peer[s].sent \in Nat
      /\ DOMAIN peer[s] = {"sent", "read", "told", "got"} /\ Sound(sk[s], peer[s])
  BY DEF IInv, Sockets
<1>3. m \in Int
  <2>1. plan.msgs["f"] \in Nat BY InPlan
  <2>2. QED BY <1>2, <2>1 DEF MsgOf
<1>4. PeerSent(sk[s], y, m) BY DEF PeerSent
<1> HIDE DEF y, m
<1>5. /\ Sound(y, peer[s]) /\ y.in # <<>> /\ y.options = sk[s].options
      /\ y.written = sk[s].written /\ y.known = sk[s].known
      /\ y.in_active = sk[s].in_active
  BY <1>2, <1>3, <1>4, SendsSound
<1>6. /\ DOMAIN peer' = Socks /\ \A t \in Socks : t # s => peer'[t] = peer[t]
      /\ DOMAIN peer'[s] = {"sent", "read", "told", "got"}
      /\ peer'[s].read = peer[s].read /\ peer'[s].told = k
      /\ peer'[s].sent \in Nat /\ k <= k
  BY <1>1, <1>2
<1>7. Sound(y, peer'[s]) BY <1>5, <1>6, SamePeer
<1>8. QED BY <1>1, <1>2, <1>5, <1>6, <1>7, PeerKeeps

LEMMA PeerReadsKeeps ==
  ASSUME IInv, NEW s \in Socks, PeerReads(s)
  PROVE  OtherStep
<1> DEFINE p == Head(sk[s].out)
           r == IF p.more THEN peer[s].read ELSE peer[s].read + 1
           tells == Tells(r)
           told == IF tells THEN r ELSE peer[s].told
           y == [sk[s] EXCEPT !.out = Tail(@),
                   !.cmds = IF tells
                            THEN Append(@, [type |-> "activate_write",
                                            read |-> r])
                            ELSE @]
<1>1. /\ Ends(sk[s].out) # {} /\ Becomes(s, y)
      /\ peer' = [peer EXCEPT ![s].read = r, ![s].got = Append(@, p),
                              ![s].told = IF tells THEN r ELSE @]
      /\ UNCHANGED <<plan, raw, call, ret, app, listener, clock>>
  BY DEF PeerReads, Ends
<1>2. /\ DOMAIN peer = Socks /\ peer[s].sent \in Nat /\ peer[s].told \in Nat
      /\ DOMAIN peer[s] = {"sent", "read", "told", "got"}
      /\ Sound(sk[s], peer[s])
  BY DEF IInv, Sockets
<1>3. tells \in BOOLEAN BY DEF Tells
<1> HIDE DEF tells
<1>4. /\ DOMAIN peer' = Socks /\ \A t \in Socks : t # s => peer'[t] = peer[t]
      /\ DOMAIN peer'[s] = {"sent", "read", "told", "got"}
      /\ peer'[s].read = r /\ peer'[s].told = told /\ peer'[s].sent \in Nat
  BY <1>1, <1>2
<1>5. PeerRead(sk[s], y, peer[s], peer'[s], tells) BY <1>4 DEF PeerRead
<1> HIDE DEF y, r, told
<1>6. /\ Sound(y, peer'[s]) /\ peer[s].told <= peer'[s].told
      /\ y.in = sk[s].in /\ y.options = sk[s].options
      /\ y.written = sk[s].written /\ y.known = sk[s].known
      /\ y.in_active = sk[s].in_active
  BY <1>1, <1>2, <1>3, <1>5, ReadsSound
<1>7. peer'[s].told \in Nat BY <1>6 DEF Sound, Writing, Peer
<1>8. QED BY <1>1, <1>2, <1>4, <1>6, <1>7, PeerKeeps

LEMMA TerminateKeeps ==
  ASSUME IInv, Terminate
  PROVE  OtherStep
<1>1. /\ sk' = [s \in Socks |-> [sk[s] EXCEPT
                  !.cmds = Append(@, [type |-> "stop", read |-> 0])]]
      /\ UNCHANGED <<plan, peer, raw, call, ret, app, listener, clock>>
  BY DEF Terminate
<1>2. Sockets /\ Calls /\ Answer /\ Time /\ AppType /\ plan \in Plans
      /\ clock.now \in Int /\ raw \subseteq {"in", "err"}
  BY DEF IInv, Time
<1>3. \A s \in Socks :
        /\ Sound(sk'[s], peer[s])
        /\ sk'[s].in = sk[s].in /\ sk'[s].options = sk[s].options
        /\ sk'[s].written = sk[s].written /\ sk'[s].known = sk[s].known
        /\ sk'[s].in_active = sk[s].in_active
  <2> SUFFICES ASSUME NEW s \in Socks
               PROVE  /\ Sound(sk'[s], peer[s])
                      /\ sk'[s].in = sk[s].in
                      /\ sk'[s].options = sk[s].options
                      /\ sk'[s].written = sk[s].written
                      /\ sk'[s].known = sk[s].known
                      /\ sk'[s].in_active = sk[s].in_active
    OBVIOUS
  <2>1. Sound(sk[s], peer[s])
    BY <1>2 DEF Sockets
  <2>2. sk'[s] = [sk[s] EXCEPT
                    !.cmds = Append(@, [type |-> "stop", read |-> 0])]
    BY <1>1
  <2>3. QED BY <2>1, <2>2, StopSound
<1>4. DOMAIN sk' = Socks BY <1>1
<1>5. Sockets' BY <1>1, <1>2, <1>3, <1>4 DEF Sockets
<1>6. \A s \in Socks : Grows(s)
  <2>1. \A s \in Socks : peer[s].told <= peer[s].told BY <1>2 DEF Sockets
  <2>2. QED BY <1>1, <1>3, <2>1 DEF Grows
<1>7. RawEvents' = RawEvents BY <1>1 DEF RawEvents
<1>8. Calls' BY <1>1, <1>2, <1>5, <1>6, <1>7, CallsStay
<1>9. Answer' BY <1>1, <1>2, AnswerStays
<1>10. "f" \in Socks BY SocketApiAssumption
<1>11. Time' /\ AppType' BY <1>1, <1>2 DEF Time, AppType
<1>12. QED BY <1>1, <1>2, <1>3, <1>5, <1>8, <1>9, <1>10, <1>11 DEF OtherStep

\* The sockets stay as they are.
LEMMA SocketsStay ==
  ASSUME IInv, sk' = sk, peer' = peer
  PROVE  Sockets' /\ \A s \in Socks : Grows(s)
<1>1. Sockets BY DEF IInv
<1>2. Sockets' BY <1>1 DEF Sockets
<1>3. \A s \in Socks : peer[s].told <= peer[s].told BY <1>1 DEF Sockets
<1>4. QED BY <1>2, <1>3 DEF Grows

LEMMA RawReadyKeeps ==
  ASSUME IInv, RawReady
  PROVE  OtherStep
<1>1. /\ raw = {} /\ \E e \in {"in", "err"} : raw' = {e}
      /\ UNCHANGED <<plan, sk, peer, call, ret, app, listener, clock>>
  BY DEF RawReady
<1>2. Sockets /\ Calls /\ Answer /\ Time /\ AppType /\ plan \in Plans
      /\ clock.now \in Int
  BY DEF IInv, Time
<1>3. Sockets' /\ \A s \in Socks : Grows(s) BY <1>1, SocketsStay
<1>4. RawEvents = {} /\ raw' \subseteq {"in", "err"} BY <1>1 DEF RawEvents
<1>5. Calls' BY <1>1, <1>2, <1>3, <1>4, CallsStay
<1>6. Answer' BY <1>1, <1>2, AnswerStays
<1>7. Time' /\ AppType' BY <1>1, <1>2 DEF Time, AppType
<1>8. QED BY <1>1, <1>3, <1>4, <1>5, <1>6, <1>7 DEF OtherStep

LEMMA TickKeeps ==
  ASSUME IInv, Tick
  PROVE  OtherStep
<1>1. /\ clock.now < IF call.pc = "wait" THEN MaxTime ELSE Early
      /\ clock' = [clock EXCEPT !.now = @ + 1]
      /\ UNCHANGED <<plan, sk, peer, raw, call, ret, app, listener>>
  BY DEF Tick
<1>2. Sockets /\ Calls /\ Answer /\ Time /\ AppType /\ plan \in Plans
      /\ raw \subseteq {"in", "err"}
  BY DEF IInv
<1>3. Early \in Nat /\ MaxTime \in Nat /\ Early <= MaxTime
  BY SocketApiAssumption
<1>4. /\ clock.now \in 0..MaxTime /\ clock.last \in Int
      /\ clock.last <= clock.now
  BY <1>2 DEF Time
<1>5. clock.now + 1 \in 0..MaxTime /\ clock.last <= clock.now + 1
  BY <1>1, <1>3, <1>4
<1>6. clock'.now = clock.now + 1 /\ Time' BY <1>1, <1>2, <1>5 DEF Time
<1>7. Sockets' /\ \A s \in Socks : Grows(s) BY <1>1, SocketsStay
<1>8. RawEvents' = RawEvents BY <1>1 DEF RawEvents
<1>9. Calls' BY <1>1, <1>2, <1>7, <1>8, CallsStay
<1>10. Answer'
  <2>1. clock.now \in Int /\ clock'.now \in Int /\ clock'.now >= clock.now
    BY <1>3, <1>4, <1>6
  <2>2. QED BY <1>1, <1>2, <2>1, AnswerStays
<1>11. AppType' BY <1>1, <1>2 DEF AppType
<1>12. QED BY <1>1, <1>2, <1>6, <1>7, <1>9, <1>10, <1>11 DEF OtherStep

-----------------------------------------------------------------------------
(* The options and the listener *)

\* What a program that sets options leaves alone, when x is what becomes of
\* the socket.
LEMMA SetsSocket ==
  ASSUME IInv, NEW x, Sound(x, peer["f"]), Becomes("f", x),
         UNCHANGED <<plan, peer, raw, call, clock>>, call.fn = "none",
         Answer', AppType'
  PROVE  IInv' /\ sk'["f"] = x
<1>1. Sockets /\ Calls /\ Time /\ plan \in Plans /\ raw \subseteq {"in", "err"}
  BY DEF IInv
<1>2. "f" \in Socks BY SocketApiAssumption
<1>3. Sockets' /\ sk'["f"] = x BY <1>1, <1>2, Becoming
<1>4. Calls'
  BY <1>1 DEF Calls, CallType, Receiving, Sending, Polling
<1>5. Time' BY <1>1 DEF Time
<1>6. QED BY <1>1, <1>3, <1>4, <1>5 DEF IInv

\* The same without a change of the sockets.
LEMMA SetsNothing ==
  ASSUME IInv, UNCHANGED <<plan, sk, peer, raw, call, clock>>, Answer', AppType'
  PROVE  IInv'
<1>1. Sockets /\ Calls /\ Time /\ plan \in Plans /\ raw \subseteq {"in", "err"}
  BY DEF IInv
<1>2. Sockets' /\ \A s \in Socks : Grows(s) BY SocketsStay
<1>3. RawEvents' = RawEvents BY DEF RawEvents
<1>4. Calls' BY <1>1, <1>2, <1>3, CallsStay
<1>5. Time' BY <1>1 DEF Time
<1>6. QED BY <1>1, <1>2, <1>4, <1>5 DEF IInv

\* setsockopt sets one option, or refuses and sets none.
LEMMA SetOne ==
  ASSUME NEW opts, DOMAIN opts = Settable, NEW o \in Settable, NEW v, NEW len,
         NEW keepalive
  PROVE  LET r == setsockopt(opts, o, v, len, keepalive)
         IN /\ r.rc \in {"ok", "EINVAL"} /\ DOMAIN r.opts = Settable
            /\ r.rc # "ok" => r.opts = opts
            /\ \A p \in Settable : p # o => r.opts[p] = opts[p]
            /\ r.rc = "ok" /\ Stores(o, keepalive) =>
                 r.opts[o] = IF o # "TCP_ACCEPT_FILTER" THEN v
                               ELSE IF v.kind = "none" THEN <<>>
                               ELSE Append(opts[o], v.addrs)
<1> DEFINE r == setsockopt(opts, o, v, len, keepalive)
<1>1. CASE o = "TCP_ACCEPT_FILTER"
  <2>0. o # "IDENTITY" /\ o \notin Numbers
    BY <1>1 DEF Numbers, Keepalives
  <2>1. r = SetFilter(opts, v, len) BY <1>1, <2>0 DEF setsockopt
  <2> HIDE DEF r
  <2>2. CASE v.kind = "none" /\ len = 0
    <3>1. r = [rc |-> "ok",
               opts |-> [opts EXCEPT !["TCP_ACCEPT_FILTER"] = <<>>]]
      BY <2>1, <2>2 DEF SetFilter
    <3>2. QED BY <1>1, <2>2, <3>1 DEF r
  <2>3. CASE ~(v.kind = "none" /\ len = 0) /\ (v.kind # "mask" \/ len = 0)
    <3>1. r = [rc |-> "EINVAL", opts |-> opts]
      BY <2>1, <2>3 DEF SetFilter
    <3>2. QED BY <3>1 DEF r
  <2>4. CASE v.kind = "mask" /\ len # 0
    <3>1. r = [rc |-> "ok", opts |-> [opts EXCEPT
                 !["TCP_ACCEPT_FILTER"] = Append(@, v.addrs)]]
      BY <2>1, <2>4 DEF SetFilter
    <3>2. QED BY <1>1, <2>4, <3>1 DEF r
  <2>5. QED BY <2>2, <2>3, <2>4
<1>2. CASE o # "TCP_ACCEPT_FILTER"
  <2>1. \/ r = [rc |-> "ok",
                opts |-> IF Stores(o, keepalive) THEN [opts EXCEPT ![o] = v]
                         ELSE opts]
        \/ r = [rc |-> "EINVAL", opts |-> opts]
    BY <1>2 DEF setsockopt
  <2> HIDE DEF r
  <2>2. CASE r = [rc |-> "ok",
                  opts |-> IF Stores(o, keepalive)
                           THEN [opts EXCEPT ![o] = v] ELSE opts]
    <3>1. r.rc = "ok" /\ r.opts = IF Stores(o, keepalive)
                                  THEN [opts EXCEPT ![o] = v] ELSE opts
      BY <2>2
    <3>2. CASE Stores(o, keepalive)
      <4>1. r.opts = [opts EXCEPT ![o] = v] BY <3>1, <3>2
      <4>2. DOMAIN r.opts = Settable /\ r.opts[o] = v
            /\ \A p \in Settable : p # o => r.opts[p] = opts[p]
        BY <4>1
      <4>3. (IF o # "TCP_ACCEPT_FILTER" THEN v
               ELSE IF v.kind = "none" THEN <<>>
               ELSE Append(opts[o], v.addrs)) = v
        BY <1>2
      <4>4. QED BY <3>1, <4>2, <4>3 DEF r
    <3>3. CASE ~Stores(o, keepalive)
      <4>1. r.opts = opts BY <3>1, <3>3
      <4>2. QED BY <3>1, <3>3, <4>1 DEF r
    <3>4. QED BY <3>2, <3>3
  <2>3. CASE r = [rc |-> "EINVAL", opts |-> opts] BY <2>3 DEF r
  <2>4. QED BY <2>1, <2>2, <2>3
<1>3. QED BY <1>1, <1>2

LEMMA SetsockoptKeeps ==
  ASSUME IInv, OInv, NEW o \in Settable, NEW v, zmq_setsockopt(o, v)
  PROVE  IInv' /\ OInv'
<1> DEFINE old == sk["f"].options
           set == app.set
           Res(len) == IF sk["f"].ctx_terminated
                       THEN [rc |-> "ETERM", opts |-> old]
                       ELSE setsockopt(old, o, v, len, plan.keepalive)
           New(res) == IF res.rc = "ok" THEN Remember(set, o, v) ELSE set
<1>1. PICK len \in Lengths(o, v) :
        /\ Becomes("f", [sk["f"] EXCEPT !.options = Res(len).opts])
        /\ ret' = Returns("setsockopt", Res(len).rc)
        /\ app' = [app EXCEPT !.next = app.next + 1, !.set = New(Res(len))]
  BY DEF zmq_setsockopt
<1> DEFINE r == Res(len)
           x == [sk["f"] EXCEPT !.options = r.opts]
           new == New(r)
<1>2. /\ Becomes("f", x) /\ ret' = Returns("setsockopt", r.rc)
      /\ UNCHANGED <<plan, peer, raw, call, listener, clock>>
      /\ call.fn = "none"
  BY <1>1 DEF zmq_setsockopt, Setting, Idle
<1>3. AppType /\ Remembered /\ Bound /\ OptionsKept
  BY DEF IInv, OInv
<1>4. /\ AppType' /\ app'.set = new /\ app'.bound = app.bound
      /\ app'.came = app.came
  <2>1. app' = [app EXCEPT !.next = app.next + 1, !.set = new]
    BY <1>1
  <2> HIDE DEF new
  <2>2. QED BY <1>3, <2>1 DEF AppType
<1>5. DOMAIN old = Settable /\ DOMAIN set = Settable
  BY <1>3 DEF Remembered
<1>6. /\ r.rc \in {"ok", "EINVAL", "ETERM"} /\ DOMAIN r.opts = Settable
      /\ r.rc # "ok" => r.opts = old
      /\ \A p \in Settable : p # o => r.opts[p] = old[p]
      /\ r.rc = "ok" /\ Stores(o, plan.keepalive) =>
           r.opts[o] = IF o # "TCP_ACCEPT_FILTER" THEN v
                         ELSE IF v.kind = "none" THEN <<>>
                         ELSE Append(old[o], v.addrs)
  <2>1. CASE sk["f"].ctx_terminated
    <3>1. r.rc = "ETERM" /\ r.opts = old BY <2>1
    <3>2. QED BY <1>5, <3>1
  <2>2. CASE ~sk["f"].ctx_terminated
    <3>1. r = setsockopt(old, o, v, len, plan.keepalive) BY <2>2
    <3> HIDE DEF r, old
    <3>2. QED BY <1>5, <3>1, SetOne
  <2>3. QED BY <2>1, <2>2
<1> HIDE DEF r
<1>7. "f" \in Socks /\ Sockets BY SocketApiAssumption DEF IInv
<1>8. /\ Sound(sk["f"], peer["f"])
  BY <1>7 DEF Sockets
<1>9. Sound(x, peer["f"]) BY <1>8, OptionsSound
<1>10. x.options = r.opts BY <1>8 DEF Sound, SocketType
<1> HIDE DEF x
<1>11. /\ ret'.fn = "setsockopt" /\ ret'.rc = r.rc /\ ret'.part = NoPart
       /\ ret'.was = FALSE /\ ret'.timeo = 0 /\ ret'.t0 = 0
  BY <1>2 DEF Returns, NoRet
<1>12. Answer' BY <1>6, <1>11, Answered
<1>13. IInv' /\ sk'["f"] = x BY <1>2, <1>4, <1>9, <1>12, SetsSocket
<1>14. DOMAIN new = Settable BY <1>5 DEF Remember
<1>15. ASSUME NEW p \in Settable, Stores(p, plan.keepalive)
       PROVE  r.opts[p] = new[p]
  <2>1. old[p] = set[p] BY <1>3, <1>15 DEF Remembered
  <2>2. CASE r.rc # "ok" BY <1>6, <2>1, <2>2
  <2>3. CASE r.rc = "ok" /\ p # o
    <3>1. new[p] = set[p] BY <1>5, <2>3 DEF Remember
    <3>2. QED BY <1>6, <2>1, <2>3, <3>1
  <2>4. CASE r.rc = "ok" /\ p = o
    <3>1. new[o] = IF o # "TCP_ACCEPT_FILTER" THEN v
                     ELSE IF v.kind = "none" THEN <<>>
                     ELSE Append(set[o], v.addrs)
      BY <1>5, <2>4 DEF Remember
    <3>2. old[o] = set[o] BY <2>1, <2>4
    <3> HIDE DEF old, set, new
    <3>3. QED BY <1>6, <1>15, <2>4, <3>1, <3>2
  <2>5. QED BY <2>2, <2>3, <2>4
<1> HIDE DEF new
<1>16. Remembered' BY <1>2, <1>4, <1>6, <1>10, <1>13, <1>14, <1>15
          DEF Remembered
<1>17. Bound' BY <1>2, <1>3, <1>4 DEF Bound
<1>18. OptionsKept'
  BY <1>3, <1>4, <1>11 DEF OptionsKept, OptionsTold, FiltersHold
<1>19. QED BY <1>13, <1>16, <1>17, <1>18 DEF OInv

LEMMA GetsockoptKeeps ==
  ASSUME IInv, OInv, NEW o \in Settable, zmq_getsockopt(o)
  PROVE  IInv' /\ OInv'
<1> DEFINE old == sk["f"].options
           Ans(len) == IF sk["f"].ctx_terminated
                       THEN [rc |-> "ETERM", val |-> 0, len |-> len]
                       ELSE getsockopt(old, o, len)
<1>1. PICK len \in {0, 1, 2, 3, 4, 7, 8} :
        ret' = [Returns("getsockopt", Ans(len).rc) EXCEPT
                  !.opt = o, !.val = Ans(len).val, !.len = Ans(len).len,
                  !.given = len]
  BY DEF zmq_getsockopt
<1>2. UNCHANGED <<plan, sk, peer, raw, call, app, listener, clock>>
  BY DEF zmq_getsockopt
<1>3. AppType /\ Remembered /\ Bound /\ OptionsKept BY DEF IInv, OInv
<1>4. /\ Ans(len).rc \in {"ok", "EINVAL", "ETERM"}
      /\ Ans(len).rc = "ok" => /\ Ans(len).len <= len
                               /\ Ans(len).val = old[o]
  <2>1. CASE sk["f"].ctx_terminated BY <2>1
  <2>2. CASE ~sk["f"].ctx_terminated
    <3>1. Ans(len) = getsockopt(old, o, len) BY <2>2
    <3>2. CASE o # "TCP_ACCEPT_FILTER" /\ len >= AnswerSize(old, o)
      <4>1. Ans(len) = [rc |-> "ok", val |-> old[o],
                        len |-> AnswerSize(old, o)]
        BY <3>1, <3>2 DEF getsockopt
      <4> HIDE DEF Ans, old
      <4>2. AnswerSize(old, o) <= len BY <3>2
      <4>3. QED BY <4>1, <4>2
    <3>3. CASE ~(o # "TCP_ACCEPT_FILTER" /\ len >= AnswerSize(old, o))
      <4>1. Ans(len) = [rc |-> "EINVAL", val |-> 0, len |-> len]
        BY <3>1, <3>3 DEF getsockopt
      <4>2. QED BY <4>1
    <3>4. QED BY <3>2, <3>3
  <2>3. QED BY <2>1, <2>2
<1> HIDE DEF Ans
<1>5. /\ ret'.fn = "getsockopt" /\ ret'.rc = Ans(len).rc
      /\ ret'.part = NoPart /\ ret'.was = FALSE /\ ret'.timeo = 0
      /\ ret'.t0 = 0 /\ ret'.opt = o /\ ret'.val = Ans(len).val
      /\ ret'.len = Ans(len).len /\ ret'.given = len
  BY <1>1 DEF Returns, NoRet
<1>6. Answer' BY <1>4, <1>5, Answered
<1>7. AppType' BY <1>2, <1>3 DEF AppType
<1>8. IInv' BY <1>2, <1>6, <1>7, SetsNothing
<1>9. OptionsTold'
  BY <1>2, <1>3, <1>4, <1>5 DEF OptionsTold, Remembered
<1>10. FiltersHold' BY <1>2, <1>3 DEF OptionsKept, FiltersHold
<1>11. Remembered' /\ Bound' BY <1>2, <1>3 DEF Remembered, Bound
<1>12. QED BY <1>8, <1>9, <1>10, <1>11 DEF OInv, OptionsKept

\* Nothing that the options and the listener are compared with changes.
LEMMA OptionsStay ==
  ASSUME OInv, plan' = plan, app'.set = app.set, app'.bound = app.bound,
         app'.came = app.came, listener' = listener,
         sk'["f"].options = sk["f"].options,
         ret' = ret \/ ret'.fn # "getsockopt"
  PROVE  OInv'
<1>1. Remembered /\ Bound /\ OptionsTold /\ FiltersHold
  BY DEF OInv, OptionsKept
<1>2. Remembered' BY <1>1 DEF Remembered
<1>3. Bound' BY <1>1 DEF Bound
<1>4. OptionsTold' BY <1>1 DEF OptionsTold
<1>5. FiltersHold' BY <1>1 DEF FiltersHold
<1>6. QED BY <1>2, <1>3, <1>4, <1>5 DEF OInv, OptionsKept

\* The socket "f" after its commands, in a program that sets options.
LEMMA Taken ==
  ASSUME IInv, NEW r \in process_commands("f", 0, FALSE), Becomes("f", r.x),
         UNCHANGED <<plan, peer, raw, call, clock>>, call.fn = "none",
         AppType', NEW fn \in {"bind", "term_endpoint"},
         NEW rc \in {"ok", "error", "ETERM", "EINTR"}, ret' = Returns(fn, rc)
  PROVE  /\ IInv' /\ sk'["f"].options = sk["f"].options
         /\ r.rc \in {"ok", "ETERM", "EINTR"} /\ ret'.fn # "getsockopt"
<1>1. Sockets /\ "f" \in Socks BY SocketApiAssumption DEF IInv
<1>2. /\ Took(sk["f"], r.x, peer["f"]) /\ r.rc \in {"ok", "ETERM", "EINTR"}
  BY <1>1, Results
<1>3. Sound(r.x, peer["f"]) /\ r.x.options = sk["f"].options
  BY <1>2 DEF Took
<1>4. /\ ret'.fn = fn /\ ret'.rc = rc /\ ret'.part = NoPart
      /\ ret'.was = FALSE /\ ret'.timeo = 0 /\ ret'.t0 = 0
  BY DEF Returns, NoRet
<1>5. Answer' BY <1>4, Answered
<1>6. IInv' /\ sk'["f"] = r.x BY <1>3, <1>5, SetsSocket
<1>7. QED BY <1>2, <1>3, <1>4, <1>6

LEMMA BindKeeps ==
  ASSUME IInv, OInv, bind
  PROVE  IInv' /\ OInv'
<1>1. PICK r \in process_commands("f", 0, FALSE) :
       /\ Becomes("f", r.x)
       /\ IF r.rc # "ok"
          THEN ret' = Returns("bind", r.rc) /\ UNCHANGED <<app, listener>>
          ELSE \E rc \in {"resolve", "open", "bind", "listen", "ok"} :
                 /\ listener' = set_address(sk["f"].options, rc)
                 /\ ret' = Returns("bind", IF rc = "ok" THEN rc ELSE "error")
                 /\ app' = [app EXCEPT !.bound =
                              IF rc = "ok" THEN app.set["TCP_ACCEPT_FILTER"]
                              ELSE @]
  BY DEF bind
<1>2. UNCHANGED <<plan, peer, raw, call, clock>> /\ call.fn = "none"
  BY DEF bind, Setting, Idle
<1>3. AppType /\ Remembered /\ Bound /\ OptionsTold /\ FiltersHold
  BY DEF IInv, OInv, OptionsKept
<1>4. r.rc \in {"ok", "ETERM", "EINTR"}
  <2>1. Sockets /\ "f" \in Socks BY SocketApiAssumption DEF IInv
  <2>2. QED BY <2>1, Results
<1>5. CASE r.rc # "ok"
  <2>1. ret' = Returns("bind", r.rc) /\ app' = app /\ listener' = listener
    BY <1>1, <1>5
  <2>2. AppType' BY <1>3, <2>1 DEF AppType
  <2>3. /\ IInv' /\ sk'["f"].options = sk["f"].options
        /\ ret'.fn # "getsockopt"
    <3>1. r.rc \in {"ok", "error", "ETERM", "EINTR"} BY <1>4
    <3>2. QED BY <1>1, <1>2, <2>1, <2>2, <3>1, Taken
  <2>4. QED BY <1>2, <2>1, <2>3, OptionsStay
<1>6. CASE r.rc = "ok"
  <2>1. PICK rc \in {"resolve", "open", "bind", "listen", "ok"} :
          /\ listener' = set_address(sk["f"].options, rc)
          /\ ret' = Returns("bind", IF rc = "ok" THEN rc ELSE "error")
          /\ app' = [app EXCEPT !.bound =
                       IF rc = "ok" THEN app.set["TCP_ACCEPT_FILTER"] ELSE @]
    BY <1>1, <1>6
  <2>2. /\ AppType' /\ app'.set = app.set /\ app'.came = app.came
        /\ app'.bound = IF rc = "ok" THEN app.set["TCP_ACCEPT_FILTER"]
                        ELSE app.bound
    BY <1>3, <2>1 DEF AppType
  <2>3. /\ IInv' /\ sk'["f"].options = sk["f"].options
        /\ ret'.fn # "getsockopt"
    <3>1. (IF rc = "ok" THEN rc ELSE "error")
            \in {"ok", "error", "ETERM", "EINTR"}
      OBVIOUS
    <3>2. QED BY <1>1, <1>2, <2>1, <2>2, <3>1, Taken
  <2>4. Bound'
    <3> DEFINE opts == sk["f"].options
               new  == NewListener(opts)
               opened == [new EXCEPT !.s = "open"]
    <3>1. /\ DOMAIN new = {"s", "plugged", "term", "options"}
          /\ new.s = "retired" /\ new.options = opts
      BY DEF NewListener
    <3>2. /\ DOMAIN opened = {"s", "plugged", "term", "options"}
          /\ opened.s = "open" /\ opened.options = opts
      BY <3>1
    <3> HIDE DEF new
    <3>3. CASE rc \in {"resolve", "open"}
      <4>1. listener' = new BY <2>1, <3>3 DEF set_address, new
      <4>2. QED BY <3>1, <4>1 DEF Bound
    <3>4. CASE rc \in {"bind", "listen"}
      <4>1. listener' = close(opened) BY <2>1, <3>4 DEF set_address, new
      <4> HIDE DEF opened
      <4>2. listener'.s = "retired" /\ DOMAIN listener' = DOMAIN opened
        BY <3>2, <4>1 DEF close
      <4>3. QED BY <3>2, <4>2 DEF Bound
    <3>5. CASE rc = "ok"
      <4>1. listener' = opened BY <2>1, <3>5 DEF set_address, new
      <4>2. "TCP_ACCEPT_FILTER" \in Settable
            /\ Stores("TCP_ACCEPT_FILTER", plan.keepalive)
        BY DEF Settable, Stores, Keepalives
      <4>3. opts["TCP_ACCEPT_FILTER"] = app.set["TCP_ACCEPT_FILTER"]
        BY <1>3, <4>2 DEF Remembered
      <4> HIDE DEF opened, opts
      <4>4. QED BY <2>2, <3>2, <3>5, <4>1, <4>3 DEF Bound
    <3>6. QED BY <3>3, <3>4, <3>5
  <2>5. Remembered' BY <1>2, <1>3, <2>2, <2>3 DEF Remembered
  <2>6. OptionsTold' BY <2>3 DEF OptionsTold
  <2>7. FiltersHold' BY <1>3, <2>2 DEF FiltersHold
  <2>8. QED BY <2>3, <2>4, <2>5, <2>6, <2>7 DEF OInv, OptionsKept
<1>7. QED BY <1>5, <1>6

LEMMA TermEndpointKeeps ==
  ASSUME IInv, OInv, term_endpoint
  PROVE  IInv' /\ OInv'
<1>1. PICK r \in process_commands("f", 0, FALSE) :
       /\ Becomes("f", r.x) /\ ret' = Returns("term_endpoint", r.rc)
       /\ listener' = [listener EXCEPT !.term = (r.rc = "ok")]
  BY DEF term_endpoint
<1>2. /\ UNCHANGED <<plan, peer, raw, call, app, clock>> /\ call.fn = "none"
  BY DEF term_endpoint, Setting, Idle
<1>3. AppType /\ Remembered /\ Bound /\ OptionsTold /\ FiltersHold
  BY DEF IInv, OInv, OptionsKept
<1>4. r.rc \in {"ok", "error", "ETERM", "EINTR"}
  <2>1. Sockets /\ "f" \in Socks BY SocketApiAssumption DEF IInv
  <2>2. QED BY <2>1, Results
<1>5. AppType' BY <1>2, <1>3 DEF AppType
<1>6. /\ IInv' /\ sk'["f"].options = sk["f"].options
      /\ ret'.fn # "getsockopt"
  BY <1>1, <1>2, <1>4, <1>5, Taken
<1>7. Bound' BY <1>1, <1>2, <1>3 DEF Bound
<1>8. Remembered' BY <1>2, <1>3, <1>6 DEF Remembered
<1>9. OptionsTold' /\ FiltersHold'
  BY <1>2, <1>3, <1>6 DEF OptionsTold, FiltersHold
<1>10. QED BY <1>6, <1>7, <1>8, <1>9 DEF OInv, OptionsKept

LEMMA ListenerStepKeeps ==
  ASSUME IInv, OInv, ListenerStep
  PROVE  IInv' /\ OInv'
<1>1. /\ listener.s = "open"
      /\ \/ listener' = process_plug(listener)
         \/ listener' = process_term(listener)
      /\ UNCHANGED <<plan, sk, peer, raw, call, ret, app, clock>>
  BY DEF ListenerStep
<1>2. AppType /\ Answer /\ clock.now \in Int /\ Remembered /\ Bound
      /\ OptionsTold /\ FiltersHold
  BY DEF IInv, OInv, OptionsKept, Time
<1>3. AppType' BY <1>1, <1>2 DEF AppType
<1>4. Answer' BY <1>1, <1>2, AnswerStays
<1>5. IInv' BY <1>1, <1>3, <1>4, SetsNothing
<1>6. Bound'
  <2>1. CASE listener' = process_plug(listener)
    BY <1>1, <1>2, <2>1 DEF Bound, process_plug
  <2>2. CASE listener' = process_term(listener)
    <3>1. /\ close(listener).s = "retired"
          /\ DOMAIN close(listener) = DOMAIN listener
      BY <1>1, <1>2 DEF close, Bound
    <3>2. /\ listener'.s = "retired" /\ DOMAIN listener' = DOMAIN listener
      BY <2>2, <3>1 DEF process_term
    <3>3. QED BY <1>2, <3>2 DEF Bound
  <2>3. QED BY <1>1, <2>1, <2>2
<1>7. Remembered' /\ OptionsTold' /\ FiltersHold'
  BY <1>1, <1>2 DEF Remembered, OptionsTold, FiltersHold
<1>8. QED BY <1>5, <1>6, <1>7 DEF OInv, OptionsKept

LEMMA ConnectionKeeps ==
  ASSUME IInv, OInv, NEW addr, Connection(addr)
  PROVE  IInv' /\ OInv'
<1> DEFINE kept == accept(listener, sk["f"].options, addr)
           x == [addr |-> addr, filters |-> app.bound, kept |-> kept]
<1>1. /\ listener.s = "open" /\ app' = [app EXCEPT !.came = @ \cup {x}]
      /\ UNCHANGED <<plan, sk, peer, raw, call, ret, listener, clock>>
  BY DEF Connection
<1>2. AppType /\ Answer /\ clock.now \in Int /\ Remembered /\ Bound
      /\ OptionsTold /\ FiltersHold
  BY DEF IInv, OInv, OptionsKept, Time
<1>3. listener.options["TCP_ACCEPT_FILTER"] = app.bound BY <1>1, <1>2 DEF Bound
<1>4. kept <=> app.bound = <<>> \/ addr \in UNION ToSet(app.bound)
  BY <1>3 DEF accept, ToSet
<1>5. x.addr = addr /\ x.filters = app.bound /\ x.kept = kept OBVIOUS
<1> HIDE DEF x, kept
<1>6. /\ AppType' /\ app'.set = app.set /\ app'.bound = app.bound
      /\ app'.came = app.came \cup {x}
  BY <1>1, <1>2 DEF AppType
<1>7. Answer' BY <1>1, <1>2, AnswerStays
<1>8. IInv' BY <1>1, <1>6, <1>7, SetsNothing
<1>9. FiltersHold'
  <2>1. \A y \in app.came :
          y.kept <=> y.filters = <<>> \/ y.addr \in UNION ToSet(y.filters)
    BY <1>2 DEF FiltersHold
  <2>2. x.kept <=> x.filters = <<>> \/ x.addr \in UNION ToSet(x.filters)
    BY <1>4, <1>5
  <2>3. QED BY <1>6, <2>1, <2>2 DEF FiltersHold
<1>10. Remembered' /\ Bound' /\ OptionsTold'
  BY <1>1, <1>2, <1>6 DEF Remembered, Bound, OptionsTold
<1>11. QED BY <1>8, <1>9, <1>10 DEF OInv, OptionsKept

-----------------------------------------------------------------------------
(* The invariants *)

LEMMA InitSound ==
  ASSUME Init
  PROVE  IInv /\ OInv
<1>1. /\ plan \in Plans /\ sk = [s \in Socks |-> NewSocket]
      /\ peer = [s \in Socks |-> [sent |-> 0, read |-> 0, told |-> 0, got |-> <<>>]]
      /\ raw = {} /\ call = NoCall /\ ret = NoRet
      /\ app = [pc |-> "start", from |-> "f", rev |-> {}, part |-> NoPart,
                next |-> 1, set |-> NewOptions, bound |-> <<>>, came |-> {}]
      /\ listener = NewListener(NewOptions)
      /\ clock = [now |-> 0, last |-> 0]
  BY DEF Init
<1>2. "f" \in Socks /\ Hwm \in Nat /\ Rate \in Nat /\ MaxTime \in Nat
  BY SocketApiAssumption
<1>3. ASSUME NEW n, n.read = 0, n.told = 0
      PROVE  Sound(NewSocket, n)
  <2> DEFINE x == NewSocket
  <2>1. /\ DOMAIN x = {"in", "in_active", "asleep", "out", "written", "known",
                       "cmds", "ticks", "rcvmore", "ctx_terminated",
                       "options"}
        /\ x.in = <<>> /\ x.out = <<>> /\ x.cmds = <<>> /\ x.in_active = TRUE
        /\ x.asleep = FALSE /\ x.written = 0 /\ x.known = 0 /\ x.ticks = 0
        /\ x.rcvmore = FALSE /\ x.ctx_terminated = FALSE
    BY DEF NewSocket
  <2> HIDE DEF x
  <2>2. SocketType(x)
    <3>1. /\ <<>> \in Seq(PartSet) /\ <<>> \in Seq(Command)
          /\ 0 \in Nat /\ 0 \in 0..Rate + 1
      BY <1>2
    <3>2. TRUE \in BOOLEAN /\ FALSE \in BOOLEAN OBVIOUS
    <3>3. QED BY <2>1, <3>1, <3>2, Zenon DEF SocketType
  <2>3. \A type : Sent(x, type) = {} BY <2>1 DEF Sent
  <2>4. Ends(x.out) = {} BY <2>1 DEF Ends
  <2>5. IsFiniteSet(Ends(x.out)) /\ Cardinality(Ends(x.out)) = 0
    BY <2>4, FS_EmptySet
  <2>6. Reading(x) BY <2>1, <2>3 DEF Reading
  <2>7. Knows(x, 0) BY <2>1, <2>3 DEF Knows
  <2>8. Writing(x, n) BY <1>2, <1>3, <2>1, <2>5, <2>7 DEF Writing, Peer
  <2>9. QED BY <2>2, <2>6, <2>8 DEF Sound, x
<1>4. Sockets BY <1>1, <1>3 DEF Sockets
<1>5. AppType BY <1>1, <1>2, NoPartType DEF AppType
<1>6. Time BY <1>1, <1>2 DEF Time
<1>7. Calls
  <2>1. NoCall.fn = "none" /\ NoCall.pc = "idle" BY DEF NoCall
  <2>2. CallType BY <1>1, NoCallType DEF CallType
  <2>3. QED BY <1>1, <2>1, <2>2 DEF Calls, Receiving, Sending, Polling
<1>8. Answer
  <2>1. /\ ret.fn = "none" /\ ret.rc = "ok" /\ ret.part = NoPart
        /\ ret.was = FALSE /\ ret.timeo = 0 /\ ret.t0 = 0
    BY <1>1 DEF NoRet
  <2>2. ret.rc \in {"ok", "error", "EINVAL", "EAGAIN", "EINTR", "ETERM"}
        /\ ret.rc # "EAGAIN"
    BY <2>1
  <2>3. 0 \in Int OBVIOUS
  <2>4. ret.timeo \in Int /\ ret.t0 \in Int BY <2>1, <2>3
  <2>5. ret.was \in BOOLEAN BY <2>1, Zenon
  <2>6. NothingOverlooked /\ ~GaveUp
    BY <2>1 DEF NothingOverlooked, GaveUp
  <2>7. QED BY <2>1, <2>2, <2>4, <2>5, <2>6, NoPartType DEF Answer
<1>9. IInv BY <1>1, <1>4, <1>5, <1>6, <1>7, <1>8 DEF IInv
<1>10. Remembered
  <2>1. sk["f"].options = NewOptions /\ app.set = NewOptions
    BY <1>1, <1>2 DEF NewSocket
  <2>2. DOMAIN NewOptions = Settable BY DEF NewOptions
  <2> HIDE DEF NewOptions
  <2>3. QED BY <2>1, <2>2 DEF Remembered
<1>11. Bound BY <1>1 DEF Bound, NewListener
<1>12. OptionsKept
  BY <1>1 DEF OptionsKept, OptionsTold, FiltersHold, NoRet
<1>13. QED BY <1>9, <1>10, <1>11, <1>12 DEF OInv

\* A step of a call, whichever it is.
LEMMA CallKeeps ==
  ASSUME IInv, OInv, Call
  PROVE  IInv' /\ OInv'
<1>1. CallStep
  BY RecvStarts, RecvCommandsKeeps, RecvTryKeeps, RecvLastKeeps,
     RecvWaitKeeps, RecvRetryKeeps, SendStarts, SendTryKeeps, SendWaitKeeps,
     SendRetryKeeps, PollStarts, PollWaitKeeps, PollEventsKeeps,
     PollDecideKeeps
     DEF Call
<1>2. UNCHANGED <<plan, peer, raw, app, listener>>
  <2>1. recv \/ RecvCommands \/ RecvLast \/ RecvWait \/ send \/ SendWait
          \/ PollWait \/ PollEvents => Kept
    BY DEF recv, RecvCommands, RecvLast, RecvWait, send, SendWait, PollWait,
           PollEvents
  <2>2. RecvTry \/ RecvRetry \/ SendTry \/ SendRetry \/ zmq_poll
          \/ PollDecide => Outside
    BY DEF RecvTry, RecvRetry, SendTry, SendRetry, zmq_poll, PollDecide
  <2>3. QED BY <2>1, <2>2 DEF Call, Kept, Outside
<1>3. AppType' BY <1>2 DEF AppType, IInv
<1>4. IInv' BY <1>1, <1>2, <1>3 DEF IInv, CallStep
<1>5. OInv' BY <1>1, <1>2, OptionsStay DEF CallStep
<1>6. QED BY <1>4, <1>5

\* A step of one of the programs that send, receive, poll or forward.
LEMMA ProgramKeeps ==
  ASSUME IInv, OInv, Receive \/ Send \/ Poll \/ Proxy
  PROVE  IInv' /\ OInv'
<1>1. AppStep /\ app'.set = app.set /\ app'.bound = app.bound
      /\ app'.came = app.came
  BY ReceiveKeeps, SendKeeps, PollKeeps, ProxyKeeps
<1>2. listener' = listener
  <2>1. Receive \/ Send \/ Poll => listener' = listener
    BY DEF Receive, Send, Poll, Start
  <2>2. ProxyPoll \/ ProxyFirst \/ ProxySecond \/ ProxyForward
          \/ ProxyCaptured \/ ProxySent \/ ProxyFails
          => listener' = listener
    BY DEF ProxyPoll, ProxyFirst, ProxySecond, ProxyForward, ProxyCaptured,
           ProxySent, ProxyFails, ProxySide, Forward, Start
  <2>3. QED BY <2>1, <2>2 DEF Proxy
<1>3. IInv' BY <1>1 DEF IInv, AppStep, CallStep
<1>4. OInv' BY <1>1, <1>2, OptionsStay DEF AppStep, CallStep
<1>5. QED BY <1>3, <1>4

LEMMA OtherKeeps ==
  ASSUME IInv, OInv, OtherStep
  PROVE  IInv' /\ OInv'
<1>1. IInv' BY DEF IInv, OtherStep
<1>2. OInv' BY OptionsStay DEF OtherStep
<1>3. QED BY <1>1, <1>2

LEMMA StepSound ==
  ASSUME IInv, OInv, [Next]_vars
  PROVE  IInv' /\ OInv'
<1>1. CASE Call BY <1>1, CallKeeps
<1>2. CASE Receive \/ Send \/ Poll \/ Proxy BY <1>2, ProgramKeeps
<1>3. ASSUME NEW o \in Settable, zmq_getsockopt(o)
      PROVE  IInv' /\ OInv'
  BY <1>3, GetsockoptKeeps
<1>4. ASSUME NEW o \in Settable, NEW v \in Trials[o], zmq_setsockopt(o, v)
      PROVE  IInv' /\ OInv'
  BY <1>4, SetsockoptKeeps
<1>5. CASE bind BY <1>5, BindKeeps
<1>6. CASE term_endpoint BY <1>6, TermEndpointKeeps
<1>7. CASE ListenerStep BY <1>7, ListenerStepKeeps
<1>8. ASSUME NEW addr \in Addrs, Connection(addr)
      PROVE  IInv' /\ OInv'
  BY <1>8, ConnectionKeeps
<1>9. ASSUME NEW s \in Socks, PeerSends(s) \/ PeerReads(s)
      PROVE  IInv' /\ OInv'
  BY <1>9, PeerSendsKeeps, PeerReadsKeeps, OtherKeeps
<1>10. CASE Terminate \/ RawReady \/ Tick
  BY <1>10, TerminateKeeps, RawReadyKeeps, TickKeeps, OtherKeeps
<1>11. CASE UNCHANGED vars
  <2>1. UNCHANGED <<plan, sk, peer, raw, call, ret, app, listener, clock>>
    BY <1>11 DEF vars
  <2>2. AppType /\ Answer /\ clock.now \in Int BY DEF IInv, Time
  <2>3. AppType' BY <2>1, <2>2 DEF AppType
  <2>4. Answer' BY <2>1, <2>2, AnswerStays
  <2>5. IInv' BY <2>1, <2>3, <2>4, SetsNothing
  <2>6. OInv' BY <2>1, OptionsStay
  <2>7. QED BY <2>5, <2>6
<1>12. QED
  BY <1>1, <1>2, <1>3, <1>4, <1>5, <1>6, <1>7, <1>8, <1>9, <1>10, <1>11
     DEF Next

LEMMA InvSound ==
  ASSUME IInv, OInv
  PROVE  SocketApiSound /\ OptionsKept
<1>1. Sockets /\ Time /\ Calls /\ Answer /\ Bound BY DEF IInv, OInv
<1>2. TypeOK
  <2>1. ASSUME NEW s \in Socks
        PROVE  /\ sk[s].ticks \in 0..Rate + 1
               /\ sk[s].written - peer[s].told \in 0..Hwm
               /\ sk[s].asleep => ~sk[s].in_active
    <3>1. Sound(sk[s], peer[s])
      BY <1>1 DEF Sockets
    <3>2. SocketType(sk[s]) /\ Reading(sk[s]) /\ Writing(sk[s], peer[s])
      BY <3>1 DEF Sound
    <3>3. sk[s].written \in Nat /\ sk[s].ticks \in 0..Rate + 1
      BY <3>2 DEF SocketType
    <3>4. sk[s].written - peer[s].told \in 0..Hwm
      BY <3>1, <3>2, <3>3, SocketApiAssumption DEF Writing, Peer
    <3>5. QED BY <3>2, <3>3, <3>4 DEF Reading
  <2>2. call.fn \in {"none", "recv", "send", "poll"}
    BY <1>1 DEF Calls, CallType
  <2>3. clock.now \in 0..MaxTime BY <1>1 DEF Time
  <2>4. QED BY <1>1, <2>1, <2>2, <2>3 DEF TypeOK, IInv, Answer, Bound
<1>3. NothingOverlooked BY <1>1 DEF Answer
<1>4. Deadlines
  <2>1. ASSUME call.pc = "wait", call.timeo > 0
        PROVE  call.until <= call.t0 + call.timeo + 1
    <3>1. call.fn \in {"recv", "send", "poll"}
      BY <1>1, <2>1 DEF Calls, CallType
    <3>2. Timed
      BY <1>1, <2>1, <3>1 DEF Calls, Receiving, Sending, Polling
    <3>3. QED BY <2>1, <3>2 DEF Timed
  <2>2. QED BY <1>1, <2>1 DEF Deadlines, Answer
<1>5. QED BY <1>2, <1>3, <1>4 DEF SocketApiSound, OInv

\* A call of zmq_recv or zmq_poll, or of zmq_send with a timeout, gives up
\* only if no message or event was there when it began, and no space that the
\* peer had told of by the low watermark, whatever the
\* throttled process_commands left in the mailbox; with a timeout it gives up
\* when its time has passed, to the millisecond of the cached clock.
THEOREM CallsSound == Spec => []SocketApiSound
<1>1. Init => IInv /\ OInv BY InitSound
<1>2. IInv /\ OInv /\ [Next]_vars => (IInv /\ OInv)' BY StepSound
<1>3. IInv /\ OInv => SocketApiSound BY InvSound
<1>4. QED BY <1>1, <1>2, <1>3, PTL DEF Spec

\* zmq_getsockopt answers with what was accepted last and within the room it
\* is given, and a tcp_listener_t keeps the connections that match the filters
\* the socket had when it was bound, although they may change later.
THEOREM OptionsSafe == Spec => []OptionsKept
<1>1. Init => IInv /\ OInv BY InitSound
<1>2. IInv /\ OInv /\ [Next]_vars => (IInv /\ OInv)' BY StepSound
<1>3. IInv /\ OInv => OptionsKept BY InvSound
<1>4. QED BY <1>1, <1>2, <1>3, PTL DEF Spec

-----------------------------------------------------------------------------
(* Sequences that grow at their end *)

LEMMA FlatIs ==
  ASSUME NEW ss, Len(ss) \in Nat \ {0}
  PROVE  \E F : IsFlat(F, ss, Len(ss)) /\ FlattenSeq(ss) = F[Len(ss)]
<1> DEFINE N == Len(ss)
           A == CHOOSE F : IsFlat(F, ss, N)
<1>1. \E F : IsFlat(F, ss, N) BY FlatExists
<1>2. IsFlat(A, ss, N) BY <1>1, Zenon
<1>3. FlattenSeq(ss) = A[N] BY DEF FlattenSeq, IsFlat
<1>4. QED BY <1>2, <1>3

LEMMA FlattenAppend ==
  ASSUME NEW S, NEW ss \in Seq(Seq(S)), NEW w \in Seq(S)
  PROVE  FlattenSeq(Append(ss, w)) = FlattenSeq(ss) \o w
<1> DEFINE N == Len(ss)
           tt == Append(ss, w)
<1>1. /\ N \in Nat /\ Len(tt) = N + 1 /\ tt[N + 1] = w
      /\ \A i \in 1..N : tt[i] = ss[i]
  OBVIOUS
<1> HIDE DEF tt
<1>2. PICK G : IsFlat(G, tt, N + 1) /\ FlattenSeq(tt) = G[N + 1]
  <2>1. Len(tt) \in Nat \ {0} BY <1>1
  <2>2. QED BY <1>1, <2>1, FlatIs
<1>3. \A i \in 1..N + 1 : G[i] = IF i = 1 THEN tt[i] ELSE G[i - 1] \o tt[i]
  BY <1>2, Zenon DEF IsFlat
<1>4. CASE N = 0
  <2>1. G[1] = w BY <1>1, <1>3, <1>4
  <2>2. FlattenSeq(ss) = <<>> BY <1>4 DEF FlattenSeq
  <2>3. <<>> \o w = w BY ConcatEmptySeq
  <2>4. QED BY <1>2, <1>4, <2>1, <2>2, <2>3 DEF tt
<1>5. CASE N # 0
  <2>1. PICK F : IsFlat(F, ss, N) /\ FlattenSeq(ss) = F[N]
    BY <1>1, <1>5, FlatIs
  <2>2. \A i \in 1..N : F[i] = IF i = 1 THEN ss[i] ELSE F[i - 1] \o ss[i]
    BY <2>1, Zenon DEF IsFlat
  <2> HIDE DEF N
  <2> DEFINE T == {k \in 1..N : F[k] # G[k]}
  <2>3. T = {}
    <3>1. SUFFICES ASSUME T # {} PROVE FALSE OBVIOUS
    <3>2. T \subseteq Nat BY <1>1
    <3>3. PICK k \in T : \A n \in T : k <= n BY <3>1, <3>2, Least
    <3>4. k \in 1..N /\ k \in 1..N + 1 /\ tt[k] = ss[k] BY <1>1
    <3>5. k # 1 => k - 1 \in 1..N /\ k - 1 \notin T BY <1>1, <3>3
    <3>6. k # 1 => F[k - 1] = G[k - 1] BY <3>5
    <3>7. F[k] = G[k] BY <1>3, <2>2, <3>4, <3>6
    <3>8. QED BY <3>7
  <2>4. N \in 1..N /\ N + 1 \in 1..N + 1 /\ N + 1 # 1 /\ N + 1 - 1 = N
    BY <1>1, <1>5
  <2>5. G[N] = F[N] BY <2>3, <2>4
  <2>6. G[N + 1] = G[N] \o w
    <3> DEFINE M == N + 1
               Q == M - 1
    <3>1. M \in 1..N + 1 /\ M # 1 /\ Q = N /\ tt[M] = w BY <1>1, <2>4
    <3> HIDE DEF M
    <3>2. G[M] = IF M = 1 THEN tt[M] ELSE G[Q] \o tt[M]
      BY <1>3, <3>1, Zenon
    <3> HIDE DEF Q
    <3>3. G[M] = G[N] \o w BY <3>1, <3>2, Zenon
    <3>4. QED BY <3>3 DEF M
  <2>7. QED BY <1>2, <2>1, <2>5, <2>6 DEF tt
<1>6. QED BY <1>4, <1>5

\* K is the function of the definition of Among, up to k.
IsKept(K, q, X, k) ==
  K = [i \in 0..k |-> IF i = 0 THEN <<>>
                      ELSE IF q[i] \in X THEN Append(K[i - 1], q[i])
                      ELSE K[i - 1]]

LEMMA KeptExists ==
  ASSUME NEW q, NEW X, NEW N \in Nat
  PROVE  \E K : IsKept(K, q, X, N)
<1> DEFINE T == {k \in Nat : ~\E K : IsKept(K, q, X, k)}
           Then(w, i) == IF q[i] \in X THEN Append(w, q[i]) ELSE w
<1>1. SUFFICES ASSUME T # {} PROVE FALSE OBVIOUS
<1>2. PICK m \in T : \A n \in T : m <= n BY <1>1, Least
<1>3. m # 0
  <2> DEFINE K == [i \in 0..0 |-> <<>>]
  <2>1. K = [i \in 0..0 |-> IF i = 0 THEN <<>> ELSE Then(K[i - 1], i)]
    OBVIOUS
  <2>2. IsKept(K, q, X, 0) BY <2>1, Zenon DEF IsKept
  <2>3. QED BY <2>2
<1>4. m - 1 \in Nat /\ m - 1 \notin T BY <1>2, <1>3
<1>5. PICK K : IsKept(K, q, X, m - 1) BY <1>4
<1> DEFINE G == [i \in 0..m |-> IF i = m THEN Then(K[m - 1], m) ELSE K[i]]
           H == [i \in 0..m |-> IF i = 0 THEN <<>> ELSE Then(G[i - 1], i)]
<1>6. ASSUME NEW i \in 0..m PROVE G[i] = H[i]
  <2>1. CASE i = m
    <3>1. m - 1 \in 0..m /\ m - 1 # m /\ m # 0 /\ m \in 0..m BY <1>3, <1>4
    <3> HIDE DEF Then
    <3>2. G[m - 1] = K[m - 1] BY <3>1
    <3>3. QED BY <2>1, <3>1, <3>2
  <2>2. CASE i # m
    <3>1. i \in 0..m - 1 BY <2>2
    <3>2. K[i] = IF i = 0 THEN <<>> ELSE Then(K[i - 1], i)
      BY <1>5, <3>1, Zenon DEF IsKept
    <3>3. i # 0 => i - 1 \in 0..m /\ i - 1 # m BY <3>1
    <3> HIDE DEF Then
    <3>4. i # 0 => G[i - 1] = K[i - 1] BY <3>3
    <3>5. QED BY <2>2, <3>2, <3>4
  <2>3. QED BY <2>1, <2>2
<1>7. G = H
  <2> HIDE DEF Then
  <2>1. QED BY <1>6
<1>8. IsKept(G, q, X, m)
  <2> HIDE DEF G
  <2>1. QED BY <1>7, Zenon DEF IsKept
<1>9. QED BY <1>2, <1>8

LEMMA AmongIs ==
  ASSUME NEW q, NEW X, Len(q) \in Nat
  PROVE  \E K : IsKept(K, q, X, Len(q)) /\ Among(q, X) = K[Len(q)]
<1> DEFINE N == Len(q)
           A == CHOOSE K : IsKept(K, q, X, N)
<1>1. \E K : IsKept(K, q, X, N) BY KeptExists
<1>2. IsKept(A, q, X, N) BY <1>1, Zenon
<1>3. Among(q, X) = A[N] BY DEF Among, IsKept
<1>4. QED BY <1>2, <1>3

LEMMA AmongAppend ==
  ASSUME NEW S, NEW q \in Seq(S), NEW p \in S, NEW X
  PROVE  Among(Append(q, p), X) = IF p \in X THEN Append(Among(q, X), p)
                                  ELSE Among(q, X)
<1> DEFINE N == Len(q)
           r == Append(q, p)
<1>1. /\ N \in Nat /\ Len(r) = N + 1 /\ r[N + 1] = p
      /\ \A i \in 1..N : r[i] = q[i]
  OBVIOUS
<1> HIDE DEF r
<1>2. PICK G : IsKept(G, r, X, N + 1) /\ Among(r, X) = G[N + 1]
  <2>1. Len(r) \in Nat BY <1>1
  <2>2. QED BY <1>1, <2>1, AmongIs
<1>3. PICK F : IsKept(F, q, X, N) /\ Among(q, X) = F[N] BY <1>1, AmongIs
<1> HIDE DEF N
<1>4. \A i \in 0..N + 1 : G[i] = IF i = 0 THEN <<>>
                           ELSE IF r[i] \in X THEN Append(G[i - 1], r[i])
                           ELSE G[i - 1]
  BY <1>2, Zenon DEF IsKept
<1>5. \A i \in 0..N : F[i] = IF i = 0 THEN <<>>
                       ELSE IF q[i] \in X THEN Append(F[i - 1], q[i])
                       ELSE F[i - 1]
  BY <1>3, Zenon DEF IsKept
<1> DEFINE T == {k \in 0..N : F[k] # G[k]}
<1>6. T = {}
  <2>1. SUFFICES ASSUME T # {} PROVE FALSE OBVIOUS
  <2>2. T \subseteq Nat BY <1>1
  <2>3. PICK k \in T : \A n \in T : k <= n BY <2>1, <2>2, Least
  <2>4. k \in 0..N /\ k \in 0..N + 1 /\ (k # 0 => r[k] = q[k]) BY <1>1
  <2>5. k # 0 => k - 1 \in 0..N /\ k - 1 \notin T BY <1>1, <2>3
  <2>6. k # 0 => F[k - 1] = G[k - 1] BY <2>5
  <2>7. F[k] = G[k] BY <1>4, <1>5, <2>4, <2>6
  <2>8. QED BY <2>7
<1>7. N \in 0..N /\ N + 1 \in 0..N + 1 /\ N + 1 # 0 /\ N + 1 - 1 = N
  BY <1>1
<1>8. G[N] = F[N] BY <1>6, <1>7
<1>9. G[N + 1] = IF p \in X THEN Append(G[N], p) ELSE G[N]
  BY <1>1, <1>4, <1>7
<1>10. QED BY <1>2, <1>3, <1>8, <1>9 DEF r

LEMMA AmongEmpty ==
  ASSUME NEW X
  PROVE  Among(<<>>, X) = <<>>
<1> DEFINE q == <<>>
<1>1. Len(q) = 0 OBVIOUS
<1>2. PICK K : IsKept(K, q, X, 0) /\ Among(q, X) = K[0]
  BY <1>1, AmongIs
<1> HIDE DEF q
<1>3. \A i \in 0..0 : K[i] = IF i = 0 THEN <<>>
                         ELSE IF q[i] \in X THEN Append(K[i - 1], q[i])
                         ELSE K[i - 1]
  BY <1>2, Zenon DEF IsKept
<1>4. K[0] = <<>> BY <1>3
<1>5. QED BY <1>2, <1>4 DEF q

-----------------------------------------------------------------------------
(* What the peers send *)

Sides == {"f", "b"}
\* The parts of the first n messages of the peer of s.
All(s, n) == FlattenSeq([k \in 1..n |-> Parts(MsgOf(s, k))])
First(s) == IF s = "b" THEN plan.msgs["f"] ELSE 0
\* Messages that are there to the last part.
Whole(q) == \A i \in 1..Len(q) :
              q[i].more => i < Len(q) /\ q[i + 1].m = q[i].m

LEMMA AllNext ==
  ASSUME plan.msgs["f"] \in Nat, NEW s, NEW n \in Nat
  PROVE  /\ All(s, 0) = <<>>
         /\ All(s, n + 1) = All(s, n) \o Parts(First(s) + n + 1)
<1> DEFINE ss == [k \in 1..n |-> Parts(MsgOf(s, k))]
           tt == [k \in 1..n + 1 |-> Parts(MsgOf(s, k))]
           w  == Parts(MsgOf(s, n + 1))
<1>1. \A k \in Nat : MsgOf(s, k) = First(s) + k /\ MsgOf(s, k) \in Int
  BY DEF MsgOf, First
<1>2. \A k \in Nat : Parts(MsgOf(s, k)) \in Seq(PartSet)
  BY <1>1, PartsType
<1>3. ss \in Seq(Seq(PartSet)) /\ tt \in Seq(Seq(PartSet))
      /\ w \in Seq(PartSet) /\ Len(ss) = n /\ Len(tt) = n + 1
      /\ tt[n + 1] = w /\ \A k \in 1..n : ss[k] = tt[k]
  <2> DEFINE e(k) == Parts(MsgOf(s, k))
  <2>1. \A k \in Nat : e(k) \in Seq(PartSet) BY <1>2
  <2> HIDE DEF e
  <2>2. [k \in 1..n |-> e(k)] \in Seq(Seq(PartSet)) BY <2>1
  <2>3. [k \in 1..n + 1 |-> e(k)] \in Seq(Seq(PartSet)) BY <2>1
  <2>4. Len([k \in 1..n |-> e(k)]) = n
        /\ Len([k \in 1..n + 1 |-> e(k)]) = n + 1
    OBVIOUS
  <2>5. /\ [k \in 1..n + 1 |-> e(k)][n + 1] = e(n + 1)
        /\ \A k \in 1..n :
             [j \in 1..n |-> e(j)][k] = [j \in 1..n + 1 |-> e(j)][k]
    OBVIOUS
  <2>6. e(n + 1) \in Seq(PartSet) BY <2>1
  <2>7. QED BY <2>2, <2>3, <2>4, <2>5, <2>6 DEF e
<1> HIDE DEF ss, tt, w
<1>4. tt = Append(ss, w)
  <2>1. Append(ss, w) \in Seq(Seq(PartSet)) /\ Len(Append(ss, w)) = n + 1
        /\ \A k \in 1..n : Append(ss, w)[k] = ss[k]
        /\ Append(ss, w)[n + 1] = w
    BY <1>3
  <2>2. \A k \in 1..Len(tt) : tt[k] = Append(ss, w)[k] BY <1>3, <2>1
  <2>3. QED BY <1>3, <2>1, <2>2, SeqEqual
<1>5. FlattenSeq(tt) = FlattenSeq(ss) \o w BY <1>3, <1>4, FlattenAppend
<1>6. w = Parts(First(s) + n + 1)
  <2>1. MsgOf(s, n + 1) = First(s) + n + 1 BY <1>1 DEF First
  <2>2. QED BY <2>1 DEF w
<1>7. All(s, 0) = <<>>
  <2>1. [k \in 1..0 |-> Parts(MsgOf(s, k))] = <<>> OBVIOUS
  <2>2. FlattenSeq(<<>>) = <<>> BY DEF FlattenSeq
  <2>3. QED BY <2>1, <2>2 DEF All
<1>8. QED BY <1>5, <1>6, <1>7 DEF All, ss, tt

\* What a message adds to whole messages.
LEMMA PartsAdded ==
  ASSUME NEW q \in Seq(PartSet), Whole(q), NEW m \in Int
  PROVE  LET r == q \o Parts(m)
         IN /\ r \in Seq(PartSet) /\ Whole(r)
            /\ Len(q) <= Len(r) /\ \A i \in 1..Len(q) : r[i] = q[i]
            /\ \A i \in 1..Len(r) : i \in 1..Len(q) \/ r[i].m = m
<1> DEFINE N == Len(q)
           P == Parts(m)
           r == q \o P
<1>1. /\ P \in Seq(PartSet) /\ Len(P) \in {1, 2}
      /\ \A i \in 1..Len(P) : P[i].m = m
      /\ \A i \in 1..Len(P) : P[i].more <=> i < Len(P)
  <2>1. P \in Seq(PartSet) BY PartsType
  <2>2. CASE m % 2 = 0
    <3>1. P = <<Part(m, TRUE), Part(m, FALSE)>> BY <2>2 DEF Parts
    <3>2. Len(P) = 2 /\ P[1] = Part(m, TRUE) /\ P[2] = Part(m, FALSE)
      BY <3>1
    <3>3. QED BY <2>1, <3>2 DEF Part
  <2>3. CASE m % 2 # 0
    <3>1. P = <<Part(m, FALSE)>> BY <2>3 DEF Parts
    <3>2. Len(P) = 1 /\ P[1] = Part(m, FALSE) BY <3>1
    <3>3. QED BY <2>1, <3>2 DEF Part
  <2>4. QED BY <2>2, <2>3
<1> HIDE DEF P
<1>2. /\ r \in Seq(PartSet) /\ Len(r) = N + Len(P) /\ N \in Nat
      /\ \A i \in 1..N : r[i] = q[i]
      /\ \A i \in 1..Len(P) : r[N + i] = P[i]
  BY <1>1
<1> HIDE DEF r, N
<1>3. \A i \in 1..Len(r) : i \in 1..N \/ (i - N \in 1..Len(P)
                                          /\ N + (i - N) = i)
  BY <1>1, <1>2
<1>4. \A i \in 1..Len(r) : i \in 1..N \/ r[i] = P[i - N] BY <1>2, <1>3
<1>5. \A i \in 1..Len(r) : i \in 1..N \/ r[i].m = m BY <1>1, <1>3, <1>4
<1>6. ASSUME NEW i \in 1..Len(r), r[i].more
      PROVE  i < Len(r) /\ r[i + 1].m = r[i].m
  <2>1. CASE i \in 1..N
    <3>1. q[i].more /\ r[i] = q[i] BY <1>2, <1>6, <2>1
    <3>2. i < N /\ q[i + 1].m = q[i].m BY <2>1, <3>1 DEF Whole, N
    <3>3. i + 1 \in 1..N BY <1>2, <3>2
    <3>4. r[i + 1] = q[i + 1] BY <1>2, <3>3
    <3>5. QED BY <1>1, <1>2, <3>1, <3>2, <3>4
  <2>2. CASE i \notin 1..N
    <3>1. i - N \in 1..Len(P) /\ r[i] = P[i - N] BY <1>3, <1>4, <2>2
    <3>2. i - N < Len(P) BY <1>1, <1>6, <3>1
    <3>3. i + 1 \in 1..Len(r) /\ i + 1 \notin 1..N BY <1>1, <1>2, <2>2, <3>2
    <3>4. r[i + 1].m = m /\ r[i].m = m BY <1>5, <2>2, <3>3
    <3>5. QED BY <1>2, <3>3, <3>4
  <2>3. QED BY <2>1, <2>2
<1>7. Whole(r) BY <1>6 DEF Whole
<1>8. QED BY <1>1, <1>2, <1>5, <1>7 DEF N, P, r

LEMMA AllIs ==
  ASSUME plan.msgs["f"] \in Nat, NEW s, NEW n \in Nat
  PROVE  /\ All(s, n) \in Seq(PartSet) /\ Whole(All(s, n))
         /\ \A i \in 1..Len(All(s, n)) :
              All(s, n)[i].m \in First(s) + 1..First(s) + n
<1> DEFINE Good(k) == /\ All(s, k) \in Seq(PartSet) /\ Whole(All(s, k))
                      /\ \A i \in 1..Len(All(s, k)) :
                           All(s, k)[i].m \in First(s) + 1..First(s) + k
           T == {k \in Nat : ~Good(k)}
<1>1. First(s) \in Nat BY DEF First
<1>2. Good(0)
  <2>1. All(s, 0) = <<>> BY AllNext
  <2>2. <<>> \in Seq(PartSet) /\ Len(<<>>) = 0 /\ 1..0 = {} OBVIOUS
  <2>3. QED BY <2>1, <2>2 DEF Whole
<1>3. ASSUME NEW k \in Nat, Good(k) PROVE Good(k + 1)
  <2> DEFINE q == All(s, k)
             m == First(s) + k + 1
             r == q \o Parts(m)
  <2>1. q \in Seq(PartSet) /\ Whole(q) /\ m \in Int BY <1>1, <1>3
  <2>2. /\ r \in Seq(PartSet) /\ Whole(r)
        /\ Len(q) <= Len(r) /\ \A i \in 1..Len(q) : r[i] = q[i]
        /\ \A i \in 1..Len(r) : i \in 1..Len(q) \/ r[i].m = m
    BY <2>1, PartsAdded
  <2>3. All(s, k + 1) = r BY AllNext
  <2>4. \A i \in 1..Len(q) : q[i].m \in First(s) + 1..First(s) + k BY <1>3
  <2> HIDE DEF q, r
  <2>5. \A i \in 1..Len(r) : r[i].m \in First(s) + 1..First(s) + (k + 1)
    <3>1. m \in First(s) + 1..First(s) + (k + 1) BY <1>1
    <3>2. \A x \in First(s) + 1..First(s) + k :
            x \in First(s) + 1..First(s) + (k + 1)
      BY <1>1
    <3> HIDE DEF m
    <3>3. QED BY <2>2, <2>4, <3>1, <3>2
  <2>6. QED BY <2>2, <2>3, <2>5
<1> HIDE DEF Good
<1>4. SUFFICES ASSUME T # {} PROVE FALSE BY DEF Good
<1>5. PICK k \in T : \A j \in T : k <= j BY <1>4, Least
<1>6. k # 0 /\ k - 1 \in Nat /\ k - 1 + 1 = k BY <1>2, <1>5
<1>7. Good(k - 1) BY <1>5, <1>6
<1>8. Good(k) BY <1>3, <1>6, <1>7
<1>9. QED BY <1>5, <1>8

LEMMA AllGrows ==
  ASSUME plan.msgs["f"] \in Nat, NEW s, NEW n \in Nat, NEW N \in Nat, n <= N
  PROVE  /\ Len(All(s, n)) <= Len(All(s, N))
         /\ \A i \in 1..Len(All(s, n)) : All(s, N)[i] = All(s, n)[i]
<1> DEFINE L == Len(All(s, n))
           Good(k) == /\ L <= Len(All(s, k))
                      /\ \A i \in 1..L : All(s, k)[i] = All(s, n)[i]
           T == {k \in Nat : n <= k /\ ~Good(k)}
<1>1. \A k \in Nat : All(s, k) \in Seq(PartSet) /\ Whole(All(s, k))
                     /\ First(s) + k + 1 \in Int
  BY AllIs DEF First
<1>2. L \in Nat /\ Good(n) BY <1>1
<1>3. ASSUME NEW k \in Nat, Good(k) PROVE Good(k + 1)
  <2> DEFINE q == All(s, k)
             r == q \o Parts(First(s) + k + 1)
  <2>1. /\ r \in Seq(PartSet)
        /\ Len(q) <= Len(r) /\ \A i \in 1..Len(q) : r[i] = q[i]
    BY <1>1, PartsAdded
  <2>2. All(s, k + 1) = r BY AllNext
  <2>3. Len(q) \in Nat BY <1>1
  <2> HIDE DEF r
  <2>4. Len(r) \in Nat BY <2>1
  <2>5. L <= Len(r) BY <1>2, <1>3, <2>1, <2>3, <2>4
  <2>6. \A i \in 1..L : i \in 1..Len(q) BY <1>2, <1>3, <2>3
  <2>7. \A i \in 1..L : r[i] = All(s, n)[i] BY <1>3, <2>1, <2>6
  <2>8. QED BY <2>2, <2>5, <2>7
<1> HIDE DEF Good
<1>4. SUFFICES ASSUME T # {} PROVE FALSE BY DEF Good
<1>5. PICK k \in T : \A j \in T : k <= j BY <1>4, Least
<1>6. k # n /\ k - 1 \in Nat /\ k - 1 + 1 = k /\ n <= k - 1 BY <1>2, <1>5
<1>7. Good(k - 1) BY <1>5, <1>6
<1>8. Good(k) BY <1>3, <1>6, <1>7
<1>9. QED BY <1>5, <1>8

\* A part of one peer is not one of the other's.
LEMMA Origin ==
  ASSUME plan.msgs["f"] \in Nat, NEW s \in Sides, NEW n \in Nat,
         n <= plan.msgs[s], plan.msgs["b"] \in Nat,
         NEW i \in 1..Len(All(s, n))
  PROVE  /\ All(s, n)[i] \in ToSet(FromPeer(OtherSide(s)))
         /\ All(s, n)[i] \notin ToSet(FromPeer(s))
<1> DEFINE t == OtherSide(s)
           N == plan.msgs[s]
           M == plan.msgs[t]
           p == All(s, n)[i]
<1>1. /\ t \in Sides /\ OtherSide(t) = s /\ N \in Nat /\ M \in Nat
      /\ s = "f" => t = "b" /\ N = plan.msgs["f"]
      /\ s = "b" => t = "f" /\ M = plan.msgs["f"]
      /\ s = "f" \/ s = "b"
  BY DEF Sides, OtherSide
<1>2. FromPeer(t) = All(s, N) /\ FromPeer(s) = All(t, M)
  BY <1>1 DEF FromPeer, All
<1>3. /\ All(s, n) \in Seq(PartSet) /\ All(s, N) \in Seq(PartSet)
      /\ All(t, M) \in Seq(PartSet)
      /\ p.m \in First(s) + 1..First(s) + n
      /\ \A j \in 1..Len(All(t, M)) :
           All(t, M)[j].m \in First(t) + 1..First(t) + M
  BY <1>1, AllIs
<1>4. i \in 1..Len(All(s, N)) /\ All(s, N)[i] = p
  <2>1. Len(All(s, n)) <= Len(All(s, N)) /\ All(s, N)[i] = p
    BY <1>1, AllGrows
  <2>2. Len(All(s, n)) \in Nat /\ Len(All(s, N)) \in Nat BY <1>3
  <2>3. QED BY <2>1, <2>2
<1> HIDE DEF p
<1>5. p \in ToSet(All(s, N)) BY <1>3, <1>4 DEF ToSet
<1>6. ASSUME NEW j \in 1..Len(All(t, M)) PROVE All(t, M)[j] # p
  <2>1. All(t, M)[j].m \in First(t) + 1..First(t) + M BY <1>3
  <2>2. CASE s = "f"
    <3>1. First(s) = 0 /\ First(t) = N BY <1>1, <2>2 DEF First
    <3>2. QED BY <1>1, <1>3, <2>1, <3>1
  <2>3. CASE s = "b"
    <3>1. First(s) = M /\ First(t) = 0 BY <1>1, <2>3 DEF First
    <3>2. QED BY <1>1, <1>3, <2>1, <3>1
  <2>4. QED BY <1>1, <2>2, <2>3
<1>7. p \notin ToSet(All(t, M)) BY <1>3, <1>6 DEF ToSet
<1>8. QED BY <1>2, <1>5, <1>7 DEF p

-----------------------------------------------------------------------------
(* What the proxy has done with the parts it received.  held[s] is the     *)
(* part of the message from s that it has not passed on yet, and taped[s]  *)
(* that part once the capture socket has been given it.                    *)

Hands == [Sides -> Seq(PartSet)]
\* What the other side has been given of the messages from s.
Moved(s) == peer[OtherSide(s)].got \o sk[OtherSide(s)].out
Done == Idle /\ ret.rc = "ok"

\* Forwarded, in hand and waiting: together all that the peer has sent.
Streams(held) ==
  \A s \in Sides : /\ peer[s].sent <= plan.msgs[s]
                   /\ (Moved(s) \o held[s]) \o sk[s].in = All(s, peer[s].sent)

InMessage == app.pc \in {"received", "captured", "sent"}
\* Where the proxy is in its loop, which call it is in and what it has in
\* hand before and after that call.
InLoop(held, taped) ==
  /\ app.pc \in {"start", "polled", "second", "over"} \/ InMessage
  /\ \A s \in Sides : taped[s] \in {<<>>, held[s]}
  /\ \A s \in Sides :
       app.pc # "over" /\ ~(InMessage /\ s = app.from) => held[s] = <<>>
  /\ app.pc \in {"start", "second", "over"} => Idle
  /\ app.pc = "polled" => Idle \/ call.fn = "poll"
  /\ InMessage => app.from \in Sides
  /\ app.pc = "received" =>
       /\ Idle \/ (call.fn = "recv" /\ call.s = app.from)
       /\ held[app.from] = IF Done THEN <<Received>> ELSE <<>>
       /\ taped[app.from] = <<>>
  /\ app.pc = "captured" =>
       /\ Idle \/ (call.fn = "send" /\ call.s = "c" /\ call.part = app.part)
       /\ held[app.from] = <<app.part>> /\ plan.capture
       /\ taped[app.from] = IF Done THEN held[app.from] ELSE <<>>
  /\ app.pc = "sent" =>
       /\ Idle \/ (call.fn = "send" /\ call.s = OtherSide(app.from)
                                    /\ call.part = app.part)
       /\ held[app.from] = IF Done THEN <<>> ELSE <<app.part>>
       /\ plan.capture => taped[app.from] = held[app.from]
       /\ Done => /\ Moved(app.from) # <<>>
                  /\ Moved(app.from)[Len(Moved(app.from))] = app.part

\* What the capture socket was given of the messages from s.
Tape(taped, s) == Moved(s) \o taped[s]
\* It is left with a part of a message only while more of it comes.
OpenTape(taped) ==
  app.pc # "over" /\ Captured # <<>> /\ Captured[Len(Captured)].more =>
    /\ InMessage /\ Tape(taped, app.from) # <<>>
    /\ Tape(taped, app.from)[Len(Tape(taped, app.from))]
         = Captured[Len(Captured)]
\* The tape holds what was forwarded from each side, in whole messages.
Taped(taped) ==
  plan.capture =>
    /\ \A s \in Sides :
         Among(Captured, ToSet(FromPeer(OtherSide(s)))) = Tape(taped, s)
    /\ \A i \in 1..Len(Captured) - 1 :
         Captured[i].more => Captured[i + 1].m = Captured[i].m
    /\ OpenTape(taped)

Got == \A s \in Socks : peer[s].got \in Seq(PartSet)
Passing(held, taped) ==
  /\ held \in Hands /\ taped \in Hands
  /\ Streams(held) /\ InLoop(held, taped) /\ Taped(taped)
PInv == Got /\ (plan.app = "proxy" => \E held, taped \in Hands :
                                        Passing(held, taped))

LEMMA ProxyTypes ==
  ASSUME IInv, Got
  PROVE  /\ {"f", "b", "c"} \subseteq Socks /\ Sides \subseteq Socks
         /\ plan.msgs["f"] \in Nat /\ plan.msgs["b"] \in Nat
         /\ \A s \in Sides : /\ OtherSide(s) \in Sides
                             /\ OtherSide(s) # s /\ OtherSide(OtherSide(s)) = s
                             /\ s # "c" /\ plan.msgs[s] \in Nat
         /\ \A s \in Socks : /\ sk[s].in \in Seq(PartSet)
                             /\ sk[s].out \in Seq(PartSet)
                             /\ peer[s].got \in Seq(PartSet)
                             /\ peer[s].sent \in Nat
                             /\ sk[s].rcvmore \in BOOLEAN
         /\ \A s \in Sides : Moved(s) \in Seq(PartSet)
         /\ Captured \in Seq(PartSet)
         /\ DOMAIN sk = Socks /\ DOMAIN peer = Socks
         /\ AppType /\ CallType /\ ret.part \in PartSet
<1>1. /\ {"f", "b", "c"} \subseteq Socks /\ plan.msgs \in [Socks -> Nat]
      /\ AppType /\ ret.part \in PartSet
  BY InPlan
<1>2. \A s \in Socks : /\ sk[s].in \in Seq(PartSet)
                       /\ sk[s].out \in Seq(PartSet)
                       /\ peer[s].got \in Seq(PartSet)
                       /\ peer[s].sent \in Nat
                       /\ sk[s].rcvmore \in BOOLEAN
  BY DEF IInv, Sockets, Sound, SocketType, Got
<1>3. \A s \in Sides : /\ OtherSide(s) \in Sides
                       /\ OtherSide(s) # s /\ OtherSide(OtherSide(s)) = s
                       /\ s # "c" /\ s \in Socks
  BY <1>1 DEF Sides, OtherSide
<1>4. \A s \in Sides : Moved(s) \in Seq(PartSet)
  BY <1>2, <1>3 DEF Moved
<1>5. Captured \in Seq(PartSet) BY <1>1, <1>2 DEF Captured
<1>6. DOMAIN sk = Socks /\ DOMAIN peer = Socks /\ CallType
  BY DEF IInv, Sockets, Calls
<1>7. \A s \in Sides : plan.msgs[s] \in Nat BY <1>1, <1>3
<1>8. QED BY <1>1, <1>2, <1>3, <1>4, <1>5, <1>6, <1>7 DEF Sides

\* The parts that are on their way, and what the proxy knows, stay.
SameData ==
  /\ plan' = plan
  /\ \A s \in Socks : /\ sk'[s].in = sk[s].in /\ sk'[s].out = sk[s].out
                      /\ sk'[s].rcvmore = sk[s].rcvmore
                      /\ peer'[s].got = peer[s].got
                      /\ peer'[s].sent = peer[s].sent
SameApp == /\ app'.pc = app.pc /\ app'.from = app.from
           /\ app'.part = app.part

LEMMA SamePlan ==
  ASSUME plan' = plan
  PROVE  /\ \A s : First(s)' = First(s) /\ FromPeer(s)' = FromPeer(s)
         /\ \A s, n : All(s, n)' = All(s, n)
<1>1. \A s, n : MsgOf(s, n)' = MsgOf(s, n) BY DEF MsgOf
<1>2. \A s, n : All(s, n)' = All(s, n)
  <2> SUFFICES ASSUME NEW s, NEW n PROVE All(s, n)' = All(s, n) OBVIOUS
  <2>1. [k \in 1..n |-> Parts(MsgOf(s, k))]'
          = [k \in 1..n |-> Parts(MsgOf(s, k))]
    BY <1>1
  <2>2. QED BY <2>1 DEF All
<1>3. \A s : FromPeer(s) = All(OtherSide(s), plan.msgs[OtherSide(s)])
  BY DEF FromPeer, All
<1>4. \A s : FromPeer(s)' = FromPeer(s)
  <2> SUFFICES ASSUME NEW s PROVE FromPeer(s)' = FromPeer(s) OBVIOUS
  <2> DEFINE t == OtherSide(s)
             N == plan.msgs[t]
  <2>1. [k \in 1..plan.msgs[t] |-> Parts(MsgOf(t, k))]'
          = [k \in 1..plan.msgs[t] |-> Parts(MsgOf(t, k))]
    BY <1>1
  <2>2. QED BY <2>1 DEF FromPeer
<1>5. \A s : First(s)' = First(s) BY DEF First
<1>6. QED BY <1>2, <1>4, <1>5

LEMMA SameStreams ==
  ASSUME IInv, Got, SameData
  PROVE  /\ Got' /\ Captured' = Captured
         /\ \A s \in Sides : Moved(s)' = Moved(s)
         /\ \A held : Streams(held) => Streams(held)'
<1>1. /\ "c" \in Socks /\ Sides \subseteq Socks
      /\ \A s \in Sides : OtherSide(s) \in Sides
  BY ProxyTypes
<1>2. Got' BY DEF Got, SameData
<1>3. Captured' = Captured BY <1>1 DEF Captured, SameData
<1>4. \A s \in Sides : Moved(s)' = Moved(s) BY <1>1 DEF Moved, SameData
<1>5. \A held : Streams(held) => Streams(held)'
  <2> SUFFICES ASSUME NEW held, Streams(held), NEW s \in Sides
               PROVE  (/\ peer[s].sent <= plan.msgs[s]
                       /\ (Moved(s) \o held[s]) \o sk[s].in
                            = All(s, peer[s].sent))'
    BY DEF Streams
  <2>1. peer'[s].sent = peer[s].sent /\ sk'[s].in = sk[s].in /\ plan' = plan
    BY <1>1 DEF SameData
  <2>2. All(s, peer[s].sent)' = All(s, peer[s].sent)
    <3>1. \A n : All(s, n)' = All(s, n) BY <2>1, SamePlan
    <3>2. [k \in 1..peer[s].sent |-> Parts(MsgOf(s, k))]'
            = [k \in 1..peer[s].sent |-> Parts(MsgOf(s, k))]
      BY <2>1 DEF MsgOf
    <3>3. QED BY <3>2 DEF All
  <2>3. QED BY <1>4, <2>1, <2>2 DEF Streams
<1>6. QED BY <1>2, <1>3, <1>4, <1>5

LEMMA SameTaped ==
  ASSUME plan' = plan, Captured' = Captured,
         \A s \in Sides : Moved(s)' = Moved(s),
         NEW taped, Taped(taped), plan.capture => OpenTape(taped)'
  PROVE  Taped(taped)'
<1>1. \A s \in Sides : Tape(taped, s)' = Tape(taped, s) BY DEF Tape
<1>2. \A s \in Sides : FromPeer(OtherSide(s))' = FromPeer(OtherSide(s))
  BY SamePlan
<1>3. QED BY <1>1, <1>2 DEF Taped

\* A step in which the call goes on, or of another thread.
LEMMA LoopStays ==
  ASSUME IInv, Got, NEW held, NEW taped, Passing(held, taped),
         plan' = plan, SameApp, Captured' = Captured, Streams(held)',
         \A s \in Sides : /\ Moved(s)' = Moved(s)
                          /\ sk'[s].rcvmore = sk[s].rcvmore,
         call'.fn = call.fn, call'.s = call.s, call'.part = call.part,
         ret'.rc = ret.rc, ret'.part = ret.part
  PROVE  Passing(held, taped)'
<1>1. /\ held \in Hands /\ taped \in Hands
      /\ InLoop(held, taped) /\ Taped(taped)
  BY DEF Passing
<1>2. InMessage => app.from \in Sides BY <1>1 DEF InLoop
<1>3. /\ InMessage' = InMessage /\ Idle' = Idle /\ Done' = Done
      /\ app'.pc = app.pc /\ app'.from = app.from /\ app'.part = app.part
  BY DEF SameApp, InMessage, Idle, Done
<1>4. InMessage => Moved(app.from)' = Moved(app.from)
  BY <1>2, <1>3 DEF Moved
<1>5. InMessage => Received' = Received BY <1>2, <1>3 DEF Received
<1>6. InLoop(held, taped)'
  BY <1>1, <1>3, <1>4, <1>5 DEF InLoop, InMessage
<1>7. InMessage => Tape(taped, app.from)' = Tape(taped, app.from)
  BY <1>3, <1>4 DEF Tape
<1>8. plan.capture => OpenTape(taped)'
  BY <1>1, <1>3, <1>7 DEF Taped, OpenTape
<1>9. Taped(taped)' BY <1>1, <1>8, SameTaped
<1>10. QED BY <1>1, <1>6, <1>9 DEF Passing

LEMMA GoesPassing ==
  ASSUME IInv, Got, SameData, SameApp, NEW held, NEW taped,
         Passing(held, taped),
         call'.fn = call.fn, call'.s = call.s, call'.part = call.part,
         ret'.rc = ret.rc, ret'.part = ret.part
  PROVE  Got' /\ Passing(held, taped)'
<1>1. Streams(held) /\ Sides \subseteq Socks BY ProxyTypes DEF Passing
<1>2. /\ Got' /\ Streams(held)' /\ Captured' = Captured /\ plan' = plan
      /\ \A s \in Sides : /\ Moved(s)' = Moved(s)
                          /\ sk'[s].rcvmore = sk[s].rcvmore
  BY <1>1, SameStreams DEF SameData
<1>3. QED BY <1>2, LoopStays

\* A call returns without having moved a part.
LEMMA ReturnsPassing ==
  ASSUME IInv, Got, SameData, SameApp, NEW held, NEW taped,
         Passing(held, taped),
         ~Idle, call'.fn = "none", ret'.rc # "ok" \/ call.fn = "poll"
  PROVE  Got' /\ Passing(held, taped)'
<1>1. /\ held \in Hands /\ taped \in Hands
      /\ Streams(held) /\ InLoop(held, taped) /\ Taped(taped)
  BY DEF Passing
<1>2. InMessage => app.from \in Sides BY <1>1 DEF InLoop
<1>3. /\ Got' /\ Streams(held)' /\ Captured' = Captured
      /\ \A s \in Sides : Moved(s)' = Moved(s)
  BY <1>1, SameStreams
<1>4. /\ InMessage' = InMessage /\ Idle' /\ plan' = plan
      /\ app'.pc = app.pc /\ app'.from = app.from /\ app'.part = app.part
  BY DEF SameApp, SameData, InMessage, Idle
<1>5. ~Done /\ (InMessage => ~Done')
  BY <1>1 DEF InLoop, Done, InMessage
<1>6. InLoop(held, taped)' BY <1>1, <1>4, <1>5 DEF InLoop, InMessage
<1>7. InMessage => Tape(taped, app.from)' = Tape(taped, app.from)
  BY <1>2, <1>3, <1>4 DEF Tape, Moved
<1>8. plan.capture => OpenTape(taped)'
  BY <1>1, <1>3, <1>4, <1>7 DEF Taped, OpenTape
<1>9. Taped(taped)' BY <1>1, <1>3, <1>4, <1>8, SameTaped
<1>10. QED BY <1>1, <1>3, <1>6, <1>9 DEF Passing

LEMMA Ending ==
  ASSUME NEW S, NEW q \in Seq(S), NEW p \in S
  PROVE  /\ q \o <<p>> = Append(q, p) /\ Append(q, p) \in Seq(S)
         /\ Len(Append(q, p)) = Len(q) + 1 /\ Append(q, p)[Len(q) + 1] = p
         /\ \A i \in 1..Len(q) : Append(q, p)[i] = q[i]
         /\ Append(q, p) # <<>> /\ <<p>> \in Seq(S)
         /\ q \o <<>> = q
BY AppendIsConcat, AppendProperties, ConcatEmptySeq

\* A part is taken from the front of w, and comes behind q.
LEMMA TakeFront ==
  ASSUME NEW S, NEW q \in Seq(S), NEW w \in Seq(S), w # <<>>
  PROVE  (q \o <<Head(w)>>) \o Tail(w) = (q \o <<>>) \o w
<1>1. Head(w) \in S /\ Tail(w) \in Seq(S) /\ <<Head(w)>> \in Seq(S)
  OBVIOUS
<1>2. <<Head(w)>> \o Tail(w) = w OBVIOUS
<1>3. (q \o <<Head(w)>>) \o Tail(w) = q \o w
  BY <1>1, <1>2, ConcatAssociative
<1>4. QED BY <1>3, ConcatEmptySeq

\* zmq_recv returns a part.
Reads(s) ==
  /\ sk[s].in # <<>> /\ plan' = plan /\ SameApp
  /\ \A t \in Socks :
       /\ sk'[t].out = sk[t].out /\ peer'[t].got = peer[t].got
       /\ peer'[t].sent = peer[t].sent
       /\ t # s => sk'[t].in = sk[t].in /\ sk'[t].rcvmore = sk[t].rcvmore
  /\ sk'[s].in = Tail(sk[s].in) /\ sk'[s].rcvmore = Head(sk[s].in).more
  /\ call'.fn = "none" /\ ret'.rc = "ok" /\ ret'.part = Head(sk[s].in)

LEMMA ReadPassing ==
  ASSUME IInv, Got, NEW held, NEW taped, Passing(held, taped),
         call.fn = "recv", Reads(call.s)
  PROVE  Got' /\ \E h \in Hands : Passing(h, taped)'
<1> DEFINE s == call.s
           w == sk[s].in
           p == Head(w)
<1>1. /\ held \in Hands /\ taped \in Hands
      /\ Streams(held) /\ InLoop(held, taped) /\ Taped(taped)
  BY DEF Passing
<1>2. app.pc = "received" /\ s = app.from /\ InMessage /\ ~Idle
      /\ s \in Sides /\ held[s] = <<>> /\ taped[s] = <<>>
  BY <1>1 DEF InLoop, InMessage, Idle, Done
<1>3. /\ Sides \subseteq Socks /\ "c" \in Socks
      /\ \A t \in Sides : OtherSide(t) \in Sides
      /\ \A t \in Sides : Moved(t) \in Seq(PartSet)
      /\ \A t \in Socks : peer[t].got \in Seq(PartSet)
      /\ w \in Seq(PartSet) /\ w # <<>>
  BY <1>2, ProxyTypes DEF Reads
<1>4. p \in PartSet /\ Tail(w) \in Seq(PartSet) /\ <<p>> \in Seq(PartSet)
  BY <1>3
<1>5. PICK h \in Hands : /\ h[s] = <<p>>
                          /\ \A t \in Sides : t # s => h[t] = held[t]
  <2>1. [held EXCEPT ![s] = <<p>>] \in Hands
    BY <1>1, <1>2, <1>4 DEF Hands
  <2>2. QED BY <1>1, <1>2, <2>1 DEF Hands
<1>6. Got' BY <1>3 DEF Got, Reads
<1>7. /\ Captured' = Captured /\ \A t \in Sides : Moved(t)' = Moved(t)
  BY <1>3 DEF Captured, Moved, Reads
<1>8. plan' = plan /\ SameApp /\ InMessage' = InMessage /\ Idle' /\ Done'
      /\ app'.from = s /\ app'.pc = "received" /\ app'.part = app.part
  BY <1>2 DEF Reads, SameApp, InMessage, Idle, Done
<1>9. Streams(h)'
  <2> SUFFICES ASSUME NEW t \in Sides
               PROVE  (/\ peer[t].sent <= plan.msgs[t]
                       /\ (Moved(t) \o h[t]) \o sk[t].in
                            = All(t, peer[t].sent))'
    BY DEF Streams
  <2>1. peer'[t].sent = peer[t].sent BY <1>3 DEF Reads
  <2>2. All(t, peer[t].sent)' = All(t, peer[t].sent)
    <3>1. [k \in 1..peer[t].sent |-> Parts(MsgOf(t, k))]'
            = [k \in 1..peer[t].sent |-> Parts(MsgOf(t, k))]
      BY <1>8, <2>1 DEF MsgOf
    <3>2. QED BY <3>1 DEF All
  <2>3. (Moved(t) \o held[t]) \o sk[t].in = All(t, peer[t].sent)
        /\ peer[t].sent <= plan.msgs[t]
    BY <1>1 DEF Streams
  <2>4. (Moved(t) \o h[t]) \o sk'[t].in = (Moved(t) \o held[t]) \o sk[t].in
    <3>1. CASE t = s
      <4>1. sk'[t].in = Tail(w) BY <3>1 DEF Reads
      <4>2. (Moved(t) \o <<p>>) \o Tail(w) = (Moved(t) \o <<>>) \o w
        BY <1>3, TakeFront
      <4>3. QED BY <1>2, <1>5, <3>1, <4>1, <4>2
    <3>2. CASE t # s BY <1>3, <1>5, <3>2 DEF Reads
    <3>3. QED BY <3>1, <3>2
  <2>5. QED BY <1>7, <1>8, <2>1, <2>2, <2>3, <2>4
<1>10. Received' = p
  <2>1. ret'.part = p /\ sk'[s].rcvmore = p.more BY DEF Reads
  <2>2. QED BY <1>4, <1>8, <2>1 DEF Received, PartSet
<1>11. InLoop(h, taped)'
  <2>1. \A t \in Sides : taped[t] \in {<<>>, h[t]} 
    BY <1>1, <1>2, <1>5 DEF InLoop
  <2>2. \A t \in Sides : ~(InMessage' /\ t = app'.from) => h[t] = <<>>
    BY <1>1, <1>2, <1>5, <1>8 DEF InLoop
  <2>3. QED BY <1>2, <1>5, <1>8, <1>10, <2>1, <2>2 DEF InLoop
<1>12. Taped(taped)'
  <2>1. Tape(taped, app.from)' = Tape(taped, app.from)
    BY <1>2, <1>7, <1>8 DEF Tape, Moved
  <2>2. plan.capture => OpenTape(taped)'
    BY <1>1, <1>2, <1>7, <1>8, <2>1 DEF Taped, OpenTape
  <2>3. QED BY <1>1, <1>7, <1>8, <2>2, SameTaped
<1>13. Passing(h, taped)' BY <1>1, <1>5, <1>9, <1>11, <1>12 DEF Passing
<1>14. QED BY <1>6, <1>13

\* A part in hand came from its peer and not from the other one, and it
\* belongs to the message of the part before it.
LEMMA InHand ==
  ASSUME IInv, Got, NEW held, Streams(held), NEW s \in Sides,
         NEW p \in PartSet, held[s] = <<p>>
  PROVE  /\ p \in ToSet(FromPeer(OtherSide(s)))
         /\ p \notin ToSet(FromPeer(s))
         /\ Moved(s) # <<>> /\ Moved(s)[Len(Moved(s))].more =>
              p.m = Moved(s)[Len(Moved(s))].m
<1> DEFINE q == Moved(s)
           w == sk[s].in
           N == Len(q)
           n == peer[s].sent
           r == All(s, n)
<1>1. /\ q \in Seq(PartSet) /\ w \in Seq(PartSet) /\ n \in Nat
      /\ plan.msgs["f"] \in Nat /\ plan.msgs["b"] \in Nat
  BY ProxyTypes DEF Sides
<1>2. n <= plan.msgs[s] /\ (q \o <<p>>) \o w = r
  BY DEF Streams
<1>3. r \in Seq(PartSet) /\ Whole(r) BY <1>1, AllIs
<1>4. ASSUME NEW i \in 1..Len(r)
      PROVE  r[i] \in ToSet(FromPeer(OtherSide(s)))
             /\ r[i] \notin ToSet(FromPeer(s))
  BY <1>1, <1>2, Origin
<1> HIDE DEF r, q, w, n
<1>5. N \in Nat /\ N + 1 \in 1..Len(r) /\ r[N + 1] = p
      /\ \A i \in 1..N : i \in 1..Len(r) /\ r[i] = q[i]
  <2> DEFINE u == q \o <<p>>
  <2>1. u \in Seq(PartSet) /\ N \in Nat /\ Len(u) = N + 1 /\ u[N + 1] = p
        /\ \A i \in 1..N : u[i] = q[i]
    BY <1>1
  <2> HIDE DEF u
  <2>2. u \o w = r BY <1>2 DEF u
  <2>3. Len(r) = Len(u) + Len(w) /\ \A i \in 1..Len(u) : r[i] = u[i]
    <3>1. /\ Len(u \o w) = Len(u) + Len(w)
          /\ \A i \in 1..Len(u) + Len(w) :
               (u \o w)[i] = IF i <= Len(u) THEN u[i] ELSE w[i - Len(u)]
      BY <1>1, <2>1, ConcatProperties
    <3>2. Len(u) \in Nat /\ Len(w) \in Nat BY <1>1, <2>1
    <3>3. \A i \in 1..Len(u) : i \in 1..Len(u) + Len(w) /\ i <= Len(u)
      BY <3>2
    <3>4. QED BY <2>2, <3>1, <3>3
  <2>4. Len(w) \in Nat BY <1>1
  <2> HIDE DEF N
  <2>5. N + 1 \in 1..Len(u) /\ \A i \in 1..N : i \in 1..Len(u) BY <2>1
  <2>6. \A i \in 1..Len(u) : i \in 1..Len(r) BY <2>1, <2>3, <2>4
  <2>7. QED BY <2>1, <2>3, <2>5, <2>6
<1>6. q # <<>> /\ q[N].more => p.m = q[N].m
  <2> SUFFICES ASSUME q # <<>>, q[N].more PROVE p.m = q[N].m OBVIOUS
  <2>1. N \in 1..N BY <1>1, <1>5
  <2>2. r[N].more /\ r[N] = q[N] /\ N \in 1..Len(r) BY <1>5, <2>1
  <2>3. QED BY <1>3, <1>5, <2>2 DEF Whole
<1>7. QED BY <1>4, <1>5, <1>6 DEF q

\* zmq_send accepts a part.
Writes(s) ==
  /\ plan' = plan /\ SameApp
  /\ \A t \in Socks :
       /\ sk'[t].in = sk[t].in /\ sk'[t].rcvmore = sk[t].rcvmore
       /\ peer'[t].got = peer[t].got /\ peer'[t].sent = peer[t].sent
       /\ t # s => sk'[t].out = sk[t].out
  /\ sk'[s].out = Append(sk[s].out, call.part)
  /\ call'.fn = "none" /\ ret'.rc = "ok"

LEMMA TapePassing ==
  ASSUME IInv, Got, NEW held, NEW taped, Passing(held, taped),
         app.pc = "captured", call.fn = "send", Writes(call.s)
  PROVE  Got' /\ \E d \in Hands : Passing(held, d)'
<1> DEFINE s == app.from
           p == app.part
<1>1. /\ held \in Hands /\ taped \in Hands
      /\ Streams(held) /\ InLoop(held, taped) /\ Taped(taped)
  BY DEF Passing
<1>2. /\ InMessage /\ ~Idle /\ s \in Sides /\ plan.capture
      /\ call.s = "c" /\ call.part = p
      /\ held[s] = <<p>> /\ taped[s] = <<>>
  BY <1>1 DEF InLoop, InMessage, Idle, Done
<1>3. /\ Sides \subseteq Socks /\ "c" \in Socks
      /\ \A t \in Sides : OtherSide(t) \in Sides /\ t # "c"
      /\ \A t \in Sides : OtherSide(OtherSide(t)) = t /\ OtherSide(t) # t
      /\ \A t \in Sides : Moved(t) \in Seq(PartSet)
      /\ \A t \in Socks : peer[t].got \in Seq(PartSet)
      /\ \A t \in Socks : sk[t].out \in Seq(PartSet)
      /\ Captured \in Seq(PartSet)
  BY <1>2, ProxyTypes
<1>4. p \in PartSet
  <2>1. held[s] \in Seq(PartSet) BY <1>1, <1>2 DEF Hands
  <2>2. <<p>> \in Seq(PartSet) BY <1>2, <2>1
  <2>3. QED BY <2>2
<1>5. PICK d \in Hands : /\ d[s] = <<p>>
                          /\ \A t \in Sides : t # s => d[t] = taped[t]
  <2>1. [taped EXCEPT ![s] = <<p>>] \in Hands
    BY <1>1, <1>2, <1>4 DEF Hands
  <2>2. QED BY <1>1, <1>2, <2>1 DEF Hands
<1>6. Got' BY <1>3 DEF Got, Writes
<1>7. \A t \in Sides : Moved(t)' = Moved(t)
  BY <1>2, <1>3 DEF Moved, Writes
<1>8. plan' = plan /\ SameApp /\ InMessage' = InMessage /\ Idle' /\ Done'
      /\ app'.from = s /\ app'.pc = "captured" /\ app'.part = p
  BY <1>2 DEF Writes, SameApp, InMessage, Idle, Done
<1>9. Captured' = Append(Captured, p)
  <2>1. Captured' = peer["c"].got \o Append(sk["c"].out, p)
    BY <1>2, <1>3 DEF Captured, Writes
  <2>2. peer["c"].got \in Seq(PartSet) /\ sk["c"].out \in Seq(PartSet)
        /\ <<p>> \in Seq(PartSet)
    BY <1>3, <1>4
  <2> DEFINE u == peer["c"].got
             v == sk["c"].out
  <2>3. Captured = u \o v /\ u \in Seq(PartSet) /\ v \in Seq(PartSet)
        /\ Captured' = u \o Append(v, p)
    BY <2>1, <2>2 DEF Captured
  <2> HIDE DEF u, v
  <2>4. Append(v, p) = v \o <<p>> BY <1>4, <2>3, Ending
  <2>5. Append(Captured, p) = Captured \o <<p>> BY <1>3, <1>4, Ending
  <2>6. u \o (v \o <<p>>) = (u \o v) \o <<p>>
    BY <2>2, <2>3, ConcatAssociative
  <2>7. QED BY <2>3, <2>4, <2>5, <2>6
<1>10. Streams(held)'
  <2> SUFFICES ASSUME NEW t \in Sides
               PROVE  (/\ peer[t].sent <= plan.msgs[t]
                       /\ (Moved(t) \o held[t]) \o sk[t].in
                            = All(t, peer[t].sent))'
    BY DEF Streams
  <2>1. peer'[t].sent = peer[t].sent /\ sk'[t].in = sk[t].in
    BY <1>3 DEF Writes
  <2>2. All(t, peer[t].sent)' = All(t, peer[t].sent)
    <3>1. [k \in 1..peer[t].sent |-> Parts(MsgOf(t, k))]'
            = [k \in 1..peer[t].sent |-> Parts(MsgOf(t, k))]
      BY <1>8, <2>1 DEF MsgOf
    <3>2. QED BY <3>1 DEF All
  <2>3. QED BY <1>1, <1>7, <1>8, <2>1, <2>2 DEF Streams
<1>11. InLoop(held, d)'
  <2>1. \A t \in Sides : d[t] \in {<<>>, held[t]}
    BY <1>1, <1>2, <1>5 DEF InLoop
  <2>2. \A t \in Sides : ~(InMessage' /\ t = app'.from) => held[t] = <<>>
    BY <1>1, <1>2, <1>8 DEF InLoop
  <2>3. QED BY <1>2, <1>5, <1>8, <2>1, <2>2 DEF InLoop
<1>12. /\ p \in ToSet(FromPeer(OtherSide(s))) /\ p \notin ToSet(FromPeer(s))
       /\ Moved(s) # <<>> /\ Moved(s)[Len(Moved(s))].more =>
            p.m = Moved(s)[Len(Moved(s))].m
  BY <1>1, <1>2, <1>4, InHand
<1>13. \A t \in Sides : Tape(d, t)' = Moved(t) \o d[t] BY <1>7 DEF Tape
<1>14. ASSUME NEW t \in Sides
       PROVE  Among(Append(Captured, p), ToSet(FromPeer(OtherSide(t))))
                = Moved(t) \o d[t]
  <2> DEFINE X == ToSet(FromPeer(OtherSide(t)))
  <2>1. Among(Captured, X) = Moved(t) \o taped[t]
    BY <1>1, <1>2 DEF Taped, Tape
  <2> HIDE DEF X
  <2>2. Among(Append(Captured, p), X) =
          IF p \in X THEN Append(Among(Captured, X), p)
          ELSE Among(Captured, X)
    <3>1. Captured \in Seq(PartSet) BY <1>3
    <3> HIDE DEF p
    <3>2. QED BY <1>4, <3>1, AmongAppend
  <2> DEFINE W == Among(Captured, X)
             V == Among(Append(Captured, p), X)
  <2>2a. W = Moved(t) \o taped[t] /\ V = IF p \in X THEN Append(W, p) ELSE W
    BY <2>1, <2>2
  <2> HIDE DEF W, V
  <2>3. CASE t = s
    <3>1. p \in X BY <1>12, <2>3 DEF X
    <3>2. /\ Moved(s) \o <<p>> = Append(Moved(s), p)
          /\ Moved(s) \o <<>> = Moved(s)
      BY <1>2, <1>3, <1>4, Ending
    <3>3. V = Append(W, p) /\ W = Moved(s) \o <<>>
      BY <1>2, <2>2a, <2>3, <3>1
    <3>4. V = Moved(t) \o d[t] BY <1>5, <2>3, <3>2, <3>3
    <3>5. QED BY <3>4 DEF V, X
  <2>4. CASE t # s
    <3>1. OtherSide(t) = s BY <1>2, <2>4 DEF Sides, OtherSide
    <3>2. p \notin X BY <1>12, <3>1 DEF X
    <3>3. V = Moved(t) \o d[t] BY <1>5, <2>2a, <2>4, <3>2
    <3>4. QED BY <3>3 DEF V, X
  <2>5. QED BY <2>3, <2>4
<1>15. \A t \in Sides :
         Among(Captured, ToSet(FromPeer(OtherSide(t))))' = Tape(d, t)'
  <2> SUFFICES ASSUME NEW t \in Sides
               PROVE  Among(Captured, ToSet(FromPeer(OtherSide(t))))'
                        = Tape(d, t)'
    OBVIOUS
  <2>1. FromPeer(OtherSide(t))' = FromPeer(OtherSide(t)) BY <1>8, SamePlan
  <2>2. Among(Captured, ToSet(FromPeer(OtherSide(t))))'
          = Among(Append(Captured, p), ToSet(FromPeer(OtherSide(t))))
    BY <1>9, <2>1
  <2>3. QED BY <1>13, <1>14, <2>2
<1>16. \A i \in 1..Len(Captured') - 1 :
         Captured'[i].more => Captured'[i + 1].m = Captured'[i].m
  <2> DEFINE q == Captured
             r == Append(q, p)
             N == Len(q)
  <2> SUFFICES ASSUME NEW i \in 1..Len(r) - 1, r[i].more
               PROVE  r[i + 1].m = r[i].m
    BY <1>9
  <2>1. N \in Nat /\ Len(r) = N + 1 /\ r[N + 1] = p
        /\ \A k \in 1..N : r[k] = q[k]
    BY <1>3, <1>4, Ending
  <2> HIDE DEF r
  <2>2. i \in 1..N /\ r[i] = q[i] BY <2>1
  <2>3. CASE i # N
    <3>1. i \in 1..N - 1 /\ i + 1 \in 1..N BY <2>1, <2>2, <2>3
    <3>2. q[i].more => q[i + 1].m = q[i].m BY <1>1, <1>2, <3>1 DEF Taped
    <3>3. QED BY <2>1, <2>2, <3>1, <3>2
  <2>4. CASE i = N
    <3>1. q # <<>> /\ q[N].more /\ app.pc # "over"
      BY <1>2, <1>8, <2>2, <2>4 DEF InMessage
    <3>2. /\ Tape(taped, s) # <<>>
          /\ Tape(taped, s)[Len(Tape(taped, s))] = q[N]
      BY <1>1, <1>2, <3>1 DEF Taped, OpenTape
    <3>3. Tape(taped, s) = Moved(s)
      <4>1. Moved(s) \o <<>> = Moved(s) BY <1>2, <1>3, <1>4, Ending
      <4>2. QED BY <1>2, <4>1 DEF Tape
    <3>4. p.m = q[N].m BY <1>12, <3>1, <3>2, <3>3
    <3>5. QED BY <2>1, <2>2, <2>4, <3>4
  <2>5. QED BY <2>3, <2>4
<1>17. /\ Tape(d, app.from)' # <<>>
       /\ Tape(d, app.from)'[Len(Tape(d, app.from)')] = p
       /\ Captured'[Len(Captured')] = p
  <2>1. Tape(d, app.from)' = Moved(s) \o <<p>>
    BY <1>2, <1>5, <1>7, <1>8 DEF Tape, Moved
  <2>2. QED BY <1>2, <1>3, <1>4, <1>9, <2>1, Ending
<1>18. Taped(d)' BY <1>2, <1>8, <1>15, <1>16, <1>17 DEF Taped, OpenTape
<1>19. Passing(held, d)' BY <1>1, <1>5, <1>10, <1>11, <1>18 DEF Passing
<1>20. QED BY <1>5, <1>6, <1>19

LEMMA SendPassing ==
  ASSUME IInv, Got, NEW held, NEW taped, Passing(held, taped),
         app.pc = "sent", call.fn = "send", Writes(call.s)
  PROVE  Got' /\ \E h, d \in Hands : Passing(h, d)'
<1> DEFINE s == app.from
           p == app.part
           o == call.s
<1>1. /\ held \in Hands /\ taped \in Hands
      /\ Streams(held) /\ InLoop(held, taped) /\ Taped(taped)
  BY DEF Passing
<1>2. /\ InMessage /\ ~Idle /\ s \in Sides
      /\ o = OtherSide(s) /\ call.part = p
      /\ held[s] = <<p>> /\ (plan.capture => taped[s] = held[s])
  BY <1>1 DEF InLoop, InMessage, Idle, Done
<1>3. /\ Sides \subseteq Socks /\ "c" \in Socks
      /\ \A t \in Sides : OtherSide(t) \in Sides /\ t # "c"
      /\ \A t \in Sides : OtherSide(OtherSide(t)) = t /\ OtherSide(t) # t
      /\ \A t \in Sides : Moved(t) \in Seq(PartSet)
      /\ \A t \in Socks : peer[t].got \in Seq(PartSet)
      /\ \A t \in Socks : sk[t].out \in Seq(PartSet)
      /\ \A t \in Socks : sk[t].in \in Seq(PartSet)
      /\ Captured \in Seq(PartSet)
  BY <1>2, ProxyTypes
<1>4. p \in PartSet
  <2>1. held[s] \in Seq(PartSet) BY <1>1, <1>2 DEF Hands
  <2>2. <<p>> \in Seq(PartSet) BY <1>2, <2>1
  <2>3. QED BY <2>2
<1>5. ASSUME NEW f \in Hands
      PROVE  \E g \in Hands : /\ g[s] = <<>>
                              /\ \A t \in Sides : t # s => g[t] = f[t]
  <2>1. [f EXCEPT ![s] = <<>>] \in Hands BY <1>2 DEF Hands
  <2>2. QED BY <1>2, <2>1 DEF Hands
<1>6. PICK h \in Hands : /\ h[s] = <<>>
                         /\ \A t \in Sides : t # s => h[t] = held[t]
  BY <1>1, <1>5
<1>7. PICK d \in Hands : /\ d[s] = <<>>
                         /\ \A t \in Sides : t # s => d[t] = taped[t]
  BY <1>1, <1>5
<1>8. Got' BY <1>3 DEF Got, Writes
<1>9. Captured' = Captured BY <1>2, <1>3 DEF Captured, Writes
<1>10. plan' = plan /\ SameApp /\ InMessage' = InMessage /\ Idle' /\ Done'
      /\ app'.from = s /\ app'.pc = "sent" /\ app'.part = p
  BY <1>2 DEF Writes, SameApp, InMessage, Idle, Done
<1>11. \A t \in Sides : t # s => Moved(t)' = Moved(t)
  <2> SUFFICES ASSUME NEW t \in Sides, t # s PROVE Moved(t)' = Moved(t)
    OBVIOUS
  <2>1. OtherSide(t) \in Socks /\ OtherSide(t) # o
    BY <1>2, <1>3 DEF Sides, OtherSide
  <2>2. QED BY <2>1 DEF Moved, Writes
<1>12. \A t \in Sides : t = s => Moved(t)' = Moved(t) \o <<p>>
  <2> SUFFICES ASSUME NEW t \in Sides, t = s
               PROVE  Moved(t)' = Moved(t) \o <<p>>
    OBVIOUS
  <2> DEFINE u == peer[o].got
             v == sk[o].out
  <2>1. o \in Socks /\ <<p>> \in Seq(PartSet) BY <1>2, <1>3, <1>4
  <2>2. Moved(t)' = u \o Append(v, p) BY <1>2, <2>1 DEF Moved, Writes
  <2>3. u \in Seq(PartSet) /\ v \in Seq(PartSet) /\ Moved(t) = u \o v
    BY <1>2, <1>3, <2>1 DEF Moved
  <2> HIDE DEF u, v
  <2>4. Append(v, p) = v \o <<p>> BY <1>4, <2>3, Ending
  <2>5. u \o (v \o <<p>>) = (u \o v) \o <<p>>
    BY <2>1, <2>3, ConcatAssociative
  <2>6. QED BY <2>2, <2>3, <2>4, <2>5
<1>13. \A t \in Sides : (Moved(t) \o h[t])' = Moved(t) \o held[t]
  <2>1. (Moved(s) \o <<p>>) \o <<>> = Moved(s) \o <<p>>
    <3>1. Moved(s) \o <<p>> = Append(Moved(s), p)
          /\ Append(Moved(s), p) \in Seq(PartSet)
      BY <1>2, <1>3, <1>4, Ending
    <3>2. QED BY <3>1, ConcatEmptySeq
  <2> SUFFICES ASSUME NEW t \in Sides
               PROVE  (Moved(t) \o h[t])' = Moved(t) \o held[t]
    OBVIOUS
  <2>2. CASE t = s
    <3>1. Moved(t)' = Moved(t) \o <<p>> BY <1>12, <2>2
    <3>2. QED BY <1>2, <1>6, <2>1, <2>2, <3>1
  <2>3. CASE t # s BY <1>6, <1>11, <2>3
  <2>4. QED BY <2>2, <2>3
<1>14. plan.capture => \A t \in Sides : Tape(d, t)' = Tape(taped, t)
  <2>1. (Moved(s) \o <<p>>) \o <<>> = Moved(s) \o <<p>>
    <3>1. Moved(s) \o <<p>> = Append(Moved(s), p)
          /\ Append(Moved(s), p) \in Seq(PartSet)
      BY <1>2, <1>3, <1>4, Ending
    <3>2. QED BY <3>1, ConcatEmptySeq
  <2> SUFFICES ASSUME plan.capture, NEW t \in Sides
               PROVE  Tape(d, t)' = Tape(taped, t)
    OBVIOUS
  <2>2. CASE t = s
    <3>1. Moved(t)' = Moved(t) \o <<p>> BY <1>12, <2>2
    <3>2. QED BY <1>2, <1>7, <2>1, <2>2, <3>1 DEF Tape
  <2>3. CASE t # s BY <1>7, <1>11, <2>3 DEF Tape
  <2>4. QED BY <2>2, <2>3
<1>15. Streams(h)'
  <2> SUFFICES ASSUME NEW t \in Sides
               PROVE  (/\ peer[t].sent <= plan.msgs[t]
                       /\ (Moved(t) \o h[t]) \o sk[t].in
                            = All(t, peer[t].sent))'
    BY DEF Streams
  <2>1. peer'[t].sent = peer[t].sent /\ sk'[t].in = sk[t].in
    BY <1>3 DEF Writes
  <2>2. All(t, peer[t].sent)' = All(t, peer[t].sent)
    <3>1. [k \in 1..peer[t].sent |-> Parts(MsgOf(t, k))]'
            = [k \in 1..peer[t].sent |-> Parts(MsgOf(t, k))]
      BY <1>10, <2>1 DEF MsgOf
    <3>2. QED BY <3>1 DEF All
  <2>3. QED BY <1>1, <1>10, <1>13, <2>1, <2>2 DEF Streams
<1>16. InLoop(h, d)'
  <2>1. \A t \in Sides : d[t] \in {<<>>, h[t]}
    BY <1>1, <1>2, <1>6, <1>7 DEF InLoop
  <2>2. \A t \in Sides : ~(InMessage' /\ t = app'.from) => h[t] = <<>>
    BY <1>1, <1>2, <1>6, <1>10 DEF InLoop
  <2>3. /\ Moved(app.from)' # <<>>
        /\ Moved(app.from)'[Len(Moved(app.from)')] = app'.part
    <3>1. Moved(app.from)' = Moved(s) \o <<p>>
      <4>1. \A t \in Sides : t = s => Moved(app.from)' = Moved(t)'
        BY <1>10 DEF Moved
      <4>2. QED BY <1>2, <1>12, <4>1
    <3>2. QED BY <1>2, <1>3, <1>4, <1>10, <3>1, Ending
  <2>4. QED BY <1>2, <1>6, <1>7, <1>10, <2>1, <2>2, <2>3 DEF InLoop
<1>17. Taped(d)'
  <2> SUFFICES ASSUME plan.capture PROVE Taped(d)' BY <1>10 DEF Taped
  <2>1. \A t \in Sides : FromPeer(OtherSide(t))' = FromPeer(OtherSide(t))
    BY <1>10, SamePlan
  <2>2. Tape(d, app.from)' = Tape(taped, app.from)
    <3>1. \A t \in Sides : t = s => Tape(d, app.from)' = Tape(d, t)'
      BY <1>10 DEF Tape, Moved
    <3>2. QED BY <1>2, <1>14, <3>1
  <2>3. OpenTape(d)'
    BY <1>1, <1>2, <1>9, <1>10, <2>2 DEF Taped, OpenTape
  <2>4. QED BY <1>1, <1>9, <1>10, <1>14, <2>1, <2>3 DEF Taped
<1>18. Passing(h, d)' BY <1>6, <1>7, <1>15, <1>16, <1>17 DEF Passing
<1>19. QED BY <1>6, <1>7, <1>8, <1>18

LEMMA WritePassing ==
  ASSUME IInv, Got, NEW held, NEW taped, Passing(held, taped),
         call.fn = "send", Writes(call.s)
  PROVE  Got' /\ \E h, d \in Hands : Passing(h, d)'
<1>1. held \in Hands /\ InLoop(held, taped) BY DEF Passing
<1>2. app.pc \in {"captured", "sent"}
  BY <1>1 DEF InLoop, InMessage, Idle
<1>3. QED BY <1>1, <1>2, TapePassing, SendPassing

-----------------------------------------------------------------------------
(* What the steps of a call do to the parts *)

SameParts(x, y) == y.in = x.in /\ y.out = x.out /\ y.rcvmore = x.rcvmore

LEMMA DrainKeepsParts ==
  ASSUME NEW x, NEW n, Sound(x, n)
  PROVE  SameParts(x, Drain(x)) /\ SameParts(x, check_read(Drain(x)))
         /\ SameParts(x, check_read(x))
<1>1. SocketType(x) BY DEF Sound
<1>2. Upto(x, Drain(x), Len(x.cmds)) BY <1>1, Drained
<1> DEFINE y == Drain(x)
<1>3. DOMAIN y = DOMAIN x /\ SameParts(x, y) BY <1>2 DEF Upto, SameParts
<1> HIDE DEF y
<1>4. ASSUME NEW z, DOMAIN z = DOMAIN x, SameParts(x, z)
      PROVE  SameParts(x, check_read(z))
  <2>1. /\ "in" \in DOMAIN z /\ "out" \in DOMAIN z /\ "rcvmore" \in DOMAIN z
        /\ "in_active" \in DOMAIN z /\ "asleep" \in DOMAIN z
    BY <1>1, <1>4 DEF SocketType
  <2>2. QED BY <1>4, <2>1 DEF check_read, SameParts
<1>5. SameParts(x, x) BY DEF SameParts
<1>6. QED BY <1>3, <1>4, <1>5 DEF y

LEMMA ResultsKeepParts ==
  ASSUME Sockets, NEW s \in Socks, NEW timeout, NEW throttle \in BOOLEAN,
         NEW r \in process_commands(s, timeout, throttle)
  PROVE  SameParts(sk[s], r.x) /\ SameParts(sk[s], check_read(r.x))
<1> DEFINE y == Drain(sk[s])
<1>1. Sound(sk[s], peer[s]) BY DEF Sockets
<1>2. /\ SameParts(sk[s], y) /\ SameParts(sk[s], check_read(y))
      /\ SameParts(sk[s], check_read(sk[s]))
  BY <1>1, DrainKeepsParts
<1>3. r.x = y \/ r.x = sk[s] BY DEF process_commands
<1>4. SameParts(sk[s], sk[s]) BY DEF SameParts
<1>5. QED BY <1>2, <1>3, <1>4

SameCall == /\ call'.fn = call.fn /\ call'.s = call.s
            /\ call'.part = call.part
            /\ ret'.rc = ret.rc /\ ret'.part = ret.part
CallEnds == /\ ~Idle /\ call'.fn = "none"
            /\ ret'.rc # "ok" \/ call.fn = "poll"

\* The four things a step of a call may be.
CallGives ==
  \/ SameData /\ SameApp /\ SameCall
  \/ SameData /\ SameApp /\ CallEnds
  \/ call.fn = "recv" /\ Reads(call.s)
  \/ call.fn = "send" /\ Writes(call.s)

LEMMA PartsStay ==
  ASSUME Sockets, NEW s \in Socks, NEW x, SameParts(sk[s], x),
         Becomes(s, x), plan' = plan, peer' = peer, app' = app
  PROVE  SameData /\ SameApp
<1>1. DOMAIN sk = Socks BY DEF Sockets
<1>2. sk'[s] = x /\ \A t \in Socks : t # s => sk'[t] = sk[t]
  BY <1>1 DEF Becomes
<1>3. QED BY <1>2 DEF SameData, SameApp, SameParts

LEMMA NothingMoves ==
  ASSUME sk' = sk, plan' = plan, peer' = peer, app' = app
  PROVE  SameData /\ SameApp
BY DEF SameData, SameApp

LEMMA CallGoesOn ==
  ASSUME CallType, NEW pc, NEW b,
         \/ Goto(pc)
         \/ StartWait(pc, b)
         \/ call' = [call EXCEPT !.pc = pc] /\ ret' = ret
  PROVE  SameCall
BY DEF CallType, Goto, StartWait, SameCall

LEMMA CallReturns ==
  ASSUME NEW rc, NEW part, Return(rc, part), ~Idle
  PROVE  /\ call'.fn = "none" /\ ret'.rc = rc /\ ret'.part = part
         /\ rc # "ok" \/ call.fn = "poll" => CallEnds
<1>1. call'.fn = "none" /\ ret'.rc = rc /\ ret'.part = part
  BY DEF Return, NoCall, NoRet
<1>2. QED BY <1>1 DEF CallEnds

LEMMA WaitMoreGives ==
  ASSUME CallType, ~Idle, NEW pc, WaitMore(pc)
  PROVE  SameCall \/ CallEnds
<1>1. CASE Return("EAGAIN", NoPart) BY <1>1, CallReturns
<1>2. CASE ~Return("EAGAIN", NoPart)
  BY <1>2 DEF WaitMore, CallType, SameCall
<1>3. QED BY <1>1, <1>2

LEMMA RecvGives ==
  ASSUME IInv, call.fn = "recv", CanRead(sk[call.s]),
         Return("ok", Head(sk[call.s].in)), plan' = plan, peer' = peer,
         app' = app,
         \/ Becomes(call.s, xrecv(sk[call.s]))
         \/ Becomes(call.s, [xrecv(sk[call.s]) EXCEPT !.ticks = 0])
  PROVE  CallGives
<1> DEFINE s == call.s
<1>1. /\ Sockets /\ s \in Socks /\ SocketType(sk[s]) /\ DOMAIN sk = Socks
  BY InCall DEF Sound, Sockets
<1>2. PICK y : /\ Becomes(s, y) /\ y.in = Tail(sk[s].in)
               /\ y.rcvmore = Head(sk[s].in).more /\ y.out = sk[s].out
  <2> DEFINE x == xrecv(sk[s])
             z == [x EXCEPT !.ticks = 0]
  <2>1. /\ x.in = Tail(sk[s].in) /\ x.rcvmore = Head(sk[s].in).more
        /\ x.out = sk[s].out
    BY <1>1 DEF xrecv, SocketType
  <2>2. z.in = x.in /\ z.rcvmore = x.rcvmore /\ z.out = x.out OBVIOUS
  <2> HIDE DEF z
  <2>3. Becomes(s, x) \/ Becomes(s, z) BY DEF z
  <2> HIDE DEF x
  <2>4. QED BY <2>1, <2>2, <2>3
<1>3. sk'[s] = y /\ \A t \in Socks : t # s => sk'[t] = sk[t]
  BY <1>1, <1>2 DEF Becomes
<1>4. call'.fn = "none" /\ ret'.rc = "ok" /\ ret'.part = Head(sk[s].in)
  BY CallReturns DEF Idle
<1>5. sk[s].in # <<>> BY DEF CanRead
<1>6. Reads(s) BY <1>2, <1>3, <1>4, <1>5 DEF Reads, SameApp
<1>7. QED BY <1>6 DEF CallGives

LEMMA SendGives ==
  ASSUME IInv, call.fn = "send", Return("ok", call.part), plan' = plan,
         peer' = peer, app' = app,
         Becomes(call.s, xsend(sk[call.s], call.part))
  PROVE  CallGives
<1> DEFINE s == call.s
           y == xsend(sk[s], call.part)
<1>1. /\ Sockets /\ s \in Socks /\ SocketType(sk[s]) /\ DOMAIN sk = Socks
  BY InCall DEF Sound, Sockets
<1>2. /\ y.in = sk[s].in /\ y.rcvmore = sk[s].rcvmore
      /\ y.out = Append(sk[s].out, call.part)
  BY <1>1 DEF xsend, SocketType
<1> HIDE DEF y
<1>3. sk'[s] = y /\ \A t \in Socks : t # s => sk'[t] = sk[t]
  BY <1>1 DEF Becomes, y
<1>4. call'.fn = "none" /\ ret'.rc = "ok" BY CallReturns DEF Idle
<1>5. Writes(s) BY <1>2, <1>3, <1>4 DEF Writes, SameApp
<1>6. QED BY <1>5 DEF CallGives

LEMMA RecvCallGives ==
  ASSUME IInv, recv \/ RecvCommands \/ RecvTry \/ RecvLast \/ RecvWait
                 \/ RecvRetry
  PROVE  CallGives
<1> DEFINE s == call.s
<1>1. call.fn = "recv" /\ ~Idle /\ plan' = plan /\ peer' = peer /\ app' = app
  BY DEF recv, RecvCommands, RecvTry, RecvLast, RecvWait, RecvRetry, At,
         Kept, Outside, Idle
<1>2. CallType /\ Sockets /\ s \in Socks /\ Sound(sk[s], peer[s])
  BY <1>1, InCall DEF Idle
<1>3. CASE recv
  <2>1. CASE sk[s].ctx_terminated
    <3>1. Return("ETERM", NoPart) /\ sk' = sk BY <1>3, <2>1 DEF recv
    <3>2. QED BY <1>1, <3>1, CallReturns, NothingMoves DEF CallGives
  <2>2. CASE ~sk[s].ctx_terminated
    <3> DEFINE x == [sk[s] EXCEPT !.ticks = More(@)]
    <3>1. Becomes(s, x) /\ \E pc : Goto(pc) BY <1>3, <2>2 DEF recv
    <3>2. SameParts(sk[s], x) BY DEF SameParts
    <3> HIDE DEF x
    <3>3. SameData /\ SameApp BY <1>1, <1>2, <3>1, <3>2, PartsStay
    <3>4. SameCall BY <1>2, <3>1, CallGoesOn
    <3>5. QED BY <3>3, <3>4 DEF CallGives
  <2>3. QED BY <2>1, <2>2
<1>4. CASE RecvCommands
  <2>1. PICK r \in process_commands(s, 0, FALSE) :
          IF r.rc # "ok" THEN Return(r.rc, NoPart) /\ Becomes(s, r.x)
          ELSE /\ Becomes(s, [r.x EXCEPT !.ticks = 0])
               /\ Goto(IF call.pc = "rate" THEN "try" ELSE "last")
    BY <1>4 DEF RecvCommands
  <2>2. SameParts(sk[s], r.x) BY <1>2, ResultsKeepParts
  <2>3. CASE r.rc # "ok"
    <3>1. Return(r.rc, NoPart) /\ Becomes(s, r.x) BY <2>1, <2>3
    <3>2. SameData /\ SameApp BY <1>1, <1>2, <2>2, <3>1, PartsStay
    <3>3. QED BY <1>1, <2>3, <3>1, <3>2, CallReturns DEF CallGives
  <2>4. CASE r.rc = "ok"
    <3> DEFINE x == [r.x EXCEPT !.ticks = 0]
    <3>1. Becomes(s, x) /\ \E pc : Goto(pc) BY <2>1, <2>4
    <3>2. SameParts(sk[s], x) BY <2>2 DEF SameParts
    <3> HIDE DEF x
    <3>3. SameData /\ SameApp BY <1>1, <1>2, <3>1, <3>2, PartsStay
    <3>4. SameCall BY <1>2, <3>1, CallGoesOn
    <3>5. QED BY <3>3, <3>4 DEF CallGives
  <2>5. QED BY <2>3, <2>4
<1>5. CASE RecvWait
  <2>1. PICK r \in process_commands(s, IF call.block THEN call.left ELSE 0,
                                    FALSE) :
          /\ Becomes(s, r.x)
          /\ IF r.rc # "ok" THEN Return(r.rc, NoPart) ELSE Goto("retry")
    BY <1>5 DEF RecvWait
  <2>2. SameParts(sk[s], r.x) BY <1>2, ResultsKeepParts
  <2>3. SameData /\ SameApp BY <1>1, <1>2, <2>1, <2>2, PartsStay
  <2>4. CASE r.rc # "ok"
    BY <1>1, <2>1, <2>3, <2>4, CallReturns DEF CallGives
  <2>5. CASE r.rc = "ok"
    <3>1. Goto("retry") BY <2>1, <2>5
    <3>2. SameCall BY <1>2, <3>1, CallGoesOn
    <3>3. QED BY <2>3, <3>2 DEF CallGives
  <2>6. QED BY <2>4, <2>5
<1>6. CASE (RecvTry \/ RecvLast \/ RecvRetry) /\ CanRead(sk[s])
  <2>1. /\ Return("ok", Head(sk[s].in))
        /\ \/ Becomes(s, xrecv(sk[s]))
           \/ Becomes(s, [xrecv(sk[s]) EXCEPT !.ticks = 0])
    BY <1>6 DEF RecvTry, RecvLast, RecvRetry
  <2>2. QED BY <1>1, <1>6, <2>1, RecvGives
<1>7. CASE (RecvTry \/ RecvLast \/ RecvRetry) /\ ~CanRead(sk[s])
  <2> DEFINE x == check_read(sk[s])
  <2>1. Becomes(s, x) BY <1>7 DEF RecvTry, RecvLast, RecvRetry
  <2>2. SameParts(sk[s], x) BY <1>2, DrainKeepsParts
  <2> HIDE DEF x
  <2>3. SameData /\ SameApp BY <1>1, <1>2, <2>1, <2>2, PartsStay
  <2>4. \/ \E pc : Goto(pc)
        \/ \E pc, b : StartWait(pc, b)
        \/ \E pc : WaitMore(pc)
        \/ Return("EAGAIN", NoPart)
    BY <1>7 DEF RecvTry, RecvLast, RecvRetry
  <2>5. SameCall \/ CallEnds
    BY <1>1, <1>2, <2>4, CallGoesOn, WaitMoreGives, CallReturns
  <2>6. QED BY <2>3, <2>5 DEF CallGives
<1>8. QED BY <1>3, <1>4, <1>5, <1>6, <1>7

LEMMA SendCallGives ==
  ASSUME IInv, send \/ SendTry \/ SendWait \/ SendRetry
  PROVE  CallGives
<1> DEFINE s == call.s
<1>1. call.fn = "send" /\ ~Idle /\ plan' = plan /\ peer' = peer /\ app' = app
  BY DEF send, SendTry, SendWait, SendRetry, At, Kept, Outside, Idle
<1>2. CallType /\ Sockets /\ s \in Socks
  BY <1>1, InCall DEF Idle
<1>3. CASE send /\ sk[s].ctx_terminated
  <2>1. Return("ETERM", NoPart) /\ sk' = sk BY <1>3 DEF send
  <2>2. QED BY <1>1, <2>1, CallReturns, NothingMoves DEF CallGives
<1>4. CASE (send /\ ~sk[s].ctx_terminated) \/ SendWait
  <2>1. \E r : /\ SameParts(sk[s], r.x) /\ Becomes(s, r.x)
               /\ \/ r.rc # "ok" /\ Return(r.rc, NoPart)
                  \/ \E pc : Goto(pc)
    <3>1. CASE send
      <4>1. PICK r \in process_commands(s, 0, TRUE) :
              /\ Becomes(s, r.x)
              /\ IF r.rc # "ok" THEN Return(r.rc, NoPart) ELSE Goto("try")
        BY <1>4, <3>1 DEF send, SendWait, At
      <4>2. SameParts(sk[s], r.x) BY <1>2, ResultsKeepParts
      <4>3. QED BY <4>1, <4>2
    <3>2. CASE SendWait
      <4>1. PICK r \in process_commands(s, call.left, FALSE) :
              /\ Becomes(s, r.x)
              /\ IF r.rc # "ok" THEN Return(r.rc, NoPart) ELSE Goto("retry")
        BY <3>2 DEF SendWait
      <4>2. SameParts(sk[s], r.x) BY <1>2, ResultsKeepParts
      <4>3. QED BY <4>1, <4>2
    <3>3. QED BY <1>4, <3>1, <3>2
  <2>2. PICK r : /\ SameParts(sk[s], r.x) /\ Becomes(s, r.x)
                 /\ \/ r.rc # "ok" /\ Return(r.rc, NoPart)
                    \/ \E pc : Goto(pc)
    BY <2>1
  <2>3. SameData /\ SameApp BY <1>1, <1>2, <2>2, PartsStay
  <2>4. SameCall \/ CallEnds BY <1>1, <1>2, <2>2, CallGoesOn, CallReturns
  <2>5. QED BY <2>3, <2>4 DEF CallGives
<1>5. CASE (SendTry \/ SendRetry) /\ CanWrite(sk[s])
  <2>1. Return("ok", call.part) /\ Becomes(s, xsend(sk[s], call.part))
    BY <1>5 DEF SendTry, SendRetry
  <2>2. QED BY <1>1, <2>1, SendGives
<1>6. CASE (SendTry \/ SendRetry) /\ ~CanWrite(sk[s])
  <2>1. sk' = sk BY <1>6 DEF SendTry, SendRetry
  <2>2. SameData /\ SameApp BY <1>1, <2>1, NothingMoves
  <2>3. \/ \E pc, b : StartWait(pc, b)
        \/ \E pc : WaitMore(pc)
        \/ Return("EAGAIN", NoPart)
    BY <1>6 DEF SendTry, SendRetry
  <2>4. SameCall \/ CallEnds
    BY <1>1, <1>2, <2>3, CallGoesOn, WaitMoreGives, CallReturns
  <2>5. QED BY <2>2, <2>4 DEF CallGives
<1>7. QED BY <1>3, <1>4, <1>5, <1>6

LEMMA PollCallGives ==
  ASSUME IInv, zmq_poll \/ PollWait \/ PollEvents \/ PollDecide
  PROVE  CallGives
<1>1. call.fn = "poll" /\ ~Idle /\ plan' = plan /\ peer' = peer /\ app' = app
  BY DEF zmq_poll, PollWait, PollEvents, PollDecide, At, Kept, Outside, Idle
<1>2. CallType /\ Sockets BY <1>1, InCall DEF Idle
<1>3. ASSUME NEW rc, Return(rc, NoPart) PROVE CallEnds
  BY <1>1, <1>3, CallReturns
<1>4. CASE zmq_poll \/ PollWait \/ PollDecide
  <2>1. sk' = sk BY <1>4 DEF zmq_poll, PollWait, PollDecide
  <2>2. SameData /\ SameApp BY <1>1, <2>1, NothingMoves
  <2>3. (\E rc : Return(rc, NoPart))
        \/ (/\ call'.fn = call.fn /\ call'.s = call.s
            /\ call'.part = call.part /\ ret' = ret)
    <3>1. CASE zmq_poll BY <1>2, <3>1 DEF zmq_poll, CallType
    <3>2. CASE PollWait BY <1>2, <3>2 DEF PollWait, CallType
    <3>3. CASE PollDecide
      <4>1. CASE call.timeo = 0 \/ call.rev # {}
        BY <3>3, <4>1 DEF PollDecide
      <4>2. CASE ~(call.timeo = 0 \/ call.rev # {}) /\ call.timeo < 0
        BY <1>2, <3>3, <4>2 DEF PollDecide, CallType
      <4>3. CASE ~(call.timeo = 0 \/ call.rev # {}) /\ ~(call.timeo < 0)
        <5>1. PICK t \in now_ms :
                LET end == IF call.block THEN call.end ELSE t + call.timeo
                IN IF t >= end THEN Return("ok", NoPart)
                   ELSE PollAgain(t, end) /\ ret' = ret
          BY <3>3, <4>3 DEF PollDecide
        <5>2. \/ Return("ok", NoPart)
              \/ (\E end : PollAgain(t, end)) /\ ret' = ret
          BY <5>1
        <5>3. QED BY <1>2, <5>2 DEF PollAgain, CallType
      <4>4. QED BY <4>1, <4>2, <4>3
    <3>4. QED BY <1>4, <3>1, <3>2, <3>3
  <2>4. QED BY <1>3, <2>2, <2>3 DEF CallGives, SameCall
<1>5. CASE PollEvents
  <2> DEFINE s == Items[call.i]
  <2>1. call.i \in DOMAIN Items /\ s \in Socks \cup {"raw"}
    <3>1. call.i \in 1..Len(Items) + 1 /\ call.i <= Len(Items)
      BY <1>1, <1>5, InCall DEF PollEvents, At, Calls, Polling, Idle
    <3>2. Items \in Seq(Socks \cup {"raw"})
      BY SocketApiAssumption DEF IInv, Items
    <3>3. Len(Items) \in Nat /\ DOMAIN Items = 1..Len(Items) BY <3>2
    <3>4. QED BY <3>1, <3>2, <3>3
  <2> DEFINE Stays == /\ call'.fn = call.fn /\ call'.s = call.s
                      /\ call'.part = call.part /\ ret' = ret
  <2>2. CASE s = "raw"
    <3>1. sk' = sk /\ Stays BY <1>2, <1>5, <2>2 DEF PollEvents, CallType
    <3>2. QED BY <1>1, <3>1, NothingMoves DEF CallGives, SameCall
  <2>3. CASE s # "raw" /\ sk[s].ctx_terminated
    <3>1. sk' = sk /\ Return("ETERM", NoPart) BY <1>5, <2>3 DEF PollEvents
    <3>2. QED BY <1>1, <1>3, <3>1, NothingMoves DEF CallGives
  <2>4. CASE s # "raw" /\ ~sk[s].ctx_terminated
    <3>1. PICK r \in process_commands(s, 0, FALSE) :
            IF r.rc # "ok" THEN Return(r.rc, NoPart) /\ Becomes(s, r.x)
            ELSE Becomes(s, check_read(r.x)) /\ Stays
      BY <1>2, <1>5, <2>4 DEF PollEvents, CallType
    <3>2. s \in Socks BY <2>1, <2>4
    <3>3. SameParts(sk[s], r.x) /\ SameParts(sk[s], check_read(r.x))
      BY <1>2, <3>2, ResultsKeepParts
    <3>4. PICK x : SameParts(sk[s], x) /\ Becomes(s, x) BY <3>1, <3>3
    <3>5. SameData /\ SameApp BY <1>1, <1>2, <3>2, <3>4, PartsStay
    <3>6. QED BY <1>3, <3>1, <3>5 DEF CallGives, SameCall
  <2>5. QED BY <2>2, <2>3, <2>4
<1>6. QED BY <1>4, <1>5

LEMMA CallPassing ==
  ASSUME IInv, PInv, Call
  PROVE  PInv'
<1>1. Got BY DEF PInv
<1>2. CallGives BY RecvCallGives, SendCallGives, PollCallGives DEF Call
<1>3. Got' /\ plan' = plan
  <2>1. CASE SameData BY <1>1, <2>1, SameStreams DEF SameData
  <2>2. CASE Reads(call.s) BY <1>1, <2>2 DEF Got, Reads
  <2>3. CASE Writes(call.s) BY <1>1, <2>3 DEF Got, Writes
  <2>4. QED BY <1>2, <2>1, <2>2, <2>3 DEF CallGives
<1>4. ASSUME plan.app = "proxy" PROVE \E h, d \in Hands : Passing(h, d)'
  <2>1. PICK held, taped \in Hands : Passing(held, taped)
    BY <1>4 DEF PInv
  <2>2. CASE SameData /\ SameApp /\ SameCall
    BY <1>1, <2>1, <2>2, GoesPassing DEF SameCall
  <2>3. CASE SameData /\ SameApp /\ CallEnds
    BY <1>1, <2>1, <2>3, ReturnsPassing DEF CallEnds
  <2>4. CASE call.fn = "recv" /\ Reads(call.s)
    BY <1>1, <2>1, <2>4, ReadPassing
  <2>5. CASE call.fn = "send" /\ Writes(call.s)
    BY <1>1, <2>1, <2>5, WritePassing
  <2>6. QED BY <1>2, <2>2, <2>3, <2>4, <2>5 DEF CallGives
<1>5. (\E h, d \in Hands : Passing(h, d))'
        <=> \E h, d \in Hands : Passing(h, d)'
  BY DEF Hands
<1>6. QED BY <1>3, <1>4, <1>5 DEF PInv

-----------------------------------------------------------------------------
(* The proxy's own steps, and the other threads *)

\* A step of the loop moves no part.
LEMMA LoopPassing ==
  ASSUME IInv, Got, NEW held, NEW taped, Passing(held, taped),
         plan' = plan, sk' = sk, peer' = peer,
         InLoop(held, taped)', plan.capture => OpenTape(taped)'
  PROVE  PInv'
<1>1. held \in Hands /\ taped \in Hands /\ Streams(held) /\ Taped(taped)
  BY DEF Passing
<1>2. SameData BY DEF SameData
<1>3. /\ Got' /\ Captured' = Captured /\ Streams(held)'
      /\ \A s \in Sides : Moved(s)' = Moved(s)
  BY <1>1, <1>2, SameStreams
<1>4. Taped(taped)' BY <1>1, <1>3, SameTaped
<1>5. Passing(held, taped)' BY <1>1, <1>3, <1>4 DEF Passing
<1>6. (\E h, d \in Hands : Passing(h, d))'
        <=> \E h, d \in Hands : Passing(h, d)'
  BY DEF Hands
<1>7. QED BY <1>1, <1>3, <1>5, <1>6 DEF PInv

\* The proxy calls.
Calling(fn, s, part) ==
  /\ call'.fn = fn /\ call'.s = s /\ call'.part = part /\ ~Idle' /\ ~Done'
  /\ plan' = plan /\ sk' = sk /\ peer' = peer

LEMMA StartCalls ==
  ASSUME NEW fn \in {"recv", "send", "poll"}, NEW s, NEW t, NEW part,
         Start(fn, s, t, part)
  PROVE  Calling(fn, s, part)
BY DEF Start, NoCall, Calling, Idle, Done

\* What the loop knows between two messages.
LEMMA BetweenMessages ==
  ASSUME NEW held, NEW taped, InLoop(held, taped), app.pc # "over",
         \/ ~InMessage
         \/ held[app.from] = <<>>
  PROVE  \A s \in Sides : held[s] = <<>> /\ taped[s] = <<>>
BY DEF InLoop

LEMMA ProxyPolls ==
  ASSUME IInv, Got, NEW held, NEW taped, Passing(held, taped), ProxyPoll
  PROVE  PInv'
<1>1. InLoop(held, taped) /\ Taped(taped) BY DEF Passing
<1>2. app.pc = "start" /\ app' = [app EXCEPT !.pc = "polled"]
      /\ Calling("poll", "f", NoPart) /\ AppType
  BY StartCalls DEF ProxyPoll, At2, IInv
<1>3. app'.pc = "polled" /\ ~InMessage /\ ~InMessage' /\ app.pc # "over"
  BY <1>2 DEF AppType, InMessage
<1>4. \A s \in Sides : held[s] = <<>> /\ taped[s] = <<>>
  BY <1>1, <1>3, BetweenMessages
<1>5. InLoop(held, taped)' BY <1>2, <1>3, <1>4 DEF InLoop, Calling
<1>6. Captured' = Captured BY <1>2 DEF Captured, Calling
<1>7. plan.capture => OpenTape(taped)'
  BY <1>1, <1>3, <1>6 DEF Taped, OpenTape
<1>8. QED BY <1>2, <1>5, <1>7, LoopPassing DEF Calling

LEMMA SidePassing ==
  ASSUME IInv, Got, NEW held, NEW taped, Passing(held, taped),
         app.pc \in {"polled", "second"}, Idle,
         NEW side \in Sides, NEW rev, ProxySide(side, rev)
  PROVE  PInv'
<1>1. InLoop(held, taped) /\ Taped(taped) /\ AppType BY DEF Passing, IInv
<1>2. ~InMessage /\ app.pc # "over" BY DEF InMessage
<1>3. \A s \in Sides : held[s] = <<>> /\ taped[s] = <<>>
  BY <1>1, <1>2, BetweenMessages
<1>4. CASE side \in rev
  <2>1. /\ app' = [app EXCEPT !.pc = "received", !.from = side, !.rev = rev]
        /\ Calling("recv", side, NoPart)
    BY <1>4, StartCalls DEF ProxySide
  <2>2. app'.pc = "received" /\ app'.from = side /\ InMessage'
    BY <1>1, <2>1 DEF AppType, InMessage
  <2>3. InLoop(held, taped)' BY <1>3, <2>1, <2>2 DEF InLoop, Calling
  <2>4. Captured' = Captured BY <2>1 DEF Captured, Calling
  <2>5. plan.capture => OpenTape(taped)'
    BY <1>1, <1>2, <2>4 DEF Taped, OpenTape
  <2>6. QED BY <2>1, <2>3, <2>5, LoopPassing DEF Calling
<1>5. CASE side \notin rev
  <2>1. /\ app' = [app EXCEPT
                     !.pc = IF side = "f" THEN "second" ELSE "start",
                     !.rev = rev]
        /\ UNCHANGED <<plan, sk, peer, raw, call, ret, listener, clock>>
    BY <1>5 DEF ProxySide
  <2>2. app'.pc \in {"start", "second"} /\ ~InMessage' /\ Idle'
    BY <1>1, <2>1 DEF AppType, InMessage, Idle
  <2>3. InLoop(held, taped)' BY <1>3, <2>2 DEF InLoop
  <2>4. Captured' = Captured BY <2>1 DEF Captured
  <2>5. plan.capture => OpenTape(taped)'
    BY <1>1, <1>2, <2>4 DEF Taped, OpenTape
  <2>6. QED BY <2>1, <2>3, <2>5, LoopPassing
<1>6. QED BY <1>4, <1>5

\* A step within a message: the parts in hand and the tape stay.
LEMMA MessagePassing ==
  ASSUME IInv, Got, NEW held, NEW taped, Passing(held, taped),
         InMessage, InMessage', app'.from = app.from,
         plan' = plan, sk' = sk, peer' = peer, InLoop(held, taped)'
  PROVE  PInv'
<1>1. InLoop(held, taped) /\ Taped(taped) BY DEF Passing
<1>2. Captured' = Captured BY DEF Captured
<1>3. Tape(taped, app.from)' = Tape(taped, app.from) BY DEF Tape, Moved
<1>4. app.pc # "over" BY DEF InMessage
<1>5. plan.capture => OpenTape(taped)'
  BY <1>1, <1>2, <1>3, <1>4 DEF Taped, OpenTape
<1>6. QED BY <1>5, LoopPassing

LEMMA ForwardPassing ==
  ASSUME IInv, Got, NEW held, NEW taped, Passing(held, taped),
         InMessage, NEW part, Forward(part), held[app.from] = <<part>>,
         plan.capture => taped[app.from] = held[app.from]
  PROVE  PInv'
<1>1. InLoop(held, taped) /\ AppType BY DEF Passing, IInv
<1>2. /\ app' = [app EXCEPT !.pc = "sent", !.part = part]
      /\ Calling("send", OtherSide(app.from), part)
  BY StartCalls DEF Forward
<1>3. app'.pc = "sent" /\ app'.from = app.from /\ app'.part = part
      /\ InMessage'
  BY <1>1, <1>2 DEF AppType, InMessage
<1>4. InLoop(held, taped)'
  <2>1. /\ \A s \in Sides : taped[s] \in {<<>>, held[s]}
        /\ \A s \in Sides : s # app.from => held[s] = <<>>
        /\ app.from \in Sides
    BY <1>1 DEF InLoop, InMessage
  <2>2. call'.fn = "send" /\ call'.s = OtherSide(app.from) /\ ~Done'
        /\ call'.part = part /\ plan' = plan
    BY <1>2 DEF Calling
  <2>3. QED BY <1>3, <2>1, <2>2 DEF InLoop
<1>5. QED BY <1>2, <1>3, <1>4, MessagePassing DEF Calling

LEMMA ForwardsPassing ==
  ASSUME IInv, Got, NEW held, NEW taped, Passing(held, taped),
         ProxyForward \/ ProxyCaptured
  PROVE  PInv'
<1>1. InLoop(held, taped) /\ AppType BY DEF Passing, IInv
<1>2. Done /\ InMessage
  BY DEF ProxyForward, ProxyCaptured, At2, Failed, Done, InMessage
<1>3. CASE ProxyForward
  <2>1. app.pc = "received" BY <1>3 DEF ProxyForward, At2
  <2>2. held[app.from] = <<Received>> /\ taped[app.from] = <<>>
    BY <1>1, <1>2, <2>1 DEF InLoop
  <2>3. CASE plan.capture
    <3>1. /\ app' = [app EXCEPT !.pc = "captured", !.part = Received]
          /\ Calling("send", "c", Received)
      BY <1>3, <2>3, StartCalls DEF ProxyForward
    <3>2. app'.pc = "captured" /\ app'.from = app.from
          /\ app'.part = Received /\ InMessage'
      BY <1>1, <3>1 DEF AppType, InMessage
    <3>3. InLoop(held, taped)'
      <4>1. /\ \A s \in Sides : taped[s] \in {<<>>, held[s]}
            /\ \A s \in Sides : s # app.from => held[s] = <<>>
            /\ app.from \in Sides
        BY <1>1, <1>2 DEF InLoop, InMessage
      <4>2. call'.fn = "send" /\ call'.s = "c" /\ ~Done'
            /\ call'.part = Received /\ plan' = plan
        BY <3>1 DEF Calling
      <4>3. QED BY <2>2, <2>3, <3>2, <4>1, <4>2 DEF InLoop
    <3>4. QED BY <1>2, <3>1, <3>2, <3>3, MessagePassing DEF Calling
  <2>4. CASE ~plan.capture
    <3>1. Forward(Received) BY <1>3, <2>4 DEF ProxyForward
    <3>2. QED BY <1>2, <2>2, <2>4, <3>1, ForwardPassing
  <2>5. QED BY <2>3, <2>4
<1>4. CASE ProxyCaptured
  <2>1. app.pc = "captured" /\ Forward(app.part)
    BY <1>4 DEF ProxyCaptured, At2
  <2>2. held[app.from] = <<app.part>> /\ taped[app.from] = held[app.from]
    BY <1>1, <1>2, <2>1 DEF InLoop
  <2>3. QED BY <1>2, <2>1, <2>2, ForwardPassing
<1>5. QED BY <1>3, <1>4

LEMMA SentPassing ==
  ASSUME IInv, Got, NEW held, NEW taped, Passing(held, taped), ProxySent
  PROVE  PInv'
<1>1. InLoop(held, taped) /\ Taped(taped) /\ AppType BY DEF Passing, IInv
<1>2. Done /\ InMessage /\ app.pc = "sent" /\ Idle
  BY DEF ProxySent, At2, Failed, Done, InMessage
<1>3. /\ held[app.from] = <<>> /\ app.from \in Sides
      /\ Moved(app.from) # <<>>
      /\ Moved(app.from)[Len(Moved(app.from))] = app.part
  BY <1>1, <1>2 DEF InLoop
<1>4. \A s \in Sides : held[s] = <<>> /\ taped[s] = <<>>
  BY <1>1, <1>2, <1>3, BetweenMessages
<1>5. CASE app.part.more
  <2>1. /\ app' = [app EXCEPT !.pc = "received"]
        /\ Calling("recv", app.from, NoPart)
    BY <1>5, StartCalls DEF ProxySent
  <2>2. app'.pc = "received" /\ app'.from = app.from /\ InMessage'
    BY <1>1, <2>1 DEF AppType, InMessage
  <2>3. InLoop(held, taped)' BY <1>3, <1>4, <2>1, <2>2 DEF InLoop, Calling
  <2>4. QED BY <1>2, <2>1, <2>2, <2>3, MessagePassing DEF Calling
<1>6. CASE ~app.part.more
  <2>1. /\ app' = [app EXCEPT !.pc = IF app.from = "f" THEN "second"
                                     ELSE "start"]
        /\ UNCHANGED <<plan, sk, peer, raw, call, ret, listener, clock>>
    BY <1>6 DEF ProxySent
  <2>2. app'.pc \in {"start", "second"} /\ ~InMessage' /\ Idle'
    BY <1>1, <1>2, <2>1 DEF AppType, InMessage, Idle
  <2>3. InLoop(held, taped)' BY <1>4, <2>2 DEF InLoop
  <2>4. Captured' = Captured BY <2>1 DEF Captured
  <2>5. plan.capture /\ Captured # <<>> => ~Captured[Len(Captured)].more
    <3>1. Tape(taped, app.from) = Moved(app.from)
      <4>1. Moved(app.from) \in Seq(PartSet) BY <1>3, ProxyTypes
      <4>2. QED BY <1>3, <1>4, <4>1, ConcatEmptySeq DEF Tape
    <3>2. QED BY <1>1, <1>2, <1>3, <1>6, <3>1 DEF Taped, OpenTape
  <2>6. plan.capture => OpenTape(taped)' BY <2>4, <2>5 DEF OpenTape
  <2>7. QED BY <2>1, <2>3, <2>6, LoopPassing
<1>7. QED BY <1>5, <1>6

LEMMA FailsPassing ==
  ASSUME IInv, Got, NEW held, NEW taped, Passing(held, taped), ProxyFails
  PROVE  PInv'
<1>1. InLoop(held, taped) /\ AppType BY DEF Passing, IInv
<1>2. /\ app' = [app EXCEPT !.pc = "over"] /\ Idle
      /\ UNCHANGED <<plan, sk, peer, raw, call, ret, listener, clock>>
  BY DEF ProxyFails
<1>3. app'.pc = "over" /\ ~InMessage' /\ Idle'
  BY <1>1, <1>2 DEF AppType, InMessage, Idle
<1>4. InLoop(held, taped)' BY <1>1, <1>3 DEF InLoop
<1>5. OpenTape(taped)' BY <1>3 DEF OpenTape
<1>6. QED BY <1>2, <1>4, <1>5, LoopPassing

LEMMA ProxyPassing ==
  ASSUME IInv, PInv, Proxy
  PROVE  PInv'
<1>1. plan.app = "proxy"
  BY DEF Proxy, ProxyPoll, ProxyFirst, ProxySecond, ProxyForward,
         ProxyCaptured, ProxySent, ProxyFails, At2
<1>2. Got BY DEF PInv
<1>3. PICK held, taped \in Hands : Passing(held, taped)
  BY <1>1 DEF PInv
<1>4. CASE ProxyFirst \/ ProxySecond
  <2>1. app.pc \in {"polled", "second"} /\ Idle
        /\ \E side \in Sides : \E rev : ProxySide(side, rev)
    BY <1>4 DEF ProxyFirst, ProxySecond, At2, Sides
  <2>2. QED BY <1>2, <1>3, <2>1, SidePassing
<1>5. QED
  BY <1>2, <1>3, <1>4, ProxyPolls, ForwardsPassing, SentPassing, FailsPassing
     DEF Proxy

LEMMA PeerSendsPassing ==
  ASSUME IInv, PInv, NEW s \in Socks, PeerSends(s)
  PROVE  PInv'
<1> DEFINE n == peer[s].sent
           m == MsgOf(s, n + 1)
<1>1. /\ sk' = [sk EXCEPT ![s] = [sk[s] EXCEPT
                  !.in = @ \o Parts(m), !.asleep = FALSE,
                  !.cmds = IF sk[s].asleep
                           THEN Append(@, [type |-> "activate_read",
                                           read |-> 0])
                           ELSE @]]
      /\ peer' = [peer EXCEPT ![s].sent = @ + 1] /\ n < plan.msgs[s]
      /\ plan' = plan /\ call' = call /\ ret' = ret /\ app' = app
  BY DEF PeerSends, Becomes
<1>2. Got BY DEF PInv
<1>3. /\ DOMAIN sk = Socks /\ DOMAIN peer = Socks /\ n \in Nat
      /\ SocketType(sk[s]) /\ DOMAIN peer[s] = {"sent", "read", "told", "got"}
  BY DEF IInv, Sockets, Sound
<1>4. /\ sk'[s].in = sk[s].in \o Parts(m) /\ sk'[s].out = sk[s].out
      /\ sk'[s].rcvmore = sk[s].rcvmore
      /\ peer'[s].got = peer[s].got /\ peer'[s].sent = n + 1
  BY <1>1, <1>3 DEF SocketType
<1>5. \A t \in Socks : t # s => sk'[t] = sk[t] /\ peer'[t] = peer[t]
  BY <1>1, <1>3
<1>6. Got' BY <1>2, <1>4, <1>5 DEF Got
<1>7. /\ "c" \in Socks /\ Sides \subseteq Socks /\ plan.msgs["f"] \in Nat
      /\ \A t \in Sides : OtherSide(t) \in Sides /\ plan.msgs[t] \in Nat
      /\ \A t \in Socks : sk[t].in \in Seq(PartSet)
      /\ \A t \in Sides : Moved(t) \in Seq(PartSet)
  BY <1>2, ProxyTypes
<1>8. Captured' = Captured
      /\ \A t \in Sides : /\ Moved(t)' = Moved(t)
                          /\ sk'[t].rcvmore = sk[t].rcvmore
  BY <1>4, <1>5, <1>7 DEF Captured, Moved
<1>9. ASSUME plan.app = "proxy" PROVE \E h, d \in Hands : Passing(h, d)'
  <2>1. PICK held, taped \in Hands : Passing(held, taped)
    BY <1>9 DEF PInv
  <2>2. \A t \in Sides : /\ peer[t].sent <= plan.msgs[t]
                         /\ (Moved(t) \o held[t]) \o sk[t].in
                              = All(t, peer[t].sent)
    BY <2>1 DEF Passing, Streams
  <2>3. Streams(held)'
    <3> SUFFICES ASSUME NEW t \in Sides
                 PROVE  (/\ peer[t].sent <= plan.msgs[t]
                         /\ (Moved(t) \o held[t]) \o sk[t].in
                              = All(t, peer[t].sent))'
      BY DEF Streams
    <3>1. \A k : All(t, k)' = All(t, k) BY <1>1, SamePlan
    <3>2. All(t, peer[t].sent)' = All(t, peer'[t].sent)
      <4>1. [k \in 1..peer[t].sent |-> Parts(MsgOf(t, k))]'
              = [k \in 1..peer'[t].sent |-> Parts(MsgOf(t, k))]
        BY <1>1 DEF MsgOf
      <4>2. QED BY <4>1 DEF All
    <3>3. CASE t # s BY <1>1, <1>5, <1>7, <1>8, <2>2, <3>2, <3>3
    <3>4. CASE t = s
      <4>1. m = First(t) + n + 1 BY <1>3, <1>7, <3>4 DEF MsgOf, First
      <4>2. All(t, n + 1) = All(t, n) \o Parts(m)
        BY <1>3, <1>7, <4>1, AllNext
      <4>3. First(t) \in Nat BY <1>7 DEF First
      <4>4. Parts(m) \in Seq(PartSet) BY <1>3, <4>1, <4>3, PartsType
      <4>5. Moved(t) \o held[t] \in Seq(PartSet)
        BY <1>7, <2>1, ConcatProperties DEF Hands
      <4> DEFINE u == Moved(t) \o held[t]
                 w == sk[t].in
                 P == Parts(m)
      <4>6. u \in Seq(PartSet) /\ w \in Seq(PartSet) /\ P \in Seq(PartSet)
        BY <1>7, <4>4, <4>5
      <4>7. u \o w = All(t, n) /\ sk'[t].in = w \o P BY <1>4, <2>2, <3>4
      <4>8. (Moved(t) \o held[t])' = u BY <1>8
      <4> HIDE DEF u, w, P, m
      <4>9. u \o (w \o P) = (u \o w) \o P BY <4>6, ConcatAssociative
      <4>10. u \o sk'[t].in = All(t, n + 1) BY <4>2, <4>7, <4>9 DEF P
      <4>11. peer'[t].sent = n + 1 /\ n + 1 <= plan.msgs[t] /\ plan' = plan
        BY <1>1, <1>3, <1>4, <1>7, <3>4
      <4>12. QED BY <3>2, <4>8, <4>10, <4>11
    <3>5. QED BY <3>3, <3>4
  <2>4. SameApp BY <1>1 DEF SameApp
  <2>5. Passing(held, taped)' BY <1>1, <1>2, <1>8, <2>1, <2>3, <2>4, LoopStays
  <2>6. QED BY <2>1, <2>5
<1>10. (\E h, d \in Hands : Passing(h, d))'
         <=> \E h, d \in Hands : Passing(h, d)'
  BY DEF Hands
<1>11. QED BY <1>1, <1>6, <1>9, <1>10 DEF PInv

LEMMA PeerReadsPassing ==
  ASSUME IInv, PInv, NEW s \in Socks, PeerReads(s)
  PROVE  PInv'
<1> DEFINE q == sk[s].out
           p == Head(q)
           r == IF p.more THEN peer[s].read ELSE peer[s].read + 1
<1>1. /\ q # <<>>
      /\ sk' = [sk EXCEPT ![s] = [sk[s] EXCEPT !.out = Tail(@),
                  !.cmds = IF Tells(r)
                           THEN Append(@, [type |-> "activate_write",
                                           read |-> r])
                           ELSE @]]
      /\ peer' = [peer EXCEPT ![s].read = r, ![s].got = Append(@, p),
                              ![s].told = IF Tells(r) THEN r ELSE @]
      /\ plan' = plan /\ call' = call /\ ret' = ret /\ app' = app
  BY DEF PeerReads, Becomes
<1> HIDE DEF r
<1>2. Got BY DEF PInv
<1>3. /\ DOMAIN sk = Socks /\ DOMAIN peer = Socks
      /\ SocketType(sk[s]) /\ DOMAIN peer[s] = {"sent", "read", "told", "got"}
  BY DEF IInv, Sockets, Sound
<1>4. q \in Seq(PartSet) /\ peer[s].got \in Seq(PartSet)
  BY <1>2, <1>3 DEF SocketType, Got
<1> DEFINE a == <<p>>
           b == Tail(q)
<1>5. p \in PartSet BY <1>1, <1>4
<1>6. /\ sk'[s].in = sk[s].in /\ sk'[s].out = b
      /\ sk'[s].rcvmore = sk[s].rcvmore
      /\ peer'[s].got = peer[s].got \o a /\ peer'[s].sent = peer[s].sent
  <2>1. peer'[s].got = Append(peer[s].got, p) BY <1>1, <1>3
  <2>2. QED BY <1>1, <1>3, <1>4, <1>5, <2>1, AppendIsConcat DEF SocketType
<1>7. \A t \in Socks : t # s => sk'[t] = sk[t] /\ peer'[t] = peer[t]
  BY <1>1, <1>3
<1>8. a \in Seq(PartSet) /\ b \in Seq(PartSet) /\ a \o b = q
  BY <1>1, <1>4, <1>5
<1> HIDE DEF a, b
<1>9. peer'[s].got \in Seq(PartSet) /\ peer'[s].got \o sk'[s].out
        = peer[s].got \o sk[s].out
  <2> DEFINE g == peer[s].got
  <2>1. g \in Seq(PartSet) BY <1>4
  <2> HIDE DEF g
  <2>2. (g \o a) \o b = g \o (a \o b)
    <3>1. a \in Seq(PartSet) /\ b \in Seq(PartSet) BY <1>8
    <3>2. QED BY <2>1, <3>1, ConcatAssociative
  <2>3. g \o a \in Seq(PartSet) BY <1>8, <2>1, ConcatProperties
  <2>4. QED BY <1>6, <1>8, <2>2, <2>3 DEF g
<1>10. Got' BY <1>2, <1>7, <1>9 DEF Got
<1>11. /\ "c" \in Socks /\ Sides \subseteq Socks
       /\ \A t \in Sides : OtherSide(t) \in Socks
  BY <1>2, ProxyTypes
<1>12. \A t \in Socks : (peer[t].got \o sk[t].out)'
                          = peer[t].got \o sk[t].out
  BY <1>7, <1>9
<1>13. Captured' = Captured
       /\ \A t \in Sides : /\ Moved(t)' = Moved(t)
                           /\ sk'[t].rcvmore = sk[t].rcvmore
  BY <1>6, <1>7, <1>11, <1>12 DEF Captured, Moved
<1>14. ASSUME plan.app = "proxy" PROVE \E h, d \in Hands : Passing(h, d)'
  <2>1. PICK held, taped \in Hands : Passing(held, taped)
    BY <1>14 DEF PInv
  <2>2. Streams(held)'
    <3> SUFFICES ASSUME NEW t \in Sides
                 PROVE  (/\ peer[t].sent <= plan.msgs[t]
                         /\ (Moved(t) \o held[t]) \o sk[t].in
                              = All(t, peer[t].sent))'
      BY DEF Streams
    <3>1. peer'[t].sent = peer[t].sent /\ sk'[t].in = sk[t].in
      BY <1>6, <1>7, <1>11
    <3>2. All(t, peer[t].sent)' = All(t, peer[t].sent)
      <4>1. [k \in 1..peer[t].sent |-> Parts(MsgOf(t, k))]'
              = [k \in 1..peer[t].sent |-> Parts(MsgOf(t, k))]
        BY <1>1, <3>1 DEF MsgOf
      <4>2. QED BY <4>1 DEF All
    <3>3. QED BY <1>1, <1>13, <2>1, <3>1, <3>2 DEF Passing, Streams
  <2>3. SameApp BY <1>1 DEF SameApp
  <2>4. Passing(held, taped)'
    BY <1>1, <1>2, <1>13, <2>1, <2>2, <2>3, LoopStays
  <2>5. QED BY <2>1, <2>4
<1>15. (\E h, d \in Hands : Passing(h, d))'
         <=> \E h, d \in Hands : Passing(h, d)'
  BY DEF Hands
<1>16. QED BY <1>1, <1>10, <1>14, <1>15 DEF PInv

LEMMA StillPassing ==
  ASSUME IInv, PInv, SameData, SameApp, SameCall
  PROVE  PInv'
<1>1. Got /\ Got' /\ plan' = plan BY SameStreams DEF PInv, SameData
<1>2. ASSUME plan.app = "proxy" PROVE \E h, d \in Hands : Passing(h, d)'
  <2>1. PICK held, taped \in Hands : Passing(held, taped)
    BY <1>2 DEF PInv
  <2>2. QED BY <1>1, <2>1, GoesPassing DEF SameCall
<1>3. (\E h, d \in Hands : Passing(h, d))'
        <=> \E h, d \in Hands : Passing(h, d)'
  BY DEF Hands
<1>4. QED BY <1>1, <1>2, <1>3 DEF PInv

LEMMA OthersPassing ==
  ASSUME IInv, PInv,
         \/ Terminate \/ RawReady \/ Tick \/ ListenerStep
         \/ \E addr \in Addrs : Connection(addr)
         \/ UNCHANGED vars
  PROVE  PInv'
<1>1. plan' = plan /\ peer' = peer /\ call' = call /\ ret' = ret
  BY DEF Terminate, RawReady, Tick, ListenerStep, Connection, vars
<1>2. SameApp
  BY DEF Terminate, RawReady, Tick, ListenerStep, Connection, vars, SameApp,
         IInv, AppType
<1>3. SameData
  <2>1. CASE Terminate
    <3>1. \A s \in Socks :
            sk'[s] = [sk[s] EXCEPT !.cmds =
                        Append(@, [type |-> "stop", read |-> 0])]
      BY <2>1 DEF Terminate
    <3>2. \A s \in Socks : SocketType(sk[s]) BY DEF IInv, Sockets, Sound
    <3>3. \A s \in Socks : /\ sk'[s].in = sk[s].in
                           /\ sk'[s].out = sk[s].out
                           /\ sk'[s].rcvmore = sk[s].rcvmore
      BY <3>1, <3>2 DEF SocketType
    <3>4. QED BY <1>1, <3>3 DEF SameData
  <2>2. CASE ~Terminate
    <3>1. sk' = sk
      BY <2>2 DEF RawReady, Tick, ListenerStep, Connection, vars
    <3>2. QED BY <1>1, <3>1 DEF SameData
  <2>3. QED BY <2>1, <2>2
<1>4. SameCall BY <1>1 DEF SameCall
<1>5. QED BY <1>2, <1>3, <1>4, StillPassing

\* Another program than the proxy.
LEMMA NoProxy ==
  ASSUME PInv, plan' = plan, peer' = peer, plan.app # "proxy"
  PROVE  PInv'
BY DEF PInv, Got

LEMMA ProgramsPassing ==
  ASSUME PInv,
         \/ Receive \/ Send \/ Poll \/ bind \/ term_endpoint
         \/ \E o : zmq_getsockopt(o)
         \/ \E o, v : zmq_setsockopt(o, v)
  PROVE  PInv'
<1>1. plan.app # "proxy"
  BY DEF Receive, Send, Poll, bind, term_endpoint, zmq_getsockopt,
         zmq_setsockopt, Setting
<1>2. plan' = plan /\ peer' = peer
  BY DEF Receive, Send, Poll, bind, term_endpoint, zmq_getsockopt,
         zmq_setsockopt, Start
<1>3. QED BY <1>1, <1>2, NoProxy

LEMMA StepPassing ==
  ASSUME IInv, PInv, [Next]_vars
  PROVE  PInv'
<1>1. CASE Call BY <1>1, CallPassing
<1>2. CASE Proxy BY <1>2, ProxyPassing
<1>3. ASSUME NEW s \in Socks, PeerSends(s) \/ PeerReads(s) PROVE PInv'
  BY <1>3, PeerSendsPassing, PeerReadsPassing
<1>4. CASE \/ Terminate \/ RawReady \/ Tick \/ ListenerStep
           \/ \E addr \in Addrs : Connection(addr)
           \/ UNCHANGED vars
  BY <1>4, OthersPassing
<1>5. CASE \/ Receive \/ Send \/ Poll \/ bind \/ term_endpoint
           \/ \E o : zmq_getsockopt(o)
           \/ \E o, v : zmq_setsockopt(o, v)
  BY <1>5, ProgramsPassing
<1>6. QED BY <1>1, <1>2, <1>3, <1>4, <1>5 DEF Next

LEMMA StartPassing ==
  ASSUME Init
  PROVE  PInv
<1> DEFINE e == [s \in Sides |-> <<>>]
<1>1. IInv BY InitSound
<1>2. /\ \A s \in Socks : /\ sk[s].in = <<>> /\ sk[s].out = <<>>
                          /\ peer[s].got = <<>> /\ peer[s].sent = 0
      /\ app.pc = "start" /\ Idle
  BY DEF Init, NewSocket, NoCall, Idle
<1>3. Got BY <1>2, EmptySeq DEF Got
<1>4. /\ Sides \subseteq Socks /\ "c" \in Socks
      /\ \A s \in Sides : OtherSide(s) \in Socks /\ plan.msgs[s] \in Nat
      /\ plan.msgs["f"] \in Nat
  BY <1>1, <1>3, ProxyTypes
<1>5. <<>> \o <<>> = <<>> BY ConcatEmptySeq, EmptySeq
<1>6. Captured = <<>> /\ \A s \in Sides : Moved(s) = <<>>
  BY <1>2, <1>4, <1>5 DEF Captured, Moved
<1>7. e \in Hands /\ \A s \in Sides : e[s] = <<>>
  BY EmptySeq DEF Hands
<1> HIDE DEF e
<1>8. Streams(e)
  <2>1. \A s \in Sides : All(s, 0) = <<>> BY <1>4, AllNext
  <2> SUFFICES ASSUME NEW s \in Sides
               PROVE  /\ peer[s].sent <= plan.msgs[s]
                      /\ (Moved(s) \o e[s]) \o sk[s].in
                           = All(s, peer[s].sent)
    BY DEF Streams
  <2>2. s \in Socks /\ peer[s].sent = 0 /\ sk[s].in = <<>> BY <1>2, <1>4
  <2>3. (Moved(s) \o e[s]) \o sk[s].in = <<>> BY <1>5, <1>6, <1>7, <2>2
  <2>4. 0 <= plan.msgs[s] BY <1>4
  <2>5. QED BY <2>1, <2>2, <2>3, <2>4
<1>9. InLoop(e, e) BY <1>2, <1>7 DEF InLoop, InMessage
<1>10. Taped(e)
  <2>1. \A s \in Sides : Tape(e, s) = <<>> BY <1>5, <1>6, <1>7 DEF Tape
  <2>2. Len(Captured) = 0 /\ 1..0 - 1 = {} BY <1>6
  <2>3. \A X : Among(Captured, X) = <<>> BY <1>6, AmongEmpty
  <2>4. QED BY <1>6, <2>1, <2>2, <2>3 DEF Taped, OpenTape
<1>11. QED BY <1>3, <1>7, <1>8, <1>9, <1>10 DEF PInv, Passing

LEMMA PrefixOfConcat ==
  ASSUME NEW q \in Seq(PartSet), NEW r \in Seq(PartSet),
         NEW w, Len(q \o r) <= Len(w), w \in Seq(PartSet),
         \A i \in 1..Len(q \o r) : w[i] = (q \o r)[i]
  PROVE  IsPrefix(q, w) /\ IsPrefix(q, q \o r) /\ IsPrefix(q \o r, w)
<1> DEFINE v == q \o r
<1>1. /\ v \in Seq(PartSet) /\ Len(v) = Len(q) + Len(r)
      /\ \A i \in 1..Len(q) : v[i] = q[i]
      /\ Len(q) \in Nat /\ Len(r) \in Nat /\ Len(w) \in Nat
  OBVIOUS
<1> HIDE DEF v
<1>2. ASSUME NEW x \in Seq(PartSet), NEW y \in Seq(PartSet),
             Len(x) <= Len(y), \A i \in 1..Len(x) : y[i] = x[i]
      PROVE  IsPrefix(x, y)
  <2>1. Len(x) \in Nat /\ Len(y) \in Nat BY <1>2
  <2>2. SubSeq(x, 1, Len(x)) = SubSeq(y, 1, Len(x))
    BY <1>2, <2>1
  <2>3. QED BY <1>2, <2>2 DEF IsPrefix
<1>3. Len(v) <= Len(w) /\ \A i \in 1..Len(v) : w[i] = v[i] BY DEF v
<1>4. \A i \in 1..Len(q) : i \in 1..Len(v) BY <1>1
<1>5. Len(q) <= Len(w) /\ Len(q) <= Len(v) BY <1>1, <1>3
<1>6. QED BY <1>1, <1>2, <1>3, <1>4, <1>5 DEF v

LEMMA PassingFaithful ==
  ASSUME IInv, PInv
  PROVE  ProxyFaithful
<1> SUFFICES ASSUME plan.app = "proxy" PROVE ProxyFaithful
  BY DEF ProxyFaithful, ForwardedInOrder, CaptureIsFaithful
<1>1. PICK held, taped \in Hands : Passing(held, taped) BY DEF PInv
<1>2. Streams(held) /\ InLoop(held, taped) /\ Taped(taped)
  BY <1>1 DEF Passing
<1>3. Got BY DEF PInv
<1>4. ASSUME NEW s \in Sides
      PROVE  LET t == OtherSide(s)
                 q == Moved(t)
             IN /\ IsPrefix(peer[s].got, FromPeer(s))
                /\ IsPrefix(q, q \o taped[t])
                /\ IsPrefix(q \o taped[t], FromPeer(s))
                /\ q = peer[s].got \o sk[s].out /\ OtherSide(t) = s
  <2> DEFINE t == OtherSide(s)
             q == Moved(t)
             n == peer[t].sent
             N == plan.msgs[t]
             u == q \o held[t]
             w == All(t, n)
             W == All(t, N)
  <2>1. /\ t \in Sides /\ OtherSide(t) = s /\ s \in Socks /\ t \in Socks
        /\ q \in Seq(PartSet) /\ n \in Nat /\ N \in Nat
        /\ plan.msgs["f"] \in Nat
        /\ peer[s].got \in Seq(PartSet) /\ sk[s].out \in Seq(PartSet)
        /\ sk[t].in \in Seq(PartSet)
    BY <1>3, ProxyTypes
  <2>2. q = peer[s].got \o sk[s].out BY <2>1 DEF Moved
  <2>3. u \o sk[t].in = w /\ n <= N BY <1>2, <2>1 DEF Streams
  <2>4. held[t] \in Seq(PartSet) /\ taped[t] \in {<<>>, held[t]}
    BY <1>1, <1>2, <2>1 DEF Hands, InLoop
  <2>5. FromPeer(s) = W BY <2>1 DEF FromPeer, All
  <2>6. /\ w \in Seq(PartSet) /\ W \in Seq(PartSet) /\ Len(w) <= Len(W)
        /\ \A i \in 1..Len(w) : W[i] = w[i]
    BY <2>1, <2>3, AllIs, AllGrows
  <2> HIDE DEF w, W, n, N, t, q
  <2>7. u \in Seq(PartSet) BY <2>1, <2>4, ConcatProperties
  <2>8. Len(u) <= Len(W) /\ \A i \in 1..Len(u) : W[i] = u[i]
    <3> HIDE DEF u
    <3>1. Len(w) = Len(u) + Len(sk[t].in)
          /\ \A i \in 1..Len(u) : w[i] = u[i]
      <4> DEFINE v == sk[t].in
      <4>1. v \in Seq(PartSet) /\ u \o v = w BY <2>1, <2>3
      <4> HIDE DEF v
      <4>2. Len(u \o v) = Len(u) + Len(v)
            /\ \A i \in 1..Len(u) : (u \o v)[i] = u[i]
        BY <2>7, <4>1
      <4>3. QED BY <4>1, <4>2 DEF v
    <3>2. Len(u) \in Nat /\ Len(sk[t].in) \in Nat /\ Len(w) \in Nat
          /\ Len(W) \in Nat
      BY <2>1, <2>6, <2>7
    <3>3. Len(u) <= Len(w) BY <3>1, <3>2
    <3>4. \A i \in 1..Len(u) : i \in 1..Len(w) BY <3>2, <3>3
    <3>5. QED BY <2>6, <3>1, <3>2, <3>3, <3>4
  <2>9. IsPrefix(q, W) /\ IsPrefix(q, u) /\ IsPrefix(u, W)
    BY <2>1, <2>4, <2>6, <2>8, PrefixOfConcat
  <2>10. IsPrefix(peer[s].got, W)
    <3>1. Len(q) <= Len(W) /\ \A i \in 1..Len(q) : W[i] = q[i]
      <4>1. Len(u) = Len(q) + Len(held[t])
            /\ \A i \in 1..Len(q) : u[i] = q[i]
        BY <2>1, <2>4
      <4>2. Len(q) \in Nat /\ Len(held[t]) \in Nat BY <2>1, <2>4
      <4> HIDE DEF u
      <4>3. \A i \in 1..Len(q) : i \in 1..Len(u) BY <4>1, <4>2
      <4>4. Len(W) \in Nat /\ Len(u) \in Nat BY <2>6, <2>7
      <4>5. QED BY <2>8, <4>1, <4>2, <4>3, <4>4
    <3>2. QED BY <2>1, <2>2, <2>6, <3>1, PrefixOfConcat
  <2>11. q \o taped[t] \in {q, u} /\ IsPrefix(q, q)
    <3>1. q \o <<>> = q BY <2>1, ConcatEmptySeq
    <3>2. IsPrefix(q, q) BY <2>1 DEF IsPrefix
    <3>3. QED BY <2>4, <3>1, <3>2
  <2>12. QED BY <2>1, <2>2, <2>5, <2>9, <2>10, <2>11 DEF t, q
<1>5. ForwardedInOrder BY <1>4 DEF ForwardedInOrder, Sides
<1>6. ASSUME plan.capture, NEW s \in Sides
      PROVE  LET mine == Among(Captured, ToSet(FromPeer(s)))
                 out  == peer[s].got \o sk[s].out
             IN IsPrefix(out, mine) /\ IsPrefix(mine, FromPeer(s))
  <2> DEFINE t == OtherSide(s)
  <2>1. t \in Sides /\ OtherSide(t) = s BY <1>3, ProxyTypes
  <2>2. Among(Captured, ToSet(FromPeer(s))) = Moved(t) \o taped[t]
    BY <1>2, <1>6, <2>1 DEF Taped, Tape
  <2>3. QED BY <1>4, <2>2
<1>7. CaptureIsFaithful
  BY <1>2, <1>6 DEF CaptureIsFaithful, Taped, Sides
<1>8. QED BY <1>5, <1>7 DEF ProxyFaithful

\* Through zmq_proxy a peer receives the parts of the other peer's messages
\* in order and each once, and the capture socket is given all that was
\* forwarded, message by message, whatever the order in which the two peers
\* send, the pipes fill and the calls wait, fail or take their commands.
THEOREM ProxyIsFaithful == Spec => []ProxyFaithful
<1>1. Init => IInv /\ OInv /\ PInv BY InitSound, StartPassing
<1>2. IInv /\ OInv /\ PInv /\ [Next]_vars => (IInv /\ OInv /\ PInv)'
  BY StepSound, StepPassing
<1>3. IInv /\ OInv /\ PInv => ProxyFaithful BY PassingFaithful
<1>4. QED BY <1>1, <1>2, <1>3, PTL DEF Spec
=============================================================================

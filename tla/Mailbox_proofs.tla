--------------------------- MODULE Mailbox_proofs ---------------------------
(***************************************************************************)
(* A mailbox is safe and implements the queue of CommandQueue for every    *)
(* number of senders and commands, every set of addresses and every size   *)
(* of a chunk.                                                             *)
(*                                                                         *)
(* The argument numbers the items ever pushed: item i is the command       *)
(* written[i + 1], the terminator is item Len(written), and the next item  *)
(* to pop is number Popped.  The invariant says that there are a place     *)
(* for each item from Popped to the one behind the terminator, and numbers *)
(* R and W of the items r and w point to, such that each pointer, chunk    *)
(* and link is where these say.                                            *)
(***************************************************************************)
EXTENDS Mailbox, FiniteSetTheorems, SequenceTheorems, WellFoundedInduction,
        TLAPS

Critical == {"write", "take", "link", "flush", "set", "unlock",
             "unlock_and_signal"}

Popped == Len(received) + (IF rpc = "spare" THEN 1 ELSE 0)

Last == Len(written)

\* The types of the history and of the control states.
HistoryTypes ==
  /\ written \in Seq(Senders \X (1..Commands))
  /\ received \in Seq(Command)
Controls ==
  /\ spc \in [Senders -> Critical \cup {"idle", "signal"}]
  /\ rpc \in {"call", "read", "wait", "read_signalled", "pop", "spare",
              "signaler_recv", "signal_back", "destroy", "freed"}
  /\ build \in {"eventfd", "socketpair"}

\* One sender at a time is between sync.lock () and sync.unlock (), and only
\* there is the end of the queue past its chunk.
Locked ==
  /\ \A s \in Senders : spc[s] \in Critical => sync = s
  /\ \A s \in Senders : spc[s] \in {"take", "link"} => end_pos = N
  /\ end_pos = N => \E s \in Senders : spc[s] \in {"take", "link"}

\* What has been received is the beginning of what was written, and each
\* command is written once.
Histories ==
  /\ Popped <= Last
  /\ \A i \in 1..Len(received) : received[i] = written[i]
  /\ rpc = "spare" => cmd = written[Popped]
  /\ \A i \in 1..Last : \A s \in Senders, k \in 1..Commands :
       written[i] = <<s, k>> =>
         k <= nsent[s] /\ (spc[s] = "write" => k < nsent[s])
  /\ \A i, j \in 1..Last : written[i] = written[j] => i = j
  /\ \A s \in Senders : spc[s] = "write" => nsent[s] >= 1

\* The places of the items: one after the other, from chunk to chunk, and
\* items in one chunk are as far apart as their numbers.
Places(pl) ==
  /\ pl \in [Nat -> Chunk \X (0..N)]
  /\ pl[Popped] = front /\ pl[Last] = back
  /\ pl[Last + 1] = <<end_chunk, end_pos>>
  /\ \A i \in Popped..Last : pl[i][2] < N
  /\ \A i \in Popped..Last :
       IF pl[i][2] + 1 < N THEN pl[i + 1] = <<pl[i][1], pl[i][2] + 1>>
       ELSE \/ pl[i + 1] = <<next[pl[i][1]], 0>>
            \/ i = Last /\ pl[i + 1] = <<pl[i][1], N>>
  /\ \A i, j \in Popped..Last + 1 :
       (i < j /\ pl[i][1] = pl[j][1]) => pl[j][2] = pl[i][2] + (j - i)
  /\ \A i \in Popped..Last - 1 : values[pl[i][1]][pl[i][2]] = written[i + 1]

\* The pointers of ypipe_t: r and w are between the front and the back, c is
\* w, or NULL when the reader has found nothing flushed behind the front.
Pointers(pl, R, W) ==
  /\ R \in Nat /\ W \in Nat
  /\ Popped <= R /\ R <= W /\ W <= Last
  /\ r = pl[R] /\ w = pl[W] /\ f = pl[Last]
  /\ c \in {NULL, w}
  /\ c = NULL => W = Popped
  /\ (c # NULL /\ (~active \/ rpc = "read_signalled")) => W > Popped
  /\ rpc = "pop" => R > Popped
  /\ \A s \in Senders : spc[s] = "set" => c = NULL /\ Last > Popped

\* The chunks of the queue and the loose ones are in use, once each.
Used(pl) == {pl[i][1] : i \in Popped..Last + 1}
Loose == {spare_chunk}
           \cup {taken[s] : s \in {t \in Senders : spc[t] = "link"}}
           \cup (IF rpc = "spare" THEN {left} ELSE {})
Memory(pl) ==
  /\ Loose \cap Used(pl) = {}
  /\ heap = (Used(pl) \cup Loose) \ {NoChunk}
  /\ \A s \in Senders : (spc[s] = "link" /\ taken[s] # NoChunk) =>
       taken[s] # spare_chunk /\ (rpc = "spare" => taken[s] # left)
  /\ rpc = "spare" => left # spare_chunk /\ left # NoChunk

\* The signals the reader has not used: those sent but for the one that woke
\* it, and the one it writes back.
Unused == signals - (IF active \/ rpc = "signaler_recv" THEN 1 ELSE 0)
                  + (IF rpc = "signal_back" THEN 1 ELSE 0)

Signalling == {s \in Senders : spc[s] \in {"unlock_and_signal", "signal"}}

\* The reader sleeps without a signal when c is NULL; once c is set, there is
\* one signal, or one sender that will send it.
Signals ==
  /\ rpc \in {"read", "read_signalled", "pop", "spare"} => active
  /\ rpc \in {"wait", "signaler_recv", "signal_back"} => ~active
  /\ active => c # NULL
  /\ rpc = "signal_back" => c # NULL
  /\ (active \/ c = NULL) => Unused = 0 /\ Signalling = {}
  /\ (~active /\ c # NULL) => \/ Unused = 1 /\ Signalling = {}
                              \/ Unused = 0 /\ \E s \in Senders : Signalling = {s}

\* The reader leaves only after everybody else.
Ending ==
  /\ rpc \in {"destroy", "freed"} => AllReceived
  /\ rpc \notin {"call", "destroy", "freed"} => ~AllReceived
  /\ (rpc \in {"destroy", "freed"} \/ (rpc = "call" /\ ~active /\ AllReceived))
       => \A s \in Senders : spc[s] = "idle"

Inv ==
  /\ TypeOK /\ HistoryTypes /\ Controls
  /\ Locked /\ Histories /\ Signals /\ Ending
  /\ \E pl, R, W : Places(pl) /\ Pointers(pl, R, W) /\ Memory(pl)

-----------------------------------------------------------------------------
(* The constants, the numbers and the places. *)

LEMMA NType == N \in Nat /\ N > 1
BY ChunkAssumption

LEMMA ChunkType == \A a \in Chunk : a \in Nat /\ a # 0
BY ChunkAssumption

LEMMA SenderType ==
  /\ IsFiniteSet(Senders) /\ "reader" \notin Senders /\ "free" \notin Senders
  /\ Commands \in Nat
BY MailboxAssumption

LEMMA LenType == ASSUME NEW S, NEW q \in Seq(S) PROVE Len(q) \in Nat
OBVIOUS

LEMMA Numbers ==
  ASSUME HistoryTypes, Histories
  PROVE  /\ Popped \in Nat /\ Last \in Nat /\ Popped <= Last
         /\ Len(received) \in Nat /\ Last = Len(written)
         /\ Popped = IF rpc = "spare" THEN Len(received) + 1 ELSE Len(received)
<1>1. Len(received) \in Nat /\ Len(written) \in Nat
  BY LenType DEF HistoryTypes
<1>2. Popped <= Last BY DEF Histories
<1>3. QED BY <1>1, <1>2 DEF Popped, Last

LEMMA PlaceType ==
  ASSUME HistoryTypes, Histories, NEW pl, Places(pl)
  PROVE  /\ \A i \in Nat : pl[i] \in Chunk \X (0..N) /\ pl[i] # NULL
         /\ \A i \in Popped..Last : pl[i][1] \in Chunk /\ pl[i][2] \in 0..N-1
<1>1. \A i \in Nat : pl[i] \in Chunk \X (0..N) BY DEF Places
<1>2. \A i \in Nat : pl[i] # NULL BY <1>1, ChunkType DEF NULL, NoChunk
<1>3. \A i \in Popped..Last : i \in Nat /\ pl[i][2] < N
  BY Numbers DEF Places
<1>4. QED BY <1>1, <1>2, <1>3, NType

\* No two items have the same place.
LEMMA PlacesDiffer ==
  ASSUME HistoryTypes, Histories, NEW pl, Places(pl),
         NEW i \in Popped..Last + 1, NEW j \in Popped..Last + 1, pl[i] = pl[j]
  PROVE  i = j
<1>1. i \in Nat /\ j \in Nat BY Numbers
<1>2. pl[i] \in Chunk \X (0..N) BY <1>1 DEF Places
<1>3. pl[i][2] \in Nat BY <1>2, NType
<1>4. (i < j => pl[j][2] = pl[i][2] + (j - i)) /\ (j < i => pl[i][2] = pl[j][2] + (i - j))
  BY DEF Places
<1>5. QED BY <1>1, <1>3, <1>4

\* The senders have no more commands once the reader has received them all: the
\* commands written are as many as there are, and each is there once.
LEMMA AllSent ==
  ASSUME TypeOK, HistoryTypes, Histories, AllReceived
  PROVE  \A s \in Senders : nsent[s] = Commands /\ spc[s] # "write"
<1> DEFINE n == Len(received)
           T == Senders \X (1..Commands)
           g == [i \in 1..n |-> written[i]]
<1>1. n \in Nat /\ n <= Len(written)
  BY Numbers
<1>2. \A i \in 1..n : i \in 1..Len(written) /\ written[i] \in T
  BY <1>1 DEF HistoryTypes
<1>3. IsFiniteSet(T) /\ Cardinality(T) = n
  <2>1. IsFiniteSet(1..Commands) /\ Cardinality(1..Commands) = Commands
    BY FS_Interval, SenderType
  <2>2. Cardinality(Senders) \in Nat
    BY FS_CardinalityType, SenderType
  <2>3. IsFiniteSet(T) /\ Cardinality(T) = Cardinality(Senders) * Commands
    BY <2>1, FS_Product, SenderType
  <2>4. n = Commands * Cardinality(Senders) BY DEF AllReceived
  <2>5. QED BY <2>2, <2>3, <2>4, SenderType
<1>4. IsFiniteSet(1..n) /\ Cardinality(1..n) = n
  <2> HIDE DEF n
  <2>1. 1 \in Int /\ n \in Int BY <1>1
  <2>2. IsFiniteSet(1..n) /\ Cardinality(1..n) = IF 1 > n THEN 0 ELSE n - 1 + 1
    BY <2>1, FS_Interval
  <2>3. QED BY <2>2, <1>1
<1>5. g \in Injection(1..n, T)
  <2>1. g \in [1..n -> T] BY <1>2
  <2>2. \A i, j \in 1..n : g[i] = g[j] => i = j
    BY <1>2 DEF Histories, Last
  <2>3. QED BY <2>1, <2>2 DEF Injection, IsInjective
<1>6. g \in Surjection(1..n, T)
  <2>1. Cardinality(1..n) = Cardinality(T) BY <1>3, <1>4
  <2> HIDE DEF g, n, T
  <2>2. QED BY <1>3, <1>5, <2>1, FS_Injection
<1>7. \A x \in T : \E i \in 1..Last : written[i] = x
  BY <1>2, <1>6 DEF Surjection, Last
<1>8. TAKE s \in Senders
<1>9. nsent[s] \in 0..Commands BY DEF TypeOK
<1>10. spc[s] = "write" => nsent[s] >= 1 BY DEF Histories
<1>11. CASE Commands = 0 BY <1>9, <1>10, <1>11
<1>12. CASE Commands > 0
  <2>1. <<s, Commands>> \in T BY <1>12, SenderType
  <2>2. PICK i \in 1..Last : written[i] = <<s, Commands>> BY <1>7, <2>1
  <2>3. Commands \in 1..Commands BY <1>12, SenderType
  <2>4. Commands <= nsent[s] /\ (spc[s] = "write" => Commands < nsent[s])
    BY <2>2, <2>3 DEF Histories
  <2>5. QED BY <2>4, <1>9, SenderType
<1>13. QED BY <1>11, <1>12, SenderType

-----------------------------------------------------------------------------
(* What a step that leaves the queue or the pointers alone preserves. *)

LEMMA PlacesFrame ==
  ASSUME NEW pl, Places(pl), UNCHANGED <<qvars, written>>, Popped' = Popped
  PROVE  Places(pl)'
BY DEF Places, qvars, readerSide, writerSide, Last, front, back

LEMMA HistoriesFrame ==
  ASSUME Histories, UNCHANGED <<written, received, cmd, nsent>>,
         (rpc = "spare") <=> (rpc' = "spare"),
         \A s \in Senders : spc'[s] = "write" => spc[s] = "write"
  PROVE  Histories' /\ Popped' = Popped /\ Last' = Last
BY DEF Histories, Popped, Last

LEMMA MemoryFrame ==
  ASSUME NEW pl, Memory(pl), UNCHANGED <<spare_chunk, heap, written, taken, left>>,
         Popped' = Popped, (rpc = "spare") <=> (rpc' = "spare"),
         \A s \in Senders : spc[s] = "link" <=> spc'[s] = "link"
  PROVE  Memory(pl)'
<1>1. Used(pl)' = Used(pl) BY DEF Used, Last
<1>2. Loose' = Loose BY DEF Loose
<1>3. QED BY <1>1, <1>2 DEF Memory

\* The signals a sender has still to send do not change.
LEMMA SignallingFrame ==
  ASSUME \A s \in Senders : spc'[s] \in {"unlock_and_signal", "signal"}
                              <=> spc[s] \in {"unlock_and_signal", "signal"}
  PROVE  Signalling' = Signalling
BY DEF Signalling

-----------------------------------------------------------------------------
(* The steps of a sender. *)

LEMMA AppendFacts ==
  ASSUME NEW S, NEW q \in Seq(S), NEW x \in S
  PROVE  /\ Append(q, x) \in Seq(S) /\ Len(Append(q, x)) = Len(q) + 1
         /\ \A i \in 1..Len(q) : Append(q, x)[i] = q[i]
         /\ Append(q, x)[Len(q) + 1] = x
OBVIOUS

\* A sender in the critical section that is not about to link a chunk finds
\* room at the end of the queue.
LEMMA Room ==
  ASSUME TypeOK, Locked, NEW s \in Senders,
         spc[s] \in Critical \ {"take", "link"}
  PROVE  end_pos \in 0..N - 1
<1>1. end_pos \in 0..N BY DEF TypeOK
<1>2. end_pos # N BY DEF Locked, Critical
<1>3. QED BY <1>1, <1>2, NType

LEMMA LockStep ==
  ASSUME Inv, NEW s \in Senders, Lock(s)
  PROVE  Inv'
<1> USE DEF Lock, Goto, qvars, readerSide, writerSide, pvars, svars, reader
<1>1. TypeOK'
  BY SenderType DEF Inv, TypeOK
<1>2. HistoryTypes' /\ Controls'
  BY DEF Inv, HistoryTypes, Controls, Critical, Command
<1>3. Locked'
  BY SenderType DEF Inv, Locked, Critical, Controls
<1>4. Histories'
  <2>1. /\ UNCHANGED <<written, received, cmd, rpc>>
        /\ Popped' = Popped /\ Last' = Last
    BY DEF Popped, Last
  <2>2. \A t \in Senders :
          /\ nsent[t] \in Nat /\ nsent'[t] = nsent[t] + (IF t = s THEN 1 ELSE 0)
          /\ spc'[t] = "write" => t = s \/ spc[t] = "write"
    BY DEF Inv, TypeOK, Controls
  <2> HIDE DEF Lock, Goto, qvars, readerSide, writerSide, pvars, svars, reader
  <2>3. \A i \in 1..Last : \A t \in Senders, k \in 1..Commands :
          written[i] = <<t, k>> =>
            k <= nsent'[t] /\ (spc'[t] = "write" => k < nsent'[t])
    <3> SUFFICES ASSUME NEW i \in 1..Last, NEW t \in Senders,
                        NEW k \in 1..Commands, written[i] = <<t, k>>
                 PROVE  k <= nsent'[t] /\ (spc'[t] = "write" => k < nsent'[t])
      OBVIOUS
    <3>1. k <= nsent[t] /\ (spc[t] = "write" => k < nsent[t])
      BY DEF Inv, Histories
    <3>2. k \in Int BY SenderType
    <3>3. QED BY <2>2, <3>1, <3>2
  <2>4. \A t \in Senders : spc'[t] = "write" => nsent'[t] >= 1
    BY <2>2 DEF Inv, Histories
  <2>5. QED BY <2>1, <2>3, <2>4 DEF Inv, Histories
<1>5. Signals'
  BY SignallingFrame DEF Inv, Signals, Unused, Controls
<1>6. Ending'
  <2>1. nsent[s] \in Nat BY DEF Inv, TypeOK
  <2>2. ~AllReceived BY <2>1, AllSent, SenderType DEF Inv
  <2>3. QED BY <2>2 DEF Inv, Ending, AllReceived, Controls
<1>7. ASSUME NEW pl, NEW R, NEW W, Places(pl), Pointers(pl, R, W), Memory(pl)
      PROVE  Places(pl)' /\ Pointers(pl, R, W)' /\ Memory(pl)'
  <2>1. Popped' = Popped BY DEF Popped
  <2>2. QED BY <1>7, <2>1, PlacesFrame, MemoryFrame DEF Pointers, Inv, Controls, Last
<1>8. QED BY <1>1, <1>2, <1>3, <1>4, <1>5, <1>6, <1>7 DEF Inv

LEMMA WriteStep ==
  ASSUME Inv, NEW s \in Senders, Write(s)
  PROVE  Inv'
<1> USE DEF Write, write, push, Goto, readerSide, svars, reader
<1> DEFINE command == <<s, nsent[s]>>
<1>0. /\ end_pos \in 0..N - 1 /\ command \in Senders \X (1..Commands)
      /\ command \in Command
  <2>1. end_pos \in 0..N - 1 BY Room DEF Inv, Critical
  <2>2. nsent[s] \in 0..Commands /\ nsent[s] >= 1 BY DEF Inv, TypeOK, Histories
  <2>3. command \in Senders \X (1..Commands) BY <2>2, SenderType
  <2>4. QED BY <2>1, <2>3 DEF Command
<1>10. Last \in Nat /\ Last' = Last + 1 /\ Popped' = Popped /\ Popped \in Nat
       /\ Popped <= Last
  <2>1. Popped' = Popped BY DEF Popped
  <2>2. Len(written') = Len(written) + 1
    BY <1>0, AppendFacts DEF Inv, HistoryTypes
  <2>3. QED BY <2>1, <2>2, Numbers DEF Last, Inv
<1>12. /\ \A i \in 1..Last : written'[i] = written[i]
       /\ written'[Last + 1] = command
       /\ written' \in Seq(Senders \X (1..Commands))
  BY <1>0, AppendFacts DEF Inv, HistoryTypes, Last
<1>11. /\ spc[s] = "write"
       /\ values' = [values EXCEPT ![back_chunk][back_pos] = command]
       /\ back_chunk' = end_chunk /\ back_pos' = end_pos /\ end_pos' = end_pos + 1
       /\ f' = <<end_chunk, end_pos>>
       /\ UNCHANGED <<begin_chunk, begin_pos, end_chunk, spare_chunk, next, prev,
                      heap, w, r, c, signals, nsent, taken, sync, active, left,
                      cmd, received, rpc>>
       /\ \A t \in Senders : t # s => spc'[t] = spc[t]
       /\ spc'[s] \in {"take", "flush"}
  <2>1. spc[s] = "write" /\ spc \in [Senders -> Critical \cup {"idle", "signal"}]
    BY DEF Inv, Controls
  <2>2. spc'[s] \in {"take", "flush"} /\ \A t \in Senders : t # s => spc'[t] = spc[t]
    BY <2>1
  <2>3. /\ values' = [values EXCEPT ![back_chunk][back_pos] = command]
        /\ back_chunk' = end_chunk /\ back_pos' = end_pos /\ end_pos' = end_pos + 1
        /\ f' = <<end_chunk, end_pos>>
    OBVIOUS
  <2>4. UNCHANGED <<begin_chunk, begin_pos, end_chunk, spare_chunk, next, prev,
                    heap, w, r, c, signals, nsent, taken, sync, active, left,
                    cmd, received, rpc>>
    OBVIOUS
  <2> HIDE DEF Write, write, push, Goto, readerSide, svars, reader
  <2>5. QED BY <2>1, <2>2, <2>3, <2>4
<1>1. TypeOK'
  <2> HIDE DEF Write, write, push, Goto, readerSide, svars, reader
  <2>1. back_chunk \in Chunk /\ back_pos \in 0..N - 1 /\ end_chunk \in Chunk
    BY DEF Inv, TypeOK
  <2>2. values' \in [Chunk -> [0..N - 1 -> Command]]
    BY <1>0, <1>11, <2>1 DEF Inv, TypeOK
  <2>3. f' \in Place BY <1>0, <1>11, <2>1 DEF Place
  <2>4. end_pos' \in 0..N BY <1>0, <1>11, NType
  <2>5. QED BY <1>0, <1>11, <2>1, <2>2, <2>3, <2>4 DEF Inv, TypeOK
<1>2. HistoryTypes' /\ Controls'
  BY <1>12 DEF Inv, HistoryTypes, Controls, Critical, Command
<1>3. Locked'
  BY SenderType DEF Inv, Locked, Critical, Controls
<1>4. Histories'
  <2> HIDE DEF Write, write, push, Goto, readerSide, svars, reader
  <2>1. \A i \in 1..Last' : i \in 1..Last \/ i = Last + 1 BY <1>10
  <2>2. \A i \in 1..Last : written[i] # command
    <3>1. nsent[s] \in 1..Commands BY <1>0
    <3>2. QED BY <3>1, <1>11 DEF Inv, Histories
  <2>3. \A i, j \in 1..Last' : written'[i] = written'[j] => i = j
    <3>1. \A i, j \in 1..Last : written[i] = written[j] => i = j
      BY DEF Inv, Histories
    <3>2. QED BY <1>12, <2>1, <2>2, <3>1
  <2>4. \A i \in 1..Last' : \A t \in Senders, k \in 1..Commands :
          written'[i] = <<t, k>> =>
            k <= nsent'[t] /\ (spc'[t] = "write" => k < nsent'[t])
    <3>1. TAKE i \in 1..Last'
    <3>2. TAKE t \in Senders, k \in 1..Commands
    <3>3. spc'[s] # "write" /\ (spc'[t] = "write" => spc[t] = "write")
      BY <1>11
    <3>4. nsent[t] \in 0..Commands BY DEF Inv, TypeOK
    <3>5. CASE i \in 1..Last BY <1>10, <1>12, <1>11, <3>3, <3>5 DEF Inv, Histories
    <3>6. CASE i = Last + 1 BY <1>10, <1>12, <3>3, <1>11, <3>4, <3>6
    <3>7. QED BY <2>1, <3>5, <3>6
  <2>5. \A i \in 1..Len(received) : received'[i] = written'[i]
    <3>1. Len(received) <= Last BY Numbers DEF Inv
    <3>2. Len(received) \in Nat BY Numbers DEF Inv
    <3>3. QED BY <1>10, <1>12, <1>11, <3>1, <3>2 DEF Inv, Histories
  <2>6. rpc = "spare" => cmd = written'[Popped]
    <3>1. rpc = "spare" => Popped \in 1..Last BY <1>10, Numbers DEF Inv
    <3>2. QED BY <1>10, <1>12, <3>1 DEF Inv, Histories
  <2>7. \A t \in Senders : spc'[t] = "write" => nsent'[t] >= 1
    BY <1>11 DEF Inv, Histories
  <2>8. Popped' <= Last' BY <1>10
  <2>9. QED BY <1>10, <1>11, <2>3, <2>4, <2>5, <2>6, <2>7, <2>8 DEF Histories
<1>5. Signals'
  BY SignallingFrame DEF Inv, Signals, Unused, Controls
<1>6. Ending'
  BY DEF Inv, Ending, AllReceived, Controls
<1>7. ASSUME NEW pl, NEW R, NEW W, Places(pl), Pointers(pl, R, W), Memory(pl)
      PROVE  \E q : Places(q)' /\ Pointers(q, R, W)' /\ Memory(q)'
  <2> HIDE DEF Write, write, push, Goto, readerSide, svars, reader
  <2>1. PICK q : q = [pl EXCEPT ![Last + 2] = <<end_chunk, end_pos + 1>>]
    OBVIOUS
  <2>2. end_chunk \in Chunk BY DEF Inv, TypeOK
  <2>3. q \in [Nat -> Chunk \X (0..N)]
    <3>1. <<end_chunk, end_pos + 1>> \in Chunk \X (0..N) BY <1>0, <2>2, NType
    <3>2. QED BY <1>7, <2>1, <3>1 DEF Places
  <2>4. /\ q[Last + 2] = <<end_chunk, end_pos + 1>>
        /\ \A i \in Popped..Last + 1 : q[i] = pl[i]
    <3>1. Last + 2 \in Nat /\ \A i \in Popped..Last + 1 : i \in Nat /\ i # Last + 2
      BY <1>10
    <3>2. pl \in [Nat -> Chunk \X (0..N)] BY <1>7 DEF Places
    <3>3. QED BY <2>1, <3>1, <3>2
  <2>5. /\ q[Last + 1] = <<end_chunk, end_pos>> /\ pl[Last] = back
        /\ Last \in Popped..Last + 1 /\ Last + 1 \in Popped..Last + 1
    <3>1. Last \in Popped..Last + 1 /\ Last + 1 \in Popped..Last + 1 BY <1>10
    <3>2. QED BY <1>7, <2>4, <3>1 DEF Places
  <2>6. Places(q)'
    <3>1. \A i \in Popped..Last + 2 : i \in Popped..Last + 1 \/ i = Last + 2
      BY <1>10
    <3>2. q[Popped'] = front' /\ q[Last'] = back'
          /\ q[Last' + 1] = <<end_chunk', end_pos'>>
      <4>1. Popped \in Popped..Last + 1 BY <1>10
      <4>2. q[Popped] = front BY <1>7, <2>4, <4>1 DEF Places
      <4>3. Last' + 1 = Last + 2 BY <1>10
      <4>4. QED BY <1>10, <1>11, <2>4, <2>5, <4>2, <4>3 DEF front, back
    <3>3. \A i \in Popped..Last + 1 : q[i][2] < N
      <4>1. \A i \in Popped..Last + 1 : i \in Popped..Last \/ i = Last + 1 BY <1>10
      <4>2. \A i \in Popped..Last : pl[i][2] < N BY <1>7 DEF Places
      <4>3. q[Last + 1][2] < N BY <1>0, <2>5, NType
      <4>4. QED BY <2>4, <4>1, <4>2, <4>3
    <3>4. \A i \in Popped..Last + 1 :
            IF q[i][2] + 1 < N THEN q[i + 1] = <<q[i][1], q[i][2] + 1>>
            ELSE \/ q[i + 1] = <<next[q[i][1]], 0>>
                 \/ i = Last + 1 /\ q[i + 1] = <<q[i][1], N>>
      <4>1. TAKE i \in Popped..Last + 1
      <4>2. CASE i \in Popped..Last
        <5>1. i + 1 \in Popped..Last + 1 /\ i \in Popped..Last + 1 BY <1>10, <4>2
        <5>2. q[i] = pl[i] /\ q[i + 1] = pl[i + 1] BY <2>4, <5>1
        <5>3. i = Last => pl[i + 1] # <<pl[i][1], N>> BY <1>0, <2>4, <2>5, NType
        <5>4. QED BY <1>7, <4>2, <5>2, <5>3 DEF Places
      <4>3. CASE i = Last + 1 BY <1>0, <1>10, <2>4, <2>5, <4>3, NType
      <4>4. QED BY <1>10, <4>2, <4>3
    <3>5. \A i, j \in Popped..Last + 2 :
            (i < j /\ q[i][1] = q[j][1]) => q[j][2] = q[i][2] + (j - i)
      <4>1. SUFFICES ASSUME NEW i \in Popped..Last + 2, NEW j \in Popped..Last + 2,
                            i < j, q[i][1] = q[j][1]
                     PROVE  q[j][2] = q[i][2] + (j - i)
        OBVIOUS
      <4>2. i \in Popped..Last + 1 /\ q[i] = pl[i] BY <1>10, <2>4, <4>1
      <4>3. CASE j \in Popped..Last + 1
        BY <1>7, <2>4, <4>1, <4>2, <4>3 DEF Places
      <4>4. CASE j = Last + 2
        <5>1. i = Last + 1 \/ pl[Last + 1][2] = pl[i][2] + (Last + 1 - i)
          <6>1. pl[i][1] = pl[Last + 1][1] BY <2>4, <2>5, <4>1, <4>2, <4>4
          <6>2. i < Last + 1 \/ i = Last + 1 BY <1>10, <4>2
          <6>3. QED BY <1>7, <2>5, <4>2, <6>1, <6>2 DEF Places
        <5>2. pl[Last + 1][2] = end_pos BY <2>4, <2>5
        <5>3. pl[i][2] \in Nat /\ end_pos \in Nat /\ i \in Nat
          BY <1>0, <1>7, <1>10, <4>2, NType DEF Places
        <5>4. q[j][2] = end_pos + 1 BY <2>4, <4>4
        <5>5. CASE i = Last + 1 BY <1>10, <4>2, <4>4, <5>2, <5>3, <5>4, <5>5
        <5>6. CASE pl[Last + 1][2] = pl[i][2] + (Last + 1 - i)
          BY <1>10, <4>2, <4>4, <5>2, <5>3, <5>4, <5>6
        <5>7. QED BY <5>1, <5>5, <5>6
      <4>5. QED BY <3>1, <4>3, <4>4
    <3>6. \A i \in Popped..Last : values'[q[i][1]][q[i][2]] = written'[i + 1]
      <4>1. TAKE i \in Popped..Last
      <4>2. i \in Popped..Last + 1 /\ q[i] = pl[i] /\ i \in Nat BY <1>10, <2>4
      <4>3. pl[i][1] \in Chunk /\ pl[i][2] \in 0..N - 1
            /\ pl[i] = <<pl[i][1], pl[i][2]>>
        BY <1>7, <4>2, PlaceType DEF Inv
      <4>4. values \in [Chunk -> [0..N - 1 -> Command]] BY DEF Inv, TypeOK
      <4>5. CASE i = Last
        <5>1. back_chunk \in Chunk /\ back_pos \in 0..N - 1 BY DEF Inv, TypeOK
        <5>2. values'[back_chunk][back_pos] = command BY <1>11, <4>4, <5>1
        <5>3. q[i] = <<back_chunk, back_pos>> BY <2>5, <4>2, <4>5 DEF back
        <5>4. q[i][1] = back_chunk /\ q[i][2] = back_pos BY <5>3
        <5>5. written'[i + 1] = command BY <1>12, <4>5
        <5>6. QED BY <5>2, <5>4, <5>5
      <4>6. CASE i \in Popped..Last - 1
        <5>1. pl[i] # back
          BY <1>7, <1>10, <2>5, <4>2, <4>6, PlacesDiffer DEF Inv
        <5>2. values'[pl[i][1]][pl[i][2]] = values[pl[i][1]][pl[i][2]]
          BY <1>11, <4>3, <4>4, <5>1 DEF back
        <5>3. i + 1 \in 1..Last BY <1>10, <4>6
        <5>4. QED BY <1>7, <1>12, <4>2, <4>6, <5>2, <5>3 DEF Places
      <4>7. QED BY <1>10, <4>5, <4>6
    <3>7. /\ Popped' = Popped /\ Last' = Last + 1 /\ next' = next
          /\ Last' + 1 = Last + 2 /\ Last' - 1 = Last
      BY <1>10, <1>11
    <3>8. \A i \in Popped'..Last' : q[i][2] < N BY <3>3, <3>7
    <3>9. \A i \in Popped'..Last' :
            IF q[i][2] + 1 < N THEN q[i + 1] = <<q[i][1], q[i][2] + 1>>
            ELSE \/ q[i + 1] = <<next'[q[i][1]], 0>>
                 \/ i = Last' /\ q[i + 1] = <<q[i][1], N>>
      BY <3>4, <3>7
    <3>10. \A i, j \in Popped'..Last' + 1 :
             (i < j /\ q[i][1] = q[j][1]) => q[j][2] = q[i][2] + (j - i)
      BY <3>5, <3>7
    <3>11. \A i \in Popped'..Last' - 1 :
             values'[q[i][1]][q[i][2]] = written'[i + 1]
      BY <3>6, <3>7
    <3>12. QED BY <2>3, <3>2, <3>8, <3>9, <3>10, <3>11 DEF Places
  <2>7. Pointers(q, R, W)'
    BY <1>7, <1>10, <1>11, <2>4, <2>5 DEF Pointers
  <2>8. Memory(q)'
    <3>1. Used(q)' = Used(pl)
      <4>1. \A i \in Popped..Last + 2 : i \in Popped..Last + 1 \/ i = Last + 2
        BY <1>10
      <4>2. q[Last + 2][1] = pl[Last + 1][1] BY <2>4, <2>5
      <4>3. {q[i][1] : i \in Popped..Last + 2} = {pl[i][1] : i \in Popped..Last + 1}
        <5>1. \A i \in Popped..Last + 2 : \E j \in Popped..Last + 1 : q[i][1] = pl[j][1]
          BY <2>4, <2>5, <4>1, <4>2
        <5>2. \A i \in Popped..Last + 1 : i \in Popped..Last + 2 BY <1>10
        <5>3. \A i \in Popped..Last + 1 : q[i][1] = pl[i][1] BY <2>4
        <5> DEFINE A == {q[i][1] : i \in Popped..Last + 2}
                   B == {pl[i][1] : i \in Popped..Last + 1}
        <5>4. A \subseteq B BY <5>1
        <5>5. B \subseteq A BY <5>2, <5>3
        <5> HIDE DEF A, B
        <5>6. A = B BY <5>4, <5>5
        <5>7. QED BY <5>6 DEF A, B
      <4>4. Last' + 1 = Last + 2 BY <1>10
      <4>5. QED BY <1>10, <4>3, <4>4 DEF Used
    <3>2. Loose' = Loose BY <1>11 DEF Loose
    <3>3. QED BY <1>7, <1>11, <3>1, <3>2 DEF Memory
  <2>9. QED BY <2>6, <2>7, <2>8
<1>8. QED BY <1>1, <1>2, <1>3, <1>4, <1>5, <1>6, <1>7 DEF Inv

LEMMA TakeStep ==
  ASSUME Inv, NEW s \in Senders, Take(s)
  PROVE  Inv'
<1> USE DEF Take, TakeSpare, Xchg, Goto, readerSide, writerSide, pvars, svars, reader
<1>1. TypeOK'
  BY SenderType DEF Inv, TypeOK
<1>2. HistoryTypes' /\ Controls'
  BY DEF Inv, HistoryTypes, Controls, Critical, Command
<1>3. Locked'
  BY SenderType DEF Inv, Locked, Critical, Controls
<1>4. Histories'
  BY HistoriesFrame DEF Inv, Controls
<1>5. Signals'
  BY SignallingFrame DEF Inv, Signals, Unused, Controls
<1>6. Ending'
  BY DEF Inv, Ending, AllReceived, Controls
<1>7. ASSUME NEW pl, NEW R, NEW W, Places(pl), Pointers(pl, R, W), Memory(pl)
      PROVE  Places(pl)' /\ Pointers(pl, R, W)' /\ Memory(pl)'
  <2>1. Popped' = Popped BY DEF Popped
  <2>2. Places(pl)' BY <1>7, <2>1 DEF Places, Last, front, back
  <2>3. Pointers(pl, R, W)' BY <1>7, <2>1 DEF Pointers, Inv, Controls, Last
  <2>4. Memory(pl)'
    <3>1. \A t \in Senders : spc[t] # "link" /\ (spc'[t] = "link" <=> t = s)
      BY DEF Inv, Locked, Critical, Controls
    <3>2. taken'[s] = spare_chunk /\ spare_chunk' = NoChunk /\ left' = left
          /\ rpc' = rpc /\ heap' = heap
      BY DEF Inv, TypeOK
    <3> HIDE DEF Take, TakeSpare, Xchg, Goto, readerSide, writerSide, pvars, svars,
                 reader
    <3>3. Used(pl)' = Used(pl) BY <2>1 DEF Used, Last, Take, pvars
    <3>4. NoChunk \notin Used(pl)
      <4>1. \A i \in Popped..Last + 1 : i \in Nat BY Numbers DEF Inv
      <4>2. \A i \in Popped..Last + 1 : pl[i] \in Chunk \X (0..N)
        BY <1>7, <4>1 DEF Places
      <4>3. QED BY <4>2, ChunkType DEF Used, NoChunk
    <3>5. Loose' = Loose \cup {NoChunk} BY <3>1, <3>2 DEF Loose
    <3>6. QED BY <1>7, <3>1, <3>2, <3>3, <3>4, <3>5 DEF Memory
  <2>5. QED BY <2>2, <2>3, <2>4
<1>8. QED BY <1>1, <1>2, <1>3, <1>4, <1>5, <1>6, <1>7 DEF Inv

LEMMA LinkStep ==
  ASSUME Inv, NEW s \in Senders, Link(s)
  PROVE  Inv'
<1> USE DEF Link, LinkChunk, Goto, readerSide, pvars, svars, reader
<1>0. PICK a \in (IF taken[s] # NoChunk THEN {taken[s]} ELSE Chunk \ heap) :
        /\ heap' = heap \cup {a} /\ next' = [next EXCEPT ![end_chunk] = a]
        /\ prev' = [prev EXCEPT ![a] = end_chunk]
        /\ end_chunk' = a /\ end_pos' = 0
        /\ UNCHANGED <<readerSide, back_chunk, back_pos, spare_chunk, values>>
  OBVIOUS
<1>9. a \in Chunk /\ end_chunk \in Chunk /\ end_pos = N
  BY <1>0 DEF Inv, TypeOK, Locked, NoChunk
<1>10. /\ \A t \in Senders : spc[t] \in {"take", "link"} <=> t = s
       /\ \A t \in Senders : spc'[t] \notin {"take", "link"}
  BY DEF Inv, Locked, Critical, Controls
<1>11. UNCHANGED <<begin_chunk, begin_pos, back_chunk, back_pos, spare_chunk, values,
                   pvars, svars, nsent, taken, sync, rpc, active, left, cmd,
                   received, written>>
  BY <1>0
<1>12. spc[s] = "link" OBVIOUS
<1>13. ASSUME NEW pl, Memory(pl)
       PROVE  a \notin Used(pl) /\ a # spare_chunk /\ (rpc = "spare" => a # left)
  <2> HIDE DEF Link, LinkChunk, Goto, readerSide, reader
  <2>1. CASE taken[s] # NoChunk
    <3>1. a = taken[s] /\ taken[s] \in Loose BY <1>0, <1>12, <2>1 DEF Loose
    <3>2. QED BY <1>12, <1>13, <2>1, <3>1 DEF Memory
  <2>2. CASE taken[s] = NoChunk
    <3>1. a \in Chunk /\ a \notin heap BY <1>0, <2>2
    <3>2. a # NoChunk BY <3>1, ChunkType DEF NoChunk
    <3>3. a \notin Used(pl) /\ a \notin Loose BY <1>13, <3>1, <3>2 DEF Memory
    <3>4. QED BY <3>3 DEF Loose
  <2>3. QED BY <2>1, <2>2
<1>1. TypeOK'
  <2> HIDE DEF Link, LinkChunk, Goto, readerSide, reader
  <2>1. next' \in [Chunk -> Chunk \cup {NoChunk}] /\ prev' \in [Chunk -> Chunk \cup {NoChunk}]
    BY <1>0, <1>9 DEF Inv, TypeOK
  <2>2. end_pos' \in 0..N /\ end_chunk' \in Chunk /\ heap' \subseteq Chunk
    BY <1>0, <1>9, NType DEF Inv, TypeOK
  <2>3. QED BY <1>11, <2>1, <2>2 DEF Inv, TypeOK
<1>2. HistoryTypes' /\ Controls'
  BY DEF Inv, HistoryTypes, Controls, Critical, Command
<1>3. Locked'
  <2>1. end_pos' # N BY <1>0, NType
  <2>2. \A t \in Senders : spc'[t] \in Critical => sync' = t
    BY DEF Inv, Locked, Critical, Controls
  <2>3. QED BY <1>10, <2>1, <2>2 DEF Locked
<1>4. Histories'
  BY HistoriesFrame DEF Inv, Controls
<1>5. Signals'
  BY SignallingFrame DEF Inv, Signals, Unused, Controls
<1>6. Ending'
  BY DEF Inv, Ending, AllReceived, Controls
<1>7. ASSUME NEW pl, NEW R, NEW W, Places(pl), Pointers(pl, R, W), Memory(pl)
      PROVE  \E q : Places(q)' /\ Pointers(q, R, W)' /\ Memory(q)'
  <2> HIDE DEF Link, LinkChunk, Goto, readerSide, reader
  <2>1. PICK q : q = [pl EXCEPT ![Last + 1] = <<a, 0>>]
    OBVIOUS
  <2>2. /\ Last \in Nat /\ Last' = Last /\ Popped' = Popped /\ Popped \in Nat
        /\ Popped <= Last
    BY <1>11, Numbers DEF Inv, Popped, Last
  <2>3. pl \in [Nat -> Chunk \X (0..N)] BY <1>7 DEF Places
  <2>4. q \in [Nat -> Chunk \X (0..N)]
    <3>1. <<a, 0>> \in Chunk \X (0..N) BY <1>9, NType
    <3>2. QED BY <2>1, <2>3, <3>1
  <2>5. /\ q[Last + 1] = <<a, 0>>
        /\ \A i \in Popped..Last : q[i] = pl[i] /\ i \in Nat /\ i \in Popped..Last + 1
    BY <2>1, <2>2, <2>3
  <2>6. \A i \in Popped..Last + 1 : i \in Popped..Last \/ i = Last + 1
    BY <2>2
  <2>7. Last \in Popped..Last /\ Last + 1 \in Popped..Last + 1 BY <2>2
  <2>8. pl[Last] = <<end_chunk, N - 1>> /\ pl[Last + 1] = <<end_chunk, N>>
    <3>1. pl[Last + 1] = <<end_chunk, N>> BY <1>7, <1>9 DEF Places
    <3>2. pl[Last] \in Chunk \X (0..N) /\ pl[Last][2] < N BY <1>7, <2>2, <2>3, <2>7 DEF Places
    <3>3. pl[Last][2] + 1 = N /\ pl[Last][1] = end_chunk
      BY <1>7, <2>7, <3>1, <3>2, NType DEF Places
    <3>4. QED BY <3>1, <3>2, <3>3, NType
  <2>9. \A i \in Popped..Last + 1 : pl[i][1] # a
    BY <1>13, <1>7 DEF Used
  <2>10. Places(q)'
    <3>1. q[Popped] = front' /\ q[Last] = back'
      <4>1. Popped \in Popped..Last BY <2>2
      <4>2. pl[Popped] = front /\ pl[Last] = back BY <1>7 DEF Places
      <4>3. QED BY <1>11, <2>5, <2>7, <4>1, <4>2 DEF front, back
    <3>2. q[Last + 1] = <<end_chunk', end_pos'>> BY <1>0, <2>5
    <3>3. \A i \in Popped..Last : q[i][2] < N BY <1>7, <2>5 DEF Places
    <3>4. \A i \in Popped..Last :
            IF q[i][2] + 1 < N THEN q[i + 1] = <<q[i][1], q[i][2] + 1>>
            ELSE \/ q[i + 1] = <<next'[q[i][1]], 0>>
                 \/ i = Last /\ q[i + 1] = <<q[i][1], N>>
      <4>1. TAKE i \in Popped..Last
      <4>2. CASE i = Last
        <5>1. next'[end_chunk] = a BY <1>0, <1>9 DEF Inv, TypeOK
        <5>2. q[i] = <<end_chunk, N - 1>> BY <2>5, <2>8, <4>2
        <5>3. QED BY <2>5, <4>2, <5>1, <5>2, NType
      <4>3. CASE i # Last
        <5>1. i + 1 \in Popped..Last /\ i < Last BY <2>2, <4>3
        <5>2. q[i] = pl[i] /\ q[i + 1] = pl[i + 1] BY <2>5, <5>1
        <5>3. pl[i] \in Chunk \X (0..N) BY <2>3, <2>5
        <5>4. pl[i][1] = end_chunk => N - 1 = pl[i][2] + (Last - i)
          <6>1. pl[Last][1] = end_chunk /\ pl[Last][2] = N - 1 BY <2>8
          <6>2. /\ i \in Popped..Last + 1 /\ Last \in Popped..Last + 1
                /\ i < Last
            BY <2>2, <5>1
          <6>3. QED BY <1>7, <6>1, <6>2 DEF Places
        <5>5. pl[i][2] + 1 < N \/ pl[i][1] # end_chunk
          BY <2>2, <5>1, <5>3, <5>4, NType
        <5>6. pl[i][1] # end_chunk => next'[pl[i][1]] = next[pl[i][1]]
          BY <1>0, <1>9, <5>3 DEF Inv, TypeOK
        <5>7. QED BY <1>7, <4>3, <5>2, <5>5, <5>6 DEF Places
      <4>4. QED BY <4>2, <4>3
    <3>5. \A i, j \in Popped..Last + 1 :
            (i < j /\ q[i][1] = q[j][1]) => q[j][2] = q[i][2] + (j - i)
      <4>1. SUFFICES ASSUME NEW i \in Popped..Last + 1, NEW j \in Popped..Last + 1,
                            i < j, q[i][1] = q[j][1]
                     PROVE  q[j][2] = q[i][2] + (j - i)
        OBVIOUS
      <4>2. i \in Popped..Last BY <2>2, <4>1
      <4>3. j \in Popped..Last BY <2>5, <2>6, <2>9, <4>1, <4>2
      <4>4. QED BY <1>7, <2>5, <4>1, <4>2, <4>3 DEF Places
    <3>6. \A i \in Popped..Last - 1 : values'[q[i][1]][q[i][2]] = written'[i + 1]
      <4>1. \A i \in Popped..Last - 1 : i \in Popped..Last BY <2>2
      <4>2. QED BY <1>7, <1>11, <2>5, <4>1 DEF Places
    <3>7. QED BY <2>2, <2>4, <3>1, <3>2, <3>3, <3>4, <3>5, <3>6 DEF Places
  <2>11. Pointers(q, R, W)'
    <3>1. /\ R \in Nat /\ W \in Nat /\ Popped <= R /\ R <= W /\ W <= Last
          /\ r = pl[R] /\ w = pl[W] /\ f = pl[Last]
      BY <1>7 DEF Pointers
    <3>2. R \in Popped..Last /\ W \in Popped..Last BY <2>2, <3>1
    <3>3. q[R] = r /\ q[W] = w /\ q[Last] = f BY <2>5, <2>7, <3>1, <3>2
    <3>4. \A t \in Senders : spc'[t] = "set" => spc[t] = "set"
      BY DEF Link, Goto, Inv, Controls
    <3>5. QED BY <1>7, <1>11, <2>2, <3>1, <3>3, <3>4 DEF Pointers, pvars
  <2>12. Memory(q)'
    <3>1. Used(q)' = Used(pl) \cup {a}
      <4>1. {q[i][1] : i \in Popped..Last + 1} = {pl[i][1] : i \in Popped..Last + 1} \cup {a}
        <5>1. \A i \in Popped..Last + 1 : q[i][1] \in {pl[j][1] : j \in Popped..Last + 1} \cup {a}
          BY <2>5, <2>6
        <5>2. \A i \in Popped..Last : q[i][1] = pl[i][1] /\ i \in Popped..Last + 1 BY <2>5
        <5>3. q[Last + 1][1] = a BY <2>5
        <5>4. pl[Last + 1][1] = q[Last][1] BY <2>5, <2>7, <2>8
        <5>5. \A i \in Popped..Last + 1 : \E j \in Popped..Last + 1 : pl[i][1] = q[j][1]
          BY <2>6, <2>7, <5>2, <5>4
        <5> DEFINE A == {q[i][1] : i \in Popped..Last + 1}
                   B == {pl[i][1] : i \in Popped..Last + 1}
        <5>6. A \subseteq B \cup {a} BY <5>1
        <5>7. B \subseteq A BY <5>5
        <5>8. a \in A BY <2>7, <5>3
        <5> HIDE DEF A, B
        <5>9. A = B \cup {a} BY <5>6, <5>7, <5>8
        <5>10. QED BY <5>9 DEF A, B
      <4>2. QED BY <2>2, <4>1 DEF Used
    <3>2. Loose = {spare_chunk, taken[s]} \cup (IF rpc = "spare" THEN {left} ELSE {})
      BY <1>10, <1>12 DEF Loose
    <3>3. Loose' = {spare_chunk} \cup (IF rpc = "spare" THEN {left} ELSE {})
      BY <1>10, <1>11 DEF Loose
    <3>4. taken[s] \in {a, NoChunk} BY <1>0
    <3>5. a # spare_chunk /\ (rpc = "spare" => a # left) BY <1>7, <1>13
    <3>6. Loose' \cap Used(q)' = {}
      BY <1>7, <3>1, <3>2, <3>3, <3>5 DEF Memory
    <3>7. heap' = (Used(q)' \cup Loose') \ {NoChunk}
      <4>1. heap' = heap \cup {a} /\ a # NoChunk BY <1>0, <1>9, ChunkType DEF NoChunk
      <4>2. QED BY <1>7, <3>1, <3>2, <3>3, <3>4, <4>1 DEF Memory
    <3>8. \A t \in Senders : spc'[t] # "link" BY <1>10
    <3>9. rpc' = "spare" => left' # spare_chunk' /\ left' # NoChunk
      BY <1>7, <1>11 DEF Memory
    <3>10. QED BY <3>6, <3>7, <3>8, <3>9 DEF Memory
  <2>13. QED BY <2>10, <2>11, <2>12
<1>8. QED BY <1>1, <1>2, <1>3, <1>4, <1>5, <1>6, <1>7 DEF Inv

LEMMA FlushStep ==
  ASSUME Inv, NEW s \in Senders, Flush(s)
  PROVE  Inv'
<1> USE DEF Flush, flush, FlushFindsReader, Cas, Goto, qvars, readerSide, writerSide, svars, reader
<1>9. /\ Popped' = Popped /\ Last' = Last
      /\ UNCHANGED <<begin_chunk, begin_pos, qvars, written, f, r, rpc, active, signals>>
  BY DEF Popped, Last
<1>10. PICK pl, R, W : Places(pl) /\ Pointers(pl, R, W) /\ Memory(pl)
  BY DEF Inv
<1>11. /\ Last \in Nat /\ Popped \in Nat /\ Popped <= Last
       /\ R \in Popped..Last /\ W \in Popped..Last /\ Last \in Popped..Last + 1
       /\ W \in Popped..Last + 1
  BY <1>10, Numbers DEF Inv, Pointers
<1>12. /\ w = f <=> W = Last
       /\ w # NULL /\ f # NULL /\ w = pl[W] /\ f = pl[Last] /\ c \in {NULL, w}
  <2>1. w = pl[W] /\ f = pl[Last] /\ c \in {NULL, w} BY <1>10 DEF Pointers
  <2>2. pl[W] # NULL /\ pl[Last] # NULL BY <1>10, <1>11, PlaceType DEF Inv
  <2>3. pl[W] = pl[Last] => W = Last BY <1>10, <1>11, PlacesDiffer DEF Inv
  <2>4. QED BY <2>1, <2>2, <2>3
<1>13. \/ /\ c' = c /\ w' = f /\ w = f /\ spc'[s] = "unlock"
       \/ /\ c = w /\ c' = f /\ w' = f /\ spc'[s] = "unlock"
       \/ /\ c = NULL /\ c' = NULL /\ w' = w /\ w # f /\ spc'[s] = "set"
  BY <1>12 DEF Inv, Controls
<1>14. spc[s] = "flush" /\ \A t \in Senders : t # s => spc'[t] = spc[t]
  BY DEF Inv, Controls
<1>1. TypeOK'
  BY SenderType DEF Inv, TypeOK
<1>2. HistoryTypes' /\ Controls'
  BY DEF Inv, HistoryTypes, Controls, Critical, Command
<1>3. Locked'
  BY SenderType DEF Inv, Locked, Critical, Controls
<1>4. Histories'
  BY HistoriesFrame DEF Inv, Controls
<1>5. Signals'
  <2>1. Signalling' = Signalling
    BY <1>13, <1>14 DEF Signalling
  <2>2. c' = NULL <=> c = NULL BY <1>12, <1>13
  <2>3. Unused' = Unused BY <1>9 DEF Unused
  <2>4. QED BY <1>9, <2>1, <2>2, <2>3 DEF Inv, Signals
<1>6. Ending'
  BY DEF Inv, Ending, AllReceived, Controls
<1>7. \E V : Places(pl)' /\ Pointers(pl, R, V)' /\ Memory(pl)'
  <2>1. Places(pl)' BY <1>9, <1>10, PlacesFrame
  <2>2. Memory(pl)'
    <3>1. UNCHANGED <<spare_chunk, heap, taken, left>> OBVIOUS
    <3>2. \A t \in Senders : spc[t] = "link" <=> spc'[t] = "link" BY <1>13, <1>14
    <3>3. QED BY <1>9, <1>10, <3>1, <3>2, MemoryFrame
  <2>3. CASE w' = f
    <3>1. Pointers(pl, R, Last)'
      <4>1. \A t \in Senders : spc'[t] = "set" => FALSE
        BY <1>12, <1>13, <1>14, <2>3 DEF Inv, Locked, Critical
      <4>2. QED BY <1>9, <1>10, <1>11, <1>12, <1>13, <2>3, <4>1 DEF Pointers
    <3>2. QED BY <1>9, <2>1, <2>2, <3>1
  <2>4. CASE c = NULL /\ c' = NULL /\ w' = w /\ w # f /\ spc'[s] = "set"
    <3>1. W = Popped /\ W # Last BY <1>10, <1>12, <2>4 DEF Pointers
    <3>2. Pointers(pl, R, W)' BY <1>9, <1>10, <1>11, <1>14, <2>4, <3>1 DEF Pointers
    <3>3. QED BY <2>1, <2>2, <3>2
  <2>5. QED BY <1>13, <2>3, <2>4
<1>8. QED BY <1>1, <1>2, <1>3, <1>4, <1>5, <1>6, <1>7 DEF Inv

LEMMA SetCStep ==
  ASSUME Inv, NEW s \in Senders, SetC(s)
  PROVE  Inv'
<1> USE DEF SetC, FlushSetsC, Goto, qvars, readerSide, writerSide, svars, reader
<1>9. PICK pl, R, W : Places(pl) /\ Pointers(pl, R, W) /\ Memory(pl)
  BY DEF Inv
<1>10. c = NULL /\ Last > Popped /\ f = pl[Last] BY <1>9 DEF Pointers
<1>11. Last \in Nat /\ Popped \in Nat /\ R \in Nat /\ Popped <= R /\ R <= Last
       /\ r = pl[R] /\ f # NULL
  BY <1>9, <1>10, Numbers, PlaceType DEF Inv, Pointers
<1>12. /\ Popped' = Popped /\ Last' = Last /\ c' = f /\ w' = f
       /\ UNCHANGED <<qvars, written, f, r, rpc, active, signals>>
  BY DEF Popped, Last
<1>13. spc'[s] = "unlock_and_signal" /\ spc[s] = "set"
       /\ \A t \in Senders : t # s => spc'[t] = spc[t]
  BY DEF Inv, Controls
<1>14. \A t \in Senders : t # s => spc[t] \notin Critical
  BY <1>13 DEF Inv, Locked, Critical
<1>1. TypeOK'
  BY SenderType DEF Inv, TypeOK
<1>2. HistoryTypes' /\ Controls'
  BY DEF Inv, HistoryTypes, Controls, Critical, Command
<1>3. Locked'
  BY SenderType DEF Inv, Locked, Critical, Controls
<1>4. Histories'
  BY HistoriesFrame DEF Inv, Controls
<1>5. Signals'
  <2>1. ~active /\ Unused = 0 /\ Signalling = {} /\ rpc # "signal_back"
    BY <1>10 DEF Inv, Signals
  <2>2. Signalling' = {s}
    BY <1>13, <2>1 DEF Signalling
  <2>3. Unused' = 0 BY <1>12, <2>1 DEF Unused
  <2>4. QED BY <1>11, <1>12, <2>1, <2>2, <2>3 DEF Inv, Signals
<1>6. Ending'
  BY DEF Inv, Ending, AllReceived, Controls
<1>7. Places(pl)' /\ Pointers(pl, R, Last)' /\ Memory(pl)'
  <2>1. Places(pl)' BY <1>9, <1>12, PlacesFrame
  <2>2. Memory(pl)'
    <3>1. UNCHANGED <<spare_chunk, heap, taken, left>> OBVIOUS
    <3>2. \A t \in Senders : spc[t] = "link" <=> spc'[t] = "link" BY <1>13
    <3>3. QED BY <1>9, <1>12, <3>1, <3>2, MemoryFrame
  <2>3. \A t \in Senders : spc'[t] # "set" BY <1>13, <1>14 DEF Critical
  <2>4. rpc = "pop" => R > Popped BY <1>9 DEF Pointers
  <2> HIDE DEF SetC, FlushSetsC, Goto, qvars, readerSide, writerSide, svars, reader
  <2>5. Pointers(pl, R, Last)'
    BY <1>10, <1>11, <1>12, <2>3, <2>4 DEF Pointers
  <2>6. QED BY <2>1, <2>2, <2>5
<1>8. QED BY <1>1, <1>2, <1>3, <1>4, <1>5, <1>6, <1>7 DEF Inv

LEMMA UnlockStep ==
  ASSUME Inv, NEW s \in Senders, Unlock(s)
  PROVE  Inv'
<1> USE DEF Unlock, Goto, qvars, readerSide, writerSide, pvars, svars, reader
<1>1. TypeOK'
  BY SenderType DEF Inv, TypeOK
<1>2. HistoryTypes' /\ Controls'
  BY DEF Inv, HistoryTypes, Controls, Critical, Command
<1>3. Locked'
  BY SenderType DEF Inv, Locked, Critical, Controls
<1>4. Histories'
  BY HistoriesFrame DEF Inv, Controls
<1>5. Signals'
  BY SignallingFrame DEF Inv, Signals, Unused, Controls
<1>6. Ending'
  BY DEF Inv, Ending, AllReceived, Controls
<1>7. ASSUME NEW pl, NEW R, NEW W, Places(pl), Pointers(pl, R, W), Memory(pl)
      PROVE  Places(pl)' /\ Pointers(pl, R, W)' /\ Memory(pl)'
  <2>1. Popped' = Popped BY DEF Popped
  <2>2. QED BY <1>7, <2>1, PlacesFrame, MemoryFrame DEF Pointers, Inv, Controls, Last
<1>8. QED BY <1>1, <1>2, <1>3, <1>4, <1>5, <1>6, <1>7 DEF Inv

LEMMA SignalStep ==
  ASSUME Inv, NEW s \in Senders, Signal(s)
  PROVE  Inv'
<1> USE DEF Signal, send, Goto, qvars, readerSide, writerSide, pvars, reader
<1>1. TypeOK'
  BY SenderType DEF Inv, TypeOK
<1>2. HistoryTypes' /\ Controls'
  BY DEF Inv, HistoryTypes, Controls, Critical, Command
<1>3. Locked'
  BY SenderType DEF Inv, Locked, Critical, Controls
<1>4. Histories'
  BY HistoriesFrame DEF Inv, Controls
<1>5. Signals'
  <2>1. s \in Signalling BY DEF Signalling
  <2>2. ~active /\ c # NULL /\ Unused = 0 /\ Signalling = {s}
    BY <2>1 DEF Inv, Signals
  <2>3. Signalling' = {}
    BY <2>2 DEF Signalling, Inv, Controls
  <2>4. signals \in Nat BY DEF Inv, TypeOK
  <2>5. Unused' = 1 BY <2>2, <2>4 DEF Unused
  <2>6. QED BY <2>2, <2>3, <2>5 DEF Inv, Signals
<1>6. Ending'
  BY DEF Inv, Ending, AllReceived, Controls
<1>7. ASSUME NEW pl, NEW R, NEW W, Places(pl), Pointers(pl, R, W), Memory(pl)
      PROVE  Places(pl)' /\ Pointers(pl, R, W)' /\ Memory(pl)'
  <2>1. Popped' = Popped BY DEF Popped
  <2>2. QED BY <1>7, <2>1, PlacesFrame, MemoryFrame DEF Pointers, Inv, Controls, Last
<1>8. QED BY <1>1, <1>2, <1>3, <1>4, <1>5, <1>6, <1>7 DEF Inv

-----------------------------------------------------------------------------
(* The steps of the reader. *)

LEMMA CallStep ==
  ASSUME Inv, Call
  PROVE  Inv'
<1> USE DEF Call, qvars, readerSide, writerSide, pvars, svars, senders
<1>1. TypeOK'
  BY SenderType DEF Inv, TypeOK
<1>2. HistoryTypes' /\ Controls'
  BY DEF Inv, HistoryTypes, Controls, Critical, Command
<1>3. Locked'
  BY SenderType DEF Inv, Locked, Critical, Controls
<1>4. Histories'
  BY HistoriesFrame DEF Inv, Controls
<1>5. Signals'
  BY SignallingFrame DEF Inv, Signals, Unused, Controls
<1>6. Ending'
  BY DEF Inv, Ending, AllReceived, Controls
<1>7. ASSUME NEW pl, NEW R, NEW W, Places(pl), Pointers(pl, R, W), Memory(pl)
      PROVE  Places(pl)' /\ Pointers(pl, R, W)' /\ Memory(pl)'
  <2>1. Popped' = Popped BY DEF Popped
  <2>2. QED BY <1>7, <2>1, PlacesFrame, MemoryFrame DEF Pointers, Inv, Controls, Last
<1>8. QED BY <1>1, <1>2, <1>3, <1>4, <1>5, <1>6, <1>7 DEF Inv

LEMMA ReadStep ==
  ASSUME Inv, Read
  PROVE  Inv'
<1> USE DEF Read, check_read, Prefetched, Cas, qvars, readerSide, writerSide, svars, senders
<1>9. PICK pl, R, W : Places(pl) /\ Pointers(pl, R, W) /\ Memory(pl)
  BY DEF Inv
<1>10. /\ active /\ c # NULL /\ Unused = 0 /\ Signalling = {}
       /\ rpc \in {"read", "read_signalled"}
  BY DEF Inv, Signals
<1>11. /\ Last \in Nat /\ Popped \in Nat /\ R \in Nat /\ W \in Nat
       /\ Popped <= R /\ R <= W /\ W <= Last
       /\ r = pl[R] /\ c = pl[W] /\ w = c /\ front = pl[Popped]
       /\ rpc = "read_signalled" => W > Popped
  BY <1>9, <1>10, Numbers DEF Inv, Pointers, Places
<1>12. Popped \in Popped..Last + 1 /\ R \in Popped..Last + 1 /\ W \in Popped..Last + 1
  BY <1>11
<1>13. /\ front = r <=> R = Popped
       /\ front = c <=> W = Popped
       /\ r # NULL
  <2>1. pl[R] # NULL BY <1>9, <1>11, PlaceType DEF Inv
  <2>2. pl[Popped] = pl[R] => R = Popped
    BY <1>9, <1>12, PlacesDiffer DEF Inv
  <2>3. pl[Popped] = pl[W] => W = Popped
    BY <1>9, <1>12, PlacesDiffer DEF Inv
  <2>4. QED BY <1>11, <2>1, <2>2, <2>3
<1>14. \/ /\ R > Popped /\ r' = r /\ c' = c /\ rpc' = "pop" /\ active'
       \/ /\ W > Popped /\ r' = c /\ c' = c /\ rpc' = "pop" /\ active'
       \/ /\ W = Popped /\ r' = c /\ c' = NULL /\ rpc = "read"
          /\ rpc' = "signaler_recv" /\ ~active'
  <2> DEFINE ok == front # r' /\ r' # NULL
  <2>1. /\ rpc' = CASE ok -> "pop" [] ~ok /\ rpc = "read" -> "signaler_recv"
                    [] OTHER -> "abort"
        /\ active' = (ok /\ active)
    OBVIOUS
  <2>2. /\ ok => rpc' = "pop" /\ active'
        /\ ~ok /\ rpc = "read" => rpc' = "signaler_recv" /\ ~active'
    <3> HIDE DEF ok
    <3>1. ok => rpc' = "pop" BY <2>1
    <3>2. ~ok /\ rpc = "read" => rpc' = "signaler_recv" BY <2>1
    <3>3. (ok => active') /\ (~ok => ~active') BY <1>10, <2>1, Zenon
    <3>4. QED BY <3>1, <3>2, <3>3, Zenon
  <2>3. CASE R > Popped
    <3>1. r' = r /\ c' = c /\ ok BY <1>11, <1>13, <2>3
    <3>2. QED BY <2>2, <2>3, <3>1
  <2>4. CASE R = Popped /\ W > Popped
    <3>1. r' = c /\ c' = c /\ ok BY <1>10, <1>11, <1>13, <2>4
    <3>2. QED BY <2>2, <2>4, <3>1
  <2>5. CASE R = Popped /\ W = Popped
    <3>1. r' = c /\ c' = NULL /\ ~ok /\ rpc = "read"
      BY <1>10, <1>11, <1>13, <2>5
    <3>2. QED BY <2>2, <2>5, <3>1
  <2>6. QED BY <1>11, <2>3, <2>4, <2>5
<1>15. /\ UNCHANGED <<qvars, written, w, f, received, signals, spc, nsent, cmd>>
       /\ rpc' # "spare" /\ rpc # "spare" /\ Popped' = Popped /\ Last' = Last
  BY <1>10, <1>14 DEF Popped, Last
<1>16. active' \in BOOLEAN OBVIOUS
<1>1. TypeOK'
  <2>1. r' \in Place /\ c' \in Place
    BY <1>14 DEF Inv, TypeOK, Place
  <2>2. QED BY <1>16, <2>1 DEF Inv, TypeOK
<1>2. HistoryTypes' /\ Controls'
  BY <1>14 DEF Inv, HistoryTypes, Controls, Critical, Command
<1>3. Locked'
  BY SenderType DEF Inv, Locked, Critical, Controls
<1>4. Histories'
  BY <1>15, HistoriesFrame DEF Inv
<1>5. Signals'
  <2>1. Signalling' = {} BY <1>10 DEF Signalling
  <2>2. Unused' = 0 BY <1>10, <1>14, <1>15 DEF Unused
  <2>3. QED BY <1>10, <1>14, <2>1, <2>2 DEF Signals
<1>6. Ending'
  BY <1>14 DEF Inv, Ending, AllReceived, Controls
<1>7. \E V : Places(pl)' /\ Pointers(pl, V, W)' /\ Memory(pl)'
  <2>1. Places(pl)' BY <1>9, <1>15, PlacesFrame
  <2>2. Memory(pl)' BY <1>9, <1>15, MemoryFrame
  <2>3. \A s \in Senders : spc[s] # "set" BY <1>9, <1>10 DEF Pointers
  <2>4. f = pl[Last] BY <1>9 DEF Pointers
  <2> HIDE DEF Read, check_read, Prefetched, Cas, qvars, readerSide, writerSide,
               svars, senders
  <2>5. CASE r' = r /\ R > Popped /\ c' = c /\ rpc' = "pop" /\ active'
    <3>1. Pointers(pl, R, W)'
      BY <1>10, <1>11, <1>15, <2>3, <2>4, <2>5 DEF Pointers
    <3>2. QED BY <2>1, <2>2, <3>1
  <2>6. CASE r' = c /\ (W > Popped \/ rpc' = "signaler_recv")
    <3>1. Pointers(pl, W, W)'
      BY <1>10, <1>11, <1>14, <1>15, <2>3, <2>4, <2>6 DEF Pointers
    <3>2. QED BY <2>1, <2>2, <3>1
  <2>7. QED BY <1>14, <2>5, <2>6
<1>8. QED BY <1>1, <1>2, <1>3, <1>4, <1>5, <1>6, <1>7 DEF Inv

LEMMA PopStep ==
  ASSUME Inv, Pop
  PROVE  Inv'
<1>9. PICK pl, R, W : Places(pl) /\ Pointers(pl, R, W) /\ Memory(pl)
  BY DEF Inv
<1>10. /\ rpc = "pop" /\ left' = begin_chunk
       /\ cmd' = values[begin_chunk][begin_pos]
       /\ UNCHANGED <<back_chunk, back_pos, end_chunk, end_pos, spare_chunk, values,
                      next, heap, w, f, r, c, build, signals, spc, nsent, taken,
                      sync, active, written>>
  BY DEF Pop, pop, writerSide, pvars, svars, senders
<1>11. /\ active /\ c # NULL
       /\ \A s \in Senders : spc[s] # "set"
  BY <1>9, <1>10 DEF Inv, Signals, Pointers
<1>12. /\ Last \in Nat /\ Popped \in Nat /\ Popped < Last /\ Popped = Len(received)
       /\ R \in Nat /\ W \in Nat /\ Popped + 1 <= R /\ R <= W /\ W <= Last
       /\ received \in Seq(Command)
       /\ written \in Seq(Senders \X (1..Commands)) /\ Last = Len(written)
  BY <1>9, <1>10, Numbers DEF Inv, Pointers, HistoryTypes
<1>13. begin_chunk \in Chunk /\ begin_pos \in 0..N - 1 /\ pl[Popped] = <<begin_chunk, begin_pos>>
  BY <1>9 DEF Inv, TypeOK, Places, front
<1>14. cmd' = written[Popped + 1] /\ cmd' \in Senders \X (1..Commands) /\ cmd' \in Command
  <2>1. Popped \in Popped..Last - 1 /\ Popped + 1 \in 1..Last BY <1>12
  <2>2. cmd' = written[Popped + 1] BY <1>9, <1>10, <1>13, <2>1 DEF Places
  <2>3. written[Popped + 1] \in Senders \X (1..Commands) BY <1>12, <2>1
  <2>4. QED BY <2>2, <2>3 DEF Command
<1>15. /\ pl[Popped + 1] = <<begin_chunk', begin_pos'>>
       /\ begin_chunk' \in Chunk /\ begin_pos' \in 0..N - 1
       /\ prev' \in [Chunk -> Chunk \cup {NoChunk}]
  <2>1. Popped \in Popped..Last /\ Popped # Last /\ Popped + 1 \in Popped..Last /\ Popped + 1 \in Nat
    BY <1>12
  <2>2. IF begin_pos + 1 < N THEN pl[Popped + 1] = <<begin_chunk, begin_pos + 1>>
        ELSE pl[Popped + 1] = <<next[begin_chunk], 0>>
    <3>1. IF pl[Popped][2] + 1 < N
          THEN pl[Popped + 1] = <<pl[Popped][1], pl[Popped][2] + 1>>
          ELSE \/ pl[Popped + 1] = <<next[pl[Popped][1]], 0>>
               \/ Popped = Last
      BY <1>9, <2>1 DEF Places
    <3>2. pl[Popped][1] = begin_chunk /\ pl[Popped][2] = begin_pos BY <1>13
    <3>3. QED BY <2>1, <3>1, <3>2
  <2>3. begin_pos + 1 < N <=> begin_pos + 1 # N BY <1>13, NType
  <2>4. pl[Popped + 1] = <<begin_chunk', begin_pos'>>
    BY <2>2, <2>3 DEF Pop, pop
  <2>5. pl[Popped + 1][1] \in Chunk /\ pl[Popped + 1][2] \in 0..N - 1
    BY <1>9, <2>1, PlaceType DEF Inv
  <2>6. prev' \in [Chunk -> Chunk \cup {NoChunk}]
    BY DEF Pop, pop, Inv, TypeOK
  <2>7. QED BY <2>4, <2>5, <2>6
<1>16. \/ /\ begin_pos + 1 = N /\ rpc' = "spare" /\ received' = received
          /\ begin_pos' = 0
       \/ /\ begin_pos + 1 # N /\ rpc' = "call" /\ received' = Append(received, cmd')
          /\ begin_chunk' = begin_chunk
  BY DEF Pop, pop, PopLeavesChunk, Deliver
<1>17. Popped' = Popped + 1 /\ Last' = Last /\ received' \in Seq(Command)
  <2>1. received' = Append(received, cmd') => Len(received') = Len(received) + 1
                                              /\ received' \in Seq(Command)
    BY <1>12, <1>14, AppendFacts
  <2>2. Last' = Last BY <1>10 DEF Last
  <2>3. Popped' = Popped + 1 BY <1>12, <1>16, <2>1 DEF Popped
  <2>4. QED BY <1>12, <1>16, <2>1, <2>2, <2>3
<1>18. rpc' # "pop" /\ rpc' # "read_signalled" /\ rpc' \in {"call", "spare"}
  BY <1>16
<1>1. TypeOK'
  BY <1>10, <1>13, <1>14, <1>15 DEF Inv, TypeOK
<1>2. HistoryTypes' /\ Controls'
  BY <1>10, <1>17, <1>18 DEF Inv, HistoryTypes, Controls, Command
<1>3. Locked'
  BY <1>10 DEF Inv, Locked
<1>4. Histories'
  <2>1. Popped' <= Last' BY <1>12, <1>17
  <2>2. \A i \in 1..Len(received') : received'[i] = written'[i]
    <3>1. CASE received' = received BY <1>10, <3>1 DEF Inv, Histories
    <3>2. CASE received' = Append(received, cmd')
      <4>1. /\ Len(received') = Len(received) + 1
            /\ \A i \in 1..Len(received) : received'[i] = received[i]
            /\ received'[Len(received) + 1] = cmd'
        BY <1>12, <1>14, <3>2, AppendFacts
      <4>2. \A i \in 1..Len(received') : i \in 1..Len(received) \/ i = Len(received) + 1
        BY <1>12, <4>1
      <4>3. \A i \in 1..Len(received) : received[i] = written[i] BY DEF Inv, Histories
      <4>4. QED BY <1>10, <1>12, <1>14, <4>1, <4>2, <4>3
    <3>3. QED BY <1>16, <3>1, <3>2
  <2>3. cmd' = written'[Popped'] BY <1>10, <1>14, <1>17
  <2>4. QED BY <1>10, <1>17, <2>1, <2>2, <2>3 DEF Inv, Histories
<1>5. Signals'
  <2>1. Signalling' = Signalling BY <1>10 DEF Signalling
  <2>2. Unused' = Unused BY <1>10, <1>11, <1>18 DEF Unused
  <2>3. QED BY <1>10, <1>11, <1>18, <2>1, <2>2 DEF Inv, Signals
<1>6. Ending'
  <2>1. ~AllReceived BY <1>10 DEF Inv, Ending
  <2>2. rpc' = "spare" => ~AllReceived' BY <1>16, <2>1 DEF AllReceived
  <2>3. QED BY <1>10, <1>11, <1>18, <2>2 DEF Ending
<1>7. Places(pl)' /\ Pointers(pl, R, W)' /\ Memory(pl)'
  <2>0. /\ \A i \in Popped + 1..Last : i \in Popped..Last
        /\ \A i \in Popped + 1..Last + 1 : i \in Popped..Last + 1 /\ i \in Nat
        /\ \A i \in Popped + 1..Last - 1 : i \in Popped..Last - 1
        /\ \A i \in Popped..Last + 1 : i = Popped \/ i \in Popped + 1..Last + 1
        /\ Popped \in Popped..Last + 1 /\ Popped + 1 \in Popped + 1..Last + 1
    <3>1. Last \in Nat /\ Popped \in Nat /\ Popped < Last BY <1>12
    <3>2. \A i \in Popped + 1..Last : i \in Popped..Last BY <3>1
    <3>3. \A i \in Popped + 1..Last + 1 : i \in Popped..Last + 1 /\ i \in Nat
      BY <3>1
    <3>4. \A i \in Popped + 1..Last - 1 : i \in Popped..Last - 1 BY <3>1
    <3>5. \A i \in Popped..Last + 1 : i = Popped \/ i \in Popped + 1..Last + 1
      BY <3>1
    <3>6. Popped \in Popped..Last + 1 /\ Popped + 1 \in Popped + 1..Last + 1
      BY <3>1
    <3>7. QED BY <3>2, <3>3, <3>4, <3>5, <3>6
  <2>1. Places(pl)'
    BY <1>9, <1>10, <1>15, <1>17, <2>0 DEF Places, front, back
  <2>2. Pointers(pl, R, W)'
    BY <1>9, <1>10, <1>11, <1>12, <1>17, <1>18 DEF Pointers
  <2>3. /\ Used(pl)' = {pl[i][1] : i \in Popped + 1..Last + 1}
        /\ Used(pl) = Used(pl)' \cup {begin_chunk}
    <3>1. Used(pl)' = {pl[i][1] : i \in Popped + 1..Last + 1} BY <1>17 DEF Used
    <3>2. Used(pl) = {pl[i][1] : i \in Popped + 1..Last + 1} \cup {begin_chunk}
      BY <1>13, <2>0 DEF Used
    <3>3. QED BY <3>1, <3>2
  <2>4. Memory(pl)'
    <3>1. CASE begin_pos + 1 # N /\ rpc' = "call" /\ begin_chunk' = begin_chunk
      <4>1. pl[Popped + 1][1] = begin_chunk BY <1>15, <3>1
      <4>2. begin_chunk \in Used(pl)' BY <2>0, <2>3, <4>1
      <4>3. Used(pl)' = Used(pl) BY <2>3, <4>2
      <4>4. Loose' = Loose BY <1>10, <3>1 DEF Loose
      <4>5. QED BY <1>9, <1>10, <3>1, <4>3, <4>4 DEF Memory
    <3>2. CASE begin_pos + 1 = N /\ rpc' = "spare" /\ begin_pos' = 0
      <4>1. begin_chunk \notin Used(pl)'
        <5>1. SUFFICES ASSUME NEW i \in Popped + 1..Last + 1, pl[i][1] = begin_chunk
                       PROVE  FALSE
          BY <2>3
        <5>2. pl[i][2] = begin_pos + (i - Popped)
          <6>1. Popped < i BY <1>12
          <6>2. pl[Popped][1] = pl[i][1] /\ pl[Popped][2] = begin_pos BY <1>13, <5>1
          <6>3. QED BY <1>9, <2>0, <6>1, <6>2 DEF Places
        <5>3. i = Popped + 1
          <6>1. pl[i] \in Chunk \X (0..N) BY <1>9, <2>0 DEF Places
          <6>2. pl[i][2] <= N BY <6>1, NType
          <6>3. i \in Nat /\ i >= Popped + 1 BY <1>12, <2>0
          <6>4. QED BY <1>12, <1>13, <3>2, <5>2, <6>2, <6>3, NType
        <5>4. pl[i][2] = 0 BY <1>15, <3>2, <5>3
        <5>5. QED BY <1>12, <1>13, <3>2, <5>2, <5>3, <5>4, NType
      <4>2. Loose' = Loose \cup {begin_chunk} BY <1>10, <3>2 DEF Loose
      <4>3. begin_chunk \notin Loose /\ Loose \cap Used(pl) = {} /\ begin_chunk \in Used(pl)
        BY <1>9, <2>3 DEF Memory
      <4>4. Loose' \cap Used(pl)' = {} BY <2>3, <4>1, <4>2, <4>3
      <4>5. heap' = (Used(pl)' \cup Loose') \ {NoChunk}
        BY <1>9, <1>10, <2>3, <4>2 DEF Memory
      <4>6. begin_chunk # spare_chunk /\ begin_chunk # NoChunk
        BY <1>13, <4>3, ChunkType DEF Loose, NoChunk
      <4>7. \A s \in Senders : spc[s] = "link" => taken[s] # begin_chunk
        BY <4>3 DEF Loose
      <4>8. QED BY <1>9, <1>10, <3>2, <4>4, <4>5, <4>6, <4>7 DEF Memory
    <3>3. QED BY <1>16, <3>1, <3>2
  <2>5. QED BY <2>1, <2>2, <2>4
<1>8. QED BY <1>1, <1>2, <1>3, <1>4, <1>5, <1>6, <1>7 DEF Inv

LEMMA SpareStep ==
  ASSUME Inv, Spare
  PROVE  Inv'
<1>9. PICK pl, R, W : Places(pl) /\ Pointers(pl, R, W) /\ Memory(pl)
  BY DEF Inv
<1>10. /\ rpc = "spare" /\ rpc' = "call" /\ spare_chunk' = left
       /\ heap' = heap \ {spare_chunk} /\ received' = Append(received, cmd)
       /\ UNCHANGED <<begin_chunk, begin_pos, back_chunk, back_pos, end_chunk, end_pos,
                      values, next, prev, w, f, r, c, build, signals, spc, nsent,
                      taken, sync, active, left, cmd, written>>
  BY DEF Spare, GiveSpare, Xchg, Deliver, readerSide, writerSide, pvars, svars, senders
<1>11. /\ active /\ c # NULL
       /\ \A s \in Senders : spc[s] # "set"
  BY <1>9, <1>10 DEF Inv, Signals, Pointers
<1>12. /\ Last \in Nat /\ Popped \in Nat /\ Popped = Len(received) + 1
       /\ received \in Seq(Command) /\ cmd = written[Popped] /\ cmd \in Command
       /\ Len(received) \in Nat
  BY <1>10, Numbers DEF Inv, HistoryTypes, Histories, TypeOK
<1>13. /\ received' \in Seq(Command) /\ Len(received') = Len(received) + 1
       /\ \A i \in 1..Len(received) : received'[i] = received[i]
       /\ received'[Len(received) + 1] = cmd
  BY <1>10, <1>12, AppendFacts
<1>14. Popped' = Popped /\ Last' = Last
  BY <1>10, <1>12, <1>13 DEF Popped, Last
<1>1. TypeOK'
  BY <1>10 DEF Inv, TypeOK
<1>2. HistoryTypes' /\ Controls'
  BY <1>10, <1>13 DEF Inv, HistoryTypes, Controls, Command
<1>3. Locked'
  BY <1>10 DEF Inv, Locked
<1>4. Histories'
  <2>1. \A i \in 1..Len(received') : received'[i] = written[i]
    <3>1. \A i \in 1..Len(received') : i \in 1..Len(received) \/ i = Len(received) + 1
      BY <1>12, <1>13
    <3>2. \A i \in 1..Len(received) : received[i] = written[i] BY DEF Inv, Histories
    <3>3. QED BY <1>12, <1>13, <3>1, <3>2
  <2>2. QED BY <1>10, <1>14, <2>1 DEF Inv, Histories
<1>5. Signals'
  <2>1. Signalling' = Signalling BY <1>10 DEF Signalling
  <2>2. Unused' = Unused BY <1>10, <1>11 DEF Unused
  <2>3. QED BY <1>10, <1>11, <2>1, <2>2 DEF Inv, Signals
<1>6. Ending'
  BY <1>10, <1>11 DEF Ending
<1>7. Places(pl)' /\ Pointers(pl, R, W)' /\ Memory(pl)'
  <2>1. Places(pl)'
    BY <1>9, <1>10, <1>14 DEF Places, front, back
  <2>2. Pointers(pl, R, W)'
    BY <1>9, <1>10, <1>11, <1>14 DEF Pointers
  <2>3. Memory(pl)'
    <3>1. Used(pl)' = Used(pl) BY <1>14 DEF Used
    <3>2. Loose = {spare_chunk} \cup Loose'
      BY <1>10 DEF Loose
    <3>3. spare_chunk \notin Used(pl) BY <1>9, <3>2 DEF Memory
    <3>4. spare_chunk = NoChunk \/ spare_chunk \notin Loose'
      BY <1>9, <1>10 DEF Memory, Loose
    <3>5. heap' = (Used(pl)' \cup Loose') \ {NoChunk}
      BY <1>9, <1>10, <3>1, <3>2, <3>3, <3>4 DEF Memory
    <3>6. Loose' \cap Used(pl)' = {} BY <1>9, <3>1, <3>2 DEF Memory
    <3>7. QED BY <1>9, <1>10, <3>5, <3>6 DEF Memory
  <2>4. QED BY <2>1, <2>2, <2>3
<1>8. QED BY <1>1, <1>2, <1>3, <1>4, <1>5, <1>6, <1>7 DEF Inv

LEMMA SignalerRecvStep ==
  ASSUME Inv, SignalerRecv
  PROVE  Inv'
<1> USE DEF SignalerRecv, recv, RecvAsserts, GrabbedTwo, qvars, readerSide, writerSide, pvars, svars, senders
<1>9. /\ rpc = "signaler_recv" /\ ~active /\ signals \in Nat
      /\ build \in {"eventfd", "socketpair"}
  BY DEF Inv, Signals, TypeOK, Controls
<1>10. Unused = signals - 1 BY <1>9 DEF Unused
<1>11. /\ c = NULL => signals = 1
       /\ signals \in {1, 2}
  BY <1>9, <1>10 DEF Inv, Signals
<1>12. RecvAsserts BY <1>9, <1>11
<1>13. Unused' = Unused /\ Signalling' = Signalling
  <2>1. Signalling' = Signalling BY DEF Signalling
  <2>2. Unused' = Unused BY <1>9, <1>10, <1>11, <1>12 DEF Unused
  <2>3. QED BY <2>1, <2>2
<1>1. TypeOK'
  BY SenderType DEF Inv, TypeOK
<1>2. HistoryTypes' /\ Controls'
  BY <1>12 DEF Inv, HistoryTypes, Controls, Critical, Command
<1>3. Locked'
  BY SenderType DEF Inv, Locked, Critical, Controls
<1>4. Histories'
  BY HistoriesFrame DEF Inv, Controls
<1>5. Signals'
  <2>1. rpc' \in {"signal_back", "wait"} /\ c' = c /\ active' = active BY <1>12
  <2>2. rpc' = "signal_back" => c # NULL BY <1>9, <1>11, <1>12
  <2>3. QED BY <1>9, <1>13, <2>1, <2>2 DEF Inv, Signals
<1>6. Ending'
  BY DEF Inv, Ending, AllReceived, Controls
<1>7. ASSUME NEW pl, NEW R, NEW W, Places(pl), Pointers(pl, R, W), Memory(pl)
      PROVE  Places(pl)' /\ Pointers(pl, R, W)' /\ Memory(pl)'
  <2>1. Popped' = Popped BY DEF Popped
  <2>2. QED BY <1>7, <2>1, PlacesFrame, MemoryFrame DEF Pointers, Inv, Controls, Last
<1>8. QED BY <1>1, <1>2, <1>3, <1>4, <1>5, <1>6, <1>7 DEF Inv

LEMMA SignalBackStep ==
  ASSUME Inv, SignalBack
  PROVE  Inv'
<1> USE DEF SignalBack, send, qvars, readerSide, writerSide, pvars, senders
<1>1. TypeOK'
  BY SenderType DEF Inv, TypeOK
<1>2. HistoryTypes' /\ Controls'
  BY DEF Inv, HistoryTypes, Controls, Critical, Command
<1>3. Locked'
  BY SenderType DEF Inv, Locked, Critical, Controls
<1>4. Histories'
  BY HistoriesFrame DEF Inv, Controls
<1>5. Signals'
  <2>1. ~active /\ c # NULL /\ signals \in Nat BY DEF Inv, Signals, TypeOK
  <2>2. Unused' = Unused BY <2>1 DEF Unused
  <2>3. Signalling' = Signalling BY DEF Signalling
  <2>4. QED BY <2>1, <2>2, <2>3 DEF Inv, Signals
<1>6. Ending'
  BY DEF Inv, Ending, AllReceived, Controls
<1>7. ASSUME NEW pl, NEW R, NEW W, Places(pl), Pointers(pl, R, W), Memory(pl)
      PROVE  Places(pl)' /\ Pointers(pl, R, W)' /\ Memory(pl)'
  <2>1. Popped' = Popped BY DEF Popped
  <2>2. QED BY <1>7, <2>1, PlacesFrame, MemoryFrame DEF Pointers, Inv, Controls, Last
<1>8. QED BY <1>1, <1>2, <1>3, <1>4, <1>5, <1>6, <1>7 DEF Inv

LEMMA WaitStep ==
  ASSUME Inv, Wait
  PROVE  Inv'
<1> USE DEF Wait, WaitSucceeds, qvars, readerSide, writerSide, pvars, svars, senders
<1>9. ~active /\ signals \in Nat BY DEF Inv, Signals, TypeOK
<1>10. Unused = signals BY <1>9 DEF Unused
<1>11. c # NULL /\ Unused = 1 /\ Signalling = {}
  BY <1>9, <1>10 DEF Inv, Signals
<1>12. Unused' = 0 /\ Signalling' = {}
  BY <1>9, <1>10, <1>11 DEF Unused, Signalling
<1>1. TypeOK'
  BY SenderType DEF Inv, TypeOK
<1>2. HistoryTypes' /\ Controls'
  BY DEF Inv, HistoryTypes, Controls, Critical, Command
<1>3. Locked'
  BY SenderType DEF Inv, Locked, Critical, Controls
<1>4. Histories'
  BY HistoriesFrame DEF Inv, Controls
<1>5. Signals'
  BY <1>11, <1>12 DEF Inv, Signals
<1>6. Ending'
  BY DEF Inv, Ending, AllReceived, Controls
<1>7. ASSUME NEW pl, NEW R, NEW W, Places(pl), Pointers(pl, R, W), Memory(pl)
      PROVE  Places(pl)' /\ Pointers(pl, R, W)' /\ Memory(pl)'
  <2>1. Popped' = Popped /\ Last' = Last BY DEF Popped, Last
  <2>2. Places(pl)' BY <1>7, <2>1, PlacesFrame
  <2>3. Memory(pl)' BY <1>7, <2>1, MemoryFrame
  <2>4. W > Popped BY <1>7, <1>9, <1>11 DEF Pointers
  <2>5. Pointers(pl, R, W)' BY <1>7, <2>1, <2>4 DEF Pointers
  <2>6. QED BY <2>2, <2>3, <2>5
<1>8. QED BY <1>1, <1>2, <1>3, <1>4, <1>5, <1>6, <1>7 DEF Inv

LEMMA TimeoutStep ==
  ASSUME Inv, Timeout
  PROVE  Inv'
<1> USE DEF Timeout, qvars, readerSide, writerSide, pvars, svars, senders
<1>1. TypeOK'
  BY SenderType DEF Inv, TypeOK
<1>2. HistoryTypes' /\ Controls'
  BY DEF Inv, HistoryTypes, Controls, Critical, Command
<1>3. Locked'
  BY SenderType DEF Inv, Locked, Critical, Controls
<1>4. Histories'
  BY HistoriesFrame DEF Inv, Controls
<1>5. Signals'
  BY SignallingFrame DEF Inv, Signals, Unused, Controls
<1>6. Ending'
  BY DEF Inv, Ending, AllReceived, Controls
<1>7. ASSUME NEW pl, NEW R, NEW W, Places(pl), Pointers(pl, R, W), Memory(pl)
      PROVE  Places(pl)' /\ Pointers(pl, R, W)' /\ Memory(pl)'
  <2>1. Popped' = Popped BY DEF Popped
  <2>2. QED BY <1>7, <2>1, PlacesFrame, MemoryFrame DEF Pointers, Inv, Controls, Last
<1>8. QED BY <1>1, <1>2, <1>3, <1>4, <1>5, <1>6, <1>7 DEF Inv

LEMMA DestroyLockStep ==
  ASSUME Inv, DestroyLock
  PROVE  Inv'
<1> USE DEF DestroyLock, qvars, readerSide, writerSide, pvars, svars, senders
<1>1. TypeOK'
  BY SenderType DEF Inv, TypeOK
<1>2. HistoryTypes' /\ Controls'
  BY DEF Inv, HistoryTypes, Controls, Critical, Command
<1>3. Locked'
  BY SenderType DEF Inv, Locked, Critical, Controls
<1>4. Histories'
  BY HistoriesFrame DEF Inv, Controls
<1>5. Signals'
  BY SignallingFrame DEF Inv, Signals, Unused, Controls
<1>6. Ending'
  <2>1. \A t \in Senders : spc[t] \in {"idle", "signal"}
    BY SenderType DEF Inv, Locked, Controls
  <2>2. ASSUME active PROVE \A t \in Senders : spc[t] # "signal"
    BY <2>2 DEF Inv, Signals, Signalling
  <2>3. ~active => \A t \in Senders : spc[t] = "idle" BY DEF Inv, Ending
  <2>4. QED BY <2>1, <2>2, <2>3 DEF Ending, AllReceived
<1>7. ASSUME NEW pl, NEW R, NEW W, Places(pl), Pointers(pl, R, W), Memory(pl)
      PROVE  Places(pl)' /\ Pointers(pl, R, W)' /\ Memory(pl)'
  <2>1. Popped' = Popped BY DEF Popped
  <2>2. QED BY <1>7, <2>1, PlacesFrame, MemoryFrame DEF Pointers, Inv, Controls, Last
<1>8. QED BY <1>1, <1>2, <1>3, <1>4, <1>5, <1>6, <1>7 DEF Inv

LEMMA DestroyUnlockStep ==
  ASSUME Inv, DestroyUnlock
  PROVE  Inv'
<1> USE DEF DestroyUnlock, qvars, readerSide, writerSide, pvars, svars, senders
<1>1. TypeOK'
  BY SenderType DEF Inv, TypeOK
<1>2. HistoryTypes' /\ Controls'
  BY DEF Inv, HistoryTypes, Controls, Critical, Command
<1>3. Locked'
  BY DEF Inv, Locked, Ending, Critical
<1>4. Histories'
  BY HistoriesFrame DEF Inv, Controls
<1>5. Signals'
  BY SignallingFrame DEF Inv, Signals, Unused, Controls
<1>6. Ending'
  BY DEF Inv, Ending, AllReceived, Controls
<1>7. ASSUME NEW pl, NEW R, NEW W, Places(pl), Pointers(pl, R, W), Memory(pl)
      PROVE  Places(pl)' /\ Pointers(pl, R, W)' /\ Memory(pl)'
  <2>1. Popped' = Popped BY DEF Popped
  <2>2. QED BY <1>7, <2>1, PlacesFrame, MemoryFrame DEF Pointers, Inv, Controls, Last
<1>8. QED BY <1>1, <1>2, <1>3, <1>4, <1>5, <1>6, <1>7 DEF Inv

-----------------------------------------------------------------------------
(* The invariant holds in every state. *)

LEMMA InitInv == Init => Inv
<1> SUFFICES ASSUME Init PROVE Inv OBVIOUS
<1> USE DEF Init, YpipeInit, YqueueInit, SignalerInit
<1>0. Popped = 0 /\ Last = 0 BY DEF Popped, Last
<1>1. TypeOK
  <2>1. <<>> \in Command /\ NULL \in Place BY DEF Command, Place, Nothing
  <2>2. back \in Place BY ChunkAssumption DEF Place, back
  <2>3. 0 \in 0..N - 1 /\ 1 \in 0..N /\ 0 \in 0..Commands BY NType, SenderType
  <2>4. 1 \in Chunk BY ChunkAssumption
  <2>5. values \in [Chunk -> [0..N - 1 -> Command]] BY <2>1 DEF Nothing
  <2>6. {w, f, r, c} \subseteq Place BY <2>1, <2>2
  <2>7. cmd \in Command BY <2>1 DEF Nothing
  <2>8. QED BY <2>3, <2>4, <2>5, <2>6, <2>7 DEF TypeOK
<1>2. HistoryTypes /\ Controls BY DEF HistoryTypes, Controls
<1>3. Locked BY NType DEF Locked, Critical
<1>4. Histories BY <1>0 DEF Histories
<1>5. Signals
  <2>0. active = FALSE /\ rpc = "call" /\ signals = 0 OBVIOUS
  <2>1. Signalling = {} BY DEF Signalling
  <2>2. Unused = 0
    <3> HIDE DEF Init
    <3>1. (IF active \/ rpc = "signaler_recv" THEN 1 ELSE 0) = 0 BY <2>0, Zenon
    <3>2. (IF rpc = "signal_back" THEN 1 ELSE 0) = 0 BY <2>0
    <3>3. Unused = 0 - 0 + 0 BY <2>0, <3>1, <3>2 DEF Unused
    <3>4. QED BY <3>3
  <2>3. QED BY <2>1, <2>2 DEF Signals
<1>6. Ending BY DEF Ending
<1>7. \E pl : Places(pl) /\ Pointers(pl, 0, 0) /\ Memory(pl)
  <2>1. PICK pl : pl = [i \in Nat |-> IF i = 0 THEN <<1, 0>> ELSE <<1, 1>>]
    OBVIOUS
  <2>2. pl \in [Nat -> Chunk \X (0..N)] BY <2>1, ChunkAssumption
  <2>3. pl[0] = <<1, 0>> /\ pl[1] = <<1, 1>> /\ 0..0 = {0} /\ 0..1 = {0, 1} BY <2>1
  <2>4. Places(pl)
    <3>1. /\ pl[Popped] = front /\ pl[Last] = back
          /\ pl[Last + 1] = <<end_chunk, end_pos>>
      BY <1>0, <2>3 DEF front, back
    <3>2. /\ Popped..Last = {0} /\ Popped..Last + 1 = {0, 1}
          /\ Popped..Last - 1 = {}
      BY <1>0, <2>3
    <3>3. /\ pl[0][1] = 1 /\ pl[0][2] = 0 /\ pl[1][1] = 1 /\ pl[1][2] = 1
          /\ 0 < N /\ 0 + 1 < N /\ pl[0 + 1] = <<1, 0 + 1>>
      BY <2>3, NType
    <3>4. \A i, j \in {0, 1} : i < j => pl[j][2] = pl[i][2] + (j - i)
      BY <3>3
    <3> HIDE DEF Init
    <3>5. QED BY <2>2, <3>1, <3>2, <3>3, <3>4 DEF Places
  <2>5. Pointers(pl, 0, 0) BY <1>0, <2>3 DEF Pointers, back
  <2>6. Used(pl) = {1} BY <1>0, <2>3 DEF Used
  <2>7. Loose = {NoChunk} /\ NoChunk = 0 BY DEF Loose, NoChunk
  <2>8. Memory(pl) BY <2>6, <2>7 DEF Memory
  <2>9. QED BY <2>4, <2>5, <2>8
<1>8. QED BY <1>1, <1>2, <1>3, <1>4, <1>5, <1>6, <1>7 DEF Inv

LEMMA NextInv == Inv /\ [Next]_vars => Inv'
<1> SUFFICES ASSUME Inv, [Next]_vars PROVE Inv' OBVIOUS
<1>1. CASE UNCHANGED vars
  <2>1. UNCHANGED <<qvars, pvars, svars, mvars>> BY <1>1 DEF vars
  <2> USE DEF qvars, readerSide, writerSide, pvars, svars, mvars
  <2>2. TypeOK' BY <2>1 DEF Inv, TypeOK
  <2>3. HistoryTypes' /\ Controls' BY <2>1 DEF Inv, HistoryTypes, Controls
  <2>4. Locked' BY <2>1 DEF Inv, Locked
  <2>5. Histories' /\ Popped' = Popped BY <2>1 DEF Inv, Histories, Popped, Last
  <2>6. Signals' BY <2>1 DEF Inv, Signals, Unused, Signalling
  <2>7. Ending' BY <2>1 DEF Inv, Ending, AllReceived
  <2>8. ASSUME NEW pl, NEW R, NEW W, Places(pl), Pointers(pl, R, W), Memory(pl)
        PROVE  Places(pl)' /\ Pointers(pl, R, W)' /\ Memory(pl)'
    BY <2>1, <2>5, <2>8, PlacesFrame, MemoryFrame DEF Pointers, Last
  <2>9. QED BY <2>2, <2>3, <2>4, <2>5, <2>6, <2>7, <2>8 DEF Inv
<1>2. CASE Reader \/ Timeout
  BY <1>2, CallStep, ReadStep, PopStep, SpareStep, SignalerRecvStep, SignalBackStep,
     WaitStep, TimeoutStep, DestroyLockStep, DestroyUnlockStep DEF Reader
<1>3. ASSUME NEW s \in Senders, Sender(s) PROVE Inv'
  BY <1>3, LockStep, WriteStep, TakeStep, LinkStep, FlushStep, SetCStep, UnlockStep,
     SignalStep DEF Sender
<1>4. QED BY <1>1, <1>2, <1>3 DEF Next

-----------------------------------------------------------------------------
(* The chunks of the queue are those of the places. *)

LEMMA Least ==
  ASSUME NEW T, T \subseteq Nat, T # {}
  PROVE  \E m \in T : \A n \in T : m <= n
<1>1. PICK m \in T : \A n \in T : ~(<<n, m>> \in OpToRel(<, Nat))
  BY NatLessThanWellFounded, WFMin
<1>2. \A n \in T : ~(n < m) BY <1>1 DEF OpToRel
<1>3. QED BY <1>2

\* The chunks of the places are closed under next: the last place in a chunk
\* that is not the end leads to the first in the next one.
LEMMA UsedIsClosed ==
  ASSUME Inv, NEW pl, Places(pl)
  PROVE  Closed(Used(pl)) /\ Used(pl) \subseteq Chunk
<1>1. Last \in Nat /\ Popped \in Nat /\ Popped <= Last BY Numbers DEF Inv
<1>2. \A i \in Popped..Last + 1 : i \in Nat /\ pl[i] \in Chunk \X (0..N)
  BY <1>1 DEF Places
<1>3. Used(pl) \subseteq Chunk BY <1>2 DEF Used
<1>4. begin_chunk \in Used(pl)
  <2>1. Popped \in Popped..Last + 1 /\ pl[Popped] = front BY <1>1 DEF Places
  <2>2. QED BY <2>1 DEF Used, front
<1>5. ASSUME NEW a \in Used(pl), a # end_chunk PROVE next[a] \in Used(pl)
  <2> DEFINE T == {k \in Nat : k <= Last + 1 - Popped /\ pl[Last + 1 - k][1] = a}
  <2>1. T # {}
    <3>1. PICK i \in Popped..Last + 1 : pl[i][1] = a BY DEF Used
    <3>2. Last + 1 - i \in Nat /\ Last + 1 - i <= Last + 1 - Popped
          /\ Last + 1 - (Last + 1 - i) = i
      BY <1>1, <3>1
    <3>3. QED BY <3>1, <3>2
  <2>2. PICK k \in T : \A n \in T : k <= n BY <2>1, Least
  <2> DEFINE i == Last + 1 - k
  <2>3. k \in Nat /\ i \in Popped..Last + 1 /\ pl[i][1] = a BY <1>1
  <2>4. pl[Last + 1][1] = end_chunk BY DEF Places
  <2>5. k # 0 BY <1>1, <1>5, <2>3, <2>4
  <2>6. k - 1 \in Nat /\ k - 1 \notin T BY <2>2, <2>3, <2>5
  <2>7. Last + 1 - (k - 1) = i + 1 /\ i \in Popped..Last /\ i + 1 \in Popped..Last + 1
    BY <1>1, <2>3, <2>5
  <2>8. k - 1 <= Last + 1 - Popped BY <1>1, <2>3
  <2>9. pl[i + 1][1] # a BY <2>6, <2>7, <2>8
  <2> HIDE DEF T, i
  <2>10. pl[i + 1] = <<next[a], 0>> BY <2>3, <2>7, <2>9 DEF Places
  <2>11. QED BY <2>7, <2>10 DEF Used
<1>6. QED BY <1>3, <1>4, <1>5 DEF Closed

\* Every set that holds the front and is closed under next holds the chunks of
\* all places, the first one outside it being impossible.
LEMMA UsedIsLeast ==
  ASSUME Inv, NEW pl, Places(pl), NEW S, Closed(S)
  PROVE  Used(pl) \subseteq S
<1>1. Last \in Nat /\ Popped \in Nat /\ Popped <= Last BY Numbers DEF Inv
<1>2. \A i \in Popped..Last + 1 : i \in Nat /\ pl[i] \in Chunk \X (0..N)
  BY <1>1 DEF Places
<1> DEFINE T == {i \in Popped..Last + 1 : pl[i][1] \notin S}
<1>3. SUFFICES ASSUME T # {} PROVE FALSE BY DEF Used
<1>4. T \subseteq Nat BY <1>2
<1>5. PICK j \in T : \A n \in T : j <= n BY <1>3, <1>4, Least
<1>6. j \in Popped..Last + 1 /\ pl[j][1] \notin S /\ j \in Nat BY <1>2
<1>7. j # Popped BY <1>6 DEF Places, Closed, front
<1> DEFINE i == j - 1
<1>8. i \in Popped..Last /\ i \in Popped..Last + 1 /\ i + 1 = j /\ i < j
  BY <1>1, <1>6, <1>7
<1>9. i \notin T BY <1>5, <1>6, <1>8
<1>10. pl[i][1] \in S BY <1>8, <1>9
<1> HIDE DEF T, i
<1>11. pl[j][1] # pl[i][1] BY <1>6, <1>10
<1>12. pl[i][2] + 1 >= N /\ pl[j] = <<next[pl[i][1]], 0>>
  <2>1. pl[i] \in Chunk \X (0..N) BY <1>2, <1>8
  <2>2. ~(pl[i][2] + 1 < N) /\ pl[j] = <<next[pl[i][1]], 0>>
    BY <1>8, <1>11 DEF Places
  <2>3. QED BY <2>1, <2>2, NType
<1>13. pl[i][1] = end_chunk BY <1>6, <1>10, <1>12 DEF Closed
<1>14. pl[Last + 1] = <<end_chunk, end_pos>> /\ Last + 1 \in Popped..Last + 1
  BY <1>1 DEF Places
<1>15. end_pos = pl[i][2] + (Last + 1 - i)
  <2>1. i < Last + 1 BY <1>1, <1>8
  <2>2. pl[Last + 1][1] = pl[i][1] /\ pl[Last + 1][2] = end_pos BY <1>13, <1>14
  <2>3. pl[Last + 1][2] = pl[i][2] + (Last + 1 - i)
    <3>1. \A k, m \in Popped..Last + 1 :
            (k < m /\ pl[k][1] = pl[m][1]) => pl[m][2] = pl[k][2] + (m - k)
      BY DEF Places
    <3>2. ASSUME NEW m \in Popped..Last + 1, m = Last + 1
          PROVE  pl[m][2] = pl[i][2] + (m - i)
      BY <1>8, <2>1, <2>2, <3>1, <3>2
    <3>3. PICK m \in Popped..Last + 1 : m = Last + 1 BY <1>14
    <3>4. pl[m][2] \in Nat /\ pl[i][2] \in Nat /\ i \in Nat BY <1>2, <1>8, NType
    <3>5. QED BY <1>1, <3>2, <3>3, <3>4
  <2>4. QED BY <2>2, <2>3
<1>16. end_pos \in 0..N /\ pl[i][2] \in 0..N BY <1>2, <1>8 DEF Inv, TypeOK
<1>17. i = Last BY <1>1, <1>8, <1>12, <1>15, <1>16, NType
<1>18. end_pos = 0 BY <1>8, <1>12, <1>14, <1>17
<1>19. QED BY <1>1, <1>8, <1>15, <1>16, <1>17, <1>18

LEMMA LiveIsUsed ==
  ASSUME Inv, NEW pl, Places(pl)
  PROVE  Live = Used(pl)
BY UsedIsClosed, UsedIsLeast DEF Live

\* The invariant gives what the run checks.
LEMMA InvSound == Inv => MailboxSound
<1> SUFFICES ASSUME Inv PROVE MailboxSound OBVIOUS
<1>1. TypeOK BY DEF Inv
<1>2. AssertsHold BY DEF Inv, Controls, AssertsHold
<1>3. FreedIsUntouched BY DEF Inv, Ending, FreedIsUntouched
<1>4. PICK pl, R, W : Places(pl) /\ Pointers(pl, R, W) /\ Memory(pl) BY DEF Inv
<1>5. Live = Used(pl) BY <1>4, LiveIsUsed
<1>6. NoChunk \notin Used(pl)
  BY <1>4, UsedIsClosed, ChunkType DEF NoChunk
<1>7. Last \in Nat /\ Popped \in Nat /\ Popped <= Last BY Numbers DEF Inv
<1>8. \A i \in Popped..Last + 1 : pl[i][1] \in Used(pl) BY DEF Used
<1>9. back_chunk \in Used(pl) /\ end_chunk \in Used(pl)
  <2>1. Last \in Popped..Last + 1 /\ Last + 1 \in Popped..Last + 1 BY <1>7
  <2>2. pl[Last] = back /\ pl[Last + 1] = <<end_chunk, end_pos>> BY <1>4 DEF Places
  <2>3. QED BY <1>8, <2>1, <2>2 DEF back
<1>10. \A p \in {w, f, r, c} : p = NULL \/ p[1] \in Used(pl)
  <2>1. R \in Popped..Last + 1 /\ W \in Popped..Last + 1 /\ Last \in Popped..Last + 1
    BY <1>4, <1>7 DEF Pointers
  <2>2. w = pl[W] /\ f = pl[Last] /\ r = pl[R] /\ c \in {NULL, w} BY <1>4 DEF Pointers
  <2>3. QED BY <1>8, <2>1, <2>2
<1>11. MemorySafe
  BY <1>4, <1>5, <1>6, <1>9, <1>10 DEF MemorySafe, Memory, Loose
<1>12. QED BY <1>1, <1>2, <1>3, <1>11 DEF MailboxSound

\* For every number of senders and commands, every heap and every size of a
\* chunk: no assertion of mailbox_t::recv or signaler_t::recv fails, every chunk
\* of the queue has one owner, no pointer of ypipe_t leads out of the queue, and
\* no sender is inside send () when the mailbox has been destroyed.
THEOREM MailboxSafe == Spec => []MailboxSound
<1>1. Init /\ [][Next]_vars => []Inv
  BY InitInv, NextInv, PTL
<1>2. QED BY <1>1, InvSound, PTL DEF Spec

-----------------------------------------------------------------------------
(* A mailbox is a queue of commands. *)

LEMMA QueueGrows ==
  ASSUME NEW S, NEW q \in Seq(S), NEW x \in S, NEW n \in 0..Len(q)
  PROVE  SubSeq(Append(q, x), n + 1, Len(q) + 1) = Append(SubSeq(q, n + 1, Len(q)), x)
<1> DEFINE l == SubSeq(Append(q, x), n + 1, Len(q) + 1)
           o == SubSeq(q, n + 1, Len(q))
<1>0. Len(q) \in Nat /\ n \in Nat /\ n <= Len(q) BY LenType
<1>1. /\ Len(Append(q, x)) = Len(q) + 1
      /\ \A i \in 1..Len(q) : Append(q, x)[i] = q[i]
      /\ Append(q, x)[Len(q) + 1] = x
  BY AppendFacts
<1>2. /\ o \in Seq(S) /\ Len(o) = Len(q) - n
      /\ \A i \in 1..Len(q) - n : o[i] = q[n + i]
  <2>1. \A i \in n + 1..Len(q) : q[i] \in S BY <1>0, ElementOfSeq
  <2>2. /\ o \in Seq(S) /\ Len(o) = (IF n + 1 <= Len(q) THEN Len(q) - (n + 1) + 1 ELSE 0)
        /\ \A i \in 1..Len(q) - (n + 1) + 1 : o[i] = q[n + 1 + i - 1]
    BY <1>0, <2>1, SubSeqProperties
  <2>3. \A i \in 1..Len(q) - n : i \in 1..Len(q) - (n + 1) + 1 /\ n + 1 + i - 1 = n + i
    BY <1>0
  <2> HIDE DEF o
  <2>4. QED BY <1>0, <2>2, <2>3
<1>3. /\ l \in Seq(S) /\ Len(l) = Len(q) + 1 - n
      /\ \A i \in 1..Len(q) + 1 - n : l[i] = Append(q, x)[n + i]
  <2>1. \A i \in n + 1..Len(q) + 1 : Append(q, x)[i] \in S
    <3>1. \A i \in n + 1..Len(q) + 1 : i \in 1..Len(q) \/ i = Len(q) + 1 BY <1>0
    <3>2. QED BY <1>1, <3>1, ElementOfSeq
  <2>2. /\ l \in Seq(S)
        /\ Len(l) = (IF n + 1 <= Len(q) + 1 THEN Len(q) + 1 - (n + 1) + 1 ELSE 0)
        /\ \A i \in 1..Len(q) + 1 - (n + 1) + 1 : l[i] = Append(q, x)[n + 1 + i - 1]
    <3>1. n + 1 \in Int /\ Len(q) + 1 \in Int BY <1>0
    <3>2. QED BY <2>1, <3>1, SubSeqProperties
  <2>3. \A i \in 1..Len(q) + 1 - n : i \in 1..Len(q) + 1 - (n + 1) + 1 /\ n + 1 + i - 1 = n + i
    BY <1>0
  <2> HIDE DEF l
  <2>4. QED BY <1>0, <2>2, <2>3
<1> HIDE DEF o, l
<1>4. /\ Append(o, x) \in Seq(S) /\ Len(Append(o, x)) = Len(o) + 1
      /\ \A i \in 1..Len(o) : Append(o, x)[i] = o[i]
      /\ Append(o, x)[Len(o) + 1] = x
  BY <1>2, AppendFacts
<1>5. Len(l) = Len(Append(o, x)) BY <1>0, <1>2, <1>3, <1>4
<1>6. ASSUME NEW i \in 1..Len(l) PROVE l[i] = Append(o, x)[i]
  <2>1. CASE i \in 1..Len(o)
    <3>1. i \in 1..Len(q) - n /\ n + i \in 1..Len(q) /\ i \in 1..Len(q) + 1 - n
      BY <1>0, <1>2, <2>1
    <3>2. QED BY <1>1, <1>2, <1>3, <1>4, <2>1, <3>1
  <2>2. CASE i = Len(o) + 1
    <3>1. n + i = Len(q) + 1 /\ i \in 1..Len(q) + 1 - n BY <1>0, <1>2, <2>2
    <3>2. QED BY <1>1, <1>3, <1>4, <2>2, <3>1
  <2>3. i \in 1..Len(o) \/ i = Len(o) + 1
    <3>1. i \in Nat /\ 1 <= i /\ i <= Len(q) + 1 - n BY <1>0, <1>3
    <3>2. Len(o) = Len(q) - n BY <1>2
    <3>3. QED BY <1>0, <3>1, <3>2
  <2>4. QED BY <2>1, <2>2, <2>3
<1>7. l = Append(o, x) BY <1>3, <1>4, <1>5, <1>6, SeqEqual
<1>8. QED BY <1>7 DEF l, o

LEMMA WriteSends ==
  ASSUME Inv, NEW s \in Senders, Write(s)
  PROVE  CQ!Send(s)
<1> DEFINE T == Senders \X (1..Commands)
<1>1. /\ spc[s] = "write" /\ written' = Append(written, <<s, nsent[s]>>)
      /\ nsent' = nsent /\ received' = received
      /\ spc'[s] # "write" /\ \A t \in Senders : t # s => spc'[t] = spc[t]
  BY DEF Write, Goto, reader, Inv, Controls
<1>2. nsent[s] \in 1..Commands /\ <<s, nsent[s]>> \in T
  BY <1>1, SenderType DEF Inv, TypeOK, Histories
<1>3. written \in Seq(T) /\ Len(received) \in 0..Len(written) /\ Len(written) \in Nat
  BY Numbers DEF Inv, HistoryTypes
<1>4. Sent[s] = nsent[s] - 1 /\ Sent'[s] = nsent[s] BY <1>1 DEF Sent
<1>5. Sent' = [Sent EXCEPT ![s] = @ + 1]
  <2>1. \A t \in Senders : t # s => Sent'[t] = Sent[t] BY <1>1 DEF Sent
  <2>2. Sent'[s] = Sent[s] + 1 BY <1>2, <1>4
  <2>3. DOMAIN Sent = Senders /\ DOMAIN Sent' = Senders
        /\ Sent = [t \in Senders |-> Sent[t]] /\ Sent' = [t \in Senders |-> Sent'[t]]
    BY DEF Sent
  <2>4. QED BY <2>1, <2>2, <2>3
<1>6. Len(written') = Len(written) + 1 BY <1>1, <1>2, <1>3, AppendFacts
<1>7. SubSeq(written', Len(received') + 1, Len(written'))
        = Append(SubSeq(written, Len(received) + 1, Len(written)), <<s, Sent'[s]>>)
  BY <1>1, <1>2, <1>3, <1>4, <1>6, QueueGrows
<1>8. Sent[s] < Commands BY <1>2, <1>4, SenderType
<1>9. QED BY <1>1, <1>5, <1>7, <1>8 DEF CQ!Send

LEMMA DeliverReceives ==
  ASSUME Inv, Inv', UNCHANGED <<written, spc, nsent>>, Deliver
  PROVE  CQ!Receive
<1> DEFINE T == Senders \X (1..Commands)
<1>1. written \in Seq(T) /\ received \in Seq(Command) /\ cmd' \in Command
  BY DEF Inv, HistoryTypes, TypeOK
<1>2. /\ received' = Append(received, cmd') /\ Len(received') = Len(received) + 1
      /\ received'[Len(received) + 1] = cmd'
  BY <1>1, AppendFacts DEF Deliver
<1>3. Len(received') <= Len(written) /\ Len(received) \in Nat /\ Len(written) \in Nat
      /\ \A i \in 1..Len(received') : received'[i] = written[i]
  <2>1. /\ HistoryTypes' /\ Histories' BY DEF Inv
  <2>2. Len(received') \in Nat /\ Len(written) \in Nat /\ Len(received) \in Nat
    BY <2>1, <1>1, LenType DEF HistoryTypes
  <2>3. Popped' <= Len(written) /\ \A i \in 1..Len(received') : received'[i] = written[i]
    BY <2>1 DEF Histories, Last
  <2>4. QED BY <2>2, <2>3 DEF Popped
<1>4. Len(received) + 1 \in 1..Len(written) /\ Len(written) \in Len(received) + 1..Len(written)
  BY <1>2, <1>3
<1>5. cmd' = written[Len(received) + 1]
  <2>1. Len(received) + 1 \in 1..Len(received') BY <1>2, <1>3
  <2>2. QED BY <1>2, <1>3, <2>1
<1> DEFINE q == SubSeq(written, Len(received) + 1, Len(written))
<1>6. /\ Head(q) = written[Len(received) + 1]
      /\ Tail(q) = SubSeq(written, Len(received) + 1 + 1, Len(written))
  BY <1>1, <1>4, HeadTailOfSubSeq
<1>7. q # <<>>
  <2>1. \A i \in Len(received) + 1..Len(written) : written[i] \in T
    BY <1>1, <1>3, ElementOfSeq
  <2>2. Len(q) = Len(written) - (Len(received) + 1) + 1
    <3>1. Len(received) + 1 \in Int /\ Len(written) \in Int
          /\ Len(received) + 1 <= Len(written)
      BY <1>3, <1>4
    <3>2. Len(q) = IF Len(received) + 1 <= Len(written)
                     THEN Len(written) - (Len(received) + 1) + 1 ELSE 0
      BY <2>1, <3>1, SubSeqProperties
    <3>3. QED BY <3>1, <3>2
  <2> HIDE DEF q
  <2>3. Len(q) # 0 BY <1>3, <1>4, <2>2
  <2>4. QED BY <2>3
<1>8. Sent' = Sent BY DEF Sent
<1>9. SubSeq(written', Len(received') + 1, Len(written')) = Tail(q)
  BY <1>2, <1>6
<1>10. received' = Append(received, Head(q)) BY <1>2, <1>5, <1>6
<1>11. QED BY <1>7, <1>8, <1>9, <1>10 DEF CQ!Receive

LEMMA StepRefines ==
  ASSUME Inv, Inv', [Next]_vars
  PROVE  [CQ!CQNext]_<<SubSeq(written, Len(received) + 1, Len(written)), received, Sent>>
<1> DEFINE stutter == UNCHANGED <<written, received>> /\ Sent' = Sent
<1>0. stutter => UNCHANGED <<SubSeq(written, Len(received) + 1, Len(written)), received, Sent>>
  OBVIOUS
<1>1. CASE UNCHANGED vars BY <1>0, <1>1 DEF vars, mvars, Sent
<1>2. ASSUME Pop \/ Spare
      PROVE  CQ!Receive \/ stutter
  <2>1. UNCHANGED <<written, spc, nsent>> BY <1>2 DEF Pop, Spare, senders
  <2>2. Deliver \/ received' = received BY <1>2 DEF Pop, Spare
  <2>3. Sent' = Sent BY <2>1 DEF Sent
  <2>4. QED BY <2>1, <2>2, <2>3, DeliverReceives
<1>3. ASSUME \/ Call \/ Read \/ SignalerRecv \/ SignalBack \/ Wait \/ DestroyLock
             \/ DestroyUnlock \/ Timeout
      PROVE  stutter
  <2>1. UNCHANGED <<written, received, spc, nsent>>
    BY <1>3 DEF Call, Read, SignalerRecv, SignalBack, Wait, DestroyLock, DestroyUnlock,
                Timeout, senders
  <2>2. QED BY <2>1 DEF Sent
<1>4. ASSUME NEW s \in Senders, Sender(s), ~Write(s)
      PROVE  stutter
  <2>1. UNCHANGED <<written, received>>
    BY <1>4 DEF Sender, Lock, Take, Link, Flush, SetC, Unlock, Signal, reader
  <2>2. ASSUME NEW t \in Senders PROVE Sent'[t] = Sent[t]
    <3>1. nsent \in [Senders -> 0..Commands] /\ spc \in [Senders -> Critical \cup {"idle", "signal"}]
      BY DEF Inv, TypeOK, Controls
    <3>2. CASE Lock(s)
      <4>1. nsent[t] \in Nat BY <3>1, SenderType
      <4>2. t # s => nsent'[t] = nsent[t] /\ spc'[t] = spc[t]
        BY <3>1, <3>2 DEF Lock, Goto
      <4>3. t = s => nsent'[t] = nsent[t] + 1 /\ spc'[t] = "write" /\ spc[t] = "idle"
        BY <3>1, <3>2 DEF Lock, Goto
      <4>4. QED BY <4>1, <4>2, <4>3 DEF Sent
    <3>3. CASE ~Lock(s)
      <4>1. nsent' = nsent
        BY <1>4, <3>3 DEF Sender, Take, Link, Flush, SetC, Unlock, Signal
      <4>2. spc'[t] = "write" <=> spc[t] = "write"
        BY <1>4, <3>1, <3>3 DEF Sender, Take, Link, Flush, SetC, Unlock, Signal, Goto
      <4>3. QED BY <4>1, <4>2 DEF Sent
    <3>4. QED BY <3>2, <3>3
  <2>3. Sent' = Sent BY <2>2 DEF Sent
  <2>4. QED BY <2>1, <2>3
<1>5. ASSUME NEW s \in Senders, Write(s)
      PROVE  \E t \in Senders : CQ!Send(t)
  BY <1>5, WriteSends
<1> HIDE DEF stutter
<1>6. Next => CQ!CQNext \/ stutter
  BY <1>2, <1>3, <1>4, <1>5 DEF Next, Reader, CQ!CQNext
<1>7. QED BY <1>0, <1>1, <1>6

\* The mailbox implements CommandQueue: whatever the chunks, pointers, signals and
\* the mutex do, each command a sender has written is received once, and in the
\* order of the writes.
THEOREM MailboxIsQueue == Spec => ImplementsQueue
<1>1. Init => CQ!CQInit
  <2>1. SUFFICES ASSUME Init PROVE CQ!CQInit OBVIOUS
  <2>2. written = <<>> /\ received = <<>> BY <2>1 DEF Init
  <2>3. SubSeq(written, Len(received) + 1, Len(written)) = <<>>
    BY <2>2, SubSeqEmpty
  <2>4. Sent = [s \in Senders |-> 0] BY <2>1 DEF Init, Sent
  <2>5. QED BY <2>2, <2>3, <2>4 DEF CQ!CQInit
<1>2. Init /\ [][Next]_vars => []Inv
  BY InitInv, NextInv, PTL
<1>3. QED BY <1>1, <1>2, StepRefines, PTL DEF Spec, ImplementsQueue, CQ!CQSpec
=============================================================================

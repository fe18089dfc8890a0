------------------------------ MODULE Mailbox -------------------------------
(***************************************************************************)
(* zmq::mailbox_t: several threads send commands to one thread through a   *)
(* ypipe and a signaler.  Senders hold sync while they write; the reader   *)
(* takes no lock.  Each step is one access to state that another thread    *)
(* can see.  The reader destroys the mailbox once it has received every    *)
(* command there will be, as zmq::ctx_t does after the command done.       *)
(***************************************************************************)
EXTENDS Ypipe, Signaler, Sequences, FiniteSets

CONSTANTS Senders,
          Commands      \* commands each sender sends

ASSUME MailboxAssumption ==
  /\ IsFiniteSet(Senders) /\ {"reader", "free"} \cap Senders = {}
  /\ Commands \in Nat

VARIABLES
  spc,        \* where each sender is in send ()
  nsent,      \* commands each sender has sent or is sending
  taken,      \* sc of push, a local variable of the sender
  sync,       \* the owner of the mutex: a sender, "reader" or "free"
  rpc,        \* where the reader is in recv () or in the destructor
  active,     \* the pipe may be read without waiting
  left,       \* o of pop, a local variable of the reader
  cmd,        \* *cmd_ of the reader
  written,    \* history: commands in the order they were written
  received    \* history: commands in the order recv () returned them

mvars == <<spc, nsent, taken, sync, rpc, active, left, cmd, written, received>>
vars  == <<qvars, pvars, svars, mvars>>

Nothing == <<>>
senders == <<spc, nsent, taken>>
reader  == <<rpc, active, left, cmd, received>>

\* mailbox_t (): the read of the empty pipe puts it to sleep.
Init ==
  /\ YpipeInit(Nothing)
  /\ c = NULL
  /\ SignalerInit
  /\ spc = [s \in Senders |-> "idle"]
  /\ nsent = [s \in Senders |-> 0]
  /\ taken = [s \in Senders |-> NoChunk]
  /\ sync = "free"
  /\ rpc = "call" /\ active = FALSE /\ left = NoChunk /\ cmd = Nothing
  /\ written = <<>> /\ received = <<>>

-----------------------------------------------------------------------------
(* send () *)

Goto(s, label) == spc' = [spc EXCEPT ![s] = label]

Lock(s) ==
  /\ spc[s] = "idle" /\ nsent[s] < Commands
  /\ sync = "free"
  /\ sync' = s
  /\ nsent' = [nsent EXCEPT ![s] = @ + 1]
  /\ Goto(s, "write")
  /\ UNCHANGED <<qvars, pvars, svars, taken, reader, written>>

Write(s) ==
  /\ spc[s] = "write"
  /\ write(<<s, nsent[s]>>)
  /\ Goto(s, IF end_pos' = N THEN "take" ELSE "flush")
  /\ written' = Append(written, <<s, nsent[s]>>)
  /\ UNCHANGED <<svars, nsent, taken, sync, reader>>

Take(s) ==
  /\ spc[s] = "take"
  /\ TakeSpare
  /\ taken' = [taken EXCEPT ![s] = spare_chunk]
  /\ Goto(s, "link")
  /\ UNCHANGED <<pvars, svars, nsent, sync, reader, written>>

Link(s) ==
  /\ spc[s] = "link"
  /\ LinkChunk(taken[s])
  /\ Goto(s, "flush")
  /\ UNCHANGED <<pvars, svars, nsent, taken, sync, reader, written>>

Flush(s) ==
  /\ spc[s] = "flush"
  /\ flush
  /\ Goto(s, IF FlushFindsReader THEN "unlock" ELSE "set")
  /\ UNCHANGED <<svars, nsent, taken, sync, reader, written>>

SetC(s) ==
  /\ spc[s] = "set"
  /\ FlushSetsC
  /\ Goto(s, "unlock_and_signal")
  /\ UNCHANGED <<svars, nsent, taken, sync, reader, written>>

Unlock(s) ==
  /\ spc[s] \in {"unlock", "unlock_and_signal"}
  /\ sync' = "free"
  /\ Goto(s, IF spc[s] = "unlock" THEN "idle" ELSE "signal")
  /\ UNCHANGED <<qvars, pvars, svars, nsent, taken, reader, written>>

Signal(s) ==
  /\ spc[s] = "signal"
  /\ send
  /\ Goto(s, "idle")
  /\ UNCHANGED <<qvars, pvars, nsent, taken, sync, reader, written>>

-----------------------------------------------------------------------------
(* recv () and the destructor *)

AllReceived == Len(received) = Commands * Cardinality(Senders)

Call ==
  /\ rpc = "call" /\ ~AllReceived
  /\ rpc' = IF active THEN "read" ELSE "wait"
  /\ UNCHANGED <<qvars, pvars, svars, senders, sync, active, left, cmd,
                 written, received>>

\* Mutant: the test that anything was prefetched is missing.
ReadUnchecked ==
  /\ rpc \in {"read", "read_signalled"}
  /\ check_read
  /\ rpc' = IF r' # NULL THEN "pop" ELSE "abort"
  /\ UNCHANGED <<svars, senders, sync, active, left, cmd, written, received>>

\* cpipe.read: straight away ("read") or after a signal ("read_signalled").
Read ==
  /\ rpc \in {"read", "read_signalled"}
  /\ check_read
  /\ LET ok == front # r' /\ r' # NULL
     IN  /\ rpc' = CASE ok -> "pop"
                     [] ~ok /\ rpc = "read" -> "signaler_recv"
                     [] OTHER -> "abort"
         /\ active' = (ok /\ active)
  /\ UNCHANGED <<svars, senders, sync, left, cmd, written, received>>

Deliver == received' = Append(received, cmd')

Pop ==
  /\ rpc = "pop"
  /\ cmd' = values[begin_chunk][begin_pos]
  /\ pop
  /\ left' = begin_chunk
  /\ IF PopLeavesChunk
       THEN rpc' = "spare" /\ UNCHANGED received
       ELSE rpc' = "call" /\ Deliver
  /\ UNCHANGED <<pvars, svars, senders, sync, active, written>>

Spare ==
  /\ rpc = "spare"
  /\ GiveSpare(left)
  /\ rpc' = "call"
  /\ UNCHANGED <<active, left, cmd>>
  /\ Deliver
  /\ UNCHANGED <<pvars, svars, senders, sync, written>>

\* Mutant: a signal that was grabbed too is not written back.
SignalerRecvAll ==
  /\ rpc = "signaler_recv"
  /\ recv
  /\ rpc' = "wait"
  /\ UNCHANGED <<qvars, pvars, senders, sync, active, left, cmd, written,
                 received>>

SignalerRecv ==
  /\ rpc = "signaler_recv"
  /\ IF RecvAsserts
       THEN recv /\ rpc' = IF GrabbedTwo THEN "signal_back" ELSE "wait"
       ELSE rpc' = "abort" /\ UNCHANGED svars
  /\ UNCHANGED <<qvars, pvars, senders, sync, active, left, cmd, written,
                 received>>

SignalBack ==
  /\ rpc = "signal_back"
  /\ send
  /\ rpc' = "wait"
  /\ UNCHANGED <<qvars, pvars, senders, sync, active, left, cmd, written,
                 received>>

Wait ==
  /\ rpc = "wait"
  /\ WaitSucceeds
  /\ active' = TRUE
  /\ rpc' = "read_signalled"
  /\ UNCHANGED <<qvars, pvars, svars, senders, sync, left, cmd, written,
                 received>>

\* recv () returns -1; its caller calls it again.
Timeout ==
  /\ rpc = "wait"
  /\ ~WaitSucceeds
  /\ rpc' = "call"
  /\ UNCHANGED <<qvars, pvars, svars, senders, sync, active, left, cmd,
                 written, received>>

\* Mutant: the destructor does not wait for the mutex.
DestroyAtOnce ==
  /\ rpc = "call" /\ AllReceived
  /\ rpc' = "freed"
  /\ UNCHANGED <<qvars, pvars, svars, senders, sync, active, left, cmd,
                 written, received>>

DestroyLock ==
  /\ rpc = "call" /\ AllReceived
  /\ sync = "free"
  /\ sync' = "reader"
  /\ rpc' = "destroy"
  /\ UNCHANGED <<qvars, pvars, svars, senders, active, left, cmd, written,
                 received>>

DestroyUnlock ==
  /\ rpc = "destroy"
  /\ sync' = "free"
  /\ rpc' = "freed"
  /\ UNCHANGED <<qvars, pvars, svars, senders, active, left, cmd, written,
                 received>>

Reader == \/ Call \/ Read \/ Pop \/ Spare \/ SignalerRecv \/ SignalBack
          \/ Wait \/ DestroyLock \/ DestroyUnlock

Sender(s) == \/ Lock(s) \/ Write(s) \/ Take(s) \/ Link(s) \/ Flush(s)
             \/ SetC(s) \/ Unlock(s) \/ Signal(s)

Next == Reader \/ Timeout \/ \E s \in Senders : Sender(s)

(***************************************************************************)
(* A thread that can take a step takes one in the end.  The mutex is       *)
(* contended, so that a sender needs strong fairness to get it.            *)
(***************************************************************************)
Fairness ==
  /\ WF_vars(Reader)
  /\ \A s \in Senders : WF_vars(Sender(s)) /\ SF_vars(Lock(s))

Spec == Init /\ [][Next]_vars /\ Fairness

-----------------------------------------------------------------------------
Command == (Senders \X (1..Commands)) \cup {Nothing}
Place   == (Chunk \X (0..N-1)) \cup {NULL}

\* The types of the queue, of the pointers of the pipe and of the threads.
TypeOK ==
  /\ {begin_chunk, back_chunk, end_chunk} \subseteq Chunk
  /\ begin_pos \in 0..N-1 /\ back_pos \in 0..N-1 /\ end_pos \in 0..N
  /\ spare_chunk \in Chunk \cup {NoChunk}
  /\ values \in [Chunk -> [0..N-1 -> Command]]
  /\ next \in [Chunk -> Chunk \cup {NoChunk}]
  /\ prev \in [Chunk -> Chunk \cup {NoChunk}]
  /\ heap \subseteq Chunk
  /\ {w, f, r, c} \subseteq Place
  /\ signals \in Nat
  /\ nsent \in [Senders -> 0..Commands]
  /\ taken \in [Senders -> Chunk \cup {NoChunk}]
  /\ sync \in Senders \cup {"reader", "free"}
  /\ active \in BOOLEAN
  /\ left \in Chunk \cup {NoChunk}
  /\ cmd \in Command

\* No assertion of recv () fails: a signal that wakes the reader always
\* announces a command (mailbox.cpp:84), and the reader never finds more
\* signals, or fewer, than signaler_t::recv allows (signaler.cpp:198-219).
AssertsHold == rpc # "abort"

\* The chunks from the front to the end of the queue: those in every set that
\* holds the front and is closed under next up to the end.
Closed(S) == begin_chunk \in S /\ \A a \in S \ {end_chunk} : next[a] \in S
Live == {a \in Chunk \cup {NoChunk} : \A S \in SUBSET Chunk : Closed(S) => a \in S}

\* Each chunk in use has one owner: the queue from front to end, the spare
\* pointer, the sender that took the spare or the reader that left a chunk.
\* No pointer of the pipe leads to a chunk outside the queue (no use after
\* free, no leak, no second use of one address), although malloc returns
\* the addresses that pop frees.
MemorySafe ==
  LET loose == {spare_chunk}
                 \cup {taken[s] : s \in {t \in Senders : spc[t] = "link"}}
                 \cup (IF rpc = "spare" THEN {left} ELSE {})
  IN  /\ {back_chunk, end_chunk} \subseteq Live /\ NoChunk \notin Live
      /\ \A p \in {w, f, r, c} : p = NULL \/ p[1] \in Live
      /\ loose \cap Live = {}
      /\ heap = (Live \cup loose) \ {NoChunk}

\* Once the reader has destroyed the mailbox no sender is inside send (),
\* not even at the signal it sends after it has left the mutex.
FreedIsUntouched == rpc = "freed" => \A s \in Senders : spc[s] = "idle"

\* A command counts as sent when it has been written to the pipe.
Sent == [s \in Senders |-> IF spc[s] = "write" THEN nsent[s] - 1 ELSE nsent[s]]

CQ == INSTANCE CommandQueue
        WITH queue <- SubSeq(written, Len(received) + 1, Len(written)),
             sent <- Sent

\* The commands are received once each and in the order of their writes,
\* whatever the pointers, chunks and signals do on the way.
ImplementsQueue == CQ!CQSpec

\* No wake-up is lost: every command is received in the end, and the reader
\* comes to destroy the mailbox.
EveryCommandArrives == <>(rpc = "freed")

\* The types hold, no assertion of mailbox_t and signaler_t fails, every chunk
\* of the queue has one owner, and nobody is in send () when the reader has
\* destroyed the mailbox.
MailboxSound == TypeOK /\ AssertsHold /\ MemorySafe /\ FreedIsUntouched
=============================================================================

------------------------------- MODULE Yqueue -------------------------------
(***************************************************************************)
(* zmq::yqueue_t: a linked list of chunks of N elements that one thread    *)
(* pushes to and another pops from.  Chunks are addresses of the heap, and *)
(* a freed address can be returned by malloc again, so that pointers into  *)
(* an old and a new chunk can be equal.  The exchange of spare_chunk is    *)
(* the only access the two threads share; each operation is split there.   *)
(***************************************************************************)
EXTENDS Naturals

CONSTANTS N,           \* elements of a chunk
          Chunk        \* the addresses malloc may return

\* config.hpp: chunks hold 16 commands or 256 messages; the first push does not
\* fill one.
ASSUME ChunkAssumption ==
  N \in Nat \ {0, 1} /\ Chunk \subseteq Nat \ {0} /\ 1 \in Chunk

NoChunk == 0

\* The operations of zmq::atomic_ptr_t.  In every build (lock prefix, load
\* and store exclusive, interlocked call or mutex) each is one step: this is
\* the new value of the pointer, and the old one is returned.
Cas(ptr, cmp, val) == IF ptr = cmp THEN val ELSE ptr

Xchg(ptr, val) == val

VARIABLES
  begin_chunk, begin_pos,   \* the front, used by the reader
  back_chunk, back_pos,     \* the back, used by the writer
  end_chunk, end_pos,       \* where the next push goes
  spare_chunk,              \* the chunk kept for reuse, or NoChunk
  values, next, prev,       \* the contents of the chunks
  heap                      \* the addresses in use

readerSide == <<begin_chunk, begin_pos>>
writerSide == <<back_chunk, back_pos, end_chunk, end_pos>>
qvars == <<readerSide, writerSide, spare_chunk, values, next, prev, heap>>

front == <<begin_chunk, begin_pos>>
back  == <<back_chunk, back_pos>>

\* The constructor, followed by the first push: the terminator of the pipe.
YqueueInit(nothing) ==
  /\ begin_chunk = 1 /\ begin_pos = 0
  /\ end_chunk = 1
  /\ back_chunk = 1 /\ back_pos = 0
  /\ end_pos = 1
  /\ spare_chunk = NoChunk
  /\ values = [a \in Chunk |-> [i \in 0..N-1 |-> nothing]]
  /\ next = [a \in Chunk |-> NoChunk]
  /\ prev = [a \in Chunk |-> NoChunk]
  /\ heap = {1}

(***************************************************************************)
(* push, up to the exchange: back moves to end, end moves on.  value is    *)
(* stored in the old back first (queue.back () = value_).  The push goes   *)
(* on with TakeSpare and LinkChunk when end has left its chunk.            *)
(***************************************************************************)
push(value) ==
  /\ values' = [values EXCEPT ![back_chunk][back_pos] = value]
  /\ back_chunk' = end_chunk
  /\ back_pos' = end_pos
  /\ end_pos' = end_pos + 1
  /\ UNCHANGED <<readerSide, end_chunk, spare_chunk, next, prev, heap>>

\* The writer takes the spare chunk; sc is what it gets.
TakeSpare ==
  /\ spare_chunk' = Xchg(spare_chunk, NoChunk)
  /\ UNCHANGED <<readerSide, writerSide, values, next, prev, heap>>

\* The writer links sc, or a chunk of malloc when there was no spare.
LinkChunk(sc) ==
  \E a \in IF sc # NoChunk THEN {sc} ELSE Chunk \ heap :
     /\ heap' = heap \cup {a}
     /\ next' = [next EXCEPT ![end_chunk] = a]
     /\ prev' = [prev EXCEPT ![a] = end_chunk]
     /\ end_chunk' = a
     /\ end_pos' = 0
     /\ UNCHANGED <<readerSide, back_chunk, back_pos, spare_chunk, values>>

\* pop, up to the exchange: the front leaves its chunk after N elements.
pop ==
  /\ IF begin_pos + 1 = N
       THEN /\ begin_chunk' = next[begin_chunk]
            /\ prev' = [prev EXCEPT ![next[begin_chunk]] = NoChunk]
            /\ begin_pos' = 0
       ELSE /\ begin_pos' = begin_pos + 1
            /\ UNCHANGED <<begin_chunk, prev>>
  /\ UNCHANGED <<writerSide, spare_chunk, values, next, heap>>

PopLeavesChunk == begin_pos + 1 = N

\* The reader makes the chunk o it has left the spare one and frees the old.
GiveSpare(o) ==
  /\ spare_chunk' = Xchg(spare_chunk, o)
  /\ heap' = heap \ {spare_chunk}
  /\ UNCHANGED <<readerSide, writerSide, values, next, prev>>
=============================================================================

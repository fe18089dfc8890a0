------------------------------- MODULE Ypipe --------------------------------
(***************************************************************************)
(* zmq::ypipe_t: the lock-free pipe over yqueue_t.  The writer owns w and  *)
(* f, the reader owns r; c is the one pointer they share, NULL while the   *)
(* reader is asleep.  Pointers are places <<chunk, position>>.             *)
(***************************************************************************)
EXTENDS Yqueue

NULL == <<NoChunk, 0>>

VARIABLES w,   \* the first item that is not flushed
          f,   \* the first item to be flushed later
          r,   \* the first item that is not prefetched
          c    \* past the last flushed item, or NULL

pvars == <<w, f, r, c>>

\* The constructor: all pointers at the terminator.
YpipeInit(nothing) ==
  /\ YqueueInit(nothing)
  /\ w = back /\ f = back /\ r = back

\* f after write (value_, false): the place where back is after the push.
write(value) ==
  /\ push(value)
  /\ f' = <<end_chunk, end_pos>>
  /\ UNCHANGED <<w, r, c>>

\* flush, its compare-and-swap.  The reader sleeps when it finds NULL.
FlushFindsReader == w = f \/ c = w
flush ==
  /\ c' = IF w = f THEN c ELSE Cas(c, w, f)
  /\ w' = IF FlushFindsReader THEN f ELSE w
  /\ UNCHANGED <<f, r, qvars>>

\* flush, when the reader sleeps: c is set without synchronisation.
FlushSetsC ==
  /\ c' = f
  /\ w' = f
  /\ UNCHANGED <<f, r, qvars>>

(***************************************************************************)
(* check_read: an item prefetched before is there; otherwise r becomes the *)
(* value of c, and c becomes NULL if there is nothing between the two.     *)
(***************************************************************************)
Prefetched == front # r /\ r # NULL
check_read ==
  /\ r' = IF Prefetched THEN r ELSE c
  /\ c' = IF Prefetched THEN c ELSE Cas(c, front, NULL)
  /\ UNCHANGED <<w, f, qvars>>
=============================================================================

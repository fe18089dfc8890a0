-------------------------------- MODULE Pipe --------------------------------
(***************************************************************************)
(* A pair of zmq::pipe_t: the two ends of the channel between a socket and *)
(* a session (or two sockets), each used by one thread.  Messages travel   *)
(* in ypipes, one per direction; the ends exchange commands through the    *)
(* mailboxes of their threads, in order.  The users of an end call write,  *)
(* flush, rollback, check_read, read, hiccup and terminate as they like.   *)
(* A method is one step, except terminate: the peer may already have the   *)
(* command pipe_term when the delimiter is written.                        *)
(***************************************************************************)
EXTENDS Naturals, Sequences, FiniteSets

CONSTANTS
  Hwm,           \* high watermark of each direction, 0 for none
  MaxWmDelta,    \* max_wm_delta of config.hpp
  Delays,        \* what pipepair may be given: delay of each end
  Writers,       \* the ends whose user writes messages
  MultiPart,     \* the ends whose messages may have two parts
  Hiccupers,     \* the ends whose user calls hiccup: sessions
  Linger,        \* the ends that may call terminate (true): sessions
  MaxMsgs,       \* bound: messages each end writes
  MaxHiccups     \* bound: calls of hiccup

Ends == {1, 2}
peer(e) == 3 - e
Upipes == 1..(2 + MaxHiccups)
None == 0

ASSUME PipeAssumption ==
  /\ Hwm \in Nat /\ MaxWmDelta \in Nat \ {0}
  /\ Delays \subseteq [Ends -> BOOLEAN]
  /\ Writers \subseteq Ends /\ MultiPart \subseteq Ends
  /\ Hiccupers \subseteq Ends /\ Linger \subseteq Ends
  /\ MaxMsgs \in [Ends -> Nat] /\ MaxHiccups \in Nat

VARIABLES
  state,                   \* of each end, "deleted" after delete this
  in_active, out_active,
  msgs_read, msgs_written, peers_msgs_read,
  delay,
  inpipe, outpipe,         \* of each end: a ypipe or None
  upipe,                   \* the contents of the ypipes
  allocated,               \* the ypipes that exist
  created,                 \* ypipes created so far: they are numbered
  cmds,                    \* commands on their way to each end
  ending,                  \* terminate: "no", "delimiter", "called"
  wmore, rmore,            \* user: inside a multipart message
  dropped,                 \* history: messages of an end a hiccup destroyed
  delimiterLost,           \* history: a hiccup destroyed a delimiter
  cut,                     \* history: the end gave up unread messages
  abort                    \* an assertion failed

ends == <<state, in_active, out_active, msgs_read, msgs_written,
          peers_msgs_read, delay, inpipe, outpipe>>
history == <<dropped, delimiterLost, cut>>
vars == <<ends, upipe, allocated, created, cmds, ending, wmore, rmore,
          history, abort>>

-----------------------------------------------------------------------------
(***************************************************************************)
(* A ypipe between two ends: the items written and not yet read, how many  *)
(* of them belong to complete messages, how many of those are flushed, and *)
(* whether the reader sleeps (c is NULL).                                  *)
(***************************************************************************)
NewUpipe == [items |-> <<>>, complete |-> 0, flushed |-> 0, asleep |-> FALSE]

Delimiter == [msg |-> 0, more |-> FALSE]
IsDelimiter(item) == item.msg = 0

UWrite(u, item, incomplete) ==
  [u EXCEPT !.items = Append(@, item),
            !.complete = IF incomplete THEN @ ELSE Len(u.items) + 1]

\* rollback: unwrite until only complete messages are left.
URollback(u) == [u EXCEPT !.items = SubSeq(@, 1, u.complete)]

UFlush(u) ==
  IF u.flushed = u.complete THEN u
  ELSE [u EXCEPT !.flushed = u.complete, !.asleep = FALSE]

\* flush returns false: the reader has to be woken up.
UFlushWakes(u) == u.flushed # u.complete /\ u.asleep

UPop(u) == [u EXCEPT !.items = Tail(@), !.complete = @ - 1, !.flushed = @ - 1]

\* The messages in a sequence of items: their last parts, delimiters apart.
CountMessages(items) ==
  Cardinality({i \in DOMAIN items : ~items[i].more /\ ~IsDelimiter(items[i])})

\* Mutant: a low watermark above the high one.
LwmTooHigh(hwm) == hwm + 1

compute_lwm(hwm) ==
  IF hwm > MaxWmDelta * 2 THEN hwm - MaxWmDelta ELSE (hwm + 1) \div 2

-----------------------------------------------------------------------------
\* pipepair and the constructor: both ends active over two fresh ypipes.
Init ==
  /\ state = [e \in Ends |-> "active"]
  /\ in_active = [e \in Ends |-> TRUE] /\ out_active = [e \in Ends |-> TRUE]
  /\ msgs_read = [e \in Ends |-> 0] /\ msgs_written = [e \in Ends |-> 0]
  /\ peers_msgs_read = [e \in Ends |-> 0]
  /\ delay \in Delays
  /\ inpipe = [e \in Ends |-> e] /\ outpipe = [e \in Ends |-> peer(e)]
  /\ upipe = [u \in Upipes |-> NewUpipe] /\ allocated = Ends /\ created = 2
  /\ cmds = [e \in Ends |-> <<>>]
  /\ ending = [e \in Ends |-> "no"]
  /\ wmore = [e \in Ends |-> FALSE] /\ rmore = [e \in Ends |-> FALSE]
  /\ dropped = [e \in Ends |-> 0] /\ cut = [e \in Ends |-> FALSE]
  /\ delimiterLost = FALSE
  /\ abort = FALSE

In(e)  == upipe[inpipe[e]]
Out(e) == upipe[outpipe[e]]

\* The thread of e is free to call a method of the end.
Free(e) == state[e] # "deleted" /\ ending[e] # "delimiter"

Readable(e) == in_active[e] /\ state[e] \in {"active", "pending"}

Command(type) == [type |-> type, arg |-> 0]

\* The commands after e has sent one to its peer.
Sent(e, cmd) == [cmds EXCEPT ![peer(e)] = Append(@, cmd)]

\* The delimiter has been taken out of the inpipe of e.
delimit(e) ==
  /\ CASE state[e] = "active" ->
            state' = [state EXCEPT ![e] = "delimited"]
            /\ UNCHANGED <<outpipe, cmds, abort>>
       [] state[e] = "pending" ->
            /\ outpipe' = [outpipe EXCEPT ![e] = None]
            /\ cmds' = Sent(e, Command("pipe_term_ack"))
            /\ state' = [state EXCEPT ![e] = "terminating"]
            /\ UNCHANGED abort
       [] OTHER -> abort' = TRUE /\ UNCHANGED <<state, outpipe, cmds>>

(***************************************************************************)
(* check_read, where it changes something: the pipe is empty, or the next  *)
(* item is the delimiter.  read does the same in these two cases.          *)
(***************************************************************************)
check_read(e) ==
  /\ Free(e) /\ Readable(e)
  /\ \/ /\ In(e).flushed = 0
        /\ in_active' = [in_active EXCEPT ![e] = FALSE]
        /\ upipe' = [upipe EXCEPT ![inpipe[e]].asleep = TRUE]
        /\ UNCHANGED <<state, outpipe, cmds, abort>>
     \/ /\ In(e).flushed > 0 /\ IsDelimiter(Head(In(e).items))
        /\ upipe' = [upipe EXCEPT ![inpipe[e]] = UPop(@)]
        /\ delimit(e)
        /\ UNCHANGED in_active
  /\ UNCHANGED <<allocated, created, out_active, msgs_read, msgs_written,
                 peers_msgs_read, delay, inpipe, ending, wmore, rmore,
                 history>>

\* read, when there is a message part.
read(e) ==
  /\ Free(e) /\ Readable(e)
  /\ In(e).flushed > 0
  /\ LET item == Head(In(e).items)
         lwm  == compute_lwm(Hwm)
     IN  /\ ~IsDelimiter(item)
         /\ upipe' = [upipe EXCEPT ![inpipe[e]] = UPop(@)]
         /\ msgs_read' = [msgs_read EXCEPT ![e] = @ + IF item.more THEN 0 ELSE 1]
         /\ rmore' = [rmore EXCEPT ![e] = item.more]
         /\ cmds' = IF lwm > 0 /\ msgs_read'[e] % lwm = 0
                      THEN Sent(e, [type |-> "activate_write", arg |-> msgs_read'[e]])
                      ELSE cmds
  /\ UNCHANGED <<allocated, created, state, in_active, out_active,
                 msgs_written, peers_msgs_read, delay, inpipe, outpipe,
                 ending, wmore, history, abort>>

Full(e) == Hwm > 0 /\ msgs_written[e] - peers_msgs_read[e] = Hwm

\* check_write, where it changes something: the pipe is full.
check_write(e) ==
  /\ Free(e) /\ e \in Writers
  /\ out_active[e] /\ state[e] = "active"
  /\ Full(e)
  /\ out_active' = [out_active EXCEPT ![e] = FALSE]
  /\ UNCHANGED <<allocated, created, state, in_active, msgs_read,
                 msgs_written, peers_msgs_read, delay, inpipe, outpipe, upipe,
                 cmds, ending, wmore, rmore, history, abort>>

\* write of one part; a message has at most two.
write(e, more) ==
  /\ Free(e) /\ e \in Writers /\ msgs_written[e] < MaxMsgs[e]
  /\ out_active[e] /\ state[e] = "active" /\ ~Full(e)
  /\ more => e \in MultiPart /\ ~wmore[e]
  /\ upipe' = [upipe EXCEPT ![outpipe[e]] =
                 UWrite(@, [msg |-> msgs_written[e] + 1, more |-> more], more)]
  /\ msgs_written' = [msgs_written EXCEPT ![e] = @ + IF more THEN 0 ELSE 1]
  /\ wmore' = [wmore EXCEPT ![e] = more]
  /\ UNCHANGED <<allocated, created, state, in_active, out_active, msgs_read,
                 peers_msgs_read, delay, inpipe, outpipe, cmds, ending, rmore,
                 history, abort>>

\* The user drops the parts of a message it has not finished.
rollback(e) ==
  /\ Free(e) /\ e \in Writers /\ outpipe[e] # None
  /\ wmore[e]
  /\ abort' = (abort \/ \E i \in Out(e).complete+1 .. Len(Out(e).items) :
                             ~Out(e).items[i].more)
  /\ upipe' = [upipe EXCEPT ![outpipe[e]] = URollback(@)]
  /\ wmore' = [wmore EXCEPT ![e] = FALSE]
  /\ UNCHANGED <<allocated, created, ends, cmds, ending, rmore, history>>

flush(e) ==
  /\ Free(e) /\ state[e] # "terminating"
  /\ outpipe[e] # None
  /\ Out(e).flushed # Out(e).complete
  /\ upipe' = [upipe EXCEPT ![outpipe[e]] = UFlush(@)]
  /\ cmds' = IF UFlushWakes(Out(e)) THEN Sent(e, Command("activate_read")) ELSE cmds
  /\ UNCHANGED <<allocated, created, ends, ending, wmore, rmore, history,
                 abort>>

\* Mutant: a second call is not ignored.
TerminateAgain(e, d) ==
  /\ Free(e)
  /\ state[e] \in {"active", "delimited", "terminated"}
  /\ Len(cmds[peer(e)]) < 2
  /\ cmds' = Sent(e, Command("pipe_term"))
  /\ state' = [state EXCEPT ![e] = "terminated"]
  /\ UNCHANGED <<in_active, out_active, msgs_read, msgs_written,
                 peers_msgs_read, delay, inpipe, outpipe, upipe, allocated,
                 created, ending, wmore, rmore, history, abort>>

(***************************************************************************)
(* terminate, up to the delimiter.  In the states terminated, double_      *)
(* terminated and terminating only the delay is stored.                    *)
(***************************************************************************)
terminate(e, d) ==
  /\ Free(e)
  /\ d => e \in Linger /\ ending[e] = "no"
  /\ state[e] \in {"active", "pending", "delimited"}
  /\ delay' = [delay EXCEPT ![e] = d]
  /\ out_active' = [out_active EXCEPT ![e] = FALSE]
  /\ \/ /\ state[e] \in {"active", "delimited"}
        /\ cmds' = Sent(e, Command("pipe_term"))
        /\ state' = [state EXCEPT ![e] = "terminated"]
        /\ UNCHANGED outpipe
     \/ /\ state[e] = "pending" /\ ~d
        /\ outpipe' = [outpipe EXCEPT ![e] = None]
        /\ cmds' = Sent(e, Command("pipe_term_ack"))
        /\ state' = [state EXCEPT ![e] = "terminating"]
     \/ /\ state[e] = "pending" /\ d
        /\ UNCHANGED <<cmds, state, outpipe>>
  /\ ending' = [ending EXCEPT ![e] = IF outpipe'[e] # None THEN "delimiter" ELSE "called"]
  /\ cut' = [cut EXCEPT ![e] = @ \/ state'[e] # "pending"]
  /\ UNCHANGED <<allocated, created, in_active, msgs_read, msgs_written,
                 peers_msgs_read, inpipe, upipe, wmore, rmore, dropped,
                 delimiterLost, abort>>

\* The rest of terminate: rollback, the delimiter, flush.
WriteDelimiter(e) ==
  /\ ending[e] = "delimiter"
  /\ LET u == UWrite(URollback(Out(e)), Delimiter, FALSE)
     IN  /\ upipe' = [upipe EXCEPT ![outpipe[e]] = UFlush(u)]
         /\ cmds' = IF UFlushWakes(u) THEN Sent(e, Command("activate_read")) ELSE cmds
  /\ wmore' = [wmore EXCEPT ![e] = FALSE]
  /\ ending' = [ending EXCEPT ![e] = "called"]
  /\ UNCHANGED <<allocated, created, ends, rmore, history, abort>>

\* A new inpipe; the old one belongs to the peer from now on.
hiccup(e) ==
  /\ Free(e) /\ e \in Hiccupers
  /\ state[e] = "active"
  /\ created < 2 + MaxHiccups
  /\ created' = created + 1
  /\ allocated' = allocated \cup {created'}
  /\ inpipe' = [inpipe EXCEPT ![e] = created']
  /\ cmds' = Sent(e, [type |-> "hiccup", arg |-> created'])
  /\ in_active' = [in_active EXCEPT ![e] = TRUE]
  /\ rmore' = [rmore EXCEPT ![e] = FALSE]
  /\ UNCHANGED <<upipe, state, out_active, msgs_read, msgs_written,
                 peers_msgs_read, delay, outpipe, ending, wmore, history,
                 abort>>

-----------------------------------------------------------------------------
(* The commands, processed by the thread of the end. *)

Receives(e, type) ==
  /\ Free(e)
  /\ cmds[e] # <<>> /\ Head(cmds[e]).type = type

\* The commands after e has taken its first one and sent cmd to its peer.
Answered(e, cmd) ==
  [cmds EXCEPT ![e] = Tail(@), ![peer(e)] = Append(@, cmd)]
Taken(e) == [cmds EXCEPT ![e] = Tail(@)]

process_activate_read(e) ==
  /\ Receives(e, "activate_read")
  /\ cmds' = Taken(e)
  /\ in_active' = [in_active EXCEPT ![e] = @ \/ state[e] \in {"active", "pending"}]
  /\ UNCHANGED <<allocated, created, state, out_active, msgs_read,
                 msgs_written, peers_msgs_read, delay, inpipe, outpipe, upipe,
                 ending, wmore, rmore, history, abort>>

process_activate_write(e) ==
  /\ Receives(e, "activate_write")
  /\ cmds' = Taken(e)
  /\ peers_msgs_read' = [peers_msgs_read EXCEPT ![e] = Head(cmds[e]).arg]
  /\ out_active' = [out_active EXCEPT ![e] = @ \/ state[e] = "active"]
  /\ UNCHANGED <<allocated, created, state, in_active, msgs_read,
                 msgs_written, delay, inpipe, outpipe, upipe, ending, wmore,
                 rmore, history, abort>>

(***************************************************************************)
(* process_hiccup: the old outpipe is drained and deleted; the new one     *)
(* takes its place.  The user starts no part of a message anew: the rest   *)
(* of an unfinished message goes to the new pipe (wmore stays).            *)
(***************************************************************************)
process_hiccup(e) ==
  /\ Receives(e, "hiccup")
  /\ cmds' = Taken(e)
  /\ IF outpipe[e] = None
       THEN abort' = TRUE /\ UNCHANGED <<upipe, allocated, outpipe,
                                         out_active, history>>
       ELSE /\ upipe' = [upipe EXCEPT ![outpipe[e]] = NewUpipe]
            /\ allocated' = allocated \ {outpipe[e]}
            /\ outpipe' = [outpipe EXCEPT ![e] = Head(cmds[e]).arg]
            /\ out_active' = [out_active EXCEPT ![e] = TRUE]
            /\ dropped' = [dropped EXCEPT ![e] = @ + CountMessages(Out(e).items)]
            /\ delimiterLost' = (delimiterLost
                 \/ \E i \in DOMAIN Out(e).items : IsDelimiter(Out(e).items[i]))
            /\ UNCHANGED <<cut, abort>>
  /\ UNCHANGED <<created, state, in_active, msgs_read, msgs_written,
                 peers_msgs_read, delay, inpipe, ending, wmore, rmore>>

\* Mutant: pending messages are dropped although delay is set.
PipeTermAtOnce(e) ==
  /\ Receives(e, "pipe_term")
  /\ state' = [state EXCEPT ![e] =
                 IF @ = "terminated" THEN "double_terminated" ELSE "terminating"]
  /\ outpipe' = [outpipe EXCEPT ![e] = None]
  /\ cmds' = Answered(e, Command("pipe_term_ack"))
  /\ UNCHANGED <<in_active, out_active, msgs_read, msgs_written,
                 peers_msgs_read, delay, inpipe, upipe, allocated, created,
                 ending, wmore, rmore, history, abort>>

process_pipe_term(e) ==
  /\ Receives(e, "pipe_term")
  /\ \/ /\ state[e] = "active" /\ delay[e]
        /\ state' = [state EXCEPT ![e] = "pending"]
        /\ cmds' = Taken(e)
        /\ UNCHANGED <<outpipe, cut, abort>>
     \/ /\ \/ state[e] = "active" /\ ~delay[e]
           \/ state[e] \in {"delimited", "terminated"}
        /\ state' = [state EXCEPT ![e] =
                       IF @ = "terminated" THEN "double_terminated" ELSE "terminating"]
        /\ outpipe' = [outpipe EXCEPT ![e] = None]
        /\ cmds' = Answered(e, Command("pipe_term_ack"))
        /\ cut' = [cut EXCEPT ![e] = @ \/ state[e] = "active"]
        /\ UNCHANGED abort
     \/ /\ state[e] \notin {"active", "delimited", "terminated"}
        /\ abort' = TRUE
        /\ UNCHANGED <<state, outpipe, cmds, cut>>
  /\ UNCHANGED <<allocated, created, in_active, out_active, msgs_read,
                 msgs_written, peers_msgs_read, delay, inpipe, upipe, ending,
                 wmore, rmore, dropped, delimiterLost>>

\* Mutant: an end that called terminate does not answer the ack.
TermAckUnanswered(e) ==
  /\ Receives(e, "pipe_term_ack")
  /\ cmds' = Taken(e)
  /\ outpipe' = [outpipe EXCEPT ![e] = None]
  /\ upipe' = [upipe EXCEPT ![inpipe[e]] = NewUpipe]
  /\ allocated' = allocated \ {inpipe[e]}
  /\ state' = [state EXCEPT ![e] = "deleted"]
  /\ UNCHANGED <<in_active, out_active, msgs_read, msgs_written,
                 peers_msgs_read, delay, inpipe, created, ending, wmore,
                 rmore, history, abort>>

\* The inpipe is drained and deleted, and then the end itself.
process_pipe_term_ack(e) ==
  /\ Receives(e, "pipe_term_ack")
  /\ abort' = (abort \/ state[e] \notin {"terminated", "terminating", "double_terminated"})
  /\ cmds' = IF state[e] = "terminated"
               THEN Answered(e, Command("pipe_term_ack")) ELSE Taken(e)
  /\ outpipe' = [outpipe EXCEPT ![e] = None]
  /\ upipe' = [upipe EXCEPT ![inpipe[e]] = NewUpipe]
  /\ allocated' = allocated \ {inpipe[e]}
  /\ state' = [state EXCEPT ![e] = "deleted"]
  /\ UNCHANGED <<created, in_active, out_active, msgs_read, msgs_written,
                 peers_msgs_read, delay, inpipe, ending, wmore, rmore,
                 history>>

Process(e) ==
  \/ process_activate_read(e) \/ process_activate_write(e)
  \/ process_hiccup(e) \/ process_pipe_term(e) \/ process_pipe_term_ack(e)

User(e) ==
  \/ check_read(e) \/ read(e)
  \/ check_write(e) \/ \E more \in BOOLEAN : write(e, more)
  \/ rollback(e) \/ flush(e)
  \/ hiccup(e) \/ \E d \in BOOLEAN : terminate(e, d)

Next == \E e \in Ends : User(e) \/ Process(e) \/ WriteDelimiter(e)

(***************************************************************************)
(* Threads process their commands and finish their methods; readers read   *)
(* as long as there is something to read, and writers flush.               *)
(***************************************************************************)
Fairness ==
  \A e \in Ends : /\ WF_vars(Process(e)) /\ WF_vars(WriteDelimiter(e))
                  /\ WF_vars(check_read(e) \/ read(e)) /\ WF_vars(flush(e))

Spec == Init /\ [][Next]_vars /\ Fairness

-----------------------------------------------------------------------------
States == {"active", "delimited", "pending", "terminating", "terminated",
           "double_terminated", "deleted"}
CommandTypes == {"activate_read", "activate_write", "hiccup", "pipe_term",
                 "pipe_term_ack"}

\* The types; a counter of read messages never passes that of the writer.
TypeOK ==
  /\ state \in [Ends -> States]
  /\ in_active \in [Ends -> BOOLEAN] /\ out_active \in [Ends -> BOOLEAN]
  /\ \A e \in Ends : /\ msgs_written[e] \in 0..MaxMsgs[e]
                     /\ msgs_read[e] \in 0..msgs_written[peer(e)]
                     /\ peers_msgs_read[e] \in 0..msgs_read[peer(e)]
                     /\ dropped[e] \in 0..msgs_written[e]
  /\ delay \in [Ends -> BOOLEAN]
  /\ allocated \subseteq Upipes /\ created \in Upipes
  /\ inpipe \in [Ends -> Upipes] /\ outpipe \in [Ends -> Upipes \cup {None}]
  /\ \A e \in Ends : \A i \in DOMAIN cmds[e] : cmds[e][i].type \in CommandTypes
  /\ ending \in [Ends -> {"no", "delimiter", "called"}]
  /\ wmore \in [Ends -> BOOLEAN] /\ rmore \in [Ends -> BOOLEAN]
  /\ cut \in [Ends -> BOOLEAN] /\ delimiterLost \in BOOLEAN

\* No assertion of pipe.cpp fails, in any order of two terminations, hiccups
\* and commands on their way: pipe_term and its ack only come in the states
\* that expect them (lines 280, 298), a delimiter only in those that read
\* (426), rollback meets only parts to be continued (183), and a hiccup
\* finds an outpipe to replace (223).
AssertsHold == ~abort

\* No command is on its way to an end that has deleted itself, no end that
\* exists uses a ypipe that was deleted, and nothing is left allocated once
\* both ends are gone (lines 300-313).
NothingDangles ==
  /\ \A e \in Ends : state[e] = "deleted" => cmds[e] = <<>>
  /\ \A e \in Ends : state[e] # "deleted" => inpipe[e] \in allocated
  /\ \A e \in Ends : outpipe[e] # None => outpipe[e] \in allocated
  /\ (\A e \in Ends : state[e] = "deleted") => allocated = {}

\* The messages that were written and not read are never more than the high
\* watermark allows, although the writer learns of reads by commands that
\* are late (lines 143-144, 154).
WithinWatermark ==
  \A e \in Ends : outpipe[e] # None /\ Hwm > 0 => CountMessages(Out(e).items) <= Hwm

\* A reader that has got a part of a message finds the rest of it, the part
\* of the same message: it never meets an empty pipe or the delimiter inside
\* a message, whatever the writer rolls back or leaves unfinished and
\* whatever hiccups drop before it (lines 177-188, 366-374).
WholeMessages ==
  \A e \in Ends :
    rmore[e] /\ state[e] \in {"active", "pending"} =>
      /\ in_active[e] /\ In(e).flushed > 0
      /\ Head(In(e).items).msg = msgs_read[e] + dropped[peer(e)] + 1

\* An end that waits for the delimiter before it terminates (delay) has read
\* every message the peer completed, unless a hiccup destroyed it.
DelayKeepsMessages ==
  \A e \in Ends :
    state[e] \in {"delimited", "deleted"} /\ ~cut[e] =>
      msgs_read[e] + dropped[peer(e)] = msgs_written[peer(e)]

\* Once terminate is called on one end both ends are deleted, as long as no
\* hiccup destroys the delimiter the other end waits for.
BothEndsGo ==
  \A e \in Ends :
    state[e] = "terminated" ~>
      (delimiterLost \/ \A x \in Ends : state[x] = "deleted")

\* A writer stopped by the watermark is activated again while the reader
\* reads, as long as no hiccup destroys messages it has counted.
WriterResumes ==
  \A e \in Ends :
    (state[e] = "active" /\ ~out_active[e]) ~>
      (out_active[e] \/ state[e] # "active" \/ dropped[e] > 0)

\* The types hold, no assertion of pipe.cpp fails, and no end that is gone is
\* sent a command, no ypipe that is gone is used and none is left.
PipeSound == TypeOK /\ AssertsHold /\ NothingDangles

\* A pipe holds whole messages, no more than the watermark allows, and those
\* that an end waits for are not lost when the other end goes.
MessagesKept == WithinWatermark /\ WholeMessages /\ DelayKeepsMessages
=============================================================================

---------------------------- MODULE CommandQueue ----------------------------
(***************************************************************************)
(* What a mailbox promises: the commands of all senders form one queue, a  *)
(* sender appends its commands in its order, and the owner of the mailbox  *)
(* receives each command once, the oldest first.                           *)
(***************************************************************************)
EXTENDS Naturals, Sequences

CONSTANTS Senders, Commands   \* Commands: how many each sender sends

VARIABLES queue, received,
          sent       \* how many commands each sender has sent

CQInit == queue = <<>> /\ received = <<>> /\ sent = [s \in Senders |-> 0]

Send(s) ==
  /\ sent[s] < Commands
  /\ sent' = [sent EXCEPT ![s] = @ + 1]
  /\ queue' = Append(queue, <<s, sent'[s]>>)
  /\ UNCHANGED received

Receive ==
  /\ queue # <<>>
  /\ received' = Append(received, Head(queue))
  /\ queue' = Tail(queue)
  /\ UNCHANGED sent

CQNext == Receive \/ \E s \in Senders : Send(s)

CQSpec == CQInit /\ [][CQNext]_<<queue, received, sent>>
=============================================================================

-------------------------------- MODULE Own ---------------------------------
(***************************************************************************)
(* zmq::own_t: the ownership tree and its orderly destruction.  An object  *)
(* is destroyed when it is terminating, its children and pipes have        *)
(* acknowledged their end, and it has processed every command that was     *)
(* announced to it by inc_seqnum.  The operators give the record of an     *)
(* object after a method; the caller sends the commands.                   *)
(***************************************************************************)
EXTENDS Naturals

NoOwner == "none"

\* The constructor and set_owner.
NewOwn(owner) ==
  [terminating |-> FALSE, sent_seqnum |-> 0, processed_seqnum |-> 0,
   owner |-> owner, owned |-> {}, term_acks |-> 0]

inc_seqnum(rec) == [rec EXCEPT !.sent_seqnum = @ + 1]

process_seqnum(rec) == [rec EXCEPT !.processed_seqnum = @ + 1]

register_term_acks(rec, count) == [rec EXCEPT !.term_acks = @ + count]

unregister_term_ack(rec) == [rec EXCEPT !.term_acks = @ - 1]

\* The children process_term_req asks to terminate: none when the request
\* comes too late.
TermReqAsks(rec, object) ==
  IF rec.terminating THEN {} ELSE rec.owned \cap {object}

process_term_req(rec, object) ==
  IF TermReqAsks(rec, object) = {} THEN rec
  ELSE [rec EXCEPT !.owned = @ \ {object}, !.term_acks = @ + 1]

\* A child that comes while its owner terminates is asked to terminate.
OwnAsks(rec, object) == IF rec.terminating THEN {object} ELSE {}

process_own(rec, object) ==
  IF rec.terminating THEN register_term_acks(rec, 1)
  ELSE [rec EXCEPT !.owned = @ \cup {object}]

\* process_term: the caller sends term to all rec.owned.
process_term(rec, children) ==
  [rec EXCEPT !.term_acks = @ + children, !.owned = {}, !.terminating = TRUE]

\* check_term_acks: the object acknowledges its end and is destroyed.
check_term_acks(rec) ==
  /\ rec.terminating
  /\ rec.processed_seqnum = rec.sent_seqnum
  /\ rec.term_acks = 0
=============================================================================

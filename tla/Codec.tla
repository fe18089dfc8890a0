------------------------------- MODULE Codec --------------------------------
(***************************************************************************)
(* The framing of messages on a stream of bytes: encoder_t and decoder_t   *)
(* (version 0), v1_encoder_t and v1_decoder_t (version 1).  A byte has     *)
(* Byte values and a long length has Long bytes, 256 and 8 in the code.    *)
(* A message is its flag more and its body, a sequence of bytes.           *)
(*                                                                         *)
(* Both are state machines that are run over buffers of any size: to_write *)
(* is what the encoder has not put into a buffer yet, and to_read how much *)
(* the decoder needs before its next step; partial is what it has of that. *)
(***************************************************************************)
EXTENDS Integers, Sequences

CONSTANTS Byte, Long

ASSUME CodecAssumption == Byte \in Nat /\ Byte >= 4 /\ Long \in Nat \ {0}

FF == Byte - 1
min(m, n) == IF m < n THEN m ELSE n
Drop(s, n) == SubSeq(s, n + 1, Len(s))

\* put_uint64 and get_uint64: the most significant byte comes first.
put_uint64(n) == [i \in 1..Long |-> (n \div Byte^(Long - i)) % Byte]
get_uint64(s) ==
  LET value[i \in 0..Len(s)] == IF i = 0 THEN 0 ELSE value[i - 1] * Byte + s[i]
  IN value[Len(s)]

Flag(b) == IF b THEN 1 ELSE 0
Bit(n, b) == (n \div b) % 2 = 1

-----------------------------------------------------------------------------
(* Encoders. *)

\* Mutant of Header: the boundary of version 1 is used for version 0.
HeaderLongLate(version, m) ==
  LET size == Len(m.body)
      large == size > FF
  IN IF version = 0
     THEN IF ~large THEN <<(size + 1) % Byte, Flag(m.more)>>
          ELSE <<FF>> \o put_uint64(size + 1) \o <<Flag(m.more)>>
     ELSE IF large THEN <<Flag(m.more) + 2>> \o put_uint64(size)
          ELSE <<Flag(m.more), size>>

\* What message_ready writes: version 0 counts the flags in the size.
Header(version, m) ==
  LET size == Len(m.body)
  IN IF version = 0
     THEN IF size + 1 < FF THEN <<size + 1, Flag(m.more)>>
          ELSE <<FF>> \o put_uint64(size + 1) \o <<Flag(m.more)>>
     ELSE IF size > FF THEN <<Flag(m.more) + 2>> \o put_uint64(size)
          ELSE <<Flag(m.more), size>>

NoMsg == [more |-> FALSE, body |-> <<>>]
NewEncoder(version) ==
  [version |-> version, to_write |-> <<>>, next |-> "message_ready",
   in_progress |-> NoMsg]

\* message_ready with the message that the source gave, and size_ready.
EncodeHeader(enc, m) ==
  [enc EXCEPT !.to_write = Header(enc.version, m), !.next = "size_ready",
              !.in_progress = m]
EncodeBody(enc) ==
  [enc EXCEPT !.to_write = enc.in_progress.body, !.next = "message_ready"]

has_data(enc) == enc.to_write # <<>>

-----------------------------------------------------------------------------
(* Decoders. *)

NewDecoder(version) ==
  [version |-> version, to_read |-> 1, partial |-> <<>>,
   next |-> IF version = 0 THEN "one_byte_size_ready" ELSE "flags_ready",
   size |-> 0, more |-> FALSE]

next_step(dec, n, next) ==
  [dec EXCEPT !.to_read = n, !.partial = <<>>, !.next = next]
decoding_error(dec) == [dec EXCEPT !.next = "NULL"]
IsDead(dec) == dec.next = "NULL"

\* maxmsgsize: -1 is no limit.
TooLarge(dec, size, max) == max >= 0 /\ size > max

\* In version 0 the flags follow the size, in version 1 the body does.  Memory
\* is taken to suffice, and size_t to hold every length.
SizeKnown(dec, size, max) ==
  IF TooLarge(dec, size, max) THEN decoding_error(dec)
  ELSE IF dec.version = 0
  THEN [next_step(dec, 1, "flags_ready") EXCEPT !.size = size]
  ELSE [next_step(dec, size, "message_ready") EXCEPT !.size = size]

one_byte_size_ready(dec, max) ==
  LET b == dec.partial[1]
  IN IF dec.version = 1 THEN SizeKnown(dec, b, max)
     ELSE IF b = FF THEN next_step(dec, Long, "eight_byte_size_ready")
     ELSE IF b = 0 THEN decoding_error(dec)
     ELSE SizeKnown(dec, b - 1, max)

eight_byte_size_ready(dec, max) ==
  LET n == get_uint64(dec.partial)
  IN IF dec.version = 1 THEN SizeKnown(dec, n, max)
     ELSE IF n = 0 THEN decoding_error(dec)
     ELSE SizeKnown(dec, n - 1, max)

flags_ready(dec) ==
  LET b == dec.partial[1]
      d == [dec EXCEPT !.more = Bit(b, 1)]
  IN IF dec.version = 0 THEN next_step(d, dec.size, "message_ready")
     ELSE IF Bit(b, 2) THEN next_step(d, Long, "eight_byte_size_ready")
     ELSE next_step(d, 1, "one_byte_size_ready")

\* The message was pushed: the next one begins.
MessagePushed(dec) == NewDecoder(dec.version)

\* The steps that need nothing but the decoder.
DecoderStep(dec, max) ==
  CASE dec.next = "one_byte_size_ready" -> one_byte_size_ready(dec, max)
    [] dec.next = "eight_byte_size_ready" -> eight_byte_size_ready(dec, max)
    [] dec.next = "flags_ready" -> flags_ready(dec)

Decoded(dec) == [more |-> dec.more, body |-> dec.partial]

\* process_buffer copies the data that the next step needs.
Copy(dec, data) ==
  LET n == min(dec.to_read, Len(data))
  IN [dec EXCEPT !.partial = @ \o SubSeq(data, 1, n), !.to_read = @ - n]
=============================================================================

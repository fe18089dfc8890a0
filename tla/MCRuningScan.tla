----------------------------- MODULE MCRuningScan -----------------------------
(***************************************************************************)
(* Two services whose names meet: "a" with count 10 and "a1" with count 0  *)
(* are both "a10".                                                         *)
(***************************************************************************)
EXTENDS RuningScan

MCServices == { "a", "a1" }

Stem == [ a |-> << "a" >>, a1 |-> << "a", 1 >> ]

Digits(c) == IF c < 10 THEN << c >> ELSE << c \div 10, c % 10 >>

MCInstanceName(s, c) == Stem[s] \o Digits(c)

=============================================================================

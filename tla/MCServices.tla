----------------------------- MODULE MCServices -----------------------------
(* A small instance of Services for TLC.                                   *)
EXTENDS Services, TLC

CONSTANTS c1, c2, d1, d2, d3, p1, p2

Two   == {c1, c2}
Three == {d1, d2, d3}
Pair  == {p1, p2}

\* Used for interchangeable things only: requests, tokens, uploads, checks.
Symmetry == Permutations(Two) \union Permutations(Three) \union Permutations(Pair)

OneToFour     == 1..4
AnnThenBob    == <<"ann", "bob">>
SecondIsNewer == <<{2}, {}>>
ImageNeedsBoth == [image |-> {1, 2}]
Defaults == [things |-> 2, bytes |-> 3]
Limits   == [things |-> None, bytes |-> 4]
=============================================================================

------------------------------ MODULE MCForge -------------------------------
(* A small instance of Forge for TLC.                                      *)
EXTENDS Forge, TLC

CONSTANTS c1, c2, c3, p1, p2

Two   == {c1, c2}
Three == {c1, c2, c3}
Pair  == {p1, p2}

\* Used for interchangeable things only: requests, projects, commits, secrets.
\* What leaves Two as it is leaves Three as it is.
Symmetry == Permutations(Two) \union Permutations(Pair)

\* Bounds, on what comes together.  A branch the merge button moved is excepted
\* from TipsAreTold for good, so it is followed only beside a protection.
FewThings ==
    /\ scene = "workspaces" => boxes + work + troubles <= 4
    /\ scene = "pushes" => byHand = {} \/ rulings > 0

Bodies == {<<>>, <<"new", "new">>}
=============================================================================

----------------------------- MODULE MCLifespan -----------------------------
(* Instances of Lifespan for TLC. *)
EXTENDS Lifespan, TLC

CONSTANTS c1, c2

TwoCalls == {c1, c2}

\* Below and above the grace period.
ShortAndLong == {1, 4}

CallSymmetry == Permutations(Calls)
=============================================================================

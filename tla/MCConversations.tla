-------------------------- MODULE MCConversations ---------------------------
(* Instances of Conversations for TLC. *)
EXTENDS Conversations, TLC

CONSTANTS t1, t2, t3, c1

OneConv == [t \in Turns |-> c1]
\* Two questions fit in the window together; one question, and every reply, is
\* larger than it.
OneLongQuestion ==
  [x \in Turns \X Roles |-> IF x[2] = "user" /\ x[1] # t1 THEN 1 ELSE 3]

TurnSymmetry == Permutations(Turns \ {t1})
=============================================================================

---------------------------- MODULE RecentWindow ----------------------------
(***************************************************************************)
(* recent_window(): the part of a conversation that is sent upstream,      *)
(* bounded by a number of messages and by their size.                      *)
(***************************************************************************)
EXTENDS Integers, SequencesExt

CONSTANTS
  MaxMessages,  \* max_history_messages
  MaxChars      \* max_history_chars

\* Field(ge=2) and Field(ge=1000) of core/config.py; the model counts text in
\* larger units.
ASSUME WindowAssumption == MaxMessages \in Nat \ {0, 1} /\ MaxChars \in Nat

\* The last n elements of a sequence.
End(s, n) == SubSeq(s, Len(s) - n + 1, Len(s))

\* history[-max_messages:]
Newest(s) == End(s, IF Len(s) > MaxMessages THEN MaxMessages ELSE Len(s))

\* Mutant: a message too large is skipped, and older ones that fit are kept.
KeepSkipping(size, acc) ==
  IF acc.open /\ (acc.kept = 0 \/ acc.budget - size >= 0)
    THEN [acc EXCEPT !.kept = @ + 1, !.budget = @ - size]
    ELSE acc

\* One turn of the loop over the window, newest message first; open is FALSE
\* once the loop has ended.
Keep(size, acc) ==
  IF acc.open /\ (acc.kept = 0 \/ acc.budget - size >= 0)
    THEN [acc EXCEPT !.kept = @ + 1, !.budget = @ - size]
    ELSE [acc EXCEPT !.open = FALSE]

\* The sizes of the messages decide how many of the newest are kept.
Kept(sizes) ==
  FoldRight(Keep, Newest(sizes), [kept |-> 0, budget |-> MaxChars, open |-> TRUE]).kept

----------------------------------------------------------------------------
(* What the window is *)

\* An end of the history respects both bounds, or is the newest message,
\* whatever its size.
Allowed(n, sizes) ==
  /\ n \in 0 .. Len(sizes) /\ n <= MaxMessages
  /\ n > 1 => SumFunctionOnSet(sizes, Len(sizes) - n + 1 .. Len(sizes)) <= MaxChars

\* The window is the longest of them.
IsLongestAllowed(n, sizes) ==
  Allowed(n, sizes) /\ \A k \in 0 .. Len(sizes) : Allowed(k, sizes) => k <= n
=============================================================================

--------------------------- MODULE FrameProtocol ----------------------------
(***************************************************************************)
(* The order of the SSE frames of one streamed reply, as the frontend      *)
(* relies on it: start comes first, ttft once and right before the first   *)
(* text, and nothing follows the terminal frame.  A stream may break off   *)
(* anywhere.                                                               *)
(***************************************************************************)
VARIABLE last  \* the last frame received, "none" before the first

Successors ==
  [none   |-> {"start", "failed"},
   start  |-> {"ttft", "done", "failed"},
   ttft   |-> {"delta"},
   delta  |-> {"delta", "done", "failed"},
   done   |-> {},
   failed |-> {}]

Init == last = "none"

Next == last' \in Successors[last]

Spec == Init /\ [][Next]_last
=============================================================================

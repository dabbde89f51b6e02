------------------------------- MODULE Ledger -------------------------------
(***************************************************************************)
(* What the inference-event pipeline promises about one event, with the    *)
(* broker, the workers and the database left out.  An event is minted by   *)
(* the instrumentation wrapper, is perhaps accepted by the stream, and     *)
(* then has at most one outcome: one row of inference_logs, one rejection  *)
(* kept for triage, or loss.  An outcome is final: duplicates,             *)
(* redeliveries, crashes and replays never turn it into another one.       *)
(*                                                                         *)
(* One step of the pipeline may settle several events (a trimmed stream    *)
(* loses every entry it drops), so a step moves each event along at most   *)
(* one edge.                                                               *)
(***************************************************************************)
CONSTANT Events

VARIABLE status

Status == {"new", "queued", "recorded", "rejected", "lost"}

Edges ==
  { <<"new", "queued">>, <<"new", "lost">>,
    <<"queued", "recorded">>, <<"queued", "rejected">>, <<"queued", "lost">> }

Init == status = [e \in Events |-> "new"]

Next ==
  /\ status' \in [Events -> Status]
  /\ \A e \in Events : \/ status'[e] = status[e]
                       \/ <<status[e], status'[e]>> \in Edges

Spec == Init /\ [][Next]_status
=============================================================================

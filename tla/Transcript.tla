----------------------------- MODULE Transcript -----------------------------
(***************************************************************************)
(* What the store of conversations promises the turns of a chat, with the  *)
(* transactions, the locks and the numbering left out.  The transcript of  *)
(* a conversation only ever grows at its end, by one message at a time,    *)
(* until it is deleted as a whole.  A turn adds its question at most once  *)
(* and its reply at most once, the reply to a transcript that holds the    *)
(* question, and one that fails adds nothing more.                         *)
(***************************************************************************)
EXTENDS Naturals, Sequences

CONSTANTS Turns, Convs, ConvOf, NoTurn

VARIABLES
  opener,  \* the turn that creates the conversation
  there,   \* conversations that exist
  log,     \* the transcript of each, as <<turn, role>>
  stage    \* "new", "asked" or "closed"

----------------------------------------------------------------------------
Init ==
  /\ opener \in [Convs -> Turns \cup {NoTurn}]
  /\ there = {c \in Convs : opener[c] = NoTurn}
  /\ log = [c \in Convs |-> <<>>]
  /\ stage = [t \in Turns |-> "new"]

Says(t, who) == log' = [log EXCEPT ![ConvOf[t]] = Append(@, <<t, who>>)]

\* The first message creates the conversation.
Ask(t) ==
  /\ stage[t] = "new"
  /\ ConvOf[t] \in there \/ opener[ConvOf[t]] = t
  /\ Says(t, "user")
  /\ there' = there \cup {ConvOf[t]}
  /\ stage' = [stage EXCEPT ![t] = "asked"]

Reply(t) ==
  /\ stage[t] = "asked"
  /\ \E i \in 1 .. Len(log[ConvOf[t]]) : log[ConvOf[t]][i] = <<t, "user">>
  /\ Says(t, "assistant")
  /\ stage' = [stage EXCEPT ![t] = "closed"]
  /\ UNCHANGED there

GiveUp(t) ==
  /\ stage[t] # "closed"
  /\ stage' = [stage EXCEPT ![t] = "closed"]
  /\ UNCHANGED <<there, log>>

Delete(c) ==
  /\ c \in there
  /\ there' = there \ {c}
  /\ log' = [log EXCEPT ![c] = <<>>]
  /\ UNCHANGED stage

Next ==
  /\ \/ \E t \in Turns : Ask(t) \/ Reply(t) \/ GiveUp(t)
     \/ \E c \in Convs : Delete(c)
  /\ UNCHANGED opener

Spec == Init /\ [][Next]_<<opener, there, log, stage>>
=============================================================================

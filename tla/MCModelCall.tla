---------------------------- MODULE MCModelCall -----------------------------
(* An instance of ModelCall for TLC. *)
EXTENDS ModelCall

TheMockModels == {"mock", "mock-error", "mock-cancel"}
TheDefaults == [v \in Vendors |-> "model of " \o v]

Deployment(keys, ollama, default, cap) ==
  [keys |-> keys, ollama |-> ollama, default |-> default, budget |-> 2, groqCap |-> cap]

\* A fresh clone, a default without its key, and everything, with Groq's cap
\* below and above the budget.
SomeSettings == {Deployment({}, FALSE, "mock", 1),
                 Deployment({"anthropic"}, FALSE, "openai", 1),
                 Deployment(Keyed, TRUE, "ollama", 1),
                 Deployment(Keyed, FALSE, "groq", 3)}

SomeRequests ==
  [provider : {None, "mock", "anthropic", "groq", "unknown"},
   model : TheMockModels \cup {None, "llama3.2:1b", "a name too long"}]

Lengths ==
  [m \in TheMockModels \cup {"llama3.2:1b", "a name too long"}
         \cup {TheDefaults[v] : v \in Vendors} |->
     IF m = "a name too long" THEN 129 ELSE 12]
=============================================================================

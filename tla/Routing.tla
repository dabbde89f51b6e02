------------------------------ MODULE Routing -------------------------------
(***************************************************************************)
(* ProviderRegistry: which provider and which model serve a request, from  *)
(* the settings the process was started with.                              *)
(*                                                                         *)
(* Settings are records: keys, the vendors that have an API key; ollama,   *)
(* the opt-in to the local one; default, the configured default provider;  *)
(* budget, max_output_tokens; groqCap, groq_max_output_tokens.             *)
(***************************************************************************)
EXTENDS Integers

CONSTANTS
  None,         \* an absent parameter; the empty string counts as absent
  MockModels,   \* the closed set the mock serves
  VendorDefault \* the default model of each vendor

Keyed == {"anthropic", "openai", "groq", "gemini"}
Vendors == Keyed \cup {"ollama"}

ASSUME RoutingAssumption ==
  /\ "mock" \in MockModels
  /\ MockModels \subseteq STRING
  /\ VendorDefault \in [Vendors -> STRING]
  /\ None \notin STRING \cup Nat \cup Vendors \cup {"mock"}

Settings == [keys : SUBSET Keyed, ollama : BOOLEAN, default : STRING,
             budget : Nat, groqCap : Nat]

\* from_settings(): the candidates that are configured, by name.
Available(s) == {"mock"} \cup s.keys \cup (IF s.ollama THEN {"ollama"} ELSE {})

\* Mutant: the configured default is taken as it is.
DefaultAsConfigured(s) == s.default

DefaultName(s) == IF s.default \in Available(s) THEN s.default ELSE "mock"

DefaultModel(p) == IF p = "mock" THEN "mock" ELSE VendorDefault[p]
SupportedModels(p) == IF p = "mock" THEN MockModels ELSE {DefaultModel(p)}

\* A vendor's catalogue is open, the mock's is closed.
SupportsModel(p, model) == p = "mock" => model \in MockModels

\* resolve_model(): the provider by name or by default, or 400; then the model
\* by name or by default, or 400.
ProviderFor(s, name) == IF name = None THEN DefaultName(s) ELSE name
ModelFor(p, model) == IF model = None THEN DefaultModel(p) ELSE model
Resolves(s, name, model) ==
  LET p == ProviderFor(s, name) IN
  /\ p \in Available(s)
  /\ SupportsModel(p, ModelFor(p, model))

Lesser(m, n) == IF m < n THEN m ELSE n

\* clamp_output_tokens(): only Groq's adapter has a cap.
ClampOutputTokens(s, p) == IF p = "groq" THEN Lesser(s.budget, s.groqCap) ELSE s.budget

\* GET /providers: what the picker may offer.
Offered(s) == UNION {{<<p, m>> : m \in SupportedModels(p)} : p \in Available(s)}
=============================================================================

----------------------------- MODULE ModelCall ------------------------------
(***************************************************************************)
(* One call to a model: routed to a provider, translated by its adapter    *)
(* from the vendor's stream into chunks, measured by the instrumentation   *)
(* wrapper, and turned into the InferenceEvent that is published and       *)
(* stored.                                                                 *)
(*                                                                         *)
(* The vendor is the environment: it sends what its protocol allows, in    *)
(* MaxEvents events at most, and may fail, or hang until the caller goes   *)
(* away, at any point.  Texts are told apart by the event that brought     *)
(* them.                                                                   *)
(***************************************************************************)
EXTENDS Routing, Sequences

CONSTANTS
  Asked,     \* the provider and model a client may name
  Deployed,  \* settings considered
  MaxEvents, \* vendor events in a call, at most
  Words,     \* words of the mock's reply
  LengthOf   \* characters in a model's name

\* The models a call can come to.
Models == MockModels \cup {VendorDefault[v] : v \in Vendors} \cup ({a.model : a \in Asked} \ {None})

ASSUME CallAssumption ==
  /\ Asked \subseteq [provider : STRING \cup {None}, model : STRING \cup {None}]
  /\ \A m \in Models : LengthOf[m] \in Nat \ {0}
  /\ Deployed \subseteq Settings
  /\ {MaxEvents, Words} \subseteq Nat /\ MaxEvents > Words /\ Words > 0

ASSUME TextAssumption == None \notin {"", "text", "RateLimitError", "Exception"}

VARIABLES
  settings,
  asked,     \* body.provider and body.model
  pc,        \* routing, calling, ending, ended, refused
  target,    \* the provider, model and budget of the ChatRequest
  emitted,   \* history: the vendor's events
  ending,    \* how the stream ended, and with which exception
  ttft, chunks, usage, finish,  \* locals of stream_chat()
  event      \* the InferenceEvent, and whether its validation accepts it

vars == <<settings, asked, pc, target, emitted, ending, ttft, chunks, usage, finish, event>>

----------------------------------------------------------------------------
(* Vendors: an event has a kind of its protocol and what it carries *)

Position == Len(emitted) + 1
Texts == {None, Position}
Event(kind, text, stop, in, out) ==
  [kind |-> kind, text |-> text, finish |-> stop, in |-> in, out |-> out]

Did(kind) == \E i \in DOMAIN emitted : emitted[i].kind = kind

\* message_start, then content and pings, then message_delta.
AnthropicEvents ==
  IF emitted = <<>> THEN {Event("message_start", None, None, 7, None)}
  ELSE {Event("message_delta", None, f, None, Position) : f \in {None, "stop"}}
       \cup (IF Did("message_delta") THEN {}
             ELSE {Event("text_delta", t, None, None, None) : t \in Texts}
                  \cup {Event("ping", None, None, None, None)})

\* Chunks carry text, usage and a finish reason in any combination; what is
\* reported of the output grows.
OpenAIEvents ==
  {Event("chunk", t, f, u[1], u[2]) :
     t \in Texts, f \in {None, "stop"}, u \in {<<None, None>>, <<7, Position>>}}

\* A word at a time and a last chunk; mock-error fails after a third, and
\* mock-cancel never ends.
MockEvents ==
  IF target.model = "mock-error" THEN
    IF Len(emitted) < Words \div 3 THEN {Event("chunk", Position, None, None, None)} ELSE {}
  ELSE IF target.model = "mock-cancel" \/ Len(emitted) < Words
    THEN {Event("chunk", Position, None, None, None)}
  ELSE IF Len(emitted) = Words THEN {Event("chunk", None, "stop", 7, Words)}
  ELSE {}

VendorEvents ==
  CASE target.provider = "mock"      -> MockEvents
    [] target.provider = "anthropic" -> AnthropicEvents
    [] OTHER                         -> OpenAIEvents

\* What the mock raises is fixed; a vendor may end or fail at any time.
MayEnd == target.provider = "mock" => Len(emitted) = Words + 1
MayFail ==
  target.provider = "mock" =>
    target.model = "mock-error" /\ Len(emitted) = Words \div 3

----------------------------------------------------------------------------
(* Adapters: the chunk an event becomes.  One that is skipped is a chunk    *)
(* that carries nothing, which leaves no trace either.                     *)

Chunk(text, stop, in, out) == [text |-> text, finish |-> stop, in |-> in, out |-> out]

AnthropicChunk(e) ==
  CASE e.kind = "text_delta"    -> Chunk(e.text, None, None, None)
    [] e.kind = "message_start" -> Chunk(None, None, e.in, None)
    [] e.kind = "message_delta" -> Chunk(None, e.finish, None, e.out)
    [] OTHER                    -> Chunk(None, None, None, None)

\* Mutant: an event with usage is taken to carry nothing else.
OpenAIChunkUsageAlone(e) ==
  IF e.in # None THEN Chunk(None, None, e.in, e.out)
  ELSE Chunk(e.text, e.finish, None, None)

\* Usage and content are read from the same event.
OpenAIChunk(e) == Chunk(e.text, e.finish, e.in, e.out)

ChunkOf(e) ==
  CASE target.provider = "mock"      -> Chunk(e.text, e.finish, e.in, e.out)
    [] target.provider = "anthropic" -> AnthropicChunk(e)
    [] OTHER                         -> OpenAIChunk(e)

----------------------------------------------------------------------------
(* InstrumentedProvider.stream_chat *)

\* Mutant: the usage of a chunk replaces what is known.
ReplaceUsage(current, in, out) ==
  IF in = None /\ out = None THEN current ELSE [in |-> in, out |-> out]

\* The last value that is not null, of each field.
MergeUsage(current, in, out) ==
  [in  |-> IF in # None THEN in ELSE current.in,
   out |-> IF out # None THEN out ELSE current.out]

\* Mutant: the clock is read before the event is there.
FirstTokenEarly(chunk) ==
  IF ttft = None /\ chunk.text # None THEN Len(emitted) ELSE ttft

\* Time to first token, not first event.
FirstToken(chunk) == IF ttft = None /\ chunk.text # None THEN Position ELSE ttft

\* resolve_model(), before anything is written.
Resolve ==
  LET p == ProviderFor(settings, asked.provider) IN
  /\ pc = "routing"
  /\ IF Resolves(settings, asked.provider, asked.model)
       THEN /\ pc' = "calling"
            /\ target' = [provider |-> p, model |-> ModelFor(p, asked.model),
                          budget |-> ClampOutputTokens(settings, p)]
       ELSE pc' = "refused" /\ UNCHANGED target
  /\ UNCHANGED <<settings, asked, emitted, ending, ttft, chunks, usage, finish, event>>

\* The next vendor event; its chunk is recorded and yielded on.
Receive(e) ==
  LET chunk == ChunkOf(e) IN
  /\ pc = "calling" /\ Len(emitted) < MaxEvents
  /\ emitted' = Append(emitted, e)
  /\ ttft' = FirstToken(chunk)
  /\ chunks' = IF chunk.text = None THEN chunks ELSE Append(chunks, chunk.text)
  /\ usage' = MergeUsage(usage, chunk.in, chunk.out)
  /\ finish' = IF chunk.finish # None THEN chunk.finish ELSE finish
  /\ UNCHANGED <<settings, asked, pc, target, ending, event>>

EndsWith(how, sdk, message) ==
  /\ pc = "calling" /\ pc' = "ending"
  /\ ending' = [how |-> how, sdk |-> sdk, message |-> message]
  /\ UNCHANGED <<settings, asked, target, emitted, ttft, chunks, usage, finish, event>>

StreamEnds == pc = "calling" /\ MayEnd /\ EndsWith("finished", None, None)

\* The SDK's exception becomes a ProviderError that records its class and its
\* text, which may be empty; the mock raises one of its own.
ProviderFails ==
  /\ pc = "calling" /\ MayFail
  /\ IF target.provider = "mock" THEN EndsWith("ProviderError", None, "text")
     ELSE \E m \in {"", "text"} : EndsWith("ProviderError", "RateLimitError", m)

\* Any other exception of the SDK or of the adapter.
AdapterFails ==
  /\ pc = "calling" /\ target.provider # "mock"
  /\ EndsWith("Exception", None, "")

\* The task is cancelled, or the generator is closed while it yields.
CallerGoes == \E how \in {"CancelledError", "GeneratorExit"} : EndsWith(how, None, None)

\* Mutant: "except Exception", which cancellation is not.
ClassifyExceptions(end) ==
  IF end.how \in {"finished", "CancelledError", "GeneratorExit"}
    THEN [status |-> "success", type |-> None, message |-> None]
  ELSE [status |-> "error", type |-> end.how, message |-> end.message]

Classify(end) ==
  CASE end.how = "finished" -> [status |-> "success", type |-> None, message |-> None]
    [] end.how \in {"CancelledError", "GeneratorExit"} ->
         [status |-> "cancelled", type |-> None, message |-> "Cancelled by client"]
    [] end.how = "ProviderError" ->
         [status |-> "error", message |-> end.message,
          type |-> IF end.sdk # None THEN end.sdk ELSE "ProviderError"]
    [] OTHER ->
         [status |-> "error", type |-> end.how,
          message |-> IF end.message = "" THEN end.how ELSE end.message]

----------------------------------------------------------------------------
(* The contract of InferenceEvent, and the table it is written to *)

\* The fields, lengths and checks of InferenceEvent.
Accepts(e) ==
  /\ LengthOf[e.model] \in 1 .. 128
  /\ e.started <= e.completed
  /\ e.status = "error" => e.message \notin {None, ""}
  /\ \A n \in {e.ttft, e.in, e.out} : n # None => n >= 0

\* The lengths and CHECK constraints of inference_logs.
Storable(e) ==
  /\ e.provider # None /\ e.model # None
  /\ LengthOf[e.model] <= 128
  /\ e.started <= e.completed
  /\ e.status \in {"success", "error", "cancelled"}
  /\ \A n \in {e.ttft, e.in, e.out} : n = None \/ n >= 0

\* The finally block: the wall clock may have been set back since the start.
\* An event that is not accepted raises, and none is published.
Publish ==
  LET c == Classify(ending) IN
  /\ pc = "ending"
  /\ pc' = "ended"
  /\ \E completed \in {0, 1} :
       LET e == [provider |-> target.provider, model |-> target.model,
                 status |-> c.status, type |-> c.type, message |-> c.message,
                 started |-> 1, completed |-> completed, ttft |-> ttft,
                 in |-> usage.in, out |-> usage.out, finish |-> finish]
       IN event' = [accepted |-> Accepts(e), row |-> e]
  /\ UNCHANGED <<settings, asked, target, emitted, ending, ttft, chunks, usage, finish>>

----------------------------------------------------------------------------
Init ==
  /\ settings \in Deployed
  /\ asked \in Asked
  /\ pc = "routing" /\ target = None
  /\ emitted = <<>> /\ ending = None
  /\ ttft = None /\ chunks = <<>> /\ finish = None
  /\ usage = [in |-> None, out |-> None]
  /\ event = None

ReceiveAny == pc = "calling" /\ \E e \in VendorEvents : Receive(e)

Next ==
  \/ Resolve
  \/ ReceiveAny
  \/ StreamEnds \/ ProviderFails \/ AdapterFails \/ CallerGoes
  \/ Publish

Spec == Init /\ [][Next]_vars

----------------------------------------------------------------------------
(* Properties *)

Positions == 1 .. MaxEvents
Maybe(S) == S \cup {None}

VendorEvent == [kind : {"message_start", "text_delta", "message_delta", "ping", "chunk"},
                text : Maybe(Positions), finish : Maybe({"stop"}),
                in : Maybe(Nat), out : Maybe(Nat)]

Called == pc \in {"calling", "ending", "ended"}

\* Every variable keeps its type; there is a target from the routing on, and
\* an ending from the end of the stream on.
TypeOK ==
  /\ settings \in Deployed /\ asked \in Asked
  /\ pc \in {"routing", "refused", "calling", "ending", "ended"}
  /\ Called => target \in [provider : Vendors \cup {"mock"}, model : Models, budget : Nat]
  /\ emitted \in Seq(VendorEvent) /\ Len(emitted) <= MaxEvents
  /\ pc \in {"ending", "ended"} =>
       ending.how \in {"finished", "ProviderError", "Exception", "CancelledError", "GeneratorExit"}
  /\ ttft \in Maybe(Positions) /\ chunks \in Seq(Positions)
  /\ usage \in [in : Maybe(Nat), out : Maybe(Nat)] /\ finish \in Maybe({"stop"})

\* "Gemini's compatible endpoint attaches usage to every delta, so that
\* shortcut silently discarded all of its text": every text of the vendor is
\* passed on, once and in order, and the time to first token is that of the
\* first text and not of an event before it (stream_chat of the adapters and
\* of the wrapper).
TextReachesTheUser ==
  LET texts == {i \in DOMAIN emitted : emitted[i].text # None} IN
  /\ {chunks[i] : i \in DOMAIN chunks} = texts
  /\ \A i, j \in DOMAIN chunks : i < j => chunks[i] < chunks[j]
  /\ IF texts = {} THEN ttft = None ELSE ttft = chunks[1]

\* The value is the last one given of a field, None if there is none.
IsLastOf(value, field, events) ==
  \/ value = None /\ \A i \in DOMAIN events : events[i][field] = None
  \/ \E i \in DOMAIN events :
       /\ value = events[i][field] /\ value # None
       /\ \A j \in DOMAIN events : j > i => events[j][field] = None

\* "Naively replacing the whole object would discard whichever half arrived
\* first", and "recording None is honest; recording 0 would silently understate
\* real spend": each count, and the finish reason, is the last one the vendor
\* gave, and null if it gave none (_merge_usage, TokenUsage).
UsageIsAsReported ==
  /\ IsLastOf(usage.in, "in", emitted)
  /\ IsLastOf(usage.out, "out", emitted)
  /\ IsLastOf(finish, "finish", emitted)

\* "Cancellation is not a failure", nor a success: a call that ended has an
\* event whose status and error are those of the ending, and which the table
\* takes.  It is missing for a clock set back, a name longer than the column,
\* or a vendor error without a text, and for nothing else (_classify,
\* InferenceEvent).
EveryEndingIsLogged ==
  pc = "ended" =>
    LET row == event.row
        status == CASE ending.how = "finished" -> "success"
                    [] ending.how \in {"CancelledError", "GeneratorExit"} -> "cancelled"
                    [] OTHER -> "error"
    IN /\ row.status = status
       /\ row.type = IF status # "error" THEN None
                     ELSE IF ending.sdk # None THEN ending.sdk ELSE ending.how
       /\ event.accepted => Storable(row)
       /\ ~event.accepted => \/ row.completed < row.started
                             \/ LengthOf[target.model] > 128
                             \/ ending.sdk # None /\ ending.message = ""

\* "It can never offer a provider that will 400 when selected": all the picker
\* offers is served as asked for, so is a request that names nothing, a model
\* the mock does not have never gets a mock reply, and no budget exceeds the
\* provider's cap (list_providers, resolve_model, clamp_output_tokens).
OfferedIsServed ==
  /\ \A offer \in Offered(settings) : Resolves(settings, offer[1], offer[2])
  /\ Resolves(settings, None, None)
  /\ pc = "refused" => asked.provider # None \/ asked.model # None
  /\ Called =>
       /\ target.provider \in Available(settings)
       /\ asked.provider \in {None, target.provider}
       /\ asked.model \in {None, target.model}
       /\ target.provider = "mock" => target.model \in MockModels
       /\ target.provider = "groq" => target.budget <= settings.groqCap

=============================================================================

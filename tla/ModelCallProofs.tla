-------------------------- MODULE ModelCallProofs ---------------------------
(***************************************************************************)
(* Proofs about ModelCall, for every catalogue of models, every deployment *)
(* and any number of vendor events.                                        *)
(***************************************************************************)
EXTENDS ModelCall, TLAPS

Carries(e) == Chunk(e.text, e.finish, e.in, e.out)

\* A text is told apart by the position of its event.
Stamped == \A i \in DOMAIN emitted : emitted[i].text \in {None, i}

IInv == TypeOK /\ Stamped /\ TextReachesTheUser /\ UsageIsAsReported

\* None is no text, number or position (RoutingAssumption).
LEMMA NoneIsNothing == None \notin STRING /\ None \notin Nat
BY RoutingAssumption

\* What any vendor may send is an event whose text is its position, and its
\* adapter's chunk carries all of it.
LEMMA AdapterKeepsAll ==
  ASSUME TypeOK, pc = "calling", Len(emitted) < MaxEvents, NEW e \in VendorEvents
  PROVE  /\ e \in VendorEvent
         /\ e.text \in {None, Position}
         /\ ChunkOf(e) = Carries(e)
<1>1. Position \in Positions /\ Position \in Nat
  BY CallAssumption DEF TypeOK, Position, Positions
<1>2. Words \in Nat
  BY CallAssumption
<1>3. CASE target.provider = "mock"
  <2>1. e \in MockEvents
    BY <1>3 DEF VendorEvents
  <2>2. e \in {Event("chunk", Position, None, None, None), Event("chunk", None, "stop", 7, Words)}
    BY <2>1 DEF MockEvents
  <2> QED
    BY <1>1, <1>2, <1>3, <2>2 DEF Event, VendorEvent, Maybe, ChunkOf, Chunk, Carries
<1>4. CASE target.provider = "anthropic"
  <2>1. e \in AnthropicEvents
    BY <1>4 DEF VendorEvents
  <2>2. \/ e = Event("message_start", None, None, 7, None)
        \/ \E f \in {None, "stop"} : e = Event("message_delta", None, f, None, Position)
        \/ \E t \in Texts : e = Event("text_delta", t, None, None, None)
        \/ e = Event("ping", None, None, None, None)
    BY <2>1 DEF AnthropicEvents
  <2>3. ChunkOf(e) = AnthropicChunk(e)
    BY <1>4 DEF ChunkOf
  <2> QED
    BY <1>1, <2>2, <2>3 DEF Event, VendorEvent, Maybe, AnthropicChunk, Chunk, Carries, Texts
<1>5. CASE target.provider \notin {"mock", "anthropic"}
  <2>1. e \in OpenAIEvents
    BY <1>5 DEF VendorEvents
  <2>2. PICK t \in Texts, f \in {None, "stop"}, u \in {<<None, None>>, <<7, Position>>} :
          e = Event("chunk", t, f, u[1], u[2])
    BY <2>1 DEF OpenAIEvents
  <2>3. ChunkOf(e) = Carries(e)
    BY <1>5 DEF ChunkOf, OpenAIChunk, Carries
  <2>4. u[1] \in Maybe(Nat) /\ u[2] \in Maybe(Nat)
    BY <1>1 DEF Maybe
  <2> QED
    BY <1>1, <2>2, <2>3, <2>4 DEF Event, VendorEvent, Maybe, Texts
<1> QED
  BY <1>3, <1>4, <1>5

\* The last value of a field, after one more event.
LEMMA LastOfAppended ==
  ASSUME NEW S, NEW events \in Seq(S), NEW e, NEW field, NEW value,
         IsLastOf(value, field, events)
  PROVE  IsLastOf(IF e[field] # None THEN e[field] ELSE value, field, Append(events, e))
<1> DEFINE more == Append(events, e)
           n == Len(events) + 1
<1>1. /\ DOMAIN more = 1 .. n /\ DOMAIN events = 1 .. Len(events) /\ Len(events) \in Nat
      /\ more[n] = e /\ \A i \in 1 .. Len(events) : more[i] = events[i]
  OBVIOUS
<1>2. CASE e[field] # None
  BY <1>1, <1>2 DEF IsLastOf
<1>3. CASE e[field] = None
  <2>1. CASE value = None /\ \A i \in DOMAIN events : events[i][field] = None
    BY <1>1, <1>3, <2>1 DEF IsLastOf
  <2>2. CASE \E i \in DOMAIN events :
               /\ value = events[i][field] /\ value # None
               /\ \A j \in DOMAIN events : j > i => events[j][field] = None
    <3>1. PICK i \in DOMAIN events :
            /\ value = events[i][field] /\ value # None
            /\ \A j \in DOMAIN events : j > i => events[j][field] = None
      BY <2>2
    <3>2. i \in DOMAIN more /\ value = more[i][field]
      BY <1>1, <3>1
    <3>3. \A j \in DOMAIN more : j > i => more[j][field] = None
      BY <1>1, <1>3, <3>1
    <3> QED
      BY <1>3, <3>1, <3>2, <3>3 DEF IsLastOf
  <2> QED
    BY <2>1, <2>2 DEF IsLastOf
<1> QED
  BY <1>2, <1>3

\* In the beginning no vendor event has come and nothing is published.
LEMMA InitIInv == Init => IInv
<1> SUFFICES ASSUME Init PROVE IInv
  OBVIOUS
<1>1. TypeOK
  BY CallAssumption DEF Init, TypeOK, Called, Maybe
<1>2. Stamped /\ TextReachesTheUser
  BY DEF Init, Stamped, TextReachesTheUser
<1>3. UsageIsAsReported
  BY DEF Init, UsageIsAsReported, IsLastOf
<1> QED
  BY <1>1, <1>2, <1>3 DEF IInv

----------------------------------------------------------------------------
(* One vendor event *)

\* Receiving an event keeps the types.
LEMMA ReceiveTypes ==
  ASSUME TypeOK, NEW e \in VendorEvents, Receive(e)
  PROVE  TypeOK'
<1>1. pc = "calling" /\ Len(emitted) < MaxEvents
  BY DEF Receive
<1>2. /\ e \in VendorEvent /\ e.text \in {None, Position}
      /\ ChunkOf(e) = Carries(e)
  BY <1>1, AdapterKeepsAll
<1>3. Position \in Positions
  BY <1>1, CallAssumption DEF TypeOK, Position, Positions
<1>4. emitted' \in Seq(VendorEvent) /\ Len(emitted') <= MaxEvents
  BY <1>1, <1>2, CallAssumption DEF Receive, TypeOK
<1>5. ttft' \in Maybe(Positions) /\ chunks' \in Seq(Positions)
  BY <1>2, <1>3 DEF Receive, TypeOK, FirstToken, Carries, Chunk, Maybe
<1>6. usage' \in [in : Maybe(Nat), out : Maybe(Nat)] /\ finish' \in Maybe({"stop"})
  BY <1>2 DEF Receive, TypeOK, MergeUsage, Carries, Chunk, Maybe, VendorEvent
<1>7. UNCHANGED <<settings, asked, pc, target, ending, event>>
  BY DEF Receive
<1> QED
  BY <1>1, <1>4, <1>5, <1>6, <1>7 DEF TypeOK, Called

\* It keeps the stamps.
LEMMA ReceiveStamped ==
  ASSUME TypeOK, Stamped, NEW e \in VendorEvents, Receive(e)
  PROVE  Stamped'
<1>1. e.text \in {None, Position}
  BY AdapterKeepsAll DEF Receive
<1>2. emitted' = Append(emitted, e) /\ emitted \in Seq(VendorEvent)
  BY DEF Receive, TypeOK
<1> QED
  BY <1>1, <1>2 DEF Stamped, Position

\* A text that arrives is later than all there are: it ends the list of those
\* passed on, and starts the clock if it is the first.
LEMMA ReceiveText ==
  ASSUME TypeOK, TextReachesTheUser, NEW e \in VendorEvents, Receive(e)
  PROVE  TextReachesTheUser'
<1> DEFINE n == Len(emitted) + 1
           texts == {i \in DOMAIN emitted : emitted[i].text # None}
           more == {i \in DOMAIN emitted' : emitted'[i].text # None}
<1>1. e.text \in {None, n} /\ ChunkOf(e) = Carries(e)
  BY AdapterKeepsAll DEF Receive, Position
<1>2. /\ emitted \in Seq(VendorEvent) /\ Len(emitted) \in Nat
      /\ chunks \in Seq(Positions) /\ Len(chunks) \in Nat
  BY DEF TypeOK
<1>3. /\ DOMAIN emitted = 1 .. Len(emitted) /\ DOMAIN emitted' = 1 .. n
      /\ emitted'[n] = e /\ \A i \in 1 .. Len(emitted) : emitted'[i] = emitted[i]
  BY <1>2 DEF Receive
<1>4. n # None
  BY <1>2, NoneIsNothing
<1>5. /\ {chunks[i] : i \in DOMAIN chunks} = texts
      /\ \A i, j \in DOMAIN chunks : i < j => chunks[i] < chunks[j]
      /\ IF texts = {} THEN ttft = None ELSE ttft = chunks[1]
  BY DEF TextReachesTheUser
<1>6. DOMAIN chunks = 1 .. Len(chunks) /\ \A i \in DOMAIN chunks : chunks[i] \in 1 .. Len(emitted)
  BY <1>2, <1>3, <1>5
<1>7. CASE e.text = None
  <2>1. more = texts
    BY <1>2, <1>3, <1>7
  <2>2. chunks' = chunks /\ ttft' = ttft
    BY <1>1, <1>7 DEF Receive, FirstToken, Carries, Chunk
  <2> QED
    BY <1>5, <2>1, <2>2 DEF TextReachesTheUser
<1>8. CASE e.text = n
  <2>1. more = texts \cup {n}
    BY <1>2, <1>3, <1>4, <1>8
  <2>2. chunks' = Append(chunks, n) /\ ttft' = (IF ttft = None THEN n ELSE ttft)
    BY <1>1, <1>4, <1>8 DEF Receive, FirstToken, Carries, Chunk, Position
  <2>3. /\ DOMAIN chunks' = 1 .. Len(chunks) + 1
        /\ chunks'[Len(chunks) + 1] = n
        /\ \A i \in 1 .. Len(chunks) : chunks'[i] = chunks[i]
    BY <1>2, <2>2
  <2>4. {chunks'[i] : i \in DOMAIN chunks'} = more
    BY <1>2, <1>5, <1>6, <2>1, <2>3
  <2>5. ASSUME NEW i \in DOMAIN chunks', NEW j \in DOMAIN chunks', i < j
        PROVE  chunks'[i] < chunks'[j]
    <3>1. i \in 1 .. Len(chunks) /\ chunks'[i] = chunks[i]
      BY <1>2, <2>3, <2>5
    <3>2. CASE j \in 1 .. Len(chunks)
      BY <1>5, <1>6, <2>3, <2>5, <3>1, <3>2
    <3>3. CASE j = Len(chunks) + 1
      <4>1. chunks[i] \in 1 .. Len(emitted)
        BY <1>6, <3>1
      <4> QED
        BY <1>2, <2>3, <3>1, <3>3, <4>1
    <3> QED
      BY <1>2, <2>3, <3>2, <3>3
  <2>6. ttft' = chunks'[1]
    <3>1. CASE texts = {}
      <4>1. ttft = None /\ Len(chunks) = 0
        BY <1>2, <1>5, <1>6, <3>1
      <4> QED
        BY <2>2, <2>3, <4>1
    <3>2. CASE texts # {}
      <4>1. Len(chunks) # 0
        BY <1>2, <1>5, <1>6, <3>2
      <4>2. ttft = chunks[1] /\ 1 \in 1 .. Len(chunks)
        BY <1>2, <1>5, <3>2, <4>1
      <4>3. ttft # None
        BY <1>2, <1>6, <4>2, NoneIsNothing
      <4> QED
        BY <2>2, <2>3, <4>2, <4>3
    <3> QED
      BY <3>1, <3>2
  <2>7. more # {}
    BY <2>1
  <2> QED
    BY <2>4, <2>5, <2>6, <2>7 DEF TextReachesTheUser
<1> QED
  BY <1>1, <1>7, <1>8

\* Each count, and the finish reason, stays the last one given.
LEMMA ReceiveUsage ==
  ASSUME TypeOK, UsageIsAsReported, NEW e \in VendorEvents, Receive(e)
  PROVE  UsageIsAsReported'
<1>1. ChunkOf(e) = Carries(e)
  BY AdapterKeepsAll DEF Receive
<1>2. emitted' = Append(emitted, e) /\ emitted \in Seq(VendorEvent)
  BY DEF Receive, TypeOK
<1>3. /\ usage'.in = (IF e["in"] # None THEN e["in"] ELSE usage.in)
      /\ usage'.out = (IF e["out"] # None THEN e["out"] ELSE usage.out)
      /\ finish' = (IF e["finish"] # None THEN e["finish"] ELSE finish)
  BY <1>1 DEF Receive, Carries, Chunk, MergeUsage
<1>4. /\ IsLastOf(usage.in, "in", emitted)
      /\ IsLastOf(usage.out, "out", emitted)
      /\ IsLastOf(finish, "finish", emitted)
  BY DEF UsageIsAsReported
<1> QED
  BY <1>2, <1>3, <1>4, LastOfAppended DEF UsageIsAsReported

----------------------------------------------------------------------------
(* The other steps leave what has been received alone *)

Received == <<emitted, ttft, chunks, usage, finish>>

\* What has been received decides all but the types.
LEMMA SameReceived ==
  ASSUME Stamped, TextReachesTheUser, UsageIsAsReported, UNCHANGED Received
  PROVE  Stamped' /\ TextReachesTheUser' /\ UsageIsAsReported'
BY DEF Received, Stamped, TextReachesTheUser, UsageIsAsReported

\* Routing a request gives it a typed target.
LEMMA ResolveTypes == ASSUME TypeOK, Resolve PROVE TypeOK'
<1> DEFINE p == ProviderFor(settings, asked.provider)
           m == ModelFor(p, asked.model)
<1>1. settings \in Settings /\ asked \in [provider : STRING \cup {None}, model : STRING \cup {None}]
  BY CallAssumption DEF TypeOK
<1>2. CASE Resolves(settings, asked.provider, asked.model)
  <2>1. p \in Available(settings)
    BY <1>2 DEF Resolves
  <2>2. p \in Vendors \cup {"mock"}
    BY <1>1, <2>1 DEF Available, Settings, Vendors, Keyed
  <2>3. m \in Models
    BY <2>2, RoutingAssumption DEF TypeOK, ModelFor, DefaultModel, Models
  <2>4. ClampOutputTokens(settings, p) \in Nat
    BY <1>1 DEF ClampOutputTokens, Lesser, Settings
  <2>5. target' = [provider |-> p, model |-> m, budget |-> ClampOutputTokens(settings, p)]
    BY <1>2 DEF Resolve
  <2> QED
    BY <1>2, <2>2, <2>3, <2>4, <2>5 DEF Resolve, TypeOK, Called
<1>3. CASE ~Resolves(settings, asked.provider, asked.model)
  BY <1>3 DEF Resolve, TypeOK, Called
<1> QED
  BY <1>2, <1>3

\* An ending is one of the five.
LEMMA EndsWithTypes ==
  ASSUME TypeOK, NEW how, NEW sdk, NEW message, EndsWith(how, sdk, message),
         how \in {"finished", "ProviderError", "Exception", "CancelledError", "GeneratorExit"}
  PROVE  TypeOK' /\ UNCHANGED Received
BY DEF EndsWith, TypeOK, Called, Received

\* Every step keeps the invariant.
LEMMA NextIInv == IInv /\ [Next]_vars => IInv'
<1> SUFFICES ASSUME IInv, [Next]_vars PROVE IInv'
  OBVIOUS
<1>0. TypeOK /\ Stamped /\ TextReachesTheUser /\ UsageIsAsReported
  BY DEF IInv
<1>1. CASE Resolve
  <2>1. UNCHANGED Received
    BY <1>1 DEF Resolve, Received
  <2> QED
    BY <1>0, <1>1, <2>1, ResolveTypes, SameReceived DEF IInv
<1>2. CASE ReceiveAny
  <2>1. PICK e \in VendorEvents : Receive(e)
    BY <1>2 DEF ReceiveAny
  <2> QED
    BY <1>0, <2>1, ReceiveTypes, ReceiveStamped, ReceiveText, ReceiveUsage DEF IInv
<1>3. CASE StreamEnds \/ ProviderFails \/ AdapterFails \/ CallerGoes
  <2>1. PICK how, sdk, message :
          /\ EndsWith(how, sdk, message)
          /\ how \in {"finished", "ProviderError", "Exception", "CancelledError", "GeneratorExit"}
    <3>1. CASE StreamEnds
      BY <3>1 DEF StreamEnds
    <3>2. CASE ProviderFails
      BY <3>2 DEF ProviderFails
    <3>3. CASE AdapterFails
      BY <3>3 DEF AdapterFails
    <3>4. CASE CallerGoes
      BY <3>4 DEF CallerGoes
    <3> QED
      BY <1>3, <3>1, <3>2, <3>3, <3>4
  <2> QED
    BY <1>0, <2>1, EndsWithTypes, SameReceived DEF IInv
<1>4. CASE Publish
  <2>1. TypeOK' /\ UNCHANGED Received
    BY <1>0, <1>4 DEF Publish, TypeOK, Called, Received
  <2> QED
    BY <1>0, <2>1, SameReceived DEF IInv
<1>5. CASE UNCHANGED vars
  <2>1. TypeOK' /\ UNCHANGED Received
    BY <1>0, <1>5 DEF vars, TypeOK, Called, Received
  <2> QED
    BY <1>0, <2>1, SameReceived DEF IInv
<1> QED
  BY <1>1, <1>2, <1>3, <1>4, <1>5 DEF Next

\* The invariant holds throughout a call.
LEMMA Invariance == Spec => []IInv
BY InitIInv, NextIInv, PTL DEF Spec

\* Every local of stream_chat() keeps its type, and what was received stays
\* within what a vendor sends.
THEOREM TypeCorrect == Spec => []TypeOK
<1>1. IInv => TypeOK
  BY DEF IInv
<1> QED
  BY <1>1, Invariance, PTL

\* No adapter loses, repeats or reorders text, and the time to first token is
\* that of the first text.
THEOREM NoTextIsLost == Spec => []TextReachesTheUser
<1>1. IInv => TextReachesTheUser
  BY DEF IInv
<1> QED
  BY <1>1, Invariance, PTL

\* Token counts and the finish reason are the last the vendor reported.
THEOREM UsageIsExact == Spec => []UsageIsAsReported
<1>1. IInv => UsageIsAsReported
  BY DEF IInv
<1> QED
  BY <1>1, Invariance, PTL

----------------------------------------------------------------------------
(* Routing *)

\* Settings and requests are typed, and a request names strings or nothing.
LEMMA Deployment ==
  TypeOK => /\ settings \in Settings
            /\ asked \in [provider : STRING \cup {None}, model : STRING \cup {None}]
BY CallAssumption DEF TypeOK

\* A provider that is there is named.
LEMMA AvailableIsNamed ==
  ASSUME NEW s \in Settings, NEW p \in Available(s)
  PROVE  p # None /\ p \in Vendors \cup {"mock"}
<1>1. p \in Vendors \cup {"mock"}
  BY DEF Available, Settings, Vendors, Keyed
<1> QED
  BY <1>1, RoutingAssumption

\* The picker's offers resolve to themselves, and nothing to the default.
LEMMA OffersResolve ==
  ASSUME NEW s \in Settings
  PROVE  /\ \A offer \in Offered(s) : Resolves(s, offer[1], offer[2])
         /\ Resolves(s, None, None)
<1>1. ASSUME NEW p \in Available(s), NEW m \in SupportedModels(p)
      PROVE  Resolves(s, p, m)
  <2>1. p # None
    BY AvailableIsNamed
  <2>2. p = "mock" => m \in MockModels
    BY DEF SupportedModels
  <2>3. m \in STRING
    BY AvailableIsNamed, RoutingAssumption DEF SupportedModels, DefaultModel
  <2> QED
    BY <2>1, <2>2, <2>3, NoneIsNothing DEF Resolves, ProviderFor, ModelFor, SupportsModel
<1>2. ASSUME NEW offer \in Offered(s) PROVE Resolves(s, offer[1], offer[2])
  <2>1. PICK p \in Available(s) : offer \in {<<p, m>> : m \in SupportedModels(p)}
    BY DEF Offered
  <2>2. PICK m \in SupportedModels(p) : offer = <<p, m>>
    BY <2>1
  <2> QED
    BY <1>1, <2>2
<1>3. Resolves(s, None, None)
  BY RoutingAssumption DEF Resolves, ProviderFor, ModelFor, SupportsModel, DefaultName,
     DefaultModel, Available
<1> QED
  BY <1>2, <1>3

\* What the routing decided, in the terms of the request.
Routed ==
  /\ pc = "refused" => asked.provider # None \/ asked.model # None
  /\ Called =>
       /\ target.provider \in Available(settings)
       /\ asked.provider \in {None, target.provider}
       /\ asked.model \in {None, target.model}
       /\ target.provider = "mock" => target.model \in MockModels
       /\ target.provider = "groq" => target.budget <= settings.groqCap

\* Routing decides it,
LEMMA ResolveRoutes == ASSUME TypeOK, Resolve PROVE Routed'
<1> DEFINE p == ProviderFor(settings, asked.provider)
<1>1. settings \in Settings
  BY Deployment
<1>2. CASE Resolves(settings, asked.provider, asked.model)
  <2>1. target' = [provider |-> p, model |-> ModelFor(p, asked.model),
                   budget |-> ClampOutputTokens(settings, p)]
    BY <1>2 DEF Resolve
  <2>2. p \in Available(settings) /\ SupportsModel(p, ModelFor(p, asked.model))
    BY <1>2 DEF Resolves
  <2>3. asked.provider \in {None, p} /\ asked.model \in {None, ModelFor(p, asked.model)}
    BY DEF ProviderFor, ModelFor
  <2>4. p = "groq" => ClampOutputTokens(settings, p) <= settings.groqCap
    BY <1>1 DEF ClampOutputTokens, Lesser, Settings
  <2>5. pc' = "calling" /\ UNCHANGED <<settings, asked>>
    BY <1>2 DEF Resolve
  <2> QED
    BY <2>1, <2>2, <2>3, <2>4, <2>5 DEF Routed, SupportsModel
<1>3. CASE ~Resolves(settings, asked.provider, asked.model)
  <2>1. asked.provider # None \/ asked.model # None
    BY <1>1, <1>3, OffersResolve
  <2>2. pc' = "refused" /\ UNCHANGED asked
    BY <1>3 DEF Resolve
  <2> QED
    BY <2>1, <2>2 DEF Routed, Called
<1> QED
  BY <1>2, <1>3

\* and nothing undoes it.
LEMMA NextRouted == TypeOK /\ Routed /\ [Next]_vars => Routed'
<1> SUFFICES ASSUME TypeOK, Routed, [Next]_vars PROVE Routed'
  OBVIOUS
<1>1. CASE Resolve
  BY <1>1, ResolveRoutes
<1>2. CASE ~Resolve
  <2>1. UNCHANGED <<settings, asked, target>>
    BY <1>2 DEF Next, ReceiveAny, Receive, StreamEnds, ProviderFails, AdapterFails,
       CallerGoes, EndsWith, Publish, vars
  <2>2. (Called' => Called) /\ (pc' = "refused" => pc = "refused")
    BY <1>2 DEF Next, ReceiveAny, Receive, StreamEnds, ProviderFails, AdapterFails,
       CallerGoes, EndsWith, Publish, vars, Called
  <2> QED
    BY <2>1, <2>2 DEF Routed
<1> QED
  BY <1>1, <1>2

\* All the picker offers is served as asked for, on every deployment.
THEOREM PickerNeverLies == Spec => []OfferedIsServed
<1>1. Init => Routed
  BY DEF Init, Routed, Called
<1>2. TypeOK /\ Routed => OfferedIsServed
  BY Deployment, OffersResolve DEF Routed, OfferedIsServed
<1> QED
  BY <1>1, <1>2, NextRouted, TypeCorrect, PTL DEF Spec
----------------------------------------------------------------------------
(* Logging *)

\* What stream_chat() can catch.
Caught ==
  pc \in {"ending", "ended"} =>
    \/ ending.how \in {"finished", "CancelledError", "GeneratorExit"} /\ ending.sdk = None
    \/ ending.how = "Exception" /\ ending.sdk = None /\ ending.message = ""
    \/ ending.how = "ProviderError" /\ ending.sdk = None /\ ending.message = "text"
    \/ ending.how = "ProviderError" /\ ending.sdk = "RateLimitError"
         /\ ending.message \in {"", "text"}

\* What is caught is what the adapter translates, at every step.
LEMMA NextCaught == Caught /\ [Next]_vars => Caught'
<1> SUFFICES ASSUME Caught, [Next]_vars PROVE Caught'
  OBVIOUS
<1>1. CASE StreamEnds
  BY <1>1 DEF StreamEnds, EndsWith, Caught
<1>2. CASE ProviderFails
  <2>1. CASE target.provider = "mock"
    <3>1. EndsWith("ProviderError", None, "text")
      BY <1>2, <2>1 DEF ProviderFails
    <3> QED
      BY <3>1 DEF EndsWith, Caught
  <2>2. CASE target.provider # "mock"
    <3>1. PICK m \in {"", "text"} : EndsWith("ProviderError", "RateLimitError", m)
      BY <1>2, <2>2 DEF ProviderFails
    <3> QED
      BY <3>1 DEF EndsWith, Caught
  <2> QED
    BY <2>1, <2>2
<1>3. CASE AdapterFails
  BY <1>3 DEF AdapterFails, EndsWith, Caught
<1>4. CASE CallerGoes
  <2>1. PICK how \in {"CancelledError", "GeneratorExit"} : EndsWith(how, None, None)
    BY <1>4 DEF CallerGoes
  <2> QED
    BY <2>1 DEF EndsWith, Caught
<1>5. CASE ~(StreamEnds \/ ProviderFails \/ AdapterFails \/ CallerGoes)
  <2>1. UNCHANGED ending /\ (pc' \in {"ending", "ended"} => pc \in {"ending", "ended"})
    BY <1>5 DEF Next, Resolve, ReceiveAny, Receive, Publish, vars
  <2> QED
    BY <2>1 DEF Caught
<1> QED
  BY <1>1, <1>2, <1>3, <1>4, <1>5

\* A number that is typed is null or not negative.
LEMMA NotNegative ==
  TypeOK => \A n \in {ttft, usage.in, usage.out} : n = None \/ (n # None /\ n \in Nat /\ n >= 0)
BY NoneIsNothing DEF TypeOK, Maybe, Positions

\* A record whose numbers are null or not negative is refused for its name, its
\* times or its message alone, and the table takes it otherwise.
LEMMA AcceptedOrNot ==
  ASSUME NEW r, r.provider # None, r.model # None, LengthOf[r.model] \in Nat \ {0},
         r.status \in {"success", "error", "cancelled"},
         \A n \in {r.ttft, r.in, r.out} : n = None \/ (n # None /\ n \in Nat /\ n >= 0),
         r.started \in {0, 1}, r.completed \in {0, 1}
  PROVE  /\ Accepts(r) => Storable(r)
         /\ ~Accepts(r) => \/ r.completed < r.started
                           \/ LengthOf[r.model] > 128
                           \/ r.status = "error" /\ r.message \in {None, ""}
<1>1. LengthOf[r.model] \in 1 .. 128 <=> LengthOf[r.model] <= 128
  OBVIOUS
<1>2. \A n \in {r.ttft, r.in, r.out} : n # None => n >= 0
  OBVIOUS
<1>3. \A n \in {r.ttft, r.in, r.out} : n = None \/ n >= 0
  BY <1>2
<1>4. Accepts(r) => Storable(r)
  BY <1>1, <1>3 DEF Accepts, Storable
<1>5. ~Accepts(r) => \/ ~(r.started <= r.completed)
                    \/ ~(LengthOf[r.model] \in 1 .. 128)
                    \/ ~(r.status = "error" => r.message \notin {None, ""})
  BY <1>2, Zenon DEF Accepts
<1>6. r.completed < r.started <=> ~(r.started <= r.completed)
  OBVIOUS
<1>7. LengthOf[r.model] > 128 <=> ~(LengthOf[r.model] \in 1 .. 128)
  BY <1>1
<1> QED
  BY <1>4, <1>5, <1>6, <1>7, Zenon

\* What is published for an ending is its record.
LEMMA PublishLogs == ASSUME TypeOK, Caught, Publish PROVE EveryEndingIsLogged'
<1> DEFINE c == Classify(ending)
<1>1. PICK completed \in {0, 1} :
        event' = [accepted |-> Accepts(
                    [provider |-> target.provider, model |-> target.model,
                     status |-> c.status, type |-> c.type, message |-> c.message,
                     started |-> 1, completed |-> completed, ttft |-> ttft,
                     in |-> usage.in, out |-> usage.out, finish |-> finish]),
                  row |->
                    [provider |-> target.provider, model |-> target.model,
                     status |-> c.status, type |-> c.type, message |-> c.message,
                     started |-> 1, completed |-> completed, ttft |-> ttft,
                     in |-> usage.in, out |-> usage.out, finish |-> finish]]
  BY DEF Publish
<1> DEFINE row == event'.row
           status == IF ending.how = "finished" THEN "success"
                     ELSE IF ending.how \in {"CancelledError", "GeneratorExit"} THEN "cancelled"
                     ELSE "error"
<1>2. /\ pc = "ending" /\ pc' = "ended"
      /\ ending' = ending /\ target' = target
  BY DEF Publish
<1>3. /\ c.status = status
      /\ c.type = (IF status # "error" THEN None
                   ELSE IF ending.sdk # None THEN ending.sdk ELSE ending.how)
      /\ status = "error" => c.message # None
      /\ status = "error" /\ c.message = "" => ending.sdk # None /\ ending.message = ""
  <2>1. CASE ending.how = "finished" /\ ending.sdk = None
    BY <2>1 DEF Classify
  <2>2. CASE ending.how \in {"CancelledError", "GeneratorExit"} /\ ending.sdk = None
    BY <2>2 DEF Classify
  <2>3. CASE ending.how = "Exception" /\ ending.sdk = None /\ ending.message = ""
    BY <2>3, TextAssumption DEF Classify
  <2>4. CASE ending.how = "ProviderError" /\ ending.sdk = None /\ ending.message = "text"
    BY <2>4, TextAssumption DEF Classify
  <2>5. CASE /\ ending.how = "ProviderError" /\ ending.sdk = "RateLimitError"
             /\ ending.message \in {"", "text"}
    BY <2>5, TextAssumption DEF Classify
  <2> QED
    BY <1>2, <2>1, <2>2, <2>3, <2>4, <2>5 DEF Caught
<1>4. target.provider # None /\ target.model # None /\ LengthOf[target.model] \in Nat \ {0}
  <2>1. target.provider \in Vendors \cup {"mock"} /\ target.model \in Models
    BY <1>2 DEF TypeOK, Called
  <2>2. target.model # None
    BY <2>1, RoutingAssumption DEF Models
  <2> QED
    BY <2>1, <2>2, RoutingAssumption, CallAssumption
<1>5. event'.accepted = Accepts(row)
  BY <1>1
<1>6. /\ row.provider = target.provider /\ row.model = target.model
      /\ row.status = c.status /\ row.type = c.type /\ row.message = c.message
      /\ row.started = 1 /\ row.completed \in {0, 1}
      /\ row.ttft = ttft /\ row.in = usage.in /\ row.out = usage.out
  BY <1>1
<1>7. \A n \in {row.ttft, row.in, row.out} : n = None \/ (n # None /\ n \in Nat /\ n >= 0)
  BY <1>6, NotNegative
<1>8. row.status \in {"success", "error", "cancelled"}
  BY <1>3, <1>6
<1>9. /\ Accepts(row) => Storable(row)
      /\ ~Accepts(row) => \/ row.completed < row.started
                          \/ LengthOf[row.model] > 128
                          \/ row.status = "error" /\ row.message \in {None, ""}
  <2> HIDE DEF row
  <2> QED
    BY <1>4, <1>6, <1>7, <1>8, AcceptedOrNot
<1> QED
  BY <1>2, <1>3, <1>5, <1>6, <1>8, <1>9 DEF EveryEndingIsLogged

\* A call that ended has its event, and misses it for one of three reasons.
THEOREM EndingsAreLogged == Spec => []EveryEndingIsLogged
<1>1. Init => Caught /\ EveryEndingIsLogged
  BY DEF Init, Caught, EveryEndingIsLogged
<1>2. TypeOK /\ Caught /\ EveryEndingIsLogged /\ [Next]_vars => EveryEndingIsLogged'
  <2> SUFFICES ASSUME TypeOK, Caught, EveryEndingIsLogged, [Next]_vars
               PROVE  EveryEndingIsLogged'
    OBVIOUS
  <2>1. CASE Publish
    BY <2>1, PublishLogs
  <2>2. CASE ~Publish
    <3>1. pc' # "ended" \/ UNCHANGED vars
      BY <2>2 DEF Next, Resolve, ReceiveAny, Receive, StreamEnds, ProviderFails,
         AdapterFails, CallerGoes, EndsWith
    <3> QED
      BY <3>1 DEF vars, EveryEndingIsLogged
  <2> QED
    BY <2>1, <2>2
<1> QED
  BY <1>1, <1>2, NextCaught, TypeCorrect, PTL DEF Spec
=============================================================================

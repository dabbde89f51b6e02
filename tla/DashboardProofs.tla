-------------------------- MODULE DashboardProofs ---------------------------
(***************************************************************************)
(* The readers of the inference logs, for any set of calls, any history of *)
(* them, any page size, window and interval, and any skew of the clocks.   *)
(*                                                                         *)
(* The variables of the workers change between any two SELECTs.  The       *)
(* invariant says of each figure of a report that it is that of some set   *)
(* of rows between the rows that were there when the request began and the *)
(* rows that are there now.                                                *)
(***************************************************************************)
EXTENDS Dashboard, QueriesProofs

AfterTotals    == {"series", "providers", "health", "raw", "lag", "errors", "panel", "full"}
AfterSeries    == AfterTotals \ {"series"}
AfterProviders == AfterSeries \ {"providers"}
AfterHealth    == AfterProviders \ {"health"}
AfterRaw       == AfterHealth \ {"raw"}
AfterLag       == AfterRaw \ {"lag"}

Typed ==
  /\ call \in Histories /\ skew \in Skews /\ now \in 0 .. MaxTime
  /\ ingested \in [Calls -> (0 .. now) \cup {None}]
  /\ logs \subseteq {c \in Calls : ingested[c] # None}
  /\ pc \in Points
  /\ cursor # None => cursor \in [before : Nat, id : Calls \cup {None}]
  /\ shown \in Seq(Calls) /\ seen \subseteq logs /\ start \in 0 .. now
  /\ DOMAIN report = {"totals", "series", "providers", "health", "raw", "lag"}
  /\ pc = "page" => ask.limit \in Nat \ {0}
  /\ pc \in AfterTotals \cup {"totals"} => ask.since \in Int /\ ask.width \in Nat \ {0}

\* What is not read yet is blank.
Unread ==
  /\ pc \notin AfterTotals => report.totals = None
  /\ pc \notin AfterSeries => report.series = None
  /\ pc \notin AfterProviders => report.providers = None
  /\ pc \notin AfterHealth => report.health = None
  /\ pc \notin AfterRaw => report.raw = None
  /\ pc \notin AfterLag => report.lag = None

----------------------------------------------------------------------------
(* What the SELECTs return, of a set of rows *)

TotalsOf(S) == Aggregate(InWindow(S))

SeriesOf(S) ==
  [b \in {Bucket(c) : c \in InWindow(S)} |->
     Aggregate({c \in InWindow(S) : Bucket(c) = b})]

ProvidersOf(S) ==
  [p \in {call[c].provider : c \in InWindow(S)} |->
     Aggregate({c \in InWindow(S) : call[c].provider = p})]

\* The rows a SELECT may have found.
Found == {S \in SUBSET logs : seen \subseteq S}

TotalsRead == pc \in AfterTotals => \E S \in Found : report.totals = TotalsOf(S)
SeriesRead == pc \in AfterSeries => \E S \in Found : report.series = SeriesOf(S)
ProvidersRead ==
  pc \in AfterProviders => \E S \in Found : report.providers = ProvidersOf(S)
HealthRead ==
  pc \in AfterHealth => \E S \in Found : /\ report.health.total = Cardinality(S)
                                         /\ report.health.last = None => S = {}
                                         /\ report.health.last # None => S # {}

\* The lag is the age of the youngest of the rows found; without one there
\* was none.
LagRead ==
  /\ pc = "lag" => logs # {}
  /\ pc \in AfterLag =>
       IF report.lag = None THEN seen = {}
       ELSE \E S \in Found : \E c \in S : /\ report.lag = start - ingested[c]
                                          /\ \A d \in S : ingested[d] <= ingested[c]

----------------------------------------------------------------------------
(* What the pages hold *)

\* d is further down the list than c.
Newer(c, d) == RowLess(call[d].started, d, call[c].started, c)

NewestAreFirst == \A i, j \in DOMAIN shown : i < j => Newer(shown[i], shown[j])

Wanted(c) == Matches(c, ask.provider, ask.status)

\* The rows that are still to come are before the cursor, and nothing before
\* the cursor is ahead of what was listed.
Paging ==
  /\ pc \notin {"page", "listed", "panel", "full"} => shown = <<>>
  /\ pc = "page" =>
       /\ \A c \in ToSet(shown), d \in Calls : Before(d, cursor) => Newer(c, d)
       /\ \A c \in seen : Wanted(c) => c \in ToSet(shown) \/ Before(c, cursor)
  /\ pc = "listed" => \A c \in seen : Wanted(c) => c \in ToSet(shown)
  /\ pc \in {"panel", "full"} =>
       \A c \in seen : call[c].status = "error" =>
         c \in ToSet(shown) \/ (pc = "full" /\ \A d \in ToSet(shown) : Newer(d, c))

IInv ==
  /\ Typed /\ Unread
  /\ TotalsRead /\ SeriesRead /\ ProvidersRead /\ HealthRead /\ LagRead
  /\ SummaryAddsUp
  /\ NewestAreFirst /\ Paging

----------------------------------------------------------------------------
(* The constants, and figures that do not change *)

\* The times and tokens of a call are numbers, and ids are.
LEMMA CallsAre ==
  ASSUME Typed
  PROVE  /\ Calls \subseteq Nat /\ IsFiniteSet(Calls)
         /\ \A c \in Calls : /\ call[c].started \in Nat /\ call[c].completed \in Nat
                             /\ call[c].tokens \in Nat /\ call[c].ttft \in Nat \cup {None}
         /\ None \notin Int
         /\ logs \subseteq Calls /\ IsFiniteSet(logs)
         /\ \A c \in logs : ingested[c] \in 0 .. now /\ ingested[c] \in Nat
<1>1. call \in [Calls -> Shape] /\ Calls \subseteq Nat /\ IsFiniteSet(Calls) /\ None \notin Int
  BY DashboardAssumption DEF Typed
<1>2. \A c \in Calls : /\ call[c].started \in Nat /\ call[c].completed \in Nat
                       /\ call[c].tokens \in Nat /\ call[c].ttft \in Nat \cup {None}
  BY <1>1 DEF Shape
<1>3. logs \in SUBSET Calls
  BY DEF Typed
<1>4. IsFiniteSet(logs)
  BY <1>1, <1>3, FS_Subset
<1>5. \A c \in logs : ingested[c] \in 0 .. now /\ ingested[c] \in Nat
  BY <1>3, DashboardAssumption DEF Typed
<1> QED
  BY <1>1, <1>2, <1>3, <1>4, <1>5

\* The figures of a set of rows depend on the calls and on the request alone.
LEMMA SameFigures ==
  ASSUME UNCHANGED <<call, ask>>, NEW S
  PROVE  /\ TotalsOf(S)' = TotalsOf(S)
         /\ SeriesOf(S)' = SeriesOf(S)
         /\ ProvidersOf(S)' = ProvidersOf(S)
<1> USE DEF Aggregate, InWindow, FastestFirst, RowLess, Percentile, CountWhere
<1>1. TotalsOf(S)' = TotalsOf(S)
  BY DEF TotalsOf
<1>2. SeriesOf(S)' = SeriesOf(S)
  BY DEF SeriesOf, Bucket
<1>3. ProvidersOf(S)' = ProvidersOf(S)
  BY DEF ProvidersOf
<1> QED
  BY <1>1, <1>2, <1>3

\* A report that does not change stays right while rows are added.
LEMMA ReportKept ==
  ASSUME Typed, TotalsRead, SeriesRead, ProvidersRead, HealthRead,
         UNCHANGED <<call, ask, seen>>, logs \subseteq logs'
  PROVE  /\ (pc' \in AfterTotals => pc \in AfterTotals /\ report'.totals = report.totals)
              => TotalsRead'
         /\ (pc' \in AfterSeries => pc \in AfterSeries /\ report'.series = report.series)
              => SeriesRead'
         /\ (pc' \in AfterProviders =>
               pc \in AfterProviders /\ report'.providers = report.providers)
              => ProvidersRead'
         /\ (pc' \in AfterHealth => pc \in AfterHealth /\ report'.health = report.health)
              => HealthRead'
<1>0. Found \subseteq Found'
  BY DEF Found
<1>1. ASSUME pc' \in AfterTotals => pc \in AfterTotals /\ report'.totals = report.totals
      PROVE  TotalsRead'
  BY <1>0, <1>1, SameFigures DEF TotalsRead
<1>2. ASSUME pc' \in AfterSeries => pc \in AfterSeries /\ report'.series = report.series
      PROVE  SeriesRead'
  BY <1>0, <1>2, SameFigures DEF SeriesRead
<1>3. ASSUME pc' \in AfterProviders =>
               pc \in AfterProviders /\ report'.providers = report.providers
      PROVE  ProvidersRead'
  BY <1>0, <1>3, SameFigures DEF ProvidersRead
<1>4. ASSUME pc' \in AfterHealth => pc \in AfterHealth /\ report'.health = report.health
      PROVE  HealthRead'
  BY <1>0, <1>4 DEF HealthRead
<1> QED
  BY <1>1, <1>2, <1>3, <1>4

\* Nothing written meanwhile means nothing written so far.
LEMMA SumsKept ==
  ASSUME Typed, SummaryAddsUp, UNCHANGED <<report, seen>>, logs \subseteq logs'
  PROVE  SummaryAddsUp'
<1>1. seen' = logs' => seen = logs
  BY DEF Typed
<1> QED
  BY <1>1 DEF SummaryAddsUp

\* In the beginning nothing is asked.
LEMMA InitIInv == Init => IInv
<1> SUFFICES ASSUME Init PROVE IInv
  OBVIOUS
<1>1. Typed
  BY DashboardAssumption DEF Init, Typed, Points, AfterTotals
<1>2. Unread
  BY DEF Init, Unread
<1>3. TotalsRead /\ SeriesRead /\ ProvidersRead /\ HealthRead /\ LagRead
  BY DEF Init, TotalsRead, SeriesRead, ProvidersRead, HealthRead, LagRead, AfterTotals,
         AfterSeries, AfterProviders, AfterHealth, AfterRaw, AfterLag
<1>4. SummaryAddsUp
  BY DEF Init, SummaryAddsUp
<1>5. NewestAreFirst /\ Paging
  BY DEF Init, NewestAreFirst, Paging
<1> QED
  BY <1>1, <1>2, <1>3, <1>4, <1>5 DEF IInv

----------------------------------------------------------------------------
(* Workers *)

\* Whatever workers do while a reader waits, no row goes and none gets another
\* ingested_at.
LEMMA WritesIInv ==
  ASSUME IInv, UNCHANGED <<call, skew, reader>>, now' \in now .. MaxTime,
         ingested' \in [Calls -> (0 .. now') \cup {None}],
         logs \subseteq logs', logs' \subseteq {c \in Calls : ingested'[c] # None},
         \A c \in logs : ingested'[c] = ingested[c]
  PROVE  IInv'
<1> USE DEF IInv, reader
<1>1. Typed'
  <2>1. now \in Nat /\ now' \in Nat /\ now <= now' /\ now' <= MaxTime
    BY DashboardAssumption DEF Typed
  <2>2. start' \in 0 .. now' /\ now' \in 0 .. MaxTime /\ seen' \subseteq logs'
    BY <2>1, DashboardAssumption DEF Typed
  <2> QED
    BY <2>2 DEF Typed
<1>2. Unread' /\ NewestAreFirst'
  BY DEF Unread, NewestAreFirst, Newer
<1>3. TotalsRead' /\ SeriesRead' /\ ProvidersRead' /\ HealthRead'
  BY ReportKept
<1>4. LagRead'
  <2>1. pc' = "lag" => logs' # {}
    BY DEF LagRead
  <2>2. ASSUME pc' \in AfterLag, report.lag # None
        PROVE  \E S \in Found' : \E c \in S : /\ report.lag = start' - ingested'[c]
                                              /\ \A d \in S : ingested'[d] <= ingested'[c]
    <3>1. PICK S \in Found : \E c \in S : /\ report.lag = start - ingested[c]
                                          /\ \A d \in S : ingested[d] <= ingested[c]
      BY <2>2 DEF LagRead
    <3>2. S \in Found' /\ \A d \in S : ingested'[d] = ingested[d]
      BY <3>1 DEF Found
    <3> QED
      BY <3>1, <3>2
  <2> QED
    BY <2>1, <2>2 DEF LagRead
<1>5. SummaryAddsUp'
  BY SumsKept
<1>6. Paging'
  BY DEF Paging, Newer, Before, Wanted, Matches
<1> QED
  BY <1>1, <1>2, <1>3, <1>4, <1>5, <1>6

\* A transaction begins, commits or rolls back, and time passes.
LEMMA WorldIInv == ASSUME IInv, World PROVE IInv'
<1>1. Typed /\ now \in Nat /\ MaxTime \in Nat /\ now <= MaxTime /\ None \notin Int
  BY DashboardAssumption DEF IInv, Typed
<1>2. logs \subseteq {c \in Calls : ingested[c] # None}
  BY DEF IInv, Typed
<1>3. ASSUME NEW c \in Calls, BeginWrite(c) PROVE IInv'
  <2>1. now \in (0 .. now) \cup {None} /\ now # None /\ now' = now
    BY <1>1, <1>3 DEF BeginWrite
  <2>2. ingested' \in [Calls -> (0 .. now') \cup {None}]
    BY <1>1, <1>3, <2>1 DEF BeginWrite, Typed
  <2>3. c \notin logs
    BY <1>2, <1>3 DEF BeginWrite
  <2>4. \A d \in logs : ingested'[d] = ingested[d]
    BY <1>1, <1>2, <1>3, <2>3 DEF BeginWrite, Typed
  <2> QED
    BY <1>1, <1>2, <1>3, <2>1, <2>2, <2>4, WritesIInv DEF BeginWrite
<1>4. ASSUME NEW c \in Calls, CommitWrite(c) PROVE IInv'
  <2>1. now' = now /\ ingested' = ingested
    BY <1>4 DEF CommitWrite
  <2>2. ingested' \in [Calls -> (0 .. now') \cup {None}]
    BY <1>1, <2>1 DEF Typed
  <2> QED
    BY <1>1, <1>2, <1>4, <2>1, <2>2, WritesIInv DEF CommitWrite
<1>5. ASSUME NEW c \in Calls, RollbackWrite(c) PROVE IInv'
  <2>1. ingested' \in [Calls -> (0 .. now') \cup {None}] /\ now' = now
    BY <1>1, <1>5 DEF RollbackWrite, Typed
  <2>2. \A d \in logs : ingested'[d] = ingested[d]
    BY <1>1, <1>2, <1>5 DEF RollbackWrite, Typed
  <2> QED
    BY <1>1, <1>2, <1>5, <2>1, <2>2, WritesIInv DEF RollbackWrite
<1>6. ASSUME Tick PROVE IInv'
  <2>1. now' = now + 1 /\ now < MaxTime /\ ingested' = ingested
    BY <1>6 DEF Tick
  <2>2. now' \in now .. MaxTime /\ (0 .. now) \subseteq (0 .. now')
    BY <1>1, <2>1
  <2>3. ingested' \in [Calls -> (0 .. now') \cup {None}]
    BY <1>1, <2>1, <2>2 DEF Typed
  <2> QED
    BY <1>1, <1>2, <1>6, <2>1, <2>2, <2>3, WritesIInv DEF Tick
<1> QED
  BY <1>3, <1>4, <1>5, <1>6 DEF World

----------------------------------------------------------------------------
(* The figures of a summary as sums over calls *)

\* What a call adds to a figure.
Weight(f) ==
  [c \in Calls |-> IF f = "tokens" THEN call[c].tokens
                   ELSE IF \/ f = "requests"
                           \/ f = "errors" /\ call[c].status = "error"
                           \/ f = "cancels" /\ call[c].status = "cancelled"
                   THEN 1 ELSE 0]

\* A figure is the sum of what its rows add to it.
LEMMA FigureIsSum ==
  ASSUME Typed, NEW S \in SUBSET Calls, NEW f \in Fields
  PROVE  /\ Weight(f) \in [Calls -> Nat]
         /\ Aggregate(S)[f] = SumFunctionOnSet(Weight(f), S)
<1>1. IsFiniteSet(Calls) /\ IsFiniteSet(S)
  BY CallsAre, FS_Subset
<1>2. Weight(f) \in [Calls -> Nat]
  BY CallsAre DEF Weight
<1>3. CASE f = "tokens"
  <2> DEFINE tokens == [c \in S |-> call[c].tokens]
  <2>1. Aggregate(S)[f] = SumFunctionOnSet(tokens, S)
    BY <1>3 DEF Aggregate, SumFunction
  <2>2. \A c \in S : tokens[c] = Weight(f)[c]
    BY <1>3 DEF Weight
  <2> HIDE DEF tokens
  <2>3. SumFunctionOnSet(tokens, S) = SumFunctionOnSet(Weight(f), S)
    BY <1>1, <2>2, SumSame
  <2> QED
    BY <1>2, <2>1, <2>3
<1>4. CASE f # "tokens"
  <2>1. Weight(f) \in [Calls -> {0, 1}]
    BY <1>4 DEF Weight
  <2>2. SumFunctionOnSet(Weight(f), S) = Cardinality({c \in S : Weight(f)[c] = 1})
    BY <1>1, <2>1, CountIsSum
  <2>3. Aggregate(S)[f] = Cardinality({c \in S : Weight(f)[c] = 1})
    <3>1. CASE f = "requests"
      <4>1. {c \in S : Weight(f)[c] = 1} = S
        BY <3>1 DEF Weight
      <4> QED
        BY <3>1, <4>1 DEF Aggregate
    <3>2. CASE f = "errors"
      <4>1. {c \in S : Weight(f)[c] = 1} = {c \in S : call[c].status = "error"}
        BY <3>2 DEF Weight
      <4> QED
        BY <3>2, <4>1 DEF Aggregate, CountWhere
    <3>3. CASE f = "cancels"
      <4>1. {c \in S : Weight(f)[c] = 1} = {c \in S : call[c].status = "cancelled"}
        BY <3>3 DEF Weight
      <4> QED
        BY <3>3, <4>1 DEF Aggregate, CountWhere
    <3> QED
      BY <1>4, <3>1, <3>2, <3>3 DEF Fields
  <2> QED
    BY <1>2, <2>2, <2>3
<1> QED
  BY <1>3, <1>4

\* A query that groups its rows has the figures of all of them.
LEMMA GroupsAddUp ==
  ASSUME Typed, NEW S \in SUBSET Calls, NEW key, key = [c \in S |-> key[c]], NEW f \in Fields
  PROVE  SumOver([k \in {key[c] : c \in S} |-> Aggregate({c \in S : key[c] = k})], f)
           = SumFunctionOnSet(Weight(f), S)
<1> DEFINE K == {key[c] : c \in S}
           rows(k) == {c \in S : key[c] = k}
           groups == [k \in K |-> Aggregate(rows(k))]
           weight == [c \in S |-> Weight(f)[c]]
           sums == [k \in K |-> SumFunctionOnSet(weight, rows(k))]
<1>1. IsFiniteSet(S) /\ weight \in [S -> Nat]
  BY CallsAre, FS_Subset, FigureIsSum
<1>2. key \in [S -> K] /\ IsFiniteSet(K)
  <2>1. key \in Surjection(S, K)
    BY DEF Surjection
  <2> HIDE DEF K
  <2> QED
    BY <1>1, <2>1, FS_Surjection DEF Surjection
<1>3. SumOver(groups, f) = SumFunctionOnSet([k \in K |-> groups[k][f]], K)
  BY DEF SumOver, SumFunction
<1>4. \A k \in K : groups[k][f] = sums[k]
  <2>1. ASSUME NEW k \in K PROVE groups[k][f] = sums[k]
    <3>1. rows(k) \in SUBSET Calls /\ IsFiniteSet(rows(k)) /\ rows(k) \in SUBSET S
      BY <1>1, FS_Subset
    <3>2. \A c \in rows(k) : weight[c] = Weight(f)[c]
      OBVIOUS
    <3> HIDE DEF rows, weight
    <3>3. Aggregate(rows(k))[f] = SumFunctionOnSet(Weight(f), rows(k))
      BY <3>1, FigureIsSum
    <3>4. SumFunctionOnSet(Weight(f), rows(k)) = SumFunctionOnSet(weight, rows(k))
      BY <3>1, <3>2, SumSame
    <3> QED
      BY <3>3, <3>4
  <2> HIDE DEF groups, sums
  <2> QED
    BY <2>1
<1>5. SumFunctionOnSet([k \in K |-> groups[k][f]], K) = SumFunctionOnSet(sums, K)
  <2> DEFINE figures == [k \in K |-> groups[k][f]]
  <2>1. \A k \in K : figures[k] = sums[k]
    <3> HIDE DEF groups, sums, K
    <3> QED
      BY <1>4
  <2> HIDE DEF figures, sums, K
  <2>2. SumFunctionOnSet(figures, K) = SumFunctionOnSet(sums, K)
    BY <1>2, <2>1, SumSame
  <2> QED
    BY <2>2 DEF figures
<1>6. SumFunctionOnSet(sums, K) = SumFunctionOnSet(weight, S)
  <2> HIDE DEF K, weight
  <2> QED
    BY <1>1, <1>2, SumOfGroups
<1>7. SumFunctionOnSet(weight, S) = SumFunctionOnSet(Weight(f), S)
  <2>1. \A c \in S : weight[c] = Weight(f)[c]
    OBVIOUS
  <2> HIDE DEF weight
  <2> QED
    BY <1>1, <2>1, SumSame
<1> HIDE DEF sums, weight
<1> QED
  BY <1>3, <1>5, <1>6, <1>7

\* What a summary says of a set of rows.
Measure(f, S) == SumFunctionOnSet(Weight(f), InWindow(S))

\* The three SELECTs that find the same rows have the same figures, and with
\* more rows no smaller ones.
LEMMA FiguresAgree ==
  ASSUME Typed, NEW S \in SUBSET Calls, NEW f \in Fields
  PROVE  /\ TotalsOf(S)[f] = Measure(f, S)
         /\ SumOver(SeriesOf(S), f) = Measure(f, S)
         /\ SumOver(ProvidersOf(S), f) = Measure(f, S)
         /\ Measure(f, S) \in Nat
         /\ \A T \in SUBSET S : Measure(f, T) <= Measure(f, S)
<1> DEFINE W == InWindow(S)
<1>1. W \in SUBSET Calls
  BY DEF InWindow
<1>2. IsFiniteSet(Calls) /\ Weight(f) \in [Calls -> Nat]
  BY CallsAre, FigureIsSum
<1>3. TotalsOf(S)[f] = Measure(f, S)
  <2> HIDE DEF W
  <2>1. Aggregate(W)[f] = SumFunctionOnSet(Weight(f), W)
    BY <1>1, FigureIsSum
  <2> QED
    BY <2>1 DEF TotalsOf, Measure, W
<1>4. SumOver(SeriesOf(S), f) = Measure(f, S)
  <2> DEFINE key == [c \in W |-> Bucket(c)]
  <2>1. key = [c \in W |-> key[c]]
    OBVIOUS
  <2>2. SeriesOf(S) = [k \in {key[c] : c \in W} |-> Aggregate({c \in W : key[c] = k})]
    <3>1. {Bucket(c) : c \in W} = {key[c] : c \in W}
      OBVIOUS
    <3>2. \A k : {c \in W : Bucket(c) = k} = {c \in W : key[c] = k}
      OBVIOUS
    <3> HIDE DEF key
    <3> QED
      BY <3>1, <3>2 DEF SeriesOf
  <2> HIDE DEF key, W
  <2>3. SumOver([k \in {key[c] : c \in W} |-> Aggregate({c \in W : key[c] = k})], f)
          = SumFunctionOnSet(Weight(f), W)
    BY <1>1, <2>1, GroupsAddUp
  <2> QED
    BY <2>2, <2>3 DEF Measure, W
<1>5. SumOver(ProvidersOf(S), f) = Measure(f, S)
  <2> DEFINE key == [c \in W |-> call[c].provider]
  <2>1. key = [c \in W |-> key[c]]
    OBVIOUS
  <2>2. ProvidersOf(S) = [k \in {key[c] : c \in W} |-> Aggregate({c \in W : key[c] = k})]
    <3>1. {call[c].provider : c \in W} = {key[c] : c \in W}
      OBVIOUS
    <3>2. \A k : {c \in W : call[c].provider = k} = {c \in W : key[c] = k}
      OBVIOUS
    <3> HIDE DEF key
    <3> QED
      BY <3>1, <3>2 DEF ProvidersOf
  <2> HIDE DEF key, W
  <2>3. SumOver([k \in {key[c] : c \in W} |-> Aggregate({c \in W : key[c] = k})], f)
          = SumFunctionOnSet(Weight(f), W)
    BY <1>1, <2>1, GroupsAddUp
  <2> QED
    BY <2>2, <2>3 DEF Measure, W
<1>6. Measure(f, S) \in Nat
  BY <1>1, <1>2, SumType DEF Measure
<1>7. ASSUME NEW T \in SUBSET S PROVE Measure(f, T) <= Measure(f, S)
  <2>1. InWindow(T) \in SUBSET W
    BY DEF InWindow
  <2> HIDE DEF W
  <2>2. SumFunctionOnSet(Weight(f), InWindow(T)) <= SumFunctionOnSet(Weight(f), W)
    BY <1>1, <1>2, <2>1, SumGrows
  <2> QED
    BY <2>2 DEF Measure, W
<1> QED
  BY <1>3, <1>4, <1>5, <1>6, <1>7

----------------------------------------------------------------------------
(* The SELECTs of a summary *)

\* A SELECT of the summary leaves the lists alone, and the clock, the rows and
\* the calls.
LEMMA SummaryKeeps ==
  ASSUME Typed, NewestAreFirst, Paging, UNCHANGED <<call, skew, store, cursor, shown>>,
         pc \in {"idle", "totals", "series", "providers", "health", "raw", "lag"},
         pc' \in {"totals", "series", "providers", "health", "raw", "lag", "errors"}
  PROVE  NewestAreFirst' /\ Paging'
BY DEF NewestAreFirst, Paging, Newer

\* A SELECT that returns one field keeps the types.
LEMMA ReadTyped ==
  ASSUME Typed, UNCHANGED <<call, skew, store, ask, cursor, shown, seen>>,
         start' \in {start, now}, DOMAIN report' = DOMAIN report,
         pc \in {"totals", "series", "providers", "health", "raw", "lag"},
         pc' \in {"series", "providers", "health", "raw", "lag", "errors"}
  PROVE  Typed'
<1>1. now \in 0 .. now
  BY DashboardAssumption DEF Typed
<1>2. pc' \in Points
  BY DEF Points
<1>3. ask'.since \in Int /\ ask'.width \in Nat \ {0}
  BY DEF Typed, AfterTotals
<1> QED
  BY <1>1, <1>2, <1>3 DEF Typed, store

\* A request for a summary begins.
LEMMA OpenSummaryIInv == ASSUME IInv, OpenSummary PROVE IInv'
<1> USE DEF IInv, OpenSummary, Reads, store
<1>1. Typed'
  <2>1. PICK w \in Widths : ask' = [since |-> ApiClock - Window, width |-> w]
    OBVIOUS
  <2>2. ask'.since \in Int /\ ask'.width \in Nat \ {0}
    BY <2>1, DashboardAssumption DEF ApiClock, Typed
  <2> QED
    BY <2>2 DEF Typed, Points
<1>2. Unread'
  BY DEF Unread, AfterTotals, AfterSeries, AfterProviders, AfterHealth, AfterRaw, AfterLag
<1>3. TotalsRead' /\ SeriesRead' /\ ProvidersRead' /\ HealthRead' /\ LagRead'
  BY DEF TotalsRead, SeriesRead, ProvidersRead, HealthRead, LagRead, AfterTotals,
         AfterSeries, AfterProviders, AfterHealth, AfterRaw, AfterLag
<1>4. SummaryAddsUp'
  BY DEF Unread, SummaryAddsUp, AfterTotals, AfterSeries, AfterProviders, AfterHealth,
         AfterRaw, AfterLag
<1>5. NewestAreFirst' /\ Paging'
  BY SummaryKeeps
<1> QED
  BY <1>1, <1>2, <1>3, <1>4, <1>5

\* The rows there are now are some that a SELECT may find.
LEMMA AllAreFound == ASSUME Typed, UNCHANGED <<logs, seen>> PROVE logs \in Found /\ logs \in Found'
BY DEF Typed, Found

\* The totals are those of the rows there are.
LEMMA ReadTotalsIInv == ASSUME IInv, ReadTotals PROVE IInv'
<1> USE DEF IInv, ReadTotals, Reads, Returns, store
<1>1. /\ report'.totals = TotalsOf(logs) /\ DOMAIN report' = DOMAIN report
      /\ \A f \in {"series", "providers", "health", "raw", "lag"} : report'[f] = report[f]
  BY DEF Typed, TotalsOf
<1>2. Typed'
  BY <1>1, ReadTyped
<1>3. Unread'
  BY <1>1 DEF Unread, AfterTotals, AfterSeries, AfterProviders, AfterHealth, AfterRaw, AfterLag
<1>4. TotalsRead'
  BY <1>1, AllAreFound, SameFigures DEF TotalsRead
<1>5. SeriesRead' /\ ProvidersRead' /\ HealthRead' /\ LagRead'
  BY DEF SeriesRead, ProvidersRead, HealthRead, LagRead, AfterTotals,
         AfterSeries, AfterProviders, AfterHealth, AfterRaw, AfterLag
<1>6. SummaryAddsUp'
  BY <1>1 DEF Unread, SummaryAddsUp, AfterTotals, AfterSeries, AfterProviders, AfterHealth,
              AfterRaw, AfterLag
<1>7. NewestAreFirst' /\ Paging'
  BY SummaryKeeps
<1> QED
  BY <1>2, <1>3, <1>4, <1>5, <1>6, <1>7

\* The series has the totals of the rows there are, at least those of the
\* rows the totals found.
LEMMA ReadSeriesIInv == ASSUME IInv, ReadSeries PROVE IInv'
<1> USE DEF IInv, ReadSeries, Reads, Returns, store
<1>1. /\ report'.series = SeriesOf(logs) /\ DOMAIN report' = DOMAIN report
      /\ \A f \in {"totals", "providers", "health", "raw", "lag"} : report'[f] = report[f]
  BY DEF Typed, SeriesOf
<1>2. Typed'
  BY <1>1, ReadTyped
<1>3. Unread'
  BY <1>1 DEF Unread, AfterTotals, AfterSeries, AfterProviders, AfterHealth, AfterRaw, AfterLag
<1>4. TotalsRead'
  BY <1>1, ReportKept DEF AfterTotals
<1>5. SeriesRead'
  BY <1>1, AllAreFound, SameFigures DEF SeriesRead
<1>6. ProvidersRead' /\ HealthRead' /\ LagRead'
  BY DEF ProvidersRead, HealthRead, LagRead, AfterTotals,
         AfterSeries, AfterProviders, AfterHealth, AfterRaw, AfterLag
<1>7. SummaryAddsUp'
  <2>1. PICK S \in Found : report.totals = TotalsOf(S)
    BY DEF TotalsRead, AfterTotals
  <2>2. logs \in SUBSET Calls /\ S \in SUBSET Calls /\ S \in SUBSET logs /\ (seen = logs => S = logs)
    BY CallsAre DEF Found
  <2>3. ASSUME NEW f \in Fields
        PROVE  /\ report'.totals[f] <= SumOver(report'.series, f)
               /\ seen = logs => report'.totals[f] = SumOver(report'.series, f)
    <3>1. report'.totals[f] = Measure(f, S) /\ SumOver(report'.series, f) = Measure(f, logs)
      BY <1>1, <2>1, <2>2, FiguresAgree
    <3>2. Measure(f, S) <= Measure(f, logs)
      BY <2>2, FiguresAgree
    <3> QED
      BY <2>2, <3>1, <3>2
  <2>4. report'.providers = None /\ report'.health = None /\ report'.raw = None
    BY <1>1 DEF Unread, AfterTotals, AfterSeries, AfterProviders, AfterHealth, AfterRaw
  <2> QED
    BY <2>3, <2>4 DEF SummaryAddsUp
<1>8. NewestAreFirst' /\ Paging'
  BY SummaryKeeps
<1> QED
  BY <1>2, <1>3, <1>4, <1>5, <1>6, <1>7, <1>8

\* The same of the providers and the series.
LEMMA ReadProvidersIInv == ASSUME IInv, ReadProviders PROVE IInv'
<1> USE DEF IInv, ReadProviders, Reads, Returns, store
<1>1. /\ report'.providers = ProvidersOf(logs) /\ DOMAIN report' = DOMAIN report
      /\ \A f \in {"totals", "series", "health", "raw", "lag"} : report'[f] = report[f]
  BY DEF Typed, ProvidersOf
<1>2. Typed'
  BY <1>1, ReadTyped
<1>3. Unread'
  BY <1>1 DEF Unread, AfterTotals, AfterSeries, AfterProviders, AfterHealth, AfterRaw, AfterLag
<1>4. TotalsRead' /\ SeriesRead'
  BY <1>1, ReportKept DEF AfterTotals, AfterSeries
<1>5. ProvidersRead'
  BY <1>1, AllAreFound, SameFigures DEF ProvidersRead
<1>6. HealthRead' /\ LagRead'
  BY DEF HealthRead, LagRead, AfterTotals,
         AfterSeries, AfterProviders, AfterHealth, AfterRaw, AfterLag
<1>7. SummaryAddsUp'
  <2>1. PICK S \in Found : report.series = SeriesOf(S)
    BY DEF SeriesRead, AfterTotals, AfterSeries
  <2>2. logs \in SUBSET Calls /\ S \in SUBSET Calls /\ S \in SUBSET logs /\ (seen = logs => S = logs)
    BY CallsAre DEF Found
  <2>3. ASSUME NEW f \in Fields
        PROVE  /\ SumOver(report'.series, f) <= SumOver(report'.providers, f)
               /\ seen = logs => SumOver(report'.series, f) = SumOver(report'.providers, f)
    <3>1. /\ SumOver(report'.series, f) = Measure(f, S)
          /\ SumOver(report'.providers, f) = Measure(f, logs)
      BY <1>1, <2>1, <2>2, FiguresAgree
    <3>2. Measure(f, S) <= Measure(f, logs)
      BY <2>2, FiguresAgree
    <3> QED
      BY <2>2, <3>1, <3>2
  <2>4. report'.health = None /\ report'.raw = None
    BY <1>1 DEF Unread, AfterTotals, AfterSeries, AfterProviders, AfterHealth, AfterRaw
  <2>5. report'.totals = report.totals /\ report'.series = report.series
    BY <1>1
  <2> QED
    BY <2>3, <2>4, <2>5 DEF SummaryAddsUp
<1>8. NewestAreFirst' /\ Paging'
  BY SummaryKeeps
<1> QED
  BY <1>2, <1>3, <1>4, <1>5, <1>6, <1>7, <1>8

\* A set of rows has a youngest one.
LEMMA Youngest ==
  ASSUME Typed, logs # {}
  PROVE  LastIngested \in Nat /\ \E c \in logs : /\ LastIngested = ingested[c]
                                                 /\ \A d \in logs : ingested[d] <= ingested[c]
<1> DEFINE times == {ingested[c] : c \in logs}
<1>1. times \subseteq 0 .. now /\ times # {}
  BY CallsAre
<1>2. now \in Nat
  BY DashboardAssumption DEF Typed
<1>3. Max(times) \in times /\ \A t \in times : t <= Max(times)
  <2> HIDE DEF times
  <2> QED
    BY <1>1, <1>2, Greatest
<1>4. LastIngested = Max(times)
  BY DEF LastIngested
<1>5. LastIngested \in times /\ \A c \in logs : ingested[c] <= LastIngested
  BY <1>3, <1>4
<1> QED
  BY <1>5, CallsAre

\* The health panel counts every row, and has seen one if there was one.
LEMMA ReadLogHealthIInv == ASSUME IInv, ReadLogHealth PROVE IInv'
<1> USE DEF IInv, ReadLogHealth, Reads, Returns, store
<1>1. /\ report'.health = [last |-> LastIngested, total |-> Cardinality(logs)]
      /\ DOMAIN report' = DOMAIN report
      /\ \A f \in {"totals", "series", "providers", "raw", "lag"} : report'[f] = report[f]
  BY DEF Typed
<1>2. Typed'
  BY <1>1, ReadTyped
<1>3. Unread'
  BY <1>1 DEF Unread, AfterTotals, AfterSeries, AfterProviders, AfterHealth, AfterRaw, AfterLag
<1>4. TotalsRead' /\ SeriesRead' /\ ProvidersRead'
  BY <1>1, ReportKept DEF AfterTotals, AfterSeries, AfterProviders
<1>5. HealthRead'
  <2>1. (LastIngested = None => logs = {}) /\ (LastIngested # None => logs # {})
    BY CallsAre, Youngest DEF LastIngested
  <2>2. /\ report'.health.total = Cardinality(logs)
        /\ report'.health.last = LastIngested
    BY <1>1
  <2> QED
    BY <2>1, <2>2, AllAreFound DEF HealthRead
<1>6. LagRead'
  BY DEF LagRead, AfterTotals, AfterSeries, AfterProviders, AfterHealth, AfterRaw, AfterLag
<1>7. SummaryAddsUp'
  <2>1. PICK S \in Found : report.providers = ProvidersOf(S)
    BY DEF ProvidersRead, AfterTotals, AfterSeries, AfterProviders
  <2>2. logs \in SUBSET Calls /\ S \in SUBSET Calls /\ S \in SUBSET logs /\ IsFiniteSet(logs)
    BY CallsAre DEF Found
  <2>3. SumOver(report'.providers, "requests") <= report'.health.total
    <3>1. "requests" \in Fields
      BY DEF Fields
    <3>2. SumOver(report'.providers, "requests") = TotalsOf(S)["requests"]
      BY <1>1, <2>1, <2>2, <3>1, FiguresAgree
    <3>3. TotalsOf(S)["requests"] = Cardinality(InWindow(S))
      BY DEF TotalsOf, Aggregate
    <3>4. InWindow(S) \in SUBSET logs
      BY <2>2 DEF InWindow
    <3>5. Cardinality(InWindow(S)) <= Cardinality(logs)
      BY <2>2, <3>4, FS_Subset
    <3> QED
      BY <1>1, <3>2, <3>3, <3>5
  <2>4. report'.raw = None
    BY <1>1 DEF Unread, AfterTotals, AfterSeries, AfterProviders, AfterHealth, AfterRaw
  <2>5. report'.totals = report.totals /\ report'.series = report.series
        /\ report'.providers = report.providers
    BY <1>1
  <2> QED
    BY <2>3, <2>4, <2>5 DEF SummaryAddsUp
<1>8. NewestAreFirst' /\ Paging'
  BY SummaryKeeps
<1> QED
  BY <1>2, <1>3, <1>4, <1>5, <1>6, <1>7, <1>8

\* There are no fewer raw rows than the log rows counted before.
LEMMA ReadRawHealthIInv == ASSUME IInv, ReadRawHealth PROVE IInv'
<1> USE DEF IInv, ReadRawHealth, Reads, Returns, store
<1>1. /\ report'.raw = Cardinality(logs) /\ DOMAIN report' = DOMAIN report
      /\ \A f \in {"totals", "series", "providers", "health", "lag"} : report'[f] = report[f]
  BY DEF Typed
<1>2. pc' = (IF report.health.last = None THEN "errors" ELSE "lag") /\ report.lag = None
  BY DEF Unread, AfterTotals, AfterSeries, AfterProviders, AfterHealth, AfterRaw, AfterLag
<1>3. Typed'
  BY <1>1, <1>2, ReadTyped
<1>4. Unread'
  BY <1>1, <1>2
     DEF Unread, AfterTotals, AfterSeries, AfterProviders, AfterHealth, AfterRaw, AfterLag
<1>5. TotalsRead' /\ SeriesRead' /\ ProvidersRead' /\ HealthRead'
  BY <1>1, ReportKept DEF AfterTotals, AfterSeries, AfterProviders, AfterHealth
<1>6. PICK S \in Found : /\ report.health.total = Cardinality(S)
                         /\ report.health.last = None => S = {}
                         /\ report.health.last # None => S # {}
  BY DEF HealthRead, AfterTotals, AfterSeries, AfterProviders, AfterHealth
<1>7. S \in SUBSET logs /\ seen \subseteq S /\ IsFiniteSet(logs)
  BY <1>6, CallsAre DEF Found
<1>8. LagRead'
  BY <1>1, <1>2, <1>6, <1>7
     DEF LagRead, AfterTotals, AfterSeries, AfterProviders, AfterHealth, AfterRaw, AfterLag
<1>9. SummaryAddsUp'
  <2>1. Cardinality(S) <= Cardinality(logs)
    BY <1>7, FS_Subset
  <2>2. report'.health.total <= report'.raw
    BY <1>1, <1>6, <2>1
  <2>3. report'.totals = report.totals /\ report'.series = report.series
        /\ report'.providers = report.providers /\ report'.health = report.health
    BY <1>1
  <2> QED
    BY <2>2, <2>3 DEF SummaryAddsUp
<1>10. NewestAreFirst' /\ Paging'
  BY <1>2, SummaryKeeps
<1> QED
  BY <1>3, <1>4, <1>5, <1>8, <1>9, <1>10

\* The lag is the age of the youngest row there is.
LEMMA ReadLagIInv == ASSUME IInv, ReadLag PROVE IInv'
<1> USE DEF IInv, ReadLag, Reads, Returns, store
<1>1. /\ report'.lag = start - LastIngested /\ DOMAIN report' = DOMAIN report
      /\ \A f \in {"totals", "series", "providers", "health", "raw"} : report'[f] = report[f]
  BY DEF Typed
<1>2. Typed'
  BY <1>1, ReadTyped
<1>3. Unread'
  BY <1>1
     DEF Unread, AfterTotals, AfterSeries, AfterProviders, AfterHealth, AfterRaw, AfterLag
<1>4. TotalsRead' /\ SeriesRead' /\ ProvidersRead' /\ HealthRead'
  BY <1>1, ReportKept DEF AfterTotals, AfterSeries, AfterProviders, AfterHealth, AfterRaw
<1>5. LagRead'
  <2>1. logs # {}
    BY DEF LagRead
  <2>2. PICK c \in logs : LastIngested = ingested[c] /\ \A d \in logs : ingested[d] <= ingested[c]
    BY <2>1, Youngest
  <2>3. LastIngested \in Nat /\ start \in Int /\ None \notin Int
    BY <2>1, Youngest, CallsAre DEF Typed
  <2>4. report'.lag # None
    BY <1>1, <2>3
  <2> QED
    BY <1>1, <2>2, <2>4, AllAreFound DEF LagRead
<1>6. SummaryAddsUp'
  BY <1>1 DEF SummaryAddsUp
<1>7. NewestAreFirst' /\ Paging'
  BY SummaryKeeps
<1> QED
  BY <1>2, <1>3, <1>4, <1>5, <1>6, <1>7

----------------------------------------------------------------------------
(* Pages *)

\* The order of the list is strict and total.
LEMMA NewerOrders ==
  ASSUME Typed
  PROVE  /\ \A c \in Calls : ~Newer(c, c)
         /\ \A c, d, e \in Calls : Newer(c, d) /\ Newer(d, e) => Newer(c, e)
         /\ \A c, d \in Calls : c = d \/ Newer(c, d) \/ Newer(d, c)
BY CallsAre DEF Newer, RowLess

\* The calls a page is taken from.
Listable(provider, status, cur) == {c \in logs : Matches(c, provider, status) /\ Before(c, cur)}

\* A page lists matching rows before the cursor, newest first; a row that it
\* leaves out comes after its last one, and then the page is full.
LEMMA PageLists ==
  ASSUME Typed, NEW provider, NEW status, NEW cur, NEW limit \in Nat \ {0}
  PROVE  LET rows == ListRecent(provider, status, cur, limit)
             M == Listable(provider, status, cur) IN
         /\ rows \in Seq(Calls) /\ Len(rows) <= limit
         /\ \A i \in 1 .. Len(rows) : rows[i] \in M
         /\ \A i, j \in 1 .. Len(rows) : i < j => Newer(rows[i], rows[j])
         /\ \A c \in M : \/ \E i \in 1 .. Len(rows) : rows[i] = c
                         \/ Len(rows) = limit /\ Newer(rows[limit], c)
<1> DEFINE M == Listable(provider, status, cur)
           before == {p \in M \X M : RowLess(call[p[2]].started, p[2], call[p[1]].started, p[1])}
           all == NewestFirst(M)
           n == IF Len(all) < limit THEN Len(all) ELSE limit
           rows == ListRecent(provider, status, cur, limit)
<1>1. M \in SUBSET Calls /\ IsFiniteSet(M)
  BY CallsAre, FS_Subset DEF Listable
<1>2. \A c, d \in M : <<c, d>> \in before <=> Newer(c, d)
  BY DEF Newer
<1>3. StrictTotalOrder(M, before)
  <2> HIDE DEF M, before
  <2> QED
    BY <1>1, <1>2, NewerOrders DEF StrictTotalOrder
<1>4. all = OrderBy(M, before)
  BY DEF NewestFirst
<1>5. rows = SubSeq(all, 1, n)
  BY DEF ListRecent, Listable
<1> HIDE DEF M, before, all, rows
<1>6. /\ all \in Seq(M) /\ Len(all) \in Nat
      /\ \A i \in 1 .. Len(all) : all[i] \in M
      /\ \A i, j \in 1 .. Len(all) : i < j => <<all[i], all[j]>> \in before
      /\ \A c \in M : \E i \in 1 .. Len(all) : all[i] = c
  BY <1>1, <1>3, <1>4, OrderByLists
<1>7. \A i, j \in 1 .. Len(all) : i < j => Newer(all[i], all[j])
  BY <1>2, <1>6
<1>8. n \in Nat /\ n <= Len(all) /\ n <= limit /\ (n < limit => n = Len(all))
  BY <1>6
<1>9. /\ Len(rows) = n /\ rows \in Seq(M)
      /\ \A i \in 1 .. n : rows[i] = all[i]
  <2> HIDE DEF n
  <2> QED
    BY <1>5, <1>6, <1>8
<1> HIDE DEF n
<1>10. 1 .. n \subseteq 1 .. Len(all)
  BY <1>6, <1>8
<1>11. rows \in Seq(Calls)
  BY <1>1, <1>9
<1>12. ASSUME NEW c \in M
       PROVE  \/ \E i \in 1 .. n : rows[i] = c
              \/ n = limit /\ Newer(rows[limit], c)
  <2>1. PICK i \in 1 .. Len(all) : all[i] = c
    BY <1>6
  <2>2. CASE i <= n
    <3>1. i \in 1 .. n
      BY <1>6, <1>8, <2>2
    <3> QED
      BY <1>9, <2>1, <3>1
  <2>3. CASE i > n
    <3>0. i \in Int /\ 1 <= i /\ i <= Len(all) /\ limit \in Int /\ 1 <= limit
      BY <1>6
    <3>1. n = limit /\ limit \in 1 .. n /\ limit \in 1 .. Len(all) /\ limit < i
      <4>1. n = limit
        BY <1>6, <1>8, <2>3, <3>0
      <4> QED
        BY <1>6, <1>8, <2>3, <3>0, <4>1
    <3>2. Newer(all[limit], all[i]) /\ rows[limit] = all[limit]
      BY <1>7, <1>9, <3>1
    <3> QED
      BY <2>1, <3>1, <3>2
  <2> QED
    BY <1>6, <1>8, <2>2, <2>3
<1>13. \A i, j \in 1 .. n : i < j => Newer(rows[i], rows[j])
  BY <1>7, <1>9, <1>10
<1>14. \A i \in 1 .. n : rows[i] \in M
  BY <1>6, <1>9, <1>10
<1> QED
  BY <1>8, <1>9, <1>11, <1>12, <1>13, <1>14 DEF M, rows

\* The members of a list that is put after another.
LEMMA SetOfBoth ==
  ASSUME NEW S, NEW s \in Seq(S), NEW t \in Seq(S)
  PROVE  /\ s \o t \in Seq(S) /\ Len(s \o t) = Len(s) + Len(t)
         /\ \A i \in 1 .. Len(s) : (s \o t)[i] = s[i]
         /\ \A i \in 1 .. Len(t) : (s \o t)[Len(s) + i] = t[i]
         /\ ToSet(s \o t) = ToSet(s) \cup ToSet(t)
<1>1. /\ s \o t \in Seq(S) /\ Len(s \o t) = Len(s) + Len(t)
      /\ \A i \in 1 .. Len(s) : (s \o t)[i] = s[i]
      /\ \A i \in 1 .. Len(t) : (s \o t)[Len(s) + i] = t[i]
  OBVIOUS
<1>2. \A r \in Seq(S) : ToSet(r) = {r[i] : i \in 1 .. Len(r)}
  BY DEF ToSet
<1> DEFINE u == s \o t
<1>3. u \in Seq(S)
  BY <1>1
<1>4. \A i \in 1 .. Len(u) : i \in 1 .. Len(s) \/ i - Len(s) \in 1 .. Len(t)
  BY <1>1
<1>5. \A i \in 1 .. Len(s) : i \in 1 .. Len(u)
  BY <1>1
<1>6. \A i \in 1 .. Len(t) : Len(s) + i \in 1 .. Len(u)
  BY <1>1
<1>7. \A i \in 1 .. Len(u) : u[i] \in ToSet(s) \cup ToSet(t)
  <2>1. ASSUME NEW i \in 1 .. Len(u) PROVE u[i] \in ToSet(s) \cup ToSet(t)
    <3>1. CASE i \in 1 .. Len(s)
      BY <1>1, <1>2, <3>1
    <3>2. CASE i - Len(s) \in 1 .. Len(t)
      <4> DEFINE j == i - Len(s)
      <4>1. j \in 1 .. Len(t) /\ Len(s) + j = i
        BY <3>2
      <4>2. u[i] = t[j]
        BY <1>1, <4>1
      <4> QED
        BY <1>2, <4>1, <4>2
    <3> QED
      BY <1>4, <3>1, <3>2
  <2> QED
    BY <2>1
<1>8. ToSet(s) \subseteq ToSet(u) /\ ToSet(t) \subseteq ToSet(u)
  <2>1. ASSUME NEW i \in 1 .. Len(s) PROVE s[i] \in ToSet(u)
    BY <1>1, <1>2, <1>3, <1>5
  <2>2. ASSUME NEW i \in 1 .. Len(t) PROVE t[i] \in ToSet(u)
    BY <1>1, <1>2, <1>3, <1>6
  <2> QED
    BY <1>2, <2>1, <2>2
<1>9. ToSet(u) \subseteq ToSet(s) \cup ToSet(t)
  <2> HIDE DEF u
  <2> QED
    BY <1>2, <1>3, <1>7
<1> QED
  BY <1>1, <1>8, <1>9

\* A client asks for the first page.
LEMMA OpenLogsIInv == ASSUME IInv, OpenLogs PROVE IInv'
<1> USE DEF IInv, OpenLogs, store
<1>1. PICK f \in Filters, n \in Limits, b \in Froms :
        /\ ask' = [provider |-> f.provider, status |-> f.status, limit |-> n]
        /\ cursor' = IF b = None THEN None ELSE [before |-> b, id |-> None]
  OBVIOUS
<1>2. Typed'
  <2>1. ask'.limit \in Nat \ {0}
    BY <1>1, DashboardAssumption
  <2>2. cursor' # None => cursor' \in [before : Nat, id : Calls \cup {None}]
    BY <1>1, DashboardAssumption
  <2>3. seen' \subseteq logs' /\ pc' \in Points /\ pc' \notin AfterTotals \cup {"totals"}
    BY DEF Points, AfterTotals
  <2> QED
    BY <2>1, <2>2, <2>3 DEF Typed
<1>3. Unread'
  BY DEF Unread, AfterTotals, AfterSeries, AfterProviders, AfterHealth, AfterRaw, AfterLag
<1>4. TotalsRead' /\ SeriesRead' /\ ProvidersRead' /\ HealthRead' /\ LagRead'
  BY DEF TotalsRead, SeriesRead, ProvidersRead, HealthRead, LagRead, AfterTotals,
         AfterSeries, AfterProviders, AfterHealth, AfterRaw, AfterLag
<1>5. SummaryAddsUp'
  BY DEF Unread, SummaryAddsUp, AfterTotals, AfterSeries, AfterProviders, AfterHealth,
         AfterRaw, AfterLag
<1>6. shown = <<>> /\ shown' = <<>> /\ ToSet(shown') = {}
  <2>1. shown = <<>>
    BY DEF Paging
  <2>2. ToSet(<<>>) = {}
    BY DEF ToSet
  <2> QED
    BY <2>1, <2>2
<1>7. NewestAreFirst'
  BY <1>6 DEF NewestAreFirst
<1>8. Paging'
  <2>1. \A c \in seen' : Before(c, cursor)'
    BY DEF Before
  <2> QED
    BY <1>6, <2>1 DEF Paging
<1> QED
  BY <1>2, <1>3, <1>4, <1>5, <1>7, <1>8

\* One more page: its rows follow those of the pages before it, and the rows
\* that are still to come follow its rows.
LEMMA RecentLogsIInv == ASSUME IInv, RecentLogs PROVE IInv'
<1> DEFINE rows == ListRecent(ask.provider, ask.status, cursor, ask.limit)
           M == Listable(ask.provider, ask.status, cursor)
           limit == ask.limit
           full == Len(rows) = limit
<1> USE DEF IInv, store
<1>1. /\ pc = "page" /\ shown' = shown \o rows /\ cursor' = NextCursor(rows)
      /\ pc' = (IF cursor' = None THEN "listed" ELSE "page")
      /\ UNCHANGED <<call, skew, store, ask, seen, start, report>>
  BY DEF RecentLogs
<1>2. limit \in Nat \ {0}
  BY <1>1 DEF Typed
<1>3. /\ rows \in Seq(Calls) /\ Len(rows) <= limit /\ Len(rows) \in Nat
      /\ \A i \in 1 .. Len(rows) : rows[i] \in M
      /\ \A i, j \in 1 .. Len(rows) : i < j => Newer(rows[i], rows[j])
      /\ \A c \in M : \/ \E i \in 1 .. Len(rows) : rows[i] = c
                      \/ Len(rows) = limit /\ Newer(rows[limit], c)
  BY <1>2, PageLists
<1>4. \A c \in M : c \in logs /\ c \in Calls /\ Before(c, cursor)
  BY CallsAre DEF Listable
<1> HIDE DEF rows, M
<1>5. ToSet(rows) = {rows[i] : i \in 1 .. Len(rows)}
  BY <1>3 DEF ToSet
<1>6. /\ shown' \in Seq(Calls) /\ Len(shown') = Len(shown) + Len(rows)
      /\ \A i \in 1 .. Len(shown) : shown'[i] = shown[i]
      /\ \A i \in 1 .. Len(rows) : shown'[Len(shown) + i] = rows[i]
      /\ ToSet(shown') = ToSet(shown) \cup ToSet(rows)
  BY <1>1, <1>3, SetOfBoth DEF Typed
<1>7. ToSet(shown) \subseteq Calls /\ ToSet(rows) \subseteq M /\ M \subseteq Calls
  <2>1. ToSet(shown) \subseteq Calls
    BY DEF Typed, ToSet
  <2> QED
    BY <1>3, <1>4, <1>5, <2>1
<1>8. \A c \in ToSet(shown), d \in M : Newer(c, d)
  BY <1>1, <1>4 DEF Paging
<1>9. full => /\ rows[limit] \in M /\ rows[limit] \in ToSet(rows)
              /\ cursor' = [before |-> call[rows[limit]].started, id |-> rows[limit]]
              /\ cursor' \in [before : Nat, id : Calls] /\ cursor' # None
  <2>1. ASSUME full PROVE limit \in 1 .. Len(rows) /\ Last(rows) = rows[limit]
    BY <1>2, <1>3, <2>1 DEF Last
  <2>2. ASSUME full PROVE rows[limit] \in M /\ rows[limit] \in ToSet(rows)
    BY <1>3, <1>5, <2>1, <2>2
  <2>3. ASSUME full
        PROVE  cursor' = [before |-> call[rows[limit]].started, id |-> rows[limit]]
    BY <1>1, <2>1, <2>3 DEF NextCursor
  <2>4. ASSUME full PROVE cursor' \in [before : Nat, id : Calls]
    BY <1>4, <2>2, <2>3, <2>4, CallsAre
  <2> QED
    BY <2>2, <2>3, <2>4, DashboardAssumption
<1>10. ~full => cursor' = None
  BY <1>1 DEF NextCursor
<1>11. Typed'
  <2>1. cursor' # None => cursor' \in [before : Nat, id : Calls \cup {None}]
    BY <1>9, <1>10
  <2>2. pc' \in Points /\ pc' \notin AfterTotals \cup {"totals"}
    BY <1>1 DEF Points, AfterTotals
  <2> QED
    BY <1>1, <1>2, <1>6, <2>1, <2>2 DEF Typed
<1>12. Unread'
  BY <1>1 DEF Unread, AfterTotals, AfterSeries, AfterProviders, AfterHealth, AfterRaw, AfterLag
<1>13. TotalsRead' /\ SeriesRead' /\ ProvidersRead' /\ HealthRead' /\ LagRead'
  BY <1>1 DEF TotalsRead, SeriesRead, ProvidersRead, HealthRead, LagRead, AfterTotals,
              AfterSeries, AfterProviders, AfterHealth, AfterRaw, AfterLag
<1>14. SummaryAddsUp'
  BY <1>1, SumsKept
<1>15. NewestAreFirst'
  <2>1. shown \in Seq(Calls) /\ Len(shown) \in Nat /\ DOMAIN shown = 1 .. Len(shown)
    BY DEF Typed
  <2>2. DOMAIN shown' = 1 .. Len(shown')
    BY <1>6
  <2>3. ASSUME NEW i \in 1 .. Len(shown'), NEW j \in 1 .. Len(shown'), i < j
        PROVE  Newer(shown'[i], shown'[j])
    <3>0. i \in Int /\ j \in Int /\ 1 <= i /\ j <= Len(shown) + Len(rows)
      BY <1>3, <1>6, <2>1
    <3>1. CASE j <= Len(shown)
      <4>1. i \in 1 .. Len(shown) /\ j \in 1 .. Len(shown)
        BY <2>1, <2>3, <3>0, <3>1
      <4> QED
        BY <1>6, <2>1, <2>3, <4>1 DEF NewestAreFirst
    <3>2. CASE j > Len(shown) /\ i <= Len(shown)
      <4> DEFINE k == j - Len(shown)
      <4>1. i \in 1 .. Len(shown) /\ k \in 1 .. Len(rows) /\ Len(shown) + k = j
        BY <1>3, <2>1, <2>3, <3>0, <3>2
      <4> HIDE DEF k
      <4>2. shown'[i] = shown[i] /\ shown'[j] = rows[k] /\ rows[k] \in M
        BY <1>3, <1>6, <4>1
      <4>3. shown[i] \in ToSet(shown)
        BY <2>1, <4>1 DEF ToSet
      <4> QED
        BY <1>8, <4>2, <4>3
    <3>3. CASE i > Len(shown)
      <4> DEFINE h == i - Len(shown)
                 k == j - Len(shown)
      <4>1. /\ h \in 1 .. Len(rows) /\ k \in 1 .. Len(rows) /\ h < k
            /\ Len(shown) + h = i /\ Len(shown) + k = j
        BY <1>3, <2>1, <2>3, <3>0, <3>3
      <4> HIDE DEF h, k
      <4>2. shown'[i] = rows[h] /\ shown'[j] = rows[k]
        BY <1>6, <4>1
      <4> QED
        BY <1>3, <4>1, <4>2
    <3> QED
      BY <2>1, <3>0, <3>1, <3>2, <3>3
  <2>4. \A c, d : Newer(c, d)' <=> Newer(c, d)
    BY <1>1 DEF Newer
  <2> QED
    BY <2>2, <2>3, <1>1 DEF NewestAreFirst, Newer
<1>16. Paging'
  <2>1. ASSUME full PROVE \A c \in ToSet(shown'), d \in Calls : Newer(rows[limit], d) => Newer(c, d)
    <3>1. \A c \in ToSet(shown') : c = rows[limit] \/ Newer(c, rows[limit])
      <4>1. \A c \in ToSet(shown) : Newer(c, rows[limit])
        BY <1>8, <1>9, <2>1
      <4>2. \A i \in 1 .. Len(rows) : i = limit \/ Newer(rows[i], rows[limit])
        <5>1. ASSUME NEW i \in 1 .. Len(rows), i # limit PROVE Newer(rows[i], rows[limit])
          <6>1. limit \in 1 .. Len(rows) /\ i < limit
            BY <1>2, <1>3, <2>1, <5>1
          <6> QED
            BY <1>3, <6>1
        <5> QED
          BY <5>1
      <4> QED
        BY <1>5, <1>6, <4>1, <4>2
    <3>2. ToSet(shown') \subseteq Calls /\ rows[limit] \in Calls
      BY <1>6, <1>7, <1>9, <2>1
    <3> QED
      BY <3>1, <3>2, NewerOrders
  <2>2. full => \A d \in Calls : Before(d, cursor)' <=> Newer(rows[limit], d)
    <3>1. ASSUME full, NEW d \in Calls PROVE Before(d, cursor)' <=> Newer(rows[limit], d)
      <4>1. /\ cursor'.before = call[rows[limit]].started /\ cursor'.id = rows[limit]
            /\ rows[limit] # None /\ cursor' # None
        BY <1>4, <1>9, <3>1, CallsAre
      <4> QED
        BY <1>1, <4>1 DEF Before, Newer
    <3> QED
      BY <3>1
  <2>3. ASSUME NEW c \in seen, Wanted(c)
        PROVE  c \in ToSet(shown') \/ (full /\ Newer(rows[limit], c))
    <3>1. c \in ToSet(shown) \/ Before(c, cursor)
      BY <1>1, <2>3 DEF Paging
    <3>2. c \in logs
      BY DEF Typed
    <3>3. CASE Before(c, cursor)
      <4>1. c \in M
        BY <2>3, <3>2, <3>3 DEF M, Listable, Wanted
      <4> QED
        BY <1>3, <1>5, <1>6, <4>1
    <3> QED
      BY <1>6, <3>1, <3>3
  <2>4. \A c, d : (Newer(c, d)' <=> Newer(c, d)) /\ (Wanted(c)' <=> Wanted(c))
    BY <1>1 DEF Newer, Wanted, Matches
  <2>5. pc' = IF full THEN "page" ELSE "listed"
    BY <1>1, <1>9, <1>10
  <2>6. seen' = seen /\ seen \subseteq Calls
    BY <1>1, CallsAre DEF Typed
  <2>7. CASE full
    BY <2>1, <2>2, <2>3, <2>4, <2>5, <2>6, <2>7 DEF Paging
  <2>8. CASE ~full
    BY <2>3, <2>4, <2>5, <2>6, <2>8 DEF Paging
  <2> QED
    BY <2>7, <2>8
<1> QED
  BY <1>11, <1>12, <1>13, <1>14, <1>15, <1>16

\* The panel holds the newest failures.
LEMMA RecentErrorsIInv == ASSUME IInv, RecentErrors PROVE IInv'
<1> USE DEF IInv, store
<1>1. PICK n \in Limits : /\ shown' = ListRecent(None, "error", None, n)
                          /\ pc' = IF Len(shown') < n THEN "panel" ELSE "full"
  BY DEF RecentErrors
<1>2. pc = "errors" /\ UNCHANGED <<call, skew, store, ask, cursor, seen, start, report>>
  BY DEF RecentErrors
<1> DEFINE M == Listable(None, "error", None)
<1>3. n \in Nat \ {0}
  BY DashboardAssumption
<1>4. /\ shown' \in Seq(Calls) /\ Len(shown') <= n /\ Len(shown') \in Nat
      /\ \A i \in 1 .. Len(shown') : shown'[i] \in M
      /\ \A i, j \in 1 .. Len(shown') : i < j => Newer(shown'[i], shown'[j])
      /\ \A c \in M : \/ \E i \in 1 .. Len(shown') : shown'[i] = c
                      \/ Len(shown') = n /\ Newer(shown'[n], c)
  BY <1>1, <1>3, PageLists
<1>5. \A c \in logs : call[c].status = "error" => c \in M
  BY DEF Listable, Matches, Before
<1>6. M \subseteq Calls
  BY CallsAre DEF Listable
<1> HIDE DEF M
<1>7. ToSet(shown') = {shown'[i] : i \in 1 .. Len(shown')} /\ DOMAIN shown' = 1 .. Len(shown')
  BY <1>4 DEF ToSet
<1>8. Typed'
  BY <1>1, <1>2, <1>4 DEF Typed, Points, AfterTotals
<1>9. Unread'
  BY <1>1, <1>2
     DEF Unread, AfterTotals, AfterSeries, AfterProviders, AfterHealth, AfterRaw, AfterLag
<1>10. TotalsRead' /\ SeriesRead' /\ ProvidersRead' /\ HealthRead'
  BY <1>2, ReportKept DEF AfterTotals, AfterSeries, AfterProviders, AfterHealth
<1>11. LagRead'
  BY <1>1, <1>2
     DEF LagRead, Found, AfterTotals, AfterSeries, AfterProviders, AfterHealth, AfterRaw, AfterLag
<1>12. SummaryAddsUp'
  BY <1>2, SumsKept
<1>13. NewestAreFirst'
  BY <1>2, <1>4, <1>7 DEF NewestAreFirst, Newer
<1>14. Paging'
  <2>1. ASSUME NEW c \in seen, call[c].status = "error"
        PROVE  c \in ToSet(shown') \/ (pc' = "full" /\ \A d \in ToSet(shown') : Newer(d, c))
    <3>1. c \in M /\ c \in Calls
      BY <1>5, <1>6, <2>1 DEF Typed
    <3>2. CASE \E i \in 1 .. Len(shown') : shown'[i] = c
      BY <1>7, <3>2
    <3>3. CASE Len(shown') = n /\ Newer(shown'[n], c)
      <4>1. pc' = "full"
        BY <1>1, <1>3, <3>3
      <4>2. ASSUME NEW i \in 1 .. Len(shown') PROVE Newer(shown'[i], c)
        <5>1. n \in 1 .. Len(shown') /\ (i = n \/ i < n)
          BY <1>3, <1>4, <3>3
        <5>2. i = n \/ Newer(shown'[i], shown'[n])
          BY <1>4, <5>1
        <5>3. shown'[i] \in Calls /\ shown'[n] \in Calls
          BY <1>4, <1>6, <5>1
        <5> QED
          BY <3>1, <3>3, <5>2, <5>3, NewerOrders
      <4> QED
        BY <1>7, <4>1, <4>2
    <3> QED
      BY <1>4, <3>1, <3>2, <3>3
  <2>2. \A c, d : Newer(c, d)' <=> Newer(c, d)
    BY <1>2 DEF Newer
  <2>3. pc' \in {"panel", "full"} /\ seen' = seen /\ call' = call
    BY <1>1, <1>2
  <2> QED
    BY <2>1, <2>2, <2>3 DEF Paging
<1> QED
  BY <1>8, <1>9, <1>10, <1>11, <1>12, <1>13, <1>14

----------------------------------------------------------------------------
(* Percentiles *)

\* Rounding keeps the order, and the whole numbers.
LEMMA RoundedOrders ==
  /\ \A x \in Nat : Rounded(x) \in Nat
  /\ \A x, y \in Nat : x <= y => Rounded(x) <= Rounded(y)
  /\ \A x, a \in Nat : 100 * a <= x => a <= Rounded(x)
  /\ \A x, a \in Nat : x <= 100 * a => Rounded(x) <= a
<1>1. \A x \in Nat : Rounded(x) \in Nat
  BY DEF Rounded
<1>2. \A x, y \in Nat : x <= y => Rounded(x) <= Rounded(y)
  BY DEF Rounded
<1>3. \A x, a \in Nat : 100 * a <= x => Rounded(x) >= a
  BY DEF Rounded
<1>4. \A x, a \in Nat : 100 * a >= x => Rounded(x) <= a
  BY DEF Rounded
<1>5. \A x, a \in Nat : 100 * a <= x => a <= Rounded(x)
  BY <1>1, <1>3
<1> QED
  BY <1>1, <1>2, <1>4, <1>5

\* The place of a percentile among n values, and the percentile of the values.
Place(p, n) == (p * (n - 1)) \div 100 + 1
Part(p, n) == (p * (n - 1)) % 100
Between(t, i, r) == 100 * t[i] + r * (t[i + 1] - t[i])
Cont(p, t, n) == IF Place(p, n) = n THEN t[n] ELSE Rounded(Between(t, Place(p, n), Part(p, n)))

\* The median comes no later than the 95th percentile, and both before the
\* last value but for a single one.
LEMMA Places ==
  ASSUME NEW n \in Nat \ {0}
  PROVE  /\ Place(50, n) \in 1 .. n /\ Place(95, n) \in 1 .. n
         /\ Place(50, n) <= Place(95, n)
         /\ Part(50, n) \in 0 .. 99 /\ Part(95, n) \in 0 .. 99
         /\ Place(50, n) = Place(95, n) => Part(50, n) <= Part(95, n)
<1> DEFINE m == n - 1
           x == 50 * m
           y == 95 * m
<1>1. m \in Nat /\ x \in Nat /\ y \in Nat /\ x <= y /\ x <= 100 * m /\ y <= 100 * m
  OBVIOUS
<1> HIDE DEF x, y, m
<1>2. \A z \in Nat : z \div 100 \in Nat
  OBVIOUS
<1>3. \A z \in Nat : z % 100 \in 0 .. 99
  OBVIOUS
<1>4. x \div 100 <= y \div 100
  BY <1>1
<1>5. \A z \in Nat : z <= 100 * m => z \div 100 <= m
  BY <1>1
<1>6. x \div 100 = y \div 100 => x % 100 <= y % 100
  BY <1>1
<1>7. /\ Place(50, n) = x \div 100 + 1 /\ Place(95, n) = y \div 100 + 1
      /\ Part(50, n) = x % 100 /\ Part(95, n) = y % 100 /\ n = m + 1
  BY DEF Place, Part, x, y, m
<1>8. x \div 100 \in Nat /\ y \div 100 \in Nat /\ x \div 100 <= m /\ y \div 100 <= m
  BY <1>1, <1>2, <1>5
<1>9. x % 100 \in 0 .. 99 /\ y % 100 \in 0 .. 99
  BY <1>1, <1>3
<1> QED
  BY <1>1, <1>4, <1>6, <1>7, <1>8, <1>9

\* A value between two neighbours is between them.
LEMMA BetweenNeighbours ==
  ASSUME NEW n \in Nat, NEW t \in [1 .. n -> Nat], \A i, j \in 1 .. n : i <= j => t[i] <= t[j],
         NEW i \in 1 .. n, i + 1 \in 1 .. n, NEW r \in 0 .. 99
  PROVE  /\ Between(t, i, r) \in Nat
         /\ t[i] <= Rounded(Between(t, i, r)) /\ Rounded(Between(t, i, r)) <= t[i + 1]
         /\ \A s \in 0 .. 99 : r <= s => Between(t, i, r) <= Between(t, i, s)
<1>1. t[i] \in Nat /\ t[i + 1] \in Nat /\ t[i] <= t[i + 1]
  OBVIOUS
<1>2. \A q \in 0 .. 99 : \A a, b \in Nat :
        a <= b => 100 * a <= 100 * a + q * (b - a) /\ 100 * a + q * (b - a) <= 100 * b
  OBVIOUS
<1>3. \A q, s \in 0 .. 99 : \A a, b \in Nat :
        a <= b /\ q <= s => 100 * a + q * (b - a) <= 100 * a + s * (b - a)
  OBVIOUS
<1>4. \A q \in 0 .. 99 : \A a, b \in Nat : a <= b => 100 * a + q * (b - a) \in Nat
  OBVIOUS
<1>5. Between(t, i, r) \in Nat
  BY <1>1, <1>4 DEF Between
<1>6. 100 * t[i] <= Between(t, i, r) /\ Between(t, i, r) <= 100 * t[i + 1]
  BY <1>1, <1>2 DEF Between
<1>7. \A s \in 0 .. 99 : r <= s => Between(t, i, r) <= Between(t, i, s)
  BY <1>1, <1>3 DEF Between
<1> QED
  BY <1>1, <1>5, <1>6, <1>7, RoundedOrders

\* The percentiles of values in order are in order, among the values.
LEMMA ContOrdered ==
  ASSUME NEW n \in Nat \ {0}, NEW t \in [1 .. n -> Nat],
         \A i, j \in 1 .. n : i <= j => t[i] <= t[j]
  PROVE  /\ Cont(50, t, n) \in Nat /\ Cont(95, t, n) \in Nat
         /\ t[1] <= Cont(50, t, n)
         /\ Cont(50, t, n) <= Cont(95, t, n)
         /\ Cont(95, t, n) <= t[n]
<1> DEFINE i == Place(50, n)
           j == Place(95, n)
           x == Between(t, i, Part(50, n))
           y == Between(t, j, Part(95, n))
<1>1. /\ i \in 1 .. n /\ j \in 1 .. n /\ i <= j
      /\ Part(50, n) \in 0 .. 99 /\ Part(95, n) \in 0 .. 99
      /\ i = j => Part(50, n) <= Part(95, n)
  BY Places
<1>2. /\ Cont(50, t, n) = IF i = n THEN t[n] ELSE Rounded(x)
      /\ Cont(95, t, n) = IF j = n THEN t[n] ELSE Rounded(y)
  BY DEF Cont
<1> HIDE DEF i, j
<1>3. i # n => /\ i + 1 \in 1 .. n /\ x \in Nat /\ Rounded(x) \in Nat
               /\ t[i] <= Rounded(x) /\ Rounded(x) <= t[i + 1]
  <2>1. ASSUME i # n PROVE i + 1 \in 1 .. n
    BY <1>1, <2>1
  <2> DEFINE r == Part(50, n)
  <2>2. r \in 0 .. 99
    BY <1>1
  <2> HIDE DEF r
  <2>3. ASSUME i # n
        PROVE  /\ Between(t, i, r) \in Nat
               /\ t[i] <= Rounded(Between(t, i, r)) /\ Rounded(Between(t, i, r)) <= t[i + 1]
    BY <1>1, <2>1, <2>2, <2>3, BetweenNeighbours
  <2> QED
    BY <2>1, <2>3, RoundedOrders DEF r
<1>4. j # n => /\ j + 1 \in 1 .. n /\ y \in Nat /\ Rounded(y) \in Nat
               /\ t[j] <= Rounded(y) /\ Rounded(y) <= t[j + 1]
  <2>1. ASSUME j # n PROVE j + 1 \in 1 .. n
    BY <1>1, <2>1
  <2> DEFINE r == Part(95, n)
  <2>2. r \in 0 .. 99
    BY <1>1
  <2> HIDE DEF r
  <2>3. ASSUME j # n
        PROVE  /\ Between(t, j, r) \in Nat
               /\ t[j] <= Rounded(Between(t, j, r)) /\ Rounded(Between(t, j, r)) <= t[j + 1]
    BY <1>1, <2>1, <2>2, <2>3, BetweenNeighbours
  <2> QED
    BY <2>1, <2>3, RoundedOrders DEF r
<1>5. i = j /\ i # n => Rounded(x) <= Rounded(y)
  <2>1. ASSUME i = j, i # n PROVE x <= y
    BY <1>1, <1>3, <2>1, BetweenNeighbours
  <2> HIDE DEF x, y
  <2> QED
    BY <1>3, <1>4, <2>1, RoundedOrders
<1> HIDE DEF x, y
<1>6. /\ 1 \in 1 .. n /\ n \in 1 .. n /\ \A k \in 1 .. n : t[k] \in Nat /\ t[1] <= t[k] /\ t[k] <= t[n]
  OBVIOUS
<1>7. i < j /\ i # n => i + 1 <= j
  BY <1>1
<1>8. i < j /\ i # n => t[i + 1] <= t[j]
  BY <1>1, <1>3, <1>7
<1>9. CASE i = n
  <2>1. j = n
    BY <1>1, <1>9
  <2> QED
    BY <1>2, <1>6, <1>9, <2>1
<1>10. CASE i # n /\ j = n
  <2>1. Rounded(x) <= t[n] /\ t[1] <= Rounded(x)
    BY <1>1, <1>3, <1>6, <1>10
  <2> QED
    BY <1>2, <1>3, <1>6, <1>10, <2>1
<1>11. CASE i # n /\ j # n
  <2>1. t[1] <= Rounded(x) /\ Rounded(y) <= t[n]
    BY <1>1, <1>3, <1>4, <1>6, <1>11
  <2>2. Rounded(x) <= Rounded(y)
    <3>1. CASE i = j
      BY <1>5, <1>11, <3>1
    <3>2. CASE i # j
      <4>1. i < j
        BY <1>1, <3>2
      <4>2. t[i + 1] \in Nat /\ t[j] \in Nat
        BY <1>1, <1>3, <1>11
      <4> QED
        BY <1>3, <1>4, <1>8, <1>11, <4>1, <4>2
    <3> QED
      BY <3>1, <3>2
  <2> QED
    BY <1>2, <1>3, <1>4, <1>11, <2>1, <2>2
<1> QED
  BY <1>9, <1>10, <1>11

\* A percentile exists where something was measured, and the two are in order
\* among the measured values.
LEMMA PercentilesAre ==
  ASSUME Typed, NEW S \in SUBSET Calls
  PROVE  LET times == {call[c].ttft : c \in S} \ {None} IN
         /\ times = {} => Percentile(50, S) = None
         /\ times # {} => /\ Percentile(50, S) # None
                          /\ \E x \in times : x <= Percentile(50, S)
                          /\ Percentile(50, S) <= Percentile(95, S)
                          /\ \E x \in times : Percentile(95, S) <= x
<1> DEFINE times == {call[c].ttft : c \in S} \ {None}
           M == {c \in S : call[c].ttft # None}
           faster == {p \in M \X M : RowLess(call[p[1]].ttft, p[1], call[p[2]].ttft, p[2])}
           s == FastestFirst(M)
           n == Len(s)
           t == [k \in 1 .. n |-> call[s[k]].ttft]
<1>1. M \in SUBSET Calls /\ IsFiniteSet(M) /\ \A c \in M : call[c].ttft \in Nat
  BY CallsAre, FS_Subset
<1>2. times = {call[c].ttft : c \in M} /\ (times = {} <=> M = {})
  OBVIOUS
<1>3. \A c, d \in M : <<c, d>> \in faster <=> RowLess(call[c].ttft, c, call[d].ttft, d)
  OBVIOUS
<1>4. StrictTotalOrder(M, faster)
  <2> HIDE DEF M, faster
  <2>1. \A c \in M : c \in Nat
    BY <1>1, CallsAre
  <2> QED
    BY <1>1, <1>3, <2>1 DEF StrictTotalOrder, RowLess
<1>5. s = OrderBy(M, faster)
  BY DEF FastestFirst
<1>6. \A p : Percentile(p, S) = IF M = {} THEN None ELSE
               LET i == Place(p, n) IN
               IF i = n THEN call[s[i]].ttft
               ELSE Rounded(100 * call[s[i]].ttft
                            + Part(p, n) * (call[s[i + 1]].ttft - call[s[i]].ttft))
  BY DEF Percentile, Place, Part
<1>7. CASE M = {}
  BY <1>2, <1>6, <1>7
<1>8. CASE M # {}
  <2> HIDE DEF M, faster, s, times
  <2>1. /\ n = Cardinality(M) /\ n \in Nat
        /\ \A i \in 1 .. n : s[i] \in M
        /\ \A i, j \in 1 .. n : i < j => <<s[i], s[j]>> \in faster
    <3> DEFINE k == Cardinality(M)
               rows == OrderBy(M, faster)
    <3>1. /\ k \in Nat /\ Len(rows) = k
          /\ \A i \in 1 .. k : rows[i] \in M
          /\ \A i, j \in 1 .. k : i < j => <<rows[i], rows[j]>> \in faster
      BY <1>1, <1>4, OrderByLists
    <3>2. s = rows
      BY <1>5
    <3> HIDE DEF k, rows
    <3>3. n = k
      BY <3>1, <3>2
    <3> QED
      BY <3>1, <3>2, <3>3 DEF k
  <2>2. n # 0
    BY <1>1, <1>8, <2>1, FS_EmptySet
  <2> HIDE DEF n
  <2>3. t \in [1 .. n -> Nat] /\ \A i \in 1 .. n : t[i] = call[s[i]].ttft /\ t[i] \in times
    BY <1>1, <1>2, <2>1
  <2>4. \A i, j \in 1 .. n : i <= j => t[i] <= t[j]
    <3>1. ASSUME NEW i \in 1 .. n, NEW j \in 1 .. n, i < j PROVE t[i] <= t[j]
      <4>1. RowLess(call[s[i]].ttft, s[i], call[s[j]].ttft, s[j])
        BY <1>3, <2>1, <3>1
      <4>2. t[i] \in Nat /\ t[j] \in Nat
        BY <2>3
      <4> HIDE DEF t
      <4> QED
        BY <2>3, <4>1, <4>2 DEF RowLess
    <3>2. \A i, j \in 1 .. n : i <= j => i = j \/ i < j
      BY <2>1
    <3>3. \A i \in 1 .. n : t[i] <= t[i]
      <4>1. \A i \in 1 .. n : t[i] \in Nat
        BY <2>3
      <4> HIDE DEF t
      <4> QED
        BY <4>1
    <3> HIDE DEF t
    <3> QED
      BY <3>1, <3>2, <3>3
  <2> HIDE DEF t
  <2>5. ASSUME NEW p \in {50, 95} PROVE Percentile(p, S) = Cont(p, t, n)
    <3>1. Place(p, n) \in 1 .. n
      BY <2>1, <2>2, Places
    <3>2. CASE Place(p, n) = n
      BY <1>6, <1>8, <2>3, <3>1, <3>2 DEF Cont
    <3>3. CASE Place(p, n) # n
      <4> DEFINE i == Place(p, n)
      <4>1. i \in 1 .. n /\ i + 1 \in 1 .. n
        <5> HIDE DEF i
        <5>1. i \in 1 .. n /\ i # n
          BY <3>1, <3>3 DEF i
        <5> QED
          BY <2>1, <5>1
      <4>2. t[i] = call[s[i]].ttft /\ t[i + 1] = call[s[i + 1]].ttft
        BY <2>3, <4>1
      <4> QED
        BY <1>6, <1>8, <3>3, <4>2 DEF Cont, Between
    <3> QED
      BY <3>2, <3>3
  <2>6. /\ Cont(50, t, n) \in Nat /\ Cont(95, t, n) \in Nat
        /\ t[1] <= Cont(50, t, n)
        /\ Cont(50, t, n) <= Cont(95, t, n)
        /\ Cont(95, t, n) <= t[n]
    BY <2>1, <2>2, <2>3, <2>4, ContOrdered
  <2>7. t[1] \in times /\ t[n] \in times
    BY <2>1, <2>2, <2>3
  <2>8. Percentile(50, S) = Cont(50, t, n) /\ Percentile(95, S) = Cont(95, t, n)
    BY <2>5
  <2>9. Percentile(50, S) # None
    BY <2>6, <2>8, CallsAre
  <2> QED
    BY <2>6, <2>7, <2>8, <2>9 DEF times
<1> QED
  BY <1>7, <1>8

----------------------------------------------------------------------------
(* The invariant and what follows from it *)

\* Every step keeps the invariant.
LEMMA NextIInv == IInv /\ [Next]_vars => IInv'
<1> SUFFICES ASSUME IInv, [Next]_vars PROVE IInv'
  OBVIOUS
<1>1. CASE World
  BY <1>1, WorldIInv
<1>2. CASE OpenLogs
  BY <1>2, OpenLogsIInv
<1>3. CASE RecentLogs
  BY <1>3, RecentLogsIInv
<1>4. CASE Summary
  BY <1>4, OpenSummaryIInv, ReadTotalsIInv, ReadSeriesIInv, ReadProvidersIInv,
     ReadLogHealthIInv, ReadRawHealthIInv, ReadLagIInv, RecentErrorsIInv DEF Summary
<1>5. CASE UNCHANGED vars
  <2>1. /\ now' \in now .. MaxTime
        /\ ingested' \in [Calls -> (0 .. now') \cup {None}]
        /\ logs' \subseteq {c \in Calls : ingested'[c] # None}
    BY <1>5, DashboardAssumption DEF IInv, Typed, vars, store
  <2> QED
    BY <1>5, <2>1, WritesIInv DEF vars, store
<1> QED
  BY <1>1, <1>2, <1>3, <1>4, <1>5 DEF Next

\* Every reachable state satisfies the invariant.
LEMMA SpecIInv == Spec => []IInv
BY InitIInv, NextIInv, PTL DEF Spec

\* Rows, cursors, pages and reports keep their types, and the lag is of the
\* rows the request found.
THEOREM DashboardIsTyped == Spec => []TypeOK
<1>1. IInv => TypeOK
  <2> SUFFICES ASSUME IInv PROVE TypeOK
    OBVIOUS
  <2>1. report.lag \in Int \cup {None}
    <3>1. CASE pc \notin AfterLag
      BY <3>1 DEF IInv, Unread
    <3>2. CASE pc \in AfterLag /\ report.lag # None
      <4>1. PICK S \in Found : \E c \in S : report.lag = start - ingested[c]
        BY <3>2 DEF IInv, LagRead
      <4>2. \A c \in S : ingested[c] \in Nat
        BY CallsAre DEF IInv, Found
      <4>3. start \in Int
        BY DashboardAssumption DEF IInv, Typed
      <4> QED
        BY <4>1, <4>2, <4>3
    <3> QED
      BY <3>1, <3>2
  <2> QED
    BY <2>1 DEF IInv, Typed, TypeOK
<1> QED
  BY <1>1, SpecIInv, PTL

\* Following the cursors lists every row that was there at the beginning, once
\* and newest first, whatever is written meanwhile; the errors panel holds the
\* newest failures (list_recent, recent_logs, recent_errors).
THEOREM PagesAreComplete == Spec => []PagesListWhatWasThere
<1>1. IInv => PagesListWhatWasThere
  BY DEF IInv, NewestAreFirst, Paging, Newer, Wanted, PagesListWhatWasThere
<1> QED
  BY <1>1, SpecIInv, PTL

\* The panels of one summary add up, although each is computed from the rows
\* of another moment (time_series, by_provider, ingestion_health).
THEOREM PanelsAddUp == Spec => []SummaryAddsUp
<1>1. IInv => SummaryAddsUp
  BY DEF IInv
<1> QED
  BY <1>1, SpecIInv, PTL

\* A bucket of the series holds the calls that completed in it, whenever their
\* rows were written (BUCKET_COLUMN).
THEOREM BucketsAreOfCalls == Spec => []OutageIsNoSpike
<1>1. IInv => OutageIsNoSpike
  <2> SUFFICES ASSUME IInv, report.series # None, NEW c \in Calls
               PROVE  LET minute(d) == call[d].completed \div ask.width
                          b == minute(c) * ask.width
                          inBucket(S) ==
                            Cardinality({d \in InWindow(S) : minute(d) = minute(c)})
                          drawn == IF b \in DOMAIN report.series
                                     THEN report.series[b].requests ELSE 0
                      IN drawn \in inBucket(seen) .. inBucket(logs)
    BY DEF OutageIsNoSpike
  <2> DEFINE minute(d) == call[d].completed \div ask.width
             b == minute(c) * ask.width
             Rows(S) == {d \in InWindow(S) : minute(d) = minute(c)}
             drawn == IF b \in DOMAIN report.series THEN report.series[b].requests ELSE 0
  <2>1. pc \in AfterSeries
    BY DEF IInv, Unread
  <2>2. PICK S \in Found : report.series = SeriesOf(S)
    BY <2>1 DEF IInv, SeriesRead
  <2>3. S \in SUBSET logs /\ seen \in SUBSET S /\ logs \in SUBSET Calls /\ IsFiniteSet(Calls)
    BY CallsAre DEF IInv, Found
  <2>4. ask.width \in Nat \ {0}
    BY <2>1 DEF IInv, Typed, AfterSeries
  <2>5. \A d \in Calls : minute(d) \in Nat
    BY <2>4, CallsAre DEF IInv
  <2>6. \A m, n \in Nat : \A w \in Nat \ {0} : m * w = n * w => m = n
    OBVIOUS
  <2>7. \A d \in Calls : Bucket(d) = b <=> minute(d) = minute(c)
    <3>1. ASSUME NEW d \in Calls PROVE Bucket(d) = b <=> minute(d) = minute(c)
      <4>1. Bucket(d) = minute(d) * ask.width
        BY DEF Bucket
      <4>2. minute(d) \in Nat /\ minute(c) \in Nat
        BY <2>5
      <4> HIDE DEF minute
      <4> QED
        BY <2>4, <2>6, <4>1, <4>2
    <3> QED
      BY <3>1
  <2> HIDE DEF minute, b
  <2>8. {d \in InWindow(S) : Bucket(d) = b} = Rows(S)
    BY <2>3, <2>7 DEF InWindow
  <2>9. drawn = Cardinality(Rows(S))
    <3>1. CASE b \in {Bucket(d) : d \in InWindow(S)}
      <4>1. report.series[b] = Aggregate(Rows(S))
        BY <2>2, <2>8, <3>1 DEF SeriesOf
      <4>2. Aggregate(Rows(S)).requests = Cardinality(Rows(S))
        BY DEF Aggregate
      <4>3. b \in DOMAIN report.series
        BY <2>2, <3>1 DEF SeriesOf
      <4> QED
        BY <4>1, <4>2, <4>3
    <3>2. CASE b \notin {Bucket(d) : d \in InWindow(S)}
      <4>1. Rows(S) = {}
        BY <2>8, <3>2
      <4>2. b \notin DOMAIN report.series
        BY <2>2, <3>2 DEF SeriesOf
      <4>3. Cardinality({}) = 0
        BY FS_EmptySet
      <4> HIDE DEF Rows
      <4> QED
        BY <4>1, <4>2, <4>3
    <3> QED
      BY <3>1, <3>2
  <2>10. Rows(seen) \in SUBSET Rows(S) /\ Rows(S) \in SUBSET Rows(logs)
         /\ Rows(logs) \in SUBSET Calls
    BY <2>3 DEF InWindow
  <2> HIDE DEF Rows, drawn
  <2>11. IsFiniteSet(Rows(seen)) /\ IsFiniteSet(Rows(S)) /\ IsFiniteSet(Rows(logs))
    BY <2>3, <2>10, FS_Subset
  <2>12. /\ Cardinality(Rows(seen)) \in Nat /\ Cardinality(Rows(S)) \in Nat
         /\ Cardinality(Rows(logs)) \in Nat
    BY <2>11, FS_CardinalityType
  <2>13. /\ Cardinality(Rows(seen)) <= Cardinality(Rows(S))
         /\ Cardinality(Rows(S)) <= Cardinality(Rows(logs))
    BY <2>10, <2>11, FS_Subset
  <2>14. drawn \in Cardinality(Rows(seen)) .. Cardinality(Rows(logs))
    BY <2>9, <2>12, <2>13
  <2> QED
    BY <2>14 DEF Rows, drawn, minute, b
<1> QED
  BY <1>1, SpecIInv, PTL

\* A percentile is one of measured values, and no data is not zero
\* (_percentile).
THEOREM PercentilesAreMeasured == Spec => []PercentilesOfMeasured
<1>1. IInv => PercentilesOfMeasured
  <2> SUFFICES ASSUME IInv, report.totals # None PROVE PercentilesOfMeasured
    BY DEF PercentilesOfMeasured
  <2> DEFINE times(S) == {call[c].ttft : c \in InWindow(S)} \ {None}
             t == report.totals
  <2>1. pc \in AfterTotals
    BY DEF IInv, Unread
  <2>2. PICK S \in Found : report.totals = TotalsOf(S)
    BY <2>1 DEF IInv, TotalsRead
  <2>3. /\ InWindow(S) \in SUBSET Calls /\ times(seen) \subseteq times(S)
        /\ times(S) \subseteq times(logs)
    BY CallsAre DEF IInv, Found, InWindow
  <2>4. t.p50 = Percentile(50, InWindow(S)) /\ t.p95 = Percentile(95, InWindow(S))
    BY <2>2 DEF TotalsOf, Aggregate
  <2> DEFINE W == InWindow(S)
  <2>5. /\ times(S) = {} => t.p50 = None
        /\ times(S) # {} => /\ t.p50 # None
                            /\ \E x \in times(S) : x <= t.p50
                            /\ t.p50 <= t.p95
                            /\ \E x \in times(S) : t.p95 <= x
    <3> HIDE DEF W
    <3>1. LET T == {call[c].ttft : c \in W} \ {None} IN
          /\ T = {} => Percentile(50, W) = None
          /\ T # {} => /\ Percentile(50, W) # None
                       /\ \E x \in T : x <= Percentile(50, W)
                       /\ Percentile(50, W) <= Percentile(95, W)
                       /\ \E x \in T : Percentile(95, W) <= x
      BY <2>3, PercentilesAre DEF IInv, W
    <3> QED
      BY <2>4, <3>1 DEF W
  <2> HIDE DEF times, t
  <2>6. /\ times(seen) # {} => t.p50 # None
        /\ t.p50 # None => /\ \E x \in times(logs) : x <= t.p50
                           /\ t.p50 <= t.p95
                           /\ \E x \in times(logs) : t.p95 <= x
    BY <2>3, <2>5
  <2> QED
    BY <2>6 DEF PercentilesOfMeasured, times, t
<1> QED
  BY <1>1, SpecIInv, PTL

\* The buckets and the percentiles of a summary are of the calls.
THEOREM FiguresAreTrue == Spec => []FiguresAreOfCalls
BY BucketsAreOfCalls, PercentilesAreMeasured, PTL DEF FiguresAreOfCalls

\* The pipeline is called stalled only if rows were there and none was written
\* lately, and is called so when none was (ingestion_health, is_stalled).
THEOREM StalledIsSilence == Spec => []StalledMeansSilence
<1>1. IInv => StalledMeansSilence
  <2> SUFFICES ASSUME IInv, pc \in {"errors", "panel", "full"}
               PROVE  LET recent(S) == {c \in S : start - ingested[c] <= StalledAfter} IN
                      /\ IsStalled(report.lag) => logs # {} /\ recent(seen) = {}
                      /\ seen # {} /\ recent(logs) = {} => IsStalled(report.lag)
    BY DEF StalledMeansSilence
  <2>1. pc \in AfterLag
    BY DEF AfterTotals, AfterSeries, AfterProviders, AfterHealth, AfterRaw, AfterLag
  <2>2. CASE report.lag = None
    BY <2>1, <2>2 DEF IInv, LagRead, IsStalled
  <2>3. CASE report.lag # None
    <3>1. PICK S \in Found : \E c \in S : /\ report.lag = start - ingested[c]
                                          /\ \A d \in S : ingested[d] <= ingested[c]
      BY <2>1, <2>3 DEF IInv, LagRead
    <3>2. PICK c \in S : /\ report.lag = start - ingested[c]
                         /\ \A d \in S : ingested[d] <= ingested[c]
      BY <3>1
    <3>3. S \subseteq logs /\ seen \subseteq S /\ \A d \in logs : ingested[d] \in Nat
      BY CallsAre DEF IInv, Found
    <3>4. start \in Int /\ StalledAfter \in Int
      BY DashboardAssumption DEF IInv, Typed
    <3>5. ASSUME report.lag > StalledAfter, NEW d \in seen
          PROVE  ~(start - ingested[d] <= StalledAfter)
      <4>1. ingested[d] \in Nat /\ ingested[c] \in Nat /\ ingested[d] <= ingested[c]
        BY <3>2, <3>3
      <4> QED
        BY <3>2, <3>4, <3>5, <4>1
    <3>6. ASSUME ~(start - ingested[c] <= StalledAfter) PROVE report.lag > StalledAfter
      <4>1. ingested[c] \in Nat
        BY <3>3
      <4> QED
        BY <3>2, <3>4, <3>6, <4>1
    <3> QED
      BY <2>3, <3>2, <3>3, <3>5, <3>6 DEF IsStalled
  <2> QED
    BY <2>2, <2>3
<1> QED
  BY <1>1, SpecIInv, PTL

=============================================================================

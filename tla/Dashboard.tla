----------------------------- MODULE Dashboard ------------------------------
(***************************************************************************)
(* The readers of the inference logs: the pages of GET /metrics/logs, the  *)
(* panel of GET /metrics/errors and the four queries of GET                *)
(* /metrics/summary, while workers go on writing.                          *)
(*                                                                         *)
(* A call has up to three times: started_at and completed_at on the clock  *)
(* of the API, ingested_at on the clock of the database.  It becomes       *)
(* visible at the commit of a worker's transaction, in any order, and      *)
(* READ COMMITTED gives every SELECT of a request the rows committed by    *)
(* then.  One action of the reader is one SELECT.                          *)
(***************************************************************************)
EXTENDS Integers, SequencesExt, Queries

CONSTANTS
  Calls,        \* ids; a uuid is ordered, and a number stands for it
  Histories,    \* what the calls are, in each of the cases considered
  Limits,       \* page sizes a client asks for
  Filters,      \* provider and status it asks for
  Froms,        \* times it asks to page from
  Window,       \* window_minutes
  Widths,       \* the intervals date_trunc() cuts time into
  StalledAfter, \* STALLED_AFTER_SECONDS
  Skews,        \* by how much the API's clock is ahead of the database's
  MaxTime,      \* the clock stops here
  None          \* SQL NULL, an absent parameter

Shape == [started : Nat, completed : Nat, status : {"success", "error", "cancelled"},
          provider : STRING, tokens : Nat, ttft : Nat \cup {None}]

ASSUME DashboardAssumption ==
  /\ Calls \subseteq Nat /\ IsFiniteSet(Calls)
  /\ Histories \subseteq [Calls -> Shape]
  /\ \A h \in Histories, c \in Calls : h[c].started <= h[c].completed
  /\ Filters \subseteq [provider : STRING \cup {None}, status : STRING \cup {None}]
  /\ Froms \subseteq Nat \cup {None}
  /\ Limits \subseteq Nat \ {0} /\ Widths \subseteq Nat \ {0}
  /\ {Window, StalledAfter, MaxTime} \subseteq Nat
  /\ Skews \subseteq Int
  /\ None \notin Int /\ None \notin [before : Nat, id : Calls]

VARIABLES
  call,      \* the inference each id stands for
  skew,
  now,       \* the database's clock
  ingested,  \* ingested_at: the start of the worker's transaction
  logs,      \* ids of the committed rows of inference_logs
  pc,        \* the reader's next SELECT
  ask,       \* the parameters of its request
  cursor,    \* next_before and next_before_id
  shown,     \* rows of the pages so far
  seen,      \* history: logs when the request began
  start,     \* now() in the reader's transaction
  report     \* what the SELECTs of a summary returned

store  == <<now, ingested, logs>>
reader == <<pc, ask, cursor, shown, seen, start, report>>
vars   == <<call, skew, store, reader>>

ApiClock == now + skew

----------------------------------------------------------------------------
(* Workers *)

\* Event.to_row() goes into a transaction whose now() is ingested_at.
BeginWrite(c) ==
  /\ ingested[c] = None /\ call[c].completed <= ApiClock
  /\ ingested' = [ingested EXCEPT ![c] = now]
  /\ UNCHANGED <<call, skew, now, logs, reader>>

\* Mutant: ingested_at has no default.
CommitUnstamped(c) ==
  /\ call[c].completed <= ApiClock /\ c \notin logs
  /\ logs' = logs \cup {c}
  /\ UNCHANGED <<call, skew, now, ingested, reader>>

CommitWrite(c) ==
  /\ ingested[c] # None /\ c \notin logs
  /\ logs' = logs \cup {c}
  /\ UNCHANGED <<call, skew, now, ingested, reader>>

\* The entry is delivered again later.
RollbackWrite(c) ==
  /\ ingested[c] # None /\ c \notin logs
  /\ ingested' = [ingested EXCEPT ![c] = None]
  /\ UNCHANGED <<call, skew, now, logs, reader>>

Tick ==
  /\ now < MaxTime
  /\ now' = now + 1
  /\ UNCHANGED <<call, skew, ingested, logs, reader>>

----------------------------------------------------------------------------
(* list_recent() *)

\* (started_at, id) < (started_at, id)
RowLess(s, i, t, j) == s < t \/ (s = t /\ i < j)

\* Mutant: the cursor is a time alone.
BeforeTime(c, cur) == cur = None \/ call[c].started < cur.before

Before(c, cur) ==
  \/ cur = None
  \/ cur.id = None /\ call[c].started < cur.before
  \/ cur.id # None /\ RowLess(call[c].started, c, cur.before, cur.id)

Matches(c, provider, status) ==
  /\ provider \in {None, call[c].provider}
  /\ status \in {None, call[c].status}

\* ORDER BY started_at DESC, id DESC
NewestFirst(S) ==
  OrderBy(S, {p \in S \X S : RowLess(call[p[2]].started, p[2], call[p[1]].started, p[1])})

ListRecent(provider, status, cur, limit) ==
  LET rows == NewestFirst({c \in logs : Matches(c, provider, status) /\ Before(c, cur)})
  IN SubSeq(rows, 1, IF Len(rows) < limit THEN Len(rows) ELSE limit)

----------------------------------------------------------------------------
(* The pages of GET /metrics/logs *)

NextCursor(rows) ==
  IF Len(rows) = ask.limit THEN [before |-> call[Last(rows)].started, id |-> Last(rows)]
  ELSE None

\* A client asks for the first page, perhaps from some time back.
OpenLogs ==
  /\ pc = "idle"
  /\ \E f \in Filters, n \in Limits, b \in Froms :
       /\ ask' = [provider |-> f.provider, status |-> f.status, limit |-> n]
       /\ cursor' = IF b = None THEN None ELSE [before |-> b, id |-> None]
  /\ seen' = {c \in logs : Before(c, cursor')}
  /\ pc' = "page"
  /\ UNCHANGED <<call, skew, store, shown, start, report>>

\* It feeds the cursor back until there is none.
RecentLogs ==
  LET rows == ListRecent(ask.provider, ask.status, cursor, ask.limit) IN
  /\ pc = "page"
  /\ shown' = shown \o rows
  /\ cursor' = NextCursor(rows)
  /\ pc' = IF cursor' = None THEN "listed" ELSE "page"
  /\ UNCHANGED <<call, skew, store, ask, seen, start, report>>

----------------------------------------------------------------------------
(* The aggregates of GET /metrics/summary *)

InWindow(S) == {c \in S : ask.since <= call[c].completed}
CountWhere(S, status) == Cardinality({c \in S : call[c].status = status})

\* cast(... AS Integer) rounds to the nearest, a half to the even.
Rounded(x) ==
  LET q == x \div 100
      r == x % 100
  IN IF r > 50 \/ (r = 50 /\ q % 2 = 1) THEN q + 1 ELSE q

\* ORDER BY ttft_ms
FastestFirst(S) ==
  OrderBy(S, {p \in S \X S : RowLess(call[p[1]].ttft, p[1], call[p[2]].ttft, p[2])})

\* percentile_cont() of ttft_ms, between two neighbours; NULLs are skipped.
Percentile(fraction, S) ==
  LET measured == {c \in S : call[c].ttft # None}
      sorted == FastestFirst(measured)
      h == fraction * (Len(sorted) - 1)
      i == h \div 100 + 1
      time(k) == call[sorted[k]].ttft
  IN IF measured = {} THEN None
     ELSE IF i = Len(sorted) THEN time(i)
     ELSE Rounded(100 * time(i) + (h % 100) * (time(i + 1) - time(i)))

Aggregate(S) ==
  [requests |-> Cardinality(S), errors |-> CountWhere(S, "error"),
   cancels |-> CountWhere(S, "cancelled"),
   tokens |-> SumFunction([c \in S |-> call[c].tokens]),
   p50 |-> Percentile(50, S), p95 |-> Percentile(95, S)]

\* Mutant: the buckets are those of ingested_at.
BucketOfIngestion(c) == (ingested[c] \div ask.width) * ask.width

\* date_trunc(interval, completed_at)
Bucket(c) == (call[c].completed \div ask.width) * ask.width

----------------------------------------------------------------------------
(* The SELECTs of GET /metrics/summary, in one transaction *)

Reads(p, q) == pc = p /\ pc' = q
Returns(field, value) == report' = [report EXCEPT ![field] = value]

OpenSummary ==
  /\ Reads("idle", "totals")
  /\ \E w \in Widths : ask' = [since |-> ApiClock - Window, width |-> w]
  /\ seen' = logs
  /\ UNCHANGED <<call, skew, store, cursor, shown, start, report>>

\* The first statement begins the transaction.
ReadTotals ==
  /\ Reads("totals", "series")
  /\ start' = now
  /\ Returns("totals", Aggregate(InWindow(logs)))
  /\ UNCHANGED <<call, skew, store, ask, cursor, shown, seen>>

ReadSeries ==
  LET rows == InWindow(logs) IN
  /\ Reads("series", "providers")
  /\ Returns("series", [b \in {Bucket(c) : c \in rows} |->
                          Aggregate({c \in rows : Bucket(c) = b})])
  /\ UNCHANGED <<call, skew, store, ask, cursor, shown, seen, start>>

\* Mutant: the window is open at its beginning.
ReadProvidersAfter ==
  LET rows == {c \in logs : ask.since < call[c].completed} IN
  /\ Reads("providers", "health")
  /\ Returns("providers", [p \in {call[c].provider : c \in rows} |->
                             Aggregate({c \in rows : call[c].provider = p})])
  /\ UNCHANGED <<call, skew, store, ask, cursor, shown, seen, start>>

ReadProviders ==
  LET rows == InWindow(logs) IN
  /\ Reads("providers", "health")
  /\ Returns("providers", [p \in {call[c].provider : c \in rows} |->
                             Aggregate({c \in rows : call[c].provider = p})])
  /\ UNCHANGED <<call, skew, store, ask, cursor, shown, seen, start>>

LastIngested == IF logs = {} THEN None ELSE Max({ingested[c] : c \in logs})

ReadLogHealth ==
  /\ Reads("health", "raw")
  /\ Returns("health", [last |-> LastIngested, total |-> Cardinality(logs)])
  /\ UNCHANGED <<call, skew, store, ask, cursor, shown, seen, start>>

\* A log row and its raw row are written by one transaction; the raw rows of
\* rejected payloads are counted apart and left out here.
ReadRawHealth ==
  /\ Reads("raw", IF report.health.last = None THEN "errors" ELSE "lag")
  /\ Returns("raw", Cardinality(logs))
  /\ UNCHANGED <<call, skew, store, ask, cursor, shown, seen, start>>

\* Mutant: the lag is the API's clock less the database's.
ReadLagOnApiClock ==
  /\ Reads("lag", "errors")
  /\ Returns("lag", ApiClock - LastIngested)
  /\ UNCHANGED <<call, skew, store, ask, cursor, shown, seen, start>>

\* now() - max(ingested_at), both of the database.
ReadLag ==
  /\ Reads("lag", "errors")
  /\ Returns("lag", start - LastIngested)
  /\ UNCHANGED <<call, skew, store, ask, cursor, shown, seen, start>>

IsStalled(lag) == lag # None /\ lag > StalledAfter

\* The panel beside the summary, a request of its own.
RecentErrors ==
  /\ pc = "errors"
  /\ \E n \in Limits :
       /\ shown' = ListRecent(None, "error", None, n)
       /\ pc' = IF Len(shown') < n THEN "panel" ELSE "full"
  /\ UNCHANGED <<call, skew, store, ask, cursor, seen, start, report>>

----------------------------------------------------------------------------
Init ==
  /\ call \in Histories
  /\ skew \in Skews
  /\ now = 0
  /\ ingested = [c \in Calls |-> None]
  /\ logs = {}
  /\ pc = "idle" /\ ask = None /\ cursor = None /\ shown = <<>>
  /\ seen = {} /\ start = 0
  /\ report = [totals |-> None, series |-> None, providers |-> None,
               health |-> None, raw |-> None, lag |-> None]

Summary ==
  \/ OpenSummary \/ ReadTotals \/ ReadSeries \/ ReadProviders
  \/ ReadLogHealth \/ ReadRawHealth \/ ReadLag \/ RecentErrors

Answered == pc \in {"listed", "panel", "full"}

\* The model ends with the request.
World ==
  /\ ~Answered
  /\ \/ \E c \in Calls : BeginWrite(c) \/ CommitWrite(c) \/ RollbackWrite(c)
     \/ Tick

Next ==
  \/ World
  \/ OpenLogs \/ RecentLogs
  \/ Summary

Spec == Init /\ [][Next]_vars

----------------------------------------------------------------------------
(* Properties *)

Points == {"idle", "page", "listed", "totals", "series", "providers", "health",
           "raw", "lag", "errors", "panel", "full"}

\* Every variable keeps its type; a row is stored with its ingested_at, and
\* the lag and is_stalled are of the rows the request found.
TypeOK ==
  /\ call \in Histories /\ skew \in Skews /\ now \in 0 .. MaxTime
  /\ ingested \in [Calls -> (0 .. now) \cup {None}]
  /\ logs \subseteq {c \in Calls : ingested[c] # None}
  /\ pc \in Points
  /\ cursor # None => cursor \in [before : Nat, id : Calls \cup {None}]
  /\ shown \in Seq(Calls) /\ seen \subseteq logs /\ start \in 0 .. now
  /\ report.lag \in Int \cup {None}
  /\ DOMAIN report = {"totals", "series", "providers", "health", "raw", "lag"}

\* "Without it pagination silently loses rows": following the cursors to the
\* end lists every row that was there at the beginning, newest first and none
\* twice, whatever is written meanwhile and however many calls started in one
\* instant; the errors panel holds the newest failures (list_recent,
\* recent_logs, recent_errors).
PagesListWhatWasThere ==
  LET listed == ToSet(shown)
      ahead(c, d) == RowLess(call[d].started, d, call[c].started, c)
  IN /\ \A i, j \in DOMAIN shown : i < j => ahead(shown[i], shown[j])
     /\ pc = "listed" => {c \in seen : Matches(c, ask.provider, ask.status)} \subseteq listed
     /\ pc \in {"panel", "full"} =>
          \A c \in seen : call[c].status = "error" =>
            c \in listed \/ (pc = "full" /\ \A d \in listed : ahead(d, c))

Fields == {"requests", "errors", "cancels", "tokens"}
SumOver(group, field) == SumFunction([g \in DOMAIN group |-> group[g][field]])

\* The figures of one summary come from statements that see different rows,
\* and still add up: a later panel has no less than an earlier one, all agree
\* when nothing was written meanwhile, and the health panel accounts for every
\* row (time_series, by_provider, ingestion_health).
SummaryAddsUp ==
  LET quiet == seen = logs IN
  /\ report.series # None => \A f \in Fields :
       /\ report.totals[f] <= SumOver(report.series, f)
       /\ quiet => report.totals[f] = SumOver(report.series, f)
  /\ report.providers # None => \A f \in Fields :
       /\ SumOver(report.series, f) <= SumOver(report.providers, f)
       /\ quiet => SumOver(report.series, f) = SumOver(report.providers, f)
  /\ report.health # None => SumOver(report.providers, "requests") <= report.health.total
  /\ report.raw # None => report.health.total <= report.raw

\* "A twenty-minute outage would render as twenty silent minutes followed by a
\* traffic spike that never happened": whenever the rows were written, a
\* bucket holds calls that completed in it, at least those stored before the
\* request (BUCKET_COLUMN).
OutageIsNoSpike ==
  report.series # None =>
    \A c \in Calls :
      LET minute(d) == call[d].completed \div ask.width
          b == minute(c) * ask.width
          inBucket(S) == Cardinality({d \in InWindow(S) : minute(d) = minute(c)})
          drawn == IF b \in DOMAIN report.series THEN report.series[b].requests ELSE 0
      IN drawn \in inBucket(seen) .. inBucket(logs)

\* "Rather than silently treating no data as zero": a percentile exists when
\* something was measured, and lies among the measured values
\* (_percentile).
PercentilesOfMeasured ==
  report.totals # None =>
    LET times(S) == {call[c].ttft : c \in InWindow(S)} \ {None}
        t == report.totals
    IN /\ times(seen) # {} => t.p50 # None
       /\ t.p50 # None => /\ \E x \in times(logs) : x <= t.p50
                          /\ t.p50 <= t.p95
                          /\ \E x \in times(logs) : t.p95 <= x

\* Both figures are of the calls and not of the rows: when a row was written,
\* and which rows have no time to first token, changes neither the minute a
\* call is drawn in nor the percentiles (time_series, totals).
FiguresAreOfCalls == OutageIsNoSpike /\ PercentilesOfMeasured

\* "So the answer does not depend on the API pod's clock agreeing with the
\* database's", and "a fresh deployment should not open on a red panel": a
\* pipeline is called stalled only if a row was there and none was written in
\* the last StalledAfter before the request, and is called so when no row was
\* written in that time nor while the request ran (ingestion_health,
\* is_stalled).
StalledMeansSilence ==
  pc \in {"errors", "panel", "full"} =>
    LET recent(S) == {c \in S : start - ingested[c] <= StalledAfter} IN
    /\ IsStalled(report.lag) => logs # {} /\ recent(seen) = {}
    /\ seen # {} /\ recent(logs) = {} => IsStalled(report.lag)

=============================================================================

# Verification of the detection lab's data path

The repository holds a Cowrie honeypot with a public dashboard. A relay (HAProxy)
accepts connections and tunnels them to the honeypot; both ship their logs as
objects to S3; one Lambda function (`functions/ingest`) turns objects into items of
one DynamoDB table and works out which client address stands behind each session;
another (`functions/aggregator`) counts the items from the table's stream and keeps
rankings and summaries; a third (`functions/api`) serves them. `elastic/` replays an
archive of the same logs offline against detection rules.

This directory holds TLA+ models of that data path, configurations that check them
with TLC, and proofs checked with TLAPS. Paths below are relative to the repository.

## 1. Inventory

| Part | State it keeps | Operations | What is hard about it |
|---|---|---|---|
| Ingest: correlation (`functions/ingest/handler.py`) | EVENT and HAPROXY items; per invocation a cache of session addresses | Cowrie side: per event inherit, look up, match by time; put all. HAProxy side: put all, then for each connection find a session, query it, update its items conditionally | Two kinds of objects in any order and at the same time; each side reads what the other writes; unconditional puts beside conditional updates; redelivery; eventually consistent queries; `Limit` before filter; single-page queries |
| Ingest: batch writer (`handler`, `_read_object_lines`, `_batch_write_with_retries`) | per invocation: the record it is at, the chunk, its unprocessed items, the wait, the totals | read an object, drop lines that fail validation, put chunks of 25, back off, try again | partial success, lines that are not JSON, duplicate keys in a chunk, the 60 s limit, redelivery of a half written notification |
| Aggregator: stream side (`functions/aggregator/handler.py:150-330`) | hourly counters, one sentinel per stream record | claim, increment each dimension, classify a closed session | bisection and redelivery, a failure between claim and increment, SDK retries, its own writes on its own stream |
| Aggregator: rank rebuild (`:336-439`) | RANK rows whose key holds the count | sum a window, query, delete, put | overlapping invocations, lagging queries, failure between delete and put, counters that grow meanwhile |
| Aggregator: summaries (`:447-521`) | one SUMMARY item per day | paged walk of gsi2, unconditional put | two schedules on one key, midnight, inserts behind the cursor, late events, retries |
| Read API (`functions/api/handler.py`) | none | single reads; a paged list of events; a fan-out over hours or days | the cursor of `/api/events` is a timestamp; the list grows while it is read; no read is consistent |
| Parsers and data objects (`functions/shared`) | none | log line to record, record to item keys | float timestamps at the edges of a window, day partitions, rank keys |
| Classifiers (`functions/shared/*classifier.py`, `geoip.py`) | none | session to technique, password to category | precedence of the rules; a session seen in part |
| Offline correlation and load (`elastic/soc_elastic/correlate.py`, `load.py`, `transform.py`, `archive.py`) | an Elasticsearch index | correlate an archive, send it in bulk requests | another attribution rule than the online one; rejected items, lost answers, runs repeated over a longer log |
| Detection rules and export (`deploy_rules.py`, `export_alerts.py`) | Kibana rules and their alerts | create rules disabled, enable one at a time, wait, disable; page through the alerts, compare | waiting for an execution by timestamp, executions that outlast the wait, a rule left enabled, alerts added while paging |
| Generator (`tools/synthetic_data_generator.py`) | the events of a run | draw sessions, cut at the target, upload by hour | sessions over the turn of an hour, a failing upload, durations beside the classifier's limits |
| Scripts, edge, web, terraform, Sigma rules | - | - | environment, I/O or declarations |

How they interact: the S3 notification of an object starts an ingest invocation, at
least once; ingest's puts and updates are stream records, which start the aggregator;
its counters are read by the rank rebuild; the summaries walk the index that ingest
writes; the API reads all of it. Nothing serialises invocations: there is no reserved
concurrency anywhere.

What makes each part correct:

- correlation: an address is only shown if a connection in the right window justifies
  it; an address once shown stays; together the two passes find every unambiguous pair;
  an acknowledged object is stored;
- stream side: no record counted twice, none lost without a trace, and the stream is
  consumed whatever fails;
- rank rebuild: after a rebuild the rows are the top of its totals, a value is listed
  once, and no row shows more than was counted;
- summaries: no event counted twice, none left out that was there, and the final value
  of a day stays;
- the batch writer: of two lines with one key the later stays, the totals account for
  every line, what is acknowledged has been written whole;
- the API: a listing lists nothing twice and what it leaves out can be told; a bucket that
  could not be read is a gap and not a number;
- the lab: a completed load leaves what the archive says; the lab and the Lambda judge a
  connection alike; no rule stays enabled, an execution of an earlier replay is taken for a new
  one at most where the dates cannot tell them apart, and
  "matches" in the summary means that no row went without its alert;
- the generator: a session is counted under the technique it was generated as.

`PROJECT.json` lists every component and, under "hazards", each place in the code where
one of these is at risk.

## 2. Plan

Written, in this order:

1. `Correlation`, refining the abstract `AttributionLedger`; `CorrelationInv` and
   `CorrelationProofs`.
2. `StreamAggregator`; `StreamAggregatorInv` and `StreamAggregatorProofs`.
3. `RankRebuild`; `RankRebuildProofs`.
4. `DailySummary`; `DailySummaryProofs`.
5. `BatchWrite`, refining the abstract `PutAll`, which is what `Correlation` takes the
   writer to be; `BatchWriteProofs`.
6. `ReadApi`: the requests that take more than one read; `ReadApiInv` and
   `ReadApiProofs`.
7. `SessionTechnique`, the classifier as an operator, used by `SyntheticSessions` and for
   the labels in `StreamAggregatorMC`.
8. `OfflineAttribution` (the two attribution rules side by side), `OfflineLoad` on top of
   it, `RuleReplay` on top of that: one specification of the lab; `OfflineProofs`.
9. `SyntheticSessions`: generator, upload, and the label a session ends with;
   `SessionTechniqueProofs`, about any session and about the generated ones.

Composition: `OfflineAttribution` -> `OfflineLoad` -> `RuleReplay` by EXTENDS;
`BatchWrite` implements `PutAll` and `Correlation` implements `AttributionLedger` by
INSTANCE; `SyntheticSessions` and `StreamAggregatorMC` extend `SessionTechnique`. An MC
module `XMC` gives the values of an instance of `X`; a module `XInv` holds an inductive
invariant too long to stand in `X`.

Every safety property that a passing run checks is a theorem; what is only model-checked
is liveness. What stays unmodelled is listed in section 7 with the reason.

## 3. The modules

### Correlation

One object is one invocation (S3 sends one record per notification). The log lines of an
object are `Lines[o]`; a Cowrie line is an event with a session and a time, a HAProxy line
a connection with an address and a time. `table` holds the item of every event (`status`
is `correlation_status`, `ip` is `src_ip`, `geo` its enrichment), `conns` the stored
connections; `seen` and `connsSeen` are replicas that follow item by item, and a query
may return for each item the table's or the replica's value (`EventViews`, `ConnViews`).

A line has two times: the one printed on it (`EventTs`, `ConnTs`) and the integer the code
makes of it by way of a float and a cut (`EventUs`, `ConnUs`), equal or one microsecond less
(`Micros`, `haproxy_parser.py:92, 138`). The forward pass compares the integers
(`InWindow`), the backward pass the printed time of the event with bounds made from the
connection's integer (`InResponseWindow`). For the dates of these logs the conversion is in
fact exact: `int(timestamp() * 1e6)` loses nothing from September 2005 to January 2038. The
model does not rely on it.

The enrichment has the fields country, asn and asn_org. A line may ship them (`Shipped`), and
if it ships a country, what it ships takes the place of the enricher's answer (`Ships`,
`handler.py:573-580, 644-649`). The enricher is a function of the address (`GeoOf`), which
yields nothing where there is none; an update of the backward pass sets only the fields it
knows (`KnownGeo`).

| Action | Code (`functions/ingest/handler.py`) |
|---|---|
| `StartCowrie`, `DirectEvent`, `InheritFromCache`, `SkipLookup`, `LookupSessionPriorMatch`, `CacheMatch`, `StoreEvent` | the loop of `_process_cowrie_object`, 558-664: each event's branch and the DynamoDB call it makes |
| `BeginWrite`, `PutEvent`, `FinishCowrie` | the batch write and the return, 666-680 |
| `StartHaproxy`, `PutConn`, `BeginBackward` | `_process_haproxy_object`, 487-515 |
| `FindTargetSession`, `QuerySession`, `UpdateEvent`, `FinishUpdate`, `FinishHaproxy` | `_backward_correlate`, 337-484, one action per query and per conditional update |
| `Fail` | an exception or the 60 s limit; the notification is delivered again up to `MaxAttempts` times, then dead-lettered |
| `SyncEvent`, `SyncConn` | DynamoDB replication |

`ConditionalUpdate` is the condition expression of 457-471: only an item that is still
unresolved is changed. `PutEvent` has no condition, as in the code. The order of puts
within a batch is any order; `left` is what remains of them.

`AttributionLedger` is the promise: an event is recorded, may be resolved once, and then
its address is final. `LedgerRefined` maps `table` to it.

### StreamAggregator

The event source mapping (`Poll`, `Bisect`, `Retry`, `GiveUp`, terraform module
`aggregator`, 145-166) keeps per shard the next record and a queue of ranges to deliver;
the handler (`SkipRecord`, `ClaimRecord`, `SkipDuplicate`, `Increment`,
`ClassifySession`, `FinishRecord`, `FinishBatch`, `Fail`) is
`functions/aggregator/handler.py:150-330`, one DynamoDB call per action. Every change of
an item, sentinels and counters included, is a record of a shard's `stream`. A counter
is the set `by[c]` of the records it has counted and `extra[c]`, the increments that
repeat one. `ClaimResent` and `IncrementResent` are calls the SDK sends again after a lost
answer (`ddb_helpers.py:8-13` leaves the retries on). `WriteItem` is ingest.

### RankRebuild

One (window, dimension) pair. `ReadBucket` adds one hour's bucket to `totals`, `QueryRows`
finds the old rows, `DeleteRow` and `PutRow` are the two batch writers, in any order
within each, `BeginWrite` the flush between them (`handler.py:336-430`). `Add` is the
stream side. A bucket's answer may be any count up to the present one; the answer to
the row query mixes the table and a replica. The history variable `alone` says of a
running rebuild that no other ran since it started and its answers were current.
`WindowTotal` is what a window's counters add up to, summed hour by hour like the code's
loop (`RunningTotal`).

### DailySummary

`Begin` fixes the target day from the clock, `WalkPage` reads one page after the cursor,
`PutSummary` writes the item (`handler.py:447-521`). Time is in ticks: the first five
minutes of a day and the rest of it. `WithinLimit` is the function's time limit of 60 s:
a run may straddle one tick, midnight included, but not two. The daily event is delivered
until it is served, at most `MaxTries` times, and possibly again after that. `ontime`,
`final`, `base` and `started` are history.

### BatchWrite and PutAll

One notification and its invocations (`handler`, 698-721, `_read_object_lines`, 325-334, and
`_batch_write_with_retries`, 283-319). A line is valid, fails validation or is not JSON; an
item is the line it comes from, under the key `KeyOf`.

| Action | Code |
|---|---|
| `Deliver`, `DeliverAgain`, `Raise`, `Crash` | Lambda's asynchronous invocation: again after a failure, `MaxDeliveries` times, then the dead-letter queue; sometimes again after a success |
| `SkipRecord`, `ReadObject`, `FinishObject`, `Return` | the loop over the records of the notification |
| `BeginChunk`, `BatchWriteItem`, `Throttled`, `Rejected`, `Retry` | one call of the table each: all or part of the request is accepted, a throttling error, a validation error (two items of one key), the wait before the next call |
| `OutOfTime` | the time limit, in tenths of a second; time passes in the waits |

`PutAll` is the promise: a set of items, put in any order and any of them again, then an
acknowledgement or the dead-letter queue. `PutAllRefined` maps the places of the lines in
the notification to its items.

### ReadApi

A table that grows, a clock, and one request. `AskFanOut`, `ReadBucket`, `ReadSummary`,
`ReadFails` and `Answer` are `_run_parallel` and the endpoints on it
(`functions/api/handler.py`, timelines and breakdown): one read per page of an hour's bucket,
one per daily summary, in any order. `AskListing` with `EventsPage` is
`/api/events`, one request per page, and with `SessionPage` the pages of one session.
`Fits` are the rows that `StoredEvent` accepts; the others are skipped.

No read of the API asks for consistency. `base.seen` is what had reached every replica when the
client asked, any part of what was stored then; a query finds that much and any part of what
else is stored by the time it is made (`Views`), and the next one may find less. A daily
summary is a snapshot that the aggregator overwrites (`Summarise`): `totals[d]` are those put
so far, `base.oldest[d]` the oldest that some replica still had at the request, and a read
gets one of those from there on (`Offered`). What reaches the last replica after the request
only takes choices away, so it needs no action. Items the client does not read are left alone.

### SessionTechnique

`TechniqueLabel(view, duration)` is `classify_session` of the summary that the aggregator
makes of the items its query returns: a `view` is a function to the events seen.
`StreamAggregatorMC` takes the label of a closing event from it, `SyntheticSessions` that
of a generated session.

### OfflineAttribution, OfflineLoad, RuleReplay

`OfflineAttribution` has the rule of `soc_elastic/correlate.py` and the Lambda's query for the
same event, on integer microseconds: a time that went through a float is the printed one or
one microsecond less (`Micros`), and a connection's minute bucket is cut from the printed
time. `OfflineLoad` reads an archive of records, lines that are not JSON and a truncated
file (`StartLoad`, `BulkIndex`, `FinishLoad`), fails as `load.py` can (`RecordRaises`,
`BulkFails`: after any part of a chunk was accepted), and is run again, perhaps after the
HAProxy log has grown (`SyncLog`). `RuleReplay` adds `deploy_rules.py`, one action per call
and one per failing call, the detection engine as the scripts use it (`RunBegins`, `RunEnds`,
`RunFails`, `Tick`; external), and `export_alerts.py` (`StartExport`, `NextPage`,
`Summarize`). `runs` is history: the executions of a rule with rows to alert on since its
alerts were cleared; so are `enabler`, the replay that enabled a rule last, which every
execution carries with it, and `script.found`, the rules that were enabled when the replay
began.

### SyntheticSessions

The random numbers of a run are `play`, chosen at the start: the target and the draws of each session,
of which `Possible` says what `_build_session` can draw, in milliseconds. A step of a session
is drawn with its time since the end of the handshake, and the gaps between steps are what
the code draws (`Gap`). `SessionEvents` is what `_build_session` returns. `GenerateSession`
emits up to the target, which may cut a session; `UploadHour` puts one object per hour in
order, `UploadFails` ends the upload; `StoreEvent` and `ClassifySession` are ingest and the
aggregator as far as a label depends on them.

## 4. The runs

| Run | Specification and bounds | Shows |
|---|---|---|
| `once` | two sessions, two connections in overlapping windows, one event at the very end of a window, one line that ships a country and a network and one that ships a network alone; two Cowrie objects against one HAProxy object, one attempt each | under every interleaving with stale reads attributions are grounded, items coherent, "ambiguous" is real, a batch agrees with itself, and the table implements the ledger |
| `retry` | one object of each kind, a tunnelled and a direct session, three attempts, fairness | what is acknowledged is stored; only puts replace an attribution; every notification settles |
| `serial` | two objects of each kind, disjoint windows, one event at the exact end of its window and one at its beginning with a microsecond lost; no overlap and current reads (`SerialSpec`, in `CorrelationInv`) | the two passes together attribute every unambiguous event that is squarely in its window, whichever object came first |
| `race` (violation) | the same with overlap | both passes miss a pair: the Cowrie side has looked before the connection was put, and puts after the backward pass has looked |
| `ingest_write` | five notifications, chunks of two, the real waits and limits, three deliveries, fairness | of the items put the last of each key is in the table; totals add up; the time limit comes before the writer's ten retries; a notification with an unwritable line is never acknowledged, one that is acknowledged is whole; the writer implements `PutAll`; every notification settles |
| `stream_replay` | a login and the closing event of its session, batches of two, two shards, failures at every point | every record the mapping is done with is counted, dead-lettered or was cut inside by a failure |
| `stream_catchup` | two retries of a single record, two repeated calls, fairness | a counter exceeds its records only by repeated increments; the aggregator gets through its stream, its own writes included |
| `rank_rebuild` | two values, one row kept, three hours and a window of two, two overlapping rebuilds, one failure | a rebuild that runs alone is exact from any state earlier ones left; no row shows more than a window held |
| `daily_summary` | two events of a day, pages of one, two runs, three deliveries, two failures, fairness | see below |
| `api` | five events in three hours and two days, two of one timestamp, one that does not fit the schema; pages of one and two, lagging reads, a summary put twice, one failing read, fairness | a timeline has a row or a gap for every bucket; a breakdown is never too high, and too low by the failed hours only; listings are in order and end; what a listing of the day leaves out is explained; a session's answer is whole: all of it as against what had reached every replica at the request |
| `lab` | three connections at the edges of a window and of a minute, two archives (a truncated file, garbage, two records of one id; a record that lacks a field), two loads, an aggregating and a document rule, two replays, one alert per execution, pages of one | see below |
| `synthetic` | six runs of the generator at the limits of what it draws | a session stored whole is counted as its cohort; what a session labelled early can be taken for; no label from a session whose attempts were not all uploaded |

`daily_summary`: a summary counts stored events of its day once each; a run misses only
events that were indexed after it started; the final summary of a day has all that was
indexed by 00:05, is not replaced by a run that started before midnight, and is written
unless all three deliveries fail.

`lab`: a completed load leaves exactly what the archive and the log now on disk say, whatever
earlier loads left; the lab and the Lambda agree on every connect event but where the lab
says more; after a replay only rules whose own call failed may be enabled; a result is noted only of an
execution that this replay enabled, with one exception (below); the export has every alert that was there when it began,
once; "matches" means that every row of the rule has its alert, if it alerted in one execution
since its alerts were cleared.

Every bound is a constant named in the module, or the size of a set in the MC module.
Two sessions, two connections and two batches are the least with which ambiguity, inheritance
between batches and a race of the two passes occur together; two rebuilds, two values
and two increments are the least in which a row becomes stale between two queries and a
value overtakes another; pages of one item put every insertion next to a page
boundary; two records in a batch are the least that bisect; chunks of two and five lines
have a key in two chunks, a key twice in one, and a chunk that is not full; two replays are
the least in which an execution of the first ends within the second's wait, or a rule that the
first left enabled begins within it; three hours are the least with which one leaves a window
of two; and two loads
the least in which one repairs what another left. In `synthetic` the draws are
extreme: the shortest and the longest of each duration, and sessions over the turn of an hour.

### Where the code and what is said of it disagree

`race` shows the one disagreement that has a run: both passes are said to be needed and
together enough (`ingest/handler.py:342`), and overlapping invocations can both miss a pair.
The others were met while modelling; they are part of what the modules do, and the
properties are stated so as to say what holds in their presence.

- `_lookup_session_prior_match` promises an earlier match of the session
  (`ingest/handler.py:526`), but the query's `Limit=1` is applied before its filter: if the
  first item of the session is unmatched, the answer is "none" for ever. The event then goes
  on to a match by time, which is why attributions stay grounded (`AttributionGrounded`).
- The puts of a batch have no condition. A redelivered or slow batch replaces an address the
  backward pass has written meanwhile by "missed"; only puts do so
  (`OnlyPutsReplaceMatches`), and none if every object is delivered once (`LedgerRefined`).
- A stream record that fails after its claim is taken for a duplicate when it is delivered
  again, and the rest of its counts is lost (`LossesExplained`).
- Two overlapping rebuilds can list a value twice until the next rebuild that runs alone
  (`RanksExact`).
- `EachSideCovers` is stated for events squarely in the window (`Squarely`): within it by the
  integers and, for the backward pass, by the printed time. Where a conversion lost a
  microsecond, an event at exactly the end of the window can be missed by both passes, and one
  at exactly its beginning by the forward pass. Where conversions are exact, as they are for the
  dates of these logs, this is the whole window.
- `export_alerts` compares the number of alerts with the rows of the rule's query, so that equality
  shows that "the engine dropped nothing" (`export_alerts.py:9-10`). Two executions that each
  drop half of the rows make the same number; what holds is `SummaryHonest`, for a rule that
  alerted in one execution.
- `wait_for_execution` waits for "an execution that started after `after`" (`deploy_rules.py:85`),
  but `after` is cut to the second (`:102`). If a call for a rule had failed in an earlier replay
  and left it enabled, an execution of that replay's making may begin after the next replay
  has begun and before it deploys the rule; if all that and the enabling fall in one second, it
  is taken for the result. `ResultIsFresh` says that this is the only such case.
- The API reads without asking for consistency: an answer may lack what was stored a moment
  before, and a page of a listing may lag behind the page before it. The properties of `ReadApi`
  therefore promise only what had reached every replica at the request.
- The generator's docstring says that events of a session are "timestamped monotonically"
  (`synthetic_data_generator.py:470`). A scanner's closing event, 0.3 s after its start at the
  earliest, can precede its key exchange, up to 0.4 s after it (`ClosedTs`, `BuildSession`).
- The items that the generator's direct injection writes (`synthetic_data_generator.py:611`)
  carry fields that `StoredEvent` forbids and no `ttl`: the API skips each of them and they do
  not expire.

## 5. Fairness

- `Correlation`: a started invocation takes its next step, S3 delivers every notification,
  replication catches up. Failing is not fair and bounded by the attempts.
- `BatchWrite`: weak fairness of `Step`, delivery and what the running invocation does next.
  Failures need no fairness: they are bounded by the deliveries, and waits by the time limit.
- `StreamAggregator`: the mapping keeps polling and the handler goes on (`Progress`); a
  failing batch cannot repeat for ever because of bisection and `maximum_retry_attempts`.
- `DailySummary`: time passes, EventBridge delivers the daily event as long as it has tries
  left (strong fairness, since another run may occupy the function), and a started run goes
  on; failures are fewer than deliveries.
- `ReadApi`: weak fairness of `Step`: a read is answered or fails, and the client asks for
  the next page.

No liveness is claimed for `RankRebuild`, where overlapping could go on for ever, nor for the
lab, whose scripts are started by hand. What a rebuild that is alone achieves, and what is true
when a script is over, is stated as safety.

## 6. What is proved

TLAPS checks the following for every value of the constants; the bounds of the runs play
no part.

- `CorrelationProofs`: `IInv` (module `CorrelationInv`) is inductive, and from it `TypeOK`,
  `AttributionGrounded`, `ItemCoherent`, `AmbiguityIsReal`, `BatchAgrees`, `DoneMeansStored`
  and the action property `OnlyPutsReplaceMatches`. Groundedness is not inductive
  alone: an address passes through replicas, the memory of an invocation, its cache
  and the target of a backward update, so `IInv` says the same of every copy
  (`GoodItem`, `CacheGood`, `TargetGood`); and since items stay, what a
  backward pass has read is still there when it updates it (`ReadsStored`). What is acknowledged needs what an invocation
  has secured at each point of its code (`CowrieAt`, `HaproxyAt`).

  `ImplementsLedger`: every step is a step of `AttributionLedger` or changes nothing there,
  if `DeliveredOnce` and `LinesApart`. With `OnceInv` a batch then never meets an item of its
  own in the table, so each put is the first of its item and only the conditional update
  follows it. Without them the refinement is false, and rightly so: S3 and Lambda deliver at
  least once, and a second put takes an address back (section 4).

  `SidesCover`: `EachSideCovers` in every behaviour of `SerialSpec`, if `PageHolds`. `SerialInv`
  follows the batch that is running: a Cowrie batch sees every connection there is, and a
  HAProxy batch has covered the connections it has passed. That a lost microsecond on either
  side leaves an event that is squarely in the window to both passes is `WindowsRespond`. `PageHolds` says that a session
  fits one page of a query, as nearly every session does: a page is 1 MB, hundreds of items,
  and the single-page query is listed among the hazards. That `EachSideCovers` needs the
  absence of overlap is what `race` shows.
- `StreamAggregatorProofs`: `IInv` (module `StreamAggregatorInv`) is inductive, and from it
  `TypeOK`, `CountedAtMostOnce` and `LossesExplained`. The key is what a sentinel stands for:
  a record fully counted, being counted by the invocation that is at it, or cut short
  (`ClaimsGood`), and that what an invocation has still to increment it has not incremented
  (`TodoGood`).
- `RankRebuildProofs`: `RebuildInv` is inductive, and from it `TypeOK`, `RanksExact` and that
  duplicates do not outlive a rebuild that runs alone (`DuplicatesHeal`). While a rebuild
  is alone, the rows in the table are exactly those it has still to delete, then those
  that together with its remaining puts make up the top rows.

  `CountsAreBacked` (`NoInventedCounts`) holds for overlapping rebuilds too. `BackedInv` says
  that a running sum never exceeds what the hours it has read add up to now, and that every row
  still to be put is backed; counters only grow, so a row stays backed by the window it came
  from. That sums grow with their terms is an induction over the hours of the window,
  proved with a least counterexample.
- `BatchWriteProofs`: `WriterInv` is inductive, and from it `TypeOK`, `LastLineWins` and
  `CountsAddUp`; and `Implements`, that every step of the writer is a step of `PutAll` or
  changes nothing there. `LastLineWins` holds across chunks because chunks follow each
  other in the object (`PastChunkSplits`), and within one because a request in which a key
  occurs twice is never accepted, not even in part.

  `AckedWhole` (`AckedMeansWhole`): an invocation goes on to the next chunk, object or record
  only when the one in hand could be written (`PassedInv`). `TimeOutFirst` (`DeadlineFirst`) is for the limits that
  are deployed, `DeployedLimits`: ten retries, waits of at most 30 s
  (`functions/ingest/handler.py`) and a time limit of 60 s (terraform module `ingest`). The
  retries made for a chunk determine the wait that comes next (`Waits`) and that at least the
  earlier waits have gone by (`WaitsAddUp`); the tenth does not fit. With other limits the
  property may fail.
- `ReadApiProofs`: `IInv` (module `ReadApiInv`) is inductive, and from it `TypeOK` and the five
  safety properties. A fan-out has read, of each bucket, all that had reached every replica when
  it was asked for but the values still to come (`FanOutAt`); a daily total is never above what
  the day has (`TotalsGood`). For listings it is where the cursor stands:
  a row that had reached every replica at the start has been answered, is past the cursor, or shares the
  timestamp at which a page ended (`EventsAt`); of a session the last case is missing because
  its pages continue at a key and not at a timestamp (`SessionAt`).
- `OfflineProofs`: `LoadInv` gives `IndexIsArchive` (an index half loaded agrees with the archive
  up to where the load is, so the last document of each id wins), `LabMatchesLambda` is the
  arithmetic of windows and minutes, with times that are one microsecond off, and
  `ReplayInv` gives `QuietAfterReplay` and `ResultIsFresh`: the script has at most one rule in
  hand, an execution of an earlier replay is of an earlier second unless its rule was found
  enabled (`Dated`), and in a wait such executions are not dated after the second in which the
  rule was enabled (`Earlier`).
  `ExportIsComplete` (`ExportComplete`): the alerts that were there at the start are on a page
  or sort behind the cursor. `SummaryIsHonest` (`SummaryHonest`): the alerts of a rule that ran
  once are the rows of one execution, no row twice, so as many alerts as rows are all the
  rows. The condition on `runs` cannot be dropped: two executions that each drop half of the
  rows match as well, which takes one time unit more than `lab` allows; the theorem has no
  bound on time.
- `SessionTechniqueProofs`: which labels survive when more of any session is seen; and
  `CohortCounted`, `MislabelsExplained` and `NoLabelFromHalfUpload` for every run of the
  generator, not only those at its limits. `SessionInv` says that the events of a session
  stand together among the emitted ones, the last session's perhaps cut (`Blocks`), that of
  the hours with events those put are the first ones (`InOrder`), and that a label is that of
  a view which holds the closing event (`LabelsFromViews`). The closing event is emitted last
  and is not before any attempt (`AttemptsBeforeClosing`), so a labelled session has been
  emitted whole and its hours have been put. The limits of the draws decide the rest: a
  scanner's at most 1.8 s round to less than the classifier's 2 s, ten failures are more than
  five, and a session with commands lasts 2 s after its last step.
- `DailySummaryProofs`: `DayInv` is inductive, and from it `TypeOK` and every safety property of
  the module. A page has no gaps (`PageIsPrefix`) and a page that is not full is the rest
  (`ShortPageIsRest`), so a walk that has ended has counted all that was there when it
  began; a run for the present day is over before 00:05 of the next (`LateRunIsDaily`).

The assumptions are the named ASSUMEs on the constants in each module, which TLC evaluates
in every run, and the hypotheses named above (`DeliveredOnce`, `LinesApart`, `PageHolds`,
`DeployedLimits`). The runs that check the same properties satisfy them: `once` has one
attempt and disjoint objects, `serial` pages that hold a session, `ingest_write` the real
limits.

Only model-checked: the liveness properties (`EveryObjectSettles`, `CatchesUp`,
`EveryDayIsFinal`, `NotificationSettles`, `ListingEnds`), which are out of this prover's reach.
The inductive invariants were checked by TLC on the same instances before they were proved.

In `DailySummary` "indexed" means visible to every query of gsi2; in `SyntheticSessions` "stored
whole" means whole as the classifying query sees it.

Assumed by the models: connections that would share a key of the table are one element of
`Conn` in `Correlation`; the lab's procedure is load, deploy, export, and a run of `deploy_rules` takes
more than a second; in `BatchWrite` time passes only in waits; in `SyntheticSessions` items
are stored in any order, so that a query that lags is one made earlier.

## 7. Not modelled

- Parsing and formatting of lines and items: an input is a line that has passed them or
  not. What a rejected line does is in `BatchWrite` and `OfflineLoad`.
- Expiry of items by TTL, except that an expiring event is a stream record. In particular
  the sentinel's life and the maximum age of a stream record are both one hour; a
  record delivered again after its sentinel has gone would be counted again.
- The technique totals of a summary, copied from the hourly counters after the walk.
- The top lists, the summary and healthz of the API: single reads whose answer is the item.
- Password categories, GeoIP lookup and the dictionary build: pure functions of one value on
  which no other state depends.
- The generator's files per day and its direct injection into DynamoDB, which skip ingest.
- Deployment scripts, edge shippers, web front end, terraform and Sigma rules: sequential I/O,
  configuration, rendering and declarations. Terraform's retry counts, time limits and
  schedules are in the models as constants and fairness.

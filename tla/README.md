# Formal model of cap-ipaws-bridge

TLA+ modules for the stateful core of the bridge, TLC configurations that check
them on small instances, and theorems about them that TLAPS checks for every
value of the constants. Paths below are relative to `src/`; the service itself
is `src/main.py` and `modules/`.

`PROJECT.json` lists the runs, the mutants (for every checked property, a
plausible bug that makes it fail), the theorems, the hazards, and for each
definition the source lines it stands for.

## The system

| part | state it keeps | operations | used by |
|---|---|---|---|
| Submission pipeline, `src/main.py` `compose_cap` | none of its own | validate, dedup, cache, audit, submit to IPAWS through a breaker, audit the outcome | HTTP |
| Mesh entry point, `src/main.py` `mesh_broadcast` | none of its own | read the cache, await the mesh gateway, audit | HTTP |
| Dedup engine, `dedup_engine.py` | a mark with its time for each content hash | `is_duplicate` (expire, test, mark) | pipeline |
| Alert cache, `alert_cache.py` | alerts in LRU order, statistics | put, get, remove, clear, ids, geographic query | pipeline, mesh, alerts API |
| Audit logger, `audit_logger.py` | bounded log, correlation map | log_event, query, counts | pipeline, mesh |
| Circuit breaker, `circuit_breaker.py` | state, two counters, time of the last failure | guard, on success, on failure | pipeline, router |
| IPAWS client, `ipaws/client.py` | session | blocking POST | pipeline |
| Mesh client, `mesh_bridge.py` | window of delivery rates | awaited POST, record a rate, advise activation | mesh, router |
| Rapid-alert client, `rapid_alert.py` | one bearer token | acquire the token, awaited POST | router |
| Alert router, `router.py` | one breaker per channel | decide, dispatch | constructed by the service, which only reads its statistics |
| Webhooks, `api/webhooks.py` | registry of endpoints with counters | register, deregister (threads), dispatch and deliver with retries (event loop) | HTTP |
| Rate limiter, `api/rate_limiter.py` | a token bucket per class of paths, with an adaptive rate | try_acquire, notifications, middleware | every request |
| Route table, `src/main.py`, `api/compose.py` | order of registration | dispatch of a request to a handler | framework |
| Retry engine, `retry_engine.py` | pending deliveries by id, dead letters, totals | submit, record_success, record_failure | constructed, never called |
| CAP composer, `cap/composer.py`; validator, `ipaws/validator.py`; parser, `cap/parser.py` | none | write, judge and read a document | pipeline, compose API; the parser: feeds |
| CAP geometry, `cap/geo.py` | none | read a polygon, its box, is a point inside | nothing yet; the cache keeps the box |
| SAME header parser, `etc/eas_alert_parser.py` | none | decode a file of headers line by line | stand-alone |
| Audit database script, `etc/db_admin.py` | a SQLite file | init, reset | operators |
| Metrics, admin, feeds, credentials, web UI, simulator | little or none | see `PROJECT.json` | - |

Three schedulers meet in it: coroutines on one event loop, which interleave at
their awaits only; synchronous FastAPI handlers, which run in threads of a pool
and interleave anywhere outside a lock; and the clocks, of which the monotonic
one drives the breaker and the wall clock drives dedup and rate limiter.
The service keeps everything in memory, so a restart forgets all of it; only the
audit script has a file. What is hard:

- **Calls that outlive the state that admitted them.** The breaker's lock covers
  the guard and the bookkeeping but not the call. Correct if it never trips short
  of the threshold, admits nothing for a full timeout after a trip, recovers only
  on the required successes in a row, and does recover (`ImplementsContract`,
  `BreakerInv`, `RecoversAfterOutage`, `OutageOpensCircuit`).
- **A mark made before the deed it stands for.** The dedup engine marks first and
  the submission may fail. Correct if nothing is posted twice in a window
  (`NoRepeatWithinWindow`) and a client that persists gets through
  (`RetriedAlertsGetThrough`); that a suppressed alert was delivered is false.
- **Serialisation by accident.** `compose_cap` never awaits and its POST blocks
  the loop. The order of the audit trail and the punctuality of the breaker rest
  on it (`AuditTrailIsSerial`, `ProbesOnTime`).
- **Listings that race with eviction**, and reads that change the LRU order
  (`ListingReportsWhatStayed`, `EvictsLeastRecentlyUsed`, `Accounting`).
- **A dictionary walked on the loop and changed by threads**, whose iterator raises
  or, when the table is rebuilt under it, skips in silence; overlapping
  dispatches on the same counters, retries after lost answers
  (`ReturnCoversStable`, `CountersMatchResults`, `ResultsAreHonest`,
  `DispatchesEnd`), and a limit tested in one step and used in the next
  (`RegistryNearLimit`).
- **Outcomes that come late, twice, or for an id used anew.** A delivery must end
  once, be counted once, and not be buried one failure early or late
  (`KeepsDeliveryContract`, `TotalsAreHonest`). That it ends at all is up to workers
  that nothing in `src/` has.
- **A log that forgets and a map that must not.** An alert's entries keep one
  correlation id although the log is trimmed between them, and a query filters
  before it limits (`OneCorrelationPerAlert`, `QueryFindsNewest`).
- **Borders of zones.** Vertices at the height of a point, edges that fall, floats
  that round by an edge's direction, boxes with a corner at 0
  (`CrossingTestIsSound`, `RecipientsAreFound`).
- **Fields found by counting from both ends** of a header that the air may have
  cut (`HeadersReadBackOrRefused`), and a mean over the right end
  of a window (`DecisionFollowsReports`).
- **A script killed or run twice** between its statements (`ResetIsAllOrNothing`).
- **Two channels with their own failures**, and clients that turn errors into
  return values (`EveryChannelAnswered`, `BreakersKeepContract`; that an outage opens the mesh circuit is false).
- **Three readings of one document.** Composer, validator and parser find elements,
  strip and default texts by different rules (`ComposedReadsBack`,
  `AcceptedReadsAllowed`).
- **A rate that changes while time passes**, over a clock that may be stepped
  (`NeverOverLimit`, `SomeoneIsServed`, `RateIsRestored`).

## The modules

```
BreakerOps ──┬── CircuitBreaker ──(refines)── BreakerContract
             ├── AlertRouter ─────(refines, once per channel)── BreakerContract
             └── Bridge
AlertStore ──┬── AlertCache
             └── Bridge
Webhooks      TokenBucket      Routes

Keep ───┬── AuditTrail
        ├── EasHeader
        └── Zones
CapDocument   AuditTrail   MeshFallback   Zones   EasHeader   AuditDb ──┐
RetryEngine ──(refines)── DeliveryContract                              │
      └──────────────── all seven together: MCLibrary ──────────────────┘
```

`MC*` modules give each of them the small sets TLC needs; `*Proofs` modules hold
the theorems. `MCLibrary` runs the parts of the last group, which share no state
with the rest or with each other: a behaviour picks one part and the others stand
still, so that the state space is the sum of theirs and not the product.

**BreakerOps** holds the critical sections of `CircuitBreaker` as operators on one
record (`Admits` and `Admit` are `_guard_open`, `OnSuccess`, `OnFailure`), so that
the three modules with a breaker in their state share one translation. The failure
count is capped at the threshold and the age of the last failure at the timeout;
the code compares them with nothing larger.

**BreakerContract** is what a breaker promises: phases, a run of equal outcomes in
the order in which calls end, and a clock since the trip.

**CircuitBreaker** adds callers: `Enter`/`Reject` is the guard; `Succeed`, `Fail`
and `Cancel` are the three ways a call ends (a cancelled coroutine records nothing,
because `CancelledError` is no `Exception`). Between them anything may happen.

**AlertStore**, **AlertCache**. The store is a sequence, oldest use first, as the
`OrderedDict` is. A listing (`GET /alerts`) takes a snapshot of ids and then calls
`get` for each, which promotes; `StartListing`, `Fetch`, `EndListing` are its steps.
`asOf` remembers when each alert had been used at the snapshot, which is the order
the response must have however the listing's own reads change the store's.

**Bridge** composes dedup, cache, audit, breaker and the IPAWS and mesh clients
under the two coroutines. A request's task is `idle`, `posting` (it holds the loop)
or `injecting` (it awaits the gateway). `Compose` has a disjunct for each of
`compose_cap`'s ways out before the POST; `PostAccepted`, `PostOddlyAnswered` and
`PostFails` are what comes after it. `Crash` rebuilds the module-level objects. An
entry of the log is reduced to event, alert and destination; a payload to
identifier, areas and the validator's verdict; the XML is left out. `GET
/alerts/{id}` runs in threads and comes at any time.

**Webhooks** models registration in its two unlocked steps, the walk of the
registry one endpoint at a time, one coroutine per target with its retries, and
`gather`, which passes on the first exception while the rest go on. The registry is
laid out as CPython lays out a dict (`place`, `filled`): an insertion takes the next
place or rebuilds the table without its holes, at any insertion, because when it is
full depends on the whole past. The iterator goes by places. It raises when the
size has changed, or when it finds more entries than there were (`WalkRaises`);
a rebuild can move an endpoint to a place it has passed, which `overtaken` records.

**AlertRouter** models `dispatch` from await to await. A channel whose breaker
refuses costs no await and is part of the same action (`ToMesh`); one without a
client (`clients`, fixed at the start) is passed over (`Sends`). The clients catch
`httpx.HTTPError`, so only an answer that is no JSON object counts as a failure.

**TokenBucket** counts tokens in fractions (`Unit` to a token) and rounds the
code's factors 1.1 and 1/2 to whole fractions, up and down respectively. A bucket
has no knowledge of the others, so one stands for all.

**Routes** is the table of handlers in order of registration.

**Keep** is the loop that goes through a list and skips what it does not want, as
`_parse_area` does with pairs, `parse_same_header` with areas and `query` with entries.

**CapDocument** holds `compose`, `validate_cap` and `_parse_alert` as operators on
abstract documents, and `preview` and `submit` of the compose API as actions; in
`Import` a document of another origin is validated and read. An element is
present or absent, in the CAP namespace or in none, and its text is of one of five
kinds (empty, blank, allowed, padded, not allowed), which is all that the code
tells apart. Requests may hold a sixth, text that XML cannot, on which `compose`
raises.

**DeliveryContract** is what a delivery engine promises for each submission:
pending until it succeeds, fails `MaxRetries` times in a row, or makes way for
another under its id; and final after that.

**RetryEngine** is `submit`, `record_success` and `record_failure`, each in one step
as on the event loop. Nothing in `src/` makes the attempts yet, so the workers are
external and are allowed everything that calls of these methods permit: attempts
of the same delivery at the same time, outcomes reported after the delivery has
ended or after its id was submitted again, answers lost after the event was taken,
workers that die. The backoff of `record_failure` is a number it returns; the
engine enforces nothing with it. The refinement mapping reads a submission's phase
off its two flags and `_pending`.

**AuditTrail** is `AuditLogger` by itself: `log_event` with its trimming and the
correlation map, `query` as an operator. `Bridge` has the same log inside the
pipeline, reduced to what `AuditTrailIsSerial` needs. Time stamps are arbitrary,
because `time.time()` may be stepped back.

**MeshFallback** is the window of rates behind `should_activate_mesh`, in whole
numbers of a small unit and by sums instead of means. The code's mean is a float:
where the exact one is within `MeanSlack` of the threshold, the decision is
`RoundedBelow`, any function of the rates in their order.

**Zones** reads the text of a polygon twice, as `parse_cap_polygon` (strict) and as
`_parse_area` (lenient) do, and has the bounding box, the ray-casting test and the
cache's `has_geo` and box test. Its coordinates count a unit of which every float is
a multiple, and the comparisons of latitudes, of boxes and with edges due north or
south are exact in floats too. Where any other edge crosses is computed and rounded:
if the point is within `EdgeSlack` of that (`NearEdge`), the answer is `RoundedWest`,
any function of the point and the edge in its direction.

**EasHeader** is `parse_same_header` on tokens, and the loop that skips lines that
raise. Headers are whole, cut off between any two tokens or inside any token (to a
piece of it, to all but its duration, or inside its duration), short of any one
token or of the `+TTTT`, without their start, or with areas garbled on the air.

**AuditDb** runs `init` and `reset` from two operators on one file. What SQLite does
(the write lock, rollback, statements that raise) is external and stated in the
module's head.

## What the runs check

| run | what it asks | instance |
|---|---|---|
| `breaker` | overlap, refinement, opening and recovery | 3 callers, thresholds 3 and 2, timeout 2 ticks |
| `cache_safety` | order of eviction, statistics, listings | 3 alerts, 2 entries, 2 listing threads, 6 accesses |
| `bridge_safety` | repeats, audit order, probes | 2 requests, 2 valid alerts and 1 invalid, window 1, thresholds 2 and 1, timeout 1, a log of 2 entries, a cache of 1, 1 restart |
| `bridge_retry` | a persistent client gets through | 1 request, 2 alerts, window 1 |
| `webhooks_dispatch` | counters, results, the walk against threads, the limit, termination | 2 dispatches, 2 threads, 3 registrations (the last two subscribed, the second with a bad URL), limit 2, 2 attempts |
| `router_safety` | outcomes, both breakers | 2 dispatches, each client there or not, one alert for each choice of channels, thresholds 1 and 2, timeout 1 |
| `bucket` | limit, service, restoration | 2 clients, burst 2 tokens, base rate 1 token and floor 1/4 token per tick, clock steps of -2 and +1, 2 of them |
| `library`, documents | what is written, accepted and read is the same | one element of each kind, in the alert and in each of up to 2 info blocks; all requests, all alerts with one block, all pairs of blocks |
| `library`, retries | the contract, the totals | 2 submissions, 2 ids, 2 workers, 3 attempts |
| `library`, trail | correlation ids, queries | 4 entries of 2 alerts and 2 events with 2 time stamps, a log of 2 |
| `library`, fallback | the decision | 7 reports of 3 rates, window 6 of which 5 count; a mean at the threshold counts as below it if the last of the 5 is above the first |
| `library`, zones | borders, boxes, readers | all triangles and quadrilaterals on a grid of 3 by 3 (4 units apart), asked at 5 by 5 points (2 apart); rounding decides within 1, by the direction of the edge; all pairs of garbled, out-of-range and sound pairs |
| `library`, headers | whole and torn headers | up to 4 areas, each sound or garbled |
| `library`, database | overlapping and killed runs | 2 operators, 3 tables, 3 requests (two orders, one misspelt name) |
| `bridge_suppressed` | *violated*: a suppressed alert was delivered | as `bridge_safety`, no restart |
| `webhooks_notify` | *violated*: all subscribers are notified | 2 threads, 1 dispatch |
| `router_outage` | *violated*: an outage opens the mesh circuit | 1 dispatch |
| `routes_compose` | *violated*: the composer page reaches the pipeline | 2 clients |

Why these bounds are enough to be interesting. A threshold of 2 or 3 separates
"one short of" from "reached", and with 3 callers a call from before the trip can
end in each later state. In the cache 3 alerts for 2 places force eviction while
two listings run. In the bridge a log of 2 entries is trimmed between the two
entries of a submission, a window of 1 tick puts a retry before, at and after its
edge, and two requests are enough for one to wait for the mesh while the other
submits. Three registrations with a limit of 2 allow an insertion and a removal
between two steps of a walk, so that its size stays and its content changes, with
or without a rebuilt table, next to an endpoint that stays. The endpoint that does
not subscribe is the one that can be passed and removed before the others come. Two threads are the fewest that can pass the test of the
limit together. Two submissions under one id are enough for an outcome of the first
to reach the second, and two workers for two outcomes of one delivery; 3 attempts
separate first, middle and last. A log of 2 forgets an alert while the next entry
of it is still to come. Seven rates fill a window of 6 and drop one, and with 5 that
count the one before them matters too. The grid has points on vertices, on edges
and on lines through vertices, and polygons that are flat, that turn back and that
cross themselves. A document has one element of each kind because the
code looks at each by itself; the theorems remove this bound. In
`router_safety` the failure threshold is 1 (one garbled answer opens a circuit) so
that two dispatches of every kind of alert fit; higher thresholds are the business
of `breaker`. The tick of the bucket is long enough to refill a token at the base
rate and too short at the floor.

Symmetry (of alerts, of listing threads, of request slots) is used in runs without
liveness only. `bridge_safety` has a `VIEW` without the last response and the set
of delivered keys, which no action and no property of that run reads. Deadlock is
not checked for the cache, whose accesses are bounded, for the webhooks, whose
registrations and dispatches are, and for the library, whose submissions, entries
and reports are.

### Fairness

- Time passes (`WF` of `Tick`).
- Calls end, because every client has a timeout: 10 s for IPAWS and the mesh, 8 s
  for the platform, 5 s for webhooks. For breaker and bucket this is `SF` of each
  outcome: a caller is not cancelled, and a handler does not fail, every single
  time. Which outcome is possible is up to the environment.
- The event loop runs ready coroutines (`DispatchRuns`).
- `SteadyLoad` and `ClientsRetry` are assumptions on the load and not on the code:
  an open circuit closes only if somebody calls, and an alert gets through only if
  its client tries again. They are named so in the modules. In `AlertRouter` the
  assumption is about each kind of alert.

Nothing is assumed of the retry engine's workers, of outages, of clock steps, of
threads that register webhooks or of restarts.

## What the violated runs show

- `SuppressedWasDelivered`: `compose_cap` marks the key (`src/main.py:161`) before
  the submission and keeps it when that fails or the circuit is open. For an hour
  the client's retry is answered `deduplicated`.
- `AllSubscribersNotified`: `register` in a thread while `dispatch` iterates over
  `_endpoints.values()` (`webhooks.py:77`) raises `RuntimeError`, nobody is told.
- `OutageOpensMeshCircuit`: `inject_alert` returns `FAILED` instead of raising
  (`mesh_bridge.py:86`), so the breaker records a success per failed call.
- `ComposedAlertsReachThePipeline`: the compose router registers
  `POST /api/v1/compose` before `@app.post` does, and its body differs. So
  `compose_cap` is reached by no HTTP request as the service is put together;
  `Bridge` models the function as it is written.

### Divergences seen and not among the runs

- HALF_OPEN admits every caller (`circuit_breaker.py:77`); the comment on line 18
  says one probe.
- A call admitted before the trip that fails after it moves the time of the probe
  (`circuit_breaker.py:99`), so a probe may come later than `timeout_seconds`.
  `ProbesOnTime` shows that it cannot happen behind the blocking pipeline.
- `list_alerts` lists in order of use, not of insertion (`alerts.py:19-22`).
- `mesh_broadcast` forwards the caller's XML unchecked, or an empty string.
- A submission that fails validation leaves no audit entry (`README.md:82`).
- `max_entries` of the dedup engine is never read (`dedup_engine.py:42`).
- Registrations in threads can exceed `MAX_REGISTERED_WEBHOOKS`, by less than
  there are threads (`RegistryNearLimit`).
- `dispatch` of the webhooks can also leave an endpoint out in silence: if a thread
  removes an endpoint the walk has passed and another insertion rebuilds the table
  between two steps (`webhooks.py:77`), the entries move towards the front and the
  iterator, which goes by places, passes over one that was registered all along.
- A channel that is decided on but has no client (`main.py:74-87` may pass no mesh
  client) leaves no trace in the result, neither skipped nor in error
  (`router.py:83`, `:91`), although the decision's reason names it.
- Float rounding decides on the slanted borders of zones (`geo.py:58`), by the
  direction of the edge: (0.3, 0.03) is in the zone (0,0) (1,0.1) (1,-1), but not in
  the same zone written the other way round; and it is also in the neighbour
  (1,1) (1,0.1) (0,0), so that both have it. `Clear` and `NearEdge` in the properties
  except such recipients.
- The float mean decides at the threshold of the fallback (`mesh_bridge.py:106-107`):
  rates of 0.6, 0.8, 1.0 average 0.80 and call for the mesh, in the order 0.6, 1.0,
  0.8 they do not.
- A delivery whose worker dies stays pending for ever: the engine has no timer, and
  nothing in `src/` makes or repeats the attempts (`retry_engine.py:72-131`).
- An answer of IPAWS that is 2xx, not 200 and no JSON returns status ERROR, which
  the trail records as a submission (`ipaws/client.py:52`).
- A `RuntimeError` of a channel's call itself is reported as skipped, as if the
  circuit were open (`router.py:117`).
- `decide` chooses the mesh by severity alone, before the platform's outcome is
  known; `main.py:94` says automatic failover. The `webhooks` of a decision are
  used by nothing.
- `_ensure_token` of one dispatch drops the token another has just obtained, and
  an expired token is never replaced (`rapid_alert.py:39-51`).
- `retry_engine.py:81`: an id submitted while it is pending replaces the first
  delivery, which ends nowhere; an outcome of an attempt of the first then counts
  for the second. `DeliveredWasTaken` says what remains true.
- `max_retries` counts attempts, the first included (`retry_engine.py:45`).
- A `limit` of 0 returns everything, in `query` (`audit_logger.py:117`) and in
  `get_dead_letter_queue` (`retry_engine.py:143`).
- The correlation map is never trimmed, so it grows with every identifier that was
  ever logged (`audit_logger.py:129-131`). `OneCorrelationPerAlert` needs that.
- A SAME header with two areas or more that loses its originator or event is read
  with its fields shifted (`eas_alert_parser.py:144-158`): only a loss from the last
  area on is noticed. One cut off inside its station is read with what is left of
  the station (`KE` for `KEAX/NWS`). The check for "no area tokens" cannot fire.
- The example in that module's docstring has the originator `NWS` (line 23); the
  code returns the code it read, `WXR`.
- The example in the docstring of `etc/db_admin.py` resets a table `audit`, which
  `SCHEMA` does not have; it is skipped.
- The lenient reader of polygons drops a pair it cannot read and keeps numbers out of
  range, where the strict one refuses the text (`parser.py:162`, `geo.py:70-78`).
- The validator takes a document without namespace (`validator.py:59`, `:103`), the
  parser finds nothing in it (`parser.py:179`): valid, and read as empty defaults
  without an info block. `AcceptedReadsAllowed` is therefore stated for documents in
  the CAP namespace.
- A blank status, message type or scope passes validation (`validator.py:64`) and is
  read as "Actual", "Alert", "Public" (`parser.py:119-121`); a blank identifier is
  kept by the composer (`composer.py:54`) and read as empty.

## What is proved

| theorem | statement | for all |
|---|---|---|
| `CircuitBreakerProofs!TypeCorrect` | `Spec => []TypeOK` | thresholds, timeouts, sets of callers |
| `CircuitBreakerProofs!CountersMatchState` | `Spec => []BreakerInv` | same |
| `CircuitBreakerProofs!BreakerImplementsContract` | `Spec => ImplementsContract` | same |
| `BridgeProofs!ProbesAreOnTime` | `Spec => []ProbesOnTime` | windows, thresholds, payloads, sets of requests |
| `BridgeProofs!NoAlertRepeated` | `Spec => NoRepeatWithinWindow` | same |
| `BridgeProofs!AuditIsSerial` | `Spec => []AuditTrailIsSerial` | same, and log capacities |
| `TokenBucketProofs!LimitRespected` | `Spec => []NeverOverLimit` | rates, bursts, clients, clock steps |
| `TokenBucketProofs!BucketTypeCorrect` | `Spec => []TypeOK` | same |
| `AlertRouterProofs!RouterTypeCorrect` | `Spec => []TypeOK` | thresholds, timeouts, alerts, sets of clients, numbers of dispatches |
| `AlertRouterProofs!NoChannelLost` | `Spec => []EveryChannelAnswered` | same |
| `AlertRouterProofs!BothBreakersImplementContract` | `Spec => BreakersKeepContract` | same |
| `BridgeProofs!BridgeTypeCorrect` | `Spec => []TypeOK` | capacities of cache and log, requests, restarts |
| `AlertCacheProofs!CacheTypeCorrect` | `Spec => []TypeOK` | capacities, ids, threads, page sizes |
| `AlertCacheProofs!AccountingExact` | `Spec => []Accounting` | same |
| `AlertCacheProofs!ListingsLoseNothing` | `Spec => []ListingReportsWhatStayed` | same |
| `AlertCacheProofs!EvictionIsLRU` | `Spec => EvictsLeastRecentlyUsed` | same |
| `WebhooksProofs!WebhooksTypeCorrect` | `Spec => []TypeOK` | finite thread pools, limits, attempts, dispatches, subscribers |
| `WebhooksProofs!RegistryStaysNearLimit` | `Spec => []RegistryNearLimit` | same |
| `WebhooksProofs!CountersAreResults` | `Spec => []CountersMatchResults` | same |
| `WebhooksProofs!ReportsAreHonest` | `Spec => []ResultsAreHonest` | same |
| `WebhooksProofs!WalkMissesNoStable` | `Spec => []ReturnCoversStable` | same |
| `LibraryProofs!RetryTypeCorrect` | `RetrySpec => []RetryTypeOK` | numbers of retries, ids, workers |
| `LibraryProofs!TotalsHonest` | `RetrySpec => []TotalsAreHonest` | same |
| `LibraryProofs!EngineKeepsContract` | `RetrySpec => KeepsDeliveryContract` | same |
| `LibraryProofs!TrailTypeCorrect` | `TrailSpec => []TrailTypeOK` | capacities, alerts, events, stamps |
| `LibraryProofs!CorrelationIsOfOneAlert` | `TrailSpec => []OneCorrelationPerAlert` | same |
| `LibraryProofs!QueriesFindNewest` | `TrailSpec => []QueryFindsNewest` | same, and all queries and limits |
| `LibraryProofs!ComposedAlertsReadBack` | `Spec => []ComposedReadsBack` | sets of elements, requests, documents |
| `LibraryProofs!AcceptedAlertsReadAllowed` | `Spec => []AcceptedReadsAllowed` | same |
| `LibraryProofs!DocumentsTypeCorrect` | `Spec => []TypeOK` | same |
| `LibraryProofs!ResetsAreAllOrNothing` | `DbSpec => ResetIsAllOrNothing` | operators, schemas, requests |
| `LibraryProofs!DbTypeCorrect` | `DbSpec => []DbTypeOK` | same |
| `LibraryProofs!HeadersTypeCorrect` | `EasSpec => []EasTypeOK` | numbers of areas |
| `LibraryProofs!HeadersReadBackAsSent` | `EasSpec => []HeaderReadsBack` | same |
| `LibraryProofs!TornHeadersRefused` | `EasSpec => []TornHeaderRefused` | same |
| `LibraryProofs!HeadersReadBack` | `EasSpec => []HeadersReadBackOrRefused` | same |
| `LibraryProofs!WindowHoldsLatest` | `FallbackSpec => [](FallbackTypeOK /\ HoldsLatest)` | capacities, rates, roundings |
| `LibraryProofs!DecisionsFollowReports` | `FallbackSpec => []DecisionFollowsReports` | same, and thresholds |
| `LibraryProofs!ZonesTypeCorrect` | `ZoneSpec => []ZoneTypeOK` | texts, recipients, roundings |
| `LibraryProofs!RecipientsFound` | `ZoneSpec => []RecipientsAreFound` | same |
| `LibraryProofs!CrossingTestSound` | `ZoneSpec => []CrossingTestIsSound` | same |
| `LibraryProofs!PartsTypeCorrect` | `LibrarySpec => []PartsTypeOK` | all of the above |

`SharedOpsProofs` holds the lemmas about `BreakerOps` and `AlertStore` that the
modules above cite. With these, every invariant that a passing run checks is a
theorem, and so are the action properties and refinements.

The assumptions are those stated at the constants: thresholds are positive, times
and bounds are naturals, capacities and the registry's limit are positive, the
floor of the rate is at most its base, and the pool of threads that register
webhooks is finite. The code's configuration satisfies them; nothing else is
assumed. Of documents and requests only their shape is assumed, and that an
identifier is required; of the texts of polygons, that they are lists of pairs of
numbers and of what is none; and that no header is the absence of one. Of rounding
nothing is assumed but that it has a bound: `EdgeSlack` and `MeanSlack` are any
naturals, and `RoundedWest` and `RoundedBelow` any operators. The fallback
must need at least one report and no more than the window keeps (3 and 20 in the
code): with none, it would be advised by an empty mean, and with more, never.

- *Breaker.* `TypeOK /\ BreakerInv` is inductive: the counts need the state, and
  "the failure is never older than the opening" is what the refinement needs to
  know that a probe comes no earlier than a full timeout. `SharedOpsProofs` has
  one lemma per operator. Each step then maps to a step of the contract or to a
  stutter, with `phase` the state and `run` the counter that state looks at.
- *Bridge.* `NoRepeatWithinWindow` says nothing of marks, so it is proved from
  `MarkedSincePosted`: a key posted within the window carries a mark exactly as old.
  `ProbesOnTime` follows from `SerialPosts`: at most one POST is in flight, never
  while the circuit is open, so the failure is exactly as old as the opening. Both
  are invariants of Bridge as a whole, restarts and mesh requests included.
  `AuditTrailIsSerial` needs both directions of `AuditInv`: the last entry is an
  INGESTED one exactly while its POST is awaited. `LoggedTail` says that a trimmed
  log is a tail of the log, so pairs stay pairs. `TypeOK` adds `Bounded`, the
  capacities of the cache and the log: a handler that stores or logs also evicts or
  trims in the same step, so one lemma per handler is enough.
- *Cache.* The whole rests on `Ordered`: the store is in the order of last use, so
  its first entry is the one to evict and no id is in it twice. From that follow
  the capacity, `Accounting` and `EvictsLeastRecentlyUsed`, which is an action
  property of every put. A listing needs `Listings`: what it has found and what it
  has still to fetch are different ids, and an alert that stayed is either found
  already or both stored and still to fetch. For its order, what is found and what
  is to fetch, in this sequence, fall in their last use as of the snapshot (`InTurn`).
- *Webhooks.* `Sound` ties the three layers together: a delivery exists only for a
  target of a walk that has ended; a try under way has not been counted yet; the
  walk has taken every stable subscriber up to the last place it visited, unless it
  was overtaken. Places must for this be distinct, in the order of the ids, and no
  more than are filled (`TableOK`), which a rebuild keeps. The limit
  needs the threads between their test and their insertion, whose number bounds
  the overshoot. `CountersMatchResults` compares a counter with a number of
  deliveries, so each step that ends a delivery adds one element to a finite set;
  the dispatch calls may be infinitely many, those that have started are not.
- *Bucket.* `NeverOverLimit` says that the credit is never negative; it needs
  `Covered`: unless the credit is full, it covers the tokens and all that the time
  since the last refill could bring at the base rate. The argument multiplies
  unknowns, for which `ProductMonotone` stands in.
- *Router.* A step does one of five things to a channel's breaker (`Moves`), and
  `MovesOK` and `MovesContract` say once what each keeps and which step of the
  contract it is; `NextSane` shows that every step of the router is one of the
  five for both channels. The breaker invariant is the one above, except that a
  failure may be younger than the opening: calls admitted earlier fail late.
  `EveryChannelAnswered` needs `JobOK`: the rapid channel is decided before the
  mesh is tried, whatever the await and whichever client is missing.
- *Retry engine.* What is pending is open and the newest submission of its id
  (`PendingOpen`, `PendingNewest`), so a late outcome is counted for the submission
  it was made for or a younger one of the same id, and never for a settled one.
  Counting needs `Accounts`; each step then maps to a step of `DeliveryContract`.
- *Audit trail.* The correlation id of an alert is the place of its first entry
  (`IdsArePlaces`), and every entry carries the id its alert still has, so trimming
  the log loses nothing.
  A query counts from the newest entry down: what `Keep` makes of the log has each
  entry at the place that the number of wanted entries up to it gives
  (`KeepProperties`), and the limit cuts off the oldest of them.
- *Documents.* `Answered` says that an answer is the one its document deserves.
  What a composed document is found to contain (`ComposedErrors`, `ComposedRead`,
  `ComposedAreas`) and what one without faults is read as (`AcceptedReads`) are
  lemmas about the operators; `ComposeType` makes the composer's document one of
  those the second speaks of.
- *Audit database.* What a reset has deleted it was asked for, and what it was asked
  for and has not deleted it still has before it (`MayHaveDeleted`). At the commit
  nothing is before it, so it has deleted all; no other action takes a row.
- *Headers.* A header of n areas has n + 4 tokens, and only the last area has a
  duration. Cut off before its station, between tokens or inside one, or without one
  of the tokens from the last area on, it is short or has a token without duration
  where the last area is looked for. If it is cut inside its station or not at all, each
  field is where it is looked for (`TokensToStation`, `WholeHeaderDecoded`), and the
  areas in between go through `Keep`, garbled ones or not.
- *Fallback.* The window is the end of the history, and full when the history
  fills it (`HoldsLatest`), so the mean it is asked for is one of the latest
  reports (`DecisionOfWindow`): the code sums a sequence and the property a set of
  places of the history, and the sums are equal stage by stage. Whatever rounding
  answers, it is asked only within `MeanSlack` of the threshold.
- *Recipients.* Going round a closed line there are as many edges up past a height
  as down (`EvenChanges`). From a point west of the box every such edge is crossed,
  from one east, north or south of it none; so from outside the box the number is
  even, and the point is not in the zone (`ContainedInBox`), if rounding decides at
  no edge. The box holds every vertex
  (`BoxHoldsVertices`), and one that is all zeros, which the cache takes for no
  box, has nothing inside.
- *Crossing test.* A zone begun at another vertex, turned round or closed crosses a
  ray as often (`ZoneTurned`, `ZoneReversed`, `ZoneClosed`): the crossed edges
  correspond one to one. Only turned round do the edges change direction, and only
  there (`EdgeTurned`, `CrossedEdge`) must no edge be near. Two triangles of a
  quadrilateral have the shared edge in opposite directions: clear of that edge, both
  or neither cross it, whatever rounding does at the others (`QuadrangleCut`). A triangle has either no vertex across the
  point's height or one vertex across from two; in the second case the sides of the
  two edges to it decide (`VertexAcross`, `NoVertexAcross`, `TriangleExact`), and
  the solver is given the signs of products instead of the products.
- *Parts together.* `LibrarySpec` implies the specification of each part
  (`PartBehaviours`), so each theorem about a part holds of the behaviours that
  the run checks.
- *Folds.* The library's induction theorems take an operator, which no backend
  instantiates, and the community modules' folds are recursive functions over the
  subsets of a set. `LeastNumber` (from the library's minimum of a well-founded
  order) and `EveryStage`, which speak of sets only, stand in for them: that a
  recursion is defined (`RecursionDefined`), what a sum is at each stage
  (`SumIsStage`), what `Keep` is (`KeepIsStage`) and how a count grows
  (`CountStep`) all rest on them. `Keep` is a fold for that reason: the prover does
  not expand the definition of `SelectSeq`.

Only model-checked: all liveness properties (`RecoversAfterOutage`,
`OutageOpensCircuit`, `RetriedAlertsGetThrough`, `DispatchesEnd`,
`SomeoneIsServed`, `RateIsRestored`), whose fairness is
out of reach of the prover, and the properties that runs refute.

## What is not modelled

- Of CAP documents: malformed XML, dates, circles and geocodes of areas, Atom feeds,
  repeated elements of one name.
- A service without a mesh gateway: `mesh_broadcast` then answers 503 and does
  nothing else (`main.py:225`). The router without a client is modelled.
- Of the geometry: circles, great-circle distances and zone ids, which are
  floating-point trigonometry and formatting.
- Metrics: nothing in `src/` calls `inc`, `set_gauge`, `observe` or
  `get_collector`, so which threads would meet there is not decided by this code.
- Feeds, credentials, admin and web UI: stateless input and output, or constants.
- The simulator (a loop that posts random alerts and tallies the answers; its body
  has no sender and is refused like the one in `Routes`), `stats` and `vacuum` of the
  audit script, the tables of code names of the header parser.
- Operations that only read: `get_dead_letter_queue`, `get_event_counts`, statistics,
  and the counters that no decision reads (hits and misses, call totals, router
  counters).
- `close` of the clients at shutdown.
- Hash collisions of the dedup key, and steps of the wall clock in `Bridge`; the
  code's wall clock is stepped in `TokenBucket` and `AuditTrail`.

## Plan

1. Areas and Atom feeds in `CapDocument`, and its composer and validator in the
   place of the payload's verdict in `Bridge`.
2. Shutdown: the clients' `close` while a dispatch awaits them.
3. `Metrics`, the day something records in it.

## Repeating the checks

```
tlc -workers 2 -config CircuitBreaker.cfg MCCircuitBreaker.tla
tlapm CircuitBreakerProofs.tla
```

and so on for each run of `PROJECT.json` and each `*Proofs` module. The longest
runs are `router_safety` (about two minutes) and `webhooks_dispatch` (nearly three);
the longest proofs are those of `LibraryProofs` (about seven).

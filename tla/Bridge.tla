------------------------------- MODULE Bridge -------------------------------
(***************************************************************************)
(* The service of src/main.py: its handlers compose_cap (validate, dedup,  *)
(* cache, audit, submit to IPAWS through a circuit breaker; module Routes  *)
(* shows which requests reach it) and mesh_broadcast, the cached-alert     *)
(* endpoint, time, and restarts of the process.                            *)
(*                                                                         *)
(* Both POST handlers are coroutines on one event loop.  compose_cap has   *)
(* no await, and its POST to IPAWS blocks the loop, so no other coroutine  *)
(* runs until it is answered; mesh_broadcast gives the loop away once,     *)
(* while the mesh gateway answers.  Cache reads by GET /alerts run in      *)
(* threads and may come at any time.  Everything the bridge knows is in    *)
(* memory.                                                                 *)
(***************************************************************************)
EXTENDS BreakerOps, AlertStore, FiniteSets

CONSTANTS Requests,         \* slots for HTTP requests being handled
          Payloads,         \* compose requests: records [id, areas, valid]
          DedupWindow,      \* DedupEngine ttl_seconds, in ticks
          AuditMax,         \* AuditLogger max_entries
          MaxCrashes        \* bound of this model: restarts

ASSUME DedupWindowAssumption == DedupWindow \in Nat
ASSUME AuditMaxAssumption == AuditMax \in Nat \ {0}
ASSUME MaxCrashesAssumption == MaxCrashes \in Nat
ASSUME PayloadsAssumption == \A p \in Payloads : p.valid \in BOOLEAN

VARIABLES seen,       \* DedupEngine._seen: age of each key's mark
          store,      \* the alert cache
          audit,      \* AuditLogger._entries
          breaker,    \* ipaws_circuit
          task,       \* what each request's handler is doing
          answer,     \* status in the last response sent
          ipawsUp,    \* IPAWS-OPEN works (environment)
          delivered,  \* keys IPAWS-OPEN has taken (environment)
          crashes,
          posted,     \* history: age of the last POST of each key
          openFor     \* history: ticks since the circuit opened, up to Timeout

memory == <<seen, store, audit, breaker>>
environment == <<ipawsUp, delivered, crashes>>
vars == <<seen, store, audit, breaker, task, answer, ipawsUp, delivered,
          crashes, posted, openFor>>

\* The hash of identifier, sender, event and areas; compose_cap always passes
\* the same sender and event.
Key(p) == <<p.id, p.areas>>
Keys == {Key(p) : p \in Payloads}
Ids == {p.id : p \in Payloads}

Unseen == -1
Age == {Unseen} \cup 0 .. DedupWindow + 1   \* older than the window is one value

AuditEntry == [event : {"INGESTED", "DEDUPLICATED", "ROUTED", "FAILED", "DELIVERED"},
               id : Ids,
               to : {"", "ipaws-open", "mesh-gateway"}]

Idle == [pc |-> "idle"]
Task ==
  {Idle}
  \cup [pc : {"posting"}, payload : Payloads, taken : BOOLEAN]
  \cup [pc : {"injecting"}, id : Ids]

\* "none" before the first response, "error" for a 500.
Answer == {"none", "invalid", "deduplicated", "partial", "success",
           "SENT", "FAILED", "error"}

TypeOK ==
  /\ seen \in [Keys -> Age]
  /\ store \in Seq([id : Ids]) /\ Len(store) <= MaxEntries
  /\ audit \in Seq(AuditEntry) /\ Len(audit) <= AuditMax
  /\ breaker \in Breaker
  /\ task \in [Requests -> Task] /\ answer \in Answer
  /\ ipawsUp \in BOOLEAN /\ delivered \subseteq Keys
  /\ crashes \in 0 .. MaxCrashes
  /\ posted \in [Keys -> Age] /\ openFor \in 0 .. Timeout

NoMarks == [k \in Keys |-> Unseen]
AllIdle == [r \in Requests |-> Idle]

Init ==
  /\ seen = NoMarks /\ store = <<>> /\ audit = <<>> /\ breaker = NewBreaker
  /\ task = AllIdle /\ answer = "none"
  /\ ipawsUp = TRUE /\ delivered = {} /\ crashes = 0
  /\ posted = NoMarks /\ openFor = 0

----------------------------------------------------------------------------
(***************************************************************************)
(* Helpers.                                                                *)
(***************************************************************************)
\* _cleanup_expired: marks older than the window go.
\* Mutant: marks never expire.
KeepAll(marks) == marks

\* Mutant: a mark of exactly the window's age goes too.
ForgetEarly(marks) == [k \in Keys |-> IF marks[k] >= DedupWindow THEN Unseen ELSE marks[k]]

Forget(marks) == [k \in Keys |-> IF marks[k] > DedupWindow THEN Unseen ELSE marks[k]]

\* is_duplicate's answer, after its cleanup.
IsDuplicate(p) == Forget(seen)[Key(p)] # Unseen

Older(marks) ==
  [k \in Keys |-> IF marks[k] \in 0 .. DedupWindow THEN marks[k] + 1 ELSE marks[k]]

\* Mutant: the log is never trimmed.
LoggedUntrimmed(log, event, id, to) ==
  Append(log, [event |-> event, id |-> id, to |-> to])

\* log_event: append, then keep the newest max_entries.
Logged(log, event, id, to) ==
  LET longer == Append(log, [event |-> event, id |-> id, to |-> to]) IN
  IF Len(longer) > AuditMax
  THEN SubSeq(longer, Len(longer) - AuditMax + 1, Len(longer)) ELSE longer

TrackOpening ==
  openFor' = IF breaker'.state = breaker.state THEN openFor ELSE 0

\* Mutant: the submission is awaited, so the loop is never held.
NeverHeld == TRUE

\* No handler holds the event loop.
LoopFree == \A r \in Requests : task[r].pc # "posting"

\* A handler starts, or resumes after its await.
Scheduled(r, pc) == task[r].pc = pc /\ LoopFree

\* A handler gives up the loop, holds it, or responds and is done.
Becomes(r, t) == task' = [task EXCEPT ![r] = t] /\ UNCHANGED answer
Respond(r, status) == task' = [task EXCEPT ![r] = Idle] /\ answer' = status

----------------------------------------------------------------------------
(***************************************************************************)
(* compose_cap, up to its answer or its POST to IPAWS.                     *)
(***************************************************************************)
\* compose raises on text that XML cannot hold (500), or validate_cap finds errors
\* (400), and nothing else happens.
Refuse(r, p) ==
  /\ Scheduled(r, "idle") /\ ~p.valid
  /\ Respond(r, "error") \/ Respond(r, "invalid")
  /\ UNCHANGED <<memory, environment, posted, openFor>>

\* is_duplicate finds the key.
Suppress(r, p) ==
  /\ Scheduled(r, "idle") /\ p.valid
  /\ IsDuplicate(p)
  /\ seen' = Forget(seen)
  /\ audit' = Logged(audit, "DEDUPLICATED", p.id, "")
  /\ Respond(r, "deduplicated")
  /\ UNCHANGED <<store, breaker, environment, posted, openFor>>

\* is_duplicate marks a new key, and the alert is cached.
Ingest(r, p) ==
  /\ Scheduled(r, "idle") /\ p.valid
  /\ ~IsDuplicate(p)
  /\ seen' = [Forget(seen) EXCEPT ![Key(p)] = 0]
  /\ store' = Put(store, [id |-> p.id])
  /\ UNCHANGED environment

\* ipaws_circuit raises: audited as FAILED, answered "partial".
IngestWhileOpen(r, p) ==
  /\ Ingest(r, p) /\ ~Admits(breaker)
  /\ audit' = Logged(Logged(audit, "INGESTED", p.id, ""),
                     "FAILED", p.id, "ipaws-open")
  /\ Respond(r, "partial")
  /\ UNCHANGED <<breaker, posted, openFor>>

\* The POST goes out and blocks the loop.
IngestAndPost(r, p) ==
  /\ Ingest(r, p) /\ Admits(breaker)
  /\ breaker' = Admit(breaker)
  /\ audit' = Logged(audit, "INGESTED", p.id, "")
  /\ Becomes(r, [pc |-> "posting", payload |-> p, taken |-> FALSE])
  /\ posted' = [posted EXCEPT ![Key(p)] = 0]
  /\ TrackOpening

Compose(r, p) ==
  Refuse(r, p) \/ Suppress(r, p) \/ IngestWhileOpen(r, p) \/ IngestAndPost(r, p)

----------------------------------------------------------------------------
(***************************************************************************)
(* The POST (IPAWSClient.submit_cap) and the rest of compose_cap.          *)
(***************************************************************************)
\* IPAWS-OPEN takes the alert; the answer is still to come.
IpawsTakes(r) ==
  /\ task[r].pc = "posting" /\ ~task[r].taken /\ ipawsUp
  /\ Becomes(r, [task[r] EXCEPT !.taken = TRUE])
  /\ delivered' = delivered \cup {Key(task[r].payload)}
  /\ UNCHANGED <<memory, ipawsUp, crashes, posted, openFor>>

Settle(r, b, event, status) ==
  /\ breaker' = b
  /\ audit' = Logged(audit, event, task[r].payload.id, "ipaws-open")
  /\ Respond(r, status)
  /\ TrackOpening
  /\ UNCHANGED <<seen, store, environment, posted>>

\* A 2xx answer to an alert that was taken.
PostAccepted(r) ==
  /\ task[r].pc = "posting" /\ task[r].taken /\ ipawsUp
  /\ Settle(r, OnSuccess(breaker), "ROUTED", "success")

\* A 2xx answer that is neither 200 nor JSON: submit_cap returns status ERROR
\* without raising, so the breaker and compose_cap count a success.
PostOddlyAnswered(r) ==
  /\ task[r].pc = "posting" /\ ~task[r].taken /\ ~ipawsUp
  /\ Settle(r, OnSuccess(breaker), "ROUTED", "success")

\* 4xx, 5xx, no connection, or a timeout, possibly after IPAWS took it.
PostFails(r) ==
  /\ task[r].pc = "posting" /\ ~ipawsUp
  /\ Settle(r, OnFailure(breaker), "FAILED", "partial")

----------------------------------------------------------------------------
(***************************************************************************)
(* mesh_broadcast, its two halves around the await.                        *)
(***************************************************************************)
\* The cache is read whether or not the caller supplied the XML.
MeshRequest(r, id) ==
  /\ Scheduled(r, "idle")
  /\ store' = Get(store, id)
  /\ Becomes(r, [pc |-> "injecting", id |-> id])
  /\ UNCHANGED <<seen, audit, breaker, environment, posted, openFor>>

MeshAnswered(r, event, status) ==
  /\ Scheduled(r, "injecting")
  /\ audit' = Logged(audit, event, task[r].id, "mesh-gateway")
  /\ Respond(r, status)
  /\ UNCHANGED <<seen, store, breaker, environment, posted, openFor>>

\* The gateway's body is no JSON: the ValueError is no HTTPError, leaves
\* inject_alert and mesh_broadcast, and the request ends in a 500.
MeshGarbled(r) ==
  /\ Scheduled(r, "injecting")
  /\ Respond(r, "error")
  /\ UNCHANGED <<memory, environment, posted, openFor>>

MeshResult(r) == \/ MeshAnswered(r, "DELIVERED", "SENT")
                 \/ MeshAnswered(r, "FAILED", "FAILED")
                 \/ MeshGarbled(r)

----------------------------------------------------------------------------
\* GET /alerts/{id} in a thread: a hit promotes.
ReadCached(id) ==
  /\ store' = Get(store, id)
  /\ UNCHANGED <<seen, audit, breaker, task, answer, environment, posted, openFor>>

Tick ==
  /\ seen' = Older(seen)
  /\ posted' = Older(posted)
  /\ breaker' = Elapse(breaker)
  /\ openFor' = IF breaker.state = "OPEN" /\ openFor < Timeout
                THEN openFor + 1 ELSE openFor
  /\ UNCHANGED <<store, audit, task, answer, environment>>

\* The process dies and is started again with nothing in memory.
Crash ==
  /\ crashes < MaxCrashes
  /\ crashes' = crashes + 1
  /\ seen' = NoMarks /\ store' = <<>> /\ audit' = <<>> /\ breaker' = NewBreaker
  /\ task' = AllIdle /\ answer' = "none"
  /\ posted' = NoMarks /\ openFor' = 0
  /\ UNCHANGED <<ipawsUp, delivered>>

IpawsFailsOrRecovers ==
  /\ ipawsUp' = ~ipawsUp
  /\ UNCHANGED <<memory, task, answer, delivered, crashes, posted, openFor>>

Handle(r) ==
  \/ \E p \in Payloads : Compose(r, p)
  \/ IpawsTakes(r) \/ PostAccepted(r) \/ PostOddlyAnswered(r) \/ PostFails(r)
  \/ \E id \in Ids : MeshRequest(r, id)
  \/ MeshResult(r)

Next ==
  \/ \E r \in Requests : Handle(r)
  \/ \E id \in Ids : ReadCached(id)
  \/ Tick \/ Crash \/ IpawsFailsOrRecovers

Spec == Init /\ [][Next]_vars

(***************************************************************************)
(* Fairness: time passes; submit_cap and the mesh client have timeouts     *)
(* (10 s each), so a POST and an injection end.  ClientsRetry is an        *)
(* assumption on clients: each alert is submitted again and again.         *)
(***************************************************************************)
PostEnds(r) ==
  IpawsTakes(r) \/ PostAccepted(r) \/ PostOddlyAnswered(r) \/ PostFails(r)

RequestsEnd ==
  \A r \in Requests : WF_vars(PostEnds(r)) /\ WF_vars(MeshResult(r))

ClientsRetry ==
  \A p \in Payloads : SF_vars(\E r \in Requests : Compose(r, p))

FairSpec == Spec /\ WF_vars(Tick) /\ RequestsEnd /\ ClientsRetry

----------------------------------------------------------------------------
(***************************************************************************)
(* Properties.                                                             *)
(***************************************************************************)

\* Within one life of the process an alert is not sent to IPAWS twice within
\* the dedup window, however its first submission ended and whatever else was
\* submitted, suppressed or expired in between (dedup_engine.py:54-66,
\* main.py:161-174).
NoRepeatWithinWindow ==
  [][\A r \in Requests :
       task[r].pc # "posting" /\ task'[r].pc = "posting" =>
         posted[Key(task'[r].payload)] \in {Unseen, DedupWindow + 1}]_vars

\* The audit trail reads as a sequence of whole submissions: an INGESTED entry
\* is followed at once by the outcome of that alert's submission, nothing of
\* another request in between, and an outcome follows its INGESTED entry; only
\* the submission in progress may be without outcome (main.py:183-206).
AuditTrailIsSerial ==
  LET outcome(e) == e.to = "ipaws-open" IN
  /\ \A i \in 1 .. Len(audit) - 1 :
       audit[i].event = "INGESTED" =>
         outcome(audit[i + 1]) /\ audit[i + 1].id = audit[i].id
  /\ \A i \in 2 .. Len(audit) :
       outcome(audit[i]) =>
         audit[i - 1].event = "INGESTED" /\ audit[i - 1].id = audit[i].id
  /\ audit # <<>> /\ Last(audit).event = "INGESTED" =>
       \E r \in Requests : /\ task[r].pc = "posting"
                           /\ task[r].payload.id = Last(audit).id

\* In the service the event loop runs one submission at a time, so the open
\* circuit admits a probe exactly when a timeout has passed since it opened
\* (with callers that overlap, a late failure would postpone the probe), and
\* at most one call is in flight (main.py:140-214, circuit_breaker.py:97-110).
ProbesOnTime ==
  /\ breaker.state = "OPEN" => (Admits(breaker) <=> openFor = Timeout)
  /\ Cardinality({r \in Requests : task[r].pc = "posting"}) <= 1

\* A client that keeps submitting a valid alert gets it to IPAWS once IPAWS
\* stays up: neither the dedup mark left by a failed or rejected attempt nor
\* the open circuit blocks it for ever (dedup_engine.py:79-84,
\* circuit_breaker.py:107-110).
RetriedAlertsGetThrough ==
  <>[]ipawsUp => \A p \in Payloads : p.valid => <>(Key(p) \in delivered)

\* What dedup_engine.py:3 says the engine is for, "prevents duplicate alert
\* delivery": a suppressed alert is one that was delivered.  The key is marked
\* before the submission and stays marked when that fails.
SuppressedWasDelivered ==
  [][\A r \in Requests, p \in Payloads :
       Suppress(r, p) => Key(p) \in delivered]_vars

=============================================================================

---------------------------- MODULE AlertRouter ----------------------------
(***************************************************************************)
(* AlertRouter (modules/routing/router.py) with the two clients it guards, *)
(* RapidAlertClient and MeshBridgeClient: one circuit breaker per channel, *)
(* and any number of dispatch coroutines that share them.  A coroutine     *)
(* runs without interruption from one await to the next, so an action is   *)
(* what happens between two awaits: a channel whose breaker refuses costs  *)
(* no await and is passed over in the same action.                         *)
(*                                                                         *)
(* What decides whether a call counts as a failure is which exceptions     *)
(* leave the client.  Both clients catch httpx.HTTPError (refused          *)
(* connections, timeouts, 4xx, 5xx) and return normally; only an answer    *)
(* that is not a JSON object raises.                                       *)
(***************************************************************************)
EXTENDS BreakerOps

CONSTANTS Slots,          \* coroutines that may be dispatching at one time
          Alerts,         \* records [public : BOOLEAN, severity : 0 .. 4]
          MeshThreshold   \* SEVERITY_PRIORITY[mesh_severity_threshold]

VARIABLES clients,   \* the channels whose client (_rapid, _mesh) is not None
          breakers,  \* _rapid_breaker and _mesh_breaker
          token,     \* RapidAlertClient._token
          jobs,      \* the dispatch in each slot
          service,   \* health of each service (environment)
          openFor    \* history: ticks since each circuit opened, up to Timeout

vars == <<clients, breakers, token, jobs, service, openFor>>

Channel == {"rapid", "mesh"}
Outcome == {"none", "dispatched", "skipped", "errors"}

\* "lost": HTTPError, whether or not the request was processed.
\* "odd": a 2xx answer whose body is not the JSON object expected.
Health == {"up", "lost", "odd"}

\* "stale" has expired at the platform; the client cannot tell.
Token == {"none", "good", "stale"}

\* A job: its decision, its await, the token it sends, its result so far, and
\* which services processed it (environment).
Job == [pc : {"idle", "auth", "post", "mesh", "done"},
        wants : [Channel -> BOOLEAN],
        bearer : Token,
        outcome : [Channel -> Outcome],
        taken : [Channel -> BOOLEAN]]

TypeOK ==
  /\ clients \in SUBSET Channel
  /\ breakers \in [Channel -> Breaker]
  /\ token \in Token
  /\ jobs \in [Slots -> Job]
  /\ service \in [Channel -> Health]
  /\ openFor \in [Channel -> 0 .. Timeout]

\* decide
Decide(a) ==
  [ch \in Channel |-> CASE ch = "rapid" -> a.public /\ a.severity > 0
                        [] ch = "mesh"  -> a.severity >= MeshThreshold]

NewJob(wants) ==
  [pc |-> "idle", wants |-> wants, bearer |-> "none",
   outcome |-> [ch \in Channel |-> "none"], taken |-> [ch \in Channel |-> FALSE]]

\* A client may be missing (main.py:74: no mesh gateway configured).
Init ==
  /\ clients \in SUBSET Channel
  /\ breakers = [ch \in Channel |-> NewBreaker]
  /\ token = "none"
  /\ jobs = [d \in Slots |-> NewJob([ch \in Channel |-> FALSE])]
  /\ service = [ch \in Channel |-> "up"]
  /\ openFor = [ch \in Channel |-> 0]

----------------------------------------------------------------------------
(***************************************************************************)
(* dispatch and _guarded.  j is a job and b the breakers as a step has     *)
(* left them so far; the step ends in the next await, or in the result.    *)
(***************************************************************************)
Becomes(d, j, b) ==
  /\ jobs' = [jobs EXCEPT ![d] = j]
  /\ breakers' = b
  /\ openFor' = [ch \in Channel |->
                   IF b[ch].state = breakers[ch].state THEN openFor[ch] ELSE 0]
  /\ UNCHANGED clients

\* A channel decided on without a client is passed over, and leaves no trace in
\* the result.
Sends(j, ch) == j.wants[ch] /\ ch \in clients

ToMesh(d, j, b) ==
  \/ /\ ~Sends(j, "mesh")
     /\ Becomes(d, [j EXCEPT !.pc = "done"], b)
  \/ /\ Sends(j, "mesh") /\ ~Admits(b["mesh"])
     /\ Becomes(d, [j EXCEPT !.pc = "done", !.outcome["mesh"] = "skipped"], b)
  \/ /\ Sends(j, "mesh") /\ Admits(b["mesh"])
     /\ Becomes(d, [j EXCEPT !.pc = "mesh"], [b EXCEPT !["mesh"] = Admit(@)])

\* A new dispatch, up to its first await.
Begin(d, a) ==
  /\ jobs[d].pc \in {"idle", "done"}
  /\ LET j == NewJob(Decide(a))
         b == breakers["rapid"] IN
     \/ /\ ~Sends(j, "rapid")
        /\ ToMesh(d, j, breakers)
     \/ /\ Sends(j, "rapid") /\ ~Admits(b)
        /\ ToMesh(d, [j EXCEPT !.outcome["rapid"] = "skipped"], breakers)
     \/ /\ Sends(j, "rapid") /\ Admits(b)
        /\ Becomes(d, [j EXCEPT !.pc = IF token = "none" THEN "auth" ELSE "post",
                                !.bearer = token],
                   [breakers EXCEPT !["rapid"] = Admit(@)])
  /\ UNCHANGED <<token, service>>

\* Mutant: a failure of the first channel ends the whole dispatch.
RapidEndsTheDispatch(d, outcome, taken, b) ==
  LET j == [jobs[d] EXCEPT !.outcome["rapid"] = outcome, !.taken["rapid"] = taken] IN
  IF outcome = "errors" THEN Becomes(d, [j EXCEPT !.pc = "done"], b)
                        ELSE ToMesh(d, j, b)

\* The rapid channel has its outcome; the mesh channel follows at once.
RapidEnds(d, outcome, taken, b) ==
  ToMesh(d, [jobs[d] EXCEPT !.outcome["rapid"] = outcome, !.taken["rapid"] = taken], b)

----------------------------------------------------------------------------
(***************************************************************************)
(* RapidAlertClient.                                                       *)
(***************************************************************************)
Authenticating(d) == jobs[d].pc = "auth" /\ UNCHANGED service

GoOnWith(d, t) ==
  /\ token' = t
  /\ Becomes(d, [jobs[d] EXCEPT !.pc = "post", !.bearer = t], breakers)

Authenticated(d) == Authenticating(d) /\ service["rapid"] = "up" /\ GoOnWith(d, "good")

\* HTTPError: the dispatch goes on without a token.  The client's token is
\* dropped, the one another dispatch obtained meanwhile included.
AuthFails(d) == Authenticating(d) /\ service["rapid"] = "lost" /\ GoOnWith(d, "none")

\* A JSON object with no token in it.
AuthEmpty(d) == Authenticating(d) /\ service["rapid"] = "odd" /\ GoOnWith(d, "none")

\* resp.json() or .get raises, and the exception leaves the client.
AuthGarbled(d) ==
  /\ Authenticating(d) /\ service["rapid"] = "odd"
  /\ RapidEnds(d, "errors", FALSE, [breakers EXCEPT !["rapid"] = OnFailure(@)])
  /\ UNCHANGED token

\* The post returns normally whatever comes back: 2xx, an error status
\* (401 without a good token), or no answer.
RapidAnswered(d) ==
  /\ jobs[d].pc = "post"
  /\ \E taken \in CASE service["rapid"] = "up" -> {jobs[d].bearer = "good"}
                    [] OTHER                   -> BOOLEAN :
       RapidEnds(d, "dispatched", taken, [breakers EXCEPT !["rapid"] = OnSuccess(@)])
  /\ UNCHANGED <<token, service>>

----------------------------------------------------------------------------
(***************************************************************************)
(* MeshBridgeClient.inject_alert.                                          *)
(***************************************************************************)
MeshEnds(d, outcome, taken, b) ==
  /\ jobs[d].pc = "mesh"
  /\ Becomes(d, [jobs[d] EXCEPT !.pc = "done", !.outcome["mesh"] = outcome,
                                !.taken["mesh"] = taken],
             [breakers EXCEPT !["mesh"] = b])
  /\ UNCHANGED <<token, service>>

MeshSent(d) ==
  /\ service["mesh"] = "up"
  /\ MeshEnds(d, "dispatched", TRUE, OnSuccess(breakers["mesh"]))

\* HTTPError: inject_alert returns a result with status FAILED.
MeshFailed(d) ==
  /\ service["mesh"] = "lost"
  /\ \E taken \in BOOLEAN : MeshEnds(d, "dispatched", taken, OnSuccess(breakers["mesh"]))

\* resp.json() or .get raises after a 2xx answer.
MeshGarbled(d) ==
  /\ service["mesh"] = "odd"
  /\ \E taken \in BOOLEAN : MeshEnds(d, "errors", taken, OnFailure(breakers["mesh"]))

----------------------------------------------------------------------------
Tick ==
  /\ breakers' = [ch \in Channel |-> Elapse(breakers[ch])]
  /\ openFor' = [ch \in Channel |->
                   IF breakers[ch].state = "OPEN" /\ openFor[ch] < Timeout
                   THEN openFor[ch] + 1 ELSE openFor[ch]]
  /\ UNCHANGED <<clients, token, jobs, service>>

\* The environment.
TokenExpires ==
  /\ token = "good" /\ token' = "stale"
  /\ jobs' = [d \in Slots |-> [jobs[d] EXCEPT !.bearer = IF @ = "good" THEN "stale" ELSE @]]
  /\ UNCHANGED <<clients, breakers, service, openFor>>

ServiceChanges ==
  /\ \E ch \in Channel : \E h \in Health \ {service[ch]} :
       service' = [service EXCEPT ![ch] = h]
  /\ UNCHANGED <<clients, breakers, token, jobs, openFor>>

Awaited(d) ==
  \/ Authenticated(d) \/ AuthFails(d) \/ AuthEmpty(d) \/ AuthGarbled(d)
  \/ RapidAnswered(d) \/ MeshSent(d) \/ MeshFailed(d) \/ MeshGarbled(d)

Next ==
  \/ \E d \in Slots : Awaited(d) \/ \E a \in Alerts : Begin(d, a)
  \/ Tick \/ TokenExpires \/ ServiceChanges

Spec == Init /\ [][Next]_vars

(***************************************************************************)
(* Fairness.  Time passes; every request ends within the client's timeout  *)
(* (8 or 10 s).  SteadyLoad is an assumption on the load and not on the    *)
(* code: every kind of alert keeps arriving.                               *)
(***************************************************************************)
RequestsEnd == \A d \in Slots : WF_vars(Awaited(d))
SteadyLoad  == \A d \in Slots, a \in Alerts : SF_vars(Begin(d, a))

FairSpec == Spec /\ WF_vars(Tick) /\ RequestsEnd /\ SteadyLoad

----------------------------------------------------------------------------
(***************************************************************************)
(* Properties.                                                             *)
(***************************************************************************)

\* A failure of one channel does not lose the other: a dispatch that returns
\* has an outcome for each channel decided on that has a client, and for no
\* other (router.py:79-122); what it reports as skipped, or not at all, was not
\* sent to the service by this dispatch.
EveryChannelAnswered ==
  \A d \in Slots : jobs[d].pc = "done" =>
    \A ch \in Channel :
      /\ Sends(jobs[d], ch) <=> jobs[d].outcome[ch] # "none"
      /\ jobs[d].taken[ch] => jobs[d].outcome[ch] \in {"dispatched", "errors"}

\* The contract's run of equal outcomes is the counter the state looks at.
OutcomesInARow(b) ==
  CASE b.state = "CLOSED"    -> b.failureCount
    [] b.state = "OPEN"      -> 0
    [] b.state = "HALF_OPEN" -> b.successCount

\* Both breakers keep the promises of BreakerContract, however the dispatches
\* that share them overlap and whichever exceptions _guarded absorbs.
RapidContract ==
  INSTANCE BreakerContract WITH
    phase <- breakers["rapid"].state,
    run <- OutcomesInARow(breakers["rapid"]),
    openFor <- openFor["rapid"]

MeshContract ==
  INSTANCE BreakerContract WITH
    phase <- breakers["mesh"].state,
    run <- OutcomesInARow(breakers["mesh"]),
    openFor <- openFor["mesh"]

BreakersKeepContract == RapidContract!Spec /\ MeshContract!Spec

\* What the module's docstring says (router.py:10: every decision is guarded by
\* a circuit breaker so a downstream outage does not take the router down):
\* an outage of the mesh gateway opens its circuit, where it has a client.
OutageOpensMeshCircuit ==
  "mesh" \in clients /\ <>[](service["mesh"] = "lost") => []<>(breakers["mesh"].state # "CLOSED")

=============================================================================

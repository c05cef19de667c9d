------------------------------ MODULE Webhooks ------------------------------
(***************************************************************************)
(* The webhook registry and dispatcher of modules/api/webhooks.py.         *)
(* POST and DELETE /webhooks are synchronous handlers: they run in         *)
(* threadpool threads and touch the registry with no lock, so a            *)
(* registration is two steps, the test of the limit and the insertion.     *)
(* dispatch runs on the event loop: it walks the registry in a list        *)
(* comprehension (threads may run between any two steps of it), then       *)
(* delivers to all targets concurrently, each with retries.                *)
(*                                                                         *)
(* The registry is a dict, and what a walk meets depends on how CPython    *)
(* lays it out (the image is python:3.11): entries fill a table in order   *)
(* of insertion, a removal leaves a hole, and an insertion that finds the  *)
(* table full rebuilds it without its holes.  The iterator keeps an index  *)
(* into the table: it raises if the dict has another size than at the      *)
(* start, or if it has returned as many entries as there were then and     *)
(* finds another, but a rebuild that moves entries to places it has passed *)
(* goes unnoticed.                                                         *)
(*                                                                         *)
(* Endpoint ids are fresh (uuid4), numbered here in order of insertion.    *)
(* No code ever clears `active`.                                           *)
(***************************************************************************)
EXTENDS Integers, FiniteSets

CONSTANTS Threads,        \* threads serving POST /webhooks
          Dispatches,     \* the dispatch calls that are made
          MaxIds,         \* bound of this model: registrations ever made
          MaxRegistered,  \* MAX_REGISTERED_WEBHOOKS
          MaxAttempts,    \* MAX_RETRY_ATTEMPTS
          Subscribers,    \* ids whose events include the one dispatched
          BadUrls         \* ids whose URL makes httpx raise no HTTPError

ASSUME ThreadsAssumption == IsFiniteSet(Threads)    \* a thread pool
ASSUME MaxIdsAssumption == MaxIds \in Nat
ASSUME MaxRegisteredAssumption == MaxRegistered \in Nat \ {0}
ASSUME MaxAttemptsAssumption == MaxAttempts \in Nat \ {0}

VARIABLES endpoints,   \* keys of _endpoints
          place,       \* each key's place in the dict's table, 0 if it has none
          filled,      \* places of the table that are or were occupied
          lastId,      \* ids 1..lastId have been inserted
          checked,     \* threads that passed the limit test
          successes,   \* success_count of each endpoint
          failures,    \* failure_count of each endpoint
          dispatch,    \* where each dispatch call stands
          delivery,    \* where each delivery of a dispatch stands
          received,    \* copies each endpoint processed (environment)
          stable,      \* history: endpoints registered all through the walk
          overtaken    \* history: dispatches with an endpoint moved behind their walk

registry == <<endpoints, place, filled, lastId, checked>>
counters == <<successes, failures>>
history == <<stable, overtaken>>
vars == <<endpoints, place, filled, lastId, checked, successes, failures,
          dispatch, delivery, received, stable, overtaken>>

Ids == 1 .. MaxIds

\* A dispatch in its walk is a dict iterator: the size at the start (di_used),
\* the place visited last (di_pos) and how many entries are left (di_len).
Dispatch == [pc : {"new", "walking", "delivering", "returned", "raised"},
             size : 0 .. MaxIds, last : 0 .. MaxIds, left : 0 .. MaxIds,
             targets : SUBSET Ids]

Ended == {"ok", "failed", "crashed"}
Delivery == [st : {"none", "posting", "sleeping"} \cup Ended, attempt : 0 .. MaxAttempts]

TypeOK ==
  /\ endpoints \subseteq Ids /\ lastId \in 0 .. MaxIds
  /\ place \in [Ids -> 0 .. MaxIds] /\ filled \in 0 .. MaxIds
  /\ checked \subseteq Threads
  /\ successes \in [Ids -> Nat] /\ failures \in [Ids -> Nat]
  /\ dispatch \in [Dispatches -> Dispatch]
  /\ delivery \in [Dispatches -> [Ids -> Delivery]]
  /\ received \in [Dispatches -> [Ids -> 0 .. MaxAttempts]]
  /\ stable \in [Dispatches -> SUBSET Ids]
  /\ overtaken \subseteq Dispatches

NoDelivery == [st |-> "none", attempt |-> 0]

Init ==
  /\ endpoints = {} /\ lastId = 0 /\ checked = {}
  /\ place = [i \in Ids |-> 0] /\ filled = 0
  /\ successes = [i \in Ids |-> 0] /\ failures = [i \in Ids |-> 0]
  /\ dispatch = [d \in Dispatches |->
                   [pc |-> "new", size |-> 0, last |-> 0, left |-> 0, targets |-> {}]]
  /\ delivery = [d \in Dispatches |-> [i \in Ids |-> NoDelivery]]
  /\ received = [d \in Dispatches |-> [i \in Ids |-> 0]]
  /\ stable = [d \in Dispatches |-> {}]
  /\ overtaken = {}

----------------------------------------------------------------------------
(***************************************************************************)
(* The registry, from threads.                                             *)
(***************************************************************************)
\* Mutant: one endpoint more than the limit.
CheckLimitLate(t) ==
  /\ t \notin checked
  /\ Cardinality(endpoints) <= MaxRegistered
  /\ checked' = checked \cup {t}
  /\ UNCHANGED <<endpoints, place, filled, lastId, counters, dispatch, delivery,
                 received, history>>

\* register: the test of the limit.  A full registry answers 400.
CheckLimit(t) ==
  /\ t \notin checked
  /\ Cardinality(endpoints) < MaxRegistered
  /\ checked' = checked \cup {t}
  /\ UNCHANGED <<endpoints, place, filled, lastId, counters, dispatch, delivery,
                 received, history>>

\* The new entry takes the next place of the table.
Appended(i) ==
  /\ place' = [place EXCEPT ![i] = filled + 1]
  /\ filled' = filled + 1
  /\ UNCHANGED overtaken

\* The table was full: it is rebuilt without its holes.  When it is full
\* depends on all insertions and removals since it was last rebuilt, so that
\* this may happen at any insertion.
Rebuilt ==
  /\ place' = [i \in Ids |-> IF i \in endpoints'
                             THEN Cardinality({j \in endpoints' : j <= i}) ELSE 0]
  /\ filled' = Cardinality(endpoints')
  /\ overtaken' = overtaken \cup
       {d \in Dispatches :
          /\ dispatch[d].pc = "walking"
          /\ \E i \in endpoints : place'[i] <= dispatch[d].last /\ dispatch[d].last < place[i]}

\* register: the insertion.
Insert(t) ==
  /\ t \in checked /\ lastId < MaxIds
  /\ checked' = checked \ {t}
  /\ lastId' = lastId + 1
  /\ endpoints' = endpoints \cup {lastId'}
  /\ Appended(lastId') \/ Rebuilt
  /\ UNCHANGED <<counters, dispatch, delivery, received, stable>>

\* deregister; deliveries under way go on.
Deregister(i) ==
  /\ i \in endpoints
  /\ endpoints' = endpoints \ {i}
  /\ place' = [place EXCEPT ![i] = 0]
  /\ stable' = [d \in Dispatches |->
                  IF dispatch[d].pc = "walking" THEN stable[d] \ {i} ELSE stable[d]]
  /\ UNCHANGED <<filled, lastId, checked, counters, dispatch, delivery, received,
                 overtaken>>

----------------------------------------------------------------------------
(***************************************************************************)
(* dispatch, on the event loop.                                            *)
(***************************************************************************)
StartWalk(d) ==
  /\ dispatch[d].pc = "new"
  /\ dispatch' = [dispatch EXCEPT ![d].pc = "walking", ![d].size = Cardinality(endpoints),
                                 ![d].left = Cardinality(endpoints)]
  /\ stable' = [stable EXCEPT ![d] = endpoints]
  /\ UNCHANGED <<registry, counters, delivery, received, overtaken>>

Ahead(d) == {i \in endpoints : place[i] > dispatch[d].last}

\* "dictionary changed size during iteration", or "dictionary keys changed
\* during iteration": dispatch raises.
WalkRaises(d) ==
  /\ dispatch[d].pc = "walking"
  /\ \/ Cardinality(endpoints) # dispatch[d].size
     \/ Ahead(d) # {} /\ dispatch[d].left = 0
  /\ dispatch' = [dispatch EXCEPT ![d] =
                    [pc |-> "raised", size |-> 0, last |-> 0, left |-> 0, targets |-> {}]]
  /\ UNCHANGED <<registry, counters, delivery, received, history>>

\* Mutant: the walk takes the newest endpoint first and stops there.
WalkSkips(d) ==
  /\ dispatch[d].pc = "walking" /\ Cardinality(endpoints) = dispatch[d].size
  /\ dispatch[d].left > 0
  /\ \E i \in Ahead(d) :
       /\ \A j \in Ahead(d) : place[i] >= place[j]
       /\ dispatch' = [dispatch EXCEPT
                         ![d].last = place[i], ![d].left = @ - 1,
                         ![d].targets = @ \cup ({i} \cap Subscribers)]
  /\ UNCHANGED <<registry, counters, delivery, received, history>>

\* The next entry of the table that is no hole.
Walk(d) ==
  /\ dispatch[d].pc = "walking" /\ Cardinality(endpoints) = dispatch[d].size
  /\ dispatch[d].left > 0
  /\ \E i \in Ahead(d) :
       /\ \A j \in Ahead(d) : place[i] <= place[j]
       /\ dispatch' = [dispatch EXCEPT
                         ![d].last = place[i], ![d].left = @ - 1,
                         ![d].targets = @ \cup ({i} \cap Subscribers)]
  /\ UNCHANGED <<registry, counters, delivery, received, history>>

\* The walk is over: gather starts every delivery.
StartDeliveries(d) ==
  /\ dispatch[d].pc = "walking" /\ Cardinality(endpoints) = dispatch[d].size
  /\ Ahead(d) = {}
  /\ dispatch' = [dispatch EXCEPT ![d].pc = "delivering",
                                 ![d].size = 0, ![d].last = 0, ![d].left = 0]
  /\ delivery' = [delivery EXCEPT
                    ![d] = [i \in Ids |-> IF i \in dispatch[d].targets
                                          THEN [st |-> "posting", attempt |-> 1]
                                          ELSE NoDelivery]]
  /\ UNCHANGED <<registry, counters, received, history>>

\* Mutant: the results are awaited until all of them are successes.
ReturnWhenAllSucceeded(d) ==
  /\ dispatch[d].pc = "delivering"
  /\ \A i \in dispatch[d].targets : delivery[d][i].st = "ok"
  /\ dispatch' = [dispatch EXCEPT ![d].pc = "returned"]
  /\ UNCHANGED <<registry, counters, delivery, received, history>>

\* gather returns when every delivery has a result.
Return(d) ==
  /\ dispatch[d].pc = "delivering"
  /\ \A i \in dispatch[d].targets : delivery[d][i].st \in {"ok", "failed"}
  /\ dispatch' = [dispatch EXCEPT ![d].pc = "returned"]
  /\ UNCHANGED <<registry, counters, delivery, received, history>>

----------------------------------------------------------------------------
(***************************************************************************)
(* _deliver, one coroutine per target.                                     *)
(***************************************************************************)
Posting(d, i) == delivery[d][i].st = "posting" /\ i \notin BadUrls

\* The endpoint processes the event; its answer may still be lost.
Reach(d, i) == received' = [received EXCEPT ![d][i] = @ + 1]

\* A 2xx answer.
DeliverOk(d, i) ==
  /\ Posting(d, i)
  /\ Reach(d, i)
  /\ delivery' = [delivery EXCEPT ![d][i].st = "ok"]
  /\ successes' = [successes EXCEPT ![i] = @ + 1]
  /\ UNCHANGED <<registry, failures, dispatch, history>>

\* Mutant: every failed attempt counts as a failed delivery.
GiveUpOrSleepCountsAttempts(d, i) ==
  /\ delivery' = [delivery EXCEPT
                    ![d][i].st = IF delivery[d][i].attempt < MaxAttempts
                                 THEN "sleeping" ELSE "failed"]
  /\ failures' = [failures EXCEPT ![i] = @ + 1]

\* Mutant: one attempt too many.
GiveUpOrSleepLate(d, i) ==
  IF delivery[d][i].attempt <= MaxAttempts
  THEN /\ delivery' = [delivery EXCEPT ![d][i].st = "sleeping"]
       /\ UNCHANGED failures
  ELSE /\ delivery' = [delivery EXCEPT ![d][i].st = "failed"]
       /\ failures' = [failures EXCEPT ![i] = @ + 1]

\* Mutant: the last attempt is never made.
GiveUpOrSleepEarly(d, i) ==
  IF delivery[d][i].attempt + 1 < MaxAttempts
  THEN /\ delivery' = [delivery EXCEPT ![d][i].st = "sleeping"]
       /\ UNCHANGED failures
  ELSE /\ delivery' = [delivery EXCEPT ![d][i].st = "failed"]
       /\ failures' = [failures EXCEPT ![i] = @ + 1]

GiveUpOrSleep(d, i) ==
  IF delivery[d][i].attempt < MaxAttempts
  THEN /\ delivery' = [delivery EXCEPT ![d][i].st = "sleeping"]
       /\ UNCHANGED failures
  ELSE /\ delivery' = [delivery EXCEPT ![d][i].st = "failed"]
       /\ failures' = [failures EXCEPT ![i] = @ + 1]

\* No 2xx answer: another status, an error or a timeout, with or without the
\* endpoint having processed the event.
DeliverFails(d, i) ==
  /\ Posting(d, i)
  /\ Reach(d, i) \/ UNCHANGED received
  /\ GiveUpOrSleep(d, i)
  /\ UNCHANGED <<registry, successes, dispatch, history>>

\* The backoff is over.
Retry(d, i) ==
  /\ delivery[d][i].st = "sleeping"
  /\ delivery' = [delivery EXCEPT ![d][i] =
                    [st |-> "posting", attempt |-> delivery[d][i].attempt + 1]]
  /\ UNCHANGED <<registry, counters, dispatch, received, history>>

\* An exception other than HTTPError leaves _deliver: gather passes it on at
\* once, dispatch raises, and the other deliveries go on with no one to take
\* their results.
DeliverCrashes(d, i) ==
  /\ delivery[d][i].st = "posting" /\ i \in BadUrls
  /\ delivery' = [delivery EXCEPT ![d][i].st = "crashed"]
  /\ dispatch' = [dispatch EXCEPT ![d].pc = "raised"]
  /\ UNCHANGED <<registry, counters, received, history>>

Next ==
  \/ \E t \in Threads : CheckLimit(t) \/ Insert(t)
  \/ \E i \in Ids : Deregister(i)
  \/ \E d \in Dispatches :
       \/ StartWalk(d) \/ WalkRaises(d) \/ Walk(d) \/ StartDeliveries(d) \/ Return(d)
       \/ \E i \in Ids : \/ DeliverOk(d, i) \/ DeliverFails(d, i)
                         \/ Retry(d, i) \/ DeliverCrashes(d, i)

Spec == Init /\ [][Next]_vars

\* The event loop runs every ready coroutine, and a POST ends within the
\* client's timeout (5 s).
DispatchRuns(d) ==
  /\ WF_vars(WalkRaises(d) \/ Walk(d) \/ StartDeliveries(d) \/ Return(d))
  /\ \A i \in Ids :
       WF_vars(DeliverOk(d, i) \/ DeliverFails(d, i) \/ Retry(d, i) \/ DeliverCrashes(d, i))

FairSpec == Spec /\ \A d \in Dispatches : DispatchRuns(d)

----------------------------------------------------------------------------
(***************************************************************************)
(* Properties.                                                             *)
(***************************************************************************)

\* Threads that test the limit together exceed it, but by no more than the
\* others that were between their test and their insertion: requests one after
\* another never do (webhooks.py:66-69).
RegistryNearLimit ==
  Cardinality(endpoints) + Cardinality(checked) < MaxRegistered + Cardinality(Threads)

\* An endpoint's counters are the results of all deliveries to it, each
\* counted once however dispatches overlap (webhooks.py:100-115).
CountersMatchResults ==
  \A i \in Ids :
    LET ended(st) == Cardinality({d \in Dispatches : delivery[d][i].st = st}) IN
    successes[i] = ended("ok") /\ failures[i] = ended("failed")

\* What a result says is so: a delivery reported as done was processed by the
\* endpoint, one given up on was tried MaxAttempts times, and none was
\* processed more often than it was tried (webhooks.py:96-120).
ResultsAreHonest ==
  \A d \in Dispatches, i \in Ids :
    LET v == delivery[d][i] IN
    /\ v.st = "ok" => received[d][i] >= 1
    /\ v.st = "failed" => v.attempt = MaxAttempts
    /\ received[d][i] <= v.attempt

\* A dispatch that returns has a result for every subscriber that was
\* registered from the start to the end of the walk, whatever threads
\* registered and deregistered meanwhile (webhooks.py:77-79), unless one of
\* their insertions rebuilt the dict's table and moved an endpoint behind the
\* walk: the iterator passes over that one without a word.
ReturnCoversStable ==
  \A d \in Dispatches :
    dispatch[d].pc = "returned" /\ d \notin overtaken =>
      \A i \in stable[d] \cap Subscribers : delivery[d][i].st \in {"ok", "failed"}

\* Every dispatch ends (webhooks.py:75-120).
DispatchesEnd ==
  \A d \in Dispatches :
    dispatch[d].pc = "walking" ~> dispatch[d].pc \in {"returned", "raised"}

\* What dispatch's docstring says (webhooks.py:76): the event goes to all
\* registered endpoints that subscribe to it.  A registration in a thread
\* makes the walk raise, and nobody is notified.
AllSubscribersNotified ==
  \A d \in Dispatches :
    dispatch[d].pc \in {"returned", "raised"} =>
      \A i \in stable[d] \cap Subscribers : delivery[d][i].st # "none"

=============================================================================

--------------------------- MODULE WebhooksProofs ---------------------------
(***************************************************************************)
(* The webhook registry and dispatcher, for any thread pool, any dispatch  *)
(* calls (which may be infinitely many), all limits and numbers of         *)
(* attempts, and any sets of subscribers and of bad URLs.                  *)
(***************************************************************************)
EXTENDS Webhooks, FiniteSetTheorems, TLAPS

USE ThreadsAssumption, MaxIdsAssumption, MaxRegisteredAssumption,
    MaxAttemptsAssumption

----------------------------------------------------------------------------
(***************************************************************************)
(* The invariant.  The places of the dict's table are in the order of the  *)
(* ids.  A delivery exists only for a target, from the end of the walk on; *)
(* it has been processed less often than it was tried as long as a try is  *)
(* under way.  A walk that nothing was moved behind has taken every stable *)
(* subscriber up to the place it visited last, and the deliveries are to   *)
(* all of them.                                                            *)
(***************************************************************************)
TableOK ==
  /\ endpoints \subseteq 1 .. lastId /\ filled <= lastId
  /\ \A i \in endpoints : place[i] \in 1 .. filled
  /\ \A i, j \in endpoints : i < j => place[i] < place[j]

DeliveryOK(v, copies) ==
  /\ v.st = "none" => v.attempt = 0 /\ copies = 0
  /\ v.st # "none" => v.attempt >= 1
  /\ v.st = "posting" => copies < v.attempt
  /\ v.st = "sleeping" => v.attempt < MaxAttempts
  /\ v.st = "failed" => v.attempt = MaxAttempts
  /\ v.st = "ok" => copies >= 1
  /\ copies <= v.attempt

NotStarted(d) == \A i \in Ids : delivery[d][i].st = "none"

\* w is where the dispatch d stands.
DispatchOK(d, w) ==
  /\ w.pc = "new" => w.last = 0
  /\ w.pc \in {"new", "walking"} => NotStarted(d)
  /\ \A i \in Ids \ w.targets : delivery[d][i].st = "none"
  /\ w.pc = "walking" =>
       /\ stable[d] \subseteq endpoints
       /\ d \notin overtaken =>
            \A i \in stable[d] \cap Subscribers : place[i] <= w.last => i \in w.targets
  /\ w.pc \in {"delivering", "returned"} /\ d \notin overtaken =>
       stable[d] \cap Subscribers \subseteq w.targets
  /\ w.pc = "returned" => \A i \in w.targets : delivery[d][i].st \in {"ok", "failed"}

\* The dispatches that have started: finitely many at any time.
Started == {d \in Dispatches : dispatch[d].pc # "new"}

Sound ==
  /\ TypeOK /\ TableOK
  /\ IsFiniteSet(Started)
  /\ \A d \in Dispatches : DispatchOK(d, dispatch[d])
  /\ \A d \in Dispatches, i \in Ids : DeliveryOK(delivery[d][i], received[d][i])

IInv == Sound /\ RegistryNearLimit /\ CountersMatchResults

----------------------------------------------------------------------------
(***************************************************************************)
(* The operators of the module.                                            *)
(***************************************************************************)

\* How many numbers there are up to n.
LEMMA UptoFinite ==
  ASSUME NEW n \in Nat
  PROVE  IsFiniteSet(1 .. n) /\ Cardinality(1 .. n) <= n
<1>1. 1 \in Int /\ n \in Int
    OBVIOUS
<1>2. QED BY <1>1, FS_Interval

\* The registry, and every part of it, is finite and within its bound.
LEMMA IdsFinite ==
  ASSUME NEW S \in SUBSET Ids
  PROVE  IsFiniteSet(S) /\ Cardinality(S) \in 0 .. MaxIds
<1>1. IsFiniteSet(1 .. MaxIds) /\ Cardinality(1 .. MaxIds) <= MaxIds
    BY UptoFinite
<1>2. IsFiniteSet(S) /\ Cardinality(S) <= Cardinality(1 .. MaxIds)
    BY <1>1, FS_Subset DEF Ids
<1>3. Cardinality(S) \in Nat /\ Cardinality(1 .. MaxIds) \in Nat
    BY <1>1, <1>2, FS_CardinalityType
<1>4. QED BY <1>1, <1>2, <1>3

\* Where one dispatch stands changes.
Goes(d, w) == dispatch' = [dispatch EXCEPT ![d] = w]

LEMMA GoesSound ==
  ASSUME Sound, NEW d \in Dispatches, NEW w \in Dispatch, Goes(d, w), w.pc # "new"
  PROVE  /\ dispatch' \in [Dispatches -> Dispatch]
         /\ dispatch'[d] = w
         /\ \A e \in Dispatches \ {d} : dispatch'[e] = dispatch[e]
         /\ IsFiniteSet(Started)'
<1>1. /\ dispatch' \in [Dispatches -> Dispatch]
      /\ dispatch'[d] = w
      /\ \A e \in Dispatches \ {d} : dispatch'[e] = dispatch[e]
    BY DEF Sound, TypeOK, Goes
<1>2. Started' = Started \cup {d}
    BY <1>1 DEF Started
<1>3. IsFiniteSet(Started \cup {d})
    BY FS_AddElement DEF Sound
<1>4. QED BY <1>1, <1>2, <1>3

\* One delivery of one dispatch changes.
Turns(d, i, v) == delivery' = [delivery EXCEPT ![d][i] = v]

LEMMA TurnsOne ==
  ASSUME Sound, NEW d \in Dispatches, NEW i \in Ids, NEW v \in Delivery, Turns(d, i, v)
  PROVE  /\ delivery' \in [Dispatches -> [Ids -> Delivery]]
         /\ delivery'[d][i] = v
         /\ \A e \in Dispatches, j \in Ids :
              e # d \/ j # i => delivery'[e][j] = delivery[e][j]
<1>1. delivery \in [Dispatches -> [Ids -> Delivery]]
    BY DEF Sound, TypeOK
<1>2. QED BY <1>1 DEF Turns

----------------------------------------------------------------------------
(***************************************************************************)
(* Steps of _deliver.                                                      *)
(***************************************************************************)

\* A step of a delivery keeps what it has to keep, and no other delivery,
\* walk or registration notices.
LEMMA TurnsSound ==
  ASSUME Sound, NEW d \in Dispatches, NEW i \in Ids, NEW v \in Delivery,
         NEW n \in 0 .. MaxAttempts,
         delivery[d][i].st \in {"posting", "sleeping"}, v.st # "none",
         Turns(d, i, v), received' = [received EXCEPT ![d][i] = n],
         DeliveryOK(v, n),
         \/ dispatch' = dispatch
         \/ Goes(d, [dispatch[d] EXCEPT !.pc = "raised"]),
         UNCHANGED registry, UNCHANGED history,
         successes' \in [Ids -> Nat], failures' \in [Ids -> Nat]
  PROVE  Sound'
<1>1. /\ dispatch \in [Dispatches -> Dispatch]
      /\ received \in [Dispatches -> [Ids -> 0 .. MaxAttempts]]
      /\ delivery \in [Dispatches -> [Ids -> Delivery]]
      /\ endpoints' = endpoints /\ lastId' = lastId /\ checked' = checked
      /\ place' = place /\ filled' = filled
      /\ stable' = stable /\ overtaken' = overtaken
    BY DEF Sound, TypeOK, registry, history
<1>2. /\ delivery' \in [Dispatches -> [Ids -> Delivery]]
      /\ delivery'[d][i] = v
      /\ \A e \in Dispatches, j \in Ids :
           e # d \/ j # i => delivery'[e][j] = delivery[e][j]
    BY TurnsOne
<1>3. /\ received' \in [Dispatches -> [Ids -> 0 .. MaxAttempts]]
      /\ received'[d][i] = n
      /\ \A e \in Dispatches, j \in Ids :
           e # d \/ j # i => received'[e][j] = received[e][j]
    BY <1>1
<1>4. /\ dispatch[d].pc \notin {"new", "walking", "returned"}
      /\ i \in dispatch[d].targets
    BY DEF Sound, DispatchOK, NotStarted
<1>5. PICK w \in Dispatch : /\ w = dispatch[d] \/ w = [dispatch[d] EXCEPT !.pc = "raised"]
                            /\ Goes(d, w)
  <2>1. dispatch[d] \in Dispatch /\ [dispatch[d] EXCEPT !.pc = "raised"] \in Dispatch
    <3>1. \A x \in Dispatch : [x EXCEPT !.pc = "raised"] \in Dispatch
        BY DEF Dispatch
    <3>2. QED BY <1>1, <3>1
  <2>2. dispatch' = dispatch => Goes(d, dispatch[d])
      BY <1>1 DEF Goes
  <2>3. QED BY <2>1, <2>2
<1>6. /\ w.targets = dispatch[d].targets
      /\ w.pc = dispatch[d].pc \/ w.pc = "raised"
      /\ w.pc \notin {"new", "walking", "returned"}
    BY <1>1, <1>4, <1>5 DEF Dispatch
<1>7. /\ dispatch' \in [Dispatches -> Dispatch] /\ dispatch'[d] = w
      /\ \A e \in Dispatches \ {d} : dispatch'[e] = dispatch[e]
      /\ IsFiniteSet(Started)'
    BY <1>5, <1>6, GoesSound
<1>8. TypeOK' /\ TableOK'
    BY <1>1, <1>2, <1>3, <1>7 DEF Sound, TypeOK, TableOK
<1>9. \A e \in Dispatches : DispatchOK(e, dispatch[e])'
  <2> SUFFICES ASSUME NEW e \in Dispatches PROVE DispatchOK(e, dispatch[e])'
      OBVIOUS
  <2>1. DispatchOK(e, dispatch[e])
      BY DEF Sound
  <2>2. CASE e # d
      BY <1>1, <1>2, <1>7, <2>1, <2>2 DEF DispatchOK, NotStarted
  <2>3. CASE e = d
    <3>1. \A j \in Ids \ w.targets : delivery'[d][j].st = "none"
        BY <1>2, <1>4, <1>6, <2>1, <2>3 DEF DispatchOK
    <3>2. w.pc = "delivering" /\ d \notin overtaken =>
            stable[d] \cap Subscribers \subseteq w.targets
        BY <1>4, <1>6, <2>1, <2>3 DEF DispatchOK
    <3>3. QED BY <1>1, <1>6, <1>7, <2>3, <3>1, <3>2 DEF DispatchOK
  <2>4. QED BY <2>2, <2>3
<1>10. \A e \in Dispatches, j \in Ids : DeliveryOK(delivery[e][j], received[e][j])'
  <2> SUFFICES ASSUME NEW e \in Dispatches, NEW j \in Ids
               PROVE  DeliveryOK(delivery'[e][j], received'[e][j])
      BY DEF DeliveryOK
  <2>1. CASE e = d /\ j = i
      BY <1>2, <1>3, <2>1
  <2>2. CASE e # d \/ j # i
      BY <1>2, <1>3, <2>2 DEF Sound
  <2>3. QED BY <2>1, <2>2
<1>11. QED BY <1>7, <1>8, <1>9, <1>10 DEF Sound

\* The endpoint's counters follow the result of a delivery.
EndedAs(i, st) == {d \in Dispatches : delivery[d][i].st = st}

\* What a delivery that has ended with v adds to a counter.
Counts(v, st) == IF v.st = st THEN 1 ELSE 0

LEMMA EndedAsGrows ==
  ASSUME Sound, NEW d \in Dispatches, NEW i \in Ids, NEW v \in Delivery,
         delivery[d][i].st \in {"posting", "sleeping"}, Turns(d, i, v),
         NEW st \in {"ok", "failed"}
  PROVE  /\ Cardinality(EndedAs(i, st))' = Cardinality(EndedAs(i, st)) + Counts(v, st)
         /\ \A j \in Ids \ {i} : EndedAs(j, st)' = EndedAs(j, st)
<1>1. /\ delivery'[d][i] = v
      /\ \A e \in Dispatches, j \in Ids :
           e # d \/ j # i => delivery'[e][j] = delivery[e][j]
    BY TurnsOne
<1>2. \A j \in Ids \ {i} : EndedAs(j, st)' = EndedAs(j, st)
    BY <1>1 DEF EndedAs
<1>3. IsFiniteSet(EndedAs(i, st)) /\ d \notin EndedAs(i, st)
  <2>1. EndedAs(i, st) \subseteq Started
      BY DEF EndedAs, Started, Sound, DispatchOK, NotStarted
  <2>2. QED BY <2>1, FS_Subset DEF Sound, EndedAs
<1>4. Cardinality(EndedAs(i, st)) \in Nat
    BY <1>3, FS_CardinalityType
<1>5. CASE v.st = st
  <2>1. EndedAs(i, st)' = EndedAs(i, st) \cup {d}
      BY <1>1, <1>5 DEF EndedAs
  <2>2. Cardinality(EndedAs(i, st) \cup {d}) = Cardinality(EndedAs(i, st)) + 1
      BY <1>3, FS_AddElement
  <2>3. QED BY <1>2, <1>5, <2>1, <2>2 DEF Counts
<1>6. CASE v.st # st
  <2>1. EndedAs(i, st)' = EndedAs(i, st)
      BY <1>1, <1>6 DEF EndedAs
  <2>2. QED BY <1>2, <1>4, <1>6, <2>1 DEF Counts
<1>7. QED BY <1>5, <1>6

\* CountersMatchResults in terms of EndedAs.
LEMMA Counters ==
  CountersMatchResults <=>
    \A j \in Ids : /\ successes[j] = Cardinality(EndedAs(j, "ok"))
                   /\ failures[j] = Cardinality(EndedAs(j, "failed"))
  BY DEF CountersMatchResults, EndedAs

LEMMA TurnsCounted ==
  ASSUME Sound, CountersMatchResults,
         NEW d \in Dispatches, NEW i \in Ids, NEW v \in Delivery,
         delivery[d][i].st \in {"posting", "sleeping"}, Turns(d, i, v),
         successes' = [successes EXCEPT ![i] = @ + Counts(v, "ok")],
         failures' = [failures EXCEPT ![i] = @ + Counts(v, "failed")]
  PROVE  /\ CountersMatchResults'
         /\ successes' \in [Ids -> Nat] /\ failures' \in [Ids -> Nat]
<1>1. /\ successes \in [Ids -> Nat] /\ failures \in [Ids -> Nat]
      /\ Counts(v, "ok") \in Nat /\ Counts(v, "failed") \in Nat
    BY DEF Sound, TypeOK, Counts
<1>2. /\ Cardinality(EndedAs(i, "ok"))' = Cardinality(EndedAs(i, "ok")) + Counts(v, "ok")
      /\ Cardinality(EndedAs(i, "failed"))' =
           Cardinality(EndedAs(i, "failed")) + Counts(v, "failed")
      /\ \A j \in Ids \ {i} : /\ EndedAs(j, "ok")' = EndedAs(j, "ok")
                              /\ EndedAs(j, "failed")' = EndedAs(j, "failed")
    BY EndedAsGrows
<1>3. \A j \in Ids : /\ successes[j] = Cardinality(EndedAs(j, "ok"))
                     /\ failures[j] = Cardinality(EndedAs(j, "failed"))
    BY Counters
<1>4. /\ successes'[i] = Cardinality(EndedAs(i, "ok"))'
      /\ failures'[i] = Cardinality(EndedAs(i, "failed"))'
    BY <1>1, <1>2, <1>3
<1>5. \A j \in Ids \ {i} : /\ successes'[j] = Cardinality(EndedAs(j, "ok"))'
                           /\ failures'[j] = Cardinality(EndedAs(j, "failed"))'
    BY <1>1, <1>2, <1>3
<1>6. CountersMatchResults'
  <2>1. \A j \in Ids : /\ successes'[j] = Cardinality(EndedAs(j, "ok"))'
                       /\ failures'[j] = Cardinality(EndedAs(j, "failed"))'
      BY <1>4, <1>5
  <2>2. QED BY <2>1 DEF CountersMatchResults, EndedAs
<1>7. QED BY <1>1, <1>6

LEMMA CountersStay ==
  CountersMatchResults /\ UNCHANGED <<counters, delivery>> => CountersMatchResults'
  BY Zenon DEF CountersMatchResults, counters

\* The registry is as it was.
LEMMA RegistryStays == RegistryNearLimit /\ UNCHANGED registry => RegistryNearLimit'
  BY DEF RegistryNearLimit, registry

\* A try is made: a copy may reach the endpoint, whatever the answer.
LEMMA DeliverOkIInv ==
  ASSUME IInv, NEW d \in Dispatches, NEW i \in Ids, DeliverOk(d, i)
  PROVE  IInv'
<1>1. PICK o \in Delivery : o = delivery[d][i]
    BY DEF IInv, Sound, TypeOK
<1>2. PICK n \in 0 .. MaxAttempts : n = received[d][i]
    BY DEF IInv, Sound, TypeOK
<1>3. DeliveryOK(o, n) /\ o.st = "posting"
    BY <1>1, <1>2 DEF IInv, Sound, DeliverOk, Posting
<1>4. PICK v \in Delivery : v.st = "ok" /\ v.attempt = o.attempt /\ v = [o EXCEPT !.st = "ok"]
    BY DEF Delivery, Ended
<1>5. /\ received \in [Dispatches -> [Ids -> 0 .. MaxAttempts]]
      /\ delivery \in [Dispatches -> [Ids -> Delivery]]
      /\ successes \in [Ids -> Nat] /\ failures \in [Ids -> Nat]
    BY DEF IInv, Sound, TypeOK
<1>6. Turns(d, i, v)
    BY <1>1, <1>4, <1>5 DEF DeliverOk, Turns
<1>7. n + 1 \in 0 .. MaxAttempts /\ received' = [received EXCEPT ![d][i] = n + 1]
  <2>1. n < o.attempt /\ o.attempt \in 0 .. MaxAttempts
      BY <1>3 DEF DeliveryOK, Delivery
  <2>2. QED BY <1>2, <1>5, <2>1 DEF DeliverOk, Reach
<1>8. DeliveryOK(v, n + 1)
    BY <1>3, <1>4 DEF DeliveryOK, Delivery
<1>9. /\ successes' = [successes EXCEPT ![i] = @ + Counts(v, "ok")]
      /\ failures' = [failures EXCEPT ![i] = @ + Counts(v, "failed")]
      /\ dispatch' = dispatch
      /\ UNCHANGED registry /\ UNCHANGED history
    BY <1>4, <1>5 DEF DeliverOk, Counts
<1>10. /\ CountersMatchResults'
       /\ successes' \in [Ids -> Nat] /\ failures' \in [Ids -> Nat]
    BY <1>1, <1>3, <1>6, <1>9, TurnsCounted DEF IInv
<1>11. Sound'
    BY <1>1, <1>3, <1>4, <1>6, <1>7, <1>8, <1>9, <1>10, TurnsSound DEF IInv
<1>12. QED BY <1>9, <1>10, <1>11, RegistryStays DEF IInv

LEMMA DeliverFailsIInv ==
  ASSUME IInv, NEW d \in Dispatches, NEW i \in Ids, DeliverFails(d, i)
  PROVE  IInv'
<1>1. PICK o \in Delivery : o = delivery[d][i]
    BY DEF IInv, Sound, TypeOK
<1>2. PICK n \in 0 .. MaxAttempts : n = received[d][i]
    BY DEF IInv, Sound, TypeOK
<1>3. /\ DeliveryOK(o, n) /\ o.st = "posting"
      /\ n < o.attempt /\ o.attempt \in 1 .. MaxAttempts
    BY <1>1, <1>2 DEF IInv, Sound, DeliverFails, Posting, DeliveryOK, Delivery
<1>4. PICK v \in Delivery :
        /\ v.st = IF o.attempt < MaxAttempts THEN "sleeping" ELSE "failed"
        /\ v.attempt = o.attempt
        /\ v = [o EXCEPT !.st = v.st]
  <2>1. \A st \in Ended \cup {"sleeping"} :
          /\ [o EXCEPT !.st = st] \in Delivery
          /\ [o EXCEPT !.st = st].st = st /\ [o EXCEPT !.st = st].attempt = o.attempt
      BY DEF Delivery, Ended
  <2> DEFINE st == IF o.attempt < MaxAttempts THEN "sleeping" ELSE "failed"
  <2>2. st \in Ended \cup {"sleeping"}
      BY DEF Ended
  <2> HIDE DEF st
  <2>3. st = IF o.attempt < MaxAttempts THEN "sleeping" ELSE "failed"
      BY DEF st
  <2>4. QED BY <2>1, <2>2, <2>3
<1>5. /\ received \in [Dispatches -> [Ids -> 0 .. MaxAttempts]]
      /\ delivery \in [Dispatches -> [Ids -> Delivery]]
      /\ successes \in [Ids -> Nat] /\ failures \in [Ids -> Nat]
    BY DEF IInv, Sound, TypeOK
<1>6. /\ Turns(d, i, v)
      /\ failures' = [failures EXCEPT ![i] = @ + Counts(v, "failed")]
  <2>1. GiveUpOrSleep(d, i)
      BY DEF DeliverFails
  <2>2. CASE o.attempt < MaxAttempts
    <3>1. delivery' = [delivery EXCEPT ![d][i].st = "sleeping"] /\ failures' = failures
        BY <1>1, <2>1, <2>2 DEF GiveUpOrSleep
    <3>2. v = [o EXCEPT !.st = "sleeping"] /\ Counts(v, "failed") = 0
        BY <1>4, <2>2 DEF Counts
    <3>3. failures' = [failures EXCEPT ![i] = @ + Counts(v, "failed")]
        BY <1>5, <3>1, <3>2
    <3>4. QED BY <1>1, <1>5, <3>1, <3>2, <3>3 DEF Turns
  <2>3. CASE ~(o.attempt < MaxAttempts)
    <3>1. /\ delivery' = [delivery EXCEPT ![d][i].st = "failed"]
          /\ failures' = [failures EXCEPT ![i] = @ + 1]
        BY <1>1, <2>1, <2>3 DEF GiveUpOrSleep
    <3>2. v = [o EXCEPT !.st = "failed"] /\ Counts(v, "failed") = 1
        BY <1>4, <2>3 DEF Counts
    <3>3. QED BY <1>1, <1>5, <3>1, <3>2 DEF Turns
  <2>4. QED BY <2>2, <2>3
<1>7. PICK m \in 0 .. MaxAttempts :
        m \in {n, n + 1} /\ received' = [received EXCEPT ![d][i] = m]
  <2>1. CASE Reach(d, i)
    <3>1. n + 1 \in 0 .. MaxAttempts
        BY <1>3
    <3>2. received' = [received EXCEPT ![d][i] = n + 1]
        BY <1>2, <1>5, <2>1 DEF Reach
    <3>3. QED BY <3>1, <3>2
  <2>2. CASE UNCHANGED received
      BY <1>2, <1>5, <2>2
  <2>3. QED BY <2>1, <2>2 DEF DeliverFails
<1>8. DeliveryOK(v, m)
    BY <1>3, <1>4, <1>7 DEF DeliveryOK
<1>9. /\ successes' = [successes EXCEPT ![i] = @ + Counts(v, "ok")]
      /\ dispatch' = dispatch
      /\ UNCHANGED registry /\ UNCHANGED history
    BY <1>4, <1>5 DEF DeliverFails, Counts
<1>10. /\ CountersMatchResults'
       /\ successes' \in [Ids -> Nat] /\ failures' \in [Ids -> Nat]
    BY <1>1, <1>3, <1>6, <1>9, TurnsCounted DEF IInv
<1>11. v.st # "none"
    BY <1>4
<1>12. Sound'
    BY <1>1, <1>3, <1>6, <1>7, <1>8, <1>9, <1>10, <1>11, TurnsSound DEF IInv
<1>13. QED BY <1>9, <1>10, <1>12, RegistryStays DEF IInv

\* The steps of a delivery without a try: its next try starts, or it crashes.
LEMMA QuietTurnIInv ==
  ASSUME IInv, NEW d \in Dispatches, NEW i \in Ids, Retry(d, i) \/ DeliverCrashes(d, i)
  PROVE  IInv'
<1>1. PICK o \in Delivery : o = delivery[d][i]
    BY DEF IInv, Sound, TypeOK
<1>2. PICK n \in 0 .. MaxAttempts : n = received[d][i]
    BY DEF IInv, Sound, TypeOK
<1>3. DeliveryOK(o, n)
    BY <1>1, <1>2 DEF IInv, Sound
<1>4. /\ received \in [Dispatches -> [Ids -> 0 .. MaxAttempts]]
      /\ delivery \in [Dispatches -> [Ids -> Delivery]]
      /\ dispatch \in [Dispatches -> Dispatch]
      /\ successes \in [Ids -> Nat] /\ failures \in [Ids -> Nat]
    BY DEF IInv, Sound, TypeOK
<1>5. PICK v \in Delivery :
        /\ o.st \in {"posting", "sleeping"} /\ v.st \in {"posting", "crashed"}
        /\ DeliveryOK(v, n) /\ Turns(d, i, v)
  <2>1. CASE Retry(d, i)
    <3> DEFINE v == [st |-> "posting", attempt |-> o.attempt + 1]
    <3>1. o.st = "sleeping" /\ Turns(d, i, v)
        BY <1>1, <2>1 DEF Retry, Turns
    <3>2. v \in Delivery /\ DeliveryOK(v, n)
        BY <1>3, <3>1 DEF DeliveryOK, Delivery
    <3>3. QED BY <3>1, <3>2
  <2>2. CASE DeliverCrashes(d, i)
    <3> DEFINE v == [o EXCEPT !.st = "crashed"]
    <3>1. o.st = "posting" /\ Turns(d, i, v)
        BY <1>1, <1>4, <2>2 DEF DeliverCrashes, Turns
    <3>2. v \in Delivery /\ DeliveryOK(v, n) /\ v.st = "crashed"
        BY <1>3, <3>1 DEF DeliveryOK, Delivery, Ended
    <3>3. QED BY <3>1, <3>2
  <2>3. QED BY <2>1, <2>2
<1>6. /\ successes' = [successes EXCEPT ![i] = @ + Counts(v, "ok")]
      /\ failures' = [failures EXCEPT ![i] = @ + Counts(v, "failed")]
      /\ received' = [received EXCEPT ![d][i] = n]
      /\ UNCHANGED registry /\ UNCHANGED history
    BY <1>2, <1>4, <1>5 DEF Retry, DeliverCrashes, counters, Counts
<1>7. \/ dispatch' = dispatch
      \/ Goes(d, [dispatch[d] EXCEPT !.pc = "raised"])
    BY <1>4 DEF Retry, DeliverCrashes, Goes
<1>8. /\ CountersMatchResults'
      /\ successes' \in [Ids -> Nat] /\ failures' \in [Ids -> Nat]
    BY <1>1, <1>5, <1>6, TurnsCounted DEF IInv
<1>9. Sound'
    BY <1>1, <1>5, <1>6, <1>7, <1>8, TurnsSound DEF IInv
<1>10. QED BY <1>6, <1>8, <1>9, RegistryStays DEF IInv

----------------------------------------------------------------------------
(***************************************************************************)
(* Steps of dispatch.                                                      *)
(***************************************************************************)

\* A step of dispatch that touches no delivery.
LEMMA GoesIInv ==
  ASSUME IInv, NEW d \in Dispatches, NEW w \in Dispatch, Goes(d, w), w.pc # "new",
         DispatchOK(d, w)',
         stable' \in [Dispatches -> SUBSET Ids],
         \A e \in Dispatches \ {d} : stable'[e] = stable[e],
         UNCHANGED <<registry, counters, delivery, received, overtaken>>
  PROVE  IInv'
<1>1. /\ dispatch' \in [Dispatches -> Dispatch]
      /\ dispatch'[d] = w
      /\ \A e \in Dispatches \ {d} : dispatch'[e] = dispatch[e]
      /\ IsFiniteSet(Started)'
    BY GoesSound DEF IInv
<1>2. /\ endpoints' = endpoints /\ lastId' = lastId /\ checked' = checked
      /\ successes' = successes /\ failures' = failures
      /\ delivery' = delivery /\ received' = received
      /\ place' = place /\ filled' = filled /\ overtaken' = overtaken
    BY DEF registry, counters
<1>3. TypeOK' /\ TableOK'
    BY <1>1, <1>2 DEF IInv, Sound, TypeOK, TableOK
<1>4. \A e \in Dispatches : DispatchOK(e, dispatch[e])'
  <2> SUFFICES ASSUME NEW e \in Dispatches PROVE DispatchOK(e, dispatch[e])'
      OBVIOUS
  <2>1. CASE e = d
      BY <1>1, <2>1 DEF DispatchOK, NotStarted
  <2>2. CASE e # d
    <3>1. DispatchOK(e, dispatch[e])
        BY DEF IInv, Sound
    <3>2. QED BY <1>1, <1>2, <2>2, <3>1 DEF DispatchOK, NotStarted
  <2>3. QED BY <2>1, <2>2
<1>5. \A e \in Dispatches, j \in Ids : DeliveryOK(delivery[e][j], received[e][j])'
    BY <1>2 DEF IInv, Sound
<1>6. RegistryNearLimit' /\ CountersMatchResults'
    BY <1>2, RegistryStays, CountersStay DEF IInv, counters
<1>7. QED BY <1>1, <1>3, <1>4, <1>5, <1>6 DEF IInv, Sound

LEMMA StartWalkIInv ==
  ASSUME IInv, NEW d \in Dispatches, StartWalk(d)
  PROVE  IInv'
<1>1. PICK o \in Dispatch : o = dispatch[d]
    BY DEF IInv, Sound, TypeOK
<1>2. /\ endpoints \in SUBSET Ids /\ stable \in [Dispatches -> SUBSET Ids]
      /\ dispatch \in [Dispatches -> Dispatch]
    BY DEF IInv, Sound, TypeOK
<1>3. DispatchOK(d, o) /\ o.pc = "new"
    BY <1>1 DEF IInv, Sound, StartWalk
<1>4. PICK n \in 0 .. MaxIds : n = Cardinality(endpoints)
    BY <1>2, IdsFinite
<1> DEFINE w == [o EXCEPT !.pc = "walking", !.size = n, !.left = n]
<1>5. w \in Dispatch /\ w.pc = "walking" /\ w.last = 0 /\ w.targets = o.targets
    BY <1>3, <1>4 DEF Dispatch, DispatchOK
<1>6. Goes(d, w)
    BY <1>1, <1>2, <1>4 DEF StartWalk, Goes
<1> HIDE DEF w
<1>7. /\ stable' \in [Dispatches -> SUBSET Ids] /\ stable'[d] = endpoints
      /\ \A e \in Dispatches \ {d} : stable'[e] = stable[e]
      /\ endpoints' = endpoints /\ place' = place /\ delivery' = delivery
      /\ UNCHANGED <<registry, counters, delivery, received, overtaken>>
    BY <1>2 DEF StartWalk, registry
<1>8. \A i \in endpoints : ~(place[i] <= 0)
  <2>1. \A i \in endpoints : place[i] \in 1 .. filled
      BY DEF IInv, Sound, TableOK
  <2>2. filled \in Nat
      BY DEF IInv, Sound, TypeOK
  <2>3. QED BY <2>1, <2>2
<1>9. DispatchOK(d, w)'
    BY <1>3, <1>5, <1>7, <1>8 DEF DispatchOK, NotStarted
<1>10. QED BY <1>5, <1>6, <1>7, <1>9, GoesIInv

LEMMA WalkRaisesIInv ==
  ASSUME IInv, NEW d \in Dispatches, WalkRaises(d)
  PROVE  IInv'
<1> DEFINE w == [pc |-> "raised", size |-> 0, last |-> 0, left |-> 0, targets |-> {}]
<1>1. w \in Dispatch /\ Goes(d, w) /\ w.pc = "raised" /\ w.targets = {}
    BY DEF Dispatch, WalkRaises, Goes
<1> HIDE DEF w
<1>2. NotStarted(d)
    BY DEF IInv, Sound, DispatchOK, WalkRaises
<1>3. /\ stable' = stable /\ delivery' = delivery
      /\ stable \in [Dispatches -> SUBSET Ids]
      /\ UNCHANGED <<registry, counters, delivery, received, overtaken>>
    BY DEF WalkRaises, history, IInv, Sound, TypeOK
<1>4. DispatchOK(d, w)'
    BY <1>1, <1>2, <1>3 DEF DispatchOK, NotStarted
<1>5. QED BY <1>1, <1>3, <1>4, GoesIInv

LEMMA WalkIInv ==
  ASSUME IInv, NEW d \in Dispatches, Walk(d)
  PROVE  IInv'
<1>1. PICK o \in Dispatch : o = dispatch[d]
    BY DEF IInv, Sound, TypeOK
<1>2. /\ endpoints \in SUBSET Ids /\ stable \in [Dispatches -> SUBSET Ids]
      /\ dispatch \in [Dispatches -> Dispatch]
    BY DEF IInv, Sound, TypeOK
<1>3. DispatchOK(d, o) /\ o.pc = "walking"
    BY <1>1 DEF IInv, Sound, Walk
<1>4. PICK i \in Ahead(d) :
        /\ \A j \in Ahead(d) : place[i] <= place[j]
        /\ dispatch' = [dispatch EXCEPT ![d].last = place[i], ![d].left = @ - 1,
                                        ![d].targets = @ \cup ({i} \cap Subscribers)]
    BY DEF Walk
<1>5. /\ i \in endpoints /\ i \in Ids
      /\ \A j \in endpoints : j \in Nat /\ place[j] \in Nat /\ place[j] \in 0 .. MaxIds
      /\ \A j, k \in endpoints : j < k => place[j] < place[k]
    BY <1>2, <1>4 DEF Ahead, IInv, Sound, TypeOK, TableOK, Ids
<1> PICK p \in 0 .. MaxIds : p = place[i]
    BY <1>5
<1> DEFINE w == [o EXCEPT !.last = p, !.left = o.left - 1,
                          !.targets = o.targets \cup ({i} \cap Subscribers)]
<1>6. /\ w \in Dispatch /\ w.pc = "walking" /\ w.last = p
      /\ w.targets = o.targets \cup ({i} \cap Subscribers)
  <2>1. o.left - 1 \in 0 .. MaxIds
      BY <1>1 DEF Walk, Dispatch
  <2>2. o.targets \cup ({i} \cap Subscribers) \in SUBSET Ids
      BY <1>5 DEF Dispatch
  <2>3. QED BY <1>3, <2>1, <2>2 DEF Dispatch
<1>7. Goes(d, w)
    BY <1>1, <1>2, <1>4 DEF Goes
<1> HIDE DEF w
<1>8. /\ stable' = stable /\ endpoints' = endpoints /\ delivery' = delivery
      /\ place' = place /\ overtaken' = overtaken
      /\ UNCHANGED <<registry, counters, delivery, received, overtaken>>
    BY DEF Walk, registry, history
<1>9. ASSUME d \notin overtaken, NEW j \in stable[d] \cap Subscribers, place[j] <= p
      PROVE  j \in w.targets
  <2>1. j \in endpoints /\ o.last \in Nat /\ place[j] \in Nat /\ place[i] \in Nat
      BY <1>3, <1>5 DEF DispatchOK, Dispatch
  <2>2. CASE place[j] <= o.last
      BY <1>3, <1>6, <1>9, <2>2 DEF DispatchOK
  <2>3. CASE place[j] > o.last
    <3>1. j \in Ahead(d)
        BY <1>1, <2>1, <2>3 DEF Ahead
    <3>2. place[i] <= place[j]
        BY <1>4, <3>1
    <3>3. ~(i < j) /\ ~(j < i)
        BY <1>5, <1>9, <2>1, <3>2
    <3>4. j = i
        BY <1>5, <2>1, <3>3
    <3>5. QED BY <1>6, <1>9, <3>4
  <2>4. QED BY <2>1, <2>2, <2>3
<1>10. DispatchOK(d, w)'
    BY <1>3, <1>6, <1>8, <1>9 DEF DispatchOK, NotStarted
<1>11. QED BY <1>2, <1>6, <1>7, <1>8, <1>10, GoesIInv

LEMMA ReturnIInv ==
  ASSUME IInv, NEW d \in Dispatches, Return(d)
  PROVE  IInv'
<1>1. PICK o \in Dispatch : o = dispatch[d]
    BY DEF IInv, Sound, TypeOK
<1>2. /\ stable \in [Dispatches -> SUBSET Ids]
      /\ dispatch \in [Dispatches -> Dispatch]
    BY DEF IInv, Sound, TypeOK
<1>3. DispatchOK(d, o) /\ o.pc = "delivering"
    BY <1>1 DEF IInv, Sound, Return
<1> DEFINE w == [o EXCEPT !.pc = "returned"]
<1>4. /\ w \in Dispatch /\ w.pc = "returned" /\ w.targets = o.targets
    BY DEF Dispatch
<1>5. Goes(d, w)
    BY <1>1, <1>2 DEF Return, Goes
<1> HIDE DEF w
<1>6. /\ stable' = stable /\ delivery' = delivery /\ overtaken' = overtaken
      /\ UNCHANGED <<registry, counters, delivery, received, overtaken>>
    BY DEF Return, history
<1>7. \A i \in o.targets : delivery[d][i].st \in {"ok", "failed"}
    BY <1>1 DEF Return
<1>8. DispatchOK(d, w)'
    BY <1>3, <1>4, <1>6, <1>7 DEF DispatchOK, NotStarted
<1>9. QED BY <1>2, <1>4, <1>5, <1>6, <1>8, GoesIInv

\* The walk ends: gather starts a delivery for every target.
LEMMA StartDeliveriesIInv ==
  ASSUME IInv, NEW d \in Dispatches, StartDeliveries(d)
  PROVE  IInv'
<1>1. PICK o \in Dispatch : o = dispatch[d]
    BY DEF IInv, Sound, TypeOK
<1>2. /\ endpoints \in SUBSET Ids /\ stable \in [Dispatches -> SUBSET Ids]
      /\ dispatch \in [Dispatches -> Dispatch]
      /\ delivery \in [Dispatches -> [Ids -> Delivery]]
      /\ received \in [Dispatches -> [Ids -> 0 .. MaxAttempts]]
    BY DEF IInv, Sound, TypeOK
<1>3. DispatchOK(d, o) /\ o.pc = "walking"
    BY <1>1 DEF IInv, Sound, StartDeliveries
<1>4. ASSUME d \notin overtaken, NEW j \in stable[d] \cap Subscribers
      PROVE  j \in o.targets
  <2>1. j \in endpoints /\ place[j] \in Int /\ o.last \in Int
      BY <1>2, <1>3 DEF DispatchOK, Dispatch, IInv, Sound, TypeOK
  <2>2. ~(place[j] > o.last)
      BY <1>1, <2>1 DEF StartDeliveries, Ahead
  <2>3. place[j] <= o.last
      BY <2>1, <2>2
  <2>4. QED BY <1>3, <1>4, <2>3 DEF DispatchOK
<1> DEFINE w == [o EXCEPT !.pc = "delivering", !.size = 0, !.last = 0, !.left = 0]
           First == [st |-> "posting", attempt |-> 1]
           made == [i \in Ids |-> IF i \in o.targets THEN First ELSE NoDelivery]
<1>5. w \in Dispatch /\ w.pc = "delivering" /\ w.targets = o.targets
  <2>1. 0 \in 0 .. MaxIds
      OBVIOUS
  <2>2. QED BY <2>1 DEF Dispatch
<1>6. Goes(d, w)
    BY <1>1, <1>2 DEF StartDeliveries, Goes
<1>7. First \in Delivery /\ NoDelivery \in Delivery
    BY DEF Delivery, NoDelivery
<1>8. made \in [Ids -> Delivery]
    BY <1>7
<1>9. delivery' = [delivery EXCEPT ![d] = made]
    BY <1>1, <1>2 DEF StartDeliveries
<1>10. /\ \A i \in o.targets : made[i] = First
       /\ \A i \in Ids \ o.targets : made[i] = NoDelivery
       /\ \A i \in Ids : made[i].st \in {"posting", "none"}
    BY DEF NoDelivery, Dispatch
<1>11. /\ \A i \in o.targets : DeliveryOK(made[i], 0)
       /\ \A i \in Ids \ o.targets : DeliveryOK(made[i], 0) /\ made[i].st = "none"
    BY <1>10 DEF DeliveryOK, NoDelivery
<1> HIDE DEF w, First, made
<1>12. /\ delivery' \in [Dispatches -> [Ids -> Delivery]]
       /\ delivery'[d] = made
       /\ \A e \in Dispatches \ {d} : delivery'[e] = delivery[e]
    BY <1>2, <1>8, <1>9
<1>13. /\ dispatch' \in [Dispatches -> Dispatch] /\ dispatch'[d] = w
       /\ \A e \in Dispatches \ {d} : dispatch'[e] = dispatch[e]
       /\ IsFiniteSet(Started)'
    BY <1>5, <1>6, GoesSound DEF IInv
<1>14. /\ endpoints' = endpoints /\ lastId' = lastId /\ checked' = checked
       /\ successes' = successes /\ failures' = failures
       /\ received' = received /\ stable' = stable
       /\ place' = place /\ filled' = filled /\ overtaken' = overtaken
    BY DEF StartDeliveries, registry, counters, history
<1>15. TypeOK' /\ TableOK'
    BY <1>12, <1>13, <1>14 DEF IInv, Sound, TypeOK, TableOK
<1>16. \A e \in Dispatches : DispatchOK(e, dispatch[e])'
  <2> SUFFICES ASSUME NEW e \in Dispatches PROVE DispatchOK(e, dispatch[e])'
      OBVIOUS
  <2>1. CASE e = d
    <3>1. \A i \in Ids \ w.targets : delivery'[d][i].st = "none"
        BY <1>5, <1>11, <1>12
    <3>2. d \notin overtaken' => stable'[d] \cap Subscribers \subseteq w.targets
        BY <1>4, <1>5, <1>14
    <3>3. QED BY <1>5, <1>13, <2>1, <3>1, <3>2 DEF DispatchOK
  <2>2. CASE e # d
    <3>1. DispatchOK(e, dispatch[e])
        BY DEF IInv, Sound
    <3>2. QED BY <1>12, <1>13, <1>14, <2>2, <3>1 DEF DispatchOK, NotStarted
  <2>3. QED BY <2>1, <2>2
<1>17. \A e \in Dispatches, j \in Ids : DeliveryOK(delivery[e][j], received[e][j])'
  <2> SUFFICES ASSUME NEW e \in Dispatches, NEW j \in Ids
               PROVE  DeliveryOK(delivery'[e][j], received'[e][j])
      BY DEF DeliveryOK
  <2>1. CASE e = d
    <3>1. received[d][j] = 0
        BY <1>1, <1>3 DEF IInv, Sound, DispatchOK, NotStarted, DeliveryOK
    <3>2. QED BY <1>11, <1>12, <1>14, <2>1, <3>1
  <2>2. CASE e # d
      BY <1>12, <1>14, <2>2 DEF IInv, Sound
  <2>3. QED BY <2>1, <2>2
<1>18. CountersMatchResults'
  <2>1. \A j \in Ids, st \in {"ok", "failed"} : EndedAs(j, st)' = EndedAs(j, st)
    <3> SUFFICES ASSUME NEW j \in Ids, NEW st \in {"ok", "failed"},
                        NEW e \in Dispatches
                 PROVE  delivery'[e][j].st = st <=> delivery[e][j].st = st
        BY DEF EndedAs
    <3>1. CASE e = d
        BY <1>3, <1>10, <1>12, <3>1 DEF DispatchOK, NotStarted
    <3>2. CASE e # d
        BY <1>12, <3>2
    <3>3. QED BY <3>1, <3>2
  <2>2. \A j \in Ids : /\ successes'[j] = Cardinality(EndedAs(j, "ok")')
                       /\ failures'[j] = Cardinality(EndedAs(j, "failed")')
      BY <1>14, <2>1, Counters DEF IInv
  <2>3. QED BY <2>2 DEF CountersMatchResults, EndedAs
<1>19. RegistryNearLimit'
    BY <1>14 DEF IInv, RegistryNearLimit
<1>20. QED BY <1>13, <1>15, <1>16, <1>17, <1>18, <1>19 DEF IInv, Sound

----------------------------------------------------------------------------
(***************************************************************************)
(* Steps of the registry.                                                  *)
(***************************************************************************)

\* A thread changes the registry: walks may lose what it takes out.
LEMMA AsideSound ==
  ASSUME Sound,
         endpoints' \in SUBSET Ids, lastId' \in 0 .. MaxIds, checked' \subseteq Threads,
         place' \in [Ids -> 0 .. MaxIds], filled' \in 0 .. MaxIds, TableOK',
         stable' \in [Dispatches -> SUBSET Ids],
         overtaken' \subseteq Dispatches, overtaken \subseteq overtaken',
         \A d \in Dispatches :
           IF dispatch[d].pc = "walking"
           THEN /\ stable'[d] \subseteq stable[d] /\ stable'[d] \subseteq endpoints'
                /\ d \notin overtaken' =>
                     \A i \in stable'[d] : place'[i] <= dispatch[d].last =>
                                             place[i] <= dispatch[d].last
           ELSE stable'[d] = stable[d],
         UNCHANGED <<counters, dispatch, delivery, received>>
  PROVE  Sound'
<1>1. /\ successes' = successes /\ failures' = failures
      /\ dispatch' = dispatch /\ delivery' = delivery /\ received' = received
    BY DEF counters
<1>2. TypeOK'
    BY <1>1 DEF Sound, TypeOK
<1>3. IsFiniteSet(Started)'
    BY <1>1 DEF Sound, Started
<1>4. \A d \in Dispatches : DispatchOK(d, dispatch[d])'
  <2> SUFFICES ASSUME NEW d \in Dispatches PROVE DispatchOK(d, dispatch[d])'
      OBVIOUS
  <2>1. DispatchOK(d, dispatch[d])
      BY DEF Sound
  <2>2. CASE dispatch[d].pc = "walking"
    <3>1. stable'[d] \subseteq stable[d] /\ stable'[d] \subseteq endpoints'
        BY <2>2
    <3>2. ASSUME d \notin overtaken', NEW i \in stable'[d] \cap Subscribers,
                 place'[i] <= dispatch[d].last
          PROVE  i \in dispatch[d].targets
      <4>1. d \notin overtaken /\ i \in stable[d] \cap Subscribers
          BY <3>1, <3>2
      <4>2. place[i] <= dispatch[d].last
          BY <2>2, <3>2
      <4>3. QED BY <2>1, <2>2, <4>1, <4>2 DEF DispatchOK
    <3>3. QED BY <1>1, <2>1, <2>2, <3>1, <3>2 DEF DispatchOK, NotStarted
  <2>3. CASE dispatch[d].pc # "walking"
      BY <1>1, <2>1, <2>3 DEF DispatchOK, NotStarted
  <2>4. QED BY <2>2, <2>3
<1>5. \A d \in Dispatches, i \in Ids : DeliveryOK(delivery[d][i], received[d][i])'
    BY <1>1 DEF Sound
<1>6. QED BY <1>2, <1>3, <1>4, <1>5 DEF Sound

\* The registry and the threads between their test and their insertion.
LEMMA RegistryFinite ==
  ASSUME TypeOK
  PROVE  /\ IsFiniteSet(endpoints) /\ Cardinality(endpoints) \in Nat
         /\ IsFiniteSet(checked) /\ Cardinality(checked) \in Nat
         /\ Cardinality(checked) <= Cardinality(Threads)
         /\ Cardinality(Threads) \in Nat
<1>1. IsFiniteSet(endpoints) /\ Cardinality(endpoints) \in Nat
    BY IdsFinite DEF TypeOK
<1>2. IsFiniteSet(checked) /\ Cardinality(checked) <= Cardinality(Threads)
    BY FS_Subset DEF TypeOK
<1>3. QED BY <1>1, <1>2, FS_CardinalityType

LEMMA CheckLimitIInv ==
  ASSUME IInv, NEW t \in Threads, CheckLimit(t)
  PROVE  IInv'
<1>1. /\ endpoints' = endpoints /\ lastId' = lastId /\ checked' = checked \cup {t}
      /\ place' = place /\ filled' = filled
      /\ stable' = stable /\ overtaken' = overtaken
      /\ UNCHANGED <<counters, dispatch, delivery, received>>
      /\ UNCHANGED <<counters, delivery>>
    BY DEF CheckLimit, history
<1>2. TypeOK /\ Sound /\ CountersMatchResults
    BY DEF IInv, Sound
<1>3. Sound'
    BY <1>1, <1>2, AsideSound DEF TypeOK, TableOK, Sound, DispatchOK
<1>4. CountersMatchResults'
    BY <1>1, <1>2, CountersStay
<1>5. /\ Cardinality(endpoints) \in Nat /\ Cardinality(endpoints) < MaxRegistered
      /\ Cardinality(checked') \in Nat /\ Cardinality(Threads) \in Nat
      /\ Cardinality(checked') <= Cardinality(Threads)
  <2>1. TypeOK'
      BY <1>3 DEF Sound
  <2>2. checked' \subseteq Threads
      BY <2>1 DEF TypeOK
  <2>3. IsFiniteSet(checked') /\ Cardinality(checked') <= Cardinality(Threads)
      BY <2>2, FS_Subset
  <2>4. QED BY <1>2, <2>3, RegistryFinite, FS_CardinalityType DEF CheckLimit
<1>6. RegistryNearLimit'
    BY <1>1, <1>5 DEF RegistryNearLimit
<1>7. QED BY <1>3, <1>4, <1>6 DEF IInv

\* A new entry at the end of the table.
LEMMA AppendedTable ==
  ASSUME TypeOK, TableOK, lastId < MaxIds,
         endpoints' = endpoints \cup {lastId + 1}, lastId' = lastId + 1,
         Appended(lastId')
  PROVE  /\ place' \in [Ids -> 0 .. MaxIds] /\ filled' \in 0 .. MaxIds /\ TableOK'
         /\ overtaken' = overtaken /\ \A i \in endpoints : place'[i] = place[i]
<1>1. /\ lastId \in Nat /\ lastId + 1 \in Ids /\ filled \in Nat /\ filled <= lastId
      /\ filled + 1 \in 0 .. MaxIds /\ place \in [Ids -> 0 .. MaxIds]
      /\ endpoints \in SUBSET Ids
      /\ place' = [place EXCEPT ![lastId + 1] = filled + 1] /\ filled' = filled + 1
      /\ overtaken' = overtaken
    BY DEF TypeOK, TableOK, Ids, Appended
<1>2. place' \in [Ids -> 0 .. MaxIds] /\ place'[lastId + 1] = filled + 1
    BY <1>1
<1>3. \A i \in endpoints : i \in Nat /\ i <= lastId /\ place[i] \in 1 .. filled
    BY <1>1 DEF TableOK
<1>4. \A i \in endpoints : place'[i] = place[i]
    BY <1>1, <1>3
<1>5. endpoints' \subseteq 1 .. lastId' /\ filled' <= lastId'
    BY <1>1, <1>3 DEF TableOK
<1>6. \A i \in endpoints' : place'[i] \in 1 .. filled'
    BY <1>1, <1>2, <1>3, <1>4
<1>7. ASSUME NEW i \in endpoints', NEW j \in endpoints', i < j PROVE place'[i] < place'[j]
  <2>1. i \in endpoints
      BY <1>1, <1>3, <1>5, <1>7
  <2>2. CASE j \in endpoints
      BY <1>4, <1>7, <2>1, <2>2 DEF TableOK
  <2>3. CASE j = lastId + 1
    <3>1. place'[i] \in 1 .. filled
        BY <1>3, <1>4, <2>1
    <3>2. QED BY <1>1, <1>2, <2>3, <3>1
  <2>4. QED BY <2>2, <2>3
<1>8. QED BY <1>1, <1>2, <1>4, <1>5, <1>6, <1>7 DEF TableOK

\* The table is rebuilt: a key's place is its rank.
LEMMA RebuiltTable ==
  ASSUME TypeOK, TableOK, lastId < MaxIds,
         endpoints' = endpoints \cup {lastId + 1}, lastId' = lastId + 1,
         Rebuilt
  PROVE  /\ place' \in [Ids -> 0 .. MaxIds] /\ filled' \in 0 .. MaxIds /\ TableOK'
<1> DEFINE Upto(i) == {k \in endpoints' : k <= i}
<1>1. /\ lastId \in Nat /\ endpoints' \in SUBSET Ids /\ endpoints' \subseteq 1 .. lastId'
      /\ lastId' \in Nat
    BY DEF TypeOK, TableOK, Ids
<1>2. /\ place' = [i \in Ids |-> IF i \in endpoints' THEN Cardinality(Upto(i)) ELSE 0]
      /\ filled' = Cardinality(endpoints')
    BY DEF Rebuilt
<1>3. IsFiniteSet(endpoints') /\ filled' \in 0 .. MaxIds /\ filled' \in Nat
    BY <1>1, <1>2, IdsFinite
<1>4. \A i \in Ids : Upto(i) \in SUBSET endpoints'
    OBVIOUS
<1>5. \A i \in Ids : /\ IsFiniteSet(Upto(i)) /\ Cardinality(Upto(i)) \in 0 .. MaxIds
                     /\ Cardinality(Upto(i)) <= filled'
  <2> SUFFICES ASSUME NEW i \in Ids
               PROVE  /\ IsFiniteSet(Upto(i)) /\ Cardinality(Upto(i)) \in 0 .. MaxIds
                      /\ Cardinality(Upto(i)) <= filled'
      OBVIOUS
  <2>1. Upto(i) \in SUBSET Ids /\ Upto(i) \in SUBSET endpoints'
      BY <1>1, <1>4
  <2> HIDE DEF Upto
  <2>2. IsFiniteSet(Upto(i)) /\ Cardinality(Upto(i)) \in 0 .. MaxIds
      BY <2>1, IdsFinite
  <2>3. Cardinality(Upto(i)) <= filled'
      BY <1>2, <1>3, <2>1, FS_Subset
  <2>4. QED BY <2>2, <2>3
<1>6. \A i \in endpoints' : i \in Upto(i) /\ i \in Nat
    BY <1>1
<1>7. ASSUME NEW i \in endpoints', NEW j \in endpoints', i < j
      PROVE  Upto(i) \subseteq Upto(j) /\ j \notin Upto(i)
  <2>1. i \in Nat /\ j \in Nat /\ \A k \in endpoints' : k \in Nat
      BY <1>1
  <2>2. \A k \in endpoints' : k <= i => k <= j
      BY <1>7, <2>1
  <2>3. ~(j <= i)
      BY <1>7, <2>1
  <2>4. QED BY <2>2, <2>3
<1> HIDE DEF Upto
<1>8. place' \in [Ids -> 0 .. MaxIds] /\ \A i \in endpoints' : place'[i] = Cardinality(Upto(i))
    BY <1>1, <1>2, <1>5
<1>9. filled' <= lastId'
  <2>1. IsFiniteSet(1 .. lastId') /\ Cardinality(1 .. lastId') <= lastId'
    <3>1. PICK n \in Nat : n = lastId'
        BY <1>1
    <3>2. IsFiniteSet(1 .. n) /\ Cardinality(1 .. n) <= n
        BY UptoFinite
    <3>3. QED BY <3>1, <3>2
  <2>2. Cardinality(endpoints') <= Cardinality(1 .. lastId')
      BY <1>1, <2>1, FS_Subset
  <2>3. Cardinality(1 .. lastId') \in Nat
      BY <2>1, FS_CardinalityType
  <2>4. QED BY <1>1, <1>2, <1>3, <2>1, <2>2, <2>3
<1>10. ASSUME NEW i \in endpoints' PROVE place'[i] \in 1 .. filled'
  <2>1. i \in Ids
      BY <1>1
  <2>2. Cardinality(Upto(i)) # 0
      BY <1>5, <1>6, <2>1, FS_EmptySet
  <2>3. QED BY <1>3, <1>5, <1>8, <2>1, <2>2
<1>11. ASSUME NEW i \in endpoints', NEW j \in endpoints', i < j PROVE place'[i] < place'[j]
  <2>1. i \in Ids /\ j \in Ids
      BY <1>1
  <2>2. /\ Upto(i) \in SUBSET Upto(j) /\ Upto(i) # Upto(j)
        /\ IsFiniteSet(Upto(j))
      BY <1>5, <1>6, <1>7, <1>11, <2>1
  <2>3. Cardinality(Upto(i)) < Cardinality(Upto(j))
      BY <1>5, <2>1, <2>2, FS_Subset
  <2>4. QED BY <1>8, <2>3
<1>12. QED BY <1>1, <1>3, <1>8, <1>9, <1>10, <1>11 DEF TableOK

LEMMA InsertIInv ==
  ASSUME IInv, NEW t \in Threads, Insert(t)
  PROVE  IInv'
<1>1. /\ endpoints' = endpoints \cup {lastId + 1} /\ lastId' = lastId + 1
      /\ checked' = checked \ {t} /\ t \in checked /\ lastId < MaxIds
      /\ stable' = stable
      /\ UNCHANGED <<counters, dispatch, delivery, received>>
      /\ UNCHANGED <<counters, delivery>>
      /\ Appended(lastId') \/ Rebuilt
    BY DEF Insert
<1>2. TypeOK /\ TableOK /\ Sound /\ CountersMatchResults /\ RegistryNearLimit
    BY DEF IInv, Sound
<1>3. lastId + 1 \in Ids /\ lastId' \in 0 .. MaxIds
    BY <1>1, <1>2 DEF TypeOK, Ids
<1>4. endpoints' \in SUBSET Ids /\ endpoints \subseteq endpoints' /\ checked' \subseteq Threads
    BY <1>1, <1>2, <1>3 DEF TypeOK
<1>5. /\ stable' \in [Dispatches -> SUBSET Ids]
      /\ \A d \in Dispatches :
           dispatch[d].pc = "walking" => /\ stable'[d] \subseteq endpoints
                                         /\ stable'[d] \subseteq endpoints'
    BY <1>1, <1>2, <1>4 DEF TypeOK, Sound, DispatchOK
<1>6. Sound'
  <2>1. place' \in [Ids -> 0 .. MaxIds] /\ filled' \in 0 .. MaxIds /\ TableOK'
      BY <1>1, <1>2, AppendedTable, RebuiltTable
  <2>2. overtaken' \subseteq Dispatches /\ overtaken \subseteq overtaken'
      BY <1>1, <1>2 DEF TypeOK, Appended, Rebuilt
  <2>3. ASSUME NEW d \in Dispatches, dispatch[d].pc = "walking", d \notin overtaken',
               NEW i \in stable'[d], place'[i] <= dispatch[d].last
        PROVE  place[i] <= dispatch[d].last
    <3>1. i \in endpoints /\ i \in Ids
        BY <1>2, <1>5, <2>3 DEF TypeOK
    <3>2. CASE Appended(lastId')
      <4>1. place'[i] = place[i]
          BY <1>1, <1>2, <3>1, <3>2, AppendedTable
      <4>2. QED BY <2>3, <4>1
    <3>3. CASE Rebuilt
      <4>1. ~(place'[i] <= dispatch[d].last /\ dispatch[d].last < place[i])
          BY <2>3, <3>1, <3>3 DEF Rebuilt
      <4>2. place[i] \in Int /\ dispatch[d].last \in Int
          BY <1>2, <3>1 DEF TypeOK, Dispatch
      <4>3. QED BY <2>3, <4>1, <4>2
    <3>4. QED BY <1>1, <3>2, <3>3
  <2>4. QED BY <1>1, <1>2, <1>3, <1>4, <1>5, <2>1, <2>2, <2>3, AsideSound
<1>7. CountersMatchResults'
    BY <1>1, <1>2, CountersStay
<1>8. RegistryNearLimit'
  <2>1. /\ IsFiniteSet(endpoints) /\ Cardinality(endpoints) \in Nat
        /\ IsFiniteSet(checked) /\ Cardinality(checked) \in Nat
        /\ Cardinality(Threads) \in Nat
      BY <1>2, RegistryFinite
  <2>2. Cardinality(endpoints') <= Cardinality(endpoints) + 1
        /\ Cardinality(endpoints') \in Nat
    <3>1. Cardinality(endpoints \cup {lastId + 1}) =
            IF lastId + 1 \in endpoints THEN Cardinality(endpoints)
                                       ELSE Cardinality(endpoints) + 1
        BY <2>1, FS_AddElement
    <3>2. QED BY <1>1, <2>1, <3>1
  <2>3. Cardinality(checked') = Cardinality(checked) - 1
      BY <1>1, <2>1, FS_RemoveElement
  <2>4. QED BY <1>2, <2>1, <2>2, <2>3 DEF RegistryNearLimit
<1>9. QED BY <1>6, <1>7, <1>8 DEF IInv

LEMMA DeregisterIInv ==
  ASSUME IInv, NEW i \in Ids, Deregister(i)
  PROVE  IInv'
<1>1. /\ endpoints' = endpoints \ {i} /\ lastId' = lastId /\ checked' = checked
      /\ place' = [place EXCEPT ![i] = 0] /\ filled' = filled /\ overtaken' = overtaken
      /\ UNCHANGED <<counters, dispatch, delivery, received>>
      /\ UNCHANGED <<counters, delivery>>
    BY DEF Deregister
<1>2. TypeOK /\ TableOK /\ Sound /\ CountersMatchResults /\ RegistryNearLimit
    BY DEF IInv, Sound
<1>3. /\ stable' \in [Dispatches -> SUBSET Ids]
      /\ \A d \in Dispatches :
           IF dispatch[d].pc = "walking"
           THEN stable'[d] \subseteq stable[d] /\ stable'[d] \subseteq endpoints'
           ELSE stable'[d] = stable[d]
  <2>1. \A d \in Dispatches :
          stable'[d] = IF dispatch[d].pc = "walking" THEN stable[d] \ {i} ELSE stable[d]
      BY DEF Deregister
  <2>2. \A d \in Dispatches : dispatch[d].pc = "walking" => stable[d] \subseteq endpoints
      BY <1>2 DEF Sound, DispatchOK
  <2>3. stable' \in [Dispatches -> SUBSET Ids]
      BY <1>2 DEF TypeOK, Deregister
  <2>4. QED BY <1>1, <2>1, <2>2, <2>3
<1>4. /\ endpoints' \in SUBSET Ids /\ lastId' \in 0 .. MaxIds /\ checked' \subseteq Threads
      /\ place' \in [Ids -> 0 .. MaxIds] /\ filled' \in 0 .. MaxIds
      /\ overtaken' \subseteq Dispatches
    BY <1>1, <1>2 DEF TypeOK
<1>5. Sound'
  <2>1. \A j \in endpoints' : j \in endpoints /\ j \in Ids /\ place'[j] = place[j]
      BY <1>1, <1>2 DEF TypeOK
  <2>2. TableOK'
      BY <1>1, <1>2, <2>1 DEF TableOK
  <2>3. \A d \in Dispatches :
          dispatch[d].pc = "walking" =>
            \A j \in stable'[d] : place'[j] = place[j]
      BY <1>3, <2>1
  <2>4. QED BY <1>1, <1>2, <1>3, <1>4, <2>2, <2>3, AsideSound
<1>6. CountersMatchResults'
    BY <1>1, <1>2, CountersStay
<1>7. RegistryNearLimit'
  <2>1. /\ IsFiniteSet(endpoints) /\ Cardinality(endpoints) \in Nat
        /\ Cardinality(checked) \in Nat /\ Cardinality(Threads) \in Nat
      BY <1>2, RegistryFinite
  <2>2. Cardinality(endpoints') \in Nat /\ Cardinality(endpoints') <= Cardinality(endpoints)
    <3>1. IsFiniteSet(endpoints \ {i}) /\
          Cardinality(endpoints \ {i}) =
            IF i \in endpoints THEN Cardinality(endpoints) - 1 ELSE Cardinality(endpoints)
        BY <2>1, FS_RemoveElement
    <3>2. Cardinality(endpoints \ {i}) \in Nat
        BY <3>1, FS_CardinalityType
    <3>3. QED BY <1>1, <2>1, <3>1, <3>2
  <2>3. QED BY <1>1, <1>2, <2>1, <2>2 DEF RegistryNearLimit
<1>8. QED BY <1>5, <1>6, <1>7 DEF IInv

----------------------------------------------------------------------------
(***************************************************************************)
(* The theorems.                                                           *)
(***************************************************************************)
LEMMA InitIInv == Init => IInv
<1> SUFFICES ASSUME Init PROVE IInv
    OBVIOUS
<1>1. NoDelivery \in Delivery /\ NoDelivery.st = "none" /\ NoDelivery.attempt = 0
    BY DEF NoDelivery, Delivery
<1>2. [pc |-> "new", size |-> 0, last |-> 0, left |-> 0, targets |-> {}] \in Dispatch
    BY DEF Dispatch
<1>3. TypeOK /\ TableOK
    BY <1>1, <1>2 DEF Init, TypeOK, TableOK
<1>4. /\ \A d \in Dispatches : /\ dispatch[d].pc = "new" /\ dispatch[d].last = 0
                               /\ dispatch[d].targets = {}
      /\ \A d \in Dispatches, i \in Ids : /\ delivery[d][i] = NoDelivery
                                          /\ received[d][i] = 0
    BY DEF Init
<1>5. IsFiniteSet(Started)
  <2>1. Started = {}
      BY <1>4 DEF Started
  <2>2. QED BY <2>1, FS_EmptySet
<1>6. \A d \in Dispatches : DispatchOK(d, dispatch[d])
    BY <1>1, <1>4 DEF DispatchOK, NotStarted
<1>7. \A d \in Dispatches, i \in Ids : DeliveryOK(delivery[d][i], received[d][i])
    BY <1>1, <1>4 DEF DeliveryOK
<1>8. CountersMatchResults
  <2>1. \A i \in Ids, st \in {"ok", "failed"} : EndedAs(i, st) = {}
      BY <1>1, <1>4 DEF EndedAs
  <2>2. \A i \in Ids : successes[i] = 0 /\ failures[i] = 0
      BY DEF Init
  <2>3. QED BY <2>1, <2>2, FS_EmptySet, Counters
<1>9. RegistryNearLimit
  <2>1. Cardinality(endpoints) = 0 /\ Cardinality(checked) = 0
      BY FS_EmptySet DEF Init
  <2>2. Cardinality(Threads) \in Nat
      BY FS_CardinalityType
  <2>3. QED BY <2>1, <2>2 DEF RegistryNearLimit
<1>10. QED BY <1>3, <1>5, <1>6, <1>7, <1>8, <1>9 DEF IInv, Sound

LEMMA NextIInv == IInv /\ [Next]_vars => IInv'
<1> SUFFICES ASSUME IInv, [Next]_vars PROVE IInv'
    OBVIOUS
<1>1. CASE \E t \in Threads : CheckLimit(t) \/ Insert(t)
    BY <1>1, CheckLimitIInv, InsertIInv
<1>2. CASE \E i \in Ids : Deregister(i)
    BY <1>2, DeregisterIInv
<1>3. ASSUME NEW d \in Dispatches,
             \/ StartWalk(d) \/ WalkRaises(d) \/ Walk(d)
             \/ StartDeliveries(d) \/ Return(d)
      PROVE  IInv'
    BY <1>3, StartWalkIInv, WalkRaisesIInv, WalkIInv, StartDeliveriesIInv, ReturnIInv
<1>4. ASSUME NEW d \in Dispatches, NEW i \in Ids,
             DeliverOk(d, i) \/ DeliverFails(d, i) \/ Retry(d, i) \/ DeliverCrashes(d, i)
      PROVE  IInv'
    BY <1>4, DeliverOkIInv, DeliverFailsIInv, QuietTurnIInv
<1>5. CASE UNCHANGED vars
  <2>1. /\ UNCHANGED <<endpoints, place, filled, lastId, checked, dispatch, delivery,
                       received, stable, overtaken>>
        /\ UNCHANGED <<counters, dispatch, delivery, received>>
        /\ UNCHANGED <<counters, delivery>> /\ UNCHANGED registry
      BY <1>5 DEF vars, counters, registry
  <2>2. Sound'
      BY <2>1, AsideSound DEF IInv, Sound, TypeOK, TableOK, DispatchOK
  <2>3. QED BY <2>1, <2>2, CountersStay, RegistryStays DEF IInv
<1>6. QED BY <1>1, <1>2, <1>3, <1>4, <1>5 DEF Next

\* The invariant holds in every reachable state.
THEOREM Invariance == Spec => []IInv
<1>1. QED BY InitIInv, NextIInv, PTL DEF Spec

\* Type correctness of the registry, the counters and the dispatches.
THEOREM WebhooksTypeCorrect == Spec => []TypeOK
<1>1. IInv => TypeOK
    BY DEF IInv, Sound
<1>2. QED BY Invariance, <1>1, PTL

\* The registry exceeds its limit by no more than the threads that were
\* between their test and their insertion (webhooks.py:66-69).
THEOREM RegistryStaysNearLimit == Spec => []RegistryNearLimit
<1>1. IInv => RegistryNearLimit
    BY DEF IInv
<1>2. QED BY Invariance, <1>1, PTL

\* An endpoint's counters are the results of all deliveries to it, however
\* many dispatches overlap (webhooks.py:100-115).
THEOREM CountersAreResults == Spec => []CountersMatchResults
<1>1. IInv => CountersMatchResults
    BY DEF IInv
<1>2. QED BY Invariance, <1>1, PTL

\* What a delivery reports is what happened to its event (webhooks.py:96-120).
THEOREM ReportsAreHonest == Spec => []ResultsAreHonest
<1>1. IInv => ResultsAreHonest
    BY DEF IInv, Sound, DeliveryOK, ResultsAreHonest
<1>2. QED BY Invariance, <1>1, PTL

\* A dispatch that returns has a result for every subscriber that was
\* registered all through its walk, whatever threads did meanwhile, unless a
\* rebuild of the dict's table moved an endpoint behind the walk
\* (webhooks.py:77-79).
THEOREM WalkMissesNoStable == Spec => []ReturnCoversStable
<1>1. IInv => ReturnCoversStable
    BY DEF IInv, Sound, DispatchOK, ReturnCoversStable
<1>2. QED BY Invariance, <1>1, PTL

=============================================================================

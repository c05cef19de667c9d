---------------------------- MODULE BridgeProofs ----------------------------
(***************************************************************************)
(* Safety properties of Bridge, for all sets of requests and payloads, all *)
(* windows, thresholds and capacities: no alert is posted twice within the *)
(* dedup window, the open circuit probes exactly on time, the audit trail  *)
(* is one whole submission after another, and nothing outgrows its limit.  *)
(***************************************************************************)
EXTENDS Bridge, SharedOpsProofs, FiniteSetTheorems, SequenceTheorems, TLAPS

USE FailureThresholdAssumption, SuccessThresholdAssumption, TimeoutAssumption,
    DedupWindowAssumption

\* The part of the type invariant the two arguments need.
Typed ==
  /\ seen \in [Keys -> Age]
  /\ posted \in [Keys -> Age]
  /\ task \in [Requests -> Task]
  /\ breaker \in Breaker
  /\ openFor \in 0 .. Timeout

\* A key posted within the window carries a mark exactly as old as the POST.
MarkedSincePosted ==
  \A k \in Keys : posted[k] \in 0 .. DedupWindow => seen[k] = posted[k]

\* One POST at a time, never while the circuit is open, so that nothing but
\* the failure that opened the circuit sets its failure time.
SerialPosts ==
  /\ \A q, r \in Requests :
       task[q].pc = "posting" /\ task[r].pc = "posting" => q = r
  /\ \A r \in Requests : task[r].pc = "posting" => breaker.state # "OPEN"
  /\ breaker.state = "OPEN" => breaker.sinceFailure = openFor
  /\ breaker.state # "OPEN" => openFor = 0
  /\ breaker.successCount < SuccessThreshold

IInv == Typed /\ MarkedSincePosted /\ SerialPosts

\* A new task is idle, posting or injecting.
LEMMA TaskTypes ==
  /\ Idle \in Task
  /\ \A p \in Payloads, b \in BOOLEAN :
       [pc |-> "posting", payload |-> p, taken |-> b] \in Task
  /\ \A id \in Ids : [pc |-> "injecting", id |-> id] \in Task
  BY DEF Task, Idle

\* What a request that posts holds.
LEMMA PostingType ==
  ASSUME NEW t \in Task, t.pc = "posting"
  PROVE  /\ t \in [pc : {"posting"}, payload : Payloads, taken : BOOLEAN]
         /\ t.payload \in Payloads
  BY DEF Task, Idle

\* The initial state satisfies the invariant.
LEMMA InitIInv == Init => IInv
  BY NewBreakerType, TaskTypes
     DEF Init, IInv, Typed, MarkedSincePosted, SerialPosts, NoMarks, AllIdle, Idle,
         Age, Unseen, NewBreaker

\* Marks and POST ages stay in their range when the expired ones go, and when
\* time passes.
LEMMA MarksType ==
  ASSUME NEW m \in [Keys -> Age]
  PROVE  Forget(m) \in [Keys -> Age] /\ Older(m) \in [Keys -> Age]
  BY DEF Forget, Older, Age, Unseen

\* A payload's key is a key.
LEMMA KeyType == \A p \in Payloads : Key(p) \in Keys
  BY DEF Keys

\* A request that starts, resumes or ends without posting leaves the posts
\* serial.
LEMMA QuietTask ==
  ASSUME IInv, NEW r \in Requests, NEW t \in Task, t.pc # "posting",
         task' = [task EXCEPT ![r] = t], UNCHANGED <<breaker, openFor>>
  PROVE  task' \in [Requests -> Task] /\ SerialPosts'
  BY DEF IInv, Typed, SerialPosts

\* Forgetting expired marks loses none that is as old as a POST in the window.
LEMMA ForgetKeepsMarks ==
  ASSUME IInv, seen' = Forget(seen), UNCHANGED posted
  PROVE  seen' \in [Keys -> Age] /\ MarkedSincePosted'
  BY MarksType DEF IInv, Typed, MarkedSincePosted, Forget, Age, Unseen

\* What the two ways to ingest an alert do to the marks: the key was not
\* posted within the window, and gets a new mark.
LEMMA IngestMarks ==
  ASSUME IInv, NEW r \in Requests, NEW p \in Payloads, Ingest(r, p)
  PROVE  /\ seen' \in [Keys -> Age]
         /\ posted[Key(p)] \notin 0 .. DedupWindow
         /\ seen' = [Forget(seen) EXCEPT ![Key(p)] = 0]
<1>1. Key(p) \in Keys
    BY KeyType
<1>2. Forget(seen) \in [Keys -> Age]
    BY MarksType DEF IInv, Typed
<1>3. 0 \in Age
    BY DEF Age
<1>4. posted[Key(p)] \notin 0 .. DedupWindow
    BY <1>1 DEF Ingest, IsDuplicate, Forget, IInv, Typed, MarkedSincePosted, Age, Unseen
<1>5. QED BY <1>1, <1>2, <1>3, <1>4 DEF Ingest

\* A request that is answered from the front of compose_cap.
LEMMA ComposeIInv ==
  ASSUME IInv, NEW r \in Requests, NEW p \in Payloads, Compose(r, p)
  PROVE  IInv'
<1> USE DEF IInv, Typed
<1>1. Idle \in Task /\ Idle.pc # "posting"
    BY TaskTypes DEF Idle
<1>2. CASE Refuse(r, p)
    BY <1>1, <1>2, QuietTask
       DEF Refuse, Respond, memory, MarkedSincePosted
<1>3. CASE Suppress(r, p)
    BY <1>1, <1>3, QuietTask, ForgetKeepsMarks DEF Suppress, Respond
<1>4. CASE IngestWhileOpen(r, p)
  <2>1. /\ seen' \in [Keys -> Age]
        /\ posted[Key(p)] \notin 0 .. DedupWindow
        /\ seen' = [Forget(seen) EXCEPT ![Key(p)] = 0]
    BY <1>4, IngestMarks DEF IngestWhileOpen
  <2>2. UNCHANGED <<breaker, posted, openFor>> /\ task' = [task EXCEPT ![r] = Idle]
    BY <1>4 DEF IngestWhileOpen, Respond
  <2>3. MarkedSincePosted'
    BY <2>1, <2>2, KeyType DEF MarkedSincePosted, Forget, Age, Unseen
  <2>4. QED BY <1>1, <2>1, <2>2, <2>3, QuietTask
<1>5. CASE IngestAndPost(r, p)
  <2> DEFINE new == [pc |-> "posting", payload |-> p, taken |-> FALSE]
  <2>1. /\ seen' \in [Keys -> Age]
        /\ seen' = [Forget(seen) EXCEPT ![Key(p)] = 0]
    BY <1>5, IngestMarks DEF IngestAndPost
  <2>2. posted' = [posted EXCEPT ![Key(p)] = 0] /\ task' = [task EXCEPT ![r] = new]
    BY <1>5 DEF IngestAndPost, Becomes
  <2>3. new \in Task /\ 0 \in Age
    <3>1. FALSE \in BOOLEAN
        OBVIOUS
    <3>2. new \in Task
        BY <3>1, TaskTypes
    <3>3. QED BY <3>2 DEF Age
  <2>4. MarkedSincePosted'
    BY <2>1, <2>2, KeyType DEF MarkedSincePosted, Forget, Age, Unseen
  <2>5. breaker' = Admit(breaker) /\ breaker' \in Breaker
    BY <1>5, AdmitType DEF IngestAndPost
  <2>6. breaker'.state # "OPEN" /\ breaker'.successCount = breaker.successCount
    BY <2>5 DEF Admit, Breaker
  <2>7. openFor' \in 0 .. Timeout /\ (breaker'.state # "OPEN" => openFor' = 0)
    <3>1. TrackOpening
        BY <1>5 DEF IngestAndPost
    <3>2. CASE breaker.state = "OPEN"
        BY <2>6, <3>1, <3>2 DEF TrackOpening
    <3>3. CASE breaker.state # "OPEN"
        BY <2>5, <3>1, <3>3 DEF TrackOpening, Admit, SerialPosts
    <3>4. QED BY <3>2, <3>3
  <2>8. \A q \in Requests : task[q].pc # "posting"
    BY <1>5 DEF IngestAndPost, Ingest, Scheduled, LoopFree
  <2>9. SerialPosts'
    BY <2>2, <2>6, <2>7, <2>8 DEF SerialPosts
  <2>10. QED BY <2>1, <2>2, <2>3, <2>4, <2>5, <2>7, <2>9
<1>6. QED BY <1>2, <1>3, <1>4, <1>5 DEF Compose

\* The end of a POST: the only one, so that after it nobody posts.
LEMMA SettleIInv ==
  ASSUME IInv, NEW r \in Requests, task[r].pc = "posting",
         NEW b, NEW event, NEW status,
         b \in {OnSuccess(breaker), OnFailure(breaker)},
         Settle(r, b, event, status)
  PROVE  IInv'
<1> USE DEF IInv, Typed
<1>1. /\ breaker' = b /\ task' = [task EXCEPT ![r] = Idle]
      /\ UNCHANGED <<seen, posted>> /\ TrackOpening
    BY DEF Settle, Respond
<1>2. b \in Breaker
    BY OnSuccessType, OnFailureType DEF SerialPosts
<1>3. task' \in [Requests -> Task] /\ \A q \in Requests : task'[q].pc # "posting"
    BY <1>1, TaskTypes DEF SerialPosts, Idle
<1>4. breaker.state # "OPEN" /\ openFor = 0 /\ breaker.successCount < SuccessThreshold
    BY DEF SerialPosts
<1>5. /\ openFor' = 0
      /\ b.successCount < SuccessThreshold
      /\ b.state = "OPEN" => b.sinceFailure = 0
  <2>1. openFor' = 0
    BY <1>1, <1>4 DEF TrackOpening
  <2>2. CASE b = OnSuccess(breaker)
    BY <1>4, <2>1, <2>2 DEF OnSuccess, Breaker, CircuitState
  <2>3. CASE b = OnFailure(breaker)
    BY <1>4, <2>1, <2>3 DEF OnFailure, Breaker, CircuitState
  <2>4. QED BY <2>2, <2>3
<1>6. SerialPosts'
    BY <1>1, <1>3, <1>5 DEF SerialPosts
<1>7. QED BY <1>1, <1>2, <1>3, <1>5, <1>6 DEF MarkedSincePosted

\* IPAWS takes the alert being posted: the request goes on posting.
LEMMA TakesIInv ==
  ASSUME IInv, NEW r \in Requests, IpawsTakes(r)
  PROVE  IInv'
<1> USE DEF IInv, Typed
<1> DEFINE new == [task[r] EXCEPT !.taken = TRUE]
<1>1. task' = [task EXCEPT ![r] = new] /\ task[r].pc = "posting"
    BY DEF IpawsTakes, Becomes
<1>2. new \in Task /\ new.pc = "posting"
  <2>1. task[r] \in [pc : {"posting"}, payload : Payloads, taken : BOOLEAN]
    BY <1>1, PostingType
  <2>2. new \in [pc : {"posting"}, payload : Payloads, taken : BOOLEAN]
    BY <2>1
  <2>3. QED BY <2>2 DEF Task
<1>3. UNCHANGED <<seen, breaker, posted, openFor>>
    BY DEF IpawsTakes, memory
<1> HIDE DEF new
<1>4. SerialPosts'
    BY <1>1, <1>2, <1>3 DEF SerialPosts
<1>5. QED BY <1>1, <1>2, <1>3, <1>4 DEF MarkedSincePosted

\* The two halves of a mesh broadcast leave marks and circuit alone.
LEMMA MeshIInv ==
  ASSUME IInv, NEW r \in Requests,
         \/ \E id \in Ids : MeshRequest(r, id)
         \/ MeshResult(r)
  PROVE  IInv'
<1> USE DEF IInv, Typed
<1>1. ASSUME NEW id \in Ids, MeshRequest(r, id)
      PROVE  IInv'
  <2>1. task' = [task EXCEPT ![r] = [pc |-> "injecting", id |-> id]]
    BY <1>1 DEF MeshRequest, Becomes
  <2>2. [pc |-> "injecting", id |-> id] \in Task
    BY TaskTypes
  <2>3. UNCHANGED <<seen, breaker, posted, openFor>>
    BY <1>1 DEF MeshRequest
  <2>4. QED BY <2>1, <2>2, <2>3, QuietTask DEF MarkedSincePosted
<1>2. CASE MeshResult(r)
  <2>1. /\ task' = [task EXCEPT ![r] = Idle]
        /\ UNCHANGED <<seen, breaker, posted, openFor>>
    BY <1>2 DEF MeshResult, MeshAnswered, MeshGarbled, Respond, memory
  <2>2. Idle \in Task /\ Idle.pc # "posting"
    BY TaskTypes DEF Idle
  <2>3. QED BY <2>1, <2>2, QuietTask DEF MarkedSincePosted
<1>3. QED BY <1>1, <1>2

\* A tick ages marks and POSTs alike, and the failure with the opening.
LEMMA TickIInv ==
  ASSUME IInv, Tick
  PROVE  IInv'
<1> USE DEF IInv, Typed
<1>1. seen' \in [Keys -> Age] /\ posted' \in [Keys -> Age] /\ MarkedSincePosted'
    BY MarksType DEF Tick, MarkedSincePosted, Older, Age, Unseen
<1>2. breaker' \in Breaker /\ UNCHANGED task
    BY ElapseType DEF Tick
<1>3. openFor' \in 0 .. Timeout /\ SerialPosts'
    BY DEF Tick, Elapse, SerialPosts, Breaker, NoFailure
<1>4. QED BY <1>1, <1>2, <1>3

\* Every step of the service and its environment preserves the invariant.
LEMMA NextIInv == IInv /\ [Next]_vars => IInv'
<1> SUFFICES ASSUME IInv, [Next]_vars PROVE IInv'
    OBVIOUS
<1>1. ASSUME NEW r \in Requests, Handle(r) PROVE IInv'
  <2>1. CASE \E p \in Payloads : Compose(r, p)
    BY <2>1, ComposeIInv
  <2>2. CASE IpawsTakes(r)
    BY <2>2, TakesIInv
  <2>3. CASE PostAccepted(r)
    BY <2>3, SettleIInv DEF PostAccepted
  <2>4. CASE PostOddlyAnswered(r)
    BY <2>4, SettleIInv DEF PostOddlyAnswered
  <2>5. CASE PostFails(r)
    BY <2>5, SettleIInv DEF PostFails
  <2>6. CASE \E id \in Ids : MeshRequest(r, id)
    BY <2>6, MeshIInv
  <2>7. CASE MeshResult(r)
    BY <2>7, MeshIInv
  <2>8. QED BY <1>1, <2>1, <2>2, <2>3, <2>4, <2>5, <2>6, <2>7 DEF Handle
<1>2. CASE Tick
    BY <1>2, TickIInv
<1>3. CASE Crash
    BY <1>3, NewBreakerType, TaskTypes
       DEF Crash, IInv, Typed, MarkedSincePosted, SerialPosts, NoMarks, AllIdle,
           Idle, Age, Unseen, NewBreaker
<1>4. CASE \/ \E id \in Ids : ReadCached(id)
           \/ IpawsFailsOrRecovers
           \/ UNCHANGED vars
  <2>1. UNCHANGED <<seen, posted, task, breaker, openFor>>
    BY <1>4 DEF ReadCached, IpawsFailsOrRecovers, vars, memory
  <2>2. QED BY <2>1 DEF IInv, Typed, MarkedSincePosted, SerialPosts
<1>5. QED BY <1>1, <1>2, <1>3, <1>4 DEF Next

\* The invariant holds in every reachable state.
THEOREM Invariance == Spec => []IInv
  BY InitIInv, NextIInv, PTL DEF Spec

----------------------------------------------------------------------------
\* For any payloads, requests, window and thresholds: an open circuit admits a
\* probe exactly when a timeout has passed since it opened, and at most one
\* POST is in flight.
THEOREM ProbesAreOnTime == Spec => []ProbesOnTime
<1>1. IInv => ProbesOnTime
  <2> SUFFICES ASSUME IInv PROVE ProbesOnTime
    OBVIOUS
  <2> DEFINE P == {r \in Requests : task[r].pc = "posting"}
  <2>1. breaker.state = "OPEN" => (Admits(breaker) <=> openFor = Timeout)
    BY DEF IInv, Typed, SerialPosts, Admits, ShouldAttemptReset, NoFailure
  <2>2. Cardinality(P) <= 1
    <3>1. CASE P = {}
      BY <3>1, FS_EmptySet
    <3>2. CASE P # {}
      <4>1. PICK r : P = {r}
        BY <3>2, ZenonT(30) DEF IInv, SerialPosts
      <4>2. Cardinality({r}) = 1
        BY FS_Singleton
      <4> HIDE DEF P
      <4>3. QED BY <4>1, <4>2
    <3>3. QED BY <3>1, <3>2
  <2>3. QED BY <2>1, <2>2 DEF ProbesOnTime
<1>2. QED BY Invariance, <1>1, PTL

\* For any payloads, requests, window and thresholds: within one life of the
\* process no alert is posted to IPAWS twice within the dedup window.
THEOREM NoAlertRepeated == Spec => NoRepeatWithinWindow
<1> DEFINE Fresh == \A r \in Requests :
                      task[r].pc # "posting" /\ task'[r].pc = "posting" =>
                        posted[Key(task'[r].payload)] \in {Unseen, DedupWindow + 1}
<1>1. ASSUME IInv, [Next]_vars PROVE Fresh
  <2> SUFFICES ASSUME NEW r \in Requests,
                      task[r].pc # "posting", task'[r].pc = "posting"
               PROVE  posted[Key(task'[r].payload)] \in {Unseen, DedupWindow + 1}
    OBVIOUS
  <2> USE <1>1 DEF IInv, Typed
  <2>1. PICK p \in Payloads : IngestAndPost(r, p)
    <3>1. Next
      BY DEF vars
    <3>2. ~Tick /\ ~IpawsFailsOrRecovers /\ ~(\E id \in Ids : ReadCached(id))
      BY DEF Tick, IpawsFailsOrRecovers, ReadCached
    <3>3. ~Crash
      BY DEF Crash, AllIdle, Idle
    <3>4. PICK q \in Requests : Handle(q)
      BY <3>1, <3>2, <3>3 DEF Next
    <3>5. ASSUME NEW t, task' = [task EXCEPT ![q] = t]
          PROVE  q = r /\ t.pc = "posting"
      BY <3>5
    <3>6. ~IpawsTakes(q)
      BY <3>5 DEF IpawsTakes, Becomes
    <3>7. Idle.pc # "posting"
      BY DEF Idle
    <3>8. /\ ~PostAccepted(q) /\ ~PostOddlyAnswered(q) /\ ~PostFails(q)
          /\ ~MeshResult(q)
      BY <3>5, <3>7 DEF PostAccepted, PostOddlyAnswered, PostFails, Settle, Respond,
                        MeshResult, MeshAnswered, MeshGarbled
    <3>9. \A id \in Ids : ~MeshRequest(q, id)
      BY <3>5 DEF MeshRequest, Becomes
    <3>10. \A p \in Payloads :
             ~Refuse(q, p) /\ ~Suppress(q, p) /\ ~IngestWhileOpen(q, p)
      BY <3>5, <3>7 DEF Refuse, Suppress, IngestWhileOpen, Respond
    <3>11. PICK p \in Payloads : IngestAndPost(q, p)
      BY <3>4, <3>6, <3>8, <3>9, <3>10 DEF Handle, Compose
    <3>12. q = r
      BY <3>5, <3>11 DEF IngestAndPost, Becomes
    <3>13. QED BY <3>11, <3>12
  <2>2. task'[r].payload = p
    BY <2>1 DEF IngestAndPost, Becomes
  <2>3. posted[Key(p)] \notin 0 .. DedupWindow
    BY <2>1, IngestMarks DEF IngestAndPost
  <2>4. posted[Key(p)] \in Age
    BY KeyType
  <2>5. QED BY <2>2, <2>3, <2>4 DEF Age
<1>2. QED BY Invariance, <1>1, PTL DEF Spec, NoRepeatWithinWindow

----------------------------------------------------------------------------
(***************************************************************************)
(* The audit trail.  An entry logged after a log in which every INGESTED   *)
(* entry but the last has its outcome keeps that so if it is the outcome   *)
(* that is due, and only then.                                             *)
(***************************************************************************)
Outcome(e) == e.to = "ipaws-open"

\* An INGESTED entry and an outcome come in pairs.
Paired(log) ==
  \A i \in 1 .. Len(log) - 1 :
    /\ log[i].event = "INGESTED" <=> Outcome(log[i + 1])
    /\ Outcome(log[i + 1]) => log[i + 1].id = log[i].id

\* The last entry of the log is that of a submission to IPAWS.
Due(log, id) ==
  /\ log # <<>>
  /\ log[Len(log)].event = "INGESTED" /\ log[Len(log)].id = id
  /\ ~Outcome(log[Len(log)])

NoneDue(log) == log # <<>> => log[Len(log)].event # "INGESTED"

\* The submission whose POST is awaited is the one whose outcome is due.
AuditInv ==
  /\ audit \in Seq(AuditEntry)
  /\ Paired(audit)
  /\ \A r \in Requests : task[r].pc = "posting" => Due(audit, task[r].payload.id)
  /\ (\A r \in Requests : task[r].pc # "posting") => NoneDue(audit)

\* What log_event leaves: the new entry, after a tail of the log.
LEMMA LoggedTail ==
  ASSUME NEW log \in Seq(AuditEntry), NEW x \in AuditEntry
  PROVE  LET new == Logged(log, x.event, x.id, x.to) IN
         /\ new \in Seq(AuditEntry) /\ Len(new) \in Nat \ {0}
         /\ new[Len(new)] = x
         /\ \E k \in Nat : /\ Len(new) + k = Len(log) + 1
                           /\ \A i \in 1 .. Len(new) - 1 : new[i] = log[i + k]
<1> DEFINE longer == Append(log, x)
           new == Logged(log, x.event, x.id, x.to)
<1>1. [event |-> x.event, id |-> x.id, to |-> x.to] = x
    BY DEF AuditEntry
<1>2. new = IF Len(longer) > AuditMax
            THEN SubSeq(longer, Len(longer) - AuditMax + 1, Len(longer)) ELSE longer
    BY <1>1 DEF Logged
<1>3. /\ longer \in Seq(AuditEntry) /\ Len(log) \in Nat /\ Len(longer) = Len(log) + 1
      /\ \A i \in 1 .. Len(log) : longer[i] = log[i]
      /\ longer[Len(log) + 1] = x
    BY AppendProperties, LenProperties
<1>4. AuditMax \in Nat \ {0}
    BY AuditMaxAssumption
<1> HIDE DEF longer, new
<1>5. CASE Len(longer) > AuditMax
  <2> DEFINE m == Len(longer) - AuditMax + 1
  <2>1. \A i \in m .. Len(longer) : longer[i] \in AuditEntry
      BY <1>3, <1>4, <1>5, ElementOfSeq
  <2>0. m \in Int /\ Len(longer) \in Int
      BY <1>3, <1>4
  <2>10. new = SubSeq(longer, m, Len(longer))
      BY <1>2, <1>5, Zenon
  <2>2. m \in Int /\ Len(longer) \in Int /\ new = SubSeq(longer, m, Len(longer))
      BY <2>0, <2>10
  <2>3. m - 1 \in Nat /\ m <= Len(longer)
      BY <1>3, <1>4, <1>5
  <2> HIDE DEF m
  <2>4. /\ new \in Seq(AuditEntry)
        /\ Len(new) = IF m <= Len(longer) THEN Len(longer) - m + 1 ELSE 0
        /\ \A i \in 1 .. Len(longer) - m + 1 : new[i] = longer[m + i - 1]
      BY <2>1, <2>2, SubSeqProperties
  <2>5. Len(new) = Len(longer) - m + 1
      BY <2>3, <2>4
  <2>6. new[Len(new)] = x
      BY <1>3, <2>2, <2>3, <2>4, <2>5
  <2>7. \A i \in 1 .. Len(new) - 1 : new[i] = log[i + (m - 1)]
      BY <1>3, <2>2, <2>3, <2>4, <2>5
  <2>8. Len(new) + (m - 1) = Len(log) + 1 /\ Len(new) \in Nat \ {0}
      BY <1>3, <2>2, <2>3, <2>5
  <2>9. QED BY <2>3, <2>4, <2>6, <2>7, <2>8 DEF new
<1>6. CASE ~(Len(longer) > AuditMax)
  <2>1. new = longer
      BY <1>2, <1>6
  <2>2. /\ Len(new) + 0 = Len(log) + 1
        /\ \A i \in 1 .. Len(new) - 1 : new[i] = log[i + 0]
      BY <1>3, <2>1
  <2>3. new \in Seq(AuditEntry) /\ Len(new) \in Nat \ {0} /\ new[Len(new)] = x
      BY <1>3, <2>1
  <2>4. \E k \in Nat : /\ Len(new) + k = Len(log) + 1
                       /\ \A i \in 1 .. Len(new) - 1 : new[i] = log[i + k]
      BY <2>2
  <2>5. QED BY <2>3, <2>4 DEF new
<1>7. QED BY <1>5, <1>6

\* An entry that is an outcome exactly when one is due keeps the log paired.
LEMMA LoggedPaired ==
  ASSUME NEW log \in Seq(AuditEntry), NEW x \in AuditEntry, Paired(log),
         IF Outcome(x) THEN Due(log, x.id) ELSE NoneDue(log)
  PROVE  LET new == Logged(log, x.event, x.id, x.to) IN
         /\ new \in Seq(AuditEntry) /\ new # <<>>
         /\ Paired(new)
         /\ new[Len(new)] = x
<1> DEFINE new == Logged(log, x.event, x.id, x.to)
<1>1. /\ new \in Seq(AuditEntry) /\ Len(new) \in Nat \ {0}
      /\ new[Len(new)] = x
    BY LoggedTail
<1>2. PICK k \in Nat : /\ Len(new) + k = Len(log) + 1
                       /\ \A i \in 1 .. Len(new) - 1 : new[i] = log[i + k]
    BY LoggedTail, ZenonT(30)
<1>3. Len(log) \in Nat
    BY LenProperties
<1> HIDE DEF new
<1>4. ASSUME NEW i \in 1 .. Len(new) - 1
      PROVE  /\ new[i].event = "INGESTED" <=> Outcome(new[i + 1])
             /\ Outcome(new[i + 1]) => new[i + 1].id = new[i].id
  <2>1. new[i] = log[i + k]
      BY <1>2
  <2>2. CASE i = Len(new) - 1
    <3>1. i + k = Len(log) /\ i + 1 = Len(new) /\ Len(log) # 0
        BY <1>1, <1>2, <1>3, <2>2
    <3>2. new[i + 1] = x /\ new[i] = log[Len(log)] /\ log # <<>>
        BY <1>1, <2>1, <3>1
    <3>3. QED BY <3>2 DEF Due, NoneDue
  <2>3. CASE i # Len(new) - 1
    <3>1. i + 1 \in 1 .. Len(new) - 1 /\ i + k \in 1 .. Len(log) - 1
          /\ (i + 1) + k = (i + k) + 1
        BY <1>1, <1>2, <1>3, <2>3
    <3>2. new[i + 1] = log[(i + k) + 1]
      <4>1. new[i + 1] = log[(i + 1) + k]
          BY <1>2, <3>1
      <4>2. QED BY <3>1, <4>1
    <3>3. QED BY <2>1, <3>1, <3>2 DEF Paired
  <2>4. QED BY <2>2, <2>3
<1>5. new # <<>>
    BY <1>1
<1>6. QED BY <1>1, <1>4, <1>5 DEF Paired, new

\* Steps that log nothing, and start and end no POST.
LEMMA QuietAudit ==
  ASSUME AuditInv, audit' = audit,
         \A r \in Requests :
           /\ task'[r].pc = "posting" <=> task[r].pc = "posting"
           /\ task[r].pc = "posting" => task'[r].payload = task[r].payload
  PROVE  AuditInv'
<1>1. audit' \in Seq(AuditEntry) /\ Paired(audit')
    BY DEF AuditInv
<1>2. ASSUME NEW r \in Requests, task'[r].pc = "posting"
      PROVE  Due(audit', task'[r].payload.id)
    BY <1>2 DEF AuditInv
<1>3. ASSUME \A r \in Requests : task'[r].pc # "posting" PROVE NoneDue(audit')
    BY <1>3 DEF AuditInv
<1>4. QED BY <1>1, <1>2, <1>3 DEF AuditInv

\* Steps that log an entry while no POST is awaited, and none is afterwards.
LEMMA AsideAudit ==
  ASSUME IInv, AuditInv, NEW r \in Requests, LoopFree, NEW x \in AuditEntry,
         audit' = Logged(audit, x.event, x.id, x.to), ~Outcome(x), x.event # "INGESTED",
         task' = [task EXCEPT ![r] = Idle]
  PROVE  AuditInv'
<1>1. NoneDue(audit) /\ audit \in Seq(AuditEntry) /\ Paired(audit)
    BY DEF AuditInv, LoopFree
<1>2. /\ audit' \in Seq(AuditEntry) /\ Paired(audit')
      /\ audit'[Len(audit')] = x
    BY <1>1, LoggedPaired
<1>3. \A q \in Requests : task'[q].pc # "posting"
    BY DEF LoopFree, IInv, Typed, Idle
<1>4. NoneDue(audit')
    BY <1>2 DEF NoneDue
<1>5. QED BY <1>2, <1>3, <1>4 DEF AuditInv

\* compose_cap, up to its answer or its POST.
LEMMA ComposeAudit ==
  ASSUME IInv, AuditInv, NEW r \in Requests, NEW p \in Payloads, Compose(r, p)
  PROVE  AuditInv'
<1>1. task \in [Requests -> Task] /\ p.id \in Ids /\ LoopFree
    BY DEF IInv, Typed, Ids, Compose, Refuse, Suppress, IngestWhileOpen, IngestAndPost,
           Ingest, Scheduled
<1>2. CASE Refuse(r, p)
  <2>1. task' = [task EXCEPT ![r] = Idle] /\ audit' = audit
      BY <1>2 DEF Refuse, Respond, memory
  <2>2. QED BY <1>1, <2>1, QuietAudit DEF LoopFree, Idle
<1>3. CASE Suppress(r, p)
  <2> DEFINE x == [event |-> "DEDUPLICATED", id |-> p.id, to |-> ""]
  <2>1. /\ x \in AuditEntry /\ ~Outcome(x) /\ x.event # "INGESTED"
        /\ x.event = "DEDUPLICATED" /\ x.id = p.id /\ x.to = ""
      BY <1>1 DEF AuditEntry, Outcome
  <2>2. /\ audit' = Logged(audit, "DEDUPLICATED", p.id, "")
        /\ task' = [task EXCEPT ![r] = Idle]
      BY <1>3 DEF Suppress, Respond
  <2> HIDE DEF x
  <2>3. QED BY <1>1, <2>1, <2>2, AsideAudit
<1>4. CASE IngestWhileOpen(r, p) \/ IngestAndPost(r, p)
  <2> DEFINE x == [event |-> "INGESTED", id |-> p.id, to |-> ""]
  <2> DEFINE log == Logged(audit, "INGESTED", p.id, "")
  <2>1. /\ x \in AuditEntry /\ ~Outcome(x)
        /\ x.event = "INGESTED" /\ x.id = p.id /\ x.to = ""
      BY <1>1 DEF AuditEntry, Outcome
  <2>2. NoneDue(audit) /\ audit \in Seq(AuditEntry) /\ Paired(audit)
      BY <1>1 DEF AuditInv, LoopFree
  <2> HIDE DEF x
  <2>3. /\ log \in Seq(AuditEntry) /\ log # <<>> /\ Paired(log)
        /\ log[Len(log)] = x
    <3>1. IF Outcome(x) THEN Due(audit, x.id) ELSE NoneDue(audit)
      BY <2>1, <2>2
    <3>2. Logged(audit, x.event, x.id, x.to) = log
      BY <2>1
    <3> HIDE DEF log
    <3>3. QED BY <2>1, <2>2, <3>1, <3>2, LoggedPaired
  <2> HIDE DEF log
  <2>4. Due(log, p.id)
      BY <2>1, <2>3 DEF Due
  <2>5. CASE IngestWhileOpen(r, p)
    <3> DEFINE y == [event |-> "FAILED", id |-> p.id, to |-> "ipaws-open"]
    <3>1. /\ y \in AuditEntry /\ Outcome(y)
          /\ y.event = "FAILED" /\ y.id = p.id /\ y.to = "ipaws-open"
        BY <1>1 DEF AuditEntry, Outcome
    <3>2. audit' = Logged(log, "FAILED", p.id, "ipaws-open")
          /\ task' = [task EXCEPT ![r] = Idle]
        BY <2>5 DEF IngestWhileOpen, Respond, log
    <3> HIDE DEF y
    <3>3. /\ audit' \in Seq(AuditEntry) /\ Paired(audit')
          /\ audit'[Len(audit')] = y
        BY <2>3, <2>4, <3>1, <3>2, LoggedPaired
    <3>4. \A q \in Requests : task'[q].pc # "posting"
        BY <1>1, <3>2 DEF LoopFree, Idle
    <3>5. NoneDue(audit')
        BY <3>1, <3>3 DEF NoneDue
    <3>6. QED BY <3>3, <3>4, <3>5 DEF AuditInv
  <2>6. CASE IngestAndPost(r, p)
    <3> DEFINE t == [pc |-> "posting", payload |-> p, taken |-> FALSE]
    <3>1. audit' = log /\ task' = [task EXCEPT ![r] = t]
        BY <2>6 DEF IngestAndPost, Becomes, log
    <3>2. t.pc = "posting" /\ t.payload = p
        OBVIOUS
    <3> HIDE DEF t
    <3>3. task'[r] = t /\ \A q \in Requests \ {r} : task'[q] = task[q]
        BY <1>1, <3>1
    <3>4. \A q \in Requests : task'[q].pc = "posting" => task'[q].payload = p
        BY <1>1, <3>2, <3>3 DEF LoopFree
    <3>5. ~(\A q \in Requests : task'[q].pc # "posting")
        BY <3>2, <3>3
    <3>6. QED BY <2>3, <2>4, <3>1, <3>4, <3>5 DEF AuditInv
  <2>7. QED BY <1>4, <2>5, <2>6
<1>5. QED BY <1>2, <1>3, <1>4 DEF Compose

\* The end of a POST logs the outcome that is due.
LEMMA SettleAudit ==
  ASSUME IInv, AuditInv, NEW r \in Requests, task[r].pc = "posting",
         NEW b, NEW event \in {"ROUTED", "FAILED"}, NEW status,
         Settle(r, b, event, status)
  PROVE  AuditInv'
<1> DEFINE id == task[r].payload.id
<1> DEFINE x == [event |-> event, id |-> id, to |-> "ipaws-open"]
<1>1. task \in [Requests -> Task] /\ id \in Ids
    BY PostingType DEF IInv, Typed, Ids
<1>2. Due(audit, id) /\ audit \in Seq(AuditEntry) /\ Paired(audit)
    BY DEF AuditInv
<1>3. audit' = Logged(audit, event, id, "ipaws-open") /\ task' = [task EXCEPT ![r] = Idle]
    BY DEF Settle, Respond
<1> HIDE DEF id
<1>4. /\ x \in AuditEntry /\ Outcome(x) /\ x.event # "INGESTED"
      /\ x.event = event /\ x.id = id /\ x.to = "ipaws-open"
    BY <1>1 DEF AuditEntry, Outcome
<1> HIDE DEF x
<1>5. /\ audit' \in Seq(AuditEntry) /\ Paired(audit')
      /\ audit'[Len(audit')] = x
    BY <1>2, <1>3, <1>4, LoggedPaired
<1>6. \A q \in Requests : task'[q].pc # "posting"
    BY <1>1, <1>3 DEF IInv, SerialPosts, Idle
<1>7. NoneDue(audit')
    BY <1>4, <1>5 DEF NoneDue
<1>8. QED BY <1>5, <1>6, <1>7 DEF AuditInv

\* mesh_broadcast logs while no POST is awaited.
LEMMA MeshAudit ==
  ASSUME IInv, AuditInv, NEW r \in Requests,
         (\E id \in Ids : MeshRequest(r, id)) \/ MeshResult(r)
  PROVE  AuditInv'
<1>1. task \in [Requests -> Task] /\ task[r].pc # "posting" /\ LoopFree
    BY DEF IInv, Typed, MeshRequest, MeshResult, MeshAnswered, MeshGarbled, Scheduled
<1>2. ASSUME NEW id \in Ids, MeshRequest(r, id) PROVE AuditInv'
  <2> DEFINE t == [pc |-> "injecting", id |-> id]
  <2>1. audit' = audit /\ task' = [task EXCEPT ![r] = t] /\ t.pc = "injecting"
      BY <1>2 DEF MeshRequest, Becomes
  <2> HIDE DEF t
  <2>2. QED BY <1>1, <2>1, QuietAudit
<1>3. CASE MeshGarbled(r)
  <2>1. audit' = audit /\ task' = [task EXCEPT ![r] = Idle] /\ Idle.pc = "idle"
      BY <1>3 DEF MeshGarbled, Respond, memory, Idle
  <2> HIDE DEF Idle
  <2>2. QED BY <1>1, <2>1, QuietAudit
<1>4. ASSUME NEW event \in {"DELIVERED", "FAILED"}, NEW status,
             MeshAnswered(r, event, status)
      PROVE  AuditInv'
  <2> DEFINE x == [event |-> event, id |-> task[r].id, to |-> "mesh-gateway"]
  <2>1. task[r].id \in Ids
      BY <1>1, <1>4 DEF MeshAnswered, Scheduled, Task, Idle
  <2>2. /\ x \in AuditEntry /\ ~Outcome(x) /\ x.event # "INGESTED"
        /\ x.event = event /\ x.id = task[r].id /\ x.to = "mesh-gateway"
      BY <2>1 DEF AuditEntry, Outcome
  <2>3. /\ audit' = Logged(audit, event, task[r].id, "mesh-gateway")
        /\ task' = [task EXCEPT ![r] = Idle]
      BY <1>4 DEF MeshAnswered, Respond
  <2> HIDE DEF x
  <2>4. QED BY <1>1, <2>2, <2>3, AsideAudit
<1>5. QED BY <1>2, <1>3, <1>4 DEF MeshResult

\* Every step keeps INGESTED entries and outcomes paired.
LEMMA NextAuditInv == IInv /\ AuditInv /\ [Next]_vars => AuditInv'
<1> SUFFICES ASSUME IInv, AuditInv, [Next]_vars PROVE AuditInv'
    OBVIOUS
<1>1. ASSUME NEW r \in Requests, Handle(r) PROVE AuditInv'
  <2>1. CASE \E p \in Payloads : Compose(r, p)
    BY <2>1, ComposeAudit
  <2>2. CASE IpawsTakes(r)
    <3>1. audit' = audit /\ task' = [task EXCEPT ![r] = [task[r] EXCEPT !.taken = TRUE]]
        BY <2>2 DEF IpawsTakes, Becomes, memory
    <3>2. task \in [Requests -> Task]
          /\ task[r] \in [pc : {"posting"}, payload : Payloads, taken : BOOLEAN]
        BY <2>2, PostingType DEF IInv, Typed, IpawsTakes
    <3>3. /\ [task[r] EXCEPT !.taken = TRUE].pc = task[r].pc
          /\ [task[r] EXCEPT !.taken = TRUE].payload = task[r].payload
        BY <3>2
    <3>4. /\ task'[r].pc = task[r].pc /\ task'[r].payload = task[r].payload
          /\ \A q \in Requests \ {r} : task'[q] = task[q]
        BY <3>1, <3>2, <3>3
    <3>5. QED BY <3>1, <3>4, QuietAudit
  <2>3. CASE PostAccepted(r)
    BY <2>3, SettleAudit DEF PostAccepted
  <2>4. CASE PostOddlyAnswered(r)
    BY <2>4, SettleAudit DEF PostOddlyAnswered
  <2>5. CASE PostFails(r)
    BY <2>5, SettleAudit DEF PostFails
  <2>6. CASE (\E id \in Ids : MeshRequest(r, id)) \/ MeshResult(r)
    BY <2>6, MeshAudit
  <2>7. QED BY <1>1, <2>1, <2>2, <2>3, <2>4, <2>5, <2>6 DEF Handle
<1>2. CASE Crash
  <2>1. audit' = <<>> /\ task' = AllIdle /\ Len(audit') = 0
    BY <1>2 DEF Crash
  <2>2. audit' \in Seq(AuditEntry)
    BY <2>1
  <2>3. \A r \in Requests : task'[r].pc # "posting"
    BY <2>1 DEF AllIdle, Idle
  <2>4. QED BY <2>1, <2>2, <2>3 DEF AuditInv, Paired, NoneDue
<1>3. CASE \/ Tick \/ (\E id \in Ids : ReadCached(id))
           \/ IpawsFailsOrRecovers \/ UNCHANGED vars
  <2>1. UNCHANGED <<audit, task>>
    BY <1>3 DEF Tick, ReadCached, IpawsFailsOrRecovers, vars, memory
  <2>2. QED BY <2>1, QuietAudit
<1>4. QED BY <1>1, <1>2, <1>3 DEF Next

\* For any payloads, requests and capacity of the log: the audit trail reads as
\* a sequence of whole submissions (AuditTrailIsSerial, main.py:183-206).
THEOREM AuditIsSerial == Spec => []AuditTrailIsSerial
<1>1. Init => AuditInv
  <2> SUFFICES ASSUME Init PROVE AuditInv
    OBVIOUS
  <2>1. audit = <<>> /\ task = AllIdle /\ Len(audit) = 0
    BY DEF Init
  <2>2. audit \in Seq(AuditEntry)
    BY <2>1
  <2>3. \A r \in Requests : task[r].pc # "posting"
    BY <2>1 DEF AllIdle, Idle
  <2>4. QED BY <2>1, <2>2, <2>3 DEF AuditInv, Paired, NoneDue
<1>2. AuditInv => AuditTrailIsSerial
  <2> SUFFICES ASSUME AuditInv PROVE AuditTrailIsSerial
    OBVIOUS
  <2>1. Len(audit) \in Nat /\ Paired(audit)
    BY LenProperties DEF AuditInv
  <2>2. ASSUME NEW i \in 1 .. Len(audit) - 1, audit[i].event = "INGESTED"
        PROVE  audit[i + 1].to = "ipaws-open" /\ audit[i + 1].id = audit[i].id
    BY <2>1, <2>2 DEF Paired, Outcome
  <2>3. ASSUME NEW i \in 2 .. Len(audit), audit[i].to = "ipaws-open"
        PROVE  audit[i - 1].event = "INGESTED" /\ audit[i - 1].id = audit[i].id
    <3>1. i - 1 \in 1 .. Len(audit) - 1 /\ (i - 1) + 1 = i
      BY <2>1
    <3>2. QED BY <2>1, <2>3, <3>1 DEF Paired, Outcome
  <2>4. ASSUME audit # <<>>, Last(audit).event = "INGESTED"
        PROVE  \E r \in Requests : task[r].pc = "posting"
                                   /\ task[r].payload.id = Last(audit).id
    BY <2>4 DEF Last, AuditInv, Due, NoneDue
  <2>5. QED BY <2>2, <2>3, <2>4 DEF AuditTrailIsSerial
<1>3. QED BY <1>1, <1>2, NextAuditInv, Invariance, PTL DEF Spec

----------------------------------------------------------------------------
(***************************************************************************)
(* The rest of the type invariant: the cache and the log stay within their *)
(* capacities.                                                             *)
(***************************************************************************)
StoreOK(s) == s \in Seq([id : Ids]) /\ Len(s) <= MaxEntries
LogOK(log) == log \in Seq(AuditEntry) /\ Len(log) <= AuditMax

Bounded ==
  /\ StoreOK(store) /\ LogOK(audit)
  /\ answer \in Answer
  /\ ipawsUp \in BOOLEAN /\ delivered \subseteq Keys
  /\ crashes \in 0 .. MaxCrashes

\* log_event keeps the newest max_entries entries (audit_logger.py:97-98).
LEMMA LoggedType ==
  ASSUME NEW log, LogOK(log), NEW event, NEW id \in Ids, NEW to,
         [event |-> event, id |-> id, to |-> to] \in AuditEntry
  PROVE  LogOK(Logged(log, event, id, to))
<1> DEFINE x == [event |-> event, id |-> id, to |-> to]
<1>1. PICK longer \in Seq(AuditEntry) : longer = Append(log, x) /\ Len(longer) \in Nat
  <2>1. Append(log, x) \in Seq(AuditEntry)
      BY AppendProperties DEF LogOK
  <2>2. QED BY <2>1, LenProperties
<1>2. Logged(log, event, id, to) =
        IF Len(longer) > AuditMax
        THEN SubSeq(longer, Len(longer) - AuditMax + 1, Len(longer)) ELSE longer
    BY <1>1 DEF Logged
<1>3. AuditMax \in Nat \ {0}
    BY AuditMaxAssumption
<1>4. CASE Len(longer) > AuditMax
  <2>1. PICK m \in Nat \ {0} : m = Len(longer) - AuditMax + 1 /\ m <= Len(longer)
    <3>1. /\ Len(longer) - AuditMax + 1 \in Nat \ {0}
          /\ Len(longer) - AuditMax + 1 <= Len(longer)
        BY <1>1, <1>3, <1>4
    <3>2. QED BY <3>1
  <2>2. m \in Int /\ Len(longer) \in Int /\ \A i \in m .. Len(longer) : longer[i] \in AuditEntry
    <3>1. \A i \in m .. Len(longer) : i \in 1 .. Len(longer)
        BY <1>1, <2>1
    <3>2. QED BY <1>1, <2>1, <3>1, ElementOfSeq
  <2>3. /\ SubSeq(longer, m, Len(longer)) \in Seq(AuditEntry)
        /\ Len(SubSeq(longer, m, Len(longer))) = Len(longer) - m + 1
      BY <2>1, <2>2, SubSeqProperties
  <2>4. QED BY <1>1, <1>2, <1>3, <1>4, <2>1, <2>3 DEF LogOK
<1>5. CASE ~(Len(longer) > AuditMax)
    BY <1>1, <1>2, <1>3, <1>5 DEF LogOK
<1>6. QED BY <1>4, <1>5

\* What the handlers do to the cache (alert_cache.py:111-138).
LEMMA StoreType ==
  ASSUME NEW s, StoreOK(s), NEW id \in Ids
  PROVE  StoreOK(Put(s, [id |-> id])) /\ StoreOK(Get(s, id))
<1>1. [id |-> id] \in [id : Ids]
    OBVIOUS
<1>2. StoreOK(Put(s, [id |-> id]))
    BY <1>1, PutType DEF StoreOK
<1>3. Get(s, id) \in Seq([id : Ids]) /\ Len(Get(s, id)) = Len(s)
    BY GetType DEF StoreOK
<1>4. QED BY <1>2, <1>3 DEF StoreOK

\* A handler that leaves the environment alone.
LEMMA HandlerBounded ==
  ASSUME Bounded, UNCHANGED environment,
         StoreOK(store'), LogOK(audit'), answer' \in Answer
  PROVE  Bounded'
  BY DEF Bounded, environment, StoreOK, LogOK

LEMMA ComposeBounded ==
  ASSUME Bounded, NEW r \in Requests, NEW p \in Payloads, Compose(r, p)
  PROVE  Bounded'
<1>1. StoreOK(store) /\ LogOK(audit) /\ answer \in Answer
    BY DEF Bounded
<1>2. p.id \in Ids
    BY DEF Ids
<1>3. \A event \in {"INGESTED", "DEDUPLICATED", "FAILED"}, to \in {"", "ipaws-open"} :
        [event |-> event, id |-> p.id, to |-> to] \in AuditEntry
    BY <1>2 DEF AuditEntry
<1>4. CASE Refuse(r, p)
    BY <1>1, <1>4, HandlerBounded DEF Refuse, Respond, memory, Answer
<1>5. CASE Suppress(r, p)
  <2>1. audit' = Logged(audit, "DEDUPLICATED", p.id, "") /\ UNCHANGED <<store, environment>>
      BY <1>5 DEF Suppress
  <2>2. LogOK(audit')
      BY <1>1, <1>2, <1>3, <2>1, LoggedType
  <2>3. answer' \in Answer
      BY <1>5 DEF Suppress, Respond, Answer
  <2>4. QED BY <1>1, <2>1, <2>2, <2>3, HandlerBounded
<1>6. CASE IngestWhileOpen(r, p) \/ IngestAndPost(r, p)
  <2>1. store' = Put(store, [id |-> p.id]) /\ UNCHANGED environment
      BY <1>6 DEF IngestWhileOpen, IngestAndPost, Ingest
  <2>2. StoreOK(store')
      BY <1>1, <1>2, <2>1, StoreType
  <2>3. PICK log : log = Logged(audit, "INGESTED", p.id, "") /\ LogOK(log)
      BY <1>1, <1>2, <1>3, LoggedType
  <2>4. audit' = Logged(log, "FAILED", p.id, "ipaws-open") \/ audit' = log
      BY <1>6, <2>3 DEF IngestWhileOpen, IngestAndPost
  <2>5. LogOK(audit')
      BY <1>2, <1>3, <2>3, <2>4, LoggedType
  <2>6. answer' \in Answer
      BY <1>1, <1>6 DEF IngestWhileOpen, IngestAndPost, Respond, Becomes, Answer
  <2>7. QED BY <2>1, <2>2, <2>5, <2>6, HandlerBounded
<1>7. QED BY <1>4, <1>5, <1>6 DEF Compose

LEMMA SettleBounded ==
  ASSUME IInv, Bounded, NEW r \in Requests, task[r].pc = "posting",
         NEW b, NEW event \in {"ROUTED", "FAILED"}, NEW status \in Answer,
         Settle(r, b, event, status)
  PROVE  Bounded'
<1>1. PICK id \in Ids : id = task[r].payload.id
    BY PostingType DEF IInv, Typed, Ids
<1>2. /\ audit' = Logged(audit, event, id, "ipaws-open") /\ answer' = status
      /\ UNCHANGED <<store, environment>>
    BY <1>1 DEF Settle, Respond
<1>3. [event |-> event, id |-> id, to |-> "ipaws-open"] \in AuditEntry
    BY <1>1 DEF AuditEntry
<1>4. LogOK(audit')
    BY <1>1, <1>2, <1>3, LoggedType DEF Bounded
<1>5. QED BY <1>2, <1>4, HandlerBounded DEF Bounded

LEMMA MeshBounded ==
  ASSUME IInv, Bounded, NEW r \in Requests,
         (\E id \in Ids : MeshRequest(r, id)) \/ MeshResult(r)
  PROVE  Bounded'
<1>1. ASSUME NEW id \in Ids, MeshRequest(r, id) PROVE Bounded'
  <2>1. store' = Get(store, id) /\ UNCHANGED <<audit, answer, environment>>
      BY <1>1 DEF MeshRequest, Becomes
  <2>2. StoreOK(store')
      BY <2>1, StoreType DEF Bounded
  <2>3. QED BY <2>1, <2>2, HandlerBounded DEF Bounded
<1>2. CASE MeshGarbled(r)
  <2>1. UNCHANGED <<store, audit, environment>> /\ answer' \in Answer
      BY <1>2 DEF MeshGarbled, Respond, memory, Answer
  <2>2. QED BY <2>1, HandlerBounded DEF Bounded
<1>3. ASSUME NEW event \in {"DELIVERED", "FAILED"}, NEW status \in {"SENT", "FAILED"},
             MeshAnswered(r, event, status)
      PROVE  Bounded'
  <2>1. PICK id \in Ids : id = task[r].id
      BY <1>3 DEF IInv, Typed, MeshAnswered, Scheduled, Task, Idle
  <2>2. /\ audit' = Logged(audit, event, id, "mesh-gateway") /\ answer' = status
        /\ UNCHANGED <<store, environment>>
      BY <1>3, <2>1 DEF MeshAnswered, Respond
  <2>3. [event |-> event, id |-> id, to |-> "mesh-gateway"] \in AuditEntry
      BY <2>1 DEF AuditEntry
  <2>4. LogOK(audit')
      BY <2>1, <2>2, <2>3, LoggedType DEF Bounded
  <2>5. status \in Answer
      BY DEF Answer
  <2>6. QED BY <2>2, <2>4, <2>5, HandlerBounded DEF Bounded
<1>4. QED BY <1>1, <1>2, <1>3 DEF MeshResult

\* Every step keeps the cache and the log within their capacities.
LEMMA NextBounded == IInv /\ Bounded /\ [Next]_vars => Bounded'
<1> SUFFICES ASSUME IInv, Bounded, [Next]_vars PROVE Bounded'
    OBVIOUS
<1>1. ASSUME NEW r \in Requests, Handle(r) PROVE Bounded'
  <2>1. CASE \E p \in Payloads : Compose(r, p)
      BY <2>1, ComposeBounded
  <2>2. CASE IpawsTakes(r)
    <3>1. /\ delivered' = delivered \cup {Key(task[r].payload)}
          /\ UNCHANGED <<store, audit, answer, ipawsUp, crashes>>
        BY <2>2 DEF IpawsTakes, Becomes, memory
    <3>2. Key(task[r].payload) \in Keys
        BY <2>2, PostingType, KeyType DEF IpawsTakes, IInv, Typed
    <3>3. QED BY <3>1, <3>2 DEF Bounded, StoreOK, LogOK
  <2>3. CASE PostAccepted(r) \/ PostOddlyAnswered(r) \/ PostFails(r)
    <3>1. "success" \in Answer /\ "partial" \in Answer
        BY DEF Answer
    <3>2. QED BY <2>3, <3>1, SettleBounded DEF PostAccepted, PostOddlyAnswered, PostFails
  <2>4. CASE (\E id \in Ids : MeshRequest(r, id)) \/ MeshResult(r)
      BY <2>4, MeshBounded
  <2>5. QED BY <1>1, <2>1, <2>2, <2>3, <2>4 DEF Handle
<1>2. ASSUME NEW id \in Ids, ReadCached(id) PROVE Bounded'
  <2>1. store' = Get(store, id) /\ UNCHANGED <<audit, answer, environment>>
      BY <1>2 DEF ReadCached
  <2>2. StoreOK(store')
      BY <2>1, StoreType DEF Bounded
  <2>3. QED BY <2>1, <2>2, HandlerBounded DEF Bounded
<1>3. CASE Crash
  <2>1. store' = <<>> /\ audit' = <<>>
      BY <1>3 DEF Crash
  <2>2. StoreOK(store') /\ LogOK(audit')
    <3>1. <<>> \in Seq([id : Ids]) /\ <<>> \in Seq(AuditEntry) /\ Len(<<>>) = 0
        OBVIOUS
    <3>2. QED BY <2>1, <3>1, MaxEntriesAssumption, AuditMaxAssumption DEF StoreOK, LogOK
  <2>3. /\ answer' \in Answer /\ UNCHANGED <<ipawsUp, delivered>>
        /\ crashes' \in 0 .. MaxCrashes
      BY <1>3, MaxCrashesAssumption DEF Crash, Bounded, Answer
  <2>4. QED BY <2>2, <2>3 DEF Bounded, StoreOK, LogOK
<1>4. CASE Tick \/ IpawsFailsOrRecovers \/ UNCHANGED vars
  <2>1. UNCHANGED <<store, audit, answer, delivered, crashes>> /\ ipawsUp' \in BOOLEAN
      BY <1>4 DEF Tick, IpawsFailsOrRecovers, vars, memory, environment, Bounded
  <2>2. QED BY <2>1 DEF Bounded, StoreOK, LogOK
<1>5. QED BY <1>1, <1>2, <1>3, <1>4 DEF Next

\* For any payloads, requests, capacities and numbers of restarts: the cache
\* and the log never outgrow their limits, and a response has one of the
\* statuses of main.py:140-276.
THEOREM BridgeTypeCorrect == Spec => []TypeOK
<1>1. Init => Bounded
  <2> SUFFICES ASSUME Init PROVE Bounded
      OBVIOUS
  <2>1. <<>> \in Seq([id : Ids]) /\ <<>> \in Seq(AuditEntry) /\ Len(<<>>) = 0
      OBVIOUS
  <2>2. StoreOK(store) /\ LogOK(audit)
      BY <2>1, MaxEntriesAssumption, AuditMaxAssumption DEF Init, StoreOK, LogOK
  <2>3. QED BY <2>2, MaxCrashesAssumption DEF Init, Bounded, Answer
<1>2. IInv /\ Bounded => TypeOK
    BY DEF IInv, Typed, Bounded, StoreOK, LogOK, TypeOK
<1>3. QED BY <1>1, <1>2, NextBounded, Invariance, PTL DEF Spec

=============================================================================

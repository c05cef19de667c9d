------------------------- MODULE AlertRouterProofs -------------------------
(***************************************************************************)
(* The router: type correctness, an outcome for every channel, and the     *)
(* refinement of BreakerContract by both breakers, for all thresholds,     *)
(* alerts and any number of dispatches that share them.                    *)
(***************************************************************************)
EXTENDS AlertRouter, SharedOpsProofs, TLAPS

USE FailureThresholdAssumption, SuccessThresholdAssumption, TimeoutAssumption

----------------------------------------------------------------------------
(***************************************************************************)
(* One channel.  Between two states its breaker stays, admits, records an  *)
(* outcome, or ages.                                                       *)
(***************************************************************************)
\* The counters of a breaker match its state, and its last failure is no older
\* than its opening.
Sound(ch) ==
  LET b == breakers[ch] IN
  /\ b.state = "CLOSED" => b.failureCount < FailureThreshold
  /\ b.state # "HALF_OPEN" => b.successCount = 0
  /\ b.successCount < SuccessThreshold
  /\ b.state # "CLOSED" => b.sinceFailure # NoFailure
  /\ b.state = "OPEN" => b.sinceFailure <= openFor[ch]
  /\ b.state # "OPEN" => openFor[ch] = 0

ChannelOK(ch) ==
  breakers[ch] \in Breaker /\ openFor[ch] \in 0 .. Timeout /\ Sound(ch)

Tracked(ch) ==
  openFor'[ch] = IF breakers'[ch].state = breakers[ch].state THEN openFor[ch] ELSE 0

Stays(ch)  == breakers'[ch] = breakers[ch] /\ openFor'[ch] = openFor[ch]
Admitted(ch) ==
  Admits(breakers[ch]) /\ breakers'[ch] = Admit(breakers[ch]) /\ Tracked(ch)
Succeeds(ch) == breakers'[ch] = OnSuccess(breakers[ch]) /\ Tracked(ch)
Fails(ch)  == breakers'[ch] = OnFailure(breakers[ch]) /\ Tracked(ch)
Ages(ch)   ==
  /\ breakers'[ch] = Elapse(breakers[ch])
  /\ openFor'[ch] = IF breakers[ch].state = "OPEN" /\ openFor[ch] < Timeout
                    THEN openFor[ch] + 1 ELSE openFor[ch]

Moves(ch) == Stays(ch) \/ Admitted(ch) \/ Succeeds(ch) \/ Fails(ch) \/ Ages(ch)

\* Whatever a channel does keeps its breaker well formed and its counters
\* matched.
LEMMA MovesOK ==
  ASSUME NEW ch, ChannelOK(ch), Moves(ch)
  PROVE  ChannelOK(ch)'
<1> USE DEF ChannelOK
<1>1. CASE Stays(ch)
    BY <1>1 DEF Stays, Sound
<1>2. CASE Admitted(ch)
  <2>1. breakers'[ch] \in Breaker
    BY <1>2, AdmitType DEF Admitted
  <2>2. openFor'[ch] \in 0 .. Timeout
    BY <1>2 DEF Admitted, Tracked
  <2>3. Sound(ch)'
    BY <1>2 DEF Admitted, Tracked, Admit, Admits, Sound, Breaker, CircuitState, NoFailure
  <2>4. QED BY <2>1, <2>2, <2>3
<1>3. CASE Succeeds(ch)
  <2>1. breakers'[ch] \in Breaker
    BY <1>3, OnSuccessType DEF Succeeds, Sound
  <2>2. openFor'[ch] \in 0 .. Timeout
    BY <1>3 DEF Succeeds, Tracked
  <2>3. Sound(ch)'
    BY <1>3 DEF Succeeds, Tracked, OnSuccess, Sound, Breaker, CircuitState, NoFailure
  <2>4. QED BY <2>1, <2>2, <2>3
<1>4. CASE Fails(ch)
  <2>1. breakers'[ch] \in Breaker
    BY <1>4, OnFailureType DEF Fails
  <2>2. openFor'[ch] \in 0 .. Timeout
    BY <1>4 DEF Fails, Tracked
  <2>3. Sound(ch)'
    BY <1>4 DEF Fails, Tracked, OnFailure, Sound, Breaker, CircuitState, NoFailure
  <2>4. QED BY <2>1, <2>2, <2>3
<1>5. CASE Ages(ch)
  <2>1. breakers'[ch] \in Breaker
    BY <1>5, ElapseType DEF Ages
  <2>2. openFor'[ch] \in 0 .. Timeout
    BY <1>5 DEF Ages
  <2>3. Sound(ch)'
    BY <1>5 DEF Ages, Elapse, Sound, Breaker, NoFailure
  <2>4. QED BY <2>1, <2>2, <2>3
<1>6. QED BY <1>1, <1>2, <1>3, <1>4, <1>5 DEF Moves

\* The contract of one channel.
Contract(ch) ==
  INSTANCE BreakerContract WITH
    phase <- breakers[ch].state, run <- OutcomesInARow(breakers[ch]),
    openFor <- openFor[ch]

Mapped(ch) == <<breakers[ch].state, OutcomesInARow(breakers[ch]), openFor[ch]>>

\* An admission is a probe of the contract, or invisible.
LEMMA AdmittedContract ==
  ASSUME NEW ch, ChannelOK(ch), Admitted(ch)
  PROVE  Contract(ch)!Probe \/ UNCHANGED Mapped(ch)
<1> USE DEF ChannelOK, Sound, Breaker, CircuitState
<1>1. CASE breakers[ch].state = "OPEN"
  <2>1. openFor[ch] = Timeout /\ breakers'[ch].state = "HALF_OPEN" /\ openFor'[ch] = 0
    BY <1>1 DEF Admitted, Admits, Admit, ShouldAttemptReset, Tracked
  <2>2. OutcomesInARow(breakers'[ch]) = 0
    BY <1>1 DEF Admitted, Admit, OutcomesInARow
  <2>3. QED BY <1>1, <2>1, <2>2 DEF Contract!Probe, Contract!EnterPhase
<1>2. CASE breakers[ch].state # "OPEN"
    BY <1>2 DEF Admitted, Admit, Tracked, OutcomesInARow, Mapped
<1>3. QED BY <1>1, <1>2

\* A recorded success forgives earlier failures, counts towards recovery,
\* recovers, or (while open) is invisible.
LEMMA SucceedsContract ==
  ASSUME NEW ch, ChannelOK(ch), Succeeds(ch)
  PROVE  \/ Contract(ch)!Forgive \/ Contract(ch)!CountSuccess \/ Contract(ch)!Recover
         \/ UNCHANGED Mapped(ch)
<1> USE DEF ChannelOK, Breaker, CircuitState
<1>1. CASE breakers[ch].state = "CLOSED"
    BY <1>1 DEF Succeeds, Tracked, OnSuccess, OutcomesInARow, Contract!Forgive
<1>2. CASE breakers[ch].state = "OPEN"
    BY <1>2 DEF Succeeds, Tracked, OnSuccess, OutcomesInARow, Mapped
<1>3. CASE breakers[ch].state = "HALF_OPEN" /\ breakers[ch].successCount + 1 < SuccessThreshold
    BY <1>3 DEF Succeeds, Tracked, OnSuccess, OutcomesInARow, Contract!CountSuccess
<1>4. CASE breakers[ch].state = "HALF_OPEN" /\ breakers[ch].successCount + 1 >= SuccessThreshold
  <2>1. OutcomesInARow(breakers[ch]) + 1 = SuccessThreshold
    BY <1>4 DEF OutcomesInARow, Sound
  <2>2. breakers'[ch].state = "CLOSED" /\ OutcomesInARow(breakers'[ch]) = 0 /\ openFor'[ch] = 0
    BY <1>4 DEF Succeeds, Tracked, OnSuccess, OutcomesInARow
  <2>3. QED BY <1>4, <2>1, <2>2 DEF Contract!Recover, Contract!EnterPhase
<1>5. QED BY <1>1, <1>2, <1>3, <1>4

\* A recorded failure counts towards the trip, trips, relapses, or (while
\* open) is invisible.
LEMMA FailsContract ==
  ASSUME NEW ch, ChannelOK(ch), Fails(ch)
  PROVE  \/ Contract(ch)!CountFailure \/ Contract(ch)!Trip \/ Contract(ch)!Relapse
         \/ UNCHANGED Mapped(ch)
<1> USE DEF ChannelOK, Breaker, CircuitState
<1>1. CASE breakers[ch].state = "CLOSED" /\ breakers[ch].failureCount + 1 < FailureThreshold
    BY <1>1 DEF Fails, Tracked, OnFailure, OutcomesInARow, Contract!CountFailure
<1>2. CASE breakers[ch].state = "CLOSED" /\ breakers[ch].failureCount + 1 >= FailureThreshold
  <2>1. OutcomesInARow(breakers[ch]) + 1 = FailureThreshold
    BY <1>2 DEF OutcomesInARow, Sound
  <2>2. breakers'[ch].state = "OPEN" /\ OutcomesInARow(breakers'[ch]) = 0 /\ openFor'[ch] = 0
    BY <1>2 DEF Fails, Tracked, OnFailure, OutcomesInARow
  <2>3. QED BY <1>2, <2>1, <2>2 DEF Contract!Trip, Contract!EnterPhase
<1>3. CASE breakers[ch].state = "OPEN"
    BY <1>3 DEF Fails, Tracked, OnFailure, OutcomesInARow, Mapped, Sound
<1>4. CASE breakers[ch].state = "HALF_OPEN"
  <2>1. breakers'[ch].state = "OPEN" /\ OutcomesInARow(breakers'[ch]) = 0 /\ openFor'[ch] = 0
    BY <1>4 DEF Fails, Tracked, OnFailure, OutcomesInARow
  <2>2. QED BY <1>4, <2>1 DEF Contract!Relapse, Contract!EnterPhase
<1>5. QED BY <1>1, <1>2, <1>3, <1>4

\* A tick is a tick of the contract while the circuit is open.
LEMMA AgesContract ==
  ASSUME NEW ch, ChannelOK(ch), Ages(ch)
  PROVE  Contract(ch)!Wait \/ UNCHANGED Mapped(ch)
<1> USE DEF ChannelOK, Breaker, CircuitState, Ages, Elapse, OutcomesInARow
<1>1. CASE breakers[ch].state = "OPEN" /\ openFor[ch] < Timeout
    BY <1>1 DEF Contract!Wait
<1>2. CASE ~(breakers[ch].state = "OPEN" /\ openFor[ch] < Timeout)
    BY <1>2 DEF Mapped
<1>3. QED BY <1>1, <1>2

\* Whatever a channel does is a step of its contract, or invisible.
LEMMA MovesContract ==
  ASSUME NEW ch, ChannelOK(ch), Moves(ch)
  PROVE  Contract(ch)!Next \/ UNCHANGED Mapped(ch)
<1>1. CASE Stays(ch)
    BY <1>1 DEF Stays, Mapped, OutcomesInARow
<1>2. QED
    BY <1>1, AdmittedContract, SucceedsContract, FailsContract, AgesContract
       DEF Moves, Contract!Next

----------------------------------------------------------------------------
(***************************************************************************)
(* One job.  The rapid channel is decided before the mesh channel is       *)
(* tried, so what a job reports depends on where it waits.                 *)
(***************************************************************************)
Answered(j, ch) ==
  /\ Sends(j, ch) <=> j.outcome[ch] # "none"
  /\ j.taken[ch] => j.outcome[ch] \in {"dispatched", "errors"}

Untried(j, ch) == j.outcome[ch] = "none" /\ ~j.taken[ch]

JobOK(j) ==
  /\ j.pc \in {"auth", "post"} =>
       Sends(j, "rapid") /\ Untried(j, "rapid") /\ Untried(j, "mesh")
  /\ j.pc = "mesh" =>
       Sends(j, "mesh") /\ Answered(j, "rapid") /\ Untried(j, "mesh")
  /\ j.pc = "done" => Answered(j, "rapid") /\ Answered(j, "mesh")

IInv ==
  /\ TypeOK
  /\ \A ch \in Channel : ChannelOK(ch)
  /\ \A d \in Slots : JobOK(jobs[d])

\* A job that is set to one that is well formed leaves all well formed.
LEMMA BecomesJobs ==
  ASSUME IInv, NEW d \in Slots, NEW j \in Job, JobOK(j), NEW b, Becomes(d, j, b)
  PROVE  clients' = clients /\ jobs' \in [Slots -> Job] /\ \A e \in Slots : JobOK(jobs'[e])
<1>1. jobs' = [jobs EXCEPT ![d] = j] /\ jobs \in [Slots -> Job]
    BY DEF Becomes, IInv, TypeOK
<1>2. jobs' \in [Slots -> Job]
    BY <1>1
<1>3. ASSUME NEW e \in Slots PROVE JobOK(jobs'[e])
  <2>1. CASE e = d
      BY <2>1, <1>1
  <2>2. CASE e # d
      BY <2>2, <1>1 DEF IInv
  <2>3. QED BY <2>1, <2>2
<1>4. QED BY <1>2, <1>3 DEF Becomes

\* A job whose rapid channel is decided ends its dispatch, or tries the mesh.
LEMMA ToMeshJobs ==
  ASSUME IInv, NEW d \in Slots, NEW j \in Job, Answered(j, "rapid"), Untried(j, "mesh"),
         NEW b, ToMesh(d, j, b)
  PROVE  clients' = clients /\ jobs' \in [Slots -> Job] /\ \A e \in Slots : JobOK(jobs'[e])
<1>1. CASE ~Sends(j, "mesh") /\ Becomes(d, [j EXCEPT !.pc = "done"], b)
  <2> DEFINE k == [j EXCEPT !.pc = "done"]
  <2>1. k \in Job
      BY DEF Job
  <2>2. k.pc = "done" /\ k.wants = j.wants /\ k.outcome = j.outcome /\ k.taken = j.taken
      BY DEF Job
  <2>3. JobOK(k)
      BY <1>1, <2>2 DEF JobOK, Answered, Untried, Sends
  <2>4. QED BY <1>1, <2>1, <2>3, BecomesJobs
<1>2. CASE Sends(j, "mesh") /\ Becomes(d, [j EXCEPT !.pc = "done", !.outcome["mesh"] = "skipped"], b)
  <2> DEFINE o == [j.outcome EXCEPT !["mesh"] = "skipped"]
  <2> DEFINE k == [j EXCEPT !.pc = "done", !.outcome["mesh"] = "skipped"]
  <2>1. o \in [Channel -> Outcome] /\ o["mesh"] = "skipped" /\ o["rapid"] = j.outcome["rapid"]
      BY DEF Job, Channel, Outcome
  <2>2. k.pc = "done" /\ k.wants = j.wants /\ k.outcome = o /\ k.taken = j.taken
      BY DEF Job
  <2>3. k \in Job
      BY <2>1 DEF Job
  <2>4. JobOK(k)
      BY <1>2, <2>1, <2>2 DEF JobOK, Answered, Untried, Sends
  <2>5. QED BY <1>2, <2>3, <2>4, BecomesJobs
<1>3. CASE Sends(j, "mesh") /\ Becomes(d, [j EXCEPT !.pc = "mesh"], [b EXCEPT !["mesh"] = Admit(@)])
  <2> DEFINE k == [j EXCEPT !.pc = "mesh"]
  <2>1. k \in Job
      BY DEF Job
  <2>2. k.pc = "mesh" /\ k.wants = j.wants /\ k.outcome = j.outcome /\ k.taken = j.taken
      BY DEF Job
  <2>3. JobOK(k)
      BY <1>3, <2>2 DEF JobOK, Answered, Untried, Sends
  <2>4. QED BY <1>3, <2>1, <2>3, BecomesJobs
<1>4. QED BY <1>1, <1>2, <1>3 DEF ToMesh

\* What the step does to the two breakers, when it goes on to the mesh.
LEMMA ToMeshMoves ==
  ASSUME IInv, NEW d, NEW j, NEW b \in [Channel -> Breaker],
         b["mesh"] = breakers["mesh"], ToMesh(d, j, b)
  PROVE  /\ breakers' \in [Channel -> Breaker]
         /\ openFor' \in [Channel -> 0 .. Timeout]
         /\ Moves("mesh")
         /\ breakers'["rapid"] = b["rapid"] /\ Tracked("rapid")
<1>1. PICK c \in [Channel -> Breaker] :
        /\ \E k : Becomes(d, k, c)
        /\ c["rapid"] = b["rapid"]
        /\ \/ c["mesh"] = b["mesh"]
           \/ Admits(b["mesh"]) /\ c["mesh"] = Admit(b["mesh"])
  <2>1. [b EXCEPT !["mesh"] = Admit(@)] \in [Channel -> Breaker]
      BY AdmitType DEF Channel
  <2>2. QED BY <2>1 DEF ToMesh, Channel
<1>2. /\ breakers' = c
      /\ openFor' = [ch \in Channel |-> IF c[ch].state = breakers[ch].state
                                        THEN openFor[ch] ELSE 0]
    BY <1>1 DEF Becomes
<1>3. openFor' \in [Channel -> 0 .. Timeout]
    BY <1>2 DEF IInv, TypeOK
<1>4. Tracked("rapid") /\ Tracked("mesh")
    BY <1>2 DEF Tracked, Channel
<1>5. Moves("mesh")
    BY <1>1, <1>2, <1>4 DEF Moves, Stays, Admitted, Tracked
<1>6. QED BY <1>1, <1>2, <1>3, <1>4, <1>5

----------------------------------------------------------------------------
(***************************************************************************)
(* The steps.  Each action moves each channel as above and leaves every    *)
(* job well formed.                                                        *)
(***************************************************************************)
Sane ==
  /\ clients' = clients
  /\ breakers' \in [Channel -> Breaker]
  /\ openFor' \in [Channel -> 0 .. Timeout]
  /\ \A ch \in Channel : Moves(ch)
  /\ jobs' \in [Slots -> Job]
  /\ \A d \in Slots : JobOK(jobs'[d])

\* A step that sets one job and the breaker of at most one channel.
LEMMA BecomesSane ==
  ASSUME IInv, NEW d \in Slots, NEW j \in Job, JobOK(j), NEW b, Becomes(d, j, b),
         NEW ch \in Channel, NEW x \in Breaker, b = [breakers EXCEPT ![ch] = x],
         \/ x = breakers[ch]
         \/ Admits(breakers[ch]) /\ x = Admit(breakers[ch])
         \/ x = OnSuccess(breakers[ch])
         \/ x = OnFailure(breakers[ch])
  PROVE  Sane
<1>1. /\ breakers' = b
      /\ openFor' = [c \in Channel |-> IF b[c].state = breakers[c].state
                                       THEN openFor[c] ELSE 0]
    BY DEF Becomes
<1>2. breakers \in [Channel -> Breaker] /\ openFor \in [Channel -> 0 .. Timeout]
    BY DEF IInv, TypeOK
<1>3. breakers' \in [Channel -> Breaker] /\ openFor' \in [Channel -> 0 .. Timeout]
    BY <1>1, <1>2
<1>4. ASSUME NEW c \in Channel PROVE Moves(c)
  <2>1. Tracked(c)
      BY <1>1 DEF Tracked
  <2>2. CASE c = ch
    <3>1. breakers'[ch] = x
        BY <1>1, <1>2
    <3>2. QED BY <2>1, <2>2, <3>1 DEF Moves, Stays, Tracked, Admitted, Succeeds, Fails
  <2>3. CASE c # ch
    <3>1. breakers'[c] = breakers[c]
        BY <1>1, <1>2, <2>3
    <3>2. QED BY <2>1, <3>1 DEF Moves, Stays, Tracked
  <2>4. QED BY <2>2, <2>3
<1>5. QED BY <1>3, <1>4, BecomesJobs DEF Sane

\* The end of the rapid channel.
LEMMA RapidEndsSane ==
  ASSUME IInv, NEW d \in Slots, jobs[d].pc \in {"auth", "post"},
         NEW outcome \in {"dispatched", "errors"}, NEW taken \in BOOLEAN,
         NEW x \in Breaker,
         x = OnSuccess(breakers["rapid"]) \/ x = OnFailure(breakers["rapid"]),
         RapidEnds(d, outcome, taken, [breakers EXCEPT !["rapid"] = x])
  PROVE  Sane
<1> DEFINE k == [jobs[d] EXCEPT !.outcome["rapid"] = outcome, !.taken["rapid"] = taken]
<1> DEFINE b == [breakers EXCEPT !["rapid"] = x]
<1>1. jobs[d] \in Job /\ JobOK(jobs[d]) /\ breakers \in [Channel -> Breaker]
    BY DEF IInv, TypeOK
<1>2. b \in [Channel -> Breaker] /\ b["rapid"] = x /\ b["mesh"] = breakers["mesh"]
    BY <1>1 DEF Channel
<1>3. /\ [jobs[d].outcome EXCEPT !["rapid"] = outcome] \in [Channel -> Outcome]
      /\ [jobs[d].taken EXCEPT !["rapid"] = taken] \in [Channel -> BOOLEAN]
    BY <1>1 DEF Job, Outcome
<1>4. /\ k.wants = jobs[d].wants
      /\ k.outcome = [jobs[d].outcome EXCEPT !["rapid"] = outcome]
      /\ k.taken = [jobs[d].taken EXCEPT !["rapid"] = taken]
    BY <1>1 DEF Job
<1>5. k \in Job
    BY <1>1, <1>3 DEF Job
<1>6. Answered(k, "rapid") /\ Untried(k, "mesh")
    BY <1>1, <1>4 DEF Job, JobOK, Answered, Untried, Sends, Channel
<1>7. ToMesh(d, k, b)
    BY DEF RapidEnds
<1>8. /\ breakers' \in [Channel -> Breaker]
      /\ openFor' \in [Channel -> 0 .. Timeout]
      /\ Moves("mesh")
      /\ breakers'["rapid"] = x /\ Tracked("rapid")
  <2> HIDE DEF k, b
  <2> QED BY <1>2, <1>7, ToMeshMoves
<1>9. Moves("rapid")
    BY <1>8 DEF Moves, Succeeds, Fails
<1>10. clients' = clients /\ jobs' \in [Slots -> Job] /\ \A e \in Slots : JobOK(jobs'[e])
  <2> HIDE DEF k, b
  <2> QED BY <1>5, <1>6, <1>7, ToMeshJobs
<1>11. QED BY <1>8, <1>9, <1>10 DEF Sane, Channel

\* The end of the mesh channel.
LEMMA MeshEndsSane ==
  ASSUME IInv, NEW d \in Slots, NEW outcome \in {"dispatched", "errors"},
         NEW taken \in BOOLEAN, NEW x \in Breaker,
         x = OnSuccess(breakers["mesh"]) \/ x = OnFailure(breakers["mesh"]),
         MeshEnds(d, outcome, taken, x)
  PROVE  Sane
<1> DEFINE k == [jobs[d] EXCEPT !.pc = "done", !.outcome["mesh"] = outcome,
                                !.taken["mesh"] = taken]
<1>1. jobs[d] \in Job /\ JobOK(jobs[d])
    BY DEF IInv, TypeOK
<1>2. /\ [jobs[d].outcome EXCEPT !["mesh"] = outcome] \in [Channel -> Outcome]
      /\ [jobs[d].taken EXCEPT !["mesh"] = taken] \in [Channel -> BOOLEAN]
    BY <1>1 DEF Job, Outcome
<1>3. /\ k.pc = "done" /\ k.wants = jobs[d].wants
      /\ k.outcome = [jobs[d].outcome EXCEPT !["mesh"] = outcome]
      /\ k.taken = [jobs[d].taken EXCEPT !["mesh"] = taken]
    BY <1>1 DEF Job
<1>4. k \in Job
    BY <1>1, <1>2 DEF Job
<1>5. jobs[d].pc = "mesh"
    BY DEF MeshEnds
<1>6. JobOK(k)
    BY <1>1, <1>3, <1>5 DEF Job, JobOK, Answered, Untried, Sends, Channel
<1>7. Becomes(d, k, [breakers EXCEPT !["mesh"] = x])
    BY DEF MeshEnds
<1> HIDE DEF k
<1>8. "mesh" \in Channel
    BY DEF Channel
<1>9. QED BY <1>4, <1>6, <1>7, <1>8, BecomesSane

\* What OnSuccess and OnFailure make of a channel's breaker is well formed.
LEMMA RecordType ==
  ASSUME IInv, NEW ch \in Channel
  PROVE  OnSuccess(breakers[ch]) \in Breaker /\ OnFailure(breakers[ch]) \in Breaker
<1>1. breakers[ch] \in Breaker /\ breakers[ch].successCount < SuccessThreshold
    BY DEF IInv, ChannelOK, Sound
<1>2. QED BY <1>1, OnSuccessType, OnFailureType

\* A new dispatch.
LEMMA BeginSane ==
  ASSUME IInv, NEW d \in Slots, NEW a \in Alerts, Begin(d, a)
  PROVE  Sane /\ UNCHANGED <<token, service>>
<1> DEFINE j == NewJob(Decide(a))
<1>0. UNCHANGED <<token, service>>
    BY DEF Begin
<1>1. breakers \in [Channel -> Breaker] /\ token \in Token
    BY DEF IInv, TypeOK
<1>2. \A ch \in Channel : Decide(a)[ch] \in BOOLEAN
  <2>1. Decide(a)["rapid"] = (a.public /\ a.severity > 0)
        /\ Decide(a)["mesh"] = (a.severity >= MeshThreshold)
      BY Zenon DEF Decide, Channel
  <2>2. Decide(a)["rapid"] \in BOOLEAN /\ Decide(a)["mesh"] \in BOOLEAN
      BY <2>1
  <2>3. QED BY <2>2 DEF Channel
<1>3. Decide(a) \in [Channel -> BOOLEAN]
    BY <1>2 DEF Decide
<1>4. /\ j \in Job /\ j.pc = "idle" /\ j.wants = Decide(a) /\ j.bearer = "none"
      /\ j.outcome = [ch \in Channel |-> "none"] /\ j.taken = [ch \in Channel |-> FALSE]
    BY <1>3 DEF NewJob, Job, Token, Outcome
<1>5. Untried(j, "rapid") /\ Untried(j, "mesh")
    BY <1>4 DEF Untried, Channel
<1>6. CASE ~Sends(j, "rapid") /\ ToMesh(d, j, breakers)
  <2>1. Answered(j, "rapid")
      BY <1>5, <1>6 DEF Answered, Untried, Sends
  <2> HIDE DEF j
  <2>2. /\ breakers' \in [Channel -> Breaker] /\ openFor' \in [Channel -> 0 .. Timeout]
        /\ Moves("mesh") /\ breakers'["rapid"] = breakers["rapid"] /\ Tracked("rapid")
      BY <1>1, <1>6, ToMeshMoves
  <2>3. clients' = clients /\ jobs' \in [Slots -> Job] /\ \A e \in Slots : JobOK(jobs'[e])
      BY <1>4, <1>5, <1>6, <2>1, ToMeshJobs
  <2>4. Moves("rapid")
      BY <2>2 DEF Moves, Stays, Tracked
  <2>5. QED BY <1>0, <2>2, <2>3, <2>4 DEF Sane, Channel
<1>7. CASE Sends(j, "rapid") /\ ToMesh(d, [j EXCEPT !.outcome["rapid"] = "skipped"], breakers)
  <2> DEFINE k == [j EXCEPT !.outcome["rapid"] = "skipped"]
  <2> DEFINE o == [j.outcome EXCEPT !["rapid"] = "skipped"]
  <2> HIDE DEF j
  <2>1. o \in [Channel -> Outcome] /\ o["rapid"] = "skipped" /\ o["mesh"] = "none"
      BY <1>4 DEF Channel, Outcome
  <2>2. k.wants = j.wants /\ k.outcome = o /\ k.taken = j.taken
      BY <1>4 DEF Job
  <2>3. k \in Job
      BY <1>4, <2>1 DEF Job
  <2>4. Answered(k, "rapid") /\ Untried(k, "mesh")
      BY <1>5, <1>7, <2>1, <2>2 DEF Answered, Untried, Sends
  <2>5. ToMesh(d, k, breakers)
      BY <1>7
  <2> HIDE DEF k, o
  <2>6. /\ breakers' \in [Channel -> Breaker] /\ openFor' \in [Channel -> 0 .. Timeout]
        /\ Moves("mesh") /\ breakers'["rapid"] = breakers["rapid"] /\ Tracked("rapid")
      BY <1>1, <2>5, ToMeshMoves
  <2>7. clients' = clients /\ jobs' \in [Slots -> Job] /\ \A e \in Slots : JobOK(jobs'[e])
      BY <2>3, <2>4, <2>5, ToMeshJobs
  <2>8. Moves("rapid")
      BY <2>6 DEF Moves, Stays, Tracked
  <2>9. QED BY <1>0, <2>6, <2>7, <2>8 DEF Sane, Channel
<1>8. CASE /\ Sends(j, "rapid") /\ Admits(breakers["rapid"])
           /\ Becomes(d, [j EXCEPT !.pc = IF token = "none" THEN "auth" ELSE "post",
                                   !.bearer = token],
                      [breakers EXCEPT !["rapid"] = Admit(@)])
  <2> DEFINE p == IF token = "none" THEN "auth" ELSE "post"
  <2> DEFINE k == [j EXCEPT !.pc = p, !.bearer = token]
  <2> HIDE DEF j
  <2>1. p \in {"auth", "post"}
      OBVIOUS
  <2> HIDE DEF p
  <2>2. k.pc = p /\ k.wants = j.wants /\ k.outcome = j.outcome /\ k.taken = j.taken
      BY <1>4 DEF Job
  <2>3. k \in Job
      BY <1>1, <1>4, <2>1 DEF Job
  <2>4. JobOK(k)
      BY <1>5, <1>8, <2>1, <2>2 DEF JobOK, Untried, Sends
  <2>5. Becomes(d, k, [breakers EXCEPT !["rapid"] = Admit(breakers["rapid"])])
      BY <1>8 DEF p
  <2>6. Admit(breakers["rapid"]) \in Breaker /\ "rapid" \in Channel
      BY <1>1, AdmitType DEF Channel
  <2> HIDE DEF k
  <2>7. QED BY <1>0, <1>8, <2>3, <2>4, <2>5, <2>6, BecomesSane
<1>9. QED BY <1>0, <1>6, <1>7, <1>8 DEF Begin

\* A dispatch goes on to its post, with a token or without.
LEMMA GoOnSane ==
  ASSUME IInv, NEW d \in Slots, Authenticating(d), NEW t \in {"good", "none"}, GoOnWith(d, t)
  PROVE  Sane
<1> DEFINE k == [jobs[d] EXCEPT !.pc = "post", !.bearer = t]
<1>1. jobs[d] \in Job /\ JobOK(jobs[d]) /\ jobs[d].pc = "auth"
    BY DEF IInv, TypeOK, Authenticating
<1>2. /\ k.pc = "post" /\ k.wants = jobs[d].wants /\ k.outcome = jobs[d].outcome
      /\ k.taken = jobs[d].taken
    BY <1>1 DEF Job
<1>3. k \in Job
    BY <1>1 DEF Job, Token
<1>4. JobOK(k)
    BY <1>1, <1>2 DEF JobOK, Untried, Sends
<1>5. Becomes(d, k, breakers)
    BY DEF GoOnWith
<1>6. /\ breakers["rapid"] \in Breaker /\ "rapid" \in Channel
      /\ breakers = [breakers EXCEPT !["rapid"] = breakers["rapid"]]
    BY DEF IInv, TypeOK, Channel
<1> HIDE DEF k
<1>7. QED BY <1>3, <1>4, <1>5, <1>6, BecomesSane

\* Steps that touch no breaker, and of the jobs at most their tokens.
LEMMA AsideSane ==
  ASSUME IInv, UNCHANGED <<clients, breakers, openFor>>, jobs' \in [Slots -> Job],
         \A d \in Slots : /\ jobs'[d].pc = jobs[d].pc /\ jobs'[d].wants = jobs[d].wants
                          /\ jobs'[d].outcome = jobs[d].outcome
                          /\ jobs'[d].taken = jobs[d].taken
  PROVE  Sane
<1>1. \A d \in Slots : JobOK(jobs'[d])
    BY DEF IInv, JobOK, Answered, Untried, Sends
<1>2. QED BY <1>1 DEF IInv, TypeOK, Sane, Moves, Stays

\* Every step moves each channel as its breaker allows.
LEMMA NextSane == IInv /\ [Next]_vars => Sane /\ token' \in Token /\ service' \in [Channel -> Health]
<1> SUFFICES ASSUME IInv, [Next]_vars
             PROVE  Sane /\ token' \in Token /\ service' \in [Channel -> Health]
    OBVIOUS
<1>1. token \in Token /\ service \in [Channel -> Health] /\ jobs \in [Slots -> Job]
    BY DEF IInv, TypeOK
<1>2. ASSUME NEW d \in Slots, NEW a \in Alerts, Begin(d, a) PROVE Sane /\ UNCHANGED <<token, service>>
    BY <1>2, BeginSane
<1>3. ASSUME NEW d \in Slots, Authenticated(d) PROVE Sane /\ token' = "good" /\ UNCHANGED service
    BY <1>3, GoOnSane DEF Authenticated, GoOnWith, Authenticating
<1>4. ASSUME NEW d \in Slots, AuthFails(d) \/ AuthEmpty(d)
      PROVE  Sane /\ token' = "none" /\ UNCHANGED service
    BY <1>4, GoOnSane DEF AuthFails, AuthEmpty, GoOnWith, Authenticating
<1>5. ASSUME NEW d \in Slots, AuthGarbled(d) PROVE Sane /\ UNCHANGED <<token, service>>
  <2>1. RapidEnds(d, "errors", FALSE,
                  [breakers EXCEPT !["rapid"] = OnFailure(breakers["rapid"])])
        /\ jobs[d].pc = "auth"
      BY <1>5 DEF AuthGarbled, Authenticating
  <2>2. OnFailure(breakers["rapid"]) \in Breaker
      BY RecordType DEF Channel
  <2>3. Sane
      BY <2>1, <2>2, RapidEndsSane
  <2>4. QED BY <1>5, <2>3 DEF AuthGarbled, Authenticating
<1>6. ASSUME NEW d \in Slots, RapidAnswered(d) PROVE Sane /\ UNCHANGED <<token, service>>
  <2>1. jobs[d].pc = "post" /\ UNCHANGED <<token, service>>
      BY <1>6 DEF RapidAnswered
  <2>2. (jobs[d].bearer = "good") \in BOOLEAN
      OBVIOUS
  <2>3. PICK taken \in BOOLEAN :
          RapidEnds(d, "dispatched", taken,
                    [breakers EXCEPT !["rapid"] = OnSuccess(breakers["rapid"])])
      BY <1>6, <2>2 DEF RapidAnswered
  <2>4. OnSuccess(breakers["rapid"]) \in Breaker
      BY RecordType DEF Channel
  <2>5. QED BY <2>1, <2>3, <2>4, RapidEndsSane
<1>7. ASSUME NEW d \in Slots, MeshSent(d) \/ MeshFailed(d) \/ MeshGarbled(d)
      PROVE  Sane /\ UNCHANGED <<token, service>>
  <2>1. OnSuccess(breakers["mesh"]) \in Breaker /\ OnFailure(breakers["mesh"]) \in Breaker
      BY RecordType DEF Channel
  <2>2. PICK taken \in BOOLEAN :
          \/ MeshEnds(d, "dispatched", taken, OnSuccess(breakers["mesh"]))
          \/ MeshEnds(d, "errors", taken, OnFailure(breakers["mesh"]))
      BY <1>7 DEF MeshSent, MeshFailed, MeshGarbled
  <2>3. Sane
      BY <2>1, <2>2, MeshEndsSane
  <2>4. QED BY <2>2, <2>3 DEF MeshEnds
<1>8. CASE Tick
  <2>1. breakers' \in [Channel -> Breaker]
      BY <1>8, ElapseType DEF Tick, IInv, TypeOK
  <2>2. openFor' \in [Channel -> 0 .. Timeout]
      BY <1>8 DEF Tick, IInv, TypeOK
  <2>3. \A ch \in Channel : Moves(ch)
      BY <1>8 DEF Tick, Moves, Ages
  <2>4. jobs' = jobs /\ UNCHANGED <<clients, token, service>>
      BY <1>8 DEF Tick
  <2>5. QED BY <1>1, <2>1, <2>2, <2>3, <2>4 DEF Sane, IInv
<1>9. CASE TokenExpires
  <2>1. token' = "stale" /\ UNCHANGED <<clients, breakers, service, openFor>>
      BY <1>9 DEF TokenExpires
  <2>2. jobs' = [d \in Slots |-> [jobs[d] EXCEPT
                   !.bearer = IF jobs[d].bearer = "good" THEN "stale" ELSE jobs[d].bearer]]
      BY <1>9 DEF TokenExpires
  <2>3. ASSUME NEW d \in Slots
        PROVE  /\ jobs'[d] \in Job
               /\ jobs'[d].pc = jobs[d].pc /\ jobs'[d].wants = jobs[d].wants
               /\ jobs'[d].outcome = jobs[d].outcome /\ jobs'[d].taken = jobs[d].taken
    <3> DEFINE t == IF jobs[d].bearer = "good" THEN "stale" ELSE jobs[d].bearer
    <3>1. jobs'[d] = [jobs[d] EXCEPT !.bearer = t]
        BY <2>2
    <3>2. jobs[d] \in Job
        BY <1>1
    <3>3. t \in Token
        BY <3>2 DEF Job, Token
    <3> HIDE DEF t
    <3>4. QED BY <3>1, <3>2, <3>3 DEF Job
  <2>4. jobs' \in [Slots -> Job]
      BY <2>2, <2>3
  <2>5. Sane
      BY <2>1, <2>3, <2>4, AsideSane
  <2>6. QED BY <1>1, <2>1, <2>5 DEF Token
<1>10. CASE ServiceChanges
  <2>1. service' \in [Channel -> Health] /\ UNCHANGED <<clients, breakers, token, jobs, openFor>>
      BY <1>1, <1>10 DEF ServiceChanges
  <2>2. QED BY <1>1, <2>1, AsideSane
<1>11. CASE UNCHANGED vars
    BY <1>1, <1>11, AsideSane DEF vars
<1>12. QED
    BY <1>1, <1>2, <1>3, <1>4, <1>5, <1>6, <1>7, <1>8, <1>9, <1>10, <1>11
       DEF Next, Awaited, Token

----------------------------------------------------------------------------
\* The initial state satisfies the invariant.
LEMMA InitIInv == Init => IInv
<1> SUFFICES ASSUME Init PROVE IInv
    OBVIOUS
<1>1. /\ breakers = [ch \in Channel |-> NewBreaker]
      /\ openFor = [ch \in Channel |-> 0]
      /\ token \in Token /\ service \in [Channel -> Health] /\ clients \in SUBSET Channel
    BY DEF Init, Token, Health
<1>2. \A ch \in Channel : ChannelOK(ch)
    BY <1>1, NewBreakerType DEF ChannelOK, Sound, NewBreaker
<1> DEFINE j == NewJob([ch \in Channel |-> FALSE])
<1>3. j \in Job /\ j.pc = "idle"
    BY DEF NewJob, Job, Token, Outcome
<1>4. JobOK(j)
  <2> HIDE DEF j
  <2> QED BY <1>3 DEF JobOK
<1>5. jobs = [d \in Slots |-> j]
    BY DEF Init
<1>6. TypeOK
  <2> HIDE DEF j
  <2> QED BY <1>1, <1>3, <1>5, NewBreakerType DEF TypeOK
<1>7. \A d \in Slots : JobOK(jobs[d])
  <2> HIDE DEF j
  <2> QED BY <1>4, <1>5
<1>8. QED BY <1>2, <1>6, <1>7 DEF IInv

\* Every step preserves the invariant.
LEMMA NextIInv == IInv /\ [Next]_vars => IInv'
<1> SUFFICES ASSUME IInv, [Next]_vars PROVE IInv'
    OBVIOUS
<1>1. Sane /\ token' \in Token /\ service' \in [Channel -> Health]
    BY NextSane
<1>2. TypeOK'
    BY <1>1 DEF Sane, TypeOK, IInv
<1>3. ASSUME NEW ch \in Channel PROVE ChannelOK(ch)'
    BY <1>1, MovesOK DEF Sane, IInv
<1>4. (\A ch \in Channel : ChannelOK(ch))'
    BY <1>3 DEF Channel
<1>5. (\A d \in Slots : JobOK(jobs[d]))'
    BY <1>1 DEF Sane, JobOK, Answered, Untried, Sends
<1>6. QED BY <1>2, <1>4, <1>5 DEF IInv

\* The invariant holds in every reachable state.
THEOREM Invariance == Spec => []IInv
  BY InitIInv, NextIInv, PTL DEF Spec

\* Type correctness of the router, its breakers and its clients, for any number
\* of dispatches and all thresholds.
THEOREM RouterTypeCorrect == Spec => []TypeOK
<1>1. IInv => TypeOK
    BY DEF IInv
<1>2. QED BY Invariance, <1>1, PTL

\* A dispatch that returns has an outcome for each channel decided on that has a
\* client, and for no other, and what it does not report as tried was not taken by
\* the service, whatever happened to the other channel and whichever clients are
\* missing (EveryChannelAnswered, router.py:79-122).
THEOREM NoChannelLost == Spec => []EveryChannelAnswered
<1>1. IInv => EveryChannelAnswered
  <2> SUFFICES ASSUME IInv, NEW d \in Slots, jobs[d].pc = "done", NEW ch \in Channel
               PROVE  Answered(jobs[d], ch)
      BY DEF EveryChannelAnswered, Answered
  <2>1. Answered(jobs[d], "rapid") /\ Answered(jobs[d], "mesh")
      BY DEF IInv, JobOK
  <2>2. QED BY <2>1 DEF Channel
<1>2. QED BY Invariance, <1>1, PTL

----------------------------------------------------------------------------
\* Every step of the router is a step of the contract of the rapid channel's
\* breaker, or invisible to it.
LEMMA NextRapid == IInv /\ [Next]_vars => [RapidContract!Next]_(RapidContract!vars)
<1> SUFFICES ASSUME IInv, [Next]_vars PROVE [RapidContract!Next]_(RapidContract!vars)
    OBVIOUS
<1>1. ChannelOK("rapid") /\ Moves("rapid")
    BY NextSane DEF IInv, Sane, Channel
<1>2. Contract("rapid")!Next \/ UNCHANGED Mapped("rapid")
    BY <1>1, MovesContract
<1>3. QED
    BY <1>2 DEF Mapped, RapidContract!vars, Contract!Next, RapidContract!Next,
      Contract!CountFailure, RapidContract!CountFailure, Contract!Forgive,
      RapidContract!Forgive, Contract!Trip, RapidContract!Trip, Contract!Wait,
      RapidContract!Wait, Contract!Probe, RapidContract!Probe, Contract!CountSuccess,
      RapidContract!CountSuccess, Contract!Recover, RapidContract!Recover,
      Contract!Relapse, RapidContract!Relapse, Contract!EnterPhase,
      RapidContract!EnterPhase

\* The same for the mesh channel's breaker.
LEMMA NextMesh == IInv /\ [Next]_vars => [MeshContract!Next]_(MeshContract!vars)
<1> SUFFICES ASSUME IInv, [Next]_vars PROVE [MeshContract!Next]_(MeshContract!vars)
    OBVIOUS
<1>1. ChannelOK("mesh") /\ Moves("mesh")
    BY NextSane DEF IInv, Sane, Channel
<1>2. Contract("mesh")!Next \/ UNCHANGED Mapped("mesh")
    BY <1>1, MovesContract
<1>3. QED
    BY <1>2 DEF Mapped, MeshContract!vars, Contract!Next, MeshContract!Next,
      Contract!CountFailure, MeshContract!CountFailure, Contract!Forgive,
      MeshContract!Forgive, Contract!Trip, MeshContract!Trip, Contract!Wait,
      MeshContract!Wait, Contract!Probe, MeshContract!Probe, Contract!CountSuccess,
      MeshContract!CountSuccess, Contract!Recover, MeshContract!Recover,
      Contract!Relapse, MeshContract!Relapse, Contract!EnterPhase,
      MeshContract!EnterPhase

\* Both breakers start as the contract does.
LEMMA InitContracts == Init => RapidContract!Init /\ MeshContract!Init
  BY DEF Init, RapidContract!Init, MeshContract!Init, NewBreaker, OutcomesInARow, Channel

\* Both breakers implement BreakerContract, for any number of dispatches that
\* share them and whichever exceptions leave the clients: no early trip, no
\* early probe, no early recovery.
THEOREM BothBreakersImplementContract == Spec => BreakersKeepContract
  BY InitContracts, NextRapid, NextMesh, Invariance, PTL
     DEF Spec, RapidContract!Spec, MeshContract!Spec, BreakersKeepContract

=============================================================================

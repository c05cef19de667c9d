---------------------------- MODULE RetryEngine ----------------------------
(***************************************************************************)
(* modules/routing/retry_engine.py: pending deliveries, the outcomes of    *)
(* their attempts, and the dead-letter queue.  Each method runs without    *)
(* interruption, as on the event loop.  The engine posts nothing itself:   *)
(* workers (external; nothing in src/ has them yet) attempt what is        *)
(* pending and report the outcome under the delivery's id, late or never.  *)
(* The backoff that record_failure returns holds no worker back, and a     *)
(* delivery whose worker dies may stay pending for ever: the engine has no *)
(* timer of its own.                                                       *)
(*                                                                         *)
(* A submission is known by its place in submissions.                      *)
(***************************************************************************)
EXTENDS Integers, Sequences, FiniteSets, SequencesExt

CONSTANTS DeliveryIds,
          Workers,         \* attempts under way at one time
          MaxRetries,      \* max_retries
          MaxSubmissions   \* bound of this model: calls of submit

ASSUME RetryAssumption == MaxRetries \in Nat \ {0} /\ MaxSubmissions \in Nat

VARIABLES submissions,  \* the RetryableDelivery objects, in order of submit
          pending,      \* _pending: id -> submission
          deadLetter,   \* _dead_letter
          totals,       \* _total_delivered and _total_failed
          attempt,      \* the attempt each worker makes (environment)
          taken,        \* submissions whose destination took them (environment)
          replaced      \* history: submissions replaced while pending

engine == <<submissions, pending, deadLetter, totals>>
retryVars == <<submissions, pending, deadLetter, totals, attempt, taken, replaced>>

Submissions == 1 .. MaxSubmissions
NoAttempt == [of |-> 0, ok |-> FALSE]

RetryTypeOK ==
  /\ submissions \in Seq([id : DeliveryIds, failures : 0 .. MaxRetries,
                          completed : BOOLEAN, deadLettered : BOOLEAN])
  /\ Len(submissions) <= MaxSubmissions
  /\ DOMAIN pending \subseteq DeliveryIds
  /\ \A id \in DOMAIN pending : /\ pending[id] \in DOMAIN submissions
                                /\ submissions[pending[id]].id = id
  /\ deadLetter \in Seq(Submissions)
  /\ totals \in [delivered : Nat, failed : Nat]
  /\ attempt \in [Workers -> [of : 0 .. MaxSubmissions, ok : BOOLEAN]]
  /\ taken \subseteq Submissions /\ replaced \subseteq Submissions

RetryInit ==
  /\ submissions = <<>> /\ pending = <<>> /\ deadLetter = <<>>
  /\ totals = [delivered |-> 0, failed |-> 0]
  /\ attempt = [w \in Workers |-> NoAttempt]
  /\ taken = {} /\ replaced = {}

\* Mutant: what is settled stays pending.
StillPendingAll(id) == pending

\* del self._pending[delivery_id]
StillPending(id) == [i \in DOMAIN pending \ {id} |-> pending[i]]

----------------------------------------------------------------------------
(***************************************************************************)
(* The engine.                                                             *)
(***************************************************************************)
\* submit: a pending delivery of the same id is replaced.
SubmitDelivery(id) ==
  LET s == Len(submissions) + 1 IN
  /\ s <= MaxSubmissions
  /\ submissions' = Append(submissions, [id |-> id, failures |-> 0,
                                         completed |-> FALSE, deadLettered |-> FALSE])
  /\ pending' = [i \in DOMAIN pending \cup {id} |-> IF i = id THEN s ELSE pending[i]]
  /\ replaced' = IF id \in DOMAIN pending THEN replaced \cup {pending[id]} ELSE replaced
  /\ UNCHANGED <<deadLetter, totals, attempt, taken>>

\* record_success of an id that is pending.
RecordSuccess(id) ==
  /\ submissions' = [submissions EXCEPT ![pending[id]].completed = TRUE]
  /\ pending' = StillPending(id)
  /\ totals' = [totals EXCEPT !.delivered = @ + 1]
  /\ UNCHANGED deadLetter

\* has_retries_remaining, after the attempt has been appended.
RetriesRemain(s) == submissions[s].failures + 1 < MaxRetries

\* Mutant: a delivery that fails for good is closed as completed.
RecordFailureAsDone(id) ==
  LET s == pending[id] IN
  IF RetriesRemain(s)
  THEN /\ submissions' = [submissions EXCEPT ![s].failures = @ + 1]
       /\ UNCHANGED <<pending, deadLetter, totals>>
  ELSE /\ submissions' = [submissions EXCEPT ![s].completed = TRUE]
       /\ totals' = [totals EXCEPT !.delivered = @ + 1]
       /\ pending' = StillPending(id)
       /\ UNCHANGED deadLetter

\* record_failure of an id that is pending: another attempt may follow, or the
\* delivery goes to the dead-letter queue.
RecordFailure(id) ==
  LET s == pending[id] IN
  IF RetriesRemain(s)
  THEN /\ submissions' = [submissions EXCEPT ![s].failures = @ + 1]
       /\ UNCHANGED <<pending, deadLetter, totals>>
  ELSE /\ submissions' = [submissions EXCEPT ![s].failures = @ + 1,
                                             ![s].deadLettered = TRUE]
       /\ deadLetter' = Append(deadLetter, s)
       /\ totals' = [totals EXCEPT !.failed = @ + 1]
       /\ pending' = StillPending(id)

----------------------------------------------------------------------------
(***************************************************************************)
(* The workers.                                                            *)
(***************************************************************************)
StartAttempt(w, id) ==
  /\ attempt[w] = NoAttempt /\ id \in DOMAIN pending
  /\ attempt' = [attempt EXCEPT ![w] = [of |-> pending[id], ok |-> FALSE]]
  /\ UNCHANGED <<engine, taken, replaced>>

\* The destination takes the event; the answer is still to come.
Arrive(w) ==
  /\ attempt[w] # NoAttempt /\ ~attempt[w].ok
  /\ attempt' = [attempt EXCEPT ![w].ok = TRUE]
  /\ taken' = taken \cup {attempt[w].of}
  /\ UNCHANGED <<engine, replaced>>

\* The outcome is reported under the id; the engine ignores an id that is not
\* pending.  The answer of an event that was taken may be lost.
Report(w) ==
  LET id == submissions[attempt[w].of].id IN
  /\ attempt[w] # NoAttempt
  /\ attempt' = [attempt EXCEPT ![w] = NoAttempt]
  /\ IF id \in DOMAIN pending
     THEN \/ attempt[w].ok /\ RecordSuccess(id)
          \/ RecordFailure(id)
     ELSE UNCHANGED engine
  /\ UNCHANGED <<taken, replaced>>

\* The worker dies, and nothing is reported.
Abandon(w) ==
  /\ attempt[w] # NoAttempt
  /\ attempt' = [attempt EXCEPT ![w] = NoAttempt]
  /\ UNCHANGED <<engine, taken, replaced>>

RetryNext ==
  \/ \E id \in DeliveryIds : SubmitDelivery(id) \/ \E w \in Workers : StartAttempt(w, id)
  \/ \E w \in Workers : Arrive(w) \/ Report(w) \/ Abandon(w)

RetrySpec == RetryInit /\ [][RetryNext]_retryVars

----------------------------------------------------------------------------
(***************************************************************************)
(* Properties.                                                             *)
(***************************************************************************)
IsPending(s) == \E id \in DOMAIN pending : pending[id] = s

Phase(s) ==
  IF submissions[s].completed THEN "delivered"
  ELSE IF submissions[s].deadLettered THEN "dead"
  ELSE IF IsPending(s) THEN "pending" ELSE "replaced"

Contract == INSTANCE DeliveryContract
              WITH phase <- [s \in DOMAIN submissions |-> Phase(s)],
                   tries <- [s \in DOMAIN submissions |-> submissions[s].failures]

\* Late, repeated and misdirected outcomes change nothing that is settled, and
\* a delivery is dead after exactly MaxRetries failures (retry_engine.py:84-131).
KeepsDeliveryContract == Contract!Spec

\* Every submission is pending, in one total, or was replaced by another of
\* its id while it was pending (retry_engine.py:81, 98, 127), and the
\* dead-letter queue lists those that failed, each once.
EverySubmissionCounted ==
  /\ Len(submissions) = Cardinality(DOMAIN pending) + Cardinality(replaced)
                        + totals.delivered + totals.failed
  /\ Len(deadLetter) = totals.failed
  /\ ToSet(deadLetter) = {s \in DOMAIN submissions : submissions[s].deadLettered}

\* A delivery counted as delivered was taken by its destination, or an earlier
\* one of its id was: a late outcome counts for whatever is pending under the
\* id by then (retry_engine.py:81, 87).
DeliveredWasTaken ==
  \A s \in DOMAIN submissions :
    submissions[s].completed =>
      \E r \in taken : r <= s /\ submissions[r].id = submissions[s].id

\* What the totals say is so.
TotalsAreHonest == EverySubmissionCounted /\ DeliveredWasTaken

=============================================================================

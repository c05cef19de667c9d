----------------------------- MODULE AuditTrail -----------------------------
(***************************************************************************)
(* modules/audit/audit_logger.py: the log, trimmed to its newest entries;  *)
(* the correlation id of each alert, kept for good; and the queries.  The  *)
(* handlers log from the event loop, one call at a time.  Module Bridge    *)
(* has the log inside the submission pipeline, without the queries.        *)
(*                                                                         *)
(* A time stamp is time.time(): stamps need not grow with the log.  Of an  *)
(* entry's other fields none is looked at again.                           *)
(***************************************************************************)
EXTENDS Integers, Sequences, FiniteSets, SequencesExt, Keep

CONSTANTS LoggedAlerts,     \* alert identifiers; none is empty
          LifecycleEvents,  \* AlertLifecycleEvent
          Stamps,           \* readings of time.time(), none of them 0
          MaxEntries,       \* max_entries
          MaxLogged,        \* bound of this model: calls of log_event
          Unfiltered        \* a filter that is not given

ASSUME TrailAssumption ==
  /\ MaxEntries \in Nat \ {0} /\ MaxLogged \in Nat /\ Stamps \subseteq Nat \ {0}
  /\ Unfiltered \notin LoggedAlerts \cup LifecycleEvents

VARIABLES entries,      \* _entries
          correlation,  \* _correlation_map
          logged        \* history: every entry there has been

trailVars == <<entries, correlation, logged>>

\* Fresh correlation ids (uuid4) are numbered.
CorrelationId == 1 .. MaxLogged
LogEntry == [event : LifecycleEvents, alert : LoggedAlerts, correlation : CorrelationId, stamp : Stamps]

TrailTypeOK ==
  /\ entries \in Seq(LogEntry) /\ Len(entries) <= MaxEntries
  /\ DOMAIN correlation \subseteq LoggedAlerts
  /\ \A a \in DOMAIN correlation : correlation[a] \in CorrelationId
  /\ logged \in Seq(LogEntry)

TrailInit == entries = <<>> /\ correlation = <<>> /\ logged = <<>>

----------------------------------------------------------------------------
\* Mutant: an alert is known only while the log has an entry of it.
CorrelationOfLogged(a) ==
  IF \E i \in DOMAIN entries : entries[i].alert = a
  THEN correlation[a] ELSE Len(logged) + 1

\* _get_or_create_correlation.  A fresh id is one no entry has had.
CorrelationOf(a) ==
  IF a \in DOMAIN correlation THEN correlation[a] ELSE Len(logged) + 1

\* Mutant: the log may be one entry too long.
TrimmedLate(log) == IF Len(log) > MaxEntries + 1 THEN Tail(log) ELSE log

\* self._entries[-self._max_entries:]
Trimmed(log) ==
  IF Len(log) > MaxEntries THEN SubSeq(log, Len(log) - MaxEntries + 1, Len(log)) ELSE log

\* log_event
LogEvent(e, a, t) ==
  LET entry == [event |-> e, alert |-> a, correlation |-> CorrelationOf(a), stamp |-> t] IN
  /\ Len(logged) < MaxLogged
  /\ entries' = Trimmed(Append(entries, entry))
  /\ correlation' = [b \in DOMAIN correlation \cup {a} |->
                       IF b = a THEN CorrelationOf(a) ELSE correlation[b]]
  /\ logged' = Append(logged, entry)

TrailNext == \E e \in LifecycleEvents, a \in LoggedAlerts, t \in Stamps : LogEvent(e, a, t)

TrailSpec == TrailInit /\ [][TrailNext]_trailVars

----------------------------------------------------------------------------
(***************************************************************************)
(* query.  A since of 0 is no filter, as in the code.                      *)
(***************************************************************************)
Asked(q, entry) ==
  /\ q.alert \in {Unfiltered, entry.alert}
  /\ q.event \in {Unfiltered, entry.event}
  /\ entry.stamp >= q.since

\* results[-limit:], which has everything for a limit of 0, and for a negative
\* one everything but the first -limit.
NewestOf(results, limit) ==
  LET n == Len(results)
      first == IF limit <= 0 THEN 1 - limit ELSE IF limit < n THEN n - limit + 1 ELSE 1 IN
  SubSeq(results, first, n)

\* Mutant: the newest entries are looked through for those asked for.
QueryNewest(q, limit) ==
  Keep(NewestOf(entries, limit), {entry \in LogEntry : Asked(q, entry)})

Query(q, limit) ==
  NewestOf(Keep(entries, {entry \in LogEntry : Asked(q, entry)}), limit)

----------------------------------------------------------------------------
(***************************************************************************)
(* Properties.                                                             *)
(***************************************************************************)

\* Entries have the same correlation id exactly when they are of the same
\* alert, also when the log was trimmed between them (audit_logger.py:97,
\* 129-131).
OneCorrelationPerAlert ==
  \A i, j \in DOMAIN logged :
    logged[i].correlation = logged[j].correlation <=> logged[i].alert = logged[j].alert

Queries == [alert : {Unfiltered} \cup LoggedAlerts, event : {Unfiltered} \cup LifecycleEvents, since : {0} \cup Stamps]

\* A query for at least one entry returns, of the last MaxEntries ever logged,
\* the newest ones asked for in the order they were logged: no filter hides an
\* entry behind the limit (audit_logger.py:105-117).
QueryFindsNewest ==
  \A q \in Queries, limit \in 1 .. MaxEntries :
    LET kept == {i \in DOMAIN logged : i > Len(logged) - MaxEntries}
        found == {i \in kept : Asked(q, logged[i])}
        answer == Query(q, limit)
        newer(i) == {j \in found : j > i} IN
    /\ Len(answer) = IF Cardinality(found) < limit THEN Cardinality(found) ELSE limit
    /\ \A i \in found : LET place == Len(answer) - Cardinality(newer(i)) IN
                        place > 0 => answer[place] = logged[i]

=============================================================================

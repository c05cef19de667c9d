----------------------------- MODULE MCLibrary -----------------------------
(* TLC instance of the parts that share no state with the rest or with     *)
(* each other.  A behaviour is one of one part, the others standing still, *)
(* so the state space is the sum of theirs.                                *)
EXTENDS MCCapDocument, EasHeader, Zones, RetryEngine, AuditTrail, MeshFallback, AuditDb

VARIABLE part

\* Polygons: triangles and quadrilaterals between points around (0, 0), and
\* texts of two pairs of which some are garbled or out of range.
Points(range) == [lat : range, lon : range]
Corners == Points({-4, 0, 4})
Unsound == {<<p, q>> : p, q \in {Garbled} \cup Points({0, 6})}
PolygonTexts == Unsound \cup UNION {[1 .. n -> Corners] : n \in {3, 4}}
Near == Points({-4, -2, 0, 2, 4})

\* Tables, and requests to empty them, in both orders and with a typing error.
ThreeTables == <<"audit_events", "dedup_entries", "delivery_attempts">>
SomeRequests ==
  {<<"audit_events", "dedup_entries">>, <<"dedup_entries", "audit_events">>,
   <<"audit", "delivery_attempts">>}

\* Rounding, where it decides: some answer that depends on the order.
RisesOverall(recent) == recent[1] < recent[Len(recent)]
RunsEast(p, from, to) == from.lon < to.lon

LibraryInit ==
  /\ part \in {"documents", "headers", "zones", "retries", "trail", "fallback", "database"}
  /\ Init /\ EasInit /\ ZoneInit /\ RetryInit /\ TrailInit /\ FallbackInit /\ DbInit

\* The same as each part's Next, without looking for inputs when it is busy.
DocumentStep == IF answer = "none" THEN Next ELSE NextRequest
HeaderStep == IF header = NoHeader THEN EasNext ELSE NextLine
ZoneStep == IF text = NoText THEN ZoneNext ELSE NextZone

LibraryNext ==
  /\ UNCHANGED part
  /\ \/ /\ part = "documents" /\ DocumentStep
        /\ UNCHANGED <<easVars, zoneVars, retryVars, trailVars, fallbackVars, dbVars>>
     \/ /\ part = "headers" /\ HeaderStep
        /\ UNCHANGED <<vars, zoneVars, retryVars, trailVars, fallbackVars, dbVars>>
     \/ /\ part = "zones" /\ ZoneStep
        /\ UNCHANGED <<vars, easVars, retryVars, trailVars, fallbackVars, dbVars>>
     \/ /\ part = "retries" /\ RetryNext
        /\ UNCHANGED <<vars, easVars, zoneVars, trailVars, fallbackVars, dbVars>>
     \/ /\ part = "trail" /\ TrailNext
        /\ UNCHANGED <<vars, easVars, zoneVars, retryVars, fallbackVars, dbVars>>
     \/ /\ part = "fallback" /\ FallbackNext
        /\ UNCHANGED <<vars, easVars, zoneVars, retryVars, trailVars, dbVars>>
     \/ /\ part = "database" /\ DbNext
        /\ UNCHANGED <<vars, easVars, zoneVars, retryVars, trailVars, fallbackVars>>

allVars == <<part, vars, easVars, zoneVars, retryVars, trailVars, fallbackVars, dbVars>>

\* The type invariants of the parts.
PartsTypeOK ==
  /\ TypeOK /\ EasTypeOK /\ ZoneTypeOK /\ RetryTypeOK
  /\ TrailTypeOK /\ FallbackTypeOK /\ DbTypeOK

LibrarySpec == LibraryInit /\ [][LibraryNext]_allVars

=============================================================================

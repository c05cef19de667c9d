----------------------------- MODULE AlertStore -----------------------------
(***************************************************************************)
(* The OrderedDict of modules/processing/alert_cache.py: a sequence of     *)
(* entries with distinct ids, least recently used first.  An entry is a    *)
(* record with a field id; what else it carries is up to the user of the   *)
(* module.  Each operator is the body of one method's `with self._lock`.   *)
(***************************************************************************)
EXTENDS Integers, Sequences, SequencesExt

CONSTANT MaxEntries          \* max_entries

ASSUME MaxEntriesAssumption == MaxEntries \in Nat \ {0}

StoredIds(s) == {s[i].id : i \in DOMAIN s}

\* The place and the entry of an id that is present, and the store without it.
PlaceOf(s, id) == CHOOSE i \in DOMAIN s : s[i].id = id

EntryOf(s, id) == s[PlaceOf(s, id)]

Without(s, id) == RemoveAt(s, PlaceOf(s, id))

\* Mutant: a hit does not move the entry.
GetUnpromoted(s, id) == s

\* get: a hit moves the entry to the most recently used end.
Get(s, id) ==
  IF id \in StoredIds(s) THEN Append(Without(s, id), EntryOf(s, id)) ELSE s

\* Mutant: the capacity test is off by one.
EvictLate(s) == IF Len(s) > MaxEntries + 1 THEN Tail(s) ELSE s

\* popitem(last=False) while the store is over its capacity.
Evict(s) ==
  IF Len(s) > MaxEntries THEN SubSeq(s, Len(s) - MaxEntries + 1, Len(s)) ELSE s

\* put: an update moves to the end and evicts nothing.
Put(s, e) ==
  IF e.id \in StoredIds(s) THEN Append(Without(s, e.id), e)
                           ELSE Evict(Append(s, e))

=============================================================================

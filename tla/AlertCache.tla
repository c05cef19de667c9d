----------------------------- MODULE AlertCache -----------------------------
(***************************************************************************)
(* The alert cache and the endpoints that read it.  put runs on the event  *)
(* loop (compose_cap); GET /alerts and GET /alerts/{id} are synchronous    *)
(* handlers that run in threadpool threads.  The cache's lock makes each   *)
(* call atomic; a listing is one get_all_ids followed by a get per id, so  *)
(* everything else may happen between its steps, and each get promotes.    *)
(*                                                                         *)
(* An entry is [id, time]: the logical time of its put stands for the      *)
(* alert's content, so that two puts of an id differ.                      *)
(***************************************************************************)
EXTENDS AlertStore, FiniteSets

CONSTANTS Ids,
          Threads,    \* threadpool threads serving GET /alerts
          MaxLimit,   \* largest limit of a listing (the code accepts 1..1000)
          MaxTime     \* bound of this model: number of cache accesses

ASSUME MaxLimitAssumption == MaxLimit \in Nat
ASSUME MaxTimeAssumption == MaxTime \in Nat

VARIABLES store,      \* _store
          insertions, \* CacheStats.insertions
          evictions,  \* CacheStats.evictions
          listing,    \* the listing each thread is in, see Listing
          now,        \* logical clock: one tick per put, hit or removal
          used,       \* history: time of the last put or hit of each id
          removed,    \* history: entries taken out by remove and clear
          stayed,     \* history: ids a thread's listing must report
          asOf        \* history: used, when a thread's listing took its snapshot

vars == <<store, insertions, evictions, listing, now, used, removed, stayed, asOf>>

Entry == [id : Ids, time : 1 .. MaxTime]

\* A listing in progress: the ids still to fetch, the entries found so far.
NoListing == [todo |-> <<>>, items |-> <<>>, open |-> FALSE]
Listing == [todo : Seq(Ids), items : Seq(Entry), open : BOOLEAN]

TypeOK ==
  /\ store \in Seq(Entry) /\ Len(store) <= MaxEntries
  /\ Cardinality(StoredIds(store)) = Len(store)
  /\ insertions \in Nat /\ evictions \in Nat /\ removed \in Nat
  /\ listing \in [Threads -> Listing]
  /\ now \in 0 .. MaxTime
  /\ used \in [Ids -> 0 .. MaxTime]
  /\ stayed \in [Threads -> SUBSET Ids]
  /\ asOf \in [Threads -> [Ids -> 0 .. MaxTime]]

NeverUsed == [i \in Ids |-> 0]

Init ==
  /\ store = <<>>
  /\ insertions = 0 /\ evictions = 0 /\ removed = 0
  /\ listing = [t \in Threads |-> NoListing]
  /\ now = 0
  /\ used = NeverUsed
  /\ stayed = [t \in Threads |-> {}]
  /\ asOf = [t \in Threads |-> NeverUsed]

Advance == now < MaxTime /\ now' = now + 1

Touch(id) == used' = [used EXCEPT ![id] = now']

\* An id that leaves the store need no longer be reported.
TrackStayed == stayed' = [t \in Threads |-> stayed[t] \cap StoredIds(store')]

----------------------------------------------------------------------------
\* Mutant: an update counts as an insertion.
PutCountsUpdates(id) ==
  /\ Advance
  /\ store' = Put(store, [id |-> id, time |-> now'])
  /\ insertions' = insertions + 1
  /\ evictions' = IF id \in StoredIds(store) THEN evictions
                  ELSE evictions + Len(store) + 1 - Len(store')
  /\ Touch(id) /\ TrackStayed
  /\ UNCHANGED <<listing, removed, asOf>>

\* put, on the event loop.
PutAlert(id) ==
  /\ Advance
  /\ store' = Put(store, [id |-> id, time |-> now'])
  /\ IF id \in StoredIds(store)
     THEN UNCHANGED <<insertions, evictions>>
     ELSE /\ insertions' = insertions + 1
          /\ evictions' = evictions + Len(store) + 1 - Len(store')
  /\ Touch(id) /\ TrackStayed
  /\ UNCHANGED <<listing, removed, asOf>>

\* GET /alerts/{id}: a hit promotes, a miss changes only statistics.
GetAlert(id) ==
  /\ id \in StoredIds(store)
  /\ Advance
  /\ store' = Get(store, id)
  /\ Touch(id)
  /\ UNCHANGED <<insertions, evictions, listing, removed, stayed, asOf>>

RemoveAlert(id) ==
  /\ id \in StoredIds(store)
  /\ Advance
  /\ store' = Without(store, id)
  /\ removed' = removed + 1
  /\ TrackStayed
  /\ UNCHANGED <<insertions, evictions, listing, used, asOf>>

Clear ==
  /\ Advance
  /\ store' = <<>>
  /\ removed' = removed + Len(store)
  /\ TrackStayed
  /\ UNCHANGED <<insertions, evictions, listing, used, asOf>>

\* Mutant: the oldest `limit` of the ids, oldest first.
StartsAtOldest(t, limit) ==
  /\ ~listing[t].open
  /\ LET ids  == [i \in DOMAIN store |-> store[i].id]
         todo == SubSeq(ids, 1, IF Len(ids) < limit THEN Len(ids) ELSE limit)
     IN  /\ listing' = [listing EXCEPT
                          ![t] = [todo |-> todo, items |-> <<>>, open |-> TRUE]]
         /\ stayed' = [stayed EXCEPT ![t] = ToSet(todo)]
  /\ asOf' = [asOf EXCEPT ![t] = used]
  /\ UNCHANGED <<store, insertions, evictions, now, used, removed>>

\* list_alerts: get_all_ids, then the newest `limit` of them, newest first.
StartListing(t, limit) ==
  /\ ~listing[t].open
  /\ LET ids  == [i \in DOMAIN store |-> store[i].id]
         last == Reverse(ids)
         todo == SubSeq(last, 1, IF Len(last) < limit THEN Len(last) ELSE limit)
     IN  /\ listing' = [listing EXCEPT
                          ![t] = [todo |-> todo, items |-> <<>>, open |-> TRUE]]
         /\ stayed' = [stayed EXCEPT ![t] = ToSet(todo)]
  /\ asOf' = [asOf EXCEPT ![t] = used]
  /\ UNCHANGED <<store, insertions, evictions, now, used, removed>>

Fetched(l, found, e) ==
  [l EXCEPT !.todo = Tail(@), !.items = IF found THEN Append(@, e) ELSE @]

\* Mutant: the loop over the ids ends at the first one that is gone.
FetchStopsAtMiss(t) ==
  LET id == Head(listing[t].todo)
      found == id \in StoredIds(store) IN
  /\ listing[t].open /\ listing[t].todo # <<>>
  /\ IF found
     THEN /\ Advance /\ Touch(id)
          /\ listing' = [listing EXCEPT ![t] = Fetched(@, TRUE, EntryOf(store, id))]
     ELSE /\ UNCHANGED <<now, used>>
          /\ listing' = [listing EXCEPT ![t].todo = <<>>]
  /\ store' = Get(store, id)
  /\ UNCHANGED <<insertions, evictions, removed, stayed, asOf>>

\* One get of the listing; an alert that is gone by now is skipped.
Fetch(t) ==
  LET id == Head(listing[t].todo)
      found == id \in StoredIds(store) IN
  /\ listing[t].open /\ listing[t].todo # <<>>
  /\ IF found
     THEN /\ Advance /\ Touch(id)
          /\ listing' = [listing EXCEPT ![t] = Fetched(@, TRUE, EntryOf(store, id))]
     ELSE /\ UNCHANGED <<now, used>>
          /\ listing' = [listing EXCEPT ![t].todo = Tail(@)]
  /\ store' = Get(store, id)
  /\ UNCHANGED <<insertions, evictions, removed, stayed, asOf>>

\* The response is sent.
EndListing(t) ==
  /\ listing[t].open /\ listing[t].todo = <<>>
  /\ listing' = [listing EXCEPT ![t] = NoListing]
  /\ stayed' = [stayed EXCEPT ![t] = {}]
  /\ asOf' = [asOf EXCEPT ![t] = NeverUsed]
  /\ UNCHANGED <<store, insertions, evictions, now, used, removed>>

Next ==
  \/ \E id \in Ids : PutAlert(id) \/ GetAlert(id) \/ RemoveAlert(id)
  \/ Clear
  \/ \E t \in Threads : \/ \E limit \in 1 .. MaxLimit : StartListing(t, limit)
                        \/ Fetch(t) \/ EndListing(t)

Spec == Init /\ [][Next]_vars

----------------------------------------------------------------------------
\* The statistics account for every entry: what was inserted and not evicted
\* or removed is in the store (alert_cache.py:133-137).
Accounting == insertions - evictions - removed = Len(store)

\* Whatever readers interleave, an alert evicted by a put was last used before
\* every alert the put keeps (alert_cache.py:119, 129, 135-136).
EvictsLeastRecentlyUsed ==
  [][\A gone \in StoredIds(store) \ StoredIds(store') :
       evictions' > evictions =>
         \A kept \in StoredIds(store') : used[gone] < used'[kept]]_vars

\* A listing that races with evictions, removals and promotions, its own
\* included, still reports every alert that was in its snapshot and never left
\* the cache, once, and in the order the snapshot had: an alert reported before
\* another was used later than that one, as of the snapshot (alerts.py:20-32).
ListingReportsWhatStayed ==
  \A t \in Threads :
    LET l == listing[t]
        shown == {l.items[i].id : i \in DOMAIN l.items} IN
    l.open => /\ stayed[t] \subseteq shown \cup ToSet(l.todo)
              /\ Cardinality(shown) = Len(l.items)
              /\ shown \cap ToSet(l.todo) = {}
              /\ \A i, j \in DOMAIN l.items :
                   i < j => asOf[t][l.items[j].id] < asOf[t][l.items[i].id]

=============================================================================

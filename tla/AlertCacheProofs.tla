-------------------------- MODULE AlertCacheProofs --------------------------
(***************************************************************************)
(* The alert cache and its readers, for any ids, any threads, and any      *)
(* capacity: the store is in the order of last use, so that a put evicts   *)
(* the least recently used alert; the statistics account for every entry;  *)
(* and a listing loses no alert that stays, and keeps their order.         *)
(***************************************************************************)
EXTENDS AlertCache, SharedOpsProofs, TLAPS

USE MaxEntriesAssumption, MaxLimitAssumption, MaxTimeAssumption

----------------------------------------------------------------------------
(***************************************************************************)
(* The invariant.  The order of the store is the order of last use.  The   *)
(* ids of a listing, those it has found and those still to fetch, are all  *)
(* different, and an alert that must be reported is still stored.          *)
(***************************************************************************)
InOrder(s, u) == \A i, j \in DOMAIN s : i < j => u[s[i].id] < u[s[j].id]

Ordered == InOrder(store, used) /\ \A id \in Ids : used[id] <= now

ListingOK(l, kept) ==
  /\ \A i, j \in DOMAIN l.todo : l.todo[i] = l.todo[j] => i = j
  /\ Distinct(l.items)
  /\ \A x \in ToSet(l.todo) : x \notin StoredIds(l.items)
  /\ kept \subseteq StoredIds(l.items) \cup ToSet(l.todo)
  /\ kept \subseteq StoredIds(store)

\* TypeOK but for the number of ids, which the order implies.
Typed ==
  /\ store \in Seq(Entry) /\ Len(store) <= MaxEntries
  /\ insertions \in Nat /\ evictions \in Nat /\ removed \in Nat
  /\ listing \in [Threads -> Listing]
  /\ now \in 0 .. MaxTime
  /\ used \in [Ids -> 0 .. MaxTime]
  /\ stayed \in [Threads -> SUBSET Ids]

Listings == \A t \in Threads : ListingOK(listing[t], stayed[t])

IInv == Typed /\ Accounting /\ Ordered /\ Listings

\* The order of a listing: what it has found, then what it is to fetch, by the
\* time of last use as of its snapshot, the latest first.
Downward(q, u) == \A i, j \in DOMAIN q : i < j => u[q[j]] < u[q[i]]

NewestFirst(l, u) ==
  /\ Downward(l.todo, u)
  /\ \A i, j \in DOMAIN l.items : i < j => u[l.items[j].id] < u[l.items[i].id]
  /\ \A i \in DOMAIN l.items, j \in DOMAIN l.todo : u[l.todo[j]] < u[l.items[i].id]

InTurn ==
  /\ asOf \in [Threads -> [Ids -> 0 .. MaxTime]]
  /\ \A t \in Threads : NewestFirst(listing[t], asOf[t])

----------------------------------------------------------------------------
(***************************************************************************)
(* Stores in the order of last use.                                        *)
(***************************************************************************)

\* The ids of a store, entry by entry.
LEMMA StoredId ==
  ASSUME NEW s \in Seq(Entry)
  PROVE  /\ \A i \in 1 .. Len(s) : s[i] \in Entry /\ s[i].id \in Ids
         /\ \A x : x \in StoredIds(s) <=> \E i \in 1 .. Len(s) : s[i].id = x
<1>1. DOMAIN s = 1 .. Len(s)
    BY LenProperties
<1>2. \A i \in 1 .. Len(s) : s[i] \in Entry
    BY ElementOfSeq
<1>3. \A e \in Entry : e.id \in Ids
    BY DEF Entry
<1>4. QED BY <1>1, <1>2, <1>3 DEF StoredIds

\* Entries in a strict order are distinct.
LEMMA OrderedDistinct ==
  ASSUME NEW s \in Seq(Entry), NEW u \in [Ids -> Nat], InOrder(s, u)
  PROVE  Distinct(s)
<1>1. DOMAIN s = 1 .. Len(s) /\ Len(s) \in Nat
    BY LenProperties
<1>2. \A i \in DOMAIN s : u[s[i].id] \in Nat
  <2>1. \A i \in DOMAIN s : s[i] \in Entry
      BY <1>1, ElementOfSeq
  <2>2. \A e \in Entry : u[e.id] \in Nat
      BY DEF Entry
  <2>3. QED BY <2>1, <2>2
<1>3. \A i, j \in DOMAIN s : i # j => i < j \/ j < i
    BY <1>1
<1>4. \A i, j \in DOMAIN s : i # j => u[s[i].id] # u[s[j].id]
    BY <1>2, <1>3 DEF InOrder
<1>5. QED BY <1>4 DEF Distinct

\* A store of distinct ids has as many ids as entries.
LEMMA DistinctCount ==
  ASSUME NEW s \in Seq(Entry), Distinct(s)
  PROVE  Cardinality(StoredIds(s)) = Len(s)
<1> DEFINE n == Len(s)
           f == [i \in 1 .. n |-> s[i].id]
<1>1. DOMAIN s = 1 .. n /\ n \in Nat
    BY LenProperties
<1>2. f \in Bijection(1 .. n, StoredIds(s))
  <2>1. f \in [1 .. n -> StoredIds(s)]
      BY <1>1 DEF StoredIds
  <2>2. \A a, b \in 1 .. n : f[a] = f[b] => a = b
      BY <1>1 DEF Distinct
  <2>3. \A id \in StoredIds(s) : \E i \in 1 .. n : f[i] = id
      BY <1>1 DEF StoredIds
  <2>4. QED BY <2>1, <2>2, <2>3 DEF Bijection, Injection, Surjection, IsInjective
<1>3. ExistsBijection(1 .. n, StoredIds(s))
    BY <1>2 DEF ExistsBijection
<1>4. QED BY <1>1, <1>3, FS_CountingElements

\* A removal keeps the order (alert_cache.py:140-143).
LEMMA WithoutOrder ==
  ASSUME NEW s \in Seq(Entry), NEW u \in [Ids -> Nat], InOrder(s, u), NEW id \in StoredIds(s)
  PROVE  /\ Without(s, id) \in Seq(Entry) /\ Len(Without(s, id)) = Len(s) - 1
         /\ InOrder(Without(s, id), u)
         /\ StoredIds(Without(s, id)) = StoredIds(s) \ {id}
<1> DEFINE n == Len(s)
           p == PlaceOf(s, id)
           w == Without(s, id)
           From(j) == IF j < p THEN j ELSE j + 1
<1>1. /\ DOMAIN s = 1 .. n /\ n \in Nat
      /\ p \in 1 .. n /\ s[p].id = id
    BY LenProperties, PlaceOfStored
<1>2. /\ w \in Seq(Entry) /\ Len(w) = n - 1 /\ n - 1 \in Nat
      /\ \A j \in 1 .. n - 1 : w[j] = s[From(j)]
    BY WithoutStored
<1>3. DOMAIN w = 1 .. n - 1
    BY <1>2, LenProperties
<1>4. Distinct(s)
    BY OrderedDistinct
<1> HIDE DEF n, p, w
<1>5. \A j \in 1 .. n - 1 : From(j) \in 1 .. n /\ From(j) # p
    BY <1>1
<1>6. \A i, j \in 1 .. n - 1 : i < j => From(i) < From(j)
    BY <1>1
<1>7. \A k \in 1 .. n : k # p => \E j \in 1 .. n - 1 : From(j) = k
  <2> SUFFICES ASSUME NEW k \in 1 .. n, k # p PROVE \E j \in 1 .. n - 1 : From(j) = k
      OBVIOUS
  <2>1. CASE k < p
      BY <1>1, <2>1
  <2>2. CASE k > p
    <3>1. k - 1 \in 1 .. n - 1 /\ From(k - 1) = k
        BY <1>1, <2>2
    <3>2. QED BY <3>1
  <2>3. QED BY <1>1, <2>1, <2>2
<1> HIDE DEF From
<1>8. InOrder(w, u)
    BY <1>1, <1>2, <1>3, <1>5, <1>6 DEF InOrder
<1>9. StoredIds(w) = StoredIds(s) \ {id}
  <2>1. /\ \A x : x \in StoredIds(s) <=> \E i \in 1 .. n : s[i].id = x
        /\ \A x : x \in StoredIds(w) <=> \E i \in 1 .. n - 1 : w[i].id = x
      BY <1>1, <1>2, StoredId DEF n
  <2>2. \A j \in 1 .. n - 1 : w[j].id # id
    <3>1. \A k \in 1 .. n : k # p => s[k].id # id
        BY <1>1, <1>4 DEF Distinct
    <3>2. QED BY <1>2, <1>5, <3>1
  <2>3. \A j \in 1 .. n - 1 : \E k \in 1 .. n : s[k].id = w[j].id
      BY <1>2, <1>5
  <2>4. \A k \in 1 .. n : s[k].id # id => \E j \in 1 .. n - 1 : w[j].id = s[k].id
      BY <1>1, <1>2, <1>7
  <2>5. \A x : x \in StoredIds(w) => x \in StoredIds(s) /\ x # id
      BY <2>1, <2>2, <2>3
  <2>6. \A x : x \in StoredIds(s) /\ x # id => x \in StoredIds(w)
      BY <2>1, <2>4
  <2>7. QED BY <2>5, <2>6
<1>10. QED BY <1>2, <1>8, <1>9 DEF w, n

\* A new last entry, used later than all others, keeps the order.
LEMMA AppendOrder ==
  ASSUME NEW s \in Seq(Entry), NEW u \in [Ids -> Nat], InOrder(s, u),
         NEW e \in Entry, e.id \notin StoredIds(s),
         NEW m \in Nat, \A id \in Ids : u[id] < m
  PROVE  /\ Append(s, e) \in Seq(Entry) /\ Len(Append(s, e)) = Len(s) + 1
         /\ InOrder(Append(s, e), [u EXCEPT ![e.id] = m])
         /\ StoredIds(Append(s, e)) = StoredIds(s) \cup {e.id}
<1> DEFINE n == Len(s)
           l == Append(s, e)
           v == [u EXCEPT ![e.id] = m]
<1>1. /\ l \in Seq(Entry) /\ n \in Nat /\ Len(l) = n + 1
      /\ \A i \in 1 .. n : l[i] = s[i]
      /\ l[n + 1] = e
      /\ DOMAIN s = 1 .. n /\ DOMAIN l = 1 .. n + 1
    BY AppendProperties, LenProperties
<1> HIDE DEF l
<1>2. /\ \A i \in 1 .. n : s[i] \in Entry /\ s[i].id \in Ids
      /\ \A x : x \in StoredIds(s) <=> \E i \in 1 .. n : s[i].id = x
      /\ \A x : x \in StoredIds(l) <=> \E i \in 1 .. n + 1 : l[i].id = x
    BY <1>1, StoredId
<1>3. e.id \in Ids
    BY DEF Entry
<1>4. v[e.id] = m /\ \A i \in 1 .. n : v[s[i].id] = u[s[i].id]
  <2>1. \A i \in 1 .. n : s[i].id \in Ids /\ s[i].id # e.id
      BY <1>2
  <2>2. v[e.id] = m /\ \A id \in Ids : id # e.id => v[id] = u[id]
      BY <1>3
  <2>3. QED BY <2>1, <2>2
<1> HIDE DEF n, v
<1>5. InOrder(l, v)
  <2> SUFFICES ASSUME NEW i \in 1 .. n + 1, NEW j \in 1 .. n + 1, i < j
               PROVE  v[l[i].id] < v[l[j].id]
      BY <1>1 DEF InOrder
  <2>1. i \in 1 .. n
      BY <1>1
  <2>2. CASE j \in 1 .. n
      BY <1>1, <1>4, <2>1, <2>2 DEF InOrder
  <2>3. CASE j = n + 1
      BY <1>1, <1>2, <1>4, <2>1, <2>3
  <2>4. QED BY <1>1, <2>2, <2>3
<1>6. StoredIds(l) = StoredIds(s) \cup {e.id}
  <2>1. \A i \in 1 .. n + 1 : i = n + 1 \/ i \in 1 .. n
      BY <1>1
  <2>2. n + 1 \in 1 .. n + 1 /\ 1 .. n \subseteq 1 .. n + 1
      BY <1>1
  <2>3. \A x : (\E i \in 1 .. n + 1 : l[i].id = x) <=>
              (\E i \in 1 .. n : s[i].id = x) \/ x = e.id
      BY <1>1, <2>1, <2>2
  <2>4. QED BY <1>2, <2>3
<1>7. QED BY <1>1, <1>5, <1>6 DEF n, l, v

\* An entry that is stored again, and used now, is the last (alert_cache.py:111-129).
LEMMA MovedOrder ==
  ASSUME NEW s \in Seq(Entry), NEW u \in [Ids -> Nat], InOrder(s, u),
         NEW e \in Entry, e.id \in StoredIds(s),
         NEW m \in Nat, \A id \in Ids : u[id] < m
  PROVE  LET t == Append(Without(s, e.id), e) IN
         /\ t \in Seq(Entry) /\ Len(t) = Len(s)
         /\ InOrder(t, [u EXCEPT ![e.id] = m])
         /\ StoredIds(t) = StoredIds(s)
<1> DEFINE w == Without(s, e.id)
<1>1. /\ w \in Seq(Entry) /\ Len(w) = Len(s) - 1
      /\ InOrder(w, u) /\ StoredIds(w) = StoredIds(s) \ {e.id}
    BY WithoutOrder
<1>2. Len(s) \in Nat
    BY LenProperties
<1> HIDE DEF w
<1>3. /\ Append(w, e) \in Seq(Entry) /\ Len(Append(w, e)) = Len(w) + 1
      /\ InOrder(Append(w, e), [u EXCEPT ![e.id] = m])
      /\ StoredIds(Append(w, e)) = StoredIds(w) \cup {e.id}
    BY <1>1, AppendOrder
<1>4. StoredIds(w) \cup {e.id} = StoredIds(s)
    BY <1>1
<1>5. QED BY <1>1, <1>2, <1>3, <1>4 DEF w

\* A put into a full store takes out its first entry, which was used before
\* all that stay (alert_cache.py:131-138).
LEMMA EvictOrder ==
  ASSUME NEW s \in Seq(Entry), NEW u \in [Ids -> Nat], InOrder(s, u),
         Len(s) = MaxEntries,
         NEW e \in Entry, e.id \notin StoredIds(s),
         NEW m \in Nat, \A id \in Ids : u[id] < m
  PROVE  LET t == Put(s, e)
             v == [u EXCEPT ![e.id] = m] IN
         /\ t \in Seq(Entry) /\ Len(t) = Len(s)
         /\ InOrder(t, v)
         /\ StoredIds(t) \subseteq StoredIds(s) \cup {e.id}
         /\ \A gone \in StoredIds(s) \ StoredIds(t), kept \in StoredIds(t) : u[gone] < v[kept]
<1> DEFINE n == Len(s)
           t == Put(s, e)
           v == [u EXCEPT ![e.id] = m]
<1>1. /\ t \in Seq(Entry) /\ Len(t) = n /\ n \in Nat \ {0}
      /\ \A j \in 1 .. n : t[j] = IF j = n THEN e ELSE s[j + 1]
    BY PutNew, MaxEntriesAssumption
<1>2. DOMAIN s = 1 .. n /\ DOMAIN t = 1 .. n
    BY <1>1, LenProperties
<1> HIDE DEF t
<1>3. /\ \A i \in 1 .. n : s[i] \in Entry /\ s[i].id \in Ids
      /\ \A x : x \in StoredIds(s) <=> \E i \in 1 .. n : s[i].id = x
      /\ \A x : x \in StoredIds(t) <=> \E i \in 1 .. n : t[i].id = x
  <2>1. \A x : x \in StoredIds(t) <=> \E i \in 1 .. n : t[i].id = x
    <3>1. t \in Seq(Entry) /\ Len(t) = n
        BY <1>1
    <3>2. \A x : x \in StoredIds(t) <=> \E i \in 1 .. Len(t) : t[i].id = x
        BY <3>1, StoredId
    <3>3. QED BY <3>1, <3>2
  <2>2. QED BY <2>1, StoredId
<1>4. v[e.id] = m /\ \A i \in 1 .. n : v[s[i].id] = u[s[i].id]
  <2>1. \A i \in 1 .. n : s[i].id \in Ids /\ s[i].id # e.id
      BY <1>3
  <2>2. e.id \in Ids
      BY DEF Entry
  <2>3. v[e.id] = m /\ \A id \in Ids : id # e.id => v[id] = u[id]
      BY <2>2
  <2>4. QED BY <2>1, <2>3
<1>5. /\ \A i \in 1 .. n : u[s[i].id] \in Nat /\ u[s[i].id] < m
      /\ \A i, j \in 1 .. n : i < j => u[s[i].id] < u[s[j].id]
    BY <1>2, <1>3 DEF InOrder
<1> HIDE DEF n, v
<1>6. \A j \in 1 .. n : \/ j = n /\ t[j].id = e.id
                        \/ j \in 1 .. n - 1 /\ j + 1 \in 1 .. n /\ t[j].id = s[j + 1].id
    BY <1>1
<1>7. \A j \in 1 .. n : \/ j = n /\ v[t[j].id] = m
                        \/ /\ j \in 1 .. n - 1 /\ j + 1 \in 1 .. n
                           /\ v[t[j].id] = u[s[j + 1].id]
    BY <1>4, <1>6
<1>8. InOrder(t, v)
  <2> SUFFICES ASSUME NEW i \in 1 .. n, NEW j \in 1 .. n, i < j
               PROVE  v[t[i].id] < v[t[j].id]
      BY <1>2 DEF InOrder
  <2>1. i \in 1 .. n - 1 /\ i + 1 \in 1 .. n /\ v[t[i].id] = u[s[i + 1].id]
      BY <1>1, <1>7
  <2>2. CASE j = n
      BY <1>5, <1>7, <2>1, <2>2
  <2>3. CASE j \in 1 .. n - 1 /\ j + 1 \in 1 .. n /\ v[t[j].id] = u[s[j + 1].id]
    <3>1. i + 1 < j + 1
        BY <1>1
    <3>2. QED BY <1>5, <2>1, <2>3, <3>1
  <2>4. QED BY <1>7, <2>2, <2>3
<1>9. StoredIds(t) \subseteq StoredIds(s) \cup {e.id}
    BY <1>3, <1>6
<1>10. ASSUME NEW gone \in StoredIds(s) \ StoredIds(t), NEW kept \in StoredIds(t)
       PROVE  u[gone] < v[kept]
  <2>1. PICK i \in 1 .. n : s[i].id = gone
      BY <1>3
  <2>2. i = 1
    <3> SUFFICES ASSUME i # 1 PROVE FALSE
        OBVIOUS
    <3>1. i - 1 \in 1 .. n /\ i - 1 # n /\ (i - 1) + 1 = i
        BY <1>1
    <3>2. t[i - 1].id = gone
        BY <1>6, <2>1, <3>1
    <3>3. QED BY <1>3, <3>1, <3>2
  <2>3. PICK j \in 1 .. n : t[j].id = kept
      BY <1>3
  <2>4. CASE j = n
      BY <1>5, <1>7, <2>1, <2>3, <2>4
  <2>5. CASE j \in 1 .. n - 1 /\ j + 1 \in 1 .. n /\ v[t[j].id] = u[s[j + 1].id]
    <3>1. i < j + 1
        BY <1>1, <2>2
    <3>2. QED BY <1>5, <2>1, <2>3, <2>5, <3>1
  <2>6. QED BY <1>7, <2>4, <2>5
<1>11. QED BY <1>1, <1>8, <1>9, <1>10 DEF n, t, v

----------------------------------------------------------------------------
(***************************************************************************)
(* Steps of the cache.                                                     *)
(***************************************************************************)

\* Listings under way do not notice a change of the store that takes the ids
\* that left it off the lists of what must be reported.
LEMMA ListingsStay ==
  ASSUME Listings, listing' = listing,
         \A t \in Threads :
           stayed'[t] \subseteq stayed[t] /\ stayed'[t] \subseteq StoredIds(store')
  PROVE  Listings'
<1> SUFFICES ASSUME NEW t \in Threads PROVE ListingOK(listing[t], stayed[t])'
    BY DEF Listings
<1>1. ListingOK(listing[t], stayed[t])
    BY DEF Listings
<1>2. /\ listing'[t] = listing[t]
      /\ stayed'[t] \subseteq stayed[t] /\ stayed'[t] \subseteq StoredIds(store')
    OBVIOUS
<1>3. QED BY <1>1, <1>2 DEF ListingOK

\* What TrackStayed does.
LEMMA TrackedStayed ==
  ASSUME Typed, Listings, TrackStayed, listing' = listing
  PROVE  /\ stayed' \in [Threads -> SUBSET Ids]
         /\ Listings'
<1>1. \A t \in Threads : stayed'[t] = stayed[t] \cap StoredIds(store')
    BY DEF TrackStayed
<1>2. stayed' \in [Threads -> SUBSET Ids]
    BY DEF TrackStayed, Typed
<1>3. QED BY <1>1, <1>2, ListingsStay

\* The clock advances: all uses so far were before now'.
LEMMA Clock ==
  ASSUME Typed, Ordered, Advance
  PROVE  /\ now' = now + 1 /\ now' \in Nat /\ now' \in 1 .. MaxTime /\ now' \in 0 .. MaxTime
         /\ used \in [Ids -> Nat] /\ InOrder(store, used)
         /\ \A id \in Ids : used[id] < now'
<1>1. now \in 0 .. MaxTime /\ used \in [Ids -> 0 .. MaxTime]
    BY DEF Typed
<1>2. /\ now' = now + 1 /\ now' \in Nat /\ now' \in 1 .. MaxTime /\ now' \in 0 .. MaxTime
    BY <1>1 DEF Advance
<1>3. \A id \in Ids : used[id] \in Nat /\ used[id] <= now
    BY <1>1 DEF Ordered
<1>4. QED BY <1>1, <1>2, <1>3 DEF Ordered

\* A use of an id is the latest.
LEMMA TouchLatest ==
  ASSUME Typed, Ordered, Advance, NEW id \in Ids, Touch(id)
  PROVE  /\ used' = [used EXCEPT ![id] = now']
         /\ used' \in [Ids -> 0 .. MaxTime]
         /\ \A i \in Ids : used'[i] <= now'
<1>1. /\ now' \in Nat /\ now' \in 0 .. MaxTime
      /\ \A i \in Ids : used[i] < now'
      /\ used \in [Ids -> 0 .. MaxTime]
    BY Clock DEF Typed
<1>2. used' = [used EXCEPT ![id] = now']
    BY DEF Touch
<1>3. used' \in [Ids -> 0 .. MaxTime]
    BY <1>1, <1>2
<1>4. \A i \in Ids : used'[i] <= now'
  <2> SUFFICES ASSUME NEW i \in Ids PROVE used'[i] <= now'
      OBVIOUS
  <2>1. CASE i = id
      BY <1>1, <1>2, <2>1
  <2>2. CASE i # id
    <3>1. used'[i] = used[i] /\ used[i] < now' /\ used[i] \in Nat
        BY <1>1, <1>2, <2>2
    <3>2. QED BY <1>1, <3>1
  <2>3. QED BY <2>1, <2>2
<1>5. QED BY <1>2, <1>3, <1>4

\* An alert is put: what follows is also what an eviction owes the alerts that
\* stay.
LEMMA PutStore ==
  ASSUME IInv, NEW id \in Ids, PutAlert(id)
  PROVE  /\ store' \in Seq(Entry) /\ Len(store') <= MaxEntries
         /\ InOrder(store', used')
         /\ insertions' \in Nat /\ evictions' \in Nat
         /\ insertions' - evictions' - removed = Len(store')
         /\ \/ StoredIds(store) \subseteq StoredIds(store')
            \/ \A gone \in StoredIds(store) \ StoredIds(store'), kept \in StoredIds(store') :
                 used[gone] < used'[kept]
<1>1. Typed /\ Ordered /\ Advance /\ Touch(id) /\ Accounting
    BY DEF IInv, PutAlert
<1>2. PICK m \in 1 .. MaxTime : m = now'
    BY <1>1, Clock
<1>3. /\ m \in Nat /\ used \in [Ids -> Nat] /\ InOrder(store, used)
      /\ \A i \in Ids : used[i] < m
      /\ used' = [used EXCEPT ![id] = m]
    BY <1>1, <1>2, Clock, TouchLatest
<1>4. PICK e \in Entry : e = [id |-> id, time |-> m]
    BY DEF Entry
<1>5. e.id = id /\ store' = Put(store, e)
    BY <1>2, <1>4 DEF PutAlert
<1>6. /\ store \in Seq(Entry) /\ Len(store) \in Nat /\ Len(store) <= MaxEntries
      /\ insertions \in Nat /\ evictions \in Nat /\ removed \in Nat
      /\ insertions - evictions - removed = Len(store)
    BY <1>1, LenProperties DEF Typed, Accounting
<1>7. CASE id \in StoredIds(store)
  <2>1. store' = Append(Without(store, e.id), e)
      BY <1>5, <1>7 DEF Put
  <2>2. /\ store' \in Seq(Entry) /\ Len(store') = Len(store)
        /\ InOrder(store', used') /\ StoredIds(store') = StoredIds(store)
    <3>1. e.id \in StoredIds(store) /\ used' = [used EXCEPT ![e.id] = m]
        BY <1>3, <1>5, <1>7
    <3>2. LET t == Append(Without(store, e.id), e) IN
          /\ t \in Seq(Entry) /\ Len(t) = Len(store)
          /\ InOrder(t, [used EXCEPT ![e.id] = m])
          /\ StoredIds(t) = StoredIds(store)
        BY <1>3, <1>6, <3>1, MovedOrder
    <3>3. QED BY <2>1, <3>1, <3>2
  <2>3. insertions' = insertions /\ evictions' = evictions
      BY <1>7 DEF PutAlert
  <2>4. QED BY <1>6, <2>2, <2>3
<1>8. CASE id \notin StoredIds(store)
  <2>1. /\ insertions' = insertions + 1
        /\ evictions' = evictions + Len(store) + 1 - Len(store')
      BY <1>8 DEF PutAlert
  <2>2. CASE Len(store) < MaxEntries
    <3>1. store' = Append(store, e)
        BY <1>5, <1>6, <1>8, <2>2, PutNew
    <3>2. /\ store' \in Seq(Entry) /\ Len(store') = Len(store) + 1
          /\ InOrder(store', used')
          /\ StoredIds(store') = StoredIds(store) \cup {e.id}
      <4>1. e.id \notin StoredIds(store) /\ used' = [used EXCEPT ![e.id] = m]
          BY <1>3, <1>5, <1>8
      <4>2. /\ Append(store, e) \in Seq(Entry)
            /\ Len(Append(store, e)) = Len(store) + 1
            /\ InOrder(Append(store, e), [used EXCEPT ![e.id] = m])
            /\ StoredIds(Append(store, e)) = StoredIds(store) \cup {e.id}
          BY <1>3, <1>6, <4>1, AppendOrder
      <4>3. QED BY <3>1, <4>1, <4>2
    <3>3. QED BY <1>6, <2>1, <2>2, <3>2
  <2>3. CASE Len(store) = MaxEntries
    <3>1. /\ store' \in Seq(Entry) /\ Len(store') = Len(store)
          /\ InOrder(store', used')
          /\ \A gone \in StoredIds(store) \ StoredIds(store'), kept \in StoredIds(store') :
               used[gone] < used'[kept]
        BY <1>3, <1>5, <1>6, <1>8, <2>3, EvictOrder
    <3>2. QED BY <1>6, <2>1, <3>1
  <2>4. QED BY <1>6, <2>2, <2>3
<1>9. QED BY <1>7, <1>8

LEMMA PutIInv ==
  ASSUME IInv, NEW id \in Ids, PutAlert(id)
  PROVE  IInv'
<1>1. /\ Typed /\ Ordered /\ Listings /\ Advance /\ Touch(id) /\ TrackStayed
      /\ listing' = listing /\ removed' = removed
    BY DEF IInv, PutAlert
<1>2. /\ store' \in Seq(Entry) /\ Len(store') <= MaxEntries
      /\ InOrder(store', used')
      /\ insertions' \in Nat /\ evictions' \in Nat
      /\ insertions' - evictions' - removed = Len(store')
    BY PutStore
<1>3. now' \in 0 .. MaxTime /\ used' \in [Ids -> 0 .. MaxTime] /\ \A i \in Ids : used'[i] <= now'
    BY <1>1, Clock, TouchLatest
<1>4. stayed' \in [Threads -> SUBSET Ids] /\ Listings'
    BY <1>1, TrackedStayed
<1>5. Typed'
    BY <1>1, <1>2, <1>3, <1>4 DEF Typed
<1>6. Accounting'
    BY <1>1, <1>2 DEF Accounting
<1>7. Ordered'
    BY <1>2, <1>3 DEF Ordered
<1>8. QED BY <1>4, <1>5, <1>6, <1>7 DEF IInv

\* A hit moves its entry to the end (alert_cache.py:111-122).
LEMMA HitOrder ==
  ASSUME Typed, Ordered, NEW id \in StoredIds(store), Advance, Touch(id), store' = Get(store, id)
  PROVE  /\ id \in Ids /\ store' \in Seq(Entry) /\ Len(store') = Len(store)
         /\ Ordered' /\ StoredIds(store') = StoredIds(store)
         /\ now' \in 0 .. MaxTime /\ used' \in [Ids -> 0 .. MaxTime]
<1>1. store \in Seq(Entry)
    BY DEF Typed
<1>2. PICK e \in Entry : e = EntryOf(store, id) /\ e.id = id
    BY <1>1, PlaceOfStored
<1>3. id \in Ids
    BY <1>2 DEF Entry
<1>4. PICK m \in Nat : m = now'
    BY Clock
<1>5. /\ used \in [Ids -> Nat] /\ InOrder(store, used)
      /\ \A i \in Ids : used[i] < m
      /\ used' = [used EXCEPT ![id] = m]
      /\ now' \in 0 .. MaxTime /\ used' \in [Ids -> 0 .. MaxTime]
      /\ \A i \in Ids : used'[i] <= now'
    BY <1>3, <1>4, Clock, TouchLatest
<1>6. store' = Append(Without(store, e.id), e)
    BY <1>2 DEF Get
<1>7. /\ store' \in Seq(Entry) /\ Len(store') = Len(store)
      /\ InOrder(store', used') /\ StoredIds(store') = StoredIds(store)
  <2>1. e.id \in StoredIds(store) /\ used' = [used EXCEPT ![e.id] = m]
      BY <1>2, <1>5
  <2>2. LET t == Append(Without(store, e.id), e) IN
        /\ t \in Seq(Entry) /\ Len(t) = Len(store)
        /\ InOrder(t, [used EXCEPT ![e.id] = m])
        /\ StoredIds(t) = StoredIds(store)
      BY <1>1, <1>5, <2>1, MovedOrder
  <2>3. QED BY <1>6, <2>1, <2>2
<1>8. QED BY <1>3, <1>5, <1>7 DEF Ordered

LEMMA GetIInv ==
  ASSUME IInv, NEW id \in Ids, GetAlert(id)
  PROVE  IInv'
<1>1. /\ Typed /\ Ordered /\ Listings /\ Accounting /\ Advance /\ Touch(id)
      /\ id \in StoredIds(store) /\ store' = Get(store, id)
      /\ UNCHANGED <<insertions, evictions, listing, removed, stayed>>
    BY DEF IInv, GetAlert
<1>2. /\ store' \in Seq(Entry) /\ Len(store') = Len(store)
      /\ Ordered' /\ StoredIds(store') = StoredIds(store)
      /\ now' \in 0 .. MaxTime /\ used' \in [Ids -> 0 .. MaxTime]
    BY <1>1, HitOrder
<1>3. Typed' /\ Accounting'
    BY <1>1, <1>2 DEF Typed, Accounting
<1>4. \A t \in Threads : stayed[t] \subseteq StoredIds(store)
    BY <1>1 DEF Listings, ListingOK
<1>5. Listings'
    BY <1>1, <1>2, <1>4, ListingsStay
<1>6. QED BY <1>2, <1>3, <1>5 DEF IInv

\* An alert is removed, or all are.
LEMMA RemoveIInv ==
  ASSUME IInv, (\E id \in Ids : RemoveAlert(id)) \/ Clear
  PROVE  IInv'
<1>1. /\ Typed /\ Ordered /\ Listings /\ Accounting /\ Advance /\ TrackStayed
      /\ UNCHANGED <<insertions, evictions, listing, used>>
    BY DEF IInv, RemoveAlert, Clear
<1>2. /\ store \in Seq(Entry) /\ Len(store) \in Nat /\ removed \in Nat
      /\ insertions \in Nat /\ evictions \in Nat
      /\ Len(store) <= MaxEntries /\ insertions - evictions - removed = Len(store)
      /\ used \in [Ids -> Nat] /\ InOrder(store, used)
      /\ now' \in 0 .. MaxTime
      /\ \A i \in Ids : used[i] \in Nat /\ used[i] < now' /\ now' \in Nat
    BY <1>1, Clock, LenProperties DEF Typed, Accounting
<1>3. /\ store' \in Seq(Entry) /\ Len(store') \in Nat /\ Len(store') <= Len(store)
      /\ removed' = removed + (Len(store) - Len(store'))
      /\ InOrder(store', used)
  <2>1. CASE \E id \in Ids : RemoveAlert(id)
    <3>1. PICK id \in StoredIds(store) : store' = Without(store, id) /\ removed' = removed + 1
        BY <2>1 DEF RemoveAlert
    <3>2. /\ store' \in Seq(Entry) /\ Len(store') = Len(store) - 1 /\ InOrder(store', used)
        BY <1>2, <3>1, WithoutOrder
    <3>3. Len(store') \in Nat
        BY <3>2, LenProperties
    <3>4. QED BY <1>2, <3>1, <3>2, <3>3
  <2>2. CASE Clear
    <3>1. store' = <<>> /\ removed' = removed + Len(store)
        BY <2>2 DEF Clear
    <3>2. store' \in Seq(Entry) /\ Len(store') = 0 /\ DOMAIN store' = {}
        BY <3>1
    <3>3. QED BY <1>2, <3>1, <3>2 DEF InOrder
  <2>3. QED BY <2>1, <2>2
<1>4. stayed' \in [Threads -> SUBSET Ids] /\ Listings'
    BY <1>1, TrackedStayed
<1>5. Typed'
    BY <1>1, <1>2, <1>3, <1>4 DEF Typed
<1>6. Accounting'
    BY <1>1, <1>2, <1>3 DEF Accounting
<1>7. Ordered'
  <2>1. \A i \in Ids : used'[i] <= now'
      BY <1>1, <1>2
  <2>2. QED BY <1>1, <1>3, <2>1 DEF Ordered
<1>8. QED BY <1>4, <1>5, <1>6, <1>7 DEF IInv

----------------------------------------------------------------------------
(***************************************************************************)
(* Steps of the readers.                                                   *)
(***************************************************************************)

\* The ids of a store in its order, and those a listing is to fetch.
IdsOf(s) == [i \in DOMAIN s |-> s[i].id]

Newest(s, limit) ==
  LET last == Reverse(IdsOf(s))
  IN  SubSeq(last, 1, IF Len(last) < limit THEN Len(last) ELSE limit)

\* A snapshot has all the ids of the store, the last one first.
LEMMA ReversedIds ==
  ASSUME NEW s \in Seq(Entry)
  PROVE  /\ Reverse(IdsOf(s)) \in Seq(Ids) /\ Len(Reverse(IdsOf(s))) = Len(s)
         /\ \A i \in 1 .. Len(s) : /\ Len(s) - i + 1 \in 1 .. Len(s)
                                  /\ Reverse(IdsOf(s))[i] = s[Len(s) - i + 1].id
<1>1. PICK n \in Nat : n = Len(s) /\ DOMAIN s = 1 .. n
    BY LenProperties
<1>2. \A i \in 1 .. n : s[i].id \in Ids
    BY <1>1, StoredId
<1>3. PICK ids : ids = IdsOf(s)
    OBVIOUS
<1>4. ids \in [1 .. n -> Ids] /\ \A i \in 1 .. n : ids[i] = s[i].id
    BY <1>1, <1>2, <1>3 DEF IdsOf
<1>5. ids \in Seq(Ids) /\ Len(ids) = n
  <2>1. ids \in Seq(Ids) /\ DOMAIN ids = 1 .. n
      BY <1>4, SeqDef
  <2>2. Len(ids) \in Nat /\ DOMAIN ids = 1 .. Len(ids)
      BY <2>1, LenProperties
  <2>3. QED BY <2>1, <2>2
<1>6. PICK r : r = Reverse(ids)
    OBVIOUS
<1>7. r = [i \in 1 .. n |-> ids[(n - i) + 1]]
    BY <1>5, <1>6 DEF Reverse
<1>8. \A i \in 1 .. n : n - i + 1 \in 1 .. n
    OBVIOUS
<1>9. \A i \in 1 .. n : r[i] = ids[n - i + 1]
    BY <1>7
<1>10. \A i \in 1 .. n : r[i] = s[n - i + 1].id
    BY <1>4, <1>8, <1>9
<1>11. r \in [1 .. n -> Ids]
    BY <1>2, <1>7, <1>8, <1>10
<1>12. r \in Seq(Ids) /\ Len(r) = n
  <2>1. r \in Seq(Ids) /\ DOMAIN r = 1 .. n
      BY <1>11, SeqDef
  <2>2. Len(r) \in Nat /\ DOMAIN r = 1 .. Len(r)
      BY <2>1, LenProperties
  <2>3. QED BY <2>1, <2>2
<1>13. QED BY <1>1, <1>3, <1>6, <1>8, <1>10, <1>12

\* The ids a listing is to fetch are all stored, no two the same
\* (alerts.py:20-24).
LEMMA SnapshotIds ==
  ASSUME NEW s \in Seq(Entry), Distinct(s), NEW limit \in Nat
  PROVE  /\ Newest(s, limit) \in Seq(Ids)
         /\ \A i, j \in DOMAIN Newest(s, limit) : Newest(s, limit)[i] = Newest(s, limit)[j] => i = j
         /\ ToSet(Newest(s, limit)) \subseteq StoredIds(s)
<1>1. PICK n \in Nat : n = Len(s) /\ DOMAIN s = 1 .. n
    BY LenProperties
<1>2. PICK r \in Seq(Ids) :
        /\ r = Reverse(IdsOf(s)) /\ Len(r) = n
        /\ \A i \in 1 .. n : n - i + 1 \in 1 .. n /\ r[i] = s[n - i + 1].id
    BY <1>1, ReversedIds
<1>3. PICK k \in 0 .. n : Newest(s, limit) = SubSeq(r, 1, k)
  <2> DEFINE h == IF n < limit THEN n ELSE limit
  <2>1. h \in 0 .. n
      OBVIOUS
  <2>2. Newest(s, limit) = SubSeq(r, 1, h)
      BY <1>2 DEF Newest
  <2>3. QED BY <2>1, <2>2
<1>4. PICK todo : todo = SubSeq(r, 1, k)
    OBVIOUS
<1>5. /\ todo \in Seq(Ids) /\ Len(todo) = k
      /\ \A i \in 1 .. k : todo[i] = r[i]
  <2>1. \A i \in 1 .. k : r[i] \in Ids
    <3>1. \A i \in 1 .. k : i \in 1 .. Len(r)
        BY <1>2
    <3>2. QED BY <3>1, ElementOfSeq
  <2>2. 1 \in Int /\ k \in Int
      OBVIOUS
  <2>3. /\ SubSeq(r, 1, k) \in Seq(Ids)
        /\ Len(SubSeq(r, 1, k)) = IF 1 <= k THEN k - 1 + 1 ELSE 0
        /\ \A i \in 1 .. k - 1 + 1 : SubSeq(r, 1, k)[i] = r[1 + i - 1]
      BY <2>1, <2>2, SubSeqProperties
  <2>4. Len(todo) = k
      BY <1>4, <2>3
  <2>5. \A i \in 1 .. k : i \in 1 .. k - 1 + 1 /\ 1 + i - 1 = i
      OBVIOUS
  <2>6. QED BY <1>4, <2>3, <2>4, <2>5
<1>6. DOMAIN todo = 1 .. k
    BY <1>5, LenProperties
<1>7. \A i \in 1 .. k : n - i + 1 \in 1 .. n /\ todo[i] = s[n - i + 1].id
  <2>1. \A i \in 1 .. k : i \in 1 .. n
      OBVIOUS
  <2>2. QED BY <1>2, <1>5, <2>1
<1>8. \A i, j \in 1 .. k : todo[i] = todo[j] => i = j
  <2> SUFFICES ASSUME NEW i \in 1 .. k, NEW j \in 1 .. k, todo[i] = todo[j]
               PROVE  i = j
      OBVIOUS
  <2>1. s[n - i + 1].id = s[n - j + 1].id
      BY <1>7
  <2>2. n - i + 1 = n - j + 1
      BY <1>1, <1>7, <2>1 DEF Distinct
  <2>3. QED BY <2>2
<1>9. \A i \in 1 .. k : todo[i] \in StoredIds(s)
    BY <1>1, <1>7 DEF StoredIds
<1>10. ToSet(todo) \subseteq StoredIds(s)
    BY <1>6, <1>9 DEF ToSet
<1>11. Newest(s, limit) = todo
    BY <1>3, <1>4
<1>12. QED BY <1>5, <1>6, <1>8, <1>10, <1>11

\* What does not change the store or the clock keeps the rest of the invariant.
LEMMA ReaderOnly ==
  ASSUME IInv, NEW t \in Threads,
         UNCHANGED <<store, insertions, evictions, now, used, removed>>,
         NEW l \in Listing, listing' = [listing EXCEPT ![t] = l],
         NEW k \in SUBSET Ids, stayed' = [stayed EXCEPT ![t] = k],
         ListingOK(l, k)
  PROVE  IInv'
<1>1. /\ Typed /\ Ordered /\ Accounting /\ Listings
      /\ listing \in [Threads -> Listing] /\ stayed \in [Threads -> SUBSET Ids]
    BY DEF IInv, Typed
<1>2. listing' \in [Threads -> Listing] /\ stayed' \in [Threads -> SUBSET Ids]
    BY <1>1
<1>3. Typed' /\ Accounting' /\ Ordered'
    BY <1>1, <1>2 DEF Typed, Accounting, Ordered
<1>4. ASSUME NEW u \in Threads PROVE ListingOK(listing[u], stayed[u])'
  <2>1. ListingOK(listing'[u], stayed'[u])
    <3>1. CASE u = t
      <4>1. listing'[u] = l /\ stayed'[u] = k
          BY <1>1, <3>1
      <4>2. QED BY <4>1
    <3>2. CASE u # t
      <4>1. listing'[u] = listing[u] /\ stayed'[u] = stayed[u]
          BY <1>1, <3>2
      <4>2. QED BY <1>1, <4>1 DEF Listings
    <3>3. QED BY <3>1, <3>2
  <2>2. QED BY <2>1 DEF ListingOK
<1>5. Listings'
    BY <1>4 DEF Listings
<1>6. QED BY <1>3, <1>5 DEF IInv

LEMMA StartListingIInv ==
  ASSUME IInv, NEW t \in Threads, NEW limit \in 1 .. MaxLimit, StartListing(t, limit)
  PROVE  IInv'
<1> DEFINE todo == Newest(store, limit)
           l == [todo |-> todo, items |-> <<>>, open |-> TRUE]
<1>1. /\ listing' = [listing EXCEPT ![t] = l]
      /\ stayed' = [stayed EXCEPT ![t] = ToSet(todo)]
      /\ UNCHANGED <<store, insertions, evictions, now, used, removed>>
    BY DEF StartListing, Newest, IdsOf
<1>2. store \in Seq(Entry) /\ Distinct(store) /\ limit \in Nat
  <2>1. store \in Seq(Entry) /\ used \in [Ids -> Nat] /\ InOrder(store, used)
      BY DEF IInv, Typed, Ordered
  <2>2. QED BY <2>1, OrderedDistinct
<1>3. /\ todo \in Seq(Ids)
      /\ \A i, j \in DOMAIN todo : todo[i] = todo[j] => i = j
      /\ ToSet(todo) \subseteq StoredIds(store)
    BY <1>2, SnapshotIds
<1> HIDE DEF todo
<1>4. l \in Listing /\ l.todo = todo /\ l.items = <<>>
    BY <1>3 DEF Listing
<1> HIDE DEF l
<1>5. ToSet(todo) \in SUBSET Ids
    BY <1>2, <1>3, StoredId
<1>6. ListingOK(l, ToSet(todo))
  <2>1. DOMAIN l.items = {}
      BY <1>4
  <2>2. Distinct(l.items) /\ StoredIds(l.items) = {}
      BY <2>1 DEF Distinct, StoredIds
  <2>3. QED BY <1>3, <1>4, <2>2 DEF ListingOK
<1>7. QED BY <1>1, <1>4, <1>5, <1>6, ReaderOnly

LEMMA EndListingIInv ==
  ASSUME IInv, NEW t \in Threads, EndListing(t)
  PROVE  IInv'
<1>1. /\ listing' = [listing EXCEPT ![t] = NoListing]
      /\ stayed' = [stayed EXCEPT ![t] = {}]
      /\ UNCHANGED <<store, insertions, evictions, now, used, removed>>
    BY DEF EndListing
<1>2. PICK l : l = NoListing
    OBVIOUS
<1>3. l \in Listing /\ l.todo = <<>> /\ l.items = <<>>
    BY <1>2 DEF Listing, NoListing
<1>4. ListingOK(l, {})
    BY <1>3 DEF ListingOK, Distinct, StoredIds, ToSet
<1>5. QED BY <1>1, <1>2, <1>3, <1>4, ReaderOnly

\* The rest of a list of different ids.
LEMMA TailIds ==
  ASSUME NEW q \in Seq(Ids), q # <<>>, \A i, j \in DOMAIN q : q[i] = q[j] => i = j
  PROVE  /\ Head(q) \in Ids /\ Tail(q) \in Seq(Ids)
         /\ \A i, j \in DOMAIN Tail(q) : Tail(q)[i] = Tail(q)[j] => i = j
         /\ Head(q) \in ToSet(q)
         /\ ToSet(Tail(q)) = ToSet(q) \ {Head(q)}
<1>1. PICK n \in Nat \ {0} : n = Len(q) /\ DOMAIN q = 1 .. n
    BY EmptySeq, LenProperties
<1>2. PICK w \in Seq(Ids) : /\ w = Tail(q) /\ Len(w) = n - 1
                           /\ \A i \in 1 .. n - 1 : w[i] = q[i + 1]
  <2>1. /\ Tail(q) \in Seq(Ids) /\ Len(Tail(q)) = Len(q) - 1
        /\ \A i \in 1 .. Len(Tail(q)) : Tail(q)[i] = q[i + 1]
      BY <1>1, HeadTailProperties
  <2>2. Len(Tail(q)) = n - 1
      BY <1>1, <2>1
  <2>3. QED BY <2>1, <2>2
<1>3. DOMAIN w = 1 .. n - 1
    BY <1>2, LenProperties
<1>4. Head(q) = q[1] /\ Head(q) \in Ids /\ 1 \in 1 .. n
    BY <1>1, HeadTailProperties
<1>5. \A i \in 1 .. n - 1 : i + 1 \in 1 .. n /\ i + 1 # 1
    OBVIOUS
<1>6. \A i, j \in 1 .. n - 1 : w[i] = w[j] => i = j
  <2> SUFFICES ASSUME NEW i \in 1 .. n - 1, NEW j \in 1 .. n - 1, w[i] = w[j]
               PROVE  i = j
      OBVIOUS
  <2>1. i + 1 = j + 1
      BY <1>1, <1>2, <1>5
  <2>2. QED BY <2>1
<1>7. \A x : x \in ToSet(w) <=> x \in ToSet(q) /\ x # Head(q)
  <2>1. /\ \A x : x \in ToSet(w) <=> \E i \in 1 .. n - 1 : w[i] = x
        /\ \A x : x \in ToSet(q) <=> \E i \in 1 .. n : q[i] = x
      BY <1>1, <1>3 DEF ToSet
  <2>2. \A i \in 1 .. n - 1 : w[i] # q[1]
      BY <1>1, <1>2, <1>4, <1>5
  <2>3. \A k \in 1 .. n : k = 1 \/ \E i \in 1 .. n - 1 : w[i] = q[k]
    <3> SUFFICES ASSUME NEW k \in 1 .. n, k # 1 PROVE \E i \in 1 .. n - 1 : w[i] = q[k]
        OBVIOUS
    <3>1. k - 1 \in 1 .. n - 1 /\ (k - 1) + 1 = k
        OBVIOUS
    <3>2. w[k - 1] = q[k]
        BY <1>2, <3>1
    <3>3. QED BY <3>1, <3>2
  <2>4. \A i \in 1 .. n - 1 : \E k \in 1 .. n : q[k] = w[i]
      BY <1>2, <1>5
  <2>5. ASSUME NEW x \in ToSet(w) PROVE x \in ToSet(q) /\ x # Head(q)
      BY <1>4, <2>1, <2>2, <2>4
  <2>6. ASSUME NEW x \in ToSet(q), x # Head(q) PROVE x \in ToSet(w)
    <3>1. PICK k \in 1 .. n : q[k] = x
        BY <2>1
    <3>2. k # 1
        BY <1>4, <2>6, <3>1
    <3>3. QED BY <2>1, <2>3, <3>1, <3>2
  <2>7. QED BY <2>5, <2>6
<1>8. ToSet(w) = ToSet(q) \ {Head(q)}
    BY <1>7
<1>9. Head(q) \in ToSet(q)
    BY <1>1, <1>4 DEF ToSet
<1>10. QED BY <1>2, <1>3, <1>4, <1>6, <1>8, <1>9

\* A listing that finds an alert it had not found before.
LEMMA AppendDistinct ==
  ASSUME NEW s \in Seq(Entry), Distinct(s), NEW e \in Entry, e.id \notin StoredIds(s)
  PROVE  /\ Append(s, e) \in Seq(Entry) /\ Distinct(Append(s, e))
         /\ StoredIds(Append(s, e)) = StoredIds(s) \cup {e.id}
<1>1. PICK n \in Nat : n = Len(s) /\ DOMAIN s = 1 .. n
    BY LenProperties
<1>2. PICK l \in Seq(Entry) :
        /\ l = Append(s, e) /\ Len(l) = n + 1
        /\ \A i \in 1 .. n : l[i] = s[i]
        /\ l[n + 1] = e
  <2>1. /\ Append(s, e) \in Seq(Entry) /\ Len(Append(s, e)) = Len(s) + 1
        /\ \A i \in 1 .. Len(s) : Append(s, e)[i] = s[i]
        /\ Append(s, e)[Len(s) + 1] = e
      BY AppendProperties
  <2>2. QED BY <1>1, <2>1
<1>3. DOMAIN l = 1 .. n + 1
    BY <1>2, LenProperties
<1>4. \A i \in 1 .. n + 1 : i = n + 1 \/ i \in 1 .. n
    OBVIOUS
<1>5. \A i \in 1 .. n : l[i].id # e.id
    BY <1>1, <1>2 DEF StoredIds
<1>6. \A i, j \in 1 .. n : l[i].id = l[j].id => i = j
    BY <1>1, <1>2 DEF Distinct
<1>7. Distinct(l)
  <2> SUFFICES ASSUME NEW i \in 1 .. n + 1, NEW j \in 1 .. n + 1, l[i].id = l[j].id
               PROVE  i = j
      BY <1>3 DEF Distinct
  <2>1. CASE i \in 1 .. n /\ j \in 1 .. n
      BY <1>6, <2>1
  <2>2. CASE i = n + 1 \/ j = n + 1
      BY <1>2, <1>4, <1>5, <2>2
  <2>3. QED BY <1>4, <2>1, <2>2
<1>8. \A x : x \in StoredIds(l) <=> x \in StoredIds(s) \/ x = e.id
  <2>1. /\ \A x : x \in StoredIds(l) <=> \E i \in 1 .. n + 1 : l[i].id = x
        /\ \A x : x \in StoredIds(s) <=> \E i \in 1 .. n : s[i].id = x
      BY <1>1, <1>3 DEF StoredIds
  <2>2. n + 1 \in 1 .. n + 1 /\ 1 .. n \subseteq 1 .. n + 1
      OBVIOUS
  <2>3. QED BY <1>2, <1>4, <2>1, <2>2
<1>9. QED BY <1>2, <1>7, <1>8

\* A listing, from its parts.
LEMMA ListingParts ==
  ASSUME NEW w \in Seq(Ids), NEW r \in Seq(Entry), NEW o, o \in BOOLEAN, NEW k,
         \A i, j \in DOMAIN w : w[i] = w[j] => i = j,
         Distinct(r),
         \A x \in ToSet(w) : x \notin StoredIds(r),
         k \subseteq StoredIds(r) \cup ToSet(w),
         k \subseteq StoredIds(store)
  PROVE  LET m == [todo |-> w, items |-> r, open |-> o] IN m \in Listing /\ ListingOK(m, k)
<1> DEFINE m == [todo |-> w, items |-> r, open |-> o]
<1>1. m \in Listing
    BY DEF Listing
<1>2. m.todo = w /\ m.items = r
    OBVIOUS
<1> HIDE DEF m
<1>3. ListingOK(m, k)
    BY <1>2 DEF ListingOK
<1>4. QED BY <1>1, <1>3 DEF m

\* A get of a listing that finds its alert.
LEMMA FoundOK ==
  ASSUME NEW l \in Listing, NEW k, ListingOK(l, k), l.todo # <<>>,
         NEW e \in Entry, e.id = Head(l.todo)
  PROVE  Fetched(l, TRUE, e) \in Listing /\ ListingOK(Fetched(l, TRUE, e), k)
<1>1. PICK q \in Seq(Ids) : q = l.todo /\ q # <<>> /\ \A i, j \in DOMAIN q : q[i] = q[j] => i = j
    BY DEF Listing, ListingOK
<1>2. PICK s \in Seq(Entry) : s = l.items /\ Distinct(s)
    BY DEF Listing, ListingOK
<1>3. PICK h : h = Head(q)
    OBVIOUS
<1>4. PICK w \in Seq(Ids) : w = Tail(q)
    BY <1>1, TailIds
<1>5. /\ \A i, j \in DOMAIN w : w[i] = w[j] => i = j
      /\ h \in ToSet(q)
      /\ ToSet(w) = ToSet(q) \ {h}
    BY <1>1, <1>3, <1>4, TailIds
<1>6. /\ \A x \in ToSet(q) : x \notin StoredIds(s)
      /\ k \subseteq StoredIds(s) \cup ToSet(q)
      /\ k \subseteq StoredIds(store)
    BY <1>1, <1>2 DEF ListingOK
<1>7. e.id \notin StoredIds(s) /\ e.id = h
    BY <1>1, <1>3, <1>5, <1>6
<1>8. PICK r \in Seq(Entry) : /\ r = Append(s, e) /\ Distinct(r)
                             /\ StoredIds(r) = StoredIds(s) \cup {h}
    BY <1>2, <1>7, AppendDistinct
<1>9. Fetched(l, TRUE, e) = [todo |-> w, items |-> r, open |-> l.open] /\ l.open \in BOOLEAN
  <2>1. l = [todo |-> l.todo, items |-> l.items, open |-> l.open] /\ l.open \in BOOLEAN
      BY DEF Listing
  <2>2. Fetched(l, TRUE, e) = [[l EXCEPT !.todo = w] EXCEPT !.items = r]
      BY <1>1, <1>2, <1>4, <1>8 DEF Fetched, Listing
  <2>3. QED BY <2>1, <2>2
<1>10. /\ \A x \in ToSet(w) : x \notin StoredIds(r)
       /\ k \subseteq StoredIds(r) \cup ToSet(w)
       /\ Distinct(r)
    BY <1>5, <1>6, <1>8
<1>11. LET m == [todo |-> w, items |-> r, open |-> l.open] IN m \in Listing /\ ListingOK(m, k)
    BY <1>5, <1>6, <1>9, <1>10, ListingParts
<1>12. QED BY <1>9, <1>11

\* A get of a listing that finds its alert gone.
LEMMA MissedOK ==
  ASSUME NEW l \in Listing, NEW k, ListingOK(l, k), l.todo # <<>>, Head(l.todo) \notin k
  PROVE  LET m == [l EXCEPT !.todo = Tail(@)] IN m \in Listing /\ ListingOK(m, k)
<1>1. PICK q \in Seq(Ids) : q = l.todo /\ q # <<>> /\ \A i, j \in DOMAIN q : q[i] = q[j] => i = j
    BY DEF Listing, ListingOK
<1>2. PICK s \in Seq(Entry) : s = l.items /\ Distinct(s)
    BY DEF Listing, ListingOK
<1>3. PICK h : h = Head(q)
    OBVIOUS
<1>4. PICK w \in Seq(Ids) : w = Tail(q)
    BY <1>1, TailIds
<1>5. /\ \A i, j \in DOMAIN w : w[i] = w[j] => i = j
      /\ h \in ToSet(q)
      /\ ToSet(w) = ToSet(q) \ {h}
    BY <1>1, <1>3, <1>4, TailIds
<1>6. /\ \A x \in ToSet(q) : x \notin StoredIds(s)
      /\ k \subseteq StoredIds(s) \cup ToSet(q)
      /\ k \subseteq StoredIds(store)
    BY <1>1, <1>2 DEF ListingOK
<1>7. h \notin k
    BY <1>1, <1>3
<1>8. /\ \A x \in ToSet(w) : x \notin StoredIds(s)
      /\ k \subseteq StoredIds(s) \cup ToSet(w)
      /\ Distinct(s)
    BY <1>2, <1>5, <1>6, <1>7
<1>9. [l EXCEPT !.todo = Tail(@)] = [todo |-> w, items |-> s, open |-> l.open] /\ l.open \in BOOLEAN
  <2>1. l = [todo |-> l.todo, items |-> l.items, open |-> l.open] /\ l.open \in BOOLEAN
      BY DEF Listing
  <2>2. [l EXCEPT !.todo = Tail(@)] = [l EXCEPT !.todo = w]
      BY <1>1, <1>4
  <2>3. QED BY <1>2, <2>1, <2>2
<1>10. LET m == [todo |-> w, items |-> s, open |-> l.open] IN m \in Listing /\ ListingOK(m, k)
    BY <1>5, <1>6, <1>8, <1>9, ListingParts
<1>11. QED BY <1>9, <1>10

\* A step of one reader that uses at most an entry.
LEMMA ReaderStep ==
  ASSUME IInv, NEW t \in Threads,
         UNCHANGED <<insertions, evictions, removed, stayed>>,
         store' \in Seq(Entry), Len(store') = Len(store), StoredIds(store') = StoredIds(store),
         Ordered', now' \in 0 .. MaxTime, used' \in [Ids -> 0 .. MaxTime],
         NEW l \in Listing, listing' = [listing EXCEPT ![t] = l], ListingOK(l, stayed[t])
  PROVE  IInv'
<1>1. /\ Typed /\ Accounting /\ Listings /\ listing \in [Threads -> Listing]
    BY DEF IInv, Typed
<1>2. listing' \in [Threads -> Listing]
    BY <1>1
<1>3. Typed' /\ Accounting'
    BY <1>1, <1>2 DEF Typed, Accounting
<1>4. ASSUME NEW u \in Threads PROVE ListingOK(listing[u], stayed[u])'
  <2>1. ListingOK(listing'[u], stayed[u])
    <3>1. CASE u = t
      <4>1. listing'[u] = l
          BY <1>1, <3>1
      <4>2. QED BY <3>1, <4>1
    <3>2. CASE u # t
      <4>1. listing'[u] = listing[u]
          BY <1>1, <3>2
      <4>2. QED BY <1>1, <4>1 DEF Listings
    <3>3. QED BY <3>1, <3>2
  <2>2. QED BY <2>1 DEF ListingOK
<1>5. Listings'
    BY <1>4 DEF Listings
<1>6. QED BY <1>3, <1>5 DEF IInv

LEMMA FetchIInv ==
  ASSUME IInv, NEW t \in Threads, Fetch(t)
  PROVE  IInv'
<1> DEFINE id == Head(listing[t].todo)
<1>1. /\ Typed /\ Ordered /\ Listings
      /\ store' = Get(store, id)
      /\ UNCHANGED <<insertions, evictions, removed, stayed>>
    BY DEF IInv, Fetch
<1>2. /\ store \in Seq(Entry) /\ listing \in [Threads -> Listing]
      /\ now \in 0 .. MaxTime /\ used \in [Ids -> 0 .. MaxTime]
    BY <1>1 DEF Typed
<1>3. PICK l \in Listing : l = listing[t] /\ l.todo # <<>> /\ ListingOK(l, stayed[t])
    BY <1>1, <1>2 DEF Fetch, Listings
<1>4. CASE id \in StoredIds(store)
  <2>1. /\ Advance /\ Touch(id)
        /\ listing' = [listing EXCEPT ![t] = Fetched(@, TRUE, EntryOf(store, id))]
      BY <1>4 DEF Fetch
  <2>2. /\ store' \in Seq(Entry) /\ Len(store') = Len(store)
        /\ Ordered' /\ StoredIds(store') = StoredIds(store)
        /\ now' \in 0 .. MaxTime /\ used' \in [Ids -> 0 .. MaxTime]
      BY <1>1, <1>4, <2>1, HitOrder
  <2>3. PICK e \in Entry : e = EntryOf(store, id) /\ e.id = Head(l.todo)
      BY <1>2, <1>3, <1>4, PlaceOfStored
  <2>4. Fetched(l, TRUE, e) \in Listing /\ ListingOK(Fetched(l, TRUE, e), stayed[t])
      BY <1>3, <2>3, FoundOK
  <2>5. listing' = [listing EXCEPT ![t] = Fetched(l, TRUE, e)]
      BY <1>3, <2>1, <2>3
  <2>6. QED BY <1>1, <2>2, <2>4, <2>5, ReaderStep
<1>5. CASE id \notin StoredIds(store)
  <2>1. /\ UNCHANGED <<now, used>>
        /\ listing' = [listing EXCEPT ![t].todo = Tail(@)]
      BY <1>5 DEF Fetch
  <2>2. store' = store
      BY <1>1, <1>5 DEF Get
  <2>3. Ordered'
      BY <1>1, <2>1, <2>2 DEF Ordered
  <2>4. Head(l.todo) \notin stayed[t]
      BY <1>3, <1>5 DEF ListingOK
  <2>5. PICK m \in Listing : m = [l EXCEPT !.todo = Tail(@)] /\ ListingOK(m, stayed[t])
      BY <1>3, <2>4, MissedOK
  <2>6. listing' = [listing EXCEPT ![t] = m]
      BY <1>2, <1>3, <2>1, <2>5
  <2>7. QED BY <1>1, <1>2, <2>1, <2>2, <2>3, <2>5, <2>6, ReaderStep
<1>6. QED BY <1>4, <1>5

----------------------------------------------------------------------------
(***************************************************************************)
(* The invariant is inductive.                                             *)
(***************************************************************************)

LEMMA InitIInv == Init => IInv
<1> SUFFICES ASSUME Init PROVE IInv
    OBVIOUS
<1>1. Typed
  <2>1. NoListing \in Listing
      BY DEF NoListing, Listing
  <2>2. store \in Seq(Entry) /\ Len(store) = 0
      BY DEF Init
  <2>3. used \in [Ids -> 0 .. MaxTime] /\ now \in 0 .. MaxTime
      BY DEF Init, NeverUsed
  <2>4. QED BY <2>1, <2>2, <2>3 DEF Init, Typed
<1>2. Accounting
    BY DEF Init, Accounting
<1>3. Ordered
    BY DEF Init, NeverUsed, Ordered, InOrder
<1>4. ASSUME NEW t \in Threads PROVE ListingOK(listing[t], stayed[t])
  <2>1. listing[t].todo = <<>> /\ listing[t].items = <<>> /\ stayed[t] = {}
      BY DEF Init, NoListing
  <2>2. QED BY <2>1 DEF ListingOK, Distinct, StoredIds, ToSet
<1>5. QED BY <1>1, <1>2, <1>3, <1>4 DEF IInv, Listings

LEMMA NextIInv == IInv /\ [Next]_vars => IInv'
<1> SUFFICES ASSUME IInv, [Next]_vars PROVE IInv'
    OBVIOUS
<1>1. CASE \E id \in Ids : PutAlert(id) \/ GetAlert(id)
    BY <1>1, PutIInv, GetIInv
<1>2. CASE (\E id \in Ids : RemoveAlert(id)) \/ Clear
    BY <1>2, RemoveIInv
<1>3. CASE \E t \in Threads, limit \in 1 .. MaxLimit : StartListing(t, limit)
    BY <1>3, StartListingIInv
<1>4. CASE \E t \in Threads : Fetch(t) \/ EndListing(t)
    BY <1>4, FetchIInv, EndListingIInv
<1>5. CASE UNCHANGED vars
  <2>1. /\ IInv
        /\ UNCHANGED <<store, insertions, evictions, listing, now, used, removed, stayed, asOf>>
      BY <1>5 DEF vars
  <2>2. Typed' /\ Accounting' /\ Ordered'
      BY <2>1 DEF IInv, Typed, Accounting, Ordered
  <2>3. Listings'
      BY <2>1 DEF IInv, Listings, ListingOK
  <2>4. QED BY <2>2, <2>3 DEF IInv
<1>6. QED BY <1>1, <1>2, <1>3, <1>4, <1>5 DEF Next

----------------------------------------------------------------------------
(***************************************************************************)
(* The order of listings.                                                  *)
(***************************************************************************)

\* A snapshot is in the order of the store, the last first (alerts.py:22-24).
LEMMA SnapshotOrder ==
  ASSUME NEW s \in Seq(Entry), NEW u \in [Ids -> Nat], InOrder(s, u), NEW limit \in Nat
  PROVE  Downward(Newest(s, limit), u)
<1>1. PICK n \in Nat : n = Len(s) /\ DOMAIN s = 1 .. n
    BY LenProperties
<1>2. PICK r \in Seq(Ids) :
        /\ r = Reverse(IdsOf(s)) /\ Len(r) = n
        /\ \A i \in 1 .. n : n - i + 1 \in 1 .. n /\ r[i] = s[n - i + 1].id
    BY <1>1, ReversedIds
<1>3. PICK k \in 0 .. n : Newest(s, limit) = SubSeq(r, 1, k)
  <2> DEFINE h == IF n < limit THEN n ELSE limit
  <2>1. h \in 0 .. n
      OBVIOUS
  <2>2. Newest(s, limit) = SubSeq(r, 1, h)
      BY <1>2 DEF Newest
  <2>3. QED BY <2>1, <2>2
<1>4. PICK todo : todo = SubSeq(r, 1, k)
    OBVIOUS
<1>5. DOMAIN todo = 1 .. k /\ \A i \in 1 .. k : todo[i] = r[i]
  <2>1. \A i \in 1 .. k : i \in 1 .. Len(r)
      BY <1>2
  <2>2. \A i \in 1 .. k : r[i] \in Ids
      BY <2>1, ElementOfSeq
  <2>3. /\ SubSeq(r, 1, k) \in Seq(Ids)
        /\ Len(SubSeq(r, 1, k)) = IF 1 <= k THEN k - 1 + 1 ELSE 0
        /\ \A i \in 1 .. k - 1 + 1 : SubSeq(r, 1, k)[i] = r[1 + i - 1]
      BY <2>2, SubSeqProperties
  <2>4. Len(todo) = k /\ todo \in Seq(Ids)
      BY <1>4, <2>3
  <2>5. DOMAIN todo = 1 .. k
      BY <2>4, LenProperties
  <2>6. \A i \in 1 .. k : i \in 1 .. k - 1 + 1 /\ 1 + i - 1 = i
      OBVIOUS
  <2>7. QED BY <1>4, <2>3, <2>5, <2>6
<1>6. \A i, j \in 1 .. k : i < j => u[todo[j]] < u[todo[i]]
  <2> SUFFICES ASSUME NEW i \in 1 .. k, NEW j \in 1 .. k, i < j
               PROVE  u[todo[j]] < u[todo[i]]
      OBVIOUS
  <2>1. /\ n - i + 1 \in 1 .. n /\ todo[i] = s[n - i + 1].id
        /\ n - j + 1 \in 1 .. n /\ todo[j] = s[n - j + 1].id
    <3>1. i \in 1 .. n /\ j \in 1 .. n
        OBVIOUS
    <3>2. QED BY <1>2, <1>5, <3>1
  <2>2. n - j + 1 < n - i + 1
      OBVIOUS
  <2>3. QED BY <1>1, <2>1, <2>2 DEF InOrder
<1>7. QED BY <1>3, <1>4, <1>5, <1>6 DEF Downward

\* What is left to fetch after one get.
LEMMA TailOrder ==
  ASSUME NEW l \in Listing, NEW u, NewestFirst(l, u), l.todo # <<>>
  PROVE  /\ NewestFirst([l EXCEPT !.todo = Tail(@)], u)
         /\ \A e \in Entry : e.id = Head(l.todo) => NewestFirst(Fetched(l, TRUE, e), u)
<1>1. PICK q \in Seq(Ids) : q = l.todo /\ q # <<>>
    BY DEF Listing
<1>2. PICK s \in Seq(Entry) : s = l.items
    BY DEF Listing
<1>3. PICK n \in Nat \ {0} : n = Len(q) /\ DOMAIN q = 1 .. n
    BY <1>1, EmptySeq, LenProperties
<1>4. PICK w \in Seq(Ids) : /\ w = Tail(q) /\ Len(w) = n - 1
                           /\ \A i \in 1 .. n - 1 : w[i] = q[i + 1]
  <2>1. /\ Tail(q) \in Seq(Ids) /\ Len(Tail(q)) = Len(q) - 1
        /\ \A i \in 1 .. Len(Tail(q)) : Tail(q)[i] = q[i + 1]
      BY <1>1, HeadTailProperties
  <2>2. Len(Tail(q)) = n - 1
      BY <1>3, <2>1
  <2>3. QED BY <2>1, <2>2
<1>5. DOMAIN w = 1 .. n - 1
    BY <1>4, LenProperties
<1>6. Head(q) = q[1] /\ 1 \in 1 .. n
    BY <1>1, <1>3, HeadTailProperties
<1>7. /\ \A i, j \in 1 .. n : i < j => u[q[j]] < u[q[i]]
      /\ \A i, j \in DOMAIN s : i < j => u[s[j].id] < u[s[i].id]
      /\ \A i \in DOMAIN s, j \in 1 .. n : u[q[j]] < u[s[i].id]
    BY <1>1, <1>2, <1>3 DEF NewestFirst, Downward
<1>8. \A i \in 1 .. n - 1 : i + 1 \in 1 .. n /\ 1 < i + 1
    OBVIOUS
<1>9. /\ \A i, j \in 1 .. n - 1 : i < j => u[w[j]] < u[w[i]]
      /\ \A i \in DOMAIN s, j \in 1 .. n - 1 : u[w[j]] < u[s[i].id]
      /\ \A j \in 1 .. n - 1 : u[w[j]] < u[Head(q)]
  <2>1. \A i, j \in 1 .. n - 1 : i < j => i + 1 < j + 1
      OBVIOUS
  <2>2. \A i, j \in 1 .. n - 1 : i < j => u[q[j + 1]] < u[q[i + 1]]
      BY <1>7, <1>8, <2>1
  <2>3. QED BY <1>4, <1>6, <1>7, <1>8, <2>2
<1>10. NewestFirst([l EXCEPT !.todo = Tail(@)], u)
  <2>1. PICK m : m = [l EXCEPT !.todo = Tail(@)]
      OBVIOUS
  <2>2. m.todo = w /\ m.items = s
      BY <1>1, <1>2, <1>4, <2>1 DEF Listing
  <2>3. QED BY <1>5, <1>7, <1>9, <2>1, <2>2 DEF NewestFirst, Downward
<1>11. ASSUME NEW e \in Entry, e.id = Head(l.todo) PROVE NewestFirst(Fetched(l, TRUE, e), u)
  <2>1. PICK k \in Nat : k = Len(s) /\ DOMAIN s = 1 .. k
      BY LenProperties
  <2>2. PICK r \in Seq(Entry) :
          /\ r = Append(s, e) /\ Len(r) = k + 1
          /\ \A i \in 1 .. k : r[i] = s[i]
          /\ r[k + 1] = e
    <3>1. /\ Append(s, e) \in Seq(Entry) /\ Len(Append(s, e)) = Len(s) + 1
          /\ \A i \in 1 .. Len(s) : Append(s, e)[i] = s[i]
          /\ Append(s, e)[Len(s) + 1] = e
        BY AppendProperties
    <3>2. QED BY <2>1, <3>1
  <2>3. DOMAIN r = 1 .. k + 1
      BY <2>2, LenProperties
  <2>4. e.id = q[1]
      BY <1>1, <1>6, <1>11
  <2>5. \A i \in 1 .. k + 1 : i = k + 1 \/ i \in 1 .. k
      OBVIOUS
  <2>6. \A i, j \in 1 .. k + 1 : i < j => u[r[j].id] < u[r[i].id]
    <3> SUFFICES ASSUME NEW i \in 1 .. k + 1, NEW j \in 1 .. k + 1, i < j
                 PROVE  u[r[j].id] < u[r[i].id]
        OBVIOUS
    <3>1. i \in 1 .. k
        OBVIOUS
    <3>2. CASE j = k + 1
        BY <1>6, <1>7, <2>1, <2>2, <2>4, <3>1, <3>2
    <3>3. CASE j \in 1 .. k
        BY <1>7, <2>1, <2>2, <3>1, <3>3
    <3>4. QED BY <2>5, <3>2, <3>3
  <2>7. \A i \in 1 .. k + 1, j \in 1 .. n - 1 : u[w[j]] < u[r[i].id]
      BY <1>6, <1>9, <2>1, <2>2, <2>4, <2>5
  <2>8. PICK m : m = Fetched(l, TRUE, e)
      OBVIOUS
  <2>9. m.todo = w /\ m.items = r
      BY <1>1, <1>2, <1>4, <2>2, <2>8 DEF Fetched, Listing
  <2>10. QED BY <1>5, <1>9, <2>3, <2>6, <2>7, <2>8, <2>9 DEF NewestFirst, Downward
<1>12. QED BY <1>10, <1>11

\* One listing changes, and what it is compared with changes at most with it.
LEMMA TurnStep ==
  ASSUME InTurn, NEW t \in Threads, listing \in [Threads -> Listing],
         NEW l, listing' = [listing EXCEPT ![t] = l],
         NEW u \in [Ids -> 0 .. MaxTime], asOf' = [asOf EXCEPT ![t] = u],
         NewestFirst(l, u)
  PROVE  InTurn'
<1>1. asOf' \in [Threads -> [Ids -> 0 .. MaxTime]]
    BY DEF InTurn
<1>2. ASSUME NEW v \in Threads PROVE NewestFirst(listing'[v], asOf'[v])
  <2>1. CASE v = t
    <3>1. listing'[v] = l /\ asOf'[v] = u
        BY <2>1 DEF InTurn
    <3>2. QED BY <3>1
  <2>2. CASE v # t
    <3>1. listing'[v] = listing[v] /\ asOf'[v] = asOf[v]
        BY <2>2 DEF InTurn
    <3>2. QED BY <3>1 DEF InTurn
  <2>3. QED BY <2>1, <2>2
<1>3. QED BY <1>1, <1>2 DEF InTurn

LEMMA InitInTurn == Init => InTurn
<1> SUFFICES ASSUME Init PROVE InTurn
    OBVIOUS
<1>1. asOf \in [Threads -> [Ids -> 0 .. MaxTime]]
    BY DEF Init, NeverUsed
<1>2. \A t \in Threads : DOMAIN listing[t].todo = {} /\ DOMAIN listing[t].items = {}
    BY DEF Init, NoListing
<1>3. QED BY <1>1, <1>2 DEF InTurn, NewestFirst, Downward

LEMMA NextInTurn == IInv /\ InTurn /\ [Next]_vars => InTurn'
<1> SUFFICES ASSUME IInv, InTurn, [Next]_vars PROVE InTurn'
    OBVIOUS
<1>1. /\ store \in Seq(Entry) /\ listing \in [Threads -> Listing]
      /\ used \in [Ids -> 0 .. MaxTime] /\ InOrder(store, used)
      /\ asOf \in [Threads -> [Ids -> 0 .. MaxTime]]
    BY DEF IInv, Typed, Ordered, InTurn
<1>2. CASE UNCHANGED <<listing, asOf>>
    BY <1>2 DEF InTurn
<1>3. ASSUME NEW t \in Threads, NEW limit \in 1 .. MaxLimit, StartListing(t, limit)
      PROVE  InTurn'
  <2>1. PICK todo : todo = Newest(store, limit)
      OBVIOUS
  <2>2. PICK l : l = [todo |-> todo, items |-> <<>>, open |-> TRUE]
      OBVIOUS
  <2>3. listing' = [listing EXCEPT ![t] = l] /\ asOf' = [asOf EXCEPT ![t] = used]
      BY <1>3, <2>1, <2>2 DEF StartListing, Newest, IdsOf
  <2>4. used \in [Ids -> Nat] /\ limit \in Nat
      BY <1>1
  <2>5. Downward(todo, used)
      BY <1>1, <2>1, <2>4, SnapshotOrder
  <2>6. l.todo = todo /\ DOMAIN l.items = {}
      BY <2>2
  <2>7. NewestFirst(l, used)
      BY <2>5, <2>6 DEF NewestFirst
  <2>8. QED BY <1>1, <2>3, <2>7, TurnStep
<1>4. ASSUME NEW t \in Threads, Fetch(t) PROVE InTurn'
  <2>1. PICK l \in Listing : l = listing[t] /\ l.todo # <<>>
      BY <1>1, <1>4 DEF Fetch
  <2>2. PICK u \in [Ids -> 0 .. MaxTime] : u = asOf[t]
      BY <1>1
  <2>3. NewestFirst(l, u)
      BY <2>1, <2>2 DEF InTurn
  <2>4. asOf' = [asOf EXCEPT ![t] = u]
      BY <1>1, <1>4, <2>2 DEF Fetch
  <2>5. CASE Head(l.todo) \in StoredIds(store)
    <3>1. PICK e \in Entry : e = EntryOf(store, Head(l.todo)) /\ e.id = Head(l.todo)
        BY <1>1, <2>5, PlaceOfStored
    <3>2. listing' = [listing EXCEPT ![t] = Fetched(l, TRUE, e)]
        BY <1>4, <2>1, <2>5, <3>1 DEF Fetch
    <3>3. QED BY <1>1, <2>1, <2>3, <2>4, <3>1, <3>2, TailOrder, TurnStep
  <2>6. CASE Head(l.todo) \notin StoredIds(store)
    <3>1. PICK m : m = [l EXCEPT !.todo = Tail(@)]
        OBVIOUS
    <3>2. listing' = [listing EXCEPT ![t] = m]
        BY <1>1, <1>4, <2>1, <2>6, <3>1 DEF Fetch
    <3>3. NewestFirst(m, u)
        BY <2>1, <2>3, <3>1, TailOrder
    <3>4. QED BY <1>1, <2>4, <3>2, <3>3, TurnStep
  <2>7. QED BY <2>5, <2>6
<1>5. ASSUME NEW t \in Threads, EndListing(t) PROVE InTurn'
  <2>1. listing' = [listing EXCEPT ![t] = NoListing] /\ asOf' = [asOf EXCEPT ![t] = NeverUsed]
      BY <1>5 DEF EndListing
  <2>2. DOMAIN NoListing.todo = {} /\ DOMAIN NoListing.items = {}
      BY DEF NoListing
  <2>3. NewestFirst(NoListing, NeverUsed)
      BY <2>2 DEF NewestFirst, Downward
  <2>4. NeverUsed \in [Ids -> 0 .. MaxTime]
      BY DEF NeverUsed
  <2>5. QED BY <1>1, <2>1, <2>3, <2>4, TurnStep
<1>6. QED BY <1>2, <1>3, <1>4, <1>5
     DEF Next, vars, PutAlert, GetAlert, RemoveAlert, Clear

----------------------------------------------------------------------------
(***************************************************************************)
(* The theorems.                                                           *)
(***************************************************************************)

\* Everything below follows from this.
THEOREM Invariance == Spec => [](IInv /\ InTurn)
<1>1. Init => IInv /\ InTurn
    BY InitIInv, InitInTurn
<1>2. IInv /\ InTurn /\ [Next]_vars => (IInv /\ InTurn)'
    BY NextIInv, NextInTurn
<1>3. QED BY <1>1, <1>2, PTL DEF Spec

\* The cache never holds more than max_entries alerts, nor an id twice,
\* whatever endpoints interleave (alert_cache.py:124-138).
THEOREM CacheTypeCorrect == Spec => []TypeOK
<1>1. IInv /\ InTurn => TypeOK
  <2> SUFFICES ASSUME IInv, InTurn PROVE TypeOK
      OBVIOUS
  <2>1. store \in Seq(Entry) /\ used \in [Ids -> Nat] /\ InOrder(store, used)
      BY DEF IInv, Typed, Ordered
  <2>2. Cardinality(StoredIds(store)) = Len(store)
      BY <2>1, OrderedDistinct, DistinctCount
  <2>3. QED BY <2>2 DEF IInv, InTurn, Typed, TypeOK
<1>2. QED BY <1>1, Invariance, PTL

\* What was put in and neither evicted nor removed is stored
\* (alert_cache.py:133-137).
THEOREM AccountingExact == Spec => []Accounting
<1>1. IInv => Accounting
    BY DEF IInv
<1>2. QED BY <1>1, Invariance, PTL

\* A listing reports, once and in the order of its snapshot, each alert of the
\* snapshot that stays in the cache while it runs (alerts.py:20-32).
THEOREM ListingsLoseNothing == Spec => []ListingReportsWhatStayed
<1>1. IInv /\ InTurn => ListingReportsWhatStayed
  <2> SUFFICES ASSUME IInv, InTurn, NEW t \in Threads
               PROVE  LET shown == StoredIds(listing[t].items) IN
                      /\ stayed[t] \subseteq shown \cup ToSet(listing[t].todo)
                      /\ Cardinality(shown) = Len(listing[t].items)
                      /\ shown \cap ToSet(listing[t].todo) = {}
                      /\ \A i, j \in DOMAIN listing[t].items :
                           i < j => asOf[t][listing[t].items[j].id]
                                      < asOf[t][listing[t].items[i].id]
      BY DEF ListingReportsWhatStayed, StoredIds
  <2>1. listing[t].items \in Seq(Entry) /\ ListingOK(listing[t], stayed[t])
      BY DEF IInv, Typed, Listings, Listing
  <2>2. Cardinality(StoredIds(listing[t].items)) = Len(listing[t].items)
      BY <2>1, DistinctCount DEF ListingOK
  <2>3. NewestFirst(listing[t], asOf[t])
      BY DEF InTurn
  <2>4. QED BY <2>1, <2>2, <2>3 DEF ListingOK, NewestFirst
<1>2. QED BY <1>1, Invariance, PTL

\* What a put evicts was used before all that it keeps, whatever the readers
\* promote meanwhile (alert_cache.py:119, 129, 135-136).
THEOREM EvictionIsLRU == Spec => EvictsLeastRecentlyUsed
<1>1. IInv /\ [Next]_vars =>
       [\A gone \in StoredIds(store) \ StoredIds(store') :
          evictions' > evictions =>
            \A kept \in StoredIds(store') : used[gone] < used'[kept]]_vars
  <2> SUFFICES ASSUME IInv, Next, evictions' > evictions,
                      NEW gone \in StoredIds(store) \ StoredIds(store'),
                      NEW kept \in StoredIds(store')
               PROVE  used[gone] < used'[kept]
      OBVIOUS
  <2>1. CASE \E id \in Ids : PutAlert(id)
    <3>1. \/ StoredIds(store) \subseteq StoredIds(store')
          \/ \A x \in StoredIds(store) \ StoredIds(store'), y \in StoredIds(store') :
               used[x] < used'[y]
        BY <2>1, PutStore
    <3>2. QED BY <3>1
  <2>2. CASE evictions' = evictions
    <3>1. evictions \in Nat
        BY DEF IInv, Typed
    <3>2. QED BY <2>2, <3>1
  <2>3. QED BY <2>1, <2>2 DEF Next, GetAlert, RemoveAlert, Clear, StartListing, Fetch, EndListing
<1>2. QED BY <1>1, Invariance, PTL DEF Spec, EvictsLeastRecentlyUsed

=============================================================================

----------------------------- MODULE CacheStore -----------------------------
(***************************************************************************)
(* One scope of the cache: packages/core/src/cache/CacheStore.ts over      *)
(* MemoryCacheAdapter.ts, with the secondary index of CacheIndex.ts.  A    *)
(* store is the adapter's entries in the order of their map and the pairs  *)
(* of the index.  Its operations are functions of the store.               *)
(***************************************************************************)
EXTENDS Integers, SequencesExt

Never == 0       \* the deadline of an entry that does not expire
NoGroup == "none"

\* resolveCachePolicy: `true`, `false` and a policy; max 0 disables, max -1 is Infinity.
Resolved(max, ttl, accepts) ==
  [enabled |-> max # 0, max |-> max, ttl |-> ttl, accepts |-> accepts]
Unbounded(p) == p.max < 0

EmptyStore == [entries |-> <<>>, index |-> {}]

Keys(s) == {s.entries[i].key : i \in DOMAIN s.entries}
Entry(s, k) == s.entries[CHOOSE i \in DOMAIN s.entries : s.entries[i].key = k]
Value(s, k) == Entry(s, k).value

\* #hasExpired
Expired(e, now) == e.due # Never /\ e.due <= now

\* The keys whose entries get, has, keys and values show: swept or not, no expired one.
Live(s, now) == {k \in Keys(s) : ~Expired(Entry(s, k), now)}

Without(entries, ks) ==
  LET kept[i \in 0 .. Len(entries)] ==
        IF i = 0 THEN <<>>
        ELSE IF entries[i].key \in ks THEN kept[i - 1]
        ELSE Append(kept[i - 1], entries[i])
  IN kept[Len(entries)]

\* CacheIndex.removeAnywhere
IndexRemove(index, ks) == {e \in index : e.key \notin ks}

\* CacheIndex.add: moved rather than added, so a key is in one group at a time.
IndexAdd(index, g, k) == IndexRemove(index, {k}) \cup {[key |-> k, group |-> g]}

\* CacheIndex.get
Indexed(s, g) == {e.key : e \in {x \in s.index : x.group = g}}

EvictUnheard(s, ks) == [s EXCEPT !.entries = Without(@, ks)]
\* #evict with its onEvict, and delete: the index forgets the key as well.
Evict(s, ks) == [entries |-> Without(s.entries, ks), index |-> IndexRemove(s.index, ks)]

Deadline(p, now) == IF p.ttl = 0 THEN Never ELSE now + p.ttl

\* The adapter's set: both maps forget the key first, and so keep the order of the writes.
Written(p, s, k, v, now) ==
  [s EXCEPT !.entries = Append(Without(@, {k}),
                               [key |-> k, value |-> v, due |-> Deadline(p, now)])]

\* Its loop: while there are too many, the oldest goes.
Bounded(p, s) ==
  LET over == Len(s.entries) - p.max
  IN IF Unbounded(p) \/ over <= 0 THEN s
     ELSE Evict(s, {s.entries[i].key : i \in 1 .. over})

Set(p, s, k, v, g, now) ==
  IF ~p.enabled THEN s
  ELSE IF v \notin p.accepts THEN Evict(s, {k})
  ELSE LET b == Bounded(p, Written(p, s, k, v, now))
       IN IF g = NoGroup THEN b ELSE [b EXCEPT !.index = IndexAdd(@, g, k)]

\* group: its live keys, and the store once the look has evicted the expired ones.
Group(s, g, now) == Indexed(s, g) \cap Live(s, now)
Looked(s, g, now) == Evict(s, Indexed(s, g) \ Live(s, now))

\* get, which evicts the entry it finds expired.
Got(s, k, now) == Evict(s, {k} \ Live(s, now))

\* sweep: from the oldest write to the first entry that is live.
Swept(s, now) ==
  LET due == {i \in DOMAIN s.entries : \A j \in 1 .. i : Expired(s.entries[j], now)}
  IN Evict(s, {s.entries[i].key : i \in due})

-----------------------------------------------------------------------------
StoreOK(p, s, GroupKey(_), now) ==
  \* a key has one entry, and there are no more than the policy allows
  /\ \A i, j \in DOMAIN s.entries : s.entries[i].key = s.entries[j].key => i = j
  /\ p.enabled \/ s = EmptyStore
  /\ Unbounded(p) \/ Len(s.entries) <= p.max
  \* the index knows the group of exactly the entries that are there
  /\ s.index = {[key |-> k, group |-> GroupKey(k)] : k \in {x \in Keys(s) : GroupKey(x) # NoGroup}}
  \* a sweep that stops at the first live entry leaves no expired one behind it
  /\ Live(Swept(s, now), now) = Keys(Swept(s, now))
=============================================================================

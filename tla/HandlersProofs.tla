---------------------------- MODULE HandlersProofs ---------------------------
(***************************************************************************)
(* What the operations of a store and the handlers of dispatches do, for   *)
(* any entities and policies: that they keep the stores sound, and that    *)
(* most of them, given the same payload again, change nothing.             *)
(***************************************************************************)
EXTENDS Handlers, FiniteSetTheorems, TLAPS

-----------------------------------------------------------------------------
(* Induction, with a set for the property.                                 *)

LEMMA Induct ==
  ASSUME NEW P, 0 \in P, \A m \in Nat : m \in P => m + 1 \in P
  PROVE  \A m \in Nat : m \in P
<1>1. SUFFICES ASSUME NEW m \in Nat, m \notin P PROVE FALSE
  OBVIOUS
<1>2. PICK n \in Nat \ P : \A k \in Nat \ P : ~(<<k, n>> \in OpToRel(<, Nat))
  BY <1>1, NatLessThanWellFounded, WFMin
<1>3. n \in Nat /\ n \notin P
  OBVIOUS
<1>4. n # 0
  BY <1>3
<1>5. n - 1 \in Nat /\ n - 1 < n /\ (n - 1) + 1 = n
  BY ONLY <1>3, <1>4
<1>6. n - 1 \in P
  <2>1. <<n - 1, n>> \in OpToRel(<, Nat)
    BY <1>3, <1>5 DEF OpToRel
  <2> QED
    BY <1>2, <1>5, <2>1
<1> QED
  BY <1>3, <1>5, <1>6

-----------------------------------------------------------------------------
(* Without, by the entries it keeps.                                       *)

\* What is kept of the first m entries.
NextKept(es, ks, f, i) == IF es[i].key \in ks THEN f ELSE Append(f, es[i])

KeptUpTo(es, ks, m, g) ==
  g = [i \in 0 .. m |-> IF i = 0 THEN <<>> ELSE NextKept(es, ks, g[i - 1], i)]

LEMMA KeptExists ==
  ASSUME NEW es, NEW ks, NEW m \in Nat
  PROVE  \E g : KeptUpTo(es, ks, m, g)
<1> DEFINE P == {n \in Nat : \E g : KeptUpTo(es, ks, n, g)}
<1>1. 0 \in P
  <2> DEFINE g == [i \in 0 .. 0 |-> <<>>]
  <2>1. KeptUpTo(es, ks, 0, g)
    BY DEF KeptUpTo
  <2> QED
    BY <2>1
<1>2. ASSUME NEW n \in Nat, n \in P PROVE n + 1 \in P
  <2>1. PICK g : KeptUpTo(es, ks, n, g)
    BY <1>2
  <2> DEFINE h == [i \in 0 .. n + 1 |->
                     IF i = 0 THEN <<>> ELSE NextKept(es, ks, g[i - 1], i)]
  <2>2. ASSUME NEW i \in 0 .. n PROVE h[i] = g[i]
    <3>1. g[i] = IF i = 0 THEN <<>> ELSE NextKept(es, ks, g[i - 1], i)
      BY <2>1 DEF KeptUpTo
    <3>2. i \in 0 .. n + 1
      OBVIOUS
    <3> QED
      BY <3>1, <3>2
  <2>3. ASSUME NEW i \in 0 .. n + 1, i # 0 PROVE g[i - 1] = h[i - 1]
    BY <2>2, <2>3
  <2>4. h = [i \in 0 .. n + 1 |-> IF i = 0 THEN <<>> ELSE NextKept(es, ks, h[i - 1], i)]
    BY <2>3
  <2> HIDE DEF h
  <2>5. KeptUpTo(es, ks, n + 1, h)
    BY <2>4 DEF KeptUpTo
  <2> QED
    BY <2>5
<1> HIDE DEF P
<1>3. m \in P
  BY <1>1, <1>2, Induct
<1> QED
  BY <1>3 DEF P

LEMMA WithoutDef ==
  ASSUME NEW es, NEW ks
  PROVE  Without(es, ks) = (CHOOSE g : KeptUpTo(es, ks, Len(es), g))[Len(es)]
  BY DEF Without, KeptUpTo, NextKept

\* f holds, in order, the entries of es from 1 to m whose keys are not in ks.
Picks(es, ks, m, f) ==
  \E at \in [1 .. Len(f) -> 1 .. m] :
    /\ \A a \in 1 .. Len(f) : f[a] = es[at[a]] /\ es[at[a]].key \notin ks
    /\ \A a, b \in 1 .. Len(f) : a < b => at[a] < at[b]
    /\ \A c \in 1 .. m : es[c].key \notin ks => \E a \in 1 .. Len(f) : at[a] = c

\* They are no more than those that come after the first that go.
Fits(es, ks, m, f) ==
  \A k \in 0 .. m : (\A j \in 1 .. k : es[j].key \in ks) => Len(f) <= m - k

LEMMA Appended ==
  ASSUME NEW S, NEW f \in Seq(S), NEW e \in S
  PROVE  /\ Append(f, e) \in Seq(S)
         /\ Len(f) \in Nat /\ Len(Append(f, e)) = Len(f) + 1
         /\ Append(f, e)[Len(f) + 1] = e
         /\ \A a \in 1 .. Len(f) : Append(f, e)[a] = f[a]
  OBVIOUS

LEMMA PicksNext ==
  ASSUME NEW S, NEW es \in Seq(S), NEW ks, NEW m \in Nat, m + 1 <= Len(es),
         NEW f \in Seq(S), Picks(es, ks, m, f), Fits(es, ks, m, f)
  PROVE  LET h == NextKept(es, ks, f, m + 1)
         IN h \in Seq(S) /\ Picks(es, ks, m + 1, h) /\ Fits(es, ks, m + 1, h)
<1> DEFINE h == NextKept(es, ks, f, m + 1)
<1>0. Len(f) \in Nat /\ Len(es) \in Nat /\ m + 1 \in 1 .. Len(es)
  OBVIOUS
<1>1. PICK at \in [1 .. Len(f) -> 1 .. m] :
        /\ \A a \in 1 .. Len(f) : f[a] = es[at[a]] /\ es[at[a]].key \notin ks
        /\ \A a, b \in 1 .. Len(f) : a < b => at[a] < at[b]
        /\ \A c \in 1 .. m : es[c].key \notin ks => \E a \in 1 .. Len(f) : at[a] = c
  BY DEF Picks
<1>2. CASE es[m + 1].key \in ks
  <2>1. h = f
    BY <1>2 DEF NextKept
  <2>2. at \in [1 .. Len(f) -> 1 .. m + 1]
    BY <1>0
  <2>3. \A c \in 1 .. m + 1 : es[c].key \notin ks => \E a \in 1 .. Len(f) : at[a] = c
    <3>1. \A c \in 1 .. m + 1 : c \in 1 .. m \/ c = m + 1
      OBVIOUS
    <3> QED
      BY <1>1, <1>2, <3>1
  <2>4. Picks(es, ks, m + 1, f)
    BY <1>1, <2>2, <2>3 DEF Picks
  <2>5. Fits(es, ks, m + 1, f)
    <3>1. ASSUME NEW k \in 0 .. m + 1, \A j \in 1 .. k : es[j].key \in ks
          PROVE  Len(f) <= (m + 1) - k
      <4>1. CASE k \in 0 .. m
        <5>1. Len(f) <= m - k
          BY <3>1, <4>1 DEF Fits
        <5> QED
          BY <1>0, <4>1, <5>1
      <4>2. CASE k = m + 1
        <5>1. m \in 0 .. m /\ \A j \in 1 .. m : es[j].key \in ks
          BY <3>1, <4>2
        <5>2. Len(f) <= m - m
          BY <5>1 DEF Fits
        <5> QED
          BY <1>0, <4>2, <5>2
      <4> QED
        BY <4>1, <4>2
    <3> QED
      BY <3>1 DEF Fits
  <2> QED
    BY <2>1, <2>4, <2>5
<1>3. CASE es[m + 1].key \notin ks
  <2> DEFINE n == Len(f) + 1
             up == [a \in 1 .. n |-> IF a = n THEN m + 1 ELSE at[a]]
  <2>1. h = Append(f, es[m + 1]) /\ es[m + 1] \in S
    BY <1>0, <1>3 DEF NextKept
  <2> HIDE DEF h
  <2>2. /\ h \in Seq(S) /\ Len(h) = n /\ h[n] = es[m + 1]
        /\ \A a \in 1 .. Len(f) : h[a] = f[a]
    <3>1. f \in Seq(S)
      OBVIOUS
    <3> QED
      BY ONLY <2>1, <3>1, Appended
  <2>3. \A a \in 1 .. n : a = n \/ a \in 1 .. Len(f)
    BY <1>0
  <2>4. \A a \in 1 .. Len(f) : a # n /\ a \in 1 .. n /\ up[a] = at[a] /\ at[a] \in 1 .. m
    BY <1>0, <1>1
  <2>5. n \in 1 .. n /\ up[n] = m + 1 /\ m + 1 \in 1 .. m + 1 /\ \A x \in 1 .. m : x \in 1 .. m + 1 /\ x < m + 1
    BY <1>0
  <2>6. up \in [1 .. n -> 1 .. m + 1]
    BY <2>3, <2>4, <2>5
  <2> HIDE DEF up
  <2>7. \A a \in 1 .. n : h[a] = es[up[a]] /\ es[up[a]].key \notin ks
    BY <1>1, <1>3, <2>2, <2>3, <2>4, <2>5
  <2>8. ASSUME NEW a \in 1 .. n, NEW b \in 1 .. n, a < b PROVE up[a] < up[b]
    <3>1. a \in 1 .. Len(f)
      BY <1>0, <2>8
    <3>2. CASE b = n
      BY <2>4, <2>5, <3>1, <3>2
    <3>3. CASE b \in 1 .. Len(f)
      BY <1>1, <2>4, <2>8, <3>1, <3>3
    <3> QED
      BY <2>3, <3>2, <3>3
  <2>9. \A c \in 1 .. m + 1 : es[c].key \notin ks => \E a \in 1 .. n : up[a] = c
    <3>1. \A c \in 1 .. m + 1 : c \in 1 .. m \/ c = m + 1
      OBVIOUS
    <3> QED
      BY <1>1, <2>4, <2>5, <3>1
  <2> HIDE DEF n
  <2>10. Picks(es, ks, m + 1, h)
    <3>1. up \in [1 .. Len(h) -> 1 .. m + 1]
      BY <2>2, <2>6
    <3>2. /\ \A a \in 1 .. Len(h) : h[a] = es[up[a]] /\ es[up[a]].key \notin ks
          /\ \A a, b \in 1 .. Len(h) : a < b => up[a] < up[b]
          /\ \A c \in 1 .. m + 1 : es[c].key \notin ks => \E a \in 1 .. Len(h) : up[a] = c
      BY <2>2, <2>7, <2>8, <2>9
    <3> QED
      BY <3>1, <3>2 DEF Picks
  <2>11. Fits(es, ks, m + 1, h)
    <3>1. ASSUME NEW k \in 0 .. m + 1, \A j \in 1 .. k : es[j].key \in ks
          PROVE  Len(h) <= (m + 1) - k
      <4>1. k \in 0 .. m
        BY <1>3, <3>1
      <4>2. Len(f) <= m - k
        BY <3>1, <4>1 DEF Fits
      <4> QED
        BY <1>0, <2>2, <4>1, <4>2 DEF n
    <3> QED
      BY <3>1 DEF Fits
  <2> QED
    BY <2>2, <2>10, <2>11 DEF h
<1> QED
  BY <1>2, <1>3

\* Without keeps, in their order, exactly the entries whose keys are to stay.
LEMMA WithoutPicks ==
  ASSUME NEW S, NEW es \in Seq(S), NEW ks
  PROVE  /\ Without(es, ks) \in Seq(S)
         /\ Picks(es, ks, Len(es), Without(es, ks))
         /\ Fits(es, ks, Len(es), Without(es, ks))
<1> DEFINE n == Len(es)
           g == CHOOSE x : KeptUpTo(es, ks, n, x)
<1>1. n \in Nat
  OBVIOUS
<1>2. KeptUpTo(es, ks, n, g)
  BY <1>1, KeptExists
<1>3. Without(es, ks) = g[n]
  BY WithoutDef
<1> HIDE DEF g
<1> DEFINE Good(m) == g[m] \in Seq(S) /\ Picks(es, ks, m, g[m]) /\ Fits(es, ks, m, g[m])
           P == {m \in Nat : m <= n => Good(m)}
<1>4. g[0] = <<>> /\ \A i \in 0 .. n : i # 0 => g[i] = NextKept(es, ks, g[i - 1], i)
  <2>1. 0 \in 0 .. n
    BY <1>1
  <2> QED
    BY <1>2, <2>1 DEF KeptUpTo
<1>5. 0 \in P
  <2>1. g[0] \in Seq(S) /\ Len(g[0]) = 0
    BY <1>4
  <2>2. Picks(es, ks, 0, g[0])
    <3> DEFINE none == [a \in 1 .. 0 |-> 0]
    <3>1. none \in [1 .. Len(g[0]) -> 1 .. 0]
      BY <2>1
    <3> QED
      BY <2>1, <3>1 DEF Picks
  <2>3. Fits(es, ks, 0, g[0])
    BY <2>1 DEF Fits
  <2> QED
    BY <2>1, <2>2, <2>3
<1>6. ASSUME NEW m \in Nat, m \in P PROVE m + 1 \in P
  <2> SUFFICES ASSUME m + 1 <= n PROVE Good(m + 1)
    OBVIOUS
  <2>1. Good(m)
    BY <1>1, <1>6
  <2>2. g[m + 1] = NextKept(es, ks, g[m], m + 1)
    <3>1. m + 1 \in 0 .. n /\ m + 1 # 0 /\ (m + 1) - 1 = m
      BY <1>1
    <3> QED
      BY <1>4, <3>1
  <2> QED
    BY <2>1, <2>2, PicksNext
<1> HIDE DEF P
<1>7. n \in P
  BY <1>1, <1>5, <1>6, Induct
<1>8. Good(n)
  BY <1>1, <1>7 DEF P
<1> QED
  BY <1>3, <1>8

-----------------------------------------------------------------------------
(* One store.                                                              *)

\* The pairs an index should hold for these keys.
PairsOf(ks) == {[key |-> k, group |-> GroupOf(k)] : k \in {x \in ks : GroupOf(x) # NoGroup}}

\* The entries are in the order of their writes, and so of their deadlines.
EntriesOK(p, es, t) ==
  /\ \E S : es \in Seq(S)
  /\ \A i \in DOMAIN es :
       /\ es[i] = [key |-> es[i].key, value |-> es[i].value, due |-> es[i].due]
       /\ IF p.ttl = 0 THEN es[i].due = Never ELSE es[i].due \in 1 .. t + p.ttl
  /\ \A i, j \in DOMAIN es : es[i].key = es[j].key => i = j
  /\ \A i, j \in DOMAIN es : i < j => es[i].due <= es[j].due

KeysOf(es) == {es[i].key : i \in DOMAIN es}

StoreInv(p, s, t) ==
  /\ s = [entries |-> s.entries, index |-> s.index]
  /\ EntriesOK(p, s.entries, t)
  /\ p.enabled \/ s = EmptyStore
  /\ Unbounded(p) \/ Len(s.entries) <= p.max
  /\ s.index = PairsOf(KeysOf(s.entries))

PolicyOK(p) == p.max \in Int /\ p.ttl \in Nat /\ p.enabled = (p.max # 0)

LEMMA WithoutSound ==
  ASSUME NEW p, PolicyOK(p), NEW t \in Nat, NEW es, EntriesOK(p, es, t), NEW ks
  PROVE  LET w == Without(es, ks)
         IN /\ EntriesOK(p, w, t)
            /\ KeysOf(w) = KeysOf(es) \ ks
            /\ Len(w) \in Nat /\ Len(w) <= Len(es)
            /\ \A a \in DOMAIN w : \E c \in DOMAIN es : w[a] = es[c]
            /\ \A k \in 0 .. Len(es) :
                 (\A j \in 1 .. k : es[j].key \in ks) => Len(w) <= Len(es) - k
<1> DEFINE w == Without(es, ks)
<1>1. PICK S : es \in Seq(S)
  BY DEF EntriesOK
<1>2. DOMAIN es = 1 .. Len(es) /\ Len(es) \in Nat
  BY <1>1
<1>3. /\ w \in Seq(S) /\ Picks(es, ks, Len(es), w) /\ Fits(es, ks, Len(es), w)
  BY <1>1, WithoutPicks
<1> HIDE DEF w
<1>4. DOMAIN w = 1 .. Len(w) /\ Len(w) \in Nat
  BY <1>3
<1>5. PICK at \in [1 .. Len(w) -> 1 .. Len(es)] :
        /\ \A a \in 1 .. Len(w) : w[a] = es[at[a]] /\ es[at[a]].key \notin ks
        /\ \A a, b \in 1 .. Len(w) : a < b => at[a] < at[b]
        /\ \A c \in 1 .. Len(es) : es[c].key \notin ks => \E a \in 1 .. Len(w) : at[a] = c
  BY <1>3 DEF Picks
<1>6. \A a \in 1 .. Len(w) : at[a] \in 1 .. Len(es)
  BY <1>5
<1>7. EntriesOK(p, w, t)
  <2>1. \A i \in DOMAIN w :
          /\ w[i] = [key |-> w[i].key, value |-> w[i].value, due |-> w[i].due]
          /\ IF p.ttl = 0 THEN w[i].due = Never ELSE w[i].due \in 1 .. t + p.ttl
    BY <1>2, <1>4, <1>5, <1>6 DEF EntriesOK
  <2>2. ASSUME NEW i \in DOMAIN w, NEW j \in DOMAIN w, w[i].key = w[j].key PROVE i = j
    <3>1. at[i] = at[j]
      BY <1>2, <1>4, <1>5, <1>6, <2>2 DEF EntriesOK
    <3>2. i \in Nat /\ j \in Nat /\ at[i] \in Nat
      BY <1>4, <1>6
    <3> QED
      BY <1>4, <1>5, <3>1, <3>2
  <2>3. \A i, j \in DOMAIN w : i < j => w[i].due <= w[j].due
    BY <1>2, <1>4, <1>5, <1>6 DEF EntriesOK
  <2> QED
    BY <1>3, <2>1, <2>2, <2>3 DEF EntriesOK
<1>8. KeysOf(w) = KeysOf(es) \ ks
  <2>1. ASSUME NEW k \in KeysOf(w) PROVE k \in KeysOf(es) \ ks
    <3>1. PICK a \in 1 .. Len(w) : k = w[a].key
      BY <1>4, <2>1 DEF KeysOf
    <3> QED
      BY <1>2, <1>5, <1>6, <3>1 DEF KeysOf
  <2>2. ASSUME NEW k \in KeysOf(es) \ ks PROVE k \in KeysOf(w)
    <3>1. PICK c \in 1 .. Len(es) : k = es[c].key
      BY <1>2, <2>2 DEF KeysOf
    <3>2. PICK a \in 1 .. Len(w) : at[a] = c
      BY <1>5, <2>2, <3>1
    <3>3. w[a] = es[c]
      BY <1>5, <3>2
    <3> QED
      BY <1>4, <3>1, <3>3 DEF KeysOf
  <2> QED
    BY <2>1, <2>2
<1>9. \A k \in 0 .. Len(es) : (\A j \in 1 .. k : es[j].key \in ks) => Len(w) <= Len(es) - k
  BY <1>3 DEF Fits
<1>10. Len(w) <= Len(es)
  <2>1. Len(w) <= Len(es) - 0
    BY <1>2, <1>9
  <2> QED
    BY <1>2, <1>4, <2>1
<1>11. \A a \in DOMAIN w : \E c \in DOMAIN es : w[a] = es[c]
  BY <1>2, <1>4, <1>5, <1>6
<1> QED
  BY <1>4, <1>7, <1>8, <1>9, <1>10, <1>11 DEF w

LEMMA EmptySound ==
  ASSUME NEW p, PolicyOK(p), NEW t \in Nat PROVE StoreInv(p, EmptyStore, t)
<1>1. <<>> \in Seq({}) /\ DOMAIN <<>> = {} /\ Len(<<>>) = 0
  OBVIOUS
<1>2. EntriesOK(p, <<>>, t)
  BY <1>1 DEF EntriesOK
<1>3. PairsOf(KeysOf(<<>>)) = {}
  BY <1>1 DEF PairsOf, KeysOf
<1> QED
  BY <1>1, <1>2, <1>3 DEF StoreInv, EmptyStore, Unbounded, PolicyOK

LEMMA EvictSound ==
  ASSUME NEW p, PolicyOK(p), NEW t \in Nat, NEW s, StoreInv(p, s, t), NEW ks
  PROVE  StoreInv(p, Evict(s, ks), t)
<1> DEFINE w == Without(s.entries, ks)
           r == Evict(s, ks)
<1>1. r = [entries |-> w, index |-> IndexRemove(s.index, ks)]
  BY DEF Evict
<1>2. r.entries = w /\ r.index = IndexRemove(s.index, ks)
  BY <1>1
<1>3. /\ EntriesOK(p, w, t) /\ KeysOf(w) = KeysOf(s.entries) \ ks
      /\ Len(w) \in Nat /\ Len(w) <= Len(s.entries)
  BY WithoutSound DEF StoreInv
<1>4. Unbounded(p) \/ Len(w) <= p.max
  <2>1. Len(s.entries) \in Nat
    BY DEF StoreInv, EntriesOK
  <2> QED
    BY <1>3, <2>1 DEF StoreInv, PolicyOK, Unbounded
<1>5. IndexRemove(s.index, ks) = PairsOf(KeysOf(w))
  BY <1>3 DEF StoreInv, IndexRemove, PairsOf
<1>6. ASSUME ~p.enabled PROVE r = EmptyStore
  <2>1. s = EmptyStore
    BY <1>6 DEF StoreInv
  <2>2. s.entries = <<>> /\ s.index = {}
    BY <2>1 DEF EmptyStore
  <2>3. Len(w) = 0
    BY <1>3, <2>2
  <2>4. w = <<>>
    <3>1. \E S : w \in Seq(S)
      BY <1>3 DEF EntriesOK
    <3> QED
      BY <2>3, <3>1
  <2>5. IndexRemove(s.index, ks) = {}
    BY <2>2 DEF IndexRemove
  <2> QED
    BY <1>1, <2>4, <2>5 DEF EmptyStore
<1> HIDE DEF w, r
<1> QED
  BY <1>1, <1>2, <1>3, <1>4, <1>5, <1>6 DEF StoreInv, r

\* Time passes.
LEMMA LaterSound ==
  ASSUME NEW p, PolicyOK(p), NEW t \in Nat, NEW u \in Nat, t <= u, NEW s, StoreInv(p, s, t)
  PROVE  StoreInv(p, s, u)
<1>1. p.ttl \in Nat
  BY DEF PolicyOK
<1>2. EntriesOK(p, s.entries, t)
  BY DEF StoreInv
<1>3. \A n \in 1 .. t + p.ttl : n \in 1 .. u + p.ttl
  BY <1>1
<1>4. EntriesOK(p, s.entries, u)
  BY <1>2, <1>3 DEF EntriesOK
<1> QED
  BY <1>4 DEF StoreInv

\* The entries after a write.
Rewritten(p, es, k, v, t) ==
  Append(Without(es, {k}), [key |-> k, value |-> v, due |-> Deadline(p, t)])

LEMMA RewrittenSound ==
  ASSUME NEW p, PolicyOK(p), NEW t \in Nat \ {0}, NEW es, EntriesOK(p, es, t), NEW k, NEW v
  PROVE  LET r == Rewritten(p, es, k, v, t)
         IN /\ EntriesOK(p, r, t) /\ KeysOf(r) = KeysOf(es) \cup {k}
            /\ Len(r) \in Nat /\ 0 < Len(r) /\ Len(r) <= Len(es) + 1
            /\ r[Len(r)].key = k
<1> DEFINE e == [key |-> k, value |-> v, due |-> Deadline(p, t)]
           w == Without(es, {k})
           r == Rewritten(p, es, k, v, t)
           n == Len(w) + 1
<1>1. r = Append(w, e)
  BY DEF Rewritten
<1>2. t \in Nat
  OBVIOUS
<1>3. /\ EntriesOK(p, w, t) /\ KeysOf(w) = KeysOf(es) \ {k}
      /\ Len(w) \in Nat /\ Len(w) <= Len(es)
  BY <1>2, WithoutSound
<1>4. PICK S : w \in Seq(S)
  BY <1>3 DEF EntriesOK
<1> HIDE DEF w
<1>5. e.key = k /\ e.value = v /\ e.due = Deadline(p, t) /\ e = [key |-> e.key, value |-> e.value, due |-> e.due]
  OBVIOUS
<1> HIDE DEF e, r
<1>6. /\ r \in Seq(S \cup {e}) /\ Len(r) = n /\ r[n] = e
      /\ \A a \in 1 .. Len(w) : r[a] = w[a]
  <2>1. w \in Seq(S \cup {e}) /\ e \in S \cup {e}
    BY <1>4
  <2> QED
    BY ONLY <1>1, <2>1, Appended
<1>7. DOMAIN r = 1 .. n /\ DOMAIN w = 1 .. Len(w) /\ n \in 1 .. n /\ n \in Nat \ {0}
  BY <1>3, <1>4, <1>6
<1>8. \A a \in 1 .. n : a = n \/ (a \in 1 .. Len(w) /\ a < n)
  BY <1>3
<1>9. IF p.ttl = 0 THEN e.due = Never ELSE e.due \in 1 .. t + p.ttl
  BY <1>5 DEF Deadline, PolicyOK
<1>10. \A a \in 1 .. Len(w) : w[a].due <= e.due
  <2>1. \A a \in 1 .. Len(w) : IF p.ttl = 0 THEN w[a].due = Never ELSE w[a].due \in 1 .. t + p.ttl
    BY <1>3, <1>7 DEF EntriesOK
  <2>2. CASE p.ttl = 0
    BY <1>9, <2>1, <2>2 DEF Never
  <2>3. CASE p.ttl # 0
    <3>1. e.due = t + p.ttl /\ p.ttl \in Nat
      BY <1>5, <2>3 DEF Deadline, PolicyOK
    <3> QED
      BY <2>1, <2>3, <3>1
  <2> QED
    BY <2>2, <2>3
<1>11. \A a \in 1 .. Len(w) : w[a].key \in KeysOf(w) /\ w[a].key # k
  BY <1>3, <1>7 DEF KeysOf
<1> HIDE DEF n
<1>12. EntriesOK(p, r, t)
  <2>1. \A i \in DOMAIN r :
          /\ r[i] = [key |-> r[i].key, value |-> r[i].value, due |-> r[i].due]
          /\ IF p.ttl = 0 THEN r[i].due = Never ELSE r[i].due \in 1 .. t + p.ttl
    BY <1>3, <1>5, <1>6, <1>7, <1>8, <1>9 DEF EntriesOK
  <2>2. ASSUME NEW i \in DOMAIN r, NEW j \in DOMAIN r, r[i].key = r[j].key PROVE i = j
    BY <1>3, <1>5, <1>6, <1>7, <1>8, <1>11, <2>2 DEF EntriesOK
  <2>3. ASSUME NEW i \in DOMAIN r, NEW j \in DOMAIN r, i < j PROVE r[i].due <= r[j].due
    <3>1. i \in 1 .. Len(w)
      <4>1. i \in 1 .. n /\ j \in 1 .. n /\ n \in Nat
        BY <1>7
      <4>2. i # n
        BY <2>3, <4>1
      <4> QED
        BY <1>8, <4>1, <4>2
    <3>2. CASE j = n
      BY <1>6, <1>10, <3>1, <3>2
    <3>3. CASE j \in 1 .. Len(w)
      BY <1>3, <1>6, <1>7, <2>3, <3>1, <3>3 DEF EntriesOK
    <3> QED
      BY <1>7, <1>8, <3>2, <3>3
  <2> QED
    BY <1>6, <2>1, <2>2, <2>3 DEF EntriesOK
<1>13. KeysOf(r) = KeysOf(es) \cup {k}
  <2>1. KeysOf(r) = KeysOf(w) \cup {k}
    <3>1. ASSUME NEW x \in KeysOf(r) PROVE x \in KeysOf(w) \cup {k}
      <4>1. PICK a \in 1 .. n : x = r[a].key
        BY <1>7, <3>1 DEF KeysOf
      <4> QED
        BY <1>5, <1>6, <1>7, <1>8, <4>1 DEF KeysOf
    <3>2. ASSUME NEW x \in KeysOf(w) PROVE x \in KeysOf(r)
      <4>1. PICK a \in 1 .. Len(w) : x = w[a].key
        BY <1>7, <3>2 DEF KeysOf
      <4>2. a \in 1 .. n
        BY <1>3, <4>1 DEF n
      <4> QED
        BY <1>6, <1>7, <4>1, <4>2 DEF KeysOf
    <3>3. k \in KeysOf(r)
      BY <1>5, <1>6, <1>7 DEF KeysOf
    <3> QED
      BY <3>1, <3>2, <3>3
  <2>2. k \in KeysOf(es) \/ KeysOf(es) \ {k} = KeysOf(es)
    OBVIOUS
  <2> QED
    BY <1>3, <2>1
<1>14. Len(r) \in Nat /\ 0 < Len(r) /\ r[Len(r)].key = k
  BY <1>5, <1>6, <1>7
<1>15. Len(r) <= Len(es) + 1
  <2>1. Len(es) \in Nat
    BY DEF EntriesOK
  <2> QED
    BY <1>3, <1>6, <2>1 DEF n
<1> QED
  BY <1>12, <1>13, <1>14, <1>15 DEF r

LEMMA Assembled ==
  ASSUME NEW p, p.enabled, NEW t, NEW es, EntriesOK(p, es, t),
         Unbounded(p) \/ Len(es) <= p.max, NEW index, index = PairsOf(KeysOf(es))
  PROVE  StoreInv(p, [entries |-> es, index |-> index], t)
<1> DEFINE q == [entries |-> es, index |-> index]
<1>1. q.entries = es /\ q.index = index /\ q = [entries |-> q.entries, index |-> q.index]
  OBVIOUS
<1> HIDE DEF q
<1>2. StoreInv(p, q, t)
  BY <1>1 DEF StoreInv
<1> QED
  BY <1>2 DEF q

LEMMA SetSound ==
  ASSUME NEW p, PolicyOK(p), NEW t \in Nat \ {0}, NEW s, StoreInv(p, s, t), NEW k, NEW v
  PROVE  StoreInv(p, Set(p, s, k, v, GroupOf(k), t), t)
<1>0. t \in Nat
  OBVIOUS
<1>1. CASE ~p.enabled
  BY <1>1 DEF Set
<1>2. CASE p.enabled /\ v \notin p.accepts
  <2>1. Set(p, s, k, v, GroupOf(k), t) = Evict(s, {k})
    BY <1>2 DEF Set
  <2> QED
    BY <2>1, EvictSound
<1>3. CASE p.enabled /\ v \in p.accepts
  <2> DEFINE r == Rewritten(p, s.entries, k, v, t)
             w == [entries |-> r, index |-> s.index]
             b == Bounded(p, w)
             g == GroupOf(k)
             n == Len(r)
  <2>1. Written(p, s, k, v, t) = w
    <3>1. s = [entries |-> s.entries, index |-> s.index]
      BY DEF StoreInv
    <3>2. Written(p, s, k, v, t) = [s EXCEPT !.entries = r]
      BY DEF Written, Rewritten
    <3> HIDE DEF r
    <3> QED
      BY <3>1, <3>2
  <2> HIDE DEF r, w
  <2>2. /\ EntriesOK(p, r, t) /\ KeysOf(r) = KeysOf(s.entries) \cup {k}
        /\ n \in Nat /\ 0 < n /\ r[n].key = k /\ n <= Len(s.entries) + 1
    <3>1. EntriesOK(p, s.entries, t)
      BY DEF StoreInv
    <3> QED
      BY <3>1, RewrittenSound DEF r
  <2> USE DEF w
  <2>3. Set(p, s, k, v, g, t) = IF g = NoGroup THEN b ELSE [b EXCEPT !.index = IndexAdd(@, g, k)]
    BY <1>3, <2>1 DEF Set
  <2>4. s.index = PairsOf(KeysOf(s.entries)) /\ p.enabled /\ p.max \in Int /\ p.max # 0
    BY <1>3 DEF StoreInv, PolicyOK
  <2>5. DOMAIN r = 1 .. n
    BY <2>2 DEF EntriesOK
  <2>6. \E es, ks :
          /\ b = [entries |-> es, index |-> IndexRemove(s.index, ks)]
          /\ EntriesOK(p, es, t) /\ KeysOf(es) = (KeysOf(s.entries) \ ks) \cup {k}
          /\ k \notin ks /\ (Unbounded(p) \/ Len(es) <= p.max)
    <3>1. w.entries = r /\ w.index = s.index
      OBVIOUS
    <3>2. CASE Unbounded(p) \/ n - p.max <= 0
      <4>1. b = w
        BY <3>1, <3>2 DEF Bounded
      <4>2. IndexRemove(s.index, {}) = s.index
        BY DEF IndexRemove
      <4>3. Unbounded(p) \/ n <= p.max
        BY <2>2, <2>4, <3>2
      <4>4. b = [entries |-> r, index |-> IndexRemove(s.index, {})]
        BY <4>1, <4>2
      <4>5. KeysOf(r) = (KeysOf(s.entries) \ {}) \cup {k}
        BY <2>2
      <4> QED
        BY <2>2, <4>3, <4>4, <4>5
    <3>3. CASE ~(Unbounded(p) \/ n - p.max <= 0)
      <4> DEFINE ks == {r[i].key : i \in 1 .. n - p.max}
                 es == Without(r, ks)
      <4>1. b = Evict(w, ks)
        BY <3>1, <3>3 DEF Bounded
      <4>2. b = [entries |-> es, index |-> IndexRemove(s.index, ks)]
        BY <3>1, <4>1 DEF Evict
      <4>3. /\ EntriesOK(p, es, t) /\ KeysOf(es) = KeysOf(r) \ ks
            /\ \A m \in 0 .. n : (\A j \in 1 .. m : r[j].key \in ks) => Len(es) <= n - m
            /\ Len(es) \in Nat
        <5> HIDE DEF ks
        <5> QED
          BY <1>0, <2>2, WithoutSound
      <4>4. p.max > 0 /\ n - p.max \in 1 .. n - 1
        BY <2>2, <2>4, <3>3 DEF Unbounded
      <4>5. Len(es) <= p.max
        <5>1. n - p.max \in 0 .. n /\ \A j \in 1 .. n - p.max : r[j].key \in ks
          BY <2>2, <4>4
        <5> HIDE DEF es, ks
        <5>2. Len(es) <= n - (n - p.max)
          BY <4>3, <5>1
        <5> QED
          BY <2>2, <2>4, <4>3, <5>2
      <4>6. k \notin ks
        <5> SUFFICES ASSUME NEW i \in 1 .. n - p.max, r[i].key = k PROVE FALSE
          OBVIOUS
        <5>1. i \in 1 .. n /\ n \in 1 .. n /\ i # n
          BY <2>2, <4>4
        <5> QED
          BY <2>2, <2>5, <5>1 DEF EntriesOK
      <4> HIDE DEF ks
      <4>7. KeysOf(es) = (KeysOf(s.entries) \ ks) \cup {k}
        BY <2>2, <4>3, <4>6
      <4> HIDE DEF es, b
      <4> QED
        BY <4>2, <4>3, <4>5, <4>6, <4>7
    <3> QED
      BY <3>2, <3>3
  <2> HIDE DEF b, w
  <2>7. PICK es, ks :
          /\ b = [entries |-> es, index |-> IndexRemove(s.index, ks)]
          /\ EntriesOK(p, es, t) /\ KeysOf(es) = (KeysOf(s.entries) \ ks) \cup {k}
          /\ k \notin ks /\ (Unbounded(p) \/ Len(es) <= p.max)
    BY <2>6
  <2> DEFINE index == IndexRemove(s.index, ks)
  <2>8. index = PairsOf(KeysOf(s.entries) \ ks)
    BY <2>4 DEF IndexRemove, PairsOf
  <2>9. CASE g = NoGroup
    <3>1. index = PairsOf(KeysOf(es))
      BY <2>7, <2>8, <2>9 DEF PairsOf
    <3>2. Set(p, s, k, v, g, t) = [entries |-> es, index |-> index]
      BY <2>3, <2>7, <2>9
    <3>3. StoreInv(p, [entries |-> es, index |-> index], t)
      BY <2>4, <2>7, <3>1, Assembled
    <3> QED
      BY <3>2, <3>3
  <2>10. CASE g # NoGroup
    <3> DEFINE more == IndexAdd(index, g, k)
    <3>1. more = PairsOf(KeysOf(es))
      <4>1. more = PairsOf((KeysOf(s.entries) \ ks) \ {k}) \cup {[key |-> k, group |-> g]}
        BY <2>8 DEF IndexAdd, IndexRemove, PairsOf
      <4> QED
        BY <2>7, <2>10, <4>1 DEF PairsOf
    <3> HIDE DEF more
    <3>2. Set(p, s, k, v, g, t) = [entries |-> es, index |-> more]
      BY <2>3, <2>7, <2>10 DEF more
    <3>3. StoreInv(p, [entries |-> es, index |-> more], t)
      BY <2>4, <2>7, <3>1, Assembled
    <3> QED
      BY <3>2, <3>3
  <2> QED
    BY <2>9, <2>10
<1> QED
  BY <1>1, <1>2, <1>3

\* An assignment to what is stored writes nothing.
LEMMA PatchedSound ==
  ASSUME NEW p, PolicyOK(p), NEW t \in Nat, NEW s, StoreInv(p, s, t), NEW ks, NEW v
  PROVE  StoreInv(p, Patched(s, ks, v), t)
<1> DEFINE es == s.entries
           r == [i \in DOMAIN es |->
                  IF es[i].key \in ks THEN [es[i] EXCEPT !.value = v] ELSE es[i]]
           q == [s EXCEPT !.entries = r]
<1>1. s = [entries |-> es, index |-> s.index] /\ EntriesOK(p, es, t)
  BY DEF StoreInv
<1>2. q = [entries |-> r, index |-> s.index]
  <2> HIDE DEF r
  <2> QED
    BY <1>1
<1>3. \A i \in DOMAIN es : es[i] = [key |-> es[i].key, value |-> es[i].value, due |-> es[i].due]
  BY <1>1 DEF EntriesOK
<1> HIDE DEF es
<1>4. DOMAIN r = DOMAIN es
  OBVIOUS
<1>5. ASSUME NEW i \in DOMAIN es
      PROVE  /\ r[i].key = es[i].key /\ r[i].due = es[i].due
             /\ r[i] = [key |-> r[i].key, value |-> r[i].value, due |-> r[i].due]
  <2>1. CASE es[i].key \in ks
    <3>1. r[i] = [es[i] EXCEPT !.value = v]
      BY <2>1
    <3> HIDE DEF r
    <3>2. r[i] = [key |-> es[i].key, value |-> v, due |-> es[i].due]
      BY <1>3, <3>1
    <3> QED
      BY <3>2
  <2>2. CASE es[i].key \notin ks
    <3>1. r[i] = es[i]
      BY <2>2
    <3> HIDE DEF r
    <3> QED
      BY <1>3, <3>1
  <2> QED
    BY <2>1, <2>2
<1>6. \E S : r \in Seq(S)
  <2>1. DOMAIN es = 1 .. Len(es) /\ Len(es) \in Nat
    BY <1>1 DEF EntriesOK
  <2>2. r \in [1 .. Len(es) -> {r[i] : i \in 1 .. Len(es)}]
    BY <2>1
  <2>3. r \in Seq({r[i] : i \in 1 .. Len(es)})
    <3> HIDE DEF r
    <3> QED
      BY <2>1, <2>2
  <2> QED
    BY <2>3
<1> HIDE DEF r
<1>7. EntriesOK(p, r, t)
  BY <1>1, <1>4, <1>5, <1>6 DEF EntriesOK
<1>8. KeysOf(r) = KeysOf(es)
  BY <1>4, <1>5 DEF KeysOf
<1>9. Len(r) = Len(es)
  <2>1. DOMAIN es = 1 .. Len(es) /\ Len(es) \in Nat
    BY <1>1 DEF EntriesOK
  <2>2. DOMAIN r = 1 .. Len(r) /\ Len(r) \in Nat
    BY <1>6
  <2> QED
    BY <1>4, <2>1, <2>2
<1>10. ASSUME ~p.enabled PROVE q = EmptyStore
  <2>1. es = <<>> /\ s.index = {}
    BY <1>10 DEF StoreInv, EmptyStore, es
  <2>2. Len(r) = 0
    BY <1>9, <2>1
  <2>3. r = <<>>
    BY <1>6, <2>2
  <2> QED
    BY <1>2, <2>1, <2>3 DEF EmptyStore
<1>11. q.entries = r /\ q.index = s.index
  BY <1>2
<1>12. StoreInv(p, q, t)
  <2>1. Unbounded(p) \/ Len(es) <= p.max
    BY DEF StoreInv, es
  <2>2. s.index = PairsOf(KeysOf(es))
    BY DEF StoreInv, es
  <2> HIDE DEF q
  <2> QED
    BY <1>2, <1>7, <1>8, <1>9, <1>10, <1>11, <2>1, <2>2 DEF StoreInv
<1> QED
  BY <1>12 DEF Patched, q, r, es

-----------------------------------------------------------------------------
(* The stores together.                                                    *)

CacheInv(c, t) ==
  /\ c = [policy |-> c.policy, stores |-> c.stores, self |-> c.self]
  /\ c.policy \in DOMAIN Policies
  /\ c.stores = [scope \in Scopes |-> c.stores[scope]]
  /\ \A scope \in Scopes : StoreInv(Policies[c.policy][scope], c.stores[scope], t)

LEMMA PolicyType ==
  ASSUME NEW c, NEW t, CacheInv(c, t), NEW scope \in Scopes
  PROVE  PolicyOK(Policies[c.policy][scope])
  BY PoliciesAssumption DEF CacheInv, PolicyOK

LEMMA OnStoreSound ==
  ASSUME NEW c, NEW t, CacheInv(c, t), NEW scope, NEW s,
         scope \in Scopes => StoreInv(Policies[c.policy][scope], s, t)
  PROVE  CacheInv(OnStore(c, scope, s), t)
<1> DEFINE stores == [c.stores EXCEPT ![scope] = s]
           r == OnStore(c, scope, s)
<1>1. /\ c = [policy |-> c.policy, stores |-> c.stores, self |-> c.self]
      /\ c.stores = [x \in Scopes |-> c.stores[x]]
  BY DEF CacheInv
<1>2. r = [c EXCEPT !.stores = stores]
  BY <1>1 DEF OnStore
<1>3. DOMAIN stores = Scopes /\ stores = [x \in Scopes |-> stores[x]]
  BY <1>1
<1>4. \A x \in Scopes : stores[x] = IF x = scope THEN s ELSE c.stores[x]
  BY <1>1
<1> HIDE DEF stores
<1>5. r = [policy |-> c.policy, stores |-> stores, self |-> c.self]
  BY <1>1, <1>2
<1>6. \A x \in Scopes : StoreInv(Policies[c.policy][x], stores[x], t)
  BY <1>4 DEF CacheInv
<1>7. r.policy = c.policy /\ r.stores = stores /\ r.self = c.self
  BY <1>5
<1> HIDE DEF r
<1>8. r = [policy |-> r.policy, stores |-> r.stores, self |-> r.self]
  BY <1>5, <1>7
<1>9. r.policy \in DOMAIN Policies
  BY <1>7 DEF CacheInv
<1>10. CacheInv(r, t)
  BY <1>3, <1>6, <1>7, <1>8, <1>9 DEF CacheInv
<1> QED
  BY <1>10 DEF r

LEMMA PutSound ==
  ASSUME NEW c, NEW t \in Nat \ {0}, CacheInv(c, t), NEW k, NEW v
  PROVE  CacheInv(Put(c, k, v, t), t)
<1> DEFINE p == Policies[c.policy][Scope[k]]
           s == Set(p, c.stores[Scope[k]], k, v, GroupOf(k), t)
<1>1. Scope[k] \in Scopes => StoreInv(p, s, t)
  <2> SUFFICES ASSUME Scope[k] \in Scopes PROVE StoreInv(p, s, t)
    OBVIOUS
  <2>1. PolicyOK(p)
    BY PolicyType
  <2>2. StoreInv(p, c.stores[Scope[k]], t)
    BY DEF CacheInv
  <2> QED
    BY <2>1, <2>2, SetSound
<1> HIDE DEF s
<1>2. CacheInv(OnStore(c, Scope[k], s), t)
  BY <1>1, OnStoreSound
<1> QED
  BY <1>2 DEF Put, s

LEMMA DeleteSound ==
  ASSUME NEW c, NEW t \in Nat, CacheInv(c, t), NEW scope, NEW ks
  PROVE  CacheInv(Delete(c, scope, ks), t)
<1> DEFINE s == Evict(c.stores[scope], ks)
<1>1. scope \in Scopes => StoreInv(Policies[c.policy][scope], s, t)
  <2> SUFFICES ASSUME scope \in Scopes PROVE StoreInv(Policies[c.policy][scope], s, t)
    OBVIOUS
  <2>1. PolicyOK(Policies[c.policy][scope])
    BY PolicyType
  <2>2. StoreInv(Policies[c.policy][scope], c.stores[scope], t)
    BY DEF CacheInv
  <2> QED
    BY <2>1, <2>2, EvictSound
<1> HIDE DEF s
<1>2. CacheInv(OnStore(c, scope, s), t)
  BY <1>1, OnStoreSound
<1> QED
  BY <1>2 DEF Delete, s

LEMMA AssignSound ==
  ASSUME NEW c, NEW t \in Nat, CacheInv(c, t), NEW scope \in Scopes, NEW ks, NEW v
  PROVE  CacheInv(Assign(c, scope, ks, v), t)
<1> DEFINE s == Patched(c.stores[scope], ks, v)
<1>1. StoreInv(Policies[c.policy][scope], s, t)
  <2>1. PolicyOK(Policies[c.policy][scope])
    BY PolicyType
  <2>2. StoreInv(Policies[c.policy][scope], c.stores[scope], t)
    BY DEF CacheInv
  <2> QED
    BY <2>1, <2>2, PatchedSound
<1>2. Assign(c, scope, ks, v) = OnStore(c, scope, s)
  BY DEF Assign
<1> HIDE DEF s
<1> QED
  BY <1>1, <1>2, OnStoreSound

\* A search of a group, or for a key, evicts what it finds expired.
LEMMA LookSound ==
  ASSUME NEW c, NEW t \in Nat, CacheInv(c, t), NEW scope, NEW x
  PROVE  /\ CacheInv(OnStore(c, scope, Looked(c.stores[scope], x, t)), t)
         /\ CacheInv(OnStore(c, scope, Got(c.stores[scope], x, t)), t)
<1>1. \A ks : CacheInv(OnStore(c, scope, Evict(c.stores[scope], ks)), t)
  BY DeleteSound DEF Delete
<1> QED
  BY <1>1 DEF Looked, Got

-----------------------------------------------------------------------------
(* Several entities put one after the other.                               *)

Chosen(s) == CHOOSE x \in s : TRUE

AfterPuts(c, w, t, g, s) == IF s = {} THEN c ELSE Put(g[s \ {Chosen(s)}], Chosen(s), w[Chosen(s)], t)

LEMMA PutAllDef ==
  ASSUME NEW c, NEW w, NEW ks, NEW t
  PROVE  PutAll(c, w, ks, t)
           = (CHOOSE g : g = [s \in SUBSET ks |-> AfterPuts(c, w, t, g, s)])[ks]
  BY DEF PutAll, FoldSet, MapThenFoldSet, AfterPuts, Chosen

\* The sets of at most n of them.
Few(ks, n) == {s \in SUBSET ks : Cardinality(s) <= n}

LEMMA FewOfThem ==
  ASSUME NEW ks, IsFiniteSet(ks)
  PROVE  /\ Cardinality(ks) \in Nat /\ Few(ks, Cardinality(ks)) = SUBSET ks
         /\ \A s \in Few(ks, 0) : s = {}
         /\ \A n \in Nat : \A s \in Few(ks, n + 1) :
              s # {} => Chosen(s) \in s /\ s \ {Chosen(s)} \in Few(ks, n)
         /\ \A n \in Nat : Few(ks, n) \subseteq Few(ks, n + 1)
<1>1. \A s \in SUBSET ks : IsFiniteSet(s) /\ Cardinality(s) \in Nat /\ Cardinality(s) <= Cardinality(ks)
  BY FS_Subset, FS_CardinalityType
<1>2. Cardinality(ks) \in Nat /\ Few(ks, Cardinality(ks)) = SUBSET ks
  BY <1>1, FS_CardinalityType DEF Few
<1>3. ASSUME NEW s \in Few(ks, 0) PROVE s = {}
  <2>1. s \in SUBSET ks /\ Cardinality(s) <= 0
    BY <1>3 DEF Few
  <2>2. IsFiniteSet(s) /\ Cardinality(s) = 0
    BY <1>1, <2>1
  <2> QED
    BY <2>2, FS_EmptySet
<1>4. ASSUME NEW n \in Nat, NEW s \in Few(ks, n + 1), s # {}
      PROVE  Chosen(s) \in s /\ s \ {Chosen(s)} \in Few(ks, n)
  <2>1. s \in SUBSET ks /\ Cardinality(s) <= n + 1
    BY <1>4 DEF Few
  <2>2. Chosen(s) \in s
    BY <1>4 DEF Chosen
  <2>3. Cardinality(s \ {Chosen(s)}) = Cardinality(s) - 1
    BY <1>1, <2>1, <2>2, FS_RemoveElement
  <2>4. Cardinality(s \ {Chosen(s)}) <= n
    BY <1>1, <2>1, <2>3
  <2>5. s \ {Chosen(s)} \in SUBSET ks
    BY <2>1
  <2> QED
    BY <2>2, <2>4, <2>5 DEF Few
<1>5. ASSUME NEW n \in Nat PROVE Few(ks, n) \subseteq Few(ks, n + 1)
  <2>1. \A s \in SUBSET ks : Cardinality(s) <= n => Cardinality(s) <= n + 1
    BY <1>1
  <2> QED
    BY <2>1 DEF Few
<1> QED
  BY <1>2, <1>3, <1>4, <1>5

LEMMA PutsExist ==
  ASSUME NEW c, NEW w, NEW ks, IsFiniteSet(ks), NEW t
  PROVE  \E g : g = [s \in SUBSET ks |-> AfterPuts(c, w, t, g, s)]
<1> DEFINE P == {n \in Nat : \E g : g = [s \in Few(ks, n) |-> AfterPuts(c, w, t, g, s)]}
<1>1. 0 \in P
  <2> DEFINE g == [s \in Few(ks, 0) |-> c]
  <2>1. \A s \in Few(ks, 0) : AfterPuts(c, w, t, g, s) = c
    BY FewOfThem DEF AfterPuts
  <2>2. g = [s \in Few(ks, 0) |-> AfterPuts(c, w, t, g, s)]
    <3> DEFINE V(s) == AfterPuts(c, w, t, g, s)
    <3>1. \A s \in Few(ks, 0) : V(s) = c
      BY <2>1
    <3> HIDE DEF V
    <3>2. g = [s \in Few(ks, 0) |-> V(s)]
      BY <3>1
    <3> QED
      BY <3>2 DEF V
  <2> HIDE DEF g
  <2> QED
    BY <2>2
<1>2. ASSUME NEW n \in Nat, n \in P PROVE n + 1 \in P
  <2>1. PICK g : g = [s \in Few(ks, n) |-> AfterPuts(c, w, t, g, s)]
    BY <1>2
  <2> DEFINE V(s) == AfterPuts(c, w, t, g, s)
             h == [s \in Few(ks, n + 1) |-> V(s)]
             U(s) == AfterPuts(c, w, t, h, s)
  <2>2. ASSUME NEW s \in Few(ks, n) PROVE h[s] = g[s]
    <3>1. g[s] = V(s)
      BY <2>1
    <3>2. s \in Few(ks, n + 1)
      BY FewOfThem
    <3> QED
      BY <3>1, <3>2
  <2>3. ASSUME NEW s \in Few(ks, n + 1) PROVE V(s) = U(s)
    <3>1. CASE s = {}
      BY <3>1 DEF AfterPuts
    <3>2. CASE s # {}
      <4>1. s \ {Chosen(s)} \in Few(ks, n)
        BY <3>2, FewOfThem
      <4>2. h[s \ {Chosen(s)}] = g[s \ {Chosen(s)}]
        BY <2>2, <4>1
      <4> HIDE DEF h
      <4> QED
        BY <4>2 DEF AfterPuts
    <3> QED
      BY <3>1, <3>2
  <2>4. h = [s \in Few(ks, n + 1) |-> U(s)]
    <3> HIDE DEF U, V
    <3> QED
      BY <2>3
  <2> HIDE DEF h
  <2> QED
    BY <2>4
<1> HIDE DEF P
<1>3. Cardinality(ks) \in P
  BY <1>1, <1>2, FewOfThem, Induct
<1> QED
  BY <1>3, FewOfThem DEF P

LEMMA PutAllSound ==
  ASSUME NEW c, NEW t \in Nat \ {0}, CacheInv(c, t), NEW w, NEW ks, IsFiniteSet(ks)
  PROVE  CacheInv(PutAll(c, w, ks, t), t)
<1> DEFINE g == CHOOSE x : x = [s \in SUBSET ks |-> AfterPuts(c, w, t, x, s)]
           P == {n \in Nat : \A s \in Few(ks, n) : CacheInv(g[s], t)}
<1>1. g = [s \in SUBSET ks |-> AfterPuts(c, w, t, g, s)]
  BY PutsExist
<1>2. PutAll(c, w, ks, t) = g[ks]
  BY PutAllDef
<1> HIDE DEF g
<1>3. \A s \in SUBSET ks : g[s] = AfterPuts(c, w, t, g, s)
  BY <1>1
<1>4. \A n : \A s \in Few(ks, n) : s \in SUBSET ks
  BY DEF Few
<1>5. 0 \in P
  BY <1>3, <1>4, FewOfThem DEF AfterPuts
<1>6. ASSUME NEW n \in Nat, n \in P PROVE n + 1 \in P
  <2>1. ASSUME NEW s \in Few(ks, n + 1) PROVE CacheInv(g[s], t)
    <3>1. g[s] = AfterPuts(c, w, t, g, s)
      BY <1>3, <1>4
    <3>2. CASE s = {}
      BY <3>1, <3>2 DEF AfterPuts
    <3>3. CASE s # {}
      <4>1. CacheInv(g[s \ {Chosen(s)}], t)
        BY <1>6, <3>3, FewOfThem
      <4>2. g[s] = Put(g[s \ {Chosen(s)}], Chosen(s), w[Chosen(s)], t)
        BY <3>1, <3>3 DEF AfterPuts
      <4> QED
        BY <4>1, <4>2, PutSound
    <3> QED
      BY <3>2, <3>3
  <2> QED
    BY <2>1
<1> HIDE DEF P
<1>7. Cardinality(ks) \in P
  BY <1>5, <1>6, FewOfThem, Induct
<1>8. ks \in Few(ks, Cardinality(ks))
  BY FewOfThem
<1> QED
  BY <1>2, <1>7, <1>8 DEF P

-----------------------------------------------------------------------------
(* The handlers.                                                           *)

\* What works on every store at once.
LEMMA StoresSound ==
  ASSUME NEW c, NEW t, CacheInv(c, t), NEW f,
         \A scope \in Scopes : StoreInv(Policies[c.policy][scope], f[scope], t)
  PROVE  CacheInv([c EXCEPT !.stores = [scope \in Scopes |-> f[scope]]], t)
<1> DEFINE stores == [scope \in Scopes |-> f[scope]]
           r == [c EXCEPT !.stores = stores]
<1>1. stores = [scope \in Scopes |-> stores[scope]] /\ \A scope \in Scopes : stores[scope] = f[scope]
  OBVIOUS
<1> HIDE DEF stores
<1>2. r = [policy |-> c.policy, stores |-> stores, self |-> c.self]
  BY DEF CacheInv
<1>3. r.policy = c.policy /\ r.stores = stores /\ r.self = c.self
  BY <1>2
<1> HIDE DEF r
<1>4. r = [policy |-> r.policy, stores |-> r.stores, self |-> r.self]
  BY <1>2, <1>3
<1>5. r.policy \in DOMAIN Policies
  BY <1>3 DEF CacheInv
<1>6. \A scope \in Scopes : StoreInv(Policies[r.policy][scope], r.stores[scope], t)
  BY <1>1, <1>3
<1>7. CacheInv(r, t)
  BY <1>1, <1>3, <1>4, <1>5, <1>6 DEF CacheInv
<1> QED
  BY <1>7 DEF r, stores

LEMMA EvictGuildSound ==
  ASSUME NEW c, NEW t \in Nat, CacheInv(c, t), NEW g
  PROVE  CacheInv(EvictGuild(c, g, t), t)
<1> DEFINE What(scope, s) ==
             CASE scope = "guilds" -> Evict(s, {g})
               [] scope \in {"threads", "messages"} -> Evict(s, {k \in Live(s, t) : Guild[k] = g})
               [] OTHER -> Evict(s, Indexed(s, g))
           f == [scope \in Scopes |-> What(scope, c.stores[scope])]
<1>1. ASSUME NEW scope \in Scopes PROVE StoreInv(Policies[c.policy][scope], f[scope], t)
  <2>1. PolicyOK(Policies[c.policy][scope]) /\ StoreInv(Policies[c.policy][scope], c.stores[scope], t)
    BY PolicyType DEF CacheInv
  <2>2. \A ks : StoreInv(Policies[c.policy][scope], Evict(c.stores[scope], ks), t)
    BY <2>1, EvictSound
  <2>3. What(scope, c.stores[scope]) \in {Evict(c.stores[scope], {g}),
          Evict(c.stores[scope], {k \in Live(c.stores[scope], t) : Guild[k] = g}),
          Evict(c.stores[scope], Indexed(c.stores[scope], g))}
    OBVIOUS
  <2>4. f[scope] = What(scope, c.stores[scope])
    OBVIOUS
  <2> HIDE DEF f, What
  <2> QED
    BY <2>2, <2>3, <2>4
<1>2. EvictGuild(c, g, t) = [c EXCEPT !.stores = f]
  BY DEF EvictGuild
<1>3. f = [scope \in Scopes |-> f[scope]]
  OBVIOUS
<1> HIDE DEF f
<1>4. CacheInv([c EXCEPT !.stores = [scope \in Scopes |-> f[scope]]], t)
  BY <1>1, StoresSound
<1> QED
  BY <1>2, <1>3, <1>4

LEMMA SweepSound ==
  ASSUME NEW c, NEW t \in Nat, CacheInv(c, t)
  PROVE  CacheInv(Sweep(c, t), t)
<1> DEFINE What(scope) == IF Expiring(c, scope) THEN Swept(c.stores[scope], t) ELSE c.stores[scope]
           f == [scope \in Scopes |-> What(scope)]
<1>1. ASSUME NEW scope \in Scopes PROVE StoreInv(Policies[c.policy][scope], f[scope], t)
  <2>1. PolicyOK(Policies[c.policy][scope]) /\ StoreInv(Policies[c.policy][scope], c.stores[scope], t)
    BY PolicyType DEF CacheInv
  <2>2. StoreInv(Policies[c.policy][scope], Swept(c.stores[scope], t), t)
    BY <2>1, EvictSound DEF Swept
  <2>3. f[scope] = IF Expiring(c, scope) THEN Swept(c.stores[scope], t) ELSE c.stores[scope]
    OBVIOUS
  <2> HIDE DEF f
  <2> QED
    BY <2>1, <2>2, <2>3
<1>2. Sweep(c, t) = [c EXCEPT !.stores = f]
  BY DEF Sweep
<1>3. f = [scope \in Scopes |-> f[scope]]
  OBVIOUS
<1> HIDE DEF f
<1>4. CacheInv([c EXCEPT !.stores = [scope \in Scopes |-> f[scope]]], t)
  BY <1>1, StoresSound
<1> QED
  BY <1>2, <1>3, <1>4

LEMMA SelfSound ==
  ASSUME NEW c, NEW t, CacheInv(c, t), NEW v
  PROVE  CacheInv([c EXCEPT !.self = v], t)
<1> DEFINE r == [c EXCEPT !.self = v]
<1>1. r = [policy |-> c.policy, stores |-> c.stores, self |-> v]
  BY DEF CacheInv
<1>2. r.policy = c.policy /\ r.stores = c.stores /\ r.self = v
  BY <1>1
<1> HIDE DEF r
<1>3. r = [policy |-> r.policy, stores |-> r.stores, self |-> r.self]
  BY <1>1, <1>2
<1>4. CacheInv(r, t)
  BY <1>2, <1>3 DEF CacheInv
<1> QED
  BY <1>4 DEF r

LEMMA FiniteParts ==
  ASSUME NEW ks, IsFiniteSet(ks), NEW scope PROVE IsFiniteSet(In(scope, ks))
  BY FS_Subset DEF In

LEMMA UpsertUsersSound ==
  ASSUME NEW c, NEW t \in Nat \ {0}, CacheInv(c, t), NEW w, IsFiniteSet(DOMAIN w)
  PROVE  CacheInv(UpsertUsers(c, w, t), t)
  BY FiniteParts, PutAllSound DEF UpsertUsers

LEMMA EvictMemberSound ==
  ASSUME NEW c, NEW t \in Nat, CacheInv(c, t), NEW m
  PROVE  CacheInv(EvictMember(c, m), t)
<1> DEFINE theirs(scope) == {k \in In(scope, Things) : Member[k] = m}
           c1 == Delete(c, "members", {m})
           c2 == Delete(c1, "presences", theirs("presences"))
           c3 == Delete(c2, "voiceStates", theirs("voiceStates"))
<1>1. EvictMember(c, m) = c3
  BY DEF EvictMember
<1> HIDE DEF theirs
<1>2. CacheInv(c1, t)
  BY DeleteSound
<1> HIDE DEF c1
<1>3. CacheInv(c2, t)
  BY <1>2, DeleteSound
<1> HIDE DEF c2
<1>4. CacheInv(c3, t)
  BY <1>3, DeleteSound
<1> QED
  BY <1>1, <1>4

LEMMA EvictChannelsSound ==
  ASSUME NEW c, NEW t \in Nat, CacheInv(c, t), NEW ks
  PROVE  CacheInv(EvictChannels(c, ks, t), t)
<1> DEFINE theirs == UNION {Indexed(c.stores["threads"], ch) : ch \in ks}
           threads == theirs \cap Here(c, "threads", t)
           gone == ks \cup threads
           said == UNION {Indexed(c.stores["messages"], x) : x \in gone}
           c1 == Delete(c, "channels", gone)
           c2 == Delete(c1, "threads", ks \cup theirs)
           c3 == Delete(c2, "messages", said)
<1>1. EvictChannels(c, ks, t) = c3
  BY DEF EvictChannels
<1> HIDE DEF theirs, gone, said
<1>2. CacheInv(c1, t)
  BY DeleteSound
<1> HIDE DEF c1
<1>3. CacheInv(c2, t)
  BY <1>2, DeleteSound
<1> HIDE DEF c2
<1>4. CacheInv(c3, t)
  BY <1>3, DeleteSound
<1> QED
  BY <1>1, <1>4

LEMMA ReconcileSound ==
  ASSUME NEW c, NEW t \in Nat \ {0}, CacheInv(c, t), NEW g, NEW scope,
         NEW w, IsFiniteSet(DOMAIN w)
  PROVE  CacheInv(Reconcile(c, g, scope, w, t), t)
<1> DEFINE s == c.stores[scope]
           cached == Group(s, g, t)
           looked == OnStore(c, scope, Looked(s, g, t))
           arrived == In(scope, DOMAIN w)
           put == PutAll(looked, w, arrived, t)
<1>1. Reconcile(c, g, scope, w, t) = Delete(put, scope, cached \ arrived)
  BY DEF Reconcile
<1>2. CacheInv(looked, t)
  BY LookSound
<1>3. IsFiniteSet(arrived)
  BY FiniteParts
<1> HIDE DEF looked, arrived, cached
<1>4. CacheInv(put, t)
  BY <1>2, <1>3, PutAllSound
<1> HIDE DEF put
<1> QED
  BY <1>1, <1>4, DeleteSound

LEMMA ReconcileChannelsSound ==
  ASSUME NEW c, NEW t \in Nat \ {0}, CacheInv(c, t), NEW g, NEW w, IsFiniteSet(DOMAIN w)
  PROVE  CacheInv(ReconcileChannels(c, g, w, t), t)
<1> DEFINE channels == Group(c.stores["channels"], g, t)
           threads == {x \in Here(c, "threads", t) : Guild[x] = g}
           c1 == OnStore(c, "channels", Looked(c.stores["channels"], g, t))
           c2 == PutAll(c1, w, In("channels", DOMAIN w), t)
           c3 == PutAll(c2, w, In("threads", DOMAIN w), t)
           c4 == EvictChannels(c3, channels \ DOMAIN w, t)
           c5 == EvictChannels(c4, threads \ DOMAIN w, t)
<1>1. ReconcileChannels(c, g, w, t) = c5
  BY DEF ReconcileChannels
<1>2. CacheInv(c1, t)
  BY LookSound
<1>3. \A scope : IsFiniteSet(In(scope, DOMAIN w))
  BY FiniteParts
<1> HIDE DEF channels, threads, c1
<1>4. CacheInv(c2, t)
  BY <1>2, <1>3, PutAllSound
<1> HIDE DEF c2
<1>5. CacheInv(c3, t)
  BY <1>3, <1>4, PutAllSound
<1> HIDE DEF c3
<1>6. CacheInv(c4, t)
  BY <1>5, EvictChannelsSound
<1> HIDE DEF c4
<1>7. CacheInv(c5, t)
  BY <1>6, EvictChannelsSound
<1> QED
  BY <1>1, <1>7

LEMMA GuildCreateSound ==
  ASSUME NEW c, NEW t \in Nat \ {0}, CacheInv(c, t), NEW d, IsFiniteSet(DOMAIN d.w)
  PROVE  CacheInv(GuildCreate(c, d, t), t)
<1> DEFINE c0 == Put(c, d.key, d.w[d.key], t)
           c1 == Reconcile(c0, d.key, "roles", d.w, t)
           ca == ReconcileChannels(c1, d.key, d.w, t)
           c2 == Reconcile(ca, d.key, "voiceStates", d.w, t)
           cb == Reconcile(c2, d.key, "emojis", d.w, t)
           c3 == Reconcile(cb, d.key, "stickers", d.w, t)
           cc == PutAll(c3, d.w, In("presences", DOMAIN d.w), t)
           c4 == UpsertUsers(cc, d.w, t)
           c5 == PutAll(c4, d.w, In("members", DOMAIN d.w), t)
<1>1. GuildCreate(c, d, t) = c5
  BY DEF GuildCreate
<1>2. \A scope : IsFiniteSet(In(scope, DOMAIN d.w))
  BY FiniteParts
<1>3. CacheInv(c0, t)
  BY PutSound
<1> HIDE DEF c0
<1>4. CacheInv(c1, t)
  BY <1>3, ReconcileSound
<1> HIDE DEF c1
<1>5. CacheInv(ca, t)
  BY <1>4, ReconcileChannelsSound
<1> HIDE DEF ca
<1>6. CacheInv(c2, t)
  BY <1>5, ReconcileSound
<1> HIDE DEF c2
<1>7. CacheInv(cb, t)
  BY <1>6, ReconcileSound
<1> HIDE DEF cb
<1>8. CacheInv(c3, t)
  BY <1>7, ReconcileSound
<1> HIDE DEF c3
<1>9. CacheInv(cc, t)
  BY <1>2, <1>8, PutAllSound
<1> HIDE DEF cc
<1>10. CacheInv(c4, t)
  BY <1>9, UpsertUsersSound
<1> HIDE DEF c4
<1>11. CacheInv(c5, t)
  BY <1>2, <1>10, PutAllSound
<1> QED
  BY <1>1, <1>11

LEMMA ChannelUpdateSound ==
  ASSUME NEW c, NEW t \in Nat \ {0}, CacheInv(c, t), NEW d
  PROVE  CacheInv(ChannelUpdate(c, d, t), t)
<1>1. t \in Nat
  OBVIOUS
<1>2. CacheInv(EvictChannels(c, {d.key}, t), t)
  BY <1>1, EvictChannelsSound
<1>3. ChannelUpdate(c, d, t) \in {Put(c, d.key, d.w[d.key], t),
                                  Put(EvictChannels(c, {d.key}, t), d.key, d.w[d.key], t)}
  BY DEF ChannelUpdate
<1>4. /\ CacheInv(Put(c, d.key, d.w[d.key], t), t)
      /\ CacheInv(Put(EvictChannels(c, {d.key}, t), d.key, d.w[d.key], t), t)
  BY <1>2, PutSound
<1> QED
  BY <1>3, <1>4

LEMMA ChannelPinsUpdateSound ==
  ASSUME NEW c, NEW t \in Nat \ {0}, CacheInv(c, t), NEW d
  PROVE  CacheInv(ChannelPinsUpdate(c, d, t), t)
<1> DEFINE k == d.key
           SoughtIn(scope, x) == OnStore(x, scope, Got(x.stores[scope], k, t))
           scope == IF k \in Here(c, "channels", t) THEN "channels" ELSE "threads"
           c1 == SoughtIn("channels", c)
           c2 == SoughtIn(scope, c1)
           c3 == Assign(c2, scope, {k}, WithPin(Value(c.stores[scope], k), Pin(d.w[k])))
<1>1. t \in Nat /\ scope \in Scopes
  BY DEF Scopes
<1>2. ChannelPinsUpdate(c, d, t) \in {c2, c3}
  BY DEF ChannelPinsUpdate
<1>3. CacheInv(c1, t)
  BY <1>1, LookSound
<1>4. CacheInv(c2, t)
  <2> HIDE DEF c1
  <2> QED
    BY <1>1, <1>3, LookSound
<1> HIDE DEF c2, scope
<1>5. CacheInv(c3, t)
  BY <1>1, <1>4, AssignSound
<1> HIDE DEF c3
<1> QED
  BY <1>2, <1>4, <1>5

LEMMA ThreadListSyncSound ==
  ASSUME NEW c, NEW t \in Nat \ {0}, CacheInv(c, t), NEW d, IsFiniteSet(DOMAIN d.w)
  PROVE  CacheInv(ThreadListSync(c, d, t), t)
<1> DEFINE put == PutAll(c, d.w, DOMAIN d.w, t)
           ks == {x \in Here(put, "threads", t) \ DOMAIN d.w :
                    Guild[x] = d.key /\ Parent[x] \in d.of}
<1>1. ThreadListSync(c, d, t) = Delete(put, "threads", ks)
  BY DEF ThreadListSync
<1> HIDE DEF ks
<1>2. CacheInv(put, t)
  BY PutAllSound
<1> HIDE DEF put
<1> QED
  BY <1>1, <1>2, DeleteSound

LEMMA ThreadMembersUpdateSound ==
  ASSUME NEW c, NEW t \in Nat \ {0}, CacheInv(c, t), NEW d
  PROVE  CacheInv(ThreadMembersUpdate(c, d, t), t)
<1> DEFINE v == NewCount(Value(c.stores["threads"], d.key), Count(d.w[d.key]))
           c1 == Put(c, d.key, v, t)
           c2 == OnStore(c, "threads", Got(c.stores["threads"], d.key, t))
<1>1. t \in Nat
  OBVIOUS
<1>2. ThreadMembersUpdate(c, d, t) \in {c1, c2}
  BY DEF ThreadMembersUpdate
<1> HIDE DEF v
<1>3. CacheInv(c1, t)
  BY PutSound
<1>4. CacheInv(c2, t)
  BY <1>1, LookSound
<1> HIDE DEF c1, c2
<1> QED
  BY <1>2, <1>3, <1>4

LEMMA RoleDeleteSound ==
  ASSUME NEW c, NEW t \in Nat, CacheInv(c, t), NEW d
  PROVE  CacheInv(RoleDelete(c, d, t), t)
<1> DEFINE g == Guild[d.key]
           c1 == Delete(c, "roles", {d.key})
           listing == {m \in Group(c1.stores["members"], g, t) :
                         Value(c1.stores["members"], m) = Listing}
           looked == OnStore(c1, "members", Looked(c1.stores["members"], g, t))
<1>1. RoleDelete(c, d, t) = Assign(looked, "members", listing, 0)
  BY DEF RoleDelete
<1> HIDE DEF listing
<1>2. CacheInv(c1, t)
  BY DeleteSound
<1> HIDE DEF c1
<1>3. CacheInv(looked, t)
  BY <1>2, LookSound
<1> HIDE DEF looked
<1>4. "members" \in Scopes
  BY DEF Scopes
<1> QED
  BY <1>1, <1>3, <1>4, AssignSound

LEMMA PutWithUserSound ==
  ASSUME NEW c, NEW t \in Nat \ {0}, CacheInv(c, t), NEW d, IsFiniteSet(DOMAIN d.w), NEW v
  PROVE  CacheInv(Put(UpsertUsers(c, d.w, t), d.key, v, t), t)
<1>1. CacheInv(UpsertUsers(c, d.w, t), t)
  BY UpsertUsersSound
<1> QED
  BY <1>1, PutSound

LEMMA MessageUpdateSound ==
  ASSUME NEW c, NEW t \in Nat \ {0}, CacheInv(c, t), NEW d, IsFiniteSet(DOMAIN d.w)
  PROVE  CacheInv(MessageUpdate(c, d, t), t)
<1> DEFINE s == c.stores["messages"]
           kept == IF d.key \in Live(s, t) THEN Value(s, d.key) ELSE Stub
           v == IF d.w[d.key] = Stub THEN kept ELSE d.w[d.key]
<1>1. MessageUpdate(c, d, t) = Put(UpsertUsers(c, d.w, t), d.key, v, t)
  BY DEF MessageUpdate
<1> HIDE DEF v
<1> QED
  BY <1>1, PutWithUserSound

LEMMA VoiceStateUpdateSound ==
  ASSUME NEW c, NEW t \in Nat \ {0}, CacheInv(c, t), NEW d, IsFiniteSet(DOMAIN d.w)
  PROVE  CacheInv(VoiceStateUpdate(c, d, t), t)
<1> DEFINE c0 == OnStore(c, "voiceStates", Got(c.stores["voiceStates"], d.key, t))
           c1 == UpsertUsers(c0, d.w, t)
           c2 == PutAll(c1, d.w, In("members", DOMAIN d.w), t)
           c3 == Put(c2, d.key, d.w[d.key], t)
           c4 == Delete(c2, "voiceStates", {d.key})
<1>0. t \in Nat /\ IsFiniteSet(In("members", DOMAIN d.w))
  BY FiniteParts
<1>1. VoiceStateUpdate(c, d, t) = IF d.key \in DOMAIN d.w THEN c3 ELSE c4
  BY DEF VoiceStateUpdate
<1>2. CacheInv(c0, t)
  BY <1>0, LookSound
<1> HIDE DEF c0
<1>3. CacheInv(c1, t)
  BY <1>2, UpsertUsersSound
<1> HIDE DEF c1
<1>4. CacheInv(c2, t)
  BY <1>0, <1>3, PutAllSound
<1> HIDE DEF c2
<1>5. CacheInv(c3, t)
  BY <1>4, PutSound
<1>6. CacheInv(c4, t)
  BY <1>0, <1>4, DeleteSound
<1> HIDE DEF c3, c4
<1> QED
  BY <1>1, <1>5, <1>6

Events == {
  "GUILD_CREATE", "GUILD_UPDATE", "GUILD_ROLE", "THREAD", "PRESENCE_UPDATE", "GUILD_DELETE",
  "GUILD_UNAVAILABLE", "CHANNEL_CREATE", "CHANNEL_UPDATE", "CHANNEL_PINS_UPDATE",
  "CHANNEL_DELETE", "THREAD_DELETE", "THREAD_LIST_SYNC", "THREAD_MEMBERS_UPDATE",
  "GUILD_ROLE_DELETE", "MEMBER", "GUILD_MEMBER_REMOVE", "USER_SEEN", "MESSAGE_CREATE",
  "MESSAGE_UPDATE", "MESSAGE_DELETE", "GUILD_EMOJIS_UPDATE", "GUILD_STICKERS_UPDATE",
  "VOICE_STATE_UPDATE", "SELF"}

\* Of a payload the handlers need that its event is known and that it ends.
Payload(d) == d.event \in Events /\ IsFiniteSet(DOMAIN d.w)

\* No handler leaves a store unsound, whatever the payload says.
LEMMA HandleSound ==
  ASSUME NEW c, NEW t \in Nat \ {0}, CacheInv(c, t), NEW d, Payload(d)
  PROVE  CacheInv(Handle(c, d, t), t)
<1>0. t \in Nat /\ IsFiniteSet(DOMAIN d.w) /\ d.event \in Events
  BY DEF Payload
<1>1. CASE d.event = "GUILD_CREATE"
  BY <1>0, <1>1, GuildCreateSound DEF Handle
<1>2. CASE d.event \in {"GUILD_UPDATE", "GUILD_ROLE", "THREAD", "PRESENCE_UPDATE", "CHANNEL_CREATE"}
  <2>1. CacheInv(Put(c, d.key, d.w[d.key], t), t)
    BY PutSound
  <2>2. Handle(c, d, t) = Put(c, d.key, d.w[d.key], t)
    BY <1>2 DEF Handle, GuildUpdate, RoleUpsert, ThreadUpsert, PresenceUpdate, ChannelCreate
  <2> QED
    BY <2>1, <2>2
<1>3. CASE d.event = "GUILD_DELETE"
  BY <1>0, <1>3, EvictGuildSound DEF Handle
<1>4. CASE d.event = "GUILD_UNAVAILABLE"
  BY <1>4 DEF Handle
<1>5. CASE d.event = "CHANNEL_UPDATE"
  BY <1>5, ChannelUpdateSound DEF Handle
<1>6. CASE d.event = "CHANNEL_PINS_UPDATE"
  BY <1>6, ChannelPinsUpdateSound DEF Handle
<1>7. CASE d.event \in {"CHANNEL_DELETE", "THREAD_DELETE"}
  BY <1>0, <1>7, EvictChannelsSound DEF Handle
<1>8. CASE d.event = "THREAD_LIST_SYNC"
  BY <1>0, <1>8, ThreadListSyncSound DEF Handle
<1>9. CASE d.event = "THREAD_MEMBERS_UPDATE"
  BY <1>9, ThreadMembersUpdateSound DEF Handle
<1>10. CASE d.event = "GUILD_ROLE_DELETE"
  BY <1>0, <1>10, RoleDeleteSound DEF Handle
<1>11. CASE d.event \in {"MEMBER", "MESSAGE_CREATE"}
  <2>1. Handle(c, d, t) = Put(UpsertUsers(c, d.w, t), d.key, d.w[d.key], t)
    BY <1>11 DEF Handle, MemberPut, MessageCreate
  <2> QED
    BY <1>0, <2>1, PutWithUserSound
<1>12. CASE d.event = "GUILD_MEMBER_REMOVE"
  <2>1. CacheInv(EvictMember(c, d.key), t)
    BY <1>0, EvictMemberSound
  <2>2. CacheInv(UpsertUsers(EvictMember(c, d.key), d.w, t), t)
    BY <1>0, <2>1, UpsertUsersSound
  <2> QED
    BY <1>12, <2>2 DEF Handle, MemberRemove
<1>13. CASE d.event = "USER_SEEN"
  BY <1>0, <1>13, UpsertUsersSound DEF Handle, UserSeen
<1>14. CASE d.event = "MESSAGE_UPDATE"
  BY <1>0, <1>14, MessageUpdateSound DEF Handle
<1>15. CASE d.event = "MESSAGE_DELETE"
  BY <1>0, <1>15, DeleteSound DEF Handle, MessageDelete
<1>16. CASE d.event \in {"GUILD_EMOJIS_UPDATE", "GUILD_STICKERS_UPDATE"}
  <2> DEFINE scope == IF d.event = "GUILD_EMOJIS_UPDATE" THEN "emojis" ELSE "stickers"
  <2>1. Handle(c, d, t) = Reconcile(c, d.key, scope, d.w, t)
    BY <1>16 DEF Handle, ExpressionsUpdate
  <2> HIDE DEF scope
  <2> QED
    BY <1>0, <2>1, ReconcileSound
<1>17. CASE d.event = "VOICE_STATE_UPDATE"
  BY <1>0, <1>17, VoiceStateUpdateSound DEF Handle
<1>18. CASE d.event = "SELF"
  BY <1>18, SelfSound DEF Handle, SelfUpdate
<1>19. \/ d.event = "GUILD_CREATE"
       \/ d.event \in {"GUILD_UPDATE", "GUILD_ROLE", "THREAD", "PRESENCE_UPDATE", "CHANNEL_CREATE"}
       \/ d.event = "GUILD_DELETE" \/ d.event = "GUILD_UNAVAILABLE"
       \/ d.event = "CHANNEL_UPDATE" \/ d.event = "CHANNEL_PINS_UPDATE"
       \/ d.event \in {"CHANNEL_DELETE", "THREAD_DELETE"}
       \/ d.event = "THREAD_LIST_SYNC" \/ d.event = "THREAD_MEMBERS_UPDATE"
       \/ d.event = "GUILD_ROLE_DELETE" \/ d.event \in {"MEMBER", "MESSAGE_CREATE"}
       \/ d.event = "GUILD_MEMBER_REMOVE" \/ d.event = "USER_SEEN"
       \/ d.event = "MESSAGE_UPDATE" \/ d.event = "MESSAGE_DELETE"
       \/ d.event \in {"GUILD_EMOJIS_UPDATE", "GUILD_STICKERS_UPDATE"}
       \/ d.event = "VOICE_STATE_UPDATE" \/ d.event = "SELF"
  BY <1>0 DEF Events
<1> QED
  BY <1>1, <1>2, <1>3, <1>4, <1>5, <1>6, <1>7, <1>8, <1>9, <1>10, <1>11, <1>12, <1>13,
     <1>14, <1>15, <1>16, <1>17, <1>18, <1>19

-----------------------------------------------------------------------------
(* What the stores are sound for.                                          *)

LEMMA StoreInvIsOK ==
  ASSUME NEW p, PolicyOK(p), NEW t \in Nat, NEW s, StoreInv(p, s, t)
  PROVE  StoreOK(p, s, GroupOf, t)
<1> DEFINE es == s.entries
           due == {i \in DOMAIN es : \A j \in 1 .. i : Expired(es[j], t)}
           ks == {es[i].key : i \in due}
           w == Without(es, ks)
           q == Swept(s, t)
<1>1. EntriesOK(p, es, t)
  BY DEF StoreInv
<1>2. q.entries = w
  BY DEF Swept, Evict
<1>3. /\ EntriesOK(p, w, t) /\ KeysOf(w) = KeysOf(es) \ ks
      /\ \A a \in DOMAIN w : \E c \in DOMAIN es : w[a] = es[c]
  <2> HIDE DEF ks
  <2> QED
    BY <1>1, WithoutSound
<1>4. DOMAIN es = 1 .. Len(es) /\ Len(es) \in Nat
  BY <1>1 DEF EntriesOK
<1> HIDE DEF es, w
<1>5. ASSUME NEW a \in DOMAIN w PROVE ~Expired(w[a], t)
  <2> SUFFICES ASSUME Expired(w[a], t) PROVE FALSE
    OBVIOUS
  <2>1. PICK c \in DOMAIN es : w[a] = es[c]
    BY <1>3
  <2>2. es[c].due # Never /\ es[c].due <= t
    BY <2>1 DEF Expired
  <2>3. p.ttl # 0
    BY <1>1, <2>2 DEF EntriesOK
  <2>4. ASSUME NEW j \in 1 .. c PROVE Expired(es[j], t)
    <3>1. j \in DOMAIN es /\ c \in Nat /\ j \in Nat
      BY <1>4
    <3>2. es[j].due \in 1 .. t + p.ttl /\ es[c].due \in 1 .. t + p.ttl
      BY <1>1, <2>3, <3>1 DEF EntriesOK
    <3>3. j < c => es[j].due <= es[c].due
      BY <1>1, <3>1 DEF EntriesOK
    <3>4. j < c \/ j = c
      BY <1>4, <3>1
    <3>5. es[j].due \in Nat /\ es[c].due \in Nat /\ es[j].due # 0
      BY <3>2 DEF PolicyOK
    <3>6. es[j].due <= t
      <4>1. CASE j = c
        BY <2>2, <4>1
      <4>2. CASE j < c
        BY ONLY <2>2, <3>3, <3>5, <4>2, t \in Nat
      <4> QED
        BY <3>4, <4>1, <4>2
    <3> QED
      BY <3>5, <3>6 DEF Expired, Never
  <2>5. c \in due
    BY <2>4
  <2>6. w[a].key \in ks
    BY <2>1, <2>5
  <2>7. w[a].key \in KeysOf(w)
    BY DEF KeysOf
  <2> QED
    BY <1>3, <2>6, <2>7
<1> HIDE DEF q
<1>6. ASSUME NEW k \in Keys(q) PROVE ~Expired(Entry(q, k), t)
  <2>1. \E i \in DOMAIN w : w[i].key = k
    BY <1>2 DEF Keys
  <2>2. \E i \in DOMAIN w : Entry(q, k) = w[i]
    BY <1>2, <2>1 DEF Entry
  <2> QED
    BY <1>5, <2>2
<1>7. Live(q, t) = Keys(q)
  BY <1>6 DEF Live
<1>8. \A i, j \in DOMAIN s.entries : s.entries[i].key = s.entries[j].key => i = j
  BY <1>1 DEF EntriesOK, es
<1>9. s.index = {[key |-> k, group |-> GroupOf(k)] : k \in {x \in Keys(s) : GroupOf(x) # NoGroup}}
  BY DEF StoreInv, PairsOf, KeysOf, Keys
<1>10. (p.enabled \/ s = EmptyStore) /\ (Unbounded(p) \/ Len(s.entries) <= p.max)
  BY DEF StoreInv
<1> QED
  BY <1>7, <1>8, <1>9, <1>10 DEF StoreOK, q

LEMMA CacheInvLater ==
  ASSUME NEW c, NEW t \in Nat, CacheInv(c, t) PROVE CacheInv(c, t + 1)
<1>1. ASSUME NEW scope \in Scopes
      PROVE  StoreInv(Policies[c.policy][scope], c.stores[scope], t + 1)
  <2>1. PolicyOK(Policies[c.policy][scope]) /\ StoreInv(Policies[c.policy][scope], c.stores[scope], t)
    BY PolicyType DEF CacheInv
  <2>2. t + 1 \in Nat /\ t <= t + 1
    OBVIOUS
  <2> QED
    BY <2>1, <2>2, LaterSound
<1> QED
  BY <1>1 DEF CacheInv

-----------------------------------------------------------------------------
(* What an operation of a store does to one key.                           *)

LEMMA EntryIs ==
  ASSUME NEW p, NEW t, NEW s, StoreInv(p, s, t), NEW i \in DOMAIN s.entries
  PROVE  Entry(s, s.entries[i].key) = s.entries[i] /\ s.entries[i].key \in Keys(s)
<1> DEFINE j == CHOOSE x \in DOMAIN s.entries : s.entries[x].key = s.entries[i].key
<1>1. j \in DOMAIN s.entries /\ s.entries[j].key = s.entries[i].key
  OBVIOUS
<1>2. j = i
  BY <1>1 DEF StoreInv, EntriesOK
<1> QED
  BY <1>2 DEF Entry, Keys

\* Nothing is in r that was not in s, and what is there is as it was.
Within(r, s) == \A k \in Keys(r) : k \in Keys(s) /\ Entry(r, k) = Entry(s, k)

LEMMA WithinIsLive ==
  ASSUME NEW r, NEW s, Within(r, s), NEW t
  PROVE  /\ \A k \in Live(r, t) : k \in Live(s, t) /\ Value(r, k) = Value(s, k)
         /\ \A k \in Live(s, t) : k \in Keys(r) => k \in Live(r, t)
  BY DEF Within, Live, Value

LEMMA EvictDoes ==
  ASSUME NEW p, PolicyOK(p), NEW t \in Nat, NEW s, StoreInv(p, s, t), NEW ks
  PROVE  Keys(Evict(s, ks)) = Keys(s) \ ks /\ Within(Evict(s, ks), s)
<1> DEFINE w == Without(s.entries, ks)
           r == Evict(s, ks)
<1>1. r.entries = w
  BY DEF Evict
<1>2. /\ KeysOf(w) = KeysOf(s.entries) \ ks
      /\ \A a \in DOMAIN w : \E c \in DOMAIN s.entries : w[a] = s.entries[c]
  BY WithoutSound DEF StoreInv
<1>3. StoreInv(p, r, t)
  BY EvictSound
<1> HIDE DEF w, r
<1>4. Keys(r) = Keys(s) \ ks
  BY <1>1, <1>2 DEF Keys, KeysOf
<1>5. ASSUME NEW k \in Keys(r) PROVE k \in Keys(s) /\ Entry(r, k) = Entry(s, k)
  <2>1. PICK a \in DOMAIN w : w[a].key = k
    BY <1>1 DEF Keys
  <2>2. PICK c \in DOMAIN s.entries : w[a] = s.entries[c]
    BY <1>2
  <2>3. Entry(r, k) = w[a]
    BY <1>1, <1>3, <2>1, EntryIs
  <2>4. Entry(s, k) = s.entries[c] /\ k \in Keys(s)
    BY <2>1, <2>2, EntryIs
  <2> QED
    BY <2>2, <2>3, <2>4
<1> QED
  BY <1>4, <1>5 DEF Within, r

LEMMA RewrittenDoes ==
  ASSUME NEW p, PolicyOK(p), NEW t \in Nat \ {0}, NEW es, EntriesOK(p, es, t), NEW k, NEW v,
         NEW a \in DOMAIN Rewritten(p, es, k, v, t)
  PROVE  LET e == Rewritten(p, es, k, v, t)[a]
         IN \/ e = [key |-> k, value |-> v, due |-> Deadline(p, t)]
            \/ \E c \in DOMAIN es : e = es[c] /\ e.key # k
<1> DEFINE e == [key |-> k, value |-> v, due |-> Deadline(p, t)]
           w == Without(es, {k})
           r == Rewritten(p, es, k, v, t)
<1>1. r = Append(w, e)
  BY DEF Rewritten
<1>2. t \in Nat
  OBVIOUS
<1>3. /\ EntriesOK(p, w, t) /\ KeysOf(w) = KeysOf(es) \ {k}
      /\ \A b \in DOMAIN w : \E c \in DOMAIN es : w[b] = es[c]
  <2> DEFINE ks == {k}
  <2> HIDE DEF ks
  <2>1. /\ EntriesOK(p, Without(es, ks), t) /\ KeysOf(Without(es, ks)) = KeysOf(es) \ ks
        /\ \A b \in DOMAIN Without(es, ks) : \E c \in DOMAIN es : Without(es, ks)[b] = es[c]
    BY <1>2, WithoutSound
  <2> QED
    BY <2>1 DEF ks
<1>4. PICK S : w \in Seq(S)
  BY <1>3 DEF EntriesOK
<1> HIDE DEF e, w, r
<1>5. /\ r \in Seq(S \cup {e}) /\ Len(w) \in Nat /\ Len(r) = Len(w) + 1 /\ r[Len(w) + 1] = e
      /\ \A b \in 1 .. Len(w) : r[b] = w[b]
  <2>1. w \in Seq(S \cup {e}) /\ e \in S \cup {e}
    BY <1>4
  <2> QED
    BY ONLY <1>1, <2>1, Appended
<1>6. DOMAIN r = 1 .. Len(w) + 1 /\ DOMAIN w = 1 .. Len(w)
  BY <1>4, <1>5
<1>7. a \in DOMAIN r
  BY DEF r
<1>8. a = Len(w) + 1 \/ a \in 1 .. Len(w)
  BY <1>5, <1>6, <1>7
<1>9. CASE a = Len(w) + 1
  BY <1>5, <1>9 DEF r, e
<1>10. CASE a \in 1 .. Len(w)
  <2>1. r[a] = w[a] /\ a \in DOMAIN w
    BY <1>5, <1>6, <1>10
  <2>2. w[a].key \in KeysOf(w)
    BY <2>1 DEF KeysOf
  <2> QED
    BY <1>3, <2>1, <2>2 DEF r
<1> QED
  BY <1>8, <1>9, <1>10

\* A write leaves the other keys as they are, or drops them, and the key that was written has
\* the value; without a bound, a value that is accepted is there and nothing is dropped.
LEMMA SetDoes ==
  ASSUME NEW p, PolicyOK(p), NEW t \in Nat \ {0}, NEW s, StoreInv(p, s, t), NEW k, NEW v
  PROVE  LET r == Set(p, s, k, v, GroupOf(k), t)
         IN /\ \A x \in Keys(r) : x # k => x \in Keys(s) /\ Entry(r, x) = Entry(s, x)
            /\ k \in Keys(r) => Entry(r, k).value = v /\ ~Expired(Entry(r, k), t)
            /\ p.enabled /\ Unbounded(p) /\ v \in p.accepts => Keys(r) = Keys(s) \cup {k}
<1> DEFINE g == GroupOf(k)
           r == Set(p, s, k, v, g, t)
<1>0. t \in Nat /\ StoreInv(p, r, t)
  BY SetSound
<1>1. CASE ~p.enabled
  <2>1. r = s /\ s = EmptyStore
    BY <1>1 DEF Set, StoreInv
  <2>2. Keys(s) = {}
    BY <2>1 DEF Keys, EmptyStore
  <2> QED
    BY <1>1, <2>1, <2>2
<1>2. CASE p.enabled /\ v \notin p.accepts
  <2>1. r = Evict(s, {k})
    BY <1>2 DEF Set
  <2>2. Keys(r) = Keys(s) \ {k} /\ Within(r, s)
    BY <1>0, <2>1, EvictDoes
  <2> QED
    BY <1>2, <2>2 DEF Within
<1>3. CASE p.enabled /\ v \in p.accepts
  <2> DEFINE es == Rewritten(p, s.entries, k, v, t)
             w == [entries |-> es, index |-> s.index]
             b == Bounded(p, w)
             new == [key |-> k, value |-> v, due |-> Deadline(p, t)]
  <2>1. Written(p, s, k, v, t) = w
    <3>1. s = [entries |-> s.entries, index |-> s.index]
      BY DEF StoreInv
    <3>2. Written(p, s, k, v, t) = [s EXCEPT !.entries = es]
      BY DEF Written, Rewritten
    <3> HIDE DEF es
    <3> QED
      BY <3>1, <3>2
  <2>2. EntriesOK(p, s.entries, t)
    BY DEF StoreInv
  <2>3. EntriesOK(p, es, t) /\ KeysOf(es) = KeysOf(s.entries) \cup {k}
    BY <2>2, RewrittenSound
  <2>4. \A a \in DOMAIN es : es[a] = new \/ \E c \in DOMAIN s.entries : es[a] = s.entries[c] /\ es[a].key # k
    BY <2>2, RewrittenDoes
  <2> HIDE DEF es, new
  <2>5. w.entries = es /\ w.index = s.index
    OBVIOUS
  <2> HIDE DEF w
  <2>6. /\ \E ks : b.entries = es \/ b.entries = Without(es, ks)
        /\ Unbounded(p) => b.entries = es
        /\ b = [entries |-> b.entries, index |-> b.index]
    <3> DEFINE ks == {es[i].key : i \in 1 .. Len(es) - p.max}
    <3>1. b = w \/ (~Unbounded(p) /\ b = Evict(w, ks))
      BY <2>5 DEF Bounded
    <3>2. Evict(w, ks).entries = Without(es, ks)
      BY <2>5 DEF Evict
    <3>3. \A x \in {w, Evict(w, ks)} : x = [entries |-> x.entries, index |-> x.index]
      BY DEF Evict, w
    <3> HIDE DEF ks, b
    <3> QED
      BY <2>5, <3>1, <3>2, <3>3
  <2>7. r = IF g = NoGroup THEN b ELSE [b EXCEPT !.index = IndexAdd(@, g, k)]
    BY <1>3, <2>1 DEF Set
  <2> HIDE DEF b
  <2>8. r.entries = b.entries
    <3> DEFINE index == IndexAdd(b.index, g, k)
    <3>1. CASE g = NoGroup
      BY <2>7, <3>1
    <3>2. CASE g # NoGroup
      <4>1. r = [b EXCEPT !.index = index]
        BY <2>7, <3>2
      <4> HIDE DEF index, r
      <4> QED
        BY <2>6, <4>1
    <3> QED
      BY <3>1, <3>2
  <2> HIDE DEF r
  <2>9. \A a \in DOMAIN r.entries : \E c \in DOMAIN es : r.entries[a] = es[c]
    <3>1. \A ks : \A a \in DOMAIN Without(es, ks) : \E c \in DOMAIN es : Without(es, ks)[a] = es[c]
      BY <1>0, <2>3, WithoutSound
    <3> QED
      BY <2>6, <2>8, <3>1
  <2>10. ASSUME NEW x \in Keys(r)
         PROVE  \/ x = k /\ Entry(r, x) = new
                \/ x # k /\ x \in Keys(s) /\ Entry(r, x) = Entry(s, x)
    <3>1. PICK a \in DOMAIN r.entries : r.entries[a].key = x
      BY DEF Keys
    <3>2. Entry(r, x) = r.entries[a]
      BY <1>0, <3>1, EntryIs
    <3>3. CASE r.entries[a] = new
      BY <3>1, <3>2, <3>3 DEF new
    <3>4. CASE \E c \in DOMAIN s.entries : r.entries[a] = s.entries[c] /\ r.entries[a].key # k
      <4>1. PICK c \in DOMAIN s.entries : r.entries[a] = s.entries[c] /\ x # k
        BY <3>1, <3>4
      <4>2. Entry(s, x) = s.entries[c] /\ x \in Keys(s)
        BY <3>1, <4>1, EntryIs
      <4> QED
        BY <3>2, <4>1, <4>2
    <3> QED
      BY <2>4, <2>9, <3>3, <3>4
  <2>11. new.value = v /\ ~Expired(new, t)
    <3>1. new.value = v /\ new.due = Deadline(p, t)
      BY DEF new
    <3>2. p.ttl \in Nat
      BY DEF PolicyOK
    <3> QED
      BY <3>1, <3>2 DEF Expired, Deadline, Never
  <2>12. Unbounded(p) => Keys(r) = Keys(s) \cup {k}
    BY <2>3, <2>6, <2>8 DEF Keys, KeysOf
  <2> QED
    BY <2>10, <2>11, <2>12 DEF r
<1> QED
  BY <1>1, <1>2, <1>3

LEMMA PatchedDoes ==
  ASSUME NEW p, PolicyOK(p), NEW t \in Nat, NEW s, StoreInv(p, s, t), NEW ks, NEW v
  PROVE  LET r == Patched(s, ks, v)
         IN /\ Keys(r) = Keys(s) /\ Live(r, t) = Live(s, t)
            /\ \A k \in Keys(s) : Value(r, k) = IF k \in ks THEN v ELSE Value(s, k)
<1> DEFINE es == s.entries
           r == Patched(s, ks, v)
           fs == [i \in DOMAIN es |->
                   IF es[i].key \in ks THEN [es[i] EXCEPT !.value = v] ELSE es[i]]
<1>0. StoreInv(p, r, t)
  BY PatchedSound
<1>1. s = [entries |-> es, index |-> s.index] /\ EntriesOK(p, es, t)
  BY DEF StoreInv
<1>2. r.entries = fs
  <2>1. r = [s EXCEPT !.entries = fs]
    BY DEF Patched
  <2> HIDE DEF fs, r
  <2> QED
    BY <1>1, <2>1
<1>3. \A i \in DOMAIN es : es[i] = [key |-> es[i].key, value |-> es[i].value, due |-> es[i].due]
  BY <1>1 DEF EntriesOK
<1>4. /\ DOMAIN fs = DOMAIN es
      /\ \A i \in DOMAIN es :
           /\ fs[i].key = es[i].key /\ fs[i].due = es[i].due
           /\ fs[i].value = IF es[i].key \in ks THEN v ELSE es[i].value
  <2> HIDE DEF es
  <2> QED
    BY <1>3
<1> HIDE DEF fs, r
<1>5. Keys(r) = Keys(s)
  BY <1>2, <1>4 DEF Keys
<1>6. ASSUME NEW k \in Keys(s)
      PROVE  /\ Entry(r, k).due = Entry(s, k).due
             /\ Entry(r, k).value = IF k \in ks THEN v ELSE Entry(s, k).value
  <2>1. PICK i \in DOMAIN es : es[i].key = k
    BY DEF Keys
  <2>2. Entry(s, k) = es[i]
    BY <2>1, EntryIs
  <2>3. Entry(r, k) = fs[i]
    BY <1>0, <1>2, <1>4, <2>1, EntryIs
  <2> QED
    BY <1>4, <2>1, <2>2, <2>3
<1>7. Live(r, t) = Live(s, t)
  BY <1>5, <1>6 DEF Live, Expired
<1> QED
  BY <1>5, <1>6, <1>7 DEF Value, r

LEMMA IndexedIs ==
  ASSUME NEW p, NEW t, NEW s, StoreInv(p, s, t), NEW g
  PROVE  Indexed(s, g) = {k \in Keys(s) : g # NoGroup /\ GroupOf(k) = g}
<1> DEFINE ks == {k \in Keys(s) : GroupOf(k) # NoGroup}
<1>1. s.index = {[key |-> k, group |-> GroupOf(k)] : k \in ks}
  BY DEF StoreInv, PairsOf, Keys, KeysOf
<1> HIDE DEF ks
<1>2. \A e \in s.index : e.key \in ks /\ e.group = GroupOf(e.key)
  BY <1>1
<1>3. ASSUME NEW k \in ks PROVE \E e \in s.index : e.key = k /\ e.group = GroupOf(k)
  <2> DEFINE e == [key |-> k, group |-> GroupOf(k)]
  <2>1. e \in s.index
    BY <1>1
  <2>2. e.key = k /\ e.group = GroupOf(k)
    OBVIOUS
  <2> QED
    BY <2>1, <2>2
<1>4. ASSUME NEW k \in Indexed(s, g) PROVE k \in ks /\ GroupOf(k) = g
  BY <1>2, <1>4 DEF Indexed
<1>5. ASSUME NEW k \in ks, GroupOf(k) = g PROVE k \in Indexed(s, g)
  BY <1>3, <1>5 DEF Indexed
<1> QED
  BY <1>4, <1>5 DEF ks

-----------------------------------------------------------------------------
(* An entity well kept.                                                    *)

\* Each entity is in the store of its scope.
Good(c, t) == CacheInv(c, t) /\ \A scope \in Scopes : Keys(c.stores[scope]) \subseteq In(scope, Things)

-----------------------------------------------------------------------------
(* The entities a payload carries.                                         *)

\* The parts of a version that the handlers tell apart.
Parts == {"hi", "mid", "lo"}

Part(v, x) ==
  CASE x = "hi" -> v \div 4
    [] x = "mid" -> (v \div 2) % 2
    [] OTHER -> v % 2

LEMMA PartsAre ==
  ASSUME NEW v
  PROVE  /\ Part(v, "hi") = v \div 4 /\ Part(v, "mid") = (v \div 2) % 2 /\ Part(v, "lo") = v % 2
         /\ \A x \in Parts : x = "hi" \/ x = "mid" \/ x = "lo"
  BY DEF Part, Parts

LEMMA PartsMakeTheWhole ==
  ASSUME NEW v \in Nat, NEW u \in Nat, \A x \in Parts : Part(v, x) = Part(u, x)
  PROVE  v = u
<1>1. "hi" \in Parts /\ "mid" \in Parts /\ "lo" \in Parts
  BY DEF Parts
<1>2. \A x \in {"hi", "mid", "lo"} : Part(v, x) = Part(u, x)
  BY <1>1
<1>3. v \div 4 = u \div 4 /\ (v \div 2) % 2 = (u \div 2) % 2 /\ v % 2 = u % 2
  BY <1>2, PartsAre
<1>4. \A n \in Nat : n = 4 * (n \div 4) + 2 * ((n \div 2) % 2) + (n % 2)
  <2> TAKE n \in Nat
  <2>1. n \div 2 \in Nat /\ n = 2 * (n \div 2) + (n % 2)
    OBVIOUS
  <2>2. \A i \in Nat : i = 2 * (i \div 2) + (i % 2)
    OBVIOUS
  <2>3. (n \div 2) \div 2 = n \div 4
    OBVIOUS
  <2> QED
    BY <2>1, <2>2, <2>3
<1> QED
  BY <1>3, <1>4

LEMMA Pieces ==
  ASSUME NEW a \in 0 .. 1, NEW m \in 0 .. 1, NEW b \in 0 .. 1, NEW v, v = 4 * a + 2 * m + b
  PROVE  /\ Part(v, "hi") = a /\ Part(v, "mid") = m /\ Part(v, "lo") = b
         /\ v \in 0 .. 7
<1>1. v \div 4 = a /\ (v \div 2) % 2 = m /\ v % 2 = b
  OBVIOUS
<1> QED
  BY <1>1, PartsAre

LEMMA PiecesOf ==
  ASSUME NEW v \in 0 .. 7
  PROVE  /\ Kind(v) \in 0 .. 1 /\ Count(v) \in 0 .. 1 /\ Pin(v) \in 0 .. 1
         /\ Part(v, "hi") = Kind(v) /\ Part(v, "mid") = Count(v) /\ Part(v, "lo") = Pin(v)
  BY PartsAre DEF Kind, Count, Pin

-----------------------------------------------------------------------------
(* The changes of some entities.                                           *)

\* Both handlers that patch keep all parts but one, and take that over.
LEMMA ChangesPart ==
  ASSUME NEW h \in 0 .. 7, NEW u \in 0 .. 7
  PROVE  /\ LET v == WithPin(h, Pin(u))
            IN v \in 0 .. 7 /\ \A x \in Parts : Part(v, x) = Part(IF x = "lo" THEN u ELSE h, x)
         /\ LET v == NewCount(h, Count(u))
            IN v \in 0 .. 7 /\ \A x \in Parts : Part(v, x) = Part(IF x = "mid" THEN u ELSE h, x)
<1>1. PICK a \in 0 .. 1, m \in 0 .. 1, b \in 0 .. 1 : a = Kind(h) /\ m = Count(h) /\ b = Pin(h)
  BY PiecesOf
<1>2. Part(h, "hi") = a /\ Part(h, "mid") = m /\ Part(h, "lo") = b
  BY <1>1, PiecesOf
<1>3. PICK n \in 0 .. 1, q \in 0 .. 1 : n = Count(u) /\ q = Pin(u)
  BY PiecesOf
<1>4. Part(u, "mid") = n /\ Part(u, "lo") = q
  BY <1>3, PiecesOf
<1> DEFINE v == 4 * a + 2 * m + q
           r == 4 * a + 2 * n + b
<1>5. WithPin(h, q) = v /\ NewCount(h, n) = r
  BY <1>1 DEF WithPin, NewCount, WithCount
<1>6. /\ Part(v, "hi") = a /\ Part(v, "mid") = m /\ Part(v, "lo") = q /\ v \in 0 .. 7
      /\ Part(r, "hi") = a /\ Part(r, "mid") = n /\ Part(r, "lo") = b /\ r \in 0 .. 7
  <2>1. v = 4 * a + 2 * m + q /\ r = 4 * a + 2 * n + b
    OBVIOUS
  <2> HIDE DEF v, r
  <2>2. Part(v, "hi") = a /\ Part(v, "mid") = m /\ Part(v, "lo") = q /\ v \in 0 .. 7
    BY <2>1, Pieces
  <2>3. Part(r, "hi") = a /\ Part(r, "mid") = n /\ Part(r, "lo") = b /\ r \in 0 .. 7
    BY <2>1, Pieces
  <2> QED
    BY <2>2, <2>3
<1> HIDE DEF v, r
<1>7. \A x \in Parts : x = "hi" \/ x = "mid" \/ x = "lo"
  BY PartsAre
<1>8. \A x \in Parts : Part(v, x) = Part(IF x = "lo" THEN u ELSE h, x)
  BY <1>2, <1>4, <1>6, <1>7
<1>9. \A x \in Parts : Part(r, x) = Part(IF x = "mid" THEN u ELSE h, x)
  BY <1>2, <1>4, <1>6, <1>7
<1> QED
  BY <1>3, <1>5, <1>6, <1>8, <1>9

-----------------------------------------------------------------------------
(* The next dispatch, handled twice: what is left, entry by entry.         *)

LEMMA SameSequence ==
  ASSUME NEW S, NEW a \in Seq(S), NEW T, NEW b \in Seq(T), Len(a) = Len(b),
         \A i \in 1 .. Len(a) : a[i] = b[i]
  PROVE  a = b
<1>1. a = [i \in 1 .. Len(a) |-> a[i]] /\ b = [i \in 1 .. Len(b) |-> b[i]]
  OBVIOUS
<1> QED
  BY <1>1

\* What is kept after each entry, and in the end.
KeepsBy(S, es, ks, g) ==
  /\ Without(es, ks) = g[Len(es)] /\ g[0] = <<>>
  /\ \A i \in 0 .. Len(es) : g[i] \in Seq(S) /\ Len(g[i]) \in 0 .. i
  /\ \A i \in 0 .. Len(es) - 1 : g[i + 1] = NextKept(es, ks, g[i], i + 1)

LEMMA WithoutSteps ==
  ASSUME NEW S, NEW es \in Seq(S), NEW ks
  PROVE  \E g : KeepsBy(S, es, ks, g)
<1> DEFINE n == Len(es)
           g == CHOOSE x : KeptUpTo(es, ks, n, x)
           P == {m \in Nat : m <= n => g[m] \in Seq(S) /\ Len(g[m]) \in 0 .. m}
<1>1. n \in Nat
  OBVIOUS
<1>2. KeptUpTo(es, ks, n, g)
  BY <1>1, KeptExists
<1>3. Without(es, ks) = g[n]
  BY WithoutDef
<1> HIDE DEF g
<1>4. g[0] = <<>> /\ \A i \in 0 .. n : i # 0 => g[i] = NextKept(es, ks, g[i - 1], i)
  <2>1. 0 \in 0 .. n
    BY <1>1
  <2> QED
    BY <1>2, <2>1 DEF KeptUpTo
<1>5. ASSUME NEW i \in 0 .. n - 1 PROVE g[i + 1] = NextKept(es, ks, g[i], i + 1)
  <2>1. i + 1 \in 0 .. n /\ i + 1 # 0 /\ (i + 1) - 1 = i
    BY <1>1
  <2> QED
    BY <1>4, <2>1
<1>6. 0 \in P
  <2>1. <<>> \in Seq(S) /\ Len(<<>>) = 0 /\ 0 \in 0 .. 0
    OBVIOUS
  <2> QED
    BY <1>4, <2>1
<1>7. ASSUME NEW m \in Nat, m \in P PROVE m + 1 \in P
  <2> SUFFICES ASSUME m + 1 <= n PROVE g[m + 1] \in Seq(S) /\ Len(g[m + 1]) \in 0 .. m + 1
    OBVIOUS
  <2>1. g[m] \in Seq(S) /\ Len(g[m]) \in 0 .. m /\ m \in 0 .. n - 1 /\ m + 1 \in 1 .. n
    BY <1>1, <1>7
  <2>2. es[m + 1] \in S
    BY <2>1
  <2> DEFINE f == g[m]
             e == es[m + 1]
  <2>3. g[m + 1] = f \/ g[m + 1] = Append(f, e)
    BY <1>5, <2>1 DEF NextKept
  <2> HIDE DEF f, e
  <2>4. f \in Seq(S) /\ e \in S /\ Len(f) \in 0 .. m
    BY <2>1, <2>2 DEF f, e
  <2>5. Append(f, e) \in Seq(S) /\ Len(Append(f, e)) = Len(f) + 1
    BY <2>4, Appended
  <2>6. Len(f) \in 0 .. m + 1 /\ Len(f) + 1 \in 0 .. m + 1
    BY <1>7, <2>4
  <2> QED
    BY <2>3, <2>4, <2>5, <2>6
<1> HIDE DEF P
<1>8. \A m \in Nat : m \in P
  BY <1>6, <1>7, Induct
<1>9. \A i \in 0 .. n : g[i] \in Seq(S) /\ Len(g[i]) \in 0 .. i
  BY <1>1, <1>8 DEF P
<1> QED
  BY <1>3, <1>4, <1>5, <1>9 DEF KeepsBy

\* None of the last goes.
EndsAlike(es, m, f, q) ==
  /\ Len(f) = q + (Len(es) - m)
  /\ \A j \in 1 .. Len(es) - m : f[q + j] = es[m + j]

LEMMA WithoutFront ==
  ASSUME NEW S, NEW es \in Seq(S), NEW ks, NEW m \in 0 .. Len(es),
         \A i \in m + 1 .. Len(es) : es[i].key \notin ks
  PROVE  \E q \in 0 .. m : EndsAlike(es, m, Without(es, ks), q)
<1> DEFINE n == Len(es)
<1>0. PICK g : KeepsBy(S, es, ks, g)
  BY WithoutSteps
<1>1. /\ Without(es, ks) = g[n] /\ g[0] = <<>>
      /\ \A i \in 0 .. n : g[i] \in Seq(S) /\ Len(g[i]) \in 0 .. i
      /\ \A i \in 0 .. n - 1 : g[i + 1] = NextKept(es, ks, g[i], i + 1)
  BY <1>0 DEF KeepsBy
<1>2. n \in Nat /\ m \in 0 .. n
  OBVIOUS
<1> DEFINE q == Len(g[m])
           R(i) == Len(g[m + i]) = q + i /\ \A j \in 1 .. i : g[m + i][q + j] = es[m + j]
           P == {i \in Nat : m + i <= n => R(i)}
<1>3. q \in 0 .. m /\ m + 0 = m /\ q = Len(g[m])
  BY <1>1, <1>2
<1> HIDE DEF q
<1>10. q \in Nat
  BY <1>2, <1>3
<1>4. 0 \in P
  BY <1>2, <1>3
<1>5. ASSUME NEW i \in Nat, i \in P PROVE i + 1 \in P
  <2> SUFFICES ASSUME m + (i + 1) <= n PROVE R(i + 1)
    OBVIOUS
  <2>1. R(i) /\ m + i \in 0 .. n - 1 /\ m + (i + 1) = (m + i) + 1 /\ m + (i + 1) \in m + 1 .. n
    BY <1>2, <1>5
  <2> DEFINE f == g[m + i]
             e == es[m + (i + 1)]
  <2>2. g[m + (i + 1)] = Append(f, e) /\ f \in Seq(S) /\ e \in S
    <3> DEFINE a == m + i
               b == m + (i + 1)
    <3>1. es[b].key \notin ks /\ b = a + 1
      BY <2>1
    <3>2. g[a + 1] = NextKept(es, ks, g[a], a + 1)
      BY <1>1, <2>1
    <3>3. a \in 0 .. n /\ b \in 1 .. n
      BY <1>2, <2>1
    <3> HIDE DEF a, b
    <3>4. g[b] = NextKept(es, ks, g[a], b)
      BY <3>1, <3>2
    <3>5. g[b] = Append(g[a], es[b])
      BY <3>1, <3>4 DEF NextKept
    <3>6. g[a] \in Seq(S) /\ es[b] \in S
      BY <1>1, <3>3
    <3> USE DEF a, b
    <3> QED
      BY <3>5, <3>6
  <2>3. Len(f) = q + i /\ \A j \in 1 .. i : f[q + j] = es[m + j]
    BY <2>1
  <2> HIDE DEF f, e
  <2>4. /\ Len(Append(f, e)) = q + i + 1
        /\ Append(f, e)[q + i + 1] = e
        /\ \A a \in 1 .. q + i : Append(f, e)[a] = f[a]
    BY <2>2, <2>3, Appended
  <2>5. \A j \in 1 .. i + 1 : j \in 1 .. i \/ j = i + 1
    OBVIOUS
  <2>6. \A j \in 1 .. i : q + j \in 1 .. q + i
    BY <1>3
  <2>7. q + (i + 1) = q + i + 1
    BY <1>10
  <2> QED
    BY <2>2, <2>3, <2>4, <2>5, <2>6, <2>7 DEF e
<1> HIDE DEF P
<1>6. n - m \in P /\ m + (n - m) = n /\ n - m \in Nat
  BY <1>2, <1>4, <1>5, Induct
<1>7. R(n - m)
  BY <1>2, <1>6 DEF P
<1>8. Without(es, ks) = g[m + (n - m)]
  BY <1>1, <1>6
<1> HIDE DEF n
<1>9. /\ Len(Without(es, ks)) = q + (n - m)
      /\ \A j \in 1 .. n - m : Without(es, ks)[q + j] = es[m + j]
  BY <1>7, <1>8
<1> QED
  BY <1>3, <1>9 DEF n, EndsAlike

LEMMA WithoutNone ==
  ASSUME NEW S, NEW es \in Seq(S), NEW ks, \A i \in 1 .. Len(es) : es[i].key \notin ks
  PROVE  Without(es, ks) = es
<1> SUFFICES ASSUME NEW m, m = 0 PROVE Without(es, ks) = es
  OBVIOUS
<1>1. m \in 0 .. Len(es) /\ Len(es) \in Nat /\ \A i \in m + 1 .. Len(es) : es[i].key \notin ks
  OBVIOUS
<1>2. PICK q \in 0 .. m : EndsAlike(es, m, Without(es, ks), q)
  BY <1>1, WithoutFront
<1>3. Len(Without(es, ks)) = Len(es) /\ \A j \in 1 .. Len(es) : Without(es, ks)[j] = es[j]
  BY <1>1, <1>2 DEF EndsAlike
<1>4. Without(es, ks) \in Seq(S)
  BY WithoutPicks
<1> QED
  BY <1>3, <1>4, SameSequence

\* One goes.
Shifted(es, q, f) ==
  /\ Len(f) = Len(es) - 1
  /\ \A i \in 1 .. q - 1 : f[i] = es[i]
  /\ \A i \in q .. Len(es) - 1 : f[i] = es[i + 1]

LEMMA WithoutOne ==
  ASSUME NEW S, NEW es \in Seq(S), NEW ks, NEW q \in 1 .. Len(es),
         \A i \in 1 .. Len(es) : es[i].key \in ks <=> i = q
  PROVE  Shifted(es, q, Without(es, ks))
<1> DEFINE n == Len(es)
<1>0. PICK g : KeepsBy(S, es, ks, g)
  BY WithoutSteps
<1>1. /\ Without(es, ks) = g[n] /\ g[0] = <<>>
      /\ \A i \in 0 .. n : g[i] \in Seq(S) /\ Len(g[i]) \in 0 .. i
      /\ \A i \in 0 .. n - 1 : g[i + 1] = NextKept(es, ks, g[i], i + 1)
  BY <1>0 DEF KeepsBy
<1>2. n \in Nat /\ q \in 1 .. n /\ \A i \in 1 .. n : es[i].key \in ks <=> i = q
  OBVIOUS
<1> DEFINE R(i) == /\ Len(g[i]) = IF i < q THEN i ELSE i - 1
                   /\ \A j \in 1 .. i : /\ j < q => g[i][j] = es[j]
                                        /\ j > q => g[i][j - 1] = es[j]
           P == {i \in Nat : i <= n => R(i)}
<1>3. 0 \in P
  BY <1>1, <1>2
<1>4. ASSUME NEW i \in Nat, i \in P PROVE i + 1 \in P
  <2> SUFFICES ASSUME i + 1 <= n PROVE R(i + 1)
    OBVIOUS
  <2>1. R(i) /\ i \in 0 .. n /\ i \in 0 .. n - 1 /\ i + 1 \in 1 .. n
    BY <1>2, <1>4
  <2> DEFINE f == g[i]
             e == es[i + 1]
  <2>2. f \in Seq(S) /\ e \in S /\ g[i + 1] = IF i + 1 = q THEN f ELSE Append(f, e)
    BY <1>1, <1>2, <2>1 DEF NextKept
  <2>3. /\ Len(f) = IF i < q THEN i ELSE i - 1
        /\ \A j \in 1 .. i : (j < q => f[j] = es[j]) /\ (j > q => f[j - 1] = es[j])
    BY <2>1
  <2> HIDE DEF f, e
  <2>4. \A j \in 1 .. i + 1 : j \in 1 .. i \/ j = i + 1
    OBVIOUS
  <2>5. CASE i + 1 = q
    BY <1>2, <2>2, <2>3, <2>4, <2>5
  <2>6. CASE i + 1 # q
    <3>1. /\ Len(Append(f, e)) = Len(f) + 1
          /\ Append(f, e)[Len(f) + 1] = e
          /\ \A a \in 1 .. Len(f) : Append(f, e)[a] = f[a]
      BY <2>2, Appended
    <3>2. g[i + 1] = Append(f, e)
      BY <2>2, <2>6
    <3>3. Len(g[i + 1]) = IF i + 1 < q THEN i + 1 ELSE (i + 1) - 1
      BY <1>2, <2>3, <2>6, <3>1, <3>2
    <3>4. ASSUME NEW j \in 1 .. i + 1
          PROVE  (j < q => g[i + 1][j] = es[j]) /\ (j > q => g[i + 1][j - 1] = es[j])
      <4>1. CASE j \in 1 .. i
        <5>1. /\ j < q => j \in 1 .. Len(f) /\ f[j] = es[j]
              /\ j > q => j - 1 \in 1 .. Len(f) /\ f[j - 1] = es[j]
          BY <1>2, <2>3, <2>6, <4>1
        <5> QED
          BY <3>1, <3>2, <5>1
      <4>2. CASE j = i + 1
        <5>1. /\ j < q => Len(f) + 1 = j
              /\ j > q => Len(f) + 1 = j - 1
          BY <1>2, <2>3, <4>2
        <5> QED
          BY <3>1, <3>2, <4>2, <5>1 DEF e
      <4> QED
        BY <2>4, <4>1, <4>2
    <3> QED
      BY <3>3, <3>4
  <2> QED
    BY <2>5, <2>6
<1> HIDE DEF P
<1>5. n \in P
  BY <1>2, <1>3, <1>4, Induct
<1>6. R(n)
  BY <1>2, <1>5 DEF P
<1>7. \A i \in q .. n - 1 : i + 1 \in 1 .. n /\ i + 1 > q /\ (i + 1) - 1 = i
  BY <1>2
<1>8. \A i \in 1 .. q - 1 : i \in 1 .. n /\ i < q
  BY <1>2
<1>9. ~(n < q)
  BY <1>2
<1> QED
  BY <1>1, <1>6, <1>7, <1>8, <1>9 DEF Shifted

-----------------------------------------------------------------------------
(* What was put stays put.                                                 *)

\* After those of `ks` were put, which wrote `a`: what was not put is ahead of what was, and
\* nothing is missing unless the store is full of what was put last.
Ends(p, es, ks, a) ==
  /\ Len(es) < Len(a) => ~Unbounded(p) /\ Len(es) = p.max
  /\ \A i \in 1 .. Len(es) :
       IF i <= Len(es) - Len(a) THEN es[i].key \notin ks ELSE es[i] = a[i - (Len(es) - Len(a))]

WritesOf(ks, a) == (\E S : a \in Seq(S)) /\ \A j \in 1 .. Len(a) : a[j].key \in ks

LEMMA EntriesAre ==
  ASSUME NEW p, NEW es, NEW t, EntriesOK(p, es, t)
  PROVE  /\ Len(es) \in Nat /\ DOMAIN es = 1 .. Len(es)
         /\ \A i, j \in 1 .. Len(es) : es[i].key = es[j].key => i = j
         /\ \A i \in 1 .. Len(es) : es[i].key \in KeysOf(es)
         /\ \A k \in KeysOf(es) : \E i \in 1 .. Len(es) : k = es[i].key
<1>1. PICK S : es \in Seq(S)
  BY DEF EntriesOK
<1>2. Len(es) \in Nat /\ DOMAIN es = 1 .. Len(es)
  BY <1>1
<1> QED
  BY <1>2 DEF EntriesOK, KeysOf

LEMMA EndsWithout ==
  ASSUME NEW p, PolicyOK(p), NEW t \in Nat, NEW es, EntriesOK(p, es, t), NEW ks, NEW a,
         WritesOf(ks, a), Ends(p, es, ks, a), NEW gone, gone \cap ks = {}
  PROVE  Ends(p, Without(es, gone), ks \cup gone, a)
<1> DEFINE n == Len(es)
           l == Len(a)
           b == n - l
           w == Without(es, gone)
<1>1. PICK S : es \in Seq(S)
  BY DEF EntriesOK
<1>2. n \in Nat /\ l \in Nat
  BY <1>1 DEF WritesOf
<1>3. /\ \A i \in 1 .. n : i <= b => es[i].key \notin ks
      /\ \A i \in 1 .. n : ~(i <= b) => es[i] = a[i - b] /\ i - b \in 1 .. l
      /\ b < 0 => ~Unbounded(p) /\ n = p.max
  BY <1>2 DEF Ends
<1>4. \A i \in 1 .. n : ~(i <= b) => es[i].key \in ks /\ es[i].key \notin gone
  BY <1>3 DEF WritesOf
<1>5. CASE b < 0
  <2>1. \A i \in 1 .. n : ~(i <= b)
    BY <1>2, <1>5
  <2>2. w = es
    BY <1>1, <1>4, <2>1, WithoutNone
  <2> QED
    BY <1>2, <1>3, <1>5, <2>1, <2>2 DEF Ends
<1>6. CASE ~(b < 0)
  <2>1. b \in 0 .. n /\ \A i \in b + 1 .. n : i \in 1 .. n /\ ~(i <= b)
    BY <1>2, <1>6
  <2>2. PICK q \in 0 .. b : EndsAlike(es, b, w, q)
    <3> SUFFICES ASSUME NEW m, m = b PROVE \E q \in 0 .. m : EndsAlike(es, m, w, q)
      OBVIOUS
    <3>1. m \in 0 .. Len(es) /\ \A i \in m + 1 .. Len(es) : es[i].key \notin gone
      BY <1>4, <2>1
    <3> QED
      BY <1>1, <3>1, WithoutFront
  <2>3. /\ EntriesOK(p, w, t) /\ KeysOf(w) = KeysOf(es) \ gone
        /\ \A x \in DOMAIN w : \E c \in DOMAIN es : w[x] = es[c]
    BY WithoutSound
  <2> HIDE DEF w
  <2>4. /\ Len(w) = q + l /\ Len(w) - l = q /\ q \in Nat /\ b \in Nat
        /\ \A j \in 1 .. l : w[q + j] = es[b + j]
    <3>1. n \in Nat /\ l \in Nat /\ b = n - l /\ b \in 0 .. n /\ q \in 0 .. b
      BY <1>2, <2>1, <2>2
    <3>2. Len(w) = q + (n - b) /\ \A j \in 1 .. n - b : w[q + j] = es[b + j]
      BY <2>2 DEF EndsAlike
    <3> HIDE DEF n, l, b
    <3>3. n - b = l
      BY <3>1
    <3>4. Len(w) = q + l
      BY ONLY <3>2, <3>3
    <3>5. \A j \in 1 .. l : w[q + j] = es[b + j]
      BY ONLY <3>2, <3>3
    <3>6. Len(w) - l = q /\ q \in Nat /\ b \in Nat
      BY ONLY <3>1, <3>4
    <3> QED
      BY ONLY <3>4, <3>5, <3>6
  <2>5. /\ DOMAIN w = 1 .. Len(w) /\ DOMAIN es = 1 .. n
        /\ \A i \in 1 .. Len(w) : w[i].key \notin gone
        /\ \A i, j \in 1 .. Len(w) : w[i].key = w[j].key => i = j
    BY <2>3, EntriesAre
  <2>6. ASSUME NEW i \in 1 .. Len(w), i <= q PROVE w[i].key \notin ks \cup gone
    <3> SUFFICES ASSUME w[i].key \in ks PROVE FALSE
      BY <2>5
    <3>1. PICK c \in 1 .. n : w[i] = es[c]
      BY <2>3, <2>5
    <3>2. ~(c <= b)
      BY <1>3, <3>1
    <3>3. c - b \in 1 .. l /\ b + (c - b) = c
      BY <1>2, <2>4, <3>2
    <3>4. w[q + (c - b)] = es[c]
      BY <2>4, <3>3
    <3>5. q + (c - b) \in 1 .. Len(w) /\ i # q + (c - b)
      BY <2>4, <2>6, <3>3
    <3> QED
      BY <2>5, <3>1, <3>4, <3>5
  <2>7. ASSUME NEW i \in 1 .. Len(w), ~(i <= q) PROVE w[i] = a[i - q]
    <3>1. i - q \in 1 .. l /\ q + (i - q) = i
      BY <1>2, <2>4, <2>7
    <3>2. w[i] = es[b + (i - q)]
      BY <2>4, <3>1
    <3>3. b + (i - q) \in 1 .. n /\ ~(b + (i - q) <= b) /\ (b + (i - q)) - b = i - q
      BY <1>2, <2>4, <3>1
    <3> QED
      BY <1>3, <3>2, <3>3
  <2>8. ~(Len(w) < l)
    BY <1>2, <2>4
  <2> HIDE DEF l, b
  <2>9. Ends(p, w, ks \cup gone, a)
    BY <2>4, <2>6, <2>7, <2>8 DEF Ends, l
  <2> QED
    BY <2>9 DEF w
<1> QED
  BY <1>5, <1>6

\* The entries of a store that a write has made: of its size, or one less.
Trimmed(p, r, es) ==
  \/ es = r /\ (Unbounded(p) \/ Len(r) <= p.max)
  \/ /\ ~Unbounded(p) /\ Len(r) = p.max + 1 /\ Len(es) = p.max
     /\ \A i \in 1 .. Len(es) : es[i] = r[i + 1]

LEMMA SetEntries ==
  ASSUME NEW p, PolicyOK(p), p.enabled, NEW t \in Nat \ {0}, NEW s, StoreInv(p, s, t), NEW k,
         NEW v \in p.accepts
  PROVE  Trimmed(p, Rewritten(p, s.entries, k, v, t), Set(p, s, k, v, GroupOf(k), t).entries)
<1> DEFINE r == Rewritten(p, s.entries, k, v, t)
           w == [entries |-> r, index |-> s.index]
           b == Bounded(p, w)
           g == GroupOf(k)
           n == Len(r)
<1>1. Written(p, s, k, v, t) = w
  <2>1. s = [entries |-> s.entries, index |-> s.index]
    BY DEF StoreInv
  <2>2. Written(p, s, k, v, t) = [s EXCEPT !.entries = r]
    BY DEF Written, Rewritten
  <2> HIDE DEF r
  <2> QED
    BY <2>1, <2>2
<1>2. /\ EntriesOK(p, r, t)
      /\ n \in Nat /\ 0 < n /\ n <= Len(s.entries) + 1
  <2>1. EntriesOK(p, s.entries, t)
    BY DEF StoreInv
  <2> QED
    BY <2>1, RewrittenSound
<1> HIDE DEF r
<1>3. Set(p, s, k, v, g, t) = IF g = NoGroup THEN b ELSE [b EXCEPT !.index = IndexAdd(@, g, k)]
  BY <1>1 DEF Set
<1>4. p.max \in Int /\ p.max # 0 /\ (Unbounded(p) \/ Len(s.entries) <= p.max) /\ Len(s.entries) \in Nat
  <2>1. EntriesOK(p, s.entries, t)
    BY DEF StoreInv
  <2> QED
    BY <2>1, EntriesAre DEF StoreInv, PolicyOK
<1>5. w.entries = r /\ w.index = s.index
  OBVIOUS
<1> HIDE DEF w
<1>6. CASE Unbounded(p) \/ n - p.max <= 0
  <2>1. b = w
    BY <1>5, <1>6 DEF Bounded
  <2>2. w = [entries |-> r, index |-> s.index]
    BY DEF w
  <2>3. Set(p, s, k, v, g, t).entries = r
    BY <1>3, <2>1, <2>2
  <2>4. Unbounded(p) \/ n <= p.max
    BY <1>2, <1>4, <1>6
  <2> QED
    BY <2>3, <2>4 DEF Trimmed, r
<1>7. CASE ~(Unbounded(p) \/ n - p.max <= 0)
  <2>1. n = p.max + 1 /\ n - p.max = 1 /\ ~Unbounded(p) /\ p.max \in Nat \ {0}
    BY <1>2, <1>4, <1>7 DEF Unbounded
  <2> DEFINE ks == {r[i].key : i \in 1 .. n - p.max}
             es == Without(r, ks)
  <2>2. b = Evict(w, ks)
    BY <1>5, <1>7 DEF Bounded
  <2>3. b = [entries |-> es, index |-> IndexRemove(s.index, ks)]
    BY <1>5, <2>2 DEF Evict
  <2>4. Set(p, s, k, v, g, t).entries = es
    <3> HIDE DEF es, ks, b
    <3> QED
      BY <1>3, <2>3
  <2>5. ks = {r[1].key}
    BY <2>1
  <2>6. /\ \A i, j \in 1 .. n : r[i].key = r[j].key => i = j
        /\ \E S : r \in Seq(S)
    BY <1>2, EntriesAre DEF EntriesOK
  <2>7. Len(es) = n - 1 /\ \A i \in 1 .. n - 1 : es[i] = r[i + 1]
    <3>1. 1 \in 1 .. n /\ \A i \in 1 .. n : r[i].key \in ks <=> i = 1
      BY <2>1, <2>5, <2>6
    <3> SUFFICES ASSUME NEW q, q = 1, NEW out, out = ks
                 PROVE  Len(Without(r, out)) = n - 1 /\ \A i \in 1 .. n - 1 : Without(r, out)[i] = r[i + 1]
      OBVIOUS
    <3> HIDE DEF ks
    <3>2. q \in 1 .. Len(r) /\ \A i \in 1 .. Len(r) : r[i].key \in out <=> i = q
      BY <3>1
    <3>3. Shifted(r, q, Without(r, out))
      BY <2>6, <3>2, WithoutOne
    <3> QED
      BY <3>3 DEF Shifted
  <2> HIDE DEF es
  <2>8. Len(es) = p.max
    BY <2>1, <2>7
  <2> QED
    BY <2>1, <2>4, <2>7, <2>8 DEF Trimmed, r
<1> QED
  BY <1>6, <1>7

Wrote(p, w, k, t) == [key |-> k, value |-> w[k], due |-> Deadline(p, t)]

NextWrite(p, w, t, a, k) == IF w[k] \in p.accepts THEN Append(a, Wrote(p, w, k, t)) ELSE a

\* `a` is what is written of these: what the policy accepts.
Writes(p, w, t, ks, a) ==
  /\ WritesOf(ks, a)
  /\ \A j \in 1 .. Len(a) : a[j] = Wrote(p, w, a[j].key, t) /\ w[a[j].key] \in p.accepts
  /\ \A k \in ks : w[k] \in p.accepts => \E j \in 1 .. Len(a) : a[j].key = k

LEMMA WritesNext ==
  ASSUME NEW p, NEW w, NEW t, NEW ks, NEW a, Writes(p, w, t, ks, a), NEW k
  PROVE  Writes(p, w, t, ks \cup {k}, NextWrite(p, w, t, a, k))
<1>1. PICK S : a \in Seq(S)
  BY DEF Writes, WritesOf
<1>2. CASE w[k] \notin p.accepts
  BY <1>2 DEF Writes, WritesOf, NextWrite
<1>3. CASE w[k] \in p.accepts
  <2> DEFINE e == Wrote(p, w, k, t)
             b == Append(a, e)
  <2>1. e.key = k
    BY DEF Wrote
  <2>2. NextWrite(p, w, t, a, k) = b
    BY <1>3 DEF NextWrite
  <2>3. e = Wrote(p, w, k, t)
    OBVIOUS
  <2> HIDE DEF e
  <2>4. a \in Seq(S \cup {e}) /\ e \in S \cup {e}
    BY <1>1
  <2>5. /\ b \in Seq(S \cup {e}) /\ Len(a) \in Nat /\ Len(b) = Len(a) + 1
        /\ b[Len(a) + 1] = e /\ \A j \in 1 .. Len(a) : b[j] = a[j]
    BY <2>4, Appended
  <2> HIDE DEF b
  <2>6. \A j \in 1 .. Len(b) : j \in 1 .. Len(a) \/ j = Len(a) + 1
    BY <2>5
  <2>7. \A j \in 1 .. Len(a) : j \in 1 .. Len(b)
    BY <2>5
  <2>8. Len(a) + 1 \in 1 .. Len(b)
    BY <2>5
  <2>9. \A j \in 1 .. Len(b) :
          b[j].key \in ks \cup {k} /\ b[j] = Wrote(p, w, b[j].key, t) /\ w[b[j].key] \in p.accepts
    BY <1>3, <2>1, <2>3, <2>5, <2>6 DEF Writes, WritesOf
  <2>10. \A x \in ks \cup {k} : w[x] \in p.accepts => \E j \in 1 .. Len(b) : b[j].key = x
    <3>1. ASSUME NEW x \in ks, w[x] \in p.accepts PROVE \E j \in 1 .. Len(b) : b[j].key = x
      <4>1. PICK j \in 1 .. Len(a) : a[j].key = x
        BY <3>1 DEF Writes
      <4> QED
        BY <2>5, <2>7, <4>1
    <3>2. \E j \in 1 .. Len(b) : b[j].key = k
      BY <2>1, <2>5, <2>8
    <3> QED
      BY <3>1, <3>2
  <2> QED
    BY <2>2, <2>5, <2>9, <2>10 DEF Writes, WritesOf
<1> QED
  BY <1>2, <1>3

LEMMA SetEnds ==
  ASSUME NEW p, PolicyOK(p), NEW t \in Nat \ {0}, NEW s, StoreInv(p, s, t), NEW w, NEW ks, NEW a,
         Writes(p, w, t, ks, a), Ends(p, s.entries, ks, a), NEW k, k \notin ks
  PROVE  Ends(p, Set(p, s, k, w[k], GroupOf(k), t).entries, ks \cup {k}, NextWrite(p, w, t, a, k))
<1> DEFINE es == s.entries
           gone == {k}
           f == Without(es, gone)
           e == Wrote(p, w, k, t)
           b == NextWrite(p, w, t, a, k)
           fs == Set(p, s, k, w[k], GroupOf(k), t).entries
           all == ks \cup {k}
<1>0. t \in Nat /\ EntriesOK(p, es, t) /\ gone = {k} /\ all = ks \cup gone /\ gone \cap ks = {}
  BY DEF StoreInv
<1>1. Writes(p, w, t, all, b)
  BY WritesNext
<1>2. WritesOf(ks, a)
  BY DEF Writes
<1>3. PICK S : a \in Seq(S)
  BY <1>2 DEF WritesOf
<1>4. Len(a) \in Nat
  BY <1>3
<1> HIDE DEF gone
<1>5. Ends(p, f, ks \cup gone, a) /\ EntriesOK(p, f, t)
  BY <1>0, <1>2, EndsWithout, WithoutSound
<1>6. Ends(p, f, all, a)
  BY <1>0, <1>5
<1>7. CASE ~p.enabled
  <2>1. fs = <<>>
    BY <1>7 DEF Set, StoreInv, EmptyStore
  <2>2. Len(fs) = 0 /\ p.max = 0
    BY <1>7, <2>1 DEF PolicyOK
  <2>3. \E T : b \in Seq(T)
    BY <1>1 DEF Writes, WritesOf
  <2> HIDE DEF fs, b, all
  <2>4. Len(b) \in Nat
    BY <2>3
  <2>5. ~Unbounded(p)
    BY <2>2 DEF Unbounded
  <2>6. Ends(p, fs, all, b)
    BY <2>2, <2>4, <2>5 DEF Ends
  <2> QED
    BY <2>6 DEF fs, b, all
<1>8. CASE p.enabled /\ w[k] \notin p.accepts
  <2>1. fs = f /\ b = a
    BY <1>8, <1>0 DEF Set, Evict, NextWrite
  <2> QED
    BY <1>6, <2>1
<1>9. CASE p.enabled /\ w[k] \in p.accepts
  <2> DEFINE r == Append(f, e)
  <2>1. r = Rewritten(p, es, k, w[k], t)
    BY <1>0 DEF Rewritten, Wrote
  <2>2. Trimmed(p, r, fs)
    <3> DEFINE v == w[k]
    <3>1. v \in p.accepts
      BY <1>9
    <3> HIDE DEF v, r
    <3>2. Trimmed(p, Rewritten(p, es, k, v, t), Set(p, s, k, v, GroupOf(k), t).entries)
      BY <1>9, <3>1, SetEntries
    <3> QED
      BY <2>1, <3>2 DEF v
  <2>3. b = Append(a, e)
    BY <1>9 DEF NextWrite
  <2>4. PICK T : f \in Seq(T)
    BY <1>5 DEF EntriesOK
  <2> HIDE DEF e, f, fs
  <2>5. f \in Seq(T \cup {e}) /\ e \in T \cup {e} /\ a \in Seq(S \cup {e}) /\ e \in S \cup {e}
    BY <1>3, <2>4
  <2>6. /\ Len(f) \in Nat /\ Len(r) = Len(f) + 1 /\ r[Len(f) + 1] = e
        /\ \A i \in 1 .. Len(f) : r[i] = f[i]
    BY <2>5, Appended
  <2>7. /\ Len(b) = Len(a) + 1 /\ b[Len(a) + 1] = e
        /\ \A i \in 1 .. Len(a) : b[i] = a[i]
    BY <2>3, <2>5, Appended
  <2> HIDE DEF r, b, all
  <2> DEFINE c == Len(f) - Len(a)
  <2>8. /\ Len(f) < Len(a) => ~Unbounded(p) /\ Len(f) = p.max
        /\ \A i \in 1 .. Len(f) : IF i <= c THEN f[i].key \notin all ELSE f[i] = a[i - c]
    BY <1>6 DEF Ends
  <2>9. Len(r) - Len(b) = c
    BY <1>4, <2>6, <2>7
  <2>10. ASSUME NEW i \in 1 .. Len(r)
         PROVE  IF i <= c THEN r[i].key \notin all ELSE r[i] = b[i - c]
    <3>1. CASE i \in 1 .. Len(f)
      <4>1. r[i] = f[i]
        BY <2>6, <3>1
      <4>2. ~(i <= c) => i - c \in 1 .. Len(a)
        BY <1>4, <2>6, <3>1
      <4>3. ~(i <= c) => b[i - c] = a[i - c]
        BY <2>7, <4>2
      <4> HIDE DEF c
      <4> QED
        BY <2>8, <3>1, <4>1, <4>3
    <3>2. CASE i = Len(f) + 1
      <4>1. i - c = Len(a) + 1 /\ ~(i <= c)
        BY <1>4, <2>6, <3>2
      <4> QED
        BY <2>6, <2>7, <3>2, <4>1
    <3> QED
      BY <2>6, <3>1, <3>2
  <2> HIDE DEF c
  <2>11. CASE fs = r /\ (Unbounded(p) \/ Len(r) <= p.max)
    <3>1. ~(Len(r) < Len(b))
      <4> SUFFICES ASSUME Len(r) < Len(b) PROVE FALSE
        OBVIOUS
      <4>1. Len(f) < Len(a)
        BY <1>4, <2>6, <2>7
      <4>2. ~Unbounded(p) /\ Len(f) = p.max
        BY <2>8, <4>1
      <4> QED
        BY <2>6, <2>11, <4>2
    <3>2. Ends(p, fs, all, b)
      BY <2>9, <2>10, <2>11, <3>1 DEF Ends
    <3> QED
      BY <3>2 DEF fs, all, b
  <2>12. CASE /\ ~Unbounded(p) /\ Len(r) = p.max + 1 /\ Len(fs) = p.max
              /\ \A i \in 1 .. Len(fs) : fs[i] = r[i + 1]
    <3>1. Len(fs) = Len(f) /\ Len(fs) - Len(b) = c - 1 /\ c \in Int
      <4> USE DEF c
      <4>0. p.max = Len(f)
        BY <2>6, <2>12 DEF PolicyOK
      <4> QED
        BY <1>4, <2>6, <2>7, <2>12, <4>0
    <3>2. ASSUME NEW i \in 1 .. Len(fs)
          PROVE  IF i <= c - 1 THEN fs[i].key \notin all ELSE fs[i] = b[i - (c - 1)]
      <4>1. i + 1 \in 1 .. Len(r) /\ (i <= c - 1 <=> i + 1 <= c) /\ (i + 1) - c = i - (c - 1)
        BY <2>6, <3>1
      <4> QED
        BY <2>10, <2>12, <4>1
    <3>3. Ends(p, fs, all, b)
      BY <2>12, <3>1, <3>2 DEF Ends
    <3> QED
      BY <3>3 DEF fs, all, b
  <2> QED
    BY <2>2, <2>11, <2>12 DEF Trimmed
<1> QED
  BY <1>7, <1>8, <1>9

LEMMA WithoutFrom ==
  ASSUME NEW p, PolicyOK(p), NEW t \in Nat, NEW es, EntriesOK(p, es, t), NEW ks
  PROVE  /\ EntriesOK(p, Without(es, ks), t)
         /\ \A i \in 1 .. Len(Without(es, ks)) : \E j \in 1 .. Len(es) : Without(es, ks)[i] = es[j]
<1> DEFINE f == Without(es, ks)
<1>1. EntriesOK(p, f, t) /\ \A i \in DOMAIN f : \E j \in DOMAIN es : f[i] = es[j]
  BY WithoutSound
<1> HIDE DEF f
<1>2. \A i \in 1 .. Len(f) : \E j \in 1 .. Len(es) : f[i] = es[j]
  BY <1>1, EntriesAre
<1> QED
  BY <1>1, <1>2 DEF f

\* What a store holds is what it held or was written of these.
Gains(p, es, fs, w, t, ks) ==
  \A i \in 1 .. Len(fs) :
    \/ \E j \in 1 .. Len(es) : fs[i] = es[j]
    \/ \E k \in ks : fs[i] = Wrote(p, w, k, t) /\ w[k] \in p.accepts

LEMMA SetFrom ==
  ASSUME NEW p, PolicyOK(p), NEW t \in Nat \ {0}, NEW s, StoreInv(p, s, t), NEW w, NEW k
  PROVE  Gains(p, s.entries, Set(p, s, k, w[k], GroupOf(k), t).entries, w, t, {k})
<1> SUFFICES \A i \in 1 .. Len(Set(p, s, k, w[k], GroupOf(k), t).entries) :
      \/ \E j \in 1 .. Len(s.entries) : Set(p, s, k, w[k], GroupOf(k), t).entries[i] = s.entries[j]
      \/ Set(p, s, k, w[k], GroupOf(k), t).entries[i] = Wrote(p, w, k, t) /\ w[k] \in p.accepts
  BY DEF Gains
<1> DEFINE es == s.entries
           gone == {k}
           f == Without(es, gone)
           fs == Set(p, s, k, w[k], GroupOf(k), t).entries
           e == Wrote(p, w, k, t)
<1>0. t \in Nat /\ EntriesOK(p, es, t) /\ gone = {k}
  BY DEF StoreInv
<1> HIDE DEF gone
<1>1. EntriesOK(p, f, t)
  BY <1>0, WithoutFrom
<1>2. \A i \in 1 .. Len(f) : \E j \in 1 .. Len(es) : f[i] = es[j]
  BY <1>0, WithoutFrom
<1> HIDE DEF f
<1>3. CASE ~p.enabled
  BY <1>3 DEF Set
<1>4. CASE p.enabled /\ w[k] \notin p.accepts
  <2>1. fs = f
    BY <1>0, <1>4 DEF Set, Evict, f
  <2> QED
    BY <1>2, <2>1
<1>5. CASE p.enabled /\ w[k] \in p.accepts
  <2> DEFINE r == Append(f, e)
  <2>1. r = Rewritten(p, es, k, w[k], t)
    BY <1>0 DEF Rewritten, Wrote, f
  <2>2. Trimmed(p, r, fs)
    <3> DEFINE v == w[k]
    <3>1. v \in p.accepts
      BY <1>5
    <3> HIDE DEF v, r
    <3>2. Trimmed(p, Rewritten(p, es, k, v, t), Set(p, s, k, v, GroupOf(k), t).entries)
      BY <1>5, <3>1, SetEntries
    <3> QED
      BY <2>1, <3>2 DEF v
  <2>3. PICK T : f \in Seq(T)
    BY <1>1 DEF EntriesOK
  <2> HIDE DEF e, fs
  <2>4. f \in Seq(T \cup {e}) /\ e \in T \cup {e}
    BY <2>3
  <2>5. /\ Len(f) \in Nat /\ Len(r) = Len(f) + 1 /\ r[Len(f) + 1] = e
        /\ \A i \in 1 .. Len(f) : r[i] = f[i]
    BY <2>4, Appended
  <2> HIDE DEF r
  <2>6. \A i \in 1 .. Len(r) : r[i] = e \/ \E j \in 1 .. Len(es) : r[i] = es[j]
    <3>1. \A i \in 1 .. Len(r) : i \in 1 .. Len(f) \/ i = Len(f) + 1
      BY <2>5
    <3> QED
      BY <1>2, <2>5, <3>1
  <2>7. \A i \in 1 .. Len(fs) : \E j \in 1 .. Len(r) : fs[i] = r[j]
    <3>1. CASE fs = r
      BY <3>1
    <3>2. CASE Len(r) = p.max + 1 /\ Len(fs) = p.max /\ \A i \in 1 .. Len(fs) : fs[i] = r[i + 1]
      <4>1. \A i \in 1 .. Len(fs) : i + 1 \in 1 .. Len(r)
        BY <2>5, <3>2 DEF PolicyOK
      <4> QED
        BY <3>2, <4>1
    <3> QED
      BY <2>2, <3>1, <3>2 DEF Trimmed
  <2>8. \A i \in 1 .. Len(fs) : fs[i] = e \/ \E j \in 1 .. Len(es) : fs[i] = es[j]
    BY <2>6, <2>7
  <2> QED
    BY <1>5, <2>8 DEF fs, e
<1> QED
  BY <1>3, <1>4, <1>5

\* A write of what is there, behind the first m, which stay.
AsLong(es, m, f) ==
  Len(f) = Len(es) /\ KeysOf(f) = KeysOf(es) /\ \A i \in 1 .. m : f[i] = es[i]

LEMMA SetAgain ==
  ASSUME NEW p, PolicyOK(p), NEW t \in Nat \ {0}, NEW s, StoreInv(p, s, t), NEW k, NEW v,
         p.enabled, v \in p.accepts <=> k \in KeysOf(s.entries),
         NEW m \in 0 .. Len(s.entries), \A i \in 1 .. m : s.entries[i].key # k
  PROVE  AsLong(s.entries, m, Set(p, s, k, v, GroupOf(k), t).entries)
<1> DEFINE es == s.entries
           gone == {k}
           f == Without(es, gone)
           fs == Set(p, s, k, v, GroupOf(k), t).entries
           n == Len(es)
<1>0. t \in Nat /\ EntriesOK(p, es, t) /\ gone = {k} /\ (Unbounded(p) \/ n <= p.max)
  BY DEF StoreInv
<1>1. /\ n \in Nat /\ \A i, j \in 1 .. n : es[i].key = es[j].key => i = j
      /\ \A x \in KeysOf(es) : \E i \in 1 .. n : x = es[i].key
      /\ \A i \in 1 .. n : es[i].key \in KeysOf(es)
  BY <1>0, EntriesAre
<1>2. PICK S : es \in Seq(S)
  BY <1>0 DEF EntriesOK
<1>3. CASE v \notin p.accepts
  <2>1. fs = Without(es, {k})
    BY <1>3 DEF Set, Evict
  <2>2. \A i \in 1 .. n : es[i].key \notin gone
    <3>1. k \notin KeysOf(es) /\ gone = {k} /\ \A i \in 1 .. n : es[i].key \in KeysOf(es)
      BY <1>1, <1>3
    <3> HIDE DEF es, n, gone
    <3> QED
      BY <3>1
  <2> HIDE DEF gone
  <2>3. Without(es, gone) = es
    BY <1>2, <2>2, WithoutNone
  <2> QED
    BY <1>0, <2>1, <2>3 DEF AsLong
<1>4. CASE v \in p.accepts
  <2>1. PICK q \in 1 .. n : es[q].key = k
    BY <1>1, <1>4
  <2>2. \A i \in 1 .. n : es[i].key \in gone <=> i = q
    BY <1>0, <1>1, <2>1
  <2>3. q > m
    BY <1>1, <2>1
  <2> HIDE DEF gone
  <2>4. Shifted(es, q, f)
    BY <1>2, <2>2, WithoutOne
  <2>5. EntriesOK(p, f, t)
    BY <1>0, WithoutSound
  <2> DEFINE e == [key |-> k, value |-> v, due |-> Deadline(p, t)]
             r == Append(f, e)
  <2>6. r = Rewritten(p, es, k, v, t)
    BY <1>0 DEF Rewritten
  <2>7. Trimmed(p, r, fs)
    <3> HIDE DEF r
    <3> QED
      BY <1>4, <2>6, SetEntries
  <2>8. PICK T : f \in Seq(T)
    BY <2>5 DEF EntriesOK
  <2> HIDE DEF f, e, fs
  <2>9. f \in Seq(T \cup {e}) /\ e \in T \cup {e}
    BY <2>8
  <2>10. /\ Len(f) \in Nat /\ Len(r) = Len(f) + 1
         /\ \A i \in 1 .. Len(f) : r[i] = f[i]
    BY <2>9, Appended
  <2>11. KeysOf(r) = KeysOf(es) \cup {k}
    BY <1>0, <2>6, RewrittenSound
  <2> HIDE DEF r, n
  <2>12. Len(f) = n - 1 /\ \A i \in 1 .. q - 1 : f[i] = es[i]
    BY <2>4 DEF Shifted, n
  <2>13. Len(r) = n /\ \A i \in 1 .. m : i \in 1 .. q - 1 /\ i \in 1 .. Len(f)
    BY <1>1, <2>1, <2>3, <2>10, <2>12 DEF n
  <2>14. fs = r
    <3> SUFFICES ASSUME ~Unbounded(p), Len(r) = p.max + 1 PROVE FALSE
      BY <2>7 DEF Trimmed
    <3>1. n <= p.max /\ p.max \in Int
      BY <1>0 DEF PolicyOK
    <3> QED
      BY <1>1, <2>13, <3>1
  <2>15. KeysOf(r) = KeysOf(es)
    BY <1>4, <2>11
  <2> QED
    BY <2>10, <2>12, <2>13, <2>14, <2>15 DEF AsLong, n, fs
<1> QED
  BY <1>3, <1>4

\* What is written of several, in the order they are put.
WrittenBy(p, w, t, g, s) ==
  IF s = {} THEN <<>> ELSE NextWrite(p, w, t, g[s \ {Chosen(s)}], Chosen(s))

AllWritten(p, w, ks, t) == (CHOOSE g : g = [s \in SUBSET ks |-> WrittenBy(p, w, t, g, s)])[ks]

LEMMA WritesExist ==
  ASSUME NEW p, NEW w, NEW ks, IsFiniteSet(ks), NEW t
  PROVE  \E g : g = [s \in SUBSET ks |-> WrittenBy(p, w, t, g, s)]
<1> DEFINE P == {n \in Nat : \E g : g = [s \in Few(ks, n) |-> WrittenBy(p, w, t, g, s)]}
<1>1. 0 \in P
  <2> DEFINE g == [s \in Few(ks, 0) |-> <<>>]
  <2>1. \A s \in Few(ks, 0) : WrittenBy(p, w, t, g, s) = <<>>
    BY FewOfThem DEF WrittenBy
  <2>2. g = [s \in Few(ks, 0) |-> WrittenBy(p, w, t, g, s)]
    <3> DEFINE V(s) == WrittenBy(p, w, t, g, s)
    <3>1. \A s \in Few(ks, 0) : V(s) = <<>>
      BY <2>1
    <3> HIDE DEF V
    <3>2. g = [s \in Few(ks, 0) |-> V(s)]
      BY <3>1
    <3> QED
      BY <3>2 DEF V
  <2> HIDE DEF g
  <2> QED
    BY <2>2
<1>2. ASSUME NEW n \in Nat, n \in P PROVE n + 1 \in P
  <2>1. PICK g : g = [s \in Few(ks, n) |-> WrittenBy(p, w, t, g, s)]
    BY <1>2
  <2> DEFINE V(s) == WrittenBy(p, w, t, g, s)
             h == [s \in Few(ks, n + 1) |-> V(s)]
             U(s) == WrittenBy(p, w, t, h, s)
  <2>2. ASSUME NEW s \in Few(ks, n) PROVE h[s] = g[s]
    <3>1. g[s] = V(s)
      BY <2>1
    <3>2. s \in Few(ks, n + 1)
      BY FewOfThem
    <3> QED
      BY <3>1, <3>2
  <2>3. ASSUME NEW s \in Few(ks, n + 1) PROVE V(s) = U(s)
    <3>1. CASE s = {}
      BY <3>1 DEF WrittenBy
    <3>2. CASE s # {}
      <4>1. s \ {Chosen(s)} \in Few(ks, n)
        BY <3>2, FewOfThem
      <4>2. h[s \ {Chosen(s)}] = g[s \ {Chosen(s)}]
        BY <2>2, <4>1
      <4> HIDE DEF h
      <4> QED
        BY <4>2 DEF WrittenBy
    <3> QED
      BY <3>1, <3>2
  <2>4. h = [s \in Few(ks, n + 1) |-> U(s)]
    <3> HIDE DEF U, V
    <3> QED
      BY <2>3
  <2> HIDE DEF h
  <2> QED
    BY <2>4
<1> HIDE DEF P
<1>3. Cardinality(ks) \in P
  BY <1>1, <1>2, FewOfThem, Induct
<1> QED
  BY <1>3, FewOfThem DEF P

\* From c to e nothing changed but this store.
Only(c, e, scope) ==
  /\ e.policy = c.policy /\ e.self = c.self
  /\ \A x \in Scopes : x # scope => e.stores[x] = c.stores[x]

LEMMA OnlyStore ==
  ASSUME NEW c, NEW t, CacheInv(c, t), NEW scope \in Scopes, NEW s
  PROVE  Only(c, OnStore(c, scope, s), scope) /\ OnStore(c, scope, s).stores[scope] = s
<1> DEFINE old == c.stores
           new == [old EXCEPT ![scope] = s]
<1>1. c = [policy |-> c.policy, stores |-> old, self |-> c.self]
  BY DEF CacheInv
<1>2. old = [x \in Scopes |-> old[x]]
  BY DEF CacheInv
<1>3. OnStore(c, scope, s) = [c EXCEPT !.stores = new]
  BY DEF OnStore
<1> HIDE DEF new
<1>4. OnStore(c, scope, s) = [policy |-> c.policy, stores |-> new, self |-> c.self]
  BY <1>1, <1>3
<1>5. new[scope] = s /\ \A x \in Scopes : x # scope => new[x] = old[x]
  BY <1>2 DEF new
<1> QED
  BY <1>4, <1>5 DEF Only

LEMMA OnlyThen ==
  ASSUME NEW c, NEW e, NEW f, NEW scope, Only(c, e, scope), Only(e, f, scope)
  PROVE  Only(c, f, scope)
  BY DEF Only

\* These were put and would be as they are if they were put again.
Stays(c, scope, w, ks, t) ==
  Ends(Policies[c.policy][scope], c.stores[scope].entries, ks,
       AllWritten(Policies[c.policy][scope], w, ks, t))

\* One more is put, of which a is written so far.
LEMMA PutNext ==
  ASSUME NEW c, NEW t \in Nat \ {0}, CacheInv(c, t), NEW k, NEW scope \in Scopes, Scope[k] = scope,
         NEW p, p = Policies[c.policy][scope], NEW w, NEW ks, NEW a, Writes(p, w, t, ks, a),
         Ends(p, c.stores[scope].entries, ks, a), k \notin ks
  PROVE  LET e == Put(c, k, w[k], t)
         IN /\ CacheInv(e, t) /\ Only(c, e, scope)
            /\ Ends(p, e.stores[scope].entries, ks \cup {k}, NextWrite(p, w, t, a, k))
            /\ Gains(p, c.stores[scope].entries, e.stores[scope].entries, w, t, {k})
<1> DEFINE e == Put(c, k, w[k], t)
           s == c.stores[scope]
           r == Set(p, s, k, w[k], GroupOf(k), t)
<1>1. CacheInv(e, t)
  BY PutSound
<1>2. e = OnStore(c, scope, r)
  BY DEF Put
<1>3. Only(c, e, scope) /\ e.stores[scope] = r
  BY <1>2, OnlyStore
<1>4. PolicyOK(p) /\ StoreInv(p, s, t)
  BY PolicyType DEF CacheInv
<1>5. Ends(p, r.entries, ks \cup {k}, NextWrite(p, w, t, a, k))
  BY <1>4, SetEnds
<1>6. Gains(p, s.entries, r.entries, w, t, {k})
  BY <1>4, SetFrom
<1> HIDE DEF r, e
<1> QED
  BY <1>1, <1>3, <1>5, <1>6 DEF e

LEMMA GainsThen ==
  ASSUME NEW p, NEW es, NEW fs, NEW gs, NEW w, NEW t, NEW ks, NEW k \in ks, NEW ls, ls \subseteq ks,
         Gains(p, es, fs, w, t, ls), Gains(p, fs, gs, w, t, {k})
  PROVE  Gains(p, es, gs, w, t, ks)
  BY DEF Gains

\* Several of a scope.
LEMMA PutAllStays ==
  ASSUME NEW c, NEW t \in Nat \ {0}, CacheInv(c, t), NEW scope \in Scopes, NEW w,
         NEW ks, IsFiniteSet(ks), \A k \in ks : Scope[k] = scope
  PROVE  LET e == PutAll(c, w, ks, t)
             p == Policies[c.policy][scope]
         IN /\ CacheInv(e, t) /\ Only(c, e, scope) /\ Stays(e, scope, w, ks, t)
            /\ Writes(p, w, t, ks, AllWritten(p, w, ks, t))
            /\ Gains(p, c.stores[scope].entries, e.stores[scope].entries, w, t, ks)
<1> DEFINE p == Policies[c.policy][scope]
           es == c.stores[scope].entries
           g == CHOOSE x : x = [s \in SUBSET ks |-> AfterPuts(c, w, t, x, s)]
           h == CHOOSE x : x = [s \in SUBSET ks |-> WrittenBy(p, w, t, x, s)]
           R(s) == /\ CacheInv(g[s], t) /\ Only(c, g[s], scope)
                   /\ Writes(p, w, t, s, h[s]) /\ Ends(p, g[s].stores[scope].entries, s, h[s])
                   /\ Gains(p, es, g[s].stores[scope].entries, w, t, s)
           P == {n \in Nat : \A s \in Few(ks, n) : R(s)}
<1>0. p = Policies[c.policy][scope] /\ es = c.stores[scope].entries
  OBVIOUS
<1> HIDE DEF p, es
<1>1. g = [s \in SUBSET ks |-> AfterPuts(c, w, t, g, s)] /\ h = [s \in SUBSET ks |-> WrittenBy(p, w, t, h, s)]
  BY PutsExist, WritesExist
<1>2. PutAll(c, w, ks, t) = g[ks] /\ AllWritten(p, w, ks, t) = h[ks]
  BY PutAllDef DEF AllWritten
<1> HIDE DEF g, h
<1>3. \A s \in SUBSET ks : g[s] = AfterPuts(c, w, t, g, s) /\ h[s] = WrittenBy(p, w, t, h, s)
  BY <1>1
<1>4. \A n : \A s \in Few(ks, n) : s \in SUBSET ks
  BY DEF Few
<1>5. R({})
  <2>1. {} \in SUBSET ks
    OBVIOUS
  <2>2. g[{}] = c /\ h[{}] = <<>>
    BY <1>3, <2>1 DEF AfterPuts, WrittenBy
  <2>3. PolicyOK(p) /\ StoreInv(p, c.stores[scope], t)
    BY <1>0, PolicyType DEF CacheInv
  <2>4. Len(es) \in Nat
    BY <1>0, <2>3, EntriesAre DEF StoreInv
  <2>5. <<>> \in Seq({}) /\ Len(<<>>) = 0
    OBVIOUS
  <2>6. Writes(p, w, t, {}, <<>>)
    BY <2>5 DEF Writes, WritesOf
  <2>7. Ends(p, es, {}, <<>>)
    <3>1. ~(Len(es) < Len(<<>>))
      BY <2>4, <2>5
    <3>2. \A i \in 1 .. Len(es) : i <= Len(es) - Len(<<>>)
      BY <2>4, <2>5
    <3> QED
      BY <3>1, <3>2 DEF Ends
  <2>8. Only(c, c, scope) /\ Gains(p, es, es, w, t, {})
    BY DEF Only, Gains
  <2> QED
    BY <1>0, <2>2, <2>6, <2>7, <2>8
<1>6. 0 \in P
  <2>1. \A s \in Few(ks, 0) : s = {}
    BY FewOfThem
  <2> HIDE DEF R
  <2> QED
    BY <1>5, <2>1
<1>7. ASSUME NEW n \in Nat, n \in P PROVE n + 1 \in P
  <2>1. ASSUME NEW s \in Few(ks, n + 1) PROVE R(s)
    <3>1. s \in SUBSET ks
      BY <1>4
    <3>2. CASE s = {}
      <4> HIDE DEF R
      <4> QED
        BY <1>5, <3>2
    <3>3. CASE s # {}
      <4> DEFINE k == Chosen(s)
                 ls == s \ {k}
                 e == g[ls]
                 a == h[ls]
      <4>1. k \in s /\ ls \in Few(ks, n)
        BY <3>3, FewOfThem
      <4>2. k \in ks /\ k \notin ls /\ s = ls \cup {k} /\ ls \subseteq s
        BY <3>1, <4>1
      <4>3. R(ls)
        <5> HIDE DEF R, ls
        <5> QED
          BY <1>7, <4>1
      <4>4. g[s] = Put(e, k, w[k], t) /\ h[s] = NextWrite(p, w, t, a, k)
        BY <1>3, <3>1, <3>3 DEF AfterPuts, WrittenBy
      <4> HIDE DEF ls, k, a
      <4>5. /\ CacheInv(e, t) /\ Only(c, e, scope)
            /\ Writes(p, w, t, ls, a) /\ Ends(p, e.stores[scope].entries, ls, a)
            /\ Gains(p, es, e.stores[scope].entries, w, t, ls)
        BY <4>3 DEF a
      <4> HIDE DEF e
      <4>6. Scope[k] = scope /\ p = Policies[e.policy][scope]
        BY <1>0, <4>2, <4>5 DEF Only
      <4> DEFINE f == Put(e, k, w[k], t)
      <4>7. /\ CacheInv(f, t) /\ Only(e, f, scope)
            /\ Ends(p, f.stores[scope].entries, ls \cup {k}, NextWrite(p, w, t, a, k))
            /\ Gains(p, e.stores[scope].entries, f.stores[scope].entries, w, t, {k})
        BY <4>2, <4>5, <4>6, PutNext
      <4> HIDE DEF f
      <4>8. Writes(p, w, t, ls \cup {k}, NextWrite(p, w, t, a, k))
        BY <4>5, WritesNext
      <4>9. Gains(p, es, f.stores[scope].entries, w, t, s)
        BY <4>1, <4>2, <4>5, <4>7, GainsThen
      <4>10. Only(c, f, scope)
        BY <4>5, <4>7, OnlyThen
      <4> QED
        BY <4>2, <4>4, <4>7, <4>8, <4>9, <4>10 DEF f
    <3> QED
      BY <3>2, <3>3
  <2> HIDE DEF R
  <2> QED
    BY <2>1
<1> HIDE DEF P
<1>8. Cardinality(ks) \in P
  BY <1>6, <1>7, FewOfThem, Induct
<1>9. ks \in Few(ks, Cardinality(ks))
  BY FewOfThem
<1> HIDE DEF R
<1>10. R(ks)
  BY <1>8, <1>9 DEF P
<1> USE DEF R
<1>11. Policies[g[ks].policy][scope] = p
  BY <1>0, <1>10 DEF Only
<1> QED
  BY <1>0, <1>2, <1>10, <1>11 DEF Stays

LEMMA PutAllAgain ==
  ASSUME NEW c, NEW t \in Nat \ {0}, CacheInv(c, t), NEW scope \in Scopes, NEW w,
         NEW ks, IsFiniteSet(ks), \A k \in ks : Scope[k] = scope, NEW p, p = Policies[c.policy][scope],
         p.enabled, NEW es, es = c.stores[scope].entries,
         NEW m \in 0 .. Len(es), \A i \in 1 .. m : es[i].key \notin ks,
         \A k \in ks : w[k] \in p.accepts <=> k \in KeysOf(es)
  PROVE  AsLong(es, m, PutAll(c, w, ks, t).stores[scope].entries)
<1> DEFINE g == CHOOSE x : x = [s \in SUBSET ks |-> AfterPuts(c, w, t, x, s)]
           R(s) == /\ CacheInv(g[s], t) /\ Only(c, g[s], scope)
                   /\ AsLong(es, m, g[s].stores[scope].entries)
           P == {n \in Nat : \A s \in Few(ks, n) : R(s)}
<1>1. g = [s \in SUBSET ks |-> AfterPuts(c, w, t, g, s)]
  BY PutsExist
<1>2. PutAll(c, w, ks, t) = g[ks]
  BY PutAllDef
<1> HIDE DEF g
<1>3. \A s \in SUBSET ks : g[s] = AfterPuts(c, w, t, g, s)
  BY <1>1
<1>4. \A n : \A s \in Few(ks, n) : s \in SUBSET ks
  BY DEF Few
<1>5. R({})
  <2>1. {} \in SUBSET ks
    OBVIOUS
  <2>2. g[{}] = c
    BY <1>3, <2>1 DEF AfterPuts
  <2> QED
    BY <2>2 DEF Only, AsLong
<1>6. 0 \in P
  <2>1. \A s \in Few(ks, 0) : s = {}
    BY FewOfThem
  <2> HIDE DEF R
  <2> QED
    BY <1>5, <2>1
<1>7. ASSUME NEW n \in Nat, n \in P PROVE n + 1 \in P
  <2>1. ASSUME NEW s \in Few(ks, n + 1) PROVE R(s)
    <3>1. s \in SUBSET ks
      BY <1>4
    <3>2. CASE s = {}
      <4> HIDE DEF R
      <4> QED
        BY <1>5, <3>2
    <3>3. CASE s # {}
      <4> DEFINE k == Chosen(s)
                 ls == s \ {k}
                 e == g[ls]
      <4>1. k \in s /\ ls \in Few(ks, n)
        BY <3>3, FewOfThem
      <4>2. k \in ks
        BY <3>1, <4>1
      <4>3. R(ls)
        <5> HIDE DEF R, ls
        <5> QED
          BY <1>7, <4>1
      <4>4. g[s] = Put(e, k, w[k], t)
        BY <1>3, <3>1, <3>3 DEF AfterPuts
      <4> HIDE DEF ls, k
      <4>5. /\ CacheInv(e, t) /\ Only(c, e, scope)
            /\ AsLong(es, m, e.stores[scope].entries)
        BY <4>3
      <4> HIDE DEF e
      <4> DEFINE v == w[k]
                 s1 == e.stores[scope]
                 r == Set(p, s1, k, v, GroupOf(k), t)
                 f == Put(e, k, v, t)
      <4>6. Scope[k] = scope /\ p = Policies[e.policy][scope]
        BY <4>2, <4>5 DEF Only
      <4>7. f = OnStore(e, scope, r)
        BY <4>6 DEF Put
      <4>8. Only(e, f, scope) /\ f.stores[scope] = r
        BY <4>5, <4>7, OnlyStore
      <4>9. CacheInv(f, t)
        BY <4>5, PutSound
      <4>10. PolicyOK(p) /\ StoreInv(p, s1, t)
        <5>1. PolicyOK(Policies[e.policy][scope]) /\ StoreInv(Policies[e.policy][scope], e.stores[scope], t)
          BY <4>5, PolicyType DEF CacheInv
        <5> QED
          BY <4>6, <5>1
      <4>11. /\ v \in p.accepts <=> k \in KeysOf(s1.entries)
             /\ m \in 0 .. Len(s1.entries) /\ \A i \in 1 .. m : s1.entries[i].key # k
        BY <4>2, <4>5 DEF AsLong
      <4> HIDE DEF v, s1
      <4>12. AsLong(s1.entries, m, r.entries)
        BY <4>10, <4>11, SetAgain
      <4> HIDE DEF r, f
      <4>13. AsLong(es, m, r.entries)
        BY <4>5, <4>12 DEF AsLong, s1
      <4>14. Only(c, f, scope)
        BY <4>5, <4>8, OnlyThen
      <4> QED
        BY <4>4, <4>8, <4>9, <4>13, <4>14 DEF f, v
    <3> QED
      BY <3>2, <3>3
  <2> HIDE DEF R
  <2> QED
    BY <2>1
<1> HIDE DEF P
<1>8. Cardinality(ks) \in P
  BY <1>6, <1>7, FewOfThem, Induct
<1>9. ks \in Few(ks, Cardinality(ks))
  BY FewOfThem
<1> HIDE DEF R
<1>10. R(ks)
  BY <1>8, <1>9 DEF P
<1> QED
  BY <1>2, <1>10 DEF R

\* The entries make the store, and the stores the cache.
LEMMA SameStore ==
  ASSUME NEW p, NEW t, NEW s, StoreInv(p, s, t), NEW r, StoreInv(p, r, t), r.entries = s.entries
  PROVE  r = s
  BY DEF StoreInv

LEMMA SameCache ==
  ASSUME NEW c, NEW t, CacheInv(c, t), NEW e, CacheInv(e, t), NEW scope \in Scopes,
         Only(c, e, scope), e.stores[scope] = c.stores[scope]
  PROVE  e = c
<1>1. \A x \in Scopes : e.stores[x] = c.stores[x]
  BY DEF Only
<1>2. e.stores = c.stores
  <2>1. e.stores = [x \in Scopes |-> e.stores[x]] /\ c.stores = [x \in Scopes |-> c.stores[x]]
    BY DEF CacheInv
  <2> QED
    BY <1>1, <2>1
<1> QED
  BY <1>2 DEF CacheInv, Only

LEMMA PutAgain ==
  ASSUME NEW c, NEW t \in Nat \ {0}, CacheInv(c, t), NEW scope \in Scopes, NEW w,
         NEW ks, IsFiniteSet(ks), \A k \in ks : Scope[k] = scope, Stays(c, scope, w, ks, t)
  PROVE  PutAll(c, w, ks, t) = c
<1> DEFINE e == PutAll(c, w, ks, t)
           p == Policies[c.policy][scope]
           es == c.stores[scope].entries
           fs == e.stores[scope].entries
           a == AllWritten(p, w, ks, t)
           b == Len(es) - Len(a)
<1>1. /\ CacheInv(e, t) /\ Only(c, e, scope) /\ Stays(e, scope, w, ks, t)
      /\ Writes(p, w, t, ks, a)
  BY PutAllStays
<1>2. Ends(p, es, ks, a) /\ Ends(p, fs, ks, a)
  BY <1>1 DEF Stays, Only
<1>3. PolicyOK(p) /\ StoreInv(p, c.stores[scope], t) /\ StoreInv(p, e.stores[scope], t)
  BY <1>1, PolicyType DEF CacheInv, Only
<1>4. /\ EntriesOK(p, es, t) /\ EntriesOK(p, fs, t)
      /\ Unbounded(p) \/ (Len(es) <= p.max /\ Len(fs) <= p.max)
  <2>1. \A s : StoreInv(p, s, t) => EntriesOK(p, s.entries, t) /\ (Unbounded(p) \/ Len(s.entries) <= p.max)
    BY DEF StoreInv
  <2> HIDE DEF p
  <2> QED
    BY <1>3, <2>1
<1>5. PICK T : a \in Seq(T)
  BY <1>1 DEF Writes, WritesOf
<1>6. Len(es) \in Nat /\ Len(fs) \in Nat /\ Len(a) \in Nat
  BY <1>4, <1>5, EntriesAre
<1>7. p = Policies[c.policy][scope] /\ es = c.stores[scope].entries /\ fs = e.stores[scope].entries
  OBVIOUS
<1>8. fs = PutAll(c, w, ks, t).stores[scope].entries
  OBVIOUS
<1> HIDE DEF e, p, es, fs, a
<1>9. CASE ~p.enabled
  BY <1>1, <1>3, <1>9, SameCache DEF StoreInv, e
<1>10. CASE p.enabled
  <2>1. fs = es
    <3>1. PICK S : es \in Seq(S)
      BY <1>4 DEF EntriesOK
    <3>2. PICK U : fs \in Seq(U)
      BY <1>4 DEF EntriesOK
    <3>3. SUFFICES Len(fs) = Len(es) /\ \A i \in 1 .. Len(es) : i <= b => fs[i] = es[i]
      <4>1. ASSUME NEW i \in 1 .. Len(es), ~(i <= b) PROVE fs[i] = es[i]
        BY <1>2, <3>3, <4>1 DEF Ends
      <4>2. \A i \in 1 .. Len(fs) : fs[i] = es[i]
        BY <3>3, <4>1
      <4> QED
        BY <3>1, <3>2, <3>3, <4>2, SameSequence
    <3>4. CASE Len(es) < Len(a)
      <4>1. ~Unbounded(p) /\ Len(es) = p.max
        BY <1>2, <3>4 DEF Ends
      <4>2. Len(fs) <= p.max
        BY <1>4, <4>1
      <4>3. Len(fs) < Len(a)
        BY <1>6, <3>4, <4>1, <4>2
      <4>4. Len(fs) = p.max
        BY <1>2, <4>3 DEF Ends
      <4>5. \A i \in 1 .. Len(es) : ~(i <= b)
        BY <1>6, <3>4
      <4> QED
        BY <4>1, <4>4, <4>5
    <3>5. CASE ~(Len(es) < Len(a))
      <4>1. b \in 0 .. Len(es)
        BY <1>6, <3>5
      <4> DEFINE m == b
      <4>2. /\ m \in 0 .. Len(es) /\ \A i \in 1 .. m : i \in 1 .. Len(es) /\ i <= Len(es) - Len(a)
            /\ m = Len(es) - Len(a)
        BY <1>6, <4>1
      <4> HIDE DEF m
      <4>3. \A i \in 1 .. m : es[i].key \notin ks
        BY <1>2, <4>2 DEF Ends
      <4>4. /\ \A j \in 1 .. Len(a) : m + j \in 1 .. Len(es) /\ ~(m + j <= Len(es) - Len(a))
                                      /\ (m + j) - (Len(es) - Len(a)) = j
            /\ \A i \in 1 .. Len(es) : ~(i <= Len(es) - Len(a)) => i - (Len(es) - Len(a)) \in 1 .. Len(a)
        BY <1>6, <4>2
      <4>5. ASSUME NEW k \in ks PROVE w[k] \in p.accepts <=> k \in KeysOf(es)
        <5>1. ASSUME w[k] \in p.accepts PROVE k \in KeysOf(es)
          <6>1. PICK j \in 1 .. Len(a) : a[j].key = k
            BY <1>1, <5>1 DEF Writes
          <6>2. es[m + j] = a[j]
            BY <1>2, <4>4 DEF Ends
          <6> QED
            BY <1>4, <4>4, <6>1, <6>2, EntriesAre
        <5>2. ASSUME k \in KeysOf(es) PROVE w[k] \in p.accepts
          <6>1. PICK i \in 1 .. Len(es) : k = es[i].key
            BY <1>4, <5>2, EntriesAre
          <6>2. ~(i <= Len(es) - Len(a)) /\ es[i] = a[i - (Len(es) - Len(a))]
            BY <1>2, <6>1 DEF Ends
          <6> QED
            BY <1>1, <4>4, <6>1, <6>2 DEF Writes
        <5> QED
          BY <5>1, <5>2
      <4>6. AsLong(es, m, fs)
        <5>1. \A k \in ks : w[k] \in p.accepts <=> k \in KeysOf(es)
          BY <4>5
        <5>2. AsLong(es, m, PutAll(c, w, ks, t).stores[scope].entries)
          BY <1>7, <1>10, <4>2, <4>3, <5>1, PutAllAgain
        <5> QED
          BY <1>8, <5>2
      <4> QED
        BY <4>1, <4>2, <4>6 DEF AsLong, m
    <3> QED
      BY <3>4, <3>5
  <2>2. e.stores[scope] = c.stores[scope]
    BY <1>3, <1>7, <2>1, SameStore
  <2> QED
    BY <1>1, <2>2, SameCache DEF e
<1> QED
  BY <1>9, <1>10

LEMMA EvictNone ==
  ASSUME NEW p, NEW t, NEW s, StoreInv(p, s, t), NEW ks, ks \cap Keys(s) = {}
  PROVE  Evict(s, ks) = s
<1>1. PICK S : s.entries \in Seq(S)
  BY DEF StoreInv, EntriesOK
<1>2. \A i \in 1 .. Len(s.entries) : s.entries[i].key \notin ks
  BY <1>1 DEF Keys
<1>3. Without(s.entries, ks) = s.entries
  <2> DEFINE es == s.entries
  <2>1. es \in Seq(S) /\ \A i \in 1 .. Len(es) : es[i].key \notin ks
    BY <1>1, <1>2
  <2> HIDE DEF es
  <2>2. Without(es, ks) = es
    BY <2>1, WithoutNone
  <2> QED
    BY <2>2 DEF es
<1>4. IndexRemove(s.index, ks) = s.index
  <2>1. s.index = PairsOf(KeysOf(s.entries)) /\ KeysOf(s.entries) = Keys(s)
    BY DEF StoreInv, KeysOf, Keys
  <2>2. \A e \in s.index : e.key \in Keys(s)
    BY <2>1 DEF PairsOf
  <2> QED
    BY <2>2 DEF IndexRemove
<1> QED
  BY <1>3, <1>4 DEF Evict, StoreInv

LEMMA DeleteNone ==
  ASSUME NEW c, NEW t, CacheInv(c, t), NEW scope \in Scopes, NEW ks, ks \cap Keys(c.stores[scope]) = {}
  PROVE  Delete(c, scope, ks) = c /\ OnStore(c, scope, Evict(c.stores[scope], ks)) = c
<1>1. Evict(c.stores[scope], ks) = c.stores[scope]
  BY EvictNone DEF CacheInv
<1>2. OnStore(c, scope, c.stores[scope]) = c
  <2> DEFINE old == c.stores
             new == [old EXCEPT ![scope] = old[scope]]
  <2>1. new = old
    BY DEF CacheInv
  <2>2. OnStore(c, scope, c.stores[scope]) = [c EXCEPT !.stores = new]
    BY DEF OnStore
  <2> HIDE DEF new
  <2> QED
    BY <2>1, <2>2 DEF CacheInv
<1> QED
  BY <1>1, <1>2 DEF Delete

LEMMA WroteLives ==
  ASSUME NEW p, PolicyOK(p), NEW t \in Nat, NEW w, NEW k
  PROVE  ~Expired(Wrote(p, w, k, t), t)
  BY DEF Expired, Wrote, Deadline, PolicyOK, Never

\* What was put is what was said.
LEMMA StaysPut ==
  ASSUME NEW c, NEW t \in Nat \ {0}, CacheInv(c, t), NEW scope \in Scopes, NEW w,
         NEW ks, IsFiniteSet(ks), \A k \in ks : Scope[k] = scope, Stays(c, scope, w, ks, t),
         NEW k \in ks, k \in Keys(c.stores[scope])
  PROVE  /\ k \in Live(c.stores[scope], t) /\ Value(c.stores[scope], k) = w[k]
         /\ w[k] \in Policies[c.policy][scope].accepts
<1> DEFINE p == Policies[c.policy][scope]
           s == c.stores[scope]
           a == AllWritten(p, w, ks, t)
           es == s.entries
<1>1. Writes(p, w, t, ks, a)
  BY PutAllStays
<1>2. PolicyOK(p) /\ StoreInv(p, s, t) /\ Ends(p, es, ks, a)
  BY PolicyType DEF CacheInv, Stays
<1> HIDE DEF p, a, s
<1>3. PICK T : a \in Seq(T)
  BY <1>1 DEF Writes, WritesOf
<1>4. EntriesOK(p, es, t) /\ DOMAIN es = 1 .. Len(es) /\ Len(es) \in Nat
  BY <1>2, EntriesAre DEF StoreInv
<1>5. PICK i \in 1 .. Len(es) : es[i].key = k
  BY <1>4 DEF Keys, s
<1>6. ~(i <= Len(es) - Len(a)) /\ es[i] = a[i - (Len(es) - Len(a))]
  BY <1>2, <1>5 DEF Ends
<1>7. i - (Len(es) - Len(a)) \in 1 .. Len(a)
  BY <1>3, <1>4, <1>6
<1>8. es[i] = Wrote(p, w, k, t) /\ w[k] \in p.accepts
  BY <1>1, <1>5, <1>6, <1>7 DEF Writes
<1>9. Entry(s, k) = es[i] /\ k \in Keys(s)
  BY <1>2, <1>4, <1>5, EntryIs
<1>10. ~Expired(es[i], t) /\ es[i].value = w[k]
  BY <1>2, <1>8, WroteLives DEF Wrote
<1> QED
  BY <1>8, <1>9, <1>10 DEF Live, Value, s, p

\* Other stores do not matter, nor does what else is evicted.
LEMMA StaysWhere ==
  ASSUME NEW c, NEW e, NEW scope, NEW w, NEW ks, NEW t, Stays(c, scope, w, ks, t),
         e.policy = c.policy, e.stores[scope] = c.stores[scope]
  PROVE  Stays(e, scope, w, ks, t)
  BY DEF Stays

LEMMA StaysEvict ==
  ASSUME NEW c, NEW t \in Nat \ {0}, CacheInv(c, t), NEW scope \in Scopes, NEW w,
         NEW ks, IsFiniteSet(ks), \A k \in ks : Scope[k] = scope, Stays(c, scope, w, ks, t),
         NEW x \in Scopes, NEW gone, x = scope => gone \cap ks = {}
  PROVE  /\ Stays(Delete(c, x, gone), scope, w, ks, t)
         /\ Stays(OnStore(c, x, Evict(c.stores[x], gone)), scope, w, ks, t)
<1> DEFINE p == Policies[c.policy][scope]
           s == c.stores[scope]
           a == AllWritten(p, w, ks, t)
           f == Without(s.entries, gone)
           e == OnStore(c, x, Evict(c.stores[x], gone))
<1>1. Only(c, e, x) /\ e.stores[x] = Evict(c.stores[x], gone)
  BY OnlyStore
<1>2. e = Delete(c, x, gone)
  BY DEF Delete
<1> HIDE DEF e
<1>3. CASE x # scope
  <2>1. Stays(e, scope, w, ks, t)
    BY <1>1, <1>3, StaysWhere DEF Only
  <2> QED
    BY <1>2, <2>1 DEF e
<1>4. CASE x = scope
  <2>1. Writes(p, w, t, ks, a)
    BY PutAllStays
  <2>2. PolicyOK(p) /\ StoreInv(p, s, t) /\ Ends(p, s.entries, ks, a) /\ t \in Nat
    BY PolicyType DEF CacheInv, Stays
  <2> HIDE DEF p, a, s
  <2>3. EntriesOK(p, s.entries, t) /\ WritesOf(ks, a)
    BY <2>1, <2>2 DEF StoreInv, Writes
  <2>4. Ends(p, f, ks \cup gone, a)
    BY <1>4, <2>2, <2>3, EndsWithout
  <2>5. Ends(p, f, ks, a)
    BY <2>4 DEF Ends
  <2>6. e.policy = c.policy /\ e.stores[scope].entries = f
    BY <1>1, <1>4 DEF Only, Evict, s
  <2>7. Stays(e, scope, w, ks, t)
    BY <2>5, <2>6 DEF Stays, p, a
  <2> QED
    BY <1>2, <2>7 DEF e
<1> QED
  BY <1>3, <1>4

LEMMA PutIsPutAll ==
  ASSUME NEW c, NEW k, NEW w, NEW t PROVE Put(c, k, w[k], t) = PutAll(c, w, {k}, t)
<1> DEFINE ks == {k}
           g == CHOOSE x : x = [s \in SUBSET ks |-> AfterPuts(c, w, t, x, s)]
<1>1. IsFiniteSet(ks) /\ {} \in SUBSET ks /\ ks \in SUBSET ks /\ ks # {}
  BY FS_Singleton
<1>2. Chosen(ks) = k /\ ks \ {k} = {}
  BY DEF Chosen
<1> HIDE DEF ks
<1>3. g = [s \in SUBSET ks |-> AfterPuts(c, w, t, g, s)]
  BY <1>1, PutsExist
<1>4. PutAll(c, w, ks, t) = g[ks]
  BY PutAllDef
<1> HIDE DEF g
<1>5. \A s \in SUBSET ks : g[s] = AfterPuts(c, w, t, g, s)
  BY <1>3
<1>6. g[{}] = c
  BY <1>1, <1>5 DEF AfterPuts
<1>7. g[ks] = Put(g[{}], k, w[k], t)
  BY <1>1, <1>2, <1>5 DEF AfterPuts
<1> QED
  BY <1>4, <1>6, <1>7 DEF ks

-----------------------------------------------------------------------------
(* Groups with nothing expired in them.                                    *)

Current(s, g, t) == Indexed(s, g) \subseteq Live(s, t)

LEMMA FreshWithin ==
  ASSUME NEW p, NEW t, NEW s, StoreInv(p, s, t), NEW r, StoreInv(p, r, t), Within(r, s), NEW g,
         Current(s, g, t)
  PROVE  Current(r, g, t)
<1>1. /\ Indexed(s, g) = {k \in Keys(s) : g # NoGroup /\ GroupOf(k) = g}
      /\ Indexed(r, g) = {k \in Keys(r) : g # NoGroup /\ GroupOf(k) = g}
  BY IndexedIs
<1> QED
  BY <1>1, WithinIsLive DEF Current, Within

LEMMA FreshGains ==
  ASSUME NEW p, PolicyOK(p), NEW t \in Nat, NEW s, StoreInv(p, s, t), NEW r, StoreInv(p, r, t),
         NEW w, NEW ks, Gains(p, s.entries, r.entries, w, t, ks), NEW g, Current(s, g, t)
  PROVE  Current(r, g, t)
<1>1. /\ Indexed(s, g) = {k \in Keys(s) : g # NoGroup /\ GroupOf(k) = g}
      /\ Indexed(r, g) = {k \in Keys(r) : g # NoGroup /\ GroupOf(k) = g}
  BY IndexedIs
<1>2. EntriesOK(p, s.entries, t) /\ EntriesOK(p, r.entries, t)
  BY DEF StoreInv
<1>3. DOMAIN s.entries = 1 .. Len(s.entries) /\ DOMAIN r.entries = 1 .. Len(r.entries)
  BY <1>2, EntriesAre
<1>4. ASSUME NEW k \in Indexed(r, g) PROVE k \in Live(r, t)
  <2>1. PICK i \in 1 .. Len(r.entries) : r.entries[i].key = k
    BY <1>1, <1>3, <1>4 DEF Keys
  <2>2. Entry(r, k) = r.entries[i] /\ k \in Keys(r)
    BY <1>3, <2>1, EntryIs
  <2>3. ~Expired(r.entries[i], t)
    <3>1. CASE \E x \in ks : r.entries[i] = Wrote(p, w, x, t)
      BY <3>1, WroteLives
    <3>2. CASE \E j \in 1 .. Len(s.entries) : r.entries[i] = s.entries[j]
      <4>1. PICK j \in 1 .. Len(s.entries) : r.entries[i] = s.entries[j]
        BY <3>2
      <4>2. Entry(s, k) = s.entries[j] /\ k \in Keys(s)
        BY <1>3, <2>1, <4>1, EntryIs
      <4>3. k \in Live(s, t)
        BY <1>1, <1>4, <4>2 DEF Current
      <4> QED
        BY <4>1, <4>2, <4>3 DEF Live
    <3> QED
      BY <3>1, <3>2 DEF Gains
  <2> QED
    BY <2>2, <2>3 DEF Live
<1> QED
  BY <1>4 DEF Current

LEMMA FreshLooked ==
  ASSUME NEW p, PolicyOK(p), NEW t \in Nat, NEW s, StoreInv(p, s, t), NEW g
  PROVE  /\ Current(Looked(s, g, t), g, t)
         /\ Current(s, g, t) => Looked(s, g, t) = s
<1> DEFINE gone == Indexed(s, g) \ Live(s, t)
           r == Looked(s, g, t)
<1>1. r = Evict(s, gone)
  BY DEF Looked
<1>2. ASSUME Current(s, g, t) PROVE r = s
  <2>1. gone = {}
    BY <1>2 DEF Current
  <2> HIDE DEF gone
  <2>2. gone \cap Keys(s) = {}
    BY <2>1
  <2> QED
    BY <1>1, <2>2, EvictNone
<1>3. Current(r, g, t)
  <2> DEFINE indexed == Indexed(s, g)
             live == Live(s, t)
  <2>1. gone = indexed \ live
    OBVIOUS
  <2>2. indexed = {k \in Keys(s) : g # NoGroup /\ GroupOf(k) = g}
    BY IndexedIs
  <2> HIDE DEF gone, r, live, indexed
  <2>3. Keys(r) = Keys(s) \ gone /\ Within(r, s) /\ StoreInv(p, r, t)
    BY <1>1, EvictDoes, EvictSound
  <2>4. Indexed(r, g) = {k \in Keys(r) : g # NoGroup /\ GroupOf(k) = g}
    BY <2>3, IndexedIs
  <2>5. \A k \in Indexed(r, g) : k \in Keys(r) /\ k \in live
    BY <2>1, <2>2, <2>3, <2>4
  <2> QED
    BY <2>3, <2>5, WithinIsLive DEF Current, live
<1> QED
  BY <1>2, <1>3

LEMMA KeysGained ==
  ASSUME NEW p, NEW t, NEW s, StoreInv(p, s, t), NEW r, StoreInv(p, r, t),
         NEW w, NEW ks, Gains(p, s.entries, r.entries, w, t, ks)
  PROVE  Keys(r) \subseteq Keys(s) \cup ks
<1>1. EntriesOK(p, s.entries, t) /\ EntriesOK(p, r.entries, t)
  BY DEF StoreInv
<1>2. DOMAIN s.entries = 1 .. Len(s.entries) /\ DOMAIN r.entries = 1 .. Len(r.entries)
  BY <1>1, EntriesAre
<1>3. \A k : Wrote(p, w, k, t).key = k
  BY DEF Wrote
<1> QED
  BY <1>2, <1>3 DEF Gains, Keys

\* After a reconciliation: the group has what was sent of it, and nothing else.
Settled(c, g, scope, w, t) ==
  /\ Stays(c, scope, w, In(scope, DOMAIN w), t)
  /\ Current(c.stores[scope], g, t)
  /\ Indexed(c.stores[scope], g) \subseteq In(scope, DOMAIN w)

LEMMA SettledWhere ==
  ASSUME NEW c, NEW e, NEW scope, NEW g, NEW w, NEW t, Settled(c, g, scope, w, t),
         e.policy = c.policy, e.stores[scope] = c.stores[scope]
  PROVE  Settled(e, g, scope, w, t)
  BY StaysWhere DEF Settled

LEMMA Sent ==
  ASSUME NEW w, IsFiniteSet(DOMAIN w), NEW scope
  PROVE  IsFiniteSet(In(scope, DOMAIN w)) /\ \A k \in In(scope, DOMAIN w) : Scope[k] = scope
  BY FiniteParts DEF In

LEMMA StoreOfCache ==
  ASSUME NEW c, NEW t, CacheInv(c, t), NEW scope \in Scopes
  PROVE  /\ PolicyOK(Policies[c.policy][scope])
         /\ StoreInv(Policies[c.policy][scope], c.stores[scope], t)
  BY PolicyType DEF CacheInv

LEMMA LookedIs ==
  ASSUME NEW c, NEW t \in Nat, CacheInv(c, t), NEW scope \in Scopes, NEW g
  PROVE  LET e == OnStore(c, scope, Looked(c.stores[scope], g, t))
         IN /\ CacheInv(e, t) /\ Only(c, e, scope) /\ e.stores[scope] = Looked(c.stores[scope], g, t)
            /\ Current(e.stores[scope], g, t) /\ Within(e.stores[scope], c.stores[scope])
            /\ Current(c.stores[scope], g, t) => e = c
<1> DEFINE s == c.stores[scope]
           r == Looked(s, g, t)
           e == OnStore(c, scope, r)
           p == Policies[c.policy][scope]
<1>1. CacheInv(e, t)
  BY LookSound
<1>2. Only(c, e, scope) /\ e.stores[scope] = r
  BY OnlyStore
<1>3. PolicyOK(p) /\ StoreInv(p, s, t)
  BY StoreOfCache
<1>4. Current(r, g, t) /\ (Current(s, g, t) => r = s)
  BY <1>3, FreshLooked
<1>5. Within(r, s)
  <2> DEFINE gone == Indexed(s, g) \ Live(s, t)
  <2>1. r = Evict(s, gone)
    BY DEF Looked
  <2> HIDE DEF gone
  <2> QED
    BY <1>3, <2>1, EvictDoes
<1>6. ASSUME Current(s, g, t) PROVE e = c
  <2>1. e.stores[scope] = c.stores[scope]
    BY <1>2, <1>4, <1>6
  <2> HIDE DEF e
  <2> QED
    BY <1>1, <1>2, <2>1, SameCache DEF e
<1> HIDE DEF r, e
<1> QED
  BY <1>1, <1>2, <1>4, <1>5, <1>6 DEF r, e

LEMMA DeleteIs ==
  ASSUME NEW c, NEW t \in Nat, CacheInv(c, t), NEW scope \in Scopes, NEW gone
  PROVE  LET e == Delete(c, scope, gone)
         IN /\ CacheInv(e, t) /\ Only(c, e, scope)
            /\ e.stores[scope] = Evict(c.stores[scope], gone)
            /\ Keys(e.stores[scope]) = Keys(c.stores[scope]) \ gone
            /\ Within(e.stores[scope], c.stores[scope])
<1> DEFINE e == Delete(c, scope, gone)
<1>1. CacheInv(e, t)
  BY DeleteSound
<1>2. Only(c, e, scope) /\ e.stores[scope] = Evict(c.stores[scope], gone)
  BY OnlyStore DEF Delete
<1>3. PolicyOK(Policies[c.policy][scope]) /\ StoreInv(Policies[c.policy][scope], c.stores[scope], t)
  BY StoreOfCache
<1>4. Keys(Evict(c.stores[scope], gone)) = Keys(c.stores[scope]) \ gone
      /\ Within(Evict(c.stores[scope], gone), c.stores[scope])
  BY <1>3, EvictDoes
<1> HIDE DEF e
<1> QED
  BY <1>1, <1>2, <1>4 DEF e

LEMMA ReconcileSettles ==
  ASSUME NEW c, NEW t \in Nat \ {0}, CacheInv(c, t), NEW g, NEW scope \in Scopes, NEW w,
         IsFiniteSet(DOMAIN w)
  PROVE  LET e == Reconcile(c, g, scope, w, t)
         IN CacheInv(e, t) /\ Only(c, e, scope) /\ Settled(e, g, scope, w, t)
<1> DEFINE p == Policies[c.policy][scope]
           s == c.stores[scope]
           ks == In(scope, DOMAIN w)
           cached == Group(s, g, t)
           gone == cached \ ks
           c1 == OnStore(c, scope, Looked(s, g, t))
           c2 == PutAll(c1, w, ks, t)
           e == Delete(c2, scope, gone)
           s1 == c1.stores[scope]
           s2 == c2.stores[scope]
           s3 == e.stores[scope]
<1>0. e = Reconcile(c, g, scope, w, t)
  BY DEF Reconcile
<1>1. IsFiniteSet(ks) /\ \A k \in ks : Scope[k] = scope
  BY Sent
<1>2. CacheInv(c1, t) /\ Only(c, c1, scope) /\ Current(s1, g, t) /\ Within(s1, s)
  BY LookedIs
<1>3. p = Policies[c1.policy][scope] /\ PolicyOK(p) /\ StoreInv(p, s, t)
  BY <1>2, StoreOfCache DEF Only
<1>4. StoreInv(p, s1, t)
  <2> HIDE DEF c1
  <2> QED
    BY <1>2, <1>3, StoreOfCache
<1> HIDE DEF c1, p, ks, s, cached
<1>5. /\ CacheInv(c2, t) /\ Only(c1, c2, scope) /\ Stays(c2, scope, w, ks, t)
      /\ Gains(p, s1.entries, s2.entries, w, t, ks)
  BY <1>1, <1>2, <1>3, PutAllStays
<1>6. p = Policies[c2.policy][scope]
  BY <1>3, <1>5 DEF Only
<1> HIDE DEF c2
<1>7. StoreInv(p, s2, t)
  BY <1>5, <1>6, StoreOfCache
<1>8. Current(s2, g, t)
  BY <1>2, <1>3, <1>4, <1>5, <1>7, FreshGains
<1>9. Keys(s2) \subseteq Keys(s1) \cup ks
  <2> HIDE DEF s1, s2
  <2> QED
    BY <1>4, <1>5, <1>7, KeysGained
<1>10. gone \cap ks = {} /\ gone = cached \ ks
  OBVIOUS
<1> HIDE DEF gone
<1>11. /\ CacheInv(e, t) /\ Only(c2, e, scope)
       /\ Keys(s3) = Keys(s2) \ gone /\ Within(s3, s2)
  BY <1>5, DeleteIs
<1>12. Stays(e, scope, w, ks, t)
  BY <1>1, <1>5, <1>10, StaysEvict
<1>13. p = Policies[e.policy][scope]
  BY <1>6, <1>11 DEF Only
<1> HIDE DEF e
<1>14. StoreInv(p, s3, t)
  BY <1>11, <1>13, StoreOfCache
<1>15. Current(s3, g, t)
  BY <1>7, <1>8, <1>11, <1>14, FreshWithin
<1>16. Indexed(s3, g) \subseteq ks
  <2> SUFFICES ASSUME NEW k \in Indexed(s3, g), k \notin ks PROVE FALSE
    OBVIOUS
  <2>1. k \in Keys(s3) /\ g # NoGroup /\ GroupOf(k) = g
    BY <1>14, IndexedIs
  <2>2. k \in Keys(s1) /\ k \notin gone
    BY <1>9, <1>11, <2>1
  <2>3. k \in Indexed(s1, g)
    BY <1>4, <2>1, <2>2, IndexedIs
  <2>4. k \in Live(s1, t)
    BY <1>2, <2>3 DEF Current
  <2>5. k \in Live(s, t)
    BY <1>2, <2>4, WithinIsLive
  <2>6. k \in Keys(s)
    BY <1>2, <2>2 DEF Within
  <2>7. k \in Indexed(s, g)
    BY <1>3, <2>1, <2>6, IndexedIs
  <2>8. k \in cached
    BY <2>5, <2>7 DEF cached, Group
  <2> QED
    BY <1>10, <2>2, <2>8
<1>17. Only(c, e, scope)
  BY <1>2, <1>5, <1>11, OnlyThen
<1> QED
  BY <1>0, <1>11, <1>12, <1>15, <1>16, <1>17 DEF Settled, ks

LEMMA ReconcileAgain ==
  ASSUME NEW c, NEW t \in Nat \ {0}, CacheInv(c, t), NEW g, NEW scope \in Scopes, NEW w,
         IsFiniteSet(DOMAIN w), Settled(c, g, scope, w, t)
  PROVE  Reconcile(c, g, scope, w, t) = c
<1> DEFINE s == c.stores[scope]
           ks == In(scope, DOMAIN w)
           gone == Group(s, g, t) \ ks
           c1 == OnStore(c, scope, Looked(s, g, t))
<1>0. Delete(PutAll(c1, w, ks, t), scope, gone) = Reconcile(c, g, scope, w, t)
  BY DEF Reconcile
<1>1. IsFiniteSet(ks) /\ \A k \in ks : Scope[k] = scope
  BY Sent
<1>2. c1 = c
  BY LookedIs DEF Settled
<1>3. gone = {}
  BY DEF Settled, Group
<1> HIDE DEF c1, gone, ks
<1>4. PutAll(c, w, ks, t) = c
  <2>1. Stays(c, scope, w, ks, t)
    BY DEF Settled, ks
  <2> QED
    BY <1>1, <2>1, PutAgain
<1>5. gone \cap Keys(c.stores[scope]) = {}
  BY <1>3
<1>6. Delete(c, scope, gone) = c
  BY <1>5, DeleteNone
<1> QED
  BY <1>0, <1>2, <1>4, <1>6

-----------------------------------------------------------------------------
(* What is evicted stays out.                                              *)

\* From c to e nothing was done to the stores but to take away.
Lost(c, e, t) ==
  /\ CacheInv(e, t) /\ e.policy = c.policy /\ e.self = c.self
  /\ \A scope \in Scopes : Within(e.stores[scope], c.stores[scope])

LEMMA WithinSame == ASSUME NEW s PROVE Within(s, s)
  BY DEF Within

LEMMA OnlyLost ==
  ASSUME NEW c, NEW e, NEW t, CacheInv(e, t), NEW scope \in Scopes, Only(c, e, scope),
         Within(e.stores[scope], c.stores[scope])
  PROVE  Lost(c, e, t)
<1>1. ASSUME NEW x \in Scopes PROVE Within(e.stores[x], c.stores[x])
  <2>1. CASE x = scope
    BY <2>1
  <2>2. CASE x # scope
    BY <2>2, WithinSame DEF Only
  <2> QED
    BY <2>1, <2>2
<1> QED
  BY <1>1 DEF Lost, Only

LEMMA LostThen ==
  ASSUME NEW c, NEW e, NEW f, NEW t, Lost(c, e, t), Lost(e, f, t) PROVE Lost(c, f, t)
<1>1. ASSUME NEW x \in Scopes PROVE Within(f.stores[x], c.stores[x])
  <2>1. Within(f.stores[x], e.stores[x]) /\ Within(e.stores[x], c.stores[x])
    BY DEF Lost
  <2> QED
    BY <2>1 DEF Within
<1> QED
  BY <1>1 DEF Lost

LEMMA FreshLost ==
  ASSUME NEW c, NEW e, NEW t, CacheInv(c, t), Lost(c, e, t), NEW scope \in Scopes, NEW g,
         Current(c.stores[scope], g, t)
  PROVE  Current(e.stores[scope], g, t)
<1> DEFINE p == Policies[c.policy][scope]
<1>1. StoreInv(p, c.stores[scope], t)
  BY StoreOfCache
<1>2. StoreInv(Policies[e.policy][scope], e.stores[scope], t)
  BY StoreOfCache DEF Lost
<1>3. StoreInv(p, e.stores[scope], t) /\ Within(e.stores[scope], c.stores[scope])
  BY <1>2 DEF Lost
<1> HIDE DEF p
<1> QED
  BY <1>1, <1>3, FreshWithin

\* The group of what is in an index.
LEMMA IndexedGroup ==
  ASSUME NEW c, NEW t, CacheInv(c, t), NEW scope \in Scopes, NEW g
  PROVE  Indexed(c.stores[scope], g)
           = {k \in Keys(c.stores[scope]) : g # NoGroup /\ GroupOf(k) = g}
<1>1. StoreInv(Policies[c.policy][scope], c.stores[scope], t)
  BY StoreOfCache
<1> QED
  BY <1>1, IndexedIs

\* Neither these nor what is in them is held.
Unheld(c, ks) ==
  /\ ks \cap Keys(c.stores["channels"]) = {} /\ ks \cap Keys(c.stores["threads"]) = {}
  /\ \A ch \in ks : Indexed(c.stores["threads"], ch) = {} /\ Indexed(c.stores["messages"], ch) = {}

LEMMA EvictChannelsLoses ==
  ASSUME NEW c, NEW t \in Nat \ {0}, CacheInv(c, t), NEW ks
  PROVE  LET e == EvictChannels(c, ks, t)
         IN /\ Lost(c, e, t) /\ Unheld(e, ks)
            /\ \A x \in Scopes \ {"channels", "threads", "messages"} : e.stores[x] = c.stores[x]
            /\ \A scope \in {"channels", "threads"} : \A w, xs :
                 /\ IsFiniteSet(xs) /\ \A k \in xs : Scope[k] = scope /\ k \notin ks /\ GroupOf(k) \notin ks
                 /\ Stays(c, scope, w, xs, t)
                 => Stays(e, scope, w, xs, t)
<1> DEFINE theirs == UNION {Indexed(c.stores["threads"], ch) : ch \in ks}
           threads == theirs \cap Here(c, "threads", t)
           gone == ks \cup threads
           out == ks \cup theirs
           said == UNION {Indexed(c.stores["messages"], x) : x \in gone}
           c1 == Delete(c, "channels", gone)
           c2 == Delete(c1, "threads", out)
           e == Delete(c2, "messages", said)
<1>0. e = EvictChannels(c, ks, t)
  BY DEF EvictChannels
<1>1. "channels" \in Scopes /\ "threads" \in Scopes /\ "messages" \in Scopes
  BY DEF Scopes
<1>2. theirs = {k \in Keys(c.stores["threads"]) : \E ch \in ks : ch # NoGroup /\ GroupOf(k) = ch}
  <2> DEFINE F(x) == Indexed(c.stores["threads"], x)
  <2>1. \A x : F(x) = {k \in Keys(c.stores["threads"]) : x # NoGroup /\ GroupOf(k) = x}
    BY <1>1, IndexedGroup
  <2>2. \A k, x : k \in F(x) <=> k \in Keys(c.stores["threads"]) /\ x # NoGroup /\ GroupOf(k) = x
    BY <2>1
  <2>3. theirs = UNION {F(ch) : ch \in ks}
    OBVIOUS
  <2> HIDE DEF F, theirs
  <2> QED
    BY <2>2, <2>3
<1>3. said = {k \in Keys(c.stores["messages"]) : \E x \in gone : x # NoGroup /\ GroupOf(k) = x}
  <2> DEFINE F(x) == Indexed(c.stores["messages"], x)
  <2>1. \A x : F(x) = {k \in Keys(c.stores["messages"]) : x # NoGroup /\ GroupOf(k) = x}
    BY <1>1, IndexedGroup
  <2>2. \A k, x : k \in F(x) <=> k \in Keys(c.stores["messages"]) /\ x # NoGroup /\ GroupOf(k) = x
    BY <2>1
  <2>3. said = UNION {F(x) : x \in gone}
    OBVIOUS
  <2> HIDE DEF F, said
  <2> QED
    BY <2>2, <2>3
<1>4. ks \subseteq gone /\ gone \subseteq out /\ out = ks \cup theirs
  OBVIOUS
<1> HIDE DEF said, gone, out, threads, theirs
<1>5. /\ CacheInv(c1, t) /\ Only(c, c1, "channels")
      /\ Keys(c1.stores["channels"]) = Keys(c.stores["channels"]) \ gone
      /\ Within(c1.stores["channels"], c.stores["channels"])
  BY <1>1, DeleteIs
<1>6. Lost(c, c1, t)
  BY <1>1, <1>5, OnlyLost
<1> HIDE DEF c1
<1>7. /\ CacheInv(c2, t) /\ Only(c1, c2, "threads")
      /\ Keys(c2.stores["threads"]) = Keys(c1.stores["threads"]) \ out
      /\ Within(c2.stores["threads"], c1.stores["threads"])
  BY <1>1, <1>5, DeleteIs
<1>8. Lost(c1, c2, t)
  BY <1>1, <1>7, OnlyLost
<1> HIDE DEF c2
<1>9. /\ CacheInv(e, t) /\ Only(c2, e, "messages")
      /\ Keys(e.stores["messages"]) = Keys(c2.stores["messages"]) \ said
      /\ Within(e.stores["messages"], c2.stores["messages"])
  BY <1>1, <1>7, DeleteIs
<1>10. Lost(c2, e, t)
  BY <1>1, <1>9, OnlyLost
<1>11. Lost(c, e, t)
  BY <1>6, <1>8, <1>10, LostThen
<1>12. ASSUME NEW scope \in {"channels", "threads"}, NEW w, NEW xs, IsFiniteSet(xs),
              \A k \in xs : Scope[k] = scope /\ k \notin ks /\ GroupOf(k) \notin ks,
              Stays(c, scope, w, xs, t)
       PROVE  Stays(e, scope, w, xs, t)
  <2>1. out \cap xs = {} /\ gone \cap xs = {}
    BY <1>2, <1>4, <1>12
  <2>2. scope \in Scopes /\ scope # "messages" /\ \A k \in xs : Scope[k] = scope
    BY <1>1, <1>12
  <2>3. Stays(c1, scope, w, xs, t)
    BY <1>1, <1>12, <2>1, <2>2, StaysEvict DEF c1
  <2>4. Stays(c2, scope, w, xs, t)
    BY <1>1, <1>5, <1>12, <2>1, <2>2, <2>3, StaysEvict DEF c2
  <2> QED
    BY <1>9, <2>2, <2>4, StaysWhere DEF Only
<1>13. \A x \in Scopes \ {"channels", "threads", "messages"} : e.stores[x] = c.stores[x]
  BY <1>5, <1>7, <1>9 DEF Only
<1> HIDE DEF e
<1>14. /\ Keys(e.stores["channels"]) = Keys(c.stores["channels"]) \ gone
       /\ Keys(e.stores["threads"]) = Keys(c.stores["threads"]) \ out
       /\ Keys(e.stores["messages"]) = Keys(c.stores["messages"]) \ said
  BY <1>1, <1>5, <1>7, <1>9 DEF Only
<1>15. Unheld(e, ks)
  <2>1. ASSUME NEW ch \in ks
        PROVE  Indexed(e.stores["threads"], ch) = {} /\ Indexed(e.stores["messages"], ch) = {}
    <3>1. /\ Indexed(e.stores["threads"], ch)
               = {k \in Keys(e.stores["threads"]) : ch # NoGroup /\ GroupOf(k) = ch}
          /\ Indexed(e.stores["messages"], ch)
               = {k \in Keys(e.stores["messages"]) : ch # NoGroup /\ GroupOf(k) = ch}
      BY <1>1, <1>9, IndexedGroup
    <3> QED
      BY <1>2, <1>3, <1>4, <1>14, <3>1
  <2> QED
    BY <1>4, <1>14, <2>1 DEF Unheld
<1> QED
  BY <1>0, <1>11, <1>12, <1>13, <1>15

LEMMA EvictChannelsNone ==
  ASSUME NEW c, NEW t \in Nat \ {0}, CacheInv(c, t), NEW ks, Unheld(c, ks)
  PROVE  EvictChannels(c, ks, t) = c
<1> DEFINE theirs == UNION {Indexed(c.stores["threads"], ch) : ch \in ks}
           threads == theirs \cap Here(c, "threads", t)
           gone == ks \cup threads
           out == ks \cup theirs
           said == UNION {Indexed(c.stores["messages"], x) : x \in gone}
<1>0. EvictChannels(c, ks, t) = Delete(Delete(Delete(c, "channels", gone), "threads", out), "messages", said)
  BY DEF EvictChannels
<1>1. "channels" \in Scopes /\ "threads" \in Scopes /\ "messages" \in Scopes
  BY DEF Scopes
<1>2. theirs = {} /\ gone = ks /\ out = ks
  BY DEF Unheld
<1>3. said = {}
  BY <1>2 DEF Unheld
<1> HIDE DEF said, gone, out, threads, theirs
<1>4. /\ gone \cap Keys(c.stores["channels"]) = {} /\ out \cap Keys(c.stores["threads"]) = {}
      /\ said \cap Keys(c.stores["messages"]) = {}
  BY <1>2, <1>3 DEF Unheld
<1>5. /\ Delete(c, "channels", gone) = c /\ Delete(c, "threads", out) = c
      /\ Delete(c, "messages", said) = c
  BY <1>1, <1>4, DeleteNone
<1> QED
  BY <1>0, <1>5

\* After all channels and threads of a guild were sent.
SettledChannels(c, g, w, t) ==
  /\ Stays(c, "channels", w, In("channels", DOMAIN w), t)
  /\ Stays(c, "threads", w, In("threads", DOMAIN w), t)
  /\ Current(c.stores["channels"], g, t)
  /\ Group(c.stores["channels"], g, t) \subseteq DOMAIN w
  /\ {x \in Here(c, "threads", t) : Guild[x] = g} \subseteq DOMAIN w

LEMMA SettledChannelsWhere ==
  ASSUME NEW c, NEW e, NEW g, NEW w, NEW t, SettledChannels(c, g, w, t), e.policy = c.policy,
         e.stores["channels"] = c.stores["channels"], e.stores["threads"] = c.stores["threads"]
  PROVE  SettledChannels(e, g, w, t)
  BY StaysWhere DEF SettledChannels, Here

LEMMA UnheldNone ==
  ASSUME NEW c PROVE Unheld(c, {})
  BY DEF Unheld

LEMMA ReconcileChannelsAgain ==
  ASSUME NEW c, NEW t \in Nat \ {0}, CacheInv(c, t), NEW g, NEW w, IsFiniteSet(DOMAIN w),
         SettledChannels(c, g, w, t)
  PROVE  ReconcileChannels(c, g, w, t) = c
<1> DEFINE xs == In("channels", DOMAIN w)
           ys == In("threads", DOMAIN w)
           channels == Group(c.stores["channels"], g, t)
           threads == {x \in Here(c, "threads", t) : Guild[x] = g}
           ks1 == channels \ DOMAIN w
           ks2 == threads \ DOMAIN w
           c1 == OnStore(c, "channels", Looked(c.stores["channels"], g, t))
           c2 == PutAll(c1, w, xs, t)
           c3 == PutAll(c2, w, ys, t)
           c4 == EvictChannels(c3, ks1, t)
           e == EvictChannels(c4, ks2, t)
<1>0. e = ReconcileChannels(c, g, w, t)
  BY DEF ReconcileChannels
<1>1. "channels" \in Scopes /\ "threads" \in Scopes
  BY DEF Scopes
<1>2. c1 = c
  BY <1>1, LookedIs DEF SettledChannels
<1>3. IsFiniteSet(xs) /\ IsFiniteSet(ys)
  BY Sent
<1>4. (\A k \in xs : Scope[k] = "channels") /\ \A k \in ys : Scope[k] = "threads"
  BY Sent
<1>5. Stays(c, "channels", w, xs, t) /\ Stays(c, "threads", w, ys, t)
  BY DEF SettledChannels
<1>6. ks1 = {} /\ ks2 = {}
  BY DEF SettledChannels
<1> HIDE DEF ks1, ks2, xs, ys, c1
<1>7. PutAll(c, w, xs, t) = c /\ PutAll(c, w, ys, t) = c
  BY <1>1, <1>3, <1>4, <1>5, PutAgain
<1>8. EvictChannels(c, ks1, t) = c /\ EvictChannels(c, ks2, t) = c
  BY <1>6, UnheldNone, EvictChannelsNone
<1> QED
  BY <1>0, <1>2, <1>7, <1>8

-----------------------------------------------------------------------------
(* The same payload twice.                                                 *)

LEMMA PutOnce ==
  ASSUME NEW c, NEW t \in Nat \ {0}, CacheInv(c, t), NEW k, Scope[k] \in Scopes, NEW w
  PROVE  LET e == Put(c, k, w[k], t)
         IN CacheInv(e, t) /\ Only(c, e, Scope[k]) /\ Stays(e, Scope[k], w, {k}, t)
<1> DEFINE ks == {k}
           e == PutAll(c, w, ks, t)
<1>1. IsFiniteSet(ks) /\ \A x \in ks : Scope[x] = Scope[k]
  BY FS_Singleton
<1>2. e = Put(c, k, w[k], t)
  BY PutIsPutAll
<1> HIDE DEF ks
<1>3. CacheInv(e, t) /\ Only(c, e, Scope[k]) /\ Stays(e, Scope[k], w, ks, t)
  BY <1>1, PutAllStays
<1> HIDE DEF e
<1> QED
  BY <1>2, <1>3 DEF ks

LEMMA PutTwice ==
  ASSUME NEW c, NEW t \in Nat \ {0}, CacheInv(c, t), NEW k, Scope[k] \in Scopes, NEW w,
         Stays(c, Scope[k], w, {k}, t)
  PROVE  Put(c, k, w[k], t) = c
<1> DEFINE ks == {k}
<1>1. IsFiniteSet(ks) /\ \A x \in ks : Scope[x] = Scope[k]
  BY FS_Singleton
<1>2. PutAll(c, w, ks, t) = Put(c, k, w[k], t)
  BY PutIsPutAll
<1> HIDE DEF ks
<1>3. Stays(c, Scope[k], w, ks, t)
  BY DEF ks
<1>4. PutAll(c, w, ks, t) = c
  BY <1>1, <1>3, PutAgain
<1> QED
  BY <1>2, <1>4

\* What was put of one is what was said.
LEMMA StaysSaid ==
  ASSUME NEW c, NEW t \in Nat \ {0}, CacheInv(c, t), NEW k, Scope[k] \in Scopes, NEW w,
         Stays(c, Scope[k], w, {k}, t), k \in Keys(c.stores[Scope[k]])
  PROVE  /\ k \in Live(c.stores[Scope[k]], t) /\ Value(c.stores[Scope[k]], k) = w[k]
         /\ w[k] \in Policies[c.policy][Scope[k]].accepts
<1> DEFINE ks == {k}
<1>1. IsFiniteSet(ks) /\ (\A x \in ks : Scope[x] = Scope[k]) /\ k \in ks
  BY FS_Singleton
<1> HIDE DEF ks
<1>2. Stays(c, Scope[k], w, ks, t)
  BY DEF ks
<1> QED
  BY <1>1, <1>2, StaysPut

\* The users of a payload, or its members.
LEMMA SeveralOnce ==
  ASSUME NEW c, NEW t \in Nat \ {0}, CacheInv(c, t), NEW scope \in Scopes, NEW w,
         IsFiniteSet(DOMAIN w)
  PROVE  LET e == PutAll(c, w, In(scope, DOMAIN w), t)
         IN CacheInv(e, t) /\ Only(c, e, scope) /\ Stays(e, scope, w, In(scope, DOMAIN w), t)
<1> DEFINE ks == In(scope, DOMAIN w)
           e == PutAll(c, w, ks, t)
<1>1. IsFiniteSet(ks) /\ \A k \in ks : Scope[k] = scope
  BY Sent
<1> HIDE DEF ks
<1>2. CacheInv(e, t) /\ Only(c, e, scope) /\ Stays(e, scope, w, ks, t)
  BY <1>1, PutAllStays
<1> QED
  BY <1>2 DEF ks

LEMMA SeveralTwice ==
  ASSUME NEW c, NEW t \in Nat \ {0}, CacheInv(c, t), NEW scope \in Scopes, NEW w,
         IsFiniteSet(DOMAIN w), Stays(c, scope, w, In(scope, DOMAIN w), t)
  PROVE  PutAll(c, w, In(scope, DOMAIN w), t) = c
<1> DEFINE ks == In(scope, DOMAIN w)
<1>1. IsFiniteSet(ks) /\ \A k \in ks : Scope[k] = scope
  BY Sent
<1> HIDE DEF ks
<1>2. Stays(c, scope, w, ks, t)
  BY DEF ks
<1>3. PutAll(c, w, ks, t) = c
  BY <1>1, <1>2, PutAgain
<1> QED
  BY <1>3 DEF ks

LEMMA GotIs ==
  ASSUME NEW c, NEW t \in Nat, CacheInv(c, t), NEW scope \in Scopes, NEW k
  PROVE  LET e == OnStore(c, scope, Got(c.stores[scope], k, t))
         IN /\ CacheInv(e, t) /\ Only(c, e, scope)
            /\ k \in Keys(e.stores[scope]) => k \in Live(e.stores[scope], t)
            /\ (k \in Keys(c.stores[scope]) => k \in Live(c.stores[scope], t)) => e = c
<1> DEFINE s == c.stores[scope]
           gone == {k} \ Live(s, t)
           e == Delete(c, scope, gone)
<1>1. e = OnStore(c, scope, Got(s, k, t))
  BY DEF Got, Delete
<1>2. gone \subseteq {k} /\ (k \in gone <=> k \notin Live(s, t))
  OBVIOUS
<1> HIDE DEF gone
<1>3. /\ CacheInv(e, t) /\ Only(c, e, scope)
      /\ Keys(e.stores[scope]) = Keys(s) \ gone
      /\ Within(e.stores[scope], s)
  BY DeleteIs
<1>4. ASSUME k \in Keys(s) => k \in Live(s, t) PROVE e = c
  <2>1. gone \cap Keys(s) = {}
    BY <1>2, <1>4
  <2> QED
    BY <2>1, DeleteNone
<1> HIDE DEF e
<1>5. k \in Keys(e.stores[scope]) => k \in Live(e.stores[scope], t)
  BY <1>2, <1>3, WithinIsLive
<1> QED
  BY <1>1, <1>3, <1>4, <1>5

LEMMA GotSame ==
  ASSUME NEW c, NEW t \in Nat, CacheInv(c, t), NEW scope \in Scopes, NEW k,
         k \in Keys(c.stores[scope]) => k \in Live(c.stores[scope], t)
  PROVE  OnStore(c, scope, Got(c.stores[scope], k, t)) = c
  BY GotIs

LEMMA AloneTwice ==
  ASSUME NEW c, NEW t \in Nat \ {0}, CacheInv(c, t), NEW k, Scope[k] \in Scopes, NEW w
  PROVE  Put(Put(c, k, w[k], t), k, w[k], t) = Put(c, k, w[k], t)
<1> DEFINE e == Put(c, k, w[k], t)
<1>1. CacheInv(e, t) /\ Stays(e, Scope[k], w, {k}, t)
  BY PutOnce
<1> HIDE DEF e
<1>2. Put(e, k, w[k], t) = e
  BY <1>1, PutTwice
<1> QED
  BY <1>2 DEF e

LEMMA WithUserTwice ==
  ASSUME NEW c, NEW t \in Nat \ {0}, CacheInv(c, t), NEW k, Scope[k] \in Scopes \ {"users"}, NEW w,
         NEW u, IsFiniteSet(DOMAIN w)
  PROVE  LET e == Put(UpsertUsers(c, w, t), k, u[k], t)
         IN /\ CacheInv(e, t) /\ Put(UpsertUsers(e, w, t), k, u[k], t) = e
            /\ UpsertUsers(e, w, t) = e /\ Stays(e, Scope[k], u, {k}, t)
<1> DEFINE us == In("users", DOMAIN w)
           c1 == PutAll(c, w, us, t)
           e == Put(c1, k, u[k], t)
<1>1. \A a : UpsertUsers(a, w, t) = PutAll(a, w, us, t)
  BY DEF UpsertUsers
<1>2. "users" \in Scopes
  BY DEF Scopes
<1>3. CacheInv(c1, t) /\ Stays(c1, "users", w, us, t)
  BY <1>2, SeveralOnce
<1> HIDE DEF c1
<1>4. CacheInv(e, t) /\ Only(c1, e, Scope[k]) /\ Stays(e, Scope[k], u, {k}, t)
  BY <1>3, PutOnce
<1> HIDE DEF e
<1>5. Stays(e, "users", w, us, t)
  BY <1>2, <1>3, <1>4, StaysWhere DEF Only
<1>6. PutAll(e, w, us, t) = e
  BY <1>2, <1>4, <1>5, SeveralTwice
<1>7. Put(e, k, u[k], t) = e
  BY <1>4, PutTwice
<1> QED
  BY <1>1, <1>4, <1>6, <1>7 DEF e, c1

\* Assigning what is so already.
LEMMA PatchedSame ==
  ASSUME NEW p, NEW t, NEW s, StoreInv(p, s, t), NEW ks, NEW v,
         \A k \in ks \cap Keys(s) : Value(s, k) = v
  PROVE  Patched(s, ks, v) = s
<1> DEFINE es == s.entries
           fs == [i \in DOMAIN es |->
                   IF es[i].key \in ks THEN [es[i] EXCEPT !.value = v] ELSE es[i]]
           r == Patched(s, ks, v)
<1>1. s = [entries |-> es, index |-> s.index] /\ EntriesOK(p, es, t)
  BY DEF StoreInv
<1>2. r = [s EXCEPT !.entries = fs]
  BY DEF Patched
<1>3. ASSUME NEW i \in DOMAIN es PROVE fs[i] = es[i]
  <2>1. es[i] = [key |-> es[i].key, value |-> es[i].value, due |-> es[i].due]
    BY <1>1 DEF EntriesOK
  <2>2. CASE es[i].key \in ks
    <3>1. Entry(s, es[i].key) = es[i] /\ es[i].key \in Keys(s)
      BY EntryIs DEF Keys
    <3>2. es[i].value = v
      BY <2>2, <3>1 DEF Value
    <3> HIDE DEF es
    <3>3. fs[i] = [es[i] EXCEPT !.value = v]
      BY <2>2
    <3> QED
      BY <2>1, <3>2, <3>3
  <2> QED
    BY <2>2
<1>4. fs = es
  <2>1. PICK S : es \in Seq(S)
    BY <1>1 DEF EntriesOK
  <2>2. es = [i \in DOMAIN es |-> es[i]]
    BY <2>1
  <2>3. DOMAIN fs = DOMAIN es /\ fs = [i \in DOMAIN es |-> fs[i]]
    OBVIOUS
  <2> HIDE DEF fs
  <2> QED
    BY <1>3, <2>2, <2>3
<1> HIDE DEF fs, r, es
<1>5. r = s
  BY <1>1, <1>2, <1>4
<1> QED
  BY <1>5 DEF r

LEMMA SameOnStore ==
  ASSUME NEW c, NEW t, CacheInv(c, t), NEW scope \in Scopes
  PROVE  OnStore(c, scope, c.stores[scope]) = c
<1> DEFINE gone == {}
<1>1. gone \cap Keys(c.stores[scope]) = {}
  OBVIOUS
<1>2. StoreInv(Policies[c.policy][scope], c.stores[scope], t)
  BY StoreOfCache
<1> HIDE DEF gone
<1>3. Evict(c.stores[scope], gone) = c.stores[scope]
  BY <1>1, <1>2, EvictNone
<1>4. OnStore(c, scope, Evict(c.stores[scope], gone)) = c
  BY <1>1, DeleteNone
<1> QED
  BY <1>3, <1>4

LEMMA AssignSame ==
  ASSUME NEW c, NEW t, CacheInv(c, t), NEW scope \in Scopes, NEW ks, NEW v,
         \A k \in ks \cap Keys(c.stores[scope]) : Value(c.stores[scope], k) = v
  PROVE  Assign(c, scope, ks, v) = c
<1>1. StoreInv(Policies[c.policy][scope], c.stores[scope], t)
  BY StoreOfCache
<1>2. Patched(c.stores[scope], ks, v) = c.stores[scope]
  BY <1>1, PatchedSame
<1> QED
  BY <1>2, SameOnStore DEF Assign

\* What an assignment makes.
LEMMA AssignIs ==
  ASSUME NEW c, NEW t \in Nat, CacheInv(c, t), NEW scope \in Scopes, NEW ks, NEW v
  PROVE  LET e == Assign(c, scope, ks, v)
         IN /\ CacheInv(e, t) /\ Only(c, e, scope)
            /\ Keys(e.stores[scope]) = Keys(c.stores[scope])
            /\ Live(e.stores[scope], t) = Live(c.stores[scope], t)
            /\ \A k \in Keys(c.stores[scope]) :
                 Value(e.stores[scope], k) = IF k \in ks THEN v ELSE Value(c.stores[scope], k)
<1> DEFINE r == Patched(c.stores[scope], ks, v)
           e == Assign(c, scope, ks, v)
<1>1. e = OnStore(c, scope, r)
  BY DEF Assign
<1>2. CacheInv(e, t)
  BY AssignSound
<1>3. Only(c, e, scope) /\ e.stores[scope] = r
  BY <1>1, OnlyStore
<1>4. PolicyOK(Policies[c.policy][scope]) /\ StoreInv(Policies[c.policy][scope], c.stores[scope], t)
  BY StoreOfCache
<1>5. /\ Keys(r) = Keys(c.stores[scope]) /\ Live(r, t) = Live(c.stores[scope], t)
      /\ \A k \in Keys(c.stores[scope]) : Value(r, k) = IF k \in ks THEN v ELSE Value(c.stores[scope], k)
  BY <1>4, PatchedDoes
<1> HIDE DEF r, e
<1> QED
  BY <1>2, <1>3, <1>5 DEF e

LEMMA ChangesOnce ==
  ASSUME NEW v \in 0 .. 7, NEW u \in 0 .. 7
  PROVE  /\ Part(v, "lo") = Part(u, "lo") => WithPin(v, Pin(u)) = v
         /\ Part(v, "mid") = Part(u, "mid") => NewCount(v, Count(u)) = v
<1> DEFINE x == WithPin(v, Pin(u))
           y == NewCount(v, Count(u))
<1>1. /\ x \in 0 .. 7 /\ \A i \in Parts : Part(x, i) = Part(IF i = "lo" THEN u ELSE v, i)
      /\ y \in 0 .. 7 /\ \A i \in Parts : Part(y, i) = Part(IF i = "mid" THEN u ELSE v, i)
  BY ChangesPart
<1> HIDE DEF x, y
<1>2. Part(v, "lo") = Part(u, "lo") => \A i \in Parts : Part(x, i) = Part(v, i)
  BY <1>1
<1>3. Part(v, "mid") = Part(u, "mid") => \A i \in Parts : Part(y, i) = Part(v, i)
  BY <1>1
<1>4. v \in Nat /\ (x \in 0 .. 7 => x \in Nat) /\ (y \in 0 .. 7 => y \in Nat)
  OBVIOUS
<1>5. Part(v, "lo") = Part(u, "lo") => x = v
  BY <1>1, <1>2, <1>4, PartsMakeTheWhole
<1>6. Part(v, "mid") = Part(u, "mid") => y = v
  BY <1>1, <1>3, <1>4, PartsMakeTheWhole
<1> QED
  BY <1>5, <1>6 DEF x, y

LEMMA GotNone ==
  ASSUME NEW c, NEW t \in Nat, CacheInv(c, t), NEW scope \in Scopes, NEW k,
         k \notin Keys(c.stores[scope])
  PROVE  OnStore(c, scope, Got(c.stores[scope], k, t)) = c /\ k \notin Live(c.stores[scope], t)
<1> DEFINE gone == {k} \ Live(c.stores[scope], t)
<1>1. gone \cap Keys(c.stores[scope]) = {}
  OBVIOUS
<1>2. OnStore(c, scope, Got(c.stores[scope], k, t)) = OnStore(c, scope, Evict(c.stores[scope], gone))
  BY DEF Got
<1> HIDE DEF gone
<1>3. OnStore(c, scope, Evict(c.stores[scope], gone)) = c
  BY <1>1, DeleteNone
<1> QED
  BY <1>2, <1>3 DEF Live

LEMMA ChannelUpdateTwice ==
  ASSUME NEW c, NEW t \in Nat \ {0}, CacheInv(c, t), NEW d, Scope[d.key] = "channels"
  PROVE  LET e == ChannelUpdate(c, d, t) IN ChannelUpdate(e, d, t) = e
<1> DEFINE k == d.key
           b == EvictChannels(c, {k}, t)
           a == IF /\ k \in Here(c, "channels", t)
                   /\ Kind(Value(c.stores["channels"], k)) # Kind(d.w[k])
                THEN b ELSE c
           e == Put(a, k, d.w[k], t)
<1>1. e = ChannelUpdate(c, d, t) /\ "channels" \in Scopes /\ t \in Nat
  BY DEF ChannelUpdate, Scopes
<1>2. CacheInv(b, t)
  BY <1>1, EvictChannelsSound
<1>3. CacheInv(a, t)
  BY <1>2
<1> HIDE DEF a
<1>4. CacheInv(e, t) /\ Stays(e, Scope[k], d.w, {k}, t)
  BY <1>1, <1>3, PutOnce
<1> HIDE DEF e
<1>5. ASSUME k \in Here(e, "channels", t) PROVE Value(e.stores["channels"], k) = d.w[k]
  <2> DEFINE w == d.w
             x == d.key
  <2>1. x \in Keys(e.stores[Scope[x]]) /\ Scope[x] = "channels" /\ Stays(e, Scope[x], w, {x}, t)
    BY <1>4, <1>5 DEF Here, Live
  <2> HIDE DEF w, x
  <2>2. Value(e.stores[Scope[x]], x) = w[x]
    BY <1>1, <1>4, <2>1, StaysSaid
  <2> QED
    BY <2>1, <2>2 DEF w, x
<1>6. ChannelUpdate(e, d, t) = Put(e, k, d.w[k], t)
  BY <1>5 DEF ChannelUpdate
<1>7. Put(e, k, d.w[k], t) = e
  BY <1>1, <1>4, PutTwice
<1> QED
  BY <1>1, <1>6, <1>7

LEMMA ChannelDeleteTwice ==
  ASSUME NEW c, NEW t \in Nat \ {0}, CacheInv(c, t), NEW ks
  PROVE  LET e == EvictChannels(c, ks, t) IN EvictChannels(e, ks, t) = e
<1> DEFINE e == EvictChannels(c, ks, t)
<1>1. CacheInv(e, t) /\ Unheld(e, ks)
  BY EvictChannelsLoses DEF Lost
<1> HIDE DEF e
<1>2. EvictChannels(e, ks, t) = e
  BY <1>1, EvictChannelsNone
<1> QED
  BY <1>2 DEF e

LEMMA DeleteTwice ==
  ASSUME NEW c, NEW t \in Nat, CacheInv(c, t), NEW scope \in Scopes, NEW ks
  PROVE  LET e == Delete(c, scope, ks) IN Delete(e, scope, ks) = e
<1> DEFINE e == Delete(c, scope, ks)
<1>1. CacheInv(e, t) /\ Keys(e.stores[scope]) = Keys(c.stores[scope]) \ ks
  BY DeleteIs
<1> HIDE DEF e
<1>2. ks \cap Keys(e.stores[scope]) = {}
  BY <1>1
<1>3. Delete(e, scope, ks) = e
  BY <1>1, <1>2, DeleteNone
<1> QED
  BY <1>3 DEF e

LEMMA UserSeenTwice ==
  ASSUME NEW c, NEW t \in Nat \ {0}, CacheInv(c, t), NEW w, IsFiniteSet(DOMAIN w)
  PROVE  LET e == UpsertUsers(c, w, t)
         IN CacheInv(e, t) /\ Only(c, e, "users") /\ UpsertUsers(e, w, t) = e
<1> DEFINE e == UpsertUsers(c, w, t)
<1>1. \A a : UpsertUsers(a, w, t) = PutAll(a, w, In("users", DOMAIN w), t)
  BY DEF UpsertUsers
<1>2. "users" \in Scopes
  BY DEF Scopes
<1> HIDE DEF e
<1>3. CacheInv(e, t) /\ Only(c, e, "users") /\ Stays(e, "users", w, In("users", DOMAIN w), t)
  BY <1>1, <1>2, SeveralOnce DEF e
<1>4. UpsertUsers(e, w, t) = e
  BY <1>1, <1>2, <1>3, SeveralTwice
<1> QED
  BY <1>3, <1>4 DEF e

\* What a member has in a scope.
TheirsIn(scope, m) == {k \in In(scope, Things) : Member[k] = m}

Out(c, m) ==
  /\ {m} \cap Keys(c.stores["members"]) = {}
  /\ TheirsIn("presences", m) \cap Keys(c.stores["presences"]) = {}
  /\ TheirsIn("voiceStates", m) \cap Keys(c.stores["voiceStates"]) = {}

LEMMA EvictMemberIs ==
  ASSUME NEW c, NEW t \in Nat, CacheInv(c, t), NEW m
  PROVE  LET e == EvictMember(c, m)
         IN /\ CacheInv(e, t) /\ Out(e, m)
            /\ Out(c, m) => e = c
<1> DEFINE ms == {m}
           ps == TheirsIn("presences", m)
           vs == TheirsIn("voiceStates", m)
           c1 == Delete(c, "members", ms)
           c2 == Delete(c1, "presences", ps)
           e == Delete(c2, "voiceStates", vs)
<1>0. e = EvictMember(c, m)
  BY DEF EvictMember, TheirsIn
<1>1. "members" \in Scopes /\ "presences" \in Scopes /\ "voiceStates" \in Scopes
  BY DEF Scopes
<1> HIDE DEF ms, ps, vs
<1>2. /\ CacheInv(c1, t) /\ Only(c, c1, "members")
      /\ Keys(c1.stores["members"]) = Keys(c.stores["members"]) \ ms
  BY <1>1, DeleteIs
<1>3. ASSUME Out(c, m) PROVE e = c
  <2>1. /\ ms \cap Keys(c.stores["members"]) = {} /\ ps \cap Keys(c.stores["presences"]) = {}
        /\ vs \cap Keys(c.stores["voiceStates"]) = {}
    BY <1>3 DEF Out, ms, ps, vs
  <2>2. Delete(c, "members", ms) = c /\ Delete(c, "presences", ps) = c /\ Delete(c, "voiceStates", vs) = c
    BY <1>1, <2>1, DeleteNone
  <2> QED
    BY <2>2
<1> HIDE DEF c1
<1>4. /\ CacheInv(c2, t) /\ Only(c1, c2, "presences")
      /\ Keys(c2.stores["presences"]) = Keys(c1.stores["presences"]) \ ps
  BY <1>1, <1>2, DeleteIs
<1> HIDE DEF c2
<1>5. /\ CacheInv(e, t) /\ Only(c2, e, "voiceStates")
      /\ Keys(e.stores["voiceStates"]) = Keys(c2.stores["voiceStates"]) \ vs
  BY <1>1, <1>4, DeleteIs
<1> HIDE DEF e
<1>6. /\ ms \cap Keys(e.stores["members"]) = {} /\ ps \cap Keys(e.stores["presences"]) = {}
      /\ vs \cap Keys(e.stores["voiceStates"]) = {}
  BY <1>1, <1>2, <1>4, <1>5 DEF Only
<1> QED
  BY <1>0, <1>3, <1>5, <1>6 DEF Out, ms, ps, vs

LEMMA MemberRemoveTwice ==
  ASSUME NEW c, NEW t \in Nat \ {0}, CacheInv(c, t), NEW d, IsFiniteSet(DOMAIN d.w)
  PROVE  LET e == MemberRemove(c, d, t) IN MemberRemove(e, d, t) = e
<1> DEFINE m == d.key
           w == d.w
           a == EvictMember(c, m)
           e == UpsertUsers(a, w, t)
<1>0. \A x : MemberRemove(x, d, t) = UpsertUsers(EvictMember(x, m), w, t)
  BY DEF MemberRemove
<1>1. t \in Nat /\ IsFiniteSet(DOMAIN w)
  OBVIOUS
<1> HIDE DEF m, w
<1>2. CacheInv(a, t) /\ Out(a, m)
  BY <1>1, EvictMemberIs
<1> HIDE DEF a
<1>3. CacheInv(e, t) /\ Only(a, e, "users") /\ UpsertUsers(e, w, t) = e
  BY <1>1, <1>2, UserSeenTwice
<1> HIDE DEF e
<1>4. Out(e, m)
  BY <1>2, <1>3 DEF Out, Only, Scopes
<1>5. EvictMember(e, m) = e
  BY <1>1, <1>3, <1>4, EvictMemberIs
<1> QED
  BY <1>0, <1>3, <1>5 DEF e, a

LEMMA ExpressionsTwice ==
  ASSUME NEW c, NEW t \in Nat \ {0}, CacheInv(c, t), NEW g, NEW scope \in Scopes, NEW w,
         IsFiniteSet(DOMAIN w)
  PROVE  LET e == Reconcile(c, g, scope, w, t) IN Reconcile(e, g, scope, w, t) = e
<1> DEFINE e == Reconcile(c, g, scope, w, t)
<1>1. CacheInv(e, t) /\ Settled(e, g, scope, w, t)
  BY ReconcileSettles
<1> HIDE DEF e
<1>2. Reconcile(e, g, scope, w, t) = e
  BY <1>1, ReconcileAgain
<1> QED
  BY <1>2 DEF e

LEMMA ThreadListSyncTwice ==
  ASSUME NEW c, NEW t \in Nat \ {0}, CacheInv(c, t), NEW d, IsFiniteSet(DOMAIN d.w),
         \A k \in DOMAIN d.w : Scope[k] = "threads"
  PROVE  LET e == ThreadListSync(c, d, t) IN ThreadListSync(e, d, t) = e
<1> DEFINE w == d.w
           ks == DOMAIN d.w
           a == PutAll(c, w, ks, t)
           Missing(x) == {k \in Here(x, "threads", t) \ ks : Guild[k] = d.key /\ Parent[k] \in d.of}
           gone == Missing(a)
           e == Delete(a, "threads", gone)
<1>0. \A x : ThreadListSync(x, d, t)
               = Delete(PutAll(x, w, ks, t), "threads", Missing(PutAll(x, w, ks, t)))
  BY DEF ThreadListSync
<1>1. /\ IsFiniteSet(ks) /\ (\A k \in ks : Scope[k] = "threads") /\ "threads" \in Scopes
      /\ gone \cap ks = {} /\ t \in Nat
  BY DEF Scopes
<1>3. ASSUME NEW x, Live(x.stores["threads"], t) \subseteq Live(a.stores["threads"], t) \ gone
      PROVE  Missing(x) = {}
  BY <1>3 DEF Here
<1> HIDE DEF w, ks, gone, Missing
<1>4. CacheInv(a, t) /\ Stays(a, "threads", w, ks, t)
  BY <1>1, PutAllStays
<1> HIDE DEF a
<1>5. /\ CacheInv(e, t)
      /\ Keys(e.stores["threads"]) = Keys(a.stores["threads"]) \ gone
      /\ Within(e.stores["threads"], a.stores["threads"])
  BY <1>1, <1>4, DeleteIs
<1>6. Stays(e, "threads", w, ks, t)
  BY <1>1, <1>4, StaysEvict
<1> HIDE DEF e
<1>7. PutAll(e, w, ks, t) = e
  BY <1>1, <1>5, <1>6, PutAgain
<1>8. Missing(e) = {}
  <2>1. Live(e.stores["threads"], t) \subseteq Live(a.stores["threads"], t) \ gone
    <3>1. Live(e.stores["threads"], t) \subseteq Keys(e.stores["threads"])
      BY DEF Live
    <3> QED
      BY <1>5, <3>1, WithinIsLive
  <2> QED
    BY <1>3, <2>1
<1>9. Missing(e) \cap Keys(e.stores["threads"]) = {}
  BY <1>8
<1>10. Delete(e, "threads", Missing(e)) = e
  BY <1>1, <1>5, <1>9, DeleteNone
<1> QED
  BY <1>0, <1>7, <1>10 DEF e, a, gone

\* What is left in a store when a guild goes.
Left(s, scope, g, t) ==
  CASE scope = "guilds" -> Evict(s, {g})
    [] scope \in {"threads", "messages"} -> Evict(s, {k \in Live(s, t) : Guild[k] = g})
    [] OTHER -> Evict(s, Indexed(s, g))

LEMMA LeftTwice ==
  ASSUME NEW p, PolicyOK(p), NEW t \in Nat, NEW s, StoreInv(p, s, t), NEW scope, NEW g
  PROVE  Left(Left(s, scope, g, t), scope, g, t) = Left(s, scope, g, t)
<1> DEFINE G(x) == IF scope = "guilds" THEN {g}
                   ELSE IF scope \in {"threads", "messages"} THEN {k \in Live(x, t) : Guild[k] = g}
                   ELSE Indexed(x, g)
           r == Evict(s, G(s))
<1>1. \A x : Left(x, scope, g, t) = Evict(x, G(x))
  BY DEF Left
<1>2. ASSUME NEW gone, gone = G(s)
      PROVE  /\ StoreInv(p, Evict(s, gone), t) /\ Within(Evict(s, gone), s)
             /\ Keys(Evict(s, gone)) = Keys(s) \ gone
  BY EvictSound, EvictDoes
<1>3. StoreInv(p, r, t) /\ Within(r, s) /\ Keys(r) = Keys(s) \ G(s)
  <2> HIDE DEF G
  <2> QED
    BY <1>2
<1>4. Live(r, t) \subseteq Live(s, t) /\ Live(r, t) \subseteq Keys(r)
  BY <1>3, WithinIsLive DEF Live
<1> HIDE DEF r
<1>5. G(r) \cap Keys(r) = {}
  <2>1. /\ Indexed(r, g) = {k \in Keys(r) : g # NoGroup /\ GroupOf(k) = g}
        /\ Indexed(s, g) = {k \in Keys(s) : g # NoGroup /\ GroupOf(k) = g}
    BY <1>3, IndexedIs
  <2> QED
    BY <1>3, <1>4, <2>1
<1> HIDE DEF G
<1>6. Evict(r, G(r)) = r
  BY <1>3, <1>5, EvictNone
<1> QED
  BY <1>1, <1>6 DEF r

LEMMA GuildDeleteTwice ==
  ASSUME NEW c, NEW t \in Nat, CacheInv(c, t), NEW g
  PROVE  LET e == EvictGuild(c, g, t) IN EvictGuild(e, g, t) = e
<1> DEFINE e == EvictGuild(c, g, t)
           f == EvictGuild(e, g, t)
<1>1. \A x : EvictGuild(x, g, t)
               = [x EXCEPT !.stores = [scope \in Scopes |-> Left(x.stores[scope], scope, g, t)]]
  BY DEF EvictGuild, Left
<1>2. ASSUME NEW x, CacheInv(x, t)
      PROVE  LET y == EvictGuild(x, g, t)
             IN /\ y.policy = x.policy /\ y.self = x.self
                /\ \A scope \in Scopes : y.stores[scope] = Left(x.stores[scope], scope, g, t)
  <2> DEFINE stores == [scope \in Scopes |-> Left(x.stores[scope], scope, g, t)]
             y == EvictGuild(x, g, t)
  <2>1. x = [policy |-> x.policy, stores |-> x.stores, self |-> x.self]
    BY <1>2 DEF CacheInv
  <2>2. y = [x EXCEPT !.stores = stores]
    BY <1>1
  <2>3. \A scope \in Scopes : stores[scope] = Left(x.stores[scope], scope, g, t)
    OBVIOUS
  <2> HIDE DEF stores, y
  <2>4. y.policy = x.policy /\ y.self = x.self /\ y.stores = stores
    BY <2>1, <2>2
  <2> QED
    BY <2>3, <2>4 DEF y
<1>3. CacheInv(e, t)
  BY EvictGuildSound
<1>4. /\ e.policy = c.policy
      /\ \A scope \in Scopes : e.stores[scope] = Left(c.stores[scope], scope, g, t)
  BY <1>2
<1> HIDE DEF e
<1>5. CacheInv(f, t)
  BY <1>3, EvictGuildSound
<1>6. /\ f.policy = e.policy /\ f.self = e.self
      /\ \A scope \in Scopes : f.stores[scope] = Left(e.stores[scope], scope, g, t)
  BY <1>2, <1>3
<1> HIDE DEF f
<1>7. ASSUME NEW scope \in Scopes PROVE f.stores[scope] = e.stores[scope]
  <2>1. PolicyOK(Policies[c.policy][scope]) /\ StoreInv(Policies[c.policy][scope], c.stores[scope], t)
    BY StoreOfCache
  <2>2. Left(Left(c.stores[scope], scope, g, t), scope, g, t) = Left(c.stores[scope], scope, g, t)
    BY <2>1, LeftTwice
  <2> QED
    BY <1>4, <1>6, <2>2
<1>8. "guilds" \in Scopes
  BY DEF Scopes
<1>9. Only(e, f, "guilds")
  BY <1>6, <1>7 DEF Only
<1>10. f = e
  BY <1>3, <1>5, <1>7, <1>8, <1>9, SameCache
<1> QED
  BY <1>10 DEF e, f

LEMMA VoiceStateTwice ==
  ASSUME NEW c, NEW t \in Nat \ {0}, CacheInv(c, t), NEW d, IsFiniteSet(DOMAIN d.w),
         Scope[d.key] = "voiceStates"
  PROVE  LET e == VoiceStateUpdate(c, d, t) IN VoiceStateUpdate(e, d, t) = e
<1> DEFINE k == d.key
           w == d.w
           us == In("users", DOMAIN w)
           ms == In("members", DOMAIN w)
           gone == {k}
           S0(x) == OnStore(x, "voiceStates", Got(x.stores["voiceStates"], k, t))
           c0 == S0(c)
           c1 == PutAll(c0, w, us, t)
           c2 == PutAll(c1, w, ms, t)
           S3(x) == IF k \in DOMAIN w THEN Put(x, k, w[k], t) ELSE Delete(x, "voiceStates", gone)
           e == S3(c2)
<1>0. \A x : VoiceStateUpdate(x, d, t) = S3(PutAll(PutAll(S0(x), w, us, t), w, ms, t))
  BY DEF VoiceStateUpdate, UpsertUsers
<1>1. /\ "users" \in Scopes /\ "members" \in Scopes /\ "voiceStates" \in Scopes
      /\ t \in Nat /\ IsFiniteSet(DOMAIN w) /\ Scope[k] = "voiceStates" /\ k \in gone
  BY DEF Scopes
<1> HIDE DEF k, w, gone
<1>2. CacheInv(c0, t)
  BY <1>1, GotIs
<1> HIDE DEF S0, c0
<1>3. CacheInv(c1, t) /\ Stays(c1, "users", w, us, t)
  BY <1>1, <1>2, SeveralOnce
<1> HIDE DEF c1
<1>4. CacheInv(c2, t) /\ Only(c1, c2, "members") /\ Stays(c2, "members", w, ms, t)
  BY <1>1, <1>3, SeveralOnce
<1>5. Stays(c2, "users", w, us, t)
  BY <1>1, <1>3, <1>4, StaysWhere DEF Only
<1> HIDE DEF c2
<1>6. /\ CacheInv(e, t) /\ Only(c2, e, "voiceStates")
      /\ k \in Keys(e.stores["voiceStates"]) => k \in Live(e.stores["voiceStates"], t)
      /\ S3(e) = e
  <2>1. CASE k \in DOMAIN w
    <3> DEFINE f == Put(c2, k, w[k], t)
    <3>1. CacheInv(f, t) /\ Only(c2, f, Scope[k]) /\ Stays(f, Scope[k], w, {k}, t)
      BY <1>1, <1>4, PutOnce
    <3> HIDE DEF f
    <3>2. k \in Keys(f.stores[Scope[k]]) => k \in Live(f.stores[Scope[k]], t)
      BY <1>1, <3>1, StaysSaid
    <3>3. Put(f, k, w[k], t) = f
      BY <1>1, <3>1, PutTwice
    <3>4. e = f
      BY <2>1 DEF f
    <3> HIDE DEF e
    <3> QED
      BY <1>1, <2>1, <3>1, <3>2, <3>3, <3>4
  <2>2. CASE k \notin DOMAIN w
    <3> DEFINE f == Delete(c2, "voiceStates", gone)
    <3>1. /\ CacheInv(f, t) /\ Only(c2, f, "voiceStates")
          /\ Keys(f.stores["voiceStates"]) = Keys(c2.stores["voiceStates"]) \ gone
      BY <1>1, <1>4, DeleteIs
    <3>2. e = f
      BY <2>2
    <3> HIDE DEF f, e
    <3>3. gone \cap Keys(f.stores["voiceStates"]) = {}
      BY <3>1
    <3>4. Delete(f, "voiceStates", gone) = f
      BY <1>1, <3>1, <3>3, DeleteNone
    <3> QED
      BY <1>1, <2>2, <3>1, <3>2, <3>3, <3>4
  <2> QED
    BY <2>1, <2>2
<1> HIDE DEF e, S3
<1>7. Stays(e, "users", w, us, t) /\ Stays(e, "members", w, ms, t)
  BY <1>1, <1>4, <1>5, <1>6, StaysWhere DEF Only
<1>8. PutAll(e, w, us, t) = e /\ PutAll(e, w, ms, t) = e
  BY <1>1, <1>6, <1>7, SeveralTwice
<1>9. S0(e) = e
  BY <1>1, <1>6, GotSame DEF S0
<1> QED
  BY <1>0, <1>6, <1>8, <1>9 DEF e, c2, c1, c0

LEMMA RoleDeleteTwice ==
  ASSUME NEW c, NEW t \in Nat \ {0}, CacheInv(c, t), NEW d
  PROVE  LET e == RoleDelete(c, d, t) IN RoleDelete(e, d, t) = e
<1> DEFINE g == Guild[d.key]
           rs == {d.key}
           Ls(x) == {m \in Group(x.stores["members"], g, t) : Value(x.stores["members"], m) = Listing}
           Lk(x) == OnStore(x, "members", Looked(x.stores["members"], g, t))
           c1 == Delete(c, "roles", rs)
           c2 == Lk(c1)
           ls == Ls(c1)
           zero == 0
           e == Assign(c2, "members", ls, zero)
<1>0. \A x : RoleDelete(x, d, t)
               = Assign(Lk(Delete(x, "roles", rs)), "members", Ls(Delete(x, "roles", rs)), zero)
  BY DEF RoleDelete
<1>1. "roles" \in Scopes /\ "members" \in Scopes /\ t \in Nat /\ zero # Listing
  BY DEF Scopes, Listing
<1> HIDE DEF g, rs, zero
<1>2. /\ CacheInv(c1, t) /\ Only(c, c1, "roles")
      /\ Keys(c1.stores["roles"]) = Keys(c.stores["roles"]) \ rs
  BY <1>1, DeleteIs
<1> HIDE DEF c1
<1>3. /\ CacheInv(c2, t) /\ Only(c1, c2, "members") /\ Current(c2.stores["members"], g, t)
      /\ Within(c2.stores["members"], c1.stores["members"])
  BY <1>1, <1>2, LookedIs
<1> HIDE DEF c2, ls
<1>4. /\ CacheInv(e, t) /\ Only(c2, e, "members")
      /\ Keys(e.stores["members"]) = Keys(c2.stores["members"])
      /\ Live(e.stores["members"], t) = Live(c2.stores["members"], t)
      /\ \A k \in Keys(c2.stores["members"]) :
           Value(e.stores["members"], k) = IF k \in ls THEN zero ELSE Value(c2.stores["members"], k)
  BY <1>1, <1>3, AssignIs
<1> HIDE DEF e
<1>5. /\ Indexed(c1.stores["members"], g)
           = {k \in Keys(c1.stores["members"]) : g # NoGroup /\ GroupOf(k) = g}
      /\ Indexed(c2.stores["members"], g)
           = {k \in Keys(c2.stores["members"]) : g # NoGroup /\ GroupOf(k) = g}
      /\ Indexed(e.stores["members"], g)
           = {k \in Keys(e.stores["members"]) : g # NoGroup /\ GroupOf(k) = g}
  <2>1. Indexed(c1.stores["members"], g)
          = {k \in Keys(c1.stores["members"]) : g # NoGroup /\ GroupOf(k) = g}
    BY <1>1, <1>2, IndexedGroup
  <2>2. Indexed(c2.stores["members"], g)
          = {k \in Keys(c2.stores["members"]) : g # NoGroup /\ GroupOf(k) = g}
    BY <1>1, <1>3, IndexedGroup
  <2>3. Indexed(e.stores["members"], g)
          = {k \in Keys(e.stores["members"]) : g # NoGroup /\ GroupOf(k) = g}
    BY <1>1, <1>4, IndexedGroup
  <2> QED
    BY <2>1, <2>2, <2>3
<1>6. Current(e.stores["members"], g, t)
  BY <1>3, <1>4, <1>5 DEF Current
<1>7. Ls(e) = {}
  <2> SUFFICES ASSUME NEW m \in Group(e.stores["members"], g, t),
                      Value(e.stores["members"], m) = Listing
               PROVE  FALSE
    OBVIOUS
  <2>1. /\ m \in Keys(c2.stores["members"]) /\ g # NoGroup /\ GroupOf(m) = g
        /\ m \in Live(c2.stores["members"], t)
    BY <1>4, <1>5 DEF Group
  <2>2. m \notin ls /\ Value(c2.stores["members"], m) = Listing
    BY <1>1, <1>4, <2>1
  <2>3. /\ m \in Keys(c1.stores["members"]) /\ m \in Live(c1.stores["members"], t)
        /\ Value(c1.stores["members"], m) = Listing
    BY <1>3, <2>1, <2>2, WithinIsLive DEF Within
  <2>4. m \in Group(c1.stores["members"], g, t)
    BY <1>5, <2>1, <2>3 DEF Group
  <2> QED
    BY <2>2, <2>3, <2>4 DEF ls
<1>8. Delete(e, "roles", rs) = e
  <2>1. rs \cap Keys(e.stores["roles"]) = {}
    BY <1>1, <1>2, <1>3, <1>4 DEF Only
  <2> QED
    BY <1>1, <1>4, <2>1, DeleteNone
<1>9. Lk(e) = e
  BY <1>1, <1>4, <1>6, LookedIs
<1> HIDE DEF Ls, Lk
<1>10. Assign(e, "members", Ls(e), zero) = e
  <2>1. \A k \in Ls(e) \cap Keys(e.stores["members"]) : Value(e.stores["members"], k) = zero
    BY <1>7
  <2> QED
    BY <1>1, <1>4, <2>1, AssignSame
<1>11. RoleDelete(e, d, t) = e
  BY <1>0, <1>8, <1>9, <1>10
<1>12. RoleDelete(c, d, t) = e
  BY <1>0 DEF e, ls, c2, c1
<1> QED
  BY <1>11, <1>12

\* One that is accepted is there.
LEMMA PutThere ==
  ASSUME NEW c, NEW t \in Nat \ {0}, CacheInv(c, t), NEW k, Scope[k] \in Scopes, NEW w,
         Policies[c.policy][Scope[k]].enabled, w[k] \in Policies[c.policy][Scope[k]].accepts,
         Stays(c, Scope[k], w, {k}, t)
  PROVE  k \in Keys(c.stores[Scope[k]])
<1> DEFINE ks == {k}
           p == Policies[c.policy][Scope[k]]
           a == AllWritten(p, w, ks, t)
           es == c.stores[Scope[k]].entries
<1>1. IsFiniteSet(ks) /\ (\A x \in ks : Scope[x] = Scope[k]) /\ k \in ks /\ \A x \in ks : x = k
  BY FS_Singleton
<1>2. Ends(p, es, ks, a)
  BY DEF Stays
<1> HIDE DEF ks
<1>3. Writes(p, w, t, ks, a)
  BY <1>1, PutAllStays
<1>4. PolicyOK(p) /\ StoreInv(p, c.stores[Scope[k]], t)
  BY StoreOfCache
<1>5. p.enabled /\ w[k] \in p.accepts
  OBVIOUS
<1> HIDE DEF p, a
<1>6. EntriesOK(p, es, t)
  BY <1>4 DEF StoreInv
<1>7. Len(es) \in Nat /\ DOMAIN es = 1 .. Len(es)
  BY <1>6, EntriesAre
<1>8. PICK j \in 1 .. Len(a) : a[j].key = k
  BY <1>1, <1>3, <1>5 DEF Writes
<1>9. Len(a) \in Nat /\ Len(a) >= 1
  BY <1>3, <1>8 DEF Writes, WritesOf
<1> HIDE DEF es
<1>10. Len(es) >= 1
  <2>1. Len(es) < Len(a) => ~(p.max < 0) /\ Len(es) = p.max
    BY <1>2 DEF Ends, Unbounded
  <2>2. p.max \in Int /\ p.max # 0
    BY <1>4, <1>5 DEF PolicyOK
  <2> QED
    BY <1>7, <1>9, <2>1, <2>2
<1>11. es[Len(es)] = a[Len(a)]
  <2>1. Len(es) \in 1 .. Len(es) /\ ~(Len(es) <= Len(es) - Len(a))
        /\ Len(es) - (Len(es) - Len(a)) = Len(a)
    BY <1>7, <1>9, <1>10
  <2> QED
    BY <1>2, <2>1 DEF Ends
<1>12. es[Len(es)].key = k
  BY <1>1, <1>3, <1>9, <1>11 DEF Writes, WritesOf
<1> QED
  BY <1>7, <1>10, <1>12 DEF Keys, es

\* The messages that are cached are such as the policy accepts: no handler assigns to them.
Accepting(c, t) ==
  \A k \in Live(c.stores["messages"], t) :
    Value(c.stores["messages"], k) \in Policies[c.policy]["messages"].accepts

LEMMA MessageUpdateTwice ==
  ASSUME NEW c, NEW t \in Nat \ {0}, CacheInv(c, t), NEW d, IsFiniteSet(DOMAIN d.w),
         Scope[d.key] = "messages", Accepting(c, t)
  PROVE  LET e == MessageUpdate(c, d, t) IN MessageUpdate(e, d, t) = e
<1> DEFINE k == d.key
           w == d.w
           Shown(x) == IF k \in Live(x.stores["messages"], t) THEN Value(x.stores["messages"], k) ELSE Stub
           V(x) == IF w[k] = Stub THEN Shown(x) ELSE w[k]
           v == V(c)
           u == [x \in {k} |-> v]
           a == UpsertUsers(c, w, t)
           e == Put(a, k, u[k], t)
           p == Policies[c.policy]["messages"]
<1>0. \A x : MessageUpdate(x, d, t) = Put(UpsertUsers(x, w, t), k, V(x), t)
  BY DEF MessageUpdate
<1>1. /\ "messages" \in Scopes /\ "users" \in Scopes /\ u[k] = v
      /\ t \in Nat /\ Scope[k] = "messages" /\ Scope[k] \in Scopes \ {"users"}
  BY DEF Scopes
<1>2. e = MessageUpdate(c, d, t)
  BY <1>0, <1>1
<1>3. IsFiniteSet(DOMAIN w)
  OBVIOUS
<1> HIDE DEF w, u, k
<1>4. /\ CacheInv(e, t) /\ Put(UpsertUsers(e, w, t), k, u[k], t) = e
      /\ UpsertUsers(e, w, t) = e /\ Stays(e, Scope[k], u, {k}, t)
  BY <1>1, <1>3, WithUserTwice
<1>5. CacheInv(a, t) /\ a.policy = c.policy
  BY <1>3, UserSeenTwice DEF Only
<1> HIDE DEF a
<1>6. e.policy = c.policy
  <2>1. Only(a, e, Scope[k])
    BY <1>1, <1>5, PutOnce
  <2> QED
    BY <1>5, <2>1 DEF Only
<1> HIDE DEF e
<1>7. Put(e, k, V(e), t) = e
  <2>1. CASE ~p.enabled
    <3>1. StoreInv(Policies[e.policy]["messages"], e.stores["messages"], t)
      BY <1>1, <1>4, StoreOfCache
    <3>2. Put(e, k, V(e), t) = OnStore(e, "messages", e.stores["messages"])
      BY <1>1, <1>6, <2>1 DEF Put, Set
    <3> QED
      BY <1>1, <1>4, <3>2, SameOnStore
  <2>2. CASE p.enabled
    <3>1. CASE k \in Keys(e.stores["messages"])
      <4>1. Stays(e, Scope[k], u, {k}, t) /\ k \in Keys(e.stores[Scope[k]]) /\ Scope[k] \in Scopes
        BY <1>1, <1>4, <3>1
      <4>2. k \in Live(e.stores[Scope[k]], t) /\ Value(e.stores[Scope[k]], k) = u[k]
        BY <1>4, <4>1, StaysSaid
      <4>3. Shown(e) = v
        BY <1>1, <4>2
      <4>4. V(e) = u[k]
        BY <1>1, <4>3
      <4> QED
        BY <1>4, <4>4
    <3>2. CASE k \notin Keys(e.stores["messages"])
      <4>1. Shown(e) = Stub
        BY <3>2 DEF Live
      <4>2. v \notin p.accepts
        <5> SUFFICES ASSUME v \in p.accepts PROVE FALSE
          OBVIOUS
        <5>1. /\ Policies[e.policy][Scope[k]].enabled /\ u[k] \in Policies[e.policy][Scope[k]].accepts
              /\ Scope[k] \in Scopes /\ Stays(e, Scope[k], u, {k}, t)
          BY <1>1, <1>4, <1>6, <2>2
        <5>2. k \in Keys(e.stores[Scope[k]])
          BY <1>4, <5>1, PutThere
        <5> QED
          BY <1>1, <3>2, <5>2
      <4>3. Shown(c) = Stub \/ Shown(c) \in p.accepts
        BY DEF Accepting
      <4>4. V(e) = u[k]
        BY <1>1, <4>1, <4>2, <4>3
      <4> QED
        BY <1>4, <4>4
    <3> QED
      BY <3>1, <3>2
  <2> QED
    BY <2>1, <2>2
<1> QED
  BY <1>0, <1>2, <1>4, <1>7

\* What was put, and is there, is accepted.
LEMMA PutAccepted ==
  ASSUME NEW c, NEW t \in Nat \ {0}, CacheInv(c, t), NEW k, Scope[k] \in Scopes, NEW v, NEW e,
         e = Put(c, k, v, t), k \in Keys(e.stores[Scope[k]])
  PROVE  Value(e.stores[Scope[k]], k) \in Policies[e.policy][Scope[k]].accepts
<1> DEFINE w == [x \in {k} |-> v]
<1>1. w[k] = v
  OBVIOUS
<1> HIDE DEF w
<1>2. e = Put(c, k, w[k], t)
  BY <1>1
<1>3. CacheInv(e, t) /\ Stays(e, Scope[k], w, {k}, t)
  BY <1>2, PutOnce
<1> QED
  BY <1>3, StaysSaid

\* The client's own user is but replaced.
LEMMA SelfTwice ==
  ASSUME NEW c, NEW t, CacheInv(c, t), NEW d
  PROVE  SelfUpdate(SelfUpdate(c, d, t), d, t) = SelfUpdate(c, d, t)
<1> DEFINE v == d.w[d.key]
<1>1. \A x : SelfUpdate(x, d, t) = [x EXCEPT !.self = v]
  BY DEF SelfUpdate
<1>2. c = [policy |-> c.policy, stores |-> c.stores, self |-> c.self]
  BY DEF CacheInv
<1> HIDE DEF v
<1>3. [c EXCEPT !.self = v] = [policy |-> c.policy, stores |-> c.stores, self |-> v]
  BY <1>2
<1>4. [[c EXCEPT !.self = v] EXCEPT !.self = v] = [c EXCEPT !.self = v]
  BY <1>3
<1> QED
  BY <1>1, <1>4

\* A member or a message, after its user.
LEMMA CreateTwice ==
  ASSUME NEW c, NEW t \in Nat \ {0}, CacheInv(c, t), NEW k, Scope[k] \in Scopes \ {"users"}, NEW w,
         IsFiniteSet(DOMAIN w)
  PROVE  LET e == Put(UpsertUsers(c, w, t), k, w[k], t)
         IN Put(UpsertUsers(e, w, t), k, w[k], t) = e
<1> DEFINE u == [x \in {k} |-> w[k]]
           e == Put(UpsertUsers(c, w, t), k, u[k], t)
<1>1. u[k] = w[k]
  OBVIOUS
<1> HIDE DEF u
<1>2. /\ CacheInv(e, t) /\ Put(UpsertUsers(e, w, t), k, u[k], t) = e
      /\ UpsertUsers(e, w, t) = e /\ Stays(e, Scope[k], u, {k}, t)
  BY WithUserTwice
<1> QED
  BY <1>1, <1>2
==============================================================================

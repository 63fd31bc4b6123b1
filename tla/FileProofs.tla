--------------------------- MODULE FileProofs ---------------------------
(***************************************************************************)
(* What TLAPS proves of files: of the cache and the reads it shares        *)
(* (FileCache), for every number of files, requests and threads and every  *)
(* budget; and of res.sendFile (SendFile), for every size, range, option   *)
(* and number of replacements.                                             *)
(***************************************************************************)
EXTENDS FileCache, SendFile, DataLemmas

-----------------------------------------------------------------------------
(* The count of the cached bytes.                                          *)

LEMMA LeastIn ==
  ASSUME NEW S \in SUBSET Nat, S # {}
  PROVE  Min(S) \in S
  BY LeastOf DEF Min

Sizes(entries) == [i \in DOMAIN entries |-> SizeOf(entries[i].stat)]

LEMMA SizesAre ==
  ASSUME NEW s \in Seq(Entry)
  PROVE  /\ DOMAIN s = 1 .. Len(s) /\ IsFiniteSet(DOMAIN s)
         /\ NatOn(Sizes(s), DOMAIN s)
         /\ SizeSum(s) = SumFunctionOnSet(Sizes(s), DOMAIN s)
         /\ SizeSum(s) \in Nat
  <1>1. DOMAIN s = 1 .. Len(s) /\ IsFiniteSet(DOMAIN s)
    BY FS_Interval
  <1>2. NatOn(Sizes(s), DOMAIN s)
    <2>1. ASSUME NEW i \in DOMAIN s PROVE Sizes(s)[i] \in Nat
      <3>0. s[i] \in Entry
        BY <1>1
      <3>1. s[i].stat \in 1 .. MaxVersion
        BY <3>0 DEF Entry, Version
      <3>2. SizeOf(s[i].stat) \in Nat
        BY <3>1, FileCacheAssumption
      <3> QED BY <3>2 DEF Sizes
    <2> QED BY <2>1 DEF NatOn
  <1>3. SizeSum(s) = SumFunctionOnSet(Sizes(s), DOMAIN s)
    BY DEF SizeSum, Sizes
  <1>4. SizeSum(s) \in Nat
    BY <1>1, <1>2, <1>3, SumNat
  <1> QED BY <1>1, <1>2, <1>3, <1>4

LEMMA SizeSumEmpty == SizeSum(<<>>) = 0
  <1>1. DOMAIN <<>> = {}
    OBVIOUS
  <1>2. SizeSum(<<>>) = SumFunctionOnSet(Sizes(<<>>), {})
    BY <1>1, Zenon DEF SizeSum, Sizes
  <1> QED BY <1>2, SumEmpty

LEMMA SizeSumAppend ==
  ASSUME NEW s \in Seq(Entry), NEW e \in Entry
  PROVE  SizeSum(Append(s, e)) = SizeSum(s) + SizeOf(e.stat)
  <1> DEFINE t == Append(s, e)
             n == Len(s) + 1
  <1>1. t \in Seq(Entry) /\ Len(t) = n /\ n \in Nat /\ Len(s) \in Nat
    OBVIOUS
  <1>a. DOMAIN t = 1 .. n /\ DOMAIN s = 1 .. Len(s)
    BY <1>1
  <1>2. (DOMAIN t) \ {n} = DOMAIN s /\ n \in DOMAIN t /\ t[n] = e
    <2>1. t[n] = e
      OBVIOUS
    <2> HIDE DEF t
    <2>2. (1 .. n) \ {n} = 1 .. Len(s) /\ n \in 1 .. n
      BY <1>1
    <2> QED BY <1>a, <2>1, <2>2
  <1>3. Sizes(t)[n] = SizeOf(e.stat)
    BY <1>2 DEF Sizes
  <1>4. \A i \in DOMAIN s : Sizes(t)[i] = Sizes(s)[i]
    <2> SUFFICES ASSUME NEW i \in DOMAIN s PROVE Sizes(t)[i] = Sizes(s)[i]
      OBVIOUS
    <2>1. i \in DOMAIN t /\ t[i] = s[i]
      BY <1>1
    <2> QED BY <2>1 DEF Sizes
  <1> HIDE DEF t, n
  <1>5. SizeSum(t) = SumFunctionOnSet(Sizes(t), DOMAIN t)
    BY <1>1, SizesAre
  <1>6. SumFunctionOnSet(Sizes(t), DOMAIN t)
          = Sizes(t)[n] + SumFunctionOnSet(Sizes(t), DOMAIN s)
    BY <1>1, <1>2, SizesAre, SumRemove
  <1>7. SumFunctionOnSet(Sizes(t), DOMAIN s) = SumFunctionOnSet(Sizes(s), DOMAIN s)
    BY <1>4, SizesAre, SumSame
  <1>8. SizeSum(s) = SumFunctionOnSet(Sizes(s), DOMAIN s) /\ SizeSum(s) \in Nat
    BY SizesAre
  <1>9. SizeOf(e.stat) \in Nat
    BY FileCacheAssumption DEF Entry, Version
  <1> QED BY <1>3, <1>5, <1>6, <1>7, <1>8, <1>9 DEF t

\* The sum of two pieces of a cache: by induction on the length of the second.
LEMMA SizeSumConcat ==
  ASSUME NEW s \in Seq(Entry), NEW t \in Seq(Entry)
  PROVE  SizeSum(s \o t) = SizeSum(s) + SizeSum(t)
  <1> DEFINE Adds(u) == SizeSum(s \o u) = SizeSum(s) + SizeSum(u)
             N == {n \in Nat : \A u \in Seq(Entry) : Len(u) = n => Adds(u)}
  <1>1. 0 \in N
    <2>1. ASSUME NEW u \in Seq(Entry), Len(u) = 0 PROVE Adds(u)
      <3>1. u = <<>> /\ s \o u = s
        BY <2>1
      <3> QED BY <3>1, SizeSumEmpty, SizesAre
    <2> HIDE DEF Adds
    <2> QED BY <2>1
  <1>2. ASSUME NEW n \in Nat, n \in N PROVE n + 1 \in N
    <2>1. ASSUME NEW u \in Seq(Entry), Len(u) = n + 1 PROVE Adds(u)
      <3> DEFINE v == SubSeq(u, 1, n)
                 e == u[n + 1]
      <3>1. v \in Seq(Entry) /\ Len(v) = n /\ e \in Entry
        BY <2>1
      <3>2. u = Append(v, e) /\ s \o u = Append(s \o v, e) /\ s \o v \in Seq(Entry)
        BY <2>1
      <3>3. Adds(v)
        BY <1>2, <3>1
      <3> HIDE DEF v, e
      <3>4. SizeSum(u) = SizeSum(v) + SizeOf(e.stat)
        BY <3>1, <3>2, SizeSumAppend
      <3>5. SizeSum(s \o u) = SizeSum(s \o v) + SizeOf(e.stat)
        BY <3>1, <3>2, SizeSumAppend
      <3>6. SizeOf(e.stat) \in Nat
        BY <3>1, FileCacheAssumption DEF Entry, Version
      <3>7. SizeSum(s) \in Nat /\ SizeSum(v) \in Nat
        BY <3>1, SizesAre
      <3> QED BY <3>3, <3>4, <3>5, <3>6, <3>7
    <2> HIDE DEF Adds
    <2> QED BY <2>1
  <1>3. Len(t) \in N
    <2> HIDE DEF N
    <2> QED BY <1>1, <1>2, SetInduction
  <1> HIDE DEF Adds
  <1>4. Adds(t)
    BY <1>3
  <1> QED BY <1>4 DEF Adds

LEMMA SizeSumCut ==
  ASSUME NEW s \in Seq(Entry), NEW n \in 0 .. Len(s)
  PROVE  SizeSum(s) = SizeSum(SubSeq(s, 1, n)) + SizeSum(SubSeq(s, n + 1, Len(s)))
  <1> DEFINE a == SubSeq(s, 1, n)
             b == SubSeq(s, n + 1, Len(s))
  <1>0. a \in Seq(Entry) /\ b \in Seq(Entry) /\ Len(a) = n /\ Len(b) = Len(s) - n
    OBVIOUS
  <1>a. /\ \A i \in 1 .. n : a[i] = s[i]
        /\ \A i \in 1 .. Len(s) - n : b[i] = s[n + i]
    OBVIOUS
  <1>1. s = a \o b
    <2> HIDE DEF a, b
    <2>1. a \o b \in Seq(Entry) /\ Len(a \o b) = Len(s)
      BY <1>0
    <2>2. ASSUME NEW i \in 1 .. Len(s) PROVE s[i] = (a \o b)[i]
      <3>1. CASE i <= n
        <4>1. i \in 1 .. n
          BY <3>1
        <4>2. (a \o b)[i] = a[i]
          BY <4>1, <1>0
        <4>3. a[i] = s[i]
          BY <4>1, <1>a
        <4> QED BY <4>2, <4>3
      <3>2. CASE ~(i <= n)
        <4>1. i - n \in 1 .. Len(s) - n /\ n + (i - n) = i
          BY <3>2
        <4>2. (a \o b)[i] = b[i - n]
          BY <3>2, <1>0
        <4> QED BY <4>1, <4>2, <1>a
      <3> QED BY <3>1, <3>2
    <2> QED BY <2>1, <2>2, SeqEqual
  <1> HIDE DEF a, b
  <1>2. SizeSum(a \o b) = SizeSum(a) + SizeSum(b)
    BY <1>0, SizeSumConcat
  <1> QED BY <1>1, <1>2 DEF a, b

\* As many of the oldest entries are dropped as bring the count to the budget.
LEMMA DroppedIs ==
  ASSUME NEW s \in Seq(Entry), NEW count
  PROVE  /\ Dropped(s, count) \in 0 .. Len(s)
         /\ \/ Dropped(s, count) = Len(s)
            \/ count - SizeSum(SubSeq(s, 1, Dropped(s, count))) <= Budget
  <1> DEFINE Enough(n) == n = Len(s) \/ count - SizeSum(SubSeq(s, 1, n)) <= Budget
             D == {n \in 0 .. Len(s) : Enough(n)}
  <1>1. Len(s) \in Nat
    OBVIOUS
  <1>2. D \in SUBSET Nat /\ Len(s) \in D
    BY <1>1
  <1>3. Dropped(s, count) = Min(D)
    BY DEF Dropped
  <1> HIDE DEF D
  <1>4. Dropped(s, count) \in D
    BY <1>2, <1>3, LeastIn
  <1> QED BY <1>4 DEF D

-----------------------------------------------------------------------------
(* What pending.then leaves in the cache.                                  *)

OneEach(s) == \A i, j \in DOMAIN s : s[i].file = s[j].file => i = j
From(s, t) == \A i \in DOMAIN s : \E j \in DOMAIN t : s[i] = t[j]
Lacks(s, f) == \A i \in DOMAIN s : s[i].file # f

LEMMA WithoutIs ==
  ASSUME cache \in Seq(Entry), CacheAccounted, NEW f \in Files
  PROVE  /\ Without(f) \in Seq(Entry) /\ From(Without(f), cache)
         /\ OneEach(Without(f)) /\ Lacks(Without(f), f)
         /\ BytesWithout(f) = SizeSum(Without(f))
  <1>0. OneEach(cache) /\ bytes = SizeSum(cache)
    BY DEF CacheAccounted, OneEach
  <1>1. CASE PlaceOf(f) = {}
    <2>1. Without(f) = cache /\ BytesWithout(f) = bytes
      BY <1>1 DEF Without, BytesWithout
    <2>2. Lacks(cache, f)
      BY <1>1 DEF PlaceOf, Lacks
    <2>3. From(cache, cache)
      BY DEF From
    <2> QED BY <1>0, <2>1, <2>2, <2>3
  <1>2. CASE PlaceOf(f) # {}
    <2> DEFINE p == Place(f)
               a == SubSeq(cache, 1, p - 1)
               b == SubSeq(cache, p + 1, Len(cache))
    <2>1. p \in DOMAIN cache /\ cache[p].file = f
      BY <1>2 DEF PlaceOf, Place
    <2>2. Without(f) = a \o b
      BY <1>2, Zenon DEF Without, RemoveAt
    <2>3. BytesWithout(f) = bytes - SizeOf(cache[p].stat)
      BY <1>2, Zenon DEF BytesWithout
    <2> HIDE DEF p
    <2>4. p \in 1 .. Len(cache) /\ Len(cache) \in Nat /\ cache[p] \in Entry
      BY <2>1
    <2>5. /\ a \in Seq(Entry) /\ Len(a) = p - 1 /\ b \in Seq(Entry) /\ Len(b) = Len(cache) - p
          /\ \A i \in 1 .. p - 1 : a[i] = cache[i]
          /\ \A i \in 1 .. Len(cache) - p : b[i] = cache[p + i]
      BY <2>4
    <2>6. /\ a \o b \in Seq(Entry) /\ Len(a \o b) = Len(cache) - 1
          /\ \A i \in 1 .. Len(cache) - 1 :
                (a \o b)[i] = IF i < p THEN cache[i] ELSE cache[i + 1]
      <3> HIDE DEF a, b
      <3>0. a \o b \in Seq(Entry) /\ Len(a \o b) = Len(a) + Len(b)
        BY <2>5
      <3>1. Len(a \o b) = Len(cache) - 1
        BY <2>4, <2>5, <3>0
      <3>2. ASSUME NEW i \in 1 .. Len(cache) - 1
            PROVE  (a \o b)[i] = IF i < p THEN cache[i] ELSE cache[i + 1]
        <4>1. CASE i < p
          BY <4>1, <2>4, <2>5
        <4>2. CASE ~(i < p)
          <5>1. i - (p - 1) \in 1 .. Len(cache) - p /\ p + (i - (p - 1)) = i + 1
            BY <4>2, <2>4
          <5>2. (a \o b)[i] = b[i - (p - 1)]
            BY <4>2, <2>4, <2>5
          <5>3. b[i - (p - 1)] = cache[i + 1]
            BY <5>1, <2>5
          <5> QED BY <4>2, <5>2, <5>3
        <4> QED BY <4>1, <4>2
      <3> QED BY <3>0, <3>1, <3>2
    <2> DEFINE c == a \o b
    <2>7. DOMAIN c = 1 .. Len(cache) - 1 /\ DOMAIN cache = 1 .. Len(cache)
      BY <2>6
    <2> HIDE DEF a, b, c
    <2>8. \A i \in DOMAIN c : \E j \in DOMAIN cache :
             c[i] = cache[j] /\ j # p /\ j = IF i < p THEN i ELSE i + 1
      BY <2>4, <2>6, <2>7 DEF c
    <2>9. From(c, cache)
      BY <2>8 DEF From
    <2>10. Lacks(c, f)
      BY <2>1, <2>8, <1>0 DEF Lacks, OneEach
    <2>11. OneEach(c)
      <3> SUFFICES ASSUME NEW i \in DOMAIN c, NEW j \in DOMAIN c, c[i].file = c[j].file
                   PROVE  i = j
        BY DEF OneEach
      <3>1. PICK k \in DOMAIN cache : c[i] = cache[k] /\ k = IF i < p THEN i ELSE i + 1
        BY <2>8
      <3>2. PICK l \in DOMAIN cache : c[j] = cache[l] /\ l = IF j < p THEN j ELSE j + 1
        BY <2>8
      <3>3. k = l
        BY <1>0, <3>1, <3>2 DEF OneEach
      <3>4. i \in Int /\ j \in Int /\ p \in Int
        BY <2>4, <2>7
      <3> QED BY <3>1, <3>2, <3>3, <3>4
    <2>12. SizeSum(c) = SizeSum(a) + SizeSum(b)
      BY <2>5, SizeSumConcat DEF c
    <2>13. SizeSum(cache) = SizeSum(a) + SizeOf(cache[p].stat) + SizeSum(b)
      <3>1. SizeSum(cache) = SizeSum(SubSeq(cache, 1, p)) + SizeSum(b)
        BY <2>4, SizeSumCut DEF b
      <3>2. SubSeq(cache, 1, p) = Append(a, cache[p])
        BY <2>4 DEF a
      <3>3. SizeSum(Append(a, cache[p])) = SizeSum(a) + SizeOf(cache[p].stat)
        BY <2>4, <2>5, SizeSumAppend
      <3> QED BY <3>1, <3>2, <3>3
    <2>14. SizeSum(a) \in Nat /\ SizeSum(b) \in Nat /\ SizeOf(cache[p].stat) \in Nat
      BY <2>4, <2>5, SizesAre, FileCacheAssumption DEF Entry, Version
    <2>15. BytesWithout(f) = SizeSum(c)
      BY <1>0, <2>3, <2>12, <2>13, <2>14
    <2> QED BY <2>2, <2>6, <2>9, <2>10, <2>11, <2>15 DEF c
  <1> QED BY <1>1, <1>2

\* A tail of a sequence of entries, one for a file, is one.
LEMMA TailIs ==
  ASSUME NEW s \in Seq(Entry), OneEach(s), NEW n \in 0 .. Len(s)
  PROVE  /\ SubSeq(s, n + 1, Len(s)) \in Seq(Entry)
         /\ From(SubSeq(s, n + 1, Len(s)), s)
         /\ OneEach(SubSeq(s, n + 1, Len(s)))
  <1> DEFINE t == SubSeq(s, n + 1, Len(s))
  <1>1. Len(s) \in Nat /\ t \in Seq(Entry) /\ Len(t) = Len(s) - n
    OBVIOUS
  <1>2. \A i \in 1 .. Len(s) - n : t[i] = s[n + i]
    BY <1>1
  <1>3. DOMAIN t = 1 .. Len(s) - n /\ DOMAIN s = 1 .. Len(s)
    BY <1>1
  <1> HIDE DEF t
  <1>4. \A i \in DOMAIN t : n + i \in DOMAIN s /\ t[i] = s[n + i] /\ i \in Int
    BY <1>1, <1>2, <1>3
  <1>5. From(t, s)
    BY <1>4 DEF From
  <1>6. OneEach(t)
    <2> SUFFICES ASSUME NEW i \in DOMAIN t, NEW j \in DOMAIN t, t[i].file = t[j].file
                 PROVE  i = j
      BY DEF OneEach
    <2>1. n + i = n + j
      BY <1>4 DEF OneEach
    <2> QED BY <2>1, <1>4
  <1> QED BY <1>1, <1>5, <1>6 DEF t

\* The entry stored for a read.
Stored(r, data) == [file |-> asked[r].file, stat |-> StatAsked(r), data |-> data]

LEMMA StoreKeeps ==
  ASSUME cache \in Seq(Entry), CacheAccounted, NEW r \in Requests, asked[r] \in Data,
         NEW data \in Data, Store(r, data)
  PROVE  /\ cache' \in Seq(Entry) /\ CacheAccounted'
         /\ \A i \in DOMAIN cache' :
               \/ cache'[i] = Stored(r, data)
               \/ \E j \in DOMAIN cache : cache'[i] = cache[j]
  <1>1. CASE ~(Caching /\ SizeOf(StatAsked(r)) <= MaxEntry)
    <2>1. cache' = cache /\ bytes' = bytes
      BY <1>1 DEF Store
    <2> QED BY <2>1 DEF CacheAccounted, SizeSum
  <1>2. CASE Caching /\ SizeOf(StatAsked(r)) <= MaxEntry
    <2> DEFINE f == asked[r].file
               entry == Stored(r, data)
               entries == Append(Without(f), entry)
               count == BytesWithout(f) + SizeOf(StatAsked(r))
               n == Dropped(entries, count)
    <2>1. /\ cache' = SubSeq(entries, n + 1, Len(entries))
          /\ bytes' = count - SizeSum(SubSeq(entries, 1, n))
      BY <1>2, Zenon DEF Store, Stored
    <2>2. f \in Files /\ entry \in Entry /\ entry.file = f /\ entry.stat = StatAsked(r)
      BY DEF Data, Entry, Stored, StatAsked
    <2>3. /\ Without(f) \in Seq(Entry) /\ From(Without(f), cache)
          /\ OneEach(Without(f)) /\ Lacks(Without(f), f)
          /\ BytesWithout(f) = SizeSum(Without(f))
      BY <2>2, WithoutIs
    <2> HIDE DEF f, entry
    <2>4. /\ entries \in Seq(Entry) /\ Len(entries) = Len(Without(f)) + 1
          /\ entries[Len(Without(f)) + 1] = entry
          /\ \A i \in 1 .. Len(Without(f)) : entries[i] = Without(f)[i]
          /\ DOMAIN entries = 1 .. Len(Without(f)) + 1
          /\ DOMAIN Without(f) = 1 .. Len(Without(f)) /\ Len(Without(f)) \in Nat
      BY <2>2, <2>3
    <2>5. count = SizeSum(entries)
      BY <2>2, <2>3, SizeSumAppend
    <2> HIDE DEF entries, count
    <2>6. OneEach(entries)
      <3> SUFFICES ASSUME NEW i \in DOMAIN entries, NEW j \in DOMAIN entries,
                          entries[i].file = entries[j].file
                   PROVE  i = j
        BY DEF OneEach
      <3>1. CASE i \in DOMAIN Without(f) /\ j \in DOMAIN Without(f)
        BY <3>1, <2>3, <2>4 DEF OneEach
      <3>2. CASE i \notin DOMAIN Without(f) \/ j \notin DOMAIN Without(f)
        <4>1. ASSUME NEW k \in DOMAIN entries, entries[k].file = f
              PROVE  k = Len(Without(f)) + 1
          BY <4>1, <2>3, <2>4 DEF Lacks
        <4>2. i = Len(Without(f)) + 1 \/ j = Len(Without(f)) + 1
          BY <3>2, <2>4
        <4>3. entries[i].file = f /\ entries[j].file = f
          BY <4>2, <2>2, <2>4
        <4> QED BY <4>1, <4>3
      <3> QED BY <3>1, <3>2
    <2>7. n \in 0 .. Len(entries)
      BY <2>4, DroppedIs
    <2>8. n = Len(entries) \/ count - SizeSum(SubSeq(entries, 1, n)) <= Budget
      BY <2>4, DroppedIs
    <2> HIDE DEF n
    <2>9. cache' \in Seq(Entry) /\ From(cache', entries) /\ OneEach(cache')
      BY <2>1, <2>4, <2>6, <2>7, TailIs
    <2>10. SizeSum(entries) = SizeSum(SubSeq(entries, 1, n)) + SizeSum(cache')
      BY <2>1, <2>4, <2>7, SizeSumCut
    <2>11. SubSeq(entries, 1, n) \in Seq(Entry)
      BY <2>4, <2>7
    <2>12. SizeSum(SubSeq(entries, 1, n)) \in Nat /\ SizeSum(cache') \in Nat
      BY <2>9, <2>11, SizesAre
    <2>13. bytes' = SizeSum(cache')
      BY <2>1, <2>5, <2>10, <2>12
    <2>14. bytes' <= Budget
      <3>1. CASE n = Len(entries)
        <4>1. SubSeq(entries, 1, n) = entries
          BY <2>4, <3>1
        <4>2. bytes' = 0
          <5>1. SizeSum(SubSeq(entries, 1, n)) = SizeSum(entries)
            BY <4>1
          <5> QED BY <2>10, <2>12, <2>13, <5>1
        <4> QED BY <4>2, FileCacheAssumption
      <3>2. CASE count - SizeSum(SubSeq(entries, 1, n)) <= Budget
        BY <3>2, <2>1
      <3> QED BY <2>8, <3>1, <3>2
    <2>15. CacheAccounted'
      <3>1. \A i, j \in DOMAIN cache' : cache'[i].file = cache'[j].file => i = j
        BY <2>9 DEF OneEach
      <3>2. bytes' = SizeSum(cache)'
        BY <2>13 DEF SizeSum
      <3> QED BY <3>1, <3>2, <2>14 DEF CacheAccounted
    <2>16. ASSUME NEW i \in DOMAIN cache'
           PROVE  cache'[i] = entry \/ \E j \in DOMAIN cache : cache'[i] = cache[j]
      <3>1. PICK k \in DOMAIN entries : cache'[i] = entries[k]
        BY <2>9 DEF From
      <3>2. CASE k \in DOMAIN Without(f)
        BY <3>1, <3>2, <2>3, <2>4 DEF From
      <3>3. CASE k \notin DOMAIN Without(f)
        BY <3>1, <3>3, <2>4
      <3> QED BY <3>2, <3>3
    <2> QED BY <2>9, <2>15, <2>16 DEF entry
  <1> QED BY <1>1, <1>2

-----------------------------------------------------------------------------
(* The reads under way. The messages a thread has not done with are a queue: *)
(* what it answered and nobody took, then what it was asked and did not read. *)

Pending(t) == Len(outbox[t]) + Len(inbox[t])
KeyAt(t, i) ==
    IF i <= Len(outbox[t]) THEN outbox[t][i].key
                           ELSE inbox[t][i - Len(outbox[t])].key

\* A key is in one message only, and has its read parked; what is parked waits
\* for a message; and no read is parked twice.
KeysApart ==
    \A t, u \in Threads : \A i \in 1 .. Pending(t), j \in 1 .. Pending(u) :
        KeyAt(t, i) = KeyAt(u, j) => t = u /\ i = j
KeysParked == \A t \in Threads : \A i \in 1 .. Pending(t) : tasks[KeyAt(t, i)] # None
TasksSent ==
    \A k \in Keys : tasks[k] # None =>
        \E t \in Threads : \E i \in 1 .. Pending(t) : KeyAt(t, i) = k
TasksApart == \A k, l \in Keys : tasks[k] # None /\ tasks[k] = tasks[l] => k = l

\* A message is about the file of the read its key parks, and brings bytes no
\* older than the stat of that read.
AskedOf(k) == asked[tasks[k]]
Sought ==
    \A t \in Threads : \A i \in 1 .. Len(inbox[t]) :
        inbox[t][i].file = AskedOf(inbox[t][i].key).file
Found ==
    \A t \in Threads : \A i \in 1 .. Len(outbox[t]) :
        outbox[t][i].data # NoData =>
            /\ outbox[t][i].data.file = AskedOf(outbox[t][i].key).file
            /\ outbox[t][i].data.version >= AskedOf(outbox[t][i].key).version

\* A parked read is the one in flight for its file, and who joins a read wants
\* the file it reads.
TaskReads ==
    \A k \in Keys : tasks[k] # None =>
        AskedOf(k) # NoData /\ inFlight[AskedOf(k).file] = tasks[k]
FlightReads ==
    \A f \in Files : inFlight[f] # None =>
        asked[inFlight[f]] # NoData /\ asked[inFlight[f]].file = f
JoinsSame ==
    \A r \in Requests : joined[r] # None =>
        /\ asked[r] # NoData /\ asked[joined[r]] # NoData
        /\ asked[joined[r]].file = asked[r].file
NothingYet == \A r \in Requests : asked[r] = NoData => joined[r] = None /\ answer[r] = NoAnswer
StatsRead == \A r \in Requests : asked[r] # NoData => asked[r].version <= version[asked[r].file]

KeysInv == KeysApart /\ KeysParked /\ TasksSent /\ TasksApart
MailInv == Sought /\ Found
ReadsInv == TaskReads /\ FlightReads /\ JoinsSame /\ NothingYet /\ StatsRead
GivenInv == RightFile /\ NotOlderThanRead
CacheInv == CacheAccounted /\ CachedNotOlder
Inv == TypeOK /\ KeysInv /\ MailInv /\ ReadsInv /\ GivenInv /\ CacheInv

LEMMA NoDataApart == NoData \notin Data /\ NoAnswer \notin Data /\ NoData # NoAnswer
  <1>1. None \notin Files
    BY FileCacheAssumption
  <1> QED BY <1>1 DEF NoData, NoAnswer, Data

LEMMA PendingIs ==
  ASSUME TypeOK, NEW t \in Threads
  PROVE  /\ inbox[t] \in Seq([key : Keys, file : Files]) /\ Len(inbox[t]) \in Nat
         /\ outbox[t] \in Seq([key : Keys, data : Data \cup {NoData}])
         /\ Len(outbox[t]) \in Nat /\ Pending(t) = Len(outbox[t]) + Len(inbox[t])
         /\ Pending(t) \in Nat
         /\ \A i \in 1 .. Pending(t) : KeyAt(t, i) \in Keys
  <1> DEFINE Asks == [key : Keys, file : Files]
             Answers == [key : Keys, data : Data \cup {NoData}]
  <1>a. inbox[t] \in Seq(Asks) /\ outbox[t] \in Seq(Answers)
    BY DEF TypeOK
  <1>b. \A a \in Asks : a.key \in Keys
    OBVIOUS
  <1>c. \A a \in Answers : a.key \in Keys
    OBVIOUS
  <1> HIDE DEF Asks, Answers
  <1> DEFINE m == Len(outbox[t])
             n == Len(inbox[t])
  <1>d. m \in Nat /\ n \in Nat
    BY <1>a
  <1>e. Pending(t) = m + n
    BY Zenon DEF Pending
  <1>f. \A i \in 1 .. m : outbox[t][i] \in Answers
    BY <1>a
  <1>g. \A i \in 1 .. n : inbox[t][i] \in Asks
    BY <1>a
  <1>h. \A i : KeyAt(t, i) = IF i <= m THEN outbox[t][i].key ELSE inbox[t][i - m].key
    BY DEF KeyAt
  <1> HIDE DEF m, n
  <1>2. ASSUME NEW i \in 1 .. Pending(t) PROVE KeyAt(t, i) \in Keys
    <2>1. CASE i <= m
      <3>1. outbox[t][i] \in Answers
        BY <1>d, <1>e, <1>f, <2>1
      <3> QED BY <3>1, <2>1, <1>c, <1>h
    <2>2. CASE ~(i <= m)
      <3>1. i - m \in 1 .. n
        BY <1>d, <1>e, <2>2
      <3>2. inbox[t][i - m] \in Asks
        BY <1>g, <3>1
      <3> QED BY <3>2, <2>2, <1>b, <1>h
    <2> QED BY <2>1, <2>2
  <1>3. Pending(t) \in Nat
    BY <1>d, <1>e
  <1> QED BY <1>a, <1>d, <1>e, <1>2, <1>3 DEF Asks, Answers, m, n

LEMMA TailOf ==
  ASSUME NEW S, NEW s \in Seq(S), s # <<>>
  PROVE  /\ Len(s) \in Nat /\ 1 \in 1 .. Len(s) /\ Head(s) = s[1] /\ s[1] \in S
         /\ Tail(s) \in Seq(S) /\ Len(Tail(s)) = Len(s) - 1
         /\ \A i \in 1 .. Len(s) - 1 : i + 1 \in 1 .. Len(s) /\ Tail(s)[i] = s[i + 1]
  OBVIOUS

LEMMA AppendOf ==
  ASSUME NEW S, NEW s \in Seq(S), NEW e \in S
  PROVE  Append(s, e) \in Seq(S)
  OBVIOUS

LEMMA PendingNat == ASSUME TypeOK, NEW t \in Threads PROVE Pending(t) \in Nat
  BY PendingIs

LEMMA KeyIn ==
  ASSUME TypeOK, NEW t \in Threads, NEW i \in 1 .. Pending(t)
  PROVE  KeyAt(t, i) \in Keys
  BY PendingIs

LEMMA InvInit == Init => Inv
  <1> SUFFICES ASSUME Init PROVE Inv
    OBVIOUS
  <1>1. \A t \in Threads : inbox[t] = <<>> /\ outbox[t] = <<>> /\ Pending(t) = 0
    BY DEF Init, Pending
  <1>2. TypeOK
    <2>1. 1 \in Version /\ 0 \in Keys
      BY FileCacheAssumption DEF Version, Keys
    <2> QED BY <2>1 DEF Init, TypeOK
  <1>3. KeysInv
    BY <1>1 DEF KeysInv, KeysApart, KeysParked, TasksSent, TasksApart, Init
  <1>4. MailInv
    BY <1>1 DEF MailInv, Sought, Found
  <1>5. ReadsInv
    BY DEF Init, ReadsInv, TaskReads, FlightReads, JoinsSame, NothingYet, StatsRead
  <1>6. GivenInv
    BY NoDataApart DEF Init, GivenInv, RightFile, NotOlderThanRead
  <1>7. CacheInv
    BY SizeSumEmpty, FileCacheAssumption DEF Init, CacheInv, CacheAccounted, CachedNotOlder
  <1> QED BY <1>2, <1>3, <1>4, <1>5, <1>6, <1>7 DEF Inv

-----------------------------------------------------------------------------
(* Each step.                                                              *)

LEMMA KeysSame ==
  ASSUME KeysInv, tasks' = tasks, inbox' = inbox, outbox' = outbox
  PROVE  KeysInv'
  <1>1. \A t : Pending(t)' = Pending(t)
    BY DEF Pending
  <1>2. \A t, i : KeyAt(t, i)' = KeyAt(t, i)
    BY DEF KeyAt
  <1>3. KeysApart'
    <2> SUFFICES ASSUME NEW t \in Threads, NEW u \in Threads,
                        NEW i \in 1 .. Pending(t)', NEW j \in 1 .. Pending(u)',
                        KeyAt(t, i)' = KeyAt(u, j)'
                 PROVE  t = u /\ i = j
      BY DEF KeysApart
    <2>1. i \in 1 .. Pending(t) /\ j \in 1 .. Pending(u) /\ KeyAt(t, i) = KeyAt(u, j)
      BY <1>1, <1>2
    <2> QED BY <2>1 DEF KeysInv, KeysApart
  <1>4. KeysParked'
    BY <1>1, <1>2 DEF KeysInv, KeysParked
  <1>5. TasksSent'
    BY <1>1, <1>2 DEF KeysInv, TasksSent
  <1>6. TasksApart'
    BY DEF KeysInv, TasksApart
  <1> QED BY <1>3, <1>4, <1>5, <1>6 DEF KeysInv

LEMMA EditKeeps ==
  ASSUME Inv, NEW f \in Files, Edit(f)
  PROVE  Inv'
  <1>1. /\ version[f] < MaxVersion /\ version' = [version EXCEPT ![f] = @ + 1]
        /\ UNCHANGED <<requestVars, cacheVars, taskVars, threadVars>>
    BY DEF Edit
  <1>2. version \in [Files -> Version]
    BY DEF Inv, TypeOK
  <1>3. version' \in [Files -> Version] /\ \A g \in Files : version'[g] >= version[g]
    BY <1>1, <1>2, FileCacheAssumption DEF Version
  <1> USE <1>1 DEF requestVars, cacheVars, taskVars, threadVars
  <1>4. TypeOK'
    BY <1>3 DEF Inv, TypeOK
  <1>5. KeysInv' /\ MailInv'
    BY KeysSame DEF Inv, MailInv, Sought, Found, AskedOf
  <1>6. ReadsInv'
    <2>1. StatsRead'
      <3> SUFFICES ASSUME NEW r \in Requests, asked[r] # NoData
                   PROVE  asked[r].version <= version'[asked[r].file]
        BY DEF StatsRead
      <3>1. asked[r] \in Data
        BY DEF Inv, TypeOK
      <3>2. asked[r].version <= version[asked[r].file]
        BY DEF Inv, ReadsInv, StatsRead
      <3> QED BY <1>2, <1>3, <3>1, <3>2 DEF Data, Version
    <2> QED BY <2>1 DEF Inv, ReadsInv, TaskReads, FlightReads, JoinsSame, NothingYet, AskedOf
  <1>7. GivenInv' /\ CacheInv'
    BY DEF Inv, GivenInv, CacheInv, RightFile, NotOlderThanRead, CacheAccounted,
           CachedNotOlder, SizeSum
  <1> QED BY <1>4, <1>5, <1>6, <1>7 DEF Inv

\* What the messages' keys become when a thread is sent one more, when it reads
\* one, and when its first is taken.
KeysGrow(u, k) ==
    /\ \A t \in Threads : Pending(t)' = IF t = u THEN Pending(t) + 1 ELSE Pending(t)
    /\ \A t \in Threads : \A i \in 1 .. Pending(t) : KeyAt(t, i)' = KeyAt(t, i)
    /\ \A n : n = Pending(u) + 1 => KeyAt(u, n)' = k
KeysStay ==
    /\ \A t \in Threads : Pending(t)' = Pending(t)
    /\ \A t \in Threads : \A i \in 1 .. Pending(t) : KeyAt(t, i)' = KeyAt(t, i)
KeysShift(u) ==
    /\ \A t \in Threads : Pending(t)' = IF t = u THEN Pending(t) - 1 ELSE Pending(t)
    /\ \A t \in Threads \ {u} : \A i \in 1 .. Pending(t) : KeyAt(t, i)' = KeyAt(t, i)
    /\ \A i : i \in 1 .. Pending(u) - 1 => KeyAt(u, i)' = KeyAt(u, i + 1)

LEMMA SameMailSameKeys ==
  ASSUME NEW t, inbox'[t] = inbox[t], outbox'[t] = outbox[t]
  PROVE  Pending(t)' = Pending(t) /\ \A i \in 1 .. Pending(t) : KeyAt(t, i)' = KeyAt(t, i)
  <1>1. Pending(t)' = Pending(t)
    BY Zenon DEF Pending
  <1>2. \A i : KeyAt(t, i)' = KeyAt(t, i)
    BY Zenon DEF KeyAt
  <1> QED BY <1>1, <1>2

LEMMA SentKeys ==
  ASSUME TypeOK, NEW u \in Threads, NEW a \in [key : Keys, file : Files],
         inbox' = [inbox EXCEPT ![u] = Append(@, a)], outbox' = outbox
  PROVE  KeysGrow(u, a.key)
  <1>1. \A t \in Threads : outbox'[t] = outbox[t]
    OBVIOUS
  <1>2. \A t \in Threads : inbox'[t] = IF t = u THEN Append(inbox[t], a) ELSE inbox[t]
    BY DEF TypeOK
  <1>3. ASSUME NEW t \in Threads, t # u
        PROVE  Pending(t)' = Pending(t) /\ \A i \in 1 .. Pending(t) : KeyAt(t, i)' = KeyAt(t, i)
    BY <1>1, <1>2, <1>3, SameMailSameKeys
  <1> DEFINE m == Len(outbox[u])
             n == Len(inbox[u])
             out == outbox[u]
             in == inbox[u]
  <1>4. /\ in \in Seq([key : Keys, file : Files]) /\ m \in Nat /\ n \in Nat
        /\ Pending(u) = m + n
    BY PendingIs DEF Pending
  <1>5. inbox'[u] = Append(in, a) /\ outbox'[u] = out
    BY <1>1, <1>2
  <1>6. Len(Append(in, a)) = n + 1 /\ Append(in, a)[n + 1] = a
    BY <1>4
  <1>7. \A i \in 1 .. n : Append(in, a)[i] = in[i]
    BY <1>4
  <1>8. Pending(u)' = m + (n + 1)
    BY <1>5, <1>6, Zenon DEF Pending
  <1>9. \A i : KeyAt(u, i)' = IF i <= m THEN out[i].key ELSE Append(in, a)[i - m].key
    <2>1. \A i : KeyAt(u, i)' = IF i <= Len(outbox'[u]) THEN outbox'[u][i].key
                                  ELSE inbox'[u][i - Len(outbox'[u])].key
      BY DEF KeyAt
    <2> QED BY <1>5, <2>1, Zenon
  <1>10. \A i : KeyAt(u, i) = IF i <= m THEN out[i].key ELSE in[i - m].key
    BY DEF KeyAt
  <1> HIDE DEF m, n, out, in
  <1>11. Pending(u)' = Pending(u) + 1
    BY <1>4, <1>8
  <1>12. ASSUME NEW i \in 1 .. Pending(u) PROVE KeyAt(u, i)' = KeyAt(u, i)
    <2>1. i \in 1 .. m + n
      BY <1>4
    <2>2. CASE i <= m
      BY <1>9, <1>10, <2>2
    <2>3. CASE ~(i <= m)
      <3>1. i - m \in 1 .. n
        BY <1>4, <2>1, <2>3
      <3> QED BY <1>7, <1>9, <1>10, <2>3, <3>1
    <2> QED BY <2>2, <2>3
  <1>13. ASSUME NEW i, i = Pending(u) + 1 PROVE KeyAt(u, i)' = a.key
    <2>1. ~(i <= m) /\ i - m = n + 1
      BY <1>4, <1>13
    <2> QED BY <1>6, <1>9, <2>1
  <1> QED BY <1>3, <1>11, <1>12, <1>13 DEF KeysGrow

LEMMA ReadKeys ==
  ASSUME TypeOK, NEW u \in Threads, ThreadReads(u)
  PROVE  KeysStay
  <1> DEFINE ask == Head(inbox[u])
  <1>1. inbox[u] # <<>> /\ inbox' = [inbox EXCEPT ![u] = Tail(@)]
    BY DEF ThreadReads
  <1>2. PICK data : outbox' = [outbox EXCEPT ![u] = Append(@, [key |-> ask.key, data |-> data])]
    BY DEF ThreadReads
  <1> DEFINE a == [key |-> ask.key, data |-> data]
  <1>3. \A t \in Threads : t # u => inbox'[t] = inbox[t] /\ outbox'[t] = outbox[t]
    BY <1>1, <1>2 DEF TypeOK
  <1>4. ASSUME NEW t \in Threads, t # u
        PROVE  Pending(t)' = Pending(t) /\ \A i \in 1 .. Pending(t) : KeyAt(t, i)' = KeyAt(t, i)
    BY <1>3, <1>4, SameMailSameKeys
  <1> DEFINE m == Len(outbox[u])
             n == Len(inbox[u])
             out == outbox[u]
             in == inbox[u]
  <1>5. inbox'[u] = Tail(in) /\ outbox'[u] = Append(out, a)
    BY <1>1, <1>2 DEF TypeOK
  <1>6. /\ in \in Seq([key : Keys, file : Files]) /\ m \in Nat /\ n \in Nat
        /\ out \in Seq([key : Keys, data : Data \cup {NoData}])
        /\ Pending(u) = m + n /\ in # <<>>
    BY <1>1, PendingIs DEF Pending
  <1>7. /\ Len(Tail(in)) = n - 1 /\ n >= 1 /\ ask = in[1]
        /\ \A i \in 1 .. n - 1 : Tail(in)[i] = in[i + 1]
    BY <1>6
  <1> DEFINE grown == Append(out, a)
             rest == Tail(in)
  <1>8. /\ Len(grown) = m + 1 /\ grown[m + 1] = a
        /\ \A i \in 1 .. m : grown[i] = out[i]
    BY <1>6
  <1>9. Pending(u)' = (m + 1) + (n - 1)
    BY <1>5, <1>7, <1>8, Zenon DEF Pending
  <1>10. \A i : KeyAt(u, i)' = IF i <= m + 1 THEN grown[i].key ELSE rest[i - (m + 1)].key
    <2>1. \A i : KeyAt(u, i)' = IF i <= Len(outbox'[u]) THEN outbox'[u][i].key
                                  ELSE inbox'[u][i - Len(outbox'[u])].key
      BY DEF KeyAt
    <2> QED BY <1>5, <1>8, <2>1, Zenon
  <1>11. \A i : KeyAt(u, i) = IF i <= m THEN out[i].key ELSE in[i - m].key
    BY DEF KeyAt
  <1>12. a.key = in[1].key
    BY <1>7
  <1> HIDE DEF m, n, out, in, a, grown, rest
  <1>13. Pending(u)' = Pending(u)
    BY <1>6, <1>9
  <1>14. ASSUME NEW i \in 1 .. Pending(u) PROVE KeyAt(u, i)' = KeyAt(u, i)
    <2>1. i \in 1 .. m + n
      BY <1>6
    <2>2. CASE i <= m
      <3>1. i \in 1 .. m /\ i <= m + 1
        BY <1>6, <2>1, <2>2
      <3> QED BY <1>8, <1>10, <1>11, <2>2, <3>1
    <2>3. CASE i = m + 1
      <3>1. ~(i <= m) /\ i - m = 1 /\ i <= m + 1
        BY <1>6, <2>3
      <3> QED BY <1>8, <1>10, <1>11, <1>12, <2>3, <3>1
    <2>4. CASE ~(i <= m) /\ i # m + 1
      <3>1. /\ ~(i <= m + 1) /\ i - (m + 1) \in 1 .. n - 1
            /\ (i - (m + 1)) + 1 = i - m
        BY <1>6, <2>1, <2>4
      <3>2. rest[i - (m + 1)] = in[i - m]
        BY <1>7, <3>1 DEF rest
      <3> QED BY <1>10, <1>11, <2>4, <3>1, <3>2
    <2> QED BY <2>2, <2>3, <2>4
  <1> QED BY <1>4, <1>13, <1>14 DEF KeysStay

LEMMA TakenKeys ==
  ASSUME TypeOK, NEW u \in Threads, outbox[u] # <<>>,
         outbox' = [outbox EXCEPT ![u] = Tail(@)], inbox' = inbox
  PROVE  KeysShift(u) /\ Pending(u) >= 1 /\ KeyAt(u, 1) = Head(outbox[u]).key
  <1>1. \A t \in Threads : t # u => inbox'[t] = inbox[t] /\ outbox'[t] = outbox[t]
    BY DEF TypeOK
  <1>2. ASSUME NEW t \in Threads, t # u
        PROVE  Pending(t)' = Pending(t) /\ \A i \in 1 .. Pending(t) : KeyAt(t, i)' = KeyAt(t, i)
    BY <1>1, <1>2, SameMailSameKeys
  <1> DEFINE m == Len(outbox[u])
             n == Len(inbox[u])
             out == outbox[u]
             in == inbox[u]
             rest == Tail(out)
  <1>3. inbox'[u] = in /\ outbox'[u] = rest
    BY DEF TypeOK
  <1>4. /\ m \in Nat /\ n \in Nat /\ Pending(u) = m + n
        /\ out \in Seq([key : Keys, data : Data \cup {NoData}]) /\ out # <<>>
    BY PendingIs DEF Pending
  <1>5. /\ Len(rest) = m - 1 /\ m >= 1 /\ Head(out) = out[1]
        /\ \A i \in 1 .. m - 1 : rest[i] = out[i + 1]
    BY <1>4
  <1>6. Pending(u)' = (m - 1) + n
    BY <1>3, <1>5, Zenon DEF Pending
  <1>7. \A i : KeyAt(u, i)' = IF i <= m - 1 THEN rest[i].key ELSE in[i - (m - 1)].key
    <2>1. \A i : KeyAt(u, i)' = IF i <= Len(outbox'[u]) THEN outbox'[u][i].key
                                  ELSE inbox'[u][i - Len(outbox'[u])].key
      BY DEF KeyAt
    <2> QED BY <1>3, <1>5, <2>1, Zenon
  <1>8. \A i : KeyAt(u, i) = IF i <= m THEN out[i].key ELSE in[i - m].key
    BY DEF KeyAt
  <1>9. KeyAt(u, 1) = Head(outbox[u]).key
    <2>1. out[1] = Head(outbox[u])
      BY <1>5
    <2> HIDE DEF m, out
    <2> QED BY <1>4, <1>5, <1>8, <2>1
  <1> HIDE DEF m, n, out, in, rest
  <1>10. Pending(u)' = Pending(u) - 1 /\ Pending(u) >= 1
    BY <1>4, <1>5, <1>6
  <1>11. ASSUME NEW i \in 1 .. Pending(u) - 1 PROVE KeyAt(u, i)' = KeyAt(u, i + 1)
    <2>1. i \in 1 .. m + n - 1
      BY <1>4
    <2>2. CASE i <= m - 1
      <3>1. i \in 1 .. m - 1 /\ i + 1 <= m
        BY <1>4, <2>1, <2>2
      <3> QED BY <1>5, <1>7, <1>8, <2>2, <3>1
    <2>3. CASE ~(i <= m - 1)
      <3>1. ~(i + 1 <= m) /\ i - (m - 1) = (i + 1) - m
        BY <1>4, <2>1, <2>3
      <3> QED BY <1>7, <1>8, <2>3, <3>1
    <2> QED BY <2>2, <2>3
  <1> QED BY <1>2, <1>9, <1>10, <1>11 DEF KeysShift

LEMMA KeysInvStays ==
  ASSUME TypeOK, KeysInv, KeysStay, tasks' = tasks
  PROVE  KeysInv'
  <1>1. KeysApart'
    <2> SUFFICES ASSUME NEW t \in Threads, NEW u \in Threads,
                        NEW i \in 1 .. Pending(t)', NEW j \in 1 .. Pending(u)',
                        KeyAt(t, i)' = KeyAt(u, j)'
                 PROVE  t = u /\ i = j
      BY DEF KeysApart
    <2>1. i \in 1 .. Pending(t) /\ j \in 1 .. Pending(u)
      BY DEF KeysStay
    <2>2. KeyAt(t, i) = KeyAt(u, j)
      BY <2>1 DEF KeysStay
    <2> QED BY <2>1, <2>2 DEF KeysInv, KeysApart
  <1>2. KeysParked'
    BY DEF KeysInv, KeysParked, KeysStay
  <1>3. TasksSent'
    BY DEF KeysInv, TasksSent, KeysStay
  <1>4. TasksApart'
    BY DEF KeysInv, TasksApart
  <1> QED BY <1>1, <1>2, <1>3, <1>4 DEF KeysInv

LEMMA KeysInvGrows ==
  ASSUME TypeOK, KeysInv, NEW u \in Threads, NEW r \in Requests,
         tasks[taskKey] = None, \A k \in Keys : tasks[k] # r,
         tasks' = [tasks EXCEPT ![taskKey] = r], KeysGrow(u, taskKey)
  PROVE  KeysInv'
  <1> DEFINE New(t, i) == t = u /\ i = Pending(u) + 1
  <1>0. /\ taskKey \in Keys /\ tasks \in [Keys -> Requests \cup {None}] /\ r # None
        /\ \A k \in Keys : tasks'[k] = IF k = taskKey THEN r ELSE tasks[k]
    BY FileCacheAssumption DEF TypeOK
  <1>1. ASSUME NEW t \in Threads, NEW i \in 1 .. Pending(t)'
        PROVE  \/ New(t, i) /\ KeyAt(t, i)' = taskKey
               \/ /\ i \in 1 .. Pending(t) /\ KeyAt(t, i)' = KeyAt(t, i)
                  /\ KeyAt(t, i) \in Keys /\ KeyAt(t, i) # taskKey
    <2>1. Pending(t) \in Nat
      BY PendingIs
    <2>2. CASE New(t, i)
      BY <2>2 DEF KeysGrow
    <2>3. CASE ~New(t, i)
      <3>1. i \in 1 .. Pending(t)
        BY <2>1, <2>3 DEF KeysGrow
      <3>2. KeyAt(t, i) \in Keys
        BY <3>1, PendingIs
      <3>3. KeyAt(t, i) # taskKey
        BY <3>1 DEF KeysInv, KeysParked
      <3> QED BY <3>1, <3>2, <3>3 DEF KeysGrow
    <2> QED BY <2>2, <2>3
  <1>2. KeysApart'
    <2> SUFFICES ASSUME NEW t \in Threads, NEW v \in Threads,
                        NEW i \in 1 .. Pending(t)', NEW j \in 1 .. Pending(v)',
                        KeyAt(t, i)' = KeyAt(v, j)'
                 PROVE  t = v /\ i = j
      BY DEF KeysApart
    <2>1. CASE New(t, i) /\ New(v, j)
      BY <2>1
    <2>2. CASE ~(New(t, i) /\ New(v, j))
      <3>1. /\ i \in 1 .. Pending(t) /\ j \in 1 .. Pending(v)
            /\ KeyAt(t, i) = KeyAt(v, j)
        <4> HIDE DEF New
        <4> QED BY <1>1, <2>2
      <3> QED BY <3>1 DEF KeysInv, KeysApart
    <2> QED BY <2>1, <2>2
  <1> HIDE DEF New
  <1>3. KeysParked'
    <2> SUFFICES ASSUME NEW t \in Threads, NEW i \in 1 .. Pending(t)'
                 PROVE  tasks'[KeyAt(t, i)'] # None
      BY DEF KeysParked
    <2>1. CASE KeyAt(t, i)' = taskKey
      BY <1>0, <2>1
    <2>2. CASE /\ i \in 1 .. Pending(t) /\ KeyAt(t, i)' = KeyAt(t, i)
               /\ KeyAt(t, i) \in Keys /\ KeyAt(t, i) # taskKey
      <3>1. tasks[KeyAt(t, i)] # None
        BY <2>2 DEF KeysInv, KeysParked
      <3> QED BY <1>0, <2>2, <3>1
    <2> QED BY <1>1, <2>1, <2>2
  <1>4. TasksSent'
    <2> SUFFICES ASSUME NEW k \in Keys, tasks'[k] # None
                 PROVE  \E t \in Threads : \E i \in 1 .. Pending(t)' : KeyAt(t, i)' = k
      BY DEF TasksSent
    <2>1. CASE k = taskKey
      <3>a. Pending(u) \in Nat
        BY PendingNat
      <3>b. PICK n \in Nat : n = Pending(u) + 1
        BY <3>a
      <3>1. n \in 1 .. Pending(u)'
        BY <3>a, <3>b DEF KeysGrow
      <3>2. KeyAt(u, n)' = taskKey
        BY <3>b DEF KeysGrow
      <3> QED BY <2>1, <3>1, <3>2
    <2>2. CASE k # taskKey
      <3>1. PICK t \in Threads : \E i \in 1 .. Pending(t) : KeyAt(t, i) = k
        BY <1>0, <2>2 DEF KeysInv, TasksSent
      <3>2. PICK i \in 1 .. Pending(t) : KeyAt(t, i) = k
        BY <3>1
      <3>a. Pending(t) \in Nat
        BY PendingNat
      <3>b. i \in 1 .. Pending(t)'
        BY <3>a DEF KeysGrow
      <3>3. i \in 1 .. Pending(t)' /\ KeyAt(t, i)' = k
        BY <3>2, <3>b DEF KeysGrow
      <3> QED BY <3>3
    <2> QED BY <2>1, <2>2
  <1>5. TasksApart'
    BY <1>0 DEF KeysInv, TasksApart
  <1> QED BY <1>2, <1>3, <1>4, <1>5 DEF KeysInv

LEMMA KeysInvShifts ==
  ASSUME TypeOK, KeysInv, NEW u \in Threads, KeysShift(u), Pending(u) >= 1,
         tasks' = [tasks EXCEPT ![KeyAt(u, 1)] = None]
  PROVE  KeysInv'
  <1> DEFINE k0 == KeyAt(u, 1)
             Old(t, i) == IF t = u THEN i + 1 ELSE i
  <1>a. 1 \in 1 .. Pending(u)
    BY PendingNat
  <1>0. 1 \in 1 .. Pending(u) /\ k0 \in Keys /\ tasks[k0] # None
    BY <1>a, KeyIn DEF KeysInv, KeysParked
  <1>1. /\ tasks \in [Keys -> Requests \cup {None}]
        /\ \A k \in Keys : tasks'[k] = IF k = k0 THEN None ELSE tasks[k]
    BY <1>0 DEF TypeOK
  <1> HIDE DEF k0
  <1>2. ASSUME NEW t \in Threads, NEW i \in 1 .. Pending(t)'
        PROVE  /\ Old(t, i) \in 1 .. Pending(t) /\ KeyAt(t, i)' = KeyAt(t, Old(t, i))
               /\ KeyAt(t, Old(t, i)) \in Keys /\ KeyAt(t, Old(t, i)) # k0
               /\ i \in Int
    <2>0. Pending(t) \in Nat
      BY PendingNat
    <2>1. Pending(t) \in Nat /\ i \in Int
      BY <2>0 DEF KeysShift
    <2>2. Old(t, i) \in 1 .. Pending(t)
      BY <2>1 DEF KeysShift
    <2>3. KeyAt(t, i)' = KeyAt(t, Old(t, i))
      <3>1. CASE t = u
        <4>1. i \in 1 .. Pending(u) - 1
          BY <3>1, <2>1 DEF KeysShift
        <4> QED BY <4>1, <3>1 DEF KeysShift
      <3>2. CASE t # u
        BY <3>2, <2>2 DEF KeysShift
      <3> QED BY <3>1, <3>2
    <2>4. KeyAt(t, Old(t, i)) \in Keys
      BY <2>2, PendingIs
    <2>5. ~(t = u /\ Old(t, i) = 1)
      BY <2>1
    <2> HIDE DEF Old
    <2>6. KeyAt(t, Old(t, i)) # k0
      BY <1>0, <2>2, <2>5 DEF KeysInv, KeysApart, k0
    <2> QED BY <2>1, <2>2, <2>3, <2>4, <2>6
  <1>3. KeysApart'
    <2> SUFFICES ASSUME NEW t \in Threads, NEW v \in Threads,
                        NEW i \in 1 .. Pending(t)', NEW j \in 1 .. Pending(v)',
                        KeyAt(t, i)' = KeyAt(v, j)'
                 PROVE  t = v /\ i = j
      BY DEF KeysApart
    <2>1. i \in Int /\ j \in Int
      BY <1>2
    <2>2. t = v /\ Old(t, i) = Old(v, j)
      <3> HIDE DEF Old
      <3> QED BY <1>2 DEF KeysInv, KeysApart
    <2> QED BY <2>1, <2>2
  <1>4. KeysParked'
    <2> SUFFICES ASSUME NEW t \in Threads, NEW i \in 1 .. Pending(t)'
                 PROVE  tasks'[KeyAt(t, i)'] # None
      BY DEF KeysParked
    <2> HIDE DEF Old
    <2>1. tasks[KeyAt(t, Old(t, i))] # None
      BY <1>2 DEF KeysInv, KeysParked
    <2> QED BY <1>1, <1>2, <2>1
  <1>5. TasksSent'
    <2> SUFFICES ASSUME NEW k \in Keys, tasks'[k] # None
                 PROVE  \E t \in Threads : \E i \in 1 .. Pending(t)' : KeyAt(t, i)' = k
      BY DEF TasksSent
    <2>1. k # k0 /\ tasks[k] # None
      BY <1>1
    <2>2. PICK t \in Threads : \E i \in 1 .. Pending(t) : KeyAt(t, i) = k
      BY <2>1 DEF KeysInv, TasksSent
    <2>3. PICK i \in 1 .. Pending(t) : KeyAt(t, i) = k
      BY <2>2
    <2>4. Pending(t) \in Nat
      BY PendingIs
    <2>5. CASE t = u
      <3>1. i # 1
        BY <2>1, <2>3, <2>5 DEF k0
      <3> DEFINE j == i - 1
      <3>2. j \in 1 .. Pending(u) - 1 /\ j + 1 = i /\ Pending(u)' = Pending(u) - 1
        BY <2>3, <2>4, <2>5, <3>1 DEF KeysShift
      <3> HIDE DEF j
      <3>3. KeyAt(u, j)' = KeyAt(u, j + 1)
        BY <3>2 DEF KeysShift
      <3>4. j \in 1 .. Pending(u)' /\ KeyAt(u, j)' = k
        BY <2>3, <2>5, <3>2, <3>3
      <3> QED BY <3>4
    <2>6. CASE t # u
      <3>1. i \in 1 .. Pending(t)' /\ KeyAt(t, i)' = k
        BY <2>3, <2>6 DEF KeysShift
      <3> QED BY <3>1
    <2> QED BY <2>5, <2>6
  <1>6. TasksApart'
    BY <1>1 DEF KeysInv, TasksApart
  <1> QED BY <1>3, <1>4, <1>5, <1>6 DEF KeysInv

\* Each message's key is one of the keys, with a read parked under it.
Parked(k) == k \in Keys /\ tasks[k] \in Requests /\ tasks[k] # None

LEMMA MailParked ==
  ASSUME Inv, NEW t \in Threads
  PROVE  /\ \A i \in 1 .. Len(inbox[t]) : Parked(inbox[t][i].key)
         /\ \A i \in 1 .. Len(outbox[t]) : Parked(outbox[t][i].key)
  <1>0. TypeOK
    BY DEF Inv
  <1>1. ASSUME NEW i \in 1 .. Pending(t) PROVE Parked(KeyAt(t, i))
    <2>1. KeyAt(t, i) \in Keys
      BY <1>0, KeyIn
    <2>2. tasks[KeyAt(t, i)] # None
      BY DEF Inv, KeysInv, KeysParked
    <2> QED BY <1>0, <2>1, <2>2 DEF Parked, TypeOK
  <1> DEFINE m == Len(outbox[t])
             n == Len(inbox[t])
  <1>2. m \in Nat /\ n \in Nat /\ Pending(t) = m + n
    BY <1>0, PendingIs DEF Pending
  <1>3. \A i : KeyAt(t, i) = IF i <= m THEN outbox[t][i].key ELSE inbox[t][i - m].key
    BY DEF KeyAt
  <1> HIDE DEF m, n
  <1>4. ASSUME NEW i \in 1 .. n PROVE Parked(inbox[t][i].key)
    <2>1. m + i \in 1 .. Pending(t) /\ ~(m + i <= m) /\ (m + i) - m = i
      BY <1>2
    <2> QED BY <1>1, <1>3, <2>1
  <1>5. ASSUME NEW i \in 1 .. m PROVE Parked(outbox[t][i].key)
    <2>1. i \in 1 .. Pending(t) /\ i <= m
      BY <1>2
    <2> QED BY <1>1, <1>3, <2>1
  <1> QED BY <1>4, <1>5 DEF m, n

\* What holds of a request that asks: nothing is about it yet.
Begins(r, f) ==
    /\ asked[r] = NoData /\ joined[r] = None /\ answer[r] = NoAnswer
    /\ \A k \in Keys : tasks[k] # r
    /\ \A g \in Files : inFlight[g] # r
    /\ \A q \in Requests : joined[q] # r
    /\ asked'[r] = [file |-> f, version |-> version[f]]
    /\ asked'[r] \in Data /\ asked'[r] # NoData
    /\ \A q \in Requests : q # r => asked'[q] = asked[q]
    /\ asked' \in [Requests -> Data \cup {NoData}]
    /\ version' = version

LEMMA AskBegins ==
  ASSUME Inv, NEW r \in Requests, NEW f \in Files, Ask(r, f)
  PROVE  Begins(r, f)
  <1>0. TypeOK
    BY DEF Inv
  <1>1. /\ asked[r] = NoData
        /\ asked' = [asked EXCEPT ![r] = [file |-> f, version |-> version[f]]]
        /\ version' = version
    BY DEF Ask, diskVars
  <1>2. [file |-> f, version |-> version[f]] \in Data
    BY <1>0 DEF TypeOK, Data
  <1>3. joined[r] = None /\ answer[r] = NoAnswer
    BY <1>1 DEF Inv, ReadsInv, NothingYet
  <1>4. r # None
    BY FileCacheAssumption
  <1>5. ASSUME NEW k \in Keys PROVE tasks[k] # r
    BY <1>1, <1>4 DEF Inv, ReadsInv, TaskReads, AskedOf
  <1>6. ASSUME NEW g \in Files PROVE inFlight[g] # r
    BY <1>1, <1>4 DEF Inv, ReadsInv, FlightReads
  <1>7. ASSUME NEW q \in Requests PROVE joined[q] # r
    BY <1>1, <1>4 DEF Inv, ReadsInv, JoinsSame
  <1>8. asked'[r] = [file |-> f, version |-> version[f]]
    BY <1>0, <1>1 DEF TypeOK
  <1>9. asked' \in [Requests -> Data \cup {NoData}] /\ \A q \in Requests : q # r => asked'[q] = asked[q]
    BY <1>0, <1>1, <1>2 DEF TypeOK
  <1> QED BY <1>1, <1>2, <1>3, <1>5, <1>6, <1>7, <1>8, <1>9, NoDataApart DEF Begins

\* What an ask leaves true, whichever way it goes: of the mail that was there, of
\* the parked reads, and of who had asked before.
LEMMA BeginsMail ==
  ASSUME Inv, NEW r \in Requests, NEW f \in Files, Begins(r, f), outbox' = outbox,
         \A k \in Keys : tasks[k] # None => tasks'[k] = tasks[k]
  PROVE  /\ \A k \in Keys : tasks[k] # None => AskedOf(k)' = AskedOf(k)
         /\ Found'
         /\ inbox' = inbox => Sought'
  <1>0. TypeOK
    BY DEF Inv
  <1>1. ASSUME NEW k \in Keys, tasks[k] # None PROVE AskedOf(k)' = AskedOf(k)
    <2>1. tasks[k] \in Requests /\ tasks[k] # r /\ tasks'[k] = tasks[k]
      BY <1>0, <1>1 DEF TypeOK, Begins
    <2> QED BY <2>1 DEF Begins, AskedOf
  <1>2. Found'
    <2> SUFFICES ASSUME NEW t \in Threads, NEW i \in 1 .. Len(outbox[t]),
                        outbox[t][i].data # NoData
                 PROVE  /\ outbox[t][i].data.file = AskedOf(outbox[t][i].key)'.file
                        /\ outbox[t][i].data.version >= AskedOf(outbox[t][i].key)'.version
      BY DEF Found, AskedOf
    <2>1. Parked(outbox[t][i].key)
      BY MailParked
    <2> QED BY <1>1, <2>1 DEF Parked, Inv, MailInv, Found
  <1>3. ASSUME inbox' = inbox PROVE Sought'
    <2> SUFFICES ASSUME NEW t \in Threads, NEW i \in 1 .. Len(inbox[t])
                 PROVE  inbox[t][i].file = AskedOf(inbox[t][i].key)'.file
      BY <1>3 DEF Sought, AskedOf
    <2>1. Parked(inbox[t][i].key)
      BY MailParked
    <2> QED BY <1>1, <1>3, <2>1 DEF Parked, Inv, MailInv, Sought
  <1> QED BY <1>1, <1>2, <1>3

\* Who had asked knows a stat no newer than the disk, and so does who asks.
LEMMA BeginsStats ==
  ASSUME Inv, NEW r \in Requests, NEW f \in Files, Begins(r, f)
  PROVE  StatsRead'
  <1> SUFFICES ASSUME NEW q \in Requests, asked'[q] # NoData
               PROVE  asked'[q].version <= version[asked'[q].file]
    BY DEF Begins, StatsRead
  <1>1. CASE q = r
    <2>1. version[f] \in Int
      BY DEF Inv, TypeOK, Version
    <2> QED BY <1>1, <2>1 DEF Begins
  <1>2. CASE q # r
    BY <1>2 DEF Begins, Inv, ReadsInv, StatsRead
  <1> QED BY <1>1, <1>2

LEMMA HitKeeps ==
  ASSUME Inv, NEW r \in Requests, NEW f \in Files, Begins(r, f), Hit(r, f)
  PROVE  Inv'
  <1>0. TypeOK
    BY DEF Inv
  <1>a. cache \in Seq(Entry) /\ DOMAIN cache = 1 .. Len(cache)
    BY <1>0 DEF TypeOK
  <1>1. PICK i \in DOMAIN cache : Matches(cache[i], f) /\ answer' = [answer EXCEPT ![r] = cache[i].data]
    <2>1. \E i \in 1 .. Len(cache) :
             Matches(cache[i], f) /\ answer' = [answer EXCEPT ![r] = cache[i].data]
      BY DEF Hit
    <2> QED BY <1>a, <2>1, Zenon
  <1>2. /\ joined' = joined /\ inFlight' = inFlight /\ cache' = cache /\ bytes' = bytes
        /\ taskKey' = taskKey /\ tasks' = tasks /\ inbox' = inbox /\ outbox' = outbox
    BY DEF Hit, cacheVars, taskVars, threadVars
  <1>3. /\ cache[i].data \in Data /\ cache[i].file = f /\ cache[i].stat = version[f]
        /\ cache[i].data.file = f /\ cache[i].data.version >= version[f]
    <2>1. cache[i] \in Entry
      BY <1>a
    <2>2. cache[i].data \in Data
      BY <2>1 DEF Entry
    <2>3. cache[i].file = f /\ cache[i].stat = version[f]
      BY <1>1 DEF Matches
    <2>4. cache[i].data.file = cache[i].file /\ cache[i].data.version >= cache[i].stat
      BY DEF Inv, CacheInv, CachedNotOlder
    <2> QED BY <2>2, <2>3, <2>4
  <1>4. /\ answer'[r] = cache[i].data /\ answer' \in [Requests -> Data \cup {NoData, NoAnswer}]
        /\ \A q \in Requests : q # r => answer'[q] = answer[q]
    BY <1>0, <1>1, <1>3 DEF TypeOK
  <1>5. TypeOK'
    BY <1>0, <1>2, <1>4 DEF TypeOK, Begins
  <1>6. KeysInv'
    BY <1>2, KeysSame DEF Inv
  <1>7. MailInv'
    BY <1>2, BeginsMail DEF MailInv
  <1>8. ReadsInv'
    <2>1. TaskReads'
      <3>1. \A k \in Keys : tasks[k] # None => AskedOf(k)' = AskedOf(k)
        BY <1>2, BeginsMail
      <3> QED BY <1>2, <3>1 DEF TaskReads, Inv, ReadsInv
    <2>2. FlightReads'
      BY <1>0, <1>2 DEF FlightReads, Inv, ReadsInv, Begins, TypeOK
    <2>3. JoinsSame'
      <3> SUFFICES ASSUME NEW q \in Requests, joined[q] # None
                   PROVE  /\ asked'[q] # NoData /\ asked'[joined[q]] # NoData
                          /\ asked'[joined[q]].file = asked'[q].file
        BY <1>2 DEF JoinsSame
      <3>1. q # r /\ joined[q] # r /\ joined[q] \in Requests
        BY <1>0 DEF Begins, TypeOK
      <3> QED BY <3>1 DEF Begins, Inv, ReadsInv, JoinsSame
    <2>4. NothingYet'
      BY <1>2, <1>4 DEF NothingYet, Inv, ReadsInv, Begins
    <2> QED BY <2>1, <2>2, <2>3, <2>4, BeginsStats DEF ReadsInv
  <1>9. GivenInv'
    <2>1. RightFile'
      BY <1>3, <1>4 DEF RightFile, Inv, GivenInv, Begins
    <2>2. NotOlderThanRead'
      <3> SUFFICES ASSUME NEW q \in Requests, answer'[q] \in Data
                   PROVE  answer'[q].version >= IF joined[q] = None THEN asked'[q].version
                                                ELSE asked'[joined[q]].version
        BY <1>2 DEF NotOlderThanRead
      <3>1. CASE q = r
        BY <1>3, <1>4, <3>1 DEF Begins
      <3>2. CASE q # r
        <4>1. joined[q] # r /\ (joined[q] # None => joined[q] \in Requests)
          BY <1>0 DEF Begins, TypeOK
        <4> QED BY <1>4, <3>2, <4>1 DEF Begins, Inv, GivenInv, NotOlderThanRead
      <3> QED BY <3>1, <3>2
    <2> QED BY <2>1, <2>2 DEF GivenInv
  <1>10. CacheInv'
    BY <1>2 DEF CacheInv, CacheAccounted, CachedNotOlder, SizeSum, Inv
  <1> QED BY <1>5, <1>6, <1>7, <1>8, <1>9, <1>10 DEF Inv

LEMMA JoinKeeps ==
  ASSUME Inv, NEW r \in Requests, NEW f \in Files, Begins(r, f), Join(r, f)
  PROVE  Inv'
  <1>0. TypeOK
    BY DEF Inv
  <1> DEFINE reader == inFlight[f]
  <1>1. /\ reader # None /\ reader \in Requests /\ joined' = [joined EXCEPT ![r] = reader]
        /\ answer' = answer /\ inFlight' = inFlight /\ cache' = cache /\ bytes' = bytes
        /\ taskKey' = taskKey /\ tasks' = tasks /\ inbox' = inbox /\ outbox' = outbox
    BY <1>0 DEF Join, MayJoin, cacheVars, taskVars, threadVars, TypeOK
  <1>2. reader # r /\ asked[reader] # NoData /\ asked[reader].file = f
    BY <1>1 DEF Inv, ReadsInv, FlightReads, Begins
  <1> HIDE DEF reader
  <1>3. /\ joined'[r] = reader /\ joined' \in [Requests -> Requests \cup {None}]
        /\ \A q \in Requests : q # r => joined'[q] = joined[q]
    BY <1>0, <1>1 DEF TypeOK
  <1>4. asked'[reader] = asked[reader]
    BY <1>1, <1>2 DEF Begins
  <1>5. TypeOK'
    BY <1>0, <1>1, <1>3 DEF TypeOK, Begins
  <1>6. KeysInv'
    BY <1>1, KeysSame DEF Inv
  <1>7. MailInv'
    BY <1>1, BeginsMail DEF MailInv
  <1>8. ReadsInv'
    <2>1. TaskReads'
      <3>1. \A k \in Keys : tasks[k] # None => AskedOf(k)' = AskedOf(k)
        BY <1>1, BeginsMail
      <3> QED BY <1>1, <3>1 DEF TaskReads, Inv, ReadsInv
    <2>2. FlightReads'
      BY <1>0, <1>1 DEF FlightReads, Inv, ReadsInv, Begins, TypeOK
    <2>3. JoinsSame'
      <3> SUFFICES ASSUME NEW q \in Requests, joined'[q] # None
                   PROVE  /\ asked'[q] # NoData /\ asked'[joined'[q]] # NoData
                          /\ asked'[joined'[q]].file = asked'[q].file
        BY DEF JoinsSame
      <3>1. CASE q = r
        BY <1>2, <1>3, <1>4, <3>1 DEF Begins
      <3>2. CASE q # r
        <4>1. joined[q] # r /\ joined[q] # None /\ joined[q] \in Requests /\ joined'[q] = joined[q]
          BY <1>0, <1>3, <3>2 DEF Begins, TypeOK
        <4> QED BY <3>2, <4>1 DEF Begins, Inv, ReadsInv, JoinsSame
      <3> QED BY <3>1, <3>2
    <2>4. NothingYet'
      BY <1>1, <1>3 DEF NothingYet, Inv, ReadsInv, Begins
    <2> QED BY <2>1, <2>2, <2>3, <2>4, BeginsStats DEF ReadsInv
  <1>9. GivenInv'
    <2>0. answer[r] \notin Data
      BY NoDataApart DEF Begins
    <2>1. RightFile'
      BY <1>1, <2>0 DEF RightFile, Inv, GivenInv, Begins
    <2>2. NotOlderThanRead'
      <3> SUFFICES ASSUME NEW q \in Requests, answer[q] \in Data
                   PROVE  answer[q].version >= IF joined'[q] = None THEN asked'[q].version
                                               ELSE asked'[joined'[q]].version
        BY <1>1 DEF NotOlderThanRead
      <3>1. q # r
        BY <2>0
      <3>2. /\ joined[q] # r /\ (joined[q] # None => joined[q] \in Requests)
            /\ joined'[q] = joined[q]
        BY <1>0, <1>3, <3>1 DEF Begins, TypeOK
      <3> QED BY <3>1, <3>2 DEF Begins, Inv, GivenInv, NotOlderThanRead
    <2> QED BY <2>1, <2>2 DEF GivenInv
  <1>10. CacheInv'
    BY <1>1 DEF CacheInv, CacheAccounted, CachedNotOlder, SizeSum, Inv
  <1> QED BY <1>5, <1>6, <1>7, <1>8, <1>9, <1>10 DEF Inv

LEMMA StartKeeps ==
  ASSUME Inv, KeyFree, NEW r \in Requests, NEW f \in Files, Begins(r, f), StartRead(r, f)
  PROVE  Inv'
  <1>0. TypeOK
    BY DEF Inv
  <1> DEFINE ask == [key |-> taskKey, file |-> f]
  <1>1. PICK u \in Threads : inbox' = [inbox EXCEPT ![u] = Append(@, ask)]
    BY DEF StartRead
  <1>2. /\ inFlight[f] = None /\ inFlight' = [inFlight EXCEPT ![f] = r]
        /\ joined' = [joined EXCEPT ![r] = r] /\ tasks' = [tasks EXCEPT ![taskKey] = r]
        /\ taskKey' = NextKey(taskKey)
        /\ answer' = answer /\ cache' = cache /\ bytes' = bytes /\ outbox' = outbox
    BY DEF StartRead, MayJoin
  <1>3. tasks[taskKey] = None /\ taskKey \in Keys /\ ask \in [key : Keys, file : Files]
    BY <1>0, <1>2 DEF KeyFree, TypeOK
  <1>4. r # None
    BY FileCacheAssumption
  <1>5. /\ joined'[r] = r /\ joined' \in [Requests -> Requests \cup {None}]
        /\ \A q \in Requests : q # r => joined'[q] = joined[q]
    BY <1>0, <1>2 DEF TypeOK
  <1>6. /\ tasks'[taskKey] = r /\ tasks' \in [Keys -> Requests \cup {None}]
        /\ \A k \in Keys : k # taskKey => tasks'[k] = tasks[k]
    BY <1>0, <1>2, <1>3 DEF TypeOK
  <1>7. /\ inFlight'[f] = r /\ inFlight' \in [Files -> Requests \cup {None}]
        /\ \A g \in Files : g # f => inFlight'[g] = inFlight[g]
    BY <1>0, <1>2 DEF TypeOK
  <1>8. \A k \in Keys : tasks[k] # None => tasks'[k] = tasks[k]
    BY <1>3, <1>6
  <1>9. TypeOK'
    <2>1. inbox' \in [Threads -> Seq([key : Keys, file : Files])]
      <3>0. inbox[u] \in Seq([key : Keys, file : Files])
        BY <1>0, PendingIs
      <3>1. Append(inbox[u], ask) \in Seq([key : Keys, file : Files])
        BY <1>3, <3>0, AppendOf
      <3> HIDE DEF ask
      <3> QED BY <1>0, <1>1, <3>1 DEF TypeOK
    <2>2. taskKey' \in Keys
      BY <1>2, <1>3, FileCacheAssumption DEF NextKey, Keys
    <2> QED BY <1>0, <1>2, <1>5, <1>6, <1>7, <2>1, <2>2 DEF TypeOK, Begins
  <1>10. KeysInv'
    <2>1. KeysGrow(u, ask.key)
      <3> HIDE DEF ask
      <3> QED BY <1>0, <1>1, <1>2, <1>3, SentKeys
    <2>2. ask.key = taskKey
      OBVIOUS
    <2> HIDE DEF ask
    <2>3. KeysGrow(u, taskKey)
      BY <2>1, <2>2, Zenon
    <2> QED BY <1>0, <1>2, <1>3, <2>3, KeysInvGrows DEF Inv, Begins
  <1>11. Found' /\ \A k \in Keys : tasks[k] # None => AskedOf(k)' = AskedOf(k)
    BY <1>2, <1>8, BeginsMail
  <1>12. AskedOf(taskKey)' = asked'[tasks'[taskKey']]
    BY DEF AskedOf
  <1>13. MailInv'
    <2>1. Sought'
      <3> SUFFICES ASSUME NEW t \in Threads, NEW i \in 1 .. Len(inbox'[t])
                   PROVE  inbox'[t][i].file = asked'[tasks'[inbox'[t][i].key]].file
        BY DEF Sought, AskedOf
      <3> DEFINE old == inbox[t]
      <3>1. old \in Seq([key : Keys, file : Files]) /\ Len(old) \in Nat
        BY <1>0, PendingIs
      <3>2. ASSUME NEW j \in 1 .. Len(old), inbox'[t][i] = old[j]
            PROVE  inbox'[t][i].file = asked'[tasks'[inbox'[t][i].key]].file
        <4>1. Parked(old[j].key)
          BY MailParked
        <4>2. old[j].file = asked[tasks[old[j].key]].file
          BY DEF Inv, MailInv, Sought, AskedOf
        <4>3. tasks'[old[j].key] = tasks[old[j].key] /\ tasks[old[j].key] # r
          BY <1>8, <4>1 DEF Parked, Begins
        <4>4. asked'[tasks[old[j].key]] = asked[tasks[old[j].key]]
          BY <4>1, <4>3 DEF Parked, Begins
        <4> HIDE DEF old
        <4> QED BY <3>2, <4>2, <4>3, <4>4
      <3>3. CASE t # u
        <4>1. inbox'[t] = old
          BY <1>0, <1>1, <3>3 DEF TypeOK
        <4> QED BY <3>2, <4>1
      <3>4. CASE t = u
        <4>1. inbox'[t] = Append(old, ask)
          BY <1>0, <1>1, <3>4 DEF TypeOK
        <4>2. CASE i \in 1 .. Len(old)
          <5>1. inbox'[t][i] = old[i]
            BY <3>1, <4>1, <4>2
          <5> QED BY <3>2, <4>2, <5>1
        <4>3. CASE i \notin 1 .. Len(old)
          <5>1. inbox'[t][i] = ask
            BY <3>1, <4>1, <4>3
          <5> QED BY <5>1, <1>6 DEF Begins
        <4> QED BY <4>2, <4>3
      <3> QED BY <3>3, <3>4
    <2> QED BY <1>11, <2>1 DEF MailInv
  <1>14. ReadsInv'
    <2>1. TaskReads'
      <3> SUFFICES ASSUME NEW k \in Keys, tasks'[k] # None
                   PROVE  /\ asked'[tasks'[k]] # NoData
                          /\ inFlight'[asked'[tasks'[k]].file] = tasks'[k]
        BY DEF TaskReads, AskedOf
      <3>1. CASE k = taskKey
        BY <1>6, <1>7, <3>1 DEF Begins
      <3>2. CASE k # taskKey
        <4>1. /\ tasks'[k] = tasks[k] /\ tasks[k] \in Requests /\ tasks[k] # None
              /\ tasks[k] # r
          BY <1>0, <1>6, <3>2 DEF Begins, TypeOK
        <4>2. asked'[tasks[k]] = asked[tasks[k]] /\ asked[tasks[k]] # NoData
              /\ inFlight[asked[tasks[k]].file] = tasks[k]
          BY <4>1 DEF Begins, Inv, ReadsInv, TaskReads, AskedOf
        <4>3. asked[tasks[k]].file \in Files
          BY <1>0, <4>1, <4>2 DEF TypeOK, Data
        <4> QED BY <1>2, <1>7, <4>1, <4>2, <4>3
      <3> QED BY <3>1, <3>2
    <2>2. FlightReads'
      <3> SUFFICES ASSUME NEW g \in Files, inFlight'[g] # None
                   PROVE  asked'[inFlight'[g]] # NoData /\ asked'[inFlight'[g]].file = g
        BY DEF FlightReads
      <3>1. CASE g = f
        BY <1>7, <3>1 DEF Begins
      <3>2. CASE g # f
        <4>1. inFlight'[g] = inFlight[g] /\ inFlight[g] \in Requests /\ inFlight[g] # r
          BY <1>0, <1>7, <3>2 DEF Begins, TypeOK
        <4> QED BY <4>1 DEF Begins, Inv, ReadsInv, FlightReads
      <3> QED BY <3>1, <3>2
    <2>3. JoinsSame'
      <3> SUFFICES ASSUME NEW q \in Requests, joined'[q] # None
                   PROVE  /\ asked'[q] # NoData /\ asked'[joined'[q]] # NoData
                          /\ asked'[joined'[q]].file = asked'[q].file
        BY DEF JoinsSame
      <3>1. CASE q = r
        BY <1>5, <3>1 DEF Begins
      <3>2. CASE q # r
        <4>1. joined[q] # r /\ joined[q] # None /\ joined[q] \in Requests /\ joined'[q] = joined[q]
          BY <1>0, <1>5, <3>2 DEF Begins, TypeOK
        <4> QED BY <3>2, <4>1 DEF Begins, Inv, ReadsInv, JoinsSame
      <3> QED BY <3>1, <3>2
    <2>4. NothingYet'
      BY <1>2, <1>5 DEF NothingYet, Inv, ReadsInv, Begins
    <2> QED BY <2>1, <2>2, <2>3, <2>4, BeginsStats DEF ReadsInv
  <1>15. GivenInv'
    <2>0. answer[r] \notin Data
      BY NoDataApart DEF Begins
    <2>1. RightFile'
      BY <1>2, <2>0 DEF RightFile, Inv, GivenInv, Begins
    <2>2. NotOlderThanRead'
      <3> SUFFICES ASSUME NEW q \in Requests, answer[q] \in Data
                   PROVE  answer[q].version >= IF joined'[q] = None THEN asked'[q].version
                                               ELSE asked'[joined'[q]].version
        BY <1>2 DEF NotOlderThanRead
      <3>1. q # r
        BY <2>0
      <3>2. /\ joined[q] # r /\ (joined[q] # None => joined[q] \in Requests)
            /\ joined'[q] = joined[q]
        BY <1>0, <1>5, <3>1 DEF Begins, TypeOK
      <3> QED BY <3>1, <3>2 DEF Begins, Inv, GivenInv, NotOlderThanRead
    <2> QED BY <2>1, <2>2 DEF GivenInv
  <1>16. CacheInv'
    BY <1>2 DEF CacheInv, CacheAccounted, CachedNotOlder, SizeSum, Inv
  <1> QED BY <1>9, <1>10, <1>13, <1>14, <1>15, <1>16 DEF Inv

LEMMA AskKeeps ==
  ASSUME Inv, KeyFree, NEW r \in Requests, NEW f \in Files, Ask(r, f)
  PROVE  Inv'
  <1>1. Begins(r, f)
    BY AskBegins
  <1>2. Hit(r, f) \/ Join(r, f) \/ StartRead(r, f)
    BY DEF Ask
  <1> QED BY <1>1, <1>2, HitKeeps, JoinKeeps, StartKeeps

-----------------------------------------------------------------------------
\* A thread reads what the disk holds: its bytes are no older than any stat.
LEMMA ThreadReadsKeeps ==
  ASSUME Inv, NEW u \in Threads, ThreadReads(u)
  PROVE  Inv'
  <1>0. TypeOK
    BY DEF Inv
  <1> DEFINE ask == Head(inbox[u])
  <1>1. /\ inbox[u] # <<>> /\ inbox' = [inbox EXCEPT ![u] = Tail(@)]
        /\ version' = version /\ asked' = asked /\ joined' = joined /\ answer' = answer
        /\ inFlight' = inFlight /\ cache' = cache /\ bytes' = bytes
        /\ taskKey' = taskKey /\ tasks' = tasks
    BY DEF ThreadReads, diskVars, requestVars, cacheVars, taskVars
  <1>2. PICK data \in {[file |-> ask.file, version |-> version[ask.file]], NoData} :
           outbox' = [outbox EXCEPT ![u] = Append(@, [key |-> ask.key, data |-> data])]
    BY DEF ThreadReads
  <1> DEFINE a == [key |-> ask.key, data |-> data]
  <1>3. /\ inbox[u] \in Seq([key : Keys, file : Files]) /\ Len(inbox[u]) \in Nat
        /\ outbox[u] \in Seq([key : Keys, data : Data \cup {NoData}]) /\ Len(outbox[u]) \in Nat
    BY <1>0, PendingIs
  <1>4. /\ ask = inbox[u][1] /\ 1 \in 1 .. Len(inbox[u])
        /\ ask \in [key : Keys, file : Files]
    BY <1>1, <1>3, TailOf
  <1>5. ask.file = asked[tasks[ask.key]].file /\ Parked(ask.key)
    BY <1>4, MailParked DEF Inv, MailInv, Sought, AskedOf
  <1> HIDE DEF ask
  <1>6. data # NoData => /\ data \in Data /\ data.file = asked[tasks[ask.key]].file
                         /\ data.version >= asked[tasks[ask.key]].version
    <2>1. ask.file \in Files /\ version[ask.file] \in Version
      BY <1>0, <1>4 DEF TypeOK
    <2>2. asked[tasks[ask.key]] # NoData
      BY <1>5 DEF Parked, Inv, ReadsInv, TaskReads, AskedOf
    <2>3. asked[tasks[ask.key]].version <= version[ask.file]
      BY <1>5, <2>2 DEF Parked, Inv, ReadsInv, StatsRead
    <2>4. asked[tasks[ask.key]].version \in Int /\ version[ask.file] \in Int
      BY <1>0, <1>5, <2>1, <2>2 DEF Parked, TypeOK, Data, Version
    <2>5. CASE data = [file |-> ask.file, version |-> version[ask.file]]
      BY <1>5, <2>1, <2>3, <2>4, <2>5 DEF Data
    <2> QED BY <2>5, <1>2
  <1>7. a \in [key : Keys, data : Data \cup {NoData}] /\ a.key = ask.key /\ a.data = data
    BY <1>4, <1>6
  <1> HIDE DEF a
  <1>8. TypeOK'
    <2>1. inbox' \in [Threads -> Seq([key : Keys, file : Files])]
      <3>1. Tail(inbox[u]) \in Seq([key : Keys, file : Files])
        BY <1>1, <1>3
      <3> QED BY <1>0, <1>1, <3>1 DEF TypeOK
    <2>2. outbox' \in [Threads -> Seq([key : Keys, data : Data \cup {NoData}])]
      <3>1. Append(outbox[u], a) \in Seq([key : Keys, data : Data \cup {NoData}])
        BY <1>3, <1>7
      <3>2. outbox' = [outbox EXCEPT ![u] = Append(@, a)]
        BY <1>2 DEF a
      <3> QED BY <1>0, <3>1, <3>2 DEF TypeOK
    <2> QED BY <1>0, <1>1, <2>1, <2>2 DEF TypeOK
  <1>9. KeysInv'
    BY <1>0, <1>1, ReadKeys, KeysInvStays DEF Inv
  <1>10. Sought'
    <2> SUFFICES ASSUME NEW t \in Threads, NEW i \in 1 .. Len(inbox'[t])
                 PROVE  inbox'[t][i].file = asked[tasks[inbox'[t][i].key]].file
      <3>1. asked' = asked /\ tasks' = tasks
        BY <1>1
      <3> QED BY <3>1, Zenon DEF Sought, AskedOf
    <2>1. CASE t # u
      <3>1. inbox'[t] = inbox[t]
        BY <1>0, <1>1, <2>1 DEF TypeOK
      <3> QED BY <3>1 DEF Inv, MailInv, Sought, AskedOf
    <2>2. CASE t = u
      <3>1. inbox'[t] = Tail(inbox[u])
        BY <1>0, <1>1, <2>2 DEF TypeOK
      <3>2. i + 1 \in 1 .. Len(inbox[u]) /\ inbox'[t][i] = inbox[u][i + 1]
        <4>1. Len(Tail(inbox[u])) = Len(inbox[u]) - 1
          BY <1>1, <1>3, TailOf
        <4>2. i \in 1 .. Len(inbox[u]) - 1
          BY <2>2, <3>1, <4>1
        <4>3. i + 1 \in 1 .. Len(inbox[u]) /\ Tail(inbox[u])[i] = inbox[u][i + 1]
          BY <1>1, <1>3, <4>2, TailOf
        <4> QED BY <2>2, <3>1, <4>3
      <3> QED BY <3>2, <2>2 DEF Inv, MailInv, Sought, AskedOf
    <2> QED BY <2>1, <2>2
  <1>11. Found'
    <2> SUFFICES ASSUME NEW t \in Threads, NEW i \in 1 .. Len(outbox'[t]),
                        outbox'[t][i].data # NoData
                 PROVE  /\ outbox'[t][i].data.file = asked[tasks[outbox'[t][i].key]].file
                        /\ outbox'[t][i].data.version
                             >= asked[tasks[outbox'[t][i].key]].version
      BY <1>1 DEF Found, AskedOf
    <2>1. CASE t # u
      <3>1. outbox'[t] = outbox[t]
        BY <1>0, <1>2, <2>1 DEF TypeOK
      <3> QED BY <3>1 DEF Inv, MailInv, Found, AskedOf
    <2>2. CASE t = u
      <3>1. outbox'[t] = Append(outbox[u], a)
        BY <1>0, <1>2, <2>2 DEF TypeOK, a
      <3>2. CASE i \in 1 .. Len(outbox[u])
        <4>1. outbox'[t][i] = outbox[u][i]
          BY <1>3, <3>1, <3>2
        <4> QED BY <3>2, <4>1 DEF Inv, MailInv, Found, AskedOf
      <3>3. CASE i \notin 1 .. Len(outbox[u])
        <4>1. outbox'[t][i] = a
          BY <1>3, <3>1, <3>3
        <4> QED BY <4>1, <1>6, <1>7
      <3> QED BY <3>2, <3>3
    <2> QED BY <2>1, <2>2
  <1>12. ReadsInv' /\ GivenInv' /\ CacheInv'
    BY <1>1 DEF Inv, ReadsInv, TaskReads, FlightReads, JoinsSame, NothingYet, StatsRead,
                AskedOf, GivenInv, RightFile, NotOlderThanRead, CacheInv, CacheAccounted,
                CachedNotOlder, SizeSum
  <1> QED BY <1>8, <1>9, <1>10, <1>11, <1>12 DEF Inv, MailInv

\* The key of the first answer of a thread is in no other message.
LEMMA OthersApart ==
  ASSUME Inv, NEW u \in Threads, outbox[u] # <<>>, NEW t \in Threads
  PROVE  /\ \A i \in 1 .. Len(inbox[t]) : inbox[t][i].key # Head(outbox[u]).key
         /\ \A i \in 1 .. Len(outbox[t]) :
               t # u \/ i # 1 => outbox[t][i].key # Head(outbox[u]).key
  <1>0. TypeOK
    BY DEF Inv
  <1>1. 1 \in 1 .. Pending(u) /\ KeyAt(u, 1) = Head(outbox[u]).key
    <2> DEFINE m == Len(outbox[u])
               n == Len(inbox[u])
    <2>1. m \in Nat /\ n \in Nat /\ Pending(u) = m + n
      BY <1>0, PendingIs DEF Pending
    <2>2. 1 \in 1 .. m /\ Head(outbox[u]) = outbox[u][1]
      BY <1>0, PendingIs, TailOf
    <2>3. KeyAt(u, 1) = IF 1 <= m THEN outbox[u][1].key ELSE inbox[u][1 - m].key
      BY DEF KeyAt
    <2> HIDE DEF m, n
    <2> QED BY <2>1, <2>2, <2>3
  <1>2. ASSUME NEW j \in 1 .. Pending(t), t # u \/ j # 1
        PROVE  KeyAt(t, j) # Head(outbox[u]).key
    BY <1>1, <1>2 DEF Inv, KeysInv, KeysApart
  <1> DEFINE m == Len(outbox[t])
             n == Len(inbox[t])
             k0 == Head(outbox[u]).key
  <1>3. m \in Nat /\ n \in Nat /\ Pending(t) = m + n
    BY <1>0, PendingIs DEF Pending
  <1>4. t = u => m >= 1
    BY <1>0, PendingIs, TailOf
  <1>5. \A j : KeyAt(t, j) = IF j <= m THEN outbox[t][j].key ELSE inbox[t][j - m].key
    BY DEF KeyAt
  <1> HIDE DEF m, n, k0
  <1>6. ASSUME NEW i \in 1 .. n PROVE inbox[t][i].key # k0
    <2> DEFINE j == m + i
    <2>1. j \in 1 .. Pending(t) /\ ~(j <= m) /\ j - m = i /\ (t # u \/ j # 1)
      BY <1>3, <1>4
    <2> HIDE DEF j
    <2>2. KeyAt(t, j) = inbox[t][i].key
      BY <1>5, <2>1
    <2> QED BY <1>2, <2>1, <2>2 DEF k0
  <1>7. ASSUME NEW i \in 1 .. m, t # u \/ i # 1 PROVE outbox[t][i].key # k0
    <2>1. i \in 1 .. Pending(t) /\ i <= m
      BY <1>3
    <2>2. KeyAt(t, i) = outbox[t][i].key
      BY <1>5, <2>1
    <2> QED BY <1>2, <1>7, <2>1, <2>2 DEF k0
  <1> QED BY <1>6, <1>7 DEF m, n, k0

\* The promise of a key is settled: with the bytes of the file it was parked for.
LEMMA SettleKeeps ==
  ASSUME Inv, NEW u \in Threads, Settle(u)
  PROVE  Inv'
  <1>0. TypeOK
    BY DEF Inv
  <1> DEFINE message == Head(outbox[u])
             data == message.data
             r == tasks[message.key]
             f == asked[r].file
  <1>1. /\ outbox[u] # <<>> /\ outbox' = [outbox EXCEPT ![u] = Tail(@)]
        /\ version' = version /\ asked' = asked /\ joined' = joined
        /\ taskKey' = taskKey /\ inbox' = inbox
    BY DEF Settle, diskVars
  <1>2. /\ outbox[u] \in Seq([key : Keys, data : Data \cup {NoData}])
    BY <1>0, PendingIs
  <1>3. /\ message = outbox[u][1] /\ 1 \in 1 .. Len(outbox[u])
        /\ message \in [key : Keys, data : Data \cup {NoData}]
    BY <1>1, <1>2, TailOf
  <1>4. Parked(message.key)
    BY <1>3, MailParked
  <1>5. r \in Requests /\ r # None /\ data \in Data \cup {NoData} /\ message.key \in Keys
    BY <1>3, <1>4 DEF Parked
  <1>6. /\ tasks' = [tasks EXCEPT ![message.key] = None]
        /\ answer' = [q \in Requests |-> IF Waiting(q) /\ joined[q] = r THEN data ELSE answer[q]]
        /\ inFlight' = [inFlight EXCEPT ![f] = None]
        /\ IF data = NoData THEN UNCHANGED <<cache, bytes>> ELSE Store(r, data)
    BY <1>5, Zenon DEF Settle, Clear
  <1>7. /\ asked[r] \in Data /\ asked[r] # NoData /\ f \in Files /\ inFlight[f] = r
    <2>1. asked[r] # NoData /\ inFlight[f] = r
      BY <1>4 DEF Parked, Inv, ReadsInv, TaskReads, AskedOf
    <2> HIDE DEF r
    <2>2. asked[r] \in Data
      BY <1>0, <1>5, <2>1 DEF TypeOK
    <2> QED BY <2>1, <2>2 DEF Data
  <1>8. data # NoData => /\ data \in Data /\ data.file = f
                         /\ data.version >= asked[r].version
    BY <1>3, <1>5 DEF Inv, MailInv, Found, AskedOf
  <1>9. \A k \in Keys : k # message.key => tasks[k] # r
    BY <1>5 DEF Inv, KeysInv, TasksApart
  <1> HIDE DEF message, data, r, f
  <1>10. /\ tasks'[message.key] = None /\ tasks' \in [Keys -> Requests \cup {None}]
         /\ \A k \in Keys : k # message.key => tasks'[k] = tasks[k]
    BY <1>0, <1>5, <1>6 DEF TypeOK
  <1>11. /\ inFlight'[f] = None /\ inFlight' \in [Files -> Requests \cup {None}]
         /\ \A g \in Files : g # f => inFlight'[g] = inFlight[g]
    BY <1>0, <1>6, <1>7 DEF TypeOK
  <1>12. \A q \in Requests :
            answer'[q] = IF Waiting(q) /\ joined[q] = r THEN data ELSE answer[q]
    BY <1>6
  <1>13. /\ cache' \in Seq(Entry) /\ CacheAccounted'
         /\ \A i \in DOMAIN cache' :
               \/ data # NoData /\ cache'[i] = Stored(r, data)
               \/ \E j \in DOMAIN cache : cache'[i] = cache[j]
    <2>0. cache \in Seq(Entry) /\ CacheAccounted
      BY <1>0 DEF TypeOK, Inv, CacheInv
    <2>1. CASE data = NoData
      <3>1. cache' = cache /\ bytes' = bytes
        BY <1>6, <2>1
      <3> QED BY <2>0, <3>1 DEF CacheAccounted, SizeSum
    <2>2. CASE data # NoData
      <3>1. Store(r, data) /\ data \in Data
        BY <1>6, <1>8, <2>2
      <3> QED BY <1>5, <1>7, <2>0, <2>2, <3>1, StoreKeeps
    <2> QED BY <2>1, <2>2
  <1>14. TypeOK'
    <2>1. outbox' \in [Threads -> Seq([key : Keys, data : Data \cup {NoData}])]
      <3>1. Tail(outbox[u]) \in Seq([key : Keys, data : Data \cup {NoData}])
        BY <1>1, <1>2, TailOf
      <3> QED BY <1>0, <1>1, <3>1 DEF TypeOK
    <2>2. answer' \in [Requests -> Data \cup {NoData, NoAnswer}]
      <3>1. ASSUME NEW q \in Requests PROVE answer'[q] \in Data \cup {NoData, NoAnswer}
        BY <1>0, <1>5, <1>12 DEF TypeOK
      <3> QED BY <1>6, <3>1
    <2>3. bytes' \in Nat
      <3>1. bytes' = SizeSum(cache')
        BY <1>13 DEF CacheAccounted, SizeSum
      <3> QED BY <1>13, <3>1, SizesAre
    <2> QED BY <1>0, <1>1, <1>10, <1>11, <1>13, <2>1, <2>2, <2>3 DEF TypeOK
  <1>15. KeysInv'
    <2>1. KeysShift(u) /\ Pending(u) >= 1 /\ KeyAt(u, 1) = message.key
      BY <1>0, <1>1, TakenKeys DEF message
    <2>2. tasks' = [tasks EXCEPT ![KeyAt(u, 1)] = None]
      BY <1>6, <2>1
    <2> QED BY <1>0, <2>1, <2>2, KeysInvShifts DEF Inv
  <1>16. Sought'
    <2> SUFFICES ASSUME NEW t \in Threads, NEW i \in 1 .. Len(inbox'[t])
                 PROVE  inbox'[t][i].file = asked[tasks'[inbox'[t][i].key]].file
      <3>1. asked' = asked
        BY <1>1
      <3> QED BY <3>1, Zenon DEF Sought, AskedOf
    <2>1. i \in 1 .. Len(inbox[t]) /\ inbox'[t][i] = inbox[t][i]
      BY <1>1
    <2>2. Parked(inbox[t][i].key)
      BY <2>1, MailParked
    <2>3. inbox[t][i].key # message.key
      BY <1>1, <2>1, OthersApart DEF message
    <2>4. inbox[t][i].file = asked[tasks[inbox[t][i].key]].file
      BY <2>1 DEF Inv, MailInv, Sought, AskedOf
    <2>5. tasks'[inbox[t][i].key] = tasks[inbox[t][i].key]
      BY <1>10, <2>2, <2>3 DEF Parked
    <2> QED BY <2>1, <2>4, <2>5
  <1>17. Found'
    <2> SUFFICES ASSUME NEW t \in Threads, NEW i \in 1 .. Len(outbox'[t]),
                        outbox'[t][i].data # NoData
                 PROVE  /\ outbox'[t][i].data.file = asked[tasks'[outbox'[t][i].key]].file
                        /\ outbox'[t][i].data.version
                             >= asked[tasks'[outbox'[t][i].key]].version
      <3>1. asked' = asked
        BY <1>1
      <3> QED BY <3>1, Zenon DEF Found, AskedOf
    <2>1. ASSUME NEW j \in 1 .. Len(outbox[t]), outbox'[t][i] = outbox[t][j], t # u \/ j # 1
          PROVE  /\ outbox'[t][i].data.file = asked[tasks'[outbox'[t][i].key]].file
                 /\ outbox'[t][i].data.version
                      >= asked[tasks'[outbox'[t][i].key]].version
      <3>1. Parked(outbox[t][j].key) /\ outbox[t][j].key # message.key
        BY <1>1, <2>1, MailParked, OthersApart DEF message
      <3>2. tasks'[outbox[t][j].key] = tasks[outbox[t][j].key]
        BY <1>10, <3>1 DEF Parked
      <3>3. /\ outbox[t][j].data.file = asked[tasks[outbox[t][j].key]].file
            /\ outbox[t][j].data.version >= asked[tasks[outbox[t][j].key]].version
        BY <2>1 DEF Inv, MailInv, Found, AskedOf
      <3> QED BY <2>1, <3>2, <3>3
    <2>2. CASE t # u
      <3>1. outbox'[t] = outbox[t]
        BY <1>0, <1>1, <2>2 DEF TypeOK
      <3> QED BY <2>1, <2>2, <3>1
    <2>3. CASE t = u
      <3>1. outbox'[t] = Tail(outbox[u])
        BY <1>0, <1>1, <2>3 DEF TypeOK
      <3>2. Len(Tail(outbox[u])) = Len(outbox[u]) - 1 /\ Len(outbox[u]) \in Nat
        BY <1>1, <1>2, TailOf
      <3>3. i \in 1 .. Len(outbox[u]) - 1
        BY <2>3, <3>1, <3>2
      <3>4. i + 1 \in 1 .. Len(outbox[u]) /\ Tail(outbox[u])[i] = outbox[u][i + 1]
        BY <1>1, <1>2, <3>3, TailOf
      <3>5. i + 1 # 1
        BY <3>3
      <3> QED BY <2>1, <2>3, <3>1, <3>4, <3>5
    <2> QED BY <2>2, <2>3
  <1>18. ReadsInv'
    <2>1. TaskReads'
      <3> SUFFICES ASSUME NEW k \in Keys, tasks'[k] # None
                   PROVE  /\ asked[tasks'[k]] # NoData
                          /\ inFlight'[asked[tasks'[k]].file] = tasks'[k]
        <4>1. asked' = asked
          BY <1>1
        <4> QED BY <4>1, Zenon DEF TaskReads, AskedOf
      <3>1. k # message.key /\ tasks'[k] = tasks[k] /\ tasks[k] # r
        BY <1>9, <1>10
      <3>2. asked[tasks[k]] # NoData /\ inFlight[asked[tasks[k]].file] = tasks[k]
        BY <3>1 DEF Inv, ReadsInv, TaskReads, AskedOf
      <3>3. tasks[k] \in Requests
        BY <1>0, <3>1 DEF TypeOK
      <3>4. asked[tasks[k]].file \in Files /\ asked[tasks[k]].file # f
        BY <1>0, <1>7, <3>1, <3>2, <3>3 DEF TypeOK, Data
      <3> QED BY <1>11, <3>1, <3>2, <3>4
    <2>2. FlightReads'
      BY <1>1, <1>11 DEF FlightReads, Inv, ReadsInv
    <2>3. JoinsSame' /\ StatsRead'
      BY <1>1 DEF JoinsSame, StatsRead, Inv, ReadsInv
    <2>4. NothingYet'
      BY <1>1, <1>12 DEF NothingYet, Inv, ReadsInv, Waiting
    <2> QED BY <2>1, <2>2, <2>3, <2>4 DEF ReadsInv
  <1>19. GivenInv'
    <2>1. ASSUME NEW q \in Requests, answer'[q] \in Data
          PROVE  \/ answer'[q] = answer[q]
                 \/ answer'[q] = data /\ data # NoData /\ joined[q] = r
      BY <1>12, <2>1, NoDataApart
    <2>2. RightFile'
      <3> SUFFICES ASSUME NEW q \in Requests, answer'[q] \in Data
                   PROVE  answer'[q].file = asked[q].file
        BY <1>1 DEF RightFile
      <3>1. CASE answer'[q] = answer[q]
        BY <3>1 DEF Inv, GivenInv, RightFile
      <3>2. CASE answer'[q] = data /\ data # NoData /\ joined[q] = r
        <4>1. asked[r].file = asked[q].file
          BY <1>5, <3>2 DEF Inv, ReadsInv, JoinsSame
        <4> QED BY <1>8, <3>2, <4>1 DEF f
      <3> QED BY <2>1, <3>1, <3>2
    <2>3. NotOlderThanRead'
      <3> SUFFICES ASSUME NEW q \in Requests, answer'[q] \in Data
                   PROVE  answer'[q].version >= IF joined[q] = None THEN asked[q].version
                                                ELSE asked[joined[q]].version
        BY <1>1 DEF NotOlderThanRead
      <3>1. CASE answer'[q] = answer[q]
        BY <3>1 DEF Inv, GivenInv, NotOlderThanRead
      <3>2. CASE answer'[q] = data /\ data # NoData /\ joined[q] = r
        BY <1>5, <1>8, <3>2
      <3> QED BY <2>1, <3>1, <3>2
    <2> QED BY <2>2, <2>3 DEF GivenInv
  <1>20. CacheInv'
    <2>1. CachedNotOlder'
      <3> SUFFICES ASSUME NEW i \in DOMAIN cache'
                   PROVE  /\ cache'[i].data.file = cache'[i].file
                          /\ cache'[i].data.version >= cache'[i].stat
        BY DEF CachedNotOlder
      <3>1. CASE data # NoData /\ cache'[i] = Stored(r, data)
        BY <1>8, <3>1 DEF Stored, StatAsked, f
      <3>2. CASE \E j \in DOMAIN cache : cache'[i] = cache[j]
        BY <3>2 DEF Inv, CacheInv, CachedNotOlder
      <3> QED BY <1>13, <3>1, <3>2
    <2> QED BY <1>13, <2>1 DEF CacheInv
  <1> QED BY <1>14, <1>15, <1>16, <1>17, <1>18, <1>19, <1>20 DEF Inv, MailInv

LEMMA InvNext ==
  ASSUME Inv, KeyFree, [Next]_vars
  PROVE  Inv'
  <1>1. ASSUME NEW f \in Files, Edit(f) PROVE Inv'
    BY <1>1, EditKeeps
  <1>2. ASSUME NEW r \in Requests, NEW f \in Files, Ask(r, f) PROVE Inv'
    BY <1>2, AskKeeps
  <1>3. ASSUME NEW t \in Threads, ThreadReads(t) \/ Settle(t) PROVE Inv'
    BY <1>3, ThreadReadsKeeps, SettleKeeps
  <1>4. CASE UNCHANGED vars
    <2> USE <1>4 DEF vars, diskVars, requestVars, cacheVars, taskVars, threadVars
    <2>1. TypeOK'
      BY DEF Inv, TypeOK
    <2>2. KeysInv'
      BY KeysSame DEF Inv
    <2>3. MailInv' /\ ReadsInv'
      BY DEF Inv, MailInv, Sought, Found, ReadsInv, TaskReads, FlightReads, JoinsSame,
             NothingYet, StatsRead, AskedOf
    <2>4. GivenInv' /\ CacheInv'
      BY DEF Inv, GivenInv, RightFile, NotOlderThanRead, CacheInv, CacheAccounted,
             CachedNotOlder, SizeSum
    <2> QED BY <2>1, <2>2, <2>3, <2>4 DEF Inv
  <1> QED BY <1>1, <1>2, <1>3, <1>4 DEF Next

\* While the counter, starting over, comes to no key that still waits, everyone is
\* given the bytes of its own file, no older than the read it joined, and the cache
\* keeps its count and its budget (createWorkerTask, readSmallFile), however many
\* threads read.
THEOREM CacheRightWhileKeysLast == Spec /\ []KeyFree => []CacheIsRight
  <1>1. Init => Inv
    BY InvInit
  <1>2. Inv /\ KeyFree /\ [Next]_vars => Inv'
    BY InvNext
  <1>3. Inv /\ KeyFree => CacheIsRight
    BY DEF Inv, GivenInv, CacheInv, CacheIsRight
  <1> QED BY <1>1, <1>2, <1>3, PTL DEF Spec

-----------------------------------------------------------------------------
(* One thread: the keys that wait are the last ones the counter gave, and   *)
(* there are fewer of them than files.                                      *)

Busy == {f \in Files : inFlight[f] # None}
Behind(key, n) == IF n <= key THEN key - n ELSE key + (KeyLimit + 2) - n
Recent ==
    \A t \in Threads : \A i \in 1 .. Pending(t) :
        KeyAt(t, i) = Behind(taskKey, Pending(t) - i + 1)

OneThread == \A t, u \in Threads : t = u
FewFiles == IsFiniteSet(Files) /\ Cardinality(Files) <= KeyLimit + 2

\* Two reads that wait are of two files.
LEMMA PendingFiles ==
  ASSUME Inv, FewFiles, NEW t \in Threads
  PROVE  Pending(t) <= Cardinality(Busy) /\ IsFiniteSet(Busy)
  <1>0. TypeOK /\ Pending(t) \in Nat
    BY PendingNat DEF Inv
  <1> DEFINE g == [i \in 1 .. Pending(t) |-> AskedOf(KeyAt(t, i)).file]
  <1>1. ASSUME NEW i \in 1 .. Pending(t)
        PROVE  /\ KeyAt(t, i) \in Keys /\ g[i] \in Busy
               /\ inFlight[g[i]] = tasks[KeyAt(t, i)] /\ tasks[KeyAt(t, i)] # None
    <2>1. KeyAt(t, i) \in Keys /\ tasks[KeyAt(t, i)] # None
      BY <1>0, KeyIn DEF Inv, KeysInv, KeysParked
    <2>2. /\ AskedOf(KeyAt(t, i)) # NoData
          /\ inFlight[AskedOf(KeyAt(t, i)).file] = tasks[KeyAt(t, i)]
      BY <2>1 DEF Inv, ReadsInv, TaskReads
    <2>3. AskedOf(KeyAt(t, i)) \in Data
      BY <1>0, <2>1, <2>2 DEF TypeOK, AskedOf
    <2>4. AskedOf(KeyAt(t, i)).file \in Files
      BY <2>3 DEF Data
    <2> QED BY <2>1, <2>2, <2>4 DEF Busy
  <1>2. \A i, j \in 1 .. Pending(t) : g[i] = g[j] => i = j
    <2> SUFFICES ASSUME NEW i \in 1 .. Pending(t), NEW j \in 1 .. Pending(t), g[i] = g[j]
                 PROVE  i = j
      OBVIOUS
    <2> HIDE DEF g
    <2>1. KeyAt(t, i) = KeyAt(t, j)
      BY <1>1 DEF Inv, KeysInv, TasksApart
    <2> QED BY <2>1 DEF Inv, KeysInv, KeysApart
  <1>3. g \in [1 .. Pending(t) -> Busy]
    BY <1>1
  <1> HIDE DEF g
  <1>4. g \in Injection(1 .. Pending(t), Busy)
    BY <1>2, <1>3 DEF Injection, IsInjective
  <1>5. IsFiniteSet(Busy)
    BY FS_Subset DEF FewFiles, Busy
  <1>6. Cardinality(1 .. Pending(t)) <= Cardinality(Busy)
    BY <1>4, <1>5, FS_Injection
  <1>7. Cardinality(1 .. Pending(t)) = Pending(t)
    BY <1>0, FS_Interval
  <1> QED BY <1>5, <1>6, <1>7

\* While there is a file to read, fewer wait than there are keys.
LEMMA PendingFew ==
  ASSUME Inv, FewFiles, NEW t \in Threads, NEW f \in Files, inFlight[f] = None
  PROVE  Pending(t) <= KeyLimit + 1
  <1>1. Busy \subseteq Files \ {f} /\ f \in Files
    BY DEF Busy
  <1>2. IsFiniteSet(Files \ {f}) /\ Cardinality(Files \ {f}) = Cardinality(Files) - 1
    BY FS_RemoveElement DEF FewFiles
  <1>3. Cardinality(Busy) <= Cardinality(Files \ {f})
    BY <1>1, <1>2, FS_Subset
  <1>4. Cardinality(Files) \in Nat /\ Cardinality(Busy) \in Nat
    BY PendingFiles, FS_CardinalityType DEF FewFiles
  <1>5. Pending(t) \in Nat /\ KeyLimit \in Nat
    BY PendingNat, FileCacheAssumption DEF Inv
  <1> QED BY <1>2, <1>3, <1>4, <1>5, PendingFiles DEF FewFiles

LEMMA RecentKeysFree ==
  ASSUME Inv, Recent, FewFiles, OneThread
  PROVE  KeyFree
  <1> SUFFICES ASSUME NEW f \in Files, inFlight[f] = None, tasks[taskKey] # None
               PROVE  FALSE
    BY DEF KeyFree
  <1>1. taskKey \in Nat /\ taskKey \in Keys /\ KeyLimit \in Nat /\ taskKey <= KeyLimit + 1
    BY FileCacheAssumption DEF Inv, TypeOK, Keys
  <1>2. PICK t \in Threads : \E i \in 1 .. Pending(t) : KeyAt(t, i) = taskKey
    BY <1>1 DEF Inv, KeysInv, TasksSent
  <1>3. PICK i \in 1 .. Pending(t) : KeyAt(t, i) = taskKey
    BY <1>2
  <1>4. Pending(t) \in Nat /\ Pending(t) <= KeyLimit + 1
    BY PendingFew, PendingNat DEF Inv
  <1> DEFINE n == Pending(t) - i + 1
  <1>5. n \in 1 .. KeyLimit + 1
    BY <1>1, <1>4
  <1>6. Behind(taskKey, n) = taskKey
    BY <1>3 DEF Recent
  <1> HIDE DEF n
  <1> QED BY <1>1, <1>5, <1>6 DEF Behind

LEMMA RecentNext ==
  ASSUME Inv, Recent, FewFiles, OneThread, [Next]_vars
  PROVE  Recent'
  <1>0. /\ TypeOK /\ taskKey \in Nat /\ KeyLimit \in Nat /\ taskKey <= KeyLimit + 1
        /\ taskKey \in Keys
    <2>1. TypeOK
      BY DEF Inv
    <2>2. taskKey \in Keys
      BY <2>1 DEF TypeOK
    <2>3. taskKey \in Nat /\ KeyLimit \in Nat /\ taskKey <= KeyLimit + 1
      BY <2>2, FileCacheAssumption DEF Keys
    <2> QED BY <2>1, <2>2, <2>3, Zenon
  <1>1. ASSUME KeysStay, taskKey' = taskKey PROVE Recent'
    <2> SUFFICES ASSUME NEW t \in Threads, NEW i \in 1 .. Pending(t)'
                 PROVE  KeyAt(t, i)' = Behind(taskKey', Pending(t)' - i + 1)
      BY DEF Recent, Behind
    <2> QED BY <1>1 DEF KeysStay, Recent
  <1>2. ASSUME inbox' = inbox, outbox' = outbox, taskKey' = taskKey PROVE Recent'
    <2>1. ASSUME NEW t \in Threads
          PROVE  Pending(t)' = Pending(t) /\ \A i \in 1 .. Pending(t) : KeyAt(t, i)' = KeyAt(t, i)
      BY <1>2, SameMailSameKeys
    <2> QED BY <1>1, <1>2, <2>1 DEF KeysStay
  <1>3. ASSUME NEW r \in Requests, NEW f \in Files, Ask(r, f) PROVE Recent'
    <2>1. CASE Hit(r, f) \/ Join(r, f)
      BY <1>2, <2>1 DEF Hit, Join, taskVars, threadVars
    <2>2. CASE StartRead(r, f)
      <3> DEFINE ask == [key |-> taskKey, file |-> f]
      <3>1. PICK u \in Threads : inbox' = [inbox EXCEPT ![u] = Append(@, ask)]
        BY <2>2 DEF StartRead
      <3>2. inFlight[f] = None /\ taskKey' = NextKey(taskKey) /\ outbox' = outbox
        BY <2>2 DEF StartRead, MayJoin
      <3>3. ask \in [key : Keys, file : Files] /\ ask.key = taskKey
        BY <1>0
      <3> HIDE DEF ask
      <3>4. KeysGrow(u, taskKey)
        <4>1. KeysGrow(u, ask.key)
          BY <1>0, <3>1, <3>2, <3>3, SentKeys
        <4> QED BY <3>3, <4>1, Zenon
      <3>5. Pending(u) \in Nat /\ Pending(u) <= KeyLimit + 1
        BY <1>0, <3>2, PendingFew, PendingNat
      <3>6. Pending(u)' = Pending(u) + 1
        BY <3>4 DEF KeysGrow
      <3> SUFFICES ASSUME NEW i \in 1 .. Pending(u)'
                   PROVE  KeyAt(u, i)' = Behind(taskKey', Pending(u)' - i + 1)
        BY DEF Recent, Behind, OneThread
      <3>7. CASE i = Pending(u) + 1
        <4>1. KeyAt(u, i)' = taskKey
          BY <3>4, <3>7 DEF KeysGrow
        <4>2. Pending(u)' - i + 1 = 1
          BY <3>5, <3>6, <3>7
        <4>3. Behind(taskKey', 1) = taskKey
          BY <1>0, <3>2 DEF Behind, NextKey
        <4> QED BY <4>1, <4>2, <4>3
      <3>8. CASE i # Pending(u) + 1
        <4>1. i \in 1 .. Pending(u)
          BY <3>5, <3>6, <3>8
        <4> DEFINE n == Pending(u) - i + 1
        <4>2. KeyAt(u, i)' = Behind(taskKey, n)
          BY <3>4, <4>1 DEF KeysGrow, Recent
        <4>3. n \in 1 .. KeyLimit + 1 /\ Pending(u)' - i + 1 = n + 1
          BY <1>0, <3>5, <3>6, <4>1
        <4> HIDE DEF n
        <4>4. Behind(taskKey', n + 1) = Behind(taskKey, n)
          BY <1>0, <3>2, <4>3 DEF Behind, NextKey
        <4> QED BY <4>2, <4>3, <4>4
      <3> QED BY <3>7, <3>8
    <2> QED BY <1>3, <2>1, <2>2 DEF Ask
  <1>4. ASSUME NEW u \in Threads, ThreadReads(u) PROVE Recent'
    BY <1>0, <1>1, <1>4, ReadKeys DEF ThreadReads, taskVars
  <1>5. ASSUME NEW u \in Threads, Settle(u) PROVE Recent'
    <2>1. /\ outbox[u] # <<>> /\ outbox' = [outbox EXCEPT ![u] = Tail(@)]
          /\ inbox' = inbox /\ taskKey' = taskKey
      BY <1>5 DEF Settle
    <2>2. KeysShift(u)
      BY <1>0, <2>1, TakenKeys
    <2>3. Pending(u) \in Nat /\ Pending(u)' = Pending(u) - 1
      BY <1>0, <2>2, PendingNat DEF KeysShift
    <2> SUFFICES ASSUME NEW i \in 1 .. Pending(u)'
                 PROVE  KeyAt(u, i)' = Behind(taskKey', Pending(u)' - i + 1)
      BY DEF Recent, Behind, OneThread
    <2>4. KeyAt(u, i)' = KeyAt(u, i + 1)
      BY <2>2, <2>3 DEF KeysShift
    <2>5. i + 1 \in 1 .. Pending(u) /\ Pending(u) - (i + 1) + 1 = Pending(u)' - i + 1
      BY <2>3
    <2>6. KeyAt(u, i + 1) = Behind(taskKey, Pending(u) - (i + 1) + 1)
      BY <2>5 DEF Recent
    <2> QED BY <2>1, <2>4, <2>5, <2>6
  <1>6. ASSUME NEW f \in Files, Edit(f) PROVE Recent'
    BY <1>2, <1>6 DEF Edit, taskVars, threadVars
  <1>7. CASE UNCHANGED vars
    BY <1>2, <1>7 DEF vars, taskVars, threadVars
  <1> QED BY <1>3, <1>4, <1>5, <1>6, <1>7 DEF Next

\* With the one file thread the application starts by default, and no more files
\* read at once than there are keys, the counter may start over: the keys do not
\* run into each other, and everything above holds.
THEOREM CacheRightWithOneThread ==
  ASSUME OneThread, FewFiles
  PROVE  Spec => []CacheIsRight
  <1>1. Init => Inv /\ Recent
    BY InvInit DEF Init, Recent, Pending
  <1>2. Inv /\ Recent => KeyFree
    BY RecentKeysFree
  <1>3. Inv /\ Recent /\ [Next]_vars => Inv' /\ Recent'
    BY <1>2, InvNext, RecentNext
  <1>4. Inv /\ KeyFree => CacheIsRight
    BY DEF Inv, GivenInv, CacheInv, CacheIsRight
  <1> QED BY <1>1, <1>2, <1>3, <1>4, PTL DEF Spec

-----------------------------------------------------------------------------
(* res.sendFile: the bytes the options and the ranges select.              *)

\* The positions the start and end options leave, and those a client asks for
\* in n bytes.
InWindow(o, v) == {i \in 0 .. FileSize(v) - 1 :
                      i >= o.start /\ (o.end # Unset => i <= o.end)}
AskedFor(specs, n, i) ==
    \E s \in specs : CASE s.first = Unset -> n - s.last <= i /\ s.last <= n
                       [] s.first # Unset /\ s.last = Unset -> s.first <= i
                       [] OTHER -> s.first <= i /\ i <= s.last

LEMMA RevisionFacts ==
  ASSUME NEW v \in Revision
  PROVE  v \in Nat \ {0} /\ FileSize(v) \in Nat /\ Second(v) \in Nat
  <1>0. Versions \in Seq([size : Nat, mtime : Nat])
    BY SendFileAssumption
  <1>2. v \in 1 .. Len(Versions)
    BY DEF Revision
  <1>3. Versions[v] \in [size : Nat, mtime : Nat]
    BY <1>0, <1>2, ElementOfSeq
  <1>1. Versions[v] \in [size : Nat, mtime : Nat] /\ v \in Nat \ {0}
    BY <1>0, <1>2, <1>3
  <1> QED BY <1>1 DEF FileSize, Second

LEMMA IntervalSize ==
  \A a, b \in Int : Cardinality(a .. b) = IF a > b THEN 0 ELSE b - a + 1
  BY FS_Interval

LEMMA MinMax ==
  ASSUME NEW S \in SUBSET Nat, S # {}, NEW n \in Nat, \A i \in S : i <= n
  PROVE  /\ Min(S) \in S /\ \A i \in S : Min(S) <= i
         /\ Max(S) \in S /\ \A i \in S : i <= Max(S)
  <1>1. \E x \in S : \A y \in S : x <= y
    BY LeastOf
  <1>2. \E x \in S : \A y \in S : x >= y
    <2> DEFINE T == {n - i : i \in S}
    <2>0. \A i \in S : n - i \in Nat
      OBVIOUS
    <2>1. T \in SUBSET Nat /\ T # {}
      BY <2>0
    <2>2. PICK t \in T : \A u \in T : t <= u
      BY <2>1, LeastOf
    <2>3. PICK x \in S : t = n - x
      BY <2>2
    <2>4. \A y \in S : x >= y
      <3> TAKE y \in S
      <3>1. n - y \in T
        OBVIOUS
      <3> QED BY <3>1, <2>2, <2>3
    <2> QED BY <2>3, <2>4
  <1> QED BY <1>1, <1>2 DEF Min, Max

LEMMA MinOfTwo == \A a, b \in Int : Min({a, b}) = IF a <= b THEN a ELSE b
  <1> TAKE a, b \in Int
  <1>1. CASE a <= b
    <2>1. a \in {a, b} /\ \A y \in {a, b} : a <= y
      BY <1>1
    <2>2. \A x \in {a, b} : (\A y \in {a, b} : x <= y) => x = a
      BY <1>1
    <2> QED BY <1>1, <2>1, <2>2 DEF Min
  <1>2. CASE ~(a <= b)
    <2>1. b \in {a, b} /\ \A y \in {a, b} : b <= y
      BY <1>2
    <2>2. \A x \in {a, b} : (\A y \in {a, b} : x <= y) => x = b
      BY <1>2
    <2> QED BY <1>2, <2>1, <2>2 DEF Min
  <1> QED BY <1>1, <1>2

LEMMA MaxOfTwo == \A a, b \in Int : Max({a, b}) = IF a >= b THEN a ELSE b
  <1> TAKE a, b \in Int
  <1>1. CASE a >= b
    <2>1. a \in {a, b} /\ \A y \in {a, b} : a >= y
      BY <1>1
    <2>2. \A x \in {a, b} : (\A y \in {a, b} : x >= y) => x = a
      BY <1>1
    <2> QED BY <1>1, <2>1, <2>2 DEF Max
  <1>2. CASE ~(a >= b)
    <2>1. b \in {a, b} /\ \A y \in {a, b} : b >= y
      BY <1>2
    <2>2. \A x \in {a, b} : (\A y \in {a, b} : x >= y) => x = b
      BY <1>2
    <2> QED BY <1>2, <2>1, <2>2 DEF Max
  <1> QED BY <1>1, <1>2

LEMMA WindowIs ==
  ASSUME NEW o, OptionsAssumption(o), NEW v \in Revision
  PROVE  LET w == Window(o, v)
         IN  /\ w \in [from : Nat, len : Nat] /\ w.from = o.start
             /\ w.len > 0 => o.start + w.len <= FileSize(v)
             /\ w.len = 0 => o.start >= FileSize(v)
             /\ InWindow(o, v) = o.start .. (o.start + w.len - 1)
             /\ Cardinality(InWindow(o, v)) = w.len
  <1> DEFINE w == Window(o, v)
             size == FileSize(v)
             rest == Max({0, size - o.start})
  <1>1. size \in Nat /\ o.start \in Nat /\ o.end \in Nat \cup {Unset} /\ Unset \notin Nat
        /\ (o.end # Unset => o.start <= o.end)
    BY RevisionFacts, SendFileAssumption DEF OptionsAssumption
  <1>2. rest = IF 0 >= size - o.start THEN 0 ELSE size - o.start
    BY <1>1, MaxOfTwo
  <1>3. rest \in Nat
    BY <1>1, <1>2
  <1>4. o.end # Unset => Min({rest, o.end - o.start + 1})
                         = IF rest <= o.end - o.start + 1 THEN rest ELSE o.end - o.start + 1
    BY <1>1, <1>3, MinOfTwo
  <1>5. w.from = o.start /\ w = [from |-> w.from, len |-> w.len]
        /\ w.len = IF o.end = Unset THEN rest ELSE Min({rest, o.end - o.start + 1})
    BY DEF Window
  <1> HIDE DEF w, rest
  <1>6. w.len \in Nat
    BY <1>1, <1>3, <1>4, <1>5
  <1>7. (w.len > 0 => o.start + w.len <= size) /\ (w.len = 0 => o.start >= size)
    BY <1>1, <1>2, <1>3, <1>4, <1>5
  <1>8. InWindow(o, v) = o.start .. (o.start + w.len - 1)
    <2>1. \A i \in Nat : i \in InWindow(o, v) <=> i >= o.start /\ i <= o.start + w.len - 1
      <3> TAKE i \in Nat
      <3>1. i \in InWindow(o, v)
            <=> i < size /\ i >= o.start /\ (o.end # Unset => i <= o.end)
        BY <1>1 DEF InWindow
      <3>2. i >= o.start /\ (o.end # Unset => i <= o.end) /\ i < size
            <=> i >= o.start /\ i <= o.start + w.len - 1
        BY <1>1, <1>2, <1>4, <1>5, <1>6
      <3> QED BY <3>1, <3>2
    <2>2. InWindow(o, v) \subseteq Nat
      BY <1>1 DEF InWindow
    <2>3. \A i \in o.start .. (o.start + w.len - 1) : i \in Nat
      BY <1>1
    <2>4. \A i \in Nat : i \in o.start .. (o.start + w.len - 1)
                         <=> i >= o.start /\ i <= o.start + w.len - 1
      BY <1>1, <1>6
    <2> QED BY <2>1, <2>2, <2>3, <2>4
  <1>9. Cardinality(InWindow(o, v)) = w.len
    <2>1. PICK a, b \in Int : a = o.start /\ b = o.start + w.len - 1
      BY <1>1, <1>6
    <2>2. Cardinality(a .. b) = IF a > b THEN 0 ELSE b - a + 1
      BY IntervalSize
    <2> QED BY <1>1, <1>6, <1>8, <2>1, <2>2
  <1> QED BY <1>1, <1>5, <1>6, <1>7, <1>8, <1>9 DEF w

LEMMA CoveredIs ==
  ASSUME NEW q, RequestAssumption(q), q.ranges # Unset, NEW n \in Nat
  PROVE  /\ Covered(q.ranges, n) \subseteq 0 .. n - 1
         /\ \A i \in 0 .. n - 1 : i \in Covered(q.ranges, n) <=> AskedFor(q.ranges, n, i)
  <1>1. ASSUME NEW s \in q.ranges
        PROVE  /\ Interval(s, n) \subseteq 0 .. n - 1
               /\ \A i \in 0 .. n - 1 : i \in Interval(s, n)
                    <=> CASE s.first = Unset -> n - s.last <= i /\ s.last <= n
                          [] s.first # Unset /\ s.last = Unset -> s.first <= i
                          [] OTHER -> s.first <= i /\ i <= s.last
    <2>1. s.first \in Nat \cup {Unset} /\ s.last \in Nat \cup {Unset}
          /\ ~(s.first = Unset /\ s.last = Unset) /\ Unset \notin Nat
      BY SendFileAssumption DEF RequestAssumption
    <2>2. CASE s.first = Unset
      <3>1. s.last \in Nat
        BY <2>1, <2>2
      <3>2. Interval(s, n) = IF n - s.last < 0 THEN {} ELSE (n - s.last) .. (n - 1)
        BY <2>2 DEF Interval
      <3> QED BY <2>2, <3>1, <3>2
    <2>3. CASE s.first # Unset /\ s.last = Unset
      <3>1. s.first \in Nat
        BY <2>1, <2>3
      <3>2. Interval(s, n) = s.first .. (n - 1)
        BY <2>3, <3>1 DEF Interval
      <3> QED BY <2>3, <3>1, <3>2
    <2>4. CASE s.first # Unset /\ s.last # Unset
      <3>1. s.first \in Nat /\ s.last \in Nat
        BY <2>1, <2>4
      <3>2. Interval(s, n) = s.first .. (IF s.last > n - 1 THEN n - 1 ELSE s.last)
        BY <2>4, <3>1 DEF Interval
      <3> QED BY <2>4, <3>1, <3>2
    <2> QED BY <2>2, <2>3, <2>4
  <1> QED BY <1>1 DEF Covered, AskedFor

\* What is sent: nothing when no range is satisfiable, else the bytes from p.from
\* on, the ones a client may conclude it was sent.
LEMMA PlanIs ==
  ASSUME NEW q, RequestAssumption(q), NEW o, OptionsAssumption(o), NEW v \in Revision,
         NEW tag, NEW date
  PROVE  LET w == Window(o, v)
             p == Ranged(q, o, tag, date, w)
             part == IsPart(q, o, tag, date, w)
         IN  /\ part => /\ p.len \in Nat \ {0}
                        /\ {i \in InWindow(o, v) :
                               AskedFor(q.ranges, Cardinality(InWindow(o, v)), i - o.start)}
                           = p.from .. (p.from + p.len - 1)
             /\ p.len # -1 =>
                   /\ p \in [from : Nat, len : Nat] /\ p.from >= o.start
                   /\ p.len > 0 => p.from + p.len <= FileSize(v)
                   /\ p.len = 0 => p.from >= FileSize(v)
                   /\ ~part => InWindow(o, v) = p.from .. (p.from + p.len - 1)
             /\ w.from = o.start
  <1> DEFINE w == Window(o, v)
             p == Ranged(q, o, tag, date, w)
             covers == Covered(q.ranges, w.len)
  <1>1. /\ w \in [from : Nat, len : Nat] /\ w.from = o.start
        /\ w.len > 0 => o.start + w.len <= FileSize(v)
        /\ w.len = 0 => o.start >= FileSize(v)
        /\ InWindow(o, v) = o.start .. (o.start + w.len - 1)
        /\ Cardinality(InWindow(o, v)) = w.len
    BY WindowIs
  <1>2. o.start \in Nat /\ FileSize(v) \in Nat /\ w.len \in Nat
    BY <1>1, RevisionFacts DEF OptionsAssumption
  <1> HIDE DEF w
  <1>3. CASE IsPart(q, o, tag, date, w)
    <2>1. /\ RangeAsked(q, o) /\ RangeFresh(q, tag, date)
          /\ covers # {} /\ OneRange(q.ranges, w.len)
      BY <1>3 DEF IsPart
    <2>2. q.ranges # Unset
      BY <2>1 DEF RangeAsked
    <2>3. /\ covers \subseteq 0 .. w.len - 1
          /\ \A i \in 0 .. w.len - 1 : i \in covers <=> AskedFor(q.ranges, w.len, i)
      BY <1>2, <2>2, CoveredIs
    <2>4. PICK a, b : a = Min(covers) /\ b = Max(covers)
      OBVIOUS
    <2>5. covers = a .. b
      BY <2>1, <2>4 DEF OneRange
    <2>6. covers \in SUBSET Nat /\ \A i \in covers : i <= w.len
      BY <1>2, <2>3
    <2>7. a \in covers /\ b \in covers /\ \A i \in covers : a <= i /\ i <= b
      BY <1>2, <2>1, <2>4, <2>6, MinMax
    <2>8. a \in Nat /\ b \in Nat /\ a <= b /\ b <= w.len - 1
      BY <1>2, <2>3, <2>7
    <2>9. Cardinality(covers) = b - a + 1
      <3>1. Cardinality(a .. b) = IF a > b THEN 0 ELSE b - a + 1
        BY <2>8, IntervalSize
      <3> QED BY <2>5, <2>8, <3>1
    <2>10. p = [from |-> o.start + a, len |-> b - a + 1]
      <3>1. p = [from |-> w.from + Min(covers), len |-> Cardinality(covers)]
        BY <2>1 DEF Ranged
      <3> QED BY <1>1, <2>4, <2>9, <3>1
    <2> HIDE DEF p, covers
    <2>11. p.from = o.start + a /\ p.len = b - a + 1
      BY <2>10
    <2>12. {i \in InWindow(o, v) :
              AskedFor(q.ranges, Cardinality(InWindow(o, v)), i - o.start)}
           = p.from .. (p.from + p.len - 1)
      <3> DEFINE S == {i \in InWindow(o, v) : AskedFor(q.ranges, w.len, i - o.start)}
                 T == p.from .. (p.from + p.len - 1)
      <3>1. ASSUME NEW i \in InWindow(o, v)
            PROVE  AskedFor(q.ranges, w.len, i - o.start) <=> i \in T
        <4>1. i \in Nat /\ i - o.start \in 0 .. w.len - 1
          BY <1>1, <1>2
        <4>2. AskedFor(q.ranges, w.len, i - o.start) <=> i - o.start \in a .. b
          BY <2>3, <2>5, <4>1
        <4>3. i - o.start \in a .. b <=> i \in T
          BY <1>2, <2>8, <2>11, <4>1
        <4> QED BY <4>2, <4>3
      <3>2. T \subseteq InWindow(o, v)
        BY <1>1, <1>2, <2>8, <2>11
      <3>3. S = T
        BY <3>1, <3>2
      <3> QED BY <1>1, <3>3
    <2>13. p \in [from : Nat, len : Nat] /\ p.len > 0 /\ p.from >= o.start
           /\ p.from + p.len <= o.start + w.len /\ w.len > 0
      BY <1>2, <2>8, <2>10, <2>11
    <2> QED BY <1>1, <1>2, <1>3, <2>11, <2>12, <2>13 DEF p, w
  <1>4. CASE ~IsPart(q, o, tag, date, w)
    <2>1. CASE p = w
      BY <1>1, <1>2, <1>4, <2>1 DEF w
    <2>2. CASE p # w
      <3>1. p = [w EXCEPT !.len = -1]
        BY <1>4, <2>2 DEF Ranged, IsPart
      <3>2. p.len = -1
        BY <1>1, <3>1
      <3> QED BY <1>1, <1>4, <3>2 DEF w
    <2> QED BY <2>1, <2>2
  <1> QED BY <1>3, <1>4

-----------------------------------------------------------------------------
(* res.sendFile: what its answers are.                                     *)

PlanOf(q, o, v) == Ranged(q, o, TagOf(o, v), DateOf(o, v), Window(o, v))
PartOf(q, o, v) == IsPart(q, o, TagOf(o, v), DateOf(o, v), Window(o, v))
Fails(q, o, v) == PreconditionFailure(q, TagOf(o, v), DateOf(o, v))
Current(q, o, v) == ~Fails(q, o, v) /\ Fresh(q, TagOf(o, v), DateOf(o, v))

\* The covers are to go out, and the status and the part told are theirs.
GoesOn(q, o, v) == /\ v \in Revision /\ ~Fails(q, o, v) /\ ~Current(q, o, v)
                   /\ q.method # "HEAD" /\ PlanOf(q, o, v).len # -1
Labelled(q, o, v, r) ==
    /\ r.status = IF PartOf(q, o, v) THEN 206 ELSE 200
    /\ PartOf(q, o, v) => r.part = Part(Window(o, v), PlanOf(q, o, v))

\* The last byte the stream is asked for.
EndOf(v, p) == IF Partial(v, p) THEN Max({p.from, p.from + p.len - 1}) ELSE Unset

\* Wanted, Denied and Holds, of the values they are about.
Chosen(q, o, v, status) ==
    IF status = 206
    THEN {i \in InWindow(o, v) :
             AskedFor(q.ranges, Cardinality(InWindow(o, v)), i - o.start)}
    ELSE InWindow(o, v)

DeniedFor(q, o, v) ==
    IF q.ifMatch # Unset
    THEN ~(q.ifMatch = Star /\ TagOf(o, v) # Unset)
         /\ ~ \E t \in IF q.ifMatch = Star THEN {} ELSE q.ifMatch :
                TagOf(o, v) # Unset /\ TagMatches(t, TagOf(o, v))
    ELSE q.ifUnmodified # Unset /\ (o.lastModified => Second(v) > q.ifUnmodified)

HeldBy(q, o, v) ==
    IF q.ifNoneMatch # Unset
    THEN q.ifNoneMatch = Star \/ \E t \in q.ifNoneMatch :
            TagOf(o, v) # Unset /\ SameEntity(t, TagOf(o, v))
    ELSE q.ifModified # Unset /\ o.lastModified /\ Second(v) <= q.ifModified

LEMMA WantedIsChosen ==
    /\ Wanted = Chosen(req, opt, stat, res.status)
    /\ Wanted' = Chosen(req', opt', stat', res'.status)
  <1>1. Wanted = Chosen(req, opt, stat, res.status)
    BY DEF Wanted, Chosen, InWindow, AskedFor
  <1>2. Wanted' = Chosen(req', opt', stat', res'.status)
    BY DEF Wanted, Chosen, InWindow, AskedFor
  <1> QED BY <1>1, <1>2

\* The conditions are judged as HTTP has them.
LEMMA ConditionsAre ==
  ASSUME NEW q, RequestAssumption(q), NEW o, OptionsAssumption(o), NEW v \in Revision
  PROVE  /\ DeniedFor(q, o, v) <=> Fails(q, o, v)
         /\ Current(q, o, v) <=> ~DeniedFor(q, o, v) /\ HeldBy(q, o, v) /\ ~q.noCache
                                 /\ q.method # "POST"
  <1>1. Second(v) \in Nat /\ Unset \notin Nat
    BY RevisionFacts, SendFileAssumption
  <1>2. DateOf(o, v) = (IF o.lastModified THEN Second(v) ELSE Unset)
        /\ o.lastModified \in BOOLEAN
    BY DEF DateOf, OptionsAssumption
  <1>3. /\ q.method \in {"GET", "HEAD", "POST"}
        /\ q.ifUnmodified \in Nat \cup {Unset} /\ q.ifModified \in Nat \cup {Unset}
    BY DEF RequestAssumption
  <1>4. DeniedFor(q, o, v) <=> Fails(q, o, v)
    <2>1. CASE q.ifMatch # Unset
      BY <2>1 DEF DeniedFor, Fails, PreconditionFailure
    <2>2. CASE q.ifMatch = Unset
      BY <1>1, <1>2, <1>3, <2>2 DEF DeniedFor, Fails, PreconditionFailure
    <2> QED BY <2>1, <2>2
  <1>5. Fresh(q, TagOf(o, v), DateOf(o, v))
        <=> HeldBy(q, o, v) /\ ~q.noCache /\ q.method # "POST"
    <2>1. CASE q.ifNoneMatch # Unset
      BY <1>3, <2>1 DEF HeldBy, Fresh
    <2>2. CASE q.ifNoneMatch = Unset
      BY <1>1, <1>2, <1>3, <2>2 DEF HeldBy, Fresh
    <2> QED BY <2>1, <2>2
  <1> QED BY <1>4, <1>5 DEF Current

LEMMA ConditionsFirstIs ==
    /\ ConditionsFirst <=>
         (stat # 0 =>
            /\ DeniedFor(req, opt, stat) <=> heard # <<>> /\ heard[1][2] = "412"
            /\ res.status = 304 <=> ~DeniedFor(req, opt, stat) /\ HeldBy(req, opt, stat)
                                    /\ ~req.noCache /\ req.method # "POST"
            /\ DeniedFor(req, opt, stat) => body = NoBody)
    /\ ConditionsFirst' <=>
         (stat' # 0 =>
            /\ DeniedFor(req', opt', stat') <=> heard' # <<>> /\ heard'[1][2] = "412"
            /\ res'.status = 304 <=> ~DeniedFor(req', opt', stat') /\ HeldBy(req', opt', stat')
                                    /\ ~req'.noCache /\ req'.method # "POST"
            /\ DeniedFor(req', opt', stat') => body' = NoBody')
  <1>1. /\ Denied(stat) <=> DeniedFor(req, opt, stat)
        /\ Denied(stat)' <=> DeniedFor(req', opt', stat')
    BY DEF Denied, DeniedFor
  <1>2. /\ Holds(stat) <=> HeldBy(req, opt, stat)
        /\ Holds(stat)' <=> HeldBy(req', opt', stat')
    BY DEF Holds, HeldBy
  <1> QED BY <1>1, <1>2 DEF ConditionsFirst

\* The bytes planned are the ones wanted, and the part told is theirs.
LEMMA PlanIsWanted ==
  ASSUME NEW q, RequestAssumption(q), NEW o, OptionsAssumption(o), NEW v, GoesOn(q, o, v),
         NEW r, Labelled(q, o, v, r)
  PROVE  LET p == PlanOf(q, o, v)
         IN  /\ p \in [from : Nat, len : Nat] /\ v \in Nat \ {0} /\ FileSize(v) \in Nat
             /\ p.len > 0 => p.from + p.len <= FileSize(v)
             /\ p.len = 0 => p.from >= FileSize(v)
             /\ Chosen(q, o, v, r.status) = p.from .. (p.from + p.len - 1)
             /\ r.status = 206 => /\ r.part.to - r.part.from + 1 = p.len
                                  /\ r.part.from = p.from - o.start
             /\ r.status \in {200, 206}
  <1> DEFINE p == PlanOf(q, o, v)
             w == Window(o, v)
  <1>1. v \in Revision /\ p.len # -1
    BY DEF GoesOn
  <1>2. v \in Nat \ {0} /\ FileSize(v) \in Nat
    BY <1>1, RevisionFacts
  <1>3. /\ PartOf(q, o, v) => /\ p.len \in Nat \ {0}
                              /\ Chosen(q, o, v, 206) = p.from .. (p.from + p.len - 1)
        /\ p \in [from : Nat, len : Nat]
        /\ p.len > 0 => p.from + p.len <= FileSize(v)
        /\ p.len = 0 => p.from >= FileSize(v)
        /\ ~PartOf(q, o, v) => Chosen(q, o, v, 200) = p.from .. (p.from + p.len - 1)
        /\ w.from = o.start
    BY <1>1, PlanIs DEF PlanOf, PartOf, Chosen
  <1>4. o.start \in Nat
    BY DEF OptionsAssumption
  <1> HIDE DEF p, w
  <1>5. CASE PartOf(q, o, v)
    <2>1. r.status = 206 /\ r.part = Part(w, p)
      BY <1>5 DEF Labelled, p, w
    <2>2. r.part.from = p.from - w.from /\ r.part.to = p.from - w.from + p.len - 1
      BY <2>1 DEF Part
    <2>3. p.from \in Nat /\ p.len \in Nat /\ w.from \in Nat
      BY <1>3, <1>4
    <2>4. r.part.to - r.part.from + 1 = p.len
      BY <2>2, <2>3
    <2> QED BY <1>2, <1>3, <1>5, <2>1, <2>2, <2>4 DEF p, w
  <1>6. CASE ~PartOf(q, o, v)
    <2>1. r.status = 200
      BY <1>6 DEF Labelled
    <2> QED BY <1>2, <1>3, <1>6, <2>1 DEF p
  <1> QED BY <1>5, <1>6

\* What holds of the answer of sendFile at every step.
SentShape(r) ==
    /\ r = [status |-> r.status, tag |-> r.tag, date |-> r.date, ranges |-> r.ranges,
            part |-> r.part, length |-> r.length, headOut |-> r.headOut, ended |-> r.ended]
    /\ r.headOut \in BOOLEAN /\ r.ended \in BOOLEAN

SendTypes ==
    /\ RequestAssumption(req) /\ OptionsAssumption(opt)
    /\ disk \in Revision \cup {0} /\ stat \in Revision \cup {0}
    /\ stage \in {"called", "reading", "opening", "piping", "over"}
    /\ SentShape(res) /\ body \in [of : Nat, from : Nat, count : Nat]

BeforeCall == stage = "called" => /\ stat = 0 /\ res = Unsent /\ body = NoBody
                                  /\ source = NoSource /\ heard = <<>>

Underway ==
    stage \in {"reading", "opening", "piping"} =>
        /\ GoesOn(req, opt, stat) /\ Labelled(req, opt, stat, res)
        /\ ~res.ended /\ heard = <<>>

ToRead == stage = "reading" => /\ ~Partial(stat, PlanOf(req, opt, stat))
                               /\ res.length = Unset /\ ~res.headOut /\ body = NoBody

ToOpen ==
    stage = "opening" =>
        /\ res.length = PlanOf(req, opt, stat).len /\ ~res.headOut /\ body = NoBody
        /\ source = [of |-> 0, at |-> PlanOf(req, opt, stat).from,
                     end |-> EndOf(stat, PlanOf(req, opt, stat))]

Piped ==
    stage = "piping" =>
        /\ body.of \in Revision /\ body.from = PlanOf(req, opt, stat).from
        /\ source = [of |-> body.of, at |-> body.from + body.count,
                     end |-> EndOf(stat, PlanOf(req, opt, stat))]
        /\ res.length = PlanOf(req, opt, stat).len

SendInv == /\ SendTypes /\ BeforeCall /\ Underway /\ ToRead /\ ToOpen /\ Piped
           /\ BytesAsTold /\ ConditionsFirst

LEMMA SendInitInv == ASSUME SendInit PROVE SendInv
  <1>1. SendTypes
    <2>1. PICK c \in Calls : req = c.req /\ opt = c.opt
      BY DEF SendInit
    <2>2. RequestAssumption(req) /\ OptionsAssumption(opt)
      BY <2>1, SendFileAssumption
    <2> QED BY <2>2 DEF SendInit, SendTypes, SentShape, Unsent, NoBody
  <1>2. BeforeCall /\ Underway /\ ToRead /\ ToOpen /\ Piped
    BY DEF SendInit, BeforeCall, Underway, ToRead, ToOpen, Piped
  <1>3. BytesAsTold
    BY DEF SendInit, BytesAsTold, ToldIsSent, HeardOnce, Unsent
  <1>4. ConditionsFirst
    BY DEF SendInit, ConditionsFirst
  <1> QED BY <1>1, <1>2, <1>3, <1>4 DEF SendInv

\* What is heard of an error by one who heard nothing before.
LEMMA HeardOf ==
  ASSUME heard = <<>>, OptionsAssumption(opt), NEW error
  PROVE  /\ Len(Done(error)) <= 1 /\ Len(Called(error)) <= 1
         /\ Done(error) # <<>> => Done(error)[1][2] \in {error, ""}
         /\ error \notin {"", "EISDIR", "ECONNABORTED"} => Done(error) # <<>>
                                                           /\ Done(error)[1][2] = error
         /\ Called(error) # <<>> => /\ Called(error)[1][1] = "callback"
                                    /\ Called(error)[1][2] = error
  <1>1. \A x : Append(<<>>, x) = <<x>>
    OBVIOUS
  <1>2. Called(error) \in {<<>>, <<<<"callback", error>>>>}
    BY <1>1 DEF Called
  <1>3. Done(error) \in {<<>>, <<<<"callback", error>>>>, <<<<"next", error>>>>,
                          <<<<"next", "">>>>}
    BY <1>1, Zenon DEF Done
  <1>4. error \notin {"", "EISDIR", "ECONNABORTED"}
        => Done(error) \in {<<<<"callback", error>>>>, <<<<"next", error>>>>}
    <2>1. opt.callback \in BOOLEAN
      BY DEF OptionsAssumption
    <2> QED BY <1>1, <2>1, Zenon DEF Done
  <1>5. \A h, whom, what : h = <<<<whom, what>>>> =>
           Len(h) = 1 /\ h # <<>> /\ h[1][1] = whom /\ h[1][2] = what
    <2> TAKE h, whom, what
    <2>1. ASSUME h = <<<<whom, what>>>>
          PROVE  Len(h) = 1 /\ h # <<>> /\ h[1][1] = whom /\ h[1][2] = what
      <3>1. PICK x : x = <<whom, what>>
        OBVIOUS
      <3>2. h = <<x>> /\ x[1] = whom /\ x[2] = what
        BY <2>1, <3>1
      <3>3. Len(h) = 1 /\ h # <<>> /\ h[1] = x
        BY <3>2
      <3> QED BY <3>2, <3>3
    <2> QED BY <2>1
  <1>6. Len(<<>>) = 0
    OBVIOUS
  <1>7. PICK c, d : c = Called(error) /\ d = Done(error)
    OBVIOUS
  <1>8. Len(c) <= 1 /\ (c # <<>> => c[1][1] = "callback" /\ c[1][2] = error)
    BY <1>2, <1>5, <1>6, <1>7
  <1>9. Len(d) <= 1 /\ (d # <<>> => d[1][2] \in {error, ""})
    <2>1. CASE d = <<>>
      BY <1>6, <2>1
    <2>2. CASE d = <<<<"callback", error>>>>
      BY <1>5, <2>2
    <2>3. CASE d = <<<<"next", error>>>>
      BY <1>5, <2>3
    <2>4. CASE d = <<<<"next", "">>>>
      <3>1. PICK whom, what : whom = "next" /\ what = ""
        OBVIOUS
      <3>2. Len(d) = 1 /\ d[1][2] = what
        BY <1>5, <2>4, <3>1
      <3>3. Len(d) <= 1
        BY <3>2
      <3>4. d[1][2] \in {error, ""}
        BY <3>1, <3>2, Zenon
      <3> QED BY <3>3, <3>4
    <2> QED BY <1>3, <1>7, <2>1, <2>2, <2>3, <2>4
  <1>10. error \notin {"", "EISDIR", "ECONNABORTED"} => d # <<>> /\ d[1][2] = error
    BY <1>4, <1>5, <1>7
  <1> QED BY <1>7, <1>8, <1>9, <1>10

\* An answer that goes on keeps its conditions as they were judged.
LEMMA GoesConditions ==
  ASSUME SendInv, GoesOn(req, opt, stat),
         req' = req, opt' = opt, stat' = stat, res'.status = res.status,
         Labelled(req, opt, stat, res), heard' = <<>> \/ heard'[1][2] # "412"
  PROVE  ConditionsFirst'
  <1>1. RequestAssumption(req) /\ OptionsAssumption(opt) /\ stat \in Revision
    BY DEF SendInv, SendTypes, GoesOn
  <1>2. ~DeniedFor(req, opt, stat)
        /\ ~(HeldBy(req, opt, stat) /\ ~req.noCache /\ req.method # "POST")
    BY <1>1, ConditionsAre DEF GoesOn
  <1>3. res.status \in {200, 206}
    BY <1>1, PlanIsWanted
  <1> QED BY <1>2, <1>3, ConditionsFirstIs

LEMMA ReplaceKeeps == ASSUME SendInv, Replace PROVE SendInv'
  <1>1. disk' \in Revision \cup {0}
    BY DEF Replace, SendInv, SendTypes, Revision
  <1>2. UNCHANGED <<req, opt, stage, stat, res, body, source, gone, heard>>
    BY DEF Replace
  <1>3. SendTypes'
    BY <1>1, <1>2 DEF SendInv, SendTypes
  <1>4. BeforeCall' /\ Underway' /\ ToRead' /\ ToOpen' /\ Piped'
    BY <1>2 DEF SendInv, BeforeCall, Underway, ToRead, ToOpen, Piped
  <1>5. ConditionsFirst'
    BY <1>2, ConditionsFirstIs DEF SendInv
  <1>6. BytesAsTold'
    BY <1>2, WantedIsChosen DEF SendInv, BytesAsTold, ToldIsSent, HeardOnce
  <1> QED BY <1>3, <1>4, <1>5, <1>6 DEF SendInv

LEMMA AbortKeeps == ASSUME SendInv, Abort PROVE SendInv'
  <1>1. UNCHANGED <<req, opt, disk, stat, res, body, heard>>
    BY DEF Abort
  <1>2. \/ stage = "reading" /\ stage' = stage /\ source' = source
        \/ stage' = "over"
    BY DEF Abort
  <1>3. SendTypes'
    BY <1>1, <1>2 DEF SendInv, SendTypes
  <1>4. BeforeCall' /\ Underway' /\ ToRead' /\ ToOpen' /\ Piped'
    BY <1>1, <1>2 DEF SendInv, BeforeCall, Underway, ToRead, ToOpen, Piped
  <1>5. ConditionsFirst'
    BY <1>1, ConditionsFirstIs DEF SendInv
  <1>6. BytesAsTold'
    BY <1>1, WantedIsChosen DEF SendInv, BytesAsTold, ToldIsSent, HeardOnce
  <1> QED BY <1>3, <1>4, <1>5, <1>6 DEF SendInv

LEMMA ReadSmallKeeps == ASSUME SendInv, ReadSmall PROVE SendInv'
  <1> DEFINE p == PlanOf(req, opt, stat)
  <1>1. UNCHANGED <<req, opt, disk, stat, source, gone>> /\ stage' = "over" /\ stage = "reading"
    BY DEF ReadSmall
  <1>2. /\ GoesOn(req, opt, stat) /\ Labelled(req, opt, stat, res) /\ ~res.ended
        /\ heard = <<>> /\ ~Partial(stat, p) /\ res.length = Unset /\ body = NoBody
        /\ SentShape(res) /\ RequestAssumption(req) /\ OptionsAssumption(opt)
        /\ disk \in Revision \cup {0}
    BY <1>1 DEF SendInv, SendTypes, Underway, ToRead
  <1>3. /\ p \in [from : Nat, len : Nat] /\ stat \in Nat \ {0} /\ FileSize(stat) \in Nat
        /\ p.len > 0 => p.from + p.len <= FileSize(stat)
        /\ Chosen(req, opt, stat, res.status) = p.from .. (p.from + p.len - 1)
        /\ res.status = 206 => /\ res.part.to - res.part.from + 1 = p.len
                               /\ res.part.from = p.from - opt.start
    BY <1>2, PlanIsWanted
  <1> HIDE DEF p
  <1>4. p.from = 0 /\ p.len = FileSize(stat)
    BY <1>2, <1>3 DEF Partial
  <1>5. CASE disk = 0 \/ gone
    <2>1. res' = res /\ body' = body
          /\ (heard' = Called("ECONNABORTED") \/ heard' = Done("404"))
      BY <1>5 DEF ReadSmall
    <2>2. Len(heard') <= 1 /\ (heard' # <<>> => heard'[1][2] # "412")
      BY <1>2, <2>1, HeardOf
    <2>3. ConditionsFirst'
      BY <1>1, <1>2, <2>1, <2>2, GoesConditions
    <2>4. BytesAsTold'
      BY <1>1, <1>2, <2>1, <2>2 DEF BytesAsTold, ToldIsSent, HeardOnce, SendInv, ToRead
    <2>5. SendTypes'
      BY <1>1, <2>1 DEF SendInv, SendTypes
    <2> QED BY <1>1, <2>3, <2>4, <2>5
            DEF SendInv, BeforeCall, Underway, ToRead, ToOpen, Piped
  <1>6. CASE disk # 0 /\ ~gone
    <2>1. /\ body' = [of |-> disk, from |-> 0, count |-> FileSize(disk)]
          /\ res' = [res EXCEPT !.length = FileSize(disk), !.headOut = TRUE, !.ended = TRUE]
          /\ heard' = Called("")
      BY <1>6 DEF ReadSmall
    <2>2. Len(heard') <= 1
          /\ (heard' # <<>> => heard'[1][1] = "callback" /\ heard'[1][2] = "")
      BY <1>2, <2>1, HeardOf
    <2>3. /\ res'.status = res.status /\ res'.part = res.part /\ SentShape(res')
          /\ res'.length = FileSize(disk) /\ res'.headOut /\ res'.ended
      BY <1>2, <2>1 DEF SentShape
    <2>4. disk \in Nat /\ FileSize(disk) \in Nat
      BY <1>2, <1>6, RevisionFacts
    <2>5. ConditionsFirst'
      BY <1>1, <1>2, <2>2, <2>3, GoesConditions
    <2>6. ToldIsSent'
      <3>1. Wanted' = p.from .. (p.from + p.len - 1)
        BY <1>1, <1>3, <2>3, WantedIsChosen
      <3>2. body'.of = disk /\ body'.from = 0 /\ body'.count = FileSize(disk)
        BY <2>1
      <3>3. disk = stat => /\ body'.from .. (body'.from + body'.count - 1) = Wanted'
                           /\ res'.status = 206 =>
                                 /\ res'.part.to - res'.part.from + 1 = res'.length
                                 /\ res'.part.from = body'.from - opt.start
        BY <1>3, <1>4, <2>3, <3>1, <3>2
      <3> QED BY <1>1, <2>3, <2>4, <3>2, <3>3 DEF ToldIsSent
    <2>7. HeardOnce'
      BY <2>2, <2>3 DEF HeardOnce
    <2>8. SendTypes'
      BY <1>1, <2>1, <2>3, <2>4 DEF SendInv, SendTypes
    <2> QED BY <1>1, <2>5, <2>6, <2>7, <2>8
            DEF SendInv, BeforeCall, Underway, ToRead, ToOpen, Piped, BytesAsTold
  <1> QED BY <1>5, <1>6

\* What the steps of an answer under way need of it.
LEMMA UnderwayFacts ==
  ASSUME SendInv, stage \in {"reading", "opening", "piping"}
  PROVE  LET p == PlanOf(req, opt, stat)
         IN  /\ GoesOn(req, opt, stat) /\ Labelled(req, opt, stat, res) /\ ~res.ended
             /\ heard = <<>> /\ SentShape(res)
             /\ RequestAssumption(req) /\ OptionsAssumption(opt)
             /\ disk \in Revision \cup {0}
             /\ p \in [from : Nat, len : Nat] /\ stat \in Nat \ {0} /\ FileSize(stat) \in Nat
             /\ p.len > 0 => p.from + p.len <= FileSize(stat)
             /\ p.len = 0 => p.from >= FileSize(stat)
             /\ Chosen(req, opt, stat, res.status) = p.from .. (p.from + p.len - 1)
             /\ res.status = 206 => /\ res.part.to - res.part.from + 1 = p.len
                                    /\ res.part.from = p.from - opt.start
  <1>1. /\ GoesOn(req, opt, stat) /\ Labelled(req, opt, stat, res) /\ ~res.ended
        /\ heard = <<>> /\ SentShape(res) /\ RequestAssumption(req) /\ OptionsAssumption(opt)
        /\ disk \in Revision \cup {0}
    BY DEF SendInv, SendTypes, Underway
  <1>2. /\ PlanOf(req, opt, stat) \in [from : Nat, len : Nat] /\ stat \in Nat \ {0}
        /\ FileSize(stat) \in Nat
        /\ PlanOf(req, opt, stat).len > 0 =>
              PlanOf(req, opt, stat).from + PlanOf(req, opt, stat).len <= FileSize(stat)
        /\ PlanOf(req, opt, stat).len = 0 => PlanOf(req, opt, stat).from >= FileSize(stat)
        /\ Chosen(req, opt, stat, res.status)
           = PlanOf(req, opt, stat).from
             .. (PlanOf(req, opt, stat).from + PlanOf(req, opt, stat).len - 1)
        /\ res.status = 206 =>
              /\ res.part.to - res.part.from + 1 = PlanOf(req, opt, stat).len
              /\ res.part.from = PlanOf(req, opt, stat).from - opt.start
    BY <1>1, PlanIsWanted
  <1> QED BY <1>1, <1>2

LEMMA OpenKeeps == ASSUME SendInv, Open PROVE SendInv'
  <1> DEFINE p == PlanOf(req, opt, stat)
  <1>1. stage = "opening" /\ UNCHANGED <<req, opt, disk, stat, res, gone>>
    BY DEF Open
  <1>2. /\ GoesOn(req, opt, stat) /\ Labelled(req, opt, stat, res) /\ ~res.ended
        /\ heard = <<>> /\ OptionsAssumption(opt)
        /\ disk \in Revision \cup {0} /\ p \in [from : Nat, len : Nat]
    BY <1>1, UnderwayFacts
  <1>3. /\ res.length = p.len /\ ~res.headOut /\ body = NoBody
        /\ source = [of |-> 0, at |-> p.from, end |-> EndOf(stat, p)]
    BY <1>1 DEF SendInv, ToOpen
  <1> HIDE DEF p
  <1>4. CASE disk = 0
    <2>1. stage' = "over" /\ heard' = Done("404") /\ body' = body
      BY <1>4 DEF Open
    <2>2. Len(heard') <= 1 /\ (heard' # <<>> => heard'[1][2] # "412")
      BY <1>2, <2>1, HeardOf
    <2>3. ConditionsFirst'
      BY <1>1, <1>2, <2>2, GoesConditions
    <2>4. ToldIsSent'
      BY <1>1, <1>2, <2>1 DEF ToldIsSent, SendInv, BytesAsTold
    <2>5. HeardOnce'
      BY <1>1, <1>2, <1>3, <2>2 DEF HeardOnce
    <2>6. SendTypes'
      BY <1>1, <2>1 DEF SendInv, SendTypes
    <2> QED BY <2>1, <2>3, <2>4, <2>5, <2>6
            DEF SendInv, BeforeCall, Underway, ToRead, ToOpen, Piped, BytesAsTold
  <1>5. CASE disk # 0
    <2>1. /\ stage' = "piping" /\ source' = [source EXCEPT !.of = disk]
          /\ body' = [NoBody EXCEPT !.of = disk, !.from = source.at] /\ heard' = heard
      BY <1>5 DEF Open
    <2>2. body' = [of |-> disk, from |-> p.from, count |-> 0]
      BY <1>3, <2>1 DEF NoBody
    <2>3. source' = [of |-> disk, at |-> p.from + 0, end |-> EndOf(stat, p)]
      BY <1>2, <1>3, <2>1
    <2>4. disk \in Revision /\ disk \in Nat
      BY <1>2, <1>5, RevisionFacts
    <2>5. ConditionsFirst'
      BY <1>1, <1>2, <2>1, GoesConditions
    <2>6. ToldIsSent'
      BY <1>1, <1>2, <1>3, <2>2 DEF ToldIsSent
    <2>7. HeardOnce'
      BY <1>1, <1>2, <2>1 DEF HeardOnce
    <2>8. SendTypes'
      BY <1>1, <1>2, <2>1, <2>2, <2>4 DEF SendInv, SendTypes
    <2>9. Piped'
      BY <1>1, <1>3, <2>2, <2>3, <2>4 DEF Piped, p
    <2>10. Underway'
      BY <1>1, <1>2, <2>1 DEF Underway
    <2> QED BY <2>1, <2>5, <2>6, <2>7, <2>8, <2>9, <2>10
            DEF SendInv, BeforeCall, ToRead, ToOpen, BytesAsTold
  <1> QED BY <1>4, <1>5

\* Of a file that was not replaced, the stream reads no further than what is told.
LEMMA SourceIsPlanned ==
  ASSUME SendInv, stage = "piping"
  PROVE  LET p == PlanOf(req, opt, stat)
         IN  /\ body.of \in Revision /\ body.from = p.from /\ source.of = body.of
             /\ source.at = body.from + body.count /\ res.length = p.len
             /\ body.count \in Nat /\ SourceEnd \in Int
             /\ source = [of |-> source.of, at |-> source.at, end |-> source.end]
             /\ source.end = EndOf(stat, p)
             /\ body.of = stat /\ source.at <= SourceEnd => SourceEnd + 1 <= p.from + p.len
  <1> DEFINE p == PlanOf(req, opt, stat)
  <1>1. /\ body.of \in Revision /\ body.from = p.from /\ res.length = p.len
        /\ source = [of |-> body.of, at |-> body.from + body.count, end |-> EndOf(stat, p)]
        /\ body.count \in Nat
    BY DEF SendInv, Piped, SendTypes
  <1>2. /\ p \in [from : Nat, len : Nat] /\ FileSize(stat) \in Nat
        /\ p.len > 0 => p.from + p.len <= FileSize(stat)
        /\ p.len = 0 => p.from >= FileSize(stat)
    BY UnderwayFacts
  <1>3. FileSize(body.of) \in Nat /\ Unset \notin Nat
    BY <1>1, RevisionFacts, SendFileAssumption
  <1> HIDE DEF p
  <1>4. EndOf(stat, p) = IF Partial(stat, p)
                         THEN IF p.from >= p.from + p.len - 1 THEN p.from
                              ELSE p.from + p.len - 1
                         ELSE Unset
    <2>1. p.from \in Int /\ p.from + p.len - 1 \in Int
      BY <1>2
    <2>2. PICK a, b \in Int : a = p.from /\ b = p.from + p.len - 1
      BY <2>1
    <2>3. Max({a, b}) = IF a >= b THEN a ELSE b
      BY MaxOfTwo
    <2> QED BY <2>2, <2>3 DEF EndOf
  <1>5. source.of = body.of /\ source.at = body.from + body.count
        /\ source.end = EndOf(stat, p)
    BY <1>1
  <1>6. EndOf(stat, p) \in Nat \cup {Unset}
    BY <1>2, <1>4
  <1>7. SourceEnd = IF source.end = Unset THEN FileSize(body.of) - 1
                    ELSE IF FileSize(body.of) - 1 <= source.end THEN FileSize(body.of) - 1
                         ELSE source.end
    <2>1. CASE source.end = Unset
      BY <1>5, <2>1 DEF SourceEnd
    <2>2. CASE source.end # Unset
      <3>1. PICK a, b \in Int : a = FileSize(body.of) - 1 /\ b = source.end
        BY <1>3, <1>5, <1>6, <2>2
      <3>2. Min({a, b}) = IF a <= b THEN a ELSE b
        BY MinOfTwo
      <3> QED BY <1>5, <2>2, <3>1, <3>2 DEF SourceEnd
    <2> QED BY <2>1, <2>2
  <1>8. SourceEnd \in Int
    BY <1>3, <1>5, <1>6, <1>7
  <1>9. ASSUME body.of = stat, source.at <= SourceEnd
        PROVE  SourceEnd + 1 <= p.from + p.len
    <2>1. p.from \in Nat /\ p.len \in Nat
      BY <1>2
    <2>2. p.len # 0
      BY <1>1, <1>2, <1>3, <1>5, <1>6, <1>7, <1>9, <2>1
    <2>3. CASE Partial(stat, p)
      <3>1. source.end = p.from + p.len - 1 /\ source.end # Unset
        BY <1>3, <1>4, <1>5, <2>1, <2>2, <2>3
      <3> QED BY <1>3, <1>7, <2>1, <3>1
    <2>4. CASE ~Partial(stat, p)
      <3>1. p.from = 0 /\ p.len >= FileSize(stat)
        BY <1>2, <2>1, <2>4 DEF Partial
      <3>2. SourceEnd = FileSize(stat) - 1
        BY <1>4, <1>5, <1>7, <1>9, <2>4
      <3> QED BY <1>2, <2>1, <3>1, <3>2
    <2> QED BY <2>3, <2>4
  <1> QED BY <1>1, <1>5, <1>8, <1>9 DEF p

LEMMA PieceArrivesKeeps == ASSUME SendInv, PieceArrives PROVE SendInv'
  <1> DEFINE p == PlanOf(req, opt, stat)
             n == PieceLength
  <1>1. /\ stage = "piping" /\ source.at <= SourceEnd
        /\ UNCHANGED <<req, opt, disk, stat, gone>>
        /\ body' = [body EXCEPT !.count = @ + n]
    BY DEF PieceArrives
  <1>2. /\ GoesOn(req, opt, stat) /\ Labelled(req, opt, stat, res) /\ ~res.ended
        /\ heard = <<>> /\ SentShape(res) /\ OptionsAssumption(opt)
        /\ p \in [from : Nat, len : Nat]
        /\ Chosen(req, opt, stat, res.status) = p.from .. (p.from + p.len - 1)
        /\ res.status = 206 => /\ res.part.to - res.part.from + 1 = p.len
                               /\ res.part.from = p.from - opt.start
    BY <1>1, UnderwayFacts
  <1>3. /\ body.of \in Revision /\ body.from = p.from /\ source.of = body.of
        /\ source.at = body.from + body.count /\ res.length = p.len
        /\ body.count \in Nat /\ SourceEnd \in Int
        /\ source = [of |-> source.of, at |-> source.at, end |-> source.end]
        /\ source.end = EndOf(stat, p)
        /\ body.of = stat => SourceEnd + 1 <= p.from + p.len
    BY <1>1, SourceIsPlanned
  <1>4. body \in [of : Nat, from : Nat, count : Nat]
    BY DEF SendInv, SendTypes
  <1> HIDE DEF p
  <1>5. n \in Nat /\ n <= SourceEnd - source.at + 1
    <2>0. source.at \in Int
      BY <1>3, <1>4
    <2>1. PICK a, b \in Int : a = PieceSize /\ b = SourceEnd - source.at + 1
      BY <1>3, <2>0, SendFileAssumption
    <2>2. Min({a, b}) = IF a <= b THEN a ELSE b
      BY MinOfTwo
    <2>3. PieceSize \in Nat
      BY SendFileAssumption
    <2> QED BY <1>1, <1>3, <2>0, <2>1, <2>2, <2>3 DEF PieceLength
  <1> HIDE DEF n
  <1>6. body' = [of |-> body.of, from |-> p.from, count |-> body.count + n]
    BY <1>1, <1>3, <1>4
  <1>7. body'.of = body.of /\ body'.from = p.from /\ body'.count = body.count + n
        /\ body'.count \in Nat /\ body' \in [of : Nat, from : Nat, count : Nat]
    BY <1>2, <1>3, <1>4, <1>5, <1>6
  <1>8. body.of = stat => body'.count <= p.len
    <2>1. p.from \in Nat /\ p.len \in Nat
      BY <1>2
    <2> QED BY <1>3, <1>5, <1>7, <2>1
  <1>9. CASE body.count + n = res.length
    <2>1. /\ res' = [res EXCEPT !.headOut = TRUE, !.ended = TRUE] /\ stage' = "over"
          /\ heard' \in {heard, Called("")}
      BY <1>9 DEF PieceArrives, n
    <2>2. Len(heard') <= 1
          /\ (heard' # <<>> => heard'[1][1] = "callback" /\ heard'[1][2] = "")
      <3>1. CASE heard' = heard
        BY <1>2, <3>1
      <3>2. CASE heard' = Called("")
        BY <1>2, <3>2, HeardOf
      <3> QED BY <2>1, <3>1, <3>2
    <2>3. /\ res'.status = res.status /\ res'.part = res.part /\ SentShape(res')
          /\ res'.length = res.length
      BY <1>2, <2>1 DEF SentShape
    <2>4. ConditionsFirst'
      BY <1>1, <1>2, <2>2, <2>3, GoesConditions
    <2>5. ToldIsSent'
      <3>1. Wanted' = p.from .. (p.from + p.len - 1)
        BY <1>1, <1>2, <2>3, WantedIsChosen
      <3>2. body'.count = p.len
        BY <1>3, <1>7, <1>9
      <3>3. body'.from .. (body'.from + body'.count - 1) = Wanted'
        BY <1>7, <3>1, <3>2
      <3> QED BY <1>1, <1>2, <1>3, <1>7, <2>3, <3>2, <3>3 DEF ToldIsSent
    <2>6. HeardOnce'
      BY <2>2 DEF HeardOnce
    <2>7. SendTypes'
      BY <1>1, <1>7, <2>1, <2>3 DEF SendInv, SendTypes
    <2> QED BY <2>1, <2>4, <2>5, <2>6, <2>7
            DEF SendInv, BeforeCall, Underway, ToRead, ToOpen, Piped, BytesAsTold
  <1>10. CASE body.count + n # res.length
    <2>1. /\ res' = [res EXCEPT !.headOut = TRUE]
          /\ source' = [source EXCEPT !.at = @ + n]
          /\ stage' = stage /\ heard' = heard
      BY <1>10 DEF PieceArrives, n
    <2>2. /\ res'.status = res.status /\ res'.part = res.part /\ SentShape(res')
          /\ res'.length = res.length /\ ~res'.ended
      BY <1>2, <2>1 DEF SentShape
    <2>3. ConditionsFirst'
      BY <1>1, <1>2, <2>1, <2>2, GoesConditions
    <2>4. ToldIsSent'
      BY <1>1, <1>3, <1>7, <1>8, <2>2 DEF ToldIsSent
    <2>5. HeardOnce'
      BY <1>1, <1>2, <2>1 DEF HeardOnce
    <2>6. SendTypes'
      BY <1>1, <1>7, <2>1, <2>2 DEF SendInv, SendTypes
    <2>7. Underway'
      BY <1>1, <1>2, <2>1, <2>2 DEF Underway, Labelled
    <2>8. Piped'
      <3>1. source' = [of |-> body.of, at |-> p.from + (body.count + n),
                       end |-> EndOf(stat, p)]
        <4>1. source' = [of |-> source.of, at |-> source.at + n, end |-> source.end]
          BY <1>3, <2>1
        <4>2. source.at + n = p.from + (body.count + n)
          <5>1. p.from \in Nat
            BY <1>2
          <5> QED BY <1>3, <1>5, <5>1
        <4> QED BY <1>3, <4>1, <4>2
      <3> QED BY <1>1, <1>3, <1>7, <2>2, <3>1 DEF Piped, p
    <2> QED BY <1>1, <2>1, <2>3, <2>4, <2>5, <2>6, <2>7, <2>8
            DEF SendInv, BeforeCall, ToRead, ToOpen, BytesAsTold
  <1> QED BY <1>9, <1>10

LEMMA ReadErrorKeeps == ASSUME SendInv, ReadError PROVE SendInv'
  <1>1. /\ stage = "piping" /\ stage' = "over"
        /\ UNCHANGED <<req, opt, disk, stat, res, body>>
    BY DEF ReadError
  <1>2. /\ GoesOn(req, opt, stat) /\ Labelled(req, opt, stat, res) /\ ~res.ended
        /\ heard = <<>> /\ SentShape(res) /\ OptionsAssumption(opt)
    BY <1>1, UnderwayFacts
  <1>3. res.headOut \in BOOLEAN
    BY <1>2 DEF SentShape
  <1>4. /\ Len(heard') <= 1 /\ (heard' # <<>> => heard'[1][2] # "412")
        /\ heard' # <<>> /\ heard'[1][1] = "next" => ~res.headOut
    <2>1. CASE res.headOut
      <3>1. heard' = Called("500")
        BY <2>1 DEF ReadError
      <3> QED BY <1>2, <3>1, HeardOf
    <2>2. CASE ~res.headOut
      <3>1. heard' = Done("500")
        BY <2>2 DEF ReadError
      <3> QED BY <1>2, <2>2, <3>1, HeardOf
    <2> QED BY <1>3, <2>1, <2>2
  <1>5. ConditionsFirst'
    BY <1>1, <1>2, <1>4, GoesConditions
  <1>6. ToldIsSent'
    BY <1>1, <1>2, WantedIsChosen DEF ToldIsSent, SendInv, BytesAsTold
  <1>7. HeardOnce'
    BY <1>1, <1>2, <1>4 DEF HeardOnce
  <1>8. SendTypes'
    BY <1>1 DEF SendInv, SendTypes
  <1> QED BY <1>1, <1>5, <1>6, <1>7, <1>8
          DEF SendInv, BeforeCall, Underway, ToRead, ToOpen, Piped, BytesAsTold

LEMMA SourceEndsKeeps == ASSUME SendInv, SourceEnds PROVE SendInv'
  <1> DEFINE p == PlanOf(req, opt, stat)
  <1>1. /\ stage = "piping" /\ stage' = "over" /\ heard' = Called("")
        /\ res' = [res EXCEPT !.headOut = TRUE, !.ended = @ \/ body.count = res.length]
        /\ UNCHANGED <<req, opt, disk, stat, body, gone>>
    BY DEF SourceEnds
  <1>2. /\ GoesOn(req, opt, stat) /\ Labelled(req, opt, stat, res) /\ ~res.ended
        /\ heard = <<>> /\ SentShape(res) /\ OptionsAssumption(opt)
        /\ p \in [from : Nat, len : Nat]
        /\ Chosen(req, opt, stat, res.status) = p.from .. (p.from + p.len - 1)
        /\ res.status = 206 => /\ res.part.to - res.part.from + 1 = p.len
                               /\ res.part.from = p.from - opt.start
    BY <1>1, UnderwayFacts
  <1>3. body.from = p.from /\ res.length = p.len
    BY <1>1, SourceIsPlanned
  <1> HIDE DEF p
  <1>4. Len(heard') <= 1
        /\ (heard' # <<>> => heard'[1][1] = "callback" /\ heard'[1][2] = "")
    BY <1>1, <1>2, HeardOf
  <1>5. /\ res'.status = res.status /\ res'.part = res.part /\ SentShape(res')
        /\ res'.length = res.length /\ (res'.ended => body.count = res.length)
    BY <1>1, <1>2 DEF SentShape
  <1>6. ConditionsFirst'
    BY <1>1, <1>2, <1>4, <1>5, GoesConditions
  <1>7. ToldIsSent'
    <2>1. Wanted' = p.from .. (p.from + p.len - 1)
      BY <1>1, <1>2, <1>5, WantedIsChosen
    <2>2. body.of = stat => res.length = Unset \/ body.count <= res.length
      BY DEF SendInv, BytesAsTold, ToldIsSent
    <2>3. body'.of = body.of /\ body'.from = p.from /\ body'.count = body.count
      BY <1>1, <1>3
    <2>4. res'.ended => body'.count = p.len
                        /\ body'.from .. (body'.from + body'.count - 1) = Wanted'
      BY <1>3, <1>5, <2>1, <2>3
    <2>5. opt' = opt /\ stat' = stat
      BY <1>1
    <2>6. CASE ~res'.ended
      BY <1>5, <2>2, <2>3, <2>5, <2>6 DEF ToldIsSent
    <2>7. CASE res'.ended
      <3>1. res'.length = p.len /\ body'.count = res'.length
        BY <1>3, <1>5, <2>4, <2>7
      <3>2. res'.status = 206 => /\ res'.part.to - res'.part.from + 1 = res'.length
                                 /\ res'.part.from = body'.from - opt'.start
        BY <1>2, <1>5, <2>3, <2>5, <3>1
      <3> QED BY <1>2, <2>4, <2>7, <3>1, <3>2 DEF ToldIsSent
    <2> QED BY <2>6, <2>7
  <1>8. HeardOnce'
    BY <1>4 DEF HeardOnce
  <1>9. SendTypes'
    BY <1>1, <1>5 DEF SendInv, SendTypes
  <1> QED BY <1>1, <1>6, <1>7, <1>8, <1>9
          DEF SendInv, BeforeCall, Underway, ToRead, ToOpen, Piped, BytesAsTold

\* The answers that end where they are judged, and those that go on to their bytes.
SendStops(v) ==
    /\ stage' = "over" /\ UNCHANGED <<body, source>>
    /\ SentShape(res') /\ res'.status \in {200, 206, 304}
    /\ \/ /\ Fails(req, opt, v) /\ heard' = Done("412")
          /\ res'.status = 200 /\ ~res'.ended /\ ~res'.headOut
       \/ /\ Current(req, opt, v) /\ heard' = Called("") /\ res'.status = 304
       \/ /\ ~Fails(req, opt, v) /\ ~Current(req, opt, v) /\ res'.status # 304
          /\ \/ heard' = Done("416") /\ ~res'.ended /\ ~res'.headOut
             \/ heard' = Called("") /\ req.method = "HEAD"

SendGoes(v) ==
    LET p == PlanOf(req, opt, v)
    IN  /\ GoesOn(req, opt, v) /\ Labelled(req, opt, v, res') /\ SentShape(res')
        /\ ~res'.ended /\ ~res'.headOut /\ UNCHANGED <<heard, body>>
        /\ \/ stage' = "reading" /\ ~Partial(v, p) /\ res'.length = Unset
           \/ /\ stage' = "opening" /\ res'.length = p.len
              /\ source' = [of |-> 0, at |-> p.from, end |-> EndOf(v, p)]

LEMMA SendCases ==
  ASSUME NEW v \in Revision, Send(v), res = Unsent
  PROVE  stat' = v /\ (SendStops(v) \/ SendGoes(v))
  <1> DEFINE tag == TagOf(opt, v)
             date == DateOf(opt, v)
             w == Window(opt, v)
             p == Ranged(req, opt, tag, date, w)
             told == [res EXCEPT !.tag = tag, !.date = date, !.ranges = opt.acceptRanges]
             parted == IF IsPart(req, opt, tag, date, w)
                       THEN [told EXCEPT !.status = 206, !.part = Part(w, p)] ELSE told
             failed == PreconditionFailure(req, tag, date)
             fresh == Fresh(req, tag, date)
  <1>0. p = PlanOf(req, opt, v) /\ (failed <=> Fails(req, opt, v))
        /\ (~failed /\ fresh <=> Current(req, opt, v))
        /\ (IsPart(req, opt, tag, date, w) <=> PartOf(req, opt, v))
    BY DEF PlanOf, Fails, Current, PartOf
  <1>1. stat' = v
    BY DEF Send
  <1>2. \/ /\ failed /\ res' = told /\ heard' = Done("412")
           /\ stage' = "over" /\ UNCHANGED <<body, source>>
        \/ /\ ~failed /\ fresh
           /\ res' = [told EXCEPT !.status = 304, !.headOut = TRUE, !.ended = TRUE]
           /\ heard' = Called("") /\ stage' = "over" /\ UNCHANGED <<body, source>>
        \/ /\ ~failed /\ ~fresh /\ p.len = -1
           /\ res' = [told EXCEPT !.part = [NoRange EXCEPT !.of = w.len]]
           /\ heard' = Done("416") /\ stage' = "over" /\ UNCHANGED <<body, source>>
        \/ /\ ~failed /\ ~fresh /\ p.len # -1
           /\ \/ /\ req.method = "HEAD"
                 /\ res' = [parted EXCEPT !.length = p.len, !.headOut = TRUE, !.ended = TRUE]
                 /\ heard' = Called("") /\ stage' = "over" /\ UNCHANGED <<body, source>>
              \/ /\ req.method # "HEAD" /\ UNCHANGED <<heard, body>>
                 /\ \/ stage' = "reading" /\ res' = parted /\ ~Partial(v, p)
                    \/ /\ stage' = "opening" /\ res' = [parted EXCEPT !.length = p.len]
                       /\ source' = [of |-> 0, at |-> p.from, end |-> EndOf(v, p)]
    <2>1. CASE failed
      BY <2>1, Zenon DEF Send
    <2>2. CASE ~failed /\ fresh
      BY <2>2, Zenon DEF Send
    <2>3. CASE ~failed /\ ~fresh /\ p.len = -1
      BY <2>3, Zenon DEF Send
    <2>4. CASE ~failed /\ ~fresh /\ p.len # -1 /\ req.method = "HEAD"
      BY <2>4, Zenon DEF Send
    <2>5. CASE ~failed /\ ~fresh /\ p.len # -1 /\ req.method # "HEAD"
      <3>1. CASE FileSize(v) < SmallSize /\ ~Partial(v, p)
        BY <2>5, <3>1, Zenon DEF Send
      <3>2. CASE ~(FileSize(v) < SmallSize /\ ~Partial(v, p))
        BY <2>5, <3>2, Zenon DEF Send, EndOf
      <3> QED BY <3>1, <3>2
    <2> HIDE DEF told, p, w, tag, date, failed, fresh, parted
    <2> QED BY <2>1, <2>2, <2>3, <2>4, <2>5
  <1>3. told = [status |-> 200, tag |-> tag, date |-> date, ranges |-> opt.acceptRanges,
                part |-> NoRange, length |-> Unset, headOut |-> FALSE, ended |-> FALSE]
    <2>1. PICK r : r = [res EXCEPT !.tag = tag]
      OBVIOUS
    <2>2. r = [Unsent EXCEPT !.tag = tag]
      BY <2>1
    <2>3. r = [status |-> 200, tag |-> tag, date |-> Unset, ranges |-> FALSE,
               part |-> NoRange, length |-> Unset, headOut |-> FALSE, ended |-> FALSE]
      BY <2>2 DEF Unsent
    <2>4. PICK u : u = [r EXCEPT !.date = date]
      OBVIOUS
    <2>5. u = [status |-> 200, tag |-> tag, date |-> date, ranges |-> FALSE,
               part |-> NoRange, length |-> Unset, headOut |-> FALSE, ended |-> FALSE]
      BY <2>3, <2>4
    <2>6. told = [u EXCEPT !.ranges = opt.acceptRanges]
      BY <2>1, <2>4
    <2> HIDE DEF told, tag, date
    <2> QED BY <2>5, <2>6
  <1> HIDE DEF told, p, w, tag, date, failed, fresh
  <1>4. parted = [status |-> IF PartOf(req, opt, v) THEN 206 ELSE 200, tag |-> tag,
                  date |-> date, ranges |-> opt.acceptRanges,
                  part |-> IF PartOf(req, opt, v) THEN Part(w, p) ELSE NoRange,
                  length |-> Unset, headOut |-> FALSE, ended |-> FALSE]
    <2>1. CASE PartOf(req, opt, v)
      <3>1. PICK r : r = [told EXCEPT !.status = 206]
        OBVIOUS
      <3>2. r = [status |-> 206, tag |-> tag, date |-> date, ranges |-> opt.acceptRanges,
                 part |-> NoRange, length |-> Unset, headOut |-> FALSE, ended |-> FALSE]
        BY <1>3, <3>1
      <3>3. parted = [r EXCEPT !.part = Part(w, p)]
        BY <1>0, <2>1, <3>1
      <3> HIDE DEF parted
      <3> QED BY <2>1, <3>2, <3>3
    <2>2. CASE ~PartOf(req, opt, v)
      <3>1. parted = told
        BY <1>0, <2>2
      <3> HIDE DEF parted
      <3> QED BY <1>3, <2>2, <3>1
    <2> QED BY <2>1, <2>2
  <1> HIDE DEF parted
  <1>5. CASE failed /\ res' = told /\ heard' = Done("412")
             /\ stage' = "over" /\ UNCHANGED <<body, source>>
    BY <1>0, <1>1, <1>3, <1>5 DEF SendStops, SentShape
  <1>6. CASE ~failed /\ fresh
             /\ res' = [told EXCEPT !.status = 304, !.headOut = TRUE, !.ended = TRUE]
             /\ heard' = Called("") /\ stage' = "over" /\ UNCHANGED <<body, source>>
    <2>1. PICK r : r = [told EXCEPT !.status = 304]
      OBVIOUS
    <2>2. SentShape(r) /\ r.status = 304
      BY <1>3, <2>1 DEF SentShape
    <2>3. res' = [r EXCEPT !.headOut = TRUE, !.ended = TRUE]
      BY <1>6, <2>1
    <2>4. SentShape(res') /\ res'.status = 304
      BY <2>2, <2>3 DEF SentShape
    <2> QED BY <1>0, <1>1, <1>6, <2>4 DEF SendStops
  <1>7. CASE ~failed /\ ~fresh /\ p.len = -1
             /\ res' = [told EXCEPT !.part = [NoRange EXCEPT !.of = w.len]]
             /\ heard' = Done("416") /\ stage' = "over" /\ UNCHANGED <<body, source>>
    <2>1. PICK x : x = [NoRange EXCEPT !.of = w.len]
      OBVIOUS
    <2>2. res' = [told EXCEPT !.part = x]
      BY <1>7, <2>1
    <2>3. SentShape(res') /\ res'.status = 200 /\ ~res'.ended /\ ~res'.headOut
      BY <1>3, <2>2 DEF SentShape
    <2>4. ~Fails(req, opt, v) /\ ~Current(req, opt, v)
      BY <1>0, <1>7
    <2>5. res'.status # 304
      BY <2>3
    <2> QED BY <1>1, <1>7, <2>3, <2>4, <2>5 DEF SendStops
  <1>8. CASE ~failed /\ ~fresh /\ req.method = "HEAD"
             /\ res' = [parted EXCEPT !.length = p.len, !.headOut = TRUE, !.ended = TRUE]
             /\ heard' = Called("") /\ stage' = "over" /\ UNCHANGED <<body, source>>
    <2>1. PICK r : r = [parted EXCEPT !.length = p.len]
      OBVIOUS
    <2>2. SentShape(r) /\ r.status \in {200, 206}
      BY <1>4, <2>1 DEF SentShape
    <2>3. res' = [r EXCEPT !.headOut = TRUE, !.ended = TRUE]
      BY <1>8, <2>1
    <2>4. SentShape(res') /\ res'.status \in {200, 206}
      BY <2>2, <2>3 DEF SentShape
    <2>5. ~Fails(req, opt, v) /\ ~Current(req, opt, v)
      BY <1>0, <1>8
    <2>6. res'.status # 304
      BY <2>4
    <2> QED BY <1>1, <1>8, <2>4, <2>5, <2>6 DEF SendStops
  <1>9. CASE ~failed /\ ~fresh /\ p.len # -1 /\ req.method # "HEAD"
             /\ UNCHANGED <<heard, body>>
             /\ \/ stage' = "reading" /\ res' = parted /\ ~Partial(v, p)
                \/ /\ stage' = "opening" /\ res' = [parted EXCEPT !.length = p.len]
                   /\ source' = [of |-> 0, at |-> p.from, end |-> EndOf(v, p)]
    <2>1. GoesOn(req, opt, v)
      BY <1>0, <1>9 DEF GoesOn
    <2>2. /\ res'.status = parted.status /\ res'.part = parted.part /\ SentShape(res')
          /\ ~res'.ended /\ ~res'.headOut
          /\ stage' = "reading" => res'.length = Unset
          /\ stage' = "opening" => res'.length = p.len
      <3>0. SentShape(parted) /\ ~parted.ended /\ ~parted.headOut /\ parted.length = Unset
        BY <1>4 DEF SentShape
      <3>1. CASE stage' = "reading" /\ res' = parted
        BY <3>0, <3>1
      <3>2. CASE stage' = "opening" /\ res' = [parted EXCEPT !.length = p.len]
        BY <3>0, <3>2 DEF SentShape
      <3> QED BY <1>9, <3>1, <3>2
    <2>3. Labelled(req, opt, v, res')
      BY <1>0, <1>4, <2>2 DEF Labelled, w
    <2> QED BY <1>0, <1>1, <1>9, <2>1, <2>2, <2>3 DEF SendGoes
  <1> QED BY <1>2, <1>5, <1>6, <1>7, <1>8, <1>9

LEMMA CallKeeps == ASSUME SendInv, Call PROVE SendInv'
  <1>1. /\ stage = "called" /\ stat = 0 /\ res = Unsent /\ body = NoBody /\ heard = <<>>
        /\ UNCHANGED <<req, opt, disk, gone>>
        /\ RequestAssumption(req) /\ OptionsAssumption(opt) /\ disk \in Revision \cup {0}
    BY DEF Call, SendInv, BeforeCall, SendTypes
  <1>2. body \in [of : Nat, from : Nat, count : Nat] /\ SentShape(res)
        /\ body.of = 0 /\ body.count = 0 /\ res.length = Unset /\ ~res.ended /\ ~res.headOut
        /\ res.status = 200
    BY <1>1 DEF NoBody, Unsent, SentShape
  <1>3. ASSUME NEW error, Refuse(error) PROVE SendInv'
    <2>1. heard' = Done(error) /\ stage' = "over" /\ UNCHANGED <<stat, res, body, source>>
      BY <1>3 DEF Refuse
    <2>2. Len(heard') <= 1
      BY <1>1, <2>1, HeardOf
    <2>3. BytesAsTold'
      BY <1>1, <1>2, <2>1, <2>2 DEF BytesAsTold, ToldIsSent, HeardOnce
    <2>4. ConditionsFirst'
      BY <1>1, <2>1 DEF ConditionsFirst
    <2>5. SendTypes'
      BY <1>1, <2>1 DEF SendInv, SendTypes
    <2> QED BY <2>1, <2>3, <2>4, <2>5
            DEF SendInv, BeforeCall, Underway, ToRead, ToOpen, Piped
  <1>4. ASSUME disk \in Revision, Send(disk) PROVE SendInv'
    <2>1. stat' = disk /\ (SendStops(disk) \/ SendGoes(disk))
      BY <1>1, <1>4, SendCases
    <2>2. disk \in Nat \ {0}
      BY <1>4, RevisionFacts
    <2>3. CASE SendStops(disk)
      <3>1. /\ stage' = "over" /\ body' = body /\ SentShape(res')
            /\ res'.status \in {200, 206, 304}
        BY <2>3 DEF SendStops
      <3>2. /\ Fails(req, opt, disk) <=> heard' # <<>> /\ heard'[1][2] = "412"
            /\ res'.status = 304 <=> Current(req, opt, disk)
            /\ Len(heard') <= 1
            /\ res'.ended /\ res'.status \in {200, 206} => req.method = "HEAD"
            /\ heard' # <<>> /\ heard'[1][1] = "next" => ~res'.headOut
            /\ res'.ended /\ heard' # <<>> => heard'[1][2] = ""
        <4>1. CASE /\ Fails(req, opt, disk) /\ heard' = Done("412")
                   /\ res'.status = 200 /\ ~res'.ended /\ ~res'.headOut
          <5>1. ~Current(req, opt, disk)
            BY <4>1 DEF Current
          <5>2. Len(heard') <= 1 /\ heard' # <<>> /\ heard'[1][2] = "412"
            BY <1>1, <4>1, HeardOf
          <5>3. res'.status # 304
            BY <4>1
          <5> QED BY <4>1, <5>1, <5>2, <5>3
        <4>2. CASE Current(req, opt, disk) /\ heard' = Called("") /\ res'.status = 304
          <5>1. ~Fails(req, opt, disk)
            BY <4>2 DEF Current
          <5>2. Len(heard') <= 1
                /\ (heard' # <<>> => heard'[1][1] = "callback" /\ heard'[1][2] = "")
            BY <1>1, <4>2, HeardOf
          <5>3. heard' # <<>> => heard'[1][2] # "412" /\ heard'[1][1] # "next"
            BY <5>2, Zenon
          <5>4. res'.status \notin {200, 206}
            <6>1. 304 \notin {200, 206}
              OBVIOUS
            <6> QED BY <4>2, <6>1, Zenon
          <5> QED BY <4>2, <5>1, <5>2, <5>3, <5>4
        <4>3. CASE /\ ~Fails(req, opt, disk) /\ ~Current(req, opt, disk)
                   /\ res'.status # 304
                   /\ heard' = Done("416") /\ ~res'.ended /\ ~res'.headOut
          <5>1. Len(heard') <= 1 /\ heard' # <<>> /\ heard'[1][2] = "416"
            BY <1>1, <4>3, HeardOf
          <5>2. heard'[1][2] # "412"
            BY <5>1, Zenon
          <5> QED BY <4>3, <5>1, <5>2
        <4>4. CASE /\ ~Fails(req, opt, disk) /\ ~Current(req, opt, disk)
                   /\ res'.status # 304 /\ heard' = Called("") /\ req.method = "HEAD"
          <5>1. Len(heard') <= 1
                /\ (heard' # <<>> => heard'[1][1] = "callback" /\ heard'[1][2] = "")
            BY <1>1, <4>4, HeardOf
          <5> QED BY <4>4, <5>1
        <4> QED BY <2>3, <4>1, <4>2, <4>3, <4>4 DEF SendStops
      <3>3. ConditionsFirst'
        <4>1. /\ DeniedFor(req, opt, disk) <=> Fails(req, opt, disk)
              /\ Current(req, opt, disk)
                 <=> ~DeniedFor(req, opt, disk) /\ HeldBy(req, opt, disk) /\ ~req.noCache
                     /\ req.method # "POST"
          BY <1>1, <1>4, ConditionsAre
        <4> QED BY <1>1, <2>1, <3>1, <3>2, <4>1, ConditionsFirstIs
      <3>4. BytesAsTold'
        BY <1>1, <1>2, <2>1, <2>2, <3>1, <3>2 DEF BytesAsTold, ToldIsSent, HeardOnce
      <3>5. SendTypes'
        BY <1>1, <1>2, <1>4, <2>1, <3>1 DEF SendInv, SendTypes
      <3> QED BY <3>1, <3>3, <3>4, <3>5
              DEF SendInv, BeforeCall, Underway, ToRead, ToOpen, Piped
    <2>4. CASE SendGoes(disk)
      <3> DEFINE p == PlanOf(req, opt, disk)
      <3>1. /\ GoesOn(req, opt, disk) /\ Labelled(req, opt, disk, res') /\ SentShape(res')
            /\ ~res'.ended /\ ~res'.headOut /\ heard' = <<>> /\ body' = NoBody
            /\ \/ stage' = "reading" /\ ~Partial(disk, p) /\ res'.length = Unset
               \/ /\ stage' = "opening" /\ res'.length = p.len
                  /\ source' = [of |-> 0, at |-> p.from, end |-> EndOf(disk, p)]
        BY <1>1, <2>4 DEF SendGoes
      <3>2. ConditionsFirst'
        <4>1. /\ ~DeniedFor(req, opt, disk)
              /\ ~(HeldBy(req, opt, disk) /\ ~req.noCache /\ req.method # "POST")
          BY <1>1, <1>4, <3>1, ConditionsAre DEF GoesOn
        <4>2. res'.status \in {200, 206}
          BY <1>1, <3>1, PlanIsWanted
        <4> QED BY <1>1, <2>1, <3>1, <4>1, <4>2, ConditionsFirstIs
      <3>3. BytesAsTold'
        BY <1>1, <1>2, <2>1, <2>2, <3>1 DEF BytesAsTold, ToldIsSent, HeardOnce
      <3>4. SendTypes'
        BY <1>1, <1>2, <1>4, <2>1, <3>1 DEF SendInv, SendTypes
      <3>5. BeforeCall' /\ Underway' /\ ToRead' /\ ToOpen' /\ Piped'
        BY <1>1, <2>1, <3>1 DEF BeforeCall, Underway, ToRead, ToOpen, Piped
      <3> QED BY <3>2, <3>3, <3>4, <3>5 DEF SendInv
    <2> QED BY <2>1, <2>3, <2>4
  <1>5. (\E error : Refuse(error)) \/ (disk # 0 /\ Send(disk))
    BY DEF Call
  <1> QED BY <1>1, <1>3, <1>4, <1>5

LEMMA SendNextKeeps == ASSUME SendInv, [SendNext]_sendVars PROVE SendInv'
  <1>1. CASE UNCHANGED sendVars
    <2>1. UNCHANGED <<req, opt, disk, stage, stat, res, body, source, gone, heard>>
      BY <1>1 DEF sendVars
    <2>2. BytesAsTold' /\ ConditionsFirst'
      BY <2>1, WantedIsChosen, ConditionsFirstIs
         DEF SendInv, BytesAsTold, ToldIsSent, HeardOnce
    <2> QED BY <2>1, <2>2
            DEF SendInv, SendTypes, BeforeCall, Underway, ToRead, ToOpen, Piped
  <1> QED BY <1>1, CallKeeps, ReplaceKeeps, AbortKeeps, ReadSmallKeeps, OpenKeeps,
             PieceArrivesKeeps, ReadErrorKeeps, SourceEndsKeeps DEF SendNext

\* What arrives of res.sendFile is what was told and asked, heard of once, whenever the
\* file is replaced, cannot be read or its client leaves.
THEOREM BytesAreAsTold == SendSpec => []BytesAsTold
  <1>1. SendInit => SendInv
    BY SendInitInv
  <1>2. SendInv /\ [SendNext]_sendVars => SendInv'
    BY SendNextKeeps
  <1>3. SendInv => BytesAsTold
    BY DEF SendInv
  <1> QED BY <1>1, <1>2, <1>3, PTL DEF SendSpec

\* The validators decide before the ranges do, in every version of the file.
THEOREM ConditionsComeFirst == SendSpec => []ConditionsFirst
  <1>1. SendInit => SendInv
    BY SendInitInv
  <1>2. SendInv /\ [SendNext]_sendVars => SendInv'
    BY SendNextKeeps
  <1>3. SendInv => ConditionsFirst
    BY DEF SendInv
  <1> QED BY <1>1, <1>2, <1>3, PTL DEF SendSpec
=============================================================================

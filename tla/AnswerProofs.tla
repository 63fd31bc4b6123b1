---------------------------- MODULE AnswerProofs ----------------------------
(***************************************************************************)
(* What TLAPS proves of a response (Answer), for every sequence of calls a *)
(* program makes, every request, size and status: what goes out fits       *)
(* together, and a HEAD is told what its GET would have been.              *)
(***************************************************************************)
EXTENDS Answer, DataLemmas

-----------------------------------------------------------------------------
(* A response as a record, and what the operators on its headers do.       *)

\* A response has these fields; one is the other but for those `changed` names.
Fields == {"headers", "hasBody", "method", "statusCode", "status", "phrase", "wirePhrase",
     "headersSent", "headOut", "chunked", "userChunked", "finished", "lines", "framing",
     "length", "bytes", "settled", "early", "own", "sent", "threw"}
Shaped(r) == r = [f \in Fields |-> r[f]]
Same(r, w, changed) == \A f \in Fields \ changed : w[f] = r[f]

\* The headers are a list, each name in it once.
Listed(r) ==
    /\ \E X : r.headers \in Seq(X)
    /\ \A i, j \in DOMAIN r.headers : r.headers[i].name = r.headers[j].name => i = j

\* Where a name stands.
Named(r, n) == {i \in DOMAIN r.headers : r.headers[i].name = n}

LEMMA AtIs ==
  ASSUME NEW r, Listed(r), NEW n, NEW i \in DOMAIN r.headers, r.headers[i].name = n
  PROVE  /\ Has(r, n) /\ At(r, n) = i
         /\ TextsOf(r, n) = r.headers[i].texts
  <1>1. Has(r, n)
    BY DEF Has
  <1>2. \A j \in DOMAIN r.headers : r.headers[j].name = n => j = i
    BY DEF Listed
  <1>3. At(r, n) = i
    BY <1>2 DEF At
  <1> QED BY <1>1, <1>3 DEF TextsOf

LEMMA PutFacts ==
  ASSUME NEW r, Shaped(r), Listed(r), NEW n, NEW t
  PROVE  /\ Shaped(Put(r, n, t)) /\ Listed(Put(r, n, t)) /\ Same(r, Put(r, n, t), {"headers"})
         /\ Has(Put(r, n, t), n) /\ TextsOf(Put(r, n, t), n) = t
         /\ \A m : m # n => /\ Has(Put(r, n, t), m) <=> Has(r, m)
                            /\ TextsOf(Put(r, n, t), m) = TextsOf(r, m)
  <1> DEFINE w == Put(r, n, t)
             old == r.headers
             new == IF Has(r, n) THEN [old EXCEPT ![At(r, n)] = Entry(n, t)]
                    ELSE Append(old, Entry(n, t))
  <1>1. Shaped(w) /\ Same(r, w, {"headers"}) /\ w.headers = new
    BY DEF Put, Shaped, Same, Fields
  <1>2. PICK X : old \in Seq(X)
    BY DEF Listed
  <1>3. CASE Has(r, n)
    <2>1. At(r, n) \in DOMAIN old /\ old[At(r, n)].name = n
      BY <1>3 DEF Has, At
    <2>2. new \in Seq(X \cup {Entry(n, t)}) /\ DOMAIN new = DOMAIN old
      BY <1>2, <1>3, <2>1
    <2>3. /\ new[At(r, n)] = Entry(n, t)
          /\ \A i \in DOMAIN old : i # At(r, n) => new[i] = old[i]
          /\ \A i \in DOMAIN old : new[i].name = old[i].name
      BY <1>2, <1>3, <2>1 DEF Entry
    <2> HIDE DEF new, old, w
    <2>4. Listed(w)
      BY <1>1, <2>2, <2>3 DEF Listed, old
    <2>5. Has(w, n) /\ TextsOf(w, n) = t
      BY <1>1, <2>1, <2>2, <2>3, <2>4, AtIs DEF Entry
    <2>6. ASSUME NEW m, m # n
          PROVE  /\ Has(w, m) <=> Has(r, m)
                 /\ TextsOf(w, m) = TextsOf(r, m)
      <3>1. Has(w, m) <=> Has(r, m)
        BY <1>1, <2>2, <2>3 DEF Has, old
      <3>2. CASE Has(r, m)
        <4>1. PICK i \in DOMAIN old : old[i].name = m
          BY <3>2 DEF Has, old
        <4>2. TextsOf(r, m) = old[i].texts
          BY <4>1, AtIs DEF old
        <4>3. i # At(r, n) /\ new[i] = old[i]
          BY <2>1, <2>3, <2>6, <4>1
        <4>4. TextsOf(w, m) = new[i].texts
          BY <1>1, <2>2, <2>3, <2>4, <4>1, AtIs
        <4> QED BY <3>1, <4>2, <4>3, <4>4
      <3>3. CASE ~Has(r, m)
        BY <3>1, <3>3, Zenon DEF TextsOf
      <3> QED BY <3>1, <3>2, <3>3
    <2> QED BY <1>1, <2>4, <2>5, <2>6 DEF w
  <1>4. CASE ~Has(r, n)
    <2>0. new = Append(old, Entry(n, t)) /\ \A i \in DOMAIN old : old[i].name # n
      BY <1>4 DEF Has
    <2>1. /\ new \in Seq(X \cup {Entry(n, t)}) /\ DOMAIN new = DOMAIN old \cup {Len(old) + 1}
          /\ Len(old) + 1 \notin DOMAIN old /\ new[Len(old) + 1] = Entry(n, t)
          /\ \A i \in DOMAIN old : new[i] = old[i]
      BY <1>2, <2>0
    <2>2. Entry(n, t).name = n /\ Entry(n, t).texts = t
      BY DEF Entry
    <2> HIDE DEF new, old, w
    <2>4. Listed(w)
      BY <1>1, <2>0, <2>1, <2>2 DEF Listed, old
    <2>5. Has(w, n) /\ TextsOf(w, n) = t
      BY <1>1, <2>1, <2>2, <2>4, AtIs
    <2>6. ASSUME NEW m, m # n
          PROVE  /\ Has(w, m) <=> Has(r, m)
                 /\ TextsOf(w, m) = TextsOf(r, m)
      <3>1. Has(w, m) <=> Has(r, m)
        BY <1>1, <2>1, <2>2, <2>6 DEF Has, old
      <3>2. CASE Has(r, m)
        <4>1. PICK i \in DOMAIN old : old[i].name = m
          BY <3>2 DEF Has, old
        <4>2. TextsOf(r, m) = old[i].texts
          BY <4>1, AtIs DEF old
        <4>4. TextsOf(w, m) = new[i].texts
          BY <1>1, <2>1, <2>4, <4>1, AtIs
        <4> QED BY <2>1, <3>1, <4>1, <4>2, <4>4
      <3>3. CASE ~Has(r, m)
        BY <3>1, <3>3, Zenon DEF TextsOf
      <3> QED BY <3>1, <3>2, <3>3
    <2> QED BY <1>1, <2>4, <2>5, <2>6 DEF w
  <1> QED BY <1>3, <1>4

-----------------------------------------------------------------------------
\* What Without leaves: the recursion of the fold, named.
KeepBody(s, names, g, S) ==
    IF S = {} THEN <<>>
    ELSE IF s[Max(S)].name \in names THEN g[S \ {Max(S)}]
         ELSE Append(g[S \ {Max(S)}], s[Max(S)])
IsKeep(s, names, g) == g = [S \in SUBSET (DOMAIN s) |-> KeepBody(s, names, g, S)]

LEMMA WithoutIsRec ==
  ASSUME NEW r, NEW names
  PROVE  Without(r, names) =
            [r EXCEPT !.headers = (CHOOSE g : IsKeep(r.headers, names, g))[DOMAIN r.headers]]
  BY Zenon DEF Without, FoldLeft, MapThenFoldSet, IsKeep, KeepBody

LEMMA MaxUpTo ==
  ASSUME NEW k \in Nat \ {0}
  PROVE  Max(1 .. k) = k /\ (1 .. k) \ {k} = 1 .. k - 1
  <1>1. k \in 1 .. k /\ \A y \in 1 .. k : k >= y
    OBVIOUS
  <1>2. \A x \in 1 .. k : (\A y \in 1 .. k : x >= y) => x = k
    OBVIOUS
  <1>3. Max(1 .. k) = k
    BY <1>1, <1>2 DEF Max
  <1> QED BY <1>3

LEMMA MaxIn ==
  ASSUME NEW n \in Nat, NEW S \in SUBSET (1 .. n), S # {}
  PROVE  \E x \in S : \A y \in S : x >= y
  <1> DEFINE T == {n - x : x \in S}
  <1>1. T \in SUBSET Nat /\ T # {}
    <2>1. \A x \in S : n - x \in Nat
      OBVIOUS
    <2> QED BY <2>1
  <1>2. PICK m \in T : \A y \in T : m <= y
    BY <1>1, LeastOf
  <1>3. PICK x \in S : m = n - x
    BY <1>2
  <1>4. \A y \in S : n - y \in T
    OBVIOUS
  <1>5. \A y \in S : n - x <= n - y
    BY <1>2, <1>3, <1>4
  <1>6. \A y \in S : x >= y
    BY <1>5
  <1> QED BY <1>6

LEMMA KeepExists ==
  ASSUME NEW s, IsFiniteSet(DOMAIN s), NEW names,
         \A S \in SUBSET (DOMAIN s) : S # {} => Max(S) \in S
  PROVE  \E g : IsKeep(s, names, g)
  <1> DEFINE D == SUBSET (DOMAIN s)
             Good(n, g) == \A S \in D : Cardinality(S) <= n => g[S] = KeepBody(s, names, g, S)
             Solved(n) == \E g : Good(n, g)
             N == {n \in Nat : Solved(n)}
  <1>1. Solved(0)
    <2> DEFINE g == [S \in D |-> <<>>]
    <2>1. ASSUME NEW S \in D, Cardinality(S) <= 0 PROVE g[S] = KeepBody(s, names, g, S)
      <3>1. S = {}
        BY <2>1, SizeWithout
      <3> QED BY <3>1 DEF KeepBody
    <2> HIDE DEF g
    <2> QED BY <2>1
  <1>2. ASSUME NEW n \in Nat, Solved(n) PROVE Solved(n + 1)
    <2>1. PICK g : Good(n, g)
      BY <1>2
    <2> DEFINE h == [S \in D |-> IF Cardinality(S) <= n THEN g[S] ELSE KeepBody(s, names, g, S)]
    <2>2. ASSUME NEW S \in D, Cardinality(S) <= n + 1 PROVE h[S] = KeepBody(s, names, h, S)
      <3>1. KeepBody(s, names, h, S) = KeepBody(s, names, g, S)
        <4>1. CASE S = {}
          BY <4>1 DEF KeepBody
        <4>2. CASE S # {}
          <5>1. Max(S) \in S /\ S \ {Max(S)} \in D
            BY <4>2
          <5>2. Cardinality(S \ {Max(S)}) <= n
            BY <5>1, <2>2, SizeWithout
          <5>3. h[S \ {Max(S)}] = g[S \ {Max(S)}]
            BY <5>1, <5>2
          <5> HIDE DEF h
          <5> QED BY <4>2, <5>3 DEF KeepBody
        <4> QED BY <4>1, <4>2
      <3>2. h[S] = KeepBody(s, names, g, S)
        BY <2>1
      <3> QED BY <3>1, <3>2
    <2> HIDE DEF h
    <2> QED BY <2>2
  <1> HIDE DEF Solved
  <1>3. Solved(Cardinality(DOMAIN s))
    <2>1. 0 \in N /\ \A n \in Nat : n \in N => n + 1 \in N
      BY <1>1, <1>2
    <2>2. Cardinality(DOMAIN s) \in Nat
      BY FS_CardinalityType
    <2> HIDE DEF N
    <2>3. Cardinality(DOMAIN s) \in N
      BY <2>1, <2>2, SetInduction
    <2> QED BY <2>3 DEF N
  <1>4. PICK g : Good(Cardinality(DOMAIN s), g)
    BY <1>3 DEF Solved
  <1> DEFINE h == [S \in D |-> g[S]]
  <1>5. ASSUME NEW S \in D PROVE h[S] = KeepBody(s, names, h, S)
    <2>1. g[S] = KeepBody(s, names, g, S)
      BY <1>4, SizeWithout
    <2>2. KeepBody(s, names, g, S) = KeepBody(s, names, h, S)
      BY DEF KeepBody
    <2> QED BY <2>1, <2>2
  <1>6. h = [S \in D |-> KeepBody(s, names, h, S)]
    <2>1. \A S \in D : h[S] = KeepBody(s, names, h, S)
      BY <1>5
    <2>2. h = [S \in D |-> h[S]]
      OBVIOUS
    <2> HIDE DEF h
    <2> QED BY <2>1, <2>2
  <1> HIDE DEF h
  <1> QED BY <1>6 DEF IsKeep

\* What is kept of the first k, and what is not.
KeptOf(s, names, t, k) ==
    /\ \E X : t \in Seq(X)
    /\ \A i \in DOMAIN t : \E j \in 1 .. k : t[i] = s[j] /\ s[j].name \notin names
    /\ \A j \in 1 .. k : s[j].name \notin names => \E i \in DOMAIN t : t[i] = s[j]
    /\ \A i, j \in DOMAIN t : t[i].name = t[j].name => i = j

LEMMA KeptIs ==
  ASSUME NEW s, NEW X, s \in Seq(X), \A i, j \in DOMAIN s : s[i].name = s[j].name => i = j,
         NEW names, NEW g, IsKeep(s, names, g)
  PROVE  KeptOf(s, names, g[DOMAIN s], Len(s))
  <1> DEFINE P(k) == k <= Len(s) => KeptOf(s, names, g[1 .. k], k)
             N == {k \in Nat : P(k)}
  <1>0. DOMAIN s = 1 .. Len(s) /\ Len(s) \in Nat
    OBVIOUS
  <1>1. P(0)
    <2>1. 1 .. 0 = {} /\ {} \in SUBSET (DOMAIN s)
      OBVIOUS
    <2>2. g[1 .. 0] = <<>>
      BY <2>1 DEF IsKeep, KeepBody
    <2>3. <<>> \in Seq({})
      OBVIOUS
    <2> QED BY <2>2, <2>3 DEF KeptOf
  <1>2. ASSUME NEW k \in Nat, P(k) PROVE P(k + 1)
    <2> SUFFICES ASSUME k + 1 <= Len(s) PROVE KeptOf(s, names, g[1 .. k + 1], k + 1)
      OBVIOUS
    <2> DEFINE t == g[1 .. k]
               u == g[1 .. k + 1]
    <2>1. KeptOf(s, names, t, k)
      BY <1>2
    <2>2. 1 .. k + 1 \in SUBSET (DOMAIN s) /\ k + 1 \in DOMAIN s /\ 1 .. k + 1 # {}
      BY <1>0
    <2>3. Max(1 .. k + 1) = k + 1 /\ (1 .. k + 1) \ {k + 1} = 1 .. k
      BY MaxUpTo
    <2>4. u = IF s[k + 1].name \in names THEN t ELSE Append(t, s[k + 1])
      <3>1. u = KeepBody(s, names, g, 1 .. k + 1)
        BY <2>2 DEF IsKeep
      <3> QED BY <2>2, <2>3, <3>1 DEF KeepBody
    <2>5. \A j \in 1 .. k + 1 : j = k + 1 \/ j \in 1 .. k
      OBVIOUS
    <2>6. 1 .. k \subseteq 1 .. k + 1 /\ k + 1 \in 1 .. k + 1 /\ k + 1 \notin 1 .. k
      OBVIOUS
    <2> HIDE DEF t, u
    <2>7. CASE s[k + 1].name \in names
      <3>1. u = t
        BY <2>4, <2>7
      <3> QED BY <2>1, <2>5, <2>6, <2>7, <3>1 DEF KeptOf, u
    <2>8. CASE s[k + 1].name \notin names
      <3>1. PICK Y : t \in Seq(Y)
        BY <2>1 DEF KeptOf
      <3>2. u = Append(t, s[k + 1])
        BY <2>4, <2>8
      <3>3. /\ u \in Seq(Y \cup {s[k + 1]}) /\ DOMAIN u = DOMAIN t \cup {Len(t) + 1}
            /\ Len(t) + 1 \notin DOMAIN t /\ u[Len(t) + 1] = s[k + 1]
            /\ \A i \in DOMAIN t : u[i] = t[i]
        BY <3>1, <3>2
      <3>4. \A i \in DOMAIN t : \E j \in 1 .. k : t[i] = s[j] /\ s[j].name \notin names
        BY <2>1 DEF KeptOf
      <3>5. \A i \in DOMAIN t : t[i].name # s[k + 1].name
        BY <3>4, <2>2, <2>6, <1>0
      <3>6. \A i \in DOMAIN u : \E j \in 1 .. k + 1 : u[i] = s[j] /\ s[j].name \notin names
        BY <2>6, <2>8, <3>3, <3>4
      <3>7. \A j \in 1 .. k + 1 : s[j].name \notin names => \E i \in DOMAIN u : u[i] = s[j]
        BY <2>1, <2>5, <3>3 DEF KeptOf
      <3>8. \A i, j \in DOMAIN u : u[i].name = u[j].name => i = j
        BY <2>1, <3>3, <3>5 DEF KeptOf
      <3> QED BY <3>3, <3>6, <3>7, <3>8 DEF KeptOf, u
    <2> QED BY <2>7, <2>8
  <1>3. Len(s) \in N
    <2>1. 0 \in N /\ \A k \in Nat : k \in N => k + 1 \in N
      BY <1>1, <1>2
    <2> HIDE DEF N
    <2> QED BY <1>0, <2>1, SetInduction
  <1> QED BY <1>0, <1>3

LEMMA WithoutFacts ==
  ASSUME NEW r, Shaped(r), Listed(r), NEW names
  PROVE  /\ Shaped(Without(r, names)) /\ Listed(Without(r, names))
         /\ Same(r, Without(r, names), {"headers"})
         /\ \A n \in names : ~Has(Without(r, names), n)
         /\ \A n : n \notin names => /\ Has(Without(r, names), n) <=> Has(r, n)
                                     /\ TextsOf(Without(r, names), n) = TextsOf(r, n)
  <1> DEFINE s == r.headers
             t == (CHOOSE g : IsKeep(s, names, g))[DOMAIN s]
             w == Without(r, names)
  <1>1. PICK X : s \in Seq(X)
    BY DEF Listed
  <1>2. DOMAIN s = 1 .. Len(s) /\ Len(s) \in Nat /\ IsFiniteSet(DOMAIN s)
    BY <1>1, FS_Interval
  <1>3. ASSUME NEW S \in SUBSET (DOMAIN s), S # {} PROVE Max(S) \in S
    <2>1. \E x \in S : \A y \in S : x >= y
      BY <1>2, <1>3, MaxIn
    <2> QED BY <2>1 DEF Max
  <1>4. KeptOf(s, names, t, Len(s))
    <2>1. \E g : IsKeep(s, names, g)
      BY <1>2, <1>3, KeepExists
    <2>2. \A i, j \in DOMAIN s : s[i].name = s[j].name => i = j
      BY DEF Listed
    <2> DEFINE h == CHOOSE g : IsKeep(s, names, g)
    <2>3. IsKeep(s, names, h)
      BY <2>1
    <2> HIDE DEF h, s
    <2>4. KeptOf(s, names, h[DOMAIN s], Len(s))
      BY <1>1, <2>2, <2>3, KeptIs
    <2> QED BY <2>4 DEF h
  <1>5. Shaped(w) /\ Same(r, w, {"headers"}) /\ w.headers = t
    <2>1. w = [r EXCEPT !.headers = t]
      BY WithoutIsRec
    <2> HIDE DEF t, w
    <2> QED BY <2>1 DEF Shaped, Same, Fields
  <1> HIDE DEF t, w
  <1>6. Listed(w)
    BY <1>4, <1>5 DEF Listed, KeptOf
  <1>7. ASSUME NEW n \in names PROVE ~Has(w, n)
    BY <1>4, <1>5, <1>7 DEF Has, KeptOf
  <1>8. ASSUME NEW n, n \notin names
        PROVE  /\ Has(w, n) <=> Has(r, n)
               /\ TextsOf(w, n) = TextsOf(r, n)
    <2>1. CASE Has(r, n)
      <3>1. PICK j \in DOMAIN s : s[j].name = n
        BY <2>1 DEF Has
      <3>2. PICK i \in DOMAIN t : t[i] = s[j]
        BY <1>2, <1>4, <1>8, <3>1 DEF KeptOf
      <3>3. TextsOf(r, n) = s[j].texts
        BY <3>1, AtIs
      <3>4. Has(w, n) /\ TextsOf(w, n) = t[i].texts
        BY <1>5, <1>6, <3>1, <3>2, AtIs
      <3> QED BY <2>1, <3>2, <3>3, <3>4
    <2>2. CASE ~Has(r, n)
      <3>1. ASSUME NEW i \in DOMAIN t, t[i].name = n PROVE FALSE
        <4>1. PICK j \in DOMAIN s : t[i] = s[j]
          BY <1>2, <1>4 DEF KeptOf
        <4> QED BY <2>2, <3>1, <4>1 DEF Has
      <3>2. ~Has(w, n)
        BY <1>5, <3>1 DEF Has
      <3> QED BY <2>2, <3>2, Zenon DEF TextsOf
    <2> QED BY <2>1, <2>2
  <1> QED BY <1>5, <1>6, <1>7, <1>8 DEF w

-----------------------------------------------------------------------------
(* One response.                                                           *)

\* The client named the tag of this answer.
Known(q, r) ==
    /\ r.method \in {"GET", "HEAD"} /\ q.validator # "none"
    /\ TextsOf(r, "etag") = <<<<q.validator>>>>

\* BodyFits and Conditional, of one response.
FitsOne(r) ==
    r.finished /\ ~r.early =>
        /\ Bodiless(r.status) \/ ~r.hasBody => r.bytes = 0
        /\ Bodiless(r.status) => r.framing = "none"
        /\ r.framing = "length" /\ r.hasBody /\ ~r.own => r.bytes = r.length

\* What a status says of the tag and of what describes the body.
Verdict(q, r, status) ==
    /\ Known(q, r) => status \notin 200 .. 299
    /\ status = 304 => Known(q, r) \/ 304 \in Codes
    /\ status = 304 => ~\E n \in Describing : Has(r, n)

Judged(q, r) == r.finished /\ r.sent /\ ~r.early => Verdict(q, r, r.status)

Flags == {"hasBody", "headersSent", "headOut", "chunked", "userChunked", "finished", "early",
          "own", "sent", "threw"}
\* What the flags of a response say of each other.
InShape(q, r) ==
    /\ Shaped(r) /\ Listed(r) /\ \A f \in Flags : r[f] \in BOOLEAN
    /\ r.method = IF r.hasBody THEN q.method ELSE "HEAD"
    /\ r.finished \/ r.headOut \/ r.early => r.headersSent
    /\ ~r.finished /\ ~r.early => r.bytes = 0 /\ r.framing = "none" /\ ~r.headOut

\* The inductive invariant, of one response: until it ends a length stands in its
\* head only if the program put it there, and a 304 is one the program may ask for.
Good(q, r) ==
    /\ InShape(q, r)
    /\ ~r.finished /\ ~r.own => ~Has(r, "content-length")
    /\ ~r.finished => ~r.sent
    /\ ~r.headersSent /\ r.statusCode = 304 => 304 \in Codes
    /\ FitsOne(r) /\ Judged(q, r)

\* A response that end() is called on, with a body of n bytes.
Ready(q, r, n) ==
    /\ InShape(q, r) /\ ~r.finished
    /\ Has(r, "content-length") /\ r.hasBody /\ ~r.own /\ n = 0 =>
            TextsOf(r, "content-length") = << << 0 >> >>
    /\ r.sent /\ ~r.early => ~r.headersSent /\ Verdict(q, r, r.statusCode)

LEMMA ImplicitFacts ==
  ASSUME NEW r, Shaped(r), r.headersSent \in BOOLEAN
  PROVE  LET w == Implicit(r)
         IN  /\ Shaped(w) /\ w.headersSent = TRUE
             /\ Same(r, w, {"status", "wirePhrase", "headersSent", "settled"})
             /\ w.status = IF r.headersSent THEN r.status ELSE r.statusCode
             /\ r.headersSent => w = r
  BY DEF Implicit, ResWriteHead, Shaped, Same, Fields

LEMMA HeadOutFacts ==
  ASSUME NEW q, NEW r, Shaped(r), r.headOut \in BOOLEAN, r.chunked \in BOOLEAN,
         r.userChunked \in BOOLEAN, r.headOut => r.headersSent
  PROVE  LET w == HeadOut(q, r)
         IN  /\ Shaped(w) /\ w.headOut /\ w.headersSent
             /\ w.headOut \in BOOLEAN /\ r.headersSent \in BOOLEAN => w.headersSent \in BOOLEAN
             /\ w.chunked \in BOOLEAN /\ w.userChunked \in BOOLEAN
             /\ Same(r, w, {"headersSent", "headOut", "lines", "chunked", "userChunked"})
  <1>1. CASE r.headOut
    BY <1>1 DEF HeadOut, Same, Shaped
  <1>2. CASE ~r.headOut
    BY <1>2 DEF HeadOut, WriteHeaders, Same, Shaped, Fields
  <1> QED BY <1>1, <1>2

\* What finishing makes of a response whose head is settled.
Finished(q, r, w, n) ==
    /\ Shaped(w) /\ Listed(w) /\ \A f \in Flags : w[f] \in BOOLEAN
    /\ w.finished /\ w.headOut /\ w.headersSent
    /\ w.hasBody = r.hasBody /\ w.method = r.method /\ w.status = r.status
    /\ w.early = r.early /\ w.own = r.own /\ w.sent = r.sent
    /\ \A m : m # "content-length" => /\ Has(w, m) <=> Has(r, m)
                                      /\ TextsOf(w, m) = TextsOf(r, m)
    /\ Bodiless(w.status) => (Has(w, "content-length") => Has(r, "content-length"))
    /\ FitsOne(w)

LEMMA FinishFacts ==
  ASSUME NEW q, NEW r, NEW n \in Nat,
         Shaped(r), Listed(r), \A f \in Flags : r[f] \in BOOLEAN, r.headersSent,
         ~r.early => r.bytes = 0 /\ r.framing = "none" /\ ~r.headOut,
         Has(r, "content-length") /\ r.hasBody /\ ~r.own /\ n = 0 =>
            TextsOf(r, "content-length") = << << 0 >> >>
  PROVE  Finished(q, r, ResFinish(q, r, n), n)
  <1> DEFINE h == HeadOut(q, r)
             over == [h EXCEPT !.finished = TRUE]
             w == ResFinish(q, r, n)
             CL == "content-length"
  <1> SUFFICES Finished(q, r, w, n)
    OBVIOUS
  <1>0. /\ r.headOut \in BOOLEAN /\ r.chunked \in BOOLEAN /\ r.userChunked \in BOOLEAN
        /\ r.hasBody \in BOOLEAN /\ r.early \in BOOLEAN /\ r.own \in BOOLEAN
        /\ r.sent \in BOOLEAN /\ r.threw \in BOOLEAN /\ r.finished \in BOOLEAN
        /\ r.headersSent \in BOOLEAN
    BY DEF Flags
  <1>1. /\ Shaped(h) /\ h.headOut /\ h.headersSent
        /\ h.headOut \in BOOLEAN /\ h.headersSent \in BOOLEAN
        /\ h.chunked \in BOOLEAN /\ h.userChunked \in BOOLEAN
        /\ Same(r, h, {"headersSent", "headOut", "lines", "chunked", "userChunked"})
    BY <1>0, HeadOutFacts
  <1>2. /\ h.headers = r.headers /\ h.hasBody = r.hasBody /\ h.method = r.method
        /\ h.status = r.status /\ h.early = r.early /\ h.own = r.own /\ h.sent = r.sent
        /\ h.threw = r.threw /\ h.bytes = r.bytes /\ h.framing = r.framing
    BY <1>1 DEF Same, Fields
  <1> HIDE DEF h
  <1>3. /\ Shaped(over) /\ over.finished = TRUE
        /\ Same(h, over, {"finished"})
    BY <1>1 DEF Shaped, Same, Fields
  <1>4. /\ over.headers = r.headers /\ over.hasBody = r.hasBody /\ over.method = r.method
        /\ over.status = r.status /\ over.early = r.early /\ over.own = r.own
        /\ over.sent = r.sent /\ over.threw = r.threw /\ over.bytes = r.bytes
        /\ over.framing = r.framing /\ over.headOut = h.headOut
        /\ over.headersSent = h.headersSent /\ over.chunked = h.chunked
        /\ over.userChunked = h.userChunked
    BY <1>2, <1>3 DEF Same, Fields
  <1> DEFINE Only(v) ==
               /\ Shaped(v)
               /\ Same(over, v, {"headers", "framing", "length", "bytes"})
             Fit(v) ==
               ~r.early =>
                 /\ Bodiless(r.status) \/ ~r.hasBody => v.bytes = 0
                 /\ Bodiless(r.status) => v.framing = "none"
                 /\ v.framing = "length" /\ r.hasBody /\ ~r.own => v.bytes = v.length
             KeepsAll(v) ==
               /\ Listed(v)
               /\ \A m : m # CL => /\ Has(v, m) <=> Has(r, m)
                                   /\ TextsOf(v, m) = TextsOf(r, m)
               /\ Bodiless(r.status) => (Has(v, CL) => Has(r, CL))
  <1> HIDE DEF over
  <1>5. ASSUME NEW v, v.headers = r.headers PROVE KeepsAll(v)
    BY <1>5 DEF Listed, Has, TextsOf, At
  <1>6. ASSUME NEW v, Only(v), Fit(v), KeepsAll(v), w = v PROVE Finished(q, r, w, n)
    <2>1. /\ v.hasBody = r.hasBody /\ v.method = r.method /\ v.status = r.status
          /\ v.early = r.early /\ v.own = r.own /\ v.sent = r.sent /\ v.threw = r.threw
          /\ v.finished = TRUE /\ v.headOut = h.headOut /\ v.headersSent = h.headersSent
          /\ v.chunked = h.chunked /\ v.userChunked = h.userChunked
      BY <1>3, <1>4, <1>6 DEF Same, Fields
    <2>2. \A f \in Flags : v[f] \in BOOLEAN
      BY <1>0, <1>1, <2>1 DEF Flags
    <2>3. FitsOne(v)
      BY <1>6, <2>1 DEF FitsOne
    <2> HIDE DEF w
    <2> QED BY <1>1, <1>6, <2>1, <2>2, <2>3 DEF Finished
  <1> DEFINE NoBody == Bodiless(StatusOut(h))
             Given == n = 0 /\ Has(h, CL) /\ ~Bodiless(StatusOut(h))
             Cut == ~Bodiless(StatusOut(h)) /\ (n > 0 \/ ~Has(h, CL))
                      /\ ((r.headOut /\ h.chunked) \/ (h.userChunked /\ h.hasBody /\ n > 0))
  <1>7. Has(h, CL) <=> Has(r, CL)
    BY <1>2 DEF Has
  <1>8. NoBody <=> Bodiless(r.status)
    BY <1>2 DEF StatusOut
  <1>9. w = CASE NoBody -> over
              [] Given -> Framed(over, "length", Announced(h))
              [] Cut -> (IF n = 0 THEN over ELSE Carry(Framed(over, "chunked", 0), n))
              [] OTHER ->
                   CASE ~h.hasBody /\ h.userChunked -> over
                     [] ~h.hasBody /\ ~h.userChunked -> HeadLength(over, n)
                     [] h.hasBody -> Carry(Framed(over, "length", n), n)
    BY Zenon DEF ResFinish, h, over
  <1>10. Only(over) /\ KeepsAll(over)
    BY <1>3, <1>4, <1>5 DEF Same
  <1> HIDE DEF w
  <1>11. CASE NoBody
    <2>1. w = over
      BY <1>9, <1>11, <1>8 
    <2>2. Fit(over)
      BY <1>4, <1>8, <1>11
    <2> QED BY <1>6, <1>10, <2>1, <2>2
  <1>12. ASSUME NEW l PROVE /\ Only(Framed(over, "length", l)) /\ KeepsAll(Framed(over, "length", l))
                            /\ Framed(over, "length", l).bytes = over.bytes
                            /\ over.framing = "none" =>
                                /\ Framed(over, "length", l).framing = "length"
                                /\ Framed(over, "length", l).length = l
    <2>1. /\ Only(Framed(over, "length", l)) /\ Framed(over, "length", l).bytes = over.bytes
          /\ Framed(over, "length", l).headers = over.headers
          /\ over.framing = "none" =>
                /\ Framed(over, "length", l).framing = "length"
                /\ Framed(over, "length", l).length = l
      BY <1>3 DEF Shaped, Same, Fields, Framed
    <2> QED BY <2>1, <1>4, <1>5
  <1>13. CASE ~NoBody /\ Given
    <2> DEFINE v == Framed(over, "length", Announced(h))
    <2>1. w = v
      BY <1>9, <1>13
    <2>2. r.hasBody /\ ~r.own => Announced(h) = 0
      <3>1. r.hasBody /\ ~r.own => TextsOf(h, CL) = << << 0 >> >>
        BY <1>2, <1>7, <1>13 DEF TextsOf, Has, At
      <3> QED BY <1>13, <3>1 DEF Announced
    <2>3. Fit(v)
      BY <1>4, <1>8, <1>12, <1>13, <2>2
    <2> QED BY <1>6, <1>12, <2>1, <2>3
  <1>14. CASE ~NoBody /\ ~Given /\ Cut
    <2> DEFINE v == IF n = 0 THEN over ELSE Carry(Framed(over, "chunked", 0), n)
    <2>1. w = v
      BY <1>9, <1>14
    <2>2. Only(v) /\ v.headers = r.headers
      BY <1>3, <1>4 DEF Shaped, Same, Fields, Framed, Carry
    <2>3. KeepsAll(v)
      BY <2>2, <1>5
    <2>4. CASE n = 0
      <3>1. r.early
        BY <1>14, <2>4
      <3> QED BY <1>6, <2>1, <2>2, <2>3, <3>1
    <2>5. CASE n # 0
      <3>1. ~r.early => v.framing = "chunked"
        BY <1>3, <1>4, <2>5 DEF Shaped, Fields, Framed, Carry
      <3>2. ~r.early => r.hasBody
        BY <1>2, <1>14, <2>5
      <3>3. Fit(v)
        BY <1>8, <1>14, <3>1, <3>2
      <3> QED BY <1>6, <2>1, <2>2, <2>3, <3>3
    <2> QED BY <2>4, <2>5
  <1>15. CASE ~NoBody /\ ~Given /\ ~Cut
    <2>1. CASE ~h.hasBody /\ h.userChunked
      <3>1. w = over
        BY <1>9, <1>15, <2>1
      <3>2. Fit(over)
        BY <1>2, <1>4, <1>8, <1>15, <2>1
      <3> QED BY <1>6, <1>10, <3>1, <3>2
    <2>2. CASE ~h.hasBody /\ ~h.userChunked
      <3> DEFINE p == Put(over, CL, <<<<n>>>>)
                 v == Framed(p, "length", n)
      <3>1. w = v
        BY <1>9, <1>15, <2>2 DEF HeadLength
      <3>2. /\ Shaped(p) /\ Listed(p) /\ Same(over, p, {"headers"})
            /\ \A m : m # CL => (Has(p, m) <=> Has(over, m)) /\ TextsOf(p, m) = TextsOf(over, m)
        BY <1>3, <1>10, PutFacts
      <3> HIDE DEF p
      <3>3. Only(v) /\ v.headers = p.headers /\ v.bytes = p.bytes
        BY <3>2 DEF Shaped, Same, Fields, Framed
      <3> HIDE DEF v
      <3>4. Listed(v) /\ \A m : (Has(v, m) <=> Has(p, m)) /\ TextsOf(v, m) = TextsOf(p, m)
        BY <3>2, <3>3 DEF Listed, Has, TextsOf, At
      <3>5. KeepsAll(v)
        BY <1>8, <1>10, <1>15, <3>2, <3>4
      <3>6. v.bytes = r.bytes
        BY <1>4, <3>2, <3>3 DEF Same, Fields
      <3>7. Fit(v)
        BY <1>2, <1>8, <1>15, <2>2, <3>6
      <3> QED BY <1>6, <3>1, <3>3, <3>5, <3>7
    <2>3. CASE h.hasBody
      <3> DEFINE p == Framed(over, "length", n)
                 v == Carry(p, n)
      <3>1. w = v
        BY <1>9, <1>15, <2>3
      <3>2. Only(p) /\ (over.framing = "none" => p.length = n) /\ p.bytes = over.bytes
            /\ p.headers = over.headers
        BY <1>3, <1>12 DEF Shaped, Same, Fields, Framed
      <3> HIDE DEF p
      <3>5. /\ Shaped(v) /\ Same(p, v, {"bytes"}) /\ v.bytes = p.bytes + n
        BY <3>2 DEF Shaped, Same, Fields, Carry
      <3> HIDE DEF v
      <3>6. Only(v)
        BY <3>2, <3>5 DEF Same
      <3>4. /\ v.headers = r.headers
            /\ over.framing = "none" /\ over.bytes = 0 => v.length = n /\ v.bytes = n
        BY <1>4, <3>2, <3>5 DEF Same, Fields
      <3>3. Fit(v)
        BY <1>2, <1>4, <1>8, <1>15, <2>3, <3>4
      <3> QED BY <1>5, <1>6, <3>1, <3>3, <3>4, <3>6
    <2> QED BY <1>0, <1>1, <1>2, <2>1, <2>2, <2>3
  <1> QED BY <1>11, <1>13, <1>14, <1>15

\* end(): a response that was ready for it is good after it.
LEMMA EndFacts ==
  ASSUME NEW q, NEW r, NEW n \in Nat, Ready(q, r, n)
  PROVE  /\ Good(q, ResEnd(q, r, n)) /\ ResEnd(q, r, n).finished
         /\ ResEnd(q, r, n).early = r.early
  <1> DEFINE i == Implicit(r)
             w == ResFinish(q, i, n)
  <1>0. /\ \A f \in Flags : r[f] \in BOOLEAN
        /\ r.headersSent \in BOOLEAN /\ r.sent \in BOOLEAN /\ r.early \in BOOLEAN
        /\ r.hasBody \in BOOLEAN /\ r.own \in BOOLEAN /\ r.finished = FALSE
        /\ r.method = (IF r.hasBody THEN q.method ELSE "HEAD")
    BY DEF Ready, InShape, Flags
  <1>1. Shaped(r) /\ Listed(r)
    BY DEF Ready, InShape
  <1>2. /\ Shaped(i) /\ i.headersSent = TRUE
        /\ Same(r, i, {"status", "wirePhrase", "headersSent", "settled"})
        /\ i.status = IF r.headersSent THEN r.status ELSE r.statusCode
    BY <1>0, <1>1, ImplicitFacts
  <1> HIDE DEF i
  <1>3. /\ i.headers = r.headers /\ i.hasBody = r.hasBody /\ i.method = r.method
        /\ i.early = r.early /\ i.own = r.own /\ i.sent = r.sent /\ i.bytes = r.bytes
        /\ i.framing = r.framing /\ i.headOut = r.headOut
        /\ \A f \in Flags \ {"headersSent"} : i[f] = r[f]
    BY <1>2 DEF Same, Fields, Flags
  <1>4. \A f \in Flags : i[f] \in BOOLEAN
    BY <1>0, <1>2, <1>3
  <1>5. Listed(i) /\ \A m : (Has(i, m) <=> Has(r, m)) /\ TextsOf(i, m) = TextsOf(r, m)
    BY <1>1, <1>3 DEF Listed, Has, TextsOf, At
  <1>6. Finished(q, i, w, n)
    <2>1. ~i.early => i.bytes = 0 /\ i.framing = "none" /\ ~i.headOut
      BY <1>0, <1>3 DEF Ready, InShape
    <2>2. Has(i, "content-length") /\ i.hasBody /\ ~i.own /\ n = 0 =>
            TextsOf(i, "content-length") = << << 0 >> >>
      BY <1>3, <1>5 DEF Ready
    <2> HIDE DEF w
    <2> QED BY <1>2, <1>4, <1>5, <2>1, <2>2, FinishFacts DEF w
  <1>7. ResEnd(q, r, n) = w
    BY <1>0 DEF ResEnd, i
  <1> HIDE DEF w
  <1>8. /\ w.finished /\ w.finished \in BOOLEAN /\ w.headersSent
        /\ Shaped(w) /\ Listed(w) /\ \A f \in Flags : w[f] \in BOOLEAN
        /\ w.hasBody = r.hasBody /\ w.method = r.method /\ w.status = i.status
        /\ w.early = r.early /\ w.own = r.own /\ w.sent = r.sent /\ FitsOne(w)
    BY <1>3, <1>6 DEF Finished, Flags
  <1>9. InShape(q, w)
    BY <1>0, <1>8 DEF InShape
  <1>10. Judged(q, w)
    <2> SUFFICES ASSUME w.sent, ~w.early PROVE Verdict(q, w, w.status)
      BY DEF Judged
    <2>1. ~r.headersSent /\ Verdict(q, r, r.statusCode)
      BY <1>8 DEF Ready
    <2>2. w.status = r.statusCode
      BY <1>2, <1>8, <2>1
    <2>3. \A m : m # "content-length" => (Has(w, m) <=> Has(r, m)) /\ TextsOf(w, m) = TextsOf(r, m)
      BY <1>5, <1>6 DEF Finished
    <2>4. Known(q, w) <=> Known(q, r)
      BY <1>8, <2>3 DEF Known
    <2>5. w.status = 304 => \A m : Has(w, m) => Has(r, m)
      <3>1. w.status = 304 => Bodiless(w.status)
        BY DEF Bodiless
      <3>2. Bodiless(w.status) => (Has(w, "content-length") => Has(r, "content-length"))
        BY <1>5, <1>6 DEF Finished
      <3> QED BY <2>3, <3>1, <3>2
    <2> QED BY <2>1, <2>2, <2>4, <2>5 DEF Verdict
  <1>11. Good(q, w)
    BY <1>8, <1>9, <1>10 DEF Good
  <1> QED BY <1>7, <1>8, <1>11

-----------------------------------------------------------------------------
(* What does not end the response.                                         *)

\* A record of a response, whatever it says.
Formed(r) == Shaped(r) /\ Listed(r) /\ \A f \in Flags : r[f] \in BOOLEAN

\* A call that ends nothing makes w of r: headers and status code alone, and neither
\* the headers of a head that is out nor a length that is not the program's.
Near(r, w) ==
    /\ Formed(w) /\ Same(r, w, {"headers", "statusCode", "threw", "own"})
    /\ r.own => w.own
    /\ Has(w, "content-length") => Has(r, "content-length") \/ w.own
    /\ r.headersSent => \A m : m # "location" => /\ Has(w, m) <=> Has(r, m)
                                                /\ TextsOf(w, m) = TextsOf(r, m)

\* And no 304 the program did not ask for.
Calm(r, w) ==
    /\ Near(r, w)
    /\ ~r.headersSent /\ w.statusCode = 304 => r.statusCode = 304 \/ 304 \in Codes

LEMMA CalmGood ==
  ASSUME NEW q, NEW r, NEW w, Good(q, r), Calm(r, w)
  PROVE  Good(q, w)
  <1>1. /\ w.hasBody = r.hasBody /\ w.method = r.method /\ w.status = r.status
        /\ w.headersSent = r.headersSent /\ w.headOut = r.headOut /\ w.finished = r.finished
        /\ w.early = r.early /\ w.sent = r.sent /\ w.bytes = r.bytes
        /\ w.framing = r.framing /\ w.length = r.length
    BY DEF Calm, Near, Same, Fields
  <1>2. InShape(q, w)
    BY <1>1 DEF Good, InShape, Calm, Near, Formed
  <1>3. FitsOne(w)
    BY <1>1 DEF Good, FitsOne, Calm, Near
  <1>4. Judged(q, w)
    <2> SUFFICES ASSUME w.finished, w.sent, ~w.early PROVE Verdict(q, w, w.status)
      BY DEF Judged
    <2>1. Verdict(q, r, r.status)
      BY <1>1 DEF Good, Judged
    <2>2. r.headersSent
      BY <1>1 DEF Good, InShape
    <2>3. \A m : m # "location" => (Has(w, m) <=> Has(r, m)) /\ TextsOf(w, m) = TextsOf(r, m)
      BY <2>2 DEF Calm, Near
    <2>4. Known(q, w) <=> Known(q, r)
      BY <1>1, <2>3 DEF Known
    <2>5. \A m \in Describing : Has(w, m) <=> Has(r, m)
      BY <2>3 DEF Describing
    <2> QED BY <1>1, <2>1, <2>4, <2>5 DEF Verdict
  <1>5. /\ ~w.finished /\ ~w.own => ~Has(w, "content-length")
        /\ ~w.finished => ~w.sent
        /\ ~w.headersSent /\ w.statusCode = 304 => 304 \in Codes
    BY <1>1 DEF Good, Calm, Near
  <1> QED BY <1>2, <1>3, <1>4, <1>5 DEF Good

LEMMA CalmTwice ==
  ASSUME NEW r, NEW v, NEW w, Calm(r, v), Calm(v, w)
  PROVE  Calm(r, w)
  <1>1. v.headersSent = r.headersSent
    BY DEF Calm, Near, Same, Fields
  <1>2. Same(r, w, {"headers", "statusCode", "threw", "own"})
    BY DEF Calm, Near, Same
  <1> QED BY <1>1, <1>2 DEF Calm, Near

LEMMA CalmSame ==
  ASSUME NEW r, Formed(r)
  PROVE  Calm(r, r)
  BY DEF Calm, Near, Same

LEMMA ThrowCalm ==
  ASSUME NEW r, Formed(r), NEW b \in BOOLEAN
  PROVE  /\ Calm(r, [r EXCEPT !.threw = b])
         /\ [r EXCEPT !.threw = b].threw = b
         /\ [r EXCEPT !.threw = b].headers = r.headers
  <1> DEFINE w == [r EXCEPT !.threw = b]
  <1>1. Shaped(w) /\ Same(r, w, {"threw"}) /\ w.threw = b
    BY DEF Formed, Shaped, Same, Fields
  <1> HIDE DEF w
  <1>2. /\ w.headers = r.headers /\ w.own = r.own /\ w.statusCode = r.statusCode
        /\ \A f \in Flags \ {"threw"} : w[f] = r[f]
    BY <1>1 DEF Same, Fields, Flags
  <1>3. Listed(w) /\ \A m : (Has(w, m) <=> Has(r, m)) /\ TextsOf(w, m) = TextsOf(r, m)
    BY <1>2 DEF Formed, Listed, Has, TextsOf, At
  <1>4. \A f \in Flags : w[f] \in BOOLEAN
    BY <1>1, <1>2 DEF Formed
  <1>5. Calm(r, w)
    BY <1>1, <1>2, <1>3, <1>4 DEF Calm, Near, Formed, Same
  <1> QED BY <1>1, <1>2, <1>5 DEF w

\* A change of the headers alone.
LEMMA HeadersCalm ==
  ASSUME NEW r, Formed(r), NEW w, Shaped(w), Listed(w), Same(r, w, {"headers"}),
         Has(w, "content-length") => Has(r, "content-length"),
         r.headersSent => \A m : m # "location" => /\ Has(w, m) <=> Has(r, m)
                                                  /\ TextsOf(w, m) = TextsOf(r, m)
  PROVE  Calm(r, w)
  <1>1. /\ w.own = r.own /\ w.statusCode = r.statusCode
        /\ \A f \in Flags : w[f] = r[f]
    BY DEF Same, Fields, Flags
  <1>2. Formed(w)
    BY <1>1 DEF Formed
  <1> QED BY <1>1, <1>2 DEF Calm, Near, Same

LEMMA PutCalm ==
  ASSUME NEW r, Formed(r), NEW n, n # "content-length", NEW t,
         ~r.headersSent \/ n = "location"
  PROVE  Calm(r, Put(r, n, t)) /\ Put(r, n, t).threw = r.threw
  <1>1. /\ Shaped(Put(r, n, t)) /\ Listed(Put(r, n, t)) /\ Same(r, Put(r, n, t), {"headers"})
        /\ \A m : m # n => /\ Has(Put(r, n, t), m) <=> Has(r, m)
                           /\ TextsOf(Put(r, n, t), m) = TextsOf(r, m)
    BY PutFacts DEF Formed
  <1>2. Put(r, n, t).threw = r.threw
    BY <1>1 DEF Same, Fields
  <1> QED BY <1>1, <1>2, HeadersCalm

LEMMA WithoutCalm ==
  ASSUME NEW r, Formed(r), NEW names, ~r.headersSent
  PROVE  Calm(r, Without(r, names)) /\ Without(r, names).threw = r.threw
  <1>1. /\ Shaped(Without(r, names)) /\ Listed(Without(r, names))
        /\ Same(r, Without(r, names), {"headers"})
        /\ \A n \in names : ~Has(Without(r, names), n)
        /\ \A n : n \notin names => (Has(Without(r, names), n) <=> Has(r, n))
    BY WithoutFacts DEF Formed
  <1>2. Without(r, names).threw = r.threw
    BY <1>1 DEF Same, Fields
  <1> QED BY <1>1, <1>2, HeadersCalm

LEMMA SetHeaderCalm ==
  ASSUME NEW r, Formed(r), NEW n, n # "content-length", NEW t
  PROVE  /\ Calm(r, SetHeader(r, n, t))
         /\ SetHeader(r, n, t).threw = IF r.headersSent THEN TRUE ELSE r.threw
  <1>0. r.headersSent \in BOOLEAN
    BY DEF Formed, Flags
  <1>1. CASE r.headersSent
    BY <1>1, ThrowCalm, Zenon DEF SetHeader, Throws
  <1>2. CASE ~r.headersSent /\ n = "connection" /\ TextsOf(r, "keep-alive") = <<SeededKeepAlive>>
    <2> DEFINE v == Without(r, {"keep-alive"})
    <2>1. SetHeader(r, n, t) = Put(v, n, t)
      BY <1>2, Zenon DEF SetHeader
    <2>2. Calm(r, v) /\ v.threw = r.threw
      BY <1>2, WithoutCalm
    <2> HIDE DEF v
    <2>3. Formed(v) /\ ~v.headersSent
      BY <1>2, <2>2 DEF Calm, Near, Same, Fields
    <2>4. Calm(v, Put(v, n, t)) /\ Put(v, n, t).threw = v.threw
      BY <2>3, PutCalm
    <2> QED BY <1>2, <2>1, <2>2, <2>4, CalmTwice
  <1>3. CASE ~r.headersSent /\ ~(n = "connection" /\ TextsOf(r, "keep-alive") = <<SeededKeepAlive>>)
    <2>1. SetHeader(r, n, t) = Put(r, n, t)
      BY <1>3, Zenon DEF SetHeader
    <2> QED BY <1>3, <2>1, PutCalm
  <1> QED BY <1>1, <1>2, <1>3

LEMMA StatusNear ==
  ASSUME NEW r, Formed(r), NEW c
  PROVE  LET w == Status(r, c)
         IN  /\ Near(r, w) /\ w.headers = r.headers
             /\ Same(r, w, {"statusCode", "threw"})
             /\ w.statusCode \in {c, r.statusCode}
             /\ c \in 100 .. 999 => w.threw = r.threw /\ w.statusCode = c
  <1>1. CASE c \notin 100 .. 999
    <2> DEFINE w == [r EXCEPT !.threw = TRUE]
    <2>1. Near(r, w) /\ w.headers = r.headers
      BY ThrowCalm DEF Calm
    <2>2. Same(r, w, {"threw"})
      BY DEF Formed, Shaped, Same, Fields
    <2>3. Status(r, c) = w
      BY <1>1 DEF Status, Throws
    <2> HIDE DEF w
    <2>4. w.statusCode = r.statusCode /\ Same(r, w, {"statusCode", "threw"})
      BY <2>2 DEF Same, Fields
    <2> QED BY <1>1, <2>1, <2>3, <2>4
  <1>2. CASE c \in 100 .. 999
    <2> DEFINE w == [r EXCEPT !.statusCode = c]
    <2>1. Shaped(w) /\ Same(r, w, {"statusCode"}) /\ w.statusCode = c
      BY DEF Formed, Shaped, Same, Fields
    <2>0. Status(r, c) = w
      BY <1>2 DEF Status
    <2> HIDE DEF w
    <2>2. /\ w.headers = r.headers /\ w.own = r.own /\ w.threw = r.threw
          /\ \A f \in Flags : w[f] = r[f]
      BY <2>1 DEF Same, Fields, Flags
    <2>3. Listed(w) /\ \A m : (Has(w, m) <=> Has(r, m)) /\ TextsOf(w, m) = TextsOf(r, m)
      BY <2>2 DEF Formed, Listed, Has, TextsOf, At
    <2>4. Near(r, w) /\ Same(r, w, {"statusCode", "threw"})
      BY <2>1, <2>2, <2>3 DEF Near, Formed, Same
    <2> QED BY <1>2, <2>0, <2>1, <2>2, <2>4
  <1> QED BY <1>1, <1>2

LEMMA StatusCalm ==
  ASSUME NEW r, Formed(r), NEW c, c = 304 => 304 \in Codes
  PROVE  Calm(r, Status(r, c))
  BY StatusNear DEF Calm

LEMMA NearTwice ==
  ASSUME NEW r, NEW v, NEW w, Near(r, v), Near(v, w)
  PROVE  Near(r, w)
  <1>1. v.headersSent = r.headersSent
    BY DEF Near, Same, Fields
  <1>2. Same(r, w, {"headers", "statusCode", "threw", "own"})
    BY DEF Near, Same
  <1> QED BY <1>1, <1>2 DEF Near

LEMMA GoodIsFormed ==
  ASSUME NEW q, NEW r, Good(q, r)
  PROVE  Formed(r)
  BY DEF Good, InShape, Formed

LEMMA RemoveHeaderCalm ==
  ASSUME NEW r, Formed(r), NEW n
  PROVE  Calm(r, RemoveHeader(r, n))
  <1>1. CASE r.headersSent
    BY <1>1, ThrowCalm DEF RemoveHeader, Throws
  <1>2. CASE ~r.headersSent
    BY <1>2, WithoutCalm DEF RemoveHeader
  <1> QED BY <1>1, <1>2

\* CallRaw's.
LEMMA RawCalm ==
  ASSUME NEW r, Formed(r)
  PROVE  Calm(r, IF r.headersSent \/ Has(r, "x-raw") THEN r ELSE
               [r EXCEPT !.headers = Append(@,
                   [name |-> "x-raw", texts |-> <<<<"1">>>>, raw |-> TRUE])])
  <1>1. CASE r.headersSent \/ Has(r, "x-raw")
    BY <1>1, CalmSame
  <1>2. CASE ~r.headersSent /\ ~Has(r, "x-raw")
    <2> DEFINE e == [name |-> "x-raw", texts |-> <<<<"1">>>>, raw |-> TRUE]
               old == r.headers
               new == Append(old, e)
               w == [r EXCEPT !.headers = Append(@, e)]
    <2>0. e.name = "x-raw"
      OBVIOUS
    <2> HIDE DEF e
    <2>1. Shaped(w) /\ Same(r, w, {"headers"}) /\ w.headers = new
      BY DEF Formed, Shaped, Same, Fields
    <2>2. PICK X : old \in Seq(X)
      BY DEF Formed, Listed
    <2>3. /\ new \in Seq(X \cup {e}) /\ DOMAIN new = DOMAIN old \cup {Len(old) + 1}
          /\ Len(old) + 1 \notin DOMAIN old /\ new[Len(old) + 1] = e
          /\ \A i \in DOMAIN old : new[i] = old[i]
      BY <2>2
    <2>4. \A i \in DOMAIN old : old[i].name # "x-raw"
      BY <1>2 DEF Has
    <2> HIDE DEF w, new
    <2>5. Listed(w)
      BY <2>0, <2>1, <2>3, <2>4 DEF Listed, Formed
    <2>6. Has(w, "content-length") => Has(r, "content-length")
      BY <2>0, <2>1, <2>3 DEF Has
    <2>7. Calm(r, w)
      BY <1>2, <2>1, <2>5, <2>6, HeadersCalm
    <2> QED BY <1>2, <2>7 DEF w, e
  <1> QED BY <1>1, <1>2

\* CallLength's: whatever it did, the length is the program's own from there.
LEMMA LengthCalm ==
  ASSUME NEW r, Formed(r), NEW t
  PROVE  Calm(r, [SetHeader(r, "content-length", t) EXCEPT !.own = TRUE])
  <1> DEFINE v == SetHeader(r, "content-length", t)
             w == [v EXCEPT !.own = TRUE]
             CL == "content-length"
  <1>0. r.headersSent \in BOOLEAN
    BY DEF Formed, Flags
  <1>1. /\ Formed(v) /\ Same(r, v, {"headers", "threw"})
        /\ r.headersSent => \A m : (Has(v, m) <=> Has(r, m)) /\ TextsOf(v, m) = TextsOf(r, m)
    <2>1. CASE r.headersSent
      <3>1. v = [r EXCEPT !.threw = TRUE]
        BY <2>1, Zenon DEF SetHeader, Throws
      <3>2. Calm(r, v) /\ v.headers = r.headers
        BY <3>1, ThrowCalm
      <3>3. Same(r, v, {"headers", "threw"})
        BY <3>1 DEF Formed, Shaped, Same, Fields
      <3> HIDE DEF v
      <3>4. \A m : (Has(v, m) <=> Has(r, m)) /\ TextsOf(v, m) = TextsOf(r, m)
        BY <3>2 DEF Has, TextsOf, At
      <3> QED BY <3>2, <3>3, <3>4 DEF Calm, Near
    <2>2. CASE ~r.headersSent
      <3>1. v = Put(r, CL, t)
        BY <2>2 DEF SetHeader
      <3>2. Shaped(v) /\ Listed(v) /\ Same(r, v, {"headers"})
        BY <3>1, PutFacts DEF Formed
      <3> HIDE DEF v
      <3>3. \A f \in Flags : v[f] = r[f]
        BY <3>2 DEF Same, Fields, Flags
      <3> QED BY <2>2, <3>2, <3>3 DEF Formed, Same
    <2> QED BY <2>1, <2>2
  <1> HIDE DEF v
  <1>2. Shaped(w) /\ Same(v, w, {"own"}) /\ w.own = TRUE
    BY <1>1 DEF Formed, Shaped, Same, Fields
  <1> HIDE DEF w
  <1>3. /\ w.headers = v.headers /\ w.statusCode = r.statusCode
        /\ \A f \in Flags \ {"own"} : w[f] = v[f]
    BY <1>1, <1>2 DEF Same, Fields, Flags
  <1>4. Listed(w) /\ \A m : (Has(w, m) <=> Has(v, m)) /\ TextsOf(w, m) = TextsOf(v, m)
    BY <1>1, <1>3 DEF Formed, Listed, Has, TextsOf, At
  <1>5. Formed(w)
    BY <1>1, <1>2, <1>3, <1>4 DEF Formed
  <1>6. Same(r, w, {"headers", "statusCode", "threw", "own"})
    BY <1>1, <1>2 DEF Same
  <1>7. Calm(r, w)
    BY <1>1, <1>2, <1>3, <1>4, <1>5, <1>6 DEF Calm, Near
  <1> QED BY <1>7 DEF w, v

\* What lets the head out before the end: the promises are of the others.
LEMMA EarlyGood ==
  ASSUME NEW q, NEW r, Good(q, r), ~r.finished, NEW w, Formed(w), w.early, w.headersSent,
         w.method = r.method, w.hasBody = r.hasBody, w.own = r.own, w.sent = r.sent,
         w.headers = r.headers
  PROVE  Good(q, w)
  <1>1. \A m : Has(w, m) <=> Has(r, m)
    BY DEF Has
  <1>2. InShape(q, w)
    BY DEF InShape, Formed, Good
  <1> QED BY <1>1, <1>2 DEF Good, FitsOne, Judged

\* What _writeHead makes of the response, before what the call does with it.
LEMMA OutFacts ==
  ASSUME NEW q, NEW r, Good(q, r), ~r.finished
  PROVE  LET w == HeadOut(q, Implicit(r))
         IN  /\ Formed(w) /\ w.headersSent /\ w.headOut
             /\ Same(r, w, {"status", "wirePhrase", "headersSent", "settled", "headOut",
                            "lines", "chunked", "userChunked"})
  <1> DEFINE i == Implicit(r)
             w == HeadOut(q, i)
  <1>1. /\ Shaped(r) /\ Listed(r) /\ r.headersSent \in BOOLEAN /\ \A f \in Flags : r[f] \in BOOLEAN
    BY DEF Good, InShape, Flags
  <1>2. /\ Shaped(i) /\ i.headersSent = TRUE
        /\ Same(r, i, {"status", "wirePhrase", "headersSent", "settled"})
    BY <1>1, ImplicitFacts
  <1> HIDE DEF i
  <1>3. \A f \in Flags \ {"headersSent"} : i[f] = r[f]
    BY <1>2 DEF Same, Fields, Flags
  <1>4. i.headOut \in BOOLEAN /\ i.chunked \in BOOLEAN /\ i.userChunked \in BOOLEAN
    BY <1>1, <1>3 DEF Flags
  <1>5. /\ Shaped(w) /\ w.headOut /\ w.headersSent
        /\ w.headOut \in BOOLEAN /\ w.headersSent \in BOOLEAN
        /\ w.chunked \in BOOLEAN /\ w.userChunked \in BOOLEAN
        /\ Same(i, w, {"headersSent", "headOut", "lines", "chunked", "userChunked"})
    BY <1>2, <1>4, HeadOutFacts
  <1> HIDE DEF w
  <1>6. \A f \in Flags \ {"headersSent", "headOut", "chunked", "userChunked"} : w[f] = i[f]
    BY <1>5 DEF Same, Fields, Flags
  <1>7. Same(r, w, {"status", "wirePhrase", "headersSent", "settled", "headOut",
                    "lines", "chunked", "userChunked"})
    BY <1>2, <1>5 DEF Same
  <1>8. \A f \in Flags : w[f] \in BOOLEAN
    BY <1>1, <1>3, <1>5, <1>6
  <1>9. w.headers = r.headers
    BY <1>7 DEF Same, Fields
  <1>10. Formed(w)
    BY <1>1, <1>5, <1>8, <1>9 DEF Formed, Listed
  <1> QED BY <1>5, <1>7, <1>10 DEF w, i

LEMMA FlushGood ==
  ASSUME NEW q, NEW r, Good(q, r)
  PROVE  Good(q, FlushHeaders(q, r))
  <1>1. CASE r.finished
    BY <1>1 DEF FlushHeaders
  <1>2. CASE ~r.finished
    <2> DEFINE h == HeadOut(q, Implicit(r))
               w == [h EXCEPT !.early = TRUE]
    <2>1. /\ Formed(h) /\ h.headersSent
          /\ Same(r, h, {"status", "wirePhrase", "headersSent", "settled", "headOut",
                         "lines", "chunked", "userChunked"})
      BY <1>2, OutFacts
    <2> HIDE DEF h
    <2>2. /\ Shaped(w) /\ w.early = TRUE /\ Same(h, w, {"early"})
      BY <2>1 DEF Formed, Shaped, Same, Fields
    <2> HIDE DEF w
    <2>3. /\ \A f \in Flags \ {"early"} : w[f] = h[f]
          /\ w.headers = r.headers /\ w.headersSent = h.headersSent
          /\ w.method = r.method /\ w.hasBody = r.hasBody /\ w.own = r.own /\ w.sent = r.sent
          /\ h.headers = r.headers
      BY <2>1, <2>2 DEF Same, Fields, Flags
    <2>4. Formed(w)
      <3>1. Listed(w)
        BY <2>1, <2>3 DEF Formed, Listed
      <3>2. \A f \in Flags : w[f] \in BOOLEAN
        BY <2>1, <2>2, <2>3 DEF Formed
      <3> QED BY <2>2, <3>1, <3>2 DEF Formed
    <2>5. Good(q, w)
      BY <1>2, <2>1, <2>2, <2>3, <2>4, EarlyGood
    <2> QED BY <1>2, <2>5 DEF FlushHeaders, w, h
  <1> QED BY <1>1, <1>2

LEMMA WriteGood ==
  ASSUME NEW q, NEW r, Good(q, r), NEW n
  PROVE  Good(q, ResWrite(q, r, n))
  <1>1. CASE r.finished \/ n = 0
    BY <1>1 DEF ResWrite
  <1>2. CASE ~r.finished /\ n # 0
    <2> DEFINE h == HeadOut(q, Implicit(r))
               framed == Framed(h, IF h.chunked THEN "chunked" ELSE "length", Announced(h))
               v == Carry([framed EXCEPT !.early = TRUE], n)
               w == IF ~h.chunked /\ v.bytes >= v.length THEN [v EXCEPT !.finished = TRUE] ELSE v
    <2>1. /\ Formed(h) /\ h.headersSent
          /\ Same(r, h, {"status", "wirePhrase", "headersSent", "settled", "headOut",
                         "lines", "chunked", "userChunked"})
      BY <1>2, OutFacts
    <2> HIDE DEF h
    <2>2. Shaped(framed) /\ Same(h, framed, {"framing", "length"})
      BY <2>1 DEF Formed, Shaped, Same, Fields, Framed
    <2> HIDE DEF framed
    <2>3. Shaped(v) /\ v.early = TRUE /\ Same(framed, v, {"early", "bytes"})
      BY <2>2 DEF Shaped, Same, Fields, Carry
    <2> HIDE DEF v
    <2>4. /\ Shaped(w) /\ w.finished \in BOOLEAN \cup {v.finished} /\ Same(v, w, {"finished"})
      BY <2>3 DEF Shaped, Same, Fields
    <2> HIDE DEF w
    <2>5. Same(h, w, {"framing", "length", "early", "bytes", "finished"})
      BY <2>2, <2>3, <2>4 DEF Same
    <2>6. /\ \A f \in Flags \ {"early", "finished"} : w[f] = h[f]
          /\ w.headers = r.headers /\ w.headersSent = h.headersSent
          /\ w.method = r.method /\ w.hasBody = r.hasBody /\ w.own = r.own /\ w.sent = r.sent
          /\ h.headers = r.headers /\ w.early = v.early /\ v.finished = h.finished
      BY <2>1, <2>2, <2>3, <2>4, <2>5 DEF Same, Fields, Flags
    <2>7. h.finished \in BOOLEAN
      BY <2>1 DEF Formed, Flags
    <2>8. Formed(w)
      <3>1. Listed(w)
        BY <2>1, <2>6 DEF Formed, Listed
      <3>2. \A f \in Flags : w[f] \in BOOLEAN
        BY <2>1, <2>3, <2>4, <2>6, <2>7 DEF Formed
      <3> QED BY <2>4, <3>1, <3>2 DEF Formed
    <2>9. Good(q, w)
      BY <1>2, <2>1, <2>3, <2>6, <2>8, EarlyGood
    <2> QED BY <1>2, <2>9 DEF ResWrite, w, v, framed, h
  <1> QED BY <1>1, <1>2

LEMMA WriteHeadGood ==
  ASSUME NEW q, NEW r, Good(q, r), NEW c \in Codes, NEW p
  PROVE  Good(q, ResWriteHead(r, c, p, SetHeader(r, "x-head", <<<<"a">>>>)))
  <1>0. Formed(r)
    BY GoodIsFormed
  <1>1. CASE r.headersSent
    BY <1>0, <1>1, ThrowCalm, CalmGood DEF ResWriteHead, Throws
  <1>2. CASE ~r.headersSent
    <2> DEFINE v == SetHeader(r, "x-head", <<<<"a">>>>)
               w == ResWriteHead(r, c, p, v)
    <2>1. Calm(r, v)
      BY <1>0, SetHeaderCalm
    <2> HIDE DEF v
    <2>2. Good(q, v) /\ ~v.headersSent
      BY <1>2, <2>1, CalmGood DEF Calm, Near, Same, Fields
    <2>3. /\ Shaped(w) /\ w.headersSent = TRUE
          /\ Same(v, w, {"statusCode", "phrase", "status", "wirePhrase", "headersSent", "settled"})
      BY <1>2, <2>1 DEF Calm, Near, Formed, Shaped, Same, Fields, ResWriteHead
    <2> HIDE DEF w
    <2>4. /\ w.headers = v.headers /\ w.hasBody = v.hasBody /\ w.method = v.method
          /\ w.headOut = v.headOut /\ w.finished = v.finished /\ w.early = v.early
          /\ w.own = v.own /\ w.sent = v.sent /\ w.bytes = v.bytes /\ w.framing = v.framing
          /\ \A f \in Flags \ {"headersSent"} : w[f] = v[f]
      BY <2>3 DEF Same, Fields, Flags
    <2>5. ~w.finished
      BY <2>2, <2>4 DEF Good, InShape
    <2>6. Listed(w) /\ \A m : Has(w, m) <=> Has(v, m)
      BY <2>2, <2>4 DEF Good, InShape, Listed, Has
    <2>7. InShape(q, w)
      BY <2>2, <2>3, <2>4, <2>6 DEF Good, InShape
    <2>8. Good(q, w)
      BY <2>2, <2>3, <2>4, <2>5, <2>6, <2>7 DEF Good, FitsOne, Judged
    <2> QED BY <2>8 DEF w, v
  <1> QED BY <1>1, <1>2

-----------------------------------------------------------------------------
(* What ends the response.                                                 *)

LEMMA ReadyNear ==
  ASSUME NEW q, NEW r, Good(q, r), ~r.finished, NEW w, Near(r, w), NEW n
  PROVE  Ready(q, w, n)
  <1>1. /\ w.hasBody = r.hasBody /\ w.method = r.method
        /\ w.headersSent = r.headersSent /\ w.headOut = r.headOut /\ w.finished = r.finished
        /\ w.early = r.early /\ w.sent = r.sent /\ w.bytes = r.bytes
        /\ w.framing = r.framing
    BY DEF Near, Same, Fields
  <1>2. InShape(q, w)
    BY <1>1 DEF Good, InShape, Near, Formed
  <1>3. ~w.sent /\ (~w.own => ~Has(w, "content-length"))
    BY <1>1 DEF Good, Near
  <1> QED BY <1>1, <1>2, <1>3 DEF Ready

LEMMA NearEnds ==
  ASSUME NEW q, NEW r, Good(q, r), ~r.finished, NEW w, Near(r, w), NEW n \in Nat
  PROVE  Good(q, ResEnd(q, w, n))
  BY ReadyNear, EndFacts

LEMMA EndGood ==
  ASSUME NEW q, NEW r, Good(q, r), NEW n \in Nat
  PROVE  Good(q, ResEnd(q, r, n))
  <1>1. CASE r.finished
    BY <1>1 DEF ResEnd
  <1>2. CASE ~r.finished
    BY <1>2, GoodIsFormed, CalmSame, NearEnds DEF Calm
  <1> QED BY <1>1, <1>2

LEMMA SendUndefinedGood ==
  ASSUME NEW q, NEW r, Good(q, r)
  PROVE  Good(q, SendUndefined(q, r))
  <1> DEFINE s == IfFresh(q, r)
             t == IF s.statusCode \in {204, 304} THEN DropDescribing(s) ELSE s
  <1>0. Formed(r) /\ r.headersSent \in BOOLEAN
    BY GoodIsFormed DEF Formed, Flags
  <1>1. CASE ~r.headersSent
    <2>1. Near(r, s)
      BY <1>0, StatusNear, CalmSame DEF IfFresh, Calm
    <2>2. Formed(s) /\ ~s.headersSent
      BY <1>1, <2>1 DEF Near, Same, Fields
    <2> HIDE DEF s
    <2>3. Near(s, t)
      BY <2>2, WithoutCalm, CalmSame DEF DropDescribing, Calm
    <2>4. ~r.finished
      BY <1>1 DEF Good, InShape
    <2> HIDE DEF t
    <2>5. Good(q, ResEnd(q, t, 0))
      BY <2>1, <2>3, <2>4, NearTwice, NearEnds
    <2>6. SendUndefined(q, r) = ResEnd(q, t, 0)
      BY <1>1, Zenon DEF SendUndefined, s, t
    <2> QED BY <2>5, <2>6
  <1>2. CASE r.headersSent
    <2>1. SendUndefined(q, r) = Throws(r) \/ SendUndefined(q, r) = ResEnd(q, r, 0)
      BY <1>2, Zenon DEF SendUndefined
    <2>2. Good(q, Throws(r))
      BY <1>0, ThrowCalm, CalmGood DEF Throws
    <2> QED BY <2>1, <2>2, EndGood
  <1> QED BY <1>1, <1>2

LEMMA TypedFacts ==
  ASSUME NEW r, Formed(r), NEW kind
  PROVE  LET w == Typed(r, kind)
         IN  /\ Formed(w) /\ Same(r, w, {"headers"})
             /\ \A m : m # "content-type" => /\ Has(w, m) <=> Has(r, m)
                                             /\ TextsOf(w, m) = TextsOf(r, m)
  <1> DEFINE CT == "content-type"
             w == Typed(r, kind)
  <1>1. w = r \/ \E t : w = Put(r, CT, t)
    <2>1. CASE kind = "text" /\ ~HasType(r)
      BY <2>1 DEF Typed
    <2>2. CASE kind = "text" /\ HasType(r)
      BY <2>2 DEF Typed
    <2>3. CASE kind = "bytes" /\ ~HasType(r)
      BY <2>3 DEF Typed
    <2>4. CASE ~(kind = "text") /\ ~(kind = "bytes" /\ ~HasType(r))
      BY <2>4 DEF Typed
    <2> QED BY <2>1, <2>2, <2>3, <2>4
  <1> HIDE DEF w
  <1>2. CASE w = r
    BY <1>2 DEF Same, w
  <1>3. ASSUME NEW t, w = Put(r, CT, t)
        PROVE  /\ Formed(w) /\ Same(r, w, {"headers"})
               /\ \A m : m # CT => (Has(w, m) <=> Has(r, m)) /\ TextsOf(w, m) = TextsOf(r, m)
    <2>1. /\ Shaped(w) /\ Listed(w) /\ Same(r, w, {"headers"})
          /\ \A m : m # CT => (Has(w, m) <=> Has(r, m)) /\ TextsOf(w, m) = TextsOf(r, m)
      BY <1>3, PutFacts DEF Formed
    <2>2. \A f \in Flags : w[f] = r[f]
      BY <2>1 DEF Same, Fields, Flags
    <2> QED BY <2>1, <2>2 DEF Formed
  <1> QED BY <1>1, <1>2, <1>3 DEF w

\* Put and Without, of what is sound.
LEMMA PutFormed ==
  ASSUME NEW r, Formed(r), NEW n, NEW t
  PROVE  LET w == Put(r, n, t)
         IN  /\ Formed(w) /\ Same(r, w, {"headers"}) /\ Has(w, n) /\ TextsOf(w, n) = t
             /\ \A m : m # n => /\ Has(w, m) <=> Has(r, m)
                                /\ TextsOf(w, m) = TextsOf(r, m)
  <1> DEFINE w == Put(r, n, t)
  <1>1. /\ Shaped(w) /\ Listed(w) /\ Same(r, w, {"headers"}) /\ Has(w, n) /\ TextsOf(w, n) = t
        /\ \A m : m # n => (Has(w, m) <=> Has(r, m)) /\ TextsOf(w, m) = TextsOf(r, m)
    BY PutFacts DEF Formed
  <1> HIDE DEF w
  <1>2. \A f \in Flags : w[f] = r[f]
    BY <1>1 DEF Same, Fields, Flags
  <1>3. Formed(w)
    BY <1>1, <1>2 DEF Formed
  <1> QED BY <1>1, <1>3 DEF w

LEMMA WithoutFormed ==
  ASSUME NEW r, Formed(r), NEW names
  PROVE  LET w == Without(r, names)
         IN  /\ Formed(w) /\ Same(r, w, {"headers"}) /\ \A m \in names : ~Has(w, m)
             /\ \A m : m \notin names => /\ Has(w, m) <=> Has(r, m)
                                         /\ TextsOf(w, m) = TextsOf(r, m)
  <1> DEFINE w == Without(r, names)
  <1>1. /\ Shaped(w) /\ Listed(w) /\ Same(r, w, {"headers"}) /\ \A m \in names : ~Has(w, m)
        /\ \A m : m \notin names => (Has(w, m) <=> Has(r, m)) /\ TextsOf(w, m) = TextsOf(r, m)
    BY WithoutFacts DEF Formed
  <1> HIDE DEF w
  <1>2. \A f \in Flags : w[f] = r[f]
    BY <1>1 DEF Same, Fields, Flags
  <1>3. Formed(w)
    BY <1>1, <1>2 DEF Formed
  <1> QED BY <1>1, <1>3 DEF w

\* send() with a body, step by step: what is settled of the head, and what is left of
\* it once the status is known; a HEAD's is told the length it is not sent.
\* The parts of SendBody: with its length, with its status, with what describes no
\* body left out, and the size and the head of what ends it.
SendLong(r, kind, n) ==
    LET typed == Typed(r, kind)
    IN  IF Has(typed, "transfer-encoding") THEN typed
        ELSE Put(typed, "content-length", <<<<n>>>>)
SendSettled(q, r, kind, n) ==
    LET long == SendLong(r, kind, n)
    IN  [TaggedThenFresh(q, long) EXCEPT !.sent = TRUE,
             !.own = @ /\ Has(long, "transfer-encoding")]
SendLeft(s) ==
    CASE s.statusCode \in {204, 304} -> DropDescribing(s)
      [] s.statusCode = 205 ->
            Without(Put(s, "content-length", << << 0 >> >>), {"transfer-encoding"})
      [] OTHER -> s
SendSize(s, n) == IF s.statusCode \in {204, 205, 304} THEN 0 ELSE n
SendHead(t, size) ==
    IF t.statusCode \in {204, 304} \/ Has(t, "transfer-encoding") THEN t
    ELSE Put(t, "content-length", <<<<size>>>>)

LEMMA SendBodyIs ==
  ASSUME NEW q, NEW r, ~r.headersSent, NEW kind, NEW n
  PROVE  LET s == SendSettled(q, r, kind, n)
         IN  SendBody(q, r, kind, n) =
                IF r.method = "HEAD"
                THEN ResEnd(q, SendHead(SendLeft(s), SendSize(s, n)), 0)
                ELSE ResEnd(q, SendLeft(s), SendSize(s, n))
  BY DEF SendBody, SendLong, SendSettled, SendLeft, SendSize, SendHead

LEMMA SendBodyReady ==
  ASSUME NEW q \in RequestType, NEW r, Good(q, r), ~r.headersSent, NEW kind, NEW n \in Nat
  PROVE  LET s == SendSettled(q, r, kind, n)
             t == SendLeft(s)
             size == SendSize(s, n)
             u == SendHead(t, size)
         IN  /\ size \in Nat /\ Formed(t) /\ Ready(q, t, size)
             /\ ~r.hasBody => Ready(q, u, 0)
             /\ Same(r, t, {"headers", "statusCode", "sent", "own"})
             /\ \/ t.statusCode \in {204, 304}
                \/ Has(t, "transfer-encoding") /\ (t.own \/ ~Has(t, "content-length"))
                \/ /\ ~Has(t, "transfer-encoding") /\ Has(t, "content-length")
                   /\ TextsOf(t, "content-length") = <<<<size>>>>
  <1> DEFINE CL == "content-length"
             TE == "transfer-encoding"
             typed == Typed(r, kind)
             long == SendLong(r, kind, n)
             tagged == Tagged(q, long)
             fresh == TaggedThenFresh(q, long)
             s == SendSettled(q, r, kind, n)
             none == s.statusCode \in {204, 205, 304}
             size == SendSize(s, n)
             t == SendLeft(s)
             u == SendHead(t, size)
  <1>0. /\ Formed(r) /\ r.headersSent \in BOOLEAN /\ r.own \in BOOLEAN /\ r.sent \in BOOLEAN
        /\ r.hasBody \in BOOLEAN
    BY GoodIsFormed DEF Formed, Flags
  <1>2. ~r.finished /\ ~r.headOut
    BY DEF Good, InShape
  <1>3. /\ Formed(typed) /\ Same(r, typed, {"headers"})
        /\ Has(typed, CL) <=> Has(r, CL)
    BY <1>0, TypedFacts
  <1> HIDE DEF typed
  <1>4. /\ Formed(long) /\ Same(typed, long, {"headers"})
        /\ ~Has(long, TE) => Has(long, CL) /\ TextsOf(long, CL) = <<<<n>>>>
        /\ Has(long, TE) => (Has(long, CL) => Has(typed, CL))
    <2>1. long = IF Has(typed, TE) THEN typed ELSE Put(typed, CL, <<<<n>>>>)
      BY DEF SendLong, typed
    <2> HIDE DEF long
    <2> QED BY <1>3, <2>1, PutFormed DEF Same
  <1>23. s = [fresh EXCEPT !.sent = TRUE, !.own = @ /\ Has(long, TE)]
    BY DEF SendSettled
  <1> HIDE DEF long, s
  <1>5. /\ Formed(tagged) /\ Same(long, tagged, {"headers"})
        /\ \A m : m # "etag" => /\ Has(tagged, m) <=> Has(long, m)
                                /\ TextsOf(tagged, m) = TextsOf(long, m)
    BY <1>4, PutFormed DEF Tagged, Same
  <1>6. fresh = IF IsFresh(q, tagged) THEN Status(tagged, 304) ELSE tagged
    BY DEF TaggedThenFresh, IfFresh
  <1> HIDE DEF tagged, fresh
  <1>7. /\ Formed(fresh) /\ Same(tagged, fresh, {"statusCode"})
        /\ fresh.headers = tagged.headers
        /\ fresh.statusCode = IF IsFresh(q, tagged) THEN 304 ELSE tagged.statusCode
    <2>1. CASE IsFresh(q, tagged)
      <3>1. /\ Near(tagged, fresh) /\ fresh.headers = tagged.headers
            /\ Same(tagged, fresh, {"statusCode", "threw"})
            /\ fresh.threw = tagged.threw /\ fresh.statusCode = 304
        BY <1>5, <1>6, <2>1, StatusNear
      <3> QED BY <2>1, <3>1 DEF Near, Same
    <2>2. CASE ~IsFresh(q, tagged)
      BY <1>5, <1>6, <2>2 DEF Same
    <2> QED BY <2>1, <2>2
  <1>8. /\ Shaped(s) /\ s.sent = TRUE /\ s.own = (fresh.own /\ Has(long, TE))
        /\ Same(fresh, s, {"sent", "own"})
    BY <1>7, <1>23 DEF Formed, Shaped, Same, Fields
  <1>9. Same(r, s, {"headers", "statusCode", "sent", "own"})
    BY <1>3, <1>4, <1>5, <1>7, <1>8 DEF Same
  <1>10. /\ fresh.own = r.own /\ tagged.statusCode = r.statusCode
         /\ s.headers = tagged.headers /\ s.statusCode = fresh.statusCode
         /\ tagged.method = r.method /\ s.method = r.method
    BY <1>3, <1>4, <1>5, <1>7, <1>8, <1>9 DEF Same, Fields
  <1>11. Listed(s) /\ \A m : (Has(s, m) <=> Has(tagged, m)) /\ TextsOf(s, m) = TextsOf(tagged, m)
    BY <1>5, <1>10 DEF Formed, Listed, Has, TextsOf, At
  <1>12. \A f \in Flags : s[f] \in BOOLEAN
    <2>1. \A f \in Flags \ {"sent", "own"} : s[f] = fresh[f]
      BY <1>8 DEF Same, Fields, Flags
    <2>2. s.own \in BOOLEAN
      BY <1>0, <1>8, <1>10
    <2> QED BY <1>7, <1>8, <2>1, <2>2 DEF Formed
  <1>13. Formed(s)
    BY <1>8, <1>11, <1>12 DEF Formed
  <1>14. /\ Known(q, s) => s.statusCode \notin 200 .. 299
         /\ s.statusCode = 304 => Known(q, s) \/ 304 \in Codes
    <2>1. Known(q, s) <=> Known(q, tagged)
      BY <1>10, <1>11 DEF Known
    <2>2. IsFresh(q, tagged) <=> Known(q, tagged) /\ tagged.statusCode \in 200 .. 299 \cup {304}
      BY DEF IsFresh, Known
    <2>3. r.statusCode = 304 => 304 \in Codes
      BY DEF Good
    <2> QED BY <1>7, <1>10, <2>1, <2>2, <2>3
  <1>15. /\ ~s.own /\ Has(long, TE) => ~Has(s, CL)
         /\ ~Has(long, TE) => Has(s, CL) /\ TextsOf(s, CL) = <<<<n>>>>
         /\ Has(s, TE) <=> Has(long, TE)
    <2>4. Has(s, TE) <=> Has(long, TE)
      BY <1>5, <1>11
    <2>1. Has(s, CL) <=> Has(long, CL)
      BY <1>5, <1>11
    <2>2. TextsOf(s, CL) = TextsOf(long, CL)
      BY <1>5, <1>11
    <2>3. ~r.own => ~Has(r, CL)
      BY <1>2 DEF Good
    <2> QED BY <1>3, <1>4, <1>8, <1>10, <2>1, <2>2, <2>3, <2>4
  <1>16. /\ Formed(t) /\ Same(s, t, {"headers"}) /\ (Has(t, "etag") <=> Has(s, "etag"))
         /\ TextsOf(t, "etag") = TextsOf(s, "etag")
         /\ s.statusCode = 304 => \A m \in Describing : ~Has(t, m)
         /\ \/ s.statusCode \in {204, 304} /\ ~Has(t, CL)
            \/ Has(t, TE) /\ (s.own \/ ~Has(t, CL))
            \/ ~Has(t, TE) /\ Has(t, CL) /\ TextsOf(t, CL) = <<<<size>>>>
    <2>1. CASE s.statusCode \in {204, 304}
      <3>1. t = Without(s, Describing)
        BY <2>1 DEF SendLeft, DropDescribing
      <3> HIDE DEF t
      <3>2. /\ Formed(t) /\ Same(s, t, {"headers"}) /\ \A m \in Describing : ~Has(t, m)
            /\ \A m : m \notin Describing => (Has(t, m) <=> Has(s, m))
                                             /\ TextsOf(t, m) = TextsOf(s, m)
        BY <1>13, <3>1, WithoutFormed
      <3> QED BY <2>1, <3>2 DEF Describing
    <2>2. CASE s.statusCode = 205
      <3> DEFINE p == Put(s, CL, << << 0 >> >>)
      <3>1. t = Without(p, {TE}) /\ size = 0
        BY <2>2 DEF SendLeft, SendSize
      <3>2. /\ Formed(p) /\ Same(s, p, {"headers"}) /\ Has(p, CL) /\ TextsOf(p, CL) = << << 0 >> >>
            /\ \A m : m # CL => (Has(p, m) <=> Has(s, m)) /\ TextsOf(p, m) = TextsOf(s, m)
        BY <1>13, PutFormed
      <3> HIDE DEF t, p, size
      <3>3. /\ Formed(t) /\ Same(p, t, {"headers"}) /\ ~Has(t, TE)
            /\ \A m : m # TE => (Has(t, m) <=> Has(p, m)) /\ TextsOf(t, m) = TextsOf(p, m)
        BY <3>1, <3>2, WithoutFormed
      <3>4. Same(s, t, {"headers"})
        BY <3>2, <3>3 DEF Same
      <3> QED BY <2>2, <3>1, <3>2, <3>3, <3>4
    <2>3. CASE s.statusCode \notin {204, 205, 304}
      <3>1. t = s /\ size = n
        BY <2>3 DEF SendLeft, SendSize
      <3> HIDE DEF t, size
      <3>2. Same(s, t, {"headers"})
        BY <3>1 DEF Same
      <3>3. \/ Has(s, TE) /\ (s.own \/ ~Has(s, CL))
            \/ ~Has(s, TE) /\ Has(s, CL) /\ TextsOf(s, CL) = <<<<size>>>>
        BY <1>15, <3>1
      <3> QED BY <1>13, <2>3, <3>1, <3>2, <3>3
    <2> QED BY <2>1, <2>2, <2>3
  <1>17. size \in Nat
    BY DEF SendSize
  <1> HIDE DEF t, size
  <1>18. ASSUME NEW v, Formed(v), Same(s, v, {"headers"}), TextsOf(v, "etag") = TextsOf(s, "etag"),
                s.statusCode = 304 => \A m \in Describing : ~Has(v, m),
                NEW k, r.hasBody /\ ~s.own /\ k = 0 /\ Has(v, CL) => TextsOf(v, CL) = << << 0 >> >>
         PROVE  Ready(q, v, k)
    <2>1. Same(r, v, {"headers", "statusCode", "sent", "own"})
      BY <1>9, <1>18 DEF Same
    <2>2. /\ v.hasBody = r.hasBody /\ v.method = r.method /\ v.headersSent = r.headersSent
          /\ v.headOut = r.headOut /\ v.finished = r.finished /\ v.early = r.early
          /\ v.bytes = r.bytes /\ v.framing = r.framing
          /\ v.statusCode = s.statusCode /\ v.own = s.own
      BY <1>18, <2>1 DEF Same, Fields
    <2>3. InShape(q, v)
      BY <1>18, <2>2 DEF Good, InShape, Formed
    <2>4. Known(q, v) <=> Known(q, s)
      BY <1>10, <1>18, <2>2 DEF Known
    <2>5. Verdict(q, v, v.statusCode)
      BY <1>14, <1>18, <2>2, <2>4 DEF Verdict
    <2> QED BY <1>2, <1>18, <2>2, <2>3, <2>5 DEF Ready
  <1>19. Same(r, t, {"headers", "statusCode", "sent", "own"})
    BY <1>9, <1>16 DEF Same
  <1>20. /\ t.statusCode = s.statusCode /\ t.own = s.own /\ t.hasBody = r.hasBody
    BY <1>16, <1>19 DEF Same, Fields
  <1>21. Ready(q, t, size)
    BY <1>16, <1>18
  <1>22. ASSUME ~r.hasBody PROVE Ready(q, u, 0)
    <2>1. CASE t.statusCode \in {204, 304} \/ Has(t, TE)
      <3>1. u = t
        BY <2>1 DEF SendHead
      <3> QED BY <1>16, <1>18, <1>22, <3>1
    <2>2. CASE ~(t.statusCode \in {204, 304} \/ Has(t, TE))
      <3>1. u = Put(t, CL, <<<<size>>>>)
        BY <2>2 DEF SendHead
      <3> HIDE DEF u
      <3>2. /\ Formed(u) /\ Same(t, u, {"headers"}) /\ TextsOf(u, "etag") = TextsOf(t, "etag")
        BY <1>16, <3>1, PutFormed
      <3>3. Same(s, u, {"headers"})
        BY <1>16, <3>2 DEF Same
      <3> QED BY <1>16, <1>18, <1>20, <1>22, <2>2, <3>2, <3>3
    <2> QED BY <2>1, <2>2
  <1> HIDE DEF u
  <1> QED BY <1>16, <1>17, <1>19, <1>20, <1>21, <1>22 DEF t, size, u, s

LEMMA SendBodyGood ==
  ASSUME NEW q \in RequestType, NEW r, Good(q, r), NEW kind, NEW n \in Nat
  PROVE  Good(q, SendBody(q, r, kind, n))
  <1>1. CASE r.headersSent
    BY <1>1, GoodIsFormed, ThrowCalm, CalmGood, Zenon DEF SendBody, Throws
  <1>2. CASE ~r.headersSent
    <2> DEFINE s == SendSettled(q, r, kind, n)
               t == SendLeft(s)
               size == SendSize(s, n)
               u == SendHead(t, size)
    <2>1. SendBody(q, r, kind, n) = IF r.method = "HEAD" THEN ResEnd(q, u, 0)
                                    ELSE ResEnd(q, t, size)
      BY <1>2, SendBodyIs
    <2>2. size \in Nat /\ Ready(q, t, size) /\ (~r.hasBody => Ready(q, u, 0))
      BY <1>2, SendBodyReady
    <2> HIDE DEF t, size, u
    <2>3. r.method = "HEAD" => ~r.hasBody
      BY DEF Good, InShape, RequestType, Flags
    <2> QED BY <2>1, <2>2, <2>3, EndFacts
  <1> QED BY <1>1, <1>2

LEMMA JsonGood ==
  ASSUME NEW q \in RequestType, NEW r, Good(q, r), NEW kind, NEW n \in Nat
  PROVE  Good(q, Json(q, r, kind, n))
  <1> DEFINE bare == ~HasType(r)
             typed == IF bare THEN Put(r, "content-type", <<<<"json", "utf-8">>>>) ELSE r
  <1>0. Formed(r)
    BY GoodIsFormed
  <1>1. CASE kind = "unserialisable" \/ (bare /\ r.headersSent)
    BY <1>0, <1>1, ThrowCalm, CalmGood, Zenon DEF Json, Throws
  <1>2. CASE ~(kind = "unserialisable" \/ (bare /\ r.headersSent))
    <2>1. Calm(r, typed)
      BY <1>0, <1>2, PutCalm, CalmSame
    <2>2. Good(q, typed)
      BY <2>1, CalmGood
    <2> HIDE DEF typed
    <2>3. Json(q, r, kind, n) \in {SendUndefined(q, typed), SendBody(q, typed, "text", n)}
      BY <1>2, Zenon DEF Json, typed
    <2> QED BY <2>2, <2>3, SendUndefinedGood, SendBodyGood
  <1> QED BY <1>1, <1>2

LEMMA JsonpGood ==
  ASSUME NEW q \in RequestType, NEW r, Good(q, r), NEW callback, NEW n \in Nat
  PROVE  Good(q, Jsonp(q, r, callback, n))
  <1> DEFINE T == <<<<IF callback THEN "javascript" ELSE "json", "utf-8">>>>
             v == Put(r, "x-content-type-options", <<<<"nosniff">>>>)
             typed == IF callback \/ ~HasType(r) THEN Put(v, "content-type", T) ELSE r
  <1>0. Formed(r)
    BY GoodIsFormed
  <1>1. CASE r.headersSent /\ (callback \/ ~HasType(r))
    BY <1>0, <1>1, ThrowCalm, CalmGood, Zenon DEF Jsonp, Throws
  <1>2. CASE ~(r.headersSent /\ (callback \/ ~HasType(r)))
    <2>1. Good(q, typed)
      <3>1. CASE callback \/ ~HasType(r)
        <4> HIDE DEF T
        <4>1. Calm(r, v) /\ ~r.headersSent
          BY <1>0, <1>2, <3>1, PutCalm
        <4> HIDE DEF v
        <4>2. Formed(v) /\ ~v.headersSent
          BY <4>1 DEF Calm, Near, Same, Fields
        <4>3. Calm(v, Put(v, "content-type", T))
          BY <4>2, PutCalm
        <4> QED BY <3>1, <4>1, <4>3, CalmTwice, CalmGood
      <3>2. CASE ~(callback \/ ~HasType(r))
        BY <3>2
      <3> QED BY <3>1, <3>2
    <2>2. Jsonp(q, r, callback, n) = SendBody(q, typed, "text", n)
      BY <1>2, Zenon DEF Jsonp
    <2> HIDE DEF typed
    <2> QED BY <2>1, <2>2, SendBodyGood
  <1> QED BY <1>1, <1>2

LEMMA SendGood ==
  ASSUME NEW q \in RequestType, NEW r, Good(q, r), NEW kind, NEW n \in Nat
  PROVE  Good(q, ResSend(q, r, kind, n))
  <1>1. ResSend(q, r, kind, n) \in {SendUndefined(q, r), Throws(r), Json(q, r, kind, n),
                                    SendBody(q, r, kind, n)}
    BY Zenon DEF ResSend
  <1>2. Good(q, Throws(r))
    BY GoodIsFormed, ThrowCalm, CalmGood DEF Throws
  <1> QED BY <1>1, <1>2, SendUndefinedGood, JsonGood, SendBodyGood

LEMMA SetTypeCalm ==
  ASSUME NEW r, Formed(r), NEW t
  PROVE  /\ Calm(r, SetType(r, t))
         /\ ~r.headersSent => SetType(r, t).threw = r.threw
  BY SetHeaderCalm DEF SetType

LEMMA SendStatusGood ==
  ASSUME NEW q \in RequestType, NEW r, Good(q, r), NEW c \in Codes
  PROVE  Good(q, SendStatus(q, r, c))
  <1> DEFINE s == Status(r, c)
             t == Then(s, SetType(s, <<"text", "none">>))
  <1>1. Calm(r, s)
    BY GoodIsFormed, StatusCalm
  <1>2. Formed(s) /\ Good(q, s)
    BY <1>1, CalmGood DEF Calm, Near
  <1> HIDE DEF s
  <1>3. Good(q, t)
    BY <1>2, SetTypeCalm, CalmGood DEF Then
  <1> HIDE DEF t
  <1>4. SendStatus(q, r, c) \in {t, SendBody(q, t, "text", 2)}
    BY Zenon DEF SendStatus, Then, s, t
  <1> QED BY <1>3, <1>4, SendBodyGood

\* redirect(), step by step: with the location, the status and the vary, with the
\* type, and with the length.
\* The parts of Redirect.
RedirectVaried(r, c) == LET s == Status(Location(r), c) IN Then(s, Vary(s))
RedirectTyped(q, r, c) ==
    LET v == RedirectVaried(r, c)
    IN  IF v.threw \/ q.accepts = "other" THEN v ELSE SetType(v, <<q.accepts, "utf-8">>)
RedirectSize(q) == CASE q.accepts = "text" -> 2 [] q.accepts = "html" -> 3 [] OTHER -> 0
RedirectSettled(q, r, c) ==
    LET t == RedirectTyped(q, r, c)
    IN  [SetHeader(t, "content-length", <<<<RedirectSize(q)>>>>)
            EXCEPT !.own = @ /\ t.headersSent]

LEMMA RedirectIs ==
  ASSUME NEW q \in RequestType, NEW r, Good(q, r), ~r.threw, NEW c, c \in 100 .. 999
  PROVE  /\ r.headersSent => /\ Redirect(q, r, c) = RedirectVaried(r, c)
                             /\ Calm(r, RedirectVaried(r, c))
         /\ ~r.headersSent =>
              LET w == RedirectSettled(q, r, c)
                  n == RedirectSize(q)
                  k == IF r.method = "HEAD" THEN 0 ELSE n
              IN  /\ Redirect(q, r, c) = ResEnd(q, w, k) /\ Ready(q, w, k)
                  /\ k \in Nat /\ Formed(RedirectTyped(q, r, c)) /\ Formed(w)
                  /\ Same(r, w, {"headers", "statusCode", "threw", "own"})
                  /\ Has(w, "content-length") /\ TextsOf(w, "content-length") = <<<<n>>>>
  <1> DEFINE CL == "content-length"
             a == Location(r)
             s == Status(a, c)
             v == RedirectVaried(r, c)
             t == RedirectTyped(q, r, c)
             n == RedirectSize(q)
             p == SetHeader(t, CL, <<<<n>>>>)
             l == Then(t, [p EXCEPT !.own = @ /\ t.headersSent])
             k == IF r.method = "HEAD" THEN 0 ELSE n
  <1>0. Redirect(q, r, c) = Then(l, ResEnd(q, l, k))
    BY DEF Redirect, RedirectVaried, RedirectTyped, RedirectSize
  <1>00. Formed(r) /\ r.headersSent \in BOOLEAN
    BY GoodIsFormed DEF Formed, Flags
  <1>1. Near(r, a) /\ a.threw = r.threw
    BY <1>00, PutCalm DEF Location, Calm
  <1> HIDE DEF a
  <1>2. Near(a, s) /\ s.threw = a.threw
    BY <1>1, StatusNear DEF Near
  <1> HIDE DEF s
  <1>3. Near(r, s) /\ s.threw = r.threw
    BY <1>1, <1>2, NearTwice
  <1>4. v = Vary(s)
    BY <1>3 DEF Then, RedirectVaried, s, a
  <1>9. t = IF v.threw \/ q.accepts = "other" THEN v ELSE SetType(v, <<q.accepts, "utf-8">>)
    BY DEF RedirectTyped
  <1>10. RedirectSettled(q, r, c) = [p EXCEPT !.own = @ /\ t.headersSent]
    BY DEF RedirectSettled
  <1> HIDE DEF v, t
  <1>5. Near(s, v) /\ v.threw = IF s.headersSent THEN TRUE ELSE s.threw
    BY <1>3, <1>4, SetHeaderCalm DEF Vary, Near, Calm
  <1>6. Near(r, v) /\ v.headersSent = r.headersSent /\ s.headersSent = r.headersSent
    <2>1. Near(r, v)
      BY <1>3, <1>5, NearTwice
    <2> QED BY <1>3, <2>1 DEF Near, Same, Fields
  <1>7. CASE r.headersSent
    <2>1. v.threw
      BY <1>5, <1>6, <1>7
    <2>2. t = v
      BY <2>1, <1>9
    <2>3. l = t
      BY <2>1, <2>2 DEF Then
    <2>4. Then(l, ResEnd(q, l, k)) = v
      BY <2>1, <2>2, <2>3 DEF Then
    <2>5. Calm(r, v)
      BY <1>6, <1>7 DEF Calm
    <2> QED BY <1>0, <1>7, <2>4, <2>5 DEF v
  <1>8. CASE ~r.headersSent
    <2>0. n \in Nat
      BY DEF RedirectSize
    <2> HIDE DEF n
    <2>1. Near(r, t) /\ ~t.threw /\ ~t.headersSent
      <3>1. ~v.threw
        BY <1>3, <1>5, <1>6, <1>8
      <3>2. Near(v, t) /\ ~t.threw
        <4>1. CASE q.accepts = "other"
          BY <1>6, <1>9, <3>1, <4>1, CalmSame DEF Near, Calm
        <4>2. CASE q.accepts # "other"
          <5>1. t = SetType(v, <<q.accepts, "utf-8">>)
            BY <1>9, <3>1, <4>2
          <5> QED BY <1>6, <1>8, <3>1, <5>1, SetTypeCalm DEF Near, Calm
        <4> QED BY <4>1, <4>2
      <3>3. Near(r, t)
        BY <1>6, <3>2, NearTwice
      <3> QED BY <1>8, <3>2, <3>3 DEF Near, Same, Fields
    <2>2. ~r.finished /\ Formed(t)
      BY <1>8, <2>1 DEF Good, InShape, Near
    <2>3. p = Put(t, CL, <<<<n>>>>)
      BY <2>1 DEF SetHeader
    <2> HIDE DEF p
    <2>4. /\ Formed(p) /\ Same(t, p, {"headers"}) /\ Has(p, CL) /\ TextsOf(p, CL) = <<<<n>>>>
      BY <2>2, <2>3, PutFormed
    <2> DEFINE w == [p EXCEPT !.own = @ /\ t.headersSent]
    <2>5. l = w
      BY <2>1 DEF Then
    <2> HIDE DEF l
    <2>6. /\ Shaped(w) /\ Same(p, w, {"own"}) /\ w.own = FALSE
      <3>1. p.own \in BOOLEAN
        BY <2>4 DEF Formed, Flags
      <3> QED BY <2>1, <2>4, <3>1 DEF Formed, Shaped, Same, Fields
    <2> HIDE DEF w
    <2>7. /\ w.headers = p.headers /\ w.threw = t.threw
          /\ \A f \in Flags \ {"own"} : w[f] = p[f]
      BY <2>4, <2>6 DEF Same, Fields, Flags
    <2>8. Formed(w)
      <3>1. Listed(w)
        BY <2>4, <2>7 DEF Formed, Listed
      <3>2. \A f \in Flags : w[f] \in BOOLEAN
        BY <2>4, <2>6, <2>7 DEF Formed
      <3> QED BY <2>6, <3>1, <3>2 DEF Formed
    <2>9. Has(w, CL) /\ TextsOf(w, CL) = <<<<n>>>>
      BY <2>4, <2>7 DEF TextsOf, Has, At
    <2>10. Same(r, w, {"headers", "statusCode", "threw", "own"})
      BY <2>1, <2>4, <2>6 DEF Near, Same
    <2>11. /\ w.hasBody = r.hasBody /\ w.method = r.method /\ w.headersSent = r.headersSent
           /\ w.headOut = r.headOut /\ w.finished = r.finished /\ w.early = r.early
           /\ w.sent = r.sent /\ w.bytes = r.bytes /\ w.framing = r.framing
      BY <2>10 DEF Same, Fields
    <2>12. InShape(q, w)
      BY <2>8, <2>11 DEF Good, InShape, Formed
    <2>13. r.hasBody => r.method # "HEAD"
      BY DEF Good, InShape, RequestType
    <2>14. k \in Nat /\ (r.hasBody => k = n)
      BY <2>0, <2>13
    <2> HIDE DEF k
    <2>15. Ready(q, w, k)
      BY <2>2, <2>9, <2>11, <2>12, <2>14 DEF Ready, Good
    <2>16. Redirect(q, r, c) = ResEnd(q, w, k)
      BY <1>0, <2>1, <2>5, <2>7 DEF Then
    <2> QED BY <1>8, <1>10, <2>2, <2>8, <2>9, <2>10, <2>14, <2>15, <2>16 DEF w, t, n, k
  <1> QED BY <1>00, <1>7, <1>8

LEMMA RedirectGood ==
  ASSUME NEW q \in RequestType, NEW r, Good(q, r), ~r.threw, NEW c, c \in 100 .. 999
  PROVE  Good(q, Redirect(q, r, c))
  <1> DEFINE v == RedirectVaried(r, c)
             w == RedirectSettled(q, r, c)
             k == IF r.method = "HEAD" THEN 0 ELSE RedirectSize(q)
  <1>1. CASE r.headersSent
    <2>1. Redirect(q, r, c) = v /\ Calm(r, v)
      BY <1>1, RedirectIs
    <2> QED BY <2>1, CalmGood
  <1>2. CASE ~r.headersSent
    <2>1. Redirect(q, r, c) = ResEnd(q, w, k) /\ Ready(q, w, k) /\ k \in Nat
      BY <1>2, RedirectIs
    <2> HIDE DEF w, k
    <2> QED BY <2>1, EndFacts
  <1> QED BY <1>1, <1>2

-----------------------------------------------------------------------------
\* What is true of both responses.
AnswerInv == asked \in RequestType /\ Good(asked, get) /\ Good(asked, head)

LEMMA FreshGood ==
  ASSUME NEW q \in RequestType, NEW isHead \in BOOLEAN
  PROVE  Good(q, Fresh(q, isHead))
  <1> DEFINE seeds == IF q.shim \/ ~q.connectionHeaders THEN <<>>
                      ELSE <<Entry("connection", <<Lasting>>),
                             Entry("keep-alive", <<SeededKeepAlive>>)>>
             r == [headers |-> seeds, hasBody |-> ~isHead,
              method |-> IF isHead THEN "HEAD" ELSE q.method,
              statusCode |-> 200, status |-> 200, phrase |-> "none",
              wirePhrase |-> "none", headersSent |-> FALSE, headOut |-> FALSE,
              chunked |-> TRUE, userChunked |-> FALSE, finished |-> FALSE,
              lines |-> <<>>, framing |-> "none", length |-> 0, bytes |-> 0,
              settled |-> <<>>, early |-> FALSE, own |-> FALSE, sent |-> FALSE,
              threw |-> FALSE]
             w == Fresh(q, isHead)
  <1>1. /\ \E X : seeds \in Seq(X)
        /\ \A i, j \in DOMAIN seeds : seeds[i].name = seeds[j].name => i = j
        /\ \A i \in DOMAIN seeds : seeds[i].name # "content-length"
    <2>1. CASE q.shim \/ ~q.connectionHeaders
      <3>1. seeds = <<>> /\ <<>> \in Seq({}) /\ DOMAIN <<>> = {}
        BY <2>1
      <3> QED BY <3>1
    <2>2. CASE ~(q.shim \/ ~q.connectionHeaders)
      <3> DEFINE A == Entry("connection", <<Lasting>>)
                 B == Entry("keep-alive", <<SeededKeepAlive>>)
      <3>1. A.name = "connection" /\ B.name = "keep-alive"
        BY DEF Entry
      <3>2. seeds = <<A, B>>
        BY <2>2
      <3> HIDE DEF A, B, seeds
      <3>3. seeds \in Seq({A, B}) /\ DOMAIN seeds = {1, 2} /\ seeds[1] = A /\ seeds[2] = B
        BY <3>2
      <3> QED BY <3>1, <3>3
    <2> QED BY <2>1, <2>2
  <1> HIDE DEF seeds
  <1>2. /\ Shaped(r) /\ r.headers = seeds /\ \A f \in Flags : r[f] \in BOOLEAN
        /\ r.method = (IF r.hasBody THEN q.method ELSE "HEAD") /\ r.statusCode = 200
        /\ r.finished = FALSE /\ r.headOut = FALSE /\ r.headersSent = FALSE
        /\ r.early = FALSE /\ r.sent = FALSE /\ r.bytes = 0 /\ r.framing = "none"
    <2>1. Shaped(r)
      BY DEF Shaped, Fields
    <2>2. /\ r.headers = seeds /\ r.hasBody = (~isHead) /\ r.statusCode = 200
          /\ r.method = (IF isHead THEN "HEAD" ELSE q.method)
          /\ r.finished = FALSE /\ r.headOut = FALSE /\ r.headersSent = FALSE
          /\ r.early = FALSE /\ r.sent = FALSE /\ r.bytes = 0 /\ r.framing = "none"
          /\ r.chunked = TRUE /\ r.userChunked = FALSE /\ r.own = FALSE /\ r.threw = FALSE
      OBVIOUS
    <2> HIDE DEF r
    <2>3. r.hasBody = TRUE \/ r.hasBody = FALSE
      BY <2>2
    <2>4. \A f \in Flags : r[f] \in BOOLEAN
      BY <2>2, <2>3 DEF Flags
    <2> QED BY <2>1, <2>2, <2>4
  <1>3. w = IF q.close THEN Put(r, "connection", <<CloseText>>) ELSE r
    BY DEF Fresh, seeds
  <1> HIDE DEF w, r
  <1>4. Listed(r) /\ ~Has(r, "content-length")
    BY <1>1, <1>2 DEF Listed, Has
  <1>5. Good(q, r)
    BY <1>2, <1>4 DEF Good, InShape, FitsOne, Judged
  <1>6. Calm(r, w)
    BY <1>2, <1>3, <1>5, GoodIsFormed, PutCalm, CalmSame
  <1> QED BY <1>5, <1>6, CalmGood DEF w

LEMMA CaughtGood ==
  ASSUME NEW q, NEW r, Good(q, r)
  PROVE  /\ Good(q, [r EXCEPT !.threw = FALSE])
         /\ ~[r EXCEPT !.threw = FALSE].threw
  BY GoodIsFormed, ThrowCalm, CalmGood

LEMMA AnswerStep == AnswerInv /\ ResNext => AnswerInv'
  <1> SUFFICES ASSUME AnswerInv, ResNext PROVE AnswerInv'
    OBVIOUS
  <1> DEFINE g == [get EXCEPT !.threw = FALSE]
             h == [head EXCEPT !.threw = FALSE]
  <1>0. /\ asked \in RequestType /\ BodySizes \subseteq Nat /\ 0 \in Nat
        /\ "content-length" \notin Names
    BY AnswerAssumption DEF AnswerInv
  <1>1. /\ Good(asked, g) /\ ~g.threw /\ Good(asked, h) /\ ~h.threw
    BY CaughtGood DEF AnswerInv
  <1>2. Formed(g) /\ Formed(h)
    BY <1>1, GoodIsFormed
  <1>3. SUFFICES asked' = asked /\ Good(asked, get') /\ Good(asked, head')
    BY <1>0 DEF AnswerInv
  <1> HIDE DEF g, h
  <1>4. CASE CallStatus
    <2>1. PICK c \in Codes \cup {0} : get' = Status(g, c) /\ head' = Status(h, c) /\ asked' = asked
      BY <1>4 DEF CallStatus, Calls, g, h
    <2>2. c = 304 => 304 \in Codes
      OBVIOUS
    <2> QED BY <1>1, <1>2, <2>1, <2>2, StatusCalm, CalmGood
  <1>5. CASE CallSet \/ CallConnection \/ CallChunked
    <2>1. PICK n, t : /\ n # "content-length" /\ get' = SetHeader(g, n, t)
                      /\ head' = SetHeader(h, n, t) /\ asked' = asked
      BY <1>0, <1>5 DEF CallSet, CallConnection, CallChunked, Calls, g, h
    <2> QED BY <1>1, <1>2, <2>1, SetHeaderCalm, CalmGood
  <1>6. CASE CallType
    <2>1. PICK t : get' = SetType(g, t) /\ head' = SetType(h, t) /\ asked' = asked
      BY <1>6 DEF CallType, Calls, g, h
    <2> QED BY <1>1, <1>2, <2>1, SetTypeCalm, CalmGood
  <1>7. CASE CallAppend
    <2>1. PICK n \in Names : /\ get' = AppendHeader(g, n, <<"b">>)
                             /\ head' = AppendHeader(h, n, <<"b">>) /\ asked' = asked
      BY <1>7 DEF CallAppend, Calls, g, h
    <2> QED BY <1>0, <1>1, <1>2, <2>1, SetHeaderCalm, CalmGood DEF AppendHeader
  <1>8. CASE CallRemove
    <2>1. PICK n : get' = RemoveHeader(g, n) /\ head' = RemoveHeader(h, n) /\ asked' = asked
      BY <1>8 DEF CallRemove, Calls, g, h
    <2> QED BY <1>1, <1>2, <2>1, RemoveHeaderCalm, CalmGood
  <1>9. CASE CallRaw
    BY <1>1, <1>2, <1>9, RawCalm, CalmGood, Zenon DEF CallRaw, Calls, g, h
  <1>10. CASE CallLength
    <2>1. PICK t : /\ get' = [SetHeader(g, "content-length", t) EXCEPT !.own = TRUE]
                   /\ head' = [SetHeader(h, "content-length", t) EXCEPT !.own = TRUE]
                   /\ asked' = asked
      BY <1>10 DEF CallLength, Calls, g, h
    <2> QED BY <1>1, <1>2, <2>1, LengthCalm, CalmGood
  <1>11. CASE CallWriteHead
    <2>1. PICK c \in Codes, p \in {"none", "own"} : /\ get' = ResWriteHead(g, c, p, SetHeader(g, "x-head", <<<<"a">>>>))
                                /\ head' = ResWriteHead(h, c, p, SetHeader(h, "x-head", <<<<"a">>>>))
                                /\ asked' = asked
      BY <1>11 DEF CallWriteHead, Calls, g, h
    <2> QED BY <1>1, <2>1, WriteHeadGood
  <1>12. CASE CallFlush
    BY <1>1, <1>12, FlushGood DEF CallFlush, Calls, g, h
  <1>13. CASE CallWrite
    <2>1. PICK n : get' = ResWrite(asked, g, n) /\ head' = ResWrite(asked, h, n) /\ asked' = asked
      BY <1>13 DEF CallWrite, Calls, g, h
    <2> QED BY <1>1, <2>1, WriteGood
  <1>14. CASE CallLocation
    <2>1. get' = Location(g) /\ head' = Location(h) /\ asked' = asked
      BY <1>14 DEF CallLocation, Calls, g, h
    <2> QED BY <1>1, <1>2, <2>1, PutCalm, CalmGood DEF Location
  <1>15. CASE CallVary
    <2>1. get' = Vary(g) /\ head' = Vary(h) /\ asked' = asked
      BY <1>15 DEF CallVary, Calls, g, h
    <2> QED BY <1>1, <1>2, <2>1, SetHeaderCalm, CalmGood DEF Vary
  <1>16. CASE CallEnd
    <2>1. PICK n \in Nat : get' = ResEnd(asked, g, n) /\ head' = ResEnd(asked, h, n) /\ asked' = asked
      BY <1>0, <1>16 DEF CallEnd, Calls, g, h
    <2> QED BY <1>1, <2>1, EndGood
  <1>17. CASE CallSend
    <2>1. PICK k \in {"text", "bytes", "null", "undefined", "object", "unserialisable"},
               n \in BodySizes :
              /\ get' = ResSend(asked, g, k, IF k = "null" THEN 0 ELSE n)
              /\ head' = ResSend(asked, h, k, IF k = "null" THEN 0 ELSE n) /\ asked' = asked
      BY <1>17 DEF CallSend, Calls, g, h
    <2>2. (IF k = "null" THEN 0 ELSE n) \in Nat
      BY <1>0
    <2> QED BY <1>0, <1>1, <2>1, <2>2, SendGood
  <1>18. CASE CallJson
    <2>1. PICK k \in {"object", "undefined", "unserialisable"}, n \in BodySizes :
              /\ get' = Json(asked, g, k, n) /\ head' = Json(asked, h, k, n) /\ asked' = asked
      BY <1>18 DEF CallJson, Calls, g, h
    <2> QED BY <1>0, <1>1, <2>1, JsonGood
  <1>19. CASE CallJsonp
    <2>1. PICK c \in BOOLEAN, n \in BodySizes :
              /\ get' = Jsonp(asked, g, c, n) /\ head' = Jsonp(asked, h, c, n) /\ asked' = asked
      BY <1>19 DEF CallJsonp, Calls, g, h
    <2> QED BY <1>0, <1>1, <2>1, JsonpGood
  <1>20. CASE CallSendStatus
    <2>1. PICK c \in Codes :
              get' = SendStatus(asked, g, c) /\ head' = SendStatus(asked, h, c) /\ asked' = asked
      BY <1>20 DEF CallSendStatus, Calls, g, h
    <2> QED BY <1>0, <1>1, <2>1, SendStatusGood
  <1>21. CASE CallRedirect
    <2>1. PICK c \in {302, 304} :
              get' = Redirect(asked, g, c) /\ head' = Redirect(asked, h, c) /\ asked' = asked
      BY <1>21 DEF CallRedirect, Calls, g, h
    <2>2. c \in 100 .. 999
      OBVIOUS
    <2> QED BY <1>0, <1>1, <2>1, <2>2, RedirectGood
  <1> QED BY <1>4, <1>5, <1>6, <1>7, <1>8, <1>9, <1>10, <1>11, <1>12, <1>13, <1>14, <1>15, <1>16,
             <1>17, <1>18, <1>19, <1>20, <1>21 DEF ResNext

\* Of every program, whatever it calls and in whatever order: the answer fits its
\* head, and a tag the client named makes it a 304.
THEOREM AnswersFit == ResSpec => []AnswerFits
  <1>1. ResInit => AnswerInv
    BY AnswerAssumption, FreshGood DEF ResInit, AnswerInv
  <1>2. AnswerInv /\ [ResNext]_resVars => AnswerInv'
    <2>1. CASE UNCHANGED resVars
      BY <2>1 DEF resVars, AnswerInv
    <2> QED BY <2>1, AnswerStep
  <1>3. AnswerInv => AnswerFits
    <2> SUFFICES ASSUME AnswerInv PROVE BodyFits /\ Conditional
      BY DEF AnswerFits
    <2>1. \A r \in Both : FitsOne(r) /\ Judged(asked, r)
      BY DEF AnswerInv, Both, Good
    <2>2. BodyFits
      BY <2>1 DEF BodyFits, FitsOne
    <2>3. Conditional
      BY <2>1 DEF Conditional, Judged, Verdict, Known
    <2> QED BY <2>2, <2>3
  <1> QED BY <1>1, <1>2, <1>3, PTL DEF ResSpec

-----------------------------------------------------------------------------
(* The two responses side by side.  Until something ends them they differ   *)
(* in what they answer and in nothing else.                                *)

Twins(g, h) == Same(g, h, {"hasBody", "method"})

LEMMA TwinTexts ==
  ASSUME NEW g, NEW h, Twins(g, h)
  PROVE  /\ g.headers = h.headers
         /\ \A n : (Has(g, n) <=> Has(h, n)) /\ At(g, n) = At(h, n) /\ TextsOf(g, n) = TextsOf(h, n)
  <1>1. g.headers = h.headers
    BY DEF Twins, Same, Fields
  <1> QED BY <1>1 DEF Has, At, TextsOf

LEMMA TwinPut ==
  ASSUME NEW g, NEW h, Twins(g, h), Shaped(g), Shaped(h), NEW n, NEW t
  PROVE  Twins(Put(g, n, t), Put(h, n, t))
  <1>1. /\ g.headers = h.headers /\ At(g, n) = At(h, n) /\ (Has(g, n) <=> Has(h, n))
    BY TwinTexts
  <1> DEFINE X == IF Has(g, n) THEN [g.headers EXCEPT ![At(g, n)] = Entry(n, t)]
                  ELSE Append(g.headers, Entry(n, t))
  <1>2. Put(g, n, t) = [g EXCEPT !.headers = X] /\ Put(h, n, t) = [h EXCEPT !.headers = X]
    BY <1>1 DEF Put
  <1> HIDE DEF X
  <1> QED BY <1>2 DEF Twins, Shaped, Same, Fields

LEMMA TwinWithout ==
  ASSUME NEW g, NEW h, Twins(g, h), Shaped(g), Shaped(h), NEW names
  PROVE  Twins(Without(g, names), Without(h, names))
  <1>1. g.headers = h.headers
    BY TwinTexts
  <1> DEFINE X == (CHOOSE f : IsKeep(g.headers, names, f))[DOMAIN g.headers]
  <1>2. Without(g, names) = [g EXCEPT !.headers = X] /\ Without(h, names) = [h EXCEPT !.headers = X]
    BY <1>1, WithoutIsRec
  <1> HIDE DEF X
  <1> QED BY <1>2 DEF Twins, Shaped, Same, Fields

LEMMA TwinThrow ==
  ASSUME NEW g, NEW h, Twins(g, h), Shaped(g), Shaped(h)
  PROVE  /\ Twins(Throws(g), Throws(h))
         /\ Twins([g EXCEPT !.threw = FALSE], [h EXCEPT !.threw = FALSE])
  BY DEF Throws, Twins, Shaped, Same, Fields

LEMMA TwinSetHeader ==
  ASSUME NEW g, NEW h, Twins(g, h), Formed(g), Formed(h), NEW n, NEW t
  PROVE  Twins(SetHeader(g, n, t), SetHeader(h, n, t))
  <1>0. g.headersSent = h.headersSent /\ Shaped(g) /\ Shaped(h)
    BY DEF Twins, Same, Fields, Formed
  <1>1. TextsOf(g, "keep-alive") = TextsOf(h, "keep-alive")
    BY TwinTexts
  <1>2. CASE g.headersSent
    <2>1. SetHeader(g, n, t) = Throws(g) /\ SetHeader(h, n, t) = Throws(h)
      BY <1>0, <1>2, Zenon DEF SetHeader
    <2> QED BY <1>0, <2>1, TwinThrow
  <1>3. CASE ~g.headersSent /\ n = "connection" /\ TextsOf(g, "keep-alive") = <<SeededKeepAlive>>
    <2> DEFINE a == Without(g, {"keep-alive"})
               b == Without(h, {"keep-alive"})
    <2>1. SetHeader(g, n, t) = Put(a, n, t) /\ SetHeader(h, n, t) = Put(b, n, t)
      BY <1>0, <1>1, <1>3, Zenon DEF SetHeader
    <2>2. Twins(a, b) /\ Shaped(a) /\ Shaped(b)
      BY <1>0, TwinWithout, WithoutFormed DEF Formed
    <2> HIDE DEF a, b
    <2> QED BY <2>1, <2>2, TwinPut
  <1>4. CASE ~g.headersSent /\ ~(n = "connection" /\ TextsOf(g, "keep-alive") = <<SeededKeepAlive>>)
    <2>1. SetHeader(g, n, t) = Put(g, n, t) /\ SetHeader(h, n, t) = Put(h, n, t)
      BY <1>0, <1>1, <1>4, Zenon DEF SetHeader
    <2> QED BY <1>0, <2>1, TwinPut
  <1> QED BY <1>2, <1>3, <1>4

LEMMA TwinStatus ==
  ASSUME NEW g, NEW h, Twins(g, h), Shaped(g), Shaped(h), NEW c
  PROVE  Twins(Status(g, c), Status(h, c))
  <1>1. CASE c \in 100 .. 999
    <2>1. Status(g, c) = [g EXCEPT !.statusCode = c] /\ Status(h, c) = [h EXCEPT !.statusCode = c]
      BY <1>1 DEF Status
    <2> QED BY <2>1 DEF Twins, Shaped, Same, Fields
  <1>2. CASE c \notin 100 .. 999
    <2>1. Status(g, c) = Throws(g) /\ Status(h, c) = Throws(h)
      BY <1>2 DEF Status
    <2> QED BY <2>1, TwinThrow
  <1> QED BY <1>1, <1>2

LEMMA TwinRemoveHeader ==
  ASSUME NEW g, NEW h, Twins(g, h), Formed(g), Formed(h), NEW n
  PROVE  Twins(RemoveHeader(g, n), RemoveHeader(h, n))
  <1>0. g.headersSent = h.headersSent /\ Shaped(g) /\ Shaped(h)
    BY DEF Twins, Same, Fields, Formed
  <1> QED BY <1>0, TwinThrow, TwinWithout DEF RemoveHeader

LEMMA TwinAppendHeader ==
  ASSUME NEW g, NEW h, Twins(g, h), Formed(g), Formed(h), NEW n, NEW t
  PROVE  Twins(AppendHeader(g, n, t), AppendHeader(h, n, t))
  <1>1. TextsOf(g, n) = TextsOf(h, n)
    BY TwinTexts
  <1> QED BY <1>1, TwinSetHeader DEF AppendHeader

LEMMA TwinRaw ==
  ASSUME NEW g, NEW h, Twins(g, h), Shaped(g), Shaped(h), NEW X
  PROVE  Twins(IF g.headersSent \/ Has(g, "x-raw") THEN g
               ELSE [g EXCEPT !.headers = Append(@, X)],
               IF h.headersSent \/ Has(h, "x-raw") THEN h
               ELSE [h EXCEPT !.headers = Append(@, X)])
  <1>1. g.headersSent = h.headersSent /\ g.headers = h.headers /\ (Has(g, "x-raw") <=> Has(h, "x-raw"))
    BY TwinTexts DEF Twins, Same, Fields
  <1>2. Twins([g EXCEPT !.headers = Append(g.headers, X)], [h EXCEPT !.headers = Append(h.headers, X)])
    <2> DEFINE Y == Append(g.headers, X)
    <2>1. Y = Append(h.headers, X)
      BY <1>1
    <2> HIDE DEF Y
    <2>2. Twins([g EXCEPT !.headers = Y], [h EXCEPT !.headers = Y])
      BY DEF Twins, Shaped, Same, Fields
    <2> QED BY <2>1, <2>2 DEF Y
  <1> QED BY <1>1, <1>2

LEMMA TwinLength ==
  ASSUME NEW g, NEW h, Twins(g, h), Formed(g), Formed(h), NEW n, NEW t
  PROVE  Twins([SetHeader(g, n, t) EXCEPT !.own = TRUE], [SetHeader(h, n, t) EXCEPT !.own = TRUE])
  <1>0. Shaped(SetHeader(g, n, t)) /\ Shaped(SetHeader(h, n, t))
    <2>1. ASSUME NEW r, Formed(r) PROVE Shaped(SetHeader(r, n, t))
      <3>1. CASE r.headersSent
        BY <2>1, <3>1 DEF SetHeader, Throws, Formed, Shaped, Fields
      <3>2. CASE ~r.headersSent
        <4>1. \E a : Formed(a) /\ SetHeader(r, n, t) = Put(a, n, t)
          BY <2>1, <3>2, WithoutFormed, Zenon DEF SetHeader
        <4> QED BY <4>1, PutFormed DEF Formed
      <3> QED BY <3>1, <3>2
    <2> QED BY <2>1
  <1>1. Twins(SetHeader(g, n, t), SetHeader(h, n, t))
    BY TwinSetHeader
  <1> DEFINE a == SetHeader(g, n, t)
             b == SetHeader(h, n, t)
  <1> HIDE DEF a, b
  <1>2. Shaped(a) /\ Shaped(b) /\ Twins(a, b)
    BY <1>0, <1>1 DEF a, b
  <1>3. Twins([a EXCEPT !.own = TRUE], [b EXCEPT !.own = TRUE])
    BY <1>2 DEF Twins, Shaped, Same, Fields
  <1> QED BY <1>3 DEF a, b

LEMMA TwinWriteHead ==
  ASSUME NEW g, NEW h, Twins(g, h), Shaped(g), Shaped(h), NEW c, NEW p,
         NEW a, NEW b, Twins(a, b), Shaped(a), Shaped(b)
  PROVE  Twins(ResWriteHead(g, c, p, a), ResWriteHead(h, c, p, b))
  <1>1. g.headersSent = h.headersSent /\ a.headers = b.headers
    BY DEF Twins, Same, Fields
  <1>2. CASE g.headersSent
    BY <1>1, <1>2, TwinThrow DEF ResWriteHead
  <1>3. CASE ~g.headersSent
    <2> DEFINE X(s, hs) == [s EXCEPT !.statusCode = c, !.phrase = p, !.status = c,
                        !.wirePhrase = p, !.headersSent = TRUE, !.settled = hs]
    <2>1. /\ ResWriteHead(g, c, p, a) = X(a, a.headers)
          /\ ResWriteHead(h, c, p, b) = X(b, a.headers)
      BY <1>1, <1>3 DEF ResWriteHead
    <2>2. \A hs : Twins(X(a, hs), X(b, hs))
      BY DEF Twins, Shaped, Same, Fields
    <2> HIDE DEF X
    <2> QED BY <2>1, <2>2
  <1> QED BY <1>2, <1>3

\* The lines are those of the headers, but for the length.
LEMMA LinesOfHeaders ==
  ASSUME NEW q, NEW g, NEW h, g.headers = h.headers
  PROVE  LinesOf(q, g) = LinesOf(q, h)
  <1>1. Closing(g) = Closing(h)
    BY DEF Closing, TextsOf, Has, At
  <1> QED BY <1>1, Zenon DEF LinesOf

LEMMA LinesWithoutLength ==
  ASSUME NEW q, NEW r, Formed(r), Has(r, "content-length"), NEW t
  PROVE  LinesOf(q, Put(r, "content-length", t)) = LinesOf(q, r)
  <1> DEFINE CL == "content-length"
             w == Put(r, CL, t)
             TextLines(e) == [k \in DOMAIN e.texts |-> Line(e.name, e.texts[k], ~e.raw /\ ~q.shim)]
             Skipped(e, closing) == \/ e.name = CL \/ (e.name = "keep-alive" /\ closing)
                                    \/ (e.name = "transfer-encoding" /\ ~q.shim)
             Of(e, closing) == IF Skipped(e, closing) THEN <<>> ELSE TextLines(e)
             F(x) == [i \in DOMAIN x.headers |-> Of(x.headers[i], Closing(x))]
  <1>1. \A x : LinesOf(q, x) = FlattenSeq(F(x))
    BY DEF LinesOf
  <1>2. PICK X : r.headers \in Seq(X)
    BY DEF Formed, Listed
  <1>3. At(r, CL) \in DOMAIN r.headers /\ r.headers[At(r, CL)].name = CL
    BY DEF Has, At
  <1>4. w.headers = [r.headers EXCEPT ![At(r, CL)] = Entry(CL, t)]
    BY DEF Put, Formed, Shaped, Fields
  <1>5. /\ DOMAIN w.headers = DOMAIN r.headers
        /\ \A i \in DOMAIN r.headers : w.headers[i] = r.headers[i]
                                       \/ (r.headers[i].name = CL /\ w.headers[i].name = CL)
    BY <1>2, <1>3, <1>4 DEF Entry
  <1>6. Closing(w) <=> Closing(r)
    <2>1. TextsOf(w, "connection") = TextsOf(r, "connection")
      BY PutFormed
    <2> QED BY <2>1 DEF Closing
  <1>7. \A i \in DOMAIN r.headers : Of(w.headers[i], Closing(w)) = Of(r.headers[i], Closing(r))
    BY <1>5, <1>6
  <1> HIDE DEF Of, w
  <1>8. F(w) = F(r)
    BY <1>5, <1>7
  <1> HIDE DEF F
  <1> QED BY <1>1, <1>8 DEF w

\* What the end says of a response whose head was not out: which framing, and of
\* how much.
Tells(q, r, status, n, w) ==
    LET given == n = 0 /\ Has(r, "content-length")
        chunks == ~q.shim /\ Has(r, "transfer-encoding")
    IN  /\ w.lines = WrittenLines(LinesOf(q, r)) /\ w.userChunked = chunks
        /\ Bodiless(status) => w.framing = "none"
        /\ ~Bodiless(status) =>
            /\ given => w.framing = "length" /\ w.length = Announced(r)
            /\ ~given /\ chunks /\ r.hasBody /\ n > 0 => w.framing = "chunked" /\ w.bytes = n
            /\ ~given /\ chunks /\ ~r.hasBody => w.framing = "none"
            /\ ~given /\ (~chunks \/ (r.hasBody /\ n = 0)) => w.framing = "length" /\ w.length = n

LEMMA FinishTells ==
  ASSUME NEW q, q.shim \in BOOLEAN, NEW r, NEW n \in Nat, Formed(r), ~r.headOut, r.framing = "none",
         r.bytes = 0
  PROVE  Tells(q, r, r.status, n, ResFinish(q, r, n))
  <1> DEFINE CL == "content-length"
             chunks == ~q.shim /\ Has(r, "transfer-encoding")
             given == n = 0 /\ Has(r, CL)
             h == HeadOut(q, r)
             over == [h EXCEPT !.finished = TRUE]
             w == ResFinish(q, r, n)
  <1> SUFFICES Tells(q, r, r.status, n, w)
    OBVIOUS
  <1>1. /\ Shaped(h) /\ h.lines = WrittenLines(LinesOf(q, r)) /\ h.userChunked = chunks
        /\ Same(r, h, {"headersSent", "headOut", "lines", "chunked", "userChunked"})
    <2>1. h = WriteHeaders(q, r)
      BY DEF HeadOut
    <2> DEFINE L == WrittenLines(LinesOf(q, r))
               C == r.chunked /\ ~Has(r, CL)
    <2>2. h = [r EXCEPT !.headersSent = TRUE, !.headOut = TRUE, !.lines = L, !.chunked = C,
                        !.userChunked = chunks]
      BY <2>1 DEF WriteHeaders
    <2> HIDE DEF h, L, C, chunks
    <2>3. /\ Shaped(h) /\ h.lines = L /\ h.userChunked = chunks
          /\ Same(r, h, {"headersSent", "headOut", "lines", "chunked", "userChunked"})
      BY <2>2 DEF Formed, Shaped, Same, Fields
    <2> QED BY <2>3 DEF L
  <1> HIDE DEF h
  <1>2. /\ Shaped(over) /\ over.finished = TRUE /\ Same(h, over, {"finished"})
    BY <1>1 DEF Shaped, Same, Fields
  <1>3. /\ h.headers = r.headers /\ h.status = r.status /\ h.hasBody = r.hasBody
        /\ over.framing = "none" /\ over.bytes = 0 /\ over.headers = r.headers
        /\ over.lines = h.lines /\ over.userChunked = chunks
    BY <1>1, <1>2 DEF Same, Fields
  <1> HIDE DEF over
  <1>4. (Has(h, CL) <=> Has(r, CL)) /\ Announced(h) = Announced(r)
    BY <1>3 DEF Has, TextsOf, At, Announced
  <1> DEFINE NoBody == Bodiless(StatusOut(h))
             Given == n = 0 /\ Has(h, CL) /\ ~Bodiless(StatusOut(h))
             Cut == ~Bodiless(StatusOut(h)) /\ (n > 0 \/ ~Has(h, CL))
                      /\ ((r.headOut /\ h.chunked) \/ (h.userChunked /\ h.hasBody /\ n > 0))
  <1>5. w = CASE NoBody -> over
              [] Given -> Framed(over, "length", Announced(h))
              [] Cut -> (IF n = 0 THEN over ELSE Carry(Framed(over, "chunked", 0), n))
              [] OTHER ->
                   CASE ~h.hasBody /\ h.userChunked -> over
                     [] ~h.hasBody /\ ~h.userChunked -> HeadLength(over, n)
                     [] h.hasBody -> Carry(Framed(over, "length", n), n)
    BY Zenon DEF ResFinish, h, over
  <1>6. NoBody <=> Bodiless(r.status)
    BY <1>3 DEF StatusOut
  <1>7. Given <=> given /\ ~Bodiless(r.status)
    BY <1>4, <1>6
  <1>8. Cut <=> ~Bodiless(r.status) /\ chunks /\ r.hasBody /\ n > 0
    BY <1>1, <1>3, <1>6
  <1>9. r.hasBody \in BOOLEAN /\ chunks \in BOOLEAN
    BY DEF Formed, Flags
  <1>18. (NoBody => ~Given /\ ~Cut) /\ (Given => ~Cut)
    OBVIOUS
  <1>10. ASSUME NEW f, NEW l
         PROVE  LET v == Framed(over, f, l)
                IN  /\ Shaped(v) /\ Same(over, v, {"framing", "length"})
                    /\ v.framing = f /\ v.length = l
    BY <1>2, <1>3 DEF Framed, Shaped, Same, Fields
  <1>11. ASSUME NEW v, Shaped(v), NEW k
         PROVE  Same(v, Carry(v, k), {"bytes"}) /\ Carry(v, k).bytes = v.bytes + k
    BY <1>11 DEF Carry, Shaped, Same, Fields
  <1> HIDE DEF w, chunks, given, NoBody, Given, Cut
  <1> DEFINE Headed(v) == v.lines = WrittenLines(LinesOf(q, r)) /\ v.userChunked = chunks
  <1>12. Headed(over)
    BY <1>1, <1>3
  <1>13. ASSUME NEW v, Headed(v), w = v,
                Bodiless(r.status) => v.framing = "none",
                ~Bodiless(r.status) =>
                  /\ given => v.framing = "length" /\ v.length = Announced(r)
                  /\ ~given /\ chunks /\ r.hasBody /\ n > 0 => v.framing = "chunked" /\ v.bytes = n
                  /\ ~given /\ chunks /\ ~r.hasBody => v.framing = "none"
                  /\ ~given /\ (~chunks \/ (r.hasBody /\ n = 0)) => v.framing = "length" /\ v.length = n
         PROVE  Tells(q, r, r.status, n, w)
    BY <1>13 DEF Tells, chunks, given
  <1>14. CASE NoBody
    <2>1. w = over
      BY <1>5, <1>14, <1>18
    <2> QED BY <1>3, <1>6, <1>12, <1>13, <1>14, <2>1
  <1>15. CASE Given /\ ~NoBody
    <2> DEFINE v == Framed(over, "length", Announced(h))
    <2>1. w = v
      BY <1>5, <1>15, <1>18
    <2>2. Headed(v) /\ v.framing = "length" /\ v.length = Announced(h)
      BY <1>10, <1>12 DEF Same, Fields
    <2> HIDE DEF v
    <2> QED BY <1>4, <1>7, <1>13, <1>15, <2>1, <2>2
  <1>16. CASE Cut /\ ~Given /\ ~NoBody
    <2> DEFINE p == Framed(over, "chunked", 0)
               v == Carry(p, n)
    <2>0. n # 0
      BY <1>8, <1>16
    <2>1. w = v
      BY <1>5, <1>16, <2>0
    <2>2. Shaped(p) /\ Headed(p) /\ p.framing = "chunked" /\ p.bytes = 0
      BY <1>3, <1>10, <1>12 DEF Same, Fields
    <2> HIDE DEF p
    <2>3. Headed(v) /\ v.framing = "chunked" /\ v.bytes = n
      BY <1>11, <2>2 DEF Same, Fields
    <2> HIDE DEF v
    <2> QED BY <1>6, <1>7, <1>8, <1>13, <1>16, <2>0, <2>1, <2>3
  <1>17. CASE ~Cut /\ ~Given /\ ~NoBody
    <2>1. CASE ~h.hasBody /\ h.userChunked
      <3>1. w = over
        BY <1>5, <1>17, <2>1
      <3> QED BY <1>1, <1>3, <1>6, <1>7, <1>9, <1>12, <1>13, <1>17, <2>1, <3>1
    <2>2. CASE ~h.hasBody /\ ~h.userChunked
      <3> DEFINE p == Put(over, CL, <<<<n>>>>)
                 v == Framed(p, "length", n)
      <3>1. w = v
        BY <1>5, <1>17, <2>2 DEF HeadLength
      <3>2. Shaped(p) /\ Same(over, p, {"headers"})
        <4>1. Listed(over)
          BY <1>3 DEF Formed, Listed
        <4> QED BY <1>2, <4>1, PutFacts
      <3> HIDE DEF p
      <3>3. Headed(p) /\ p.framing = "none"
        BY <1>3, <1>12, <3>2 DEF Same, Fields
      <3>4. Same(p, v, {"framing", "length"}) /\ v.framing = "length" /\ v.length = n
        BY <3>2, <3>3 DEF Framed, Shaped, Same, Fields
      <3> HIDE DEF v
      <3>5. Headed(v)
        BY <3>3, <3>4 DEF Same, Fields
      <3> QED BY <1>1, <1>3, <1>6, <1>7, <1>9, <1>13, <1>17, <2>2, <3>1, <3>4, <3>5
    <2>3. CASE h.hasBody
      <3> DEFINE p == Framed(over, "length", n)
                 v == Carry(p, n)
      <3>1. w = v
        BY <1>5, <1>17, <2>3
      <3>2. Shaped(p) /\ Headed(p) /\ p.framing = "length" /\ p.length = n
        BY <1>10, <1>12 DEF Same, Fields
      <3> HIDE DEF p
      <3>3. Headed(v) /\ v.framing = "length" /\ v.length = n
        BY <1>11, <3>2 DEF Same, Fields
      <3> HIDE DEF v
      <3> QED BY <1>3, <1>6, <1>7, <1>8, <1>9, <1>13, <1>17, <2>3, <3>1, <3>3
    <2> QED BY <1>1, <1>3, <1>9, <2>1, <2>2, <2>3
  <1> QED BY <1>14, <1>15, <1>16, <1>17

StatusAtEnd(r) == IF r.headersSent THEN r.status ELSE r.statusCode

LEMMA EndTells ==
  ASSUME NEW q, q.shim \in BOOLEAN, NEW r, NEW n \in Nat, Ready(q, r, n), ~r.early
  PROVE  LET w == ResEnd(q, r, n)
         IN  /\ Tells(q, r, StatusAtEnd(r), n, w)
             /\ w.finished /\ w.status = StatusAtEnd(r) /\ w.own = r.own
             /\ Has(w, "transfer-encoding") <=> Has(r, "transfer-encoding")
  <1> DEFINE i == Implicit(r)
             w == ResFinish(q, i, n)
  <1>0. /\ \A f \in Flags : r[f] \in BOOLEAN
        /\ r.headersSent \in BOOLEAN /\ r.finished = FALSE
        /\ ~r.headOut /\ r.framing = "none" /\ r.bytes = 0
    BY DEF Ready, InShape, Flags
  <1>1. Shaped(r) /\ Listed(r)
    BY DEF Ready, InShape
  <1>2. /\ Shaped(i) /\ i.headersSent = TRUE
        /\ Same(r, i, {"status", "wirePhrase", "headersSent", "settled"})
        /\ i.status = StatusAtEnd(r)
    BY <1>0, <1>1, ImplicitFacts DEF StatusAtEnd
  <1>7. ResEnd(q, r, n) = w
    BY <1>0 DEF ResEnd
  <1> HIDE DEF i
  <1>3. /\ i.headers = r.headers /\ i.hasBody = r.hasBody /\ i.early = r.early /\ i.own = r.own
        /\ i.bytes = r.bytes /\ i.framing = r.framing /\ i.headOut = r.headOut
        /\ \A f \in Flags \ {"headersSent"} : i[f] = r[f]
    BY <1>2 DEF Same, Fields, Flags
  <1>4. \A f \in Flags : i[f] \in BOOLEAN
    BY <1>0, <1>2, <1>3
  <1>5. Listed(i) /\ \A m : (Has(i, m) <=> Has(r, m)) /\ TextsOf(i, m) = TextsOf(r, m)
    BY <1>1, <1>3 DEF Listed, Has, TextsOf, At
  <1>6. Finished(q, i, w, n)
    <2>1. ~i.early => i.bytes = 0 /\ i.framing = "none" /\ ~i.headOut
      BY <1>0, <1>3
    <2>2. Has(i, "content-length") /\ i.hasBody /\ ~i.own /\ n = 0 =>
            TextsOf(i, "content-length") = << << 0 >> >>
      BY <1>3, <1>5 DEF Ready
    <2> HIDE DEF w
    <2> QED BY <1>2, <1>4, <1>5, <2>1, <2>2, FinishFacts DEF w
  <1>8. Formed(i)
    BY <1>2, <1>4, <1>5 DEF Formed
  <1>9. Tells(q, i, i.status, n, w)
    BY <1>0, <1>3, <1>8, FinishTells
  <1> HIDE DEF w
  <1>10. LinesOf(q, i) = LinesOf(q, r) /\ Announced(i) = Announced(r)
    BY <1>3, <1>5, LinesOfHeaders DEF Announced
  <1>11. Tells(q, r, StatusAtEnd(r), n, w)
    BY <1>2, <1>3, <1>5, <1>9, <1>10 DEF Tells
  <1>12. /\ w.finished /\ w.status = i.status /\ w.own = i.own
         /\ Has(w, "transfer-encoding") <=> Has(i, "transfer-encoding")
    BY <1>6 DEF Finished
  <1> QED BY <1>2, <1>3, <1>5, <1>7, <1>11, <1>12

\* HeadSaysAsGet, of two that are over.
Agree(q, g, h) ==
    (q.shim \/ g.own => ~Has(h, "transfer-encoding")) =>
        /\ h.status = g.status /\ h.lines = g.lines
        /\ h.framing = "length" =>
              h.length = IF g.framing = "length" THEN g.length ELSE g.bytes
        /\ g.framing = "length" => h.framing = "length" \/ h.userChunked

\* Both end, the one with n bytes and its HEAD with m: as many, or none where the
\* length stands in the head.
LEMMA PairEnds ==
  ASSUME NEW q, q.shim \in BOOLEAN, NEW g, NEW h, NEW n \in Nat, NEW m \in Nat,
         Ready(q, g, n), Ready(q, h, m), ~g.early, ~h.early, g.hasBody, ~h.hasBody,
         StatusAtEnd(g) = StatusAtEnd(h), LinesOf(q, g) = LinesOf(q, h),
         Has(g, "content-length") <=> Has(h, "content-length"),
         Has(g, "transfer-encoding") <=> Has(h, "transfer-encoding"),
         Announced(g) = Announced(h),
         \/ Bodiless(StatusAtEnd(g)) \/ m = n
         \/ /\ m = 0
            /\ \/ Has(h, "content-length") /\ Announced(h) = n
               \/ /\ Has(h, "transfer-encoding")
                  /\ q.shim \/ g.own \/ ~Has(h, "content-length")
  PROVE  /\ ResEnd(q, g, n).finished /\ ResEnd(q, h, m).finished
         /\ Agree(q, ResEnd(q, g, n), ResEnd(q, h, m))
  <1> DEFINE v == ResEnd(q, g, n)
             w == ResEnd(q, h, m)
             st == StatusAtEnd(g)
             CL == Has(h, "content-length")
             TE == Has(h, "transfer-encoding")
  <1>1. /\ Tells(q, g, st, n, v) /\ v.finished /\ v.status = st /\ v.own = g.own
    BY EndTells
  <1>2. /\ Tells(q, h, st, m, w) /\ w.finished /\ w.status = st
        /\ Has(w, "transfer-encoding") <=> TE
    BY EndTells
  <1> HIDE DEF v, w, st
  <1> SUFFICES ASSUME q.shim \/ g.own => ~TE
               PROVE  /\ w.status = v.status /\ w.lines = v.lines
                      /\ w.framing = "length" =>
                            w.length = IF v.framing = "length" THEN v.length ELSE v.bytes
                      /\ v.framing = "length" => w.framing = "length" \/ w.userChunked
    BY <1>1, <1>2 DEF Agree, v, w
  <1>3. w.status = v.status /\ w.lines = v.lines
    BY <1>1, <1>2 DEF Tells
  <1>4. CASE Bodiless(st)
    <2>1. v.framing = "none" /\ w.framing = "none"
      BY <1>1, <1>2, <1>4 DEF Tells
    <2> QED BY <1>3, <2>1
  <1>5. CASE ~Bodiless(st)
    <2> DEFINE chunks == ~q.shim /\ TE
    <2>1. /\ w.userChunked = chunks
          /\ m = 0 /\ CL => w.framing = "length" /\ w.length = Announced(h)
          /\ ~(m = 0 /\ CL) /\ chunks => w.framing = "none"
          /\ ~(m = 0 /\ CL) /\ ~chunks => w.framing = "length" /\ w.length = m
      BY <1>2, <1>5 DEF Tells
    <2>2. /\ n = 0 /\ CL => v.framing = "length" /\ v.length = Announced(h)
          /\ ~(n = 0 /\ CL) /\ chunks /\ n > 0 => v.framing = "chunked" /\ v.bytes = n
          /\ ~(n = 0 /\ CL) /\ (~chunks \/ n = 0) => v.framing = "length" /\ v.length = n
      BY <1>1, <1>5 DEF Tells
    <2>3. m = n \/ (m = 0 /\ ((CL /\ Announced(h) = n) \/ (chunks /\ ~CL)))
      BY <1>5 DEF st
    <2> HIDE DEF chunks, CL
    <2>4. n = 0 \/ n > 0
      OBVIOUS
    <2> QED BY <1>3, <2>1, <2>2, <2>3, <2>4
  <1> QED BY <1>4, <1>5

-----------------------------------------------------------------------------
\* The two before anything ended them, and after a call.
Pair(q, g, h) ==
    /\ q \in RequestType /\ q.method = "GET" /\ Good(q, g) /\ Good(q, h)
    /\ g.hasBody /\ ~h.hasBody /\ Twins(g, h) /\ ~g.finished /\ ~g.early

Paired(q, g, h) ==
    \/ g.early
    \/ Pair(q, g, h)
    \/ g.finished /\ h.finished /\ Agree(q, g, h)

LEMMA PairFacts ==
  ASSUME NEW q, NEW g, NEW h, Pair(q, g, h)
  PROVE  /\ q.shim \in BOOLEAN /\ Formed(g) /\ Formed(h) /\ Shaped(g) /\ Shaped(h)
         /\ g.method = "GET" /\ h.method = "HEAD" /\ ~h.finished /\ ~h.early
         /\ g.headersSent = h.headersSent /\ g.status = h.status /\ g.statusCode = h.statusCode
         /\ g.own = h.own /\ g.threw = h.threw /\ g.finished = h.finished /\ g.early = h.early
         /\ g.headersSent \in BOOLEAN
  <1>1. Formed(g) /\ Formed(h)
    BY GoodIsFormed DEF Pair
  <1>2. /\ g.headersSent = h.headersSent /\ g.status = h.status /\ g.statusCode = h.statusCode
        /\ g.own = h.own /\ g.threw = h.threw /\ g.finished = h.finished /\ g.early = h.early
    BY DEF Pair, Twins, Same, Fields
  <1>3. g.method = "GET" /\ h.method = "HEAD"
    BY DEF Pair, Good, InShape
  <1>4. q.shim \in BOOLEAN
    BY DEF Pair, RequestType
  <1> QED BY <1>1, <1>2, <1>3, <1>4 DEF Pair, Formed, Flags

LEMMA CalmPair ==
  ASSUME NEW q, NEW g, NEW h, Pair(q, g, h), NEW a, NEW b, Calm(g, a), Calm(h, b), Twins(a, b)
  PROVE  Pair(q, a, b)
  <1>1. Good(q, a) /\ Good(q, b)
    BY CalmGood DEF Pair
  <1>2. /\ a.hasBody = g.hasBody /\ a.finished = g.finished /\ a.early = g.early
        /\ b.hasBody = h.hasBody
    BY DEF Calm, Near, Same, Fields
  <1> QED BY <1>1, <1>2 DEF Pair

LEMMA NearEndPair ==
  ASSUME NEW q, NEW g, NEW h, Pair(q, g, h), NEW a, NEW b, Near(g, a), Near(h, b), Twins(a, b),
         NEW n \in Nat
  PROVE  Paired(q, ResEnd(q, a, n), ResEnd(q, b, n))
  <1>1. Ready(q, a, n) /\ Ready(q, b, n)
    BY ReadyNear, PairFacts DEF Pair
  <1>2. /\ a.hasBody = g.hasBody /\ a.early = g.early /\ b.hasBody = h.hasBody /\ b.early = h.early
    BY DEF Near, Same, Fields
  <1>3. /\ a.headersSent = b.headersSent /\ a.status = b.status /\ a.statusCode = b.statusCode
    BY DEF Twins, Same, Fields
  <1>4. /\ \A m : (Has(a, m) <=> Has(b, m)) /\ TextsOf(a, m) = TextsOf(b, m)
        /\ a.headers = b.headers
    BY TwinTexts
  <1>5. LinesOf(q, a) = LinesOf(q, b)
    BY <1>4, LinesOfHeaders
  <1>6. Announced(a) = Announced(b)
    BY <1>4 DEF Announced
  <1>7. q.shim \in BOOLEAN /\ ~h.early
    BY PairFacts
  <1>8. StatusAtEnd(a) = StatusAtEnd(b)
    BY <1>3 DEF StatusAtEnd
  <1>9. /\ ResEnd(q, a, n).finished /\ ResEnd(q, b, n).finished
        /\ Agree(q, ResEnd(q, a, n), ResEnd(q, b, n))
    <2>1. a.hasBody /\ ~b.hasBody /\ ~a.early /\ ~b.early
      BY <1>2, <1>7 DEF Pair
    <2>2. /\ Has(a, "content-length") <=> Has(b, "content-length")
          /\ Has(a, "transfer-encoding") <=> Has(b, "transfer-encoding")
      BY <1>4
    <2>3. q.shim \in BOOLEAN
      BY <1>7
    <2> QED BY <1>1, <1>5, <1>6, <1>8, <2>1, <2>2, <2>3, PairEnds
  <1> QED BY <1>9 DEF Paired

LEMMA EndPair ==
  ASSUME NEW q, NEW g, NEW h, Pair(q, g, h), NEW n \in Nat
  PROVE  Paired(q, ResEnd(q, g, n), ResEnd(q, h, n))
  <1>1. Near(g, g) /\ Near(h, h) /\ Twins(g, h)
    BY PairFacts, CalmSame DEF Calm, Pair
  <1> QED BY <1>1, NearEndPair

LEMMA ThrowPair ==
  ASSUME NEW q, NEW g, NEW h, Pair(q, g, h)
  PROVE  Paired(q, Throws(g), Throws(h))
  <1>1. Calm(g, Throws(g)) /\ Calm(h, Throws(h))
    BY PairFacts, ThrowCalm DEF Throws
  <1>2. Twins(Throws(g), Throws(h))
    BY PairFacts, TwinThrow DEF Pair
  <1> QED BY <1>1, <1>2, CalmPair DEF Paired

LEMMA TwinFresh ==
  ASSUME NEW q, NEW g, NEW h, Twins(g, h), Shaped(g), Shaped(h),
         g.method \in {"GET", "HEAD"}, h.method \in {"GET", "HEAD"}
  PROVE  (IsFresh(q, g) <=> IsFresh(q, h)) /\ Twins(IfFresh(q, g), IfFresh(q, h))
  <1>1. g.statusCode = h.statusCode
    BY DEF Twins, Same, Fields
  <1>2. TextsOf(g, "etag") = TextsOf(h, "etag")
    BY TwinTexts
  <1>3. IsFresh(q, g) <=> IsFresh(q, h)
    BY <1>1, <1>2 DEF IsFresh
  <1> QED BY <1>3, TwinStatus DEF IfFresh

LEMMA SendUndefinedPair ==
  ASSUME NEW q, NEW g, NEW h, Pair(q, g, h)
  PROVE  Paired(q, SendUndefined(q, g), SendUndefined(q, h))
  <1> DEFINE S(r) == IfFresh(q, r)
             T(r) == IF S(r).statusCode \in {204, 304} THEN DropDescribing(S(r)) ELSE S(r)
  <1>0. /\ Formed(g) /\ Formed(h) /\ Shaped(g) /\ Shaped(h) /\ g.method = "GET" /\ h.method = "HEAD"
        /\ g.headersSent = h.headersSent /\ g.statusCode = h.statusCode /\ Twins(g, h)
    BY PairFacts DEF Pair
  <1>1. (IsFresh(q, g) <=> IsFresh(q, h)) /\ Twins(S(g), S(h))
    BY <1>0, TwinFresh
  <1>2. CASE ~g.headersSent
    <2>1. ASSUME NEW r, Formed(r), ~r.headersSent
          PROVE  /\ Formed(S(r)) /\ Near(r, T(r)) /\ SendUndefined(q, r) = ResEnd(q, T(r), 0)
      <3>1. Near(r, S(r))
        BY <2>1, StatusNear, CalmSame DEF IfFresh, Calm
      <3>2. Formed(S(r)) /\ ~S(r).headersSent
        BY <2>1, <3>1 DEF Near, Same, Fields
      <3>3. SendUndefined(q, r) = ResEnd(q, T(r), 0)
        BY <2>1, Zenon DEF SendUndefined
      <3> HIDE DEF S
      <3>4. Near(S(r), T(r))
        BY <3>2, WithoutCalm, CalmSame DEF DropDescribing, Calm
      <3> HIDE DEF T
      <3> QED BY <3>1, <3>2, <3>3, <3>4, NearTwice
    <2>2. Formed(S(g)) /\ Formed(S(h)) /\ Near(g, T(g)) /\ Near(h, T(h))
      BY <1>0, <1>2, <2>1
    <2>3. SendUndefined(q, g) = ResEnd(q, T(g), 0) /\ SendUndefined(q, h) = ResEnd(q, T(h), 0)
      BY <1>0, <1>2, <2>1
    <2> HIDE DEF S
    <2>4. Twins(T(g), T(h))
      <3>1. S(g).statusCode = S(h).statusCode
        BY <1>1 DEF Twins, Same, Fields
      <3>2. Twins(DropDescribing(S(g)), DropDescribing(S(h)))
        BY <1>1, <2>2, TwinWithout DEF DropDescribing, Formed
      <3> QED BY <1>1, <3>1, <3>2
    <2> HIDE DEF T
    <2> QED BY <2>2, <2>3, <2>4, NearEndPair
  <1>3. CASE g.headersSent /\ (IsFresh(q, g) \/ g.statusCode \in {204, 205, 304})
    <2>1. SendUndefined(q, g) = Throws(g) /\ SendUndefined(q, h) = Throws(h)
      BY <1>0, <1>1, <1>3, Zenon DEF SendUndefined
    <2> QED BY <2>1, ThrowPair
  <1>4. CASE g.headersSent /\ ~(IsFresh(q, g) \/ g.statusCode \in {204, 205, 304})
    <2>1. SendUndefined(q, g) = ResEnd(q, g, 0) /\ SendUndefined(q, h) = ResEnd(q, h, 0)
      BY <1>0, <1>1, <1>4, Zenon DEF SendUndefined
    <2> QED BY <2>1, EndPair
  <1> QED BY <1>2, <1>3, <1>4

LEMMA TwinTyped ==
  ASSUME NEW g, NEW h, Twins(g, h), Shaped(g), Shaped(h), NEW kind
  PROVE  (HasType(g) <=> HasType(h)) /\ Twins(Typed(g, kind), Typed(h, kind))
  <1> DEFINE CT == "content-type"
  <1>1. HasType(g) <=> HasType(h)
    BY TwinTexts DEF HasType
  <1>2. TextsOf(g, CT) = TextsOf(h, CT)
    BY TwinTexts
  <1>3. \A t : Twins(Put(g, CT, t), Put(h, CT, t))
    BY TwinPut
  <1>4. CASE kind = "text" /\ ~HasType(g)
    BY <1>1, <1>3, <1>4 DEF Typed
  <1>5. CASE kind = "text" /\ HasType(g)
    BY <1>1, <1>2, <1>3, <1>5 DEF Typed
  <1>6. CASE kind = "bytes" /\ ~HasType(g)
    BY <1>1, <1>3, <1>6 DEF Typed
  <1>7. CASE ~(kind = "text") /\ ~(kind = "bytes" /\ ~HasType(g))
    BY <1>1, <1>7 DEF Typed
  <1> QED BY <1>1, <1>4, <1>5, <1>6, <1>7

LEMMA TwinSettled ==
  ASSUME NEW q, NEW g, NEW h, Twins(g, h), Formed(g), Formed(h),
         g.method = "GET", h.method = "HEAD", NEW kind, NEW n
  PROVE  Twins(SendSettled(q, g, kind, n), SendSettled(q, h, kind, n))
  <1> DEFINE TE == "transfer-encoding"
             L(r) == SendLong(r, kind, n)
             G(r) == Tagged(q, L(r))
             F(r) == TaggedThenFresh(q, L(r))
             Y(r) == Typed(r, kind)
  <1>1. /\ Twins(Y(g), Y(h)) /\ Formed(Y(g)) /\ Formed(Y(h))
        /\ Same(g, Y(g), {"headers"}) /\ Same(h, Y(h), {"headers"})
    BY TwinTyped, TypedFacts DEF Formed
  <1>2. \A r : L(r) = IF Has(Y(r), TE) THEN Y(r) ELSE Put(Y(r), "content-length", <<<<n>>>>)
    BY DEF SendLong
  <1> HIDE DEF Y, L
  <1>3. /\ Twins(L(g), L(h)) /\ Formed(L(g)) /\ Formed(L(h))
        /\ Same(Y(g), L(g), {"headers"}) /\ Same(Y(h), L(h), {"headers"})
    <2>1. Has(Y(g), TE) <=> Has(Y(h), TE)
      BY <1>1, TwinTexts
    <2>2. Shaped(Y(g)) /\ Shaped(Y(h))
      BY <1>1 DEF Formed
    <2>3. CASE Has(Y(g), TE)
      BY <1>1, <1>2, <2>1, <2>3 DEF Same
    <2>4. CASE ~Has(Y(g), TE)
      BY <1>1, <1>2, <2>1, <2>2, <2>4, PutFormed, TwinPut
    <2> QED BY <2>3, <2>4
  <1>4. /\ Twins(G(g), G(h)) /\ Formed(G(g)) /\ Formed(G(h))
        /\ Same(L(g), G(g), {"headers"}) /\ Same(L(h), G(h), {"headers"})
    <2>1. Has(L(g), "etag") <=> Has(L(h), "etag")
      BY <1>3, TwinTexts
    <2>2. Shaped(L(g)) /\ Shaped(L(h))
      BY <1>3 DEF Formed
    <2>3. CASE q.etags /\ ~Has(L(g), "etag")
      BY <1>3, <2>1, <2>2, <2>3, PutFormed, TwinPut DEF Tagged
    <2>4. CASE ~(q.etags /\ ~Has(L(g), "etag"))
      BY <1>3, <2>1, <2>4 DEF Tagged, Same
    <2> QED BY <2>3, <2>4
  <1>5. \A r : F(r) = IfFresh(q, G(r))
    BY DEF TaggedThenFresh
  <1> HIDE DEF G, F
  <1>6. G(g).method = "GET" /\ G(h).method = "HEAD"
    BY <1>1, <1>3, <1>4 DEF Same, Fields
  <1>7. Twins(F(g), F(h))
    BY <1>4, <1>5, <1>6, TwinFresh DEF Formed
  <1>8. Shaped(F(g)) /\ Shaped(F(h))
    <2>1. ASSUME NEW r, Formed(r) PROVE Shaped(IfFresh(q, r))
      BY <2>1, StatusNear DEF IfFresh, Near, Formed
    <2> QED BY <1>4, <1>5, <2>1
  <1>9. Has(L(g), TE) <=> Has(L(h), TE)
    BY <1>3, TwinTexts
  <1>10. \A r : SendSettled(q, r, kind, n) =
              [F(r) EXCEPT !.sent = TRUE, !.own = F(r).own /\ Has(L(r), TE)]
    BY DEF SendSettled, F, L
  <1> DEFINE X == F(g).own /\ Has(L(g), TE)
  <1>11. X = (F(h).own /\ Has(L(h), TE))
    <2>1. F(g).own = F(h).own
      BY <1>7 DEF Twins, Same, Fields
    <2> QED BY <1>9, <2>1
  <1> HIDE DEF X
  <1>12. /\ SendSettled(q, g, kind, n) = [F(g) EXCEPT !.sent = TRUE, !.own = X]
         /\ SendSettled(q, h, kind, n) = [F(h) EXCEPT !.sent = TRUE, !.own = X]
    BY <1>10, <1>11 DEF X
  <1> QED BY <1>7, <1>8, <1>12 DEF Twins, Shaped, Same, Fields

LEMMA TwinLeft ==
  ASSUME NEW a, NEW b, Twins(a, b), Shaped(a), Shaped(b), Listed(a), Listed(b), NEW n
  PROVE  Twins(SendLeft(a), SendLeft(b)) /\ SendSize(a, n) = SendSize(b, n)
  <1>1. a.statusCode = b.statusCode
    BY DEF Twins, Same, Fields
  <1>2. CASE a.statusCode \in {204, 304}
    <2>1. SendLeft(a) = Without(a, Describing) /\ SendLeft(b) = Without(b, Describing)
      BY <1>1, <1>2 DEF SendLeft, DropDescribing
    <2> QED BY <1>1, <2>1, TwinWithout DEF SendSize
  <1>3. CASE a.statusCode = 205
    <2> DEFINE P(r) == Put(r, "content-length", << << 0 >> >>)
    <2>1. /\ SendLeft(a) = Without(P(a), {"transfer-encoding"})
          /\ SendLeft(b) = Without(P(b), {"transfer-encoding"})
      BY <1>1, <1>3 DEF SendLeft
    <2>2. Twins(P(a), P(b)) /\ Shaped(P(a)) /\ Shaped(P(b))
      BY TwinPut, PutFacts
    <2> HIDE DEF P
    <2> QED BY <1>1, <2>1, <2>2, TwinWithout DEF SendSize
  <1>4. CASE a.statusCode \notin {204, 205, 304}
    <2>1. SendLeft(a) = a /\ SendLeft(b) = b
      BY <1>1, <1>4 DEF SendLeft
    <2> QED BY <1>1, <2>1 DEF SendSize
  <1> QED BY <1>2, <1>3, <1>4

LEMMA SettledFormed ==
  ASSUME NEW q, NEW r, Formed(r), NEW kind, NEW n
  PROVE  Shaped(SendSettled(q, r, kind, n)) /\ Listed(SendSettled(q, r, kind, n))
  <1> DEFINE Y == Typed(r, kind)
             L == SendLong(r, kind, n)
             G == Tagged(q, L)
             F == TaggedThenFresh(q, L)
             s == SendSettled(q, r, kind, n)
             X == F.own /\ Has(L, "transfer-encoding")
  <1>1. Formed(Y)
    BY TypedFacts
  <1>2. L = IF Has(Y, "transfer-encoding") THEN Y ELSE Put(Y, "content-length", <<<<n>>>>)
    BY DEF SendLong
  <1>3. s = [F EXCEPT !.sent = TRUE, !.own = X]
    BY DEF SendSettled
  <1> HIDE DEF Y, L, s
  <1>4. Formed(L)
    BY <1>1, <1>2, PutFormed
  <1>5. Formed(G)
    BY <1>4, PutFormed DEF Tagged
  <1>6. F = IfFresh(q, G)
    BY DEF TaggedThenFresh
  <1> HIDE DEF G, F
  <1>7. Formed(F)
    BY <1>5, <1>6, StatusNear DEF IfFresh, Near
  <1> HIDE DEF X
  <1>8. Shaped(s) /\ s.headers = F.headers
    BY <1>3, <1>7 DEF Formed, Shaped, Fields
  <1> QED BY <1>7, <1>8 DEF Formed, Listed, s

LEMMA SendBodyPair ==
  ASSUME NEW q, NEW g, NEW h, Pair(q, g, h), NEW kind, NEW n \in Nat
  PROVE  Paired(q, SendBody(q, g, kind, n), SendBody(q, h, kind, n))
  <1> DEFINE CL == "content-length"
             TE == "transfer-encoding"
  <1>0. /\ Formed(g) /\ Formed(h) /\ g.method = "GET" /\ h.method = "HEAD" /\ Twins(g, h)
        /\ g.headersSent = h.headersSent /\ q \in RequestType /\ q.shim \in BOOLEAN
        /\ Good(q, g) /\ Good(q, h) /\ g.hasBody /\ ~h.hasBody /\ ~g.early /\ ~h.early
    BY PairFacts DEF Pair
  <1>1. CASE g.headersSent
    <2>1. SendBody(q, g, kind, n) = Throws(g) /\ SendBody(q, h, kind, n) = Throws(h)
      BY <1>0, <1>1 DEF SendBody
    <2> QED BY <2>1, ThrowPair
  <1>2. CASE ~g.headersSent
    <2> DEFINE a == SendSettled(q, g, kind, n)
               b == SendSettled(q, h, kind, n)
               t == SendLeft(a)
               w == SendLeft(b)
               size == SendSize(a, n)
               u == SendHead(w, size)
    <2>1. Twins(a, b) /\ Shaped(a) /\ Shaped(b) /\ Listed(a) /\ Listed(b)
      BY <1>0, TwinSettled, SettledFormed
    <2>2. Twins(t, w) /\ size = SendSize(b, n)
      BY <2>1, TwinLeft
    <2>3. /\ SendBody(q, g, kind, n) = ResEnd(q, t, size)
          /\ SendBody(q, h, kind, n) = ResEnd(q, u, 0)
      BY <1>0, <1>2, <2>2, SendBodyIs
    <2>4. /\ size \in Nat /\ Ready(q, t, size)
          /\ Same(g, t, {"headers", "statusCode", "sent", "own"})
      BY <1>0, <1>2, SendBodyReady
    <2>5. /\ Formed(w) /\ Ready(q, u, 0)
          /\ Same(h, w, {"headers", "statusCode", "sent", "own"})
          /\ \/ w.statusCode \in {204, 304}
             \/ Has(w, TE) /\ (w.own \/ ~Has(w, CL))
             \/ ~Has(w, TE) /\ Has(w, CL) /\ TextsOf(w, CL) = <<<<size>>>>
      BY <1>0, <1>2, <2>2, SendBodyReady
    <2> HIDE DEF t, w, size, a, b
    <2>6. /\ t.hasBody = g.hasBody /\ t.early = g.early /\ ~t.headersSent
          /\ w.hasBody = h.hasBody /\ w.early = h.early /\ ~w.headersSent
      BY <1>0, <1>2, <2>4, <2>5 DEF Same, Fields
    <2>7. t.statusCode = w.statusCode /\ t.own = w.own
      BY <2>2 DEF Twins, Same, Fields
    <2>8. /\ \A m : (Has(t, m) <=> Has(w, m)) /\ TextsOf(t, m) = TextsOf(w, m)
          /\ t.headers = w.headers
      BY <2>2, TwinTexts
    <2>9. LinesOf(q, t) = LinesOf(q, w)
      BY <2>8, LinesOfHeaders
    <2>10. /\ u.hasBody = w.hasBody /\ u.early = w.early /\ u.statusCode = w.statusCode
           /\ ~u.headersSent /\ LinesOf(q, u) = LinesOf(q, w)
           /\ Has(u, CL) <=> Has(w, CL)
           /\ Has(u, TE) <=> Has(w, TE)
           /\ TextsOf(u, CL) = TextsOf(w, CL)
      <3>1. CASE w.statusCode \in {204, 304} \/ Has(w, TE)
        <4>1. u = w
          BY <3>1 DEF SendHead
        <4> QED BY <2>6, <4>1
      <3>2. CASE ~(w.statusCode \in {204, 304} \/ Has(w, TE))
        <4>1. u = Put(w, CL, <<<<size>>>>)
          BY <3>2 DEF SendHead
        <4>2. Has(w, CL) /\ TextsOf(w, CL) = <<<<size>>>>
          BY <2>5, <3>2
        <4>3. LinesOf(q, u) = LinesOf(q, w)
          BY <2>5, <4>1, <4>2, LinesWithoutLength
        <4> HIDE DEF u
        <4>4. /\ Same(w, u, {"headers"}) /\ Has(u, CL) /\ TextsOf(u, CL) = <<<<size>>>>
              /\ Has(u, TE) <=> Has(w, TE)
          BY <2>5, <4>1, PutFormed
        <4> QED BY <2>6, <4>2, <4>3, <4>4 DEF Same, Fields
      <3> QED BY <3>1, <3>2
    <2> HIDE DEF u
    <2>11. /\ StatusAtEnd(t) = t.statusCode /\ StatusAtEnd(u) = t.statusCode
      BY <2>6, <2>7, <2>10 DEF StatusAtEnd
    <2>12. Announced(t) = Announced(u) /\ (TextsOf(w, CL) = <<<<size>>>> /\ Has(w, CL) => Announced(u) = size)
      BY <2>8, <2>10 DEF Announced
    <2>13. \/ Bodiless(StatusAtEnd(t))
           \/ Has(u, CL) /\ Announced(u) = size
           \/ Has(u, TE) /\ (q.shim \/ t.own \/ ~Has(u, CL))
      BY <2>5, <2>7, <2>10, <2>11, <2>12 DEF Bodiless
    <2>14. /\ t.hasBody /\ ~u.hasBody /\ ~t.early /\ ~u.early /\ StatusAtEnd(t) = StatusAtEnd(u)
           /\ LinesOf(q, t) = LinesOf(q, u)
           /\ Has(t, CL) <=> Has(u, CL)
           /\ Has(t, TE) <=> Has(u, TE)
      BY <1>0, <2>6, <2>8, <2>9, <2>10, <2>11
    <2>15. q.shim \in BOOLEAN /\ 0 \in Nat
      BY <1>0
    <2>16. /\ ResEnd(q, t, size).finished /\ ResEnd(q, u, 0).finished
           /\ Agree(q, ResEnd(q, t, size), ResEnd(q, u, 0))
      BY <2>4, <2>5, <2>12, <2>13, <2>14, <2>15, PairEnds
    <2> QED BY <2>3, <2>16 DEF Paired
  <1> QED BY <1>1, <1>2

LEMMA JsonPair ==
  ASSUME NEW q, NEW g, NEW h, Pair(q, g, h), NEW kind, NEW n \in Nat
  PROVE  Paired(q, Json(q, g, kind, n), Json(q, h, kind, n))
  <1> DEFINE Y(r) == IF ~HasType(r) THEN Put(r, "content-type", <<<<"json", "utf-8">>>>) ELSE r
             Bad(r) == kind = "unserialisable" \/ (~HasType(r) /\ r.headersSent)
  <1>0. Formed(g) /\ Formed(h) /\ Shaped(g) /\ Shaped(h) /\ g.headersSent = h.headersSent /\ Twins(g, h)
    BY PairFacts DEF Pair
  <1>1. HasType(g) <=> HasType(h)
    BY <1>0, TwinTyped
  <1>2. CASE Bad(g)
    <2>1. Json(q, g, kind, n) = Throws(g) /\ Json(q, h, kind, n) = Throws(h)
      BY <1>0, <1>1, <1>2 DEF Json
    <2> QED BY <2>1, ThrowPair
  <1>3. CASE ~Bad(g)
    <2>1. Calm(g, Y(g)) /\ Calm(h, Y(h))
      BY <1>0, <1>1, <1>3, PutCalm, CalmSame
    <2>2. Twins(Y(g), Y(h))
      BY <1>0, <1>1, TwinPut
    <2>3. Pair(q, Y(g), Y(h))
      BY <2>1, <2>2, CalmPair
    <2>4. CASE kind = "undefined"
      <3>1. Json(q, g, kind, n) = SendUndefined(q, Y(g)) /\ Json(q, h, kind, n) = SendUndefined(q, Y(h))
        BY <1>0, <1>1, <1>3, <2>4, Zenon DEF Json
      <3> HIDE DEF Y
      <3> QED BY <2>3, <3>1, SendUndefinedPair
    <2>5. CASE kind # "undefined"
      <3>1. /\ Json(q, g, kind, n) = SendBody(q, Y(g), "text", n)
            /\ Json(q, h, kind, n) = SendBody(q, Y(h), "text", n)
        BY <1>0, <1>1, <1>3, <2>5, Zenon DEF Json
      <3> HIDE DEF Y
      <3> QED BY <2>3, <3>1, SendBodyPair
    <2> QED BY <2>4, <2>5
  <1> QED BY <1>2, <1>3

LEMMA JsonpPair ==
  ASSUME NEW q, NEW g, NEW h, Pair(q, g, h), NEW callback, NEW n \in Nat
  PROVE  Paired(q, Jsonp(q, g, callback, n), Jsonp(q, h, callback, n))
  <1> DEFINE T == <<<<IF callback THEN "javascript" ELSE "json", "utf-8">>>>
             P(r) == Put(r, "x-content-type-options", <<<<"nosniff">>>>)
             Y(r) == IF callback \/ ~HasType(r) THEN Put(P(r), "content-type", T) ELSE r
  <1>0. Formed(g) /\ Formed(h) /\ Shaped(g) /\ Shaped(h) /\ g.headersSent = h.headersSent /\ Twins(g, h)
    BY PairFacts DEF Pair
  <1>1. HasType(g) <=> HasType(h)
    BY <1>0, TwinTyped
  <1>2. CASE g.headersSent /\ (callback \/ ~HasType(g))
    <2>1. Jsonp(q, g, callback, n) = Throws(g) /\ Jsonp(q, h, callback, n) = Throws(h)
      BY <1>0, <1>1, <1>2 DEF Jsonp
    <2> QED BY <2>1, ThrowPair
  <1>3. CASE ~(g.headersSent /\ (callback \/ ~HasType(g)))
    <2>1. /\ Jsonp(q, g, callback, n) = SendBody(q, Y(g), "text", n)
          /\ Jsonp(q, h, callback, n) = SendBody(q, Y(h), "text", n)
      BY <1>0, <1>1, <1>3, Zenon DEF Jsonp
    <2> HIDE DEF T
    <2>2. Pair(q, Y(g), Y(h))
      <3>1. CASE callback \/ ~HasType(g)
        <4>1. Calm(g, P(g)) /\ Calm(h, P(h)) /\ Twins(P(g), P(h))
          BY <1>0, <1>3, <3>1, PutCalm, TwinPut
        <4> HIDE DEF P
        <4>2. Pair(q, P(g), P(h)) /\ ~P(g).headersSent
          BY <1>3, <3>1, <4>1, CalmPair DEF Calm, Near, Same, Fields
        <4>3. /\ Formed(P(g)) /\ Formed(P(h)) /\ Shaped(P(g)) /\ Shaped(P(h)) /\ Twins(P(g), P(h))
              /\ ~P(h).headersSent
          BY <4>2, PairFacts DEF Pair
        <4>4. /\ Calm(P(g), Put(P(g), "content-type", T))
              /\ Calm(P(h), Put(P(h), "content-type", T))
              /\ Twins(Put(P(g), "content-type", T), Put(P(h), "content-type", T))
          BY <4>2, <4>3, PutCalm, TwinPut
        <4>5. Pair(q, Put(P(g), "content-type", T), Put(P(h), "content-type", T))
          BY <4>2, <4>4, CalmPair
        <4> QED BY <1>1, <3>1, <4>5
      <3>2. CASE ~(callback \/ ~HasType(g))
        BY <1>1, <3>2
      <3> QED BY <3>1, <3>2
    <2> HIDE DEF Y
    <2> QED BY <2>1, <2>2, SendBodyPair
  <1> QED BY <1>2, <1>3

LEMMA SendPair ==
  ASSUME NEW q, NEW g, NEW h, Pair(q, g, h), NEW kind, NEW n \in Nat
  PROVE  Paired(q, ResSend(q, g, kind, n), ResSend(q, h, kind, n))
  <1>0. g.headersSent = h.headersSent
    BY PairFacts
  <1>1. CASE kind = "undefined"
    BY <1>1, SendUndefinedPair DEF ResSend
  <1>2. CASE kind = "unserialisable"
    BY <1>2, ThrowPair DEF ResSend
  <1>3. CASE kind = "object"
    <2>1. CASE g.headersSent
      BY <1>0, <1>3, <2>1, ThrowPair DEF ResSend
    <2>2. CASE ~g.headersSent
      BY <1>0, <1>3, <2>2, JsonPair DEF ResSend
    <2> QED BY <2>1, <2>2
  <1>4. CASE kind \notin {"undefined", "unserialisable", "object"}
    BY <1>4, SendBodyPair DEF ResSend
  <1> QED BY <1>1, <1>2, <1>3, <1>4

LEMMA TwinSetType ==
  ASSUME NEW g, NEW h, Twins(g, h), Formed(g), Formed(h), NEW t
  PROVE  Twins(SetType(g, t), SetType(h, t))
  BY TwinSetHeader DEF SetType

LEMMA SendStatusPair ==
  ASSUME NEW q, NEW g, NEW h, Pair(q, g, h), NEW c \in Codes
  PROVE  Paired(q, SendStatus(q, g, c), SendStatus(q, h, c))
  <1> DEFINE S(r) == Status(r, c)
             T(r) == Then(S(r), SetType(S(r), <<"text", "none">>))
  <1>1. Pair(q, S(g), S(h))
    <2>1. Calm(g, S(g)) /\ Calm(h, S(h)) /\ Twins(S(g), S(h))
      BY PairFacts, StatusCalm, TwinStatus DEF Pair
    <2> QED BY <2>1, CalmPair
  <1>0. /\ SendStatus(q, g, c) = Then(T(g), SendBody(q, T(g), "text", 2))
        /\ SendStatus(q, h, c) = Then(T(h), SendBody(q, T(h), "text", 2))
    BY DEF SendStatus
  <1> HIDE DEF S
  <1>2. S(g).threw = S(h).threw /\ Formed(S(g)) /\ Formed(S(h)) /\ Twins(S(g), S(h))
    BY <1>1, PairFacts DEF Pair
  <1>3. Pair(q, T(g), T(h))
    <2>1. CASE S(g).threw
      BY <1>1, <1>2, <2>1 DEF Then
    <2>2. CASE ~S(g).threw
      <3> DEFINE X(r) == SetType(S(r), <<"text", "none">>)
      <3>1. T(g) = X(g) /\ T(h) = X(h)
        BY <1>2, <2>2 DEF Then
      <3>2. Calm(S(g), X(g)) /\ Calm(S(h), X(h)) /\ Twins(X(g), X(h))
        BY <1>2, SetTypeCalm, TwinSetType
      <3> HIDE DEF X
      <3> QED BY <1>1, <3>1, <3>2, CalmPair
    <2> QED BY <2>1, <2>2
  <1> HIDE DEF T
  <1>4. T(g).threw = T(h).threw
    BY <1>3, PairFacts
  <1>5. Paired(q, SendBody(q, T(g), "text", 2), SendBody(q, T(h), "text", 2))
    BY <1>3, SendBodyPair
  <1> QED BY <1>0, <1>3, <1>4, <1>5 DEF Then, Paired

LEMMA RedirectPair ==
  ASSUME NEW q, NEW g, NEW h, Pair(q, g, h), ~g.threw, NEW c, c \in 100 .. 999
  PROVE  Paired(q, Redirect(q, g, c), Redirect(q, h, c))
  <1> DEFINE CL == "content-length"
             TE == "transfer-encoding"
             A(r) == Location(r)
             S(r) == Status(A(r), c)
             V(r) == RedirectVaried(r, c)
             T(r) == RedirectTyped(q, r, c)
             W(r) == RedirectSettled(q, r, c)
             n == RedirectSize(q)
             P(r) == SetHeader(T(r), CL, <<<<n>>>>)
  <1>0. /\ Formed(g) /\ Formed(h) /\ g.method = "GET" /\ h.method = "HEAD" /\ Twins(g, h)
        /\ g.headersSent = h.headersSent /\ q \in RequestType /\ q.shim \in BOOLEAN
        /\ Good(q, g) /\ Good(q, h) /\ g.hasBody /\ ~h.hasBody /\ ~g.early /\ ~h.early
        /\ ~h.threw /\ Shaped(g) /\ Shaped(h)
    BY PairFacts DEF Pair
  <1>1. Twins(A(g), A(h)) /\ Formed(A(g)) /\ Formed(A(h))
    BY <1>0, TwinPut, PutFormed DEF Location
  <1> HIDE DEF A
  <1>2. Twins(S(g), S(h)) /\ Formed(S(g)) /\ Formed(S(h))
    BY <1>1, TwinStatus, StatusNear DEF Formed, Near
  <1> HIDE DEF S
  <1>3. Twins(V(g), V(h)) /\ Formed(V(g)) /\ Formed(V(h))
    <2>1. \A r : V(r) = IF S(r).threw THEN S(r) ELSE Vary(S(r))
      BY DEF RedirectVaried, Then, S, A
    <2>2. S(g).threw = S(h).threw
      BY <1>2 DEF Twins, Same, Fields
    <2>3. Twins(Vary(S(g)), Vary(S(h))) /\ Formed(Vary(S(g))) /\ Formed(Vary(S(h)))
      BY <1>2, TwinSetHeader, SetHeaderCalm DEF Vary, Calm, Near
    <2> HIDE DEF V
    <2> QED BY <1>2, <2>1, <2>2, <2>3
  <1>4. \A r : T(r) = IF V(r).threw \/ q.accepts = "other" THEN V(r)
                      ELSE SetType(V(r), <<q.accepts, "utf-8">>)
    BY DEF RedirectTyped
  <1>5. \A r : W(r) = [P(r) EXCEPT !.own = P(r).own /\ T(r).headersSent]
    BY DEF RedirectSettled
  <1> HIDE DEF V, T, W
  <1>6. CASE g.headersSent
    <2>1. Redirect(q, g, c) = V(g) /\ Calm(g, V(g)) /\ Redirect(q, h, c) = V(h) /\ Calm(h, V(h))
      BY <1>0, <1>6, RedirectIs DEF V
    <2> QED BY <1>3, <2>1, CalmPair DEF Paired
  <1>7. CASE ~g.headersSent
    <2>1. Twins(T(g), T(h)) /\ Formed(T(g)) /\ Formed(T(h))
      <3>1. V(g).threw = V(h).threw
        BY <1>3 DEF Twins, Same, Fields
      <3>2. \A t : /\ Twins(SetType(V(g), t), SetType(V(h), t))
                   /\ Formed(SetType(V(g), t)) /\ Formed(SetType(V(h), t))
        BY <1>3, TwinSetType, SetTypeCalm DEF Calm, Near
      <3> QED BY <1>3, <1>4, <3>1, <3>2
    <2>2. Twins(P(g), P(h))
      BY <2>1, TwinSetHeader
    <2>3. /\ Redirect(q, g, c) = ResEnd(q, W(g), n) /\ Ready(q, W(g), n) /\ n \in Nat
          /\ Formed(W(g)) /\ Same(g, W(g), {"headers", "statusCode", "threw", "own"})
      BY <1>0, <1>7, RedirectIs DEF W
    <2>4. /\ Redirect(q, h, c) = ResEnd(q, W(h), 0) /\ Ready(q, W(h), 0)
          /\ Formed(W(h)) /\ Same(h, W(h), {"headers", "statusCode", "threw", "own"})
          /\ Has(W(h), CL) /\ TextsOf(W(h), CL) = <<<<n>>>>
      BY <1>0, <1>7, RedirectIs DEF W
    <2>5. Twins(W(g), W(h))
      <3> DEFINE X == P(g).own /\ T(g).headersSent
      <3>1. X = (P(h).own /\ T(h).headersSent)
        BY <2>1, <2>2 DEF Twins, Same, Fields
      <3> HIDE DEF X
      <3>2. W(g) = [P(g) EXCEPT !.own = X] /\ W(h) = [P(h) EXCEPT !.own = X]
        BY <1>5, <3>1 DEF X
      <3>3. Shaped(P(g)) /\ Shaped(P(h))
        <4>1. \A r \in {g, h} : ~T(r).headersSent
          <5>1. \A r \in {g, h} : W(r).headersSent = FALSE
            BY <1>0, <1>7, <2>3, <2>4, PairFacts DEF Same, Fields
          <5>2. \A r \in {g, h} : T(r).headersSent \in BOOLEAN /\ Formed(T(r))
            BY <2>1 DEF Formed, Flags
          <5>3. ASSUME NEW r \in {g, h}, T(r).headersSent PROVE FALSE
            <6>1. P(r) = [T(r) EXCEPT !.threw = TRUE]
              BY <5>3 DEF SetHeader, Throws
            <6>2. Shaped(P(r)) /\ P(r).headersSent = T(r).headersSent
              BY <5>2, <6>1 DEF Formed, Shaped, Fields
            <6>3. W(r).headersSent = P(r).headersSent
              BY <1>5, <6>2 DEF Shaped, Fields
            <6> QED BY <5>1, <5>3, <6>2, <6>3
          <5> QED BY <5>2, <5>3
        <4>2. \A r \in {g, h} : P(r) = Put(T(r), CL, <<<<n>>>>)
          BY <4>1 DEF SetHeader
        <4> QED BY <2>1, <4>2, PutFormed DEF Formed
      <3> HIDE DEF P
      <3> QED BY <2>2, <3>2, <3>3 DEF Twins, Shaped, Same, Fields
    <2> HIDE DEF n
    <2>6. /\ W(g).hasBody /\ ~W(h).hasBody /\ ~W(g).early /\ ~W(h).early
      BY <1>0, <2>3, <2>4 DEF Same, Fields
    <2>7. StatusAtEnd(W(g)) = StatusAtEnd(W(h))
      BY <2>5 DEF Twins, Same, Fields, StatusAtEnd
    <2>8. /\ \A m : (Has(W(g), m) <=> Has(W(h), m)) /\ TextsOf(W(g), m) = TextsOf(W(h), m)
          /\ W(g).headers = W(h).headers
      BY <2>5, TwinTexts
    <2>9. LinesOf(q, W(g)) = LinesOf(q, W(h))
      BY <2>8, LinesOfHeaders
    <2>10. Announced(W(g)) = Announced(W(h)) /\ Announced(W(h)) = n
      BY <2>4, <2>8 DEF Announced
    <2>11. /\ Has(W(g), CL) <=> Has(W(h), CL)
           /\ Has(W(g), TE) <=> Has(W(h), TE)
      BY <2>8
    <2>12. q.shim \in BOOLEAN /\ 0 \in Nat
      BY <1>0
    <2>13. Has(W(h), CL) /\ Announced(W(h)) = n
      BY <2>4, <2>10
    <2>14. /\ ResEnd(q, W(g), n).finished /\ ResEnd(q, W(h), 0).finished
           /\ Agree(q, ResEnd(q, W(g), n), ResEnd(q, W(h), 0))
      BY <2>3, <2>4, <2>6, <2>7, <2>9, <2>10, <2>11, <2>12, <2>13, PairEnds
    <2> QED BY <2>3, <2>4, <2>14 DEF Paired
  <1> QED BY <1>6, <1>7

-----------------------------------------------------------------------------
\* What a call may do to a response whose head is out or that is over.
Late(r, w) ==
    r.early \/ r.finished => (r.early => w.early) /\ (r.finished => Calm(r, w))

LEMMA CalmLate ==
  ASSUME NEW r, NEW w, Calm(r, w)
  PROVE  Late(r, w)
  BY DEF Late, Calm, Near, Same, Fields

LEMMA LateIsOut ==
  ASSUME NEW q, NEW r, Good(q, r)
  PROVE  (r.early \/ r.finished => r.headersSent) /\ Formed(r)
  BY GoodIsFormed DEF Good, InShape

LEMMA FlushLate ==
  ASSUME NEW q, NEW r, Good(q, r)
  PROVE  Late(r, FlushHeaders(q, r))
  <1>1. CASE r.finished
    BY <1>1, GoodIsFormed, CalmSame, CalmLate DEF FlushHeaders
  <1>2. CASE ~r.finished
    <2> DEFINE h == HeadOut(q, Implicit(r))
               w == [h EXCEPT !.early = TRUE]
    <2>1. Shaped(h)
      BY <1>2, OutFacts DEF Formed
    <2> HIDE DEF h
    <2>2. w.early = TRUE
      BY <2>1 DEF Shaped, Fields
    <2>3. FlushHeaders(q, r) = w
      BY <1>2 DEF FlushHeaders, h
    <2> HIDE DEF w
    <2> QED BY <1>2, <2>2, <2>3 DEF Late
  <1> QED BY <1>1, <1>2

LEMMA WriteEarly ==
  ASSUME NEW q, NEW r, Good(q, r), ~r.finished, NEW n, n # 0
  PROVE  ResWrite(q, r, n).early
  <1> DEFINE h == HeadOut(q, Implicit(r))
             framed == Framed(h, IF h.chunked THEN "chunked" ELSE "length", Announced(h))
             v == Carry([framed EXCEPT !.early = TRUE], n)
             w == IF ~h.chunked /\ v.bytes >= v.length THEN [v EXCEPT !.finished = TRUE] ELSE v
  <1>1. Shaped(h)
    BY OutFacts DEF Formed
  <1> HIDE DEF h
  <1>2. Shaped(framed)
    BY <1>1 DEF Shaped, Fields, Framed
  <1> HIDE DEF framed
  <1>3. Shaped(v) /\ v.early = TRUE
    BY <1>2 DEF Shaped, Fields, Carry
  <1> HIDE DEF v
  <1>4. w.early = TRUE
    BY <1>3 DEF Shaped, Fields
  <1> HIDE DEF w
  <1>5. ResWrite(q, r, n) = w
    BY DEF ResWrite, w, v, framed, h
  <1> QED BY <1>4, <1>5

LEMMA WriteLate ==
  ASSUME NEW q, NEW r, Good(q, r), NEW n
  PROVE  Late(r, ResWrite(q, r, n))
  <1>1. CASE r.finished \/ n = 0
    BY <1>1, GoodIsFormed, CalmSame, CalmLate DEF ResWrite
  <1>2. CASE ~r.finished /\ n # 0
    BY <1>2, WriteEarly DEF Late
  <1> QED BY <1>1, <1>2

LEMMA EndLate ==
  ASSUME NEW q, NEW r, Good(q, r), NEW n \in Nat
  PROVE  Late(r, ResEnd(q, r, n))
  <1>1. CASE r.finished
    BY <1>1, GoodIsFormed, CalmSame, CalmLate DEF ResEnd
  <1>2. CASE ~r.finished
    <2>1. Ready(q, r, n)
      BY <1>2, GoodIsFormed, CalmSame, ReadyNear DEF Calm
    <2> QED BY <1>2, <2>1, EndFacts DEF Late
  <1> QED BY <1>1, <1>2

LEMMA ThrowLate ==
  ASSUME NEW q, NEW r, Good(q, r)
  PROVE  Late(r, Throws(r)) /\ Calm(r, Throws(r))
  BY GoodIsFormed, ThrowCalm, CalmLate DEF Throws

LEMMA SendUndefinedLate ==
  ASSUME NEW q, NEW r, Good(q, r)
  PROVE  Late(r, SendUndefined(q, r))
  <1>1. CASE r.headersSent
    <2>1. SendUndefined(q, r) \in {Throws(r), ResEnd(q, r, 0)}
      BY <1>1, Zenon DEF SendUndefined
    <2> QED BY <2>1, ThrowLate, EndLate
  <1>2. CASE ~r.headersSent
    BY <1>2, LateIsOut DEF Late
  <1> QED BY <1>1, <1>2

LEMMA SendBodyLate ==
  ASSUME NEW q, NEW r, Good(q, r), NEW kind, NEW n
  PROVE  /\ Late(r, SendBody(q, r, kind, n))
         /\ r.headersSent => Calm(r, SendBody(q, r, kind, n))
  <1>1. CASE r.headersSent
    BY <1>1, ThrowLate DEF SendBody
  <1>2. CASE ~r.headersSent
    BY <1>2, LateIsOut DEF Late
  <1> QED BY <1>1, <1>2

LEMMA JsonLate ==
  ASSUME NEW q, NEW r, Good(q, r), NEW kind, NEW n
  PROVE  Late(r, Json(q, r, kind, n))
  <1>1. CASE r.headersSent
    <2>1. Json(q, r, kind, n) \in {Throws(r), SendUndefined(q, r), SendBody(q, r, "text", n)}
      BY <1>1, Zenon DEF Json
    <2> QED BY <2>1, ThrowLate, SendUndefinedLate, SendBodyLate
  <1>2. CASE ~r.headersSent
    BY <1>2, LateIsOut DEF Late
  <1> QED BY <1>1, <1>2

LEMMA JsonpLate ==
  ASSUME NEW q, NEW r, Good(q, r), NEW c, NEW n
  PROVE  Late(r, Jsonp(q, r, c, n))
  <1>1. CASE r.headersSent
    <2>1. Jsonp(q, r, c, n) \in {Throws(r), SendBody(q, r, "text", n)}
      BY <1>1, Zenon DEF Jsonp
    <2> QED BY <2>1, ThrowLate, SendBodyLate
  <1>2. CASE ~r.headersSent
    BY <1>2, LateIsOut DEF Late
  <1> QED BY <1>1, <1>2

LEMMA SendLate ==
  ASSUME NEW q, NEW r, Good(q, r), NEW kind, NEW n
  PROVE  Late(r, ResSend(q, r, kind, n))
  <1>1. ResSend(q, r, kind, n) \in {SendUndefined(q, r), Throws(r), Json(q, r, kind, n),
                                    SendBody(q, r, kind, n)}
    BY Zenon DEF ResSend
  <1> QED BY <1>1, ThrowLate, SendUndefinedLate, JsonLate, SendBodyLate

LEMMA SendStatusLate ==
  ASSUME NEW q, NEW r, Good(q, r), NEW c \in Codes
  PROVE  Late(r, SendStatus(q, r, c))
  <1>1. CASE r.headersSent
    <2> DEFINE s == Status(r, c)
               t == Then(s, SetType(s, <<"text", "none">>))
    <2>1. Calm(r, s)
      BY GoodIsFormed, StatusCalm
    <2>2. Formed(s) /\ Good(q, s) /\ s.headersSent
      BY <1>1, <2>1, CalmGood DEF Calm, Near, Same, Fields
    <2> HIDE DEF s
    <2>3. Calm(s, t)
      BY <2>2, SetTypeCalm, CalmSame DEF Then
    <2> HIDE DEF t
    <2>4. Good(q, t) /\ t.headersSent
      BY <2>2, <2>3, CalmGood DEF Calm, Near, Same, Fields
    <2>5. SendStatus(q, r, c) \in {t, SendBody(q, t, "text", 2)}
      BY Zenon DEF SendStatus, Then, s, t
    <2>6. Calm(t, SendBody(q, t, "text", 2))
      BY <2>4, SendBodyLate
    <2>7. Calm(r, t)
      BY <2>1, <2>3, CalmTwice
    <2>8. Calm(r, SendBody(q, t, "text", 2))
      BY <2>6, <2>7, CalmTwice
    <2> QED BY <2>5, <2>7, <2>8, CalmLate
  <1>2. CASE ~r.headersSent
    BY <1>2, LateIsOut DEF Late
  <1> QED BY <1>1, <1>2

LEMMA RedirectLate ==
  ASSUME NEW q \in RequestType, NEW r, Good(q, r), ~r.threw, NEW c, c \in 100 .. 999
  PROVE  Late(r, Redirect(q, r, c))
  <1>1. CASE r.headersSent
    <2>1. Calm(r, RedirectVaried(r, c)) /\ Redirect(q, r, c) = RedirectVaried(r, c)
      BY <1>1, RedirectIs
    <2> QED BY <2>1, CalmLate
  <1>2. CASE ~r.headersSent
    BY <1>2, LateIsOut DEF Late
  <1> QED BY <1>1, <1>2

LEMMA WriteHeadLate ==
  ASSUME NEW q, NEW r, Good(q, r), NEW c, NEW p, NEW f
  PROVE  Late(r, ResWriteHead(r, c, p, f))
  <1>1. CASE r.headersSent
    BY <1>1, ThrowLate DEF ResWriteHead
  <1>2. CASE ~r.headersSent
    BY <1>2, LateIsOut DEF Late
  <1> QED BY <1>1, <1>2

\* Over, the two agree for good.
LEMMA AgreeLate ==
  ASSUME NEW q, NEW g, NEW h, NEW a, NEW b, Good(q, h), g.finished, h.finished,
         Agree(q, g, h), Calm(g, a), Calm(h, b)
  PROVE  a.finished /\ b.finished /\ Agree(q, a, b)
  <1>1. /\ a.finished = g.finished /\ a.status = g.status /\ a.lines = g.lines
        /\ a.framing = g.framing /\ a.length = g.length /\ a.bytes = g.bytes
        /\ b.finished = h.finished /\ b.status = h.status /\ b.lines = h.lines
        /\ b.framing = h.framing /\ b.length = h.length /\ b.userChunked = h.userChunked
    BY DEF Calm, Near, Same, Fields
  <1>2. g.own => a.own
    BY DEF Calm, Near
  <1>3. h.headersSent
    BY DEF Good, InShape
  <1>4. Has(b, "transfer-encoding") <=> Has(h, "transfer-encoding")
    BY <1>3 DEF Calm, Near
  <1> QED BY <1>1, <1>2, <1>4 DEF Agree

LEMMA FlushPair ==
  ASSUME NEW q, NEW g, NEW h, Pair(q, g, h)
  PROVE  Paired(q, FlushHeaders(q, g), FlushHeaders(q, h))
  <1> DEFINE o == HeadOut(q, Implicit(g))
             w == [o EXCEPT !.early = TRUE]
  <1>1. ~g.finished /\ Good(q, g)
    BY DEF Pair
  <1>2. Shaped(o)
    BY <1>1, OutFacts DEF Formed
  <1> HIDE DEF o
  <1>3. w.early = TRUE
    BY <1>2 DEF Shaped, Fields
  <1>4. FlushHeaders(q, g) = w
    BY <1>1 DEF FlushHeaders, o
  <1> HIDE DEF w
  <1> QED BY <1>3, <1>4 DEF Paired

LEMMA WritePair ==
  ASSUME NEW q, NEW g, NEW h, Pair(q, g, h), NEW n
  PROVE  Paired(q, ResWrite(q, g, n), ResWrite(q, h, n))
  <1>1. CASE n = 0
    BY <1>1 DEF ResWrite, Paired
  <1>2. CASE n # 0
    BY <1>2, WriteEarly DEF Pair, Paired
  <1> QED BY <1>1, <1>2

LEMMA WriteHeadPair ==
  ASSUME NEW q, NEW g, NEW h, Pair(q, g, h), NEW c \in Codes, NEW p
  PROVE  Paired(q, ResWriteHead(g, c, p, SetHeader(g, "x-head", <<<<"a">>>>)),
                   ResWriteHead(h, c, p, SetHeader(h, "x-head", <<<<"a">>>>)))
  <1> DEFINE F(r) == SetHeader(r, "x-head", <<<<"a">>>>)
             W(r) == ResWriteHead(r, c, p, F(r))
  <1>0. /\ Formed(g) /\ Formed(h) /\ Shaped(g) /\ Shaped(h) /\ g.headersSent = h.headersSent
        /\ Twins(g, h) /\ Good(q, g) /\ Good(q, h) /\ q \in RequestType /\ q.method = "GET"
        /\ g.hasBody /\ ~h.hasBody /\ ~g.finished /\ ~g.early
    BY PairFacts DEF Pair
  <1>1. CASE g.headersSent
    <2>1. W(g) = Throws(g) /\ W(h) = Throws(h)
      BY <1>0, <1>1 DEF ResWriteHead
    <2> QED BY <2>1, ThrowPair
  <1>2. CASE ~g.headersSent
    <2>1. Calm(g, F(g)) /\ Calm(h, F(h)) /\ Twins(F(g), F(h))
      BY <1>0, SetHeaderCalm, TwinSetHeader
    <2>2. /\ Shaped(F(g)) /\ Shaped(F(h))
          /\ F(g).hasBody = g.hasBody /\ F(g).early = g.early /\ F(g).finished = g.finished
          /\ F(h).hasBody = h.hasBody
      BY <2>1 DEF Calm, Near, Formed, Same, Fields
    <2>3. Good(q, W(g)) /\ Good(q, W(h))
      BY <1>0, WriteHeadGood
    <2>4. Twins(W(g), W(h))
      BY <1>0, <2>1, <2>2, TwinWriteHead
    <2> HIDE DEF F
    <2>5. /\ W(g).hasBody = F(g).hasBody /\ W(g).early = F(g).early /\ W(g).finished = F(g).finished
          /\ W(h).hasBody = F(h).hasBody
      BY <1>0, <1>2, <2>2 DEF ResWriteHead, Shaped, Fields
    <2> HIDE DEF W
    <2>6. Pair(q, W(g), W(h))
      BY <1>0, <2>2, <2>3, <2>4, <2>5 DEF Pair
    <2> QED BY <2>6 DEF Paired, W, F
  <1> QED BY <1>1, <1>2

LEMMA FreshPair ==
  ASSUME NEW q \in RequestType, q.method = "GET"
  PROVE  Pair(q, Fresh(q, FALSE), Fresh(q, TRUE))
  <1> DEFINE seeds == IF q.shim \/ ~q.connectionHeaders THEN <<>>
                      ELSE <<Entry("connection", <<Lasting>>),
                             Entry("keep-alive", <<SeededKeepAlive>>)>>
             R(isHead) == [headers |-> seeds, hasBody |-> ~isHead,
              method |-> IF isHead THEN "HEAD" ELSE q.method,
              statusCode |-> 200, status |-> 200, phrase |-> "none",
              wirePhrase |-> "none", headersSent |-> FALSE, headOut |-> FALSE,
              chunked |-> TRUE, userChunked |-> FALSE, finished |-> FALSE,
              lines |-> <<>>, framing |-> "none", length |-> 0, bytes |-> 0,
              settled |-> <<>>, early |-> FALSE, own |-> FALSE, sent |-> FALSE,
              threw |-> FALSE]
             W(isHead) == IF q.close THEN Put(R(isHead), "connection", <<CloseText>>)
                          ELSE R(isHead)
  <1>1. Fresh(q, FALSE) = W(FALSE) /\ Fresh(q, TRUE) = W(TRUE)
    BY DEF Fresh
  <1> HIDE DEF seeds
  <1>2. /\ Shaped(R(FALSE)) /\ Shaped(R(TRUE)) /\ Twins(R(FALSE), R(TRUE))
        /\ R(FALSE).hasBody = TRUE /\ R(TRUE).hasBody = FALSE
        /\ R(FALSE).finished = FALSE /\ R(FALSE).early = FALSE
    <2> DEFINE N(b, m) == [headers |-> seeds, hasBody |-> b, method |-> m,
              statusCode |-> 200, status |-> 200, phrase |-> "none",
              wirePhrase |-> "none", headersSent |-> FALSE, headOut |-> FALSE,
              chunked |-> TRUE, userChunked |-> FALSE, finished |-> FALSE,
              lines |-> <<>>, framing |-> "none", length |-> 0, bytes |-> 0,
              settled |-> <<>>, early |-> FALSE, own |-> FALSE, sent |-> FALSE,
              threw |-> FALSE]
    <2> DEFINE Z == N(TRUE, "GET")
               V == N(FALSE, "HEAD")
    <2>1. R(FALSE) = Z /\ R(TRUE) = V
      OBVIOUS
    <2>2. Shaped(Z) /\ Shaped(V) /\ Z.hasBody = TRUE /\ V.hasBody = FALSE
      BY DEF Shaped, Fields
    <2>3. /\ Z.headers = seeds /\ Z.statusCode = 200 /\ Z.status = 200 /\ Z.phrase = "none"
          /\ Z.wirePhrase = "none" /\ Z.headersSent = FALSE /\ Z.headOut = FALSE
          /\ Z.chunked = TRUE /\ Z.userChunked = FALSE /\ Z.finished = FALSE
          /\ Z.lines = <<>> /\ Z.framing = "none" /\ Z.length = 0 /\ Z.bytes = 0
          /\ Z.settled = <<>> /\ Z.early = FALSE /\ Z.own = FALSE /\ Z.sent = FALSE
          /\ Z.threw = FALSE
      OBVIOUS
    <2>4. /\ V.headers = seeds /\ V.statusCode = 200 /\ V.status = 200 /\ V.phrase = "none"
          /\ V.wirePhrase = "none" /\ V.headersSent = FALSE /\ V.headOut = FALSE
          /\ V.chunked = TRUE /\ V.userChunked = FALSE /\ V.finished = FALSE
          /\ V.lines = <<>> /\ V.framing = "none" /\ V.length = 0 /\ V.bytes = 0
          /\ V.settled = <<>> /\ V.early = FALSE /\ V.own = FALSE /\ V.sent = FALSE
          /\ V.threw = FALSE
      OBVIOUS
    <2> HIDE DEF N, R, Z, V
    <2>5. Twins(Z, V)
      <3> SUFFICES ASSUME NEW f \in Fields, f # "hasBody", f # "method" PROVE V[f] = Z[f]
        BY DEF Twins, Same
      <3>1. \/ f \in {"headers", "statusCode", "status", "phrase", "wirePhrase"}
            \/ f \in {"headersSent", "headOut", "chunked", "userChunked", "finished"}
            \/ f \in {"lines", "framing", "length", "bytes", "settled"}
            \/ f \in {"early", "own", "sent", "threw"}
        BY DEF Fields
      <3>2. CASE f \in {"headers", "statusCode", "status", "phrase", "wirePhrase"}
        BY <2>3, <2>4, <3>2
      <3>3. CASE f \in {"headersSent", "headOut", "chunked", "userChunked", "finished"}
        BY <2>3, <2>4, <3>3
      <3>4. CASE f \in {"lines", "framing", "length", "bytes", "settled"}
        BY <2>3, <2>4, <3>4
      <3>5. CASE f \in {"early", "own", "sent", "threw"}
        BY <2>3, <2>4, <3>5
      <3> QED BY <3>1, <3>2, <3>3, <3>4, <3>5
    <2> QED BY <2>1, <2>2, <2>3, <2>5
  <1> DEFINE X == R(FALSE)
             Y == R(TRUE)
  <1>3. /\ Shaped(X) /\ Shaped(Y) /\ Twins(X, Y) /\ X.hasBody = TRUE /\ Y.hasBody = FALSE
        /\ X.finished = FALSE /\ X.early = FALSE
    BY <1>2
  <1>4. /\ Fresh(q, FALSE) = IF q.close THEN Put(X, "connection", <<CloseText>>) ELSE X
        /\ Fresh(q, TRUE) = IF q.close THEN Put(Y, "connection", <<CloseText>>) ELSE Y
    BY <1>1
  <1> HIDE DEF X, Y, R, W
  <1>5. Twins(Fresh(q, FALSE), Fresh(q, TRUE))
    BY <1>3, <1>4, TwinPut
  <1>6. /\ Fresh(q, FALSE).hasBody = TRUE /\ Fresh(q, TRUE).hasBody = FALSE
        /\ Fresh(q, FALSE).finished = FALSE /\ Fresh(q, FALSE).early = FALSE
    BY <1>3, <1>4 DEF Put, Shaped, Fields
  <1>7. Good(q, Fresh(q, FALSE)) /\ Good(q, Fresh(q, TRUE))
    BY FreshGood
  <1> QED BY <1>5, <1>6, <1>7 DEF Pair

\* A call on the two, whatever state they are in.
LEMMA CallPair ==
  ASSUME NEW q, NEW g, NEW h, Good(q, g), Good(q, h), Paired(q, g, h), NEW a, NEW b,
         Late(g, a), Late(h, b), Pair(q, g, h) => Paired(q, a, b)
  PROVE  Paired(q, a, b)
  <1>1. CASE g.early
    BY <1>1 DEF Late, Paired
  <1>2. CASE g.finished /\ h.finished /\ Agree(q, g, h)
    BY <1>2, AgreeLate DEF Late, Paired
  <1> QED BY <1>1, <1>2 DEF Paired

\* One that ends nothing.
LEMMA CalmCallPair ==
  ASSUME NEW q, NEW g, NEW h, Good(q, g), Good(q, h), Paired(q, g, h), NEW a, NEW b,
         Calm(g, a), Calm(h, b), Twins(g, h) => Twins(a, b)
  PROVE  Paired(q, a, b)
  <1>1. Pair(q, g, h) => Paired(q, a, b)
    BY CalmPair DEF Pair, Paired
  <1> QED BY <1>1, CalmLate, CallPair

LEMMA CaughtPair ==
  ASSUME NEW q, NEW g, NEW h, Good(q, g), Good(q, h), Paired(q, g, h)
  PROVE  Paired(q, [g EXCEPT !.threw = FALSE], [h EXCEPT !.threw = FALSE])
  <1>1. Formed(g) /\ Formed(h)
    BY GoodIsFormed
  <1>2. Calm(g, [g EXCEPT !.threw = FALSE]) /\ Calm(h, [h EXCEPT !.threw = FALSE])
    BY <1>1, ThrowCalm
  <1>3. Twins(g, h) => Twins([g EXCEPT !.threw = FALSE], [h EXCEPT !.threw = FALSE])
    BY <1>1, TwinThrow DEF Formed
  <1> QED BY <1>2, <1>3, CalmCallPair

-----------------------------------------------------------------------------
\* What the two responses keep.
TwinInv == asked.method = "GET" => Paired(asked, get, head)

LEMMA TwinStep == AnswerInv /\ TwinInv /\ ResNext => TwinInv'
  <1> SUFFICES ASSUME AnswerInv, TwinInv, ResNext PROVE TwinInv'
    OBVIOUS
  <1> DEFINE g == [get EXCEPT !.threw = FALSE]
             h == [head EXCEPT !.threw = FALSE]
  <1>0. asked \in RequestType /\ BodySizes \subseteq Nat /\ "content-length" \notin Names
    BY AnswerAssumption DEF AnswerInv
  <1>1. /\ Good(asked, g) /\ ~g.threw /\ Good(asked, h) /\ ~h.threw
    BY CaughtGood DEF AnswerInv
  <1>2. Formed(g) /\ Formed(h)
    BY <1>1, GoodIsFormed
  <1> SUFFICES ASSUME asked'.method = "GET" PROVE Paired(asked', get', head')
    BY DEF TwinInv
  <1>a. asked' = asked
    BY DEF ResNext, Calls, CallStatus, CallSet, CallConnection, CallType, CallAppend, CallRemove,
           CallChunked, CallRaw, CallLength, CallWriteHead, CallFlush, CallWrite, CallLocation,
           CallVary, CallEnd, CallSend, CallJson, CallJsonp, CallSendStatus, CallRedirect
  <1>3. Paired(asked, g, h)
    BY <1>a, CaughtPair DEF AnswerInv, TwinInv
  <1> HIDE DEF g, h
  <1> SUFFICES Paired(asked, get', head')
    BY <1>a
  <1>4. CASE CallStatus
    <2>1. PICK c \in Codes \cup {0} : get' = Status(g, c) /\ head' = Status(h, c)
      BY <1>4 DEF CallStatus, Calls, g, h
    <2>2. Calm(g, get') /\ Calm(h, head')
      BY <1>2, <2>1, StatusCalm
    <2>3. Twins(g, h) => Twins(get', head')
      BY <1>2, <2>1, TwinStatus DEF Formed
    <2> QED BY <1>1, <1>3, <2>2, <2>3, CalmCallPair
  <1>5. CASE CallSet \/ CallConnection \/ CallChunked
    <2>1. PICK n, t : /\ n # "content-length" /\ get' = SetHeader(g, n, t)
                      /\ head' = SetHeader(h, n, t)
      BY <1>0, <1>5 DEF CallSet, CallConnection, CallChunked, Calls, g, h
    <2>2. Calm(g, get') /\ Calm(h, head')
      BY <1>2, <2>1, SetHeaderCalm
    <2>3. Twins(g, h) => Twins(get', head')
      BY <1>2, <2>1, TwinSetHeader
    <2> QED BY <1>1, <1>3, <2>2, <2>3, CalmCallPair
  <1>6. CASE CallType
    <2>1. PICK t : get' = SetType(g, t) /\ head' = SetType(h, t)
      BY <1>6 DEF CallType, Calls, g, h
    <2>2. Calm(g, get') /\ Calm(h, head')
      BY <1>2, <2>1, SetTypeCalm
    <2>3. Twins(g, h) => Twins(get', head')
      BY <1>2, <2>1, TwinSetType
    <2> QED BY <1>1, <1>3, <2>2, <2>3, CalmCallPair
  <1>7. CASE CallAppend
    <2>1. PICK n \in Names : /\ get' = AppendHeader(g, n, <<"b">>)
                             /\ head' = AppendHeader(h, n, <<"b">>)
      BY <1>7 DEF CallAppend, Calls, g, h
    <2>2. Calm(g, get') /\ Calm(h, head')
      BY <1>0, <1>2, <2>1, SetHeaderCalm DEF AppendHeader
    <2>3. Twins(g, h) => Twins(get', head')
      BY <1>2, <2>1, TwinAppendHeader
    <2> QED BY <1>1, <1>3, <2>2, <2>3, CalmCallPair
  <1>8. CASE CallRemove
    <2>1. PICK n : get' = RemoveHeader(g, n) /\ head' = RemoveHeader(h, n)
      BY <1>8 DEF CallRemove, Calls, g, h
    <2>2. Calm(g, get') /\ Calm(h, head')
      BY <1>2, <2>1, RemoveHeaderCalm
    <2>3. Twins(g, h) => Twins(get', head')
      BY <1>2, <2>1, TwinRemoveHeader
    <2> QED BY <1>1, <1>3, <2>2, <2>3, CalmCallPair
  <1>9. CASE CallRaw
    <2> DEFINE X == [name |-> "x-raw", texts |-> <<<<"1">>>>, raw |-> TRUE]
               R(r) == IF r.headersSent \/ Has(r, "x-raw") THEN r
                       ELSE [r EXCEPT !.headers = Append(@, X)]
    <2>1. get' = R(g) /\ head' = R(h)
      BY <1>9 DEF CallRaw, Calls, g, h
    <2>2. Calm(g, R(g)) /\ Calm(h, R(h))
      BY <1>2, RawCalm
    <2> HIDE DEF X
    <2>3. Twins(g, h) => Twins(R(g), R(h))
      BY <1>2, TwinRaw DEF Formed
    <2> HIDE DEF R
    <2> QED BY <1>1, <1>3, <2>1, <2>2, <2>3, CalmCallPair
  <1>10. CASE CallLength
    <2>1. PICK t : /\ get' = [SetHeader(g, "content-length", t) EXCEPT !.own = TRUE]
                   /\ head' = [SetHeader(h, "content-length", t) EXCEPT !.own = TRUE]
      BY <1>10 DEF CallLength, Calls, g, h
    <2>2. Calm(g, get') /\ Calm(h, head')
      BY <1>2, <2>1, LengthCalm
    <2>3. Twins(g, h) => Twins(get', head')
      BY <1>2, <2>1, TwinLength
    <2> QED BY <1>1, <1>3, <2>2, <2>3, CalmCallPair
  <1>11. CASE CallWriteHead
    <2>1. PICK c \in Codes, p \in {"none", "own"} : /\ get' = ResWriteHead(g, c, p, SetHeader(g, "x-head", <<<<"a">>>>))
                                /\ head' = ResWriteHead(h, c, p, SetHeader(h, "x-head", <<<<"a">>>>))
      BY <1>11 DEF CallWriteHead, Calls, g, h
    <2>2. Late(g, get') /\ Late(h, head')
      BY <1>1, <2>1, WriteHeadLate
    <2>3. Pair(asked, g, h) => Paired(asked, get', head')
      BY <2>1, WriteHeadPair
    <2> QED BY <1>1, <1>3, <2>2, <2>3, CallPair
  <1>12. CASE CallFlush
    <2>1. get' = FlushHeaders(asked, g) /\ head' = FlushHeaders(asked, h)
      BY <1>12 DEF CallFlush, Calls, g, h
    <2>2. Late(g, get') /\ Late(h, head')
      BY <1>1, <2>1, FlushLate
    <2>3. Pair(asked, g, h) => Paired(asked, get', head')
      BY <2>1, FlushPair
    <2> QED BY <1>1, <1>3, <2>2, <2>3, CallPair
  <1>13. CASE CallWrite
    <2>1. PICK n : get' = ResWrite(asked, g, n) /\ head' = ResWrite(asked, h, n)
      BY <1>13 DEF CallWrite, Calls, g, h
    <2>2. Late(g, get') /\ Late(h, head')
      BY <1>1, <2>1, WriteLate
    <2>3. Pair(asked, g, h) => Paired(asked, get', head')
      BY <2>1, WritePair
    <2> QED BY <1>1, <1>3, <2>2, <2>3, CallPair
  <1>14. CASE CallLocation
    <2>1. get' = Location(g) /\ head' = Location(h)
      BY <1>14 DEF CallLocation, Calls, g, h
    <2>2. Calm(g, get') /\ Calm(h, head')
      BY <1>2, <2>1, PutCalm DEF Location
    <2>3. Twins(g, h) => Twins(get', head')
      BY <1>2, <2>1, TwinPut DEF Location, Formed
    <2> QED BY <1>1, <1>3, <2>2, <2>3, CalmCallPair
  <1>15. CASE CallVary
    <2>1. get' = Vary(g) /\ head' = Vary(h)
      BY <1>15 DEF CallVary, Calls, g, h
    <2>2. Calm(g, get') /\ Calm(h, head')
      BY <1>2, <2>1, SetHeaderCalm DEF Vary
    <2>3. Twins(g, h) => Twins(get', head')
      BY <1>2, <2>1, TwinSetHeader DEF Vary
    <2> QED BY <1>1, <1>3, <2>2, <2>3, CalmCallPair
  <1>16. CASE CallEnd
    <2>1. PICK n \in Nat : get' = ResEnd(asked, g, n) /\ head' = ResEnd(asked, h, n)
      BY <1>0, <1>16 DEF CallEnd, Calls, g, h
    <2>2. Late(g, get') /\ Late(h, head')
      BY <1>1, <2>1, EndLate
    <2>3. Pair(asked, g, h) => Paired(asked, get', head')
      BY <2>1, EndPair
    <2> QED BY <1>1, <1>3, <2>2, <2>3, CallPair
  <1>17. CASE CallSend
    <2>1. PICK k \in {"text", "bytes", "null", "undefined", "object", "unserialisable"},
               n \in BodySizes :
              /\ get' = ResSend(asked, g, k, IF k = "null" THEN 0 ELSE n)
              /\ head' = ResSend(asked, h, k, IF k = "null" THEN 0 ELSE n)
      BY <1>17 DEF CallSend, Calls, g, h
    <2>2. (IF k = "null" THEN 0 ELSE n) \in Nat
      BY <1>0
    <2>3. Late(g, get') /\ Late(h, head')
      BY <1>1, <2>1, SendLate
    <2>4. Pair(asked, g, h) => Paired(asked, get', head')
      BY <2>1, <2>2, SendPair
    <2> QED BY <1>1, <1>3, <2>3, <2>4, CallPair
  <1>18. CASE CallJson
    <2>1. PICK k \in {"object", "undefined", "unserialisable"}, n \in BodySizes :
              get' = Json(asked, g, k, n) /\ head' = Json(asked, h, k, n)
      BY <1>18 DEF CallJson, Calls, g, h
    <2>2. Late(g, get') /\ Late(h, head')
      BY <1>1, <2>1, JsonLate
    <2>3. Pair(asked, g, h) => Paired(asked, get', head')
      BY <1>0, <2>1, JsonPair
    <2> QED BY <1>1, <1>3, <2>2, <2>3, CallPair
  <1>19. CASE CallJsonp
    <2>1. PICK c \in BOOLEAN, n \in BodySizes :
              get' = Jsonp(asked, g, c, n) /\ head' = Jsonp(asked, h, c, n)
      BY <1>19 DEF CallJsonp, Calls, g, h
    <2>2. Late(g, get') /\ Late(h, head')
      BY <1>1, <2>1, JsonpLate
    <2>3. Pair(asked, g, h) => Paired(asked, get', head')
      BY <1>0, <2>1, JsonpPair
    <2> QED BY <1>1, <1>3, <2>2, <2>3, CallPair
  <1>20. CASE CallSendStatus
    <2>1. PICK c \in Codes : get' = SendStatus(asked, g, c) /\ head' = SendStatus(asked, h, c)
      BY <1>20 DEF CallSendStatus, Calls, g, h
    <2>2. Late(g, get') /\ Late(h, head')
      BY <1>1, <2>1, SendStatusLate
    <2>3. Pair(asked, g, h) => Paired(asked, get', head')
      BY <2>1, SendStatusPair
    <2> QED BY <1>1, <1>3, <2>2, <2>3, CallPair
  <1>21. CASE CallRedirect
    <2>1. PICK c \in {302, 304} : get' = Redirect(asked, g, c) /\ head' = Redirect(asked, h, c)
      BY <1>21 DEF CallRedirect, Calls, g, h
    <2>2. c \in 100 .. 999
      OBVIOUS
    <2>3. Late(g, get') /\ Late(h, head')
      BY <1>0, <1>1, <2>1, <2>2, RedirectLate
    <2>4. Pair(asked, g, h) => Paired(asked, get', head')
      BY <1>1, <2>1, <2>2, RedirectPair
    <2> QED BY <1>1, <1>3, <2>3, <2>4, CallPair
  <1> QED BY <1>4, <1>5, <1>6, <1>7, <1>8, <1>9, <1>10, <1>11, <1>12, <1>13, <1>14, <1>15, <1>16,
             <1>17, <1>18, <1>19, <1>20, <1>21 DEF ResNext

\* Of every program: the HEAD of a route is told what its GET would have been.
THEOREM HeadAsGet == ResSpec => []HeadSaysAsGet
  <1>1. ResInit => AnswerInv /\ TwinInv
    <2> SUFFICES ASSUME ResInit PROVE AnswerInv /\ TwinInv
      OBVIOUS
    <2>1. asked \in RequestType /\ get = Fresh(asked, FALSE) /\ head = Fresh(asked, TRUE)
      BY AnswerAssumption DEF ResInit
    <2> QED BY <2>1, FreshGood, FreshPair DEF AnswerInv, TwinInv, Paired
  <1>2. AnswerInv /\ TwinInv /\ [ResNext]_resVars => (AnswerInv /\ TwinInv)'
    <2>1. CASE UNCHANGED resVars
      BY <2>1 DEF resVars, AnswerInv, TwinInv
    <2> QED BY <2>1, AnswerStep, TwinStep
  <1>3. AnswerInv /\ TwinInv => HeadSaysAsGet
    BY PairFacts DEF TwinInv, Paired, Pair, Agree, HeadSaysAsGet
  <1> QED BY <1>1, <1>2, <1>3, PTL DEF ResSpec
=============================================================================

---------------------------- MODULE ServerProofs ----------------------------
(***************************************************************************)
(* What TLAPS proves of the workers of a cluster (Cluster) and of the      *)
(* handshake of a websocket (Upgrade), for every value of their constants. *)
(***************************************************************************)
EXTENDS Cluster, Upgrade, DataLemmas

-----------------------------------------------------------------------------
(* The handshake. *)

Endings == {"none", "left", "upgrade", "answer", "400", "500"}
UpgradeCall == {"upgrade", "answer", "400", "500", "onAborted", "address"}

UpgradeTypeOK ==
    /\ hook \in {"none", "sync", "async"} /\ params \in {"fine", "broken"}
    /\ phase \in {"new", "hook", "waiting", "over"}
    /\ response \in [finished : BOOLEAN, aborted : BOOLEAN]
    /\ aborted \in BOOLEAN /\ detached \in BOOLEAN /\ open \in BOOLEAN
    /\ ending \in Endings /\ stray \in SUBSET UpgradeCall

\* What ended the native response is what the flags say of it: whoever may still
\* speak has one that tells it, but for the hook's own answer, and for the handler
\* that goes on to register onAborted.
FlagsTell ==
    /\ open <=> ending = "none"
    /\ aborted = response.aborted
    /\ response.aborted <=> ending = "left"
    /\ response.finished <=> ending \in {"answer", "500"}
    /\ ending = "upgrade" => detached
    /\ ending = "400" => params = "broken"

PhaseTells ==
    /\ phase = "new" => open
    /\ phase = "over" => ~open
    /\ phase = "hook" => ending \in {"none", "answer"}
    /\ phase = "waiting" => ending \in {"none", "answer", "left"}
    /\ phase \in {"hook", "waiting"} => hook # "none" /\ params = "fine"

UpgradeInv == UpgradeTypeOK /\ OneHandshake /\ FlagsTell /\ PhaseTells

LEMMA UpgradeInvInit == UpgradeInit => UpgradeInv
  <1> SUFFICES ASSUME UpgradeInit PROVE UpgradeInv
    OBVIOUS
  <1>1. /\ phase = "new" /\ response = [finished |-> FALSE, aborted |-> FALSE]
        /\ aborted = FALSE /\ detached = FALSE /\ open = TRUE /\ ending = "none" /\ stray = {}
    BY DEF UpgradeInit
  <1>2. UpgradeTypeOK
    <2>1. hook \in {"none", "sync", "async"} /\ params \in {"fine", "broken"}
      BY DEF UpgradeInit
    <2>2. response \in [finished : BOOLEAN, aborted : BOOLEAN]
      BY <1>1
    <2>3. stray \in SUBSET UpgradeCall
      BY <1>1
    <2>4. phase \in {"new", "hook", "waiting", "over"} /\ ending \in Endings
      BY <1>1 DEF Endings
    <2>5. aborted \in BOOLEAN /\ detached \in BOOLEAN /\ open \in BOOLEAN
      BY <1>1
    <2> QED BY <2>1, <2>2, <2>3, <2>4, <2>5 DEF UpgradeTypeOK
  <1>3. OneHandshake
    BY <1>1 DEF OneHandshake, upgraded
  <1>4. FlagsTell /\ PhaseTells
    BY <1>1 DEF FlagsTell, PhaseTells
  <1> QED BY <1>2, <1>3, <1>4 DEF UpgradeInv

\* The hook's or the framework's answer, from where each may be given.
LEMMA ReplyKeeps ==
  ASSUME UpgradeInv, NEW call \in {"answer", "500"}, Reply(call),
         UNCHANGED <<hook, params, aborted>>,
         hook # "none" /\ params = "fine", phase # "new",
         \/ phase' = phase /\ call = "answer"
         \/ phase' = "over" /\ phase \in {"hook", "waiting"} /\ ~aborted
  PROVE  UpgradeInv'
  <1> USE DEF UpgradeTypeOK, FlagsTell, PhaseTells, Endings, UpgradeCall
  <1>1. CASE response.finished
    BY <1>1 DEF Reply, UpgradeInv, OneHandshake, upgraded
  <1>2. CASE ~response.finished /\ open
    <2>1. /\ response' = [response EXCEPT !.finished = TRUE] /\ ending' = call
          /\ open' = FALSE /\ UNCHANGED <<stray, detached>>
      BY <1>2 DEF Reply, Gone
    <2>2. ending = "none" /\ stray = {}
      BY <1>2 DEF UpgradeInv, OneHandshake
    <2> QED BY <1>2, <2>1, <2>2 DEF UpgradeInv, OneHandshake, upgraded
  <1>3. CASE ~response.finished /\ ~open
    <2>1. call = "answer" /\ ending \in {"left", "upgrade"} /\ phase' = phase
      BY <1>3 DEF UpgradeInv, OneHandshake
    <2>2. response' = [response EXCEPT !.finished = FALSE] /\ stray' = stray \cup {call}
          /\ open' = FALSE /\ UNCHANGED <<ending, detached>>
      BY <1>3 DEF Reply, Gone, UpgradeInv
    <2>3. response' = response
      BY <1>3, <2>2 DEF UpgradeInv
    <2> QED BY <1>3, <2>1, <2>2, <2>3 DEF UpgradeInv, OneHandshake, upgraded
  <1> QED BY <1>1, <1>2, <1>3

\* accept(), at the end of what decided.
LEMMA AcceptKeeps ==
  ASSUME UpgradeInv, Accept, UNCHANGED <<hook, params, response, aborted>>,
         phase' = "over", params = "fine",
         phase \in {"new", "hook", "waiting"}
  PROVE  UpgradeInv'
  <1> USE DEF UpgradeTypeOK, FlagsTell, PhaseTells, Endings, UpgradeCall
  <1>1. CASE aborted \/ response.finished
    BY <1>1 DEF Accept, Silent, UpgradeInv, OneHandshake, upgraded
  <1>2. CASE ~(aborted \/ response.finished)
    <2>1. open /\ ending = "none" /\ stray = {}
      BY <1>2 DEF UpgradeInv, OneHandshake
    <2>2. /\ detached' = TRUE /\ ending' = "upgrade" /\ open' = FALSE /\ stray' = stray
      BY <1>2, <2>1 DEF Accept, Gone
    <2> QED BY <1>2, <2>1, <2>2 DEF UpgradeInv, OneHandshake, upgraded
  <1> QED BY <1>1, <1>2

LEMMA UpgradeInvNext ==
  ASSUME UpgradeInv, [UpgradeNext]_upgradeVars
  PROVE  UpgradeInv'
  <1> USE DEF UpgradeTypeOK, FlagsTell, PhaseTells, Endings, UpgradeCall
  <1>1. CASE Enter
    <2>1. open /\ ending = "none" /\ stray = {} /\ ~response.finished /\ ~response.aborted
      BY <1>1 DEF Enter, UpgradeInv, OneHandshake
    <2>2. CASE params = "broken"
      <3>1. /\ ending' = "400" /\ open' = FALSE /\ phase' = "over"
            /\ UNCHANGED <<response, detached, stray, hook, params, aborted>>
        BY <1>1, <2>1, <2>2 DEF Enter, Gone
      <3> QED BY <2>1, <2>2, <3>1 DEF UpgradeInv, OneHandshake, upgraded
    <2>3. CASE params = "fine" /\ hook = "none"
      BY <1>1, <2>3, AcceptKeeps DEF Enter
    <2>4. CASE params = "fine" /\ hook # "none"
      <3>1. /\ phase' = "hook"
            /\ UNCHANGED <<response, detached, open, ending, stray, hook, params, aborted>>
        BY <1>1, <2>4 DEF Enter, Silent
      <3> QED BY <2>1, <2>4, <3>1 DEF UpgradeInv, OneHandshake, upgraded
    <2> QED BY <2>2, <2>3, <2>4 DEF UpgradeInv
  <1>2. CASE HookAnswers
    BY <1>2, ReplyKeeps DEF HookAnswers, UpgradeInv
  <1>3. CASE HookThrows
    BY <1>3, ReplyKeeps DEF HookThrows, UpgradeInv
  <1>4. CASE HookReturns
    <2>1. CASE hook = "sync"
      BY <1>4, <2>1, AcceptKeeps DEF HookReturns, UpgradeInv
    <2>2. CASE hook # "sync" /\ open
      <3>1. phase' = "waiting"
            /\ UNCHANGED <<response, detached, open, ending, stray, hook, params, aborted>>
        BY <1>4, <2>2 DEF HookReturns, Touches
      <3> QED BY <1>4, <2>2, <3>1 DEF HookReturns, UpgradeInv, OneHandshake, upgraded
    <2>3. CASE hook # "sync" /\ ~open
      <3>1. /\ phase' = "over" /\ stray' = stray \cup {"onAborted"}
            /\ UNCHANGED <<response, detached, open, ending, hook, params, aborted>>
        BY <1>4, <2>3 DEF HookReturns, Touches
      <3>2. hook = "async" /\ ending = "answer"
        BY <1>4, <2>3 DEF HookReturns, UpgradeInv
      <3> QED BY <1>4, <2>3, <3>1, <3>2 DEF UpgradeInv, OneHandshake, upgraded
    <2> QED BY <2>1, <2>2, <2>3
  <1>5. CASE HookResolves
    BY <1>5, AcceptKeeps DEF HookResolves, UpgradeInv
  <1>6. CASE HookRejects
    <2>1. CASE aborted
      BY <1>6, <2>1 DEF HookRejects, Silent, UpgradeInv, OneHandshake, upgraded
    <2>2. CASE ~aborted
      BY <1>6, <2>2, ReplyKeeps DEF HookRejects, UpgradeInv
    <2> QED BY <2>1, <2>2
  <1>7. CASE Leave
    <2>1. ending = "none" /\ stray = {} /\ ~response.finished
      BY <1>7 DEF Leave, UpgradeInv, OneHandshake
    <2> QED BY <1>7, <2>1 DEF Leave, UpgradeInv, OneHandshake, upgraded
  <1>8. CASE AskPeer
    <2>1. UNCHANGED upgradeVars
      BY <1>8 DEF AskPeer, upgraded, UpgradeInv, upgradeVars
    <2> QED BY <2>1 DEF upgradeVars, UpgradeInv, OneHandshake, upgraded
  <1>9. CASE UNCHANGED upgradeVars
    BY <1>9 DEF upgradeVars, UpgradeInv, OneHandshake, upgraded
  <1> QED
    BY <1>1, <1>2, <1>3, <1>4, <1>5, <1>6, <1>7, <1>8, <1>9 DEF UpgradeNext

\* In whatever order the hook, its promise and the client come, the framework's own
\* calls of a handshake find the native response there, one of them at most, and what
\* finds it gone is the hook's answer to nobody, or onAborted behind an answer given
\* before the first await (websocket.js).
THEOREM HandshakeAnsweredOnce == UpgradeSpec => []OneHandshake
  <1>1. UpgradeInv => OneHandshake
    BY DEF UpgradeInv
  <1> QED
    BY <1>1, UpgradeInvInit, UpgradeInvNext, PTL DEF UpgradeSpec

-----------------------------------------------------------------------------
(* The workers of a cluster. *)

\* The order of a set of numbers counts it through.
LEMMA Ranks ==
  ASSUME NEW N \in Nat, NEW L \in SUBSET (1 .. N),
         NEW rank, rank = [a \in L |-> Cardinality({b \in L : b <= a})]
  PROVE  /\ IsFiniteSet(L) /\ Cardinality(L) \in Nat
         /\ rank \in [L -> 1 .. Cardinality(L)]
         /\ \A a, b \in L : rank[a] = rank[b] => a = b
         /\ \A i \in 1 .. Cardinality(L) : \E a \in L : rank[a] = i
  <1> DEFINE AtMost(a) == {b \in L : b <= a}
  <1>0. IsFiniteSet(1 .. N)
    BY FS_Interval
  <1>1. IsFiniteSet(L) /\ Cardinality(L) \in Nat
    BY <1>0, FS_Subset, FS_CardinalityType
  <1>2. ASSUME NEW a \in L
        PROVE  IsFiniteSet(AtMost(a)) /\ Cardinality(AtMost(a)) \in 1 .. Cardinality(L)
    <2>1. AtMost(a) \in SUBSET L /\ a \in AtMost(a)
      OBVIOUS
    <2>2. IsFiniteSet(AtMost(a)) /\ Cardinality(AtMost(a)) <= Cardinality(L)
      BY <1>1, <2>1, FS_Subset
    <2>3. Cardinality(AtMost(a)) \in Nat /\ Cardinality(AtMost(a)) # 0
      BY <2>1, <2>2, FS_CardinalityType, FS_EmptySet
    <2> HIDE DEF AtMost
    <2> QED BY <1>1, <2>2, <2>3
  <1>3. rank \in [L -> 1 .. Cardinality(L)]
    BY <1>2
  <1>4. ASSUME NEW a \in L, NEW b \in L, a < b
        PROVE  Cardinality(AtMost(a)) # Cardinality(AtMost(b))
    <2>0. a \in Int /\ b \in Int /\ \A x \in L : x \in Int
      OBVIOUS
    <2>2. \A x \in L : x <= a => x <= b
      BY <1>4, <2>0
    <2>3. b <= b /\ ~(b <= a)
      BY <1>4, <2>0
    <2>1. AtMost(a) \in SUBSET AtMost(b) /\ b \in AtMost(b) /\ b \notin AtMost(a)
      BY <2>2, <2>3
    <2> HIDE DEF AtMost
    <2> QED BY <1>2, <2>1, FS_Subset
  <1>5. \A a, b \in L : rank[a] = rank[b] => a = b
    <2> SUFFICES ASSUME NEW a \in L, NEW b \in L, rank[a] = rank[b], a # b PROVE FALSE
      OBVIOUS
    <2>1. a < b \/ b < a
      OBVIOUS
    <2> QED BY <1>4, <2>1
  <1> DEFINE I == 1 .. Cardinality(L)
  <1>6. IsFiniteSet(I) /\ Cardinality(I) = Cardinality(L)
    BY <1>1, FS_Interval
  <1>7. rank \in Injection(L, I)
    BY <1>3, <1>5 DEF Injection, IsInjective
  <1>8. rank \in Surjection(L, I)
    <2> HIDE DEF I
    <2> QED BY <1>6, <1>7, FS_Injection
  <1>9. \A i \in I : \E a \in L : rank[a] = i
    BY <1>8 DEF Surjection
  <1> QED BY <1>1, <1>3, <1>5, <1>9

\* The workers that were forked are the first of the ids.
Forked == MaxForks - Cardinality(Unborn)

LEMMA ForkedIs ==
  ASSUME TypeOK
  PROVE  /\ Forked \in 0 .. MaxForks /\ Cardinality(Unborn) = MaxForks - Forked
         /\ \A i : New(i) = Forked + i
         /\ \A w \in Ids : worker[w] = "unborn" <=> w > Forked
  <1>1. Unborn \in SUBSET Ids /\ IsFiniteSet(Ids) /\ Cardinality(Ids) = MaxForks
    BY FS_Interval, ClusterAssumption DEF Unborn, In, Ids
  <1>2. Cardinality(Unborn) \in Nat /\ Cardinality(Unborn) <= MaxForks
    BY <1>1, FS_Subset, FS_CardinalityType
  <1>3. \A i : New(i) = Forked + i
    BY DEF New, Forked
  <1>4. Unborn = Forked + 1 .. MaxForks
    BY <1>3 DEF TypeOK
  <1>5. Forked \in 0 .. MaxForks
    BY <1>2, ClusterAssumption DEF Forked
  <1>6. \A w \in Ids : worker[w] = "unborn" <=> w \in Forked + 1 .. MaxForks
    BY <1>4 DEF Unborn, In
  <1>7. \A w \in Ids : worker[w] = "unborn" <=> w > Forked
    BY <1>5, <1>6, ClusterAssumption DEF Ids
  <1>8. Cardinality(Unborn) = MaxForks - Forked
    BY <1>2, ClusterAssumption DEF Forked
  <1> QED BY <1>3, <1>5, <1>7, <1>8

\* And the other way round.
UnbornIn(state) == {w \in Ids : state[w] = "unborn"}

LEMMA UnbornIs ==
  ASSUME NEW n \in 0 .. MaxForks, NEW state,
         \A w \in Ids : state[w] = "unborn" <=> w > n
  PROVE  UnbornIn(state) = MaxForks - Cardinality(UnbornIn(state)) + 1 .. MaxForks
  <1>1. UnbornIn(state) = n + 1 .. MaxForks
    BY ClusterAssumption DEF UnbornIn, Ids
  <1>2. Cardinality(n + 1 .. MaxForks) = IF n + 1 > MaxForks THEN 0 ELSE MaxForks - (n + 1) + 1
    <2>1. n + 1 \in Int /\ MaxForks \in Int
      BY ClusterAssumption
    <2> QED BY <2>1, FS_Interval
  <1>3. Cardinality(UnbornIn(state)) = MaxForks - n
    BY <1>1, <1>2, ClusterAssumption
  <1> QED BY <1>1, <1>3, ClusterAssumption

\* The types but for the order of the ids.
Typed ==
    /\ supervising \in BOOLEAN
    /\ calls \in [Apps -> {"none", "running", "stopped"}]
    /\ handle \in [Apps -> BOOLEAN]
    /\ index \in [Apps -> [Ids -> Places \cup {None}]]
    /\ worker \in [Ids -> {"unborn", "up", "ended", "gone"}]
    /\ place \in [Ids -> Places \cup {None}]
    /\ killed \in [Ids -> BOOLEAN] /\ busy \in [Ids -> BOOLEAN]
    /\ cut \in BOOLEAN /\ bound \in BOOLEAN
    /\ polling \in BOOLEAN /\ exited \in BOOLEAN

LEMMA TypeOKIs == TypeOK <=> Typed /\ Unborn = New(1) .. MaxForks
  BY DEF TypeOK, Typed

\* What a worker's end does: one replacement for each application that keeps
\* workers, at the place the application has for the one that ended.
Replaced(fork, w) ==
    /\ \A a, b \in Running : fork[a] = fork[b] => a = b
    /\ \A a \in Running : worker[fork[a]] = "unborn"
    /\ worker' = [v \in Ids |-> IF v = w THEN "gone"
                                ELSE IF \E a \in Running : v = fork[a] THEN "up" ELSE worker[v]]
    /\ \A a \in Running : place'[fork[a]] = index[a][w]
    /\ \A v \in Ids : (\A a \in Running : v # fork[a]) => place'[v] = place[v]
    /\ index' = [a \in Apps |-> [v \in Ids |->
                    IF a \notin Running THEN index[a][v]
                    ELSE IF v = fork[a] THEN index[a][w]
                    ELSE IF v = w THEN None ELSE index[a][v]]]

LEMMA ExitReplaces ==
  ASSUME TypeOK, NEW w \in Ids, Exit(w)
  PROVE  /\ \E fork \in [Running -> Ids] : Replaced(fork, w)
         /\ place' \in [Ids -> Places \cup {None}]
         /\ Unborn' = New(1)' .. MaxForks
  <1> DEFINE L == Running
             n == Forked
             rank == [a \in L |-> Cardinality({b \in L : b <= a})]
             fork == [a \in L |-> n + rank[a]]
             born(v) == {a \in L : v = New(RankIn(a))}
  <1>1. L \in SUBSET (1 .. NApps) /\ NApps \in Nat
    BY ClusterAssumption DEF Running, Apps
  <1>2. /\ Cardinality(L) \in Nat
        /\ rank \in [L -> 1 .. Cardinality(L)]
        /\ \A a, b \in L : rank[a] = rank[b] => a = b
        /\ \A i \in 1 .. Cardinality(L) : \E a \in L : rank[a] = i
    <2>1. rank = [a \in L |-> Cardinality({b \in L : b <= a})]
      OBVIOUS
    <2> HIDE DEF L, rank
    <2> QED BY <1>1, <2>1, Ranks
  <1>3. /\ n \in 0 .. MaxForks /\ Cardinality(Unborn) = MaxForks - n
        /\ \A i : New(i) = n + i
        /\ \A v \in Ids : worker[v] = "unborn" <=> v > n
    BY ForkedIs
  <1>4. n + Cardinality(L) <= MaxForks
    BY <1>2, <1>3, ClusterAssumption DEF Exit, Listeners
  <1>5. \A a \in L : RankIn(a) = rank[a] /\ New(RankIn(a)) = fork[a]
    BY <1>3 DEF RankIn, Listeners
  <1> HIDE DEF n, L, rank
  <1>6. \A a \in L : fork[a] \in Ids /\ fork[a] > n /\ fork[a] <= n + Cardinality(L)
    BY <1>2, <1>3, <1>4, ClusterAssumption DEF Ids
  <1>7. \A a, b \in L : fork[a] = fork[b] => a = b
    BY <1>2, <1>3
  <1>8. \A v \in Ids : v > n /\ v <= n + Cardinality(L) => \E a \in L : v = fork[a]
    <2> SUFFICES ASSUME NEW v \in Ids, v > n, v <= n + Cardinality(L)
                 PROVE  \E a \in L : v = fork[a]
      OBVIOUS
    <2>1. v - n \in 1 .. Cardinality(L)
      BY <1>2, <1>3 DEF Ids
    <2>2. PICK a \in L : rank[a] = v - n
      BY <2>1, <1>2
    <2> QED BY <2>2, <1>3 DEF Ids
  <1> HIDE DEF fork
  <1>9. \A v : born(v) = {a \in L : v = fork[a]}
    BY <1>5
  <1>10. /\ \A a \in L : a \in born(fork[a]) /\ (CHOOSE b \in born(fork[a]) : TRUE) = a
         /\ \A v : born(v) = {} <=> \A a \in L : v # fork[a]
    <2>1. ASSUME NEW a \in L PROVE born(fork[a]) = {a}
      BY <1>7, <1>9
    <2> HIDE DEF born
    <2> QED BY <2>1, <1>9
  <1>11. worker' = [v \in Ids |-> IF v = w THEN "gone"
                                  ELSE IF born(v) # {} THEN "up" ELSE worker[v]]
    BY DEF Exit, L, Listeners
  <1>12. place' = [v \in Ids |-> IF born(v) = {} THEN place[v]
                                 ELSE PlaceOf(CHOOSE a \in born(v) : TRUE, w)]
    BY DEF Exit, L, Listeners
  <1>13. index' = [a \in Apps |-> [v \in Ids |->
                       IF a \notin L THEN index[a][v]
                       ELSE IF v = New(RankIn(a)) THEN PlaceOf(a, w)
                       ELSE IF v = w THEN None ELSE index[a][v]]]
    BY DEF Exit, L, Listeners
  <1> HIDE DEF born
  <1>14. worker' = [v \in Ids |-> IF v = w THEN "gone"
                                  ELSE IF \E a \in L : v = fork[a] THEN "up" ELSE worker[v]]
    BY <1>10, <1>11
  <1>15. \A a \in L : place'[fork[a]] = index[a][w]
    BY <1>6, <1>10, <1>12 DEF PlaceOf
  <1>16. \A v \in Ids : (\A a \in L : v # fork[a]) => place'[v] = place[v]
    BY <1>10, <1>12
  <1>17. index' = [a \in Apps |-> [v \in Ids |->
                       IF a \notin L THEN index[a][v]
                       ELSE IF v = fork[a] THEN index[a][w]
                       ELSE IF v = w THEN None ELSE index[a][v]]]
    BY <1>5, <1>13 DEF PlaceOf
  <1>18. \A a \in L : worker[fork[a]] = "unborn"
    BY <1>3, <1>6
  <1>19. place' \in [Ids -> Places \cup {None}]
    <2>1. \A a \in L : index[a][w] \in Places \cup {None}
      BY DEF TypeOK, L, Running
    <2>2. ASSUME NEW v \in Ids PROVE place'[v] \in Places \cup {None}
      <3>1. CASE \E a \in L : v = fork[a]
        BY <2>1, <3>1, <1>15
      <3>2. CASE \A a \in L : v # fork[a]
        BY <3>2, <1>16 DEF TypeOK
      <3> QED BY <3>1, <3>2
    <2> QED BY <2>2, <1>12
  <1>20. Unborn' = New(1)' .. MaxForks
    <2>1. worker[w] = "ended" /\ w <= n
      BY <1>3 DEF Exit, Ids
    <2>2. n + Cardinality(L) \in 0 .. MaxForks
      BY <1>2, <1>3, <1>4
    <2>3. \A v \in Ids : worker'[v] = "unborn" <=> v > n + Cardinality(L)
      <3> SUFFICES ASSUME NEW v \in Ids
                   PROVE worker'[v] = "unborn" <=> v > n + Cardinality(L)
        OBVIOUS
      <3>1. worker'[v] = "unborn" <=> v # w /\ worker[v] = "unborn" /\ \A a \in L : v # fork[a]
        BY <1>14
      <3>2. worker[v] = "unborn" <=> v > n
        BY <1>3
      <3>3. v \in Nat /\ n \in Nat /\ Cardinality(L) \in Nat /\ w \in Nat
        BY <1>2, <1>3 DEF Ids
      <3>4. CASE v > n + Cardinality(L)
        BY <3>1, <3>2, <3>3, <3>4, <2>1, <1>6
      <3>5. CASE v > n /\ v <= n + Cardinality(L)
        BY <3>1, <3>5, <3>3, <1>8
      <3>6. CASE v <= n
        BY <3>1, <3>2, <3>3, <3>6
      <3> QED BY <3>3, <3>4, <3>5, <3>6
    <2>4. UnbornIn(worker') = MaxForks - Cardinality(UnbornIn(worker')) + 1 .. MaxForks
      BY <2>2, <2>3, UnbornIs
    <2> QED BY <2>4 DEF UnbornIn, Unborn, In, New
  <1>21. fork \in [L -> Ids]
    BY <1>6 DEF fork
  <1> QED BY <1>7, <1>14, <1>15, <1>16, <1>17, <1>18, <1>19, <1>20, <1>21 DEF Replaced, L

\* What listen() does of it: the places in order, to the next ids.
ForkedFrom(n, a) ==
    /\ n + Count <= MaxForks
    /\ \A w \in Ids : worker[w] = "unborn" <=> w > n
    /\ worker' = [w \in Ids |-> IF w \in n + 1 .. n + Count THEN "up" ELSE worker[w]]
    /\ place' = [w \in Ids |-> IF w \in n + 1 .. n + Count THEN w - (n + 1) ELSE place[w]]
    /\ index' = [index EXCEPT ![a] =
          [w \in Ids |-> IF w \in n + 1 .. n + Count THEN w - (n + 1) ELSE None]]

LEMMA ForkAllForks ==
  ASSUME TypeOK, NEW a \in Apps, ForkAll(a)
  PROVE  Unborn' = New(1)' .. MaxForks /\ \E n \in Nat : ForkedFrom(n, a)
  <1> DEFINE n == Forked
  <1>1. /\ n \in 0 .. MaxForks /\ Cardinality(Unborn) = MaxForks - n
        /\ \A i : New(i) = n + i
        /\ \A v \in Ids : worker[v] = "unborn" <=> v > n
    BY ForkedIs
  <1> HIDE DEF n
  <1>2. n + Count <= MaxForks /\ n + Count \in 0 .. MaxForks
    BY <1>1, ClusterAssumption DEF ForkAll
  <1>3. New(1) .. New(Count) = n + 1 .. n + Count /\ New(1) = n + 1
    BY <1>1
  <1>4. worker' = [w \in Ids |-> IF w \in n + 1 .. n + Count THEN "up" ELSE worker[w]]
    BY <1>3 DEF ForkAll
  <1>5. place' = [w \in Ids |-> IF w \in n + 1 .. n + Count THEN w - (n + 1) ELSE place[w]]
    BY <1>3 DEF ForkAll
  <1>6. index' = [index EXCEPT ![a] =
                  [w \in Ids |-> IF w \in n + 1 .. n + Count THEN w - (n + 1) ELSE None]]
    BY <1>3 DEF ForkAll
  <1>7. \A v \in Ids : worker'[v] = "unborn" <=> v > n + Count
    BY <1>1, <1>4, ClusterAssumption DEF Ids
  <1>8. UnbornIn(worker') = MaxForks - Cardinality(UnbornIn(worker')) + 1 .. MaxForks
    BY <1>2, <1>7, UnbornIs
  <1>9. Unborn' = New(1)' .. MaxForks
    BY <1>8 DEF UnbornIn, Unborn, In, New
  <1>10. n \in Nat /\ ForkedFrom(n, a)
    BY <1>1, <1>2, <1>4, <1>5, <1>6 DEF ForkedFrom
  <1> QED BY <1>9, <1>10

\* A place is held: one worker has it, in the application's index and for itself.
OneHolder(a, p) ==
    \E w \in ClusterWorkers : place[w] = p /\ \A v \in Ids : index[a][v] = p <=> v = w

Stopped(a) == calls[a] = "stopped"

\* With one application no two workers have the same place, before or after a stop.
PoolInv ==
    /\ calls[1] = "none" => ClusterWorkers = {}
    /\ \A w \in ClusterWorkers : place[w] \in Places
    /\ \A v, w \in ClusterWorkers : place[v] = place[w] => v = w
    /\ calls[1] = "running" => \A w \in ClusterWorkers : index[1][w] = place[w]

\* What every step of the primary and of its workers keeps.
ClusterInv ==
    /\ TypeOK
    /\ \A a \in Running, p \in Places : OneHolder(a, p)
    /\ \A a \in Apps : Stopped(a) => ~supervising
    /\ NoneOutlivesStop
    /\ \A a \in Running : handle[a]
    /\ NApps = 1 => PoolInv

LEMMA ClusterInvInit == Init => ClusterInv
  <1> SUFFICES ASSUME Init PROVE ClusterInv
    OBVIOUS
  <1>1. Typed
    BY DEF Init, Typed, callVars
  <1>2. Unborn = New(1) .. MaxForks
    <2>1. \A w \in Ids : worker[w] = "unborn" <=> w > 0
      BY DEF Init, Ids
    <2>2. UnbornIn(worker) = MaxForks - Cardinality(UnbornIn(worker)) + 1 .. MaxForks
      BY <2>1, UnbornIs, ClusterAssumption
    <2> QED BY <2>2 DEF UnbornIn, Unborn, In, New
  <1>3. Running = {} /\ \A a \in Apps : calls[a] = "none"
    BY DEF Init, Running
  <1>4. ClusterWorkers = {}
    BY DEF Init, ClusterWorkers, In
  <1>5. NApps = 1 => PoolInv
    BY <1>3, <1>4 DEF PoolInv, Apps
  <1> QED
    BY <1>1, <1>2, <1>3, <1>5, TypeOKIs DEF ClusterInv, Stopped, NoneOutlivesStop

\* listen() of an application that does not run yet.
LEMMA ListenForksInv ==
  ASSUME ClusterInv, NEW a \in Apps, supervising, ~handle[a], ForkAll(a),
         UNCHANGED <<supervising, killed, busy, cut, polling, exited, bound>>
  PROVE  ClusterInv'
  <1>1. PICK n \in Nat : ForkedFrom(n, a)
    BY ForkAllForks DEF ClusterInv
  <1>2. Count \in Nat /\ MaxForks \in Nat /\ None \notin Nat
    BY ClusterAssumption
  <1> DEFINE new == n + 1 .. n + Count
  <1>3. new \subseteq Ids /\ \A w \in Ids : w \in new => w - (n + 1) \in Places
    BY <1>1, <1>2 DEF ForkedFrom, Ids, Places
  <1>4. /\ worker' = [w \in Ids |-> IF w \in new THEN "up" ELSE worker[w]]
        /\ place' = [w \in Ids |-> IF w \in new THEN w - (n + 1) ELSE place[w]]
        /\ index' = [index EXCEPT ![a] =
                        [w \in Ids |-> IF w \in new THEN w - (n + 1) ELSE None]]
        /\ calls' = [calls EXCEPT ![a] = "running"] /\ handle' = [handle EXCEPT ![a] = TRUE]
    BY <1>1 DEF ForkedFrom, ForkAll
  <1>5. \A w \in new : worker[w] = "unborn"
    BY <1>1, <1>2, <1>3 DEF ForkedFrom
  <1>6. a \notin Running /\ \A b \in Apps : ~Stopped(b)
    BY DEF ClusterInv, Running
  <1>7. calls[a] = "none"
    BY <1>6 DEF ClusterInv, TypeOK, Running, Stopped
  <1> HIDE DEF new
  <1>8. Running' = Running \cup {a}
    BY <1>4 DEF Running, ClusterInv, TypeOK
  <1>9. ClusterWorkers' = ClusterWorkers \cup new
    BY <1>3, <1>4 DEF ClusterWorkers, In
  <1>10. TypeOK'
    <2>1. Typed
      BY TypeOKIs DEF ClusterInv
    <2>2. worker' \in [Ids -> {"unborn", "up", "ended", "gone"}]
      BY <2>1, <1>4 DEF Typed
    <2>3. place' \in [Ids -> Places \cup {None}]
      BY <2>1, <1>3, <1>4 DEF Typed
    <2>4. index' \in [Apps -> [Ids -> Places \cup {None}]]
      BY <2>1, <1>3, <1>4 DEF Typed
    <2>5. calls' \in [Apps -> {"none", "running", "stopped"}] /\ handle' \in [Apps -> BOOLEAN]
      BY <2>1, <1>4 DEF Typed
    <2>6. Unborn' = New(1)' .. MaxForks
      BY ForkAllForks DEF ClusterInv
    <2> QED BY <2>1, <2>2, <2>3, <2>4, <2>5, <2>6 DEF Typed, TypeOK
  <1>11. \A b \in Running', p \in Places : OneHolder(b, p)'
    <2> SUFFICES ASSUME NEW b \in Running', NEW p \in Places PROVE OneHolder(b, p)'
      OBVIOUS
    <2>1. CASE b = a
      <3> DEFINE w == n + 1 + p
      <3>1. w \in new /\ w \in Ids /\ w - (n + 1) = p
        BY <1>2, <1>3 DEF Places, new
      <3>2. \A v \in new : v - (n + 1) = p => v = w
        BY <1>2 DEF Places, new
      <3>3. p # None
        BY <1>2 DEF Places
      <3> HIDE DEF w
      <3>4. w \in ClusterWorkers' /\ place'[w] = p
        BY <3>1, <1>4, <1>9
      <3>5. \A v \in Ids : index'[a][v] = p <=> v = w
        BY <3>1, <3>2, <3>3, <1>4 DEF ClusterInv, TypeOK
      <3> QED BY <2>1, <3>4, <3>5 DEF OneHolder
    <2>2. CASE b # a
      <3>1. b \in Running /\ b \in Apps
        BY <1>8, <2>2 DEF Running
      <3>2. PICK w \in ClusterWorkers : place[w] = p /\ \A v \in Ids : index[b][v] = p <=> v = w
        BY <3>1 DEF ClusterInv, OneHolder
      <3>3. w \in Ids /\ w \notin new
        BY <1>5 DEF ClusterWorkers, In
      <3>4. place'[w] = p /\ w \in ClusterWorkers' /\ index'[b] = index[b]
        BY <3>1, <3>2, <3>3, <1>4, <1>9, <2>2 DEF ClusterInv, TypeOK
      <3> QED BY <3>2, <3>4 DEF OneHolder
    <2> QED BY <2>1, <2>2
  <1>12. \A b \in Apps : ~Stopped(b)'
    BY <1>6, <1>4 DEF Stopped, ClusterInv, TypeOK
  <1>13. NoneOutlivesStop'
    BY <1>12 DEF NoneOutlivesStop, Stopped
  <1>14. \A b \in Running' : handle'[b]
    BY <1>4, <1>8 DEF ClusterInv, TypeOK, Running
  <1>15. NApps = 1 => PoolInv'
    <2> SUFFICES ASSUME NApps = 1 PROVE PoolInv'
      OBVIOUS
    <2>1. a = 1 /\ Apps = {1}
      BY DEF Apps
    <2>2. ClusterWorkers' = new
      BY <1>7, <1>9, <2>1 DEF ClusterInv, PoolInv
    <2>3. \A w \in new : place'[w] = w - (n + 1) /\ index'[1][w] = w - (n + 1)
      BY <1>3, <1>4, <2>1 DEF ClusterInv, TypeOK
    <2>4. calls'[1] = "running"
      BY <1>4, <2>1 DEF ClusterInv, TypeOK
    <2>5. \A w \in new : w - (n + 1) \in Places
      BY <1>3
    <2>6. \A v, w \in new : v - (n + 1) = w - (n + 1) => v = w
      BY <1>2 DEF new
    <2> QED BY <2>2, <2>3, <2>4, <2>5, <2>6 DEF PoolInv
  <1> QED
    BY <1>10, <1>11, <1>12, <1>13, <1>14, <1>15 DEF ClusterInv

\* A worker's end.
LEMMA ExitInv ==
  ASSUME ClusterInv, NEW w \in Ids, Exit(w)
  PROVE  ClusterInv'
  <1>1. PICK fork \in [Running -> Ids] : Replaced(fork, w)
    BY ExitReplaces DEF ClusterInv
  <1>2. /\ \A a, b \in Running : fork[a] = fork[b] => a = b
        /\ \A a \in Running : worker[fork[a]] = "unborn"
        /\ worker' = [v \in Ids |-> IF v = w THEN "gone"
                                ELSE IF \E a \in Running : v = fork[a] THEN "up" ELSE worker[v]]
        /\ \A a \in Running : place'[fork[a]] = index[a][w]
        /\ \A v \in Ids : (\A a \in Running : v # fork[a]) => place'[v] = place[v]
        /\ index' = [a \in Apps |-> [v \in Ids |->
                    IF a \notin Running THEN index[a][v]
                    ELSE IF v = fork[a] THEN index[a][w]
                    ELSE IF v = w THEN None ELSE index[a][v]]]
    BY <1>1 DEF Replaced
  <1>3. worker[w] = "ended" /\ UNCHANGED <<supervising, calls, handle, killed, busy, cut, primaryVars>>
    BY DEF Exit
  <1>4. Typed /\ None \notin Places
    BY TypeOKIs, ClusterAssumption DEF ClusterInv, Places
  <1>5. Running' = Running /\ Running \subseteq Apps
    BY <1>3 DEF Running
  <1>6. TypeOK'
    <2>1. worker' \in [Ids -> {"unborn", "up", "ended", "gone"}]
      BY <1>2, <1>4 DEF Typed
    <2>2. index' \in [Apps -> [Ids -> Places \cup {None}]]
      BY <1>2, <1>4 DEF Typed
    <2>3. place' \in [Ids -> Places \cup {None}] /\ Unborn' = New(1)' .. MaxForks
      BY ExitReplaces DEF ClusterInv
    <2>4. /\ supervising' \in BOOLEAN
          /\ calls' \in [Apps -> {"none", "running", "stopped"}]
          /\ handle' \in [Apps -> BOOLEAN] /\ killed' \in [Ids -> BOOLEAN]
          /\ busy' \in [Ids -> BOOLEAN] /\ cut' \in BOOLEAN /\ bound' \in BOOLEAN
          /\ polling' \in BOOLEAN /\ exited' \in BOOLEAN
      BY <1>3, <1>4 DEF Typed, primaryVars
    <2> QED BY <2>1, <2>2, <2>3, <2>4 DEF TypeOK
  <1>7. \A v \in Ids : v \in ClusterWorkers' <=>
            v # w /\ (v \in ClusterWorkers \/ \E a \in Running : v = fork[a])
    BY <1>2, <1>4 DEF ClusterWorkers, In, Typed
  <1>8. w \in ClusterWorkers /\ \A a \in Running : fork[a] # w /\ fork[a] \notin ClusterWorkers
    BY <1>2, <1>3 DEF ClusterWorkers, In
  <1>9. \A a \in Running, p \in Places : OneHolder(a, p)'
    <2> SUFFICES ASSUME NEW a \in Running, NEW p \in Places PROVE OneHolder(a, p)'
      OBVIOUS
    <2>1. PICK h \in ClusterWorkers : place[h] = p /\ \A v \in Ids : index[a][v] = p <=> v = h
      BY DEF ClusterInv, OneHolder
    <2>2. h \in Ids /\ p # None /\ a \in Apps
      BY <1>4, <1>5 DEF ClusterWorkers, In
    <2>3. CASE h = w
      <3>1. index[a][w] = p
        BY <2>1, <2>3
      <3>2. \A v \in Ids : index'[a][v] = p <=> v = fork[a]
        BY <2>1, <2>2, <2>3, <3>1, <1>2, <1>8
      <3>3. place'[fork[a]] = p /\ fork[a] \in ClusterWorkers'
        BY <3>1, <1>2, <1>7, <1>8
      <3> QED BY <3>2, <3>3 DEF OneHolder
    <2>4. CASE h # w
      <3>1. index[a][w] # p /\ h # fork[a]
        BY <2>1, <2>4, <1>8
      <3>2. \A v \in Ids : index'[a][v] = p <=> v = h
        <4> SUFFICES ASSUME NEW v \in Ids PROVE index'[a][v] = p <=> v = h
          OBVIOUS
        <4>1. CASE v = fork[a]
          BY <4>1, <2>2, <3>1, <1>2
        <4>2. CASE v # fork[a] /\ v = w
          BY <4>2, <2>2, <2>4, <1>2
        <4>3. CASE v # fork[a] /\ v # w
          BY <4>3, <2>1, <2>2, <1>2
        <4> QED BY <4>1, <4>2, <4>3
      <3>3. \A b \in Running : h # fork[b]
        BY <2>1, <1>8
      <3>4. place'[h] = p /\ h \in ClusterWorkers'
        BY <2>1, <2>2, <2>4, <3>3, <1>2, <1>7
      <3> QED BY <3>2, <3>4 DEF OneHolder
    <2> QED BY <2>3, <2>4
  <1>10. \A a \in Apps : Stopped(a)' => ~supervising'
    BY <1>3 DEF ClusterInv, Stopped
  <1>11. NoneOutlivesStop'
    <2> SUFFICES ASSUME Running = {}, \E a \in Apps : Stopped(a), NEW v \in In("up")'
                 PROVE  killed'[v]
      BY <1>3, <1>5 DEF NoneOutlivesStop, Stopped
    <2>1. v \in In("up")
      BY <1>2 DEF In
    <2> QED BY <2>1, <1>3 DEF ClusterInv, NoneOutlivesStop, Stopped
  <1>12. \A a \in Running' : handle'[a]
    BY <1>3, <1>5 DEF ClusterInv
  <1>13. NApps = 1 => PoolInv'
    <2> SUFFICES ASSUME NApps = 1 PROVE PoolInv'
      OBVIOUS
    <2>1. PoolInv /\ Apps = {1}
      BY DEF ClusterInv, Apps
    <2>2. ClusterWorkers \subseteq Ids /\ ClusterWorkers' \subseteq Ids
      BY DEF ClusterWorkers, In
    <2>3. CASE 1 \notin Running
      <3>1. Running = {}
        BY <2>1, <2>3, <1>5
      <3>2. ClusterWorkers' \subseteq ClusterWorkers
        BY <2>2, <3>1, <1>7
      <3>3. \A v \in ClusterWorkers' : place'[v] = place[v]
        BY <2>2, <3>1, <1>2
      <3>4. calls'[1] # "running"
        BY <3>1, <1>3, <2>1 DEF Running
      <3> QED BY <2>1, <3>2, <3>3, <3>4, <1>3 DEF PoolInv
    <2>4. CASE 1 \in Running
      <3>1. Running = {1} /\ calls'[1] = "running" /\ calls[1] = "running"
        BY <2>1, <2>4, <1>3, <1>5 DEF Running
      <3>2. \A v \in ClusterWorkers : index[1][v] = place[v] /\ place[v] \in Places
        BY <2>1, <3>1 DEF PoolInv
      <3>3. place'[fork[1]] = index[1][w] /\ index'[1][fork[1]] = index[1][w]
        BY <2>1, <3>1, <1>2
      <3>4. \A v \in ClusterWorkers' : v # fork[1] =>
                v \in ClusterWorkers /\ v # w /\ place'[v] = place[v] /\ index'[1][v] = index[1][v]
        BY <2>1, <2>2, <3>1, <1>2, <1>7
      <3>5. \A v, u \in ClusterWorkers : place[v] = place[u] => v = u
        BY <2>1 DEF PoolInv
      <3>6. \A v \in ClusterWorkers' : place'[v] \in Places /\ index'[1][v] = place'[v]
        BY <3>2, <3>3, <3>4, <1>8
      <3>7. \A v, u \in ClusterWorkers' : place'[v] = place'[u] => v = u
        BY <3>2, <3>3, <3>4, <3>5, <1>8
      <3> QED BY <3>1, <3>6, <3>7 DEF PoolInv
    <2> QED BY <2>3, <2>4
  <1> QED
    BY <1>5, <1>6, <1>9, <1>10, <1>11, <1>12, <1>13 DEF ClusterInv

\* A stop of some applications, that every worker is told of.
LEMMA StopInv ==
  ASSUME ClusterInv, NEW as \in SUBSET Apps, Stop(as), bound' \in BOOLEAN,
         polling' \in BOOLEAN, exited' \in BOOLEAN, handle' \in [Apps -> BOOLEAN],
         \A a \in Apps : a \notin as => handle'[a] = handle[a]
  PROVE  ClusterInv'
  <1>1. /\ calls' = [a \in Apps |-> IF a \in as THEN "stopped" ELSE calls[a]]
        /\ supervising' = FALSE
        /\ killed' = [w \in Ids |-> killed[w] \/ w \in ClusterWorkers]
        /\ UNCHANGED <<index, worker, place, busy, cut>>
    BY DEF Stop, KillAll
  <1>2. Running' = Running \ as
    BY <1>1 DEF Running
  <1>3. ClusterWorkers' = ClusterWorkers
    BY <1>1 DEF ClusterWorkers, In
  <1>4. TypeOK'
    <2>1. Typed
      BY TypeOKIs DEF ClusterInv
    <2>2. calls' \in [Apps -> {"none", "running", "stopped"}] /\ killed' \in [Ids -> BOOLEAN]
      BY <2>1, <1>1 DEF Typed
    <2>3. Unborn' = New(1)' .. MaxForks
      BY <1>1 DEF ClusterInv, TypeOK, Unborn, In, New
    <2> QED BY <2>1, <2>2, <2>3, <1>1 DEF Typed, TypeOK
  <1>5. \A a \in Running', p \in Places : OneHolder(a, p)'
    BY <1>1, <1>2, <1>3 DEF ClusterInv, OneHolder
  <1>6. \A a \in Apps : Stopped(a)' => ~supervising'
    BY <1>1
  <1>7. NoneOutlivesStop'
    BY <1>1 DEF NoneOutlivesStop, ClusterWorkers, In
  <1>8. \A a \in Running' : handle'[a]
    BY <1>2 DEF ClusterInv, Running
  <1>9. NApps = 1 => PoolInv'
    <2> SUFFICES ASSUME NApps = 1 PROVE PoolInv'
      OBVIOUS
    <2>1. PoolInv /\ 1 \in Apps
      BY DEF ClusterInv, Apps
    <2>2. calls'[1] # "stopped" => calls'[1] = calls[1]
      BY <1>1, <2>1
    <2>3. UNCHANGED <<place, index>>
      BY <1>1
    <2> QED BY <1>3, <2>1, <2>2, <2>3 DEF PoolInv
  <1> QED
    BY <1>4, <1>5, <1>6, <1>7, <1>8, <1>9 DEF ClusterInv

\* What a worker does between its birth and its end, and a worker's end itself.
LEMMA WorkerInv ==
  ASSUME ClusterInv, NEW w \in Ids, worker[w] = "up",
         worker' \in {worker, [worker EXCEPT ![w] = "ended"]},
         busy' \in [Ids -> BOOLEAN], cut' \in BOOLEAN,
         UNCHANGED <<callVars, place, killed, primaryVars>>
  PROVE  ClusterInv'
  <1>1. Typed
    BY TypeOKIs DEF ClusterInv
  <1>2. \A v \in Ids : /\ worker'[v] = "unborn" <=> worker[v] = "unborn"
                       /\ worker'[v] = "up" => worker[v] = "up"
                       /\ worker'[v] \in {"up", "ended"} <=> worker[v] \in {"up", "ended"}
    BY <1>1 DEF Typed
  <1>3. ClusterWorkers' = ClusterWorkers /\ Unborn' = Unborn /\ In("up")' \subseteq In("up")
    BY <1>2 DEF ClusterWorkers, Unborn, In
  <1>4. UNCHANGED <<supervising, calls, handle, index, place, killed, bound, polling, exited>>
    BY DEF callVars, primaryVars
  <1>5. TypeOK'
    <2>1. worker' \in [Ids -> {"unborn", "up", "ended", "gone"}]
      BY <1>1 DEF Typed
    <2>2. Unborn' = New(1)' .. MaxForks
      BY <1>3 DEF ClusterInv, TypeOK, New
    <2> QED BY <1>1, <1>4, <2>1, <2>2 DEF Typed, TypeOK
  <1>6. Running' = Running
    BY <1>4 DEF Running
  <1>7. \A a \in Running', p \in Places : OneHolder(a, p)'
    BY <1>3, <1>4, <1>6 DEF ClusterInv, OneHolder
  <1>8. NoneOutlivesStop'
    BY <1>3, <1>4, <1>6 DEF ClusterInv, NoneOutlivesStop
  <1>9. NApps = 1 => PoolInv'
    BY <1>3, <1>4 DEF ClusterInv, PoolInv
  <1> QED
    BY <1>4, <1>5, <1>6, <1>7, <1>8, <1>9 DEF ClusterInv, Stopped

LEMMA ClusterInvNext ==
  ASSUME ClusterInv, [Next]_vars
  PROVE  ClusterInv'
  <1>0. Typed
    BY TypeOKIs DEF ClusterInv
  <1>1. ASSUME NEW a \in Apps, Listen(a) PROVE ClusterInv'
    <2>1. CASE supervising
      BY <1>1, <2>1, ListenForksInv DEF Listen
    <2>2. CASE ~supervising
      <3>1. UNCHANGED <<supervising, calls, handle, index, worker, place, killed, busy, cut,
                        polling, exited>> /\ bound' = TRUE
        BY <1>1, <2>2 DEF Listen
      <3>2. Running' = Running /\ ClusterWorkers' = ClusterWorkers /\ Unborn' = Unborn
              /\ In("up")' = In("up")
        BY <3>1 DEF Running, ClusterWorkers, Unborn, In
      <3>3. TypeOK'
        BY <3>1, <3>2 DEF ClusterInv, TypeOK, New
      <3>4. \A b \in Running', p \in Places : OneHolder(b, p)'
        BY <3>1, <3>2 DEF ClusterInv, OneHolder
      <3> QED BY <3>1, <3>2, <3>3, <3>4 DEF ClusterInv, NoneOutlivesStop, Stopped, PoolInv
    <2> QED BY <2>1, <2>2, <1>0 DEF Typed
  <1>2. ASSUME NEW a \in Apps, Close(a) PROVE ClusterInv'
    <2>1. Stop({a}) /\ handle' = [handle EXCEPT ![a] = FALSE] /\ UNCHANGED primaryVars
      BY <1>2 DEF Close
    <2>2. handle' \in [Apps -> BOOLEAN] /\ \A b \in Apps : b \notin {a} => handle'[b] = handle[b]
      BY <1>0, <2>1 DEF Typed
    <2>3. bound' \in BOOLEAN /\ polling' \in BOOLEAN /\ exited' \in BOOLEAN
      BY <1>0, <2>1 DEF Typed, primaryVars
    <2> QED BY <2>1, <2>2, <2>3, StopInv
  <1>3. CASE Signal
    <2> DEFINE as == {a \in Apps : calls[a] # "none"}
    <2>1. Stop(as) /\ polling' = TRUE /\ UNCHANGED <<handle, bound, exited>>
      BY <1>3 DEF Signal
    <2>2. /\ handle' \in [Apps -> BOOLEAN] /\ \A b \in Apps : b \notin as => handle'[b] = handle[b]
          /\ bound' \in BOOLEAN /\ polling' \in BOOLEAN /\ exited' \in BOOLEAN
      BY <1>0, <2>1 DEF Typed
    <2> HIDE DEF as
    <2>3. as \in SUBSET Apps
      BY DEF as
    <2> QED BY <2>1, <2>2, <2>3, StopInv
  <1>4. ASSUME UNCHANGED <<callVars, workerVars, bound, polling>>, exited' \in BOOLEAN
        PROVE  ClusterInv'
    <2>1. UNCHANGED <<supervising, calls, handle, index, worker, place, killed, busy, cut,
                      bound, polling>>
      BY <1>4 DEF callVars, workerVars
    <2>2. Running' = Running /\ ClusterWorkers' = ClusterWorkers /\ Unborn' = Unborn
              /\ In("up")' = In("up")
      BY <2>1 DEF Running, ClusterWorkers, Unborn, In
    <2>3. TypeOK'
      BY <1>4, <2>1, <2>2 DEF ClusterInv, TypeOK, New
    <2>4. \A b \in Running', p \in Places : OneHolder(b, p)'
      BY <2>1, <2>2 DEF ClusterInv, OneHolder
    <2> QED BY <2>1, <2>2, <2>3, <2>4 DEF ClusterInv, NoneOutlivesStop, Stopped, PoolInv
  <1>5. CASE Poll
    BY <1>4, <1>5 DEF Poll
  <1>6. ASSUME NEW w \in Ids, Arrive(w) \/ Answer(w) \/ Terminated(w) \/ Crash(w)
        PROVE  ClusterInv'
    <2>1. worker[w] = "up" /\ UNCHANGED <<callVars, place, killed, primaryVars>>
      BY <1>6 DEF Arrive, Answer, Terminated, Crash, Ends
    <2>2. worker' \in {worker, [worker EXCEPT ![w] = "ended"]}
      BY <1>6 DEF Arrive, Answer, Terminated, Crash, Ends
    <2>3. busy' \in [Ids -> BOOLEAN]
      BY <1>0, <1>6 DEF Typed, Arrive, Answer, Terminated, Crash, Ends
    <2>4. cut' \in BOOLEAN
      BY <1>0, <1>6 DEF Typed, Arrive, Answer, Terminated, Crash, Ends
    <2> QED BY <2>1, <2>2, <2>3, <2>4, WorkerInv
  <1>7. CASE UNCHANGED vars
    <2>1. UNCHANGED <<callVars, workerVars, bound, polling, exited>>
      BY <1>7 DEF vars, primaryVars
    <2> QED BY <1>0, <1>4, <2>1 DEF Typed
  <1> QED
    BY <1>1, <1>2, <1>3, <1>5, <1>6, <1>7, ExitInv DEF Next

\* A place held is held once.
LEMMA HoldersAreOne ==
  ASSUME ClusterInv
  PROVE  PlacesHeld
  <1> SUFFICES ASSUME NEW a \in Running, NEW p \in Places
               PROVE  LET holders == {w \in Ids : index[a][w] = p} IN
                      /\ Cardinality(holders) = 1
                      /\ \A w \in holders : w \in ClusterWorkers /\ place[w] = p
    BY DEF PlacesHeld
  <1> DEFINE holders == {w \in Ids : index[a][w] = p}
  <1>1. PICK w \in ClusterWorkers : place[w] = p /\ \A v \in Ids : index[a][v] = p <=> v = w
    BY DEF ClusterInv, OneHolder
  <1>2. holders = {w}
    BY <1>1 DEF ClusterWorkers, In
  <1>3. Cardinality({w}) = 1
    BY FS_Singleton
  <1> QED BY <1>1, <1>2, <1>3

-----------------------------------------------------------------------------
\* The shares of workers at different places, each counted once.
Shares(share, base, more, W) == \A w \in W : share[w] = base + IF w \in more THEN 1 ELSE 0

LEMMA SharesAdd ==
  ASSUME NEW W, IsFiniteSet(W), NEW base \in Nat, NEW share, NEW more,
         Shares(share, base, more, W)
  PROVE  SumFunctionOnSet(share, W) = Cardinality(W) * base + Cardinality(W \cap more)
  <1> USE DEF Shares
  <1> DEFINE Adds(T) ==
               SumFunctionOnSet(share, T) = Cardinality(T) * base + Cardinality(T \cap more)
             N == {n \in Nat : \A T \in SUBSET W : Cardinality(T) <= n => Adds(T)}
  <1>1. 0 \in N
    <2>1. ASSUME NEW T \in SUBSET W, Cardinality(T) <= 0 PROVE Adds(T)
      <3>1. T = {} /\ T \cap more = {}
        BY <2>1, SizeWithout
      <3>2. Cardinality(T) = 0 /\ Cardinality(T \cap more) = 0
        BY <3>1, FS_EmptySet
      <3>3. SumFunctionOnSet(share, T) = 0
        BY <3>1, SumEmpty
      <3> QED BY <3>2, <3>3
    <2> HIDE DEF Adds
    <2> QED BY <2>1
  <1>2. ASSUME NEW n \in Nat, n \in N PROVE n + 1 \in N
    <2>1. ASSUME NEW T \in SUBSET W, Cardinality(T) <= n + 1 PROVE Adds(T)
      <3>1. CASE T = {}
        <4>1. Cardinality(T) <= n
          BY <3>1, FS_EmptySet
        <4> HIDE DEF Adds
        <4> QED BY <4>1, <1>2
      <3>2. ASSUME NEW x \in T PROVE Adds(T)
        <4> DEFINE R == T \ {x}
        <4>1. /\ IsFiniteSet(T) /\ Cardinality(T) \in Nat
              /\ Cardinality(R) = Cardinality(T) - 1 /\ R \in SUBSET W
          BY SizeWithout
        <4>2. Adds(R)
          <5> HIDE DEF Adds, R
          <5> QED BY <2>1, <4>1, <1>2
        <4>3. NatOn(share, T)
          BY DEF NatOn
        <4>4. SumFunctionOnSet(share, T) = share[x] + SumFunctionOnSet(share, R)
          BY <4>1, <4>3, SumRemove
        <4>5. R \cap more = (T \cap more) \ {x} /\ IsFiniteSet(T \cap more)
          BY <4>1, FS_Intersection
        <4>6. Cardinality(T \cap more) \in Nat
          BY <4>5, FS_CardinalityType
        <4>7. Cardinality(R \cap more) = Cardinality(T \cap more) - IF x \in more THEN 1 ELSE 0
          <5>1. Cardinality((T \cap more) \ {x}) =
                  IF x \in T \cap more THEN Cardinality(T \cap more) - 1 ELSE Cardinality(T \cap more)
            BY <4>5, FS_RemoveElement
          <5>2. x \in T \cap more <=> x \in more
            OBVIOUS
          <5> HIDE DEF R
          <5> QED BY <4>5, <4>6, <5>1, <5>2
        <4>8. share[x] = base + IF x \in more THEN 1 ELSE 0
          OBVIOUS
        <4> HIDE DEF R
        <4>9. Cardinality(T) * base = Cardinality(R) * base + base
          BY <4>1
        <4> QED BY <4>1, <4>2, <4>4, <4>6, <4>7, <4>8, <4>9
      <3> QED BY <3>1, <3>2
    <2> HIDE DEF Adds
    <2> QED BY <2>1
  <1> HIDE DEF N
  <1>3. Cardinality(W) \in N /\ Cardinality(W) <= Cardinality(W)
    BY <1>1, <1>2, SetInduction, SizeWithout
  <1> QED BY <1>3 DEF N

\* A set of workers at different places among the first n is no larger than n.
LEMMA PlacesCount ==
  ASSUME TypeOK, NEW n \in Nat, NEW W \in SUBSET Ids,
         \A w \in W : place[w] \in 0 .. n - 1,
         \A v, w \in W : place[v] = place[w] => v = w
  PROVE  IsFiniteSet(W) /\ Cardinality(W) \in Nat /\ Cardinality(W) <= n
  <1> DEFINE at == [w \in W |-> place[w]]
  <1>1. at \in Injection(W, 0 .. n - 1)
    BY DEF Injection, IsInjective
  <1>2. IsFiniteSet(0 .. n - 1) /\ Cardinality(0 .. n - 1) = n
    <2>1. 0 \in Int /\ n - 1 \in Int
      OBVIOUS
    <2>2. Cardinality(0 .. n - 1) = IF 0 > n - 1 THEN 0 ELSE (n - 1) - 0 + 1
      BY <2>1, FS_Interval
    <2> QED BY <2>1, <2>2, FS_Interval
  <1> HIDE DEF at
  <1>3. IsFiniteSet(W) /\ Cardinality(W) <= n
    BY <1>1, <1>2, FS_Injection
  <1> QED BY <1>3, FS_CardinalityType

LEMMA Division ==
  ASSUME NEW a \in Nat, NEW b \in Nat \ {0}
  PROVE  /\ a \div b \in Nat /\ a % b \in Nat /\ a % b < b
         /\ b * (a \div b) + (a % b) = a
  OBVIOUS

LEMMA PoolSum ==
  ASSUME ClusterInv, NApps = 1
  PROVE  PoolWithin
  <1> DEFINE W == In("up")
             base == Total \div Count
             rest == Total % Count
             more == {w \in Ids : place[w] \in Places /\ place[w] < rest}
             share == [w \in Ids |-> ShareOf(place[w])]
  <1>1. Total \in Nat /\ Count \in Nat \ {0}
    BY ClusterAssumption
  <1>2. base \in Nat /\ rest \in Nat /\ rest < Count /\ Count * base + rest = Total
    BY <1>1, Division
  <1>3. TypeOK /\ W \in SUBSET Ids /\ W \subseteq ClusterWorkers /\ PoolInv
    BY DEF ClusterInv, ClusterWorkers, In
  <1>4. /\ \A w \in W : place[w] \in 0 .. Count - 1
        /\ \A v, w \in W : place[v] = place[w] => v = w
    BY <1>3 DEF PoolInv, Places
  <1>5. Shares(share, base, more, W)
    BY <1>3 DEF ShareOf, Shares
  <1>6. \A w \in W \cap more : place[w] \in 0 .. rest - 1
    BY <1>1, <1>2, <1>4
  <1> HIDE DEF W, base, rest, more, share
  <1>7. IsFiniteSet(W) /\ Cardinality(W) \in Nat /\ Cardinality(W) <= Count
    BY <1>1, <1>3, <1>4, PlacesCount
  <1>8. Cardinality(W \cap more) \in Nat /\ Cardinality(W \cap more) <= rest
    <2>1. W \cap more \in SUBSET Ids /\ \A v, w \in W \cap more : place[v] = place[w] => v = w
      BY <1>3, <1>4
    <2> QED BY <1>2, <1>3, <1>6, <2>1, PlacesCount
  <1>9. SumFunctionOnSet(share, W) = Cardinality(W) * base + Cardinality(W \cap more)
    BY <1>2, <1>5, <1>7, SharesAdd
  <1>10. Cardinality(W) * base <= Count * base
    BY <1>1, <1>2, <1>7
  <1>11. Cardinality(W) * base \in Nat /\ Count * base \in Nat
    BY <1>1, <1>2, <1>7
  <1>12. SumFunctionOnSet(share, W) <= Total
    BY <1>1, <1>2, <1>8, <1>9, <1>10, <1>11
  <1> QED BY <1>12 DEF PoolWithin, share, W

-----------------------------------------------------------------------------
\* Over crashes, replacements, signals and stops, of however many applications,
\* workers and forks: each place of an application that keeps workers is held by
\* one of them that knows it, and none outlives the stop (cluster.js).
THEOREM EveryPlaceHeld == Spec => [](TypeOK /\ PlacesHeld /\ NoneOutlivesStop)
  <1>1. ClusterInv => TypeOK /\ PlacesHeld /\ NoneOutlivesStop
    BY HoldersAreOne DEF ClusterInv
  <1> QED
    BY <1>1, ClusterInvInit, ClusterInvNext, PTL DEF Spec

\* And when the entry clusters one application, what the workers take of a shared
\* total, the ones being replaced included, never adds up to more than the total.
THEOREM PoolIsHeld == ASSUME NApps = 1 PROVE Spec => []PoolHeld
  <1>1. ClusterInv => PoolHeld
    BY HoldersAreOne, PoolSum DEF ClusterInv, PoolHeld
  <1> QED
    BY <1>1, ClusterInvInit, ClusterInvNext, PTL DEF Spec
=============================================================================

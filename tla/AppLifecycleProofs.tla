------------------------- MODULE AppLifecycleProofs -------------------------
(***************************************************************************)
(* What holds of AppLifecycle for every number of responses, connections   *)
(* and calls. The close of uWS finds no response being served (NoneKilled) *)
(* because it runs only where the list is empty, or on a tick queued where *)
(* it was; and an empty head means an empty list only if the list has no   *)
(* cycle and no second chain, which Ranked states: each response leads to  *)
(* the one linked last before it.                                          *)
(***************************************************************************)
EXTENDS AppLifecycle, SequenceTheorems, WellFoundedInduction, TLAPS

\* rank numbers the responses in the order they were linked.
RankedBy(rank) ==
    \A r \in linked :
        /\ head # Null /\ rank[r] <= rank[head]
        /\ next[r] # Null => rank[next[r]] < rank[r]
        /\ \A s \in linked \ {r} :
              /\ rank[s] # rank[r]
              /\ rank[s] < rank[r] => next[r] # Null /\ rank[s] <= rank[next[r]]

Ranked == \E rank \in [Responses -> Nat] : RankedBy(rank)

ListInv == ListTypeOK /\ PointersMirror /\ Ranked

NoServing == \A r \in Responses : phase[r] # "serving"

ServingLinked ==
    \A r \in Responses :
        /\ phase[r] = "serving" => r \in linked
        /\ phase[r] = "unused" => r \notin linked

\* A tick that ends the drain or emits 'close' was queued with nothing in
\* flight, and no request comes in before it runs; one that reports a response
\* closed comes after its end.
TicksQuiet ==
    /\ Queued(FinishTick) \/ Queued(EmitCloseTick) => NoServing
    /\ \A r \in Responses :
          Queued(ClosedTick(r)) => phase[r] \notin {"serving", "unused"}

\* A server that neither listens nor drains holds no socket.
Stopped ==
    ~listening /\ ~draining =>
        bound = {} /\ connected = {} /\ NoServing

Timers ==
    /\ sweeping => sweeps > 0
    /\ draining => sweeps > 0 \/ Queued(FinishTick)

Core ==
    /\ NoneKilled /\ ServingLinked /\ TicksQuiet /\ Stopped /\ Timers
    /\ listening => listenCalled

IInv == TypeOK /\ ListInv /\ Core

-----------------------------------------------------------------------------
\* The list.

\* An empty head is an empty list.
LEMMA EmptyHead ==
  ASSUME ListInv, head = Null
  PROVE  linked = {}
  BY DEF ListInv, Ranked, RankedBy

\* No response follows itself.
LEMMA NoLoop ==
  ASSUME ListInv, NEW r \in linked
  PROVE  next[r] # r
<1>1. PICK rank \in [Responses -> Nat] : RankedBy(rank)
  BY DEF ListInv, Ranked
<1> QED
  BY <1>1, LifecycleAssumption DEF RankedBy, ListInv, ListTypeOK

\* A new response in front keeps the list sound.
LEMMA LinkKeepsList ==
  ASSUME ListInv, NEW r \in Responses, r \notin linked, Link(r)
  PROVE  ListInv'
<1>1. PICK rank \in [Responses -> Nat] : RankedBy(rank)
  BY DEF ListInv, Ranked
<1>2. ListTypeOK'
  BY DEF ListInv, ListTypeOK, Link
<1>3. PointersMirror'
  BY LifecycleAssumption DEF ListInv, ListTypeOK, PointersMirror, Link
<1>4. Ranked'
  <2>1. PICK new \in Nat : head # Null => new = rank[head] + 1
    BY DEF ListInv, ListTypeOK
  <2>2. PICK rank2 \in [Responses -> Nat] : rank2 = [rank EXCEPT ![r] = new]
    OBVIOUS
  <2>3. \A s \in linked : /\ s # r /\ rank2[s] = rank[s] /\ rank[s] < new
                           /\ next'[s] = next[s] /\ next[s] # r
    <3> TAKE s \in linked
    <3>1. s \in Responses /\ s # r /\ rank2[s] = rank[s]
      BY <2>2 DEF ListInv, ListTypeOK
    <3>2. head # Null /\ rank[s] <= rank[head] /\ head \in Responses
      BY <1>1 DEF RankedBy, ListInv, ListTypeOK
    <3>3. next'[s] = next[s]
      BY <3>1 DEF Link, ListInv, ListTypeOK
    <3>4. next[s] # r
      BY LifecycleAssumption DEF ListInv, PointersMirror
    <3> QED
      BY <2>1, <3>1, <3>2, <3>3, <3>4
  <2>4. rank2[r] = new /\ next'[r] = head /\ head' = r /\ head # r
    BY <2>2, LifecycleAssumption DEF Link, ListInv, ListTypeOK, PointersMirror
  <2>5. head # Null => head \in linked
    BY DEF ListInv, PointersMirror
  <2>6. \A s \in linked : next[s] # Null => next[s] \in linked
    BY DEF ListInv, PointersMirror
  <2>7. linked' = linked \cup {r} /\ linked \subseteq Responses /\ r # Null
    BY LifecycleAssumption DEF Link, ListInv, ListTypeOK
  <2>8. RankedBy(rank2)'
    BY <1>1, <2>1, <2>3, <2>4, <2>5, <2>6, <2>7 DEF RankedBy
  <2> QED
    BY <2>8 DEF Ranked
<1> QED
  BY <1>2, <1>3, <1>4 DEF ListInv

\* Taking a response out, from wherever it stands, keeps the list sound.
LEMMA UnlinkKeepsList ==
  ASSUME ListInv, NEW r \in Responses, Unlink(r)
  PROVE  ListInv' /\ linked' = linked \ {r}
<1>1. PICK rank \in [Responses -> Nat] : RankedBy(rank)
  BY DEF ListInv, Ranked
<1>0. linked' = linked \ {r}
  BY DEF Unlink
<1>2. CASE r \notin linked
  <2>1. UNCHANGED <<head, next, prev, linked>>
    BY <1>2 DEF Unlink
  <2> QED
    BY <1>0, <2>1 DEF ListInv, ListTypeOK, PointersMirror, Ranked, RankedBy
<1>3. CASE r \in linked
  <2>1. /\ next' = [s \in Responses |-> IF s = r THEN Null
                       ELSE IF s = prev[r] THEN next[r] ELSE next[s]]
        /\ prev' = [s \in Responses |-> IF s = r THEN Null
                       ELSE IF s = next[r] THEN prev[r] ELSE prev[s]]
        /\ head' = IF prev[r] = Null /\ head = r THEN next[r] ELSE head
    BY <1>3 DEF Unlink, Bypassed
  <2>2. next[r] # r /\ prev[r] # r
    BY <1>3, NoLoop, LifecycleAssumption DEF ListInv, PointersMirror, ListTypeOK
  <2>3. ListTypeOK'
    BY <1>0, <2>1 DEF ListInv, ListTypeOK
  <2>4. PointersMirror'
    <3>1. \A s \in Responses \ linked' : next'[s] = Null /\ prev'[s] = Null
      BY <1>0, <1>3, <2>1, LifecycleAssumption
      DEF ListInv, ListTypeOK, PointersMirror
    <3>2. \A s \in linked' : next'[s] # Null =>
              next'[s] \in linked' /\ prev'[next'[s]] = s
      BY <1>0, <1>3, <2>1, <2>2, LifecycleAssumption
      DEF ListInv, ListTypeOK, PointersMirror
    <3>3. \A s \in linked' : prev'[s] # Null =>
              prev'[s] \in linked' /\ next'[prev'[s]] = s
      BY <1>0, <1>3, <2>1, <2>2, LifecycleAssumption
      DEF ListInv, ListTypeOK, PointersMirror
    <3>4. \A s \in linked' : prev'[s] = Null <=> head' = s
      BY <1>0, <1>3, <2>1, <2>2, LifecycleAssumption
      DEF ListInv, ListTypeOK, PointersMirror
    <3>5. head' # Null => head' \in linked'
      BY <1>0, <1>3, <2>1, <2>2, LifecycleAssumption
      DEF ListInv, ListTypeOK, PointersMirror
    <3> QED
      BY <3>1, <3>2, <3>3, <3>4, <3>5 DEF PointersMirror
  <2>5. /\ r \in linked /\ linked \subseteq Responses /\ Null \notin linked
        /\ \A s \in linked : s # r =>
              IF s = prev[r] THEN next[s] = r /\ next'[s] = next[r]
                             ELSE next[s] # r /\ next'[s] = next[s]
        /\ \A s \in linked : next[s] # Null => next[s] \in linked
        /\ head' = IF head = r THEN next[r] ELSE head
        /\ head # Null => head \in linked
    BY <1>3, <2>1, LifecycleAssumption DEF ListInv, ListTypeOK, PointersMirror
  <2>6. RankedBy(rank)'
    BY <1>0, <1>1, <2>5 DEF RankedBy
  <2>7. Ranked'
    BY <2>6 DEF Ranked
  <2> QED
    BY <1>0, <2>3, <2>4, <2>7 DEF ListInv
<1> QED
  BY <1>2, <1>3

LEMMA SameList ==
  ASSUME ListInv, UNCHANGED listVars
  PROVE  ListInv'
  BY DEF ListInv, ListTypeOK, PointersMirror, Ranked, RankedBy, listVars

-----------------------------------------------------------------------------
\* The queue of ticks.
LEMMA TicksDiffer ==
  /\ ListeningTick \notin {EmitCloseTick, FinishTick}
  /\ RefusedTick \notin {EmitCloseTick, FinishTick}
  /\ EmitCloseTick # FinishTick
  /\ \A r : ClosedTick(r) \notin {ListeningTick, RefusedTick, EmitCloseTick,
                                FinishTick}
  /\ \A r, s : ClosedTick(r) = ClosedTick(s) => r = s
<1>1. \A r : ClosedTick(r).do = "closed" /\ ClosedTick(r).of = r
  BY DEF ClosedTick
<1>2. /\ ListeningTick.do = "listening" /\ RefusedTick.do = "refused"
      /\ EmitCloseTick.do = "emitClose" /\ FinishTick.do = "finish"
  BY DEF ListeningTick, RefusedTick, EmitCloseTick, FinishTick
<1> QED
  BY <1>1, <1>2

LEMMA TickAppended ==
  ASSUME ticks \in Seq(Tick), NEW t \in Tick, ticks' = Append(ticks, t)
  PROVE  /\ ticks' \in Seq(Tick)
         /\ \A tick : Queued(tick)' <=> Queued(tick) \/ t = tick
<1>1. /\ ticks' \in Seq(Tick) /\ Len(ticks') = Len(ticks) + 1
      /\ \A i \in 1 .. Len(ticks) : ticks'[i] = ticks[i]
      /\ ticks'[Len(ticks) + 1] = t
      /\ Len(ticks) \in Nat
  BY AppendProperties
<1>2. 1 .. Len(ticks') = 1 .. Len(ticks) \cup {Len(ticks) + 1}
  BY <1>1
<1>3. ASSUME NEW tick
      PROVE  Queued(tick)' <=> Queued(tick) \/ t = tick
  BY <1>1, <1>2 DEF Queued
<1> QED
  BY <1>1, <1>3

LEMMA TickRun ==
  ASSUME ticks \in Seq(Tick), ticks # <<>>, ticks' = Tail(ticks)
  PROVE  /\ Head(ticks) \in Tick /\ ticks' \in Seq(Tick)
         /\ \A tick : Queued(tick) <=> Queued(tick)' \/ Head(ticks) = tick
<1>1. /\ Head(ticks) \in Tick /\ ticks' \in Seq(Tick)
      /\ Len(ticks') = Len(ticks) - 1 /\ Len(ticks) \in Nat /\ Len(ticks) > 0
      /\ \A i \in 1 .. Len(ticks') : ticks'[i] = ticks[i + 1]
      /\ Head(ticks) = ticks[1]
  BY HeadTailProperties
<1>2. \A i \in 1 .. Len(ticks) : i = 1 \/ i - 1 \in 1 .. Len(ticks')
  BY <1>1
<1>3. ASSUME NEW tick
      PROVE  Queued(tick) <=> Queued(tick)' \/ Head(ticks) = tick
  <2>1. ASSUME Queued(tick) PROVE Queued(tick)' \/ Head(ticks) = tick
    <3>1. PICK i \in 1 .. Len(ticks) : ticks[i] = tick
      BY <2>1 DEF Queued
    <3>2. CASE i = 1
      BY <1>1, <3>1, <3>2
    <3>3. CASE i # 1
      <4>1. i - 1 \in 1 .. Len(ticks') /\ ticks'[i - 1] = ticks[i]
        BY <1>1, <1>2, <3>3
      <4> QED
        BY <3>1, <4>1 DEF Queued
    <3> QED
      BY <3>2, <3>3
  <2>2. ASSUME Queued(tick)' PROVE Queued(tick)
    <3>1. PICK i \in 1 .. Len(ticks') : ticks'[i] = tick
      BY <2>2 DEF Queued
    <3>2. i + 1 \in 1 .. Len(ticks) /\ ticks[i + 1] = tick
      BY <1>1, <3>1
    <3> QED
      BY <3>2 DEF Queued
  <2>3. ASSUME Head(ticks) = tick PROVE Queued(tick)
    BY <1>1, <2>3 DEF Queued
  <2> QED
    BY <2>1, <2>2, <2>3
<1> QED
  BY <1>1, <1>3

LEMMA NothingQueued ==
  ASSUME ticks = <<>>
  PROVE  \A tick : ~Queued(tick)
  BY DEF Queued

LEMMA SameTicks ==
  ASSUME UNCHANGED ticks
  PROVE  \A tick : Queued(tick)' <=> Queued(tick)
  BY DEF Queued

-----------------------------------------------------------------------------
LEMMA InitInv == Init => IInv
<1> SUFFICES ASSUME Init PROVE IInv
  OBVIOUS
<1>1. TypeOK
  <2>1. FlagTypeOK
    BY DEF Init, FlagTypeOK
  <2>5. CallTypeOK
    BY LifecycleAssumption DEF Init, CallTypeOK, Answer
  <2>2. ListTypeOK
    BY DEF Init, ListTypeOK
  <2>3. WireTypeOK
    BY DEF Init, WireTypeOK, Phase
  <2>4. ticks \in Seq(Tick)
    BY EmptySeq DEF Init
  <2> QED
    BY <2>1, <2>2, <2>3, <2>4, <2>5 DEF TypeOK
<1>2. ListInv
  <2>1. ListTypeOK /\ PointersMirror
    BY DEF Init, ListTypeOK, PointersMirror
  <2>2. [r \in Responses |-> 0] \in [Responses -> Nat]
        /\ RankedBy([r \in Responses |-> 0])
    BY DEF Init, RankedBy
  <2> QED
    BY <2>1, <2>2 DEF ListInv, Ranked
<1>3. Core
  BY NothingQueued
  DEF Init, Core, NoneKilled, ServingLinked, TicksQuiet, Stopped, Timers,
      NoServing
<1> QED
  BY <1>1, <1>2, <1>3 DEF IInv

LEMMA ListenKeepsInv ==
  ASSUME IInv, Listen
  PROVE  IInv'
<1>1. ListInv'
  BY SameList DEF IInv, Listen
<1>2. PICK t \in {ListeningTick, RefusedTick} : ticks' = Append(ticks, t)
  BY DEF Listen
<1>3. /\ ticks' \in Seq(Tick)
      /\ Queued(FinishTick)' <=> Queued(FinishTick)
      /\ Queued(EmitCloseTick)' <=> Queued(EmitCloseTick)
      /\ \A r \in Responses :
            Queued(ClosedTick(r))' <=> Queued(ClosedTick(r))
  <2>1. t \in Tick
    BY DEF Tick
  <2>2. \A tick : Queued(tick)' <=> Queued(tick) \/ t = tick
    BY <1>2, <2>1, TickAppended DEF IInv, TypeOK
  <2>3. ticks' \in Seq(Tick)
    BY <1>2, <2>1, TickAppended DEF IInv, TypeOK
  <2> QED
    BY <2>2, <2>3, TicksDiffer
<1>4. TypeOK'
  <2>1. FlagTypeOK'
    BY DEF IInv, TypeOK, FlagTypeOK, Listen, sweepVars
  <2>2. CallTypeOK'
    BY LifecycleAssumption
    DEF IInv, TypeOK, CallTypeOK, Listen, closeVars, sweepVars
  <2>3. WireTypeOK'
    <3>1. bound' \subseteq bound \cup {listens + 1}
      BY DEF Listen
    <3>2. listens + 1 \in 1 .. MaxListens
      BY LifecycleAssumption DEF Listen, IInv, TypeOK, CallTypeOK
    <3> QED
      BY <3>1, <3>2 DEF IInv, TypeOK, WireTypeOK, Listen
  <2> QED
    BY <1>1, <1>3, <2>1, <2>2, <2>3 DEF TypeOK, ListInv
<1>5. Core'
  BY <1>3
  DEF IInv, Core, NoneKilled, ServingLinked, TicksQuiet, Stopped, Timers,
      NoServing, Listen, sweepVars, listVars
<1> QED
  BY <1>1, <1>4, <1>5 DEF IInv

LEMMA CloseKeepsInv ==
  ASSUME IInv, Close
  PROVE  IInv'
<1>1. ListInv'
  BY SameList DEF IInv, Close
<1>2. head = Null => NoServing
  BY EmptyHead DEF IInv, Core, ServingLinked, NoServing
<1>3. /\ callback' \in [1 .. MaxCloses -> Answer]
      /\ closes' \in 0 .. MaxCloses
  BY LifecycleAssumption DEF IInv, TypeOK, CallTypeOK, Close, Answer
<1>4. CASE CloseStopped
  <2>1. ~listening
    BY <1>4 DEF CloseStopped, IInv, Core
  <2>2. /\ ticks' \in Seq(Tick)
        /\ Queued(FinishTick)' <=> Queued(FinishTick)
        /\ Queued(EmitCloseTick)' => Queued(EmitCloseTick) \/ ~draining
        /\ \A r \in Responses :
              Queued(ClosedTick(r))' <=> Queued(ClosedTick(r))
    <3>1. CASE draining
      BY <1>4, <3>1, SameTicks DEF CloseStopped, DrainWillEmit, IInv, TypeOK
    <3>2. CASE ~draining
      <4>1. EmitCloseTick \in Tick
        BY DEF Tick
      <4>2. ticks' = Append(ticks, EmitCloseTick)
        BY <1>4, <3>2 DEF CloseStopped, DrainWillEmit
      <4>3. ticks' \in Seq(Tick)
        BY <4>1, <4>2, TickAppended DEF IInv, TypeOK
      <4>4. \A tick : Queued(tick)' <=> Queued(tick) \/ EmitCloseTick = tick
        BY <4>1, <4>2, TickAppended DEF IInv, TypeOK
      <4> QED
        BY <3>2, <4>3, <4>4, TicksDiffer
    <3> QED
      BY <3>1, <3>2
  <2>3. TypeOK'
    <3>1. FlagTypeOK'
      BY <1>4 DEF IInv, TypeOK, FlagTypeOK, Close, CloseStopped
    <3>2. CallTypeOK'
      BY <1>3, <1>4 DEF IInv, TypeOK, CallTypeOK, Close, CloseStopped
    <3>3. WireTypeOK'
      BY <1>4 DEF IInv, TypeOK, WireTypeOK, Close, CloseStopped
    <3> QED
      BY <1>1, <2>2, <3>1, <3>2, <3>3 DEF TypeOK, ListInv
  <2>4. Core'
    BY <1>4, <2>1, <2>2
    DEF IInv, Core, NoneKilled, ServingLinked, TicksQuiet, Stopped, Timers,
        NoServing, Close, CloseStopped, listVars
  <2> QED
    BY <1>1, <2>3, <2>4 DEF IInv
<1>5. CASE CloseListening
  <2>1. /\ ticks' \in Seq(Tick)
        /\ Queued(FinishTick)' <=> Queued(FinishTick) \/ head = Null
        /\ Queued(EmitCloseTick)' <=> Queued(EmitCloseTick)
        /\ \A r \in Responses :
              Queued(ClosedTick(r))' <=> Queued(ClosedTick(r))
    <3>1. CASE head = Null
      <4>1. FinishTick \in Tick
        BY DEF Tick
      <4>2. ticks' = Append(ticks, FinishTick)
        BY <1>5, <3>1 DEF CloseListening, NothingPending
      <4>3. ticks' \in Seq(Tick)
        BY <4>1, <4>2, TickAppended DEF IInv, TypeOK
      <4>4. \A tick : Queued(tick)' <=> Queued(tick) \/ FinishTick = tick
        BY <4>1, <4>2, TickAppended DEF IInv, TypeOK
      <4> QED
        BY <3>1, <4>3, <4>4, TicksDiffer
    <3>2. CASE head # Null
      BY <1>5, <3>2, SameTicks DEF CloseListening, NothingPending, IInv, TypeOK
    <3> QED
      BY <3>1, <3>2
  <2>2. sweeps' \in Nat /\ sweeps' >= sweeps /\ (head # Null => sweeps' > 0)
    BY <1>5 DEF CloseListening, NothingPending, IInv, TypeOK, CallTypeOK
  <2>3. TypeOK'
    <3>1. FlagTypeOK'
      BY <1>5 DEF IInv, TypeOK, FlagTypeOK, Close, CloseListening
    <3>2. CallTypeOK'
      BY <1>3, <1>5, <2>2, LifecycleAssumption
      DEF IInv, TypeOK, CallTypeOK, Close, CloseListening
    <3>3. WireTypeOK'
      BY <1>5 DEF IInv, TypeOK, WireTypeOK, Close, CloseListening
    <3> QED
      BY <1>1, <2>1, <3>1, <3>2, <3>3 DEF TypeOK, ListInv
  <2>4. Timers'
    BY <1>5, <2>1, <2>2
    DEF IInv, TypeOK, CallTypeOK, Core, Timers, Close, CloseListening
  <2>5. Core'
    BY <1>2, <1>5, <2>1, <2>4
    DEF IInv, Core, NoneKilled, ServingLinked, TicksQuiet, Stopped,
        NoServing, Close, CloseListening, listVars
  <2> QED
    BY <1>1, <2>3, <2>5 DEF IInv
<1> QED
  BY <1>4, <1>5 DEF Close

-----------------------------------------------------------------------------
\* finish(), where nothing is being served, aborts nothing.
LEMMA FinishFacts ==
  ASSUME IInv, NoServing, Finish
  PROVE  /\ phase' = phase /\ draining' = FALSE
         /\ listening' = listening /\ listenCalled' = listenCalled
         /\ listens' = listens /\ listenSocket' = listenSocket
         /\ closes' = closes
         /\ callback' \in [1 .. MaxCloses -> Answer]
         /\ bound' = {} /\ connected' = {}
         /\ WireTypeOK'
<1>1. phase' = phase
  BY DEF IInv, TypeOK, WireTypeOK, NoServing, Finish, UwsClose
<1>2. callback' \in [1 .. MaxCloses -> Answer]
  BY DEF IInv, TypeOK, CallTypeOK, Answer, Finish, EmitClose
<1>3. WireTypeOK'
  BY <1>1 DEF IInv, TypeOK, WireTypeOK, Finish, UwsClose
<1> QED
  BY <1>1, <1>2, <1>3 DEF Finish, UwsClose

LEMMA TickKeepsInv ==
  ASSUME IInv, RunTick
  PROVE  IInv'
<1>1. /\ Head(ticks) \in Tick /\ ticks' \in Seq(Tick)
      /\ \A tick : Queued(tick) <=> Queued(tick)' \/ Head(ticks) = tick
  BY TickRun DEF IInv, TypeOK, RunTick
<1>6. /\ Queued(FinishTick)' => Queued(FinishTick)
      /\ Queued(EmitCloseTick)' => Queued(EmitCloseTick)
      /\ \A r \in Responses : Queued(ClosedTick(r))' => Queued(ClosedTick(r))
      /\ Queued(FinishTick) /\ Head(ticks) # FinishTick => Queued(FinishTick)'
  BY <1>1
<1> HIDE DEF Queued
<1>2. CASE RunReport
  <2>1. ListInv'
    BY <1>2, SameList DEF IInv, RunReport
  <2>2. TypeOK'
    BY <1>1, <1>2
    DEF IInv, TypeOK, FlagTypeOK, CallTypeOK, ListTypeOK, WireTypeOK,
        RunReport, appVars, closeVars, sweepVars, listVars, wireVars
  <2>3. Core'
    BY <1>2, <1>6, TicksDiffer
    DEF IInv, Core, NoneKilled, ServingLinked, TicksQuiet, Stopped, Timers,
        NoServing, RunReport, appVars, sweepVars, listVars, wireVars
  <2> QED
    BY <2>1, <2>2, <2>3 DEF IInv
<1>3. CASE RunEmitClose
  <2>1. ListInv'
    BY <1>3, SameList DEF IInv, RunEmitClose
  <2>2. callback' \in [1 .. MaxCloses -> Answer]
    BY <1>3 DEF IInv, TypeOK, CallTypeOK, Answer, RunEmitClose, EmitClose
  <2>3. TypeOK'
    BY <1>1, <1>3, <2>2
    DEF IInv, TypeOK, FlagTypeOK, CallTypeOK, ListTypeOK, WireTypeOK,
        RunEmitClose, appVars, sweepVars, listVars, wireVars
  <2>4. Head(ticks) # FinishTick
    BY <1>3, TicksDiffer DEF RunEmitClose
  <2>5. Core'
    BY <1>3, <1>6, <2>4
    DEF IInv, Core, NoneKilled, ServingLinked, TicksQuiet, Stopped, Timers,
        NoServing, RunEmitClose, appVars, sweepVars, listVars, wireVars
  <2> QED
    BY <2>1, <2>3, <2>5 DEF IInv
<1>4. CASE RunFinish
  <2>1. ListInv'
    BY <1>4, SameList DEF IInv, RunFinish
  <2>2. NoServing /\ Finish
    BY <1>1, <1>4 DEF IInv, Core, TicksQuiet, RunFinish
  <2>3. TypeOK'
    <3>1. FlagTypeOK'
      BY <1>4, <2>2, FinishFacts DEF IInv, TypeOK, FlagTypeOK, RunFinish
    <3>2. CallTypeOK'
      BY <1>4, <2>2, FinishFacts
      DEF IInv, TypeOK, CallTypeOK, RunFinish, TimersAfterFinish
    <3> QED
      BY <1>1, <2>1, <2>2, <3>1, <3>2, FinishFacts DEF TypeOK, ListInv
  <2>4. /\ phase' = phase /\ draining' = FALSE /\ bound' = {}
        /\ connected' = {} /\ linked' = linked
        /\ listening' = listening /\ listenCalled' = listenCalled
        /\ sweeping' = sweeping /\ sweeps' = sweeps
    BY <1>4, <2>2, FinishFacts DEF RunFinish, TimersAfterFinish, listVars
  <2>5. Core'
    BY <1>6, <2>2, <2>4
    DEF IInv, Core, NoneKilled, ServingLinked, TicksQuiet, Stopped, Timers,
        NoServing
  <2> QED
    BY <2>1, <2>3, <2>5 DEF IInv
<1>5. CASE RunClosed
  <2>1. PICK r \in Responses : Head(ticks) = ClosedTick(r) /\ OnCloseCleanup(r)
    BY <1>5 DEF RunClosed
  <2>2. ListInv' /\ linked' = linked \ {r}
    BY <2>1, UnlinkKeepsList DEF IInv, OnCloseCleanup
  <2>3. phase[r] \notin {"serving", "unused"}
    BY <1>1, <2>1 DEF IInv, Core, TicksQuiet
  <2>4. TypeOK'
    BY <1>1, <1>5, <2>2
    DEF IInv, TypeOK, FlagTypeOK, CallTypeOK, ListInv, WireTypeOK,
        RunClosed, appVars, closeVars, sweepVars, wireVars
  <2>5. Head(ticks) # FinishTick
    BY <2>1, TicksDiffer
  <2>6. Core'
    BY <1>5, <1>6, <2>2, <2>3, <2>5
    DEF IInv, Core, NoneKilled, ServingLinked, TicksQuiet, Stopped, Timers,
        NoServing, RunClosed, appVars, sweepVars, wireVars
  <2> QED
    BY <2>2, <2>4, <2>6 DEF IInv
<1> QED
  BY <1>2, <1>3, <1>4, <1>5 DEF RunTick

-----------------------------------------------------------------------------
\* The timer's walk. A response it takes out is over.
LEMMA SweepBeginKeepsInv ==
  ASSUME IInv, SweepBegin
  PROVE  IInv'
<1>1. ListInv'
  BY SameList DEF IInv, SweepBegin
<1>2. TypeOK'
  <2>1. FlagTypeOK'
    BY DEF IInv, TypeOK, FlagTypeOK, SweepBegin, appVars
  <2>2. CallTypeOK'
    BY DEF IInv, TypeOK, CallTypeOK, ListTypeOK, SweepBegin, appVars, closeVars
  <2>3. WireTypeOK' /\ ticks' \in Seq(Tick)
    BY DEF IInv, TypeOK, WireTypeOK, SweepBegin, wireVars
  <2> QED
    BY <1>1, <2>1, <2>2, <2>3 DEF TypeOK, ListInv
<1>3. Core'
  BY SameTicks
  DEF IInv, Core, NoneKilled, ServingLinked, TicksQuiet, Stopped, Timers,
      NoServing, SweepBegin, appVars, listVars, wireVars
<1> QED
  BY <1>1, <1>2, <1>3 DEF IInv

LEMMA SweepOneKeepsInv ==
  ASSUME IInv, SweepOne
  PROVE  IInv'
<1>1. cursor \in Responses
  BY DEF IInv, TypeOK, CallTypeOK, SweepOne
<1>2. /\ ListInv'
      /\ linked' \in {linked, linked \ {cursor}}
      /\ linked' # linked => Over(cursor)
  <2>1. CASE Over(cursor)
    BY <1>1, <2>1, UnlinkKeepsList DEF IInv, SweepOne
  <2>2. CASE ~Over(cursor)
    BY <2>2, SameList DEF IInv, SweepOne, listVars
  <2> QED
    BY <2>1, <2>2
<1>3. TypeOK'
  <2>1. FlagTypeOK'
    BY DEF IInv, TypeOK, FlagTypeOK, SweepOne, appVars
  <2>2. CallTypeOK'
    BY <1>1
    DEF IInv, TypeOK, CallTypeOK, ListTypeOK, SweepOne, appVars, closeVars
  <2>3. WireTypeOK' /\ ticks' \in Seq(Tick)
    BY DEF IInv, TypeOK, WireTypeOK, SweepOne, wireVars
  <2> QED
    BY <1>2, <2>1, <2>2, <2>3 DEF TypeOK, ListInv
<1>4. \A r \in Responses : phase[r] = "serving" => r \in linked'
  BY <1>2 DEF IInv, Core, ServingLinked, Over
<1>5. Core'
  BY <1>2, <1>4, SameTicks
  DEF IInv, Core, NoneKilled, ServingLinked, TicksQuiet, Stopped, Timers,
      NoServing, SweepOne, appVars, wireVars
<1> QED
  BY <1>2, <1>3, <1>5 DEF IInv

LEMMA SweepEndKeepsInv ==
  ASSUME IInv, SweepEnd
  PROVE  IInv'
<1>1. ListInv'
  BY SameList DEF IInv, SweepEnd
<1>2. sweeps > 0 /\ sweeps \in Nat /\ UNCHANGED ticks /\ ticks' \in Seq(Tick)
  BY DEF IInv, Core, Timers, SweepEnd, TypeOK, CallTypeOK
<1>3. CASE head = Null
  <2>1. NoServing /\ Finish
    BY <1>3, EmptyHead DEF IInv, Core, ServingLinked, NoServing, SweepEnd
  <2>2. sweeps' = sweeps - 1 /\ sweeping' = FALSE /\ cursor' = cursor
    BY <1>3 DEF SweepEnd, TimersAfterWalk
  <2>3. TypeOK'
    <3>1. FlagTypeOK'
      BY <2>1, <2>2, FinishFacts DEF IInv, TypeOK, FlagTypeOK
    <3>2. sweeps' \in Nat
      BY <1>2, <2>2
    <3>3. CallTypeOK'
      BY <2>1, <2>2, <3>2, FinishFacts DEF IInv, TypeOK, CallTypeOK
    <3> QED
      BY <1>1, <1>2, <2>1, <3>1, <3>3, FinishFacts DEF TypeOK, ListInv
  <2>4. /\ phase' = phase /\ draining' = FALSE /\ bound' = {}
        /\ connected' = {} /\ linked' = linked
        /\ listening' = listening /\ listenCalled' = listenCalled
    BY <2>1, FinishFacts DEF SweepEnd, listVars
  <2>5. Core'
    BY <1>2, <2>1, <2>2, <2>4, SameTicks
    DEF IInv, Core, NoneKilled, ServingLinked, TicksQuiet, Stopped, Timers,
        NoServing
  <2> QED
    BY <1>1, <2>3, <2>5 DEF IInv
<1>4. CASE head # Null
  <2>1. /\ UNCHANGED <<appVars, closeVars, wireVars, listVars, cursor>>
        /\ sweeps' = sweeps /\ sweeping' = FALSE
    BY <1>4 DEF SweepEnd, TimersAfterWalk
  <2>2. TypeOK'
    <3>1. FlagTypeOK'
      BY <2>1 DEF IInv, TypeOK, FlagTypeOK, appVars
    <3>2. CallTypeOK' /\ WireTypeOK'
      BY <2>1
      DEF IInv, TypeOK, CallTypeOK, WireTypeOK, appVars, closeVars, wireVars
    <3> QED
      BY <1>1, <1>2, <3>1, <3>2 DEF TypeOK, ListInv
  <2>3. Core'
    BY <1>2, <2>1, SameTicks
    DEF IInv, Core, NoneKilled, ServingLinked, TicksQuiet, Stopped, Timers,
        NoServing, appVars, listVars, wireVars
  <2> QED
    BY <1>1, <2>2, <2>3 DEF IInv
<1> QED
  BY <1>3, <1>4

-----------------------------------------------------------------------------
\* What the network does.
LEMMA ConnectKeepsInv ==
  ASSUME IInv, NEW c \in Connections, Connect(c)
  PROVE  IInv'
<1>1. ListInv'
  BY SameList DEF IInv, Connect
<1>2. TypeOK'
  BY <1>1
  DEF IInv, TypeOK, ListInv, FlagTypeOK, CallTypeOK, WireTypeOK, Connect,
      appVars, closeVars, sweepVars
<1>3. Core'
  BY SameTicks
  DEF IInv, Core, NoneKilled, ServingLinked, TicksQuiet, Stopped, Timers,
      NoServing, Connect, appVars, sweepVars, listVars
<1> QED
  BY <1>1, <1>2, <1>3 DEF IInv

LEMMA DisconnectKeepsInv ==
  ASSUME IInv, NEW c \in Connections, Disconnect(c)
  PROVE  IInv'
<1>1. ListInv'
  BY SameList DEF IInv, Disconnect
<1>2. TypeOK'
  BY <1>1
  DEF IInv, TypeOK, ListInv, FlagTypeOK, CallTypeOK, WireTypeOK, Disconnect,
      appVars, closeVars, sweepVars
<1>3. Core'
  BY SameTicks
  DEF IInv, Core, NoneKilled, ServingLinked, TicksQuiet, Stopped, Timers,
      NoServing, Disconnect, appVars, sweepVars, listVars
<1> QED
  BY <1>1, <1>2, <1>3 DEF IInv

LEMMA DeliverKeepsInv ==
  ASSUME IInv, NEW r \in Responses, Deliver(r)
  PROVE  IInv'
<1>1. ListInv'
  BY SameList DEF IInv, Deliver
<1>2. TypeOK'
  BY <1>1
  DEF IInv, TypeOK, ListInv, FlagTypeOK, CallTypeOK, WireTypeOK, Deliver,
      appVars, closeVars, sweepVars
<1>3. Core'
  BY SameTicks
  DEF IInv, Core, NoneKilled, ServingLinked, TicksQuiet, Stopped, Timers,
      NoServing, Deliver, appVars, sweepVars, listVars
<1> QED
  BY <1>1, <1>2, <1>3 DEF IInv

LEMMA HandleRequestKeepsInv ==
  ASSUME IInv, NEW r \in Responses, NEW c \in Connections, HandleRequest(r, c)
  PROVE  IInv'
<1>1. ticks = <<>> /\ ticks' = ticks /\ r \notin linked /\ connected # {}
  BY DEF IInv, Core, ServingLinked, HandleRequest, Idle
<1>2. ListInv' /\ linked' = linked \cup {r}
  BY <1>1, LinkKeepsList DEF IInv, HandleRequest, Link
<1>3. phase' = [phase EXCEPT ![r] = "serving"] /\ phase[r] = "unused"
  BY DEF HandleRequest
<1>4. TypeOK'
  BY <1>1, <1>2, <1>3
  DEF IInv, TypeOK, ListInv, FlagTypeOK, CallTypeOK, WireTypeOK, Phase,
      HandleRequest, appVars, closeVars, sweepVars
<1>5. listening \/ draining
  BY <1>1 DEF IInv, Core, Stopped
<1>6. \A tick : ~Queued(tick)'
  BY <1>1 DEF Queued
<1>7. NoneKilled' /\ ServingLinked'
  BY <1>2, <1>3
  DEF IInv, TypeOK, WireTypeOK, Core, NoneKilled, ServingLinked
<1>8. TicksQuiet' /\ Stopped' /\ Timers' /\ (listening => listenCalled)'
  BY <1>1, <1>5, <1>6, NothingQueued
  DEF IInv, Core, TicksQuiet, Stopped, Timers, HandleRequest, appVars,
      sweepVars
<1> QED
  BY <1>2, <1>4, <1>7, <1>8 DEF IInv, Core

-----------------------------------------------------------------------------
\* The ends of a response.

\* What every end does to the phases.
LEMMA EndedFacts ==
  ASSUME IInv, NEW r \in Responses, phase[r] = "serving",
         NEW how \in {"finished", "quiet", "aborted"},
         phase' = [phase EXCEPT ![r] = how],
         linked' \in {linked, linked \ {r}}
  PROVE  /\ phase' \in [Responses -> Phase]
         /\ NoneKilled' /\ ServingLinked'
         /\ NoServing => NoServing'
         /\ \A s \in Responses : phase[s] \notin {"serving", "unused"} =>
                phase'[s] \notin {"serving", "unused"}
         /\ phase'[r] \notin {"serving", "unused"}
<1>1. \A s \in Responses : phase'[s] = IF s = r THEN how ELSE phase[s]
  BY DEF IInv, TypeOK, WireTypeOK
<1>2. phase' \in [Responses -> Phase]
  BY DEF IInv, TypeOK, WireTypeOK, Phase
<1>3. NoneKilled' /\ ServingLinked'
  BY <1>1 DEF IInv, Core, NoneKilled, ServingLinked
<1> QED
  BY <1>1, <1>2, <1>3 DEF NoServing

LEMMA EndKeepsInv ==
  ASSUME IInv, NEW r \in Responses, End(r)
  PROVE  IInv'
<1>1. ListInv' /\ linked' = linked \ {r}
  BY UnlinkKeepsList DEF IInv, End, OnCloseCleanup
<1>2. phase[r] = "serving" /\ phase' = [phase EXCEPT ![r] = "finished"]
  BY DEF End
<1>3. TypeOK'
  <2>1. WireTypeOK'
    BY <1>1, <1>2, EndedFacts DEF IInv, TypeOK, WireTypeOK, End
  <2> QED
    BY <1>1, <2>1
    DEF IInv, TypeOK, ListInv, FlagTypeOK, CallTypeOK, End, appVars, closeVars,
        sweepVars
<1>4. Core'
  BY <1>1, <1>2, EndedFacts, SameTicks
  DEF IInv, Core, TicksQuiet, Stopped, Timers, End, appVars, sweepVars
<1> QED
  BY <1>1, <1>3, <1>4 DEF IInv

LEMMA EndQuietlyKeepsInv ==
  ASSUME IInv, NEW r \in Responses, EndQuietly(r)
  PROVE  IInv'
<1>1. ListInv' /\ linked' = linked
  BY SameList DEF IInv, EndQuietly, listVars
<1>2. phase[r] = "serving" /\ phase' = [phase EXCEPT ![r] = "quiet"]
  BY DEF EndQuietly
<1>3. TypeOK'
  <2>1. WireTypeOK'
    BY <1>1, <1>2, EndedFacts DEF IInv, TypeOK, WireTypeOK, EndQuietly
  <2> QED
    BY <1>1, <2>1
    DEF IInv, TypeOK, ListInv, FlagTypeOK, CallTypeOK, EndQuietly, appVars,
        closeVars, sweepVars
<1>4. Core'
  BY <1>1, <1>2, EndedFacts, SameTicks
  DEF IInv, Core, TicksQuiet, Stopped, Timers, EndQuietly, appVars, sweepVars
<1> QED
  BY <1>1, <1>3, <1>4 DEF IInv

LEMMA EndOnErrorKeepsInv ==
  ASSUME IInv, NEW r \in Responses, EndOnError(r)
  PROVE  IInv'
<1>1. ListInv' /\ linked' = linked \ {r}
  BY UnlinkKeepsList DEF IInv, EndOnError
<1>2. phase[r] = "serving" /\ phase' = [phase EXCEPT ![r] = "finished"]
  BY DEF EndOnError
<1>3. TypeOK'
  <2>1. WireTypeOK'
    BY <1>1, <1>2, EndedFacts DEF IInv, TypeOK, WireTypeOK, EndOnError
  <2> QED
    BY <1>1, <2>1
    DEF IInv, TypeOK, ListInv, FlagTypeOK, CallTypeOK, EndOnError, appVars,
        closeVars, sweepVars
<1>4. connected = {} => connected' = {}
  BY DEF EndOnError
<1>5. Core'
  BY <1>1, <1>2, <1>4, EndedFacts, SameTicks
  DEF IInv, Core, TicksQuiet, Stopped, Timers, EndOnError, appVars, sweepVars
<1> QED
  BY <1>1, <1>3, <1>5 DEF IInv

LEMMA AbortKeepsInv ==
  ASSUME IInv, NEW r \in Responses, Abort(r)
  PROVE  IInv'
<1>1. ListInv' /\ linked' = linked
  BY SameList DEF IInv, Abort, listVars
<1>2. phase[r] = "serving" /\ phase' = [phase EXCEPT ![r] = "aborted"]
  BY DEF Abort
<1>3. ClosedTick(r) \in Tick /\ ticks' = Append(ticks, ClosedTick(r))
  BY DEF Tick, Abort
<1>4. /\ ticks' \in Seq(Tick)
      /\ \A tick : Queued(tick)' <=> Queued(tick) \/ ClosedTick(r) = tick
  BY <1>3, TickAppended DEF IInv, TypeOK
<1>5. /\ Queued(FinishTick)' <=> Queued(FinishTick)
      /\ Queued(EmitCloseTick)' <=> Queued(EmitCloseTick)
      /\ \A s \in Responses :
            Queued(ClosedTick(s))' => Queued(ClosedTick(s)) \/ s = r
  BY <1>4, TicksDiffer
<1>6. TypeOK'
  <2>1. WireTypeOK'
    BY <1>1, <1>2, EndedFacts DEF IInv, TypeOK, WireTypeOK, Abort
  <2> QED
    BY <1>1, <1>4, <2>1
    DEF IInv, TypeOK, ListInv, FlagTypeOK, CallTypeOK, Abort, appVars,
        closeVars, sweepVars
<1>7. connected = {} => connected' = {}
  BY DEF Abort
<1>8. Core'
  BY <1>1, <1>2, <1>5, <1>7, EndedFacts
  DEF IInv, Core, TicksQuiet, Stopped, Timers, Abort, appVars, sweepVars
<1> QED
  BY <1>1, <1>6, <1>8 DEF IInv

-----------------------------------------------------------------------------
LEMMA StepKeepsInv == IInv /\ [Next]_vars => IInv'
<1> SUFFICES ASSUME IInv, [Next]_vars PROVE IInv'
  OBVIOUS
<1>1. CASE Listen \/ Close
  BY <1>1, ListenKeepsInv, CloseKeepsInv
<1>2. CASE RunTick
  BY <1>2, TickKeepsInv
<1>3. CASE SweepBegin \/ SweepOne \/ SweepEnd
  BY <1>3, SweepBeginKeepsInv, SweepOneKeepsInv, SweepEndKeepsInv
<1>4. CASE \E c \in Connections : Connect(c) \/ Disconnect(c)
  BY <1>4, ConnectKeepsInv, DisconnectKeepsInv
<1>5. CASE \E r \in Responses, c \in Connections : HandleRequest(r, c)
  BY <1>5, HandleRequestKeepsInv
<1>6. CASE \E r \in Responses : Settle(r) \/ Deliver(r)
  BY <1>6, EndKeepsInv, EndQuietlyKeepsInv, EndOnErrorKeepsInv,
     AbortKeepsInv, DeliverKeepsInv DEF Settle
<1>7. CASE UNCHANGED vars
  <2>1. UNCHANGED <<appVars, closeVars, ticks, sweepVars, listVars, wireVars>>
    BY <1>7 DEF vars
  <2>2. ListInv'
    BY <2>1, SameList DEF IInv
  <2>3. TypeOK'
    BY <2>1, <2>2
    DEF IInv, TypeOK, ListInv, FlagTypeOK, CallTypeOK, WireTypeOK, appVars,
        closeVars, sweepVars, wireVars
  <2>4. Core'
    BY <2>1, SameTicks
    DEF IInv, Core, NoneKilled, ServingLinked, TicksQuiet, Stopped, Timers,
        NoServing, appVars, sweepVars, listVars, wireVars
  <2> QED
    BY <2>2, <2>3, <2>4 DEF IInv
<1> QED
  BY <1>1, <1>2, <1>3, <1>4, <1>5, <1>6, <1>7 DEF Next

LEMMA Invariance == Spec => []IInv
  BY InitInv, StepKeepsInv, PTL DEF Spec

\* The types, for every number of responses, connections and calls.
THEOREM TypeCorrect == Spec => []TypeOK
<1>1. IInv => TypeOK
  BY DEF IInv
<1> QED
  BY Invariance, <1>1, PTL

\* The two pointers of the list mirror each other, in whatever order the
\* responses end and whatever the timer is doing (handleRequest,
\* _unlinkPending).
THEOREM Safe_PointersMirror == Spec => []PointersMirror
<1>1. IInv => PointersMirror
  BY DEF IInv, ListInv
<1> QED
  BY Invariance, <1>1, PTL

\* uWS is closed only when nothing is being served: close() never kills a
\* request in flight.
THEOREM Safe_NoneKilled == Spec => []NoneKilled
<1>1. IInv => NoneKilled
  BY DEF IInv, Core
<1> QED
  BY Invariance, <1>1, PTL

\* A drain never stays with neither a timer nor a tick to end it.
THEOREM Safe_DrainHasEnd == Spec => []DrainHasEnd
<1>1. IInv => DrainHasEnd
  BY DEF IInv, Core, Timers, DrainHasEnd
<1> QED
  BY Invariance, <1>1, PTL

\* A step that answers a close() finds nothing being served and starts nothing.
LEMMA OkStep ==
  ASSUME IInv, [Next]_vars, NEW k \in 1 .. MaxCloses,
         callback[k] = "waiting", callback'[k] = "ok"
  PROVE  \A r \in Responses : phase'[r] # "serving"
<1> USE DEF NoServing
<1>1. ASSUME UNCHANGED callback PROVE FALSE
  BY <1>1
<1>2. CASE Listen \/ SweepBegin \/ SweepOne
  BY <1>1, <1>2 DEF Listen, SweepBegin, SweepOne, closeVars
<1>3. CASE Close
  <2>1. callback \in [1 .. MaxCloses -> Answer]
    BY DEF IInv, TypeOK, CallTypeOK
  <2> QED
    BY <1>3, <2>1 DEF Close
<1>4. CASE RunTick
  <2>1. ticks \in Seq(Tick) /\ ticks # <<>>
    BY <1>4 DEF RunTick, IInv, TypeOK
  <2>2. Queued(Head(ticks))
    BY <2>1, EmptySeq, HeadTailProperties DEF Queued
  <2>3. CASE RunReport \/ RunClosed
    BY <1>1, <2>3 DEF RunReport, RunClosed, closeVars
  <2>4. CASE RunEmitClose
    BY <2>2, <2>4 DEF RunEmitClose, wireVars, IInv, Core, TicksQuiet
  <2>5. CASE RunFinish
    BY <2>2, <2>5, FinishFacts DEF RunFinish, IInv, Core, TicksQuiet
  <2> QED
    BY <1>4, <2>3, <2>4, <2>5 DEF RunTick
<1>5. CASE SweepEnd
  <2>1. CASE head = Null
    BY <1>5, <2>1, EmptyHead, FinishFacts
    DEF SweepEnd, IInv, Core, ServingLinked
  <2>2. CASE head # Null
    BY <1>1, <1>5, <2>2 DEF SweepEnd, closeVars
  <2> QED
    BY <2>1, <2>2
<1>6. CASE \E c \in Connections : Connect(c) \/ Disconnect(c)
  BY <1>1, <1>6 DEF Connect, Disconnect, closeVars
<1>7. CASE \E r \in Responses, c \in Connections : HandleRequest(r, c)
  BY <1>1, <1>7 DEF HandleRequest, closeVars
<1>8. CASE \E r \in Responses : Settle(r) \/ Deliver(r)
  BY <1>1, <1>8 DEF Settle, End, EndQuietly, EndOnError, Abort, Deliver,
                    closeVars
<1>9. CASE UNCHANGED vars
  BY <1>1, <1>9 DEF vars, closeVars
<1> QED
  BY <1>2, <1>3, <1>4, <1>5, <1>6, <1>7, <1>8, <1>9 DEF Next

\* A close() that found the server listening calls back with no error only
\* when no request is being served.
THEOREM Safe_OkMeansQuiet == Spec => OkMeansQuiet
<1>1. IInv /\ [Next]_vars =>
        [\A k \in 1 .. MaxCloses :
            callback[k] = "waiting" /\ callback'[k] = "ok" =>
                \A r \in Responses : phase'[r] # "serving"]_vars
  BY OkStep
<1> QED
  BY Invariance, <1>1, PTL DEF Spec, OkMeansQuiet

-----------------------------------------------------------------------------
\* What the walk over the list finds.

\* A set that no step of the walk leaves holds all that is linked: of the
\* responses of the set ranked above one outside it, the one of the least rank
\* would lead to another of them.
LEMMA WalkReachesAll ==
  ASSUME ListInv, NEW S \in SUBSET Responses, LeftByNoStep(S)
  PROVE  linked \subseteq S
<1> SUFFICES ASSUME NEW s \in linked, s \notin S PROVE FALSE
  OBVIOUS
<1>1. PICK rank \in [Responses -> Nat] : RankedBy(rank)
  BY DEF ListInv, Ranked
<1> DEFINE A == {r \in S \cap linked : rank[s] < rank[r]}
           B == {rank[r] : r \in A}
           R == OpToRel(<, Nat)
<1>2. linked \subseteq Responses /\ Null \notin linked
  BY LifecycleAssumption DEF ListInv, ListTypeOK
<1>3. head \in A
  <2>1. head # Null /\ rank[s] <= rank[head] /\ head \in linked
    BY <1>1 DEF RankedBy, ListInv, PointersMirror
  <2>2. head \in S /\ head # s
    BY <2>1 DEF LeftByNoStep
  <2>3. rank[s] # rank[head]
    BY <1>1, <2>1, <2>2 DEF RankedBy
  <2>4. rank[s] \in Nat /\ rank[head] \in Nat
    BY <1>2, <2>1
  <2> QED
    BY <2>1, <2>2, <2>3, <2>4
<1>4. \A r \in A : \E t \in A : rank[t] < rank[r]
  <2> TAKE r \in A
  <2>1. r \in linked /\ r \in S /\ rank[s] < rank[r] /\ s # r
    OBVIOUS
  <2>2. next[r] # Null /\ rank[s] <= rank[next[r]] /\ rank[next[r]] < rank[r]
    BY <1>1, <2>1 DEF RankedBy
  <2>3. next[r] \in linked /\ next[r] \in S /\ next[r] # s
    BY <2>1, <2>2 DEF LeftByNoStep, ListInv, PointersMirror
  <2>4. rank[s] # rank[next[r]]
    BY <1>1, <2>3 DEF RankedBy
  <2>5. rank[s] \in Nat /\ rank[next[r]] \in Nat
    BY <1>2, <2>3
  <2> QED
    BY <2>2, <2>3, <2>4, <2>5
<1>5. B \subseteq Nat /\ B # {}
  BY <1>2, <1>3
<1>6. \A n, m \in Nat : n < m => <<n, m>> \in R
  BY DEF OpToRel
<1>7. IsWellFoundedOn(R, Nat)
  BY NatLessThanWellFounded DEF OpToRel
<1>8. \A n \in B : \E m \in B : m < n
  BY <1>4
<1> HIDE DEF A, B, R
<1>9. PICK n \in B : \A m \in B : ~(<<m, n>> \in R)
  BY <1>5, <1>7, WFMin
<1> QED
  BY <1>5, <1>6, <1>8, <1>9

LEMMA WalkIsTheList ==
  ASSUME ListInv
  PROVE  Walked = linked
<1>1. linked \in SUBSET Responses
  BY DEF ListInv, ListTypeOK
<1>2. LeftByNoStep(linked)
  BY DEF LeftByNoStep, ListInv, PointersMirror
<1>3. \A S \in SUBSET Responses : LeftByNoStep(S) => linked \subseteq S
  BY WalkReachesAll
<1> HIDE DEF LeftByNoStep
<1> QED
  BY <1>1, <1>2, <1>3 DEF Walked

\* What is still linked has not finished, and if it was aborted the tick that
\* will take it out is queued.
LinkedLives ==
    \A r \in linked :
        /\ phase[r] # "finished"
        /\ phase[r] = "aborted" => Queued(ClosedTick(r))

\* It stays so while nothing is linked that was not, no phase changes and no
\* tick of a linked response leaves the queue.
LEMMA StillLives ==
  ASSUME LinkedLives, linked' \subseteq linked, phase' = phase,
         \A r \in linked' : Queued(ClosedTick(r)) => Queued(ClosedTick(r))'
  PROVE  LinkedLives'
  BY DEF LinkedLives

\* And while a response ends that leaves the list, or is not over for it.
LEMMA EndedLives ==
  ASSUME LinkedLives, IInv, NEW r \in Responses, NEW how,
         phase' = [phase EXCEPT ![r] = how], linked' \subseteq linked,
         \/ r \notin linked'
         \/ how # "finished" /\ (how = "aborted" => Queued(ClosedTick(r))'),
         \A tick : Queued(tick) => Queued(tick)'
  PROVE  LinkedLives'
<1>1. \A s \in linked : phase'[s] = IF s = r THEN how ELSE phase[s]
  BY DEF IInv, TypeOK, WireTypeOK, ListTypeOK
<1> HIDE DEF Queued
<1> QED
  BY <1>1 DEF LinkedLives

LEMMA TickKeepsLives ==
  ASSUME IInv, LinkedLives, RunTick
  PROVE  LinkedLives'
<1>1. /\ ticks \in Seq(Tick) /\ ticks # <<>> /\ ticks' = Tail(ticks)
      /\ Head(ticks) \in Tick
      /\ \A tick : Queued(tick) <=> Queued(tick)' \/ Head(ticks) = tick
  BY TickRun DEF IInv, TypeOK, RunTick
<1> HIDE DEF Queued
<1>2. \A r : Queued(ClosedTick(r)) /\ Head(ticks) # ClosedTick(r)
               => Queued(ClosedTick(r))'
  BY <1>1
<1>3. CASE RunReport \/ RunEmitClose
  <2>1. Head(ticks) \in {ListeningTick, RefusedTick, EmitCloseTick}
    BY <1>3 DEF RunReport, RunEmitClose
  <2>2. linked' = linked /\ phase' = phase
    BY <1>3 DEF RunReport, RunEmitClose, listVars, wireVars
  <2> QED
    BY <1>2, <2>1, <2>2, TicksDiffer, StillLives
<1>4. CASE RunFinish
  <2>1. Queued(FinishTick)
    BY <1>1, <1>4 DEF RunFinish
  <2>2. NoServing /\ Finish
    BY <1>4, <2>1 DEF RunFinish, IInv, Core, TicksQuiet
  <2>3. phase' = phase /\ linked' = linked
    BY <1>4, <2>2, FinishFacts DEF RunFinish, listVars
  <2>4. Head(ticks) = FinishTick
    BY <1>4 DEF RunFinish
  <2> QED
    BY <1>2, <2>3, <2>4, TicksDiffer, StillLives
<1>5. CASE RunClosed
  <2>1. PICK r \in Responses : Head(ticks) = ClosedTick(r) /\ OnCloseCleanup(r)
    BY <1>5 DEF RunClosed
  <2>2. linked' = linked \ {r} /\ phase' = phase
    BY <1>5, <2>1 DEF RunClosed, OnCloseCleanup, Unlink, wireVars
  <2>3. \A s \in linked' : Head(ticks) # ClosedTick(s)
    BY <2>1, <2>2, TicksDiffer
  <2> QED
    BY <1>2, <2>2, <2>3, StillLives
<1> QED
  BY <1>3, <1>4, <1>5 DEF RunTick

LEMMA SweepKeepsLives ==
  ASSUME IInv, LinkedLives, SweepBegin \/ SweepOne \/ SweepEnd
  PROVE  LinkedLives'
<1>1. ticks' = ticks
  BY DEF SweepBegin, SweepOne, SweepEnd
<1>2. linked' \subseteq linked
  BY DEF SweepBegin, SweepOne, SweepEnd, Unlink, listVars
<1>3. phase' = phase
  <2>1. CASE SweepEnd /\ head = Null
    <3>1. NoServing /\ Finish
      BY <2>1, EmptyHead DEF IInv, Core, ServingLinked, NoServing, SweepEnd
    <3> QED
      BY <3>1, FinishFacts
  <2>2. CASE ~(SweepEnd /\ head = Null)
    BY <2>2 DEF SweepBegin, SweepOne, SweepEnd, wireVars
  <2> QED
    BY <2>1, <2>2
<1> QED
  BY <1>1, <1>2, <1>3, SameTicks, StillLives

\* Requests come in linked and served, and end.
LEMMA ResponseKeepsLives ==
  ASSUME IInv, LinkedLives, NEW r \in Responses,
         \/ Settle(r)
         \/ \E c \in Connections : HandleRequest(r, c)
  PROVE  LinkedLives'
<1> USE DEF IInv, TypeOK
<1>1. CASE End(r) \/ EndOnError(r)
  <2>1. /\ phase' = [phase EXCEPT ![r] = "finished"] /\ ticks' = ticks
        /\ linked' = linked \ {r}
    BY <1>1 DEF End, EndOnError, OnCloseCleanup, Unlink
  <2>2. \A tick : Queued(tick) => Queued(tick)'
    BY <2>1, SameTicks
  <2> QED
    BY <2>1, <2>2, EndedLives
<1>2. CASE EndQuietly(r)
  <2>1. /\ phase' = [phase EXCEPT ![r] = "quiet"] /\ ticks' = ticks
        /\ linked' = linked
    BY <1>2 DEF EndQuietly, listVars
  <2>2. \A tick : Queued(tick) => Queued(tick)'
    BY <2>1, SameTicks
  <2> QED
    BY <2>1, <2>2, EndedLives
<1>3. CASE Abort(r)
  <2>1. /\ phase' = [phase EXCEPT ![r] = "aborted"]
        /\ ticks' = Append(ticks, ClosedTick(r)) /\ linked' = linked
    BY <1>3 DEF Abort, listVars
  <2>2. ClosedTick(r) \in Tick
    BY DEF Tick
  <2>3. \A tick : Queued(tick)' <=> Queued(tick) \/ ClosedTick(r) = tick
    BY <2>1, <2>2, TickAppended
  <2> QED
    BY <2>1, <2>3, EndedLives
<1>4. CASE \E c \in Connections : HandleRequest(r, c)
  <2>1. /\ phase' = [phase EXCEPT ![r] = "serving"] /\ ticks' = ticks
        /\ linked' = linked \cup {r}
    BY <1>4 DEF HandleRequest, Link
  <2>2. \A s \in linked' : phase'[s] = IF s = r THEN "serving" ELSE phase[s]
    BY <2>1 DEF WireTypeOK, ListTypeOK
  <2>3. \A s \in linked' : s # r => s \in linked
    BY <2>1
  <2>4. \A tick : Queued(tick) => Queued(tick)'
    BY <2>1, SameTicks
  <2> HIDE DEF Queued
  <2> QED
    BY <2>2, <2>3, <2>4 DEF LinkedLives
<1> QED
  BY <1>1, <1>2, <1>3, <1>4 DEF Settle

LEMMA StepKeepsLives ==
  ASSUME IInv, LinkedLives, [Next]_vars
  PROVE  LinkedLives'
<1>1. ASSUME linked' = linked, phase' = phase, \A tick : Queued(tick) => Queued(tick)'
      PROVE  LinkedLives'
  BY <1>1, StillLives
<1>2. CASE Listen \/ Close
  <2>1. linked' = linked /\ phase' = phase
    BY <1>2 DEF Listen, Close, listVars
  <2>2. \/ ticks' = ticks
        \/ \E t \in Tick : ticks' = Append(ticks, t)
    BY <1>2 DEF Listen, Close, CloseStopped, CloseListening, Tick
  <2>3. \A tick : Queued(tick) => Queued(tick)'
    BY <2>2, SameTicks, TickAppended DEF IInv, TypeOK
  <2> QED
    BY <1>1, <2>1, <2>3
<1>3. CASE RunTick
  BY <1>3, TickKeepsLives
<1>4. CASE SweepBegin \/ SweepOne \/ SweepEnd
  BY <1>4, SweepKeepsLives
<1>5. CASE \E c \in Connections : Connect(c) \/ Disconnect(c)
  <2>1. linked' = linked /\ phase' = phase /\ ticks' = ticks
    BY <1>5 DEF Connect, Disconnect, listVars
  <2> QED
    BY <1>1, <2>1, SameTicks
<1>6. CASE \E r \in Responses, c \in Connections : HandleRequest(r, c)
  BY <1>6, ResponseKeepsLives
<1>7. CASE \E r \in Responses : Settle(r)
  BY <1>7, ResponseKeepsLives
<1>8. CASE \/ \E r \in Responses : Deliver(r)
           \/ UNCHANGED vars
  <2>1. linked' = linked /\ phase' = phase /\ ticks' = ticks
    BY <1>8 DEF Deliver, vars, listVars, wireVars
  <2> QED
    BY <1>1, <2>1, SameTicks
<1> QED
  BY <1>2, <1>3, <1>4, <1>5, <1>6, <1>7, <1>8 DEF Next

\* The walk over the list finds what is in it, every response being served is
\* there and, between events, no other but those that ended quietly: what
\* getConnections() counts and close() waits for.
THEOREM Safe_WalkFindsServing == Spec => []WalkFindsServing
<1>1. Init => LinkedLives
  BY DEF Init, LinkedLives
<1>2. IInv /\ LinkedLives /\ [Next]_vars => LinkedLives'
  BY StepKeepsLives
<1>3. IInv /\ LinkedLives => WalkFindsServing
  <2> SUFFICES ASSUME IInv, LinkedLives PROVE WalkFindsServing
    OBVIOUS
  <2>1. Walked = linked
    BY WalkIsTheList DEF IInv
  <2>2. \A r \in Responses : phase[r] = "serving" => r \in linked
    BY DEF IInv, Core, ServingLinked
  <2>3. ASSUME Idle, NEW r \in linked PROVE phase[r] \in {"serving", "quiet"}
    <3>1. phase[r] # "finished" /\ phase[r] # "aborted"
      BY <2>3, NothingQueued DEF LinkedLives, Idle
    <3>2. r \in Responses /\ phase[r] \in Phase
      BY DEF IInv, TypeOK, ListTypeOK, WireTypeOK
    <3>3. phase[r] # "killed" /\ phase[r] # "unused"
      BY <3>2 DEF IInv, Core, NoneKilled, ServingLinked
    <3> QED
      BY <3>1, <3>2, <3>3 DEF Phase
  <2> QED
    BY <2>1, <2>2, <2>3 DEF WalkFindsServing
<1> QED
  BY Invariance, <1>1, <1>2, <1>3, PTL DEF Spec
=============================================================================

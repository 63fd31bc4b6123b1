-------------------------- MODULE StandaloneRoute --------------------------
(***************************************************************************)
(* express.Route built by hand: handlers pushed with the verb they answer,  *)
(* and dispatch, which walks them for one request. A handler may call       *)
(* next() before or after it returns, throw, or return a promise that       *)
(* rejects; a long run of synchronous handlers lets go of the stack.        *)
(***************************************************************************)
EXTENDS Integers, Sequences, SequencesExt

CONSTANTS
    Methods,        \* the verbs handlers are pushed for, "all" among them
    SyncLimit,      \* SYNC_LIMIT
    MaxStack,       \* the handlers of the route
    None

VARIABLES
    stack,          \* this.stack: the verb, and whether the handler takes an error
    method,         \* the verb of the request as dispatch reads it
    index, sync,    \* the locals of dispatch
    pc,             \* "built", "next", "handler", "pending", "later", "done"
    err,            \* what next() was called with
    depth,          \* the handlers on the call stack
    ran,            \* history: the handlers that ran, with what they were given
    done            \* history: what done() was called with, in turn

vars == <<stack, method, index, sync, pc, err, depth, ran, done>>

All == "all"
Layer == [method : Methods, error : BOOLEAN]
Signals == {None, "route", "router", "fault"}

\* What the constants must be.
StandaloneRouteAssumption ==
    /\ {All, "get", "head"} \subseteq Methods
    /\ SyncLimit \in Nat \ {0} /\ MaxStack \in Nat

Has(m) == \E i \in DOMAIN stack : stack[i].method = m
\* handlesMethod: HEAD falls back to GET.
Effective(m) == IF m = "head" /\ ~Has("head") THEN "get" ELSE m

TypeOK ==
    /\ stack \in Seq(Layer) /\ Len(stack) <= MaxStack
    /\ index \in 0 .. Len(stack) /\ sync \in 0 .. SyncLimit + 1
    /\ pc \in {"built", "next", "handler", "pending", "later", "done"}
    /\ err \in Signals /\ depth \in Nat

Init ==
    /\ stack = <<>>
    /\ method = None
    /\ index = 0 /\ sync = 0 /\ depth = 0
    /\ pc = "built" /\ err = None
    /\ ran = <<>> /\ done = <<>>

\* route.get(handler), route.all(handler)
Add(m, error) ==
    /\ pc = "built" /\ Len(stack) < MaxStack
    /\ stack' = Append(stack, [method |-> m, error |-> error])
    /\ UNCHANGED <<method, index, sync, pc, err, depth, ran, done>>

\* dispatch
Dispatch(m) ==
    /\ pc = "built"
    /\ IF stack = <<>> THEN pc' = "done" /\ done' = <<None>> /\ UNCHANGED method
       ELSE pc' = "next" /\ method' = Effective(m) /\ UNCHANGED done
    /\ UNCHANGED <<stack, index, sync, err, depth, ran>>

Answers(i) == stack[i].method \in {All, method}
Following == {i \in index + 1 .. Len(stack) : Answers(i)}
First(s) == CHOOSE i \in s : \A j \in s : i <= j

\* The handler that called next() said so.
Saying(signal) == IF ran = <<>> THEN ran ELSE Append(Front(ran), [Last(ran) EXCEPT !.said = signal])

Finish(with, log) ==
    /\ pc' = "done"
    /\ done' = Append(done, with)
    /\ ran' = log
    /\ UNCHANGED <<index, sync, err, depth>>

\* A long run waits for setImmediate.
Later(signal, log) ==
    /\ pc' = "later"
    /\ sync' = 0 /\ err' = signal /\ ran' = log
    /\ UNCHANGED <<index, depth, done>>

\* The next handler of the verb: an error goes to those that take one and to
\* nobody else.
Enter(i, signal, log) ==
    /\ index' = i /\ sync' = sync + 1 /\ err' = signal /\ depth' = depth + 1
    /\ IF stack[i].error = (signal # None)
       THEN pc' = "handler" /\ ran' = Append(log, [at |-> i, err |-> signal, said |-> None])
       ELSE pc' = "next" /\ ran' = log
    /\ UNCHANGED done

Next(signal, log) ==
    CASE signal = "route" -> Finish(None, log)
      [] signal = "router" \/ (signal # "route" /\ index = Len(stack)) -> Finish(signal, log)
      [] OTHER -> IF sync = SyncLimit THEN Later(signal, log)
                  ELSE IF Following = {} THEN Finish(signal, log)
                  ELSE Enter(First(Following), signal, log)

Step ==
    /\ pc = "next"
    /\ Next(err, ran)
    /\ UNCHANGED <<stack, method>>

\* The handler calls next() before it returns, or throws.
Calls(signal) ==
    /\ pc = "handler"
    /\ Next(signal, Saying(signal))
    /\ UNCHANGED <<stack, method>>

\* It returns with next() still to call, or a promise: the stack is gone.
Returns ==
    /\ pc = "handler"
    /\ pc' = "pending" /\ sync' = 0 /\ depth' = 0
    /\ UNCHANGED <<stack, method, index, err, ran, done>>
CallsLate(signal) ==
    /\ pc = "pending"
    /\ Next(signal, Saying(signal))
    /\ UNCHANGED <<stack, method>>

\* setImmediate runs.
Immediate ==
    /\ pc = "later"
    /\ pc' = "next" /\ depth' = 0
    /\ UNCHANGED <<stack, method, index, sync, err, ran, done>>
-----------------------------------------------------------------------------
\* Every handler of the verb that was reached ran exactly where it should have:
\* a plain one while nothing failed, an error handler with the failure the one
\* before it called next() with, in the order they were pushed; done() hears
\* once, and the stack never grows beyond the limit (route.js dispatch).
RanBefore(i) == {k \in DOMAIN ran : ran[k].at < i}
Carried(i) ==
    IF RanBefore(i) = {} THEN None
    ELSE ran[CHOOSE k \in RanBefore(i) : \A l \in RanBefore(i) : l <= k].said
HandlersInTurn ==
    /\ \A i \in 1 .. index :
          LET times == {k \in DOMAIN ran : ran[k].at = i} IN
          IF Answers(i) /\ stack[i].error = (Carried(i) # None)
          THEN \E k \in times : times = {k} /\ ran[k].err = Carried(i)
          ELSE times = {}
    /\ \A i, j \in DOMAIN ran : i < j => ran[i].at < ran[j].at
    /\ Len(done) <= 1
    /\ depth <= SyncLimit
=============================================================================

------------------------------ MODULE FileCache ------------------------------
(***************************************************************************)
(* The small files of res.sendFile: readSmallFile's cache and shared reads *)
(* (src/application.js), the pool of file threads it reads with and the    *)
(* keys their answers come back under (src/worker.js).                     *)
(*                                                                         *)
(* A version stands for a file's mtime, its size and its bytes: an edit    *)
(* makes a new one. A request takes the file's stat and asks for its bytes *)
(* in one piece of JavaScript; the threads read when they come to it.      *)
(***************************************************************************)
EXTENDS Integers, Sequences, FiniteSets, Functions, SequencesExt, FiniteSetsExt

CONSTANTS
    Files, Requests, Threads,
    KeyLimit,       \* the key after which the counter starts over
    MaxVersion,     \* edits of a file
    SizeOf(_),      \* the size of a version
    Budget,         \* FILE_CACHE_BUDGET
    MaxEntry,       \* FILE_CACHE_MAX_ENTRY
    Caching,        \* the setting "file cache"
    None

ASSUME FileCacheAssumption ==
    /\ KeyLimit \in Nat /\ MaxVersion \in Nat \ {0}
    /\ Caching \in BOOLEAN
    /\ Budget \in Nat /\ MaxEntry \in Nat
    /\ \A v \in 1 .. MaxVersion : SizeOf(v) \in Nat
    /\ None \notin Requests \cup Files

VARIABLES
    version,    \* what the disk holds of each file
    asked,      \* the file and the stat each request asked with
    joined,     \* the read each request waits for, named by who began it
    answer,     \* what each request was given
    inFlight,   \* _fileReadsInFlight: the read of each file, or None
    cache,      \* _fileCache, oldest first
    bytes,      \* _fileCacheBytes
    taskKey, tasks,     \* the counter, and the read parked under each key
    inbox, outbox       \* each thread's messages, to it and from it

diskVars == <<version>>
requestVars == <<asked, joined, answer>>
cacheVars == <<inFlight, cache, bytes>>
taskVars == <<taskKey, tasks>>
threadVars == <<inbox, outbox>>
vars == <<diskVars, requestVars, cacheVars, taskVars, threadVars>>

Keys == 0 .. KeyLimit + 1
Version == 1 .. MaxVersion
Data == [file : Files, version : Version]
NoData == [file |-> None, version |-> 0]         \* no stat yet; a failed read
NoAnswer == [file |-> None, version |-> 1]
Entry == [file : Files, stat : Version, data : Data]
Waiting(r) == joined[r] # None /\ answer[r] = NoAnswer

Init ==
    /\ version = [f \in Files |-> 1]
    /\ asked = [r \in Requests |-> NoData]
    /\ joined = [r \in Requests |-> None]
    /\ answer = [r \in Requests |-> NoAnswer]
    /\ inFlight = [f \in Files |-> None]
    /\ cache = <<>> /\ bytes = 0
    /\ taskKey = 0 /\ tasks = [k \in Keys |-> None]
    /\ inbox = [t \in Threads |-> <<>>]
    /\ outbox = [t \in Threads |-> <<>>]

-----------------------------------------------------------------------------
\* Somebody writes the file.
Edit(f) ==
    /\ version[f] < MaxVersion
    /\ version' = [version EXCEPT ![f] = @ + 1]
    /\ UNCHANGED <<requestVars, cacheVars, taskVars, threadVars>>

\* An entry answers while the file's stat is the one it was read under.
Matches(e, f) == e.file = f /\ e.stat = version[f]
InCache(f) == Caching /\ \E i \in 1 .. Len(cache) : Matches(cache[i], f)

\* The cache has it: the answer is a macrotask away, and nothing changes it.
Hit(r, f) ==
    /\ \E i \in 1 .. Len(cache) :
          /\ Matches(cache[i], f)
          /\ answer' = [answer EXCEPT ![r] = cache[i].data]
    /\ UNCHANGED <<joined, cacheVars, taskVars, threadVars>>

\* Somebody is reading it.
MayJoin(f) == inFlight[f] # None
Join(r, f) ==
    /\ MayJoin(f)
    /\ joined' = [joined EXCEPT ![r] = inFlight[f]]
    /\ UNCHANGED <<answer, cacheVars, taskVars, threadVars>>

\* createWorkerTask: the next key, starting over past the limit.
NextKey(key) == IF key > KeyLimit THEN 0 ELSE key + 1

\* A read of its own, on a thread picked at random.
StartRead(r, f) ==
    /\ ~MayJoin(f)
    /\ inFlight' = [inFlight EXCEPT ![f] = r]
    /\ joined' = [joined EXCEPT ![r] = r]
    /\ tasks' = [tasks EXCEPT ![taskKey] = r]
    /\ taskKey' = NextKey(taskKey)
    /\ \E t \in Threads :
          inbox' = [inbox EXCEPT ![t] = Append(@, [key |-> taskKey, file |-> f])]
    /\ UNCHANGED <<answer, cache, bytes, outbox>>

\* sendFile's stat, and readSmallFile with it.
Ask(r, f) ==
    /\ asked[r] = NoData
    /\ asked' = [asked EXCEPT ![r] = [file |-> f, version |-> version[f]]]
    /\ IF InCache(f)
         THEN Hit(r, f)
         ELSE Join(r, f) \/ StartRead(r, f)
    /\ UNCHANGED diskVars

-----------------------------------------------------------------------------
\* A file thread: readFileSync, and its answer or its error.
ThreadReads(t) ==
    /\ inbox[t] # <<>>
    /\ LET ask == Head(inbox[t]) IN
       \E data \in {[file |-> ask.file, version |-> version[ask.file]], NoData} :
          outbox' = [outbox EXCEPT ![t] =
                        Append(@, [key |-> ask.key, data |-> data])]
    /\ inbox' = [inbox EXCEPT ![t] = Tail(@)]
    /\ UNCHANGED <<diskVars, requestVars, cacheVars, taskVars>>

-----------------------------------------------------------------------------
SizeSum(entries) ==
    SumFunctionOnSet([i \in DOMAIN entries |-> SizeOf(entries[i].stat)],
                     DOMAIN entries)

\* The place of a file's entry in the cache, none or one; what the cache is
\* without it, and what is then left of the count.
PlaceOf(f) == {i \in DOMAIN cache : cache[i].file = f}
Place(f) == CHOOSE i \in DOMAIN cache : cache[i].file = f
Without(f) == IF PlaceOf(f) = {} THEN cache ELSE RemoveAt(cache, Place(f))
BytesWithout(f) ==
    IF PlaceOf(f) = {} THEN bytes ELSE bytes - SizeOf(cache[Place(f)].stat)

\* How many of the oldest entries are dropped: as few as bring the count down to
\* the budget.
Dropped(entries, count) ==
    Min({n \in 0 .. Len(entries) :
            n = Len(entries) \/ count - SizeSum(SubSeq(entries, 1, n)) <= Budget})

\* Which read is stored under which stat: the one its asker took.
StatNow(r) == version[asked[r].file]  \* a bug
StatAsked(r) == asked[r].version

\* pending.then: the bytes into the cache, in the place of what it had of the
\* file and as the youngest; the oldest make room.
Store(r, data) ==
    IF Caching /\ SizeOf(StatAsked(r)) <= MaxEntry
      THEN LET f == asked[r].file
               entry == [file |-> f, stat |-> StatAsked(r), data |-> data]
               entries == Append(Without(f), entry)
               count == BytesWithout(f) + SizeOf(StatAsked(r))
               n == Dropped(entries, count)
           IN /\ cache' = SubSeq(entries, n + 1, Len(entries))
              /\ bytes' = count - SizeSum(SubSeq(entries, 1, n))
      ELSE UNCHANGED <<cache, bytes>>

\* clear, on an answer and on an error.
Clear(f, data) == [inFlight EXCEPT ![f] = None]

\* A thread's message: the promise parked under its key is settled, and with
\* it everyone who joined.
Settle(t) ==
    /\ outbox[t] # <<>>
    /\ outbox' = [outbox EXCEPT ![t] = Tail(@)]
    /\ LET message == Head(outbox[t])
           r == tasks[message.key]
       IN IF r = None
            THEN UNCHANGED <<tasks, answer, cacheVars>>
            ELSE /\ tasks' = [tasks EXCEPT ![message.key] = None]
                 /\ answer' = [q \in Requests |->
                                  IF Waiting(q) /\ joined[q] = r
                                    THEN message.data ELSE answer[q]]
                 /\ inFlight' = Clear(asked[r].file, message.data)
                 /\ IF message.data = NoData
                      THEN UNCHANGED <<cache, bytes>>
                      ELSE Store(r, message.data)
    /\ UNCHANGED <<diskVars, asked, joined, taskKey, inbox>>

Next ==
    \/ \E f \in Files : Edit(f)
    \/ \E r \in Requests, f \in Files : Ask(r, f)
    \/ \E t \in Threads : ThreadReads(t) \/ Settle(t)

Spec == Init /\ [][Next]_vars

\* The threads read what they are sent and the loop takes their messages.
Fairness == \A t \in Threads : WF_vars(ThreadReads(t)) /\ WF_vars(Settle(t))

FairSpec == Spec /\ Fairness

-----------------------------------------------------------------------------
\* Every variable has its type; the counter stays within the keys.
TypeOK ==
    /\ version \in [Files -> Version]
    /\ asked \in [Requests -> Data \cup {NoData}]
    /\ joined \in [Requests -> Requests \cup {None}]
    /\ answer \in [Requests -> Data \cup {NoData, NoAnswer}]
    /\ inFlight \in [Files -> Requests \cup {None}]
    /\ cache \in Seq(Entry) /\ bytes \in Nat
    /\ taskKey \in Keys
    /\ tasks \in [Keys -> Requests \cup {None}]
    /\ inbox \in [Threads -> Seq([key : Keys, file : Files])]
    /\ outbox \in [Threads -> Seq([key : Keys, data : Data \cup {NoData}])]

\* Everyone is given the bytes of the file it asked for: no two reads wait
\* under one key, though the counter starts over.
RightFile ==
    \A r \in Requests : answer[r] \in Data => answer[r].file = asked[r].file

\* The weakest freshness: the bytes are no older than the stat of whoever began
\* the read.
NotOlderThanRead ==
    \A r \in Requests : answer[r] \in Data =>
        answer[r].version >= IF joined[r] = None THEN asked[r].version
                                                 ELSE asked[joined[r]].version

\* The count of the cached bytes, taken down and up as entries go and come, is
\* the sum of the entries', within the budget, with one entry for a file.
CacheAccounted ==
    /\ bytes = SizeSum(cache) /\ bytes <= Budget
    /\ \A i, j \in DOMAIN cache : cache[i].file = cache[j].file => i = j

\* What is cached under a stat is no older than the stat, and of the file: a file
\* edited while it is read is read again.
CachedNotOlder ==
    \A i \in DOMAIN cache :
        cache[i].data.file = cache[i].file /\ cache[i].data.version >= cache[i].stat

\* The key a read would be parked under is free while there is a file to read:
\* the counter, starting over, never comes to a key that still waits.
KeyFree == (\E f \in Files : inFlight[f] = None) => tasks[taskKey] = None

\* The reads shared: every variable has its type, no key is used while it waits,
\* everyone is given its own file, no older than the read it joined, and the cache
\* holds nothing older than the stat it is kept under, within its budget
\* (application.js readSmallFile and createWorkerTask).
CacheIsRight ==
    /\ TypeOK /\ KeyFree /\ RightFile /\ NotOlderThanRead
    /\ CacheAccounted /\ CachedNotOlder

\* Everyone who asks is answered, with bytes or an error.
AskIsAnswered ==
    \A r \in Requests : asked[r] # NoData ~> answer[r] # NoAnswer

\* docs/compatibility.md:103: "an edited file is never served stale".
NeverStale ==
    \A r \in Requests : answer[r] \in Data =>
        answer[r].version >= asked[r].version
=============================================================================

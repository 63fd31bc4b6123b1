------------------------------ MODULE Settings ------------------------------
(***************************************************************************)
(* The settings of applications mounted in one another: set and inherited   *)
(* (application.js), read on every request from fields resolved once and    *)
(* kept until anything is set or mounted anywhere (router.js _hot,          *)
(* hot-settings.js).  Next to them stand the same settings as Express keeps *)
(* them, chained by prototype: what the writes should come to.              *)
(***************************************************************************)
EXTENDS Naturals, FiniteSets

CONSTANTS
    App,            \* the applications
    None,           \* undefined
    Absent,         \* in Express's settings, a key that is not there at all
    MaxWrites       \* the writes and mounts of a run

VARIABLES
    own,            \* _settings of each
    default,        \* whether "trust proxy" is still the default of each
    parent,
    epoch,          \* settingsEpoch, of the process
    hot,            \* _hotSettings of each
    express         \* what Express would keep

vars == <<own, default, parent, epoch, hot, express>>

\* What the constants must be.
SettingsAssumption == MaxWrites \in Nat /\ None \notin App /\ None # Absent

\* A setting that is compiled into a function kept beside it, and a plain one.
Function == [etag |-> "etagFn", query |-> "queryFn", trust |-> "trustFn"]
Compiled == DOMAIN Function
Functions == {Function[key] : key \in Compiled}
Keys == Compiled \cup Functions \cup {"spaces"}

\* What each may be given; "off" is false.
Values(key) ==
    CASE key = "etag" -> {"strong", "off"}
      [] key = "query" -> {"extended", "off"}
      [] key = "trust" -> {"all", "off"}
      [] key = "spaces" -> {"two", "four"}
      [] OTHER -> {"mine"}

Defaults ==
    [key \in Keys |->
        CASE key \in {"etag", "etagFn"} -> "weak"
          [] key \in {"query", "queryFn"} -> "simple"
          [] key = "trust" -> "off"
          [] key = "trustFn" -> "none"
          [] OTHER -> None]

\* What set() compiles: no ETag and no parser are no function, but trusting nobody
\* is one, so that it shadows a parent's.
CompileEtag(value) == IF value = "off" THEN None ELSE value
CompileQuery(value) == IF value = "off" THEN None ELSE value
\* A bug: trusting nobody is no function.
CompileTrustDeleted(value) == IF value = "off" THEN None ELSE value
CompileTrust(value) == IF value = "off" THEN "none" ELSE value
Compile(key, value) ==
    CASE key = "etag" -> CompileEtag(value)
      [] key = "query" -> CompileQuery(value)
      [] OTHER -> CompileTrust(value)

-----------------------------------------------------------------------------
(* Reading                                                                 *)

RECURSIVE Ancestors(_)
Ancestors(app) == IF parent[app] = None THEN {} ELSE {parent[app]} \cup Ancestors(parent[app])

\* get(): undefined is the parent's.
RECURSIVE Get(_, _)
Get(app, key) ==
    IF own[app][key] = None /\ parent[app] # None THEN Get(parent[app], key) ELSE own[app][key]

\* Express's: a key that is there is the answer, undefined or not.
RECURSIVE ExpressGet(_, _)
ExpressGet(app, key) ==
    IF express[app][key] # Absent THEN express[app][key]
    ELSE IF parent[app] = None THEN None ELSE ExpressGet(parent[app], key)

\* What the fields are resolved to.
Resolve(app) ==
    [etagFn |-> Get(app, "etagFn"), queryFn |-> Get(app, "queryFn"), spaces |-> Get(app, "spaces"),
     trustFn |-> IF Get(app, "trust") \in {None, "off"} THEN "none" ELSE Get(app, "trustFn")]
ExpressResolve(app) ==
    [etagFn |-> ExpressGet(app, "etagFn"), queryFn |-> ExpressGet(app, "queryFn"),
     spaces |-> ExpressGet(app, "spaces"), trustFn |-> ExpressGet(app, "trustFn")]

-----------------------------------------------------------------------------
TypeOK ==
    /\ DOMAIN own = App /\ \A app \in App : DOMAIN own[app] = Keys
    /\ default \in [App -> BOOLEAN]
    /\ parent \in [App -> App \cup {None}]
    /\ epoch \in 1 .. MaxWrites + 1
    /\ \A app \in App : hot[app].epoch \in 0 .. epoch

\* express() of each: the defaults, and none of the fields resolved.
Init ==
    /\ own = [app \in App |-> Defaults]
    /\ default = [app \in App |-> TRUE]
    /\ parent = [app \in App |-> None]
    /\ epoch = 1
    /\ hot = [app \in App |-> [epoch |-> 0, fields |-> None]]
    /\ express = [app \in App |-> [Defaults EXCEPT !.spaces = Absent]]

Writes == epoch <= MaxWrites
Bump == epoch' = epoch + 1

\* app.set(), enable() and disable().
Set(app, key, value) ==
    /\ Writes
    /\ LET with == [own EXCEPT ![app][key] = value]
           ref == [express EXCEPT ![app][key] = value]
       IN  IF key \in Compiled
           THEN /\ own' = [with EXCEPT ![app][Function[key]] = Compile(key, value)]
                /\ express' = [ref EXCEPT ![app][Function[key]] =
                                 IF key = "trust" THEN CompileTrust(value) ELSE CompileEtag(value)]
           ELSE own' = with /\ express' = ref
    /\ default' = [default EXCEPT ![app] = @ /\ key # "trust"]
    /\ Bump
    /\ UNCHANGED <<parent, hot>>

\* app.settings[key] = value: the trap of the proxy, which compiles nothing.
Assign(app, key, value) ==
    /\ Writes
    /\ own' = [own EXCEPT ![app][key] = value]
    /\ express' = [express EXCEPT ![app][key] = value]
    /\ Bump
    /\ UNCHANGED <<default, parent, hot>>

\* delete app.settings[key].
DeleteProperty(app, key) ==
    /\ Writes
    /\ own' = [own EXCEPT ![app][key] = None]
    /\ express' = [express EXCEPT ![app][key] = Absent]
    /\ Bump
    /\ UNCHANGED <<default, parent, hot>>

\* app.use() of an application: its parent, its 'mount' listener, then the epoch.
Inherits(app, to) == default[app] /\ own[to]["trustFn"] # None
WithoutTrust(settings, app, nothing) ==
    [settings EXCEPT ![app]["trust"] = nothing, ![app]["trustFn"] = nothing]
Use(to, app) ==
    /\ Writes
    /\ app # to /\ app \notin Ancestors(to)
    /\ parent' = [parent EXCEPT ![app] = to]
    /\ own' = IF Inherits(app, to) THEN WithoutTrust(own, app, None) ELSE own
    /\ express' = IF default[app] /\ ExpressGet(to, "trustFn") # None
                  THEN WithoutTrust(express, app, Absent) ELSE express
    /\ Bump
    /\ UNCHANGED <<default, hot>>

\* _hot(), on a request an application answers.
Hot(app) ==
    /\ hot' = IF hot[app].epoch = epoch THEN hot
              ELSE [hot EXCEPT ![app] = [epoch |-> epoch, fields |-> Resolve(app)]]
    /\ UNCHANGED <<own, default, parent, epoch, express>>

Next ==
    \E app \in App :
        \/ \E key \in Keys : \E value \in Values(key) : Set(app, key, value) \/ Assign(app, key, value)
        \/ \E key \in Keys : DeleteProperty(app, key)
        \/ \E to \in App : Use(to, app)
        \/ Hot(app)

Spec == Init /\ [][Next]_vars

-----------------------------------------------------------------------------
\* Fields that are taken for good are what a fresh read would give.
HotIsCurrent == \A app \in App : hot[app].epoch = epoch => hot[app].fields = Resolve(app)

\* What a request is answered with is what Express would answer it with.
AsExpressWhateverItIs == \A app \in App : Resolve(app) = ExpressResolve(app)

\* An application that never set "trust proxy", nor had it taken away, trusts whom
\* its parent trusts.
TrustIsInherited ==
    \A app \in App :
        default[app] /\ parent[app] # None => Resolve(app).trustFn = Resolve(parent[app]).trustFn

\* So it is where no mounted application has turned its ETag or its query parser off,
\* "trust proxy fn" follows "trust proxy", and an application that fell back to its
\* parent's trust was mounted where its parent is not a fallen one.
TurnedOff(app) == express[app]["etagFn"] = None \/ express[app]["queryFn"] = None
Agree(settings, to) ==
    IF settings["trust"] = Absent THEN settings["trustFn"] = Absent /\ to # None
    ELSE settings["trustFn"] = CompileTrust(settings["trust"])
Plain ==
    /\ \A app \in App : parent[app] # None => ~TurnedOff(app)
    /\ \A app \in App : Agree(express[app], parent[app])
    /\ \A app \in App : (parent[app] # None /\ express[app]["trustFn"] = Absent) => own[app]["trustFn"] = None
AsExpress == Plain => AsExpressWhateverItIs
=============================================================================

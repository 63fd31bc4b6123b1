------------------------------- MODULE Views --------------------------------
(***************************************************************************)
(* Views: app.render and res.render (application.js, response.js), the      *)
(* lookup of a template under the roots (view.js) and what is kept of it,   *)
(* over an application and one that may be mounted in it, while templates   *)
(* come and go on the disk.                                                 *)
(***************************************************************************)
EXTENDS Naturals, Sequences, SequencesExt

CONSTANTS
    App, Top,       \* the applications, and the one the others are mounted in
    Root, Base, Ext,
    Name,           \* what render() is called with: a base, an extension or
                    \* None, and the directory of an absolute name or None
    Installed,      \* the extensions whose module brings an engine of its own
    Render,         \* calls of render(), numbered as they are made
    MaxChanges,     \* of the disk and of the settings
    Settings,       \* what the applications may start with
    Roots,          \* what its "views" may be set to
    Disks,          \* the templates there may be
    Asked,          \* the "cache" of a call's options, res.locals and app.locals
    None

VARIABLES
    mounted,        \* the engines and settings of the others chain onto Top's
    engines,        \* those of each application's own, by extension
    settings,       \* "views" and "view cache", which each has its own default of, and
                    \* "view engine", None when unset
    cache,          \* app.cache: views by name
    disk,           \* the templates there are
    renders,        \* the calls: where each is, its view, and what it was told
    changes

vars == <<mounted, engines, settings, cache, disk, renders, changes>>

\* What the constants must be.
ViewsAssumption == Top \in App /\ Installed \subseteq Ext /\ MaxChanges \in Nat

\* Where a template may be in a directory: <name>.<ext>, then <name>/index.<ext>.
File == Root \X Base \X {"plain", "index"} \X Ext

NoView == [name |-> None, ext |-> None, path |-> None]
Call == [stage |-> "none", app |-> Top, cached |-> FALSE, from |-> "disk", view |-> NoView,
         threw |-> FALSE, told |-> <<>>]

-----------------------------------------------------------------------------
(* What an application reads through the one it is mounted in              *)

Chained(a) == mounted /\ a # Top
Engines(a) == engines[a] \cup (IF Chained(a) THEN engines[Top] ELSE {})
DefaultEngine(a) ==
    IF settings[a].engine = None /\ Chained(a) THEN settings[Top].engine ELSE settings[a].engine

-----------------------------------------------------------------------------
(* A view                                                                  *)

\* The first of the two that is a file.
Resolve(dir, base, ext) ==
    LET at == SelectInSeq(<<"plain", "index">>, LAMBDA form : <<dir, base, form, ext>> \in disk) IN
    IF at = 0 THEN None ELSE <<dir, base, <<"plain", "index">>[at], ext>>

\* The first root that holds it.
Lookup(roots, base, ext) ==
    LET at == SelectInSeq(roots, LAMBDA root : Resolve(root, base, ext) # None) IN
    IF at = 0 THEN None ELSE Resolve(roots[at], base, ext)

\* The name's extension, or the default engine's.
ExtOf(a, name) == IF name.ext # None THEN name.ext ELSE DefaultEngine(a)

\* The constructor throws without an extension, and where a module brings no engine.
Throws(a, name) ==
    LET ext == ExtOf(a, name) IN ext = None \/ (ext \notin Engines(a) /\ ext \notin Installed)

\* An absolute name is taken as it stands.
NewView(a, name) ==
    LET ext == ExtOf(a, name) IN
    [name |-> name, ext |-> ext,
     path |-> IF name.dir # None THEN <<name.dir, name.base, "plain", ext>>
              ELSE Lookup(settings[a].views, name.base, ext)]

\* An engine that was required is registered with those of the application.
Required(a, ext) == IF ext \in Engines(a) THEN engines ELSE [engines EXCEPT ![a] = @ \cup {ext}]

-----------------------------------------------------------------------------
(* A call                                                                  *)

\* The call's own option, then res.locals', then app.locals', then the setting.
Caching(a, asked) ==
    LET given == SelectInSeq(asked, LAMBDA option : option # None) IN
    IF given = 0 THEN settings[a].cache ELSE asked[given]

\* The engine answers on the spot, which is told a tick later; or later on; or it
\* throws, before it answered or after.
HandedTo(call, view, how) ==
    [call EXCEPT !.view = view,
                 !.stage = CASE how \in {"answers", "answersAndThrows"} -> "tick"
                             [] how = "later" -> "engine"
                             [] OTHER -> "over",
                 !.threw = how \in {"throws", "answersAndThrows"},
                 !.told = IF how \in {"throws", "answersAndThrows"} THEN <<"error">> ELSE <<>>]

\* A bug: a view that was not found is kept as well.
KeptAnyway(a, caching, view) ==
    IF caching THEN [cache EXCEPT ![a] = @ \cup {view}] ELSE cache

\* What is kept under its name.
Kept(a, caching, view) ==
    IF caching /\ view.path # None THEN [cache EXCEPT ![a] = @ \cup {view}] ELSE cache

DoRender(r, a, name, asked, how) ==
    LET caching == Caching(a, asked)
        kept == {view \in cache[a] : caching /\ view.name = name}
        view == IF kept = {} THEN NewView(a, name) ELSE CHOOSE v \in kept : TRUE
        call == [Call EXCEPT !.app = a, !.cached = caching,
                             !.from = IF kept = {} THEN "disk" ELSE "cache"]
        becomes(c) == renders' = [renders EXCEPT ![r] = c]
    IN  /\ renders[r].stage = "none"
        /\ UNCHANGED <<mounted, settings, disk, changes>>
        /\ CASE kept # {} ->
                    becomes(HandedTo(call, view, how)) /\ UNCHANGED <<engines, cache>>
             [] kept = {} /\ Throws(a, name) ->
                    /\ becomes([call EXCEPT !.stage = "thrown", !.view.name = name])
                    /\ UNCHANGED <<engines, cache>>
             [] OTHER ->
                    /\ engines' = Required(a, view.ext)
                    /\ cache' = Kept(a, caching, view)
                    /\ becomes(IF view.path = None
                               THEN [call EXCEPT !.view = view, !.stage = "over",
                                                 !.told = <<"lookup">>]
                               ELSE HandedTo(call, view, how))

\* The engine's answer reaches the callback: res.render's own sends it.
Tell(r) ==
    /\ renders[r].stage \in {"tick", "engine"}
    /\ renders' = [renders EXCEPT ![r].stage = "over", ![r].told = Append(@, "html")]
    /\ UNCHANGED <<mounted, engines, settings, cache, disk, changes>>

-----------------------------------------------------------------------------
(* What changes around them                                                *)

Change == changes < MaxChanges /\ changes' = changes + 1

Mount ==
    /\ ~mounted /\ mounted' = TRUE
    /\ UNCHANGED <<engines, settings, cache, disk, renders, changes>>

Engine(a, ext) ==
    /\ Change
    /\ engines' = [engines EXCEPT ![a] = @ \cup {ext}]
    /\ UNCHANGED <<mounted, settings, cache, disk, renders>>

SetViews(a, roots) ==
    /\ Change
    /\ settings' = [settings EXCEPT ![a].views = roots]
    /\ UNCHANGED <<mounted, engines, cache, disk, renders>>

Touch(file) ==
    /\ Change
    /\ disk' = IF file \in disk THEN disk \ {file} ELSE disk \cup {file}
    /\ UNCHANGED <<mounted, engines, settings, cache, renders>>

-----------------------------------------------------------------------------
Init ==
    /\ mounted = FALSE /\ engines = [a \in App |-> {}] /\ settings \in Settings
    /\ cache = [a \in App |-> {}] /\ disk \in Disks
    /\ renders = [r \in Render |-> Call] /\ changes = 0

Next ==
    \/ \E r \in Render : Tell(r)
    \/ \E r \in Render, a \in App, name \in Name, asked \in Asked,
          how \in {"answers", "later", "throws", "answersAndThrows"} :
            (\A q \in Render : q < r => renders[q].stage # "none")
              /\ DoRender(r, a, name, asked, how)
    \/ Mount
    \/ \E a \in App, ext \in Ext : Engine(a, ext)
    \/ \E a \in App, roots \in Roots : SetViews(a, roots)
    \/ \E file \in UNION Disks : Touch(file)

Spec == Init /\ [][Next]_vars

-----------------------------------------------------------------------------
\* A call found what its name asks for: with no view kept, the first place of the
\* application's own roots that holds it, and none only where none does; with one
\* kept, what an earlier call of that application found under the name. A lookup
\* that failed is kept by nobody, and what a call did not cache is not kept by it.
Places(a, view) ==
    LET roots == settings[a].views IN
    FlattenSeq([i \in DOMAIN roots |->
        <<<<roots[i], view.name.base, "plain", view.ext>>,
          <<roots[i], view.name.base, "index", view.ext>>>>])

FoundFirst(a, view) ==
    LET places == Places(a, view) IN
    IF view.path = None THEN \A i \in DOMAIN places : places[i] \notin disk
    ELSE \E i \in DOMAIN places :
            /\ places[i] = view.path /\ view.path \in disk
            /\ \A j \in 1 .. i - 1 : places[j] \notin disk

FoundAsAsked ==
    \A r \in Render, a \in App :
        LET call == renders'[r] view == call.view IN
        renders[r].stage = "none" /\ call.stage \notin {"none", "thrown"} /\ call.app = a =>
            /\ view.ext \in Engines(a)'
            /\ call.from = "disk" /\ view.name.dir = None => FoundFirst(a, view)
            /\ call.from = "cache" =>
                  /\ call.cached
                  /\ \E q \in Render \ {r} :
                        /\ renders[q].app = a /\ renders[q].view = view
                        /\ renders[q].cached /\ "lookup" \notin Range(renders[q].told)
            /\ ~call.cached => cache' = cache

ViewIsAsked == [][FoundAsAsked]_vars

\* A callback is told once, unless its engine throws after it answered.
RenderToldOnce ==
    \A r \in Render : Len(renders[r].told) > 1 => renders[r].threw
=============================================================================

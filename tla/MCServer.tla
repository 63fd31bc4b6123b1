------------------------------ MODULE MCServer ------------------------------
(***************************************************************************)
(* What stands around the requests of a process, one part in a behaviour:   *)
(* the workers of a cluster, the settings and the views of mounted           *)
(* applications, and what lies between a response and its wire:             *)
(* compression, the node shim, a websocket's upgrade.                       *)
(***************************************************************************)
EXTENDS Cluster, Upgrade

CONSTANT Absent

VARIABLES part,
    own, default, parent, epoch, hot, express,
    format, node, use, broken, encoding, context, inner, answers,
    answer, layer, res, program, writes,
    script, status, at, shimPhase, headers, length, headersSent, offset,
    nodeEnded, nodeFull, flushed, onWritable, listening, shimAborted, told,
    mounted, engines, viewSettings, kept, disk, renders, changes

MCAnswers ==
    LET plain == [layers |-> <<"gzip">>, filter |-> TRUE, noTransform |-> FALSE,
                  coded |-> FALSE, range |-> FALSE, length |-> "unset"] IN
    {[plain EXCEPT !.layers = l, !.length = n] :
        l \in {<<"gzip">>, <<"identity">>, <<"gzip", "gzip">>}, n \in {"unset", "small", "large"}}
      \cup {[plain EXCEPT !.filter = FALSE], [plain EXCEPT !.noTransform = TRUE],
            [plain EXCEPT !.coded = TRUE], [plain EXCEPT !.range = TRUE]}

C == INSTANCE Compression WITH
    Answers <- MCAnswers, Threshold <- 2, SyncLimit <- 2, Sizes <- {1, 2, 3},
    Bodies <- {"one", "two"}, MaxAnswers <- 3, busy <- encoding

MCScripts ==
    LET s == [way |-> "end", chunks |-> <<2>>, total |-> 2, h2 |-> FALSE,
              length |-> "unset"] IN
    {[s EXCEPT !.h2 = h, !.way = w, !.length = l] : h \in BOOLEAN,
        w \in {"end", "nobody", "write"}, l \in {"unset", "set"}}
      \cup {[s EXCEPT !.chunks = <<>>, !.total = 0, !.h2 = h] : h \in BOOLEAN}
      \cup {[s EXCEPT !.way = w, !.chunks = <<1, 2, 1>>, !.total = 4, !.h2 = h] :
              w \in {"tryEnd", "write"}, h \in BOOLEAN}

S == INSTANCE ShimResponse WITH
    Scripts <- MCScripts, Status <- {200, 204}, phase <- shimPhase,
    aborted <- shimAborted

Chain == {"top", "mid", "deep"}     \* three applications, each mounted in the one before
Kept == INSTANCE Settings WITH App <- Chain, MaxWrites <- 3

\* Two applications, the outer or the inner one caching; two roots.
Views(engine, caching) == [views |-> <<"one", "two">>, engine |-> engine, cache |-> caching]
Template(root, form) == <<root, "page", form, "ejs">>
Shown == INSTANCE Views WITH
    App <- {"top", "mid"}, Top <- "top", Root <- {"one", "two"}, Base <- {"page"},
    Ext <- {"ejs", "hbs"}, Installed <- {"ejs"}, Render <- 1 .. 2, MaxChanges <- 1,
    Name <- {[base |-> "page", ext |-> e, dir |-> None] : e \in {None, "ejs"}}
              \cup {[base |-> "page", ext |-> None, dir |-> "one"]},
    Settings <- {[top |-> Views("ejs", TRUE), mid |-> Views(None, FALSE)],
                 [top |-> Views(None, FALSE), mid |-> Views("hbs", TRUE)]},
    Roots <- {<<"two", "one">>}, Asked <- {<<None>>, <<None, TRUE, FALSE>>},
    Disks <- {{Template("two", "plain")}, {Template("one", "index"), Template("two", "plain")}},
    settings <- viewSettings, cache <- kept

ASSUME ServerAssumption ==
    Kept!SettingsAssumption /\ Shown!ViewsAssumption

\* One setting of each sort, written wherever an inheritance can turn on it.
SettingsNext ==
    \/ \E app \in {"mid", "deep"} : Kept!Hot(app)
    \/ \E app \in Chain :
         \/ \E value \in {"off", "strong"} : Kept!Set(app, "etag", value)
         \/ app = "mid" /\ Kept!Set(app, "query", "off")
         \/ \E value \in {"all", "off"} : Kept!Set(app, "trust", value)
         \/ Kept!Set(app, "spaces", "two")
         \/ Kept!Assign(app, "spaces", "four")
         \/ app = "top" /\ Kept!Assign(app, "etagFn", "mine")
         \/ Kept!DeleteProperty(app, "spaces")
    \/ Kept!Use("top", "mid") \/ Kept!Use("mid", "deep") \/ Kept!Use("top", "deep")

settingsVars == <<own, default, parent, epoch, hot, express>>

compressionVars == <<answer, layer, res, program, writes>>
shimVars == <<script, status, at, shimPhase, headers, length, headersSent,
              offset, nodeEnded, nodeFull, flushed, onWritable, listening,
              shimAborted, told>>
encoderVars == <<format, node, use, broken, encoding, context, inner, answers>>
wireVars == <<encoderVars, compressionVars, shimVars, upgradeVars>>
viewVars == <<mounted, engines, viewSettings, kept, disk, renders, changes>>
serverVars == <<part, vars, settingsVars, wireVars, viewVars>>

\* A part that is not explored is over: none of its actions is enabled.
CompressionOff ==
    /\ answer = [layers |-> <<>>] /\ layer = <<>>
    /\ res = [finished |-> FALSE, aborted |-> FALSE, threw |-> FALSE, said |-> [coding |-> {}]]
    /\ program = "off" /\ writes = 0
ShimOff ==
    /\ script = [way |-> "off"] /\ status = 0 /\ at = 0 /\ shimPhase = "off"
    /\ headers = {} /\ length = 0 /\ headersSent = FALSE /\ offset = 0
    /\ nodeEnded = FALSE /\ nodeFull = FALSE /\ flushed = FALSE
    /\ onWritable = FALSE /\ listening = FALSE /\ shimAborted = TRUE
    /\ told = FALSE
UpgradeOff ==
    /\ hook = "off" /\ params = "off" /\ phase = "off" /\ response = [finished |-> FALSE]
    /\ aborted = FALSE /\ detached = FALSE /\ open = FALSE /\ ending = "none"
    /\ stray = {}
EncoderOff ==
    /\ format = "off" /\ node = "off" /\ use = "off" /\ broken = FALSE
    /\ encoding = FALSE /\ context = "none" /\ inner = "off" /\ answers = <<>>
ViewsOff ==
    /\ mounted = FALSE /\ engines = 0 /\ viewSettings = 0 /\ kept = 0 /\ disk = 0
    /\ renders = 0 /\ changes = 0

ServerInit ==
    /\ part \in {"cluster", "settings", "compression", "encoder", "shim", "upgrade", "views"}
    /\ Init /\ Kept!Init
    /\ IF part = "compression" THEN C!Init ELSE CompressionOff
    /\ IF part = "encoder" THEN C!EncoderInit ELSE EncoderOff
    /\ IF part = "shim" THEN S!Init ELSE ShimOff
    /\ IF part = "upgrade" THEN UpgradeInit ELSE UpgradeOff
    /\ IF part = "views" THEN Shown!Init ELSE ViewsOff

ServerNext ==
    \/ part = "cluster" /\ Next /\ UNCHANGED <<part, settingsVars, wireVars, viewVars>>
    \/ part = "settings" /\ SettingsNext /\ UNCHANGED <<part, vars, wireVars, viewVars>>
    \/ part = "compression" /\ C!Next
       /\ UNCHANGED <<part, vars, settingsVars, encoderVars, shimVars, upgradeVars,
                      viewVars>>
    \/ part = "encoder" /\ C!EncoderNext
       /\ UNCHANGED <<part, vars, settingsVars, compressionVars, shimVars, upgradeVars,
                      viewVars>>
    \/ part = "shim" /\ S!Next
       /\ UNCHANGED <<part, vars, settingsVars, compressionVars, encoderVars, upgradeVars,
                      viewVars>>
    \/ part = "upgrade" /\ UpgradeNext
       /\ UNCHANGED <<part, vars, settingsVars, compressionVars, encoderVars, shimVars,
                      viewVars>>
    \/ part = "views" /\ Shown!Next /\ UNCHANGED <<part, vars, settingsVars, wireVars>>

ServerSpec ==
    /\ ServerInit /\ [][ServerNext]_serverVars
    /\ C!Fairness /\ S!Fairness /\ UpgradeFairness
    /\ part = "cluster" => Fairness

\* What a mounted application answers by is what Express would answer by, read
\* from fields that are not older than the last write anywhere (hot-settings.js).
SettingsAsExpress ==
    part = "settings" => Kept!TypeOK /\ Kept!AsExpress /\ Kept!HotIsCurrent

\* An application that never set "trust proxy" trusts whom its parent trusts
\* (src/application.js:274: "a "trust proxy" never set here is inherited").
TrustIsInherited == part = "settings" => Kept!TrustIsInherited

\* What the head says of a body is so: its coding, by an encoder kept from body to
\* body as by a new one (compression.js), its length and its connection headers
\* over the protocol they are sent on (node-shim.js).
HeadIsTrue ==
    /\ C!CodingIsTold /\ C!SameBytes
    /\ part = "shim" => S!LengthIsTrue /\ S!Http2Head

\* A view is the one its name asks for, in the roots of the application that renders
\* it, kept only where it is cached, and told once (view.js, application.js render).
ViewIsAsked ==
    /\ [][part = "views" => Shown!FoundAsAsked]_serverVars
    /\ [](part = "views" => Shown!RenderToldOnce)

\* What is under way comes to its end: a compressor that waits for room, node's own
\* response and a half-open handshake carry the answer there or the client has
\* left, and a primary that was signalled exits.
CarriedToItsEnd ==
    /\ C!CodedAnswerEnds /\ S!ShimAnswers /\ HandshakeEnds
    /\ SignalEnds
=============================================================================

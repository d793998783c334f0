----------------------------- MODULE LayerConfig ----------------------------
(***************************************************************************)
(* What a configuration makes of the layers of one endpoint with a backend *)
(* of its own: the options of the service, completed with the defaults,    *)
(* the overrides that endpoint and backend may carry, and the factories    *)
(* that read them, in the order lura calls them.                           *)
(***************************************************************************)
CONSTANTS Parts,      \* the options of a part to consider
          Endpoints,  \* paths; Health is skipped by default
          Health

\* BackendMetricOpts and BackendTraceOpts; stage stands for ~DisableStage.
Part == [stage : BOOLEAN, roundTrip : BOOLEAN, payload : BOOLEAN, details : BOOLEAN]

ASSUME PartsAssumption == Parts \subseteq Part /\ Health \in Endpoints

\* A pointer of the configuration: no element for nil.
Optional(S) == {{}} \cup {{x} : x \in S}

Kinds == {"metrics", "traces"}
PipeOpts    == [Kinds -> BOOLEAN]           \* which are not disabled
BackendOpts == [Kinds -> Optional(Parts)]
Options     == [pipe : Optional(PipeOpts), backend : Optional(BackendOpts)]

VARIABLES
    given,      \* the options of the service as configured
    paths,      \* the paths to skip as configured
    override,   \* those of the endpoint and of its backend
    endpoint,   \* its path
    layers,     \* the options of the service in force
    skip,       \* the paths to skip in force
    pc,         \* what is built next
    got         \* what will be reported, of which kind

vars == <<given, paths, override, endpoint, layers, skip, pc, got>>

Init ==
    /\ given \in Options /\ override \in Options
    /\ paths \in SUBSET Endpoints /\ endpoint \in Endpoints
    /\ layers = given /\ skip = paths
    /\ pc = "config" /\ got = {}

-----------------------------------------------------------------------------
(* Registration: what is missing gets its default.                         *)

Or(o, default) == IF o = {} THEN {default} ELSE o

Whole == [stage |-> TRUE, roundTrip |-> TRUE, payload |-> TRUE, details |-> TRUE]

\* The options of a backend with both parts.
Completed(o) == [k \in Kinds |-> Or(o[k], Whole)]

DefaultsIfNone ==    \* a broken variant: options that lack a part are left so
    /\ pc = "config"
    /\ layers' = [pipe    |-> Or(layers.pipe, [k \in Kinds |-> TRUE]),
                  backend |-> Or(layers.backend, [k \in Kinds |-> {Whole}])]
    /\ skip' = IF skip = {} THEN {Health} ELSE skip
    /\ pc' = "client"
    /\ UNCHANGED <<given, paths, override, endpoint, got>>

WithDefaults(l) == [pipe    |-> Or(l.pipe, [k \in Kinds |-> TRUE]),
                    backend |-> {Completed(o) : o \in Or(l.backend, [k \in Kinds |-> {}])}]

\* UnsetFieldsToDefaults, of FromLura and again of NewConfig, which finds nothing missing.
Defaults ==
    /\ pc = "config"
    /\ layers' = WithDefaults(layers)
    /\ skip' = IF skip = {} THEN {Health} ELSE skip
    /\ pc' = "client"
    /\ UNCHANGED <<given, paths, override, endpoint, got>>

-----------------------------------------------------------------------------
(* The factories.  An override replaces the options of the service.        *)

BackendInForce == IF override.backend # {} THEN override.backend ELSE layers.backend
PipeInForce    == IF override.pipe # {} THEN override.pipe ELSE layers.pipe
Skipped        == endpoint \in skip

\* Enabled of a part and of a backend's options: what is missing is not enabled.
Enabled(part) == \E p \in part : p.stage \/ p.roundTrip \/ p.payload \/ p.details
AllEnabled(o) == \A k \in Kinds : Enabled(o[k])    \* a broken variant
AnyEnabled(o) == \E k \in Kinds : Enabled(o[k])

\* What a transport with these options reports.
ClientReports  == {"roundtrip", "payload", "details"}
Transported(p) == {x \in ClientReports :
                      /\ x = "roundtrip" => p.roundTrip \/ p.payload
                      /\ x = "payload" => p.payload
                      /\ x = "details" => p.details /\ (p.roundTrip \/ p.payload)}

\* InstrumentedHTTPClientFactory puts its own defaults into the options it was given:
\* those of the service, which have both parts, or a copy of the override.
ClientFactory ==
    /\ pc = "client"
    /\ \E o \in BackendInForce :
          IF Skipped \/ ~AnyEnabled(o) THEN UNCHANGED <<got, layers>>
          ELSE /\ got' = got \cup {r \in ClientReports \X Kinds :
                                      \A p \in Completed(o)[r[2]] : r[1] \in Transported(p)}
               /\ layers' = IF override.backend = {}
                            THEN [layers EXCEPT !.backend = {Completed(o)}] ELSE layers
    /\ pc' = "stage"
    /\ UNCHANGED <<given, paths, override, endpoint, skip>>

\* Only a part that says so disables the stage.
StageOn(part) == \A p \in part : p.stage

\* BackendFactory, around the client; it needs Traces for its headers.
BackendFactory ==
    /\ pc = "stage"
    /\ \E o \in BackendInForce :
          LET on == {k \in Kinds : StageOn(o[k])} IN
          CASE Skipped \/ on = {} -> pc' = "pipe" /\ UNCHANGED got
            [] ~Skipped /\ on # {} /\ o["traces"] = {} -> pc' = "panic" /\ UNCHANGED got
            [] ~Skipped /\ on # {} /\ o["traces"] # {} ->
                   pc' = "pipe" /\ got' = got \cup {"backend"} \X on
    /\ UNCHANGED <<given, paths, override, endpoint, layers, skip>>

ProxyFactory ==
    /\ pc = "pipe"
    /\ \E o \in PipeInForce :
          got' = IF Skipped THEN got ELSE got \cup {"proxy"} \X {k \in Kinds : o[k]}
    /\ pc' = "built"
    /\ UNCHANGED <<given, paths, override, endpoint, layers, skip>>

Next == Defaults \/ ClientFactory \/ BackendFactory \/ ProxyFactory

Spec == Init /\ [][Next]_vars

-----------------------------------------------------------------------------
BackendReports == {"backend"} \cup ClientReports

\* Where the options, of the service or of an override, have a part, that part alone
\* tells what is reported of its kind, whatever the other part is or lacks: it disables
\* the stage, or else the stage reports and the client what the other fields ask for
\* (reading the payload implies the round trip, the details need one).  Nothing is
\* reported of a skipped path.
PresentPartsObeyed ==
    /\ Skipped => got = {} /\ pc # "panic"
    /\ pc = "built" /\ ~Skipped =>
          /\ \A o \in PipeInForce, k \in Kinds : o[k] <=> <<"proxy", k>> \in got
          /\ \A o \in BackendInForce, k \in Kinds : \A p \in o[k] :
                /\ p.stage <=> <<"backend", k>> \in got
                /\ p.stage => \A x \in ClientReports :
                                 x \in Transported(p) <=> <<x, k>> \in got

\* DisableStage of a part is to leave nothing of the "full backend part", "so other fields
\* will have no effect" (config.go).  The code refutes it: only the stage's factory looks
\* at DisableStage, and the client's goes by the other fields.
DisabledStageIsSilent ==
    pc = "built" => \A o \in BackendInForce, k \in Kinds : \A p \in o[k] :
                       ~p.stage => \A x \in BackendReports : <<x, k>> \notin got

\* What the service leaves out is on in every layer that no override changes, and the
\* gateway starts.  What an override leaves out is on in the stage, and in the client
\* unless the other part is all off; without traces it does not get that far.
MissingIsOn ==
    /\ pc = "panic" => override.backend # {}
    /\ pc = "built" /\ ~Skipped =>
          /\ given.pipe = {} /\ override.pipe = {} => {"proxy"} \X Kinds \subseteq got
          /\ override.backend = {} => \A k \in Kinds :
                (\A o \in given.backend : o[k] = {}) => BackendReports \X {k} \subseteq got
          /\ \A o \in override.backend, k \in Kinds : o[k] = {} =>
                /\ k # "traces" /\ <<"backend", k>> \in got
                /\ Enabled(o["traces"]) => BackendReports \X {k} \subseteq got

\* The defaults that the client's factory puts into the options it was given, which may be
\* those all endpoints share, change nothing any more: from the registration on the
\* options of the service stay as they are (backend.go, "this might not be necessary").
ServiceOptionsKept == [][pc # "config" => UNCHANGED layers]_vars
=============================================================================

---------------------------- MODULE Registration ----------------------------
(***************************************************************************)
(* The life of the global telemetry: gateways register one after the other *)
(* in one process (a reload) or at the same time, each with its exporters, *)
(* its state and its configuration; layers are built from what is in force *)
(* by then, and record; gateways shut their state down.  The SDK and the   *)
(* collectors are external: what a collector refuses is left out.          *)
(***************************************************************************)
EXTENDS Naturals, Sequences

CONSTANTS N,        \* the gateways that register, in their order
          Layers,   \* what is built from the globals: a factory, a handler
          Names,    \* of exporters
          Configs   \* the configurations to consider

\* The exporters of a configuration in the order they are created, the OTLP ones
\* first.  metrics and traces: not disabled.
Exporter == [name : Names, otlp : BOOLEAN, metrics : BOOLEAN, traces : BOOLEAN]

\* A configuration may be missing or malformed; parsed has got its defaults, raw was
\* given to RegisterWithConfig without period or sample rate.
ConfigType == [how : {"missing", "malformed", "parsed", "raw"}, exporters : Seq(Exporter)]

ASSUME GatewaysAssumption == N \in Nat
ASSUME ConfigsAssumption  == Configs \subseteq ConfigType

Gateways == 1..N
Signals  == {"traces", "metrics"}

VARIABLES
    overlap,    \* registrations may run at the same time
    cfg,        \* the configuration of each gateway
    ctx,        \* its context, "live" or "ended"
    pc,         \* where its registration, then its shutdown, is
    made,       \* how many of its exporters have been created
    server,     \* the server of each of its exporters, Prometheus' only, and
                \* whether the goroutine that is to stop it still waits
    instances,  \* whose exporters are in force, 0 for none
    state,      \* whose state is
    config,     \* whose configuration is
    layer,      \* whose configuration and state each layer has got
    open,       \* the SDK providers of each state that are not shut down
    pending,    \* the signals a gateway's state has not exported
    lost        \* those it never will

registration == <<cfg, pc, made, instances, state, config>>
telemetry    == <<open, pending, lost>>
vars == <<overlap, registration, ctx, server, layer, telemetry>>

Exporters(g) == cfg[g].exporters
NoServer == [up |-> "no", watched |-> FALSE]

\* Instances puts the exporters in maps by name: the last of a name stays.  The
\* second map is for traces and has no Prometheus exporters.
Reading(c)  == {i \in DOMAIN c.exporters :
                   /\ c.exporters[i].metrics
                   /\ \A j \in DOMAIN c.exporters :
                         c.exporters[j].name = c.exporters[i].name => j <= i}
Spanning(c) == {i \in DOMAIN c.exporters :
                   /\ c.exporters[i].otlp /\ c.exporters[i].traces
                   /\ \A j \in DOMAIN c.exporters :
                         c.exporters[j].otlp /\ c.exporters[j].name = c.exporters[i].name
                         => j <= i}

\* NewWithVersionAndEnv makes an SDK provider where there is something to report to.
Providers(c) == {s \in Signals : IF s = "traces" THEN Spanning(c) # {} ELSE Reading(c) # {}}

\* The signals that have to be sent: Prometheus fetches its metrics.
Pushed(c) == {s \in Providers(c) : s = "metrics" =>
                                      \E i \in Reading(c) : c.exporters[i].otlp}

Registering == {"create", "state", "config"}
Built       == {"config", "registered", "meter", "stopped"}

TypeOK ==
    /\ overlap \in BOOLEAN
    /\ cfg \in [Gateways -> Configs]
    /\ ctx \in [Gateways -> {"live", "ended"}]
    /\ pc \in [Gateways -> {"new", "none", "failed", "panicked"} \cup Registering \cup Built]
    /\ made \in [Gateways -> Nat]
    /\ \A g \in Gateways : made[g] <= Len(Exporters(g))
    /\ DOMAIN server = Gateways
    /\ \A g \in Gateways : server[g] \in
          [DOMAIN Exporters(g) -> [up : {"no", "starting", "listening", "down"},
                                   watched : BOOLEAN]]
    /\ instances \in 0..N /\ state \in 0..N /\ config \in 0..N
    /\ layer \in [Layers -> [at : {"new", "config", "built"}, config : 0..N, state : 0..N]]
    /\ open \in [Gateways -> SUBSET Signals]
    /\ pending \in [Gateways -> SUBSET Signals]
    /\ lost \in [Gateways -> SUBSET Signals]
    /\ \A g \in Gateways : pending[g] \cup lost[g] \subseteq Pushed(cfg[g])

Init ==
    /\ overlap \in BOOLEAN
    /\ cfg \in [Gateways -> Configs]
    /\ ctx = [g \in Gateways |-> "live"]
    /\ pc = [g \in Gateways |-> "new"]
    /\ made = [g \in Gateways |-> 0]
    /\ server = [g \in Gateways |-> [i \in DOMAIN Exporters(g) |-> NoServer]]
    /\ instances = 0 /\ state = 0 /\ config = 0
    /\ layer = [l \in Layers |-> [at |-> "new", config |-> 0, state |-> 0]]
    /\ open = [g \in Gateways |-> {}]
    /\ pending = [g \in Gateways |-> {}]
    /\ lost = [g \in Gateways |-> {}]

Goto(g, to) == pc' = [pc EXCEPT ![g] = to]

CtxEnd(g) ==
    /\ ctx[g] = "live"
    /\ ctx' = [ctx EXCEPT ![g] = "ended"]
    /\ UNCHANGED <<overlap, registration, server, layer, telemetry>>

-----------------------------------------------------------------------------
(* Register.                                                               *)

ValidByKind(c) ==    \* a broken variant: the names of each kind alone
    \A i, j \in DOMAIN c.exporters :
        c.exporters[i].name = c.exporters[j].name /\ c.exporters[i].otlp = c.exporters[j].otlp
        => i = j

\* Exporters.Validate.
Valid(c) == \A i, j \in DOMAIN c.exporters :
                c.exporters[i].name = c.exporters[j].name => i = j

Begin(g) ==
    /\ pc[g] = "new"
    /\ g > 1 => pc[g - 1] # "new"
    /\ overlap \/ \A h \in Gateways : pc[h] \notin Registering
    /\ Goto(g, CASE cfg[g].how = "missing" -> "none"
                 [] cfg[g].how = "malformed" -> "failed"
                 [] OTHER -> IF Valid(cfg[g]) THEN "create" ELSE "failed")
    /\ UNCHANGED <<overlap, cfg, made, instances, state, config, ctx, server, layer, telemetry>>

\* The next exporter to create, if one is left.
Upcoming(g) == made[g] + 1
Left(g)  == pc[g] = "create" /\ made[g] < Len(Exporters(g))

CreateInForce(g) ==    \* a broken variant: the instances are in force as they are made
    /\ Left(g) /\ Exporters(g)[Upcoming(g)].otlp
    /\ \/ Goto(g, "failed") /\ UNCHANGED <<made, instances>>
       \/ made' = [made EXCEPT ![g] = @ + 1] /\ instances' = g /\ UNCHANGED pc
    /\ UNCHANGED <<overlap, cfg, state, config, ctx, server, layer, telemetry>>

\* An exporter of traces, then one of metrics.  If either fails, what was made
\* before is left behind.
CreateOTLP(g) ==
    /\ Left(g) /\ Exporters(g)[Upcoming(g)].otlp
    /\ \/ Goto(g, "failed") /\ UNCHANGED made
       \/ made' = [made EXCEPT ![g] = @ + 1] /\ UNCHANGED pc
    /\ UNCHANGED <<overlap, cfg, instances, state, config, ctx, server, layer, telemetry>>

\* A goroutine is to listen, and another waits for the context to end.
CreatePrometheus(g) ==
    /\ Left(g) /\ ~Exporters(g)[Upcoming(g)].otlp
    /\ \/ Goto(g, "failed") /\ UNCHANGED <<made, server>>
       \/ /\ made' = [made EXCEPT ![g] = @ + 1]
          /\ server' = [server EXCEPT ![g][Upcoming(g)] = [up |-> "starting", watched |-> TRUE]]
          /\ UNCHANGED pc
    /\ UNCHANGED <<overlap, cfg, instances, state, config, ctx, layer, telemetry>>

\* SetGlobalExporterInstances; then the period and the rate are dereferenced.
Publish(g) ==
    /\ pc[g] = "create" /\ made[g] = Len(Exporters(g))
    /\ instances' = g
    /\ Goto(g, IF cfg[g].how = "raw" THEN "panicked" ELSE "state")
    /\ UNCHANGED <<overlap, cfg, made, state, config, ctx, server, layer, telemetry>>

\* NewWithVersionAndEnv and SetGlobalState.
SetState(g) ==
    /\ state' = g
    /\ open' = [open EXCEPT ![g] = Providers(cfg[g])]
    /\ UNCHANGED <<overlap, cfg, made, instances, config, ctx, server, layer, pending, lost>>

SetConfig(g) ==
    /\ config' = g
    /\ UNCHANGED <<overlap, cfg, made, instances, state, ctx, server, layer, telemetry>>

InstallConfigFirst(g) ==    \* a broken variant
    \/ pc[g] = "state"  /\ SetConfig(g) /\ Goto(g, "config")
    \/ pc[g] = "config" /\ SetState(g)  /\ Goto(g, "registered")

Install(g) ==
    \/ pc[g] = "state"  /\ SetState(g)  /\ Goto(g, "config")
    \/ pc[g] = "config" /\ SetConfig(g) /\ Goto(g, "registered")

Register(g) == Begin(g) \/ CreateOTLP(g) \/ CreatePrometheus(g) \/ Publish(g) \/ Install(g)

-----------------------------------------------------------------------------
(* The goroutines of a Prometheus exporter.                                *)

\* ListenAndServe, which is not tried again.
Listen(g, i) ==
    /\ server[g][i].up = "starting"
    /\ \E up \in {"listening", "down"} : server' = [server EXCEPT ![g][i].up = up]
    /\ UNCHANGED <<overlap, registration, ctx, layer, telemetry>>

StopIfListening(g, i) ==    \* a broken variant: no effect on what does not listen yet
    /\ server[g][i].watched /\ ctx[g] = "ended"
    /\ server' = [server EXCEPT ![g][i] =
           [up |-> IF @.up = "listening" THEN "down" ELSE @.up, watched |-> FALSE]]
    /\ UNCHANGED <<overlap, registration, ctx, layer, telemetry>>

\* Shutdown keeps a server from starting too.
Stop(g, i) ==
    /\ server[g][i].watched /\ ctx[g] = "ended"
    /\ server' = [server EXCEPT ![g][i] = [up |-> "down", watched |-> FALSE]]
    /\ UNCHANGED <<overlap, registration, ctx, layer, telemetry>>

Serve(g) == \E i \in DOMAIN Exporters(g) : Listen(g, i) \/ Stop(g, i)

-----------------------------------------------------------------------------
(* Layers: they look for the configuration, keep it, and get the state     *)
(* later, when they are built.                                             *)

BuildStateFirst(l) ==    \* a broken variant: the state kept, the configuration asked later
    /\ \/ /\ layer[l].at = "new"
          /\ layer' = [layer EXCEPT ![l].state = state, ![l].at = "config"]
       \/ /\ layer[l].at = "config"
          /\ layer' = [layer EXCEPT ![l].config = config, ![l].at = "built"]
    /\ UNCHANGED <<overlap, registration, ctx, server, telemetry>>

\* Without a configuration a layer is built bare.
Build(l) ==
    /\ \/ /\ layer[l].at = "new"
          /\ layer' = [layer EXCEPT ![l].config = config,
                                    ![l].at = IF config = 0 THEN "built" ELSE "config"]
       \/ /\ layer[l].at = "config"
          /\ layer' = [layer EXCEPT ![l].state = state, ![l].at = "built"]
    /\ UNCHANGED <<overlap, registration, ctx, server, telemetry>>

\* A request goes through the layer; a provider that is shut down ignores it.
RecordAlways(l) ==    \* a broken variant: no matter which providers there are
    LET g == layer[l].state IN
    /\ layer[l].at = "built" /\ g # 0
    /\ pending' = [pending EXCEPT ![g] = Signals]
    /\ UNCHANGED <<overlap, registration, ctx, server, layer, open, lost>>

Record(l) ==
    LET g == layer[l].state IN
    /\ layer[l].at = "built" /\ g # 0
    /\ pending' = [pending EXCEPT ![g] = @ \cup (open[g] \cap Pushed(cfg[g]))]
    /\ UNCHANGED <<overlap, registration, ctx, server, layer, open, lost>>

-----------------------------------------------------------------------------
(* The SDK, and the closure Register has returned.                         *)

Export(g) ==
    /\ \E s \in open[g] \cap pending[g] : pending' = [pending EXCEPT ![g] = @ \ {s}]
    /\ UNCHANGED <<overlap, registration, ctx, server, layer, open, lost>>

\* The shutdown of a provider flushes what is pending while the context lasts.  Of
\* one that has ended, the traces may still be sent, if the process goes on.
Flush(g, s, context) ==
    /\ open' = [open EXCEPT ![g] = @ \ {s}]
    /\ pending' = IF s \in open[g] THEN [pending EXCEPT ![g] = @ \ {s}] ELSE pending
    /\ \E left \in SUBSET ({s} \cap open[g] \cap pending[g]) :
          /\ context = "live" => left = {}
          /\ context = "ended" /\ s = "metrics" => left = {s} \cap open[g] \cap pending[g]
          /\ lost' = [lost EXCEPT ![g] = @ \cup left]

\* Broken variants: the state in force is shut down; one provider hides the other.
ShutdownInForce(g) ==
    /\ \/ pc[g] = "registered" /\ Flush(state, "traces", ctx[g]) /\ Goto(g, "meter")
       \/ pc[g] = "meter" /\ Flush(state, "metrics", ctx[g]) /\ Goto(g, "stopped")
    /\ UNCHANGED <<overlap, cfg, made, instances, state, config, ctx, server, layer>>
ShutdownEither(g) ==
    /\ \/ /\ pc[g] = "registered" /\ Flush(g, "traces", ctx[g])
          /\ Goto(g, IF "traces" \in open[g] THEN "stopped" ELSE "meter")
       \/ pc[g] = "meter" /\ Flush(g, "metrics", ctx[g]) /\ Goto(g, "stopped")
    /\ UNCHANGED <<overlap, cfg, made, instances, state, config, ctx, server, layer>>

\* OTELState.Shutdown of its own state, under the context Register was given.
Shutdown(g) ==
    /\ \/ pc[g] = "registered" /\ Flush(g, "traces", ctx[g]) /\ Goto(g, "meter")
       \/ pc[g] = "meter" /\ Flush(g, "metrics", ctx[g]) /\ Goto(g, "stopped")
    /\ UNCHANGED <<overlap, cfg, made, instances, state, config, ctx, server, layer>>

-----------------------------------------------------------------------------
Panicked == \E g \in Gateways : pc[g] = "panicked"

Next ==
    /\ ~Panicked
    /\ \/ \E g \in Gateways : Register(g) \/ CtxEnd(g) \/ Serve(g) \/ Export(g) \/ Shutdown(g)
       \/ \E l \in Layers : Build(l) \/ Record(l)

Spec == Init /\ [][Next]_vars

\* Only the goroutine that waits for the context is sure to run.
Stopping(g) == ~Panicked /\ \E i \in DOMAIN Exporters(g) : Stop(g, i)
FairSpec == Spec /\ \A g \in Gateways : WF_vars(Stopping(g))

-----------------------------------------------------------------------------
\* A layer that has found a configuration finds a state to go with it, at whatever
\* moment of a registration it looks: it calls the state's methods without a test.
LayersHaveState ==
    \A l \in Layers : layer[l].at = "built" /\ layer[l].config # 0 => layer[l].state # 0

\* When registrations take turns, no layer reports to a state that is older than the
\* configuration it follows, though it gets the two at different moments.
StateNotOlder ==
    ~overlap => \A l \in Layers : layer[l].at = "built" => layer[l].config <= layer[l].state

\* What the layers see of all this, the configuration in force hidden.
Abstract == INSTANCE Handover WITH
    Owners <- Gateways, turns <- ~overlap, current <- state, view <- layer

\* However registrations fail, overlap or panic, a layer is handed a configuration only
\* with a state in force, and in turns one that is not newer than that state (register.go
\* installs the state first).
HandsOver == Abstract!Spec

\* When registrations take turns and none is under way, exporters, state and
\* configuration are of one registration: one that failed has replaced none of them.
InForceTogether ==
    ~overlap /\ ~Panicked /\ (\A g \in Gateways : pc[g] \notin Registering)
        => instances = state /\ state = config

\* The names tell the exporters apart: each that is to report does, in a state that was built.
EveryExporterReports ==
    \A g \in Gateways : pc[g] \in Built => \A i \in DOMAIN Exporters(g) :
        /\ Exporters(g)[i].metrics => i \in Reading(cfg[g])
        /\ Exporters(g)[i].otlp /\ Exporters(g)[i].traces => i \in Spanning(cfg[g])

\* The state of a gateway, in force or replaced, reports until that gateway shuts it down.
OnlyOwnShutdown ==
    \A g \in Gateways : pc[g] \in {"config", "registered"} => open[g] = Providers(cfg[g])

\* A shutdown that ends before its context does has sent all that was recorded.
FlushedInTime ==
    \A g \in Gateways : pc[g] = "stopped" /\ ctx[g] = "live" => pending[g] \cup lost[g] = {}

\* No server outlives the context of its gateway for ever, even one of a registration
\* that failed, and whether it listened, was about to, or did not exist when that ended.
ServersStop ==
    \A g \in Gateways : <>[](ctx[g] = "ended" /\ ~Panicked =>
        \A i \in DOMAIN Exporters(g) : server[g][i].up \in {"no", "down"})
=============================================================================

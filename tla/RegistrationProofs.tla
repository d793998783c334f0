------------------------- MODULE RegistrationProofs -------------------------
(***************************************************************************)
(* What holds of the global telemetry for any number of gateways, layers,  *)
(* exporters and configurations.                                           *)
(***************************************************************************)
EXTENDS Registration, TLAPS

\* Gateways begin in their order, and without overlap the one that registers is the
\* last that has begun.
Turns ==
    /\ \A g, h \in Gateways : h < g /\ pc[g] # "new" => pc[h] # "new"
    /\ ~overlap => \A g, h \in Gateways :
          pc[g] \in Registering => /\ h > g => pc[h] = "new"
                                   /\ h # g => pc[h] \notin Registering

\* Whose the globals are, and how far that one has come.
Owners ==
    /\ state # 0 => pc[state] \in Built
    /\ config # 0 => pc[config] \in Built \ {"config"}
    /\ config # 0 => state # 0
    /\ \A g \in Gateways : pc[g] \in Built => state # 0

\* Without overlap the globals are replaced in the order of the gateways.
Replaced ==
    ~overlap /\ ~Panicked =>
        /\ config <= state
        /\ (\A g \in Gateways : pc[g] \notin {"state", "config"}) =>
               instances = state /\ state = config
        /\ \A g \in Gateways : /\ pc[g] = "state" => instances = g /\ state = config
                               /\ pc[g] = "config" => instances = g /\ state = g

\* What a layer has got so far.
Follows(l) ==
    /\ layer[l].at = "config" => layer[l].config # 0 /\ state # 0
    /\ layer[l].at = "built" /\ layer[l].config # 0 => layer[l].state # 0
    /\ ~overlap /\ ~Panicked /\ layer[l].at = "config" => layer[l].config <= state
    /\ ~overlap /\ layer[l].at = "built" => layer[l].config <= layer[l].state
LayersFollow == \A l \in Layers : Follows(l)

\* The providers of a state, and that nothing is recorded behind a closed one.
ProvidersOpen ==
    \A g \in Gateways :
        /\ pc[g] \in {"create", "state", "panicked"} \cup Built => Valid(cfg[g])
        /\ pc[g] \in {"config", "registered"} => open[g] = Providers(cfg[g])
        /\ pc[g] = "stopped" => open[g] = {}
        /\ pc[g] \in {"meter"} => open[g] \subseteq {"metrics"}
        /\ pending[g] \subseteq open[g]
        /\ ctx[g] = "live" => lost[g] = {}

IInv == TypeOK /\ Turns /\ Owners /\ Replaced /\ LayersFollow /\ ProvidersOpen

Pcs == {"new", "none", "failed", "panicked"} \cup Registering \cup Built

ServerType == [up : {"no", "starting", "listening", "down"}, watched : BOOLEAN]
LayerType == [at : {"new", "config", "built"}, config : 0..N, state : 0..N]

-----------------------------------------------------------------------------
(* Typing.                                                                 *)

LEMMA PushedIsProvided == \A c : Pushed(c) \subseteq Providers(c) /\ Providers(c) \subseteq Signals
  BY DEF Pushed, Providers, Signals

LEMMA InitType == Init => TypeOK
<1> SUFFICES ASSUME Init PROVE TypeOK
  OBVIOUS
<1>1. \A g \in Gateways : Len(Exporters(g)) \in Nat /\ made[g] <= Len(Exporters(g))
  BY ConfigsAssumption DEF Init, ConfigType, Exporters
<1>2. \A g \in Gateways : server[g] \in [DOMAIN Exporters(g) -> ServerType]
  BY DEF Init, NoServer, ServerType
<1>3. \A g \in Gateways : pending[g] \cup lost[g] \subseteq Pushed(cfg[g])
  BY DEF Init
<1> QED
  BY <1>1, <1>2, <1>3, GatewaysAssumption DEF Init, TypeOK, ServerType, Gateways, Signals

\* A change of the server of one exporter keeps the servers typed.
LEMMA ServerType1 ==
    ASSUME TypeOK, NEW g \in Gateways, NEW i \in DOMAIN Exporters(g), NEW r \in ServerType,
           server' = [server EXCEPT ![g][i] = r]
    PROVE  /\ DOMAIN server' = Gateways
           /\ \A h \in Gateways : server'[h] \in [DOMAIN Exporters(h) -> ServerType]
<1>1. DOMAIN server = Gateways
      /\ \A h \in Gateways : server[h] \in [DOMAIN Exporters(h) -> ServerType]
  BY DEF TypeOK, ServerType
<1>2. server' = [server EXCEPT ![g] = [server[g] EXCEPT ![i] = r]]
  OBVIOUS
<1>3. [server[g] EXCEPT ![i] = r] \in [DOMAIN Exporters(g) -> ServerType]
  BY <1>1
<1> QED
  BY <1>1, <1>2, <1>3

LEMMA TypeStep == ASSUME TypeOK, [Next]_vars PROVE TypeOK'
<1> USE GatewaysAssumption
<1>0. TypeOK /\ DOMAIN server = Gateways
      /\ \A h \in Gateways : server[h] \in [DOMAIN Exporters(h) -> ServerType]
  BY DEF TypeOK, ServerType
<1>l. \A g \in Gateways : Exporters(g) \in Seq(Exporter)
  BY ConfigsAssumption DEF TypeOK, ConfigType, Exporters
<1>1. ASSUME NEW g \in Gateways, Begin(g) PROVE TypeOK'
  <2>1. pc' \in [Gateways -> Pcs]
    BY <1>1 DEF Begin, Goto, TypeOK, Pcs, Registering
  <2> QED
    BY <1>1, <2>1 DEF Begin, telemetry, TypeOK, Pcs, Exporters
<1>2. ASSUME NEW g \in Gateways, CreateOTLP(g) \/ CreatePrometheus(g) PROVE TypeOK'
  <2>1. pc' \in [Gateways -> Pcs]
    BY <1>2 DEF CreateOTLP, CreatePrometheus, Goto, TypeOK, Pcs
  <2>2. made' \in [Gateways -> Nat] /\ \A h \in Gateways : made'[h] <= Len(Exporters(h))
    <3>1. \A h \in Gateways : Len(Exporters(h)) \in Nat
      BY <1>l
    <3>2. made \in [Gateways -> Nat] /\ \A h \in Gateways : made[h] <= Len(Exporters(h))
      BY DEF TypeOK
    <3>3. made' = made \/ made' = [made EXCEPT ![g] = made[g] + 1]
      BY <1>2 DEF CreateOTLP, CreatePrometheus
    <3>4. made[g] < Len(Exporters(g))
      BY <1>2 DEF CreateOTLP, CreatePrometheus, Left
    <3> QED
      BY <3>1, <3>2, <3>3, <3>4
  <2>3. UNCHANGED <<overlap, cfg, instances, state, config, ctx, layer, open, pending, lost>>
    BY <1>2 DEF CreateOTLP, CreatePrometheus, telemetry
  <2>4. CASE UNCHANGED server
    BY <2>1, <2>2, <2>3, <2>4 DEF TypeOK, Pcs, Exporters
  <2>5. CASE server' = [server EXCEPT ![g][Upcoming(g)] = [up |-> "starting", watched |-> TRUE]]
    <3>1. Upcoming(g) \in DOMAIN Exporters(g)
      BY <1>2, <1>l DEF CreateOTLP, CreatePrometheus, Left, Upcoming, TypeOK
    <3>2. [up |-> "starting", watched |-> TRUE] \in ServerType
      BY DEF ServerType
    <3>3. /\ DOMAIN server' = Gateways
          /\ \A h \in Gateways : server'[h] \in [DOMAIN Exporters(h) -> ServerType]
      BY <2>5, <3>1, <3>2, ServerType1
    <3> QED
      BY <2>1, <2>2, <2>3, <3>3 DEF TypeOK, Pcs, Exporters, ServerType
  <2> QED
    BY <1>2, <2>4, <2>5 DEF CreateOTLP, CreatePrometheus
<1>3. ASSUME NEW g \in Gateways, Publish(g) PROVE TypeOK'
  <2>1. pc' \in [Gateways -> Pcs]
    BY <1>3 DEF Publish, Goto, TypeOK, Pcs, Registering
  <2>2. instances' \in 0..N
    BY <1>3 DEF Publish, Gateways
  <2> QED
    BY <1>3, <2>1, <2>2 DEF Publish, telemetry, TypeOK, Pcs, Exporters
<1>4. ASSUME NEW g \in Gateways, Install(g) PROVE TypeOK'
  <2>1. pc' \in [Gateways -> Pcs]
    BY <1>4 DEF Install, Goto, TypeOK, Pcs, Registering, Built
  <2>2. open' \in [Gateways -> SUBSET Signals]
    <3>1. Providers(cfg[g]) \in SUBSET Signals
      BY DEF Providers
    <3>2. open' = open \/ open' = [open EXCEPT ![g] = Providers(cfg[g])]
      BY <1>4 DEF Install, SetState, SetConfig, telemetry
    <3>3. open \in [Gateways -> SUBSET Signals]
      BY DEF TypeOK
    <3> QED
      BY <3>1, <3>2, <3>3
  <2>3. state' \in 0..N /\ config' \in 0..N
    BY <1>4 DEF Install, SetState, SetConfig, TypeOK, Gateways
  <2> QED
    BY <1>4, <2>1, <2>2, <2>3 DEF Install, SetState, SetConfig, telemetry, TypeOK, Pcs, Exporters
<1>5. ASSUME NEW g \in Gateways, CtxEnd(g) PROVE TypeOK'
  BY <1>5 DEF CtxEnd, registration, telemetry, TypeOK, Exporters
<1>6. ASSUME NEW g \in Gateways, Serve(g) PROVE TypeOK'
  <2>1. PICK i \in DOMAIN Exporters(g) : Listen(g, i) \/ Stop(g, i)
    BY <1>6 DEF Serve
  <2>2. server[g][i] \in ServerType
    BY <1>0
  <2>3. \E r \in ServerType : server' = [server EXCEPT ![g][i] = r]
    <3>1. CASE Stop(g, i)
      BY <3>1 DEF Stop, ServerType
    <3>2. CASE Listen(g, i)
      <4>1. PICK up \in {"listening", "down"} : server' = [server EXCEPT ![g][i].up = up]
        BY <3>2 DEF Listen
      <4>2. server' = [server EXCEPT ![g][i] = [server[g][i] EXCEPT !.up = up]]
        BY <4>1
      <4>3. [server[g][i] EXCEPT !.up = up] \in ServerType
        BY <2>2 DEF ServerType
      <4> QED
        BY <4>2, <4>3
    <3> QED
      BY <2>1, <3>1, <3>2
  <2>4. /\ DOMAIN server' = Gateways
        /\ \A h \in Gateways : server'[h] \in [DOMAIN Exporters(h) -> ServerType]
    BY <2>3, ServerType1
  <2> QED
    BY <2>1, <2>4 DEF Listen, Stop, registration, telemetry, TypeOK, Exporters, ServerType
<1>7. ASSUME NEW g \in Gateways, Export(g) PROVE TypeOK'
  BY <1>7 DEF Export, registration, TypeOK, Exporters
<1>8. ASSUME NEW g \in Gateways, Shutdown(g) PROVE TypeOK'
  <2>1. pc' \in [Gateways -> Pcs]
    BY <1>8 DEF Shutdown, Goto, TypeOK, Pcs, Built
  <2>2. \E s \in Signals : Flush(g, s, ctx[g])
    BY <1>8 DEF Shutdown, Signals
  <2>3. /\ open' \in [Gateways -> SUBSET Signals]
        /\ pending' \in [Gateways -> SUBSET Signals]
        /\ lost' \in [Gateways -> SUBSET Signals]
        /\ \A h \in Gateways : pending'[h] \cup lost'[h] \subseteq Pushed(cfg[h])
    BY <2>2 DEF Flush, TypeOK
  <2> QED
    BY <1>8, <2>1, <2>3 DEF Shutdown, TypeOK, Pcs, Exporters
<1>9. ASSUME NEW l \in Layers, Build(l) PROVE TypeOK'
  <2>1. layer' \in [Layers -> [at : {"new", "config", "built"}, config : 0..N, state : 0..N]]
    <3>1. layer \in [Layers -> LayerType] /\ config \in 0..N /\ state \in 0..N
      BY DEF TypeOK, LayerType
    <3>2. \/ layer' = [layer EXCEPT ![l] = [layer[l] EXCEPT !.config = config, !.at = "built"]]
          \/ layer' = [layer EXCEPT ![l] = [layer[l] EXCEPT !.config = config, !.at = "config"]]
          \/ layer' = [layer EXCEPT ![l] = [layer[l] EXCEPT !.state = state, !.at = "built"]]
      BY <1>9 DEF Build
    <3>3. \A at \in {"config", "built"} :
             /\ [layer[l] EXCEPT !.config = config, !.at = at] \in LayerType
             /\ [layer[l] EXCEPT !.state = state, !.at = at] \in LayerType
      BY <3>1 DEF LayerType
    <3> QED
      BY <3>1, <3>2, <3>3 DEF LayerType
  <2> QED
    BY <1>9, <2>1 DEF Build, registration, telemetry, TypeOK, Exporters
<1>10. ASSUME NEW l \in Layers, Record(l) PROVE TypeOK'
  <2>1. layer[l].state \in Gateways
    BY <1>10 DEF Record, TypeOK, Gateways
  <2>2. /\ pending' \in [Gateways -> SUBSET Signals]
        /\ \A h \in Gateways : pending'[h] \cup lost[h] \subseteq Pushed(cfg[h])
    BY <1>10, <2>1, PushedIsProvided DEF Record, TypeOK
  <2> QED
    BY <1>10, <2>2 DEF Record, registration, TypeOK, Exporters
<1>11. CASE UNCHANGED vars
  BY <1>11 DEF vars, registration, telemetry, TypeOK, Exporters
<1> QED
  BY <1>1, <1>2, <1>3, <1>4, <1>5, <1>6, <1>7, <1>8, <1>9, <1>10, <1>11 DEF Next, Register

-----------------------------------------------------------------------------
(* The order of the registrations, and what they leave in force.           *)

\* How the step of a gateway moves on, and what else it may change of the globals.
Moves(g, from, to) == pc[g] = from /\ pc' = [pc EXCEPT ![g] = to]

Globals == <<overlap, pc, instances, state, config>>

\* Every step is one of these as far as the globals go.
Begins(g)    == /\ \E to \in {"none", "failed", "create"} : Moves(g, "new", to)
                /\ g > 1 => pc[g - 1] # "new"
                /\ overlap \/ \A h \in Gateways : pc[h] \notin Registering
                /\ UNCHANGED <<overlap, instances, state, config>>
Fails(g)     == Moves(g, "create", "failed") /\ UNCHANGED <<overlap, instances, state, config>>
Publishes(g) == /\ \E to \in {"panicked", "state"} : Moves(g, "create", to)
                /\ instances' = g
                /\ UNCHANGED <<overlap, state, config>>
Sets(g)      == /\ Moves(g, "state", "config")
                /\ state' = g
                /\ UNCHANGED <<overlap, instances, config>>
Completes(g) == /\ Moves(g, "config", "registered")
                /\ config' = g
                /\ UNCHANGED <<overlap, instances, state>>
Shuts(g)     == /\ Moves(g, "registered", "meter") \/ Moves(g, "meter", "stopped")
                /\ UNCHANGED <<overlap, instances, state, config>>

LEMMA StepOfGlobals ==
    ASSUME TypeOK, [Next]_vars
    PROVE  \/ UNCHANGED Globals
           \/ ~Panicked /\ \E g \in Gateways : \/ Begins(g) \/ Fails(g) \/ Publishes(g)
                                               \/ Sets(g) \/ Completes(g) \/ Shuts(g)
<1> USE DEF Moves, Goto, Globals
<1>1. ASSUME NEW g \in Gateways, Begin(g) PROVE Begins(g)
  BY <1>1 DEF Begin, Begins
<1>2. ASSUME NEW g \in Gateways, CreateOTLP(g) \/ CreatePrometheus(g)
      PROVE  Fails(g) \/ UNCHANGED Globals
  BY <1>2 DEF CreateOTLP, CreatePrometheus, Left, Fails
<1>3. ASSUME NEW g \in Gateways, Publish(g) PROVE Publishes(g)
  BY <1>3 DEF Publish, Publishes
<1>4. ASSUME NEW g \in Gateways, Install(g) PROVE Sets(g) \/ Completes(g)
  BY <1>4 DEF Install, SetState, SetConfig, Sets, Completes
<1>5. ASSUME NEW g \in Gateways, CtxEnd(g) \/ Serve(g) \/ Export(g) PROVE UNCHANGED Globals
  BY <1>5 DEF CtxEnd, Serve, Listen, Stop, Export, registration
<1>6. ASSUME NEW g \in Gateways, Shutdown(g) PROVE Shuts(g)
  BY <1>6 DEF Shutdown, Shuts
<1>7. ASSUME NEW l \in Layers, Build(l) \/ Record(l) PROVE UNCHANGED Globals
  BY <1>7 DEF Build, Record, registration
<1>8. CASE UNCHANGED vars
  BY <1>8 DEF vars, registration
<1> QED
  BY <1>1, <1>2, <1>3, <1>4, <1>5, <1>6, <1>7, <1>8 DEF Next, Register

LEMMA TurnsStep == ASSUME TypeOK, Turns, [Next]_vars PROVE Turns'
<1> USE GatewaysAssumption
<1>0. pc \in [Gateways -> Pcs]
  BY DEF TypeOK, Pcs
<1>1. CASE UNCHANGED Globals
  BY <1>1 DEF Globals, Turns
<1>2. ASSUME NEW g \in Gateways, Begins(g) PROVE Turns'
  <2>1. \A h \in Gateways : h < g => pc[h] # "new"
    <3> SUFFICES ASSUME NEW h \in Gateways, h < g PROVE pc[h] # "new"
      OBVIOUS
    <3>1. g - 1 \in Gateways /\ pc[g - 1] # "new" /\ (h = g - 1 \/ h < g - 1)
      BY <1>2 DEF Begins, Gateways
    <3> QED
      BY <3>1 DEF Turns
  <2>2. \A h \in Gateways : h > g => pc[h] = "new"
    BY <1>2 DEF Begins, Moves, Turns
  <2>3. \A h \in Gateways : pc'[h] # "new" <=> h = g \/ pc[h] # "new"
    BY <1>0, <1>2 DEF Begins, Moves
  <2>4. \A x, h \in Gateways : h < x /\ pc'[x] # "new" => pc'[h] # "new"
    BY <2>1, <2>3 DEF Turns
  <2>5. ~overlap => \A h \in Gateways : pc'[h] \in Registering => h = g
    BY <1>0, <1>2 DEF Begins, Moves
  <2>6. \A h \in Gateways : h > g => pc'[h] = "new"
    BY <2>2, <2>3 DEF Gateways
  <2>7. UNCHANGED overlap
    BY <1>2 DEF Begins
  <2> QED
    BY <2>4, <2>5, <2>6, <2>7 DEF Turns
<1>3. ASSUME NEW g \in Gateways,
             Fails(g) \/ Publishes(g) \/ Sets(g) \/ Completes(g) \/ Shuts(g)
      PROVE  Turns'
  <2>1. /\ \A h \in Gateways : pc'[h] = "new" <=> pc[h] = "new"
        /\ \A h \in Gateways : pc'[h] \in Registering => pc[h] \in Registering
        /\ UNCHANGED overlap
    BY <1>0, <1>3 DEF Fails, Publishes, Sets, Completes, Shuts, Moves, Registering
  <2> QED
    BY <2>1 DEF Turns
<1> QED
  BY <1>1, <1>2, <1>3, StepOfGlobals

LEMMA OwnersStep == ASSUME TypeOK, Owners, [Next]_vars PROVE Owners'
<1> USE GatewaysAssumption
<1>0. pc \in [Gateways -> Pcs] /\ state \in 0..N /\ config \in 0..N
  BY DEF TypeOK, Pcs
<1>1. CASE UNCHANGED Globals
  BY <1>1 DEF Globals, Owners
<1>2. ASSUME NEW g \in Gateways, Begins(g) \/ Fails(g) \/ Publishes(g) \/ Shuts(g)
      PROVE  Owners'
  <2>1. /\ \A h \in 0..N : h # 0 /\ pc[h] \in Built => pc'[h] \in Built
        /\ \A h \in 0..N : h # 0 /\ pc[h] \in Built \ {"config"} => pc'[h] \in Built \ {"config"}
        /\ \A h \in Gateways : pc'[h] \in Built => pc[h] \in Built
        /\ UNCHANGED <<state, config>>
    BY <1>0, <1>2 DEF Begins, Fails, Publishes, Shuts, Moves, Registering, Built, Gateways
  <2> QED
    BY <1>0, <2>1 DEF Owners, Gateways
<1>3. ASSUME NEW g \in Gateways, Sets(g) PROVE Owners'
  BY <1>0, <1>3 DEF Sets, Moves, Owners, Built, Gateways
<1>4. ASSUME NEW g \in Gateways, Completes(g) PROVE Owners'
  BY <1>0, <1>4 DEF Completes, Moves, Owners, Built, Gateways
<1> QED
  BY <1>1, <1>2, <1>3, <1>4, StepOfGlobals

LEMMA ReplacedStep == ASSUME TypeOK, Turns, Owners, Replaced, [Next]_vars PROVE Replaced'
<1> USE GatewaysAssumption
<1>0. /\ pc \in [Gateways -> Pcs]
      /\ instances \in 0..N /\ state \in 0..N /\ config \in 0..N
  BY DEF TypeOK, Pcs
<1>1. CASE UNCHANGED Globals
  BY <1>1 DEF Globals, Replaced, Panicked
<1> SUFFICES ASSUME ~Panicked, ~Panicked', ~overlap, ~overlap' PROVE Replaced'
  BY <1>1, StepOfGlobals DEF Begins, Fails, Publishes, Sets, Completes, Shuts, Replaced
<1>r. /\ config <= state
      /\ (\A g \in Gateways : pc[g] \notin {"state", "config"}) =>
               instances = state /\ state = config
      /\ \A g \in Gateways : /\ pc[g] = "state" => instances = g /\ state = config
                             /\ pc[g] = "config" => instances = g /\ state = g
  BY DEF Replaced
\* The one that registers is alone and later than whose configuration is in force.
<1>a. ASSUME NEW g \in Gateways, pc[g] \in Registering
      PROVE  /\ \A h \in Gateways \ {g} : pc[h] \notin Registering
             /\ config <= g /\ state <= g
  <2>1. \A h \in Gateways : h > g => pc[h] = "new"
    BY <1>a DEF Turns
  <2>2. config # 0 => config \in Gateways /\ pc[config] # "new"
    BY <1>0 DEF Owners, Built, Gateways
  <2>3. state # 0 => state \in Gateways /\ pc[state] # "new"
    BY <1>0 DEF Owners, Built, Gateways
  <2> QED
    BY <1>0, <1>a, <2>1, <2>2, <2>3 DEF Turns, Gateways
<1>2. ASSUME NEW g \in Gateways, Begins(g) \/ Fails(g) \/ Shuts(g) PROVE Replaced'
  <2>1. /\ \A h \in Gateways : \A at \in {"state", "config"} : pc'[h] = at <=> pc[h] = at
        /\ UNCHANGED <<instances, state, config>>
    BY <1>0, <1>2 DEF Begins, Fails, Shuts, Moves
  <2> QED
    BY <1>r, <2>1 DEF Replaced
<1>3. ASSUME NEW g \in Gateways, Publishes(g) PROVE Replaced'
  <2>1. pc[g] = "create" /\ pc'[g] = "state" /\ \A h \in Gateways \ {g} : pc'[h] = pc[h]
    BY <1>0, <1>3 DEF Publishes, Moves, Panicked
  <2>2. \A h \in Gateways : pc[h] \notin {"state", "config"}
    BY <1>a, <2>1 DEF Registering
  <2> QED
    BY <1>3, <1>r, <2>1, <2>2 DEF Publishes, Replaced
<1>4. ASSUME NEW g \in Gateways, Sets(g) PROVE Replaced'
  <2>1. pc[g] = "state" /\ pc'[g] = "config" /\ \A h \in Gateways \ {g} : pc'[h] = pc[h]
    BY <1>0, <1>4 DEF Sets, Moves
  <2>2. \A h \in Gateways \ {g} : pc[h] \notin {"state", "config"}
    BY <1>a, <2>1 DEF Registering
  <2>3. config <= g /\ instances = g
    BY <1>a, <1>r, <2>1 DEF Registering
  <2> QED
    BY <1>4, <2>1, <2>2, <2>3 DEF Sets, Replaced
<1>5. ASSUME NEW g \in Gateways, Completes(g) PROVE Replaced'
  <2>1. pc[g] = "config" /\ pc'[g] = "registered" /\ \A h \in Gateways \ {g} : pc'[h] = pc[h]
    BY <1>0, <1>5 DEF Completes, Moves
  <2>2. \A h \in Gateways \ {g} : pc[h] \notin {"state", "config"}
    BY <1>a, <2>1 DEF Registering
  <2>3. instances = g /\ state = g
    BY <1>r, <2>1
  <2> QED
    BY <1>5, <1>0, <2>1, <2>2, <2>3 DEF Completes, Replaced, Gateways
<1> QED
  BY <1>1, <1>2, <1>3, <1>4, <1>5, StepOfGlobals

-----------------------------------------------------------------------------
(* The layers.                                                             *)

LEMMA LayersStep ==
    ASSUME TypeOK, TypeOK', Turns, Owners, Replaced, LayersFollow, [Next]_vars
    PROVE  LayersFollow'
<1> USE GatewaysAssumption
<1>0. /\ pc \in [Gateways -> Pcs] /\ state \in 0..N /\ config \in 0..N
      /\ layer \in [Layers -> LayerType]
  BY DEF TypeOK, Pcs, LayerType
\* What the globals may do meanwhile.
<1>1. /\ UNCHANGED overlap
      /\ state # 0 => state' # 0
      /\ ~overlap /\ ~Panicked' => ~Panicked /\ state <= state'
  <2>1. CASE UNCHANGED Globals
    BY <2>1, <1>0 DEF Globals, Panicked
  <2>2. ASSUME NEW g \in Gateways, ~Panicked,
               Begins(g) \/ Fails(g) \/ Publishes(g) \/ Completes(g) \/ Shuts(g)
        PROVE  UNCHANGED <<overlap, state>>
    BY <2>2 DEF Begins, Fails, Publishes, Completes, Shuts
  <2>3. ASSUME NEW g \in Gateways, Sets(g), ~overlap PROVE state <= g
    <3>1. \A h \in Gateways : h > g => pc[h] = "new"
      BY <2>3 DEF Sets, Moves, Turns, Registering
    <3>2. state # 0 => state \in Gateways /\ pc[state] # "new"
      BY <1>0 DEF Owners, Built, Gateways
    <3> QED
      BY <1>0, <3>1, <3>2 DEF Gateways
  <2> QED
    BY <1>0, <2>1, <2>2, <2>3, StepOfGlobals DEF Sets, Gateways
<1>2. CASE UNCHANGED layer
  <2>1. state' \in 0..N
    BY DEF TypeOK
  <2> SUFFICES ASSUME NEW l \in Layers
      PROVE /\ layer[l].at = "config" => layer[l].config # 0 /\ state' # 0
            /\ layer[l].at = "built" /\ layer[l].config # 0 => layer[l].state # 0
            /\ ~overlap /\ ~Panicked' /\ layer[l].at = "config" => layer[l].config <= state'
            /\ ~overlap /\ layer[l].at = "built" => layer[l].config <= layer[l].state
    BY <1>1, <1>2 DEF LayersFollow, Follows
  <2>2. layer[l].config \in 0..N
    BY <1>0 DEF LayerType
  <2> QED
    BY <1>0, <1>1, <2>1, <2>2 DEF LayersFollow, Follows
<1>3. ASSUME NEW l \in Layers, Build(l), ~Panicked PROVE LayersFollow'
  <2>1. UNCHANGED <<overlap, pc, state, config>> /\ ~Panicked'
    BY <1>3 DEF Build, registration, Panicked
  <2>2. ASSUME NEW k \in Layers, k # l PROVE Follows(k)'
    <3>1. layer'[k] = layer[k]
      BY <1>0, <1>3, <2>2 DEF Build
    <3> QED
      BY <1>3, <2>1, <3>1 DEF LayersFollow, Follows
  <2>3. CASE layer[l].at = "new"
    <3>1. layer'[l].config = config /\ layer'[l].at = (IF config = 0 THEN "built" ELSE "config")
          /\ layer'[l].state = layer[l].state
      BY <1>0, <1>3, <2>3 DEF Build, LayerType
    <3>2. config = 0 => ~(layer'[l].at = "config") /\ layer'[l].config = 0
      BY <3>1
    <3>3. config # 0 => state # 0 /\ layer'[l].at = "config"
      BY <3>1 DEF Owners
    <3>4. ~overlap => config <= state
      BY <1>3 DEF Replaced
    <3>5. layer'[l].state \in 0..N
      BY <1>0, <3>1 DEF LayerType
    <3> QED
      BY <1>3, <2>1, <2>2, <3>1, <3>2, <3>3, <3>4, <3>5 DEF LayersFollow, Follows
  <2>4. CASE layer[l].at = "config"
    <3>1. layer'[l].config = layer[l].config /\ layer'[l].at = "built" /\ layer'[l].state = state
      BY <1>0, <1>3, <2>4 DEF Build, LayerType
    <3> QED
      BY <1>3, <2>1, <2>2, <2>4, <3>1 DEF LayersFollow, Follows
  <2> QED
    BY <1>3, <2>3, <2>4 DEF Build
<1>4. UNCHANGED layer \/ (~Panicked /\ \E l \in Layers : Build(l))
  BY DEF Next, Register, Begin, CreateOTLP, CreatePrometheus, Publish, Install, SetState, SetConfig, CtxEnd, Serve,
         Listen, Stop, Export, Shutdown, Record, vars
<1> QED
  BY <1>2, <1>3, <1>4

-----------------------------------------------------------------------------
(* The providers.                                                          *)

LEMMA ProvidersStep ==
    ASSUME TypeOK, ProvidersOpen, [Next]_vars
    PROVE  ProvidersOpen'
<1>0. /\ pc \in [Gateways -> Pcs] /\ cfg \in [Gateways -> Configs]
      /\ ctx \in [Gateways -> {"live", "ended"}]
      /\ open \in [Gateways -> SUBSET Signals] /\ pending \in [Gateways -> SUBSET Signals]
      /\ lost \in [Gateways -> SUBSET Signals]
  BY DEF TypeOK, Pcs
<1>1. CASE UNCHANGED <<cfg, ctx, open, pending, lost, pc>>
  BY <1>1 DEF ProvidersOpen
<1>2. ASSUME NEW g \in Gateways, Begin(g) PROVE ProvidersOpen'
  <2>1. UNCHANGED <<cfg, ctx, open, pending, lost>>
    BY <1>2 DEF Begin, telemetry
  <2>2. \A h \in Gateways \ {g} : pc'[h] = pc[h]
    BY <1>0, <1>2 DEF Begin, Goto
  <2>3. pc'[g] \in {"none", "failed"} \/ (pc'[g] = "create" /\ Valid(cfg[g]))
    BY <1>0, <1>2 DEF Begin, Goto
  <2> QED
    BY <2>1, <2>2, <2>3 DEF ProvidersOpen, Built, Valid
<1>3. ASSUME NEW g \in Gateways, CreateOTLP(g) \/ CreatePrometheus(g) \/ Publish(g)
      PROVE  ProvidersOpen'
  <2>1. UNCHANGED <<cfg, ctx, open, pending, lost>>
    BY <1>3 DEF CreateOTLP, CreatePrometheus, Publish, telemetry
  <2>2. \A h \in Gateways \ {g} : pc'[h] = pc[h]
    BY <1>0, <1>3 DEF CreateOTLP, CreatePrometheus, Left, Publish, Goto
  <2>3. pc[g] = "create" /\ pc'[g] \in {"create", "failed", "panicked", "state"}
    BY <1>0, <1>3 DEF CreateOTLP, CreatePrometheus, Left, Publish, Goto
  <2> QED
    BY <2>1, <2>2, <2>3 DEF ProvidersOpen, Built, Valid
<1>4. ASSUME NEW g \in Gateways, Install(g) PROVE ProvidersOpen'
  <2>1. UNCHANGED <<cfg, ctx, pending, lost>>
    BY <1>4 DEF Install, SetState, SetConfig, telemetry
  <2>2. \A h \in Gateways \ {g} : pc'[h] = pc[h] /\ open'[h] = open[h]
    BY <1>0, <1>4 DEF Install, SetState, SetConfig, Goto, telemetry
  <2>3. Valid(cfg[g])
    BY <1>4 DEF Install, ProvidersOpen, Built
  <2>4. CASE pc[g] = "state"
    <3>1. pc'[g] = "config" /\ open'[g] = Providers(cfg[g])
      BY <1>0, <1>4, <2>4 DEF Install, SetState, Goto
    <3>2. pending[g] \subseteq open'[g]
      BY <3>1, PushedIsProvided DEF TypeOK
    <3> QED
      BY <2>1, <2>2, <2>3, <3>1, <3>2 DEF ProvidersOpen, Valid, Providers, Spanning, Reading
  <2>5. CASE pc[g] = "config"
    <3>1. pc'[g] = "registered" /\ open' = open
      BY <1>0, <1>4, <2>5 DEF Install, SetConfig, Goto, telemetry
    <3> QED
      BY <2>1, <2>2, <2>3, <2>5, <3>1 DEF ProvidersOpen, Valid, Providers, Spanning, Reading
  <2> QED
    BY <1>4, <2>4, <2>5 DEF Install
<1>5. ASSUME NEW g \in Gateways, CtxEnd(g) PROVE ProvidersOpen'
  <2>1. UNCHANGED <<cfg, open, pending, lost, pc>>
    BY <1>5 DEF CtxEnd, registration, telemetry
  <2>2. \A h \in Gateways : ctx'[h] = "live" => ctx[h] = "live"
    BY <1>0, <1>5 DEF CtxEnd
  <2> QED
    BY <2>1, <2>2 DEF ProvidersOpen
<1>6. ASSUME NEW g \in Gateways, Export(g) PROVE ProvidersOpen'
  <2>1. UNCHANGED <<cfg, ctx, open, lost, pc>>
    BY <1>6 DEF Export, registration
  <2>2. \A h \in Gateways : pending'[h] \subseteq pending[h]
    BY <1>0, <1>6 DEF Export
  <2> QED
    BY <2>1, <2>2 DEF ProvidersOpen
<1>7. ASSUME NEW g \in Gateways, Shutdown(g) PROVE ProvidersOpen'
  <2>1. UNCHANGED <<cfg, ctx>> /\ \A h \in Gateways \ {g} : pc'[h] = pc[h]
    BY <1>0, <1>7 DEF Shutdown, Goto
  <2>2. PICK s \in Signals :
            /\ Flush(g, s, ctx[g])
            /\ \/ s = "traces" /\ pc[g] = "registered" /\ pc'[g] = "meter"
               \/ s = "metrics" /\ pc[g] = "meter" /\ pc'[g] = "stopped"
    BY <1>0, <1>7 DEF Shutdown, Goto, Signals
  <2>3. /\ \A h \in Gateways \ {g} : /\ open'[h] = open[h] /\ lost'[h] = lost[h]
                                     /\ pending'[h] = pending[h]
        /\ open'[g] = open[g] \ {s}
    BY <1>0, <2>2 DEF Flush
  <2>4. pending'[g] \subseteq open'[g]
    BY <1>0, <2>2 DEF Flush, ProvidersOpen
  <2>5. ctx[g] = "live" => lost'[g] = {}
    BY <1>0, <2>2 DEF Flush, ProvidersOpen
  <2>6. pc'[g] = "meter" => open'[g] \subseteq {"metrics"}
    BY <1>0, <2>2, <2>3 DEF Signals
  <2>7. pc'[g] = "stopped" => open'[g] = {}
    BY <2>2, <2>3 DEF ProvidersOpen
  <2>8. Valid(cfg[g]) /\ pc'[g] \in {"meter", "stopped"}
    BY <2>2 DEF ProvidersOpen, Built
  <2> QED
    BY <2>1, <2>3, <2>4, <2>5, <2>6, <2>7, <2>8
    DEF ProvidersOpen, Valid, Providers, Spanning, Reading
<1>8. ASSUME NEW l \in Layers, Record(l) PROVE ProvidersOpen'
  <2>1. UNCHANGED <<cfg, ctx, open, lost, pc>>
    BY <1>8 DEF Record, registration
  <2>2. \A h \in Gateways : pending'[h] \subseteq open[h]
    BY <1>0, <1>8 DEF Record, ProvidersOpen
  <2> QED
    BY <2>1, <2>2 DEF ProvidersOpen
<1>9. ASSUME NEW x, NEW y, Serve(x) \/ Build(y) PROVE UNCHANGED <<cfg, ctx, open, pending, lost, pc>>
  BY <1>9 DEF Serve, Listen, Stop, Build, registration, telemetry
<1>10. CASE UNCHANGED vars
  BY <1>1, <1>10 DEF vars, registration, telemetry
<1> QED
  BY <1>1, <1>2, <1>3, <1>4, <1>5, <1>6, <1>7, <1>8, <1>9, <1>10 DEF Next, Register

-----------------------------------------------------------------------------
LEMMA InitIInv == Init => IInv
<1> SUFFICES ASSUME Init PROVE IInv
  OBVIOUS
<1>1. \A g \in Gateways : pc[g] = "new" /\ pending[g] = {} /\ lost[g] = {}
  BY DEF Init
<1>2. state = 0 /\ config = 0 /\ instances = 0 /\ \A l \in Layers : layer[l].at = "new"
  BY DEF Init
<1> QED
  BY <1>1, <1>2, InitType DEF IInv, Turns, Owners, Replaced, LayersFollow, Follows, ProvidersOpen,
                              Registering, Built

\* The inductive invariant: what has been installed, by whom and since when, at every
\* moment of any number of registrations and shutdowns.
THEOREM Invariant == Spec => []IInv
<1>1. IInv /\ [Next]_vars => IInv'
  BY TypeStep, TurnsStep, OwnersStep, ReplacedStep, LayersStep, ProvidersStep DEF IInv
<1> QED
  BY InitIInv, <1>1, PTL DEF Spec

\* The registrations, the globals and the layers keep their types, for any gateways and
\* any configurations.
THEOREM TypeCorrect == Spec => []TypeOK
<1>1. IInv => TypeOK
  BY DEF IInv
<1> QED
  BY Invariant, <1>1, PTL

\* No layer with a configuration is without a state, however registrations overlap.
THEOREM LayersAlwaysHaveState == Spec => []LayersHaveState
<1>1. IInv => LayersHaveState
  BY DEF IInv, LayersFollow, Follows, LayersHaveState
<1> QED
  BY Invariant, <1>1, PTL

\* With registrations that take turns, a layer never reports to an older state.
THEOREM StatesAreNotOlder == Spec => []StateNotOlder
<1>1. IInv => StateNotOlder
  BY DEF IInv, LayersFollow, Follows, StateNotOlder
<1> QED
  BY Invariant, <1>1, PTL

\* Only an installation replaces the state in force, and in turns it is a later one.
LEMMA StateReplaced ==
    ASSUME IInv, [Next]_vars, state' # state
    PROVE  \E g \in Gateways : Abstract!Replace(g) /\ UNCHANGED overlap
<1> USE GatewaysAssumption
<1>1. PICK g \in Gateways : Sets(g)
  BY StepOfGlobals DEF Globals, Begins, Fails, Publishes, Completes, Shuts, IInv
<1>2. pc[g] = "state" /\ state' = g /\ UNCHANGED overlap
  BY <1>1 DEF Sets, Moves
<1>3. UNCHANGED layer
  <2>1. ASSUME NEW l \in Layers, Build(l) \/ Record(l) PROVE UNCHANGED state
    BY <2>1 DEF Build, Record, registration
  <2>2. ASSUME NEW h \in Gateways,
               Register(h) \/ CtxEnd(h) \/ Serve(h) \/ Export(h) \/ Shutdown(h)
        PROVE  UNCHANGED layer
    BY <2>2 DEF Register, Begin, CreateOTLP, CreatePrometheus, Publish, Install, SetState,
                SetConfig, CtxEnd, Serve, Listen, Stop, Export, Shutdown
  <2>3. CASE UNCHANGED vars
    BY <2>3 DEF vars
  <2> QED
    BY <2>1, <2>2, <2>3 DEF Next
<1>4. ~overlap => state < g
  <2>1. state \in 0..N /\ g \in 1..N
    BY DEF IInv, TypeOK, Gateways
  <2>2. state # 0 => pc[state] \in Built
    BY DEF IInv, Owners
  <2>3. state # g
    BY <1>2, <2>2 DEF Built, Gateways
  <2>4. ~overlap => \A h \in Gateways : h > g => pc[h] = "new"
    BY <1>2 DEF IInv, Turns, Registering
  <2> QED
    BY <2>1, <2>2, <2>3, <2>4 DEF Built, Gateways
<1> QED
  BY <1>2, <1>3, <1>4 DEF Abstract!Replace

\* Building a layer is looking for what is in force, then taking the state.
LEMMA BuildHandsOver ==
    ASSUME IInv, ~Panicked, NEW l \in Layers, Build(l)
    PROVE  Abstract!Take(l) \/ \E c \in Gateways \cup {0} : Abstract!Look(l, c)
<1>1. UNCHANGED <<overlap, state>>
  BY DEF Build, registration
<1>2. CASE /\ layer[l].at = "new"
           /\ layer' = [layer EXCEPT ![l].config = config,
                                     ![l].at = IF config = 0 THEN "built" ELSE "config"]
  <2>1. config \in Gateways \cup {0}
    BY GatewaysAssumption DEF IInv, TypeOK, Gateways
  <2>2. config # 0 => state # 0
    BY DEF IInv, Owners
  <2>3. ~overlap => config <= state
    BY DEF IInv, Replaced
  <2> QED
    BY <1>1, <1>2, <2>1, <2>2, <2>3 DEF Abstract!Look
<1>3. CASE /\ layer[l].at = "config"
           /\ layer' = [layer EXCEPT ![l].state = state, ![l].at = "built"]
  BY <1>1, <1>3 DEF Abstract!Take
<1> QED
  BY <1>2, <1>3 DEF Build

\* Whatever fails, overlaps or panics, what the layers get to see of the globals is a
\* handover: register.go never lets a configuration be found before its state.
THEOREM RegistrationHandsOver == Spec => HandsOver
<1>1. Init => Abstract!Init
  BY DEF Init, Abstract!Init, Abstract!Unbuilt
<1>2. IInv /\ [Next]_vars => [Abstract!Next]_Abstract!vars
  <2> SUFFICES ASSUME IInv, [Next]_vars PROVE [Abstract!Next]_Abstract!vars
    OBVIOUS
  <2>1. CASE state' # state
    BY <2>1, StateReplaced DEF Abstract!Next
  <2>2. ASSUME NEW l \in Layers, Build(l), ~Panicked PROVE Abstract!Next
    BY <2>2, BuildHandsOver DEF Abstract!Next
  <2>3. ASSUME NEW l \in Layers, Record(l) PROVE UNCHANGED <<overlap, state, layer>>
    BY <2>3 DEF Record, registration
  <2>4. ASSUME NEW g \in Gateways,
               Register(g) \/ CtxEnd(g) \/ Serve(g) \/ Export(g) \/ Shutdown(g)
        PROVE  UNCHANGED <<overlap, layer>>
    BY <2>4 DEF Register, Begin, CreateOTLP, CreatePrometheus, Publish, Install, SetState,
                SetConfig, CtxEnd, Serve, Listen, Stop, Export, Shutdown
  <2>5. CASE UNCHANGED vars
    BY <2>5 DEF vars, registration, Abstract!vars
  <2> QED
    BY <2>1, <2>2, <2>3, <2>4, <2>5 DEF Next, Abstract!vars
<1> QED
  BY <1>1, <1>2, Invariant, PTL DEF Spec, HandsOver, Abstract!Spec

\* With registrations that take turns, what is in force belongs together between them.
THEOREM InForceIsOne == Spec => []InForceTogether
<1>1. IInv => InForceTogether
  BY DEF IInv, Replaced, InForceTogether, Registering
<1> QED
  BY Invariant, <1>1, PTL

\* Whatever the exporters of a configuration, none that is to report is left out.
THEOREM NoExporterIsLost == Spec => []EveryExporterReports
<1>1. IInv => EveryExporterReports
  <2> SUFFICES ASSUME IInv, NEW g \in Gateways, pc[g] \in Built, NEW i \in DOMAIN Exporters(g)
      PROVE  /\ Exporters(g)[i].metrics => i \in Reading(cfg[g])
             /\ Exporters(g)[i].otlp /\ Exporters(g)[i].traces => i \in Spanning(cfg[g])
    BY DEF EveryExporterReports
  <2>1. Exporters(g) \in Seq(Exporter)
    BY ConfigsAssumption DEF IInv, TypeOK, ConfigType, Exporters
  <2>2. \A j \in DOMAIN Exporters(g) : Exporters(g)[j].name = Exporters(g)[i].name => j <= i
    BY <2>1 DEF IInv, ProvidersOpen, Valid, Exporters
  <2> QED
    BY <2>2 DEF Reading, Spanning, Exporters
<1> QED
  BY Invariant, <1>1, PTL

\* No one but its gateway shuts a state down.
THEOREM ShutdownIsOwn == Spec => []OnlyOwnShutdown
<1>1. IInv => OnlyOwnShutdown
  BY DEF IInv, ProvidersOpen, OnlyOwnShutdown
<1> QED
  BY Invariant, <1>1, PTL

\* A shutdown within its context leaves nothing behind.
THEOREM ShutdownFlushes == Spec => []FlushedInTime
<1>1. IInv => FlushedInTime
  BY DEF IInv, ProvidersOpen, FlushedInTime
<1> QED
  BY Invariant, <1>1, PTL

-----------------------------------------------------------------------------
(* The servers of the Prometheus exporters: what their stopping rests on.  *)

\* Only an exporter that was created has a server, and one that serves, or is about to,
\* has the goroutine that waits for the context (prometheus.go).
ServersWatched ==
    \A g \in Gateways : \A i \in DOMAIN Exporters(g) :
        /\ made[g] < i => server[g][i] = NoServer
        /\ server[g][i].up \in {"starting", "listening"} => server[g][i].watched

\* A server that is down, or could not listen, stays down.
DownForGood ==
    [][\A g \in Gateways : \A i \in DOMAIN Exporters(g) :
           server[g][i].up = "down" => server'[g][i].up = "down"]_vars

\* What a step may do to the server of an exporter: leave it alone, create it, let it
\* listen, or stop it.
Changes(g, i) ==
    \/ server'[g][i] = server[g][i] /\ made'[g] \in {made[g], made[g] + 1}
    \/ /\ i = made[g] + 1 /\ made'[g] = i
       /\ server'[g][i] = [up |-> "starting", watched |-> TRUE]
    \/ /\ server[g][i].up = "starting" /\ made'[g] = made[g]
       /\ server'[g][i].up \in {"listening", "down"}
       /\ server'[g][i].watched = server[g][i].watched
    \/ /\ server[g][i].watched /\ made'[g] = made[g]
       /\ server'[g][i] = [up |-> "down", watched |-> FALSE]

LEMMA CfgKept == ASSUME [Next]_vars PROVE UNCHANGED cfg
<1>1. ASSUME NEW g \in Gateways,
             Register(g) \/ CtxEnd(g) \/ Serve(g) \/ Export(g) \/ Shutdown(g)
      PROVE  UNCHANGED cfg
  BY <1>1 DEF Register, Begin, CreateOTLP, CreatePrometheus, Publish, Install, SetState,
              SetConfig, CtxEnd, Serve, Listen, Stop, Export, Shutdown, registration
<1>2. ASSUME NEW l \in Layers, Build(l) \/ Record(l) PROVE UNCHANGED cfg
  BY <1>2 DEF Build, Record, registration
<1>3. CASE UNCHANGED vars
  BY <1>3 DEF vars, registration
<1> QED
  BY <1>1, <1>2, <1>3 DEF Next

LEMMA StepOfServers ==
    ASSUME TypeOK, [Next]_vars, NEW g \in Gateways, NEW i \in DOMAIN Exporters(g)
    PROVE  made[g] \in Nat /\ i \in Nat /\ Changes(g, i)
<1>0. /\ made \in [Gateways -> Nat] /\ DOMAIN server = Gateways
      /\ \A h \in Gateways : server[h] \in [DOMAIN Exporters(h) -> ServerType]
      /\ Exporters(g) \in Seq(Exporter)
  BY ConfigsAssumption DEF TypeOK, ServerType, ConfigType, Exporters
<1>1. made[g] \in Nat /\ i \in Nat
  BY <1>0
<1>2. ASSUME UNCHANGED <<made, server>> PROVE Changes(g, i)
  BY <1>2 DEF Changes
<1>3. ASSUME NEW h \in Gateways, Begin(h) \/ Publish(h) \/ Install(h) \/ CtxEnd(h) \/ Export(h)
                                 \/ Shutdown(h)
      PROVE  UNCHANGED <<made, server>>
  BY <1>3 DEF Begin, Publish, Install, SetState, SetConfig, CtxEnd, Export, Shutdown, registration
<1>4. ASSUME NEW h \in Gateways, CreateOTLP(h) PROVE Changes(g, i)
  BY <1>0, <1>4 DEF CreateOTLP, Changes
<1>5. ASSUME NEW h \in Gateways, CreatePrometheus(h) PROVE Changes(g, i)
  <2>1. CASE UNCHANGED <<made, server>>
    BY <1>2, <2>1
  <2>2. CASE /\ made' = [made EXCEPT ![h] = @ + 1]
             /\ server' = [server EXCEPT ![h][Upcoming(h)] = [up |-> "starting", watched |-> TRUE]]
    <3>1. CASE h = g /\ i = made[g] + 1
      BY <1>0, <2>2, <3>1 DEF Upcoming, Changes
    <3>2. CASE ~(h = g /\ i = made[g] + 1)
      <4>1. server'[g][i] = server[g][i]
        BY <1>0, <2>2, <3>2 DEF Upcoming
      <4>2. made'[g] \in {made[g], made[g] + 1}
        BY <1>0, <2>2
      <4> QED
        BY <4>1, <4>2 DEF Changes
    <3> QED
      BY <3>1, <3>2
  <2> QED
    BY <1>5, <2>1, <2>2 DEF CreatePrometheus
<1>6. ASSUME NEW h \in Gateways, NEW j \in DOMAIN Exporters(h), Listen(h, j)
      PROVE  Changes(g, i)
  <2>1. PICK up \in {"listening", "down"} : server' = [server EXCEPT ![h][j].up = up]
    BY <1>6 DEF Listen
  <2>2. server[h][j] \in ServerType /\ server[h][j].up = "starting" /\ UNCHANGED made
    BY <1>0, <1>6 DEF Listen, registration
  <2>3. CASE h = g /\ j = i
    BY <1>0, <2>1, <2>2, <2>3 DEF ServerType, Changes
  <2>4. CASE ~(h = g /\ j = i)
    BY <1>0, <2>1, <2>2, <2>4 DEF Changes
  <2> QED
    BY <2>3, <2>4
<1>7. ASSUME NEW h \in Gateways, NEW j \in DOMAIN Exporters(h), Stop(h, j)
      PROVE  Changes(g, i)
  <2>1. /\ server' = [server EXCEPT ![h][j] = [up |-> "down", watched |-> FALSE]]
        /\ server[h][j].watched /\ UNCHANGED made
    BY <1>7 DEF Stop, registration
  <2>2. CASE h = g /\ j = i
    BY <1>0, <2>1, <2>2 DEF Changes
  <2>3. CASE ~(h = g /\ j = i)
    BY <1>0, <2>1, <2>3 DEF Changes
  <2> QED
    BY <2>2, <2>3
<1>8. ASSUME NEW l \in Layers, Build(l) \/ Record(l) PROVE UNCHANGED <<made, server>>
  BY <1>8 DEF Build, Record, registration
<1>9. CASE UNCHANGED vars
  BY <1>1, <1>2, <1>9 DEF vars, registration
<1>10. CASE Next
  BY <1>1, <1>2, <1>3, <1>4, <1>5, <1>6, <1>7, <1>8, <1>10 DEF Next, Register, Serve
<1> QED
  BY <1>1, <1>9, <1>10

\* The steps of the servers keep them watched.
LEMMA WatchedStep == ASSUME TypeOK, ServersWatched, [Next]_vars PROVE ServersWatched'
<1> SUFFICES ASSUME NEW g \in Gateways, NEW i \in DOMAIN Exporters(g)'
             PROVE  /\ made'[g] < i => server'[g][i] = NoServer
                    /\ server'[g][i].up \in {"starting", "listening"} => server'[g][i].watched
  BY DEF ServersWatched
<1>1. Exporters(g)' = Exporters(g)
  BY CfgKept DEF Exporters
<1>2. i \in DOMAIN Exporters(g)
  BY <1>1
<1>3. /\ made[g] < i => server[g][i] = NoServer
      /\ server[g][i].up \in {"starting", "listening"} => server[g][i].watched
  BY <1>2 DEF ServersWatched
<1> QED
  BY <1>2, <1>3, StepOfServers DEF NoServer, Changes

LEMMA InitWatched == Init => ServersWatched
BY DEF Init, ServersWatched, NoServer, Exporters

\* Also of a registration that failed half-way, or that was replaced: every server that
\* is up is one the end of the context stops (the safety half of ServersStop).
THEOREM ServersAreWatched == Spec => []ServersWatched
BY TypeCorrect, InitWatched, WatchedStep, PTL DEF Spec

\* No step of any gateway brings a server back: a reload makes another one.
THEOREM ServersStayDown == Spec => DownForGood
<1>1. TypeOK /\ ServersWatched /\ [Next]_vars =>
          [\A g \in Gateways : \A i \in DOMAIN Exporters(g) :
               server[g][i].up = "down" => server'[g][i].up = "down"]_vars
  <2> SUFFICES ASSUME TypeOK, ServersWatched, [Next]_vars,
                      NEW g \in Gateways, NEW i \in DOMAIN Exporters(g), server[g][i].up = "down"
               PROVE  server'[g][i].up = "down"
    OBVIOUS
  <2>1. server[g][i] # NoServer
    BY DEF NoServer
  <2>2. ~(made[g] < i)
    BY <2>1 DEF ServersWatched
  <2> QED
    BY <2>2, StepOfServers DEF Changes
<1> QED
  BY <1>1, TypeCorrect, ServersAreWatched, PTL DEF Spec, DownForGood
=============================================================================

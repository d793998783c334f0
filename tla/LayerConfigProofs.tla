-------------------------- MODULE LayerConfigProofs -------------------------
(***************************************************************************)
(* What the layers make of any options, whatever the parts that are set.   *)
(***************************************************************************)
EXTENDS LayerConfig, TLAPS

\* A pointer has one element at most.
Single(S) == \A a, b \in S : a = b

TypeOK ==
    /\ given \in Options /\ override \in Options
    /\ layers \in [pipe : SUBSET PipeOpts, backend : SUBSET [Kinds -> SUBSET Part]]
    /\ Single(layers.pipe) /\ Single(layers.backend)
    /\ \A o \in layers.backend : \A k \in Kinds : Single(o[k])
    /\ skip \subseteq Endpoints /\ endpoint \in Endpoints
    /\ pc \in {"config", "client", "stage", "pipe", "panic", "built"}
    /\ got \subseteq ({"proxy"} \cup BackendReports) \X Kinds

\* The defaults have been put in.
Defaulted ==
    /\ pc = "config" => layers = given
    /\ pc # "config" =>
        /\ layers.pipe # {} /\ layers.backend # {}
        /\ given.pipe = {} => layers.pipe = {[k \in Kinds |-> TRUE]}
        /\ \A o \in layers.backend : \A k \in Kinds :
              /\ o[k] # {}
              /\ (\A g \in given.backend : g[k] = {}) => o[k] = {Whole}

\* Who has reported so far.
Reporters ==
    /\ Skipped /\ pc # "config" => got = {} /\ pc # "panic"
    /\ pc = "config" => got = {}
    /\ pc = "client" => got = {}
    /\ pc = "stage" => got \subseteq ClientReports \X Kinds
    /\ pc \in {"pipe", "panic"} => got \subseteq BackendReports \X Kinds

\* What the client and the stage have made of the options.
ClientMade(o) ==
    \A x \in ClientReports, k \in Kinds :
        <<x, k>> \in got <=> AnyEnabled(o) /\ \A p \in Completed(o)[k] : x \in Transported(p)
StageMade(o) ==
    /\ \A k \in Kinds : <<"backend", k>> \in got <=> StageOn(o[k])
    /\ (\E k \in Kinds : StageOn(o[k])) => o["traces"] # {}

Made ==
    /\ ~Skipped /\ pc \in {"stage", "pipe", "panic", "built"} =>
           \A o \in BackendInForce : ClientMade(o)
    /\ ~Skipped /\ pc \in {"pipe", "built"} => \A o \in BackendInForce : StageMade(o)
    /\ pc = "panic" => \A o \in BackendInForce : o["traces"] = {}
    /\ ~Skipped /\ pc = "built" => \A o \in PipeInForce, k \in Kinds : o[k] <=> <<"proxy", k>> \in got

IInv == TypeOK /\ Defaulted /\ Reporters /\ Made

-----------------------------------------------------------------------------
LEMMA WholeIsPart == Whole \in Part
BY DEF Whole, Part

LEMMA PartFacts == \A p \in Part : /\ p.stage \in BOOLEAN /\ p.roundTrip \in BOOLEAN
                                   /\ p.payload \in BOOLEAN /\ p.details \in BOOLEAN
BY DEF Part

LEMMA OptionsFacts ==
    ASSUME NEW o \in Options
    PROVE  /\ o.pipe \in SUBSET PipeOpts /\ Single(o.pipe)
           /\ o.backend \in SUBSET [Kinds -> SUBSET Part] /\ Single(o.backend)
           /\ \A b \in o.backend : \A k \in Kinds : Single(b[k])
<1>1. o.pipe \in Optional(PipeOpts) /\ o.backend \in Optional(BackendOpts)
  BY DEF Options
<1>2. \A S : \A T \in Optional(S) : T \subseteq S /\ Single(T)
  BY DEF Optional, Single
<1>3. Parts \subseteq Part
  BY PartsAssumption
<1>4. \A b \in BackendOpts : b \in [Kinds -> SUBSET Part] /\ \A k \in Kinds : Single(b[k])
  BY <1>2, <1>3 DEF BackendOpts
<1> QED BY <1>1, <1>2, <1>4

\* Completing options keeps the parts they have.
LEMMA CompletedFacts ==
    ASSUME NEW o \in [Kinds -> SUBSET Part], \A k \in Kinds : Single(o[k])
    PROVE  /\ Completed(o) \in [Kinds -> SUBSET Part]
           /\ \A k \in Kinds : /\ Single(Completed(o)[k]) /\ Completed(o)[k] # {}
                               /\ o[k] # {} => Completed(o)[k] = o[k]
                               /\ o[k] = {} => Completed(o)[k] = {Whole}
BY WholeIsPart DEF Completed, Or, Single

LEMMA CompletedIsItself ==
    ASSUME NEW o \in [Kinds -> SUBSET Part], \A k \in Kinds : o[k] # {}
    PROVE  Completed(o) = o
BY DEF Completed, Or

-----------------------------------------------------------------------------
LEMMA InitIInv == Init => IInv
<1> SUFFICES ASSUME Init PROVE IInv
  OBVIOUS
<1> USE DEF Init
<1>1. TypeOK
  <2>1. layers \in [pipe : SUBSET PipeOpts, backend : SUBSET [Kinds -> SUBSET Part]]
    <3>1. layers = [pipe |-> layers.pipe, backend |-> layers.backend]
      BY DEF Options
    <3> QED BY <3>1, OptionsFacts
  <2> QED BY <2>1, OptionsFacts DEF TypeOK
<1>2. Defaulted /\ Reporters /\ Made
  BY DEF Defaulted, Reporters, Made
<1> QED BY <1>1, <1>2 DEF IInv

\* Nothing of the options in force depends on the step but through layers.
LEMMA DefaultsIInv == IInv /\ Defaults => IInv'
<1> SUFFICES ASSUME IInv, Defaults PROVE IInv'
  OBVIOUS
<1> DEFINE S == Or(layers.backend, [k \in Kinds |-> {}])
<1>0. TypeOK /\ got = {}
  BY DEF IInv, Reporters, Defaults
<1>1. /\ pc' = "client" /\ got' = {}
      /\ UNCHANGED <<given, override, endpoint>>
      /\ skip' = IF skip = {} THEN {Health} ELSE skip
      /\ layers' = [pipe    |-> Or(layers.pipe, [k \in Kinds |-> TRUE]),
                    backend |-> {Completed(o) : o \in S}]
  BY <1>0 DEF Defaults, WithDefaults
<1>2. S \subseteq [Kinds -> SUBSET Part] /\ S # {} /\ Single(S)
      /\ \A o \in S, k \in Kinds : Single(o[k])
  BY <1>0 DEF TypeOK, Or, Single
<1>3. \A o \in S, k \in Kinds :
          /\ Completed(o) \in [Kinds -> SUBSET Part]
          /\ Single(Completed(o)[k]) /\ Completed(o)[k] # {}
          /\ o[k] = {} => Completed(o)[k] = {Whole}
  BY <1>2, CompletedFacts
<1>4. TypeOK'
  <2>1. Single(layers'.pipe) /\ Single(layers'.backend) /\ layers'.pipe \subseteq PipeOpts
    <3>1. layers'.pipe = Or(layers.pipe, [k \in Kinds |-> TRUE])
      BY <1>1
    <3>2. layers'.backend = {Completed(o) : o \in S}
      BY <1>1
    <3>3. Single(layers.pipe) /\ layers.pipe \subseteq PipeOpts
      BY <1>0 DEF TypeOK
    <3>4. Single(layers'.pipe) /\ layers'.pipe \subseteq PipeOpts
      BY <3>1, <3>3 DEF Or, Single, PipeOpts
    <3>5. Single(layers'.backend)
      BY <3>2, <1>2 DEF Single
    <3> QED BY <3>4, <3>5
  <2>2. layers'.backend \subseteq [Kinds -> SUBSET Part]
        /\ \A o \in layers'.backend : \A k \in Kinds : Single(o[k])
    BY <1>1, <1>2, <1>3 DEF Kinds
  <2>3. skip' \subseteq Endpoints
    BY <1>0, <1>1, PartsAssumption DEF TypeOK
  <2>4. layers' \in [pipe : SUBSET PipeOpts, backend : SUBSET [Kinds -> SUBSET Part]]
    BY <1>1, <2>1, <2>2
  <2> QED BY <1>0, <1>1, <2>1, <2>2, <2>3, <2>4 DEF TypeOK
<1>5. layers = given /\ layers'.pipe # {} /\ layers'.backend # {}
      /\ (given.pipe = {} => layers'.pipe = {[k \in Kinds |-> TRUE]})
  <2>1. layers = given
    BY DEF IInv, Defaulted, Defaults
  <2> QED BY <2>1, <1>1, <1>2 DEF Or
<1>6. ASSUME NEW o \in S, NEW k \in Kinds, \A g \in given.backend : g[k] = {}
      PROVE  Completed(o)[k] = {Whole}
  BY <1>3, <1>5, <1>6 DEF Or
<1>7. Defaulted'
  <2>1. \A o \in layers'.backend : \E b \in S : o = Completed(b)
    BY <1>1
  <2>2. \A o \in layers'.backend : \A k \in Kinds : o[k] # {}
    BY <2>1, <1>3
  <2>3. \A o \in layers'.backend : \A k \in Kinds :
            (\A g \in given.backend : g[k] = {}) => o[k] = {Whole}
    BY <2>1, <1>6
  <2> QED BY <1>1, <1>5, <2>2, <2>3 DEF Defaulted
<1>8. Reporters' /\ Made'
  BY <1>1 DEF Reporters, Made
<1> QED BY <1>4, <1>7, <1>8 DEF IInv

\* The options in force have one value, of the right type; those of the service are whole.
LEMMA ForceFacts ==
    ASSUME TypeOK
    PROVE  /\ BackendInForce \subseteq [Kinds -> SUBSET Part] /\ Single(BackendInForce)
           /\ \A o \in BackendInForce : \A k \in Kinds : Single(o[k])
           /\ PipeInForce \subseteq PipeOpts /\ Single(PipeInForce)
<1>1. layers.pipe \subseteq PipeOpts /\ layers.backend \subseteq [Kinds -> SUBSET Part]
  BY DEF TypeOK
<1>2. override \in Options
  BY DEF TypeOK
<1> QED BY <1>1, <1>2, OptionsFacts DEF TypeOK, BackendInForce, PipeInForce

\* The client's own defaults change nothing: the service's options are whole by then.
LEMMA ClientKeepsLayers ==
    ASSUME IInv, ClientFactory
    PROVE  layers' = layers
<1>1. TypeOK /\ pc = "client"
  BY DEF IInv, ClientFactory
<1>2. CASE override.backend # {}
  BY <1>2 DEF ClientFactory
<1>3. CASE override.backend = {}
  <2>1. BackendInForce = layers.backend
    BY <1>3 DEF BackendInForce
  <2>2. \A o \in layers.backend : Completed(o) = o
    BY <1>1, CompletedIsItself DEF IInv, Defaulted, TypeOK
  <2>3. \A o \in layers.backend : layers.backend = {o}
    BY <1>1 DEF TypeOK, Single
  <2>4. \A o \in layers.backend : [layers EXCEPT !.backend = {o}] = layers
    BY <1>1, <2>3 DEF TypeOK
  <2> QED BY <1>3, <2>1, <2>2, <2>3, <2>4 DEF ClientFactory
<1> QED BY <1>2, <1>3

LEMMA ClientIInv == IInv /\ ClientFactory => IInv'
<1> SUFFICES ASSUME IInv, ClientFactory PROVE IInv'
  OBVIOUS
<1>1. TypeOK /\ got = {} /\ pc = "client"
  BY DEF IInv, Reporters, ClientFactory
<1>2. pc' = "stage" /\ UNCHANGED <<given, paths, override, endpoint, skip, layers>>
  BY ClientKeepsLayers DEF ClientFactory
<1>3. PICK o \in BackendInForce :
          IF Skipped \/ ~AnyEnabled(o) THEN got' = got
          ELSE got' = got \cup {r \in ClientReports \X Kinds :
                                   \A p \in Completed(o)[r[2]] : r[1] \in Transported(p)}
  BY DEF ClientFactory
<1>4. got' \subseteq ClientReports \X Kinds
  BY <1>1, <1>3
<1>5. BackendInForce' = BackendInForce /\ PipeInForce' = PipeInForce /\ Skipped' = Skipped
  BY <1>2 DEF BackendInForce, PipeInForce, Skipped
<1>6. TypeOK'
  BY <1>1, <1>2, <1>4 DEF TypeOK, BackendReports
<1>7. Defaulted'
  BY <1>1, <1>2 DEF IInv, Defaulted
<1>8. Reporters'
  BY <1>1, <1>2, <1>3, <1>4, <1>5 DEF Reporters
<1>9. ~Skipped => ClientMade(o)'
  BY <1>1, <1>3 DEF ClientMade
<1>10. Made'
  BY <1>1, <1>2, <1>5, <1>9, ForceFacts DEF Made, Single
<1> QED BY <1>6, <1>7, <1>8, <1>10 DEF IInv

LEMMA BackendIInv == IInv /\ BackendFactory => IInv'
<1> SUFFICES ASSUME IInv, BackendFactory PROVE IInv'
  OBVIOUS
<1> DEFINE On(o) == {k \in Kinds : StageOn(o[k])}
<1>1. TypeOK /\ got \subseteq ClientReports \X Kinds /\ pc = "stage"
  BY DEF IInv, Reporters, BackendFactory
<1>2. UNCHANGED <<given, paths, override, endpoint, skip, layers>>
  BY DEF BackendFactory
<1>3. PICK o \in BackendInForce :
          \/ (Skipped \/ On(o) = {}) /\ pc' = "pipe" /\ got' = got
          \/ ~Skipped /\ On(o) # {} /\ o["traces"] = {} /\ pc' = "panic" /\ got' = got
          \/ ~Skipped /\ On(o) # {} /\ o["traces"] # {} /\ pc' = "pipe"
             /\ got' = got \cup {"backend"} \X On(o)
  BY DEF BackendFactory
<1>5. BackendInForce' = BackendInForce /\ PipeInForce' = PipeInForce /\ Skipped' = Skipped
  BY <1>2 DEF BackendInForce, PipeInForce, Skipped
<1>6. got' \subseteq BackendReports \X Kinds /\ pc' \in {"pipe", "panic"}
  BY <1>1, <1>3 DEF BackendReports
<1>7. TypeOK'
  BY <1>1, <1>2, <1>6 DEF TypeOK
<1>8. Defaulted'
  BY <1>1, <1>2, <1>6 DEF IInv, Defaulted
<1>9. Reporters'
  BY <1>1, <1>2, <1>3, <1>5, <1>6 DEF IInv, Reporters
<1>10. \A x \in ClientReports, k \in Kinds : <<x, k>> \in got' <=> <<x, k>> \in got
  BY <1>3 DEF ClientReports
<1>11. ~Skipped => ClientMade(o)'
  BY <1>1, <1>10 DEF IInv, Made, ClientMade
<1>12. ~Skipped /\ pc' = "pipe" => StageMade(o)'
  <2>1. \A k \in Kinds : <<"backend", k>> \notin got
    BY <1>1 DEF ClientReports
  <2> QED BY <1>3, <2>1 DEF StageMade
<1>13. Made'
  BY <1>1, <1>2, <1>3, <1>5, <1>6, <1>11, <1>12, ForceFacts DEF Made, Single
<1> QED BY <1>7, <1>8, <1>9, <1>13 DEF IInv

LEMMA ProxyIInv == IInv /\ ProxyFactory => IInv'
<1> SUFFICES ASSUME IInv, ProxyFactory PROVE IInv'
  OBVIOUS
<1>1. TypeOK /\ got \subseteq BackendReports \X Kinds /\ pc = "pipe" /\ pc' = "built"
  BY DEF IInv, Reporters, ProxyFactory
<1>2. UNCHANGED <<given, paths, override, endpoint, skip, layers>>
  BY DEF ProxyFactory
<1>3. PICK o \in PipeInForce :
          got' = IF Skipped THEN got ELSE got \cup {"proxy"} \X {k \in Kinds : o[k]}
  BY DEF ProxyFactory
<1>5. BackendInForce' = BackendInForce /\ PipeInForce' = PipeInForce /\ Skipped' = Skipped
  BY <1>2 DEF BackendInForce, PipeInForce, Skipped
<1>7. TypeOK'
  BY <1>1, <1>2, <1>3 DEF TypeOK
<1>8. Defaulted'
  BY <1>1, <1>2 DEF IInv, Defaulted
<1>9. Reporters'
  BY <1>1, <1>2, <1>3, <1>5 DEF IInv, Reporters
<1>10. \A x \in BackendReports, k \in Kinds : <<x, k>> \in got' <=> <<x, k>> \in got
  BY <1>3 DEF BackendReports, ClientReports
<1>11. ~Skipped => \A b \in BackendInForce : ClientMade(b)' /\ StageMade(b)'
  BY <1>1, <1>10 DEF IInv, Made, ClientMade, StageMade, BackendReports
<1>12. ~Skipped => \A k \in Kinds : o[k] <=> <<"proxy", k>> \in got'
  <2>1. \A k \in Kinds : <<"proxy", k>> \notin got
    BY <1>1 DEF BackendReports, ClientReports
  <2>2. \A k \in Kinds : <<"proxy", k>> \in {"proxy"} \X {j \in Kinds : o[j]} <=> o[k]
    OBVIOUS
  <2> QED BY <1>3, <2>1, <2>2
<1>13. Made'
  BY <1>1, <1>5, <1>11, <1>12, ForceFacts DEF Made, Single
<1> QED BY <1>7, <1>8, <1>9, <1>13 DEF IInv

LEMMA NextIInv == IInv /\ [Next]_vars => IInv'
<1>1. ASSUME IInv, UNCHANGED vars PROVE IInv'
  BY <1>1 DEF vars, IInv, TypeOK, Defaulted, Reporters, Made, ClientMade, StageMade,
              BackendInForce, PipeInForce, Skipped
<1> QED BY <1>1, DefaultsIInv, ClientIInv, BackendIInv, ProxyIInv DEF Next

\* The inductive invariant: what is built so far is what the options in force say.
THEOREM Invariant == Spec => []IInv
BY InitIInv, NextIInv, PTL DEF Spec

-----------------------------------------------------------------------------
\* Whatever the options of service, endpoint and backend, what a layer reports of a
\* kind is what the part in force for that kind says: BackendFactory, ProxyFactory and
\* InstrumentedHTTPClientFactory read the same options and never mix the two kinds.
THEOREM PartsAreObeyed == Spec => []PresentPartsObeyed
<1>1. IInv => PresentPartsObeyed
  <2> SUFFICES ASSUME IInv PROVE PresentPartsObeyed
    OBVIOUS
  <2>1. TypeOK /\ (Skipped => got = {} /\ pc # "panic")
    BY DEF IInv, Reporters
  <2>2. ASSUME pc = "built", ~Skipped, NEW o \in BackendInForce, NEW k \in Kinds, NEW p \in o[k]
        PROVE  /\ p.stage <=> <<"backend", k>> \in got
               /\ \A x \in ClientReports : x \in Transported(p) <=> <<x, k>> \in got
    <3>1. o[k] = {p} /\ Completed(o)[k] = o[k] /\ p \in Part
      BY <2>1, <2>2, ForceFacts, CompletedFacts DEF Single
    <3>2. ClientMade(o) /\ StageMade(o)
      BY <2>2 DEF IInv, Made
    <3>3. p.stage <=> <<"backend", k>> \in got
      BY <3>1, <3>2, PartFacts DEF StageMade, StageOn
    <3>4. \A x \in ClientReports : x \in Transported(p) => AnyEnabled(o)
      BY <3>1, PartFacts DEF Transported, AnyEnabled, Enabled, ClientReports
    <3> QED BY <3>1, <3>2, <3>3, <3>4 DEF ClientMade
  <2>3. pc = "built" /\ ~Skipped =>
            \A o \in PipeInForce, k \in Kinds : o[k] <=> <<"proxy", k>> \in got
    BY DEF IInv, Made
  <2> QED BY <2>1, <2>2, <2>3 DEF PresentPartsObeyed
<1> QED BY <1>1, Invariant, PTL

\* What the service leaves out is reported in full by UnsetFieldsToDefaults, and
\* what an override leaves out by the stage, for any options.
THEOREM MissingPartsAreOn == Spec => []MissingIsOn
<1>1. IInv => MissingIsOn
  <2> SUFFICES ASSUME IInv PROVE MissingIsOn
    OBVIOUS
  <2>1. TypeOK
    BY DEF IInv
  <2>2. pc = "panic" => override.backend # {}
    <3>1. pc = "panic" /\ override.backend = {} => \A o \in layers.backend : o["traces"] = {}
      BY DEF IInv, Made, BackendInForce
    <3>2. pc = "panic" => layers.backend # {} /\ \A o \in layers.backend : o["traces"] # {}
      BY DEF IInv, Defaulted, Kinds
    <3> QED BY <3>1, <3>2
  <2>3. \A x \in ClientReports : x \in Transported(Whole)
    BY DEF Transported, Whole, ClientReports
  <2>4. ASSUME pc = "built", ~Skipped, given.pipe = {}, override.pipe = {}
        PROVE  {"proxy"} \X Kinds \subseteq got
    <3>1. PipeInForce = {[k \in Kinds |-> TRUE]}
      BY <2>4 DEF IInv, Defaulted, PipeInForce
    <3> QED BY <2>4, <3>1 DEF IInv, Made
  <2>5. ASSUME pc = "built", ~Skipped, override.backend = {}, NEW k \in Kinds,
               \A o \in given.backend : o[k] = {}
        PROVE  BackendReports \X {k} \subseteq got
    <3>1. PICK o \in layers.backend : o[k] = {Whole}
      BY <2>5 DEF IInv, Defaulted
    <3>2. o \in BackendInForce
      BY <2>5, <3>1 DEF BackendInForce
    <3>3. ClientMade(o) /\ StageMade(o)
      BY <2>5, <3>2 DEF IInv, Made
    <3>4. AnyEnabled(o) /\ StageOn(o[k]) /\ Completed(o)[k] = {Whole}
      <4>1. Completed(o)[k] = {Whole}
        BY <2>1, <3>1, <3>2, ForceFacts, CompletedFacts
      <4>2. Whole.stage
        BY DEF Whole
      <4>3. AnyEnabled(o)
        BY <3>1, <4>2 DEF AnyEnabled, Enabled
      <4>4. StageOn(o[k])
        BY <3>1, <4>2 DEF StageOn
      <4> QED BY <4>1, <4>3, <4>4
    <3> QED BY <2>3, <3>3, <3>4 DEF ClientMade, StageMade, BackendReports
  <2>6. ASSUME pc = "built", ~Skipped, NEW o \in override.backend, NEW k \in Kinds, o[k] = {}
        PROVE  /\ k # "traces" /\ <<"backend", k>> \in got
               /\ Enabled(o["traces"]) => BackendReports \X {k} \subseteq got
    <3>1. o \in BackendInForce
      BY <2>6 DEF BackendInForce
    <3>2. ClientMade(o) /\ StageMade(o)
      BY <2>6, <3>1 DEF IInv, Made
    <3>3. StageOn(o[k])
      BY <2>6 DEF StageOn
    <3>4. <<"backend", k>> \in got /\ k # "traces"
      BY <2>6, <3>2, <3>3 DEF StageMade
    <3>5. Enabled(o["traces"]) => AnyEnabled(o)
      BY DEF AnyEnabled, Kinds
    <3>6. Completed(o)[k] = {Whole}
      BY <2>1, <2>6, <3>1, ForceFacts, CompletedFacts
    <3> QED BY <2>3, <3>2, <3>4, <3>5, <3>6 DEF ClientMade, BackendReports
  <2> QED BY <2>2, <2>4, <2>5, <2>6 DEF MissingIsOn
<1> QED BY <1>1, Invariant, PTL

\* Once the defaults are in, no factory changes the options of the service, whatever the
\* options, the overrides and the endpoint: the defaults the client's factory writes into
\* them find nothing missing (backend.go).
THEOREM ServiceOptionsAreKept == Spec => ServiceOptionsKept
<1>1. IInv /\ [Next]_vars => [pc # "config" => UNCHANGED layers]_vars
  <2> SUFFICES ASSUME IInv, [Next]_vars, pc # "config" PROVE UNCHANGED layers
    OBVIOUS
  <2>1. CASE ClientFactory
    BY <2>1, ClientKeepsLayers
  <2>2. CASE Defaults \/ BackendFactory \/ ProxyFactory \/ UNCHANGED vars
    BY <2>2 DEF Defaults, BackendFactory, ProxyFactory, vars
  <2> QED BY <2>1, <2>2 DEF Next
<1> QED BY <1>1, Invariant, PTL DEF Spec, ServiceOptionsKept

\* The second call of UnsetFieldsToDefaults, in NewConfig, finds nothing missing: one
\* step stands for both.
THEOREM DefaultsOnce ==
    ASSUME NEW l \in Options
    PROVE  WithDefaults(WithDefaults(l)) = WithDefaults(l)
<1> DEFINE S == Or(l.backend, [k \in Kinds |-> {}])
           D == WithDefaults(l)
<1>1. D.pipe = Or(l.pipe, [k \in Kinds |-> TRUE]) /\ D.backend = {Completed(o) : o \in S}
      /\ D = [pipe |-> D.pipe, backend |-> D.backend]
  BY DEF WithDefaults
<1>2. S \subseteq [Kinds -> SUBSET Part] /\ S # {} /\ \A o \in S, k \in Kinds : Single(o[k])
  BY OptionsFacts DEF Or, Single
<1>3. \A o \in D.backend : Completed(o) = o
  <2> SUFFICES ASSUME NEW o \in S PROVE Completed(Completed(o)) = Completed(o)
    BY <1>1
  <2>1. Completed(o) \in [Kinds -> SUBSET Part] /\ \A k \in Kinds : Completed(o)[k] # {}
    BY <1>2, CompletedFacts
  <2> QED BY <2>1, CompletedIsItself
<1>4. D.pipe # {} /\ D.backend # {}
  BY <1>1, <1>2 DEF Or
<1> HIDE DEF D, S
<1>5. Or(D.pipe, [k \in Kinds |-> TRUE]) = D.pipe /\ Or(D.backend, [k \in Kinds |-> {}]) = D.backend
  BY <1>4 DEF Or
<1>6. {Completed(o) : o \in D.backend} = D.backend
  BY <1>3
<1>7. WithDefaults(D) = D
  BY <1>1, <1>5, <1>6 DEF WithDefaults
<1> QED BY <1>7 DEF D
=============================================================================

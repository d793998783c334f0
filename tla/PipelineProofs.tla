--------------------------- MODULE PipelineProofs ---------------------------
(***************************************************************************)
(* Proofs about Pipeline, for any number of calls.  What a stage was built *)
(* with is settled before anything enters it, its result before it is told *)
(* to the metric, and its metric before its span: IInv says so.            *)
(***************************************************************************)
EXTENDS Pipeline, TLAPS

\* The backends are built before the proxy, and the proxy before any request.
Building(s) ==
    /\ build[Proxy] # "no" => s = Proxy \/ build[s] = "done"
    /\ pc[s] # "idle" => build[Proxy] # "no" /\ pc[Proxy] # "idle"
    /\ skip => build[s] # "panic" /\ layer[s] = Bare

\* A context ends no later than the one it derives from.
Contexts(s) ==
    /\ ctx[Proxy] # "live" => ctx[s] # "live"
    /\ result[s].gone => ctx[Proxy] = "canceled"

\* The span is where the request is.
Spans(s) ==
    /\ span[s] # "none" <=> pc[s] # "idle" /\ Traces(s)
    /\ span[s] = "ended" => pc[s] = "done"

\* What was told of a result is what the result says.
Told(s) ==
    /\ result[s].multi => s = Proxy /\ Failed(s)
    /\ span[s] = "ended" =>
          told[s] = IF ~Failed(s) THEN "ok" ELSE IF IsCanceled(s) THEN "canceled" ELSE "error"

\* What the metric says, whose context may have ended since the result.
Measured(s) ==
    metric[s].recorded =>
        /\ pc[s] \in {"end", "done"} /\ Metrics(s)
        /\ Failed(s) <=> metric[s].error \/ metric[s].canceled
        /\ IsCanceled(s) => metric[s].canceled /\ ~metric[s].error
        /\ result[s].multi => (metric[s].error <=> "failed" \in result[s].causes)
        /\ ~result[s].multi => ~(metric[s].error /\ metric[s].canceled)
        /\ Failed(s) /\ result[s].gone /\ ctx[s] # "deadline" => metric[s].canceled

StageInv(s) == Building(s) /\ Contexts(s) /\ Spans(s) /\ Told(s) /\ Measured(s)

IInv == TypeOK /\ \A s \in Stages : StageInv(s)

-----------------------------------------------------------------------------
(* Types.                                                                  *)

LEMMA BareType == Bare \in [metrics : BOOLEAN, traces : BOOLEAN]
BY DEF Bare

LEMMA LayerType ==
    ASSUME NEW s \in Stages, NEW o \in Options(s)
    PROVE  LayerOf(o) \in [metrics : BOOLEAN, traces : BOOLEAN]
BY DEF LayerOf, Options

LEMMA TypeInit == Init => TypeOK
<1> SUFFICES ASSUME Init PROVE TypeOK  OBVIOUS
<1>1. NoError \in Result  BY DEF NoError, Result
<1> QED  BY <1>1, BareType DEF Init, TypeOK

LEMMA TypeStep == TypeOK /\ [Next]_vars => TypeOK'
<1> SUFFICES ASSUME TypeOK, [Next]_vars PROVE TypeOK'  OBVIOUS
<1> USE DEF TypeOK
<1>1. ASSUME NEW c \in Calls, BuildBackend(c) PROVE TypeOK'
  <2>1. c \in Stages  BY DEF Stages
  <2>2. PICK o \in Options(c) :
           layer' = [layer EXCEPT ![c] =
                       IF skip \/ (~skip /\ BackendPanics(o)) THEN Bare ELSE LayerOf(o)]
    BY <1>1 DEF BuildBackend
  <2>3. LayerOf(o) \in [metrics : BOOLEAN, traces : BOOLEAN]  BY <2>1, LayerType
  <2>4. layer' \in [Stages -> [metrics : BOOLEAN, traces : BOOLEAN]]
    BY <2>2, <2>3, BareType
  <2>5. \/ build' = [build EXCEPT ![c] = "panic"]
        \/ build' = [build EXCEPT ![c] = "done"]
    BY <1>1 DEF BuildBackend
  <2> QED  BY <1>1, <2>4, <2>5 DEF BuildBackend
<1>2. CASE BuildProxy
  <2>1. Proxy \in Stages  BY DEF Stages
  <2>2. PICK o \in Options(Proxy) :
           layer' = [layer EXCEPT ![Proxy] = IF skip THEN Bare ELSE LayerOf(o)]
    BY <1>2 DEF BuildProxy
  <2>3. LayerOf(o) \in [metrics : BOOLEAN, traces : BOOLEAN]  BY <2>1, LayerType
  <2>4. layer' \in [Stages -> [metrics : BOOLEAN, traces : BOOLEAN]]
    BY <2>2, <2>3, BareType
  <2> QED  BY <1>2, <2>4 DEF BuildProxy
<1>3. ASSUME NEW s \in Stages, CtxEnd(s) PROVE TypeOK'
  <2>1. ctx' \in [Stages -> {"live", "canceled", "deadline"}]  BY <1>3 DEF CtxEnd
  <2> QED  BY <1>3, <2>1 DEF CtxEnd, config
<1>4. ASSUME NEW s \in Stages, Enter(s) PROVE TypeOK'
  <2>1. pc' \in [Stages -> {"idle", "running", "report", "end", "done"}]
    BY <1>4 DEF Enter, Goto
  <2>2. span' \in [Stages -> {"none", "live", "ended"}]
    BY <1>4 DEF Enter
  <2>3. UNCHANGED <<config, ctx, result, told, metric>>  BY <1>4 DEF Enter
  <2> QED  BY <2>1, <2>2, <2>3 DEF config
<1>5. ASSUME NEW s \in Stages, NextReturns(s) PROVE TypeOK'
  <2>1. PICK multi \in BOOLEAN, causes \in SUBSET Causes :
           result' = [result EXCEPT ![s] = [multi |-> multi, causes |-> causes,
                                            gone |-> ctx[Proxy] = "canceled"]]
    BY <1>5 DEF NextReturns
  <2>2. [multi |-> multi, causes |-> causes, gone |-> ctx[Proxy] = "canceled"] \in Result
    BY DEF Result
  <2>3. result' \in [Stages -> Result]  BY <2>1, <2>2
  <2> QED  BY <1>5, <2>3 DEF NextReturns, Goto, config
<1>6. ASSUME NEW s \in Stages, Report(s) PROVE TypeOK'
  <2>1. /\ ErrorMetric(s) \in BOOLEAN
        /\ CanceledMetric(s) \in BOOLEAN
    BY DEF ErrorMetric, CanceledMetric
  <2>2. [recorded |-> TRUE, error |-> ErrorMetric(s), canceled |-> CanceledMetric(s)]
           \in [recorded : {TRUE}, error : BOOLEAN, canceled : BOOLEAN]
    BY <2>1
  <2>3. metric' \in [Stages -> {NoMetric} \cup
                       [recorded : {TRUE}, error : BOOLEAN, canceled : BOOLEAN]]
    BY <1>6, <2>2 DEF Report
  <2> QED  BY <1>6, <2>3 DEF Report, Goto, config
<1>7. ASSUME NEW s \in Stages, End(s) PROVE TypeOK'
  <2>1. pc' \in [Stages -> {"idle", "running", "report", "end", "done"}]
    BY <1>7 DEF End, Goto
  <2>2. span' \in [Stages -> {"none", "live", "ended"}]
    BY <1>7 DEF End
  <2>3. told' \in [Stages -> {"nothing", "ok", "canceled", "error"}]
    BY <1>7 DEF End
  <2>4. UNCHANGED <<config, ctx, result, metric>>  BY <1>7 DEF End
  <2> QED  BY <2>1, <2>2, <2>3, <2>4 DEF config
<1>8. CASE UNCHANGED vars  BY <1>8 DEF vars, config
<1> QED  BY <1>1, <1>2, <1>3, <1>4, <1>5, <1>6, <1>7, <1>8 DEF Next

\* The stages keep their types.
THEOREM TypeCorrect == Spec => []TypeOK
<1> QED  BY TypeInit, TypeStep, PTL DEF Spec

-----------------------------------------------------------------------------
(* The inductive invariant, one action at a time.                          *)

LEMMA InvInit == Init => \A s \in Stages : StageInv(s)
<1> SUFFICES ASSUME Init, NEW s \in Stages PROVE StageInv(s)  OBVIOUS
<1>1. Proxy \in Stages  BY DEF Stages
<1>2. /\ build[Proxy] = "no" /\ build[s] = "no" /\ layer[s] = Bare
      /\ pc[s] = "idle" /\ ctx[Proxy] = "live" /\ span[s] = "none"
  BY <1>1 DEF Init
<1>3. ~result[s].gone /\ ~result[s].multi  BY DEF Init, NoError
<1>4. ~metric[s].recorded  BY DEF Init, NoMetric
<1> QED
  BY <1>2, <1>3, <1>4 DEF StageInv, Building, Contexts, Spans, Told, Measured

\* A stage that a step leaves alone keeps its invariant, while contexts only end and
\* the proxy stage is not left.
LEMMA Frame ==
    ASSUME TypeOK, NEW q \in Stages, StageInv(q),
           UNCHANGED config, ctx'[q] = ctx[q], ctx'[Proxy] = ctx[Proxy],
           pc[Proxy] # "idle" => pc'[Proxy] # "idle",
           pc'[q] = pc[q], result'[q] = result[q], span'[q] = span[q],
           told'[q] = told[q], metric'[q] = metric[q]
    PROVE  StageInv(q)'
BY DEF StageInv, Building, Contexts, Spans, Told, Measured, Failed, IsCanceled,
       Metrics, Traces, config

\* Only one stage has its own part changed by a step of a stage.
LEMMA Others ==
    ASSUME TypeOK, NEW s \in Stages, NEW q \in Stages, q # s, StageInv(q),
           Enter(s) \/ NextReturns(s) \/ Report(s) \/ End(s)
    PROVE  StageInv(q)'
<1>1. Proxy \in Stages  BY DEF Stages
<1>2. CASE Enter(s)
  <2>1. /\ UNCHANGED config /\ ctx' = ctx /\ pc' = [pc EXCEPT ![s] = "running"]
        /\ result'[q] = result[q] /\ told'[q] = told[q] /\ metric'[q] = metric[q]
    BY <1>2 DEF Enter, Goto
  <2>2. span'[q] = span[q]
    BY <1>2 DEF Enter, TypeOK
  <2>3. pc'[q] = pc[q] /\ (pc[Proxy] # "idle" => pc'[Proxy] # "idle")
    BY <1>1, <2>1 DEF TypeOK
  <2> QED  BY <2>1, <2>2, <2>3, Frame
<1>3. CASE NextReturns(s)  BY <1>1, <1>3, Frame DEF NextReturns, Goto, config, TypeOK
<1>4. CASE Report(s)  BY <1>1, <1>4, Frame DEF Report, Goto, config, TypeOK
<1>5. CASE End(s)
  <2>1. /\ UNCHANGED config /\ ctx' = ctx /\ pc' = [pc EXCEPT ![s] = "done"]
        /\ result'[q] = result[q] /\ metric'[q] = metric[q]
    BY <1>5 DEF End, Goto
  <2>2. span'[q] = span[q] /\ told'[q] = told[q]
    BY <1>5 DEF End, TypeOK
  <2>3. pc'[q] = pc[q] /\ (pc[Proxy] # "idle" => pc'[Proxy] # "idle")
    BY <1>1, <2>1 DEF TypeOK
  <2> QED  BY <2>1, <2>2, <2>3, Frame
<1> QED  BY <1>2, <1>3, <1>4, <1>5

LEMMA KeptByBuildBackend ==
    ASSUME IInv, NEW c \in Calls, BuildBackend(c), ~Panicked
    PROVE  \A q \in Stages : StageInv(q)'
<1>1. c \in Stages /\ Proxy \in Stages /\ c # Proxy  BY StagesAssumption DEF Stages
<1>2. build[Proxy] = "no"
  BY <1>1 DEF BuildBackend, IInv, StageInv, Building
<1>3. \A q \in Stages : pc[q] = "idle"
  BY <1>2 DEF IInv, StageInv, Building
<1>4. build'[Proxy] = "no"
  BY <1>1, <1>2 DEF BuildBackend, IInv, TypeOK
<1>5. \A q \in Stages : skip => build'[q] # "panic" /\ layer'[q] = Bare
  <2> SUFFICES ASSUME NEW q \in Stages, skip PROVE build'[q] # "panic" /\ layer'[q] = Bare
    OBVIOUS
  <2>1. build' = [build EXCEPT ![c] = "done"] /\ layer' = [layer EXCEPT ![c] = Bare]
    BY DEF BuildBackend
  <2>2. build[q] # "panic" /\ layer[q] = Bare  BY DEF IInv, StageInv, Building
  <2> QED  BY <2>1, <2>2 DEF IInv, TypeOK
<1>6. UNCHANGED <<skip, pc, ctx, result, span, told, metric>>
  BY DEF BuildBackend
<1> QED
  BY <1>3, <1>4, <1>5, <1>6
  DEF IInv, StageInv, Building, Contexts, Spans, Told, Measured, Failed, IsCanceled

LEMMA KeptByBuildProxy ==
    ASSUME IInv, BuildProxy
    PROVE  \A q \in Stages : StageInv(q)'
<1>1. Proxy \in Stages  BY DEF Stages
<1>2. \A q \in Stages : pc[q] = "idle"
  BY DEF BuildProxy, IInv, StageInv, Building
<1>3. \A q \in Stages : q = Proxy \/ build'[q] = "done"
  BY DEF BuildProxy, IInv, TypeOK, Stages
<1>4. \A q \in Stages : skip => build'[q] # "panic" /\ layer'[q] = Bare
  <2> SUFFICES ASSUME NEW q \in Stages, skip PROVE build'[q] # "panic" /\ layer'[q] = Bare
    OBVIOUS
  <2>1. build' = [build EXCEPT ![Proxy] = "done"] /\ layer' = [layer EXCEPT ![Proxy] = Bare]
    BY DEF BuildProxy
  <2>2. build[q] # "panic" /\ layer[q] = Bare  BY DEF IInv, StageInv, Building
  <2> QED  BY <2>1, <2>2 DEF IInv, TypeOK
<1>5. UNCHANGED <<skip, pc, ctx, result, span, told, metric>>
  BY DEF BuildProxy
<1> QED
  BY <1>2, <1>3, <1>4, <1>5
  DEF IInv, StageInv, Building, Contexts, Spans, Told, Measured, Failed, IsCanceled

LEMMA KeptByCtxEnd ==
    ASSUME IInv, NEW s \in Stages, CtxEnd(s)
    PROVE  \A q \in Stages : StageInv(q)'
<1>1. Proxy \in Stages  BY DEF Stages
<1>2. SUFFICES ASSUME NEW q \in Stages PROVE StageInv(q)'  OBVIOUS
<1>3. StageInv(q)  BY <1>2 DEF IInv
<1>4. PICK how \in {"canceled", "deadline"} :
         ctx' = [r \in Stages |-> IF ctx[r] = "live" /\ (r = s \/ s = Proxy)
                                  THEN how ELSE ctx[r]]
  BY DEF CtxEnd
<1>5. /\ ctx[q] # "live" => ctx'[q] = ctx[q]
      /\ ctx[Proxy] # "live" => ctx'[Proxy] = ctx[Proxy]
  BY <1>1, <1>4
<1>6. UNCHANGED <<config, pc, result, span, told, metric>>  BY DEF CtxEnd
<1>7. Contexts(q)'
  <2>1. CASE ctx[Proxy] # "live"  BY <1>3, <1>5, <1>6, <2>1 DEF StageInv, Contexts
  <2>2. CASE ctx[Proxy] = "live" /\ s = Proxy
    <3>1. ctx[q] = "live" => ctx'[q] = how  BY <1>2, <1>4, <2>2
    <3> QED  BY <1>3, <1>5, <1>6, <2>2, <3>1 DEF StageInv, Contexts
  <2>3. CASE ctx[Proxy] = "live" /\ s # Proxy
    <3>1. ctx'[Proxy] = "live"  BY <1>1, <1>4, <2>3
    <3> QED  BY <1>3, <1>6, <2>3, <3>1 DEF StageInv, Contexts
  <2> QED  BY <2>1, <2>2, <2>3
<1>8. Measured(q)'
  BY <1>3, <1>5, <1>6
  DEF StageInv, Contexts, Measured, Failed, IsCanceled, Metrics, config
<1> QED
  BY <1>3, <1>6, <1>7, <1>8
  DEF StageInv, Building, Spans, Told, Failed, IsCanceled, Traces, config

LEMMA KeptByEnter ==
    ASSUME IInv, NEW s \in Stages, Enter(s)
    PROVE  \A q \in Stages : StageInv(q)'
<1>1. Proxy \in Stages  BY DEF Stages
<1>2. StageInv(s) /\ StageInv(Proxy) /\ TypeOK  BY <1>1 DEF IInv
<1>3. ASSUME NEW q \in Stages, q # s PROVE StageInv(q)'  BY <1>3, Others DEF IInv
<1>4. /\ pc[s] = "idle" /\ pc'[s] = "running"
      /\ UNCHANGED <<config, ctx, result, told, metric>>
  BY DEF Enter, Goto, IInv, TypeOK
<1>5. Building(s)'
  <2>1. build[Proxy] # "no" /\ pc'[Proxy] # "idle"
    <3>1. CASE s = Proxy  BY <1>4, <3>1 DEF Enter, Called
    <3>2. CASE s # Proxy
      BY <1>1, <1>2, <3>2 DEF Enter, Called, Goto, StageInv, Building, TypeOK
    <3> QED  BY <3>1, <3>2
  <2> QED  BY <1>2, <1>4, <2>1 DEF StageInv, Building, config
<1>6. Contexts(s)'  BY <1>2, <1>4 DEF StageInv, Contexts
<1>7. Spans(s)'
  <2>1. span[s] = "none"  BY <1>2, <1>4 DEF StageInv, Spans
  <2>2. CASE Traces(s)
    BY <1>2, <1>4, <2>2 DEF Enter, Spans, Traces, config, TypeOK
  <2>3. CASE ~Traces(s)
    BY <1>4, <2>1, <2>3 DEF Enter, Spans, Traces, config
  <2> QED  BY <2>2, <2>3
<1>8. Told(s)'
  BY <1>2, <1>4, <1>7 DEF StageInv, Told, Spans, Failed
<1>9. Measured(s)'
  BY <1>2, <1>4 DEF StageInv, Measured
<1> QED  BY <1>3, <1>5, <1>6, <1>7, <1>8, <1>9 DEF StageInv

LEMMA KeptByNextReturns ==
    ASSUME IInv, NEW s \in Stages, NextReturns(s)
    PROVE  \A q \in Stages : StageInv(q)'
<1>1. StageInv(s) /\ TypeOK  BY DEF IInv
<1>2. ASSUME NEW q \in Stages, q # s PROVE StageInv(q)'  BY <1>2, Others DEF IInv
<1>3. /\ pc[s] = "running" /\ pc'[s] = "report"
      /\ UNCHANGED <<config, ctx, span, told, metric>>
  BY DEF NextReturns, Goto, IInv, TypeOK
<1>4. PICK multi \in BOOLEAN, causes \in SUBSET Causes :
         /\ Answers(s, multi, causes)
         /\ result' = [result EXCEPT ![s] = [multi |-> multi, causes |-> causes,
                                             gone |-> ctx[Proxy] = "canceled"]]
  BY DEF NextReturns
<1>5. /\ result'[s].multi = multi /\ result'[s].causes = causes
      /\ result'[s].gone = (ctx[Proxy] = "canceled")
  BY <1>1, <1>4 DEF TypeOK
<1>6. Building(s)'
  <2>1. pc[Proxy] # "idle" => pc'[Proxy] # "idle"
    BY <1>1 DEF NextReturns, Goto, TypeOK
  <2> QED  BY <1>1, <1>3, <2>1 DEF StageInv, Building, config
<1>7. Contexts(s)'  BY <1>1, <1>3, <1>5 DEF StageInv, Contexts
<1>8. Spans(s)'
  BY <1>1, <1>3 DEF StageInv, Spans, Traces, config
<1>9. Told(s)'
  <2>1. multi => s = Proxy /\ causes # {}  BY <1>4 DEF Answers
  <2>2. span'[s] # "ended"  BY <1>3, <1>8 DEF Spans
  <2> QED  BY <1>5, <2>1, <2>2 DEF Told, Failed
<1>10. Measured(s)'
  <2>1. ~metric[s].recorded  BY <1>1, <1>3 DEF StageInv, Measured
  <2> QED  BY <1>3, <2>1 DEF Measured
<1> QED  BY <1>2, <1>6, <1>7, <1>8, <1>9, <1>10 DEF StageInv

\* What the two conditions of report come to.
LEMMA ReportFlags ==
    ASSUME TypeOK, NEW s \in Stages, StageInv(s)
    PROVE  /\ Failed(s) <=> ErrorMetric(s) \/ CanceledMetric(s)
           /\ IsCanceled(s) => CanceledMetric(s) /\ ~ErrorMetric(s)
           /\ result[s].multi => (ErrorMetric(s) <=> "failed" \in result[s].causes)
           /\ ~result[s].multi => ~(ErrorMetric(s) /\ CanceledMetric(s))
           /\ Failed(s) /\ result[s].gone /\ ctx[s] # "deadline" => CanceledMetric(s)
<1>1. result[s].causes \subseteq {"canceled", "failed"}  BY DEF TypeOK, Result, Causes
<1>2. result[s].multi /\ "failed" \notin result[s].causes
         => "canceled" \in result[s].causes
  BY <1>1 DEF StageInv, Told, Failed
<1>3. result[s].gone /\ ctx[s] # "deadline" => ctx[s] = "canceled"
  BY DEF StageInv, Contexts, TypeOK
<1> QED  BY <1>2, <1>3 DEF ErrorMetric, CanceledMetric, IsCanceled, Failed

LEMMA KeptByReport ==
    ASSUME IInv, NEW s \in Stages, Report(s)
    PROVE  \A q \in Stages : StageInv(q)'
<1>1. StageInv(s) /\ TypeOK  BY DEF IInv
<1>2. ASSUME NEW q \in Stages, q # s PROVE StageInv(q)'  BY <1>2, Others DEF IInv
<1>3. /\ pc[s] = "report" /\ pc'[s] = "end"
      /\ UNCHANGED <<config, ctx, result, span, told>>
  BY DEF Report, Goto, IInv, TypeOK
<1>4. Building(s)'
  <2>1. pc[Proxy] # "idle" => pc'[Proxy] # "idle"
    BY <1>1 DEF Report, Goto, TypeOK
  <2> QED  BY <1>1, <1>3, <2>1 DEF StageInv, Building, config
<1>5. Contexts(s)'  BY <1>1, <1>3 DEF StageInv, Contexts
<1>6. Spans(s)'
  BY <1>1, <1>3 DEF StageInv, Spans, Traces, config
<1>7. Told(s)'
  BY <1>1, <1>3, <1>6 DEF StageInv, Told, Spans, Failed
<1>8. Measured(s)'
  <2>1. CASE ~Metrics(s)
    <3>1. ~metric[s].recorded  BY <1>1, <1>3 DEF StageInv, Measured
    <3>2. metric' = metric  BY <2>1 DEF Report
    <3> QED  BY <3>1, <3>2 DEF Measured
  <2>2. CASE Metrics(s)
    <3>1. metric'[s] = [recorded |-> TRUE, error |-> ErrorMetric(s),
                        canceled |-> CanceledMetric(s)]
      BY <1>1, <2>2 DEF Report, TypeOK
    <3>2. metric'[s].error = ErrorMetric(s) /\ metric'[s].canceled = CanceledMetric(s)
      BY <3>1
    <3>3. Metrics(s)'  BY <1>3, <2>2 DEF Metrics, config
    <3>4. result'[s] = result[s] /\ ctx'[s] = ctx[s]  BY <1>3
    <3>5. /\ Failed(s)' <=> Failed(s)
          /\ IsCanceled(s)' <=> IsCanceled(s)
      BY <3>4 DEF Failed, IsCanceled
    <3> QED  BY <1>1, <1>3, <3>2, <3>3, <3>4, <3>5, ReportFlags DEF Measured
  <2> QED  BY <2>1, <2>2
<1> QED  BY <1>2, <1>4, <1>5, <1>6, <1>7, <1>8 DEF StageInv

LEMMA KeptByEnd ==
    ASSUME IInv, NEW s \in Stages, End(s)
    PROVE  \A q \in Stages : StageInv(q)'
<1>1. StageInv(s) /\ TypeOK  BY DEF IInv
<1>2. ASSUME NEW q \in Stages, q # s PROVE StageInv(q)'  BY <1>2, Others DEF IInv
<1>3. /\ pc[s] = "end" /\ pc'[s] = "done"
      /\ UNCHANGED <<config, ctx, result, metric>>
  BY DEF End, Goto, IInv, TypeOK
<1>4. Building(s)'
  <2>1. pc[Proxy] # "idle" => pc'[Proxy] # "idle"
    BY <1>1 DEF End, Goto, TypeOK
  <2> QED  BY <1>1, <1>3, <2>1 DEF StageInv, Building, config
<1>5. Contexts(s)'  BY <1>1, <1>3 DEF StageInv, Contexts
<1>6. Spans(s)'
  BY <1>1, <1>3 DEF End, StageInv, Spans, Traces, config, TypeOK
<1>7. Told(s)'
  <2>1. CASE Traces(s)
    BY <1>1, <1>3, <2>1 DEF End, StageInv, Told, Failed, IsCanceled, TypeOK
  <2>2. CASE ~Traces(s)
    <3>1. span'[s] = "none"  BY <1>1, <2>2 DEF End, StageInv, Spans
    <3> QED  BY <1>1, <1>3, <3>1 DEF StageInv, Told, Failed
  <2> QED  BY <2>1, <2>2
<1>8. Measured(s)'
  BY <1>1, <1>3 DEF StageInv, Measured, Failed, IsCanceled, Metrics, config
<1> QED  BY <1>2, <1>4, <1>5, <1>6, <1>7, <1>8 DEF StageInv

\* IInv holds of every reachable state.
THEOREM Invariant == Spec => []IInv
<1>1. Init => IInv  BY TypeInit, InvInit DEF IInv
<1>2. IInv /\ [Next]_vars => IInv'
  <2> SUFFICES ASSUME IInv, [Next]_vars PROVE \A q \in Stages : StageInv(q)'
    BY TypeStep DEF IInv
  <2>1. ASSUME ~Panicked, NEW c \in Calls, BuildBackend(c) PROVE \A q \in Stages : StageInv(q)'
    BY <2>1, KeptByBuildBackend
  <2>2. CASE BuildProxy  BY <2>2, KeptByBuildProxy
  <2>3. ASSUME NEW s \in Stages, CtxEnd(s) PROVE \A q \in Stages : StageInv(q)'
    BY <2>3, KeptByCtxEnd
  <2>4. ASSUME NEW s \in Stages, Enter(s) PROVE \A q \in Stages : StageInv(q)'
    BY <2>4, KeptByEnter
  <2>5. ASSUME NEW s \in Stages, NextReturns(s) PROVE \A q \in Stages : StageInv(q)'
    BY <2>5, KeptByNextReturns
  <2>6. ASSUME NEW s \in Stages, Report(s) PROVE \A q \in Stages : StageInv(q)'
    BY <2>6, KeptByReport
  <2>7. ASSUME NEW s \in Stages, End(s) PROVE \A q \in Stages : StageInv(q)'
    BY <2>7, KeptByEnd
  <2>8. CASE UNCHANGED vars
    BY <2>8
    DEF IInv, StageInv, Building, Contexts, Spans, Told, Measured, Failed, IsCanceled,
        Metrics, Traces, vars, config
  <2> QED  BY <2>1, <2>2, <2>3, <2>4, <2>5, <2>6, <2>7, <2>8 DEF Next
<1> QED  BY <1>1, <1>2, PTL DEF Spec

-----------------------------------------------------------------------------
(* What follows from it.                                                   *)

\* Whatever its backends are configured with, a skipped endpoint starts and is left
\* without any instrumentation by ProxyFactory and BackendFactory.
THEOREM SkippedAreUntouched == Spec => []SkippedIsUntouched
<1>1. IInv => SkippedIsUntouched
  <2> SUFFICES ASSUME IInv, skip, NEW s \in Stages
               PROVE build[s] # "panic" /\ span[s] = "none" /\ ~metric[s].recorded
    BY DEF SkippedIsUntouched, Panicked
  <2>1. StageInv(s)  BY DEF IInv
  <2>2. build[s] # "panic" /\ ~Metrics(s) /\ ~Traces(s)
    BY <2>1 DEF StageInv, Building, Metrics, Traces, Bare
  <2> QED  BY <2>1, <2>2 DEF StageInv, Spans, Measured
<1> QED  BY <1>1, Invariant, PTL

\* Contexts that end between the metric and the span do not set them at odds.
THEOREM StagesTellTheSame == Spec => []StageTellsTheSame
<1>1. IInv => StageTellsTheSame
  <2> SUFFICES ASSUME IInv, NEW s \in Stages, metric[s].recorded, span[s] = "ended"
               PROVE /\ told[s] = "ok" <=> ~metric[s].error /\ ~metric[s].canceled
                     /\ told[s] = "canceled" => metric[s].canceled /\ ~metric[s].error
    BY DEF StageTellsTheSame
  <2>1. StageInv(s)  BY DEF IInv
  <2> QED  BY <2>1 DEF StageInv, Told, Measured
<1> QED  BY <1>1, Invariant, PTL

\* A caller that leaves does not raise the error rate of any stage.
THEOREM GoneCallersAreNoErrors == Spec => []CallerGoneIsNoError
<1>1. IInv => CallerGoneIsNoError
  <2> SUFFICES ASSUME IInv, NEW s \in Stages, metric[s].recorded, Failed(s),
                      result[s].gone, ~result[s].multi, ctx[s] # "deadline"
               PROVE metric[s].canceled /\ ~metric[s].error
    BY DEF CallerGoneIsNoError
  <2>1. StageInv(s)  BY DEF IInv
  <2> QED  BY <2>1 DEF StageInv, Measured
<1> QED  BY <1>1, Invariant, PTL

\* What the reports call canceled was canceled before, and stays so.
LEMMA CanceledStays ==
    ASSUME NEW how \in {"canceled", "deadline"}, NEW r \in Stages, NEW s \in Stages,
           ctx' = [q \in Stages |-> IF ctx[q] = "live" /\ (q = r \/ r = Proxy)
                                    THEN how ELSE ctx[q]],
           Canceled(s)
    PROVE  Canceled(s)'
<1>1. Calls \subseteq Stages  BY DEF Stages
<1>2. \A q \in Stages : ctx[q] = "canceled" => ctx'[q] = "canceled"  OBVIOUS
<1> QED  BY <1>1, <1>2 DEF Canceled

\* Where a cancellation can be known from: the error, the metric and the span.
Happened(s) ==
    "canceled" \in result[s].causes \/ metric[s].canceled \/ told[s] = "canceled"
        => Canceled(s)

LEMMA HappenedInit == Init => \A s \in Stages : Happened(s)
BY DEF Init, Happened, NoError, NoMetric

LEMMA HappenedByNextReturns ==
    ASSUME TypeOK, \A q \in Stages : Happened(q), NEW s \in Stages, NextReturns(s)
    PROVE  \A q \in Stages : Happened(q)'
<1>1. UNCHANGED <<ctx, told, metric>>  BY DEF NextReturns
<1>2. SUFFICES ASSUME NEW q \in Stages PROVE Happened(q)'  OBVIOUS
<1>3. Canceled(q)' <=> Canceled(q)  BY <1>1 DEF Canceled
<1>4. PICK multi \in BOOLEAN, causes \in SUBSET Causes :
         /\ Answers(s, multi, causes)
         /\ result' = [result EXCEPT ![s] = [multi |-> multi, causes |-> causes,
                                             gone |-> ctx[Proxy] = "canceled"]]
  BY DEF NextReturns
<1>5. CASE q = s
  <2>1. result'[s].causes = causes  BY <1>4 DEF TypeOK
  <2>2. "canceled" \in causes => Canceled(s)
    <3> SUFFICES ASSUME s = Proxy, NEW c \in Calls, "canceled" \in result[c].causes
                 PROVE Canceled(s)
      BY <1>4 DEF Answers, Canceled
    <3>1. c \in Stages /\ c # Proxy  BY StagesAssumption DEF Stages
    <3>2. ctx[c] = "canceled"  BY <3>1 DEF Happened, Canceled
    <3> QED  BY <3>2 DEF Canceled
  <2> QED  BY <1>1, <1>3, <1>5, <2>1, <2>2 DEF Happened
<1>6. CASE q # s
  <2>1. result'[q] = result[q]  BY <1>4, <1>6 DEF TypeOK
  <2> QED  BY <1>1, <1>3, <2>1 DEF Happened
<1> QED  BY <1>5, <1>6

LEMMA HappenedByReport ==
    ASSUME TypeOK, \A q \in Stages : Happened(q), NEW s \in Stages, Report(s)
    PROVE  \A q \in Stages : Happened(q)'
<1>1. UNCHANGED <<ctx, result, told>>  BY DEF Report
<1>2. SUFFICES ASSUME NEW q \in Stages PROVE Happened(q)'  OBVIOUS
<1>3. Canceled(q)' <=> Canceled(q)  BY <1>1 DEF Canceled
<1>4. CASE metric'[q] = metric[q]  BY <1>1, <1>3, <1>4 DEF Happened
<1>5. CASE metric'[q] # metric[q]
  <2>1. q = s /\ metric'[q].canceled = CanceledMetric(s)  BY <1>5 DEF Report, TypeOK
  <2>2. CanceledMetric(s) => Canceled(s)
    BY DEF CanceledMetric, IsCanceled, Happened, Canceled
  <2> QED  BY <1>1, <1>3, <2>1, <2>2 DEF Happened
<1> QED  BY <1>4, <1>5

LEMMA HappenedByEnd ==
    ASSUME TypeOK, \A q \in Stages : Happened(q), NEW s \in Stages, End(s)
    PROVE  \A q \in Stages : Happened(q)'
<1>1. UNCHANGED <<ctx, result, metric>>  BY DEF End
<1>2. SUFFICES ASSUME NEW q \in Stages PROVE Happened(q)'  OBVIOUS
<1>3. Canceled(q)' <=> Canceled(q)  BY <1>1 DEF Canceled
<1>4. told'[q] = "canceled" => told[q] = "canceled" \/ (q = s /\ IsCanceled(s))
  <2>1. CASE told' = told  BY <2>1
  <2>2. CASE told' # told
    <3>1. told' = [told EXCEPT ![s] = IF ~Failed(s) THEN "ok"
                                      ELSE IF IsCanceled(s) THEN "canceled" ELSE "error"]
      BY <2>2 DEF End
    <3> QED  BY <3>1 DEF TypeOK
  <2> QED  BY <2>1, <2>2
<1>5. IsCanceled(s) => Canceled(s)  BY DEF IsCanceled, Happened
<1> QED  BY <1>1, <1>3, <1>4, <1>5 DEF Happened

\* No stage, and no merge of any number of calls, reports a cancellation of which there
\* was none; what a stage has of it is in Happened, which is inductive.
THEOREM TimeoutsAreNotCanceled == Spec => []NoTimeoutIsCanceled
<1>1. Init => \A s \in Stages : Happened(s)  BY HappenedInit
<1>2. TypeOK /\ (\A s \in Stages : Happened(s)) /\ [Next]_vars
         => (\A s \in Stages : Happened(s))'
  <2> SUFFICES ASSUME TypeOK, \A s \in Stages : Happened(s), [Next]_vars
               PROVE \A q \in Stages : Happened(q)'
    OBVIOUS
  <2>1. CASE UNCHANGED <<ctx, result, told, metric>>
    BY <2>1 DEF Happened, Canceled
  <2>2. ASSUME NEW s \in Stages, CtxEnd(s) PROVE \A q \in Stages : Happened(q)'
    <3>1. UNCHANGED <<result, told, metric>>  BY <2>2 DEF CtxEnd
    <3>2. \A q \in Stages : Canceled(q) => Canceled(q)'
      BY <2>2, CanceledStays DEF CtxEnd
    <3> QED  BY <3>1, <3>2 DEF Happened
  <2>3. ASSUME NEW s \in Stages, NextReturns(s) PROVE \A q \in Stages : Happened(q)'
    BY <2>3, HappenedByNextReturns
  <2>4. ASSUME NEW s \in Stages, Report(s) PROVE \A q \in Stages : Happened(q)'
    BY <2>4, HappenedByReport
  <2>5. ASSUME NEW s \in Stages, End(s) PROVE \A q \in Stages : Happened(q)'
    BY <2>5, HappenedByEnd
  <2>6. ASSUME NEW s \in Stages, Enter(s) PROVE UNCHANGED <<ctx, result, told, metric>>
    BY <2>6 DEF Enter
  <2>7. ASSUME NEW c \in Calls, BuildBackend(c) PROVE UNCHANGED <<ctx, result, told, metric>>
    BY <2>7 DEF BuildBackend
  <2>8. CASE BuildProxy  BY <2>1, <2>8 DEF BuildProxy
  <2>9. CASE UNCHANGED vars  BY <2>1, <2>9 DEF vars
  <2> QED  BY <2>1, <2>2, <2>3, <2>4, <2>5, <2>6, <2>7, <2>8, <2>9 DEF Next
<1>3. (\A s \in Stages : Happened(s)) => NoTimeoutIsCanceled
  BY DEF Happened, NoTimeoutIsCanceled
<1> QED  BY <1>1, <1>2, <1>3, TypeCorrect, PTL DEF Spec

\* The errors of a merge decide alone whether the stage failed.
THEOREM ErrorsOfMergesShow == Spec => []MergeErrorsShow
<1>1. IInv => MergeErrorsShow
  <2> SUFFICES ASSUME IInv, result[Proxy].multi, metric[Proxy].recorded
               PROVE metric[Proxy].error <=> "failed" \in result[Proxy].causes
    BY DEF MergeErrorsShow
  <2>1. StageInv(Proxy)  BY DEF IInv, Stages
  <2> QED  BY <2>1 DEF StageInv, Measured
<1> QED  BY <1>1, Invariant, PTL
=============================================================================

------------------------------ MODULE Pipeline ------------------------------
(***************************************************************************)
(* The lura layer around one endpoint: how ProxyFactory and BackendFactory *)
(* decide what to wrap, and one request through the middlewares they made, *)
(* the "proxy" stage outside and the calls of the "backend" stage within.  *)
(* Lura, which runs those calls concurrently, cancels them and merges what *)
(* they answer, is external.                                               *)
(***************************************************************************)
CONSTANTS Proxy,    \* the proxy stage of the endpoint
          Calls     \* the calls of the backend stage in one request

ASSUME StagesAssumption == Proxy \notin Calls

Stages == {Proxy} \cup Calls

VARIABLES
    skip,       \* the endpoint is one of the skipped
    build,      \* "no", "done" or "panic", for each stage
    layer,      \* what the stage was built with
    pc,         \* where the request is in each stage
    ctx,        \* the context of each stage: "live", or how it ended
    result,     \* the error a stage got from the next, and whether that was
                \* after the request had been canceled
    span,       \* "none", "live" or "ended"
    told,       \* what its attributes say of the result
    metric      \* what the duration was recorded with

config == <<skip, build, layer>>
vars == <<config, pc, ctx, result, span, told, metric>>

\* The options of a stage: those of a backend may lack a part, those of the proxy,
\* PipeOpts, may not.
Switch == {"absent", "off", "on"}
Options(s) == IF s = Proxy THEN [metrics : {"off", "on"}, traces : {"off", "on"}]
              ELSE [metrics : Switch, traces : Switch]

\* An error is one of context.Canceled ("canceled") or another ("failed"), or a
\* multiError of several; no causes is no error.
Causes == {"canceled", "failed"}
Result == [multi : BOOLEAN, causes : SUBSET Causes, gone : BOOLEAN]
NoError == [multi |-> FALSE, causes |-> {}, gone |-> FALSE]

NoMetric == [recorded |-> FALSE, error |-> FALSE, canceled |-> FALSE]

TypeOK ==
    /\ skip \in BOOLEAN
    /\ build \in [Stages -> {"no", "done", "panic"}]
    /\ layer \in [Stages -> [metrics : BOOLEAN, traces : BOOLEAN]]
    /\ pc \in [Stages -> {"idle", "running", "report", "end", "done"}]
    /\ ctx \in [Stages -> {"live", "canceled", "deadline"}]
    /\ result \in [Stages -> Result]
    /\ span \in [Stages -> {"none", "live", "ended"}]
    /\ told \in [Stages -> {"nothing", "ok", "canceled", "error"}]
    /\ metric \in [Stages -> {NoMetric} \cup
                              [recorded : {TRUE}, error : BOOLEAN, canceled : BOOLEAN]]

Bare == [metrics |-> FALSE, traces |-> FALSE]

Init ==
    /\ skip \in BOOLEAN
    /\ build = [s \in Stages |-> "no"]
    /\ layer = [s \in Stages |-> Bare]
    /\ pc = [s \in Stages |-> "idle"]
    /\ ctx = [s \in Stages |-> "live"]
    /\ result = [s \in Stages |-> NoError]
    /\ span = [s \in Stages |-> "none"]
    /\ told = [s \in Stages |-> "nothing"]
    /\ metric = [s \in Stages |-> NoMetric]

Goto(s, to) == pc' = [pc EXCEPT ![s] = to]

\* The parts a middleware has; it is the next proxy itself when it has none.
Metrics(s) == layer[s].metrics
Traces(s)  == layer[s].traces

-----------------------------------------------------------------------------
(* Starting the gateway: the backends of the endpoint, then its proxy.     *)

\* Only "off" disables a part.
LayerOf(o) == [metrics |-> o.metrics # "off", traces |-> o.traces # "off"]

\* BackendFactory looks for absent parts everywhere but where it takes the headers
\* to skip from Traces.
BackendPanics(o) == LayerOf(o) # Bare /\ o.traces = "absent"

\* A broken variant: middlewares for the backends of a skipped endpoint too.
BuildUnasked(c) ==
    /\ build[c] = "no"
    /\ \E o \in Options(c) :
          /\ build' = [build EXCEPT ![c] = IF BackendPanics(o) THEN "panic" ELSE "done"]
          /\ layer' = [layer EXCEPT ![c] = IF BackendPanics(o) THEN Bare ELSE LayerOf(o)]
    /\ UNCHANGED <<skip, pc, ctx, result, span, told, metric>>

BuildBackend(c) ==
    /\ build[c] = "no"
    /\ \E o \in Options(c) :
          LET panics == ~skip /\ BackendPanics(o) IN
          /\ build' = [build EXCEPT ![c] = IF panics THEN "panic" ELSE "done"]
          /\ layer' = [layer EXCEPT ![c] = IF skip \/ panics THEN Bare ELSE LayerOf(o)]
    /\ UNCHANGED <<skip, pc, ctx, result, span, told, metric>>

BuildProxy ==
    /\ \A c \in Calls : build[c] = "done"
    /\ build[Proxy] = "no"
    /\ build' = [build EXCEPT ![Proxy] = "done"]
    /\ \E o \in Options(Proxy) :
          layer' = [layer EXCEPT ![Proxy] = IF skip THEN Bare ELSE LayerOf(o)]
    /\ UNCHANGED <<skip, pc, ctx, result, span, told, metric>>

-----------------------------------------------------------------------------
(* The request.  Contexts end at any moment, those derived from one that   *)
(* ends with it.                                                           *)

CtxEnd(s) ==
    /\ ctx[s] = "live" /\ build[Proxy] # "no"
    /\ \E how \in {"canceled", "deadline"} :
          ctx' = [q \in Stages |-> IF ctx[q] = "live" /\ (q = s \/ s = Proxy)
                                   THEN how ELSE ctx[q]]
    /\ UNCHANGED <<config, pc, result, span, told, metric>>

\* Who calls a stage: the router the first one, and lura the others, from goroutines
\* that may only get to run when the first has returned.
Called(s) == IF s = Proxy THEN build[Proxy] # "no" ELSE pc[Proxy] # "idle"

\* middlewareTracer.start.
Enter(s) ==
    /\ pc[s] = "idle" /\ Called(s)
    /\ span' = IF Traces(s) THEN [span EXCEPT ![s] = "live"] ELSE span
    /\ Goto(s, "running")
    /\ UNCHANGED <<config, ctx, result, told, metric>>

\* What the next proxy answers.  A call is canceled only with its context; the merge
\* gathers what its calls met, or adds an error of its own.
Answers(s, multi, causes) ==
    /\ multi => s = Proxy /\ causes # {}
    /\ ~multi => causes \in {{}, {"canceled"}, {"failed"}}
    /\ "canceled" \in causes =>
          \/ ctx[s] = "canceled"
          \/ s = Proxy /\ \E c \in Calls : "canceled" \in result[c].causes

NextReturns(s) ==
    /\ pc[s] = "running"
    /\ \E multi \in BOOLEAN, causes \in SUBSET Causes :
          /\ Answers(s, multi, causes)
          /\ result' = [result EXCEPT ![s] = [multi |-> multi, causes |-> causes,
                                              gone |-> ctx[Proxy] = "canceled"]]
    /\ Goto(s, "report")
    /\ UNCHANGED <<config, ctx, span, told, metric>>

\* errors.Is(err, context.Canceled) does not see into a multiError.
IsCanceled(s) == ~result[s].multi /\ result[s].causes = {"canceled"}
Failed(s)     == result[s].causes # {}

\* Broken variants of the next two: the context not asked, or only whether it has
\* ended, and the errors of a merge not asked.
CanceledByError(s)    == IsCanceled(s)
CanceledByAnyEnd(s)   ==
    Failed(s) /\ \/ IsCanceled(s) \/ ctx[s] # "live"
                 \/ result[s].multi /\ "canceled" \in result[s].causes
ErrorUnlessContext(s) == Failed(s) /\ ctx[s] = "live"

\* middlewareMeter.report: the error, or the context as it is by now, or any of the
\* errors of a merge may tell of a cancellation.
CanceledMetric(s) ==
    Failed(s) /\ \/ IsCanceled(s) \/ ctx[s] = "canceled"
                 \/ result[s].multi /\ "canceled" \in result[s].causes
ErrorMetric(s) ==
    Failed(s) /\ \/ result[s].multi /\ "failed" \in result[s].causes
                 \/ ~CanceledMetric(s)

ReportAnyway(s) ==    \* a broken variant: no meter, and the values kept all the same
    /\ pc[s] = "report"
    /\ metric' = [metric EXCEPT ![s] = [recorded |-> Metrics(s), error |-> ErrorMetric(s),
                                        canceled |-> CanceledMetric(s)]]
    /\ Goto(s, "end")
    /\ UNCHANGED <<config, ctx, result, span, told>>

Report(s) ==
    /\ pc[s] = "report"
    /\ metric' = IF Metrics(s)
                 THEN [metric EXCEPT ![s] = [recorded |-> TRUE, error |-> ErrorMetric(s),
                                             canceled |-> CanceledMetric(s)]]
                 ELSE metric
    /\ Goto(s, "end")
    /\ UNCHANGED <<config, ctx, result, span, told>>

EndAsksContext(s) ==    \* a broken variant: the context asked again, after the metric
    /\ pc[s] = "end"
    /\ IF Traces(s)
       THEN /\ span' = [span EXCEPT ![s] = "ended"]
            /\ told' = [told EXCEPT ![s] = IF ~Failed(s) THEN "ok"
                               ELSE IF ctx[s] = "canceled" THEN "canceled" ELSE "error"]
       ELSE UNCHANGED <<span, told>>
    /\ Goto(s, "done")
    /\ UNCHANGED <<config, ctx, result, metric>>

\* middlewareTracer.end only looks at the error.
End(s) ==
    /\ pc[s] = "end"
    /\ IF Traces(s)
       THEN /\ span' = [span EXCEPT ![s] = "ended"]
            /\ told' = [told EXCEPT ![s] = IF ~Failed(s) THEN "ok"
                                           ELSE IF IsCanceled(s) THEN "canceled" ELSE "error"]
       ELSE UNCHANGED <<span, told>>
    /\ Goto(s, "done")
    /\ UNCHANGED <<config, ctx, result, metric>>

-----------------------------------------------------------------------------
Panicked == \E s \in Stages : build[s] = "panic"

Next ==
    /\ ~Panicked
    /\ \/ \E c \in Calls : BuildBackend(c)
       \/ BuildProxy
       \/ \E s \in Stages : CtxEnd(s) \/ Enter(s) \/ NextReturns(s) \/ Report(s) \/ End(s)

Spec == Init /\ [][Next]_vars

-----------------------------------------------------------------------------
\* No stage of a skipped endpoint reports anything, whatever the options of its
\* backends say or lack, and starting the gateway does not fail on them.
SkippedIsUntouched ==
    skip => /\ ~Panicked
            /\ \A s \in Stages : span[s] = "none" /\ ~metric[s].recorded

\* The metric and the span of a stage, written one after the other while contexts
\* end, agree on whether it failed, and a canceled span has a canceled metric.
StageTellsTheSame ==
    \A s \in Stages : metric[s].recorded /\ span[s] = "ended" =>
        /\ told[s] = "ok" <=> ~metric[s].error /\ ~metric[s].canceled
        /\ told[s] = "canceled" => metric[s].canceled /\ ~metric[s].error

\* Once the caller is gone a failure is a cancellation, in the stage and in every call
\* it had made, except for a call that had timed out before or for a merge.
CallerGoneIsNoError ==
    \A s \in Stages :
        metric[s].recorded /\ Failed(s) /\ result[s].gone
            /\ ~result[s].multi /\ ctx[s] # "deadline"
        => metric[s].canceled /\ ~metric[s].error

\* A cancellation that is reported has happened, to the stage itself or to a call whose
\* error the proxy stage has merged: neither the metric nor the span takes a timeout, or
\* any other failure, for one.
Canceled(s) ==
    \/ ctx[s] = "canceled"
    \/ s = Proxy /\ \E c \in Calls : ctx[c] = "canceled"

NoTimeoutIsCanceled ==
    \A s \in Stages : metric[s].canceled \/ told[s] = "canceled" => Canceled(s)

\* A merge is an error only if one of its own is, however many were canceled, and the
\* cancellations do not hide it.
MergeErrorsShow ==
    result[Proxy].multi /\ metric[Proxy].recorded =>
        (metric[Proxy].error <=> "failed" \in result[Proxy].causes)
=============================================================================

--------------------------- MODULE ClientTransport --------------------------
(***************************************************************************)
(* The instrumented round tripper of http/client: Transport.RoundTrip with *)
(* its span, its counters, the httptrace hooks that other goroutines call, *)
(* and the body it hands back.  The base round tripper, the SDK and the    *)
(* caller, who may send one request again, are external.  What happens to  *)
(* a body once it is being read is module IOTracking.                      *)
(***************************************************************************)
EXTENDS Naturals, FiniteSets

CONSTANTS Callers,      \* goroutines, each with a request and a context of its own
          MaxAttempts,  \* bound on the times a caller sends its request
          Options       \* the configurations of the transport to consider

OptionsType == [mRoundTrip : BOOLEAN, mPayload : BOOLEAN, mDetails : BOOLEAN,
                tRoundTrip : BOOLEAN, tPayload : BOOLEAN, tDetails : BOOLEAN,
                semConv : BOOLEAN,  \* SemConv "1.27"
                ratio : BOOLEAN]    \* the SDK samples part of the traces

ASSUME CallersAssumption  == IsFiniteSet(Callers)
ASSUME AttemptsAssumption == MaxAttempts \in Nat
ASSUME OptionsAssumption  == Options \subseteq OptionsType

VARIABLES
    opts,       \* the configuration
    ctx,        \* each caller's context: "live", or how it ended
    trace,      \* the span in that context: "none", "sampled" or "dropped"
    header,     \* the trace context in the caller's own header map, 0 for none
    pc,         \* where the caller's round trip is
    attempt,    \* how many it has begun; the current one is the last
    span,       \* rtt.span: "none", "live" or "ended"
    sent,       \* the trace context the server got with the attempt
    result,     \* rtt.err: "none", "net", or the end of the context
    class,      \* what the counters were told of the attempt
    detail,     \* rtt.dnsLatency, tlsLatency: "none", "started" or "done"
    reported,   \* what the metrics and the span say of the attempt
    body,       \* the context its body was wrapped with, and its span
    counters,   \* the request counters, as the next collection sees them
    base        \* what the base round tripper has answered, errors apart

roundtrip == <<span, sent, result, class, detail, reported, body>>
vars == <<opts, ctx, trace, header, pc, attempt, roundtrip, counters, base>>

CtxEnds == {"canceled", "deadline"}

TypeOK ==
    /\ opts \in Options
    /\ ctx \in [Callers -> {"live"} \cup CtxEnds]
    /\ trace \in [Callers -> {"none", "sampled", "dropped"}]
    /\ header \in [Callers -> {0}]        \* a round tripper may not modify the request
    /\ pc \in [Callers -> {"idle", "sent", "report", "classify", "failed",
                           "details", "wrap", "end"}]
    /\ attempt \in [Callers -> 0..MaxAttempts]
    /\ span \in [Callers -> {"none", "live", "ended"}]
    /\ sent \in [Callers -> 0..MaxAttempts]
    /\ result \in [Callers -> {"none", "net"} \cup CtxEnds]
    /\ class \in [Callers -> {"none", "ok", "canceled", "timedout", "failed"}]
    /\ detail \in [Callers -> {"none", "started", "done"}]
    /\ reported \in [Callers -> [metricDetail : BOOLEAN, spanDetail : BOOLEAN,
                                 spanStatus : {"unset", "ok", "error"}]]
    /\ body \in [Callers -> [ctx : {"none", "caller", "roundtrip"},
                             span : {"none", "dropped", "child", "sibling", "root"}]]
    /\ counters \in [started : Nat, failed : Nat, canceled : Nat, timedOut : Nat]
    /\ base \in [answers : Nat, errors : Nat]

NoReport == [metricDetail |-> FALSE, spanDetail |-> FALSE, spanStatus |-> "unset"]
NoBody   == [ctx |-> "none", span |-> "none"]

Init ==
    /\ opts \in Options
    /\ ctx = [c \in Callers |-> "live"]
    /\ trace \in [Callers -> {"none", "sampled", "dropped"}]
    /\ header = [c \in Callers |-> 0]
    /\ pc = [c \in Callers |-> "idle"]
    /\ attempt = [c \in Callers |-> 0]
    /\ span = [c \in Callers |-> "none"]
    /\ sent = [c \in Callers |-> 0]
    /\ result = [c \in Callers |-> "none"]
    /\ class = [c \in Callers |-> "none"]
    /\ detail = [c \in Callers |-> "none"]
    /\ reported = [c \in Callers |-> NoReport]
    /\ body = [c \in Callers |-> NoBody]
    /\ counters = [started |-> 0, failed |-> 0, canceled |-> 0, timedOut |-> 0]
    /\ base = [answers |-> 0, errors |-> 0]

Goto(c, to) == pc' = [pc EXCEPT ![c] = to]

\* TransportMetricsOptions.Enabled and TransportTracesOptions.Enabled: reading the
\* payload is enough, and the whole transport is instrumented.
Metrics == opts.mRoundTrip \/ opts.mPayload
Traces  == opts.tRoundTrip \/ opts.tPayload

\* newTransport gives up when neither is enabled.
Instrumented == Metrics \/ Traces

\* The 1.27 conventions have no such counters: they are real with the details only.
Counting == Metrics /\ (opts.semConv => opts.mDetails)

\* ParentBased follows the span in the context and draws for a new trace; the
\* other sampler takes everything.
Samples(parent) == IF ~opts.ratio \/ parent = "sampled" THEN {TRUE}
                   ELSE IF parent = "dropped" THEN {FALSE} ELSE BOOLEAN

-----------------------------------------------------------------------------
(* The environment.                                                        *)

CtxEnd(c) ==
    /\ ctx[c] = "live"
    /\ \E how \in CtxEnds : ctx' = [ctx EXCEPT ![c] = how]
    /\ UNCHANGED <<opts, trace, header, pc, attempt, roundtrip, counters, base>>

HookResets(c) ==    \* a broken variant: the start of a lookup clears the last latency
    /\ opts.mDetails \/ opts.tDetails
    /\ pc[c] # "idle"
    /\ detail' = [detail EXCEPT ![c] = IF @ = "started" THEN "done" ELSE "started"]
    /\ UNCHANGED <<opts, ctx, trace, header, pc, attempt, span, sent, result, class,
                   reported, body, counters, base>>

\* DNSStart/DNSDone and TLSHandshakeStart/Done, from the goroutine that dials: it
\* goes on when the round trip has failed or has got another connection.
Hook(c) ==
    /\ opts.mDetails \/ opts.tDetails
    /\ pc[c] # "idle" /\ detail[c] # "done"
    /\ detail' = [detail EXCEPT ![c] = IF @ = "none" THEN "started" ELSE "done"]
    /\ UNCHANGED <<opts, ctx, trace, header, pc, attempt, span, sent, result, class,
                   reported, body, counters, base>>

-----------------------------------------------------------------------------
(* RoundTrip.                                                              *)

Fresh(c) ==
    /\ result' = [result EXCEPT ![c] = "none"]
    /\ class' = [class EXCEPT ![c] = "none"]
    /\ detail' = [detail EXCEPT ![c] = "none"]
    /\ reported' = [reported EXCEPT ![c] = NoReport]
    /\ body' = [body EXCEPT ![c] = NoBody]

BeginInPlace(c) ==    \* a broken variant: the context goes into the caller's header map
    /\ Instrumented
    /\ pc[c] = "idle" /\ attempt[c] < MaxAttempts
    /\ attempt' = [attempt EXCEPT ![c] = @ + 1]
    /\ \E recording \in Samples(trace[c]) :
          LET live == Traces /\ recording IN
          /\ span' = [span EXCEPT ![c] = IF live THEN "live" ELSE "none"]
          /\ header' = [header EXCEPT ![c] = IF live THEN attempt[c] + 1 ELSE @]
          /\ sent' = [sent EXCEPT ![c] = header'[c]]
    /\ Fresh(c)
    /\ Goto(c, "sent")
    /\ UNCHANGED <<opts, ctx, trace, counters, base>>

\* traces.start on a request of the caller's.  Only a recording span goes into the
\* request's context, and into a copy of its header map.
Begin(c) ==
    /\ Instrumented
    /\ pc[c] = "idle" /\ attempt[c] < MaxAttempts
    /\ attempt' = [attempt EXCEPT ![c] = @ + 1]
    /\ \E recording \in Samples(trace[c]) :
          IF Traces /\ recording
          THEN /\ span' = [span EXCEPT ![c] = "live"]
               /\ sent' = [sent EXCEPT ![c] = attempt[c] + 1]
          ELSE /\ span' = [span EXCEPT ![c] = "none"]
               /\ sent' = [sent EXCEPT ![c] = header[c]]
    /\ Fresh(c)
    /\ Goto(c, "sent")
    /\ UNCHANGED <<opts, ctx, trace, header, counters, base>>

\* base.RoundTrip: a response, an error of its own, or that of an ended context.
BaseReturns(c) ==
    /\ pc[c] = "sent"
    /\ \E err \in {"none", "net"} \cup (CtxEnds \cap {ctx[c]}) :
          /\ result' = [result EXCEPT ![c] = err]
          /\ base' = IF err = "none" THEN [base EXCEPT !.answers = @ + 1]
                                     ELSE [base EXCEPT !.errors = @ + 1]
    /\ Goto(c, IF Metrics THEN "report" ELSE "wrap")
    /\ UNCHANGED <<opts, ctx, trace, header, attempt, span, sent, class, detail,
                   reported, body, counters>>

Increment(counter) ==
    counters' = IF Counting THEN [counters EXCEPT ![counter] = @ + 1] ELSE counters

CountStartedIfAnswered(c) ==    \* a broken variant: an early return for errors
    /\ pc[c] = "report"
    /\ IF result[c] = "none" THEN Increment("started") ELSE UNCHANGED counters
    /\ Goto(c, "classify")
    /\ UNCHANGED <<opts, ctx, trace, header, attempt, roundtrip, base>>

\* metrics.report, one Add after the other.
CountStarted(c) ==
    /\ pc[c] = "report"
    /\ Increment("started")
    /\ Goto(c, "classify")
    /\ UNCHANGED <<opts, ctx, trace, header, attempt, roundtrip, base>>

\* A broken variant: cancellations taken for failures.
ClassNoCancel(c) == IF result[c] = "none" THEN "ok"
                    ELSE IF ctx[c] = "deadline" THEN "timedout" ELSE "failed"

\* The error is told apart by what the context says now, not by the error.
ClassOf(c) == IF result[c] = "none" THEN "ok"
              ELSE CASE ctx[c] = "canceled" -> "canceled"
                     [] ctx[c] = "deadline" -> "timedout"
                     [] OTHER               -> "failed"

Classify(c) ==
    /\ pc[c] = "classify"
    /\ class' = [class EXCEPT ![c] = ClassOf(c)]
    /\ CASE ClassOf(c) = "ok"       -> UNCHANGED counters  /\ Goto(c, "details")
         [] ClassOf(c) = "canceled" -> Increment("canceled") /\ Goto(c, "details")
         [] ClassOf(c) = "timedout" -> Increment("timedOut") /\ Goto(c, "failed")
         [] ClassOf(c) = "failed"   -> Increment("failed")   /\ Goto(c, "details")
    /\ UNCHANGED <<opts, ctx, trace, header, attempt, span, sent, result, detail,
                   reported, body, base>>

CountFailedNot(c) ==    \* a broken variant: a timeout is counted as such only
    /\ pc[c] = "failed"
    /\ Goto(c, "details")
    /\ UNCHANGED <<opts, ctx, trace, header, attempt, roundtrip, counters, base>>

\* A timed-out request is a failed one too.
CountFailed(c) ==
    /\ pc[c] = "failed"
    /\ Increment("failed")
    /\ Goto(c, "details")
    /\ UNCHANGED <<opts, ctx, trace, header, attempt, roundtrip, base>>

RecordDetails(c) ==
    /\ pc[c] = "details"
    /\ reported' = [reported EXCEPT ![c].metricDetail = opts.mDetails /\ detail[c] = "done"]
    /\ Goto(c, "wrap")
    /\ UNCHANGED <<opts, ctx, trace, header, attempt, span, sent, result, class, detail,
                   body, counters, base>>

WrapBodyAsCalled(c) ==    \* a broken variant: wrapped with the caller's request
    /\ pc[c] = "wrap"
    /\ body' = IF result[c] = "none" THEN [body EXCEPT ![c].ctx = "caller"] ELSE body
    /\ Goto(c, "end")
    /\ UNCHANGED <<opts, ctx, trace, header, attempt, span, sent, result, class, detail,
                   reported, counters, base>>

\* The body of a response is wrapped with the context of the request as it was sent.
WrapBody(c) ==
    /\ pc[c] = "wrap"
    /\ \E hasBody \in BOOLEAN :
          body' = IF result[c] = "none" /\ hasBody
                  THEN [body EXCEPT ![c].ctx = IF span[c] = "live" THEN "roundtrip" ELSE "caller"]
                  ELSE body
    /\ Goto(c, "end")
    /\ UNCHANGED <<opts, ctx, trace, header, attempt, span, sent, result, class, detail,
                   reported, counters, base>>

EndSpanOk(c) ==    \* a broken variant: the error is not told
    /\ pc[c] = "end"
    /\ IF span[c] = "live"
       THEN /\ span' = [span EXCEPT ![c] = "ended"]
            /\ reported' = [reported EXCEPT ![c].spanStatus = "ok",
                  ![c].spanDetail = opts.tDetails /\ detail[c] = "done"]
       ELSE UNCHANGED <<span, reported>>
    /\ Goto(c, "idle")
    /\ UNCHANGED <<opts, ctx, trace, header, attempt, sent, result, class, detail, body,
                   counters, base>>

\* traces.end: the details go on the span of a response only.
EndSpan(c) ==
    /\ pc[c] = "end"
    /\ IF span[c] = "live"
       THEN /\ span' = [span EXCEPT ![c] = "ended"]
            /\ reported' = [reported EXCEPT
                  ![c].spanStatus = IF result[c] = "none" THEN "ok" ELSE "error",
                  ![c].spanDetail = result[c] = "none" /\ opts.tDetails /\ detail[c] = "done"]
       ELSE UNCHANGED <<span, reported>>
    /\ Goto(c, "idle")
    /\ UNCHANGED <<opts, ctx, trace, header, attempt, sent, result, class, detail, body,
                   counters, base>>

\* The first Read of an instrumented body starts its span, in its context.
ReadBody(c) ==
    /\ pc[c] = "idle"
    /\ body[c].ctx # "none" /\ body[c].span = "none"
    /\ opts.tPayload
    /\ \E recording \in Samples(IF body[c].ctx = "roundtrip" THEN "sampled" ELSE trace[c]) :
          body' = [body EXCEPT ![c].span =
              IF ~recording THEN "dropped"
              ELSE IF body[c].ctx = "roundtrip" THEN "child"
              ELSE IF trace[c] = "none" THEN "root" ELSE "sibling"]
    /\ UNCHANGED <<opts, ctx, trace, header, pc, attempt, span, sent, result, class, detail,
                   reported, counters, base>>

-----------------------------------------------------------------------------
Transport(c) == \/ BaseReturns(c) \/ CountStarted(c) \/ Classify(c) \/ CountFailed(c)
                \/ RecordDetails(c) \/ WrapBody(c) \/ EndSpan(c)

Next == \E c \in Callers :
            CtxEnd(c) \/ Hook(c) \/ Begin(c) \/ Transport(c) \/ ReadBody(c)

Spec == Init /\ [][Next]_vars

-----------------------------------------------------------------------------
Returned(c) == pc[c] = "idle" /\ attempt[c] > 0

\* An attempt carries the context of its own span or none, never that of an earlier
\* one: Inject writes to a copy of the header map (transport_traces.go start).
OwnTraceContext ==
    \A c \in Callers : attempt[c] > 0 =>
        sent[c] = (IF span[c] = "none" THEN 0 ELSE attempt[c])

\* A round trip that has returned has told the same story twice: its span is an error
\* exactly when the counters were told of a failure, a timeout or a cancellation.
SpanTellsTheSame ==
    \A c \in Callers : Returned(c) /\ span[c] # "none" =>
        /\ span[c] = "ended" /\ reported[c].spanStatus # "unset"
        /\ Metrics => (reported[c].spanStatus = "ok" <=> class[c] = "ok")

\* An error that came from the end of the context is counted as that end, though
\* the context is read after the error (report): it can only have ended once.
CtxErrorsClassified ==
    \A c \in Callers : class[c] # "none" =>
        /\ result[c] = "canceled" => class[c] = "canceled"
        /\ result[c] = "deadline" => class[c] = "timedout"
        /\ class[c] = "failed" => result[c] = "net"

\* The span is written after the metrics and the hooks go on in between: it never
\* lacks a connection detail that the metrics had.
SpanHasTheDetails ==
    \A c \in Callers :
        Returned(c) /\ span[c] = "ended" /\ result[c] = "none" /\ opts.tDetails =>
            (reported[c].metricDetail => reported[c].spanDetail)

\* The span of reading a body is the child of its round trip's, if that was recorded.
BodyJoinsRoundTrip ==
    \A c \in Callers :
        span[c] = "ended" /\ body[c].span # "none" => body[c].span = "child"

\* Between any two Adds of report the counters are a ledger: one request more in one
\* of them at each step, and never an end of a request that was not started.
Ledger == INSTANCE OutcomeLedger WITH ledger <- counters
CountsAsLedger == Ledger!Spec

\* With no round trip under way, every answer and every error of the base has been
\* counted, each error once among the failed or the canceled.
OutcomesAddUp ==
    Counting /\ (\A c \in Callers : pc[c] = "idle") =>
        /\ counters.started = base.answers + base.errors
        /\ counters.failed + counters.canceled = base.errors
        /\ counters.timedOut <= counters.failed
=============================================================================

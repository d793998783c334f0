--------------------------- MODULE ServerTracking ---------------------------
(***************************************************************************)
(* The global layer: trackingHandler.ServeHTTP around the router, the      *)
(* response writer that watches what the router answers, and the gin       *)
(* wrapper that tells it which endpoint matched.  Each request runs in its *)
(* own goroutine on its own tracking struct; what requests of one endpoint *)
(* share is the backing array of its static attributes.  net/http, the     *)
(* router's handlers and the SDK are external.                             *)
(***************************************************************************)
EXTENDS Naturals, Sequences

CONSTANTS Requests,     \* the requests served, all of them of one endpoint
          Codes,        \* the statuses handlers answer, "200" among them
          Informational,\* those that do not commit the answer (1xx)
          StaticLen,    \* static metric attributes configured for the endpoint
          MaxHijacks    \* bound on the calls of Hijack of one request

ASSUME CodesAssumption  == "200" \in Codes \ Informational /\ "nothing" \notin Codes
ASSUME StaticAssumption == StaticLen \in 0..256
ASSUME HijackAssumption == MaxHijacks \in Nat

VARIABLES
    cfg,        \* which of metrics, traces and propagation are enabled
    pc,         \* where each request is
    resume,     \* where it goes after the report: "handler" from the hijack callback
    matched,    \* endpointPattern and the static attributes are set
    status,     \* tracking.responseStatus
    writeErr,   \* tracking.writeErrs is not empty
    hijacks,    \* calls of Hijack; tracking.isHijacked is hijacks > 0
    hijackErr,  \* tracking.hijackedErr is not nil
    span,       \* tracking.span
    spanEnds,   \* what each End of the span says, in order
    records,    \* what each metrics report of the request says, in order
    spare,      \* the status in the spare cells of the shared attributes
    wire,       \* what the client has been sent
    sloppy      \* the handler has sent a 1xx, or a status after the answer began

tracking == <<matched, status, writeErr, hijacks, hijackErr>>
observed == <<spanEnds, records>>
answer   == <<wire, sloppy>>
vars == <<cfg, pc, resume, tracking, span, observed, spare, answer>>

Routes == {"pattern", "upgraded"} \cup Codes

SpanEnd == [status : Codes, route : Routes, failed : BOOLEAN,
            hijacked : BOOLEAN, hijackFailed : BOOLEAN]
Record  == [status : Codes, route : Routes, served : BOOLEAN]

TypeOK ==
    /\ cfg \in [metrics : BOOLEAN, traces : BOOLEAN, prop : BOOLEAN]
    /\ pc \in [Requests -> {"idle", "handler", "finish", "append", "record",
                            "done", "skipped", "panicked"}]
    /\ resume \in [Requests -> {"handler", "done"}]
    /\ matched \in [Requests -> BOOLEAN]
    /\ status \in [Requests -> Codes]
    /\ writeErr \in [Requests -> BOOLEAN]
    /\ hijacks \in [Requests -> 0..MaxHijacks]
    /\ hijackErr \in [Requests -> BOOLEAN]
    /\ span \in [Requests -> {"none", "remote", "dropped", "live", "ended"}]
    /\ spanEnds \in [Requests -> Seq(SpanEnd)]
    /\ records \in [Requests -> Seq(Record)]
    /\ spare \in Codes
    /\ wire \in [Requests -> Codes \cup {"nothing", "hijacked"}]
    /\ sloppy \in [Requests -> BOOLEAN]

\* newTracking assumes the answer net/http gives a handler that sets no status.
ZeroStatus    == "0"        \* a broken variant: the zero value of the field
DefaultStatus == "200"

\* NewTrackingHandler returns the bare handler when nothing is enabled.
Init ==
    /\ cfg \in [metrics : BOOLEAN, traces : BOOLEAN, prop : BOOLEAN]
    /\ cfg.metrics \/ cfg.traces \/ cfg.prop
    /\ pc = [r \in Requests |-> "idle"]
    /\ resume = [r \in Requests |-> "done"]
    /\ matched = [r \in Requests |-> FALSE]
    /\ status = [r \in Requests |-> DefaultStatus]
    /\ writeErr = [r \in Requests |-> FALSE]
    /\ hijacks = [r \in Requests |-> 0]
    /\ hijackErr = [r \in Requests |-> FALSE]
    /\ span = [r \in Requests |-> "none"]
    /\ spanEnds = [r \in Requests |-> <<>>]
    /\ records = [r \in Requests |-> <<>>]
    /\ spare = "200"
    /\ wire = [r \in Requests |-> "nothing"]
    /\ sloppy = [r \in Requests |-> FALSE]

Goto(r, to) == pc' = [pc EXCEPT ![r] = to]

\* The tracking response writer is only put in when something is reported.
Wrapped == cfg.metrics \/ cfg.traces

\* tracking.EndpointPattern: the matched pattern, else the upgrade, else the status.
Route(r) == IF matched[r] THEN "pattern"
            ELSE IF hijacks[r] > 0 THEN "upgraded" ELSE status[r]

\* The attributes are built by appending one by one to a nil slice, whose
\* capacity doubles: the smallest power of two that holds them.
Capacities == {1, 2, 4, 8, 16, 32, 64, 128, 256}
Cap(n) == CHOOSE c \in Capacities :
              c >= n /\ \A d \in Capacities : d >= n => c <= d

\* report appends four attributes to the slice of the endpoint: they go to the
\* array that all its requests share when it has room for them.
Aliased == StaticLen > 0 /\ StaticLen + 4 <= Cap(StaticLen)

-----------------------------------------------------------------------------
(* Broken variants of the steps below, each a bug the code could have.     *)

\* A response writer that does not watch the status.
WriteHeaderUntracked(r, c) ==
    /\ pc[r] = "handler"
    /\ wire' = IF c \in Informational \/ wire[r] # "nothing" THEN wire
               ELSE [wire EXCEPT ![r] = c]
    /\ sloppy' = [sloppy EXCEPT ![r] = @ \/ c \in Informational \/ wire[r] # "nothing"]
    /\ UNCHANGED <<cfg, pc, resume, tracking, span, observed, spare>>

\* Hijack that calls back only with a connection in hand, or never.
HijackCallsBack(r, when(_)) ==
    /\ pc[r] = "handler" /\ hijacks[r] < MaxHijacks /\ Wrapped
    /\ \E fails \in BOOLEAN :
          /\ wire[r] = "hijacked" => fails
          /\ wire' = IF fails THEN wire ELSE [wire EXCEPT ![r] = "hijacked"]
          /\ hijackErr' = [hijackErr EXCEPT ![r] = fails]
          /\ Goto(r, IF when(fails) THEN "finish" ELSE "handler")
    /\ hijacks' = [hijacks EXCEPT ![r] = @ + 1]
    /\ resume' = [resume EXCEPT ![r] = "handler"]
    /\ UNCHANGED <<cfg, matched, status, writeErr, span, observed, spare, sloppy>>
HijackReportsSuccess(r) == HijackCallsBack(r, LAMBDA fails : ~fails)
HijackReportsNothing(r) == HijackCallsBack(r, LAMBDA fails : FALSE)

-----------------------------------------------------------------------------
(* ServeHTTP up to the call of the next handler.                           *)

Skip(r) ==
    /\ pc[r] = "idle"
    /\ Goto(r, "skipped")
    /\ UNCHANGED <<cfg, resume, tracking, span, observed, spare, answer>>

\* traces.start: a sampled-out span is there and records nothing.  With no traces of
\* its own the request may carry the caller's span, which Extract found.
FirstSpans == IF cfg.traces THEN {"dropped", "live"}
              ELSE {"none"} \cup (IF cfg.prop THEN {"remote"} ELSE {})

\* newTracking, Extract, the response writer, Start and traces.start only touch
\* what belongs to the request.
Begin(r) ==
    /\ pc[r] = "idle"
    /\ \E s \in FirstSpans : span' = [span EXCEPT ![r] = s]
    /\ Goto(r, "handler")
    /\ UNCHANGED <<cfg, resume, tracking, observed, spare, answer>>

-----------------------------------------------------------------------------
(* What the router and its handlers do with the request, in any order.     *)

\* SetEndpointPattern and SetStaticAttributtes, called by the gin wrapper.
Match(r) ==
    /\ pc[r] = "handler" /\ ~matched[r]
    /\ matched' = [matched EXCEPT ![r] = TRUE]
    /\ UNCHANGED <<cfg, pc, resume, status, writeErr, hijacks, hijackErr,
                   span, observed, spare, answer>>

\* The first byte commits the answer, as net/http does, with 200.
Commit(r, c) == IF wire[r] = "nothing" THEN [wire EXCEPT ![r] = c] ELSE wire

Write(r) ==
    /\ pc[r] = "handler"
    /\ \E fails \in BOOLEAN :
          /\ wire[r] = "hijacked" => fails
          /\ writeErr' = [writeErr EXCEPT ![r] = @ \/ (fails /\ Wrapped)]
    /\ wire' = Commit(r, "200")
    /\ UNCHANGED <<cfg, pc, resume, matched, status, hijacks, hijackErr,
                   span, observed, spare, sloppy>>

WriteHeader(r, c) ==
    /\ pc[r] = "handler"
    /\ status' = IF Wrapped THEN [status EXCEPT ![r] = c] ELSE status
    /\ wire' = IF c \in Informational THEN wire ELSE Commit(r, c)
    /\ sloppy' = [sloppy EXCEPT ![r] = @ \/ c \in Informational \/ wire[r] # "nothing"]
    /\ UNCHANGED <<cfg, pc, resume, matched, writeErr, hijacks, hijackErr,
                   span, observed, spare>>

\* Flush passes through and leaves the tracking alone.
Flush(r) ==
    /\ pc[r] = "handler"
    /\ wire' = Commit(r, "200")
    /\ UNCHANGED <<cfg, pc, resume, tracking, span, observed, spare, sloppy>>

\* Hijack marks the tracking whether it got the connection or not, then calls
\* back into ServeHTTP, which reports the request.
Hijack(r) ==
    /\ pc[r] = "handler" /\ hijacks[r] < MaxHijacks
    /\ \E fails \in BOOLEAN :
          /\ wire[r] = "hijacked" => fails
          /\ wire' = IF fails THEN wire ELSE [wire EXCEPT ![r] = "hijacked"]
          /\ hijackErr' = [hijackErr EXCEPT ![r] = IF Wrapped THEN fails ELSE @]
    /\ hijacks' = [hijacks EXCEPT ![r] = IF Wrapped THEN @ + 1 ELSE @]
    /\ resume' = [resume EXCEPT ![r] = IF Wrapped THEN "handler" ELSE @]
    /\ Goto(r, IF Wrapped THEN "finish" ELSE "handler")
    /\ UNCHANGED <<cfg, matched, status, writeErr, span, observed, spare, sloppy>>

Return(r) ==
    /\ pc[r] = "handler"
    /\ Goto(r, "finish")
    /\ resume' = [resume EXCEPT ![r] = "done"]
    /\ UNCHANGED <<cfg, tracking, span, observed, spare, answer>>

\* Nothing in ServeHTTP is deferred: a panic goes past it.
Panic(r) ==
    /\ pc[r] = "handler"
    /\ Goto(r, "panicked")
    /\ UNCHANGED <<cfg, resume, tracking, span, observed, spare, answer>>

-----------------------------------------------------------------------------
(* The report: Finish, traces.end and metrics.report.                      *)

\* Finish takes the latency; traces.end ends the span, if it is to, with what the
\* tracking says now; metrics.report follows.
FinishWhen(r, ends) ==
    /\ pc[r] = "finish"
    /\ IF cfg.traces /\ ends
       THEN /\ span' = [span EXCEPT ![r] = "ended"]
            /\ spanEnds' = [spanEnds EXCEPT ![r] = Append(@,
                  [status |-> status[r], route |-> Route(r), failed |-> writeErr[r],
                   hijacked |-> hijacks[r] > 0,
                   hijackFailed |-> hijacks[r] > 0 /\ hijackErr[r]])]
       ELSE UNCHANGED <<span, spanEnds>>
    /\ Goto(r, IF cfg.metrics THEN "append" ELSE resume[r])
    /\ UNCHANGED <<cfg, resume, tracking, records, spare, answer>>

\* Broken variants: traces.end for any span there is, or on the way out only.
FinishAnySpan(r)      == FinishWhen(r, span[r] # "dropped")
FinishSpanOnReturn(r) == FinishWhen(r, span[r] = "live" /\ resume[r] = "done")

\* traces.end returns early for a span that is not recording, ended ones included.
Finish(r) == FinishWhen(r, span[r] = "live")

SharesArray(r) == Aliased /\ matched[r]

\* The append of metrics.report writes its cells, in an array of its own or in
\* the shared one; WithAttributes copies them later.
AppendAttrs(r) ==
    /\ pc[r] = "append"
    /\ spare' = IF SharesArray(r) THEN status[r] ELSE spare
    /\ Goto(r, "record")
    /\ UNCHANGED <<cfg, resume, tracking, span, observed, answer>>

RecordMetrics(r) ==
    /\ pc[r] = "record"
    /\ records' = [records EXCEPT ![r] = Append(@,
          [status |-> IF SharesArray(r) THEN spare ELSE status[r],
           route |-> Route(r), served |-> resume[r] = "done"])]
    /\ Goto(r, resume[r])
    /\ UNCHANGED <<cfg, resume, tracking, span, spanEnds, spare, answer>>

-----------------------------------------------------------------------------
Reporting(r) == Finish(r) \/ AppendAttrs(r) \/ RecordMetrics(r)

Handling(r) == \/ Match(r) \/ Write(r) \/ Flush(r) \/ Hijack(r) \/ Return(r) \/ Panic(r)
               \/ \E c \in Codes : WriteHeader(r, c)

Over == {"done", "skipped", "panicked"}
Terminating == (\A r \in Requests : pc[r] \in Over) /\ UNCHANGED vars

Next == \/ \E r \in Requests : Skip(r) \/ Begin(r) \/ Handling(r) \/ Reporting(r)
        \/ Terminating

\* A handler may take for ever; the report around it may not.
Spec     == Init /\ [][Next]_vars
FairSpec == Spec /\ \A r \in Requests : WF_vars(Reporting(r))

-----------------------------------------------------------------------------
\* Every live span is ended once, however many times the request is reported, and
\* only a panic leaves one open (server.go callback and ServeHTTP, traces.end).
SpanEndedOnce ==
    \A r \in Requests :
        /\ Len(spanEnds[r]) = (IF span[r] = "ended" THEN 1 ELSE 0)
        /\ span[r] = "live" /\ pc[r] \in Over => pc[r] = "panicked"

\* A finished request has one metrics report more than it was hijacked, failed
\* attempts included: the callback reports and ServeHTTP reports again.
ReportsMatchHijacks ==
    \A r \in Requests :
        pc[r] = "done" /\ cfg.metrics => Len(records[r]) = hijacks[r] + 1

\* For a handler that sets its status once, before the answer begins, and does not
\* take the connection, the status reported is the one the client was sent.
Sent(r) == IF wire[r] = "nothing" THEN "200" ELSE wire[r]
SentStatusRecorded ==
    \A r \in Requests :
        pc[r] = "done" /\ cfg.metrics /\ hijacks[r] = 0 /\ ~sloppy[r]
            => records[r][1].status = Sent(r)

\* The status in a report is that of the request it is about, whatever the other
\* requests of the endpoint do between its append and its copy (metrics.report).
OwnStatus ==
    [][\A r \in Requests :
          records'[r] # records[r] => records'[r][Len(records'[r])].status = status[r]]_vars

\* A request's span and its first metrics report tell the same story: status,
\* route, and whether it was reported from a hijack or when it had been served.
SpanAndMetricAgree ==
    \A r \in Requests : records[r] # <<>> /\ spanEnds[r] # <<>> =>
        /\ records[r][1].status = spanEnds[r][1].status
        /\ records[r][1].route = spanEnds[r][1].route
        /\ records[r][1].served <=> ~spanEnds[r][1].hijacked

\* A connection may be served for as long as the client stays: that it was taken is
\* reported, and its span ended, without waiting for the handler to return.
HijackReported ==
    \A r \in Requests : hijacks[r] > 0 ~>
        span[r] # "live" /\ (cfg.metrics => records[r] # <<>>)

(* What the comments of the code say, and the code does not do.            *)

\* metrics.go:84 the status code is "required if was sent": it is the one sent.
RecordedStatusWasSent ==
    \A r \in Requests :
        pc[r] = "done" /\ cfg.metrics /\ hijacks[r] = 0
            => records[r][1].status = Sent(r)
=============================================================================

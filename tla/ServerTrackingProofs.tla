------------------------ MODULE ServerTrackingProofs ------------------------
(***************************************************************************)
(* For any number of requests, statuses and static attributes: each span   *)
(* is ended once, each hijack is reported, and, when no other request can  *)
(* write the cells a report is made from, span and metrics agree.          *)
(***************************************************************************)
EXTENDS ServerTracking, SequenceTheorems, TLAPS

\* A report is under way, from a hijack or on the way out.
InReport(r) == pc[r] \in {"finish", "append", "record"}

\* Only enabled layers act, and a request not begun has no span.
LayersEnabled(r) ==
    /\ span[r] = "live" => cfg.traces
    /\ pc[r] \in {"append", "record"} => cfg.metrics
    /\ pc[r] \in {"idle", "skipped"} => span[r] = "none" /\ hijacks[r] = 0

\* The first pass of a report ends the span: after it no span is live, and a hijack
\* goes straight to a report.
SpanInv(r) ==
    /\ Len(spanEnds[r]) = (IF span[r] = "ended" THEN 1 ELSE 0)
    /\ pc[r] \in {"append", "record", "done"} => span[r] # "live"
    /\ hijacks[r] > 0 /\ pc[r] # "finish" => span[r] # "live"

\* Every hijack is reported, or being reported; a finished request once more.
CountInv(r) ==
    cfg.metrics =>
        Len(records[r]) + (IF InReport(r) /\ resume[r] = "handler" THEN 1 ELSE 0)
            = hijacks[r] + (IF pc[r] = "done" THEN 1 ELSE 0)

RequestInv(r) == LayersEnabled(r) /\ SpanInv(r) /\ CountInv(r)

IInv == TypeOK /\ \A r \in Requests : RequestInv(r)

-----------------------------------------------------------------------------
\* What Append does to the length and to the first element.
LEMMA AppendFirst ==
    ASSUME NEW S, NEW s \in Seq(S), NEW e \in S
    PROVE  /\ Append(s, e) \in Seq(S)
           /\ Append(s, e) # <<>>
           /\ Len(Append(s, e)) = Len(s) + 1
           /\ s = <<>> => Append(s, e)[1] = e
           /\ s # <<>> => Append(s, e)[1] = s[1]
<1>1. /\ Append(s, e) \in Seq(S) /\ Append(s, e) # <<>>
      /\ Len(Append(s, e)) = Len(s) + 1
      /\ \A i \in 1..Len(s) : Append(s, e)[i] = s[i]
      /\ Append(s, e)[Len(s) + 1] = e
  BY AppendProperties
<1>2. s = <<>> => Len(s) = 0
  BY EmptySeq
<1>3. s # <<>> => 1 \in 1..Len(s)
  BY EmptySeq, LenProperties
<1> QED BY <1>1, <1>2, <1>3

\* The route of a request is one of those a report can carry.
LEMMA RouteType == TypeOK => \A r \in Requests : Route(r) \in Routes
BY DEF TypeOK, Route, Routes

\* The defaults of a new tracking satisfy the invariant.
LEMMA InitIInv == Init => IInv
<1> SUFFICES ASSUME Init PROVE IInv
  OBVIOUS
<1>1. TypeOK
  <2>1. <<>> \in Seq(SpanEnd) /\ <<>> \in Seq(Record)
    BY EmptySeq
  <2>2. spanEnds \in [Requests -> Seq(SpanEnd)] /\ records \in [Requests -> Seq(Record)]
    BY <2>1 DEF Init
  <2>3. /\ status \in [Requests -> Codes] /\ spare \in Codes
        /\ hijacks \in [Requests -> 0..MaxHijacks]
    BY CodesAssumption, HijackAssumption DEF Init, DefaultStatus
  <2>4. /\ cfg \in [metrics : BOOLEAN, traces : BOOLEAN, prop : BOOLEAN]
        /\ pc \in [Requests -> {"idle", "handler", "finish", "append", "record",
                                "done", "skipped", "panicked"}]
        /\ resume \in [Requests -> {"handler", "done"}]
        /\ matched \in [Requests -> BOOLEAN]
        /\ writeErr \in [Requests -> BOOLEAN]
        /\ hijackErr \in [Requests -> BOOLEAN]
        /\ span \in [Requests -> {"none", "remote", "dropped", "live", "ended"}]
        /\ wire \in [Requests -> Codes \cup {"nothing", "hijacked"}]
        /\ sloppy \in [Requests -> BOOLEAN]
    BY DEF Init
  <2> QED BY <2>2, <2>3, <2>4 DEF TypeOK
<1>2. ASSUME NEW r \in Requests PROVE RequestInv(r)
  <2>1. Len(spanEnds[r]) = 0 /\ Len(records[r]) = 0
    BY EmptySeq DEF Init
  <2> QED BY <2>1 DEF Init, RequestInv, LayersEnabled, SpanInv, CountInv, InReport
<1> QED BY <1>1, <1>2 DEF IInv

\* Each step keeps the types.
LEMMA NextTypeOK == TypeOK /\ [Next]_vars => TypeOK'
<1> SUFFICES ASSUME TypeOK, [Next]_vars PROVE TypeOK'
  OBVIOUS
<1> USE CodesAssumption, HijackAssumption
    DEF TypeOK, Goto, tracking, observed, answer, Commit
<1>1. ASSUME NEW r \in Requests, Skip(r) \/ Return(r) \/ Panic(r) \/ Match(r)
      PROVE  TypeOK'
  <2>1. CASE Skip(r)    BY <2>1 DEF Skip
  <2>2. CASE Return(r)  BY <2>2 DEF Return
  <2>3. CASE Panic(r)   BY <2>3 DEF Panic
  <2>4. CASE Match(r)   BY <2>4 DEF Match
  <2> QED  BY <1>1, <2>1, <2>2, <2>3, <2>4
<1>2. ASSUME NEW r \in Requests, Begin(r) PROVE TypeOK'
  BY <1>2 DEF Begin, FirstSpans
<1>3. ASSUME NEW r \in Requests, Write(r) PROVE TypeOK'
  BY <1>3 DEF Write, Wrapped
<1>4. ASSUME NEW r \in Requests, NEW c \in Codes, WriteHeader(r, c) PROVE TypeOK'
  BY <1>4 DEF WriteHeader
<1>5. ASSUME NEW r \in Requests, Flush(r) PROVE TypeOK'
  BY <1>5 DEF Flush
<1>6. ASSUME NEW r \in Requests, Hijack(r) PROVE TypeOK'
  BY <1>6 DEF Hijack
<1>7. ASSUME NEW r \in Requests, Finish(r) PROVE TypeOK'
  <2> DEFINE e == [status |-> status[r], route |-> Route(r), failed |-> writeErr[r],
                   hijacked |-> hijacks[r] > 0,
                   hijackFailed |-> hijacks[r] > 0 /\ hijackErr[r]]
  <2>1. e \in SpanEnd
    <3>1. Route(r) \in Routes /\ status[r] \in Codes /\ writeErr[r] \in BOOLEAN
      BY RouteType
    <3>2. (hijacks[r] > 0) \in BOOLEAN
      BY SMT
    <3>3. (hijacks[r] > 0 /\ hijackErr[r]) \in BOOLEAN
      BY SMT
    <3> QED BY <3>1, <3>2, <3>3, Zenon DEF SpanEnd
  <2>2. Append(spanEnds[r], e) \in Seq(SpanEnd)
    BY <2>1, AppendFirst
  <2> HIDE DEF e
  <2>3. spanEnds' \in [Requests -> Seq(SpanEnd)]
    BY <1>7, <2>2 DEF Finish, FinishWhen, e
  <2> QED BY <1>7, <2>3 DEF Finish, FinishWhen
<1>8. ASSUME NEW r \in Requests, AppendAttrs(r) PROVE TypeOK'
  BY <1>8 DEF AppendAttrs
<1>9. ASSUME NEW r \in Requests, RecordMetrics(r) PROVE TypeOK'
  <2> DEFINE e == [status |-> IF SharesArray(r) THEN spare ELSE status[r],
                   route |-> Route(r), served |-> resume[r] = "done"]
  <2>1. e \in Record
    BY RouteType DEF Record
  <2>2. Append(records[r], e) \in Seq(Record)
    BY <2>1, AppendFirst
  <2> HIDE DEF e
  <2>3. records' \in [Requests -> Seq(Record)]
    BY <1>9, <2>2 DEF RecordMetrics, e
  <2> QED BY <1>9, <2>3 DEF RecordMetrics
<1>10. CASE Terminating \/ UNCHANGED vars
  BY <1>10 DEF Terminating, vars
<1> QED BY <1>1, <1>2, <1>3, <1>4, <1>5, <1>6, <1>7, <1>8, <1>9, <1>10
     DEF Next, Handling, Reporting

StepOf(r) == Skip(r) \/ Begin(r) \/ Handling(r) \/ Reporting(r)

\* What the step of a request leaves alone in another one.
Unmoved(q) ==
    /\ pc'[q] = pc[q] /\ resume'[q] = resume[q] /\ span'[q] = span[q]
    /\ matched'[q] = matched[q] /\ status'[q] = status[q] /\ hijacks'[q] = hijacks[q]
    /\ spanEnds'[q] = spanEnds[q] /\ records'[q] = records[q]
    /\ wire'[q] = wire[q] /\ sloppy'[q] = sloppy[q]

\* Requests only share the spare cells: a step of one moves no other.
LEMMA StepsAreLocal ==
    ASSUME TypeOK, NEW r \in Requests, StepOf(r)
    PROVE  cfg' = cfg /\ \A q \in Requests \ {r} : Unmoved(q)
<1> USE DEF TypeOK, Goto, tracking, observed, answer, Unmoved
<1>1. CASE Skip(r) \/ Begin(r) \/ Match(r) \/ Return(r) \/ Panic(r)
  BY <1>1 DEF Skip, Begin, FirstSpans, Match, Return, Panic
<1>2. CASE Write(r) \/ Flush(r) \/ \E c \in Codes : WriteHeader(r, c)
  BY <1>2 DEF Write, Flush, WriteHeader, Commit
<1>3. CASE Hijack(r)
  BY <1>3 DEF Hijack
<1>4. CASE Finish(r)
  BY <1>4 DEF Finish, FinishWhen
<1>5. CASE AppendAttrs(r) \/ RecordMetrics(r)
  BY <1>5 DEF AppendAttrs, RecordMetrics
<1> QED BY <1>1, <1>2, <1>3, <1>4, <1>5 DEF StepOf, Handling, Reporting

\* While its handler runs, a request has one report per hijack.
LEMMA HandlerCount ==
    ASSUME IInv, NEW r \in Requests, pc[r] = "handler", cfg.metrics
    PROVE  Len(records[r]) = hijacks[r]
<1>1. Len(records[r]) \in Nat /\ hijacks[r] \in Nat
  BY LenProperties, HijackAssumption DEF IInv, TypeOK
<1>2. CountInv(r) /\ ~InReport(r)
  BY DEF IInv, RequestInv, InReport
<1> QED BY <1>1, <1>2 DEF CountInv

\* The invariant of a request survives each of its own steps.
LEMMA OwnStep ==
    ASSUME IInv, NEW r \in Requests, StepOf(r)
    PROVE  RequestInv(r)'
<1> USE DEF IInv, TypeOK, Goto, tracking, observed, answer,
            RequestInv, LayersEnabled, SpanInv, CountInv, InReport
<1>0. /\ spanEnds[r] \in Seq(SpanEnd) /\ Len(spanEnds[r]) \in Nat
      /\ records[r] \in Seq(Record) /\ Len(records[r]) \in Nat
      /\ hijacks[r] \in Nat
  BY LenProperties, HijackAssumption
<1>1. CASE Skip(r) \/ Match(r) \/ Panic(r)
  <2>1. CASE Skip(r)   BY <2>1 DEF Skip
  <2>2. CASE Match(r)  BY <2>2 DEF Match
  <2>3. CASE Panic(r)  BY <2>3 DEF Panic
  <2> QED BY <1>1, <2>1, <2>2, <2>3
<1>2. CASE Return(r)
  BY <1>2 DEF Return
<1>3. CASE Begin(r)
  <2>1. /\ pc[r] = "idle" /\ pc'[r] = "handler" /\ hijacks[r] = 0
        /\ UNCHANGED <<cfg, hijacks, spanEnds, records>>
    BY <1>3 DEF Begin
  <2>2. /\ span[r] = "none" /\ span'[r] # "ended"
        /\ span'[r] = "live" => cfg.traces
    BY <1>3, <2>1 DEF Begin, FirstSpans
  <2>3. ~(hijacks'[r] > 0)
    BY <2>1
  <2> QED BY <1>0, <2>1, <2>2, <2>3
<1>4. CASE Write(r) \/ Flush(r) \/ \E c \in Codes : WriteHeader(r, c)
  BY <1>4 DEF Write, Flush, WriteHeader
<1>5. CASE Hijack(r)
  <2>1. /\ cfg' = cfg /\ span' = span /\ spanEnds' = spanEnds /\ records' = records
        /\ pc[r] = "handler"
    BY <1>5 DEF Hijack
  <2>2. CASE Wrapped
    <3>1. /\ pc'[r] = "finish" /\ resume'[r] = "handler"
          /\ hijacks'[r] = hijacks[r] + 1 /\ hijacks[r] \in Nat
      BY <1>5, <2>2, HijackAssumption DEF Hijack
    <3>2. LayersEnabled(r)' /\ SpanInv(r)'
      BY <2>1, <3>1
    <3>3. cfg.metrics => Len(records[r]) = hijacks[r]
      BY <2>1, HandlerCount
    <3>4. CountInv(r)'
      BY <1>0, <2>1, <3>1, <3>3
    <3> QED BY <3>2, <3>4
  <2>3. CASE ~Wrapped
    <3>1. /\ pc'[r] = "handler" /\ ~cfg.metrics /\ ~cfg.traces
          /\ hijacks' = hijacks
      BY <1>5, <2>3 DEF Hijack, Wrapped
    <3>2. span[r] # "live"
      BY <3>1
    <3> QED BY <2>1, <3>1, <3>2
  <2> QED BY <2>2, <2>3
<1>6. CASE Finish(r)
  <2>1. CASE cfg.traces /\ span[r] = "live"
    <3>1. Len(spanEnds'[r]) = 1 /\ span'[r] = "ended"
      BY <1>0, <1>6, <2>1, NextTypeOK DEF Finish, FinishWhen
    <3> QED BY <1>6, <2>1, <3>1 DEF Finish, FinishWhen
  <2>2. CASE ~(cfg.traces /\ span[r] = "live")
    BY <1>6, <2>2 DEF Finish, FinishWhen
  <2> QED BY <2>1, <2>2
<1>7. CASE AppendAttrs(r)
  BY <1>7 DEF AppendAttrs
<1>8. CASE RecordMetrics(r)
  <2>1. Len(records'[r]) = Len(records[r]) + 1
    BY <1>0, <1>8 DEF RecordMetrics
  <2> QED BY <1>0, <1>8, <2>1, HijackAssumption DEF RecordMetrics
<1> QED BY <1>1, <1>2, <1>3, <1>4, <1>5, <1>6, <1>7, <1>8 DEF StepOf, Handling, Reporting

\* The invariant behind the theorems.
THEOREM IInvAlways == Spec => []IInv
<1>1. IInv /\ [Next]_vars => IInv'
  <2> SUFFICES ASSUME IInv, [Next]_vars PROVE IInv'
    OBVIOUS
  <2>1. TypeOK'
    BY NextTypeOK DEF IInv
  <2>2. ASSUME NEW r \in Requests, StepOf(r), NEW q \in Requests PROVE RequestInv(q)'
    <3>1. CASE q = r
      BY <2>2, <3>1, OwnStep
    <3>2. CASE q # r
      <4>1. cfg' = cfg /\ Unmoved(q)
        BY <2>2, <3>2, StepsAreLocal DEF IInv
      <4>2. RequestInv(q)
        BY DEF IInv
      <4> QED BY <4>1, <4>2 DEF Unmoved, RequestInv, LayersEnabled, SpanInv, CountInv,
                InReport
    <3> QED BY <3>1, <3>2
  <2>3. ASSUME UNCHANGED vars, NEW q \in Requests PROVE RequestInv(q)'
    BY <2>3 DEF vars, tracking, observed, IInv, RequestInv, LayersEnabled, SpanInv,
                CountInv, InReport
  <2>4. (\E r \in Requests : StepOf(r)) \/ UNCHANGED vars
    BY DEF Next, StepOf, Terminating
  <2>5. ASSUME NEW q \in Requests PROVE RequestInv(q)'
    BY <2>2, <2>3, <2>4
  <2> QED BY <2>1, <2>5 DEF IInv
<1> QED BY InitIInv, <1>1, PTL DEF Spec

\* The tracking of every request keeps its types.
THEOREM TypeCorrect == Spec => []TypeOK
BY IInvAlways, PTL DEF IInv

\* However often a request is reported, traces.end ends its span once, and no
\* request but a panicking one leaves a live span behind.
THEOREM SpansEndOnce == Spec => []SpanEndedOnce
<1>1. IInv => SpanEndedOnce
  BY DEF IInv, RequestInv, SpanInv, LayersEnabled, SpanEndedOnce, Over
<1> QED BY <1>1, IInvAlways, PTL

\* A served request has a metrics report for each hijack attempt and one more.
THEOREM ReportsFollowHijacks == Spec => []ReportsMatchHijacks
<1>1. IInv => ReportsMatchHijacks
  <2> SUFFICES ASSUME IInv, NEW r \in Requests, pc[r] = "done", cfg.metrics
               PROVE  Len(records[r]) = hijacks[r] + 1
    BY DEF ReportsMatchHijacks
  <2>1. Len(records[r]) \in Nat
    BY LenProperties DEF IInv, TypeOK
  <2>2. hijacks[r] \in Nat
    BY HijackAssumption DEF IInv, TypeOK
  <2>3. CountInv(r) /\ ~InReport(r)
    BY DEF IInv, RequestInv, InReport
  <2> QED BY <2>1, <2>2, <2>3 DEF CountInv
<1> QED BY <1>1, IInvAlways, PTL

-----------------------------------------------------------------------------
(* A hijack has been reported by the time the handler goes on.             *)

\* Whatever a request does but report, its hijacks have been reported: the span is
\* not live any more and there is a metrics report.  The safety half of HijackReported.
HijackReportedFirst ==
    \A r \in Requests : hijacks[r] > 0 /\ ~InReport(r) =>
        span[r] # "live" /\ (cfg.metrics => records[r] # <<>>)

\* The callback reports before Hijack returns: no handler goes on, returns or panics
\* with a connection in hand that has not been reported.
THEOREM HijacksAreReportedFirst == Spec => []HijackReportedFirst
<1>1. IInv => HijackReportedFirst
  <2> SUFFICES ASSUME IInv, NEW r \in Requests, hijacks[r] > 0, ~InReport(r)
               PROVE  span[r] # "live" /\ (cfg.metrics => records[r] # <<>>)
    BY DEF HijackReportedFirst
  <2>1. hijacks[r] \in Nat /\ Len(records[r]) \in Nat
    BY LenProperties, HijackAssumption DEF IInv, TypeOK
  <2>2. span[r] # "live"
    BY DEF IInv, RequestInv, SpanInv, InReport
  <2>3. cfg.metrics => Len(records[r]) > 0
    <3>1. CountInv(r)
      BY DEF IInv, RequestInv
    <3> QED BY <2>1, <3>1 DEF CountInv
  <2>4. records[r] = <<>> => Len(records[r]) = 0
    BY EmptySeq
  <2> QED BY <2>1, <2>2, <2>3, <2>4
<1> QED BY <1>1, IInvAlways, PTL

-----------------------------------------------------------------------------
(* The cells of the endpoint's array, and the status a report reads there. *)

\* No two requests write the same cells: the append always finds the array too
\* short, or there is no other request.
CellsApart == ~Aliased \/ \E r \in Requests : Requests = {r}

\* A report finds its own status in the cells it wrote.
CellInv == \A r \in Requests : pc[r] = "record" /\ SharesArray(r) => spare = status[r]

\* Between the append of a report and its copy nobody writes the cells.
LEMMA CellsAreOwn ==
    ASSUME CellsApart
    PROVE  Spec => []CellInv
<1>1. Init => CellInv
  BY DEF Init, CellInv
<1>2. CellInv /\ TypeOK /\ [Next]_vars => CellInv'
  <2> SUFFICES ASSUME CellInv, TypeOK, [Next]_vars, NEW q \in Requests,
                      pc'[q] = "record", SharesArray(q)'
               PROVE  spare' = status'[q]
    BY DEF CellInv
  <2>1. Aliased /\ matched'[q]
    BY DEF SharesArray
  <2>2. CASE UNCHANGED vars
    BY <2>1, <2>2 DEF vars, tracking, CellInv, SharesArray
  <2>3. ASSUME StepOf(q) PROVE spare' = status'[q]
    <3>1. AppendAttrs(q)
      BY <2>3 DEF StepOf, Handling, Reporting, Skip, Begin, Match, Write, Flush, Hijack,
         Return, Panic, WriteHeader, Finish, FinishWhen, RecordMetrics, Goto, TypeOK
    <3>2. SharesArray(q)
      BY <2>1, <3>1 DEF AppendAttrs, SharesArray, tracking
    <3> QED BY <3>1, <3>2 DEF AppendAttrs, tracking
  <2>4. (\E r \in Requests : StepOf(r)) => StepOf(q)
    BY <2>1 DEF CellsApart
  <2> QED BY <2>2, <2>3, <2>4 DEF Next, StepOf, Terminating
<1> QED BY <1>1, <1>2, TypeCorrect, PTL DEF Spec

-----------------------------------------------------------------------------
(* The span and the first metrics report, when cells are not shared.       *)

\* The two reports, and the state a report is made from.
Agrees(r, status_, route_, served_) ==
    /\ spanEnds[r][1].status = status_
    /\ spanEnds[r][1].route = route_
    /\ spanEnds[r][1].hijacked <=> ~served_

AgreeInv(r) ==
    /\ pc[r] = "idle" => hijacks[r] = 0 /\ records[r] = <<>>
    /\ hijacks[r] > 0 /\ span[r] = "live" => pc[r] = "finish" /\ resume[r] = "handler"
    /\ pc[r] = "finish" /\ resume[r] = "handler" => hijacks[r] > 0
    /\ records[r] # <<>> => span[r] # "live"
    /\ spanEnds[r] # <<>> /\ records[r] = <<>> /\ cfg.metrics =>
          /\ pc[r] \in {"append", "record"}
          /\ Agrees(r, status[r], Route(r), resume[r] = "done")
    /\ spanEnds[r] # <<>> /\ records[r] # <<>> =>
          Agrees(r, records[r][1].status, records[r][1].route, records[r][1].served)

\* The first pass ends the span and then reports, from the same tracking.
LEMMA OwnStepAgrees ==
    ASSUME CellInv, IInv, NEW r \in Requests, AgreeInv(r), StepOf(r)
    PROVE  AgreeInv(r)'
<1> USE DEF IInv, TypeOK, Goto, tracking, observed, answer
<1>0. /\ spanEnds[r] \in Seq(SpanEnd) /\ records[r] \in Seq(Record)
      /\ hijacks[r] \in Nat /\ resume[r] \in {"handler", "done"}
  BY HijackAssumption
<1>1. CASE Skip(r) \/ Panic(r) \/ Begin(r)
  BY <1>1 DEF Skip, Panic, Begin, FirstSpans, AgreeInv, Agrees, Route
<1>2. CASE Match(r) \/ Write(r) \/ Flush(r) \/ \E c \in Codes : WriteHeader(r, c)
  <2>1. /\ pc' = pc /\ span' = span /\ resume' = resume /\ cfg' = cfg /\ hijacks' = hijacks
        /\ spanEnds' = spanEnds /\ records' = records /\ pc[r] = "handler"
    BY <1>2 DEF Match, Write, Flush, WriteHeader
  <2> QED BY <2>1 DEF AgreeInv, Agrees
<1>3. CASE Return(r)
  BY <1>3 DEF Return, AgreeInv, Agrees
<1>4. CASE Hijack(r)
  <2>1. /\ span' = span /\ cfg' = cfg /\ spanEnds' = spanEnds /\ records' = records
        /\ pc[r] = "handler"
    BY <1>4 DEF Hijack
  <2>2. \/ pc'[r] = "handler" /\ hijacks'[r] = hijacks[r]
        \/ pc'[r] = "finish" /\ resume'[r] = "handler" /\ hijacks'[r] = hijacks[r] + 1
    BY <1>4 DEF Hijack
  <2> QED BY <1>0, <2>1, <2>2 DEF AgreeInv, Agrees
<1>5. CASE Finish(r) /\ cfg.traces /\ span[r] = "live"
  <2> DEFINE e == [status |-> status[r], route |-> Route(r), failed |-> writeErr[r],
                   hijacked |-> hijacks[r] > 0,
                   hijackFailed |-> hijacks[r] > 0 /\ hijackErr[r]]
  <2>1. /\ pc[r] = "finish" /\ resume' = resume /\ records' = records /\ cfg' = cfg
        /\ matched' = matched /\ status' = status /\ hijacks' = hijacks
        /\ span'[r] = "ended" /\ spanEnds'[r] = Append(spanEnds[r], e)
        /\ pc'[r] = (IF cfg.metrics THEN "append" ELSE resume[r])
    BY <1>5 DEF Finish, FinishWhen
  <2>2. spanEnds[r] = <<>>
    BY <1>0, <1>5, EmptySeq DEF RequestInv, SpanInv
  <2>3. records[r] = <<>>
    BY <1>5 DEF AgreeInv
  <2>4. spanEnds'[r][1] = e
    BY <2>1, <2>2
  <2>5. e.hijacked <=> ~(resume[r] = "done")
    BY <1>0, <1>5, <2>1 DEF AgreeInv
  <2>6. e.status = status[r] /\ e.route = Route(r)
    OBVIOUS
  <2> HIDE DEF e
  <2>7. Agrees(r, status[r], Route(r), resume[r] = "done")'
    BY <2>1, <2>4, <2>5, <2>6 DEF Agrees, Route
  <2> QED BY <1>0, <2>1, <2>3, <2>7 DEF AgreeInv
<1>6. CASE Finish(r) /\ ~(cfg.traces /\ span[r] = "live")
  <2>1. /\ pc[r] = "finish" /\ resume' = resume /\ records' = records /\ cfg' = cfg
        /\ hijacks' = hijacks /\ span' = span /\ spanEnds' = spanEnds
        /\ pc'[r] \in {"append", "handler", "done"}
    BY <1>0, <1>6 DEF Finish, FinishWhen
  <2>2. span[r] # "live"
    BY <1>6 DEF RequestInv, LayersEnabled
  <2> QED BY <2>1, <2>2 DEF AgreeInv, Agrees
<1>7. CASE AppendAttrs(r)
  BY <1>7 DEF AppendAttrs, AgreeInv, Agrees, Route
<1>8. CASE RecordMetrics(r)
  <2> DEFINE e == [status |-> status[r], route |-> Route(r), served |-> resume[r] = "done"]
  <2>1. /\ pc[r] = "record" /\ resume' = resume /\ cfg' = cfg /\ hijacks' = hijacks
        /\ span' = span /\ spanEnds' = spanEnds /\ pc'[r] = resume[r]
        /\ records'[r] = Append(records[r], e)
    BY <1>8 DEF RecordMetrics, CellInv
  <2>2. cfg.metrics /\ span[r] # "live"
    BY <2>1 DEF RequestInv, LayersEnabled, SpanInv
  <2>3. e \in Record
    BY RouteType DEF Record
  <2>4. e.status = status[r] /\ e.route = Route(r) /\ e.served = (resume[r] = "done")
    OBVIOUS
  <2> HIDE DEF e
  <2>5. /\ records'[r] # <<>>
        /\ records[r] = <<>> => records'[r][1] = e
        /\ records[r] # <<>> => records'[r][1] = records[r][1]
    <3> HIDE DEF IInv, TypeOK
    <3>1. records[r] \in Seq(Record)
      BY <1>0
    <3>2. /\ Append(records[r], e) # <<>>
          /\ records[r] = <<>> => Append(records[r], e)[1] = e
          /\ records[r] # <<>> => Append(records[r], e)[1] = records[r][1]
      BY <2>3, <3>1, AppendFirst
    <3> QED BY <2>1, <3>2
  <2> QED BY <1>0, <2>1, <2>2, <2>4, <2>5 DEF AgreeInv, Agrees
<1> QED BY <1>1, <1>2, <1>3, <1>4, <1>5, <1>6, <1>7, <1>8 DEF StepOf, Handling, Reporting

\* Where no other request reaches the cells that metrics.report appends to, a
\* request's span and first metrics report agree on status, route and occasion.
THEOREM SpansAgreeWithMetrics ==
    ASSUME CellsApart
    PROVE  Spec => []SpanAndMetricAgree
<1> DEFINE Inv == \A r \in Requests : AgreeInv(r)
<1>1. Init => Inv
  <2> SUFFICES ASSUME Init, NEW r \in Requests PROVE AgreeInv(r)
    OBVIOUS
  <2> QED BY DEF Init, AgreeInv, Agrees
<1>2. Inv /\ IInv /\ CellInv /\ [Next]_vars => Inv'
  <2> SUFFICES ASSUME Inv, IInv, CellInv, [Next]_vars, NEW q \in Requests PROVE AgreeInv(q)'
    OBVIOUS
  <2>1. ASSUME NEW r \in Requests, StepOf(r) PROVE AgreeInv(q)'
    <3>1. CASE q = r
      BY <2>1, <3>1, OwnStepAgrees
    <3>2. CASE q # r
      <4>1. cfg' = cfg /\ Unmoved(q)
        BY <2>1, <3>2, StepsAreLocal DEF IInv
      <4>2. AgreeInv(q)
        OBVIOUS
      <4> QED BY <4>1, <4>2 DEF Unmoved, AgreeInv, Agrees, Route
    <3> QED BY <3>1, <3>2
  <2>2. CASE UNCHANGED vars
    BY <2>2 DEF vars, tracking, observed, AgreeInv, Agrees, Route
  <2>3. (\E r \in Requests : StepOf(r)) \/ UNCHANGED vars
    BY DEF Next, StepOf, Terminating
  <2> QED BY <2>1, <2>2, <2>3
<1>3. Inv => SpanAndMetricAgree
  BY DEF AgreeInv, Agrees, SpanAndMetricAgree
<1> QED BY <1>1, <1>2, <1>3, IInvAlways, CellsAreOwn, PTL DEF Spec

\* What append leaves: the least power of two with room for the attributes.
LEMMA CapIsLeast ==
    ASSUME StaticLen > 0
    PROVE  /\ Cap(StaticLen) \in Capacities /\ Cap(StaticLen) >= StaticLen
           /\ \A d \in Capacities : d >= StaticLen => Cap(StaticLen) <= d
<1>1. StaticLen \in 1..256
  BY StaticAssumption
<1>2. \E c \in Capacities : c >= StaticLen /\ \A d \in Capacities : d >= StaticLen => c <= d
  <2>1. CASE StaticLen <= 16
    BY <1>1, <2>1 DEF Capacities
  <2>2. CASE StaticLen > 16
    BY <1>1, <2>2 DEF Capacities
  <2> QED BY <1>1, <2>1, <2>2
<1> QED BY <1>2 DEF Cap

\* The numbers of static attributes for which the four that metrics.report appends
\* fit in the array of the endpoint, and only they: none up to eight, nine to twelve ...
THEOREM SharedLengths ==
    Aliased <=> StaticLen \in (9..12) \cup (17..28) \cup (33..60) \cup (65..124) \cup (129..252)
<1>1. CASE StaticLen = 0
  BY <1>1 DEF Aliased
<1>2. CASE StaticLen > 0
  <2> DEFINE c == Cap(StaticLen)
  <2>1. /\ StaticLen \in 1..256 /\ c \in Capacities /\ c >= StaticLen
        /\ \A d \in Capacities : d >= StaticLen => c <= d
    BY <1>2, StaticAssumption, CapIsLeast
  <2>2. Aliased <=> StaticLen + 4 <= c
    BY <1>2 DEF Aliased
  <2> HIDE DEF c
  <2>3. CASE StaticLen <= 16
    BY <2>1, <2>2, <2>3 DEF Capacities
  <2>4. CASE StaticLen \in 17..64
    BY <2>1, <2>2, <2>4 DEF Capacities
  <2>5. CASE StaticLen > 64
    BY <2>1, <2>2, <2>5 DEF Capacities
  <2> QED BY <2>1, <2>3, <2>4, <2>5
<1> QED BY <1>1, <1>2, StaticAssumption

\* Under the same condition every report, not the first alone, carries the status of
\* its own request, whatever the endpoint's other requests do meanwhile.
THEOREM ReportsOwnStatus ==
    ASSUME CellsApart
    PROVE  Spec => OwnStatus
<1> DEFINE Own == \A r \in Requests :
          records'[r] # records[r] => records'[r][Len(records'[r])].status = status[r]
<1>1. TypeOK /\ CellInv /\ [Next]_vars => Own
  <2> SUFFICES ASSUME TypeOK, CellInv, [Next]_vars, NEW q \in Requests, records'[q] # records[q]
               PROVE  records'[q][Len(records'[q])].status = status[q]
    OBVIOUS
  <2>1. PICK r \in Requests : StepOf(r)
    BY DEF Next, StepOf, Terminating, vars, observed
  <2>2. q = r
    BY <2>1, StepsAreLocal DEF Unmoved
  <2>3. RecordMetrics(q)
    BY <2>1, <2>2 DEF StepOf, Handling, Reporting, Skip, Begin, Match, Write, Flush, Hijack,
          Return, Panic, WriteHeader, Finish, FinishWhen, AppendAttrs, observed
  <2> DEFINE e == [status |-> status[q], route |-> Route(q), served |-> resume[q] = "done"]
  <2>4. records'[q] = Append(records[q], e) /\ records[q] \in Seq(Record)
    BY <2>3 DEF RecordMetrics, CellInv, TypeOK
  <2>5. e \in Record
    BY RouteType DEF Record, TypeOK
  <2>6. e.status = status[q]
    OBVIOUS
  <2> HIDE DEF e
  <2>7. records'[q][Len(records'[q])] = e
    BY <2>4, <2>5, AppendProperties
  <2> QED BY <2>6, <2>7
<1> QED BY <1>1, TypeCorrect, CellsAreOwn, PTL DEF Spec, OwnStatus

-----------------------------------------------------------------------------
(* The status the client was sent, when the handler is orderly.            *)

Orderly(r) == hijacks[r] = 0 /\ ~sloppy[r]

StatusInv(r) ==
    /\ Wrapped /\ Orderly(r) => status[r] = Sent(r)
    /\ pc[r] = "done" /\ cfg.metrics /\ Orderly(r) => records[r][1].status = status[r]

\* The writer stores the status it passes on, and the only report is of that status.
LEMMA OwnStepStatus ==
    ASSUME CellInv, IInv, NEW r \in Requests, StatusInv(r), StepOf(r)
    PROVE  StatusInv(r)'
<1> USE DEF Goto, tracking, observed, answer, Orderly, Sent
<1>0. TypeOK /\ hijacks[r] \in Nat /\ (cfg.metrics => Wrapped)
  BY HijackAssumption DEF IInv, TypeOK, Wrapped
<1>1. CASE Skip(r) \/ Begin(r) \/ Match(r) \/ Return(r) \/ Panic(r) \/ AppendAttrs(r)
  <2>1. /\ hijacks' = hijacks /\ sloppy' = sloppy /\ status' = status /\ wire' = wire
        /\ cfg' = cfg /\ pc'[r] # "done"
    BY <1>0, <1>1 DEF Skip, Begin, Match, Return, Panic, AppendAttrs, TypeOK
  <2> QED BY <2>1 DEF StatusInv, Wrapped
<1>2. CASE Write(r) \/ Flush(r)
  <2>1. /\ hijacks' = hijacks /\ sloppy' = sloppy /\ status' = status /\ cfg' = cfg
        /\ pc' = pc /\ pc[r] = "handler" /\ wire' = Commit(r, "200")
    BY <1>2 DEF Write, Flush
  <2>2. Sent(r)' = Sent(r)
    BY <1>0, <2>1 DEF Commit, TypeOK
  <2> QED BY <2>1, <2>2 DEF StatusInv, Wrapped
<1>3. ASSUME NEW c \in Codes, WriteHeader(r, c) PROVE StatusInv(r)'
  <2>1. /\ hijacks' = hijacks /\ cfg' = cfg /\ pc' = pc /\ pc[r] = "handler"
        /\ sloppy'[r] = (sloppy[r] \/ c \in Informational \/ wire[r] # "nothing")
    BY <1>0, <1>3 DEF WriteHeader, TypeOK
  <2>2. ~sloppy'[r] => wire'[r] = c
    BY <1>0, <1>3, <2>1 DEF WriteHeader, Commit, TypeOK
  <2>3. Wrapped => status'[r] = c
    BY <1>0, <1>3 DEF WriteHeader, TypeOK
  <2>4. c # "nothing"
    BY CodesAssumption
  <2> QED BY <2>1, <2>2, <2>3, <2>4 DEF StatusInv, Wrapped
<1>4. CASE Hijack(r)
  <2>1. cfg' = cfg /\ status' = status /\ sloppy' = sloppy /\ pc'[r] # "done"
        /\ (Wrapped => hijacks'[r] = hijacks[r] + 1)
    BY <1>0, <1>4 DEF Hijack, TypeOK
  <2> QED BY <1>0, <2>1 DEF StatusInv, Wrapped
<1>5. CASE Finish(r)
  <2>1. /\ hijacks' = hijacks /\ sloppy' = sloppy /\ status' = status /\ wire' = wire
        /\ cfg' = cfg /\ (cfg.metrics => pc'[r] = "append")
    BY <1>0, <1>5 DEF Finish, FinishWhen, TypeOK
  <2> QED BY <2>1 DEF StatusInv, Wrapped
<1>6. CASE RecordMetrics(r)
  <2> DEFINE e == [status |-> status[r], route |-> Route(r), served |-> resume[r] = "done"]
  <2>1. /\ hijacks' = hijacks /\ sloppy' = sloppy /\ status' = status /\ wire' = wire
        /\ cfg' = cfg /\ pc[r] = "record" /\ pc'[r] = resume[r]
        /\ records'[r] = Append(records[r], e)
    BY <1>0, <1>6 DEF RecordMetrics, CellInv, TypeOK
  <2>2. e \in Record /\ e.status = status[r] /\ records[r] \in Seq(Record)
    BY <1>0, RouteType DEF Record, TypeOK
  <2> HIDE DEF e
  <2>3. Len(records[r]) \in Nat /\ CountInv(r) /\ cfg.metrics
    BY <2>1, <2>2, LenProperties DEF IInv, RequestInv, LayersEnabled
  <2>4. resume[r] = "done" /\ hijacks[r] = 0 => records[r] = <<>>
    BY <2>1, <2>2, <2>3, EmptySeq DEF CountInv, InReport
  <2>5. resume[r] = "done" /\ hijacks[r] = 0 => records'[r][1] = e
    BY <2>1, <2>2, <2>4, AppendFirst
  <2> QED BY <2>1, <2>2, <2>5 DEF StatusInv, Wrapped
<1> QED BY <1>1, <1>2, <1>3, <1>4, <1>5, <1>6 DEF StepOf, Handling, Reporting

\* Under that condition too, a handler that sets its status once, before the answer
\* begins, and keeps the connection, is reported with the status the client was sent.
THEOREM SentStatusIsRecorded ==
    ASSUME CellsApart
    PROVE  Spec => []SentStatusRecorded
<1> DEFINE Inv == \A r \in Requests : StatusInv(r)
<1>1. Init => Inv
  BY DEF Init, StatusInv, Sent, DefaultStatus
<1>2. Inv /\ IInv /\ CellInv /\ [Next]_vars => Inv'
  <2> SUFFICES ASSUME Inv, IInv, CellInv, [Next]_vars, NEW q \in Requests PROVE StatusInv(q)'
    OBVIOUS
  <2>1. ASSUME NEW r \in Requests, StepOf(r) PROVE StatusInv(q)'
    <3>1. CASE q = r
      BY <2>1, <3>1, OwnStepStatus
    <3>2. CASE q # r
      <4>1. cfg' = cfg /\ Unmoved(q)
        BY <2>1, <3>2, StepsAreLocal DEF IInv
      <4>2. StatusInv(q)
        OBVIOUS
      <4> QED BY <4>1, <4>2 DEF Unmoved, StatusInv, Orderly, Sent, Wrapped
    <3> QED BY <3>1, <3>2
  <2>2. CASE UNCHANGED vars
    BY <2>2 DEF vars, tracking, observed, answer, StatusInv, Orderly, Sent, Wrapped
  <2>3. (\E r \in Requests : StepOf(r)) \/ UNCHANGED vars
    BY DEF Next, StepOf, Terminating
  <2> QED BY <2>1, <2>2, <2>3
<1>3. Inv => SentStatusRecorded
  BY DEF StatusInv, Orderly, Wrapped, SentStatusRecorded
<1> QED BY <1>1, <1>2, <1>3, IInvAlways, CellsAreOwn, PTL DEF Spec
=============================================================================

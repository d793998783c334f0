----------------------- MODULE ClientTransportProofs ------------------------
(***************************************************************************)
(* What a round trip tells of itself, and what the counters of all of them *)
(* add up to, for any number of callers and attempts.                      *)
(***************************************************************************)
EXTENDS ClientTransport, FiniteSetTheorems, TLAPS

\* The result is counted before it is told: of a context it is the end of the caller's.
Told(c) ==
    /\ result[c] \in CtxEnds => ctx[c] = result[c]
    /\ pc[c] \in {"sent", "report", "classify"} => class[c] = "none"
    /\ pc[c] \in {"report", "classify", "failed", "details"} => Metrics
    /\ Metrics /\ (pc[c] \in {"failed", "details", "wrap", "end"} \/ Returned(c)) =>
           /\ class[c] # "none"
           /\ class[c] = "ok" <=> result[c] = "none"
    /\ class[c] # "none" =>
           /\ result[c] = "canceled" => class[c] = "canceled"
           /\ result[c] = "deadline" => class[c] = "timedout"
           /\ class[c] = "failed" => result[c] = "net"

\* The span of an attempt, open until it returns.
Spanned(c) ==
    /\ attempt[c] = 0 => pc[c] = "idle" /\ span[c] = "none"
    /\ attempt[c] > 0 => sent[c] = (IF span[c] = "none" THEN 0 ELSE attempt[c])
    /\ pc[c] # "idle" => span[c] # "ended"
    /\ pc[c] = "idle" => span[c] # "live"
    /\ span[c] = "ended" =>
           /\ reported[c].spanStatus # "unset"
           /\ reported[c].spanStatus = "ok" <=> result[c] = "none"
    /\ reported[c].metricDetail => detail[c] = "done"
    /\ span[c] = "ended" /\ result[c] = "none" /\ opts.tDetails =>
           (reported[c].metricDetail => reported[c].spanDetail)

\* Its body.
Wrapped(c) ==
    /\ pc[c] \notin {"end", "idle"} => body[c] = NoBody
    /\ pc[c] # "idle" => body[c].span = "none"
    /\ body[c].span # "none" => body[c].ctx # "none"
    /\ body[c].ctx = "caller" => span[c] = "none"
    /\ body[c].ctx = "roundtrip" => body[c].span \in {"none", "child"}

\* What the counters still miss of the round trips under way.
Uncounted == {c \in Callers : pc[c] = "report"}
Late      == {c \in Callers : pc[c] = "failed"}
Unclassed == {c \in Callers : pc[c] = "failed" \/ (pc[c] = "classify" /\ result[c] # "none")}
Erred     == {c \in Callers : \/ pc[c] = "failed"
                              \/ pc[c] \in {"report", "classify"} /\ result[c] # "none"}

Books ==
    /\ ~Counting => counters = [started |-> 0, failed |-> 0, canceled |-> 0, timedOut |-> 0]
    /\ Counting =>
           /\ counters.started + Cardinality(Uncounted) = base.answers + base.errors
           /\ counters.failed + counters.canceled + Cardinality(Erred) = base.errors
           /\ counters.failed + counters.canceled + Cardinality(Unclassed) <= counters.started
           /\ counters.timedOut <= counters.failed + Cardinality(Late)

IInv ==
    /\ TypeOK
    /\ \A c \in Callers : Told(c) /\ Spanned(c) /\ Wrapped(c)
    /\ Books

-----------------------------------------------------------------------------
(* The steps, for the caller that takes one and for the others.            *)

Sound(c) == Told(c) /\ Spanned(c) /\ Wrapped(c)
Each     == \A c \in Callers : Sound(c)

\* A step of one caller leaves the others alone.
Apart(c) ==
    /\ ctx'[c] = ctx[c] /\ pc'[c] = pc[c] /\ attempt'[c] = attempt[c] /\ span'[c] = span[c]
    /\ sent'[c] = sent[c] /\ result'[c] = result[c] /\ class'[c] = class[c]
    /\ detail'[c] = detail[c] /\ reported'[c] = reported[c] /\ body'[c] = body[c]

LEMMA ApartIsSound ==
    ASSUME NEW c \in Callers, Sound(c), Apart(c), opts' = opts
    PROVE  Sound(c)'
BY DEF Apart, Sound, Told, Spanned, Wrapped, Metrics, Returned

LEMMA InitIInv == Init => IInv
<1> SUFFICES ASSUME Init PROVE IInv
  OBVIOUS
<1>1. TypeOK
  BY AttemptsAssumption DEF Init, TypeOK, NoReport, NoBody
<1>2. \A c \in Callers : Told(c) /\ Spanned(c) /\ Wrapped(c)
  BY DEF Init, Told, Spanned, Wrapped, Returned, CtxEnds, NoBody, NoReport
<1>3. Uncounted = {} /\ Late = {} /\ Unclassed = {} /\ Erred = {}
  BY DEF Init, Uncounted, Late, Unclassed, Erred
<1>4. Books
  BY <1>3, FS_EmptySet DEF Init, Books
<1> QED BY <1>1, <1>2, <1>4 DEF IInv

LEMMA CtxEndSound ==
    ASSUME TypeOK, Each, NEW d \in Callers, CtxEnd(d)
    PROVE  TypeOK' /\ Each'
<1>0. ctx[d] = "live" /\ UNCHANGED <<opts, trace, header, pc, attempt, span, sent, result, class,
                   detail, reported, body, counters, base>>
  BY DEF CtxEnd, roundtrip
<1>1. PICK how \in CtxEnds : ctx' = [ctx EXCEPT ![d] = how]
  BY DEF CtxEnd
<1>2. TypeOK'
  BY <1>0, <1>1 DEF TypeOK
<1>3. ASSUME NEW c \in Callers, c # d PROVE Sound(c)'
  BY <1>0, <1>1, <1>3, ApartIsSound DEF Apart, Each, TypeOK
<1>4. Sound(d)'
  BY <1>0, <1>1 DEF Each, Sound, Told, Spanned, Wrapped, Metrics, Returned, TypeOK, CtxEnds
<1> QED BY <1>2, <1>3, <1>4 DEF Each

LEMMA HookSound ==
    ASSUME TypeOK, Each, NEW d \in Callers, Hook(d)
    PROVE  TypeOK' /\ Each'
<1>0. UNCHANGED <<opts, ctx, trace, header, pc, attempt, span, sent, result, class,
                   reported, body, counters, base>>
  BY DEF Hook
<1>1. detail' = [detail EXCEPT ![d] = IF @ = "none" THEN "started" ELSE "done"] /\ detail[d] # "done"
  BY DEF Hook
<1>2. TypeOK'
  BY <1>0, <1>1 DEF TypeOK
<1>3. ASSUME NEW c \in Callers, c # d PROVE Sound(c)'
  BY <1>0, <1>1, <1>3, ApartIsSound DEF Apart, Each, TypeOK
<1>4. Sound(d)'
  BY <1>0, <1>1 DEF Each, Sound, Told, Spanned, Wrapped, Metrics, Returned, TypeOK
<1> QED BY <1>2, <1>3, <1>4 DEF Each

LEMMA BeginSound ==
    ASSUME TypeOK, Each, NEW d \in Callers, Begin(d)
    PROVE  TypeOK' /\ Each'
<1>0. UNCHANGED <<opts, ctx, trace, header, counters, base>> /\ pc' = [pc EXCEPT ![d] = "sent"]
      /\ attempt[d] < MaxAttempts /\ attempt' = [attempt EXCEPT ![d] = @ + 1]
  BY DEF Begin, Goto
<1>1. /\ result' = [result EXCEPT ![d] = "none"]
      /\ class' = [class EXCEPT ![d] = "none"]
      /\ detail' = [detail EXCEPT ![d] = "none"]
      /\ reported' = [reported EXCEPT ![d] = NoReport]
      /\ body' = [body EXCEPT ![d] = NoBody]
  BY DEF Begin, Fresh
<1>2. \/ span' = [span EXCEPT ![d] = "live"] /\ sent' = [sent EXCEPT ![d] = attempt[d] + 1]
      \/ span' = [span EXCEPT ![d] = "none"] /\ sent' = [sent EXCEPT ![d] = header[d]]
  BY DEF Begin
<1>3. attempt[d] + 1 \in 1..MaxAttempts /\ header[d] = 0
      /\ attempt[d] + 1 \in 0..MaxAttempts /\ 0 \in 0..MaxAttempts
  BY <1>0, AttemptsAssumption DEF TypeOK
<1>4. TypeOK'
  <2>1. NoReport \in [metricDetail : BOOLEAN, spanDetail : BOOLEAN,
                      spanStatus : {"unset", "ok", "error"}]
        /\ NoBody \in [ctx : {"none", "caller", "roundtrip"},
                       span : {"none", "dropped", "child", "sibling", "root"}]
    BY DEF NoReport, NoBody
  <2>2. /\ span' \in [Callers -> {"none", "live", "ended"}]
        /\ sent' \in [Callers -> 0..MaxAttempts]
        /\ attempt' \in [Callers -> 0..MaxAttempts]
    <3> DEFINE A == 0..MaxAttempts
    <3>1. attempt \in [Callers -> A] /\ sent \in [Callers -> A]
          /\ span \in [Callers -> {"none", "live", "ended"}]
      BY DEF TypeOK
    <3>2. attempt[d] + 1 \in A /\ header[d] \in A
      BY <1>3
    <3> HIDE DEF A
    <3>3. span' \in [Callers -> {"none", "live", "ended"}]
      BY <1>2, <3>1
    <3>4. sent' \in [Callers -> A] /\ attempt' \in [Callers -> A]
      BY <1>0, <1>2, <3>1, <3>2
    <3> QED BY <3>3, <3>4 DEF A
  <2> QED BY <1>0, <1>1, <2>1, <2>2 DEF TypeOK
<1>5. ASSUME NEW c \in Callers, c # d PROVE Sound(c)'
  BY <1>0, <1>1, <1>2, <1>5, ApartIsSound DEF Apart, Each, TypeOK
<1>6. Sound(d)'
  <2>1. /\ pc'[d] = "sent" /\ result'[d] = "none" /\ class'[d] = "none" /\ detail'[d] = "none"
        /\ reported'[d] = NoReport /\ body'[d] = NoBody /\ attempt'[d] = attempt[d] + 1
    BY <1>0, <1>1 DEF TypeOK
  <2>2. \/ span'[d] = "live" /\ sent'[d] = attempt'[d]
        \/ span'[d] = "none" /\ sent'[d] = 0
    BY <1>2, <1>3, <2>1 DEF TypeOK
  <2>3. attempt'[d] # 0
    BY <1>3, <2>1, AttemptsAssumption
  <2>4. Told(d)' /\ Spanned(d)'
    BY <2>1, <2>2, <2>3 DEF Told, Spanned, Returned, NoReport, CtxEnds
  <2>5. Wrapped(d)'
    BY <2>1 DEF Wrapped, NoBody
  <2> QED BY <2>4, <2>5 DEF Sound
<1> QED BY <1>4, <1>5, <1>6 DEF Each

LEMMA BaseReturnsSound ==
    ASSUME TypeOK, Each, NEW d \in Callers, BaseReturns(d)
    PROVE  TypeOK' /\ Each'
<1>0. pc[d] = "sent" /\ UNCHANGED <<opts, ctx, trace, header, attempt, span, sent, class, detail,
                                    reported, body, counters>>
  BY DEF BaseReturns
<1>1. PICK err \in {"none", "net"} \cup (CtxEnds \cap {ctx[d]}) :
          /\ result' = [result EXCEPT ![d] = err]
          /\ base' = IF err = "none" THEN [base EXCEPT !.answers = @ + 1]
                                     ELSE [base EXCEPT !.errors = @ + 1]
  BY DEF BaseReturns
<1>2. pc' = [pc EXCEPT ![d] = IF Metrics THEN "report" ELSE "wrap"]
  BY DEF BaseReturns, Goto
<1>3. TypeOK'
  <2>1. base' \in [answers : Nat, errors : Nat]
    BY <1>1 DEF TypeOK
  <2> QED BY <1>0, <1>1, <1>2, <2>1 DEF TypeOK
<1>4. ASSUME NEW c \in Callers, c # d PROVE Sound(c)'
  BY <1>0, <1>1, <1>2, <1>4, ApartIsSound DEF Apart, Each, TypeOK
<1>5. Sound(d)'
  BY <1>0, <1>1, <1>2 DEF Each, Sound, Told, Spanned, Wrapped, Metrics, Returned, TypeOK, CtxEnds
<1> QED BY <1>3, <1>4, <1>5 DEF Each

LEMMA IncrementTypeOK ==
    ASSUME NEW counter \in {"started", "failed", "canceled", "timedOut"},
           counters \in [started : Nat, failed : Nat, canceled : Nat, timedOut : Nat],
           Increment(counter)
    PROVE  counters' \in [started : Nat, failed : Nat, canceled : Nat, timedOut : Nat]
BY DEF Increment

LEMMA CountStartedSound ==
    ASSUME TypeOK, Each, NEW d \in Callers, CountStarted(d)
    PROVE  TypeOK' /\ Each'
<1>0. pc[d] = "report" /\ UNCHANGED <<opts, ctx, trace, header, attempt, span, sent, result,
                                      class, detail, reported, body, base>>
      /\ pc' = [pc EXCEPT ![d] = "classify"]
  BY DEF CountStarted, Goto, roundtrip
<1>1. TypeOK'
  BY <1>0, IncrementTypeOK DEF CountStarted, TypeOK
<1>2. ASSUME NEW c \in Callers, c # d PROVE Sound(c)'
  BY <1>0, <1>2, ApartIsSound DEF Apart, Each, TypeOK
<1>3. Sound(d)'
  BY <1>0 DEF Each, Sound, Told, Spanned, Wrapped, Metrics, Returned, TypeOK, CtxEnds
<1> QED BY <1>1, <1>2, <1>3 DEF Each

LEMMA CountFailedSound ==
    ASSUME TypeOK, Each, NEW d \in Callers, CountFailed(d)
    PROVE  TypeOK' /\ Each'
<1>0. pc[d] = "failed" /\ UNCHANGED <<opts, ctx, trace, header, attempt, span, sent, result,
                                      class, detail, reported, body, base>>
      /\ pc' = [pc EXCEPT ![d] = "details"]
  BY DEF CountFailed, Goto, roundtrip
<1>1. TypeOK'
  BY <1>0, IncrementTypeOK DEF CountFailed, TypeOK
<1>2. ASSUME NEW c \in Callers, c # d PROVE Sound(c)'
  BY <1>0, <1>2, ApartIsSound DEF Apart, Each, TypeOK
<1>3. Sound(d)'
  BY <1>0 DEF Each, Sound, Told, Spanned, Wrapped, Metrics, Returned, TypeOK, CtxEnds
<1> QED BY <1>1, <1>2, <1>3 DEF Each

\* What Classify does to the counters, and where it leads.
LEMMA ClassifyCases ==
    ASSUME TypeOK, NEW d \in Callers, Classify(d)
    PROVE  \/ /\ result[d] = "none" /\ class' = [class EXCEPT ![d] = "ok"]
              /\ counters' = counters /\ pc' = [pc EXCEPT ![d] = "details"]
           \/ /\ result[d] # "none" /\ ctx[d] = "canceled"
              /\ class' = [class EXCEPT ![d] = "canceled"]
              /\ Increment("canceled") /\ pc' = [pc EXCEPT ![d] = "details"]
           \/ /\ result[d] # "none" /\ ctx[d] = "deadline"
              /\ class' = [class EXCEPT ![d] = "timedout"]
              /\ Increment("timedOut") /\ pc' = [pc EXCEPT ![d] = "failed"]
           \/ /\ result[d] # "none" /\ ctx[d] = "live"
              /\ class' = [class EXCEPT ![d] = "failed"]
              /\ Increment("failed") /\ pc' = [pc EXCEPT ![d] = "details"]
<1>1. ctx[d] \in {"live", "canceled", "deadline"}
  BY DEF TypeOK, CtxEnds
<1>2. CASE result[d] = "none"
  <2>1. ClassOf(d) = "ok"
    BY <1>2 DEF ClassOf
  <2> QED BY <1>2, <2>1 DEF Classify, Goto
<1>3. CASE result[d] # "none" /\ ctx[d] = "canceled"
  <2>1. ClassOf(d) = "canceled"
    BY <1>3 DEF ClassOf
  <2> QED BY <1>3, <2>1 DEF Classify, Goto
<1>4. CASE result[d] # "none" /\ ctx[d] = "deadline"
  <2>1. ClassOf(d) = "timedout"
    BY <1>4 DEF ClassOf
  <2> QED BY <1>4, <2>1 DEF Classify, Goto
<1>5. CASE result[d] # "none" /\ ctx[d] = "live"
  <2>1. ClassOf(d) = "failed"
    BY <1>5 DEF ClassOf
  <2> QED BY <1>5, <2>1 DEF Classify, Goto
<1> QED BY <1>1, <1>2, <1>3, <1>4, <1>5

LEMMA ClassifySound ==
    ASSUME TypeOK, Each, NEW d \in Callers, Classify(d)
    PROVE  TypeOK' /\ Each'
<1>0. pc[d] = "classify" /\ UNCHANGED <<opts, ctx, trace, header, attempt, span, sent, result,
                                        detail, reported, body, base>>
  BY DEF Classify
<1>1. counters' \in [started : Nat, failed : Nat, canceled : Nat, timedOut : Nat]
  BY ClassifyCases, IncrementTypeOK DEF TypeOK
<1>2. PICK k \in {"ok", "canceled", "timedout", "failed"}, to \in {"details", "failed"} :
          /\ class' = [class EXCEPT ![d] = k]
          /\ pc' = [pc EXCEPT ![d] = to]
          /\ k = "ok" <=> result[d] = "none"
          /\ result[d] # "none" /\ ctx[d] = "canceled" => k = "canceled"
          /\ result[d] # "none" /\ ctx[d] = "deadline" => k = "timedout"
          /\ k = "failed" => result[d] # "none" /\ ctx[d] = "live"
  BY ClassifyCases
<1>3. TypeOK'
  BY <1>0, <1>1, <1>2 DEF TypeOK
<1>4. ASSUME NEW c \in Callers, c # d PROVE Sound(c)'
  BY <1>0, <1>2, <1>4, ApartIsSound DEF Apart, Each, TypeOK
<1>5. Sound(d)'
  BY <1>0, <1>2 DEF Each, Sound, Told, Spanned, Wrapped, Metrics, Returned, TypeOK, CtxEnds
<1> QED BY <1>3, <1>4, <1>5 DEF Each

LEMMA RecordDetailsSound ==
    ASSUME TypeOK, Each, NEW d \in Callers, RecordDetails(d)
    PROVE  TypeOK' /\ Each'
<1>0. pc[d] = "details" /\ UNCHANGED <<opts, ctx, trace, header, attempt, span, sent, result, class,
                                       detail, body, counters, base>>
      /\ pc' = [pc EXCEPT ![d] = "wrap"]
  BY DEF RecordDetails, Goto
<1> DEFINE m == opts.mDetails /\ detail[d] = "done"
           r == [reported[d] EXCEPT !.metricDetail = m]
<1>1. reported' = [reported EXCEPT ![d] = r] /\ m \in BOOLEAN
  BY DEF RecordDetails
<1>2. /\ r \in [metricDetail : BOOLEAN, spanDetail : BOOLEAN, spanStatus : {"unset", "ok", "error"}]
      /\ r.metricDetail = m /\ r.spanDetail = reported[d].spanDetail
      /\ r.spanStatus = reported[d].spanStatus
  <2>1. reported[d] \in [metricDetail : BOOLEAN, spanDetail : BOOLEAN,
                         spanStatus : {"unset", "ok", "error"}]
    BY DEF TypeOK
  <2> HIDE DEF m
  <2> QED BY <1>1, <2>1
<1> HIDE DEF r
<1>3. TypeOK'
  BY <1>0, <1>1, <1>2 DEF TypeOK
<1>4. ASSUME NEW c \in Callers, c # d PROVE Sound(c)'
  BY <1>0, <1>1, <1>4, ApartIsSound DEF Apart, Each, TypeOK
<1>5. Sound(d)'
  BY <1>0, <1>1, <1>2 DEF Each, Sound, Told, Spanned, Wrapped, Metrics, Returned, TypeOK, CtxEnds
<1> QED BY <1>3, <1>4, <1>5 DEF Each

LEMMA WrapBodySound ==
    ASSUME TypeOK, Each, NEW d \in Callers, WrapBody(d)
    PROVE  TypeOK' /\ Each'
<1>0. pc[d] = "wrap" /\ UNCHANGED <<opts, ctx, trace, header, attempt, span, sent, result, class,
                                    detail, reported, counters, base>>
      /\ pc' = [pc EXCEPT ![d] = "end"]
  BY DEF WrapBody, Goto
<1> DEFINE ctxt == IF span[d] = "live" THEN "roundtrip" ELSE "caller"
           b == [body[d] EXCEPT !.ctx = ctxt]
<1>1. body' = [body EXCEPT ![d] = b] \/ body' = body
  BY DEF WrapBody
<1> DEFINE Bodies == [ctx : {"none", "caller", "roundtrip"},
                      span : {"none", "dropped", "child", "sibling", "root"}]
           Pcs == {"idle", "sent", "report", "classify", "failed", "details", "wrap", "end"}
<1>a. body \in [Callers -> Bodies] /\ pc \in [Callers -> Pcs]
  BY DEF TypeOK
<1>d. body[d] \in Bodies /\ ctxt \in {"roundtrip", "caller"}
  BY <1>a
<1> HIDE DEF ctxt
<1>2. b \in Bodies /\ b.ctx = ctxt /\ b.span = body[d].span
  BY <1>d
<1> HIDE DEF b, Bodies
<1>b. body' \in [Callers -> Bodies]
  BY <1>1, <1>2, <1>a
<1>c. pc' \in [Callers -> Pcs]
  BY <1>0, <1>a
<1> USE DEF Bodies
<1>3. TypeOK'
  <2>1. UNCHANGED <<opts, ctx, trace, header, attempt, span, sent, result, class,
                    detail, reported, counters, base>>
    BY <1>0
  <2> QED BY <2>1, <1>b, <1>c DEF TypeOK
<1> USE DEF ctxt
<1>4. ASSUME NEW c \in Callers, c # d PROVE Sound(c)'
  BY <1>0, <1>1, <1>4, ApartIsSound DEF Apart, Each, TypeOK
<1>5. Told(d)' /\ Spanned(d)'
  BY <1>0 DEF Each, Sound, Told, Spanned, Metrics, Returned, TypeOK
<1>6. Wrapped(d)'
  <2>1. body[d] = NoBody /\ span[d] # "ended" /\ span[d] \in {"none", "live", "ended"}
    BY <1>0 DEF Each, Sound, Wrapped, Spanned, TypeOK
  <2>2. body'[d] = b \/ body'[d] = NoBody
    BY <1>1, <2>1 DEF TypeOK
  <2> QED BY <1>0, <1>2, <2>1, <2>2 DEF Wrapped, NoBody, TypeOK
<1> QED BY <1>3, <1>4, <1>5, <1>6 DEF Each, Sound

LEMMA EndSpanSound ==
    ASSUME TypeOK, Each, NEW d \in Callers, EndSpan(d)
    PROVE  TypeOK' /\ Each'
<1>0. pc[d] = "end" /\ UNCHANGED <<opts, ctx, trace, header, attempt, sent, result, class, detail,
                                   body, counters, base>>
      /\ pc' = [pc EXCEPT ![d] = "idle"]
  BY DEF EndSpan, Goto
<1> DEFINE s == IF result[d] = "none" THEN "ok" ELSE "error"
           t == result[d] = "none" /\ opts.tDetails /\ detail[d] = "done"
           r == [reported[d] EXCEPT !.spanStatus = s, !.spanDetail = t]
<1>1. \/ /\ span[d] = "live" /\ span' = [span EXCEPT ![d] = "ended"]
         /\ reported' = [reported EXCEPT ![d] = r]
      \/ span[d] # "live" /\ span' = span /\ reported' = reported
  <2>1. [reported EXCEPT ![d].spanStatus = s, ![d].spanDetail = t] = [reported EXCEPT ![d] = r]
    BY DEF TypeOK
  <2> QED BY <2>1 DEF EndSpan
<1>2. /\ r \in [metricDetail : BOOLEAN, spanDetail : BOOLEAN, spanStatus : {"unset", "ok", "error"}]
      /\ r.metricDetail = reported[d].metricDetail /\ r.spanDetail = t /\ r.spanStatus = s
  <2>1. reported[d] \in [metricDetail : BOOLEAN, spanDetail : BOOLEAN,
                         spanStatus : {"unset", "ok", "error"}]
    BY DEF TypeOK
  <2>2. s \in {"unset", "ok", "error"} /\ t \in BOOLEAN
    OBVIOUS
  <2> HIDE DEF s, t
  <2> QED BY <2>1, <2>2
<1> HIDE DEF r
<1>3. TypeOK'
  <2>1. /\ span' \in [Callers -> {"none", "live", "ended"}]
        /\ pc' \in [Callers -> {"idle", "sent", "report", "classify", "failed",
                               "details", "wrap", "end"}]
    BY <1>0, <1>1 DEF TypeOK
  <2>2. reported' \in [Callers -> [metricDetail : BOOLEAN, spanDetail : BOOLEAN,
                                  spanStatus : {"unset", "ok", "error"}]]
    <3> DEFINE R == [metricDetail : BOOLEAN, spanDetail : BOOLEAN,
                     spanStatus : {"unset", "ok", "error"}]
    <3>1. reported \in [Callers -> R] /\ r \in R
      BY <1>2 DEF TypeOK
    <3> HIDE DEF R
    <3>2. reported' \in [Callers -> R]
      BY <1>1, <3>1
    <3> QED BY <3>2 DEF R
  <2> QED BY <1>0, <2>1, <2>2 DEF TypeOK
<1>4. ASSUME NEW c \in Callers, c # d PROVE Sound(c)'
  BY <1>0, <1>1, <1>4, ApartIsSound DEF Apart, Each, TypeOK
<1>5. attempt[d] > 0
  BY <1>0 DEF Each, Sound, Spanned, TypeOK
<1>6. Told(d)'
  BY <1>0, <1>1, <1>5 DEF Each, Sound, Told, Metrics, Returned, TypeOK
<1>7. Spanned(d)'
  <2>1. CASE span[d] = "live"
    BY <1>0, <1>1, <1>2, <1>5, <2>1 DEF Each, Sound, Spanned, TypeOK
  <2>2. CASE span[d] # "live"
    BY <1>0, <1>1, <1>5, <2>2 DEF Each, Sound, Spanned, TypeOK
  <2> QED BY <2>1, <2>2
<1>8. Wrapped(d)'
  BY <1>0, <1>1 DEF Each, Sound, Wrapped, TypeOK
<1> QED BY <1>3, <1>4, <1>6, <1>7, <1>8 DEF Each, Sound

LEMMA ReadBodySound ==
    ASSUME TypeOK, Each, NEW d \in Callers, ReadBody(d)
    PROVE  TypeOK' /\ Each'
<1>0. pc[d] = "idle" /\ body[d].ctx # "none"
      /\ UNCHANGED <<opts, ctx, trace, header, pc, attempt, span, sent, result, class, detail,
                     reported, counters, base>>
  BY DEF ReadBody
<1>1. PICK recording \in Samples(IF body[d].ctx = "roundtrip" THEN "sampled" ELSE trace[d]) :
          body' = [body EXCEPT ![d].span =
              IF ~recording THEN "dropped"
              ELSE IF body[d].ctx = "roundtrip" THEN "child"
              ELSE IF trace[d] = "none" THEN "root" ELSE "sibling"]
  BY DEF ReadBody
<1> DEFINE how == IF ~recording THEN "dropped"
                  ELSE IF body[d].ctx = "roundtrip" THEN "child"
                  ELSE IF trace[d] = "none" THEN "root" ELSE "sibling"
           b == [body[d] EXCEPT !.span = how]
<1>2. body' = [body EXCEPT ![d] = b]
  BY <1>1
<1>3. body[d].ctx = "roundtrip" => how = "child"
  BY <1>1 DEF Samples
<1>4. /\ b \in [ctx : {"none", "caller", "roundtrip"},
                span : {"none", "dropped", "child", "sibling", "root"}]
      /\ b.span = how /\ b.ctx = body[d].ctx
  BY DEF TypeOK
<1> HIDE DEF b, how
<1>5. TypeOK'
  BY <1>0, <1>2, <1>4 DEF TypeOK
<1>6. ASSUME NEW c \in Callers, c # d PROVE Sound(c)'
  BY <1>0, <1>2, <1>6, ApartIsSound DEF Apart, Each, TypeOK
<1>7. Told(d)' /\ Spanned(d)'
  BY <1>0 DEF Each, Sound, Told, Spanned, Metrics, Returned
<1>8. Wrapped(d)'
  BY <1>0, <1>2, <1>3, <1>4 DEF Each, Sound, Wrapped, TypeOK
<1> QED BY <1>5, <1>6, <1>7, <1>8 DEF Each, Sound

-----------------------------------------------------------------------------
(* The books: each set of round trips the counters still miss changes by   *)
(* the caller that takes the step at most.                                 *)

\* What a set that changes by one caller at most does to its size.
LEMMA CardStep ==
    ASSUME NEW S \in SUBSET Callers, NEW T \in SUBSET Callers, NEW d \in Callers,
           \A c \in Callers : c # d => (c \in S <=> c \in T)
    PROVE  /\ Cardinality(S) \in Nat /\ Cardinality(T) \in Nat
           /\ (d \in S <=> d \in T) => Cardinality(T) = Cardinality(S)
           /\ d \in S /\ d \notin T => Cardinality(S) = Cardinality(T) + 1
           /\ d \notin S /\ d \in T => Cardinality(T) = Cardinality(S) + 1
<1>1. IsFiniteSet(S) /\ IsFiniteSet(T)
  BY CallersAssumption, FS_Subset
<1>2. Cardinality(S) \in Nat /\ Cardinality(T) \in Nat
  BY <1>1, FS_CardinalityType
<1>3. (d \in S <=> d \in T) => S = T
  OBVIOUS
<1>4. d \in S /\ d \notin T => S = T \cup {d}
  OBVIOUS
<1>5. d \notin S /\ d \in T => T = S \cup {d}
  OBVIOUS
<1> QED BY <1>1, <1>2, <1>3, <1>4, <1>5, FS_AddElement

\* What the step of d, which changes d's pc and result only, does to the four sets.
LEMMA SetStep ==
    ASSUME NEW d \in Callers, \A c \in Callers : c # d => pc'[c] = pc[c] /\ result'[c] = result[c]
    PROVE  \A P \in {<<Uncounted, Uncounted'>>, <<Late, Late'>>,
                     <<Unclassed, Unclassed'>>, <<Erred, Erred'>>} :
               /\ Cardinality(P[1]) \in Nat /\ Cardinality(P[2]) \in Nat
               /\ (d \in P[1] <=> d \in P[2]) => Cardinality(P[2]) = Cardinality(P[1])
               /\ d \in P[1] /\ d \notin P[2] => Cardinality(P[1]) = Cardinality(P[2]) + 1
               /\ d \notin P[1] /\ d \in P[2] => Cardinality(P[2]) = Cardinality(P[1]) + 1
<1> SUFFICES ASSUME NEW P \in {<<Uncounted, Uncounted'>>, <<Late, Late'>>,
                               <<Unclassed, Unclassed'>>, <<Erred, Erred'>>}
             PROVE  /\ P[1] \in SUBSET Callers /\ P[2] \in SUBSET Callers
                    /\ \A c \in Callers : c # d => (c \in P[1] <=> c \in P[2])
  BY CardStep
<1>1. CASE P = <<Uncounted, Uncounted'>>
  BY <1>1 DEF Uncounted
<1>2. CASE P = <<Late, Late'>>
  BY <1>2 DEF Late
<1>3. CASE P = <<Unclassed, Unclassed'>>
  BY <1>3 DEF Unclassed
<1>4. CASE P = <<Erred, Erred'>>
  BY <1>4 DEF Erred
<1> QED BY <1>1, <1>2, <1>3, <1>4

\* A step that moves no caller between the four sets, and touches no counter.
LEMMA BooksKept ==
    ASSUME Books, UNCHANGED <<opts, counters, base>>,
           Uncounted' = Uncounted, Late' = Late, Unclassed' = Unclassed, Erred' = Erred
    PROVE  Books'
BY DEF Books, Counting, Metrics

\* Base, report, classify and the second count of a timeout, one after the other.
LEMMA BaseReturnsBooks ==
    ASSUME TypeOK, Books, NEW d \in Callers, BaseReturns(d)
    PROVE  Books'
<1>0. pc[d] = "sent" /\ UNCHANGED <<opts, counters>>
  BY DEF BaseReturns
<1>1. PICK err \in {"none", "net"} \cup (CtxEnds \cap {ctx[d]}) :
          /\ result' = [result EXCEPT ![d] = err]
          /\ base' = IF err = "none" THEN [base EXCEPT !.answers = @ + 1]
                                     ELSE [base EXCEPT !.errors = @ + 1]
  BY DEF BaseReturns
<1>2. pc' = [pc EXCEPT ![d] = IF Metrics THEN "report" ELSE "wrap"]
  BY DEF BaseReturns, Goto
<1>3. \A c \in Callers : c # d => pc'[c] = pc[c] /\ result'[c] = result[c]
  BY <1>1, <1>2 DEF TypeOK
<1>4. CASE Counting
  <2>1. pc'[d] = "report" /\ result'[d] = err
    BY <1>1, <1>2, <1>4 DEF TypeOK, Counting
  <2>2. d \notin Uncounted /\ d \in Uncounted' /\ d \notin Late /\ d \notin Late'
    BY <1>0, <2>1 DEF Uncounted, Late
  <2>3. d \notin Unclassed /\ d \notin Unclassed' /\ d \notin Erred /\ (d \in Erred' <=> err # "none")
    BY <1>0, <2>1 DEF Unclassed, Erred
  <2>4. /\ Cardinality(Uncounted) \in Nat /\ Cardinality(Uncounted') = Cardinality(Uncounted) + 1
        /\ Cardinality(Late) \in Nat /\ Cardinality(Late') = Cardinality(Late)
        /\ Cardinality(Unclassed) \in Nat /\ Cardinality(Unclassed') = Cardinality(Unclassed)
        /\ Cardinality(Erred) \in Nat
        /\ Cardinality(Erred') = Cardinality(Erred) + (IF err = "none" THEN 0 ELSE 1)
    BY <1>3, <2>2, <2>3, SetStep
  <2>5. /\ base \in [answers : Nat, errors : Nat]
        /\ counters \in [started : Nat, failed : Nat, canceled : Nat, timedOut : Nat]
    BY DEF TypeOK
  <2>6. /\ base'.answers = base.answers + (IF err = "none" THEN 1 ELSE 0)
        /\ base'.errors = base.errors + (IF err = "none" THEN 0 ELSE 1)
    BY <1>1, <2>5
  <2> QED BY <1>0, <1>4, <2>4, <2>5, <2>6 DEF Books, Counting, Metrics
<1>5. CASE ~Counting
  BY <1>0, <1>5 DEF Books, Counting, Metrics
<1> QED BY <1>4, <1>5

LEMMA CountStartedBooks ==
    ASSUME TypeOK, Books, NEW d \in Callers, CountStarted(d)
    PROVE  Books'
<1>0. pc[d] = "report" /\ UNCHANGED <<opts, result, base>> /\ pc' = [pc EXCEPT ![d] = "classify"]
      /\ Increment("started")
  BY DEF CountStarted, Goto, roundtrip
<1>1. \A c \in Callers : c # d => pc'[c] = pc[c] /\ result'[c] = result[c]
  BY <1>0 DEF TypeOK
<1>2. pc'[d] = "classify" /\ result'[d] = result[d]
  BY <1>0 DEF TypeOK
<1>3. d \in Uncounted /\ d \notin Uncounted' /\ d \notin Late /\ d \notin Late'
  BY <1>0, <1>2 DEF Uncounted, Late
<1>4. d \notin Unclassed /\ (d \in Erred <=> d \in Erred')
  BY <1>0, <1>2 DEF Unclassed, Erred
<1>5. /\ Cardinality(Uncounted') \in Nat /\ Cardinality(Uncounted) = Cardinality(Uncounted') + 1
      /\ Cardinality(Late) \in Nat /\ Cardinality(Late') = Cardinality(Late)
      /\ Cardinality(Unclassed) \in Nat /\ Cardinality(Unclassed') \in Nat
      /\ Cardinality(Unclassed') <= Cardinality(Unclassed) + 1
      /\ Cardinality(Erred) \in Nat /\ Cardinality(Erred') = Cardinality(Erred)
  BY <1>1, <1>3, <1>4, SetStep
<1>6. /\ base \in [answers : Nat, errors : Nat]
      /\ counters \in [started : Nat, failed : Nat, canceled : Nat, timedOut : Nat]
  BY DEF TypeOK
<1>7. CASE Counting
  <2>1. /\ counters'.started = counters.started + 1 /\ counters'.failed = counters.failed
        /\ counters'.canceled = counters.canceled /\ counters'.timedOut = counters.timedOut
    BY <1>0, <1>6, <1>7 DEF Increment
  <2> QED BY <1>0, <1>5, <1>6, <1>7, <2>1 DEF Books, Counting, Metrics
<1>8. CASE ~Counting
  BY <1>0, <1>8 DEF Books, Counting, Metrics, Increment
<1> QED BY <1>7, <1>8

LEMMA ClassifyBooks ==
    ASSUME TypeOK, Books, NEW d \in Callers, Classify(d)
    PROVE  Books'
<1>0. pc[d] = "classify" /\ UNCHANGED <<opts, result, base>>
  BY DEF Classify
<1>1. /\ base \in [answers : Nat, errors : Nat]
      /\ counters \in [started : Nat, failed : Nat, canceled : Nat, timedOut : Nat]
  BY DEF TypeOK
<1>2. PICK to \in {"details", "failed"} :
         /\ pc' = [pc EXCEPT ![d] = to]
         /\ \/ result[d] = "none" /\ to = "details" /\ counters' = counters
            \/ result[d] # "none" /\ to = "details" /\ Increment("canceled")
            \/ result[d] # "none" /\ to = "failed"  /\ Increment("timedOut")
            \/ result[d] # "none" /\ to = "details" /\ Increment("failed")
  BY ClassifyCases
<1>3. \A c \in Callers : c # d => pc'[c] = pc[c] /\ result'[c] = result[c]
  BY <1>0, <1>2 DEF TypeOK
<1>4. pc'[d] = to /\ result'[d] = result[d]
  BY <1>0, <1>2 DEF TypeOK
<1>5. d \notin Uncounted /\ d \notin Uncounted' /\ d \notin Late /\ (d \in Late' <=> to = "failed")
  BY <1>0, <1>4 DEF Uncounted, Late
<1>6. /\ d \in Unclassed <=> result[d] # "none"
      /\ d \in Unclassed' <=> to = "failed"
      /\ d \in Erred <=> result[d] # "none"
      /\ d \in Erred' <=> to = "failed"
  BY <1>0, <1>4 DEF Unclassed, Erred
<1>7. /\ Cardinality(Uncounted) \in Nat /\ Cardinality(Uncounted') = Cardinality(Uncounted)
      /\ Cardinality(Late) \in Nat /\ Cardinality(Unclassed) \in Nat /\ Cardinality(Erred) \in Nat
      /\ Cardinality(Late') \in Nat /\ Cardinality(Unclassed') \in Nat /\ Cardinality(Erred') \in Nat
      /\ to = "details" => Cardinality(Late') = Cardinality(Late)
      /\ to = "failed" => Cardinality(Late') = Cardinality(Late) + 1
      /\ to = "details" /\ result[d] # "none" =>
             /\ Cardinality(Unclassed) = Cardinality(Unclassed') + 1
             /\ Cardinality(Erred) = Cardinality(Erred') + 1
      /\ (to = "failed" <=> result[d] # "none") =>
             /\ Cardinality(Unclassed') = Cardinality(Unclassed)
             /\ Cardinality(Erred') = Cardinality(Erred)
  BY <1>3, <1>5, <1>6, SetStep
<1>8. CASE Counting
  <2>1. CASE result[d] = "none" /\ to = "details" /\ counters' = counters
    BY <1>0, <1>1, <1>7, <1>8, <2>1 DEF Books, Counting, Metrics
  <2>2. CASE result[d] # "none" /\ to = "details" /\ Increment("canceled")
    <3>1. /\ counters'.canceled = counters.canceled + 1 /\ counters'.started = counters.started
          /\ counters'.failed = counters.failed /\ counters'.timedOut = counters.timedOut
      BY <1>1, <1>8, <2>2 DEF Increment
    <3> QED BY <1>0, <1>1, <1>7, <1>8, <2>2, <3>1 DEF Books, Counting, Metrics
  <2>3. CASE result[d] # "none" /\ to = "failed" /\ Increment("timedOut")
    <3>1. /\ counters'.timedOut = counters.timedOut + 1 /\ counters'.started = counters.started
          /\ counters'.failed = counters.failed /\ counters'.canceled = counters.canceled
      BY <1>1, <1>8, <2>3 DEF Increment
    <3> QED BY <1>0, <1>1, <1>7, <1>8, <2>3, <3>1 DEF Books, Counting, Metrics
  <2>4. CASE result[d] # "none" /\ to = "details" /\ Increment("failed")
    <3>1. /\ counters'.failed = counters.failed + 1 /\ counters'.started = counters.started
          /\ counters'.canceled = counters.canceled /\ counters'.timedOut = counters.timedOut
      BY <1>1, <1>8, <2>4 DEF Increment
    <3> QED BY <1>0, <1>1, <1>7, <1>8, <2>4, <3>1 DEF Books, Counting, Metrics
  <2> QED BY <1>2, <2>1, <2>2, <2>3, <2>4
<1>9. CASE ~Counting
  BY <1>0, <1>2, <1>9 DEF Books, Counting, Metrics, Increment
<1> QED BY <1>8, <1>9

LEMMA CountFailedBooks ==
    ASSUME TypeOK, Books, NEW d \in Callers, CountFailed(d)
    PROVE  Books'
<1>0. pc[d] = "failed" /\ UNCHANGED <<opts, result, base>> /\ pc' = [pc EXCEPT ![d] = "details"]
      /\ Increment("failed")
  BY DEF CountFailed, Goto, roundtrip
<1>1. \A c \in Callers : c # d => pc'[c] = pc[c] /\ result'[c] = result[c]
  BY <1>0 DEF TypeOK
<1>2. pc'[d] = "details"
  BY <1>0 DEF TypeOK
<1>3. /\ d \notin Uncounted /\ d \notin Uncounted' /\ d \in Late /\ d \notin Late'
      /\ d \in Unclassed /\ d \notin Unclassed' /\ d \in Erred /\ d \notin Erred'
  BY <1>0, <1>2 DEF Uncounted, Late, Unclassed, Erred
<1>4. /\ Cardinality(Uncounted) \in Nat /\ Cardinality(Uncounted') = Cardinality(Uncounted)
      /\ Cardinality(Late') \in Nat /\ Cardinality(Late) = Cardinality(Late') + 1
      /\ Cardinality(Unclassed') \in Nat /\ Cardinality(Unclassed) = Cardinality(Unclassed') + 1
      /\ Cardinality(Erred') \in Nat /\ Cardinality(Erred) = Cardinality(Erred') + 1
  BY <1>1, <1>3, SetStep
<1>5. /\ base \in [answers : Nat, errors : Nat]
      /\ counters \in [started : Nat, failed : Nat, canceled : Nat, timedOut : Nat]
  BY DEF TypeOK
<1>6. CASE Counting
  <2>1. /\ counters'.failed = counters.failed + 1 /\ counters'.started = counters.started
        /\ counters'.canceled = counters.canceled /\ counters'.timedOut = counters.timedOut
    BY <1>0, <1>5, <1>6 DEF Increment
  <2> QED BY <1>0, <1>4, <1>5, <1>6, <2>1 DEF Books, Counting, Metrics
<1>7. CASE ~Counting
  BY <1>0, <1>7 DEF Books, Counting, Metrics, Increment
<1> QED BY <1>6, <1>7

\* Every other step leaves the books as they are.
LEMMA OthersBooks ==
    ASSUME TypeOK, Books, NEW d \in Callers,
           \/ CtxEnd(d) \/ Hook(d) \/ Begin(d) \/ RecordDetails(d) \/ WrapBody(d) \/ EndSpan(d)
           \/ ReadBody(d)
    PROVE  Books'
<1>1. UNCHANGED <<opts, counters, base>>
  BY DEF CtxEnd, Hook, Begin, RecordDetails, WrapBody, EndSpan, ReadBody, roundtrip
<1>2. \/ pc' = pc
      \/ \E to \in {"sent", "wrap", "end", "idle"} :
            pc' = [pc EXCEPT ![d] = to] /\ pc[d] \in {"idle", "details", "wrap", "end"}
  BY DEF CtxEnd, Hook, Begin, RecordDetails, WrapBody, EndSpan, ReadBody, Goto
<1>3. \/ result' = result
      \/ result' = [result EXCEPT ![d] = "none"] /\ pc' = [pc EXCEPT ![d] = "sent"] /\ pc[d] = "idle"
  BY DEF CtxEnd, Hook, Begin, Fresh, RecordDetails, WrapBody, EndSpan, ReadBody, Goto, roundtrip
<1>4. Uncounted' = Uncounted /\ Late' = Late
  BY <1>2 DEF TypeOK, Uncounted, Late
<1>5. Unclassed' = Unclassed /\ Erred' = Erred
  BY <1>2, <1>3 DEF TypeOK, Unclassed, Erred
<1> QED BY <1>1, <1>4, <1>5, BooksKept

LEMMA NextIInv == IInv /\ [Next]_vars => IInv'
<1> SUFFICES ASSUME IInv, [Next]_vars PROVE IInv'
  OBVIOUS
<1>0. TypeOK /\ Each /\ Books
  BY DEF IInv, Each, Sound
<1>1. CASE UNCHANGED vars
  <2>1. UNCHANGED <<opts, ctx, trace, header, pc, attempt, span, sent, result, class, detail,
                    reported, body, counters, base>>
    BY <1>1 DEF vars, roundtrip
  <2>2. TypeOK'
    BY <1>0, <2>1 DEF TypeOK
  <2>3. Each'
    BY <1>0, <2>1, ApartIsSound DEF Apart, Each
  <2>4. Books'
    BY <1>0, <2>1, BooksKept DEF Uncounted, Late, Unclassed, Erred
  <2> QED BY <2>2, <2>3, <2>4 DEF IInv, Each, Sound
<1>2. ASSUME NEW d \in Callers,
             CtxEnd(d) \/ Hook(d) \/ Begin(d) \/ Transport(d) \/ ReadBody(d)
      PROVE  TypeOK' /\ Each' /\ Books'
  <2>1. TypeOK' /\ Each'
    BY <1>0, <1>2, CtxEndSound, HookSound, BeginSound, BaseReturnsSound, CountStartedSound,
       ClassifySound, CountFailedSound, RecordDetailsSound, WrapBodySound, EndSpanSound,
       ReadBodySound DEF Transport
  <2>2. Books'
    BY <1>0, <1>2, BaseReturnsBooks, CountStartedBooks, ClassifyBooks, CountFailedBooks,
       OthersBooks DEF Transport
  <2> QED BY <2>1, <2>2
<1>3. CASE Next
  BY <1>2, <1>3 DEF Next, IInv, Each, Sound
<1> QED BY <1>1, <1>3

\* The inductive invariant: each round trip is sound and the books are straight.
THEOREM Invariant == Spec => []IInv
BY InitIInv, NextIInv, PTL DEF Spec

-----------------------------------------------------------------------------
\* Round trips keep their types, for any callers, attempts and configurations; header
\* among them: the caller's own headers are never written (RoundTripper's contract).
THEOREM TypeCorrect == Spec => []TypeOK
<1>1. IInv => TypeOK
  BY DEF IInv
<1> QED BY <1>1, Invariant, PTL

\* However often a request is sent again, an attempt carries the context of its own span
\* or none (traces.start).
THEOREM AttemptsKeepApart == Spec => []OwnTraceContext
<1>1. IInv => OwnTraceContext
  BY DEF IInv, Spanned, OwnTraceContext
<1> QED BY <1>1, Invariant, PTL

\* Span and counters of a round trip that has returned agree on whether it failed,
\* whenever its context ends (report, end).
THEOREM SpansTellTheSame == Spec => []SpanTellsTheSame
<1>1. IInv => SpanTellsTheSame
  <2> SUFFICES ASSUME IInv, NEW c \in Callers, Returned(c), span[c] # "none"
               PROVE  /\ span[c] = "ended" /\ reported[c].spanStatus # "unset"
                      /\ Metrics => (reported[c].spanStatus = "ok" <=> class[c] = "ok")
    BY DEF SpanTellsTheSame
  <2>1. Told(c) /\ Spanned(c) /\ span[c] \in {"none", "live", "ended"}
    BY DEF IInv, TypeOK
  <2> QED BY <2>1 DEF Told, Spanned, Returned
<1> QED BY <1>1, Invariant, PTL

\* An error of the context is counted as the end the context had (report).
THEOREM CtxErrorsAreClassified == Spec => []CtxErrorsClassified
<1>1. IInv => CtxErrorsClassified
  BY DEF IInv, Told, CtxErrorsClassified
<1> QED BY <1>1, Invariant, PTL

\* The span never lacks a detail the metrics have, though the hooks run on (end).
THEOREM SpansHaveTheDetails == Spec => []SpanHasTheDetails
<1>1. IInv => SpanHasTheDetails
  BY DEF IInv, Spanned, SpanHasTheDetails
<1> QED BY <1>1, Invariant, PTL

\* The span of a body is the child of its round trip's (readWrapperBuilder).
THEOREM BodiesJoinRoundTrips == Spec => []BodyJoinsRoundTrip
<1>1. IInv => BodyJoinsRoundTrip
  <2> SUFFICES ASSUME IInv, NEW c \in Callers, span[c] = "ended", body[c].span # "none"
               PROVE  body[c].span = "child"
    BY DEF BodyJoinsRoundTrip
  <2>1. Wrapped(c) /\ body[c].ctx \in {"none", "caller", "roundtrip"}
    BY DEF IInv, TypeOK
  <2> QED BY <2>1 DEF Wrapped
<1> QED BY <1>1, Invariant, PTL

\* What is still to be told of the round trips under way covers the two bounds.
LEMMA BooksBalance == IInv => Ledger!Balanced
<1> SUFFICES ASSUME IInv PROVE Ledger!Balanced
  OBVIOUS
<1>1. counters \in [started : Nat, failed : Nat, canceled : Nat, timedOut : Nat]
  BY DEF IInv, TypeOK
<1>2. Cardinality(Unclassed) \in Nat /\ Cardinality(Late) \in Nat
      /\ Cardinality(Late) <= Cardinality(Unclassed)
  <2>1. Unclassed \subseteq Callers /\ Late \subseteq Unclassed
    BY DEF Unclassed, Late
  <2>2. IsFiniteSet(Unclassed)
    BY <2>1, CallersAssumption, FS_Subset
  <2> QED BY <2>1, <2>2, FS_Subset, FS_CardinalityType
<1>3. CASE Counting
  BY <1>1, <1>2, <1>3 DEF IInv, Books, Ledger!Balanced
<1>4. CASE ~Counting
  BY <1>1, <1>4 DEF IInv, Books, Ledger!Balanced
<1> QED BY <1>3, <1>4

\* However many callers, and whenever the reader collects: no more requests have ended
\* than were started (report adds to the counters one after the other).
THEOREM OutcomesAreBounded == Spec => []Ledger!Balanced
BY Invariant, BooksBalance, PTL

\* The steps that count, one request in one counter each.
LEMMA StepsCountOnce ==
    ASSUME TypeOK, NEW d \in Callers, CtxEnd(d) \/ Hook(d) \/ Begin(d) \/ Transport(d) \/ ReadBody(d)
    PROVE  \/ counters' = counters
           \/ \E counter \in {"started", "failed", "canceled", "timedOut"} :
                 counters' = [counters EXCEPT ![counter] = @ + 1]
<1>1. CASE CtxEnd(d) \/ Hook(d) \/ Begin(d) \/ BaseReturns(d) \/ RecordDetails(d)
           \/ WrapBody(d) \/ EndSpan(d) \/ ReadBody(d)
  BY <1>1 DEF CtxEnd, Hook, Begin, BaseReturns, RecordDetails, WrapBody, EndSpan, ReadBody
<1>2. CASE CountStarted(d)
  BY <1>2 DEF CountStarted, Increment
<1>3. CASE CountFailed(d)
  BY <1>3 DEF CountFailed, Increment
<1>4. CASE Classify(d)
  BY <1>4, ClassifyCases DEF Increment
<1> QED BY <1>1, <1>2, <1>3, <1>4 DEF Transport

\* The counters of any number of round trips, seen between any two of their additions,
\* are a ledger: they only grow, by one request, and no request ends twice.
THEOREM CountersAreALedger == Spec => CountsAsLedger
<1>1. Init => Ledger!Init
  BY DEF Init, Ledger!Init
<1>2. IInv' => Ledger!Balanced'
  BY BooksBalance, PTL
<1>3. IInv /\ IInv' /\ [Next]_vars => [Ledger!Next]_counters
  <2> SUFFICES ASSUME IInv, IInv', [Next]_vars PROVE [Ledger!Next]_counters
    OBVIOUS
  <2>1. Ledger!Balanced'
    BY <1>2
  <2>2. TypeOK
    BY DEF IInv
  <2>3. CASE UNCHANGED vars
    BY <2>3 DEF vars
  <2>4. CASE Next
    <3>1. \/ counters' = counters
          \/ \E counter \in {"started", "failed", "canceled", "timedOut"} :
                counters' = [counters EXCEPT ![counter] = @ + 1]
      BY <2>2, <2>4, StepsCountOnce DEF Next
    <3> QED BY <2>1, <3>1 DEF Ledger!Next, Ledger!Count
  <2> QED BY <2>3, <2>4
<1> QED BY <1>1, <1>3, Invariant, PTL DEF Spec, CountsAsLedger, Ledger!Spec

\* With no round trip under way the books balance: nothing of what the base round
\* tripper has answered is missing or counted twice.
THEOREM OutcomesBalance == Spec => []OutcomesAddUp
<1>1. IInv => OutcomesAddUp
  <2> SUFFICES ASSUME IInv, Counting, \A c \in Callers : pc[c] = "idle"
               PROVE  /\ counters.started = base.answers + base.errors
                      /\ counters.failed + counters.canceled = base.errors
                      /\ counters.timedOut <= counters.failed
    BY DEF OutcomesAddUp
  <2>1. Uncounted = {} /\ Erred = {} /\ Late = {}
    BY DEF Uncounted, Erred, Late
  <2>2. /\ base \in [answers : Nat, errors : Nat]
        /\ counters \in [started : Nat, failed : Nat, canceled : Nat, timedOut : Nat]
    BY DEF IInv, TypeOK
  <2> QED BY <2>1, <2>2, FS_EmptySet DEF IInv, Books
<1> QED BY <1>1, Invariant, PTL
=============================================================================

# krakend-otel in TLA+

krakend-otel adds OpenTelemetry traces and metrics to a KrakenD (Lura) gateway.
Its own logic is bookkeeping: when a span starts and ends, when a report is
recorded and with what, around code it does not own (net/http, the router, the
base round tripper, the SDK). What is hard about it is not any single function
but the order of calls: a body closed while it is read, a handler that hijacks
its connection, a request that is retried, two requests that share a slice, a
collection between two increments. The modules here state what the code promises
in those orders, TLC checks them on small instances, and TLAPS proves the ones
that matter most for every instance.

## 1. Inventory

| component | state it keeps | operations | interacts with |
|---|---|---|---|
| `io`: byte tracking | per body: `started`, `span`, `finished`, `gotError`, `size`; instruments shared by all bodies of a factory | `Read`/`Write`, `Close`, `start`, `incSize`, `end` | created by the client transport for each response body; called by whoever reads and whoever closes |
| `http/server`: global layer | per request: `tracking` (status, size, pattern, static attributes, hijack, errors), span | `ServeHTTP`, the response writer, `traces.start/end`, `metrics.report` | net/http calls it, it calls the router, handlers call the writer back, hijack calls `ServeHTTP`'s callback |
| `router/gin`: endpoint wrapper | per endpoint: pattern and the two attribute slices, built once | the handler, which sets both in the request's tracking | finds the tracking of the global layer in the context |
| `http/client`: round tripper | options; request counters; per attempt: `roundTripTracking` | `RoundTrip`, `traces.start/end`, `metrics.report`, the httptrace hooks, body wrapping | base round tripper, hooks called from the dialling goroutine, `io` for the body |
| `http/attributes.go` | none | span attributes of a request or response | server, client |
| `lura`: proxy layer | per endpoint or backend: meter, tracer, attributes | the middlewares of the stages "proxy" and "backend" | configuration, global state |
| `lura`: backend client factory | `defaultOpts` | `InstrumentedHTTPClientFactory` | configuration, round tripper |
| `lura`: server runner | none | wraps the router in the global layer | server |
| registration (`otel.go`) | none of its own | `Register`, `RegisterWithConfig`, `RegisterGlobalInstanceWithEnv`, the shutdown closure | configuration, exporters, state |
| `state` | the global state and the global configuration, each under a lock of its own; providers, sampler | `SetGlobalState`, `SetGlobalConfig`, getters, `Shutdown`, options of a layer | everything above |
| `exporter` | maps of instances under a lock; Prometheus servers | `Instances`, setters and getters | registration |
| `config` | none | parsing, defaults, validation, `Enabled` | registration, layers |

What makes each correct, and what is hard about it:

- **io**: the body is reported once, with the bytes that were moved and the
  right error flag; a span that was started is ended. Hard: there is no lock, and
  HTTP bodies are closed from other goroutines than the one that reads; `Close`
  may come before the first `Read`; an error ends the tracking inside a call.
- **server**: each span is ended once; a report has the status, the route and the
  occasion of its own request. Hard: the hijack callback reports in the middle of
  the handler, and `ServeHTTP` reports again; handlers send statuses in any order;
  requests of an endpoint share a slice that is appended to; handlers panic.
- **client**: an attempt carries its own trace context; the counters add up;
  the span and the counters tell the same story; the span of the body belongs to
  that of the round trip. Hard: retries with one request, contexts that end at any
  moment, hooks of a dial that outlives the attempt, sampling, collections between
  two increments.
- **proxy layer**: a stage reports what it was configured to; its metric and its
  span tell the same story; a caller that leaves is no error, and a timeout is no
  cancellation. Hard: the backends run concurrently, are cancelled or time out one by one, and may outlive
  the stage that called them; the error and the context are read at different moments; a merge has several
  errors at once.
- **layer options**: a part of the options that is present is obeyed whatever the other
  is, and one that disables its stage is silent; what is missing is on. Hard: each reader of an override treats an absent part in its
  own way, and one of them writes its defaults into options that others read.
- **registration, state, exporters**: whoever finds a configuration finds a state;
  exporters, state and configuration in force are of one registration; a shutdown
  flushes, and its own state only; every server stops. Hard: three setters in a row while
  layers are built, failures half-way, reloads that overlap, a context captured by a
  closure, a server that is shut down before it has started.

`PROJECT.json` lists the hazards with the line where each bites.

## 2. Modules

| module | models | composes |
|---|---|---|
| `TransferReport` | what tracking a body promises its holders: bytes add up, at most one report each, with the total of its moment | |
| `IOTracking` | one body of `io` and the goroutines that hold it | implements `TransferReport` |
| `IOTrackingProofs` | theorems about `IOTracking` | |
| `ServerTracking` | the global layer with its response writer, the gin wrapper, concurrent requests of one endpoint | |
| `ServerTrackingProofs` | theorems about `ServerTracking` | |
| `OutcomeLedger` | what the request counters promise whoever collects them | |
| `ClientTransport` | the round tripper, its hooks and counters, retries | hands bodies to `IOTracking`; implements `OutcomeLedger` |
| `MCClientTransport` | the configurations TLC goes through | `ClientTransport` |
| `ClientTransportProofs` | theorems about `ClientTransport` | |
| `Pipeline` | the proxy layer: both factories, and one request through the stages they built | |
| `PipelineProofs` | theorems about `Pipeline` | |
| `LayerConfig` | the options of the layers of one endpoint: defaults, overrides, the factories that read them | |
| `MCLayerConfig` | the parts TLC goes through | `LayerConfig` |
| `LayerConfigProofs` | theorems about `LayerConfig` | |
| `Handover` | what registration promises to the layers that are built while the telemetry is replaced | |
| `Registration` | registrations, exporters, Prometheus servers, the global state and configuration, layers that get them, shutdowns | implements `Handover` |
| `MCRegistration` | the configurations TLC goes through | `Registration` |
| `RegistrationProofs` | theorems about `Registration` | |

The broken variants of an action (`FinishForgetsFlag`, `BeginInPlace`, ...) stand
next to it. They are bugs the code could plausibly have, each of them is used to
see that a property fails when the code is wrong, and no specification uses them.

Three components have an abstract specification. `TransferReport` forgets how a body is
tracked and keeps the total and who has reported it; `OutcomeLedger` forgets the
callers and keeps the counters; `Handover` forgets exporters, servers, shutdowns and the
setters' order and keeps whose state is in force and what each layer has got. Each is a `PROPERTY`
of a run (`Implements`, `CountsAsLedger`, `HandsOver`) and a theorem.

### IOTracking

`Read` and `Write` only differ in the direction of the bytes. A call goes through
`BeginTransfer` (the test of `started`), `Start`, `StartSpan`, `Transfer` (the
wrapped stream), `Account` (`incSize`), and when there was an error `end`, `Reend`
(the second keeping of the error) and `end` again. `end`, which a `Close` calls as
well, is `EndCheck` (the test of `finished`), `Finish` (the flag, the elapsed time, the
error), `Record` and `EndSpan`. Those are the places where another goroutine can
come in between to some effect: the four measurements of one report are a single step, so a
report has one size. The fields of the struct are the variables of the same name;
`call` holds a goroutine's locals, `reports` what was recorded. A report remembers
who made it, the error its `end` was called with, and whether the time it was
computed from had ever been set. The wrapped stream (`StreamAnswers`) may move any part of what
it has, with any error, except that a closed one fails and `io.EOF` means the end.

### ServerTracking

A request goes from `Begin` to the handler, which may in any order match its
endpoint (`Match`, the gin wrapper), `Write`, `WriteHeader`, `Flush`, `Hijack`,
return or panic. `Finish`, `AppendAttrs` and `RecordMetrics` are the report, once
from `ServeHTTP` and once from each hijack callback; `resume` says which. `wire` is
what net/http has sent, which the code cannot see. `spare` stands for the cells
behind the endpoint's static attributes: when Go's growth of slices left room for
four more (`Aliased`), `append` in `metrics.report` writes there for all the
requests of the endpoint, and what is recorded is read back afterwards. Header
recording, sizes and all attributes but status and route are left out.

### ClientTransport

A caller runs `Begin` (`traces.start`), `BaseReturns`, the metrics report in the
order of its `Add`s (`CountStarted`, `Classify`, `CountFailed`, `RecordDetails`),
`WrapBody` and `EndSpan`, and may send the same request again. Meanwhile its
context ends (`CtxEnd`), the dial calls hooks (`Hook`) and the caller reads the body
it got (`ReadBody`, the first `Read` only). `sent` is the trace
context the server received, `header` the one in the caller's own header map.
The sampler is the one `state.NewWithVersionAndEnv` chooses. The provider without
any exporter is not a case of its own: it samples nothing, as `dropped` does.

### Pipeline

The gateway starts by building the backends (`BuildBackend`, i.e. `BackendFactory`) and then
the proxy of the endpoint (`BuildProxy`, `ProxyFactory`), each with the options the configuration
may give it: a whole service-level one, or an override of the backend in which the metrics, the traces or
both are absent. `layer` is what a stage got. Then each stage runs through `Enter`
(the tracer's `start`), `NextReturns`, `Report` (the meter) and `End` (the tracer's `end`), the backend calls
concurrently, from the moment the proxy stage was entered. `NextReturns` takes any answer lura could give,
`result` keeps it, and whether the caller had gone by then. A stage that was built
without a part takes the same steps and leaves that part alone. `CtxEnd` may come at any moment;
the contexts of the calls derive from that of the proxy stage.
A call of the model is either a backend of its own or one of several calls of a backend
(a concurrent one): as each has any options, it stands for both.

### LayerConfig

`given` are the options of the service as configured, `layers` those in force, `override` those
of an endpoint and of its backend; a pointer that may be nil is a set with at most one element.
`Defaults` is `UnsetFieldsToDefaults`; the second call, of `NewConfig`, finds nothing missing.
Then lura calls the three factories from the inside out: `ClientFactory`
(`InstrumentedHTTPClientFactory`, which fills the parts that are missing in the options it was
given, be they the service's or a copy of the override), `BackendFactory` and `ProxyFactory`. `got` is
what will be reported in the end, of which kind. `Pipeline` starts from options like these and
follows a request; here it is the options that are followed.

### Registration

Gateways register one after the other, or, when `overlap` is true, at the same time. `Begin` is the
reading and validation of a configuration; `CreateOTLP` and `CreatePrometheus` create one
exporter or fail; `Publish`, then the two steps of `Install`, set the exporters, the state and the
configuration, one lock at a time, and that is where others come in between. `instances`, `state` and
`config` name the gateway whose ones are in force. A layer is built in two steps (`Build`), as every
factory does: the configuration when it is made, the state later. `Record`, `Export` and `Flush` are
the SDK's side: what is recorded is pending until it is exported, a provider that is shut down
ignores what is recorded, and a shutdown under a context that has ended loses the metrics
and may lose the traces. `Shutdown` is the closure that `Register` returns, a provider at a time. Each
Prometheus server has the goroutine that listens (`Listen`, once, and it may fail) and the one that
waits for the context (`Stop`). An exporter proper has no state but its name and what it reports.

## 3. Runs

| run | instance | shows |
|---|---|---|
| `IOSingleOwner` | one goroutine, 4 bytes | a report has all the bytes and the right flag, in every order of reads and closes; a span is left open only if the body was closed unread |
| `IOShared` | reader and one closer, 2 bytes | under races `TransferReport` is implemented: one report per goroutine at most, with the total of its moment, and never too many bytes; whoever enters `end`, the body gets reported and its live span ended |
| `IOAtMostOneReport` | reader and closer | violated: both report |
| `IOReportedTimeFromFirstTransfer` | reader and closer | violated: a body closed unread is reported with the time since the zero time |
| `ServerOne` | one request, two hijacks, statuses 103, 200, 500, 9 static attributes, all configurations | spans ended once, reports match hijacks, the status is the one sent for a handler that sets it once in time, span and metric agree, a hijack is reported without waiting for the handler |
| `ServerRecordedStatusWasSent` | one request | violated: a 1xx or a late status is recorded |
| `ServerSharedAttributes` | two requests, 9 static attributes | violated: one reports the other's status |
| `ClientRetry` | one caller, two attempts, all configurations that instrument anything | own trace context, span and counters agree, context errors classified, details on the span, body under its round trip; `OutcomeLedger` is implemented: at any collection the outcomes do not exceed the requests started; the counters add up at rest |
| `PipelineRequest` | two backend calls, all options | a skipped endpoint is left alone; metric and span of a stage agree; once the caller is gone, failures are cancellations; no timeout is taken for a cancellation; a merge is an error exactly when it has one |
| `LayerConfig` | one endpoint, skipped or not, and its backend; all options, parts with one field, with all and with none | a part that is present is obeyed, in that it disables the stage or stage and client report what it says; what is missing is on, with the exceptions the property names; the factories leave the service's options as the defaults made them |
| `LayerDisabledStage` | the same | violated: with the stage disabled the other fields still have effect |
| `Registration` | two gateways in turn or at once, one layer, two names, seven configurations | a layer has a state; `Handover` is implemented: when registrations take turns that state is no older than the layer's configuration; what is in force is of one registration; no exporter is lost; a shutdown is of its own state and flushes; servers stop |

Bounds. Four bytes let a body be read in several parts with an error before,
between and after them; two bytes are enough for the race, where what counts is
whether a transfer falls before or after a report; more goroutines are left to the theorems. Two hijacks show
a failed and a successful attempt in either order. Nine
attributes are the first number for which the capacity leaves room for
four, so that the append of `ServerOne` goes through the shared cells too; `SharedLengths` and `ReportsOwnStatus` settle all the
others. Two requests are enough for one to write between the append and the copy
of the other; what a request reports apart from that does not depend on the others, so `ServerOne` has one. Two attempts let whatever the first leaves behind reach the second; the sums of the counters
are taken at every moment of one caller's report here, and of any number of callers by the theorems. Two calls of a backend stage let one fail or time out and
the other be cancelled, and one return before and one after the stage around them. The client's runs do not check for
deadlock, as a caller stops after its last attempt, and neither does `PipelineRequest`, whose request
ends, or whose gateway does not start. In `Registration` two gateways are the one that is replaced and the
one that replaces it, one layer gets its configuration and its state at any two moments, and the
seven configurations fail at each step, share a name, or report nothing, traces, metrics or
both in each way; it ends when all has been said, and `LayerConfig` when the last factory has run, so neither
checks for deadlock.

Fairness. A goroutine that is not blocked goes on running, so the bookkeeping around a wrapped call
(`Bookkeeping`, `Reporting`, and `Start`, `StartSpan`, `Account`, `Reend`) is weakly fair.
Nothing is assumed of what is outside: a wrapped `Read` may block for ever, nobody has to close, a handler need not return.
In `Registration` only the goroutine that waits for the context is fair (`Stopping`), unless the process has panicked: once the
context has ended it is no longer blocked. That contexts end, that a server gets to listen, or that anything is exported is not assumed.

## 4. Proofs

`IOTrackingProofs`, for any set of goroutines and any payload:

- `TypeCorrect`, `ReportsOncePerGoroutine`, `ReportsAreBounded`, `FinishedBodiesAreReported` (a finished
  body has been reported or is being reported: what `EndingReported` leaves to fairness is only
  that a goroutine goes on). None is inductive
  alone. `IInv` adds that bytes are conserved (moved, accounted, or in the local of
  the transfer under way), that a goroutine past `Finish` implies `finished`, and
  that one that has reported can never pass `EndCheck` again. That last part is why one
  goroutine cannot report twice, although nothing prevents two from reporting once each.
- `TrackingImplements`: every step of `IOTracking` is a step of `TransferReport` or leaves it
  alone. `Record` publishes, and may, because the invariant has it that a goroutine that is about to
  record has not recorded yet; the abstract reports are the concrete ones without what only the properties look
  at (`PublishedIsSeq`, `RecordPublishes`).
- `NoMoreReportsThanHolders`: the authors of the reports differ, so there are no more reports than
  goroutines, if those are finitely many. `SingleOwnerReportsOnce`: with the reader alone, `AtMostOneReport`, which
  `IOAtMostOneReport` refutes for two, holds.
- `OwnerErrorsMatch`, `OwnerLeaksUnreadOnly`, `OwnerCountsEveryByte`, when the reader is the only goroutine.

`ServerTrackingProofs`, for any requests, statuses and attributes:

- `TypeCorrect`, `SpansEndOnce` and `ReportsFollowHijacks`, from `IInv`: of each
  request, the span is only live between `Begin` and its first report, and the
  reports made, with the one under way, are as many as the hijacks. A lemma says that a
  step of one request leaves what the others own alone.
- `HijacksAreReportedFirst`, the safety half of `HijackReported`: the handler does not go on, return or panic
  with a hijack that was not reported, for a hijack goes straight to `Finish`, and the count of the
  invariant has its report by the time the callback is over.
- `SpansAgreeWithMetrics`, `ReportsOwnStatus` and `SentStatusIsRecorded`, assuming `CellsApart`: either `append` finds no
  room in the endpoint's array (`~Aliased`), or there is a single request. The shared cells are exactly what breaks
  them, as `ServerSharedAttributes` shows; the lemma `CellsAreOwn` says that under the assumption what a report wrote there is still
  there when it is copied.
- `SharedLengths` says for which numbers of static attributes `Aliased` holds: 9 to 12, 17 to 28, 33 to
  60, 65 to 124 and 129 to 252, and no others. So the assumption holds up to eight: `ServerSharedAttributes` takes the
  first number that breaks it, and up to the one before `ReportsOwnStatus` needs no single request.

`PipelineProofs`, for any number of calls: all the properties `PipelineRequest` checks. `IInv` says
stage by stage that building is over before anything enters, that a context ends no later than
the one it derives from, that spans are where the request is, and what the metric and the span
have made of the result; the lemma `ReportFlags` works out the two conditions of the meter. Two lemmas
(`Frame`, `Others`) say that a step of one stage leaves the other stages' invariant alone. The context may end
between the result and the metric, so the invariant relates the metric to the result and to the moment
the caller left; of the present context it only uses that one that has ended stays as it ended. `TimeoutsAreNotCanceled` has an induction
of its own, `Happened`: whatever is known of a cancellation, be it in an error, a metric or a span, comes from a context that was
canceled, the stage's or one of the merged calls', and contexts that have ended stay as they ended.

`ClientTransportProofs`, for any callers and attempts: all the properties `ClientRetry` checks. `IInv` says of each
caller what its class, its span and its body are at each place of the round trip (`Told`, `Spanned`,
`Wrapped`), and of the counters (`Books`) how many of the callers stand where the base has answered and they have not
counted it yet: `started` and those make up the answers and errors, `failed`, `canceled` and the
callers between the two tell the errors. The sums are cardinalities of sets of callers, hence
`FiniteSetTheorems`, and the assumption that there are finitely many. `CountersAreALedger` is the refinement of
`OutcomeLedger`: a step adds one to one counter or to none (`StepsCountOnce`), and the balance the ledger
asks for afterwards follows from `Books` of the next state (`BooksBalance`). `OutcomesAreBounded` states
that balance as an invariant.

`LayerConfigProofs`, for any parts and endpoints: `PartsAreObeyed`, `MissingPartsAreOn` and `ServiceOptionsAreKept`. `IInv` says that the
defaults leave both parts in the service's options (`Defaulted`), who may have reported so far (`Reporters`), and
what each factory has made of the options in force (`Made`); the client factory's write changes nothing in the service's options, for
nothing is missing there. `DefaultsOnce` proves that setting the defaults twice is setting them once, which is what
lets `Defaults` be a single step.

`RegistrationProofs`, for any number of gateways, any layers and any configurations: the safety properties of `Registration`.
`IInv` adds that a configuration in force has a state set before it, which is why a layer
never finds the one without the other however registrations overlap; that when they take turns at most one is under way
and none of a later gateway has begun, which is why `state` never falls behind `config`; that
the providers of a gateway are open from `SetState` to its own shutdown; and what has been flushed at each step of one. `RegistrationHandsOver` is the refinement of `Handover`: `SetState` replaces
(`StateReplaced`), the steps of a layer look and take (`BuildHandsOver`), and nothing else touches what
`Handover` sees; `StatesAreNotOlder` states what follows from it for one layer. `ServersAreWatched`, which has its own
induction, is the safety half of `ServersStop`: a server that is not down for good has the goroutine that will stop it, so only the fairness of
`Stop` is missing; `ServersStayDown` says that a listener which comes late does not bring a server back.

Assumptions are those of the modules: the proxy stage is not one of the calls, the reader is a goroutine, the payload a
natural number, 200 a status that commits and "nothing" not one, at most 256 static attributes (where
the doubling of slices stops), bounds natural, finitely many callers.

Only model-checked: the liveness properties (`EndingReported`, `LiveSpanEnded`, `HijackReported`, `ServersStop`), which
are out of the prover's reach; of all but `LiveSpanEnded` the safety half is proved, as said above. Enabledness, on which the fairness
of those rests, is TLC's too.

## 5. Where code and words disagree

The five violated runs are listed as findings. Some more was met while modelling,
and is recorded in the models as what the code does:

- a hijacked request is reported twice, first while it is still served
  (`ReportsMatchHijacks` states it), though the latency is "the time it takes to
  serve the request";
- the started counter is incremented after the answer, and the timed-out one before the
  failed one, so a collection may see a timeout that is not yet "included in failed"
  (`OutcomesAddUp` only holds at rest);
- a `Close` before the first `Read` does not keep a later `Read` from starting a span, which
  then nobody ends (`LeakOnlyIfClosedUnread` states that this is the only way to leave one open),
  though `Close` "ends the trace";
- a backend override without traces makes the gateway panic when it starts (`BackendPanics`);
- the metric of a stage may say "canceled" where its span has an error, and may have
  both flags at once after a merge; `StageTellsTheSame` states what they do agree on;
- a deadline does not count as a cancellation, which client.go lists it under;
- reading the payload alone makes the transport open a span for the round trip too;
- the body of a sampled-out round trip may start a trace of its own;
- `Shutdown` is there "to be able to flush pending traces and / or metrics", but the closure passes it the context
  of `Register`: when that has ended, as when the shutdown is deferred past a cancellation, the metrics are lost (`Flush`);
  `FlushedInTime` states what holds;
- an override that lacks the metrics and has all of the traces off gets the metrics of the stage and none of the
  client (`MissingIsOn` has the exception);
- connection details alone count as enabled in the configuration and instrument nothing in the transport;
- `requestServerAndPort` keeps a port it could not parse and drops one it could.

## 6. Not modelled

`http/attributes.go`, histogram buckets, path normalisation and the values of
attributes are pure data. The SDK and the collectors are outside: a span is live until it
is ended, a measurement is recorded when it is made, an export succeeds, and a Prometheus
scrape is not followed; sizes of queues and retries of exports are the SDK's. Of `http/client`,
the attribute values (server address, port, status) are left out, and the hooks are one
detail with a beginning and an end. `errorsMeter` of `io` is created and
never used. `Pipeline` takes a state to be registered, as it is whenever a configuration is, which `LayersHaveState`
of `Registration` shows. The propagator and the error handler are process-wide and set alike by every registration.
The addresses and options of exporters, and the getters of instances by name, are left out of `Registration`;
so are resource attributes and the trusted proxies.

## 7. Plan

1. `ClientBody`: `ClientTransport` composed with `IOTracking`, so that a body's span is
   followed from `WrapBody` to its end, and cancelled while it is read.
2. `LayerConfig` with `Registration`: two endpoints, to follow the options the client factory writes into across a reload.
3. The server's address and port, with the attributes.

----------------------------- MODULE IOTracking -----------------------------
(***************************************************************************)
(* One instrumented body of the io package: an instrumentedReader or an    *)
(* instrumentedWriter, and the ioTracking it embeds.  The wrapped stream   *)
(* is external; Read and Write only differ in the direction of the bytes,  *)
(* so both are called a transfer.  The struct has no lock, so goroutines   *)
(* interleave: between the test and the setting of a flag, between the     *)
(* addition of bytes, the report and the end of the span.  The four        *)
(* measurements of one report are one step.                                *)
(***************************************************************************)
EXTENDS Naturals, Sequences

CONSTANTS Goroutines,   \* everyone that holds the wrapped body
          Reader,       \* the one that reads (writes) it; all of them may close it
          Payload       \* the bytes the wrapped stream can move

ASSUME ReaderAssumption  == Reader \in Goroutines
ASSUME PayloadAssumption == Payload \in Nat

VARIABLES
    stream,     \* the wrapped stream: "open", "closed", or "unclosable" (no io.Closer)
    avail,      \* bytes it has not moved yet
    started,    \* FALSE while track.started is the zero time
    span,       \* track.span: "noop", "live" or "ended"
    finished,   \* track.finished
    gotError,   \* track.gotError, "nil" or "fail"
    size,       \* track.size
    pc,         \* what each goroutine does next
    call,       \* the locals of each goroutine's call
    reports     \* the metric reports recorded, in order

shared == <<stream, avail, started, span, finished, gotError, size>>
vars   == <<shared, pc, call, reports>>

Errors == {"nil", "EOF", "fail"}

Step == {"idle", "start", "startspan", "transfer", "account",
         "end", "finish", "record", "endspan", "reend"}

\* op says where t.end returns to; timed whether secs was computed from a
\* started that had been set.
Call == [op : {"transfer", "reend", "close"}, n : 0..Payload,
         err : Errors, timed : BOOLEAN]

Report == [by : Goroutines, size : 0..Payload, error : BOOLEAN,
           cause : Errors, timed : BOOLEAN]

TypeOK ==
    /\ stream \in {"open", "closed", "unclosable"}
    /\ avail \in 0..Payload
    /\ started \in BOOLEAN
    /\ span \in {"noop", "live", "ended"}
    /\ finished \in BOOLEAN
    /\ gotError \in {"nil", "fail"}
    /\ size \in 0..Payload
    /\ pc \in [Goroutines -> Step]
    /\ call \in [Goroutines -> Call]
    /\ reports \in Seq(Report)

CallOf(op, n, err) == [op |-> op, n |-> n, err |-> err, timed |-> FALSE]
NoCall == CallOf("transfer", 0, "nil")

Init ==
    /\ stream \in {"open", "unclosable"}
    /\ avail = Payload
    /\ started = FALSE
    /\ span = "noop"
    /\ finished = FALSE
    /\ gotError = "nil"
    /\ size = 0
    /\ pc = [g \in Goroutines |-> "idle"]
    /\ call = [g \in Goroutines |-> NoCall]
    /\ reports = <<>>

Goto(g, to) == pc' = [pc EXCEPT ![g] = to]

\* The end of the first call of end in incSize, or of the whole operation,
\* whose locals are then gone.
Return(g) ==
    \/ /\ call[g].op = "transfer"
       /\ Goto(g, "reend")
       /\ UNCHANGED call
    \/ /\ call[g].op # "transfer"
       /\ Goto(g, "idle")
       /\ call' = [call EXCEPT ![g] = NoCall]

-----------------------------------------------------------------------------
(* Broken variants of the steps below, each a bug the code could have: the *)
(* properties at the end of the module tell them from the real steps.      *)

\* start without its test: every transfer opens a span.
BeginTransferRestarts ==
    /\ pc[Reader] = "idle"
    /\ Goto(Reader, "start")
    /\ call' = [call EXCEPT ![Reader] = NoCall]
    /\ UNCHANGED <<shared, reports>>

\* The length of the buffer counted instead of the bytes moved.
TransferCountsBuffer ==
    /\ pc[Reader] = "transfer"
    /\ \E n \in 0..avail, err \in Errors :
          /\ avail' = avail - n
          /\ call' = [call EXCEPT ![Reader] = CallOf("transfer", avail, err)]
    /\ Goto(Reader, "account")
    /\ UNCHANGED <<stream, started, span, finished, gotError, size, reports>>

\* incSize ending before it adds.
AccountEndsFirst ==
    /\ pc[Reader] = "account"
    /\ size' = IF call[Reader].err = "nil" THEN size + call[Reader].n ELSE size
    /\ Goto(Reader, IF call[Reader].err = "nil" THEN "idle" ELSE "end")
    /\ UNCHANGED <<stream, avail, started, span, finished, gotError, call, reports>>

\* end that takes io.EOF for a failure.
FinishTakesEOFAsError(g) ==
    /\ pc[g] = "finish"
    /\ finished' = TRUE
    /\ call' = [call EXCEPT ![g].timed = started]
    /\ gotError' = IF call[g].err = "nil" THEN gotError ELSE "fail"
    /\ Goto(g, "record")
    /\ UNCHANGED <<stream, avail, started, span, size, reports>>

\* end that does not set its flag.
FinishForgetsFlag(g) ==
    /\ pc[g] = "finish"
    /\ call' = [call EXCEPT ![g].timed = started]
    /\ gotError' = IF call[g].err \in {"nil", "EOF"} THEN gotError ELSE call[g].err
    /\ Goto(g, "record")
    /\ UNCHANGED <<stream, avail, started, finished, span, size, reports>>

\* end that returns, its flag set, when nothing was transferred.
FinishSkipsUnstarted(g) ==
    /\ pc[g] = "finish"
    /\ finished' = TRUE
    /\ \/ started /\ Goto(g, "record") /\ UNCHANGED call
       \/ ~started /\ Return(g)
    /\ UNCHANGED <<stream, avail, started, span, gotError, size, reports>>

\* span.End in the error branch only.
EndSpanOnlyOnError(g) ==
    /\ pc[g] = "endspan"
    /\ span' = IF span = "live" /\ gotError # "nil" THEN "ended" ELSE span
    /\ Return(g)
    /\ UNCHANGED <<stream, avail, started, finished, gotError, size, reports>>

-----------------------------------------------------------------------------
(* Read and Write: start, the wrapped call, incSize.                       *)

\* t.track.start() tests started before anything else.
BeginTransfer ==
    /\ pc[Reader] = "idle"
    /\ Goto(Reader, IF started THEN "transfer" ELSE "start")
    /\ call' = [call EXCEPT ![Reader] = NoCall]
    /\ UNCHANGED <<shared, reports>>

Start ==
    /\ pc[Reader] = "start"
    /\ started' = TRUE
    /\ Goto(Reader, "startspan")
    /\ UNCHANGED <<stream, avail, span, finished, gotError, size, call, reports>>

\* A tracer that samples the span out gives one that records nothing.
StartSpan ==
    /\ pc[Reader] = "startspan"
    /\ span' \in {"noop", "live"}
    /\ Goto(Reader, "transfer")
    /\ UNCHANGED <<stream, avail, started, finished, gotError, size, call, reports>>

\* What the wrapped stream answers: a closed one fails, an open one moves some
\* of its bytes and reports the end only when it has moved them all.
StreamAnswers(n, err) ==
    /\ stream = "closed" => n = 0 /\ err = "fail"
    /\ err = "EOF" => n = avail

Transfer ==
    /\ pc[Reader] = "transfer"
    /\ \E n \in 0..avail, err \in Errors :
          /\ StreamAnswers(n, err)
          /\ avail' = avail - n
          /\ call' = [call EXCEPT ![Reader] = CallOf("transfer", n, err)]
    /\ Goto(Reader, "account")
    /\ UNCHANGED <<stream, started, span, finished, gotError, size, reports>>

\* incSize: the bytes are added first, and any error ends the tracking.
Account ==
    /\ pc[Reader] = "account"
    /\ size' = size + call[Reader].n
    /\ Goto(Reader, IF call[Reader].err = "nil" THEN "idle" ELSE "end")
    /\ UNCHANGED <<stream, avail, started, span, finished, gotError, call, reports>>

\* Between its two calls of end, incSize keeps the error again.
Reend ==
    /\ pc[Reader] = "reend"
    /\ gotError' = IF call[Reader].err = "EOF" THEN gotError ELSE call[Reader].err
    /\ call' = [call EXCEPT ![Reader].op = "reend"]
    /\ Goto(Reader, "end")
    /\ UNCHANGED <<stream, avail, started, span, finished, size, reports>>

-----------------------------------------------------------------------------
(* Close: the wrapped Close, if there is one, and end with its error.      *)

Close(g) ==
    /\ pc[g] = "idle"
    /\ stream' = IF stream = "unclosable" THEN stream ELSE "closed"
    /\ \E err \in {"nil", "fail"} :
          /\ stream = "unclosable" => err = "nil"
          /\ call' = [call EXCEPT ![g] = CallOf("close", 0, err)]
    /\ Goto(g, "end")
    /\ UNCHANGED <<avail, started, span, finished, gotError, size, reports>>

-----------------------------------------------------------------------------
(* end, which any goroutine may be in.                                     *)

EndCheck(g) ==
    /\ pc[g] = "end"
    /\ IF finished THEN Return(g) ELSE Goto(g, "finish") /\ UNCHANGED call
    /\ UNCHANGED <<shared, reports>>

Finish(g) ==
    /\ pc[g] = "finish"
    /\ finished' = TRUE
    /\ call' = [call EXCEPT ![g].timed = started]
    /\ gotError' = IF call[g].err \in {"nil", "EOF"} THEN gotError ELSE call[g].err
    /\ Goto(g, "record")
    /\ UNCHANGED <<stream, avail, started, span, size, reports>>

Record(g) ==
    /\ pc[g] = "record"
    /\ reports' = Append(reports, [by |-> g, size |-> size, error |-> gotError # "nil",
                                   cause |-> call[g].err, timed |-> call[g].timed])
    /\ Goto(g, "endspan")
    /\ UNCHANGED <<shared, call>>

EndSpan(g) ==
    /\ pc[g] = "endspan"
    /\ span' = IF span = "live" THEN "ended" ELSE span
    /\ Return(g)
    /\ UNCHANGED <<stream, avail, started, finished, gotError, size, reports>>

-----------------------------------------------------------------------------
Next ==
    \/ BeginTransfer \/ Start \/ StartSpan \/ Transfer \/ Account \/ Reend
    \/ \E g \in Goroutines :
          Close(g) \/ EndCheck(g) \/ Finish(g) \/ Record(g) \/ EndSpan(g)

\* The wrapped call may block for as long as the network does, and nobody has
\* to read or close: only the bookkeeping around the call is sure to go on.
Bookkeeping(g) == EndCheck(g) \/ Finish(g) \/ Record(g) \/ EndSpan(g)

Fairness ==
    /\ WF_vars(Start \/ StartSpan \/ Account \/ Reend)
    /\ \A g \in Goroutines : WF_vars(Bookkeeping(g))

Spec     == Init /\ [][Next]_vars
FairSpec == Spec /\ Fairness

-----------------------------------------------------------------------------
(* Properties of a body that one goroutine reads and closes.               *)

\* The report and the span say "error" exactly when the call that ended the
\* tracking failed: io.EOF is an ordinary end (tracking.go end, incSize).
ErrorFlagMatchesCause ==
    \A i \in 1..Len(reports) : reports[i].error <=> reports[i].cause = "fail"

\* A report carries every byte the stream had moved by then, those of the very
\* call that ended the transfer included (incSize adds before it ends).
ReportCountsEveryByte ==
    [][reports' # reports => reports'[Len(reports')].size = Payload - avail]_vars

\* The only way to leave a live span behind is to close before the first
\* transfer and to transfer afterwards: any other order ends what it started.
LeakOnlyIfClosedUnread ==
    finished /\ pc[Reader] = "idle" /\ span = "live"
        => \E i \in 1..Len(reports) : ~reports[i].timed

(* Properties of a body that other goroutines may close at any moment.     *)

\* Whoever ends it and however their calls interleave, the tracking implements the
\* abstract promise: each goroutine reports once, with the total of its moment.
Abstract == INSTANCE TransferReport WITH
    Holders   <- Goroutines,
    total     <- size,
    published <- [i \in 1..Len(reports) |->
                     [by |-> reports[i].by, size |-> reports[i].size,
                      error |-> reports[i].error]]
Implements == Abstract!Spec

\* However the unlocked finished flag is raced for, each goroutine reports the
\* body at most once: its own second call of end sees its own first.
OncePerGoroutine ==
    \A i, j \in 1..Len(reports) : reports[i].by = reports[j].by => i = j

\* A racing report may miss the bytes of a transfer in flight, but it never
\* counts a byte the stream has not moved.
ReportsNeverOvercount ==
    \A i \in 1..Len(reports) : reports[i].size <= Payload - avail

\* Whoever reaches end, the body ends up reported: if the flag turned it away,
\* the goroutine that set the flag records.
EndingReported == \A g \in Goroutines : pc[g] = "end" ~> reports # <<>>

\* A span that is live when the tracking ends is ended by someone.
LiveSpanEnded ==
    \A g \in Goroutines :
        (pc[g] = "end" /\ span = "live" /\ ~finished) ~> span = "ended"

(* What the comments of the code say, and the code does not do.            *)

\* tracking.go:21 "to avoid several calls to close send repeated metrics".
AtMostOneReport == Len(reports) <= 1

\* config.go:221 the reading time is "from first time to read, until all the
\* body has been read": a reported time starts at some first transfer.
ReportedTimeFromFirstTransfer == \A i \in 1..Len(reports) : reports[i].timed
=============================================================================

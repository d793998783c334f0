-------------------------- MODULE IOTrackingProofs --------------------------
(***************************************************************************)
(* For any goroutines and any payload: the types, no byte counted that was *)
(* not moved, and the reports that TransferReport promises, one for each   *)
(* goroutine at most; and what the one report of a body with one owner     *)
(* says.                                                                   *)
(***************************************************************************)
EXTENDS IOTracking, SequenceTheorems, FiniteSetTheorems, TLAPS

\* The bytes of a transfer that has been made and not yet added.
InFlight == IF pc[Reader] = "account" THEN call[Reader].n ELSE 0

\* Every byte of the payload is still to move, in flight, or counted.
BytesConserved == size + InFlight + avail = Payload

\* A report, and any goroutine past Finish, implies the flag.
FlagSet ==
    /\ reports # <<>> => finished
    /\ \A g \in Goroutines : pc[g] \in {"record", "endspan", "reend"} => finished

\* A goroutine that has reported is not about to report.
ReportersDone ==
    \A i \in 1..Len(reports) : pc[reports[i].by] \notin {"finish", "record"}

IInv == TypeOK /\ BytesConserved /\ FlagSet /\ ReportersDone
            /\ OncePerGoroutine /\ ReportsNeverOvercount

-----------------------------------------------------------------------------
\* The locals of a call, new or changed in one field, are well typed.
LEMMA CallTypes ==
    /\ NoCall \in Call
    /\ \A op \in {"transfer", "reend", "close"}, n \in 0..Payload, err \in Errors :
          CallOf(op, n, err) \in Call
    /\ \A g \in Goroutines, b \in BOOLEAN : call \in [Goroutines -> Call] =>
          /\ [call EXCEPT ![g].timed = b] \in [Goroutines -> Call]
          /\ [call EXCEPT ![g].op = "reend"] \in [Goroutines -> Call]
<1>1. \A op \in {"transfer", "reend", "close"}, n \in 0..Payload, err \in Errors :
          CallOf(op, n, err) \in Call
  BY DEF CallOf, Call
<1>2. NoCall \in Call
  BY <1>1, PayloadAssumption DEF NoCall, Errors
<1>3. ASSUME NEW g \in Goroutines, NEW b \in BOOLEAN, call \in [Goroutines -> Call]
      PROVE  /\ [call EXCEPT ![g].timed = b] \in [Goroutines -> Call]
             /\ [call EXCEPT ![g].op = "reend"] \in [Goroutines -> Call]
  <2>1. call[g] \in Call
    BY <1>3
  <2>2. /\ [call[g] EXCEPT !.timed = b] \in Call
        /\ [call[g] EXCEPT !.op = "reend"] \in Call
    BY <2>1 DEF Call
  <2> QED BY <1>3, <2>2
<1> QED BY <1>1, <1>2, <1>3

\* A struct just built has no report and nothing in flight.
LEMMA InitIInv == Init => IInv
<1> SUFFICES ASSUME Init PROVE IInv
  OBVIOUS
<1>1. TypeOK
  <2>1. reports \in Seq(Report)
    BY EmptySeq DEF Init
  <2>2. call \in [Goroutines -> Call] /\ pc \in [Goroutines -> Step]
    BY CallTypes DEF Init, Step
  <2>3. avail \in 0..Payload /\ size \in 0..Payload
    BY PayloadAssumption DEF Init
  <2>4. /\ stream \in {"open", "closed", "unclosable"}
        /\ started \in BOOLEAN /\ finished \in BOOLEAN
        /\ span \in {"noop", "live", "ended"}
        /\ gotError \in {"nil", "fail"}
    BY DEF Init
  <2> QED BY <2>1, <2>2, <2>3, <2>4 DEF TypeOK
<1>2. BytesConserved
  BY ReaderAssumption, PayloadAssumption DEF Init, BytesConserved, InFlight
<1>3. Len(reports) = 0
  BY DEF Init
<1> QED BY <1>1, <1>2, <1>3 DEF Init, IInv, FlagSet, ReportersDone,
        OncePerGoroutine, ReportsNeverOvercount

\* Each step keeps the types; the bound on size is the conservation of bytes.
LEMMA NextTypeOK == IInv /\ [Next]_vars => TypeOK'
<1> SUFFICES ASSUME IInv, [Next]_vars PROVE TypeOK'
  OBVIOUS
<1> USE ReaderAssumption, PayloadAssumption, CallTypes
    DEF IInv, TypeOK, Step, Goto
<1>1. CASE BeginTransfer
  BY <1>1 DEF BeginTransfer, shared
<1>2. CASE Start
  BY <1>2 DEF Start
<1>3. CASE StartSpan
  BY <1>3 DEF StartSpan
<1>4. CASE Transfer
  <2>1. PICK n \in 0..avail, err \in Errors :
            avail' = avail - n
            /\ call' = [call EXCEPT ![Reader] = CallOf("transfer", n, err)]
    BY <1>4 DEF Transfer
  <2>2. n \in 0..Payload /\ avail' \in 0..Payload
    BY <2>1
  <2>3. call' \in [Goroutines -> Call]
    BY <2>1, <2>2
  <2> QED BY <1>4, <2>2, <2>3 DEF Transfer
<1>5. CASE Account
  BY <1>5 DEF Account, BytesConserved, InFlight, Call
<1>6. CASE Reend
  BY <1>6 DEF Reend, Call, Errors
<1>7. ASSUME NEW g \in Goroutines, Close(g) PROVE TypeOK'
  <2>1. PICK err \in {"nil", "fail"} :
            call' = [call EXCEPT ![g] = CallOf("close", 0, err)]
    BY <1>7 DEF Close
  <2>2. call' \in [Goroutines -> Call]
    BY <2>1 DEF Errors
  <2> QED BY <1>7, <2>2 DEF Close
<1>8. ASSUME NEW g \in Goroutines, EndCheck(g) PROVE TypeOK'
  BY <1>8 DEF EndCheck, Return, shared
<1>9. ASSUME NEW g \in Goroutines, Finish(g) PROVE TypeOK'
  <2>1. call[g].err \in {"nil", "EOF"} \/ call[g].err = "fail"
    BY DEF Call, Errors
  <2> QED BY <1>9, <2>1 DEF Finish
<1>10. ASSUME NEW g \in Goroutines, Record(g) PROVE TypeOK'
  <2>1. [by |-> g, size |-> size, error |-> gotError # "nil",
         cause |-> call[g].err, timed |-> call[g].timed] \in Report
    BY DEF Report, Call
  <2> QED BY <1>10, <2>1, AppendProperties DEF Record, shared
<1>11. ASSUME NEW g \in Goroutines, EndSpan(g) PROVE TypeOK'
  BY <1>11 DEF EndSpan, Return
<1>12. CASE UNCHANGED vars
  BY <1>12 DEF vars, shared
<1> QED BY <1>1, <1>2, <1>3, <1>4, <1>5, <1>6, <1>7, <1>8, <1>9, <1>10, <1>11, <1>12
     DEF Next

\* Bytes leave the stream in Transfer, reach size in Account, and move nowhere else.
LEMMA NextBytesConserved == IInv /\ [Next]_vars => BytesConserved'
<1> SUFFICES ASSUME IInv, [Next]_vars PROVE BytesConserved'
  OBVIOUS
<1> USE ReaderAssumption, PayloadAssumption
    DEF IInv, TypeOK, Step, Goto, BytesConserved, InFlight
<1>1. CASE BeginTransfer
  BY <1>1 DEF BeginTransfer, shared
<1>2. CASE Start
  BY <1>2 DEF Start
<1>3. CASE StartSpan
  BY <1>3 DEF StartSpan
<1>4. CASE Transfer
  BY <1>4 DEF Transfer, CallOf
<1>5. CASE Account
  BY <1>5 DEF Account, Call
<1>6. CASE Reend
  BY <1>6 DEF Reend
<1>7. ASSUME NEW g \in Goroutines, Close(g) PROVE BytesConserved'
  BY <1>7 DEF Close
<1>8. ASSUME NEW g \in Goroutines, EndCheck(g) PROVE BytesConserved'
  BY <1>8 DEF EndCheck, Return, shared
<1>9. ASSUME NEW g \in Goroutines, Finish(g) PROVE BytesConserved'
  BY <1>9 DEF Finish
<1>10. ASSUME NEW g \in Goroutines, Record(g) PROVE BytesConserved'
  BY <1>10 DEF Record, shared
<1>11. ASSUME NEW g \in Goroutines, EndSpan(g) PROVE BytesConserved'
  BY <1>11 DEF EndSpan, Return
<1>12. CASE UNCHANGED vars
  BY <1>12 DEF vars, shared
<1> QED BY <1>1, <1>2, <1>3, <1>4, <1>5, <1>6, <1>7, <1>8, <1>9, <1>10, <1>11, <1>12
     DEF Next

\* Nobody lowers the flag, and only the goroutine that raises it goes on to report.
LEMMA NextFlagSet == IInv /\ [Next]_vars => FlagSet'
<1> SUFFICES ASSUME IInv, [Next]_vars PROVE FlagSet'
  OBVIOUS
<1> USE ReaderAssumption DEF IInv, TypeOK, Goto, FlagSet
<1>1. CASE BeginTransfer
  BY <1>1 DEF BeginTransfer, shared
<1>2. CASE Start \/ StartSpan
  BY <1>2 DEF Start, StartSpan
<1>3. CASE Transfer \/ Account \/ Reend
  BY <1>3 DEF Transfer, Account, Reend
<1>4. ASSUME NEW g \in Goroutines, Close(g) PROVE FlagSet'
  BY <1>4 DEF Close
<1>5. ASSUME NEW g \in Goroutines, EndCheck(g) PROVE FlagSet'
  BY <1>5 DEF EndCheck, Return, shared
<1>6. ASSUME NEW g \in Goroutines, Finish(g) PROVE FlagSet'
  BY <1>6 DEF Finish
<1>7. ASSUME NEW g \in Goroutines, Record(g) PROVE FlagSet'
  BY <1>7 DEF Record, shared
<1>8. ASSUME NEW g \in Goroutines, EndSpan(g) PROVE FlagSet'
  BY <1>8 DEF EndSpan, Return
<1>9. CASE UNCHANGED vars
  BY <1>9 DEF vars, shared
<1> QED BY <1>1, <1>2, <1>3, <1>4, <1>5, <1>6, <1>7, <1>8, <1>9 DEF Next

\* What the steps other than Record leave alone: they do not touch the reports, and
\* take only a goroutine that finds the flag unset into Finish.
LEMMA QuietSteps ==
    ASSUME IInv, [Next]_vars, \A g \in Goroutines : ~Record(g)
    PROVE  /\ reports' = reports
           /\ avail' \in 0..avail
           /\ \A h \in Goroutines :
                 pc'[h] \in {"finish", "record"} =>
                     pc[h] \in {"finish", "record"} \/ ~finished
<1> USE ReaderAssumption DEF IInv, TypeOK, Goto
<1>1. CASE BeginTransfer
  BY <1>1 DEF BeginTransfer, shared
<1>2. CASE Start \/ StartSpan
  BY <1>2 DEF Start, StartSpan
<1>3. CASE Transfer
  BY <1>3, PayloadAssumption DEF Transfer
<1>4. CASE Account \/ Reend
  BY <1>4 DEF Account, Reend
<1>5. ASSUME NEW g \in Goroutines, Close(g) \/ EndCheck(g) \/ Finish(g) \/ EndSpan(g)
      PROVE  /\ reports' = reports
             /\ avail' = avail
             /\ \A h \in Goroutines :
                   pc'[h] \in {"finish", "record"} =>
                       pc[h] \in {"finish", "record"} \/ ~finished
  BY <1>5 DEF Close, EndCheck, Finish, EndSpan, Return, shared
<1>6. CASE UNCHANGED vars
  BY <1>6 DEF vars, shared
<1> QED BY <1>1, <1>2, <1>3, <1>4, <1>5, <1>6, PayloadAssumption DEF Next

\* A report is appended by a goroutine that had none and leaves for EndSpan.
LEMMA NextReports ==
    IInv /\ [Next]_vars => ReportersDone' /\ OncePerGoroutine' /\ ReportsNeverOvercount'
<1> SUFFICES ASSUME IInv, [Next]_vars
             PROVE  ReportersDone' /\ OncePerGoroutine' /\ ReportsNeverOvercount'
  OBVIOUS
<1> USE DEF ReportersDone, OncePerGoroutine, ReportsNeverOvercount
<1>0. \A i \in 1..Len(reports) : reports[i] \in Report
  BY ElementOfSeq DEF IInv, TypeOK
<1>1. CASE \A g \in Goroutines : ~Record(g)
  <2>1. reports' = reports /\ avail' \in 0..avail
    BY <1>1, QuietSteps
  <2>2. ReportersDone'
    <3> SUFFICES ASSUME NEW i \in 1..Len(reports)
                 PROVE  pc'[reports[i].by] \notin {"finish", "record"}
      BY <2>1
    <3>1. reports[i].by \in Goroutines
      BY <1>0 DEF Report
    <3>2. finished
      BY DEF IInv, FlagSet
    <3> QED BY <1>1, <3>1, <3>2, QuietSteps DEF IInv
  <2>3. ReportsNeverOvercount'
    <3> SUFFICES ASSUME NEW i \in 1..Len(reports)
                 PROVE  reports[i].size <= Payload - avail'
      BY <2>1
    <3>1. reports[i].size \in Nat /\ avail \in Nat
      BY <1>0, PayloadAssumption DEF Report, IInv, TypeOK
    <3> QED BY <2>1, <3>1, PayloadAssumption DEF IInv
  <2> QED BY <2>1, <2>2, <2>3 DEF IInv
<1>2. ASSUME NEW g \in Goroutines, Record(g)
      PROVE  ReportersDone' /\ OncePerGoroutine' /\ ReportsNeverOvercount'
  <2> DEFINE r == [by |-> g, size |-> size, error |-> gotError # "nil",
                   cause |-> call[g].err, timed |-> call[g].timed]
  <2>1. r \in Report
    BY DEF Report, Call, IInv, TypeOK
  <2>2. /\ Len(reports') = Len(reports) + 1
        /\ \A i \in 1..Len(reports) : reports'[i] = reports[i]
        /\ reports'[Len(reports) + 1] = r
    BY <1>2, <2>1, AppendProperties DEF Record, IInv, TypeOK
  <2>3. Len(reports) \in Nat
    BY LenProperties DEF IInv, TypeOK
  <2>4. pc[g] = "record" /\ pc' = [pc EXCEPT ![g] = "endspan"] /\ avail' = avail
    BY <1>2 DEF Record, Goto, shared
  <2>5. \A i \in 1..Len(reports) : reports[i].by # g
    BY <2>4 DEF IInv
  <2>6. r.by = g /\ r.size = size
    OBVIOUS
  <2> HIDE DEF r
  <2>7. ReportersDone'
    BY <1>0, <2>2, <2>3, <2>4, <2>5, <2>6 DEF IInv, TypeOK, Report
  <2>8. OncePerGoroutine'
    BY <2>2, <2>3, <2>5, <2>6 DEF IInv
  <2>9. size <= Payload - avail
    <3>1. InFlight \in Nat
      BY ReaderAssumption DEF InFlight, IInv, TypeOK, Call
    <3> QED BY <3>1, PayloadAssumption DEF IInv, TypeOK, BytesConserved
  <2>10. ReportsNeverOvercount'
    BY <2>2, <2>3, <2>4, <2>6, <2>9 DEF IInv
  <2> QED BY <2>7, <2>8, <2>10
<1> QED BY <1>1, <1>2

\* The invariant behind the theorems.
THEOREM IInvAlways == Spec => []IInv
<1>1. IInv /\ [Next]_vars => IInv'
  BY NextTypeOK, NextBytesConserved, NextFlagSet, NextReports DEF IInv
<1> QED BY InitIInv, <1>1, PTL DEF Spec

\* The state of the tracking keeps its types, size and reports included: no
\* byte is added that the stream has not moved (tracking.go incSize).
THEOREM TypeCorrect == Spec => []TypeOK
BY IInvAlways, PTL DEF IInv

\* Any number of goroutines may race for the unlocked flag of tracking.go end:
\* each of them reports the body at most once.
THEOREM ReportsOncePerGoroutine == Spec => []OncePerGoroutine
BY IInvAlways, PTL DEF IInv

\* Whatever the race, a report never counts more than was moved.
THEOREM ReportsAreBounded == Spec => []ReportsNeverOvercount
BY IInvAlways, PTL DEF IInv

-----------------------------------------------------------------------------
(* The refinement: the reports, seen from outside, are those of TransferReport. *)

Seen(r)   == [by |-> r.by, size |-> r.size, error |-> r.error]
Published == [i \in 1..Len(reports) |-> Seen(reports[i])]

LEMMA PublishedIsSeq ==
    ASSUME TypeOK
    PROVE  /\ Published \in Seq(Abstract!Report)
           /\ Len(Published) = Len(reports)
           /\ \A i \in 1..Len(reports) : Published[i] = Seen(reports[i])
<1>1. \A i \in 1..Len(reports) : reports[i] \in Report
  BY ElementOfSeq DEF TypeOK
<1>2. \A i \in 1..Len(reports) : Seen(reports[i]) \in Abstract!Report
  BY <1>1 DEF Report, Abstract!Report, Seen
<1>3. Len(reports) \in Nat
  BY LenProperties DEF TypeOK
<1> QED BY <1>2, <1>3, IsASeq DEF Published

\* A step of Record publishes: its goroutine has published nothing before, or it
\* would not be about to record.
LEMMA RecordPublishes ==
    ASSUME IInv, NEW g \in Goroutines, Record(g), TypeOK'
    PROVE  \E failed \in BOOLEAN : Abstract!Publish(g, failed)
<1> DEFINE r == [by |-> g, size |-> size, error |-> gotError # "nil",
                 cause |-> call[g].err, timed |-> call[g].timed]
<1>1. r \in Report /\ reports \in Seq(Report) /\ Len(reports) \in Nat
  BY LenProperties DEF Report, Call, IInv, TypeOK
<1>2. /\ Len(reports') = Len(reports) + 1
      /\ \A i \in 1..Len(reports) : reports'[i] = reports[i]
      /\ reports'[Len(reports) + 1] = r
  BY <1>1, AppendProperties DEF Record
<1>3. pc[g] = "record" /\ size' = size
  BY DEF Record, shared
<1>4. Seen(r) = [by |-> g, size |-> size, error |-> gotError # "nil"]
  BY DEF Seen
<1> HIDE DEF r
<1>5. Seen(r) \in Abstract!Report
  BY <1>1 DEF Report, Abstract!Report, Seen
<1>6. Published' = Append(Published, Seen(r))
  <2>1. /\ Published \in Seq(Abstract!Report)
        /\ Len(Published) = Len(reports)
        /\ \A i \in 1..Len(reports) : Published[i] = Seen(reports[i])
    BY PublishedIsSeq DEF IInv
  <2>2. /\ Append(Published, Seen(r)) \in Seq(Abstract!Report)
        /\ Len(Append(Published, Seen(r))) = Len(reports) + 1
        /\ \A i \in 1..Len(reports) : Append(Published, Seen(r))[i] = Seen(reports[i])
        /\ Append(Published, Seen(r))[Len(reports) + 1] = Seen(r)
    BY <1>5, <2>1, AppendProperties
  <2>3. \A i \in 1..Len(reports') : reports'[i] \in Report
    BY ElementOfSeq DEF TypeOK
  <2>4. Published' \in Seq(Abstract!Report)
    <3>1. \A i \in 1..Len(reports') : Seen(reports'[i]) \in Abstract!Report
      BY <2>3 DEF Report, Abstract!Report, Seen
    <3>2. Len(reports') \in Nat
      BY <1>1, <1>2
    <3>3. Published' = [i \in 1..Len(reports') |-> Seen(reports'[i])]
      BY DEF Published, Seen
    <3> QED BY <3>1, <3>2, <3>3, IsASeq
  <2>5. /\ Len(Published') = Len(reports) + 1
        /\ \A i \in 1..Len(reports) + 1 : Published'[i] = Seen(reports'[i])
    BY <1>1, <1>2 DEF Published, Seen
  <2>6. \A i \in 1..Len(reports) + 1 : Published'[i] = Append(Published, Seen(r))[i]
    <3> TAKE i \in 1..Len(reports) + 1
    <3>0. i \in 1..Len(reports) \/ i = Len(reports) + 1
      BY <1>1
    <3>1. CASE i \in 1..Len(reports)
      BY <1>2, <2>2, <2>5, <3>1
    <3>2. CASE i = Len(reports) + 1
      BY <1>2, <2>2, <2>5, <3>2
    <3> QED BY <3>0, <3>1, <3>2
  <2> QED BY <2>2, <2>4, <2>5, <2>6, SeqEqual
<1>7. \A i \in 1..Len(Published) : Published[i].by # g
  <2>1. \A i \in 1..Len(reports) : reports[i].by # g
    BY <1>3 DEF IInv, ReportersDone
  <2>2. \A i \in 1..Len(reports) : Published[i] = Seen(reports[i])
    BY PublishedIsSeq DEF IInv
  <2>3. \A i \in 1..Len(reports) : Seen(reports[i]).by = reports[i].by
    BY DEF Seen
  <2> QED BY <2>1, <2>2, <2>3, PublishedIsSeq DEF IInv
<1>8. PICK failed \in BOOLEAN : failed = (gotError # "nil")
  OBVIOUS
<1> QED BY <1>3, <1>4, <1>6, <1>7, <1>8 DEF Abstract!Publish, Published, Seen

\* However its holders race for the unlocked flag, tracking.go keeps the promise of
\* TransferReport: the bytes add up, and each holder publishes once, their total.
THEOREM TrackingImplements == Spec => Implements
<1>1. Init => Abstract!Init
  <2> SUFFICES ASSUME Init PROVE Abstract!Init
    OBVIOUS
  <2>1. Len(reports) = 0
    BY DEF Init
  <2> QED BY <2>1 DEF Init, Abstract!Init
<1>2. IInv /\ IInv' /\ [Next]_vars => [Abstract!Next]_Abstract!vars
  <2> SUFFICES ASSUME IInv, IInv', [Next]_vars
               PROVE  [Abstract!Next]_Abstract!vars
    OBVIOUS
  <2> USE DEF Abstract!Next, Abstract!vars
  <2>1. CASE Account
    <3>1. call[Reader].n \in 0..Payload
      BY ReaderAssumption DEF IInv, TypeOK, Call
    <3>2. size' <= Payload
      BY PayloadAssumption DEF IInv, TypeOK
    <3> QED BY <2>1, <3>1, <3>2 DEF Account, Abstract!Move
  <2>2. ASSUME NEW g \in Goroutines, Record(g) PROVE Abstract!Next
    BY <2>2, RecordPublishes DEF IInv
  <2>3. CASE BeginTransfer \/ Start \/ StartSpan \/ Transfer \/ Reend \/ UNCHANGED vars
    BY <2>3 DEF BeginTransfer, Start, StartSpan, Transfer, Reend, vars, shared
  <2>4. ASSUME NEW g \in Goroutines, Close(g) \/ EndCheck(g) \/ Finish(g) \/ EndSpan(g)
        PROVE  UNCHANGED <<size, reports>>
    BY <2>4 DEF Close, EndCheck, Finish, EndSpan, shared
  <2> QED BY <2>1, <2>2, <2>3, <2>4 DEF Next
<1> QED BY <1>1, <1>2, IInvAlways, PTL DEF Spec, Implements, Abstract!Spec

-----------------------------------------------------------------------------
(* How many reports there are.                                             *)

\* Several reports of one body have several authors.
LEMMA AuthorsDiffer ==
    ASSUME IInv
    PROVE  [i \in 1..Len(reports) |-> reports[i].by]
               \in Injection(1..Len(reports), Goroutines)
<1>1. \A i \in 1..Len(reports) : reports[i] \in Report
  BY ElementOfSeq DEF IInv, TypeOK
<1> QED BY <1>1 DEF IInv, OncePerGoroutine, Report, Injection, IsInjective

\* A body that finitely many goroutines hold has no more reports than holders.
THEOREM NoMoreReportsThanHolders ==
    ASSUME IsFiniteSet(Goroutines)
    PROVE  Spec => [](Len(reports) <= Cardinality(Goroutines))
<1>1. IInv => Len(reports) <= Cardinality(Goroutines)
  <2> SUFFICES ASSUME IInv PROVE Len(reports) <= Cardinality(Goroutines)
    OBVIOUS
  <2>1. Len(reports) \in Nat
    BY LenProperties DEF IInv, TypeOK
  <2>2. Cardinality(1..Len(reports)) = Len(reports)
    <3> DEFINE n == Len(reports)
    <3>1. n \in Int /\ 1 \in Int
      BY <2>1
    <3> HIDE DEF n
    <3>2. Cardinality(1..n) = IF 1 > n THEN 0 ELSE n - 1 + 1
      BY <3>1, FS_Interval, Zenon
    <3>3. n \in Nat
      BY <2>1 DEF n
    <3>4. Cardinality(1..n) = n
      BY <3>2, <3>3
    <3> QED BY <3>4 DEF n
  <2> QED BY <2>2, AuthorsDiffer, FS_Injection
<1> QED BY <1>1, IInvAlways, PTL

\* What the comment of the flag says (tracking.go:21) is true of a body that only
\* one goroutine holds; IOAtMostOneReport shows that two are enough to break it.
THEOREM SingleOwnerReportsOnce ==
    ASSUME Goroutines = {Reader}
    PROVE  Spec => []AtMostOneReport
<1>1. IInv => AtMostOneReport
  <2> SUFFICES ASSUME IInv PROVE AtMostOneReport
    OBVIOUS
  <2>1. Len(reports) \in Nat
    BY LenProperties DEF IInv, TypeOK
  <2>2. \A i \in 1..Len(reports) : reports[i].by = Reader
    <3>1. \A i \in 1..Len(reports) : reports[i] \in Report
      BY ElementOfSeq DEF IInv, TypeOK
    <3> QED BY <3>1 DEF Report
  <2>3. ~(1 \in 1..Len(reports) /\ 2 \in 1..Len(reports))
    BY <2>2 DEF IInv, OncePerGoroutine
  <2> QED BY <2>1, <2>3 DEF AtMostOneReport
<1> QED BY <1>1, IInvAlways, PTL

\* The flag is never raised in vain: a body whose tracking has finished is
\* reported, or a goroutine is about to report it.
FinishedIsReported ==
    finished => reports # <<>> \/ \E g \in Goroutines : pc[g] = "record"

LEMMA NextFinishedIsReported ==
    ASSUME IInv, FinishedIsReported, [Next]_vars
    PROVE  FinishedIsReported'
<1> USE ReaderAssumption DEF IInv, TypeOK, Goto, FinishedIsReported
<1>1. CASE BeginTransfer \/ Start \/ StartSpan
  BY <1>1 DEF BeginTransfer, Start, StartSpan, shared
<1>2. CASE Transfer \/ Account \/ Reend
  BY <1>2 DEF Transfer, Account, Reend
<1>3. ASSUME NEW g \in Goroutines, Close(g) \/ EndCheck(g) \/ EndSpan(g)
      PROVE  FinishedIsReported'
  BY <1>3 DEF Close, EndCheck, EndSpan, Return, shared
<1>4. ASSUME NEW g \in Goroutines, Finish(g) PROVE FinishedIsReported'
  BY <1>4 DEF Finish
<1>5. ASSUME NEW g \in Goroutines, Record(g) PROVE FinishedIsReported'
  <2>1. [by |-> g, size |-> size, error |-> gotError # "nil",
         cause |-> call[g].err, timed |-> call[g].timed] \in Report
    BY DEF Report, Call
  <2>2. reports' # <<>>
    BY <1>5, <2>1, AppendProperties DEF Record
  <2> QED BY <2>2
<1>6. CASE UNCHANGED vars
  BY <1>6 DEF vars, shared
<1> QED BY <1>1, <1>2, <1>3, <1>4, <1>5, <1>6 DEF Next

\* Whoever raises the flag reports (tracking.go end), so the goroutines that the
\* flag turns away lose nothing: the safety half of EndingReported.
THEOREM FinishedBodiesAreReported == Spec => []FinishedIsReported
<1>1. Init => FinishedIsReported
  BY DEF Init, FinishedIsReported
<1>2. IInv /\ FinishedIsReported /\ [Next]_vars => FinishedIsReported'
  BY NextFinishedIsReported
<1> QED BY <1>1, <1>2, IInvAlways, PTL DEF Spec

-----------------------------------------------------------------------------
(* The error and the time of the one report of a body with one owner.      *)

Untimed == \E i \in 1..Len(reports) : ~reports[i].timed

OwnerInv ==
    /\ ~finished => gotError = "nil"
    /\ pc[Reader] = "finish" => ~finished
    /\ pc[Reader] = "record" => (gotError # "nil" <=> call[Reader].err = "fail")
    /\ ErrorFlagMatchesCause
    /\ pc[Reader] = "start" => ~started
    /\ pc[Reader] = "startspan" /\ finished => Untimed
    /\ finished /\ ~started => Untimed \/ (pc[Reader] = "record" /\ ~call[Reader].timed)
    /\ finished /\ span = "live" => Untimed \/ pc[Reader] \in {"record", "endspan"}

LEMMA InitOwnerInv == Init => OwnerInv
<1> SUFFICES ASSUME Init PROVE OwnerInv
  OBVIOUS
<1>1. Len(reports) = 0
  BY DEF Init
<1> QED BY <1>1, ReaderAssumption DEF Init, OwnerInv, ErrorFlagMatchesCause

\* A step of Record, which writes what Finish has left.
LEMMA OwnerRecord ==
    ASSUME TypeOK, OwnerInv, Record(Reader)
    PROVE  OwnerInv'
<1> DEFINE r == [by |-> Reader, size |-> size, error |-> gotError # "nil",
                 cause |-> call[Reader].err, timed |-> call[Reader].timed]
<1>1. r \in Report /\ call[Reader] \in Call
  BY ReaderAssumption DEF Report, Call, TypeOK
<1>2. /\ Len(reports) \in Nat /\ Len(reports') = Len(reports) + 1
      /\ \A i \in 1..Len(reports) : reports'[i] = reports[i]
      /\ reports'[Len(reports) + 1] = r
  BY <1>1, AppendProperties, LenProperties DEF Record, TypeOK
<1>3. /\ pc[Reader] = "record" /\ pc'[Reader] = "endspan" /\ call' = call
      /\ started' = started /\ span' = span /\ finished' = finished /\ gotError' = gotError
  BY ReaderAssumption DEF Record, Goto, shared, TypeOK
<1>4. /\ r.error <=> gotError # "nil"
      /\ r.cause = call[Reader].err /\ r.timed = call[Reader].timed
  OBVIOUS
<1> HIDE DEF r
<1>5. Untimed \/ ~call[Reader].timed => Untimed'
  BY <1>2, <1>4 DEF Untimed
<1>6. ErrorFlagMatchesCause'
  BY <1>2, <1>3, <1>4 DEF OwnerInv, ErrorFlagMatchesCause
<1> QED BY <1>3, <1>5, <1>6 DEF OwnerInv

LEMMA NextOwnerInv ==
    ASSUME Goroutines = {Reader}, IInv, OwnerInv, [Next]_vars
    PROVE  OwnerInv'
<1> USE ReaderAssumption DEF TypeOK, Goto, OwnerInv
<1>a. TypeOK /\ (pc[Reader] = "reend" => finished)
  BY DEF IInv, FlagSet
<1>0. reports' = reports => (Untimed' <=> Untimed) /\ ErrorFlagMatchesCause'
  BY DEF Untimed, ErrorFlagMatchesCause
<1> HIDE DEF Untimed
<1>1. CASE BeginTransfer
  BY <1>a, <1>0, <1>1 DEF BeginTransfer, shared
<1>2. CASE Start
  BY <1>a, <1>0, <1>2 DEF Start
<1>3. CASE StartSpan
  BY <1>a, <1>0, <1>3 DEF StartSpan
<1>4. CASE Transfer
  BY <1>a, <1>0, <1>4 DEF Transfer
<1>5. CASE Account
  BY <1>a, <1>0, <1>5 DEF Account
<1>6. CASE Reend
  <2>1. pc[Reader] = "reend" /\ reports' = reports /\ pc' = [pc EXCEPT ![Reader] = "end"]
        /\ started' = started /\ span' = span /\ finished' = finished
    BY <1>a, <1>6 DEF Reend
  <2>2. finished => OwnerInv'
    BY <1>0, <2>1
  <2> QED BY <1>a, <1>0, <1>6, <2>1, <2>2
<1>7. CASE Close(Reader)
  BY <1>a, <1>0, <1>7 DEF Close
<1>8. CASE EndCheck(Reader)
  BY <1>a, <1>0, <1>8 DEF EndCheck, Return, shared
<1>9. CASE Finish(Reader)
  <2>1. call[Reader] \in Call
    BY <1>a
  <2>2. call'[Reader].err = call[Reader].err /\ call'[Reader].timed = started
    BY <1>a, <1>9, <2>1 DEF Finish, Call
  <2>3. call[Reader].err \in {"nil", "EOF", "fail"}
    BY <2>1 DEF Call, Errors
  <2> QED BY <1>a, <1>0, <1>9, <2>2, <2>3 DEF Finish
<1>10. CASE Record(Reader)
  BY <1>a, <1>10, OwnerRecord
<1>11. CASE EndSpan(Reader)
  BY <1>a, <1>0, <1>11 DEF EndSpan, Return
<1>12. CASE UNCHANGED vars
  BY <1>a, <1>0, <1>12 DEF vars, shared
<1> QED BY <1>1, <1>2, <1>3, <1>4, <1>5, <1>6, <1>7, <1>8, <1>9, <1>10, <1>11, <1>12 DEF Next

\* With one owner the report says "error" exactly when the call that ended the
\* tracking failed, and io.EOF is no failure (end, incSize).
THEOREM OwnerErrorsMatch ==
    ASSUME Goroutines = {Reader}
    PROVE  Spec => []ErrorFlagMatchesCause
<1>1. OwnerInv => ErrorFlagMatchesCause
  BY DEF OwnerInv
<1>2. IInv /\ OwnerInv /\ [Next]_vars => OwnerInv'
  BY NextOwnerInv
<1> QED BY <1>1, <1>2, InitOwnerInv, IInvAlways, PTL DEF Spec

\* With one owner only a body closed before its first transfer leaves a span open.
THEOREM OwnerLeaksUnreadOnly ==
    ASSUME Goroutines = {Reader}
    PROVE  Spec => []LeakOnlyIfClosedUnread
<1>1. OwnerInv => LeakOnlyIfClosedUnread
  BY DEF OwnerInv, LeakOnlyIfClosedUnread, Untimed
<1>2. IInv /\ OwnerInv /\ [Next]_vars => OwnerInv'
  BY NextOwnerInv
<1> QED BY <1>1, <1>2, InitOwnerInv, IInvAlways, PTL DEF Spec

\* With one owner a report has every byte moved by then: no transfer is in flight
\* when that owner records (incSize adds before it calls end).
THEOREM OwnerCountsEveryByte ==
    ASSUME Goroutines = {Reader}
    PROVE  Spec => ReportCountsEveryByte
<1>1. IInv /\ [Next]_vars => [reports' # reports =>
          reports'[Len(reports')].size = Payload - avail]_vars
  <2> SUFFICES ASSUME IInv, [Next]_vars, reports' # reports
               PROVE  reports'[Len(reports')].size = Payload - avail
    OBVIOUS
  <2>1. CASE Record(Reader)
    <3>1. pc[Reader] = "record" /\ reports \in Seq(Report)
      BY <2>1 DEF Record, IInv, TypeOK
    <3>2. size \in Nat /\ avail \in Nat /\ size + avail = Payload
      BY <3>1, PayloadAssumption DEF IInv, BytesConserved, InFlight, TypeOK
    <3>3. Len(reports) \in Nat /\ Len(reports') = Len(reports) + 1
          /\ reports'[Len(reports) + 1].size = size
      BY <2>1, <3>1, LenProperties, AppendProperties DEF Record
    <3> QED BY <3>2, <3>3, PayloadAssumption
  <2>2. CASE BeginTransfer \/ Start \/ StartSpan \/ Transfer \/ Account \/ Reend \/ UNCHANGED vars
    BY <2>2 DEF BeginTransfer, Start, StartSpan, Transfer, Account, Reend, vars, shared
  <2>3. CASE Close(Reader) \/ EndCheck(Reader) \/ Finish(Reader) \/ EndSpan(Reader)
    BY <2>3 DEF Close, EndCheck, Finish, EndSpan, shared
  <2> QED BY <2>1, <2>2, <2>3 DEF Next
<1> QED BY <1>1, IInvAlways, PTL DEF Spec, ReportCountsEveryByte
=============================================================================

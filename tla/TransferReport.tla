--------------------------- MODULE TransferReport ---------------------------
(***************************************************************************)
(* What the byte tracking of krakend-otel's io package promises about one  *)
(* body, whatever the order in which its holders read, write and close it: *)
(* the bytes that went through are added up, and each holder publishes at  *)
(* most one report, with the total of that moment.  A body that a single   *)
(* goroutine holds is thus reported at most once.                          *)
(***************************************************************************)
EXTENDS Naturals, Sequences

CONSTANTS Holders,    \* everyone that may end the tracking of the body
          Payload     \* the bytes the wrapped stream can move

VARIABLES total,      \* bytes moved so far
          published   \* the reports, in order

vars == <<total, published>>

Report == [by : Holders, size : 0..Payload, error : BOOLEAN]

Init == total = 0 /\ published = <<>>

Move(n) == /\ total' = total + n
           /\ total' <= Payload
           /\ UNCHANGED published

Publish(h, failed) ==
    /\ \A i \in 1..Len(published) : published[i].by # h
    /\ published' = Append(published, [by |-> h, size |-> total, error |-> failed])
    /\ UNCHANGED total

Next == \/ \E n \in 0..Payload : Move(n)
        \/ \E h \in Holders, failed \in BOOLEAN : Publish(h, failed)

Spec == Init /\ [][Next]_vars
=============================================================================

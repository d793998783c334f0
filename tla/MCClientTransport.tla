-------------------------- MODULE MCClientTransport -------------------------
(* The configurations of the transport that TLC goes through.              *)
EXTENDS ClientTransport

\* Every configuration that instruments anything.
AllOptions == {o \in OptionsType : o.mRoundTrip \/ o.mPayload \/ o.tRoundTrip \/ o.tPayload}
=============================================================================

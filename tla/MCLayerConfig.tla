---------------------------- MODULE MCLayerConfig ---------------------------
(* Parts with each option alone, with all and with none. *)
EXTENDS LayerConfig

Fields == {"stage", "roundTrip", "payload", "details"}
SomeParts == {[f \in Fields |-> f \in on] :
                 on \in {{}, Fields} \cup {{f} : f \in Fields}}
=============================================================================

------------------------------ MODULE Handover -------------------------------
(***************************************************************************)
(* What registration promises to the layers of krakend-otel that are built *)
(* and run while the telemetry is being replaced: a layer finds no         *)
(* configuration whose state is not in force yet, and if the registrations *)
(* take turns the state it gets later is that of the configuration or of a *)
(* later one.  How a registration comes to install its state is left out.  *)
(***************************************************************************)
EXTENDS Naturals

CONSTANTS Owners,   \* the registrations, numbered in their order
          Layers    \* what is built from the globals

VARIABLES turns,    \* registrations take turns
          current,  \* whose state is in force, 0 for none
          view      \* what each layer has got

vars == <<turns, current, view>>

Unbuilt == [at |-> "new", config |-> 0, state |-> 0]

Init == /\ turns \in BOOLEAN
        /\ current = 0
        /\ view = [l \in Layers |-> Unbuilt]

Replace(g) == /\ turns => current < g
              /\ current' = g
              /\ UNCHANGED <<turns, view>>

\* A layer looks for a configuration; without one it is built bare.
Look(l, c) == /\ view[l].at = "new"
              /\ c # 0 => current # 0
              /\ turns => c <= current
              /\ view' = [view EXCEPT ![l].config = c,
                                      ![l].at = IF c = 0 THEN "built" ELSE "config"]
              /\ UNCHANGED <<turns, current>>

\* It gets the state that is in force when it is built.
Take(l) == /\ view[l].at = "config"
           /\ view' = [view EXCEPT ![l].state = current, ![l].at = "built"]
           /\ UNCHANGED <<turns, current>>

Next == \/ \E g \in Owners : Replace(g)
        \/ \E l \in Layers : Take(l) \/ \E c \in Owners \cup {0} : Look(l, c)

Spec == Init /\ [][Next]_vars
=============================================================================

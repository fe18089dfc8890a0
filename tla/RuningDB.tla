-------------------------------- MODULE RuningDB --------------------------------
(***************************************************************************)
(* What the database of running services promises: every deployment is     *)
(* given, in one step, the first name of its service that no earlier       *)
(* deployment holds.  README.md: "aunque se ejecute varias veces el mismo  *)
(* servicio, lo hara en redes distintas".                                  *)
(***************************************************************************)
EXTENDS InstanceNames

VARIABLES
  issued   \* the names given to deployments so far

(* Only names of instances are issued.                                     *)
TypeOK == issued \subseteq Names

Init == issued = {}

Register(s) ==
  \E c \in Count :
    /\ FirstFree(s, c, issued)
    /\ issued' = issued \cup { InstanceName(s, c) }

Next == \E s \in Services : Register(s)

Spec == Init /\ [][Next]_issued

=============================================================================

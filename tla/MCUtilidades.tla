------------------------------ MODULE MCUtilidades ------------------------------
(***************************************************************************)
(* Three deployments of one service, of which the second and the third     *)
(* exclude each other.  The first two share the image of the server.  The  *)
(* third is given the name of the first, before it or after the database   *)
(* was emptied, and has no components.                                     *)
(***************************************************************************)
EXTENDS Utilidades

MCInstanceName(s, c) == << "ab0", "ab1", "ab2", "ab3" >>[c + 1]

MCNetworkName == [ p \in Deployers |-> << "ab0", "ab1", "ab0" >>[p] ]

MCCardinality ==
  [ p \in Deployers |->
      << [ server |-> 1 ], [ server |-> 1 ], << >> >>[p] ]

MCDeclared == [ p \in Deployers |-> { "server", "client" } ]

MCImageName ==
  [ p \in Deployers |-> [ server |-> "server001", client |-> "client001" ] ]

MCDeployedURI == [ p \in Deployers |-> "ab" ]

MCNext == SysNext /\ (proc'[2] = "off" \/ proc'[3] = "off")

MCSpec == SysInit /\ [][MCNext]_sysVars /\ SysFairness

=============================================================================

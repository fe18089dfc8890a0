--------------------------- MODULE MCServiceRegistry ---------------------------
(***************************************************************************)
(* Up to four deployments of two services; 3 and 4 repeat the first.       *)
(* The services "a.b" and "ab" have one stem once their separators are     *)
(* gone, so their instances take names from one sequence, and they share   *)
(* the component "server".                                                 *)
(***************************************************************************)
EXTENDS ServiceRegistry

CONSTANT Bad   \* the deployments with a parameter that is null

MCInstanceName(s, c) == << "ab0", "ab1", "ab2", "ab3" >>[c + 1]

MCDeployedURI == [ p \in Deployers |-> IF p = 2 THEN "ab" ELSE "a.b" ]

MCComponents ==
  [ s \in Services |->
      IF s = "ab" THEN << "server" >> ELSE << "client", "server" >> ]

MCParams == [ s \in Services |-> { "times" } ]

MCConfiguration ==
  [ p \in Deployers |-> [ times |-> IF p \in Bad THEN Null ELSE "10" ] ]

(***************************************************************************)
(* Two kinds of behaviours.  The deployers take turns: one is through this *)
(* half before the next starts, archives are good and two seconds are      *)
(* enough, and any of them may be killed.  Or the first two run together   *)
(* with every fault.                                                       *)
(***************************************************************************)
VARIABLE turns

InTurn ==
  \A p \in Deployers :
    /\ pc[p] = "off" /\ pc'[p] # "off" => \A q \in Deployers : pc[q] \in Settled
    /\ pc[p] = "extract" /\ pc'[p] = "timeout" => unpacking' = unpacking
    /\ pc[p] = "timeout" /\ pc'[p] = "write service" => p \notin unpacking
Together == \A p \in Deployers : pc'[p] # "off" => p \in {1, 2}
Schedule == UNCHANGED turns /\ IF turns THEN InTurn ELSE Together

MCInit == Init /\ turns \in BOOLEAN
MCNext == Next /\ Schedule
MCSpec ==
  /\ MCInit /\ [][MCNext]_<<vars, turns>>
  /\ \A p \in Deployers : WF_<<vars, turns>>(Step(p) /\ Schedule)

(* In turn, wherever deployers are killed between two file operations, no  *)
(* name is given twice and names are given as RuningDB says, no save of    *)
(* ServicesRuning.json drops an instance that runs, and what ServiceURI and*)
(* ComponentURI name is extracted.                                         *)
TurnsKeepDatabases ==
  /\ [](turns => NamesAreUnique /\ RunningIsRecorded /\ RegisteredIsExtracted)
  /\ turns => Abstract!Init
  /\ [][turns => Abstract!Next]_Issued

(* A started deployer reaches Docker or ends; in turn, an accepted         *)
(* deployment reaches Docker until one is killed.                          *)
DeployersSettle ==
  /\ StartedSettles
  /\ \A p \in Deployers :
       turns /\ Accepted(p) /\ pc[p] = "check_DB" ~>
         pc[p] = "create_network" \/ \E q \in Deployers : pc[q] = "dead"

=============================================================================

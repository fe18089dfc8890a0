----------------------------- MODULE InstanceNames -----------------------------
(***************************************************************************)
(* Names of service instances.  check_Service_Runing_DB of src/Deployer.js *)
(* strips the separators from the URI of a service and appends a counter:  *)
(* ServiceIDName + count.  The name of the instance is a key of the        *)
(* database ServicesRuning.json, the name of a Docker network and a part   *)
(* of the name of every container of the instance.                         *)
(*                                                                         *)
(* The string operations are abstracted to what they tell apart: for one   *)
(* service, distinct counts give distinct names; two services may share a  *)
(* name ("service://a.b/c" and "service://ab/c" lose their separators, and *)
(* a digit of a URI may be read as a digit of a count).                    *)
(***************************************************************************)
EXTENDS Naturals

CONSTANTS
  Services,             \* the URIs of the services that are deployed
  InstanceName(_, _),   \* InstanceName(s, c): ServiceIDName + count
  MaxCount              \* bound on the counter of a name

Count == 0 .. MaxCount

ASSUME MaxCountAssumption == MaxCount \in Nat

ASSUME InstanceNameAssumption ==
  \A s \in Services : \A c, d \in Count :
    InstanceName(s, c) = InstanceName(s, d) => c = d

Names == { InstanceName(s, c) : s \in Services, c \in Count }

(***************************************************************************)
(* The count the scan settles on: the first whose name is not a key of the *)
(* database.                                                               *)
(***************************************************************************)
FirstFree(s, c, keys) ==
  /\ InstanceName(s, c) \notin keys
  /\ \A d \in Count : d < c => InstanceName(s, d) \in keys

=============================================================================

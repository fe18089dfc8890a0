------------------------------- MODULE Utilidades -------------------------------
(***************************************************************************)
(* The utility Utilidades/elinimateNetwork.js, with stopAllContainers.js   *)
(* which it calls, beside the deployers of Launcher and over the same      *)
(* Docker daemon and the same ServicesRuning.json.                         *)
(*                                                                         *)
(* The utility asks for the list of the containers and the list of the     *)
(* networks and sets a timer, all at once.  For every container it sends a *)
(* stop and a remove without waiting for the first; for every network that *)
(* is named in the database, a remove.  The timer empties the database.    *)
(* A deployer is given its name by the registry, here RuningDB.            *)
(***************************************************************************)
EXTENDS Launcher

CONSTANTS
  Services,             \* the parameters of InstanceNames
  InstanceName(_, _),
  MaxCount,
  deployedURI           \* deployedURI[p]: the service of the deployer p

VARIABLES
  recorded,   \* the names in ServicesRuning.json
  util,       \* the process of the utility: "off", "live" or "dead"
  known,      \* ServicesRuning_DB: the names it read when it started
  lists,      \* the lists it waits for, of "containers" and "networks"
  stops,      \* the containers << p, c >> it has asked to stop
  removes,    \* the containers it has asked to remove
  netRemoves, \* the deployers whose networks it has asked to remove
  netAnswers, \* those whose removal the daemon has answered
  timer,      \* the timer is set
  earlier     \* history: the deployers registered when the utility started

registry == INSTANCE RuningDB WITH issued <- recorded

requests == << lists, stops, removes, netRemoves, netAnswers >>
utilVars == << util, known, timer, earlier, requests >>
deployerVars == << proc, net, task, run >>
sysVars == << vars, recorded, utilVars >>

-----------------------------------------------------------------------------

SysInit ==
  /\ Init
  /\ recorded = {}
  /\ util = "off"
  /\ known = {}
  /\ lists = {}
  /\ stops = {}
  /\ removes = {}
  /\ netRemoves = {}
  /\ netAnswers = {}
  /\ timer = FALSE
  /\ earlier = {}

(* An exception ends the utility, with its copy of the database; the       *)
(* answers still to come are for nobody.                                   *)
UtilityDies ==
  /\ util' = "dead"
  /\ known' = {}
  /\ lists' = {}
  /\ netAnswers' = {}

(* A deployer goes through the registry and on to create_network.          *)
Deploy(p) ==
  /\ registry!Register(deployedURI[p])
  /\ networkName[p] \notin recorded
  /\ recorded' = recorded \cup { networkName[p] }
  /\ Launch(p)
  /\ UNCHANGED utilVars

(* node elinimateNetwork.js                                                *)
StartUtility ==
  /\ util = "off"
  /\ util' = "live"
  /\ known' = recorded
  /\ lists' = { "containers", "networks" }
  /\ timer' = TRUE
  /\ earlier' = { p \in Deployers : proc[p] # "off" }
  /\ UNCHANGED <<vars, recorded, stops, removes, netRemoves, netAnswers>>

(* The callback of listContainers: a stop and a remove for every container *)
(* of the machine.  After an error containers.length throws.               *)
stopAndEliminateContainers ==
  LET all == { d \in Deployers \X Instances : container[d[1]][d[2]] \in Existing } IN
  /\ util = "live"
  /\ "containers" \in lists
  /\ \/ /\ lists' = lists \ { "containers" }
        /\ stops' = all
        /\ removes' = all
        /\ UNCHANGED <<util, known, netAnswers>>
     \/ /\ "list" \in Faults
        /\ UtilityDies
        /\ UNCHANGED <<stops, removes>>
  /\ UNCHANGED <<vars, recorded, timer, earlier, netRemoves>>

(* container.stop: one that does not run is left as it is.                 *)
Stop(p, c) ==
  /\ << p, c >> \in stops
  /\ stops' = stops \ { << p, c >> }
  /\ container' = [ container EXCEPT ![p][c] =
                      IF @ = "running" THEN "exited" ELSE @ ]
  /\ UNCHANGED <<deployerVars, networks, images, recorded>>
  /\ UNCHANGED <<util, known, timer, earlier>>
  /\ UNCHANGED <<lists, removes, netRemoves, netAnswers>>

(* container.remove: refused, and logged, while the container runs.        *)
Remove(p, c) ==
  /\ << p, c >> \in removes
  /\ removes' = removes \ { << p, c >> }
  /\ container' = [ container EXCEPT ![p][c] =
                      IF @ = "running" THEN @ ELSE "removed" ]
  /\ UNCHANGED <<deployerVars, networks, images, recorded>>
  /\ UNCHANGED <<util, known, timer, earlier>>
  /\ UNCHANGED <<lists, stops, netRemoves, netAnswers>>

(* The callback of listNetworks: if(data[i].Name in ServicesRuning_DB),    *)
(* which the timer may have emptied.  After an error data.length throws.   *)
handler ==
  /\ util = "live"
  /\ "networks" \in lists
  /\ \/ /\ lists' = lists \ { "networks" }
        /\ netRemoves' = { p \in networks : networkName[p] \in known }
        /\ UNCHANGED <<util, known, netAnswers>>
     \/ /\ "list" \in Faults
        /\ UtilityDies
        /\ UNCHANGED netRemoves
  /\ UNCHANGED <<vars, recorded, timer, earlier, stops, removes>>

(* network.remove: refused while a container runs on it, answered in any   *)
(* case.                                                                   *)
RemoveNetwork(p) ==
  /\ p \in netRemoves
  /\ netRemoves' = netRemoves \ { p }
  /\ netAnswers' = IF util = "live" THEN netAnswers \cup { p } ELSE {}
  /\ \/ /\ \A q \in Deployers : networkName[q] = networkName[p] =>
             \A c \in Instances : container[q][c] # "running"
        /\ networks' = networks \ { p }
     \/ /\ \E q \in Deployers : networkName[q] = networkName[p] /\
             \E c \in Instances : container[q][c] = "running"
        /\ UNCHANGED networks
  /\ UNCHANGED <<deployerVars, images, container, recorded>>
  /\ UNCHANGED <<util, known, timer, earlier, lists, stops, removes>>

(* Mutation: the deletion that is commented out, with a save.              *)
DeletesFromDB(p) ==
  /\ util = "live"
  /\ p \in netAnswers
  /\ netAnswers' = netAnswers \ { p }
  /\ known' = known \ { networkName[p] }
  /\ recorded' = known'
  /\ UNCHANGED <<vars, util, timer, earlier, lists, stops, removes, netRemoves>>

(* Its callback reads data[i].Name after the loop, when i is data.length:  *)
(* it throws.                                                              *)
NetworkRemoved(p) ==
  /\ util = "live"
  /\ p \in netAnswers
  /\ UtilityDies
  /\ UNCHANGED <<vars, recorded, timer, earlier, stops, removes, netRemoves>>

(* Mutation: the file is emptied, ServicesRuning_DB is not.                *)
ResetFile ==
  /\ util = "live"
  /\ timer
  /\ timer' = FALSE
  /\ recorded' = {}
  /\ UNCHANGED <<vars, util, known, earlier, requests>>

(* The timer: ServicesRuning_DB = {} and its save.                         *)
ResetDB ==
  /\ util = "live"
  /\ timer
  /\ timer' = FALSE
  /\ known' = {}
  /\ recorded' = {}
  /\ UNCHANGED <<vars, util, earlier, requests>>

ContainerStep == \E p \in Deployers, c \in Instances : Stop(p, c) \/ Remove(p, c)

UtilityStep ==
  \/ stopAndEliminateContainers \/ handler \/ ResetDB \/ ContainerStep
  \/ \E p \in Deployers : RemoveNetwork(p) \/ NetworkRemoved(p)

SysNext ==
  \/ \E p \in Deployers : Deploy(p)
  \/ \E p \in Deployers : Proceed(p) /\ UNCHANGED <<recorded, utilVars>>
  \/ StartUtility
  \/ UtilityStep

(* As in Launcher the daemon answers what a live deployer has asked.       *)
(* Every request is made once, so that it is enough that some request is   *)
(* answered as long as one can be.  Nothing is assumed of the utility.     *)
Pending(p) ==
  /\ Live(p)
  /\ \/ net[p] = "open"
     \/ \E t \in Types : task[p][t] \in { "list", "build", "building" }
     \/ \E c \in Wanted(p) :
          \/ run[p][c] \in { "create", "attach", "start", "remove" }
          \/ run[p][c] = "wait" /\ container[p][c] # "running"

Answered(p) == net'[p] # net[p] \/ task'[p] # task[p] \/ run'[p] # run[p]

SysFairness ==
  \A p \in Deployers : []<>~ Pending(p) \/ []<><<Answered(p)>>_sysVars

SysSpec == SysInit /\ [][SysNext]_sysVars /\ SysFairness

-----------------------------------------------------------------------------
(***************************************************************************)
(* Properties                                                              *)
(***************************************************************************)

(* Until the utility has emptied the database, every deployment holds its  *)
(* name in it, also one whose network the utility has removed, and one     *)
(* that was registered after the utility read the database.                *)
NamesHeld ==
  timer \/ util = "off" =>
    \A p \in Deployers : proc[p] # "off" => networkName[p] \in recorded

(* README.md: "aunque se ejecute varias veces el mismo servicio, lo hara   *)
(* en redes distintas".  It is so until the utility empties the database.  *)
NamesApart ==
  timer \/ util = "off" =>
    \A p, q \in Deployers :
      proc[p] # "off" /\ proc[q] # "off" /\ p # q =>
        networkName[p] # networkName[q]

(* The utility asks for the removal of no network but those of the         *)
(* deployments it found: one that is registered later keeps its network,   *)
(* whether the list of the networks is answered before or after the timer, *)
(* and although a later deployment may be given the name of an earlier     *)
(* one.                                                                    *)
SparesLater == netRemoves \subseteq earlier

(* The containers are asked for after their image and their network, and   *)
(* the utility leaves alone the names of deployments in use until its      *)
(* timer, and the networks of later deployments at any time, whichever of  *)
(* its answers come before the timer and whichever of them throw.          *)
TeardownSound == AskedInOrder /\ NamesHeld /\ NamesApart /\ SparesLater

(* Every deployment comes to its end: its instances start or are given up  *)
(* for a reason, ended containers are removed, and no deployer is ended by *)
(* an answer about a container that exists or existed.                     *)
DeploymentsEnd == EndedByCreation /\ InstancesSettle /\ LiveDeployerRemoves
=============================================================================

---------------------------- MODULE Utilidades_proofs ----------------------------
(***************************************************************************)
(* For any number of deployers beside the utility: no order of its stops,  *)
(* its removals, its exceptions and its reset of the database takes the    *)
(* network from a deployment that it did not find when it started, gives a *)
(* name to two deployments before the reset, makes an instance be asked    *)
(* for twice or makes a live deployer forget a container.                  *)
(***************************************************************************)
EXTENDS Utilidades, Launcher_proofs

(***************************************************************************)
(* The inductive invariant.  The utility removes only what was created,    *)
(* which keeps the stages of the deployers in their order when container   *)
(* and request are changed by different processes.                         *)
(***************************************************************************)
RemovesCreated ==
  \A d \in removes :
    /\ d \in Deployers \X Instances
    /\ run[d[1]][d[2]] \notin { "none", "create" }

(* A deployer was registered, and may have a network, once it has started. *)
Registered(p) == proc[p] # "off"

(* The database and the copy of the utility.  Until the reset the file     *)
(* holds every name and the copy is a part of it; a deployer that came     *)
(* after the utility read its copy has a name that is not in it, and after *)
(* the reset the copy is empty, so that no name in it is used again.       *)
Database ==
  /\ \A p \in networks : Registered(p)
  /\ util = "off" => known = {} /\ timer = FALSE /\ earlier = {}
  /\ ~ timer => known = {}
  /\ timer \/ util = "off" =>
       /\ known \subseteq recorded
       /\ \A p \in Deployers : Registered(p) => networkName[p] \in recorded
       /\ \A p, q \in Deployers :
            Registered(p) /\ Registered(q) /\ p # q =>
              networkName[p] # networkName[q]
  /\ \A p \in Deployers :
       Registered(p) /\ util # "off" /\ p \notin earlier =>
         networkName[p] \notin known
  /\ netRemoves \subseteq earlier

SysInv ==
  /\ Stages
  /\ stops \subseteq Deployers \X Instances
  /\ RemovesCreated
  /\ Database

-----------------------------------------------------------------------------

(* A step of the system is one of the deployers or one of the utility, and *)
(* the utility makes no request in the place of a deployer.                *)
LEMMA StepOfEither ==
  ASSUME [SysNext]_sysVars
  PROVE  \/ [Next]_vars /\ UNCHANGED <<stops, removes>>
         \/ stopAndEliminateContainers
         \/ ContainerStep
         \/ \E p \in Deployers : RemoveNetwork(p)
<1>1. CASE UNCHANGED sysVars
  BY <1>1 DEF sysVars, utilVars, requests
<1>2. CASE \E p \in Deployers : Deploy(p)
  BY <1>2 DEF Deploy, Next, utilVars, requests
<1>3. CASE \E p \in Deployers : Proceed(p) /\ UNCHANGED <<recorded, utilVars>>
  BY <1>3 DEF Next, utilVars, requests
<1>4. CASE StartUtility \/ handler \/ ResetDB
  BY <1>4 DEF StartUtility, handler, ResetDB, requests
<1>5. CASE \E p \in Deployers : NetworkRemoved(p)
  BY <1>5 DEF NetworkRemoved
<1> QED BY <1>1, <1>2, <1>3, <1>4, <1>5 DEF SysNext, UtilityStep

(* A request that has left "none" and "create" does not come back.         *)
LEMMA CreatedStays ==
  ASSUME Stages, [Next]_vars, NEW q \in Deployers, NEW d \in Instances,
         run[q][d] \notin { "none", "create" }
  PROVE  run'[q][d] \notin { "none", "create" }
<1> USE DEF Stages
<1>1. CASE UNCHANGED vars
  BY <1>1 DEF vars
<1>2. CASE Next
  <2> PICK p \in Deployers : Launch(p) \/ Proceed(p)
    BY <1>2 DEF Next
  <2>1. CASE Launch(p) \/ create_network(p) \/ Kill(p)
    BY <2>1 DEF Launch, create_network, Kill
  <2>2. ASSUME NEW t \in Types, ImageStep(p, t)
        PROVE  run'[q][d] \notin { "none", "create" }
    <3>1. task[p][t] # "done"
      BY <2>2 DEF ImageStep, image, buildImage, endBuild
    <3>2. run' = run \/ create_containers(p, t)
      BY <2>2 DEF ImageStep, image, buildImage, endBuild
    <3>3. run'[q][d] = run[q][d] \/ (q = p /\ d[1] = t)
      BY <3>2, CreateEffect
    <3> QED BY <3>1, <3>3 DEF ImageFirst
  <2>3. ASSUME NEW c \in Wanted(p), RunStep(p, c) \/ Exit(p, c)
        PROVE  run'[q][d] \notin { "none", "create" }
    <3>0. c \in Instances
      BY InstanceType
    <3>1. CASE q # p \/ d # c
      BY <2>3, <3>1, RunIsLocal
    <3>2. CASE Exit(p, c)
      BY <3>2 DEF Exit
    <3>3. CASE wait(p, c)
      <4>1. run' = [ run EXCEPT ![p][c] = "remove" ]
        BY <3>3 DEF wait
      <4> QED BY <3>0, <3>1, <4>1 DEF TypeOK
    <3>4. CASE createContainer(p, c) \/ attach(p, c) \/ start(p, c)
                 \/ remove(p, c)
      <4>1. PICK r \in Requests \ { "none", "create" } : AskRun(p, c, r)
        BY <3>4 DEF createContainer, attach, start, remove, Requests
      <4>2. run'[p][c] = IF Live(p) THEN r ELSE "lost"
        BY <3>0, <4>1, AskRunEffect
      <4> QED BY <3>1, <4>2
    <3> QED BY <2>3, <3>2, <3>3, <3>4 DEF RunStep
  <2> QED BY <2>1, <2>2, <2>3 DEF Proceed
<1> QED BY <1>1, <1>2

(* After its launch a deployer stays registered, and the networks it makes *)
(* are its own.                                                            *)
LEMMA ProceedRegisters ==
  ASSUME Stages, NEW p \in Deployers, Proceed(p)
  PROVE  /\ \A q \in Deployers : Registered(q)' <=> Registered(q)
         /\ networks' = networks \/ networks' = networks \cup { p }
         /\ networks' # networks => Registered(p)
<1> USE DEF Stages
<1>1. Registered(p)
  <2>1. CASE create_network(p)
    BY <2>1 DEF create_network, NetworkFirst, Registered
  <2>2. CASE Kill(p)
    BY <2>2 DEF Kill, Live, Registered
  <2>3. ASSUME NEW t \in Types, ImageStep(p, t)
        PROVE  task[p][t] # "none"
    BY <2>3 DEF ImageStep, image, buildImage, endBuild
  <2>4. ASSUME NEW c \in Wanted(p), RunStep(p, c) \/ Exit(p, c)
        PROVE  task[p][c[1]] # "none" /\ c[1] \in Types
    <3>1. c \in Instances /\ c[1] \in Types
      BY InstanceType
    <3>2. run[p][c] # "none"
      BY <2>4, <3>1
         DEF RunStep, createContainer, attach, start, wait, remove, Exit,
             CreationFirst
    <3> QED BY <3>1, <3>2 DEF ImageFirst
  <2>5. ASSUME NEW t \in Types, task[p][t] # "none"
        PROVE  Registered(p)
    BY <2>5 DEF NetworkFirst, Registered
  <2> QED BY <2>1, <2>2, <2>3, <2>4, <2>5 DEF Proceed
<1>2. proc' = proc \/ Dies(p)
  BY DEF Proceed, create_network, ImageStep, image, buildImage, endBuild,
         RunStep, createContainer, attach, start, wait, remove, Exit, Kill
<1>3. \A q \in Deployers : Registered(q)' <=> Registered(q)
  BY <1>1, <1>2, DiesEffect DEF Registered
<1>4. networks' = networks \/ networks' = networks \cup { p }
  BY DEF Proceed, create_network, ImageStep, image, buildImage, endBuild,
         RunStep, createContainer, attach, start, wait, remove, Exit, Kill,
         daemonVars
<1> QED BY <1>1, <1>3, <1>4

-----------------------------------------------------------------------------
(***************************************************************************)
(* The invariant.                                                          *)
(***************************************************************************)

(* The first state.                                                        *)
LEMMA InitSys == SysInit => SysInv /\ FollowedAll
<1> SUFFICES ASSUME SysInit PROVE SysInv /\ FollowedAll
  OBVIOUS
<1>1. Stages /\ FollowedAll
  BY InitStages DEF SysInit
<1>2. Database
  BY DEF SysInit, Init, Database, Registered
<1> QED BY <1>1, <1>2 DEF SysInit, SysInv, RemovesCreated

(* What Stop and Remove do to the containers: one that runs ends, and one  *)
(* that does not run goes.                                                 *)
LEMMA UtilityOnContainers ==
  ASSUME SysInv, ContainerStep
  PROVE  /\ container' \in [ Deployers -> [ Instances -> ContainerStates ] ]
         /\ \A q \in Deployers, d \in Instances :
              \/ container'[q][d] = container[q][d]
              \/ container[q][d] = "running" /\ container'[q][d] = "exited"
              \/ << q, d >> \in removes /\ container'[q][d] = "removed"
         /\ UNCHANGED <<proc, net, task, run, networks, images>>
         /\ stops' \subseteq stops /\ removes' \subseteq removes
<1>1. PICK p \in Deployers, c \in Instances : Stop(p, c) \/ Remove(p, c)
  BY DEF ContainerStep
<1>2. container[p][c] \in ContainerStates
  BY DEF SysInv, Stages, TypeOK, ContainerStates
<1>3. CASE Stop(p, c)
  <2> DEFINE x == IF container[p][c] = "running" THEN "exited"
                  ELSE container[p][c]
  <2>1. container' = [ container EXCEPT ![p][c] = x ] /\ x \in ContainerStates
    BY <1>2, <1>3 DEF Stop, ContainerStates
  <2> HIDE DEF x
  <2>2. /\ container' \in [ Deployers -> [ Instances -> ContainerStates ] ]
        /\ container'[p][c] = x
        /\ \A q \in Deployers, d \in Instances :
             q # p \/ d # c => container'[q][d] = container[q][d]
    <3>1. container \in [ Deployers -> [ Instances -> ContainerStates ] ]
      BY DEF SysInv, Stages, TypeOK, ContainerStates
    <3>2. container' \in [ Deployers -> [ Instances -> ContainerStates ] ]
      BY <2>1, <3>1
    <3> QED BY <2>1, <3>1, <3>2
  <2> QED BY <1>3, <2>2 DEF Stop, deployerVars, x
<1>4. CASE Remove(p, c)
  <2> DEFINE x == IF container[p][c] = "running" THEN container[p][c]
                  ELSE "removed"
  <2>1. container' = [ container EXCEPT ![p][c] = x ] /\ x \in ContainerStates
    BY <1>2, <1>4 DEF Remove, ContainerStates
  <2> HIDE DEF x
  <2>2. /\ container' \in [ Deployers -> [ Instances -> ContainerStates ] ]
        /\ container'[p][c] = x
        /\ \A q \in Deployers, d \in Instances :
             q # p \/ d # c => container'[q][d] = container[q][d]
    <3>1. container \in [ Deployers -> [ Instances -> ContainerStates ] ]
      BY DEF SysInv, Stages, TypeOK, ContainerStates
    <3>2. container' \in [ Deployers -> [ Instances -> ContainerStates ] ]
      BY <2>1, <3>1
    <3> QED BY <2>1, <3>1, <3>2
  <2> QED BY <1>4, <2>2 DEF Remove, deployerVars, x
<1> QED BY <1>1, <1>3, <1>4

(* Every step keeps what is known of the database.                         *)
LEMMA NextDatabase ==
  ASSUME SysInv, [SysNext]_sysVars
  PROVE  Database'
<1> USE DEF SysInv
<1>1. CASE UNCHANGED sysVars
  BY <1>1 DEF sysVars, vars, utilVars, requests, Database, Registered
<1>2. ASSUME NEW p \in Deployers, Deploy(p)
      PROVE  Database'
  <2>1. /\ networkName[p] \notin recorded
        /\ recorded' = recorded \cup { networkName[p] }
        /\ UNCHANGED <<networks, util, known, timer, earlier, netRemoves>>
    BY <1>2 DEF Deploy, Launch, daemonVars, utilVars, requests
  <2>2. \A q \in Deployers : Registered(q)' <=> Registered(q) \/ q = p
    BY <1>2 DEF Deploy, Launch, Registered, Stages, TypeOK
  <2>3. \A q \in networks' : Registered(q)'
    BY <2>1, <2>2 DEF Database, Stages, TypeOK
  <2>4. timer \/ util = "off" =>
          \A q, r \in Deployers :
            (Registered(q) \/ q = p) /\ (Registered(r) \/ r = p) /\ q # r =>
              networkName[q] # networkName[r]
    BY <2>1 DEF Database
  <2>5. ASSUME NEW q \in Deployers, Registered(q) \/ q = p, util # "off",
               q \notin earlier
        PROVE  networkName[q] \notin known
    <3>1. CASE Registered(q)
      BY <2>5, <3>1 DEF Database
    <3>2. CASE q = p
      BY <2>1, <3>2 DEF Database
    <3> QED BY <2>5, <3>1, <3>2
  <2>6. timer \/ util = "off" =>
          /\ known \subseteq recorded'
          /\ \A q \in Deployers :
               Registered(q) \/ q = p => networkName[q] \in recorded'
    BY <2>1 DEF Database
  <2> QED BY <2>1, <2>2, <2>3, <2>4, <2>5, <2>6 DEF Database
<1>3. ASSUME NEW p \in Deployers, Proceed(p), UNCHANGED <<recorded, utilVars>>
      PROVE  Database'
  <2>1. UNCHANGED <<recorded, util, known, timer, earlier, netRemoves>>
    BY <1>3 DEF utilVars, requests
  <2>2. /\ \A q \in Deployers : Registered(q)' <=> Registered(q)
        /\ networks' = networks \/ networks' = networks \cup { p }
        /\ networks' # networks => Registered(p)
    BY <1>3, ProceedRegisters
  <2>3. \A q \in networks' : Registered(q)'
    BY <2>2 DEF Database, Stages, TypeOK
  <2> QED BY <2>1, <2>2, <2>3 DEF Database
<1>4. CASE StartUtility
  <2>1. /\ util = "off" /\ util' = "live" /\ known' = recorded
        /\ timer' = TRUE /\ earlier' = { p \in Deployers : Registered(p) }
        /\ UNCHANGED <<proc, networks, recorded, netRemoves>>
    BY <1>4 DEF StartUtility, vars, Registered
  <2>2. \A q : Registered(q)' <=> Registered(q)
    BY <2>1 DEF Registered
  <2>3. netRemoves' \subseteq earlier'
    BY <2>1 DEF Database
  <2> QED BY <2>1, <2>2, <2>3 DEF Database
<1>5. ASSUME UNCHANGED <<proc, recorded, timer, earlier>>,
             networks' \subseteq networks, netRemoves' \subseteq netRemoves,
             known' = known \/ known' = {}, util' = "off" <=> util = "off"
      PROVE  Database'
  <2>1. \A q : Registered(q)' <=> Registered(q)
    BY <1>5 DEF Registered
  <2> QED BY <1>5, <2>1 DEF Database
<1>6. CASE stopAndEliminateContainers
  BY <1>5, <1>6 DEF stopAndEliminateContainers, UtilityDies, vars
<1>7. CASE ContainerStep
  BY <1>5, <1>7 DEF ContainerStep, Stop, Remove, deployerVars
<1>8. CASE \E p \in Deployers : RemoveNetwork(p)
  BY <1>5, <1>8 DEF RemoveNetwork, deployerVars
<1>9. CASE \E p \in Deployers : NetworkRemoved(p)
  BY <1>5, <1>9 DEF NetworkRemoved, UtilityDies, vars
<1>10. CASE handler
  <2>1. CASE netRemoves' = netRemoves
    BY <1>5, <1>10, <2>1 DEF handler, UtilityDies, vars
  <2>2. CASE /\ netRemoves' = { p \in networks : networkName[p] \in known }
             /\ UNCHANGED <<util, known>>
    <3>1. UNCHANGED <<proc, networks, recorded, timer, earlier>> /\ util = "live"
      BY <1>10 DEF handler, vars
    <3>2. ASSUME NEW p \in netRemoves'
          PROVE  p \in earlier
      <4>1. p \in Deployers /\ Registered(p) /\ networkName[p] \in known
        BY <2>2, <3>2 DEF Database, Stages, TypeOK
      <4> QED BY <3>1, <4>1 DEF Database
    <3> QED BY <2>2, <3>1, <3>2 DEF Database, Registered
  <2> QED BY <1>10, <2>1, <2>2 DEF handler
<1>11. CASE ResetDB
  <2>1. /\ util = "live" /\ timer' = FALSE /\ known' = {}
        /\ UNCHANGED <<proc, networks, util, earlier, netRemoves>>
    BY <1>11 DEF ResetDB, vars, requests
  <2> QED BY <2>1 DEF Database, Registered
<1> QED
  BY <1>1, <1>2, <1>3, <1>4, <1>6, <1>7, <1>8, <1>9, <1>10, <1>11
     DEF SysNext, UtilityStep

(* Every step of the deployers and of the utility keeps the invariant.     *)
LEMMA NextSys == SysInv /\ [SysNext]_sysVars => SysInv'
<1> SUFFICES ASSUME SysInv, [SysNext]_sysVars PROVE SysInv'
  OBVIOUS
<1>0. Database'
  BY NextDatabase
<1>1. CASE [Next]_vars /\ UNCHANGED <<stops, removes>>
  <2>1. Stages'
    BY <1>1, NextStages DEF SysInv
  <2>2. RemovesCreated'
    <3> SUFFICES ASSUME NEW d \in removes
                 PROVE  /\ d \in Deployers \X Instances
                        /\ run'[d[1]][d[2]] \notin { "none", "create" }
      BY <1>1 DEF RemovesCreated
    <3>1. /\ d[1] \in Deployers /\ d[2] \in Instances
          /\ d \in Deployers \X Instances
          /\ run[d[1]][d[2]] \notin { "none", "create" }
      BY DEF SysInv, RemovesCreated
    <3> QED BY <1>1, <3>1, CreatedStays DEF SysInv
  <2> QED BY <1>0, <1>1, <2>1, <2>2 DEF SysInv
<1>2. CASE stopAndEliminateContainers
  <2>1. UNCHANGED vars
    BY <1>2 DEF stopAndEliminateContainers
  <2>2. Stages'
    BY <2>1 DEF vars, SysInv, Stages, TypeOK, NetworkFirst, ImageFirst,
                CreationFirst
  <2>3. /\ stops' \subseteq Deployers \X Instances
        /\ \A d \in removes' :
             \/ d \in removes
             \/ /\ d \in Deployers \X Instances
                /\ container[d[1]][d[2]] \in Existing
    BY <1>2 DEF stopAndEliminateContainers, SysInv
  <2>4. ASSUME NEW d \in removes'
        PROVE  /\ d \in Deployers \X Instances
               /\ run[d[1]][d[2]] \notin { "none", "create" }
    <3>1. CASE d \in removes
      BY <3>1 DEF SysInv, RemovesCreated
    <3>2. CASE /\ d \in Deployers \X Instances
               /\ container[d[1]][d[2]] \in Existing
      <4>1. d[1] \in Deployers /\ d[2] \in Instances
        BY <3>2
      <4>2. container[d[1]][d[2]] # "none"
        BY <3>2 DEF Existing
      <4> QED BY <3>2, <4>1, <4>2 DEF SysInv, Stages, CreationFirst
    <3> QED BY <2>3, <3>1, <3>2
  <2>5. run' = run
    BY <2>1 DEF vars
  <2>6. RemovesCreated'
    BY <2>4, <2>5 DEF RemovesCreated
  <2> QED BY <1>0, <2>2, <2>3, <2>6 DEF SysInv
<1>3. CASE ContainerStep
  <2>1. /\ container' \in [ Deployers -> [ Instances -> ContainerStates ] ]
        /\ \A q \in Deployers, d \in Instances :
             \/ container'[q][d] = container[q][d]
             \/ container[q][d] = "running" /\ container'[q][d] = "exited"
             \/ << q, d >> \in removes /\ container'[q][d] = "removed"
        /\ UNCHANGED <<proc, net, task, run, networks, images>>
        /\ stops' \subseteq stops /\ removes' \subseteq removes
    BY <1>3, UtilityOnContainers
  <2>2. TypeOK' /\ NetworkFirst' /\ ImageFirst'
    BY <2>1 DEF SysInv, Stages, TypeOK, NetworkFirst, ImageFirst,
                ContainerStates
  <2>3. ASSUME NEW q \in Deployers, NEW d \in Instances,
               run[q][d] \in { "none", "create" }
        PROVE  container'[q][d] = "none"
    <3>1. container[q][d] = "none"
      BY <2>3 DEF SysInv, Stages, CreationFirst
    <3>2. << q, d >> \notin removes
      BY <2>3 DEF SysInv, RemovesCreated
    <3> QED BY <2>1, <3>1, <3>2
  <2>4. CreationFirst'
    BY <2>1, <2>3 DEF CreationFirst
  <2>5. RemovesCreated'
    BY <2>1 DEF SysInv, RemovesCreated
  <2> QED BY <1>0, <2>1, <2>2, <2>4, <2>5 DEF SysInv, Stages
<1>4. ASSUME NEW p \in Deployers, RemoveNetwork(p)
      PROVE  SysInv'
  <2>1. /\ UNCHANGED <<proc, net, task, run, images, container, stops, removes>>
        /\ networks' = networks \/ networks' = networks \ { p }
    BY <1>4 DEF RemoveNetwork, deployerVars
  <2>2. Stages' /\ RemovesCreated'
    BY <2>1 DEF SysInv, Stages, TypeOK, NetworkFirst, ImageFirst,
                CreationFirst, RemovesCreated
  <2> QED BY <1>0, <2>1, <2>2 DEF SysInv
<1> QED BY <1>1, <1>2, <1>3, <1>4, StepOfEither

(* The invariant of the whole system.                                      *)
LEMMA SysInvHolds == SysSpec => []SysInv
<1>1. SysInit => SysInv
  BY InitSys
<1> QED BY <1>1, NextSys, PTL DEF SysSpec

-----------------------------------------------------------------------------
(***************************************************************************)
(* What the utility cannot disturb.                                        *)
(***************************************************************************)

(* elinimateNetwork.js removes networks and empties the database beside    *)
(* deployers that are registered and start containers: whichever of its    *)
(* answers come first and whichever throw, until the reset every           *)
(* deployment holds its name and no two have one name, and at any time it  *)
(* asks for the removal of no network of a later deployment.               *)
THEOREM TeardownSafe == SysSpec => []TeardownSound
<1>1. SysInv => TeardownSound
  <2> SUFFICES ASSUME SysInv
               PROVE  AskedInOrder /\ NamesHeld /\ NamesApart /\ SparesLater
    BY DEF TeardownSound
  <2>1. NamesHeld /\ NamesApart /\ SparesLater
    BY DEF SysInv, Database, Registered, NamesHeld, NamesApart, SparesLater
  <2>2. ASSUME NEW p \in Deployers, NEW c \in Wanted(p), run[p][c] # "none"
        PROVE  task[p][c[1]] = "done" /\ net[p] = "closed"
    <3>1. c \in Instances /\ c[1] \in Types
      BY InstanceType
    <3>2. task[p][c[1]] = "done"
      BY <2>2, <3>1 DEF SysInv, Stages, ImageFirst
    <3> QED BY <3>1, <3>2 DEF SysInv, Stages, NetworkFirst
  <2> QED BY <2>1, <2>2 DEF AskedInOrder
<1> QED BY <1>1, SysInvHolds, PTL

(* docker.run is called at most once for an instance, also beside the      *)
(* utility.                                                                *)
THEOREM RequestedOnceBesideUtility == SysSpec => RequestedOnce
<1>1. ASSUME SysInv, [SysNext]_sysVars
      PROVE  [ \A p \in Deployers : \A c \in Wanted(p) :
                 run'[p][c] = "create" => run[p][c] \in { "none", "create" } ]_vars
  <2>1. CASE [Next]_vars
    BY <1>1, <2>1, CreateIsFirst DEF SysInv
  <2>2. CASE run' = run
    BY <2>2
  <2>3. [Next]_vars \/ run' = run
    BY <1>1, StepOfEither, UtilityOnContainers
       DEF stopAndEliminateContainers, RemoveNetwork, deployerVars, vars
  <2> QED BY <2>1, <2>2, <2>3
<1> QED BY <1>1, SysInvHolds, PTL DEF SysSpec, RequestedOnce

(* A live deployer forgets no container although another process stops and *)
(* removes its containers, if container.wait answers for the containers    *)
(* that run.                                                               *)
THEOREM FollowedBesideUtility ==
  ASSUME "wait" \notin Faults
  PROVE  SysSpec => []Followed
<1>1. SysInit => SysInv /\ FollowedAll
  BY InitSys
<1>2. SysInv /\ FollowedAll /\ [SysNext]_sysVars => FollowedAll'
  <2> SUFFICES ASSUME SysInv, FollowedAll, [SysNext]_sysVars
               PROVE  FollowedAll'
    OBVIOUS
  <2>1. CASE [Next]_vars
    BY <2>1, NextFollowed DEF SysInv
  <2>2. CASE ContainerStep
    <3>1. /\ \A q \in Deployers, d \in Instances :
               \/ container'[q][d] = container[q][d]
               \/ container[q][d] = "running" /\ container'[q][d] = "exited"
               \/ << q, d >> \in removes /\ container'[q][d] = "removed"
          /\ UNCHANGED <<proc, run>>
      BY <2>2, UtilityOnContainers
    <3> SUFFICES ASSUME NEW q \in Deployers, NEW d \in Instances, Live(q)
                 PROVE  Fits(container'[q][d], run[q][d])
      BY <3>1 DEF FollowedAll, Live, Fits
    <3>2. Fits(container[q][d], run[q][d])
      BY DEF FollowedAll
    <3>3. CASE container'[q][d] = container[q][d]
      BY <3>2, <3>3
    <3>4. CASE container[q][d] = "running" /\ container'[q][d] = "exited"
      BY <3>2, <3>4 DEF Fits
    <3>5. CASE container'[q][d] = "removed"
      BY <3>5 DEF Fits
    <3> QED BY <3>1, <3>3, <3>4, <3>5
  <2>3. CASE UNCHANGED <<proc, run, container>>
    BY <2>3 DEF FollowedAll, Live, Fits
  <2>4. [Next]_vars \/ ContainerStep \/ UNCHANGED <<proc, run, container>>
    BY StepOfEither
       DEF stopAndEliminateContainers, RemoveNetwork, deployerVars, vars
  <2> QED BY <2>1, <2>2, <2>3, <2>4
<1>3. SysInv /\ FollowedAll => Followed
  BY FitsFollowed DEF SysInv
<1> QED BY <1>1, <1>2, <1>3, NextSys, PTL DEF SysSpec

=============================================================================

-------------------------------- MODULE Launcher --------------------------------
(***************************************************************************)
(* The asynchronous half of src/Deployer.js, from create_network to the    *)
(* removal of the last container: a deployer asks the Docker daemon for a  *)
(* network, for the list of images, for the images that are missing and    *)
(* then, for every instance of every component, for the creation, the      *)
(* attachment, the start, the end and the removal of a container (run of   *)
(* dockerode).                                                             *)
(*                                                                         *)
(* Every request is open until the daemon carries it out; carrying it out  *)
(* and running the callback of the deployer is one step.  An exception in  *)
(* a callback ends the process of the deployer.  Requests that were open   *)
(* when it ended may still be carried out, without a callback.             *)
(***************************************************************************)
EXTENDS Naturals, FiniteSets

CONSTANTS
  Deployers,      \* the processes that reach create_network
  Types,          \* the types of components
  Images,         \* the names of images
  networkName,    \* networkName[p]: ServiceIDName of the deployer p
  cardinality,    \* cardinality[p]: deployment.cardinality
  declared,       \* declared[p]: the types in service.components
  imageName,      \* imageName[p][t]: the name made of the URI of a component
  MaxInstances,   \* bound on the instances of a component
  Faults          \* what may go wrong: a subset of AllFaults

AllFaults ==
  { "network", "list", "untagged", "no file", "build", "broken build",
    "create", "attach", "start", "wait", "kill" }

ASSUME LauncherAssumption ==
  /\ MaxInstances \in Nat
  /\ \A p \in Deployers :
       /\ DOMAIN cardinality[p] \subseteq Types
       /\ \A t \in DOMAIN cardinality[p] : cardinality[p][t] \in 0 .. MaxInstances
       /\ \A t \in Types : imageName[p][t] \in Images
  /\ Faults \subseteq AllFaults

(* A container is known by its owner and by the component and the number   *)
(* of the instance, << t, n >>; its name adds the name of the network.     *)
Instances == Types \X (0 .. MaxInstances)

Wanted(p) ==
  { c \in Instances :
      c[1] \in DOMAIN cardinality[p] /\ c[2] < cardinality[p][c[1]] }

VARIABLES
  proc,        \* proc[p]: "off", "live" or "dead"
  net,         \* net[p]: the request for the network: "none", "open", "closed"
  task,        \* task[p][t]: what is open for the image of the component t
  run,         \* run[p][c]: what is open for the container of the instance c
  networks,    \* the deployers whose network exists
  images,      \* the images the daemon has
  container    \* container[p][c]: the container of the instance c of p

vars == << proc, net, task, run, networks, images, container >>

daemonVars == << networks, images, container >>

Existing == { "created", "running", "exited" }

-----------------------------------------------------------------------------

Init ==
  /\ proc = [ p \in Deployers |-> "off" ]
  /\ net = [ p \in Deployers |-> "none" ]
  /\ task = [ p \in Deployers |-> [ t \in Types |-> "none" ] ]
  /\ run = [ p \in Deployers |-> [ c \in Instances |-> "none" ] ]
  /\ networks = {}
  /\ images = {}
  /\ container = [ p \in Deployers |-> [ c \in Instances |-> "none" ] ]

Live(p) == proc[p] = "live"

Dies(p) == proc' = [ proc EXCEPT ![p] = "dead" ]

(* The next request of a live deployer; a dead one makes none.             *)
AskTask(p, t, request) ==
  task' = [ task EXCEPT ![p][t] = IF Live(p) THEN request ELSE "lost" ]

AskRun(p, c, request) ==
  run' = [ run EXCEPT ![p][c] = IF Live(p) THEN request ELSE "lost" ]

(* read_Service_Json ends in create_network(ServiceIDName).                *)
Launch(p) ==
  /\ proc[p] = "off"
  /\ proc' = [ proc EXCEPT ![p] = "live" ]
  /\ net' = [ net EXCEPT ![p] = "open" ]
  /\ UNCHANGED <<task, run, daemonVars>>

(* createNetwork and its callback.  Docker takes several networks with one *)
(* name.  After an error networkResult has no id, and a type of the        *)
(* cardinality that the service does not have has no uri: both throw.      *)
create_network(p) ==
  /\ net[p] = "open"
  /\ net' = [ net EXCEPT ![p] = "closed" ]
  /\ \/ /\ networks' = networks \cup { p }
        /\ Live(p)
        /\ DOMAIN cardinality[p] \subseteq declared[p]
        /\ task' = [ task EXCEPT ![p] =
                       [ t \in Types |->
                           IF t \in DOMAIN cardinality[p] THEN "list" ELSE @[t] ] ]
        /\ UNCHANGED proc
     \/ /\ networks' = networks \cup { p }
        /\ ~ Live(p) \/ ~ DOMAIN cardinality[p] \subseteq declared[p]
        /\ Dies(p)
        /\ UNCHANGED task
     \/ /\ "network" \in Faults
        /\ Dies(p)
        /\ UNCHANGED <<networks, task>>
  /\ UNCHANGED <<run, images, container>>

(* create_containers: docker.run for every instance of the component.      *)
create_containers(p, t) ==
  run' = [ run EXCEPT ![p] =
             [ c \in Instances |->
                 IF c \in Wanted(p) /\ c[1] = t THEN "create" ELSE @[c] ] ]

(* listImages and the handler of image: after an error there is no data,   *)
(* and the image is taken to be missing.  An image without tags on the     *)
(* machine and a build file that cannot be read throw.                     *)
image(p, t) ==
  /\ Live(p)
  /\ task[p][t] = "list"
  /\ \/ /\ imageName[p][t] \in images
        /\ task' = [ task EXCEPT ![p][t] = "done" ]
        /\ create_containers(p, t)
        /\ UNCHANGED proc
     \/ /\ imageName[p][t] \notin images \/ "list" \in Faults
        /\ task' = [ task EXCEPT ![p][t] = "build" ]
        /\ UNCHANGED <<proc, run>>
     \/ /\ \/ "untagged" \in Faults
           \/ /\ "no file" \in Faults
              /\ imageName[p][t] \notin images \/ "list" \in Faults
        /\ task' = [ task EXCEPT ![p][t] = "lost" ]
        /\ Dies(p)
        /\ UNCHANGED run
  /\ UNCHANGED <<net, daemonVars>>

(* Mutation: the error of buildImage does not return.                      *)
BuildNotReturning(p, t) ==
  /\ task[p][t] = "build"
  /\ AskTask(p, t, "building")
  /\ \/ UNCHANGED run
     \/ "build" \in Faults /\ Live(p) /\ create_containers(p, t)
  /\ UNCHANGED <<proc, net, daemonVars>>

(* buildImage and its callback: an error ends the matter for this type.    *)
buildImage(p, t) ==
  /\ task[p][t] = "build"
  /\ \/ AskTask(p, t, "building")
     \/ /\ "build" \in Faults
        /\ AskTask(p, t, "refused")
  /\ UNCHANGED <<proc, net, run, daemonVars>>

(* The stream of the build ends, with the image or, when a command of the  *)
(* Dockerfile failed, without: stream.on('end') does not tell them apart.  *)
endBuild(p, t) ==
  /\ task[p][t] = "building"
  /\ \/ images' = images \cup { imageName[p][t] }
     \/ /\ "broken build" \in Faults
        /\ UNCHANGED images
  /\ AskTask(p, t, "done")
  /\ \/ Live(p) /\ create_containers(p, t)
     \/ ~ Live(p) /\ UNCHANGED run
  /\ UNCHANGED <<proc, net, networks, container>>

(* The name containerName-instanceNumber-networkName is in use.            *)
NameTaken(p, c) ==
  \E q \in Deployers :
    networkName[q] = networkName[p] /\ container[q][c] \in Existing

(* createContainer.  It is refused when there is no such image or when the *)
(* name is in use.  docker.run then calls its callback with no container,  *)
(* and the handler of runContenedor throws at container.remove.            *)
createContainer(p, c) ==
  /\ run[p][c] = "create"
  /\ \/ /\ imageName[p][c[1]] \in images
        /\ ~ NameTaken(p, c)
        /\ container' = [ container EXCEPT ![p][c] = "created" ]
        /\ AskRun(p, c, "attach")
        /\ UNCHANGED proc
     \/ /\ \/ imageName[p][c[1]] \notin images
           \/ NameTaken(p, c)
           \/ "create" \in Faults
        /\ AskRun(p, c, "lost")
        /\ Dies(p)
        /\ UNCHANGED container
  /\ UNCHANGED <<net, task, networks, images>>

(* Mutation: an error of attach ends the matter.                           *)
AttachReturning(p, c) ==
  /\ run[p][c] = "attach"
  /\ \/ AskRun(p, c, "start")
     \/ /\ "attach" \in Faults
        /\ AskRun(p, c, "done")
  /\ UNCHANGED <<proc, net, task, daemonVars>>

(* container.attach: after an error the handler removes the container.     *)
attach(p, c) ==
  /\ run[p][c] = "attach"
  /\ \/ /\ container[p][c] \in Existing
        /\ AskRun(p, c, "start")
     \/ /\ container[p][c] \notin Existing \/ "attach" \in Faults
        /\ AskRun(p, c, "remove")
  /\ UNCHANGED <<proc, net, task, daemonVars>>

(* container.start.  NetworkMode names the network: Docker refuses a name  *)
(* that no network or more than one has.                                   *)
start(p, c) ==
  LET named == { q \in networks : networkName[q] = networkName[p] } IN
  /\ run[p][c] = "start"
  /\ \/ /\ container[p][c] \in Existing
        /\ Cardinality(named) = 1
        /\ container' = [ container EXCEPT ![p][c] = "running" ]
        /\ AskRun(p, c, "wait")
     \/ /\ \/ container[p][c] \notin Existing
           \/ Cardinality(named) # 1
           \/ "start" \in Faults
        /\ AskRun(p, c, "remove")
        /\ UNCHANGED container
  /\ UNCHANGED <<proc, net, task, networks, images>>

(* The program of the container ends.                                      *)
Exit(p, c) ==
  /\ container[p][c] = "running"
  /\ container' = [ container EXCEPT ![p][c] = "exited" ]
  /\ UNCHANGED <<proc, net, task, run, networks, images>>

(* Mutation: the handler of runContenedor removes only after an error.     *)
WaitOnly(p, c) ==
  /\ Live(p)
  /\ run[p][c] = "wait"
  /\ container[p][c] = "exited"
  /\ run' = [ run EXCEPT ![p][c] = "done" ]
  /\ UNCHANGED <<proc, net, task, daemonVars>>

(* container.wait, which answers when the container has ended, or fails    *)
(* because somebody has removed it.                                        *)
wait(p, c) ==
  /\ Live(p)
  /\ run[p][c] = "wait"
  /\ container[p][c] # "running" \/ "wait" \in Faults
  /\ run' = [ run EXCEPT ![p][c] = "remove" ]
  /\ UNCHANGED <<proc, net, task, daemonVars>>

(* container.remove: a running container stays, the error is logged.       *)
remove(p, c) ==
  /\ run[p][c] = "remove"
  /\ \/ /\ container[p][c] # "running"
        /\ container' = [ container EXCEPT ![p][c] = "removed" ]
     \/ /\ container[p][c] = "running"
        /\ UNCHANGED container
  /\ AskRun(p, c, "done")
  /\ UNCHANGED <<proc, net, task, networks, images>>

(* The deployer is killed.                                                 *)
Kill(p) ==
  /\ "kill" \in Faults
  /\ Live(p)
  /\ Dies(p)
  /\ UNCHANGED <<net, task, run, daemonVars>>

ImageStep(p, t) == image(p, t) \/ buildImage(p, t) \/ endBuild(p, t)

RunStep(p, c) ==
  createContainer(p, c) \/ attach(p, c) \/ start(p, c) \/ wait(p, c)
    \/ remove(p, c)

(* What follows the launch of a deployer.                                  *)
Proceed(p) ==
  \/ create_network(p)
  \/ \E t \in Types : ImageStep(p, t)
  \/ \E c \in Wanted(p) : RunStep(p, c) \/ Exit(p, c)
  \/ Kill(p)

Next == \E p \in Deployers : Launch(p) \/ Proceed(p)

(***************************************************************************)
(* The daemon answers every request of a live deployer, and the event loop *)
(* of the deployer runs every callback.  Nothing is assumed of the program *)
(* in a container, which need not end, nor of the requests of the dead.    *)
(***************************************************************************)
Fairness ==
  \A p \in Deployers :
    /\ WF_vars(Live(p) /\ create_network(p))
    /\ \A t \in Types : WF_vars(Live(p) /\ ImageStep(p, t))
    /\ \A c \in Wanted(p) : WF_vars(Live(p) /\ RunStep(p, c))

Spec == Init /\ [][Next]_vars /\ Fairness

-----------------------------------------------------------------------------
(***************************************************************************)
(* Properties                                                              *)
(***************************************************************************)

(* The types of the requests of a deployer and of the daemon's objects.    *)
TypeOK ==
  /\ proc \in [ Deployers -> { "off", "live", "dead" } ]
  /\ net \in [ Deployers -> { "none", "open", "closed" } ]
  /\ task \in [ Deployers ->
       [ Types -> { "none", "list", "build", "building", "refused", "done",
                    "lost" } ] ]
  /\ run \in [ Deployers ->
       [ Instances -> { "none", "create", "attach", "start", "wait", "remove",
                        "done", "lost" } ] ]
  /\ networks \subseteq Deployers
  /\ images \subseteq Images
  /\ container \in [ Deployers ->
       [ Instances -> { "none", "created", "running", "exited", "removed" } ] ]

(* The containers of a component are asked for when the build of its image *)
(* has ended, or the image was there, and the network has been asked for.  *)
AskedInOrder ==
  \A p \in Deployers : \A c \in Wanted(p) :
    run[p][c] # "none" => task[p][c[1]] = "done" /\ net[p] = "closed"

(* An exception ends a deployer in the callbacks of createNetwork, of      *)
(* listImages and of docker.run alone (or it is killed): whatever becomes  *)
(* of its containers while it attaches, starts, waits and removes, no      *)
(* answer ends it.                                                         *)
EndedByCreation ==
  [][ \A p \in Deployers :
        Live(p) /\ ~ Live(p)' =>
          \/ net'[p] # net[p]
          \/ \E t \in Types : task[p][t] = "list" /\ task'[p][t] = "lost"
          \/ \E c \in Wanted(p) : run[p][c] = "create" /\ run'[p][c] = "lost"
          \/ UNCHANGED <<net, task, run, daemonVars>> ]_vars

(* Every instance is started or given up for a reason: its image was not   *)
(* built, or its deployer has ended.                                       *)
InstancesSettle ==
  \A p \in Deployers : \A c \in Wanted(p) :
    net[p] = "open" ~>
      \/ run[p][c] \in { "wait", "remove", "done", "lost" }
      \/ task[p][c[1]] = "refused" \/ ~ Live(p)

(* A live deployer forgets no container: each one that exists has an open  *)
(* request that fits its state, so that its removal is still to come,      *)
(* whichever of the requests before it were refused.                       *)
Followed ==
  \A p \in Deployers : \A c \in Wanted(p) :
    container[p][c] \in Existing /\ Live(p) =>
      run[p][c] \in
        CASE container[p][c] = "created" -> { "attach", "start", "remove" }
          [] container[p][c] = "running" -> { "wait" }
          [] container[p][c] = "exited"  -> { "wait", "remove" }

(* An instance is asked for once: whatever fails or is killed, no answer   *)
(* makes docker.run be called again for a container.                       *)
RequestedOnce ==
  [][ \A p \in Deployers : \A c \in Wanted(p) :
        run'[p][c] = "create" => run[p][c] \in { "none", "create" } ]_vars

(* A container that has ended, or that cannot be started, is removed as    *)
(* long as its deployer lives.                                             *)
LiveDeployerRemoves ==
  \A p \in Deployers : \A c \in Wanted(p) :
    /\ container[p][c] = "exited" ~> container[p][c] = "removed" \/ ~ Live(p)
    /\ container[p][c] = "created" ~>
         container[p][c] \in { "running", "removed" } \/ ~ Live(p)

=============================================================================

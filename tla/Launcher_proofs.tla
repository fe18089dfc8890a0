----------------------------- MODULE Launcher_proofs -----------------------------
(***************************************************************************)
(* For any number of deployers, components and instances: a live deployer  *)
(* forgets no container, and asks for each one once.                       *)
(***************************************************************************)
EXTENDS Launcher, TLAPS

Requests ==
  { "none", "create", "attach", "start", "wait", "remove", "done", "lost" }
TaskStates ==
  { "none", "list", "build", "building", "refused", "done", "lost" }
ContainerStates == { "none", "created", "running", "exited", "removed" }

(***************************************************************************)
(* The inductive invariant.  The stages of a deployer follow each other:   *)
(* nothing is open for the images before the network is answered, nothing  *)
(* for the containers of a component before its image is done, and there   *)
(* is no container before its creation was asked for.                      *)
(***************************************************************************)
NetworkFirst ==
  \A p \in Deployers :
    /\ proc[p] = "off" => net[p] = "none"
    /\ net[p] # "closed" => \A t \in Types : task[p][t] = "none"

ImageFirst ==
  \A p \in Deployers : \A c \in Instances :
    task[p][c[1]] # "done" => run[p][c] = "none"

CreationFirst ==
  \A p \in Deployers : \A c \in Instances :
    run[p][c] \in { "none", "create" } => container[p][c] = "none"

(* The request that fits the state of a container.                         *)
Fits(state, request) ==
  /\ state = "created" => request \in { "attach", "start", "remove" }
  /\ state = "running" => request = "wait"
  /\ state = "exited" => request \in { "wait", "remove" }

FollowedAll ==
  \A p \in Deployers : \A c \in Instances :
    Live(p) => Fits(container[p][c], run[p][c])

Stages == TypeOK /\ NetworkFirst /\ ImageFirst /\ CreationFirst

-----------------------------------------------------------------------------
(***************************************************************************)
(* What the helpers of the module change.                                  *)
(***************************************************************************)

(* AskRun changes the request of one instance.                             *)
LEMMA AskRunEffect ==
  ASSUME TypeOK, NEW p \in Deployers, NEW c \in Instances,
         NEW r \in Requests, AskRun(p, c, r)
  PROVE  /\ run' \in [ Deployers -> [ Instances -> Requests ] ]
         /\ run'[p][c] = IF Live(p) THEN r ELSE "lost"
         /\ \A q \in Deployers, d \in Instances :
              q # p \/ d # c => run'[q][d] = run[q][d]
BY DEF TypeOK, AskRun, Requests

(* AskTask changes the request for one image.                              *)
LEMMA AskTaskEffect ==
  ASSUME TypeOK, NEW p \in Deployers, NEW t \in Types,
         NEW r \in TaskStates, AskTask(p, t, r)
  PROVE  /\ task' \in [ Deployers -> [ Types -> TaskStates ] ]
         /\ task'[p][t] = IF Live(p) THEN r ELSE "lost"
         /\ \A q \in Deployers, u \in Types :
              q # p \/ u # t => task'[q][u] = task[q][u]
BY DEF TypeOK, AskTask, TaskStates

(* create_containers asks for the instances of one component.              *)
LEMMA CreateEffect ==
  ASSUME TypeOK, NEW p \in Deployers, NEW t \in Types, create_containers(p, t)
  PROVE  /\ run' \in [ Deployers -> [ Instances -> Requests ] ]
         /\ \A q \in Deployers, d \in Instances :
              \/ run'[q][d] = run[q][d]
              \/ q = p /\ d[1] = t /\ run'[q][d] = "create"
BY DEF TypeOK, create_containers, Requests

(* A change of one container.                                              *)
LEMMA ContainerEffect ==
  ASSUME TypeOK, NEW p \in Deployers, NEW c \in Instances,
         NEW x \in ContainerStates,
         container' = [ container EXCEPT ![p][c] = x ]
  PROVE  /\ container' \in [ Deployers -> [ Instances -> ContainerStates ] ]
         /\ container'[p][c] = x
         /\ \A q \in Deployers, d \in Instances :
              q # p \/ d # c => container'[q][d] = container[q][d]
BY DEF TypeOK, ContainerStates

(* The end of a deployer.                                                  *)
LEMMA DiesEffect ==
  ASSUME TypeOK, NEW p \in Deployers, Dies(p)
  PROVE  /\ proc' \in [ Deployers -> { "off", "live", "dead" } ]
         /\ proc'[p] = "dead"
         /\ \A q \in Deployers : q # p => proc'[q] = proc[q]
BY DEF TypeOK, Dies

(* The components of wanted instances are components.                      *)
LEMMA InstanceType ==
  ASSUME NEW p \in Deployers, NEW c \in Wanted(p)
  PROVE  c \in Instances /\ c[1] \in Types
BY DEF Wanted, Instances

(* The first state of the deployers and of the daemon.                     *)
LEMMA InitStages == Init => Stages /\ FollowedAll
BY DEF Init, Stages, TypeOK, NetworkFirst, ImageFirst, CreationFirst,
       FollowedAll, Fits, Live, Instances

-----------------------------------------------------------------------------
(***************************************************************************)
(* Every step keeps the order of the stages.                               *)
(***************************************************************************)

(* A step changes the request of an instance only after its image is done, *)
(* and a container only after its creation was asked for.                  *)
LEMMA NextStages == Stages /\ [Next]_vars => Stages'
<1> SUFFICES ASSUME Stages, [Next]_vars PROVE Stages'
  OBVIOUS
<1> USE DEF Stages
<1>1. CASE UNCHANGED vars
  BY <1>1 DEF vars, TypeOK, NetworkFirst, ImageFirst, CreationFirst
<1>2. CASE Next
  <2> PICK p \in Deployers : Launch(p) \/ Proceed(p)
    BY <1>2 DEF Next
  <2>1. CASE Launch(p)
    BY <2>1 DEF Launch, daemonVars, TypeOK, NetworkFirst, ImageFirst,
                CreationFirst
  <2>2. CASE create_network(p)
    <3>1. TypeOK'
      BY <2>2 DEF create_network, Dies, TypeOK
    <3>2. NetworkFirst'
      BY <2>2, <3>1 DEF create_network, Dies, TypeOK, NetworkFirst
    <3>3. ImageFirst'
      <4>1. \A q \in Deployers : q # p => task'[q] = task[q]
        BY <2>2 DEF create_network, TypeOK
      <4>2. \A c \in Instances : run[p][c] = "none"
        <5>1. net[p] # "closed"
          BY <2>2 DEF create_network
        <5>2. \A t \in Types : task[p][t] = "none"
          BY <5>1 DEF NetworkFirst
        <5> QED BY <5>2 DEF ImageFirst, Instances
      <4>3. run' = run
        BY <2>2 DEF create_network
      <4> QED BY <4>1, <4>2, <4>3 DEF ImageFirst
    <3>4. CreationFirst'
      BY <2>2 DEF create_network, CreationFirst
    <3> QED BY <3>1, <3>2, <3>3, <3>4
  <2>3. ASSUME NEW t \in Types, image(p, t)
        PROVE  Stages'
    <3>1. net[p] = "closed" /\ proc[p] # "off"
      BY <2>3 DEF image, Live, NetworkFirst, TypeOK
    <3>2. /\ task' \in [ Deployers -> [ Types -> TaskStates ] ]
          /\ \A q \in Deployers, u \in Types :
               q # p \/ u # t => task'[q][u] = task[q][u]
      <4>1. PICK r \in TaskStates : task' = [ task EXCEPT ![p][t] = r ]
        BY <2>3 DEF image, TaskStates
      <4> QED BY <4>1 DEF TypeOK, TaskStates
    <3>3. CASE imageName[p][t] \in images /\ task'[p][t] = "done"
                 /\ create_containers(p, t) /\ UNCHANGED proc
      <4>1. /\ run' \in [ Deployers -> [ Instances -> Requests ] ]
            /\ \A q \in Deployers, d \in Instances :
                 \/ run'[q][d] = run[q][d]
                 \/ q = p /\ d[1] = t /\ run'[q][d] = "create"
        BY <3>3, CreateEffect
      <4>0. UNCHANGED <<proc, net, networks, images, container>>
        BY <2>3, <3>3 DEF image, daemonVars
      <4>2. TypeOK'
        BY <3>2, <4>0, <4>1 DEF TypeOK, Requests, TaskStates
      <4>3. NetworkFirst'
        <5>1. proc' = proc /\ net' = net
          BY <4>0
        <5>2. \A q \in Deployers : q # p => \A u \in Types : task'[q][u] = task[q][u]
          BY <3>2
        <5> SUFFICES ASSUME NEW q \in Deployers
                     PROVE  /\ proc[q] = "off" => net[q] = "none"
                            /\ net[q] # "closed" =>
                                 \A u \in Types : task'[q][u] = "none"
          BY <5>1 DEF NetworkFirst
        <5>3. CASE q = p
          BY <3>1, <5>3
        <5>4. CASE q # p
          BY <5>2, <5>4 DEF NetworkFirst
        <5> QED BY <5>3, <5>4
      <4>4. ImageFirst'
        BY <3>2, <3>3, <4>1 DEF ImageFirst, Instances
      <4>5. CreationFirst'
        <5>1. task[p][t] = "list" BY <2>3 DEF image
        <5>2. \A d \in Instances : d[1] = t => run[p][d] = "none"
          BY <5>1 DEF ImageFirst
        <5>3. container' = container BY <4>0
        <5> QED BY <4>1, <5>2, <5>3 DEF CreationFirst
      <4> QED BY <4>2, <4>3, <4>4, <4>5
    <3>4. CASE /\ task'[p][t] \in { "build", "lost" } /\ UNCHANGED run
               /\ UNCHANGED proc \/ Dies(p)
      <4>0. /\ proc' \in [ Deployers -> { "off", "live", "dead" } ]
            /\ \A q \in Deployers : proc'[q] = "off" => proc[q] = "off"
        BY <3>4, DiesEffect DEF TypeOK
      <4>1. UNCHANGED <<net, run, networks, images, container>>
        BY <2>3, <3>4 DEF image, daemonVars
      <4>2. task[p][t] = "list"
        BY <2>3 DEF image
      <4>3. TypeOK'
        BY <3>2, <4>0, <4>1 DEF TypeOK, TaskStates
      <4>4. NetworkFirst'
        BY <3>1, <3>2, <4>0, <4>1 DEF NetworkFirst
      <4>5. ImageFirst'
        BY <3>2, <4>1, <4>2 DEF ImageFirst, Instances
      <4>6. CreationFirst'
        BY <4>1 DEF CreationFirst
      <4> QED BY <4>3, <4>4, <4>5, <4>6
    <3>5. ASSUME NEW r \in TaskStates, task' = [ task EXCEPT ![p][t] = r ]
          PROVE  task'[p][t] = r
      BY <3>5 DEF TypeOK
    <3>6. "done" \in TaskStates /\ "build" \in TaskStates /\ "lost" \in TaskStates
      BY DEF TaskStates
    <3>7. \/ /\ imageName[p][t] \in images
             /\ task' = [ task EXCEPT ![p][t] = "done" ]
             /\ create_containers(p, t) /\ UNCHANGED proc
          \/ task' = [ task EXCEPT ![p][t] = "build" ] /\ UNCHANGED <<proc, run>>
          \/ /\ task' = [ task EXCEPT ![p][t] = "lost" ]
             /\ Dies(p) /\ UNCHANGED run
      BY <2>3 DEF image
    <3> QED BY <3>3, <3>4, <3>5, <3>6, <3>7
  <2>4. ASSUME NEW t \in Types, buildImage(p, t)
        PROVE  Stages'
    <3>1. net[p] = "closed"
      BY <2>4 DEF buildImage, NetworkFirst, TypeOK
    <3>2. /\ task' \in [ Deployers -> [ Types -> TaskStates ] ]
          /\ \A q \in Deployers, u \in Types :
               task'[q][u] = task[q][u] \/ (q = p /\ task[q][u] = "build")
      BY <2>4, AskTaskEffect DEF buildImage, TaskStates
    <3>3. UNCHANGED <<proc, net, run, networks, images, container>>
      BY <2>4 DEF buildImage, daemonVars
    <3>4. TypeOK'
      BY <3>2, <3>3 DEF TypeOK, TaskStates
    <3>5. NetworkFirst'
      BY <3>1, <3>2, <3>3 DEF NetworkFirst
    <3>6. ImageFirst'
      BY <3>2, <3>3 DEF ImageFirst, Instances
    <3>7. CreationFirst'
      BY <3>3 DEF CreationFirst
    <3> QED BY <3>4, <3>5, <3>6, <3>7
  <2>5. ASSUME NEW t \in Types, endBuild(p, t)
        PROVE  Stages'
    <3>1. net[p] = "closed"
      BY <2>5 DEF endBuild, NetworkFirst, TypeOK
    <3>2. /\ task' \in [ Deployers -> [ Types -> TaskStates ] ]
          /\ task'[p][t] = IF Live(p) THEN "done" ELSE "lost"
          /\ \A q \in Deployers, u \in Types :
               q # p \/ u # t => task'[q][u] = task[q][u]
      BY <2>5, AskTaskEffect DEF endBuild, TaskStates
    <3>3. /\ run' \in [ Deployers -> [ Instances -> Requests ] ]
          /\ \A q \in Deployers, d \in Instances :
               \/ run'[q][d] = run[q][d]
               \/ Live(p) /\ q = p /\ d[1] = t /\ run'[q][d] = "create"
      <4>1. CASE Live(p) /\ create_containers(p, t)
        BY <4>1, CreateEffect
      <4>2. CASE UNCHANGED run
        BY <4>2 DEF TypeOK, Requests
      <4> QED BY <2>5, <4>1, <4>2 DEF endBuild
    <3>4. images' \subseteq Images
      <4>1. imageName[p][t] \in Images
        BY LauncherAssumption
      <4>2. images' = images \cup { imageName[p][t] } \/ images' = images
        BY <2>5 DEF endBuild
      <4> QED BY <4>1, <4>2 DEF TypeOK
    <3>5. TypeOK'
      BY <2>5, <3>2, <3>3, <3>4 DEF endBuild, TypeOK, Requests, TaskStates
    <3>6. NetworkFirst'
      <4>1. UNCHANGED <<proc, net>>
        BY <2>5 DEF endBuild
      <4> QED BY <3>1, <3>2, <4>1 DEF NetworkFirst
    <3>7. ImageFirst'
      <4>1. task[p][t] = "building"
        BY <2>5 DEF endBuild
      <4>2. ASSUME NEW q \in Deployers, NEW c \in Instances,
                   task'[q][c[1]] # "done"
            PROVE  run'[q][c] = "none"
        <5>1. c[1] \in Types
          BY DEF Instances
        <5>2. task[q][c[1]] # "done"
          BY <3>2, <4>1, <4>2, <5>1
        <5>3. run[q][c] = "none"
          BY <5>2 DEF ImageFirst
        <5> QED BY <3>2, <3>3, <4>2, <5>3
      <4> QED BY <4>2 DEF ImageFirst
    <3>8. CreationFirst'
      <4> SUFFICES ASSUME NEW q \in Deployers, NEW c \in Instances,
                          run'[q][c] \in { "none", "create" }
                   PROVE  container'[q][c] = "none"
        BY DEF CreationFirst
      <4>1. container' = container /\ task[p][t] = "building"
        BY <2>5 DEF endBuild
      <4>2. CASE run'[q][c] = run[q][c]
        BY <4>1, <4>2 DEF CreationFirst
      <4>3. CASE q = p /\ c[1] = t
        <5>1. run[q][c] = "none"
          BY <4>1, <4>3 DEF ImageFirst
        <5> QED BY <4>1, <5>1 DEF CreationFirst
      <4> QED BY <3>3, <4>2, <4>3
    <3> QED BY <3>5, <3>6, <3>7, <3>8
  <2>6. ASSUME NEW c \in Wanted(p), createContainer(p, c)
        PROVE  Stages'
    <3>1. c \in Instances /\ c[1] \in Types
      BY InstanceType
    <3>2. /\ run' \in [ Deployers -> [ Instances -> Requests ] ]
          /\ run'[p][c] \in { "attach", "lost" }
          /\ \A q \in Deployers, d \in Instances :
               q # p \/ d # c => run'[q][d] = run[q][d]
      BY <2>6, <3>1, AskRunEffect DEF createContainer, Requests
    <3>3. /\ container' \in [ Deployers -> [ Instances -> ContainerStates ] ]
          /\ \A q \in Deployers, d \in Instances :
               q # p \/ d # c => container'[q][d] = container[q][d]
      BY <2>6, <3>1, ContainerEffect
         DEF createContainer, ContainerStates, TypeOK
    <3>4. /\ proc' \in [ Deployers -> { "off", "live", "dead" } ]
          /\ \A q \in Deployers : proc'[q] = "off" => proc[q] = "off"
      BY <2>6, DiesEffect DEF createContainer, TypeOK
    <3>5. TypeOK'
      BY <2>6, <3>2, <3>3, <3>4
         DEF createContainer, TypeOK, Requests, ContainerStates
    <3>6. NetworkFirst'
      BY <2>6, <3>4 DEF createContainer, NetworkFirst
    <3>7. ImageFirst'
      BY <2>6, <3>1, <3>2 DEF createContainer, ImageFirst
    <3>8. CreationFirst'
      BY <3>2, <3>3 DEF CreationFirst
    <3> QED BY <3>5, <3>6, <3>7, <3>8
  <2>7. ASSUME NEW c \in Wanted(p),
               attach(p, c) \/ start(p, c) \/ wait(p, c) \/ remove(p, c)
                 \/ Exit(p, c)
        PROVE  Stages'
    <3>1. c \in Instances /\ c[1] \in Types
      BY InstanceType
    <3>2. run[p][c] \notin { "none", "create" }
      BY <2>7, <3>1 DEF attach, start, wait, remove, Exit, CreationFirst
    <3>3. /\ run' \in [ Deployers -> [ Instances -> Requests ] ]
          /\ run'[p][c] \notin { "none", "create" }
          /\ \A q \in Deployers, d \in Instances :
               q # p \/ d # c => run'[q][d] = run[q][d]
      <4>1. CASE attach(p, c)
        BY <4>1, <3>1, AskRunEffect DEF attach, Requests
      <4>2. CASE start(p, c)
        BY <4>2, <3>1, AskRunEffect DEF start, Requests
      <4>3. CASE wait(p, c)
        BY <4>3, <3>1 DEF wait, TypeOK, Requests
      <4>4. CASE remove(p, c)
        BY <4>4, <3>1, AskRunEffect DEF remove, Requests
      <4>5. CASE Exit(p, c)
        BY <4>5, <3>1, <3>2 DEF Exit, TypeOK, Requests
      <4> QED BY <2>7, <4>1, <4>2, <4>3, <4>4, <4>5
    <3>4. /\ container' \in [ Deployers -> [ Instances -> ContainerStates ] ]
          /\ \A q \in Deployers, d \in Instances :
               q # p \/ d # c => container'[q][d] = container[q][d]
      BY <2>7, <3>1, ContainerEffect
         DEF attach, start, wait, remove, Exit, daemonVars, ContainerStates,
             TypeOK
    <3>5. UNCHANGED <<proc, net, task, networks, images>>
      BY <2>7 DEF attach, start, wait, remove, Exit, daemonVars
    <3>6. TypeOK'
      BY <3>3, <3>4, <3>5 DEF TypeOK, Requests, ContainerStates
    <3>7. NetworkFirst'
      BY <3>5 DEF NetworkFirst
    <3>8. ImageFirst'
      BY <3>1, <3>2, <3>3, <3>5 DEF ImageFirst
    <3>9. CreationFirst'
      BY <3>3, <3>4 DEF CreationFirst
    <3> QED BY <3>6, <3>7, <3>8, <3>9
  <2>8. CASE Kill(p)
    <3>1. /\ proc' \in [ Deployers -> { "off", "live", "dead" } ]
          /\ \A q \in Deployers : proc'[q] = "off" => proc[q] = "off"
      BY <2>8, DiesEffect DEF Kill, TypeOK
    <3> QED
      BY <2>8, <3>1
         DEF Kill, daemonVars, TypeOK, NetworkFirst, ImageFirst, CreationFirst
  <2> QED
    BY <2>1, <2>2, <2>3, <2>4, <2>5, <2>6, <2>7, <2>8
       DEF Proceed, ImageStep, RunStep
<1> QED BY <1>1, <1>2

(* The order of the stages is an invariant.                                *)
LEMMA StagesHold == Spec => []Stages
<1>1. Init => Stages
  BY InitStages
<1> QED BY <1>1, NextStages, PTL DEF Spec

(* Type correctness of the deployers and of the daemon, for every number   *)
(* of deployers and every set of faults.                                   *)
THEOREM LauncherTypes == Spec => []TypeOK
<1>1. Stages => TypeOK
  BY DEF Stages
<1> QED BY <1>1, StagesHold, PTL

-----------------------------------------------------------------------------
(***************************************************************************)
(* docker.run is called once for an instance.                              *)
(***************************************************************************)

(* A step that asks for the creation of a container is the one that makes  *)
(* its image done, and before it nothing was asked for the container.      *)
LEMMA CreateIsFirst ==
  ASSUME Stages, [Next]_vars, NEW p \in Deployers, NEW c \in Wanted(p),
         run'[p][c] = "create"
  PROVE  run[p][c] \in { "none", "create" }
<1> USE DEF Stages
<1>1. CASE UNCHANGED vars
  BY <1>1 DEF vars
<1>2. CASE Next
  <2> c \in Instances /\ c[1] \in Types
    BY InstanceType
  <2> PICK q \in Deployers : Launch(q) \/ Proceed(q)
    BY <1>2 DEF Next
  <2>1. CASE Launch(q) \/ create_network(q) \/ Kill(q)
    BY <2>1 DEF Launch, create_network, Kill
  <2>2. ASSUME NEW t \in Types, ImageStep(q, t)
        PROVE  run[p][c] \in { "none", "create" }
    <3>1. task[q][t] # "done"
      BY <2>2 DEF ImageStep, image, buildImage, endBuild
    <3>2. run' = run \/ create_containers(q, t)
      BY <2>2 DEF ImageStep, image, buildImage, endBuild
    <3>3. CASE create_containers(q, t)
      <4>1. run'[p][c] = run[p][c] \/ (p = q /\ c[1] = t)
        BY <3>3, CreateEffect
      <4> QED BY <3>1, <4>1 DEF ImageFirst
    <3> QED BY <3>2, <3>3
  <2>3. ASSUME NEW d \in Wanted(q), RunStep(q, d) \/ Exit(q, d)
        PROVE  run[p][c] \in { "none", "create" }
    <3> d \in Instances
      BY InstanceType
    <3>1. CASE wait(q, d) \/ Exit(q, d)
      <4>1. CASE run' = run
        BY <4>1
      <4>2. CASE run' = [ run EXCEPT ![q][d] = "remove" ]
        <5>1. run'[q][d] = "remove"
          BY <4>2 DEF TypeOK
        <5>2. p # q \/ c # d => run'[p][c] = run[p][c]
          BY <4>2 DEF TypeOK
        <5> QED BY <5>1, <5>2
      <4> QED BY <3>1, <4>1, <4>2 DEF wait, Exit
    <3>2. CASE \E r \in Requests \ { "create" } : AskRun(q, d, r)
      <4>1. PICK r \in Requests \ { "create" } : AskRun(q, d, r)
        BY <3>2
      <4>2. run'[q][d] # "create"
        BY <4>1, AskRunEffect
      <4> QED BY <4>1, <4>2, AskRunEffect
    <3>3. createContainer(q, d) \/ attach(q, d) \/ start(q, d) \/ remove(q, d)
            => \E r \in Requests \ { "create" } : AskRun(q, d, r)
      BY DEF createContainer, attach, start, remove, Requests
    <3> QED BY <2>3, <3>1, <3>2, <3>3 DEF RunStep
  <2> QED BY <2>1, <2>2, <2>3 DEF Proceed
<1> QED BY <1>1, <1>2

(* Whatever the faults and whoever dies, docker.run is called at most once *)
(* for every instance of a deployment.                                     *)
THEOREM InstancesAreRequestedOnce == Spec => RequestedOnce
<1>1. Stages /\ [Next]_vars =>
        [ \A p \in Deployers : \A c \in Wanted(p) :
            run'[p][c] = "create" => run[p][c] \in { "none", "create" } ]_vars
  BY CreateIsFirst
<1> QED BY <1>1, StagesHold, PTL DEF Spec, RequestedOnce

-----------------------------------------------------------------------------
(***************************************************************************)
(* No container of a live deployer is forgotten.                           *)
(***************************************************************************)

(* A step of the run of one container leaves it with a request that fits.  *)
LEMMA RunFits ==
  ASSUME Stages, FollowedAll, "wait" \notin Faults,
         NEW p \in Deployers, NEW c \in Wanted(p),
         RunStep(p, c) \/ Exit(p, c), Live(p)'
  PROVE  Live(p) /\ Fits(container'[p][c], run'[p][c])
<1> USE DEF Stages
<1>0. c \in Instances
  BY InstanceType
<1>1. Live(p)
  BY <1>0, DiesEffect
     DEF RunStep, createContainer, attach, start, wait, remove, Exit, Live
<1>2. Fits(container[p][c], run[p][c])
  BY <1>0, <1>1 DEF FollowedAll
<1>3. CASE createContainer(p, c)
  <2>1. proc'[p] # "dead"
    BY DEF Live
  <2>2. AskRun(p, c, "attach") /\ container' = [ container EXCEPT ![p][c] = "created" ]
    BY <1>3, <2>1, DiesEffect DEF createContainer
  <2>3. run'[p][c] = "attach"
    BY <1>0, <1>1, <2>2, AskRunEffect DEF Requests
  <2>4. container'[p][c] = "created"
    BY <1>0, <2>2, ContainerEffect DEF ContainerStates
  <2> QED BY <1>1, <2>3, <2>4 DEF Fits
<1>4. CASE attach(p, c)
  <2>1. run'[p][c] \in { "start", "remove" }
    BY <1>0, <1>1, <1>4, AskRunEffect DEF attach, Requests
  <2>2. container' = container /\ run[p][c] = "attach"
    BY <1>4 DEF attach, daemonVars
  <2> QED BY <1>1, <1>2, <2>1, <2>2 DEF Fits
<1>5. CASE start(p, c)
  <2>1. CASE AskRun(p, c, "wait")
             /\ container' = [ container EXCEPT ![p][c] = "running" ]
    <3>1. run'[p][c] = "wait"
      BY <1>0, <1>1, <2>1, AskRunEffect DEF Requests
    <3>2. container'[p][c] = "running"
      BY <1>0, <2>1, ContainerEffect DEF ContainerStates
    <3> QED BY <1>1, <3>1, <3>2 DEF Fits
  <2>2. CASE AskRun(p, c, "remove") /\ UNCHANGED container
    <3>1. run'[p][c] = "remove"
      BY <1>0, <1>1, <2>2, AskRunEffect DEF Requests
    <3>2. run[p][c] = "start"
      BY <1>5 DEF start
    <3> QED BY <1>1, <1>2, <2>2, <3>1, <3>2 DEF Fits
  <2> QED BY <1>5, <2>1, <2>2 DEF start
<1>6. CASE wait(p, c)
  <2>1. run'[p][c] = "remove" /\ run[p][c] = "wait" /\ container' = container
    BY <1>0, <1>6 DEF wait, TypeOK, daemonVars
  <2>2. container[p][c] # "running"
    BY <1>6 DEF wait
  <2> QED BY <1>1, <1>2, <2>1, <2>2 DEF Fits
<1>7. CASE remove(p, c)
  <2>1. run[p][c] = "remove" /\ container[p][c] # "running"
    BY <1>2, <1>7 DEF remove, Fits
  <2>2. container'[p][c] = "removed"
    BY <1>0, <1>7, <2>1, ContainerEffect DEF remove, ContainerStates
  <2> QED BY <1>1, <2>2 DEF Fits
<1>8. CASE Exit(p, c)
  <2>1. run[p][c] = "wait" /\ run' = run
    BY <1>2, <1>8 DEF Exit, Fits
  <2>2. container'[p][c] = "exited"
    BY <1>0, <1>8, ContainerEffect DEF Exit, ContainerStates
  <2> QED BY <1>1, <2>1, <2>2 DEF Fits
<1> QED
  BY <1>3, <1>4, <1>5, <1>6, <1>7, <1>8 DEF RunStep

(* A step of the run of one container changes no other container.          *)
LEMMA RunIsLocal ==
  ASSUME Stages, NEW p \in Deployers, NEW c \in Wanted(p),
         RunStep(p, c) \/ Exit(p, c)
  PROVE  \A q \in Deployers, d \in Instances :
           /\ q # p \/ d # c => /\ run'[q][d] = run[q][d]
                               /\ container'[q][d] = container[q][d]
           /\ proc'[q] = "live" => proc[q] = "live"
<1> USE DEF Stages
<1>0. c \in Instances
  BY InstanceType
<1>1. \A q \in Deployers : proc'[q] = "live" => proc[q] = "live"
  BY DiesEffect
     DEF RunStep, createContainer, attach, start, wait, remove, Exit
<1>2. \A q \in Deployers, d \in Instances :
        q # p \/ d # c => run'[q][d] = run[q][d]
  <2>1. CASE wait(p, c) \/ Exit(p, c)
    BY <1>0, <2>1 DEF wait, Exit, TypeOK
  <2>2. CASE \E r \in Requests : AskRun(p, c, r)
    BY <1>0, <2>2, AskRunEffect
  <2>3. createContainer(p, c) \/ attach(p, c) \/ start(p, c) \/ remove(p, c)
          => \E r \in Requests : AskRun(p, c, r)
    BY DEF createContainer, attach, start, remove, Requests
  <2> QED BY <2>1, <2>2, <2>3 DEF RunStep
<1>3. \A q \in Deployers, d \in Instances :
        q # p \/ d # c => container'[q][d] = container[q][d]
  <2>1. \/ container' = container
        \/ \E x \in ContainerStates :
             container' = [ container EXCEPT ![p][c] = x ]
    BY DEF RunStep, createContainer, attach, start, wait, remove, Exit,
           daemonVars, ContainerStates
  <2> QED BY <1>0, <2>1, ContainerEffect
<1> QED BY <1>1, <1>2, <1>3

(* Before a deployer is launched it has no containers.                     *)
LEMMA OffHasNothing ==
  ASSUME Stages, NEW p \in Deployers, proc[p] = "off", NEW c \in Instances
  PROVE  container[p][c] = "none" /\ run[p][c] = "none"
<1>1. c[1] \in Types
  BY DEF Instances
<1>2. task[p][c[1]] = "none"
  BY <1>1 DEF Stages, NetworkFirst
<1>3. run[p][c] = "none"
  BY <1>2 DEF Stages, ImageFirst
<1> QED BY <1>3 DEF Stages, CreationFirst

(* Unless container.wait fails while the container runs, every step leaves *)
(* the containers of live deployers with a request that fits.              *)
LEMMA NextFollowed ==
  ASSUME "wait" \notin Faults
  PROVE  Stages /\ FollowedAll /\ [Next]_vars => FollowedAll'
<1> SUFFICES ASSUME Stages, FollowedAll, [Next]_vars,
                    NEW q \in Deployers, NEW d \in Instances, Live(q)'
             PROVE  Fits(container'[q][d], run'[q][d])
  BY DEF FollowedAll, Fits
<1>1. CASE UNCHANGED vars
  BY <1>1 DEF vars, FollowedAll, Live
<1>2. CASE Next
  <2> PICK p \in Deployers : Launch(p) \/ Proceed(p)
    BY <1>2 DEF Next
  <2>1. CASE Launch(p)
    <3>1. run' = run /\ container' = container /\ proc[p] = "off"
      BY <2>1 DEF Launch, daemonVars
    <3>2. CASE q = p
      BY <3>1, <3>2, OffHasNothing DEF Fits
    <3>3. CASE q # p
      BY <2>1, <3>1, <3>3 DEF Launch, FollowedAll, Live, Stages, TypeOK
    <3> QED BY <3>2, <3>3
  <2>2. CASE create_network(p) \/ Kill(p)
    <3>1. run' = run /\ container' = container
      BY <2>2 DEF create_network, Kill, daemonVars
    <3>2. proc[q] = "live"
      BY <2>2, DiesEffect DEF create_network, Kill, Live, Stages
    <3> QED BY <3>1, <3>2 DEF FollowedAll, Live
  <2>3. ASSUME NEW t \in Types, ImageStep(p, t)
        PROVE  Fits(container'[q][d], run'[q][d])
    <3>0. container' = container /\ (proc' = proc \/ Dies(p))
      BY <2>3 DEF ImageStep, image, buildImage, endBuild, daemonVars
    <3>1. container' = container /\ Live(q)
      BY <3>0, DiesEffect DEF Live, Stages
    <3>2. task[p][t] # "done"
      BY <2>3 DEF ImageStep, image, buildImage, endBuild
    <3>3. run' = run \/ create_containers(p, t)
      BY <2>3 DEF ImageStep, image, buildImage, endBuild
    <3>4. run'[q][d] = run[q][d] \/ (q = p /\ d[1] = t)
      BY <3>3, CreateEffect DEF Stages
    <3>5. CASE q = p /\ d[1] = t
      BY <3>1, <3>2, <3>5 DEF Fits, Stages, ImageFirst, CreationFirst
    <3>6. CASE run'[q][d] = run[q][d]
      BY <3>1, <3>6 DEF FollowedAll, Live
    <3> QED BY <3>4, <3>5, <3>6
  <2>4. ASSUME NEW c \in Wanted(p), RunStep(p, c) \/ Exit(p, c)
        PROVE  Fits(container'[q][d], run'[q][d])
    <3>1. CASE q = p /\ d = c
      BY <2>4, <3>1, RunFits
    <3>2. CASE q # p \/ d # c
      BY <2>4, <3>2, RunIsLocal DEF FollowedAll, Live
    <3> QED BY <3>1, <3>2
  <2> QED BY <2>1, <2>2, <2>3, <2>4 DEF Proceed
<1> QED BY <1>1, <1>2

(* A request that fits is one of those that Followed names.                *)
LEMMA FitsFollowed == Stages /\ FollowedAll => Followed
<1> SUFFICES ASSUME Stages, FollowedAll, NEW p \in Deployers,
                    NEW c \in Wanted(p), Live(p),
                    container[p][c] \in Existing
             PROVE  run[p][c] \in
                      CASE container[p][c] = "created" ->
                             { "attach", "start", "remove" }
                        [] container[p][c] = "running" -> { "wait" }
                        [] container[p][c] = "exited" -> { "wait", "remove" }
  BY DEF Followed
<1>1. Fits(container[p][c], run[p][c])
  BY InstanceType DEF FollowedAll
<1> QED BY <1>1 DEF Fits, Existing

(* A live deployer forgets no container, whatever else is refused, if      *)
(* container.wait answers for the containers that run.                     *)
THEOREM ContainersAreFollowed ==
  ASSUME "wait" \notin Faults
  PROVE  Spec => []Followed
<1>1. Init => Stages /\ FollowedAll
  BY InitStages
<1>2. Stages /\ FollowedAll /\ [Next]_vars => FollowedAll'
  BY NextFollowed
<1>3. Stages /\ FollowedAll => Followed
  BY FitsFollowed
<1> QED BY <1>1, <1>2, <1>3, NextStages, PTL DEF Spec

=============================================================================

---------------------------- MODULE ServiceRegistry ----------------------------
(***************************************************************************)
(* The synchronous half of src/Deployer.js, from the start of the process  *)
(* to the call of create_network: the three JSON databases of ./DB, the    *)
(* extraction of the service into ./Files and the choice of the name of    *)
(* the new instance.                                                       *)
(*                                                                         *)
(* Several deployers may run over the same directory.  A deployer reads    *)
(* the databases once, when it starts, and later writes back its own copy. *)
(* What one process does between two operations on the file system is one  *)
(* step; fs.writeFileSync is two operations, the truncation of the file    *)
(* and the write of its text.                                              *)
(***************************************************************************)
EXTENDS InstanceNames, Sequences

CONSTANTS
  Deployers,        \* the runs of Deployer.js
  Components,       \* the URIs of components
  Params,           \* the names of parameters
  deployedURI,      \* deployedURI[p]: deployment.ServiceURI of the run p
  webDeployments,   \* the runs whose deployment.serviceURL contains "http"
  configuration,    \* configuration[p]: deployment.configuration of the run p
  params,           \* params[s]: the parameters service.params of s
  components,       \* components[s]: the URIs of service.components, in order
  Null,             \* the JSON value null
  NoName,           \* ServiceIDName before it is assigned
  Exclusive,        \* no two runs are in this half at the same time
  Faults            \* what may go wrong: a subset of AllFaults

AllFaults == { "crash", "extract", "slow flush" }

ASSUME RegistryAssumption ==
  /\ deployedURI \in [ Deployers -> Services ]
  /\ webDeployments \subseteq Deployers
  /\ params \in [ Services -> SUBSET Params ]
  /\ \A p \in Deployers : DOMAIN configuration[p] \subseteq Params
  /\ components \in [ Services -> Seq(Components) ]
  /\ NoName \notin Names
  /\ Exclusive \in BOOLEAN
  /\ Faults \subseteq AllFaults

(***************************************************************************)
(* A database is the set of its entries << key, value >>.  A path is known *)
(* by the URI of the service below whose directory it lies: the value of   *)
(* an entry of ServiceURI.json or ComponentURI.json is that URI.           *)
(***************************************************************************)
DBs == << "ServiceURI", "ComponentURI", "ServicesRuning" >>
Files == { "ServiceURI", "ComponentURI", "ServicesRuning" }

Entries == (Services \cup Components \cup Names) \X Services
KeysOf(db) == { e[1] : e \in db }

VARIABLES
  status,      \* status[f]: "absent", "empty", "json" or "torn" (no JSON)
  disk,        \* disk[f]: the entries of the file f
  mem,         \* mem[p][f]: the copy of f in the process p
  pc,          \* pc[p]: the function p is in
  at,          \* at[p]: which database check_DB is opening
  extracted,   \* the services whose files are complete in ./Files
  unpacking,   \* the deployers whose extraction is still writing files
  name         \* name[p]: ServiceIDName

vars == << status, disk, mem, pc, at, extracted, unpacking, name >>

dbVars == << status, disk >>
fileVars == << extracted, unpacking >>

-----------------------------------------------------------------------------

(* The states in which a run is not in this half of the program.           *)
Settled == { "off", "create_network", "exit", "dead" }

(* The others: where a run is between two operations on the file system.   *)
Running ==
  { "check_DB", "create", "write new", "require", "check_service_uri",
    "extract", "timeout", "write service", "read_Service_Json",
    "check_component_uri", "write component", "write runing" }

Goto(p, label) == pc' = [ pc EXCEPT ![p] = label ]

(* fs.writeFileSync: open(f, "w") empties the file...                      *)
Truncate(f) ==
  /\ status' = [ status EXCEPT ![f] = "empty" ]
  /\ disk' = [ disk EXCEPT ![f] = {} ]

(* ... and the text is written from the start of the file.  When another   *)
(* process has written its own text since, the end of that text may        *)
(* survive after the new one, and the file is no JSON.                     *)
WriteText(f, db) ==
  \/ /\ status' = [ status EXCEPT ![f] = "json" ]
     /\ disk' = [ disk EXCEPT ![f] = db ]
  \/ /\ status[f] \in { "json", "torn" }
     /\ status[f] = "json" => disk[f] # db
     /\ status' = [ status EXCEPT ![f] = "torn" ]
     /\ disk' = [ disk EXCEPT ![f] = {} ]

-----------------------------------------------------------------------------

Init ==
  /\ status = [ f \in Files |-> "absent" ]
  /\ disk = [ f \in Files |-> {} ]
  /\ mem = [ p \in Deployers |-> [ f \in Files |-> {} ] ]
  /\ pc = [ p \in Deployers |-> "off" ]
  /\ at = [ p \in Deployers |-> 1 ]
  /\ extracted = {}
  /\ unpacking = {}
  /\ name = [ p \in Deployers |-> NoName ]

(* node Deployer.js                                                        *)
Start(p) ==
  /\ pc[p] = "off"
  /\ Exclusive => \A q \in Deployers : pc[q] \in Settled
  /\ Goto(p, "check_DB")
  /\ UNCHANGED <<dbVars, mem, at, fileVars, name>>

(* check_DB: if (!fs.existsSync(fileToRead)).  The directory ./DB exists.  *)
FindDB(p) ==
  LET f == DBs[at[p]] IN
  /\ pc[p] = "check_DB"
  /\ Goto(p, IF status[f] = "absent" THEN "create" ELSE "require")
  /\ UNCHANGED <<dbVars, mem, at, fileVars, name>>

OpenNewDB(p) ==
  /\ pc[p] = "create"
  /\ Truncate(DBs[at[p]])
  /\ Goto(p, "write new")
  /\ UNCHANGED <<mem, at, fileVars, name>>

WriteNewDB(p) ==
  /\ pc[p] = "write new"
  /\ WriteText(DBs[at[p]], {})
  /\ Goto(p, "require")
  /\ UNCHANGED <<mem, at, fileVars, name>>

(* Mutation: a database that is no JSON is waited for.                     *)
RequireWaiting(p) ==
  LET f == DBs[at[p]] IN
  /\ pc[p] = "require"
  /\ status[f] = "json"
  /\ mem' = [ mem EXCEPT ![p][f] = disk[f] ]
  /\ \/ /\ at[p] < 3
        /\ at' = [ at EXCEPT ![p] = @ + 1 ]
        /\ Goto(p, "check_DB")
     \/ /\ at[p] = 3
        /\ Goto(p, "check_service_uri")
        /\ UNCHANGED at
  /\ UNCHANGED <<dbVars, fileVars, name>>

(* return require(fileToRead): a file that is no JSON throws.              *)
RequireDB(p) ==
  LET f == DBs[at[p]] IN
  /\ pc[p] = "require"
  /\ \/ /\ status[f] = "json"
        /\ mem' = [ mem EXCEPT ![p][f] = disk[f] ]
        /\ \/ /\ at[p] < 3
              /\ at' = [ at EXCEPT ![p] = @ + 1 ]
              /\ Goto(p, "check_DB")
           \/ /\ at[p] = 3
              /\ Goto(p, "check_service_uri")
              /\ UNCHANGED at
     \/ /\ status[f] # "json"
        /\ Goto(p, "dead")
        /\ UNCHANGED <<mem, at>>
  /\ UNCHANGED <<dbVars, fileVars, name>>

(* deployment.ServiceURI in ServiceURI_DB                                  *)
KnownService(p) ==
  /\ pc[p] = "check_service_uri"
  /\ deployedURI[p] \in KeysOf(mem[p]["ServiceURI"])
  /\ Goto(p, "read_Service_Json")
  /\ UNCHANGED <<dbVars, mem, at, fileVars, name>>

(* The entry is made in the copy of the process, then the URL is looked at:*)
(* a web URL ends the process, a local one starts the extraction.          *)
NewService(p) ==
  LET s == deployedURI[p] IN
  /\ pc[p] = "check_service_uri"
  /\ s \notin KeysOf(mem[p]["ServiceURI"])
  /\ mem' = [ mem EXCEPT ![p]["ServiceURI"] = @ \cup { << s, s >> } ]
  /\ \/ /\ p \in webDeployments
        /\ Goto(p, "exit")
        /\ UNCHANGED fileVars
     \/ /\ p \notin webDeployments
        /\ Goto(p, "extract")
        /\ extracted' = extracted \ { s }
        /\ unpacking' = unpacking \cup { p }
  /\ UNCHANGED <<dbVars, at, name>>

(* The last file of the archive reaches the disk.  The directory is        *)
(* complete unless another process is rewriting it.                        *)
Flush(p) ==
  LET s == deployedURI[p] IN
  /\ p \in unpacking
  /\ unpacking' = unpacking \ { p }
  /\ \/ /\ \A q \in unpacking \ { p } : deployedURI[q] # s
        /\ extracted' = extracted \cup { s }
     \/ /\ \E q \in unpacking \ { p } : deployedURI[q] = s
        /\ UNCHANGED extracted
  /\ UNCHANGED <<dbVars, mem, pc, at, name>>

(* The callback of targz().extract.  An error is logged and the callback   *)
(* goes on all the same: setTimeout(..., 2000).                            *)
ExtractCallback(p) ==
  /\ pc[p] = "extract"
  /\ \/ UNCHANGED fileVars
     \/ /\ "extract" \in Faults
        /\ p \in unpacking
        /\ unpacking' = unpacking \ { p }
        /\ UNCHANGED extracted
  /\ Goto(p, "timeout")
  /\ UNCHANGED <<dbVars, mem, at, name>>

(* The timer.  The code counts on two seconds being enough for the files   *)
(* to be on the disk; they may not be when the fault "slow flush" is on.   *)
SaveService(p) ==
  /\ pc[p] = "timeout"
  /\ p \in unpacking => "slow flush" \in Faults
  /\ Truncate("ServiceURI")
  /\ Goto(p, "write service")
  /\ UNCHANGED <<mem, at, fileVars, name>>

WriteService(p) ==
  /\ pc[p] = "write service"
  /\ WriteText("ServiceURI", mem[p]["ServiceURI"])
  /\ Goto(p, "read_Service_Json")
  /\ UNCHANGED <<mem, at, fileVars, name>>

(* check_Deployer_Parametres: a parameter of the deployment that the       *)
(* service does not have, or that is null, ends the process.               *)
RejectsParametres(p) ==
  \E i \in DOMAIN configuration[p] :
    \/ i \notin params[deployedURI[p]]
    \/ configuration[p][i] = Null

(* require(.../service.json) and check_Deployer_Parametres.  The require   *)
(* throws when the file is not there; it may be there although other files *)
(* of the service are not.                                                 *)
read_Service_Json(p) ==
  /\ pc[p] = "read_Service_Json"
  /\ \/ /\ deployedURI[p] \notin extracted
        /\ Goto(p, "dead")
     \/ /\ RejectsParametres(p)
        /\ Goto(p, "exit")
     \/ /\ ~ RejectsParametres(p)
        /\ Goto(p, "check_component_uri")
  /\ UNCHANGED <<dbVars, mem, at, fileVars, name>>

(* The positions of the components of p that its copy does not have.       *)
Missing(p) ==
  { n \in 1 .. Len(components[deployedURI[p]]) :
      components[deployedURI[p]][n] \notin KeysOf(mem[p]["ComponentURI"]) }

(* The loop of check_component_uri comes to the next component that is not *)
(* in the database, adds it and saves the whole database.                  *)
SaveComponent(p) ==
  LET s == deployedURI[p] IN
  /\ pc[p] = "check_component_uri"
  /\ \E n \in Missing(p) :
       /\ \A k \in Missing(p) : n <= k
       /\ mem' = [ mem EXCEPT ![p]["ComponentURI"] =
                                @ \cup { << components[s][n], s >> } ]
  /\ Truncate("ComponentURI")
  /\ Goto(p, "write component")
  /\ UNCHANGED <<at, fileVars, name>>

WriteComponent(p) ==
  /\ pc[p] = "write component"
  /\ WriteText("ComponentURI", mem[p]["ComponentURI"])
  /\ Goto(p, "check_component_uri")
  /\ UNCHANGED <<mem, at, fileVars, name>>

(* Mutation: the counter starts at one.                                    *)
NameFromOne(p) ==
  LET s == deployedURI[p]
      keys == KeysOf(mem[p]["ServicesRuning"]) IN
  /\ pc[p] = "check_component_uri"
  /\ Missing(p) = {}
  /\ \E c \in Count \ { 0 } :
       /\ FirstFree(s, c, keys \cup { InstanceName(s, 0) })
       /\ name' = [ name EXCEPT ![p] = InstanceName(s, c) ]
       /\ mem' = [ mem EXCEPT ![p]["ServicesRuning"] =
                                @ \cup { << InstanceName(s, c), s >> } ]
  /\ Truncate("ServicesRuning")
  /\ Goto(p, "write runing")
  /\ UNCHANGED <<at, fileVars>>

(* Mutation: the new entry is not made before the save.                    *)
NameNotEntered(p) ==
  /\ pc[p] = "check_component_uri"
  /\ Missing(p) = {}
  /\ \E c \in Count :
       /\ FirstFree(deployedURI[p], c, KeysOf(mem[p]["ServicesRuning"]))
       /\ name' = [ name EXCEPT ![p] = InstanceName(deployedURI[p], c) ]
  /\ Truncate("ServicesRuning")
  /\ Goto(p, "write runing")
  /\ UNCHANGED <<mem, at, fileVars>>

(* check_Service_Runing_DB: the scan of RuningScan over the copy of the    *)
(* process, the new entry, and the start of the save.                      *)
check_Service_Runing_DB(p) ==
  LET s == deployedURI[p] IN
  /\ pc[p] = "check_component_uri"
  /\ Missing(p) = {}
  /\ \E c \in Count :
       /\ FirstFree(s, c, KeysOf(mem[p]["ServicesRuning"]))
       /\ name' = [ name EXCEPT ![p] = InstanceName(s, c) ]
       /\ mem' = [ mem EXCEPT ![p]["ServicesRuning"] =
                                @ \cup { << InstanceName(s, c), s >> } ]
  /\ Truncate("ServicesRuning")
  /\ Goto(p, "write runing")
  /\ UNCHANGED <<at, fileVars>>

WriteRuning(p) ==
  /\ pc[p] = "write runing"
  /\ WriteText("ServicesRuning", mem[p]["ServicesRuning"])
  /\ Goto(p, "create_network")
  /\ UNCHANGED <<mem, at, fileVars, name>>

(* The process is killed, or the machine stops.                            *)
Crash(p) ==
  /\ "crash" \in Faults
  /\ pc[p] \notin Settled
  /\ Goto(p, "dead")
  /\ unpacking' = unpacking \ { p }
  /\ UNCHANGED <<dbVars, mem, at, extracted, name>>

Step(p) ==
  \/ FindDB(p) \/ OpenNewDB(p) \/ WriteNewDB(p) \/ RequireDB(p)
  \/ KnownService(p) \/ NewService(p) \/ Flush(p) \/ ExtractCallback(p)
  \/ SaveService(p) \/ WriteService(p) \/ read_Service_Json(p)
  \/ SaveComponent(p) \/ WriteComponent(p)
  \/ check_Service_Runing_DB(p) \/ WriteRuning(p)

Next == \E p \in Deployers : Start(p) \/ Step(p) \/ Crash(p)

Spec == Init /\ [][Next]_vars /\ \A p \in Deployers : WF_vars(Step(p))

-----------------------------------------------------------------------------
(***************************************************************************)
(* Properties                                                              *)
(***************************************************************************)

(* The types of the files of ./DB and of the variables of a deployer.      *)
TypeOK ==
  /\ status \in [ Files -> { "absent", "empty", "json", "torn" } ]
  /\ disk \in [ Files -> SUBSET Entries ]
  /\ mem \in [ Deployers -> [ Files -> SUBSET Entries ] ]
  /\ pc \in [ Deployers -> Settled \cup Running ]
  /\ at \in [ Deployers -> 1 .. 3 ]
  /\ extracted \subseteq Services
  /\ unpacking \subseteq Deployers
  /\ name \in [ Deployers -> Names \cup { NoName } ]

(* The names of the instances are distinct: the name of the network and of *)
(* the containers of a deployment is its own, "aunque ejecute dos veces el *)
(* mismo servicio" (the comment on runContenedor).                         *)
NamesAreUnique ==
  \A p, q \in Deployers :
    p # q /\ name[p] # NoName => name[p] # name[q]

(* An instance that reached Docker is recorded, whenever the file of       *)
(* running services can be read: no later save of a deployer drops it.     *)
RunningIsRecorded ==
  status["ServicesRuning"] = "json" =>
    \A p \in Deployers :
      pc[p] = "create_network" => name[p] \in KeysOf(disk["ServicesRuning"])

(* Where a service is entered with a count, every lower count is a key.    *)
Dense(db) ==
  \A e \in db : \E c \in Count :
    /\ e[1] = InstanceName(e[2], c)
    /\ \A d \in Count : d < c => InstanceName(e[2], d) \in KeysOf(db)

(* The counts of a database of running services have no gap, so that the   *)
(* scan of the next deployment neither skips nor reuses a name.  It holds  *)
(* of the file and of every copy, whatever the deployers do to each other: *)
(* a save writes a whole copy or leaves no JSON.                           *)
DenseCounts ==
  /\ Dense(disk["ServicesRuning"])
  /\ \A p \in Deployers : Dense(mem[p]["ServicesRuning"])

(* A service of ServiceURI.json, and the service in whose directory a      *)
(* component of ComponentURI.json lies, has its files: the next deployment *)
(* of it reads them without extracting them.                               *)
RegisteredIsExtracted ==
  \A f \in { "ServiceURI", "ComponentURI" } :
    \A e \in disk[f] : e[2] \in extracted

Issued == { name[p] : p \in Deployers } \ { NoName }

Abstract == INSTANCE RuningDB WITH issued <- Issued

(* The choice of a name, its file and its copies hidden, is the one-step   *)
(* registration of RuningDB.                                               *)
ImplementsRuningDB == Abstract!Spec

(* A deployer that is started does not stay in this half: it reaches       *)
(* Docker or ends.                                                         *)
StartedSettles ==
  \A p \in Deployers : pc[p] = "check_DB" ~> pc[p] \in Settled

(* A deployment that is not refused: its URL is not on the web or the      *)
(* service is known, and it has no parameter that the service has not.     *)
Accepted(p) == p \notin webDeployments /\ ~ RejectsParametres(p)

=============================================================================

------------------------- MODULE ServiceRegistry_proofs -------------------------
(***************************************************************************)
(* For any number of deployments, of any services: the types of the        *)
(* registry, the density of the counts whatever the deployers do to each   *)
(* other, and, when no two deployers are in this half at once, the         *)
(* uniqueness of the names, the implementation of RuningDB, that what runs *)
(* is recorded and that what is registered is extracted.                   *)
(***************************************************************************)
EXTENDS ServiceRegistry, TLAPS

USE DEF Goto, dbVars, fileVars

(* The database a deployer is opening is one of the three files.           *)
LEMMA OpeningFile ==
  ASSUME NEW n \in 1 .. 3
  PROVE  /\ DBs[n] \in Files
         /\ DBs[n] = "ServicesRuning" <=> n = 3
BY DEF DBs, Files

(* There is a database after the first and after the second.               *)
LEMMA OpeningNext ==
  ASSUME NEW n \in 1 .. 3, n < 3
  PROVE  n + 1 \in 1 .. 3
OBVIOUS

(* Saving to one file leaves a status and entries of the right type.       *)
LEMMA SaveTypes ==
  ASSUME TypeOK, NEW f \in Files, NEW db \in SUBSET Entries,
         Truncate(f) \/ WriteText(f, db)
  PROVE  /\ status' \in [ Files -> { "absent", "empty", "json", "torn" } ]
         /\ disk' \in [ Files -> SUBSET Entries ]
BY DEF TypeOK, Truncate, WriteText

(* An entry of the running services has the type of an entry.              *)
LEMMA EntryType ==
  ASSUME NEW s \in Services
  PROVE  /\ << s, s >> \in Entries
         /\ \A k \in Components : << k, s >> \in Entries
         /\ \A c \in Count : /\ InstanceName(s, c) \in Names
                             /\ << InstanceName(s, c), s >> \in Entries
BY DEF Entries, Names

(* The components of a service are components.                             *)
LEMMA ComponentType ==
  ASSUME NEW s \in Services, NEW n \in 1 .. Len(components[s])
  PROVE  components[s][n] \in Components
<1>1. components[s] \in Seq(Components)
  BY RegistryAssumption
<1> QED
  BY <1>1

(* The registry starts with values of its types.                           *)
LEMMA InitTypeOK == Init => TypeOK
BY DEF Init, TypeOK, Settled

(* Every step of every deployer keeps the types.                           *)
LEMMA NextTypeOK == TypeOK /\ [Next]_vars => TypeOK'
<1> SUFFICES ASSUME TypeOK, [Next]_vars PROVE TypeOK'
  OBVIOUS
<1> USE DEF TypeOK, Settled, Running
<1>f. "ServiceURI" \in Files /\ "ComponentURI" \in Files /\ "ServicesRuning" \in Files
  BY DEF Files
<1>1. ASSUME NEW p \in Deployers, Start(p) PROVE TypeOK'
  BY <1>1 DEF Start
<1>2. ASSUME NEW p \in Deployers, FindDB(p) PROVE TypeOK'
  BY <1>2 DEF FindDB
<1>3. ASSUME NEW p \in Deployers, OpenNewDB(p) PROVE TypeOK'
  <2>1. DBs[at[p]] \in Files
    BY OpeningFile
  <2> QED
    BY <1>3, <2>1 DEF OpenNewDB, Truncate
<1>4. ASSUME NEW p \in Deployers, WriteNewDB(p) PROVE TypeOK'
  <2>1. DBs[at[p]] \in Files
    BY OpeningFile
  <2>2. /\ status' \in [ Files -> { "absent", "empty", "json", "torn" } ]
        /\ disk' \in [ Files -> SUBSET Entries ]
    BY <1>4, <2>1 DEF WriteNewDB, WriteText
  <2> QED
    BY <1>4, <2>2 DEF WriteNewDB
<1>5. ASSUME NEW p \in Deployers, RequireDB(p) PROVE TypeOK'
  <2>1. DBs[at[p]] \in Files
    BY OpeningFile
  <2>2. disk[DBs[at[p]]] \in SUBSET Entries
    BY <2>1
  <2>3. \/ mem' = [ mem EXCEPT ![p][DBs[at[p]]] = disk[DBs[at[p]]] ]
        \/ mem' = mem
    BY <1>5 DEF RequireDB
  <2>4. mem' \in [ Deployers -> [ Files -> SUBSET Entries ] ]
    <3>1. mem[p] \in [ Files -> SUBSET Entries ]
      OBVIOUS
    <3>2. [ mem[p] EXCEPT ![DBs[at[p]]] = disk[DBs[at[p]]] ]
            \in [ Files -> SUBSET Entries ]
      BY <2>2, <3>1
    <3> QED
      BY <2>3, <3>2
  <2>5. \/ at[p] < 3 /\ at' = [ at EXCEPT ![p] = at[p] + 1 ]
        \/ at' = at
    BY <1>5 DEF RequireDB
  <2>6. at' \in [ Deployers -> 1 .. 3 ]
    <3>1. at[p] < 3 => at[p] + 1 \in 1 .. 3
      BY OpeningNext
    <3> QED
      BY <2>5, <3>1
  <2> QED
    BY <1>5, <2>4, <2>6 DEF RequireDB
<1>6. ASSUME NEW p \in Deployers, KnownService(p) PROVE TypeOK'
  BY <1>6 DEF KnownService
<1>7. ASSUME NEW p \in Deployers, NewService(p) PROVE TypeOK'
  <2>1. deployedURI[p] \in Services
    BY RegistryAssumption
  <2>2. << deployedURI[p], deployedURI[p] >> \in Entries
    BY <2>1, EntryType
  <2>3. mem' = [ mem EXCEPT ![p]["ServiceURI"] =
                              @ \cup { << deployedURI[p], deployedURI[p] >> } ]
    BY <1>7 DEF NewService
  <2>4. mem' \in [ Deployers -> [ Files -> SUBSET Entries ] ]
    BY <1>f, <2>2, <2>3
  <2> QED
    BY <1>7, <2>1, <2>4 DEF NewService
<1>8. ASSUME NEW p \in Deployers, Flush(p) PROVE TypeOK'
  <2>1. deployedURI[p] \in Services
    BY RegistryAssumption
  <2> QED
    BY <1>8, <2>1 DEF Flush
<1>9. ASSUME NEW p \in Deployers, ExtractCallback(p) PROVE TypeOK'
  BY <1>9 DEF ExtractCallback
<1>10. ASSUME NEW p \in Deployers, SaveService(p) PROVE TypeOK'
  BY <1>10, <1>f DEF SaveService, Truncate
<1>11. ASSUME NEW p \in Deployers, WriteService(p) PROVE TypeOK'
  <2>1. mem[p]["ServiceURI"] \in SUBSET Entries
    BY <1>f
  <2>2. WriteText("ServiceURI", mem[p]["ServiceURI"])
    BY <1>11 DEF WriteService
  <2>3. /\ status' \in [ Files -> { "absent", "empty", "json", "torn" } ]
        /\ disk' \in [ Files -> SUBSET Entries ]
    BY <1>f, <2>1, <2>2, SaveTypes
  <2> QED
    BY <1>11, <2>3 DEF WriteService
<1>12. ASSUME NEW p \in Deployers, read_Service_Json(p) PROVE TypeOK'
  BY <1>12 DEF read_Service_Json
<1>13. ASSUME NEW p \in Deployers, SaveComponent(p) PROVE TypeOK'
  <2>1. deployedURI[p] \in Services
    BY RegistryAssumption
  <2>2. PICK n \in Missing(p) :
          mem' = [ mem EXCEPT ![p]["ComponentURI"] =
                     @ \cup { << components[deployedURI[p]][n], deployedURI[p] >> } ]
    BY <1>13 DEF SaveComponent
  <2>3. components[deployedURI[p]][n] \in Components
    <3>1. n \in 1 .. Len(components[deployedURI[p]])
      BY <2>2 DEF Missing
    <3> QED
      BY <2>1, <3>1, ComponentType
  <2>4. << components[deployedURI[p]][n], deployedURI[p] >> \in Entries
    BY <2>1, <2>3, EntryType
  <2>5. mem' \in [ Deployers -> [ Files -> SUBSET Entries ] ]
    BY <1>f, <2>2, <2>4
  <2> QED
    BY <1>13, <1>f, <2>5 DEF SaveComponent, Truncate
<1>14. ASSUME NEW p \in Deployers, WriteComponent(p) PROVE TypeOK'
  <2>1. mem[p]["ComponentURI"] \in SUBSET Entries
    BY <1>f
  <2>2. WriteText("ComponentURI", mem[p]["ComponentURI"])
    BY <1>14 DEF WriteComponent
  <2>3. /\ status' \in [ Files -> { "absent", "empty", "json", "torn" } ]
        /\ disk' \in [ Files -> SUBSET Entries ]
    BY <1>f, <2>1, <2>2, SaveTypes
  <2> QED
    BY <1>14, <2>3 DEF WriteComponent
<1>15. ASSUME NEW p \in Deployers, check_Service_Runing_DB(p) PROVE TypeOK'
  <2>1. deployedURI[p] \in Services
    BY RegistryAssumption
  <2>2. PICK c \in Count :
          /\ name' = [ name EXCEPT ![p] = InstanceName(deployedURI[p], c) ]
          /\ mem' = [ mem EXCEPT ![p]["ServicesRuning"] =
                 @ \cup { << InstanceName(deployedURI[p], c), deployedURI[p] >> } ]
    BY <1>15 DEF check_Service_Runing_DB
  <2>3. /\ InstanceName(deployedURI[p], c) \in Names
        /\ << InstanceName(deployedURI[p], c), deployedURI[p] >> \in Entries
    BY <2>1, EntryType
  <2>4. mem' \in [ Deployers -> [ Files -> SUBSET Entries ] ]
    BY <1>f, <2>2, <2>3
  <2> QED
    BY <1>15, <1>f, <2>2, <2>3, <2>4 DEF check_Service_Runing_DB, Truncate
<1>16. ASSUME NEW p \in Deployers, WriteRuning(p) PROVE TypeOK'
  <2>1. mem[p]["ServicesRuning"] \in SUBSET Entries
    BY <1>f
  <2>2. WriteText("ServicesRuning", mem[p]["ServicesRuning"])
    BY <1>16 DEF WriteRuning
  <2>3. /\ status' \in [ Files -> { "absent", "empty", "json", "torn" } ]
        /\ disk' \in [ Files -> SUBSET Entries ]
    BY <1>f, <2>1, <2>2, SaveTypes
  <2> QED
    BY <1>16, <2>3 DEF WriteRuning
<1>17. ASSUME NEW p \in Deployers, Crash(p) PROVE TypeOK'
  BY <1>17 DEF Crash
<1>18. CASE UNCHANGED vars
  BY <1>18 DEF vars
<1> QED
  BY <1>1, <1>2, <1>3, <1>4, <1>5, <1>6, <1>7, <1>8, <1>9, <1>10, <1>11,
     <1>12, <1>13, <1>14, <1>15, <1>16, <1>17, <1>18 DEF Next, Step

(* The types of the registry hold throughout, in every mode.               *)
THEOREM RegistryTypes == Spec => []TypeOK
BY InitTypeOK, NextTypeOK, PTL DEF Spec

-----------------------------------------------------------------------------
(***************************************************************************)
(* The counts are dense in every mode.                                     *)
(***************************************************************************)

(* The entry made for the first free count keeps a database dense.         *)
LEMMA DenseExtends ==
  ASSUME NEW db \in SUBSET Entries, Dense(db),
         NEW s \in Services, NEW c \in Count,
         FirstFree(s, c, KeysOf(db))
  PROVE  Dense(db \cup { << InstanceName(s, c), s >> })
<1> DEFINE new == << InstanceName(s, c), s >>
           more == db \cup { new }
<1>1. KeysOf(db) \subseteq KeysOf(more)
  BY DEF KeysOf
<1>2. ASSUME NEW e \in db
      PROVE  \E k \in Count :
               /\ e[1] = InstanceName(e[2], k)
               /\ \A d \in Count : d < k => InstanceName(e[2], d) \in KeysOf(more)
  BY <1>1 DEF Dense
<1>3. /\ new[1] = InstanceName(new[2], c)
      /\ \A d \in Count : d < c => InstanceName(new[2], d) \in KeysOf(more)
  BY <1>1 DEF FirstFree
<1> QED
  BY <1>2, <1>3 DEF Dense

(* Saving a dense copy, or leaving no JSON, leaves dense files.            *)
LEMMA SaveDense ==
  ASSUME TypeOK, NEW f \in Files, NEW db, Dense(disk["ServicesRuning"]),
         f = "ServicesRuning" => Dense(db),
         Truncate(f) \/ WriteText(f, db)
  PROVE  Dense(disk["ServicesRuning"])'
<1>1. Dense({})
  BY DEF Dense
<1>2. \E new \in { {}, db } : disk' = [ disk EXCEPT ![f] = new ]
  BY DEF Truncate, WriteText
<1>3. "ServicesRuning" \in DOMAIN disk
  BY DEF TypeOK, Files
<1>4. \/ disk'["ServicesRuning"] = disk["ServicesRuning"]
      \/ disk'["ServicesRuning"] = {}
      \/ f = "ServicesRuning" /\ disk'["ServicesRuning"] = db
  BY <1>2, <1>3
<1>5. Dense(disk'["ServicesRuning"])
  BY <1>1, <1>4
<1> QED
  BY <1>5 DEF Dense, KeysOf

(* Every step of every deployer keeps the counts dense.                    *)
LEMMA NextDense == TypeOK /\ DenseCounts /\ [Next]_vars => DenseCounts'
<1> SUFFICES ASSUME TypeOK, DenseCounts, [Next]_vars PROVE DenseCounts'
  OBVIOUS
<1> USE DEF DenseCounts
<1>f. /\ "ServiceURI" \in Files /\ "ComponentURI" \in Files
      /\ "ServicesRuning" \in Files
  BY DEF Files
<1>d. Dense({})
  BY DEF Dense
<1>m. ASSUME UNCHANGED mem, Dense(disk["ServicesRuning"])' PROVE DenseCounts'
  BY <1>m DEF Dense, KeysOf
<1>u. ASSUME UNCHANGED disk PROVE Dense(disk["ServicesRuning"])'
  BY <1>u DEF Dense, KeysOf
<1>1. ASSUME NEW p \in Deployers,
             OpenNewDB(p) \/ WriteNewDB(p) \/ SaveService(p)
               \/ WriteService(p) \/ WriteComponent(p) \/ WriteRuning(p)
      PROVE  DenseCounts'
  <2>1. DBs[at[p]] \in Files
    BY OpeningFile DEF TypeOK
  <2>2. PICK f \in Files :
          Truncate(f) \/ WriteText(f, {}) \/ WriteText(f, mem[p][f])
    BY <1>1, <1>f, <2>1
    DEF OpenNewDB, WriteNewDB, SaveService, WriteService, WriteComponent,
        WriteRuning
  <2>3. f = "ServicesRuning" => Dense(mem[p][f])
    OBVIOUS
  <2>4. Dense(disk["ServicesRuning"])'
    BY <1>d, <2>2, <2>3, SaveDense
  <2> QED
    BY <1>1, <1>m, <2>4
    DEF OpenNewDB, WriteNewDB, SaveService, WriteService, WriteComponent,
        WriteRuning
<1>2. ASSUME NEW p \in Deployers, RequireDB(p) PROVE DenseCounts'
  <2>1. DBs[at[p]] \in Files /\ (DBs[at[p]] = "ServicesRuning" <=> at[p] = 3)
    BY OpeningFile DEF TypeOK
  <2>2. \A q \in Deployers :
          mem'[q]["ServicesRuning"] \in
            { mem[q]["ServicesRuning"], disk["ServicesRuning"] }
    BY <1>2, <1>f, <2>1 DEF RequireDB, TypeOK
  <2> QED
    BY <1>2, <1>u, <2>2 DEF RequireDB, Dense, KeysOf
<1>3. ASSUME NEW p \in Deployers, NewService(p) \/ SaveComponent(p)
      PROVE  DenseCounts'
  <2>1. \A q \in Deployers :
          mem'[q]["ServicesRuning"] = mem[q]["ServicesRuning"]
    <3>1. \E f \in { "ServiceURI", "ComponentURI" } : \E db :
            mem' = [ mem EXCEPT ![p][f] = db ]
      BY <1>3 DEF NewService, SaveComponent
    <3> QED
      BY <1>f, <3>1 DEF TypeOK
  <2>2. disk'["ServicesRuning"] = disk["ServicesRuning"]
    BY <1>3, <1>f DEF NewService, SaveComponent, Truncate, TypeOK
  <2> QED
    BY <2>1, <2>2 DEF Dense, KeysOf
<1>4. ASSUME NEW p \in Deployers, check_Service_Runing_DB(p)
      PROVE  DenseCounts'
  <2> DEFINE s == deployedURI[p]
             db == mem[p]["ServicesRuning"]
  <2>1. s \in Services /\ db \in SUBSET Entries /\ Dense(db)
    BY <1>f, RegistryAssumption DEF TypeOK
  <2>2. PICK c \in Count :
          /\ FirstFree(s, c, KeysOf(db))
          /\ mem' = [ mem EXCEPT ![p]["ServicesRuning"] =
                                   @ \cup { << InstanceName(s, c), s >> } ]
    BY <1>4 DEF check_Service_Runing_DB
  <2>3. Dense(db \cup { << InstanceName(s, c), s >> })
    BY <2>1, <2>2, DenseExtends
  <2>4. \A q \in Deployers :
          mem'[q]["ServicesRuning"] \in
            { mem[q]["ServicesRuning"], db \cup { << InstanceName(s, c), s >> } }
    BY <1>f, <2>2 DEF TypeOK
  <2>5. \A q \in Deployers : Dense(mem'[q]["ServicesRuning"])
    BY <2>3, <2>4
  <2>6. disk'["ServicesRuning"] = {}
    BY <1>4, <1>f DEF check_Service_Runing_DB, Truncate, TypeOK
  <2> QED
    BY <1>d, <2>5, <2>6 DEF Dense, KeysOf
<1>5. ASSUME UNCHANGED <<disk, mem>> PROVE DenseCounts'
  BY <1>5, <1>m, <1>u
<1> QED
  BY <1>1, <1>2, <1>3, <1>4, <1>5
  DEF Next, Step, Start, FindDB, KnownService, Flush, ExtractCallback,
      read_Service_Json, Crash, vars

(* The counts of the running services are dense, in the file and in every  *)
(* copy, however the deployers overwrite each other's saves and crash.     *)
THEOREM CountsAreDense == Spec => []DenseCounts
<1>1. Init => DenseCounts
  BY DEF Init, DenseCounts, Dense, Files
<1> QED
  BY <1>1, NextDense, RegistryTypes, PTL DEF Spec

-----------------------------------------------------------------------------
(***************************************************************************)
(* One deployer at a time: the names are unique.                           *)
(*                                                                         *)
(* The inductive invariant says where the names that have been issued are  *)
(* recorded at every moment: in the file while it can be read, in the copy *)
(* of the deployer that is running once it has opened the three databases, *)
(* and nowhere when a save was cut short; then no deployer gets past       *)
(* check_DB any more.                                                      *)
(***************************************************************************)

(* Where a deployer holds a copy of the running services.                  *)
Copied ==
  { "check_service_uri", "extract", "timeout", "write service",
    "read_Service_Json", "check_component_uri", "write component",
    "write runing" }

OneRunning ==
  \A p, q \in Deployers : pc[p] \in Running /\ pc[q] \in Running => p = q

Unnamed ==
  \A p \in Deployers :
    pc[p] \in (Running \ { "write runing" }) \cup { "off" } => name[p] = NoName

FileHoldsIssued ==
  /\ status["ServicesRuning"] = "absent" => Issued = {}
  /\ status["ServicesRuning"] = "json" => KeysOf(disk["ServicesRuning"]) = Issued

NewFileHoldsIssued ==
  \A p \in Deployers :
    pc[p] \in { "create", "write new" } /\ at[p] = 3 => Issued = {}

CopyHoldsIssued ==
  \A p \in Deployers :
    pc[p] \in Copied => KeysOf(mem[p]["ServicesRuning"]) = Issued

XInv ==
  /\ TypeOK
  /\ OneRunning
  /\ Unnamed
  /\ FileHoldsIssued
  /\ NewFileHoldsIssued
  /\ CopyHoldsIssued
  /\ NamesAreUnique

(* Before the first deployer starts no name is issued.                     *)
LEMMA InitXInv == Init => XInv
<1> SUFFICES ASSUME Init PROVE XInv
  OBVIOUS
<1>1. TypeOK
  BY InitTypeOK
<1>2. Issued = {}
  BY DEF Init, Issued
<1>3. OneRunning /\ Unnamed /\ NamesAreUnique
  BY DEF Init, OneRunning, Unnamed, NamesAreUnique, Running
<1>4. FileHoldsIssued
  BY <1>2 DEF Init, FileHoldsIssued, Files
<1>5. NewFileHoldsIssued /\ CopyHoldsIssued
  BY <1>2 DEF NewFileHoldsIssued, CopyHoldsIssued, Init, Copied
<1> QED
  BY <1>1, <1>3, <1>4, <1>5 DEF XInv

(* A name that has been issued is not that of a deployer without a name.   *)
LEMMA NamesAreIssued ==
  ASSUME NEW p \in Deployers, name[p] # NoName
  PROVE  name[p] \in Issued
BY DEF Issued

(* Giving a name to a deployer that has none issues this name.             *)
LEMMA IssueOne ==
  ASSUME TypeOK, NEW p \in Deployers, name[p] = NoName,
         NEW n \in Names, name' = [ name EXCEPT ![p] = n ]
  PROVE  Issued' = Issued \cup { n }
<1>1. n # NoName
  BY RegistryAssumption
<1>2. /\ name'[p] = n
      /\ \A q \in Deployers : q # p => name'[q] = name[q]
  BY DEF TypeOK
<1> QED
  BY <1>1, <1>2 DEF Issued

(* A deployer that moves is the only one running.                          *)
LEMMA MovesAlone ==
  ASSUME XInv, NEW p \in Deployers, pc[p] \in Running,
         NEW label, Goto(p, label)
  PROVE  /\ pc'[p] = label
         /\ \A q \in Deployers : q # p => pc'[q] = pc[q] /\ pc[q] \notin Running
BY DEF XInv, TypeOK, OneRunning

(* A change of another copy leaves the copies of the running services.     *)
LEMMA OtherCopy ==
  ASSUME TypeOK, NEW p \in Deployers,
         NEW f \in { "ServiceURI", "ComponentURI" }, NEW db,
         mem' = [ mem EXCEPT ![p][f] = db ]
  PROVE  \A q \in Deployers : mem'[q]["ServicesRuning"] = mem[q]["ServicesRuning"]
<1>1. "ServicesRuning" \in Files
  BY DEF Files
<1> QED
  BY <1>1 DEF TypeOK

(* A step of the running deployer that issues no name.                     *)
LEMMA MoveStep ==
  ASSUME XInv, TypeOK', FileHoldsIssued', UNCHANGED <<name, at>>,
         \A q \in Deployers : mem'[q]["ServicesRuning"] = mem[q]["ServicesRuning"],
         NEW p \in Deployers, pc[p] \in Running,
         NEW label \in Settled \cup Running, Goto(p, label),
         label # "off", label # "write runing",
         pc[p] = "write runing" => label \notin Running,
         label \in Copied => pc[p] \in Copied,
         label \in { "create", "write new" } /\ at[p] = 3 => Issued = {}
  PROVE  XInv'
<1>1. Issued' = Issued
  BY DEF Issued
<1>2. /\ pc'[p] = label
      /\ \A q \in Deployers : q # p => pc'[q] = pc[q]
  BY DEF XInv, TypeOK
<1>3. \A q \in Deployers : q # p => pc'[q] \notin Running
  BY <1>2 DEF XInv, OneRunning
<1>4. OneRunning'
  BY <1>3 DEF OneRunning
<1>5. name[p] = NoName \/ pc[p] = "write runing"
  BY DEF XInv, Unnamed
<1>6. Unnamed'
  BY <1>2, <1>5 DEF XInv, Unnamed
<1>7. NewFileHoldsIssued'
  BY <1>1, <1>2 DEF XInv, NewFileHoldsIssued
<1>8. CopyHoldsIssued'
  <2> SUFFICES ASSUME NEW q \in Deployers, pc'[q] \in Copied
               PROVE  KeysOf(mem'[q]["ServicesRuning"]) = Issued'
    BY DEF CopyHoldsIssued, KeysOf
  <2>1. pc[q] \in Copied
    BY <1>2
  <2> QED
    BY <1>1, <2>1 DEF XInv, CopyHoldsIssued
<1>9. NamesAreUnique'
  BY DEF XInv, NamesAreUnique
<1> QED
  BY <1>4, <1>6, <1>7, <1>8, <1>9 DEF XInv

(* The record of names holds while neither they nor their file change.     *)
LEMMA FileKept ==
  ASSUME XInv, UNCHANGED name,
         status'["ServicesRuning"] = status["ServicesRuning"],
         disk'["ServicesRuning"] = disk["ServicesRuning"]
  PROVE  FileHoldsIssued'
<1>1. Issued' = Issued
  BY DEF Issued
<1> QED
  BY <1>1 DEF XInv, FileHoldsIssued, KeysOf

(* A save to another file leaves the running services alone.               *)
LEMMA OtherSave ==
  ASSUME TypeOK, NEW f \in Files, f # "ServicesRuning", NEW db,
         Truncate(f) \/ WriteText(f, db)
  PROVE  /\ status'["ServicesRuning"] = status["ServicesRuning"]
         /\ disk'["ServicesRuning"] = disk["ServicesRuning"]
<1>1. /\ \E x : status' = [ status EXCEPT ![f] = x ]
      /\ \E y : disk' = [ disk EXCEPT ![f] = y ]
  BY DEF Truncate, WriteText
<1>2. "ServicesRuning" \in Files
  BY DEF Files
<1> QED
  BY <1>1, <1>2 DEF TypeOK

(* Entering a name that is not in the database adds it to the keys.        *)
LEMMA KeysOfEntry ==
  ASSUME NEW db, NEW k, NEW s
  PROVE  KeysOf(db \cup { << k, s >> }) = KeysOf(db) \cup { k }
<1>1. KeysOf({ << k, s >> }) = { k }
  BY DEF KeysOf
<1>2. KeysOf(db \cup { << k, s >> }) = KeysOf(db) \cup KeysOf({ << k, s >> })
  BY DEF KeysOf
<1> QED
  BY <1>1, <1>2

(* Every step preserves the invariant when one deployer runs at a time.    *)
LEMMA NextXInv == Exclusive /\ XInv /\ [Next]_vars => XInv'
<1> SUFFICES ASSUME Exclusive, XInv, [Next]_vars PROVE XInv'
  OBVIOUS
<1>t. TypeOK /\ TypeOK'
  BY NextTypeOK DEF XInv
<1>f. /\ "ServiceURI" \in Files /\ "ComponentURI" \in Files
      /\ "ServicesRuning" \in Files
  BY DEF Files
<1>i. UNCHANGED name => Issued' = Issued
  BY DEF Issued
<1>k. /\ "check_DB" \in Running /\ "create" \in Running
      /\ "write new" \in Running /\ "require" \in Running
      /\ Copied \subseteq Running /\ Settled \cap Running = {}
  BY DEF Running, Copied, Settled
<1>1. ASSUME NEW p \in Deployers, Start(p) PROVE XInv'
  <2>1. /\ pc'[p] = "check_DB"
        /\ \A q \in Deployers : q # p => pc'[q] = pc[q] /\ pc[q] \notin Running
    BY <1>1, <1>t, <1>k DEF Start, TypeOK
  <2>2. OneRunning'
    BY <2>1 DEF OneRunning
  <2>3. Unnamed'
    BY <1>1, <2>1 DEF Start, XInv, Unnamed
  <2>4. FileHoldsIssued'
    BY <1>1, FileKept DEF Start
  <2>5. NewFileHoldsIssued' /\ CopyHoldsIssued'
    BY <1>k, <2>1 DEF NewFileHoldsIssued, CopyHoldsIssued, Copied
  <2>6. NamesAreUnique'
    BY <1>1 DEF Start, XInv, NamesAreUnique
  <2> QED
    BY <1>t, <2>2, <2>3, <2>4, <2>5, <2>6 DEF XInv
<1>2. ASSUME NEW p \in Deployers, FindDB(p) PROVE XInv'
  <2>1. at[p] = 3 => DBs[at[p]] = "ServicesRuning"
    BY DEF DBs
  <2>2. PICK label \in { "create", "require" } :
          /\ Goto(p, label)
          /\ label = "create" => status[DBs[at[p]]] = "absent"
    BY <1>2 DEF FindDB
  <2>3. label = "create" /\ at[p] = 3 => Issued = {}
    BY <2>1, <2>2 DEF XInv, FileHoldsIssued
  <2>4. FileHoldsIssued'
    BY <1>2, FileKept DEF FindDB
  <2>5. UNCHANGED <<name, at, mem>> /\ pc[p] = "check_DB"
    BY <1>2 DEF FindDB
  <2>6. label \notin Copied /\ label \in Settled \cup Running
    BY <1>k, <2>2 DEF Copied
  <2> QED
    BY <1>t, <1>k, <2>2, <2>3, <2>4, <2>5, <2>6, MoveStep
<1>3. ASSUME NEW p \in Deployers, OpenNewDB(p) PROVE XInv'
  <2>1. /\ UNCHANGED <<name, at, mem>> /\ pc[p] = "create"
        /\ Goto(p, "write new") /\ Truncate(DBs[at[p]])
    BY <1>3 DEF OpenNewDB
  <2>2. DBs[at[p]] \in Files
    BY <1>t, OpeningFile DEF TypeOK
  <2>3. at[p] = 3 => Issued = {}
    BY <2>1 DEF XInv, NewFileHoldsIssued
  <2>4. FileHoldsIssued'
    <3>1. CASE DBs[at[p]] = "ServicesRuning"
      <4>1. status'["ServicesRuning"] = "empty"
        BY <1>t, <1>f, <2>1, <3>1 DEF Truncate, TypeOK
      <4> QED
        BY <4>1 DEF FileHoldsIssued
    <3>2. CASE DBs[at[p]] # "ServicesRuning"
      BY <1>t, <2>1, <2>2, <3>2, OtherSave, FileKept
    <3> QED
      BY <3>1, <3>2
  <2>5. "write new" \notin Copied
    BY DEF Copied
  <2> QED
    BY <1>t, <1>k, <2>1, <2>3, <2>4, <2>5, MoveStep
<1>4. ASSUME NEW p \in Deployers, WriteNewDB(p) PROVE XInv'
  <2>1. /\ UNCHANGED <<name, at, mem>> /\ pc[p] = "write new"
        /\ Goto(p, "require") /\ WriteText(DBs[at[p]], {})
    BY <1>4 DEF WriteNewDB
  <2>2. DBs[at[p]] \in Files /\ (DBs[at[p]] = "ServicesRuning" <=> at[p] = 3)
    BY <1>t, OpeningFile DEF TypeOK
  <2>3. at[p] = 3 => Issued = {}
    BY <2>1 DEF XInv, NewFileHoldsIssued
  <2>4. FileHoldsIssued'
    <3>1. CASE DBs[at[p]] = "ServicesRuning"
      <4>1. /\ status'["ServicesRuning"] \in { "json", "torn" }
            /\ disk'["ServicesRuning"] = {}
        BY <1>t, <1>f, <2>1, <3>1 DEF WriteText, TypeOK
      <4> QED
        BY <1>i, <2>1, <2>2, <2>3, <3>1, <4>1 DEF FileHoldsIssued, KeysOf
    <3>2. CASE DBs[at[p]] # "ServicesRuning"
      BY <1>t, <2>1, <2>2, <3>2, OtherSave, FileKept
    <3> QED
      BY <3>1, <3>2
  <2>5. "require" \notin Copied
    BY DEF Copied
  <2> QED
    BY <1>t, <1>k, <2>1, <2>4, <2>5, MoveStep
<1>5. ASSUME NEW p \in Deployers, RequireDB(p) PROVE XInv'
  <2> DEFINE f == DBs[at[p]]
  <2>1. f \in Files /\ (f = "ServicesRuning" <=> at[p] = 3)
    BY <1>t, OpeningFile DEF TypeOK
  <2>2. /\ pc[p] = "require" /\ UNCHANGED <<name, status, disk>>
    BY <1>5 DEF RequireDB
  <2>3. FileHoldsIssued'
    BY <2>2, FileKept
  <2>4. CASE status[f] # "json"
    <3>1. Goto(p, "dead") /\ UNCHANGED <<mem, at>>
      BY <1>5, <2>4 DEF RequireDB
    <3>2. "dead" \in Settled /\ "dead" \notin Copied
      BY DEF Settled, Copied
    <3> QED
      BY <1>t, <1>k, <2>2, <2>3, <3>1, <3>2, MoveStep
  <2>5. CASE status[f] = "json"
    <3>1. PICK label \in { "check_DB", "check_service_uri" } :
            /\ Goto(p, label)
            /\ label = "check_service_uri" => at[p] = 3
      BY <1>5, <2>5 DEF RequireDB
    <3>2. /\ pc'[p] = label
          /\ \A q \in Deployers : q # p => pc'[q] = pc[q] /\ pc[q] \notin Running
      BY <1>k, <2>2, <3>1, MovesAlone
    <3>3. OneRunning'
      BY <3>2 DEF OneRunning
    <3>4. name[p] = NoName
      BY <1>k, <2>2 DEF XInv, Unnamed
    <3>5. Unnamed'
      BY <2>2, <3>2, <3>4 DEF XInv, Unnamed
    <3>6. NewFileHoldsIssued'
      BY <1>k, <3>1, <3>2 DEF NewFileHoldsIssued
    <3>7. CopyHoldsIssued'
      <4>1. ASSUME label = "check_service_uri"
            PROVE  mem'[p]["ServicesRuning"] = disk["ServicesRuning"]
        BY <1>5, <1>t, <1>f, <2>1, <2>5, <3>1, <4>1 DEF RequireDB, TypeOK
      <4>2. ASSUME label = "check_service_uri"
            PROVE  KeysOf(mem'[p]["ServicesRuning"]) = Issued'
        BY <1>i, <2>1, <2>2, <2>5, <3>1, <4>1, <4>2 DEF XInv, FileHoldsIssued
      <4>3. "check_DB" \notin Copied
        BY DEF Copied
      <4> QED
        BY <1>k, <3>1, <3>2, <4>2, <4>3 DEF CopyHoldsIssued, KeysOf
    <3>8. NamesAreUnique'
      BY <2>2 DEF XInv, NamesAreUnique
    <3> QED
      BY <1>t, <2>3, <3>3, <3>5, <3>6, <3>7, <3>8 DEF XInv
  <2> QED
    BY <2>4, <2>5
<1>6. ASSUME NEW p \in Deployers,
             KnownService(p) \/ NewService(p) \/ ExtractCallback(p)
               \/ SaveService(p) \/ WriteService(p) \/ read_Service_Json(p)
               \/ SaveComponent(p) \/ WriteComponent(p)
      PROVE  XInv'
  <2>1. UNCHANGED <<name, at>>
    BY <1>6 DEF KnownService, NewService, ExtractCallback, SaveService,
       WriteService, read_Service_Json, SaveComponent, WriteComponent
  <2>2. \A q \in Deployers : mem'[q]["ServicesRuning"] = mem[q]["ServicesRuning"]
    <3>1. \/ mem' = mem
          \/ \E f \in { "ServiceURI", "ComponentURI" } : \E db :
               mem' = [ mem EXCEPT ![p][f] = db ]
      BY <1>6 DEF KnownService, NewService, ExtractCallback, SaveService,
         WriteService, read_Service_Json, SaveComponent, WriteComponent
    <3> QED
      BY <1>t, <3>1, OtherCopy
  <2>3. FileHoldsIssued'
    <3>1. \/ UNCHANGED <<status, disk>>
          \/ \E f \in { "ServiceURI", "ComponentURI" } :
               Truncate(f) \/ WriteText(f, mem[p][f])
      BY <1>6 DEF KnownService, NewService, ExtractCallback, SaveService,
         WriteService, read_Service_Json, SaveComponent, WriteComponent
    <3> QED
      BY <1>t, <1>f, <2>1, <3>1, OtherSave, FileKept
  <2>4. pc[p] \in Copied \ { "write runing" }
    BY <1>6 DEF KnownService, NewService, ExtractCallback, SaveService,
       WriteService, read_Service_Json, SaveComponent, WriteComponent, Copied
  <2>5. PICK label \in (Copied \ { "write runing" }) \cup { "exit", "dead" } :
          Goto(p, label)
    BY <1>6 DEF KnownService, NewService, ExtractCallback, SaveService,
       WriteService, read_Service_Json, SaveComponent, WriteComponent, Copied
  <2>6. label \in Settled \cup Running /\ label # "off"
        /\ label \notin { "create", "write new", "write runing" }
    BY <1>k, <2>5 DEF Copied, Settled
  <2> QED
    BY <1>t, <1>k, <2>1, <2>2, <2>3, <2>4, <2>5, <2>6, MoveStep
<1>7. ASSUME NEW p \in Deployers, check_Service_Runing_DB(p) PROVE XInv'
  <2> DEFINE s == deployedURI[p]
             db == mem[p]["ServicesRuning"]
  <2>1. PICK c \in Count :
          /\ FirstFree(s, c, KeysOf(db))
          /\ name' = [ name EXCEPT ![p] = InstanceName(s, c) ]
          /\ mem' = [ mem EXCEPT ![p]["ServicesRuning"] =
                                   @ \cup { << InstanceName(s, c), s >> } ]
    BY <1>7 DEF check_Service_Runing_DB
  <2> DEFINE n == InstanceName(s, c)
  <2>2. /\ pc[p] = "check_component_uri" /\ Goto(p, "write runing")
        /\ Truncate("ServicesRuning")
    BY <1>7 DEF check_Service_Runing_DB
  <2>3. n \in Names
    BY RegistryAssumption, EntryType
  <2>4. n # NoName
    BY <2>3, RegistryAssumption
  <2>5. name[p] = NoName /\ KeysOf(db) = Issued
    BY <1>k, <2>2 DEF XInv, Unnamed, CopyHoldsIssued, Copied
  <2>6. Issued' = Issued \cup { n } /\ n \notin Issued
    BY <1>t, <2>1, <2>3, <2>5, IssueOne DEF FirstFree
  <2>7. /\ pc'[p] = "write runing"
        /\ \A q \in Deployers : q # p => pc'[q] = pc[q] /\ pc[q] \notin Running
    <3>1. pc[p] \in Running
      BY <2>2 DEF Running
    <3> QED
      BY <2>2, <3>1, MovesAlone
  <2>8. /\ name'[p] = n
        /\ \A q \in Deployers : q # p => name'[q] = name[q]
    BY <1>t, <2>1 DEF TypeOK
  <2>9. OneRunning'
    BY <2>7 DEF OneRunning
  <2>10. Unnamed'
    BY <2>7, <2>8 DEF XInv, Unnamed
  <2>11. FileHoldsIssued'
    <3>1. status'["ServicesRuning"] = "empty"
      BY <1>t, <1>f, <2>2 DEF Truncate, TypeOK
    <3> QED
      BY <3>1 DEF FileHoldsIssued
  <2>12. NewFileHoldsIssued'
    BY <1>k, <2>7 DEF NewFileHoldsIssued
  <2>13. CopyHoldsIssued'
    <3>1. mem'[p]["ServicesRuning"] = db \cup { << n, s >> }
      BY <1>t, <1>f, <2>1 DEF TypeOK
    <3>2. KeysOf(db \cup { << n, s >> }) = KeysOf(db) \cup { n }
      BY KeysOfEntry
    <3>3. KeysOf(mem'[p]["ServicesRuning"]) = Issued'
      BY <2>5, <2>6, <3>1, <3>2
    <3> QED
      BY <1>k, <2>7, <3>3 DEF CopyHoldsIssued, KeysOf
  <2>14. NamesAreUnique'
    BY <2>4, <2>6, <2>8, NamesAreIssued DEF XInv, NamesAreUnique
  <2> QED
    BY <1>t, <2>9, <2>10, <2>11, <2>12, <2>13, <2>14 DEF XInv
<1>8. ASSUME NEW p \in Deployers, WriteRuning(p) PROVE XInv'
  <2>1. /\ UNCHANGED <<name, at, mem>> /\ pc[p] = "write runing"
        /\ Goto(p, "create_network")
        /\ WriteText("ServicesRuning", mem[p]["ServicesRuning"])
    BY <1>8 DEF WriteRuning
  <2>2. KeysOf(mem[p]["ServicesRuning"]) = Issued
    BY <2>1 DEF XInv, CopyHoldsIssued, Copied
  <2>3. \/ /\ status'["ServicesRuning"] = "json"
           /\ disk'["ServicesRuning"] = mem[p]["ServicesRuning"]
        \/ status'["ServicesRuning"] = "torn"
    BY <1>t, <1>f, <2>1 DEF WriteText, TypeOK
  <2>4. FileHoldsIssued'
    BY <1>i, <2>1, <2>2, <2>3 DEF FileHoldsIssued, KeysOf
  <2>5. "write runing" \in Running /\ "create_network" \notin Copied
        /\ "create_network" \in Settled
    BY DEF Running, Copied, Settled
  <2> QED
    BY <1>t, <1>k, <2>1, <2>4, <2>5, MoveStep
<1>9. ASSUME NEW p \in Deployers, Crash(p) PROVE XInv'
  <2>1. /\ UNCHANGED <<name, at, mem, status, disk>>
        /\ Goto(p, "dead") /\ pc[p] \in Running
    BY <1>9, <1>t DEF Crash, TypeOK
  <2>2. FileHoldsIssued'
    BY <2>1, FileKept
  <2>3. "dead" \in Settled /\ "dead" \notin Copied
    BY DEF Settled, Copied
  <2> QED
    BY <1>t, <1>k, <2>1, <2>2, <2>3, MoveStep
<1>10. ASSUME UNCHANGED <<status, disk, mem, pc, at, name>> PROVE XInv'
  <2>1. FileHoldsIssued'
    BY <1>10, FileKept
  <2>2. OneRunning' /\ Unnamed' /\ NamesAreUnique'
    BY <1>10 DEF XInv, OneRunning, Unnamed, NamesAreUnique
  <2>3. NewFileHoldsIssued' /\ CopyHoldsIssued'
    BY <1>10, <1>i DEF XInv, NewFileHoldsIssued, CopyHoldsIssued, KeysOf
  <2> QED
    BY <1>t, <2>1, <2>2, <2>3 DEF XInv
<1> QED
  BY <1>1, <1>2, <1>3, <1>4, <1>5, <1>6, <1>7, <1>8, <1>9, <1>10
  DEF Next, Step, Flush, vars

(* One deployer at a time: the record of the issued names is kept.         *)
THEOREM ExclusiveInvariant ==
  ASSUME Exclusive
  PROVE  Spec => []XInv
<1>1. XInv /\ [Next]_vars => XInv'
  BY NextXInv
<1> QED
  BY <1>1, InitXInv, PTL DEF Spec

(* One deployer at a time, crashing anywhere: no two deployments are given *)
(* the same name.                                                          *)
THEOREM NamesStayUnique ==
  ASSUME Exclusive
  PROVE  Spec => []NamesAreUnique
<1>1. XInv => NamesAreUnique
  BY DEF XInv
<1> QED
  BY <1>1, ExclusiveInvariant, PTL

(* One deployer at a time, crashing anywhere: the three databases and the  *)
(* copies of the deployers implement the one-step registration of names.   *)
THEOREM RegistryRefinesRuningDB ==
  ASSUME Exclusive
  PROVE  Spec => ImplementsRuningDB
<1>1. Init => Abstract!Init
  BY DEF Init, Abstract!Init, Issued
<1>2. XInv /\ [Next]_vars => [Abstract!Next]_Issued
  <2> SUFFICES ASSUME XInv, [Next]_vars PROVE [Abstract!Next]_Issued
    OBVIOUS
  <2>1. ASSUME NEW p \in Deployers, check_Service_Runing_DB(p)
        PROVE  Abstract!Next
    <3> DEFINE s == deployedURI[p]
    <3>1. PICK c \in Count :
            /\ FirstFree(s, c, KeysOf(mem[p]["ServicesRuning"]))
            /\ name' = [ name EXCEPT ![p] = InstanceName(s, c) ]
      BY <2>1 DEF check_Service_Runing_DB
    <3>2. name[p] = NoName /\ KeysOf(mem[p]["ServicesRuning"]) = Issued
      BY <2>1
      DEF check_Service_Runing_DB, XInv, Unnamed, CopyHoldsIssued, Copied,
          Running
    <3>3. s \in Services /\ InstanceName(s, c) \in Names
      BY RegistryAssumption, EntryType
    <3>4. Issued' = Issued \cup { InstanceName(s, c) }
      BY <3>1, <3>2, <3>3, IssueOne DEF XInv
    <3> QED
      BY <3>1, <3>2, <3>3, <3>4
      DEF Abstract!Next, Abstract!Register, Abstract!FirstFree,
          Abstract!Count, FirstFree, Count
  <2>2. CASE UNCHANGED name
    BY <2>2 DEF Issued
  <2> QED
    BY <2>1, <2>2
    DEF Next, Step, Start, FindDB, OpenNewDB, WriteNewDB, RequireDB,
        KnownService, NewService, Flush, ExtractCallback, SaveService,
        WriteService, read_Service_Json, SaveComponent, WriteComponent,
        WriteRuning, Crash, vars
<1> QED
  BY <1>1, <1>2, ExclusiveInvariant, PTL
  DEF Spec, ImplementsRuningDB, Abstract!Spec

-----------------------------------------------------------------------------
(***************************************************************************)
(* One deployer at a time: an instance that reached Docker is recorded.    *)
(***************************************************************************)

Named ==
  \A p \in Deployers :
    pc[p] \in { "write runing", "create_network" } => name[p] # NoName

(* A deployer past the choice of a name has one.                           *)
LEMMA NextNamed == TypeOK /\ Named /\ [Next]_vars => Named'
<1> SUFFICES ASSUME TypeOK, Named, [Next]_vars PROVE Named'
  OBVIOUS
<1>1. ASSUME NEW p \in Deployers, NEW label,
             label \notin { "write runing", "create_network" },
             Goto(p, label), UNCHANGED name
      PROVE  Named'
  BY <1>1 DEF TypeOK, Named
<1>2. ASSUME NEW p \in Deployers, check_Service_Runing_DB(p) PROVE Named'
  <2>1. PICK c \in Count :
          name' = [ name EXCEPT ![p] = InstanceName(deployedURI[p], c) ]
    BY <1>2 DEF check_Service_Runing_DB
  <2>2. InstanceName(deployedURI[p], c) # NoName
    BY RegistryAssumption, EntryType
  <2>3. Goto(p, "write runing")
    BY <1>2 DEF check_Service_Runing_DB
  <2> QED
    BY <2>1, <2>2, <2>3 DEF TypeOK, Named
<1>3. ASSUME NEW p \in Deployers, WriteRuning(p) PROVE Named'
  BY <1>3 DEF WriteRuning, TypeOK, Named
<1>4. CASE UNCHANGED <<pc, name>>
  BY <1>4 DEF Named
<1>5. ASSUME NEW p \in Deployers,
             Start(p) \/ FindDB(p) \/ OpenNewDB(p) \/ WriteNewDB(p)
               \/ RequireDB(p) \/ KnownService(p) \/ NewService(p)
               \/ ExtractCallback(p)
      PROVE  Named'
  <2>1. PICK label \in { "check_DB", "create", "write new", "require", "dead",
                         "check_service_uri", "read_Service_Json", "exit",
                         "extract", "timeout" } : Goto(p, label)
    BY <1>5 DEF Start, FindDB, OpenNewDB, WriteNewDB, RequireDB, KnownService,
       NewService, ExtractCallback
  <2>2. UNCHANGED name
    BY <1>5 DEF Start, FindDB, OpenNewDB, WriteNewDB, RequireDB, KnownService,
       NewService, ExtractCallback
  <2> QED
    BY <1>1, <2>1, <2>2
<1>6. ASSUME NEW p \in Deployers,
             SaveService(p) \/ WriteService(p) \/ read_Service_Json(p)
               \/ SaveComponent(p) \/ WriteComponent(p) \/ Crash(p)
      PROVE  Named'
  <2>1. PICK label \in { "write service", "read_Service_Json", "dead", "exit",
                         "check_component_uri", "write component" } :
               Goto(p, label)
    BY <1>6 DEF SaveService, WriteService, read_Service_Json, SaveComponent,
       WriteComponent, Crash
  <2>2. UNCHANGED name
    BY <1>6 DEF SaveService, WriteService, read_Service_Json, SaveComponent,
       WriteComponent, Crash
  <2> QED
    BY <1>1, <2>1, <2>2
<1> QED
  BY <1>2, <1>3, <1>4, <1>5, <1>6 DEF Next, Step, Flush, vars

(* One deployer at a time, crashing anywhere: no save of the running       *)
(* services drops an instance that reached Docker.                         *)
THEOREM RunningStaysRecorded ==
  ASSUME Exclusive
  PROVE  Spec => []RunningIsRecorded
<1>1. Init => Named
  BY DEF Init, Named
<1>2. Spec => []Named
  BY <1>1, NextNamed, RegistryTypes, PTL DEF Spec
<1>3. XInv /\ Named => RunningIsRecorded
  BY NamesAreIssued DEF XInv, FileHoldsIssued, Named, RunningIsRecorded
<1> QED
  BY <1>2, <1>3, ExclusiveInvariant, PTL

-----------------------------------------------------------------------------
(***************************************************************************)
(* One deployer at a time, good archives and two seconds enough: what the  *)
(* databases name is extracted.                                            *)
(*                                                                         *)
(* The inductive invariant relates the two databases to each other and to  *)
(* the copy of the deployer that runs: a service whose directory holds a   *)
(* component is in ServiceURI.json, so that its files are only extracted   *)
(* anew when neither file names it; and a copy names nothing but what is   *)
(* extracted, the service whose archive is being unpacked excepted.        *)
(***************************************************************************)

(* Where a deployer has not yet read the three databases.                  *)
Opening == { "check_DB", "create", "write new", "require" }

(* The deployer p has read ServiceURI.json.                                *)
Loaded(p) == pc[p] \in Copied \/ (pc[p] \in Opening /\ at[p] > 1)

(* Where the copy of ServiceURI.json has an entry that the file has not.   *)
Entering == { "extract", "timeout", "write service" }

ServicesOf(db) == { e[2] : e \in db }
SelfKeyed(db) == \A e \in db : e[1] = e[2]

FilesRegister ==
  /\ SelfKeyed(disk["ServiceURI"])
  /\ status["ServiceURI"] = "absent" => disk["ComponentURI"] = {}
  /\ status["ServiceURI"] = "json" =>
       ServicesOf(disk["ComponentURI"]) \subseteq KeysOf(disk["ServiceURI"])

Unpacks(p) == p \in unpacking => pc[p] \in { "extract", "timeout" }

EmptyCopy(p) ==
  /\ pc[p] = "off" => at[p] = 1
  /\ pc[p] \in Opening \cup { "off" } /\ at[p] = 1 =>
       mem[p]["ServiceURI"] = {} /\ mem[p]["ComponentURI"] = {}

FirstFile(p) ==
  pc[p] \in { "create", "write new" } /\ at[p] = 1 => disk["ComponentURI"] = {}

CopyRegisters(p) ==
  /\ status["ServiceURI"] # "absent"
  /\ disk["ServiceURI"] \subseteq mem[p]["ServiceURI"]
  /\ ServicesOf(disk["ComponentURI"]) \subseteq KeysOf(mem[p]["ServiceURI"])
  /\ ServicesOf(mem[p]["ComponentURI"]) \subseteq KeysOf(mem[p]["ServiceURI"])
  /\ pc[p] \notin Entering /\ status["ServiceURI"] = "json" =>
       mem[p]["ServiceURI"] \subseteq disk["ServiceURI"]
  /\ pc[p] \in Copied \ { "check_service_uri" } =>
       deployedURI[p] \in KeysOf(mem[p]["ServiceURI"])

CopyExtracted(p) ==
  /\ \A e \in mem[p]["ServiceURI"] :
       e[2] \in extracted \/ (e[2] = deployedURI[p] /\ p \in unpacking)
  /\ ServicesOf(mem[p]["ComponentURI"]) \subseteq extracted

CopyTold(p) ==
  /\ Unpacks(p)
  /\ EmptyCopy(p)
  /\ FirstFile(p)
  /\ SelfKeyed(mem[p]["ServiceURI"])
  /\ Loaded(p) => CopyRegisters(p)
  /\ pc[p] \in Running => CopyExtracted(p)

RegInv ==
  /\ FilesRegister
  /\ RegisteredIsExtracted
  /\ \A p \in Deployers : CopyTold(p)

GoodArchives == "extract" \notin Faults /\ "slow flush" \notin Faults

(* Before the first deployer starts nothing is registered.                 *)
LEMMA InitRegInv == Init => RegInv
<1> SUFFICES ASSUME Init PROVE RegInv
  OBVIOUS
<1>1. /\ "ServiceURI" \in Files /\ "ComponentURI" \in Files
  BY DEF Files
<1>2. FilesRegister /\ RegisteredIsExtracted
  BY <1>1 DEF Init, FilesRegister, RegisteredIsExtracted, SelfKeyed
<1>3. ASSUME NEW p \in Deployers PROVE CopyTold(p)
  <2>1. /\ pc[p] = "off" /\ at[p] = 1 /\ p \notin unpacking
        /\ mem[p]["ServiceURI"] = {} /\ mem[p]["ComponentURI"] = {}
    BY <1>1 DEF Init
  <2>2. ~ Loaded(p) /\ pc[p] \notin Running
    BY <2>1 DEF Loaded, Copied, Opening, Running
  <2> QED
    BY <2>1, <2>2
    DEF CopyTold, Unpacks, EmptyCopy, FirstFile, SelfKeyed
<1> QED
  BY <1>2, <1>3 DEF RegInv

(* An assignment to one copy.                                              *)
LEMMA CopyChanged ==
  ASSUME TypeOK, NEW p \in Deployers, NEW f \in Files, NEW db,
         mem' = [ mem EXCEPT ![p][f] = db ]
  PROVE  /\ mem'[p][f] = db
         /\ \A g \in Files : g # f => mem'[p][g] = mem[p][g]
         /\ \A q \in Deployers : q # p => mem'[q] = mem[q]
BY DEF TypeOK

(* A step of the save of one file.                                         *)
LEMMA FileSaved ==
  ASSUME TypeOK, NEW f \in Files, NEW db, Truncate(f) \/ WriteText(f, db)
  PROVE  /\ \/ status'[f] \in { "empty", "torn" } /\ disk'[f] = {}
            \/ status'[f] = "json" /\ disk'[f] = db /\ WriteText(f, db)
         /\ \A g \in Files :
              g # f => status'[g] = status[g] /\ disk'[g] = disk[g]
BY DEF TypeOK, Truncate, WriteText

(* While one deployer moves, what is said of the others stays true.        *)
LEMMA OthersTold ==
  ASSUME XInv, RegInv, NEW p \in Deployers, at' = [ at EXCEPT ![p] = at'[p] ],
         \A q \in Deployers :
           q # p => /\ pc[q] \notin Running /\ pc'[q] = pc[q]
                    /\ mem'[q]["ServiceURI"] = mem[q]["ServiceURI"]
                    /\ mem'[q]["ComponentURI"] = mem[q]["ComponentURI"]
                    /\ q \in unpacking' => q \in unpacking,
         FilesRegister', RegisteredIsExtracted', CopyTold(p)'
  PROVE  RegInv'
<1>1. ASSUME NEW q \in Deployers, q # p PROVE CopyTold(q)'
  <2>1. /\ pc'[q] = pc[q] /\ pc[q] \notin Running
        /\ mem'[q]["ServiceURI"] = mem[q]["ServiceURI"]
        /\ mem'[q]["ComponentURI"] = mem[q]["ComponentURI"]
        /\ at'[q] = at[q]
    BY <1>1 DEF XInv, TypeOK
  <2>2. CopyTold(q)
    BY DEF RegInv
  <2>3. Unpacks(q)' /\ EmptyCopy(q)' /\ SelfKeyed(mem[q]["ServiceURI"])'
    BY <1>1, <2>1, <2>2 DEF CopyTold, Unpacks, EmptyCopy, SelfKeyed
  <2>4. FirstFile(q)' /\ ~ Loaded(q)'
    BY <2>1 DEF FirstFile, Loaded, Running, Copied, Opening
  <2> QED
    BY <2>1, <2>3, <2>4 DEF CopyTold
<1> QED
  BY <1>1 DEF RegInv

(* A step of the running deployer that touches neither the two databases   *)
(* nor its copies of them nor the files of a service.                      *)
LEMMA QuietStep ==
  ASSUME XInv, RegInv, NEW p \in Deployers, pc[p] \in Running,
         NEW label, Goto(p, label), label # "off",
         status'["ServiceURI"] = status["ServiceURI"],
         disk'["ServiceURI"] = disk["ServiceURI"],
         disk'["ComponentURI"] = disk["ComponentURI"],
         \A q \in Deployers :
           /\ mem'[q]["ServiceURI"] = mem[q]["ServiceURI"]
           /\ mem'[q]["ComponentURI"] = mem[q]["ComponentURI"],
         UNCHANGED <<at, extracted>>,
         unpacking' \subseteq unpacking,
         p \in unpacking =>
           \/ p \in unpacking' /\ label \in { "extract", "timeout" }
           \/ p \notin unpacking' /\ label \notin Running,
         label \in Opening => pc[p] \in Opening,
         label \in Copied => Loaded(p),
         label \in Copied \ Entering => pc[p] \notin Entering,
         label \in Copied \ { "check_service_uri" } =>
           deployedURI[p] \in KeysOf(mem[p]["ServiceURI"]),
         label \in { "create", "write new" } /\ at[p] = 1 =>
           disk["ComponentURI"] = {}
  PROVE  RegInv'
<1>1. /\ pc'[p] = label
      /\ \A q \in Deployers : q # p => pc'[q] = pc[q] /\ pc[q] \notin Running
  BY MovesAlone
<1>t. CopyTold(p) /\ FilesRegister /\ RegisteredIsExtracted
  BY DEF RegInv
<1>2. FilesRegister'
  BY <1>t DEF FilesRegister, SelfKeyed, ServicesOf, KeysOf
<1>3. RegisteredIsExtracted'
  BY <1>t DEF RegisteredIsExtracted
<1>4. Unpacks(p)'
  BY <1>1 DEF Unpacks
<1>5. EmptyCopy(p)' /\ FirstFile(p)'
  BY <1>1, <1>t DEF CopyTold, EmptyCopy, FirstFile
<1>6. SelfKeyed(mem[p]["ServiceURI"])'
  BY <1>t DEF CopyTold, SelfKeyed
<1>7. ASSUME Loaded(p)' PROVE CopyRegisters(p)'
  <2>1. Loaded(p)
    BY <1>1, <1>7 DEF Loaded, Copied, Opening
  <2>2. CopyRegisters(p)
    BY <1>t, <2>1 DEF CopyTold
  <2>3. pc'[p] \notin Entering => pc[p] \notin Entering
    BY <1>1, <1>7 DEF Loaded, Opening, Entering
  <2> QED
    BY <1>1, <2>2, <2>3 DEF CopyRegisters, ServicesOf, KeysOf
<1>8. ASSUME pc'[p] \in Running PROVE CopyExtracted(p)'
  <2>1. CopyExtracted(p)
    BY <1>t DEF CopyTold
  <2> QED
    BY <1>1, <1>8, <2>1 DEF CopyExtracted, ServicesOf
<1>9. CopyTold(p)'
  BY <1>4, <1>5, <1>6, <1>7, <1>8 DEF CopyTold
<1>10. at' = [ at EXCEPT ![p] = at'[p] ]
  BY DEF XInv, TypeOK
<1> QED
  BY <1>1, <1>2, <1>3, <1>9, <1>10, OthersTold

(* A step of the running deployer keeps the invariant when it does so for  *)
(* the files and for its own copy.                                         *)
LEMMA OwnStep ==
  ASSUME XInv, RegInv, NEW p \in Deployers, pc[p] \in Running,
         NEW label, Goto(p, label), at' = [ at EXCEPT ![p] = at'[p] ],
         \A q \in Deployers :
           q # p => /\ mem'[q]["ServiceURI"] = mem[q]["ServiceURI"]
                    /\ mem'[q]["ComponentURI"] = mem[q]["ComponentURI"],
         unpacking' \subseteq unpacking \cup { p },
         FilesRegister', RegisteredIsExtracted', CopyTold(p)'
  PROVE  RegInv'
<1>1. \A q \in Deployers : q # p => pc'[q] = pc[q] /\ pc[q] \notin Running
  BY MovesAlone
<1> QED
  BY <1>1, OthersTold

(* A deployer that starts has copied nothing.                              *)
LEMMA StartTold ==
  ASSUME Exclusive, XInv, RegInv, NEW p \in Deployers, Start(p)
  PROVE  RegInv'
<1>t. CopyTold(p) /\ FilesRegister /\ RegisteredIsExtracted
  BY DEF RegInv
<1>1. /\ pc[p] = "off" /\ pc'[p] = "check_DB"
      /\ UNCHANGED <<status, disk, mem, at, extracted, unpacking>>
  BY DEF Start, XInv, TypeOK
<1>2. \A q \in Deployers : q # p => pc'[q] = pc[q] /\ pc[q] \notin Running
  BY DEF Start, XInv, TypeOK, Settled, Running
<1>3. /\ at[p] = 1 /\ p \notin unpacking
      /\ mem[p]["ServiceURI"] = {} /\ mem[p]["ComponentURI"] = {}
  BY <1>1, <1>t DEF CopyTold, EmptyCopy, Unpacks
<1>4. FilesRegister' /\ RegisteredIsExtracted'
  BY <1>1, <1>t
  DEF FilesRegister, RegisteredIsExtracted, SelfKeyed, ServicesOf, KeysOf
<1>5. Unpacks(p)' /\ EmptyCopy(p)' /\ FirstFile(p)'
  BY <1>1, <1>3 DEF Unpacks, EmptyCopy, FirstFile
<1>6. SelfKeyed(mem[p]["ServiceURI"])' /\ CopyExtracted(p)'
  BY <1>1, <1>3 DEF SelfKeyed, CopyExtracted, ServicesOf
<1>7. ~ Loaded(p)'
  BY <1>1, <1>3 DEF Loaded, Copied
<1>8. at' = [ at EXCEPT ![p] = at'[p] ]
  BY <1>1 DEF XInv, TypeOK
<1> QED
  BY <1>1, <1>2, <1>4, <1>5, <1>6, <1>7, <1>8, OthersTold DEF CopyTold

(* A new database is empty: ServiceURI.json is only made anew when         *)
(* ComponentURI.json is empty too.                                         *)
LEMMA NewFileTold ==
  ASSUME XInv, RegInv, NEW p \in Deployers, OpenNewDB(p) \/ WriteNewDB(p)
  PROVE  RegInv'
<1> DEFINE f == DBs[at[p]]
<1>t. TypeOK /\ CopyTold(p) /\ FilesRegister /\ RegisteredIsExtracted
  BY DEF RegInv, XInv
<1>f. /\ "ServiceURI" \in Files /\ "ComponentURI" \in Files
      /\ f \in Files /\ at[p] \in 1 .. 3
      /\ (at[p] = 1 => f = "ServiceURI") /\ (at[p] = 2 => f = "ComponentURI")
      /\ (at[p] = 3 => f = "ServicesRuning")
  BY <1>t, OpeningFile DEF Files, TypeOK, DBs
<1>1. PICK label :
        /\ label \in { "write new", "require" }
        /\ Goto(p, label) /\ pc[p] \in { "create", "write new" }
        /\ UNCHANGED <<mem, at, extracted, unpacking>>
        /\ Truncate(f) \/ WriteText(f, {})
  BY DEF OpenNewDB, WriteNewDB
<1>2. /\ pc'[p] = label /\ pc[p] \in Running /\ p \notin unpacking
      /\ pc[p] \in Opening /\ label \in Opening /\ label \notin Copied
      /\ pc[p] \notin Entering /\ label \notin Entering
  BY <1>1, <1>t
  DEF TypeOK, Running, CopyTold, Unpacks, Opening, Copied, Entering
<1>3. /\ disk'[f] = {} /\ status'[f] # "absent"
      /\ \A g \in Files : g # f => status'[g] = status[g] /\ disk'[g] = disk[g]
  BY <1>1, <1>t, <1>f, FileSaved
<1>4. Unpacks(p)' /\ EmptyCopy(p)'
  BY <1>1, <1>2, <1>t DEF Unpacks, EmptyCopy, CopyTold
<1>5. SelfKeyed(mem[p]["ServiceURI"])' /\ CopyExtracted(p)'
  BY <1>1, <1>2, <1>t DEF SelfKeyed, CopyExtracted, ServicesOf, CopyTold
<1>6. at' = [ at EXCEPT ![p] = at'[p] ]
  BY <1>1, <1>t DEF TypeOK
<1>7. CASE at[p] = 1
  <2>1. disk["ComponentURI"] = {} /\ disk'["ComponentURI"] = {}
        /\ disk'["ServiceURI"] = {} /\ status'["ServiceURI"] # "absent"
    BY <1>1, <1>3, <1>7, <1>f, <1>t DEF CopyTold, FirstFile
  <2>2. FilesRegister' /\ RegisteredIsExtracted'
    BY <2>1
    DEF FilesRegister, RegisteredIsExtracted, SelfKeyed, ServicesOf, KeysOf
  <2>3. at'[p] = 1 /\ ~ (at'[p] > 1)
    <3>1. at' = at
      BY <1>1
    <3> QED
      BY <1>7, <3>1
  <2>4. FirstFile(p)' /\ ~ Loaded(p)'
    BY <1>2, <2>1, <2>3 DEF FirstFile, Loaded
  <2> QED
    BY <1>1, <1>2, <1>4, <1>5, <1>6, <2>2, <2>4, OwnStep DEF CopyTold
<1>8. CASE at[p] = 2
  <2>1. disk'["ComponentURI"] = {}
        /\ disk'["ServiceURI"] = disk["ServiceURI"]
        /\ status'["ServiceURI"] = status["ServiceURI"]
    BY <1>3, <1>8, <1>f
  <2>2. FilesRegister' /\ RegisteredIsExtracted'
    BY <1>1, <1>t, <2>1
    DEF FilesRegister, RegisteredIsExtracted, SelfKeyed, ServicesOf, KeysOf
  <2>0. at[p] > 1 /\ at[p] # 1
    BY <1>8
  <2>3. FirstFile(p)' /\ Loaded(p)
    BY <1>2, <2>0, <2>1 DEF FirstFile, Loaded
  <2>4. CopyRegisters(p)
    BY <2>3, <1>t DEF CopyTold
  <2>5. CopyRegisters(p)'
    BY <1>1, <1>2, <2>1, <2>4 DEF CopyRegisters, ServicesOf, KeysOf
  <2> QED
    BY <1>1, <1>2, <1>4, <1>5, <1>6, <2>2, <2>3, <2>5, OwnStep DEF CopyTold
<1>9. CASE at[p] = 3
  <2>1. disk'["ComponentURI"] = disk["ComponentURI"]
        /\ disk'["ServiceURI"] = disk["ServiceURI"]
        /\ status'["ServiceURI"] = status["ServiceURI"]
    BY <1>3, <1>9, <1>f
  <2>2. label # "off"
    BY <1>1
  <2>3. at[p] # 1 /\ at[p] > 1
    BY <1>9
  <2> QED
    BY <1>1, <1>2, <2>1, <2>2, <2>3, QuietStep
<1>10. at[p] = 1 \/ at[p] = 2 \/ at[p] = 3
  <2>1. at[p] \in 1 .. 3
    BY <1>f
  <2> QED
    BY <2>1
<1> QED
  BY <1>7, <1>8, <1>9, <1>10

(* The copy of the first database is the file; that of the second names    *)
(* services that are in the first.                                         *)
LEMMA RequireTold ==
  ASSUME XInv, RegInv, NEW p \in Deployers, RequireDB(p)
  PROVE  RegInv'
<1> DEFINE f == DBs[at[p]]
<1>t. TypeOK /\ CopyTold(p) /\ FilesRegister /\ RegisteredIsExtracted
  BY DEF RegInv, XInv
<1>f. /\ "ServiceURI" \in Files /\ "ComponentURI" \in Files
      /\ "ServicesRuning" \in Files /\ f \in Files
      /\ (at[p] = 1 => f = "ServiceURI") /\ (at[p] = 2 => f = "ComponentURI")
      /\ (at[p] = 3 => f = "ServicesRuning")
  BY <1>t, OpeningFile DEF Files, TypeOK, DBs
<1>n. at[p] \in 1 .. 3
  BY <1>t DEF TypeOK
<1>1. /\ pc[p] = "require" /\ UNCHANGED <<status, disk, extracted, unpacking>>
  BY DEF RequireDB
<1>2. /\ pc[p] \in Running /\ p \notin unpacking /\ pc[p] \in Opening
      /\ pc[p] \notin Entering
  BY <1>1, <1>t
  DEF Running, CopyTold, Unpacks, Opening, Entering
<1>3. FilesRegister' /\ RegisteredIsExtracted'
  BY <1>1, <1>t
  DEF FilesRegister, RegisteredIsExtracted, SelfKeyed, ServicesOf, KeysOf
<1>4. CASE status[f] # "json"
  <2>1. Goto(p, "dead") /\ UNCHANGED <<mem, at>>
    BY <1>4 DEF RequireDB
  <2>2. /\ "dead" \notin Opening /\ "dead" \notin Copied
        /\ "dead" \notin { "create", "write new" } /\ "dead" # "off"
    BY DEF Opening, Copied
  <2> QED
    BY <1>1, <1>2, <2>1, <2>2, QuietStep
<1>5. CASE status[f] = "json"
  <2>1. mem' = [ mem EXCEPT ![p][f] = disk[f] ]
    BY <1>5 DEF RequireDB
  <2>2. /\ mem'[p][f] = disk[f]
        /\ \A g \in Files : g # f => mem'[p][g] = mem[p][g]
        /\ \A q \in Deployers : q # p => mem'[q] = mem[q]
    BY <1>t, <1>f, <2>1, CopyChanged
  <2>3. \/ at[p] < 3 /\ at' = [ at EXCEPT ![p] = at[p] + 1 ]
             /\ Goto(p, "check_DB")
        \/ at[p] = 3 /\ at' = at /\ Goto(p, "check_service_uri")
    BY <1>5 DEF RequireDB
  <2>4. CASE at[p] = 3
    <3>1. ~ (at[p] < 3) /\ at[p] # 1 /\ at[p] > 1
      BY <2>4
    <3>2. at' = at /\ Goto(p, "check_service_uri")
      BY <2>3, <3>1
    <3>3. f # "ServiceURI" /\ f # "ComponentURI"
      BY <1>f, <2>4
    <3>4. Loaded(p)
      BY <1>2, <3>1 DEF Loaded
    <3>5. /\ "check_service_uri" \notin Opening
          /\ "check_service_uri" \notin { "create", "write new" }
          /\ "check_service_uri" # "off"
      BY DEF Opening
    <3>6. \A q \in Deployers :
            /\ mem'[q]["ServiceURI"] = mem[q]["ServiceURI"]
            /\ mem'[q]["ComponentURI"] = mem[q]["ComponentURI"]
      BY <1>f, <2>2, <3>3
    <3> QED
      BY <1>1, <1>2, <3>2, <3>4, <3>5, <3>6, QuietStep
  <2>5. ASSUME at[p] # 3
        PROVE  /\ pc'[p] = "check_DB" /\ Goto(p, "check_DB")
               /\ at'[p] = at[p] + 1 /\ at' = [ at EXCEPT ![p] = at'[p] ]
    BY <1>t, <2>3, <2>5 DEF TypeOK
  <2>6. ASSUME at[p] # 3, CopyRegisters(p)', CopyExtracted(p)',
               SelfKeyed(mem[p]["ServiceURI"])'
        PROVE  RegInv'
    <3>1. at'[p] # 1
      <4>1. at'[p] = at[p] + 1
        BY <2>5, <2>6
      <4> QED
        BY <1>n, <4>1
    <3>2. Unpacks(p)' /\ EmptyCopy(p)' /\ FirstFile(p)'
      BY <1>1, <1>2, <2>5, <2>6, <3>1 DEF Unpacks, EmptyCopy, FirstFile
    <3>3. CopyTold(p)'
      BY <2>6, <3>2 DEF CopyTold
    <3> QED
      BY <1>1, <1>2, <1>3, <2>2, <2>5, <2>6, <3>3, OwnStep
  <2>7. CASE at[p] = 1
    <3>0. at[p] # 3
      BY <2>7
    <3>1. /\ mem'[p]["ServiceURI"] = disk["ServiceURI"]
          /\ mem'[p]["ComponentURI"] = {} /\ status["ServiceURI"] = "json"
      BY <1>2, <1>5, <1>f, <1>t, <2>2, <2>7 DEF CopyTold, EmptyCopy
    <3>2. SelfKeyed(mem[p]["ServiceURI"])'
      BY <1>t, <3>1 DEF FilesRegister, SelfKeyed
    <3>3. CopyExtracted(p)'
      BY <1>1, <1>t, <3>1 DEF CopyExtracted, RegisteredIsExtracted, ServicesOf
    <3>4. "check_DB" \notin Copied
      BY DEF Copied
    <3>5. CopyRegisters(p)'
      BY <1>1, <1>t, <2>5, <3>0, <3>1, <3>4
      DEF CopyRegisters, FilesRegister, ServicesOf, KeysOf
    <3> QED
      BY <2>6, <3>0, <3>2, <3>3, <3>5
  <2>8. CASE at[p] = 2
    <3>0. at[p] # 3 /\ at[p] > 1
      BY <2>8
    <3>1. /\ mem'[p]["ServiceURI"] = mem[p]["ServiceURI"]
          /\ mem'[p]["ComponentURI"] = disk["ComponentURI"]
      BY <1>f, <2>2, <2>8
    <3>2. SelfKeyed(mem[p]["ServiceURI"])'
      BY <1>t, <3>1 DEF CopyTold, SelfKeyed
    <3>3. CopyExtracted(p)'
      BY <1>1, <1>2, <1>t, <3>1
      DEF CopyTold, CopyExtracted, RegisteredIsExtracted, ServicesOf
    <3>4. "check_DB" \notin Copied
      BY DEF Copied
    <3>5. CopyRegisters(p)
      BY <1>2, <1>t, <3>0 DEF CopyTold, Loaded
    <3>6. CopyRegisters(p)'
      BY <1>1, <1>2, <2>5, <3>0, <3>1, <3>4, <3>5
      DEF CopyRegisters, ServicesOf, KeysOf
    <3> QED
      BY <2>6, <3>0, <3>2, <3>3, <3>6
  <2>9. at[p] = 1 \/ at[p] = 2 \/ at[p] = 3
    BY <1>n
  <2> QED
    BY <2>4, <2>7, <2>8, <2>9
<1> QED
  BY <1>4, <1>5

(* The files of a service that neither file nor copy names are given up.   *)
LEMMA NewServiceTold ==
  ASSUME XInv, RegInv, NEW p \in Deployers, NewService(p)
  PROVE  RegInv'
<1> DEFINE s == deployedURI[p]
           old == mem[p]["ServiceURI"]
<1>t. TypeOK /\ CopyTold(p) /\ FilesRegister /\ RegisteredIsExtracted
  BY DEF RegInv, XInv
<1>f. "ServiceURI" \in Files /\ "ComponentURI" \in Files
  BY DEF Files
<1>1. /\ pc[p] = "check_service_uri" /\ s \notin KeysOf(old)
      /\ UNCHANGED <<status, disk, at>>
  BY DEF NewService
<1>2. /\ pc[p] \in Running /\ Loaded(p) /\ p \notin unpacking
  BY <1>1, <1>t DEF Running, Loaded, Copied, CopyTold, Unpacks
<1>3. CopyRegisters(p) /\ CopyExtracted(p) /\ SelfKeyed(old)
  BY <1>2, <1>t DEF CopyTold
<1>4. /\ \A e \in old : e[2] # s
      /\ \A e \in disk["ServiceURI"] : e[2] # s
      /\ \A e \in disk["ComponentURI"] : e[2] # s
      /\ \A e \in mem[p]["ComponentURI"] : e[2] # s
  <2>1. \A e \in old : e[1] # s /\ e[2] = e[1]
    BY <1>1, <1>3 DEF KeysOf, SelfKeyed
  <2>2. \A db : ServicesOf(db) \subseteq KeysOf(old) =>
                  \A e \in db : e[2] # s
    BY <1>1 DEF ServicesOf
  <2> QED
    BY <1>3, <2>1, <2>2 DEF CopyRegisters
<1>5. mem' = [ mem EXCEPT ![p]["ServiceURI"] = old \cup { << s, s >> } ]
  BY DEF NewService
<1>6. /\ mem'[p]["ServiceURI"] = old \cup { << s, s >> }
      /\ mem'[p]["ComponentURI"] = mem[p]["ComponentURI"]
      /\ \A q \in Deployers : q # p => mem'[q] = mem[q]
  <2> DEFINE db == old \cup { << s, s >> }
  <2>1. mem' = [ mem EXCEPT ![p]["ServiceURI"] = db ]
    BY <1>5
  <2> HIDE DEF db
  <2>2. /\ mem'[p]["ServiceURI"] = db
        /\ \A g \in Files : g # "ServiceURI" => mem'[p][g] = mem[p][g]
        /\ \A q \in Deployers : q # p => mem'[q] = mem[q]
    BY <1>t, <1>f, <2>1, CopyChanged
  <2> QED
    BY <1>f, <2>2 DEF db
<1>7. PICK label :
        /\ Goto(p, label)
        /\ \/ label = "exit" /\ UNCHANGED <<extracted, unpacking>>
           \/ /\ label = "extract" /\ extracted' = extracted \ { s }
              /\ unpacking' = unpacking \cup { p }
  BY DEF NewService
<1>8. /\ pc'[p] = label /\ label # "off" /\ label \notin Opening
      /\ label \notin { "create", "write new" }
      /\ label \in Copied \/ label \in Running =>
           label = "extract" /\ label \in Entering
  BY <1>7, <1>t DEF TypeOK, Opening, Copied, Running, Entering
<1>9. FilesRegister'
  BY <1>1, <1>t DEF FilesRegister, SelfKeyed, ServicesOf, KeysOf
<1>10. RegisteredIsExtracted'
  BY <1>1, <1>4, <1>7, <1>t DEF RegisteredIsExtracted
<1>11. Unpacks(p)'
  BY <1>2, <1>7, <1>8 DEF Unpacks
<1>12. EmptyCopy(p)' /\ FirstFile(p)'
  BY <1>8 DEF EmptyCopy, FirstFile
<1>13. SelfKeyed(mem[p]["ServiceURI"])'
  BY <1>3, <1>6 DEF SelfKeyed
<1>14. Loaded(p)' => CopyRegisters(p)'
  <2>1. KeysOf(old \cup { << s, s >> }) = KeysOf(old) \cup { s }
    BY KeysOfEntry
  <2>2. Loaded(p)' => pc'[p] \in Entering
    BY <1>8 DEF Loaded
  <2> QED
    BY <1>1, <1>3, <1>6, <2>1, <2>2 DEF CopyRegisters, ServicesOf, KeysOf
<1>15. pc'[p] \in Running => CopyExtracted(p)'
  <2>1. pc'[p] \in Running =>
          extracted' = extracted \ { s } /\ p \in unpacking'
    BY <1>7, <1>8
  <2>2. \A e \in old \cup { << s, s >> } : e \in old \/ e[2] = s
    OBVIOUS
  <2>3. (\A e \in old : e[2] \in extracted) /\
        (\A e \in mem[p]["ComponentURI"] : e[2] \in extracted)
    BY <1>2, <1>3 DEF CopyExtracted, ServicesOf
  <2> QED
    BY <1>4, <1>6, <2>1, <2>2, <2>3 DEF CopyExtracted, ServicesOf
<1>16. CopyTold(p)'
  BY <1>11, <1>12, <1>13, <1>14, <1>15 DEF CopyTold
<1>17. at' = [ at EXCEPT ![p] = at'[p] ]
  BY <1>1, <1>t DEF TypeOK
<1>18. unpacking' \subseteq unpacking \cup { p }
  BY <1>7
<1> QED
  BY <1>2, <1>6, <1>7, <1>9, <1>10, <1>16, <1>17, <1>18, OwnStep

(* Alone, a deployer whose archive is on the disk has a complete service.  *)
LEMMA FlushTold ==
  ASSUME XInv, RegInv, NEW p \in Deployers, Flush(p)
  PROVE  RegInv'
<1> DEFINE s == deployedURI[p]
<1>t. TypeOK /\ CopyTold(p) /\ FilesRegister /\ RegisteredIsExtracted
  BY DEF RegInv, XInv
<1>1. /\ p \in unpacking /\ unpacking' = unpacking \ { p }
      /\ UNCHANGED <<status, disk, mem, pc, at, name>>
  BY DEF Flush
<1>2. \A q \in Deployers : q # p => pc[q] \notin Running /\ q \notin unpacking
  <2>1. pc[p] \in Running
    BY <1>1, <1>t DEF CopyTold, Unpacks, Running
  <2>2. ASSUME NEW q \in Deployers, q \in unpacking PROVE pc[q] \in Running
    BY <2>2 DEF RegInv, CopyTold, Unpacks, Running
  <2> QED
    BY <2>1, <2>2 DEF XInv, OneRunning
<1>3. extracted' = extracted \cup { s }
  BY <1>t, <1>2 DEF Flush, TypeOK
<1>4. FilesRegister' /\ RegisteredIsExtracted'
  BY <1>1, <1>3, <1>t
  DEF FilesRegister, RegisteredIsExtracted, SelfKeyed, ServicesOf, KeysOf
<1>5. Unpacks(p)' /\ EmptyCopy(p)' /\ FirstFile(p)'
      /\ SelfKeyed(mem[p]["ServiceURI"])'
  BY <1>1, <1>t DEF Unpacks, EmptyCopy, FirstFile, SelfKeyed, CopyTold
<1>6. Loaded(p)' => CopyRegisters(p)'
  BY <1>1, <1>t DEF CopyTold, Loaded, CopyRegisters, ServicesOf, KeysOf
<1>7. pc'[p] \in Running => CopyExtracted(p)'
  BY <1>1, <1>3, <1>t DEF CopyTold, CopyExtracted, ServicesOf
<1>8. at' = [ at EXCEPT ![p] = at'[p] ]
  BY <1>1, <1>t DEF TypeOK
<1>9. CopyTold(p)'
  BY <1>5, <1>6, <1>7 DEF CopyTold
<1> QED
  BY <1>1, <1>2, <1>4, <1>8, <1>9, OthersTold

(* The save of ServiceURI.json: nothing at first, then the copy, all of    *)
(* which is extracted by now.                                              *)
LEMMA SaveServiceTold ==
  ASSUME GoodArchives, XInv, RegInv, NEW p \in Deployers,
         SaveService(p) \/ WriteService(p)
  PROVE  RegInv'
<1> DEFINE new == mem[p]["ServiceURI"]
<1>t. TypeOK /\ CopyTold(p) /\ FilesRegister /\ RegisteredIsExtracted
  BY DEF RegInv, XInv
<1>f. "ServiceURI" \in Files /\ "ComponentURI" \in Files
  BY DEF Files
<1>1. PICK label :
        /\ Goto(p, label)
        /\ \/ /\ pc[p] = "timeout" /\ label = "write service"
              /\ Truncate("ServiceURI")
           \/ /\ pc[p] = "write service" /\ label = "read_Service_Json"
              /\ WriteText("ServiceURI", new)
        /\ UNCHANGED <<mem, at, extracted, unpacking>>
  BY DEF SaveService, WriteService
<1>2. p \notin unpacking
  BY <1>t DEF SaveService, WriteService, GoodArchives, CopyTold, Unpacks
<1>3. /\ pc'[p] = label /\ label # "off" /\ label \notin Opening
      /\ label \notin { "create", "write new", "check_service_uri" }
      /\ label \in Running /\ pc[p] \in Running /\ Loaded(p)
      /\ pc[p] \in Copied \ { "check_service_uri" }
  BY <1>1, <1>t DEF TypeOK, Opening, Copied, Running, Loaded
<1>4. CopyRegisters(p) /\ CopyExtracted(p) /\ SelfKeyed(new)
  BY <1>3, <1>t DEF CopyTold
<1>5. /\ \/ status'["ServiceURI"] \in { "empty", "torn" }
            /\ disk'["ServiceURI"] = {}
         \/ /\ status'["ServiceURI"] = "json" /\ disk'["ServiceURI"] = new
      /\ disk'["ComponentURI"] = disk["ComponentURI"]
  <2>1. Truncate("ServiceURI") \/ WriteText("ServiceURI", new)
    BY <1>1
  <2> QED
    BY <1>t, <1>f, <2>1, FileSaved
<1>6. \A e \in new : e[2] \in extracted
  BY <1>2, <1>4 DEF CopyExtracted
<1>7. /\ status'["ServiceURI"] # "absent"
      /\ status'["ServiceURI"] = "json" => disk'["ServiceURI"] = new
      /\ disk'["ServiceURI"] = {} \/ disk'["ServiceURI"] = new
  BY <1>5
<1>8. FilesRegister'
  <2>1. SelfKeyed(disk["ServiceURI"])'
    BY <1>4, <1>7 DEF SelfKeyed
  <2> QED
    BY <1>4, <1>5, <1>7, <2>1
    DEF FilesRegister, CopyRegisters, ServicesOf, KeysOf
<1>9. RegisteredIsExtracted'
  BY <1>1, <1>5, <1>6, <1>7, <1>t DEF RegisteredIsExtracted
<1>10. Unpacks(p)' /\ EmptyCopy(p)' /\ FirstFile(p)'
  BY <1>1, <1>2, <1>3 DEF Unpacks, EmptyCopy, FirstFile
<1>11. SelfKeyed(mem[p]["ServiceURI"])' /\ CopyExtracted(p)'
  BY <1>1, <1>4 DEF SelfKeyed, CopyExtracted, ServicesOf
<1>12. CopyRegisters(p)'
  BY <1>1, <1>3, <1>4, <1>5, <1>7 DEF CopyRegisters, ServicesOf, KeysOf
<1>13. at' = [ at EXCEPT ![p] = at'[p] ]
  BY <1>1, <1>t DEF TypeOK
<1>14. CopyTold(p)'
  BY <1>10, <1>11, <1>12 DEF CopyTold
<1> QED
  BY <1>1, <1>3, <1>8, <1>9, <1>13, <1>14, OwnStep

(* A deployer that reads the files of its service has them.                *)
LEMMA OwnServiceKept ==
  ASSUME RegInv, NEW p \in Deployers,
         pc[p] \in { "read_Service_Json", "check_component_uri",
                     "write component" }
  PROVE  /\ CopyRegisters(p) /\ CopyExtracted(p) /\ p \notin unpacking
         /\ deployedURI[p] \in KeysOf(mem[p]["ServiceURI"])
         /\ deployedURI[p] \in extracted
<1>1. CopyTold(p)
  BY DEF RegInv
<1>2. pc[p] \in Copied \ { "check_service_uri" } /\ pc[p] \in Running
  BY DEF Copied, Running
<1>3. CopyRegisters(p) /\ CopyExtracted(p) /\ p \notin unpacking
  BY <1>1, <1>2 DEF CopyTold, Loaded, Unpacks
<1>4. deployedURI[p] \in KeysOf(mem[p]["ServiceURI"])
  BY <1>2, <1>3 DEF CopyRegisters
<1>5. PICK e \in mem[p]["ServiceURI"] : e[1] = deployedURI[p]
  BY <1>4 DEF KeysOf
<1>6. e[2] = deployedURI[p]
  BY <1>1, <1>5 DEF CopyTold, SelfKeyed
<1> QED
  BY <1>3, <1>4, <1>5, <1>6 DEF CopyExtracted

(* The save of ComponentURI.json: nothing at first, then the copy, with    *)
(* the new component under the service that is being deployed.             *)
LEMMA SaveComponentTold ==
  ASSUME XInv, RegInv, NEW p \in Deployers,
         SaveComponent(p) \/ WriteComponent(p)
  PROVE  RegInv'
<1> DEFINE s == deployedURI[p]
           old == mem[p]["ComponentURI"]
<1>t. TypeOK /\ CopyTold(p) /\ FilesRegister /\ RegisteredIsExtracted
  BY DEF RegInv, XInv
<1>f. "ServiceURI" \in Files /\ "ComponentURI" \in Files
  BY DEF Files
<1>1. PICK label :
        /\ Goto(p, label)
        /\ label \in { "write component", "check_component_uri" }
        /\ pc[p] \in { "write component", "check_component_uri" }
        /\ Truncate("ComponentURI") \/ WriteText("ComponentURI", old)
        /\ UNCHANGED <<at, extracted, unpacking>>
  BY DEF SaveComponent, WriteComponent
<1>2. /\ CopyRegisters(p) /\ CopyExtracted(p) /\ p \notin unpacking
      /\ s \in KeysOf(mem[p]["ServiceURI"]) /\ s \in extracted
  BY <1>1, OwnServiceKept
<1>3. /\ pc'[p] = label /\ label # "off" /\ label \notin Opening
      /\ label \notin { "create", "write new", "check_service_uri" }
      /\ label \in Running /\ pc[p] \in Running
      /\ pc[p] \in Copied \ { "check_service_uri" }
      /\ pc[p] \notin Entering /\ label \notin Entering
  BY <1>1, <1>t DEF TypeOK, Opening, Copied, Running, Entering
<1>4. /\ mem'[p]["ServiceURI"] = mem[p]["ServiceURI"]
      /\ \A e \in mem'[p]["ComponentURI"] : e \in old \/ e[2] = s
      /\ \A q \in Deployers : q # p => mem'[q] = mem[q]
  <2>1. CASE UNCHANGED mem
    BY <2>1
  <2>2. CASE SaveComponent(p)
    <3>1. PICK n \in Missing(p) :
            mem' = [ mem EXCEPT ![p]["ComponentURI"] =
                                  @ \cup { << components[s][n], s >> } ]
      BY <2>2 DEF SaveComponent
    <3> DEFINE db == old \cup { << components[s][n], s >> }
    <3>2. mem' = [ mem EXCEPT ![p]["ComponentURI"] = db ]
      BY <3>1
    <3>3. \A e \in db : e \in old \/ e[2] = s
      OBVIOUS
    <3> HIDE DEF db
    <3>4. /\ mem'[p]["ComponentURI"] = db
          /\ \A g \in Files : g # "ComponentURI" => mem'[p][g] = mem[p][g]
          /\ \A q \in Deployers : q # p => mem'[q] = mem[q]
      BY <1>t, <1>f, <3>2, CopyChanged
    <3> QED
      BY <1>f, <3>3, <3>4
  <2> QED
    BY <2>1, <2>2 DEF WriteComponent
<1>5. /\ disk'["ComponentURI"] = {} \/ disk'["ComponentURI"] = old
      /\ disk'["ServiceURI"] = disk["ServiceURI"]
      /\ status'["ServiceURI"] = status["ServiceURI"]
  <2>1. Truncate("ComponentURI") \/ WriteText("ComponentURI", old)
    BY <1>1
  <2> QED
    BY <1>t, <1>f, <2>1, FileSaved
<1>6. /\ \A e \in disk'["ComponentURI"] : e \in old
      /\ ServicesOf(disk'["ComponentURI"]) \subseteq ServicesOf(old)
  BY <1>5 DEF ServicesOf
<1>7. FilesRegister'
  <2>1. SelfKeyed(disk["ServiceURI"])'
    BY <1>5, <1>t DEF FilesRegister, SelfKeyed
  <2>2. status["ServiceURI"] # "absent"
    BY <1>2 DEF CopyRegisters
  <2>3. ServicesOf(old) \subseteq KeysOf(mem[p]["ServiceURI"])
    BY <1>2 DEF CopyRegisters
  <2>4. status["ServiceURI"] = "json" =>
          mem[p]["ServiceURI"] \subseteq disk["ServiceURI"]
    BY <1>2, <1>3 DEF CopyRegisters
  <2> QED
    BY <1>5, <1>6, <2>1, <2>2, <2>3, <2>4
    DEF FilesRegister, ServicesOf, KeysOf
<1>8. RegisteredIsExtracted'
  <2>1. \A e \in old : e[2] \in extracted
    BY <1>2 DEF CopyExtracted, ServicesOf
  <2> QED
    BY <1>1, <1>5, <1>6, <1>t, <2>1 DEF RegisteredIsExtracted
<1>9. Unpacks(p)' /\ EmptyCopy(p)' /\ FirstFile(p)'
  BY <1>1, <1>2, <1>3 DEF Unpacks, EmptyCopy, FirstFile
<1>10. SelfKeyed(mem[p]["ServiceURI"])'
  BY <1>4, <1>t DEF SelfKeyed, CopyTold
<1>11. CopyExtracted(p)'
  BY <1>1, <1>2, <1>4 DEF CopyExtracted, ServicesOf
<1>12. CopyRegisters(p)'
  <2>1. \A e \in old : e[2] \in KeysOf(mem[p]["ServiceURI"])
    BY <1>2 DEF CopyRegisters, ServicesOf
  <2>2. ServicesOf(mem'[p]["ComponentURI"]) \subseteq KeysOf(mem[p]["ServiceURI"])
    BY <1>2, <1>4, <2>1 DEF ServicesOf
  <2>3. ServicesOf(disk'["ComponentURI"]) \subseteq KeysOf(mem[p]["ServiceURI"])
    BY <1>6, <2>1 DEF ServicesOf
  <2> QED
    BY <1>2, <1>3, <1>4, <1>5, <2>2, <2>3
    DEF CopyRegisters, ServicesOf, KeysOf
<1>13. at' = [ at EXCEPT ![p] = at'[p] ]
  BY <1>1, <1>t DEF TypeOK
<1>14. CopyTold(p)'
  BY <1>9, <1>10, <1>11, <1>12 DEF CopyTold
<1> QED
  BY <1>1, <1>3, <1>4, <1>7, <1>8, <1>13, <1>14, OwnStep

(* Every step keeps the databases and the extracted files in agreement.    *)
LEMMA NextRegInv ==
  ASSUME Exclusive, GoodArchives, XInv, RegInv, [Next]_vars
  PROVE  RegInv'
<1>t. TypeOK /\ FilesRegister /\ RegisteredIsExtracted
  BY DEF RegInv, XInv
<1>f. /\ "ServiceURI" \in Files /\ "ComponentURI" \in Files
      /\ "ServicesRuning" \in Files
  BY DEF Files
<1>1. ASSUME NEW p \in Deployers, FindDB(p) PROVE RegInv'
  <2>1. PICK label :
          /\ Goto(p, label) /\ label \in { "create", "require" }
          /\ label = "create" => status[DBs[at[p]]] = "absent"
          /\ pc[p] = "check_DB"
          /\ UNCHANGED <<status, disk, mem, at, extracted, unpacking>>
    BY <1>1 DEF FindDB
  <2>2. label = "create" /\ at[p] = 1 => disk["ComponentURI"] = {}
    BY <2>1, <1>t DEF FilesRegister, DBs
  <2>3. /\ pc[p] \in Running /\ pc[p] \in Opening /\ p \notin unpacking
        /\ label \notin Copied /\ label # "off" /\ label # "write new"
    BY <2>1 DEF RegInv, CopyTold, Unpacks, Running, Opening, Copied
  <2> QED
    BY <2>1, <2>2, <2>3, QuietStep
<1>2. ASSUME NEW p \in Deployers,
             KnownService(p) \/ ExtractCallback(p) \/ read_Service_Json(p)
      PROVE  RegInv'
  <2>1. PICK label :
          /\ Goto(p, label)
          /\ label \in { "read_Service_Json", "timeout", "dead", "exit",
                         "check_component_uri" }
          /\ pc[p] \in { "check_service_uri", "extract", "read_Service_Json" }
          /\ pc[p] = "extract" <=> label = "timeout"
          /\ pc[p] = "check_service_uri" =>
               deployedURI[p] \in KeysOf(mem[p]["ServiceURI"])
          /\ UNCHANGED <<status, disk, mem, at, extracted, unpacking>>
    BY <1>2 DEF KnownService, ExtractCallback, read_Service_Json, GoodArchives
  <2>2. /\ pc[p] \in Running /\ Loaded(p)
        /\ p \in unpacking => pc[p] = "extract"
        /\ label # "off" /\ label \notin Opening
        /\ label \notin { "create", "write new" }
        /\ label \in Copied \ Entering => pc[p] \notin Entering
    BY <2>1 DEF RegInv, CopyTold, Unpacks, Running, Opening, Copied, Loaded,
       Entering
  <2>3. deployedURI[p] \in KeysOf(mem[p]["ServiceURI"])
    BY <2>1, <2>2 DEF RegInv, CopyTold, CopyRegisters, Copied
  <2> QED
    BY <2>1, <2>2, <2>3, QuietStep
<1>3. ASSUME NEW p \in Deployers, check_Service_Runing_DB(p) \/ WriteRuning(p)
      PROVE  RegInv'
  <2> DEFINE f == "ServicesRuning"
  <2>1. PICK label :
          /\ Goto(p, label)
          /\ \/ label = "write runing" /\ pc[p] = "check_component_uri"
             \/ label = "create_network" /\ pc[p] = "write runing"
          /\ UNCHANGED <<at, extracted, unpacking>>
    <3>1. CASE check_Service_Runing_DB(p)
      BY <3>1 DEF check_Service_Runing_DB
    <3>2. CASE WriteRuning(p)
      BY <3>2 DEF WriteRuning
    <3> QED
      BY <1>3, <3>1, <3>2
  <2>2. /\ pc[p] \in Running /\ Loaded(p) /\ p \notin unpacking
        /\ pc[p] \in Copied \ { "check_service_uri" }
        /\ label # "off" /\ label \notin Opening
        /\ label \notin { "create", "write new" } /\ pc[p] \notin Entering
    BY <2>1 DEF RegInv, CopyTold, Unpacks, Running, Opening, Copied, Loaded,
       Entering
  <2>3. deployedURI[p] \in KeysOf(mem[p]["ServiceURI"])
    BY <2>2 DEF RegInv, CopyTold, CopyRegisters
  <2>4. Truncate(f) \/ WriteText(f, mem[p][f])
    BY <1>3 DEF check_Service_Runing_DB, WriteRuning
  <2>5. \A g \in Files : g # f => status'[g] = status[g] /\ disk'[g] = disk[g]
    BY <1>t, <1>f, <2>4, FileSaved
  <2>6. mem' = mem \/ \E db : mem' = [ mem EXCEPT ![p][f] = db ]
    <3>1. CASE check_Service_Runing_DB(p)
      <4>1. PICK c \in Count :
              mem' = [ mem EXCEPT ![p][f] =
                @ \cup { << InstanceName(deployedURI[p], c), deployedURI[p] >> } ]
        BY <3>1 DEF check_Service_Runing_DB
      <4> DEFINE db == mem[p][f] \cup
                   { << InstanceName(deployedURI[p], c), deployedURI[p] >> }
      <4>2. mem' = [ mem EXCEPT ![p][f] = db ]
        BY <4>1
      <4> QED
        BY <4>2
    <3>2. CASE WriteRuning(p)
      BY <3>2 DEF WriteRuning
    <3> QED
      BY <1>3, <3>1, <3>2
  <2>7. \A q \in Deployers, g \in Files : g # f => mem'[q][g] = mem[q][g]
    BY <1>t, <1>f, <2>6, CopyChanged
  <2> QED
    BY <1>f, <2>1, <2>2, <2>3, <2>5, <2>7, QuietStep
<1>4. ASSUME NEW p \in Deployers, Crash(p) PROVE RegInv'
  <2>1. /\ Goto(p, "dead") /\ pc[p] \in Running
        /\ unpacking' = unpacking \ { p }
        /\ UNCHANGED <<status, disk, mem, at, extracted>>
    BY <1>4, <1>t DEF Crash, TypeOK
  <2>2. /\ "dead" \notin Opening /\ "dead" \notin Copied /\ "dead" # "off"
        /\ "dead" \notin Running /\ "dead" \notin { "create", "write new" }
    BY DEF Opening, Copied, Running
  <2> QED
    BY <2>1, <2>2, QuietStep
<1>5. CASE UNCHANGED vars
  <2>1. FilesRegister' /\ RegisteredIsExtracted'
    BY <1>5, <1>t
    DEF vars, FilesRegister, RegisteredIsExtracted, SelfKeyed, ServicesOf, KeysOf
  <2>2. ASSUME NEW p \in Deployers PROVE CopyTold(p)'
    BY <1>5
    DEF vars, RegInv, CopyTold, Unpacks, EmptyCopy, FirstFile, SelfKeyed,
        Loaded, CopyRegisters, CopyExtracted, ServicesOf, KeysOf
  <2> QED
    BY <2>1, <2>2 DEF RegInv
<1> QED
  BY <1>1, <1>2, <1>3, <1>4, <1>5, StartTold, NewFileTold, RequireTold,
     NewServiceTold, FlushTold, SaveServiceTold, SaveComponentTold
  DEF Next, Step

(* One deployer at a time, good archives and two seconds enough, crashing  *)
(* anywhere: what the databases name has its files.                        *)
THEOREM RegisteredStaysExtracted ==
  ASSUME Exclusive, GoodArchives
  PROVE  Spec => []RegisteredIsExtracted
<1>1. XInv /\ XInv' /\ RegInv /\ [Next]_vars => RegInv'
  BY NextRegInv
<1>2. RegInv => RegisteredIsExtracted
  BY DEF RegInv
<1> QED
  BY <1>1, <1>2, InitRegInv, ExclusiveInvariant, PTL DEF Spec

=============================================================================

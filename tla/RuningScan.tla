------------------------------- MODULE RuningScan -------------------------------
(***************************************************************************)
(* The search of check_Service_Runing_DB (src/Deployer.js) for the name of *)
(* a new instance, statement by statement: a "while" that repeats a pass   *)
(* over the keys of ServicesRuning_DB, in the order of their insertion, as *)
(* long as the last pass moved the counter.  The counter moves inside a    *)
(* pass, so the keys already passed are not compared with its new value.   *)
(***************************************************************************)
EXTENDS InstanceNames, Sequences, TLAPS

CONSTANT
  MaxKeys   \* bound on the number of keys of the database

ASSUME MaxKeysAssumption == MaxKeys \in Nat

VARIABLES
  db,            \* ServicesRuning_DB: its keys in the order of insertion
  service,       \* the parameter serviceURI
  count,         \* var count
  i,             \* position in the "for ... in" over the keys
  incremented,   \* var incremented
  pc

vars == << db, service, count, i, incremented, pc >>

Keys(s) == { s[j] : j \in 1 .. Len(s) }

-----------------------------------------------------------------------------

Init ==
  /\ db = << >>
  /\ service \in Services
  /\ count = 0
  /\ i = 1
  /\ incremented = TRUE
  /\ pc = "idle"

(* Mutation: the counter is not reset between two calls.                   *)
CallKeepingCount(s) ==
  /\ pc = "idle"
  /\ Len(db) < MaxKeys
  /\ service' = s
  /\ incremented' = TRUE
  /\ pc' = "while"
  /\ UNCHANGED <<db, count, i>>

(* The call: count = 0, incremented = true.                                *)
Call(s) ==
  /\ pc = "idle"
  /\ Len(db) < MaxKeys
  /\ service' = s
  /\ count' = 0
  /\ incremented' = TRUE
  /\ pc' = "while"
  /\ UNCHANGED <<db, i>>

(* while(incremented){ incremented = false; for(var i in ...)              *)
BeginPass ==
  /\ pc = "while"
  /\ incremented
  /\ incremented' = FALSE
  /\ i' = 1
  /\ pc' = "for"
  /\ UNCHANGED <<db, service, count>>

(* One key of the pass: if(i === ServiceIDName+count){ count++; ... }      *)
CompareKey ==
  /\ pc = "for"
  /\ i <= Len(db)
  /\ \/ /\ db[i] = InstanceName(service, count)
        /\ count < MaxCount
        /\ count' = count + 1
        /\ incremented' = TRUE
     \/ /\ db[i] # InstanceName(service, count)
        /\ UNCHANGED <<count, incremented>>
  /\ i' = i + 1
  /\ UNCHANGED <<db, service, pc>>

(* Mutation: the search stops after its first pass.                        *)
SinglePass ==
  /\ pc = "for"
  /\ i > Len(db)
  /\ incremented' = FALSE
  /\ pc' = "while"
  /\ UNCHANGED <<db, service, count, i>>

(* Mutation: the flag survives the pass that set it, or one that did not.  *)
FlagStuck ==
  /\ pc = "for"
  /\ i > Len(db)
  /\ incremented' = (count > 0)
  /\ pc' = "while"
  /\ UNCHANGED <<db, service, count, i>>

EndPass ==
  /\ pc = "for"
  /\ i > Len(db)
  /\ pc' = "while"
  /\ UNCHANGED <<db, service, count, i, incremented>>

(* ServicesRuning_DB[ServiceIDName+count]=serviceURI, and the save         *)
Register ==
  /\ pc = "while"
  /\ ~ incremented
  /\ db' = Append(db, InstanceName(service, count))
  /\ pc' = "idle"
  /\ UNCHANGED <<service, count, i, incremented>>

Step == BeginPass \/ CompareKey \/ EndPass \/ Register

Next ==
  \/ \E s \in Services : Call(s)
  \/ Step

Spec == Init /\ [][Next]_vars /\ WF_vars(Step)

-----------------------------------------------------------------------------
(***************************************************************************)
(* Properties                                                              *)
(***************************************************************************)

(* The types of the variables of check_Service_Runing_DB.                  *)
TypeOK ==
  /\ db \in Seq(Names)
  /\ service \in Services
  /\ count \in Count
  /\ i \in 1 .. Len(db) + 1
  /\ incremented \in BOOLEAN
  /\ pc \in { "idle", "while", "for" }

(* Where the loop stops (the last pass moved nothing), the counter is the  *)
(* first one whose name no key of the whole database has, although the     *)
(* keys compared before the counter last moved were compared with an older *)
(* value and the keys of other services may lie anywhere among them.       *)
ScanFindsFirstFree ==
  pc = "while" /\ ~ incremented => FirstFree(service, count, Keys(db))

Abstract == INSTANCE RuningDB WITH issued <- Keys(db)

(* The scan, its passes hidden, is the one-step registration of RuningDB.  *)
ImplementsRuningDB == Abstract!Spec

(* Every call of check_Service_Runing_DB returns.                          *)
ScanTerminates == pc = "while" ~> pc = "idle"

-----------------------------------------------------------------------------
(***************************************************************************)
(* The search is correct for every database, every set of services and     *)
(* every naming of instances in which the counts of one service give       *)
(* distinct names.                                                         *)
(***************************************************************************)

(***************************************************************************)
(* The inductive invariant.  Every count below the counter is taken; in a  *)
(* pass that has moved nothing so far, the keys already compared differ    *)
(* from the current name (had the counter moved, they were compared with   *)
(* an older name and say nothing); hence after such a pass no key has it.  *)
(***************************************************************************)
BelowTaken ==
  pc # "idle" =>
    \A d \in Count : d < count => InstanceName(service, d) \in Keys(db)

ComparedDiffer ==
  pc = "for" /\ ~ incremented =>
    \A j \in 1 .. i - 1 : db[j] # InstanceName(service, count)

QuietPassMissed ==
  pc = "while" /\ ~ incremented =>
    \A j \in 1 .. Len(db) : db[j] # InstanceName(service, count)

IInv == TypeOK /\ BelowTaken /\ ComparedDiffer /\ QuietPassMissed

(* A name of a service of the model is a name.                             *)
LEMMA NameType ==
  ASSUME NEW s \in Services, NEW c \in Count
  PROVE  InstanceName(s, c) \in Names
BY DEF Names

(* Appending a key to the database adds it to its set of keys.             *)
LEMMA KeysOfAppend ==
  ASSUME NEW s \in Seq(Names), NEW n \in Names
  PROVE  Keys(Append(s, n)) = Keys(s) \cup { n }
<1>1. Len(Append(s, n)) = Len(s) + 1 /\ Len(s) \in Nat
  OBVIOUS
<1>2. \A j \in 1 .. Len(s) : Append(s, n)[j] = s[j]
  OBVIOUS
<1>3. Append(s, n)[Len(s) + 1] = n
  OBVIOUS
<1> QED
  BY <1>1, <1>2, <1>3 DEF Keys

(* The initial state of the scan satisfies the inductive invariant.        *)
LEMMA InitIInv == Init => IInv
<1> SUFFICES ASSUME Init PROVE IInv
  OBVIOUS
<1>1. TypeOK
  BY MaxCountAssumption DEF Init, TypeOK, Count
<1> QED
  BY <1>1 DEF Init, IInv, BelowTaken, ComparedDiffer, QuietPassMissed

(* Every statement of the loop preserves the inductive invariant.          *)
LEMMA NextIInv == IInv /\ [Next]_vars => IInv'
<1> SUFFICES ASSUME IInv, [Next]_vars PROVE IInv'
  OBVIOUS
<1> USE MaxCountAssumption DEF IInv, TypeOK, Count
<1>1. ASSUME NEW s \in Services, Call(s) PROVE IInv'
  <2>1. TypeOK'
    BY <1>1 DEF Call
  <2>2. BelowTaken'
    BY <1>1 DEF Call, BelowTaken
  <2> QED
    BY <1>1, <2>1, <2>2 DEF Call, ComparedDiffer, QuietPassMissed
<1>2. CASE BeginPass
  <2>1. TypeOK'
    <3>1. Len(db) \in Nat
      OBVIOUS
    <3>2. i' \in 1 .. Len(db) + 1 /\ db' = db
      BY <1>2, <3>1 DEF BeginPass
    <3> QED
      BY <1>2, <3>2 DEF BeginPass
  <2>2. BelowTaken'
    BY <1>2 DEF BeginPass, BelowTaken
  <2>3. ComparedDiffer' /\ QuietPassMissed'
    BY <1>2 DEF BeginPass, ComparedDiffer, QuietPassMissed
  <2> QED
    BY <2>1, <2>2, <2>3
<1>3. CASE CompareKey
  <2>1. CASE db[i] = InstanceName(service, count)
    <3>1. /\ count < MaxCount
          /\ count' = count + 1
          /\ incremented' = TRUE
          /\ i' = i + 1
          /\ UNCHANGED <<db, service, pc>>
          /\ pc = "for"
          /\ i \in 1 .. Len(db)
      BY <1>3, <2>1 DEF CompareKey
    <3>2. TypeOK'
      BY <3>1
    <3>3. InstanceName(service, count) \in Keys(db)
      BY <2>1, <3>1 DEF Keys
    <3>4. BelowTaken'
      BY <3>1, <3>3 DEF BelowTaken
    <3> QED
      BY <3>1, <3>2, <3>4 DEF ComparedDiffer, QuietPassMissed
  <2>2. CASE db[i] # InstanceName(service, count)
    <3>1. /\ UNCHANGED <<count, incremented, db, service, pc>>
          /\ i' = i + 1
          /\ pc = "for"
          /\ i \in 1 .. Len(db)
      BY <1>3, <2>2 DEF CompareKey
    <3>2. TypeOK'
      BY <3>1
    <3>3. BelowTaken' /\ QuietPassMissed'
      BY <3>1 DEF BelowTaken, QuietPassMissed
    <3>4. ComparedDiffer'
      BY <2>2, <3>1 DEF ComparedDiffer
    <3> QED
      BY <3>2, <3>3, <3>4
  <2> QED
    BY <2>1, <2>2
<1>4. CASE EndPass
  <2>1. TypeOK' /\ BelowTaken' /\ ComparedDiffer'
    BY <1>4 DEF EndPass, BelowTaken, ComparedDiffer
  <2>2. QuietPassMissed'
    BY <1>4 DEF EndPass, ComparedDiffer, QuietPassMissed
  <2> QED
    BY <2>1, <2>2
<1>5. CASE Register
  <2>1. InstanceName(service, count) \in Names
    BY NameType
  <2>2. db' \in Seq(Names) /\ Len(db') = Len(db) + 1
    BY <1>5, <2>1 DEF Register
  <2>3. TypeOK'
    BY <1>5, <2>2 DEF Register
  <2> QED
    BY <1>5, <2>3
    DEF Register, BelowTaken, ComparedDiffer, QuietPassMissed
<1>6. CASE UNCHANGED vars
  BY <1>6 DEF vars, BelowTaken, ComparedDiffer, QuietPassMissed
<1> QED
  BY <1>1, <1>2, <1>3, <1>4, <1>5, <1>6 DEF Next, Step

(* At the end of a pass that moved nothing the counter is the first free.  *)
LEMMA QuietPassFindsFirstFree == IInv => ScanFindsFirstFree
BY DEF IInv, BelowTaken, QuietPassMissed, ScanFindsFirstFree, FirstFree,
       Keys, TypeOK

(* The inductive invariant holds throughout every run of the scan.         *)
THEOREM ScanInvariant == Spec => []IInv
BY InitIInv, NextIInv, PTL DEF Spec

(* Every name check_Service_Runing_DB settles on is the first free one.    *)
THEOREM ScanIsCorrect == Spec => []ScanFindsFirstFree
BY ScanInvariant, QuietPassFindsFirstFree, PTL

(* The loop, its passes hidden, implements the one-step registration.      *)
THEOREM ScanRefinesRuningDB == Spec => ImplementsRuningDB
<1>1. Init => Abstract!Init
  BY DEF Init, Abstract!Init, Keys
<1>2. IInv /\ [Next]_vars => [Abstract!Next]_(Keys(db))
  <2> SUFFICES ASSUME IInv, [Next]_vars
               PROVE  [Abstract!Next]_(Keys(db))
    OBVIOUS
  <2>1. CASE Register
    <3>1. FirstFree(service, count, Keys(db))
      BY <2>1, QuietPassFindsFirstFree DEF Register, ScanFindsFirstFree
    <3>2. Keys(db') = Keys(db) \cup { InstanceName(service, count) }
      BY <2>1, NameType, KeysOfAppend DEF Register, IInv, TypeOK
    <3>3. Keys(db)' = Keys(db')
      BY DEF Keys
    <3>4. service \in Services /\ count \in Count
      BY DEF IInv, TypeOK
    <3> QED
      BY <3>1, <3>2, <3>3, <3>4
      DEF Abstract!Next, Abstract!Register, Abstract!FirstFree,
          Abstract!Count, FirstFree, Count
  <2>2. CASE UNCHANGED db
    BY <2>2 DEF Keys
  <2> QED
    BY <2>1, <2>2
    DEF Next, Step, Call, BeginPass, CompareKey, EndPass, vars
<1> QED
  BY <1>1, <1>2, ScanInvariant, PTL DEF Spec, ImplementsRuningDB, Abstract!Spec

=============================================================================

------------------------- MODULE InstrumentsProofs -------------------------
(* The registry is exact, and no connection is lost, for any instruments,  *)
(* names and classes and whatever fails.                                   *)
EXTENDS Instruments, TLAPS

RegistryTypes ==
  /\ state \in [Instruments -> {"unborn", "new", "live", "closed", "gone"}]
  /\ all_instruments \in [Names -> Instruments \cup {None}]
  /\ instances \in [Classes -> SUBSET Instruments]
  /\ own_record \subseteq Classes
  /\ connected \subseteq Instruments

(* What has an open connection was not closed, and not collected but by a  *)
(* finalizer that failed.                                                  *)
ConnectedAlive ==
  \A o \in connected :
    \/ state[o] \in {"new", "live"}
    \/ Fails("close") /\ state[o] = "gone"

Core == RegistryTypes /\ Registered /\ ConnectedAlive

MainTypes ==
  /\ components \in [Names -> Instruments \cup {None}]
  /\ held \subseteq Instruments
  /\ monitor_parameters \subseteq Instruments
  /\ watched \subseteq Instruments /\ adrift \subseteq Instruments
  /\ pc \in [at : {"idle", "construct", "setup", "add", "monitor"},
             instr : Instruments \cup {None}]
  /\ pc.at = "idle" <=> pc.instr = None

(* load_instrument constructs an instrument that is not there yet.         *)
ConstructsUnborn == pc.at = "construct" => state[pc.instr] = "unborn"

IInv == Core /\ MainTypes /\ ConstructsUnborn

-----------------------------------------------------------------------------
(* What the operations on the registry preserve.                           *)

LEMMA UnrecordTypes ==
  ASSUME RegistryTypes, NEW S, Unrecord(S)
  PROVE  /\ all_instruments' \in [Names -> Instruments \cup {None}]
         /\ instances' \in [Classes -> SUBSET Instruments]
         /\ own_record' \subseteq Classes
BY DEF RegistryTypes, Unrecord

(* An instrument keeps its entries exactly if it is not in S.              *)
LEMMA UnrecordKeeps ==
  ASSUME RegistryTypes, NEW S \in SUBSET Instruments, Unrecord(S),
         NEW o \in Instruments
  PROVE  /\ (all_instruments'[NameOf[o]] = o)
              <=> (all_instruments[NameOf[o]] = o /\ o \notin S)
         /\ IsValid(o)' <=> (IsValid(o) /\ o \notin S)
<1>1. NameOf[o] \in Names /\ ClassOf[o] \in Classes /\ o # None
      /\ None \notin S
  BY ConstantsAssumption
<1>2. (all_instruments'[NameOf[o]] = o)
         <=> (all_instruments[NameOf[o]] = o /\ o \notin S)
  BY <1>1 DEF Unrecord
<1>3. ClassOf[o] \in own_record => RecordOf(ClassOf[o]) = {ClassOf[o]}
  BY DEF RecordOf
<1>4. instances'[ClassOf[o]]
        = instances[ClassOf[o]] \ {p \in S : ClassOf[o] \in RecordOf(ClassOf[p])}
  BY <1>1 DEF Unrecord
<1>5. \A p \in S : ClassOf[p] \in own_record /\ ClassOf[o] \in RecordOf(ClassOf[p])
                   => ClassOf[p] = ClassOf[o]
  BY DEF RecordOf
<1>6. IsValid(o)' => IsValid(o) /\ o \notin S
  BY <1>3, <1>4 DEF IsValid, Unrecord
<1>7. IsValid(o) /\ o \notin S => IsValid(o)'
  BY <1>4 DEF IsValid, Unrecord
<1> QED
  BY <1>2, <1>6, <1>7

LEMMA CloseKeeps ==
  ASSUME Core, NEW S \in SUBSET Instruments, Close(S)
  PROVE  Core'
<1>1. RegistryTypes'
  BY UnrecordTypes DEF Core, Close, RegistryTypes
<1>2. ASSUME NEW o \in Instruments
      PROVE  state'[o] = IF o \in S THEN "closed" ELSE state[o]
  BY DEF Close
<1>3. Registered'
  BY <1>2, UnrecordKeeps DEF Core, Close, Registered
<1>4. ConnectedAlive'
  BY <1>2 DEF Core, RegistryTypes, ConnectedAlive, Close
<1> QED
  BY <1>1, <1>3, <1>4 DEF Core

LEMMA RecordKeeps ==
  ASSUME Core, NEW o \in Instruments, Constructed(o)
  PROVE  Core'
<1>1. NameOf[o] \in Names /\ ClassOf[o] \in Classes /\ o # None
  BY ConstantsAssumption
<1>2. RegistryTypes'
  BY <1>1 DEF Core, RegistryTypes, Constructed, RecordInstance
<1>3. ASSUME NEW p \in Instruments
      PROVE  /\ state'[p] = IF p = o THEN "live" ELSE state[p]
             /\ all_instruments'[NameOf[p]] = p
                  <=> p = o \/ all_instruments[NameOf[p]] = p
             /\ IsValid(p)' <=> p = o \/ IsValid(p)
  <2>1. /\ NameOf[p] \in Names /\ ClassOf[p] \in Classes /\ p # None
    BY ConstantsAssumption
  <2>2. state'[p] = IF p = o THEN "live" ELSE state[p]
    BY DEF Core, RegistryTypes, Constructed, RecordInstance
  <2>3. all_instruments'[NameOf[p]] = p
          <=> p = o \/ all_instruments[NameOf[p]] = p
    BY <1>1, <2>1 DEF Core, RegistryTypes, Constructed, RecordInstance
  <2>4. CASE ClassOf[p] = ClassOf[o]
    <3>1. instances'[ClassOf[p]] = IF ClassOf[o] \in own_record
                                     THEN instances[ClassOf[p]] \cup {o}
                                     ELSE {o}
      BY <1>1, <2>4 DEF Core, RegistryTypes, Constructed, RecordInstance
    <3>2. ClassOf[p] \in own_record'
      BY <2>4 DEF Constructed, RecordInstance
    <3> QED
      BY <2>2, <2>3, <2>4, <3>1, <3>2 DEF IsValid
  <2>5. CASE ClassOf[p] # ClassOf[o]
    <3>1. instances'[ClassOf[p]] = instances[ClassOf[p]]
      BY <2>1, <2>5 DEF Core, RegistryTypes, Constructed, RecordInstance
    <3>2. ClassOf[p] \in own_record' <=> ClassOf[p] \in own_record
      BY <2>5 DEF Constructed, RecordInstance
    <3> QED
      BY <2>2, <2>3, <2>5, <3>1, <3>2 DEF IsValid
  <2> QED
    BY <2>4, <2>5
<1>4. Registered'
  BY <1>3 DEF Core, Registered
<1>5. ConnectedAlive'
  <2>1. \A p \in connected' : p = o \/ p \in connected
    BY DEF Constructed
  <2>2. \A p \in connected' : p \in Instruments
    BY <1>2 DEF RegistryTypes
  <2> QED
    BY <1>3, <2>1, <2>2 DEF Core, ConnectedAlive, Fails
<1> QED
  BY <1>2, <1>4, <1>5 DEF Core

(* An instrument that is not recorded changes nothing for the others.      *)
LEMMA RefusedKeeps ==
  ASSUME Core, NEW o \in Instruments, state[o] # "live",
         NotConstructed(o)
  PROVE  Core'
<1>1. CASE Close({o})
  BY <1>1, CloseKeeps
<1>2. CASE /\ state' = [state EXCEPT ![o] = "new"]
           /\ connected' \in {connected, connected \cup {o}}
           /\ UNCHANGED registry
  <2>1. RegistryTypes'
    BY <1>2 DEF Core, RegistryTypes, registry
  <2>2. \A p \in Instruments : state'[p] = IF p = o THEN "new" ELSE state[p]
    BY <1>2 DEF Core, RegistryTypes
  <2>3. Registered'
    BY <1>2, <2>2 DEF Core, Registered, IsValid, registry
  <2>4. ConnectedAlive'
    <3>1. \A p \in connected' : p = o \/ p \in connected
      BY <1>2
    <3>2. \A p \in connected' : p \in Instruments
      BY <2>1 DEF RegistryTypes
    <3> QED
      BY <2>2, <3>1, <3>2 DEF Core, ConnectedAlive, Fails
  <2> QED
    BY <2>1, <2>3, <2>4 DEF Core
<1> QED
  BY <1>1, <1>2 DEF NotConstructed

LEMMA CollectKeeps ==
  ASSUME Core, NEW o \in Instruments, Collect(o)
  PROVE  Core'
<1>1. RegistryTypes'
  BY UnrecordTypes DEF Core, Collect, RegistryTypes
<1>2. PICK end \in {"unborn", "gone"} :
        /\ state' = [state EXCEPT ![o] = end]
        /\ end = "unborn" => connected' = connected \ {o}
        /\ end = "gone" => Fails("close") /\ connected' = connected
  BY DEF Collect
<1>3. \A p \in Instruments : state'[p] = IF p = o THEN end ELSE state[p]
  BY <1>2 DEF Core, RegistryTypes
<1>4. Registered'
  BY <1>3, UnrecordKeeps DEF Core, Collect, Registered
<1>5. ConnectedAlive'
  BY <1>2, <1>3 DEF Core, RegistryTypes, ConnectedAlive
<1> QED
  BY <1>1, <1>4, <1>5 DEF Core

LEMMA SameKeeps ==
  ASSUME Core, UNCHANGED <<state, connected, registry>>
  PROVE  Core'
BY DEF Core, RegistryTypes, Registered, ConnectedAlive, IsValid, registry

LEMMA CloseAndRemoveKeeps ==
  ASSUME Core, NEW o \in Instruments, CloseAndRemove(o) \/ NotAComponent(o)
  PROVE  Core'
<1>1. CASE Close({o})
  BY <1>1, CloseKeeps
<1>2. CASE CloseRaises(o) \/ NotAComponent(o)
  BY <1>2, SameKeeps DEF CloseRaises, NotAComponent
<1> QED
  BY <1>1, <1>2 DEF CloseAndRemove

-----------------------------------------------------------------------------
LEMMA InitIInv == Init => IInv
<1> SUFFICES ASSUME Init PROVE IInv
  OBVIOUS
<1>1. \A o \in Instruments : NameOf[o] \in Names /\ o # None
  BY ConstantsAssumption
<1>2. RegistryTypes /\ MainTypes /\ ConnectedAlive /\ ConstructsUnborn
  BY DEF Init, RegistryTypes, MainTypes, ConnectedAlive, ConstructsUnborn, Idle
<1>3. Registered
  BY <1>1 DEF Init, Registered, IsValid
<1> QED
  BY <1>2, <1>3 DEF IInv, Core

(* Every step keeps the registry exact and the connections owned.          *)
LEMMA NextCore ==
  ASSUME IInv, [Next]_vars
  PROVE  Core'
<1> USE DEF IInv
<1>1. ASSUME NEW o \in Instruments, Create(o)
      PROVE  Core'
  BY <1>1, RecordKeeps, RefusedKeeps DEF Create
<1>2. ASSUME NEW o \in Instruments, CloseInstrument(o)
      PROVE  Core'
  <2>1. CASE Close({o})
    BY <2>1, CloseKeeps
  <2>2. CASE CloseRaises(o)
    BY <2>2, SameKeeps DEF CloseRaises
  <2> QED
    BY <1>2, <2>1, <2>2 DEF CloseInstrument
<1>3. ASSUME NEW o \in Instruments, Collect(o)
      PROVE  Core'
  BY <1>3, CollectKeeps
<1>4. ASSUME NEW o \in Instruments, CloseAndRemoveInstrument(o)
      PROVE  Core'
  BY <1>4, CloseAndRemoveKeeps DEF CloseAndRemoveInstrument
<1>5. ASSUME NEW o \in Instruments, LoadInstrument(o)
      PROVE  Core'
  <2>1. NameOf[o] \in Names
    BY ConstantsAssumption
  <2>2. CASE UNCHANGED <<state, connected, registry>>
    BY <2>2, SameKeeps
  <2>3. CASE /\ all_instruments[NameOf[o]] # None
             /\ \/ CloseAndRemove(all_instruments[NameOf[o]])
                \/ NotAComponent(all_instruments[NameOf[o]])
    <3>1. all_instruments[NameOf[o]] \in Instruments
      BY <2>1, <2>3 DEF Core, RegistryTypes
    <3> QED
      BY <2>3, <3>1, CloseAndRemoveKeeps
  <2> QED
    BY <1>5, <2>2, <2>3 DEF LoadInstrument
<1>6. ASSUME CloseAll
      PROVE  Core'
  <2>1. PICK failing \in SUBSET connected :
          Close({all_instruments[n] : n \in Names} \ ({None} \cup failing))
    BY <1>6 DEF CloseAll
  <2>2. {all_instruments[n] : n \in Names} \ ({None} \cup failing)
          \in SUBSET Instruments
    BY DEF Core, RegistryTypes
  <2> QED
    BY <2>1, <2>2, CloseKeeps
<1>7. ASSUME LoadConstruct
      PROVE  Core'
  <2>1. pc.instr \in Instruments /\ state[pc.instr] # "live"
    BY <1>7 DEF LoadConstruct, MainTypes, ConstructsUnborn
  <2> QED
    BY <1>7, <2>1, RecordKeeps, RefusedKeeps DEF LoadConstruct
<1>8. ASSUME UNCHANGED <<state, connected, registry>>
      PROVE  Core'
  BY <1>8, SameKeeps
<1>9. ASSUME UNCHANGED vars
      PROVE  Core'
  BY <1>9, SameKeeps DEF vars
<1> QED
  BY <1>1, <1>2, <1>3, <1>4, <1>5, <1>6, <1>7, <1>8, <1>9
     DEF Next, Drop, AddComponent, FindInstrument, RemoveComponent, Snapshot,
         LoadSetup, LoadAdd, LoadMonitor, StopMonitor

-----------------------------------------------------------------------------
(* The other half: the references, the station and load_instrument.        *)

LEMMA InitialPc ==
  /\ Idle \in [at : {"idle", "construct", "setup", "add", "monitor"},
               instr : Instruments \cup {None}]
  /\ Idle.at = "idle" /\ Idle.instr = None
  /\ \A step \in {"construct", "setup", "add", "monitor"}, o \in Instruments :
       /\ At(step, o) \in [at : {"idle", "construct", "setup", "add", "monitor"},
                           instr : Instruments \cup {None}]
       /\ At(step, o).at = step /\ At(step, o).instr = o
BY DEF Idle, At

(* The class call of load_instrument has an instrument to make.            *)
LEMMA LoadsSomething ==
  ASSUME MainTypes, pc.at # "idle"
  PROVE  pc.instr \in Instruments
BY DEF MainTypes

LEMMA NextMain ==
  ASSUME IInv, [Next]_vars
  PROVE  MainTypes'
<1> USE DEF IInv, MainTypes
<1>0. /\ None \notin Instruments
      /\ \A o \in Instruments : NameOf[o] \in Names
  BY ConstantsAssumption
<1>1. ASSUME NEW o \in Instruments, Create(o)
      PROVE  MainTypes'
  BY <1>1 DEF Create, NotConstructed, Raise, station
<1>2. ASSUME NEW o \in Instruments,
             CloseInstrument(o) \/ Drop(o) \/ Collect(o)
      PROVE  MainTypes'
  BY <1>2 DEF CloseInstrument, Drop, Collect, station
<1>3. ASSUME NEW o \in Instruments,
             CloseAndRemove(o) \/ NotAComponent(o)
      PROVE  /\ components' \in [Names -> Instruments \cup {None}]
             /\ monitor_parameters' \subseteq Instruments
  BY <1>3 DEF CloseAndRemove, NotAComponent
<1>4. ASSUME NEW o \in Instruments, CloseAndRemoveInstrument(o)
      PROVE  MainTypes'
  BY <1>3, <1>4 DEF CloseAndRemoveInstrument
<1>5. ASSUME NEW o \in Instruments, LoadInstrument(o)
      PROVE  MainTypes'
  <2>1. pc' \in {Idle, At("construct", o)}
    BY <1>5 DEF LoadInstrument
  <2>2. /\ components' \in [Names -> Instruments \cup {None}]
        /\ monitor_parameters' \subseteq Instruments
    <3>1. CASE /\ all_instruments[NameOf[o]] # None
               /\ \/ CloseAndRemove(all_instruments[NameOf[o]])
                  \/ NotAComponent(all_instruments[NameOf[o]])
      <4>1. all_instruments[NameOf[o]] \in Instruments
        BY <1>0, <3>1 DEF Core, RegistryTypes
      <4> QED
        BY <1>3, <3>1, <4>1
    <3>2. CASE UNCHANGED <<components, monitor_parameters>>
      BY <3>2
    <3> QED
      BY <1>5, <3>1, <3>2 DEF LoadInstrument
  <2>3. UNCHANGED <<held, watched, adrift>>
    BY <1>5 DEF LoadInstrument
  <2> QED
    BY <1>0, <2>1, <2>2, <2>3, InitialPc
<1>6. ASSUME NEW o \in Instruments, NEW n \in Names, AddComponent(o, n)
      PROVE  MainTypes'
  BY <1>6 DEF AddComponent
<1>7. ASSUME NEW n \in Names, FindInstrument(n) \/ RemoveComponent(n)
      PROVE  MainTypes'
  BY <1>7 DEF FindInstrument, RemoveComponent, station, Core, RegistryTypes
<1>8. ASSUME CloseAll \/ Snapshot \/ StopMonitor
      PROVE  MainTypes'
  BY <1>8 DEF CloseAll, Snapshot, StopMonitor, station
<1>9. ASSUME LoadConstruct
      PROVE  MainTypes'
  <2>1. pc.instr \in Instruments
    BY <1>9, LoadsSomething DEF LoadConstruct
  <2>2. pc' \in {Idle, At("setup", pc.instr)}
    BY <1>9 DEF LoadConstruct
  <2> QED
    BY <1>0, <1>9, <2>1, <2>2, InitialPc
       DEF LoadConstruct, NotConstructed, Raise, station
<1>10. ASSUME LoadSetup \/ LoadAdd \/ LoadMonitor
       PROVE  MainTypes'
  <2>1. pc.instr \in Instruments
    BY <1>10, LoadsSomething DEF LoadSetup, LoadAdd, LoadMonitor
  <2>2. pc' \in {Idle, At("add", pc.instr), At("monitor", pc.instr)}
    BY <1>10 DEF LoadSetup, LoadAdd, LoadMonitor
  <2>3. /\ components' \in [Names -> Instruments \cup {None}]
        /\ monitor_parameters' \subseteq Instruments
        /\ watched' \subseteq Instruments /\ adrift' \subseteq Instruments
        /\ held' \subseteq Instruments
    BY <1>10, <2>1 DEF LoadSetup, LoadAdd, LoadMonitor, Raise
  <2> QED
    BY <1>0, <2>1, <2>2, <2>3, InitialPc
<1>11. CASE UNCHANGED vars
  BY <1>11 DEF vars, station
<1> QED
  BY <1>1, <1>2, <1>4, <1>5, <1>6, <1>7, <1>8, <1>9, <1>10, <1>11 DEF Next

(* Nothing comes between load_instrument and its class call that makes the *)
(* instrument: other calls wait, and the collector only unmakes.           *)
LEMMA NextConstructs ==
  ASSUME IInv, [Next]_vars
  PROVE  ConstructsUnborn'
<1> SUFFICES ASSUME pc'.at = "construct"
             PROVE  state'[pc'.instr] = "unborn"
  BY DEF ConstructsUnborn
<1>1. CASE pc.at = "construct"
  <2>1. pc.instr \in Instruments /\ state[pc.instr] = "unborn"
    BY <1>1, LoadsSomething DEF IInv, ConstructsUnborn
  <2>2. pc # Idle
    BY <1>1, InitialPc
  <2>3. ~LoadConstruct
    BY <2>1, InitialPc DEF LoadConstruct
  <2>4. ASSUME NEW o \in Instruments, Drop(o) \/ Collect(o)
        PROVE  pc' = pc /\ state'[pc.instr] = "unborn"
    BY <2>1, <2>4 DEF Drop, Collect, IInv, Core, RegistryTypes
  <2>5. CASE UNCHANGED vars
    BY <2>1, <2>5 DEF vars
  <2> QED
    BY <1>1, <2>1, <2>2, <2>3, <2>4, <2>5
       DEF Next, Create, CloseInstrument, CloseAndRemoveInstrument,
           LoadInstrument, AddComponent, FindInstrument, RemoveComponent,
           CloseAll, Snapshot, LoadSetup, LoadAdd, LoadMonitor, StopMonitor
<1>2. CASE pc.at # "construct"
  <2>1. PICK o \in Instruments : LoadInstrument(o) /\ pc' = At("construct", o)
    <3>1. pc' # pc
      BY <1>2
    <3>2. ASSUME NEW o \in Instruments, LoadInstrument(o)
          PROVE  pc' = At("construct", o)
      BY <3>2, InitialPc DEF LoadInstrument
    <3>3. ~(LoadConstruct \/ LoadSetup \/ LoadAdd \/ LoadMonitor)
      <4>1. pc.at # "idle" => pc.instr \in Instruments
        BY LoadsSomething DEF IInv
      <4> QED
        BY <4>1, InitialPc DEF LoadConstruct, LoadSetup, LoadAdd, LoadMonitor
    <3> QED
      BY <3>1, <3>2, <3>3
         DEF Next, Create, CloseInstrument, CloseAndRemoveInstrument, Drop,
             Collect, AddComponent, FindInstrument, RemoveComponent, CloseAll,
             Snapshot, StopMonitor, vars
  <2>2. state[o] = "unborn" /\ NameOf[o] \in Names
    BY <2>1, ConstantsAssumption DEF LoadInstrument
  <2>3. all_instruments[NameOf[o]] # o
    BY <2>2 DEF IInv, Core, Registered
  <2>4. state'[o] = state[o]
    BY <2>1, <2>3
       DEF LoadInstrument, CloseAndRemove, NotAComponent, Close, CloseRaises
  <2> QED
    BY <2>1, <2>2, <2>4, InitialPc
<1> QED
  BY <1>1, <1>2

-----------------------------------------------------------------------------
LEMMA Inductive == Spec => []IInv
<1>1. IInv /\ [Next]_vars => IInv'
  BY NextCore, NextMain, NextConstructs DEF IInv
<1> QED
  BY InitIInv, <1>1, PTL DEF Spec

(* The types of all variables, for any instruments and classes.            *)
THEOREM TypeCorrect == Spec => []TypeOK
<1>1. IInv => TypeOK
  BY DEF IInv, Core, RegistryTypes, MainTypes, TypeOK
<1> QED
  BY Inductive, <1>1, PTL

(* The registry is exact at every moment of every run: record_instance,    *)
(* remove_instance, close, __del__ and load_instrument, whatever fails.    *)
THEOREM RegistryExact == Spec => []Registered
<1>1. IInv => Registered
  BY DEF IInv, Core
<1> QED
  BY Inductive, <1>1, PTL

(* Whatever fails, an open connection is found by close_all, or is of an   *)
(* instrument that was never recorded and has its finalizer to come, or    *)
(* its finalizer has come and the close in it raised: a connection is lost *)
(* in no other way, by no namesake, double close or failing load.          *)
THEOREM NoConnectionLost == Spec => []ConnectionOwned
<1>1. IInv => ConnectionOwned
  <2> SUFFICES ASSUME IInv, NEW o \in connected, state[o] # "new",
                      ~(Fails("close") /\ state[o] = "gone")
               PROVE  \E n \in Names : all_instruments[n] = o
    BY DEF ConnectionOwned
  <2>1. o \in Instruments /\ state[o] = "live"
    BY DEF IInv, Core, RegistryTypes, ConnectedAlive
  <2> QED
    BY <2>1, ConstantsAssumption DEF IInv, Core, Registered
<1> QED
  BY Inductive, <1>1, PTL
=============================================================================

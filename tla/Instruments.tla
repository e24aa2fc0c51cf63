---------------------------- MODULE Instruments ----------------------------
(***************************************************************************)
(* Instruments, the registry that finds them by name, a Station and the    *)
(* Monitor (src/qcodes/instrument, station.py, monitor/monitor.py).        *)
(*                                                                         *)
(* The registry holds weak references: an instrument lives as long as the  *)
(* user, the station, the station's list of monitored parameters or a      *)
(* Monitor refers to it, and the garbage collector closes it some time     *)
(* after, if close does not raise.  One thread makes the calls; drivers    *)
(* fail in __init__, in close and while a parameter is set up.             *)
(***************************************************************************)
EXTENDS Naturals, FiniteSets

CONSTANTS
  Instruments,  \* the objects; one that was collected may be made anew
  Names,        \* full names
  Classes,      \* subclasses of Instrument
  NameOf, ClassOf, SuperOf,  \* SuperOf[c] = c: directly below Instrument
  Configured,   \* the objects load_instrument makes from the YAML file
  Forced,       \* names with enable_forced_reconnect
  Failures,     \* subset of FailureKinds
  None

FailureKinds == {"init", "abstract", "close", "setup", "monitor"}

ASSUME ConstantsAssumption ==
  /\ NameOf  \in [Instruments -> Names]
  /\ ClassOf \in [Instruments -> Classes]
  /\ SuperOf \in [Classes -> Classes]
  /\ \A c \in Classes : SuperOf[SuperOf[c]] = SuperOf[c]
  /\ Configured \subseteq Instruments /\ Forced \subseteq Names
  /\ Failures \subseteq FailureKinds
  /\ None \notin Instruments

VARIABLES
  state,            \* "unborn", "new" (not recorded), "live", "closed", or
                    \* "gone": collected by a finalizer whose close raised
  connected,        \* instruments whose connection is open
  all_instruments,  \* _all_instruments: name -> instrument or None
  own_record,       \* classes with a _type and _instances of their own
  instances,        \* _instances of those classes
  held,             \* the user, or a traceback, refers to them
  components,       \* Station.components: name -> instrument or None
  monitor_parameters, \* instruments with a parameter on the station's list
  watched,          \* ... with a parameter of Monitor.running
  adrift,           \* ... of a Monitor that came up too late to be running
  pc                \* where load_instrument is, and the instrument it makes

registry == <<all_instruments, own_record, instances>>
station  == <<components, monitor_parameters, watched, adrift>>
vars     == <<state, connected, registry, held, station, pc>>

Idle == [at |-> "idle", instr |-> None]
At(step, o) == [at |-> step, instr |-> o]

TypeOK ==
  /\ state \in [Instruments -> {"unborn", "new", "live", "closed", "gone"}]
  /\ all_instruments \in [Names -> Instruments \cup {None}]
  /\ components \in [Names -> Instruments \cup {None}]
  /\ instances \in [Classes -> SUBSET Instruments]
  /\ own_record \subseteq Classes
  /\ connected \subseteq Instruments /\ held \subseteq Instruments
  /\ monitor_parameters \subseteq Instruments
  /\ watched \subseteq Instruments /\ adrift \subseteq Instruments
  /\ pc \in [at : {"idle", "construct", "setup", "add", "monitor"},
             instr : Instruments \cup {None}]
  /\ pc.at = "idle" <=> pc.instr = None

Init ==
  /\ state = [o \in Instruments |-> "unborn"]
  /\ all_instruments = [n \in Names |-> None]
  /\ components = all_instruments
  /\ instances = [c \in Classes |-> {}]
  /\ own_record = {}
  /\ connected = {} /\ held = {}
  /\ monitor_parameters = {} /\ watched = {} /\ adrift = {}
  /\ pc = Idle

Fails(kind) == kind \in Failures
Components  == {components[n] : n \in Names} \ {None}

(* Whether Python keeps the object: the registry does not.                 *)
Referenced(o) ==
  o \in UNION {held, Components, monitor_parameters, watched, adrift, {pc.instr}}

(* The class whose _instances attribute lookup finds.                      *)
RecordOf(c) ==
  IF c \in own_record THEN {c} ELSE {SuperOf[c]} \cap own_record

(* Instrument.instances, Instrument.is_valid                               *)
IsValid(o) ==
  ClassOf[o] \in own_record /\ o \in instances[ClassOf[o]]

-----------------------------------------------------------------------------
(* The registry                                                            *)

(* A slip: removing the record under the name, whoever has it.             *)
UnrecordByName(S) ==
  /\ instances' = [c \in Classes |->
       instances[c] \ {o \in S : c \in RecordOf(ClassOf[o])}]
  /\ all_instruments' = [n \in Names |->
       IF n \in {NameOf[o] : o \in S} THEN None ELSE all_instruments[n]]
  /\ UNCHANGED own_record

(* remove_instance, for each instrument of S: by identity, not by name.    *)
Unrecord(S) ==
  /\ instances' = [c \in Classes |->
       instances[c] \ {o \in S : c \in RecordOf(ClassOf[o])}]
  /\ all_instruments' = [n \in Names |->
       IF all_instruments[n] \in S THEN None ELSE all_instruments[n]]
  /\ UNCHANGED own_record

(* A slip: the attributes, the connection among them, are stripped first.  *)
CloseStripsFirst(S) ==
  /\ state' = [o \in Instruments |-> IF o \in S THEN "closed" ELSE state[o]]
  /\ connected' = connected
  /\ Unrecord(S)

(* close for each instrument of S: its connection, its attributes, its     *)
(* record; a second close finds nothing to do.                             *)
Close(S) ==
  /\ state' = [o \in Instruments |-> IF o \in S THEN "closed" ELSE state[o]]
  /\ connected' = connected \ S
  /\ Unrecord(S)

(* A driver's connection.close() that raises ends close before the rest.   *)
CloseRaises(o) ==
  /\ Fails("close") /\ o \in connected
  /\ UNCHANGED <<state, connected, registry>>

(* record_instance: the name must be free, also of an instrument that      *)
(* nobody refers to and that was not collected yet.                        *)
RecordInstance(o) ==
  LET c == ClassOf[o] IN
  /\ all_instruments[NameOf[o]] = None
  /\ all_instruments' = [all_instruments EXCEPT ![NameOf[o]] = o]
  /\ own_record' = own_record \cup {c}
  /\ instances' = [instances EXCEPT ![c] =
       IF c \in own_record THEN @ \cup {o} ELSE {o}]
  /\ state' = [state EXCEPT ![o] = "live"]

(* The exception that ends a call may live on in a traceback, and with it  *)
(* the instrument.                                                         *)
Raise(o) == held' \in {held, held \cup {o}}

(* InstrumentMeta.__call__: the instrument is recorded iff __init__ and    *)
(* the check for abstract parameters succeed; otherwise its finalizer has  *)
(* to close what __init__ opened.                                          *)
Constructed(o) ==
  /\ connected' = connected \cup {o}
  /\ RecordInstance(o)

NotConstructed(o) ==
  \/ /\ Fails("init")
     /\ state' = [state EXCEPT ![o] = "new"]
     /\ connected' \in {connected, connected \cup {o}}
     /\ UNCHANGED registry /\ Raise(o)
  \/ /\ Fails("abstract")
     /\ Close({o}) /\ Raise(o)
  \/ /\ \/ all_instruments[NameOf[o]] # None   \* KeyError
        \/ Fails("abstract") /\ Fails("close")  \* close raises
     /\ state' = [state EXCEPT ![o] = "new"]
     /\ connected' = connected \cup {o}
     /\ UNCHANGED registry /\ Raise(o)

-----------------------------------------------------------------------------
(* Calls of the user on instruments                                        *)

Create(o) ==
  /\ pc = Idle /\ state[o] = "unborn"
  /\ \/ Constructed(o) /\ held' = held \cup {o}
     \/ NotConstructed(o)
  /\ UNCHANGED <<station, pc>>

(* find_instrument; find_or_create_instrument, and load_instrument with    *)
(* revive_instance, of one that exists.  One of another class than was     *)
(* asked for is a TypeError and changes nothing.                           *)
FindInstrument(n) ==
  /\ pc = Idle /\ all_instruments[n] # None
  /\ held' = held \cup {all_instruments[n]}
  /\ UNCHANGED <<state, connected, registry, station, pc>>

CloseInstrument(o) ==
  /\ pc = Idle /\ o \in held
  /\ Close({o}) \/ CloseRaises(o)
  /\ UNCHANGED <<held, station, pc>>

(* Instrument.close_all goes on after an instrument that fails to close.   *)
CloseAll ==
  /\ pc = Idle
  /\ \E failing \in SUBSET connected :
       /\ failing # {} => Fails("close")
       /\ Close({all_instruments[n] : n \in Names} \ ({None} \cup failing))
  /\ UNCHANGED <<held, station, pc>>

(* The last reference of the user goes.                                    *)
Drop(o) ==
  /\ o \in held
  /\ held' = held \ {o}
  /\ UNCHANGED <<state, connected, registry, station, pc>>

(* __del__ closes.  An exception of close is swallowed and the object is   *)
(* gone all the same: its weak references with it, its connection not.     *)
Collect(o) ==
  /\ state[o] \notin {"unborn", "gone"} /\ ~Referenced(o)
  /\ \/ state' = [state EXCEPT ![o] = "unborn"] /\ connected' = connected \ {o}
     \/ /\ Fails("close") /\ o \in connected
        /\ state' = [state EXCEPT ![o] = "gone"] /\ UNCHANGED connected
  /\ Unrecord({o})
  /\ UNCHANGED <<held, station, pc>>

-----------------------------------------------------------------------------
(* The station                                                             *)

(* add_component, under the instrument's name or another.                  *)
AddComponent(o, n) ==
  /\ pc = Idle /\ o \in held /\ components[n] = None
  /\ components' = [components EXCEPT ![n] = o]
  /\ UNCHANGED <<state, connected, registry, held, monitor_parameters,
                 watched, adrift, pc>>

RemoveComponent(n) ==
  /\ pc = Idle /\ components[n] # None
  /\ components' = [components EXCEPT ![n] = None]
  /\ held' \in {held, held \cup {components[n]}}
  /\ UNCHANGED <<state, connected, registry, monitor_parameters, watched,
                 adrift, pc>>

(* snapshot_base: what was closed behind the station's back is removed.    *)
Snapshot ==
  /\ pc = Idle
  /\ components' = [n \in Names |->
       IF components[n] # None /\ ~IsValid(components[n]) THEN None
       ELSE components[n]]
  /\ UNCHANGED <<state, connected, registry, held, monitor_parameters,
                 watched, adrift, pc>>

(* close_and_remove_instrument: the list, then the component called like   *)
(* the instrument, then close.  Without such a component (KeyError) the    *)
(* instrument is off the list and stays open.                              *)
CloseAndRemove(o) ==
  /\ monitor_parameters' = monitor_parameters \ {o}
  /\ components[NameOf[o]] # None
  /\ components' = [components EXCEPT ![NameOf[o]] = None]
  /\ Close({o}) \/ CloseRaises(o)

NotAComponent(o) ==
  /\ components[NameOf[o]] = None
  /\ monitor_parameters' = monitor_parameters \ {o}
  /\ UNCHANGED <<state, connected, registry, components>>

CloseAndRemoveInstrument(o) ==
  /\ pc = Idle
  /\ o \in held \/ all_instruments[NameOf[o]] = o
  /\ CloseAndRemove(o) \/ NotAComponent(o)
  /\ UNCHANGED <<held, watched, adrift, pc>>

(* load_instrument(n), up to the class call.  KeyErrors of the forced      *)
(* reconnect are suppressed: no such instrument, or not a component.       *)
LoadInstrument(o) ==
  LET n == NameOf[o] IN
  /\ pc = Idle /\ o \in Configured /\ state[o] = "unborn"
  /\ \/ /\ n \in Forced /\ all_instruments[n] # None
        /\ \/ /\ CloseAndRemove(all_instruments[n])
              /\ pc' = IF state'[all_instruments[n]] = "closed"
                         THEN At("construct", o) ELSE Idle
           \/ NotAComponent(all_instruments[n]) /\ pc' = At("construct", o)
     \/ /\ n \notin Forced \/ all_instruments[n] = None
        /\ pc' = At("construct", o)
        /\ UNCHANGED <<state, connected, registry, components,
                       monitor_parameters>>
  /\ UNCHANGED <<held, watched, adrift>>

LoadConstruct ==
  LET o == pc.instr IN
  /\ pc.at = "construct"
  /\ \/ Constructed(o) /\ pc' = At("setup", o) /\ UNCHANGED held
     \/ NotConstructed(o) /\ pc' = Idle
  /\ UNCHANGED station

(* setup_parameter_from_dict puts a parameter on the monitor's list and    *)
(* then, last, sets its initial value.                                     *)
LoadSetup ==
  LET o == pc.instr IN
  /\ pc.at = "setup"
  /\ \E monitor \in BOOLEAN :
       monitor_parameters' = monitor_parameters \cup {x \in {o} : monitor}
  /\ \/ pc' = At("add", o) /\ UNCHANGED held
     \/ Fails("setup") /\ pc' = Idle /\ Raise(o)
  /\ UNCHANGED <<state, connected, registry, components, watched, adrift>>

LoadAdd ==
  LET o == pc.instr
      n == NameOf[o] IN
  /\ pc.at = "add"
  /\ \/ /\ components[n] = None
        /\ components' = [components EXCEPT ![n] = o]
        /\ pc' = At("monitor", o) /\ UNCHANGED held
     \/ /\ components[n] # None              \* RuntimeError
        /\ pc' = Idle /\ Raise(o) /\ UNCHANGED components
  /\ UNCHANGED <<state, connected, registry, monitor_parameters, watched,
                 adrift>>

(* update_monitor: Monitor(...) stops the one that runs and starts anew.   *)
(* It raises when the one does not end in time, when the other dies or     *)
(* when it is late; a late one serves on, and holds the port for good.     *)
LoadMonitor ==
  LET o == pc.instr IN
  /\ pc.at = "monitor"
  /\ \/ /\ \/ UNCHANGED watched              \* the station uses no monitor
           \/ adrift = {} /\ watched' = monitor_parameters
        /\ held' = held \cup {o} /\ UNCHANGED adrift
     \/ /\ Fails("monitor") /\ Raise(o)
        /\ \/ watched' \in {watched, {}} /\ UNCHANGED adrift
           \/ adrift = {} /\ watched' = {} /\ adrift' = monitor_parameters
  /\ pc' = Idle
  /\ UNCHANGED <<state, connected, registry, components, monitor_parameters>>

(* Monitor.running.stop()                                                  *)
StopMonitor ==
  /\ pc = Idle /\ watched # {}
  /\ watched' = {}
  /\ UNCHANGED <<state, connected, registry, held, components,
                 monitor_parameters, adrift, pc>>

Next ==
  \/ \E o \in Instruments : \/ Create(o) \/ CloseInstrument(o) \/ Drop(o)
                            \/ Collect(o) \/ CloseAndRemoveInstrument(o)
                            \/ LoadInstrument(o)
                            \/ \E n \in Names : AddComponent(o, n)
  \/ \E n \in Names : FindInstrument(n) \/ RemoveComponent(n)
  \/ CloseAll \/ Snapshot \/ LoadConstruct \/ LoadSetup \/ LoadAdd
  \/ LoadMonitor \/ StopMonitor

Spec == Init /\ [][Next]_vars

-----------------------------------------------------------------------------
(* The registry is exact: an instrument is found under its name, and is    *)
(* valid, from the end of its construction until it is closed, whatever    *)
(* namesakes were refused, closed twice or collected in between, and       *)
(* whichever class of its family was instantiated first.                   *)
Registered ==
  \A o \in Instruments :
    /\ state[o] = "live" <=> all_instruments[NameOf[o]] = o
    /\ state[o] = "live" <=> IsValid(o)

(* An open connection has an instrument to close it: one that close_all    *)
(* finds, or one that was never recorded and has its finalizer to come.    *)
(* It is lost in one way only: its finalizer has come, and close raised.   *)
ConnectionOwned ==
  \A o \in connected :
    \/ state[o] = "new"
    \/ \E n \in Names : all_instruments[n] = o
    \/ Fails("close") /\ state[o] = "gone"
=============================================================================

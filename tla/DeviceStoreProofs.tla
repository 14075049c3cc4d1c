-------------------------- MODULE DeviceStoreProofs --------------------------
(***************************************************************************)
(* Proofs about DeviceStore, for any number of threads, devices and starts *)
(* of the program, and for both kinds of secret store: its types, what a   *)
(* start finds of the devices, the identity that others have seen, and, on *)
(* a disk that does not fill, that the store holds what devices_ holds.    *)
(***************************************************************************)
EXTENDS DeviceStore, TLAPS

-----------------------------------------------------------------------------
(* The inductive invariants *)

\* A program that is off has forgotten its identity, and one that is on was
\* started.
Forgotten == program = "off" => id = 0
Started == program # "off" => starts > 0

\* mutex_: one thread at a time has a change to save, it is the last one, and
\* a file that a save has opened is empty.
OneSaver ==
  \A x, y \in Threads : thread[x] # Idle /\ thread[y] # Idle => x = y
SavesTheLast ==
  \A x \in Threads :
    /\ thread[x] # Idle => program = "running" /\ thread[x].table = devices
    /\ thread[x].pc = "opened" => store = "file" /\ files.devices = Truncated

\* The phone's preferences are written as a whole: they are never cut off.
NeverCut ==
  store = "prefs" =>
    /\ files.identity # Truncated /\ files.devices # Truncated
    /\ prefs.identity # Truncated /\ prefs.devices # Truncated

StoreInv ==
  TypeOK /\ Forgotten /\ Started /\ OneSaver /\ SavesTheLast /\ NeverCut

\* What a start may find under "devices" is in the promised tables.
Found(value) ==
  /\ value = Absent => NoDevices \in promised
  /\ \A t \in Tables : value = Whole(t) => t \in promised
FoundIsPromised ==
  /\ Found(files.devices)
  /\ store = "prefs" => Found(prefs.devices)
  /\ program = "running" => devices \in promised
\* Until the devices are loaded the phone has written what it has in memory.
NotYetChanged ==
  program \in {"identity", "devices"} /\ store = "prefs" =>
    prefs.devices = files.devices

PromiseInv == StoreInv /\ FoundIsPromised /\ NotYetChanged

\* The identity that others have seen is the one on disk, unless a full disk
\* has cut it off, or the phone has written no devices.
KnownKept ==
  known # 0 =>
    \/ files.identity = Whole(known)
    \/ store # "prefs" /\ files.identity = Truncated
    \/ store = "prefs" /\ files.devices = Absent

\* An identity that is being saved is the first one.
FirstSave ==
  program = "identity" /\ id # 0 =>
    known = 0 /\ store # "prefs" /\ files.identity = Truncated

\* The identity in use is the one stored, or only in the phone's memory.
InUse ==
  program \in {"devices", "running"} =>
    IF store = "prefs" THEN prefs.identity = Whole(id)
                       ELSE files.identity \in {Whole(id), Truncated}
ChosenIdentity ==
  program = "devices" =>
    /\ store = "prefs" => files.identity = Whole(id) \/ files.devices = Absent
    /\ known # 0 /\ id # known => store = "prefs" /\ files.devices = Absent
ShownIdentity == program = "running" => known = id

\* The phone's preferences have no devices without an identity, and a start
\* reads what was written.
PrefsAreWhole ==
  store = "prefs" =>
    /\ program # "failed"
    /\ files.identity = Absent => files.devices = Absent
    /\ program = "identity" => prefs = files

IdentityInv ==
  /\ PromiseInv /\ KnownKept /\ FirstSave /\ InUse
  /\ ChosenIdentity /\ ShownIdentity /\ PrefsAreWhole

-----------------------------------------------------------------------------
(* Types *)

\* A table, a table with a device added or changed, and one with fewer devices.
LEMMA TableUpsert ==
  ASSUME NEW t \in Tables, NEW d \in Devices, NEW a \in Addresses
  PROVE  [e \in DOMAIN t \union {d} |-> IF e = d THEN a ELSE t[e]] \in Tables
<1>1. PICK D \in SUBSET Devices : t \in [D -> Addresses]
  BY DEF Tables
<1>2. [e \in DOMAIN t \union {d} |-> IF e = d THEN a ELSE t[e]]
        \in [D \union {d} -> Addresses]
  BY <1>1
<1>3. D \union {d} \in SUBSET Devices
  BY <1>1
<1> QED
  BY <1>2, <1>3 DEF Tables

LEMMA TableUpdate ==
  ASSUME NEW t \in Tables, NEW d \in Devices, NEW a \in Addresses
  PROVE  [t EXCEPT ![d] = a] \in Tables
<1>1. PICK D \in SUBSET Devices : t \in [D -> Addresses]
  BY DEF Tables
<1>2. [t EXCEPT ![d] = a] \in [D -> Addresses]
  BY <1>1
<1> QED
  BY <1>1, <1>2 DEF Tables

LEMMA TableRestrict ==
  ASSUME NEW t \in Tables, NEW K
  PROVE  Restrict(t, DOMAIN t \ K) \in Tables
<1>1. PICK D \in SUBSET Devices : t \in [D -> Addresses]
  BY DEF Tables
<1>2. Restrict(t, DOMAIN t \ K) \in [D \ K -> Addresses]
  BY <1>1 DEF Restrict
<1>3. D \ K \in SUBSET Devices
  BY <1>1
<1> QED
  BY <1>2, <1>3 DEF Tables

LEMMA NoDevicesIsTable == NoDevices \in Tables
<1>1. NoDevices \in [{} -> Addresses]
  BY DEF NoDevices
<1> QED
  BY <1>1 DEF Tables

\* Values in the store are told apart by what they are.
LEMMA Values ==
  /\ Absent # Truncated
  /\ \A v : Whole(v) # Absent /\ Whole(v) # Truncated /\ Whole(v).value = v
  /\ \A v, w : Whole(v) = Whole(w) => v = w
<1>1. \A v : Whole(v).is = "whole" /\ Whole(v).value = v
  BY DEF Whole
<1>2. Absent.is = "absent" /\ Truncated.is = "truncated"
  BY DEF Absent, Truncated
<1>3. \A v, w : Whole(v) = Whole(w) => Whole(v).value = Whole(w).value
  OBVIOUS
<1> QED
  BY <1>1, <1>2, <1>3

\* An operation of a thread changes the table first, and then saves it.
LEMMA ThreadStep ==
  ASSUME TypeOK, NEW x \in Threads, Operate(x)
  PROVE  \/ \E table \in Tables : Change(x, table)
         \/ OpenFile(x) \/ SaveFile(x) \/ SavePrefs(x)
<1>1. ASSUME NEW d \in Devices, NEW a \in Addresses, Upsert(x, d, a)
      PROVE  \E table \in Tables : Change(x, table)
  BY <1>1, TableUpsert DEF Upsert, TypeOK
<1>2. ASSUME NEW d \in Devices, NEW a \in Addresses, UpdateAddress(x, d, a)
      PROVE  \E table \in Tables : Change(x, table)
  BY <1>2, TableUpdate DEF UpdateAddress, TypeOK
<1>3. ASSUME NEW d \in Devices, Remove(x, d)
      PROVE  \E table \in Tables : Change(x, table)
  BY <1>3, TableRestrict DEF Remove, TypeOK
<1> QED
  BY <1>1, <1>2, <1>3 DEF Operate

LEMMA InitStore == Init => StoreInv
BY NoDevicesIsTable, DeviceStoreAssumption, Values
DEF Init, StoreInv, TypeOK, Forgotten, Started, OneSaver, SavesTheLast,
    NeverCut, Identities, SavedTables, Idle

\* Outside of a running program no thread saves.
LEMMA ThreadsIdle ==
  ASSUME StoreInv, program # "running", thread' = thread
  PROVE  Quiet /\ OneSaver' /\ SavesTheLast'
<1>1. Quiet
  BY DEF StoreInv, SavesTheLast, Quiet
<1> QED
  BY <1>1 DEF Quiet, OneSaver, SavesTheLast, Idle

LEMMA StoreStep == StoreInv /\ [Next]_vars => StoreInv'
<1> SUFFICES ASSUME StoreInv, [Next]_vars PROVE StoreInv'
  OBVIOUS
<1> USE DeviceStoreAssumption DEF StoreInv
<1>a. NeverCut'
  BY Values, ThreadStep
  DEF Next, Startup, vars, stored, NeverCut, TypeOK, Start, LoadIdentity,
      CreateIdentity, SaveIdentity, LoadDevices, Change, OpenFile, SaveFile,
      SavePrefs, WritePrefs, Crash, Truncate, PutString, Written
<1>1. CASE Start
  <2>1. TypeOK' /\ Forgotten' /\ Started'
    BY <1>1 DEF Start, TypeOK, Forgotten, Started
  <2> QED
    BY <1>1, <2>1, <1>a, ThreadsIdle DEF Start
<1>2. CASE LoadIdentity
  <2>1. id' \in 0 .. MaxStarts
    BY <1>2, Values DEF LoadIdentity, Load, TypeOK, Identities
  <2>2. TypeOK' /\ Forgotten' /\ Started'
    BY <1>2, <2>1 DEF LoadIdentity, stored, TypeOK, Forgotten, Started
  <2> QED
    BY <1>2, <2>2, <1>a, ThreadsIdle DEF LoadIdentity
<1>3. CASE CreateIdentity
  <2>1. id' \in 1 .. MaxStarts
    BY <1>3 DEF CreateIdentity, Started, TypeOK
  <2>2. TypeOK' /\ Forgotten' /\ Started'
    BY <1>3, <2>1 DEF CreateIdentity, Truncate, PutString, Identities, TypeOK,
                      Forgotten, Started
  <2> QED
    BY <1>3, <2>2, <1>a, ThreadsIdle DEF CreateIdentity
<1>4. CASE SaveIdentity
  <2>1. id \in 1 .. MaxStarts
    BY <1>4 DEF SaveIdentity, TypeOK
  <2>2. TypeOK' /\ Forgotten' /\ Started'
    BY <1>4, <2>1 DEF SaveIdentity, Written, Identities, TypeOK, Forgotten, Started
  <2> QED
    BY <1>4, <2>2, <1>a, ThreadsIdle DEF SaveIdentity
<1>5. CASE LoadDevices
  <2>1. devices' \in Tables /\ known' \in 0 .. MaxStarts
    BY <1>5, Values, NoDevicesIsTable DEF LoadDevices, Load, TypeOK, SavedTables
  <2>2. program' \in {"failed", "running"} /\ promised' \in SUBSET Tables
    BY <1>5, <2>1 DEF LoadDevices, TypeOK
  <2>3. TypeOK' /\ Forgotten' /\ Started'
    BY <1>5, <2>1, <2>2 DEF LoadDevices, stored, TypeOK, Forgotten, Started
  <2> QED
    BY <1>5, <2>3, <1>a, ThreadsIdle DEF LoadDevices
<1>6. ASSUME NEW x \in Threads, NEW table \in Tables, Change(x, table)
      PROVE  StoreInv'
  <2>1. [pc |-> "changed", table |-> table] \in Saving
    BY DEF Saving
  <2>2. TypeOK' /\ Forgotten' /\ Started'
    BY <1>6, <2>1 DEF Change, stored, TypeOK, Forgotten, Started
  <2>3. /\ thread'[x] = [pc |-> "changed", table |-> table]
        /\ \A y \in Threads \ {x} : thread'[y] = Idle
    BY <1>6 DEF Change, Free, Quiet, TypeOK
  <2>4. OneSaver' /\ SavesTheLast'
    BY <1>6, <2>3 DEF Change, OneSaver, SavesTheLast, Idle
  <2> QED
    BY <1>a, <2>2, <2>4
<1>7. ASSUME NEW x \in Threads, OpenFile(x) PROVE StoreInv'
  <2>1. /\ thread[x] # Idle /\ thread[x] \in Saving
        /\ [thread[x] EXCEPT !.pc = "opened"] \in Saving
    BY <1>7 DEF OpenFile, Saving, Idle, TypeOK
  <2>2. TypeOK' /\ Forgotten' /\ Started'
    BY <1>7, <2>1
    DEF OpenFile, Truncate, SavedTables, TypeOK, Forgotten, Started
  <2>3. /\ thread'[x].table = thread[x].table /\ thread'[x] # Idle
        /\ \A y \in Threads \ {x} : thread'[y] = Idle /\ thread[y] = Idle
    BY <1>7, <2>1 DEF OpenFile, OneSaver, TypeOK, Saving, Idle
  <2>4. store' = "file" /\ files'.devices = Truncated
    BY <1>7 DEF OpenFile, Truncate, TypeOK
  <2>5. OneSaver' /\ SavesTheLast'
    BY <1>7, <2>1, <2>3, <2>4 DEF OpenFile, OneSaver, SavesTheLast, Idle
  <2> QED
    BY <1>a, <2>2, <2>5
<1>8. ASSUME NEW x \in Threads, SaveFile(x) \/ SavePrefs(x) PROVE StoreInv'
  <2>1. thread[x] # Idle /\ thread[x] \in Saving /\ thread[x].table \in Tables
    BY <1>8 DEF SaveFile, SavePrefs, Saving, Idle, TypeOK
  <2>2. TypeOK' /\ Forgotten' /\ Started'
    BY <1>8, <2>1
    DEF SaveFile, SavePrefs, Written, PutString, SavedTables, TypeOK, Forgotten,
        Started
  <2>3. \A y \in Threads : thread'[y] = Idle
    BY <1>8, <2>1 DEF SaveFile, SavePrefs, OneSaver, TypeOK
  <2>4. OneSaver' /\ SavesTheLast'
    BY <2>3 DEF OneSaver, SavesTheLast, Idle
  <2> QED
    BY <1>a, <2>2, <2>4
<1>9. CASE WritePrefs
  <2>1. prefs.devices # Absent => prefs.devices.value \in Tables
    BY <1>9, Values DEF WritePrefs, NeverCut, TypeOK, SavedTables
  <2>2. program # "off" /\ store = "prefs"
    BY <1>9 DEF WritePrefs
  <2>3. TypeOK' /\ Forgotten' /\ Started'
    BY <1>9, <2>1 DEF WritePrefs, TypeOK, Forgotten, Started
  <2>4. OneSaver' /\ SavesTheLast'
    BY <1>9 DEF WritePrefs, OneSaver, SavesTheLast
  <2> QED
    BY <1>a, <2>3, <2>4
<1>10. CASE Crash
  <2>1. TypeOK' /\ Forgotten' /\ Started'
    BY <1>10, NoDevicesIsTable DEF Crash, stored, TypeOK, Forgotten, Started
  <2>2. OneSaver' /\ SavesTheLast'
    BY <1>10 DEF Crash, OneSaver, SavesTheLast, Idle
  <2> QED
    BY <1>a, <2>1, <2>2
<1>11. CASE UNCHANGED vars
  BY <1>a, <1>11 DEF vars, stored, TypeOK, Forgotten, Started, OneSaver, SavesTheLast
<1> QED
  BY <1>1, <1>2, <1>3, <1>4, <1>5, <1>6, <1>7, <1>8, <1>9, <1>10, <1>11, ThreadStep
  DEF Next, Startup

-----------------------------------------------------------------------------
(* What a start finds of the devices *)

LEMMA PromiseStep == PromiseInv /\ [Next]_vars => FoundIsPromised' /\ NotYetChanged'
<1> SUFFICES ASSUME PromiseInv, [Next]_vars
             PROVE  FoundIsPromised' /\ NotYetChanged'
  OBVIOUS
<1> USE Values DEF PromiseInv, StoreInv
<1>1. CASE Start
  BY <1>1 DEF Start, FoundIsPromised, NotYetChanged, Found, TypeOK
<1>2. CASE LoadIdentity
  BY <1>2 DEF LoadIdentity, stored, FoundIsPromised, NotYetChanged, Found
<1>3. CASE CreateIdentity
  <2>1. files'.devices = files.devices /\ prefs'.devices = prefs.devices
    BY <1>3 DEF CreateIdentity, Truncate, PutString, TypeOK
  <2> QED
    BY <1>3, <2>1
    DEF CreateIdentity, Truncate, PutString, FoundIsPromised, NotYetChanged, Found
<1>4. CASE SaveIdentity
  <2>1. files'.devices = files.devices
    BY <1>4 DEF SaveIdentity, Written, TypeOK
  <2> QED
    BY <1>4, <2>1
    DEF SaveIdentity, Written, FoundIsPromised, NotYetChanged, Found
<1>5. CASE LoadDevices
  <2>1. CASE program' = "running"
    <3>1. promised' = {devices'}
      BY <1>5, <2>1 DEF LoadDevices
    <3>2. IF Load("devices") = Absent THEN devices' = NoDevices
                                      ELSE Load("devices") = Whole(devices')
      BY <1>5, <2>1 DEF LoadDevices, Load, TypeOK, SavedTables
    <3>3. /\ Load("devices") = files.devices
          /\ store = "prefs" => Load("devices") = prefs.devices
      BY <1>5 DEF LoadDevices, Load, NotYetChanged
    <3> QED
      BY <1>5, <2>1, <3>1, <3>2, <3>3
      DEF LoadDevices, stored, FoundIsPromised, NotYetChanged, Found
  <2>2. CASE program' # "running"
    BY <1>5, <2>2 DEF LoadDevices, stored, FoundIsPromised, NotYetChanged, Found
  <2> QED
    BY <2>1, <2>2
<1>6. ASSUME NEW x \in Threads, NEW table \in Tables, Change(x, table)
      PROVE  FoundIsPromised' /\ NotYetChanged'
  BY <1>6 DEF Change, stored, FoundIsPromised, NotYetChanged, Found
<1>7. ASSUME NEW x \in Threads, OpenFile(x) PROVE FoundIsPromised' /\ NotYetChanged'
  <2>1. files'.devices = Truncated /\ store = "file"
    BY <1>7 DEF OpenFile, Truncate, TypeOK
  <2> QED
    BY <1>7, <2>1 DEF OpenFile, Truncate, FoundIsPromised, NotYetChanged, Found
<1>8. ASSUME NEW x \in Threads, SaveFile(x) PROVE FoundIsPromised' /\ NotYetChanged'
  <2>1. /\ thread[x] # Idle /\ thread[x].table = devices /\ program = "running"
        /\ store = "file" /\ files.devices = Truncated
    BY <1>8 DEF SaveFile, SavesTheLast, Idle
  <2>2. files'.devices \in {Whole(devices), Truncated} /\ promised' = {devices}
    BY <1>8, <2>1 DEF SaveFile, Written, TypeOK
  <2> QED
    BY <1>8, <2>1, <2>2
    DEF SaveFile, Written, FoundIsPromised, NotYetChanged, Found
<1>9. ASSUME NEW x \in Threads, SavePrefs(x) PROVE FoundIsPromised' /\ NotYetChanged'
  <2>1. thread[x] # Idle /\ thread[x].table = devices /\ program = "running"
    BY <1>9 DEF SavePrefs, SavesTheLast, Idle
  <2>2. prefs'.devices = Whole(devices)
    BY <1>9, <2>1 DEF SavePrefs, PutString, TypeOK
  <2> QED
    BY <1>9, <2>1, <2>2
    DEF SavePrefs, PutString, FoundIsPromised, NotYetChanged, Found
<1>10. CASE WritePrefs
  <2>1. store = "prefs" /\ files' = prefs
    BY <1>10 DEF WritePrefs
  <2>2. /\ prefs.devices = Absent \/ prefs.devices = Whole(prefs.devices.value)
        /\ prefs.devices # Absent => promised' = {prefs.devices.value, devices}
        /\ prefs.devices = Absent => promised' = promised
    BY <1>10, <2>1 DEF WritePrefs, NeverCut, TypeOK, SavedTables
  <2> QED
    BY <1>10, <2>1, <2>2 DEF WritePrefs, FoundIsPromised, NotYetChanged, Found
<1>11. CASE Crash
  BY <1>11 DEF Crash, stored, FoundIsPromised, NotYetChanged, Found
<1>12. CASE UNCHANGED vars
  BY <1>12 DEF vars, stored, FoundIsPromised, NotYetChanged, Found
<1> QED
  BY <1>1, <1>2, <1>3, <1>4, <1>5, <1>6, <1>7, <1>8, <1>9, <1>10, <1>11, <1>12,
     ThreadStep
  DEF Next, Startup

\* A program comes to run by LoadDevices only, with the devices it has found.
LEMMA RunningStep ==
  ASSUME PromiseInv, [Next]_vars, program # "running", program' = "running"
  PROVE  LoadDevices /\ devices' \in promised
<1> USE Values DEF PromiseInv, StoreInv
<1>1. LoadDevices
  BY ThreadStep
  DEF Next, Startup, vars, Start, LoadIdentity, CreateIdentity, SaveIdentity,
      Change, OpenFile, SaveFile, SavePrefs, WritePrefs, Crash
<1>2. IF Load("devices") = Absent THEN devices' = NoDevices
                                  ELSE Load("devices") = Whole(devices')
  BY <1>1 DEF LoadDevices, Load, TypeOK, SavedTables
<1>3. Found(Load("devices"))
  BY DEF Load, FoundIsPromised
<1>4. devices' \in Tables
  BY <1>1, NoDevicesIsTable DEF LoadDevices, Load, TypeOK, SavedTables
<1> QED
  BY <1>1, <1>2, <1>3, <1>4 DEF Found

-----------------------------------------------------------------------------
(* The identity *)

\* The parts of IdentityInv that are its own.
IdentityKeeps ==
  /\ KnownKept' /\ FirstSave' /\ InUse'
  /\ ChosenIdentity' /\ ShownIdentity' /\ PrefsAreWhole'

\* A step that leaves the identity alone, and of the phone's files only writes
\* devices in memory.
LEMMA IdentityKept ==
  ASSUME IdentityInv, UNCHANGED <<program, id, known, store>>,
         files'.identity = files.identity, prefs'.identity = prefs.identity,
         store = "prefs" => files' = files,
         program # "running" => UNCHANGED <<files, prefs>>
  PROVE  IdentityKeeps
BY DEF IdentityInv, IdentityKeeps, KnownKept, FirstSave, InUse, ChosenIdentity,
       ShownIdentity, PrefsAreWhole

LEMMA IdentityStep == IdentityInv /\ [Next]_vars => IdentityKeeps
<1> SUFFICES ASSUME IdentityInv, [Next]_vars PROVE IdentityKeeps
  OBVIOUS
<1> USE Values
<1>a. StoreInv /\ TypeOK /\ NeverCut /\ NotYetChanged
  BY DEF IdentityInv, PromiseInv, StoreInv
<1>b. KnownKept /\ FirstSave /\ InUse /\ ChosenIdentity /\ ShownIdentity
      /\ PrefsAreWhole
  BY DEF IdentityInv
<1>1. CASE Start
  <2>1. id = 0 /\ program = "off" /\ program' = "identity"
    BY <1>1, <1>a DEF Start, StoreInv, Forgotten
  <2>2. UNCHANGED <<id, known, store, files>> /\ prefs' = files
    BY <1>1 DEF Start
  <2> QED
    BY <1>b, <2>1, <2>2
    DEF IdentityKeeps, KnownKept, FirstSave, InUse, ChosenIdentity,
        ShownIdentity, PrefsAreWhole
<1>2. CASE LoadIdentity
  <2>1. UNCHANGED <<known, store, files, prefs>> /\ program = "identity"
    BY <1>2 DEF LoadIdentity, stored
  <2>2. KnownKept'
    BY <1>b, <2>1 DEF KnownKept
  <2>3. Load("identity") = files.identity /\ files.identity # Absent
    BY <1>2, <1>b, <2>1 DEF LoadIdentity, Load, PrefsAreWhole
  <2>4. CASE files.identity = Truncated
    <3>1. program' = "failed" /\ store # "prefs"
      BY <1>2, <1>a, <2>3, <2>4 DEF LoadIdentity, NeverCut
    <3> QED
      BY <1>b, <2>1, <2>2, <3>1
      DEF IdentityKeeps, FirstSave, InUse, ChosenIdentity, ShownIdentity,
          PrefsAreWhole
  <2>5. CASE files.identity # Truncated
    <3>1. program' = "devices" /\ files.identity = Whole(id')
      BY <1>2, <1>a, <2>3, <2>5 DEF LoadIdentity, TypeOK, Identities
    <3>2. store = "prefs" => prefs = files
      BY <1>b, <2>1 DEF PrefsAreWhole
    <3> QED
      BY <1>b, <2>1, <2>2, <2>5, <3>1, <3>2
      DEF IdentityKeeps, KnownKept, FirstSave, InUse, ChosenIdentity,
          ShownIdentity, PrefsAreWhole
  <2> QED
    BY <2>4, <2>5
<1>3. CASE CreateIdentity
  <2>1. /\ UNCHANGED <<known, store>> /\ program = "identity"
        /\ files.identity = Absent
    BY <1>3, <1>b DEF CreateIdentity, Load, PrefsAreWhole, Truncate, PutString
  <2>2. CASE Truncate("identity") /\ program' = program
    <3>1. /\ store = "file" /\ files'.identity = Truncated
      BY <1>a, <2>2 DEF Truncate, TypeOK
    <3>2. known = 0
      BY <1>b, <2>1, <3>1 DEF KnownKept
    <3> QED
      BY <2>1, <2>2, <3>1, <3>2
      DEF IdentityKeeps, KnownKept, FirstSave, InUse, ChosenIdentity,
          ShownIdentity, PrefsAreWhole
  <2>3. CASE PutString("identity", id') /\ program' = "devices"
    <3>1. /\ store = "prefs" /\ files' = files /\ files.devices = Absent
          /\ prefs'.identity = Whole(id')
      BY <1>a, <1>b, <2>1, <2>3 DEF PutString, PrefsAreWhole, TypeOK
    <3> QED
      BY <1>b, <2>1, <2>3, <3>1
      DEF IdentityKeeps, KnownKept, FirstSave, InUse, ChosenIdentity,
          ShownIdentity, PrefsAreWhole
  <2> QED
    BY <1>3, <2>2, <2>3 DEF CreateIdentity
<1>4. CASE SaveIdentity
  <2>1. /\ UNCHANGED <<id, known, store>> /\ program' = "devices"
        /\ known = 0 /\ store # "prefs" /\ files.identity = Truncated
    BY <1>4, <1>b DEF SaveIdentity, Written, FirstSave
  <2>2. files'.identity \in {Whole(id), Truncated}
    BY <1>4, <1>a, <2>1 DEF SaveIdentity, Written, TypeOK
  <2> QED
    BY <2>1, <2>2
    DEF IdentityKeeps, KnownKept, FirstSave, InUse, ChosenIdentity,
        ShownIdentity, PrefsAreWhole
<1>5. CASE LoadDevices
  <2>1. UNCHANGED <<id, store, files, prefs>> /\ program = "devices"
    BY <1>5 DEF LoadDevices, stored
  <2>2. CASE program' = "failed"
    <3>1. known' = known /\ store # "prefs"
      BY <1>5, <1>a, <2>2 DEF LoadDevices, Load, NeverCut
    <3> QED
      BY <1>b, <2>1, <2>2, <3>1
      DEF IdentityKeeps, KnownKept, FirstSave, InUse, ChosenIdentity,
          ShownIdentity, PrefsAreWhole
  <2>3. CASE program' = "running"
    <3>1. known' = id
      BY <1>5, <2>3 DEF LoadDevices
    <3> QED
      BY <1>b, <2>1, <2>3, <3>1
      DEF IdentityKeeps, KnownKept, FirstSave, InUse, ChosenIdentity,
          ShownIdentity, PrefsAreWhole
  <2> QED
    BY <1>5, <2>2, <2>3 DEF LoadDevices
<1>6. ASSUME NEW x \in Threads, NEW table \in Tables, Change(x, table)
      PROVE  IdentityKeeps
  BY <1>6, IdentityKept DEF Change, stored
<1>7. ASSUME NEW x \in Threads, OpenFile(x) \/ SaveFile(x) \/ SavePrefs(x)
      PROVE  IdentityKeeps
  <2>1. program = "running" /\ UNCHANGED <<program, id, known, store>>
    BY <1>7, <1>a
    DEF OpenFile, SaveFile, SavePrefs, Truncate, PutString, Written, StoreInv,
        SavesTheLast, Idle
  <2>2. store = "prefs" => files' = files
    BY <1>7, <1>a
    DEF OpenFile, SaveFile, SavePrefs, Truncate, PutString, StoreInv, SavesTheLast
  <2>3. files'.identity = files.identity /\ prefs'.identity = prefs.identity
    BY <1>7, <1>a
    DEF OpenFile, SaveFile, SavePrefs, Truncate, PutString, Written, TypeOK
  <2> QED
    BY <2>1, <2>2, <2>3, IdentityKept
<1>8. CASE WritePrefs
  <2>1. /\ store = "prefs" /\ files' = prefs /\ program # "off"
        /\ UNCHANGED <<program, id, known, store, prefs>>
    BY <1>8 DEF WritePrefs
  <2>2. program \in {"devices", "running"}
    BY <1>8, <1>a, <1>b, <2>1 DEF WritePrefs, PrefsAreWhole, TypeOK
  <2>3. prefs.identity = Whole(id)
    BY <1>b, <2>1, <2>2 DEF InUse
  <2>4. known = 0 \/ known = id \/ prefs.devices = Absent
    BY <1>a, <1>b, <2>1, <2>2 DEF ChosenIdentity, ShownIdentity, NotYetChanged
  <2> QED
    BY <1>a, <1>b, <2>1, <2>2, <2>3, <2>4
    DEF IdentityKeeps, KnownKept, FirstSave, InUse, ChosenIdentity,
        ShownIdentity, PrefsAreWhole, NotYetChanged
<1>9. CASE Crash
  BY <1>9, <1>b
  DEF Crash, stored, IdentityKeeps, KnownKept, FirstSave, InUse, ChosenIdentity,
      ShownIdentity, PrefsAreWhole
<1>10. CASE UNCHANGED vars
  BY <1>10, IdentityKept DEF vars, stored
<1> QED
  BY <1>1, <1>2, <1>3, <1>4, <1>5, <1>6, <1>7, <1>8, <1>9, <1>10, <1>a, ThreadStep
  DEF Next, Startup

\* Another identity than the one that was shown comes with an empty table.
LEMMA StableStep ==
  ASSUME IdentityInv, [Next]_vars, known # 0, known' # known
  PROVE  store = "prefs" /\ devices' = NoDevices
<1> USE Values DEF IdentityInv, PromiseInv, StoreInv
<1>1. LoadDevices
  BY ThreadStep
  DEF Next, Startup, vars, Start, LoadIdentity, CreateIdentity, SaveIdentity,
      Change, OpenFile, SaveFile, SavePrefs, WritePrefs, Crash
<1>2. known' = id /\ program = "devices" /\ program' = "running"
  BY <1>1 DEF LoadDevices
<1>3. store = "prefs" /\ files.devices = Absent /\ prefs.devices = Absent
  BY <1>2 DEF ChosenIdentity, NotYetChanged
<1> QED
  BY <1>1, <1>2, <1>3 DEF LoadDevices, Load

-----------------------------------------------------------------------------
(* The store and the table in memory *)

LEMMA CurrentStep ==
  ASSUME StoreInv, FileIsCurrent, ~DiskMayFill, [Next]_vars
  PROVE  FileIsCurrent'
<1> USE Values
<1>1. ASSUME UNCHANGED <<program, devices, thread>>,
             Load("devices")' = Load("devices")
      PROVE  FileIsCurrent'
  BY <1>1 DEF FileIsCurrent, Quiet
<1>2. ASSUME program' # "running" PROVE FileIsCurrent'
  BY <1>2 DEF FileIsCurrent
<1>3. CASE LoadDevices /\ program' = "running"
  <2>1. IF Load("devices") = Absent THEN devices' = NoDevices
                                    ELSE Load("devices") = Whole(devices')
    BY <1>3 DEF LoadDevices, Load, StoreInv, TypeOK, SavedTables
  <2>2. Load("devices")' = Load("devices")
    BY <1>3 DEF LoadDevices, stored, Load
  <2> QED
    BY <2>1, <2>2 DEF FileIsCurrent
<1>4. ASSUME NEW x \in Threads, NEW table \in Tables, Change(x, table)
      PROVE  FileIsCurrent'
  <2>1. thread'[x] # Idle
    BY <1>4 DEF Change, StoreInv, TypeOK, Idle
  <2> QED
    BY <2>1 DEF FileIsCurrent, Quiet
<1>5. ASSUME NEW x \in Threads, OpenFile(x) PROVE FileIsCurrent'
  <2>1. thread'[x].pc = "opened"
    BY <1>5 DEF OpenFile, StoreInv, TypeOK, Saving, Idle
  <2> QED
    BY <2>1 DEF FileIsCurrent, Quiet, Idle
<1>6. ASSUME NEW x \in Threads, SaveFile(x) \/ SavePrefs(x) PROVE FileIsCurrent'
  <2>1. thread[x].table = devices /\ devices' = devices /\ program = "running"
    BY <1>6 DEF SaveFile, SavePrefs, StoreInv, SavesTheLast, Idle
  <2>2. Load("devices")' = Whole(devices)
    <3>1. CASE SaveFile(x)
      <4>1. store' = "file" /\ files' = [files EXCEPT !.devices = Whole(devices)]
        BY <2>1, <3>1 DEF SaveFile, Written, StoreInv, SavesTheLast
      <4> QED
        BY <4>1 DEF Load, StoreInv, TypeOK
    <3>2. CASE SavePrefs(x)
      BY <2>1, <3>2 DEF SavePrefs, PutString, Load, StoreInv, TypeOK
    <3> QED
      BY <1>6, <3>1, <3>2
  <2> QED
    BY <2>1, <2>2 DEF FileIsCurrent
<1>7. CASE Startup
  <2>1. program' = "running" => LoadDevices
    BY <1>7 DEF Startup, Start, LoadIdentity, CreateIdentity, SaveIdentity
  <2> QED
    BY <1>2, <1>3, <2>1
<1>8. CASE WritePrefs
  BY <1>1, <1>8 DEF WritePrefs, Load
<1>9. CASE Crash
  BY <1>2, <1>9 DEF Crash
<1>10. CASE UNCHANGED vars
  BY <1>1, <1>10 DEF vars, stored, Load
<1> QED
  BY <1>4, <1>5, <1>6, <1>7, <1>8, <1>9, <1>10, ThreadStep DEF Next, StoreInv

-----------------------------------------------------------------------------
(* Theorems *)

LEMMA InitInvs == Init => PromiseInv /\ IdentityInv /\ FileIsCurrent
<1> SUFFICES ASSUME Init PROVE PromiseInv /\ IdentityInv /\ FileIsCurrent
  OBVIOUS
<1>1. StoreInv
  BY InitStore
<1>2. FoundIsPromised /\ NotYetChanged
  BY Values DEF Init, FoundIsPromised, Found, NotYetChanged
<1>3. /\ KnownKept /\ FirstSave /\ InUse
      /\ ChosenIdentity /\ ShownIdentity /\ PrefsAreWhole
  BY DEF Init, KnownKept, FirstSave, InUse, ChosenIdentity, ShownIdentity,
         PrefsAreWhole
<1> QED
  BY <1>1, <1>2, <1>3 DEF Init, PromiseInv, IdentityInv, FileIsCurrent

\* Types: for any devices, threads and number of starts the variables of the
\* identity and of DeviceStore keep their types.
THEOREM TypeCorrect == Spec => []TypeOK
<1>1. Init => StoreInv
  BY InitStore
<1>2. StoreInv /\ [Next]_vars => StoreInv'
  BY StoreStep
<1>3. StoreInv => TypeOK
  BY DEF StoreInv
<1> QED
  BY <1>1, <1>2, <1>3, PTL DEF Spec

\* Restart: a program that gets as far as running has the devices that the last
\* completed save left, or those of a change that was cut off.
THEOREM DevicesPersist == Spec => PersistsAcrossRestart
<1>1. Init => PromiseInv
  BY InitInvs
<1>2. PromiseInv /\ [Next]_vars => PromiseInv'
  BY StoreStep, PromiseStep DEF PromiseInv
<1>3. PromiseInv /\ [Next]_vars =>
        [(program # "running" /\ program' = "running") => devices' \in promised]_vars
  BY RunningStep
<1> QED
  BY <1>1, <1>2, <1>3, PTL DEF Spec, PersistsAcrossRestart

\* Identity: a peer that is still paired never meets another identity.
THEOREM IdentityCorrect == Spec => IdentityStable
<1>1. Init => IdentityInv
  BY InitInvs
<1>2. IdentityInv /\ [Next]_vars => IdentityInv'
  BY StoreStep, PromiseStep, IdentityStep
  DEF PromiseInv, IdentityInv, IdentityKeeps
<1>3. IdentityInv /\ [Next]_vars =>
        [(known # 0 /\ known' # known) =>
           store = "prefs" /\ devices' = NoDevices]_vars
  BY StableStep
<1> QED
  BY <1>1, <1>2, <1>3, PTL DEF Spec, IdentityStable

\* Lost update: on a disk that does not fill, the store never holds less or
\* older devices than the table while no thread is saving.
THEOREM StoreIsCurrent ==
  ASSUME ~DiskMayFill
  PROVE  Spec => []FileIsCurrent
<1>1. Init => StoreInv /\ FileIsCurrent
  BY InitInvs, InitStore
<1>2. StoreInv /\ FileIsCurrent /\ [Next]_vars => (StoreInv /\ FileIsCurrent)'
  BY StoreStep, CurrentStep
<1> QED
  BY <1>1, <1>2, PTL DEF Spec
=============================================================================

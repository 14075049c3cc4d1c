----------------------------- MODULE DeviceStore -----------------------------
(***************************************************************************)
(* What survives a restart: the identity (core/src/identity/identity.cpp)  *)
(* and the paired devices (core/src/store/device_store.cpp), each kept     *)
(* under a key of the secret store.                                        *)
(*                                                                         *)
(* On a desktop the secret store is a file per key (app-linux/src/         *)
(* file_secret_store.cpp and its Windows twin): save opens the file with   *)
(* trunc, and then writes the new value.  On a phone it is one map of      *)
(* SharedPreferences (EncryptedDeviceStore.kt behind JniSecretStore): save *)
(* changes the map in memory, and apply() has it written, as a whole and   *)
(* at once, some time later.                                               *)
(*                                                                         *)
(* DeviceStore has its own mutex, held from the change of devices_ until   *)
(* save returns; the I/O, the discovery and the UI thread call it.  The    *)
(* program may be killed at any point and started again.  Left out: a      *)
(* file that cannot be opened for writing, where save throws.              *)
(***************************************************************************)
EXTENDS Naturals, Functions

CONSTANTS
  Devices,    \* device_uuids
  Addresses,  \* last_known_ip and last_known_port
  Threads,    \* threads that change the store
  Stores,     \* "file", "prefs": the kinds of secret store
  DiskMayFill,  \* may the write to a file fail?  save does not look
  MaxStarts   \* bound on starts of the program

ASSUME DeviceStoreAssumption == MaxStarts \in Nat /\ DiskMayFill \in BOOLEAN

VARIABLES
  program,  \* "off", "identity", "devices" (being loaded), "running", "failed"
  id,       \* identity_ (0: none; a new identity is the number of the start)
  devices,  \* devices_
  store,    \* which kind of secret store this is
  files,    \* what is on disk under "identity" and "devices"
  prefs,    \* the map of SharedPreferences, in memory
  thread,   \* where each thread is
  starts,
  known,    \* history: the identity that a running program has used
  promised  \* history: the tables of devices that the next start may find

stored == <<store, files, prefs>>
vars == <<program, id, devices, stored, thread, starts, known, promised>>

\* A value is absent, cut off by trunc, or whole.
Absent == [is |-> "absent"]
Truncated == [is |-> "truncated"]
Whole(v) == [is |-> "whole", value |-> v]

Tables == UNION {[D -> Addresses] : D \in SUBSET Devices}
Idle == [pc |-> "idle"]
Saving == [pc : {"changed", "opened"}, table : Tables]
NoDevices == [d \in {} |-> {}]

Init ==
  /\ program = "off"
  /\ id = 0
  /\ devices = NoDevices
  /\ store \in Stores
  /\ files = [identity |-> Absent, devices |-> Absent]
  /\ prefs = files
  /\ thread = [x \in Threads |-> Idle]
  /\ starts = 0
  /\ known = 0
  /\ promised = {NoDevices}

\* Nobody is changing or saving the store.
Quiet == \A x \in Threads : thread[x] = Idle

\* Mutant: no lock.
NoLock == TRUE

\* mutex_ is free: a thread holds it from its change to the end of the save.
Free == Quiet

\* ISecretStore::load.
Load(key) == IF store = "prefs" THEN prefs[key] ELSE files[key]

\* FileSecretStore::save up to the open, which empties the file.
Truncate(key) ==
  /\ store = "file"
  /\ files' = [files EXCEPT ![key] = Truncated]
  /\ UNCHANGED <<store, prefs>>

\* EncryptedDeviceStore.save: the map in memory has the value.
PutString(key, value) ==
  /\ store = "prefs"
  /\ prefs' = [prefs EXCEPT ![key] = Whole(value)]
  /\ UNCHANGED <<store, files>>

\* FileSecretStore::save after the open: the value is written, or the disk is
\* full and nobody notices.
Written(key, value) ==
  /\ files' \in {[files EXCEPT ![key] = Whole(value)]}
                  \union (IF DiskMayFill THEN {files} ELSE {})
  /\ UNCHANGED <<store, prefs>>

-----------------------------------------------------------------------------
(* The start of the program: the constructor of CoreImpl *)

Start ==
  /\ program = "off"
  /\ starts < MaxStarts
  /\ starts' = starts + 1
  /\ program' = "identity"
  /\ prefs' = files
  /\ UNCHANGED <<id, devices, store, files, thread, known, promised>>

\* load_or_create_identity finds a value.  Json that is cut off does not parse,
\* the exception ends the program.
LoadIdentity ==
  /\ program = "identity"
  /\ id = 0
  /\ Load("identity") # Absent
  /\ IF Load("identity") = Truncated
       THEN program' = "failed" /\ id' = id
       ELSE program' = "devices" /\ id' = Load("identity").value
  /\ UNCHANGED <<devices, stored, thread, starts, known, promised>>

\* Mutant: a new identity whatever the store holds.
AlwaysCreateIdentity ==
  /\ program = "identity"
  /\ id = 0
  /\ id' = starts
  /\ \/ Truncate("identity") /\ program' = program
     \/ PutString("identity", id') /\ program' = "devices"
  /\ UNCHANGED <<devices, thread, starts, known, promised>>

\* load_or_create_identity finds none: a new identity, and its save begins.
CreateIdentity ==
  /\ program = "identity"
  /\ id = 0
  /\ Load("identity") = Absent
  /\ id' = starts
  /\ \/ Truncate("identity") /\ program' = program
     \/ PutString("identity", id') /\ program' = "devices"
  /\ UNCHANGED <<devices, thread, starts, known, promised>>

\* The save of the new identity ends.
SaveIdentity ==
  /\ program = "identity"
  /\ id # 0
  /\ Written("identity", id)
  /\ program' = "devices"
  /\ UNCHANGED <<id, devices, thread, starts, known, promised>>

\* The constructor of DeviceStore.
LoadDevices ==
  /\ program = "devices"
  /\ IF Load("devices") = Truncated
       THEN program' = "failed" /\ UNCHANGED <<devices, known>>
       ELSE /\ program' = "running"
            /\ devices' = IF Load("devices") = Absent THEN NoDevices
                                                      ELSE Load("devices").value
            /\ known' = id
  /\ promised' = IF program' = "running" THEN {devices'} ELSE promised
  /\ UNCHANGED <<id, stored, thread, starts>>

-----------------------------------------------------------------------------
(* upsert, remove and update_last_known_address, on any thread *)

\* The change, under mutex_, and the value that persist_locked dumps.
Change(x, table) ==
  /\ program = "running"
  /\ Free
  /\ devices' = table
  /\ promised' = promised \union {table}
  /\ thread' = [thread EXCEPT ![x] = [pc |-> "changed", table |-> table]]
  /\ UNCHANGED <<program, id, stored, starts, known>>

Upsert(x, d, a) ==
  Change(x, [e \in DOMAIN devices \union {d} |-> IF e = d THEN a ELSE devices[e]])

\* Mutant: the device stays, with nothing in it.
RemoveAddress(x, d) == Change(x, [devices EXCEPT ![d] = "none"])

Remove(x, d) == Change(x, Restrict(devices, DOMAIN devices \ {d}))

\* An unknown device is left alone.
UpdateAddress(x, d, a) ==
  /\ d \in DOMAIN devices
  /\ Change(x, [devices EXCEPT ![d] = a])

\* The save into files, in two steps; the mutex is released after the second.
OpenFile(x) ==
  /\ thread[x].pc = "changed"
  /\ Truncate("devices")
  /\ thread' = [thread EXCEPT ![x].pc = "opened"]
  /\ UNCHANGED <<program, id, devices, starts, known, promised>>

SaveFile(x) ==
  /\ thread[x].pc = "opened"
  /\ Written("devices", thread[x].table)
  /\ thread' = [thread EXCEPT ![x] = Idle]
  /\ promised' = {devices}
  /\ UNCHANGED <<program, id, devices, starts, known>>

\* The save into the preferences, and the mutex is released.
SavePrefs(x) ==
  /\ thread[x].pc = "changed"
  /\ PutString("devices", thread[x].table)
  /\ thread' = [thread EXCEPT ![x] = Idle]
  /\ UNCHANGED <<program, id, devices, starts, known, promised>>

-----------------------------------------------------------------------------
(* The outside *)

\* Mutant: each key is written on its own.
WriteOneKey ==
  /\ store = "prefs" /\ program # "off"
  /\ prefs # files
  /\ \E key \in {"identity", "devices"} :
       /\ files' = [files EXCEPT ![key] = prefs[key]]
       /\ promised' = IF key = "devices" /\ prefs.devices # Absent
                        THEN {prefs.devices.value, devices} ELSE promised
  /\ UNCHANGED <<program, id, devices, store, prefs, thread, starts, known>>

\* The write that apply() asked for: the whole map, as it is now.
WritePrefs ==
  /\ store = "prefs" /\ program # "off"
  /\ prefs # files
  /\ files' = prefs
  /\ promised' = IF prefs.devices = Absent THEN promised
                                           ELSE {prefs.devices.value, devices}
  /\ UNCHANGED <<program, id, devices, store, prefs, thread, starts, known>>

\* The program ends, in the middle of anything.
Crash ==
  /\ program # "off"
  /\ program' = "off"
  /\ id' = 0
  /\ devices' = NoDevices
  /\ thread' = [x \in Threads |-> Idle]
  /\ UNCHANGED <<stored, starts, known, promised>>

Operate(x) ==
  \/ \E d \in Devices, a \in Addresses : Upsert(x, d, a) \/ UpdateAddress(x, d, a)
  \/ \E d \in Devices : Remove(x, d)
  \/ OpenFile(x)
  \/ SaveFile(x)
  \/ SavePrefs(x)

Startup == Start \/ LoadIdentity \/ CreateIdentity \/ SaveIdentity \/ LoadDevices

Next == Startup \/ (\E x \in Threads : Operate(x)) \/ WritePrefs \/ Crash

Spec == Init /\ [][Next]_vars

-----------------------------------------------------------------------------
(* Properties *)

\* Types of the variables.
Identities == {Absent, Truncated} \union {Whole(i) : i \in 1 .. MaxStarts}
SavedTables == {Absent, Truncated} \union {Whole(t) : t \in Tables}
TypeOK ==
  /\ program \in {"off", "identity", "devices", "running", "failed"}
  /\ id \in 0 .. MaxStarts
  /\ devices \in Tables
  /\ store \in Stores
  /\ files \in [identity : Identities, devices : SavedTables]
  /\ prefs \in [identity : Identities, devices : SavedTables]
  /\ thread \in [Threads -> {Idle} \union Saving]
  /\ starts \in 0 .. MaxStarts
  /\ known \in 0 .. MaxStarts
  /\ promised \in SUBSET Tables

\* While nobody is saving, the secret store holds what devices_ holds: of two
\* threads that change the store the one that changes it last also saves it last.
FileIsCurrent ==
  (program = "running" /\ Quiet) =>
    \/ Load("devices") = Whole(devices)
    \/ Load("devices") = Absent /\ devices = NoDevices

\* A program that gets as far as running again has the devices it ended with, or
\* the ones from before the changes that were cut off, or not written yet by the
\* phone; never fewer, and never an older table that a save wrote late.
PersistsAcrossRestart ==
  [][(program # "running" /\ program' = "running") => devices' \in promised]_vars

\* A device keeps the identity it has shown to others.  A phone that dies before
\* the first write may start with a new one, but then it has forgotten all of
\* its peers with the old one: paired devices never meet another identity than
\* the one they were paired under.
IdentityStable ==
  [][(known # 0 /\ known' # known) => store = "prefs" /\ devices' = NoDevices]_vars

\* A fresh DeviceStore over the same backing store sees the same devices: the
\* program starts.
Restarts == program # "failed"
=============================================================================

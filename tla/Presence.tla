------------------------------ MODULE Presence ------------------------------
(***************************************************************************)
(* Online status in CoreImpl (core/src/core.cpp): online_status_, who      *)
(* updates it, and what the user interface is told.                        *)
(*                                                                         *)
(* Three threads call mark_peer_online and mark_peer_offline: the I/O      *)
(* thread for every message of a paired device, the thread of the          *)
(* discovery backend, and the UI thread when it accepts a pairing.  Each   *)
(* call changes the map under state_mutex_, then looks the device up, then *)
(* calls on_peer_status_changed_, without holding anything in between.     *)
(*                                                                         *)
(* shown is the list the user sees (ui/app.js, devices): a push updates    *)
(* one entry or adds it, a refresh replaces the list.                      *)
(***************************************************************************)
EXTENDS Naturals

CONSTANTS
  Devices,
  InitiallyPaired,  \* devices in the store when the program starts
  Discoverable      \* devices the discovery backend can see, paired or not

ASSUME PresenceAssumption ==
  InitiallyPaired \subseteq Devices /\ Discoverable \subseteq Devices

VARIABLES
  store,    \* devices in device_store_
  online,   \* online_status_: "none" (no entry), "on", "off"
  thread,   \* where each thread is
  shown,    \* the list in the user interface: "none" (not listed), "on", "off"
  blurred   \* history: devices whose notifications overlapped each other or a
            \* removal, or that were marked while they were not paired

vars == <<store, online, thread, shown, blurred>>

Threads == {"io", "discovery", "ui"}
Status == {"none", "on", "off"}
Idle == [pc |-> "idle"]
ThreadStates ==
  {Idle, [pc |-> "list"]}
    \union [pc : {"mark", "find", "push"}, dev : Devices, to : {"on", "off"}]
    \union [pc : {"erase"}, dev : Devices]

Init ==
  /\ store = InitiallyPaired
  /\ online = [d \in Devices |-> "none"]
  /\ thread = [x \in Threads |-> Idle]
  /\ shown = [d \in Devices |-> IF d \in InitiallyPaired THEN "off" ELSE "none"]
  /\ blurred = {}

Goto(x, state) == thread' = [thread EXCEPT ![x] = state]
\* Mutant: the status from before the change.
MarkingOld(d, s) == [pc |-> "mark", dev |-> d, to |-> online[d]]
Marking(d, s) == [pc |-> "mark", dev |-> d, to |-> s]

\* Another thread than x has changed the status of d and not pushed it yet.
Notifying(d, x) ==
  \E y \in Threads \ {x} : thread[y].pc \in {"find", "push"} /\ thread[y].dev = d

-----------------------------------------------------------------------------
(* What makes a thread mark a device *)

\* on_transport_message found the sender in the store.
Message(d) ==
  /\ thread["io"] = Idle
  /\ d \in store
  /\ Goto("io", Marking(d, "on"))
  /\ UNCHANGED <<store, online, shown, blurred>>

\* handle_pair_response: upsert, then mark_peer_online.
PairResponse(d) ==
  /\ thread["io"] = Idle
  /\ store' = store \union {d}
  /\ Goto("io", Marking(d, "on"))
  /\ UNCHANGED <<online, shown, blurred>>

\* accept_pairing: upsert, then mark_peer_online.
AcceptPairing(d) ==
  /\ thread["ui"] = Idle
  /\ store' = store \union {d}
  /\ Goto("ui", Marking(d, "on"))
  /\ UNCHANGED <<online, shown, blurred>>

\* The callbacks CoreImpl::start gives to the discovery backend.  The address of
\* a device that is not in the store is ignored, its status is not.
PeerResolved(d) ==
  /\ thread["discovery"] = Idle
  /\ d \in Discoverable
  /\ Goto("discovery", Marking(d, "on"))
  /\ UNCHANGED <<store, online, shown, blurred>>

PeerLost(d) ==
  /\ thread["discovery"] = Idle
  /\ d \in Discoverable
  /\ Goto("discovery", Marking(d, "off"))
  /\ UNCHANGED <<store, online, shown, blurred>>

-----------------------------------------------------------------------------
(* mark_peer_online and mark_peer_offline, on any thread *)

\* A missing entry counts as a change to online, and not as a change to offline.
Changes(d, s) == online[d] # s /\ ~(s = "off" /\ online[d] = "none")

\* The critical section.
Mark(x) ==
  /\ thread[x].pc = "mark"
  /\ LET d == thread[x].dev
         s == thread[x].to
     IN  /\ online' = [online EXCEPT ![d] = s]
         /\ Goto(x, IF Changes(d, s) THEN [thread[x] EXCEPT !.pc = "find"]
                                     ELSE Idle)
         /\ blurred' = IF d \notin store \/ (Changes(d, s) /\ Notifying(d, x))
                         THEN blurred \union {d} ELSE blurred
  /\ UNCHANGED <<store, shown>>

\* The lookup of the device, for the callback.
Find(x) ==
  /\ thread[x].pc = "find"
  /\ Goto(x, IF thread[x].dev \in store THEN [thread[x] EXCEPT !.pc = "push"]
                                        ELSE Idle)
  /\ UNCHANGED <<store, online, shown, blurred>>

\* on_peer_status_changed_.
Push(x) ==
  /\ thread[x].pc = "push"
  /\ shown' = [shown EXCEPT ![thread[x].dev] = thread[x].to]
  /\ Goto(x, Idle)
  /\ UNCHANGED <<store, online, blurred>>

-----------------------------------------------------------------------------
(* remove_device and list_paired_devices, on the UI thread *)

RemoveDevice(d) ==
  /\ thread["ui"] = Idle
  /\ d \in store
  /\ store' = store \ {d}
  /\ Goto("ui", [pc |-> "erase", dev |-> d])
  /\ UNCHANGED <<online, shown, blurred>>

\* Mutant: remove_device leaves the status.
KeepStatus ==
  /\ thread["ui"].pc = "erase"
  /\ Goto("ui", [pc |-> "list"])
  /\ LET d == thread["ui"].dev
     IN  blurred' = IF d \in store \/ Notifying(d, "ui")
                      THEN blurred \union {d} ELSE blurred
  /\ UNCHANGED <<store, online, shown>>

\* The rest of remove_device, under state_mutex_; the user interface then
\* refreshes its list.
EraseStatus ==
  /\ thread["ui"].pc = "erase"
  /\ online' = [online EXCEPT ![thread["ui"].dev] = "none"]
  /\ Goto("ui", [pc |-> "list"])
  /\ LET d == thread["ui"].dev
     IN  blurred' = IF d \in store \/ Notifying(d, "ui")
                      THEN blurred \union {d} ELSE blurred
  /\ UNCHANGED <<store, shown>>

Refresh ==
  /\ thread["ui"] = Idle
  /\ Goto("ui", [pc |-> "list"])
  /\ UNCHANGED <<store, online, shown, blurred>>

\* list_paired_devices: a device without an entry is offline.
ListDevices ==
  /\ thread["ui"].pc = "list"
  /\ shown' = [d \in Devices |-> IF d \notin store THEN "none"
                                 ELSE IF online[d] = "on" THEN "on" ELSE "off"]
  /\ Goto("ui", Idle)
  /\ UNCHANGED <<store, online, blurred>>

\* What messages and the user cause, and what the discovery backend reports.
Cause == \E d \in Devices :
  Message(d) \/ PairResponse(d) \/ AcceptPairing(d) \/ RemoveDevice(d)
Report == \E d \in Devices : PeerResolved(d) \/ PeerLost(d)

\* The rest of a call, once the status is changed.
Continue ==
  \/ \E x \in Threads : Find(x) \/ Push(x)
  \/ EraseStatus \/ Refresh \/ ListDevices

Next == Cause \/ Report \/ Continue \/ \E x \in Threads : Mark(x)

Spec == Init /\ [][Next]_vars

-----------------------------------------------------------------------------
(* Properties *)

\* Types of the variables.
TypeOK ==
  /\ store \subseteq Devices
  /\ online \in [Devices -> Status]
  /\ thread \in [Threads -> ThreadStates]
  /\ shown \in [Devices -> Status]
  /\ blurred \subseteq Devices

Quiet == \A x \in Threads : thread[x] = Idle

\* When no call is in progress, the user sees the status the core has, for every
\* paired device whose notifications did not overlap and that was not marked
\* while it was unpaired: no push is skipped, and remove_device leaves no entry
\* behind that would make the push of a new pairing look like no change.
ShownAgrees ==
  Quiet => \A d \in store \ blurred : shown[d] = "on" <=> online[d] = "on"
=============================================================================

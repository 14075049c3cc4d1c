---------------------------- MODULE DiscoveryNsd ----------------------------
(***************************************************************************)
(* NsdDiscovery (NsdDiscovery.kt), the backend on Android, between the     *)
(* system's NsdManager and RemboardNative.onPeerResolved and onPeerLost.   *)
(* The listeners that NsdDiscovery gives to NsdManager are all called on   *)
(* one thread, from one queue, while the system goes on finding, losing    *)
(* and resolving services.  The system is modelled from that use.          *)
(***************************************************************************)
EXTENDS Naturals, Sequences

CONSTANTS
  Peers,       \* service names; a service has one device_uuid
  MaxMessages  \* bound on what waits for the listeners

VARIABLES
  registered,         \* peers whose service is on the network
  messages,           \* calls of listeners that wait for the thread
  resolving,          \* peers that the system is resolving
  serviceNameToUuid,  \* peers with an entry in that map
  told                \* the last call for each peer: "none", "resolved", "lost"

vars == <<registered, messages, resolving, serviceNameToUuid, told>>

Message(kind, p) == [message |-> kind, peer |-> p]
Messages == [message : {"FOUND", "LOST", "RESOLVED", "FAILED"}, peer : Peers]

Init ==
  /\ registered = {}
  /\ messages = <<>>
  /\ resolving = {}
  /\ serviceNameToUuid = {}
  /\ told = [p \in Peers |-> "none"]

-----------------------------------------------------------------------------
(* The system *)

Post(kind, p) ==
  /\ Len(messages) < MaxMessages
  /\ messages' = Append(messages, Message(kind, p))

Appear(p) ==
  /\ p \notin registered
  /\ registered' = registered \union {p}
  /\ Post("FOUND", p)
  /\ UNCHANGED <<resolving, serviceNameToUuid, told>>

\* A goodbye, or the service's record expires.
Disappear(p) ==
  /\ p \in registered
  /\ registered' = registered \ {p}
  /\ Post("LOST", p)
  /\ UNCHANGED <<resolving, serviceNameToUuid, told>>

\* A resolution ends.  It may fail, also because another one is still running.
Resolve(p) ==
  /\ p \in resolving
  /\ resolving' = resolving \ {p}
  /\ Post("FAILED", p) \/ (p \in registered /\ Post("RESOLVED", p))
  /\ UNCHANGED <<registered, serviceNameToUuid, told>>

-----------------------------------------------------------------------------
(* The thread of the listeners *)

\* The next message is this one.
Receives(kind, p) ==
  /\ messages # <<>>
  /\ Head(messages) = Message(kind, p)
  /\ messages' = Tail(messages)

OnServiceFound(p) ==
  /\ Receives("FOUND", p)
  /\ resolving' = resolving \union {p}
  /\ UNCHANGED <<registered, serviceNameToUuid, told>>

\* Nobody tries again.
OnResolveFailed(p) ==
  /\ Receives("FAILED", p)
  /\ UNCHANGED <<registered, resolving, serviceNameToUuid, told>>

\* Mutant: the peer is reported, but its name is not remembered.
ResolvedUnnamed(p) ==
  /\ Receives("RESOLVED", p)
  /\ told' = [told EXCEPT ![p] = "resolved"]
  /\ UNCHANGED <<registered, resolving, serviceNameToUuid>>

OnServiceResolved(p) ==
  /\ Receives("RESOLVED", p)
  /\ serviceNameToUuid' = serviceNameToUuid \union {p}
  /\ told' = [told EXCEPT ![p] = "resolved"]
  /\ UNCHANGED <<registered, resolving>>

OnServiceLost(p) ==
  /\ Receives("LOST", p)
  /\ IF p \in serviceNameToUuid
       THEN /\ serviceNameToUuid' = serviceNameToUuid \ {p}
            /\ told' = [told EXCEPT ![p] = "lost"]
       ELSE UNCHANGED <<serviceNameToUuid, told>>
  /\ UNCHANGED <<registered, resolving>>

System == \E p \in Peers : Appear(p) \/ Disappear(p) \/ Resolve(p)

Listeners ==
  \E p \in Peers :
    \/ OnServiceFound(p)
    \/ OnResolveFailed(p)
    \/ OnServiceResolved(p)
    \/ OnServiceLost(p)

Next == System \/ Listeners

Spec == Init /\ [][Next]_vars

-----------------------------------------------------------------------------
(* Properties *)

\* Types of the variables.
TypeOK ==
  /\ registered \subseteq Peers
  /\ messages \in Seq(Messages)
  /\ resolving \subseteq Peers
  /\ serviceNameToUuid \subseteq Peers
  /\ told \in [Peers -> {"none", "resolved", "lost"}]

\* Once every message and every resolution is dealt with, a peer that was reported
\* as resolved and not as lost since is on the network, however resolutions and
\* losses overlapped.
DeadPeerIsLost ==
  (messages = <<>> /\ resolving = {}) =>
    \A p \in Peers : told[p] = "resolved" => p \in registered
=============================================================================

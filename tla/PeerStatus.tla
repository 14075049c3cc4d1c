----------------------------- MODULE PeerStatus -----------------------------
(***************************************************************************)
(* Presence with a discovery backend, AvahiDiscovery, MdnsDiscovery or     *)
(* NsdDiscovery: what the user sees of a peer that comes and goes.  A      *)
(* callback of the backend runs on the backend's thread (Avahi's poll      *)
(* thread, the thread of MdnsDiscovery, the thread of NsdManager's         *)
(* listeners), which goes on only when mark_peer_online or                 *)
(* mark_peer_offline has returned: it is the "discovery" thread of         *)
(* Presence.                                                               *)
(***************************************************************************)
EXTENDS Presence, Sequences

CONSTANTS
  Backends,   \* the backends a program may be built with: "avahi", "mdns", "nsd"
  Paths,      \* interfaces and protocols on which Avahi's peers are announced
  MaxEvents   \* bound on what waits for the backend's thread

ASSUME PeerStatusAssumption ==
  Backends \subseteq {"avahi", "mdns", "nsd"} /\ MaxEvents \in Nat

VARIABLES
  backend,
  instances, told,                      \* see all backends
  announced, events, resolvers,         \* see DiscoveryAvahi
  up, asked, service, client, pending,  \* see DiscoveryMdns
  registered, messages, resolving,      \* see DiscoveryNsd
  heard   \* history: devices that were heard from by a message or a pairing
          \* since discovery last reported them lost

avahi == <<announced, events, resolvers>>
mdns == <<up, asked, service, client, pending>>
nsd == <<registered, messages, resolving>>
discovery == <<backend, instances, told, avahi, mdns, nsd>>
allVars == <<vars, discovery, heard>>

Avahi == INSTANCE DiscoveryAvahi WITH Peers <- Discoverable
Mdns == INSTANCE DiscoveryMdns WITH Peers <- Discoverable, MaxPackets <- MaxEvents
Nsd == INSTANCE DiscoveryNsd WITH Peers <- Discoverable, MaxMessages <- MaxEvents,
                                  serviceNameToUuid <- instances

InitStatus ==
  /\ Init
  /\ backend \in Backends
  /\ Avahi!Init
  /\ Mdns!Init
  /\ Nsd!Init
  /\ heard = {}

BackendFree == thread["discovery"] = Idle

-----------------------------------------------------------------------------
(* Avahi *)

\* The Avahi daemon goes on whatever the program does.
Daemon ==
  /\ backend = "avahi"
  /\ \E p \in Discoverable, c \in Paths :
       Avahi!Announce(p, c) \/ Avahi!Withdraw(p, c)
  /\ UNCHANGED <<vars, backend, mdns, nsd, heard>>

\* The poll thread, when it has nothing to report.
PollSilently ==
  /\ backend = "avahi"
  /\ BackendFree
  /\ \E p \in Discoverable :
       \/ Avahi!BrowseNew(p)
       \/ p \notin instances /\ Avahi!BrowseRemove(p)
       \/ \E c \in Paths : Avahi!ResolveFailed(p, c)
  /\ UNCHANGED <<vars, backend, mdns, nsd, heard>>

\* The poll thread in on_peer_resolved_ and on_peer_lost_.
ReportResolved ==
  /\ backend = "avahi"
  /\ \E p \in Discoverable, c \in Paths : Avahi!Resolved(p, c) /\ PeerResolved(p)
  /\ UNCHANGED <<backend, mdns, nsd, heard>>

ReportLost ==
  /\ backend = "avahi"
  /\ \E p \in instances : Avahi!BrowseRemove(p) /\ PeerLost(p)
  /\ UNCHANGED <<backend, mdns, nsd, heard>>

-----------------------------------------------------------------------------
(* mDNS *)

\* The network and the other devices.
MdnsNetwork ==
  /\ backend = "mdns"
  /\ Mdns!Network
  /\ UNCHANGED <<vars, backend, avahi, nsd, heard>>

\* The thread sends a query or reads the service socket.
MdnsSilently ==
  /\ backend = "mdns"
  /\ BackendFree
  /\ Mdns!SendBrowseQuery \/ Mdns!OnServiceQuery
  /\ UNCHANGED <<vars, backend, avahi, nsd, heard>>

\* The thread reads a client socket, and reports what try_emit or handle_goodbye
\* find.
MdnsAnswer ==
  /\ backend = "mdns"
  /\ BackendFree
  /\ \E p \in Discoverable :
       /\ Mdns!OnQueryAnswer(p)
       /\ IF Mdns!Emits(p) THEN PeerResolved(p)
          ELSE IF told'[p] # told[p] THEN PeerLost(p)
          ELSE UNCHANGED vars
  /\ UNCHANGED <<backend, avahi, nsd, heard>>

-----------------------------------------------------------------------------
(* NSD *)

\* The Android system.
NsdSystem ==
  /\ backend = "nsd"
  /\ Nsd!System
  /\ UNCHANGED <<vars, backend, avahi, mdns, heard>>

\* The listeners, when they have nothing to report.
NsdSilently ==
  /\ backend = "nsd"
  /\ BackendFree
  /\ \E p \in Discoverable :
       \/ Nsd!OnServiceFound(p)
       \/ Nsd!OnResolveFailed(p)
       \/ p \notin instances /\ Nsd!OnServiceLost(p)
  /\ UNCHANGED <<vars, backend, avahi, mdns, heard>>

\* RemboardNative.onPeerResolved and onPeerLost: AndroidDiscovery calls the core.
NotifyPeerResolved ==
  /\ backend = "nsd"
  /\ \E p \in Discoverable : Nsd!OnServiceResolved(p) /\ PeerResolved(p)
  /\ UNCHANGED <<backend, avahi, mdns, heard>>

NotifyPeerLost ==
  /\ backend = "nsd"
  /\ \E p \in instances : Nsd!OnServiceLost(p) /\ PeerLost(p)
  /\ UNCHANGED <<backend, avahi, mdns, heard>>

-----------------------------------------------------------------------------
(* The core *)

\* mark_peer_online and mark_peer_offline: who vouches for the device now.
MarkStatus(x) ==
  /\ Mark(x)
  /\ LET d == thread[x].dev
     IN  heard' = IF x # "discovery" THEN heard \union {d}
                  ELSE IF thread[x].to = "off" THEN heard \ {d}
                  ELSE heard
  /\ UNCHANGED discovery

CoreSteps == (Cause \/ Continue) /\ UNCHANGED <<discovery, heard>>

NextStatus ==
  \/ Daemon
  \/ PollSilently
  \/ ReportResolved
  \/ ReportLost
  \/ MdnsNetwork
  \/ MdnsSilently
  \/ MdnsAnswer
  \/ NsdSystem
  \/ NsdSilently
  \/ NotifyPeerResolved
  \/ NotifyPeerLost
  \/ \E x \in Threads : MarkStatus(x)
  \/ CoreSteps

SpecStatus == InitStatus /\ [][NextStatus]_allVars

-----------------------------------------------------------------------------
(* Properties *)

\* Types of the variables of all parts.
TypesOK ==
  /\ TypeOK
  /\ Avahi!TypeOK
  /\ Mdns!TypeOK
  /\ Nsd!TypeOK
  /\ backend \in Backends
  /\ heard \subseteq Devices

\* Avahi's and NSD's part: a peer that is announced nowhere has been reported as
\* lost, in whatever order the answers of resolvers and the removals come.
DeadPeerIsLost ==
  /\ backend = "avahi" => Avahi!DeadPeerIsLost
  /\ backend = "nsd" => Nsd!DeadPeerIsLost

\* mDNS's part: the two halves of a peer's answer add up in any order.
WholeIsReported == backend = "mdns" => Mdns!WholeIsReported

\* Nothing is on its way to the backend's thread.
Settled == events = <<>> /\ resolvers = {} /\ messages = <<>> /\ resolving = {}

\* d can be found on the network.
Reachable(d) ==
  d \in Discoverable /\ IF backend = "avahi" THEN announced[d] # {} ELSE d \in registered

\* With Avahi and NSD, the whole way from the network to the window: a paired device
\* that is announced nowhere, and that nothing was heard of since, is not shown as
\* online.
DeadPeerShownOffline ==
  (backend # "mdns" /\ Settled /\ Quiet) =>
    \A d \in store \ blurred : shown[d] = "on" => d \in heard \/ Reachable(d)
=============================================================================

---------------------------- MODULE DiscoveryMdns ----------------------------
(***************************************************************************)
(* MdnsDiscovery (core/src/discovery/discovery_mdns.cpp), the backend on   *)
(* Windows, and the peers it looks for.  Its thread has two kinds of       *)
(* sockets: the service socket on port 5353, where multicast arrives, and  *)
(* client sockets on ports of their own, from which it asks every few      *)
(* seconds and where the answers to its own questions arrive.              *)
(*                                                                         *)
(* The peers are other devices.  They do what this backend does when it    *)
(* runs there: announce() and its goodbye are multicast, answers to a      *)
(* question from a port other than 5353 go back to that port (send_answer, *)
(* unicast).  The parts that the mdns library and the network play are     *)
(* modelled from that use.  A packet may be lost, and the records of an    *)
(* answer may come in either order or in packets of their own.             *)
(***************************************************************************)
EXTENDS Naturals, Sequences

CONSTANTS
  Peers,      \* instance names; an instance has one device_uuid
  MaxPackets  \* bound on what waits at the service socket and at the client sockets

VARIABLES
  up,         \* peers whose thread is in its loop
  asked,      \* peers that a browse query is on its way to
  service,    \* packets that wait at the service socket
  client,     \* records that wait at the client sockets
  pending,    \* pending_: the halves of each peer's answer seen so far
  instances,  \* peers in instance_to_uuid_
  told        \* the last callback for each peer: "none", "resolved", "lost"

vars == <<up, asked, service, client, pending, instances, told>>

Halves == {"SRV", "TXT"}
Record(kind, p) == [record |-> kind, peer |-> p]
Records == [record : {"ANNOUNCE", "GOODBYE", "QUERY"} \union Halves, peer : Peers]

Init ==
  /\ up = {}
  /\ asked = {}
  /\ service = <<>>
  /\ client = <<>>
  /\ pending = [p \in Peers |-> {}]
  /\ instances = {}
  /\ told = [p \in Peers |-> "none"]

\* Multicast packets, to port 5353; the network may lose them.
Multicast(packets) ==
  /\ Len(service) + Len(packets) <= MaxPackets
  /\ service' \in {service, service \o packets}

-----------------------------------------------------------------------------
(* The peers *)

\* run() up to its loop: a browse query and an announcement.  (The queries of its
\* loop arrive here too; they change nothing, and are left out.)
PeerStarts(p) ==
  /\ p \notin up
  /\ up' = up \union {p}
  /\ Multicast(<<Record("QUERY", p), Record("ANNOUNCE", p)>>)
  /\ UNCHANGED <<asked, client, pending, instances, told>>

\* run() after its loop: the goodbye.
PeerStops(p) ==
  /\ p \in up
  /\ up' = up \ {p}
  /\ Multicast(<<Record("GOODBYE", p)>>)
  /\ UNCHANGED <<asked, client, pending, instances, told>>

\* on_service_query at a peer: the instance's SRV and TXT records, to the port
\* that asked; what of them arrives, and in which order, is up to the network.
PeerAnswers(p) ==
  /\ p \in asked \intersect up
  /\ asked' = asked \ {p}
  /\ \E answer \in {<<>>} \union {<<Record(h, p)>> : h \in Halves}
                     \union {<<Record(h, p), Record(g, p)>> : h, g \in Halves} :
       /\ Len(client) + Len(answer) <= MaxPackets
       /\ client' = client \o answer
  /\ UNCHANGED <<up, service, pending, instances, told>>

\* A query finds nobody.
QueryUnanswered(p) ==
  /\ p \in asked \ up
  /\ asked' = asked \ {p}
  /\ UNCHANGED <<up, service, client, pending, instances, told>>

-----------------------------------------------------------------------------
(* The thread of this backend *)

\* The loop's periodic send_browse_query.
SendBrowseQuery ==
  /\ asked' = Peers
  /\ UNCHANGED <<up, service, client, pending, instances, told>>

\* on_service_query, as it looks from here: it answers questions, which changes
\* nothing, and looks at nothing else.
OnServiceQuery ==
  /\ service # <<>>
  /\ service' = Tail(service)
  /\ UNCHANGED <<up, asked, client, pending, instances, told>>

\* Mutant: half an answer is enough.
HasHalf(halves) == halves # {}

HasBoth(halves) == halves = Halves

\* on_query_answer hears of both halves, and try_emit reports the peer.
Emits(p) ==
  /\ client # <<>>
  /\ Head(client).peer = p
  /\ Head(client).record \in Halves
  /\ HasBoth(pending[p] \union {Head(client).record})

\* handle_goodbye.
HandleGoodbye(p) ==
  IF p \in instances
    THEN /\ instances' = instances \ {p}
         /\ pending' = [pending EXCEPT ![p] = {}]
         /\ told' = [told EXCEPT ![p] = "lost"]
    ELSE UNCHANGED <<pending, instances, told>>

\* A PTR record: only the time to live of a goodbye, zero, is looked at.
OnPtrRecord(p) ==
  IF Head(client).record = "GOODBYE"
    THEN HandleGoodbye(p)
    ELSE UNCHANGED <<pending, instances, told>>

\* An SRV or a TXT record.
OnHalf(p) ==
  /\ pending' = [pending EXCEPT ![p] = @ \union {Head(client).record}]
  /\ IF Emits(p)
       THEN /\ instances' = instances \union {p}
            /\ told' = [told EXCEPT ![p] = "resolved"]
       ELSE UNCHANGED <<instances, told>>

\* on_query_answer, for one record.
OnQueryAnswer(p) ==
  /\ client # <<>>
  /\ Head(client).peer = p
  /\ client' = Tail(client)
  /\ IF Head(client).record \in Halves THEN OnHalf(p) ELSE OnPtrRecord(p)
  /\ UNCHANGED <<up, asked, service>>

Network ==
  \E p \in Peers :
    PeerStarts(p) \/ PeerStops(p) \/ PeerAnswers(p) \/ QueryUnanswered(p)

Next ==
  \/ Network
  \/ SendBrowseQuery
  \/ OnServiceQuery
  \/ \E p \in Peers : OnQueryAnswer(p)

Spec == Init /\ [][Next]_vars

-----------------------------------------------------------------------------
(* Properties *)

\* Types of the variables.
TypeOK ==
  /\ up \subseteq Peers
  /\ asked \subseteq Peers
  /\ service \in Seq(Records)
  /\ client \in Seq(Records)
  /\ pending \in [Peers -> SUBSET Halves]
  /\ instances \subseteq Peers
  /\ told \in [Peers -> {"none", "resolved", "lost"}]

\* A peer is reported exactly when its address and its uuid are both known, in
\* whichever order they came, in one packet or in several, and for good: a record
\* that was lost is made up for by a later answer.
WholeIsReported ==
  \A p \in Peers : told[p] = "resolved" <=> pending[p] = Halves

\* A goodbye that arrives is heard: the peer does not count as reachable after it
\* (idiscovery.h: on_peer_lost is fired on a clean shutdown's goodbye packet).
Arrives(packet) ==
  /\ service # <<>>
  /\ Head(service) = packet
  /\ service' = Tail(service)
GoodbyeIsHeard ==
  [][\A p \in Peers : Arrives(Record("GOODBYE", p)) => told'[p] # "resolved"]_vars
=============================================================================

--------------------------- MODULE DiscoveryAvahi ---------------------------
(***************************************************************************)
(* AvahiDiscovery (core/src/discovery/discovery_avahi.cpp) between the     *)
(* Avahi daemon and the callbacks that CoreImpl::start gave it.  A peer    *)
(* announces one service instance, on every path (network interface and    *)
(* protocol) it has; the daemon reports each path by an event of its own,  *)
(* and the poll thread handles the events one after the other.  The        *)
(* daemon, and the resolvers it runs, are modelled from that use.          *)
(***************************************************************************)
EXTENDS Naturals, Sequences

CONSTANTS
  Peers,      \* instance names; an instance has one device_uuid
  Paths,      \* pairs of an interface and a protocol
  MaxEvents   \* bound on the events that wait for the poll thread

VARIABLES
  announced,  \* the paths on which each peer is announced
  events,     \* browser events on their way to browse_callback
  resolvers,  \* <<peer, path>>: resolvers that have not answered yet (two for the
              \* same path answer alike)
  instances,  \* peers in instance_to_uuid_
  told        \* the last callback for each peer: "none", "resolved", "lost"

vars == <<announced, events, resolvers, instances, told>>

Event(kind, p, c) == [event |-> kind, peer |-> p, path |-> c]
Events == [event : {"NEW", "REMOVE"}, peer : Peers, path : Paths]

Init ==
  /\ announced = [p \in Peers |-> {}]
  /\ events = <<>>
  /\ resolvers = {}
  /\ instances = {}
  /\ told = [p \in Peers |-> "none"]

-----------------------------------------------------------------------------
(* The daemon *)

\* p appears on a path: it comes up, or its machine joins that network.
Announce(p, c) ==
  /\ c \notin announced[p]
  /\ Len(events) < MaxEvents
  /\ announced' = [announced EXCEPT ![p] = @ \union {c}]
  /\ events' = Append(events, Event("NEW", p, c))
  /\ UNCHANGED <<resolvers, instances, told>>

\* p disappears from a path: a goodbye, or its record expires.
Withdraw(p, c) ==
  /\ c \in announced[p]
  /\ Len(events) < MaxEvents
  /\ announced' = [announced EXCEPT ![p] = @ \ {c}]
  /\ events' = Append(events, Event("REMOVE", p, c))
  /\ UNCHANGED <<resolvers, instances, told>>

-----------------------------------------------------------------------------
(* The poll thread *)

\* browse_callback handles an event of this kind.
Browse(kind, p) ==
  /\ events # <<>>
  /\ Head(events).event = kind
  /\ Head(events).peer = p
  /\ events' = Tail(events)

\* AVAHI_BROWSER_NEW: a resolver, for this path.
BrowseNew(p) ==
  /\ Browse("NEW", p)
  /\ resolvers' = resolvers \union {<<p, Head(events).path>>}
  /\ UNCHANGED <<announced, instances, told>>

\* Mutant: the entry goes, but nobody is told.
ForgetInstance(p) ==
  /\ instances' = instances \ {p}
  /\ UNCHANGED told

\* handle_instance_removed looks at the name of the instance only.
HandleInstanceRemoved(p) ==
  IF p \in instances
    THEN /\ instances' = instances \ {p}
         /\ told' = [told EXCEPT ![p] = "lost"]
    ELSE UNCHANGED <<instances, told>>

\* AVAHI_BROWSER_REMOVE.
BrowseRemove(p) ==
  /\ Browse("REMOVE", p)
  /\ HandleInstanceRemoved(p)
  /\ UNCHANGED <<announced, resolvers>>

\* Mutant: the daemon's answer is taken as is, however old it is.
AnswersFromCache(p, c) == <<p, c>> \in resolvers

\* A resolver finds only what is announced on its path; its answer may be handled
\* after p has gone, but not after the event that says so, which the daemon sent
\* later.
Answers(p, c) ==
  /\ <<p, c>> \in resolvers
  /\ c \in announced[p] \/ \E i \in DOMAIN events : events[i] = Event("REMOVE", p, c)

\* resolve_callback with AVAHI_RESOLVER_FOUND.
Resolved(p, c) ==
  /\ Answers(p, c)
  /\ resolvers' = resolvers \ {<<p, c>>}
  /\ instances' = instances \union {p}
  /\ told' = [told EXCEPT ![p] = "resolved"]
  /\ UNCHANGED <<announced, events>>

\* resolve_callback with AVAHI_RESOLVER_FAILURE: the resolver is freed, nobody
\* tries again.
ResolveFailed(p, c) ==
  /\ <<p, c>> \in resolvers
  /\ resolvers' = resolvers \ {<<p, c>>}
  /\ UNCHANGED <<announced, events, instances, told>>

Next ==
  \E p \in Peers :
    \/ BrowseNew(p)
    \/ BrowseRemove(p)
    \/ \E c \in Paths : \/ Announce(p, c)
                        \/ Withdraw(p, c)
                        \/ Resolved(p, c)
                        \/ ResolveFailed(p, c)

Spec == Init /\ [][Next]_vars

-----------------------------------------------------------------------------
(* Properties *)

\* Types of the variables; instance_to_uuid_ holds the peers that core was last told
\* it can reach, so that a removal is reported once for every resolution.
TypeOK ==
  /\ announced \in [Peers -> SUBSET Paths]
  /\ events \in Seq(Events)
  /\ resolvers \subseteq Peers \X Paths
  /\ instances \subseteq Peers
  /\ told \in [Peers -> {"none", "resolved", "lost"}]
  /\ instances = {p \in Peers : told[p] = "resolved"}

\* Once every event and every resolver is dealt with, a peer that was reported as
\* resolved and not as lost since is announced somewhere: no order of a resolver's
\* answer and a removal leaves a dead peer online.
DeadPeerIsLost ==
  (events = <<>> /\ resolvers = {}) =>
    \A p \in Peers : told[p] = "resolved" => announced[p] # {}
=============================================================================

------------------------ MODULE DiscoveryAvahiProofs ------------------------
(***************************************************************************)
(* Proofs about DiscoveryAvahi, for every set of peers and paths and every *)
(* bound on the events on their way.                                       *)
(***************************************************************************)
EXTENDS DiscoveryAvahi, TLAPS

\* The daemon has sent a removal of p that the poll thread has not handled yet.
RemovalPending(p) ==
  \E i \in DOMAIN events : \E c \in Paths : events[i] = Event("REMOVE", p, c)
\* A peer that was reported as resolved is announced, or its removal is pending.
GoneIsPending ==
  \A p \in Peers :
    told[p] = "resolved" => announced[p] # {} \/ RemovalPending(p)

DiscoveryInv == TypeOK /\ GoneIsPending

-----------------------------------------------------------------------------
(* Lemmas *)

\* Whatever the daemon adds stays behind what waits already.
LEMMA StillPendingAppend ==
  ASSUME TypeOK, NEW e \in Events, events' = Append(events, e),
         NEW p, RemovalPending(p)
  PROVE  RemovalPending(p)'
<1>1. PICK i \in DOMAIN events : \E c \in Paths : events[i] = Event("REMOVE", p, c)
  BY DEF RemovalPending
<1>2. i \in DOMAIN events' /\ events'[i] = events[i]
  BY DEF TypeOK
<1> QED
  BY <1>1, <1>2 DEF RemovalPending, Event

\* Handling an event leaves the others, and so the removals of other peers.
LEMMA StillPendingTail ==
  ASSUME TypeOK, events # <<>>, events' = Tail(events), NEW p, RemovalPending(p),
         ~(Head(events).event = "REMOVE" /\ Head(events).peer = p)
  PROVE  RemovalPending(p)'
<1>1. PICK i \in DOMAIN events : \E c \in Paths : events[i] = Event("REMOVE", p, c)
  BY DEF RemovalPending
<1>2. i # 1
  BY <1>1 DEF TypeOK, Event
<1>3. /\ i \in 1 .. Len(events)
      /\ Len(events') = Len(events) - 1
      /\ \A j \in 1 .. Len(events') : events'[j] = events[j + 1]
  BY DEF TypeOK
<1>4. i - 1 \in DOMAIN events' /\ events'[i - 1] = events[i]
  BY <1>2, <1>3 DEF TypeOK
<1> QED
  BY <1>1, <1>4 DEF RemovalPending, Event

-----------------------------------------------------------------------------
(* The invariant *)

LEMMA InitInv == Init => DiscoveryInv
  BY DEF Init, DiscoveryInv, TypeOK, GoneIsPending

LEMMA TypeStep == TypeOK /\ [Next]_vars => TypeOK'
<1> SUFFICES ASSUME TypeOK, [Next]_vars PROVE TypeOK'
  OBVIOUS
<1>1. ASSUME NEW p \in Peers, BrowseNew(p) PROVE TypeOK'
  <2>1. Head(events) \in Events /\ Tail(events) \in Seq(Events)
    BY <1>1 DEF TypeOK, BrowseNew, Browse
  <2>2. Head(events).path \in Paths
    BY <2>1 DEF Events
  <2> QED
    BY <1>1, <2>1, <2>2 DEF TypeOK, BrowseNew, Browse
<1>2. ASSUME NEW p \in Peers, BrowseRemove(p) PROVE TypeOK'
  BY <1>2 DEF TypeOK, BrowseRemove, Browse, HandleInstanceRemoved
<1>3. ASSUME NEW p \in Peers, NEW c \in Paths, Announce(p, c) PROVE TypeOK'
  BY <1>3 DEF TypeOK, Announce, Event, Events
<1>4. ASSUME NEW p \in Peers, NEW c \in Paths, Withdraw(p, c) PROVE TypeOK'
  BY <1>4 DEF TypeOK, Withdraw, Event, Events
<1>5. ASSUME NEW p \in Peers, NEW c \in Paths, Resolved(p, c) PROVE TypeOK'
  BY <1>5 DEF TypeOK, Resolved
<1>6. ASSUME NEW p \in Peers, NEW c \in Paths, ResolveFailed(p, c) PROVE TypeOK'
  BY <1>6 DEF TypeOK, ResolveFailed
<1>7. CASE UNCHANGED vars
  BY <1>7 DEF TypeOK, vars
<1> QED
  BY <1>1, <1>2, <1>3, <1>4, <1>5, <1>6, <1>7 DEF Next

LEMMA PendingStep == DiscoveryInv /\ [Next]_vars => GoneIsPending'
<1> SUFFICES ASSUME TypeOK, GoneIsPending, [Next]_vars,
                    NEW q \in Peers, told'[q] = "resolved"
             PROVE  announced'[q] # {} \/ RemovalPending(q)'
  BY DEF DiscoveryInv, GoneIsPending
<1>1. ASSUME NEW p \in Peers, BrowseNew(p)
      PROVE  announced'[q] # {} \/ RemovalPending(q)'
  <2>1. told[q] = "resolved" /\ UNCHANGED announced
    BY <1>1 DEF BrowseNew
  <2>2. RemovalPending(q) => RemovalPending(q)'
    BY <1>1, StillPendingTail DEF BrowseNew, Browse
  <2> QED
    BY <2>1, <2>2 DEF GoneIsPending
<1>2. ASSUME NEW p \in Peers, BrowseRemove(p)
      PROVE  announced'[q] # {} \/ RemovalPending(q)'
  <2>1. q # p
    BY <1>2 DEF BrowseRemove, HandleInstanceRemoved, TypeOK
  <2>2. told[q] = "resolved" /\ UNCHANGED announced
    BY <1>2, <2>1 DEF BrowseRemove, HandleInstanceRemoved, TypeOK
  <2>3. RemovalPending(q) => RemovalPending(q)'
    BY <1>2, <2>1, StillPendingTail DEF BrowseRemove, Browse
  <2> QED
    BY <2>2, <2>3 DEF GoneIsPending
<1>3. ASSUME NEW p \in Peers, NEW c \in Paths, Announce(p, c)
      PROVE  announced'[q] # {} \/ RemovalPending(q)'
  <2>1. told[q] = "resolved" /\ (announced[q] # {} => announced'[q] # {})
    BY <1>3 DEF Announce, TypeOK
  <2>2. RemovalPending(q) => RemovalPending(q)'
    BY <1>3, StillPendingAppend DEF Announce, Event, Events
  <2> QED
    BY <2>1, <2>2 DEF GoneIsPending
<1>4. ASSUME NEW p \in Peers, NEW c \in Paths, Withdraw(p, c)
      PROVE  announced'[q] # {} \/ RemovalPending(q)'
  <2>1. told[q] = "resolved"
    BY <1>4 DEF Withdraw
  <2>2. RemovalPending(q) => RemovalPending(q)'
    BY <1>4, StillPendingAppend DEF Withdraw, Event, Events
  <2>3. q # p => announced'[q] = announced[q]
    BY <1>4 DEF Withdraw, TypeOK
  <2>4. RemovalPending(p)'
    <3>1. /\ Len(events') = Len(events) + 1
          /\ Len(events') \in DOMAIN events'
          /\ events'[Len(events')] = Event("REMOVE", p, c)
      BY <1>4 DEF Withdraw, TypeOK
    <3> QED
      BY <3>1 DEF RemovalPending
  <2> QED
    BY <2>1, <2>2, <2>3, <2>4 DEF GoneIsPending
<1>5. ASSUME NEW p \in Peers, NEW c \in Paths, Resolved(p, c)
      PROVE  announced'[q] # {} \/ RemovalPending(q)'
  <2>1. UNCHANGED <<announced, events>>
    BY <1>5 DEF Resolved
  <2>2. announced[p] # {} \/ RemovalPending(p)
    BY <1>5 DEF Resolved, Answers, RemovalPending
  <2>3. q # p => told[q] = "resolved"
    BY <1>5 DEF Resolved, TypeOK
  <2> QED
    BY <2>1, <2>2, <2>3 DEF GoneIsPending, RemovalPending
<1>6. ASSUME NEW p \in Peers, NEW c \in Paths, ResolveFailed(p, c)
      PROVE  announced'[q] # {} \/ RemovalPending(q)'
  BY <1>6 DEF ResolveFailed, GoneIsPending, RemovalPending
<1>7. CASE UNCHANGED vars
  BY <1>7 DEF vars, GoneIsPending, RemovalPending
<1> QED
  BY <1>1, <1>2, <1>3, <1>4, <1>5, <1>6, <1>7 DEF Next

\* AvahiDiscovery's variables keep their types, and instance_to_uuid_ holds exactly
\* the peers that the core was last told it can reach.
THEOREM TypeCorrect == Spec => []TypeOK
<1>1. Init => TypeOK
  BY InitInv DEF DiscoveryInv
<1> QED
  BY <1>1, TypeStep, PTL DEF Spec

\* No order of browse_callback and resolve_callback leaves a peer that is announced
\* nowhere reported as resolved, once all is handled, however many peers and paths.
THEOREM DeadPeersAreLost == Spec => []DeadPeerIsLost
<1>1. DiscoveryInv /\ [Next]_vars => DiscoveryInv'
  BY TypeStep, PendingStep DEF DiscoveryInv
<1>2. DiscoveryInv => DeadPeerIsLost
  BY DEF DiscoveryInv, GoneIsPending, RemovalPending, DeadPeerIsLost
<1> QED
  BY <1>1, <1>2, InitInv, PTL DEF Spec
=============================================================================

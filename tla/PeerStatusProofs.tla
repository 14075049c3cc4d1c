-------------------------- MODULE PeerStatusProofs --------------------------
(***************************************************************************)
(* Proofs about PeerStatus and its parts, for any devices, paths and       *)
(* backends and any bound on what waits for the backend's thread: the      *)
(* types, that the list agrees with the core (ShownAgrees), what each      *)
(* backend promises, and that dead peers are shown offline.                *)
(***************************************************************************)
EXTENDS PeerStatus, SequenceTheorems, TLAPS

-----------------------------------------------------------------------------
(* Presence: its types *)

\* A thread that goes on leaves the others where they are.
LEMMA GotoThread ==
  ASSUME thread \in [Threads -> ThreadStates], NEW x \in Threads,
         NEW state \in ThreadStates, Goto(x, state)
  PROVE  /\ thread' \in [Threads -> ThreadStates]
         /\ thread'[x] = state
         /\ \A y \in Threads \ {x} : thread'[y] = thread[y]
BY DEF Goto

\* What a thread may be told to do is one of its states.
LEMMA States ==
  /\ Idle \in ThreadStates
  /\ [pc |-> "list"] \in ThreadStates
  /\ \A d \in Devices : [pc |-> "erase", dev |-> d] \in ThreadStates
  /\ \A d \in Devices, s \in {"on", "off"} : Marking(d, s) \in ThreadStates
  /\ {"io", "discovery", "ui"} = Threads
BY DEF ThreadStates, Idle, Marking, Threads

\* A thread in mark_peer_online or mark_peer_offline, and where it goes on.
LEMMA InCall ==
  ASSUME TypeOK, NEW x \in Threads, thread[x].pc \in {"mark", "find", "push"}
  PROVE  /\ thread[x].dev \in Devices
         /\ thread[x].to \in {"on", "off"}
         /\ \A pc \in {"find", "push"} :
              /\ [thread[x] EXCEPT !.pc = pc] \in ThreadStates
              /\ [thread[x] EXCEPT !.pc = pc].pc = pc
              /\ [thread[x] EXCEPT !.pc = pc].dev = thread[x].dev
              /\ [thread[x] EXCEPT !.pc = pc].to = thread[x].to
<1>1. thread[x] \in ThreadStates
  BY DEF TypeOK
<1>2. thread[x] \in [pc : {"mark", "find", "push"}, dev : Devices, to : {"on", "off"}]
  BY <1>1 DEF ThreadStates, Idle
<1> QED
  BY <1>2 DEF ThreadStates

\* remove_device between its two steps.
LEMMA InErase ==
  ASSUME TypeOK, thread["ui"].pc = "erase"
  PROVE  thread["ui"].dev \in Devices
<1>1. thread["ui"] \in ThreadStates
  BY DEF TypeOK, Threads
<1> QED
  BY <1>1 DEF ThreadStates, Idle

LEMMA PresenceTypeStep == TypeOK /\ [Next]_vars => TypeOK'
<1> SUFFICES ASSUME TypeOK, [Next]_vars PROVE TypeOK'
  OBVIOUS
<1> USE States
<1>1. ASSUME NEW d \in Devices, Message(d) PROVE TypeOK'
  BY <1>1, GotoThread DEF TypeOK, Message
<1>2. ASSUME NEW d \in Devices, PairResponse(d) PROVE TypeOK'
  BY <1>2, GotoThread DEF TypeOK, PairResponse
<1>3. ASSUME NEW d \in Devices, AcceptPairing(d) PROVE TypeOK'
  BY <1>3, GotoThread DEF TypeOK, AcceptPairing
<1>4. ASSUME NEW d \in Devices, PeerResolved(d) PROVE TypeOK'
  BY <1>4, GotoThread DEF TypeOK, PeerResolved
<1>5. ASSUME NEW d \in Devices, PeerLost(d) PROVE TypeOK'
  BY <1>5, GotoThread DEF TypeOK, PeerLost
<1>6. ASSUME NEW x \in Threads, Mark(x) PROVE TypeOK'
  <2> USE <1>6 DEF Mark
  <2>1. online' \in [Devices -> Status]
    BY InCall DEF TypeOK, Status
  <2>2. thread' \in [Threads -> ThreadStates]
    BY InCall, GotoThread DEF TypeOK
  <2>3. blurred' \subseteq Devices
    BY InCall DEF TypeOK
  <2> QED
    BY <2>1, <2>2, <2>3 DEF TypeOK
<1>7. ASSUME NEW x \in Threads, Find(x) PROVE TypeOK'
  BY <1>7, InCall, GotoThread DEF TypeOK, Find
<1>8. ASSUME NEW x \in Threads, Push(x) PROVE TypeOK'
  <2> USE <1>8 DEF Push
  <2>1. shown' \in [Devices -> Status]
    BY InCall DEF TypeOK, Status
  <2> QED
    BY <2>1, GotoThread DEF TypeOK
<1>9. ASSUME NEW d \in Devices, RemoveDevice(d) PROVE TypeOK'
  BY <1>9, GotoThread DEF TypeOK, RemoveDevice
<1>10. ASSUME EraseStatus PROVE TypeOK'
  <2> USE <1>10 DEF EraseStatus
  <2>1. online' \in [Devices -> Status] /\ blurred' \subseteq Devices
    BY InErase DEF TypeOK, Status
  <2> QED
    BY <2>1, GotoThread DEF TypeOK
<1>11. ASSUME Refresh PROVE TypeOK'
  BY <1>11, GotoThread DEF TypeOK, Refresh
<1>12. ASSUME ListDevices PROVE TypeOK'
  BY <1>12, GotoThread DEF TypeOK, ListDevices, Status
<1>13. CASE UNCHANGED vars
  BY <1>13 DEF TypeOK, vars
<1> QED
  BY <1>1, <1>2, <1>3, <1>4, <1>5, <1>6, <1>7, <1>8, <1>9, <1>10, <1>11, <1>12,
     <1>13 DEF Next, Cause, Report, Continue

-----------------------------------------------------------------------------
(* Presence: the list agrees with the core *)

\* x has changed the status of d and not pushed it yet.
Notifies(x, d) == thread[x].pc \in {"find", "push"} /\ thread[x].dev = d

\* remove_device(d) is between its two steps.
Erasing(d) == thread["ui"].pc = "erase" /\ thread["ui"].dev = d

\* What keeps the list of a device and its status together while calls run:
\* one thread at a time notifies, of the status the device has now; a device that
\* is not in the store has no status and no notification; and with nothing on
\* its way the list is right.
Follows(d) ==
  /\ \A x, y \in Threads : Notifies(x, d) /\ Notifies(y, d) => x = y
  /\ \A x \in Threads : Notifies(x, d) => online[d] = thread[x].to
  /\ (d \notin store /\ ~Erasing(d)) =>
        online[d] = "none" /\ \A x \in Threads : ~Notifies(x, d)
  /\ (~Erasing(d) /\ thread["ui"].pc # "list" /\ \A x \in Threads : ~Notifies(x, d))
        => (shown[d] = "on" <=> online[d] = "on")

AllFollow == \A d \in Devices \ blurred : Follows(d)

LEMMA InitFollows == Init => AllFollow
<1> SUFFICES ASSUME Init, NEW d \in Devices PROVE Follows(d)
  BY DEF AllFollow
<1>1. \A x \in Threads : thread[x].pc = "idle"
  BY DEF Init, Idle
<1>2. ~Erasing(d) /\ \A x \in Threads : ~Notifies(x, d)
  BY <1>1 DEF Erasing, Notifies, Threads
<1>3. online[d] = "none" /\ shown[d] # "on"
  BY DEF Init
<1> QED
  BY <1>2, <1>3 DEF Follows

\* Whatever starts a call, but remove_device: the thread was idle and marks d next.
LEMMA CauseFollows ==
  ASSUME TypeOK, NEW x \in Threads, NEW e \in Devices, NEW s \in {"on", "off"},
         thread[x] = Idle, Goto(x, Marking(e, s)),
         store \subseteq store', UNCHANGED <<online, shown, blurred>>,
         NEW d \in Devices, Follows(d)
  PROVE  Follows(d)'
<1>1. /\ thread'[x] = Marking(e, s)
      /\ \A y \in Threads \ {x} : thread'[y] = thread[y]
  BY GotoThread, States DEF TypeOK
<1>2. \A y \in Threads :
        /\ Notifies(y, d)' <=> Notifies(y, d)
        /\ Notifies(y, d) => thread'[y] = thread[y]
  BY <1>1 DEF Notifies, Idle, Marking
<1>3. /\ Erasing(d)' <=> Erasing(d)
      /\ thread'["ui"].pc = "list" <=> thread["ui"].pc = "list"
  BY <1>1 DEF Erasing, Idle, Marking, Threads
<1> QED
  BY <1>2, <1>3 DEF Follows

\* mark_peer_online and mark_peer_offline.
LEMMA MarkFollows ==
  ASSUME TypeOK, NEW x \in Threads, Mark(x),
         NEW d \in Devices \ blurred', Follows(d)
  PROVE  Follows(d)'
<1> DEFINE e == thread[x].dev
           s == thread[x].to
<1>1. /\ e \in Devices /\ s \in {"on", "off"} /\ thread[x].pc = "mark"
      /\ UNCHANGED <<store, shown>>
      /\ online' = [online EXCEPT ![e] = s]
  BY InCall DEF Mark
<1>2. \A y \in Threads \ {x} : thread'[y] = thread[y]
  BY InCall, States, GotoThread DEF Mark, TypeOK
<1>3. CASE e # d
  <2>1. online'[d] = online[d]
    BY <1>1, <1>3 DEF TypeOK
  <2>2. thread'[x] = Idle \/ (thread'[x].dev = e /\ thread'[x].pc = "find")
    <3>1. CASE Changes(e, s)
      <4>1. Goto(x, [thread[x] EXCEPT !.pc = "find"])
        BY <3>1 DEF Mark
      <4>2. thread'[x] = [thread[x] EXCEPT !.pc = "find"]
        BY <1>1, <4>1, InCall, GotoThread DEF TypeOK
      <4> QED
        BY <1>1, <4>2, InCall
    <3>2. CASE ~Changes(e, s)
      BY <3>2, States, GotoThread DEF Mark, TypeOK
    <3> QED
      BY <3>1, <3>2
  <2>3. \A y \in Threads : /\ Notifies(y, d)' <=> Notifies(y, d)
                           /\ Notifies(y, d) => thread'[y] = thread[y]
    BY <1>1, <1>2, <1>3, <2>2 DEF Notifies, Idle
  <2>4. /\ Erasing(d)' <=> Erasing(d)
        /\ thread'["ui"].pc = "list" <=> thread["ui"].pc = "list"
    BY <1>1, <1>2, <2>2 DEF Erasing, Idle, Threads
  <2> QED
    BY <1>1, <2>1, <2>3, <2>4 DEF Follows
<1>4. CASE e = d /\ Changes(d, s)
  <2>1. d \in store /\ ~Notifying(d, x)
    BY <1>4 DEF Mark
  <2>2. \A y \in Threads \ {x} : ~Notifies(y, d)'
    BY <1>2, <2>1 DEF Notifying, Notifies
  <2>3. thread'[x].pc = "find" /\ thread'[x].dev = d /\ thread'[x].to = s
    <3>1. Goto(x, [thread[x] EXCEPT !.pc = "find"])
      BY <1>4 DEF Mark
    <3>2. thread'[x] = [thread[x] EXCEPT !.pc = "find"]
      BY <1>1, <3>1, InCall, GotoThread DEF TypeOK
    <3> QED
      BY <1>1, <1>4, <3>2, InCall
  <2>4. online'[d] = s
    BY <1>1, <1>4 DEF TypeOK
  <2>5. Notifies(x, d)'
    BY <2>3 DEF Notifies
  <2> QED
    BY <1>1, <2>1, <2>2, <2>3, <2>4, <2>5 DEF Follows
<1>5. CASE e = d /\ ~Changes(d, s)
  <2>1. d \in store
    BY <1>5 DEF Mark
  <2>2. thread'[x] = Idle
    BY <1>5, States, GotoThread DEF Mark, TypeOK
  <2>3. \A y \in Threads : /\ Notifies(y, d)' <=> Notifies(y, d)
                           /\ Notifies(y, d) => thread'[y] = thread[y]
    BY <1>1, <1>2, <2>2 DEF Notifies, Idle
  <2>4. /\ Erasing(d)' <=> Erasing(d)
        /\ thread'["ui"].pc = "list" <=> thread["ui"].pc = "list"
    BY <1>1, <1>2, <2>2 DEF Erasing, Idle, Threads
  <2>5. online'[d] = online[d] \/ (online[d] = "none" /\ online'[d] = "off")
    BY <1>1, <1>5 DEF Changes, TypeOK
  <2>6. \A y \in Threads : Notifies(y, d) => online[d] # "none"
    BY InCall DEF Follows, Notifies
  <2> QED
    BY <1>1, <2>1, <2>3, <2>4, <2>5, <2>6 DEF Follows
<1> QED
  BY <1>3, <1>4, <1>5

\* The rest of a call: the lookup, and the push.
LEMMA FindFollows ==
  ASSUME TypeOK, NEW x \in Threads, Find(x), NEW d \in Devices, Follows(d)
  PROVE  Follows(d)'
<1>1. /\ thread[x].pc = "find"
      /\ UNCHANGED <<store, online, shown>>
      /\ \A y \in Threads \ {x} : thread'[y] = thread[y]
      /\ IF thread[x].dev \in store
           THEN /\ thread'[x].pc = "push" /\ thread'[x].dev = thread[x].dev
                /\ thread'[x].to = thread[x].to
           ELSE thread'[x] = Idle
  <2>1. thread[x].pc = "find" /\ UNCHANGED <<store, online, shown>>
    BY DEF Find
  <2>2. CASE thread[x].dev \in store
    BY <2>1, <2>2, InCall, GotoThread DEF Find, TypeOK
  <2>3. CASE thread[x].dev \notin store
    BY <2>1, <2>3, States, GotoThread DEF Find, TypeOK
  <2> QED
    BY <2>1, <2>2, <2>3
<1>2. /\ Erasing(d)' <=> Erasing(d)
      /\ thread'["ui"].pc = "list" <=> thread["ui"].pc = "list"
  BY <1>1 DEF Erasing, Idle, Threads
<1>3. CASE thread[x].dev = d /\ d \notin store
  <2>1. Erasing(d)
    BY <1>1, <1>3 DEF Follows, Notifies
  <2>2. \A y \in Threads : ~Notifies(y, d)'
    BY <1>1, <1>3 DEF Follows, Notifies, Idle
  <2> QED
    BY <1>1, <1>2, <2>1, <2>2 DEF Follows
<1>4. CASE thread[x].dev # d \/ d \in store
  <2>1. \A y \in Threads : /\ Notifies(y, d)' <=> Notifies(y, d)
                           /\ Notifies(y, d) => thread'[y].to = thread[y].to
    BY <1>1, <1>4 DEF Notifies, Idle
  <2> QED
    BY <1>1, <1>2, <2>1 DEF Follows
<1> QED
  BY <1>3, <1>4

LEMMA PushFollows ==
  ASSUME TypeOK, NEW x \in Threads, Push(x), NEW d \in Devices, Follows(d)
  PROVE  Follows(d)'
<1>1. /\ thread[x].pc = "push" /\ thread'[x] = Idle
      /\ UNCHANGED <<store, online>>
      /\ shown' = [shown EXCEPT ![thread[x].dev] = thread[x].to]
      /\ \A y \in Threads \ {x} : thread'[y] = thread[y]
  BY States, GotoThread DEF Push, TypeOK
<1>2. /\ Erasing(d)' <=> Erasing(d)
      /\ thread'["ui"].pc = "list" <=> thread["ui"].pc = "list"
  BY <1>1 DEF Erasing, Idle, Threads
<1>3. \A y \in Threads : /\ Notifies(y, d)' => Notifies(y, d)
                         /\ Notifies(y, d)' => thread'[y] = thread[y]
  BY <1>1 DEF Notifies, Idle
<1>4. CASE thread[x].dev = d
  <2>1. shown'[d] = online[d]
    BY <1>1, <1>4 DEF Follows, Notifies, TypeOK
  <2> QED
    BY <1>1, <1>2, <1>3, <2>1 DEF Follows
<1>5. CASE thread[x].dev # d
  <2>1. shown'[d] = shown[d]
    BY <1>1, <1>5 DEF TypeOK
  <2>2. \A y \in Threads : Notifies(y, d)' <=> Notifies(y, d)
    BY <1>1, <1>5 DEF Notifies, Idle
  <2> QED
    BY <1>1, <1>2, <1>3, <2>1, <2>2 DEF Follows
<1> QED
  BY <1>4, <1>5

\* remove_device and list_paired_devices, on the UI thread.
LEMMA RemoveFollows ==
  ASSUME TypeOK, NEW e \in Devices, RemoveDevice(e), NEW d \in Devices, Follows(d)
  PROVE  Follows(d)'
<1>1. /\ thread["ui"] = Idle
      /\ thread'["ui"] = [pc |-> "erase", dev |-> e]
      /\ \A y \in Threads \ {"ui"} : thread'[y] = thread[y]
      /\ store' = store \ {e}
      /\ UNCHANGED <<online, shown>>
  BY States, GotoThread DEF RemoveDevice, TypeOK, Threads
<1>2. \A y \in Threads : /\ Notifies(y, d)' <=> Notifies(y, d)
                         /\ Notifies(y, d) => thread'[y] = thread[y]
  BY <1>1 DEF Notifies, Idle
<1>3. ~Erasing(d) /\ thread["ui"].pc # "list"
  BY <1>1 DEF Erasing, Idle
<1>4. d = e => Erasing(d)'
  BY <1>1 DEF Erasing
<1> QED
  BY <1>1, <1>2, <1>3, <1>4 DEF Follows

LEMMA EraseFollows ==
  ASSUME TypeOK, EraseStatus, NEW d \in Devices \ blurred', Follows(d)
  PROVE  Follows(d)'
<1>1. /\ thread["ui"].pc = "erase" /\ thread'["ui"].pc = "list"
      /\ \A y \in Threads \ {"ui"} : thread'[y] = thread[y]
      /\ online' = [online EXCEPT ![thread["ui"].dev] = "none"]
      /\ UNCHANGED <<store, shown>>
  BY States, GotoThread DEF EraseStatus, TypeOK, Threads
<1>2. \A y \in Threads : /\ Notifies(y, d)' <=> Notifies(y, d)
                         /\ Notifies(y, d) => thread'[y] = thread[y]
  BY <1>1 DEF Notifies
<1>3. CASE Erasing(d)
  <2>1. d \notin store /\ ~Notifying(d, "ui")
    BY <1>3 DEF EraseStatus, Erasing
  <2>2. \A y \in Threads : ~Notifies(y, d)
    BY <1>1, <2>1 DEF Notifies, Notifying
  <2>3. online'[d] = "none"
    BY <1>1, <1>3 DEF Erasing, TypeOK
  <2> QED
    BY <1>1, <1>2, <2>2, <2>3 DEF Follows
<1>4. CASE ~Erasing(d)
  <2>1. online'[d] = online[d]
    BY <1>1, <1>4 DEF Erasing, TypeOK
  <2> QED
    BY <1>1, <1>2, <1>4, <2>1 DEF Follows
<1> QED
  BY <1>3, <1>4

LEMMA RefreshFollows ==
  ASSUME TypeOK, Refresh, NEW d \in Devices, Follows(d)
  PROVE  Follows(d)'
<1>1. /\ thread["ui"] = Idle /\ thread'["ui"].pc = "list"
      /\ \A y \in Threads \ {"ui"} : thread'[y] = thread[y]
      /\ UNCHANGED <<store, online, shown>>
  BY States, GotoThread DEF Refresh, TypeOK, Threads
<1>2. \A y \in Threads : /\ Notifies(y, d)' <=> Notifies(y, d)
                         /\ Notifies(y, d) => thread'[y] = thread[y]
  BY <1>1 DEF Notifies, Idle
<1>3. ~Erasing(d)
  BY <1>1 DEF Erasing, Idle
<1> QED
  BY <1>1, <1>2, <1>3 DEF Follows

LEMMA ListFollows ==
  ASSUME TypeOK, ListDevices, NEW d \in Devices, Follows(d)
  PROVE  Follows(d)'
<1>1. /\ thread["ui"].pc = "list" /\ thread'["ui"] = Idle
      /\ \A y \in Threads \ {"ui"} : thread'[y] = thread[y]
      /\ UNCHANGED <<store, online>>
      /\ shown'[d] = IF d \notin store THEN "none"
                     ELSE IF online[d] = "on" THEN "on" ELSE "off"
  BY States, GotoThread DEF ListDevices, TypeOK, Threads
<1>2. \A y \in Threads : /\ Notifies(y, d)' <=> Notifies(y, d)
                         /\ Notifies(y, d) => thread'[y] = thread[y]
  BY <1>1 DEF Notifies, Idle
<1>3. ~Erasing(d) /\ ~Erasing(d)'
  BY <1>1 DEF Erasing, Idle
<1>4. shown'[d] = "on" <=> online[d] = "on"
  BY <1>1, <1>3 DEF Follows
<1> QED
  BY <1>1, <1>2, <1>3, <1>4 DEF Follows

LEMMA FollowsStep == TypeOK /\ AllFollow /\ [Next]_vars => AllFollow'
<1> SUFFICES ASSUME TypeOK, AllFollow, [Next]_vars, NEW d \in Devices, d \notin blurred'
             PROVE  Follows(d)'
  BY DEF AllFollow
<1>1. CASE \E e \in Devices : Message(e) \/ PairResponse(e) \/ AcceptPairing(e)
  <2>1. blurred' = blurred
    BY <1>1 DEF Message, PairResponse, AcceptPairing
  <2>2. Follows(d)
    BY <2>1 DEF AllFollow
  <2> QED
    BY <1>1, <2>2, CauseFollows DEF Message, PairResponse, AcceptPairing, Threads
<1>2. CASE \E e \in Devices : PeerResolved(e) \/ PeerLost(e)
  <2>1. blurred' = blurred
    BY <1>2 DEF PeerResolved, PeerLost
  <2>2. Follows(d)
    BY <2>1 DEF AllFollow
  <2> QED
    BY <1>2, <2>2, CauseFollows DEF PeerResolved, PeerLost, Threads
<1>3. CASE \E x \in Threads : Mark(x)
  <2>1. Follows(d)
    BY <1>3 DEF AllFollow, Mark
  <2> QED
    BY <1>3, <2>1, MarkFollows
<1>4. CASE Continue \/ \E e \in Devices : RemoveDevice(e)
  <2>1. Follows(d)
    BY <1>4 DEF AllFollow, Continue, Find, Push, EraseStatus, Refresh, ListDevices,
                RemoveDevice
  <2> QED
    BY <1>4, <2>1, FindFollows, PushFollows, RemoveFollows, EraseFollows,
       RefreshFollows, ListFollows DEF Continue
<1>5. CASE UNCHANGED vars
  BY <1>5 DEF vars, AllFollow, Follows, Notifies, Erasing
<1> QED
  BY <1>1, <1>2, <1>3, <1>4, <1>5 DEF Next, Cause, Report

\* With no call under way, nothing is on its way to the list.
LEMMA FollowsAgrees == TypeOK /\ AllFollow => ShownAgrees
<1> SUFFICES ASSUME TypeOK, AllFollow, Quiet, NEW d \in store \ blurred
             PROVE  shown[d] = "on" <=> online[d] = "on"
  BY DEF ShownAgrees
<1>1. \A x \in Threads : thread[x].pc = "idle"
  BY DEF Quiet, Idle
<1>2. /\ \A x \in Threads : ~Notifies(x, d)
      /\ ~Erasing(d) /\ thread["ui"].pc # "list"
  BY <1>1 DEF Notifies, Erasing, Threads
<1>3. d \in Devices \ blurred
  BY DEF TypeOK
<1> QED
  BY <1>2, <1>3 DEF AllFollow, Follows

-----------------------------------------------------------------------------
(* The backends *)

AvahiProofs == INSTANCE DiscoveryAvahiProofs WITH Peers <- Discoverable

DiscoveryTypes == Avahi!TypeOK /\ Mdns!TypeOK /\ Nsd!TypeOK

\* The steps of PeerStatus that belong to each backend.
AvahiStep == Daemon \/ PollSilently \/ ReportResolved \/ ReportLost
MdnsStep == MdnsNetwork \/ MdnsSilently \/ MdnsAnswer
NsdStep == NsdSystem \/ NsdSilently \/ NotifyPeerResolved \/ NotifyPeerLost

\* What DiscoveryAvahiProofs shows is about the same steps and types.
LEMMA SameTypes == AvahiProofs!TypeOK <=> Avahi!TypeOK
  BY DEF AvahiProofs!TypeOK, Avahi!TypeOK, AvahiProofs!Events, Avahi!Events

LEMMA SameAvahiStep ==
  AvahiStep => [AvahiProofs!Next]_(AvahiProofs!vars) /\ UNCHANGED <<backend, mdns, nsd>>
<1>1. Daemon => AvahiProofs!Next
  BY DEF Daemon, AvahiProofs!Next, Avahi!Announce, Avahi!Withdraw, Avahi!Event,
         AvahiProofs!Announce, AvahiProofs!Withdraw, AvahiProofs!Event
<1>2. PollSilently => AvahiProofs!Next
  BY DEF PollSilently, AvahiProofs!Next, Avahi!BrowseNew, Avahi!BrowseRemove,
         Avahi!ResolveFailed, Avahi!Browse, Avahi!HandleInstanceRemoved,
         AvahiProofs!BrowseNew, AvahiProofs!BrowseRemove, AvahiProofs!ResolveFailed,
         AvahiProofs!Browse, AvahiProofs!HandleInstanceRemoved
<1>3. ReportResolved => AvahiProofs!Next
  BY DEF ReportResolved, AvahiProofs!Next, Avahi!Resolved, Avahi!Answers, Avahi!Event,
         AvahiProofs!Resolved, AvahiProofs!Answers, AvahiProofs!Event
<1>4. ReportLost => AvahiProofs!Next
  BY DEF ReportLost, AvahiProofs!Next, PeerLost, Avahi!BrowseRemove, Avahi!Browse,
         Avahi!HandleInstanceRemoved, AvahiProofs!BrowseRemove, AvahiProofs!Browse,
         AvahiProofs!HandleInstanceRemoved
<1> QED
  BY <1>1, <1>2, <1>3, <1>4
  DEF AvahiStep, Daemon, PollSilently, ReportResolved, ReportLost

\* The first of a queue, and the queue without it.
LEMMA HeadAndTail ==
  ASSUME NEW S, NEW s \in Seq(S), s # <<>>
  PROVE  /\ Head(s) \in S /\ Tail(s) \in Seq(S)
         /\ Head(s) = s[1] /\ Len(s) \in Nat \ {0}
         /\ Len(Tail(s)) = Len(s) - 1
         /\ \A i \in 1 .. Len(Tail(s)) : Tail(s)[i] = s[i + 1]
OBVIOUS

LEMMA Concatenated ==
  ASSUME NEW S, NEW s \in Seq(S), NEW t \in Seq(S)
  PROVE  s \o t \in Seq(S)
OBVIOUS

LEMMA AvahiTypeStep ==
  ASSUME DiscoveryTypes, AvahiStep
  PROVE  DiscoveryTypes'
<1>1. Avahi!TypeOK'
  <2>1. AvahiProofs!TypeOK'
    BY SameTypes, SameAvahiStep, AvahiProofs!TypeStep DEF DiscoveryTypes
  <2> QED
    BY <2>1 DEF AvahiProofs!TypeOK, Avahi!TypeOK, AvahiProofs!Events, Avahi!Events
<1>2. UNCHANGED <<mdns, nsd>>
  BY SameAvahiStep
<1> QED
  BY <1>1, <1>2 DEF DiscoveryTypes, Avahi!TypeOK, Mdns!TypeOK, Nsd!TypeOK, mdns, nsd,
                    Mdns!Records, Nsd!Messages, Mdns!Halves

LEMMA MdnsTypeStep ==
  ASSUME DiscoveryTypes, MdnsStep
  PROVE  DiscoveryTypes'
<1>1. UNCHANGED <<avahi, nsd>>
  BY DEF MdnsStep, MdnsNetwork, MdnsSilently, MdnsAnswer
<1>2. /\ up \subseteq Discoverable /\ asked \subseteq Discoverable
      /\ service \in Seq(Mdns!Records) /\ client \in Seq(Mdns!Records)
      /\ pending \in [Discoverable -> SUBSET Mdns!Halves]
      /\ instances \subseteq Discoverable
      /\ told \in [Discoverable -> {"none", "resolved", "lost"}]
      /\ instances = {p \in Discoverable : told[p] = "resolved"}
  BY DEF DiscoveryTypes, Mdns!TypeOK, Avahi!TypeOK
<1>3. /\ up' \subseteq Discoverable /\ asked' \subseteq Discoverable
      /\ service' \in Seq(Mdns!Records) /\ client' \in Seq(Mdns!Records)
      /\ pending' \in [Discoverable -> SUBSET Mdns!Halves]
      /\ instances' \subseteq Discoverable
      /\ told' \in [Discoverable -> {"none", "resolved", "lost"}]
      /\ instances' = {p \in Discoverable : told'[p] = "resolved"}
  <2>1. ASSUME NEW p \in Discoverable, Mdns!PeerStarts(p) PROVE <1>3
    <3>1. <<Mdns!Record("QUERY", p), Mdns!Record("ANNOUNCE", p)>> \in Seq(Mdns!Records)
      BY DEF Mdns!Record, Mdns!Records
    <3>2. service' \in {service, service \o <<Mdns!Record("QUERY", p),
                                             Mdns!Record("ANNOUNCE", p)>>}
      BY <2>1 DEF Mdns!PeerStarts, Mdns!Multicast
    <3>3. service' \in Seq(Mdns!Records)
      BY <1>2, <3>1, <3>2, Concatenated, Zenon
    <3> QED
      BY <1>2, <2>1, <3>3 DEF Mdns!PeerStarts
  <2>2. ASSUME NEW p \in Discoverable, Mdns!PeerStops(p) PROVE <1>3
    <3>1. <<Mdns!Record("GOODBYE", p)>> \in Seq(Mdns!Records)
      BY DEF Mdns!Record, Mdns!Records
    <3>2. service' \in {service, service \o <<Mdns!Record("GOODBYE", p)>>}
      BY <2>2 DEF Mdns!PeerStops, Mdns!Multicast
    <3>3. service' \in Seq(Mdns!Records)
      BY <1>2, <3>1, <3>2, Concatenated, Zenon
    <3> QED
      BY <1>2, <2>2, <3>3 DEF Mdns!PeerStops
  <2>3. ASSUME NEW p \in Discoverable, Mdns!PeerAnswers(p) PROVE <1>3
    <3>1. \A h \in Mdns!Halves : Mdns!Record(h, p) \in Mdns!Records
      BY DEF Mdns!Record, Mdns!Records
    <3>2. PICK answer \in {<<>>} \union {<<Mdns!Record(h, p)>> : h \in Mdns!Halves}
                            \union {<<Mdns!Record(h, p), Mdns!Record(g, p)>> :
                                      h, g \in Mdns!Halves} :
                 client' = client \o answer
      BY <2>3 DEF Mdns!PeerAnswers
    <3>3. answer \in Seq(Mdns!Records)
      <4>1. \A h, g \in Mdns!Halves :
              <<Mdns!Record(h, p), Mdns!Record(g, p)>> \in Seq(Mdns!Records)
        BY <3>1
      <4>2. \A h \in Mdns!Halves : <<Mdns!Record(h, p)>> \in Seq(Mdns!Records)
        BY <3>1
      <4> QED
        <5>1. \/ answer = <<>>
              \/ \E h \in Mdns!Halves : answer = <<Mdns!Record(h, p)>>
              \/ \E h, g \in Mdns!Halves :
                   answer = <<Mdns!Record(h, p), Mdns!Record(g, p)>>
          BY <3>2, SMT
        <5>2. CASE answer = <<>>
          BY <5>2
        <5>3. CASE \E h \in Mdns!Halves : answer = <<Mdns!Record(h, p)>>
          BY <4>2, <5>3
        <5>4. CASE \E h, g \in Mdns!Halves :
                     answer = <<Mdns!Record(h, p), Mdns!Record(g, p)>>
          BY <4>1, <5>4
        <5> QED
          BY <5>1, <5>2, <5>3, <5>4
    <3>4. client' \in Seq(Mdns!Records)
      BY <1>2, <3>2, <3>3
    <3> QED
      BY <1>2, <2>3, <3>4 DEF Mdns!PeerAnswers
  <2>4. ASSUME NEW p \in Discoverable, Mdns!QueryUnanswered(p) PROVE <1>3
    BY <1>2, <2>4 DEF Mdns!QueryUnanswered
  <2>5. ASSUME Mdns!SendBrowseQuery PROVE <1>3
    BY <1>2, <2>5 DEF Mdns!SendBrowseQuery
  <2>6. ASSUME Mdns!OnServiceQuery PROVE <1>3
    BY <1>2, <2>6 DEF Mdns!OnServiceQuery
  <2>7. ASSUME NEW p \in Discoverable, Mdns!OnQueryAnswer(p) PROVE <1>3
    <3>1. client' \in Seq(Mdns!Records) /\ UNCHANGED <<up, asked, service>>
      BY <1>2, <2>7, HeadAndTail DEF Mdns!OnQueryAnswer
    <3>2. CASE Head(client).record \in Mdns!Halves
      BY <1>2, <2>7, <3>1, <3>2 DEF Mdns!OnQueryAnswer, Mdns!OnHalf
    <3>3. CASE Head(client).record \notin Mdns!Halves
      BY <1>2, <2>7, <3>1, <3>3 DEF Mdns!OnQueryAnswer, Mdns!OnPtrRecord,
                                    Mdns!HandleGoodbye
    <3> QED
      BY <3>2, <3>3
  <2> QED
    BY <2>1, <2>2, <2>3, <2>4, <2>5, <2>6, <2>7
    DEF MdnsStep, MdnsNetwork, MdnsSilently, MdnsAnswer, Mdns!Network
<1> QED
  BY <1>1, <1>3 DEF DiscoveryTypes, Avahi!TypeOK, Mdns!TypeOK, Nsd!TypeOK, avahi, nsd,
                    Avahi!Events, Nsd!Messages

LEMMA NsdTypeStep ==
  ASSUME DiscoveryTypes, NsdStep
  PROVE  DiscoveryTypes'
<1>1. UNCHANGED <<avahi, mdns>>
  BY DEF NsdStep, NsdSystem, NsdSilently, NotifyPeerResolved, NotifyPeerLost
<1>2. /\ registered \subseteq Discoverable /\ resolving \subseteq Discoverable
      /\ messages \in Seq(Nsd!Messages)
      /\ instances \subseteq Discoverable
      /\ told \in [Discoverable -> {"none", "resolved", "lost"}]
      /\ instances = {p \in Discoverable : told[p] = "resolved"}
  BY DEF DiscoveryTypes, Nsd!TypeOK, Avahi!TypeOK
<1>3. /\ registered' \subseteq Discoverable /\ resolving' \subseteq Discoverable
      /\ messages' \in Seq(Nsd!Messages)
      /\ instances' \subseteq Discoverable
      /\ told' \in [Discoverable -> {"none", "resolved", "lost"}]
      /\ instances' = {p \in Discoverable : told'[p] = "resolved"}
  <2>1. \A kind \in {"FOUND", "LOST", "RESOLVED", "FAILED"}, p \in Discoverable :
          Nsd!Message(kind, p) \in Nsd!Messages
    BY DEF Nsd!Message, Nsd!Messages
  <2>2. ASSUME NEW p \in Discoverable,
               Nsd!Appear(p) \/ Nsd!Disappear(p) \/ Nsd!Resolve(p)
        PROVE  <1>3
    BY <1>2, <2>1, <2>2 DEF Nsd!Appear, Nsd!Disappear, Nsd!Resolve, Nsd!Post
  <2>3. ASSUME NEW p \in Discoverable,
               \/ Nsd!OnServiceFound(p) \/ Nsd!OnResolveFailed(p)
               \/ Nsd!OnServiceResolved(p) \/ Nsd!OnServiceLost(p)
        PROVE  <1>3
    <3>1. messages' \in Seq(Nsd!Messages)
      BY <1>2, <2>3, HeadAndTail DEF Nsd!OnServiceFound, Nsd!OnResolveFailed,
         Nsd!OnServiceResolved, Nsd!OnServiceLost, Nsd!Receives
    <3> QED
      BY <1>2, <2>3, <3>1 DEF Nsd!OnServiceFound, Nsd!OnResolveFailed,
         Nsd!OnServiceResolved, Nsd!OnServiceLost
  <2> QED
    BY <1>2, <2>2, <2>3
    DEF NsdStep, NsdSystem, NsdSilently, NotifyPeerResolved, NotifyPeerLost, Nsd!System
<1> QED
  BY <1>1, <1>3 DEF DiscoveryTypes, Avahi!TypeOK, Mdns!TypeOK, Nsd!TypeOK, avahi, mdns,
                    Avahi!Events, Mdns!Records, Mdns!Halves

\* NsdManager has a loss of p to report.
LossPending(p) == \E i \in DOMAIN messages : messages[i] = Nsd!Message("LOST", p)
LossFollows(p, i) ==
  \E j \in DOMAIN messages : i < j /\ messages[j] = Nsd!Message("LOST", p)

\* Every answer of a resolution that waits is older than the loss of its peer, and
\* a peer that was reported is registered or its loss is pending.
NsdGoneIsPending ==
  \A p \in Discoverable :
    /\ told[p] = "resolved" => p \in instances
    /\ p \in instances => p \in registered \/ LossPending(p)
    /\ \A i \in DOMAIN messages : messages[i] = Nsd!Message("RESOLVED", p) =>
         p \in registered \/ LossFollows(p, i)

\* A message that is posted comes after all that wait.
LEMMA PostKeeps ==
  ASSUME Nsd!TypeOK, NEW m \in Nsd!Messages, messages' = Append(messages, m)
  PROVE  /\ DOMAIN messages' = 1 .. Len(messages) + 1
         /\ messages'[Len(messages) + 1] = m
         /\ DOMAIN messages = 1 .. Len(messages) /\ Len(messages) \in Nat
         /\ \A i \in DOMAIN messages : messages'[i] = messages[i]
         /\ \A p : LossPending(p) => LossPending(p)'
         /\ \A p : \A i \in DOMAIN messages : LossFollows(p, i) => LossFollows(p, i)'
<1>1. /\ DOMAIN messages' = 1 .. Len(messages) + 1
      /\ messages'[Len(messages) + 1] = m
      /\ DOMAIN messages = 1 .. Len(messages) /\ Len(messages) \in Nat
      /\ \A i \in DOMAIN messages : messages'[i] = messages[i]
  BY DEF Nsd!TypeOK
<1>2. \A i \in DOMAIN messages : i \in DOMAIN messages'
  BY <1>1
<1> QED
  BY <1>1, <1>2 DEF LossPending, LossFollows, Nsd!Message

\* Handling the first message leaves the others in their order.
LEMMA ReceiveKeeps ==
  ASSUME Nsd!TypeOK, messages # <<>>, messages' = Tail(messages)
  PROVE  /\ 1 \in DOMAIN messages /\ messages[1] = Head(messages)
         /\ \A i \in DOMAIN messages' :
              i \in Nat /\ i + 1 \in DOMAIN messages /\ messages'[i] = messages[i + 1]
         /\ \A p : LossFollows(p, 1) => LossPending(p)'
         /\ \A p : LossPending(p) /\ Head(messages) # Nsd!Message("LOST", p)
                     => LossPending(p)'
         /\ \A p : \A i \in DOMAIN messages' :
              LossFollows(p, i + 1) => LossFollows(p, i)'
<1>1. /\ 1 \in DOMAIN messages /\ messages[1] = Head(messages)
      /\ DOMAIN messages = 1 .. Len(messages) /\ Len(messages) \in Nat
      /\ DOMAIN messages' = 1 .. Len(messages) - 1
      /\ \A i \in 1 .. Len(messages) - 1 : messages'[i] = messages[i + 1]
  BY HeadAndTail DEF Nsd!TypeOK
<1>2. \A i \in DOMAIN messages :
        i > 1 => i - 1 \in DOMAIN messages' /\ messages'[i - 1] = messages[i]
  BY <1>1
<1>3. \A p : LossFollows(p, 1) => LossPending(p)'
  BY <1>1, <1>2 DEF LossFollows, LossPending, Nsd!Message
<1>4. ASSUME NEW p, LossPending(p), Head(messages) # Nsd!Message("LOST", p)
      PROVE  LossPending(p)'
  <2>1. PICK i \in DOMAIN messages : messages[i] = Nsd!Message("LOST", p)
    BY <1>4 DEF LossPending
  <2>2. i > 1
    BY <1>1, <1>4, <2>1
  <2> QED
    BY <1>2, <2>1, <2>2 DEF LossPending, Nsd!Message
<1>5. ASSUME NEW p, NEW i \in DOMAIN messages', LossFollows(p, i + 1)
      PROVE  LossFollows(p, i)'
  <2>1. PICK j \in DOMAIN messages : i + 1 < j /\ messages[j] = Nsd!Message("LOST", p)
    BY <1>5 DEF LossFollows
  <2>2. j - 1 \in DOMAIN messages' /\ messages'[j - 1] = messages[j] /\ i < j - 1
    BY <1>1, <1>2, <2>1
  <2> QED
    BY <2>1, <2>2 DEF LossFollows, Nsd!Message
<1> QED
  BY <1>1, <1>3, <1>4, <1>5

LEMMA NsdPendingStep ==
  ASSUME Nsd!TypeOK, NsdGoneIsPending, NsdStep
  PROVE  NsdGoneIsPending'
<1> SUFFICES ASSUME NEW q \in Discoverable
             PROVE  /\ told'[q] = "resolved" => q \in instances'
                    /\ q \in instances' => q \in registered' \/ LossPending(q)'
                    /\ \A i \in DOMAIN messages' :
                         messages'[i] = Nsd!Message("RESOLVED", q) =>
                           q \in registered' \/ LossFollows(q, i)'
  BY DEF NsdGoneIsPending, Nsd!Message
<1> DEFINE Goal == /\ told'[q] = "resolved" => q \in instances'
                   /\ q \in instances' => q \in registered' \/ LossPending(q)'
                   /\ \A i \in DOMAIN messages' :
                        messages'[i] = Nsd!Message("RESOLVED", q) =>
                          q \in registered' \/ LossFollows(q, i)'
<1>1. \A kind \in {"FOUND", "LOST", "RESOLVED", "FAILED"}, p \in Discoverable :
        Nsd!Message(kind, p) \in Nsd!Messages
  BY DEF Nsd!Message, Nsd!Messages
<1>2. \A k1, k2, p1, p2 : Nsd!Message(k1, p1) = Nsd!Message(k2, p2) => k1 = k2 /\ p1 = p2
  BY DEF Nsd!Message
<1>3. ASSUME NEW p \in Discoverable, Nsd!Appear(p) PROVE Goal
  BY <1>1, <1>2, <1>3, PostKeeps DEF NsdGoneIsPending, Nsd!Appear, Nsd!Post
<1>4. ASSUME NEW p \in Discoverable, Nsd!Disappear(p) PROVE Goal
  <2>1. q = p => LossPending(q)' /\ \A i \in DOMAIN messages : LossFollows(q, i)'
    BY <1>1, <1>4, PostKeeps DEF Nsd!Disappear, Nsd!Post, LossPending, LossFollows,
                                 Nsd!Message
  <2> QED
    BY <1>1, <1>2, <1>4, <2>1, PostKeeps DEF NsdGoneIsPending, Nsd!Disappear, Nsd!Post
<1>5. ASSUME NEW p \in Discoverable, Nsd!Resolve(p) PROVE Goal
  BY <1>1, <1>2, <1>5, PostKeeps DEF NsdGoneIsPending, Nsd!Resolve, Nsd!Post
<1>6. ASSUME NEW p \in Discoverable, Nsd!OnServiceFound(p) \/ Nsd!OnResolveFailed(p)
      PROVE  Goal
  <2>1. /\ UNCHANGED <<registered, instances, told>>
        /\ messages # <<>> /\ messages' = Tail(messages)
        /\ Head(messages) # Nsd!Message("LOST", q)
    BY <1>2, <1>6 DEF Nsd!OnServiceFound, Nsd!OnResolveFailed, Nsd!Receives
  <2> QED
    BY <2>1, ReceiveKeeps DEF NsdGoneIsPending
<1>7. ASSUME NEW p \in Discoverable, Nsd!OnServiceResolved(p) PROVE Goal
  <2>1. /\ registered' = registered /\ instances' = instances \union {p}
        /\ told' = [told EXCEPT ![p] = "resolved"]
        /\ messages # <<>> /\ messages' = Tail(messages)
        /\ Head(messages) = Nsd!Message("RESOLVED", p)
        /\ Head(messages) # Nsd!Message("LOST", q)
    BY <1>2, <1>7 DEF Nsd!OnServiceResolved, Nsd!Receives
  <2>2. q = p => q \in registered \/ LossPending(q)'
    BY <2>1, ReceiveKeeps DEF NsdGoneIsPending
  <2> QED
    BY <2>1, <2>2, ReceiveKeeps DEF NsdGoneIsPending, Nsd!TypeOK
<1>8. ASSUME NEW p \in Discoverable, Nsd!OnServiceLost(p) PROVE Goal
  <2>1. /\ registered' = registered /\ instances' = instances \ {p}
        /\ told'[p] # "resolved" /\ (q # p => told'[q] = told[q])
        /\ messages # <<>> /\ messages' = Tail(messages)
        /\ Head(messages) = Nsd!Message("LOST", p)
    BY <1>8 DEF Nsd!OnServiceLost, Nsd!Receives, Nsd!TypeOK, NsdGoneIsPending
  <2>2. q # p => Head(messages) # Nsd!Message("LOST", q)
    BY <1>2, <2>1
  <2> QED
    BY <2>1, <2>2, ReceiveKeeps DEF NsdGoneIsPending
<1> QED
  BY <1>3, <1>4, <1>5, <1>6, <1>7, <1>8
  DEF NsdStep, NsdSystem, NsdSilently, NotifyPeerResolved, NotifyPeerLost, Nsd!System,
      Nsd!TypeOK

\* The network, and the thread's other work, report nothing.
LEMMA MdnsQuiet ==
  ASSUME MdnsNetwork \/ MdnsSilently
  PROVE  UNCHANGED <<vars, pending, told>>
<1>1. ASSUME NEW p, Mdns!PeerAnswers(p) PROVE UNCHANGED <<pending, told>>
  BY <1>1 DEF Mdns!PeerAnswers
<1>2. ASSUME NEW p, Mdns!PeerStarts(p) \/ Mdns!PeerStops(p) \/ Mdns!QueryUnanswered(p)
      PROVE  UNCHANGED <<pending, told>>
  BY <1>2 DEF Mdns!PeerStarts, Mdns!PeerStops, Mdns!QueryUnanswered
<1>3. ASSUME Mdns!SendBrowseQuery \/ Mdns!OnServiceQuery
      PROVE  UNCHANGED <<pending, told>>
  BY <1>3 DEF Mdns!SendBrowseQuery, Mdns!OnServiceQuery
<1> QED
  BY <1>1, <1>2, <1>3 DEF MdnsNetwork, MdnsSilently, Mdns!Network

LEMMA MdnsWholeStep ==
  ASSUME Mdns!TypeOK, Mdns!WholeIsReported, MdnsStep
  PROVE  Mdns!WholeIsReported'
<1>1. ASSUME NEW p \in Discoverable, Mdns!OnQueryAnswer(p) PROVE Mdns!WholeIsReported'
  <2>1. CASE Head(client).record \in Mdns!Halves
    BY <1>1, <2>1 DEF Mdns!OnQueryAnswer, Mdns!OnHalf, Mdns!Emits, Mdns!HasBoth,
                      Mdns!WholeIsReported, Mdns!TypeOK, Mdns!Halves
  <2>2. CASE Head(client).record \notin Mdns!Halves
    BY <1>1, <2>2 DEF Mdns!OnQueryAnswer, Mdns!OnPtrRecord, Mdns!HandleGoodbye,
                      Mdns!WholeIsReported, Mdns!TypeOK, Mdns!Halves
  <2> QED
    BY <2>1, <2>2
<1>2. CASE UNCHANGED <<pending, told>>
  BY <1>2 DEF Mdns!WholeIsReported, Mdns!Halves
<1> QED
  BY <1>1, <1>2, MdnsQuiet DEF MdnsStep, MdnsAnswer

-----------------------------------------------------------------------------
(* From the network to the window *)

\* What each backend keeps.
BackendInv ==
  /\ backend = "avahi" => AvahiProofs!GoneIsPending
  /\ backend = "mdns" => Mdns!WholeIsReported
  /\ backend = "nsd" => NsdGoneIsPending

\* Somebody answers for each device that is online: it was heard from, discovery
\* has reported it and not its loss, or its loss is just being marked.
Vouched ==
  \A d \in Devices :
    /\ online[d] = "on" =>
         \/ d \in heard
         \/ d \in Discoverable /\ told[d] = "resolved"
         \/ thread["discovery"] = Marking(d, "off")
    /\ thread["discovery"] = Marking(d, "on") =>
         d \in Discoverable /\ told[d] = "resolved"

StatusInv == TypesOK /\ AllFollow /\ BackendInv /\ Vouched

\* A backend's step reports nothing, or starts the call that marks what it reports.
Reports(kind, status) ==
  \E p \in Discoverable :
    /\ told' = [told EXCEPT ![p] = kind]
    /\ thread["discovery"] = Idle
    /\ Goto("discovery", Marking(p, status))
    /\ UNCHANGED <<store, online, shown, blurred>>

LEMMA StepReports ==
  ASSUME TypesOK, BackendInv, AvahiStep \/ MdnsStep \/ NsdStep
  PROVE  \/ UNCHANGED <<vars, told>>
         \/ Reports("resolved", "on")
         \/ Reports("lost", "off")
<1> DEFINE Goal == \/ UNCHANGED <<vars, told>>
                   \/ Reports("resolved", "on")
                   \/ Reports("lost", "off")
<1>1. ASSUME AvahiStep PROVE Goal
  <2>1. ASSUME Daemon \/ PollSilently PROVE Goal
    BY <2>1 DEF Daemon, PollSilently, Avahi!Announce, Avahi!Withdraw, Avahi!BrowseNew,
                Avahi!BrowseRemove, Avahi!HandleInstanceRemoved, Avahi!ResolveFailed
  <2>2. ASSUME ReportResolved PROVE Reports("resolved", "on")
    BY <2>2 DEF ReportResolved, Avahi!Resolved, PeerResolved, Reports
  <2>3. ASSUME ReportLost PROVE Reports("lost", "off")
    BY <2>3 DEF ReportLost, Avahi!BrowseRemove, Avahi!HandleInstanceRemoved, PeerLost,
                Reports
  <2> QED
    BY <1>1, <2>1, <2>2, <2>3 DEF AvahiStep
<1>2. ASSUME MdnsStep PROVE Goal
  <2>1. ASSUME MdnsNetwork \/ MdnsSilently PROVE Goal
    BY <2>1, MdnsQuiet
  <2>2. ASSUME MdnsAnswer PROVE Goal
    <3>1. PICK p \in Discoverable :
            /\ Mdns!OnQueryAnswer(p)
            /\ IF Mdns!Emits(p) THEN PeerResolved(p)
               ELSE IF told'[p] # told[p] THEN PeerLost(p)
               ELSE UNCHANGED vars
      BY <2>2 DEF MdnsAnswer
    <3>2. CASE Mdns!Emits(p)
      BY <3>1, <3>2 DEF Mdns!OnQueryAnswer, Mdns!OnHalf, Mdns!Emits, PeerResolved,
                        Reports
    <3>3. CASE ~Mdns!Emits(p)
      <4>1. told' = told \/ told' = [told EXCEPT ![p] = "lost"]
        BY <3>1, <3>3 DEF Mdns!OnQueryAnswer, Mdns!OnHalf, Mdns!OnPtrRecord,
                          Mdns!HandleGoodbye
      <4>2. told'[p] = told[p] => told' = told
        BY <4>1 DEF TypesOK, Mdns!TypeOK
      <4> QED
        BY <3>1, <3>3, <4>1, <4>2 DEF PeerLost, Reports
    <3> QED
      BY <3>2, <3>3
  <2> QED
    BY <1>2, <2>1, <2>2 DEF MdnsStep
<1>3. ASSUME NsdStep PROVE Goal
  <2>1. ASSUME NsdSystem \/ NsdSilently PROVE Goal
    BY <2>1 DEF NsdSystem, NsdSilently, Nsd!System, Nsd!Appear, Nsd!Disappear,
                Nsd!Resolve, Nsd!OnServiceFound, Nsd!OnResolveFailed, Nsd!OnServiceLost
  <2>2. ASSUME NotifyPeerResolved PROVE Reports("resolved", "on")
    BY <2>2 DEF NotifyPeerResolved, Nsd!OnServiceResolved, PeerResolved, Reports
  <2>3. ASSUME NotifyPeerLost PROVE Reports("lost", "off")
    BY <2>3 DEF NotifyPeerLost, Nsd!OnServiceLost, PeerLost, Reports
  <2> QED
    BY <1>3, <2>1, <2>2, <2>3 DEF NsdStep
<1> QED
  BY <1>1, <1>2, <1>3

\* A step of PeerStatus is a step of Presence, and of one backend or of none.
LEMMA PresenceStep == [NextStatus]_allVars => [Next]_vars
<1>1. MdnsAnswer => [Next]_vars
  BY PresenceAssumption DEF MdnsAnswer, Next, Report
<1>2. (AvahiStep \/ NsdStep) => [Next]_vars
  BY PresenceAssumption
  DEF AvahiStep, NsdStep, Daemon, PollSilently, ReportResolved, ReportLost, NsdSystem,
      NsdSilently, NotifyPeerResolved, NotifyPeerLost, Next, Report, PeerLost
<1>3. (MdnsNetwork \/ MdnsSilently) => [Next]_vars
  BY DEF MdnsNetwork, MdnsSilently
<1>4. (\E x \in Threads : MarkStatus(x)) \/ CoreSteps => [Next]_vars
  BY DEF MarkStatus, CoreSteps, Next
<1> QED
  BY <1>1, <1>2, <1>3, <1>4 DEF NextStatus, AvahiStep, NsdStep, allVars

LEMMA InitStatusInv == InitStatus => StatusInv
<1> SUFFICES ASSUME InitStatus PROVE StatusInv
  OBVIOUS
<1>1. TypeOK
  BY PresenceAssumption, States DEF InitStatus, Init, TypeOK, Status
<1>2. Avahi!TypeOK /\ Mdns!TypeOK /\ Nsd!TypeOK
  BY DEF InitStatus, Avahi!Init, Mdns!Init, Nsd!Init, Avahi!TypeOK, Mdns!TypeOK,
         Nsd!TypeOK
<1>3. TypesOK
  BY <1>1, <1>2 DEF InitStatus, TypesOK
<1>4. AllFollow
  BY InitFollows DEF InitStatus
<1>5. BackendInv
  BY DEF InitStatus, Avahi!Init, Mdns!Init, Nsd!Init, BackendInv,
         AvahiProofs!GoneIsPending, Mdns!WholeIsReported, Mdns!Halves, NsdGoneIsPending
<1>6. Vouched
  BY DEF InitStatus, Init, Vouched, Idle, Marking, Threads
<1> QED
  BY <1>3, <1>4, <1>5, <1>6 DEF StatusInv

LEMMA TypesStep == TypesOK /\ [NextStatus]_allVars => TypesOK'
<1> SUFFICES ASSUME TypesOK, [NextStatus]_allVars PROVE TypesOK'
  OBVIOUS
<1>1. TypeOK'
  BY PresenceStep, PresenceTypeStep DEF TypesOK
<1>2. DiscoveryTypes'
  <2>1. CASE AvahiStep \/ MdnsStep \/ NsdStep
    BY <2>1, AvahiTypeStep, MdnsTypeStep, NsdTypeStep DEF TypesOK, DiscoveryTypes
  <2>2. CASE UNCHANGED discovery
    BY <2>2 DEF discovery, avahi, mdns, nsd, TypesOK, DiscoveryTypes, Avahi!TypeOK,
                Mdns!TypeOK, Nsd!TypeOK, Avahi!Events, Mdns!Records, Mdns!Halves,
                Nsd!Messages
  <2> QED
    BY <2>1, <2>2 DEF NextStatus, AvahiStep, MdnsStep, NsdStep, MarkStatus, CoreSteps,
                      allVars
<1>3. backend' = backend
  BY DEF NextStatus, Daemon, PollSilently, ReportResolved, ReportLost, MdnsNetwork,
         MdnsSilently, MdnsAnswer, NsdSystem, NsdSilently, NotifyPeerResolved,
         NotifyPeerLost, MarkStatus, CoreSteps, discovery, allVars
<1>4. heard' \subseteq Devices
  <2>1. ASSUME NEW x \in Threads, MarkStatus(x) PROVE heard' \subseteq Devices
    BY <2>1, InCall DEF MarkStatus, Mark, TypesOK
  <2> QED
    BY <2>1 DEF TypesOK, NextStatus, Daemon, PollSilently, ReportResolved, ReportLost,
       MdnsNetwork, MdnsSilently, MdnsAnswer, NsdSystem, NsdSilently,
       NotifyPeerResolved, NotifyPeerLost, CoreSteps, allVars
<1> QED
  BY <1>1, <1>2, <1>3, <1>4 DEF TypesOK, DiscoveryTypes

LEMMA BackendInvStep == TypesOK /\ BackendInv /\ [NextStatus]_allVars => BackendInv'
<1> SUFFICES ASSUME TypesOK, BackendInv, [NextStatus]_allVars PROVE BackendInv'
  OBVIOUS
<1>1. CASE AvahiStep
  <2>1. backend = "avahi" /\ backend' = "avahi"
    BY <1>1 DEF AvahiStep, Daemon, PollSilently, ReportResolved, ReportLost
  <2>2. AvahiProofs!GoneIsPending'
    BY <1>1, <2>1, SameTypes, SameAvahiStep, AvahiProofs!PendingStep
    DEF TypesOK, BackendInv, AvahiProofs!DiscoveryInv
  <2> QED
    BY <2>1, <2>2 DEF BackendInv
<1>2. CASE MdnsStep
  <2>1. backend = "mdns" /\ backend' = "mdns"
    BY <1>2 DEF MdnsStep, MdnsNetwork, MdnsSilently, MdnsAnswer
  <2> QED
    BY <1>2, <2>1, MdnsWholeStep DEF TypesOK, BackendInv
<1>3. CASE NsdStep
  <2>1. backend = "nsd" /\ backend' = "nsd"
    BY <1>3 DEF NsdStep, NsdSystem, NsdSilently, NotifyPeerResolved, NotifyPeerLost
  <2> QED
    BY <1>3, <2>1, NsdPendingStep DEF TypesOK, BackendInv
<1>4. CASE UNCHANGED discovery
  BY <1>4 DEF discovery, avahi, mdns, nsd, BackendInv, AvahiProofs!GoneIsPending,
     AvahiProofs!RemovalPending, AvahiProofs!Event, Mdns!WholeIsReported, Mdns!Halves,
     NsdGoneIsPending, LossPending, LossFollows, Nsd!Message
<1> QED
  BY <1>1, <1>2, <1>3, <1>4 DEF NextStatus, AvahiStep, MdnsStep, NsdStep, MarkStatus,
     CoreSteps, allVars

LEMMA VouchedStep == TypesOK /\ BackendInv /\ Vouched /\ [NextStatus]_allVars => Vouched'
<1> SUFFICES ASSUME TypesOK, BackendInv, Vouched, [NextStatus]_allVars,
                    NEW d \in Devices
             PROVE  /\ online'[d] = "on" =>
                         \/ d \in heard'
                         \/ d \in Discoverable /\ told'[d] = "resolved"
                         \/ thread'["discovery"] = Marking(d, "off")
                    /\ thread'["discovery"] = Marking(d, "on") =>
                         d \in Discoverable /\ told'[d] = "resolved"
  BY DEF Vouched, Marking
<1> DEFINE Goal == /\ online'[d] = "on" =>
                         \/ d \in heard'
                         \/ d \in Discoverable /\ told'[d] = "resolved"
                         \/ thread'["discovery"] = Marking(d, "off")
                   /\ thread'["discovery"] = Marking(d, "on") =>
                         d \in Discoverable /\ told'[d] = "resolved"
<1>1. CASE AvahiStep \/ MdnsStep \/ NsdStep
  <2>1. heard' = heard
    BY <1>1 DEF AvahiStep, MdnsStep, NsdStep, Daemon, PollSilently, ReportResolved,
       ReportLost, MdnsNetwork, MdnsSilently, MdnsAnswer, NsdSystem, NsdSilently,
       NotifyPeerResolved, NotifyPeerLost
  <2>2. CASE UNCHANGED <<vars, told>>
    BY <2>1, <2>2 DEF Vouched, vars, Marking
  <2>3. ASSUME NEW p \in Discoverable, NEW s \in {"on", "off"},
               told' = [told EXCEPT ![p] = IF s = "on" THEN "resolved" ELSE "lost"],
               thread["discovery"] = Idle, Goto("discovery", Marking(p, s)),
               online' = online
        PROVE  Goal
    <3>1. thread'["discovery"] = Marking(p, s)
      BY <2>3 DEF Goto, TypesOK, TypeOK, Threads
    <3>2. d # p => told'[d] = told[d]
      BY <2>3 DEF TypesOK, Avahi!TypeOK
    <3>3. told'[p] = IF s = "on" THEN "resolved" ELSE "lost"
      BY <2>3 DEF TypesOK, Avahi!TypeOK
    <3>4. \A e, t : Idle # Marking(e, t)
      BY DEF Idle, Marking
    <3>5. \A e, t : Marking(p, s) = Marking(e, t) => p = e /\ s = t
      BY DEF Marking
    <3> QED
      BY <2>1, <2>3, <3>1, <3>2, <3>3, <3>4, <3>5 DEF Vouched
  <2> QED
    BY <1>1, <2>2, <2>3, StepReports DEF Reports
<1>2. ASSUME NEW x \in Threads, MarkStatus(x) PROVE Goal
  <2> DEFINE e == thread[x].dev
             s == thread[x].to
  <2>1. /\ thread[x].pc = "mark" /\ e \in Devices /\ s \in {"on", "off"}
        /\ online' = [online EXCEPT ![e] = s]
        /\ told' = told
        /\ thread'[x].pc # "mark"
        /\ \A y \in Threads \ {x} : thread'[y] = thread[y]
    <3>1. thread[x].pc = "mark" /\ told' = told
      BY <1>2 DEF MarkStatus, Mark, discovery
    <3>2. thread'[x].pc # "mark" /\ \A y \in Threads \ {x} : thread'[y] = thread[y]
      <4>1. CASE Changes(e, s)
        BY <1>2, <4>1, InCall, GotoThread DEF MarkStatus, Mark, TypesOK, TypeOK
      <4>2. CASE ~Changes(e, s)
        <5>1. thread'[x] = Idle /\ \A y \in Threads \ {x} : thread'[y] = thread[y]
          BY <1>2, <4>2, States, GotoThread DEF MarkStatus, Mark, TypesOK, TypeOK
        <5> QED
          BY <5>1 DEF Idle
      <4> QED
        BY <4>1, <4>2
    <3> QED
      BY <1>2, <3>1, <3>2, InCall DEF MarkStatus, Mark, TypesOK
  <2>2. \A f, t : Marking(f, t).pc = "mark" /\ Marking(f, t).dev = f /\ Marking(f, t).to = t
    BY DEF Marking
  <2>3. CASE x # "discovery"
    <3>1. heard' = heard \union {e}
      BY <1>2, <2>3 DEF MarkStatus
    <3>2. thread'["discovery"] = thread["discovery"]
      BY <2>1, <2>3 DEF Threads
    <3> QED
      BY <2>1, <3>1, <3>2 DEF Vouched, TypesOK, TypeOK
  <2>4. CASE x = "discovery"
    <3>1. heard' = IF s = "off" THEN heard \ {e} ELSE heard
      BY <1>2, <2>4 DEF MarkStatus
    <3>2. thread["discovery"] = Marking(e, s)
      <4>1. thread["discovery"] \in ThreadStates
        BY DEF TypesOK, TypeOK, Threads
      <4>2. thread["discovery"] \in [pc : {"mark", "find", "push"}, dev : Devices,
                                     to : {"on", "off"}]
        BY <2>1, <2>4, <4>1 DEF ThreadStates, Idle
      <4> QED
        BY <2>1, <2>4, <4>2 DEF Marking
    <3>3. thread'["discovery"].pc # "mark"
      BY <2>1, <2>4
    <3>4. CASE d # e
      BY <2>1, <2>2, <3>1, <3>2, <3>3, <3>4 DEF Vouched, TypesOK, TypeOK
    <3>5. CASE d = e
      BY <2>1, <2>2, <3>1, <3>2, <3>3, <3>5 DEF Vouched, TypesOK, TypeOK
    <3> QED
      BY <3>4, <3>5
  <2> QED
    BY <2>3, <2>4
<1>3. CASE CoreSteps
  <2>1. heard' = heard /\ told' = told
    BY <1>3 DEF CoreSteps, discovery
  <2>2. online'[d] = "on" => online[d] = "on"
    BY <1>3, InErase DEF CoreSteps, Cause, Continue, Message, PairResponse,
       AcceptPairing, RemoveDevice, Find, Push, EraseStatus, Refresh, ListDevices,
       TypesOK, TypeOK
  <2>3. \/ thread'["discovery"] = thread["discovery"]
        \/ /\ thread["discovery"].pc \in {"find", "push"}
           /\ thread'["discovery"].pc \in {"push", "idle"}
    <3>1. ASSUME NEW x \in Threads, Find(x) \/ Push(x) PROVE <2>3
      <4>1. thread[x].pc \in {"find", "push"}
        BY <3>1 DEF Find, Push
      <4>2. CASE Find(x) /\ thread[x].dev \in store
        <5>1. Goto(x, [thread[x] EXCEPT !.pc = "push"])
          BY <4>2 DEF Find
        <5>2. [thread[x] EXCEPT !.pc = "push"] \in ThreadStates
              /\ [thread[x] EXCEPT !.pc = "push"].pc = "push"
          BY <4>1, InCall DEF TypesOK
        <5>3. thread'[x].pc = "push" /\ \A y \in Threads \ {x} : thread'[y] = thread[y]
          BY <5>1, <5>2, GotoThread DEF TypesOK, TypeOK
        <5> QED
          BY <4>1, <5>3 DEF Threads
      <4>3. CASE Push(x) \/ thread[x].dev \notin store
        <5>1. Goto(x, Idle)
          BY <3>1, <4>3 DEF Find, Push
        <5>2. thread'[x] = Idle /\ \A y \in Threads \ {x} : thread'[y] = thread[y]
          BY <5>1, States, GotoThread DEF TypesOK, TypeOK
        <5> QED
          BY <4>1, <5>2 DEF Threads, Idle
      <4> QED
        BY <3>1, <4>2, <4>3
    <3>2. ASSUME ~ \E x \in Threads : Find(x) \/ Push(x) PROVE <2>3
      BY <1>3, <3>2, States, GotoThread DEF CoreSteps, Cause, Continue, Message,
         PairResponse, AcceptPairing, RemoveDevice, EraseStatus, Refresh, ListDevices,
         TypesOK, TypeOK, Threads
    <3> QED
      BY <3>1, <3>2
  <2>4. \A f, t : Marking(f, t).pc = "mark"
    BY DEF Marking
  <2> QED
    BY <2>1, <2>2, <2>3, <2>4 DEF Vouched
<1>4. CASE UNCHANGED allVars
  BY <1>4 DEF allVars, vars, discovery, Vouched, Marking
<1> QED
  BY <1>1, <1>2, <1>3, <1>4 DEF NextStatus, AvahiStep, MdnsStep, NsdStep

-----------------------------------------------------------------------------
(* The theorems *)

LEMMA StatusInvariant == SpecStatus => []StatusInv
<1>1. StatusInv /\ [NextStatus]_allVars => StatusInv'
  BY TypesStep, BackendInvStep, VouchedStep, FollowsStep, PresenceStep
  DEF StatusInv, TypesOK
<1> QED
  BY <1>1, InitStatusInv, PTL DEF SpecStatus

\* The variables of the core, of the list and of the three backends keep their types.
THEOREM TypesCorrect == SpecStatus => []TypesOK
<1>1. StatusInv => TypesOK
  BY DEF StatusInv
<1> QED
  BY <1>1, StatusInvariant, PTL

\* When no call of mark_peer_online, mark_peer_offline or remove_device is in
\* progress, the list shows the status the core has.
THEOREM ListAgrees == SpecStatus => []ShownAgrees
<1>1. StatusInv => ShownAgrees
  BY FollowsAgrees DEF StatusInv, TypesOK
<1> QED
  BY <1>1, StatusInvariant, PTL

\* Once all is handled, Avahi's and NSD's backends hold no peer for resolved that is
\* announced nowhere.
THEOREM DeadPeersAreLost == SpecStatus => []DeadPeerIsLost
<1>1. StatusInv => DeadPeerIsLost
  BY DEF StatusInv, BackendInv, DeadPeerIsLost, Avahi!DeadPeerIsLost,
     Nsd!DeadPeerIsLost, AvahiProofs!GoneIsPending, AvahiProofs!RemovalPending,
     NsdGoneIsPending, LossPending
<1> QED
  BY <1>1, StatusInvariant, PTL

\* MdnsDiscovery reports a peer exactly when it has both halves of its answer.
THEOREM WholesAreReported == SpecStatus => []WholeIsReported
<1>1. StatusInv => WholeIsReported
  BY DEF StatusInv, BackendInv, WholeIsReported
<1> QED
  BY <1>1, StatusInvariant, PTL

\* From the network to the window: a paired device that has left the network, and
\* that nothing was heard of since, is not shown as online.
THEOREM DeadPeersAreShownOffline == SpecStatus => []DeadPeerShownOffline
<1>1. StatusInv => DeadPeerShownOffline
  <2> SUFFICES ASSUME StatusInv, backend # "mdns", Settled, Quiet,
                      NEW d \in store \ blurred, shown[d] = "on"
               PROVE  d \in heard \/ Reachable(d)
    BY DEF DeadPeerShownOffline
  <2>1. d \in Devices /\ online[d] = "on"
    BY FollowsAgrees DEF StatusInv, TypesOK, TypeOK, ShownAgrees
  <2>2. thread["discovery"] # Marking(d, "off")
    BY DEF Quiet, Threads, Idle, Marking
  <2>3. d \in heard \/ (d \in Discoverable /\ told[d] = "resolved")
    BY <2>1, <2>2 DEF StatusInv, Vouched
  <2>4. backend = "avahi" \/ backend = "nsd"
    BY PeerStatusAssumption DEF StatusInv, TypesOK
  <2>5. /\ backend = "avahi" => Avahi!DeadPeerIsLost
        /\ backend = "nsd" => Nsd!DeadPeerIsLost
    BY DEF StatusInv, BackendInv, Avahi!DeadPeerIsLost, Nsd!DeadPeerIsLost,
       AvahiProofs!GoneIsPending, AvahiProofs!RemovalPending, NsdGoneIsPending,
       LossPending
  <2> QED
    BY <2>3, <2>4, <2>5 DEF Settled, Reachable, Avahi!DeadPeerIsLost,
                            Nsd!DeadPeerIsLost
<1> QED
  BY <1>1, StatusInvariant, PTL
=============================================================================

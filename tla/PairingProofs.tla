---------------------------- MODULE PairingProofs ----------------------------
(***************************************************************************)
(* Proofs about Pairing, for any number of devices, sessions and faults:   *)
(* the types, that nobody is paired without consent, that a session serves *)
(* one request while it is open and is not lost, and that no request waits *)
(* unseen.                                                                 *)
(***************************************************************************)
EXTENDS Pairing, TLAPS

\* d's UI thread is inside begin_pairing.
Begins(d) == ui[d].pc \in {"nonce_set", "started"}

\* Consent is there before anything that follows from it: an accept_pairing in the
\* middle, an acceptance on its way.
ConsentFirst ==
  /\ \A d \in Devices : ui[d].pc = "accept" => <<d, ui[d].from>> \in consents
  /\ \A m \in net :
       (m.type = "response" /\ m.accepted) => <<m.from, m.to>> \in consents

ConsentInv == TypeOK /\ ConsentFirst /\ PairedByConsent

\* Sessions of the past are numbered up to sessions[d].
Numbered ==
  \A d \in Devices :
    /\ nonce[d] <= sessions[d]
    /\ \A n \in shown[d] \union closed[d] : n <= sessions[d]

\* Nobody knows the nonce of a session that is not displayed yet.
NotYetShown ==
  /\ \A d \in Devices :
       Begins(d) => nonce[d] # 0 /\ nonce[d] \notin shown[d] \union closed[d]
  /\ \A m \in net : m.type = "request" => m.nonce \in shown[m.to]

\* What the I/O thread has compared stays true until it has ended the session.
StillCurrent ==
  \A d \in Devices :
    io[d].pc = "commit" => io[d].nonce = nonce[d] /\ io[d].nonce \in shown[d]

\* Outside begin_pairing, pairing mode is on for a session that is open, and only
\* for that.
ModeIsOpen ==
  \A d \in Devices :
    ~Begins(d) => (mode[d] <=> nonce[d] # 0 /\ nonce[d] \notin closed[d])

SessionInv == TypeOK /\ Numbered /\ NotYetShown /\ StillCurrent /\ ModeIsOpen

-----------------------------------------------------------------------------
(* Lemmas *)

\* A click needs an idle UI thread, and waits for the I/O thread's lock.
LEMMA ClickIsIdle ==
  ASSUME NEW d, NEW r, Clicks(d, r)
  PROVE  ui[d] = Idle /\ ~Locked(d) /\ r \in dialog[d]
BY DEF Clicks

\* Posting keeps the type of the window's queues.
LEMMA PostTypes ==
  ASSUME TypeOK, NEW d \in Devices, NEW e \in Events, Post(d, e)
  PROVE  posted' \in [Devices -> Seq(Events)]
<1>1. Append(posted[d], e) \in Seq(Events)
  BY DEF TypeOK
<1> QED
  BY <1>1 DEF Post, TypeOK

\* So does handling an event, and what is handled is an event.
LEMMA HandlesTypes ==
  ASSUME TypeOK, NEW d \in Devices, NEW kind, Handles(d, kind)
  PROVE  /\ posted' \in [Devices -> Seq(Events)]
         /\ Head(posted[d]) \in Events
<1>1. posted[d] \in Seq(Events) /\ posted[d] # <<>>
  BY DEF TypeOK, Handles
<1>2. Head(posted[d]) \in Events /\ Tail(posted[d]) \in Seq(Events)
  BY <1>1
<1> QED
  BY <1>2 DEF Handles, TypeOK

\* Messages have the types of Messages.
LEMMA MessageTypes ==
  ASSUME NEW r \in Devices, NEW d \in Devices
  PROVE  /\ \A n \in Nonces : Request(r, d, n) \in Messages
         /\ \A ok \in BOOLEAN : Response(r, d, ok) \in Messages
BY DEF Messages, Request, Response

LEMMA MessageFields ==
  ASSUME NEW m \in Messages
  PROVE  /\ m.from \in Devices /\ m.to \in Devices
         /\ m.type \in {"request", "response"}
         /\ m.type = "request" => m.nonce \in Nonces
         /\ m.type = "response" => m.accepted \in BOOLEAN
BY DEF Messages

\* The threads' states have the types of their sets.
LEMMA StateTypes ==
  /\ Idle \in IOStates /\ Idle \in UIStates
  /\ [pc |-> "nonce_set"] \in UIStates /\ [pc |-> "started"] \in UIStates
  /\ \A r \in Devices : [pc |-> "accept", from |-> r] \in UIStates
  /\ \A r \in Devices, n \in Nonces, s \in {"commit", "surface"} :
       [pc |-> s, from |-> r, nonce |-> n] \in IOStates
BY DEF IOStates, UIStates

\* What the states carry: s is the state of an I/O thread, u of a UI thread.
LEMMA StateFields ==
  /\ \A s \in IOStates :
       s.pc \in {"commit", "surface"} =>
         /\ s.from \in Devices /\ s.nonce \in Nonces
         /\ s = [pc |-> s.pc, from |-> s.from, nonce |-> s.nonce]
  /\ \A u \in UIStates : u.pc = "accept" => u.from \in Devices
BY DEF IOStates, UIStates, Idle

-----------------------------------------------------------------------------
(* Types *)

LEMMA InitTypes == Init => TypeOK
BY PairingAssumption, StateTypes DEF Init, TypeOK

LEMMA TypeStep == TypeOK /\ NotYetShown /\ [Next]_vars => TypeOK'
<1> SUFFICES ASSUME TypeOK, NotYetShown, [Next]_vars PROVE TypeOK'
  OBVIOUS
<1> USE PairingAssumption
<1>1. ASSUME NEW d \in Devices, BeginNonce(d) PROVE TypeOK'
  <2>1. sessions[d] + 1 \in Nonces /\ 1 .. sessions[d] \subseteq Nonces
    BY <1>1 DEF BeginNonce, TypeOK, Nonces
  <2>2. /\ sessions' \in [Devices -> 0 .. MaxSessions]
        /\ nonce' \in [Devices -> 0 .. MaxSessions]
        /\ closed' \in [Devices -> SUBSET Nonces]
    BY <1>1, <2>1 DEF BeginNonce, TypeOK, Nonces
  <2>3. ui' \in [Devices -> UIStates] /\ hasty' \subseteq Devices
    BY <1>1, StateTypes DEF BeginNonce, TypeOK
  <2> QED
    BY <1>1, <2>2, <2>3 DEF BeginNonce, TypeOK, window
<1>2. ASSUME NEW d \in Devices, BeginStarted(d) PROVE TypeOK'
  BY <1>2, StateTypes DEF BeginStarted, TypeOK, window, history
<1>3. ASSUME NEW d \in Devices, BeginMode(d) PROVE TypeOK'
  <2>1. nonce[d] \in Nonces
    BY <1>3 DEF BeginMode, TypeOK, Nonces, NotYetShown, Begins
  <2> QED
    BY <1>3, <2>1, StateTypes DEF BeginMode, TypeOK, window, history
<1>4. ASSUME NEW d \in Devices, CancelPairing(d) PROVE TypeOK'
  <2>1. 1 .. sessions[d] \subseteq Nonces
    BY DEF TypeOK, Nonces
  <2> QED
    BY <1>4, <2>1 DEF CancelPairing, TypeOK, window
<1>5. ASSUME NEW d \in Devices, NEW r \in Devices, NEW n \in Nonces, RequestPairing(d, r, n)
      PROVE  TypeOK'
  BY ZenonT(30), <1>5, MessageTypes DEF RequestPairing, TypeOK, window, history
<1>6. ASSUME NEW d \in Devices, NEW r \in Devices, AcceptTake(d, r) PROVE TypeOK'
  <2>1. posted' \in [Devices -> Seq(Events)]
    BY <1>6, PostTypes DEF AcceptTake, Events, TypeOK
  <2>2. ui' \in [Devices -> UIStates]
    BY ZenonT(30), <1>6, StateTypes DEF AcceptTake, TypeOK
  <2>3. pending' \in [Devices -> SUBSET Devices]
    <3>1. pending[d] \ {r} \in SUBSET Devices
      BY DEF TypeOK
    <3>2. pending' \in {pending, [pending EXCEPT ![d] = pending[d] \ {r}]}
      BY <1>6 DEF AcceptTake
    <3> QED
      BY ZenonT(30), <3>1, <3>2 DEF TypeOK
  <2>4. consents' \subseteq Devices \X Devices
    <3>1. <<d, r>> \in Devices \X Devices
      OBVIOUS
    <3> QED
      BY <1>6, <3>1 DEF AcceptTake, TypeOK
  <2> QED
    BY <1>6, <2>1, <2>2, <2>3, <2>4 DEF AcceptTake, TypeOK
<1>7. ASSUME NEW d \in Devices, AcceptStore(d) PROVE TypeOK'
  <2>1. ui[d].from \in Devices
    BY <1>7, StateFields DEF AcceptStore, TypeOK
  <2>2. posted' \in [Devices -> Seq(Events)]
    BY <1>7, PostTypes DEF AcceptStore, Events
  <2>3. net' \subseteq Messages
    BY <1>7, <2>1, MessageTypes DEF AcceptStore, Reply, TypeOK
  <2> QED
    BY <1>7, <2>1, <2>2, <2>3, StateTypes DEF AcceptStore, TypeOK, history
<1>8. ASSUME NEW d \in Devices, NEW r \in Devices, RejectPairing(d, r)
      PROVE  TypeOK'
  <2>1. posted' \in [Devices -> Seq(Events)]
    BY <1>8, PostTypes DEF RejectPairing, Events
  <2>2. net' \subseteq Messages
    <3>1. Response(d, r, FALSE) \in Messages
      BY MessageTypes
    <3> QED
      BY <1>8, <3>1 DEF RejectPairing, Reply, TypeOK
  <2>3. pending' \in [Devices -> SUBSET Devices]
    <3>1. pending[d] \ {r} \in SUBSET Devices
      BY DEF TypeOK
    <3>2. pending' \in {pending, [pending EXCEPT ![d] = pending[d] \ {r}]}
      BY <1>8 DEF RejectPairing
    <3> QED
      BY ZenonT(30), <3>1, <3>2 DEF TypeOK
  <2> QED
    BY <1>8, <2>1, <2>2, <2>3 DEF RejectPairing, TypeOK, history
<1>9. ASSUME NEW d \in Devices, ShowRequest(d) PROVE TypeOK'
  <2>1. posted' \in [Devices -> Seq(Events)] /\ Head(posted[d]) \in Events
    BY <1>9, HandlesTypes DEF ShowRequest
  <2>2. Head(posted[d]).is = "request"
    BY <1>9 DEF ShowRequest, Handles
  <2>3. Head(posted[d]).from \in Devices
    BY <2>1, <2>2 DEF Events, Answered
  <2> QED
    BY <1>9, <2>1, <2>3 DEF ShowRequest, TypeOK, core, history
<1>10. ASSUME NEW d \in Devices, CloseDialog(d) PROVE TypeOK'
  <2>1. posted' \in [Devices -> Seq(Events)]
    BY <1>10, HandlesTypes DEF CloseDialog
  <2> QED
    BY <1>10, <2>1 DEF CloseDialog, TypeOK, core, history
<1>11. ASSUME NEW d \in Devices, NEW r \in Devices, RemoveDevice(d, r)
      PROVE  TypeOK'
  BY <1>11 DEF RemoveDevice, TypeOK, window, history
<1>12. ASSUME NEW d \in Devices, NEW m \in net, HandlePairRequest(d, m)
      PROVE  TypeOK'
  <2>1. m.from \in Devices /\ m.nonce \in Nonces
    BY <1>12, MessageFields DEF HandlePairRequest, TypeOK
  <2>2. [pc |-> "commit", from |-> m.from, nonce |-> m.nonce] \in IOStates
    BY <2>1, StateTypes
  <2>3. io' \in [Devices -> IOStates]
    BY ZenonT(30), <1>12, <2>2 DEF HandlePairRequest, TypeOK
  <2> QED
    BY <1>12, <2>3 DEF HandlePairRequest, TypeOK, core, window, history
<1>13. ASSUME NEW d \in Devices, CommitPairRequest(d) PROVE TypeOK'
  <2>1. io[d].from \in Devices /\ io[d].nonce \in Nonces
    BY <1>13, StateFields DEF CommitPairRequest, TypeOK
  <2>2. [io[d] EXCEPT !.pc = "surface"] \in IOStates
    <3>1. io[d] = [pc |-> "commit", from |-> io[d].from, nonce |-> io[d].nonce]
      BY <1>13, StateFields DEF CommitPairRequest, TypeOK
    <3>2. [io[d] EXCEPT !.pc = "surface"]
            = [pc |-> "surface", from |-> io[d].from, nonce |-> io[d].nonce]
      BY <3>1
    <3> QED
      BY <2>1, <3>2, StateTypes
  <2>3. io' \in [Devices -> IOStates]
    BY <1>13, <2>2 DEF CommitPairRequest, TypeOK
  <2> QED
    BY ZenonT(30), <1>13, <2>1, <2>3 DEF CommitPairRequest, TypeOK, window
<1>14. ASSUME NEW d \in Devices, SurfacePairRequest(d) PROVE TypeOK'
  <2>1. io[d].from \in Devices
    BY <1>14, StateFields DEF SurfacePairRequest, TypeOK
  <2>2. Surfaced(io[d].from) \in Events
    BY <2>1 DEF Surfaced, Events
  <2>3. posted' \in [Devices -> Seq(Events)]
    BY <1>14, <2>2, PostTypes DEF SurfacePairRequest
  <2> QED
    BY <1>14, <2>3, StateTypes DEF SurfacePairRequest, TypeOK, core, history
<1>15. ASSUME NEW d \in Devices, NEW m \in net, HandlePairResponse(d, m)
      PROVE  TypeOK'
  <2>1. m.from \in Devices
    BY <1>15, MessageFields DEF TypeOK
  <2>2. /\ outgoing' \in [Devices -> SUBSET Devices]
        /\ store' \in [Devices -> SUBSET Devices]
    <3>1. /\ outgoing[d] \ {m.from} \in SUBSET Devices
          /\ store[d] \union {m.from} \in SUBSET Devices
      BY <2>1 DEF TypeOK
    <3>2. /\ outgoing' \in {outgoing, [outgoing EXCEPT ![d] = outgoing[d] \ {m.from}]}
          /\ store' \in {store, [store EXCEPT ![d] = store[d] \union {m.from}]}
      BY <1>15 DEF HandlePairResponse
    <3>3. outgoing' \in [Devices -> SUBSET Devices]
      BY <3>1, <3>2 DEF TypeOK
    <3>4. store' \in [Devices -> SUBSET Devices]
      BY <3>1, <3>2 DEF TypeOK
    <3> QED
      BY <3>3, <3>4
  <2>3. net' \subseteq Messages
    BY <1>15 DEF HandlePairResponse, TypeOK
  <2> QED
    BY <1>15, <2>2, <2>3 DEF HandlePairResponse, TypeOK, window, history
<1>16. ASSUME NEW d \in Devices, Restart(d) PROVE TypeOK'
  <2>1. 1 .. sessions[d] \subseteq Nonces
    BY DEF TypeOK, Nonces
  <2>2. <<>> \in Seq(Events)
    OBVIOUS
  <2>3. posted' \in [Devices -> Seq(Events)]
    BY <1>16, <2>2 DEF Restart, TypeOK
  <2>4. /\ mode' \in [Devices -> BOOLEAN] /\ started' \in [Devices -> 0 .. MaxNow]
        /\ nonce' \in [Devices -> 0 .. MaxSessions]
        /\ pending' \in [Devices -> SUBSET Devices]
        /\ outgoing' \in [Devices -> SUBSET Devices]
        /\ dialog' \in [Devices -> SUBSET Devices]
        /\ closed' \in [Devices -> SUBSET Nonces]
    BY <1>16, <2>1 DEF Restart, TypeOK
  <2>5. io' \in [Devices -> IOStates] /\ ui' \in [Devices -> UIStates]
    BY <1>16, StateTypes DEF Restart, TypeOK
  <2>6. faults' \in 0 .. MaxFaults
    BY <1>16 DEF Restart, TypeOK
  <2>7. conn' \subseteq Devices \X Devices /\ net' \subseteq Messages
    BY <1>16 DEF Restart, TypeOK
  <2> QED
    BY <1>16, <2>3, <2>4, <2>5, <2>6, <2>7 DEF Restart, TypeOK
<1>17. ASSUME NEW d \in Devices, NEW r \in Devices, Connect(d, r) PROVE TypeOK'
  <2>1. conn' \subseteq Devices \X Devices
    <3>1. <<d, r>> \in Devices \X Devices
      OBVIOUS
    <3> QED
      BY <1>17, <3>1 DEF Connect, TypeOK
  <2> QED
    BY <1>17, <2>1 DEF Connect, TypeOK, core, window, history
<1>18. ASSUME NEW m \in net, Lose(m) PROVE TypeOK'
  BY <1>18 DEF Lose, TypeOK, core, window, history
<1>19. ASSUME NEW c \in conn, Disconnect(c) PROVE TypeOK'
  <2>1. faults' \in 0 .. MaxFaults
    BY <1>19 DEF Disconnect, TypeOK
  <2>2. conn' \subseteq Devices \X Devices
    BY <1>19 DEF Disconnect, TypeOK
  <2> QED
    BY <1>19, <2>1, <2>2 DEF Disconnect, TypeOK, core, window, history
<1>20. ASSUME Tick PROVE TypeOK'
  <2>1. now' \in 0 .. MaxNow
    BY <1>20 DEF Tick, TypeOK
  <2> QED
    BY <1>20, <2>1 DEF Tick, TypeOK, core, window, history
<1>21. CASE UNCHANGED vars
  BY <1>21 DEF vars, TypeOK
<1> QED
  BY <1>1, <1>2, <1>3, <1>4, <1>5, <1>6, <1>7, <1>8, <1>9, <1>10,
     <1>11, <1>12, <1>13, <1>14, <1>15, <1>16, <1>17, <1>18, <1>19, <1>20, <1>21
  DEF Next, UIThread, IOThread, ResponseHandled, Network


-----------------------------------------------------------------------------
(* Consent *)

\* Consents are never taken back.
LEMMA ConsentsStay == [Next]_vars => consents \subseteq consents'
<1> SUFFICES ASSUME [Next]_vars PROVE consents \subseteq consents'
  OBVIOUS
<1>1. ASSUME NEW d \in Devices, NEW r \in Devices, AcceptTake(d, r)
      PROVE  consents \subseteq consents'
  BY <1>1 DEF AcceptTake
<1>2. CASE UNCHANGED vars
  BY <1>2 DEF vars
<1> QED
  BY ZenonT(30), <1>1, <1>2
  DEF Next, UIThread, IOThread, ResponseHandled, Network, BeginNonce,
     BeginStarted, BeginMode, CancelPairing, RequestPairing, AcceptStore,
     RejectPairing, ShowRequest, CloseDialog, RemoveDevice, HandlePairRequest,
     CommitPairRequest, SurfacePairRequest, HandlePairResponse, Restart, Connect,
     Lose, Disconnect, Tick, history

\* A step that changes none of what consent is about keeps what follows from it.
LEMMA ConsentKept ==
  ASSUME ConsentFirst, PairedByConsent, consents \subseteq consents',
         UNCHANGED <<ui, store>>,
         \A m \in net' \ net : m.type = "request" \/ ~m.accepted
  PROVE  ConsentFirst' /\ PairedByConsent'
BY DEF ConsentFirst, PairedByConsent

LEMMA ConsentStep ==
  ConsentInv /\ [Next]_vars => ConsentFirst' /\ PairedByConsent'
<1> SUFFICES ASSUME ConsentInv, [Next]_vars PROVE ConsentFirst' /\ PairedByConsent'
  OBVIOUS
<1> USE DEF ConsentInv
<1>0. consents \subseteq consents'
  BY ConsentsStay
<1>1. ASSUME NEW d \in Devices, BeginNonce(d)
      PROVE  ConsentFirst' /\ PairedByConsent'
  <2>1. ui'[d].pc # "accept" /\ \A c \in Devices \ {d} : ui'[c] = ui[c]
    BY <1>1 DEF BeginNonce, TypeOK
  <2>2. UNCHANGED <<net, store>>
    BY <1>1 DEF BeginNonce
  <2> QED
    BY <1>0, <2>1, <2>2 DEF ConsentFirst, PairedByConsent
<1>2. ASSUME NEW d \in Devices, BeginStarted(d)
      PROVE  ConsentFirst' /\ PairedByConsent'
  <2>1. ui'[d].pc # "accept" /\ \A c \in Devices \ {d} : ui'[c] = ui[c]
    BY <1>2 DEF BeginStarted, TypeOK
  <2>2. UNCHANGED <<net, store>>
    BY <1>2 DEF BeginStarted
  <2> QED
    BY <1>0, <2>1, <2>2 DEF ConsentFirst, PairedByConsent
<1>3. ASSUME NEW d \in Devices, BeginMode(d)
      PROVE  ConsentFirst' /\ PairedByConsent'
  <2>1. ui'[d].pc # "accept" /\ \A c \in Devices \ {d} : ui'[c] = ui[c]
    BY <1>3 DEF BeginMode, TypeOK, Idle
  <2>2. UNCHANGED <<net, store>>
    BY <1>3 DEF BeginMode
  <2> QED
    BY <1>0, <2>1, <2>2 DEF ConsentFirst, PairedByConsent
<1>4. ASSUME NEW d \in Devices, NEW r \in Devices, NEW n \in Nonces,
             RequestPairing(d, r, n)
      PROVE  ConsentFirst' /\ PairedByConsent'
  <2>1. net' = net \union {Request(d, r, n)} /\ UNCHANGED <<ui, store>>
    BY <1>4 DEF RequestPairing
  <2>2. Request(d, r, n).type = "request"
    BY DEF Request
  <2> QED
    BY <1>0, <2>1, <2>2, ConsentKept
<1>5. ASSUME NEW d \in Devices, NEW r \in Devices, AcceptTake(d, r)
      PROVE  ConsentFirst' /\ PairedByConsent'
  <2>1. UNCHANGED <<net, store>>
    BY <1>5 DEF AcceptTake
  <2>2. \/ ui' = ui
        \/ /\ ui' = [ui EXCEPT ![d] = [pc |-> "accept", from |-> r]]
           /\ <<d, r>> \in consents'
    BY <1>5 DEF AcceptTake
  <2>3. \A c \in Devices : ui'[c].pc = "accept" => <<c, ui'[c].from>> \in consents'
    <3>1. CASE ui' = ui
      BY <1>0, <3>1 DEF ConsentFirst
    <3>2. CASE /\ ui' = [ui EXCEPT ![d] = [pc |-> "accept", from |-> r]]
               /\ <<d, r>> \in consents'
      <4>1. ui'[d].from = r /\ \A c \in Devices \ {d} : ui'[c] = ui[c]
        BY <3>2 DEF TypeOK
      <4> QED
        BY <1>0, <3>2, <4>1 DEF ConsentFirst
    <3> QED
      BY <2>2, <3>1, <3>2
  <2> QED
    BY <1>0, <2>1, <2>3 DEF ConsentFirst, PairedByConsent
<1>6. ASSUME NEW d \in Devices, AcceptStore(d)
      PROVE  ConsentFirst' /\ PairedByConsent'
  <2> DEFINE r == ui[d].from
  <2>1. <<d, r>> \in consents'
    BY <1>0, <1>6 DEF AcceptStore, ConsentFirst
  <2>2. ui'[d].pc # "accept" /\ \A c \in Devices \ {d} : ui'[c] = ui[c]
    BY <1>6 DEF AcceptStore, TypeOK, Idle
  <2>3. \A m \in net' \ net : m.from = d /\ m.to = r
    BY <1>6 DEF AcceptStore, Reply, Response
  <2>4. \A c \in Devices : \A p \in store'[c] : p \in store[c] \/ (c = d /\ p = r)
    BY <1>6 DEF AcceptStore, TypeOK
  <2> QED
    BY <1>0, <2>1, <2>2, <2>3, <2>4 DEF ConsentFirst, PairedByConsent
<1>7. ASSUME NEW d \in Devices, NEW r \in Devices, RejectPairing(d, r)
      PROVE  ConsentFirst' /\ PairedByConsent'
  <2>1. \A m \in net' \ net : ~m.accepted
    BY <1>7 DEF RejectPairing, Reply, Response
  <2>2. UNCHANGED <<ui, store>>
    BY <1>7 DEF RejectPairing
  <2> QED
    BY <1>0, <2>1, <2>2, ConsentKept
<1>8. ASSUME NEW d \in Devices, NEW r \in Devices, RemoveDevice(d, r)
      PROVE  ConsentFirst' /\ PairedByConsent'
  <2>1. UNCHANGED <<ui, net>> /\ \A c \in Devices : store'[c] \subseteq store[c]
    BY <1>8 DEF RemoveDevice, TypeOK
  <2> QED
    BY <1>0, <2>1 DEF ConsentFirst, PairedByConsent
<1>9. ASSUME NEW d \in Devices, NEW m \in net, HandlePairRequest(d, m)
      PROVE  ConsentFirst' /\ PairedByConsent'
  <2>1. net' \subseteq net /\ UNCHANGED <<ui, store>>
    BY <1>9 DEF HandlePairRequest, core
  <2> QED
    BY <1>0, <2>1, ConsentKept
<1>10. ASSUME NEW d \in Devices, NEW m \in net, HandlePairResponse(d, m)
      PROVE  ConsentFirst' /\ PairedByConsent'
  <2>1. net' \subseteq net /\ ui' = ui
    BY <1>10 DEF HandlePairResponse
  <2>2. \A c \in Devices : \A p \in store'[c] :
          p \in store[c] \/ (c = d /\ p = m.from /\ Confirms(d, m))
    BY <1>10 DEF HandlePairResponse, TypeOK
  <2>3. Confirms(d, m) => <<m.from, d>> \in consents'
    BY <1>0, <1>10 DEF HandlePairResponse, Confirms, ConsentFirst
  <2> QED
    BY <1>0, <2>1, <2>2, <2>3 DEF ConsentFirst, PairedByConsent
<1>11. ASSUME NEW d \in Devices, Restart(d)
      PROVE  ConsentFirst' /\ PairedByConsent'
  <2>1. ui'[d].pc # "accept" /\ \A c \in Devices \ {d} : ui'[c] = ui[c]
    BY <1>11 DEF Restart, TypeOK, Idle
  <2>2. net' \subseteq net /\ store' = store
    BY <1>11 DEF Restart
  <2> QED
    BY <1>0, <2>1, <2>2 DEF ConsentFirst, PairedByConsent
<1>12. CASE \/ UNCHANGED <<ui, store, net>>
           \/ \E m \in net : Lose(m)
  <2>1. net' \subseteq net /\ UNCHANGED <<ui, store>>
    BY <1>12 DEF Lose, core
  <2> QED
    BY <1>0, <2>1, ConsentKept
<1> QED
  BY <1>1, <1>2, <1>3, <1>4, <1>5, <1>6, <1>7, <1>8, <1>9, <1>10, <1>11, <1>12
  DEF Next, UIThread, IOThread, ResponseHandled, Network, CancelPairing,
      ShowRequest, CloseDialog, CommitPairRequest, SurfacePairRequest, Connect,
      Disconnect, Tick, core, vars

-----------------------------------------------------------------------------
(* Sessions *)

\* A step that leaves the sessions alone, and adds no request, keeps all of it.
LEMMA SessionKept ==
  ASSUME SessionInv, UNCHANGED <<mode, nonce, shown, sessions, closed>>,
         \A d \in Devices : Begins(d)' <=> Begins(d),
         \A d \in Devices : io'[d] = io[d] \/ io'[d].pc # "commit",
         \A m \in net' \ net : m.type # "request"
  PROVE  Numbered' /\ NotYetShown' /\ StillCurrent' /\ ModeIsOpen'
<1> USE DEF SessionInv
<1>1. Numbered'
  BY DEF Numbered
<1>2. NotYetShown'
  BY DEF NotYetShown
<1>3. StillCurrent'
  BY DEF StillCurrent
<1>4. ModeIsOpen'
  BY DEF ModeIsOpen
<1> QED
  BY <1>1, <1>2, <1>3, <1>4

\* While begin_pairing runs no request can be the one it waits for, so handle_pair_request
\* does not get as far as its critical section.
LEMMA CommitOutsideBegin ==
  ASSUME SessionInv, NEW d \in Devices, io[d].pc = "commit"
  PROVE  ~Begins(d)
BY DEF SessionInv, StillCurrent, NotYetShown

\* What a step keeps of SessionInv, the types apart.
SessionKeeps == Numbered' /\ NotYetShown' /\ StillCurrent' /\ ModeIsOpen'

LEMMA SessionStep == SessionInv /\ [Next]_vars => SessionKeeps
<1> SUFFICES ASSUME SessionInv, [Next]_vars PROVE SessionKeeps
  OBVIOUS
<1> USE DEF SessionInv
<1>1. ASSUME NEW d \in Devices, BeginNonce(d) PROVE SessionKeeps
  <2>1. /\ sessions'[d] = sessions[d] + 1 /\ nonce'[d] = sessions[d] + 1
        /\ closed'[d] = 1 .. sessions[d] /\ sessions[d] \in Nat
        /\ \A c \in Devices \ {d} :
             UNCHANGED <<sessions[c], nonce[c], closed[c], ui[c]>>
    BY <1>1 DEF BeginNonce, TypeOK
  <2>2. Begins(d)' /\ io[d].pc # "commit" /\ UNCHANGED <<mode, shown, io, net>>
    BY <1>1 DEF BeginNonce, Begins, Locked, TypeOK
  <2>3. \A c \in Devices \ {d} : Begins(c)' <=> Begins(c)
    BY <2>1 DEF Begins
  <2>4. /\ \A c \in Devices : shown[c] \subseteq Nat /\ closed[c] \subseteq Nat
        /\ \A c \in Devices : nonce[c] \in Nat /\ sessions[c] \in Nat
    BY DEF TypeOK, Nonces
  <2>5. Numbered'
    BY <2>1, <2>2, <2>4 DEF Numbered
  <2>6. NotYetShown'
    BY <2>1, <2>2, <2>3, <2>4 DEF NotYetShown, Numbered
  <2>7. StillCurrent'
    BY <2>1, <2>2 DEF StillCurrent
  <2>8. ModeIsOpen'
    BY <2>1, <2>2, <2>3 DEF ModeIsOpen
  <2> QED
    BY <2>5, <2>6, <2>7, <2>8 DEF SessionKeeps
<1>2. ASSUME NEW d \in Devices, BeginStarted(d) PROVE SessionKeeps
  <2>1. \A c \in Devices : Begins(c)' <=> Begins(c)
    BY <1>2 DEF BeginStarted, Begins, TypeOK
  <2>2. UNCHANGED <<mode, nonce, shown, sessions, closed, io, net>>
    BY <1>2 DEF BeginStarted, history
  <2> QED
    BY <2>1, <2>2, SessionKept DEF SessionKeeps
<1>3. ASSUME NEW d \in Devices, BeginMode(d) PROVE SessionKeeps
  <2>1. /\ mode' = [mode EXCEPT ![d] = TRUE]
        /\ shown' = [shown EXCEPT ![d] = @ \union {nonce[d]}]
        /\ UNCHANGED <<nonce, sessions, closed, io, net>>
    BY <1>3 DEF BeginMode, history
  <2>2. Begins(d) /\ ~Begins(d)' /\ \A c \in Devices \ {d} : Begins(c)' <=> Begins(c)
    BY <1>3 DEF BeginMode, Begins, TypeOK, Idle
  <2>3. /\ shown'[d] = shown[d] \union {nonce[d]}
        /\ \A c \in Devices \ {d} : shown'[c] = shown[c]
        /\ mode'[d] /\ \A c \in Devices \ {d} : mode'[c] = mode[c]
    BY <2>1 DEF TypeOK
  <2>4. Numbered'
    BY <2>1, <2>3 DEF Numbered
  <2>5. NotYetShown'
    <3>1. \A m \in net : m.to \in Devices
      BY MessageFields DEF TypeOK
    <3> QED
      BY <2>1, <2>2, <2>3, <3>1 DEF NotYetShown
  <2>6. StillCurrent'
    BY <2>1, <2>3 DEF StillCurrent
  <2>7. ModeIsOpen'
    BY <2>1, <2>2, <2>3 DEF ModeIsOpen, NotYetShown
  <2> QED
    BY <2>4, <2>5, <2>6, <2>7 DEF SessionKeeps
<1>4. ASSUME NEW d \in Devices, CancelPairing(d) PROVE SessionKeeps
  <2>1. /\ closed'[d] = 1 .. sessions[d] /\ ~mode'[d]
        /\ \A c \in Devices \ {d} : UNCHANGED <<closed[c], mode[c]>>
        /\ UNCHANGED <<nonce, shown, sessions, io, ui, net>>
    BY <1>4 DEF CancelPairing, TypeOK, window
  <2>2. ~Begins(d) /\ \A c \in Devices : Begins(c)' <=> Begins(c)
    BY <1>4, <2>1 DEF CancelPairing, Begins, Idle
  <2>3. \A c \in Devices : nonce[c] \in Nat /\ sessions[c] \in Nat
    BY DEF TypeOK
  <2>4. Numbered'
    BY <2>1, <2>3 DEF Numbered
  <2>5. NotYetShown'
    BY <2>1, <2>2 DEF NotYetShown
  <2>6. StillCurrent'
    BY <2>1 DEF StillCurrent
  <2>7. ModeIsOpen'
    BY <2>1, <2>2, <2>3 DEF ModeIsOpen, Numbered
  <2> QED
    BY <2>4, <2>5, <2>6, <2>7 DEF SessionKeeps
<1>5. ASSUME NEW d \in Devices, NEW r \in Devices, NEW n \in Nonces,
             RequestPairing(d, r, n)
      PROVE  SessionKeeps
  <2>1. /\ UNCHANGED <<mode, nonce, shown, sessions, closed, io, ui>>
        /\ net' = net \union {Request(d, r, n)} /\ n \in shown[r]
    BY <1>5 DEF RequestPairing, history
  <2>2. Request(d, r, n).to = r /\ Request(d, r, n).nonce = n
    BY DEF Request
  <2>3. NotYetShown'
    BY <2>1, <2>2 DEF NotYetShown, Begins
  <2> QED
    BY <2>1, <2>3 DEF SessionKeeps, Numbered, StillCurrent, ModeIsOpen, Begins
<1>6. ASSUME NEW d \in Devices, NEW r \in Devices, AcceptTake(d, r)
      PROVE  SessionKeeps
  <2>1. UNCHANGED <<mode, nonce, shown, sessions, closed, io, net>>
    BY <1>6 DEF AcceptTake
  <2>2. ui[d] = Idle
    BY <1>6, ClickIsIdle DEF AcceptTake
  <2>3. ui' = ui \/ ui' = [ui EXCEPT ![d] = [pc |-> "accept", from |-> r]]
    BY <1>6 DEF AcceptTake
  <2>4. \A c \in Devices : Begins(c)' <=> Begins(c)
    <3>1. CASE ui' = ui
      BY <3>1 DEF Begins
    <3>2. CASE ui' = [ui EXCEPT ![d] = [pc |-> "accept", from |-> r]]
      <4>1. ui'[d].pc = "accept"
        BY <3>2 DEF TypeOK
      <4>2. \A c \in Devices \ {d} : ui'[c] = ui[c]
        BY <3>2 DEF TypeOK
      <4>3. ui[d].pc = "idle"
        BY <2>2 DEF Idle
      <4> QED
        BY <4>1, <4>2, <4>3 DEF Begins
    <3> QED
      BY <2>3, <3>1, <3>2
  <2> QED
    BY <2>1, <2>4, SessionKept DEF SessionKeeps
<1>7. ASSUME NEW d \in Devices, AcceptStore(d) PROVE SessionKeeps
  <2>1. UNCHANGED <<mode, nonce, shown, sessions, closed, io>>
    BY <1>7 DEF AcceptStore, history
  <2>2. \A c \in Devices : Begins(c)' <=> Begins(c)
    BY <1>7 DEF AcceptStore, Begins, TypeOK, Idle
  <2>3. \A m \in net' \ net : m.type # "request"
    BY <1>7 DEF AcceptStore, Reply, Response
  <2> QED
    BY <2>1, <2>2, <2>3, SessionKept DEF SessionKeeps
<1>8. ASSUME NEW d \in Devices, NEW r \in Devices, RejectPairing(d, r)
      PROVE  SessionKeeps
  <2>1. UNCHANGED <<mode, nonce, shown, sessions, closed, io, ui>>
    BY <1>8 DEF RejectPairing, history
  <2>2. \A m \in net' \ net : m.type # "request"
    BY <1>8 DEF RejectPairing, Reply, Response
  <2> QED
    BY <2>1, <2>2, SessionKept DEF SessionKeeps, Begins
<1>9. ASSUME NEW d \in Devices, NEW m \in net, HandlePairRequest(d, m)
      PROVE  SessionKeeps
  <2>1. /\ UNCHANGED <<mode, nonce, shown, sessions, closed, ui>>
        /\ net' \subseteq net
    BY <1>9 DEF HandlePairRequest, core, history
  <2>2. CASE io' = io
    BY <2>1, <2>2, SessionKept DEF SessionKeeps, Begins
  <2>3. CASE /\ Expected(d, m.nonce)
             /\ io' = [io EXCEPT ![d] = [pc |-> "commit", from |-> m.from,
                                         nonce |-> m.nonce]]
    <3>1. m.nonce = nonce[d] /\ m.nonce \in shown[d]
      BY <1>9, <2>3 DEF HandlePairRequest, Expected, NotYetShown
    <3>2. StillCurrent'
      BY <2>1, <2>3, <3>1 DEF StillCurrent, TypeOK
    <3> QED
      BY <2>1, <3>2 DEF SessionKeeps, Numbered, NotYetShown, ModeIsOpen, Begins
  <2> QED
    BY <1>9, <2>2, <2>3 DEF HandlePairRequest
<1>10. ASSUME NEW d \in Devices, CommitPairRequest(d) PROVE SessionKeeps
  <2>1. io[d].pc = "commit" /\ io[d].nonce = nonce[d] /\ nonce[d] \in shown[d]
    BY <1>10 DEF CommitPairRequest, StillCurrent
  <2>2. /\ ~mode'[d] /\ closed'[d] = closed[d] \union {nonce[d]}
        /\ io'[d].pc = "surface"
        /\ \A c \in Devices \ {d} : UNCHANGED <<mode[c], closed[c], io[c]>>
        /\ UNCHANGED <<nonce, shown, sessions, ui, net>>
    BY <1>10, <2>1 DEF CommitPairRequest, TypeOK, window
  <2>3. ~Begins(d) /\ \A c \in Devices : Begins(c)' <=> Begins(c)
    BY <2>1, <2>2, CommitOutsideBegin DEF Begins
  <2>4. Numbered'
    BY <2>1, <2>2 DEF Numbered
  <2>5. NotYetShown'
    BY <2>2, <2>3 DEF NotYetShown
  <2>6. StillCurrent'
    BY <2>2 DEF StillCurrent
  <2>7. ModeIsOpen'
    BY <2>2, <2>3 DEF ModeIsOpen
  <2> QED
    BY <2>4, <2>5, <2>6, <2>7 DEF SessionKeeps
<1>11. ASSUME NEW d \in Devices, SurfacePairRequest(d) PROVE SessionKeeps
  <2>1. UNCHANGED <<mode, nonce, shown, sessions, closed, ui, net>>
    BY <1>11 DEF SurfacePairRequest, core, history
  <2>2. \A c \in Devices : io'[c] = io[c] \/ io'[c].pc # "commit"
    BY <1>11 DEF SurfacePairRequest, TypeOK, Idle
  <2> QED
    BY <2>1, <2>2, SessionKept DEF SessionKeeps, Begins
<1>12. ASSUME NEW d \in Devices, Restart(d) PROVE SessionKeeps
  <2>1. /\ ~mode'[d] /\ nonce'[d] = 0 /\ closed'[d] = 1 .. sessions[d]
        /\ io'[d] = Idle /\ ui'[d] = Idle
        /\ \A c \in Devices \ {d} :
             UNCHANGED <<mode[c], nonce[c], closed[c], io[c], ui[c]>>
        /\ UNCHANGED <<shown, sessions>> /\ net' \subseteq net
    BY <1>12 DEF Restart, TypeOK
  <2>2. ~Begins(d)' /\ \A c \in Devices \ {d} : Begins(c)' <=> Begins(c)
    BY <2>1 DEF Begins, Idle
  <2>3. \A c \in Devices : sessions[c] \in Nat
    BY DEF TypeOK
  <2>4. Numbered'
    BY <2>1, <2>3 DEF Numbered
  <2>5. NotYetShown'
    BY <2>1, <2>2 DEF NotYetShown
  <2>6. StillCurrent'
    BY <2>1 DEF StillCurrent, Idle
  <2>7. ModeIsOpen'
    BY <2>1, <2>2 DEF ModeIsOpen
  <2> QED
    BY <2>4, <2>5, <2>6, <2>7 DEF SessionKeeps
<1>13. CASE /\ UNCHANGED <<mode, nonce, shown, sessions, closed, io, ui>>
           /\ net' \subseteq net
  BY <1>13, SessionKept DEF SessionKeeps, Begins
<1> QED
  BY <1>1, <1>2, <1>3, <1>4, <1>5, <1>6, <1>7, <1>8, <1>9, <1>10,
     <1>11, <1>12, <1>13
  DEF Next, UIThread, IOThread, ResponseHandled, Network, RemoveDevice,
      ShowRequest, CloseDialog, HandlePairResponse, Connect, Lose, Disconnect,
      Tick, core, history, vars

-----------------------------------------------------------------------------
(* Theorems *)

LEMMA InitInv == Init => SessionInv /\ ConsentInv
<1> SUFFICES ASSUME Init PROVE SessionInv /\ ConsentInv
  OBVIOUS
<1>1. TypeOK
  BY InitTypes
<1>2. Numbered /\ NotYetShown /\ StillCurrent /\ ModeIsOpen
  BY DEF Init, Numbered, NotYetShown, StillCurrent, ModeIsOpen, Begins, Idle
<1>3. ConsentFirst /\ PairedByConsent
  BY DEF Init, ConsentFirst, PairedByConsent, Idle
<1> QED
  BY <1>1, <1>2, <1>3 DEF SessionInv, ConsentInv

LEMMA SessionInvariant == Spec => []SessionInv
<1>1. Init => SessionInv
  BY InitInv
<1>2. SessionInv /\ [Next]_vars => SessionInv'
  BY TypeStep, SessionStep DEF SessionInv, SessionKeeps
<1> QED
  BY <1>1, <1>2, PTL DEF Spec

\* Types: for any number of devices and sessions the variables keep their types.
THEOREM TypeCorrect == Spec => []TypeOK
<1>1. SessionInv => TypeOK
  BY DEF SessionInv
<1> QED
  BY <1>1, SessionInvariant, PTL

\* Consent: whatever is lost, late, answered twice, cancelled or restarted, two
\* devices are paired only if a user of one of the two accepted the other.
THEOREM ConsentCorrect == Spec => []PairedByConsent
<1>1. Init => ConsentInv
  BY InitInv
<1>2. SessionInv /\ ConsentInv /\ [Next]_vars => ConsentInv'
  BY TypeStep, ConsentStep DEF SessionInv, ConsentInv
<1>3. ConsentInv => PairedByConsent
  BY DEF ConsentInv
<1> QED
  BY <1>1, <1>2, <1>3, SessionInvariant, PTL DEF Spec

\* A session that nobody used or cancelled is open once begin_pairing is over: the
\* I/O thread's one-shot store never ends the session after the one it serves.
THEOREM SessionsAreKept == Spec => []SessionNotLost
<1>1. SessionInv => SessionNotLost
  BY DEF SessionInv, SessionNotLost, ModeIsOpen, Begins, Idle
<1> QED
  BY <1>1, SessionInvariant, PTL

\* What one step may let in.
OpenStep ==
  \A d \in Devices :
    (io'[d].pc = "commit" /\ io[d].pc # "commit") =>
      /\ io'[d].nonce \notin closed[d]
      /\ now - started[d] <= PairingTtl

LEMMA StepIsOpen == SessionInv /\ [Next]_vars => OpenStep
<1> SUFFICES ASSUME SessionInv, [Next]_vars, NEW d \in Devices,
                    io'[d].pc = "commit", io[d].pc # "commit"
             PROVE  /\ io'[d].nonce \notin closed[d]
                    /\ now - started[d] <= PairingTtl
  BY DEF OpenStep
<1> USE DEF SessionInv
<1>1. PICK c \in Devices : \E m \in net : HandlePairRequest(c, m)
  <2>1. ASSUME NEW c \in Devices, CommitPairRequest(c) PROVE FALSE
    BY <2>1 DEF CommitPairRequest, TypeOK
  <2>2. ASSUME NEW c \in Devices, SurfacePairRequest(c) PROVE FALSE
    BY <2>2 DEF SurfacePairRequest, TypeOK, Idle
  <2>3. ASSUME NEW c \in Devices, Restart(c) PROVE FALSE
    BY <2>3 DEF Restart, TypeOK, Idle
  <2>4. io' # io
    OBVIOUS
  <2> QED
    BY ZenonT(30), <2>1, <2>2, <2>3, <2>4
    DEF Next, UIThread, IOThread, ResponseHandled, Network,
       BeginNonce, BeginStarted, BeginMode, CancelPairing, RequestPairing, AcceptTake,
       AcceptStore, RejectPairing, ShowRequest, CloseDialog, RemoveDevice,
       HandlePairResponse, Connect, Lose, Disconnect, Tick, vars
<1>2. PICK m \in net : HandlePairRequest(c, m)
  BY <1>1
<1>3. c = d /\ Expected(d, m.nonce) /\ io'[d].nonce = m.nonce
  BY SMTT(15), <1>2 DEF HandlePairRequest, TypeOK
<1>4. m.nonce \in shown[d]
  BY <1>2, <1>3 DEF HandlePairRequest, NotYetShown
<1>5. ~Begins(d)
  BY <1>3, <1>4 DEF Expected, NotYetShown
<1> QED
  BY <1>3, <1>5 DEF Expected, ModeIsOpen

\* One session, one request: a request gets through only while the session of its
\* QR code is open: not used, cancelled, superseded or expired.
THEOREM OnlyOpenSessions == Spec => OnlyOpenSession
<1>1. SessionInv /\ [Next]_vars => [OpenStep]_vars
  BY StepIsOpen
<1>2. Spec => [][OpenStep]_vars
  BY <1>1, SessionInvariant, PTL DEF Spec
<1> QED
  BY <1>2 DEF OnlyOpenSession, OpenStep

-----------------------------------------------------------------------------
(* The dialog *)

\* A request of d's session is in, or may come in.
Opening(d) == mode[d] \/ Begins(d) \/ io[d].pc = "commit"

\* Where every dialog is answered before the next session begins, d serves one
\* request at a time.  It is on its way to the window behind everything else that is
\* posted, or it is in the dialog and nothing is posted: an answer that would close the
\* dialog comes before the request or after it is taken.
OneAtATime(d) ==
  /\ Opening(d) => pending[d] = {} /\ dialog[d] = {}
  /\ io[d].pc = "surface" => pending[d] = {io[d].from} /\ dialog[d] = {}
  /\ \A i \in DOMAIN posted[d] :
       posted[d][i].is = "request" =>
         /\ i = Len(posted[d])
         /\ pending[d] = {posted[d][i].from}
         /\ dialog[d] = {}
         /\ io[d].pc # "surface"
  /\ (dialog[d] # {} /\ pending[d] # {}) =>
       /\ posted[d] = <<>>
       /\ dialog[d] = pending[d]
       /\ \E r \in Devices : pending[d] = {r}
  /\ ui[d].pc = "accept" => dialog[d] # {} /\ pending[d] = {}
  /\ pending[d] # {} =>
       \/ io[d].pc = "surface"
       \/ \E i \in DOMAIN posted[d] : posted[d][i].is = "request"
       \/ dialog[d] # {}

DialogInv == \A d \in Devices \ hasty : OneAtATime(d)

\* The queue of the window's loop.
LEMMA PostedFirst ==
  ASSUME NEW S, NEW s \in Seq(S), s # <<>>
  PROVE  /\ Len(s) \in Nat \ {0} /\ Head(s) = s[1] /\ DOMAIN s = 1 .. Len(s)
         /\ DOMAIN Tail(s) = 1 .. (Len(s) - 1) /\ Len(Tail(s)) = Len(s) - 1
         /\ \A i \in 1 .. (Len(s) - 1) : Tail(s)[i] = s[i + 1]
         /\ Len(s) = 1 => Tail(s) = <<>>
OBVIOUS

LEMMA PostedLast ==
  ASSUME NEW S, NEW s \in Seq(S), NEW e \in S
  PROVE  /\ DOMAIN s = 1 .. Len(s) /\ Len(s) \in Nat
         /\ DOMAIN Append(s, e) = 1 .. (Len(s) + 1) /\ Len(Append(s, e)) = Len(s) + 1
         /\ Append(s, e)[Len(s) + 1] = e
         /\ \A i \in 1 .. Len(s) : Append(s, e)[i] = s[i]
OBVIOUS

\* A step that touches none of it.
LEMMA Untouched ==
  ASSUME NEW d, OneAtATime(d), Opening(d)' => Opening(d),
         ui'[d] = ui[d] \/ ui'[d].pc # "accept",
         io'[d] = io[d] \/ (io[d].pc # "surface" /\ io'[d].pc # "surface"),
         UNCHANGED <<pending[d], dialog[d], posted[d]>>
  PROVE  OneAtATime(d)'
BY DEF OneAtATime

\* A click on a request that is no longer pending, or was taken, posts an answer.
LEMMA AnswerPosted ==
  ASSUME TypeOK, NEW d \in Devices, OneAtATime(d), Post(d, Answered),
         dialog[d] # {}, pending'[d] = {},
         UNCHANGED <<mode[d], io[d], dialog[d]>>,
         ui'[d] = ui[d] \/ ui'[d] = Idle
  PROVE  OneAtATime(d)'
<1>1. /\ posted'[d] = Append(posted[d], Answered)
      /\ posted[d] \in Seq(Events) /\ Answered \in Events
  BY DEF Post, TypeOK, Events
<1>2. \A i \in DOMAIN posted[d] : posted[d][i].is # "request"
  BY DEF OneAtATime
<1>3. Answered.is # "request"
  BY DEF Answered
<1>4. \A i \in DOMAIN posted'[d] : posted'[d][i].is # "request"
  BY <1>1, <1>2, <1>3, PostedLast
<1>5. ~Opening(d)'
  BY DEF OneAtATime, Opening, Begins, Idle
<1> QED
  BY <1>4, <1>5 DEF OneAtATime, Idle

LEMMA DialogStep == SessionInv /\ DialogInv /\ [Next]_vars => DialogInv'
<1> SUFFICES ASSUME SessionInv, DialogInv, [Next]_vars, NEW d \in Devices \ hasty'
             PROVE  OneAtATime(d)'
  BY DEF DialogInv
<1>0. TypeOK
  BY DEF SessionInv
<1>a. d \in Devices \ hasty /\ OneAtATime(d)
  <2>1. hasty \subseteq hasty'
    BY ZenonT(30)
    DEF Next, UIThread, IOThread, ResponseHandled, Network, BeginNonce, BeginStarted,
       BeginMode, CancelPairing, RequestPairing, AcceptTake, AcceptStore, RejectPairing,
       ShowRequest, CloseDialog, RemoveDevice, HandlePairRequest, CommitPairRequest,
       SurfacePairRequest, HandlePairResponse, Restart, Connect, Lose, Disconnect, Tick,
       vars, history
  <2> QED
    BY <2>1 DEF DialogInv
<1>b. posted[d] \in Seq(Events) /\ DOMAIN posted[d] = 1 .. Len(posted[d])
  BY <1>0, <1>a DEF TypeOK
<1>1. ASSUME NEW c \in Devices, BeginNonce(c) PROVE OneAtATime(d)'
  <2>1. CASE c = d
    <3>1. pending[d] = {} /\ dialog[d] = {}
      BY <1>1, <2>1 DEF BeginNonce
    <3>2. ui'[d].pc # "accept" /\ UNCHANGED <<mode, io, pending, posted, dialog>>
      BY <1>0, <1>1, <2>1 DEF BeginNonce, TypeOK, window
    <3> QED
      BY <1>a, <3>1, <3>2 DEF OneAtATime
  <2>2. CASE c # d
    BY <1>0, <1>1, <1>a, <2>2, Untouched DEF BeginNonce, TypeOK, window, Opening, Begins
  <2> QED
    BY <2>1, <2>2
<1>2. ASSUME NEW c \in Devices, BeginStarted(c) PROVE OneAtATime(d)'
  <2>1. ui'[d].pc # "accept" \/ ui'[d] = ui[d]
    BY <1>0, <1>2, <1>a DEF BeginStarted, TypeOK
  <2>2. Begins(d)' => Begins(d)
    BY <1>0, <1>2, <1>a DEF BeginStarted, TypeOK, Begins
  <2> QED
    BY <1>2, <1>a, <2>1, <2>2, Untouched DEF BeginStarted, window, Opening
<1>3. ASSUME NEW c \in Devices, BeginMode(c) PROVE OneAtATime(d)'
  <2>1. ui'[d].pc # "accept" \/ ui'[d] = ui[d]
    BY <1>0, <1>3, <1>a DEF BeginMode, TypeOK, Idle
  <2>2. Opening(d)' => Opening(d)
    BY <1>0, <1>3, <1>a DEF BeginMode, TypeOK, Opening, Begins, Idle
  <2> QED
    BY <1>3, <1>a, <2>1, <2>2, Untouched DEF BeginMode, window
<1>4. ASSUME NEW c \in Devices, CancelPairing(c) PROVE OneAtATime(d)'
  <2>1. Opening(d)' => Opening(d)
    BY <1>0, <1>4, <1>a DEF CancelPairing, TypeOK, Opening, Begins
  <2> QED
    BY <1>4, <1>a, <2>1, Untouched DEF CancelPairing, window
<1>5. ASSUME NEW c \in Devices, NEW r \in Devices, AcceptTake(c, r)
      PROVE  OneAtATime(d)'
  <2>1. ui[c].pc = "idle" /\ r \in dialog[c]
    BY <1>5, ClickIsIdle DEF AcceptTake, Idle
  <2>2. CASE c = d /\ r \in pending[d]
    <3>1. pending[d] = {r} /\ dialog[d] = {r} /\ posted[d] = <<>>
      BY <1>a, <2>1, <2>2 DEF OneAtATime
    <3>2. /\ pending'[d] = {} /\ ui'[d].pc = "accept"
          /\ UNCHANGED <<mode, io, posted, dialog>>
      BY <1>0, <1>5, <2>2, <3>1 DEF AcceptTake, TypeOK
    <3>3. ~Opening(d)'
      BY <1>a, <3>1, <3>2 DEF OneAtATime, Opening, Begins
    <3>4. io[d].pc # "surface"
      BY <1>a, <3>1 DEF OneAtATime
    <3> QED
      BY <3>1, <3>2, <3>3, <3>4 DEF OneAtATime
  <2>3. CASE c = d /\ r \notin pending[d]
    <3>1. pending[d] = {} /\ dialog[d] # {}
      BY <1>a, <2>1, <2>3 DEF OneAtATime
    <3> QED
      BY <1>0, <1>5, <1>a, <2>3, <3>1, AnswerPosted DEF AcceptTake
  <2>4. CASE c # d
    <3>1. UNCHANGED <<ui[d], pending[d], posted[d], mode, io, dialog>>
      BY SMTT(15), <1>0, <1>5, <1>a, <2>4 DEF AcceptTake, TypeOK, Post
    <3> QED
      BY <1>a, <3>1, Untouched DEF Opening, Begins
  <2> QED
    BY <2>2, <2>3, <2>4
<1>6. ASSUME NEW c \in Devices, AcceptStore(c) PROVE OneAtATime(d)'
  <2>1. CASE c = d
    <3>1. pending[d] = {} /\ dialog[d] # {}
      BY <1>6, <1>a, <2>1 DEF AcceptStore, OneAtATime
    <3>2. ui'[d] = Idle
      BY <1>0, <1>6, <2>1 DEF AcceptStore, TypeOK
    <3> QED
      BY <1>0, <1>6, <1>a, <2>1, <3>1, <3>2, AnswerPosted DEF AcceptStore
  <2>2. CASE c # d
    <3>1. UNCHANGED <<ui[d], posted[d], pending, mode, io, dialog>>
      BY <1>0, <1>6, <1>a, <2>2 DEF AcceptStore, TypeOK, Post
    <3> QED
      BY <1>a, <3>1, Untouched DEF Opening, Begins
  <2> QED
    BY <2>1, <2>2
<1>7. ASSUME NEW c \in Devices, NEW r \in Devices, RejectPairing(c, r)
      PROVE  OneAtATime(d)'
  <2>1. r \in dialog[c]
    BY <1>7, ClickIsIdle DEF RejectPairing
  <2>2. CASE c = d
    <3>1. dialog[d] # {} /\ (pending[d] # {} => pending[d] = {r})
      BY <1>a, <2>1, <2>2 DEF OneAtATime
    <3>2. pending'[d] = {}
      <4>1. CASE r \in pending[d]
        BY SMTT(15), <1>0, <1>7, <2>2, <3>1, <4>1 DEF RejectPairing, TypeOK
      <4>2. CASE r \notin pending[d]
        BY <1>7, <2>2, <3>1, <4>2 DEF RejectPairing
      <4> QED
        BY <4>1, <4>2
    <3> QED
      BY <1>0, <1>7, <1>a, <2>2, <3>1, <3>2, AnswerPosted DEF RejectPairing
  <2>3. CASE c # d
    <3>1. UNCHANGED <<pending[d], posted[d], ui, mode, io, dialog>>
      BY <1>0, <1>7, <1>a, <2>3 DEF RejectPairing, TypeOK, Post
    <3> QED
      BY <1>a, <3>1, Untouched DEF Opening, Begins
  <2> QED
    BY <2>2, <2>3
<1>8. ASSUME NEW c \in Devices, ShowRequest(c) PROVE OneAtATime(d)'
  <2>1. CASE c = d
    <3> DEFINE r == Head(posted[d]).from
    <3>1. /\ posted[d] # <<>> /\ Head(posted[d]).is = "request" /\ ui[d].pc = "idle"
          /\ posted'[d] = Tail(posted[d]) /\ dialog'[d] = {r}
          /\ UNCHANGED <<mode, io, ui, pending>>
      BY <1>0, <1>8, <2>1 DEF ShowRequest, Handles, TypeOK, Idle, core
    <3>2. 1 \in DOMAIN posted[d] /\ Head(posted[d]) = posted[d][1]
      BY <1>b, <3>1
    <3>3. Len(posted[d]) = 1 /\ pending[d] = {r} /\ io[d].pc # "surface"
      BY <1>a, <3>1, <3>2 DEF OneAtATime
    <3>4. posted'[d] = <<>>
      BY <1>b, <3>1, <3>3, PostedFirst
    <3>5. r \in Devices
      BY <1>0, <3>3 DEF TypeOK
    <3>6. ~Opening(d)'
      BY <1>a, <3>1, <3>3 DEF OneAtATime, Opening, Begins
    <3>7. DOMAIN posted'[d] = {}
      BY <3>4
    <3> HIDE DEF r
    <3> QED
      BY <3>1, <3>3, <3>4, <3>5, <3>6, <3>7 DEF OneAtATime
  <2>2. CASE c # d
    <3>1. UNCHANGED <<posted[d], dialog[d], pending, ui, mode, io>>
      BY <1>0, <1>8, <1>a, <2>2 DEF ShowRequest, Handles, TypeOK, core
    <3> QED
      BY <1>a, <3>1, Untouched DEF Opening, Begins
  <2> QED
    BY <2>1, <2>2
<1>9. ASSUME NEW c \in Devices, CloseDialog(c) PROVE OneAtATime(d)'
  <2>1. CASE c = d
    <3>1. /\ posted[d] # <<>> /\ Head(posted[d]).is = "answered" /\ ui[d].pc = "idle"
          /\ posted'[d] = Tail(posted[d]) /\ dialog'[d] = {}
          /\ UNCHANGED <<mode, io, ui, pending>>
      BY <1>0, <1>9, <2>1 DEF CloseDialog, Handles, TypeOK, Idle, core
    <3>2. pending[d] # {} => dialog[d] = {}
      BY <1>a, <3>1 DEF OneAtATime
    <3>3. /\ Head(posted[d]) = posted[d][1] /\ Len(posted[d]) \in Nat
          /\ DOMAIN posted'[d] = 1 .. (Len(posted[d]) - 1)
          /\ Len(posted'[d]) = Len(posted[d]) - 1
          /\ \A i \in 1 .. (Len(posted[d]) - 1) : posted'[d][i] = posted[d][i + 1]
      BY <1>b, <3>1, PostedFirst
    <3>4. ASSUME NEW i \in DOMAIN posted'[d], posted'[d][i].is = "request"
          PROVE  /\ i = Len(posted'[d]) /\ pending[d] = {posted'[d][i].from}
                 /\ io[d].pc # "surface"
      <4>1. i + 1 \in DOMAIN posted[d] /\ posted'[d][i] = posted[d][i + 1]
        BY <1>b, <3>3
      <4>2. i + 1 = Len(posted[d]) /\ pending[d] = {posted[d][i + 1].from}
            /\ io[d].pc # "surface"
        BY <1>a, <3>4, <4>1 DEF OneAtATime
      <4> QED
        BY <3>3, <4>1, <4>2
    <3>5. ASSUME NEW i \in DOMAIN posted[d], posted[d][i].is = "request"
          PROVE  \E j \in DOMAIN posted'[d] : posted'[d][j].is = "request"
      <4>1. i # 1
        BY <3>1, <3>3, <3>5
      <4>2. i - 1 \in 1 .. (Len(posted[d]) - 1) /\ (i - 1) + 1 = i
        BY <1>b, <3>3, <4>1
      <4>3. posted'[d][i - 1] = posted[d][i]
        BY <3>3, <4>2
      <4> QED
        BY <3>3, <3>5, <4>2, <4>3
    <3>6. Opening(d)' => pending[d] = {}
      BY <1>a, <3>1 DEF OneAtATime, Opening, Begins
    <3>7. io[d].pc = "surface" => pending[d] = {io[d].from}
      BY <1>a DEF OneAtATime
    <3>8. pending[d] # {} =>
            \/ io[d].pc = "surface"
            \/ \E i \in DOMAIN posted'[d] : posted'[d][i].is = "request"
      BY <1>a, <3>2, <3>5 DEF OneAtATime
    <3> QED
      BY <3>1, <3>4, <3>6, <3>7, <3>8 DEF OneAtATime
  <2>2. CASE c # d
    <3>1. UNCHANGED <<posted[d], dialog[d], pending, ui, mode, io>>
      BY <1>0, <1>9, <1>a, <2>2 DEF CloseDialog, Handles, TypeOK, core
    <3> QED
      BY <1>a, <3>1, Untouched DEF Opening, Begins
  <2> QED
    BY <2>1, <2>2
<1>10. ASSUME NEW c \in Devices, NEW m \in net, HandlePairRequest(c, m)
       PROVE  OneAtATime(d)'
  <2>1. UNCHANGED <<mode, ui, pending, posted, dialog>>
    BY <1>10 DEF HandlePairRequest, core, window
  <2>2. CASE io' = io
    BY <1>a, <2>1, <2>2, Untouched DEF Opening, Begins
  <2>3. CASE /\ Expected(c, m.nonce)
             /\ io' = [io EXCEPT ![c] = [pc |-> "commit", from |-> m.from,
                                         nonce |-> m.nonce]]
    <3>1. CASE c = d
      <4>1. mode[d] /\ io[d].pc = "idle" /\ io'[d].pc = "commit"
        BY <1>0, <1>10, <1>a, <2>3, <3>1 DEF HandlePairRequest, Expected, TypeOK, Idle
      <4> QED
        BY <1>a, <2>1, <4>1, Untouched DEF Opening
    <3>2. CASE c # d
      BY <1>0, <1>a, <2>1, <2>3, <3>2, Untouched DEF TypeOK, Opening, Begins
    <3> QED
      BY <3>1, <3>2
  <2> QED
    BY <1>10, <2>2, <2>3 DEF HandlePairRequest
<1>11. ASSUME NEW c \in Devices, CommitPairRequest(c) PROVE OneAtATime(d)'
  <2>1. CASE c = d
    <3>1. io[d].pc = "commit" /\ ~Begins(d)
      BY <1>11, <2>1, CommitOutsideBegin DEF CommitPairRequest
    <3>2. pending[d] = {} /\ dialog[d] = {}
      BY <1>a, <3>1 DEF OneAtATime, Opening
    <3>3. \A i \in DOMAIN posted[d] : posted[d][i].is # "request"
      BY <1>a, <3>2 DEF OneAtATime
    <3>4. ui[d].pc # "accept"
      BY <1>a, <3>2 DEF OneAtATime
    <3>5. /\ pending'[d] = {io'[d].from} /\ io'[d].pc = "surface" /\ ~mode'[d]
          /\ UNCHANGED <<ui, posted, dialog>>
      <4>1. io[d] = [pc |-> "commit", from |-> io[d].from, nonce |-> io[d].nonce]
        BY <1>0, <1>a, <3>1, StateFields DEF TypeOK
      <4>2. io'[d] = [io[d] EXCEPT !.pc = "surface"]
        BY <1>0, <1>11, <2>1 DEF CommitPairRequest, TypeOK
      <4>3. io'[d].pc = "surface" /\ io'[d].from = io[d].from
        BY <4>1, <4>2
      <4>4. pending'[d] = {io[d].from} /\ ~mode'[d]
        BY <1>0, <1>11, <2>1, <3>2 DEF CommitPairRequest, TypeOK
      <4> QED
        BY <1>11, <4>3, <4>4 DEF CommitPairRequest, window
    <3>6. ~Opening(d)'
      BY <3>1, <3>5 DEF Opening, Begins
    <3> QED
      BY <3>2, <3>3, <3>4, <3>5, <3>6 DEF OneAtATime
  <2>2. CASE c # d
    <3>1. UNCHANGED <<mode[d], io[d], pending[d], ui, posted, dialog>>
      BY <1>0, <1>11, <1>a, <2>2 DEF CommitPairRequest, TypeOK, window
    <3> QED
      BY <1>a, <3>1, Untouched DEF Opening, Begins
  <2> QED
    BY <2>1, <2>2
<1>12. ASSUME NEW c \in Devices, SurfacePairRequest(c) PROVE OneAtATime(d)'
  <2>1. CASE c = d
    <3> DEFINE e == Surfaced(io[d].from)
    <3>1. /\ io[d].pc = "surface" /\ io'[d].pc = "idle"
          /\ posted'[d] = Append(posted[d], e)
          /\ UNCHANGED <<mode, pending, ui, dialog>>
      BY <1>0, <1>12, <2>1 DEF SurfacePairRequest, Post, TypeOK, Idle, core
    <3>2. pending[d] = {io[d].from} /\ dialog[d] = {}
      BY <1>a, <3>1 DEF OneAtATime
    <3>3. e.is = "request" /\ e.from = io[d].from
      BY DEF Surfaced
    <3>4. e \in Events
      BY <1>0, <1>a, <3>1, StateFields DEF TypeOK, Surfaced, Events
    <3>5. \A i \in DOMAIN posted[d] : posted[d][i].is # "request"
      BY <1>a, <3>1 DEF OneAtATime
    <3> HIDE DEF e
    <3>6. /\ DOMAIN posted'[d] = 1 .. (Len(posted[d]) + 1) /\ Len(posted[d]) \in Nat
          /\ Len(posted'[d]) = Len(posted[d]) + 1
          /\ posted'[d][Len(posted[d]) + 1] = e
          /\ \A i \in 1 .. Len(posted[d]) : posted'[d][i] = posted[d][i]
      BY <1>b, <3>1, <3>4, PostedLast
    <3>7. \A i \in DOMAIN posted'[d] :
            posted'[d][i].is = "request" =>
              i = Len(posted'[d]) /\ posted'[d][i].from = io[d].from
      BY <1>b, <3>3, <3>5, <3>6
    <3>8. \E i \in DOMAIN posted'[d] : posted'[d][i].is = "request"
      <4>1. Len(posted[d]) + 1 \in DOMAIN posted'[d]
        BY <3>6
      <4> QED
        BY <3>3, <3>6, <4>1
    <3>9. ~Opening(d)'
      BY <1>a, <3>1, <3>2 DEF OneAtATime, Opening, Begins
    <3>10. ui[d].pc # "accept"
      BY <1>a, <3>2 DEF OneAtATime
    <3> QED
      BY <3>1, <3>2, <3>7, <3>8, <3>9, <3>10 DEF OneAtATime
  <2>2. CASE c # d
    <3>1. UNCHANGED <<io[d], posted[d], mode, pending, ui, dialog>>
      BY <1>0, <1>12, <1>a, <2>2 DEF SurfacePairRequest, TypeOK, Post, core
    <3> QED
      BY <1>a, <3>1, Untouched DEF Opening, Begins
  <2> QED
    BY <2>1, <2>2
<1>13. ASSUME NEW c \in Devices, Restart(c) PROVE OneAtATime(d)'
  <2>1. CASE c = d
    <3>1. /\ ~mode'[d] /\ pending'[d] = {} /\ io'[d].pc = "idle" /\ ui'[d].pc = "idle"
          /\ posted'[d] = <<>> /\ dialog'[d] = {}
      BY <1>0, <1>13, <2>1 DEF Restart, TypeOK, Idle
    <3>2. DOMAIN posted'[d] = {}
      BY <3>1
    <3> QED
      BY <3>1, <3>2 DEF OneAtATime
  <2>2. CASE c # d
    <3>1. UNCHANGED <<mode[d], pending[d], io[d], ui[d], posted[d], dialog[d]>>
      BY <1>0, <1>13, <1>a, <2>2 DEF Restart, TypeOK
    <3> QED
      BY <1>a, <3>1, Untouched DEF Opening, Begins
  <2> QED
    BY <2>1, <2>2
<1>14. CASE UNCHANGED <<mode, pending, io, ui, window>>
  BY <1>14, <1>a, Untouched DEF Opening, Begins, window
<1> QED
  BY <1>1, <1>2, <1>3, <1>4, <1>5, <1>6, <1>7, <1>8, <1>9, <1>10, <1>11, <1>12, <1>13,
     <1>14
  DEF Next, UIThread, IOThread, ResponseHandled, Network, RequestPairing,
      RemoveDevice, HandlePairResponse, Connect, Lose, Disconnect, Tick, core, window,
      vars

\* No request waits unseen where every dialog is answered before the next session
\* begins, however the clicks, the answers of the bridge and the requests alternate.
THEOREM PendingAreVisible == Spec => []PendingIsVisible
<1>1. Init => DialogInv
  BY DEF Init, DialogInv, OneAtATime, Opening, Begins, Idle
<1>2. SessionInv /\ DialogInv /\ [Next]_vars => DialogInv'
  BY DialogStep
<1>3. SessionInv /\ DialogInv => PendingIsVisible
  <2> SUFFICES ASSUME SessionInv, NEW d \in Devices \ hasty, OneAtATime(d),
                      NEW r \in pending[d]
               PROVE  Visible(d, r)
    BY DEF DialogInv, PendingIsVisible
  <2>1. CASE io[d].pc = "surface"
    BY <2>1 DEF OneAtATime, Visible
  <2>2. ASSUME NEW i \in DOMAIN posted[d], posted[d][i].is = "request"
        PROVE  Visible(d, r)
    <3>1. posted[d][i].from = r
      BY <2>2 DEF OneAtATime
    <3>2. posted[d][i] \in Events
      BY DEF SessionInv, TypeOK
    <3>3. posted[d][i] = Surfaced(r)
      BY <2>2, <3>1, <3>2 DEF Events, Surfaced, Answered
    <3> QED
      BY <3>3 DEF Visible
  <2>3. CASE dialog[d] # {}
    BY <2>3 DEF OneAtATime, Visible
  <2> QED
    BY <2>1, <2>2, <2>3 DEF OneAtATime
<1> QED
  BY <1>1, <1>2, <1>3, SessionInvariant, PTL DEF Spec
=============================================================================

------------------------------- MODULE Pairing -------------------------------
(***************************************************************************)
(* The pairing handshake of CoreImpl (core/src/core.cpp).  One device      *)
(* displays a QR code with a nonce (begin_pairing); another scans it and   *)
(* sends a PairRequest (request_pairing); the displaying side's user is    *)
(* asked and answers (accept_pairing, reject_pairing); a PairResponse      *)
(* tells the requester.  Every device can play both parts.                 *)
(*                                                                         *)
(* Each device has an I/O thread, which runs the message handlers, and a   *)
(* UI thread.  pairing_mode_active_ is an atomic that both write, and      *)
(* pairing_started_at_ms_ a plain field: only the nonce and the maps are   *)
(* under state_mutex_.                                                     *)
(*                                                                         *)
(* The user interface is the desktop's (src/ui/app.js with Bridge): only a *)
(* desktop displays a QR code.  Requests for it, and the answers of the    *)
(* bridge to its calls, are posted to the window's loop and handled in the *)
(* order they were posted.  Its dialog keeps one request.                  *)
(*                                                                         *)
(* A device is its uuid and its CURVE key at once.                         *)
(***************************************************************************)
EXTENDS Integers, FiniteSets, Sequences

CONSTANTS
  Devices,
  Displayers,   \* devices whose user opens the pairing screen
  Removers,     \* devices whose user removes paired devices
  PairingTtl,   \* kPairingTtlMs, in ticks
  MaxSessions,  \* bound on calls of begin_pairing, per device
  MaxClicks,    \* bound on clicks in the dialog before the first is answered
  MaxNow,       \* bound on the clock
  MaxFaults     \* bound on lost messages, broken connections and restarts

ASSUME PairingAssumption ==
  /\ Displayers \subseteq Devices
  /\ Removers \subseteq Devices
  /\ PairingTtl \in Nat
  /\ MaxSessions \in Nat
  /\ MaxClicks \in Nat
  /\ MaxNow \in Nat
  /\ MaxFaults \in Nat

VARIABLES
  mode,      \* pairing_mode_active_
  started,   \* pairing_started_at_ms_
  nonce,     \* current_pairing_nonce_ (0: none yet)
  pending,   \* requesters in pending_pairings_
  outgoing,  \* peers in outgoing_pairing_endpoints_
  store,     \* devices in device_store_
  io,        \* the I/O thread inside handle_pair_request
  ui,        \* the UI thread inside begin_pairing or accept_pairing
  posted,    \* what waits at the window's loop of d
  dialog,    \* pendingPairingRequest, as a set of one or none
  shown,     \* nonces of the QR codes displayed so far
  conn,      \* <<r, d>>: r's DEALER is connected to d's ROUTER
  net,       \* messages on their way
  now,
  faults,
  sessions,  \* nonces handed out so far (a nonce is the number of its session)
  closed,    \* history: sessions that were used, cancelled or superseded
  consents,  \* history: <<d, r>>: d's user accepted r
  hasty      \* history: devices that began a session with a dialog to answer

window == <<posted, dialog>>
core == <<mode, started, nonce, pending, outgoing, store>>
history == <<sessions, closed, consents, hasty>>
vars == <<mode, started, nonce, pending, outgoing, store, io, ui, posted,
          dialog, shown, conn, net, now, faults, sessions, closed, consents,
          hasty>>

Nonces == 1 .. MaxSessions
\* Mutant: the request does not carry the scanned nonce.
RequestWithoutNonce(r, d, n) ==
  [type |-> "request", from |-> r, to |-> d, nonce |-> 0]
Request(r, d, n) == [type |-> "request", from |-> r, to |-> d, nonce |-> n]
Response(d, r, ok) == [type |-> "response", from |-> d, to |-> r, accepted |-> ok]
Messages ==
  [type : {"request"}, from : Devices, to : Devices, nonce : Nonces]
    \union [type : {"response"}, from : Devices, to : Devices,
            accepted : BOOLEAN]

Idle == [pc |-> "idle"]
\* "commit" holds state_mutex_; "surface" is about to call on_pairing_request_.
IOStates == {Idle} \union [pc : {"commit", "surface"}, from : Devices,
                           nonce : Nonces]
UIStates == {Idle, [pc |-> "nonce_set"], [pc |-> "started"]}
              \union [pc : {"accept"}, from : Devices]

\* onPairingRequest(r), and the answer to a call of the dialog's buttons.
Surfaced(r) == [is |-> "request", from |-> r]
Answered == [is |-> "answered"]
Events == {Answered} \union [is : {"request"}, from : Devices]

Init ==
  /\ mode = [d \in Devices |-> FALSE]
  /\ started = [d \in Devices |-> 0]
  /\ nonce = [d \in Devices |-> 0]
  /\ pending = [d \in Devices |-> {}]
  /\ outgoing = [d \in Devices |-> {}]
  /\ store = [d \in Devices |-> {}]
  /\ io = [d \in Devices |-> Idle]
  /\ ui = [d \in Devices |-> Idle]
  /\ posted = [d \in Devices |-> <<>>]
  /\ dialog = [d \in Devices |-> {}]
  /\ shown = [d \in Devices |-> {}]
  /\ conn = {}
  /\ net = {}
  /\ now = 0
  /\ faults = 0
  /\ sessions = [d \in Devices |-> 0]
  /\ closed = [d \in Devices |-> {}]
  /\ consents = {}
  /\ hasty = {}

\* Mutant: state_mutex_ is not taken.
Unlocked(d) == FALSE

\* The I/O thread of d holds state_mutex_.
Locked(d) == io[d].pc = "commit"

-----------------------------------------------------------------------------
(* begin_pairing and cancel_pairing, on the UI thread of d *)

\* A fresh nonce, under the lock.
BeginNonce(d) ==
  /\ d \in Displayers
  /\ ui[d] = Idle
  /\ ~Locked(d)
  /\ sessions[d] < MaxSessions
  /\ sessions' = [sessions EXCEPT ![d] = @ + 1]
  /\ nonce' = [nonce EXCEPT ![d] = sessions[d] + 1]
  /\ closed' = [closed EXCEPT ![d] = 1 .. sessions[d]]
  /\ ui' = [ui EXCEPT ![d] = [pc |-> "nonce_set"]]
  /\ hasty' = IF pending[d] # {} \/ dialog[d] # {} THEN hasty \union {d} ELSE hasty
  /\ UNCHANGED <<mode, started, pending, outgoing, store, io, window, shown,
                 conn, net, now, faults, consents>>

\* The start time, without the lock.
BeginStarted(d) ==
  /\ ui[d].pc = "nonce_set"
  /\ started' = [started EXCEPT ![d] = now]
  /\ ui' = [ui EXCEPT ![d] = [pc |-> "started"]]
  /\ UNCHANGED <<mode, nonce, pending, outgoing, store, io, window, shown,
                 conn, net, now, faults, history>>

\* Pairing mode, without the lock; then the QR code is displayed.
BeginMode(d) ==
  /\ ui[d].pc = "started"
  /\ mode' = [mode EXCEPT ![d] = TRUE]
  /\ shown' = [shown EXCEPT ![d] = @ \union {nonce[d]}]
  /\ ui' = [ui EXCEPT ![d] = Idle]
  /\ UNCHANGED <<started, nonce, pending, outgoing, store, io, window,
                 conn, net, now, faults, history>>

CancelPairing(d) ==
  /\ ui[d] = Idle
  /\ mode' = [mode EXCEPT ![d] = FALSE]
  /\ closed' = [closed EXCEPT ![d] = 1 .. sessions[d]]
  /\ UNCHANGED <<started, nonce, pending, outgoing, store, io, ui, window,
                 shown, conn, net, now, faults, sessions, consents, hasty>>

-----------------------------------------------------------------------------
(* The requester *)

\* request_pairing: r's user scans a QR code that d displayed at some time.
RequestPairing(r, d, n) ==
  /\ r # d
  /\ ui[r] = Idle
  /\ ~Locked(r)
  /\ n \in shown[d]
  /\ outgoing' = [outgoing EXCEPT ![r] = @ \union {d}]
  /\ net' = net \union {Request(r, d, n)}
  /\ UNCHANGED <<mode, started, nonce, pending, store, io, ui, window, shown,
                 conn, now, faults, history>>

\* zap_is_allowed: a device that is paired, or any while pairing mode is on.
Allowed(r, d) == r \in store[d] \/ mode[d]

\* The CURVE handshake of r's DEALER with d's ROUTER, which d's ZapHandler answers.
Connect(r, d) ==
  /\ <<r, d>> \notin conn
  /\ \E m \in net : m.type = "request" /\ m.from = r /\ m.to = d
  /\ Allowed(r, d)
  /\ conn' = conn \union {<<r, d>>}
  /\ UNCHANGED <<core, io, ui, window, shown, net, now, faults, history>>

\* Mutant: any answer of a peer that was asked is a yes.
Answers(r, m) == m.from \in outgoing[r]

\* handle_pair_response's condition for storing the peer.
Confirms(r, m) == m.accepted /\ m.from \in outgoing[r]

\* handle_pair_response.  A refusal changes nothing, not even outgoing.
HandlePairResponse(r, m) ==
  /\ io[r] = Idle
  /\ m \in net
  /\ m.type = "response" /\ m.to = r
  /\ net' = net \ {m}
  /\ IF Confirms(r, m)
       THEN /\ outgoing' = [outgoing EXCEPT ![r] = @ \ {m.from}]
            /\ store' = [store EXCEPT ![r] = @ \union {m.from}]
       ELSE UNCHANGED <<outgoing, store>>
  /\ UNCHANGED <<mode, started, nonce, pending, io, ui, window, shown, conn,
                 now, faults, history>>

-----------------------------------------------------------------------------
(* The displaying side *)

\* Mutant: the nonce is not compared.
InPairingMode(d, n) == mode[d] /\ now - started[d] <= PairingTtl

\* What handle_pair_request compares, state_mutex_ held.
Expected(d, n) ==
  /\ mode[d]
  /\ now - started[d] <= PairingTtl
  /\ n = nonce[d]

\* handle_pair_request up to its condition.  A request that is not expected is
\* dropped without an answer.
HandlePairRequest(d, m) ==
  /\ io[d] = Idle
  /\ m \in net
  /\ m.type = "request" /\ m.to = d
  /\ <<m.from, d>> \in conn
  /\ net' = net \ {m}
  /\ IF Expected(d, m.nonce)
       THEN io' = [io EXCEPT ![d] = [pc |-> "commit", from |-> m.from,
                                     nonce |-> m.nonce]]
       ELSE UNCHANGED io
  /\ UNCHANGED <<core, ui, window, shown, conn, now, faults, history>>

\* Mutant: the session lets more than one request in.
CommitAndStay(d) ==
  /\ io[d].pc = "commit"
  /\ pending' = [pending EXCEPT ![d] = @ \union {io[d].from}]
  /\ closed' = [closed EXCEPT ![d] = @ \union {io[d].nonce}]
  /\ io' = [io EXCEPT ![d].pc = "surface"]
  /\ UNCHANGED <<mode, started, nonce, outgoing, store, ui, window, shown, conn,
                 net, now, faults, sessions, consents, hasty>>

\* The rest of the critical section: one shot, and the request is pending.
CommitPairRequest(d) ==
  /\ io[d].pc = "commit"
  /\ mode' = [mode EXCEPT ![d] = FALSE]
  /\ pending' = [pending EXCEPT ![d] = @ \union {io[d].from}]
  /\ closed' = [closed EXCEPT ![d] = @ \union {io[d].nonce}]
  /\ io' = [io EXCEPT ![d].pc = "surface"]
  /\ UNCHANGED <<started, nonce, outgoing, store, ui, window, shown, conn, net,
                 now, faults, sessions, consents, hasty>>

Post(d, event) == posted' = [posted EXCEPT ![d] = Append(@, event)]

\* on_pairing_request_, after the unlock: the bridge posts it to the window.
SurfacePairRequest(d) ==
  /\ io[d].pc = "surface"
  /\ Post(d, Surfaced(io[d].from))
  /\ io' = [io EXCEPT ![d] = Idle]
  /\ UNCHANGED <<core, ui, dialog, shown, conn, net, now, faults, history>>

\* The window's loop has an event of this kind for d's page.
Handles(d, kind) ==
  /\ ui[d] = Idle
  /\ posted[d] # <<>>
  /\ Head(posted[d]).is = kind
  /\ posted' = [posted EXCEPT ![d] = Tail(@)]

\* showPairingRequestModal: a request takes the place of the one before.
ShowRequest(d) ==
  /\ Handles(d, "request")
  /\ dialog' = [dialog EXCEPT ![d] = {Head(posted[d]).from}]
  /\ UNCHANGED <<core, io, ui, shown, conn, net, now, faults, history>>

\* A button of the dialog, after the bridge has answered its call: the dialog is
\* hidden, whichever request it shows by now.
CloseDialog(d) ==
  /\ Handles(d, "answered")
  /\ dialog' = [dialog EXCEPT ![d] = {}]
  /\ UNCHANGED <<core, io, ui, shown, conn, net, now, faults, history>>

\* A button of the dialog calls the core with the request that is shown.  It can
\* be clicked again until the answer is there.
Clicks(d, r) ==
  /\ ui[d] = Idle
  /\ ~Locked(d)
  /\ r \in dialog[d]
  /\ Len(SelectSeq(posted[d], LAMBDA e : e = Answered)) < MaxClicks

\* accept_pairing takes the pending request; a second answer finds none.
AcceptTake(d, r) ==
  /\ Clicks(d, r)
  /\ IF r \in pending[d]
       THEN /\ pending' = [pending EXCEPT ![d] = @ \ {r}]
            /\ ui' = [ui EXCEPT ![d] = [pc |-> "accept", from |-> r]]
            /\ consents' = consents \union {<<d, r>>}
            /\ UNCHANGED posted
       ELSE /\ Post(d, Answered)
            /\ UNCHANGED <<pending, ui, consents>>
  /\ UNCHANGED <<mode, started, nonce, outgoing, store, io, dialog, shown, conn,
                 net, now, faults, sessions, closed, hasty>>

\* Mutant: only a device that is already paired gets an answer.
ReplyToPaired(d, r, ok) ==
  net' = IF r \in store[d] THEN net \union {Response(d, r, ok)} ELSE net

\* The ROUTER drops an answer to a peer that is not connected any more.
Reply(d, r, ok) ==
  net' = IF <<r, d>> \in conn THEN net \union {Response(d, r, ok)} ELSE net

\* accept_pairing after take_pending: upsert, then the answer.
AcceptStore(d) ==
  /\ ui[d].pc = "accept"
  /\ store' = [store EXCEPT ![d] = @ \union {ui[d].from}]
  /\ Reply(d, ui[d].from, TRUE)
  /\ ui' = [ui EXCEPT ![d] = Idle]
  /\ Post(d, Answered)
  /\ UNCHANGED <<mode, started, nonce, pending, outgoing, io, dialog, shown,
                 conn, now, faults, history>>

RejectPairing(d, r) ==
  /\ Clicks(d, r)
  /\ Post(d, Answered)
  /\ IF r \in pending[d]
       THEN /\ pending' = [pending EXCEPT ![d] = @ \ {r}]
            /\ Reply(d, r, FALSE)
       ELSE UNCHANGED <<pending, net>>
  /\ UNCHANGED <<mode, started, nonce, outgoing, store, io, ui, dialog, shown,
                 conn, now, faults, history>>

-----------------------------------------------------------------------------
(* remove_device, time, and what may go wrong *)

RemoveDevice(d, r) ==
  /\ d \in Removers
  /\ ui[d] = Idle
  /\ ~Locked(d)
  /\ r \in store[d]
  /\ store' = [store EXCEPT ![d] = @ \ {r}]
  /\ UNCHANGED <<mode, started, nonce, pending, outgoing, io, ui, window, shown,
                 conn, net, now, faults, history>>

Tick ==
  /\ now < MaxNow
  /\ now' = now + 1
  /\ UNCHANGED <<core, io, ui, window, shown, conn, net, faults, history>>

Lose(m) ==
  /\ faults < MaxFaults
  /\ faults' = faults + 1
  /\ net' = net \ {m}
  /\ UNCHANGED <<core, io, ui, window, shown, conn, now, history>>

Disconnect(c) ==
  /\ faults < MaxFaults
  /\ faults' = faults + 1
  /\ conn' = conn \ {c}
  /\ UNCHANGED <<core, io, ui, window, shown, net, now, history>>

\* Everything but the device store is gone, with d's connections and whatever d
\* had still to send.
Restart(d) ==
  /\ faults < MaxFaults
  /\ faults' = faults + 1
  /\ mode' = [mode EXCEPT ![d] = FALSE]
  /\ started' = [started EXCEPT ![d] = 0]
  /\ nonce' = [nonce EXCEPT ![d] = 0]
  /\ pending' = [pending EXCEPT ![d] = {}]
  /\ outgoing' = [outgoing EXCEPT ![d] = {}]
  /\ io' = [io EXCEPT ![d] = Idle]
  /\ ui' = [ui EXCEPT ![d] = Idle]
  /\ posted' = [posted EXCEPT ![d] = <<>>]
  /\ dialog' = [dialog EXCEPT ![d] = {}]
  /\ conn' = {c \in conn : d \notin {c[1], c[2]}}
  /\ net' = {m \in net : m.from # d}
  /\ closed' = [closed EXCEPT ![d] = 1 .. sessions[d]]
  /\ UNCHANGED <<store, shown, now, sessions, consents, hasty>>

UIThread(d) ==
  \/ BeginNonce(d)
  \/ BeginStarted(d)
  \/ BeginMode(d)
  \/ CancelPairing(d)
  \/ \E p \in Devices, n \in Nonces : RequestPairing(d, p, n)
  \/ \E r \in Devices : AcceptTake(d, r)
  \/ AcceptStore(d)
  \/ \E r \in Devices : RejectPairing(d, r)
  \/ ShowRequest(d)
  \/ CloseDialog(d)
  \/ \E r \in Devices : RemoveDevice(d, r)

ResponseHandled(r) == \E m \in net : HandlePairResponse(r, m)

IOThread(d) ==
  \/ \E m \in net : HandlePairRequest(d, m)
  \/ CommitPairRequest(d)
  \/ SurfacePairRequest(d)
  \/ ResponseHandled(d)

Network ==
  \/ \E r, d \in Devices : Connect(r, d)
  \/ \E m \in net : Lose(m)
  \/ \E c \in conn : Disconnect(c)

Next ==
  \/ \E d \in Devices : UIThread(d) \/ IOThread(d) \/ Restart(d)
  \/ Network
  \/ Tick

Spec == Init /\ [][Next]_vars

\* The I/O thread is a loop that never waits for the user and drains every DEALER
\* in each of its rounds, so that requests cannot keep responses waiting (SF: the
\* thread is busy with other messages in between); accept_pairing runs to its
\* end.  Nobody makes a user answer, the clock run or a peer connect.
Fairness ==
  \A d \in Devices : /\ WF_vars(IOThread(d))
                     /\ SF_vars(ResponseHandled(d))
                     /\ WF_vars(AcceptStore(d))

FairSpec == Spec /\ Fairness

-----------------------------------------------------------------------------
(* Properties *)

\* Types of the variables.
TypeOK ==
  /\ mode \in [Devices -> BOOLEAN]
  /\ started \in [Devices -> 0 .. MaxNow]
  /\ nonce \in [Devices -> 0 .. MaxSessions]
  /\ pending \in [Devices -> SUBSET Devices]
  /\ outgoing \in [Devices -> SUBSET Devices]
  /\ store \in [Devices -> SUBSET Devices]
  /\ io \in [Devices -> IOStates]
  /\ ui \in [Devices -> UIStates]
  /\ posted \in [Devices -> Seq(Events)]
  /\ dialog \in [Devices -> SUBSET Devices]
  /\ shown \in [Devices -> SUBSET Nonces]
  /\ conn \subseteq Devices \X Devices
  /\ net \subseteq Messages
  /\ now \in 0 .. MaxNow
  /\ faults \in 0 .. MaxFaults
  /\ sessions \in [Devices -> 0 .. MaxSessions]
  /\ closed \in [Devices -> SUBSET Nonces]
  /\ consents \subseteq Devices \X Devices
  /\ hasty \subseteq Devices

\* Two devices trust each other only if one of the two users was asked about the
\* other device and agreed: the requester never stores a peer that has not
\* accepted it, whatever is lost, late or answered twice.
PairedByConsent ==
  \A d \in Devices : \A p \in store[d] :
    <<d, p>> \in consents \/ <<p, d>> \in consents

\* A request gets through only in the session its QR code belongs to, while that
\* session is open: not used before, not cancelled, not superseded, not expired.
OnlyOpenSession ==
  [][\A d \in Devices :
       (io'[d].pc = "commit" /\ io[d].pc # "commit") =>
         /\ io'[d].nonce \notin closed[d]
         /\ now - started[d] <= PairingTtl]_vars

\* A session that nobody used or cancelled stays open: handle_pair_request's
\* "one-shot" store of false never hits the session begun after the one it serves.
SessionNotLost ==
  \A d \in Devices :
    (ui[d] = Idle /\ nonce[d] # 0 /\ nonce[d] \notin closed[d]) => mode[d]

\* d's user sees the request of r, or will.
Visible(d, r) ==
  \/ io[d].pc = "surface" /\ io[d].from = r
  \/ \E i \in DOMAIN posted[d] : posted[d][i] = Surfaced(r)
  \/ r \in dialog[d]

\* The dialog has room for one request, and forgets whatever it shows when the
\* answer to an earlier click comes back.  Still no request waits unseen, where
\* every dialog is answered before the next session begins: a session lets one
\* request in, and the events of the window's loop come in the order posted.
PendingIsVisible ==
  \A d \in Devices \ hasty : \A r \in pending[d] : Visible(d, r)

\* A requester learns that it was accepted, unless something went wrong on the way:
\* no pairing that is cancelled, crosses this one or is removed meanwhile keeps the
\* answer from it.
AcceptanceArrives ==
  \A d, r \in Devices :
    (ui[d].pc = "accept" /\ ui[d].from = r) ~> (d \in store[r] \/ faults > 0)
=============================================================================

------------------------------ MODULE Callbacks ------------------------------
(***************************************************************************)
(* Who calls the listeners of Core (set_on_...) on Android, and which      *)
(* locks are held meanwhile.  The core has state_mutex_; jni_bridge.cpp    *)
(* hands every notification to RemboardNative, whose dispatch methods are  *)
(* synchronized on one monitor and call the listeners in the same thread;  *)
(* one of the listeners calls listDevices.  (On a desktop the bridge posts *)
(* a notification to the window's loop and takes no lock.)                 *)
(*                                                                         *)
(* A call is the sequence of the locks it takes and drops.                 *)
(***************************************************************************)
EXTENDS Naturals, Sequences

CONSTANTS
  Callers,        \* threads of the user interface that call the core
  StatusThreads   \* threads that may mark a device online or offline

VARIABLES
  rest,   \* what each thread has still to do of its call
  holder  \* who holds each lock

vars == <<rest, holder>>

Threads == Callers \union {"io", "discovery"}
Locks == {"state_mutex_", "monitor"}
Nobody == "nobody"

Take(l) == [do |-> "take", lock |-> l]
Drop(l) == [do |-> "drop", lock |-> l]

Under(l, steps) == <<Take(l)>> \o steps \o <<Drop(l)>>

-----------------------------------------------------------------------------
(* The calls *)

\* call_static_void_with_string calls a dispatch method, and that a listener that
\* does steps.
Notify(steps) == Under("monitor", steps)

\* list_paired_devices, list_received_items, and act_on_item's critical section.
Inspect == Under("state_mutex_", <<>>)

\* RemboardForegroundService.onPeerStatusChanged builds its notification from
\* listDevices.
StatusListener == Inspect

\* mark_peer_online and mark_peer_offline, with and without a change.
MarkChanged == Inspect \o Notify(StatusListener)
MarkUnchanged == Inspect

\* handle_file_chunk reports the progress with state_mutex_ held.
FileChunk == Under("state_mutex_", Notify(<<>>))

\* deliver_item, and handle_pair_request.
DeliverItem == Inspect \o Notify(<<>>)

\* send_file reports its progress on the thread that called it.
SendChunk == Notify(<<>>)

\* addListener and removeListener of RemboardNative.
AddListener == Under("monitor", <<>>)

\* What the threads of the user interface call through RemboardNative.
UICalls == {Inspect, SendChunk, AddListener}
\* What on_transport_message ends up in, apart from marking the sender.
IOCalls == {FileChunk, DeliverItem}

Marks(x) == IF x \in StatusThreads THEN {MarkChanged, MarkUnchanged} ELSE {}
Calls(x) ==
  Marks(x) \union (CASE x = "io" -> IOCalls
                      [] x = "discovery" -> {}
                      [] OTHER -> UICalls)

-----------------------------------------------------------------------------
Init ==
  /\ rest = [x \in Threads |-> <<>>]
  /\ holder = [l \in Locks |-> Nobody]

Call(x) ==
  /\ rest[x] = <<>>
  /\ \E steps \in Calls(x) : rest' = [rest EXCEPT ![x] = steps]
  /\ UNCHANGED holder

\* x is about to do a step of this kind.
Does(x, kind) ==
  /\ rest[x] # <<>>
  /\ Head(rest[x]).do = kind

TakeLock(x) ==
  /\ Does(x, "take")
  /\ holder[Head(rest[x]).lock] = Nobody
  /\ holder' = [holder EXCEPT ![Head(rest[x]).lock] = x]
  /\ rest' = [rest EXCEPT ![x] = Tail(@)]

DropLock(x) ==
  /\ Does(x, "drop")
  /\ holder' = [holder EXCEPT ![Head(rest[x]).lock] = Nobody]
  /\ rest' = [rest EXCEPT ![x] = Tail(@)]

Next ==
  \E x \in Threads :
    \/ Call(x)
    \/ TakeLock(x)
    \/ DropLock(x)

Spec == Init /\ [][Next]_vars

-----------------------------------------------------------------------------
(* Property *)

\* Threads that wait for locks of each other, or one that waits for its own, wait
\* for ever: there are none, whichever calls and notifications meet.
Waits(x, S) ==
  /\ Does(x, "take")
  /\ holder[Head(rest[x]).lock] \in S
NoDeadlock ==
  \A S \in SUBSET Threads \ {{}} : \E x \in S : ~Waits(x, S)
=============================================================================

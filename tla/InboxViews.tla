------------------------------ MODULE InboxViews ------------------------------
(***************************************************************************)
(* The inbox as its user sees it: FileReceive composed with the page of    *)
(* the desktop (ui/app.js behind Bridge) and the list of the phone         *)
(* (MainActivity.kt).  Both keep a list of their own beside                *)
(* received_items_, and learn of new items from on_incoming_item, which    *)
(* posts a notice to the loop of the user interface.                       *)
(*                                                                         *)
(* The desktop never asks for the list; its page only listens, once it is  *)
(* loaded.  The phone listens while the activity is resumed, and replaces  *)
(* its list by what listReceivedItems returns, which onCreate and every    *)
(* onResume ask for.  A row leaves the list when the answer to the user's  *)
(* action comes back.                                                      *)
(*                                                                         *)
(* A row is its envelope_id; rows that are there twice are not told apart. *)
(* Left out: files (their rows come and go like those of texts, and        *)
(* FileReceive has what becomes of the file), Copy, which changes nothing, *)
(* and an activity that is made anew while the process lives.              *)
(***************************************************************************)
EXTENDS FileReceive, Sequences

CONSTANTS
  Apps,       \* "desktop", "android"
  Refreshes,  \* coroutines that may run refreshInbox at a time
  MaxLoop     \* bound on the events that wait when another one is posted

ASSUME AppsAssumption == Apps \subseteq {"desktop", "android"}
ASSUME MaxLoopAssumption == MaxLoop \in Nat

VARIABLES
  app,      \* which of the two this is
  open,     \* the page is loaded; the activity listens
  page,     \* inboxItems
  loop,     \* what waits at the loop of the user interface
  telling,  \* the item that deliver_item is about to call on_incoming_item with
  refresh,  \* where each refreshInbox is
  missed    \* history: items that crossed something, see NothingHidden

view == <<open, page, loop, telling, refresh, missed>>
allVars == <<vars, app, view>>

Notice(e) == [is |-> "notice", env |-> e]
Answer(e) == [is |-> "answer", env |-> e]
List(S) == [is |-> "list", items |-> S]

NoRefresh == [pc |-> "none"]
Asked == [pc |-> "asked"]
Fetched(S) == [pc |-> "fetched", items |-> S]

\* A new process: onCreate asks for the list.
Launched ==
  \E r \in Refreshes :
    refresh = [x \in Refreshes |-> IF app = "android" /\ x = r THEN Asked
                                                               ELSE NoRefresh]

InitViews ==
  /\ Init
  /\ app \in Apps
  /\ open = FALSE
  /\ page = {}
  /\ loop = <<>>
  /\ telling = {}
  /\ Launched
  /\ missed = {}

InLoop(event) == \E i \in DOMAIN loop : loop[i] = event
HasRoom == Len(loop) < MaxLoop
HasFetched(r) == refresh[r].pc = "fetched"

\* The user acted on e, and the list has not seen the answer yet.
Unanswered(e) ==
  \/ \E c \in Callers : ui[c] # Idle /\ ui[c].env = e
  \/ InLoop(Answer(e))

-----------------------------------------------------------------------------
(* The I/O thread *)

\* handle_text_share up to deliver_item's unlock.
Arrive(e) ==
  /\ telling = {}
  /\ HasRoom
  /\ \E d \in Devices : HandleText(d, e)
  /\ telling' = {e}
  /\ missed' = IF Unanswered(e) \/ \E r \in Refreshes : HasFetched(r)
                 THEN missed \union {e} ELSE missed
  /\ UNCHANGED <<app, open, page, loop, refresh>>

\* on_incoming_item: the bridge posts to the window, RemboardNative calls its
\* listeners, of which the activity posts to the main thread.
Tell(e) ==
  /\ telling = {e}
  /\ telling' = {}
  /\ loop' = IF app = "desktop" \/ open THEN Append(loop, Notice(e)) ELSE loop
  /\ UNCHANGED <<vars, app, open, page, refresh, missed>>

-----------------------------------------------------------------------------
(* The loop of the user interface *)

\* On a desktop the calls of the page run on the loop's thread, on the phone they
\* run beside it (Dispatchers.IO).
LoopRuns == app = "android" \/ \A c \in Callers : ui[c] = Idle

TakesEvent(kind) ==
  LoopRuns /\ loop # <<>> /\ Head(loop).is = kind /\ loop' = Tail(loop)

\* onIncomingItem.  A page that is not loaded yet has no such function, and the
\* item is never shown.
OnIncomingItem ==
  /\ TakesEvent("notice")
  /\ LET e == Head(loop).env
         shows == app = "android" \/ open
     IN  /\ page' = IF shows THEN page \union {e} ELSE page
         /\ missed' = IF shows THEN missed ELSE missed \union {e}
  /\ UNCHANGED <<vars, app, open, telling, refresh>>

\* The answer to an action: the rows with that envelope_id go.
RemoveInboxItem ==
  /\ TakesEvent("answer")
  /\ page' = page \ {Head(loop).env}
  /\ UNCHANGED <<vars, app, open, telling, refresh, missed>>

\* refreshInbox, back on the main thread: the list is replaced.
ReplaceList ==
  /\ TakesEvent("list")
  /\ page' = Head(loop).items
  /\ UNCHANGED <<vars, app, open, telling, refresh, missed>>

-----------------------------------------------------------------------------
(* The coroutines and the threads beside the loop *)

\* refreshInbox on Dispatchers.IO: listReceivedItems, and then the way back to the
\* main thread.  Nothing keeps two of them in order.
Fetch(r) ==
  /\ refresh[r] = Asked
  /\ refresh' = [refresh EXCEPT ![r] = Fetched(DOMAIN received_items)]
  /\ UNCHANGED <<vars, app, open, page, loop, telling, missed>>

PostList(r) ==
  /\ HasFetched(r)
  /\ HasRoom
  /\ loop' = Append(loop, List(refresh[r].items))
  /\ refresh' = [refresh EXCEPT ![r] = NoRefresh]
  /\ UNCHANGED <<vars, app, open, page, telling, missed>>

\* act_on_item returns.  What was done through a notification has no row to answer.
Acted(c) ==
  /\ loop' = IF ui[c].pc = "reject" THEN Append(loop, Answer(ui[c].env)) ELSE loop
  /\ RejectItem(c) \/ RemoveStaged(c)
  /\ UNCHANGED <<app, open, page, telling, refresh, missed>>

-----------------------------------------------------------------------------
(* The user *)

\* Mutant: the list is only asked for when there is none.
ResumeOnce ==
  /\ ~open
  /\ open' = TRUE
  /\ IF app = "android" /\ page = {}
       THEN \E r \in Refreshes :
              /\ refresh[r] = NoRefresh
              /\ refresh' = [refresh EXCEPT ![r] = Asked]
       ELSE refresh' = refresh
  /\ UNCHANGED <<vars, app, page, loop, telling, missed>>

\* onResume; on a desktop the window has loaded the page.
Resume ==
  /\ ~open
  /\ open' = TRUE
  /\ IF app = "android"
       THEN \E r \in Refreshes :
              /\ refresh[r] = NoRefresh
              /\ refresh' = [refresh EXCEPT ![r] = Asked]
       ELSE refresh' = refresh
  /\ UNCHANGED <<vars, app, page, loop, telling, missed>>

\* onPause.
Pause ==
  /\ app = "android" /\ open
  /\ open' = FALSE
  /\ UNCHANGED <<vars, app, page, loop, telling, refresh, missed>>

\* The bin of a row.
Act(c, e) ==
  /\ LoopRuns /\ open
  /\ e \in page /\ ~Unanswered(e)
  /\ ActOnItem(c, e, "reject")
  /\ UNCHANGED <<app, view>>

\* The bin of a row whose item is not in the inbox any more: evicted, or handled
\* through a notification.
ActOnNothing(e) ==
  /\ LoopRuns /\ open
  /\ e \in page \ DOMAIN received_items /\ ~Unanswered(e)
  /\ loop' = Append(loop, Answer(e))
  /\ UNCHANGED <<vars, app, open, page, telling, refresh, missed>>

\* NotificationActionReceiver, for an item that is read or swept away.
ActByNotification(c, e) ==
  /\ app = "android"
  /\ ActOnItem(c, e, "dismiss")
  /\ UNCHANGED <<app, view>>

Core == \E e \in Envelopes : Arrive(e) \/ Tell(e)

Loop == OnIncomingItem \/ RemoveInboxItem \/ ReplaceList

Beside ==
  \/ \E r \in Refreshes : Fetch(r) \/ PostList(r)
  \/ \E c \in Callers : Acted(c)

User ==
  \/ Resume \/ Pause
  \/ \E c \in Callers, e \in Envelopes : Act(c, e) \/ ActByNotification(c, e)
  \/ \E e \in Envelopes : ActOnNothing(e)

NextViews == Core \/ Loop \/ Beside \/ User

SpecViews == InitViews /\ [][NextViews]_allVars

-----------------------------------------------------------------------------
(* Properties *)

\* An item in the inbox is in the list of an open window, or on its way there: a
\* user can act on everything that the core holds.  Three things hide an item for
\* good, and no other does: the notice reaches the desktop's page before it is
\* loaded, the item comes between a fetch of the phone's list and its way to the
\* main thread, or its envelope_id comes again while an action on it waits for
\* its answer.  Items that come while the phone does not listen are not among them.
NothingHidden ==
  (open /\ \A r \in Refreshes : refresh[r] = NoRefresh) =>
    \A e \in DOMAIN received_items \ missed :
      \/ e \in page
      \/ telling = {e}
      \/ InLoop(Notice(e))
      \/ \E i \in DOMAIN loop : loop[i].is = "list" /\ e \in loop[i].items
=============================================================================

--------------------------- MODULE InboxViewsProofs ---------------------------
(***************************************************************************)
(* Proofs about InboxViews: no item stays hidden from a window that is     *)
(* open, for any number of items, refreshes and actions under way.         *)
(***************************************************************************)
EXTENDS InboxViews, FileReceiveProofs

-----------------------------------------------------------------------------
(* The invariant *)

LoopEvents ==
  [is : {"notice", "answer"}, env : Envelopes]
    \union [is : {"list"}, items : SUBSET Envelopes]
RefreshStates ==
  {NoRefresh, Asked} \union [pc : {"fetched"}, items : SUBSET Envelopes]

\* Types of the views.
ViewTypes ==
  /\ app \in {"desktop", "android"}
  /\ open \in BOOLEAN
  /\ loop \in Seq(LoopEvents)
  /\ refresh \in [Refreshes -> RefreshStates]

\* What handling an event of the loop does to the row of e.
Brings(event, e) == event = Notice(e) \/ (event.is = "list" /\ e \in event.items)
Drops(event, e) == event.is = "list" /\ e \notin event.items
StaysAfter(i, e) == \A j \in DOMAIN loop : j > i => ~Drops(loop[j], e)

\* Once the loop has handled what is posted now, e is in the list.
Reaches(e) ==
  \/ e \in page /\ StaysAfter(0, e)
  \/ \E i \in DOMAIN loop : Brings(loop[i], e) /\ StaysAfter(i, e)

\* e is about to be posted, or the list will be asked for or is being fetched.
Coming(e) ==
  \/ telling = {e}
  \/ app = "android" /\ ~open
  \/ \E r \in Refreshes : refresh[r] # NoRefresh

\* An item that did not cross anything: no answer that waits would take its row
\* away, every list fetched so far has it, and it reaches the window's list.
Tracked(e) ==
  /\ ~Unanswered(e)
  /\ \A r \in Refreshes : HasFetched(r) => e \in refresh[r].items
  /\ Coming(e) \/ Reaches(e)

ItemsTracked == \A e \in DOMAIN received_items \ missed : Tracked(e)

ViewsInv == TypeOK /\ TablesAgree /\ ViewTypes /\ ItemsTracked

-----------------------------------------------------------------------------
(* The loop *)

LEMMA EventTypes ==
  /\ \A e \in Envelopes : Notice(e) \in LoopEvents /\ Answer(e) \in LoopEvents
  /\ \A S \in SUBSET Envelopes : List(S) \in LoopEvents
BY DEF LoopEvents, Notice, Answer, List

LEMMA EventKinds ==
  /\ \A e : Notice(e).is = "notice" /\ Notice(e).env = e
  /\ \A e : Answer(e).is = "answer" /\ Answer(e).env = e
  /\ \A S : List(S).is = "list" /\ List(S).items = S
BY DEF Notice, Answer, List

LEMMA EventFields ==
  ASSUME NEW v \in LoopEvents
  PROVE  /\ v.is \in {"notice", "answer", "list"}
         /\ v.is = "notice" => v.env \in Envelopes /\ v = Notice(v.env)
         /\ v.is = "answer" => v.env \in Envelopes /\ v = Answer(v.env)
         /\ v.is = "list" => v.items \in SUBSET Envelopes
BY DEF LoopEvents, Notice, Answer

\* The states of refreshInbox are told apart.
LEMMA RefreshKinds ==
  /\ NoRefresh.pc = "none" /\ Asked.pc = "asked" /\ NoRefresh # Asked
  /\ \A S : Fetched(S).pc = "fetched" /\ Fetched(S).items = S /\ Fetched(S) # NoRefresh
  /\ \A S \in SUBSET Envelopes : Fetched(S) \in RefreshStates
BY DEF NoRefresh, Asked, Fetched, RefreshStates

LEMMA LoopAppended ==
  ASSUME NEW S, NEW s \in Seq(S), NEW v \in S
  PROVE  /\ Append(s, v) \in Seq(S) /\ Len(s) \in Nat
         /\ DOMAIN s = 1 .. Len(s) /\ DOMAIN Append(s, v) = 1 .. (Len(s) + 1)
         /\ Append(s, v)[Len(s) + 1] = v
         /\ \A i \in 1 .. Len(s) : Append(s, v)[i] = s[i]
OBVIOUS

LEMMA LoopTaken ==
  ASSUME NEW S, NEW s \in Seq(S), s # <<>>
  PROVE  /\ Tail(s) \in Seq(S) /\ Len(s) \in Nat /\ Head(s) = s[1] /\ Head(s) \in S
         /\ DOMAIN s = 1 .. Len(s) /\ 1 \in DOMAIN s
         /\ DOMAIN Tail(s) = 1 .. (Len(s) - 1)
         /\ \A i \in 1 .. (Len(s) - 1) : Tail(s)[i] = s[i + 1]
OBVIOUS

\* An event that is posted does not change what comes before it.
LEMMA PostedReaches ==
  ASSUME ViewTypes, NEW v \in LoopEvents, loop' = Append(loop, v), page' = page, NEW e
  PROVE  /\ loop' \in Seq(LoopEvents)
         /\ (Reaches(e) /\ ~Drops(v, e)) => Reaches(e)'
         /\ Brings(v, e) => Reaches(e)'
         /\ \A u : InLoop(u)' => InLoop(u) \/ u = v
<1>1. /\ loop' \in Seq(LoopEvents) /\ Len(loop) \in Nat /\ DOMAIN loop = 1 .. Len(loop)
      /\ DOMAIN loop' = 1 .. (Len(loop) + 1) /\ loop'[Len(loop) + 1] = v
      /\ \A i \in 1 .. Len(loop) : loop'[i] = loop[i]
  BY LoopAppended DEF ViewTypes
<1>2. \A i \in DOMAIN loop' : i = Len(loop) + 1 \/ i \in DOMAIN loop
  BY <1>1
<1>3. Len(loop) + 1 \in DOMAIN loop'
  BY <1>1
<1>4. ASSUME NEW i \in Nat, StaysAfter(i, e), ~Drops(v, e)
      PROVE  StaysAfter(i, e)'
  BY <1>1, <1>2, <1>4 DEF StaysAfter, Drops
<1>5. ASSUME Reaches(e), ~Drops(v, e)
      PROVE  Reaches(e)'
  <2>1. CASE e \in page /\ StaysAfter(0, e)
    <3>1. StaysAfter(0, e)'
      <4>1. 0 \in Nat
        OBVIOUS
      <4> QED
        BY <1>4, <1>5, <2>1, <4>1
    <3> QED
      BY <2>1, <3>1 DEF Reaches
  <2>2. ASSUME NEW i \in DOMAIN loop, Brings(loop[i], e), StaysAfter(i, e)
        PROVE  Reaches(e)'
    <3>1. i \in DOMAIN loop' /\ loop'[i] = loop[i] /\ i \in Nat
      BY <1>1
    <3>2. Brings(loop[i], e)'
      BY <2>2, <3>1 DEF Brings
    <3> QED
      BY <1>4, <1>5, <2>2, <3>1, <3>2 DEF Reaches
  <2>3. \/ e \in page /\ StaysAfter(0, e)
        \/ \E i \in DOMAIN loop : Brings(loop[i], e) /\ StaysAfter(i, e)
    BY <1>5 DEF Reaches
  <2> QED
    BY <2>1, <2>2, <2>3
<1>6. ASSUME Brings(v, e) PROVE Reaches(e)'
  <2>1. PICK last \in DOMAIN loop' :
          loop'[last] = v /\ \A j \in DOMAIN loop' : ~(j > last)
    BY <1>1, <1>3
  <2>2. StaysAfter(last, e)'
    BY <2>1 DEF StaysAfter
  <2> QED
    BY <1>6, <2>1, <2>2 DEF Reaches, Brings
<1>7. \A u : InLoop(u)' => InLoop(u) \/ u = v
  BY <1>1, <1>2 DEF InLoop
<1> QED
  BY <1>1, <1>5, <1>6, <1>7

\* An event that is handled leaves the others, and its own effect on the list.
LEMMA HandledReaches ==
  ASSUME ViewTypes, NEW kind, TakesEvent(kind), NEW e
  PROVE  /\ loop' \in Seq(LoopEvents) /\ Head(loop) \in LoopEvents
         /\ Head(loop).is = kind
         /\ \A u : InLoop(u)' => InLoop(u)
         /\ InLoop(Head(loop))
         /\ (/\ Reaches(e)
             /\ (e \in page /\ ~Drops(Head(loop), e)) => e \in page'
             /\ Brings(Head(loop), e) => e \in page') => Reaches(e)'
<1>1. /\ loop' = Tail(loop) /\ loop # <<>> /\ Head(loop).is = kind
      /\ loop \in Seq(LoopEvents)
  BY DEF TakesEvent, ViewTypes
<1>2. /\ loop' \in Seq(LoopEvents) /\ Len(loop) \in Nat /\ Head(loop) = loop[1]
      /\ Head(loop) \in LoopEvents
      /\ DOMAIN loop = 1 .. Len(loop) /\ 1 \in DOMAIN loop
      /\ DOMAIN loop' = 1 .. (Len(loop) - 1)
      /\ \A i \in 1 .. (Len(loop) - 1) : loop'[i] = loop[i + 1]
  BY <1>1, LoopTaken
<1>3. \A j \in DOMAIN loop' : j + 1 \in DOMAIN loop /\ loop'[j] = loop[j + 1]
  BY <1>2
<1>4. \A j \in DOMAIN loop : j = 1 \/ (j - 1 \in DOMAIN loop' /\ loop'[j - 1] = loop[j])
  <2> TAKE j \in DOMAIN loop
  <2>1. CASE j # 1
    <3>1. j - 1 \in 1 .. (Len(loop) - 1) /\ (j - 1) + 1 = j
      BY <1>2, <2>1
    <3> QED
      BY <1>2, <3>1
  <2> QED
    BY <2>1
<1>5. \A u : InLoop(u)' => InLoop(u)
  BY <1>3 DEF InLoop
<1>6. InLoop(Head(loop))
  BY <1>2 DEF InLoop
<1>7. ASSUME NEW i \in Nat, StaysAfter(i + 1, e)
      PROVE  StaysAfter(i, e)'
  <2> SUFFICES ASSUME NEW j \in DOMAIN loop', j > i PROVE ~Drops(loop'[j], e)
    BY DEF StaysAfter, Drops
  <2>1. j + 1 \in DOMAIN loop /\ j + 1 > i + 1 /\ loop'[j] = loop[j + 1]
    BY <1>2, <1>3
  <2> QED
    BY <1>7, <2>1 DEF StaysAfter
<1>8. ASSUME Reaches(e),
             (e \in page /\ ~Drops(Head(loop), e)) => e \in page',
             Brings(Head(loop), e) => e \in page'
      PROVE  Reaches(e)'
  <2>1. ASSUME e \in page, StaysAfter(0, e) PROVE Reaches(e)'
    <3>1. ~Drops(Head(loop), e)
      BY <1>2, <2>1 DEF StaysAfter
    <3>2. StaysAfter(0 + 1, e)
      BY <1>2, <2>1 DEF StaysAfter
    <3>3. StaysAfter(0, e)'
      BY <1>7, <3>2
    <3> QED
      BY <1>8, <2>1, <3>1, <3>3 DEF Reaches
  <2>2. ASSUME NEW i \in DOMAIN loop, Brings(loop[i], e), StaysAfter(i, e)
        PROVE  Reaches(e)'
    <3>1. i \in Nat \ {0} /\ (i - 1) + 1 = i /\ i - 1 \in Nat
      BY <1>2
    <3>2. StaysAfter(i - 1, e)'
      BY <1>7, <2>2, <3>1
    <3>3. CASE i = 1
      BY <1>2, <1>8, <2>2, <3>2, <3>3 DEF Reaches
    <3>4. CASE i # 1
      <4>1. i - 1 \in DOMAIN loop' /\ loop'[i - 1] = loop[i]
        BY <1>4, <3>4
      <4>2. Brings(loop'[i - 1], e)
        BY <2>2, <4>1
      <4> QED
        BY <3>2, <4>1, <4>2 DEF Reaches, Brings
    <3> QED
      BY <3>3, <3>4
  <2> QED
    BY <1>8, <2>1, <2>2 DEF Reaches
<1> QED
  BY <1>1, <1>2, <1>5, <1>6, <1>8

-----------------------------------------------------------------------------
(* Every step keeps track of the items *)

\* A step of the composition is a step of the core, or leaves the core alone.
LEMMA CoreStep ==
  ASSUME TypeOK, TablesAgree, [NextViews]_allVars
  PROVE  TypeOK' /\ TablesAgree' /\ missed \subseteq missed' /\ app' = app
<1>1. [Next]_vars
  BY DEF NextViews, Core, Loop, Beside, User, Arrive, Tell, OnIncomingItem,
         RemoveInboxItem, ReplaceList, Fetch, PostList, Acted, Resume, Pause, Act,
         ActOnNothing, ActByNotification, Next, IOThread, UIThread, allVars
<1>2. missed \subseteq missed' /\ app' = app
  BY DEF NextViews, Core, Loop, Beside, User, Arrive, Tell, OnIncomingItem,
         RemoveInboxItem, ReplaceList, Fetch, PostList, Acted, Resume, Pause, Act,
         ActOnNothing, ActByNotification, allVars, view
<1> QED
  BY <1>1, <1>2, TypeStep, TablesStep

\* What deliver_item leaves in the inbox was there, but for the new item.
LEMMA InboxAfter ==
  ASSUME TypeOK, NEW e \in Envelopes, NEW item \in Item, Deliver(e, item)
  PROVE  DOMAIN received_items' \subseteq DOMAIN received_items \union {e}
<1>1. PICK kept \in SUBSET DOMAIN received_items :
        received_items' = Put(Restrict(received_items, kept), e, item)
  BY DEF Deliver
<1> DEFINE m == Restrict(received_items, kept)
<1>2. m \in [kept -> Item]
  BY RestrictMap DEF TypeOK
<1>3. received_items' = Put(m, e, item)
  BY <1>1
<1> HIDE DEF m
<1>4. Put(m, e, item) \in [kept \union {e} -> Item]
  BY <1>2, PutMap
<1> QED
  BY <1>3, <1>4

\* A step that leaves the views alone and takes nobody's answer into account.
LEMMA ViewsAlone ==
  ASSUME NEW e, Tracked(e), UNCHANGED <<app, view>>, Unanswered(e)' => Unanswered(e)
  PROVE  Tracked(e)'
BY DEF Tracked, view, Coming, Reaches, StaysAfter, Drops, Brings, HasFetched

LEMMA ViewsStep ==
  ASSUME ViewsInv, [NextViews]_allVars
  PROVE  ViewTypes' /\ ItemsTracked'
<1> DEFINE Goal == /\ ViewTypes'
                   /\ \A e \in DOMAIN received_items' \ missed' : Tracked(e)'
<1> SUFFICES Goal
  BY DEF ItemsTracked
<1>a. TypeOK /\ TablesAgree /\ ViewTypes
  BY DEF ViewsInv
<1>b. missed \subseteq missed' /\ app' = app
  BY <1>a, CoreStep
<1>c. \A e \in DOMAIN received_items \ missed : Tracked(e)
  BY DEF ViewsInv, ItemsTracked
<1>d. \A e \in DOMAIN received_items \ missed' : Tracked(e)
  BY <1>b, <1>c
<1>e. DOMAIN received_items \subseteq Envelopes
  BY <1>a DEF TypeOK
<1>f. UNCHANGED view => ViewTypes'
  BY <1>a, <1>b DEF ViewTypes, view
<1>1. ASSUME NEW x \in Envelopes, Arrive(x) PROVE Goal
  <2>1. PICK d \in Devices : HandleText(d, x)
    BY <1>1 DEF Arrive
  <2>2. UNCHANGED ui /\ UNCHANGED <<app, open, page, loop, refresh>>
    BY <1>1, <2>1 DEF Arrive, HandleText
  <2>3. ViewTypes'
    BY <1>a, <2>2 DEF ViewTypes
  <2>4. DOMAIN received_items' \subseteq DOMAIN received_items \union {x}
    <3>1. [kind |-> "text", from |-> d, at |-> now] \in Item
      BY <1>a DEF TypeOK, Item, TextItem
    <3> QED
      BY <1>a, <2>1, <3>1, InboxAfter DEF HandleText
  <2>5. ASSUME NEW e \in DOMAIN received_items' \ missed' PROVE Tracked(e)'
    <3>1. Unanswered(e)' <=> Unanswered(e)
      BY <2>2 DEF Unanswered, InLoop
    <3>2. CASE e = x
      <4>1. ~Unanswered(x) /\ \A r \in Refreshes : ~HasFetched(r)
        BY <1>1, <2>5, <3>2 DEF Arrive
      <4>2. \A r \in Refreshes : ~HasFetched(r)'
        BY <2>2, <4>1 DEF HasFetched
      <4>3. Coming(e)'
        BY <1>1, <3>2 DEF Arrive, Coming
      <4> QED
        BY <3>1, <3>2, <4>1, <4>2, <4>3 DEF Tracked
    <3>3. CASE e # x
      <4>1. Tracked(e)
        BY <1>d, <2>4, <2>5, <3>3
      <4>2. Coming(e) => Coming(e)'
        <5>1. telling = {}
          BY <1>1 DEF Arrive
        <5> QED
          BY <2>2, <5>1 DEF Coming
      <4>3. Reaches(e) => Reaches(e)'
        BY <2>2 DEF Reaches, StaysAfter, Brings, Drops
      <4> QED
        BY <2>2, <3>1, <4>1, <4>2, <4>3 DEF Tracked, HasFetched
    <3> QED
      BY <3>2, <3>3
  <2> QED
    BY <2>3, <2>5
<1>2. ASSUME NEW x \in Envelopes, Tell(x) PROVE Goal
  <2>1. /\ UNCHANGED <<received_items, ui, app, open, page, refresh, missed>>
        /\ telling = {x}
    BY <1>2 DEF Tell, vars
  <2>2. CASE app = "desktop" \/ open
    <3>1. loop' = Append(loop, Notice(x)) /\ Notice(x) \in LoopEvents
      BY <1>2, <2>2, EventTypes DEF Tell
    <3>2. ViewTypes'
      BY <1>a, <2>1, <3>1, PostedReaches DEF ViewTypes
    <3>3. ASSUME NEW e \in DOMAIN received_items \ missed PROVE Tracked(e)'
      <4>1. Tracked(e)
        BY <1>c, <3>3
      <4>2. ~Unanswered(e)'
        <5>1. Answer(e) # Notice(x)
          BY EventKinds
        <5>2. ~InLoop(Answer(e)) /\ \A c \in Callers : ~(ui[c] # Idle /\ ui[c].env = e)
          BY <4>1 DEF Tracked, Unanswered
        <5>3. ~InLoop(Answer(e))'
          BY <1>a, <2>1, <3>1, <5>1, <5>2, PostedReaches
        <5> QED
          BY <2>1, <5>2, <5>3 DEF Unanswered
      <4>3. Reaches(e) => Reaches(e)'
        BY <1>a, <2>1, <3>1, EventKinds, PostedReaches DEF Drops
      <4>4. e = x => Reaches(e)'
        BY <1>a, <2>1, <3>1, PostedReaches DEF Brings
      <4>5. (Coming(e) /\ e # x) => Coming(e)'
        BY <2>1 DEF Coming
      <4> QED
        BY <2>1, <4>1, <4>2, <4>3, <4>4, <4>5 DEF Tracked, HasFetched
    <3> QED
      BY <2>1, <3>2, <3>3
  <2>3. CASE ~(app = "desktop" \/ open)
    <3>1. loop' = loop
      BY <1>2, <2>3 DEF Tell
    <3>2. ViewTypes'
      BY <1>a, <2>1, <3>1 DEF ViewTypes
    <3>3. app = "android" /\ ~open
      BY <1>a, <2>3 DEF ViewTypes
    <3>4. ASSUME NEW e \in DOMAIN received_items \ missed PROVE Tracked(e)'
      <4>1. Tracked(e)
        BY <1>c, <3>4
      <4>2. Coming(e)'
        BY <2>1, <3>3 DEF Coming
      <4> QED
        BY <2>1, <3>1, <4>1, <4>2 DEF Tracked, HasFetched, Unanswered, InLoop
    <3> QED
      BY <2>1, <3>2, <3>4
  <2> QED
    BY <2>2, <2>3
<1>3. ASSUME NEW kind, TakesEvent(kind), UNCHANGED <<vars, app, open, telling, refresh>>,
             \A e \in DOMAIN received_items \ missed' :
               /\ (e \in page /\ ~Drops(Head(loop), e)) => e \in page'
               /\ Brings(Head(loop), e) => e \in page'
      PROVE  Goal
  <2>1. UNCHANGED <<received_items, ui>>
    BY <1>3 DEF vars
  <2>2. ViewTypes'
    BY <1>a, <1>3, HandledReaches DEF ViewTypes
  <2>3. ASSUME NEW e \in DOMAIN received_items \ missed' PROVE Tracked(e)'
    <3>1. Tracked(e)
      BY <1>d, <2>3
    <3>2. Reaches(e) => Reaches(e)'
      BY <1>a, <1>3, <2>3, HandledReaches
    <3>3. InLoop(Answer(e))' => InLoop(Answer(e))
      BY <1>a, <1>3, HandledReaches
    <3> QED
      BY <1>3, <2>1, <3>1, <3>2, <3>3 DEF Tracked, Coming, HasFetched, Unanswered
  <2> QED
    BY <2>1, <2>2, <2>3
<1>4. CASE OnIncomingItem
  <2>1. TakesEvent("notice") /\ UNCHANGED <<vars, app, open, telling, refresh>>
    BY <1>4 DEF OnIncomingItem
  <2>2. Head(loop) \in LoopEvents /\ Head(loop).is = "notice"
    BY <1>a, <2>1, HandledReaches
  <2>3. ASSUME NEW e \in DOMAIN received_items \ missed'
        PROVE  /\ (e \in page /\ ~Drops(Head(loop), e)) => e \in page'
               /\ Brings(Head(loop), e) => e \in page'
    <3>1. Brings(Head(loop), e) => Head(loop).env = e
      BY <2>2, EventKinds DEF Brings
    <3>2. CASE app = "android" \/ open
      BY <1>4, <3>1, <3>2 DEF OnIncomingItem
    <3>3. CASE ~(app = "android" \/ open)
      BY <1>4, <2>3, <3>1, <3>3 DEF OnIncomingItem
    <3> QED
      BY <3>2, <3>3
  <2> QED
    BY <1>3, <2>1, <2>3
<1>5. CASE RemoveInboxItem
  <2>1. TakesEvent("answer") /\ UNCHANGED <<vars, app, open, telling, refresh, missed>>
    BY <1>5 DEF RemoveInboxItem
  <2>2. Head(loop) \in LoopEvents /\ Head(loop).is = "answer" /\ InLoop(Head(loop))
    BY <1>a, <2>1, HandledReaches
  <2>3. Head(loop) = Answer(Head(loop).env)
    BY <2>2, EventFields
  <2>4. ASSUME NEW e \in DOMAIN received_items \ missed'
        PROVE  /\ (e \in page /\ ~Drops(Head(loop), e)) => e \in page'
               /\ Brings(Head(loop), e) => e \in page'
    <3>1. e # Head(loop).env
      BY <1>d, <2>2, <2>3, <2>4 DEF Tracked, Unanswered
    <3>2. ~Brings(Head(loop), e)
      BY <2>2, EventKinds DEF Brings
    <3> QED
      BY <1>5, <3>1, <3>2 DEF RemoveInboxItem
  <2> QED
    BY <1>3, <2>1, <2>4
<1>6. CASE ReplaceList
  <2>1. TakesEvent("list") /\ UNCHANGED <<vars, app, open, telling, refresh, missed>>
    BY <1>6 DEF ReplaceList
  <2>2. Head(loop).is = "list" /\ page' = Head(loop).items
    BY <1>a, <1>6, <2>1, HandledReaches DEF ReplaceList
  <2>3. ASSUME NEW e \in DOMAIN received_items \ missed'
        PROVE  /\ (e \in page /\ ~Drops(Head(loop), e)) => e \in page'
               /\ Brings(Head(loop), e) => e \in page'
    BY <2>2, EventKinds DEF Drops, Brings
  <2> QED
    BY <1>3, <2>1, <2>3
<1>7. ASSUME NEW r \in Refreshes, Fetch(r) PROVE Goal
  <2>1. /\ UNCHANGED <<received_items, ui, app, open, page, loop, telling, missed>>
        /\ refresh' = [refresh EXCEPT ![r] = Fetched(DOMAIN received_items)]
    BY <1>7 DEF Fetch, vars
  <2>2. refresh'[r] = Fetched(DOMAIN received_items)
        /\ \A q \in Refreshes \ {r} : refresh'[q] = refresh[q]
    BY <1>a, <2>1 DEF ViewTypes
  <2>3. ViewTypes'
    BY <1>a, <1>e, <2>1, RefreshKinds DEF ViewTypes
  <2>4. ASSUME NEW e \in DOMAIN received_items \ missed PROVE Tracked(e)'
    <3>1. Tracked(e)
      BY <1>c, <2>4
    <3>2. Coming(e)'
      BY <2>2, RefreshKinds DEF Coming
    <3>3. ASSUME NEW q \in Refreshes, HasFetched(q)' PROVE e \in refresh'[q].items
      <4>1. CASE q = r
        BY <2>2, <2>4, <4>1, RefreshKinds
      <4>2. CASE q # r
        BY <2>2, <3>1, <3>3, <4>2 DEF Tracked, HasFetched
      <4> QED
        BY <4>1, <4>2
    <3> QED
      BY <2>1, <3>1, <3>2, <3>3 DEF Tracked, Unanswered, InLoop
  <2> QED
    BY <2>1, <2>3, <2>4
<1>8. ASSUME NEW r \in Refreshes, PostList(r) PROVE Goal
  <2>1. /\ UNCHANGED <<received_items, ui, app, open, page, telling, missed>>
        /\ HasFetched(r) /\ loop' = Append(loop, List(refresh[r].items))
        /\ refresh' = [refresh EXCEPT ![r] = NoRefresh]
    BY <1>8 DEF PostList, vars
  <2>2. refresh[r].items \in SUBSET Envelopes
    BY <1>a, <2>1, RefreshKinds DEF ViewTypes, RefreshStates, HasFetched
  <2>3. List(refresh[r].items) \in LoopEvents
    BY <2>2, EventTypes
  <2>4. refresh'[r] = NoRefresh /\ \A q \in Refreshes \ {r} : refresh'[q] = refresh[q]
    BY <1>a, <2>1 DEF ViewTypes
  <2>5. ViewTypes'
    <3>1. refresh' \in [Refreshes -> RefreshStates]
      BY <1>a, <2>1 DEF ViewTypes, RefreshStates
    <3>2. loop' \in Seq(LoopEvents)
      BY <1>a, <2>1, <2>3, PostedReaches
    <3> QED
      BY <1>a, <2>1, <3>1, <3>2 DEF ViewTypes
  <2>6. ASSUME NEW e \in DOMAIN received_items \ missed PROVE Tracked(e)'
    <3>1. Tracked(e)
      BY <1>c, <2>6
    <3>2. Brings(List(refresh[r].items), e)
      BY <2>1, <3>1, EventKinds DEF Tracked, Brings
    <3>3. Reaches(e)'
      BY <1>a, <2>1, <2>3, <3>2, PostedReaches
    <3>4. Answer(e) # List(refresh[r].items)
      BY EventKinds
    <3>5. InLoop(Answer(e))' => InLoop(Answer(e))
      BY <1>a, <2>1, <2>3, <3>4, PostedReaches
    <3>6. ~Unanswered(e)'
      BY <2>1, <3>1, <3>5 DEF Tracked, Unanswered
    <3>7. ASSUME NEW q \in Refreshes, HasFetched(q)' PROVE e \in refresh'[q].items
      <4>1. q # r
        BY <2>4, <3>7, RefreshKinds DEF HasFetched
      <4> QED
        BY <2>4, <3>1, <3>7, <4>1 DEF Tracked, HasFetched
    <3> QED
      BY <3>3, <3>6, <3>7 DEF Tracked
  <2> QED
    BY <2>1, <2>5, <2>6
<1>9. ASSUME NEW c \in Callers, Acted(c) PROVE Goal
  <2>1. /\ UNCHANGED <<received_items, app, open, page, telling, refresh, missed>>
        /\ ui' = [ui EXCEPT ![c] = Idle] /\ ui[c] # Idle
        /\ loop' = loop \/ loop' = Append(loop, Answer(ui[c].env))
    BY <1>9 DEF Acted, RejectItem, RemoveStaged, Idle
  <2>2. ui'[c] = Idle /\ \A b \in Callers \ {c} : ui'[b] = ui[b]
    BY <1>a, <2>1 DEF TypeOK
  <2>3. ui[c].env \in Envelopes
    BY <1>a, <2>1 DEF TypeOK, Acting
  <2>4. ASSUME NEW e \in DOMAIN received_items \ missed
        PROVE  e # ui[c].env /\ Tracked(e) /\ (Coming(e) => Coming(e)')
               /\ \A b \in Callers : ~(ui'[b] # Idle /\ ui'[b].env = e)
    <3>1. Tracked(e)
      BY <1>c, <2>4
    <3>2. \A b \in Callers : ~(ui[b] # Idle /\ ui[b].env = e)
      BY <3>1 DEF Tracked, Unanswered
    <3> QED
      BY <2>1, <2>2, <3>1, <3>2 DEF Coming
  <2>5. CASE loop' = loop
    <3>1. ViewTypes'
      BY <1>a, <2>1, <2>5 DEF ViewTypes
    <3>2. ASSUME NEW e \in DOMAIN received_items \ missed PROVE Tracked(e)'
      <4>1. ~InLoop(Answer(e))'
        BY <2>4, <2>5, <3>2 DEF Tracked, Unanswered, InLoop
      <4>2. ~Unanswered(e)'
        BY <2>4, <3>2, <4>1 DEF Unanswered
      <4>3. Reaches(e) => Reaches(e)'
        BY <2>1, <2>5 DEF Reaches, StaysAfter, Brings, Drops
      <4> QED
        BY <2>1, <2>4, <3>2, <4>2, <4>3 DEF Tracked, HasFetched
    <3> QED
      BY <2>1, <3>1, <3>2
  <2>6. CASE loop' = Append(loop, Answer(ui[c].env))
    <3>1. Answer(ui[c].env) \in LoopEvents
      BY <2>3, EventTypes
    <3>2. ViewTypes'
      BY <1>a, <2>1, <2>6, <3>1, PostedReaches DEF ViewTypes
    <3>3. ASSUME NEW e \in DOMAIN received_items \ missed PROVE Tracked(e)'
      <4>1. Answer(e) # Answer(ui[c].env) /\ ~InLoop(Answer(e))
        BY <2>4, <3>3, EventKinds DEF Tracked, Unanswered
      <4>2. ~InLoop(Answer(e))'
        BY <1>a, <2>1, <2>6, <3>1, <4>1, PostedReaches
      <4>3. ~Unanswered(e)'
        BY <2>4, <3>3, <4>2 DEF Unanswered
      <4>4. Reaches(e) => Reaches(e)'
        BY <1>a, <2>1, <2>6, <3>1, EventKinds, PostedReaches DEF Drops
      <4> QED
        BY <2>1, <2>4, <3>3, <4>3, <4>4 DEF Tracked, HasFetched
    <3> QED
      BY <2>1, <3>2, <3>3
  <2> QED
    BY <2>1, <2>5, <2>6
<1>10. CASE Resume
  <2>1. /\ UNCHANGED <<received_items, ui, app, page, loop, telling, missed>>
        /\ open' = TRUE
    BY <1>10 DEF Resume, vars
  <2>2. CASE app = "android"
    <3>1. PICK r \in Refreshes :
            refresh[r] = NoRefresh /\ refresh' = [refresh EXCEPT ![r] = Asked]
      BY <1>10, <2>2 DEF Resume
    <3>2. refresh'[r] = Asked /\ \A q \in Refreshes \ {r} : refresh'[q] = refresh[q]
      BY <1>a, <3>1 DEF ViewTypes
    <3>3. refresh' \in [Refreshes -> RefreshStates]
      BY <1>a, <3>1 DEF ViewTypes, RefreshStates
    <3>4. ViewTypes'
      BY <1>a, <2>1, <3>3 DEF ViewTypes
    <3>5. ASSUME NEW e \in DOMAIN received_items \ missed PROVE Tracked(e)'
      <4>1. Tracked(e)
        BY <1>c, <3>5
      <4>2. Coming(e)'
        BY <3>2, RefreshKinds DEF Coming
      <4>3. ASSUME NEW q \in Refreshes, HasFetched(q)' PROVE e \in refresh'[q].items
        <5>1. q # r
          BY <3>2, <4>3, RefreshKinds DEF HasFetched
        <5> QED
          BY <3>2, <4>1, <4>3, <5>1 DEF Tracked, HasFetched
      <4> QED
        BY <2>1, <4>1, <4>2, <4>3 DEF Tracked, Unanswered, InLoop
    <3> QED
      BY <2>1, <3>4, <3>5
  <2>3. CASE app # "android"
    <3>1. refresh' = refresh
      BY <1>10, <2>3 DEF Resume
    <3>2. ViewTypes'
      BY <1>a, <2>1, <3>1 DEF ViewTypes
    <3>3. ASSUME NEW e \in DOMAIN received_items \ missed PROVE Tracked(e)'
      <4>1. Tracked(e)
        BY <1>c, <3>3
      <4>2. Coming(e) => Coming(e)'
        BY <2>1, <2>3, <3>1 DEF Coming
      <4>3. Reaches(e) => Reaches(e)'
        BY <2>1 DEF Reaches, StaysAfter, Brings, Drops
      <4> QED
        BY <2>1, <3>1, <4>1, <4>2, <4>3 DEF Tracked, Unanswered, InLoop, HasFetched
    <3> QED
      BY <2>1, <3>2, <3>3
  <2> QED
    BY <2>2, <2>3
<1>11. CASE Pause
  <2>1. /\ UNCHANGED <<received_items, ui, app, page, loop, telling, refresh, missed>>
        /\ open' = FALSE /\ app = "android"
    BY <1>11 DEF Pause, vars
  <2>2. ViewTypes'
    BY <1>a, <2>1 DEF ViewTypes
  <2>3. ASSUME NEW e \in DOMAIN received_items \ missed PROVE Tracked(e)'
    <3>1. Tracked(e)
      BY <1>c, <2>3
    <3>2. Coming(e)'
      BY <2>1 DEF Coming
    <3> QED
      BY <2>1, <3>1, <3>2 DEF Tracked, Unanswered, InLoop, HasFetched
  <2> QED
    BY <2>1, <2>2, <2>3
<1>12. ASSUME NEW c \in Callers, NEW x \in Envelopes, NEW action,
              ActOnItem(c, x, action), UNCHANGED <<app, view>>
       PROVE  Goal
  <2>1. DOMAIN received_items' = DOMAIN received_items \ {x}
    <3>1. received_items' = Without(received_items, {x})
      BY <1>12 DEF ActOnItem
    <3>2. received_items \in [DOMAIN received_items -> Item]
      BY DEF ViewsInv, TypeOK
    <3>3. Without(received_items, {x}) \in [DOMAIN received_items \ {x} -> Item]
      BY <3>2, WithoutMap
    <3> QED
      BY <3>1, <3>3
  <2>2. ui'[c].env = x /\ \A b \in Callers \ {c} : ui'[b] = ui[b]
    BY <1>12, <1>a DEF ActOnItem, TypeOK
  <2>3. ASSUME NEW e \in DOMAIN received_items' \ missed' PROVE Tracked(e)'
    <3>1. Tracked(e) /\ e # x
      BY <1>d, <2>1, <2>3
    <3>2. Unanswered(e)' => Unanswered(e)
      BY <1>12, <2>2, <3>1 DEF Unanswered, InLoop, view
    <3> QED
      BY <1>12, <3>1, <3>2, ViewsAlone
  <2> QED
    BY <1>12, <1>f, <2>3
<1>13. ASSUME NEW x \in Envelopes, ActOnNothing(x) PROVE Goal
  <2>1. /\ UNCHANGED <<received_items, ui, app, open, page, telling, refresh, missed>>
        /\ loop' = Append(loop, Answer(x)) /\ x \notin DOMAIN received_items
    BY <1>13 DEF ActOnNothing, vars
  <2>2. Answer(x) \in LoopEvents
    BY EventTypes
  <2>3. ViewTypes'
    BY <1>a, <2>1, <2>2, PostedReaches DEF ViewTypes
  <2>4. ASSUME NEW e \in DOMAIN received_items \ missed PROVE Tracked(e)'
    <3>1. Tracked(e)
      BY <1>c, <2>4
    <3>2. Answer(e) # Answer(x) /\ ~InLoop(Answer(e))
      BY <2>1, <2>4, <3>1, EventKinds DEF Tracked, Unanswered
    <3>3. ~InLoop(Answer(e))'
      BY <1>a, <2>1, <2>2, <3>2, PostedReaches
    <3>4. ~Unanswered(e)'
      BY <2>1, <3>1, <3>3 DEF Tracked, Unanswered
    <3>5. Reaches(e) => Reaches(e)'
      BY <1>a, <2>1, <2>2, EventKinds, PostedReaches DEF Drops
    <3>6. Coming(e) => Coming(e)'
      BY <2>1 DEF Coming
    <3> QED
      BY <2>1, <3>1, <3>4, <3>5, <3>6 DEF Tracked, HasFetched
  <2> QED
    BY <2>1, <2>3, <2>4
<1>14. CASE UNCHANGED allVars
  <2>1. UNCHANGED <<received_items, ui, app, view>>
    BY <1>14 DEF allVars, vars
  <2>2. \A e : Unanswered(e)' <=> Unanswered(e)
    BY <2>1 DEF Unanswered, InLoop, view
  <2>3. \A e \in DOMAIN received_items \ missed' : Tracked(e)'
    BY <1>d, <2>1, <2>2, ViewsAlone
  <2> QED
    BY <1>f, <2>1, <2>3
<1> QED
  BY <1>1, <1>2, <1>4, <1>5, <1>6, <1>7, <1>8, <1>9, <1>10, <1>11, <1>12, <1>13, <1>14
  DEF NextViews, Core, Loop, Beside, User, Act, ActByNotification

\* No item in the inbox stays hidden from a window that is open, apart from those
\* that crossed one of the three things NothingHidden names.
THEOREM NothingIsHidden == SpecViews => []NothingHidden
<1>1. InitViews => ViewsInv
  <2> SUFFICES ASSUME InitViews PROVE ViewsInv
    OBVIOUS
  <2>1. TypeOK /\ TablesAgree
    BY SizesAssumption DEF InitViews, Init, TypeOK, TablesAgree, Times
  <2>2. ViewTypes
    <3>1. refresh \in [Refreshes -> RefreshStates]
      BY DEF InitViews, Launched, RefreshStates
    <3>2. open \in BOOLEAN /\ app \in {"desktop", "android"}
      BY AppsAssumption DEF InitViews
    <3>3. loop \in Seq(LoopEvents)
      BY DEF InitViews
    <3> QED
      BY <3>1, <3>2, <3>3 DEF ViewTypes
  <2>3. ItemsTracked
    BY DEF InitViews, Init, ItemsTracked
  <2> QED
    BY <2>1, <2>2, <2>3 DEF ViewsInv
<1>2. ViewsInv /\ [NextViews]_allVars => ViewsInv'
  BY CoreStep, ViewsStep DEF ViewsInv
<1>3. ViewsInv => NothingHidden
  <2> SUFFICES ASSUME ViewsInv, open, \A r \in Refreshes : refresh[r] = NoRefresh,
                      NEW e \in DOMAIN received_items \ missed
               PROVE  \/ e \in page
                      \/ telling = {e}
                      \/ InLoop(Notice(e))
                      \/ \E i \in DOMAIN loop : loop[i].is = "list" /\ e \in loop[i].items
    BY DEF NothingHidden
  <2>1. telling = {e} \/ Reaches(e)
    BY DEF ViewsInv, ItemsTracked, Tracked, Coming
  <2> QED
    BY <2>1 DEF Reaches, Brings, InLoop
<1> QED
  BY <1>1, <1>2, <1>3, PTL DEF SpecViews

=============================================================================

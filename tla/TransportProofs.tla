--------------------------- MODULE TransportProofs ---------------------------
(***************************************************************************)
(* Proofs about Transport, for any number of nodes, senders and messages   *)
(* and pipes of any capacity: the types, that nothing is called back once  *)
(* stop() has returned, that no message is lost, repeated or overtaken     *)
(* before it is handled, and that an ack says the truth.                   *)
(***************************************************************************)
EXTENDS Transport, TLAPS

\* stop() goes on only when the I/O thread has ended, and returns only when the
\* ZAP thread has ended too.
Joined ==
  \A n \in Nodes :
    /\ stop[n] # "no" => ~running[n] /\ pc[n] = "exited"
    /\ stop[n] = "returned" => zap[n] = "ended"

TransportInv == TypeOK /\ Joined

-----------------------------------------------------------------------------
(* Lemmas *)

\* A command of the right kind keeps the types of the queues.
LEMMA QueueTypes ==
  ASSUME TypeOK, NEW n \in Nodes, NEW p \in Nodes, NEW i \in Numbers,
         NEW type \in {"send", "reply"}, Queue(n, type, p, i)
  PROVE  commands' \in [Nodes -> Seq(Command)]
<1>1. [type |-> type, to |-> p, num |-> i] \in Command
  BY DEF Command
<1>2. Append(commands[n], [type |-> type, to |-> p, num |-> i]) \in Seq(Command)
  BY <1>1 DEF TypeOK
<1> QED
  BY <1>2 DEF Queue, TypeOK

\* The first of a queue, and the queue without it.
LEMMA HeadAndTail ==
  ASSUME NEW S, NEW s \in Seq(S), s # <<>>
  PROVE  Head(s) \in S /\ Tail(s) \in Seq(S)
OBVIOUS

\* The command that io_loop handles.
LEMMA HandledCommand ==
  ASSUME TypeOK, NEW n \in Nodes, NEW type, Handles(n, type)
  PROVE  /\ Head(batch[n]) \in Command
         /\ batch' \in [Nodes -> Seq(Command)]
<1>1. batch[n] \in Seq(Command) /\ batch[n] # <<>>
  BY DEF TypeOK, Handles
<1>2. Head(batch[n]) \in Command /\ Tail(batch[n]) \in Seq(Command)
  BY <1>1, HeadAndTail
<1> QED
  BY <1>2 DEF TypeOK, Handles

-----------------------------------------------------------------------------
(* The invariant *)

LEMMA InitInv == Init => TransportInv
<1> SUFFICES ASSUME Init PROVE TransportInv
  OBVIOUS
<1>1. TypeOK
  BY TransportAssumption DEF Init, TypeOK, Links, Command, Numbers
<1>2. Joined
  BY DEF Init, Joined
<1> QED
  BY <1>1, <1>2 DEF TransportInv

LEMMA TypeStep == TypeOK /\ [Next]_vars => TypeOK'
<1> SUFFICES ASSUME TypeOK, [Next]_vars PROVE TypeOK'
  OBVIOUS
<1> USE TransportAssumption
<1>1. ASSUME NEW n \in Nodes, NEW p \in Nodes \ {n}, SendToPeer(n, p) PROVE TypeOK'
  <2>1. <<n, p>> \in Links /\ sent[<<n, p>>] + 1 \in Numbers
    <3>1. <<n, p>> \in Links
      BY DEF Links
    <3>2. sent[<<n, p>>] \in 0 .. MaxSends /\ sent[<<n, p>>] < MaxSends
      BY <1>1, <3>1 DEF SendToPeer, TypeOK
    <3> QED
      BY <3>1, <3>2 DEF Numbers
  <2>2. commands' \in [Nodes -> Seq(Command)]
    BY <1>1, <2>1, QueueTypes DEF SendToPeer
  <2>3. sent' \in [Links -> 0 .. MaxSends]
    BY <1>1, <2>1 DEF SendToPeer, Numbers, TypeOK
  <2> QED
    BY <1>1, <2>2, <2>3 DEF SendToPeer, TypeOK, zapVars
<1>2. ASSUME NEW n \in Nodes, Stop(n) PROVE TypeOK'
  BY <1>2 DEF Stop, TypeOK, zapVars
<1>3. ASSUME NEW n \in Nodes, StopZap(n) PROVE TypeOK'
  BY <1>3 DEF StopZap, TypeOK, zapVars
<1>4. ASSUME NEW n \in Nodes, StopReturns(n) PROVE TypeOK'
  BY <1>4 DEF StopReturns, TypeOK, zapVars
<1>5. ASSUME NEW n \in Nodes, NEW p \in Nodes \ {n}, ZapAnswers(n, p) PROVE TypeOK'
  BY <1>5 DEF ZapAnswers, TypeOK, Links
<1>6. ASSUME NEW n \in Nodes, ZapEnds(n) PROVE TypeOK'
  BY <1>6 DEF ZapEnds, TypeOK
<1>7. ASSUME NEW n \in Nodes, TakeCommands(n) PROVE TypeOK'
  BY <1>7 DEF TakeCommands, TypeOK, zapVars
<1>8. ASSUME NEW n \in Nodes, ExitLoop(n) PROVE TypeOK'
  BY <1>8 DEF ExitLoop, TypeOK, zapVars
<1>9. ASSUME NEW n \in Nodes, HandleSend(n) PROVE TypeOK'
  <2> DEFINE c == Head(batch[n])
             l == <<n, c.to>>
  <2>1. c \in Command /\ batch' \in [Nodes -> Seq(Command)]
    BY <1>9, HandledCommand DEF HandleSend
  <2>2. c.to \in Nodes /\ c.num \in Numbers
    BY <2>1 DEF Command
  <2>3. pipe' \in [Links -> Seq(Numbers)]
    <3>1. l \in Links => Append(pipe[l], c.num) \in Seq(Numbers)
      BY <2>2 DEF TypeOK
    <3> QED
      BY <1>9, <3>1 DEF HandleSend, TypeOK
  <2>4. link' \in [Links -> {"none", "asking", "open"}]
    BY <1>9 DEF HandleSend, TypeOK
  <2>5. dealers' \in [Nodes -> SUBSET Nodes]
    BY <1>9, <2>2 DEF HandleSend, TypeOK
  <2> QED
    BY <1>9, <2>1, <2>3, <2>4, <2>5 DEF HandleSend, TypeOK
<1>10. ASSUME NEW n \in Nodes, HandleReply(n) PROVE TypeOK'
  <2> DEFINE c == Head(batch[n])
             l == <<c.to, n>>
  <2>1. c \in Command /\ batch' \in [Nodes -> Seq(Command)]
    BY <1>10, HandledCommand DEF HandleReply
  <2>2. c.num \in Numbers
    BY <2>1 DEF Command
  <2>3. back' \in [Links -> Seq(Numbers)]
    <3>1. l \in Links => Append(back[l], c.num) \in Seq(Numbers)
      BY <2>2 DEF TypeOK
    <3> QED
      BY <1>10, <3>1 DEF HandleReply, TypeOK
  <2> QED
    BY <1>10, <2>1, <2>3 DEF HandleReply, TypeOK, zapVars
<1>11. ASSUME NEW n \in Nodes, Poll(n) PROVE TypeOK'
  <2>1. {p \in dealers[n] : back[<<n, p>>] # <<>>} \in SUBSET Nodes
    BY DEF TypeOK
  <2> QED
    BY <1>11, <2>1 DEF Poll, TypeOK, zapVars
<1>12. ASSUME NEW n \in Nodes, NEW p \in Nodes \ {n}, DrainRouter(n, p) PROVE TypeOK'
  <2>1. <<p, n>> \in Links
    BY DEF Links
  <2>2. /\ Head(pipe[<<p, n>>]) \in Numbers
        /\ Tail(pipe[<<p, n>>]) \in Seq(Numbers)
    BY <1>12, <2>1, HeadAndTail DEF DrainRouter, TypeOK
  <2>3. pipe' \in [Links -> Seq(Numbers)]
    BY <1>12, <2>1, <2>2 DEF DrainRouter, TypeOK
  <2>4. handled' \in [Links -> Seq(Numbers)]
    <3>1. Append(handled[<<p, n>>], Head(pipe[<<p, n>>])) \in Seq(Numbers)
      BY <2>1, <2>2 DEF TypeOK
    <3> QED
      BY <1>12, <2>1, <3>1 DEF DrainRouter, TypeOK
  <2>5. commands' \in [Nodes -> Seq(Command)]
    BY <1>12, <2>2, QueueTypes DEF DrainRouter
  <2> QED
    BY <1>12, <2>3, <2>4, <2>5 DEF DrainRouter, TypeOK, zapVars
<1>13. ASSUME NEW n \in Nodes, RouterDrained(n) PROVE TypeOK'
  BY <1>13 DEF RouterDrained, TypeOK, zapVars
<1>14. ASSUME NEW n \in Nodes, NEW p \in Nodes \ {n}, DrainDealer(n, p) PROVE TypeOK'
  <2>1. <<n, p>> \in Links
    BY DEF Links
  <2>2. /\ Head(back[<<n, p>>]) \in Numbers
        /\ Tail(back[<<n, p>>]) \in Seq(Numbers)
    BY <1>14, <2>1, HeadAndTail DEF DrainDealer, TypeOK
  <2>3. back' \in [Links -> Seq(Numbers)]
    BY <1>14, <2>1, <2>2 DEF DrainDealer, TypeOK
  <2>4. acked' \in [Links -> Seq(Numbers)]
    <3>1. Append(acked[<<n, p>>], Head(back[<<n, p>>])) \in Seq(Numbers)
      BY <2>1, <2>2 DEF TypeOK
    <3> QED
      BY <1>14, <2>1, <3>1 DEF DrainDealer, TypeOK
  <2> QED
    BY <1>14, <2>3, <2>4 DEF DrainDealer, TypeOK, zapVars
<1>15. ASSUME NEW n \in Nodes, NEW p \in Nodes \ {n}, DealerDrained(n, p) PROVE TypeOK'
  BY <1>15 DEF DealerDrained, TypeOK, zapVars
<1>16. ASSUME NEW n \in Nodes, NextRound(n) PROVE TypeOK'
  BY <1>16 DEF NextRound, TypeOK, zapVars
<1>17. CASE UNCHANGED vars
  BY <1>17 DEF vars, zapVars, TypeOK
<1> QED
  BY <1>1, <1>2, <1>3, <1>4, <1>5, <1>6, <1>7, <1>8, <1>9, <1>10,
      <1>11, <1>12, <1>13, <1>14, <1>15, <1>16, <1>17
  DEF Next, IOLoop, ZapThread

\* stop() cannot overtake a thread: an I/O thread that has exited does not come
\* back, and neither does a ZAP thread.
LEMMA JoinedStep == TypeOK /\ Joined /\ [Next]_vars => Joined'
<1> SUFFICES ASSUME TypeOK, Joined, [Next]_vars PROVE Joined'
  OBVIOUS
<1>1. ASSUME NEW n \in Nodes, Stop(n) PROVE Joined'
  BY <1>1 DEF Stop, Joined, TypeOK, zapVars
<1>2. ASSUME NEW n \in Nodes, StopZap(n) PROVE Joined'
  BY <1>2 DEF StopZap, Joined, TypeOK, zapVars
<1>3. ASSUME NEW n \in Nodes, StopReturns(n) PROVE Joined'
  BY <1>3 DEF StopReturns, Joined, TypeOK, zapVars
<1>4. ASSUME NEW n \in Nodes, IOLoop(n) PROVE Joined'
  <2>1. UNCHANGED <<running, stop, zap>> /\ pc[n] # "exited"
    BY <1>4 DEF IOLoop, TakeCommands, ExitLoop, HandleSend, HandleReply, Handles, Poll,
         DrainRouter, RouterDrained, DrainDealer, DealerDrained, NextRound, zapVars
  <2>2. \A m \in Nodes \ {n} : pc'[m] = pc[m]
    BY <1>4 DEF IOLoop, TakeCommands, ExitLoop, HandleSend, HandleReply, Handles, Poll,
         DrainRouter, RouterDrained, DrainDealer, DealerDrained, NextRound, TypeOK
  <2> QED
    BY <2>1, <2>2 DEF Joined
<1>5. ASSUME NEW n \in Nodes, ZapThread(n) PROVE Joined'
  <2>1. UNCHANGED <<stop, running, pc>>
    BY <1>5 DEF ZapThread, ZapAnswers, ZapEnds
  <2>2. zap' = zap \/ zap' = [zap EXCEPT ![n] = "ended"]
    BY <1>5 DEF ZapThread, ZapAnswers, ZapEnds
  <2> QED
    BY <2>1, <2>2 DEF Joined, TypeOK
<1>6. ASSUME NEW n \in Nodes, NEW p \in Nodes \ {n}, SendToPeer(n, p) PROVE Joined'
  BY <1>6 DEF SendToPeer, Joined, zapVars
<1>7. CASE UNCHANGED vars
  BY <1>7 DEF vars, zapVars, Joined
<1> QED
  BY <1>1, <1>2, <1>3, <1>4, <1>5, <1>6, <1>7 DEF Next

\* Types: for any number of nodes and messages the variables keep their types.
THEOREM TypeCorrect == Spec => []TypeOK
<1>1. TypeOK /\ [Next]_vars => TypeOK'
  BY TypeStep
<1>2. Init => TypeOK
  BY InitInv DEF TransportInv
<1> QED
  BY <1>1, <1>2, PTL DEF Spec

-----------------------------------------------------------------------------
(* Silence after stop() *)

\* What one step may do to a node whose stop() has returned: nothing that is
\* visible to its owner.
QuietStep ==
  \A l \in Links :
    /\ stop[l[2]] = "returned" =>
         /\ handled'[l] = handled[l]
         /\ (link[l] = "asking") => (link'[l] = "asking")
    /\ stop[l[1]] = "returned" => acked'[l] = acked[l]

\* Each callback is a step of a thread that has not ended.
LEMMA StepIsQuiet == TransportInv /\ [Next]_vars => QuietStep
<1> SUFFICES ASSUME TransportInv, [Next]_vars, NEW l \in Links
             PROVE  /\ stop[l[2]] = "returned" =>
                         /\ handled'[l] = handled[l]
                         /\ (link[l] = "asking") => (link'[l] = "asking")
                    /\ stop[l[1]] = "returned" => acked'[l] = acked[l]
  BY DEF QuietStep
<1> USE DEF TransportInv
<1>1. /\ l[1] \in Nodes /\ l[2] \in Nodes
      /\ l = <<l[1], l[2]>>
  BY DEF Links
<1>2. ASSUME NEW n \in Nodes, NEW p \in Nodes \ {n}, DrainRouter(n, p),
             stop[l[2]] = "returned"
      PROVE  handled'[l] = handled[l]
  <2>1. l # <<p, n>>
    BY <1>1, <1>2 DEF DrainRouter, Joined
  <2> QED
    BY <1>2, <2>1 DEF DrainRouter, TypeOK
<1>3. ASSUME NEW n \in Nodes, NEW p \in Nodes \ {n}, DrainDealer(n, p),
             stop[l[1]] = "returned"
      PROVE  acked'[l] = acked[l]
  <2>1. l # <<n, p>>
    BY <1>1, <1>3 DEF DrainDealer, Joined
  <2> QED
    BY <1>3, <2>1 DEF DrainDealer, TypeOK
<1>4. ASSUME NEW n \in Nodes, NEW p \in Nodes \ {n}, ZapAnswers(n, p),
             stop[l[2]] = "returned"
      PROVE  link'[l] = link[l]
  <2>1. l # <<p, n>>
    BY <1>1, <1>4 DEF ZapAnswers, Joined
  <2> QED
    BY <1>4, <2>1 DEF ZapAnswers, TypeOK
<1>5. stop[l[2]] = "returned" => handled'[l] = handled[l]
  BY <1>2 DEF Next, IOLoop, ZapThread, SendToPeer, Stop, StopZap, StopReturns, ZapAnswers,
       ZapEnds, TakeCommands, ExitLoop, HandleSend, HandleReply, Poll, RouterDrained,
       DrainDealer, DealerDrained, NextRound, vars
<1>6. stop[l[1]] = "returned" => acked'[l] = acked[l]
  BY <1>3 DEF Next, IOLoop, ZapThread, SendToPeer, Stop, StopZap, StopReturns, ZapAnswers,
       ZapEnds, TakeCommands, ExitLoop, HandleSend, HandleReply, Poll, RouterDrained,
       DrainRouter, DealerDrained, NextRound, vars
<1>7. stop[l[2]] = "returned" /\ link[l] = "asking" => link'[l] = "asking"
  <2>1. ASSUME NEW n \in Nodes, HandleSend(n), link[l] = "asking"
        PROVE  link'[l] = "asking"
    BY <2>1 DEF HandleSend, TypeOK
  <2> QED
    BY <1>4, <2>1 DEF Next, IOLoop, ZapThread, SendToPeer, Stop, StopZap, StopReturns,
         ZapEnds, TakeCommands, ExitLoop, HandleReply, Poll, RouterDrained, DrainRouter,
         DrainDealer, DealerDrained, NextRound, vars, zapVars
<1> QED
  BY <1>5, <1>6, <1>7

\* Silence: once stop() has returned, neither on_message_ nor is_allowed_ is called
\* again on that node, however many others go on sending to it.
THEOREM StopIsFinal == Spec => QuietAfterStop
<1>1. Init => TransportInv
  BY InitInv
<1>2. TransportInv /\ [Next]_vars => TransportInv'
  BY TypeStep, JoinedStep DEF TransportInv
<1>3. TransportInv /\ [Next]_vars => [QuietStep]_vars
  BY StepIsQuiet
<1>4. Spec => [][QuietStep]_vars
  BY <1>1, <1>2, <1>3, PTL DEF Spec
<1> QED
  BY <1>4 DEF QuietAfterStop, QuietStep

-----------------------------------------------------------------------------
(* Queues *)

\* What one queue after the other holds.
LEMMA Joined2 ==
  ASSUME NEW S, NEW s \in Seq(S), NEW t \in Seq(S)
  PROVE  /\ s \o t \in Seq(S)
         /\ Len(s \o t) = Len(s) + Len(t) /\ Len(s) \in Nat /\ Len(t) \in Nat
         /\ DOMAIN (s \o t) = 1 .. (Len(s) + Len(t))
         /\ \A i \in 1 .. Len(s) : (s \o t)[i] = s[i]
         /\ \A i \in (Len(s) + 1) .. (Len(s) + Len(t)) : (s \o t)[i] = t[i - Len(s)]
OBVIOUS

LEMMA Appended ==
  ASSUME NEW S, NEW s \in Seq(S), NEW v \in S
  PROVE  /\ Append(s, v) \in Seq(S) /\ Len(s) \in Nat
         /\ Len(Append(s, v)) = Len(s) + 1
         /\ DOMAIN s = 1 .. Len(s) /\ DOMAIN Append(s, v) = 1 .. (Len(s) + 1)
         /\ Append(s, v)[Len(s) + 1] = v
         /\ \A i \in 1 .. Len(s) : Append(s, v)[i] = s[i]
OBVIOUS

LEMMA Taken ==
  ASSUME NEW S, NEW s \in Seq(S), s # <<>>
  PROVE  /\ Tail(s) \in Seq(S) /\ Len(s) \in Nat \ {0} /\ Head(s) = s[1] /\ Head(s) \in S
         /\ Len(Tail(s)) = Len(s) - 1
         /\ DOMAIN s = 1 .. Len(s) /\ 1 \in DOMAIN s
         /\ DOMAIN Tail(s) = 1 .. (Len(s) - 1)
         /\ \A i \in 1 .. (Len(s) - 1) : Tail(s)[i] = s[i + 1]
OBVIOUS

\* Sequences that agree everywhere are the same.
LEMMA SameSequence ==
  ASSUME NEW S, NEW s \in Seq(S), NEW t \in Seq(S), Len(s) = Len(t),
         \A i \in 1 .. Len(s) : s[i] = t[i]
  PROVE  s = t
OBVIOUS

LEMMA WiderSequence ==
  ASSUME NEW S, NEW T, S \subseteq T, NEW s \in Seq(S)
  PROVE  s \in Seq(T)
OBVIOUS

\* A queue that grows at its end grows the whole.
LEMMA AppendedToSecond ==
  ASSUME NEW S, NEW s \in Seq(S), NEW t \in Seq(S), NEW v \in S
  PROVE  s \o Append(t, v) = Append(s \o t, v)
<1> DEFINE a == s \o Append(t, v)
           b == Append(s \o t, v)
           st == s \o t
           tv == Append(t, v)
<1>1. /\ st \in Seq(S) /\ Len(st) = Len(s) + Len(t) /\ Len(s) \in Nat /\ Len(t) \in Nat
      /\ \A i \in 1 .. Len(s) : st[i] = s[i]
      /\ \A i \in (Len(s) + 1) .. (Len(s) + Len(t)) : st[i] = t[i - Len(s)]
  BY Joined2
<1>2. /\ tv \in Seq(S) /\ Len(tv) = Len(t) + 1 /\ tv[Len(t) + 1] = v
      /\ \A i \in 1 .. Len(t) : tv[i] = t[i]
  BY Appended
<1> HIDE DEF st, tv
<1>3. /\ s \o tv \in Seq(S) /\ Len(s \o tv) = Len(s) + Len(t) + 1
      /\ \A i \in 1 .. Len(s) : (s \o tv)[i] = s[i]
      /\ \A i \in (Len(s) + 1) .. (Len(s) + Len(t) + 1) : (s \o tv)[i] = tv[i - Len(s)]
  <2> DEFINE x == s \o tv
  <2>1. tv \in Seq(S)
    BY <1>2
  <2>2. /\ x \in Seq(S) /\ Len(x) = Len(s) + Len(tv)
        /\ \A i \in 1 .. Len(s) : x[i] = s[i]
        /\ \A i \in (Len(s) + 1) .. (Len(s) + Len(tv)) : x[i] = tv[i - Len(s)]
    BY <2>1
  <2> HIDE DEF x
  <2>3. Len(s) + Len(tv) = Len(s) + Len(t) + 1
    BY <1>1, <1>2
  <2>4. /\ x \in Seq(S) /\ Len(x) = Len(s) + Len(t) + 1
        /\ \A i \in 1 .. Len(s) : x[i] = s[i]
        /\ \A i \in (Len(s) + 1) .. (Len(s) + Len(t) + 1) : x[i] = tv[i - Len(s)]
    BY <2>2, <2>3
  <2> QED
    BY <2>4 DEF x
<1>4. /\ Append(st, v) \in Seq(S) /\ Len(Append(st, v)) = Len(s) + Len(t) + 1
      /\ Append(st, v)[Len(s) + Len(t) + 1] = v
      /\ \A i \in 1 .. (Len(s) + Len(t)) : Append(st, v)[i] = st[i]
  BY <1>1, Appended
<1>5. a \in Seq(S) /\ b \in Seq(S) /\ Len(a) = Len(b) /\ Len(a) = Len(s) + Len(t) + 1
  BY <1>3, <1>4 DEF st, tv
<1>6. ASSUME NEW i \in 1 .. (Len(s) + Len(t) + 1) PROVE a[i] = b[i]
  <2>1. CASE i \in 1 .. Len(s)
    <3>1. a[i] = s[i] /\ i \in 1 .. (Len(s) + Len(t))
      BY <1>1, <1>3, <2>1 DEF tv
    <3> QED
      BY <1>1, <1>4, <2>1, <3>1 DEF st
  <2>2. CASE i \in (Len(s) + 1) .. (Len(s) + Len(t))
    <3>1. i \in (Len(s) + 1) .. (Len(s) + Len(t) + 1) /\ i - Len(s) \in 1 .. Len(t)
          /\ i \in 1 .. (Len(s) + Len(t))
      BY <1>1, <2>2
    <3> QED
      BY <1>1, <1>2, <1>3, <1>4, <2>2, <3>1 DEF st, tv
  <2>3. CASE i = Len(s) + Len(t) + 1
    <3>1. i \in (Len(s) + 1) .. (Len(s) + Len(t) + 1) /\ i - Len(s) = Len(t) + 1
      BY <1>1, <2>3
    <3> QED
      BY <1>2, <1>3, <1>4, <2>3, <3>1 DEF st, tv
  <2> QED
    BY <1>1, <2>1, <2>2, <2>3
<1> HIDE DEF a, b
<1>7. a = b
  BY <1>5, <1>6, SameSequence
<1> QED
  BY <1>7 DEF a, b

\* A queue that is taken from at its head.
LEMMA TakenFromFirst ==
  ASSUME NEW S, NEW s \in Seq(S), NEW t \in Seq(S), s # <<>>
  PROVE  /\ s \o t # <<>>
         /\ Head(s \o t) = Head(s)
         /\ Tail(s) \o t = Tail(s \o t)
<1> DEFINE st == s \o t
           tl == Tail(s)
<1>1. /\ st \in Seq(S) /\ Len(st) = Len(s) + Len(t) /\ Len(t) \in Nat
      /\ DOMAIN st = 1 .. (Len(s) + Len(t))
      /\ \A i \in 1 .. Len(s) : st[i] = s[i]
      /\ \A i \in (Len(s) + 1) .. (Len(s) + Len(t)) : st[i] = t[i - Len(s)]
  BY Joined2
<1>2. /\ tl \in Seq(S) /\ Len(tl) = Len(s) - 1 /\ Len(s) \in Nat \ {0} /\ Head(s) = s[1]
      /\ \A i \in 1 .. (Len(s) - 1) : tl[i] = s[i + 1]
  BY Taken
<1> HIDE DEF st, tl
<1>3. st # <<>>
  BY <1>1, <1>2
<1>4. /\ Tail(st) \in Seq(S) /\ Len(Tail(st)) = Len(s) + Len(t) - 1 /\ Head(st) = st[1]
      /\ \A i \in 1 .. (Len(s) + Len(t) - 1) : Tail(st)[i] = st[i + 1]
  BY <1>1, <1>3, Taken
<1>5. Head(st) = Head(s)
  BY <1>1, <1>2, <1>4
<1>6. /\ tl \o t \in Seq(S) /\ Len(tl \o t) = Len(s) - 1 + Len(t)
      /\ \A i \in 1 .. (Len(s) - 1) : (tl \o t)[i] = tl[i]
      /\ \A i \in Len(s) .. (Len(s) - 1 + Len(t)) : (tl \o t)[i] = t[i - (Len(s) - 1)]
  <2> DEFINE x == tl \o t
  <2>1. /\ x \in Seq(S) /\ Len(x) = Len(tl) + Len(t)
        /\ \A i \in 1 .. Len(tl) : x[i] = tl[i]
        /\ \A i \in (Len(tl) + 1) .. (Len(tl) + Len(t)) : x[i] = t[i - Len(tl)]
    <3>1. tl \in Seq(S)
      BY <1>2
    <3> QED
      BY <3>1
  <2>2. Len(tl) + 1 = Len(s)
    BY <1>2
  <2> HIDE DEF x
  <2>3. /\ x \in Seq(S) /\ Len(x) = Len(s) - 1 + Len(t)
        /\ \A i \in 1 .. (Len(s) - 1) : x[i] = tl[i]
        /\ \A i \in Len(s) .. (Len(s) - 1 + Len(t)) : x[i] = t[i - (Len(s) - 1)]
    BY <1>2, <2>1, <2>2
  <2> QED
    BY <2>3 DEF x
<1>7. ASSUME NEW i \in 1 .. (Len(s) - 1 + Len(t)) PROVE (tl \o t)[i] = Tail(st)[i]
  <2>1. CASE i \in 1 .. (Len(s) - 1)
    <3>1. i + 1 \in 1 .. Len(s) /\ i \in 1 .. (Len(s) + Len(t) - 1)
      BY <1>1, <1>2, <2>1
    <3> QED
      BY <1>1, <1>2, <1>4, <1>6, <2>1, <3>1
  <2>2. CASE i \in Len(s) .. (Len(s) - 1 + Len(t))
    <3>1. /\ i + 1 \in (Len(s) + 1) .. (Len(s) + Len(t)) /\ i \in 1 .. (Len(s) + Len(t) - 1)
          /\ (i + 1) - Len(s) = i - (Len(s) - 1)
      BY <1>1, <1>2, <2>2
    <3> QED
      BY <1>1, <1>4, <1>6, <2>2, <3>1
  <2> QED
    BY <1>1, <1>2, <2>1, <2>2
<1> DEFINE a == tl \o t
           b == Tail(st)
<1>8. a \in Seq(S) /\ b \in Seq(S) /\ Len(a) = Len(b) /\ \A i \in 1 .. Len(a) : a[i] = b[i]
  BY <1>1, <1>2, <1>4, <1>6, <1>7
<1> HIDE DEF a, b
<1>9. a = b
  BY <1>8, SameSequence
<1> QED
  BY <1>3, <1>5, <1>9 DEF a, b, st, tl

\* What is taken from the second of two queues and put at the end of the first.
LEMMA Passed ==
  ASSUME NEW S, NEW s \in Seq(S), NEW t \in Seq(S), t # <<>>
  PROVE  Append(s, Head(t)) \o Tail(t) = s \o t
<1> DEFINE sh == Append(s, Head(t))
           tl == Tail(t)
           st == s \o t
<1>1. /\ st \in Seq(S) /\ Len(st) = Len(s) + Len(t) /\ Len(s) \in Nat
      /\ \A i \in 1 .. Len(s) : st[i] = s[i]
      /\ \A i \in (Len(s) + 1) .. (Len(s) + Len(t)) : st[i] = t[i - Len(s)]
  BY Joined2
<1>2. /\ tl \in Seq(S) /\ Len(tl) = Len(t) - 1 /\ Len(t) \in Nat \ {0} /\ Head(t) = t[1]
      /\ \A i \in 1 .. (Len(t) - 1) : tl[i] = t[i + 1]
      /\ Head(t) \in S
  BY Taken
<1>3. /\ sh \in Seq(S) /\ Len(sh) = Len(s) + 1 /\ sh[Len(s) + 1] = t[1]
      /\ \A i \in 1 .. Len(s) : sh[i] = s[i]
  BY <1>2, Appended
<1> HIDE DEF sh, tl, st
<1> DEFINE x == sh \o tl
<1>4. /\ x \in Seq(S) /\ Len(x) = Len(sh) + Len(tl)
      /\ \A i \in 1 .. Len(sh) : x[i] = sh[i]
      /\ \A i \in (Len(sh) + 1) .. (Len(sh) + Len(tl)) : x[i] = tl[i - Len(sh)]
  <2>1. sh \in Seq(S) /\ tl \in Seq(S)
    BY <1>2, <1>3
  <2> QED
    BY <2>1
<1> HIDE DEF x
<1>5. Len(x) = Len(st) /\ Len(sh) + Len(tl) = Len(s) + Len(t)
  BY <1>1, <1>2, <1>3, <1>4
<1>6. ASSUME NEW i \in 1 .. Len(x) PROVE x[i] = st[i]
  <2>1. CASE i \in 1 .. Len(s)
    <3>1. i \in 1 .. Len(sh)
      BY <1>1, <1>3, <2>1
    <3> QED
      BY <1>1, <1>3, <1>4, <2>1, <3>1
  <2>2. CASE i = Len(s) + 1
    <3>1. /\ i \in 1 .. Len(sh) /\ i \in (Len(s) + 1) .. (Len(s) + Len(t))
          /\ i - Len(s) = 1
      BY <1>1, <1>2, <1>3, <2>2
    <3> QED
      BY <1>1, <1>3, <1>4, <2>2, <3>1
  <2>3. CASE i \in (Len(s) + 2) .. (Len(s) + Len(t))
    <3>1. /\ i \in (Len(sh) + 1) .. (Len(sh) + Len(tl))
          /\ i \in (Len(s) + 1) .. (Len(s) + Len(t))
          /\ i - Len(sh) \in 1 .. (Len(t) - 1) /\ (i - Len(sh)) + 1 = i - Len(s)
      BY <1>1, <1>2, <1>3, <2>3
    <3>2. x[i] = tl[i - Len(sh)] /\ st[i] = t[i - Len(s)]
      BY <1>1, <1>4, <3>1
    <3>3. tl[i - Len(sh)] = t[(i - Len(sh)) + 1]
      BY <1>2, <3>1
    <3> QED
      BY <3>1, <3>2, <3>3
  <2>4. i \in 1 .. (Len(s) + Len(t))
    BY <1>1, <1>5
  <2> QED
    BY <1>1, <1>2, <2>1, <2>2, <2>3, <2>4
<1>7. x = st
  BY <1>1, <1>4, <1>5, <1>6, SameSequence
<1> QED
  BY <1>7 DEF x, sh, tl, st

-----------------------------------------------------------------------------
(* The commands of a queue for one peer *)

IsFor(c, type, p) == c.type = type /\ c.to = p

\* The commands of a type for p carry exactly the numbers after k up to m, in order.
CarriesOn(queue, p, k, m) ==
  /\ {queue[i].num : i \in PlacesOf(queue, "send", p)} = (k + 1) .. m
  /\ \A i, j \in PlacesOf(queue, "send", p) : i < j => queue[i].num < queue[j].num

\* The replies to p come after what is in past, in order, and say nothing of what is
\* not handled yet.
Answers(queue, p, past, h) ==
  /\ \A i \in PlacesOf(queue, "reply", p) :
       /\ queue[i].num <= h
       /\ \A x \in past : x < queue[i].num
  /\ \A i, j \in PlacesOf(queue, "reply", p) : i < j => queue[i].num < queue[j].num

\* A command at the end of a queue.
LEMMA PlacesAppended ==
  ASSUME NEW q \in Seq(Command), NEW c \in Command, NEW type, NEW p
  PROVE  /\ PlacesOf(Append(q, c), type, p)
              = PlacesOf(q, type, p)
                  \union (IF IsFor(c, type, p) THEN {Len(q) + 1} ELSE {})
         /\ PlacesOf(q, type, p) \subseteq 1 .. Len(q) /\ Len(q) \in Nat
         /\ Append(q, c)[Len(q) + 1] = c
         /\ \A i \in 1 .. Len(q) : Append(q, c)[i] = q[i]
<1> DEFINE a == Append(q, c)
<1>1. /\ Len(q) \in Nat /\ DOMAIN q = 1 .. Len(q) /\ DOMAIN a = 1 .. (Len(q) + 1)
      /\ a[Len(q) + 1] = c /\ \A i \in 1 .. Len(q) : a[i] = q[i]
  BY Appended
<1> HIDE DEF a
<1>2. DOMAIN a = DOMAIN q \union {Len(q) + 1} /\ Len(q) + 1 \notin DOMAIN q
  BY <1>1
<1>3. PlacesOf(a, type, p)
        = PlacesOf(q, type, p) \union (IF IsFor(c, type, p) THEN {Len(q) + 1} ELSE {})
  <2>1. CASE IsFor(c, type, p)
    BY <1>1, <1>2, <2>1 DEF PlacesOf, IsFor
  <2>2. CASE ~IsFor(c, type, p)
    BY <1>1, <1>2, <2>2 DEF PlacesOf, IsFor
  <2> QED
    BY <2>1, <2>2
<1> QED
  BY <1>1, <1>3 DEF a, PlacesOf

\* A queue without its first command.
LEMMA PlacesTaken ==
  ASSUME NEW q \in Seq(Command), q # <<>>, NEW type, NEW p
  PROVE  /\ \A i \in PlacesOf(Tail(q), type, p) :
              i + 1 \in PlacesOf(q, type, p) /\ Tail(q)[i] = q[i + 1] /\ i \in Nat \ {0}
         /\ 1 \in PlacesOf(q, type, p) <=> IsFor(Head(q), type, p)
         /\ Head(q) = q[1]
<1> DEFINE t == Tail(q)
<1>1. /\ Len(q) \in Nat \ {0} /\ Head(q) = q[1] /\ DOMAIN q = 1 .. Len(q) /\ 1 \in DOMAIN q
      /\ DOMAIN t = 1 .. (Len(q) - 1) /\ \A i \in 1 .. (Len(q) - 1) : t[i] = q[i + 1]
  BY Taken
<1> HIDE DEF t
<1>2. ASSUME NEW i \in PlacesOf(t, type, p)
      PROVE  i + 1 \in PlacesOf(q, type, p) /\ t[i] = q[i + 1] /\ i \in Nat \ {0}
  <2>1. i \in 1 .. (Len(q) - 1) /\ t[i].type = type /\ t[i].to = p
    BY <1>1, <1>2 DEF PlacesOf
  <2>2. i + 1 \in DOMAIN q /\ t[i] = q[i + 1] /\ i \in Nat \ {0}
    BY <1>1, <2>1
  <2> QED
    BY <2>1, <2>2 DEF PlacesOf
<1>3. 1 \in PlacesOf(q, type, p) <=> IsFor(Head(q), type, p)
  BY <1>1 DEF PlacesOf, IsFor
<1> QED
  BY <1>1, <1>2, <1>3 DEF t

LEMMA PlacesLeft ==
  ASSUME NEW q \in Seq(Command), q # <<>>, NEW type, NEW p,
         NEW i \in PlacesOf(q, type, p), i # 1
  PROVE  /\ i \in Nat /\ i > 1
         /\ i - 1 \in PlacesOf(Tail(q), type, p)
         /\ Tail(q)[i - 1] = q[i]
<1> DEFINE t == Tail(q)
<1>1. /\ Len(q) \in Nat \ {0} /\ DOMAIN q = 1 .. Len(q)
      /\ DOMAIN t = 1 .. (Len(q) - 1) /\ \A j \in 1 .. (Len(q) - 1) : t[j] = q[j + 1]
  BY Taken
<1> HIDE DEF t
<1>2. i \in 1 .. Len(q) /\ q[i].type = type /\ q[i].to = p
  BY <1>1 DEF PlacesOf
<1>3. i \in Nat /\ i > 1 /\ i - 1 \in 1 .. (Len(q) - 1) /\ (i - 1) + 1 = i
  BY <1>1, <1>2
<1>4. t[i - 1] = q[i] /\ i - 1 \in DOMAIN t
  BY <1>1, <1>3
<1>5. i - 1 \in PlacesOf(t, type, p)
  BY <1>2, <1>4 DEF PlacesOf
<1> QED
  BY <1>3, <1>4, <1>5 DEF t

\* A message is queued.
LEMMA CarriesOnWith ==
  ASSUME NEW q \in Seq(Command), NEW c \in Command, NEW p, NEW k \in Nat, NEW m \in Nat,
         CarriesOn(q, p, k, m)
  PROVE  /\ (IsFor(c, "send", p) /\ c.num = m + 1 /\ k <= m) =>
              CarriesOn(Append(q, c), p, k, m + 1)
         /\ ~IsFor(c, "send", p) => CarriesOn(Append(q, c), p, k, m)
<1> DEFINE a == Append(q, c)
           P == PlacesOf(q, "send", p)
           R == PlacesOf(a, "send", p)
           last == Len(q) + 1
<1>1. /\ R = P \union (IF IsFor(c, "send", p) THEN {last} ELSE {})
      /\ P \subseteq 1 .. Len(q) /\ Len(q) \in Nat
      /\ a[last] = c /\ \A i \in 1 .. Len(q) : a[i] = q[i]
  BY PlacesAppended
<1>2. /\ {q[i].num : i \in P} = (k + 1) .. m
      /\ \A i, j \in P : i < j => q[i].num < q[j].num
  BY DEF CarriesOn
<1>3. \A z : CarriesOn(a, p, k, z) <=>
               /\ {a[i].num : i \in R} = (k + 1) .. z
               /\ \A i, j \in R : i < j => a[i].num < a[j].num
  BY DEF CarriesOn
<1> HIDE DEF a, P, R
<1>4. \A i \in P : a[i] = q[i] /\ i < last /\ i \in Nat /\ q[i].num \in (k + 1) .. m
  BY <1>1, <1>2
<1>5. ASSUME IsFor(c, "send", p), c.num = m + 1, k <= m
      PROVE  CarriesOn(a, p, k, m + 1)
  <2>1. R = P \union {last}
    BY <1>1, <1>5
  <2>2. {a[i].num : i \in R} = {q[i].num : i \in P} \union {c.num}
    BY <1>1, <1>4, <2>1
  <2>3. (k + 1) .. (m + 1) = ((k + 1) .. m) \union {m + 1}
    BY <1>5
  <2>4. ASSUME NEW i \in R, NEW j \in R, i < j PROVE a[i].num < a[j].num
    <3>1. i \in P
      BY <1>1, <1>4, <2>1, <2>4
    <3>2. CASE j \in P
      BY <1>2, <1>4, <2>4, <3>1, <3>2
    <3>3. CASE j = last
      BY <1>1, <1>4, <1>5, <3>1, <3>3
    <3> QED
      BY <2>1, <3>2, <3>3
  <2> QED
    BY <1>2, <1>3, <1>5, <2>2, <2>3, <2>4
<1>6. ASSUME ~IsFor(c, "send", p) PROVE CarriesOn(a, p, k, m)
  <2>1. R = P
    BY <1>1, <1>6
  <2>2. {a[i].num : i \in R} = {q[i].num : i \in P}
    BY <1>4, <2>1
  <2> QED
    BY <1>2, <1>3, <1>4, <2>1, <2>2
<1> QED
  BY <1>5, <1>6 DEF a

\* A message, or another command, is taken from the head.
LEMMA CarriesOnWithout ==
  ASSUME NEW q \in Seq(Command), q # <<>>, NEW p, NEW k \in Nat, NEW m \in Nat,
         CarriesOn(q, p, k, m)
  PROVE  /\ IsFor(Head(q), "send", p) =>
              Head(q).num = k + 1 /\ k + 1 <= m /\ CarriesOn(Tail(q), p, k + 1, m)
         /\ ~IsFor(Head(q), "send", p) => CarriesOn(Tail(q), p, k, m)
<1> DEFINE t == Tail(q)
           P == PlacesOf(q, "send", p)
           R == PlacesOf(t, "send", p)
<1>1. /\ \A i \in R : i + 1 \in P /\ t[i] = q[i + 1] /\ i \in Nat \ {0}
      /\ \A i \in P : i = 1 \/ (i \in Nat /\ i > 1 /\ i - 1 \in R /\ t[i - 1] = q[i])
      /\ 1 \in P <=> IsFor(Head(q), "send", p)
      /\ Head(q) = q[1]
  <2>1. \A i \in R : i + 1 \in P /\ t[i] = q[i + 1] /\ i \in Nat \ {0}
    BY PlacesTaken
  <2>2. \A i \in P : i = 1 \/ (i \in Nat /\ i > 1 /\ i - 1 \in R /\ t[i - 1] = q[i])
    BY PlacesLeft
  <2>3. (1 \in P <=> IsFor(Head(q), "send", p)) /\ Head(q) = q[1]
    BY PlacesTaken
  <2> HIDE DEF t, P, R
  <2> QED
    BY <2>1, <2>2, <2>3
<1>2. /\ {q[i].num : i \in P} = (k + 1) .. m
      /\ \A i, j \in P : i < j => q[i].num < q[j].num
  BY DEF CarriesOn
<1>3. \A z : CarriesOn(t, p, z, m) <=>
               /\ {t[i].num : i \in R} = (z + 1) .. m
               /\ \A i, j \in R : i < j => t[i].num < t[j].num
  BY DEF CarriesOn
<1> HIDE DEF t, P, R
<1>4. \A i, j \in R : i < j => t[i].num < t[j].num
  <2> SUFFICES ASSUME NEW i \in R, NEW j \in R, i < j PROVE t[i].num < t[j].num
    OBVIOUS
  <2>1. i + 1 \in P /\ j + 1 \in P /\ i + 1 < j + 1
    BY <1>1
  <2>2. q[i + 1].num < q[j + 1].num
    BY <1>2, <2>1
  <2> QED
    BY <1>1, <2>2
<1>5. {t[i].num : i \in R} = {q[i].num : i \in P \ {1}}
  <2>1. ASSUME NEW x \in {t[i].num : i \in R} PROVE x \in {q[i].num : i \in P \ {1}}
    <3>1. PICK i \in R : x = t[i].num
      BY <2>1
    <3>2. i + 1 \in P \ {1} /\ x = q[i + 1].num
      BY <1>1, <3>1
    <3> QED
      BY <3>2
  <2>2. ASSUME NEW x \in {q[i].num : i \in P \ {1}} PROVE x \in {t[i].num : i \in R}
    <3>1. PICK i \in P \ {1} : x = q[i].num
      BY <2>2
    <3>2. i - 1 \in R /\ x = t[i - 1].num
      BY <1>1, <3>1
    <3> QED
      BY <3>2
  <2> QED
    BY <2>1, <2>2
<1>6. ASSUME IsFor(Head(q), "send", p)
      PROVE  Head(q).num = k + 1 /\ k + 1 <= m /\ CarriesOn(t, p, k + 1, m)
  <2> DEFINE h == q[1].num
  <2>1. 1 \in P /\ h \in (k + 1) .. m
    BY <1>1, <1>2, <1>6
  <2>2. \A i \in P \ {1} : h < q[i].num /\ q[i].num \in (k + 1) .. m
    BY <1>1, <1>2, <2>1
  <2>3. k + 1 \in (k + 1) .. m
    BY <2>1
  <2>4. PICK i \in P : q[i].num = k + 1
    BY <1>2, <2>3
  <2>5. h = k + 1
    BY <2>1, <2>2, <2>4
  <2>6. {q[j].num : j \in P \ {1}} = (k + 2) .. m
    <3>1. \A j \in P \ {1} : q[j].num \in (k + 2) .. m
      BY <2>2, <2>5
    <3>2. ASSUME NEW x \in (k + 2) .. m PROVE x \in {q[j].num : j \in P \ {1}}
      <4>1. x \in (k + 1) .. m /\ x # k + 1
        OBVIOUS
      <4>2. PICK j \in P : q[j].num = x
        BY <1>2, <4>1
      <4>3. j # 1
        BY <2>5, <4>1, <4>2
      <4> QED
        BY <4>2, <4>3
    <3> QED
      BY <3>1, <3>2
  <2>7. (k + 1) + 1 = k + 2
    OBVIOUS
  <2>8. CarriesOn(t, p, k + 1, m)
    BY <1>3, <1>4, <1>5, <2>6, <2>7
  <2> QED
    BY <1>1, <2>3, <2>5, <2>8
<1>7. ASSUME ~IsFor(Head(q), "send", p) PROVE CarriesOn(t, p, k, m)
  <2>1. P \ {1} = P
    BY <1>1, <1>7
  <2> QED
    BY <1>2, <1>3, <1>4, <1>5, <2>1
<1> QED
  BY <1>6, <1>7 DEF t

\* A reply is queued for what was handled last.
LEMMA AnswersWith ==
  ASSUME NEW q \in Seq(Command), NEW c \in Command, NEW p, NEW past \in SUBSET Nat,
         NEW h \in Nat, Answers(q, p, past, h)
  PROVE  /\ (c.num = h + 1 /\ \A x \in past : x <= h) =>
              Answers(Append(q, c), p, past, h + 1)
         /\ ~IsFor(c, "reply", p) => Answers(Append(q, c), p, past, h)
<1> DEFINE a == Append(q, c)
           P == PlacesOf(q, "reply", p)
           R == PlacesOf(a, "reply", p)
           last == Len(q) + 1
<1>1. /\ R = P \union (IF IsFor(c, "reply", p) THEN {last} ELSE {})
      /\ P \subseteq 1 .. Len(q) /\ Len(q) \in Nat
      /\ a[last] = c /\ \A i \in 1 .. Len(q) : a[i] = q[i]
  BY PlacesAppended
<1>2. /\ \A i \in P : q[i].num <= h /\ \A x \in past : x < q[i].num
      /\ \A i, j \in P : i < j => q[i].num < q[j].num
  BY DEF Answers
<1>3. \A g : Answers(a, p, past, g) <=>
               /\ \A i \in R : a[i].num <= g /\ \A x \in past : x < a[i].num
               /\ \A i, j \in R : i < j => a[i].num < a[j].num
  BY DEF Answers
<1>4. \A i \in P : q[i].num \in Nat
  <2>1. \A i \in P : q[i] \in Command
    BY <1>1
  <2> QED
    BY <2>1, TransportAssumption DEF Command, Numbers
<1> HIDE DEF a, P, R
<1>5. \A i \in P : a[i] = q[i] /\ i < last /\ i \in Nat
  BY <1>1
<1>6. ASSUME c.num = h + 1, \A x \in past : x <= h PROVE Answers(a, p, past, h + 1)
  <2>1. \A i \in R : i \in P \/ i = last
    BY <1>1
  <2>2. \A i \in R : a[i].num <= h + 1 /\ \A x \in past : x < a[i].num
    BY <1>1, <1>2, <1>4, <1>5, <1>6, <2>1
  <2>3. ASSUME NEW i \in R, NEW j \in R, i < j PROVE a[i].num < a[j].num
    <3>1. i \in P
      BY <1>1, <1>5, <2>1, <2>3
    <3>2. CASE j \in P
      BY <1>2, <1>5, <2>3, <3>1, <3>2
    <3>3. CASE j = last
      BY <1>1, <1>2, <1>4, <1>5, <1>6, <3>1, <3>3
    <3> QED
      BY <2>1, <3>2, <3>3
  <2> QED
    BY <1>3, <2>2, <2>3
<1>7. ASSUME ~IsFor(c, "reply", p) PROVE Answers(a, p, past, h)
  <2>1. R = P
    BY <1>1, <1>7
  <2> QED
    BY <1>2, <1>3, <1>5, <2>1
<1> QED
  BY <1>6, <1>7 DEF a

\* A command is taken from the head: the replies after it are later ones.
LEMMA AnswersWithout ==
  ASSUME NEW q \in Seq(Command), q # <<>>, NEW p, NEW past, NEW h,
         Answers(q, p, past, h)
  PROVE  /\ Answers(Tail(q), p, past, h)
         /\ IsFor(Head(q), "reply", p) =>
              /\ Head(q).num <= h
              /\ \A x \in past : x < Head(q).num
              /\ Answers(Tail(q), p, past \union {Head(q).num}, h)
<1> DEFINE t == Tail(q)
           P == PlacesOf(q, "reply", p)
           R == PlacesOf(t, "reply", p)
<1>1. /\ \A i \in R : i + 1 \in P /\ t[i] = q[i + 1] /\ i \in Nat \ {0}
      /\ 1 \in P <=> IsFor(Head(q), "reply", p)
      /\ Head(q) = q[1]
  BY PlacesTaken
<1>2. /\ \A i \in P : q[i].num <= h /\ \A x \in past : x < q[i].num
      /\ \A i, j \in P : i < j => q[i].num < q[j].num
  BY DEF Answers
<1>3. \A past2 : Answers(t, p, past2, h) <=>
               /\ \A i \in R : t[i].num <= h /\ \A x \in past2 : x < t[i].num
               /\ \A i, j \in R : i < j => t[i].num < t[j].num
  BY DEF Answers
<1> HIDE DEF t, P, R
<1>4. \A i, j \in R : i < j => t[i].num < t[j].num
  <2> SUFFICES ASSUME NEW i \in R, NEW j \in R, i < j PROVE t[i].num < t[j].num
    OBVIOUS
  <2>1. i + 1 \in P /\ j + 1 \in P /\ i + 1 < j + 1
    BY <1>1
  <2>2. q[i + 1].num < q[j + 1].num
    BY <1>2, <2>1
  <2> QED
    BY <1>1, <2>2
<1>5. \A i \in R : t[i].num <= h /\ \A x \in past : x < t[i].num
  BY <1>1, <1>2
<1>6. 1 \in P => \A i \in R : q[1].num < t[i].num
  BY <1>1, <1>2
<1>7. Answers(t, p, past, h)
  BY <1>3, <1>4, <1>5
<1>8. ASSUME 1 \in P PROVE Answers(t, p, past \union {q[1].num}, h)
  BY <1>3, <1>4, <1>5, <1>6, <1>8
<1>9. 1 \in P => q[1].num <= h /\ \A x \in past : x < q[1].num
  BY <1>2
<1> QED
  BY <1>1, <1>7, <1>8, <1>9 DEF t

-----------------------------------------------------------------------------
(* What a step does to what waits *)

\* io_loop has a batch only while it handles it.
BatchDone == \A n \in Nodes : pc[n] # "handle" => batch[n] = <<>>

LEMMA WaitingTypes ==
  ASSUME TypeOK, NEW n \in Nodes
  PROVE  /\ Waiting(n) \in Seq(Command)
         /\ batch[n] \in Seq(Command) /\ commands[n] \in Seq(Command)
<1>1. batch[n] \in Seq(Command) /\ commands[n] \in Seq(Command)
  BY DEF TypeOK
<1> QED
  BY <1>1 DEF Waiting

LEMMA LinkEnds ==
  /\ \A l \in Links : l[1] \in Nodes /\ l[2] \in Nodes /\ l = <<l[1], l[2]>> /\ l[1] # l[2]
  /\ \A n \in Nodes : \A p \in Nodes \ {n} :
       <<n, p>> \in Links /\ <<p, n>> \in Links
BY DEF Links

LEMMA WaitingQueued ==
  ASSUME TypeOK, NEW n \in Nodes, NEW p \in Nodes, NEW i \in Numbers,
         NEW type \in {"send", "reply"}, Queue(n, type, p, i), batch' = batch
  PROVE  /\ [type |-> type, to |-> p, num |-> i] \in Command
         /\ Waiting(n)' = Append(Waiting(n), [type |-> type, to |-> p, num |-> i])
         /\ \A m \in Nodes \ {n} : Waiting(m)' = Waiting(m)
<1> DEFINE c == [type |-> type, to |-> p, num |-> i]
<1>1. c \in Command
  BY DEF Command
<1>2. /\ commands' = [commands EXCEPT ![n] = Append(@, c)]
      /\ commands \in [Nodes -> Seq(Command)]
  BY DEF Queue, TypeOK
<1> HIDE DEF c
<1>3. commands'[n] = Append(commands[n], c)
  BY <1>2
<1>4. batch[n] \o Append(commands[n], c) = Append(batch[n] \o commands[n], c)
  <2> DEFINE a == batch[n]
             b == commands[n]
  <2>1. a \in Seq(Command) /\ b \in Seq(Command)
    BY WaitingTypes
  <2> HIDE DEF a, b
  <2>2. a \o Append(b, c) = Append(a \o b, c)
    BY <1>1, <2>1, AppendedToSecond
  <2> QED
    BY <2>2 DEF a, b
<1>5. Waiting(n)' = Append(Waiting(n), c)
  BY <1>3, <1>4 DEF Waiting
<1>6. \A m \in Nodes \ {n} : Waiting(m)' = Waiting(m)
  BY <1>2 DEF Waiting
<1> QED
  BY <1>1, <1>5, <1>6 DEF c

LEMMA WaitingHandled ==
  ASSUME TypeOK, NEW n \in Nodes, NEW type, Handles(n, type), commands' = commands
  PROVE  /\ Waiting(n) # <<>> /\ Head(Waiting(n)) = Head(batch[n])
         /\ Head(batch[n]) \in Command /\ Head(batch[n]).type = type
         /\ Waiting(n)' = Tail(Waiting(n))
         /\ \A m \in Nodes \ {n} : Waiting(m)' = Waiting(m)
<1>1. /\ batch[n] # <<>> /\ batch' = [batch EXCEPT ![n] = Tail(@)]
      /\ Head(batch[n]).type = type /\ batch \in [Nodes -> Seq(Command)]
  BY DEF Handles, TypeOK
<1>2. /\ batch[n] \o commands[n] # <<>>
      /\ Head(batch[n] \o commands[n]) = Head(batch[n])
      /\ Tail(batch[n]) \o commands[n] = Tail(batch[n] \o commands[n])
  BY <1>1, WaitingTypes, TakenFromFirst
<1>3. batch'[n] = Tail(batch[n])
  BY <1>1
<1>4. Head(batch[n]) \in Command
  BY HandledCommand
<1>5. \A m \in Nodes \ {n} : Waiting(m)' = Waiting(m)
  BY <1>1 DEF Waiting
<1>6. Waiting(n)' = Tail(Waiting(n))
  BY <1>2, <1>3 DEF Waiting
<1> QED
  BY <1>1, <1>2, <1>4, <1>5, <1>6 DEF Waiting

\* The steps that leave the queues, the pipes and the callers' counts alone.
Elsewhere ==
  /\ UNCHANGED <<pipe, back, sent, handled, acked>>
  /\ \A n \in Nodes : Waiting(n)' = Waiting(n)

\* A step is one of the five that move a message, or none of them.
LEMMA KindsOfSteps ==
  ASSUME TypeOK, BatchDone, [Next]_vars
  PROVE  \/ \E n \in Nodes : \E p \in Nodes \ {n} :
              SendToPeer(n, p) \/ DrainRouter(n, p) \/ DrainDealer(n, p)
         \/ \E n \in Nodes : HandleSend(n) \/ HandleReply(n)
         \/ Elsewhere
<1>1. ASSUME UNCHANGED <<commands, batch, pipe, back, sent, handled, acked>>
      PROVE  Elsewhere
  BY <1>1 DEF Elsewhere, Waiting
<1>2. ASSUME NEW n \in Nodes, TakeCommands(n) PROVE Elsewhere
  <2>1. /\ batch' = [batch EXCEPT ![n] = commands[n]]
        /\ commands' = [commands EXCEPT ![n] = <<>>]
        /\ batch[n] = <<>>
        /\ UNCHANGED <<pipe, back, sent, handled, acked>>
    BY <1>2 DEF TakeCommands, BatchDone
  <2>2. batch'[n] = commands[n] /\ commands'[n] = <<>>
    BY <2>1 DEF TypeOK
  <2>3. \A m \in Nodes \ {n} : Waiting(m)' = Waiting(m)
    BY <2>1 DEF Waiting, TypeOK
  <2>4. commands[n] \o <<>> = <<>> \o commands[n]
    <3>1. commands[n] \in Seq(Command)
      BY WaitingTypes
    <3> QED
      BY <3>1
  <2>5. Waiting(n)' = Waiting(n)
    BY <2>1, <2>2, <2>4 DEF Waiting
  <2> QED
    BY <2>1, <2>3, <2>5 DEF Elsewhere
<1>3. ASSUME NEW n \in Nodes,
             \/ Stop(n) \/ StopZap(n) \/ StopReturns(n) \/ ZapThread(n)
             \/ ExitLoop(n) \/ Poll(n) \/ RouterDrained(n) \/ NextRound(n)
      PROVE  Elsewhere
  BY <1>1, <1>3 DEF Stop, StopZap, StopReturns, ZapThread, ZapEnds, ZapAnswers, ExitLoop,
     Poll, RouterDrained, NextRound
<1>4. ASSUME NEW n \in Nodes, NEW p \in Nodes \ {n}, DealerDrained(n, p)
      PROVE  Elsewhere
  BY <1>1, <1>4 DEF DealerDrained
<1>5. CASE UNCHANGED vars
  BY <1>1, <1>5 DEF vars
<1> QED
  BY <1>2, <1>3, <1>4, <1>5 DEF Next, IOLoop

LEMMA BatchStep == TypeOK /\ BatchDone /\ [Next]_vars => BatchDone'
<1> SUFFICES ASSUME TypeOK, BatchDone, [Next]_vars, NEW n \in Nodes, pc'[n] # "handle"
             PROVE  batch'[n] = <<>>
  BY DEF BatchDone
<1>1. ASSUME NEW m \in Nodes, TakeCommands(m) PROVE batch'[n] = <<>>
  BY <1>1 DEF TakeCommands, BatchDone, TypeOK
<1>2. ASSUME NEW m \in Nodes, Handles(m, "send") \/ Handles(m, "reply"), pc' = pc
      PROVE  batch'[n] = <<>>
  BY <1>2 DEF Handles, BatchDone, TypeOK
<1>3. ASSUME NEW m \in Nodes, Poll(m) PROVE batch'[n] = <<>>
  BY <1>3 DEF Poll, BatchDone, TypeOK
<1>4. ASSUME NEW m \in Nodes, ExitLoop(m) \/ RouterDrained(m) \/ NextRound(m)
      PROVE  batch'[n] = <<>>
  BY <1>4 DEF ExitLoop, RouterDrained, NextRound, BatchDone, TypeOK
<1>5. ASSUME UNCHANGED <<batch, pc>> PROVE batch'[n] = <<>>
  BY <1>5 DEF BatchDone
<1>6. ASSUME NEW m \in Nodes, HandleSend(m) \/ HandleReply(m) PROVE batch'[n] = <<>>
  BY <1>2, <1>6 DEF HandleSend, HandleReply
<1>7. ASSUME NEW m \in Nodes, NEW p \in Nodes \ {m},
             \/ SendToPeer(m, p) \/ DrainRouter(m, p) \/ DrainDealer(m, p)
             \/ DealerDrained(m, p)
      PROVE  batch'[n] = <<>>
  BY <1>5, <1>7 DEF SendToPeer, DrainRouter, DrainDealer, DealerDrained
<1>8. ASSUME NEW m \in Nodes,
             Stop(m) \/ StopZap(m) \/ StopReturns(m) \/ ZapThread(m)
      PROVE  batch'[n] = <<>>
  BY <1>5, <1>8 DEF Stop, StopZap, StopReturns, ZapThread, ZapEnds, ZapAnswers
<1>9. CASE UNCHANGED vars
  BY <1>5, <1>9 DEF vars
<1> QED
  BY <1>1, <1>3, <1>4, <1>6, <1>7, <1>8, <1>9 DEF Next, IOLoop

-----------------------------------------------------------------------------
(* Nothing is lost *)

\* What has left n for p.
Out(l) == handled[l] \o pipe[l]
CountsUp(s) == s = [i \in 1 .. Len(s) |-> i]

OnItsWay(l) ==
  /\ CountsUp(Out(l))
  /\ Len(Out(l)) <= sent[l]
  /\ CarriesOn(Waiting(l[1]), l[2], Len(Out(l)), sent[l])

LEMMA NothingLostIs == NothingLost <=> \A l \in Links : OnItsWay(l)
BY DEF NothingLost, OnItsWay, Out, CountsUp, CarriesOn

LEMMA OutTypes ==
  ASSUME TypeOK, NEW l \in Links
  PROVE  /\ handled[l] \in Seq(Numbers) /\ pipe[l] \in Seq(Numbers)
         /\ back[l] \in Seq(Numbers) /\ acked[l] \in Seq(Numbers)
         /\ Out(l) \in Seq(Numbers) /\ Len(Out(l)) \in Nat
         /\ Len(Out(l)) = Len(handled[l]) + Len(pipe[l])
         /\ sent[l] \in Nat
<1>1. /\ handled[l] \in Seq(Numbers) /\ pipe[l] \in Seq(Numbers)
      /\ back[l] \in Seq(Numbers) /\ acked[l] \in Seq(Numbers)
      /\ sent[l] \in 0 .. MaxSends
  BY DEF TypeOK
<1>2. Out(l) \in Seq(Numbers) /\ Len(Out(l)) = Len(handled[l]) + Len(pipe[l])
  BY <1>1 DEF Out
<1>3. Len(Out(l)) \in Nat
  <2> DEFINE o == Out(l)
  <2>1. o \in Seq(Numbers)
    BY <1>2
  <2> HIDE DEF o
  <2>2. Len(o) \in Nat
    BY <2>1
  <2> QED
    BY <2>2 DEF o
<1>4. sent[l] \in Nat
  BY <1>1, TransportAssumption
<1> QED
  BY <1>1, <1>2, <1>3, <1>4

\* A sequence that counts up, and one number more.
LEMMA CountsOn ==
  ASSUME NEW s \in Seq(Nat), CountsUp(s)
  PROVE  CountsUp(Append(s, Len(s) + 1))
<1> DEFINE a == Append(s, Len(s) + 1)
           b == [i \in 1 .. (Len(s) + 1) |-> i]
<1>1. /\ a \in Seq(Nat) /\ Len(a) = Len(s) + 1 /\ a[Len(s) + 1] = Len(s) + 1
      /\ Len(s) \in Nat /\ \A i \in 1 .. Len(s) : a[i] = s[i]
  BY Appended
<1>2. b \in Seq(Nat) /\ Len(b) = Len(s) + 1
  BY <1>1
<1>3. \A i \in 1 .. Len(s) : s[i] = i
  BY DEF CountsUp
<1>4. \A i \in 1 .. (Len(s) + 1) : i \in 1 .. Len(s) \/ i = Len(s) + 1
  BY <1>1
<1> HIDE DEF a
<1>5. \A i \in 1 .. (Len(s) + 1) : a[i] = b[i]
  BY <1>1, <1>3, <1>4
<1> HIDE DEF b
<1>6. a = b
  BY <1>1, <1>2, <1>5, SameSequence
<1> QED
  BY <1>1, <1>6 DEF CountsUp, a, b

LEMMA NothingLostStep ==
  ASSUME TypeOK, BatchDone, NothingLost, [Next]_vars
  PROVE  NothingLost'
<1>a. \A l \in Links : OnItsWay(l)
  BY NothingLostIs
<1> SUFFICES ASSUME NEW l \in Links PROVE OnItsWay(l)'
  BY DEF NothingLost, OnItsWay, Out, CountsUp, CarriesOn
<1> DEFINE n1 == l[1]
           n2 == l[2]
           q == Waiting(n1)
           k == Len(Out(l))
           m == sent[l]
<1>b. /\ n1 \in Nodes /\ n2 \in Nodes /\ l = <<n1, n2>> /\ n1 # n2
      /\ \A n \in Nodes : \A p \in Nodes \ {n} : <<n, p>> \in Links /\ <<p, n>> \in Links
  BY LinkEnds
<1>c. q \in Seq(Command) /\ k \in Nat /\ m \in Nat
  BY <1>b, WaitingTypes, OutTypes
<1>d. CountsUp(Out(l)) /\ k <= m /\ CarriesOn(q, n2, k, m)
  BY <1>a DEF OnItsWay
<1>e. ASSUME Out(l)' = Out(l), sent'[l] = sent[l], CarriesOn(Waiting(n1)', n2, k, m)
      PROVE  OnItsWay(l)'
  BY <1>d, <1>e DEF OnItsWay
<1>1. ASSUME NEW n \in Nodes, NEW p \in Nodes \ {n}, SendToPeer(n, p)
      PROVE  OnItsWay(l)'
  <2> DEFINE i == sent[<<n, p>>] + 1
             c == [type |-> "send", to |-> p, num |-> i]
  <2>1. /\ Queue(n, "send", p, i) /\ UNCHANGED <<batch, handled, pipe>>
        /\ sent' = [sent EXCEPT ![<<n, p>>] = i] /\ <<n, p>> \in Links
    BY <1>1, <1>b DEF SendToPeer
  <2>2. i \in Numbers
    <3>1. sent[<<n, p>>] \in 0 .. MaxSends /\ sent[<<n, p>>] < MaxSends
      BY <1>1, <2>1 DEF SendToPeer, TypeOK
    <3> QED
      BY <3>1, TransportAssumption DEF Numbers
  <2>3. /\ c \in Command /\ Waiting(n)' = Append(Waiting(n), c)
        /\ \A x \in Nodes \ {n} : Waiting(x)' = Waiting(x)
    BY <2>1, <2>2, WaitingQueued
  <2>4. Out(l)' = Out(l)
    BY <2>1 DEF Out
  <2>5. CASE l = <<n, p>>
    <3>1. n1 = n /\ n2 = p /\ i = m + 1 /\ sent'[l] = m + 1
      BY <2>1, <2>5 DEF TypeOK
    <3>2. IsFor(c, "send", n2) /\ c.num = m + 1
      BY <3>1 DEF IsFor
    <3> HIDE DEF c, i
    <3>3. CarriesOn(Append(q, c), n2, k, m + 1)
      BY <1>c, <1>d, <2>3, <3>2, CarriesOnWith
    <3>4. Waiting(n1)' = Append(q, c)
      BY <2>3, <3>1
    <3>5. k <= m + 1
      BY <1>c, <1>d
    <3> QED
      BY <1>d, <2>4, <3>1, <3>3, <3>4, <3>5 DEF OnItsWay
  <2>6. CASE l # <<n, p>>
    <3>1. sent'[l] = sent[l]
      BY <2>1, <2>6 DEF TypeOK
    <3>2. CASE n1 = n
      <4>1. ~IsFor(c, "send", n2)
        BY <1>b, <2>6, <3>2 DEF IsFor
      <4> HIDE DEF c, i
      <4>2. CarriesOn(Append(q, c), n2, k, m)
        BY <1>c, <1>d, <2>3, <4>1, CarriesOnWith
      <4>3. Waiting(n1)' = Append(q, c)
        BY <2>3, <3>2
      <4> QED
        BY <1>e, <2>4, <3>1, <4>2, <4>3
    <3>3. CASE n1 # n
      BY <1>b, <1>d, <1>e, <2>3, <2>4, <3>1, <3>3
    <3> QED
      BY <3>2, <3>3
  <2> QED
    BY <2>5, <2>6
<1>2. ASSUME NEW n \in Nodes, HandleSend(n) PROVE OnItsWay(l)'
  <2> DEFINE c == Head(batch[n])
  <2>1. /\ Handles(n, "send") /\ UNCHANGED <<commands, handled, sent>>
        /\ pipe' = [pipe EXCEPT ![<<n, c.to>>] = Append(@, c.num)]
    BY <1>2 DEF HandleSend
  <2>2. /\ Waiting(n) # <<>> /\ Head(Waiting(n)) = c /\ c \in Command /\ c.type = "send"
        /\ Waiting(n)' = Tail(Waiting(n))
        /\ \A x \in Nodes \ {n} : Waiting(x)' = Waiting(x)
    BY <2>1, WaitingHandled
  <2> HIDE DEF c
  <2>3. CASE n1 = n /\ c.to = n2
    <3>1. IsFor(Head(q), "send", n2) /\ q # <<>> /\ Waiting(n1)' = Tail(q)
      BY <2>2, <2>3 DEF IsFor
    <3>2. c.num = k + 1 /\ k + 1 <= m /\ CarriesOn(Tail(q), n2, k + 1, m)
      BY <1>c, <1>d, <2>2, <2>3, <3>1, CarriesOnWithout
    <3>3. pipe'[l] = Append(pipe[l], k + 1) /\ handled'[l] = handled[l]
      BY <1>b, <2>1, <2>3, <3>2 DEF TypeOK
    <3>4. k + 1 \in Numbers
      BY <2>2, <3>2 DEF Command
    <3>5. handled[l] \o Append(pipe[l], k + 1) = Append(handled[l] \o pipe[l], k + 1)
      <4>1. handled[l] \in Seq(Numbers) /\ pipe[l] \in Seq(Numbers)
        BY OutTypes
      <4> DEFINE a == handled[l]
                 b == pipe[l]
                 v == k + 1
      <4>2. a \in Seq(Numbers) /\ b \in Seq(Numbers) /\ v \in Numbers
        BY <3>4, <4>1
      <4> HIDE DEF a, b, v
      <4>3. a \o Append(b, v) = Append(a \o b, v)
        BY <4>2, AppendedToSecond
      <4> QED
        BY <4>3 DEF a, b, v
    <3>6. Out(l)' = Append(Out(l), k + 1)
      BY <3>3, <3>5 DEF Out
    <3>7. Out(l) \in Seq(Nat)
      <4>1. Out(l) \in Seq(Numbers)
        BY OutTypes
      <4>2. Numbers \subseteq Nat
        BY TransportAssumption DEF Numbers
      <4> QED
        BY <4>1, <4>2, WiderSequence
    <3>8. CountsUp(Append(Out(l), k + 1)) /\ Len(Append(Out(l), k + 1)) = k + 1
      BY <1>d, <3>7, CountsOn, Appended
    <3>9. CountsUp(Out(l)')
      BY <3>6, <3>8
    <3>10. Len(Out(l)') = k + 1 /\ sent'[l] = m
      BY <2>1, <3>6, <3>8
    <3> HIDE DEF k, m, q
    <3>11. CarriesOn(Waiting(n1)', n2, Len(Out(l)'), sent'[l]) /\ Len(Out(l)') <= sent'[l]
      BY <3>1, <3>2, <3>10
    <3> QED
      BY <3>9, <3>11 DEF OnItsWay, CountsUp
  <2>4. CASE n1 = n /\ c.to # n2
    <3>1. ~IsFor(Head(q), "send", n2) /\ q # <<>> /\ Waiting(n1)' = Tail(q)
      BY <2>2, <2>4 DEF IsFor
    <3>2. CarriesOn(Tail(q), n2, k, m)
      BY <1>c, <1>d, <3>1, CarriesOnWithout
    <3>3. pipe'[l] = pipe[l]
      <4>1. <<n, c.to>> # l
        BY <1>b, <2>4
      <4>2. DOMAIN pipe = Links
        BY DEF TypeOK
      <4> QED
        BY <2>1, <4>1, <4>2
    <3> QED
      BY <1>e, <2>1, <3>1, <3>2, <3>3 DEF Out
  <2>5. CASE n1 # n
    <3>1. pipe'[l] = pipe[l]
      BY <1>b, <2>1, <2>5 DEF TypeOK
    <3> QED
      BY <1>b, <1>d, <1>e, <2>1, <2>2, <2>5, <3>1 DEF Out
  <2> QED
    BY <2>3, <2>4, <2>5
<1>3. ASSUME NEW n \in Nodes, HandleReply(n) PROVE OnItsWay(l)'
  <2>1. Handles(n, "reply") /\ UNCHANGED <<commands, handled, pipe, sent>>
    BY <1>3 DEF HandleReply
  <2>2. /\ Waiting(n) # <<>> /\ Head(Waiting(n)).type = "reply"
        /\ Waiting(n)' = Tail(Waiting(n))
        /\ \A x \in Nodes \ {n} : Waiting(x)' = Waiting(x)
    BY <2>1, WaitingHandled
  <2>3. Out(l)' = Out(l) /\ sent'[l] = sent[l]
    BY <2>1 DEF Out
  <2>4. CASE n1 = n
    <3>1. ~IsFor(Head(q), "send", n2) /\ q # <<>> /\ Waiting(n1)' = Tail(q)
      BY <2>2, <2>4 DEF IsFor
    <3>2. CarriesOn(Tail(q), n2, k, m)
      BY <1>c, <1>d, <3>1, CarriesOnWithout
    <3> QED
      BY <1>e, <2>3, <3>1, <3>2
  <2>5. CASE n1 # n
    BY <1>b, <1>d, <1>e, <2>2, <2>3, <2>5
  <2> QED
    BY <2>4, <2>5
<1>4. ASSUME NEW n \in Nodes, NEW p \in Nodes \ {n}, DrainRouter(n, p)
      PROVE  OnItsWay(l)'
  <2> DEFINE x == <<p, n>>
             i == Head(pipe[x])
             c == [type |-> "reply", to |-> p, num |-> i]
  <2>1. /\ x \in Links /\ pipe[x] # <<>> /\ Queue(n, "reply", p, i)
        /\ pipe' = [pipe EXCEPT ![x] = Tail(@)]
        /\ handled' = [handled EXCEPT ![x] = Append(@, i)]
        /\ UNCHANGED <<batch, sent>>
    BY <1>4, <1>b DEF DrainRouter
  <2>2. i \in Numbers
    BY <2>1, OutTypes, HeadAndTail
  <2>3. /\ c \in Command /\ Waiting(n)' = Append(Waiting(n), c)
        /\ \A y \in Nodes \ {n} : Waiting(y)' = Waiting(y)
    BY <2>1, <2>2, WaitingQueued
  <2>4. Out(l)' = Out(l)
    <3>1. CASE l = x
      <4>1. pipe'[l] = Tail(pipe[l]) /\ handled'[l] = Append(handled[l], Head(pipe[l]))
        BY <2>1, <3>1 DEF TypeOK
      <4>2. Append(handled[l], Head(pipe[l])) \o Tail(pipe[l]) = handled[l] \o pipe[l]
        BY <2>1, <3>1, OutTypes, Passed
      <4> QED
        BY <4>1, <4>2 DEF Out
    <3>2. CASE l # x
      BY <2>1, <3>2 DEF Out, TypeOK
    <3> QED
      BY <3>1, <3>2
  <2>5. sent'[l] = sent[l]
    BY <2>1
  <2>6. CASE n1 = n
    <3>1. ~IsFor(c, "send", n2)
      BY DEF IsFor
    <3> HIDE DEF c, i
    <3>2. CarriesOn(Append(q, c), n2, k, m)
      BY <1>c, <1>d, <2>3, <3>1, CarriesOnWith
    <3>3. Waiting(n1)' = Append(q, c)
      BY <2>3, <2>6
    <3> QED
      BY <1>e, <2>4, <2>5, <3>2, <3>3
  <2>7. CASE n1 # n
    BY <1>b, <1>d, <1>e, <2>3, <2>4, <2>5, <2>7
  <2> QED
    BY <2>6, <2>7
<1>5. ASSUME NEW n \in Nodes, NEW p \in Nodes \ {n}, DrainDealer(n, p)
      PROVE  OnItsWay(l)'
  <2>1. UNCHANGED <<batch, commands, pipe, handled, sent>>
    BY <1>5 DEF DrainDealer
  <2>2. Out(l)' = Out(l) /\ Waiting(n1)' = Waiting(n1) /\ sent'[l] = sent[l]
    BY <2>1 DEF Out, Waiting
  <2> QED
    BY <1>d, <1>e, <2>2
<1>6. CASE Elsewhere
  <2>1. Out(l)' = Out(l) /\ Waiting(n1)' = Waiting(n1) /\ sent'[l] = sent[l]
    BY <1>b, <1>6 DEF Elsewhere, Out
  <2> QED
    BY <1>d, <1>e, <2>1
<1> QED
  BY <1>1, <1>2, <1>3, <1>4, <1>5, <1>6, KindsOfSteps

QueueInv == TypeOK /\ BatchDone /\ NothingLost

LEMMA QueueInit == Init => QueueInv
<1> SUFFICES ASSUME Init PROVE QueueInv
  OBVIOUS
<1>1. TypeOK
  BY InitInv DEF TransportInv
<1>2. BatchDone
  BY DEF Init, BatchDone
<1>3. ASSUME NEW l \in Links PROVE OnItsWay(l)
  <2>1. l[1] \in Nodes /\ l[2] \in Nodes
    BY LinkEnds
  <2>2. /\ handled[l] = <<>> /\ pipe[l] = <<>> /\ sent[l] = 0
        /\ batch[l[1]] = <<>> /\ commands[l[1]] = <<>>
    BY <2>1 DEF Init
  <2>3. Out(l) = <<>> /\ Waiting(l[1]) = <<>>
    BY <2>2 DEF Out, Waiting
  <2>4. PlacesOf(<<>>, "send", l[2]) = {}
    BY DEF PlacesOf
  <2>5. CarriesOn(<<>>, l[2], 0, 0)
    BY <2>4 DEF CarriesOn
  <2>6. CountsUp(<<>>) /\ Len(<<>>) = 0
    BY DEF CountsUp
  <2> QED
    BY <2>2, <2>3, <2>5, <2>6 DEF OnItsWay
<1> QED
  BY <1>1, <1>2, <1>3, NothingLostIs DEF QueueInv

\* Nothing that a caller queued is lost, doubled or overtaken, for any number of
\* nodes and messages: a stop in the middle of a round included.
THEOREM NothingIsLost == Spec => []NothingLost
<1>1. QueueInv /\ [Next]_vars => QueueInv'
  BY TypeStep, BatchStep, NothingLostStep DEF QueueInv
<1>2. QueueInv => NothingLost
  BY DEF QueueInv
<1> QED
  BY <1>1, <1>2, QueueInit, PTL DEF Spec

-----------------------------------------------------------------------------
(* Acks tell the truth *)

\* The acks that have left p for n, in their order.
Past(l) == acked[l] \o back[l]
Values(s) == {s[i] : i \in DOMAIN s}
Rising(s) == \A i, j \in DOMAIN s : i < j => s[i] < s[j]
UpTo(s, h) == \A i \in DOMAIN s : s[i] <= h

\* The acks that have left, and then the replies that wait, rise up to what is
\* handled.
AcksInOrder(l) ==
  /\ Rising(Past(l))
  /\ UpTo(Past(l), Len(handled[l]))
  /\ Answers(Waiting(l[2]), l[1], Values(Past(l)), Len(handled[l]))

AcksInv == QueueInv /\ \A l \in Links : AcksInOrder(l)

LEMMA RisesOn ==
  ASSUME NEW s \in Seq(Nat), NEW v \in Nat, NEW h \in Nat, Rising(s), UpTo(s, h),
         \A x \in Values(s) : x < v, v <= h
  PROVE  /\ Rising(Append(s, v)) /\ UpTo(Append(s, v), h)
         /\ Values(Append(s, v)) = Values(s) \union {v}
<1> DEFINE a == Append(s, v)
<1>1. /\ Len(s) \in Nat /\ DOMAIN s = 1 .. Len(s) /\ DOMAIN a = 1 .. (Len(s) + 1)
      /\ a[Len(s) + 1] = v /\ \A i \in 1 .. Len(s) : a[i] = s[i]
  BY Appended
<1>2. \A i \in DOMAIN s : s[i] < v
  BY DEF Values
<1> HIDE DEF a
<1>3. DOMAIN a = DOMAIN s \union {Len(s) + 1}
  BY <1>1
<1>4. ASSUME NEW i \in DOMAIN a, NEW j \in DOMAIN a, i < j PROVE a[i] < a[j]
  <2>1. i \in DOMAIN s
    BY <1>1, <1>4
  <2>2. CASE j \in DOMAIN s
    BY <1>1, <1>4, <2>1, <2>2 DEF Rising
  <2>3. CASE j = Len(s) + 1
    BY <1>1, <1>2, <2>1, <2>3
  <2> QED
    BY <1>3, <2>2, <2>3
<1>5. Rising(a)
  BY <1>4 DEF Rising
<1>6. UpTo(a, h)
  BY <1>1, <1>3 DEF UpTo
<1>7. Values(a) = Values(s) \union {v}
  BY <1>1, <1>3 DEF Values
<1> QED
  BY <1>5, <1>6, <1>7 DEF a

LEMMA PastTypes ==
  ASSUME TypeOK, NEW l \in Links
  PROVE  /\ Past(l) \in Seq(Nat) /\ Values(Past(l)) \in SUBSET Nat
         /\ Len(handled[l]) \in Nat
<1>1. acked[l] \in Seq(Numbers) /\ back[l] \in Seq(Numbers) /\ handled[l] \in Seq(Numbers)
  BY OutTypes
<1>2. Numbers \subseteq Nat
  BY TransportAssumption DEF Numbers
<1>3. Past(l) \in Seq(Numbers)
  BY <1>1 DEF Past
<1> DEFINE s == Past(l)
           h == handled[l]
<1>4. s \in Seq(Nat) /\ h \in Seq(Numbers)
  BY <1>1, <1>2, <1>3, WiderSequence
<1> HIDE DEF s, h
<1>5. Values(s) \subseteq Nat /\ Len(h) \in Nat
  BY <1>4 DEF Values
<1> QED
  BY <1>4, <1>5 DEF s, h

\* The message that comes out of a pipe is the one after what is handled.
LEMMA NextInPipe ==
  ASSUME TypeOK, NothingLost, NEW l \in Links, pipe[l] # <<>>
  PROVE  Head(pipe[l]) = Len(handled[l]) + 1
<1> DEFINE h == handled[l]
           p == pipe[l]
           o == Out(l)
<1>1. h \in Seq(Numbers) /\ p \in Seq(Numbers) /\ p # <<>>
  BY OutTypes
<1>2. CountsUp(o)
  BY NothingLostIs DEF OnItsWay
<1>3. /\ Len(o) = Len(h) + Len(p) /\ Len(h) \in Nat /\ Len(p) \in Nat
      /\ \A i \in (Len(h) + 1) .. (Len(h) + Len(p)) : o[i] = p[i - Len(h)]
  <2>1. o = h \o p
    BY DEF Out
  <2> HIDE DEF h, p, o
  <2> QED
    BY <1>1, <2>1, Joined2
<1>4. Len(p) \in Nat \ {0} /\ Head(p) = p[1]
  BY <1>1, Taken
<1> HIDE DEF h, p, o
<1>5. Len(h) + 1 \in (Len(h) + 1) .. (Len(h) + Len(p)) /\ (Len(h) + 1) - Len(h) = 1
  BY <1>3, <1>4
<1>6. o[Len(h) + 1] = p[1]
  BY <1>3, <1>5
<1>7. o[Len(h) + 1] = Len(h) + 1
  BY <1>2, <1>3, <1>5 DEF CountsUp
<1> QED
  BY <1>4, <1>6, <1>7 DEF h, p

LEMMA AcksStep ==
  ASSUME AcksInv, [Next]_vars
  PROVE  \A l \in Links : AcksInOrder(l)'
<1> USE DEF AcksInv, QueueInv
<1> SUFFICES ASSUME NEW l \in Links PROVE AcksInOrder(l)'
  OBVIOUS
<1> DEFINE n1 == l[1]
           n2 == l[2]
           q == Waiting(n2)
           past == Values(Past(l))
           h == Len(handled[l])
<1>b. /\ n1 \in Nodes /\ n2 \in Nodes /\ l = <<n1, n2>> /\ n1 # n2
      /\ \A n \in Nodes : \A p \in Nodes \ {n} : <<n, p>> \in Links /\ <<p, n>> \in Links
  BY LinkEnds
<1>c. q \in Seq(Command) /\ past \in SUBSET Nat /\ h \in Nat /\ Past(l) \in Seq(Nat)
  BY <1>b, WaitingTypes, PastTypes
<1>d. Rising(Past(l)) /\ UpTo(Past(l), h) /\ Answers(q, n1, past, h)
  BY DEF AcksInOrder
<1>e. ASSUME Past(l)' = Past(l), Len(handled[l])' = h, Answers(Waiting(n2)', n1, past, h)
      PROVE  AcksInOrder(l)'
  BY <1>d, <1>e DEF AcksInOrder, Rising, UpTo, Values
<1>1. ASSUME NEW n \in Nodes, NEW p \in Nodes \ {n}, SendToPeer(n, p)
      PROVE  AcksInOrder(l)'
  <2> DEFINE i == sent[<<n, p>>] + 1
             c == [type |-> "send", to |-> p, num |-> i]
  <2>1. /\ Queue(n, "send", p, i) /\ UNCHANGED <<batch, handled, back, acked>>
        /\ sent[<<n, p>>] < MaxSends /\ <<n, p>> \in Links
    BY <1>1, <1>b DEF SendToPeer
  <2>2. i \in Numbers
    <3>1. sent[<<n, p>>] \in 0 .. MaxSends
      BY <2>1 DEF TypeOK
    <3> QED
      BY <2>1, <3>1, TransportAssumption DEF Numbers
  <2>3. /\ c \in Command /\ Waiting(n)' = Append(Waiting(n), c)
        /\ \A x \in Nodes \ {n} : Waiting(x)' = Waiting(x)
    BY <2>1, <2>2, WaitingQueued
  <2>4. Past(l)' = Past(l) /\ Len(handled[l])' = h
    BY <2>1 DEF Past
  <2>5. CASE n2 = n
    <3>1. ~IsFor(c, "reply", n1)
      BY DEF IsFor
    <3> HIDE DEF c, i
    <3>2. Answers(Append(q, c), n1, past, h)
      BY <1>c, <1>d, <2>3, <3>1, AnswersWith
    <3>3. Waiting(n2)' = Append(q, c)
      BY <2>3, <2>5
    <3> QED
      BY <1>e, <2>4, <3>2, <3>3
  <2>6. CASE n2 # n
    BY <1>b, <1>d, <1>e, <2>3, <2>4, <2>6
  <2> QED
    BY <2>5, <2>6
<1>2. ASSUME NEW n \in Nodes, HandleSend(n) PROVE AcksInOrder(l)'
  <2>1. Handles(n, "send") /\ UNCHANGED <<commands, handled, back, acked>>
    BY <1>2 DEF HandleSend
  <2>2. /\ Waiting(n) # <<>> /\ Waiting(n)' = Tail(Waiting(n))
        /\ \A x \in Nodes \ {n} : Waiting(x)' = Waiting(x)
    BY <2>1, WaitingHandled
  <2>3. Past(l)' = Past(l) /\ Len(handled[l])' = h
    BY <2>1 DEF Past
  <2>4. CASE n2 = n
    <3>1. Answers(Tail(q), n1, past, h)
      BY <1>c, <1>d, <2>2, <2>4, AnswersWithout
    <3> QED
      BY <1>e, <2>2, <2>3, <2>4, <3>1
  <2>5. CASE n2 # n
    BY <1>b, <1>d, <1>e, <2>2, <2>3, <2>5
  <2> QED
    BY <2>4, <2>5
<1>3. ASSUME NEW n \in Nodes, HandleReply(n) PROVE AcksInOrder(l)'
  <2> DEFINE c == Head(batch[n])
             x == <<c.to, n>>
  <2>1. /\ Handles(n, "reply") /\ UNCHANGED <<commands, handled, acked>>
        /\ back' = back \/ back' = [back EXCEPT ![x] = Append(@, c.num)]
    BY <1>3 DEF HandleReply
  <2>2. /\ Waiting(n) # <<>> /\ Head(Waiting(n)) = c /\ c \in Command /\ c.type = "reply"
        /\ Waiting(n)' = Tail(Waiting(n))
        /\ \A y \in Nodes \ {n} : Waiting(y)' = Waiting(y)
    BY <2>1, WaitingHandled
  <2>3. Len(handled[l])' = h
    BY <2>1
  <2>4. CASE n2 = n /\ back'[l] = back[l]
    <3>1. Answers(Tail(q), n1, past, h)
      BY <1>c, <1>d, <2>2, <2>4, AnswersWithout
    <3>2. Past(l)' = Past(l)
      BY <2>1, <2>4 DEF Past
    <3> QED
      BY <1>e, <2>2, <2>3, <2>4, <3>1, <3>2
  <2>5. CASE back'[l] # back[l]
    <3>1. l = x /\ back'[l] = Append(back[l], c.num)
      BY <2>1, <2>5 DEF TypeOK
    <3>2. n1 = c.to /\ n2 = n
      BY <3>1
    <3> HIDE DEF c, x
    <3>3. IsFor(Head(q), "reply", n1) /\ q # <<>> /\ Waiting(n2)' = Tail(q)
      BY <2>2, <3>2 DEF IsFor
    <3>4. /\ c.num <= h /\ \A y \in past : y < c.num
          /\ Answers(Tail(q), n1, past \union {c.num}, h)
      BY <1>c, <1>d, <2>2, <3>2, <3>3, AnswersWithout
    <3>5. c.num \in Numbers /\ c.num \in Nat
      BY <2>2, TransportAssumption DEF Command, Numbers
    <3>6. Past(l)' = Append(Past(l), c.num)
      <4> DEFINE a == acked[l]
                 b == back[l]
                 v == c.num
      <4>1. a \in Seq(Numbers) /\ b \in Seq(Numbers) /\ v \in Numbers
        BY <3>5, OutTypes
      <4> HIDE DEF a, b, v
      <4>2. a \o Append(b, v) = Append(a \o b, v)
        BY <4>1, AppendedToSecond
      <4> QED
        BY <2>1, <3>1, <4>2 DEF a, b, v, Past
    <3>7. /\ Rising(Append(Past(l), c.num)) /\ UpTo(Append(Past(l), c.num), h)
          /\ Values(Append(Past(l), c.num)) = past \union {c.num}
      BY <1>c, <1>d, <3>4, <3>5, RisesOn
    <3>8. /\ Rising(Past(l)') /\ UpTo(Past(l)', h)
          /\ Answers(Waiting(n2)', n1, Values(Past(l)'), h)
      BY <3>3, <3>4, <3>6, <3>7
    <3> QED
      BY <2>3, <3>8 DEF AcksInOrder, Rising, UpTo, Values
  <2>6. CASE n2 # n /\ back'[l] = back[l]
    <3>1. Past(l)' = Past(l)
      BY <2>1, <2>6 DEF Past
    <3> QED
      BY <1>b, <1>d, <1>e, <2>2, <2>3, <2>6, <3>1
  <2> QED
    BY <2>4, <2>5, <2>6
<1>4. ASSUME NEW n \in Nodes, NEW p \in Nodes \ {n}, DrainRouter(n, p)
      PROVE  AcksInOrder(l)'
  <2> DEFINE x == <<p, n>>
             i == Head(pipe[x])
             c == [type |-> "reply", to |-> p, num |-> i]
  <2>1. /\ x \in Links /\ pipe[x] # <<>> /\ Queue(n, "reply", p, i)
        /\ handled' = [handled EXCEPT ![x] = Append(@, i)]
        /\ UNCHANGED <<batch, back, acked>>
    BY <1>4, <1>b DEF DrainRouter
  <2>2. i \in Numbers
    BY <2>1, OutTypes, HeadAndTail
  <2>3. /\ c \in Command /\ Waiting(n)' = Append(Waiting(n), c)
        /\ \A y \in Nodes \ {n} : Waiting(y)' = Waiting(y)
    BY <2>1, <2>2, WaitingQueued
  <2>4. Past(l)' = Past(l)
    BY <2>1 DEF Past
  <2>5. CASE l = x
    <3>1. n1 = p /\ n2 = n /\ i = h + 1
      BY <2>1, <2>5, NextInPipe
    <3>2. Len(handled'[l]) = h + 1
      <4>1. handled'[l] = Append(handled[l], i)
        BY <2>1, <2>5 DEF TypeOK
      <4>2. handled[l] \in Seq(Numbers)
        BY OutTypes
      <4>3. Len(Append(handled[l], i)) = Len(handled[l]) + 1
        BY <2>2, <4>2, Appended
      <4> QED
        BY <4>1, <4>3
    <3>3. \A y \in past : y <= h
      BY <1>d DEF UpTo, Values
    <3>4. c.num = h + 1
      BY <3>1
    <3> HIDE DEF c, i, x
    <3>5. Answers(Append(q, c), n1, past, h + 1)
      BY <1>c, <1>d, <2>3, <3>3, <3>4, AnswersWith
    <3>6. Waiting(n2)' = Append(q, c)
      BY <2>3, <3>1
    <3>7. UpTo(Past(l), h + 1)
      <4>1. \A y \in DOMAIN Past(l) : Past(l)[y] \in Nat
        BY <1>c
      <4> QED
        BY <1>c, <1>d, <4>1 DEF UpTo
    <3>8. /\ Rising(Past(l)') /\ UpTo(Past(l)', Len(handled'[l]))
          /\ Answers(Waiting(n2)', n1, Values(Past(l)'), Len(handled'[l]))
      BY <1>d, <2>4, <3>2, <3>5, <3>6, <3>7
    <3> QED
      BY <3>8 DEF AcksInOrder, Rising, UpTo, Values
  <2>6. CASE l # x
    <3>1. Len(handled[l])' = h
      BY <2>1, <2>6 DEF TypeOK
    <3>2. CASE n2 = n
      <4>1. ~IsFor(c, "reply", n1)
        BY <1>b, <2>6, <3>2 DEF IsFor
      <4> HIDE DEF c, i, x
      <4>2. Answers(Append(q, c), n1, past, h)
        BY <1>c, <1>d, <2>3, <4>1, AnswersWith
      <4>3. Waiting(n2)' = Append(q, c)
        BY <2>3, <3>2
      <4> QED
        BY <1>e, <2>4, <3>1, <4>2, <4>3
    <3>3. CASE n2 # n
      BY <1>b, <1>d, <1>e, <2>3, <2>4, <3>1, <3>3
    <3> QED
      BY <3>2, <3>3
  <2> QED
    BY <2>5, <2>6
<1>5. ASSUME NEW n \in Nodes, NEW p \in Nodes \ {n}, DrainDealer(n, p)
      PROVE  AcksInOrder(l)'
  <2> DEFINE x == <<n, p>>
  <2>1. /\ x \in Links /\ back[x] # <<>>
        /\ back' = [back EXCEPT ![x] = Tail(@)]
        /\ acked' = [acked EXCEPT ![x] = Append(@, Head(back[x]))]
        /\ UNCHANGED <<batch, commands, handled>>
    BY <1>5, <1>b DEF DrainDealer
  <2>2. Past(l)' = Past(l)
    <3>1. CASE l = x
      <4>1. back'[l] = Tail(back[l]) /\ acked'[l] = Append(acked[l], Head(back[l]))
        BY <2>1, <3>1 DEF TypeOK
      <4>2. Append(acked[l], Head(back[l])) \o Tail(back[l]) = acked[l] \o back[l]
        BY <2>1, <3>1, OutTypes, Passed
      <4> QED
        BY <4>1, <4>2 DEF Past
    <3>2. CASE l # x
      BY <2>1, <3>2 DEF Past, TypeOK
    <3> QED
      BY <3>1, <3>2
  <2>3. Len(handled[l])' = h /\ Waiting(n2)' = q
    BY <2>1 DEF Waiting
  <2> QED
    BY <1>d, <1>e, <2>2, <2>3
<1>6. CASE Elsewhere
  <2>1. Past(l)' = Past(l) /\ Len(handled[l])' = h /\ Waiting(n2)' = q
    BY <1>b, <1>6 DEF Elsewhere, Past
  <2> QED
    BY <1>d, <1>e, <2>1
<1> QED
  BY <1>1, <1>2, <1>3, <1>4, <1>5, <1>6, KindsOfSteps

\* Acks tell the truth, for any number of nodes and messages, and whatever acks the
\* ROUTER drops: what n is told is handled p has handled, and n is told once.
THEOREM AcksTellTruth == Spec => []AcksTruthful
<1>1. Init => AcksInv
  <2> SUFFICES ASSUME Init, NEW l \in Links PROVE AcksInOrder(l)
    BY QueueInit DEF AcksInv
  <2>1. l[1] \in Nodes /\ l[2] \in Nodes
    BY LinkEnds
  <2>2. /\ acked[l] = <<>> /\ back[l] = <<>>
        /\ batch[l[2]] = <<>> /\ commands[l[2]] = <<>>
    BY <2>1 DEF Init
  <2>3. Past(l) = <<>> /\ Waiting(l[2]) = <<>>
    BY <2>2 DEF Past, Waiting
  <2>4. \A y : PlacesOf(<<>>, "reply", y) = {}
    BY DEF PlacesOf
  <2> QED
    BY <2>3, <2>4 DEF AcksInOrder, Rising, UpTo, Answers
<1>2. AcksInv /\ [Next]_vars => AcksInv'
  BY TypeStep, BatchStep, NothingLostStep, AcksStep DEF AcksInv, QueueInv
<1>3. AcksInv => AcksTruthful
  <2> SUFFICES ASSUME AcksInv, NEW l \in Links
               PROVE  /\ \A i \in DOMAIN acked[l] : acked[l][i] <= Len(handled[l])
                      /\ \A i, j \in DOMAIN acked[l] : i < j => acked[l][i] < acked[l][j]
    BY DEF AcksTruthful
  <2> DEFINE a == acked[l]
             b == back[l]
             s == Past(l)
  <2>1. Rising(s) /\ UpTo(s, Len(handled[l]))
    BY DEF AcksInv, AcksInOrder
  <2>2. a \in Seq(Numbers) /\ b \in Seq(Numbers)
    BY OutTypes DEF AcksInv, QueueInv
  <2>3. s = a \o b
    BY DEF Past
  <2> HIDE DEF a, b, s
  <2>4. DOMAIN a \subseteq DOMAIN s /\ \A i \in DOMAIN a : s[i] = a[i]
    BY <2>2, <2>3
  <2> QED
    BY <2>1, <2>4 DEF Rising, UpTo, a
<1> QED
  BY <1>1, <1>2, <1>3, PTL DEF Spec
=============================================================================

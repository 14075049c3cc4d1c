------------------------------ MODULE Transport ------------------------------
(***************************************************************************)
(* ZmqTransport (core/src/transport/zmq_transport.cpp) on a few nodes that *)
(* send to each other.  Callers on any thread append to commands_; one I/O *)
(* thread per node takes the whole queue, writes each command to a socket, *)
(* and then reads its ROUTER and its DEALERs until they are empty.         *)
(*                                                                         *)
(* A DEALER's messages wait in a pipe of bounded capacity (the high-water  *)
(* marks of ZeroMQ at both ends); dealer.send blocks the I/O thread while  *)
(* the pipe is full.  The ROUTER never blocks: it drops what does not fit, *)
(* or what is for a peer that is not connected.  Every message that comes  *)
(* in on a ROUTER is acknowledged through the same ROUTER, as              *)
(* on_transport_message does for everything but pairing.                   *)
(*                                                                         *)
(* A second thread per node, of ZapHandler (zap_handler.cpp), is asked     *)
(* about every new connection, and until it has answered the ROUTER reads  *)
(* nothing of it.  All nodes here are paired, so it answers yes.           *)
(*                                                                         *)
(* Addresses do not change here, so a peer's DEALER is created once.       *)
(***************************************************************************)
EXTENDS Naturals, Sequences

CONSTANTS
  Nodes,
  Senders,   \* nodes whose user sends something
  Stoppers,  \* nodes that may be shut down
  Capacity,  \* messages that fit between a DEALER and its ROUTER
  MaxSends   \* bound on send_to_peer, per sender and peer

ASSUME TransportAssumption ==
  /\ Senders \subseteq Nodes
  /\ Stoppers \subseteq Nodes
  /\ Capacity \in Nat
  /\ MaxSends \in Nat

VARIABLES
  running,   \* running_
  stop,      \* where stop() is: "no", "zap" (the I/O thread is joined), "returned"
  commands,  \* commands_
  batch,     \* what io_loop took from commands_ and has not handled yet
  pc,        \* where io_loop is
  dealers,   \* peers in dealers_
  zap,       \* where ZapHandler::run is: "runs", "ended"
  link,      \* <<n, p>>: the connection of n's DEALER: "none", "asking", "open"
  ready,     \* DEALERs that poll reported and that are not drained yet
  pipe,      \* <<n, p>>: from n's DEALER to p's ROUTER
  back,      \* <<n, p>>: from p's ROUTER to n's DEALER
  sent,      \* <<n, p>>: how many messages n's callers have queued for p
  handled,   \* <<n, p>>: n's messages that p's on_message_ has seen
  acked      \* <<n, p>>: acks of p that n's on_message_ has seen

zapVars == <<zap, link>>
vars == <<running, stop, commands, batch, pc, dealers, zapVars, ready, pipe, back,
          sent, handled, acked>>

Links == {l \in Nodes \X Nodes : l[1] # l[2]}
Numbers == 1 .. MaxSends
Command == [type : {"send", "reply"}, to : Nodes, num : Numbers]

Init ==
  /\ running = [n \in Nodes |-> TRUE]
  /\ stop = [n \in Nodes |-> "no"]
  /\ commands = [n \in Nodes |-> <<>>]
  /\ batch = [n \in Nodes |-> <<>>]
  /\ pc = [n \in Nodes |-> "commands"]
  /\ dealers = [n \in Nodes |-> {}]
  /\ zap = [n \in Nodes |-> "runs"]
  /\ link = [l \in Links |-> "none"]
  /\ ready = [n \in Nodes |-> {}]
  /\ pipe = [l \in Links |-> <<>>]
  /\ back = [l \in Links |-> <<>>]
  /\ sent = [l \in Links |-> 0]
  /\ handled = [l \in Links |-> <<>>]
  /\ acked = [l \in Links |-> <<>>]

-----------------------------------------------------------------------------
(* Any thread *)

\* Mutants: the newest command comes first; the numbers start at zero.
QueueFirst(n, type, p, i) ==
  commands' = [commands EXCEPT ![n] =
                 <<[type |-> type, to |-> p, num |-> i]>> \o @]
QueueFromZero(n, type, p, i) ==
  commands' = [commands EXCEPT ![n] =
                 Append(@, [type |-> type, to |-> p, num |-> i - 1])]

\* The command that a call of send_to_peer or reply_via_router queues.
Queue(n, type, p, i) ==
  commands' = [commands EXCEPT ![n] =
                 Append(@, [type |-> type, to |-> p, num |-> i])]

SendToPeer(n, p) ==
  /\ n \in Senders
  /\ sent[<<n, p>>] < MaxSends
  /\ sent' = [sent EXCEPT ![<<n, p>>] = @ + 1]
  /\ Queue(n, "send", p, sent[<<n, p>>] + 1)
  /\ UNCHANGED <<running, stop, batch, pc, dealers, zapVars, ready, pipe, back,
                 handled, acked>>

\* stop() up to the first join.
Stop(n) ==
  /\ n \in Stoppers
  /\ running[n]
  /\ running' = [running EXCEPT ![n] = FALSE]
  /\ UNCHANGED <<stop, commands, batch, pc, dealers, zapVars, ready, pipe, back,
                 sent, handled, acked>>

\* Mutant: no join.
StopWithoutJoin(n) ==
  /\ ~running[n]
  /\ stop[n] = "no"
  /\ dealers' = [dealers EXCEPT ![n] = {}]
  /\ stop' = [stop EXCEPT ![n] = "zap"]
  /\ UNCHANGED <<running, commands, batch, pc, zapVars, ready, pipe, back, sent,
                 handled, acked>>

\* stop() once the I/O thread is joined, up to the join of the ZAP thread.
StopZap(n) ==
  /\ ~running[n]
  /\ pc[n] = "exited"
  /\ stop[n] = "no"
  /\ dealers' = [dealers EXCEPT ![n] = {}]
  /\ stop' = [stop EXCEPT ![n] = "zap"]
  /\ UNCHANGED <<running, commands, batch, pc, zapVars, ready, pipe, back, sent,
                 handled, acked>>

\* The ZAP thread is joined too.
StopReturns(n) ==
  /\ stop[n] = "zap"
  /\ zap[n] = "ended"
  /\ stop' = [stop EXCEPT ![n] = "returned"]
  /\ UNCHANGED <<running, commands, batch, pc, dealers, zapVars, ready, pipe, back,
                 sent, handled, acked>>

-----------------------------------------------------------------------------
(* ZapHandler::run *)

\* The next request: is_allowed_ is asked, and the answer sent.  (A connection that
\* asks while the thread is between two requests waits for it.)
ZapAnswers(n, p) ==
  /\ zap[n] = "runs"
  /\ link[<<p, n>>] = "asking"
  /\ link' = [link EXCEPT ![<<p, n>>] = "open"]
  /\ UNCHANGED <<running, stop, commands, batch, pc, dealers, zap, ready, pipe,
                 back, sent, handled, acked>>

\* The loop sees that ZapHandler::stop has cleared running_.
ZapEnds(n) ==
  /\ zap[n] = "runs"
  /\ stop[n] = "zap"
  /\ zap' = [zap EXCEPT ![n] = "ended"]
  /\ UNCHANGED <<running, stop, commands, batch, pc, dealers, link, ready, pipe,
                 back, sent, handled, acked>>

ZapThread(n) == ZapEnds(n) \/ \E p \in Nodes \ {n} : ZapAnswers(n, p)

-----------------------------------------------------------------------------
(* io_loop *)

\* The top of the loop: take the whole queue under cmd_mutex_.
TakeCommands(n) ==
  /\ pc[n] = "commands"
  /\ running[n]
  /\ batch' = [batch EXCEPT ![n] = commands[n]]
  /\ commands' = [commands EXCEPT ![n] = <<>>]
  /\ pc' = [pc EXCEPT ![n] = "handle"]
  /\ UNCHANGED <<running, stop, dealers, zapVars, ready, pipe, back, sent,
                 handled, acked>>

\* Mutant: the loop ends only when nothing is queued.
ExitWhenEmpty(n) ==
  /\ pc[n] = "commands"
  /\ ~running[n]
  /\ commands[n] = <<>>
  /\ pc' = [pc EXCEPT ![n] = "exited"]
  /\ UNCHANGED <<running, stop, commands, batch, dealers, zapVars, ready, pipe,
                 back, sent, handled, acked>>

ExitLoop(n) ==
  /\ pc[n] = "commands"
  /\ ~running[n]
  /\ pc' = [pc EXCEPT ![n] = "exited"]
  /\ UNCHANGED <<running, stop, commands, batch, dealers, zapVars, ready, pipe,
                 back, sent, handled, acked>>

\* handle_command takes the next command of the batch.
Handles(n, type) ==
  /\ pc[n] = "handle"
  /\ batch[n] # <<>>
  /\ Head(batch[n]).type = type
  /\ batch' = [batch EXCEPT ![n] = Tail(@)]

\* A SendCommand; the I/O thread is stuck here while the pipe is full.
HandleSend(n) ==
  /\ Handles(n, "send")
  /\ LET l == <<n, Head(batch[n]).to>>
     IN  /\ Len(pipe[l]) < Capacity
         /\ pipe' = [pipe EXCEPT ![l] = Append(@, Head(batch[n]).num)]
         /\ link' = [link EXCEPT ![l] = IF @ = "none" THEN "asking" ELSE @]
  /\ dealers' = [dealers EXCEPT ![n] = @ \union {Head(batch[n]).to}]
  /\ UNCHANGED <<running, stop, commands, pc, zap, ready, back, sent, handled,
                 acked>>

\* A ReplyCommand.
HandleReply(n) ==
  /\ Handles(n, "reply")
  /\ LET l == <<Head(batch[n]).to, n>>
     IN  back' = IF n \in dealers[l[1]] /\ Len(back[l]) < Capacity
                   THEN [back EXCEPT ![l] = Append(@, Head(batch[n]).num)]
                   ELSE back
  /\ UNCHANGED <<running, stop, commands, pc, dealers, zapVars, ready, pipe, sent,
                 handled, acked>>

\* Mutant: the ROUTER is not polled.
NeverReadable(n) == FALSE

RouterReadable(n) ==
  \E p \in Nodes \ {n} : link[<<p, n>>] = "open" /\ pipe[<<p, n>>] # <<>>

\* The batch is done: poll the ROUTER and the DEALERs.
Poll(n) ==
  /\ pc[n] = "handle"
  /\ batch[n] = <<>>
  /\ pc' = [pc EXCEPT ![n] = IF RouterReadable(n) THEN "router" ELSE "dealers"]
  /\ ready' = [ready EXCEPT ![n] = {p \in dealers[n] : back[<<n, p>>] # <<>>}]
  /\ UNCHANGED <<running, stop, commands, batch, dealers, zapVars, pipe, back,
                 sent, handled, acked>>

\* drain_router, one message, with the ack its handler queues.
DrainRouter(n, p) ==
  /\ pc[n] = "router"
  /\ link[<<p, n>>] = "open"
  /\ pipe[<<p, n>>] # <<>>
  /\ pipe' = [pipe EXCEPT ![<<p, n>>] = Tail(@)]
  /\ handled' = [handled EXCEPT ![<<p, n>>] = Append(@, Head(pipe[<<p, n>>]))]
  /\ Queue(n, "reply", p, Head(pipe[<<p, n>>]))
  /\ UNCHANGED <<running, stop, batch, pc, dealers, zapVars, ready, back, sent,
                 acked>>

\* drain_router found nothing more.
RouterDrained(n) ==
  /\ pc[n] = "router"
  /\ ~RouterReadable(n)
  /\ pc' = [pc EXCEPT ![n] = "dealers"]
  /\ UNCHANGED <<running, stop, commands, batch, dealers, zapVars, ready, pipe,
                 back, sent, handled, acked>>

\* drain_dealer, one message.
DrainDealer(n, p) ==
  /\ pc[n] = "dealers"
  /\ p \in ready[n]
  /\ back[<<n, p>>] # <<>>
  /\ back' = [back EXCEPT ![<<n, p>>] = Tail(@)]
  /\ acked' = [acked EXCEPT ![<<n, p>>] = Append(@, Head(back[<<n, p>>]))]
  /\ UNCHANGED <<running, stop, commands, batch, pc, dealers, zapVars, ready,
                 pipe, sent, handled>>

\* drain_dealer found nothing more.
DealerDrained(n, p) ==
  /\ pc[n] = "dealers"
  /\ p \in ready[n]
  /\ back[<<n, p>>] = <<>>
  /\ ready' = [ready EXCEPT ![n] = @ \ {p}]
  /\ UNCHANGED <<running, stop, commands, batch, pc, dealers, zapVars, pipe, back,
                 sent, handled, acked>>

NextRound(n) ==
  /\ pc[n] = "dealers"
  /\ ready[n] = {}
  /\ pc' = [pc EXCEPT ![n] = "commands"]
  /\ UNCHANGED <<running, stop, commands, batch, dealers, zapVars, ready, pipe,
                 back, sent, handled, acked>>

IOLoop(n) ==
  \/ TakeCommands(n)
  \/ ExitLoop(n)
  \/ HandleSend(n)
  \/ HandleReply(n)
  \/ Poll(n)
  \/ \E p \in Nodes \ {n} : DrainRouter(n, p)
  \/ RouterDrained(n)
  \/ \E p \in Nodes \ {n} : DrainDealer(n, p) \/ DealerDrained(n, p)
  \/ NextRound(n)

Next ==
  \E n \in Nodes :
    \/ \E p \in Nodes \ {n} : SendToPeer(n, p)
    \/ Stop(n) \/ StopZap(n) \/ StopReturns(n)
    \/ IOLoop(n)
    \/ ZapThread(n)

Spec == Init /\ [][Next]_vars

\* Both threads are scheduled, and stop() goes on after each join.
Fairness ==
  \A n \in Nodes :
    /\ WF_vars(IOLoop(n)) /\ WF_vars(ZapThread(n))
    /\ WF_vars(StopZap(n)) /\ WF_vars(StopReturns(n))

FairSpec == Spec /\ Fairness

-----------------------------------------------------------------------------
(* Properties *)

\* Types of the variables.
TypeOK ==
  /\ running \in [Nodes -> BOOLEAN]
  /\ stop \in [Nodes -> {"no", "zap", "returned"}]
  /\ commands \in [Nodes -> Seq(Command)]
  /\ batch \in [Nodes -> Seq(Command)]
  /\ pc \in [Nodes -> {"commands", "handle", "router", "dealers", "exited"}]
  /\ dealers \in [Nodes -> SUBSET Nodes]
  /\ zap \in [Nodes -> {"runs", "ended"}]
  /\ link \in [Links -> {"none", "asking", "open"}]
  /\ ready \in [Nodes -> SUBSET Nodes]
  /\ pipe \in [Links -> Seq(Numbers)]
  /\ back \in [Links -> Seq(Numbers)]
  /\ sent \in [Links -> 0 .. MaxSends]
  /\ handled \in [Links -> Seq(Numbers)]
  /\ acked \in [Links -> Seq(Numbers)]

\* What waits at n, in the order in which io_loop will come to it, and where the
\* commands of a type for p are in it.
Waiting(n) == batch[n] \o commands[n]
PlacesOf(queue, type, p) ==
  {i \in DOMAIN queue : queue[i].type = type /\ queue[i].to = p}

\* Whatever n's callers queued for p is, in the order of the calls, exactly
\* what p has handled, what is in the pipe, what io_loop is working on and what
\* is still queued: nothing is lost, doubled or overtaken on the way, not even by
\* a stop in the middle of a round.
NothingLost ==
  \A l \in Links :
    LET out == handled[l] \o pipe[l]
        queue == Waiting(l[1])
        places == PlacesOf(queue, "send", l[2])
    IN  /\ out = [i \in 1 .. Len(out) |-> i]
        /\ Len(out) <= sent[l]
        /\ {queue[i].num : i \in places} = (Len(out) + 1) .. sent[l]
        /\ \A i, j \in places : i < j => queue[i].num < queue[j].num

\* An ack tells the truth: only messages that the peer handled are acknowledged,
\* each once at most, in order (acks may be dropped).
AcksTruthful ==
  \A l \in Links :
    /\ \A i \in DOMAIN acked[l] : acked[l][i] <= Len(handled[l])
    /\ \A i, j \in DOMAIN acked[l] : i < j => acked[l][i] < acked[l][j]

\* Once stop() has returned no callback runs any more, neither on_message_ nor
\* is_allowed_, so the owner may go away.
QuietAfterStop ==
  [][\A l \in Links :
       /\ stop[l[2]] = "returned" =>
            /\ handled'[l] = handled[l]
            /\ (link[l] = "asking") => (link'[l] = "asking")
       /\ stop[l[1]] = "returned" => acked'[l] = acked[l]]_vars

\* io_loop of n waits in dealer.send for room in the pipe to p.
BlockedOn(n, p) ==
  /\ pc[n] = "handle"
  /\ batch[n] # <<>>
  /\ Head(batch[n]).type = "send"
  /\ Head(batch[n]).to = p
  /\ Len(pipe[<<n, p>>]) >= Capacity

\* Nobody will make room: p is blocked on n in turn, or one of its threads has
\* ended.
Stuck(n) ==
  \E p \in Nodes \ {n} :
    BlockedOn(n, p) /\ (BlockedOn(p, n) \/ pc[p] = "exited" \/ zap[p] = "ended")

\* A message that was queued is handled, as long as neither end is shut down.
Handled(l, i) == Len(handled[l]) >= i \/ ~running[l[1]] \/ ~running[l[2]]
AllHandled ==
  \A l \in Links : \A i \in Numbers : sent[l] >= i ~> Handled(l, i)

\* The same, but for the one thing that can stop it for ever: two nodes that send
\* to each other and wait for each other.  Full pipes, acks that are dropped and
\* commands that come in while the sockets are drained do no harm.
HandledUnlessStuck ==
  \A l \in Links : \A i \in Numbers :
    sent[l] >= i ~> Handled(l, i) \/ Stuck(l[1])

\* stop() returns, unless the I/O thread is stuck in that way.
StopsUnlessStuck == \A n \in Nodes : ~running[n] ~> stop[n] = "returned" \/ Stuck(n)
=============================================================================

---------------------------- MODULE FileLifecycle ----------------------------
(***************************************************************************)
(* What the receiver promises about each staging file, seen from outside:  *)
(* one life, passed from hand to hand, that ends with the file's removal.  *)
(* A file is received, checked, offered in the inbox and taken by a user's *)
(* action; a later file's arrival may drop others on the way.  It is lost, *)
(* left on disk with nobody to remove it, only by a save that fails or by  *)
(* the end of the process.                                                 *)
(***************************************************************************)
CONSTANT Files

VARIABLE stage

Stages == {"none", "receiving", "checking", "offered", "taken", "lost"}

At(s) == {f \in Files : stage[f] = s}

\* f moves to stage s, and the files in dropped are removed.
Move(f, s, dropped) ==
  stage' = [g \in Files |-> IF g = f THEN s
                            ELSE IF g \in dropped THEN "none" ELSE stage[g]]

Drop(dropped) ==
  stage' = [g \in Files |-> IF g \in dropped THEN "none" ELSE stage[g]]

Init == stage = [f \in Files |-> "none"]

\* A transfer begins; transfers that were idle for too long are dropped.
Open == \E f \in At("none"), idle \in SUBSET At("receiving") :
          Move(f, "receiving", idle)
Expire == \E idle \in SUBSET At("receiving") : Drop(idle)

\* The transfer is over and its file is closed and checked.
Finish == \E f \in At("receiving") : Move(f, "checking", {})
Refuse == \E f \in At("checking") : Move(f, "none", {})

\* The file is offered, or a text is; other items make room for it.
Offer == \E f \in At("checking"), evicted \in SUBSET At("offered") :
           Move(f, "offered", evicted)
Evict == \E evicted \in SUBSET At("offered") : Drop(evicted)

\* A user's action takes the item, and ends with the file.
Take == \E f \in At("offered") : Move(f, "taken", {})
Dispose == \E f \in At("taken") : Move(f, "none", {})
Forget == \E f \in At("taken") : Move(f, "lost", {})

\* The process ends: whatever is on disk stays there.
Stop == stage' = [f \in Files |-> IF stage[f] = "none" THEN "none" ELSE "lost"]

Next == \/ Open \/ Expire \/ Finish \/ Refuse
        \/ Offer \/ Evict \/ Take \/ Dispose \/ Forget \/ Stop

Spec == Init /\ [][Next]_stage
=============================================================================

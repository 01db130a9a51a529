---------------------------- MODULE FencedClaims ----------------------------
(***************************************************************************)
(* What the AI work queue promises to the rest of the system, with time,    *)
(* leases, heartbeats and rows left out.                                    *)
(*                                                                         *)
(* An item is claimed under an epoch.  Claiming an item again starts a new  *)
(* epoch and fences every older claim: only the claim that carries the      *)
(* item's newest epoch may settle it, once, and a settled item moves again  *)
(* only when somebody asks for it to be done again.  An item that can be    *)
(* revised may be asked for at any time once it has been claimed, and that  *)
(* takes it from whoever is on it.  Nothing limits when a claim may be      *)
(* taken over, so the promise does not depend on clocks.                    *)
(*                                                                         *)
(* JobQueue implements this specification.                                  *)
(***************************************************************************)
EXTENDS Naturals

CONSTANTS
    Workers, Items, NoItem,
    Revisable       \* the items that can be asked for again when they are done

VARIABLES
    phase,      \* phase[i] : where item i stands
    epoch,      \* epoch[i] : how often item i has been claimed
    claim       \* claim[w] : the item and epoch worker w works on

vars == <<phase, epoch, claim>>

Phases == {"waiting", "claimed", "done", "undone"}
Settled == {"done", "undone"}
NoClaim == [item |-> NoItem, epoch |-> 0]

TypeOK ==
    /\ phase \in [Items -> Phases]
    /\ epoch \in [Items -> Nat]
    /\ claim \in [Workers -> [item : Items \cup {NoItem}, epoch : Nat]]

Init ==
    /\ phase = [i \in Items |-> "waiting"]
    /\ epoch = [i \in Items |-> 0]
    /\ claim = [w \in Workers |-> NoClaim]

(* A worker without a claim takes an unsettled item, whoever had it. *)
Claim(w, i) ==
    /\ claim[w] = NoClaim
    /\ phase[i] \notin Settled
    /\ phase' = [phase EXCEPT ![i] = "claimed"]
    /\ epoch' = [epoch EXCEPT ![i] = @ + 1]
    /\ claim' = [claim EXCEPT ![w] = [item |-> i, epoch |-> epoch[i] + 1]]

(* The newest claim settles its item, with either outcome. *)
Settle(w, i) ==
    /\ claim[w] = [item |-> i, epoch |-> epoch[i]]
    /\ phase[i] = "claimed"
    /\ \E outcome \in Settled : phase' = [phase EXCEPT ![i] = outcome]
    /\ claim' = [claim EXCEPT ![w] = NoClaim]
    /\ UNCHANGED epoch

(* Any claim, fenced or not, may be given up without effect. *)
Drop(w) ==
    /\ claim[w] # NoClaim
    /\ claim' = [claim EXCEPT ![w] = NoClaim]
    /\ UNCHANGED <<phase, epoch>>

(* An item that was not done is offered again, and one that can be revised   *)
(* once it has been tried.                                                   *)
Reopen(i) ==
    /\ phase[i] = "undone" \/ (i \in Revisable /\ epoch[i] > 0)
    /\ phase' = [phase EXCEPT ![i] = "waiting"]
    /\ UNCHANGED <<epoch, claim>>

Next ==
    \/ \E w \in Workers, i \in Items : Claim(w, i) \/ Settle(w, i)
    \/ \E w \in Workers : Drop(w)
    \/ \E i \in Items : Reopen(i)

Spec == Init /\ [][Next]_vars
=============================================================================

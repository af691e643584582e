------------------------------ MODULE MCCarry -------------------------------
(***************************************************************************)
(* Three Epochs and up to three RootPosted logs: room for a passed-over    *)
(* Epoch, a Void with a re-post, a late post, and the Root of a Draw that  *)
(* shares an Epoch's id. A search span of one block makes every search     *)
(* take several pages.                                                     *)
(***************************************************************************)
EXTENDS Carry

MCFunding == {3}
MCDraws   == {1}

(* All Epochs have Holders, or all but the second. *)
MCPopulations == {[e \in Epochs |-> TRUE], [e \in Epochs |-> e # 2]}
=============================================================================

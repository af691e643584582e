----------------------------- MODULE MCEndpoint -----------------------------
(***************************************************************************)
(* A batch of two headers beside a batch of one, with three attempts each: *)
(* enough for replies to be swapped, short, repeated or about another      *)
(* block, and for one call to turn the endpoint off batches under the      *)
(* other.                                                                  *)
(***************************************************************************)
EXTENDS Endpoint

CONSTANTS c1, c2

MCCalls   == {c1, c2}
MCWanted  == c1 :> <<1, 2>> @@ c2 :> <<2>>
MCHeaders == {1, 2}
=============================================================================

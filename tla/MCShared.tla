------------------------------ MODULE MCShared ------------------------------
(***************************************************************************)
(* Two processes over a chain of three blocks that carry one, two and one  *)
(* transfers, read a block at a time with a checkpoint at two records, so  *)
(* that a run writes before its Close or at it.                            *)
(***************************************************************************)
EXTENDS CacheShared

CONSTANTS p1, p2

MCProcs == {p1, p2}
MCLog   == <<1, 2, 2, 3>>
=============================================================================

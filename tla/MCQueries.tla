------------------------------ MODULE MCQueries ------------------------------
(* Queries for all short lists of items of four sizes: one that fits many   *)
(* times, one that fits twice and fills the message, one that fills it      *)
(* alone, and one that does not fit at all.                                 *)

EXTENDS Queries

ItemSizes == {1, 2, 4, 5}
MaxItems == 4
MCInputs == UNION {[1 .. n -> ItemSizes] : n \in 0 .. MaxItems}

(* From here on an id takes a byte more; in the code, from 128 on. *)
WideId == 5
MCIdExtra(id) == IF id >= WideId THEN 1 ELSE 0
=============================================================================

----------------------------- MODULE MCResolvers -----------------------------
(***************************************************************************)
(* LiquidResolvers on lists of up to three scalars, every offset and limit *)
(* from before the first element to past the last, and a break at any      *)
(* visit; a size_t of four bits.                                           *)
(***************************************************************************)
EXTENDS LiquidResolvers

V(t, n) == [t |-> t, n |-> n]

MCLists == {<<>>, <<V("INT", 1)>>, <<V("BOOL", 0), V("FLOAT", 1)>>,
            <<V("STR", 1), V("BOOL", 1), Nil>>}
MCOffsets == -1..4
MCLimits  == -2..4
=============================================================================

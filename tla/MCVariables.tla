---------------------------- MODULE MCVariables -----------------------------
(***************************************************************************)
(* LiquidVariables with a store of a list that has a list in it, and paths *)
(* to each of them, past the end and before the start of the list, where   *)
(* that is of the list after it grew by null pointers, and to nothing.     *)
(***************************************************************************)
EXTENDS LiquidVariables

Name(c)  == Str(<<c>>)

MCStores == {<<Hash(<<<<"l">>>>, <<2>>), List(<<3, 4>>), Num(2), List(<<5>>), Num(3)>>}

MCPaths == {<<Name("l")>>, <<Name("l"), Num(1)>>, <<Name("l"), Num(4)>>,
            <<Name("l"), Num(-3)>>, <<Name("l"), Num(-3), Name("x")>>}

MCLiterals == {Num(7)}
=============================================================================

----------------------------- MODULE MCBindings -----------------------------
(***************************************************************************)
(* LiquidBindings with an object of every class, a symbol that is          *)
(* registered up to twice, and callbacks two deep.                         *)
(***************************************************************************)
EXTENDS LiquidBindings

MCObjects == Classes
MCClassOf == [o \in Classes |-> o]
=============================================================================

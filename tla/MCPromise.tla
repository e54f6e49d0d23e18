------------------------------ MODULE MCPromise ------------------------------
(***************************************************************************)
(* LiquidRenderer implements RenderPromise: between renders the two agree  *)
(* on the store and the answer; a history variable keeps the store a       *)
(* render started from until the render has ended.                         *)
(***************************************************************************)
EXTENDS MCRenderer

VARIABLE before

MCInit == Init /\ before = store
MCNext == Next /\ before' = IF task'.op = "idle" THEN store' ELSE before
MCSpec == MCInit /\ [][MCNext]_<<vars, before>>

Promise == INSTANCE RenderPromise WITH
             job <- IF task.op = "idle" THEN NoNode ELSE stack[1].node,
             store <- before

\* Whatever the stack, the drops, the pending controls and the depth counter
\* go through, a render answers with a text and a store that the lexically
\* scoped semantics of its template allows, or fails because it nests too deep.
ImplementsPromise == Promise!Spec
=============================================================================

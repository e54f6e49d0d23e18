--------------------------- MODULE TemplateEngine ---------------------------
(***************************************************************************)
(* What a template engine promises its host, however it renders: a request *)
(* to render a template against a store is answered, once, by a text and   *)
(* the effect on the store that depend on nothing but the two.             *)
(***************************************************************************)
CONSTANTS
    Templates,      \* the templates the host may ask for
    Stores,         \* the stores it may ask with
    Reply(_, _),    \* the text of a template under a store
    Effect(_, _)    \* the store after it

VARIABLES store, request, answer

vars == <<store, request, answer>>

None == <<>>

Init == store \in Stores /\ request = None /\ answer = None

(* The host hands over its store as it is, or another one. *)
Ask ==
    /\ request = None
    /\ \E t \in Templates : request' = <<t>>
    /\ store' \in Stores \union {store}
    /\ answer' = None

Answer ==
    /\ request # None
    /\ answer' = <<Reply(request[1], store)>>
    /\ store' = Effect(request[1], store)
    /\ request' = None

Next == Ask \/ Answer

Safety == Init /\ [][Next]_vars

Spec == Safety /\ WF_vars(Answer)
=============================================================================

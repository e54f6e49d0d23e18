---------------------------- MODULE VariableStore ---------------------------
(***************************************************************************)
(* What assign promises, whatever the resolver and however its variables   *)
(* lie in memory: a store is one value, an assignment changes it at one    *)
(* path, to a value of its own or to a copy of what is at another path.    *)
(***************************************************************************)
EXTENDS LiquidValues

CONSTANTS Stores, Paths, Literals

VARIABLE value

Read(obj, keys) == IF GetPath(obj, keys) = Nothing THEN Nil ELSE GetPath(obj, keys)[1]

(***************************************************************************)
(* The elements of the list at a path, for the variable of a loop over it. *)
(* A loop counts an index that is negative from the end of its list when   *)
(* it begins: while it runs, that is any place of the list.                *)
(***************************************************************************)
Leads(x, key) ==
    IF IsInt(key) /\ key.n < 0 /\ x.t = "LIST" THEN Range(x.a) ELSE Range(Get(x, key))

ElementsAt(obj, keys) ==
    LET places[k \in 0..Len(keys)] ==
            IF k = 0 THEN {obj} ELSE UNION {Leads(x, keys[k]) : x \in places[k - 1]}
    IN  UNION {Range(x.a) : x \in places[Len(keys)]}

Assignable(obj) ==
    Literals \union {Read(obj, p) : p \in Paths} \union UNION {ElementsAt(obj, p) : p \in Paths}

Given(obj) == Assignable(obj) \union {List(<<x, x>>) : x \in Assignable(obj)}

(* The values a store may have after an assignment. *)
Successors(obj) == {SetPath(obj, p, v) : p \in Paths, v \in Given(obj)}

Init == value \in Stores

Next == value' # value /\ value' \in Successors(value)

Spec == Init /\ [][Next]_value
=============================================================================

--------------------------- MODULE LiquidVariables --------------------------
(***************************************************************************)
(* The variables of a store as the objects that they are: CPPVariables on  *)
(* the heap (src/cppvariable.h), each owned by the vector or the map that  *)
(* has its unique_ptr, the store by the host.  The renderer (renderer.cpp, *)
(* dialect.cpp) holds raw pointers to them: the list a loop runs over and  *)
(* the element it is at.  A step is a tag of some template, or something   *)
(* the host does between two renderings.                                   *)
(*                                                                         *)
(* A cell is a record like a value (LiquidValues), whose elements are the  *)
(* addresses of cells; address 0 is the null pointer.  A pointer to a cell *)
(* that was freed is Dangling, even if the address is in use again.        *)
(* Beside the heap, json is the same store behind the other resolver       *)
(* (src/rapidjsonvariable.h), as a value: its document keeps all memory    *)
(* until it goes.                                                          *)
(***************************************************************************)
EXTENDS LiquidValues

CONSTANTS
    Stores,       \* the stores a host may have, as heaps
    Paths,        \* the paths that templates read, assign and run loops over
    Literals,     \* the scalars they assign
    MaxLoops,     \* how many loops may nest
    MaxTags       \* how many tags that allocate are rendered

VARIABLES
    heap,       \* the cell at every address that is in use
    loops,      \* the loops that run, the innermost last
    tags,       \* how many tags have allocated so far
    last,       \* the last of them: what it did and whether the resolver refused it
    status,     \* "ok", or "undefined" once memory was used that is not the program's
    json        \* the store behind the other resolver

vars == <<heap, loops, tags, last, status, json>>

Null     == 0
Dangling == -1
Root     == 1

-----------------------------------------------------------------------------
(* Memory. *)

Below(h, c) == Range(h[c].a) \ {Null}

(* A cell and all that it owns: what is within so many steps of it as there are cells. *)
Reach(h, c) ==
    LET within[n \in 0..Cardinality(DOMAIN h)] ==
            IF n = 0 THEN {c}
            ELSE LET nearer == within[n - 1] IN nearer \union UNION {Below(h, k) : k \in nearer}
    IN  within[Cardinality(DOMAIN h)]

(* The value that a cell stands for; a gap of an array reads as nil. *)
ValueAt(h, c) ==
    LET value[k \in DOMAIN h] ==
            [h[k] EXCEPT !.a = [i \in DOMAIN @ |-> IF @[i] = Null THEN Nil ELSE value[@[i]]]]
    IN  IF c = Null THEN Nil ELSE value[c]

(* A heap and the address of what was put into it. *)
At(h, p) == [h |-> h, p |-> p]

Beside(h, cells) ==
    [c \in DOMAIN h \union DOMAIN cells |-> IF c \in DOMAIN h THEN h[c] ELSE cells[c]]

New(h, cell) == LET c == Max(DOMAIN h) + 1 IN At(Beside(h, [d \in {c} |-> cell]), c)

Without(h, cells) == [c \in DOMAIN h \ cells |-> h[c]]

(***************************************************************************)
(* CPPVariable::assign of a variable: a new object for every element, down *)
(* to the scalars.  They lie in the new memory as the old ones in the old. *)
(***************************************************************************)
CreateClone(h, c) ==
    LET base    == Max(DOMAIN h)
        Moved(p) == IF p = Null THEN Null ELSE p + base
        copies  == [k \in {Moved(j) : j \in Reach(h, c)} |->
                       [h[k - base] EXCEPT !.a = [i \in DOMAIN @ |-> Moved(@[i])]]]
    IN  At(Beside(h, copies), Moved(c))

(* ~CPPVariable: the object and all that it owns. *)
Delete(h, c) == IF c = Null THEN h ELSE Without(h, Reach(h, c))

(* The copy dereferences the elements of an array, of which setArrayVariable leaves null ones. *)
HasGaps(h, c) == \E k \in Reach(h, c) : Null \in Range(h[k].a)

(* Who holds the pointer to a cell: no one twice, nothing freed, nothing in itself. *)
Owners(h, c) == UNION {{<<o, k>> : k \in {j \in DOMAIN h[o].a : h[o].a[j] = c}} : o \in DOMAIN h}

IsForest(h) ==
    /\ Owners(h, Root) = {}
    /\ \A c \in DOMAIN h : /\ \A x, y \in Owners(h, c) : x = y
                           /\ Below(h, c) \subseteq DOMAIN h
                           /\ \A k \in Below(h, c) : c \notin Reach(h, k)

(* The stores and the values that there are. *)
IsScalar(v) ==
    v = Nil \/ (v.n \in Int /\ v = Num(v.n)) \/ v \in {Bool(TRUE), Bool(FALSE)} \/ v = Str(v.s)

IsCell(v) ==
    \/ IsScalar(v)
    \/ v.t = "LIST" /\ v.a \in Seq(Nat) /\ v = List(v.a)
    \/ /\ v.t = "HASH" /\ v.a \in Seq(Nat \ {Null}) /\ v = Hash(v.s, v.a)
       /\ v.s \in Seq(Range(v.s)) /\ Len(v.s) = Len(v.a)
       /\ \A i, j \in DOMAIN v.s : v.s[i] = v.s[j] => i = j

(* Addresses are names: a store can be laid out with what is owned behind its owner. *)
IsStore(h) ==
    /\ h = [c \in DOMAIN h |-> h[c]] /\ IsFiniteSet(DOMAIN h)
    /\ Root \in DOMAIN h /\ h[Root].t \in {"NIL", "HASH"}
    /\ \A c \in DOMAIN h : c \in Nat \ {Null} /\ IsCell(h[c]) /\ \A k \in Below(h, c) : k > c
    /\ IsForest(h)

IsKey(key) == key.n \in Int /\ (key = Num(key.n) \/ key = Str(key.s))

ASSUME VariablesAssumption ==
    /\ MaxLoops \in Nat /\ MaxTags \in Nat
    /\ \A h \in Stores : IsStore(h)
    /\ \A v \in Literals : IsScalar(v)
    /\ \A p \in Paths : p # <<>> /\ p \in Seq(Range(p)) /\ \A key \in Range(p) : IsKey(key)

-----------------------------------------------------------------------------
(* The resolver: CPPVariable's functions for a cell. *)

Element(h, obj, key) ==
    LET size == Len(h[obj].a)
        i    == IF key.n < 0 THEN key.n + size ELSE key.n
    IN  CASE IsInt(key) /\ h[obj].t = "LIST" /\ i \in 0..(size - 1) -> Just(h[obj].a[i + 1])
          [] IsStr(key) /\ h[obj].t = "HASH" /\ KeyIndex(h[obj], key.s) # {} ->
                 Just(h[obj].a[CHOOSE k \in KeyIndex(h[obj], key.s) : TRUE])
          [] OTHER -> Nothing

(* Mutated: emplace, which leaves the value that is there. *)
SetDictionaryVariableOnce(h, obj, key, target) ==
    LET cell == h[obj]
    IN  CASE cell.t \notin {"NIL", "HASH"} -> At(h, Null)
          [] cell.t = "NIL" -> At([h EXCEPT ![obj] = Hash(<<key>>, <<target>>)], target)
          [] cell.t = "HASH" /\ KeyIndex(cell, key) = {} ->
                 At([h EXCEPT ![obj] = Hash(Append(cell.s, key), Append(cell.a, target))], target)
          [] cell.t = "HASH" /\ KeyIndex(cell, key) # {} -> At(Delete(h, target), target)

(* setDictionaryVariable takes the target over and frees what was there. *)
SetDictionaryVariable(h, obj, key, target) ==
    LET cell == h[obj]
        old  == KeyIndex(cell, key)
        slot == CHOOSE k \in old : TRUE
    IN  CASE cell.t \notin {"NIL", "HASH"} -> At(h, Null)
          [] cell.t = "NIL" -> At([h EXCEPT ![obj] = Hash(<<key>>, <<target>>)], target)
          [] cell.t = "HASH" /\ old = {} ->
                 At([h EXCEPT ![obj] = Hash(Append(cell.s, key), Append(cell.a, target))], target)
          [] cell.t = "HASH" /\ old # {} ->
                 At([Delete(h, cell.a[slot]) EXCEPT ![obj].a[slot] = target], target)

(* Mutated: the array is resized whether the index is past its end or not. *)
SetArrayVariableResizing(h, obj, idx, target) ==
    LET size  == Len(h[obj].a)
        i     == IF idx < 0 THEN idx + size ELSE idx
        copy  == CreateClone(h, target)
        grown == [k \in 1..(i + 1) |-> IF k <= size THEN h[obj].a[k] ELSE Null]
    IN  IF h[obj].t # "LIST" THEN At(h, Null)
        ELSE At([Delete(copy.h, grown[i + 1]) EXCEPT ![obj].a = [grown EXCEPT ![i + 1] = copy.p]], copy.p)

(***************************************************************************)
(* setArrayVariable stores a copy of the target; the target stays whose it *)
(* was.  Past the end the array grows by null pointers.                    *)
(***************************************************************************)
SetArrayVariable(h, obj, idx, target) ==
    LET size  == Len(h[obj].a)
        i     == IF idx < 0 THEN idx + size ELSE idx
        copy  == CreateClone(h, target)
        grown == [k \in 1..Max({size, i + 1}) |-> IF k <= size THEN h[obj].a[k] ELSE Null]
    IN  IF h[obj].t # "LIST" THEN At(h, Null)
        ELSE At([Delete(copy.h, grown[i + 1]) EXCEPT ![obj].a = [grown EXCEPT ![i + 1] = copy.p]], copy.p)

(* An index that is negative still shrinks the array to it, and is written to outside of it. *)
SetArrayIsDefined(h, obj, idx) == h[obj].t = "LIST" => idx >= -Len(h[obj].a)

-----------------------------------------------------------------------------
(* The renderer. *)

(* Renderer::getVariable: where a path leads; Nothing if nowhere, null for a gap of an array. *)
(* Going on from a gap leads nowhere for setVariable, and is no defined read (Readable).      *)
GetVariable(h, obj, keys) ==
    LET at[k \in 0..Len(keys)] ==
            IF k = 0 THEN Just(obj)
            ELSE LET before == at[k - 1]
                 IN  IF before \in {Nothing, Just(Null)} THEN Nothing
                     ELSE Element(h, before[1], keys[k])
    IN  at[Len(keys)]

(* The path with its indexes counted from the start, as far as it leads. *)
FromStart(h, keys) ==
    LET At0(k) == GetVariable(h, Root, SubSeq(keys, 1, k - 1))
        Negative(k) == IsInt(keys[k]) /\ keys[k].n < 0 /\ At0(k) \notin {Nothing, Just(Null)}
    IN  [k \in DOMAIN keys |->
            IF Negative(k) THEN Num(keys[k].n + Len(h[At0(k)[1]].a)) ELSE keys[k]]

SetElement(h, obj, key, target) ==
    IF IsInt(key) THEN SetArrayVariable(h, obj, key.n, target)
    ELSE SetDictionaryVariable(h, obj, key.s, target)

(* Renderer::setVariable; its p is null if the resolver refused, or a link led nowhere. *)
SetVariableAt(h, store, keys, target) ==
    LET parent == GetVariable(h, store, Front(keys))
    IN  IF parent \in {Nothing, Just(Null)} THEN At(h, Null)
        ELSE SetElement(h, parent[1], Last(keys), target)

(* A value of the engine that is behind a pointer. *)
Pointer(c) == Value("VAR", c, <<>>, <<>>)

(* Mutated: the pointer is taken as it is. *)
InjectPointer(h, v) == IF v.t = "VAR" THEN At(h, v.n) ELSE New(h, v)

(* Mutated: the elements are moved out of the list instead of copied. *)
InjectMoved(h, v) ==
    IF v.t = "VAR" THEN New([h EXCEPT ![v.n].a = <<>>], h[v.n]) ELSE New(h, v)

InjectScalarOrCopy(h, v) == IF v.t = "VAR" THEN CreateClone(h, v.n) ELSE New(h, v)

(* Mutated: the element is not freed. *)
InjectElementUnfreed(acc, v) ==
    LET target == InjectScalarOrCopy(acc.h, v)
    IN  At(SetArrayVariable(target.h, acc.p, Len(target.h[acc.p].a), target.p).h, acc.p)

(* One element of an array: created, copied into the array by the resolver, and freed. *)
InjectElement(acc, v) ==
    LET target == InjectScalarOrCopy(acc.h, v)
        set    == SetArrayVariable(target.h, acc.p, Len(target.h[acc.p].a), target.p)
    IN  At(Delete(set.h, target.p), acc.p)

(* Renderer::inject: a new variable for a value of the engine. *)
InjectInto(h, v) ==
    LET filled[k \in 0..Len(v.a)] ==
            IF k = 0 THEN New(h, List(<<>>)) ELSE InjectElement(filled[k - 1], v.a[k])
    IN  IF v.t = "ARRAY" THEN filled[Len(v.a)] ELSE InjectScalarOrCopy(h, v)

(* Renderer::parseVariant: a scalar by itself, anything else behind the pointer to it. *)
ParseCell(h, c) == IF h[c].t \in {"LIST", "HASH"} THEN Pointer(c) ELSE h[c]

ReadVariable(h, keys) ==
    LET found == GetVariable(h, Root, keys) IN IF found = Nothing THEN Nil ELSE ParseCell(h, found[1])

(***************************************************************************)
(* What a template can read by its path.  A null pointer is dereferenced:  *)
(* at the end of the path by parseVariant, on the way by the resolver that *)
(* is to go on from it (setVariable asks for it before that).  What a      *)
(* list's copy needs is asked of the ones copied.                          *)
(***************************************************************************)
Readable(h, keys) ==
    /\ GetVariable(h, Root, keys) # Just(Null)
    /\ \A n \in 1..(Len(keys) - 1) : GetVariable(h, Root, SubSeq(keys, 1, n)) # Just(Null)

Copyable(h, v) == v.t = "VAR" => ~HasGaps(h, v.n)

-----------------------------------------------------------------------------
(* The same operations behind the other resolver, on values. *)

JsonAt(obj, keys) == IF GetPath(obj, keys) = Nothing THEN Nil ELSE GetPath(obj, keys)[1]

(* parseVariant by way of getBool, which takes false for no boolean. *)
JsonRead(obj, keys) == IF JsonAt(obj, keys) = Bool(FALSE) THEN Nil ELSE JsonAt(obj, keys)

(* A scalar is no array: the first one that inject wants to set ends it, and stays unowned. *)
JsonInject(v) == IF v.t = "ARRAY" THEN List(<<>>) ELSE v

(* setDictionaryVariable wants an object, setArrayVariable wants the value itself to be an array. *)
JsonSet(obj, keys, v) ==
    IF IsStr(Last(keys)) /\ JsonAt(obj, Front(keys)).t = "HASH" THEN SetPath(obj, keys, v) ELSE obj

-----------------------------------------------------------------------------
Init ==
    /\ heap \in Stores /\ json = ValueAt(heap, Root)
    /\ loops = <<>>
    /\ tags = 0
    /\ last = [op |-> "none", plain |-> FALSE, refused |-> FALSE]
    /\ status = "ok"

(* The raw pointers of the loops after something was freed, and what was assigned over. *)
StillThere(h, c) == IF c \in DOMAIN h \union {Null} THEN c ELSE Dangling

LoopsAfter(h, path) ==
    [k \in DOMAIN loops |->
        LET f == loops[k]
        IN  [f EXCEPT !.seq = StillThere(h, @), !.elem = StillThere(h, @),
                      !.replaced = @ \/ (path # <<>> /\ IsPrefix(path, f.path)),
                      !.touched = @ \/ (path # <<>> /\ (IsPrefix(path, f.path) \/ IsPrefix(f.path, path)))]]

(* A tag that allocates: what the heap is after it. *)
Tag(op, path, plain, set) ==
    /\ status = "ok" /\ tags < MaxTags
    /\ heap' = set.h
    /\ loops' = LoopsAfter(set.h, IF set.p = Null THEN <<>> ELSE FromStart(heap, path))
    /\ tags' = tags + 1
    /\ last' = [op |-> op, plain |-> plain, refused |-> set.p = Null]
    /\ UNCHANGED status

GoesWrong ==
    /\ status = "ok"
    /\ status' = "undefined"
    /\ UNCHANGED <<heap, loops, tags, last, json>>

(***************************************************************************)
(* Where a tag takes a value from: a literal, a path, the variable of a    *)
(* running loop (the function that the loop pushed as its drop).           *)
(***************************************************************************)
Sources ==
    {[from |-> "literal", v |-> v, path |-> <<>>, loop |-> 0] : v \in Literals}
    \union {[from |-> "path", v |-> Nil, path |-> p, loop |-> 0] : p \in Paths}
    \union {[from |-> "loop", v |-> Nil, path |-> <<>>, loop |-> k] : k \in DOMAIN loops}

IsDefined(src) ==
    CASE src.from = "literal" -> TRUE
      [] src.from = "path"    -> Readable(heap, src.path)
      [] src.from = "loop"    -> loops[src.loop].elem \notin {Null, Dangling}

ValueOf(src) ==
    CASE src.from = "literal" -> src.v
      [] src.from = "path"    -> ReadVariable(heap, src.path)
      [] src.from = "loop"    -> ParseCell(heap, loops[src.loop].elem)

JsonValueOf(src) ==
    CASE src.from = "literal" -> src.v
      [] src.from = "path"    -> JsonRead(json, src.path)
      [] src.from = "loop"    ->
             JsonAt(json, Append(loops[src.loop].path, Num(loops[src.loop].at - 1)))

SetIsDefined(path) ==
    LET parent == GetVariable(heap, Root, Front(path))
    IN  parent \notin {Nothing, Just(Null)} /\ IsInt(Last(path)) =>
            SetArrayIsDefined(heap, parent[1], Last(path).n)

(* What both resolvers can do: a name of an object that is there, and no array, nor false. *)
IsPlain(path, v) ==
    /\ \A k \in DOMAIN path : IsStr(path[k])
    /\ GetVariable(heap, Root, Front(path)) # Nothing =>
           heap[GetVariable(heap, Root, Front(path))[1]].t # "NIL"
    /\ v.t # "ARRAY" /\ v # Bool(FALSE)

(***************************************************************************)
(* AssignNode::render, and CaptureNode::render for a text.  An array of    *)
(* the engine is what an array literal or a filter gives.                  *)
(***************************************************************************)
AssignSafely(path, src, v, jv) ==
    /\ Copyable(heap, ValueOf(src)) /\ SetIsDefined(path)
    /\ LET injected == InjectInto(heap, v)
       IN  Tag(IF IsInt(Last(path)) THEN "element" ELSE "assign", path, IsPlain(path, v),
               SetVariableAt(injected.h, Root, path, injected.p))
    /\ json' = JsonSet(json, path, JsonInject(jv))

AssignValue(path, src) ==
    IsDefined(src) /\ AssignSafely(path, src, ValueOf(src), JsonValueOf(src))

AssignArray(path, src) ==
    LET Twice(v) == Array(<<v, v>>)
    IN  IsDefined(src) /\ AssignSafely(path, src, Twice(ValueOf(src)), Twice(JsonValueOf(src)))

AssignGoesWrong(path, src) ==
    /\ ~(IsDefined(src) /\ Copyable(heap, ValueOf(src)) /\ SetIsDefined(path))
    /\ GoesWrong

(***************************************************************************)
(* IncrementNode::render, DecrementNode::render: the variable itself is    *)
(* given as the store it is to be set in.                                  *)
(***************************************************************************)
Increment(path) ==
    LET found == GetVariable(heap, Root, path)
    IN  /\ found \notin {Nothing, Just(Null)}
        /\ IsInt(heap[found[1]])
        /\ LET created == New(heap, Num(heap[found[1]].n + 1))
           IN  Tag("increment", path, FALSE, SetVariableAt(created.h, found[1], path, created.p))
        /\ UNCHANGED json

(* Renderer::getVariable at a dot filter among the links: a scalar is injected, to be walked on. *)
ReadThroughDotFilter(path) ==
    LET found == GetVariable(heap, Root, Append(path, Num(0)))
    IN  /\ found \notin {Nothing, Just(Null)}
        /\ ParseCell(heap, found[1]).t # "VAR"
        /\ Tag("dotfilter", <<>>, FALSE, New(heap, heap[found[1]]))
        /\ UNCHANGED json

-----------------------------------------------------------------------------
(* ForNode::render on a list: CPPVariable::iterate and its callback. *)

EnterLoop(path) ==
    LET found == GetVariable(heap, Root, path)
    IN  /\ status = "ok" /\ Len(loops) < MaxLoops
        /\ found \notin {Nothing, Just(Null)}
        /\ heap[found[1]].t = "LIST" /\ heap[found[1]].a # <<>>
        /\ loops' = Append(loops, [path |-> FromStart(heap, path), seq |-> found[1], at |-> 1,
                                   end |-> Len(heap[found[1]].a), elem |-> heap[found[1]].a[1],
                                   replaced |-> FALSE, touched |-> FALSE])
        /\ UNCHANGED <<heap, tags, last, status, json>>

NextElement ==
    /\ status = "ok" /\ loops # <<>>
    /\ Last(loops).at < Last(loops).end
    /\ Last(loops).seq # Dangling
    /\ LET f == Last(loops)
       IN  loops' = Append(Front(loops), [f EXCEPT !.at = @ + 1, !.elem = heap[f.seq].a[f.at + 1],
                                                   !.touched = f.replaced])
    /\ UNCHANGED <<heap, tags, last, status, json>>

IterateGoesWrong ==
    /\ loops # <<>> /\ Last(loops).at < Last(loops).end /\ Last(loops).seq = Dangling
    /\ GoesWrong

(* After the last element, or by a break. *)
LeaveLoop ==
    /\ status = "ok" /\ loops # <<>>
    /\ loops' = Front(loops)
    /\ UNCHANGED <<heap, tags, last, status, json>>

-----------------------------------------------------------------------------
(***************************************************************************)
(* The host between two renderings: hash[key] = value, an assignment to    *)
(* the object that is there or to a new one.                               *)
(***************************************************************************)
HostAssign(key, v) ==
    LET old   == KeyIndex(heap[Root], key)
        named == IF old # {} THEN At(heap, heap[Root].a[CHOOSE k \in old : TRUE])
                 ELSE LET c == New(heap, Nil)
                      IN  At([c.h EXCEPT ![Root] = Hash(Append(@.s, key), Append(@.a, c.p))], c.p)
        cleared == Without(named.h, Reach(named.h, named.p) \ {named.p})
    IN  /\ loops = <<>>
        /\ Tag("host", <<>>, FALSE, At([cleared EXCEPT ![named.p] = v], named.p))
        /\ json' = SetDictionary(json, key, v)

Next ==
    \/ \E p \in Paths, src \in Sources :
           AssignValue(p, src) \/ AssignArray(p, src) \/ AssignGoesWrong(p, src)
    \/ \E p \in Paths : Increment(p) \/ ReadThroughDotFilter(p) \/ EnterLoop(p)
    \/ NextElement \/ IterateGoesWrong \/ LeaveLoop
    \/ \E p \in Paths, v \in Literals : Len(p) = 1 /\ IsStr(p[1]) /\ HostAssign(p[1].s, v)

Spec == Init /\ [][Next]_vars

-----------------------------------------------------------------------------
Unowned(h)   == DOMAIN h \ ({Root} \union UNION {Below(h, c) : c \in DOMAIN h})

(***************************************************************************)
(* A variable has one owner and is there as long as it, and nothing owns   *)
(* itself by way of others: nothing is freed twice, no store holds a       *)
(* variable of another, and a destructor ends.  That is what the copies of *)
(* inject and of the resolver are for.                                     *)
(***************************************************************************)
HeapIsForest == IsForest(heap)

(***************************************************************************)
(* A variable that was created is to be set as an element or freed         *)
(* (interface.h:118-123).  One that is neither, and so lost for good, is   *)
(* lost in one of four ways: the resolver refused an assignment, an        *)
(* array's element was assigned, a variable incremented, or a path led     *)
(* through a dot filter.  And what is lost once is lost: it is never freed *)
(* behind the back of a pointer that is left.                              *)
(***************************************************************************)
LeaksAreKnown ==
    [][/\ Unowned(heap) \subseteq Unowned(heap')
       /\ Unowned(heap') # Unowned(heap) =>
              last'.refused \/ last'.op \in {"element", "increment", "dotfilter"}]_vars

(***************************************************************************)
(* A loop is on the list its path leads to and on the element at its place *)
(* - whatever is assigned in its body, copies of either included, and even *)
(* as the list grows - until the list, something it is in, or one of its   *)
(* elements is assigned.                                                   *)
(***************************************************************************)
LoopsStayOnTheirLists ==
    \A k \in DOMAIN loops :
        LET f == loops[k]
        IN  /\ ~f.replaced => GetVariable(heap, Root, f.path) = Just(f.seq)
            /\ ~f.touched  => GetVariable(heap, Root, Append(f.path, Num(f.at - 1))) = Just(f.elem)

(* The two resolvers agree on what an assignment does that both of them can do. *)
ResolversAgree ==
    [][last'.op = "assign" /\ last'.plain /\ json = ValueAt(heap, Root) =>
           json' = ValueAt(heap', Root)]_vars

(* Behind the pointers, a store is one value, changed at one place at a time. *)
Abstract == INSTANCE VariableStore WITH value <- ValueAt(heap, Root),
                                        Stores <- {ValueAt(s, Root) : s \in Stores}

ImplementsStore == Abstract!Spec
=============================================================================

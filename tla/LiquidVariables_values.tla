----------------------- MODULE LiquidVariables_values -----------------------
(***************************************************************************)
(* What the heap of LiquidVariables is a store of: its value, and that an  *)
(* assignment changes that value at one path, as VariableStore says and as *)
(* the other resolver does.                                                *)
(*                                                                         *)
(* A value is what a cell has and the values of what it owns, which lie    *)
(* behind it: induction runs from the last address back.  It depends only  *)
(* on what the cell owns (ValueMoved), hence a clone has the value of the  *)
(* original, and a cell stored at the end of a path changes the values of  *)
(* the cells on that path and of no other.                                 *)
(***************************************************************************)
EXTENDS LiquidVariables_proofs

-----------------------------------------------------------------------------
(* The value of a cell. *)

OfCell(cell, values) == [t |-> cell.t, n |-> cell.n, s |-> cell.s, a |-> values]

Values(h) == CHOOSE f : f = [k \in DOMAIN h |-> [h[k] EXCEPT !.a = [i \in DOMAIN @ |-> IF @[i] = Null THEN Nil ELSE f[@[i]]]]]

LEMMA CellWith ==
  ASSUME NEW v, IsCell(v), NEW a
  PROVE  [v EXCEPT !.a = a] = OfCell(v, a)
  <1> DEFINE q == [v EXCEPT !.a = a]
             fields == {"t", "n", "s", "a"}
  <1>1. v = [t |-> v.t, n |-> v.n, s |-> v.s, a |-> v.a]
    BY CellFacts
  <1>2. DOMAIN v = fields
    BY <1>1
  <1>3. q = [x \in DOMAIN q |-> q[x]]
    <2> SUFFICES [v EXCEPT !.a = a] = [x \in DOMAIN q |-> q[x]]
      OBVIOUS
    <2> QED OBVIOUS
  <1>4. q.t = v.t /\ q.n = v.n /\ q.s = v.s /\ q.a = a /\ DOMAIN q = DOMAIN v
    BY <1>2
  <1> HIDE DEF q
  <1>5. q = [t |-> q.t, n |-> q.n, s |-> q.s, a |-> q.a]
    BY <1>2, <1>3, <1>4
  <1>6. q = OfCell(v, a)
    BY <1>4, <1>5 DEF OfCell
  <1> QED BY <1>6 DEF q

LEMMA ValuesDef ==
  ASSUME NEW h, Laid(h), Descends(h)
  PROVE  Values(h) = [k \in DOMAIN h |-> [h[k] EXCEPT !.a = [i \in DOMAIN @ |-> IF @[i] = Null THEN Nil ELSE Values(h)[@[i]]]]]
  <1> DEFINE Cell(f, k) == [h[k] EXCEPT !.a = [i \in DOMAIN @ |-> IF @[i] = Null THEN Nil ELSE f[@[i]]]]
             m == Max(DOMAIN h)
             D(n) == {k \in DOMAIN h : k > m - n}
             Is(f, n) == f = [k \in D(n) |-> Cell(f, k)]
             S == {n \in Nat : \E f : Is(f, n)}
  <1>1. m \in Nat /\ \A k \in DOMAIN h : k \in Nat /\ k <= m /\ k # 0
    BY LastAddress DEF Laid, Null
  <1> HIDE DEF m
  <1>2. 0 \in S
    <2>1. D(0) = {}
      BY <1>1
    <2> DEFINE f == [k \in D(0) |-> 0]
    <2>2. Is(f, 0)
      BY <2>1
    <2> QED BY <2>2
  <1>3. ASSUME NEW n \in S PROVE n + 1 \in S
    <2>1. n \in Nat
      OBVIOUS
    <2>2. PICK f : Is(f, n)
      OBVIOUS
    <2> DEFINE g == [k \in D(n + 1) |-> Cell(f, k)]
    <2>3. ASSUME NEW k \in D(n + 1) PROVE Cell(g, k) = Cell(f, k)
      <3>1. ASSUME NEW i \in DOMAIN h[k].a, h[k].a[i] # Null
            PROVE  g[h[k].a[i]] = f[h[k].a[i]]
        <4> DEFINE j == h[k].a[i]
        <4>1. j \in DOMAIN h /\ j > k
          BY <3>1 DEF Holds, Descends
        <4>2. j > m - n /\ j > m - (n + 1)
          <5>1. j \in Nat /\ k \in Nat /\ m \in Nat /\ k > m - (n + 1) /\ n \in Nat
            BY <1>1, <2>1, <4>1
          <5> QED BY <4>1, <5>1
        <4>3. j \in D(n) /\ j \in D(n + 1)
          BY <4>1, <4>2
        <4>4. g[j] = Cell(f, j)
          BY <4>3
        <4>5. f[j] = Cell(f, j)
          BY <2>2, <4>3
        <4> QED BY <4>4, <4>5
      <3> DEFINE x == [i \in DOMAIN h[k].a |-> IF h[k].a[i] = Null THEN Nil ELSE f[h[k].a[i]]]
                 y == [i \in DOMAIN h[k].a |-> IF h[k].a[i] = Null THEN Nil ELSE g[h[k].a[i]]]
      <3>2. x = y
        <4> HIDE DEF g
        <4> QED BY <3>1
      <3>3. Cell(f, k) = [h[k] EXCEPT !.a = x]
        OBVIOUS
      <3>4. Cell(g, k) = [h[k] EXCEPT !.a = y]
        <4> HIDE DEF g
        <4> QED OBVIOUS
      <3> HIDE DEF x, y, g
      <3> QED BY <3>2, <3>3, <3>4
    <2>4. Is(g, n + 1)
      <3> HIDE DEF Cell, D
      <3>1. g = [k \in D(n + 1) |-> Cell(f, k)]
        OBVIOUS
      <3> HIDE DEF g
      <3> QED BY <2>3, <3>1
    <2> HIDE DEF g, Is
    <2>5. \E x : Is(x, n + 1)
      BY <2>4
    <2> QED BY <2>1, <2>5
  <1>4. S = Nat
    <2> HIDE DEF S
    <2>1. S \in SUBSET Nat
      BY DEF S
    <2> QED BY <1>2, <1>3, <2>1, Counting
  <1>5. D(m) = DOMAIN h
    BY <1>1
  <1>6. \E f : f = [k \in DOMAIN h |-> Cell(f, k)]
    <2>1. m \in S
      BY <1>1, <1>4
    <2> HIDE DEF Cell, D
    <2>2. PICK f : Is(f, m)
      BY <2>1
    <2> QED BY <1>5, <2>2
  <1> QED BY <1>6 DEF Values

\* What a cell has, and the values of what it owns.
LEMMA ValueIs ==
  ASSUME NEW h, Sound(h), NEW c \in DOMAIN h
  PROVE  ValueAt(h, c) = OfCell(h[c], [i \in DOMAIN h[c].a |-> ValueAt(h, h[c].a[i])])
  <1> DEFINE f == Values(h)
             x == [i \in DOMAIN h[c].a |-> IF h[c].a[i] = Null THEN Nil ELSE f[h[c].a[i]]]
  <1>1. \A k : ValueAt(h, k) = IF k = Null THEN Nil ELSE f[k]
    BY DEF ValueAt, Values
  <1>2. f[c] = [h[c] EXCEPT !.a = x]
    <2>1. f = [k \in DOMAIN h |-> [h[k] EXCEPT !.a = [i \in DOMAIN @ |-> IF @[i] = Null THEN Nil ELSE f[@[i]]]]]
      BY ValuesDef DEF Sound
    <2> HIDE DEF f
    <2> QED BY <2>1
  <1> HIDE DEF f
  <1>3. x = [i \in DOMAIN h[c].a |-> ValueAt(h, h[c].a[i])]
    BY <1>1
  <1>4. c # Null /\ IsCell(h[c])
    BY DEF Sound, Laid
  <1> HIDE DEF x
  <1>5. [h[c] EXCEPT !.a = x] = OfCell(h[c], x)
    BY <1>4, CellWith
  <1> QED BY <1>1, <1>2, <1>3, <1>4, <1>5

LEMMA NullIsNil ==
  ASSUME NEW h PROVE ValueAt(h, Null) = Nil
  BY DEF ValueAt

LEMMA ValueFacts ==
  ASSUME NEW h, Sound(h), NEW c \in DOMAIN h
  PROVE  /\ ValueAt(h, c).t = h[c].t /\ ValueAt(h, c).n = h[c].n /\ ValueAt(h, c).s = h[c].s
         /\ DOMAIN h[c].a = 1..Len(h[c].a) /\ Len(ValueAt(h, c).a) = Len(h[c].a) /\ Len(h[c].a) \in Nat
         /\ \A i \in DOMAIN h[c].a : ValueAt(h, c).a[i] = ValueAt(h, h[c].a[i])
  <1> DEFINE v == ValueAt(h, c)
             x == [i \in DOMAIN h[c].a |-> ValueAt(h, h[c].a[i])]
  <1>1. v = OfCell(h[c], x)
    BY ValueIs
  <1>2. DOMAIN h[c].a = 1..Len(h[c].a) /\ Len(h[c].a) \in Nat
    BY CellFacts DEF Sound, Laid
  <1> HIDE DEF v
  <1>3. v.t = h[c].t /\ v.n = h[c].n /\ v.s = h[c].s /\ v.a = x /\ v = OfCell(h[c], v.a)
    BY <1>1 DEF OfCell
  <1>4. DOMAIN x = 1..Len(h[c].a) /\ Len(x) = Len(h[c].a)
    BY <1>2
  <1>5. x = [i \in 1..Len(h[c].a) |-> x[i]] /\ \A i \in DOMAIN h[c].a : x[i] = ValueAt(h, h[c].a[i])
    BY <1>2, <1>4
  <1> HIDE DEF x
  <1> QED BY <1>2, <1>3, <1>4, <1>5 DEF v

LEMMA ValueShape ==
  ASSUME NEW h, Sound(h), NEW c \in DOMAIN h
  PROVE  /\ ValueAt(h, c) = OfCell(h[c], ValueAt(h, c).a)
         /\ ValueAt(h, c).a = [i \in 1..Len(h[c].a) |-> ValueAt(h, c).a[i]]
  <1> DEFINE v == ValueAt(h, c)
             x == [i \in DOMAIN h[c].a |-> ValueAt(h, h[c].a[i])]
  <1>1. v = OfCell(h[c], x)
    BY ValueIs
  <1>2. DOMAIN h[c].a = 1..Len(h[c].a) /\ Len(h[c].a) \in Nat
    BY CellFacts DEF Sound, Laid
  <1> HIDE DEF v
  <1>3. v.t = h[c].t /\ v.n = h[c].n /\ v.s = h[c].s /\ v.a = x /\ v = OfCell(h[c], v.a)
    BY <1>1 DEF OfCell
  <1>4. DOMAIN x = 1..Len(h[c].a) /\ Len(x) = Len(h[c].a)
    BY <1>2
  <1>5. x = [i \in 1..Len(h[c].a) |-> x[i]] /\ \A i \in DOMAIN h[c].a : x[i] = ValueAt(h, h[c].a[i])
    BY <1>2, <1>4
  <1> HIDE DEF x
  <1> QED BY <1>2, <1>3, <1>4, <1>5 DEF v

-----------------------------------------------------------------------------
(* Where the value of a cell is the same: it has no address in it. *)

\* The cells of X lie in g as in h, at other addresses.
LEMMA ValueMoved ==
  ASSUME NEW h, Sound(h), NEW g, Sound(g), NEW X \in SUBSET DOMAIN h, Closed(h, X), NEW m \in [X -> DOMAIN g],
         \A c \in X : /\ g[m[c]].t = h[c].t /\ g[m[c]].n = h[c].n /\ g[m[c]].s = h[c].s
                      /\ DOMAIN g[m[c]].a = DOMAIN h[c].a
                      /\ \A i \in DOMAIN h[c].a :
                            g[m[c]].a[i] = IF h[c].a[i] = Null THEN Null ELSE m[h[c].a[i]]
  PROVE  \A c \in X : ValueAt(g, m[c]) = ValueAt(h, c)
  <1> DEFINE last0 == Max(DOMAIN h)
             S == {n \in Nat : \A c \in X : c > last0 - n => ValueAt(g, m[c]) = ValueAt(h, c)}
  <1>1. last0 \in Nat /\ \A c \in X : c \in Nat /\ c <= last0 /\ c # 0
    BY LastAddress DEF Sound, Laid, Null
  <1> HIDE DEF last0
  <1>2. 0 \in S
    BY <1>1
  <1>3. ASSUME NEW n \in S PROVE n + 1 \in S
    <2>1. n \in Nat /\ \A c \in X : c > last0 - n => ValueAt(g, m[c]) = ValueAt(h, c)
      OBVIOUS
    <2>2. ASSUME NEW c \in X, c > last0 - (n + 1) PROVE ValueAt(g, m[c]) = ValueAt(h, c)
      <3> DEFINE x == [i \in DOMAIN h[c].a |-> ValueAt(h, h[c].a[i])]
                 y == [i \in DOMAIN g[m[c]].a |-> ValueAt(g, g[m[c]].a[i])]
      <3>1. ASSUME NEW i \in DOMAIN h[c].a PROVE ValueAt(g, g[m[c]].a[i]) = ValueAt(h, h[c].a[i])
        <4> DEFINE j == h[c].a[i]
        <4>1. CASE j = Null
          BY <4>1, NullIsNil
        <4>2. CASE j # Null
          <5>1. Holds(h, c, i, j)
            BY DEF Holds
          <5>2. j \in X /\ j > c
            <6>1. j \in Below(h, c)
              BY <4>2, <5>1, BelowIs
            <6>2. j > c
              BY <4>2, <5>1 DEF Sound, Descends
            <6> QED BY <6>1, <6>2 DEF Closed
          <5>3. j > last0 - n
            <6>1. j \in Nat /\ c \in Nat /\ last0 \in Nat /\ n \in Nat
              BY <1>1, <2>1, <5>2
            <6> HIDE DEF j
            <6> QED BY <2>2, <5>2, <6>1
          <5>4. g[m[c]].a[i] = m[j]
            BY <4>2
          <5> HIDE DEF j
          <5> QED BY <2>1, <5>2, <5>3, <5>4 DEF j
        <4> QED BY <4>1, <4>2
      <3>2. x = y
        BY <3>1
      <3>3. ValueAt(h, c) = OfCell(h[c], x)
        BY ValueIs
      <3>4. ValueAt(g, m[c]) = OfCell(g[m[c]], y)
        BY ValueIs
      <3> HIDE DEF x, y
      <3>5. OfCell(h[c], x) = OfCell(g[m[c]], y)
        BY <3>2 DEF OfCell
      <3> QED BY <3>3, <3>4, <3>5
    <2> QED BY <2>1, <2>2
  <1>4. S = Nat
    <2> HIDE DEF S
    <2>1. S \in SUBSET Nat
      BY DEF S
    <2> QED BY <1>2, <1>3, <2>1, Counting
  <1>5. last0 \in S
    BY <1>1, <1>4
  <1> SUFFICES ASSUME NEW c \in X PROVE ValueAt(g, m[c]) = ValueAt(h, c)
    OBVIOUS
  <1>6. c > last0 - last0
    BY <1>1
  <1> QED BY <1>5, <1>6

\* The cells of X are still where they were.
LEMMA ValueKept ==
  ASSUME NEW h, Sound(h), NEW g, Sound(g), NEW X \in SUBSET DOMAIN h, Closed(h, X), X \subseteq DOMAIN g,
         \A c \in X : g[c] = h[c]
  PROVE  \A c \in X : ValueAt(g, c) = ValueAt(h, c)
  <1> DEFINE m == [c \in X |-> c]
  <1>1. m \in [X -> DOMAIN g] /\ \A c \in X : m[c] = c
    OBVIOUS
  <1>2. ASSUME NEW c \in X, NEW i \in DOMAIN h[c].a, h[c].a[i] # Null PROVE h[c].a[i] \in X
    <2>1. Holds(h, c, i, h[c].a[i])
      BY DEF Holds
    <2>2. h[c].a[i] \in Below(h, c)
      BY <1>2, <2>1, BelowIs
    <2> QED BY <2>2 DEF Closed
  <1> HIDE DEF m
  <1>3. \A c \in X : /\ g[m[c]].t = h[c].t /\ g[m[c]].n = h[c].n /\ g[m[c]].s = h[c].s
                     /\ DOMAIN g[m[c]].a = DOMAIN h[c].a
                     /\ \A i \in DOMAIN h[c].a :
                           g[m[c]].a[i] = IF h[c].a[i] = Null THEN Null ELSE m[h[c].a[i]]
    BY <1>1, <1>2
  <1>4. \A c \in X : ValueAt(g, m[c]) = ValueAt(h, c)
    BY <1>1, <1>3, ValueMoved
  <1> QED BY <1>1, <1>4

LEMMA GrownValue ==
  ASSUME NEW h, Sound(h), NEW g, Grown(h, g), NEW c \in DOMAIN h \union {Null}
  PROVE  ValueAt(g, c) = ValueAt(h, c)
  <1> DEFINE X == DOMAIN h
  <1>1. Closed(h, X)
    BY BelowIs DEF Closed, Sound, Descends
  <1>2. Sound(g) /\ X \subseteq DOMAIN g /\ \A d \in X : g[d] = h[d]
    BY DEF Grown
  <1>3. \A d \in X : ValueAt(g, d) = ValueAt(h, d)
    BY <1>1, <1>2, ValueKept
  <1> QED BY <1>3, NullIsNil

-----------------------------------------------------------------------------
(* Where a path leads in a value. *)

Walked(obj, keys) == CHOOSE f : f = [k \in 0..Len(keys) |-> IF k = 0 THEN Just(obj) ELSE (IF f[k - 1] = Nothing THEN Nothing ELSE Get(f[k - 1][1], keys[k]))]

LEMMA WalkedDef ==
  ASSUME NEW obj, NEW keys, Len(keys) \in Nat
  PROVE  Walked(obj, keys) = [k \in 0..Len(keys) |-> IF k = 0 THEN Just(obj) ELSE (IF Walked(obj, keys)[k - 1] = Nothing THEN Nothing ELSE Get(Walked(obj, keys)[k - 1][1], keys[k]))]
  <1> DEFINE Step(x, k) == (IF x = Nothing THEN Nothing ELSE Get(x[1], keys[k]))
             Is(f, n) == f = [k \in 0..n |-> IF k = 0 THEN Just(obj) ELSE Step(f[k - 1], k)]
             S == {n \in Nat : \E f : Is(f, n)}
  <1>0. \A f : Is(f, Len(keys)) <=> f = [k \in 0..Len(keys) |-> IF k = 0 THEN Just(obj) ELSE (IF f[k - 1] = Nothing THEN Nothing ELSE Get(f[k - 1][1], keys[k]))]
    OBVIOUS
  <1> HIDE DEF Step
  <1>1. 0 \in S
    <2>1. Is([k \in 0..0 |-> Just(obj)], 0)
      OBVIOUS
    <2> QED BY <2>1
  <1>2. ASSUME NEW n \in S PROVE n + 1 \in S
    <2>1. PICK f : Is(f, n)
      OBVIOUS
    <2> DEFINE g == [k \in 0..(n + 1) |-> IF k <= n THEN f[k] ELSE Step(f[n], n + 1)]
    <2>2. ASSUME NEW k \in 0..(n + 1)
          PROVE  g[k] = IF k = 0 THEN Just(obj) ELSE Step(g[k - 1], k)
      <3>1. CASE k = 0
        BY <2>1, <3>1
      <3>2. CASE k # 0 /\ k <= n
        <4>1. k - 1 \in 0..n /\ k \in 0..n /\ k - 1 \in 0..(n + 1) /\ k - 1 <= n
          BY <3>2
        <4>2. g[k] = f[k] /\ g[k - 1] = f[k - 1]
          BY <3>2, <4>1
        <4>3. f[k] = Step(f[k - 1], k)
          BY <2>1, <3>2, <4>1
        <4> QED BY <3>2, <4>2, <4>3
      <3>3. CASE k = n + 1
        <4>1. k # 0 /\ k - 1 = n /\ n \in 0..(n + 1) /\ n <= n /\ ~(k <= n)
          BY <3>3
        <4>2. g[k] = Step(f[n], k) /\ g[n] = f[n]
          BY <3>3, <4>1
        <4> QED BY <4>1, <4>2
      <3> QED BY <3>1, <3>2, <3>3
    <2>3. Is(g, n + 1)
      <3>1. g = [k \in 0..(n + 1) |-> g[k]]
        OBVIOUS
      <3> HIDE DEF g
      <3> QED BY <2>2, <3>1
    <2> HIDE DEF g, Is
    <2> QED BY <2>3
  <1> HIDE DEF Is
  <1>3. S = Nat
    <2> HIDE DEF S
    <2> QED BY <1>1, <1>2, Counting DEF S
  <1>4. PICK f : Is(f, Len(keys))
    BY <1>3
  <1>5. f = [k \in 0..Len(keys) |-> IF k = 0 THEN Just(obj) ELSE (IF f[k - 1] = Nothing THEN Nothing ELSE Get(f[k - 1][1], keys[k]))]
    BY <1>0, <1>4
  <1> QED BY <1>5 DEF Walked

LEMMA WalkedSteps ==
  ASSUME NEW obj, NEW keys, Len(keys) \in Nat
  PROVE  /\ Walked(obj, keys)[0] = Just(obj)
         /\ \A j \in 0..(Len(keys) - 1) : Walked(obj, keys)[j + 1] = (IF Walked(obj, keys)[j] = Nothing THEN Nothing ELSE Get(Walked(obj, keys)[j][1], keys[j + 1]))
  <1> DEFINE n == Len(keys)
             f == Walked(obj, keys)
             Step(x, k) == (IF x = Nothing THEN Nothing ELSE Get(x[1], keys[k]))
  <1>1. f = [k \in 0..n |-> IF k = 0 THEN Just(obj) ELSE Step(f[k - 1], k)]
    BY WalkedDef
  <1>0. n \in Nat
    OBVIOUS
  <1>9. \A x, k : Step(x, k) = (IF x = Nothing THEN Nothing ELSE Get(x[1], keys[k]))
    OBVIOUS
  <1> HIDE DEF f, n, Step
  <1>2. f[0] = Just(obj)
    <2>1. 0 \in 0..n
      BY <1>0
    <2> QED BY <1>1, <2>1
  <1>3. ASSUME NEW j \in 0..(n - 1) PROVE f[j + 1] = Step(f[j], j + 1)
    <2> DEFINE i == j + 1
    <2>1. i \in 0..n /\ i # 0 /\ i - 1 = j
      BY <1>0
    <2> HIDE DEF i
    <2>2. f[i] = Step(f[i - 1], i)
      BY <1>1, <2>1, Zenon
    <2> QED BY <2>1, <2>2 DEF i
  <1> QED BY <1>2, <1>3, <1>9 DEF f, n

LEMMA GetPathIs ==
  ASSUME NEW obj, NEW keys
  PROVE  GetPath(obj, keys) = Walked(obj, keys)[Len(keys)]
  BY DEF GetPath, Walked

LEMMA WalkedAgain ==
  ASSUME NEW obj, NEW p, IsPath(p), NEW n \in 0..Len(p)
  PROVE  GetPath(obj, SubSeq(p, 1, n)) = Walked(obj, p)[n]
  <1> DEFINE q == SubSeq(p, 1, n)
             S == {j \in Nat : j <= n => Walked(obj, q)[j] = Walked(obj, p)[j]}
  <1>1. Len(p) \in Nat /\ Len(q) = n /\ n \in Nat /\ n <= Len(p) /\ \A k \in 1..n : q[k] = p[k]
    BY PathFacts
  <1> HIDE DEF q
  <1>2. /\ Walked(obj, p)[0] = Just(obj) /\ Walked(obj, q)[0] = Just(obj)
        /\ \A j \in 0..(Len(p) - 1) : Walked(obj, p)[j + 1] =
              (IF Walked(obj, p)[j] = Nothing THEN Nothing ELSE Get(Walked(obj, p)[j][1], p[j + 1]))
        /\ \A j \in 0..(Len(q) - 1) : Walked(obj, q)[j + 1] =
              (IF Walked(obj, q)[j] = Nothing THEN Nothing ELSE Get(Walked(obj, q)[j][1], q[j + 1]))
    BY <1>1, WalkedSteps
  <1>3. 0 \in S
    BY <1>2
  <1>4. ASSUME NEW j \in S PROVE j + 1 \in S
    <2> SUFFICES ASSUME j + 1 <= n PROVE Walked(obj, q)[j + 1] = Walked(obj, p)[j + 1]
      OBVIOUS
    <2>1. j \in 0..(Len(p) - 1) /\ j \in 0..(Len(q) - 1) /\ j <= n /\ j + 1 \in 1..n
      BY <1>1
    <2>2. Walked(obj, q)[j] = Walked(obj, p)[j] /\ q[j + 1] = p[j + 1]
      BY <1>1, <2>1
    <2> QED BY <1>2, <2>1, <2>2
  <1>5. S = Nat
    <2> HIDE DEF S
    <2> QED BY <1>3, <1>4, Counting DEF S
  <1>6. Walked(obj, q)[n] = Walked(obj, p)[n]
    BY <1>1, <1>5
  <1> QED BY <1>1, <1>6, GetPathIs DEF q

LEMMA GetPathNone ==
  ASSUME NEW obj
  PROVE  GetPath(obj, <<>>) = Just(obj)
  <1>1. Len(<<>>) = 0 /\ Len(<<>>) \in Nat
    OBVIOUS
  <1>2. Walked(obj, <<>>)[0] = Just(obj)
    BY <1>1, WalkedSteps
  <1> QED BY <1>1, <1>2, GetPathIs

LEMMA GetPathLast ==
  ASSUME NEW obj, NEW p, IsPath(p), p # <<>>
  PROVE  LET before == GetPath(obj, Front(p))
         IN  GetPath(obj, p) = IF before = Nothing THEN Nothing ELSE Get(before[1], Last(p))
  <1> DEFINE n == Len(p) - 1
  <1>1. /\ Front(p) = SubSeq(p, 1, n) /\ Last(p) = p[n + 1] /\ n \in 0..Len(p) /\ n + 1 = Len(p)
        /\ n \in 0..(Len(p) - 1) /\ Len(p) \in Nat
    BY PathFacts
  <1> HIDE DEF n
  <1>2. GetPath(obj, Front(p)) = Walked(obj, p)[n] /\ GetPath(obj, p) = Walked(obj, p)[n + 1]
    BY <1>1, WalkedAgain, GetPathIs
  <1>3. Walked(obj, p)[n + 1] =
          (IF Walked(obj, p)[n] = Nothing THEN Nothing ELSE Get(Walked(obj, p)[n][1], p[n + 1]))
    BY <1>1, WalkedSteps
  <1> QED BY <1>1, <1>2, <1>3

\* What is led to, as a value.
Image(h, x) == IF x = Nothing THEN Nothing ELSE Just(ValueAt(h, x[1]))

LEMMA JustFacts ==
  ASSUME NEW x
  PROVE  Just(x) # Nothing /\ Just(x)[1] = x
  BY DEF Just, Nothing

LEMMA ElementValue ==
  ASSUME NEW h, Sound(h), NEW c \in DOMAIN h, NEW key, IsKey(key)
  PROVE  Get(ValueAt(h, c), key) = Image(h, Element(h, c, key))
  <1> DEFINE v == ValueAt(h, c)
             i == IF key.n < 0 THEN key.n + Len(h[c].a) ELSE key.n
             K == KeyIndex(h[c], key.s)
             k0 == CHOOSE k \in K : TRUE
  <1>0. /\ ValueAt(h, c).t = h[c].t /\ ValueAt(h, c).s = h[c].s /\ Len(ValueAt(h, c).a) = Len(h[c].a)
        /\ Len(h[c].a) \in Nat /\ DOMAIN h[c].a = 1..Len(h[c].a)
        /\ \A j \in DOMAIN h[c].a : ValueAt(h, c).a[j] = ValueAt(h, h[c].a[j])
    BY ValueFacts
  <1>6. v = ValueAt(h, c)
    OBVIOUS
  <1> HIDE DEF v
  <1>1. /\ v.t = h[c].t /\ v.s = h[c].s /\ Len(v.a) = Len(h[c].a) /\ Len(h[c].a) \in Nat
        /\ DOMAIN h[c].a = 1..Len(h[c].a)
        /\ \A j \in DOMAIN h[c].a : v.a[j] = ValueAt(h, h[c].a[j])
    BY <1>0, <1>6
  <1>2. KeyIndex(v, key.s) = K
    BY <1>1 DEF KeyIndex
  <1>3. key.n \in Int /\ (IsInt(key) <=> ~IsStr(key))
    BY KeyFacts
  <1>4. CASE IsInt(key)
    <2>1. Get(v, key) = IF v.t = "LIST" /\ i \in 0..(Len(h[c].a) - 1) THEN Just(v.a[i + 1]) ELSE Nothing
      BY <1>1, <1>3, <1>4 DEF Get, GetArray
    <2>2. Element(h, c, key) = IF v.t = "LIST" /\ i \in 0..(Len(h[c].a) - 1) THEN Just(h[c].a[i + 1]) ELSE Nothing
      BY <1>1, <1>3, <1>4 DEF Element
    <2>3. i \in 0..(Len(h[c].a) - 1) => i + 1 \in DOMAIN h[c].a
      BY <1>1
    <2> HIDE DEF i
    <2>4. i \in 0..(Len(h[c].a) - 1) => v.a[i + 1] = ValueAt(h, h[c].a[i + 1])
      BY <1>1, <2>3
    <2> QED BY <2>1, <2>2, <2>4, JustFacts DEF Image, v
  <1>5. CASE IsStr(key)
    <2>1. Get(v, key) = IF v.t = "HASH" /\ K # {} THEN Just(v.a[k0]) ELSE Nothing
      BY <1>2, <1>3, <1>5 DEF Get, GetDictionary
    <2>2. Element(h, c, key) = IF v.t = "HASH" /\ K # {} THEN Just(h[c].a[k0]) ELSE Nothing
      BY <1>1, <1>3, <1>5 DEF Element
    <2>3. v.t = "HASH" /\ K # {} => k0 \in DOMAIN h[c].a
      <3>1. v.t = "HASH" => Len(h[c].s) = Len(h[c].a)
        BY <1>1, CellFacts DEF Sound, Laid
      <3>2. K # {} => k0 \in K
        OBVIOUS
      <3>3. K \subseteq 1..Len(h[c].s)
        BY DEF KeyIndex
      <3> HIDE DEF K, k0
      <3> QED BY <1>1, <3>1, <3>2, <3>3
    <2> HIDE DEF K, k0
    <2> QED BY <1>1, <2>1, <2>2, <2>3, JustFacts DEF Image, v
  <1> QED BY <1>3, <1>4, <1>5 DEF v

LEMMA NilLeadsNowhere ==
  ASSUME NEW key
  PROVE  Get(Nil, key) = Nothing
  BY DEF Get, GetArray, GetDictionary, Nil, Value

\* A path leads in the value of a cell to the value of what it leads to in the heap.
LEMMA PathValue ==
  ASSUME NEW h, Sound(h), NEW o \in DOMAIN h, NEW p, IsPath(p)
  PROVE  GetPath(ValueAt(h, o), p) = Image(h, GetVariable(h, o, p))
  <1> DEFINE v == ValueAt(h, o)
             G == {q \in PrefixesOf(p) : GetPath(v, q) = Image(h, GetVariable(h, o, q))}
  <1>1. \A q \in PrefixesOf(p) : IsPath(q)
    BY PrefixesAre
  <1>2. <<>> \in G
    BY PrefixesAre, GetNone, GetPathNone, JustFacts DEF Image
  <1> HIDE DEF v
  <1>3. ASSUME NEW q \in PrefixesOf(p), q # <<>>, Front(q) \in G PROVE q \in G
    <2> DEFINE x == GetVariable(h, o, Front(q))
               y == GetPath(v, Front(q))
    <2>1. y = Image(h, x)
      BY <1>3
    <2>2. IsPath(q) /\ IsKey(Last(q)) /\ IsPath(Front(q))
      BY <1>1, <1>3, FrontFacts
    <2>3. x = Nothing \/ \E k \in DOMAIN h \union {Null} : x = Just(k)
      BY <2>2, GetInside
    <2>4. GetVariable(h, o, q) = IF x \in {Nothing, Just(Null)} THEN Nothing ELSE Element(h, x[1], Last(q))
      BY <1>3, <2>2, GetLast
    <2>5. GetPath(v, q) = IF y = Nothing THEN Nothing ELSE Get(y[1], Last(q))
      BY <1>3, <2>2, GetPathLast
    <2> HIDE DEF x, y
    <2>6. CASE x = Nothing
      BY <2>1, <2>4, <2>5, <2>6 DEF Image
    <2>7. CASE x = Just(Null)
      BY <2>1, <2>4, <2>5, <2>7, JustFacts, NullIsNil, NilLeadsNowhere DEF Image
    <2>8. CASE x \notin {Nothing, Just(Null)}
      <3>1. PICK d \in DOMAIN h : x = Just(d)
        BY <2>3, <2>8
      <3>2. y = Just(ValueAt(h, d)) /\ x[1] = d /\ y[1] = ValueAt(h, d) /\ y # Nothing
        BY <2>1, <2>8, <3>1, JustFacts DEF Image
      <3>3. Get(ValueAt(h, d), Last(q)) = Image(h, Element(h, d, Last(q)))
        BY <2>2, ElementValue
      <3> QED BY <2>4, <2>5, <2>8, <3>2, <3>3
    <2> QED BY <2>6, <2>7, <2>8
  <1>4. p \in G
    <2> HIDE DEF G
    <2> QED BY <1>2, <1>3, AlongPath
  <1> QED BY <1>4 DEF v

-----------------------------------------------------------------------------
(* An element that is set, in a value as in a cell. *)

StoredValue(x, slot, v) ==
  [i \in 1..Max({Len(x), slot}) |-> IF i = slot THEN v ELSE IF i <= Len(x) THEN x[i] ELSE Nil]

KeysWith(cell, key) ==
  IF IsStr(key) /\ KeyIndex(cell, key.s) = {} THEN Append(cell.s, key.s) ELSE cell.s

LEMMA LargerOne ==
  ASSUME NEW a \in Nat, NEW b \in Nat
  PROVE  Max({a, b}) = IF a <= b THEN b ELSE a
  <1> DEFINE m == Max({a, b})
  <1>1. IsFiniteSet({a, b})
    <2>1. IsFiniteSet({a})
      BY FS_Singleton
    <2>2. IsFiniteSet({a} \cup {b})
      BY <2>1, FS_AddElement
    <2>3. {a} \cup {b} = {a, b}
      OBVIOUS
    <2> QED BY <2>2, <2>3
  <1>2. m \in {a, b} /\ \A y \in {a, b} : y <= m
    <2>1. {a, b} \in SUBSET Nat /\ {a, b} # {}
      OBVIOUS
    <2> QED BY <1>1, <2>1, Largest
  <1> HIDE DEF m
  <1>3. m = IF a <= b THEN b ELSE a
    BY <1>2
  <1> QED BY <1>3 DEF m

LEMMA AppendValue ==
  ASSUME NEW x, NEW n \in Nat, x = [i \in 1..n |-> x[i]], NEW u
  PROVE  Append(x, u) = StoredValue(x, n + 1, u)
  <1> DEFINE S == {x[i] : i \in 1..n} \union {u}
             y == Append(x, u)
             z == StoredValue(x, n + 1, u)
  <1>1. x \in Seq(S) /\ Len(x) = n /\ u \in S
    OBVIOUS
  <1> HIDE DEF S
  <1>2. y \in Seq(S) /\ Len(y) = n + 1 /\ y[n + 1] = u /\ \A i \in 1..n : y[i] = x[i]
    BY <1>1
  <1> HIDE DEF y
  <1>3. y = [i \in 1..(n + 1) |-> y[i]]
    BY <1>2
  <1>4. Max({Len(x), n + 1}) = n + 1
    <2>1. n + 1 \in Nat /\ n <= n + 1
      OBVIOUS
    <2> QED BY <1>1, <2>1, LargerOne
  <1>5. z = [i \in 1..(n + 1) |-> IF i = n + 1 THEN u ELSE IF i <= n THEN x[i] ELSE Nil]
    BY <1>1, <1>4 DEF StoredValue
  <1> HIDE DEF z
  <1>6. \A i \in 1..(n + 1) : y[i] = IF i = n + 1 THEN u ELSE IF i <= n THEN x[i] ELSE Nil
    <2>1. \A i \in 1..(n + 1) : i = n + 1 \/ (i \in 1..n /\ i <= n /\ i # n + 1)
      OBVIOUS
    <2> QED BY <1>2, <2>1
  <1>7. y = z
    BY <1>3, <1>5, <1>6
  <1> QED BY <1>7 DEF y, z

LEMMA ReplaceValue ==
  ASSUME NEW x, NEW n \in Nat, x = [i \in 1..n |-> x[i]], NEW u, NEW k \in 1..n
  PROVE  [x EXCEPT ![k] = u] = StoredValue(x, k, u)
  <1> DEFINE y == [x EXCEPT ![k] = u]
             z == StoredValue(x, k, u)
  <1>1. Len(x) = n /\ k <= n /\ k \in Nat
    OBVIOUS
  <1>2. y = [i \in 1..n |-> IF i = k THEN u ELSE x[i]]
    OBVIOUS
  <1>3. Max({Len(x), k}) = n
    <2>1. n <= k => n = k
      BY <1>1
    <2> QED BY <1>1, <2>1, LargerOne
  <1>4. z = [i \in 1..n |-> IF i = k THEN u ELSE IF i <= n THEN x[i] ELSE Nil]
    BY <1>1, <1>3 DEF StoredValue
  <1> HIDE DEF y, z
  <1>5. \A i \in 1..n : i <= n
    OBVIOUS
  <1>6. y = z
    BY <1>2, <1>4, <1>5
  <1> QED BY <1>6 DEF y, z

Replaced(v, k, u) == [v EXCEPT !.a[k] = u]

LEMMA RecordWith ==
  ASSUME NEW v, NEW x, v = OfCell(v, x), NEW n \in Nat, x = [i \in 1..n |-> x[i]], NEW k \in 1..n, NEW u
  PROVE  Replaced(v, k, u) = OfCell(v, StoredValue(x, k, u))
  <1> DEFINE q == [v EXCEPT !.a[k] = u]
  <1>7. [x EXCEPT ![k] = u] = StoredValue(x, k, u)
    BY ReplaceValue
  <1>1. v = [t |-> v.t, n |-> v.n, s |-> v.s, a |-> x] /\ v.a = x
    BY DEF OfCell
  <1>2. DOMAIN v = {"t", "n", "s", "a"}
    BY <1>1
  <1>3. q.t = v.t /\ q.n = v.n /\ q.s = v.s /\ q.a = [x EXCEPT ![k] = u] /\ DOMAIN q = DOMAIN v
    BY <1>1, <1>2
  <1>4. q = [y \in DOMAIN q |-> q[y]]
    <2> SUFFICES [v EXCEPT !.a[k] = u] = [y \in DOMAIN q |-> q[y]]
      OBVIOUS
    <2> QED OBVIOUS
  <1> HIDE DEF q
  <1>5. q = [t |-> q.t, n |-> q.n, s |-> q.s, a |-> q.a]
    BY <1>2, <1>3, <1>4
  <1>6. q = OfCell(v, [x EXCEPT ![k] = u])
    BY <1>3, <1>5 DEF OfCell
  <1> QED BY <1>6, <1>7 DEF q, Replaced

\* A list or a hash after an element was set, whatever the elements are.
LEMMA SetAtIs ==
  ASSUME NEW h, NEW c \in DOMAIN h, IsCell(h[c]), NEW key, IsKey(key), NEW slot, slot = Slot(h, c, key),
         NEW x, x = [i \in 1..Len(h[c].a) |-> x[i]], NEW u,
         NEW v, v = OfCell(h[c], x), NEW w,
         Fits(h[c], key) \/ (h[c].t = "NIL" /\ IsStr(key)),
         slot \in Nat, slot >= 1,
         w = [t |-> IF IsInt(key) THEN "LIST" ELSE "HASH", n |-> 0,
              s |-> IF IsInt(key) THEN <<>> ELSE KeysWith(h[c], key), a |-> StoredValue(x, slot, u)]
  PROVE  SetAt(v, key, u) = w
  <1> DEFINE n == Len(h[c].a)
             K == KeyIndex(h[c], key.s)
             k0 == CHOOSE k \in K : TRUE
  <1>1. /\ v.t = h[c].t /\ v.n = h[c].n /\ v.s = h[c].s /\ v.a = x /\ v = OfCell(v, x)
    BY DEF OfCell
  <1>2. n \in Nat /\ DOMAIN h[c].a = 1..n
    BY CellFacts
  <1>3. Len(x) = n
    BY <1>2
  <1>8. x = [i \in 1..n |-> x[i]]
    OBVIOUS
  <1>4. key.n \in Int /\ (IsInt(key) <=> ~IsStr(key))
    BY KeyFacts
  <1>5. KeyIndex(v, key.s) = K
    BY <1>1 DEF KeyIndex
  <1>6. CASE IsInt(key)
    <2> DEFINE i == IF key.n < 0 THEN key.n + n ELSE key.n
               m == Max({n, i + 1})
               y == [k \in 1..m |-> IF k = i + 1 THEN u ELSE IF k <= n THEN x[k] ELSE Nil]
    <2>1. slot = i + 1
      BY <1>6 DEF Slot
    <2>2. v.t = "LIST"
      BY <1>1, <1>4, <1>6 DEF Fits
    <2>3. SetAt(v, key, u) = SetArray(v, key.n, u)
      BY <1>4, <1>6 DEF SetAt
    <2>4. SetArray(v, key.n, u) = List(y)
      BY <1>1, <1>3, <2>2 DEF SetArray
    <2>5. StoredValue(x, slot, u) = y
      BY <1>3, <2>1 DEF StoredValue
    <2> HIDE DEF y
    <2> QED BY <1>6, <2>3, <2>4, <2>5 DEF List, Value
  <1>7. CASE IsStr(key)
    <2>1. SetAt(v, key, u) = SetDictionary(v, key.s, u)
      BY <1>4, <1>7 DEF SetAt
    <2>2. slot = IF K # {} THEN k0 ELSE n + 1
      BY <1>4, <1>7 DEF Slot
    <2>3. w = Hash(KeysWith(h[c], key), StoredValue(x, slot, u))
      BY <1>4, <1>7 DEF Hash, Value
    <2>4. KeysWith(h[c], key) = IF K = {} THEN Append(h[c].s, key.s) ELSE h[c].s
      BY <1>7 DEF KeysWith
    <2>5. CASE v.t = "NIL"
      <3>1. h[c] = Nil
        BY <1>1, <2>5, CellFacts, ScalarFacts
      <3>2. h[c].s = <<>> /\ h[c].a = <<>> /\ n = 0
        BY <3>1 DEF Nil, Value
      <3>3. K = {}
        BY <3>2 DEF KeyIndex
      <3>4. Append(h[c].s, key.s) = <<key.s>>
        BY <3>2
      <3>5. StoredValue(x, 1, u) = <<u>>
        <4> HIDE DEF n
        <4>1. Append(x, u) = StoredValue(x, n + 1, u)
          BY <1>2, <1>8, AppendValue
        <4>2. x = <<>>
          BY <1>8, <3>2
        <4>3. n + 1 = 1 /\ Append(<<>>, u) = <<u>>
          BY <3>2
        <4> QED BY <4>1, <4>2, <4>3
      <3>6. SetDictionary(v, key.s, u) = Hash(<<key.s>>, <<u>>)
        BY <2>5 DEF SetDictionary
      <3> QED BY <2>1, <2>2, <2>3, <2>4, <3>2, <3>3, <3>4, <3>5, <3>6
    <2>6. CASE v.t = "HASH" /\ K = {}
      <3>1. SetDictionary(v, key.s, u) = Hash(Append(v.s, key.s), Append(v.a, u))
        BY <1>5, <2>6, Zenon DEF SetDictionary
      <3> HIDE DEF K, n
      <3>2. Append(x, u) = StoredValue(x, n + 1, u)
        BY <1>2, <1>8, AppendValue
      <3> QED BY <1>1, <2>1, <2>2, <2>3, <2>4, <2>6, <3>1, <3>2
    <2>7. CASE v.t = "HASH" /\ K # {}
      <3>1. SetDictionary(v, key.s, u) = Replaced(v, k0, u)
        BY <1>5, <2>7, Zenon DEF SetDictionary, Replaced
      <3>3. k0 \in 1..n
        <4>1. Len(h[c].s) = n
          BY <1>1, <2>7, CellFacts
        <4>2. k0 \in K /\ K \subseteq 1..Len(h[c].s)
          BY <2>7 DEF KeyIndex
        <4> HIDE DEF k0, K, n
        <4> QED BY <4>1, <4>2
      <3>5. h[c] = Hash(h[c].s, h[c].a)
        BY <1>1, <2>7, CellFacts
      <3>6. h[c].n = 0 /\ h[c].t = "HASH"
        BY <1>1, <2>7, <3>5, HashIs
      <3>8. KeysWith(h[c], key) = h[c].s /\ slot = k0
        BY <2>2, <2>4, <2>7
      <3> HIDE DEF K, n, k0
      <3>2. Replaced(v, k0, u) = OfCell(v, StoredValue(x, k0, u))
        <4>1. v = OfCell(v, x)
          BY <1>1
        <4> QED BY <1>2, <1>8, <3>3, <4>1, RecordWith
      <3> DEFINE y == StoredValue(x, k0, u)
      <3>7. OfCell(v, y) = Hash(h[c].s, y)
        BY <1>1, <3>6 DEF OfCell, Hash, Value
      <3>9. w = Hash(h[c].s, y)
        BY <2>3, <3>8
      <3>10. SetAt(v, key, u) = OfCell(v, y)
        BY <2>1, <3>1, <3>2
      <3> QED BY <3>7, <3>9, <3>10
    <2> QED BY <1>1, <1>7, <2>5, <2>6, <2>7, <1>4 DEF Fits
  <1> QED BY <1>4, <1>6, <1>7

\* A cell of which one element is another one, and the others have the value they had.
LEMMA LevelValue ==
  ASSUME NEW h, Sound(h), NEW g, Sound(g), NEW c \in DOMAIN h, c \in DOMAIN g, NEW key, IsKey(key),
         NEW slot, slot = Slot(h, c, key), slot \in Nat, slot >= 1, NEW t \in Nat,
         Fits(h[c], key) \/ (h[c].t = "NIL" /\ IsStr(key)),
         g[c].a = Stored(h[c].a, slot, t),
         g[c].t = h[c].t \/ (h[c].t = "NIL" /\ g[c].t = "HASH"),
         IsStr(key) => g[c].s = KeysWith(h[c], key),
         \A i \in DOMAIN h[c].a : i # slot => ValueAt(g, h[c].a[i]) = ValueAt(h, h[c].a[i])
  PROVE  ValueAt(g, c) = SetAt(ValueAt(h, c), key, ValueAt(g, t))
  <1> DEFINE v == ValueAt(h, c)
             x == v.a
             u == ValueAt(g, t)
             y == ValueAt(g, c).a
             b == g[c].a
             n == Len(h[c].a)
  <1>1. IsCell(h[c]) /\ IsCell(g[c]) /\ h[c].a \in Seq(Nat) /\ n \in Nat /\ DOMAIN h[c].a = 1..n
    BY CellFacts DEF Sound, Laid
  <1>2. /\ v = OfCell(h[c], x) /\ x = [i \in 1..n |-> x[i]]
        /\ ValueAt(g, c) = OfCell(g[c], y) /\ y = [i \in 1..Len(b) |-> y[i]]
    BY ValueShape
  <1>3. /\ Len(x) = n /\ \A i \in DOMAIN h[c].a : x[i] = ValueAt(h, h[c].a[i])
    BY ValueFacts
  <1>4. /\ DOMAIN b = 1..Len(b) /\ \A i \in DOMAIN b : y[i] = ValueAt(g, b[i])
    BY ValueFacts
  <1>5. key.n \in Int /\ (IsInt(key) <=> ~IsStr(key))
    BY KeyFacts
  <1> HIDE DEF v, x, y, u
  <1>6. /\ slot \in DOMAIN b /\ b[slot] = t
        /\ \A i \in DOMAIN b : i # slot => b[i] = Null \/ (i \in DOMAIN h[c].a /\ b[i] = h[c].a[i])
        /\ \A i \in DOMAIN h[c].a : i \in DOMAIN b /\ (i # slot => b[i] = h[c].a[i])
    <2>1. ASSUME NEW a \in Seq(Nat), a = h[c].a
          PROVE  LET d == Stored(a, slot, t)
                 IN  /\ slot \in DOMAIN d /\ d[slot] = t
                     /\ \A i \in DOMAIN d : i # slot => d[i] = Null \/ (i \in DOMAIN a /\ d[i] = a[i])
                     /\ \A i \in DOMAIN a : i \in DOMAIN d /\ (i # slot => d[i] = a[i])
      BY <2>1, StoredKeeps
    <2> QED BY <1>1, <2>1
  <1>7. Len(b) = Max({n, slot})
    <2>1. ASSUME NEW a \in Seq(Nat), a = h[c].a, NEW d, d = Stored(a, slot, t)
          PROVE  Len(d) >= Len(a) /\ Len(d) >= slot /\ (Len(d) = Len(a) \/ Len(d) = slot) /\ Len(d) \in Nat
      BY <2>1, StoredIs
    <2>2. Len(b) >= n /\ Len(b) >= slot /\ (Len(b) = n \/ Len(b) = slot) /\ Len(b) \in Nat
      BY <1>1, <2>1
    <2>3. Max({n, slot}) = IF n <= slot THEN slot ELSE n
      BY <1>1, LargerOne
    <2> HIDE DEF b, n
    <2> QED BY <1>1, <2>2, <2>3
  <1>8. y = StoredValue(x, slot, u)
    <2> DEFINE m == Max({n, slot})
    <2>1. StoredValue(x, slot, u) = [i \in 1..m |-> IF i = slot THEN u ELSE IF i <= n THEN x[i] ELSE Nil]
      BY <1>3 DEF StoredValue
    <2>2. y = [i \in 1..m |-> y[i]] /\ DOMAIN b = 1..m
      BY <1>2, <1>4, <1>7
    <2> HIDE DEF m
    <2>3. ASSUME NEW i \in 1..m PROVE y[i] = IF i = slot THEN u ELSE IF i <= n THEN x[i] ELSE Nil
      <3>1. y[i] = ValueAt(g, b[i])
        BY <1>4, <2>2
      <3>2. CASE i = slot
        BY <1>6, <3>1, <3>2 DEF u
      <3>3. CASE i # slot /\ i <= n
        <4>1. i \in DOMAIN h[c].a
          BY <1>1, <3>3
        <4>2. b[i] = h[c].a[i]
          BY <1>6, <3>3, <4>1
        <4>3. ValueAt(g, h[c].a[i]) = ValueAt(h, h[c].a[i])
          BY <3>3, <4>1
        <4> HIDE DEF b, n
        <4> QED BY <1>3, <3>1, <3>3, <4>1, <4>2, <4>3
      <3>4. CASE i # slot /\ ~(i <= n)
        <4>1. i \notin DOMAIN h[c].a
          BY <1>1, <3>4
        <4>2. b[i] = Null
          BY <1>6, <2>2, <3>4, <4>1
        <4> HIDE DEF b, n
        <4> QED BY <3>1, <3>4, <4>2, NullIsNil
      <3> QED BY <3>2, <3>3, <3>4
    <2> QED BY <2>1, <2>2, <2>3
  <1>9. g[c].t = (IF IsInt(key) THEN "LIST" ELSE "HASH")
    <2>1. g[c].a # <<>>
      BY <1>6
    <2>2. g[c].t \in {"LIST", "HASH"}
      BY <1>1, <2>1, CellFacts
    <2>3. g[c].t = h[c].t \/ (h[c].t = "NIL" /\ g[c].t = "HASH")
      OBVIOUS
    <2> QED BY <1>5, <2>2, <2>3 DEF Fits
  <1>10. g[c].n = 0 /\ g[c].s = (IF IsInt(key) THEN <<>> ELSE KeysWith(h[c], key))
    <2>1. CASE IsInt(key)
      <3>1. g[c] = List(g[c].a)
        BY <1>1, <1>9, <2>1, CellFacts
      <3> QED BY <2>1, <3>1, HashIs
    <2>2. CASE ~IsInt(key)
      <3>1. g[c] = Hash(g[c].s, g[c].a)
        BY <1>1, <1>9, <2>2, CellFacts
      <3>2. g[c].n = 0
        BY <3>1, HashIs
      <3> QED BY <1>5, <2>2, <3>2
    <2> QED BY <2>1, <2>2
  <1>11. ValueAt(g, c) = [t |-> IF IsInt(key) THEN "LIST" ELSE "HASH", n |-> 0,
                          s |-> IF IsInt(key) THEN <<>> ELSE KeysWith(h[c], key), a |-> StoredValue(x, slot, u)]
    BY <1>2, <1>8, <1>9, <1>10 DEF OfCell
  <1>12. SetAt(v, key, u) = ValueAt(g, c)
    BY <1>1, <1>2, <1>11, SetAtIs
  <1> QED BY <1>12 DEF v, u

-----------------------------------------------------------------------------
(* The cells on the way to a cell. *)

LEMMA PrefixFront ==
  ASSUME NEW p, IsPath(p), NEW n \in 1..Len(p)
  PROVE  /\ IsPath(SubSeq(p, 1, n)) /\ SubSeq(p, 1, n) # <<>> /\ Front(SubSeq(p, 1, n)) = SubSeq(p, 1, n - 1)
         /\ Last(SubSeq(p, 1, n)) = p[n]
  <1> DEFINE q == SubSeq(p, 1, n)
             r == SubSeq(p, 1, n - 1)
             s == Front(q)
  <1>1. n \in 0..Len(p) /\ n - 1 \in 0..Len(p) /\ n \in 1..n /\ n \in Nat /\ n - 1 \in 0..n
    BY PathFacts
  <1>2. IsPath(q) /\ Len(q) = n /\ \A k \in 1..n : q[k] = p[k]
    BY <1>1, PathFacts
  <1>3. Len(r) = n - 1 /\ IsPath(r) /\ \A k \in 1..(n - 1) : r[k] = p[k]
    BY <1>1, PathFacts
  <1> HIDE DEF q, r
  <1>4. q # <<>>
    BY <1>1, <1>2
  <1>5. IsPath(s) /\ Len(s) = n - 1 /\ (\A k \in 1..(n - 1) : s[k] = q[k]) /\ Last(q) = q[n]
    <2>1. LET m == Len(q) - 1
          IN  /\ m \in Nat /\ m + 1 = Len(q) /\ IsPath(Front(q)) /\ Len(Front(q)) = m
              /\ \A k \in 1..m : Front(q)[k] = q[k]
              /\ Last(q) = q[m + 1]
      BY <1>2, <1>4, FrontFacts
    <2> QED BY <1>1, <1>2, <2>1
  <1> HIDE DEF s
  <1>6. s = r
    <2>1. s = [k \in 1..(n - 1) |-> s[k]] /\ r = [k \in 1..(n - 1) |-> r[k]]
      BY <1>3, <1>5, PathFacts
    <2>2. \A k \in 1..(n - 1) : s[k] = r[k]
      <3>1. \A k \in 1..(n - 1) : k \in 1..n
        BY <1>1
      <3> QED BY <1>2, <1>3, <1>5, <3>1
    <2>3. [k \in 1..(n - 1) |-> s[k]] = [k \in 1..(n - 1) |-> r[k]]
      BY <2>2
    <2> QED BY <2>1, <2>3
  <1> QED BY <1>1, <1>2, <1>4, <1>5, <1>6 DEF q, r, s

LEMMA Rising ==
  ASSUME NEW n \in Nat, NEW C \in [1..n -> Nat], \A k \in 1..(n - 1) : C[k] < C[k + 1],
         NEW j \in 1..n, NEW k \in 1..n, j < k
  PROVE  C[j] < C[k]
  <1> DEFINE S == {i \in Nat : j + 1 + i <= n => C[j] < C[j + 1 + i]}
  <1>1. 0 \in S
    BY DEF S
  <1>2. ASSUME NEW i \in S PROVE i + 1 \in S
    <2> SUFFICES ASSUME j + 1 + (i + 1) <= n PROVE C[j] < C[j + 1 + (i + 1)]
      OBVIOUS
    <2> DEFINE m == j + 1 + i
    <2>1. m \in 1..(n - 1) /\ m \in 1..n /\ m + 1 \in 1..n /\ m + 1 = j + 1 + (i + 1) /\ m <= n
      OBVIOUS
    <2>2. C[j] < C[m]
      BY <2>1
    <2> HIDE DEF m
    <2>3. C[m] < C[m + 1] /\ C[m] \in Nat /\ C[m + 1] \in Nat /\ C[j] \in Nat
      BY <2>1
    <2>4. C[j] < C[m + 1]
      BY <2>2, <2>3
    <2> QED BY <2>1, <2>4
  <1>3. S = Nat
    <2> HIDE DEF S
    <2> QED BY <1>1, <1>2, Counting DEF S
  <1>4. k - j - 1 \in Nat /\ j + 1 + (k - j - 1) = k
    OBVIOUS
  <1>5. k - j - 1 \in S
    BY <1>3, <1>4
  <1> QED BY <1>4, <1>5

\* From the store down to the cell o, each held by the one before.
OnTheWay(h, p, o, C) ==
  /\ C \in [1..Len(p) -> DOMAIN h] /\ C[1] = Root /\ C[Len(p)] = o
  /\ \A k \in 1..Len(p) : GetVariable(h, Root, SubSeq(p, 1, k - 1)) = Just(C[k])
  /\ \A k \in 1..(Len(p) - 1) : /\ Fits(h[C[k]], p[k])
                                /\ Holds(h, C[k], Slot(h, C[k], p[k]), C[k + 1])
  /\ \A j, k \in 1..Len(p) : j < k => C[j] < C[k]

LEMMA TheWay ==
  ASSUME NEW h, Sound(h), NEW p, IsPath(p), p # <<>>, NEW o \in DOMAIN h,
         GetVariable(h, Root, Front(p)) = Just(o)
  PROVE  \E C : OnTheWay(h, p, o, C)
  <1> DEFINE n == Len(p)
             At0(k) == GetVariable(h, Root, SubSeq(p, 1, k - 1))
             S == {j \in Nat : j < n => \E d \in DOMAIN h : At0(n - j) = Just(d)}
             C == [k \in 1..n |-> At0(k)[1]]
  <1>1. n \in Nat /\ n >= 1 /\ Front(p) = SubSeq(p, 1, n - 1) /\ SubSeq(p, 1, 0) = <<>>
    <2>1. n \in Nat /\ n # 0 /\ Front(p) = SubSeq(p, 1, n - 1)
      <3>1. n \in Nat /\ n \in 1..n /\ Front(p) = SubSeq(p, 1, n - 1)
        BY PathFacts
      <3> HIDE DEF n
      <3> QED BY <3>1
    <2>2. Len(SubSeq(p, 1, 0)) = 0 /\ IsPath(SubSeq(p, 1, 0))
      <3>1. 0 \in 0..n
        BY <2>1
      <3> QED BY <3>1, PathFacts
    <2>3. SubSeq(p, 1, 0) = <<>>
      BY <2>2 DEF IsPath
    <2> HIDE DEF n
    <2> QED BY <2>1, <2>3
  <1> HIDE DEF n
  <1>2. Root \in DOMAIN h
    BY DEF Sound, Laid
  <1>3. 0 \in S
    BY <1>1
  <1>4. ASSUME NEW j \in S PROVE j + 1 \in S
    <2> SUFFICES ASSUME j + 1 < n PROVE \E d \in DOMAIN h : At0(n - (j + 1)) = Just(d)
      OBVIOUS
    <2> DEFINE m == n - j - 1
               q == SubSeq(p, 1, m)
    <2>1. m \in 1..n /\ m = n - (j + 1) /\ j < n /\ (n - j) - 1 = m
      BY <1>1
    <2>2. PICK e \in DOMAIN h : At0(n - j) = Just(e)
      BY <2>1
    <2>3. GetVariable(h, Root, q) = Just(e)
      BY <2>1, <2>2
    <2>4. IsPath(q) /\ q # <<>> /\ Front(q) = SubSeq(p, 1, m - 1)
      <3> HIDE DEF m
      <3> QED BY <2>1, PrefixFront DEF n
    <2> HIDE DEF q
    <2>5. PICK d \in DOMAIN h : /\ GetVariable(h, Root, Front(q)) = Just(d) /\ Fits(h[d], Last(q))
                                /\ Holds(h, d, Slot(h, d, Last(q)), e)
      BY <1>2, <2>3, <2>4, LastLink
    <2> HIDE DEF m
    <2> QED BY <2>1, <2>4, <2>5
  <1>5. S = Nat
    <2> HIDE DEF S
    <2> QED BY <1>3, <1>4, Counting DEF S
  <1>6. ASSUME NEW k \in 1..n PROVE C[k] \in DOMAIN h /\ At0(k) = Just(C[k])
    <2>1. n - k \in S /\ n - k < n /\ n - (n - k) = k
      <3>1. n - k \in Nat /\ n - k < n /\ n - (n - k) = k
        BY <1>1
      <3> HIDE DEF S
      <3> QED BY <1>5, <3>1
    <2>2. PICK d \in DOMAIN h : At0(k) = Just(d)
      BY <2>1
    <2>3. C[k] = d
      BY <2>2, JustFacts
    <2> QED BY <2>2, <2>3
  <1>7. C = [k \in 1..n |-> C[k]]
    OBVIOUS
  <1>8. C[1] = Root /\ C[n] = o
    <2>1. 1 \in 1..n /\ n \in 1..n /\ 1 - 1 = 0
      BY <1>1
    <2>2. At0(1) = Just(Root)
      BY <1>1, <2>1, GetNone
    <2>3. At0(n) = Just(o)
      BY <1>1
    <2> QED BY <1>6, <2>1, <2>2, <2>3, JustFacts
  <1> HIDE DEF C
  <1>9. ASSUME NEW k \in 1..(n - 1)
        PROVE  Fits(h[C[k]], p[k]) /\ Holds(h, C[k], Slot(h, C[k], p[k]), C[k + 1]) /\ C[k] < C[k + 1]
    <2> DEFINE q == SubSeq(p, 1, k)
    <2>1. k \in 1..n /\ k + 1 \in 1..n /\ (k + 1) - 1 = k
      BY <1>1
    <2>2. GetVariable(h, Root, q) = Just(C[k + 1]) /\ GetVariable(h, Root, SubSeq(p, 1, k - 1)) = Just(C[k])
      <3>1. At0(k + 1) = Just(C[k + 1]) /\ At0(k) = Just(C[k])
        BY <1>6, <2>1
      <3> QED BY <2>1, <3>1
    <2>3. IsPath(q) /\ q # <<>> /\ Front(q) = SubSeq(p, 1, k - 1) /\ Last(q) = p[k]
      BY <2>1, PrefixFront DEF n
    <2> HIDE DEF q
    <2>4. PICK d \in DOMAIN h : /\ GetVariable(h, Root, Front(q)) = Just(d) /\ Fits(h[d], Last(q))
                                /\ Holds(h, d, Slot(h, d, Last(q)), C[k + 1])
      BY <1>2, <2>2, <2>3, LastLink
    <2>5. d = C[k]
      BY <2>2, <2>3, <2>4, JustFacts
    <2>6. C[k + 1] \in DOMAIN h /\ C[k + 1] # Null
      BY <1>6, <2>1 DEF Sound, Laid
    <2>7. C[k] < C[k + 1]
      <3>1. C[k + 1] > d
        BY <2>4, <2>6 DEF Sound, Descends
      <3> QED BY <2>5, <3>1
    <2> QED BY <2>3, <2>4, <2>5, <2>7
  <1>10. C \in [1..n -> DOMAIN h] /\ C \in [1..n -> Nat]
    BY <1>6, <1>7 DEF Sound, Laid
  <1>11. \A j, k \in 1..n : j < k => C[j] < C[k]
    BY <1>1, <1>9, <1>10, Rising
  <1> QED BY <1>6, <1>8, <1>9, <1>10, <1>11 DEF OnTheWay, n

-----------------------------------------------------------------------------
(* A variable that is put in its place changes the value of the store there. *)

Changed(obj, keys, v) == CHOOSE f : f = [k \in DOMAIN keys |-> SetAt(GetPath(obj, SubSeq(keys, 1, k - 1))[1], keys[k], IF k = Len(keys) THEN v ELSE f[k + 1])]

LEMMA ChangedIs ==
  ASSUME NEW obj, NEW p, IsPath(p), NEW v, NEW f,
         f = [k \in DOMAIN p |-> SetAt(GetPath(obj, SubSeq(p, 1, k - 1))[1], p[k], IF k = Len(p) THEN v ELSE f[k + 1])]
  PROVE  Changed(obj, p, v) = f
  <1> DEFINE n == Len(p)
             Step(k, x) == SetAt(GetPath(obj, SubSeq(p, 1, k - 1))[1], p[k], IF k = n THEN v ELSE x)
             g == Changed(obj, p, v)
             S == {j \in Nat : \A k \in 1..n : k > n - j => g[k] = f[k]}
  <1>1. n \in Nat /\ DOMAIN p = 1..n
    BY PathFacts
  <1>2. g = [k \in DOMAIN p |-> SetAt(GetPath(obj, SubSeq(p, 1, k - 1))[1], p[k], IF k = Len(p) THEN v ELSE g[k + 1])]
    <2> HIDE DEF n, Step, S
    <2> QED BY DEF Changed
  <1> HIDE DEF g
  <1>3. g = [k \in 1..n |-> Step(k, g[k + 1])] /\ f = [k \in 1..n |-> Step(k, f[k + 1])]
    BY <1>1, <1>2
  <1>4. \A k, x, y : k = n => Step(k, x) = Step(k, y)
    OBVIOUS
  <1> HIDE DEF Step, n
  <1>5. 0 \in S
    BY <1>1
  <1>6. ASSUME NEW j \in S PROVE j + 1 \in S
    <2>1. j \in Nat /\ \A k \in 1..n : k > n - j => g[k] = f[k]
      OBVIOUS
    <2>2. ASSUME NEW k \in 1..n, k > n - (j + 1) PROVE g[k] = f[k]
      <3>1. g[k] = Step(k, g[k + 1]) /\ f[k] = Step(k, f[k + 1])
        BY <1>3
      <3>2. CASE k = n
        BY <1>4, <3>1, <3>2
      <3>3. CASE k # n
        <4>1. k + 1 \in 1..n /\ k + 1 > n - j
          BY <1>1, <2>1, <2>2, <3>3
        <4>2. g[k + 1] = f[k + 1]
          BY <2>1, <4>1
        <4> QED BY <3>1, <4>2
      <3> QED BY <3>2, <3>3
    <2> QED BY <2>1, <2>2
  <1>7. S = Nat
    <2> HIDE DEF S
    <2> QED BY <1>5, <1>6, Counting DEF S
  <1>8. \A k \in 1..n : g[k] = f[k]
    <2>1. n \in S
      BY <1>1, <1>7
    <2>2. \A k \in 1..n : k > n - n
      BY <1>1
    <2> QED BY <2>1, <2>2
  <1>9. g = [k \in 1..n |-> g[k]] /\ f = [k \in 1..n |-> f[k]]
    BY <1>3
  <1>10. [k \in 1..n |-> g[k]] = [k \in 1..n |-> f[k]]
    BY <1>8
  <1> QED BY <1>9, <1>10 DEF g

LEMMA SetPathIs ==
  ASSUME NEW obj, NEW keys, NEW v
  PROVE  SetPath(obj, keys, v) = IF GetPath(obj, Front(keys)) = Nothing THEN obj ELSE Changed(obj, keys, v)[1]
  BY DEF SetPath, Changed

LEMMA SameStored ==
  ASSUME NEW a \in Seq(Nat), NEW slot \in DOMAIN a, NEW t, a[slot] = t
  PROVE  Stored(a, slot, t) = a
  <1>1. t \in Nat
    OBVIOUS
  <1>2. [a EXCEPT ![slot] = t] = Stored(a, slot, t)
    BY <1>1, ReplaceStored
  <1>3. [a EXCEPT ![slot] = t] = a
    OBVIOUS
  <1> QED BY <1>2, <1>3

\* What the cell that was set lies behind, and what it has itself, keep their values.
LEMMA PlacedBeside ==
  ASSUME NEW h, Sound(h), NEW g, NEW o, NEW slot, NEW t, NEW cell, Placed(h, g, o, slot, t, cell),
         NEW p, IsPath(p), p # <<>>, NEW C, OnTheWay(h, p, o, C)
  PROVE  /\ Sound(g) /\ o \in DOMAIN g /\ g[o] = cell
         /\ ValueAt(g, t) = ValueAt(h, t)
         /\ \A k \in 1..Len(p) : /\ C[k] \in DOMAIN g /\ (k < Len(p) => g[C[k]] = h[C[k]])
                                 /\ \A i \in DOMAIN h[C[k]].a :
                                       i # (IF k = Len(p) THEN slot ELSE Slot(h, C[k], p[k]))
                                       => ValueAt(g, h[C[k]].a[i]) = ValueAt(h, h[C[k]].a[i])
  <1> DEFINE n == Len(p)
             A == {C[k] : k \in 1..n}
             X == DOMAIN g \ A
             occupant == Occupant(h, o, slot)
             R == IF occupant = Null THEN {} ELSE Reach(h, occupant)
  <1>1. /\ Laid(g) /\ o \in DOMAIN g /\ g[o] = cell /\ t \in DOMAIN g /\ DOMAIN g \subseteq DOMAIN h
        /\ \A d \in DOMAIN g \ {o} : g[d] = h[d]
    BY PlacedKeeps
  <1>2. Sound(g)
    BY PlacedSound
  <1>3. DOMAIN g = DOMAIN h \ R
    BY PlacedIs
  <1>4. n \in Nat /\ n >= 1
    <2>1. n \in Nat /\ n \in 1..n
      BY PathFacts
    <2> HIDE DEF n
    <2> QED BY <2>1
  <1>5. /\ C \in [1..n -> DOMAIN h] /\ C[1] = Root /\ C[n] = o
        /\ \A k \in 1..(n - 1) : Holds(h, C[k], Slot(h, C[k], p[k]), C[k + 1])
        /\ \A j, k \in 1..n : j < k => C[j] < C[k]
    BY DEF OnTheWay
  <1>6. \A k \in 1..n : C[k] \in DOMAIN h /\ C[k] \in Nat /\ C[k] # Null
    BY <1>5 DEF Sound, Laid
  <1> HIDE DEF n
  <1>7. \A j, k \in 1..n : C[j] = C[k] => j = k
    <2>1. ASSUME NEW j \in 1..n, NEW k \in 1..n, C[j] = C[k] PROVE j = k
      <3>1. j < k \/ k < j \/ j = k
        BY <1>4
      <3>2. C[j] \in Nat /\ C[k] \in Nat /\ (j < k => C[j] < C[k]) /\ (k < j => C[k] < C[j])
        BY <1>5, <1>6
      <3> QED BY <2>1, <3>1, <3>2
    <2> QED BY <2>1
  <1>8. \A k \in 1..n : C[k] <= o
    <2> SUFFICES ASSUME NEW k \in 1..n PROVE C[k] <= o
      OBVIOUS
    <2>1. n \in 1..n /\ (k < n \/ k = n)
      BY <1>4
    <2>2. C[k] \in Nat /\ o \in Nat /\ (k < n => C[k] < o) /\ (k = n => C[k] = o)
      BY <1>5, <1>6, <2>1
    <2> QED BY <2>1, <2>2
  <1>9. \A k \in 1..n : C[k] \in DOMAIN g
    <2>1. occupant # Null => occupant \in DOMAIN h /\ occupant > o /\ occupant \in Nat
      <3>1. occupant # Null => Holds(h, o, slot, occupant)
        <4>1. o \in DOMAIN h
          BY <1>1
        <4> QED BY <4>1 DEF Occupant, Holds
      <3> HIDE DEF occupant
      <3> QED BY <3>1 DEF Sound, Laid, Descends
    <2> HIDE DEF occupant
    <2>2. \A d \in R : occupant # Null /\ d >= occupant
      BY <2>1, Reached DEF Sound
    <2> SUFFICES ASSUME NEW k \in 1..n, C[k] \in R PROVE FALSE
      BY <1>3, <1>6
    <2>3. C[k] >= occupant /\ occupant > o /\ C[k] <= o /\ C[k] \in Nat /\ occupant \in Nat
      BY <1>6, <1>8, <2>1, <2>2
    <2>4. o \in Nat
      BY <1>1 DEF Laid
    <2> QED BY <2>3, <2>4
  <1>10. ASSUME NEW k \in 1..n, k < n PROVE g[C[k]] = h[C[k]]
    <2>1. n \in 1..n
      BY <1>4
    <2>2. C[k] # o
      BY <1>5, <1>7, <1>10, <2>1
    <2> QED BY <1>1, <1>9, <2>2
  <1>11. ASSUME NEW d, NEW i, NEW k \in 1..n, Holds(h, d, i, C[k])
         PROVE  k > 1 /\ k - 1 \in 1..n /\ d = C[k - 1] /\ i = Slot(h, C[k - 1], p[k - 1])
    <2>1. k # 1
      <3>1. k = 1 => d \in Nat /\ d # 0 /\ d < Root
        BY <1>5, <1>6, <1>11 DEF Sound, Laid, Descends, Null, Holds
      <3> QED BY <3>1 DEF Root
    <2>2. k > 1 /\ k - 1 \in 1..n /\ k - 1 \in 1..(n - 1) /\ (k - 1) + 1 = k
      BY <1>4, <2>1
    <2>3. Holds(h, C[k - 1], Slot(h, C[k - 1], p[k - 1]), C[k])
      BY <1>5, <2>2
    <2> QED BY <1>6, <1>11, <2>2, <2>3 DEF Sound, OwnedOnce
  <1>12. \A d \in X : d \in DOMAIN h /\ d # o /\ g[d] = h[d]
    <2>1. o \in A
      <3>1. n \in 1..n
        BY <1>4
      <3> QED BY <1>5, <3>1
    <2> HIDE DEF A
    <2> QED BY <1>1, <2>1
  <1>13. Closed(h, X)
    <2> SUFFICES ASSUME NEW d \in X, NEW e \in Below(h, d) PROVE e \in X
      BY DEF Closed
    <2>1. PICK i : e # Null /\ Holds(h, d, i, e)
      BY <1>12, BelowIs
    <2>2. Holds(g, d, i, e)
      BY <1>12, <2>1 DEF Holds
    <2>3. e \in DOMAIN g
      BY <1>2, <2>1, <2>2 DEF Sound, Descends
    <2>4. ASSUME NEW k \in 1..n, e = C[k] PROVE FALSE
      <3>1. Holds(h, d, i, C[k])
        BY <2>1, <2>4
      <3>2. k - 1 \in 1..n /\ d = C[k - 1]
        BY <1>11, <3>1
      <3> QED BY <3>2
    <2> QED BY <2>3, <2>4
  <1>14. \A d \in X : ValueAt(g, d) = ValueAt(h, d)
    <2>1. X \in SUBSET DOMAIN h /\ X \subseteq DOMAIN g /\ \A d \in X : g[d] = h[d]
      BY <1>12
    <2> HIDE DEF X
    <2> QED BY <1>2, <1>13, <2>1, ValueKept
  <1>15. t \in X
    <2>1. t \in DOMAIN h /\ t # Root /\ \A d, i : ~Holds(h, d, i, t)
      <3>1. t \in Unowned(h)
        BY DEF Placed
      <3> QED BY <3>1, UnownedIs DEF Sound
    <2>2. ASSUME NEW k \in 1..n, t = C[k] PROVE FALSE
      <3>1. CASE k = 1
        BY <1>5, <2>1, <2>2, <3>1
      <3>2. CASE k # 1
        <4>1. k - 1 \in 1..(n - 1) /\ (k - 1) + 1 = k
          BY <1>4, <3>2
        <4>2. Holds(h, C[k - 1], Slot(h, C[k - 1], p[k - 1]), t)
          BY <1>5, <2>2, <4>1
        <4> QED BY <2>1, <4>2
      <3> QED BY <3>1, <3>2
    <2> QED BY <1>1, <2>2
  <1>16. ASSUME NEW k \in 1..n, NEW i \in DOMAIN h[C[k]].a,
                i # (IF k = n THEN slot ELSE Slot(h, C[k], p[k]))
         PROVE  ValueAt(g, h[C[k]].a[i]) = ValueAt(h, h[C[k]].a[i])
    <2> DEFINE e == h[C[k]].a[i]
    <2>1. CASE e = Null
      BY <2>1, NullIsNil
    <2>2. CASE e # Null
      <3>1. Holds(h, C[k], i, e)
        BY <1>6 DEF Holds
      <3>2. Holds(g, C[k], i, e)
        <4>1. CASE k # n
          <5>1. k < n
            BY <1>4, <4>1
          <5>2. g[C[k]] = h[C[k]]
            BY <1>10, <5>1
          <5> QED BY <1>9, <3>1, <5>2 DEF Holds
        <4>2. CASE k = n
          <5>1. C[k] = o /\ i # slot
            BY <1>5, <1>16, <4>2
          <5>2. h[o].a \in Seq(Nat) /\ cell.a = Stored(h[o].a, slot, t) /\ slot \in Nat /\ slot >= 1 /\ t \in Nat
            <6>1. o \in DOMAIN h /\ t \in DOMAIN h
              BY <1>1
            <6>2. IsCell(h[o]) /\ t \in Nat
              BY <6>1 DEF Sound, Laid
            <6> QED BY <6>2, CellFacts DEF Placed
          <5>3. i \in DOMAIN cell.a /\ cell.a[i] = h[o].a[i]
            <6>1. ASSUME NEW a \in Seq(Nat), a = h[o].a, i \in DOMAIN a
                  PROVE  i \in DOMAIN Stored(a, slot, t) /\ Stored(a, slot, t)[i] = a[i]
              BY <5>1, <5>2, <6>1, StoredKeeps
            <6>2. i \in DOMAIN h[o].a
              BY <5>1
            <6> QED BY <5>2, <6>1, <6>2
          <5> QED BY <1>1, <1>9, <5>1, <5>3 DEF Holds
        <4> QED BY <4>1, <4>2
      <3>3. e \in DOMAIN g
        BY <1>2, <2>2, <3>2 DEF Sound, Descends
      <3> HIDE DEF e
      <3>4. ASSUME NEW j \in 1..n, e = C[j] PROVE FALSE
        <4>1. Holds(h, C[k], i, C[j])
          BY <3>1, <3>4
        <4>2. j > 1 /\ j - 1 \in 1..n /\ C[k] = C[j - 1] /\ i = Slot(h, C[j - 1], p[j - 1])
          BY <1>11, <4>1
        <4>3. k = j - 1
          BY <1>7, <4>2
        <4>4. k # n
          BY <1>4, <4>3
        <4> QED BY <1>16, <4>2, <4>3, <4>4
      <3>5. e \in X
        BY <3>3, <3>4
      <3> HIDE DEF X
      <3> QED BY <1>14, <3>5 DEF e
    <2> QED BY <2>1, <2>2
  <1> HIDE DEF X
  <1>17. ValueAt(g, t) = ValueAt(h, t)
    BY <1>14, <1>15
  <1> QED BY <1>1, <1>2, <1>9, <1>10, <1>16, <1>17 DEF n

\* The store after a variable was put where the path leads.
LEMMA PlacedValue ==
  ASSUME NEW h, Sound(h), NEW g, NEW o, NEW slot, NEW t, NEW cell, Placed(h, g, o, slot, t, cell),
         NEW p, IsPath(p), p # <<>>, GetVariable(h, Root, Front(p)) = Just(o), slot = Slot(h, o, Last(p)),
         Fits(h[o], Last(p)) \/ (h[o].t = "NIL" /\ IsStr(Last(p))),
         IsStr(Last(p)) => cell.s = KeysWith(h[o], Last(p))
  PROVE  ValueAt(g, Root) = SetPath(ValueAt(h, Root), p, ValueAt(h, t))
  <1> DEFINE n == Len(p)
             v == ValueAt(h, Root)
             u == ValueAt(h, t)
  <1>1. o \in DOMAIN h /\ slot \in Nat /\ slot >= 1 /\ t \in DOMAIN h /\ cell.a = Stored(h[o].a, slot, t)
        /\ (cell.t = h[o].t \/ (h[o].t = "NIL" /\ cell.t = "HASH"))
    BY DEF Placed, Unowned
  <1>2. PICK C : OnTheWay(h, p, o, C)
    BY <1>1, TheWay
  <1>3. /\ n \in Nat /\ DOMAIN p = 1..n /\ n >= 1 /\ Last(p) = p[n] /\ Front(p) = SubSeq(p, 1, n - 1)
        /\ \A k \in 1..n : IsKey(p[k])
    <2>1. n \in Nat /\ DOMAIN p = 1..n /\ n \in 1..n /\ Last(p) = p[n] /\ Front(p) = SubSeq(p, 1, n - 1)
      BY PathFacts
    <2> HIDE DEF n
    <2> QED BY <2>1 DEF IsPath
  <1>4. /\ C[1] = Root /\ C[n] = o
        /\ \A k \in 1..n : C[k] \in DOMAIN h /\ GetVariable(h, Root, SubSeq(p, 1, k - 1)) = Just(C[k])
        /\ \A k \in 1..(n - 1) : /\ Fits(h[C[k]], p[k])
                                 /\ Holds(h, C[k], Slot(h, C[k], p[k]), C[k + 1])
    BY <1>2 DEF OnTheWay
  <1>5. /\ Sound(g) /\ o \in DOMAIN g /\ g[o] = cell /\ ValueAt(g, t) = u
        /\ \A k \in 1..n : /\ C[k] \in DOMAIN g /\ (k < n => g[C[k]] = h[C[k]])
                           /\ \A i \in DOMAIN h[C[k]].a :
                                 i # (IF k = n THEN slot ELSE Slot(h, C[k], p[k]))
                                 => ValueAt(g, h[C[k]].a[i]) = ValueAt(h, h[C[k]].a[i])
    BY <1>2, PlacedBeside
  <1>6. Root \in DOMAIN h
    BY DEF Sound, Laid
  <1> HIDE DEF n, v, u
  <1>7. ASSUME NEW k \in 1..n
        PROVE  ValueAt(g, C[k]) = SetAt(ValueAt(h, C[k]), p[k], IF k = n THEN u ELSE ValueAt(g, C[k + 1]))
    <2>1. C[k] \in DOMAIN h /\ C[k] \in DOMAIN g /\ IsKey(p[k]) /\ IsCell(h[C[k]])
      BY <1>3, <1>4, <1>5 DEF Sound, Laid
    <2>2. CASE k = n
      <3>1. t \in Nat
        BY <1>1 DEF Sound, Laid
      <3>2. C[k] = o /\ p[k] = Last(p)
        BY <1>3, <1>4, <2>2
      <3>3. \A i \in DOMAIN h[o].a : i # slot => ValueAt(g, h[o].a[i]) = ValueAt(h, h[o].a[i])
        BY <1>5, <2>2, <3>2
      <3>4. ValueAt(g, o) = SetAt(ValueAt(h, o), Last(p), ValueAt(g, t))
        BY <1>1, <1>5, <2>1, <3>1, <3>2, <3>3, LevelValue
      <3> QED BY <1>5, <2>2, <3>2, <3>4
    <2>3. CASE k # n
      <3> DEFINE c == C[k]
                 d == C[k + 1]
                 s == Slot(h, c, p[k])
      <3>1. k \in 1..(n - 1) /\ k < n /\ k + 1 \in 1..n
        BY <1>3, <2>3
      <3>2. Fits(h[c], p[k]) /\ Holds(h, c, s, d) /\ g[c] = h[c] /\ d \in DOMAIN h
        BY <1>4, <1>5, <3>1
      <3>3. \A i \in DOMAIN h[c].a : i # s => ValueAt(g, h[c].a[i]) = ValueAt(h, h[c].a[i])
        BY <1>5, <2>3
      <3>4. d \in Nat /\ h[c].a \in Seq(Nat) /\ DOMAIN h[c].a = 1..Len(h[c].a)
        BY <2>1, <3>2, CellFacts DEF Sound, Laid
      <3> HIDE DEF c, d, s
      <3>5. s \in DOMAIN h[c].a /\ h[c].a[s] = d /\ s \in Nat /\ s >= 1
        BY <3>2, <3>4 DEF Holds
      <3>6. Stored(h[c].a, s, d) = h[c].a
        BY <3>4, <3>5, SameStored
      <3>7. IsStr(p[k]) => g[c].s = KeysWith(h[c], p[k])
        <4>1. IsStr(p[k]) => KeyIndex(h[c], p[k].s) # {}
          BY <2>1, <3>2, <3>5, SlotIs DEF c, s
        <4> QED BY <3>2, <4>1 DEF KeysWith
      <3>8. s = Slot(h, c, p[k]) /\ c \in DOMAIN h /\ c \in DOMAIN g
        BY <2>1 DEF c, s
      <3>9. ValueAt(g, c) = SetAt(ValueAt(h, c), p[k], ValueAt(g, d))
        <4> DEFINE key == p[k]
        <4>1. /\ IsKey(key) /\ s = Slot(h, c, key) /\ (Fits(h[c], key) \/ (h[c].t = "NIL" /\ IsStr(key)))
              /\ (IsStr(key) => g[c].s = KeysWith(h[c], key))
          BY <2>1, <3>2, <3>7, <3>8
        <4>2. /\ Sound(g) /\ g[c].a = Stored(h[c].a, s, d)
              /\ (g[c].t = h[c].t \/ (h[c].t = "NIL" /\ g[c].t = "HASH"))
          BY <1>5, <3>2, <3>6
        <4>3. c \in DOMAIN h /\ c \in DOMAIN g /\ s \in Nat /\ s >= 1 /\ d \in Nat
          BY <3>4, <3>5, <3>8
        <4> HIDE DEF key
        <4>4. ValueAt(g, c) = SetAt(ValueAt(h, c), key, ValueAt(g, d))
          BY <3>3, <4>1, <4>2, <4>3, LevelValue
        <4> QED BY <4>4 DEF key
      <3> QED BY <2>3, <3>9 DEF c, d
    <2> QED BY <2>2, <2>3
  <1>8. \A k \in 1..n : GetPath(v, SubSeq(p, 1, k - 1)) = Just(ValueAt(h, C[k]))
    <2> SUFFICES ASSUME NEW k \in 1..n PROVE GetPath(v, SubSeq(p, 1, k - 1)) = Just(ValueAt(h, C[k]))
      OBVIOUS
    <2>1. IsPath(SubSeq(p, 1, k - 1))
      <3>1. k - 1 \in 0..Len(p)
        BY DEF n
      <3> QED BY <3>1, PathFacts
    <2>2. GetPath(ValueAt(h, Root), SubSeq(p, 1, k - 1)) = Image(h, GetVariable(h, Root, SubSeq(p, 1, k - 1)))
      BY <1>6, <2>1, PathValue
    <2> QED BY <1>4, <2>2, JustFacts DEF Image, v
  <1> DEFINE f == [k \in DOMAIN p |-> ValueAt(g, C[k])]
  <1>9. f = [k \in DOMAIN p |-> SetAt(GetPath(v, SubSeq(p, 1, k - 1))[1], p[k], IF k = Len(p) THEN u ELSE f[k + 1])]
    <2>1. ASSUME NEW k \in 1..n
          PROVE  f[k] = SetAt(GetPath(v, SubSeq(p, 1, k - 1))[1], p[k], IF k = n THEN u ELSE f[k + 1])
      <3>1. f[k] = ValueAt(g, C[k]) /\ (k # n => f[k + 1] = ValueAt(g, C[k + 1]))
        <4>1. k # n => k + 1 \in 1..n
          BY <1>3
        <4> QED BY <1>3, <4>1
      <3>2. GetPath(v, SubSeq(p, 1, k - 1))[1] = ValueAt(h, C[k])
        BY <1>8, JustFacts
      <3> HIDE DEF f
      <3> QED BY <1>7, <3>1, <3>2
    <2>2. f = [k \in DOMAIN p |-> f[k]]
      OBVIOUS
    <2> HIDE DEF f
    <2>3. \A k \in DOMAIN p : f[k] = SetAt(GetPath(v, SubSeq(p, 1, k - 1))[1], p[k], IF k = Len(p) THEN u ELSE f[k + 1])
      BY <1>3, <2>1 DEF n
    <2> QED BY <2>2, <2>3
  <1>10. f[1] = ValueAt(g, Root)
    <2>1. 1 \in DOMAIN p
      BY <1>3
    <2> QED BY <1>4, <2>1
  <1> HIDE DEF f
  <1>11. Changed(v, p, u) = f
    BY <1>9, ChangedIs
  <1>12. GetPath(v, Front(p)) # Nothing
    <2>1. n \in 1..n
      BY <1>3
    <2> QED BY <1>3, <1>8, <2>1, JustFacts
  <1>13. SetPath(v, p, u) = f[1]
    BY <1>11, <1>12, SetPathIs
  <1> QED BY <1>10, <1>13 DEF v, u

-----------------------------------------------------------------------------
(* The value of what inject creates is the value that it was given. *)

LEMMA CreatedValue ==
  ASSUME NEW h, Sound(h), NEW v, IsCell(v), v.a = <<>>
  PROVE  ValueAt(New(h, v).h, New(h, v).p) = v
  <1> DEFINE g == New(h, v).h
             c == New(h, v).p
             x == [i \in DOMAIN g[c].a |-> ValueAt(g, g[c].a[i])]
  <1>1. Sound(g) /\ c \in DOMAIN g /\ g[c] = v
    BY Created DEF Injected, Grown
  <1> HIDE DEF g, c
  <1>2. ValueAt(g, c) = OfCell(g[c], x)
    BY <1>1, ValueIs
  <1>3. x = <<>>
    <2>1. DOMAIN g[c].a = {}
      BY <1>1
    <2> QED BY <2>1
  <1> HIDE DEF x
  <1>4. v = [t |-> v.t, n |-> v.n, s |-> v.s, a |-> v.a]
    BY CellFacts
  <1>5. OfCell(v, <<>>) = v
    BY <1>4 DEF OfCell
  <1> QED BY <1>1, <1>2, <1>3, <1>5 DEF g, c

\* The copy of a cell, as far behind the last address as the cell is behind none.
Shifted(h, j) ==
  [h[j] EXCEPT !.a = [i \in DOMAIN @ |-> IF @[i] = Null THEN Null ELSE @[i] + Max(DOMAIN h)]]

LEMMA ClonedCells ==
  ASSUME NEW h, Sound(h), NEW c \in DOMAIN h
  PROVE  /\ CreateClone(h, c).p = c + Max(DOMAIN h)
         /\ \A j \in Reach(h, c) : /\ j + Max(DOMAIN h) \in DOMAIN CreateClone(h, c).h
                                   /\ CreateClone(h, c).h[j + Max(DOMAIN h)] = Shifted(h, j)
  <1> DEFINE b == Max(DOMAIN h)
             R == Reach(h, c)
             Moved(p) == IF p = Null THEN Null ELSE p + b
             copies == [k \in {Moved(j) : j \in R} |->
                          [h[k - b] EXCEPT !.a = [i \in DOMAIN @ |-> Moved(@[i])]]]
             g == Beside(h, copies)
  <1>1. CreateClone(h, c).h = g /\ CreateClone(h, c).p = Moved(c)
    BY DEF CreateClone, At
  <1>2. /\ b \in Nat /\ b >= 1 /\ c \in Nat \ {Null}
        /\ \A d \in DOMAIN h : d \in Nat /\ d # Null /\ d <= b
    BY LastAddress DEF Sound, Laid, Null
  <1>3. c \in R /\ R \subseteq DOMAIN h
    BY Reached DEF Sound
  <1>4. \A j \in R : Moved(j) = j + b /\ (j + b) - b = j /\ j + b \notin DOMAIN h
    BY <1>2, <1>3 DEF Null
  <1>5. Moved(c) = c + b
    BY <1>3, <1>4
  <1>6. \A j \in R : Shifted(h, j) = [h[j] EXCEPT !.a = [i \in DOMAIN @ |-> Moved(@[i])]]
    BY DEF Shifted
  <1> HIDE DEF R, b
  <1>7. DOMAIN g = DOMAIN h \union {Moved(j) : j \in R}
    BY DEF Beside
  <1>8. ASSUME NEW j \in R PROVE j + b \in DOMAIN g /\ g[j + b] = Shifted(h, j)
    <2> DEFINE d == j + b
    <2>1. d \in {Moved(l) : l \in R} /\ d \notin DOMAIN h /\ d - b = j
      <3> HIDE DEF Moved
      <3>0. (j + b) - b = j
        BY <1>2, <1>3
      <3>2. Moved(j) = j + b /\ j + b \notin DOMAIN h
        BY <1>4, Zenon
      <3>3. d = j + b
        OBVIOUS
      <3> HIDE DEF d
      <3>4. d - b = j
        BY <3>0, <3>3
      <3>5. Moved(j) = d
        BY <3>2, <3>3
      <3>6. d \notin DOMAIN h
        BY <3>2, <3>3
      <3>7. d \in {Moved(l) : l \in R}
        BY <3>5
      <3> QED BY <3>4, <3>6, <3>7
    <2> HIDE DEF d, Moved, R
    <2>2. copies[d] = [h[d - b] EXCEPT !.a = [i \in DOMAIN @ |-> Moved(@[i])]] /\ d \in DOMAIN copies
      BY <2>1
    <2> HIDE DEF copies
    <2>3. d \in DOMAIN g /\ g[d] = copies[d]
      BY <2>1, <2>2 DEF Beside
    <2>4. [h[d - b] EXCEPT !.a = [i \in DOMAIN @ |-> Moved(@[i])]] = Shifted(h, j)
      BY <1>6, <2>1
    <2> HIDE DEF g
    <2>5. g[d] = Shifted(h, j)
      BY <2>2, <2>3, <2>4, Zenon
    <2> QED BY <2>3, <2>5 DEF d
  <1> HIDE DEF g, Moved
  <1>9. CreateClone(h, c).p = c + b
    BY <1>1, <1>5
  <1> QED BY <1>1, <1>8, <1>9 DEF R, b

LEMMA ShiftedIs ==
  ASSUME NEW h, Sound(h), NEW j \in DOMAIN h
  PROVE  /\ Shifted(h, j).t = h[j].t /\ Shifted(h, j).n = h[j].n /\ Shifted(h, j).s = h[j].s
         /\ DOMAIN Shifted(h, j).a = DOMAIN h[j].a
         /\ \A i \in DOMAIN h[j].a :
               Shifted(h, j).a[i] = IF h[j].a[i] = Null THEN Null ELSE h[j].a[i] + Max(DOMAIN h)
  <1> DEFINE x == [i \in DOMAIN h[j].a |-> IF h[j].a[i] = Null THEN Null ELSE h[j].a[i] + Max(DOMAIN h)]
  <1>1. IsCell(h[j])
    BY DEF Sound, Laid
  <1>2. Shifted(h, j) = [h[j] EXCEPT !.a = x]
    BY DEF Shifted
  <1> HIDE DEF x
  <1>3. Shifted(h, j) = OfCell(h[j], x)
    BY <1>1, <1>2, CellWith
  <1>4. /\ Shifted(h, j).t = h[j].t /\ Shifted(h, j).n = h[j].n /\ Shifted(h, j).s = h[j].s
        /\ Shifted(h, j).a = x
    BY <1>3 DEF OfCell
  <1> QED BY <1>4 DEF x

LEMMA ClonedValue ==
  ASSUME NEW h, Sound(h), NEW c \in DOMAIN h
  PROVE  ValueAt(CreateClone(h, c).h, CreateClone(h, c).p) = ValueAt(h, c)
  <1> DEFINE b == Max(DOMAIN h)
             R == Reach(h, c)
             g == CreateClone(h, c).h
             m == [k \in R |-> k + b]
  <1>1. c \in R /\ R \in SUBSET DOMAIN h /\ Closed(h, R)
    BY Reached DEF Sound
  <1>2. Sound(g)
    BY Cloned DEF Injected, Grown
  <1>3. CreateClone(h, c).p = c + b /\ \A j \in R : j + b \in DOMAIN g /\ g[j + b] = Shifted(h, j)
    BY ClonedCells
  <1> HIDE DEF R, g, b
  <1>4. m \in [R -> DOMAIN g] /\ \A k \in R : m[k] = k + b
    BY <1>3
  <1> HIDE DEF m
  <1>5. ASSUME NEW k \in R
        PROVE  /\ g[m[k]].t = h[k].t /\ g[m[k]].n = h[k].n /\ g[m[k]].s = h[k].s
               /\ DOMAIN g[m[k]].a = DOMAIN h[k].a
               /\ \A i \in DOMAIN h[k].a :
                     g[m[k]].a[i] = IF h[k].a[i] = Null THEN Null ELSE m[h[k].a[i]]
    <2>1. k \in DOMAIN h /\ g[m[k]] = Shifted(h, k)
      BY <1>1, <1>3, <1>4
    <2>2. /\ Shifted(h, k).t = h[k].t /\ Shifted(h, k).n = h[k].n /\ Shifted(h, k).s = h[k].s
          /\ DOMAIN Shifted(h, k).a = DOMAIN h[k].a
          /\ \A i \in DOMAIN h[k].a :
                Shifted(h, k).a[i] = IF h[k].a[i] = Null THEN Null ELSE h[k].a[i] + b
      BY <2>1, ShiftedIs DEF b
    <2>3. ASSUME NEW i \in DOMAIN h[k].a, h[k].a[i] # Null PROVE h[k].a[i] \in R
      <3>1. Holds(h, k, i, h[k].a[i])
        BY <2>1 DEF Holds
      <3>2. h[k].a[i] \in Below(h, k)
        BY <2>1, <2>3, <3>1, BelowIs DEF Sound
      <3> QED BY <1>1, <3>2 DEF Closed
    <2> QED BY <1>4, <2>1, <2>2, <2>3
  <1>6. \A k \in R : ValueAt(g, m[k]) = ValueAt(h, k)
    BY <1>1, <1>2, <1>4, <1>5, ValueMoved
  <1> QED BY <1>1, <1>3, <1>4, <1>6 DEF g

\* The value of the store that a value of the engine stands for.
SourceValue(h, v) == IF v.t = "VAR" THEN ValueAt(h, v.n) ELSE v

LEMMA ScalarOrCopyValue ==
  ASSUME NEW h, Sound(h), NEW v, IsSource(h, v)
  PROVE  ValueAt(InjectScalarOrCopy(h, v).h, InjectScalarOrCopy(h, v).p) = SourceValue(h, v)
  <1>1. CASE IsScalar(v)
    <2>1. v.t # "VAR" /\ v.a = <<>> /\ IsCell(v)
      BY <1>1, ScalarFacts DEF IsCell
    <2>2. InjectScalarOrCopy(h, v) = New(h, v)
      BY <2>1 DEF InjectScalarOrCopy
    <2> QED BY <2>1, <2>2, CreatedValue DEF SourceValue
  <1>2. CASE v.t = "VAR" /\ v.n \in DOMAIN h
    <2>1. InjectScalarOrCopy(h, v) = CreateClone(h, v.n)
      BY <1>2 DEF InjectScalarOrCopy
    <2> QED BY <1>2, <2>1, ClonedValue DEF SourceValue
  <1> QED BY <1>1, <1>2 DEF IsSource

\* What lies behind a cell keeps its value when the cell is written.
LEMMA BehindKept ==
  ASSUME NEW h, Sound(h), NEW g, Sound(g), NEW l \in DOMAIN h, DOMAIN g = DOMAIN h,
         \A d \in DOMAIN h \ {l} : g[d] = h[d]
  PROVE  \A d \in DOMAIN h : d > l => ValueAt(g, d) = ValueAt(h, d)
  <1> DEFINE X == {d \in DOMAIN h : d > l}
  <1>1. \A d \in DOMAIN h : d \in Nat /\ d # Null
    BY DEF Sound, Laid
  <1>2. Closed(h, X)
    <2> SUFFICES ASSUME NEW d \in DOMAIN h, d > l, NEW k \in Below(h, d) PROVE k \in DOMAIN h /\ k > l
      BY DEF Closed
    <2>1. k # Null /\ \E i : Holds(h, d, i, k)
      BY BelowIs
    <2>2. k \in DOMAIN h /\ k > d
      BY <2>1 DEF Sound, Descends
    <2> QED BY <1>1, <2>2
  <1>3. \A d \in X : d # l
    BY <1>1
  <1>4. X \in SUBSET DOMAIN h /\ X \subseteq DOMAIN g /\ \A d \in X : g[d] = h[d]
    BY <1>3
  <1>5. \A d \in X : ValueAt(g, d) = ValueAt(h, d)
    <2> HIDE DEF X
    <2> QED BY <1>2, <1>4, ValueKept
  <1> QED BY <1>5

\* What is left of a heap keeps its values.
LEMMA LeftKept ==
  ASSUME NEW h, Sound(h), NEW g, Sound(g), DOMAIN g \subseteq DOMAIN h, \A d \in DOMAIN g : g[d] = h[d]
  PROVE  \A d \in DOMAIN g : ValueAt(g, d) = ValueAt(h, d)
  <1> DEFINE X == DOMAIN g
  <1>1. Closed(g, X)
    BY BelowIs DEF Closed, Sound, Descends
  <1>2. X \in SUBSET DOMAIN g /\ X \subseteq DOMAIN h /\ \A d \in X : h[d] = g[d]
    OBVIOUS
  <1> HIDE DEF X
  <1>3. \A d \in X : ValueAt(h, d) = ValueAt(g, d)
    BY <1>1, <1>2, ValueKept
  <1> QED BY <1>3 DEF X

\* setArrayVariable behind the last element, of a list whose value is known.
LEMMA AppendedValue ==
  ASSUME NEW h, Sound(h), NEW g, Sound(g), NEW l \in DOMAIN h, h[l].t = "LIST", NEW idx \in Nat, idx = Len(h[l].a),
         NEW t, NEW cell, NEW slot \in Nat, slot = idx + 1, Placed(h, g, l, slot, t, cell)
  PROVE  /\ DOMAIN g = DOMAIN h /\ g[l].t = "LIST" /\ Len(g[l].a) = idx + 1
         /\ ValueAt(g, l) = List(Append(ValueAt(h, l).a, ValueAt(h, t)))
  <1> DEFINE key == Num(idx)
             x == ValueAt(h, l).a
             u == ValueAt(h, t)
  <1>1. IsCell(h[l]) /\ DOMAIN h[l].a = 1..idx /\ idx \in Nat /\ h[l].a \in Seq(Nat)
    BY CellFacts DEF Sound, Laid
  <1>2. t \in Unowned(h) /\ t > l /\ cell.a = Stored(h[l].a, slot, t) /\ cell.t = "LIST" /\ t \in Nat /\ t \in DOMAIN h
    BY DEF Placed, Unowned, Sound, Laid
  <1>3. g = [h EXCEPT ![l] = cell]
    <2>1. slot \notin DOMAIN h[l].a
      BY <1>1
    <2>2. Occupant(h, l, slot) = Null
      BY <2>1 DEF Occupant
    <2> QED BY <2>2 DEF Placed, Delete
  <1>4. DOMAIN g = DOMAIN h /\ g[l] = cell /\ \A d \in DOMAIN h \ {l} : g[d] = h[d]
    BY <1>3
  <1>5. \A d \in DOMAIN h : d > l => ValueAt(g, d) = ValueAt(h, d)
    BY <1>4, BehindKept
  <1>6. ValueAt(g, t) = u
    BY <1>2, <1>5
  <1>7. IsKey(key) /\ IsInt(key) /\ ~IsStr(key) /\ Slot(h, l, key) = slot /\ slot \in Nat /\ slot >= 1
    <2>1. IsKey(key) /\ IsInt(key) /\ key.n = idx
      BY <1>1 DEF IsKey, IsInt, Num, Value
    <2>2. ~(key.n < 0) /\ idx + 1 \in Nat /\ idx + 1 >= 1
      BY <1>1, <2>1
    <2> HIDE DEF key
    <2>3. Slot(h, l, key) = key.n + 1
      BY <2>1, <2>2 DEF Slot
    <2> QED BY <2>1, <2>2, <2>3, KeyFacts
  <1>8. Fits(h[l], key)
    BY <1>7 DEF Fits
  <1>9. \A i \in DOMAIN h[l].a : i # slot => ValueAt(g, h[l].a[i]) = ValueAt(h, h[l].a[i])
    <2> SUFFICES ASSUME NEW i \in DOMAIN h[l].a PROVE ValueAt(g, h[l].a[i]) = ValueAt(h, h[l].a[i])
      OBVIOUS
    <2>1. h[l].a[i] = Null \/ (h[l].a[i] \in DOMAIN h /\ h[l].a[i] > l)
      <3>1. Holds(h, l, i, h[l].a[i])
        BY DEF Holds
      <3> QED BY <3>1 DEF Sound, Descends
    <2> QED BY <1>5, <2>1, NullIsNil
  <1> HIDE DEF key
  <1>10. ValueAt(g, l) = SetAt(ValueAt(h, l), key, ValueAt(g, t))
    <2>1. /\ g[l].a = Stored(h[l].a, slot, t) /\ g[l].t = h[l].t /\ l \in DOMAIN g
          /\ (IsStr(key) => g[l].s = KeysWith(h[l], key)) /\ slot = Slot(h, l, key)
      BY <1>2, <1>4, <1>7
    <2> QED BY <1>2, <1>7, <1>8, <1>9, <2>1, LevelValue
  <1>11. ValueAt(h, l) = OfCell(h[l], x) /\ x = [i \in 1..idx |-> x[i]]
    BY ValueShape
  <1> HIDE DEF x, u
  <1> DEFINE w == [t |-> IF IsInt(key) THEN "LIST" ELSE "HASH", n |-> 0,
                   s |-> IF IsInt(key) THEN <<>> ELSE KeysWith(h[l], key), a |-> StoredValue(x, slot, u)]
  <1>12. SetAt(ValueAt(h, l), key, u) = w
    <2>1. w = [t |-> IF IsInt(key) THEN "LIST" ELSE "HASH", n |-> 0,
               s |-> IF IsInt(key) THEN <<>> ELSE KeysWith(h[l], key), a |-> StoredValue(x, slot, u)]
      OBVIOUS
    <2> HIDE DEF w
    <2>2. /\ slot = Slot(h, l, key) /\ x = [i \in 1..Len(h[l].a) |-> x[i]]
          /\ (Fits(h[l], key) \/ (h[l].t = "NIL" /\ IsStr(key)))
      BY <1>7, <1>8, <1>11
    <2> QED BY <1>1, <1>7, <1>11, <2>1, <2>2, SetAtIs
  <1>13. w = List(StoredValue(x, slot, u))
    BY <1>7 DEF List, Value
  <1>14. StoredValue(x, slot, u) = Append(x, u)
    BY <1>1, <1>11, AppendValue
  <1> HIDE DEF w
  <1>15. ValueAt(g, l) = List(Append(x, u))
    BY <1>6, <1>10, <1>12, <1>13, <1>14
  <1>16. Len(g[l].a) = idx + 1
    <2>1. Stored(h[l].a, slot, t) = Append(h[l].a, t)
      BY <1>1, <1>2, AppendStored
    <2>2. Len(Append(h[l].a, t)) = idx + 1
      BY <1>1, <1>2
    <2> QED BY <1>2, <1>4, <2>1, <2>2
  <1> QED BY <1>2, <1>4, <1>15, <1>16 DEF x, u

\* InjectElement appends the value of the element, and no more.
LEMMA InjectedElementValue ==
  ASSUME NEW h, Sound(h), NEW acc, Injected(h, acc.h, acc.p), acc.h[acc.p].t = "LIST",
         NEW v, IsSource(h, v)
  PROVE  LET r == InjectElement(acc, v)
         IN  ValueAt(r.h, r.p) = List(Append(ValueAt(acc.h, acc.p).a, SourceValue(h, v)))
  <1> DEFINE g == acc.h
             l == acc.p
             x == InjectScalarOrCopy(g, v)
             idx == Len(x.h[l].a)
             key == Num(idx)
             set == SetArrayVariable(x.h, l, idx, x.p)
             copy == CreateClone(x.h, x.p)
             r == InjectElement(acc, v)
             u == SourceValue(h, v)
             a == ValueAt(g, l).a
  <1>1. Sound(g) /\ IsSource(g, v) /\ Grown(h, g) /\ l \in DOMAIN g \ DOMAIN h /\ g[l].t = "LIST"
        /\ Unowned(g) = Unowned(h) \union {l}
    BY DEF Injected, Grown, IsSource
  <1>2. r.h = Delete(set.h, x.p) /\ r.p = l
    BY DEF InjectElement, At
  <1>3. u = SourceValue(g, v)
    <2>1. CASE IsScalar(v)
      <3>1. v.t # "VAR"
        BY <2>1, ScalarFacts
      <3> QED BY <3>1 DEF SourceValue
    <2>2. CASE v.t = "VAR" /\ v.n \in DOMAIN h
      <3>1. ValueAt(g, v.n) = ValueAt(h, v.n)
        BY <1>1, <2>2, GrownValue
      <3> QED BY <2>2, <3>1 DEF SourceValue
    <2> QED BY <2>1, <2>2 DEF IsSource
  <1> HIDE DEF r, g, l, u
  <1>4. Injected(g, x.h, x.p) /\ ValueAt(x.h, x.p) = u
    BY <1>1, <1>3, InjectedScalarOrCopy, ScalarOrCopyValue
  <1> HIDE DEF x
  <1>5. /\ Sound(x.h) /\ l \in DOMAIN x.h /\ x.p \in DOMAIN x.h /\ x.h[l] = g[l] /\ IsCell(x.h[l])
        /\ x.p \notin DOMAIN g /\ Unowned(x.h) = Unowned(g) \union {x.p} /\ Grown(g, x.h) /\ x.p > l
    BY <1>1, <1>4 DEF Injected, Grown, Sound, Laid
  <1>6. /\ idx \in Nat /\ DOMAIN x.h[l].a = 1..idx
    BY <1>5, CellFacts
  <1>7. IsKey(key) /\ IsInt(key) /\ key.n = idx
    BY <1>6 DEF IsKey, IsInt, Num, Value
  <1>8. SetArrayIsDefined(x.h, l, key.n) /\ Fits(x.h[l], key)
    <2>1. idx >= -idx
      BY <1>6
    <2> HIDE DEF key, idx
    <2> QED BY <1>1, <1>5, <1>7, <2>1 DEF SetArrayIsDefined, Fits, idx
  <1>9. Slot(x.h, l, key) = idx + 1
    <2>1. ~(key.n < 0)
      BY <1>6, <1>7
    <2> QED BY <1>7, <2>1 DEF Slot
  <1>10. Injected(x.h, copy.h, copy.p) /\ ValueAt(copy.h, copy.p) = u
    BY <1>4, <1>5, Cloned, ClonedValue
  <1>11. PICK cell : Placed(copy.h, set.h, l, idx + 1, copy.p, cell)
    <2> HIDE DEF key
    <2>1. SetArrayVariable(x.h, l, key.n, x.p) = set
      BY <1>7
    <2> HIDE DEF set, idx, copy
    <2> QED BY <1>5, <1>7, <1>8, <1>9, <2>1, ArraySet DEF copy
  <1>12. /\ Sound(copy.h) /\ copy.h[l] = x.h[l] /\ l \in DOMAIN copy.h /\ idx = Len(copy.h[l].a)
         /\ ValueAt(copy.h, l) = ValueAt(g, l) /\ copy.h[l].t = "LIST"
         /\ x.p \in Unowned(copy.h) /\ copy.p # x.p
    <2>1. Grown(x.h, copy.h) /\ Sound(copy.h)
      BY <1>10 DEF Injected, Grown
    <2>2. ValueAt(copy.h, l) = ValueAt(x.h, l) /\ ValueAt(x.h, l) = ValueAt(g, l)
      BY <1>1, <1>5, <2>1, GrownValue
    <2>3. copy.h[l] = x.h[l] /\ l \in DOMAIN copy.h
      BY <1>5, <2>1 DEF Grown
    <2> QED BY <1>1, <1>5, <1>10, <2>1, <2>2, <2>3 DEF Injected
  <1> HIDE DEF set, copy, key, idx
  <1>13. Sound(set.h) /\ x.p \in Unowned(set.h)
    BY <1>11, <1>12, PlacedSound
  <1>14. l \in DOMAIN set.h /\ ValueAt(set.h, l) = List(Append(a, u))
    <2>1. /\ Sound(copy.h) /\ Sound(set.h) /\ l \in DOMAIN copy.h /\ copy.h[l].t = "LIST"
          /\ idx = Len(copy.h[l].a)
      BY <1>12, <1>13
    <2> DEFINE slot == idx + 1
    <2>3. slot = idx + 1 /\ Placed(copy.h, set.h, l, slot, copy.p, cell)
      BY <1>11
    <2> HIDE DEF slot
    <2>2. /\ DOMAIN set.h = DOMAIN copy.h
          /\ ValueAt(set.h, l) = List(Append(ValueAt(copy.h, l).a, ValueAt(copy.h, copy.p)))
      <3> DEFINE G == copy.h
                 H == set.h
                 T == copy.p
      <3>1. /\ Sound(G) /\ Sound(H) /\ l \in DOMAIN G /\ G[l].t = "LIST"
            /\ idx = Len(G[l].a) /\ idx \in Nat /\ slot \in Nat /\ slot = idx + 1 /\ Placed(G, H, l, slot, T, cell)
        BY <1>6, <2>1, <2>3
      <3> HIDE DEF G, H, T
      <3>2. DOMAIN H = DOMAIN G /\ ValueAt(H, l) = List(Append(ValueAt(G, l).a, ValueAt(G, T)))
        <4>1. DOMAIN H = DOMAIN G
          BY <3>1, AppendedValue
        <4>2. ValueAt(H, l) = List(Append(ValueAt(G, l).a, ValueAt(G, T)))
          BY <3>1, AppendedValue
        <4> QED BY <4>1, <4>2
      <3> QED BY <3>2 DEF G, H, T
    <2> QED BY <1>10, <1>12, <2>2
  <1>15. /\ Sound(r.h) /\ DOMAIN r.h = DOMAIN set.h \ Reach(set.h, x.p) /\ \A d \in DOMAIN r.h : r.h[d] = set.h[d]
         /\ \A d \in Reach(set.h, x.p) : d >= x.p
    <2> DEFINE f == Delete(set.h, x.p)
    <2>1. /\ Sound(f) /\ DOMAIN f = DOMAIN set.h \ Reach(set.h, x.p) /\ \A d \in DOMAIN f : f[d] = set.h[d]
          /\ \A d \in Reach(set.h, x.p) : d >= x.p
      BY <1>13, FreedUnowned
    <2>2. r.h = f
      BY <1>2
    <2> HIDE DEF f
    <2> QED BY <2>1, <2>2
  <1>16. l \in DOMAIN r.h
    <2>1. x.p \in Nat /\ l \in Nat
      BY <1>5 DEF Sound, Laid
    <2>2. l \notin Reach(set.h, x.p)
      BY <1>5, <1>15, <2>1
    <2> QED BY <1>14, <1>15, <2>2
  <1>17. ValueAt(r.h, l) = ValueAt(set.h, l)
    BY <1>13, <1>15, <1>16, LeftKept
  <1> QED BY <1>2, <1>14, <1>17 DEF r, u, a, g, l

\* What an array of the engine is in the store.
ArrayValue(h, v, n) == List([k \in 1..n |-> SourceValue(h, v.a[k])])

LEMMA ArrayValueNext ==
  ASSUME NEW h, NEW v, NEW n \in Nat
  PROVE  ArrayValue(h, v, n + 1) = List(Append(ArrayValue(h, v, n).a, SourceValue(h, v.a[n + 1])))
  <1> DEFINE F(k) == SourceValue(h, v.a[k])
             x == [k \in 1..n |-> F(k)]
             y == [k \in 1..(n + 1) |-> F(k)]
             u == SourceValue(h, v.a[n + 1])
  <1>0. u = F(n + 1)
    OBVIOUS
  <1>1. ArrayValue(h, v, n).a = x /\ ArrayValue(h, v, n + 1) = List(y)
    BY HashIs DEF ArrayValue
  <1> HIDE DEF F, u
  <1>2. Append(x, u) = y
    <2> DEFINE S == {x[k] : k \in 1..n} \union {u}
               z == Append(x, u)
    <2>1. x \in Seq(S) /\ Len(x) = n /\ u \in S
      OBVIOUS
    <2>2. \A k \in 1..n : x[k] = F(k)
      OBVIOUS
    <2> HIDE DEF S, x
    <2>3. z \in Seq(S) /\ Len(z) = n + 1 /\ z[n + 1] = u /\ \A k \in 1..n : z[k] = x[k]
      BY <2>1
    <2> HIDE DEF z
    <2>4. z = [k \in 1..(n + 1) |-> z[k]]
      BY <2>3
    <2>5. \A k \in 1..(n + 1) : z[k] = F(k)
      <3>1. \A k \in 1..(n + 1) : k = n + 1 \/ k \in 1..n
        OBVIOUS
      <3> QED BY <1>0, <2>2, <2>3, <3>1
    <2>6. z = y
      BY <2>4, <2>5
    <2> QED BY <2>6 DEF z
  <1> HIDE DEF x, y
  <1> QED BY <1>1, <1>2 DEF u

\* What inject is given, as a value of the store.
InjectedValue(h, v) == IF v.t = "ARRAY" THEN ArrayValue(h, v, Len(v.a)) ELSE SourceValue(h, v)

LEMMA InjectedIntoValue ==
  ASSUME NEW h, Sound(h), NEW v, IsSource(h, v) \/ IsArray(h, v)
  PROVE  ValueAt(InjectInto(h, v).h, InjectInto(h, v).p) = InjectedValue(h, v)
  <1>1. CASE IsSource(h, v)
    <2>1. v.t # "ARRAY"
      BY <1>1, ScalarFacts DEF IsSource
    <2>2. InjectInto(h, v) = InjectScalarOrCopy(h, v)
      BY <2>1 DEF InjectInto
    <2>3. InjectedValue(h, v) = SourceValue(h, v)
      BY <2>1 DEF InjectedValue
    <2> QED BY <1>1, <2>2, <2>3, ScalarOrCopyValue
  <1>2. CASE IsArray(h, v)
    <2> DEFINE n == Len(v.a)
               f == Filled(h, v)
               S == {k \in Nat : k <= n => /\ Injected(h, f[k].h, f[k].p) /\ f[k].h[f[k].p].t = "LIST"
                                           /\ ValueAt(f[k].h, f[k].p) = ArrayValue(h, v, k)}
    <2>1. n \in Nat /\ v.t = "ARRAY" /\ \A k \in 1..n : IsSource(h, v.a[k])
      BY <1>2 DEF IsArray
    <2>2. InjectInto(h, v) = f[n]
      BY <2>1 DEF InjectInto, Filled
    <2>3. f[0] = New(h, List(<<>>)) /\ \A j \in 0..(n - 1) : f[j + 1] = InjectElement(f[j], v.a[j + 1])
      BY <2>1, FilledSteps
    <2> HIDE DEF f, n
    <2>4. 0 \in S
      <3>1. List(<<>>).t = "LIST" /\ List(<<>>).a = <<>>
        BY HashIs
      <3>2. <<>> \in Seq(Nat)
        OBVIOUS
      <3>3. IsCell(List(<<>>))
        BY <3>1, <3>2 DEF IsCell
      <3>4. /\ Injected(h, f[0].h, f[0].p) /\ f[0].h[f[0].p] = List(<<>>)
            /\ ValueAt(f[0].h, f[0].p) = List(<<>>)
        BY <2>3, <3>1, <3>3, Created, CreatedValue
      <3>5. ArrayValue(h, v, 0) = List(<<>>)
        <4>1. [k \in 1..0 |-> SourceValue(h, v.a[k])] = <<>>
          OBVIOUS
        <4> QED BY <4>1 DEF ArrayValue
      <3> QED BY <3>1, <3>4, <3>5
    <2>5. ASSUME NEW j \in S PROVE j + 1 \in S
      <3> SUFFICES ASSUME j + 1 <= n
                   PROVE  /\ Injected(h, f[j + 1].h, f[j + 1].p) /\ f[j + 1].h[f[j + 1].p].t = "LIST"
                          /\ ValueAt(f[j + 1].h, f[j + 1].p) = ArrayValue(h, v, j + 1)
        OBVIOUS
      <3>1. j \in 0..(n - 1) /\ j + 1 \in 1..n /\ j <= n
        BY <2>1
      <3>2. /\ Injected(h, f[j].h, f[j].p) /\ f[j].h[f[j].p].t = "LIST" /\ IsSource(h, v.a[j + 1])
            /\ ValueAt(f[j].h, f[j].p) = ArrayValue(h, v, j)
        BY <2>1, <3>1
      <3>3. f[j + 1] = InjectElement(f[j], v.a[j + 1])
        BY <2>3, <3>1
      <3>4. Injected(h, f[j + 1].h, f[j + 1].p) /\ f[j + 1].h[f[j + 1].p].t = "LIST"
        BY <3>2, <3>3, InjectedElement
      <3>5. ValueAt(f[j + 1].h, f[j + 1].p) = List(Append(ArrayValue(h, v, j).a, SourceValue(h, v.a[j + 1])))
        BY <3>2, <3>3, InjectedElementValue
      <3>6. ArrayValue(h, v, j + 1) = List(Append(ArrayValue(h, v, j).a, SourceValue(h, v.a[j + 1])))
        BY ArrayValueNext
      <3> QED BY <3>4, <3>5, <3>6
    <2>6. S = Nat
      <3> HIDE DEF S
      <3> QED BY <2>4, <2>5, Counting DEF S
    <2>7. ValueAt(f[n].h, f[n].p) = ArrayValue(h, v, n)
      BY <2>1, <2>6
    <2> QED BY <2>1, <2>2, <2>7 DEF InjectedValue, n
  <1> QED BY <1>1, <1>2

-----------------------------------------------------------------------------
(* An assignment: the value of the store with one place of it changed. *)

\* When setDictionaryVariable refuses, and the keys of the cell that it leaves.
LEMMA DictionaryRefused ==
  ASSUME NEW h, NEW o, NEW key, NEW t, t # Null, SetDictionaryVariable(h, o, key, t).p = Null
  PROVE  h[o].t \notin {"NIL", "HASH"}
  <1>1. CASE h[o].t = "NIL"
    BY <1>1 DEF SetDictionaryVariable, At
  <1>2. CASE h[o].t = "HASH" /\ KeyIndex(h[o], key) = {}
    <2>1. SetDictionaryVariable(h, o, key, t) =
             At([h EXCEPT ![o] = Hash(Append(h[o].s, key), Append(h[o].a, t))], t)
      BY <1>2, Zenon DEF SetDictionaryVariable
    <2> QED BY <2>1 DEF At
  <1>3. CASE h[o].t = "HASH" /\ KeyIndex(h[o], key) # {}
    BY <1>3 DEF SetDictionaryVariable, At
  <1> QED BY <1>1, <1>2, <1>3

LEMMA DictionaryKeys ==
  ASSUME NEW h, NEW o \in DOMAIN h, IsCell(h[o]), NEW key, IsStr(key), NEW t,
         NEW set, set = SetDictionaryVariable(h, o, key.s, t), set.p # Null, o \in DOMAIN set.h
  PROVE  set.h[o].s = KeysWith(h[o], key)
  <1> DEFINE v == h[o]
             old == KeyIndex(v, key.s)
             slot == CHOOSE k \in old : TRUE
             D == Delete(h, v.a[slot])
  <1>1. CASE v.t \notin {"NIL", "HASH"}
    <2>1. set = At(h, Null)
      BY <1>1 DEF SetDictionaryVariable
    <2> QED BY <1>1, <2>1 DEF At
  <1>2. CASE v.t = "NIL"
    <2>1. set.h = [h EXCEPT ![o] = Hash(<<key.s>>, <<t>>)] /\ set.p = t
      BY <1>2 DEF SetDictionaryVariable, At
    <2>2. set.h[o].s = <<key.s>>
      BY <2>1, HashIs
    <2>3. KeysWith(v, key) = <<key.s>>
      <3>1. v = Nil
        BY <1>2, CellFacts, ScalarFacts
      <3>2. v.s = <<>>
        BY <3>1 DEF Nil, Value
      <3>3. old = {}
        BY <3>2 DEF KeyIndex
      <3>4. Append(<<>>, key.s) = <<key.s>>
        OBVIOUS
      <3> QED BY <3>2, <3>3, <3>4 DEF KeysWith
    <2> QED BY <1>2, <2>1, <2>2, <2>3
  <1>3. CASE v.t = "HASH" /\ old = {}
    <2> DEFINE cell == Hash(Append(v.s, key.s), Append(v.a, t))
    <2>1. set.h = [h EXCEPT ![o] = cell] /\ set.p = t
      <3>1. set = At([h EXCEPT ![o] = cell], t)
        BY <1>3, Zenon DEF SetDictionaryVariable
      <3> QED BY <3>1 DEF At
    <2>2. cell.s = Append(v.s, key.s)
      BY DEF Hash, Value
    <2> HIDE DEF cell
    <2> QED BY <1>3, <2>1, <2>2 DEF KeysWith
  <1>4. CASE v.t = "HASH" /\ old # {}
    <2>1. set.h = [D EXCEPT ![o].a[slot] = t] /\ set.p = t
      BY <1>4 DEF SetDictionaryVariable, At
    <2>2. o \in DOMAIN D => D[o] = v
      BY DEF Delete, Without
    <2> HIDE DEF D
    <2>3. ASSUME o \in DOMAIN set.h PROVE set.h[o].s = v.s
      <3>1. o \in DOMAIN D /\ D[o] = v
        BY <2>1, <2>2, <2>3
      <3>2. set.h[o] = [v EXCEPT !.a[slot] = t]
        BY <2>1, <3>1
      <3>3. v = [t |-> v.t, n |-> v.n, s |-> v.s, a |-> v.a]
        BY CellFacts
      <3> QED BY <3>2, <3>3
    <2> QED BY <1>4, <2>1, <2>3 DEF KeysWith
  <1> QED BY <1>1, <1>2, <1>3, <1>4

\* SetVariableAt for what inject made: refused, or the value changed where the path leads.
LEMMA AssignedValue ==
  ASSUME NEW h, Sound(h), NEW v, IsSource(h, v) \/ IsArray(h, v), NEW p, IsPath(p), p # <<>>,
         NEW parent, parent = GetVariable(h, Root, Front(p)),
         parent \notin {Nothing, Just(Null)} /\ IsInt(Last(p)) => SetArrayIsDefined(h, parent[1], Last(p).n),
         NEW i, i = InjectInto(h, v), NEW set, set = SetVariableAt(i.h, Root, p, i.p)
  PROVE  \/ /\ set.p = Null /\ ValueAt(set.h, Root) = ValueAt(h, Root)
            /\ parent \in {Nothing, Just(Null)} \/ ~Fits(h[parent[1]], Last(p))
         \/ /\ set.p # Null /\ ValueAt(set.h, Root) = SetPath(ValueAt(h, Root), p, InjectedValue(h, v))
            /\ \E o \in DOMAIN h : /\ parent = Just(o)
                                   /\ Fits(h[o], Last(p)) \/ (h[o].t = "NIL" /\ IsStr(Last(p)))
  <1> DEFINE key == Last(p)
             u == InjectedValue(h, v)
  <1>1. Injected(h, i.h, i.p) /\ ValueAt(i.h, i.p) = u
    BY InjectedInto, InjectedIntoValue
  <1>2. IsPath(Front(p)) /\ IsKey(key) /\ (IsInt(key) <=> ~IsStr(key)) /\ Root \in DOMAIN h
    BY FrontFacts, KeyFacts DEF Sound, Laid
  <1>3. Grown(h, i.h) /\ Sound(i.h) /\ i.p \in DOMAIN i.h \ DOMAIN h /\ Unowned(i.h) = Unowned(h) \union {i.p}
    BY <1>1 DEF Injected, Grown
  <1>4. GetVariable(i.h, Root, Front(p)) = parent /\ ValueAt(i.h, Root) = ValueAt(h, Root)
    <2>1. GetVariable(i.h, Root, Front(p)) = parent
      BY <1>2, <1>3, GrownPath
    <2>2. ValueAt(i.h, Root) = ValueAt(h, Root)
      BY <1>2, <1>3, GrownValue
    <2> QED BY <2>1, <2>2
  <1>5. set = IF parent \in {Nothing, Just(Null)} THEN At(i.h, Null) ELSE SetElement(i.h, parent[1], key, i.p)
    BY <1>4 DEF SetVariableAt
  <1>6. parent = Nothing \/ \E c \in DOMAIN h \union {Null} : parent = Just(c)
    BY <1>2, GetInside
  <1> HIDE DEF key, u
  <1>7. CASE parent \in {Nothing, Just(Null)}
    <2>1. set.p = Null /\ set.h = i.h
      BY <1>5, <1>7 DEF At
    <2> QED BY <1>4, <1>7, <2>1
  <1>8. CASE parent \notin {Nothing, Just(Null)}
    <2>1. PICK o \in DOMAIN h : parent = Just(o)
      BY <1>6, <1>8
    <2>2. parent[1] = o
      BY <2>1 DEF Just
    <2>3. /\ o \in DOMAIN i.h /\ i.h[o] = h[o] /\ i.p > o /\ i.p \in Unowned(i.h) /\ i.p # Null
          /\ IsCell(h[o])
      BY <1>3 DEF Grown, Sound, Laid
    <2>4. CASE IsStr(key)
      <3>1. set = SetDictionaryVariable(i.h, o, key.s, i.p)
        BY <1>2, <1>5, <1>8, <2>2, <2>4 DEF SetElement
      <3>2. \/ set.p = Null /\ set.h = i.h
            \/ /\ set.p = i.p /\ (Fits(i.h[o], key) \/ i.h[o].t = "NIL")
               /\ \E cell : Placed(i.h, set.h, o, Slot(i.h, o, key), i.p, cell)
        BY <1>2, <1>3, <2>3, <2>4, <3>1, DictionarySet
      <3>3. /\ set.p = Null => i.h[o].t \notin {"NIL", "HASH"}
            /\ set.p # Null /\ o \in DOMAIN set.h => set.h[o].s = KeysWith(i.h[o], key)
        <4>1. o \in DOMAIN i.h /\ i.p # Null /\ IsCell(i.h[o])
          BY <2>3
        <4> DEFINE G == i.h
                   T == i.p
        <4>2. o \in DOMAIN G /\ T # Null /\ IsCell(G[o]) /\ set = SetDictionaryVariable(G, o, key.s, T)
          BY <3>1, <4>1
        <4> HIDE DEF G, T
        <4>3. /\ set.p = Null => G[o].t \notin {"NIL", "HASH"}
              /\ set.p # Null /\ o \in DOMAIN set.h => set.h[o].s = KeysWith(G[o], key)
          <5>1. set.p = Null => G[o].t \notin {"NIL", "HASH"}
            BY <2>4, <4>2, DictionaryRefused
          <5>2. set.p # Null /\ o \in DOMAIN set.h => set.h[o].s = KeysWith(G[o], key)
            BY <2>4, <4>2, DictionaryKeys
          <5> QED BY <5>1, <5>2
        <4> QED BY <4>3 DEF G, T
      <3>4. CASE set.p = Null /\ set.h = i.h
        <4>1. ~Fits(h[o], key)
          BY <1>2, <2>3, <2>4, <3>3, <3>4 DEF Fits
        <4> QED BY <1>4, <2>2, <3>4, <4>1 DEF key
      <3>5. CASE /\ set.p = i.p /\ (Fits(i.h[o], key) \/ i.h[o].t = "NIL")
                 /\ \E cell : Placed(i.h, set.h, o, Slot(i.h, o, key), i.p, cell)
        <4> DEFINE slot == Slot(i.h, o, key)
        <4>1. PICK cell : Placed(i.h, set.h, o, slot, i.p, cell)
          BY <3>5
        <4>2. slot = Slot(i.h, o, key)
          OBVIOUS
        <4> HIDE DEF slot
        <4>3. o \in DOMAIN set.h /\ set.h[o] = cell
          BY <1>3, <4>1, PlacedKeeps
        <4>4. cell.s = KeysWith(i.h[o], key)
          BY <2>3, <3>3, <3>5, <4>3
        <4>5. ValueAt(set.h, Root) = SetPath(ValueAt(i.h, Root), p, ValueAt(i.h, i.p))
          <5>1. GetVariable(i.h, Root, Front(p)) = Just(o) /\ slot = Slot(i.h, o, Last(p))
                /\ (Fits(i.h[o], Last(p)) \/ (i.h[o].t = "NIL" /\ IsStr(Last(p))))
                /\ (IsStr(Last(p)) => cell.s = KeysWith(i.h[o], Last(p)))
            BY <1>4, <2>1, <2>4, <3>5, <4>2, <4>4 DEF key
          <5> QED BY <1>3, <4>1, <5>1, PlacedValue
        <4> QED BY <1>1, <1>4, <2>1, <2>3, <2>4, <3>5, <4>5 DEF key, u
      <3> QED BY <3>2, <3>4, <3>5
    <2>5. CASE IsInt(key)
      <3> DEFINE copy == CreateClone(i.h, i.p)
      <3>1. set = SetArrayVariable(i.h, o, key.n, i.p)
        BY <1>5, <1>8, <2>2, <2>5 DEF SetElement
      <3>2. SetArrayIsDefined(i.h, o, key.n)
        BY <1>8, <2>2, <2>3, <2>5 DEF SetArrayIsDefined, key
      <3>3. Injected(i.h, copy.h, copy.p) /\ ValueAt(copy.h, copy.p) = u
        BY <1>1, <1>3, Cloned, ClonedValue
      <3>4. \/ set.p = Null /\ set.h = i.h /\ ~Fits(i.h[o], key)
            \/ /\ set.p = copy.p /\ Fits(i.h[o], key)
               /\ \E cell : Placed(copy.h, set.h, o, Slot(i.h, o, key), copy.p, cell)
        <4>1. Sound(i.h) /\ o \in DOMAIN i.h /\ IsKey(key) /\ i.p \in DOMAIN i.h
          BY <1>2, <1>3, <2>3
        <4> HIDE DEF copy
        <4>2. copy = CreateClone(i.h, i.p)
          BY DEF copy
        <4> QED BY <2>5, <3>1, <3>2, <4>1, <4>2, ArraySet
      <3> HIDE DEF copy
      <3>5. CASE set.p = Null /\ set.h = i.h /\ ~Fits(i.h[o], key)
        BY <1>4, <2>2, <2>3, <3>5 DEF key
      <3>6. CASE /\ set.p = copy.p /\ Fits(i.h[o], key)
                 /\ \E cell : Placed(copy.h, set.h, o, Slot(i.h, o, key), copy.p, cell)
        <4> DEFINE slot == Slot(copy.h, o, key)
                   G == copy.h
        <4>1. /\ Grown(i.h, G) /\ Sound(G) /\ G[o] = i.h[o] /\ copy.p # Null /\ Root \in DOMAIN i.h
          BY <2>3, <3>3, <1>3 DEF Injected, Grown, Sound, Laid
        <4>2. slot = Slot(i.h, o, key)
          BY <4>1 DEF Slot
        <4>3. PICK cell : Placed(G, set.h, o, slot, copy.p, cell)
          BY <3>6, <4>2
        <4>4. slot = Slot(G, o, key)
          OBVIOUS
        <4> HIDE DEF slot, G
        <4>5. GetVariable(G, Root, Front(p)) = Just(o)
          <5>1. GetVariable(G, Root, Front(p)) = GetVariable(i.h, Root, Front(p))
            BY <1>2, <1>3, <4>1, GrownPath
          <5> QED BY <1>4, <2>1, <5>1
        <4>6. ValueAt(G, Root) = ValueAt(h, Root)
          <5>1. ValueAt(G, Root) = ValueAt(i.h, Root)
            BY <1>3, <4>1, GrownValue
          <5> QED BY <1>4, <5>1
        <4>7. ValueAt(set.h, Root) = SetPath(ValueAt(G, Root), p, ValueAt(G, copy.p))
          <5>1. slot = Slot(G, o, Last(p)) /\ Fits(G[o], Last(p)) /\ ~IsStr(Last(p))
            BY <1>2, <2>5, <3>6, <4>1, <4>4 DEF key
          <5> QED BY <4>1, <4>3, <4>5, <5>1, PlacedValue
        <4>8. ValueAt(G, copy.p) = u
          BY <3>3 DEF G
        <4> QED BY <2>1, <2>3, <3>6, <4>1, <4>6, <4>7, <4>8 DEF key, u
      <3> QED BY <3>4, <3>5, <3>6
    <2> QED BY <1>2, <2>4, <2>5
  <1> QED BY <1>7, <1>8

-----------------------------------------------------------------------------
(* Where the loops are. *)

\* What is there before a step and after it is held by the same cells, and under the same keys.
Retains(h, g) ==
  /\ \A o, i, d : Holds(h, o, i, d) /\ d \in DOMAIN h /\ d \in DOMAIN g => Holds(g, o, i, d)
  /\ \A c \in DOMAIN h : c \in DOMAIN g =>
        /\ g[c].t = h[c].t \/ h[c].t = "NIL"
        /\ \A i \in DOMAIN h[c].s : i \in DOMAIN g[c].s /\ g[c].s[i] = h[c].s[i]

\* What a path that counts from the start leads to stays where it is for as long as it is there.
LEMMA RetainedPath ==
  ASSUME NEW h, Sound(h), NEW g, Sound(g), Retains(h, g), NEW q, IsPath(q), Canonical(q),
         NEW c \in DOMAIN h, c \in DOMAIN g, GetVariable(h, Root, q) = Just(c)
  PROVE  GetVariable(g, Root, q) = Just(c)
  <1> DEFINE G == {r \in PrefixesOf(q) : \A d \in DOMAIN h : d \in DOMAIN g /\ GetVariable(h, Root, r) = Just(d)
                                            => GetVariable(g, Root, r) = Just(d)}
  <1>1. Root \in DOMAIN g /\ Root \in DOMAIN h
    BY DEF Sound, Laid
  <1>2. \A r \in PrefixesOf(q) : IsPath(r) /\ Canonical(r)
    BY PrefixesAre, CanonicalPrefix
  <1>3. <<>> \in G
    BY PrefixesAre, GetNone
  <1>4. ASSUME NEW r \in PrefixesOf(q), r # <<>>, Front(r) \in G PROVE r \in G
    <2> SUFFICES ASSUME NEW d \in DOMAIN h, d \in DOMAIN g, GetVariable(h, Root, r) = Just(d)
                 PROVE  GetVariable(g, Root, r) = Just(d)
      OBVIOUS
    <2> DEFINE key == Last(r)
    <2>1. IsPath(r) /\ Canonical(r) /\ IsPath(Front(r)) /\ Canonical(Front(r)) /\ IsKey(key)
          /\ (IsInt(key) => key.n >= 0)
      BY <1>2, <1>4, FrontFacts
    <2>2. PICK e \in DOMAIN h : /\ GetVariable(h, Root, Front(r)) = Just(e) /\ Fits(h[e], key)
                                /\ IsCell(h[e]) /\ Holds(h, e, Slot(h, e, key), d)
      BY <1>1, <1>4, <2>1, LastLink
    <2> DEFINE i == Slot(h, e, key)
    <2>3. Holds(g, e, i, d) /\ e \in DOMAIN g /\ i \in DOMAIN g[e].a /\ g[e].a[i] = d
      <3>1. Holds(g, e, i, d)
        BY <2>2 DEF Retains
      <3> QED BY <3>1 DEF Holds
    <2>4. GetVariable(g, Root, Front(r)) = Just(e)
      BY <1>4, <2>2, <2>3
    <2>5. GetVariable(g, Root, r) = Element(g, e, key)
      BY <1>1, <1>4, <2>1, <2>3, <2>4, FirstLink
    <2>6. /\ IsCell(g[e]) /\ g[e].t = h[e].t
          /\ \A k \in DOMAIN h[e].s : k \in DOMAIN g[e].s /\ g[e].s[k] = h[e].s[k]
      <3>1. IsCell(g[e])
        BY <2>3 DEF Sound, Laid
      <3>2. /\ g[e].t = h[e].t \/ h[e].t = "NIL"
            /\ \A k \in DOMAIN h[e].s : k \in DOMAIN g[e].s /\ g[e].s[k] = h[e].s[k]
        BY <2>3 DEF Retains
      <3>3. h[e].t # "NIL"
        BY <2>2 DEF Fits
      <3> QED BY <3>1, <3>2, <3>3
    <2>7. Fits(g[e], key)
      BY <2>2, <2>6 DEF Fits
    <2>8. Slot(g, e, key) = i
      <3>1. CASE IsInt(key)
        <4>1. ~(key.n < 0)
          BY <2>1, <3>1, KeyFacts
        <4> QED BY <3>1, <4>1 DEF Slot
      <3>2. CASE IsStr(key)
        <4>1. i \in DOMAIN h[e].s /\ h[e].s[i] = key.s
          <5>1. i \in DOMAIN h[e].a
            BY <2>2 DEF Holds
          <5> QED BY <2>1, <2>2, <3>2, <5>1, SlotIs
        <4>2. i \in DOMAIN g[e].s /\ g[e].s[i] = key.s
          BY <2>6, <4>1
        <4> HIDE DEF i
        <4> QED BY <2>1, <2>3, <2>6, <2>7, <3>2, <4>2, SlotIs
      <3> QED BY <2>7, <3>1, <3>2 DEF Fits
    <2> HIDE DEF i, key
    <2>9. Element(g, e, key) = Just(d)
      BY <2>1, <2>3, <2>6, <2>7, <2>8, ElementIs
    <2> QED BY <2>5, <2>9
  <1>5. q \in G
    <2> HIDE DEF G
    <2> QED BY <1>3, <1>4, AlongPath
  <1> QED BY <1>5

LEMMA GrownRetains ==
  ASSUME NEW h, NEW g, Grown(h, g)
  PROVE  Retains(h, g)
  BY DEF Grown, Retains, Holds

LEMMA PlacedRetains ==
  ASSUME NEW h, Sound(h), NEW g, NEW o, NEW slot, NEW t, NEW cell, Placed(h, g, o, slot, t, cell)
  PROVE  Retains(h, g)
  <1>1. /\ DOMAIN g \subseteq DOMAIN h /\ g[o] = cell /\ \A d \in DOMAIN g \ {o} : g[d] = h[d]
        /\ \A d \in DOMAIN g : \A p, i : Holds(h, p, i, d) => Holds(g, p, i, d)
    BY PlacedKeeps
  <1>2. /\ cell.t = h[o].t \/ h[o].t = "NIL"
        /\ \A i \in DOMAIN h[o].s : i \in DOMAIN cell.s /\ cell.s[i] = h[o].s[i]
    BY DEF Placed
  <1>3. ASSUME NEW c \in DOMAIN h, c \in DOMAIN g
        PROVE  /\ g[c].t = h[c].t \/ h[c].t = "NIL"
               /\ \A i \in DOMAIN h[c].s : i \in DOMAIN g[c].s /\ g[c].s[i] = h[c].s[i]
    <2>1. CASE c = o
      BY <1>1, <1>2, <2>1
    <2>2. CASE c # o
      BY <1>1, <1>3, <2>2
    <2> QED BY <2>1, <2>2
  <1> QED BY <1>1, <1>3 DEF Retains

LEMMA AssignedRetains ==
  ASSUME NEW h, Sound(h), NEW set, NEW p, Assigned(h, set, p)
  PROVE  Retains(h, set.h)
  <1>1. CASE \E c : Injected(h, set.h, c)
    BY <1>1, GrownRetains DEF Injected
  <1>2. CASE \E g, o, slot, t, cell : Grown(h, g) /\ Placed(g, set.h, o, slot, t, cell)
    <2>1. PICK g, o, slot, t, cell : Grown(h, g) /\ Placed(g, set.h, o, slot, t, cell)
      BY <1>2
    <2>2. Sound(g) /\ DOMAIN h \subseteq DOMAIN g /\ \A c \in DOMAIN h : g[c] = h[c]
      BY <2>1 DEF Grown
    <2>3. Retains(h, g) /\ Retains(g, set.h)
      BY <2>1, <2>2, GrownRetains, PlacedRetains
    <2> HIDE DEF Holds
    <2>4. \A a, i, d : Holds(h, a, i, d) /\ d \in DOMAIN h /\ d \in DOMAIN set.h => Holds(set.h, a, i, d)
      BY <2>2, <2>3 DEF Retains
    <2>5. ASSUME NEW c \in DOMAIN h, c \in DOMAIN set.h
          PROVE  /\ set.h[c].t = h[c].t \/ h[c].t = "NIL"
                 /\ \A i \in DOMAIN h[c].s : i \in DOMAIN set.h[c].s /\ set.h[c].s[i] = h[c].s[i]
      <3>1. c \in DOMAIN g /\ g[c] = h[c]
        BY <2>2
      <3> QED BY <2>3, <2>5, <3>1 DEF Retains
    <2> QED BY <2>4, <2>5 DEF Retains
  <1> QED BY <1>1, <1>2 DEF Assigned

\* The path of a loop is one of the templates', its negative indexes counted from the start.
Matches(q, p) ==
  /\ Len(q) = Len(p)
  /\ \A k \in 1..Len(p) : q[k] = p[k] \/ (IsInt(q[k]) /\ IsInt(p[k]) /\ p[k].n < 0)

\* A loop's list, for as long as it is there, is at the end of its path, and the element at its place in the list.
LoopFound(h, f) ==
  /\ \E p \in Paths : Matches(f.path, p)
  /\ f.seq \in DOMAIN h => GetVariable(h, Root, f.path) = Just(f.seq)
  /\ f.elem \in DOMAIN h => Holds(h, f.seq, f.at, f.elem)

LoopsFound == \A k \in DOMAIN loops : LoopFound(heap, loops[k])

LEMMA FromStartMatches ==
  ASSUME NEW h, NEW p, IsPath(p), Len(FromStart(h, p)) = Len(p)
  PROVE  Matches(FromStart(h, p), p)
  <1>1. Len(p) \in Nat /\ DOMAIN p = 1..Len(p)
    BY PathFacts
  <1>2. ASSUME NEW k \in 1..Len(p)
        PROVE  \/ FromStart(h, p)[k] = p[k]
               \/ IsInt(FromStart(h, p)[k]) /\ IsInt(p[k]) /\ p[k].n < 0
    <2> DEFINE X == GetVariable(h, Root, SubSeq(p, 1, k - 1))
    <2>1. FromStart(h, p)[k] = Straightened(h, X, p[k])
      BY <1>1, FromStartIs
    <2> HIDE DEF X
    <2>2. Straightened(h, X, p[k]) = p[k]
          \/ \E n : Straightened(h, X, p[k]) = Num(n) /\ IsInt(p[k]) /\ p[k].n < 0
      BY DEF Straightened, Straight
    <2>3. \A n : IsInt(Num(n))
      BY DEF IsInt, Num, Value
    <2> QED BY <2>1, <2>2, <2>3
  <1> QED BY <1>2 DEF Matches

LEMMA TagFinds ==
  ASSUME VariablesInv, LoopsFound, NEW op, NEW path, NEW plain, NEW set, Tag(op, path, plain, set),
         Sound(set.h), Retains(heap, set.h)
  PROVE  LoopsFound'
  <1> DEFINE start == IF set.p = Null THEN <<>> ELSE FromStart(heap, path)
             Next1(f) == [f EXCEPT !.seq = StillThere(set.h, @), !.elem = StillThere(set.h, @),
                              !.replaced = @ \/ (start # <<>> /\ IsPrefix(start, f.path)),
                              !.touched = @ \/ (start # <<>> /\ (IsPrefix(start, f.path) \/ IsPrefix(f.path, start)))]
  <1>1. heap' = set.h /\ loops' = [k \in DOMAIN loops |-> Next1(loops[k])]
    BY DEF Tag, LoopsAfter
  <1>2. Sound(heap) /\ Null \notin DOMAIN set.h /\ Dangling \notin DOMAIN set.h
        /\ Null \notin DOMAIN heap /\ Dangling \notin DOMAIN heap
    <2>1. Sound(heap) /\ Dangling \notin Nat
      BY DEF VariablesInv, Dangling
    <2> QED BY <2>1 DEF Sound, Laid
  <1>3. ASSUME NEW f, LoopSound(heap, f), LoopFound(heap, f) PROVE LoopFound(set.h, Next1(f))
    <2> DEFINE g == Next1(f)
    <2>1. /\ f = [path |-> f.path, seq |-> f.seq, at |-> f.at, end |-> f.end, elem |-> f.elem,
                  replaced |-> f.replaced, touched |-> f.touched]
          /\ IsPath(f.path) /\ Canonical(f.path)
      BY <1>3 DEF LoopSound
    <2>2. /\ g.path = f.path /\ g.at = f.at /\ g.seq = StillThere(set.h, f.seq)
          /\ g.elem = StillThere(set.h, f.elem)
      BY <2>1
    <2> HIDE DEF g
    <2>3. f.seq \in DOMAIN heap \union {Dangling} /\ f.elem \in DOMAIN heap \union {Null, Dangling}
      BY <1>3 DEF LoopSound
    <2>4. g.seq \in DOMAIN set.h => g.seq = f.seq /\ f.seq \in DOMAIN heap
      BY <1>2, <2>2, <2>3 DEF StillThere
    <2>5. g.elem \in DOMAIN set.h => g.elem = f.elem /\ f.elem \in DOMAIN heap
      BY <1>2, <2>2, <2>3 DEF StillThere
    <2>6. g.seq \in DOMAIN set.h => GetVariable(set.h, Root, g.path) = Just(g.seq)
      <3> SUFFICES ASSUME g.seq \in DOMAIN set.h PROVE GetVariable(set.h, Root, f.path) = Just(f.seq)
        BY <2>2, <2>4
      <3>1. f.seq \in DOMAIN heap /\ f.seq \in DOMAIN set.h /\ GetVariable(heap, Root, f.path) = Just(f.seq)
        BY <1>3, <2>4 DEF LoopFound
      <3> QED BY <1>2, <2>1, <3>1, RetainedPath
    <2>7. g.elem \in DOMAIN set.h => Holds(set.h, g.seq, g.at, g.elem)
      <3> SUFFICES ASSUME g.elem \in DOMAIN set.h PROVE Holds(set.h, g.seq, f.at, f.elem)
        BY <2>2, <2>5
      <3>1. Holds(heap, f.seq, f.at, f.elem) /\ f.elem \in DOMAIN heap /\ f.elem \in DOMAIN set.h
        BY <1>3, <2>5 DEF LoopFound
      <3>2. Holds(set.h, f.seq, f.at, f.elem)
        BY <3>1 DEF Retains
      <3>3. g.seq = f.seq
        BY <2>2, <3>2 DEF Holds, StillThere
      <3> QED BY <3>2, <3>3
    <2>8. \E p \in Paths : Matches(g.path, p)
      BY <1>3, <2>2 DEF LoopFound
    <2>9. LoopFound(set.h, g)
      BY <2>6, <2>7, <2>8 DEF LoopFound
    <2> QED BY <2>9 DEF g
  <1> HIDE DEF Next1
  <1>4. \A k \in DOMAIN loops : LoopSound(heap, loops[k]) /\ LoopFound(heap, loops[k])
    BY DEF VariablesInv, LoopsFound
  <1>5. DOMAIN loops' = DOMAIN loops /\ \A k \in DOMAIN loops : loops'[k] = Next1(loops[k])
    BY <1>1
  <1>6. \A k \in DOMAIN loops' : LoopFound(heap', loops'[k])
    BY <1>1, <1>3, <1>4, <1>5
  <1> QED BY <1>6 DEF LoopsFound

LEMMA EnterLoopFinds ==
  ASSUME VariablesInv, LoopsFound, NEW path \in Paths, EnterLoop(path)
  PROVE  LoopsFound'
  <1> DEFINE found == GetVariable(heap, Root, path)
             start == FromStart(heap, path)
             f == [path |-> start, seq |-> found[1], at |-> 1, end |-> Len(heap[found[1]].a),
                   elem |-> heap[found[1]].a[1], replaced |-> FALSE, touched |-> FALSE]
  <1>1. /\ found \notin {Nothing, Just(Null)} /\ heap[found[1]].t = "LIST" /\ heap[found[1]].a # <<>>
        /\ loops' = Append(loops, f) /\ heap' = heap
    BY DEF EnterLoop
  <1>2. IsPath(path) /\ Sound(heap) /\ Root \in DOMAIN heap /\ loops \in Seq(Range(loops))
    BY PathsAre DEF VariablesInv, Sound, Laid
  <1>3. PICK c \in DOMAIN heap : found = Just(c)
    BY <1>1, <1>2, GetInside
  <1>4. found[1] = c
    BY <1>3 DEF Just
  <1>5. heap[c].a \in Seq(Nat) /\ heap[c].a # <<>>
    BY <1>1, <1>2, <1>4, CellFacts DEF Sound, Laid
  <1>6. Holds(heap, c, 1, heap[c].a[1])
    <2>1. 1 \in DOMAIN heap[c].a
      BY <1>5
    <2> QED BY <2>1 DEF Holds
  <1>7. Matches(start, path) /\ GetVariable(heap, Root, start) = Just(c)
    <2>1. Len(start) = Len(path)
      BY <1>2, FromStartPath
    <2>2. Matches(start, path)
      BY <1>2, <2>1, FromStartMatches
    <2> QED BY <1>1, <1>2, <1>3, <2>2, FromStartLeads
  <1> HIDE DEF start, found
  <1>8. LoopFound(heap, f)
    <2>1. f.path = start /\ f.seq = c /\ f.at = 1 /\ f.elem = heap[c].a[1]
      BY <1>4
    <2> HIDE DEF f
    <2> QED BY <1>6, <1>7, <2>1 DEF LoopFound
  <1> HIDE DEF f
  <1>9. \A k \in DOMAIN loops' : loops'[k] = f \/ \E j \in DOMAIN loops : loops'[k] = loops[j]
    BY <1>1, <1>2, LoopsAppended
  <1> QED BY <1>1, <1>8, <1>9 DEF LoopsFound

LEMMA NextElementFinds ==
  ASSUME VariablesInv, LoopsFound, NextElement
  PROVE  LoopsFound'
  <1> DEFINE f == Last(loops)
             g == [f EXCEPT !.at = @ + 1, !.elem = heap[f.seq].a[f.at + 1], !.touched = f.replaced]
             front == Front(loops)
  <1>1. /\ loops # <<>> /\ f.at < f.end /\ f.seq # Dangling
        /\ loops' = Append(front, g) /\ heap' = heap
    BY DEF NextElement
  <1>2. Sound(heap) /\ loops \in Seq(Range(loops))
    BY DEF VariablesInv
  <1>3. /\ front \in Seq(Range(front)) /\ \E j \in DOMAIN loops : f = loops[j]
        /\ \A k \in DOMAIN front : \E j \in DOMAIN loops : front[k] = loops[j]
    BY <1>1, <1>2, LoopsFront
  <1>4. LoopSound(heap, f) /\ LoopFound(heap, f)
    BY <1>3 DEF VariablesInv, LoopsFound
  <1> HIDE DEF f, front
  <1>5. /\ f = [path |-> f.path, seq |-> f.seq, at |-> f.at, end |-> f.end, elem |-> f.elem,
                replaced |-> f.replaced, touched |-> f.touched]
        /\ f.at \in Nat /\ f.end \in Nat
        /\ f.seq \in DOMAIN heap /\ heap[f.seq].t = "LIST" /\ Len(heap[f.seq].a) >= f.end
    BY <1>1, <1>4 DEF LoopSound
  <1>6. heap[f.seq].a \in Seq(Nat)
    BY <1>2, <1>5, CellFacts DEF Sound, Laid
  <1>7. f.at + 1 \in DOMAIN heap[f.seq].a
    <2>1. /\ f.at \in Nat /\ f.end \in Nat /\ Len(heap[f.seq].a) \in Nat
          /\ f.at < f.end /\ Len(heap[f.seq].a) >= f.end
      BY <1>1, <1>5, <1>6
    <2>2. f.at + 1 \in 1..Len(heap[f.seq].a)
      BY <2>1
    <2> QED BY <1>6, <2>2
  <1>8. /\ g.path = f.path /\ g.seq = f.seq /\ g.at = f.at + 1 /\ g.elem = heap[f.seq].a[f.at + 1]
    <2> DEFINE e == heap[f.seq].a[f.at + 1]
               n == f.at + 1
    <2>1. g = [f EXCEPT !.at = n, !.elem = e, !.touched = f.replaced]
      OBVIOUS
    <2> HIDE DEF e, n, g
    <2>2. g.path = f.path /\ g.seq = f.seq /\ g.at = n /\ g.elem = e
      BY <1>5, <2>1
    <2> QED BY <2>2 DEF e, n
  <1> HIDE DEF g
  <1>9. LoopFound(heap, g)
    <2>1. Holds(heap, g.seq, g.at, g.elem)
      BY <1>5, <1>7, <1>8 DEF Holds
    <2>2. (\E p \in Paths : Matches(g.path, p)) /\ GetVariable(heap, Root, g.path) = Just(g.seq)
      BY <1>4, <1>5, <1>8 DEF LoopFound
    <2> QED BY <2>1, <2>2 DEF LoopFound
  <1>10. \A k \in DOMAIN loops' : loops'[k] = g \/ \E j \in DOMAIN front : loops'[k] = front[j]
    BY <1>1, <1>3, LoopsAppended
  <1> QED BY <1>1, <1>3, <1>9, <1>10 DEF LoopsFound

LEMMA LeaveLoopFinds ==
  ASSUME VariablesInv, LoopsFound, LeaveLoop
  PROVE  LoopsFound'
  <1>1. loops # <<>> /\ loops' = Front(loops) /\ heap' = heap /\ loops \in Seq(Range(loops))
    BY DEF LeaveLoop, VariablesInv
  <1>2. \A k \in DOMAIN loops' : \E j \in DOMAIN loops : loops'[k] = loops[j]
    BY <1>1, LoopsFront
  <1> QED BY <1>1, <1>2 DEF LoopsFound

-----------------------------------------------------------------------------
(* What the abstract store reads and assigns. *)

LeadsTo(x, key) ==
  IF IsInt(key) /\ key.n < 0 /\ x.t = "LIST" THEN Range(x.a) ELSE Range(Get(x, key))

Places(obj, keys) == CHOOSE f : f = [k \in 0..Len(keys) |-> IF k = 0 THEN {obj} ELSE UNION {LeadsTo(y, keys[k]) : y \in f[k - 1]}]

LEMMA PlacesDef ==
  ASSUME NEW obj, NEW keys, Len(keys) \in Nat
  PROVE  Places(obj, keys) = [k \in 0..Len(keys) |-> IF k = 0 THEN {obj} ELSE UNION {LeadsTo(y, keys[k]) : y \in Places(obj, keys)[k - 1]}]
  <1> DEFINE Step(x, k) == UNION {LeadsTo(y, keys[k]) : y \in x}
             Is(f, n) == f = [k \in 0..n |-> IF k = 0 THEN {obj} ELSE Step(f[k - 1], k)]
             S == {n \in Nat : \E f : Is(f, n)}
  <1>0. \A f : Is(f, Len(keys)) <=> f = [k \in 0..Len(keys) |-> IF k = 0 THEN {obj} ELSE UNION {LeadsTo(y, keys[k]) : y \in f[k - 1]}]
    OBVIOUS
  <1> HIDE DEF Step
  <1>1. 0 \in S
    <2>1. Is([k \in 0..0 |-> {obj}], 0)
      OBVIOUS
    <2> QED BY <2>1
  <1>2. ASSUME NEW n \in S PROVE n + 1 \in S
    <2>1. PICK f : Is(f, n)
      OBVIOUS
    <2> DEFINE g == [k \in 0..(n + 1) |-> IF k <= n THEN f[k] ELSE Step(f[n], n + 1)]
    <2>2. ASSUME NEW k \in 0..(n + 1)
          PROVE  g[k] = IF k = 0 THEN {obj} ELSE Step(g[k - 1], k)
      <3>1. CASE k = 0
        BY <2>1, <3>1
      <3>2. CASE k # 0 /\ k <= n
        <4>1. k - 1 \in 0..n /\ k \in 0..n /\ k - 1 \in 0..(n + 1) /\ k - 1 <= n
          BY <3>2
        <4>2. g[k] = f[k] /\ g[k - 1] = f[k - 1]
          BY <3>2, <4>1
        <4>3. f[k] = Step(f[k - 1], k)
          BY <2>1, <3>2, <4>1
        <4> QED BY <3>2, <4>2, <4>3
      <3>3. CASE k = n + 1
        <4>1. k # 0 /\ k - 1 = n /\ n \in 0..(n + 1) /\ n <= n /\ ~(k <= n)
          BY <3>3
        <4>2. g[k] = Step(f[n], k) /\ g[n] = f[n]
          BY <3>3, <4>1
        <4> QED BY <4>1, <4>2
      <3> QED BY <3>1, <3>2, <3>3
    <2>3. Is(g, n + 1)
      <3>1. g = [k \in 0..(n + 1) |-> g[k]]
        OBVIOUS
      <3> HIDE DEF g
      <3> QED BY <2>2, <3>1
    <2> HIDE DEF g, Is
    <2> QED BY <2>3
  <1> HIDE DEF Is
  <1>3. S = Nat
    <2> HIDE DEF S
    <2> QED BY <1>1, <1>2, Counting DEF S
  <1>4. PICK f : Is(f, Len(keys))
    BY <1>3
  <1>5. f = [k \in 0..Len(keys) |-> IF k = 0 THEN {obj} ELSE UNION {LeadsTo(y, keys[k]) : y \in f[k - 1]}]
    BY <1>0, <1>4
  <1> QED BY <1>5 DEF Places

LEMMA PlacesSteps ==
  ASSUME NEW obj, NEW keys, Len(keys) \in Nat
  PROVE  /\ Places(obj, keys)[0] = {obj}
         /\ \A j \in 0..(Len(keys) - 1) : Places(obj, keys)[j + 1] = UNION {LeadsTo(y, keys[j + 1]) : y \in Places(obj, keys)[j]}
  <1> DEFINE n == Len(keys)
             f == Places(obj, keys)
             Step(x, k) == UNION {LeadsTo(y, keys[k]) : y \in x}
  <1>1. f = [k \in 0..n |-> IF k = 0 THEN {obj} ELSE Step(f[k - 1], k)]
    BY PlacesDef
  <1>0. n \in Nat
    OBVIOUS
  <1>9. \A x, k : Step(x, k) = UNION {LeadsTo(y, keys[k]) : y \in x}
    OBVIOUS
  <1> HIDE DEF f, n, Step
  <1>2. f[0] = {obj}
    <2>1. 0 \in 0..n
      BY <1>0
    <2> QED BY <1>1, <2>1
  <1>3. ASSUME NEW j \in 0..(n - 1) PROVE f[j + 1] = Step(f[j], j + 1)
    <2> DEFINE i == j + 1
    <2>1. i \in 0..n /\ i # 0 /\ i - 1 = j
      BY <1>0
    <2> HIDE DEF i
    <2>2. f[i] = Step(f[i - 1], i)
      BY <1>1, <2>1, Zenon
    <2> QED BY <2>1, <2>2 DEF i
  <1> QED BY <1>2, <1>3, <1>9 DEF f, n

LEMMA AbstractElementsAt ==
  ASSUME NEW obj, NEW keys
  PROVE  Abstract!ElementsAt(obj, keys) = UNION {Range(x.a) : x \in Places(obj, keys)[Len(keys)]}
  BY DEF Abstract!ElementsAt, Abstract!Leads, Abstract!Range, Abstract!Get, Abstract!GetArray, Abstract!GetDictionary,
         Abstract!IsInt, Abstract!IsStr, Abstract!Just, Abstract!Nothing, Abstract!KeyIndex,
         Places, LeadsTo, Range, Get, GetArray, GetDictionary, IsInt, IsStr, Just, Nothing, KeyIndex

LEMMA AbstractRead ==
  ASSUME NEW obj, NEW keys
  PROVE  Abstract!Read(obj, keys) = JsonAt(obj, keys)
  BY DEF Abstract!Read, Abstract!GetPath, Abstract!Get, Abstract!GetArray, Abstract!GetDictionary, Abstract!Nil, Abstract!Value,
         Abstract!IsInt, Abstract!IsStr, Abstract!Just, Abstract!Nothing, Abstract!KeyIndex,
         JsonAt, GetPath, Get, GetArray, GetDictionary, Nil, Value, IsInt, IsStr, Just, Nothing, KeyIndex

LEMMA AbstractSetPath ==
  ASSUME NEW obj, NEW keys, NEW v
  PROVE  Abstract!SetPath(obj, keys, v) = SetPath(obj, keys, v)
  BY DEF Abstract!SetPath, Abstract!SetAt, Abstract!SetDictionary, Abstract!SetArray, Abstract!GetPath, Abstract!Get,
         Abstract!GetArray, Abstract!GetDictionary, Abstract!IsInt, Abstract!IsStr, Abstract!Just, Abstract!Nothing,
         Abstract!KeyIndex, Abstract!Hash, Abstract!List, Abstract!Nil, Abstract!Value, Abstract!Front, Abstract!Max,
         SetPath, SetAt, SetDictionary, SetArray, GetPath, Get, GetArray, GetDictionary, IsInt, IsStr, Just, Nothing,
         KeyIndex, Hash, List, Nil, Value, Front, Max

LEMMA PlacesNext ==
  ASSUME NEW obj, NEW keys, Len(keys) \in Nat, NEW j \in 0..(Len(keys) - 1), NEW x \in Places(obj, keys)[j],
         NEW y \in LeadsTo(x, keys[j + 1])
  PROVE  y \in Places(obj, keys)[j + 1]
  <1>1. Places(obj, keys)[j + 1] = UNION {LeadsTo(z, keys[j + 1]) : z \in Places(obj, keys)[j]}
    BY PlacesSteps
  <1> QED BY <1>1

\* One link of a path, whose index was counted from the start or not.
LEMMA LinkLeads ==
  ASSUME NEW h, Sound(h), NEW d \in DOMAIN h, NEW x, IsKey(x), NEW key, IsKey(key),
         x = key \/ (IsInt(x) /\ IsInt(key) /\ key.n < 0),
         NEW c \in DOMAIN h, Fits(h[d], x), Holds(h, d, Slot(h, d, x), c)
  PROVE  ValueAt(h, c) \in LeadsTo(ValueAt(h, d), key)
  <1> DEFINE v == ValueAt(h, d)
             u == ValueAt(h, c)
             i == Slot(h, d, x)
  <1>1. /\ v.t = h[d].t /\ i \in DOMAIN h[d].a /\ h[d].a[i] = c /\ v.a[i] = u
        /\ DOMAIN h[d].a = DOMAIN v.a /\ IsCell(h[d])
    <2>1. i \in DOMAIN h[d].a /\ h[d].a[i] = c
      BY DEF Holds
    <2>2. v.t = h[d].t /\ v.a[i] = u /\ DOMAIN h[d].a = 1..Len(h[d].a)
      BY <2>1, ValueFacts
    <2>3. v.a = [k \in 1..Len(h[d].a) |-> v.a[k]]
      BY ValueShape
    <2> HIDE DEF v
    <2>4. DOMAIN v.a = 1..Len(h[d].a)
      BY <2>3
    <2> QED BY <2>1, <2>2, <2>4 DEF Sound, Laid
  <1>2. Get(v, key) = Image(h, Element(h, d, key))
    BY ElementValue
  <1> HIDE DEF v, u
  <1>3. CASE IsInt(key) /\ key.n < 0
    <2>1. v.t = "LIST"
      BY <1>1, <1>3, KeyFacts DEF Fits
    <2>2. u \in Range(v.a)
      BY <1>1 DEF Range
    <2> QED BY <1>3, <2>1, <2>2 DEF LeadsTo, v, u
  <1>4. CASE ~(IsInt(key) /\ key.n < 0)
    <2>1. Element(h, d, key) = Just(c)
      BY <1>1, <1>4, ElementIs
    <2>2. Get(v, key) = Just(u)
      BY <1>2, <2>1, JustFacts DEF Image, u
    <2>3. u \in Range(Just(u))
      BY DEF Range, Just
    <2> QED BY <1>4, <2>2, <2>3 DEF LeadsTo, v, u
  <1> QED BY <1>3, <1>4

\* An element of the list that a path of the templates leads to, from the start or not.
LEMMA ElementAmong ==
  ASSUME NEW h, Sound(h), NEW q, IsPath(q), NEW p, IsPath(p), Matches(q, p),
         NEW c, GetVariable(h, Root, q) = Just(c), NEW i, NEW e \in DOMAIN h, Holds(h, c, i, e)
  PROVE  ValueAt(h, e) \in Abstract!ElementsAt(ValueAt(h, Root), p)
  <1> DEFINE v == ValueAt(h, Root)
             G == {r \in PrefixesOf(q) : \A d \in DOMAIN h : GetVariable(h, Root, r) = Just(d)
                                            => ValueAt(h, d) \in Places(v, p)[Len(r)]}
  <1>1. /\ Root \in DOMAIN h /\ Len(p) \in Nat /\ Len(q) = Len(p)
        /\ \A k \in 1..Len(p) : q[k] = p[k] \/ (IsInt(q[k]) /\ IsInt(p[k]) /\ p[k].n < 0)
        /\ \A k \in 1..Len(p) : IsKey(q[k]) /\ IsKey(p[k])
    <2>1. Root \in DOMAIN h /\ Len(p) \in Nat /\ DOMAIN p = 1..Len(p) /\ DOMAIN q = 1..Len(q)
      BY PathFacts DEF Sound, Laid
    <2> QED BY <2>1 DEF Matches, IsPath
  <1>2. <<>> \in G
    <2>1. Places(v, p)[0] = {v} /\ Len(<<>>) = 0
      BY <1>1, PlacesSteps
    <2>2. GetVariable(h, Root, <<>>) = Just(Root) /\ <<>> \in PrefixesOf(q)
      BY PrefixesAre, GetNone
    <2>3. \A d : Just(Root) = Just(d) => d = Root
      BY JustFacts
    <2> QED BY <2>1, <2>2, <2>3
  <1> HIDE DEF v
  <1>3. ASSUME NEW r \in PrefixesOf(q), r # <<>>, Front(r) \in G PROVE r \in G
    <2> SUFFICES ASSUME NEW d \in DOMAIN h, GetVariable(h, Root, r) = Just(d)
                 PROVE  ValueAt(h, d) \in Places(v, p)[Len(r)]
      OBVIOUS
    <2>1. PICK n \in 0..Len(q) : r = SubSeq(q, 1, n)
      BY DEF PrefixesOf
    <2>2. Len(r) = n /\ n \in 0..Len(p) /\ IsPath(r) /\ \A k \in 1..n : r[k] = q[k]
      BY <1>1, <2>1, PathFacts
    <2> DEFINE m == n - 1
    <2>3. /\ m \in 0..(Len(p) - 1) /\ m + 1 = n /\ Len(Front(r)) = m /\ Last(r) = q[m + 1] /\ m + 1 \in 1..Len(p)
      <3>1. /\ Len(r) - 1 \in Nat /\ (Len(r) - 1) + 1 = Len(r) /\ Len(Front(r)) = Len(r) - 1
            /\ Last(r) = r[(Len(r) - 1) + 1]
        BY <1>3, <2>2, FrontFacts
      <3>2. m \in Nat /\ m + 1 = n /\ n \in 1..n /\ n \in 1..Len(p) /\ m \in 0..(Len(p) - 1)
        BY <1>1, <2>2, <3>1
      <3> QED BY <2>2, <3>1, <3>2
    <2> HIDE DEF m
    <2>4. PICK b \in DOMAIN h : /\ GetVariable(h, Root, Front(r)) = Just(b) /\ Fits(h[b], Last(r)) /\ IsCell(h[b])
                                /\ Holds(h, b, Slot(h, b, Last(r)), d)
      BY <1>1, <1>3, <2>2, LastLink
    <2>5. ValueAt(h, b) \in Places(v, p)[m]
      BY <1>3, <2>3, <2>4
    <2>6. ValueAt(h, d) \in LeadsTo(ValueAt(h, b), p[m + 1])
      <3>1. /\ IsKey(q[m + 1]) /\ IsKey(p[m + 1])
            /\ q[m + 1] = p[m + 1] \/ (IsInt(q[m + 1]) /\ IsInt(p[m + 1]) /\ p[m + 1].n < 0)
            /\ Fits(h[b], q[m + 1]) /\ Holds(h, b, Slot(h, b, q[m + 1]), d)
        BY <1>1, <2>3, <2>4
      <3> DEFINE x == q[m + 1]
                 key == p[m + 1]
      <3>2. /\ IsKey(x) /\ IsKey(key) /\ (x = key \/ (IsInt(x) /\ IsInt(key) /\ key.n < 0))
            /\ Fits(h[b], x) /\ Holds(h, b, Slot(h, b, x), d)
        BY <3>1
      <3> HIDE DEF x, key
      <3>3. ValueAt(h, d) \in LeadsTo(ValueAt(h, b), key)
        BY <3>2, LinkLeads
      <3> QED BY <3>3 DEF key
    <2> QED BY <1>1, <2>2, <2>3, <2>5, <2>6, PlacesNext
  <1>4. q \in G
    <2> HIDE DEF G
    <2> QED BY <1>2, <1>3, AlongPath
  <1>5. c \in DOMAIN h /\ ValueAt(h, c) \in Places(v, p)[Len(p)]
    <2>1. c \in DOMAIN h
      BY DEF Holds
    <2> QED BY <1>1, <1>4, <2>1
  <1>6. ValueAt(h, e) \in Range(ValueAt(h, c).a)
    <2>1. i \in DOMAIN h[c].a /\ h[c].a[i] = e
      BY DEF Holds
    <2>2. ValueAt(h, c).a[i] = ValueAt(h, e) /\ DOMAIN h[c].a = 1..Len(h[c].a)
      BY <1>5, <2>1, ValueFacts
    <2> DEFINE w == ValueAt(h, c)
    <2>3. w.a = [k \in 1..Len(h[c].a) |-> w.a[k]]
      BY <1>5, ValueShape
    <2> HIDE DEF w
    <2>4. DOMAIN w.a = 1..Len(h[c].a)
      BY <2>3
    <2>5. i \in DOMAIN w.a /\ w.a[i] = ValueAt(h, e)
      BY <2>1, <2>2, <2>4 DEF w
    <2> QED BY <2>5 DEF w, Range
  <1> QED BY <1>5, <1>6, AbstractElementsAt DEF v

-----------------------------------------------------------------------------
(* The values that a tag takes. *)

LEMMA ParsedValue ==
  ASSUME NEW h, Sound(h), NEW c \in DOMAIN h
  PROVE  SourceValue(h, ParseCell(h, c)) = ValueAt(h, c)
  <1>1. CASE h[c].t \in {"LIST", "HASH"}
    <2>1. ParseCell(h, c).t = "VAR" /\ ParseCell(h, c).n = c
      BY <1>1 DEF ParseCell, Pointer, Value
    <2> QED BY <2>1 DEF SourceValue
  <1>2. CASE h[c].t \notin {"LIST", "HASH"}
    <2> DEFINE x == [i \in DOMAIN h[c].a |-> ValueAt(h, h[c].a[i])]
    <2>1. IsCell(h[c]) /\ h[c].a = <<>> /\ IsScalar(h[c])
      BY <1>2, CellFacts DEF Sound, Laid
    <2>2. ValueAt(h, c) = OfCell(h[c], x)
      BY ValueIs
    <2>3. x = <<>>
      <3>1. DOMAIN h[c].a = {}
        BY <2>1
      <3> QED BY <3>1
    <2> HIDE DEF x
    <2>4. h[c] = [t |-> h[c].t, n |-> h[c].n, s |-> h[c].s, a |-> h[c].a] /\ h[c].t # "VAR"
      BY <2>1, ScalarFacts
    <2>5. OfCell(h[c], <<>>) = h[c]
      BY <2>1, <2>4 DEF OfCell
    <2>6. SourceValue(h, ParseCell(h, c)) = h[c]
      BY <1>2, <2>4 DEF SourceValue, ParseCell
    <2> QED BY <2>2, <2>3, <2>5, <2>6
  <1> QED BY <1>1, <1>2

\* What is at a path, in the value of the store.
LEMMA JsonAtIs ==
  ASSUME NEW h, Sound(h), NEW p, IsPath(p)
  PROVE  LET found == GetVariable(h, Root, p)
         IN  JsonAt(ValueAt(h, Root), p) = IF found = Nothing THEN Nil ELSE ValueAt(h, found[1])
  <1> DEFINE found == GetVariable(h, Root, p)
             v == ValueAt(h, Root)
  <1>1. GetPath(v, p) = Image(h, found)
    BY PathValue DEF Sound, Laid
  <1> HIDE DEF found, v
  <1>2. JsonAt(v, p) = IF Image(h, found) = Nothing THEN Nil ELSE Image(h, found)[1]
    BY <1>1 DEF JsonAt
  <1>3. JsonAt(v, p) = IF found = Nothing THEN Nil ELSE ValueAt(h, found[1])
    BY <1>2, JustFacts DEF Image
  <1> QED BY <1>3 DEF found, v

LEMMA ReadValue ==
  ASSUME NEW h, Sound(h), NEW p, IsPath(p), Readable(h, p)
  PROVE  SourceValue(h, ReadVariable(h, p)) = JsonAt(ValueAt(h, Root), p)
  <1> DEFINE found == GetVariable(h, Root, p)
  <1>1. JsonAt(ValueAt(h, Root), p) = IF found = Nothing THEN Nil ELSE ValueAt(h, found[1])
    BY JsonAtIs
  <1>2. ReadVariable(h, p) = IF found = Nothing THEN Nil ELSE ParseCell(h, found[1])
    BY DEF ReadVariable
  <1>3. found = Nothing \/ \E c \in DOMAIN h : found = Just(c)
    <2>1. Root \in DOMAIN h /\ found # Just(Null)
      BY DEF Sound, Laid, Readable
    <2>2. found = Nothing \/ \E c \in DOMAIN h \union {Null} : found = Just(c)
      BY <2>1, GetInside
    <2> QED BY <2>1, <2>2
  <1> HIDE DEF found
  <1>4. CASE found = Nothing
    <2>1. SourceValue(h, Nil) = Nil
      BY DEF SourceValue, Nil, Value
    <2> QED BY <1>1, <1>2, <1>4, <2>1
  <1>5. CASE found # Nothing
    <2>1. PICK c \in DOMAIN h : found = Just(c)
      BY <1>3, <1>5
    <2>2. found[1] = c
      BY <2>1, JustFacts
    <2> QED BY <1>1, <1>2, <1>5, <2>2, ParsedValue
  <1> QED BY <1>4, <1>5

\* The variable of a loop that is there.
LEMMA LoopElement ==
  ASSUME VariablesInv, LoopsFound, NEW k \in DOMAIN loops, loops[k].elem \notin {Null, Dangling},
         NEW f, f = loops[k]
  PROVE  /\ f.elem \in DOMAIN heap /\ f.seq \in DOMAIN heap /\ heap[f.seq].t = "LIST"
         /\ IsPath(f.path) /\ GetVariable(heap, Root, f.path) = Just(f.seq)
         /\ Holds(heap, f.seq, f.at, f.elem)
         /\ \E p \in Paths : Matches(f.path, p)
  <1>1. LoopSound(heap, f) /\ LoopFound(heap, f)
    BY DEF VariablesInv, LoopsFound
  <1>2. f.elem \in DOMAIN heap /\ IsPath(f.path)
    BY <1>1 DEF LoopSound
  <1>3. Holds(heap, f.seq, f.at, f.elem)
    BY <1>1, <1>2 DEF LoopFound
  <1>4. f.seq \in DOMAIN heap
    BY <1>3 DEF Holds
  <1>5. heap[f.seq].t = "LIST" /\ GetVariable(heap, Root, f.path) = Just(f.seq)
    BY <1>1, <1>4 DEF LoopSound, LoopFound
  <1>6. \E p \in Paths : Matches(f.path, p)
    BY <1>1 DEF LoopFound
  <1> QED BY <1>2, <1>3, <1>4, <1>5, <1>6

LEMMA ValueAssignable ==
  ASSUME VariablesInv, LoopsFound, NEW src \in Sources, IsDefined(src)
  PROVE  SourceValue(heap, ValueOf(src)) \in Abstract!Assignable(ValueAt(heap, Root))
  <1> DEFINE obj == ValueAt(heap, Root)
  <1>1. \/ src.from = "literal" /\ src.v \in Literals
        \/ src.from = "path" /\ src.path \in Paths
        \/ src.from = "loop" /\ src.loop \in DOMAIN loops
    BY DEF Sources
  <1>2. Sound(heap)
    BY DEF VariablesInv
  <1> HIDE DEF obj
  <1>3. CASE src.from = "literal" /\ src.v \in Literals
    <2>1. ValueOf(src) = src.v
      BY <1>3 DEF ValueOf
    <2>2. IsScalar(src.v)
      BY <1>3, VariablesAssumption
    <2>3. SourceValue(heap, src.v) = src.v
      BY <2>2, ScalarFacts DEF SourceValue
    <2>4. src.v \in Abstract!Assignable(obj)
      BY <1>3 DEF Abstract!Assignable
    <2> QED BY <2>1, <2>3, <2>4 DEF obj
  <1>4. CASE src.from = "path" /\ src.path \in Paths
    <2>1. ValueOf(src) = ReadVariable(heap, src.path) /\ Readable(heap, src.path)
      BY <1>4 DEF ValueOf, IsDefined
    <2>2. IsPath(src.path)
      BY <1>4, PathsAre
    <2>3. SourceValue(heap, ReadVariable(heap, src.path)) = JsonAt(obj, src.path)
      BY <1>2, <2>1, <2>2, ReadValue DEF obj
    <2>4. Abstract!Read(obj, src.path) \in Abstract!Assignable(obj)
      BY <1>4 DEF Abstract!Assignable
    <2> QED BY <2>1, <2>3, <2>4, AbstractRead DEF obj
  <1>5. CASE src.from = "loop" /\ src.loop \in DOMAIN loops
    <2> DEFINE f == loops[src.loop]
    <2>1. ValueOf(src) = ParseCell(heap, f.elem) /\ f.elem \notin {Null, Dangling}
      BY <1>5 DEF ValueOf, IsDefined
    <2>2. /\ f.elem \in DOMAIN heap /\ IsPath(f.path) /\ GetVariable(heap, Root, f.path) = Just(f.seq)
          /\ Holds(heap, f.seq, f.at, f.elem) /\ \E p \in Paths : Matches(f.path, p)
      BY <1>5, <2>1, LoopElement
    <2> HIDE DEF f
    <2>3. PICK p \in Paths : Matches(f.path, p)
      BY <2>2
    <2>4. ValueAt(heap, f.elem) \in Abstract!ElementsAt(obj, p)
      BY <1>2, <2>2, <2>3, PathsAre, ElementAmong DEF obj
    <2>5. ValueAt(heap, f.elem) \in Abstract!Assignable(obj)
      BY <2>4 DEF Abstract!Assignable
    <2>6. SourceValue(heap, ParseCell(heap, f.elem)) = ValueAt(heap, f.elem)
      BY <1>2, <2>2, ParsedValue
    <2> QED BY <2>1, <2>5, <2>6 DEF obj
  <1> QED BY <1>1, <1>3, <1>4, <1>5

LEMMA SourceInjected ==
  ASSUME NEW h, NEW v, IsSource(h, v)
  PROVE  v.t # "ARRAY" /\ InjectedValue(h, v) = SourceValue(h, v)
  BY ScalarFacts DEF IsSource, InjectedValue

LEMMA TwiceInjected ==
  ASSUME NEW h, NEW w, NEW x, x = SourceValue(h, w)
  PROVE  InjectedValue(h, Array(<<w, w>>)) = List(<<x, x>>)
  <1> DEFINE v == Array(<<w, w>>)
             y == [k \in 1..Len(v.a) |-> SourceValue(h, v.a[k])]
  <1>1. v.t = "ARRAY" /\ v.a = <<w, w>>
    BY DEF Array, Value
  <1> HIDE DEF v
  <1>2. InjectedValue(h, v) = List(y)
    BY <1>1 DEF InjectedValue, ArrayValue
  <1>3. y = <<x, x>>
    <2>1. Len(v.a) = 2 /\ v.a[1] = w /\ v.a[2] = w
      BY <1>1
    <2>2. \A k \in 1..2 : SourceValue(h, v.a[k]) = x
      BY <2>1
    <2>3. y = [k \in 1..2 |-> x]
      BY <2>1, <2>2
    <2> HIDE DEF y
    <2> QED BY <2>3
  <1> QED BY <1>2, <1>3 DEF v

LEMMA AbstractGiven ==
  ASSUME NEW obj, NEW x \in Abstract!Assignable(obj)
  PROVE  x \in Abstract!Given(obj) /\ List(<<x, x>>) \in Abstract!Given(obj)
  BY DEF Abstract!Given, Abstract!List, Abstract!Value, List, Value

-----------------------------------------------------------------------------
(* What a step does to the value of the store. *)

ValueStays == ValueAt(heap', Root) = ValueAt(heap, Root)

StoreStep == ValueStays \/ ValueAt(heap', Root) \in Abstract!Successors(ValueAt(heap, Root))

LEMMA AssignSafelyStep ==
  ASSUME VariablesInv, LoopsFound, NEW path \in Paths, NEW src, NEW v, NEW jv,
         IsSource(heap, v) \/ IsArray(heap, v), AssignSafely(path, src, v, jv),
         InjectedValue(heap, v) \in Abstract!Given(ValueAt(heap, Root))
  PROVE  LoopsFound' /\ StoreStep
  <1> DEFINE i == InjectInto(heap, v)
             set == SetVariableAt(i.h, Root, path, i.p)
             op == IF IsInt(Last(path)) THEN "element" ELSE "assign"
             plain == IsPlain(path, v)
             parent == GetVariable(heap, Root, Front(path))
             obj == ValueAt(heap, Root)
             u == InjectedValue(heap, v)
  <1>1. Tag(op, path, plain, set) /\ SetIsDefined(path)
    BY DEF AssignSafely
  <1>2. IsPath(path) /\ path # <<>> /\ Sound(heap)
    BY PathsAre DEF VariablesInv
  <1>3. parent \notin {Nothing, Just(Null)} /\ IsInt(Last(path)) =>
          SetArrayIsDefined(heap, parent[1], Last(path).n)
    BY <1>1 DEF SetIsDefined
  <1>4. Assigned(heap, set, path)
    BY <1>2, <1>3, AssignedIs
  <1>5. Sound(set.h) /\ Retains(heap, set.h)
    BY <1>2, <1>4, AssignedSound, AssignedRetains
  <1>6. ValueAt(set.h, Root) = obj \/ ValueAt(set.h, Root) = SetPath(obj, path, u)
    <2>1. parent = GetVariable(heap, Root, Front(path)) /\ i = InjectInto(heap, v)
          /\ set = SetVariableAt(i.h, Root, path, i.p)
      OBVIOUS
    <2> HIDE DEF parent, i, set
    <2>2. \/ set.p = Null /\ ValueAt(set.h, Root) = ValueAt(heap, Root)
          \/ set.p # Null /\ ValueAt(set.h, Root) = SetPath(ValueAt(heap, Root), path, InjectedValue(heap, v))
      BY <1>2, <1>3, <2>1, AssignedValue
    <2> QED BY <2>2
  <1> HIDE DEF set, op, plain, obj, u
  <1>7. LoopsFound'
    BY <1>1, <1>5, TagFinds
  <1>8. heap' = set.h
    BY <1>1 DEF Tag
  <1>9. SetPath(obj, path, u) \in Abstract!Successors(obj)
    <2>1. Abstract!SetPath(obj, path, u) = SetPath(obj, path, u)
      BY AbstractSetPath
    <2>2. u \in Abstract!Given(obj)
      BY DEF u, obj
    <2> QED BY <2>1, <2>2 DEF Abstract!Successors
  <1> QED BY <1>6, <1>7, <1>8, <1>9 DEF StoreStep, ValueStays, obj

LEMMA AssignValueStep ==
  ASSUME VariablesInv, LoopsFound, NEW path \in Paths, NEW src \in Sources, AssignValue(path, src)
  PROVE  LoopsFound' /\ StoreStep
  <1> DEFINE w == ValueOf(src)
  <1>1. IsDefined(src) /\ AssignSafely(path, src, w, JsonValueOf(src))
    BY DEF AssignValue
  <1>2. IsSource(heap, w) /\ SourceValue(heap, w) \in Abstract!Assignable(ValueAt(heap, Root))
    BY <1>1, SourceIs, ValueAssignable
  <1> HIDE DEF w
  <1>3. InjectedValue(heap, w) \in Abstract!Given(ValueAt(heap, Root))
    BY <1>2, SourceInjected, AbstractGiven
  <1> QED BY <1>1, <1>2, <1>3, AssignSafelyStep

LEMMA AssignArrayStep ==
  ASSUME VariablesInv, LoopsFound, NEW path \in Paths, NEW src \in Sources, AssignArray(path, src)
  PROVE  LoopsFound' /\ StoreStep
  <1> DEFINE w == ValueOf(src)
             u == JsonValueOf(src)
             v == Array(<<w, w>>)
             jv == Array(<<u, u>>)
             x == SourceValue(heap, w)
  <1>1. IsDefined(src) /\ AssignSafely(path, src, v, jv)
    BY DEF AssignArray
  <1>2. IsSource(heap, w) /\ x \in Abstract!Assignable(ValueAt(heap, Root))
    BY <1>1, SourceIs, ValueAssignable
  <1>3. IsArray(heap, v)
    BY <1>2, TwiceIs
  <1>4. InjectedValue(heap, v) = List(<<x, x>>)
    BY TwiceInjected
  <1> HIDE DEF v, jv, x
  <1>5. InjectedValue(heap, v) \in Abstract!Given(ValueAt(heap, Root))
    BY <1>2, <1>4, AbstractGiven
  <1> QED BY <1>1, <1>3, <1>5, AssignSafelyStep

\* A heap that only grew.
LEMMA GrownStep ==
  ASSUME VariablesInv, LoopsFound, NEW op, NEW path, NEW plain, NEW set, Tag(op, path, plain, set),
         NEW c, Injected(heap, set.h, c)
  PROVE  LoopsFound' /\ ValueStays
  <1>1. Sound(heap) /\ Root \in DOMAIN heap /\ Grown(heap, set.h) /\ Sound(set.h) /\ heap' = set.h
    BY DEF VariablesInv, Sound, Laid, Injected, Grown, Tag
  <1>2. LoopsFound'
    BY <1>1, GrownRetains, TagFinds
  <1>3. ValueAt(set.h, Root) = ValueAt(heap, Root)
    BY <1>1, GrownValue
  <1> QED BY <1>1, <1>2, <1>3 DEF ValueStays

LEMMA IncrementStep ==
  ASSUME VariablesInv, LoopsFound, NEW path \in Paths, Increment(path)
  PROVE  LoopsFound' /\ ValueStays
  <1>1. PICK set : Tag("increment", path, FALSE, set) /\ set.p = Null /\ \E c : Injected(heap, set.h, c)
    BY IncrementGrows
  <1>2. PICK c : Injected(heap, set.h, c)
    BY <1>1
  <1> QED BY <1>1, <1>2, GrownStep

LEMMA ReadThroughDotFilterStep ==
  ASSUME VariablesInv, LoopsFound, NEW path \in Paths, ReadThroughDotFilter(path)
  PROVE  LoopsFound' /\ ValueStays
  <1>1. PICK set : Tag("dotfilter", <<>>, FALSE, set) /\ Injected(heap, set.h, set.p)
    BY ReadThroughDotFilterGrows
  <1> QED BY <1>1, GrownStep

-----------------------------------------------------------------------------
(* The host assigns to a variable of the store by its name. *)

\* The named variable is an element of the store, and the others are what they were.
LEMMA NamedShape ==
  ASSUME NEW h, Sound(h), NEW s, NEW n, n = NamedByHost(h, s), NEW key, key = Str(s), NEW slot, slot = Slot(h, Root, key)
  PROVE  /\ slot \in Nat /\ slot >= 1 /\ n.p \in Nat
         /\ Fits(h[Root], key) \/ (h[Root].t = "NIL" /\ IsStr(key))
         /\ n.h[Root].a = Stored(h[Root].a, slot, n.p)
         /\ n.h[Root].t = "HASH" /\ n.h[Root].s = KeysWith(h[Root], key)
         /\ DOMAIN h \subseteq DOMAIN n.h /\ \A d \in DOMAIN h \ {Root} : n.h[d] = h[d]
  <1> DEFINE v == h[Root]
             old == KeyIndex(v, s)
             k0 == CHOOSE k \in old : TRUE
  <1>1. Root \in DOMAIN h /\ IsCell(v) /\ v.t \in {"NIL", "HASH"}
    BY DEF Sound, Laid
  <1>2. /\ v.a \in Seq(Nat) /\ DOMAIN v.a = 1..Len(v.a) /\ Len(v.a) \in Nat
        /\ v.t = "NIL" => v.s = <<>> /\ v.a = <<>>
        /\ v.t = "HASH" => Len(v.s) = Len(v.a) /\ v.a \in Seq(Nat \ {Null})
    <2>1. v.t = "NIL" => v = Nil
      BY <1>1, CellFacts, ScalarFacts
    <2>2. Nil.s = <<>> /\ Nil.a = <<>>
      BY DEF Nil, Value
    <2> QED BY <1>1, <2>1, <2>2, CellFacts
  <1>3. ~IsInt(key) /\ IsStr(key) /\ key.s = s
    BY DEF IsInt, IsStr, Str, Value
  <1>4. slot = IF old # {} THEN k0 ELSE Len(v.a) + 1
    BY <1>3 DEF Slot
  <1>5. KeysWith(v, key) = IF old = {} THEN Append(v.s, s) ELSE v.s
    BY <1>3 DEF KeysWith
  <1>6. old = {k \in 1..Len(v.s) : v.s[k] = s}
    BY DEF KeyIndex
  <1>7. Fits(v, key) \/ (v.t = "NIL" /\ IsStr(key))
    BY <1>1, <1>3 DEF Fits
  <1>8. CASE old # {}
    <2>1. n = At(h, v.a[k0])
      BY <1>8 DEF NamedByHost
    <2>2. n.h = h /\ n.p = v.a[k0]
      BY <2>1 DEF At
    <2>3. k0 \in old
      BY <1>8
    <2> HIDE DEF k0, old, v
    <2>4. v.t = "HASH" /\ k0 \in DOMAIN v.a /\ k0 \in Nat /\ k0 >= 1 /\ v.a[k0] \in Nat
      BY <1>1, <1>2, <1>6, <2>3
    <2>5. v.a = Stored(v.a, k0, v.a[k0])
      BY <1>2, <2>4, SameStored
    <2> QED BY <1>4, <1>5, <1>7, <1>8, <2>2, <2>4, <2>5 DEF v
  <1>9. CASE old = {}
    <2> DEFINE c == New(h, Nil)
    <2>1. n = At([c.h EXCEPT ![Root] = Hash(Append(@.s, s), Append(@.a, c.p))], c.p)
      BY <1>9 DEF NamedByHost
    <2>2. Injected(h, c.h, c.p)
      <3>1. IsScalar(Nil) /\ Nil.a = <<>>
        BY DEF IsScalar, Nil, Value
      <3>2. IsCell(Nil)
        BY <3>1 DEF IsCell
      <3> QED BY <3>1, <3>2, Created
    <2> HIDE DEF c
    <2>3. /\ DOMAIN h \subseteq DOMAIN c.h /\ \A d \in DOMAIN h : c.h[d] = h[d]
          /\ c.p \in Nat
      BY <2>2 DEF Injected, Grown, Sound, Laid
    <2>4. n = At([c.h EXCEPT ![Root] = Hash(Append(v.s, s), Append(v.a, c.p))], c.p)
      BY <1>1, <2>1, <2>3
    <2> DEFINE w == Hash(Append(v.s, s), Append(v.a, c.p))
    <2>5. w.t = "HASH" /\ w.s = Append(v.s, s) /\ w.a = Append(v.a, c.p)
      BY DEF Hash, Value
    <2> HIDE DEF w
    <2>6. n.p = c.p /\ n.h = [c.h EXCEPT ![Root] = w]
      BY <2>4 DEF At, w
    <2>7. /\ n.h[Root] = w /\ DOMAIN n.h = DOMAIN c.h /\ \A d \in DOMAIN h \ {Root} : n.h[d] = h[d]
      BY <1>1, <2>3, <2>6
    <2>8. Append(v.a, c.p) = Stored(v.a, Len(v.a) + 1, c.p)
      BY <1>2, <2>3, AppendStored
    <2>9. slot = Len(v.a) + 1 /\ slot \in Nat /\ slot >= 1
      BY <1>2, <1>4, <1>9
    <2>10. KeysWith(v, key) = Append(v.s, s)
      BY <1>5, <1>9
    <2> HIDE DEF v, old
    <2> QED BY <1>7, <2>3, <2>5, <2>6, <2>7, <2>8, <2>9, <2>10 DEF v
  <1> QED BY <1>8, <1>9

\* The variable c has become the scalar v, and what it owned is gone.
Overwrite(h, c, v) == [Without(h, Reach(h, c) \ {c}) EXCEPT ![c] = v]

Overwrites(h, c, v, g) ==
  /\ Sound(g) /\ DOMAIN g = (DOMAIN h \ Reach(h, c)) \union {c} /\ g[c] = v
  /\ \A d \in DOMAIN h \ Reach(h, c) : g[d] = h[d]

\* What is not within the variable that is assigned, nor the store, is as it was.
LEMMA BesideOverwritten ==
  ASSUME NEW h, Sound(h), NEW slot, NEW c, c # Null, Holds(h, Root, slot, c), NEW v, IsScalar(v),
         NEW g, Overwrites(h, c, v, g)
  PROVE  /\ Root \in DOMAIN g /\ g[Root] = h[Root] /\ c \in DOMAIN g /\ ValueAt(g, c) = v
         /\ \A i \in DOMAIN h[Root].a : i # slot => ValueAt(g, h[Root].a[i]) = ValueAt(h, h[Root].a[i])
  <1> DEFINE R == Reach(h, c)
             X == DOMAIN h \ (R \union {Root})
  <1>2. /\ c \in DOMAIN h /\ c \in Nat /\ c > Root /\ c # Root /\ Root \in DOMAIN h
    <2>1. c \in DOMAIN h /\ c > Root /\ Root \in DOMAIN h
      BY DEF Sound, Descends, Holds
    <2> QED BY <2>1 DEF Sound, Laid, Root
  <1>3. /\ c \in R /\ \A k \in R : k >= c
        /\ \A k \in R : k = c \/ \E o \in R : k \in Below(h, o)
    BY <1>2, Reached DEF Sound
  <1>4. R \subseteq DOMAIN h
    BY <1>2, Reached DEF Sound
  <1> HIDE DEF R
  <1>5. Root \notin R
    BY <1>2, <1>3 DEF Root
  <1>6. /\ DOMAIN g = (DOMAIN h \ R) \union {c} /\ g[c] = v /\ \A d \in DOMAIN h \ R : g[d] = h[d]
        /\ Sound(g)
    BY DEF R, Overwrites
  \* Only the store holds c, and only what is within c holds what is within it.
  <1>7. ASSUME NEW d, NEW i, NEW k, Holds(h, d, i, k), k # Null, d \notin R, d # Root \/ i # slot
        PROVE  k \in X
    <2>1. k \in DOMAIN h /\ k > d /\ d \in DOMAIN h
      BY <1>7 DEF Sound, Descends, Holds
    <2>2. k # c
      BY <1>7 DEF Sound, OwnedOnce
    <2>3. k \notin R
      <3> SUFFICES ASSUME k \in R PROVE FALSE
        OBVIOUS
      <3>1. PICK o \in R : k \in Below(h, o)
        BY <1>3, <2>2
      <3>2. \E j : Holds(h, o, j, k)
        BY <1>4, <3>1, BelowIs
      <3>3. o = d
        BY <1>7, <3>2 DEF Sound, OwnedOnce
      <3> QED BY <1>7, <3>3
    <2>4. k # Root
      <3>1. d \in Nat \ {0}
        BY <2>1 DEF Sound, Laid, Null
      <3> QED BY <2>1, <3>1 DEF Root
    <2> QED BY <2>1, <2>3, <2>4
  <1>8. Closed(h, X)
    <2> SUFFICES ASSUME NEW d \in X, NEW k \in Below(h, d) PROVE k \in X
      BY DEF Closed
    <2>1. d \in DOMAIN h /\ d \notin R /\ d # Root
      OBVIOUS
    <2>2. PICK i : Holds(h, d, i, k) /\ k # Null
      BY <2>1, BelowIs
    <2> HIDE DEF X
    <2> QED BY <1>7, <2>1, <2>2
  <1>9. \A d \in X : ValueAt(g, d) = ValueAt(h, d)
    <2>1. X \in SUBSET DOMAIN h /\ X \subseteq DOMAIN g /\ \A d \in X : g[d] = h[d]
      BY <1>6
    <2> HIDE DEF X
    <2> QED BY <1>6, <1>8, <2>1, ValueKept
  <1> HIDE DEF X
  <1>10. ASSUME NEW i \in DOMAIN h[Root].a, i # slot
         PROVE  ValueAt(g, h[Root].a[i]) = ValueAt(h, h[Root].a[i])
    <2>1. Holds(h, Root, i, h[Root].a[i])
      BY <1>2 DEF Holds
    <2>2. CASE h[Root].a[i] = Null
      BY <2>2, NullIsNil
    <2>3. CASE h[Root].a[i] # Null
      <3>1. h[Root].a[i] \in X
        BY <1>5, <1>7, <1>10, <2>1, <2>3
      <3> QED BY <1>9, <3>1
    <2> QED BY <2>2, <2>3
  <1>11. ValueAt(g, c) = v
    <2> DEFINE x == [i \in DOMAIN g[c].a |-> ValueAt(g, g[c].a[i])]
    <2>1. ValueAt(g, c) = OfCell(g[c], x)
      BY <1>6, ValueIs
    <2>2. x = <<>>
      <3>1. DOMAIN g[c].a = {}
        BY <1>6, ScalarFacts
      <3> QED BY <3>1
    <2> HIDE DEF x
    <2>3. v = [t |-> v.t, n |-> v.n, s |-> v.s, a |-> v.a] /\ v.a = <<>>
      BY ScalarFacts
    <2>4. OfCell(v, <<>>) = v
      BY <2>3 DEF OfCell
    <2> QED BY <1>6, <2>1, <2>2, <2>4
  <1> QED BY <1>2, <1>5, <1>6, <1>10, <1>11

LEMMA OverwrittenKeeps ==
  ASSUME NEW h, Sound(h), NEW slot, NEW c, c # Null, Holds(h, Root, slot, c), NEW v, IsScalar(v),
         NEW g, g = Overwrite(h, c, v)
  PROVE  Overwrites(h, c, v, g)
  <1> DEFINE R == Reach(h, c)
  <1>1. Sound(g)
    BY Overwritten DEF Overwrite
  <1>2. c \in DOMAIN h
    BY DEF Sound, Descends, Holds
  <1>3. c \in R
    BY <1>2, Reached DEF Sound
  <1> HIDE DEF R
  <1>4. DOMAIN g = (DOMAIN h \ R) \union {c} /\ g[c] = v /\ \A d \in DOMAIN h \ R : g[d] = h[d]
    <2>1. Without(h, R \ {c}) = [d \in DOMAIN h \ (R \ {c}) |-> h[d]]
      BY DEF Without
    <2>2. g = [Without(h, R \ {c}) EXCEPT ![c] = v]
      BY DEF R, Overwrite
    <2> QED BY <1>2, <1>3, <2>1, <2>2
  <1> QED BY <1>1, <1>4 DEF R, Overwrites

LEMMA SetPathOne ==
  ASSUME NEW obj, NEW p, IsPath(p), p # <<>>, Front(p) = <<>>, NEW v
  PROVE  SetPath(obj, p, v) = SetAt(obj, p[1], v)
  <1> DEFINE f == [k \in DOMAIN p |-> SetAt(obj, p[1], v)]
  <1>1. DOMAIN p = {1} /\ SubSeq(p, 1, 0) = <<>> /\ Len(p) = 1
    <2>1. Len(Front(p)) = Len(p) - 1 /\ Len(p) \in Nat /\ DOMAIN p = 1..Len(p) /\ p \in Seq(Range(p))
      BY FrontFacts, PathFacts DEF IsPath
    <2>2. Len(p) = 1
      BY <2>1
    <2> QED BY <2>1, <2>2
  <1>2. GetPath(obj, <<>>) = Just(obj) /\ Just(obj) # Nothing /\ Just(obj)[1] = obj
    BY GetPathNone, JustFacts
  <1>3. \A k \in DOMAIN p : k = 1 /\ k = Len(p) /\ SubSeq(p, 1, k - 1) = <<>>
    BY <1>1
  <1>4. f = [k \in DOMAIN p |-> SetAt(GetPath(obj, SubSeq(p, 1, k - 1))[1], p[k], IF k = Len(p) THEN v ELSE f[k + 1])]
    <2> DEFINE y == [k \in DOMAIN p |-> SetAt(GetPath(obj, SubSeq(p, 1, k - 1))[1], p[k], IF k = Len(p) THEN v ELSE f[k + 1])]
    <2>1. \A k \in DOMAIN p : y[k] = SetAt(obj, p[1], v)
      BY <1>2, <1>3
    <2> QED BY <2>1
  <1>5. f[1] = SetAt(obj, p[1], v)
    BY <1>1
  <1> HIDE DEF f
  <1>6. Changed(obj, p, v) = f
    BY <1>4, ChangedIs
  <1> QED BY <1>1, <1>2, <1>5, <1>6, SetPathIs

LEMMA HostAssignValue ==
  ASSUME NEW h, Sound(h), NEW key, IsKey(key), IsStr(key), NEW f, Sound(f), NEW c \in Nat, c # Null,
         NEW slot, slot = Slot(h, Root, key), slot \in Nat, slot >= 1,
         Fits(h[Root], key) \/ (h[Root].t = "NIL" /\ IsStr(key)),
         f[Root].a = Stored(h[Root].a, slot, c), f[Root].t = "HASH", f[Root].s = KeysWith(h[Root], key),
         DOMAIN h \subseteq DOMAIN f, \A d \in DOMAIN h \ {Root} : f[d] = h[d],
         NEW v, IsScalar(v),
         NEW g, Overwrites(f, c, v, g)
  PROVE  ValueAt(g, Root) = SetAt(ValueAt(h, Root), key, v)
  <1>1. Root \in DOMAIN h
    BY DEF Sound, Laid
  <1>6. h[Root].a \in Seq(Nat) /\ DOMAIN h[Root].a = 1..Len(h[Root].a)
    BY <1>1, CellFacts DEF Sound, Laid
  <1>7. Holds(f, Root, slot, c) /\ \A i \in DOMAIN h[Root].a : i # slot => Holds(f, Root, i, h[Root].a[i])
    <2>1. /\ slot \in DOMAIN f[Root].a /\ f[Root].a[slot] = c
          /\ \A i \in DOMAIN h[Root].a : i \in DOMAIN f[Root].a /\ (i # slot => f[Root].a[i] = h[Root].a[i])
      BY <1>6, StoredKeeps
    <2>2. Root \in DOMAIN f
      BY <1>1
    <2> QED BY <2>1, <2>2 DEF Holds
  <1>9. /\ Root \in DOMAIN g /\ g[Root] = f[Root] /\ c \in DOMAIN g /\ ValueAt(g, c) = v
        /\ \A i \in DOMAIN f[Root].a : i # slot => ValueAt(g, f[Root].a[i]) = ValueAt(f, f[Root].a[i])
    BY <1>7, BesideOverwritten
  <1>10. ASSUME NEW i \in DOMAIN h[Root].a, i # slot
         PROVE  ValueAt(f, h[Root].a[i]) = ValueAt(h, h[Root].a[i])
    <2> DEFINE X == DOMAIN h \ {Root}
    <2>1. ASSUME NEW d \in DOMAIN h, NEW k \in Below(h, d) PROVE k \in X
      <3>1. k # Null /\ \E j : Holds(h, d, j, k)
        BY <2>1, BelowIs
      <3>2. k \in DOMAIN h /\ k > d /\ d \in Nat \ {0}
        BY <3>1 DEF Sound, Descends, Laid, Null
      <3> QED BY <3>2 DEF Root
    <2>2. Closed(h, X)
      BY <2>1 DEF Closed
    <2>3. X \in SUBSET DOMAIN h /\ X \subseteq DOMAIN f /\ \A d \in X : f[d] = h[d]
      OBVIOUS
    <2> HIDE DEF X
    <2>4. \A d \in X : ValueAt(f, d) = ValueAt(h, d)
      BY <1>1, <2>2, <2>3, ValueKept
    <2>5. CASE h[Root].a[i] = Null
      BY <2>5, NullIsNil
    <2>6. CASE h[Root].a[i] # Null
      <3>1. h[Root].a[i] \in Below(h, Root)
        <4>1. Holds(h, Root, i, h[Root].a[i])
          BY <1>1, <1>10 DEF Holds
        <4> QED BY <1>1, <2>6, <4>1, BelowIs
      <3> QED BY <1>1, <2>1, <2>4, <3>1
    <2> QED BY <2>5, <2>6
  <1>11. /\ g[Root].a = Stored(h[Root].a, slot, c) /\ g[Root].s = KeysWith(h[Root], key)
         /\ g[Root].t = h[Root].t \/ (h[Root].t = "NIL" /\ g[Root].t = "HASH")
    BY <1>9, KeyFacts DEF Fits
  <1>12. \A i \in DOMAIN h[Root].a : i # slot => ValueAt(g, h[Root].a[i]) = ValueAt(h, h[Root].a[i])
    <2> SUFFICES ASSUME NEW i \in DOMAIN h[Root].a, i # slot
                 PROVE  ValueAt(g, h[Root].a[i]) = ValueAt(h, h[Root].a[i])
      OBVIOUS
    <2>1. i \in DOMAIN f[Root].a /\ f[Root].a[i] = h[Root].a[i]
      BY <1>7 DEF Holds
    <2>2. ValueAt(g, f[Root].a[i]) = ValueAt(f, f[Root].a[i])
      BY <1>9, <2>1
    <2> QED BY <1>10, <2>1, <2>2
  <1>13. ValueAt(g, Root) = SetAt(ValueAt(h, Root), key, ValueAt(g, c))
    <2>1. Sound(g)
      BY DEF Overwrites
    <2> QED BY <1>1, <1>9, <1>11, <1>12, <2>1, LevelValue
  <1> QED BY <1>9, <1>13

LEMMA HostAssigned ==
  ASSUME NEW h, Sound(h), NEW s, NEW v, IsScalar(v)
  PROVE  LET n == NamedByHost(h, s)
         IN  ValueAt(Overwrite(n.h, n.p, v), Root) = SetAt(ValueAt(h, Root), Str(s), v)
  <1> DEFINE key == Str(s)
             slot == Slot(h, Root, key)
             n == NamedByHost(h, s)
             f == n.h
             c == n.p
             g == Overwrite(f, c, v)
  <1>1. Sound(f) /\ c # Null /\ \E i : Holds(f, Root, i, c)
    BY NamedSound
  <1>2. /\ slot \in Nat /\ slot >= 1 /\ c \in Nat
        /\ Fits(h[Root], key) \/ (h[Root].t = "NIL" /\ IsStr(key))
        /\ f[Root].a = Stored(h[Root].a, slot, c)
        /\ f[Root].t = "HASH" /\ f[Root].s = KeysWith(h[Root], key)
        /\ DOMAIN h \subseteq DOMAIN f /\ \A d \in DOMAIN h \ {Root} : f[d] = h[d]
    <2>1. key = Str(s) /\ slot = Slot(h, Root, key)
      OBVIOUS
    <2> HIDE DEF key, slot
    <2> QED BY <2>1, NamedShape
  <1>3. IsKey(key) /\ IsStr(key)
    BY DEF IsKey, IsStr, Str, Value
  <1>4. slot = Slot(h, Root, key) /\ g = Overwrite(f, c, v)
    OBVIOUS
  <1> HIDE DEF f, c, key, slot, g
  <1>5. PICK i : Holds(f, Root, i, c)
    BY <1>1
  <1>6. Overwrites(f, c, v, g)
    BY <1>1, <1>4, <1>5, OverwrittenKeeps
  <1>7. ValueAt(g, Root) = SetAt(ValueAt(h, Root), key, v)
    BY <1>1, <1>2, <1>3, <1>4, <1>6, HostAssignValue
  <1> QED BY <1>7 DEF g, f, c, key

LEMMA HostAssignStep ==
  ASSUME VariablesInv, NEW p \in Paths, Len(p) = 1, IsStr(p[1]), NEW v \in Literals, HostAssign(p[1].s, v)
  PROVE  LoopsFound' /\ StoreStep
  <1> DEFINE s == p[1].s
             n == NamedByHost(heap, s)
             cleared == Without(n.h, Reach(n.h, n.p) \ {n.p})
             g == [cleared EXCEPT ![n.p] = v]
             obj == ValueAt(heap, Root)
  <1>1. Sound(heap) /\ IsScalar(v) /\ IsPath(p)
    BY PathsAre, VariablesAssumption DEF VariablesInv
  <1>2. loops = <<>> /\ Tag("host", <<>>, FALSE, At(g, n.p))
    BY DEF HostAssign, NamedByHost
  <1>3. heap' = g
    BY <1>2 DEF Tag, At
  <1>4. DOMAIN loops' = {}
    <2>1. loops' = LoopsAfter(At(g, n.p).h, IF At(g, n.p).p = Null THEN <<>> ELSE FromStart(heap, <<>>))
      BY <1>2 DEF Tag
    <2>2. \A h, q : DOMAIN LoopsAfter(h, q) = DOMAIN loops
      BY DEF LoopsAfter
    <2>3. DOMAIN loops = {}
      BY <1>2
    <2> QED BY <2>1, <2>2, <2>3
  <1>5. LoopsFound'
    BY <1>4 DEF LoopsFound
  <1>6. ValueAt(g, Root) = SetAt(obj, Str(s), v)
    <2>1. g = Overwrite(n.h, n.p, v)
      BY DEF Overwrite
    <2> HIDE DEF g
    <2> QED BY <1>1, <2>1, HostAssigned
  <1> HIDE DEF g, obj
  <1>7. Str(s) = p[1]
    <2>1. IsKey(p[1])
      <3>1. 1 \in DOMAIN p
        BY <1>1, PathFacts
      <3> QED BY <1>1, <3>1 DEF IsPath
    <2> QED BY <2>1, KeyFacts
  <1>8. ValueAt(heap', Root) = Abstract!SetPath(obj, p, v)
    <2>1. p # <<>> /\ Front(p) = <<>>
      <3>1. p # <<>> /\ Len(Front(p)) = Len(p) - 1 /\ IsPath(Front(p))
        BY <1>1, PathsAre, FrontFacts
      <3>2. Front(p) \in Seq(Range(Front(p))) /\ Len(Front(p)) = 0
        BY <3>1 DEF IsPath
      <3> QED BY <3>1, <3>2
    <2> QED BY <1>1, <1>3, <1>6, <1>7, <2>1, SetPathOne, AbstractSetPath
  <1>9. v \in Abstract!Given(obj)
    <2>1. v \in Abstract!Assignable(obj)
      BY DEF Abstract!Assignable
    <2> QED BY <2>1, AbstractGiven
  <1>10. Abstract!SetPath(obj, p, v) \in Abstract!Successors(obj)
    BY <1>9 DEF Abstract!Successors
  <1> QED BY <1>5, <1>8, <1>10 DEF StoreStep, obj

-----------------------------------------------------------------------------
(* The other resolver, given the same values. *)

\* Only false is read as false, and no value of the store is an array of the engine.
LEMMA ReadFalse ==
  ASSUME NEW h, Sound(h), NEW p, IsPath(p), Readable(h, p), ReadVariable(h, p) # Bool(FALSE)
  PROVE  SourceValue(h, ReadVariable(h, p)) # Bool(FALSE)
  <1> DEFINE found == GetVariable(h, Root, p)
  <1>1. ReadVariable(h, p) = IF found = Nothing THEN Nil ELSE ParseCell(h, found[1])
    BY DEF ReadVariable
  <1>2. found = Nothing \/ \E c \in DOMAIN h : found = Just(c)
    <2>1. Root \in DOMAIN h /\ found # Just(Null)
      BY DEF Sound, Laid, Readable
    <2>2. found = Nothing \/ \E c \in DOMAIN h \union {Null} : found = Just(c)
      BY <2>1, GetInside
    <2> QED BY <2>1, <2>2
  <1> HIDE DEF found
  <1>3. CASE found = Nothing
    BY <1>1, <1>3 DEF SourceValue, Nil, Bool, Value
  <1>4. CASE found # Nothing
    <2>1. PICK c \in DOMAIN h : found = Just(c)
      BY <1>2, <1>4
    <2>2. ReadVariable(h, p) = ParseCell(h, c)
      BY <1>1, <1>4, <2>1, JustFacts
    <2>3. SourceValue(h, ParseCell(h, c)) = ValueAt(h, c)
      BY ParsedValue
    <2>4. CASE h[c].t \in {"LIST", "HASH"}
      <3>1. ValueAt(h, c).t \in {"LIST", "HASH"}
        BY <2>4, ValueFacts
      <3>2. Bool(FALSE).t = "BOOL"
        BY DEF Bool, Value
      <3>3. ValueAt(h, c) # Bool(FALSE)
        BY <3>1, <3>2
      <3> QED BY <2>2, <2>3, <3>3
    <2>5. CASE h[c].t \notin {"LIST", "HASH"}
      <3>1. ParseCell(h, c) = h[c]
        BY <2>5 DEF ParseCell
      <3>2. IsScalar(h[c])
        BY <2>5, CellFacts DEF Sound, Laid
      <3>3. SourceValue(h, h[c]) = h[c]
        BY <3>2, ScalarFacts DEF SourceValue
      <3> QED BY <2>2, <3>1, <3>3
    <2> QED BY <2>4, <2>5
  <1> QED BY <1>3, <1>4

LEMMA NoEngineArray ==
  ASSUME NEW h, Sound(h), NEW v, IsSource(h, v)
  PROVE  SourceValue(h, v).t # "ARRAY"
  <1>1. CASE IsScalar(v)
    BY <1>1, ScalarFacts DEF SourceValue
  <1>2. CASE v.t = "VAR" /\ v.n \in DOMAIN h
    <2>1. ValueAt(h, v.n).t = h[v.n].t /\ IsCell(h[v.n])
      BY <1>2, ValueFacts DEF Sound, Laid
    <2>2. h[v.n].t # "ARRAY"
      BY <2>1, CellFacts, ScalarFacts
    <2> QED BY <1>2, <2>1, <2>2 DEF SourceValue
  <1> QED BY <1>1, <1>2 DEF IsSource

\* The variable of a loop, by its place in the list.
LEMMA LoopElementRead ==
  ASSUME VariablesInv, LoopsFound, NEW k \in DOMAIN loops, loops[k].elem \notin {Null, Dangling},
         NEW f, f = loops[k]
  PROVE  JsonAt(ValueAt(heap, Root), Append(f.path, Num(f.at - 1))) = ValueAt(heap, f.elem)
  <1>1. /\ f.elem \in DOMAIN heap /\ f.seq \in DOMAIN heap /\ heap[f.seq].t = "LIST"
        /\ IsPath(f.path) /\ GetVariable(heap, Root, f.path) = Just(f.seq)
        /\ Holds(heap, f.seq, f.at, f.elem)
    BY LoopElement
  <1>2. Sound(heap)
    BY DEF VariablesInv
  <1>3. DOMAIN heap[f.seq].a = 1..Len(heap[f.seq].a) /\ Len(heap[f.seq].a) \in Nat
    BY <1>1, <1>2, ValueFacts
  <1>4. f.at \in Nat /\ f.at >= 1 /\ f.at <= Len(heap[f.seq].a) /\ heap[f.seq].a[f.at] = f.elem
    BY <1>1, <1>3 DEF Holds
  <1> DEFINE q == Append(f.path, Num(f.at - 1))
  <1>5. GetVariable(heap, Root, q) = Just(f.elem)
    BY <1>1, <1>2, <1>4, ElementByPath
  <1>6. IsPath(q)
    <2>1. IsKey(Num(f.at - 1))
      BY <1>4 DEF IsKey, Num, Value
    <2> QED BY <1>1, <2>1, PathAppended
  <1> HIDE DEF q
  <1>7. JsonAt(ValueAt(heap, Root), q) =
          IF GetVariable(heap, Root, q) = Nothing THEN Nil ELSE ValueAt(heap, GetVariable(heap, Root, q)[1])
    BY <1>2, <1>6, JsonAtIs
  <1>8. JsonAt(ValueAt(heap, Root), q) = ValueAt(heap, f.elem)
    BY <1>5, <1>7, JustFacts
  <1> QED BY <1>8 DEF q

LEMMA JsonValueIs ==
  ASSUME VariablesInv, LoopsFound, NEW src \in Sources, IsDefined(src), json = ValueAt(heap, Root),
         ValueOf(src) # Bool(FALSE)
  PROVE  JsonValueOf(src) = SourceValue(heap, ValueOf(src))
  <1> DEFINE obj == ValueAt(heap, Root)
  <1>1. \/ src.from = "literal" /\ src.v \in Literals
        \/ src.from = "path" /\ src.path \in Paths
        \/ src.from = "loop" /\ src.loop \in DOMAIN loops
    BY DEF Sources
  <1>2. Sound(heap) /\ json = obj
    BY DEF VariablesInv
  <1> HIDE DEF obj
  <1>3. CASE src.from = "literal" /\ src.v \in Literals
    <2>1. ValueOf(src) = src.v /\ JsonValueOf(src) = src.v
      BY <1>3 DEF ValueOf, JsonValueOf
    <2>2. IsScalar(src.v)
      BY <1>3, VariablesAssumption
    <2>3. SourceValue(heap, src.v) = src.v
      BY <2>2, ScalarFacts DEF SourceValue
    <2> QED BY <2>1, <2>3
  <1>4. CASE src.from = "path" /\ src.path \in Paths
    <2>1. /\ ValueOf(src) = ReadVariable(heap, src.path) /\ Readable(heap, src.path)
          /\ JsonValueOf(src) = JsonRead(obj, src.path)
      BY <1>2, <1>4 DEF ValueOf, IsDefined, JsonValueOf
    <2>2. IsPath(src.path)
      BY <1>4, PathsAre
    <2>3. SourceValue(heap, ReadVariable(heap, src.path)) = JsonAt(obj, src.path)
      BY <1>2, <2>1, <2>2, ReadValue DEF obj
    <2>4. SourceValue(heap, ReadVariable(heap, src.path)) # Bool(FALSE)
      BY <1>2, <2>1, <2>2, ReadFalse
    <2> QED BY <2>1, <2>3, <2>4 DEF JsonRead
  <1>5. CASE src.from = "loop" /\ src.loop \in DOMAIN loops
    <2> DEFINE f == loops[src.loop]
    <2>1. /\ ValueOf(src) = ParseCell(heap, f.elem) /\ f.elem \notin {Null, Dangling}
          /\ JsonValueOf(src) = JsonAt(obj, Append(f.path, Num(f.at - 1)))
      BY <1>2, <1>5 DEF ValueOf, IsDefined, JsonValueOf
    <2>2. f.elem \in DOMAIN heap
      BY <1>5, <2>1, LoopElement
    <2>3. JsonAt(obj, Append(f.path, Num(f.at - 1))) = ValueAt(heap, f.elem)
      BY <1>5, <2>1, LoopElementRead DEF obj
    <2> HIDE DEF f
    <2>4. SourceValue(heap, ParseCell(heap, f.elem)) = ValueAt(heap, f.elem)
      BY <1>2, <2>2, ParsedValue
    <2> QED BY <2>1, <2>3, <2>4
  <1> QED BY <1>1, <1>3, <1>4, <1>5

LEMMA AssignAgrees ==
  ASSUME VariablesInv, LoopsFound, NEW path \in Paths, NEW src \in Sources, AssignValue(path, src),
         last'.op = "assign", last'.plain, json = ValueAt(heap, Root)
  PROVE  json' = ValueAt(heap', Root)
  <1> DEFINE w == ValueOf(src)
             jw == JsonValueOf(src)
             u == SourceValue(heap, w)
             i == InjectInto(heap, w)
             set == SetVariableAt(i.h, Root, path, i.p)
             op == IF IsInt(Last(path)) THEN "element" ELSE "assign"
             parent == GetVariable(heap, Root, Front(path))
             obj == ValueAt(heap, Root)
  <1>1. IsDefined(src) /\ AssignSafely(path, src, w, jw)
    BY DEF AssignValue
  <1>2. Tag(op, path, IsPlain(path, w), set) /\ SetIsDefined(path) /\ json' = JsonSet(json, path, JsonInject(jw))
    BY <1>1 DEF AssignSafely
  <1>3. IsPath(path) /\ path # <<>> /\ Sound(heap) /\ IsPath(Front(path)) /\ IsKey(Last(path))
    BY PathsAre, FrontFacts DEF VariablesInv
  <1>4. IsStr(Last(path)) /\ IsPlain(path, w) /\ heap' = set.h
    <2>1. last' = [op |-> op, plain |-> IsPlain(path, w), refused |-> set.p = Null] /\ heap' = set.h
      BY <1>2 DEF Tag
    <2> HIDE DEF set
    <2>2. ~IsInt(Last(path)) /\ IsPlain(path, w)
      BY <2>1
    <2> QED BY <1>3, <2>1, <2>2, KeyFacts
  <1>5. w # Bool(FALSE) /\ (parent # Nothing => heap[parent[1]].t # "NIL")
    BY <1>4 DEF IsPlain
  <1>6. IsSource(heap, w)
    BY <1>1, SourceIs
  <1>7. jw = u /\ u.t # "ARRAY" /\ InjectedValue(heap, w) = u
    BY <1>1, <1>3, <1>5, <1>6, JsonValueIs, NoEngineArray, SourceInjected
  <1>8. parent \notin {Nothing, Just(Null)} /\ IsInt(Last(path)) =>
          SetArrayIsDefined(heap, parent[1], Last(path).n)
    BY <1>2 DEF SetIsDefined
  <1>9. \/ /\ ValueAt(set.h, Root) = obj
           /\ parent \in {Nothing, Just(Null)} \/ ~Fits(heap[parent[1]], Last(path))
        \/ /\ ValueAt(set.h, Root) = SetPath(obj, path, u)
           /\ \E o \in DOMAIN heap : /\ parent = Just(o)
                                     /\ Fits(heap[o], Last(path)) \/ (heap[o].t = "NIL" /\ IsStr(Last(path)))
    <2>1. parent = GetVariable(heap, Root, Front(path)) /\ i = InjectInto(heap, w)
          /\ set = SetVariableAt(i.h, Root, path, i.p)
      OBVIOUS
    <2> HIDE DEF parent, i, set, w, u
    <2>2. \/ /\ set.p = Null /\ ValueAt(set.h, Root) = ValueAt(heap, Root)
             /\ parent \in {Nothing, Just(Null)} \/ ~Fits(heap[parent[1]], Last(path))
          \/ /\ set.p # Null /\ ValueAt(set.h, Root) = SetPath(ValueAt(heap, Root), path, InjectedValue(heap, w))
             /\ \E o \in DOMAIN heap : /\ parent = Just(o)
                                       /\ Fits(heap[o], Last(path)) \/ (heap[o].t = "NIL" /\ IsStr(Last(path)))
      BY <1>3, <1>6, <1>8, <2>1, AssignedValue
    <2> QED BY <1>7, <2>2
  <1>10. JsonAt(obj, Front(path)) = IF parent = Nothing THEN Nil ELSE ValueAt(heap, parent[1])
    BY <1>3, JsonAtIs
  <1>11. parent = Nothing \/ \E o \in DOMAIN heap \union {Null} : parent = Just(o)
    BY <1>3, GetInside DEF Sound, Laid
  <1>12. json' = JsonSet(obj, path, u)
    BY <1>2, <1>7 DEF JsonInject
  <1> HIDE DEF parent, set, w, jw, u, obj
  <1>13. json' = IF JsonAt(obj, Front(path)).t = "HASH" THEN SetPath(obj, path, u) ELSE obj
    BY <1>4, <1>12 DEF JsonSet
  <1>14. CASE parent \in {Nothing, Just(Null)}
    <2>1. JsonAt(obj, Front(path)) = Nil
      BY <1>10, <1>14, JustFacts, NullIsNil
    <2>2. JsonAt(obj, Front(path)).t # "HASH"
      BY <2>1 DEF Nil, Value
    <2>3. \A o \in DOMAIN heap : parent # Just(o)
      <3>1. Null \notin DOMAIN heap
        BY <1>3 DEF Sound, Laid
      <3> QED BY <1>14, <3>1, JustFacts
    <2> QED BY <1>4, <1>9, <1>13, <2>2, <2>3
  <1>15. CASE parent \notin {Nothing, Just(Null)}
    <2>1. PICK o \in DOMAIN heap : parent = Just(o)
      BY <1>11, <1>15
    <2>2. parent[1] = o /\ \A x : parent = Just(x) => x = o
      BY <2>1, JustFacts
    <2>3. JsonAt(obj, Front(path)).t = heap[o].t /\ heap[o].t # "NIL"
      BY <1>3, <1>5, <1>10, <1>15, <2>2, ValueFacts DEF parent
    <2>4. Fits(heap[o], Last(path)) <=> heap[o].t = "HASH"
      BY <1>3, <1>4, KeyFacts DEF Fits
    <2> QED BY <1>4, <1>9, <1>13, <1>15, <2>2, <2>3, <2>4
  <1> QED BY <1>14, <1>15

-----------------------------------------------------------------------------
(* The theorems. *)

\* Where nothing is allocated or assigned.
LEMMA UnchangedStep ==
  ASSUME LoopsFound, heap' = heap, loops' = loops
  PROVE  LoopsFound' /\ ValueStays
  BY DEF LoopsFound, LoopFound, ValueStays

LEMMA StoreSteps ==
  ASSUME VariablesInv, LoopsFound, [Next]_vars
  PROVE  LoopsFound' /\ StoreStep
  <1>1. CASE UNCHANGED vars
    BY <1>1, UnchangedStep DEF vars, StoreStep
  <1>2. ASSUME NEW p \in Paths, NEW src \in Sources,
               AssignValue(p, src) \/ AssignArray(p, src) \/ AssignGoesWrong(p, src)
        PROVE  LoopsFound' /\ StoreStep
    <2>1. CASE AssignValue(p, src)
      BY <2>1, AssignValueStep
    <2>2. CASE AssignArray(p, src)
      BY <2>2, AssignArrayStep
    <2>3. CASE AssignGoesWrong(p, src)
      BY <2>3, UnchangedStep DEF AssignGoesWrong, GoesWrong, StoreStep
    <2> QED BY <1>2, <2>1, <2>2, <2>3
  <1>3. ASSUME NEW p \in Paths, Increment(p) \/ ReadThroughDotFilter(p) \/ EnterLoop(p)
        PROVE  LoopsFound' /\ StoreStep
    <2>1. CASE Increment(p)
      BY <2>1, IncrementStep DEF StoreStep
    <2>2. CASE ReadThroughDotFilter(p)
      BY <2>2, ReadThroughDotFilterStep DEF StoreStep
    <2>3. CASE EnterLoop(p)
      <3>1. LoopsFound'
        BY <2>3, EnterLoopFinds
      <3>2. heap' = heap
        BY <2>3 DEF EnterLoop
      <3> QED BY <3>1, <3>2 DEF StoreStep, ValueStays
    <2> QED BY <1>3, <2>1, <2>2, <2>3
  <1>4. CASE NextElement \/ IterateGoesWrong \/ LeaveLoop
    <2>1. CASE IterateGoesWrong
      BY <2>1, UnchangedStep DEF IterateGoesWrong, GoesWrong, StoreStep
    <2>2. CASE NextElement \/ LeaveLoop
      <3>1. LoopsFound'
        BY <2>2, NextElementFinds, LeaveLoopFinds
      <3>2. heap' = heap
        BY <2>2 DEF NextElement, LeaveLoop
      <3> QED BY <3>1, <3>2 DEF StoreStep, ValueStays
    <2> QED BY <1>4, <2>1, <2>2
  <1>5. ASSUME NEW p \in Paths, NEW v \in Literals, Len(p) = 1, IsStr(p[1]), HostAssign(p[1].s, v)
        PROVE  LoopsFound' /\ StoreStep
    BY <1>5, HostAssignStep
  <1> QED BY <1>1, <1>2, <1>3, <1>4, <1>5 DEF Next

LEMMA AgreeSteps ==
  ASSUME VariablesInv, LoopsFound, Next, last'.op = "assign", last'.plain, json = ValueAt(heap, Root)
  PROVE  json' = ValueAt(heap', Root)
  <1>1. ASSUME NEW p \in Paths, NEW src \in Sources,
               AssignValue(p, src) \/ AssignArray(p, src) \/ AssignGoesWrong(p, src)
        PROVE  json' = ValueAt(heap', Root)
    <2>1. CASE AssignValue(p, src)
      BY <2>1, AssignAgrees
    <2>2. CASE AssignArray(p, src)
      <3> DEFINE w == ValueOf(src)
                 u == JsonValueOf(src)
                 v == Array(<<w, w>>)
                 jv == Array(<<u, u>>)
                 i == InjectInto(heap, v)
                 set == SetVariableAt(i.h, Root, p, i.p)
                 op == IF IsInt(Last(p)) THEN "element" ELSE "assign"
      <3>1. AssignSafely(p, src, v, jv)
        BY <2>2 DEF AssignArray
      <3>2. v.t = "ARRAY"
        BY DEF Array, Value
      <3> HIDE DEF v, jv
      <3>3. Tag(op, p, IsPlain(p, v), set)
        BY <3>1 DEF AssignSafely
      <3> HIDE DEF set, op
      <3>4. last'.plain = IsPlain(p, v)
        BY <3>3 DEF Tag
      <3> QED BY <3>2, <3>4 DEF IsPlain
    <2>3. CASE AssignGoesWrong(p, src)
      BY <2>3 DEF AssignGoesWrong, GoesWrong
    <2> QED BY <1>1, <2>1, <2>2, <2>3
  <1>2. ASSUME NEW p \in Paths, Increment(p) \/ ReadThroughDotFilter(p) \/ EnterLoop(p)
        PROVE  json' = ValueAt(heap', Root)
    <2>1. CASE Increment(p)
      BY <2>1 DEF Increment, Tag
    <2>2. CASE ReadThroughDotFilter(p)
      BY <2>2 DEF ReadThroughDotFilter, Tag
    <2>3. CASE EnterLoop(p)
      BY <2>3 DEF EnterLoop
    <2> QED BY <1>2, <2>1, <2>2, <2>3
  <1>3. CASE NextElement \/ IterateGoesWrong \/ LeaveLoop
    BY <1>3 DEF NextElement, IterateGoesWrong, GoesWrong, LeaveLoop
  <1>4. ASSUME NEW p \in Paths, NEW v \in Literals, HostAssign(p[1].s, v)
        PROVE  json' = ValueAt(heap', Root)
    <2>1. last'.op = "host"
      BY <1>4 DEF HostAssign, Tag
    <2> QED BY <2>1
  <1> QED BY <1>1, <1>2, <1>3, <1>4 DEF Next

LEMMA InitFinds ==
  Init => LoopsFound /\ Abstract!Init
  <1> SUFFICES ASSUME Init PROVE LoopsFound /\ Abstract!Init
    OBVIOUS
  <1>1. loops = <<>> /\ heap \in Stores
    BY DEF Init
  <1>2. LoopsFound
    BY <1>1 DEF LoopsFound
  <1>3. Abstract!Init
    BY <1>1 DEF Abstract!Init
  <1> QED BY <1>2, <1>3

(* The inductive invariant of the two theorems below: a loop's list is where its path    *)
(* leads for as long as it is there, also when something on the path was assigned before *)
(* and the pointer left alone, so that its variable is an element of a list of the store.*)
THEOREM LoopsFoundInductive == Spec => [](VariablesInv /\ LoopsFound)
  <1>1. Init => VariablesInv /\ LoopsFound
    BY InitInv, InitFinds
  <1>2. VariablesInv /\ LoopsFound /\ [Next]_vars => (VariablesInv /\ LoopsFound)'
    <2>1. VariablesInv /\ [Next]_vars => VariablesInv'
      BY StepKeeps
    <2>2. VariablesInv /\ LoopsFound /\ [Next]_vars => LoopsFound'
      BY StoreSteps
    <2> QED BY <2>1, <2>2
  <1> QED BY <1>1, <1>2, PTL DEF Spec

(* The heap is a store: behind all the pointers it is one value, and every tag, every      *)
(* assignment of the host leaves it or changes it at the one place that its path names, to *)
(* a literal, what is at another path, an element of a list, or a list of two of them      *)
(* (Renderer::setVariable, Renderer::inject and CPPVariable's functions).                  *)
THEOREM StoreImplemented == Spec => ImplementsStore
  <1>1. Init => Abstract!Init
    BY InitFinds
  <1>2. VariablesInv /\ LoopsFound /\ [Next]_vars => [Abstract!Next]_(ValueAt(heap, Root))
    <2> SUFFICES ASSUME VariablesInv, LoopsFound, [Next]_vars, ValueAt(heap, Root)' # ValueAt(heap, Root)
                 PROVE  Abstract!Next
      OBVIOUS
    <2>1. StoreStep
      BY StoreSteps
    <2>2. ValueAt(heap, Root)' = ValueAt(heap', Root)
      BY DEF Root
    <2> QED BY <2>1, <2>2 DEF StoreStep, ValueStays, Abstract!Next
  <1> QED BY <1>1, <1>2, LoopsFoundInductive, PTL DEF Spec, ImplementsStore, Abstract!Spec

(* Two resolvers over the same values: an assignment that both can do leaves the same     *)
(* value behind rapidjsonvariable.h as on the heap of cppvariable.h, whichever of its     *)
(* sources it takes the value from.                                                       *)
THEOREM ResolversAgreeAlways == Spec => ResolversAgree
  <1>1. VariablesInv /\ LoopsFound /\ [Next]_vars =>
          [last'.op = "assign" /\ last'.plain /\ json = ValueAt(heap, Root) => json' = ValueAt(heap', Root)]_vars
    <2> SUFFICES ASSUME VariablesInv, LoopsFound, Next, last'.op = "assign", last'.plain, json = ValueAt(heap, Root)
                 PROVE  json' = ValueAt(heap', Root)
      OBVIOUS
    <2> QED BY AgreeSteps
  <1> QED BY <1>1, LoopsFoundInductive, PTL DEF Spec, ResolversAgree
=============================================================================

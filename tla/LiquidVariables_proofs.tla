----------------------- MODULE LiquidVariables_proofs -----------------------
(***************************************************************************)
(* For all stores, paths and literals: the heap of LiquidVariables is a    *)
(* forest, a loop's pointers stay on its list, and what is lost is lost in *)
(* a known way.                                                            *)
(*                                                                         *)
(* A tag does two things to the heap.  inject lets it grow: the cells that *)
(* were there stay as they are, and one new cell is owned by nobody        *)
(* (Injected).  The resolver then puts such a cell at a slot of one that   *)
(* is there and frees what was in the slot (Placed), or refuses.  The      *)
(* invariants are followed through these two.                              *)
(***************************************************************************)
EXTENDS LiquidVariables, TLAPS, FiniteSetTheorems, SequenceTheorems

-----------------------------------------------------------------------------
(* Numbers: induction as a fact about sets.                                *)

LEMMA LeastNumber ==
  ASSUME NEW T \in SUBSET Nat, T # {}
  PROVE  \E m \in T : \A n \in T : m <= n
  <1> DEFINE R == StrictSubsetOrdering(Nat)
             X == {0..t : t \in T}
  <1>1. X \subseteq FiniteSubsetsOf(Nat) /\ X # {}
    <2>1. \A t \in T : IsFiniteSet(0..t)
      BY FS_Interval
    <2>2. \A t \in T : 0..t \in SUBSET Nat
      OBVIOUS
    <2>3. \A x \in X : x \in SUBSET Nat /\ IsFiniteSet(x)
      BY <2>1, <2>2
    <2>4. X # {}
      OBVIOUS
    <2> HIDE DEF X
    <2> QED BY <2>3, <2>4, Zenon DEF FiniteSubsetsOf
  <1>2. IsWellFoundedOn(R, FiniteSubsetsOf(Nat))
    BY FS_StrictSubsetOrderingWellFounded
  <1> HIDE DEF R
  <1>3. \E x \in X : \A y \in X : ~ (<<y, x>> \in R)
    <2> HIDE DEF X
    <2> QED BY <1>1, <1>2, WFMin
  <1>4. PICK m \in T : \A n \in T : <<0..n, 0..m>> \notin R
    BY <1>3
  <1>5. ASSUME NEW n \in T, n < m PROVE FALSE
    <2>1. 0..n \subseteq Nat /\ 0..m \subseteq Nat /\ 0..n \subseteq 0..m /\ m \in 0..m /\ m \notin 0..n
      BY <1>5
    <2>2. <<0..n, 0..m>> \in R
      BY <2>1 DEF R, StrictSubsetOrdering
    <2> QED BY <1>4, <2>2
  <1> QED BY <1>5

LEMMA Counting ==
  ASSUME NEW S \in SUBSET Nat, 0 \in S, \A n \in S : n + 1 \in S
  PROVE  S = Nat
  <1> SUFFICES ASSUME Nat \ S # {} PROVE FALSE
    OBVIOUS
  <1>1. PICK m \in Nat \ S : \A n \in Nat \ S : m <= n
    BY LeastNumber
  <1>2. m - 1 \in Nat /\ ~(m <= m - 1)
    BY <1>1
  <1>3. m - 1 \in S /\ m = m - 1 + 1
    BY <1>1, <1>2
  <1> QED BY <1>1, <1>3

-----------------------------------------------------------------------------
(* What the heap is at all times.                                          *)

\* The element i of the cell o is the pointer to k.
Holds(h, o, i, k) == o \in DOMAIN h /\ i \in DOMAIN h[o].a /\ h[o].a[i] = k

Laid(h) ==
  /\ h = [c \in DOMAIN h |-> h[c]] /\ IsFiniteSet(DOMAIN h)
  /\ DOMAIN h \subseteq Nat \ {Null} /\ Root \in DOMAIN h /\ h[Root].t \in {"NIL", "HASH"}
  /\ \A c \in DOMAIN h : IsCell(h[c])

\* An element lies behind what owns it: nothing dangles, and nothing owns itself.
Descends(h) ==
  \A o, i, k : Holds(h, o, i, k) /\ k # Null => k \in DOMAIN h /\ k > o

OwnedOnce(h) ==
  \A o, i, p, j, k : Holds(h, o, i, k) /\ Holds(h, p, j, k) /\ k # Null => o = p /\ i = j

Sound(h) == Laid(h) /\ Descends(h) /\ OwnedOnce(h)

LEMMA ScalarFacts ==
  ASSUME NEW v, IsScalar(v)
  PROVE  /\ v.t \in {"NIL", "INT", "BOOL", "STR"} /\ v.a = <<>> /\ (v.t = "NIL" => v = Nil)
         /\ v = [t |-> v.t, n |-> v.n, s |-> v.s, a |-> v.a]
  <1>1. CASE v = Nil
    BY <1>1 DEF Nil, Value
  <1>2. CASE v = Num(v.n)
    BY <1>2 DEF Num, Value
  <1>3. CASE v = Bool(TRUE) \/ v = Bool(FALSE)
    BY <1>3 DEF Bool, Value
  <1>4. CASE v = Str(v.s)
    BY <1>4 DEF Str, Value
  <1> QED BY <1>1, <1>2, <1>3, <1>4 DEF IsScalar

LEMMA CellFacts ==
  ASSUME NEW v, IsCell(v)
  PROVE  /\ v.a \in Seq(Nat) /\ v = [t |-> v.t, n |-> v.n, s |-> v.s, a |-> v.a]
         /\ v.t \notin {"LIST", "HASH"} => v.a = <<>> /\ IsScalar(v)
         /\ v.t \in {"LIST", "HASH"} => ~IsScalar(v)
         /\ v.t = "LIST" => v = List(v.a)
         /\ v.t = "HASH" => /\ v = Hash(v.s, v.a) /\ v.a \in Seq(Nat \ {Null}) /\ v.s \in Seq(Range(v.s))
                            /\ Len(v.s) = Len(v.a) /\ \A i, j \in DOMAIN v.s : v.s[i] = v.s[j] => i = j
         /\ DOMAIN v.a = 1..Len(v.a) /\ Len(v.a) \in Nat
  <1>1. CASE IsScalar(v)
    <2>1. v.a = <<>> /\ v = [t |-> v.t, n |-> v.n, s |-> v.s, a |-> v.a] /\ v.t \notin {"LIST", "HASH"}
      BY <1>1, ScalarFacts
    <2>2. <<>> \in Seq(Nat) /\ Len(<<>>) = 0 /\ DOMAIN <<>> = 1..0
      OBVIOUS
    <2> QED BY <1>1, <2>1, <2>2
  <1>2. CASE v.t = "LIST" /\ v.a \in Seq(Nat) /\ v = List(v.a)
    <2>1. v = [t |-> v.t, n |-> v.n, s |-> v.s, a |-> v.a]
      BY <1>2 DEF Value, List
    <2>2. ~IsScalar(v)
      BY <1>2, ScalarFacts
    <2> QED BY <1>2, <2>1, <2>2
  <1>3. CASE v.t = "HASH" /\ ~IsScalar(v) /\ IsCell(v)
    <2>0. /\ v = Hash(v.s, v.a) /\ v.a \in Seq(Nat \ {Null}) /\ v.s \in Seq(Range(v.s))
          /\ Len(v.s) = Len(v.a) /\ \A i, j \in DOMAIN v.s : v.s[i] = v.s[j] => i = j
      BY <1>3 DEF IsCell
    <2>1. v = [t |-> v.t, n |-> v.n, s |-> v.s, a |-> v.a]
      BY <2>0 DEF Value, Hash
    <2>2. v.a \in Seq(Nat)
      BY <2>0
    <2> QED BY <1>3, <2>0, <2>1, <2>2
  <1>4. v.t = "HASH" => ~IsScalar(v)
    BY ScalarFacts
  <1> QED BY <1>1, <1>2, <1>3, <1>4 DEF IsCell

LEMMA BelowIs ==
  ASSUME NEW h, NEW c \in DOMAIN h
  PROVE  Below(h, c) = {k \in Range(h[c].a) : k # Null}
         /\ \A k : k \in Below(h, c) <=> k # Null /\ \E i : Holds(h, c, i, k)
  BY DEF Below, Range, Holds

-----------------------------------------------------------------------------
(* What a cell owns. *)

Within(h, c) == CHOOSE f : f = [k \in 0..Cardinality(DOMAIN h) |-> IF k = 0 THEN {c} ELSE f[k - 1] \union UNION {Below(h, l) : l \in f[k - 1]}]

LEMMA WithinDef ==
  ASSUME NEW h, NEW c, Cardinality(DOMAIN h) \in Nat
  PROVE  Within(h, c) = [k \in 0..Cardinality(DOMAIN h) |-> IF k = 0 THEN {c} ELSE Within(h, c)[k - 1] \union UNION {Below(h, l) : l \in Within(h, c)[k - 1]}]
  <1> DEFINE Step(x, k) == x \union UNION {Below(h, l) : l \in x}
             Is(f, n) == f = [k \in 0..n |-> IF k = 0 THEN {c} ELSE Step(f[k - 1], k)]
             S == {n \in Nat : \E f : Is(f, n)}
  <1>0. \A f : Is(f, Cardinality(DOMAIN h)) <=> f = [k \in 0..Cardinality(DOMAIN h) |-> IF k = 0 THEN {c} ELSE f[k - 1] \union UNION {Below(h, l) : l \in f[k - 1]}]
    OBVIOUS
  <1> HIDE DEF Step
  <1>1. 0 \in S
    <2>1. Is([k \in 0..0 |-> {c}], 0)
      OBVIOUS
    <2> QED BY <2>1
  <1>2. ASSUME NEW n \in S PROVE n + 1 \in S
    <2>1. PICK f : Is(f, n)
      OBVIOUS
    <2> DEFINE g == [k \in 0..(n + 1) |-> IF k <= n THEN f[k] ELSE Step(f[n], n + 1)]
    <2>2. ASSUME NEW k \in 0..(n + 1)
          PROVE  g[k] = IF k = 0 THEN {c} ELSE Step(g[k - 1], k)
      <3>1. CASE k = 0
        BY <2>1, <3>1
      <3>2. CASE k # 0 /\ k <= n
        <4>1. k - 1 \in 0..n /\ k \in 0..n /\ k - 1 \in 0..(n + 1) /\ k - 1 <= n
          BY <3>2
        <4>2. g[k] = f[k] /\ g[k - 1] = f[k - 1]
          BY <3>2, <4>1
        <4>3. f[k] = Step(f[k - 1], k)
          BY <2>1, <3>2, <4>1
        <4> QED BY <3>2, <4>2, <4>3
      <3>3. CASE k = n + 1
        <4>1. k # 0 /\ k - 1 = n /\ n \in 0..(n + 1) /\ n <= n /\ ~(k <= n)
          BY <3>3
        <4>2. g[k] = Step(f[n], k) /\ g[n] = f[n]
          BY <3>3, <4>1
        <4> QED BY <4>1, <4>2
      <3> QED BY <3>1, <3>2, <3>3
    <2>3. Is(g, n + 1)
      <3>1. g = [k \in 0..(n + 1) |-> g[k]]
        OBVIOUS
      <3> HIDE DEF g
      <3> QED BY <2>2, <3>1
    <2> HIDE DEF g, Is
    <2> QED BY <2>3
  <1> HIDE DEF Is
  <1>3. S = Nat
    <2> HIDE DEF S
    <2> QED BY <1>1, <1>2, Counting DEF S
  <1>4. PICK f : Is(f, Cardinality(DOMAIN h))
    BY <1>3
  <1>5. f = [k \in 0..Cardinality(DOMAIN h) |-> IF k = 0 THEN {c} ELSE f[k - 1] \union UNION {Below(h, l) : l \in f[k - 1]}]
    BY <1>0, <1>4
  <1> QED BY <1>5 DEF Within

LEMMA WithinSteps ==
  ASSUME NEW h, NEW c, Cardinality(DOMAIN h) \in Nat
  PROVE  /\ Within(h, c)[0] = {c}
         /\ \A j \in 0..(Cardinality(DOMAIN h) - 1) : Within(h, c)[j + 1] = Within(h, c)[j] \union UNION {Below(h, l) : l \in Within(h, c)[j]}
  <1> DEFINE n == Cardinality(DOMAIN h)
             f == Within(h, c)
             Step(x, k) == x \union UNION {Below(h, l) : l \in x}
  <1>1. f = [k \in 0..n |-> IF k = 0 THEN {c} ELSE Step(f[k - 1], k)]
    BY WithinDef
  <1>0. n \in Nat
    OBVIOUS
  <1>9. \A x, k : Step(x, k) = x \union UNION {Below(h, l) : l \in x}
    OBVIOUS
  <1> HIDE DEF f, n, Step
  <1>2. f[0] = {c}
    <2>1. 0 \in 0..n
      BY <1>0
    <2> QED BY <1>1, <2>1
  <1>3. ASSUME NEW j \in 0..(n - 1) PROVE f[j + 1] = Step(f[j], j + 1)
    <2> DEFINE i == j + 1
    <2>1. i \in 0..n /\ i # 0 /\ i - 1 = j
      BY <1>0
    <2> HIDE DEF i
    <2>2. f[i] = Step(f[i - 1], i)
      BY <1>1, <2>1, Zenon
    <2> QED BY <2>1, <2>2 DEF i
  <1> QED BY <1>2, <1>3, <1>9 DEF f, n

LEMMA ReachIs ==
  ASSUME NEW h, NEW c
  PROVE  Reach(h, c) = Within(h, c)[Cardinality(DOMAIN h)]
  BY DEF Reach, Within

Closed(h, X) == \A k \in X : Below(h, k) \subseteq X

\* A cell reaches itself and what its own own, each by way of its owner, and no more.
LEMMA Reached ==
  ASSUME NEW h, Laid(h), Descends(h), NEW c \in DOMAIN h
  PROVE  /\ c \in Reach(h, c) /\ Reach(h, c) \subseteq DOMAIN h /\ Closed(h, Reach(h, c))
         /\ \A k \in Reach(h, c) : k >= c
         /\ \A k \in Reach(h, c) : k = c \/ \E o \in Reach(h, c) : k \in Below(h, o)
         /\ \A X : c \in X /\ Closed(h, X) => Reach(h, c) \subseteq X
  <1> DEFINE n == Cardinality(DOMAIN h)
             w == Within(h, c)
             More(X) == X \union UNION {Below(h, l) : l \in X}
             Good(X) == /\ c \in X /\ X \subseteq DOMAIN h /\ \A k \in X : k >= c
                        /\ \A k \in X : k = c \/ \E o \in X : k \in Below(h, o)
                        /\ \A Y : c \in Y /\ Closed(h, Y) => X \subseteq Y
  <1>1. n \in Nat /\ IsFiniteSet(DOMAIN h)
    BY FS_CardinalityType DEF Laid
  <1>2. w[0] = {c} /\ \A j \in 0..(n - 1) : w[j + 1] = More(w[j])
    BY <1>1, WithinSteps
  <1>3. \A k \in DOMAIN h : Below(h, k) \subseteq DOMAIN h /\ k \in Nat /\ \A l \in Below(h, k) : l \in Nat /\ l > k
    BY BelowIs DEF Laid, Descends
  <1>4. Reach(h, c) = w[n]
    BY ReachIs
  <1> HIDE DEF n, w
  <1>5. Good({c})
    BY <1>3
  <1>6. ASSUME NEW X, Good(X) PROVE Good(More(X))
    <2>1. c \in More(X) /\ More(X) \subseteq DOMAIN h
      BY <1>3, <1>6
    <2>2. \A k \in More(X) : k >= c
      <3>1. \A l \in X : \A k \in Below(h, l) : k >= c
        BY <1>3, <1>6
      <3> QED BY <1>6, <3>1
    <2>3. \A k \in More(X) : k = c \/ \E o \in More(X) : k \in Below(h, o)
      BY <1>6
    <2>4. ASSUME NEW Y, c \in Y, Closed(h, Y) PROVE More(X) \subseteq Y
      BY <1>6, <2>4 DEF Closed
    <2> QED BY <2>1, <2>2, <2>3, <2>4
  <1>7. ASSUME NEW X, Closed(h, X) PROVE More(X) = X
    BY <1>7 DEF Closed
  <1>8. ASSUME NEW X, ~Closed(h, X) PROVE X \subseteq More(X) /\ X # More(X)
    BY <1>8 DEF Closed
  <1> HIDE DEF More
  <1> DEFINE Big(j, X) == Good(X) /\ (Closed(h, X) \/ Cardinality(X) >= j + 1)
             S == {j \in Nat : j <= n => Big(j, w[j])}
  <1>9. 0 \in S
    <2>1. Cardinality({c}) = 1
      BY FS_Singleton
    <2> QED BY <1>2, <1>5, <2>1
  <1>10. ASSUME NEW j \in S PROVE j + 1 \in S
    <2> SUFFICES ASSUME j + 1 <= n PROVE Big(j + 1, w[j + 1])
      OBVIOUS
    <2>1. j <= n /\ j \in 0..(n - 1)
      BY <1>1
    <2> DEFINE X == w[j]
               Y == w[j + 1]
    <2>2. Big(j, X) /\ Y = More(X)
      BY <1>2, <2>1
    <2> HIDE DEF X, Y
    <2>3. Good(Y)
      BY <1>6, <2>2
    <2>4. ASSUME Closed(h, X) PROVE Big(j + 1, Y)
      <3>1. Y = X
        BY <1>7, <2>2, <2>4
      <3> QED BY <2>3, <2>4, <3>1
    <2>5. ASSUME ~Closed(h, X) PROVE Big(j + 1, Y)
      <3>1. X \subseteq Y /\ X # Y /\ Y \subseteq DOMAIN h
        BY <1>8, <2>2, <2>3, <2>5
      <3>2. IsFiniteSet(Y) /\ Cardinality(Y) \in Nat
        BY <1>1, <3>1, FS_Subset, FS_CardinalityType
      <3>3. IsFiniteSet(X) /\ Cardinality(X) \in Nat
        BY <3>1, <3>2, FS_Subset, FS_CardinalityType
      <3>4. Cardinality(X) <= Cardinality(Y) /\ Cardinality(X) # Cardinality(Y)
        BY <3>1, <3>2, FS_Subset
      <3>5. Cardinality(X) >= j + 1
        BY <2>2, <2>5
      <3>6. Cardinality(Y) >= j + 1 + 1
        BY <3>2, <3>3, <3>4, <3>5
      <3> QED BY <2>3, <3>6
    <2> QED BY <2>4, <2>5 DEF Y
  <1> HIDE DEF Big
  <1>11. S = Nat
    <2> HIDE DEF S
    <2> QED BY <1>9, <1>10, Counting DEF S
  <1>12. Big(n, w[n])
    BY <1>1, <1>11
  <1>13. Closed(h, w[n])
    <2>1. w[n] \subseteq DOMAIN h
      BY <1>12 DEF Big
    <2>2. Cardinality(w[n]) <= n
      BY <1>1, <2>1, FS_Subset DEF n
    <2>3. IsFiniteSet(w[n]) /\ Cardinality(w[n]) \in Nat
      BY <1>1, <2>1, FS_Subset, FS_CardinalityType
    <2> QED BY <1>1, <1>12, <2>2, <2>3 DEF Big
  <1> QED BY <1>4, <1>12, <1>13 DEF Big

-----------------------------------------------------------------------------
(* Addresses. *)

LEMMA Largest ==
  ASSUME NEW S \in SUBSET Nat, IsFiniteSet(S), S # {}
  PROVE  Max(S) \in S /\ \A y \in S : y <= Max(S)
  <1> DEFINE HasMax(T) == \E m \in T : \A y \in T : y <= m
             N == {n \in Nat : \A T \in SUBSET Nat :
                                 IsFiniteSet(T) /\ Cardinality(T) = n + 1 => HasMax(T)}
  <1>1. 0 \in N
    <2> SUFFICES ASSUME NEW T \in SUBSET Nat, IsFiniteSet(T), Cardinality(T) = 0 + 1 PROVE HasMax(T)
      OBVIOUS
    <2>0. Cardinality(T) = 1
      OBVIOUS
    <2>1. PICK x : T = {x}
      BY <2>0, FS_Singleton, Zenon
    <2> QED BY <2>1
  <1>2. ASSUME NEW n \in N PROVE n + 1 \in N
    <2> SUFFICES ASSUME NEW T \in SUBSET Nat, IsFiniteSet(T), Cardinality(T) = n + 1 + 1 PROVE HasMax(T)
      OBVIOUS
    <2>0. Cardinality(T) # 0 /\ n + 1 + 1 - 1 = n + 1
      OBVIOUS
    <2>1. PICK x \in T : TRUE
      BY <2>0, FS_EmptySet
    <2>2. IsFiniteSet(T \ {x}) /\ Cardinality(T \ {x}) = n + 1 /\ T \ {x} \in SUBSET Nat
      BY <2>0, <2>1, FS_RemoveElement
    <2>3. PICK m \in T \ {x} : \A y \in T \ {x} : y <= m
      BY <2>2
    <2>4. x \in Nat /\ m \in Nat /\ \A y \in T : y \in Nat /\ (y = x \/ y <= m)
      BY <2>1, <2>3
    <2>5. x <= m \/ \A y \in T : y <= x
      BY <2>4
    <2> QED BY <2>1, <2>3, <2>4, <2>5
  <1>3. N = Nat
    <2> HIDE DEF N
    <2> QED BY <1>1, <1>2, Counting DEF N
  <1>4. Cardinality(S) \in Nat /\ Cardinality(S) # 0
    BY FS_CardinalityType, FS_EmptySet
  <1>5. Cardinality(S) - 1 \in N /\ Cardinality(S) - 1 + 1 = Cardinality(S)
    BY <1>3, <1>4
  <1>6. HasMax(S)
    BY <1>5
  <1> QED BY <1>6 DEF Max

LEMMA LastAddress ==
  ASSUME NEW h, Laid(h)
  PROVE  /\ Max(DOMAIN h) \in Nat /\ Max(DOMAIN h) \in DOMAIN h
         /\ \A c \in DOMAIN h : c \in Nat /\ c <= Max(DOMAIN h)
  <1>1. DOMAIN h \in SUBSET Nat /\ IsFiniteSet(DOMAIN h) /\ DOMAIN h # {}
    BY DEF Laid
  <1> QED BY <1>1, Largest

\* The heap lets nothing of it be touched and grows behind its end.
Grown(h, g) ==
  /\ Sound(g) /\ DOMAIN h \subseteq DOMAIN g
  /\ \A c \in DOMAIN h : g[c] = h[c]
  /\ \A c \in DOMAIN g \ DOMAIN h : \A d \in DOMAIN h : c > d
  /\ \A o, i, k : Holds(g, o, i, k) /\ k \in DOMAIN h => o \in DOMAIN h

Injected(h, g, p) == Grown(h, g) /\ p \in DOMAIN g \ DOMAIN h /\ Unowned(g) = Unowned(h) \union {p}

LEMMA UnownedIs ==
  ASSUME NEW h, Laid(h), NEW c
  PROVE  c \in Unowned(h) <=> c \in DOMAIN h /\ c # Root /\ \A o, i : ~Holds(h, o, i, c)
  <1>1. \A o \in DOMAIN h : c \in Below(h, o) <=> c # Null /\ \E i : Holds(h, o, i, c)
    BY BelowIs
  <1>2. c \in DOMAIN h => c # Null
    BY DEF Laid
  <1>3. \A o, i : Holds(h, o, i, c) => o \in DOMAIN h
    BY DEF Holds
  <1> QED BY <1>1, <1>2, <1>3 DEF Unowned

LEMMA GrownNothing ==
  ASSUME NEW h, Sound(h) PROVE Grown(h, h)
  BY DEF Grown, Holds

LEMMA GrownTwice ==
  ASSUME NEW h, NEW g, NEW f, Grown(h, g), Grown(g, f)
  PROVE  Grown(h, f)
  <1>1. \A o, i, k : Holds(f, o, i, k) /\ o \in DOMAIN g => Holds(g, o, i, k)
    BY DEF Grown, Holds
  <1>2. ASSUME NEW c \in DOMAIN f \ DOMAIN h, NEW d \in DOMAIN h PROVE c > d
    BY <1>2 DEF Grown
  <1> QED BY <1>1, <1>2 DEF Grown

LEMMA Created ==
  ASSUME NEW h, Sound(h), NEW v, IsCell(v), v.a = <<>>
  PROVE  /\ Injected(h, New(h, v).h, New(h, v).p)
         /\ New(h, v).h[New(h, v).p] = v
  <1> DEFINE c == Max(DOMAIN h) + 1
             g == Beside(h, [d \in {c} |-> v])
  <1>1. New(h, v).h = g /\ New(h, v).p = c
    BY DEF New, At
  <1>2. c \in Nat \ {Null} /\ c \notin DOMAIN h /\ \A d \in DOMAIN h : c > d
    BY LastAddress DEF Sound, Null
  <1>3. /\ DOMAIN g = DOMAIN h \union {c} /\ g[c] = v
        /\ \A d \in DOMAIN h : g[d] = h[d]
        /\ g = [d \in DOMAIN g |-> g[d]]
    BY <1>2 DEF Beside
  <1> HIDE DEF c, g
  <1>4. \A o, i, k : Holds(g, o, i, k) <=> Holds(h, o, i, k)
    BY <1>2, <1>3 DEF Holds
  <1>5. Laid(g)
    <2>1. IsFiniteSet(DOMAIN g)
      BY <1>3, FS_AddElement DEF Sound, Laid
    <2> QED BY <1>2, <1>3, <2>1 DEF Sound, Laid
  <1>6. Sound(g)
    BY <1>3, <1>4, <1>5 DEF Sound, Descends, OwnedOnce
  <1>7. Grown(h, g)
    BY <1>2, <1>3, <1>4, <1>6 DEF Grown, Holds
  <1>8. \A o, i : ~Holds(h, o, i, c)
    BY <1>2 DEF Sound, Descends
  <1>9. \A x : x \in Unowned(g) <=> x \in Unowned(h) \/ x = c
    BY <1>2, <1>3, <1>4, <1>5, <1>8, UnownedIs DEF Sound, Laid
  <1> QED BY <1>1, <1>2, <1>3, <1>7, <1>9 DEF Injected

LEMMA CellSet ==
  ASSUME NEW v, IsCell(v), NEW a \in Seq(Nat), Len(a) = Len(v.a), v.t = "HASH" => a \in Seq(Nat \ {Null})
  PROVE  IsCell([v EXCEPT !.a = a])
  <1> DEFINE w == [v EXCEPT !.a = a]
  <1>1. v = [t |-> v.t, n |-> v.n, s |-> v.s, a |-> v.a] /\ v.a \in Seq(Nat)
    BY CellFacts
  <1>2. w.t = v.t /\ w.n = v.n /\ w.s = v.s /\ w.a = a /\ w = [t |-> v.t, n |-> v.n, s |-> v.s, a |-> a]
    BY <1>1
  <1> HIDE DEF w
  <1>3. CASE IsScalar(v)
    <2>1. v.a = <<>>
      BY <1>3, ScalarFacts
    <2>2. a = <<>>
      BY <2>1
    <2>3. w = v
      BY <1>1, <1>2, <2>1, <2>2
    <2> QED BY <2>3 DEF w
  <1>4. CASE v.t = "LIST" /\ v = List(v.a)
    <2>1. w = List(w.a)
      BY <1>2, <1>4 DEF List, Value
    <2> QED BY <1>2, <1>4, <2>1 DEF IsCell, w
  <1>5. CASE v.t = "HASH" /\ v = Hash(v.s, v.a)
    <2>1. w = Hash(w.s, w.a)
      BY <1>2, <1>5 DEF Hash, Value
    <2>2. /\ v.s \in Seq(Range(v.s)) /\ Len(v.s) = Len(v.a)
          /\ \A i, j \in DOMAIN v.s : v.s[i] = v.s[j] => i = j
      BY <1>5, CellFacts
    <2> QED BY <1>2, <1>5, <2>1, <2>2 DEF IsCell, w
  <1> QED BY <1>3, <1>4, <1>5 DEF IsCell

LEMMA Cloned ==
  ASSUME NEW h, Sound(h), NEW c \in DOMAIN h
  PROVE  Injected(h, CreateClone(h, c).h, CreateClone(h, c).p)
  <1> DEFINE b == Max(DOMAIN h)
             R == Reach(h, c)
             Moved(p) == IF p = Null THEN Null ELSE p + b
             copies == [k \in {Moved(j) : j \in R} |->
                          [h[k - b] EXCEPT !.a = [i \in DOMAIN @ |-> Moved(@[i])]]]
             g == Beside(h, copies)
  <1>1. CreateClone(h, c).h = g /\ CreateClone(h, c).p = Moved(c)
    BY DEF CreateClone, At
  <1>2. /\ b \in Nat /\ b >= 1 /\ c \in Nat \ {Null}
        /\ \A d \in DOMAIN h : d \in Nat /\ d # Null /\ d <= b
    BY LastAddress DEF Sound, Laid, Null
  <1>3. /\ c \in R /\ R \subseteq DOMAIN h /\ Closed(h, R)
        /\ \A k \in R : k >= c
        /\ \A k \in R : k = c \/ \E o \in R : k \in Below(h, o)
    BY Reached DEF Sound
  <1>4. \A j \in R : Moved(j) = j + b /\ j + b - b = j /\ j + b \notin DOMAIN h /\ j + b \in Nat \ {Null}
    BY <1>2, <1>3 DEF Null
  <1> HIDE DEF R, b
  <1>5. /\ DOMAIN g = DOMAIN h \union {Moved(j) : j \in R}
        /\ g = [d \in DOMAIN g |-> g[d]]
        /\ \A d \in DOMAIN h : g[d] = h[d]
    BY DEF Beside
  <1>6. ASSUME NEW j \in R
        PROVE  g[j + b] = [h[j] EXCEPT !.a = [i \in DOMAIN @ |-> Moved(@[i])]]
    <2>1. j + b \in {Moved(l) : l \in R} /\ j + b \notin DOMAIN h
      BY <1>4
    <2> DEFINE d == j + b
    <2>0. d \in {Moved(l) : l \in R} /\ d - b = j
      <3>1. j + b - b = j
        BY <1>2, <1>3
      <3> HIDE DEF Moved, copies, g
      <3>2. d \in {Moved(l) : l \in R}
        BY <2>1, Zenon
      <3>3. d - b = j
        BY <1>2, <1>3, <3>1 DEF d
      <3> HIDE DEF d
      <3> QED BY <3>2, <3>3
    <2>2. copies[j + b] = [h[j] EXCEPT !.a = [i \in DOMAIN @ |-> Moved(@[i])]]
      <3> HIDE DEF d, Moved, R
      <3>1. copies[d] = [h[d - b] EXCEPT !.a = [i \in DOMAIN @ |-> Moved(@[i])]]
        BY <2>0
      <3> QED BY <2>0, <3>1 DEF d
    <2> HIDE DEF copies, Moved
    <2>3. g[j + b] = copies[j + b]
      BY <2>1, <1>5 DEF Beside, copies
    <2> QED BY <2>2, <2>3
  <1>7. \A d : d \in DOMAIN g <=> d \in DOMAIN h \/ \E j \in R : d = j + b
    BY <1>4, <1>5
  <1>8. IsFiniteSet(DOMAIN g)
    <2>1. DOMAIN g \subseteq 0..(b + b)
      BY <1>2, <1>3, <1>7
    <2>2. IsFiniteSet(0..(b + b))
      BY <1>2, FS_Interval
    <2> QED BY <2>1, <2>2, FS_Subset
  <1>9. ASSUME NEW j \in R
        PROVE  /\ IsCell(g[j + b]) /\ DOMAIN g[j + b].a = DOMAIN h[j].a
               /\ \A i \in DOMAIN h[j].a : h[j].a[i] \in Nat /\ g[j + b].a[i] = Moved(h[j].a[i])
    <2> DEFINE v == h[j]
               a == [i \in DOMAIN v.a |-> Moved(v.a[i])]
    <2>1. IsCell(v) /\ v.a \in Seq(Nat) /\ v = [t |-> v.t, n |-> v.n, s |-> v.s, a |-> v.a]
      BY <1>3, CellFacts DEF Sound, Laid
    <2>2. DOMAIN v.a = 1..Len(v.a) /\ Len(v.a) \in Nat /\ \A i \in DOMAIN v.a : v.a[i] \in Nat
      BY <2>1
    <2>3. \A i \in DOMAIN v.a : Moved(v.a[i]) \in Nat /\ (v.a[i] # Null => Moved(v.a[i]) # Null)
      BY <1>2, <2>2 DEF Null
    <2>8. v.t = "HASH" => \A i \in DOMAIN v.a : v.a[i] # Null
      BY <2>1, CellFacts
    <2> HIDE DEF v, Moved
    <2>4. a \in Seq(Nat) /\ Len(a) = Len(v.a) /\ DOMAIN a = DOMAIN v.a
      BY <2>2, <2>3
    <2>9. v.t = "HASH" => a \in Seq(Nat \ {Null})
      BY <2>2, <2>3, <2>8
    <2>5. \A i \in DOMAIN v.a : a[i] = Moved(v.a[i])
      OBVIOUS
    <2>6. g[j + b] = [v EXCEPT !.a = a]
      BY <1>6 DEF v
    <2> HIDE DEF a, g
    <2>7. IsCell(g[j + b]) /\ g[j + b].a = a
      BY <2>1, <2>4, <2>6, <2>9, CellSet
    <2> QED BY <2>2, <2>4, <2>5, <2>7 DEF v
  <1> HIDE DEF g, copies, R, b
  <1>10. /\ \A o, i, k : o \in DOMAIN h => (Holds(g, o, i, k) <=> Holds(h, o, i, k))
         /\ \A j \in R : \A i, l : Holds(h, j, i, l) => Holds(g, j + b, i, Moved(l))
         /\ \A j \in R : \A i, k : Holds(g, j + b, i, k) => \E l : Holds(h, j, i, l) /\ k = Moved(l)
    <2> HIDE DEF Moved
    <2>1. \A o, i, k : o \in DOMAIN h => (Holds(g, o, i, k) <=> Holds(h, o, i, k))
      BY <1>5 DEF Holds
    <2>2. ASSUME NEW j \in R, NEW i, NEW l, Holds(h, j, i, l) PROVE Holds(g, j + b, i, Moved(l))
      <3>1. j + b \in DOMAIN g
        BY <1>7
      <3> QED BY <2>2, <3>1, <1>9 DEF Holds
    <2>3. ASSUME NEW j \in R, NEW i, NEW k, Holds(g, j + b, i, k) 
          PROVE  \E l : Holds(h, j, i, l) /\ k = Moved(l)
      <3>1. i \in DOMAIN h[j].a /\ k = Moved(h[j].a[i])
        BY <1>9, <2>3 DEF Holds
      <3> QED BY <1>3, <3>1 DEF Holds
    <2> QED BY <2>1, <2>2, <2>3
  <1>11. \A j \in R : \A i, l : Holds(h, j, i, l) => l = Null \/ (l \in R /\ l > j)
    <2>1. \A j \in R : \A i, l : Holds(h, j, i, l) /\ l # Null => l \in Below(h, j)
      BY <1>3, BelowIs
    <2> QED BY <1>3, <2>1 DEF Closed, Sound, Descends
  <1>12. \A j \in R : \A i, k : Holds(g, j + b, i, k) =>
            k = Null \/ \E l \in R : Holds(h, j, i, l) /\ k = l + b /\ k > j + b
    <2> SUFFICES ASSUME NEW j \in R, NEW i, NEW k, Holds(g, j + b, i, k), k # Null
                 PROVE  \E l \in R : Holds(h, j, i, l) /\ k = l + b /\ k > j + b
      OBVIOUS
    <2>1. PICK l : Holds(h, j, i, l) /\ k = Moved(l)
      BY <1>10
    <2>2. l # Null
      BY <2>1
    <2>3. l \in R /\ l > j /\ l \in Nat /\ j \in Nat
      BY <1>2, <1>3, <1>11, <2>1, <2>2
    <2>4. k = l + b /\ k > j + b
      BY <1>2, <2>1, <2>2, <2>3
    <2> QED BY <2>1, <2>3, <2>4
  <1>13. Laid(g)
    <2>1. \A d \in DOMAIN g : IsCell(g[d]) /\ d \in Nat \ {Null}
      BY <1>4, <1>5, <1>7, <1>9 DEF Sound, Laid
    <2> QED BY <1>5, <1>7, <1>8, <2>1 DEF Sound, Laid
  <1>14. Descends(g)
    <2> SUFFICES ASSUME NEW o, NEW i, NEW k, Holds(g, o, i, k), k # Null PROVE k \in DOMAIN g /\ k > o
      BY DEF Descends
    <2>1. CASE o \in DOMAIN h
      BY <1>7, <1>10, <2>1 DEF Sound, Descends
    <2>2. CASE o \notin DOMAIN h
      <3>1. PICK j \in R : o = j + b
        BY <1>7, <2>2 DEF Holds
      <3> QED BY <1>7, <1>12, <3>1
    <2> QED BY <2>1, <2>2
  <1>15. \A o, i, k : Holds(g, o, i, k) /\ k # Null => (k \in DOMAIN h <=> o \in DOMAIN h)
    <2> SUFFICES ASSUME NEW o, NEW i, NEW k, Holds(g, o, i, k), k # Null
                 PROVE  k \in DOMAIN h <=> o \in DOMAIN h
      OBVIOUS
    <2>1. CASE o \in DOMAIN h
      BY <1>10, <2>1 DEF Sound, Descends
    <2>2. CASE o \notin DOMAIN h
      <3>1. PICK j \in R : o = j + b
        BY <1>7, <2>2 DEF Holds
      <3>2. PICK l \in R : k = l + b
        BY <1>12, <3>1
      <3> QED BY <1>4, <2>2, <3>2
    <2> QED BY <2>1, <2>2
  <1>16. OwnedOnce(g)
    <2> SUFFICES ASSUME NEW o, NEW i, NEW p, NEW j, NEW k, Holds(g, o, i, k), Holds(g, p, j, k), k # Null
                 PROVE  o = p /\ i = j
      BY DEF OwnedOnce
    <2>1. CASE k \in DOMAIN h
      BY <1>10, <1>15, <2>1 DEF Sound, OwnedOnce
    <2>2. CASE k \notin DOMAIN h
      <3>1. o \notin DOMAIN h /\ p \notin DOMAIN h
        BY <1>15, <2>2
      <3>2. PICK q \in R, r \in R : o = q + b /\ p = r + b
        BY <1>7, <3>1 DEF Holds
      <3>3. PICK l \in R, m \in R : Holds(h, q, i, l) /\ k = l + b /\ Holds(h, r, j, m) /\ k = m + b
        BY <1>12, <3>2
      <3>4. l = m /\ l # Null
        BY <1>2, <1>3, <3>3
      <3>5. q = r /\ i = j
        BY <3>3, <3>4 DEF Sound, OwnedOnce
      <3> QED BY <3>2, <3>5
    <2> QED BY <2>1, <2>2
  <1>17. Grown(h, g)
    <2>1. ASSUME NEW d \in DOMAIN g \ DOMAIN h, NEW e \in DOMAIN h PROVE d > e
      <3>1. PICK j \in R : d = j + b
        BY <1>7, <2>1
      <3> QED BY <1>2, <1>3, <3>1 DEF Null
    <2>2. \A k \in DOMAIN h : k # Null
      BY <1>2
    <2> QED BY <1>5, <1>13, <1>14, <1>15, <1>16, <2>1, <2>2 DEF Grown, Sound
  <1>18. c + b \in DOMAIN g \ DOMAIN h /\ Moved(c) = c + b
    BY <1>3, <1>4, <1>7
  <1>19. \A d : d \in Unowned(g) <=> d \in Unowned(h) \/ d = c + b
    <2> SUFFICES ASSUME NEW d \in DOMAIN g PROVE d \in Unowned(g) <=> d \in Unowned(h) \/ d = c + b
      BY <1>13, <1>18, <1>5, UnownedIs DEF Sound
    <2>1. CASE d \in DOMAIN h
      <3>1. \A o, i : Holds(g, o, i, d) <=> Holds(h, o, i, d)
        <4>1. d # Null /\ \A o, i : Holds(g, o, i, d) => o \in DOMAIN h
          BY <1>2, <1>15, <2>1
        <4>2. \A o, i : Holds(h, o, i, d) => o \in DOMAIN h
          BY DEF Holds
        <4> QED BY <1>10, <4>1, <4>2
      <3>2. d \in Unowned(g) <=> d # Root /\ \A o, i : ~Holds(g, o, i, d)
        BY <1>13, UnownedIs
      <3>3. d \in Unowned(h) <=> d # Root /\ \A o, i : ~Holds(h, o, i, d)
        BY <2>1, UnownedIs DEF Sound
      <3>4. d # c + b
        BY <1>18, <2>1
      <3> QED BY <3>1, <3>2, <3>3, <3>4
    <2>2. CASE d \notin DOMAIN h
      <3>1. PICK j \in R : d = j + b
        BY <1>7, <2>2
      <3>2. d # Root /\ d \notin Unowned(h)
        BY <2>2, UnownedIs DEF Sound, Laid
      <3>3. CASE j = c
        <4>1. ASSUME NEW o, NEW i, Holds(g, o, i, d) PROVE FALSE
          <5>1. o \notin DOMAIN h
            BY <1>2, <1>4, <1>15, <2>2, <3>1, <4>1
          <5>2. PICK q \in R : o = q + b
            BY <1>7, <4>1, <5>1 DEF Holds
          <5>3. d # Null
            BY <1>4, <3>1
          <5>4. d > q + b
            BY <1>12, <4>1, <5>2, <5>3
          <5> QED BY <1>2, <1>3, <3>1, <3>3, <5>4
        <4> QED BY <1>13, <3>1, <3>2, <3>3, <4>1, UnownedIs
      <3>4. CASE j # c
        <4>1. PICK o \in R : j \in Below(h, o)
          BY <1>3, <3>4
        <4>2. PICK i : Holds(h, o, i, j)
          BY <1>3, <4>1, BelowIs
        <4>3. Holds(g, o + b, i, d)
          BY <1>4, <1>10, <3>1, <4>2
        <4>4. d # c + b
          BY <1>2, <1>3, <3>1, <3>4
        <4> QED BY <1>13, <3>2, <4>3, <4>4, UnownedIs
      <3> QED BY <3>3, <3>4
    <2> QED BY <2>1, <2>2
  <1> QED BY <1>1, <1>17, <1>18, <1>19 DEF Injected

-----------------------------------------------------------------------------
(* Freeing, and putting a variable in its place. *)

\* Nothing that is left points to what was freed, but for the pointer that freed it.
LEMMA Freed ==
  ASSUME NEW h, Sound(h), NEW c \in DOMAIN h, c # Root
  PROVE  LET g == Delete(h, c)
         IN  /\ Laid(g) /\ OwnedOnce(g) /\ DOMAIN g = DOMAIN h \ Reach(h, c)
             /\ \A d \in DOMAIN g : g[d] = h[d]
             /\ \A o, i, k : Holds(g, o, i, k) => Holds(h, o, i, k) /\ (k \in Reach(h, c) => k = c)
             /\ \A d \in DOMAIN g : \A o, i : Holds(h, o, i, d) => Holds(g, o, i, d)
             /\ \A d \in Reach(h, c) : d >= c /\ (d = c \/ \E o, i : Holds(h, o, i, d))
  <1> DEFINE g == Delete(h, c)
             R == Reach(h, c)
  <1>1. c \in Nat /\ c # Null /\ c > Root
    BY DEF Sound, Laid, Null, Root
  <1>2. g = [d \in DOMAIN h \ R |-> h[d]]
    BY <1>1 DEF Delete, Without
  <1>3. /\ c \in R /\ R \subseteq DOMAIN h /\ Closed(h, R)
        /\ \A k \in R : k >= c
        /\ \A k \in R : k = c \/ \E o \in R : k \in Below(h, o)
    BY Reached DEF Sound
  <1> HIDE DEF R, g
  <1>4. DOMAIN g = DOMAIN h \ R /\ (\A d \in DOMAIN g : g[d] = h[d]) /\ g = [d \in DOMAIN g |-> g[d]]
    BY <1>2
  <1>5. Laid(g)
    <2>1. IsFiniteSet(DOMAIN g)
      <3>1. IsFiniteSet(DOMAIN h)
        BY DEF Sound, Laid
      <3>2. IsFiniteSet(DOMAIN h \ R)
        BY <3>1, FS_Difference
      <3> QED BY <1>4, <3>2
    <2>2. Root \notin R
      BY <1>1, <1>3 DEF Root
    <2> QED BY <1>4, <2>1, <2>2 DEF Sound, Laid
  <1>6. \A o, i, k : Holds(g, o, i, k) <=> Holds(h, o, i, k) /\ o \notin R
    BY <1>4 DEF Holds
  <1>7. \A o, i, k : Holds(h, o, i, k) /\ k # Null /\ o \in R => k \in R
    BY <1>3, BelowIs DEF Closed, Holds
  <1>8. \A k \in R : k = c \/ \E o \in R : \E i : Holds(h, o, i, k)
    BY <1>3, BelowIs
  <1>9. OwnedOnce(g)
    BY <1>6 DEF OwnedOnce, Sound
  <1>10. ASSUME NEW o, NEW i, NEW k, Holds(g, o, i, k), k \in R PROVE k = c
    <2>1. CASE k # c
      <3>1. PICK p \in R : \E j : Holds(h, p, j, k)
        BY <1>8, <1>10, <2>1
      <3>2. k # Null
        BY <1>3, <1>10 DEF Sound, Laid
      <3>3. o = p
        BY <1>6, <1>10, <3>1, <3>2 DEF Sound, OwnedOnce
      <3> QED BY <1>6, <1>10, <3>1, <3>3
    <2> QED BY <2>1
  <1>11. \A d \in DOMAIN g : d # Null /\ d \notin R
    BY <1>4 DEF Sound, Laid
  <1>12. \A d \in DOMAIN g : \A o, i : Holds(h, o, i, d) => Holds(g, o, i, d)
    BY <1>6, <1>7, <1>11
  <1> QED BY <1>3, <1>4, <1>5, <1>6, <1>8, <1>9, <1>10, <1>12 DEF R, g

\* A variable that nobody owns goes with all it owns, and nothing else is lost.
LEMMA FreedUnowned ==
  ASSUME NEW h, Sound(h), NEW c \in Unowned(h)
  PROVE  LET g == Delete(h, c)
         IN  /\ Sound(g) /\ Unowned(g) = Unowned(h) \ {c}
             /\ DOMAIN g = DOMAIN h \ Reach(h, c) /\ \A d \in DOMAIN g : g[d] = h[d]
             /\ \A d \in Reach(h, c) : d >= c
             /\ \A o, i, k : Holds(g, o, i, k) => Holds(h, o, i, k)
  <1> DEFINE g == Delete(h, c)
             R == Reach(h, c)
  <1>1. c \in DOMAIN h /\ c # Root /\ \A o, i : ~Holds(h, o, i, c)
    BY UnownedIs DEF Sound
  <1>2. /\ Laid(g) /\ OwnedOnce(g) /\ DOMAIN g = DOMAIN h \ R
        /\ \A d \in DOMAIN g : g[d] = h[d]
        /\ \A o, i, k : Holds(g, o, i, k) => Holds(h, o, i, k) /\ (k \in R => k = c)
        /\ \A d \in DOMAIN g : \A o, i : Holds(h, o, i, d) => Holds(g, o, i, d)
        /\ \A d \in R : d >= c /\ (d = c \/ \E o, i : Holds(h, o, i, d))
    BY <1>1, Freed
  <1>3. c \in R
    BY <1>1, Reached DEF Sound
  <1> HIDE DEF g, R
  <1>4. Descends(g)
    BY <1>1, <1>2 DEF Sound, Descends
  <1>5. \A d : d \in Unowned(g) <=> d \in Unowned(h) /\ d # c
    <2> SUFFICES ASSUME NEW d PROVE d \in Unowned(g) <=> d \in Unowned(h) /\ d # c
      OBVIOUS
    <2>1. d \in Unowned(g) <=> d \in DOMAIN g /\ d # Root /\ \A o, i : ~Holds(g, o, i, d)
      BY <1>2, UnownedIs
    <2>2. d \in Unowned(h) <=> d \in DOMAIN h /\ d # Root /\ \A o, i : ~Holds(h, o, i, d)
      BY UnownedIs DEF Sound
    <2>3. CASE d \in DOMAIN g
      BY <1>2, <1>3, <2>1, <2>2, <2>3
    <2>4. CASE d \notin DOMAIN g
      BY <1>2, <2>1, <2>2, <2>4
    <2> QED BY <2>3, <2>4
  <1> QED BY <1>2, <1>4, <1>5 DEF g, R, Sound

\* The elements of a cell with t at a slot, and what was there.
Stored(a, slot, t) ==
  [i \in 1..Max({Len(a), slot}) |-> IF i = slot THEN t ELSE IF i <= Len(a) THEN a[i] ELSE Null]
Occupant(h, o, slot) == IF slot \in DOMAIN h[o].a THEN h[o].a[slot] ELSE Null

\* The heap h with t at the slot of the cell o, and what was there freed.
Placed(h, g, o, slot, t, cell) ==
  /\ slot \in Nat /\ slot >= 1 /\ t \in Unowned(h) /\ o \in DOMAIN h /\ t > o
  /\ IsCell(cell) /\ cell.a = Stored(h[o].a, slot, t)
  /\ cell.t = h[o].t \/ (h[o].t = "NIL" /\ cell.t = "HASH")
  /\ \A i \in DOMAIN h[o].s : i \in DOMAIN cell.s /\ cell.s[i] = h[o].s[i]
  /\ g = [Delete(h, Occupant(h, o, slot)) EXCEPT ![o] = cell]

LEMMA StoredIs ==
  ASSUME NEW a \in Seq(Nat), NEW slot \in Nat, slot >= 1, NEW t \in Nat
  PROVE  LET b == Stored(a, slot, t)
         IN  /\ b \in Seq(Nat) /\ slot \in DOMAIN b /\ b[slot] = t /\ Len(b) >= Len(a) /\ Len(b) >= slot
             /\ (Len(b) = Len(a) \/ Len(b) = slot)
             /\ \A i \in DOMAIN b : i # slot => b[i] = Null \/ (i \in DOMAIN a /\ b[i] = a[i])
             /\ \A i \in DOMAIN a : i \in DOMAIN b /\ (i # slot => b[i] = a[i])
  <1> DEFINE m == Max({Len(a), slot})
  <1>1. Len(a) \in Nat /\ DOMAIN a = 1..Len(a) /\ \A i \in 1..Len(a) : a[i] \in Nat
    OBVIOUS
  <1>2. m \in {Len(a), slot} /\ m >= Len(a) /\ m >= slot
    <2>1. IsFiniteSet({Len(a), slot})
      <3>1. IsFiniteSet({Len(a)})
        BY FS_Singleton
      <3>2. IsFiniteSet({Len(a)} \cup {slot})
        BY <3>1, FS_AddElement
      <3>3. {Len(a)} \cup {slot} = {Len(a), slot}
        OBVIOUS
      <3> QED BY <3>2, <3>3
    <2>2. {Len(a), slot} \in SUBSET Nat /\ {Len(a), slot} # {}
      BY <1>1
    <2>3. m \in {Len(a), slot} /\ \A y \in {Len(a), slot} : y <= m
      BY <2>1, <2>2, Largest
    <2> QED BY <1>1, <2>3
  <1> HIDE DEF m
  <1> DEFINE b == [i \in 1..m |-> IF i = slot THEN t ELSE IF i <= Len(a) THEN a[i] ELSE Null]
  <1>3. Stored(a, slot, t) = b
    BY DEF Stored, m
  <1>4. m \in Nat /\ \A i \in 1..m : b[i] \in Nat
    BY <1>1, <1>2 DEF Null
  <1>5. b \in Seq(Nat) /\ Len(b) = m /\ DOMAIN b = 1..m
    BY <1>4
  <1>6. \A i \in 1..m : b[i] = IF i = slot THEN t ELSE IF i <= Len(a) THEN a[i] ELSE Null
    OBVIOUS
  <1> HIDE DEF b
  <1>7. slot \in DOMAIN b /\ b[slot] = t
    BY <1>2, <1>4, <1>5, <1>6
  <1>8. \A i \in DOMAIN b : i # slot => b[i] = Null \/ (i \in DOMAIN a /\ b[i] = a[i])
    BY <1>1, <1>5, <1>6
  <1>9. ASSUME NEW i \in DOMAIN a PROVE i \in DOMAIN b /\ (i # slot => b[i] = a[i])
    <2>0. i \in 1..Len(a)
      BY <1>1
    <2>2. Len(a) \in Nat /\ m \in Nat /\ Len(a) <= m
      BY <1>1, <1>2
    <2>1. i \in 1..m /\ i <= Len(a)
      BY <2>0, <2>2
    <2> QED BY <1>5, <1>6, <2>1
  <1> QED BY <1>2, <1>3, <1>5, <1>7, <1>8, <1>9

\* The same of every element, without a local name.
LEMMA StoredKeeps ==
  ASSUME NEW a \in Seq(Nat), NEW slot \in Nat, slot >= 1, NEW t \in Nat
  PROVE  /\ slot \in DOMAIN Stored(a, slot, t) /\ Stored(a, slot, t)[slot] = t
         /\ \A i \in DOMAIN Stored(a, slot, t) :
               i # slot => Stored(a, slot, t)[i] = Null \/ (i \in DOMAIN a /\ Stored(a, slot, t)[i] = a[i])
         /\ \A i \in DOMAIN a : /\ i \in DOMAIN Stored(a, slot, t)
                                /\ (i # slot => Stored(a, slot, t)[i] = a[i])
  BY StoredIs

\* What is left after a variable was put in its place.
LEMMA PlacedIs ==
  ASSUME NEW h, Sound(h), NEW g, NEW o, NEW slot, NEW t, NEW cell, Placed(h, g, o, slot, t, cell)
  PROVE  LET c == Occupant(h, o, slot)
             R == IF c = Null THEN {} ELSE Reach(h, c)
         IN  /\ Laid(g) /\ DOMAIN g = DOMAIN h \ R /\ o \in DOMAIN g /\ t \in DOMAIN g /\ g[o] = cell
             /\ \A d \in DOMAIN g \ {o} : g[d] = h[d]
             /\ Holds(g, o, slot, t)
             /\ \A p, i, k : Holds(g, p, i, k) /\ k # Null =>
                   (p = o /\ i = slot /\ k = t) \/ (Holds(h, p, i, k) /\ k \in DOMAIN g)
             /\ \A d \in DOMAIN g : \A p, i : Holds(h, p, i, d) => Holds(g, p, i, d)
             /\ \A d \in R : \E p, i : Holds(h, p, i, d)
  <1> DEFINE c == Occupant(h, o, slot)
             R == IF c = Null THEN {} ELSE Reach(h, c)
             f == Delete(h, c)
  <1>1. /\ slot \in Nat /\ slot >= 1 /\ t \in Unowned(h) /\ o \in DOMAIN h /\ t > o
        /\ IsCell(cell) /\ cell.a = Stored(h[o].a, slot, t)
        /\ cell.t = h[o].t \/ (h[o].t = "NIL" /\ cell.t = "HASH")
        /\ g = [f EXCEPT ![o] = cell]
    BY DEF Placed
  <1>2. t \in DOMAIN h /\ t # Root /\ t \in Nat /\ t # Null /\ o \in Nat /\ \A p, i : ~Holds(h, p, i, t)
    BY <1>1, UnownedIs DEF Sound, Laid
  <1>3. IsCell(h[o]) /\ h[o].a \in Seq(Nat)
    BY <1>1, CellFacts DEF Sound, Laid
  <1> DEFINE b == Stored(h[o].a, slot, t)
  <1>4. /\ slot \in DOMAIN b /\ b[slot] = t
        /\ \A i \in DOMAIN b : i # slot => b[i] = Null \/ (i \in DOMAIN h[o].a /\ b[i] = h[o].a[i])
        /\ \A i \in DOMAIN h[o].a : i \in DOMAIN b /\ (i # slot => b[i] = h[o].a[i])
    <2>1. slot \in Nat /\ slot >= 1 /\ t \in Nat /\ h[o].a \in Seq(Nat)
      BY <1>1, <1>2, <1>3
    <2>2. ASSUME NEW x \in Seq(Nat), x = h[o].a
          PROVE  /\ slot \in DOMAIN Stored(x, slot, t) /\ Stored(x, slot, t)[slot] = t
                 /\ \A i \in DOMAIN Stored(x, slot, t) :
                       i # slot => Stored(x, slot, t)[i] = Null \/ (i \in DOMAIN x /\ Stored(x, slot, t)[i] = x[i])
                 /\ \A i \in DOMAIN x : /\ i \in DOMAIN Stored(x, slot, t)
                                        /\ (i # slot => Stored(x, slot, t)[i] = x[i])
      BY <2>1, StoredKeeps
    <2> QED BY <2>1, <2>2
  <1>5. c # Null => Holds(h, o, slot, c)
    BY <1>1 DEF Occupant, Holds
  <1> HIDE DEF c, b
  <1>6. c # Null => c \in DOMAIN h /\ c > o /\ c # Root /\ c # t
    <2> SUFFICES ASSUME c # Null PROVE c \in DOMAIN h /\ c > o /\ c # Root /\ c # t
      OBVIOUS
    <2>1. Holds(h, o, slot, c)
      BY <1>5
    <2>2. c \in DOMAIN h /\ c > o
      BY <2>1 DEF Sound, Descends
    <2>3. c \in Nat /\ o \in Nat /\ o >= 1
      BY <1>1, <2>2 DEF Sound, Laid, Null
    <2> QED BY <1>2, <2>1, <2>2, <2>3 DEF Root
  <1>7. /\ Laid(f) /\ OwnedOnce(f) /\ DOMAIN f = DOMAIN h \ R
        /\ \A d \in DOMAIN f : f[d] = h[d]
        /\ \A p, i, k : Holds(f, p, i, k) => Holds(h, p, i, k) /\ (k \in R => k = c)
        /\ \A d \in DOMAIN f : \A p, i : Holds(h, p, i, d) => Holds(f, p, i, d)
        /\ \A d \in R : d >= c /\ c # Null /\ (d = c \/ \E p, i : Holds(h, p, i, d))
    <2>1. CASE c = Null
      <3>1. f = h /\ R = {}
        BY <2>1 DEF Delete
      <3> HIDE DEF f, R
      <3> QED BY <3>1 DEF Sound
    <2>2. CASE c # Null
      <3>1. R = Reach(h, c)
        BY <2>2
      <3> HIDE DEF R
      <3> QED BY <1>6, <2>2, <3>1, Freed
    <2> QED BY <2>1, <2>2
  <1> HIDE DEF f, R
  <1>8. \A d \in R : \E p, i : Holds(h, p, i, d)
    BY <1>5, <1>7
  <1>9. o \in DOMAIN f
    <2>1. o \in R => o >= c /\ c > o /\ c \in Nat
      BY <1>2, <1>6, <1>7 DEF Sound, Laid
    <2> QED BY <1>1, <1>2, <1>7, <2>1
  <1>10. t \in DOMAIN f
    BY <1>2, <1>7, <1>8
  <1>11. /\ DOMAIN g = DOMAIN f /\ g[o] = cell /\ g = [d \in DOMAIN g |-> g[d]]
         /\ \A d \in DOMAIN g \ {o} : g[d] = h[d]
    BY <1>1, <1>7, <1>9
  <1>12. Laid(g)
    <2>1. o = Root => cell.t \in {"NIL", "HASH"}
      BY <1>1 DEF Sound, Laid
    <2> QED BY <1>1, <1>7, <1>11, <2>1 DEF Laid
  <1>13. Holds(g, o, slot, t)
    BY <1>1, <1>4, <1>9, <1>11 DEF Holds, b
  <1>14. ASSUME NEW p, NEW i, NEW k, Holds(g, p, i, k), k # Null
         PROVE  (p = o /\ i = slot /\ k = t) \/ (Holds(h, p, i, k) /\ k \in DOMAIN g)
    <2>1. CASE p = o /\ i = slot
      BY <1>13, <1>14, <2>1 DEF Holds
    <2>2. CASE p = o /\ i # slot
      <3>1. i \in DOMAIN b /\ b[i] = k
        BY <1>1, <1>11, <1>14, <2>2 DEF Holds, b
      <3>2. Holds(f, o, i, k)
        BY <1>4, <1>7, <1>9, <1>14, <2>2, <3>1 DEF Holds
      <3>3. Holds(h, o, i, k) /\ (k \in R => k = c)
        BY <1>7, <3>2
      <3>4. k = c => i = slot
        BY <1>5, <1>14, <3>3 DEF Sound, OwnedOnce
      <3>5. k \in DOMAIN h
        BY <1>14, <3>3 DEF Sound, Descends
      <3> QED BY <1>7, <1>11, <2>2, <3>3, <3>4, <3>5
    <2>3. CASE p # o
      <3>1. Holds(f, p, i, k)
        BY <1>7, <1>11, <1>14, <2>3 DEF Holds
      <3>2. Holds(h, p, i, k) /\ (k \in R => k = c)
        BY <1>7, <3>1
      <3>3. k = c => p = o
        BY <1>5, <1>14, <3>2 DEF Sound, OwnedOnce
      <3>4. k \in DOMAIN h
        BY <1>14, <3>2 DEF Sound, Descends
      <3> QED BY <1>7, <1>11, <2>3, <3>2, <3>3, <3>4
    <2> QED BY <2>1, <2>2, <2>3
  <1>15. ASSUME NEW d \in DOMAIN g, NEW p, NEW i, Holds(h, p, i, d) PROVE Holds(g, p, i, d)
    <2>1. Holds(f, p, i, d)
      BY <1>7, <1>11, <1>15
    <2>2. CASE p = o
      <3>1. i \in DOMAIN h[o].a /\ h[o].a[i] = d
        BY <1>15, <2>2 DEF Holds
      <3>2. i # slot
        <4>1. CASE i = slot
          <5>1. c = d
            BY <3>1, <4>1 DEF c, Occupant
          <5>2. d # Null
            BY <1>12 DEF Laid
          <5>3. d \in R
            BY <1>6, <5>1, <5>2, Reached DEF R, Sound
          <5> QED BY <1>7, <1>11, <5>3
        <4> QED BY <4>1
      <3>3. cell.a = b /\ i \in DOMAIN b /\ b[i] = d
        BY <1>1, <1>4, <3>1, <3>2 DEF b
      <3> QED BY <1>9, <1>11, <2>2, <3>3 DEF Holds
    <2>3. CASE p # o
      BY <1>7, <1>11, <2>1, <2>3 DEF Holds
    <2> QED BY <2>2, <2>3
  <1> QED BY <1>7, <1>8, <1>9, <1>10, <1>11, <1>12, <1>13, <1>14, <1>15 DEF c, R

LEMMA PlacedKeeps ==
  ASSUME NEW h, Sound(h), NEW g, NEW o, NEW slot, NEW t, NEW cell, Placed(h, g, o, slot, t, cell)
  PROVE  /\ Laid(g) /\ o \in DOMAIN g /\ g[o] = cell /\ t \in DOMAIN g /\ Holds(g, o, slot, t)
         /\ DOMAIN g \subseteq DOMAIN h
         /\ \A d \in DOMAIN g \ {o} : g[d] = h[d]
         /\ \A p, i, k : Holds(g, p, i, k) /\ k # Null =>
               (p = o /\ i = slot /\ k = t) \/ (Holds(h, p, i, k) /\ k \in DOMAIN g)
         /\ \A d \in DOMAIN g : \A p, i : Holds(h, p, i, d) => Holds(g, p, i, d)
         /\ \A d \in DOMAIN h : d \in DOMAIN g \/ \E p, i : Holds(h, p, i, d)
  <1> DEFINE c == Occupant(h, o, slot)
             R == IF c = Null THEN {} ELSE Reach(h, c)
  <1>1. /\ Laid(g) /\ DOMAIN g = DOMAIN h \ R /\ o \in DOMAIN g /\ t \in DOMAIN g /\ g[o] = cell
        /\ \A d \in DOMAIN g \ {o} : g[d] = h[d]
        /\ Holds(g, o, slot, t)
        /\ \A p, i, k : Holds(g, p, i, k) /\ k # Null =>
              (p = o /\ i = slot /\ k = t) \/ (Holds(h, p, i, k) /\ k \in DOMAIN g)
        /\ \A d \in DOMAIN g : \A p, i : Holds(h, p, i, d) => Holds(g, p, i, d)
        /\ \A d \in R : \E p, i : Holds(h, p, i, d)
    BY PlacedIs
  <1> HIDE DEF R
  <1> QED BY <1>1

LEMMA PlacedSound ==
  ASSUME NEW h, Sound(h), NEW g, NEW o, NEW slot, NEW t, NEW cell, Placed(h, g, o, slot, t, cell)
  PROVE  Sound(g) /\ Unowned(g) = Unowned(h) \ {t}
  <1>1. /\ Laid(g) /\ t \in DOMAIN g /\ Holds(g, o, slot, t)
        /\ DOMAIN g \subseteq DOMAIN h
        /\ \A p, i, k : Holds(g, p, i, k) /\ k # Null =>
              (p = o /\ i = slot /\ k = t) \/ (Holds(h, p, i, k) /\ k \in DOMAIN g)
        /\ \A d \in DOMAIN g : \A p, i : Holds(h, p, i, d) => Holds(g, p, i, d)
        /\ \A d \in DOMAIN h : d \in DOMAIN g \/ \E p, i : Holds(h, p, i, d)
    BY PlacedKeeps
  <1>2. t > o /\ t \in Unowned(h) /\ \A p, i : ~Holds(h, p, i, t)
    BY UnownedIs DEF Placed, Sound
  <1>3. Descends(g)
    BY <1>1, <1>2 DEF Sound, Descends
  <1>4. OwnedOnce(g)
    BY <1>1, <1>2 DEF Sound, OwnedOnce
  <1>5. ASSUME NEW d PROVE d \in Unowned(g) <=> d \in Unowned(h) /\ d # t
    <2>1. d \in Unowned(g) <=> d \in DOMAIN g /\ d # Root /\ \A p, i : ~Holds(g, p, i, d)
      BY <1>1, UnownedIs
    <2>2. d \in Unowned(h) <=> d \in DOMAIN h /\ d # Root /\ \A p, i : ~Holds(h, p, i, d)
      BY UnownedIs DEF Sound
    <2>3. d \in DOMAIN g => d # Null
      BY <1>1 DEF Laid
    <2> QED BY <1>1, <1>2, <2>1, <2>2, <2>3
  <1> QED BY <1>1, <1>3, <1>4, <1>5 DEF Sound

-----------------------------------------------------------------------------
(* Paths. *)

IsPath(p) == p \in Seq(Range(p)) /\ \A k \in DOMAIN p : IsKey(p[k])

LEMMA PathFacts ==
  ASSUME NEW p, IsPath(p)
  PROVE  /\ Len(p) \in Nat /\ DOMAIN p = 1..Len(p) /\ p = [k \in 1..Len(p) |-> p[k]]
         /\ \A n \in 0..Len(p) :
               /\ IsPath(SubSeq(p, 1, n)) /\ Len(SubSeq(p, 1, n)) = n
               /\ \A k \in 1..n : SubSeq(p, 1, n)[k] = p[k]
         /\ SubSeq(p, 1, Len(p)) = p
         /\ p # <<>> => /\ Front(p) = SubSeq(p, 1, Len(p) - 1) /\ Last(p) = p[Len(p)] /\ IsKey(Last(p))
                        /\ Len(p) - 1 \in 0..Len(p) /\ Len(p) \in 1..Len(p)
  <1>1. Len(p) \in Nat /\ DOMAIN p = 1..Len(p) /\ p = [k \in 1..Len(p) |-> p[k]]
    BY DEF IsPath
  <1>2. ASSUME NEW n \in 0..Len(p)
        PROVE  /\ IsPath(SubSeq(p, 1, n)) /\ Len(SubSeq(p, 1, n)) = n
               /\ \A k \in 1..n : SubSeq(p, 1, n)[k] = p[k]
    <2> DEFINE q == SubSeq(p, 1, n)
    <2>1. n \in Nat /\ n <= Len(p) /\ \A k \in 1..n : k \in 1..Len(p)
      BY <1>1
    <2>2. q \in Seq(Range(p)) /\ Len(q) = n /\ \A k \in 1..n : q[k] = p[k]
      BY <1>1, <2>1 DEF IsPath
    <2>3. DOMAIN q = 1..n
      BY <2>2
    <2> HIDE DEF q
    <2>4. q \in Seq(Range(q))
      <3>1. \A k \in 1..n : q[k] \in Range(q)
        BY <2>3 DEF Range
      <3>2. q = [k \in 1..n |-> q[k]]
        BY <2>2
      <3> QED BY <2>1, <3>1, <3>2
    <2>5. \A k \in DOMAIN q : IsKey(q[k])
      BY <1>1, <2>1, <2>2, <2>3 DEF IsPath
    <2> QED BY <2>2, <2>4, <2>5 DEF q, IsPath
  <1>3. SubSeq(p, 1, Len(p)) = p
    BY <1>1 DEF IsPath
  <1>4. ASSUME p # <<>>
        PROVE  /\ Front(p) = SubSeq(p, 1, Len(p) - 1) /\ Last(p) = p[Len(p)] /\ IsKey(Last(p))
               /\ Len(p) - 1 \in 0..Len(p) /\ Len(p) \in 1..Len(p)
    <2>1. Len(p) \in 1..Len(p)
      BY <1>1, <1>4
    <2> QED BY <1>1, <2>1 DEF Front, Last, IsPath
  <1> QED BY <1>1, <1>2, <1>3, <1>4

LEMMA PathAppended ==
  ASSUME NEW p, IsPath(p), NEW key, IsKey(key)
  PROVE  LET q == Append(p, key)
         IN  /\ IsPath(q) /\ Len(q) = Len(p) + 1 /\ q # <<>> /\ Front(q) = p /\ Last(q) = key
             /\ \A k \in 1..Len(p) : q[k] = p[k]
             /\ q[Len(p) + 1] = key
  <1> DEFINE S == Range(p) \union {key}
             q == Append(p, key)
  <1>1. p \in Seq(S) /\ key \in S /\ Len(p) \in Nat /\ DOMAIN p = 1..Len(p)
    <2>1. p \in Seq(Range(p)) /\ DOMAIN p = 1..Len(p) /\ Len(p) \in Nat
      BY PathFacts DEF IsPath
    <2> QED BY <2>1
  <1> HIDE DEF S
  <1>2. /\ q \in Seq(S) /\ Len(q) = Len(p) + 1 /\ q # <<>> /\ DOMAIN q = 1..(Len(p) + 1)
        /\ \A k \in 1..Len(p) : q[k] = p[k]
        /\ q[Len(p) + 1] = key
    BY <1>1
  <1>3. Front(q) = p /\ Last(q) = key
    <2>1. Last(q) = key
      BY <1>1, <1>2 DEF Last
    <2>2. Front(q) = SubSeq(q, 1, Len(p))
      BY <1>1, <1>2 DEF Front
    <2>3. SubSeq(q, 1, Len(p)) = p
      BY <1>1, <1>2
    <2> QED BY <2>1, <2>2, <2>3
  <1> HIDE DEF q
  <1>4. IsPath(q)
    <2>1. \A k \in DOMAIN q : IsKey(q[k])
      <3>1. \A k \in 1..Len(p) : IsKey(p[k])
        BY <1>1 DEF IsPath
      <3>2. \A k \in 1..(Len(p) + 1) : k \in 1..Len(p) \/ k = Len(p) + 1
        BY <1>1
      <3> QED BY <1>2, <3>1, <3>2
    <2>2. \A k \in DOMAIN q : q[k] \in Range(q)
      BY DEF Range
    <2>3. q = [k \in 1..Len(q) |-> q[k]] /\ Len(q) \in Nat /\ DOMAIN q = 1..Len(q)
      BY <1>2
    <2> QED BY <2>1, <2>2, <2>3 DEF IsPath
  <1> QED BY <1>2, <1>3, <1>4 DEF q

Led(h, obj, keys) == CHOOSE f : f = [k \in 0..Len(keys) |-> IF k = 0 THEN Just(obj) ELSE (IF f[k - 1] \in {Nothing, Just(Null)} THEN Nothing ELSE Element(h, f[k - 1][1], keys[k]))]

LEMMA LedDef ==
  ASSUME NEW h, NEW obj, NEW keys, Len(keys) \in Nat
  PROVE  Led(h, obj, keys) = [k \in 0..Len(keys) |-> IF k = 0 THEN Just(obj) ELSE (IF Led(h, obj, keys)[k - 1] \in {Nothing, Just(Null)} THEN Nothing ELSE Element(h, Led(h, obj, keys)[k - 1][1], keys[k]))]
  <1> DEFINE Step(x, k) == (IF x \in {Nothing, Just(Null)} THEN Nothing ELSE Element(h, x[1], keys[k]))
             Is(f, n) == f = [k \in 0..n |-> IF k = 0 THEN Just(obj) ELSE Step(f[k - 1], k)]
             S == {n \in Nat : \E f : Is(f, n)}
  <1>0. \A f : Is(f, Len(keys)) <=> f = [k \in 0..Len(keys) |-> IF k = 0 THEN Just(obj) ELSE (IF f[k - 1] \in {Nothing, Just(Null)} THEN Nothing ELSE Element(h, f[k - 1][1], keys[k]))]
    OBVIOUS
  <1> HIDE DEF Step
  <1>1. 0 \in S
    <2>1. Is([k \in 0..0 |-> Just(obj)], 0)
      OBVIOUS
    <2> QED BY <2>1
  <1>2. ASSUME NEW n \in S PROVE n + 1 \in S
    <2>1. PICK f : Is(f, n)
      OBVIOUS
    <2> DEFINE g == [k \in 0..(n + 1) |-> IF k <= n THEN f[k] ELSE Step(f[n], n + 1)]
    <2>2. ASSUME NEW k \in 0..(n + 1)
          PROVE  g[k] = IF k = 0 THEN Just(obj) ELSE Step(g[k - 1], k)
      <3>1. CASE k = 0
        BY <2>1, <3>1
      <3>2. CASE k # 0 /\ k <= n
        <4>1. k - 1 \in 0..n /\ k \in 0..n /\ k - 1 \in 0..(n + 1) /\ k - 1 <= n
          BY <3>2
        <4>2. g[k] = f[k] /\ g[k - 1] = f[k - 1]
          BY <3>2, <4>1
        <4>3. f[k] = Step(f[k - 1], k)
          BY <2>1, <3>2, <4>1
        <4> QED BY <3>2, <4>2, <4>3
      <3>3. CASE k = n + 1
        <4>1. k # 0 /\ k - 1 = n /\ n \in 0..(n + 1) /\ n <= n /\ ~(k <= n)
          BY <3>3
        <4>2. g[k] = Step(f[n], k) /\ g[n] = f[n]
          BY <3>3, <4>1
        <4> QED BY <4>1, <4>2
      <3> QED BY <3>1, <3>2, <3>3
    <2>3. Is(g, n + 1)
      <3>1. g = [k \in 0..(n + 1) |-> g[k]]
        OBVIOUS
      <3> HIDE DEF g
      <3> QED BY <2>2, <3>1
    <2> HIDE DEF g, Is
    <2> QED BY <2>3
  <1> HIDE DEF Is
  <1>3. S = Nat
    <2> HIDE DEF S
    <2> QED BY <1>1, <1>2, Counting DEF S
  <1>4. PICK f : Is(f, Len(keys))
    BY <1>3
  <1>5. f = [k \in 0..Len(keys) |-> IF k = 0 THEN Just(obj) ELSE (IF f[k - 1] \in {Nothing, Just(Null)} THEN Nothing ELSE Element(h, f[k - 1][1], keys[k]))]
    BY <1>0, <1>4
  <1> QED BY <1>5 DEF Led

LEMMA LedSteps ==
  ASSUME NEW h, NEW obj, NEW keys, Len(keys) \in Nat
  PROVE  /\ Led(h, obj, keys)[0] = Just(obj)
         /\ \A j \in 0..(Len(keys) - 1) : Led(h, obj, keys)[j + 1] = (IF Led(h, obj, keys)[j] \in {Nothing, Just(Null)} THEN Nothing ELSE Element(h, Led(h, obj, keys)[j][1], keys[j + 1]))
  <1> DEFINE n == Len(keys)
             f == Led(h, obj, keys)
             Step(x, k) == (IF x \in {Nothing, Just(Null)} THEN Nothing ELSE Element(h, x[1], keys[k]))
  <1>1. f = [k \in 0..n |-> IF k = 0 THEN Just(obj) ELSE Step(f[k - 1], k)]
    BY LedDef
  <1>0. n \in Nat
    OBVIOUS
  <1>9. \A x, k : Step(x, k) = (IF x \in {Nothing, Just(Null)} THEN Nothing ELSE Element(h, x[1], keys[k]))
    OBVIOUS
  <1> HIDE DEF f, n, Step
  <1>2. f[0] = Just(obj)
    <2>1. 0 \in 0..n
      BY <1>0
    <2> QED BY <1>1, <2>1
  <1>3. ASSUME NEW j \in 0..(n - 1) PROVE f[j + 1] = Step(f[j], j + 1)
    <2> DEFINE i == j + 1
    <2>1. i \in 0..n /\ i # 0 /\ i - 1 = j
      BY <1>0
    <2> HIDE DEF i
    <2>2. f[i] = Step(f[i - 1], i)
      BY <1>1, <2>1, Zenon
    <2> QED BY <2>1, <2>2 DEF i
  <1> QED BY <1>2, <1>3, <1>9 DEF f, n

LEMMA GetVariableIs ==
  ASSUME NEW h, NEW obj, NEW keys
  PROVE  GetVariable(h, obj, keys) = Led(h, obj, keys)[Len(keys)]
  BY DEF GetVariable, Led

\* What is led to on the way depends only on the links up to there.
LEMMA LedAgain ==
  ASSUME NEW h, NEW obj, NEW p, IsPath(p), NEW n \in 0..Len(p)
  PROVE  GetVariable(h, obj, SubSeq(p, 1, n)) = Led(h, obj, p)[n]
  <1> DEFINE q == SubSeq(p, 1, n)
             S == {j \in Nat : j <= n => Led(h, obj, q)[j] = Led(h, obj, p)[j]}
  <1>1. Len(p) \in Nat /\ Len(q) = n /\ n \in Nat /\ n <= Len(p) /\ \A k \in 1..n : q[k] = p[k]
    BY PathFacts
  <1> HIDE DEF q
  <1>2. /\ Led(h, obj, p)[0] = Just(obj) /\ Led(h, obj, q)[0] = Just(obj)
        /\ \A j \in 0..(Len(p) - 1) : Led(h, obj, p)[j + 1] =
              (IF Led(h, obj, p)[j] \in {Nothing, Just(Null)} THEN Nothing
               ELSE Element(h, Led(h, obj, p)[j][1], p[j + 1]))
        /\ \A j \in 0..(Len(q) - 1) : Led(h, obj, q)[j + 1] =
              (IF Led(h, obj, q)[j] \in {Nothing, Just(Null)} THEN Nothing
               ELSE Element(h, Led(h, obj, q)[j][1], q[j + 1]))
    BY <1>1, LedSteps
  <1>3. 0 \in S
    BY <1>2
  <1>4. ASSUME NEW j \in S PROVE j + 1 \in S
    <2> SUFFICES ASSUME j + 1 <= n PROVE Led(h, obj, q)[j + 1] = Led(h, obj, p)[j + 1]
      OBVIOUS
    <2>1. j \in 0..(Len(p) - 1) /\ j \in 0..(Len(q) - 1) /\ j <= n /\ j + 1 \in 1..n
      BY <1>1
    <2>2. Led(h, obj, q)[j] = Led(h, obj, p)[j] /\ q[j + 1] = p[j + 1]
      BY <1>1, <2>1
    <2> QED BY <1>2, <2>1, <2>2
  <1>5. S = Nat
    <2> HIDE DEF S
    <2> QED BY <1>3, <1>4, Counting DEF S
  <1>6. Led(h, obj, q)[n] = Led(h, obj, p)[n]
    BY <1>1, <1>5
  <1> QED BY <1>1, <1>6, GetVariableIs DEF q

LEMMA GetNone ==
  ASSUME NEW h, NEW obj
  PROVE  GetVariable(h, obj, <<>>) = Just(obj)
  <1>1. Len(<<>>) = 0 /\ Len(<<>>) \in Nat
    OBVIOUS
  <1>2. Led(h, obj, <<>>)[0] = Just(obj)
    BY <1>1, LedSteps
  <1> QED BY <1>1, <1>2, GetVariableIs

LEMMA GetLast ==
  ASSUME NEW h, NEW obj, NEW p, IsPath(p), p # <<>>
  PROVE  LET before == GetVariable(h, obj, Front(p))
         IN  GetVariable(h, obj, p) =
                IF before \in {Nothing, Just(Null)} THEN Nothing ELSE Element(h, before[1], Last(p))
  <1> DEFINE n == Len(p) - 1
  <1>1. /\ Front(p) = SubSeq(p, 1, n) /\ Last(p) = p[n + 1] /\ n \in 0..Len(p) /\ n + 1 = Len(p)
        /\ n \in 0..(Len(p) - 1) /\ Len(p) \in Nat
    BY PathFacts
  <1> HIDE DEF n
  <1>2. GetVariable(h, obj, Front(p)) = Led(h, obj, p)[n] /\ GetVariable(h, obj, p) = Led(h, obj, p)[n + 1]
    BY <1>1, LedAgain, GetVariableIs
  <1>3. Led(h, obj, p)[n + 1] =
          (IF Led(h, obj, p)[n] \in {Nothing, Just(Null)} THEN Nothing
           ELSE Element(h, Led(h, obj, p)[n][1], p[n + 1]))
    BY <1>1, LedSteps
  <1> QED BY <1>1, <1>2, <1>3

LEMMA GetNext ==
  ASSUME NEW h, NEW obj, NEW p, IsPath(p), NEW key, IsKey(key)
  PROVE  LET before == GetVariable(h, obj, p)
         IN  GetVariable(h, obj, Append(p, key)) =
                IF before \in {Nothing, Just(Null)} THEN Nothing ELSE Element(h, before[1], key)
  <1> DEFINE q == Append(p, key)
  <1>1. IsPath(q) /\ q # <<>> /\ Front(q) = p /\ Last(q) = key
    BY PathAppended
  <1> HIDE DEF q
  <1>2. LET before == GetVariable(h, obj, Front(q))
        IN  GetVariable(h, obj, q) =
               IF before \in {Nothing, Just(Null)} THEN Nothing ELSE Element(h, before[1], Last(q))
    BY <1>1, GetLast
  <1> QED BY <1>1, <1>2 DEF q

PrefixesOf(p) == {SubSeq(p, 1, n) : n \in 0..Len(p)}

LEMMA PrefixesAre ==
  ASSUME NEW p, IsPath(p)
  PROVE  /\ p \in PrefixesOf(p) /\ <<>> \in PrefixesOf(p)
         /\ \A q \in PrefixesOf(p) : IsPath(q) /\ \A n \in 0..Len(q) : SubSeq(q, 1, n) \in PrefixesOf(p)
  <1>1. SubSeq(p, 1, 0) = <<>> /\ SubSeq(p, 1, Len(p)) = p /\ Len(p) \in Nat
    BY PathFacts DEF IsPath
  <1>2. 0 \in 0..Len(p) /\ Len(p) \in 0..Len(p)
    BY <1>1
  <1>3. ASSUME NEW m \in 0..Len(p), NEW n \in 0..Len(SubSeq(p, 1, m))
        PROVE  IsPath(SubSeq(p, 1, m)) /\ SubSeq(SubSeq(p, 1, m), 1, n) \in PrefixesOf(p)
    <2>1. IsPath(SubSeq(p, 1, m)) /\ Len(SubSeq(p, 1, m)) = m
      BY PathFacts
    <2>2. n \in 0..m /\ n \in 0..Len(p) /\ p \in Seq(Range(p))
      BY <1>1, <2>1 DEF IsPath
    <2>3. SubSeq(SubSeq(p, 1, m), 1, n) = SubSeq(p, 1, n)
      BY <1>1, <2>2
    <2> QED BY <2>1, <2>2, <2>3 DEF PrefixesOf
  <1>4. \A q \in PrefixesOf(p) : IsPath(q)
    BY PathFacts DEF PrefixesOf
  <1>5. \A q \in PrefixesOf(p) : \A n \in 0..Len(q) : SubSeq(q, 1, n) \in PrefixesOf(p)
    <2> SUFFICES ASSUME NEW q \in PrefixesOf(p), NEW n \in 0..Len(q) PROVE SubSeq(q, 1, n) \in PrefixesOf(p)
      OBVIOUS
    <2>1. PICK m \in 0..Len(p) : q = SubSeq(p, 1, m)
      BY DEF PrefixesOf
    <2> QED BY <1>3, <2>1
  <1> QED BY <1>1, <1>2, <1>4, <1>5 DEF PrefixesOf

\* Induction over the length of a path.
LEMMA AlongPath ==
  ASSUME NEW p, IsPath(p), NEW G, <<>> \in G,
         \A q \in PrefixesOf(p) : q # <<>> /\ Front(q) \in G => q \in G
  PROVE  p \in G
  <1> DEFINE S == {n \in Nat : \A q \in PrefixesOf(p) : Len(q) = n => q \in G}
  <1>0. \A q \in PrefixesOf(p) : IsPath(q) /\ \A n \in 0..Len(q) : SubSeq(q, 1, n) \in PrefixesOf(p)
    BY PrefixesAre
  <1>1. 0 \in S
    <2>1. ASSUME NEW q \in PrefixesOf(p), Len(q) = 0 PROVE q = <<>>
      BY <1>0, <2>1, PathFacts
    <2> QED BY <2>1
  <1>2. ASSUME NEW n \in S PROVE n + 1 \in S
    <2> SUFFICES ASSUME NEW q \in PrefixesOf(p), Len(q) = n + 1 PROVE q \in G
      OBVIOUS
    <2>1. q # <<>>
      BY <1>0, PathFacts
    <2>5. n \in Nat /\ n \in 0..Len(q) /\ Len(q) - 1 = n /\ IsPath(q)
      BY <1>0
    <2>6. Front(q) = SubSeq(q, 1, Len(q) - 1) /\ Len(SubSeq(q, 1, n)) = n
      BY <2>1, <2>5, PathFacts
    <2>2. Front(q) = SubSeq(q, 1, n) /\ n \in 0..Len(q) /\ Len(SubSeq(q, 1, n)) = n
      BY <2>5, <2>6
    <2>3. Front(q) \in PrefixesOf(p) /\ Len(Front(q)) = n
      BY <1>0, <2>2, Zenon
    <2>4. Front(q) \in G
      BY <1>2, <2>3
    <2> QED BY <2>1, <2>4
  <1>3. S = Nat
    <2> HIDE DEF S
    <2> QED BY <1>1, <1>2, Counting DEF S
  <1>4. Len(p) \in Nat /\ p \in PrefixesOf(p)
    BY PathFacts, PrefixesAre
  <1> QED BY <1>3, <1>4

-----------------------------------------------------------------------------
(* The place of an element.  A link names one, a place has one name.       *)

Slot(h, o, key) ==
  IF IsInt(key) THEN (IF key.n < 0 THEN key.n + Len(h[o].a) ELSE key.n) + 1
  ELSE IF KeyIndex(h[o], key.s) # {} THEN CHOOSE k \in KeyIndex(h[o], key.s) : TRUE
  ELSE Len(h[o].a) + 1

Fits(cell, key) == (IsInt(key) /\ cell.t = "LIST") \/ (IsStr(key) /\ cell.t = "HASH")

LEMMA KeyFacts ==
  ASSUME NEW key, IsKey(key)
  PROVE  /\ key.n \in Int /\ (IsInt(key) <=> key = Num(key.n)) /\ (IsStr(key) <=> key = Str(key.s))
         /\ IsInt(key) <=> ~IsStr(key)
  <1>1. CASE key = Num(key.n)
    BY <1>1 DEF IsKey, IsInt, IsStr, Num, Str, Value
  <1>2. CASE key = Str(key.s)
    BY <1>2 DEF IsKey, IsInt, IsStr, Num, Str, Value
  <1> QED BY <1>1, <1>2 DEF IsKey

LEMMA SlotIs ==
  ASSUME NEW h, NEW o \in DOMAIN h, IsCell(h[o]), NEW key, IsKey(key), Fits(h[o], key)
  PROVE  /\ Slot(h, o, key) \in Int
         /\ IsStr(key) => /\ \A k \in DOMAIN h[o].s : h[o].s[k] = key.s => Slot(h, o, key) = k
                          /\ KeyIndex(h[o], key.s) = {} <=> Slot(h, o, key) \notin DOMAIN h[o].a
                          /\ KeyIndex(h[o], key.s) # {} =>
                                Slot(h, o, key) \in DOMAIN h[o].s /\ h[o].s[Slot(h, o, key)] = key.s
                          /\ Slot(h, o, key) \in Nat /\ Slot(h, o, key) >= 1
  <1> DEFINE v == h[o]
             K == KeyIndex(v, key.s)
  <1>1. Len(v.a) \in Nat /\ DOMAIN v.a = 1..Len(v.a)
    BY CellFacts
  <1>2. CASE IsInt(key)
    <2>1. key.n \in Int /\ ~IsStr(key)
      BY <1>2, KeyFacts
    <2> QED BY <1>1, <1>2, <2>1 DEF Slot
  <1>3. CASE IsStr(key)
    <2>1. ~IsInt(key) /\ v.t = "HASH"
      BY <1>3, KeyFacts DEF Fits
    <2>2. v.s \in Seq(Range(v.s)) /\ Len(v.s) = Len(v.a) /\ \A i, j \in DOMAIN v.s : v.s[i] = v.s[j] => i = j
      BY <2>1, CellFacts
    <2>3. DOMAIN v.s = 1..Len(v.s)
      BY <2>2
    <2>4. K = {k \in 1..Len(v.s) : v.s[k] = key.s}
      BY DEF KeyIndex
    <2>5. Slot(h, o, key) = IF K # {} THEN CHOOSE k \in K : TRUE ELSE Len(v.a) + 1
      BY <2>1 DEF Slot
    <2> HIDE DEF v, K
    <2>6. ASSUME K # {} PROVE Slot(h, o, key) \in K
      BY <2>5, <2>6
    <2>7. ASSUME K = {} PROVE Slot(h, o, key) = Len(v.a) + 1 /\ Slot(h, o, key) \notin DOMAIN v.a
      BY <1>1, <2>5, <2>7
    <2>8. \A k \in DOMAIN v.s : v.s[k] = key.s => Slot(h, o, key) = k
      BY <2>2, <2>3, <2>4, <2>6
    <2>9. Slot(h, o, key) \in Nat /\ Slot(h, o, key) >= 1
      <3>1. K # {} => Slot(h, o, key) \in 1..Len(v.a)
        BY <2>2, <2>4, <2>6
      <3> QED BY <1>1, <2>7, <3>1
    <2>10. K # {} => Slot(h, o, key) \in DOMAIN v.a
      BY <1>1, <2>2, <2>4, <2>6
    <2> QED BY <2>1, <2>3, <2>4, <2>6, <2>7, <2>8, <2>9, <2>10 DEF v, K
  <1> QED BY <1>2, <1>3 DEF Fits

LEMMA ElementIs ==
  ASSUME NEW h, NEW o \in DOMAIN h, IsCell(h[o]), NEW key, IsKey(key)
  PROVE  Element(h, o, key) =
            IF Fits(h[o], key) /\ Slot(h, o, key) \in DOMAIN h[o].a
            THEN Just(h[o].a[Slot(h, o, key)]) ELSE Nothing
  <1> DEFINE v == h[o]
             i == IF key.n < 0 THEN key.n + Len(v.a) ELSE key.n
             K == KeyIndex(v, key.s)
  <1>1. Len(v.a) \in Nat /\ DOMAIN v.a = 1..Len(v.a)
    BY CellFacts
  <1>2. Element(h, o, key) =
           CASE IsInt(key) /\ v.t = "LIST" /\ i \in 0..(Len(v.a) - 1) -> Just(v.a[i + 1])
             [] IsStr(key) /\ v.t = "HASH" /\ K # {} -> Just(v.a[CHOOSE k \in K : TRUE])
             [] OTHER -> Nothing
    BY DEF Element
  <1>3. key.n \in Int /\ (IsInt(key) <=> ~IsStr(key))
    BY KeyFacts
  <1>4. CASE IsInt(key)
    <2>1. i \in Int /\ Slot(h, o, key) = i + 1
      BY <1>1, <1>3, <1>4 DEF Slot
    <2> HIDE DEF v, i
    <2>2. i \in 0..(Len(v.a) - 1) <=> Slot(h, o, key) \in DOMAIN v.a
      BY <1>1, <2>1
    <2> HIDE DEF K
    <2> QED BY <1>2, <1>3, <1>4, <2>1, <2>2 DEF Fits, v
  <1>5. CASE IsStr(key)
    <2>1. Fits(v, key) <=> v.t = "HASH"
      BY <1>3, <1>5 DEF Fits
    <2>2. v.t = "HASH" => (K # {} <=> Slot(h, o, key) \in DOMAIN v.a)
      BY <1>5, <2>1, SlotIs
    <2>3. K # {} => Slot(h, o, key) = CHOOSE k \in K : TRUE
      BY <1>3, <1>5 DEF Slot
    <2> HIDE DEF i, K, v
    <2> QED BY <1>2, <1>3, <1>5, <2>1, <2>2, <2>3 DEF v
  <1> QED BY <1>3, <1>4, <1>5

\* Where a path can lead in a heap.
LEMMA GetInside ==
  ASSUME NEW h, Sound(h), NEW o \in DOMAIN h, NEW p, IsPath(p)
  PROVE  \/ GetVariable(h, o, p) = Nothing
         \/ \E k \in DOMAIN h \union {Null} : GetVariable(h, o, p) = Just(k)
  <1> DEFINE Inside(x) == x = Nothing \/ \E k \in DOMAIN h \union {Null} : x = Just(k)
             G == {q \in PrefixesOf(p) : Inside(GetVariable(h, o, q))}
  <1>1. \A q \in PrefixesOf(p) : IsPath(q)
    BY PrefixesAre
  <1>3. <<>> \in G
    BY PrefixesAre, GetNone
  <1>4. ASSUME NEW q \in PrefixesOf(p), q # <<>>, Front(q) \in G PROVE q \in G
    <2>1. Inside(GetVariable(h, o, Front(q)))
      BY <1>4
    <2>2. IsPath(q) /\ IsKey(Last(q))
      BY <1>1, <1>4, PathFacts
    <2>3. CASE GetVariable(h, o, Front(q)) \in {Nothing, Just(Null)}
      BY <1>4, <2>2, <2>3, GetLast
    <2>4. CASE GetVariable(h, o, Front(q)) \notin {Nothing, Just(Null)}
      <3>1. PICK d \in DOMAIN h : GetVariable(h, o, Front(q)) = Just(d)
        BY <2>1, <2>4
      <3>2. Just(d)[1] = d
        BY DEF Just
      <3>3. GetVariable(h, o, q) = Element(h, d, Last(q))
        BY <1>4, <2>2, <2>4, <3>1, <3>2, GetLast
      <3>4. IsCell(h[d])
        BY DEF Sound, Laid
      <3>5. \A i \in DOMAIN h[d].a : h[d].a[i] \in DOMAIN h \union {Null}
        BY DEF Sound, Descends, Holds
      <3> QED BY <2>2, <3>3, <3>4, <3>5, ElementIs
    <2> QED BY <2>3, <2>4
  <1>5. p \in G
    <2> HIDE DEF G
    <2> QED BY <1>3, <1>4, AlongPath
  <1> QED BY <1>5

-----------------------------------------------------------------------------
(* A heap that grows leads where it led. *)

LEMMA ElementAgain ==
  ASSUME NEW h, NEW g, NEW o, g[o] = h[o], NEW key
  PROVE  Element(g, o, key) = Element(h, o, key)
  BY DEF Element

LEMMA GrownPath ==
  ASSUME NEW h, NEW g, Sound(h), Grown(h, g), NEW o \in DOMAIN h, NEW p, IsPath(p)
  PROVE  GetVariable(g, o, p) = GetVariable(h, o, p)
  <1> DEFINE G == {q \in PrefixesOf(p) : GetVariable(g, o, q) = GetVariable(h, o, q)}
  <1>1. \A q \in PrefixesOf(p) : IsPath(q)
    BY PrefixesAre
  <1>2. <<>> \in G
    BY PrefixesAre, GetNone
  <1>3. ASSUME NEW q \in PrefixesOf(p), q # <<>>, Front(q) \in G PROVE q \in G
    <2> DEFINE before == GetVariable(h, o, Front(q))
    <2>1. IsPath(q) /\ IsPath(Front(q)) /\ GetVariable(g, o, Front(q)) = before
      BY <1>1, <1>3
    <2>2. /\ GetVariable(h, o, q) = IF before \in {Nothing, Just(Null)} THEN Nothing
                                    ELSE Element(h, before[1], Last(q))
          /\ GetVariable(g, o, q) = IF before \in {Nothing, Just(Null)} THEN Nothing
                                    ELSE Element(g, before[1], Last(q))
      BY <1>3, <2>1, GetLast
    <2>3. before \notin {Nothing, Just(Null)} => before[1] \in DOMAIN h
      BY <2>1, GetInside DEF Just
    <2>4. \A d \in DOMAIN h : Element(g, d, Last(q)) = Element(h, d, Last(q))
      BY ElementAgain DEF Grown
    <2> HIDE DEF before
    <2> QED BY <2>2, <2>3, <2>4
  <1>4. p \in G
    <2> HIDE DEF G
    <2> QED BY <1>2, <1>3, AlongPath
  <1> QED BY <1>4

-----------------------------------------------------------------------------
(* No cell has two names that count from the start. *)

Canonical(p) == \A k \in DOMAIN p : IsInt(p[k]) => p[k].n >= 0

LEMMA FrontFacts ==
  ASSUME NEW p, IsPath(p), p # <<>>
  PROVE  LET n == Len(p) - 1
         IN  /\ n \in Nat /\ n + 1 = Len(p) /\ IsPath(Front(p)) /\ Len(Front(p)) = n
             /\ \A k \in 1..n : Front(p)[k] = p[k]
             /\ Last(p) = p[n + 1] /\ IsKey(Last(p))
             /\ Canonical(p) => Canonical(Front(p)) /\ (IsInt(Last(p)) => Last(p).n >= 0)
  <1> DEFINE n == Len(p) - 1
  <1>1. /\ Len(p) \in Nat /\ DOMAIN p = 1..Len(p) /\ Front(p) = SubSeq(p, 1, n) /\ Last(p) = p[Len(p)]
        /\ IsKey(Last(p)) /\ n \in 0..Len(p) /\ Len(p) \in 1..Len(p)
    BY PathFacts
  <1>2. n \in Nat /\ n + 1 = Len(p) /\ \A k \in 1..n : k \in 1..Len(p)
    BY <1>1
  <1> HIDE DEF n
  <1>3. IsPath(Front(p)) /\ Len(Front(p)) = n /\ \A k \in 1..n : Front(p)[k] = p[k]
    <2>1. /\ IsPath(SubSeq(p, 1, n)) /\ Len(SubSeq(p, 1, n)) = n
          /\ \A k \in 1..n : SubSeq(p, 1, n)[k] = p[k]
      BY <1>1, PathFacts
    <2> QED BY <1>1, <2>1
  <1>4. DOMAIN Front(p) = 1..n
    BY <1>3, PathFacts
  <1>5. Canonical(p) => Canonical(Front(p)) /\ (IsInt(Last(p)) => Last(p).n >= 0)
    BY <1>1, <1>2, <1>3, <1>4 DEF Canonical
  <1> QED BY <1>1, <1>2, <1>3, <1>5 DEF n

LEMMA OneKey ==
  ASSUME NEW h, NEW o \in DOMAIN h, IsCell(h[o]), NEW x, NEW y, IsKey(x), IsKey(y),
         Fits(h[o], x), Fits(h[o], y), IsInt(x) => x.n >= 0, IsInt(y) => y.n >= 0,
         Slot(h, o, x) = Slot(h, o, y), Slot(h, o, x) \in DOMAIN h[o].a
  PROVE  x = y
  <1>1. /\ x.n \in Int /\ (IsInt(x) => x = Num(x.n)) /\ (IsStr(x) => x = Str(x.s))
        /\ y.n \in Int /\ (IsInt(y) => y = Num(y.n)) /\ (IsStr(y) => y = Str(y.s))
    BY KeyFacts
  <1>2. CASE IsInt(x) /\ IsInt(y)
    <2>1. Slot(h, o, x) = x.n + 1 /\ Slot(h, o, y) = y.n + 1
      BY <1>1, <1>2 DEF Slot
    <2>3. x.n \in Int /\ y.n \in Int /\ x.n + 1 = y.n + 1
      BY <1>1, <2>1
    <2>2. x.n = y.n
      BY <2>3
    <2> QED BY <1>1, <1>2, <2>2
  <1>3. CASE IsStr(x) /\ IsStr(y)
    <2>1. h[o].s[Slot(h, o, x)] = x.s /\ h[o].s[Slot(h, o, y)] = y.s
      BY <1>3, SlotIs
    <2> QED BY <1>1, <1>3, <2>1
  <1> QED BY <1>2, <1>3 DEF Fits

LEMMA LastLink ==
  ASSUME NEW h, Sound(h), NEW o \in DOMAIN h, NEW p, IsPath(p), p # <<>>,
         NEW c, GetVariable(h, o, p) = Just(c)
  PROVE  \E d \in DOMAIN h :
            /\ GetVariable(h, o, Front(p)) = Just(d) /\ Fits(h[d], Last(p)) /\ IsCell(h[d])
            /\ Holds(h, d, Slot(h, d, Last(p)), c)
  <1> DEFINE before == GetVariable(h, o, Front(p))
  <1>1. IsPath(Front(p)) /\ IsKey(Last(p))
    BY PathFacts
  <1>2. GetVariable(h, o, p) =
          IF before \in {Nothing, Just(Null)} THEN Nothing ELSE Element(h, before[1], Last(p))
    BY GetLast
  <1>3. before = Nothing \/ \E k \in DOMAIN h \union {Null} : before = Just(k)
    BY <1>1, GetInside
  <1> HIDE DEF before
  <1>4. Just(c) # Nothing
    BY DEF Just, Nothing
  <1>5. PICK d \in DOMAIN h : before = Just(d)
    BY <1>2, <1>3, <1>4
  <1>6. before[1] = d
    BY <1>5 DEF Just
  <1>7. Element(h, d, Last(p)) = Just(c)
    BY <1>2, <1>4, <1>6
  <1>8. IsCell(h[d])
    BY DEF Sound, Laid
  <1>9. Fits(h[d], Last(p)) /\ Slot(h, d, Last(p)) \in DOMAIN h[d].a
        /\ Just(h[d].a[Slot(h, d, Last(p))]) = Just(c)
    BY <1>1, <1>4, <1>7, <1>8, ElementIs
  <1>10. h[d].a[Slot(h, d, Last(p))] = c
    BY <1>9 DEF Just
  <1> QED BY <1>5, <1>8, <1>9, <1>10 DEF before, Holds

LEMMA FirstLink ==
  ASSUME NEW h, Sound(h), NEW o \in DOMAIN h, NEW d \in DOMAIN h, NEW p, IsPath(p), p # <<>>,
         GetVariable(h, o, Front(p)) = Just(d)
  PROVE  /\ GetVariable(h, o, p) = Element(h, d, Last(p))
         /\ GetVariable(h, o, p) =
              IF Fits(h[d], Last(p)) /\ Slot(h, d, Last(p)) \in DOMAIN h[d].a
              THEN Just(h[d].a[Slot(h, d, Last(p))]) ELSE Nothing
  <1>1. Just(d) \notin {Nothing, Just(Null)} /\ Just(d)[1] = d
    BY DEF Sound, Laid, Just, Nothing
  <1>2. GetVariable(h, o, p) = Element(h, d, Last(p))
    BY <1>1, GetLast
  <1>3. IsKey(Last(p)) /\ IsCell(h[d])
    BY PathFacts DEF Sound, Laid
  <1> QED BY <1>2, <1>3, ElementIs

LEMMA Rejoined ==
  ASSUME NEW p, IsPath(p), p # <<>>, NEW q, IsPath(q), q # <<>>, Front(p) = Front(q), Last(p) = Last(q)
  PROVE  p = q
  <1> DEFINE n == Len(p) - 1
             m == Len(q) - 1
  <1>1. /\ n \in Nat /\ n + 1 = Len(p) /\ Len(Front(p)) = n /\ Last(p) = p[n + 1]
        /\ \A k \in 1..n : Front(p)[k] = p[k]
        /\ m \in Nat /\ m + 1 = Len(q) /\ Len(Front(q)) = m /\ Last(q) = q[m + 1]
        /\ \A k \in 1..m : Front(q)[k] = q[k]
    BY FrontFacts
  <1> HIDE DEF n, m
  <1>3. n = m
    BY <1>1
  <1>4. \A k \in 1..n : p[k] = q[k]
    BY <1>1, <1>3
  <1>5. \A k \in 1..(n + 1) : p[k] = q[k]
    <2>1. \A k \in 1..(n + 1) : k \in 1..n \/ k = n + 1
      BY <1>1
    <2> QED BY <1>1, <1>3, <1>4, <2>1
  <1>6. p = [k \in 1..(n + 1) |-> p[k]] /\ q = [k \in 1..(n + 1) |-> q[k]]
    BY <1>1, <1>3, PathFacts
  <1>7. [k \in 1..(n + 1) |-> p[k]] = [k \in 1..(n + 1) |-> q[k]]
    BY <1>5
  <1> QED BY <1>6, <1>7

LEMMA OneName ==
  ASSUME NEW h, Sound(h), NEW p, IsPath(p), Canonical(p), NEW q, IsPath(q), Canonical(q),
         NEW c, c # Null, GetVariable(h, Root, p) = Just(c), GetVariable(h, Root, q) = Just(c)
  PROVE  p = q
  <1> DEFINE Named(x, y, d) == /\ IsPath(y) /\ Canonical(x) /\ Canonical(y) /\ d # Null
                               /\ GetVariable(h, Root, x) = Just(d) /\ GetVariable(h, Root, y) = Just(d)
             G == {x \in PrefixesOf(p) : \A y, d : Named(x, y, d) => x = y}
  <1>0. /\ Root \in DOMAIN h /\ Root = 1 /\ \A d \in DOMAIN h : d \in Nat /\ d # Null /\ d >= 1
        /\ \A x, y : Just(x) = Just(y) <=> x = y
    BY DEF Sound, Laid, Root, Null, Just
  <1>1. \A x \in PrefixesOf(p) : IsPath(x)
    BY PrefixesAre
  <1>2. ASSUME NEW x, IsPath(x), x # <<>>, NEW d, d # Null, GetVariable(h, Root, x) = Just(d) PROVE d # Root
    <2>1. PICK e \in DOMAIN h : Holds(h, e, Slot(h, e, Last(x)), d)
      BY <1>0, <1>2, LastLink
    <2>2. d > e /\ e >= 1 /\ e \in Nat /\ d \in Nat
      BY <1>0, <1>2, <2>1 DEF Sound, Descends
    <2> QED BY <1>0, <2>2
  <1>3. <<>> \in G
    <2> SUFFICES ASSUME NEW y, NEW d, Named(<<>>, y, d) PROVE <<>> = y
      BY PrefixesAre
    <2>1. d = Root
      BY <1>0, GetNone
    <2> QED BY <1>2, <2>1
  <1>4. ASSUME NEW x \in PrefixesOf(p), x # <<>>, Front(x) \in G PROVE x \in G
    <2> SUFFICES ASSUME NEW y, NEW d, Named(x, y, d) PROVE x = y
      OBVIOUS
    <2>1. IsPath(x) /\ IsPath(y)
      BY <1>1
    <2>2. y # <<>>
      <3>1. d # Root
        BY <1>2, <1>4, <2>1
      <3> QED BY <1>0, <3>1, GetNone
    <2>3. PICK e \in DOMAIN h : /\ GetVariable(h, Root, Front(x)) = Just(e) /\ Fits(h[e], Last(x)) /\ IsCell(h[e])
                                /\ Holds(h, e, Slot(h, e, Last(x)), d)
      BY <1>0, <1>4, <2>1, LastLink
    <2>4. PICK f \in DOMAIN h : /\ GetVariable(h, Root, Front(y)) = Just(f) /\ Fits(h[f], Last(y))
                                /\ Holds(h, f, Slot(h, f, Last(y)), d)
      BY <1>0, <2>1, <2>2, LastLink
    <2>5. e = f /\ Slot(h, e, Last(x)) = Slot(h, f, Last(y))
      BY <2>3, <2>4 DEF Sound, OwnedOnce
    <2>6. /\ IsPath(Front(y)) /\ Canonical(Front(x)) /\ Canonical(Front(y))
          /\ IsKey(Last(x)) /\ IsKey(Last(y))
          /\ (IsInt(Last(x)) => Last(x).n >= 0) /\ (IsInt(Last(y)) => Last(y).n >= 0)
      BY <1>4, <2>1, <2>2, FrontFacts
    <2>7. Front(x) = Front(y)
      BY <1>0, <1>4, <2>3, <2>4, <2>5, <2>6
    <2>8. Last(x) = Last(y)
      <3>1. Slot(h, e, Last(x)) \in DOMAIN h[e].a
        BY <2>3 DEF Holds
      <3> QED BY <2>3, <2>4, <2>5, <2>6, <3>1, OneKey
    <2> QED BY <1>4, <2>1, <2>2, <2>7, <2>8, Rejoined
  <1>5. p \in G
    <2> HIDE DEF G
    <2> QED BY <1>3, <1>4, AlongPath
  <1> QED BY <1>5

-----------------------------------------------------------------------------
(* Counting the indexes of a path from the start. *)

Straight(h, o, key) == IF IsInt(key) /\ key.n < 0 THEN Num(key.n + Len(h[o].a)) ELSE key

Straightened(h, x, key) == IF x \in {Nothing, Just(Null)} THEN key ELSE Straight(h, x[1], key)

LEMMA FromStartIs ==
  ASSUME NEW h, NEW p
  PROVE  FromStart(h, p) =
           [k \in DOMAIN p |-> Straightened(h, GetVariable(h, Root, SubSeq(p, 1, k - 1)), p[k])]
  <1> DEFINE X(k) == GetVariable(h, Root, SubSeq(p, 1, k - 1))
  <1>1. FromStart(h, p) =
          [k \in DOMAIN p |-> IF IsInt(p[k]) /\ p[k].n < 0 /\ X(k) \notin {Nothing, Just(Null)}
                              THEN Num(p[k].n + Len(h[X(k)[1]].a)) ELSE p[k]]
    BY DEF FromStart
  <1> HIDE DEF X
  <1>2. \A k \in DOMAIN p : Straightened(h, X(k), p[k]) =
          IF IsInt(p[k]) /\ p[k].n < 0 /\ X(k) \notin {Nothing, Just(Null)}
          THEN Num(p[k].n + Len(h[X(k)[1]].a)) ELSE p[k]
    BY DEF Straightened, Straight
  <1>3. [k \in DOMAIN p |-> Straightened(h, X(k), p[k])] =
          [k \in DOMAIN p |-> IF IsInt(p[k]) /\ p[k].n < 0 /\ X(k) \notin {Nothing, Just(Null)}
                              THEN Num(p[k].n + Len(h[X(k)[1]].a)) ELSE p[k]]
    BY <1>2
  <1> QED BY <1>1, <1>3 DEF X

LEMMA StraightIs ==
  ASSUME NEW h, NEW o \in DOMAIN h, IsCell(h[o]), NEW key, IsKey(key)
  PROVE  /\ IsKey(Straight(h, o, key))
         /\ Fits(h[o], Straight(h, o, key)) <=> Fits(h[o], key)
         /\ IsInt(Straight(h, o, key)) <=> IsInt(key)
         /\ Fits(h[o], key) /\ Slot(h, o, key) \in DOMAIN h[o].a =>
               /\ Slot(h, o, Straight(h, o, key)) = Slot(h, o, key)
               /\ IsInt(key) => Straight(h, o, key).n >= 0
         /\ IsInt(key) /\ key.n >= -Len(h[o].a) =>
               /\ Slot(h, o, Straight(h, o, key)) = Slot(h, o, key) /\ Straight(h, o, key).n >= 0
         /\ IsStr(key) => Straight(h, o, key) = key
  <1> DEFINE n == Len(h[o].a)
             new == Num(key.n + n)
  <1>1. n \in Nat /\ DOMAIN h[o].a = 1..n /\ key.n \in Int /\ (IsInt(key) <=> ~IsStr(key))
    BY CellFacts, KeyFacts
  <1>2. CASE IsInt(key) /\ key.n < 0
    <2>1. new.n = key.n + n /\ new.t = "INT" /\ new = Num(new.n)
      BY DEF Num, Value
    <2>2. Straight(h, o, key) = new
      BY <1>2 DEF Straight
    <2>3. IsInt(new) /\ ~IsStr(new) /\ IsKey(new)
      BY <1>1, <2>1 DEF IsKey, IsInt, IsStr
    <2>4. Slot(h, o, key) = key.n + n + 1
      BY <1>2 DEF Slot
    <2>5. Slot(h, o, new) = (IF key.n + n < 0 THEN key.n + n + n ELSE key.n + n) + 1
      BY <2>1, <2>3 DEF Slot
    <2> HIDE DEF n, new
    <2>6. key.n + n >= 0 => Slot(h, o, new) = Slot(h, o, key) /\ new.n >= 0
      BY <1>1, <2>1, <2>4, <2>5
    <2>7. Slot(h, o, key) \in DOMAIN h[o].a => key.n + n >= 0
      BY <1>1, <2>4
    <2>8. key.n >= -n => key.n + n >= 0
      BY <1>1
    <2> QED BY <1>1, <1>2, <2>2, <2>3, <2>6, <2>7, <2>8 DEF Fits, n
  <1>3. CASE ~(IsInt(key) /\ key.n < 0)
    <2>1. Straight(h, o, key) = key
      BY <1>3 DEF Straight
    <2>2. IsInt(key) => key.n >= 0
      BY <1>1, <1>3
    <2> QED BY <1>1, <2>1, <2>2
  <1> QED BY <1>2, <1>3

LEMMA FromStartPath ==
  ASSUME NEW h, Sound(h), NEW p, IsPath(p)
  PROVE  /\ IsPath(FromStart(h, p)) /\ Len(FromStart(h, p)) = Len(p)
         /\ p # <<>> => /\ Front(FromStart(h, p)) = FromStart(h, Front(p)) /\ FromStart(h, p) # <<>>
                        /\ Last(FromStart(h, p)) = Straightened(h, GetVariable(h, Root, Front(p)), Last(p))
  <1> DEFINE f == FromStart(h, p)
             n == Len(p)
             X(k) == Straightened(h, GetVariable(h, Root, SubSeq(p, 1, k - 1)), p[k])
  <1>1. n \in Nat /\ DOMAIN p = 1..n /\ \A k \in 1..n : IsKey(p[k])
    BY PathFacts DEF IsPath
  <1>2. f = [k \in 1..n |-> X(k)]
    BY <1>1, FromStartIs
  <1>3. ASSUME NEW k \in 1..n PROVE IsKey(X(k))
    <2>1. k - 1 \in 0..n
      BY <1>1
    <2>2. IsPath(SubSeq(p, 1, k - 1))
      BY <2>1, PathFacts
    <2> DEFINE x == GetVariable(h, Root, SubSeq(p, 1, k - 1))
    <2>3. Root \in DOMAIN h /\ \A d \in DOMAIN h : IsCell(h[d])
      BY DEF Sound, Laid
    <2>4. x = Nothing \/ \E d \in DOMAIN h \union {Null} : x = Just(d)
      BY <2>2, <2>3, GetInside
    <2>5. x \notin {Nothing, Just(Null)} => x[1] \in DOMAIN h
      BY <2>4 DEF Just
    <2> HIDE DEF x
    <2>6. IsKey(Straightened(h, x, p[k]))
      BY <1>1, <2>3, <2>5, StraightIs DEF Straightened
    <2> QED BY <2>6 DEF x
  <1> HIDE DEF f, n, X
  <1>4. DOMAIN f = 1..n /\ Len(f) = n /\ f = [k \in 1..n |-> f[k]] /\ \A k \in 1..n : IsKey(f[k]) /\ f[k] = X(k)
    BY <1>1, <1>2, <1>3
  <1>5. IsPath(f)
    <2>1. \A k \in 1..n : f[k] \in Range(f)
      BY <1>4 DEF Range
    <2> QED BY <1>1, <1>4, <2>1 DEF IsPath
  <1>6. ASSUME p # <<>>
        PROVE  /\ Front(f) = FromStart(h, Front(p)) /\ f # <<>>
               /\ Last(f) = Straightened(h, GetVariable(h, Root, Front(p)), Last(p))
    <2> DEFINE m == n - 1
    <2>1. /\ m \in Nat /\ m + 1 = n /\ IsPath(Front(p)) /\ Len(Front(p)) = m
          /\ \A k \in 1..m : Front(p)[k] = p[k]
          /\ Last(p) = p[m + 1] /\ Front(p) = SubSeq(p, 1, m)
      BY <1>6, FrontFacts, PathFacts DEF n
    <2> HIDE DEF m
    <2>2. f # <<>>
      <3>1. Len(<<>>) = 0 /\ n # 0
        BY <2>1
      <3> QED BY <1>4, <3>1
    <2>3. /\ Len(Front(f)) = m /\ IsPath(Front(f)) /\ \A k \in 1..m : Front(f)[k] = f[k]
          /\ Last(f) = f[n]
      <3>1. Len(f) - 1 = m /\ m + 1 = n
        BY <1>4, <2>1 DEF m
      <3> QED BY <1>5, <2>2, <3>1, FrontFacts
    <2>4. Last(f) = Straightened(h, GetVariable(h, Root, Front(p)), Last(p))
      <3>1. n \in 1..n /\ n - 1 = m
        BY <2>1
      <3>2. f[n] = X(n)
        BY <1>4, <3>1
      <3>3. X(n) = Straightened(h, GetVariable(h, Root, SubSeq(p, 1, m)), p[n])
        BY <3>1 DEF X
      <3> QED BY <2>1, <2>3, <3>2, <3>3
    <2>5. ASSUME NEW k \in 1..m PROVE FromStart(h, Front(p))[k] = f[k]
      <3>1. k \in 1..n /\ k - 1 \in 0..m /\ m <= n /\ k - 1 \in Nat
        BY <2>1
      <3>2. DOMAIN Front(p) = 1..m
        BY <2>1, PathFacts
      <3>3. FromStart(h, Front(p))[k] =
              Straightened(h, GetVariable(h, Root, SubSeq(Front(p), 1, k - 1)), p[k])
        BY <2>1, <3>2, FromStartIs
      <3>4. SubSeq(Front(p), 1, k - 1) = SubSeq(p, 1, k - 1)
        <4>1. p \in Seq(Range(p)) /\ Len(p) = n
          BY DEF IsPath, n
        <4> QED BY <2>1, <3>1, <4>1
      <3> QED BY <1>4, <3>1, <3>3, <3>4 DEF X
    <2>6. Front(f) = [k \in 1..m |-> f[k]]
      <3>1. Front(f) = [k \in 1..m |-> Front(f)[k]]
        BY <2>3, PathFacts
      <3> QED BY <2>3, <3>1
    <2>7. FromStart(h, Front(p)) = [k \in 1..m |-> f[k]]
      <3>1. DOMAIN Front(p) = 1..m
        BY <2>1, PathFacts
      <3>2. FromStart(h, Front(p)) = [k \in 1..m |-> FromStart(h, Front(p))[k]]
        BY <3>1, FromStartIs
      <3> QED BY <2>5, <3>2
    <2> QED BY <2>2, <2>4, <2>6, <2>7
  <1> QED BY <1>4, <1>5, <1>6 DEF f, n

LEMMA LinkFacts ==
  ASSUME NEW h, Sound(h), NEW d \in DOMAIN h
  PROVE  /\ Just(d) \notin {Nothing, Just(Null)} /\ Just(d)[1] = d /\ IsCell(h[d])
         /\ \A key : Straightened(h, Just(d), key) = Straight(h, d, key)
  BY DEF Sound, Laid, Just, Nothing, Straightened

LEMMA CanonicalJoined ==
  ASSUME NEW p, IsPath(p), p # <<>>, Canonical(Front(p)), IsInt(Last(p)) => Last(p).n >= 0
  PROVE  Canonical(p)
  <1> DEFINE n == Len(p) - 1
  <1>1. /\ n \in Nat /\ n + 1 = Len(p) /\ IsPath(Front(p)) /\ Len(Front(p)) = n
        /\ \A k \in 1..n : Front(p)[k] = p[k]
        /\ Last(p) = p[n + 1] /\ DOMAIN p = 1..Len(p)
    BY FrontFacts, PathFacts
  <1> HIDE DEF n
  <1>2. DOMAIN Front(p) = 1..n /\ DOMAIN p = 1..(n + 1)
    BY <1>1, PathFacts
  <1>3. \A k \in 1..(n + 1) : k \in 1..n \/ k = n + 1
    BY <1>1
  <1> QED BY <1>1, <1>2, <1>3 DEF Canonical

\* It leads where the path leads, and if that is somewhere, all indexes count from the start.
LEMMA FromStartLeads ==
  ASSUME NEW h, Sound(h), NEW p, IsPath(p), GetVariable(h, Root, p) # Nothing
  PROVE  /\ GetVariable(h, Root, FromStart(h, p)) = GetVariable(h, Root, p)
         /\ Canonical(FromStart(h, p))
  <1> DEFINE Good(q) == GetVariable(h, Root, q) # Nothing =>
                           /\ GetVariable(h, Root, FromStart(h, q)) = GetVariable(h, Root, q)
                           /\ Canonical(FromStart(h, q))
             G == {q \in PrefixesOf(p) : Good(q)}
  <1>0. Root \in DOMAIN h
    BY DEF Sound, Laid
  <1>1. \A q \in PrefixesOf(p) : IsPath(q)
    BY PrefixesAre
  <1>2. <<>> \in G
    <2>1. FromStart(h, <<>>) = <<>>
      <3>1. DOMAIN <<>> = {}
        OBVIOUS
      <3>2. FromStart(h, <<>>) = [k \in {} |-> 0]
        BY <3>1, FromStartIs
      <3> QED BY <3>2
    <2> QED BY <2>1, PrefixesAre DEF Canonical
  <1>3. ASSUME NEW q \in PrefixesOf(p), q # <<>>, Front(q) \in G PROVE q \in G
    <2> SUFFICES ASSUME GetVariable(h, Root, q) # Nothing PROVE Good(q)
      OBVIOUS
    <2> DEFINE f == FromStart(h, q)
    <2>1. IsPath(q)
      BY <1>1
    <2>2. PICK c : GetVariable(h, Root, q) = Just(c)
      BY <1>0, <2>1, GetInside
    <2>3. PICK d \in DOMAIN h : /\ GetVariable(h, Root, Front(q)) = Just(d) /\ Fits(h[d], Last(q))
                                /\ Holds(h, d, Slot(h, d, Last(q)), c)
      BY <1>0, <1>3, <2>1, <2>2, LastLink
    <2>4. /\ IsPath(f) /\ f # <<>> /\ Front(f) = FromStart(h, Front(q))
          /\ Last(f) = Straight(h, d, Last(q))
      BY <1>3, <2>1, <2>3, FromStartPath, LinkFacts
    <2>5. GetVariable(h, Root, Front(f)) = Just(d) /\ Canonical(Front(f))
      <3>1. Just(d) # Nothing
        BY LinkFacts
      <3> QED BY <1>3, <2>3, <2>4, <3>1
    <2>6. IsKey(Last(q)) /\ IsCell(h[d]) /\ Slot(h, d, Last(q)) \in DOMAIN h[d].a
      BY <1>3, <2>1, <2>3, PathFacts, LinkFacts DEF Holds
    <2>7. /\ Fits(h[d], Last(f)) /\ Slot(h, d, Last(f)) = Slot(h, d, Last(q))
          /\ (IsInt(Last(f)) => Last(f).n >= 0)
      BY <2>3, <2>4, <2>6, StraightIs
    <2> HIDE DEF f
    <2>8. GetVariable(h, Root, f) = Just(c)
      <3>1. h[d].a[Slot(h, d, Last(q))] = c
        BY <2>3 DEF Holds
      <3> QED BY <1>0, <2>4, <2>5, <2>6, <2>7, <3>1, FirstLink
    <2>9. Canonical(f)
      BY <2>4, <2>5, <2>7, CanonicalJoined
    <2> QED BY <2>2, <2>8, <2>9 DEF f
  <1>4. p \in G
    <2> HIDE DEF G
    <2> QED BY <1>2, <1>3, AlongPath
  <1> QED BY <1>4

-----------------------------------------------------------------------------
(* What other paths lead to once a variable was put in its place. *)

LEMMA PrefixIs ==
  ASSUME NEW p, IsPath(p), NEW q, IsPath(q)
  PROVE  IsPrefix(p, q) <=> p \in PrefixesOf(q)
  <1>1. Len(p) \in Nat /\ Len(q) \in Nat /\ SubSeq(p, 1, Len(p)) = p
    BY PathFacts
  <1>2. \A n \in 0..Len(q) : Len(SubSeq(q, 1, n)) = n
    BY PathFacts
  <1>3. IsPrefix(p, q) <=> Len(p) <= Len(q) /\ p = SubSeq(q, 1, Len(p))
    BY <1>1 DEF IsPrefix
  <1>4. Len(p) <= Len(q) <=> Len(p) \in 0..Len(q)
    BY <1>1
  <1> QED BY <1>2, <1>3, <1>4 DEF PrefixesOf

LEMMA CanonicalPrefix ==
  ASSUME NEW p, IsPath(p), Canonical(p), NEW q \in PrefixesOf(p)
  PROVE  Canonical(q)
  <1>1. PICK n \in 0..Len(p) : q = SubSeq(p, 1, n)
    BY DEF PrefixesOf
  <1>2. IsPath(q) /\ Len(q) = n /\ \A k \in 1..n : q[k] = p[k]
    BY <1>1, PathFacts
  <1>3. DOMAIN q = 1..n /\ DOMAIN p = 1..Len(p) /\ Len(p) \in Nat
    BY <1>2, PathFacts
  <1>4. \A k \in 1..n : k \in 1..Len(p)
    BY <1>3
  <1> QED BY <1>2, <1>3, <1>4 DEF Canonical

\* The path p is the name of the slot of the cell o, counting from the start.
Names(h, p, o, slot) ==
  /\ IsPath(p) /\ p # <<>> /\ Canonical(p) /\ o \in DOMAIN h
  /\ GetVariable(h, Root, Front(p)) = Just(o) /\ slot = Slot(h, o, Last(p))
  /\ Fits(h[o], Last(p)) \/ h[o].t = "NIL"

LEMMA PlacedPath ==
  ASSUME NEW h, Sound(h), NEW g, NEW p, NEW o, NEW slot, NEW t, NEW cell,
         Placed(h, g, o, slot, t, cell), Names(h, p, o, slot),
         NEW q, IsPath(q), Canonical(q), ~IsPrefix(p, q), NEW c, GetVariable(h, Root, q) = Just(c)
  PROVE  GetVariable(g, Root, q) = Just(c)
  <1> DEFINE G == {r \in PrefixesOf(q) : \A d : GetVariable(h, Root, r) = Just(d) =>
                                               GetVariable(g, Root, r) = Just(d)}
  <1>1. /\ Laid(g) /\ o \in DOMAIN g /\ g[o] = cell /\ \A d \in DOMAIN g \ {o} : g[d] = h[d]
        /\ DOMAIN g \subseteq DOMAIN h
    BY PlacedKeeps
  <1>2. Sound(g) /\ Root \in DOMAIN g /\ Root \in DOMAIN h
    BY <1>1, PlacedSound DEF Sound, Laid
  <1>3. /\ IsPath(p) /\ p # <<>> /\ Canonical(p) /\ GetVariable(h, Root, Front(p)) = Just(o)
        /\ slot = Slot(h, o, Last(p)) /\ (Fits(h[o], Last(p)) \/ h[o].t = "NIL")
    BY DEF Names
  <1>4. p \notin PrefixesOf(q) /\ \A r \in PrefixesOf(q) : IsPath(r) /\ Canonical(r)
    BY <1>3, PrefixIs, PrefixesAre, CanonicalPrefix
  <1>5. /\ o \in DOMAIN h /\ IsCell(cell) /\ IsCell(h[o]) /\ (cell.t = h[o].t \/ h[o].t = "NIL")
        /\ cell.a = Stored(h[o].a, slot, t)
        /\ \A i \in DOMAIN h[o].s : i \in DOMAIN cell.s /\ cell.s[i] = h[o].s[i]
    BY DEF Placed, Sound, Laid
  <1>6. \A i \in DOMAIN h[o].a : i \in DOMAIN cell.a /\ (i # slot => cell.a[i] = h[o].a[i])
    <2>2. slot \in Nat /\ slot >= 1 /\ t \in DOMAIN h
      BY DEF Placed, Unowned
    <2>1. slot \in Nat /\ slot >= 1 /\ t \in Nat /\ h[o].a \in Seq(Nat)
      BY <1>5, <2>2, CellFacts DEF Sound, Laid
    <2>4. ASSUME NEW x \in Seq(Nat), x = h[o].a
          PROVE  \A i \in DOMAIN x : /\ i \in DOMAIN Stored(x, slot, t)
                                     /\ (i # slot => Stored(x, slot, t)[i] = x[i])
      BY <2>1, StoredKeeps
    <2>3. \A i \in DOMAIN h[o].a : /\ i \in DOMAIN Stored(h[o].a, slot, t)
                                   /\ (i # slot => Stored(h[o].a, slot, t)[i] = h[o].a[i])
      BY <2>1, <2>4
    <2> QED BY <1>5, <2>3
  <1>7. <<>> \in G
    BY PrefixesAre, GetNone
  <1>8. ASSUME NEW r \in PrefixesOf(q), r # <<>>, Front(r) \in G PROVE r \in G
    <2> SUFFICES ASSUME NEW d, GetVariable(h, Root, r) = Just(d) PROVE GetVariable(g, Root, r) = Just(d)
      OBVIOUS
    <2> DEFINE key == Last(r)
    <2>1. IsPath(r) /\ Canonical(r) /\ IsPath(Front(r)) /\ Canonical(Front(r)) /\ IsKey(key)
          /\ (IsInt(key) => key.n >= 0)
      BY <1>4, <1>8, FrontFacts
    <2>2. PICK e \in DOMAIN h : /\ GetVariable(h, Root, Front(r)) = Just(e) /\ Fits(h[e], key)
                                /\ IsCell(h[e]) /\ Holds(h, e, Slot(h, e, key), d)
      BY <1>2, <1>8, <2>1, LastLink
    <2>3. GetVariable(g, Root, Front(r)) = Just(e)
      BY <1>8, <2>2
    <2>4. e \in DOMAIN g
      <3>1. Just(e) # Nothing /\ Just(e) # Just(Null) /\ \A x : Just(e) = Just(x) => x = e
        BY <2>2 DEF Just, Nothing, Sound, Laid
      <3> QED BY <1>2, <2>1, <2>3, <3>1, GetInside
    <2>5. GetVariable(g, Root, r) = Element(g, e, key) /\ GetVariable(h, Root, r) = Element(h, e, key)
      BY <1>2, <1>8, <2>1, <2>2, <2>3, <2>4, FirstLink
    <2>6. CASE e # o
      <3>1. g[e] = h[e]
        BY <1>1, <2>4, <2>6
      <3> QED BY <2>5, <3>1, ElementAgain
    <2>7. CASE e = o
      <3> DEFINE i == Slot(h, o, key)
      <3>1. i \in DOMAIN h[o].a /\ h[o].a[i] = d
        BY <2>2, <2>7 DEF Holds
      <3>2. Fits(h[o], key) /\ h[o].t # "NIL" /\ Fits(cell, key) /\ Fits(h[o], Last(p))
        BY <1>3, <1>5, <2>2, <2>7 DEF Fits
      <3>3. i # slot
        <4>1. CASE i = slot
          <5>1. IsKey(Last(p)) /\ IsPath(Front(p)) /\ Canonical(Front(p)) /\ (IsInt(Last(p)) => Last(p).n >= 0)
            BY <1>3, FrontFacts
          <5>2. key = Last(p)
            <6>1. Slot(h, o, key) = Slot(h, o, Last(p)) /\ Slot(h, o, key) \in DOMAIN h[o].a
              BY <1>3, <3>1, <4>1
            <6> HIDE DEF key, i
            <6> QED BY <1>5, <2>1, <3>2, <5>1, <6>1, OneKey
          <5>3. o # Null
            BY <1>5 DEF Sound, Laid
          <5>4. Front(r) = Front(p)
            BY <1>3, <2>1, <2>2, <2>7, <5>1, <5>3, OneName
          <5>5. r = p
            BY <1>3, <1>8, <2>1, <5>2, <5>4, Rejoined
          <5> QED BY <1>4, <5>5
        <4> QED BY <4>1
      <3>4. Slot(g, o, key) = i
        <4>1. CASE IsInt(key)
          <5>1. ~(key.n < 0)
            BY <2>1, <4>1, KeyFacts
          <5> QED BY <4>1, <5>1 DEF Slot
        <4>2. CASE IsStr(key)
          <5>1. i \in DOMAIN h[o].s /\ h[o].s[i] = key.s
            BY <1>5, <2>1, <3>1, <3>2, <4>2, SlotIs
          <5>2. i \in DOMAIN g[o].s /\ g[o].s[i] = key.s
            BY <1>1, <1>5, <5>1
          <5> HIDE DEF i
          <5> QED BY <1>1, <1>5, <2>1, <3>2, <4>2, <5>2, SlotIs
        <4> QED BY <3>2, <4>1, <4>2 DEF Fits
      <3>5. i \in DOMAIN g[o].a /\ g[o].a[i] = d
        BY <1>1, <1>6, <3>1, <3>3
      <3> HIDE DEF i
      <3>6. Element(g, o, key) = Just(d)
        BY <1>1, <1>5, <2>1, <3>2, <3>4, <3>5, ElementIs
      <3> QED BY <2>5, <2>7, <3>6
    <2> QED BY <2>6, <2>7
  <1>9. q \in G
    <2> HIDE DEF G
    <2> QED BY <1>7, <1>8, AlongPath
  <1> QED BY <1>9

-----------------------------------------------------------------------------
(* The resolver puts a variable in its place, or refuses. *)

LEMMA AppendStored ==
  ASSUME NEW a \in Seq(Nat), NEW t \in Nat
  PROVE  Append(a, t) = Stored(a, Len(a) + 1, t)
  <1> DEFINE n == Len(a) + 1
             b == Stored(a, n, t)
             x == Append(a, t)
  <1>1. n \in Nat /\ n >= 1 /\ Len(a) \in Nat /\ Len(a) = n - 1
    OBVIOUS
  <1>2. /\ x \in Seq(Nat) /\ Len(x) = n /\ x[n] = t /\ \A i \in 1..Len(a) : x[i] = a[i]
        /\ DOMAIN a = 1..Len(a)
    OBVIOUS
  <1> HIDE DEF n, x
  <1>3. /\ b \in Seq(Nat) /\ b[n] = t /\ Len(b) >= Len(a) /\ Len(b) >= n
        /\ (Len(b) = Len(a) \/ Len(b) = n)
        /\ \A i \in DOMAIN a : i # n => b[i] = a[i]
    BY <1>1, StoredIs
  <1> HIDE DEF b
  <1>4. Len(b) = n
    BY <1>1, <1>3
  <1>5. \A i \in 1..n : x[i] = b[i]
    <2>1. \A i \in 1..n : i = n \/ (i \in 1..Len(a) /\ i # n)
      BY <1>1
    <2> QED BY <1>2, <1>3, <2>1
  <1>6. x = [i \in 1..n |-> x[i]] /\ b = [i \in 1..n |-> b[i]]
    BY <1>2, <1>3, <1>4
  <1>7. [i \in 1..n |-> x[i]] = [i \in 1..n |-> b[i]]
    BY <1>5
  <1> QED BY <1>6, <1>7 DEF x, b, n

LEMMA ReplaceStored ==
  ASSUME NEW a \in Seq(Nat), NEW slot \in DOMAIN a, NEW t \in Nat
  PROVE  [a EXCEPT ![slot] = t] = Stored(a, slot, t)
  <1> DEFINE n == Len(a)
             b == Stored(a, slot, t)
             x == [a EXCEPT ![slot] = t]
  <1>1. n \in Nat /\ DOMAIN a = 1..n /\ slot \in Nat /\ slot >= 1 /\ slot <= n
    OBVIOUS
  <1>2. x = [i \in 1..n |-> x[i]] /\ x[slot] = t /\ \A i \in 1..n : i # slot => x[i] = a[i]
    OBVIOUS
  <1> HIDE DEF n, x
  <1>3. /\ b \in Seq(Nat) /\ b[slot] = t /\ Len(b) >= n /\ (Len(b) = n \/ Len(b) = slot)
        /\ \A i \in DOMAIN a : i # slot => b[i] = a[i]
    BY <1>1, StoredIs DEF n
  <1> HIDE DEF b
  <1>4. Len(b) = n
    BY <1>1, <1>3
  <1>5. \A i \in 1..n : x[i] = b[i]
    BY <1>1, <1>2, <1>3
  <1>6. b = [i \in 1..n |-> b[i]]
    BY <1>3, <1>4
  <1>7. [i \in 1..n |-> x[i]] = [i \in 1..n |-> b[i]]
    BY <1>5
  <1> QED BY <1>2, <1>6, <1>7 DEF x, b

LEMMA HashIs ==
  ASSUME NEW s, NEW a
  PROVE  /\ Hash(s, a).t = "HASH" /\ Hash(s, a).s = s /\ Hash(s, a).a = a /\ Hash(s, a).n = 0
         /\ List(a).t = "LIST" /\ List(a).s = <<>> /\ List(a).a = a /\ List(a).n = 0
  BY DEF Hash, List, Value

\* setDictionaryVariable, on the cell o and an unowned t behind it.
LEMMA DictionarySet ==
  ASSUME NEW h, Sound(h), NEW o \in DOMAIN h, NEW key, IsKey(key), IsStr(key),
         NEW t \in Unowned(h), t > o
  PROVE  LET set == SetDictionaryVariable(h, o, key.s, t)
         IN  \/ set.p = Null /\ set.h = h
             \/ /\ set.p = t /\ (Fits(h[o], key) \/ h[o].t = "NIL")
                /\ \E cell : Placed(h, set.h, o, Slot(h, o, key), t, cell)
  <1> DEFINE v == h[o]
             old == KeyIndex(v, key.s)
             slot == CHOOSE k \in old : TRUE
             set == SetDictionaryVariable(h, o, key.s, t)
             n == Len(v.a)
  <1>1. /\ IsCell(v) /\ h = [c \in DOMAIN h |-> h[c]] /\ t \in DOMAIN h /\ t \in Nat \ {Null} /\ o \in Nat
        /\ t # o
    BY DEF Sound, Laid, Unowned
  <1>2. /\ v.a \in Seq(Nat) /\ n \in Nat /\ DOMAIN v.a = 1..n
        /\ v = [t |-> v.t, n |-> v.n, s |-> v.s, a |-> v.a]
    BY <1>1, CellFacts
  <1>3. ~IsInt(key)
    BY KeyFacts
  <1>4. Slot(h, o, key) = IF old # {} THEN slot ELSE n + 1
    BY <1>3 DEF Slot
  <1>5. CASE v.t \notin {"NIL", "HASH"}
    BY <1>5 DEF SetDictionaryVariable, At
  <1>6. CASE v.t = "NIL"
    <2> DEFINE cell == Hash(<<key.s>>, <<t>>)
    <2>1. set.h = [h EXCEPT ![o] = cell] /\ set.p = t
      BY <1>6 DEF SetDictionaryVariable, At
    <2>2. v = Nil /\ v.a = <<>> /\ v.s = <<>>
      <3>1. v = Nil
        BY <1>1, <1>6, CellFacts, ScalarFacts
      <3> QED BY <3>1 DEF Nil, Value
    <2>3. old = {}
      BY <2>2 DEF KeyIndex
    <2>4. Slot(h, o, key) = 1 /\ n = 0
      BY <1>4, <2>2, <2>3
    <2>5. <<t>> = Stored(v.a, 1, t)
      <3>1. <<>> \in Seq(Nat) /\ Len(<<>>) + 1 = 1 /\ Append(<<>>, t) = <<t>> /\ t \in Nat
        BY <1>1
      <3> QED BY <2>2, <3>1, AppendStored
    <2>6. IsCell(cell) /\ cell.a = <<t>> /\ cell.t = "HASH" /\ cell.s = <<key.s>>
      <3>1. cell.a = <<t>> /\ cell.t = "HASH" /\ cell.s = <<key.s>>
        BY HashIs
      <3>2. <<t>> \in Seq(Nat \ {Null}) /\ Len(<<t>>) = 1
        BY <1>1
      <3>3. Range(<<key.s>>) = {key.s}
        BY DEF Range
      <3>4. <<key.s>> \in Seq({key.s}) /\ Len(<<key.s>>) = 1 /\ DOMAIN <<key.s>> = {1}
        OBVIOUS
      <3> HIDE DEF cell
      <3>5. cell = Hash(cell.s, cell.a)
        BY <3>1 DEF cell
      <3>6. cell.s \in Seq(Range(cell.s)) /\ Len(cell.s) = Len(cell.a)
            /\ \A i, j \in DOMAIN cell.s : cell.s[i] = cell.s[j] => i = j
        BY <3>1, <3>2, <3>3, <3>4
      <3> QED BY <3>1, <3>2, <3>5, <3>6 DEF IsCell
    <2>7. Occupant(h, o, 1) = Null
      BY <1>2, <2>4 DEF Occupant
    <2>8. Delete(h, Occupant(h, o, 1)) = h
      BY <2>7 DEF Delete
    <2> HIDE DEF cell
    <2>9. Placed(h, set.h, o, 1, t, cell)
      <3>1. \A i \in DOMAIN v.s : FALSE
        BY <2>2
      <3> QED BY <1>6, <2>1, <2>5, <2>6, <2>8, <3>1 DEF Placed
    <2> QED BY <1>6, <2>1, <2>4, <2>9
  <1>7. CASE v.t = "HASH"
    <2>1. /\ v = Hash(v.s, v.a) /\ v.a \in Seq(Nat \ {Null}) /\ v.s \in Seq(Range(v.s))
          /\ Len(v.s) = n /\ \A i, j \in DOMAIN v.s : v.s[i] = v.s[j] => i = j
      BY <1>1, <1>7, CellFacts
    <2>2. old = {k \in 1..n : v.s[k] = key.s} /\ DOMAIN v.s = 1..n
      BY <2>1 DEF KeyIndex
    <2>3. Fits(v, key)
      BY <1>7 DEF Fits
    <2>4. CASE old = {}
      <3> DEFINE cell == Hash(Append(v.s, key.s), Append(v.a, t))
      <3>1. set.h = [h EXCEPT ![o] = cell] /\ set.p = t
        <4>1. set = At([h EXCEPT ![o] = cell], t)
          BY <1>7, <2>4, Zenon DEF SetDictionaryVariable
        <4> QED BY <4>1 DEF At
      <3>2. cell.t = "HASH" /\ cell.s = Append(v.s, key.s) /\ cell.a = Append(v.a, t)
        BY DEF Hash, Value
      <3>3. cell.a = Stored(v.a, n + 1, t)
        BY <1>1, <1>2, <3>2, AppendStored
      <3>4. cell.a \in Seq(Nat \ {Null}) /\ Len(cell.a) = n + 1
        BY <1>1, <2>1, <3>2
      <3>5. /\ Len(cell.s) = n + 1 /\ DOMAIN cell.s = 1..(n + 1) /\ cell.s[n + 1] = key.s
            /\ \A i \in 1..n : cell.s[i] = v.s[i]
        <4> DEFINE S == Range(v.s) \union {key.s}
        <4>1. v.s \in Seq(S) /\ key.s \in S
          BY <2>1
        <4> HIDE DEF S
        <4> QED BY <1>2, <2>1, <3>2, <4>1
      <3> HIDE DEF cell
      <3>6. cell = Hash(cell.s, cell.a)
        BY <3>2 DEF cell
      <3>7. cell.s \in Seq(Range(cell.s))
        <4>1. \A i \in 1..(n + 1) : cell.s[i] \in Range(cell.s)
          BY <3>5 DEF Range
        <4>2. cell.s = [i \in 1..(n + 1) |-> cell.s[i]]
          <5> DEFINE S == Range(v.s) \union {key.s}
          <5>1. v.s \in Seq(S) /\ key.s \in S
            BY <2>1
          <5> HIDE DEF S
          <5>2. cell.s \in Seq(S)
            BY <3>2, <5>1
          <5> QED BY <3>5, <5>2
        <4> QED BY <1>2, <4>1, <4>2
      <3>8. \A i, j \in DOMAIN cell.s : cell.s[i] = cell.s[j] => i = j
        <4>1. \A i \in 1..(n + 1) : i \in 1..n \/ i = n + 1
          BY <1>2
        <4>2. \A i \in 1..n : cell.s[i] # key.s
          BY <2>2, <2>4, <3>5
        <4> QED BY <2>1, <2>2, <3>5, <4>1, <4>2
      <3>9. IsCell(cell)
        BY <3>2, <3>4, <3>5, <3>6, <3>7, <3>8 DEF IsCell
      <3>10. Occupant(h, o, n + 1) = Null
        BY <1>2 DEF Occupant
      <3>11. Delete(h, Occupant(h, o, n + 1)) = h
        BY <3>10 DEF Delete
      <3>12. Placed(h, set.h, o, n + 1, t, cell)
        <4>1. n + 1 \in Nat /\ n + 1 >= 1 /\ \A i \in 1..n : i \in 1..(n + 1)
          BY <1>2
        <4> QED BY <1>7, <2>2, <3>1, <3>2, <3>3, <3>5, <3>9, <3>11, <4>1 DEF Placed
      <3> QED BY <1>4, <2>3, <2>4, <3>1, <3>12
    <2>5. CASE old # {}
      <3> DEFINE cell == [v EXCEPT !.a[slot] = t]
                 D == Delete(h, v.a[slot])
      <3>1. set.h = [D EXCEPT ![o].a[slot] = t] /\ set.p = t
        BY <1>7, <2>5 DEF SetDictionaryVariable, At
      <3>2. slot \in 1..n
        BY <2>2, <2>5
      <3> HIDE DEF slot, old
      <3>3. v.a[slot] # Null /\ v.a[slot] \in Nat
        BY <2>1, <3>2
      <3>4. Holds(h, o, slot, v.a[slot])
        BY <1>2, <3>2 DEF Holds
      <3>5. v.a[slot] \in DOMAIN h /\ v.a[slot] > o
        BY <3>3, <3>4 DEF Sound, Descends
      <3>6. v.a[slot] # Root
        BY <1>1, <3>3, <3>5 DEF Root, Sound, Laid, Null
      <3>7. o \in DOMAIN D /\ D[o] = v
        <4>1. /\ DOMAIN D = DOMAIN h \ Reach(h, v.a[slot]) /\ \A d \in DOMAIN D : D[d] = h[d]
              /\ \A d \in Reach(h, v.a[slot]) : d >= v.a[slot]
          BY <3>5, <3>6, Freed
        <4>2. o \notin Reach(h, v.a[slot])
          BY <1>1, <3>3, <3>5, <4>1
        <4> QED BY <4>1, <4>2
      <3>8. set.h = [D EXCEPT ![o] = cell]
        BY <3>1, <3>7
      <3>9. cell = [v EXCEPT !.a = [v.a EXCEPT ![slot] = t]]
        BY <1>2
      <3>10. [v.a EXCEPT ![slot] = t] = Stored(v.a, slot, t)
        BY <1>1, <1>2, <3>2, ReplaceStored
      <3>11. [v.a EXCEPT ![slot] = t] \in Seq(Nat \ {Null}) /\ Len([v.a EXCEPT ![slot] = t]) = n
        BY <1>1, <1>2, <2>1, <3>2
      <3>12. IsCell(cell)
        <4> DEFINE a == [v.a EXCEPT ![slot] = t]
        <4>1. a \in Seq(Nat \ {Null}) /\ a \in Seq(Nat) /\ Len(a) = Len(v.a)
          BY <3>11
        <4> HIDE DEF a, v, cell
        <4>2. IsCell([v EXCEPT !.a = a])
          BY <1>1, <4>1, CellSet
        <4> QED BY <3>9, <4>2 DEF a
      <3>13. cell.a = Stored(v.a, slot, t) /\ cell.t = v.t /\ cell.s = v.s
        BY <1>2, <3>9, <3>10
      <3>14. Occupant(h, o, slot) = v.a[slot]
        BY <1>2, <3>2 DEF Occupant
      <3> HIDE DEF cell, D
      <3>15. Placed(h, set.h, o, slot, t, cell)
        <4>1. slot \in Nat /\ slot >= 1
          BY <3>2
        <4> QED BY <3>8, <3>12, <3>13, <3>14, <4>1 DEF Placed, D
      <3> QED BY <1>4, <2>3, <2>5, <3>1, <3>15
    <2> QED BY <2>4, <2>5
  <1> QED BY <1>5, <1>6, <1>7

\* setArrayVariable, which puts a copy in the place.
LEMMA ArraySet ==
  ASSUME NEW h, Sound(h), NEW o \in DOMAIN h, NEW key, IsKey(key), IsInt(key),
         NEW t \in DOMAIN h, SetArrayIsDefined(h, o, key.n)
  PROVE  LET set == SetArrayVariable(h, o, key.n, t)
             copy == CreateClone(h, t)
         IN  \/ set.p = Null /\ set.h = h /\ ~Fits(h[o], key)
             \/ /\ set.p = copy.p /\ Fits(h[o], key)
                /\ \E cell : Placed(copy.h, set.h, o, Slot(h, o, key), copy.p, cell) /\ cell.t = "LIST"
  <1> DEFINE v == h[o]
             n == Len(v.a)
             i == IF key.n < 0 THEN key.n + n ELSE key.n
             copy == CreateClone(h, t)
             set == SetArrayVariable(h, o, key.n, t)
             grown == [k \in 1..Max({n, i + 1}) |-> IF k <= n THEN v.a[k] ELSE Null]
  <1>1. IsCell(v) /\ Injected(h, copy.h, copy.p)
    BY Cloned DEF Sound, Laid
  <1>2. set = IF v.t # "LIST" THEN At(h, Null)
              ELSE At([Delete(copy.h, grown[i + 1]) EXCEPT ![o].a = [grown EXCEPT ![i + 1] = copy.p]], copy.p)
    BY DEF SetArrayVariable
  <1>3. CASE v.t # "LIST"
    BY <1>2, <1>3, KeyFacts DEF At, Fits
  <1>4. CASE v.t = "LIST"
    <2> DEFINE slot == i + 1
               cell == List(Stored(v.a, slot, copy.p))
    <2>1. v.a \in Seq(Nat) /\ n \in Nat /\ DOMAIN v.a = 1..n /\ key.n \in Int /\ key.n >= -n /\ v = List(v.a)
      BY <1>1, <1>4, CellFacts, KeyFacts DEF SetArrayIsDefined
    <2>2. slot \in Nat /\ slot >= 1 /\ slot - 1 = i
      BY <2>1
    <2>3. Slot(h, o, key) = slot
      BY DEF Slot
    <2>4. set.p = copy.p
         /\ set.h = [Delete(copy.h, grown[slot]) EXCEPT ![o].a = [grown EXCEPT ![slot] = copy.p]]
      <3>1. set = At([Delete(copy.h, grown[slot]) EXCEPT ![o].a = [grown EXCEPT ![slot] = copy.p]], copy.p)
        BY <1>2, <1>4, Zenon
      <3> HIDE DEF set, grown, slot
      <3> QED BY <3>1, Zenon DEF At
    <2>5. /\ Sound(copy.h) /\ o \in DOMAIN copy.h /\ copy.h[o] = v /\ copy.p \in DOMAIN copy.h
          /\ copy.p > o /\ copy.p \in Unowned(copy.h) /\ copy.p \in Nat
      BY <1>1 DEF Injected, Grown, Sound, Laid
    <2> HIDE DEF i, slot, set, copy
    <2>6. Max({n, slot}) \in {n, slot} /\ Max({n, slot}) >= n /\ Max({n, slot}) >= slot
      <3>1. IsFiniteSet({n, slot})
        <4>1. IsFiniteSet({n})
          BY FS_Singleton
        <4>2. IsFiniteSet({n} \cup {slot})
          BY <4>1, FS_AddElement
        <4>3. {n} \cup {slot} = {n, slot}
          OBVIOUS
        <4> QED BY <4>2, <4>3
      <3>2. {n, slot} \in SUBSET Nat /\ {n, slot} # {}
        BY <2>1, <2>2
      <3> QED BY <2>1, <2>2, <3>1, <3>2, Largest
    <2> DEFINE m == Max({n, slot})
    <2>7. m \in Nat /\ m >= n /\ m >= slot /\ slot \in 1..m
      BY <2>1, <2>2, <2>6
    <2>8. grown = [k \in 1..m |-> IF k <= n THEN v.a[k] ELSE Null]
      BY DEF slot
    <2>9. Stored(v.a, slot, copy.p) = [k \in 1..m |-> IF k = slot THEN copy.p ELSE IF k <= n THEN v.a[k] ELSE Null]
      BY DEF Stored
    <2> HIDE DEF grown, m
    <2>10. [grown EXCEPT ![slot] = copy.p] = Stored(v.a, slot, copy.p)
      BY <2>7, <2>8, <2>9
    <2>11. grown[slot] = Occupant(copy.h, o, slot)
      BY <2>1, <2>2, <2>5, <2>7, <2>8 DEF Occupant
    <2> DEFINE D == Delete(copy.h, grown[slot])
    <2>12. o \in DOMAIN D /\ D[o] = v
      <3>1. CASE grown[slot] = Null
        BY <2>5, <3>1 DEF Delete
      <3>2. CASE grown[slot] # Null
        <4> DEFINE x == grown[slot]
        <4>1. Holds(copy.h, o, slot, x)
          BY <2>5, <2>11, <3>2 DEF Occupant, Holds
        <4>2. x \in DOMAIN copy.h /\ x > o
          BY <2>5, <3>2, <4>1 DEF Sound, Descends
        <4>3. x \in Nat /\ o \in Nat /\ x # Root
          BY <2>5, <4>2 DEF Sound, Laid, Null, Root
        <4>4. /\ DOMAIN D = DOMAIN copy.h \ Reach(copy.h, x) /\ \A d \in DOMAIN D : D[d] = copy.h[d]
              /\ \A d \in Reach(copy.h, x) : d >= x
          BY <2>5, <4>2, <4>3, Freed
        <4> HIDE DEF x, D
        <4>5. o \notin Reach(copy.h, x)
          BY <4>2, <4>3, <4>4
        <4> QED BY <2>5, <4>4, <4>5
      <3> QED BY <3>1, <3>2
    <2>13. IsCell(cell) /\ cell.a = Stored(v.a, slot, copy.p) /\ cell.t = "LIST" /\ cell.s = <<>>
      <3>1. Stored(v.a, slot, copy.p) \in Seq(Nat)
        BY <2>1, <2>2, <2>5, StoredIs
      <3>2. cell.a = Stored(v.a, slot, copy.p) /\ cell.t = "LIST" /\ cell.s = <<>>
        BY HashIs
      <3> QED BY <3>1, <3>2 DEF IsCell
    <2>14. v.s = <<>> /\ cell = [v EXCEPT !.a = Stored(v.a, slot, copy.p)]
      <3> DEFINE x == v.a
                 y == Stored(v.a, slot, copy.p)
      <3> HIDE DEF x, y
      <3>1. v = List(x)
        BY <2>1 DEF x
      <3>2. List(y) = [List(x) EXCEPT !.a = y] /\ List(x).s = <<>>
        BY DEF List, Value
      <3> QED BY <3>1, <3>2 DEF y
    <2> HIDE DEF cell, D, v
    <2>15. set.h = [D EXCEPT ![o] = cell]
      BY <2>4, <2>10, <2>12, <2>14 DEF D
    <2>16. Placed(copy.h, set.h, o, slot, copy.p, cell)
      <3>1. \A k \in DOMAIN v.s : FALSE
        BY <2>14
      <3> QED BY <1>4, <2>2, <2>5, <2>11, <2>13, <2>15, <3>1 DEF Placed, D
    <2>17. Fits(h[o], key)
      BY <1>4 DEF Fits, v
    <2> QED BY <2>3, <2>4, <2>13, <2>16, <2>17 DEF copy, set
  <1> QED BY <1>3, <1>4

-----------------------------------------------------------------------------
(* inject: one new variable, behind all that are there. *)

IsSource(h, v) == IsScalar(v) \/ (v.t = "VAR" /\ v.n \in DOMAIN h)

LEMMA InjectedScalarOrCopy ==
  ASSUME NEW h, Sound(h), NEW v, IsSource(h, v)
  PROVE  Injected(h, InjectScalarOrCopy(h, v).h, InjectScalarOrCopy(h, v).p)
  <1>1. CASE IsScalar(v)
    <2>1. v.t # "VAR" /\ v.a = <<>> /\ IsCell(v)
      BY <1>1, ScalarFacts DEF IsCell
    <2>2. InjectScalarOrCopy(h, v) = New(h, v)
      BY <2>1 DEF InjectScalarOrCopy
    <2> QED BY <2>1, <2>2, Created
  <1>2. CASE v.t = "VAR" /\ v.n \in DOMAIN h
    <2>1. InjectScalarOrCopy(h, v) = CreateClone(h, v.n)
      BY <1>2 DEF InjectScalarOrCopy
    <2> QED BY <1>2, <2>1, Cloned
  <1> QED BY <1>1, <1>2 DEF IsSource

LEMMA InjectedElement ==
  ASSUME NEW h, Sound(h), NEW acc, Injected(h, acc.h, acc.p), acc.h[acc.p].t = "LIST",
         NEW v, IsSource(h, v)
  PROVE  LET r == InjectElement(acc, v) IN Injected(h, r.h, r.p) /\ r.h[r.p].t = "LIST"
  <1> DEFINE g == acc.h
             l == acc.p
             x == InjectScalarOrCopy(g, v)
             idx == Len(x.h[l].a)
             key == Num(idx)
             set == SetArrayVariable(x.h, l, idx, x.p)
             copy == CreateClone(x.h, x.p)
             r == InjectElement(acc, v)
  <1>1. Sound(g) /\ IsSource(g, v) /\ Grown(h, g) /\ l \in DOMAIN g \ DOMAIN h /\ g[l].t = "LIST"
        /\ Unowned(g) = Unowned(h) \union {l}
    BY DEF Injected, Grown, IsSource
  <1>2. r = At(Delete(set.h, x.p), l)
    BY DEF InjectElement
  <1>3. r.h = Delete(set.h, x.p) /\ r.p = l
    BY <1>2 DEF At
  <1> HIDE DEF r, g, l
  <1>4. Injected(g, x.h, x.p)
    BY <1>1, InjectedScalarOrCopy
  <1> HIDE DEF x
  <1>5. /\ Sound(x.h) /\ l \in DOMAIN x.h /\ x.p \in DOMAIN x.h /\ x.h[l] = g[l] /\ IsCell(x.h[l])
        /\ x.p \notin DOMAIN g /\ Unowned(x.h) = Unowned(g) \union {x.p} /\ Grown(g, x.h)
    BY <1>1, <1>4 DEF Injected, Grown, Sound, Laid
  <1>6. /\ idx \in Nat /\ DOMAIN x.h[l].a = 1..idx
    BY <1>5, CellFacts
  <1>7. IsKey(key) /\ IsInt(key) /\ key.n = idx
    BY <1>6 DEF IsKey, IsInt, Num, Value
  <1>8. SetArrayIsDefined(x.h, l, key.n) /\ Fits(x.h[l], key)
    <2>1. idx >= -idx
      BY <1>6
    <2> HIDE DEF key, idx
    <2> QED BY <1>1, <1>5, <1>7, <2>1 DEF SetArrayIsDefined, Fits, idx
  <1>9. Slot(x.h, l, key) = idx + 1
    <2>1. ~(key.n < 0)
      BY <1>6, <1>7
    <2> QED BY <1>7, <2>1 DEF Slot
  <1>10. Injected(x.h, copy.h, copy.p)
    BY <1>5, Cloned
  <1>11. PICK cell : /\ Placed(copy.h, set.h, l, idx + 1, copy.p, cell) /\ cell.t = "LIST"
    <2> HIDE DEF key
    <2>1. SetArrayVariable(x.h, l, key.n, x.p) = set
      BY <1>7
    <2> HIDE DEF set, idx, copy
    <2> QED BY <1>5, <1>7, <1>8, <1>9, <2>1, ArraySet DEF copy
  <1> HIDE DEF set, copy, key, idx
  <1>12. Sound(copy.h) /\ Grown(h, copy.h) /\ Grown(g, copy.h) /\ Unowned(copy.h) = Unowned(x.h) \union {copy.p}
         /\ copy.p \notin DOMAIN x.h /\ copy.h[l] = x.h[l] /\ l \in DOMAIN copy.h
    <2>1. Grown(x.h, copy.h) /\ Sound(copy.h)
      BY <1>10 DEF Injected, Grown
    <2>2. Grown(g, copy.h)
      BY <1>5, <2>1, GrownTwice
    <2>3. Grown(h, copy.h)
      BY <1>1, <2>2, GrownTwice
    <2>4. copy.h[l] = x.h[l] /\ l \in DOMAIN copy.h
      BY <1>5, <2>1 DEF Grown
    <2> QED BY <1>10, <2>1, <2>2, <2>3, <2>4 DEF Injected
  <1>13. /\ Sound(set.h) /\ Unowned(set.h) = Unowned(copy.h) \ {copy.p}
         /\ set.h[l] = cell
         /\ \A d \in DOMAIN set.h \ {l} : set.h[d] = copy.h[d]
         /\ \A p, i, k : Holds(set.h, p, i, k) /\ k # Null =>
               (p = l /\ i = idx + 1 /\ k = copy.p) \/ (Holds(copy.h, p, i, k) /\ k \in DOMAIN set.h)
    BY <1>11, <1>12, PlacedKeeps, PlacedSound
  <1>14. DOMAIN set.h = DOMAIN copy.h
    <2>1. idx + 1 \notin DOMAIN copy.h[l].a
      BY <1>5, <1>6, <1>12
    <2>2. Occupant(copy.h, l, idx + 1) = Null
      BY <2>1 DEF Occupant
    <2>3. set.h = [copy.h EXCEPT ![l] = cell]
      BY <1>11, <2>2 DEF Placed, Delete
    <2> QED BY <2>3
  <1>15. x.p \in Unowned(set.h)
    BY <1>5, <1>12, <1>13
  <1>16. /\ Sound(r.h) /\ Unowned(r.h) = Unowned(set.h) \ {x.p}
         /\ DOMAIN r.h = DOMAIN set.h \ Reach(set.h, x.p) /\ \A d \in DOMAIN r.h : r.h[d] = set.h[d]
         /\ \A d \in Reach(set.h, x.p) : d >= x.p
         /\ \A o, i, k : Holds(r.h, o, i, k) => Holds(set.h, o, i, k)
    <2> DEFINE f == Delete(set.h, x.p)
    <2>1. /\ Sound(f) /\ Unowned(f) = Unowned(set.h) \ {x.p}
          /\ DOMAIN f = DOMAIN set.h \ Reach(set.h, x.p) /\ \A d \in DOMAIN f : f[d] = set.h[d]
          /\ \A d \in Reach(set.h, x.p) : d >= x.p
          /\ \A o, i, k : Holds(f, o, i, k) => Holds(set.h, o, i, k)
      <3>1. Sound(set.h) /\ x.p \in Unowned(set.h)
        BY <1>13, <1>15
      <3> QED BY <3>1, FreedUnowned
    <2>2. r.h = f
      BY <1>3
    <2> HIDE DEF f
    <2> QED BY <2>1, <2>2
  <1>17. DOMAIN g \subseteq DOMAIN r.h
    <2>1. \A d \in DOMAIN g : d \in Nat /\ x.p > d /\ x.p \in Nat /\ d \in DOMAIN set.h
      BY <1>1, <1>4, <1>5, <1>12, <1>14 DEF Injected, Grown, Sound, Laid
    <2>2. \A d \in DOMAIN g : d \notin Reach(set.h, x.p)
      BY <1>16, <2>1
    <2> QED BY <1>16, <2>1, <2>2
  <1>18. \A d \in DOMAIN h : d \in DOMAIN r.h /\ r.h[d] = h[d]
    <2>1. \A d \in DOMAIN h : d \in DOMAIN g /\ d # l /\ copy.h[d] = h[d]
      BY <1>1, <1>12 DEF Grown
    <2> QED BY <1>13, <1>14, <1>16, <1>17, <2>1
  <1>19. \A o, i, k : Holds(r.h, o, i, k) /\ k \in DOMAIN h => o \in DOMAIN h
    <2>1. \A k \in DOMAIN h : k # Null /\ k # copy.p
      BY <1>1, <1>5, <1>12 DEF Sound, Laid, Grown
    <2> QED BY <1>12, <1>13, <1>16, <2>1 DEF Grown
  <1>20. \A c \in DOMAIN r.h \ DOMAIN h : \A d \in DOMAIN h : c > d
    BY <1>12, <1>14, <1>16 DEF Grown
  <1>21. Grown(h, r.h)
    BY <1>16, <1>18, <1>19, <1>20 DEF Grown
  <1>22. Unowned(r.h) = Unowned(h) \union {l}
    <2>1. x.p \notin Unowned(h) /\ x.p # l /\ copy.p \notin Unowned(h) /\ copy.p # l /\ copy.p # x.p
      BY <1>1, <1>5, <1>12 DEF Unowned, Grown
    <2> QED BY <1>1, <1>5, <1>12, <1>13, <1>16, <2>1
  <1>23. l \in DOMAIN r.h \ DOMAIN h /\ r.h[l].t = "LIST"
    BY <1>1, <1>11, <1>13, <1>16, <1>17
  <1> QED BY <1>3, <1>21, <1>22, <1>23 DEF Injected, r

Filled(h, v) == CHOOSE f : f = [k \in 0..Len(v.a) |-> IF k = 0 THEN New(h, List(<<>>)) ELSE InjectElement(f[k - 1], v.a[k])]

LEMMA FilledDef ==
  ASSUME NEW h, NEW v, Len(v.a) \in Nat
  PROVE  Filled(h, v) = [k \in 0..Len(v.a) |-> IF k = 0 THEN New(h, List(<<>>)) ELSE InjectElement(Filled(h, v)[k - 1], v.a[k])]
  <1> DEFINE Step(x, k) == InjectElement(x, v.a[k])
             Is(f, n) == f = [k \in 0..n |-> IF k = 0 THEN New(h, List(<<>>)) ELSE Step(f[k - 1], k)]
             S == {n \in Nat : \E f : Is(f, n)}
  <1>0. \A f : Is(f, Len(v.a)) <=> f = [k \in 0..Len(v.a) |-> IF k = 0 THEN New(h, List(<<>>)) ELSE InjectElement(f[k - 1], v.a[k])]
    OBVIOUS
  <1> HIDE DEF Step
  <1>1. 0 \in S
    <2>1. Is([k \in 0..0 |-> New(h, List(<<>>))], 0)
      OBVIOUS
    <2> QED BY <2>1
  <1>2. ASSUME NEW n \in S PROVE n + 1 \in S
    <2>1. PICK f : Is(f, n)
      OBVIOUS
    <2> DEFINE g == [k \in 0..(n + 1) |-> IF k <= n THEN f[k] ELSE Step(f[n], n + 1)]
    <2>2. ASSUME NEW k \in 0..(n + 1)
          PROVE  g[k] = IF k = 0 THEN New(h, List(<<>>)) ELSE Step(g[k - 1], k)
      <3>1. CASE k = 0
        BY <2>1, <3>1
      <3>2. CASE k # 0 /\ k <= n
        <4>1. k - 1 \in 0..n /\ k \in 0..n /\ k - 1 \in 0..(n + 1) /\ k - 1 <= n
          BY <3>2
        <4>2. g[k] = f[k] /\ g[k - 1] = f[k - 1]
          BY <3>2, <4>1
        <4>3. f[k] = Step(f[k - 1], k)
          BY <2>1, <3>2, <4>1
        <4> QED BY <3>2, <4>2, <4>3
      <3>3. CASE k = n + 1
        <4>1. k # 0 /\ k - 1 = n /\ n \in 0..(n + 1) /\ n <= n /\ ~(k <= n)
          BY <3>3
        <4>2. g[k] = Step(f[n], k) /\ g[n] = f[n]
          BY <3>3, <4>1
        <4> QED BY <4>1, <4>2
      <3> QED BY <3>1, <3>2, <3>3
    <2>3. Is(g, n + 1)
      <3>1. g = [k \in 0..(n + 1) |-> g[k]]
        OBVIOUS
      <3> HIDE DEF g
      <3> QED BY <2>2, <3>1
    <2> HIDE DEF g, Is
    <2> QED BY <2>3
  <1> HIDE DEF Is
  <1>3. S = Nat
    <2> HIDE DEF S
    <2> QED BY <1>1, <1>2, Counting DEF S
  <1>4. PICK f : Is(f, Len(v.a))
    BY <1>3
  <1>5. f = [k \in 0..Len(v.a) |-> IF k = 0 THEN New(h, List(<<>>)) ELSE InjectElement(f[k - 1], v.a[k])]
    BY <1>0, <1>4
  <1> QED BY <1>5 DEF Filled

LEMMA FilledSteps ==
  ASSUME NEW h, NEW v, Len(v.a) \in Nat
  PROVE  /\ Filled(h, v)[0] = New(h, List(<<>>))
         /\ \A j \in 0..(Len(v.a) - 1) : Filled(h, v)[j + 1] = InjectElement(Filled(h, v)[j], v.a[j + 1])
  <1> DEFINE n == Len(v.a)
             f == Filled(h, v)
             Step(x, k) == InjectElement(x, v.a[k])
  <1>1. f = [k \in 0..n |-> IF k = 0 THEN New(h, List(<<>>)) ELSE Step(f[k - 1], k)]
    BY FilledDef
  <1>0. n \in Nat
    OBVIOUS
  <1>9. \A x, k : Step(x, k) = InjectElement(x, v.a[k])
    OBVIOUS
  <1> HIDE DEF f, n, Step
  <1>2. f[0] = New(h, List(<<>>))
    <2>1. 0 \in 0..n
      BY <1>0
    <2> QED BY <1>1, <2>1
  <1>3. ASSUME NEW j \in 0..(n - 1) PROVE f[j + 1] = Step(f[j], j + 1)
    <2> DEFINE i == j + 1
    <2>1. i \in 0..n /\ i # 0 /\ i - 1 = j
      BY <1>0
    <2> HIDE DEF i
    <2>2. f[i] = Step(f[i - 1], i)
      BY <1>1, <2>1, Zenon
    <2> QED BY <2>1, <2>2 DEF i
  <1> QED BY <1>2, <1>3, <1>9 DEF f, n

IsArray(h, v) == v.t = "ARRAY" /\ Len(v.a) \in Nat /\ \A k \in 1..Len(v.a) : IsSource(h, v.a[k])

LEMMA InjectedInto ==
  ASSUME NEW h, Sound(h), NEW v, IsSource(h, v) \/ IsArray(h, v)
  PROVE  Injected(h, InjectInto(h, v).h, InjectInto(h, v).p)
  <1>1. CASE IsSource(h, v)
    <2>1. v.t # "ARRAY"
      BY <1>1, ScalarFacts DEF IsSource
    <2>2. InjectInto(h, v) = InjectScalarOrCopy(h, v)
      BY <2>1 DEF InjectInto
    <2> QED BY <1>1, <2>2, InjectedScalarOrCopy
  <1>2. CASE IsArray(h, v)
    <2> DEFINE n == Len(v.a)
               f == Filled(h, v)
               S == {k \in Nat : k <= n => Injected(h, f[k].h, f[k].p) /\ f[k].h[f[k].p].t = "LIST"}
    <2>1. n \in Nat /\ v.t = "ARRAY" /\ \A k \in 1..n : IsSource(h, v.a[k])
      BY <1>2 DEF IsArray
    <2>2. InjectInto(h, v) = f[n]
      BY <2>1 DEF InjectInto, Filled
    <2>3. f[0] = New(h, List(<<>>)) /\ \A j \in 0..(n - 1) : f[j + 1] = InjectElement(f[j], v.a[j + 1])
      BY <2>1, FilledSteps
    <2> HIDE DEF f, n
    <2>4. 0 \in S
      <3>1. List(<<>>).t = "LIST" /\ List(<<>>).a = <<>>
        BY HashIs
      <3>2. <<>> \in Seq(Nat)
        OBVIOUS
      <3>3. IsCell(List(<<>>))
        BY <3>1, <3>2 DEF IsCell
      <3>4. Injected(h, f[0].h, f[0].p) /\ f[0].h[f[0].p] = List(<<>>)
        BY <2>3, <3>1, <3>3, Created
      <3> QED BY <3>1, <3>4
    <2>5. ASSUME NEW j \in S PROVE j + 1 \in S
      <3> SUFFICES ASSUME j + 1 <= n
                   PROVE  Injected(h, f[j + 1].h, f[j + 1].p) /\ f[j + 1].h[f[j + 1].p].t = "LIST"
        OBVIOUS
      <3>1. j \in 0..(n - 1) /\ j + 1 \in 1..n /\ j <= n
        BY <2>1
      <3>2. Injected(h, f[j].h, f[j].p) /\ f[j].h[f[j].p].t = "LIST" /\ IsSource(h, v.a[j + 1])
        BY <2>1, <3>1
      <3>3. f[j + 1] = InjectElement(f[j], v.a[j + 1])
        BY <2>3, <3>1
      <3> QED BY <3>2, <3>3, InjectedElement
    <2>6. S = Nat
      <3> HIDE DEF S
      <3> QED BY <2>4, <2>5, Counting DEF S
    <2>7. Injected(h, f[n].h, f[n].p)
      BY <2>1, <2>6
    <2> QED BY <2>2, <2>7
  <1> QED BY <1>1, <1>2

-----------------------------------------------------------------------------
(* An assignment as a whole. *)

\* It grows the heap, and is refused or puts what it made where the path leads, of which it may lose a copy.
Assigned(h, set, p) ==
  \/ set.p = Null /\ \E c : Injected(h, set.h, c)
  \/ \E g, o, slot, t, cell, lost :
        /\ set.p = t /\ t # Null /\ Grown(h, g) /\ Placed(g, set.h, o, slot, t, cell)
        /\ Names(g, FromStart(h, p), o, slot)
        /\ Unowned(g) = Unowned(h) \union {t} \union lost /\ t \notin lost /\ t \notin DOMAIN h
        /\ IsInt(Last(p)) \/ lost = {}

LEMMA NamesIs ==
  ASSUME NEW h, Sound(h), NEW g, Grown(h, g), NEW p, IsPath(p), p # <<>>, NEW o \in DOMAIN h,
         GetVariable(h, Root, Front(p)) = Just(o),
         Fits(h[o], Last(p)) \/ (h[o].t = "NIL" /\ IsStr(Last(p))),
         IsInt(Last(p)) => SetArrayIsDefined(h, o, Last(p).n)
  PROVE  Names(g, FromStart(h, p), o, Slot(h, o, Last(p)))
  <1> DEFINE f == FromStart(h, p)
             key == Last(p)
  <1>1. IsPath(Front(p)) /\ IsKey(key) /\ IsCell(h[o]) /\ Root \in DOMAIN h /\ g[o] = h[o] /\ o \in DOMAIN g
    BY FrontFacts DEF Sound, Laid, Grown
  <1>2. /\ IsPath(f) /\ f # <<>> /\ Front(f) = FromStart(h, Front(p)) /\ Last(f) = Straight(h, o, key)
    BY FromStartPath, LinkFacts
  <1>3. GetVariable(h, Root, Front(f)) = Just(o) /\ Canonical(Front(f))
    <2>1. GetVariable(h, Root, Front(p)) # Nothing
      BY LinkFacts
    <2> QED BY <1>1, <1>2, <2>1, FromStartLeads
  <1> HIDE DEF f, key
  <1>4. GetVariable(g, Root, Front(f)) = Just(o)
    <2>1. IsPath(Front(f))
      BY <1>2, FrontFacts
    <2> QED BY <1>1, <1>3, <2>1, GrownPath
  <1>5. IsInt(key) <=> ~IsStr(key)
    BY <1>1, KeyFacts
  <1>6. /\ Slot(h, o, Last(f)) = Slot(h, o, key) /\ (IsInt(Last(f)) => Last(f).n >= 0)
        /\ (Fits(h[o], Last(f)) \/ h[o].t = "NIL")
    <2>1. CASE IsInt(key)
      <3>1. Fits(h[o], key) /\ h[o].t = "LIST"
        BY <1>5, <2>1 DEF Fits, key
      <3>2. key.n >= -Len(h[o].a)
        BY <2>1, <3>1 DEF SetArrayIsDefined, key
      <3> QED BY <1>1, <1>2, <2>1, <3>1, <3>2, StraightIs
    <2>2. CASE IsStr(key)
      <3>1. Last(f) = key
        BY <1>1, <1>2, <2>2, StraightIs
      <3> QED BY <1>5, <2>2, <3>1 DEF key
    <2> QED BY <1>5, <2>1, <2>2
  <1>7. Canonical(f)
    BY <1>2, <1>3, <1>6, CanonicalJoined
  <1>8. Slot(g, o, Last(f)) = Slot(h, o, Last(f))
    BY <1>1 DEF Slot
  <1> QED BY <1>1, <1>2, <1>4, <1>6, <1>7, <1>8 DEF Names, f, key

LEMMA AssignedIs ==
  ASSUME NEW h, Sound(h), NEW v, IsSource(h, v) \/ IsArray(h, v), NEW p, IsPath(p), p # <<>>,
         LET parent == GetVariable(h, Root, Front(p))
         IN  parent \notin {Nothing, Just(Null)} /\ IsInt(Last(p)) =>
                 SetArrayIsDefined(h, parent[1], Last(p).n)
  PROVE  LET injected == InjectInto(h, v)
         IN  Assigned(h, SetVariableAt(injected.h, Root, p, injected.p), p)
  <1> DEFINE i == InjectInto(h, v)
             parent == GetVariable(h, Root, Front(p))
             key == Last(p)
             set == SetVariableAt(i.h, Root, p, i.p)
  <1>1. Injected(h, i.h, i.p)
    BY InjectedInto
  <1> HIDE DEF i
  <1>2. IsPath(Front(p)) /\ IsKey(key) /\ (IsInt(key) <=> ~IsStr(key)) /\ Root \in DOMAIN h
    BY FrontFacts, KeyFacts DEF Sound, Laid
  <1>3. Grown(h, i.h) /\ Sound(i.h) /\ i.p \in DOMAIN i.h \ DOMAIN h /\ Unowned(i.h) = Unowned(h) \union {i.p}
    BY <1>1 DEF Injected, Grown
  <1>4. GetVariable(i.h, Root, Front(p)) = parent
    BY <1>2, <1>3, GrownPath
  <1>5. set = IF parent \in {Nothing, Just(Null)} THEN At(i.h, Null) ELSE SetElement(i.h, parent[1], key, i.p)
    BY <1>4 DEF SetVariableAt
  <1>6. parent = Nothing \/ \E c \in DOMAIN h \union {Null} : parent = Just(c)
    BY <1>2, GetInside
  <1>7. parent \notin {Nothing, Just(Null)} /\ IsInt(key) => SetArrayIsDefined(h, parent[1], key.n)
    OBVIOUS
  <1> HIDE DEF parent, key, set
  <1>8. ASSUME parent \in {Nothing, Just(Null)} PROVE Assigned(h, set, p)
    <2>1. set.p = Null /\ set.h = i.h
      BY <1>5, <1>8 DEF At
    <2> QED BY <1>1, <2>1 DEF Assigned
  <1>9. ASSUME parent \notin {Nothing, Just(Null)} PROVE Assigned(h, set, p)
    <2>1. PICK o \in DOMAIN h : parent = Just(o)
      BY <1>6, <1>9
    <2>2. parent[1] = o
      BY <2>1 DEF Just
    <2>3. /\ o \in DOMAIN i.h /\ i.h[o] = h[o] /\ i.p > o /\ i.p \in Unowned(i.h) /\ i.p # Null
          /\ i.p \notin DOMAIN h /\ Slot(i.h, o, key) = Slot(h, o, key)
      <3>1. o \in DOMAIN i.h /\ i.h[o] = h[o] /\ i.p > o /\ i.p \in Unowned(i.h) /\ i.p # Null
        BY <1>3 DEF Grown, Sound, Laid
      <3> QED BY <1>3, <3>1 DEF Slot
    <2>4. CASE IsStr(key)
      <3>1. set = SetDictionaryVariable(i.h, o, key.s, i.p)
        BY <1>2, <1>5, <1>9, <2>2, <2>4 DEF SetElement
      <3>2. \/ set.p = Null /\ set.h = i.h
            \/ /\ set.p = i.p /\ (Fits(i.h[o], key) \/ i.h[o].t = "NIL")
               /\ \E cell : Placed(i.h, set.h, o, Slot(i.h, o, key), i.p, cell)
        BY <1>2, <1>3, <2>3, <2>4, <3>1, DictionarySet
      <3>3. CASE set.p = Null /\ set.h = i.h
        BY <1>1, <3>3 DEF Assigned
      <3>4. CASE /\ set.p = i.p /\ (Fits(i.h[o], key) \/ i.h[o].t = "NIL")
                 /\ \E cell : Placed(i.h, set.h, o, Slot(i.h, o, key), i.p, cell)
        <4>1. PICK cell : Placed(i.h, set.h, o, Slot(h, o, key), i.p, cell)
          BY <2>3, <3>4
        <4>2. Names(i.h, FromStart(h, p), o, Slot(h, o, key))
          BY <1>2, <1>3, <2>1, <2>3, <2>4, <3>4, NamesIs DEF key, parent
        <4>3. \E g, q, slot, t, cl, lost :
                 /\ set.p = t /\ t # Null /\ Grown(h, g) /\ Placed(g, set.h, q, slot, t, cl)
                 /\ Names(g, FromStart(h, p), q, slot)
                 /\ Unowned(g) = Unowned(h) \union {t} \union lost /\ t \notin lost /\ t \notin DOMAIN h
                 /\ IsInt(Last(p)) \/ lost = {}
          <5> WITNESS i.h, o, Slot(h, o, key), i.p, cell, {}
          <5>1. Unowned(i.h) = Unowned(h) \union {i.p} \union {}
            BY <1>3
          <5> QED BY <1>3, <2>3, <3>4, <4>1, <4>2, <5>1
        <4> QED BY <4>3 DEF Assigned
      <3> QED BY <3>2, <3>3, <3>4
    <2>5. CASE IsInt(key)
      <3> DEFINE copy == CreateClone(i.h, i.p)
      <3>1. set = SetArrayVariable(i.h, o, key.n, i.p)
        BY <1>5, <1>9, <2>2, <2>5 DEF SetElement
      <3>2. SetArrayIsDefined(h, o, key.n) /\ SetArrayIsDefined(i.h, o, key.n)
        BY <1>7, <1>9, <2>2, <2>3, <2>5 DEF SetArrayIsDefined
      <3>3. Injected(i.h, copy.h, copy.p)
        BY <1>3, Cloned
      <3>4. \/ set.p = Null /\ set.h = i.h
            \/ /\ set.p = copy.p /\ Fits(i.h[o], key)
               /\ \E cell : Placed(copy.h, set.h, o, Slot(i.h, o, key), copy.p, cell)
        BY <1>2, <1>3, <2>3, <2>5, <3>1, <3>2, ArraySet
      <3> HIDE DEF copy
      <3>5. CASE set.p = Null /\ set.h = i.h
        BY <1>1, <3>5 DEF Assigned
      <3>6. CASE /\ set.p = copy.p /\ Fits(i.h[o], key)
                 /\ \E cell : Placed(copy.h, set.h, o, Slot(i.h, o, key), copy.p, cell)
        <4>1. PICK cell : Placed(copy.h, set.h, o, Slot(h, o, key), copy.p, cell)
          BY <2>3, <3>6
        <4>2. Grown(h, copy.h) /\ copy.p # Null /\ copy.p \notin DOMAIN i.h
              /\ Unowned(copy.h) = Unowned(h) \union {copy.p} \union {i.p}
          <5>1. Grown(i.h, copy.h) /\ Sound(copy.h) /\ copy.p \in DOMAIN copy.h \ DOMAIN i.h
                /\ Unowned(copy.h) = Unowned(i.h) \union {copy.p}
            BY <3>3 DEF Injected, Grown
          <5>2. Grown(h, copy.h)
            BY <1>3, <5>1, GrownTwice
          <5>3. copy.p # Null
            BY <5>1 DEF Sound, Laid
          <5> QED BY <1>3, <5>1, <5>2, <5>3
        <4>3. Names(copy.h, FromStart(h, p), o, Slot(h, o, key))
          BY <2>1, <2>3, <2>5, <3>2, <3>6, <4>2, NamesIs DEF key, parent
        <4>4. copy.p \notin {i.p} /\ copy.p \notin DOMAIN h
          BY <1>3, <4>2 DEF Grown
        <4>5. \E g, q, slot, t, cl, lost :
                 /\ set.p = t /\ t # Null /\ Grown(h, g) /\ Placed(g, set.h, q, slot, t, cl)
                 /\ Names(g, FromStart(h, p), q, slot)
                 /\ Unowned(g) = Unowned(h) \union {t} \union lost /\ t \notin lost /\ t \notin DOMAIN h
                 /\ IsInt(Last(p)) \/ lost = {}
          <5> WITNESS copy.h, o, Slot(h, o, key), copy.p, cell, {i.p}
          <5> QED BY <2>5, <3>6, <4>1, <4>2, <4>3, <4>4 DEF key
        <4> QED BY <4>5 DEF Assigned
      <3> QED BY <3>4, <3>5, <3>6
    <2> QED BY <1>2, <2>4, <2>5
  <1>10. Assigned(h, set, p)
    BY <1>8, <1>9
  <1> QED BY <1>10 DEF set, i

\* What follows for the heap, for what is lost, for a list, and for where other paths lead.
LEMMA AssignedSound ==
  ASSUME NEW h, Sound(h), NEW set, NEW p, IsPath(p), p # <<>>, Assigned(h, set, p)
  PROVE  /\ Sound(set.h) /\ Unowned(h) \subseteq Unowned(set.h)
         /\ Unowned(set.h) # Unowned(h) => set.p = Null \/ IsInt(Last(p))
         /\ \A c \in DOMAIN h : c \in DOMAIN set.h /\ h[c].t = "LIST" =>
               set.h[c].t = "LIST" /\ Len(set.h[c].a) >= Len(h[c].a)
         /\ \A q, c : /\ IsPath(q) /\ Canonical(q) /\ GetVariable(h, Root, q) = Just(c)
                      /\ set.p = Null \/ ~IsPrefix(FromStart(h, p), q) 
                      => GetVariable(set.h, Root, q) = Just(c)
  <1>0. Root \in DOMAIN h /\ \A c \in DOMAIN h : Len(h[c].a) \in Nat
    BY CellFacts DEF Sound, Laid
  <1>1. ASSUME NEW g, Grown(h, g), NEW q, IsPath(q) PROVE GetVariable(g, Root, q) = GetVariable(h, Root, q)
    BY <1>0, <1>1, GrownPath
  <1>2. CASE set.p = Null /\ \E c : Injected(h, set.h, c)
    <2>1. PICK c : Injected(h, set.h, c)
      BY <1>2
    <2>2. Grown(h, set.h) /\ Unowned(set.h) = Unowned(h) \union {c}
      BY <2>1 DEF Injected
    <2>3. Sound(set.h) /\ \A d \in DOMAIN h : set.h[d] = h[d]
      BY <2>2 DEF Grown
    <2> QED BY <1>0, <1>1, <1>2, <2>2, <2>3
  <1>3. CASE \E g, o, slot, t, cell, lost :
               /\ set.p = t /\ t # Null /\ Grown(h, g) /\ Placed(g, set.h, o, slot, t, cell)
               /\ Names(g, FromStart(h, p), o, slot)
               /\ Unowned(g) = Unowned(h) \union {t} \union lost /\ t \notin lost /\ t \notin DOMAIN h
               /\ IsInt(Last(p)) \/ lost = {}
    <2>1. PICK g, o, slot, t, cell, lost :
               /\ set.p = t /\ t # Null /\ Grown(h, g) /\ Placed(g, set.h, o, slot, t, cell)
               /\ Names(g, FromStart(h, p), o, slot)
               /\ Unowned(g) = Unowned(h) \union {t} \union lost /\ t \notin lost /\ t \notin DOMAIN h
               /\ IsInt(Last(p)) \/ lost = {}
      BY <1>3
    <2>2. Sound(g) /\ \A d \in DOMAIN h : g[d] = h[d]
      BY <2>1 DEF Grown
    <2>3. Sound(set.h) /\ Unowned(set.h) = Unowned(g) \ {t}
      BY <2>1, <2>2, PlacedSound
    <2>4. Unowned(set.h) = Unowned(h) \union lost
      <3>1. t \notin Unowned(h)
        BY <2>1 DEF Unowned
      <3> QED BY <2>1, <2>3, <3>1
    <2>5. ASSUME NEW c \in DOMAIN h, c \in DOMAIN set.h, h[c].t = "LIST"
          PROVE  set.h[c].t = "LIST" /\ Len(set.h[c].a) >= Len(h[c].a)
      <3>1. set.h[o] = cell /\ \A d \in DOMAIN set.h \ {o} : set.h[d] = g[d]
        BY <2>1, <2>2, PlacedKeeps
      <3>2. CASE c # o
        <4>1. set.h[c] = h[c]
          BY <2>2, <2>5, <3>1, <3>2
        <4> QED BY <1>0, <2>5, <4>1
      <3>3. CASE c = o
        <4>1. g[o] = h[c] /\ cell.t = "LIST" /\ cell.a = Stored(h[c].a, slot, t)
              /\ slot \in Nat /\ slot >= 1 /\ t \in Unowned(g)
          BY <2>1, <2>2, <2>5, <3>3 DEF Placed
        <4>2. t \in Nat /\ h[c].a \in Seq(Nat)
          BY <2>2, <2>5, <4>1, CellFacts DEF Unowned, Sound, Laid
        <4>3. Len(Stored(h[c].a, slot, t)) >= Len(h[c].a)
          BY <4>1, <4>2, StoredIs
        <4> QED BY <3>1, <3>3, <4>1, <4>3
      <3> QED BY <3>2, <3>3
    <2>6. ASSUME NEW q, NEW c, IsPath(q), Canonical(q), GetVariable(h, Root, q) = Just(c),
                 ~IsPrefix(FromStart(h, p), q)
          PROVE  GetVariable(set.h, Root, q) = Just(c)
      <3>1. GetVariable(g, Root, q) = Just(c)
        BY <1>1, <2>1, <2>6
      <3> QED BY <2>1, <2>2, <2>6, <3>1, PlacedPath
    <2> QED BY <2>1, <2>3, <2>4, <2>5, <2>6
  <1> QED BY <1>2, <1>3 DEF Assigned

-----------------------------------------------------------------------------
(* The host assigns to a variable by its name. *)

LEMMA Overwritten ==
  ASSUME NEW h, Sound(h), NEW p, NEW j, NEW c, c # Null, Holds(h, p, j, c), NEW v, IsScalar(v)
  PROVE  LET g == [Without(h, Reach(h, c) \ {c}) EXCEPT ![c] = v]
         IN  Sound(g) /\ Unowned(g) = Unowned(h)
  <1> DEFINE R == Reach(h, c)
             f == Delete(h, c)
             g == [Without(h, R \ {c}) EXCEPT ![c] = v]
  <1>1. /\ c \in DOMAIN h /\ c \in Nat /\ c > p /\ p \in Nat /\ p \in DOMAIN h /\ c # Root
    <2>1. c \in DOMAIN h /\ c > p /\ p \in DOMAIN h
      BY DEF Sound, Descends, Holds
    <2> QED BY <2>1 DEF Sound, Laid, Null, Root
  <1>2. /\ Laid(f) /\ OwnedOnce(f) /\ DOMAIN f = DOMAIN h \ R
        /\ \A d \in DOMAIN f : f[d] = h[d]
        /\ \A o, i, k : Holds(f, o, i, k) => Holds(h, o, i, k) /\ (k \in R => k = c)
        /\ \A d \in DOMAIN f : \A o, i : Holds(h, o, i, d) => Holds(f, o, i, d)
        /\ \A d \in R : d >= c /\ (d = c \/ \E o, i : Holds(h, o, i, d))
    BY <1>1, Freed
  <1>3. c \in R
    BY <1>1, Reached DEF Sound
  <1>4. v.a = <<>> /\ IsCell(v)
    BY ScalarFacts DEF IsCell
  <1> HIDE DEF R
  <1>5. /\ DOMAIN g = DOMAIN f \union {c} /\ g[c] = v /\ \A d \in DOMAIN f : g[d] = f[d]
        /\ g = [d \in DOMAIN g |-> g[d]]
    <2>1. Without(h, R \ {c}) = [d \in DOMAIN h \ (R \ {c}) |-> h[d]]
      BY DEF Without
    <2> HIDE DEF f
    <2> QED BY <1>1, <1>2, <1>3, <2>1
  <1> HIDE DEF f, g
  <1>6. \A o, i, k : Holds(g, o, i, k) <=> Holds(f, o, i, k)
    <2>1. DOMAIN v.a = {}
      BY <1>4
    <2> QED BY <1>2, <1>3, <1>5, <2>1 DEF Holds
  <1>7. Laid(g)
    <2>1. IsFiniteSet(DOMAIN f)
      BY <1>2 DEF Laid
    <2>2. IsFiniteSet(DOMAIN f \union {c})
      BY <2>1, FS_AddElement
    <2>3. IsFiniteSet(DOMAIN g) /\ c # Null
      BY <1>5, <2>2
    <2> QED BY <1>1, <1>2, <1>4, <1>5, <2>3 DEF Laid
  <1>8. Descends(g)
    BY <1>2, <1>5, <1>6 DEF Sound, Descends
  <1>9. OwnedOnce(g)
    BY <1>2, <1>6 DEF OwnedOnce
  <1>10. Holds(g, p, j, c)
    <2>1. p \notin R
      BY <1>1, <1>2
    <2>2. Holds(f, p, j, c)
      BY <1>1, <1>2, <2>1 DEF Holds
    <2> QED BY <1>6, <2>2
  <1>11. ASSUME NEW d PROVE d \in Unowned(g) <=> d \in Unowned(h)
    <2>1. d \in Unowned(g) <=> d \in DOMAIN g /\ d # Root /\ \A o, i : ~Holds(g, o, i, d)
      BY <1>7, UnownedIs
    <2>2. d \in Unowned(h) <=> d \in DOMAIN h /\ d # Root /\ \A o, i : ~Holds(h, o, i, d)
      BY UnownedIs DEF Sound
    <2>3. CASE d \in DOMAIN f
      BY <1>2, <1>5, <1>6, <2>1, <2>2, <2>3
    <2>4. CASE d = c
      BY <1>10, <2>1, <2>2, <2>4
    <2>5. CASE d \notin DOMAIN f /\ d # c
      BY <1>2, <1>5, <2>1, <2>2, <2>5
    <2> QED BY <2>3, <2>4, <2>5
  <1>12. Unowned(g) = Unowned(h)
    BY <1>11
  <1> QED BY <1>7, <1>8, <1>9, <1>12 DEF Sound, g, R

NamedByHost(h, key) ==
  LET old == KeyIndex(h[Root], key)
  IN  IF old # {} THEN At(h, h[Root].a[CHOOSE k \in old : TRUE])
      ELSE LET c == New(h, Nil)
           IN  At([c.h EXCEPT ![Root] = Hash(Append(@.s, key), Append(@.a, c.p))], c.p)

LEMMA NamedSound ==
  ASSUME NEW h, Sound(h), NEW s
  PROVE  LET named == NamedByHost(h, s)
         IN  /\ Sound(named.h) /\ Unowned(named.h) = Unowned(h)
             /\ named.p # Null /\ \E i : Holds(named.h, Root, i, named.p)
  <1> DEFINE named == NamedByHost(h, s)
             v == h[Root]
             old == KeyIndex(v, s)
             slot == CHOOSE k \in old : TRUE
             key == Str(s)
  <1>1. Root \in DOMAIN h /\ IsCell(v) /\ v.t \in {"NIL", "HASH"}
    BY DEF Sound, Laid
  <1>2. /\ v.a \in Seq(Nat) /\ DOMAIN v.a = 1..Len(v.a)
        /\ v.t = "NIL" => v.s = <<>> /\ v.a = <<>>
        /\ v.t = "HASH" => Len(v.s) = Len(v.a) /\ v.a \in Seq(Nat \ {Null})
    <2>1. v.t = "NIL" => v = Nil
      BY <1>1, CellFacts, ScalarFacts
    <2>2. Nil.s = <<>> /\ Nil.a = <<>>
      BY DEF Nil, Value
    <2> QED BY <1>1, <2>1, <2>2, CellFacts
  <1>3. old = {k \in 1..Len(v.s) : v.s[k] = s}
    BY DEF KeyIndex
  <1>4. CASE old # {}
    <2>1. named = At(h, v.a[slot])
      BY <1>4 DEF NamedByHost
    <2>2. named.h = h /\ named.p = v.a[slot]
      BY <2>1 DEF At
    <2>3. slot \in old
      BY <1>4
    <2> HIDE DEF slot, named, old, v
    <2>4. v.t = "HASH" /\ slot \in DOMAIN v.a
      BY <1>1, <1>2, <1>3, <2>3
    <2>5. Holds(h, Root, slot, v.a[slot]) /\ v.a[slot] # Null
      BY <1>1, <1>2, <2>4 DEF Holds, v
    <2> QED BY <2>2, <2>5 DEF named
  <1>5. CASE old = {}
    <2> DEFINE c == New(h, Nil)
               set == SetDictionaryVariable(c.h, Root, s, c.p)
    <2>1. named = At([c.h EXCEPT ![Root] = Hash(Append(@.s, s), Append(@.a, c.p))], c.p)
      BY <1>5 DEF NamedByHost
    <2>2. Injected(h, c.h, c.p)
      <3>1. IsScalar(Nil) /\ Nil.a = <<>>
        BY DEF IsScalar, Nil, Value
      <3>2. IsCell(Nil)
        BY <3>1 DEF IsCell
      <3> QED BY <3>1, <3>2, Created
    <2> HIDE DEF c
    <2>3. /\ Sound(c.h) /\ Root \in DOMAIN c.h /\ c.h[Root] = v /\ c.p \in Unowned(c.h) /\ c.p > Root
          /\ Unowned(c.h) = Unowned(h) \union {c.p} /\ c.p \notin Unowned(h) /\ c.p \in Nat \ {Null}
      BY <1>1, <2>2 DEF Injected, Grown, Unowned, Sound, Laid
    <2>4. KeyIndex(c.h[Root], s) = {}
      BY <1>5, <2>3
    <2>5. named = At([c.h EXCEPT ![Root] = Hash(Append(v.s, s), Append(v.a, c.p))], c.p)
      BY <2>1, <2>3
    <2>6. set = named
      <3>1. CASE v.t = "NIL"
        <4>1. set = At([c.h EXCEPT ![Root] = Hash(<<s>>, <<c.p>>)], c.p)
          BY <2>3, <3>1 DEF SetDictionaryVariable
        <4>2. Append(v.s, s) = <<s>> /\ Append(v.a, c.p) = <<c.p>>
          <5>1. v.s = <<>> /\ v.a = <<>>
            BY <1>2, <3>1
          <5>2. Append(<<>>, s) = <<s>> /\ Append(<<>>, c.p) = <<c.p>>
            OBVIOUS
          <5> QED BY <5>1, <5>2
        <4> QED BY <2>5, <4>1, <4>2
      <3>2. CASE v.t = "HASH"
        <4>1. c.h[Root].t = "HASH" /\ c.h[Root].s = v.s /\ c.h[Root].a = v.a
          BY <2>3, <3>2
        <4> HIDE DEF v
        <4>2. set = At([c.h EXCEPT ![Root] = Hash(Append(v.s, s), Append(v.a, c.p))], c.p)
          BY <2>4, <4>1, Zenon DEF SetDictionaryVariable
        <4> QED BY <2>5, <4>2
      <3> QED BY <1>1, <3>1, <3>2
    <2>7. set.p = c.p
      BY <2>5, <2>6 DEF At
    <2>8. IsKey(key) /\ IsStr(key) /\ key.s = s
      BY DEF IsKey, IsStr, Str, Value
    <2> HIDE DEF key, set, named
    <2>9. PICK cell : Placed(c.h, set.h, Root, Slot(c.h, Root, key), c.p, cell)
      <3>1. SetDictionaryVariable(c.h, Root, key.s, c.p) = set
        BY <2>8 DEF set
      <3> QED BY <2>3, <2>7, <2>8, <3>1, DictionarySet
    <2>10. Sound(set.h) /\ Unowned(set.h) = Unowned(c.h) \ {c.p}
      BY <2>3, <2>9, PlacedSound
    <2>11. Holds(set.h, Root, Slot(c.h, Root, key), c.p)
      BY <2>3, <2>9, PlacedKeeps
    <2>12. Unowned(set.h) = Unowned(h)
      BY <2>3, <2>10
    <2> QED BY <2>3, <2>6, <2>7, <2>10, <2>11, <2>12 DEF named
  <1> QED BY <1>4, <1>5

-----------------------------------------------------------------------------
(* The invariant. *)

LoopSound(h, f) ==
  /\ f = [path |-> f.path, seq |-> f.seq, at |-> f.at, end |-> f.end, elem |-> f.elem,
          replaced |-> f.replaced, touched |-> f.touched]
  /\ IsPath(f.path) /\ Canonical(f.path)
  /\ f.at \in Nat /\ f.at >= 1 /\ f.end \in Nat /\ f.replaced \in BOOLEAN /\ f.touched \in BOOLEAN
  /\ f.seq \in DOMAIN h \union {Dangling} /\ f.elem \in DOMAIN h \union {Null, Dangling}
  /\ f.seq \in DOMAIN h => h[f.seq].t = "LIST" /\ Len(h[f.seq].a) >= f.end
  /\ ~f.replaced => GetVariable(h, Root, f.path) = Just(f.seq)
  /\ ~f.touched => GetVariable(h, Root, Append(f.path, Num(f.at - 1))) = Just(f.elem)

VariablesInv ==
  /\ Sound(heap)
  /\ loops \in Seq(Range(loops))
  /\ \A k \in DOMAIN loops : LoopSound(heap, loops[k])

LEMMA LoopsAppended ==
  ASSUME NEW s, s \in Seq(Range(s)), NEW x
  PROVE  /\ Append(s, x) \in Seq(Range(Append(s, x)))
         /\ \A k \in DOMAIN Append(s, x) : Append(s, x)[k] = x \/ \E j \in DOMAIN s : Append(s, x)[k] = s[j]
  <1> DEFINE S == Range(s) \union {x}
             q == Append(s, x)
  <1>1. s \in Seq(S) /\ x \in S /\ Len(s) \in Nat /\ DOMAIN s = 1..Len(s)
    OBVIOUS
  <1> HIDE DEF S
  <1>2. /\ q \in Seq(S) /\ Len(q) = Len(s) + 1 /\ DOMAIN q = 1..(Len(s) + 1)
        /\ \A k \in 1..Len(s) : q[k] = s[k]
        /\ q[Len(s) + 1] = x
    BY <1>1
  <1> HIDE DEF q
  <1>3. \A k \in 1..(Len(s) + 1) : k \in 1..Len(s) \/ k = Len(s) + 1
    BY <1>1
  <1>4. q \in Seq(Range(q))
    <2>1. \A k \in DOMAIN q : q[k] \in Range(q)
      BY DEF Range
    <2>2. q = [k \in 1..Len(q) |-> q[k]] /\ Len(q) \in Nat /\ DOMAIN q = 1..Len(q)
      BY <1>2
    <2> QED BY <2>1, <2>2
  <1> QED BY <1>1, <1>2, <1>3, <1>4 DEF q

LEMMA LoopsFront ==
  ASSUME NEW s, s \in Seq(Range(s)), s # <<>>
  PROVE  /\ Front(s) \in Seq(Range(Front(s))) /\ Last(s) = s[Len(s)] /\ Len(s) \in DOMAIN s
         /\ \A k \in DOMAIN Front(s) : \E j \in DOMAIN s : Front(s)[k] = s[j]
  <1> DEFINE n == Len(s) - 1
             q == Front(s)
  <1>1. Len(s) \in Nat /\ DOMAIN s = 1..Len(s) /\ n \in Nat /\ n <= Len(s) /\ q = SubSeq(s, 1, n) /\ Len(s) \in DOMAIN s
    BY DEF Front
  <1> HIDE DEF q
  <1>2. q \in Seq(Range(s)) /\ Len(q) = n /\ DOMAIN q = 1..n /\ \A k \in 1..n : q[k] = s[k] /\ k \in 1..Len(s)
    BY <1>1
  <1> HIDE DEF n
  <1>3. q \in Seq(Range(q))
    <2>1. \A k \in DOMAIN q : q[k] \in Range(q)
      BY DEF Range
    <2>2. q = [k \in 1..n |-> q[k]]
      BY <1>2
    <2> QED BY <1>1, <1>2, <2>1, <2>2
  <1> QED BY <1>1, <1>2, <1>3 DEF q, Last

LEMMA PathsAre ==
  ASSUME NEW p \in Paths
  PROVE  IsPath(p) /\ p # <<>>
  BY VariablesAssumption DEF IsPath, Range

\* What a tag leaves of lists and of the paths to them.
Keeps(h, set, path) ==
  /\ Sound(set.h)
  /\ \A c \in DOMAIN h : c \in DOMAIN set.h /\ h[c].t = "LIST" =>
        set.h[c].t = "LIST" /\ Len(set.h[c].a) >= Len(h[c].a)
  /\ \A q, c : /\ IsPath(q) /\ Canonical(q) /\ GetVariable(h, Root, q) = Just(c)
               /\ path = <<>> \/ ~IsPrefix(path, q)
               => GetVariable(set.h, Root, q) = Just(c)

LEMMA LoopChanged ==
  ASSUME NEW f, NEW s1, NEW s2, NEW r1, NEW t1,
         f = [path |-> f.path, seq |-> f.seq, at |-> f.at, end |-> f.end, elem |-> f.elem,
              replaced |-> f.replaced, touched |-> f.touched]
  PROVE  [f EXCEPT !.seq = s1, !.elem = s2, !.replaced = r1, !.touched = t1]
           = [path |-> f.path, seq |-> s1, at |-> f.at, end |-> f.end, elem |-> s2,
              replaced |-> r1, touched |-> t1]
  <1> DEFINE q == [f EXCEPT !.seq = s1, !.elem = s2, !.replaced = r1, !.touched = t1]
             fields == {"path", "seq", "at", "end", "elem", "replaced", "touched"}
  <1>1. DOMAIN f = fields
    OBVIOUS
  <1>2. q = [x \in DOMAIN q |-> q[x]]
    <2> SUFFICES [f EXCEPT !.seq = s1, !.elem = s2, !.replaced = r1, !.touched = t1]
                   = [x \in DOMAIN q |-> q[x]]
      OBVIOUS
    <2> QED OBVIOUS
  <1>3. /\ q.path = f.path /\ q.seq = s1 /\ q.at = f.at /\ q.end = f.end /\ q.elem = s2
        /\ q.replaced = r1 /\ q.touched = t1 /\ DOMAIN q = DOMAIN f
    BY <1>1
  <1> HIDE DEF q
  <1>4. q = [path |-> q.path, seq |-> q.seq, at |-> q.at, end |-> q.end, elem |-> q.elem,
             replaced |-> q.replaced, touched |-> q.touched]
    BY <1>1, <1>2, <1>3
  <1>5. q = [path |-> f.path, seq |-> s1, at |-> f.at, end |-> f.end, elem |-> s2,
             replaced |-> r1, touched |-> t1]
    BY <1>3, <1>4
  <1> QED BY <1>5 DEF q

LEMMA TagKeeps ==
  ASSUME VariablesInv, NEW op, NEW path, NEW plain, NEW set, Tag(op, path, plain, set),
         NEW start, start = IF set.p = Null THEN <<>> ELSE FromStart(heap, path),
         start # <<>> => IsPath(start), Keeps(heap, set, start)
  PROVE  VariablesInv'
  <1> DEFINE Next1(f) == [f EXCEPT !.seq = StillThere(set.h, @), !.elem = StillThere(set.h, @),
                              !.replaced = @ \/ (start # <<>> /\ IsPrefix(start, f.path)),
                              !.touched = @ \/ (start # <<>> /\ (IsPrefix(start, f.path) \/ IsPrefix(f.path, start)))]
  <1>1. heap' = set.h /\ loops' = [k \in DOMAIN loops |-> Next1(loops[k])]
    BY DEF Tag, LoopsAfter
  <1>2. Sound(heap')
    BY <1>1 DEF Keeps
  <1> HIDE DEF Next1
  <1>3. loops' \in Seq(Range(loops')) /\ DOMAIN loops' = DOMAIN loops
    <2>1. Len(loops) \in Nat /\ DOMAIN loops = 1..Len(loops)
      BY DEF VariablesInv
    <2>2. loops' = [k \in 1..Len(loops) |-> loops'[k]] /\ DOMAIN loops' = 1..Len(loops)
      BY <1>1, <2>1
    <2>3. \A k \in 1..Len(loops) : loops'[k] \in Range(loops')
      BY <2>2 DEF Range
    <2> QED BY <2>1, <2>2, <2>3
  <1>4. ASSUME NEW k \in DOMAIN loops PROVE LoopSound(heap', loops'[k])
    <2> DEFINE f == loops[k]
               g == Next1(f)
    <2>0. LoopSound(heap, f)
      BY DEF VariablesInv
    <2>1. g = loops'[k]
      BY <1>1, <1>3
    <2> HIDE DEF f
    <2>2. /\ f = [path |-> f.path, seq |-> f.seq, at |-> f.at, end |-> f.end, elem |-> f.elem,
                  replaced |-> f.replaced, touched |-> f.touched]
          /\ IsPath(f.path) /\ Canonical(f.path)
          /\ f.at \in Nat /\ f.at >= 1 /\ f.end \in Nat /\ f.replaced \in BOOLEAN /\ f.touched \in BOOLEAN
          /\ f.seq \in DOMAIN heap \union {Dangling} /\ f.elem \in DOMAIN heap \union {Null, Dangling}
          /\ f.seq \in DOMAIN heap => heap[f.seq].t = "LIST" /\ Len(heap[f.seq].a) >= f.end
      BY <2>0 DEF LoopSound
    <2>3. /\ ~f.replaced => GetVariable(heap, Root, f.path) = Just(f.seq)
          /\ ~f.touched => GetVariable(heap, Root, Append(f.path, Num(f.at - 1))) = Just(f.elem)
      BY <2>0 DEF LoopSound
    <2>4. /\ g = [path |-> f.path, seq |-> StillThere(set.h, f.seq), at |-> f.at, end |-> f.end,
                  elem |-> StillThere(set.h, f.elem),
                  replaced |-> f.replaced \/ (start # <<>> /\ IsPrefix(start, f.path)),
                  touched |-> f.touched \/ (start # <<>> /\ (IsPrefix(start, f.path) \/ IsPrefix(f.path, start)))]
      <3>1. g = [f EXCEPT !.seq = StillThere(set.h, f.seq), !.elem = StillThere(set.h, f.elem),
                          !.replaced = f.replaced \/ (start # <<>> /\ IsPrefix(start, f.path)),
                          !.touched = f.touched \/ (start # <<>> /\ (IsPrefix(start, f.path) \/ IsPrefix(f.path, start)))]
        BY DEF Next1
      <3> QED BY <2>2, <3>1, LoopChanged
    <2>5. /\ g.path = f.path /\ g.seq = StillThere(set.h, f.seq) /\ g.at = f.at /\ g.end = f.end
          /\ g.elem = StillThere(set.h, f.elem)
          /\ g.replaced = (f.replaced \/ (start # <<>> /\ IsPrefix(start, f.path)))
          /\ g.touched = (f.touched \/ (start # <<>> /\ (IsPrefix(start, f.path) \/ IsPrefix(f.path, start))))
          /\ g = [path |-> g.path, seq |-> g.seq, at |-> g.at, end |-> g.end, elem |-> g.elem,
                  replaced |-> g.replaced, touched |-> g.touched]
      BY <2>4
    <2> HIDE DEF g
    <2>6. g.replaced \in BOOLEAN /\ g.touched \in BOOLEAN
      BY <2>5
    <2>7. Root \in DOMAIN heap /\ Root \in DOMAIN set.h /\ Sound(set.h)
          /\ \A d \in DOMAIN heap \union DOMAIN set.h : d # Null /\ d # Dangling /\ d \in Nat
      <3>1. Sound(heap) /\ Sound(set.h)
        BY DEF VariablesInv, Keeps
      <3>2. \A d \in Nat : d # Dangling
        BY DEF Dangling
      <3> QED BY <3>1, <3>2 DEF Sound, Laid
    <2>8. \A c : StillThere(set.h, c) = IF c \in DOMAIN set.h \union {Null} THEN c ELSE Dangling
      BY DEF StillThere
    <2>9. g.seq \in DOMAIN set.h \union {Dangling} /\ g.elem \in DOMAIN set.h \union {Null, Dangling}
      <3>1. f.seq # Null
        BY <2>2, <2>7 DEF Null, Dangling
      <3> QED BY <2>5, <2>8, <3>1
    <2>10. g.seq \in DOMAIN set.h => set.h[g.seq].t = "LIST" /\ Len(set.h[g.seq].a) >= g.end
      <3> SUFFICES ASSUME g.seq \in DOMAIN set.h
                   PROVE  set.h[g.seq].t = "LIST" /\ Len(set.h[g.seq].a) >= g.end
        OBVIOUS
      <3>1. g.seq = f.seq /\ f.seq \in DOMAIN heap
        BY <2>2, <2>5, <2>7, <2>8
      <3>2. /\ set.h[f.seq].t = "LIST" /\ Len(set.h[f.seq].a) >= Len(heap[f.seq].a)
            /\ Len(heap[f.seq].a) >= f.end
        BY <2>2, <3>1 DEF Keeps
      <3>3. Len(set.h[f.seq].a) \in Nat /\ Len(heap[f.seq].a) \in Nat
        <4>1. IsCell(heap[f.seq]) /\ IsCell(set.h[f.seq])
          BY <3>1, <2>7 DEF VariablesInv, Sound, Laid
        <4> QED BY <4>1, CellFacts
      <3> QED BY <2>2, <2>5, <3>1, <3>2, <3>3
    <2>11. ASSUME NEW q, NEW c, IsPath(q), Canonical(q), GetVariable(heap, Root, q) = Just(c),
                  start = <<>> \/ ~IsPrefix(start, q)
           PROVE  GetVariable(set.h, Root, q) = Just(c) /\ StillThere(set.h, c) = c
      <3>1. GetVariable(set.h, Root, q) = Just(c)
        BY <2>11 DEF Keeps
      <3>2. c \in DOMAIN set.h \union {Null}
        <4>1. Just(c) # Nothing /\ \A x : Just(c) = Just(x) => x = c
          BY DEF Just, Nothing
        <4> QED BY <2>7, <2>11, <3>1, <4>1, GetInside
      <3> QED BY <2>8, <3>1, <3>2
    <2>12. ~g.replaced => GetVariable(set.h, Root, g.path) = Just(g.seq)
      <3> SUFFICES ASSUME ~g.replaced PROVE GetVariable(set.h, Root, g.path) = Just(g.seq)
        OBVIOUS
      <3>1. ~f.replaced /\ (start = <<>> \/ ~IsPrefix(start, f.path))
        BY <2>5
      <3>2. GetVariable(heap, Root, f.path) = Just(f.seq)
        BY <2>3, <3>1
      <3>3. GetVariable(set.h, Root, f.path) = Just(f.seq) /\ StillThere(set.h, f.seq) = f.seq
        BY <2>2, <2>11, <3>1, <3>2
      <3> QED BY <2>5, <3>3
    <2>13. ~g.touched => GetVariable(set.h, Root, Append(g.path, Num(g.at - 1))) = Just(g.elem)
      <3> SUFFICES ASSUME ~g.touched PROVE GetVariable(set.h, Root, Append(g.path, Num(g.at - 1))) = Just(g.elem)
        OBVIOUS
      <3> DEFINE key == Num(f.at - 1)
                 q == Append(f.path, key)
      <3>1. ~f.touched /\ (start = <<>> \/ (~IsPrefix(start, f.path) /\ ~IsPrefix(f.path, start)))
        BY <2>5
      <3>2. GetVariable(heap, Root, q) = Just(f.elem)
        BY <2>3, <3>1
      <3>3. IsKey(key) /\ key.n >= 0
        <4>1. f.at - 1 \in Int /\ f.at - 1 >= 0
          BY <2>2
        <4> QED BY <4>1 DEF IsKey, Num, Value
      <3> HIDE DEF key
      <3>4. IsPath(q) /\ q # <<>> /\ Front(q) = f.path /\ Last(q) = key
        BY <2>2, <3>3, PathAppended
      <3> HIDE DEF q
      <3>5. Canonical(q)
        BY <2>2, <3>3, <3>4, CanonicalJoined
      <3>6. start = <<>> \/ ~IsPrefix(start, q)
        <4> SUFFICES ASSUME start # <<>>, IsPrefix(start, q) PROVE FALSE
          OBVIOUS
        <4>1. IsPath(start)
          OBVIOUS
        <4>2. f.path \in PrefixesOf(q)
          <5>1. Len(q) - 1 \in 0..Len(q) /\ Front(q) = SubSeq(q, 1, Len(q) - 1)
            BY <3>4, PathFacts
          <5> QED BY <3>4, <5>1 DEF PrefixesOf
        <4>3. PICK n \in 0..Len(q) : start = SubSeq(q, 1, n)
          BY <3>4, <4>1, PrefixIs DEF PrefixesOf
        <4>4. Len(q) \in Nat /\ Front(q) = SubSeq(q, 1, Len(q) - 1) /\ SubSeq(q, 1, Len(q)) = q /\ Len(q) - 1 \in 0..Len(q)
          BY <3>4, PathFacts
        <4>5. CASE n = Len(q)
          <5>1. start = q
            BY <4>3, <4>4, <4>5
          <5>2. IsPrefix(f.path, start)
            BY <2>2, <3>4, <4>2, <5>1, PrefixIs
          <5> QED BY <3>1, <5>2
        <4>6. CASE n # Len(q)
          <5>1. n \in 0..(Len(q) - 1)
            <6>1. n \in 0..Len(q) /\ Len(q) \in Nat /\ n # Len(q)
              BY <4>4, <4>6
            <6> QED BY <6>1
          <5>2. Len(f.path) = Len(q) - 1
            BY <3>4, <4>4, PathFacts
          <5>3. SubSeq(f.path, 1, n) = SubSeq(q, 1, n)
            <6>1. /\ SubSeq(q, 1, n) = [i \in 1..n |-> q[i]] /\ SubSeq(f.path, 1, n) = [i \in 1..n |-> f.path[i]]
              <7>1. n \in Nat /\ n \in 0..Len(f.path) /\ n \in 0..Len(q)
                BY <5>1, <5>2
              <7>2. /\ Len(SubSeq(q, 1, n)) = n /\ \A i \in 1..n : SubSeq(q, 1, n)[i] = q[i]
                    /\ IsPath(SubSeq(q, 1, n))
                BY <3>4, <7>1, PathFacts
              <7>3. /\ Len(SubSeq(f.path, 1, n)) = n /\ \A i \in 1..n : SubSeq(f.path, 1, n)[i] = f.path[i]
                    /\ IsPath(SubSeq(f.path, 1, n))
                BY <2>2, <7>1, PathFacts
              <7> DEFINE x == SubSeq(q, 1, n)
                         y == SubSeq(f.path, 1, n)
              <7>4. x = [i \in 1..n |-> x[i]]
                BY <7>2, PathFacts
              <7>5. y = [i \in 1..n |-> y[i]]
                BY <7>3, PathFacts
              <7> QED BY <7>2, <7>3, <7>4, <7>5
            <6>2. \A i \in 1..n : q[i] = f.path[i]
              <7>1. \A i \in 1..n : i \in 1..(Len(q) - 1)
                BY <4>4, <5>1
              <7> QED BY <3>4, <7>1, FrontFacts
            <6> QED BY <6>1, <6>2
          <5>4. start \in PrefixesOf(f.path)
            BY <4>3, <5>1, <5>2, <5>3 DEF PrefixesOf
          <5> QED BY <2>2, <3>1, <4>1, <5>4, PrefixIs
        <4> QED BY <4>5, <4>6
      <3>7. GetVariable(set.h, Root, q) = Just(f.elem) /\ StillThere(set.h, f.elem) = f.elem
        BY <2>11, <3>2, <3>4, <3>5, <3>6
      <3> QED BY <2>5, <3>7 DEF q, key
    <2>14. LoopSound(set.h, g)
      BY <2>2, <2>5, <2>6, <2>9, <2>10, <2>12, <2>13 DEF LoopSound
    <2> QED BY <1>1, <2>1, <2>14
  <1> QED BY <1>2, <1>3, <1>4 DEF VariablesInv


-----------------------------------------------------------------------------
(* The initial stores. *)

LEMMA OwnersAre ==
  ASSUME NEW h, NEW c
  PROVE  /\ \A o, i : <<o, i>> \in Owners(h, c) <=> Holds(h, o, i, c)
         /\ \A x \in Owners(h, c) : \E o, i : x = <<o, i>> /\ Holds(h, o, i, c)
  <1>1. Owners(h, c) = UNION {{<<o, k>> : k \in {j \in DOMAIN h[o].a : h[o].a[j] = c}} : o \in DOMAIN h}
    BY DEF Owners
  <1>2. ASSUME NEW o, NEW i, Holds(h, o, i, c) PROVE <<o, i>> \in Owners(h, c)
    BY <1>1, <1>2 DEF Holds
  <1>3. ASSUME NEW x \in Owners(h, c) PROVE \E o, i : x = <<o, i>> /\ Holds(h, o, i, c)
    <2>1. PICK o \in DOMAIN h : x \in {<<o, k>> : k \in {j \in DOMAIN h[o].a : h[o].a[j] = c}}
      BY <1>1, <1>3
    <2>2. PICK i \in {j \in DOMAIN h[o].a : h[o].a[j] = c} : x = <<o, i>>
      BY <2>1
    <2> QED BY <2>2 DEF Holds
  <1>4. ASSUME NEW o, NEW i, <<o, i>> \in Owners(h, c) PROVE Holds(h, o, i, c)
    <2>1. PICK p, j : <<o, i>> = <<p, j>> /\ Holds(h, p, j, c)
      BY <1>3, <1>4
    <2> QED BY <2>1
  <1> QED BY <1>2, <1>3, <1>4

LEMMA StoreSound ==
  ASSUME NEW h, IsStore(h)
  PROVE  Sound(h)
  <1>1. Laid(h)
    BY DEF IsStore, Laid
  <1>2. ASSUME NEW o, NEW i, NEW k, Holds(h, o, i, k), k # Null
        PROVE  k \in DOMAIN h /\ k > o
    <2>1. o \in DOMAIN h
      BY <1>2 DEF Holds
    <2>2. k \in Below(h, o)
      BY <1>2, <2>1, BelowIs
    <2> QED BY <2>1, <2>2 DEF IsStore, IsForest
  <1>3. ASSUME NEW o, NEW i, NEW p, NEW j, NEW k, Holds(h, o, i, k), Holds(h, p, j, k), k # Null
        PROVE  o = p /\ i = j
    <2>1. k \in DOMAIN h
      BY <1>2, <1>3
    <2>2. <<o, i>> \in Owners(h, k) /\ <<p, j>> \in Owners(h, k)
      BY <1>3, OwnersAre
    <2>3. <<o, i>> = <<p, j>>
      BY <2>1, <2>2 DEF IsStore, IsForest
    <2> QED BY <2>3
  <1> QED BY <1>1, <1>2, <1>3 DEF Sound, Descends, OwnedOnce

LEMMA SoundIsForest ==
  ASSUME NEW h, Sound(h)
  PROVE  IsForest(h)
  <1>1. Laid(h) /\ Descends(h) /\ OwnedOnce(h) /\ Root \in DOMAIN h /\ Root # Null
        /\ \A c \in DOMAIN h : c \in Nat /\ c # Null /\ c >= Root
    <2>1. Laid(h) /\ Descends(h) /\ OwnedOnce(h)
      BY DEF Sound
    <2> QED BY <2>1 DEF Laid, Root, Null
  <1>2. Owners(h, Root) = {}
    <2> SUFFICES ASSUME NEW x \in Owners(h, Root) PROVE FALSE
      OBVIOUS
    <2>1. PICK o, i : Holds(h, o, i, Root)
      BY OwnersAre
    <2>2. Root > o /\ o \in DOMAIN h
      BY <1>1, <2>1 DEF Descends, Holds
    <2>3. Root \in Nat /\ o \in Nat /\ o >= Root
      BY <1>1, <2>2
    <2> QED BY <2>2, <2>3
  <1>3. ASSUME NEW c \in DOMAIN h, NEW x \in Owners(h, c), NEW y \in Owners(h, c) PROVE x = y
    <2>1. PICK o, i : x = <<o, i>> /\ Holds(h, o, i, c)
      BY OwnersAre
    <2>2. PICK p, j : y = <<p, j>> /\ Holds(h, p, j, c)
      BY OwnersAre
    <2>3. o = p /\ i = j
      BY <1>1, <2>1, <2>2 DEF OwnedOnce
    <2> QED BY <2>1, <2>2, <2>3
  <1>4. ASSUME NEW c \in DOMAIN h, NEW k \in Below(h, c) PROVE k \in DOMAIN h /\ c \notin Reach(h, k)
    <2>1. k # Null /\ \E i : Holds(h, c, i, k)
      BY BelowIs
    <2>2. k \in DOMAIN h /\ k > c
      BY <1>1, <2>1 DEF Descends
    <2>3. \A d \in Reach(h, k) : d >= k
      BY <1>1, <2>2, Reached
    <2>4. c \in Nat /\ k \in Nat
      BY <1>1, <2>2
    <2> QED BY <2>2, <2>3, <2>4
  <1> QED BY <1>2, <1>3, <1>4 DEF IsForest

LEMMA InitInv ==
  Init => VariablesInv
  <1> SUFFICES ASSUME Init PROVE VariablesInv
    OBVIOUS
  <1>1. Sound(heap)
    BY VariablesAssumption, StoreSound DEF Init
  <1>2. loops = <<>>
    BY DEF Init
  <1>3. loops \in Seq(Range(loops)) /\ DOMAIN loops = {}
    BY <1>2
  <1> QED BY <1>1, <1>3 DEF VariablesInv

-----------------------------------------------------------------------------
(* The values that a tag takes. *)

LEMMA ParseCellIs ==
  ASSUME NEW h, Sound(h), NEW c \in DOMAIN h
  PROVE  IsSource(h, ParseCell(h, c))
  <1>1. Pointer(c).t = "VAR" /\ Pointer(c).n = c
    BY DEF Pointer, Value
  <1>2. IsCell(h[c])
    BY DEF Sound, Laid
  <1>3. h[c].t \notin {"LIST", "HASH"} => IsScalar(h[c])
    BY <1>2, CellFacts
  <1> QED BY <1>1, <1>3 DEF ParseCell, IsSource

LEMMA SourceIs ==
  ASSUME VariablesInv, NEW src \in Sources, IsDefined(src)
  PROVE  IsSource(heap, ValueOf(src))
  <1>1. \/ src.from = "literal" /\ src.v \in Literals
        \/ src.from = "path" /\ src.path \in Paths
        \/ src.from = "loop" /\ src.loop \in DOMAIN loops
    BY DEF Sources
  <1>2. CASE src.from = "literal" /\ src.v \in Literals
    <2>1. ValueOf(src) = src.v
      BY <1>2 DEF ValueOf
    <2> QED BY <1>2, <2>1, VariablesAssumption DEF IsSource
  <1>3. CASE src.from = "path" /\ src.path \in Paths
    <2> DEFINE found == GetVariable(heap, Root, src.path)
    <2>1. ValueOf(src) = ReadVariable(heap, src.path) /\ found # Just(Null)
      BY <1>3 DEF ValueOf, IsDefined, Readable
    <2>2. Sound(heap) /\ Root \in DOMAIN heap /\ IsPath(src.path)
      BY <1>3, PathsAre DEF VariablesInv, Sound, Laid
    <2>3. found = Nothing \/ \E k \in DOMAIN heap \union {Null} : found = Just(k)
      BY <2>2, GetInside
    <2>4. ReadVariable(heap, src.path) = IF found = Nothing THEN Nil ELSE ParseCell(heap, found[1])
      BY DEF ReadVariable
    <2> HIDE DEF found
    <2>5. CASE found = Nothing
      BY <2>1, <2>4, <2>5 DEF IsSource, IsScalar
    <2>6. CASE found # Nothing
      <3>1. PICK k \in DOMAIN heap : found = Just(k)
        BY <2>1, <2>3, <2>6
      <3>2. found[1] = k
        BY <3>1 DEF Just
      <3> QED BY <2>1, <2>2, <2>4, <2>6, <3>2, ParseCellIs
    <2> QED BY <2>5, <2>6
  <1>4. CASE src.from = "loop" /\ src.loop \in DOMAIN loops
    <2> DEFINE e == loops[src.loop].elem
    <2>1. ValueOf(src) = ParseCell(heap, e) /\ e \notin {Null, Dangling}
      BY <1>4 DEF ValueOf, IsDefined
    <2>2. e \in DOMAIN heap /\ Sound(heap)
      BY <1>4, <2>1 DEF VariablesInv, LoopSound
    <2> QED BY <2>1, <2>2, ParseCellIs
  <1> QED BY <1>1, <1>2, <1>3, <1>4

LEMMA TwiceIs ==
  ASSUME NEW h, NEW w, IsSource(h, w)
  PROVE  IsArray(h, Array(<<w, w>>))
  <1>1. Array(<<w, w>>).t = "ARRAY" /\ Array(<<w, w>>).a = <<w, w>>
    BY DEF Array, Value
  <1>2. Len(<<w, w>>) = 2 /\ <<w, w>>[1] = w /\ <<w, w>>[2] = w
    OBVIOUS
  <1>3. 2 \in Nat /\ \A k \in 1..2 : k = 1 \/ k = 2
    OBVIOUS
  <1> QED BY <1>1, <1>2, <1>3 DEF IsArray

-----------------------------------------------------------------------------
(* The tags that allocate. *)

\* What a step may lose: nothing that is lost is found again.
LosesKnown ==
  /\ Unowned(heap) \subseteq Unowned(heap')
  /\ Unowned(heap') # Unowned(heap) => last'.refused \/ last'.op \in {"element", "increment", "dotfilter"}

LEMMA AssignedKeeps ==
  ASSUME NEW h, Sound(h), NEW set, NEW p, IsPath(p), p # <<>>, Assigned(h, set, p)
  PROVE  LET start == IF set.p = Null THEN <<>> ELSE FromStart(h, p)
         IN  Keeps(h, set, start) /\ (start # <<>> => IsPath(start))
  <1> DEFINE start == IF set.p = Null THEN <<>> ELSE FromStart(h, p)
  <1>1. FromStart(h, p) # <<>> /\ IsPath(FromStart(h, p))
    BY FromStartPath
  <1>2. start = <<>> => set.p = Null
    BY <1>1
  <1>3. set.p # Null => start = FromStart(h, p)
    OBVIOUS
  <1> HIDE DEF start
  <1>4. /\ Sound(set.h)
        /\ \A c \in DOMAIN h : c \in DOMAIN set.h /\ h[c].t = "LIST" =>
              set.h[c].t = "LIST" /\ Len(set.h[c].a) >= Len(h[c].a)
    BY AssignedSound
  <1>5. ASSUME NEW q, NEW c, IsPath(q), Canonical(q), GetVariable(h, Root, q) = Just(c),
               start = <<>> \/ ~IsPrefix(start, q)
        PROVE  GetVariable(set.h, Root, q) = Just(c)
    <2>1. set.p = Null \/ ~IsPrefix(FromStart(h, p), q)
      BY <1>2, <1>3, <1>5
    <2> QED BY <1>5, <2>1, AssignedSound
  <1>6. Keeps(h, set, start)
    BY <1>4, <1>5 DEF Keeps
  <1>7. start # <<>> => IsPath(start)
    <2>1. start # <<>> => set.p # Null
      BY DEF start
    <2> QED BY <1>1, <1>3, <2>1
  <1> QED BY <1>6, <1>7 DEF start

LEMMA TagAssigned ==
  ASSUME VariablesInv, NEW op, NEW path \in Paths, NEW plain, NEW set, Tag(op, path, plain, set),
         Assigned(heap, set, path), set.p = Null \/ ~IsInt(Last(path)) \/ op = "element"
  PROVE  VariablesInv' /\ LosesKnown
  <1> DEFINE start == IF set.p = Null THEN <<>> ELSE FromStart(heap, path)
  <1>1. IsPath(path) /\ path # <<>> /\ Sound(heap)
    BY PathsAre DEF VariablesInv
  <1>2. Keeps(heap, set, start) /\ (start # <<>> => IsPath(start))
    BY <1>1, AssignedKeeps
  <1>3. VariablesInv'
    <2>1. start = IF set.p = Null THEN <<>> ELSE FromStart(heap, path)
      OBVIOUS
    <2> HIDE DEF start
    <2> QED BY <1>2, <2>1, TagKeeps
  <1>4. heap' = set.h /\ last'.refused = (set.p = Null) /\ last'.op = op
    BY DEF Tag
  <1>5. /\ Unowned(heap) \subseteq Unowned(set.h)
        /\ Unowned(set.h) # Unowned(heap) => set.p = Null \/ IsInt(Last(path))
    BY <1>1, AssignedSound
  <1>6. Unowned(heap') # Unowned(heap) => last'.refused \/ last'.op \in {"element", "increment", "dotfilter"}
    BY <1>4, <1>5
  <1> QED BY <1>3, <1>4, <1>5, <1>6 DEF LosesKnown

LEMMA AssignSafelyKeeps ==
  ASSUME VariablesInv, NEW path \in Paths, NEW src, NEW v, NEW jv,
         IsSource(heap, v) \/ IsArray(heap, v), AssignSafely(path, src, v, jv)
  PROVE  VariablesInv' /\ LosesKnown
  <1> DEFINE injected == InjectInto(heap, v)
             set == SetVariableAt(injected.h, Root, path, injected.p)
             op == IF IsInt(Last(path)) THEN "element" ELSE "assign"
             plain == IsPlain(path, v)
             parent == GetVariable(heap, Root, Front(path))
  <1>1. Tag(op, path, plain, set) /\ SetIsDefined(path)
    BY DEF AssignSafely
  <1>2. IsPath(path) /\ path # <<>> /\ Sound(heap)
    BY PathsAre DEF VariablesInv
  <1>3. parent \notin {Nothing, Just(Null)} /\ IsInt(Last(path)) =>
          SetArrayIsDefined(heap, parent[1], Last(path).n)
    BY <1>1 DEF SetIsDefined
  <1>4. Assigned(heap, set, path)
    BY <1>2, <1>3, AssignedIs
  <1>5. ~IsInt(Last(path)) \/ op = "element"
    OBVIOUS
  <1> HIDE DEF set, op, plain
  <1> QED BY <1>1, <1>4, <1>5, TagAssigned

LEMMA AssignValueKeeps ==
  ASSUME VariablesInv, NEW path \in Paths, NEW src \in Sources, AssignValue(path, src)
  PROVE  VariablesInv' /\ LosesKnown
  <1>1. IsDefined(src) /\ AssignSafely(path, src, ValueOf(src), JsonValueOf(src))
    BY DEF AssignValue
  <1>2. IsSource(heap, ValueOf(src))
    BY <1>1, SourceIs
  <1> QED BY <1>1, <1>2, AssignSafelyKeeps

LEMMA AssignArrayKeeps ==
  ASSUME VariablesInv, NEW path \in Paths, NEW src \in Sources, AssignArray(path, src)
  PROVE  VariablesInv' /\ LosesKnown
  <1> DEFINE w == ValueOf(src)
             u == JsonValueOf(src)
             v == Array(<<w, w>>)
             jv == Array(<<u, u>>)
  <1>1. IsDefined(src) /\ AssignSafely(path, src, v, jv)
    BY DEF AssignArray
  <1>2. IsSource(heap, w)
    BY <1>1, SourceIs
  <1>3. IsArray(heap, v)
    BY <1>2, TwiceIs
  <1> HIDE DEF v, jv
  <1> QED BY <1>1, <1>3, AssignSafelyKeeps

\* A scalar leads nowhere.
LEMMA ScalarLeads ==
  ASSUME NEW h, NEW c, h[c].t \notin {"LIST", "HASH"}, NEW p, IsPath(p), p # <<>>
  PROVE  GetVariable(h, c, p) = Nothing
  <1> DEFINE G == {q \in PrefixesOf(p) : q = <<>> \/ GetVariable(h, c, q) = Nothing}
  <1>1. <<>> \in G /\ \A q \in PrefixesOf(p) : IsPath(q)
    BY PrefixesAre
  <1>2. ASSUME NEW q \in PrefixesOf(p), q # <<>>, Front(q) \in G
        PROVE  q \in G
    <2> DEFINE before == GetVariable(h, c, Front(q))
    <2>1. GetVariable(h, c, q) =
             IF before \in {Nothing, Just(Null)} THEN Nothing ELSE Element(h, before[1], Last(q))
      BY <1>1, <1>2, GetLast
    <2>2. CASE before = Nothing
      BY <2>1, <2>2
    <2>3. CASE Front(q) = <<>>
      <3>1. before = Just(c) /\ before[1] = c
        BY <2>3, GetNone DEF Just
      <3>2. Element(h, c, Last(q)) = Nothing
        BY DEF Element
      <3> QED BY <2>1, <3>1, <3>2
    <2> QED BY <1>2, <2>2, <2>3
  <1> HIDE DEF G
  <1>3. p \in G
    BY <1>1, <1>2, AlongPath
  <1> QED BY <1>3 DEF G

\* increment makes a variable that the resolver refuses: the one that is there is no store.
LEMMA IncrementGrows ==
  ASSUME VariablesInv, NEW path \in Paths, Increment(path)
  PROVE  \E set : Tag("increment", path, FALSE, set) /\ set.p = Null /\ \E c : Injected(heap, set.h, c)
  <1> DEFINE found == GetVariable(heap, Root, path)
             created == New(heap, Num(heap[found[1]].n + 1))
             set == SetVariableAt(created.h, found[1], path, created.p)
             parent == GetVariable(created.h, found[1], Front(path))
  <1>1. /\ found \notin {Nothing, Just(Null)} /\ IsInt(heap[found[1]])
        /\ Tag("increment", path, FALSE, set)
    BY DEF Increment
  <1>2. IsPath(path) /\ path # <<>> /\ Sound(heap) /\ Root \in DOMAIN heap
    BY PathsAre DEF VariablesInv, Sound, Laid
  <1>3. PICK c \in DOMAIN heap : found = Just(c)
    BY <1>1, <1>2, GetInside
  <1>4. found[1] = c
    BY <1>3 DEF Just
  <1>5. IsCell(heap[c]) /\ heap[c].t = "INT"
    BY <1>1, <1>2, <1>4 DEF Sound, Laid, IsInt
  <1>6. Injected(heap, created.h, created.p)
    <2>1. heap[c].n \in Int
      <3>1. IsScalar(heap[c])
        BY <1>5, CellFacts
      <3> QED BY <1>5, <3>1 DEF IsScalar, Nil, Num, Bool, Str, Value
    <2> DEFINE v == Num(heap[c].n + 1)
    <2>2. v.n \in Int /\ v = Num(v.n) /\ v.a = <<>>
      BY <2>1 DEF Num, Value
    <2>3. IsCell(v)
      BY <2>2 DEF IsCell, IsScalar
    <2> HIDE DEF v
    <2>4. Injected(heap, New(heap, v).h, New(heap, v).p)
      BY <1>2, <2>2, <2>3, Created
    <2>5. created = New(heap, v)
      BY <1>4 DEF v
    <2> QED BY <2>4, <2>5
  <1> HIDE DEF created, found
  <1>7. created.h[c] = heap[c]
    BY <1>6 DEF Injected, Grown
  <1>8. set = At(created.h, Null)
    <2>1. set = IF parent \in {Nothing, Just(Null)} THEN At(created.h, Null)
                ELSE SetElement(created.h, parent[1], Last(path), created.p)
      BY DEF SetVariableAt
    <2>2. CASE Front(path) = <<>>
      <3>1. parent = Just(c) /\ parent[1] = c
        BY <1>4, <2>2, GetNone DEF Just
      <3>2. SetElement(created.h, c, Last(path), created.p) = At(created.h, Null)
        <4>1. SetArrayVariable(created.h, c, Last(path).n, created.p) = At(created.h, Null)
          BY <1>5, <1>7 DEF SetArrayVariable
        <4>2. SetDictionaryVariable(created.h, c, Last(path).s, created.p) = At(created.h, Null)
          BY <1>5, <1>7 DEF SetDictionaryVariable
        <4> QED BY <4>1, <4>2 DEF SetElement
      <3> QED BY <2>1, <3>1, <3>2
    <2>3. CASE Front(path) # <<>>
      <3>1. IsPath(Front(path))
        BY <1>2, FrontFacts
      <3>2. created.h[c].t \notin {"LIST", "HASH"}
        BY <1>5, <1>7
      <3>3. parent = Nothing
        BY <1>4, <2>3, <3>1, <3>2, ScalarLeads
      <3> QED BY <2>1, <3>3
    <2> QED BY <2>2, <2>3
  <1> HIDE DEF set
  <1>9. set.p = Null /\ set.h = created.h
    BY <1>8 DEF At
  <1> QED BY <1>1, <1>6, <1>9

LEMMA IncrementKeeps ==
  ASSUME VariablesInv, NEW path \in Paths, Increment(path)
  PROVE  VariablesInv' /\ LosesKnown
  <1>1. PICK set : Tag("increment", path, FALSE, set) /\ set.p = Null /\ \E c : Injected(heap, set.h, c)
    BY IncrementGrows
  <1>2. Assigned(heap, set, path)
    BY <1>1 DEF Assigned
  <1> QED BY <1>1, <1>2, TagAssigned

\* What a dot filter injects to walk on stays behind.
LEMMA ReadThroughDotFilterGrows ==
  ASSUME VariablesInv, NEW path \in Paths, ReadThroughDotFilter(path)
  PROVE  \E set : Tag("dotfilter", <<>>, FALSE, set) /\ Injected(heap, set.h, set.p)
  <1> DEFINE key == Num(0)
             q == Append(path, key)
             found == GetVariable(heap, Root, q)
             set == New(heap, heap[found[1]])
  <1>1. /\ found \notin {Nothing, Just(Null)} /\ ParseCell(heap, found[1]).t # "VAR"
        /\ Tag("dotfilter", <<>>, FALSE, set)
    BY DEF ReadThroughDotFilter
  <1>2. IsPath(path) /\ Sound(heap) /\ Root \in DOMAIN heap
    BY PathsAre DEF VariablesInv, Sound, Laid
  <1>3. IsKey(key)
    BY DEF IsKey, Num, Value
  <1> HIDE DEF key
  <1>4. IsPath(q)
    BY <1>2, <1>3, PathAppended
  <1> HIDE DEF q
  <1>5. PICK c \in DOMAIN heap : found = Just(c)
    BY <1>1, <1>2, <1>4, GetInside
  <1>6. found[1] = c
    BY <1>5 DEF Just
  <1>7. IsCell(heap[c]) /\ heap[c].a = <<>>
    <2>1. IsCell(heap[c])
      BY <1>2 DEF Sound, Laid
    <2>2. heap[c].t \notin {"LIST", "HASH"}
      <3>1. Pointer(c).t = "VAR"
        BY DEF Pointer, Value
      <3> QED BY <1>1, <1>6, <3>1 DEF ParseCell
    <2> QED BY <2>1, <2>2, CellFacts
  <1>8. Injected(heap, set.h, set.p)
    BY <1>2, <1>6, <1>7, Created
  <1> HIDE DEF set, found
  <1> QED BY <1>1, <1>8

LEMMA ReadThroughDotFilterKeeps ==
  ASSUME VariablesInv, NEW path \in Paths, ReadThroughDotFilter(path)
  PROVE  VariablesInv' /\ LosesKnown
  <1>1. PICK set : Tag("dotfilter", <<>>, FALSE, set) /\ Injected(heap, set.h, set.p)
    BY ReadThroughDotFilterGrows
  <1>2. Sound(heap) /\ Root \in DOMAIN heap
    BY DEF VariablesInv, Sound, Laid
  <1>9. Grown(heap, set.h) /\ Sound(set.h) /\ Unowned(set.h) = Unowned(heap) \union {set.p}
        /\ \A d \in DOMAIN heap : set.h[d] = heap[d]
    BY <1>1 DEF Injected, Grown
  <1>10. Keeps(heap, set, <<>>)
    <2>1. \A d \in DOMAIN heap : Len(heap[d].a) \in Nat
      BY <1>2, CellFacts DEF Sound, Laid
    <2>2. \A p, d : IsPath(p) /\ GetVariable(heap, Root, p) = Just(d) => GetVariable(set.h, Root, p) = Just(d)
      BY <1>2, <1>9, GrownPath
    <2> QED BY <1>9, <2>1, <2>2 DEF Keeps
  <1>11. (IF set.p = Null THEN <<>> ELSE FromStart(heap, <<>>)) = <<>>
    <2>1. IsPath(<<>>)
      BY DEF IsPath, Range
    <2>2. IsPath(FromStart(heap, <<>>)) /\ Len(FromStart(heap, <<>>)) = Len(<<>>)
      BY <1>2, <2>1, FromStartPath
    <2>3. \A s : IsPath(s) /\ Len(s) = Len(<<>>) => s = <<>>
      BY DEF IsPath
    <2> QED BY <2>2, <2>3
  <1>12. VariablesInv'
    BY <1>1, <1>10, <1>11, TagKeeps
  <1>13. heap' = set.h /\ last'.op = "dotfilter"
    BY <1>1 DEF Tag
  <1> QED BY <1>9, <1>12, <1>13 DEF LosesKnown

LEMMA HostAssignKeeps ==
  ASSUME VariablesInv, NEW key, NEW v \in Literals, HostAssign(key, v)
  PROVE  VariablesInv' /\ LosesKnown
  <1> DEFINE named == NamedByHost(heap, key)
             cleared == Without(named.h, Reach(named.h, named.p) \ {named.p})
             g == [cleared EXCEPT ![named.p] = v]
  <1>1. Sound(heap) /\ IsScalar(v)
    BY VariablesAssumption DEF VariablesInv
  <1>2. loops = <<>> /\ Tag("host", <<>>, FALSE, At(g, named.p))
    BY DEF HostAssign, NamedByHost
  <1>3. /\ Sound(named.h) /\ Unowned(named.h) = Unowned(heap)
        /\ named.p # Null /\ \E i : Holds(named.h, Root, i, named.p)
    BY <1>1, NamedSound
  <1> HIDE DEF named
  <1>4. Sound(g) /\ Unowned(g) = Unowned(named.h)
    <2>1. PICK i : Holds(named.h, Root, i, named.p)
      BY <1>3
    <2> QED BY <1>1, <1>3, <2>1, Overwritten
  <1> HIDE DEF g
  <1>5. heap' = g /\ DOMAIN loops' = DOMAIN loops /\ loops' = [k \in DOMAIN loops |-> loops'[k]]
    <2>1. loops' = LoopsAfter(At(g, named.p).h, IF At(g, named.p).p = Null THEN <<>> ELSE FromStart(heap, <<>>))
      BY <1>2 DEF Tag
    <2>2. \A h, p : /\ DOMAIN LoopsAfter(h, p) = DOMAIN loops
                    /\ LoopsAfter(h, p) = [k \in DOMAIN loops |-> LoopsAfter(h, p)[k]]
      BY DEF LoopsAfter
    <2>3. heap' = g
      BY <1>2 DEF Tag, At
    <2> QED BY <2>1, <2>2, <2>3
  <1>6. DOMAIN loops' = {} /\ loops' = <<>>
    <2>1. DOMAIN loops = {}
      BY <1>2
    <2> QED BY <1>5, <2>1
  <1>7. loops' \in Seq(Range(loops'))
    BY <1>6
  <1> QED BY <1>3, <1>4, <1>5, <1>6, <1>7 DEF VariablesInv, LosesKnown

-----------------------------------------------------------------------------
(* The loops. *)

LEMMA ElementOfList ==
  ASSUME NEW h, NEW c, h[c].t = "LIST", NEW n \in Nat, n >= 1, Len(h[c].a) \in Nat, n <= Len(h[c].a)
  PROVE  Element(h, c, Num(n - 1)) = Just(h[c].a[n])
  <1> DEFINE size == Len(h[c].a)
             key == Num(n - 1)
             i == IF key.n < 0 THEN key.n + size ELSE key.n
  <1>1. IsInt(key) /\ key.n = n - 1
    BY DEF IsInt, Num, Value
  <1>2. n - 1 \in Int /\ ~(n - 1 < 0) /\ n - 1 \in 0..(size - 1) /\ (n - 1) + 1 = n
    OBVIOUS
  <1>3. i = n - 1
    BY <1>1, <1>2
  <1>4. Element(h, c, key) =
          CASE IsInt(key) /\ h[c].t = "LIST" /\ i \in 0..(size - 1) -> Just(h[c].a[i + 1])
            [] IsStr(key) /\ h[c].t = "HASH" /\ KeyIndex(h[c], key.s) # {} ->
                   Just(h[c].a[CHOOSE k \in KeyIndex(h[c], key.s) : TRUE])
            [] OTHER -> Nothing
    BY DEF Element
  <1> HIDE DEF i, key
  <1>5. i \in 0..(size - 1) /\ i + 1 = n
    BY <1>2, <1>3
  <1>6. h[c].t # "HASH"
    OBVIOUS
  <1> HIDE DEF size
  <1> QED BY <1>1, <1>4, <1>5, <1>6 DEF key

LEMMA ElementIn ==
  ASSUME NEW h, Sound(h), NEW c \in DOMAIN h, NEW n \in 1..Len(h[c].a)
  PROVE  h[c].a[n] \in DOMAIN h \union {Null}
  <1>1. DOMAIN h[c].a = 1..Len(h[c].a)
    BY CellFacts DEF Sound, Laid
  <1>2. Holds(h, c, n, h[c].a[n])
    BY <1>1 DEF Holds
  <1> QED BY <1>2 DEF Sound, Descends

\* The next element of a list that a path leads to.
LEMMA ElementByPath ==
  ASSUME NEW h, Sound(h), NEW c \in DOMAIN h, h[c].t = "LIST", NEW p, IsPath(p),
         GetVariable(h, Root, p) = Just(c), NEW n \in Nat, n >= 1, n <= Len(h[c].a)
  PROVE  GetVariable(h, Root, Append(p, Num(n - 1))) = Just(h[c].a[n])
  <1>1. IsKey(Num(n - 1))
    BY DEF IsKey, Num, Value
  <1>2. Just(c) \notin {Nothing, Just(Null)} /\ Just(c)[1] = c /\ Len(h[c].a) \in Nat
    BY LinkFacts, CellFacts
  <1>3. GetVariable(h, Root, Append(p, Num(n - 1))) = Element(h, c, Num(n - 1))
    BY <1>1, <1>2, GetNext
  <1> QED BY <1>2, <1>3, ElementOfList

LEMMA EnterLoopKeeps ==
  ASSUME VariablesInv, NEW path \in Paths, EnterLoop(path)
  PROVE  VariablesInv' /\ LosesKnown
  <1> DEFINE found == GetVariable(heap, Root, path)
             start == FromStart(heap, path)
             f == [path |-> start, seq |-> found[1], at |-> 1, end |-> Len(heap[found[1]].a),
                   elem |-> heap[found[1]].a[1], replaced |-> FALSE, touched |-> FALSE]
  <1>1. /\ found \notin {Nothing, Just(Null)} /\ heap[found[1]].t = "LIST" /\ heap[found[1]].a # <<>>
        /\ loops' = Append(loops, f) /\ heap' = heap
    BY DEF EnterLoop
  <1>2. IsPath(path) /\ Sound(heap) /\ Root \in DOMAIN heap /\ loops \in Seq(Range(loops))
    BY PathsAre DEF VariablesInv, Sound, Laid
  <1>3. PICK c \in DOMAIN heap : found = Just(c)
    BY <1>1, <1>2, GetInside
  <1>4. found[1] = c
    BY <1>3 DEF Just
  <1>5. /\ heap[c].t = "LIST" /\ Len(heap[c].a) \in Nat /\ heap[c].a \in Seq(Nat) /\ heap[c].a # <<>>
    BY <1>1, <1>2, <1>4, CellFacts DEF Sound, Laid
  <1>6. 1 \in 1..Len(heap[c].a) /\ 1 <= Len(heap[c].a)
    BY <1>5
  <1>7. IsPath(start) /\ Canonical(start) /\ GetVariable(heap, Root, start) = Just(c)
    BY <1>1, <1>2, <1>3, FromStartPath, FromStartLeads
  <1> HIDE DEF start, found
  <1>8. GetVariable(heap, Root, Append(start, Num(1 - 1))) = Just(heap[c].a[1])
    <2>1. \A n \in Nat : n >= 1 /\ n <= Len(heap[c].a) =>
            GetVariable(heap, Root, Append(start, Num(n - 1))) = Just(heap[c].a[n])
      BY <1>2, <1>5, <1>7, ElementByPath
    <2>2. 1 \in Nat /\ 1 >= 1 /\ 1 <= Len(heap[c].a)
      BY <1>6
    <2> QED BY <2>1, <2>2, Zenon
  <1>9. heap[c].a[1] \in DOMAIN heap \union {Null}
    BY <1>2, <1>6, ElementIn
  <1>10. LoopSound(heap, f)
    <2>1. /\ f.path = start /\ f.seq = c /\ f.at = 1 /\ f.end = Len(heap[c].a) /\ f.elem = heap[c].a[1]
          /\ f.replaced = FALSE /\ f.touched = FALSE
          /\ f = [path |-> f.path, seq |-> f.seq, at |-> f.at, end |-> f.end, elem |-> f.elem,
                  replaced |-> f.replaced, touched |-> f.touched]
      BY <1>4
    <2> HIDE DEF f
    <2>2. f.at \in Nat /\ f.at >= 1 /\ f.end \in Nat /\ Len(heap[c].a) >= f.end
      BY <1>5, <2>1
    <2> QED BY <1>5, <1>7, <1>8, <1>9, <2>1, <2>2 DEF LoopSound
  <1> HIDE DEF f
  <1>11. /\ loops' \in Seq(Range(loops'))
         /\ \A k \in DOMAIN loops' : loops'[k] = f \/ \E j \in DOMAIN loops : loops'[k] = loops[j]
    BY <1>1, <1>2, LoopsAppended
  <1>12. \A k \in DOMAIN loops' : LoopSound(heap', loops'[k])
    BY <1>1, <1>10, <1>11 DEF VariablesInv
  <1> QED BY <1>1, <1>2, <1>11, <1>12 DEF VariablesInv, LosesKnown

LEMMA NextElementKeeps ==
  ASSUME VariablesInv, NextElement
  PROVE  VariablesInv' /\ LosesKnown
  <1> DEFINE f == Last(loops)
             g == [f EXCEPT !.at = @ + 1, !.elem = heap[f.seq].a[f.at + 1], !.touched = f.replaced]
             front == Front(loops)
  <1>1. /\ loops # <<>> /\ f.at < f.end /\ f.seq # Dangling
        /\ loops' = Append(front, g) /\ heap' = heap
    BY DEF NextElement
  <1>2. Sound(heap) /\ loops \in Seq(Range(loops))
    BY DEF VariablesInv
  <1>3. /\ front \in Seq(Range(front)) /\ \E j \in DOMAIN loops : f = loops[j]
        /\ \A k \in DOMAIN front : \E j \in DOMAIN loops : front[k] = loops[j]
    BY <1>1, <1>2, LoopsFront
  <1>4. LoopSound(heap, f)
    BY <1>3 DEF VariablesInv
  <1> HIDE DEF f, front
  <1>5. /\ f = [path |-> f.path, seq |-> f.seq, at |-> f.at, end |-> f.end, elem |-> f.elem,
                replaced |-> f.replaced, touched |-> f.touched]
        /\ IsPath(f.path) /\ Canonical(f.path)
        /\ f.at \in Nat /\ f.at >= 1 /\ f.end \in Nat /\ f.replaced \in BOOLEAN /\ f.touched \in BOOLEAN
        /\ f.seq \in DOMAIN heap /\ heap[f.seq].t = "LIST" /\ Len(heap[f.seq].a) >= f.end
        /\ ~f.replaced => GetVariable(heap, Root, f.path) = Just(f.seq)
    BY <1>1, <1>4 DEF LoopSound
  <1>6. Len(heap[f.seq].a) \in Nat
    BY <1>2, <1>5, CellFacts DEF Sound, Laid
  <1> DEFINE n == f.at + 1
  <1>7. n \in Nat /\ n >= 1 /\ n <= Len(heap[f.seq].a) /\ n \in 1..Len(heap[f.seq].a)
    <2>1. /\ f.at \in Nat /\ f.end \in Nat /\ Len(heap[f.seq].a) \in Nat
          /\ f.at < f.end /\ Len(heap[f.seq].a) >= f.end
      BY <1>1, <1>5, <1>6
    <2> QED BY <2>1
  <1>8. /\ g.path = f.path /\ g.seq = f.seq /\ g.at = n /\ g.end = f.end /\ g.elem = heap[f.seq].a[n]
        /\ g.replaced = f.replaced /\ g.touched = f.replaced
        /\ g = [path |-> g.path, seq |-> g.seq, at |-> g.at, end |-> g.end, elem |-> g.elem,
                replaced |-> g.replaced, touched |-> g.touched]
    <2> DEFINE fields == {"path", "seq", "at", "end", "elem", "replaced", "touched"}
               e == heap[f.seq].a[f.at + 1]
    <2>1. DOMAIN f = fields
      BY <1>5
    <2>2. g = [f EXCEPT !.at = n, !.elem = e, !.touched = f.replaced]
      OBVIOUS
    <2> HIDE DEF e, n
    <2>3. /\ g.path = f.path /\ g.seq = f.seq /\ g.at = n /\ g.end = f.end /\ g.elem = e
          /\ g.replaced = f.replaced /\ g.touched = f.replaced /\ DOMAIN g = fields
          /\ g = [x \in DOMAIN g |-> g[x]]
      <3> HIDE DEF g
      <3> QED BY <2>1, <2>2
    <2> HIDE DEF g
    <2>4. g = [path |-> g.path, seq |-> g.seq, at |-> g.at, end |-> g.end, elem |-> g.elem,
               replaced |-> g.replaced, touched |-> g.touched]
      BY <2>3
    <2> QED BY <2>3, <2>4 DEF e, n
  <1> HIDE DEF g, n
  <1>9. heap[f.seq].a[n] \in DOMAIN heap \union {Null}
    BY <1>2, <1>5, <1>7, ElementIn
  <1>10. ~g.touched => GetVariable(heap, Root, Append(g.path, Num(g.at - 1))) = Just(g.elem)
    BY <1>2, <1>5, <1>7, <1>8, ElementByPath
  <1>11. LoopSound(heap, g)
    BY <1>5, <1>7, <1>8, <1>9, <1>10 DEF LoopSound
  <1>12. /\ loops' \in Seq(Range(loops'))
         /\ \A k \in DOMAIN loops' : loops'[k] = g \/ \E j \in DOMAIN front : loops'[k] = front[j]
    BY <1>1, <1>3, LoopsAppended
  <1>13. \A k \in DOMAIN loops' : LoopSound(heap', loops'[k])
    BY <1>1, <1>3, <1>11, <1>12 DEF VariablesInv
  <1> QED BY <1>1, <1>2, <1>12, <1>13 DEF VariablesInv, LosesKnown

LEMMA LeaveLoopKeeps ==
  ASSUME VariablesInv, LeaveLoop
  PROVE  VariablesInv' /\ LosesKnown
  <1>1. loops # <<>> /\ loops' = Front(loops) /\ heap' = heap /\ loops \in Seq(Range(loops))
    BY DEF LeaveLoop, VariablesInv
  <1>2. /\ loops' \in Seq(Range(loops'))
        /\ \A k \in DOMAIN loops' : \E j \in DOMAIN loops : loops'[k] = loops[j]
    BY <1>1, LoopsFront
  <1> QED BY <1>1, <1>2 DEF VariablesInv, LosesKnown

LEMMA UnchangedKeeps ==
  ASSUME VariablesInv, heap' = heap, loops' = loops
  PROVE  VariablesInv' /\ LosesKnown
  BY DEF VariablesInv, LosesKnown

-----------------------------------------------------------------------------
(* The theorems. *)

LEMMA StepKeeps ==
  ASSUME VariablesInv, [Next]_vars
  PROVE  VariablesInv' /\ LosesKnown
  <1>1. CASE UNCHANGED vars
    BY <1>1, UnchangedKeeps DEF vars
  <1>2. ASSUME NEW p \in Paths, NEW src \in Sources,
               AssignValue(p, src) \/ AssignArray(p, src) \/ AssignGoesWrong(p, src)
        PROVE  VariablesInv' /\ LosesKnown
    <2>1. CASE AssignValue(p, src)
      BY <2>1, AssignValueKeeps
    <2>2. CASE AssignArray(p, src)
      BY <2>2, AssignArrayKeeps
    <2>3. CASE AssignGoesWrong(p, src)
      BY <2>3, UnchangedKeeps DEF AssignGoesWrong, GoesWrong
    <2> QED BY <1>2, <2>1, <2>2, <2>3
  <1>3. ASSUME NEW p \in Paths, Increment(p) \/ ReadThroughDotFilter(p) \/ EnterLoop(p)
        PROVE  VariablesInv' /\ LosesKnown
    BY <1>3, IncrementKeeps, ReadThroughDotFilterKeeps, EnterLoopKeeps
  <1>4. CASE NextElement \/ IterateGoesWrong \/ LeaveLoop
    <2>1. CASE IterateGoesWrong
      BY <2>1, UnchangedKeeps DEF IterateGoesWrong, GoesWrong
    <2> QED BY <1>4, <2>1, NextElementKeeps, LeaveLoopKeeps
  <1>5. ASSUME NEW p \in Paths, NEW v \in Literals, HostAssign(p[1].s, v)
        PROVE  VariablesInv' /\ LosesKnown
    BY <1>5, HostAssignKeeps
  <1> QED BY <1>1, <1>2, <1>3, <1>4, <1>5 DEF Next

(* The inductive invariant: elements lie behind their owners, each has one, and a loop's *)
(* pointers are to cells that are there, or known not to be, at the end of its path.     *)
THEOREM VariablesInductive == Spec => []VariablesInv
  <1>1. VariablesInv /\ [Next]_vars => VariablesInv'
    BY StepKeeps
  <1> QED BY <1>1, InitInv, PTL DEF Spec

(* For every store, path and literal: no variable is owned twice, no owner holds one that *)
(* was freed, and none is within itself (CPPVariable's destructor and assign, the sets of *)
(* the resolver and Renderer::inject).                                                    *)
THEOREM HeapForest == Spec => []HeapIsForest
  <1>1. VariablesInv => HeapIsForest
    BY SoundIsForest DEF VariablesInv, HeapIsForest
  <1> QED BY <1>1, VariablesInductive, PTL

(* A loop of ForNode::render is on the list its path leads to, and on the element at its *)
(* place, until something on that path or behind it is assigned.                         *)
THEOREM LoopsStay == Spec => []LoopsStayOnTheirLists
  <1>1. VariablesInv => LoopsStayOnTheirLists
    BY DEF VariablesInv, LoopSound, LoopsStayOnTheirLists
  <1> QED BY <1>1, VariablesInductive, PTL

(* A variable that Renderer::inject created and nobody took is lost in a known way, and *)
(* what is lost is never freed.                                                         *)
THEOREM KnownLeaks == Spec => LeaksAreKnown
  <1>1. VariablesInv /\ [Next]_vars =>
          [/\ Unowned(heap) \subseteq Unowned(heap')
           /\ Unowned(heap') # Unowned(heap) =>
                  last'.refused \/ last'.op \in {"element", "increment", "dotfilter"}]_vars
    BY StepKeeps DEF LosesKnown
  <1> QED BY <1>1, VariablesInductive, PTL DEF Spec, LeaksAreKnown
=============================================================================

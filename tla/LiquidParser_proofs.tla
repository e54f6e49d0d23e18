--------------------------- MODULE LiquidParser_proofs ---------------------------
(***************************************************************************)
(* What LiquidParser keeps of its stack of nodes, for every text and every *)
(* context.                                                                *)
(*                                                                         *)
(* A handler may change every member of the parser, so the proofs follow   *)
(* three relations between the parser before a call and after it.  Kept:   *)
(* the members a handler of arguments leaves alone.  Answers: inside a     *)
(* block, a handler leaves the block open, its arguments on the stack, or  *)
(* stops the parser with a report.  Closes: the end of a block leads back  *)
(* to the stack between blocks, or is reported.  Somewhere says where in a *)
(* text the parser is between two tokens, and Lies that the nodes on its   *)
(* stack are, two for each, the tags its text has opened and not ended.    *)
(* For texts whose tags are not named only Goes is claimed: the stack is   *)
(* never empty.                                                            *)
(***************************************************************************)
EXTENDS LiquidParser, TLAPS, SequenceTheorems, FiniteSetTheorems

-----------------------------------------------------------------------------
(* Numbers: induction as a fact about sets, for what PopWhile repeats.     *)

LEMMA LeastNumber ==
  ASSUME NEW T \in SUBSET Nat, T # {}
  PROVE  \E m \in T : \A n \in T : m <= n
  <1> DEFINE R == StrictSubsetOrdering(Nat)
             X == {0..t : t \in T}
  <1>1. X \subseteq FiniteSubsetsOf(Nat) /\ X # {}
    <2>1. \A t \in T : IsFiniteSet(0..t)
      BY FS_Interval
    <2>2. \A t \in T : 0..t \in SUBSET Nat
      OBVIOUS
    <2>3. \A x \in X : x \in SUBSET Nat /\ IsFiniteSet(x)
      BY <2>1, <2>2
    <2>4. X # {}
      OBVIOUS
    <2> HIDE DEF X
    <2> QED BY <2>3, <2>4, Zenon DEF FiniteSubsetsOf
  <1>2. IsWellFoundedOn(R, FiniteSubsetsOf(Nat))
    BY FS_StrictSubsetOrderingWellFounded
  <1> HIDE DEF R
  <1>3. \E x \in X : \A y \in X : ~ (<<y, x>> \in R)
    <2> HIDE DEF X
    <2> QED BY <1>1, <1>2, WFMin
  <1>4. PICK m \in T : \A n \in T : <<0..n, 0..m>> \notin R
    BY <1>3
  <1>5. ASSUME NEW n \in T, n < m PROVE FALSE
    <2>1. 0..n \subseteq Nat /\ 0..m \subseteq Nat /\ 0..n \subseteq 0..m /\ m \in 0..m /\ m \notin 0..n
      BY <1>5
    <2>2. <<0..n, 0..m>> \in R
      BY <2>1 DEF R, StrictSubsetOrdering
    <2> QED BY <1>4, <2>2
  <1> QED BY <1>5

LEMMA Counting ==
  ASSUME NEW S \in SUBSET Nat, 0 \in S, \A n \in S : n + 1 \in S
  PROVE  S = Nat
  <1> SUFFICES ASSUME Nat \ S # {} PROVE FALSE
    OBVIOUS
  <1>1. PICK m \in Nat \ S : \A n \in Nat \ S : m <= n
    BY LeastNumber
  <1>2. m - 1 \in Nat /\ ~(m <= m - 1)
    BY <1>1
  <1>3. m - 1 \in S /\ m = m - 1 + 1
    BY <1>1, <1>2
  <1> QED BY <1>1, <1>3

-----------------------------------------------------------------------------
(* Nodes and stacks of nodes.                                              *)

IsNode(n)  == n = [type |-> n.type, sym |-> n.sym, kids |-> n.kids]
IsStack(s) == (\E S : s \in Seq(S)) /\ \A j \in 1..Len(s) : IsNode(s[j])
HasKids(n) == \E S : n.kids \in Seq(S)

LEMMA StackIsLong ==
  ASSUME NEW s, IsStack(s) PROVE Len(s) \in Nat
  BY LenProperties DEF IsStack

LEMMA Pushed ==
  ASSUME NEW s, IsStack(s), NEW n, IsNode(n)
  PROVE  LET t == Append(s, n)
         IN  /\ IsStack(t) /\ Len(t) = Len(s) + 1
             /\ \A j \in 1..Len(s) : t[j] = s[j]
             /\ t[Len(s) + 1] = n
  <1> DEFINE t == Append(s, n)
  <1>1. PICK S : s \in Seq(S)
    BY DEF IsStack
  <1>2. s \in Seq(S \cup {n}) /\ Len(s) \in Nat
    BY <1>1
  <1>3. /\ t \in Seq(S \cup {n}) /\ Len(t) = Len(s) + 1
        /\ \A j \in 1..Len(s) : t[j] = s[j]
        /\ t[Len(s) + 1] = n
    BY <1>2
  <1>4. \A j \in 1..Len(t) : IsNode(t[j])
    BY <1>2, <1>3 DEF IsStack
  <1> HIDE DEF t
  <1>5. IsStack(t)
    BY <1>3, <1>4 DEF IsStack
  <1> QED BY <1>3, <1>5 DEF t

LEMMA Fronted ==
  ASSUME NEW s, IsStack(s), Len(s) >= 1
  PROVE  /\ IsStack(Front(s)) /\ Len(Front(s)) = Len(s) - 1
         /\ \A j \in 1..(Len(s) - 1) : Front(s)[j] = s[j]
  <1> DEFINE n == Len(s)
             t == Front(s)
  <1>1. PICK S : s \in Seq(S)
    BY DEF IsStack
  <1>2. n \in Nat /\ n >= 1
    BY <1>1
  <1>3. /\ t \in Seq(S) /\ Len(t) = n - 1
        /\ \A j \in 1..(n - 1) : t[j] = s[j]
    <2>1. \A j \in 1..(n - 1) : s[j] \in S
      BY <1>1, <1>2
    <2>2. t = SubSeq(s, 1, n - 1)
      BY DEF Front
    <2> HIDE DEF n, t
    <2>3. /\ SubSeq(s, 1, n - 1) \in Seq(S)
          /\ Len(SubSeq(s, 1, n - 1)) = IF 1 <= n - 1 THEN n - 1 - 1 + 1 ELSE 0
          /\ \A j \in 1..(n - 1 - 1 + 1) : SubSeq(s, 1, n - 1)[j] = s[1 + j - 1]
      <3>1. 1 \in Int /\ n - 1 \in Int
        BY <1>2
      <3> QED BY <2>1, <3>1, SubSeqProperties
    <2>4. \A j \in 1..(n - 1) : j \in 1..(n - 1 - 1 + 1) /\ 1 + j - 1 = j
      BY <1>2
    <2> QED BY <1>2, <2>2, <2>3, <2>4
  <1>4. \A j \in 1..Len(t) : IsNode(t[j])
    BY <1>2, <1>3 DEF IsStack
  <1> HIDE DEF n, t
  <1>5. IsStack(t)
    BY <1>3, <1>4 DEF IsStack
  <1> QED BY <1>3, <1>5 DEF n, t

LEMMA Replaced ==
  ASSUME NEW s, IsStack(s), Len(s) >= 1, NEW n, IsNode(n)
  PROVE  LET t == Append(Front(s), n)
         IN  /\ IsStack(t) /\ Len(t) = Len(s)
             /\ \A j \in 1..(Len(s) - 1) : t[j] = s[j]
             /\ t[Len(s)] = n
  <1>1. /\ IsStack(Front(s)) /\ Len(Front(s)) = Len(s) - 1
        /\ \A j \in 1..(Len(s) - 1) : Front(s)[j] = s[j]
    BY Fronted
  <1>2. Len(s) \in Nat
    BY StackIsLong
  <1> HIDE DEF IsStack
  <1> QED BY <1>1, <1>2, Pushed

(* Nodes. *)

LEMMA Given ==
  ASSUME NEW n, IsNode(n), NEW kid
  PROVE  /\ IsNode(Give(n, kid)) /\ Give(n, kid).type = n.type /\ Give(n, kid).sym = n.sym
         /\ HasKids(n) => HasKids(Give(n, kid))
         /\ HasKids(n) /\ kid = Null => Waits(Give(n, kid))
  <1>1. /\ IsNode(Give(n, kid)) /\ Give(n, kid).type = n.type /\ Give(n, kid).sym = n.sym
        /\ Give(n, kid).kids = Append(n.kids, kid)
    BY DEF IsNode, Give
  <1>2. ASSUME HasKids(n)
        PROVE  HasKids(Give(n, kid)) /\ (kid = Null => Waits(Give(n, kid)))
    <2>1. PICK S : n.kids \in Seq(S)
      BY <1>2 DEF HasKids
    <2>2. n.kids \in Seq(S \cup {kid})
      BY <2>1
    <2>3. Append(n.kids, kid) \in Seq(S \cup {kid})
      BY <2>2
    <2>4. Append(n.kids, kid) # <<>> /\ Last(Append(n.kids, kid)) = kid
      BY <2>2 DEF Last
    <2> QED BY <1>1, <2>3, <2>4 DEF HasKids, Waits
  <1> QED BY <1>1, <1>2

LEMMA Filled ==
  ASSUME NEW n, IsNode(n), Waits(n), NEW kid
  PROVE  /\ IsNode(Fill(n, kid)) /\ Fill(n, kid).type = n.type /\ Fill(n, kid).sym = n.sym
         /\ HasKids(n) => HasKids(Fill(n, kid))
  <1>1. /\ IsNode(Fill(n, kid)) /\ Fill(n, kid).type = n.type /\ Fill(n, kid).sym = n.sym
        /\ Fill(n, kid).kids = Append(Front(n.kids), kid)
    BY DEF IsNode, Fill
  <1>2. ASSUME HasKids(n)
        PROVE  HasKids(Fill(n, kid))
    <2>1. PICK S : n.kids \in Seq(S)
      BY <1>2 DEF HasKids
    <2>2. n.kids # <<>>
      BY DEF Waits
    <2>3. n.kids \in Seq(S \cup {kid})
      BY <2>1
    <2>4. Front(n.kids) \in Seq(S \cup {kid})
      BY <2>2, <2>3 DEF Front
    <2>5. Append(Front(n.kids), kid) \in Seq(S \cup {kid})
      BY <2>4
    <2> QED BY <1>1, <2>5 DEF HasKids
  <1> QED BY <1>1, <1>2

LEMMA MadeAwaiting ==
  ASSUME NEW type, NEW sym
  PROVE  IsNode(Awaiting(type, sym)) /\ Awaiting(type, sym).type = type /\ Awaiting(type, sym).sym = sym
  BY DEF IsNode, Awaiting, Node

LEMMA Made ==
  ASSUME NEW type, NEW sym, NEW kids
  PROVE  IsNode(Node(type, sym, kids)) /\ Node(type, sym, kids).type = type /\ Node(type, sym, kids).kids = kids
  BY DEF IsNode, Node

-----------------------------------------------------------------------------
(* The members of the parser, and stacks with fewer nodes.                  *)

Members == {"nodes", "errors", "ok", "state", "filterState", "blockType", "lexing", "start", "halt",
            "limit", "grouping", "arrays"}
IsParser(p) == p = [m \in Members |-> p[m]]
Standing(p) == IsParser(p) /\ IsStack(p.nodes) /\ Len(p.nodes) >= 1

\* What a handler of arguments leaves alone; it may give up the rest of the block.
Kept(p, q) ==
  /\ IsParser(q)
  /\ p.errors \subseteq q.errors
  /\ q.state \in {p.state, "IGNORE_UNTIL_BLOCK_END"}
  /\ q.blockType = p.blockType /\ q.lexing = p.lexing /\ q.start = p.start

\* The first m nodes are left, the last of them perhaps with other children.
Shrunk(s, t, m) ==
  /\ IsStack(t) /\ m \in 1..Len(s) /\ Len(t) = m
  /\ \A j \in 1..(m - 1) : t[j] = s[j]
  /\ t[m].type = s[m].type /\ t[m].sym = s[m].sym
  /\ HasKids(s[m]) => HasKids(t[m])

LEMMA StackSet ==
  ASSUME NEW p, IsParser(p), NEW s
  PROVE  LET q == [p EXCEPT !.nodes = s]
         IN  Kept(p, q) /\ q.nodes = s /\ q.ok = p.ok /\ q.errors = p.errors /\ q.state = p.state
  BY DEF IsParser, Members, Kept

LEMMA OkSet ==
  ASSUME NEW p, IsParser(p), NEW b
  PROVE  LET q == [p EXCEPT !.ok = b]
         IN  Kept(p, q) /\ q.nodes = p.nodes /\ q.ok = b /\ q.errors = p.errors
  BY DEF IsParser, Members, Kept

LEMMA FilterSet ==
  ASSUME NEW p, IsParser(p), NEW b
  PROVE  LET q == [p EXCEPT !.filterState = b]
         IN  Kept(p, q) /\ q.nodes = p.nodes /\ q.ok = p.ok /\ q.errors = p.errors
  BY DEF IsParser, Members, Kept

LEMMA Failed ==
  ASSUME NEW p, IsParser(p), NEW e
  PROVE  LET q == Fail(p, e)
         IN  Kept(p, q) /\ q.nodes = p.nodes /\ ~q.ok /\ e \in q.errors
  BY DEF IsParser, Members, Kept, Fail

LEMMA Regarded ==
  ASSUME NEW p, IsParser(p)
  PROVE  LET q == Regardless(p)
         IN  Kept(p, q) /\ q.nodes = p.nodes /\ q.errors = p.errors /\ (q.errors = {} => q.ok)
  BY DEF IsParser, Members, Kept, Regardless

LEMMA KeptTwice ==
  ASSUME NEW p, NEW q, NEW r, Kept(p, q), Kept(q, r)
  PROVE  Kept(p, r)
  BY DEF Kept

LEMMA NothingShrunk ==
  ASSUME NEW s, IsStack(s), Len(s) >= 1
  PROVE  Shrunk(s, s, Len(s))
  BY StackIsLong DEF Shrunk

LEMMA ShrunkTwice ==
  ASSUME NEW s, NEW t, NEW u, NEW m, NEW n, IsStack(s), Shrunk(s, t, m), Shrunk(t, u, n)
  PROVE  Shrunk(s, u, n)
  <1>1. Len(s) \in Nat /\ m \in 1..Len(s) /\ n \in 1..m
    BY StackIsLong DEF Shrunk
  <1>2. CASE n = m
    BY <1>1, <1>2 DEF Shrunk
  <1>3. CASE n < m
    BY <1>1, <1>3 DEF Shrunk
  <1> QED BY <1>1, <1>2, <1>3

(* A pop takes the top off, whatever it finds, but for the last node. *)
LEMMA LastStays ==
  ASSUME NEW p, Standing(p), Len(p.nodes) = 1
  PROVE  Kept(p, PopNode(p)) /\ PopNode(p).nodes = p.nodes /\ ~PopNode(p).ok
  <1>1. PopNode(p) = [p EXCEPT !.ok = FALSE]
    BY DEF PopNode
  <1>2. IsParser(p)
    BY DEF Standing
  <1> QED BY <1>1, <1>2, OkSet

LEMMA Popping ==
  ASSUME NEW p, Standing(p), Len(p.nodes) > 1
  PROVE  Kept(p, PopNode(p)) /\ Shrunk(p.nodes, PopNode(p).nodes, Len(p.nodes) - 1)
  <1> DEFINE s == p.nodes
             n == Len(s)
             q == PopNode(p)
             popped == [p EXCEPT !.nodes = Front(s)]
             kept == IF Waits(Top(p)) THEN [Top(p) EXCEPT !.kids = Front(@)] ELSE Top(p)
             bad == Validates(Top(p)) \/ Top(popped).type = "value"
             top == Top(popped)
             full == Fill(top, kept)
  <1>1. IsParser(p) /\ IsStack(s) /\ n \in Nat /\ n > 1
    BY StackIsLong DEF Standing
  <1>2. /\ n <= 1 => q = [p EXCEPT !.ok = FALSE]
        /\ ~(n <= 1) /\ bad => q = Fail(popped, "undefined")
        /\ ~(n <= 1) /\ ~bad /\ ~Waits(top) => q = [popped EXCEPT !.ok = FALSE]
        /\ ~(n <= 1) /\ ~bad /\ Waits(top) => q = SetTop(popped, full)
    BY DEF PopNode, Undefined
  <1>3. /\ IsStack(Front(s)) /\ Len(Front(s)) = n - 1
        /\ \A j \in 1..(n - 1) : Front(s)[j] = s[j]
    BY <1>1, Fronted
  <1>4. Kept(p, popped) /\ popped.nodes = Front(s) /\ IsParser(popped)
    BY <1>1, StackSet DEF Kept
  <1>5. top = s[n - 1] /\ IsNode(top)
    BY <1>1, <1>3, <1>4 DEF Top, Last, IsStack
  <1>6. SetTop(popped, full) = [popped EXCEPT !.nodes = Append(Front(Front(s)), full)]
    BY <1>4 DEF SetTop
  <1>7. Waits(top) => IsNode(full) /\ full.type = top.type /\ full.sym = top.sym /\ (HasKids(top) => HasKids(full))
    BY <1>5, Filled
  <1>8. ~(n <= 1) /\ n - 1 \in Nat /\ n - 1 >= 1 /\ n - 1 \in 1..n
    BY <1>1
  <1> HIDE DEF s, n, q, popped, kept, bad, top, full
  <1>9. Shrunk(s, Front(s), n - 1)
    BY <1>3, <1>8 DEF Shrunk, n
  <1>10. CASE ~(bad \/ Waits(top)) \/ bad
    <2>1. q = Fail(popped, "undefined") \/ q = [popped EXCEPT !.ok = FALSE]
      BY <1>2, <1>8, <1>10
    <2>2. Kept(popped, q) /\ q.nodes = Front(s)
      <3>1. CASE q = Fail(popped, "undefined")
        BY <1>4, <3>1, Failed
      <3>2. CASE q = [popped EXCEPT !.ok = FALSE]
        BY <1>4, <3>2, OkSet
      <3> QED BY <2>1, <3>1, <3>2
    <2>3. Kept(p, q) /\ Shrunk(s, q.nodes, n - 1)
      BY <1>4, <1>9, <2>2, KeptTwice
    <2> QED BY <2>3 DEF s, n, q
  <1>11. CASE ~bad /\ Waits(top)
    <2> DEFINE t == Append(Front(Front(s)), full)
    <2>1. q = [popped EXCEPT !.nodes = t]
      BY <1>2, <1>6, <1>8, <1>11
    <2>2. /\ IsStack(t) /\ Len(t) = Len(Front(s)) /\ t[Len(Front(s))] = full
          /\ \A j \in 1..(Len(Front(s)) - 1) : t[j] = Front(s)[j]
      BY <1>3, <1>7, <1>8, <1>11, Replaced
    <2> HIDE DEF t
    <2>3. Kept(popped, q) /\ q.nodes = t
      BY <1>4, <2>1, StackSet
    <2>4. \A j \in 1..(n - 2) : j \in 1..(n - 1) /\ j \in 1..(n - 1 - 1)
      BY <1>1
    <2>5. \A j \in 1..(n - 2) : t[j] = s[j]
      BY <1>3, <2>2, <2>4
    <2>6. t[n - 1] = full /\ n - 1 - 1 = n - 2
      BY <1>1, <1>3, <2>2
    <2>7. Shrunk(s, t, n - 1)
      BY <1>3, <1>5, <1>7, <1>8, <1>11, <2>2, <2>5, <2>6 DEF Shrunk, n
    <2>8. Kept(p, q) /\ Shrunk(s, q.nodes, n - 1)
      BY <1>4, <2>3, <2>7, KeptTwice
    <2> QED BY <2>8 DEF s, n, q
  <1> QED BY <1>10, <1>11

Pops(p) == CHOOSE f : f = [k \in 0..Len(p.nodes) |-> IF k = 0 THEN p ELSE PopNode(f[k - 1])]

LEMMA PopsDef ==
  ASSUME NEW p, Len(p.nodes) \in Nat
  PROVE  Pops(p) = [k \in 0..Len(p.nodes) |-> IF k = 0 THEN p ELSE PopNode(Pops(p)[k - 1])]
  <1> DEFINE Is(f, n) == f = [k \in 0..n |-> IF k = 0 THEN p ELSE PopNode(f[k - 1])]
             S == {n \in Nat : \E f : Is(f, n)}
  <1>1. 0 \in S
    <2> DEFINE f == [k \in 0..0 |-> p]
    <2>1. Is(f, 0)
      OBVIOUS
    <2> QED BY <2>1
  <1>2. ASSUME NEW n \in S PROVE n + 1 \in S
    <2>1. PICK f : Is(f, n)
      OBVIOUS
    <2> DEFINE g == [k \in 0..(n + 1) |-> IF k <= n THEN f[k] ELSE PopNode(f[n])]
    <2>2. ASSUME NEW k \in 0..(n + 1)
          PROVE  g[k] = IF k = 0 THEN p ELSE PopNode(g[k - 1])
      <3>1. CASE k = 0
        BY <2>1, <3>1
      <3>2. CASE k # 0 /\ k <= n
        <4>1. k - 1 \in 0..n /\ k \in 0..n /\ k - 1 \in 0..(n + 1) /\ k - 1 <= n
          BY <3>2
        <4>2. g[k] = f[k] /\ g[k - 1] = f[k - 1]
          BY <3>2, <4>1
        <4>3. f[k] = PopNode(f[k - 1])
          BY <2>1, <3>2, <4>1
        <4> QED BY <3>2, <4>2, <4>3
      <3>3. CASE k = n + 1
        <4>1. k # 0 /\ k - 1 = n /\ n \in 0..(n + 1) /\ n <= n /\ ~(k <= n)
          BY <3>3
        <4>2. g[k] = PopNode(f[n]) /\ g[n] = f[n]
          BY <4>1
        <4> QED BY <4>1, <4>2
      <3> QED BY <3>1, <3>2, <3>3
    <2>3. Is(g, n + 1)
      <3>1. DOMAIN g = 0..(n + 1) /\ g = [k \in 0..(n + 1) |-> g[k]]
        OBVIOUS
      <3> HIDE DEF g
      <3> QED BY <2>2, <3>1
    <2> HIDE DEF g, Is
    <2> QED BY <2>3
  <1> HIDE DEF Is
  <1>3. S = Nat
    <2> HIDE DEF S
    <2> QED BY <1>1, <1>2, Counting DEF S
  <1>4. \E f : Is(f, Len(p.nodes))
    BY <1>3
  <1> QED BY <1>4 DEF Is, Pops

LEMMA KeptNothing ==
  ASSUME NEW p, IsParser(p)
  PROVE  Kept(p, p)
  BY DEF Kept

LEMMA StandsShrunk ==
  ASSUME NEW p, NEW q, NEW s, NEW m, IsStack(s), Kept(p, q), Shrunk(s, q.nodes, m)
  PROVE  Standing(q) /\ Len(q.nodes) = m
  BY StackIsLong DEF Kept, Shrunk, Standing

\* After k pops k nodes are gone; the last one always stays.
\* k pops take k nodes, and the last node stays, with the parser stopped.
LEMMA PopsKeep ==
  ASSUME NEW p, Standing(p), NEW k \in 0..Len(p.nodes)
  PROVE  /\ Kept(p, Pops(p)[k])
         /\ k < Len(p.nodes) => Shrunk(p.nodes, Pops(p)[k].nodes, Len(p.nodes) - k)
         /\ k = Len(p.nodes) => Shrunk(p.nodes, Pops(p)[k].nodes, 1) /\ ~Pops(p)[k].ok
  <1> DEFINE s == p.nodes
             n == Len(s)
             f == Pops(p)
             Good(j) == /\ Kept(p, f[j])
                        /\ j < n => Shrunk(s, f[j].nodes, n - j)
                        /\ j = n => Shrunk(s, f[j].nodes, 1) /\ ~f[j].ok
             S == {j \in Nat : j <= n => Good(j)}
  <1>1. IsParser(p) /\ IsStack(s) /\ n \in Nat /\ n >= 1
    BY StackIsLong DEF Standing
  <1>2. f[0] = p /\ \A j \in 0..(n - 1) : f[j + 1] = PopNode(f[j])
    <2>1. f = [j \in 0..n |-> IF j = 0 THEN p ELSE PopNode(f[j - 1])]
      BY <1>1, PopsDef
    <2> HIDE DEF f, n
    <2>2. 0 \in 0..n
      BY <1>1
    <2>3. f[0] = p
      BY <2>1, <2>2
    <2>4. ASSUME NEW j \in 0..(n - 1) PROVE f[j + 1] = PopNode(f[j])
      <3>1. j + 1 \in 0..n /\ j + 1 # 0 /\ j + 1 - 1 = j
        BY <1>1
      <3> DEFINE i == j + 1
      <3>0. i \in 0..n /\ i # 0
        BY <3>1
      <3> HIDE DEF i
      <3>2. f[i] = PopNode(f[i - 1])
        BY <2>1, <3>0, Zenon
      <3> QED BY <3>1, <3>2 DEF i
    <2> QED BY <2>3, <2>4
  <1> HIDE DEF s, n, f
  <1>3. 0 \in S
    <2>1. Kept(p, p) /\ Shrunk(s, s, n)
      BY <1>1, KeptNothing, NothingShrunk DEF n
    <2>2. n - 0 = n /\ 0 < n /\ 0 # n
      BY <1>1
    <2> QED BY <1>2, <2>1, <2>2 DEF s
  <1>4. ASSUME NEW j \in S PROVE j + 1 \in S
    <2> SUFFICES ASSUME j + 1 <= n PROVE Good(j + 1)
      OBVIOUS
    <2>1. j \in 0..(n - 1) /\ j < n /\ j <= n /\ n - j \in Nat /\ n - j >= 1
      BY <1>1
    <2> DEFINE q == f[j]
               r == f[j + 1]
    <2>2. Kept(p, q) /\ Shrunk(s, q.nodes, n - j) /\ r = PopNode(q)
      BY <1>2, <2>1
    <2>3. Standing(q) /\ Len(q.nodes) = n - j
      BY <1>1, <2>2, StandsShrunk
    <2> HIDE DEF q, r
    <2>4. CASE j + 1 = n
      <3>1. Len(q.nodes) = 1
        BY <1>1, <2>3, <2>4
      <3>2. Kept(q, r) /\ r.nodes = q.nodes /\ ~r.ok
        BY <2>2, <2>3, <3>1, LastStays
      <3>3. Kept(p, r) /\ Shrunk(s, r.nodes, 1)
        BY <2>2, <2>3, <3>1, <3>2, KeptTwice
      <3> QED BY <2>1, <2>4, <3>2, <3>3 DEF r
    <2>5. CASE j + 1 < n
      <3>1. Len(q.nodes) > 1 /\ Len(q.nodes) - 1 = n - (j + 1) /\ j + 1 # n
        BY <1>1, <2>1, <2>3, <2>5
      <3>2. Kept(q, r) /\ Shrunk(q.nodes, r.nodes, n - (j + 1))
        BY <2>2, <2>3, <3>1, Popping
      <3>3. Kept(p, r) /\ Shrunk(s, r.nodes, n - (j + 1))
        BY <1>1, <2>2, <3>2, KeptTwice, ShrunkTwice
      <3> QED BY <3>1, <3>3 DEF r
    <2> QED BY <1>1, <2>1, <2>4, <2>5
  <1>5. S = Nat
    <2>1. S \in SUBSET Nat
      OBVIOUS
    <2> HIDE DEF S
    <2> QED BY <1>3, <1>4, <2>1, Counting
  <1>6. k \in Nat /\ k <= n
    BY <1>1 DEF n, s
  <1>7. Good(k)
    BY <1>5, <1>6
  <1> QED BY <1>7 DEF s, n, f

\* What is left when pops end at the first node of a type.
\* popNodeUntil stops at the nearest node of the type, or with the parser stopped.
LEMMA PopUntil ==
  ASSUME NEW p, Standing(p), NEW type, NEW q, q = PopNodeUntil(p, type)
  PROVE  /\ Kept(p, q)
         /\ \E m \in 1..Len(p.nodes) :
              /\ Shrunk(p.nodes, q.nodes, m)
              /\ \A j \in (m + 1)..Len(p.nodes) : p.nodes[j].type # type
              /\ q.ok => p.nodes[m].type = type
  <1> DEFINE s == p.nodes
             n == Len(s)
             f == Pops(p)
             Stops(r) == ~r.ok \/ Top(r).type = type
             K == {k \in 0..n : Stops(f[k])}
             First(k) == Stops(f[k]) /\ \A j \in 0..(k - 1) : ~Stops(f[j])
             k == CHOOSE k \in 0..n : First(k)
  <1>1. q = f[k]
    BY DEF PopNodeUntil, PopWhile, Pops
  <1>2. IsStack(s) /\ n \in Nat /\ n >= 1
    BY StackIsLong DEF Standing
  <1>3. ASSUME NEW j \in 0..n
        PROVE  /\ Kept(p, f[j])
               /\ j < n => Shrunk(s, f[j].nodes, n - j)
               /\ j = n => Shrunk(s, f[j].nodes, 1) /\ ~f[j].ok
    BY PopsKeep
  <1> HIDE DEF s, n, f
  <1>4. n \in K
    BY <1>2, <1>3
  <1>5. \E j \in K : \A i \in K : j <= i
    <2>1. K \in SUBSET Nat /\ K # {}
      BY <1>2, <1>4
    <2> HIDE DEF K
    <2> QED BY <2>1, LeastNumber
  <1>6. \E j \in 0..n : First(j)
    BY <1>2, <1>5
  <1>7. k \in 0..n /\ First(k)
    <2> HIDE DEF First
    <2> QED BY <1>6
  <1> HIDE DEF k
  <1>8. Kept(p, q)
    BY <1>1, <1>3, <1>7
  \* The top after fewer pops.
  <1>9. ASSUME NEW j \in 0..(k - 1)
        PROVE  f[j].ok /\ n - j \in 1..n /\ s[n - j].type # type
    <2>1. j \in 0..n /\ j < n /\ n - j \in 1..n
      BY <1>2, <1>7
    <2>2. Kept(p, f[j]) /\ Shrunk(s, f[j].nodes, n - j)
      BY <1>3, <2>1
    <2>3. Top(f[j]).type = s[n - j].type
      BY <2>2 DEF Top, Last, Shrunk
    <2>4. ~Stops(f[j])
      BY <1>7
    <2> QED BY <2>1, <2>3, <2>4
  <1>10. CASE k < n
    <2> DEFINE m == n - k
    <2>1. Shrunk(s, q.nodes, m) /\ m \in 1..n
      BY <1>1, <1>2, <1>3, <1>7, <1>10
    <2>2. ASSUME NEW j \in (m + 1)..n PROVE s[j].type # type
      <3>1. n - j \in 0..(k - 1) /\ n - (n - j) = j
        BY <1>2, <1>7, <1>10
      <3> QED BY <1>9, <3>1
    <2>3. q.ok => s[m].type = type
      <3>1. Top(q).type = s[m].type
        BY <2>1 DEF Top, Last, Shrunk
      <3> QED BY <1>1, <1>7, <3>1
    <2> HIDE DEF m
    <2> QED BY <1>8, <2>1, <2>2, <2>3 DEF s, n
  <1>11. CASE k = n
    <2>1. Shrunk(s, q.nodes, 1) /\ ~q.ok
      BY <1>1, <1>3, <1>7, <1>11
    <2>2. ASSUME NEW j \in (1 + 1)..n PROVE s[j].type # type
      <3>1. n - j \in 0..(k - 1) /\ n - (n - j) = j
        BY <1>2, <1>7, <1>11
      <3> QED BY <1>9, <3>1
    <2>3. 1 \in 1..n
      BY <1>2
    <2> QED BY <1>8, <2>1, <2>2, <2>3 DEF s, n
  <1>12. k < n \/ k = n
    BY <1>2, <1>7
  <1> QED BY <1>10, <1>11, <1>12

\* The operands of a filter are what is left of the operators that bind it.
\* The operators a filter closes before it takes its operand.
LeftOperand(p) == PopWhile(p, LAMBDA q : Len(q.nodes) <= 2 \/ ~Binds(q, 0))

LEMMA PopOperators ==
  ASSUME NEW p, Standing(p), NEW q, q = LeftOperand(p)
  PROVE  /\ Kept(p, q)
         /\ \E m \in 1..Len(p.nodes) :
              /\ Shrunk(p.nodes, q.nodes, m)
              /\ m = Len(p.nodes) \/ p.nodes[m].type \in {"operator", "prefix"}
  <1> DEFINE s == p.nodes
             n == Len(s)
             f == Pops(p)
             Stops(r) == Len(r.nodes) <= 2 \/ ~Binds(r, 0)
             K == {k \in 0..n : Stops(f[k])}
             First(k) == Stops(f[k]) /\ \A j \in 0..(k - 1) : ~Stops(f[j])
             k == CHOOSE k \in 0..n : First(k)
  <1>1. q = f[k]
    BY DEF LeftOperand, PopWhile, Pops
  <1>2. IsStack(s) /\ n \in Nat /\ n >= 1
    BY StackIsLong DEF Standing
  <1>3. ASSUME NEW j \in 0..n
        PROVE  /\ Kept(p, f[j])
               /\ j < n => Shrunk(s, f[j].nodes, n - j)
               /\ j = n => Shrunk(s, f[j].nodes, 1) /\ ~f[j].ok
    BY PopsKeep
  <1> HIDE DEF s, n, f
  <1>4. n \in K
    <2>1. Len(f[n].nodes) = 1
      BY <1>2, <1>3 DEF Shrunk
    <2>2. Stops(f[n])
      BY <2>1
    <2>3. n \in 0..n
      BY <1>2
    <2> HIDE DEF Stops
    <2> QED BY <2>2, <2>3
  <1>5. \E j \in K : \A i \in K : j <= i
    <2>1. K \in SUBSET Nat /\ K # {}
      BY <1>2, <1>4
    <2> HIDE DEF K
    <2> QED BY <2>1, LeastNumber
  <1>6. \E j \in 0..n : First(j)
    BY <1>2, <1>5
  <1>7. k \in 0..n /\ First(k)
    <2> HIDE DEF First
    <2> QED BY <1>6
  <1> HIDE DEF k
  <1>8. Kept(p, q)
    BY <1>1, <1>3, <1>7
  <1>9. CASE k = 0
    BY <1>1, <1>2, <1>3, <1>7, <1>8, <1>9 DEF n, s
  <1>10. CASE k > 0
    <2> DEFINE r == f[k - 1]
               m == n - k
    <2>1. k - 1 \in 0..n /\ k - 1 < n /\ k - 1 \in 0..(k - 1) /\ n - (k - 1) = m + 1
      BY <1>2, <1>7, <1>10
    <2>2. Shrunk(s, r.nodes, m + 1)
      BY <1>3, <2>1
    <2>3. Len(r.nodes) = m + 1 /\ m + 1 > 2
      <3>1. ~(Len(r.nodes) <= 2)
        BY <1>7, <2>1
      <3> QED BY <2>1, <2>2, <3>1 DEF Shrunk
    <2>4. Binds(r, 0)
      BY <1>7, <2>1
    <2>5. k < n /\ m \in 1..n /\ m \in 1..(m + 1 - 1) /\ m + 1 - 1 = m
      BY <1>2, <1>7, <1>10, <2>3
    <2>6. r.nodes[m].type \in {"operator", "prefix"}
      BY <2>3, <2>4, <2>5 DEF Binds, Under
    <2>7. s[m].type \in {"operator", "prefix"}
      BY <2>2, <2>5, <2>6 DEF Shrunk
    <2>8. Shrunk(s, q.nodes, m)
      BY <1>1, <1>3, <1>7, <2>5
    <2> HIDE DEF m
    <2> QED BY <1>8, <2>5, <2>7, <2>8 DEF s, n
  <1> QED BY <1>2, <1>7, <1>9, <1>10

-----------------------------------------------------------------------------
(* Between blocks all open nodes are tags and their bodies; in a block the   *)
(* node of the block, its arguments and what they hold are above them.       *)

Outer       == {"concat", "tag"}
Inner(type) == type \notin {"concat", "tag", "output"}

\* The stack between blocks.
Blocks(s) == IsStack(s) /\ Len(s) >= 1 /\ \A j \in 1..Len(s) : s[j].type \in Outer

\* The stack in a block: node i is the block's, the next one its arguments.
Opens(s, i, base) ==
  /\ IsStack(s) /\ i \in 2..(Len(s) - 1) /\ base[i].type \in {"tag", "output"}
  /\ \A j \in 1..(i - 1) : s[j].type \in Outer
  /\ \A j \in 1..i : s[j] = base[j]
  /\ s[i + 1].type = "arguments" /\ HasKids(s[i + 1])
  /\ \A j \in (i + 1)..Len(s) : Inner(s[j].type)
  /\ Len(s) >= i + 2 => s[i + 2].type # "deref"

LEMMA OpensShrunk ==
  ASSUME NEW s, NEW i, NEW base, Opens(s, i, base), NEW t, NEW m, Shrunk(s, t, m), m >= i + 1
  PROVE  Opens(t, i, base)
  <1>1. Len(s) \in Nat /\ i \in 2..(Len(s) - 1) /\ m \in 1..Len(s) /\ m >= i + 1 /\ i \in Nat
    BY StackIsLong DEF Opens, Shrunk
  <1>2. IsStack(t) /\ Len(t) = m /\ \A j \in 1..(m - 1) : t[j] = s[j]
    BY DEF Shrunk
  <1>3. i \in 2..(m - 1) /\ \A j \in 1..i : t[j] = s[j]
    BY <1>1, <1>2
  <1>4. \A j \in (i + 1)..m : t[j].type = s[j].type /\ (HasKids(s[j]) => HasKids(t[j]))
    BY <1>1 DEF Shrunk
  <1>5. \A j \in 1..(i - 1) : t[j].type \in Outer
    BY <1>1, <1>3 DEF Opens
  <1>6. (\A j \in 1..i : t[j] = base[j]) /\ base[i].type \in {"tag", "output"}
    BY <1>1, <1>3 DEF Opens
  <1>7. t[i + 1].type = "arguments" /\ HasKids(t[i + 1])
    BY <1>1, <1>4 DEF Opens
  <1>8. \A j \in (i + 1)..m : Inner(t[j].type)
    BY <1>1, <1>4 DEF Opens
  <1>9. m >= i + 2 => t[i + 2].type # "deref"
    BY <1>1, <1>4 DEF Opens
  <1> QED BY <1>2, <1>3, <1>5, <1>6, <1>7, <1>8, <1>9 DEF Opens

LEMMA OpensPushed ==
  ASSUME NEW s, NEW i, NEW base, Opens(s, i, base), NEW n, IsNode(n), Inner(n.type),
         n.type = "deref" => Len(s) >= i + 2
  PROVE  Opens(Append(s, n), i, base) /\ Len(Append(s, n)) >= i + 2
  <1> DEFINE t == Append(s, n)
             l == Len(s)
  <1>1. IsStack(s) /\ l \in Nat /\ i \in 2..(l - 1) /\ i \in Nat
    BY StackIsLong DEF Opens
  <1>2. IsStack(t) /\ Len(t) = l + 1 /\ t[l + 1] = n /\ \A j \in 1..l : t[j] = s[j]
    BY <1>1, Pushed
  <1> HIDE DEF t, l
  <1>3. i \in 2..(l + 1 - 1) /\ l + 1 >= i + 2
    BY <1>1
  <1>4. \A j \in 1..(i - 1) : t[j].type \in Outer
    BY <1>1, <1>2 DEF Opens
  <1>5. (\A j \in 1..i : t[j] = base[j]) /\ base[i].type \in {"tag", "output"} /\ t[i + 1].type = "arguments" /\ HasKids(t[i + 1])
    BY <1>1, <1>2 DEF Opens
  <1>6. \A j \in (i + 1)..(l + 1) : Inner(t[j].type)
    BY <1>1, <1>2 DEF Opens, l
  <1>7. t[i + 2].type # "deref"
    BY <1>1, <1>2 DEF Opens, l
  <1>8. Len(t) >= i + 2 /\ i \in 2..(Len(t) - 1) /\ \A j \in (i + 1)..Len(t) : Inner(t[j].type)
    BY <1>2, <1>3, <1>6
  <1>9. Opens(t, i, base)
    BY <1>2, <1>4, <1>5, <1>7, <1>8 DEF Opens
  <1> QED BY <1>8, <1>9 DEF t

LEMMA OpensReplaced ==
  ASSUME NEW s, NEW i, NEW base, Opens(s, i, base), NEW n, IsNode(n), Inner(n.type),
         n.type = Last(s).type \/ n.type # "deref",
         Len(s) >= i + 2 \/ (n.type = Last(s).type /\ (HasKids(Last(s)) => HasKids(n)))
  PROVE  Opens(Append(Front(s), n), i, base) /\ Len(Append(Front(s), n)) = Len(s)
  <1> DEFINE t == Append(Front(s), n)
             l == Len(s)
  <1>1. IsStack(s) /\ l \in Nat /\ i \in 2..(l - 1) /\ i \in Nat /\ Last(s) = s[l]
    BY StackIsLong DEF Opens, Last
  <1>2. IsStack(t) /\ Len(t) = l /\ t[l] = n /\ \A j \in 1..(l - 1) : t[j] = s[j]
    BY <1>1, Replaced
  <1> HIDE DEF t, l
  <1>3. l >= i + 1
    BY <1>1
  <1>4. \A j \in 1..(i - 1) : t[j].type \in Outer
    BY <1>1, <1>2 DEF Opens
  <1>5. (\A j \in 1..i : t[j] = base[j]) /\ base[i].type \in {"tag", "output"}
    BY <1>1, <1>2 DEF Opens
  <1>6. t[i + 1].type = "arguments" /\ HasKids(t[i + 1])
    <2>1. s[i + 1].type = "arguments" /\ HasKids(s[i + 1])
      BY DEF Opens
    <2>2. CASE l = i + 1
      BY <1>1, <1>2, <2>1, <2>2 DEF l
    <2>3. CASE l > i + 1
      BY <1>1, <1>2, <2>1, <2>3
    <2> QED BY <1>1, <1>3, <2>2, <2>3
  <1>7. \A j \in (i + 1)..l : Inner(t[j].type)
    BY <1>1, <1>2 DEF Opens, l
  <1>8. l >= i + 2 => t[i + 2].type # "deref"
    <2>1. l >= i + 2 => s[i + 2].type # "deref"
      BY DEF Opens, l
    <2>2. CASE l = i + 2
      BY <1>1, <1>2, <2>1, <2>2 DEF l
    <2>3. CASE l > i + 2
      BY <1>1, <1>2, <2>1, <2>3
    <2> QED BY <1>1, <2>2, <2>3
  <1> QED BY <1>1, <1>2, <1>4, <1>5, <1>6, <1>7, <1>8 DEF Opens, t, l

LEMMA Above ==
  ASSUME NEW s, NEW i, NEW base, Opens(s, i, base), NEW j \in 1..Len(s), Inner(s[j].type)
  PROVE  /\ j >= i + 1
         /\ s[j].type # "arguments" => j >= i + 2
         /\ s[j].type = "deref" => j >= i + 3
  <1>1. Len(s) \in Nat /\ i \in 2..(Len(s) - 1) /\ i \in Nat
    BY StackIsLong DEF Opens
  <1>2. ~(j < i)
    BY <1>1 DEF Opens, Outer, Inner
  <1>3. j # i
    BY <1>1 DEF Opens, Inner
  <1>4. j = i + 1 => s[j].type = "arguments"
    BY DEF Opens
  <1>5. j = i + 2 => s[j].type # "deref"
    BY <1>1 DEF Opens
  <1> QED BY <1>1, <1>2, <1>3, <1>4, <1>5

Inside(p, i, base) == IsParser(p) /\ Opens(p.nodes, i, base)
Ready(p, i, base)  == Inside(p, i, base) /\ (Len(p.nodes) = i + 1 => Waits(Top(p)))

\* What the handlers of arguments make of a parser: it stays in its block, or
\* stops with an error or with nodes left.
Answers(p, q, i, base) ==
  /\ Kept(p, q)
  /\ IF q.ok THEN Ready(q, i, base) ELSE q.errors # {} \/ Inside(q, i, base)

LEMMA InsideStands ==
  ASSUME NEW p, NEW i, NEW base, Inside(p, i, base)
  PROVE  /\ Standing(p) /\ Len(p.nodes) \in Nat /\ i \in Nat /\ i >= 2 /\ Len(p.nodes) >= i + 1
         /\ Top(p) = p.nodes[Len(p.nodes)] /\ Len(p.nodes) \in 1..Len(p.nodes)
         /\ IsNode(Top(p)) /\ Inner(Top(p).type)
  <1>1. IsParser(p) /\ IsStack(p.nodes) /\ Len(p.nodes) \in Nat /\ i \in 2..(Len(p.nodes) - 1)
    BY StackIsLong DEF Inside, Opens
  <1>2. Top(p) = p.nodes[Len(p.nodes)]
    BY DEF Top, Last
  <1>3. Len(p.nodes) \in 1..Len(p.nodes) /\ Len(p.nodes) \in (i + 1)..Len(p.nodes)
    BY <1>1
  <1>4. IsNode(Top(p))
    BY <1>1, <1>2, <1>3 DEF IsStack
  <1>5. Inner(Top(p).type)
    BY <1>2, <1>3 DEF Inside, Opens
  <1>6. i \in Nat /\ i >= 2 /\ Len(p.nodes) >= i + 1 /\ Len(p.nodes) >= 1
    BY <1>1
  <1> QED BY <1>1, <1>2, <1>3, <1>4, <1>5, <1>6 DEF Standing

LEMMA TopInside ==
  ASSUME NEW p, NEW i, NEW base, Inside(p, i, base)
  PROVE  /\ Top(p).type # "arguments" => Len(p.nodes) >= i + 2 /\ Ready(p, i, base)
         /\ Top(p).type = "deref" => Len(p.nodes) >= i + 3
         /\ Len(p.nodes) >= i + 2 => Ready(p, i, base)
  <1>1. /\ Len(p.nodes) \in Nat /\ i \in Nat
        /\ Top(p) = p.nodes[Len(p.nodes)] /\ Len(p.nodes) \in 1..Len(p.nodes) /\ Inner(Top(p).type)
    BY InsideStands
  <1>2. Opens(p.nodes, i, base)
    BY DEF Inside
  <1>3. /\ Top(p).type # "arguments" => Len(p.nodes) >= i + 2
        /\ Top(p).type = "deref" => Len(p.nodes) >= i + 3
    BY <1>1, <1>2, Above
  <1>4. Len(p.nodes) >= i + 2 => Len(p.nodes) # i + 1
    BY <1>1
  <1> QED BY <1>3, <1>4 DEF Ready

LEMMA InsideSame ==
  ASSUME NEW p, NEW q, NEW i, NEW base, Inside(p, i, base), IsParser(q), q.nodes = p.nodes
  PROVE  Inside(q, i, base) /\ (Ready(p, i, base) => Ready(q, i, base))
  BY DEF Inside, Ready, Top

LEMMA AnswersFail ==
  ASSUME NEW p, NEW r, NEW i, NEW base, NEW e, Kept(p, r)
  PROVE  /\ Answers(p, Fail(r, e), i, base)
         /\ Answers(p, Undefined(r), i, base)
  <1>1. IsParser(r)
    BY DEF Kept
  <1>2. ASSUME NEW f PROVE Kept(p, Fail(r, f)) /\ ~Fail(r, f).ok /\ Fail(r, f).errors # {}
    BY <1>1, Failed, KeptTwice
  <1> QED BY <1>2 DEF Answers, Undefined

LEMMA AnswersReady ==
  ASSUME NEW p, NEW q, NEW i, NEW base, Kept(p, q), Ready(q, i, base)
  PROVE  Answers(p, q, i, base)
  BY DEF Answers, Ready

LEMMA AnswersFilter ==
  ASSUME NEW p, NEW q, NEW i, NEW base, Answers(p, q, i, base), NEW state
  PROVE  Answers(p, [q EXCEPT !.filterState = state], i, base)
  <1> DEFINE r == [q EXCEPT !.filterState = state]
  <1>1. Kept(p, q) /\ IsParser(q)
    BY DEF Answers, Kept
  <1>2. Kept(q, r) /\ r.nodes = q.nodes /\ r.ok = q.ok /\ r.errors = q.errors /\ IsParser(r)
    BY <1>1, FilterSet DEF Kept
  <1> HIDE DEF r
  <1>3. Kept(p, r)
    BY <1>1, <1>2, KeptTwice
  <1>4. Ready(q, i, base) => Ready(r, i, base)
    BY <1>2, InsideSame DEF Ready
  <1>5. Inside(q, i, base) => Inside(r, i, base)
    BY <1>2, InsideSame
  <1>6. Answers(p, r, i, base)
    BY <1>2, <1>3, <1>4, <1>5 DEF Answers
  <1> QED BY <1>6 DEF r

LEMMA Pushing ==
  ASSUME NEW p, NEW r, NEW i, NEW base, Kept(p, r), Inside(r, i, base),
         NEW n, IsNode(n), Inner(n.type), n.type = "deref" => Len(r.nodes) >= i + 2
  PROVE  Answers(p, Push(r, n), i, base) /\ Answers(p, PushNode(r, n), i, base)
  <1> DEFINE q == Push(r, n)
             t == Append(r.nodes, n)
  <1>1. IsParser(r) /\ Opens(r.nodes, i, base)
    BY DEF Inside
  <1>2. Opens(t, i, base) /\ Len(t) >= i + 2
    BY <1>1, OpensPushed
  <1>3. Kept(r, q) /\ q.nodes = t /\ IsParser(q)
    <2>1. q = [r EXCEPT !.nodes = t]
      BY DEF Push
    <2> HIDE DEF q, t
    <2> QED BY <1>1, <2>1, StackSet DEF Kept
  <1> HIDE DEF q, t
  <1>4. Inside(q, i, base) /\ Kept(p, q) /\ Len(q.nodes) >= i + 2
    BY <1>2, <1>3, KeptTwice DEF Inside
  <1>5. Answers(p, q, i, base)
    BY <1>4, TopInside, AnswersReady
  <1>6. PushNode(r, n) = q \/ PushNode(r, n) = Fail(r, "PARSE_DEPTH_EXCEEDED")
    BY DEF PushNode, q
  <1> QED BY <1>5, <1>6, AnswersFail DEF q

LEMMA Topping ==
  ASSUME NEW p, NEW r, NEW i, NEW base, Kept(p, r), Inside(r, i, base), Len(r.nodes) >= i + 2,
         NEW n, IsNode(n), Inner(n.type), n.type = Top(r).type \/ n.type # "deref"
  PROVE  /\ Answers(p, SetTop(r, n), i, base)
         /\ Kept(p, SetTop(r, n)) /\ Inside(SetTop(r, n), i, base) /\ Len(SetTop(r, n).nodes) = Len(r.nodes)
  <1> DEFINE q == SetTop(r, n)
             t == Append(Front(r.nodes), n)
  <1>1. IsParser(r) /\ Opens(r.nodes, i, base)
    BY DEF Inside
  <1>2. Opens(t, i, base) /\ Len(t) = Len(r.nodes)
    BY <1>1, OpensReplaced DEF Top
  <1>3. Kept(r, q) /\ q.nodes = t /\ IsParser(q)
    <2>1. q = [r EXCEPT !.nodes = t]
      BY DEF SetTop
    <2> HIDE DEF q, t
    <2> QED BY <1>1, <2>1, StackSet DEF Kept
  <1> HIDE DEF q, t
  <1>4. Inside(q, i, base) /\ Kept(p, q) /\ Len(q.nodes) = Len(r.nodes)
    BY <1>2, <1>3, KeptTwice DEF Inside
  <1>5. Answers(p, q, i, base)
    BY <1>4, TopInside, AnswersReady
  <1> QED BY <1>4, <1>5 DEF q

LEMMA Expecting ==
  ASSUME NEW p, NEW r, NEW i, NEW base, Kept(p, r), Inside(r, i, base)
  PROVE  /\ Answers(p, Expect(r), i, base)
         /\ Kept(p, Expect(r))
         /\ Expect(r).ok => Inside(Expect(r), i, base)
         /\ Top(r).type # "value" => Inside(Expect(r), i, base) /\ Len(Expect(r).nodes) = Len(r.nodes)
  <1> DEFINE n == Give(Top(r), Null)
             q == SetTop(r, n)
             t == Append(Front(r.nodes), n)
  <1>1. /\ IsParser(r) /\ Opens(r.nodes, i, base) /\ IsStack(r.nodes)
        /\ Len(r.nodes) \in Nat /\ Len(r.nodes) >= i + 1 /\ i \in Nat
        /\ IsNode(Top(r)) /\ Inner(Top(r).type) /\ Top(r) = r.nodes[Len(r.nodes)]
    BY InsideStands DEF Inside, Opens
  <1>2. IsNode(n) /\ n.type = Top(r).type /\ (HasKids(Top(r)) => HasKids(n) /\ Waits(n))
    BY <1>1, Given
  <1>3. CASE Top(r).type = "value"
    <2>1. Expect(r) = Undefined(r)
      BY <1>3 DEF Expect
    <2>2. Answers(p, Undefined(r), i, base) /\ ~Undefined(r).ok
      BY <1>1, AnswersFail, Failed DEF Undefined
    <2> QED BY <1>3, <2>1, <2>2 DEF Answers
  <1>4. CASE Top(r).type # "value"
    <2>1. Expect(r) = q
      BY <1>4 DEF Expect
    <2>2. Opens(t, i, base) /\ Len(t) = Len(r.nodes)
      <3> HIDE DEF n
      <3> QED BY <1>1, <1>2, OpensReplaced DEF Top
    <2>3. Kept(r, q) /\ q.nodes = t /\ IsParser(q)
      <3>1. q = [r EXCEPT !.nodes = t]
        BY DEF SetTop
      <3>2. IsParser(r)
        BY <1>1
      <3> HIDE DEF n, q, t
      <3> QED BY <3>1, <3>2, StackSet DEF Kept
    <2>4. Top(q) = n
      <3>1. t[Len(r.nodes)] = n
        <4> HIDE DEF n
        <4> QED BY <1>1, <1>2, Replaced
      <3> HIDE DEF t, q
      <3> QED BY <2>2, <2>3, <3>1 DEF Top, Last
    <2>5. Len(r.nodes) = i + 1 => Waits(n)
      <3>1. Len(r.nodes) = i + 1 => HasKids(Top(r))
        BY <1>1 DEF Opens
      <3> QED BY <1>2, <3>1
    <2> HIDE DEF n, t, q
    <2>6. Inside(q, i, base) /\ Kept(p, q) /\ Len(q.nodes) = Len(r.nodes)
      BY <2>2, <2>3, KeptTwice DEF Inside
    <2>7. Ready(q, i, base)
      BY <2>4, <2>5, <2>6 DEF Ready
    <2>8. Answers(p, q, i, base)
      BY <2>6, <2>7, AnswersReady
    <2> QED BY <2>1, <2>6, <2>8
  <1> QED BY <1>3, <1>4

LEMMA PoppingInside ==
  ASSUME NEW p, NEW i, NEW base, Inside(p, i, base), Len(p.nodes) >= i + 2
  PROVE  Kept(p, PopNode(p)) /\ Inside(PopNode(p), i, base)
  <1> DEFINE q == PopNode(p)
  <1>1. Standing(p) /\ Len(p.nodes) \in Nat /\ Len(p.nodes) > 1 /\ Len(p.nodes) - 1 >= i + 1
    BY InsideStands
  <1>2. Kept(p, q) /\ Shrunk(p.nodes, q.nodes, Len(p.nodes) - 1)
    BY <1>1, Popping
  <1> HIDE DEF q
  <1>3. Opens(q.nodes, i, base)
    BY <1>1, <1>2, OpensShrunk DEF Inside
  <1>4. Inside(q, i, base)
    BY <1>2, <1>3 DEF Inside, Kept
  <1> QED BY <1>2, <1>4 DEF q

LEMMA PoppingUntil ==
  ASSUME NEW p, NEW i, NEW base, Inside(p, i, base), NEW until, Inner(until)
  PROVE  LET q == PopNodeUntil(p, until)
         IN  /\ Kept(p, q)
             /\ q.ok => Inside(q, i, base) /\ Top(q).type = until
             /\ until = "arguments" => Inside(q, i, base)
  <1> DEFINE q == PopNodeUntil(p, until)
             s == p.nodes
  <1>1. Standing(p) /\ Len(s) \in Nat /\ i \in Nat /\ Len(s) >= i + 1 /\ Opens(s, i, base)
    BY InsideStands DEF Inside
  <1>2. Kept(p, q)
    BY <1>1, PopUntil
  <1>3. PICK m \in 1..Len(s) : /\ Shrunk(s, q.nodes, m)
                               /\ \A j \in (m + 1)..Len(s) : s[j].type # until
                               /\ q.ok => s[m].type = until
    BY <1>1, PopUntil
  <1> HIDE DEF q, s
  <1>4. m >= i + 1 => Inside(q, i, base)
    BY <1>1, <1>2, <1>3, OpensShrunk DEF Inside, Kept
  <1>5. q.ok => m >= i + 1
    BY <1>1, <1>3, Above
  <1>6. q.ok => Top(q).type = until
    BY <1>3 DEF Top, Last, Shrunk
  <1>7. until = "arguments" => m >= i + 1
    <2>1. s[i + 1].type = "arguments"
      BY <1>1 DEF Opens
    <2>2. m < i + 1 => i + 1 \in (m + 1)..Len(s)
      BY <1>1, <1>3
    <2> QED BY <1>1, <1>3, <2>1, <2>2
  <1> QED BY <1>2, <1>4, <1>5, <1>6, <1>7 DEF q

-----------------------------------------------------------------------------
(* The handlers of what may stand in a block.                              *)

LEMMA AnswersSame ==
  ASSUME NEW p, NEW i, NEW base, Ready(p, i, base)
  PROVE  Kept(p, p) /\ Answers(p, p, i, base)
  BY KeptNothing, AnswersReady DEF Ready, Inside

LEMMA AnswersArgument ==
  ASSUME NEW p, NEW q, NEW i, NEW base, Ready(p, i, base), Answers(p, q, i, base)
  PROVE  Answers(p, Argument(p, q), i, base)
  <1>1. Argument(p, q) = p \/ Argument(p, q) = q \/ Argument(p, q) = Fail(p, "INVALID_SYMBOL")
    BY DEF Argument
  <1> QED BY <1>1, AnswersSame, AnswersFail

LEMMA AnswersRegardless ==
  ASSUME NEW p, NEW r, NEW i, NEW base, Kept(p, r), Ready(r, i, base)
  PROVE  /\ Answers(p, Regardless(r), i, base)
         /\ Kept(p, Regardless(r)) /\ Ready(Regardless(r), i, base)
  <1> DEFINE q == Regardless(r)
  <1>1. IsParser(r) /\ Inside(r, i, base)
    BY DEF Ready, Inside
  <1>2. Kept(r, q) /\ q.nodes = r.nodes /\ IsParser(q)
    BY <1>1, Regarded DEF Kept
  <1> HIDE DEF q
  <1>3. Kept(p, q) /\ Ready(q, i, base)
    BY <1>1, <1>2, KeptTwice, InsideSame
  <1> QED BY <1>3, AnswersReady DEF q

LEMMA ColonAnswers ==
  ASSUME NEW p, NEW i, NEW base, Ready(p, i, base)
  PROVE  Answers(p, Colon(p), i, base)
  <1>1. Kept(p, p) /\ Answers(p, p, i, base) /\ Inside(p, i, base)
    BY AnswersSame DEF Ready
  <1>2. Answers(p, Expect(p), i, base)
    BY <1>1, Expecting
  <1>3. Answers(p, [Expect(p) EXCEPT !.filterState = "ARGUMENTS"], i, base)
    BY <1>2, AnswersFilter
  <1>4. Answers(p, WildcardQualifier(p), i, base)
    <2>1. \/ WildcardQualifier(p) = Fail(p, "INVALID_QUALIFIER")
          \/ WildcardQualifier(p) = Undefined(p)
          \/ WildcardQualifier(p) = Fail(p, "INVALID_SYMBOL")
      BY DEF WildcardQualifier
    <2> QED BY <1>1, <2>1, AnswersFail
  <1>5. \A e : Answers(p, Fail(p, e), i, base)
    BY <1>1, AnswersFail
  <1>6. \/ Colon(p) = p
        \/ Colon(p) = Expect(p)
        \/ Colon(p) = [Expect(p) EXCEPT !.filterState = "ARGUMENTS"]
        \/ Colon(p) = WildcardQualifier(p)
        \/ \E e : Colon(p) = Fail(p, e)
    BY DEF Colon
  <1> QED BY <1>1, <1>2, <1>3, <1>4, <1>5, <1>6

LEMMA CommaAnswers ==
  ASSUME NEW p, NEW i, NEW base, Ready(p, i, base)
  PROVE  Answers(p, Comma(p), i, base)
  <1> DEFINE inArray == Len(p.nodes) > 2 /\ Under(p).type = "array"
             closed  == IF inArray THEN PopNode(p) ELSE PopNodeUntil(p, "arguments")
             q       == IF closed.ok THEN Expect(closed)
                        ELSE IF inArray THEN closed
                        ELSE Fail(closed, "INVALID_SYMBOL")
  <1>0. SUFFICES Answers(p, q, i, base)
    <2>1. Comma(p) = Argument(p, q)
      BY DEF Comma
    <2> HIDE DEF q
    <2> QED BY <2>1, AnswersArgument
  <1>1. Inside(p, i, base) /\ Opens(p.nodes, i, base)
    BY DEF Ready, Inside
  <1>2. CASE inArray
    <2> DEFINE n == Len(p.nodes)
    <2>1. n \in Nat /\ i \in Nat /\ n - 1 \in 1..n /\ p.nodes[n - 1].type = "array"
      BY <1>1, <1>2, InsideStands DEF Under
    <2>2. n - 1 >= i + 2
      BY <1>1, <2>1, Above DEF Inner
    <2>3. Kept(p, PopNode(p)) /\ Inside(PopNode(p), i, base)
      BY <1>1, <2>1, <2>2, PoppingInside
    <2>4. q = IF PopNode(p).ok THEN Expect(PopNode(p)) ELSE PopNode(p)
      BY <1>2
    <2> HIDE DEF q
    <2>5. Answers(p, q, i, base)
      <3>1. CASE PopNode(p).ok
        BY <2>3, <2>4, <3>1, Expecting
      <3>2. CASE ~PopNode(p).ok
        BY <2>3, <2>4, <3>2 DEF Answers
      <3> QED BY <3>1, <3>2
    <2> QED BY <2>5 DEF q
  <1>3. CASE ~inArray
    <2> DEFINE r == PopNodeUntil(p, "arguments")
    <2>1. Kept(p, r) /\ Inside(r, i, base)
      BY <1>1, PoppingUntil DEF Inner
    <2>2. q = IF r.ok THEN Expect(r) ELSE Fail(r, "INVALID_SYMBOL")
      BY <1>3
    <2> HIDE DEF q, r
    <2>3. Answers(p, q, i, base)
      <3>1. CASE r.ok
        BY <2>1, <2>2, <3>1, Expecting
      <3>2. CASE ~r.ok
        BY <2>1, <2>2, <3>2, AnswersFail
      <3> QED BY <3>1, <3>2
    <2> QED BY <2>3 DEF q
  <1> QED BY <1>2, <1>3

LEMMA DotAnswers ==
  ASSUME NEW p, NEW i, NEW base, Ready(p, i, base)
  PROVE  Answers(p, Dot(p), i, base)
  <1> DEFINE q == IF Top(p).type = "variable" THEN Expect(p) ELSE Fail(p, "INVALID_SYMBOL")
  <1>1. Kept(p, p) /\ Inside(p, i, base)
    BY AnswersSame DEF Ready
  <1>2. Answers(p, q, i, base)
    BY <1>1, Expecting, AnswersFail
  <1>3. Dot(p) = Argument(p, q)
    BY DEF Dot
  <1> HIDE DEF q
  <1> QED BY <1>2, <1>3, AnswersArgument

LEMMA OpenBracketAnswers ==
  ASSUME NEW p, NEW i, NEW base, Ready(p, i, base)
  PROVE  Answers(p, StartVariableDereference(p), i, base)
  <1> DEFINE q == IF Top(p).type = "variable" THEN PushNode(Expect(p), Awaiting("deref", ""))
                  ELSE IF ~p.arrays THEN Fail(p, "INVALID_SYMBOL")
                  ELSE PushNode(p, Awaiting("array", ""))
  <1>0. SUFFICES Answers(p, q, i, base)
    <2>1. StartVariableDereference(p) = Argument(p, q)
      BY DEF StartVariableDereference
    <2> HIDE DEF q
    <2> QED BY <2>1, AnswersArgument
  <1>1. Kept(p, p) /\ Inside(p, i, base)
    BY AnswersSame DEF Ready
  <1>2. /\ IsNode(Awaiting("deref", "")) /\ Awaiting("deref", "").type = "deref"
        /\ IsNode(Awaiting("array", "")) /\ Awaiting("array", "").type = "array"
    BY MadeAwaiting
  <1>3. CASE Top(p).type = "variable"
    <2>1. Len(p.nodes) >= i + 2
      BY <1>1, <1>3, TopInside
    <2>2. Kept(p, Expect(p)) /\ Inside(Expect(p), i, base) /\ Len(Expect(p).nodes) >= i + 2
      BY <1>1, <1>3, <2>1, Expecting
    <2> QED BY <1>2, <1>3, <2>2, Pushing DEF Inner
  <1>4. CASE Top(p).type # "variable"
    <2>1. q = Fail(p, "INVALID_SYMBOL") \/ q = PushNode(p, Awaiting("array", ""))
      BY <1>4
    <2>2. Answers(p, PushNode(p, Awaiting("array", "")), i, base)
      BY <1>1, <1>2, Pushing DEF Inner
    <2>3. Answers(p, Fail(p, "INVALID_SYMBOL"), i, base)
      BY <1>1, AnswersFail
    <2> QED BY <2>1, <2>2, <2>3
  <1> QED BY <1>3, <1>4

LEMMA CloseBracketAnswers ==
  ASSUME NEW p, NEW i, NEW base, Ready(p, i, base)
  PROVE  Answers(p, EndVariableDereference(p), i, base)
  <1> DEFINE array  == Nearest(p, {"deref", "array"}).type = "array"
             whole  == IF Top(p) = Awaiting("array", "") THEN SetTop(p, Node("array", "", <<>>)) ELSE p
             until  == IF array THEN "array" ELSE "deref"
             closed == PopNodeUntil(whole, until)
             q      == IF ~closed.ok THEN Fail(closed, "UNBALANCED_GROUP")
                       ELSE IF array THEN closed
                       ELSE Regardless(PopNode(closed))
  <1>1. Kept(p, p) /\ Inside(p, i, base)
    BY AnswersSame DEF Ready
  <1>2. Kept(p, whole) /\ Inside(whole, i, base)
    <2>1. CASE Top(p) = Awaiting("array", "")
      <3> DEFINE n == Node("array", "", <<>>)
      <3>1. IsNode(n) /\ n.type = "array" /\ Top(p).type = "array"
        <4>1. Top(p).type = "array"
          <5>1. Awaiting("array", "").type = "array"
            BY MadeAwaiting
          <5> QED BY <2>1, <5>1, Zenon
        <4>2. IsNode(n) /\ n.type = "array"
          BY DEF IsNode, Node
        <4> QED BY <4>1, <4>2
      <3> HIDE DEF n
      <3>2. Len(p.nodes) >= i + 2
        BY <1>1, <3>1, TopInside
      <3>3. Kept(p, SetTop(p, n)) /\ Inside(SetTop(p, n), i, base)
        BY <1>1, <3>1, <3>2, Topping DEF Inner
      <3> QED BY <2>1, <3>3 DEF n
    <2>2. CASE Top(p) # Awaiting("array", "")
      BY <1>1, <2>2
    <2> QED BY <2>1, <2>2
  <1> HIDE DEF array, whole
  <1>3. /\ Kept(whole, closed)
        /\ closed.ok => Inside(closed, i, base) /\ Top(closed).type = until
    BY <1>2, PoppingUntil DEF Inner
  <1> HIDE DEF closed
  <1>4. Kept(p, closed)
    BY <1>2, <1>3, KeptTwice
  <1>5. Answers(p, q, i, base)
    <2>1. CASE ~closed.ok
      BY <1>4, <2>1, AnswersFail
    <2>2. CASE closed.ok /\ array
      <3>1. Ready(closed, i, base)
        BY <1>3, <2>2, TopInside
      <3> QED BY <1>4, <2>2, <3>1, AnswersReady
    <2>3. CASE closed.ok /\ ~array
      <3> DEFINE r == PopNode(closed)
      <3>1. Inside(closed, i, base) /\ Top(closed).type = "deref"
        BY <1>3, <2>3
      <3>2. Len(closed.nodes) >= i + 3 /\ Len(closed.nodes) \in Nat /\ i \in Nat
        BY <3>1, TopInside, InsideStands
      <3>3. Kept(closed, r) /\ Inside(r, i, base)
        BY <3>1, <3>2, PoppingInside
      <3>4. Len(r.nodes) >= i + 2
        <4>1. Shrunk(closed.nodes, r.nodes, Len(closed.nodes) - 1)
          BY <3>1, <3>2, InsideStands, Popping
        <4> QED BY <3>2, <4>1 DEF Shrunk
      <3> HIDE DEF r
      <3>5. Kept(p, r) /\ Ready(r, i, base)
        BY <1>4, <3>3, <3>4, KeptTwice, TopInside
      <3>6. q = Regardless(r)
        BY <2>3 DEF r
      <3> QED BY <3>5, <3>6, AnswersRegardless
    <2> QED BY <2>1, <2>2, <2>3
  <1>6. EndVariableDereference(p) = Argument(p, q)
    BY DEF EndVariableDereference, whole, array, closed
  <1> HIDE DEF q
  <1> QED BY <1>5, <1>6, AnswersArgument

LEMMA OperandAnswers ==
  ASSUME NEW p, NEW i, NEW base, Ready(p, i, base), NEW w
  PROVE  Answers(p, Operand(p, w), i, base)
  <1>1. IsNode(Value(w)) /\ Inner(Value(w).type) /\ Value(w).type # "deref"
    BY Made DEF Value, Inner
  <1>2. Answers(p, PushNode(p, Value(w)), i, base)
    BY <1>1, AnswersSame, Pushing DEF Ready
  <1> QED BY <1>2, AnswersArgument DEF Operand

LEMMA ErrorNoted ==
  ASSUME NEW p, IsParser(p), NEW e
  PROVE  LET q == [p EXCEPT !.errors = @ \cup {e}]
         IN  Kept(p, q) /\ q.nodes = p.nodes
  BY DEF IsParser, Members, Kept

LEMMA AnswersGroup ==
  ASSUME NEW p, NEW q, NEW i, NEW base, Ready(p, i, base), Answers(p, q, i, base)
  PROVE  Answers(p, Group(p, q), i, base)
  <1> DEFINE r == [p EXCEPT !.errors = @ \cup {"INVALID_SYMBOL"}]
  <1>1. Kept(p, r) /\ r.nodes = p.nodes /\ IsParser(r)
    BY ErrorNoted DEF Ready, Inside, Kept
  <1>2. Group(p, q) = p \/ Group(p, q) = r \/ Group(p, q) = q
    BY DEF Group
  <1> HIDE DEF r
  <1>3. Ready(r, i, base)
    BY <1>1, InsideSame DEF Ready
  <1> QED BY <1>1, <1>2, <1>3, AnswersReady, AnswersSame

LEMMA OpenParenthesisAnswers ==
  ASSUME NEW p, NEW i, NEW base, Ready(p, i, base)
  PROVE  Answers(p, OpenParenthesis(p), i, base)
  <1> DEFINE inside == IF p.filterState = "ARGUMENTS" THEN "UNSET" ELSE p.filterState
             r == [p EXCEPT !.filterState = inside]
             n == Awaiting("group", "")
  <1>1. IsNode(n) /\ n.type = "group"
    BY MadeAwaiting
  <1>2. IsParser(p)
    BY DEF Ready, Inside
  <1>3. Kept(p, r) /\ r.nodes = p.nodes /\ IsParser(r)
    <2> HIDE DEF inside
    <2> QED BY <1>2, FilterSet DEF Kept
  <1>4. OpenParenthesis(p) = Group(p, PushNode(r, n))
    BY DEF OpenParenthesis
  <1> HIDE DEF r, n
  <1>5. Inside(r, i, base)
    BY <1>3, InsideSame DEF Ready
  <1>6. Answers(p, PushNode(r, n), i, base)
    BY <1>1, <1>3, <1>5, Pushing DEF Inner
  <1> QED BY <1>4, <1>6, AnswersGroup

LEMMA CloseParenthesisAnswers ==
  ASSUME NEW p, NEW i, NEW base, Ready(p, i, base)
  PROVE  Answers(p, CloseParenthesis(p), i, base)
  <1> DEFINE closed == PopNodeUntil(p, "group")
             deep   == Len(closed.nodes) > 3
             q == IF ~closed.ok THEN Fail(closed, "UNBALANCED_GROUP")
                  ELSE IF deep /\ Under(closed).type = "value" THEN Undefined(closed)
                  ELSE IF /\ deep
                          /\ Under(closed).type = "arguments"
                          /\ closed.nodes[Len(closed.nodes) - 2].type = "filter"
                       THEN [closed EXCEPT !.filterState = "ARGUMENTS"]
                  ELSE closed
  <1>1. CloseParenthesis(p) = Group(p, q)
    BY DEF CloseParenthesis
  <1>2. /\ Kept(p, closed)
        /\ closed.ok => Inside(closed, i, base) /\ Top(closed).type = "group"
    BY PoppingUntil DEF Inner, Ready
  <1>3. \/ ~closed.ok /\ q = Fail(closed, "UNBALANCED_GROUP")
        \/ closed.ok /\ q = Undefined(closed)
        \/ closed.ok /\ q = [closed EXCEPT !.filterState = "ARGUMENTS"]
        \/ closed.ok /\ q = closed
    OBVIOUS
  <1> HIDE DEF closed, q
  <1>4. closed.ok => Answers(p, closed, i, base)
    BY <1>2, TopInside, AnswersReady
  <1>5. Answers(p, q, i, base)
    BY <1>2, <1>3, <1>4, AnswersFail, AnswersFilter
  <1> QED BY <1>1, <1>5, AnswersGroup

LEMMA NameAnswers ==
  ASSUME NEW p, NEW i, NEW base, Ready(p, i, base), NEW w, Top(p).type = "variable", Waits(Top(p))
  PROVE  Answers(p, Name(p, w), i, base)
  <1> DEFINE operand == [Top(p) EXCEPT !.kids = Front(@)]
             n == Node("variable", "", <<Node("dotfilter", w, <<operand>>)>>)
             m == Fill(Top(p), Value(w))
  <1>1. Kept(p, p) /\ Inside(p, i, base) /\ IsNode(Top(p)) /\ Len(p.nodes) >= i + 2
    BY AnswersSame, InsideStands, TopInside DEF Ready
  <1> HIDE DEF operand
  <1>2. IsNode(n) /\ n.type = "variable"
    BY DEF IsNode, Node
  <1>3. IsNode(m) /\ m.type = "variable"
    BY <1>1, Filled
  <1>4. Name(p, w) = SetTop(p, n) \/ Name(p, w) = SetTop(p, m)
    BY DEF Name, operand
  <1> HIDE DEF n, m
  <1>5. Answers(p, SetTop(p, n), i, base) /\ Answers(p, SetTop(p, m), i, base)
    BY <1>1, <1>2, <1>3, Topping DEF Inner
  <1> QED BY <1>4, <1>5

LEMMA StartOperandAnswers ==
  ASSUME NEW p, NEW i, NEW base, Ready(p, i, base), NEW w
  PROVE  Answers(p, StartOperand(p, w), i, base)
  <1> DEFINE n == Node("variable", "", <<Value(w)>>)
             m == Awaiting("prefix", w)
  <1>1. Kept(p, p) /\ Inside(p, i, base)
    BY AnswersSame DEF Ready
  <1>2. IsNode(n) /\ n.type = "variable" /\ IsNode(m) /\ m.type = "prefix"
    BY MadeAwaiting DEF IsNode, Node
  <1>3. StartOperand(p, w) = PushNode(p, m) \/ StartOperand(p, w) = Push(p, n)
    BY DEF StartOperand
  <1> HIDE DEF n, m
  <1>4. Answers(p, PushNode(p, m), i, base) /\ Answers(p, Push(p, n), i, base)
    BY <1>1, <1>2, Pushing DEF Inner
  <1> QED BY <1>3, <1>4

LEMMA BarAnswers ==
  ASSUME NEW p, NEW i, NEW base, Ready(p, i, base)
  PROVE  Answers(p, Bar(p), i, base)
  <1> DEFINE closed == IF p.filterState \in {"COLON", "ARGUMENTS"} THEN PopNodeUntil(p, "filter") ELSE p
  <1>1. Kept(p, p) /\ Answers(p, p, i, base) /\ Inside(p, i, base)
    BY AnswersSame DEF Ready
  <1>2. Kept(p, closed) /\ (closed.ok => Answers(p, closed, i, base))
    <2>1. CASE p.filterState \in {"COLON", "ARGUMENTS"}
      <3> DEFINE q == PopNodeUntil(p, "filter")
      <3>1. Kept(p, q) /\ (q.ok => Inside(q, i, base) /\ Top(q).type = "filter")
        BY <1>1, PoppingUntil DEF Inner
      <3> HIDE DEF q
      <3>2. q.ok => Answers(p, q, i, base)
        BY <3>1, TopInside, AnswersReady
      <3> QED BY <2>1, <3>1, <3>2 DEF q
    <2>2. CASE p.filterState \notin {"COLON", "ARGUMENTS"}
      BY <1>1, <2>2
    <2> QED BY <2>1, <2>2
  <1>3. \/ closed.ok /\ Bar(p) = [closed EXCEPT !.filterState = "NAME"]
        \/ Bar(p) = Fail(closed, "INVALID_SYMBOL")
    BY DEF Bar
  <1> HIDE DEF closed
  <1> QED BY <1>2, <1>3, AnswersFail, AnswersFilter

LEMMA FilterNamed ==
  ASSUME NEW p, IsParser(p), NEW e
  PROVE  LET q == [p EXCEPT !.filterState = "COLON", !.errors = e]
         IN  p.errors \subseteq e => Kept(p, q) /\ q.nodes = p.nodes
  BY DEF IsParser, Members, Kept

LEMMA FilterNameAnswers ==
  ASSUME NEW p, NEW i, NEW base, Ready(p, i, base), NEW w, ~Waits(Top(p))
  PROVE  Answers(p, FilterName(p, w), i, base)
  <1> DEFINE unknown == ~IsFilter(p, w)
             filter  == IF unknown THEN Node("filter", "", <<Value(w)>>) ELSE Node("filter", w, <<>>)
             errors  == IF unknown THEN p.errors \cup {"UNKNOWN_FILTER"} ELSE p.errors
             named   == [p EXCEPT !.filterState = "COLON", !.errors = errors]
             popped  == LeftOperand(named)
             operand == Regardless(popped)
             n       == [filter EXCEPT !.kids = @ \o <<Top(operand), Null>>]
             args    == Node("arguments", "", <<>>)
  <1>1. \/ FilterName(p, w) = Undefined(operand)
        \/ FilterName(p, w) = Push(SetTop(operand, n), args)
    BY DEF FilterName, LeftOperand, PopWhile, Wrap
  <1>2. Kept(p, named) /\ named.nodes = p.nodes /\ IsParser(named)
    <2>1. p.errors \subseteq errors
      OBVIOUS
    <2>2. IsParser(p)
      BY DEF Ready, Inside
    <2> HIDE DEF errors
    <2> QED BY <2>1, <2>2, FilterNamed DEF Kept
  <1>3. IsNode(n) /\ n.type = "filter"
    <2>1. IsNode(filter) /\ filter.type = "filter"
      BY DEF IsNode, Node
    <2> DEFINE kids == filter.kids \o <<Top(operand), Null>>
    <2> HIDE DEF filter
    <2>2. n = [filter EXCEPT !.kids = kids]
      OBVIOUS
    <2> HIDE DEF n, kids
    <2> QED BY <2>1, <2>2 DEF IsNode
  <1>4. IsNode(args) /\ args.type = "arguments"
    BY DEF IsNode, Node
  <1> HIDE DEF named, n, args
  <1>5. /\ Inside(named, i, base) /\ Standing(named) /\ Opens(p.nodes, i, base)
        /\ Len(p.nodes) \in Nat /\ i \in Nat /\ Len(p.nodes) >= i + 2
    <2>1. Inside(p, i, base) /\ Len(p.nodes) # i + 1
      BY DEF Ready
    <2>2. Len(p.nodes) \in Nat /\ i \in Nat /\ Len(p.nodes) >= i + 1 /\ Opens(p.nodes, i, base)
      BY <2>1, InsideStands DEF Inside
    <2>3. Inside(named, i, base)
      BY <1>2, <2>1, InsideSame
    <2> QED BY <2>1, <2>2, <2>3, InsideStands
  <1>6. Kept(named, popped)
    BY <1>5, PopOperators
  <1>7. PICK m \in 1..Len(p.nodes) : /\ Shrunk(p.nodes, popped.nodes, m)
                                     /\ m = Len(p.nodes) \/ p.nodes[m].type \in {"operator", "prefix"}
    BY <1>2, <1>5, PopOperators
  <1> HIDE DEF popped
  <1>8. m >= i + 2
    <2>1. p.nodes[m].type \in {"operator", "prefix"} => m >= i + 2
      BY <1>5, Above DEF Inner
    <2> QED BY <1>5, <1>7, <2>1
  <1>9. Kept(p, popped) /\ Inside(popped, i, base) /\ Len(popped.nodes) = m
    <2>1. m >= i + 1
      BY <1>5, <1>8
    <2>2. Opens(popped.nodes, i, base)
      BY <1>5, <1>7, <2>1, OpensShrunk
    <2>3. Kept(p, popped) /\ Len(popped.nodes) = m /\ IsParser(popped)
      BY <1>2, <1>6, <1>7, KeptTwice DEF Kept, Shrunk
    <2> QED BY <2>2, <2>3 DEF Inside
  <1>10. Kept(popped, operand) /\ operand.nodes = popped.nodes /\ IsParser(operand)
    BY <1>9, Regarded DEF Kept, Inside
  <1> HIDE DEF operand
  <1>11. Kept(p, operand) /\ Inside(operand, i, base) /\ Len(operand.nodes) >= i + 2
    BY <1>8, <1>9, <1>10, KeptTwice, InsideSame
  <1>12. Kept(p, SetTop(operand, n)) /\ Inside(SetTop(operand, n), i, base)
    BY <1>3, <1>11, Topping DEF Inner
  <1>13. Answers(p, Push(SetTop(operand, n), args), i, base)
    BY <1>4, <1>12, Pushing DEF Inner
  <1>14. Answers(p, Undefined(operand), i, base)
    BY <1>11, AnswersFail
  <1> QED BY <1>1, <1>13, <1>14

LEMMA InfixAnswers ==
  ASSUME NEW p, NEW i, NEW base, Ready(p, i, base), NEW w, ~Waits(Top(p))
  PROVE  Answers(p, Infix(p, w), i, base)
  <1> DEFINE left == IF Binds(p, Priority[w]) THEN Regardless(PopNode(p)) ELSE p
             n    == [Node("operator", w, <<>>) EXCEPT !.kids = @ \o <<Top(left), Null>>]
  <1>1. Infix(p, w) = Undefined(p) \/ Infix(p, w) = SetTop(left, n)
    BY DEF Infix, Wrap
  <1>2. IsNode(n) /\ n.type = "operator"
    BY DEF IsNode, Node
  <1>3. /\ Kept(p, p) /\ Inside(p, i, base) /\ Opens(p.nodes, i, base)
        /\ Len(p.nodes) \in Nat /\ i \in Nat /\ Len(p.nodes) >= i + 2
    <2>1. Inside(p, i, base) /\ Len(p.nodes) # i + 1
      BY DEF Ready
    <2>2. Len(p.nodes) \in Nat /\ i \in Nat /\ Len(p.nodes) >= i + 1 /\ Opens(p.nodes, i, base)
      BY <2>1, InsideStands DEF Inside
    <2> QED BY <2>1, <2>2, AnswersSame
  <1>4. Kept(p, left) /\ Inside(left, i, base) /\ Len(left.nodes) >= i + 2
    <2>1. CASE Binds(p, Priority[w])
      <3> DEFINE r == PopNode(p)
                 l == Len(p.nodes) - 1
      <3>1. l \in 1..Len(p.nodes) /\ p.nodes[l].type \in {"operator", "prefix"}
        BY <1>3, <2>1 DEF Binds, Under
      <3>2. l >= i + 2
        BY <1>3, <3>1, Above DEF Inner
      <3>3. Kept(p, r) /\ Inside(r, i, base)
        BY <1>3, PoppingInside
      <3>4. Len(r.nodes) = l
        <4>1. Shrunk(p.nodes, r.nodes, l)
          BY <1>3, <3>2, InsideStands, Popping
        <4> QED BY <4>1 DEF Shrunk
      <3>5. left = Regardless(r)
        BY <2>1
      <3> HIDE DEF r, l, left
      <3>6. Kept(r, left) /\ left.nodes = r.nodes /\ IsParser(left)
        BY <3>3, <3>5, Regarded DEF Kept
      <3> QED BY <3>2, <3>3, <3>4, <3>6, KeptTwice, InsideSame
    <2>2. CASE ~Binds(p, Priority[w])
      BY <1>3, <2>2
    <2> QED BY <2>1, <2>2
  <1> HIDE DEF left, n
  <1>5. Answers(p, SetTop(left, n), i, base)
    BY <1>2, <1>4, Topping DEF Inner
  <1> QED BY <1>1, <1>3, <1>5, AnswersFail

LEMMA QualifierNameAnswers ==
  ASSUME NEW p, NEW i, NEW base, Ready(p, i, base), NEW w
  PROVE  Answers(p, QualifierName(p, w), i, base)
  <1> DEFINE r    == PopNodeUntil(p, "arguments")
             s    == Regardless(r)
             next == Expect(s)
             n    == Node("qualifier", w, <<>>)
  <1>1. QualifierName(p, w) = IF next.ok THEN PushNode(next, n) ELSE next
    BY DEF QualifierName
  <1>2. IsNode(n) /\ n.type = "qualifier"
    BY Made
  <1>3. Kept(p, r) /\ Inside(r, i, base)
    BY PoppingUntil DEF Inner, Ready
  <1> HIDE DEF n, r
  <1>4. Kept(r, s) /\ s.nodes = r.nodes /\ IsParser(s)
    BY <1>3, Regarded DEF Kept
  <1> HIDE DEF s
  <1>5. Kept(p, s) /\ Inside(s, i, base)
    BY <1>3, <1>4, KeptTwice, InsideSame
  <1>6. Answers(p, next, i, base) /\ Kept(p, next) /\ (next.ok => Inside(next, i, base))
    BY <1>5, Expecting
  <1> HIDE DEF next
  <1>7. next.ok => Answers(p, PushNode(next, n), i, base)
    BY <1>2, <1>6, Pushing DEF Inner
  <1> QED BY <1>1, <1>6, <1>7

LEMMA IgnoredFrom ==
  ASSUME NEW p, IsParser(p), NEW e
  PROVE  LET q == [p EXCEPT !.errors = @ \cup {e}, !.state = "IGNORE_UNTIL_BLOCK_END"]
         IN  Kept(p, q) /\ q.nodes = p.nodes
  BY DEF IsParser, Members, Kept

LEMMA OperatorNameAnswers ==
  ASSUME NEW p, NEW i, NEW base, Ready(p, i, base), NEW w, ~Waits(Top(p))
  PROVE  Answers(p, OperatorName(p, w), i, base)
  <1> DEFINE ignored(e) == [p EXCEPT !.errors = @ \cup {e}, !.state = "IGNORE_UNTIL_BLOCK_END"]
  <1>1. \/ OperatorName(p, w) = Infix(p, w)
        \/ OperatorName(p, w) = Undefined(p)
        \/ OperatorName(p, w) = QualifierName(p, w)
        \/ \E e : OperatorName(p, w) = ignored(e)
    BY DEF OperatorName
  <1>2. ASSUME NEW e PROVE Answers(p, ignored(e), i, base)
    <2>1. IsParser(p)
      BY DEF Ready, Inside
    <2>2. Kept(p, ignored(e)) /\ ignored(e).nodes = p.nodes /\ IsParser(ignored(e))
      BY <2>1, IgnoredFrom DEF Kept
    <2> HIDE DEF ignored
    <2> QED BY <2>2, InsideSame, AnswersReady DEF Ready
  <1> HIDE DEF ignored
  <1>3. Kept(p, p)
    BY AnswersSame
  <1> QED BY <1>1, <1>2, <1>3, InfixAnswers, AnswersFail, QualifierNameAnswers

LEMMA ArgumentWordAnswers ==
  ASSUME NEW p, NEW i, NEW base, Ready(p, i, base), NEW w
  PROVE  Answers(p, ArgumentWord(p, w), i, base)
  <1> DEFINE n == Node("literal", w, <<>>)
  <1>1. Answers(p, PushNode(p, n), i, base)
    <2>1. IsNode(n) /\ n.type = "literal"
      BY Made
    <2> HIDE DEF n
    <2> QED BY <2>1, AnswersSame, Pushing DEF Ready, Inner
  <1>2. CASE w \in Literals
    BY <1>1, <1>2 DEF ArgumentWord
  <1>3. CASE w \notin Literals /\ Waits(Top(p))
    BY <1>3, NameAnswers, StartOperandAnswers DEF ArgumentWord
  <1>4. CASE w \notin Literals /\ ~Waits(Top(p))
    BY <1>4, BarAnswers, FilterNameAnswers, OperatorNameAnswers DEF ArgumentWord
  <1> QED BY <1>2, <1>3, <1>4

LEMMA LiteralAnswers ==
  ASSUME NEW p, NEW i, NEW base, Ready(p, i, base), NEW w, Ignores(p) \/ InArguments(p)
  PROVE  Answers(p, Literal(p, w), i, base)
  BY AnswersSame, ArgumentWordAnswers DEF Literal

-----------------------------------------------------------------------------
(* The tags a text has opened and not ended, token by token.               *)

IsSeq(s) == \E S : s \in Seq(S)

LEMMA SeqEnds ==
  ASSUME NEW s, IsSeq(s), NEW x
  PROVE  /\ Len(s) \in Nat
         /\ IsSeq(Append(s, x)) /\ Len(Append(s, x)) = Len(s) + 1 /\ Append(s, x)[Len(s) + 1] = x
         /\ \A j \in 1..Len(s) : Append(s, x)[j] = s[j]
         /\ Len(s) >= 1 => /\ s # <<>> /\ Last(s) = s[Len(s)]
                            /\ IsSeq(Front(s)) /\ Len(Front(s)) = Len(s) - 1
                            /\ \A j \in 1..(Len(s) - 1) : Front(s)[j] = s[j]
  <1> DEFINE n == Len(s)
             t == Front(s)
             u == Append(s, x)
  <1>1. PICK S : s \in Seq(S)
    BY DEF IsSeq
  <1>2. n \in Nat /\ s \in Seq(S \cup {x})
    BY <1>1
  <1>3. /\ u \in Seq(S \cup {x}) /\ Len(u) = n + 1 /\ u[n + 1] = x
        /\ \A j \in 1..n : u[j] = s[j]
    BY <1>2
  <1>4. ASSUME n >= 1
        PROVE  /\ s # <<>> /\ Last(s) = s[n] /\ t \in Seq(S) /\ Len(t) = n - 1
               /\ \A j \in 1..(n - 1) : t[j] = s[j]
    <2>1. \A j \in 1..(n - 1) : s[j] \in S
      BY <1>1, <1>2
    <2>2. t = SubSeq(s, 1, n - 1) /\ Last(s) = s[n]
      BY DEF Front, Last
    <2>3. s # <<>>
      BY <1>4
    <2> HIDE DEF n, t
    <2>4. /\ SubSeq(s, 1, n - 1) \in Seq(S)
          /\ Len(SubSeq(s, 1, n - 1)) = IF 1 <= n - 1 THEN n - 1 - 1 + 1 ELSE 0
          /\ \A j \in 1..(n - 1 - 1 + 1) : SubSeq(s, 1, n - 1)[j] = s[1 + j - 1]
      <3>1. 1 \in Int /\ n - 1 \in Int
        BY <1>2
      <3> QED BY <2>1, <3>1, SubSeqProperties
    <2>5. \A j \in 1..(n - 1) : j \in 1..(n - 1 - 1 + 1) /\ 1 + j - 1 = j
      BY <1>2
    <2> QED BY <1>2, <1>4, <2>2, <2>3, <2>4, <2>5
  <1> HIDE DEF n, t, u
  <1>5. n >= 1 => /\ s # <<>> /\ Last(s) = s[n] /\ IsSeq(t) /\ Len(t) = n - 1
                  /\ \A j \in 1..(n - 1) : t[j] = s[j]
    BY <1>4 DEF IsSeq
  <1>6. IsSeq(u)
    BY <1>3 DEF IsSeq
  <1> QED BY <1>2, <1>3, <1>5, <1>6 DEF n, t, u

OpenTags(t) ==
  CHOOSE f : f = [k \in 0..Len(t) |-> IF k = 0 THEN <<>>
                                      ELSE IF k > 1 /\ t[k - 1] \in Heads THEN Opened(f[k - 1], t[k])
                                      ELSE f[k - 1]]

LEMMA OpenTagsDef ==
  ASSUME NEW t, Len(t) \in Nat
  PROVE  /\ OpenTags(t)[0] = <<>>
         /\ \A k \in 1..Len(t) :
              OpenTags(t)[k] = IF k > 1 /\ t[k - 1] \in Heads THEN Opened(OpenTags(t)[k - 1], t[k])
                               ELSE OpenTags(t)[k - 1]
  <1> DEFINE Step(f, k) == IF k > 1 /\ t[k - 1] \in Heads THEN Opened(f[k - 1], t[k]) ELSE f[k - 1]
             Is(f, n) == f = [k \in 0..n |-> IF k = 0 THEN <<>> ELSE Step(f, k)]
             S == {n \in Nat : \E f : Is(f, n)}
  <1>1. 0 \in S
    <2> DEFINE f == [k \in 0..0 |-> <<>>]
    <2>1. Is(f, 0)
      OBVIOUS
    <2> QED BY <2>1
  <1>2. ASSUME NEW n \in S PROVE n + 1 \in S
    <2>1. PICK f : Is(f, n)
      OBVIOUS
    <2> DEFINE g == [k \in 0..(n + 1) |-> IF k <= n THEN f[k] ELSE Step(f, n + 1)]
    <2>2. \A k \in 0..n : g[k] = f[k]
      OBVIOUS
    <2>3. g[n + 1] = Step(f, n + 1)
      OBVIOUS
    <2>4. \A k \in 1..(n + 1) : k - 1 \in 0..n
      OBVIOUS
    <2>5. DOMAIN g = 0..(n + 1) /\ g = [k \in 0..(n + 1) |-> g[k]]
      OBVIOUS
    <2> HIDE DEF g
    <2>6. \A k \in 1..(n + 1) : Step(g, k) = Step(f, k)
      BY <2>2, <2>4
    <2> HIDE DEF Step
    <2>7. \A k \in 0..n : f[k] = IF k = 0 THEN <<>> ELSE Step(f, k)
      BY <2>1
    <2>8. ASSUME NEW k \in 0..(n + 1)
          PROVE  g[k] = IF k = 0 THEN <<>> ELSE Step(g, k)
      <3>1. CASE k = n + 1
        BY <2>3, <2>6, <3>1
      <3>2. CASE k # n + 1
        <4>1. k \in 0..n /\ (k # 0 => k \in 1..(n + 1))
          BY <3>2
        <4> QED BY <2>2, <2>6, <2>7, <4>1
      <3> QED BY <3>1, <3>2
    <2>9. Is(g, n + 1)
      BY <2>5, <2>8
    <2> HIDE DEF Is
    <2> QED BY <2>9
  <1>3. S = Nat
    <2> HIDE DEF S
    <2> QED BY <1>1, <1>2, Counting DEF S
  <1>4. \E f : Is(f, Len(t))
    <2> HIDE DEF Is
    <2> QED BY <1>3
  <1>5. OpenTags(t) = CHOOSE f : Is(f, Len(t))
    BY DEF OpenTags
  <1>6. Is(OpenTags(t), Len(t))
    <2> HIDE DEF Is
    <2> QED BY <1>4, <1>5
  <1> DEFINE f == OpenTags(t)
  <1> HIDE DEF f
  <1>7. Is(f, Len(t))
    BY <1>6 DEF f
  <1> HIDE DEF Step
  <1>8. f[0] = <<>> /\ \A k \in 1..Len(t) : f[k] = Step(f, k)
    BY <1>7
  <1> QED BY <1>8 DEF f, Step

LEMMA UnendedIs ==
  ASSUME NEW t PROVE Unended(t) = OpenTags(t)[Len(t)]
  BY DEF Unended, OpenTags

LEMMA UnendedNothing == Unended(<<>>) = <<>>
  <1>1. Len(<<>>) = 0
    OBVIOUS
  <1> QED BY <1>1, UnendedIs, OpenTagsDef

\* One more token.
LEMMA UnendedNext ==
  ASSUME NEW t, IsSeq(t), NEW v
  PROVE  Unended(Append(t, v)) = IF Len(t) >= 1 /\ t[Len(t)] \in Heads THEN Opened(Unended(t), v) ELSE Unended(t)
  <1> DEFINE n == Len(t)
             u == Append(t, v)
             f == OpenTags(t)
             g == OpenTags(u)
             S == {k \in Nat : k <= n => g[k] = f[k]}
  <1>1. n \in Nat /\ Len(u) = n + 1 /\ u[n + 1] = v /\ \A j \in 1..n : u[j] = t[j]
    BY SeqEnds
  <1> HIDE DEF n, u
  <1>2. /\ f[0] = <<>>
        /\ \A k \in 1..n : f[k] = IF k > 1 /\ t[k - 1] \in Heads THEN Opened(f[k - 1], t[k]) ELSE f[k - 1]
    BY <1>1, OpenTagsDef DEF n
  <1>3. /\ g[0] = <<>>
        /\ \A k \in 1..(n + 1) : g[k] = IF k > 1 /\ u[k - 1] \in Heads THEN Opened(g[k - 1], u[k]) ELSE g[k - 1]
    BY <1>1, OpenTagsDef
  <1>4. Unended(t) = f[n] /\ Unended(u) = g[n + 1]
    BY <1>1, UnendedIs DEF n
  <1> HIDE DEF f, g
  <1>5. S = Nat
    <2>1. 0 \in S
      BY <1>2, <1>3
    <2>2. ASSUME NEW k \in S PROVE k + 1 \in S
      <3> SUFFICES ASSUME k + 1 <= n PROVE g[k + 1] = f[k + 1]
        OBVIOUS
      <3>1. /\ k + 1 \in 1..n /\ k + 1 \in 1..(n + 1) /\ k + 1 - 1 = k /\ k <= n
            /\ (k + 1 > 1 => k \in 1..n)
        BY <1>1
      <3>2. g[k] = f[k] /\ u[k + 1] = t[k + 1] /\ (k + 1 > 1 => u[k] = t[k])
        BY <1>1, <3>1
      <3>3. f[k + 1] = IF k + 1 > 1 /\ t[k] \in Heads THEN Opened(f[k], t[k + 1]) ELSE f[k]
        BY <1>2, <3>1
      <3>4. g[k + 1] = IF k + 1 > 1 /\ u[k] \in Heads THEN Opened(g[k], u[k + 1]) ELSE g[k]
        BY <1>3, <3>1
      <3> QED BY <3>2, <3>3, <3>4
    <2> HIDE DEF S
    <2> QED BY <2>1, <2>2, Counting DEF S
  <1>6. g[n] = f[n]
    BY <1>1, <1>5
  <1>7. g[n + 1] = IF n + 1 > 1 /\ u[n] \in Heads THEN Opened(g[n], u[n + 1]) ELSE g[n]
    <2> DEFINE m == n + 1
    <2>1. m \in 1..(n + 1) /\ m - 1 = n
      BY <1>1
    <2> HIDE DEF m
    <2>2. g[m] = IF m > 1 /\ u[m - 1] \in Heads THEN Opened(g[m - 1], u[m]) ELSE g[m - 1]
      BY <1>3, <2>1
    <2>3. g[m] = IF m > 1 /\ u[n] \in Heads THEN Opened(g[n], u[m]) ELSE g[n]
      BY <2>1, <2>2
    <2> QED BY <2>3 DEF m
  <1>8. (n + 1 > 1 <=> n >= 1) /\ (n >= 1 => u[n] = t[n])
    BY <1>1
  <1>9. Unended(u) = IF n >= 1 /\ t[n] \in Heads THEN Opened(Unended(t), v) ELSE Unended(t)
    BY <1>1, <1>4, <1>6, <1>7, <1>8
  <1> QED BY <1>9 DEF n, u

\* Only words open and end tags, and only as names.
LEMMA OpenedByNames ==
  ASSUME NamesAssumption, NEW t, IsSeq(t), NEW v,
         v \in Symbols \cup Texts \/ (Len(t) >= 1 /\ t[Len(t)] \notin Heads)
  PROVE  Unended(Append(t, v)) = Unended(t)
  <1> DEFINE open == Unended(t)
             next == Unended(Append(t, v))
  <1>1. next = IF Len(t) >= 1 /\ t[Len(t)] \in Heads THEN Opened(open, v) ELSE open
    BY UnendedNext
  <1> HIDE DEF open, next
  <1>2. v \in Symbols \cup Texts => v \notin DOMAIN EndOf /\ v \notin DOMAIN TagTypes
    BY DEF NamesAssumption
  <1>3. v \in Symbols \cup Texts => Opened(open, v) = open
    BY <1>2 DEF Opened, Encloses, ContextTags
  <1>4. next = open
    BY <1>1, <1>3
  <1> QED BY <1>4 DEF open, next

-----------------------------------------------------------------------------
(* The stack of the tags that are open.                                    *)

\* The stack s holds the tags of open, each in the body of the one before it.
Lies(s, open) ==
  /\ IsSeq(open)
  /\ \A k \in 1..Len(open) : s[2 * k - 1].type = "concat" /\ s[2 * k].type = "tag" /\ s[2 * k].sym = open[k]

\* So it does, and the body of the innermost one is on top.
Between(s, open) == Lies(s, open) /\ Len(s) = 2 * Len(open) + 1 /\ s[Len(s)].type = "concat"

Stays(n) == n.type = "tag" /\ TagTypes[n.sym].composition # "FREE"

\* Node i of the stack is that of a block; when the block is over, open is left.
Leaves(s, i, blockType, open) ==
  /\ i \in Nat
  /\ \/ /\ blockType = "NONE"
        /\ \E under : /\ Lies(s, under) /\ i = 2 * Len(under) + 2 /\ s[i - 1].type = "concat"
                      /\ open = IF Stays(s[i]) THEN Append(under, s[i].sym) ELSE under
     \/ /\ blockType = "INTERMEDIATE"
        /\ Lies(s, open) /\ Len(open) >= 1 /\ i = 2 * Len(open) + 1
     \/ /\ blockType = "END"
        /\ \E under : /\ Lies(s, under) /\ Len(under) >= 1 /\ i = 2 * Len(under)
                      /\ open = Front(under)

\* The first m nodes are the same but for their children.
Same(s, t, m) == \A j \in 1..m : t[j].type = s[j].type /\ t[j].sym = s[j].sym

LEMMA SameTwice ==
  ASSUME NEW s, NEW t, NEW u, NEW m \in Nat, NEW n \in Nat, Same(s, t, m), Same(t, u, n), n <= m
  PROVE  Same(s, u, n)
  BY DEF Same

LEMMA SameTop ==
  ASSUME NEW s, NEW t, NEW m \in Nat, Same(s, t, m - 1), t[m].type = s[m].type, t[m].sym = s[m].sym
  PROVE  Same(s, t, m)
  <1>1. \A j \in 1..m : j \in 1..(m - 1) \/ j = m
    OBVIOUS
  <1> QED BY <1>1 DEF Same

LEMMA ShrunkSame ==
  ASSUME NEW s, NEW t, NEW m, IsStack(s), Shrunk(s, t, m)
  PROVE  Same(s, t, m) /\ Len(t) = m
  <1>1. m \in Nat /\ m >= 1 /\ \A j \in 1..m : j \in 1..(m - 1) \/ j = m
    BY StackIsLong DEF Shrunk
  <1> QED BY <1>1 DEF Same, Shrunk

LEMMA LiesSame ==
  ASSUME NEW s, NEW t, NEW open, Lies(s, open), NEW m \in Nat, Same(s, t, m), m >= 2 * Len(open)
  PROVE  Lies(t, open)
  <1>1. Len(open) \in Nat /\ IsSeq(open)
    BY SeqEnds DEF Lies
  <1>2. \A k \in 1..Len(open) : 2 * k - 1 \in 1..m /\ 2 * k \in 1..m
    BY <1>1
  <1> QED BY <1>1, <1>2 DEF Lies, Same

LEMMA LeavesSame ==
  ASSUME NEW s, NEW t, NEW i, NEW blockType, NEW open, Leaves(s, i, blockType, open), Same(s, t, i)
  PROVE  Leaves(t, i, blockType, open)
  <1>1. i \in Nat
    BY DEF Leaves
  <1>2. ASSUME blockType = "NONE", NEW under, Lies(s, under), i = 2 * Len(under) + 2, s[i - 1].type = "concat",
               open = IF Stays(s[i]) THEN Append(under, s[i].sym) ELSE under
        PROVE  Leaves(t, i, blockType, open)
    <2>1. Len(under) \in Nat
      BY <1>2, SeqEnds DEF Lies
    <2>2. i - 1 \in 1..i /\ i \in 1..i /\ i >= 2 * Len(under)
      BY <1>2, <2>1
    <2>3. Lies(t, under)
      BY <1>1, <1>2, <2>2, LiesSame
    <2>4. t[i - 1].type = "concat" /\ t[i].type = s[i].type /\ t[i].sym = s[i].sym
      BY <1>2, <2>2 DEF Same
    <2>5. open = IF Stays(t[i]) THEN Append(under, t[i].sym) ELSE under
      BY <1>2, <2>4 DEF Stays
    <2> QED BY <1>1, <1>2, <2>3, <2>4, <2>5 DEF Leaves
  <1>3. ASSUME blockType = "INTERMEDIATE", Lies(s, open), Len(open) >= 1, i = 2 * Len(open) + 1
        PROVE  Leaves(t, i, blockType, open)
    <2>1. Len(open) \in Nat
      BY <1>3, SeqEnds DEF Lies
    <2>2. i >= 2 * Len(open)
      BY <1>3, <2>1
    <2>3. Lies(t, open)
      BY <1>1, <1>3, <2>2, LiesSame
    <2> QED BY <1>1, <1>3, <2>3 DEF Leaves
  <1>4. ASSUME blockType = "END", NEW under, Lies(s, under), Len(under) >= 1, i = 2 * Len(under), open = Front(under)
        PROVE  Leaves(t, i, blockType, open)
    <2>1. Len(under) \in Nat
      BY <1>4, SeqEnds DEF Lies
    <2>2. i >= 2 * Len(under)
      BY <1>4, <2>1
    <2>3. Lies(t, under)
      BY <1>1, <1>4, <2>2, LiesSame
    <2> QED BY <1>1, <1>4, <2>3 DEF Leaves
  <1> QED BY <1>2, <1>3, <1>4 DEF Leaves

\* A tag that stays gets a body, an intermediate a new one; any other node is
\* taken off its stack.
Placing(s, t, i, blockType) ==
  IF blockType = "NONE" /\ Stays(s[i])
  THEN Len(t) = i + 1 /\ Same(s, t, i) /\ t[Len(t)].type = "concat"
  ELSE IF blockType = "INTERMEDIATE"
  THEN Len(t) = i /\ Same(s, t, i - 1) /\ t[Len(t)].type = "concat"
  ELSE Len(t) = i - 1 /\ Same(s, t, i - 1)

LEMMA LeavesPlaced ==
  ASSUME NEW s, NEW i, NEW blockType, NEW open, Leaves(s, i, blockType, open), NEW t, Placing(s, t, i, blockType)
  PROVE  Between(t, open)
  <1>1. ASSUME blockType = "NONE", NEW under, Lies(s, under), i = 2 * Len(under) + 2, s[i - 1].type = "concat",
               open = IF Stays(s[i]) THEN Append(under, s[i].sym) ELSE under
        PROVE  Between(t, open)
    <2> DEFINE n == Len(under)
    <2>1. n \in Nat /\ i \in Nat /\ i = 2 * n + 2
      BY <1>1, SeqEnds DEF Lies, Leaves
    <2>2. CASE Stays(s[i])
      <3>1. /\ IsSeq(open) /\ Len(open) = n + 1 /\ open[n + 1] = s[i].sym
            /\ \A j \in 1..n : open[j] = under[j]
        BY <1>1, <2>2, SeqEnds DEF Lies
      <3>2. Len(t) = i + 1 /\ Same(s, t, i) /\ t[Len(t)].type = "concat"
        BY <1>1, <2>2 DEF Placing
      <3>3. Lies(t, under)
        BY <1>1, <2>1, <3>2, LiesSame
      <3>4. t[i - 1].type = "concat" /\ t[i].type = "tag" /\ t[i].sym = s[i].sym
        <4>1. i - 1 \in 1..i /\ i \in 1..i
          BY <2>1
        <4> QED BY <1>1, <2>2, <3>2, <4>1 DEF Same, Stays
      <3> HIDE DEF n
      <3>5. ASSUME NEW k \in 1..(n + 1)
            PROVE  t[2 * k - 1].type = "concat" /\ t[2 * k].type = "tag" /\ t[2 * k].sym = open[k]
        <4>1. CASE k = n + 1
          <5>1. 2 * k - 1 = i - 1 /\ 2 * k = i
            BY <2>1, <4>1
          <5> QED BY <3>1, <3>4, <4>1, <5>1
        <4>2. CASE k # n + 1
          <5>1. k \in 1..n
            BY <2>1, <4>2
          <5> QED BY <3>1, <3>3, <5>1 DEF Lies, n
        <4> QED BY <4>1, <4>2
      <3>6. Lies(t, open)
        BY <3>1, <3>5 DEF Lies
      <3>7. Len(t) = 2 * Len(open) + 1
        BY <2>1, <3>1, <3>2
      <3> QED BY <3>2, <3>6, <3>7 DEF Between
    <2>3. CASE ~Stays(s[i])
      <3>1. open = under
        BY <1>1, <2>3
      <3>2. Len(t) = i - 1 /\ Same(s, t, i - 1)
        BY <1>1, <2>3 DEF Placing
      <3>3. i - 1 \in Nat /\ i - 1 >= 2 * Len(under) /\ i - 1 \in 1..(i - 1) /\ i - 1 = 2 * Len(under) + 1
        BY <2>1
      <3>4. Lies(t, under)
        BY <1>1, <3>2, <3>3, LiesSame
      <3>5. t[i - 1].type = "concat"
        BY <1>1, <3>2, <3>3 DEF Same
      <3> QED BY <3>1, <3>2, <3>3, <3>4, <3>5 DEF Between
    <2> QED BY <2>2, <2>3
  <1>2. ASSUME blockType = "INTERMEDIATE", Lies(s, open), Len(open) >= 1, i = 2 * Len(open) + 1
        PROVE  Between(t, open)
    <2>1. Len(open) \in Nat
      BY <1>2, SeqEnds DEF Lies
    <2>2. Len(t) = i /\ Same(s, t, i - 1) /\ t[Len(t)].type = "concat"
      BY <1>2 DEF Placing
    <2>3. i - 1 \in Nat /\ i - 1 >= 2 * Len(open)
      BY <1>2, <2>1
    <2>4. Lies(t, open)
      BY <1>2, <2>2, <2>3, LiesSame
    <2> QED BY <1>2, <2>2, <2>4 DEF Between
  <1>3. ASSUME blockType = "END", NEW under, Lies(s, under), Len(under) >= 1, i = 2 * Len(under), open = Front(under)
        PROVE  Between(t, open)
    <2> DEFINE n == Len(under)
    <2>1. /\ n \in Nat /\ IsSeq(open) /\ Len(open) = n - 1
          /\ \A j \in 1..(n - 1) : open[j] = under[j]
      BY <1>3, SeqEnds DEF Lies
    <2>2. Len(t) = i - 1 /\ Same(s, t, i - 1)
      BY <1>3 DEF Placing
    <2>3. n >= 1 /\ i = 2 * n /\ n \in 1..n
      BY <1>3, <2>1
    <2>4. \A k \in 1..n : /\ s[2 * k - 1].type = "concat"
                           /\ s[2 * k].type = "tag" /\ s[2 * k].sym = under[k]
      BY <1>3 DEF Lies
    <2> HIDE DEF n
    <2>5. \A k \in 1..(n - 1) : 2 * k - 1 \in 1..(i - 1) /\ 2 * k \in 1..(i - 1) /\ k \in 1..n
      BY <2>1, <2>3
    <2>6. Lies(t, open)
      BY <2>1, <2>2, <2>4, <2>5 DEF Lies, Same
    <2>7. i - 1 = 2 * n - 1 /\ i - 1 \in 1..(i - 1) /\ i - 1 = 2 * (n - 1) + 1
      BY <2>1, <2>3
    <2>8. t[i - 1].type = "concat"
      BY <2>2, <2>3, <2>4, <2>7 DEF Same
    <2> QED BY <2>1, <2>2, <2>6, <2>7, <2>8 DEF Between
  <1> QED BY <1>1, <1>2, <1>3 DEF Leaves

LEMMA BetweenSame ==
  ASSUME NEW s, NEW open, Between(s, open), NEW t, Len(t) = Len(s), Same(s, t, Len(s))
  PROVE  Between(t, open)
  <1>1. Len(open) \in Nat /\ Len(s) = 2 * Len(open) + 1
    BY SeqEnds DEF Between, Lies
  <1>2. Len(s) \in Nat /\ Len(s) >= 2 * Len(open) /\ Len(s) \in 1..Len(s)
    BY <1>1
  <1>3. Lies(t, open)
    BY <1>2, LiesSame DEF Between
  <1>4. t[Len(t)].type = "concat"
    BY <1>2 DEF Same, Between
  <1> QED BY <1>1, <1>3, <1>4 DEF Between

\* A block is opened between blocks.
LEMMA LeavesOpened ==
  ASSUME NEW s, IsStack(s), NEW open, Between(s, open), NEW n, IsNode(n)
  PROVE  Leaves(Append(s, n), Len(s) + 1, "NONE", IF Stays(n) THEN Append(open, n.sym) ELSE open)
  <1> DEFINE t == Append(s, n)
             l == Len(s)
  <1>1. IsStack(t) /\ Len(t) = l + 1 /\ t[l + 1] = n /\ \A j \in 1..l : t[j] = s[j]
    BY Pushed
  <1>2. Len(open) \in Nat /\ l = 2 * Len(open) + 1 /\ Lies(s, open) /\ s[l].type = "concat"
    BY SeqEnds DEF Between, Lies
  <1> HIDE DEF t, l
  <1>3. l \in Nat /\ l >= 2 * Len(open) /\ l \in 1..l /\ l + 1 - 1 = l /\ l + 1 \in Nat /\ l + 1 = 2 * Len(open) + 2
    BY <1>2
  <1>4. Lies(t, open) /\ t[l + 1 - 1].type = "concat"
    <2>1. Same(s, t, l)
      BY <1>1 DEF Same
    <2>2. t[l] = s[l]
      BY <1>1, <1>3
    <2> QED BY <1>2, <1>3, <2>1, <2>2, LiesSame
  <1>5. Leaves(t, l + 1, "NONE", IF Stays(t[l + 1]) THEN Append(open, t[l + 1].sym) ELSE open)
    BY <1>3, <1>4 DEF Leaves
  <1>6. Leaves(t, l + 1, "NONE", IF Stays(n) THEN Append(open, n.sym) ELSE open)
    BY <1>1, <1>5
  <1> QED BY <1>6 DEF t, l

\* An intermediate is opened where the body of the innermost tag was.
LEMMA LeavesContinued ==
  ASSUME NEW s, NEW open, Between(s, open), Len(open) >= 1, NEW u, IsStack(u), Len(u) = Len(s) - 1,
         Same(s, u, Len(s) - 1), NEW n, IsNode(n)
  PROVE  Leaves(Append(u, n), Len(u) + 1, "INTERMEDIATE", open)
  <1> DEFINE t == Append(u, n)
             l == Len(u)
  <1>1. IsStack(t) /\ Len(t) = l + 1 /\ t[l + 1] = n /\ \A j \in 1..l : t[j] = u[j]
    BY Pushed
  <1>2. Len(open) \in Nat /\ Len(s) = 2 * Len(open) + 1 /\ Lies(s, open)
    BY SeqEnds DEF Between, Lies
  <1>3. l = Len(s) - 1 /\ Same(s, u, l)
    OBVIOUS
  <1> HIDE DEF t, l
  <1>4. l \in Nat /\ l >= 2 * Len(open) /\ l + 1 \in Nat /\ l + 1 = 2 * Len(open) + 1 /\ l <= l
    BY <1>2, <1>3
  <1>5. Same(u, t, l)
    BY <1>1 DEF Same
  <1>6. Same(s, t, l)
    BY <1>3, <1>4, <1>5, SameTwice
  <1>7. Lies(t, open)
    BY <1>2, <1>4, <1>6, LiesSame
  <1>8. Leaves(t, l + 1, "INTERMEDIATE", open)
    BY <1>4, <1>7 DEF Leaves
  <1> QED BY <1>8 DEF t, l

\* The tag that is ended is the innermost one.
LEMMA LeavesEnded ==
  ASSUME NEW s, IsStack(s), NEW open, Between(s, open), NEW t, NEW m \in 1..Len(s), Shrunk(s, t, m),
         \A j \in (m + 1)..Len(s) : s[j].type # "tag", s[m].type = "tag"
  PROVE  Len(open) >= 1 /\ Last(open) = t[m].sym /\ open # <<>> /\ Leaves(t, Len(t), "END", Front(open))
  <1> DEFINE n == Len(open)
  <1>1. n \in Nat /\ Len(s) = 2 * n + 1 /\ Lies(s, open) /\ s[Len(s)].type = "concat"
    BY SeqEnds DEF Between, Lies
  <1>2. Same(s, t, m) /\ Len(t) = m
    BY ShrunkSame
  <1> HIDE DEF n
  <1>3. m # Len(s) /\ m \in Nat /\ m >= 1
    BY <1>1
  <1>4. n >= 1 /\ n \in 1..n
    BY <1>1, <1>3
  <1>5. s[2 * n].type = "tag" /\ s[2 * n].sym = open[n]
    BY <1>1, <1>4 DEF Lies, n
  <1>6. m = 2 * n
    <2>1. m < 2 * n => 2 * n \in (m + 1)..Len(s)
      BY <1>1, <1>3
    <2>2. ~(m < 2 * n)
      BY <1>5, <2>1
    <2> QED BY <1>1, <1>3, <2>2
  <1>7. t[m].sym = open[n]
    <2>1. m \in 1..m
      BY <1>3
    <2>2. t[m].sym = s[m].sym
      BY <1>2, <2>1 DEF Same
    <2> QED BY <1>5, <1>6, <2>2
  <1>8. open # <<>> /\ Last(open) = open[n]
    BY <1>1, <1>4, SeqEnds DEF Lies, n
  <1>9. Lies(t, open)
    <2>1. m >= 2 * Len(open)
      BY <1>3, <1>6 DEF n
    <2> QED BY <1>1, <1>2, <1>3, <2>1, LiesSame
  <1>10. Leaves(t, m, "END", Front(open))
    BY <1>3, <1>4, <1>6, <1>9 DEF Leaves, n
  <1> QED BY <1>2, <1>4, <1>7, <1>8, <1>10 DEF n

-----------------------------------------------------------------------------
(* Blocks are opened and closed.                                           *)

\* The stack between blocks is changed, and the parser goes on if it did.
Onto(p, q) == Kept(p, q) /\ Blocks(q.nodes) /\ q.ok = p.ok

LEMMA OntoTwice ==
  ASSUME NEW p, NEW q, NEW r, Onto(p, q), Onto(q, r)
  PROVE  Onto(p, r)
  BY KeptTwice DEF Onto

LEMMA BlocksTop ==
  ASSUME NEW p, IsParser(p), Blocks(p.nodes)
  PROVE  /\ Top(p) = p.nodes[Len(p.nodes)] /\ IsNode(Top(p)) /\ Top(p).type \in Outer
         /\ Standing(p) /\ Len(p.nodes) \in Nat
  <1>1. IsStack(p.nodes) /\ Len(p.nodes) \in Nat /\ Len(p.nodes) >= 1 /\ Len(p.nodes) \in 1..Len(p.nodes)
    BY StackIsLong DEF Blocks
  <1>2. Top(p) = p.nodes[Len(p.nodes)]
    BY DEF Top, Last
  <1> QED BY <1>1, <1>2 DEF Blocks, IsStack, Standing

LEMMA OntoTop ==
  ASSUME NEW p, IsParser(p), Blocks(p.nodes), NEW n, IsNode(n), n.type \in Outer
  PROVE  LET s == p.nodes
             t == SetTop(p, n).nodes
         IN  Onto(p, SetTop(p, n)) /\ Len(t) = Len(s) /\ Same(s, t, Len(s) - 1) /\ t[Len(s)] = n
  <1> DEFINE s == p.nodes
             t == Append(Front(s), n)
             q == SetTop(p, n)
  <1>1. IsStack(s) /\ Len(s) \in Nat /\ Len(s) >= 1
    BY StackIsLong DEF Blocks
  <1>2. IsStack(t) /\ Len(t) = Len(s) /\ t[Len(s)] = n /\ \A j \in 1..(Len(s) - 1) : t[j] = s[j]
    BY <1>1, Replaced
  <1>3. \A j \in 1..(Len(s) - 1) : s[j].type \in Outer
    BY <1>1 DEF Blocks
  <1>4. Kept(p, q) /\ q.nodes = t /\ q.ok = p.ok
    <2>1. q = [p EXCEPT !.nodes = t]
      BY DEF SetTop
    <2> HIDE DEF q, t
    <2> QED BY <2>1, StackSet
  <1> HIDE DEF s, t, q
  <1>5. \A j \in 1..Len(s) : t[j].type \in Outer
    BY <1>1, <1>2, <1>3
  <1>6. Blocks(t)
    BY <1>1, <1>2, <1>5 DEF Blocks
  <1>7. Same(s, t, Len(s) - 1)
    BY <1>2 DEF Same
  <1> QED BY <1>2, <1>4, <1>6, <1>7 DEF Onto, q, s

LEMMA OntoPush ==
  ASSUME NEW p, IsParser(p), Blocks(p.nodes), NEW n, IsNode(n), n.type \in Outer
  PROVE  LET s == p.nodes
             t == Push(p, n).nodes
         IN  Onto(p, Push(p, n)) /\ Len(t) = Len(s) + 1 /\ Same(s, t, Len(s)) /\ t[Len(s) + 1] = n
  <1> DEFINE s == p.nodes
             t == Append(s, n)
             q == Push(p, n)
  <1>1. IsStack(s) /\ Len(s) \in Nat /\ Len(s) >= 1
    BY StackIsLong DEF Blocks
  <1>2. IsStack(t) /\ Len(t) = Len(s) + 1 /\ t[Len(s) + 1] = n /\ \A j \in 1..Len(s) : t[j] = s[j]
    BY <1>1, Pushed
  <1>3. \A j \in 1..Len(s) : s[j].type \in Outer
    BY <1>1 DEF Blocks
  <1>4. Kept(p, q) /\ q.nodes = t /\ q.ok = p.ok
    <2>1. q = [p EXCEPT !.nodes = t]
      BY DEF Push
    <2> HIDE DEF q, t
    <2> QED BY <2>1, StackSet
  <1> HIDE DEF s, t, q
  <1>5. \A j \in 1..Len(t) : t[j].type \in Outer
    BY <1>1, <1>2, <1>3
  <1>6. Blocks(t)
    BY <1>1, <1>2, <1>5 DEF Blocks
  <1>7. Same(s, t, Len(s))
    BY <1>2 DEF Same
  <1> QED BY <1>2, <1>4, <1>6, <1>7 DEF Onto, q, s

LEMMA OntoFront ==
  ASSUME NEW p, IsParser(p), IsStack(p.nodes), Len(p.nodes) > 1,
         \A j \in 1..(Len(p.nodes) - 1) : p.nodes[j].type \in Outer
  PROVE  LET s == p.nodes
             t == [p EXCEPT !.nodes = Front(@)].nodes
         IN  Onto(p, [p EXCEPT !.nodes = Front(@)]) /\ Len(t) = Len(s) - 1 /\ Same(s, t, Len(s) - 1)
  <1> DEFINE s == p.nodes
             t == Front(s)
             q == [p EXCEPT !.nodes = t]
  <1>1. IsStack(s) /\ Len(s) \in Nat /\ Len(s) >= 1 /\ Len(s) - 1 >= 1
    BY StackIsLong
  <1>2. IsStack(t) /\ Len(t) = Len(s) - 1 /\ \A j \in 1..(Len(s) - 1) : t[j] = s[j]
    BY <1>1, Fronted
  <1>3. \A j \in 1..(Len(s) - 1) : s[j].type \in Outer
    OBVIOUS
  <1>4. Kept(p, q) /\ q.nodes = t /\ q.ok = p.ok
    <2> HIDE DEF t
    <2> QED BY StackSet
  <1> HIDE DEF s, t
  <1>5. \A j \in 1..Len(t) : t[j].type \in Outer
    BY <1>1, <1>2, <1>3
  <1>6. Blocks(t)
    BY <1>1, <1>2, <1>5 DEF Blocks
  <1>7. Onto(p, q)
    BY <1>4, <1>6 DEF Onto
  <1>8. Same(s, t, Len(s) - 1)
    BY <1>2 DEF Same
  <1>9. q.nodes = t /\ Len(t) = Len(s) - 1
    BY <1>2, <1>4
  <1> QED BY <1>7, <1>8, <1>9 DEF t, s

LEMMA OntoExpect ==
  ASSUME NEW p, IsParser(p), Blocks(p.nodes)
  PROVE  LET t == Expect(p).nodes
         IN  Onto(p, Expect(p)) /\ Len(t) = Len(p.nodes) /\ Same(p.nodes, t, Len(p.nodes))
  <1> DEFINE n == Give(Top(p), Null)
             s == p.nodes
             t == Expect(p).nodes
  <1>1. IsNode(Top(p)) /\ Top(p).type \in Outer /\ Top(p) = s[Len(s)] /\ Len(s) \in Nat
    BY BlocksTop
  <1>2. IsNode(n) /\ n.type \in Outer /\ n.type = s[Len(s)].type /\ n.sym = s[Len(s)].sym
    BY <1>1, Given
  <1>3. Expect(p) = SetTop(p, n)
    BY <1>1 DEF Expect, Outer
  <1> HIDE DEF n
  <1>4. Onto(p, Expect(p)) /\ Len(t) = Len(s) /\ Same(s, t, Len(s) - 1) /\ t[Len(s)] = n
    BY <1>2, <1>3, OntoTop
  <1> HIDE DEF s, t
  <1>5. Same(s, t, Len(s))
    BY <1>1, <1>2, <1>4, SameTop
  <1> QED BY <1>4, <1>5 DEF s, t

LEMMA OpenBlockReady ==
  ASSUME NEW p, IsParser(p), Blocks(p.nodes), p.ok \/ p.errors # {},
         NEW type \in {"tag", "output"}, NEW sym
  PROVE  LET q == OpenBlock(p, Awaiting(type, sym))
         IN  /\ Kept(p, q)
             /\ q.ok => Ready(q, Len(p.nodes) + 1, Append(p.nodes, Awaiting(type, sym)))
             /\ ~q.ok => q.errors # {}
  <1> DEFINE n == Awaiting(type, sym)
             a == Awaiting("arguments", "")
             r == PushNode(p, n)
             q == OpenBlock(p, n)
             s == p.nodes
             l == Len(s)
             i == l + 1
             t == Append(s, n)
             u == Append(t, a)
  <1>1. IsNode(n) /\ n.type = type /\ IsNode(a) /\ a.type = "arguments"
    BY MadeAwaiting
  <1>2. HasKids(a) /\ Waits(a)
    <2>1. a.kids = <<Null>> /\ <<Null>> \in Seq({Null}) /\ <<Null>> # <<>>
      BY DEF Awaiting, Node
    <2>2. Last(<<Null>>) = Null
      BY DEF Last
    <2> HIDE DEF a
    <2> QED BY <2>1, <2>2 DEF HasKids, Waits
  <1>3. q = IF r.ok THEN PushNode(r, a) ELSE r
    BY DEF OpenBlock
  <1>4. r = Fail(p, "PARSE_DEPTH_EXCEEDED") \/ r = [p EXCEPT !.nodes = t]
    BY DEF PushNode, Push
  <1>5. PushNode(r, a) = Fail(r, "PARSE_DEPTH_EXCEEDED") \/ PushNode(r, a) = [r EXCEPT !.nodes = Append(r.nodes, a)]
    BY DEF PushNode, Push
  <1>6. IsStack(s) /\ l \in Nat /\ l >= 1 /\ \A j \in 1..l : s[j].type \in Outer
    BY StackIsLong DEF Blocks
  <1> HIDE DEF n, a, r, q, s, l
  <1>7. IsStack(t) /\ Len(t) = l + 1 /\ t[l + 1] = n /\ \A j \in 1..l : t[j] = s[j]
    BY <1>1, <1>6, Pushed DEF l
  <1> HIDE DEF t
  <1>8. IsStack(u) /\ Len(u) = l + 2 /\ u[l + 2] = a /\ \A j \in 1..(l + 1) : u[j] = t[j]
    BY <1>1, <1>6, <1>7, Pushed
  <1> HIDE DEF u
  <1>9. Opens(u, i, t)
    <2>1. IsStack(u) /\ i \in 2..(Len(u) - 1)
      BY <1>6, <1>8
    <2>2. \A j \in 1..(i - 1) : u[j].type \in Outer
      BY <1>6, <1>7, <1>8
    <2>3. t[i].type \in {"tag", "output"} /\ \A j \in 1..i : u[j] = t[j]
      BY <1>1, <1>7, <1>8
    <2>4. i + 1 = l + 2 /\ u[i + 1].type = "arguments" /\ HasKids(u[i + 1])
      BY <1>1, <1>2, <1>6, <1>8
    <2>5. \A j \in (i + 1)..Len(u) : Inner(u[j].type)
      BY <1>1, <1>6, <1>8 DEF Inner
    <2>6. ~(Len(u) >= i + 2)
      BY <1>6, <1>8
    <2> HIDE DEF i
    <2> QED BY <2>1, <2>2, <2>3, <2>4, <2>5, <2>6 DEF Opens
  <1>10. CASE r = Fail(p, "PARSE_DEPTH_EXCEEDED")
    <2>1. Kept(p, r) /\ ~r.ok /\ r.errors # {}
      BY <1>10, Failed
    <2> QED BY <1>3, <2>1 DEF q, n
  <1>11. CASE r = [p EXCEPT !.nodes = t]
    <2>1. Kept(p, r) /\ r.nodes = t /\ r.ok = p.ok /\ r.errors = p.errors /\ IsParser(r)
      BY <1>11, StackSet DEF Kept
    <2>2. CASE ~r.ok
      <3>1. Kept(p, q) /\ ~q.ok /\ q.errors # {}
        BY <1>3, <2>1, <2>2
      <3> QED BY <3>1 DEF q, n
    <2>3. CASE r.ok /\ PushNode(r, a) = Fail(r, "PARSE_DEPTH_EXCEEDED")
      <3>1. Kept(r, q) /\ ~q.ok /\ q.errors # {}
        BY <1>3, <2>1, <2>3, Failed
      <3>2. Kept(p, q)
        BY <2>1, <3>1, KeptTwice
      <3> QED BY <3>1, <3>2 DEF q, n
    <2>4. CASE r.ok /\ PushNode(r, a) = [r EXCEPT !.nodes = Append(r.nodes, a)]
      <3>1. q = [r EXCEPT !.nodes = u]
        BY <1>3, <2>1, <2>4 DEF u
      <3>2. Kept(r, q) /\ q.nodes = u /\ q.ok = r.ok /\ IsParser(q)
        BY <2>1, <3>1, StackSet DEF Kept
      <3>3. Kept(p, q)
        BY <2>1, <3>2, KeptTwice
      <3>4. Top(q) = a
        BY <1>8, <3>2 DEF Top, Last
      <3>5. Ready(q, i, t)
        BY <1>2, <1>9, <3>2, <3>4 DEF Ready, Inside
      <3> QED BY <2>4, <3>2, <3>3, <3>5 DEF q, n, t, l, s
    <2> QED BY <1>5, <2>2, <2>3, <2>4
  <1> QED BY <1>4, <1>10, <1>11

LEMMA PoppingBlock ==
  ASSUME NEW p, NEW i, NEW base, Inside(p, i, base), NEW type, base[i].type = type
  PROVE  LET q == PopNodeUntil(p, type)
         IN  /\ Kept(p, q) /\ IsStack(q.nodes) /\ Len(q.nodes) \in Nat /\ Len(q.nodes) > 1
             /\ q.ok => /\ Top(q).type = type
                        /\ \A j \in 1..(Len(q.nodes) - 1) : q.nodes[j].type \in Outer
                        /\ Len(q.nodes) = i /\ Same(base, q.nodes, i)
  <1> DEFINE q == PopNodeUntil(p, type)
             s == p.nodes
  <1>1. Standing(p) /\ Len(s) \in Nat /\ i \in Nat /\ i >= 2 /\ Len(s) >= i + 1 /\ Opens(s, i, base)
    BY InsideStands DEF Inside
  <1>2. Kept(p, q)
    BY <1>1, PopUntil
  <1>3. PICK m \in 1..Len(s) : /\ Shrunk(s, q.nodes, m)
                               /\ \A j \in (m + 1)..Len(s) : s[j].type # type
                               /\ q.ok => s[m].type = type
    BY <1>1, PopUntil
  <1> HIDE DEF q, s
  <1>4. m >= i
    <2>1. s[i].type = type
      BY <1>1 DEF Opens
    <2>2. m < i => i \in (m + 1)..Len(s)
      BY <1>1, <1>3
    <2> QED BY <1>1, <1>3, <2>1, <2>2
  <1>5. IsStack(q.nodes) /\ Len(q.nodes) = m /\ m \in Nat /\ m > 1
    BY <1>1, <1>3, <1>4 DEF Shrunk
  <1>6. ASSUME q.ok
        PROVE  /\ Top(q).type = type
               /\ \A j \in 1..(m - 1) : q.nodes[j].type \in Outer
               /\ m = i /\ Same(base, q.nodes, i)
    <2>1. Top(q).type = type
      BY <1>3, <1>5, <1>6 DEF Top, Last, Shrunk
    <2>2. m = i
      <3>1. m \in (i + 1)..Len(s) => Inner(s[m].type)
        BY <1>1 DEF Opens
      <3>2. ~Inner(type)
        BY <1>1 DEF Opens, Inner
      <3> QED BY <1>1, <1>3, <1>4, <1>6, <3>1, <3>2
    <2>3. \A j \in 1..(m - 1) : q.nodes[j] = s[j]
      BY <1>3 DEF Shrunk
    <2>4. \A j \in 1..(m - 1) : s[j].type \in Outer
      BY <1>1, <2>2 DEF Opens
    <2>5. Same(s, q.nodes, i)
      <3>1. IsStack(s)
        BY <1>1 DEF Opens
      <3> QED BY <1>3, <2>2, <3>1, ShrunkSame
    <2>6. Same(base, q.nodes, i)
      BY <1>1, <2>5 DEF Same, Opens
    <2> QED BY <2>1, <2>2, <2>3, <2>4, <2>6
  <1> QED BY <1>2, <1>5, <1>6 DEF q

\* A parser that stopped has an error or nodes left, which parse reports.
Reports(p) == p.errors # {} \/ Len(p.nodes) > 1

\* The end of a block leads back to the stack between blocks, with the tags of
\* open, or is reported.
Closes(p, q, open) ==
  /\ IsParser(q) /\ q.start = p.start /\ q.blockType \in {p.blockType, "NONE"}
  /\ IF q.ok THEN Blocks(q.nodes) /\ Between(q.nodes, open) ELSE Reports(q)

LEMMA ClosesFail ==
  ASSUME NEW p, NEW r, NEW e, NEW open, Kept(p, r)
  PROVE  Closes(p, Fail(r, e), open) /\ Closes(p, Undefined(r), open)
  <1>1. \A f : Kept(r, Fail(r, f)) /\ ~Fail(r, f).ok /\ Fail(r, f).errors # {}
    BY Failed DEF Kept
  <1> QED BY <1>1 DEF Closes, Kept, Reports, Undefined

LEMMA EndOutputContextCloses ==
  ASSUME NEW p, NEW i, NEW base, Inside(p, i, base), base[i].type = "output",
         NEW open, Leaves(base, i, "NONE", open)
  PROVE  Closes(p, EndOutputContext(p), open)
  <1> DEFINE start  == [p EXCEPT !.filterState = "UNSET"]
             closed == PopNodeUntil(start, "output")
             below  == [closed EXCEPT !.nodes = Front(@)]
             n      == Give(Top(below), Top(closed))
             q      == EndOutputContext(p)
             s      == closed.nodes
  <1>1. \/ q = Fail(start, "UNEXPECTED_END")
        \/ ~closed.ok /\ q = closed
        \/ closed.ok /\ q = Undefined(closed)
        \/ closed.ok /\ q = SetTop(below, n)
    BY DEF EndOutputContext
  <1>2. Kept(p, start) /\ start.nodes = p.nodes /\ IsParser(start)
    BY FilterSet DEF Inside, Kept
  <1> HIDE DEF start, q
  <1>3. Inside(start, i, base)
    BY <1>2, InsideSame
  <1>4. /\ Kept(start, closed) /\ IsStack(s) /\ Len(s) \in Nat /\ Len(s) > 1
        /\ closed.ok => /\ Top(closed).type = "output"
                        /\ \A j \in 1..(Len(s) - 1) : s[j].type \in Outer
                        /\ Len(s) = i /\ Same(base, s, i)
    BY <1>3, PoppingBlock
  <1> HIDE DEF closed
  <1>5. Kept(p, closed) /\ IsParser(closed)
    BY <1>2, <1>4, KeptTwice DEF Kept
  <1>6. closed.ok => Closes(p, SetTop(below, n), open)
    <2> SUFFICES ASSUME closed.ok PROVE Closes(p, SetTop(below, n), open)
      OBVIOUS
    <2>1. Onto(closed, below) /\ Len(below.nodes) = Len(s) - 1 /\ Same(s, below.nodes, Len(s) - 1)
      BY <1>4, <1>5, OntoFront
    <2>2. IsParser(below) /\ Blocks(below.nodes)
      BY <2>1 DEF Onto, Kept
    <2> HIDE DEF below
    <2>3. IsNode(n) /\ n.type \in Outer
      BY <2>2, BlocksTop, Given
    <2>4. n.type = below.nodes[Len(below.nodes)].type /\ n.sym = below.nodes[Len(below.nodes)].sym
      BY <2>2, BlocksTop, Given
    <2> HIDE DEF n
    <2> DEFINE t == SetTop(below, n).nodes
               u == below.nodes
               l == Len(s)
    <2>5. Onto(below, SetTop(below, n)) /\ Len(t) = Len(u) /\ Same(u, t, Len(u) - 1) /\ t[Len(u)] = n
      BY <2>2, <2>3, OntoTop
    <2>6. Onto(closed, SetTop(below, n))
      BY <2>1, <2>5, OntoTwice
    <2> HIDE DEF t, u, s, l
    <2>7. l \in Nat /\ l > 1 /\ Len(u) = l - 1 /\ Len(u) \in Nat /\ l - 1 <= l /\ l = i
      BY <1>4, <2>1 DEF u, l
    <2>8. Same(u, t, Len(u))
      BY <2>4, <2>5, <2>7, SameTop DEF u
    <2>9. Same(base, s, l) /\ Same(s, u, l - 1) /\ Same(u, t, l - 1) /\ Len(t) = l - 1
      BY <1>4, <2>1, <2>5, <2>7, <2>8 DEF u, l
    <2>10. Same(s, t, l - 1)
      BY <2>7, <2>9, SameTwice
    <2>11. Leaves(s, l, "NONE", open) /\ ~Stays(s[l])
      <3>1. Leaves(s, l, "NONE", open)
        BY <2>7, <2>9, LeavesSame
      <3>2. s[l] = Top(closed)
        BY DEF Top, Last, s, l
      <3> QED BY <1>4, <3>1, <3>2 DEF Stays
    <2>12. Placing(s, t, l, "NONE")
      BY <2>9, <2>10, <2>11 DEF Placing
    <2>13. Between(t, open)
      BY <2>11, <2>12, LeavesPlaced
    <2> QED BY <1>5, <2>6, <2>13 DEF Closes, Onto, Kept, t
  <1>7. ~closed.ok => Closes(p, closed, open)
    BY <1>4, <1>5 DEF Closes, Reports, Kept
  <1>8. Closes(p, Fail(start, "UNEXPECTED_END"), open) /\ Closes(p, Undefined(closed), open)
    BY <1>2, <1>5, ClosesFail
  <1>9. Closes(p, q, open)
    BY <1>1, <1>6, <1>7, <1>8
  <1> QED BY <1>9 DEF q

LEMMA ErrorsSet ==
  ASSUME NEW p, IsParser(p), NEW e, p.errors \subseteq e
  PROVE  LET q == [p EXCEPT !.errors = e]
         IN  Kept(p, q) /\ q.nodes = p.nodes /\ q.ok = p.ok
  BY DEF IsParser, Members, Kept

LEMMA Placed ==
  ASSUME NEW p, IsParser(p)
  PROVE  LET q == [p EXCEPT !.state = "NODE", !.blockType = "NONE"]
         IN  IsParser(q) /\ q.start = p.start /\ q.blockType = "NONE" /\ q.nodes = p.nodes /\ q.ok = p.ok
             /\ q.errors = p.errors
  BY DEF IsParser, Members

LEMMA PlaceTagCloses ==
  ASSUME NEW p, IsParser(p), Blocks(p.nodes), p.ok, Top(p).type = "tag",
         NEW open, Leaves(p.nodes, Len(p.nodes), p.blockType, open)
  PROVE  Closes(p, PlaceTag(p), open)
  <1> DEFINE tag   == Top(p)
             type  == TagTypes[tag.sym]
             given == Len(tag.kids[1].kids)
             wrong == \/ type.minArguments # -1 /\ given < type.minArguments
                      \/ type.maxArguments # -1 /\ given > type.maxArguments
             errors  == IF wrong THEN p.errors \cup {"INVALID_ARGUMENTS"} ELSE p.errors
             counted == [p EXCEPT !.errors = errors]
             below   == [counted EXCEPT !.nodes = Front(@)]
             moved   == SetTop(below, Give(Top(below), tag))
             stays   == p.blockType = "NONE" /\ type.composition # "FREE"
             placed  == IF stays THEN Push(Expect(counted), Concat)
                        ELSE IF p.blockType = "INTERMEDIATE" THEN Push(Expect(moved), Concat)
                        ELSE moved
             alone   == Len(p.nodes) = 1
             q       == PlaceTag(p)
             s       == p.nodes
             l       == Len(s)
  <1>1. q = Undefined(p) \/ (~alone /\ q = [placed EXCEPT !.state = "NODE", !.blockType = "NONE"])
    BY DEF PlaceTag
  <1>2. /\ stays => placed = Push(Expect(counted), Concat)
        /\ ~stays /\ p.blockType = "INTERMEDIATE" => placed = Push(Expect(moved), Concat)
        /\ ~stays /\ p.blockType # "INTERMEDIATE" => placed = moved
    OBVIOUS
  <1>3. Onto(p, counted) /\ counted.nodes = s
    <2>1. p.errors \subseteq errors
      OBVIOUS
    <2> HIDE DEF errors
    <2>2. Kept(p, counted) /\ counted.nodes = p.nodes /\ counted.ok = p.ok
      BY <2>1, ErrorsSet
    <2> QED BY <2>2 DEF Onto
  <1>4. IsParser(counted) /\ Blocks(counted.nodes)
    BY <1>3 DEF Onto, Kept
  <1> HIDE DEF counted, placed, q
  <1>5. IsNode(Concat) /\ Concat.type \in Outer /\ Concat.type = "concat"
    BY DEF Concat, IsNode, Node, Outer
  <1>l. l \in Nat /\ l >= 1
    BY StackIsLong DEF Blocks
  <1>stays. stays <=> p.blockType = "NONE" /\ Stays(s[l])
    <2>1. tag = s[l]
      BY BlocksTop
    <2> QED BY <2>1 DEF Stays
  <1> HIDE DEF stays
  \* The stack with the tag and a body on it.
  <1>6. /\ Onto(p, Push(Expect(counted), Concat))
        /\ LET t == Push(Expect(counted), Concat).nodes
           IN  Len(t) = l + 1 /\ Same(s, t, l) /\ t[l + 1].type = "concat"
    <2> DEFINE t == Push(Expect(counted), Concat).nodes
               u == Expect(counted).nodes
    <2>1. Onto(counted, Expect(counted)) /\ Len(u) = l /\ Same(s, u, l)
      BY <1>3, <1>4, OntoExpect
    <2>2. IsParser(Expect(counted)) /\ Blocks(Expect(counted).nodes)
      BY <2>1 DEF Onto, Kept
    <2>3. /\ Onto(Expect(counted), Push(Expect(counted), Concat))
          /\ Len(t) = Len(u) + 1 /\ Same(u, t, Len(u)) /\ t[Len(u) + 1] = Concat
      BY <1>5, <2>2, OntoPush
    <2>4. Onto(p, Push(Expect(counted), Concat))
      BY <1>3, <2>1, <2>3, OntoTwice
    <2> HIDE DEF t, u, l, s
    <2>5. Same(u, t, l) /\ Len(t) = l + 1 /\ t[l + 1].type = "concat"
      BY <1>5, <2>1, <2>3
    <2>6. Same(s, t, l)
      BY <1>l, <2>1, <2>5, SameTwice
    <2> QED BY <2>4, <2>5, <2>6 DEF t
  \* The stack without the tag, and with another body on it.
  <1>7. ~alone => /\ Onto(p, moved) /\ Len(moved.nodes) = l - 1 /\ Same(s, moved.nodes, l - 1)
                  /\ Onto(p, Push(Expect(moved), Concat))
                  /\ LET t == Push(Expect(moved), Concat).nodes
                     IN  Len(t) = l /\ Same(s, t, l - 1) /\ t[l].type = "concat"
    <2> SUFFICES ASSUME ~alone
                 PROVE  /\ Onto(p, moved) /\ Len(moved.nodes) = l - 1 /\ Same(s, moved.nodes, l - 1)
                        /\ Onto(p, Push(Expect(moved), Concat))
                        /\ LET t == Push(Expect(moved), Concat).nodes
                           IN  Len(t) = l /\ Same(s, t, l - 1) /\ t[l].type = "concat"
      OBVIOUS
    <2>1. l > 1 /\ l - 1 \in Nat /\ l - 1 >= 1
      <3>1. l # 1
        OBVIOUS
      <3> HIDE DEF l
      <3> QED BY <1>l, <3>1
    <2>2. IsStack(counted.nodes) /\ Len(counted.nodes) > 1
          /\ \A j \in 1..(Len(counted.nodes) - 1) : counted.nodes[j].type \in Outer
      <3>1. IsStack(s) /\ \A j \in 1..l : s[j].type \in Outer
        BY DEF Blocks
      <3> HIDE DEF l, s
      <3>2. \A j \in 1..(l - 1) : s[j].type \in Outer
        BY <1>l, <3>1
      <3> QED BY <1>3, <2>1, <3>1, <3>2 DEF l
    <2> DEFINE u == below.nodes
    <2>3. Onto(counted, below) /\ Len(u) = l - 1 /\ Same(s, u, l - 1)
      BY <1>3, <1>4, <2>2, OntoFront
    <2>4. IsParser(below) /\ Blocks(below.nodes)
      BY <2>3 DEF Onto, Kept
    <2> DEFINE n == Give(Top(below), tag)
    <2> HIDE DEF below, tag
    <2>5. IsNode(n) /\ n.type \in Outer /\ n.type = u[l - 1].type /\ n.sym = u[l - 1].sym
      <3>1. Top(below) = u[l - 1] /\ IsNode(Top(below)) /\ Top(below).type \in Outer
        <4>1. Top(below) = u[Len(u)] /\ IsNode(Top(below)) /\ Top(below).type \in Outer
          BY <2>4, BlocksTop
        <4> QED BY <2>3, <4>1
      <3> HIDE DEF u, l
      <3> QED BY <3>1, Given
    <2>6. moved = SetTop(below, n)
      OBVIOUS
    <2> HIDE DEF n, moved
    <2> DEFINE v == moved.nodes
    <2>7. Onto(below, moved) /\ Len(v) = Len(u) /\ Same(u, v, Len(u) - 1) /\ v[Len(u)] = n
      BY <2>4, <2>5, <2>6, OntoTop
    <2>8. Onto(p, moved)
      BY <1>3, <2>3, <2>7, OntoTwice
    <2>9. IsParser(moved) /\ Blocks(moved.nodes)
      BY <2>8 DEF Onto, Kept
    <2>10. Len(v) = l - 1 /\ Same(s, v, l - 1)
      <3> HIDE DEF u, v, l, s
      <3>1. Same(u, v, l - 1)
        BY <2>1, <2>3, <2>5, <2>7, SameTop
      <3> QED BY <2>1, <2>3, <2>7, <3>1, SameTwice
    <2> DEFINE w == Expect(moved).nodes
               t == Push(Expect(moved), Concat).nodes
    <2>11. Onto(moved, Expect(moved)) /\ Len(w) = Len(v) /\ Same(v, w, Len(v))
      BY <2>9, OntoExpect
    <2>12. IsParser(Expect(moved)) /\ Blocks(Expect(moved).nodes)
      BY <2>11 DEF Onto, Kept
    <2>13. /\ Onto(Expect(moved), Push(Expect(moved), Concat))
           /\ Len(t) = Len(w) + 1 /\ Same(w, t, Len(w)) /\ t[Len(w) + 1] = Concat
      BY <1>5, <2>12, OntoPush
    <2>14. Onto(p, Push(Expect(moved), Concat))
      BY <2>8, <2>11, <2>13, OntoTwice
    <2>15. Len(t) = l /\ Same(s, t, l - 1) /\ t[l].type = "concat"
      <3> HIDE DEF v, w, t, l, s
      <3>1. Same(v, w, l - 1) /\ Same(w, t, l - 1) /\ l - 1 + 1 = l /\ Len(w) = l - 1
        BY <1>l, <2>10, <2>11, <2>13
      <3>2. Same(s, w, l - 1)
        BY <2>1, <2>10, <3>1, SameTwice
      <3>3. Same(s, t, l - 1)
        BY <2>1, <3>1, <3>2, SameTwice
      <3> QED BY <1>5, <2>13, <3>1, <3>3
    <2> QED BY <2>8, <2>10, <2>14, <2>15
  <1> HIDE DEF moved, alone
  <1>8. ~alone => Onto(p, placed)
    BY <1>2, <1>6, <1>7
  <1>9. ~alone => Between(placed.nodes, open)
    <2>1. ~alone => Placing(s, placed.nodes, l, p.blockType)
      <3> HIDE DEF s, l
      <3>1. CASE stays
        BY <1>2, <1>6, <1>stays, <3>1 DEF Placing
      <3>2. CASE ~stays /\ p.blockType = "INTERMEDIATE"
        BY <1>2, <1>7, <1>stays, <3>2 DEF Placing
      <3>3. CASE ~stays /\ p.blockType # "INTERMEDIATE"
        BY <1>2, <1>7, <1>stays, <3>3 DEF Placing
      <3> QED BY <3>1, <3>2, <3>3
    <2> QED BY <2>1, LeavesPlaced
  <1>10. CASE q = Undefined(p)
    <2>1. Kept(p, p)
      BY KeptNothing
    <2> QED BY <1>10, <2>1, ClosesFail DEF q
  <1>11. CASE ~alone /\ q = [placed EXCEPT !.state = "NODE", !.blockType = "NONE"]
    <2>1. IsParser(placed) /\ Blocks(placed.nodes) /\ placed.ok /\ placed.start = p.start
      BY <1>8, <1>11 DEF Onto, Kept
    <2>2. IsParser(q) /\ q.start = p.start /\ q.blockType = "NONE" /\ q.nodes = placed.nodes /\ q.ok = placed.ok
      BY <1>11, <2>1, Placed
    <2>3. Closes(p, q, open)
      BY <1>9, <1>11, <2>1, <2>2 DEF Closes
    <2> QED BY <2>3 DEF q
  <1> QED BY <1>1, <1>10, <1>11

LEMMA ClosesKept ==
  ASSUME NEW p, NEW q, NEW r, NEW open, Kept(p, q), Closes(q, r, open)
  PROVE  Closes(p, r, open)
  BY DEF Kept, Closes

\* Nothing is popped when the top is what is looked for.
LEMMA PopNothing ==
  ASSUME NEW p, Standing(p), NEW type, Top(p).type = type
  PROVE  PopNodeUntil(p, type) = p
  <1> DEFINE n == Len(p.nodes)
             f == Pops(p)
             Stops(r) == ~r.ok \/ Top(r).type = type
             First(k) == Stops(f[k]) /\ \A j \in 0..(k - 1) : ~Stops(f[j])
             k == CHOOSE k \in 0..n : First(k)
  <1>1. PopNodeUntil(p, type) = f[k]
    BY DEF PopNodeUntil, PopWhile, Pops
  <1>2. n \in Nat /\ 0 \in 0..n
    BY StackIsLong DEF Standing
  <1>3. f[0] = p
    <2>1. f = [j \in 0..n |-> IF j = 0 THEN p ELSE PopNode(f[j - 1])]
      BY <1>2, PopsDef
    <2> HIDE DEF f, n
    <2> QED BY <1>2, <2>1
  <1> HIDE DEF n, f
  <1>4. First(0)
    BY <1>3
  <1>5. k \in 0..n /\ First(k)
    <2> HIDE DEF First
    <2> QED BY <1>2, <1>4
  <1> HIDE DEF k
  <1>6. k = 0
    <2>1. 0 \in 0..(k - 1) => ~Stops(f[0])
      BY <1>5
    <2>2. Stops(f[0])
      BY <1>3
    <2>3. k > 0 => 0 \in 0..(k - 1)
      BY <1>2, <1>5
    <2> QED BY <1>2, <1>5, <2>1, <2>2, <2>3
  <1> QED BY <1>1, <1>3, <1>6

\* The end of an end tag: the tag is on top.
LEMMA EndOfEndCloses ==
  ASSUME NEW p, IsParser(p), Blocks(p.nodes), Top(p).type = "tag", p.ok, p.blockType = "END",
         NEW open, Leaves(p.nodes, Len(p.nodes), "END", open)
  PROVE  Closes(p, EndTagContext(p), open)
  <1> DEFINE start  == [p EXCEPT !.filterState = "UNSET"]
             closed == PopNodeUntil(start, "tag")
             q      == EndTagContext(p)
  <1>1. /\ Kept(p, start) /\ start.nodes = p.nodes /\ start.ok = p.ok /\ IsParser(start)
        /\ start.blockType = "END"
    <2>1. Kept(p, start) /\ start.nodes = p.nodes /\ start.ok = p.ok
      BY FilterSet
    <2> HIDE DEF start
    <2> QED BY <2>1 DEF Kept
  <1>2. \/ q = Fail(start, "UNEXPECTED_END")
        \/ ~start.ok
        \/ ~closed.ok
        \/ q = PlaceTag(closed)
    BY DEF EndTagContext
  <1> HIDE DEF start, q
  <1>3. closed = start
    <2>1. Standing(start)
      BY <1>1, BlocksTop
    <2>2. Top(start).type = "tag"
      BY <1>1 DEF Top
    <2> QED BY <2>1, <2>2, PopNothing
  <1> HIDE DEF closed
  <1>4. Closes(p, PlaceTag(closed), open)
    <2>1. Top(start).type = "tag"
      BY <1>1 DEF Top
    <2>2. Closes(start, PlaceTag(start), open)
      BY <1>1, <2>1, PlaceTagCloses
    <2> QED BY <1>1, <1>3, <2>2, ClosesKept
  <1>5. Closes(p, Fail(start, "UNEXPECTED_END"), open)
    BY <1>1, ClosesFail
  <1>6. Closes(p, q, open)
    BY <1>1, <1>2, <1>3, <1>4, <1>5
  <1> QED BY <1>6 DEF q

LEMMA EndTagContextCloses ==
  ASSUME NEW p, NEW i, NEW base, Inside(p, i, base), base[i].type = "tag", p.blockType # "END",
         NEW open, Leaves(base, i, p.blockType, open)
  PROVE  Closes(p, EndTagContext(p), open)
  <1> DEFINE start  == [p EXCEPT !.filterState = "UNSET"]
             listed == PopNodeUntil(start, "arguments")
             n      == [Top(listed) EXCEPT !.kids = <<>>]
             pruned == IF Top(listed).kids = <<Null>> THEN SetTop(listed, n) ELSE listed
             closed == PopNodeUntil(pruned, "tag")
             q      == EndTagContext(p)
  <1>1. \/ q = Fail(start, "UNEXPECTED_END")
        \/ ~listed.ok /\ q = listed
        \/ listed.ok /\ ~closed.ok /\ q = closed
        \/ listed.ok /\ closed.ok /\ q = PlaceTag(closed)
    BY DEF EndTagContext
  <1>2. Kept(p, start) /\ start.nodes = p.nodes /\ IsParser(start)
    BY FilterSet DEF Inside, Kept
  <1> HIDE DEF start, q
  <1>3. Inside(start, i, base)
    BY <1>2, InsideSame
  <1>4. Kept(start, listed) /\ Inside(listed, i, base)
    BY <1>3, PoppingUntil DEF Inner
  <1> HIDE DEF listed
  <1>5. Kept(p, listed)
    BY <1>2, <1>4, KeptTwice
  <1>6. Kept(p, pruned) /\ Inside(pruned, i, base)
    <2>1. CASE Top(listed).kids = <<Null>>
      <3> DEFINE t == Append(Front(listed.nodes), n)
                 r == SetTop(listed, n)
      <3>1. IsNode(Top(listed)) /\ Inner(Top(listed).type) /\ Opens(listed.nodes, i, base) /\ IsParser(listed)
        BY <1>4, InsideStands DEF Inside
      <3>2. IsNode(n) /\ n.type = Top(listed).type /\ HasKids(n)
        <4>1. IsNode(n) /\ n.type = Top(listed).type /\ n.kids = <<>>
          BY <3>1 DEF IsNode
        <4>2. <<>> \in Seq({})
          OBVIOUS
        <4> QED BY <4>1, <4>2 DEF HasKids
      <3> HIDE DEF n
      <3>3. Opens(t, i, base)
        BY <3>1, <3>2, OpensReplaced DEF Top
      <3>4. r = [listed EXCEPT !.nodes = t]
        BY DEF SetTop
      <3> HIDE DEF r, t
      <3>5. Kept(listed, r) /\ r.nodes = t /\ IsParser(r)
        BY <3>1, <3>4, StackSet DEF Kept
      <3>6. Kept(p, r) /\ Inside(r, i, base)
        BY <1>5, <3>3, <3>5, KeptTwice DEF Inside
      <3> QED BY <2>1, <3>6 DEF r
    <2>2. CASE Top(listed).kids # <<Null>>
      BY <1>4, <1>5, <2>2
    <2> QED BY <2>1, <2>2
  <1> HIDE DEF pruned
  <1>7. /\ Kept(pruned, closed) /\ IsStack(closed.nodes) /\ Len(closed.nodes) > 1 /\ Len(closed.nodes) \in Nat
        /\ closed.ok => /\ Top(closed).type = "tag"
                        /\ \A j \in 1..(Len(closed.nodes) - 1) : closed.nodes[j].type \in Outer
                        /\ Len(closed.nodes) = i /\ Same(base, closed.nodes, i)
    BY <1>6, PoppingBlock
  <1> HIDE DEF closed
  <1>8. Kept(p, closed) /\ IsParser(closed) /\ closed.blockType = p.blockType
    BY <1>6, <1>7, KeptTwice DEF Kept
  <1>9. closed.ok => Closes(p, PlaceTag(closed), open)
    <2> SUFFICES ASSUME closed.ok PROVE Closes(p, PlaceTag(closed), open)
      OBVIOUS
    <2> DEFINE s == closed.nodes
               l == Len(s)
    <2>1. s[l].type \in Outer
      BY <1>7 DEF Top, Last, Outer
    <2>2. \A j \in 1..(l - 1) : s[j].type \in Outer
      BY <1>7
    <2>3. IsStack(s) /\ l \in Nat /\ l >= 1
      BY <1>7
    <2>4. Blocks(s)
      <3> HIDE DEF s
      <3>1. \A j \in 1..l : s[j].type \in Outer
        <4> HIDE DEF l
        <4> QED BY <2>1, <2>2, <2>3
      <3> QED BY <2>3, <3>1 DEF Blocks
    <2>5. Leaves(s, l, closed.blockType, open)
      <3>1. l = i /\ Same(base, s, i)
        BY <1>7
      <3> HIDE DEF s, l
      <3> QED BY <1>8, <3>1, LeavesSame
    <2>6. Closes(closed, PlaceTag(closed), open)
      BY <1>7, <1>8, <2>4, <2>5, PlaceTagCloses
    <2> QED BY <1>8, <2>6, ClosesKept
  <1>10. ~closed.ok => Closes(p, closed, open)
    BY <1>7, <1>8 DEF Closes, Reports, Kept
  <1>11. ~listed.ok => Closes(p, listed, open)
    <2>1. Len(listed.nodes) > 1
      BY <1>4, InsideStands
    <2> QED BY <1>5, <2>1 DEF Closes, Reports, Kept
  <1>12. Closes(p, Fail(start, "UNEXPECTED_END"), open)
    BY <1>2, ClosesFail
  <1>13. Closes(p, q, open)
    BY <1>1, <1>9, <1>10, <1>11, <1>12
  <1> QED BY <1>13 DEF q

-----------------------------------------------------------------------------
(* Where the parser is between two tokens of a text whose tags are named.  *)

\* In the text between blocks; after a raw tag, that text may end it.
AtText(p, t) ==
  /\ p.lexing \in {"INITIAL", "HALT"} /\ p.state = "NODE" /\ p.blockType = "NONE"
  /\ Blocks(p.nodes) /\ Between(p.nodes, Unended(t))
  /\ p.lexing = "HALT" => Len(t) >= 1 /\ t[Len(t)] \in Heads

\* After "{%", before a tag's name.
AtName(p, t) ==
  /\ p.lexing = "CONTROL" /\ p.state = "NODE" /\ p.blockType = "NONE"
  /\ Blocks(p.nodes) /\ Between(p.nodes, Unended(t))
  /\ Len(t) >= 1 /\ t[Len(t)] = "{%"

\* After an end word, before "%}".
AtEnd(p, t) ==
  /\ p.lexing = "CONTROL" /\ p.state = "ARGUMENT" /\ p.blockType = "END"
  /\ Blocks(p.nodes) /\ Top(p).type = "tag"
  /\ Leaves(p.nodes, Len(p.nodes), "END", Unended(t))
  /\ Len(t) >= 2 /\ t[Len(t) - 1] = "{%" /\ t[Len(t)] \in DOMAIN EndOf

\* In an output, in the arguments of a tag.
Reads(p)  == p.state \in {"ARGUMENT", "IGNORE_UNTIL_BLOCK_END"}
Within(t) == Len(t) >= 1 /\ t[Len(t)] \notin Heads

InOutput(p, t) ==
  /\ p.lexing = "OUTPUT" /\ Reads(p) /\ p.blockType = "NONE" /\ Within(t)
  /\ \E i, base : Ready(p, i, base) /\ base[i].type = "output" /\ Leaves(base, i, p.blockType, Unended(t))

InTag(p, t) ==
  /\ p.lexing \in {"CONTROL", "CONTROL_HALT"} /\ Reads(p) /\ p.blockType \in {"NONE", "INTERMEDIATE"} /\ Within(t)
  /\ \E i, base : Ready(p, i, base) /\ base[i].type = "tag" /\ Leaves(base, i, p.blockType, Unended(t))

Somewhere(p, t) ==
  /\ IsParser(p)
  /\ IF p.ok THEN AtText(p, t) \/ AtName(p, t) \/ AtEnd(p, t) \/ InOutput(p, t) \/ InTag(p, t) ELSE Reports(p)

LEMMA SomewhereFailed ==
  ASSUME NEW p, IsParser(p), NEW e, NEW t
  PROVE  Somewhere(Fail(p, e), t) /\ Somewhere(Undefined(p), t)
  <1>1. \A f : IsParser(Fail(p, f)) /\ ~Fail(p, f).ok /\ Fail(p, f).errors # {}
    BY Failed DEF Kept
  <1> QED BY <1>1 DEF Somewhere, Reports, Undefined

\* What a block is and what it leaves: an output, or a tag.
IsBlock(p, t, i, base) ==
  /\ Within(t) /\ Leaves(base, i, p.blockType, Unended(t))
  /\ \/ base[i].type = "output" /\ p.lexing = "OUTPUT" /\ p.blockType = "NONE"
     \/ base[i].type = "tag" /\ p.lexing \in {"CONTROL", "CONTROL_HALT"} /\ p.blockType \in {"NONE", "INTERMEDIATE"}

LEMMA SomewhereAnswered ==
  ASSUME NEW p, NEW q, NEW t, NEW i, NEW base, Answers(p, q, i, base), Reads(p), IsBlock(p, t, i, base)
  PROVE  Somewhere(q, t)
  <1>1. IsParser(q) /\ Reads(q) /\ q.lexing = p.lexing /\ q.blockType = p.blockType
    BY DEF Answers, Kept, Reads
  <1>2. CASE q.ok
    <2>1. Ready(q, i, base)
      BY <1>2 DEF Answers
    <2>2. InOutput(q, t) \/ InTag(q, t)
      BY <1>1, <2>1 DEF InOutput, InTag, IsBlock
    <2> QED BY <1>1, <1>2, <2>2 DEF Somewhere
  <1>3. CASE ~q.ok
    <2>1. q.errors # {} \/ Inside(q, i, base)
      BY <1>3 DEF Answers
    <2>2. Inside(q, i, base) => Len(q.nodes) > 1
      BY InsideStands
    <2> QED BY <1>1, <1>3, <2>1, <2>2 DEF Somewhere, Reports
  <1> QED BY <1>2, <1>3

LEMMA ControlEnded ==
  ASSUME NEW p, IsParser(p), NEW next \in {"INITIAL", "HALT"}
  PROVE  LET q == [p EXCEPT !.state = "NODE", !.blockType = "NONE", !.lexing = next]
         IN  /\ IsParser(q) /\ q.start = p.start /\ q.blockType = "NONE" /\ q.nodes = p.nodes /\ q.ok = p.ok
             /\ q.state = "NODE" /\ q.lexing = next
  BY DEF IsParser, Members

LEMMA EndControlBlockSomewhere ==
  ASSUME NEW p, NEW t, Closes(p, EndTagContext(p), Unended(t)),
         p.lexing = "CONTROL_HALT" => Len(t) >= 1 /\ t[Len(t)] \in Heads
  PROVE  Somewhere(EndControlBlock(p), t) /\ EndControlBlock(p).start = p.start
  <1> DEFINE ended == EndTagContext(p)
             next  == IF p.lexing = "CONTROL_HALT" THEN "HALT" ELSE "INITIAL"
             r     == [ended EXCEPT !.state = "NODE", !.blockType = "NONE", !.lexing = next]
             q     == EndControlBlock(p)
  <1>1. q = IF ended.ok THEN r ELSE ended
    BY DEF EndControlBlock
  <1>2. IsParser(ended) /\ ended.start = p.start
    BY DEF Closes
  <1>3. CASE ended.ok
    <2>1. q = r
      BY <1>1, <1>3
    <2>2. next \in {"INITIAL", "HALT"} /\ (next = "HALT" => Len(t) >= 1 /\ t[Len(t)] \in Heads)
      OBVIOUS
    <2> HIDE DEF next, q
    <2>3. /\ IsParser(r) /\ r.start = ended.start /\ r.blockType = "NONE" /\ r.nodes = ended.nodes /\ r.ok = ended.ok
          /\ r.state = "NODE" /\ r.lexing = next
      BY <1>2, <2>2, ControlEnded
    <2>4. Blocks(ended.nodes) /\ Between(ended.nodes, Unended(t))
      BY <1>3 DEF Closes
    <2> HIDE DEF r
    <2>5. Somewhere(r, t)
      BY <1>3, <2>2, <2>3, <2>4 DEF Somewhere, AtText
    <2> QED BY <1>2, <2>1, <2>3, <2>5 DEF q
  <1>4. CASE ~ended.ok
    BY <1>1, <1>2, <1>4 DEF Closes, Somewhere
  <1> QED BY <1>3, <1>4

LEMMA OutputEnded ==
  ASSUME NEW p, IsParser(p)
  PROVE  LET q == [p EXCEPT !.state = "NODE", !.lexing = "INITIAL"]
         IN  /\ IsParser(q) /\ q.start = p.start /\ q.blockType = p.blockType /\ q.nodes = p.nodes /\ q.ok = p.ok
             /\ q.state = "NODE" /\ q.lexing = "INITIAL"
  BY DEF IsParser, Members

LEMMA EndOutputBlockSomewhere ==
  ASSUME NEW p, NEW t, Closes(p, EndOutputContext(p), Unended(t)), p.blockType = "NONE"
  PROVE  Somewhere(EndOutputBlock(p), t) /\ EndOutputBlock(p).start = p.start
  <1> DEFINE ended == EndOutputContext(p)
             r     == [ended EXCEPT !.state = "NODE", !.lexing = "INITIAL"]
             q     == EndOutputBlock(p)
  <1>1. q = IF ended.ok THEN r ELSE ended
    BY DEF EndOutputBlock
  <1>2. IsParser(ended) /\ ended.start = p.start /\ ended.blockType = "NONE"
    BY DEF Closes
  <1> HIDE DEF q
  <1>3. CASE ended.ok
    <2>1. /\ IsParser(r) /\ r.start = ended.start /\ r.blockType = "NONE" /\ r.nodes = ended.nodes /\ r.ok = ended.ok
          /\ r.state = "NODE" /\ r.lexing = "INITIAL"
      BY <1>2, OutputEnded
    <2>2. Blocks(ended.nodes) /\ Between(ended.nodes, Unended(t))
      BY <1>3 DEF Closes
    <2>3. q = r
      BY <1>1, <1>3
    <2> HIDE DEF r
    <2>4. Somewhere(r, t)
      BY <1>3, <2>1, <2>2 DEF Somewhere, AtText
    <2> QED BY <1>2, <2>1, <2>3, <2>4 DEF q
  <1>4. CASE ~ended.ok
    BY <1>1, <1>2, <1>4 DEF Closes, Somewhere, q
  <1> QED BY <1>3, <1>4

-----------------------------------------------------------------------------
(* Whatever the text, each handler leaves a stack of nodes that is not     *)
(* empty.                                                                  *)

Goes(p, q) == Standing(q) /\ q.start = p.start

LEMMA GoesTwice ==
  ASSUME NEW p, NEW q, NEW r, Goes(p, q), Goes(q, r)
  PROVE  Goes(p, r)
  BY DEF Goes

LEMMA GoesNowhere ==
  ASSUME NEW p, Standing(p)
  PROVE  Goes(p, p)
  BY DEF Goes

LEMMA StandingTop ==
  ASSUME NEW p, Standing(p)
  PROVE  IsNode(Top(p)) /\ IsParser(p) /\ IsStack(p.nodes) /\ Len(p.nodes) >= 1 /\ Len(p.nodes) \in Nat
  BY StackIsLong DEF Standing, IsStack, Top, Last

\* Members other than the stack.
LEMMA GoesMember ==
  ASSUME NEW p, Standing(p), NEW x
  PROVE  /\ Goes(p, [p EXCEPT !.ok = x])
         /\ Goes(p, [p EXCEPT !.errors = x])
         /\ Goes(p, [p EXCEPT !.state = x])
         /\ Goes(p, [p EXCEPT !.filterState = x])
         /\ Goes(p, [p EXCEPT !.blockType = x])
         /\ Goes(p, [p EXCEPT !.lexing = x])
         /\ Goes(p, Regardless(p))
         /\ Goes(p, Fail(p, x))
         /\ Goes(p, Undefined(p))
  <1>1. IsParser(p) /\ IsStack(p.nodes) /\ Len(p.nodes) >= 1
    BY DEF Standing
  <1>2. ASSUME NEW q, IsParser(q), q.nodes = p.nodes, q.start = p.start
        PROVE  Goes(p, q)
    BY <1>1, <1>2 DEF Goes, Standing
  <1>3. /\ Goes(p, [p EXCEPT !.ok = x])
        /\ Goes(p, [p EXCEPT !.errors = x])
        /\ Goes(p, [p EXCEPT !.state = x])
        /\ Goes(p, [p EXCEPT !.filterState = x])
        /\ Goes(p, [p EXCEPT !.blockType = x])
        /\ Goes(p, [p EXCEPT !.lexing = x])
    BY <1>1, <1>2 DEF IsParser, Members
  <1>4. ASSUME NEW e PROVE Goes(p, Fail(p, e))
    BY <1>1, <1>2, Failed DEF Kept
  <1>5. Goes(p, Regardless(p))
    BY <1>1, <1>2, Regarded DEF Kept
  <1> QED BY <1>3, <1>4, <1>5 DEF Undefined

LEMMA GoesMembers ==
  ASSUME NEW p, Standing(p), NEW x, NEW y, NEW z
  PROVE  /\ Goes(p, [p EXCEPT !.filterState = x, !.errors = y])
         /\ Goes(p, [p EXCEPT !.errors = y, !.state = x])
         /\ Goes(p, [p EXCEPT !.state = x, !.blockType = y])
         /\ Goes(p, [p EXCEPT !.lexing = x, !.halt = y])
         /\ Goes(p, [p EXCEPT !.lexing = x, !.state = y])
         /\ Goes(p, [p EXCEPT !.state = x, !.lexing = y])
         /\ Goes(p, [p EXCEPT !.state = x, !.blockType = y, !.lexing = z])
  <1>1. IsParser(p) /\ IsStack(p.nodes) /\ Len(p.nodes) >= 1
    BY DEF Standing
  <1>2. ASSUME NEW q, IsParser(q), q.nodes = p.nodes, q.start = p.start
        PROVE  Goes(p, q)
    BY <1>1, <1>2 DEF Goes, Standing
  <1>3. Goes(p, [p EXCEPT !.filterState = x, !.errors = y])
    <2> DEFINE q == [p EXCEPT !.filterState = x, !.errors = y]
    <2>1. IsParser(q) /\ q.nodes = p.nodes /\ q.start = p.start
      BY <1>1 DEF IsParser, Members
    <2> HIDE DEF q
    <2>2. Goes(p, q)
      BY <1>2, <2>1
    <2> QED BY <2>2 DEF q
  <1>4. Goes(p, [p EXCEPT !.errors = y, !.state = x])
    <2> DEFINE q == [p EXCEPT !.errors = y, !.state = x]
    <2>1. IsParser(q) /\ q.nodes = p.nodes /\ q.start = p.start
      BY <1>1 DEF IsParser, Members
    <2> HIDE DEF q
    <2>2. Goes(p, q)
      BY <1>2, <2>1
    <2> QED BY <2>2 DEF q
  <1>5. Goes(p, [p EXCEPT !.state = x, !.blockType = y])
    <2> DEFINE q == [p EXCEPT !.state = x, !.blockType = y]
    <2>1. IsParser(q) /\ q.nodes = p.nodes /\ q.start = p.start
      BY <1>1 DEF IsParser, Members
    <2> HIDE DEF q
    <2>2. Goes(p, q)
      BY <1>2, <2>1
    <2> QED BY <2>2 DEF q
  <1>6. Goes(p, [p EXCEPT !.lexing = x, !.halt = y])
    <2> DEFINE q == [p EXCEPT !.lexing = x, !.halt = y]
    <2>1. IsParser(q) /\ q.nodes = p.nodes /\ q.start = p.start
      BY <1>1 DEF IsParser, Members
    <2> HIDE DEF q
    <2>2. Goes(p, q)
      BY <1>2, <2>1
    <2> QED BY <2>2 DEF q
  <1>7. Goes(p, [p EXCEPT !.lexing = x, !.state = y])
    <2> DEFINE q == [p EXCEPT !.lexing = x, !.state = y]
    <2>1. IsParser(q) /\ q.nodes = p.nodes /\ q.start = p.start
      BY <1>1 DEF IsParser, Members
    <2> HIDE DEF q
    <2>2. Goes(p, q)
      BY <1>2, <2>1
    <2> QED BY <2>2 DEF q
  <1>8. Goes(p, [p EXCEPT !.state = x, !.lexing = y])
    <2> DEFINE q == [p EXCEPT !.state = x, !.lexing = y]
    <2>1. IsParser(q) /\ q.nodes = p.nodes /\ q.start = p.start
      BY <1>1 DEF IsParser, Members
    <2> HIDE DEF q
    <2>2. Goes(p, q)
      BY <1>2, <2>1
    <2> QED BY <2>2 DEF q
  <1>9. Goes(p, [p EXCEPT !.state = x, !.blockType = y, !.lexing = z])
    <2> DEFINE q == [p EXCEPT !.state = x, !.blockType = y, !.lexing = z]
    <2>1. IsParser(q) /\ q.nodes = p.nodes /\ q.start = p.start
      BY <1>1 DEF IsParser, Members
    <2> HIDE DEF q
    <2>2. Goes(p, q)
      BY <1>2, <2>1
    <2> QED BY <2>2 DEF q
  <1> QED BY <1>3, <1>4, <1>5, <1>6, <1>7, <1>8, <1>9

LEMMA GoesStack ==
  ASSUME NEW p, Standing(p), NEW n, IsNode(n), NEW kid
  PROVE  /\ Goes(p, SetTop(p, n)) /\ Goes(p, Push(p, n)) /\ Goes(p, PushNode(p, n))
         /\ Goes(p, SetTop(p, Give(Top(p), kid))) /\ Goes(p, Expect(p))
  <1>1. IsNode(Top(p)) /\ IsParser(p) /\ IsStack(p.nodes) /\ Len(p.nodes) >= 1 /\ Len(p.nodes) \in Nat
    BY StandingTop
  <1>2. ASSUME NEW s, IsStack(s), Len(s) >= 1 PROVE Goes(p, [p EXCEPT !.nodes = s])
    <2> DEFINE q == [p EXCEPT !.nodes = s]
    <2>1. Kept(p, q) /\ q.nodes = s
      BY <1>1, StackSet
    <2> HIDE DEF q
    <2>2. Goes(p, q)
      BY <1>2, <2>1 DEF Goes, Standing, Kept
    <2> QED BY <2>2 DEF q
  <1>3. ASSUME NEW m, IsNode(m) PROVE Goes(p, SetTop(p, m))
    <2> DEFINE t == Append(Front(p.nodes), m)
    <2>1. IsStack(t) /\ Len(t) >= 1
      BY <1>1, <1>3, Replaced
    <2> HIDE DEF t
    <2>2. Goes(p, [p EXCEPT !.nodes = t])
      BY <1>2, <2>1
    <2> QED BY <2>2 DEF SetTop, t
  <1>4. Goes(p, Push(p, n))
    <2> DEFINE t == Append(p.nodes, n)
    <2>1. IsStack(t) /\ Len(t) >= 1
      BY <1>1, Pushed
    <2> HIDE DEF t
    <2>2. Goes(p, [p EXCEPT !.nodes = t])
      BY <1>2, <2>1
    <2> QED BY <2>2 DEF Push, t
  <1>5. Goes(p, PushNode(p, n))
    BY <1>4, GoesMember DEF PushNode
  <1>6. ASSUME NEW k PROVE Goes(p, SetTop(p, Give(Top(p), k)))
    <2> DEFINE m == Give(Top(p), k)
    <2>1. IsNode(m)
      BY <1>1, Given
    <2> HIDE DEF m
    <2>2. Goes(p, SetTop(p, m))
      BY <1>3, <2>1
    <2> QED BY <2>2 DEF m
  <1>7. Goes(p, Expect(p))
    BY <1>6, GoesMember DEF Expect
  <1> QED BY <1>3, <1>4, <1>5, <1>6, <1>7

LEMMA GoesFront ==
  ASSUME NEW p, Standing(p), Len(p.nodes) # 1
  PROVE  Goes(p, [p EXCEPT !.nodes = Front(@)])
  <1> DEFINE t == Front(p.nodes)
             q == [p EXCEPT !.nodes = t]
  <1>1. IsParser(p) /\ IsStack(p.nodes) /\ Len(p.nodes) >= 1 /\ Len(p.nodes) \in Nat
    BY StandingTop
  <1>2. IsStack(t) /\ Len(t) >= 1
    <2>1. IsStack(t) /\ Len(t) = Len(p.nodes) - 1
      BY <1>1, Fronted
    <2> DEFINE l == Len(p.nodes)
    <2>2. l \in Nat /\ l # 1 /\ l >= 1 /\ Len(t) = l - 1
      BY <1>1, <2>1
    <2> HIDE DEF l, t
    <2>3. l - 1 >= 1
      BY <2>2
    <2> QED BY <2>1, <2>2, <2>3
  <1> HIDE DEF t
  <1>3. Kept(p, q) /\ q.nodes = t
    BY <1>1, StackSet
  <1> HIDE DEF q
  <1>4. Goes(p, q)
    BY <1>2, <1>3 DEF Goes, Standing, Kept
  <1> QED BY <1>4 DEF q, t

LEMMA GoesShrunk ==
  ASSUME NEW p, NEW q, NEW m, Standing(p), Kept(p, q), Shrunk(p.nodes, q.nodes, m)
  PROVE  Goes(p, q)
  BY StandsShrunk DEF Standing, Goes, Kept

LEMMA GoesPop ==
  ASSUME NEW p, Standing(p), NEW type
  PROVE  Goes(p, PopNode(p)) /\ Goes(p, PopNodeUntil(p, type)) /\ Goes(p, LeftOperand(p))
  <1>1. Goes(p, PopNode(p))
    <2>1. CASE Len(p.nodes) = 1
      BY <2>1, LastStays DEF Goes, Standing, Kept
    <2>2. CASE Len(p.nodes) # 1
      <3>1. Len(p.nodes) > 1
        <4> DEFINE l == Len(p.nodes)
        <4>1. l \in Nat /\ l # 1 /\ l >= 1
          BY <2>2, StandingTop
        <4> HIDE DEF l
        <4>2. l > 1
          BY <4>1
        <4> QED BY <4>2 DEF l
      <3> QED BY <3>1, Popping, GoesShrunk
    <2> QED BY <2>1, <2>2
  <1>2. Goes(p, PopNodeUntil(p, type))
    BY PopUntil, GoesShrunk
  <1>3. Goes(p, LeftOperand(p))
    BY PopOperators, GoesShrunk
  <1> QED BY <1>1, <1>2, <1>3

\* Goes is kept by whatever a handler is made of.
LEMMA GoesOn ==
  ASSUME NEW p, NEW r, Goes(p, r), NEW x, NEW y, NEW z
  PROVE  /\ Goes(p, Fail(r, x)) /\ Goes(p, Undefined(r)) /\ Goes(p, Regardless(r))
         /\ Goes(p, Expect(r)) /\ Goes(p, PopNode(r)) /\ Goes(p, PopNodeUntil(r, x)) /\ Goes(p, LeftOperand(r))
         /\ Goes(p, [r EXCEPT !.ok = x]) /\ Goes(p, [r EXCEPT !.errors = x])
         /\ Goes(p, [r EXCEPT !.state = x]) /\ Goes(p, [r EXCEPT !.filterState = x])
         /\ Goes(p, [r EXCEPT !.blockType = x]) /\ Goes(p, [r EXCEPT !.lexing = x])
         /\ Goes(p, [r EXCEPT !.filterState = x, !.errors = y])
         /\ Goes(p, [r EXCEPT !.errors = y, !.state = x])
         /\ Goes(p, [r EXCEPT !.state = x, !.blockType = y])
         /\ Goes(p, [r EXCEPT !.lexing = x, !.halt = y])
         /\ Goes(p, [r EXCEPT !.lexing = x, !.state = y])
         /\ Goes(p, [r EXCEPT !.state = x, !.lexing = y])
         /\ Goes(p, [r EXCEPT !.state = x, !.blockType = y, !.lexing = z])
  <1>1. Standing(r) /\ IsNode(Top(r))
    BY StandingTop DEF Goes
  <1>2. ASSUME NEW q, Goes(r, q) PROVE Goes(p, q)
    BY <1>2, GoesTwice
  <1>3. /\ Goes(p, Fail(r, x)) /\ Goes(p, Undefined(r)) /\ Goes(p, Regardless(r))
        /\ Goes(p, [r EXCEPT !.ok = x]) /\ Goes(p, [r EXCEPT !.errors = x])
        /\ Goes(p, [r EXCEPT !.state = x]) /\ Goes(p, [r EXCEPT !.filterState = x])
        /\ Goes(p, [r EXCEPT !.blockType = x]) /\ Goes(p, [r EXCEPT !.lexing = x])
    BY <1>1, <1>2, GoesMember
  <1>4. /\ Goes(p, [r EXCEPT !.filterState = x, !.errors = y])
        /\ Goes(p, [r EXCEPT !.errors = y, !.state = x])
        /\ Goes(p, [r EXCEPT !.state = x, !.blockType = y])
        /\ Goes(p, [r EXCEPT !.lexing = x, !.halt = y])
        /\ Goes(p, [r EXCEPT !.lexing = x, !.state = y])
        /\ Goes(p, [r EXCEPT !.state = x, !.lexing = y])
        /\ Goes(p, [r EXCEPT !.state = x, !.blockType = y, !.lexing = z])
    BY <1>1, <1>2, GoesMembers
  <1>5. Goes(p, Expect(r))
    BY <1>1, <1>2, GoesStack
  <1>6. Goes(p, PopNode(r)) /\ Goes(p, PopNodeUntil(r, x)) /\ Goes(p, LeftOperand(r))
    BY <1>1, <1>2, GoesPop
  <1> QED BY <1>3, <1>4, <1>5, <1>6

LEMMA GoesUp ==
  ASSUME NEW p, NEW r, Goes(p, r), NEW n, IsNode(n)
  PROVE  Goes(p, SetTop(r, n)) /\ Goes(p, Push(r, n)) /\ Goes(p, PushNode(r, n))
  <1>1. Standing(r)
    BY DEF Goes
  <1> QED BY <1>1, GoesStack, GoesTwice

LEMMA ArgumentGoes ==
  ASSUME NEW p, NEW q, Standing(p), Goes(p, q)
  PROVE  Goes(p, Argument(p, q)) /\ Goes(p, Group(p, q))
  <1>1. Goes(p, p)
    BY GoesNowhere
  <1>2. Goes(p, Fail(p, "INVALID_SYMBOL"))
    BY <1>1, GoesOn
  <1>3. Goes(p, [p EXCEPT !.errors = @ \cup {"INVALID_SYMBOL"}])
    BY <1>1, GoesOn
  <1> QED BY <1>1, <1>2, <1>3 DEF Argument, Group

LEMMA ColonGoes ==
  ASSUME NEW p, Standing(p)
  PROVE  Goes(p, Colon(p))
  <1>1. Goes(p, p)
    BY GoesNowhere
  <1>2. Goes(p, Expect(p))
    BY <1>1, GoesOn
  <1>3. Goes(p, [Expect(p) EXCEPT !.filterState = "ARGUMENTS"])
    BY <1>2, GoesOn
  <1>4. /\ Goes(p, Fail(p, "INVALID_SYMBOL")) /\ Goes(p, Fail(p, "UNEXPECTED_OPERAND"))
        /\ Goes(p, Fail(p, "INVALID_QUALIFIER")) /\ Goes(p, Undefined(p))
    BY <1>1, GoesOn
  <1>5. Goes(p, WildcardQualifier(p))
    BY <1>4 DEF WildcardQualifier
  <1> QED BY <1>1, <1>2, <1>3, <1>4, <1>5 DEF Colon

LEMMA CommaGoes ==
  ASSUME NEW p, Standing(p)
  PROVE  Goes(p, Comma(p)) /\ Goes(p, Dot(p))
  <1>1. Goes(p, p)
    BY GoesNowhere
  <1>2. Goes(p, PopNode(p)) /\ Goes(p, PopNodeUntil(p, "arguments")) /\ Goes(p, Expect(p))
        /\ Goes(p, Fail(p, "INVALID_SYMBOL"))
    BY <1>1, GoesOn
  <1> DEFINE inArray == Len(p.nodes) > 2 /\ Under(p).type = "array"
             closed  == IF inArray THEN PopNode(p) ELSE PopNodeUntil(p, "arguments")
  <1>3. Goes(p, closed)
    BY <1>2
  <1> HIDE DEF closed
  <1>4. Goes(p, Expect(closed)) /\ Goes(p, Fail(closed, "INVALID_SYMBOL"))
    BY <1>3, GoesOn
  <1> HIDE DEF inArray
  <1>5. Goes(p, IF closed.ok THEN Expect(closed)
                ELSE IF inArray THEN closed
                ELSE Fail(closed, "INVALID_SYMBOL"))
    BY <1>3, <1>4
  <1>6. Goes(p, Comma(p))
    BY <1>5, ArgumentGoes DEF Comma, closed, inArray
  <1>7. Goes(p, IF Top(p).type = "variable" THEN Expect(p) ELSE Fail(p, "INVALID_SYMBOL"))
    BY <1>2
  <1>8. Goes(p, Dot(p))
    BY <1>7, ArgumentGoes DEF Dot
  <1> QED BY <1>6, <1>8

LEMMA BracketsGo ==
  ASSUME NEW p, Standing(p)
  PROVE  Goes(p, StartVariableDereference(p)) /\ Goes(p, EndVariableDereference(p))
  <1>1. Goes(p, p)
    BY GoesNowhere
  <1>2. IsNode(Awaiting("deref", "")) /\ IsNode(Awaiting("array", "")) /\ IsNode(Node("array", "", <<>>))
    BY MadeAwaiting, Made
  <1>3. Goes(p, StartVariableDereference(p))
    <2>1. Goes(p, Expect(p)) /\ Goes(p, Fail(p, "INVALID_SYMBOL"))
      BY <1>1, GoesOn
    <2>2. Goes(p, PushNode(Expect(p), Awaiting("deref", ""))) /\ Goes(p, PushNode(p, Awaiting("array", "")))
      BY <1>1, <1>2, <2>1, GoesUp
    <2> DEFINE q == IF Top(p).type = "variable" THEN PushNode(Expect(p), Awaiting("deref", ""))
                    ELSE IF ~p.arrays THEN Fail(p, "INVALID_SYMBOL")
                    ELSE PushNode(p, Awaiting("array", ""))
    <2>3. Goes(p, q)
      BY <2>1, <2>2
    <2> HIDE DEF q
    <2>4. Goes(p, Argument(p, q))
      BY <2>3, ArgumentGoes
    <2> QED BY <2>4 DEF StartVariableDereference, q
  <1>4. Goes(p, EndVariableDereference(p))
    <2> DEFINE bracket == Nearest(p, {"deref", "array"})
               whole   == IF Top(p) = Awaiting("array", "") THEN SetTop(p, Node("array", "", <<>>)) ELSE p
               until   == IF bracket.type = "array" THEN "array" ELSE "deref"
               closed  == PopNodeUntil(whole, until)
               q       == IF ~closed.ok THEN Fail(closed, "UNBALANCED_GROUP")
                          ELSE IF bracket.type = "array" THEN closed
                          ELSE Regardless(PopNode(closed))
    <2>1. Goes(p, whole)
      BY <1>1, <1>2, GoesUp
    <2> HIDE DEF bracket, whole, until
    <2>2. Goes(p, closed)
      BY <2>1, GoesOn
    <2> HIDE DEF closed
    <2>3. Goes(p, PopNode(closed)) /\ Goes(p, Fail(closed, "UNBALANCED_GROUP"))
      BY <2>2, GoesOn
    <2>4. Goes(p, Regardless(PopNode(closed)))
      BY <2>3, GoesOn
    <2>5. Goes(p, q)
      BY <2>2, <2>3, <2>4
    <2> HIDE DEF q
    <2>6. Goes(p, Argument(p, q))
      BY <2>5, ArgumentGoes
    <2> QED BY <2>6 DEF EndVariableDereference, q, closed, until, whole, bracket
  <1> QED BY <1>3, <1>4

LEMMA OperandGoes ==
  ASSUME NEW p, Standing(p), NEW w
  PROVE  Goes(p, Operand(p, w))
  <1>1. Goes(p, p) /\ IsNode(Value(w))
    BY GoesNowhere, Made DEF Value
  <1>2. Goes(p, PushNode(p, Value(w)))
    BY <1>1, GoesUp
  <1> QED BY <1>2, ArgumentGoes DEF Operand

LEMMA ParenthesesGo ==
  ASSUME NEW p, Standing(p)
  PROVE  Goes(p, OpenParenthesis(p)) /\ Goes(p, CloseParenthesis(p))
  <1>1. Goes(p, p) /\ IsNode(Awaiting("group", ""))
    BY GoesNowhere, MadeAwaiting
  <1>2. Goes(p, OpenParenthesis(p))
    <2> DEFINE inside == IF p.filterState = "ARGUMENTS" THEN "UNSET" ELSE p.filterState
               r      == [p EXCEPT !.filterState = inside]
               q      == PushNode(r, Awaiting("group", ""))
    <2> HIDE DEF inside
    <2>1. Goes(p, r)
      BY <1>1, GoesOn
    <2> HIDE DEF r
    <2>2. Goes(p, q)
      BY <1>1, <2>1, GoesUp
    <2> HIDE DEF q
    <2>3. Goes(p, Group(p, q))
      BY <2>2, ArgumentGoes
    <2> QED BY <2>3 DEF OpenParenthesis, q, r, inside
  <1>3. Goes(p, CloseParenthesis(p))
    <2> DEFINE closed == PopNodeUntil(p, "group")
               deep   == Len(closed.nodes) > 3
               within == /\ deep
                         /\ Under(closed).type = "arguments"
                         /\ closed.nodes[Len(closed.nodes) - 2].type = "filter"
               q      == IF ~closed.ok THEN Fail(closed, "UNBALANCED_GROUP")
                         ELSE IF deep /\ Under(closed).type = "value" THEN Undefined(closed)
                         ELSE IF within THEN [closed EXCEPT !.filterState = "ARGUMENTS"]
                         ELSE closed
    <2>1. Goes(p, closed)
      BY <1>1, GoesOn
    <2> HIDE DEF closed, deep, within
    <2>2. /\ Goes(p, Fail(closed, "UNBALANCED_GROUP")) /\ Goes(p, Undefined(closed))
          /\ Goes(p, [closed EXCEPT !.filterState = "ARGUMENTS"])
      BY <2>1, GoesOn
    <2>3. Goes(p, q)
      BY <2>1, <2>2
    <2> HIDE DEF q
    <2>4. Goes(p, Group(p, q))
      BY <2>3, ArgumentGoes
    <2> QED BY <2>4 DEF CloseParenthesis, q, within, deep, closed
  <1> QED BY <1>2, <1>3

LEMMA NameGoes ==
  ASSUME NEW p, Standing(p), NEW w, Waits(Top(p))
  PROVE  Goes(p, Name(p, w))
  <1>1. Goes(p, p) /\ IsNode(Top(p))
    BY GoesNowhere, StandingTop
  <1>2. IsNode(Fill(Top(p), Value(w)))
    BY <1>1, Filled
  <1> DEFINE n == Node("variable", "", <<Node("dotfilter", w, <<[Top(p) EXCEPT !.kids = Front(@)]>>)>>)
  <1>3. IsNode(n)
    BY DEF IsNode, Node
  <1> HIDE DEF n
  <1>4. Goes(p, SetTop(p, n)) /\ Goes(p, SetTop(p, Fill(Top(p), Value(w))))
    BY <1>1, <1>2, <1>3, GoesUp
  <1> QED BY <1>4 DEF Name, n

LEMMA StartOperandGoes ==
  ASSUME NEW p, Standing(p), NEW w
  PROVE  Goes(p, StartOperand(p, w))
  <1> DEFINE n == Node("variable", "", <<Value(w)>>)
  <1>1. IsNode(n) /\ IsNode(Awaiting("prefix", w)) /\ Goes(p, p)
    BY GoesNowhere, MadeAwaiting DEF IsNode, Node
  <1> HIDE DEF n
  <1>2. Goes(p, PushNode(p, Awaiting("prefix", w))) /\ Goes(p, Push(p, n))
    BY <1>1, GoesUp
  <1> QED BY <1>2 DEF StartOperand, n

LEMMA BarGoes ==
  ASSUME NEW p, Standing(p)
  PROVE  Goes(p, Bar(p))
  <1> DEFINE closed == IF p.filterState \in {"COLON", "ARGUMENTS"} THEN PopNodeUntil(p, "filter") ELSE p
  <1>1. Goes(p, p)
    BY GoesNowhere
  <1>2. Goes(p, closed)
    BY <1>1, GoesOn
  <1> HIDE DEF closed
  <1>3. Goes(p, [closed EXCEPT !.filterState = "NAME"]) /\ Goes(p, Fail(closed, "INVALID_SYMBOL"))
    BY <1>2, GoesOn
  <1> QED BY <1>3 DEF Bar, closed

LEMMA WrapGoes ==
  ASSUME NEW p, NEW r, Goes(p, r), NEW n, IsNode(n)
  PROVE  Goes(p, Wrap(r, n))
  <1> DEFINE m == [n EXCEPT !.kids = @ \o <<Top(r), Null>>]
  <1>1. IsNode(m)
    <2>1. ASSUME NEW k PROVE IsNode([n EXCEPT !.kids = k])
      BY DEF IsNode
    <2> QED BY <2>1
  <1> HIDE DEF m
  <1>2. Goes(p, SetTop(r, m))
    BY <1>1, GoesUp
  <1> QED BY <1>2 DEF Wrap, m

LEMMA FilterNameGoes ==
  ASSUME NEW p, Standing(p), NEW w
  PROVE  Goes(p, FilterName(p, w))
  <1> DEFINE unknown == ~IsFilter(p, w)
             filter  == IF unknown THEN Node("filter", "", <<Value(w)>>) ELSE Node("filter", w, <<>>)
             errors  == IF unknown THEN p.errors \cup {"UNKNOWN_FILTER"} ELSE p.errors
             named   == [p EXCEPT !.filterState = "COLON", !.errors = errors]
             operand == Regardless(LeftOperand(named))
             list    == Node("arguments", "", <<>>)
  <1>1. IsNode(filter) /\ IsNode(list)
    BY DEF IsNode, Node
  <1>2. Goes(p, p)
    BY GoesNowhere
  <1> HIDE DEF unknown, filter, errors, list
  <1>3. Goes(p, named)
    BY <1>2, GoesOn
  <1> HIDE DEF named
  <1>4. Goes(p, LeftOperand(named))
    BY <1>3, GoesOn
  <1>5. Goes(p, operand)
    BY <1>4, GoesOn
  <1> HIDE DEF operand
  <1>6. Goes(p, Undefined(operand)) /\ Goes(p, Wrap(operand, filter))
    BY <1>1, <1>5, GoesOn, WrapGoes
  <1>7. Goes(p, Push(Wrap(operand, filter), list))
    BY <1>1, <1>6, GoesUp
  <1>8. Goes(p, IF Len(operand.nodes) > 2 /\ Unclear(operand) THEN Undefined(operand)
                ELSE Push(Wrap(operand, filter), list))
    BY <1>6, <1>7
  <1> QED BY <1>8 DEF FilterName, LeftOperand, operand, named, errors, filter, unknown, list

LEMMA InfixGoes ==
  ASSUME NEW p, Standing(p), NEW w
  PROVE  Goes(p, Infix(p, w))
  <1> DEFINE left == IF Binds(p, Priority[w]) THEN Regardless(PopNode(p)) ELSE p
  <1>1. Goes(p, p) /\ IsNode(Node("operator", w, <<>>))
    BY GoesNowhere, Made
  <1>2. Goes(p, PopNode(p)) /\ Goes(p, Undefined(p))
    BY <1>1, GoesOn
  <1>3. Goes(p, Regardless(PopNode(p)))
    BY <1>2, GoesOn
  <1>4. Goes(p, left)
    BY <1>1, <1>3
  <1> HIDE DEF left
  <1>5. Goes(p, Wrap(left, Node("operator", w, <<>>)))
    BY <1>1, <1>4, WrapGoes
  <1> QED BY <1>2, <1>5 DEF Infix, left

LEMMA QualifierNameGoes ==
  ASSUME NEW p, Standing(p), NEW w
  PROVE  Goes(p, QualifierName(p, w))
  <1> DEFINE popped == PopNodeUntil(p, "arguments")
             next   == Expect(Regardless(popped))
  <1>1. Goes(p, p) /\ IsNode(Node("qualifier", w, <<>>))
    BY GoesNowhere, Made
  <1>2. Goes(p, popped)
    BY <1>1, GoesOn
  <1> HIDE DEF popped
  <1>3. Goes(p, Regardless(popped))
    BY <1>2, GoesOn
  <1>4. Goes(p, next)
    BY <1>3, GoesOn
  <1> HIDE DEF next
  <1>5. Goes(p, PushNode(next, Node("qualifier", w, <<>>)))
    BY <1>1, <1>4, GoesUp
  <1> QED BY <1>4, <1>5 DEF QualifierName, next, popped

LEMMA OperatorNameGoes ==
  ASSUME NEW p, Standing(p), NEW w
  PROVE  Goes(p, OperatorName(p, w))
  <1>1. Goes(p, p)
    BY GoesNowhere
  <1>2. Goes(p, Infix(p, w)) /\ Goes(p, QualifierName(p, w)) /\ Goes(p, Undefined(p))
    BY <1>1, GoesOn, InfixGoes, QualifierNameGoes
  <1>3. ASSUME NEW unknown
        PROVE  Goes(p, [p EXCEPT !.errors = @ \cup {unknown}, !.state = "IGNORE_UNTIL_BLOCK_END"])
    BY <1>1, GoesOn
  <1>4. /\ Goes(p, [p EXCEPT !.errors = @ \cup {"UNKNOWN_OPERATOR_OR_QUALIFIER"}, !.state = "IGNORE_UNTIL_BLOCK_END"])
        /\ Goes(p, [p EXCEPT !.errors = @ \cup {"UNKNOWN_OPERATOR"}, !.state = "IGNORE_UNTIL_BLOCK_END"])
    BY <1>3
  <1> QED BY <1>2, <1>4 DEF OperatorName

LEMMA ArgumentWordGoes ==
  ASSUME NEW p, Standing(p), NEW w
  PROVE  Goes(p, ArgumentWord(p, w))
  <1>1. Goes(p, p) /\ IsNode(Node("literal", w, <<>>))
    BY GoesNowhere, Made
  <1>2. Goes(p, PushNode(p, Node("literal", w, <<>>)))
    BY <1>1, GoesUp
  <1>3. Waits(Top(p)) => Goes(p, Name(p, w))
    BY NameGoes
  <1>4. /\ Goes(p, StartOperand(p, w)) /\ Goes(p, Bar(p)) /\ Goes(p, FilterName(p, w))
        /\ Goes(p, OperatorName(p, w))
    BY StartOperandGoes, BarGoes, FilterNameGoes, OperatorNameGoes
  <1> QED BY <1>2, <1>3, <1>4 DEF ArgumentWord

LEMMA OpenBlockGoes ==
  ASSUME NEW p, NEW r, Goes(p, r), NEW type, NEW sym
  PROVE  Goes(p, OpenBlock(r, Awaiting(type, sym)))
  <1> DEFINE opened == PushNode(r, Awaiting(type, sym))
  <1>1. IsNode(Awaiting(type, sym)) /\ IsNode(Awaiting("arguments", ""))
    BY MadeAwaiting
  <1>2. Goes(p, opened)
    BY <1>1, GoesUp
  <1> HIDE DEF opened
  <1>3. Goes(p, PushNode(opened, Awaiting("arguments", "")))
    BY <1>1, <1>2, GoesUp
  <1> QED BY <1>2, <1>3 DEF OpenBlock, opened

LEMMA EndNameGoes ==
  ASSUME NEW p, Standing(p), NEW w
  PROVE  Goes(p, EndName(p, w))
  <1> DEFINE closed == PopNodeUntil(p, "tag")
  <1>1. Goes(p, p)
    BY GoesNowhere
  <1>2. Goes(p, closed) /\ Goes(p, Fail(p, "UNKNOWN_TAG"))
    BY <1>1, GoesOn
  <1> HIDE DEF closed
  <1>3. Goes(p, Fail(closed, "UNKNOWN_TAG")) /\ Goes(p, [closed EXCEPT !.state = "ARGUMENT", !.blockType = "END"])
    BY <1>2, GoesOn
  <1> QED BY <1>2, <1>3 DEF EndName, closed

LEMMA StartTagGoes ==
  ASSUME NEW p, Standing(p), NEW w
  PROVE  Goes(p, StartTag(p, w))
  <1> DEFINE own          == w \in ContextTags
             intermediate == w \in DOMAIN TagTypes /\ Nearest(p, {"tag"}).sym \in TagTypes[w].within
             ended        == Regardless(PopNode(p))
             closed == IF intermediate THEN [ended EXCEPT !.blockType = "INTERMEDIATE"] ELSE p
             state  == IF closed.state = "LIQUID_NODE" THEN "LIQUID_ARGUMENT" ELSE "ARGUMENT"
             opened == [closed EXCEPT !.state = state]
             halted == IF TagTypes[w].composition = "LEXING_HALT"
                       THEN [opened EXCEPT !.lexing = "CONTROL_HALT", !.halt = w] ELSE opened
  <1>1. Goes(p, p)
    BY GoesNowhere
  <1>2. Goes(p, PopNode(p)) /\ Goes(p, Fail(p, "UNKNOWN_TAG"))
    BY <1>1, GoesOn
  <1>3. Goes(p, ended)
    BY <1>2, GoesOn
  <1> HIDE DEF ended, intermediate, own
  <1>4. Goes(p, closed)
    BY <1>1, <1>3, GoesOn
  <1> HIDE DEF closed, state
  <1>5. Goes(p, opened)
    BY <1>4, GoesOn
  <1> HIDE DEF opened
  <1>6. Goes(p, halted)
    BY <1>5, GoesOn
  <1> HIDE DEF halted
  <1>7. Goes(p, OpenBlock(halted, Awaiting("tag", w)))
    BY <1>6, OpenBlockGoes
  <1>8. Goes(p, IF own \/ intermediate THEN OpenBlock(halted, Awaiting("tag", w)) ELSE Fail(p, "UNKNOWN_TAG"))
    BY <1>2, <1>7
  <1> QED BY <1>8 DEF StartTag, own, intermediate, ended, closed, state, opened, halted

LEMMA TagNameGoes ==
  ASSUME NEW p, Standing(p), NEW w
  PROVE  Goes(p, TagName(p, w))
  <1>1. Goes(p, p)
    BY GoesNowhere
  <1>2. Goes(p, [p EXCEPT !.state = "LIQUID_NODE"]) /\ Goes(p, [p EXCEPT !.state = "LIQUID_ARGUMENT"])
    BY <1>1, GoesOn
  <1>3. Goes(p, OpenBlock([p EXCEPT !.state = "LIQUID_ARGUMENT"], Awaiting("output", "echo")))
    BY <1>2, OpenBlockGoes
  <1>4. Goes(p, EndName(p, w)) /\ Goes(p, StartTag(p, w))
    BY EndNameGoes, StartTagGoes
  <1> QED BY <1>2, <1>3, <1>4 DEF TagName

LEMMA LiteralGoes ==
  ASSUME NEW p, Standing(p), NEW w
  PROVE  Goes(p, Literal(p, w))
  <1>1. Goes(p, p) /\ IsNode(Top(p))
    BY GoesNowhere, StandingTop
  <1>2. Goes(p, ArgumentWord(p, w)) /\ Goes(p, TagName(p, w)) /\ Goes(p, Undefined(p))
    BY <1>1, ArgumentWordGoes, TagNameGoes, GoesOn
  <1>3. IsNode(Give(Top(p), Value(w)))
    BY <1>1, Given
  <1>4. Goes(p, SetTop(p, Give(Top(p), Value(w))))
    BY <1>1, <1>3, GoesUp
  <1>5. Goes(p, Text(p, w))
    BY <1>2, <1>4 DEF Text
  <1> QED BY <1>1, <1>2, <1>5 DEF Literal

LEMMA GoesDown ==
  ASSUME NEW p, NEW r, Goes(p, r), Len(r.nodes) # 1
  PROVE  Goes(p, [r EXCEPT !.nodes = Front(@)])
  <1>1. Standing(r)
    BY DEF Goes
  <1> QED BY <1>1, GoesFront, GoesTwice

LEMMA OnlyOne ==
  ASSUME NEW p, Standing(p), Len(p.nodes) = 1
  PROVE  [p EXCEPT !.nodes = Front(@)].nodes = <<>>
  <1> DEFINE t == Front(p.nodes)
  <1>1. IsParser(p) /\ IsStack(p.nodes)
    BY DEF Standing
  <1>2. IsStack(t) /\ Len(t) = 0
    <2>1. Len(p.nodes) >= 1
      OBVIOUS
    <2>2. IsStack(t) /\ Len(t) = Len(p.nodes) - 1
      BY <1>1, <2>1, Fronted
    <2> HIDE DEF t
    <2> QED BY <2>2
  <1> HIDE DEF t
  <1>3. t = <<>>
    BY <1>2, EmptySeq DEF IsStack
  <1>4. [p EXCEPT !.nodes = t].nodes = t
    BY <1>1, StackSet
  <1> QED BY <1>3, <1>4 DEF t

LEMMA EndOutputContextGoes ==
  ASSUME NEW p, Standing(p)
  PROVE  Goes(p, EndOutputContext(p))
  <1> DEFINE start  == [p EXCEPT !.filterState = "UNSET"]
             closed == PopNodeUntil(start, "output")
             below  == [closed EXCEPT !.nodes = Front(@)]
             moved  == SetTop(below, Give(Top(below), Top(closed)))
  <1>1. Goes(p, p)
    BY GoesNowhere
  <1>2. Goes(p, start)
    BY <1>1, GoesOn
  <1> HIDE DEF start
  <1>3. Goes(p, closed) /\ Goes(p, Fail(start, "UNEXPECTED_END"))
    BY <1>2, GoesOn
  <1> HIDE DEF closed
  <1>4. Goes(p, Undefined(closed))
    BY <1>3, GoesOn
  <1>5. ASSUME below.nodes # <<>> PROVE Goes(p, moved)
    <2>1. Len(closed.nodes) # 1
      BY <1>3, <1>5, OnlyOne DEF Goes
    <2>2. Goes(p, below)
      BY <1>3, <2>1, GoesDown
    <2> HIDE DEF below
    <2>3. IsNode(Top(below))
      BY <2>2, StandingTop DEF Goes
    <2> DEFINE n == Give(Top(below), Top(closed))
    <2>4. IsNode(n)
      BY <2>3, Given
    <2> HIDE DEF n
    <2>5. Goes(p, SetTop(below, n))
      BY <2>2, <2>4, GoesUp
    <2> QED BY <2>5 DEF n
  <1> HIDE DEF moved
  <1>6. Goes(p, IF p.state = "NODE" THEN Fail(start, "UNEXPECTED_END")
                ELSE IF ~closed.ok THEN closed
                ELSE IF below.nodes = <<>> \/ Top(below).type = "value" THEN Undefined(closed)
                ELSE moved)
    BY <1>3, <1>4, <1>5
  <1> QED BY <1>6 DEF EndOutputContext, start, closed, below, moved

LEMMA PlaceTagGoes ==
  ASSUME NEW p, NEW r, Goes(p, r)
  PROVE  Goes(p, PlaceTag(r))
  <1> DEFINE tag   == Top(r)
             type  == TagTypes[tag.sym]
             given == Len(tag.kids[1].kids)
             wrong == \/ type.minArguments # -1 /\ given < type.minArguments
                      \/ type.maxArguments # -1 /\ given > type.maxArguments
             errors  == IF wrong THEN r.errors \cup {"INVALID_ARGUMENTS"} ELSE r.errors
             counted == [r EXCEPT !.errors = errors]
             below   == [counted EXCEPT !.nodes = Front(@)]
             moved   == SetTop(below, Give(Top(below), tag))
             free    == p.blockType = "NONE" /\ type.composition # "FREE"
             placed  == IF r.blockType = "NONE" /\ type.composition # "FREE" THEN Push(Expect(counted), Concat)
                        ELSE IF r.blockType = "INTERMEDIATE" THEN Push(Expect(moved), Concat)
                        ELSE moved
             unclear == \/ tag.kids = <<>> \/ tag.kids[1].type \in {"null", "value"}
                        \/ Len(r.nodes) = 1 \/ Under(r).type = "value"
  <1>1. IsNode(Concat)
    BY Made DEF Concat
  <1>2. Goes(p, Undefined(r))
    BY GoesOn
  <1>3. ASSUME Len(r.nodes) # 1
        PROVE  Goes(p, [placed EXCEPT !.state = "NODE", !.blockType = "NONE"])
    <2> HIDE DEF type, given, wrong, errors
    <2>1. Goes(p, counted)
      BY GoesOn
    <2>2. Len(counted.nodes) # 1
      <3>1. counted.nodes = r.nodes
        BY ErrorsSet, StandingTop DEF Goes, IsParser, Members
      <3> QED BY <1>3, <3>1
    <2> HIDE DEF counted
    <2>3. Goes(p, below)
      BY <2>1, <2>2, GoesDown
    <2> HIDE DEF below
    <2>4. IsNode(Top(below))
      BY <2>3, StandingTop DEF Goes
    <2> HIDE DEF tag
    <2>5. IsNode(Give(Top(below), tag))
      BY <2>4, Given
    <2>6. Goes(p, moved)
      BY <2>3, <2>5, GoesUp
    <2> HIDE DEF moved
    <2>7. Goes(p, Expect(counted)) /\ Goes(p, Expect(moved))
      BY <2>1, <2>6, GoesOn
    <2>8. Goes(p, Push(Expect(counted), Concat)) /\ Goes(p, Push(Expect(moved), Concat))
      BY <1>1, <2>7, GoesUp
    <2>9. Goes(p, placed)
      BY <2>6, <2>8
    <2> HIDE DEF placed
    <2> QED BY <2>9, GoesOn
  <1> HIDE DEF placed
  <1>4. unclear \/ Len(r.nodes) # 1
    OBVIOUS
  <1> HIDE DEF unclear
  <1>5. Goes(p, IF unclear THEN Undefined(r) ELSE [placed EXCEPT !.state = "NODE", !.blockType = "NONE"])
    BY <1>2, <1>3, <1>4
  <1> QED BY <1>5 DEF PlaceTag, unclear, placed, moved, below, counted, errors, wrong, given, type, tag

LEMMA EndTagContextGoes ==
  ASSUME NEW p, Standing(p)
  PROVE  Goes(p, EndTagContext(p))
  <1> DEFINE start  == [p EXCEPT !.filterState = "UNSET"]
             ends   == p.blockType = "END"
             listed == IF ends THEN start ELSE PopNodeUntil(start, "arguments")
             emptied == SetTop(listed, [Top(listed) EXCEPT !.kids = <<>>])
             pruned == IF ~ends /\ Top(listed).kids = <<Null>> THEN emptied ELSE listed
             closed == PopNodeUntil(pruned, "tag")
  <1>1. Goes(p, p)
    BY GoesNowhere
  <1>2. Goes(p, start)
    BY <1>1, GoesOn
  <1> HIDE DEF start, ends
  <1>3. Goes(p, listed) /\ Goes(p, Fail(start, "UNEXPECTED_END"))
    BY <1>2, GoesOn
  <1> HIDE DEF listed
  <1>4. Goes(p, emptied)
    <2>1. IsNode(Top(listed))
      BY <1>3, StandingTop DEF Goes
    <2> DEFINE n == [Top(listed) EXCEPT !.kids = <<>>]
    <2>2. IsNode(n)
      BY <2>1 DEF IsNode
    <2> HIDE DEF n
    <2>3. Goes(p, SetTop(listed, n))
      BY <1>3, <2>2, GoesUp
    <2> QED BY <2>3 DEF n
  <1> HIDE DEF emptied
  <1>5. Goes(p, pruned)
    BY <1>3, <1>4
  <1> HIDE DEF pruned
  <1>6. Goes(p, closed)
    BY <1>5, GoesOn
  <1> HIDE DEF closed
  <1>7. Goes(p, PlaceTag(closed))
    BY <1>6, PlaceTagGoes
  <1>8. Goes(p, IF p.state = "NODE" THEN Fail(start, "UNEXPECTED_END")
                ELSE IF ~listed.ok THEN listed
                ELSE IF ~closed.ok THEN closed
                ELSE PlaceTag(closed))
    BY <1>3, <1>6, <1>7
  <1> QED BY <1>8 DEF EndTagContext, start, ends, listed, emptied, pruned, closed

LEMMA BlocksEndGoes ==
  ASSUME NEW p, NEW r, Goes(p, r)
  PROVE  Goes(p, EndOutputBlock(r)) /\ Goes(p, EndControlBlock(r))
  <1>1. Standing(r)
    BY DEF Goes
  <1>2. Goes(p, EndOutputContext(r)) /\ Goes(p, EndTagContext(r))
    BY <1>1, EndOutputContextGoes, EndTagContextGoes, GoesTwice
  <1> DEFINE output == EndOutputContext(r)
             tag    == EndTagContext(r)
             next   == IF r.lexing = "CONTROL_HALT" THEN "HALT" ELSE "INITIAL"
  <1> HIDE DEF output, tag, next
  <1>3. Goes(p, output) /\ Goes(p, tag)
    BY <1>2 DEF output, tag
  <1>4. /\ Goes(p, [output EXCEPT !.state = "NODE", !.lexing = "INITIAL"])
        /\ Goes(p, [tag EXCEPT !.state = "NODE", !.blockType = "NONE", !.lexing = next])
    BY <1>3, GoesOn
  <1>5. /\ Goes(p, IF output.ok THEN [output EXCEPT !.state = "NODE", !.lexing = "INITIAL"] ELSE output)
        /\ Goes(p, IF tag.ok THEN [tag EXCEPT !.state = "NODE", !.blockType = "NONE", !.lexing = next] ELSE tag)
    BY <1>3, <1>4
  <1> QED BY <1>5 DEF EndOutputBlock, EndControlBlock, output, tag, next

LEMMA NewlineGoes ==
  ASSUME NEW p, Standing(p)
  PROVE  Goes(p, Newline(p))
  <1> DEFINE ended == IF HasNode(p, "output") THEN EndOutputContext(p) ELSE EndTagContext(p)
  <1>1. Goes(p, p)
    BY GoesNowhere
  <1>2. Goes(p, ended)
    BY EndOutputContextGoes, EndTagContextGoes
  <1> HIDE DEF ended
  <1>3. Goes(p, Regardless(ended))
    BY <1>2, GoesOn
  <1>4. Goes(p, [Regardless(ended) EXCEPT !.state = "LIQUID_NODE"])
    BY <1>3, GoesOn
  <1> QED BY <1>1, <1>4 DEF Newline, ended

LEMMA EndHaltGoes ==
  ASSUME NEW p, Standing(p), NEW text, NEW w
  PROVE  Goes(p, EndHalt(p, text, w))
  <1> DEFINE filled == IF text = "two bytes" THEN p ELSE Literal(p, text)
             back   == [filled EXCEPT !.lexing = "CONTROL"]
             named  == Literal(back, w)
  <1>1. Goes(p, filled)
    BY GoesNowhere, LiteralGoes
  <1> HIDE DEF filled
  <1>2. Goes(p, back)
    BY <1>1, GoesOn
  <1> HIDE DEF back
  <1>3. Goes(p, named)
    <2>1. Goes(back, named)
      BY <1>2, LiteralGoes DEF Goes
    <2> QED BY <1>2, <2>1, GoesTwice
  <1> HIDE DEF named
  <1>4. Goes(p, EndControlBlock(named))
    BY <1>3, BlocksEndGoes
  <1> QED BY <1>3, <1>4 DEF EndHalt, named, back, filled

LEMMA StartOutputBlockGoes ==
  ASSUME NEW p, Standing(p)
  PROVE  Goes(p, StartOutputBlock(p))
  <1>1. Goes(p, p)
    BY GoesNowhere
  <1>2. Goes(p, [p EXCEPT !.lexing = "OUTPUT", !.state = "ARGUMENT"])
    BY <1>1, GoesOn
  <1> QED BY <1>2, OpenBlockGoes DEF StartOutputBlock

\* Whatever the lexer reads, the stack of nodes is not empty afterwards.
LEMMA LexGoes ==
  ASSUME outcome = "reading", Standing(parser), Lex
  PROVE  Goes(parser, parser')
  <1> DEFINE p == parser
  <1>1. Goes(p, p)
    BY GoesNowhere
  <1>2. ASSUME NEW w PROVE Goes(p, Literal(p, w)) /\ Goes(p, Operand(p, w))
    BY LiteralGoes, OperandGoes
  <1>3. CASE ReadText \/ ReadHaltText \/ ReadWord \/ ReadOperand
    BY <1>1, <1>2, <1>3 DEF ReadText, ReadHaltText, ReadWord, ReadOperand, Token
  <1>4. CASE ReadStartOutput \/ ReadEndOutput \/ ReadStartControl \/ ReadEndControl
    <2>1. Goes(p, StartOutputBlock(p)) /\ Goes(p, [p EXCEPT !.lexing = "CONTROL"])
      BY <1>1, StartOutputBlockGoes, GoesOn
    <2>2. Goes(p, EndOutputBlock(p)) /\ Goes(p, EndControlBlock(p))
      BY <1>1, BlocksEndGoes
    <2> QED BY <1>4, <2>1, <2>2 DEF ReadStartOutput, ReadEndOutput, ReadStartControl, ReadEndControl, Token
  <1>5. CASE ReadEndHalt
    BY <1>5, EndHaltGoes DEF ReadEndHalt, Token
  <1>6. CASE ReadColon \/ ReadComma \/ ReadDot \/ ReadOpenBracket \/ ReadCloseBracket
    BY <1>6, ColonGoes, CommaGoes, BracketsGo
       DEF ReadColon, ReadComma, ReadDot, ReadOpenBracket, ReadCloseBracket, Token
  <1>7. CASE ReadOpenParenthesis \/ ReadCloseParenthesis \/ ReadNewline
    BY <1>7, ParenthesesGo, NewlineGoes DEF ReadOpenParenthesis, ReadCloseParenthesis, ReadNewline, Token
  <1> QED BY <1>3, <1>4, <1>5, <1>6, <1>7 DEF Lex

-----------------------------------------------------------------------------
(* Texts whose tags are named, token by token.                             *)

LEMMA Positions ==
  ASSUME NEW n \in Nat
  PROVE  /\ n >= 2 => n - 1 \in 1..n /\ n \in 1..n /\ n - 1 + 1 = n /\ n - 1 + 2 = n + 1
         /\ n < n + 1 /\ n + 1 >= 1
         /\ n >= 1 => n + 1 >= 2 /\ n + 1 - 1 = n /\ n \in 1..n
         /\ \A i \in 1..(n - 1) : i \in 1..n /\ i + 1 \in 1..n /\ (i + 1 < n => i + 2 \in 1..n /\ i + 1 < n + 1)
  OBVIOUS

LEMMA NamedSoFar ==
  ASSUME NEW t, NEW S, t \in Seq(S), NEW w, TagsAreNamed(Append(t, w))
  PROVE  /\ TagsAreNamed(t)
         /\ Len(t) >= 1 /\ t[Len(t)] = "{%" => w \in Words \ {"liquid"}
         /\ Len(t) >= 2 /\ t[Len(t) - 1] = "{%" /\ t[Len(t)] \in DOMAIN EndOf => w = "%}"
  <1> DEFINE n == Len(t)
             u == Append(t, w)
  <1>1. n \in Nat /\ Len(u) = n + 1 /\ u[n + 1] = w /\ \A j \in 1..n : u[j] = t[j]
    <2>1. t \in Seq(S \cup {w})
      OBVIOUS
    <2> QED BY <2>1
  <1>2. \A i \in 1..n :
          u[i] = "{%" => /\ u[i + 1] \in Words \ {"liquid"}
                         /\ u[i + 1] \in DOMAIN EndOf /\ i + 1 < n + 1 => u[i + 2] = "%}"
    <2> HIDE DEF n, u
    <2>1. TagsAreNamed(u)
      BY DEF u
    <2>2. Len(u) - 1 = n
      BY <1>1
    <2>3. \A i \in 1..n :
            u[i] = "{%" => /\ u[i + 1] \in Words \ {"liquid"}
                           /\ u[i + 1] \in DOMAIN EndOf /\ i + 1 < Len(u) => u[i + 2] = "%}"
      BY <2>1, <2>2 DEF TagsAreNamed
    <2> QED BY <1>1, <2>3
  <1> HIDE DEF n, u
  <1>n. n \in Nat
    BY <1>1
  <1>3. n >= 1 /\ t[n] = "{%" => w \in Words \ {"liquid"}
    <2>1. n >= 1 => n \in 1..n
      BY <1>n
    <2> QED BY <1>1, <1>2, <2>1
  <1>4. n >= 2 /\ t[n - 1] = "{%" /\ t[n] \in DOMAIN EndOf => w = "%}"
    <2> SUFFICES ASSUME n >= 2, t[n - 1] = "{%", t[n] \in DOMAIN EndOf PROVE w = "%}"
      OBVIOUS
    <2>1. n - 1 \in 1..n /\ n \in 1..n
      BY <1>n, Positions
    <2>2. n - 1 + 1 = n /\ n - 1 + 2 = n + 1 /\ n < n + 1
      BY <1>n, Positions
    <2>3. u[n - 1] = "{%" /\ u[n] \in DOMAIN EndOf
      BY <1>1, <2>1
    <2>5. u[n - 1 + 1] \in DOMAIN EndOf /\ n - 1 + 1 < n + 1 => u[n - 1 + 2] = "%}"
      BY <1>2, <2>1, <2>3
    <2> QED BY <1>1, <2>2, <2>3, <2>5
  <1>5. \A i \in 1..(n - 1) :
          t[i] = "{%" => /\ t[i + 1] \in Words \ {"liquid"}
                         /\ t[i + 1] \in DOMAIN EndOf /\ i + 1 < n => t[i + 2] = "%}"
    <2> SUFFICES ASSUME NEW i \in 1..(n - 1), t[i] = "{%"
                 PROVE  /\ t[i + 1] \in Words \ {"liquid"}
                        /\ t[i + 1] \in DOMAIN EndOf /\ i + 1 < n => t[i + 2] = "%}"
      OBVIOUS
    <2>1. i \in 1..n /\ i + 1 \in 1..n /\ (i + 1 < n => i + 2 \in 1..n /\ i + 1 < n + 1)
      BY <1>n, Positions
    <2>2. u[i] = t[i] /\ u[i + 1] = t[i + 1] /\ (i + 1 < n => u[i + 2] = t[i + 2])
      BY <1>1, <2>1
    <2> QED BY <1>2, <2>1, <2>2
  <1>6. TagsAreNamed(t)
    BY <1>5 DEF TagsAreNamed, n
  <1> QED BY <1>3, <1>4, <1>6 DEF n

LEMMA Appended ==
  ASSUME NEW t, NEW S, t \in Seq(S), NEW w
  PROVE  /\ Append(t, w) \in Seq(S \cup {w})
         /\ Len(t) \in Nat /\ Len(Append(t, w)) = Len(t) + 1
         /\ Append(t, w)[Len(t) + 1] = w
         /\ \A j \in 1..Len(t) : Append(t, w)[j] = t[j]
  <1>1. t \in Seq(S \cup {w})
    OBVIOUS
  <1> QED BY <1>1

-----------------------------------------------------------------------------
(* Text, names of tags and end words, read between blocks.                 *)

LEMMA BlocksShrunk ==
  ASSUME NEW s, NEW t, NEW m, Blocks(s), Shrunk(s, t, m)
  PROVE  Blocks(t)
  <1>1. IsStack(t) /\ Len(s) \in Nat /\ m \in 1..Len(s) /\ Len(t) = m
    BY StackIsLong DEF Shrunk, Blocks
  <1>2. \A j \in 1..m : t[j].type \in Outer
    <2>1. \A j \in 1..m : s[j].type \in Outer
      BY <1>1 DEF Blocks
    <2>2. t[m].type = s[m].type /\ \A j \in 1..(m - 1) : t[j] = s[j]
      BY DEF Shrunk
    <2>3. m \in Nat /\ m >= 1
      BY <1>1
    <2> QED BY <2>1, <2>2, <2>3
  <1> QED BY <1>1, <1>2 DEF Blocks

LEMMA BlocksPop ==
  ASSUME NEW p, IsParser(p), Blocks(p.nodes)
  PROVE  Kept(p, PopNode(p)) /\ Blocks(PopNode(p).nodes)
  <1>1. Standing(p) /\ Len(p.nodes) \in Nat /\ Len(p.nodes) >= 1
    BY BlocksTop DEF Blocks
  <1>2. CASE Len(p.nodes) = 1
    BY <1>1, <1>2, LastStays
  <1>3. CASE Len(p.nodes) # 1
    <2>1. Len(p.nodes) > 1
      <3> DEFINE l == Len(p.nodes)
      <3>1. l \in Nat /\ l >= 1 /\ l # 1
        BY <1>1, <1>3
      <3> HIDE DEF l
      <3>2. l > 1
        BY <3>1
      <3> QED BY <3>2 DEF l
    <2> QED BY <1>1, <2>1, Popping, BlocksShrunk
  <1> QED BY <1>2, <1>3

\* A stretch of text.
LEMMA TextAt ==
  ASSUME NEW p, IsParser(p), Blocks(p.nodes), p.state = "NODE", p.lexing # "CONTROL", NEW w,
         NEW open, Between(p.nodes, open)
  PROVE  LET q == Literal(p, w)
         IN  Kept(p, q) /\ Blocks(q.nodes) /\ q.ok = p.ok /\ q.state = "NODE" /\ Between(q.nodes, open)
  <1> DEFINE n == Give(Top(p), Value(w))
             s == Append(Front(p.nodes), n)
             q == [p EXCEPT !.nodes = s]
             l == Len(p.nodes)
  <1>1. IsNode(Top(p)) /\ Top(p).type \in Outer /\ Top(p) = p.nodes[l] /\ l \in Nat
    BY BlocksTop
  <1>2. IsNode(n) /\ n.type \in Outer /\ n.type = p.nodes[l].type /\ n.sym = p.nodes[l].sym
    BY <1>1, Given
  <1>3. Literal(p, w) = q
    BY <1>1 DEF Literal, Ignores, InArguments, Text, SetTop, Outer
  <1> HIDE DEF n
  <1> DEFINE t == SetTop(p, n).nodes
  <1>4. Onto(p, SetTop(p, n)) /\ Len(t) = l /\ Same(p.nodes, t, l - 1) /\ t[l] = n
    BY <1>2, OntoTop
  <1> HIDE DEF t, l
  <1>5. Same(p.nodes, t, l)
    BY <1>1, <1>2, <1>4, SameTop
  <1>6. Blocks(t) /\ Between(t, open)
    <2>1. Len(t) = Len(p.nodes) /\ Same(p.nodes, t, Len(p.nodes))
      BY <1>4, <1>5 DEF l
    <2> QED BY <1>4, <2>1, BetweenSame DEF Onto, t
  <1>7. SetTop(p, n) = q
    BY DEF SetTop
  <1> HIDE DEF s
  <1>8. Kept(p, q) /\ q.ok = p.ok /\ q.state = p.state
    BY StackSet
  <1> HIDE DEF q
  <1> QED BY <1>3, <1>6, <1>7, <1>8 DEF t

\* An end word.
LEMMA EndNameAt ==
  ASSUME NEW p, IsParser(p), Blocks(p.nodes), NEW w \in DOMAIN EndOf, NEW open, Between(p.nodes, open)
  PROVE  LET q == EndName(p, w)
         IN  /\ IsParser(q) /\ q.start = p.start
             /\ q.ok => /\ Blocks(q.nodes) /\ Top(q).type = "tag" /\ q.lexing = p.lexing
                        /\ q.state = "ARGUMENT" /\ q.blockType = "END"
                        /\ Leaves(q.nodes, Len(q.nodes), "END", Opened(open, w))
             /\ ~q.ok => q.errors # {}
  <1> DEFINE tag    == EndOf[w]
             closed == PopNodeUntil(p, "tag")
             r      == [closed EXCEPT !.state = "ARGUMENT", !.blockType = "END"]
             q      == EndName(p, w)
  <1>1. Standing(p)
    BY BlocksTop
  <1>2. /\ Kept(p, closed)
        /\ \E m \in 1..Len(p.nodes) :
             /\ Shrunk(p.nodes, closed.nodes, m) /\ (closed.ok => p.nodes[m].type = "tag")
             /\ \A j \in (m + 1)..Len(p.nodes) : p.nodes[j].type # "tag"
    <2> HIDE DEF closed
    <2>1. closed = PopNodeUntil(p, "tag")
      BY DEF closed
    <2> QED BY <1>1, <2>1, PopUntil
  <1>3. \/ q = Fail(p, "UNKNOWN_TAG")
        \/ q = Fail(closed, "UNKNOWN_TAG")
        \/ q = r /\ closed.ok /\ Top(closed).sym = tag
    BY DEF EndName
  <1> HIDE DEF closed, q
  <1>4. PICK m \in 1..Len(p.nodes) :
          /\ Shrunk(p.nodes, closed.nodes, m) /\ (closed.ok => p.nodes[m].type = "tag")
          /\ \A j \in (m + 1)..Len(p.nodes) : p.nodes[j].type # "tag"
    BY <1>2
  <1>5. IsParser(closed) /\ closed.start = p.start /\ closed.lexing = p.lexing
    BY <1>2 DEF Kept
  <1>6. Blocks(closed.nodes) /\ Len(closed.nodes) = m /\ Top(closed) = closed.nodes[m]
    <2>1. Blocks(closed.nodes)
      BY <1>4, BlocksShrunk
    <2>2. Top(closed) = closed.nodes[Len(closed.nodes)]
      BY <1>5, <2>1, BlocksTop
    <2> QED BY <1>4, <2>1, <2>2 DEF Shrunk
  <1>7. closed.ok => /\ Top(closed).type = "tag"
                    /\ open # <<>> /\ Last(open) = Top(closed).sym
                    /\ Leaves(closed.nodes, Len(closed.nodes), "END", Front(open))
    <2> SUFFICES ASSUME closed.ok
                 PROVE  /\ Top(closed).type = "tag"
                        /\ open # <<>> /\ Last(open) = Top(closed).sym
                        /\ Leaves(closed.nodes, Len(closed.nodes), "END", Front(open))
      OBVIOUS
    <2>1. Top(closed).type = "tag"
      BY <1>4, <1>6 DEF Shrunk
    <2>2. IsStack(p.nodes)
      BY <1>1 DEF Standing
    <2>3. /\ open # <<>> /\ Last(open) = closed.nodes[m].sym
          /\ Leaves(closed.nodes, Len(closed.nodes), "END", Front(open))
      BY <1>4, <2>2, LeavesEnded
    <2> QED BY <1>6, <2>1, <2>3
  <1>8. CASE q = Fail(p, "UNKNOWN_TAG")
    <2>1. Kept(p, q) /\ ~q.ok /\ q.errors # {}
      BY <1>8, Failed
    <2> QED BY <2>1 DEF Kept, q
  <1>9. CASE q = Fail(closed, "UNKNOWN_TAG")
    <2>1. Kept(closed, q) /\ ~q.ok /\ q.errors # {}
      BY <1>5, <1>9, Failed
    <2> QED BY <1>5, <2>1 DEF Kept, q
  <1>10. CASE q = r /\ closed.ok /\ Top(closed).sym = tag
    <2>1. /\ IsParser(r) /\ r.nodes = closed.nodes /\ r.ok = closed.ok /\ r.state = "ARGUMENT"
          /\ r.blockType = "END" /\ r.lexing = closed.lexing /\ r.start = closed.start
      <3>1. IsParser(closed)
        BY <1>5
      <3> QED BY <3>1 DEF IsParser, Members
    <2> HIDE DEF r
    <2>2. Top(r) = Top(closed)
      BY <2>1 DEF Top
    <2>3. Opened(open, w) = Front(open)
      BY <1>7, <1>10 DEF Opened
    <2> QED BY <1>5, <1>6, <1>7, <1>10, <2>1, <2>2, <2>3 DEF q
  <1> QED BY <1>3, <1>8, <1>9, <1>10

\* In the body of no tag, nothing is an intermediate.
LEMMA NoTag ==
  ASSUME NEW p, Len(p.nodes) = 1, p.nodes[1].type = "concat"
  PROVE  Nearest(p, {"tag"}) = Null
  <1> DEFINE found == {j \in 1..Len(p.nodes) : p.nodes[j].type \in {"tag"}}
  <1>1. found = {}
    OBVIOUS
  <1>2. SelectLastInSeq(p.nodes, LAMBDA n : n.type \in {"tag"}) = IF found # {} THEN Max(found) ELSE 0
    BY DEF SelectLastInSeq
  <1> HIDE DEF found
  <1>3. SelectLastInSeq(p.nodes, LAMBDA n : n.type \in {"tag"}) = 0
    BY <1>1, <1>2
  <1> QED BY <1>3 DEF Nearest

LEMMA IntermediateWithin ==
  ASSUME ContextAssumption, NamesAssumption, NEW p, NEW open, Between(p.nodes, open),
         NEW w, w \in DOMAIN TagTypes, Nearest(p, {"tag"}).sym \in TagTypes[w].within
  PROVE  Len(open) >= 1 /\ w \notin ContextTags
  <1>1. Len(open) \in Nat /\ Len(p.nodes) = 2 * Len(open) + 1 /\ p.nodes[Len(p.nodes)].type = "concat"
    BY SeqEnds DEF Between, Lies
  <1>2. TagTypes[w].within \subseteq DOMAIN TagTypes
    BY DEF ContextAssumption
  <1>3. Null.sym \notin DOMAIN TagTypes
    <2> DEFINE name == Null.sym
    <2> HIDE DEF name
    <2>1. (Words \cup DOMAIN TagTypes \cup DOMAIN EndOf) \cap (Symbols \cup Texts \cup {name}) = {}
      BY DEF NamesAssumption, name
    <2>2. name \notin DOMAIN TagTypes
      BY <2>1
    <2> QED BY <2>2 DEF name
  <1>4. CASE Len(open) = 0
    <2>1. Len(p.nodes) = 1
      BY <1>1, <1>4
    <2>2. p.nodes[1].type = "concat"
      BY <1>1, <2>1
    <2>3. Nearest(p, {"tag"}) = Null
      BY <2>1, <2>2, NoTag
    <2> QED BY <1>2, <1>3, <2>3, Zenon
  <1>5. w \notin ContextTags
    BY DEF ContextTags
  <1> QED BY <1>1, <1>4, <1>5

\* A tag's name.
LEMMA StartTagSomewhere ==
  ASSUME ContextAssumption, NamesAssumption,
         NEW p, IsParser(p), Blocks(p.nodes), p.ok, p.state = "NODE", p.lexing = "CONTROL", p.blockType = "NONE",
         NEW open, Between(p.nodes, open), NEW w, w \notin DOMAIN EndOf,
         NEW t, Unended(t) = Opened(open, w), Within(t)
  PROVE  Somewhere(StartTag(p, w), t)
  <1> DEFINE own == w \in ContextTags
             intermediate == w \in DOMAIN TagTypes /\ Nearest(p, {"tag"}).sym \in TagTypes[w].within
             popped == PopNode(p)
             ended  == Regardless(popped)
             inner  == [ended EXCEPT !.blockType = "INTERMEDIATE"]
             closed == IF intermediate THEN inner ELSE p
             opened == [closed EXCEPT !.state = IF @ = "LIQUID_NODE" THEN "LIQUID_ARGUMENT" ELSE "ARGUMENT"]
             halting == [opened EXCEPT !.lexing = "CONTROL_HALT", !.halt = w]
             halted == IF TagTypes[w].composition = "LEXING_HALT" THEN halting ELSE opened
             n      == Awaiting("tag", w)
             r      == OpenBlock(halted, n)
             now    == Unended(t)
             type   == IF intermediate THEN "INTERMEDIATE" ELSE "NONE"
  <1>1. \/ StartTag(p, w) = r /\ (own \/ intermediate)
        \/ StartTag(p, w) = Fail(p, "UNKNOWN_TAG")
    BY DEF StartTag
  <1>n. IsNode(n) /\ n.type = "tag" /\ n.sym = w
    BY MadeAwaiting
  <1>s. IsStack(p.nodes) /\ Len(p.nodes) \in Nat
    BY BlocksTop DEF Standing
  <1>inner. intermediate => Len(open) >= 1 /\ ~own
    BY IntermediateWithin
  <1>2. /\ IsParser(inner) /\ inner.nodes = popped.nodes /\ (inner.errors = {} => inner.ok)
        /\ Blocks(inner.nodes)
        /\ inner.lexing = "CONTROL" /\ inner.blockType = "INTERMEDIATE" /\ inner.state # "LIQUID_NODE"
    <2>1. Kept(p, popped) /\ Blocks(popped.nodes)
      BY BlocksPop
    <2> HIDE DEF popped
    <2>2. Kept(popped, ended) /\ ended.nodes = popped.nodes /\ (ended.errors = {} => ended.ok)
      BY <2>1, Regarded DEF Kept
    <2> HIDE DEF ended
    <2>3. IsParser(ended) /\ ended.lexing = "CONTROL" /\ ended.state # "LIQUID_NODE"
      <3>1. popped.lexing = "CONTROL" /\ popped.state \in {"NODE", "IGNORE_UNTIL_BLOCK_END"}
        BY <2>1 DEF Kept
      <3> QED BY <2>2, <3>1 DEF Kept
    <2>4. /\ IsParser(inner) /\ inner.nodes = ended.nodes /\ inner.errors = ended.errors /\ inner.ok = ended.ok
          /\ inner.lexing = ended.lexing /\ inner.blockType = "INTERMEDIATE" /\ inner.state = ended.state
      BY <2>3 DEF IsParser, Members
    <2> HIDE DEF inner
    <2> QED BY <2>1, <2>2, <2>3, <2>4
  <1> HIDE DEF n, now
  <1>own. ASSUME own
          PROVE  Leaves(Append(p.nodes, n), Len(p.nodes) + 1, "NONE", now)
    <2>1. now = IF Encloses(w) THEN Append(open, w) ELSE open
      BY DEF now, Opened
    <2>2. Encloses(w) <=> Stays(n)
      BY <1>n, <1>own DEF Encloses, Stays
    <2>3. now = IF Stays(n) THEN Append(open, n.sym) ELSE open
      BY <1>n, <2>1, <2>2
    <2>4. Leaves(Append(p.nodes, n), Len(p.nodes) + 1, "NONE", IF Stays(n) THEN Append(open, n.sym) ELSE open)
      BY <1>n, <1>s, LeavesOpened
    <2> QED BY <2>3, <2>4
  <1>continued. ASSUME intermediate
                PROVE  Leaves(Append(popped.nodes, n), Len(popped.nodes) + 1, "INTERMEDIATE", now)
    <2>1. now = open
      BY <1>inner, <1>continued DEF now, Opened, Encloses
    <2>2. Len(open) >= 1
      BY <1>inner, <1>continued
    <2>3. Len(open) \in Nat /\ Len(p.nodes) = 2 * Len(open) + 1
      BY SeqEnds DEF Between, Lies
    <2>4. Len(p.nodes) > 1
      BY <2>2, <2>3
    <2>5. Shrunk(p.nodes, popped.nodes, Len(p.nodes) - 1)
      BY <2>4, BlocksTop, Popping
    <2> HIDE DEF popped, intermediate
    <2>6. Same(p.nodes, popped.nodes, Len(p.nodes) - 1) /\ Len(popped.nodes) = Len(p.nodes) - 1 /\ IsStack(popped.nodes)
      BY <1>s, <2>5, ShrunkSame DEF Shrunk
    <2> QED BY <1>n, <2>1, <2>2, <2>6, LeavesContinued
  <1> HIDE DEF inner, intermediate, own, popped
  <1>3. /\ IsParser(closed) /\ (closed.errors = {} => closed.ok) /\ Blocks(closed.nodes)
        /\ closed.lexing = "CONTROL" /\ closed.blockType = type
        /\ closed.state # "LIQUID_NODE"
    BY <1>2
  <1>closed. own \/ intermediate => Leaves(Append(closed.nodes, n), Len(closed.nodes) + 1, type, now)
    BY <1>2, <1>own, <1>continued
  <1> HIDE DEF closed
  <1>4. /\ IsParser(opened) /\ (opened.errors = {} => opened.ok) /\ Blocks(opened.nodes)
        /\ opened.lexing = "CONTROL" /\ opened.blockType = type
        /\ opened.state = "ARGUMENT" /\ opened.nodes = closed.nodes
    <2>1. /\ IsParser(opened) /\ opened.errors = closed.errors /\ opened.ok = closed.ok
          /\ opened.nodes = closed.nodes /\ opened.lexing = closed.lexing
          /\ opened.blockType = closed.blockType
          /\ opened.state = IF closed.state = "LIQUID_NODE" THEN "LIQUID_ARGUMENT" ELSE "ARGUMENT"
      <3>1. IsParser(closed)
        BY <1>3
      <3> QED BY <3>1 DEF IsParser, Members
    <2> HIDE DEF opened
    <2> QED BY <1>3, <2>1
  <1> HIDE DEF opened
  <1>5. /\ IsParser(halting) /\ halting.errors = opened.errors /\ halting.ok = opened.ok
        /\ halting.nodes = opened.nodes /\ halting.lexing = "CONTROL_HALT"
        /\ halting.blockType = opened.blockType /\ halting.state = opened.state
    <2>1. IsParser(opened)
      BY <1>4
    <2> QED BY <2>1 DEF IsParser, Members
  <1> HIDE DEF halting
  <1>6. /\ IsParser(halted) /\ (halted.errors = {} => halted.ok) /\ Blocks(halted.nodes)
        /\ halted.lexing \in {"CONTROL", "CONTROL_HALT"} /\ halted.blockType = type
        /\ halted.state = "ARGUMENT" /\ halted.nodes = closed.nodes
    BY <1>4, <1>5
  <1> HIDE DEF halted
  <1> DEFINE i    == Len(closed.nodes) + 1
             base == Append(closed.nodes, n)
  <1>7. Kept(halted, r) /\ (r.ok => Ready(r, i, base)) /\ (~r.ok => r.errors # {})
    <2>1. halted.ok \/ halted.errors # {}
      BY <1>6
    <2>2. Kept(halted, r)
      BY <1>6, <2>1, OpenBlockReady DEF n
    <2>3. r.ok => Ready(r, Len(halted.nodes) + 1, Append(halted.nodes, n))
      BY <1>6, <2>1, OpenBlockReady DEF n
    <2>4. ~r.ok => r.errors # {}
      BY <1>6, <2>1, OpenBlockReady DEF n
    <2> QED BY <1>6, <2>2, <2>3, <2>4
  <1> HIDE DEF r
  <1>8. own \/ intermediate => Somewhere(r, t)
    <2> SUFFICES ASSUME own \/ intermediate PROVE Somewhere(r, t)
      OBVIOUS
    <2>1. /\ IsParser(r) /\ r.lexing \in {"CONTROL", "CONTROL_HALT"} /\ r.blockType = type /\ Reads(r)
          /\ type \in {"NONE", "INTERMEDIATE"}
      BY <1>6, <1>7 DEF Kept, Reads
    <2>2. base[i].type = "tag"
      <3>1. IsStack(closed.nodes)
        BY <1>3 DEF Blocks
      <3> QED BY <1>n, <3>1, Pushed
    <2>3. Leaves(base, i, r.blockType, Unended(t))
      BY <1>closed, <2>1 DEF now
    <2> HIDE DEF base, i, type
    <2>4. r.ok => InTag(r, t)
      BY <1>7, <2>1, <2>2, <2>3 DEF InTag
    <2> QED BY <1>7, <2>1, <2>4 DEF Somewhere, Reports
  <1>9. Somewhere(Fail(p, "UNKNOWN_TAG"), t)
    BY SomewhereFailed
  <1> QED BY <1>1, <1>8, <1>9

LEMMA NameSomewhere ==
  ASSUME ContextAssumption, NamesAssumption,
         NEW p, NEW t, NEW S, t \in Seq(S), IsParser(p), AtName(p, t), p.ok, NEW w \in Words \ {"liquid"}
  PROVE  Somewhere(Literal(p, w), Append(t, w))
  <1> DEFINE u == Append(t, w)
             open == Unended(t)
  <1>1. /\ IsParser(p) /\ Blocks(p.nodes) /\ p.ok /\ p.state = "NODE" /\ p.lexing = "CONTROL" /\ p.blockType = "NONE"
        /\ Len(t) >= 1 /\ t[Len(t)] = "{%" /\ Between(p.nodes, open)
    BY DEF AtName
  <1>2. Literal(p, w) = IF w \in DOMAIN EndOf THEN EndName(p, w) ELSE StartTag(p, w)
    BY <1>1 DEF Literal, Ignores, InArguments, TagName
  <1>3. /\ Len(u) >= 2 /\ u[Len(u) - 1] = "{%" /\ u[Len(u)] = w /\ Len(u) >= 1
    <2> DEFINE n == Len(t)
    <2>1. n \in Nat /\ Len(u) = n + 1 /\ u[n + 1] = w /\ (n \in 1..n => u[n] = t[n])
      BY Appended
    <2>2. n >= 1 /\ t[n] = "{%"
      BY <1>1
    <2> HIDE DEF n, u
    <2>3. n + 1 >= 2 /\ n + 1 - 1 = n /\ n \in 1..n /\ n + 1 >= 1
      BY <2>1, <2>2, Positions
    <2>4. Len(u) >= 2 /\ Len(u) - 1 = n /\ Len(u) >= 1
      BY <2>1, <2>3
    <2>5. u[n] = "{%" /\ u[Len(u)] = w
      BY <2>1, <2>2, <2>3
    <2> QED BY <2>4, <2>5
  <1>4. Unended(u) = Opened(open, w)
    <2>1. IsSeq(t) /\ "{%" \in Heads
      BY DEF IsSeq, Heads
    <2>2. Unended(u) = IF Len(t) >= 1 /\ t[Len(t)] \in Heads THEN Opened(open, w) ELSE open
      BY <2>1, UnendedNext
    <2> QED BY <1>1, <2>1, <2>2
  <1>5. Within(u)
    <2>1. w \notin Heads
      BY DEF NamesAssumption, Heads, Symbols
    <2> QED BY <1>3, <2>1 DEF Within
  <1> HIDE DEF u, open
  <1>6. CASE w \in DOMAIN EndOf
    <2> DEFINE q == EndName(p, w)
    <2>1. /\ IsParser(q) /\ q.start = p.start
          /\ q.ok => /\ Blocks(q.nodes) /\ Top(q).type = "tag" /\ q.lexing = p.lexing
                     /\ q.state = "ARGUMENT" /\ q.blockType = "END"
                     /\ Leaves(q.nodes, Len(q.nodes), "END", Opened(open, w))
          /\ ~q.ok => q.errors # {}
      BY <1>1, <1>6, EndNameAt
    <2> HIDE DEF q
    <2>2. Somewhere(q, u)
      BY <1>1, <1>3, <1>4, <1>6, <2>1 DEF Somewhere, AtEnd, Reports
    <2> QED BY <1>2, <1>6, <2>2 DEF q, u
  <1>7. CASE w \notin DOMAIN EndOf
    <2>1. Somewhere(StartTag(p, w), u)
      BY <1>1, <1>4, <1>5, <1>7, StartTagSomewhere
    <2> QED BY <1>2, <1>7, <2>1 DEF u
  <1> QED BY <1>6, <1>7

-----------------------------------------------------------------------------
(* Inside a block.                                                         *)

LEMMA BlockSomewhere ==
  ASSUME NEW p, NEW t, NEW i, NEW base, Ready(p, i, base), p.ok, Reads(p), IsBlock(p, t, i, base)
  PROVE  /\ \A w : Somewhere(Literal(p, w), t) /\ Somewhere(Operand(p, w), t)
         /\ Somewhere(Colon(p), t) /\ Somewhere(Comma(p), t) /\ Somewhere(Dot(p), t)
         /\ Somewhere(StartVariableDereference(p), t) /\ Somewhere(EndVariableDereference(p), t)
         /\ Somewhere(OpenParenthesis(p), t) /\ Somewhere(CloseParenthesis(p), t)
         /\ Somewhere(Newline(p), t)
  <1>1. ASSUME NEW q, Answers(p, q, i, base) PROVE Somewhere(q, t)
    BY <1>1, SomewhereAnswered
  <1>2. Ignores(p) \/ InArguments(p)
    BY DEF Reads, Ignores, InArguments
  <1>3. ASSUME NEW w PROVE Somewhere(Literal(p, w), t) /\ Somewhere(Operand(p, w), t)
    BY <1>1, <1>2, LiteralAnswers, OperandAnswers
  <1>4. Somewhere(Colon(p), t) /\ Somewhere(Comma(p), t) /\ Somewhere(Dot(p), t)
    BY <1>1, ColonAnswers, CommaAnswers, DotAnswers
  <1>5. /\ Somewhere(StartVariableDereference(p), t) /\ Somewhere(EndVariableDereference(p), t)
        /\ Somewhere(OpenParenthesis(p), t) /\ Somewhere(CloseParenthesis(p), t)
    BY <1>1, OpenBracketAnswers, CloseBracketAnswers, OpenParenthesisAnswers, CloseParenthesisAnswers
  <1>6. Newline(p) = p
    BY DEF Newline, Reads
  <1>7. Somewhere(p, t)
    <2>1. Answers(p, p, i, base)
      BY AnswersSame
    <2> QED BY <1>1, <2>1
  <1> QED BY <1>3, <1>4, <1>5, <1>6, <1>7

LEMMA EndHaltSomewhere ==
  ASSUME NEW p, IsParser(p), p.ok, NEW t, IsSeq(t), AtText(p, t), p.lexing = "HALT", NEW text, NEW w \in DOMAIN EndOf
  PROVE  Somewhere(EndHalt(p, text, w), Append(t, w))
  <1> DEFINE filled == IF text = "two bytes" THEN p ELSE Literal(p, text)
             back   == [filled EXCEPT !.lexing = "CONTROL"]
             named  == Literal(back, w)
             ended  == EndControlBlock(named)
             u      == Append(t, w)
             open   == Unended(t)
  <1>1. /\ IsParser(filled) /\ Blocks(filled.nodes) /\ filled.ok /\ filled.state = "NODE" /\ filled.blockType = "NONE"
        /\ Between(filled.nodes, open)
    <2>1. /\ Blocks(p.nodes) /\ p.state = "NODE" /\ p.blockType = "NONE" /\ p.lexing # "CONTROL"
          /\ Between(p.nodes, open)
      BY DEF AtText
    <2> HIDE DEF open
    <2>2. LET q == Literal(p, text)
          IN  Kept(p, q) /\ Blocks(q.nodes) /\ q.ok = p.ok /\ q.state = "NODE" /\ Between(q.nodes, open)
      BY <2>1, TextAt
    <2> QED BY <2>1, <2>2 DEF Kept
  <1> HIDE DEF filled
  <1>2. /\ IsParser(back) /\ Blocks(back.nodes) /\ back.ok /\ back.state = "NODE" /\ back.blockType = "NONE"
        /\ back.lexing = "CONTROL" /\ Between(back.nodes, open)
    <2>1. /\ IsParser(back) /\ back.nodes = filled.nodes /\ back.ok = filled.ok /\ back.state = filled.state
          /\ back.blockType = filled.blockType /\ back.lexing = "CONTROL"
      <3>1. IsParser(filled)
        BY <1>1
      <3> QED BY <3>1 DEF IsParser, Members
    <2> HIDE DEF back, open
    <2> QED BY <1>1, <2>1
  <1> HIDE DEF back
  <1>3. named = EndName(back, w)
    BY <1>2 DEF Literal, Ignores, InArguments, TagName
  <1>4. /\ IsParser(named)
        /\ named.ok => /\ Blocks(named.nodes) /\ Top(named).type = "tag" /\ named.blockType = "END"
                       /\ named.lexing = "CONTROL"
                       /\ Leaves(named.nodes, Len(named.nodes), "END", Opened(open, w))
        /\ ~named.ok => named.errors # {}
    <2> HIDE DEF named, open
    <2> QED BY <1>2, <1>3, EndNameAt
  <1>u. Unended(u) = Opened(open, w)
    <2>1. Unended(u) = IF Len(t) >= 1 /\ t[Len(t)] \in Heads THEN Opened(open, w) ELSE open
      BY UnendedNext
    <2> QED BY <2>1 DEF AtText
  <1> HIDE DEF named, open, u
  <1>5. CASE named.ok
    <2>1. Closes(named, EndTagContext(named), Unended(u))
      BY <1>4, <1>5, <1>u, EndOfEndCloses
    <2>2. Somewhere(EndControlBlock(named), u)
      BY <1>4, <1>5, <2>1, EndControlBlockSomewhere
    <2>3. EndHalt(p, text, w) = EndControlBlock(named)
      BY <1>5 DEF EndHalt, named, back, filled
    <2> QED BY <2>2, <2>3 DEF u
  <1>6. CASE ~named.ok
    <2>1. EndHalt(p, text, w) = named
      BY <1>6 DEF EndHalt, named, back, filled
    <2> QED BY <1>4, <1>6, <2>1 DEF Somewhere, Reports
  <1> QED BY <1>5, <1>6

LEMMA StartOutputBlockSomewhere ==
  ASSUME NEW p, IsParser(p), p.ok, NEW t, NEW u, AtText(p, t), Unended(u) = Unended(t), Within(u)
  PROVE  Somewhere(StartOutputBlock(p), u)
  <1> DEFINE r == [p EXCEPT !.lexing = "OUTPUT", !.state = "ARGUMENT"]
             n == Awaiting("output", "echo")
             q == OpenBlock(r, n)
             i == Len(p.nodes) + 1
             base == Append(p.nodes, n)
  <1>1. /\ IsParser(r) /\ r.nodes = p.nodes /\ r.ok = p.ok /\ r.lexing = "OUTPUT" /\ r.state = "ARGUMENT"
        /\ r.blockType = p.blockType
    BY DEF IsParser, Members
  <1>2. Blocks(p.nodes) /\ p.blockType = "NONE" /\ Between(p.nodes, Unended(u)) /\ IsStack(p.nodes)
    BY DEF AtText, Blocks
  <1>3. StartOutputBlock(p) = q
    BY DEF StartOutputBlock
  <1>n. IsNode(n) /\ n.type = "output" /\ ~Stays(n)
    BY MadeAwaiting DEF Stays
  <1> HIDE DEF r
  <1>4. Kept(r, q) /\ (q.ok => Ready(q, i, base)) /\ (~q.ok => q.errors # {})
    <2>1. Kept(r, q)
      BY <1>1, <1>2, OpenBlockReady
    <2>2. q.ok => Ready(q, Len(r.nodes) + 1, Append(r.nodes, n))
      BY <1>1, <1>2, OpenBlockReady
    <2>3. ~q.ok => q.errors # {}
      BY <1>1, <1>2, OpenBlockReady
    <2> QED BY <1>1, <2>1, <2>2, <2>3
  <1> HIDE DEF q
  <1>5. IsParser(q) /\ q.lexing = "OUTPUT" /\ q.blockType = "NONE" /\ Reads(q)
    BY <1>1, <1>2, <1>4 DEF Kept, Reads
  <1> HIDE DEF n
  <1>6. base[i].type = "output"
    BY <1>2, <1>n, Pushed
  <1>7. Leaves(base, i, "NONE", Unended(u))
    <2> DEFINE open == Unended(u)
    <2>1. Between(p.nodes, open)
      BY <1>2
    <2> HIDE DEF open
    <2>2. Leaves(base, i, "NONE", IF Stays(n) THEN Append(open, n.sym) ELSE open)
      BY <1>2, <1>n, <2>1, LeavesOpened
    <2>3. Leaves(base, i, "NONE", open)
      BY <1>n, <2>2
    <2> QED BY <2>3 DEF open
  <1> HIDE DEF base, i
  <1>8. q.ok => InOutput(q, u)
    BY <1>4, <1>5, <1>6, <1>7 DEF InOutput
  <1>9. Somewhere(q, u)
    BY <1>4, <1>5, <1>8 DEF Somewhere, Reports
  <1> QED BY <1>3, <1>9

-----------------------------------------------------------------------------
(* The specification.                                                      *)

\* Every token leads from somewhere in the text to somewhere in the text.
LEMMA LexSomewhere ==
  ASSUME ContextAssumption, NamesAssumption,
         NEW S, read \in Seq(S), Somewhere(parser, read), Lex, TagsAreNamed(read')
  PROVE  Somewhere(parser', read')
  <1> DEFINE p == parser
  <1>1. /\ p.ok /\ IsParser(p)
        /\ \E v : read' = Append(read, v)
    BY DEF Somewhere, Lex, ReadText, ReadHaltText, ReadStartOutput, ReadEndOutput, ReadStartControl, ReadEndControl,
           ReadEndHalt, ReadWord, ReadOperand, ReadColon, ReadComma, ReadDot, ReadOpenBracket,
           ReadCloseBracket, ReadOpenParenthesis, ReadCloseParenthesis, ReadNewline, Token, InBlock, Reading
  <1>2. \A v : read' = Append(read, v) =>
          /\ Len(read) >= 1 /\ read[Len(read)] = "{%" => v \in Words \ {"liquid"}
          /\ Len(read) >= 2 /\ read[Len(read) - 1] = "{%" /\ read[Len(read)] \in DOMAIN EndOf => v = "%}"
    <2> SUFFICES ASSUME NEW v, read' = Append(read, v)
                 PROVE  /\ Len(read) >= 1 /\ read[Len(read)] = "{%" => v \in Words \ {"liquid"}
                        /\ Len(read) >= 2 /\ read[Len(read) - 1] = "{%" /\ read[Len(read)] \in DOMAIN EndOf => v = "%}"
      OBVIOUS
    <2>1. TagsAreNamed(Append(read, v))
      OBVIOUS
    <2> QED BY <2>1, NamedSoFar
  <1>3. AtText(p, read) \/ AtName(p, read) \/ AtEnd(p, read) \/ InOutput(p, read) \/ InTag(p, read)
    BY <1>1 DEF Somewhere
  <1>4. \A v \in Words : v \notin Symbols /\ v \notin Texts
    <2>1. \A v \in Words \cup DOMAIN EndOf : v \notin Symbols \cup Texts
      BY DEF NamesAssumption
    <2> QED BY <2>1
  <1>seq. IsSeq(read)
    BY DEF IsSeq
  \* The tags that are open change with the names of tags only.
  <1>same. ASSUME NEW v, read' = Append(read, v), v \in Symbols \cup Texts \/ Within(read)
           PROVE  Unended(read') = Unended(read)
    BY <1>seq, <1>same, OpenedByNames DEF Within
  <1>last. ASSUME NEW v, read' = Append(read, v)
           PROVE  Len(read') >= 1 /\ read'[Len(read')] = v
    <2> DEFINE n == Len(read)
    <2>1. n \in Nat /\ Len(read') = n + 1 /\ read'[n + 1] = v
      BY <1>last, Appended
    <2> HIDE DEF n
    <2>2. n + 1 >= 1
      BY <2>1, Positions
    <2> QED BY <2>1, <2>2
  \* What the lexer may read in each of its states.
  <1>5. p.lexing \in {"INITIAL", "HALT"} =>
          ReadText \/ ReadHaltText \/ ReadStartOutput \/ ReadStartControl \/ ReadEndHalt
    BY DEF Lex, ReadEndOutput, ReadEndControl, ReadWord, ReadOperand, ReadColon, ReadComma, ReadDot,
           ReadOpenBracket, ReadCloseBracket, ReadOpenParenthesis, ReadCloseParenthesis, ReadNewline,
           InBlock, Reading
  <1>6. p.lexing = "CONTROL" =>
          ReadEndControl \/ ReadWord \/ \E v \in Symbols \ {"%}"} : read' = Append(read, v)
    BY DEF Lex, ReadText, ReadHaltText, ReadStartOutput, ReadEndOutput, ReadStartControl, ReadEndHalt,
           ReadOperand, ReadColon, ReadComma, ReadDot, ReadOpenBracket,
           ReadCloseBracket, ReadOpenParenthesis, ReadCloseParenthesis, ReadNewline, Token, InBlock, Reading,
           Symbols
  <1>7. p.lexing \in {"OUTPUT", "CONTROL", "CONTROL_HALT"} =>
          \/ ReadEndOutput \/ ReadEndControl
          \/ \E v : /\ read' = Append(read, v) /\ v \notin Heads
                   /\ \/ parser' \in {Literal(p, v), Operand(p, v)}
                      \/ parser' \in {Colon(p), Comma(p), Dot(p), StartVariableDereference(p),
                                      EndVariableDereference(p), OpenParenthesis(p), CloseParenthesis(p), Newline(p)}
    <2> DEFINE Other(v) == /\ read' = Append(read, v) /\ v \notin Heads
                           /\ \/ parser' \in {Literal(p, v), Operand(p, v)}
                              \/ parser' \in {Colon(p), Comma(p), Dot(p), StartVariableDereference(p),
                                              EndVariableDereference(p), OpenParenthesis(p), CloseParenthesis(p),
                                              Newline(p)}
    <2>1. ReadWord => \E v : Other(v)
      <3>1. \A v \in Words : v \notin Heads
        BY <1>4 DEF Heads, Symbols
      <3> QED BY <3>1 DEF ReadWord, Token
    <2>2. \A v \in {"string", "number", ":", ",", ".", "[", "]", "(", ")", "newline"} : v \notin Heads
      BY DEF Heads, Texts
    <2>3. \/ ReadOperand \/ ReadColon \/ ReadComma \/ ReadDot \/ ReadOpenBracket \/ ReadCloseBracket
          \/ ReadOpenParenthesis \/ ReadCloseParenthesis \/ ReadNewline
          => \E v : Other(v)
      BY <2>2 DEF ReadOperand, ReadColon, ReadComma, ReadDot, ReadOpenBracket, ReadCloseBracket,
             ReadOpenParenthesis, ReadCloseParenthesis, ReadNewline, Token
    <2> HIDE DEF Other
    <2>4. p.lexing \in {"OUTPUT", "CONTROL", "CONTROL_HALT"} => ReadEndOutput \/ ReadEndControl \/ \E v : Other(v)
      BY <2>1, <2>3 DEF Lex, ReadText, ReadHaltText, ReadStartOutput, ReadStartControl, ReadEndHalt, Reading
    <2> QED BY <2>4 DEF Other
  <1>8. CASE AtText(p, read)
    <2> DEFINE open == Unended(read)
    <2>1. /\ p.lexing \in {"INITIAL", "HALT"} /\ p.state = "NODE" /\ p.blockType = "NONE"
          /\ Blocks(p.nodes) /\ Between(p.nodes, open) /\ p.lexing # "CONTROL"
      BY <1>8 DEF AtText
    <2>2. CASE ReadText
      <3> DEFINE q == Literal(p, "text")
      <3>1. /\ Kept(p, q) /\ Blocks(q.nodes) /\ q.ok = p.ok /\ q.state = "NODE" /\ Between(q.nodes, open)
        <4> HIDE DEF open
        <4> QED BY <1>1, <2>1, TextAt
      <3>2. parser' = q /\ read' = Append(read, "text") /\ p.lexing = "INITIAL"
        BY <2>2 DEF ReadText, Token, Reading
      <3>3. Unended(read') = open
        BY <1>same, <3>2 DEF Texts
      <3> HIDE DEF q, open
      <3>4. Somewhere(q, read')
        BY <1>1, <2>1, <3>1, <3>2, <3>3 DEF Somewhere, AtText, Kept
      <3> QED BY <3>2, <3>4
    <2>3. CASE ReadHaltText
      <3>1. PICK v \in Texts : parser' = p /\ read' = Append(read, v)
        BY <2>3 DEF ReadHaltText, Token
      <3>2. Unended(read') = open
        BY <1>same, <3>1
      <3>3. Len(read') >= 1 /\ read'[Len(read')] \in Heads
        BY <1>last, <3>1 DEF Heads
      <3> HIDE DEF open
      <3>4. Somewhere(p, read')
        BY <1>1, <2>1, <3>2, <3>3 DEF Somewhere, AtText
      <3> QED BY <3>1, <3>4
    <2>4. CASE ReadStartOutput
      <3>1. parser' = StartOutputBlock(p) /\ read' = Append(read, "{{")
        BY <2>4 DEF ReadStartOutput, Token
      <3>2. Unended(read') = open
        BY <1>same, <3>1 DEF Symbols
      <3>3. Within(read')
        <4>1. "{{" \notin Heads
          BY DEF Heads, Texts
        <4> QED BY <1>last, <3>1, <4>1 DEF Within
      <3>4. Somewhere(StartOutputBlock(p), read')
        BY <1>1, <1>8, <3>2, <3>3, StartOutputBlockSomewhere
      <3> QED BY <3>1, <3>4
    <2>5. CASE ReadStartControl
      <3> DEFINE q == [p EXCEPT !.lexing = "CONTROL"]
      <3>1. parser' = q /\ read' = Append(read, "{%")
        BY <2>5 DEF ReadStartControl, Token
      <3>2. /\ IsParser(q) /\ q.nodes = p.nodes /\ q.ok = p.ok /\ q.state = p.state
            /\ q.blockType = p.blockType /\ q.lexing = "CONTROL"
        BY <1>1 DEF IsParser, Members
      <3>3. Len(read') >= 1 /\ read'[Len(read')] = "{%"
        BY <1>last, <3>1
      <3>4. Unended(read') = open
        BY <1>same, <3>1 DEF Symbols
      <3> HIDE DEF q, open
      <3>5. Somewhere(q, read')
        BY <1>1, <2>1, <3>2, <3>3, <3>4 DEF Somewhere, AtName
      <3> QED BY <3>1, <3>5
    <2>6. CASE ReadEndHalt
      <3>1. /\ p.lexing = "HALT"
            /\ \E w \in DOMAIN EndOf : \E raw : parser' = EndHalt(p, raw, w) /\ read' = Append(read, w)
        BY <2>6 DEF ReadEndHalt, Token, Reading
      <3>2. PICK w \in DOMAIN EndOf : \E raw : parser' = EndHalt(p, raw, w) /\ read' = Append(read, w)
        BY <3>1
      <3>3. \A raw : Somewhere(EndHalt(p, raw, w), Append(read, w))
        BY <1>1, <1>8, <1>seq, <3>1, EndHaltSomewhere
      <3> QED BY <3>2, <3>3
    <2> QED BY <1>5, <2>1, <2>2, <2>3, <2>4, <2>5, <2>6
  <1>9. CASE AtName(p, read)
    <2>1. \A v : read' = Append(read, v) => v \in Words \ {"liquid"}
      BY <1>2, <1>9 DEF AtName
    <2>2. p.lexing = "CONTROL"
      BY <1>9 DEF AtName
    <2>3. ~ReadEndControl
      BY <1>4, <2>1 DEF ReadEndControl, Token, Symbols
    <2>4. ReadWord
      BY <1>4, <1>6, <2>1, <2>2, <2>3
    <2>5. PICK w \in Words : parser' = Literal(p, w) /\ read' = Append(read, w)
      BY <2>4 DEF ReadWord, Token
    <2>6. w \in Words \ {"liquid"}
      BY <2>1, <2>5
    <2>7. Somewhere(Literal(p, w), Append(read, w))
      BY <1>1, <1>9, <2>6, NameSomewhere
    <2> QED BY <2>5, <2>7
  <1>10. CASE AtEnd(p, read)
    <2> DEFINE open == Unended(read')
    <2>1. \A v : read' = Append(read, v) => v = "%}"
      BY <1>2, <1>10 DEF AtEnd
    <2>2. p.lexing = "CONTROL" /\ Blocks(p.nodes) /\ Top(p).type = "tag" /\ p.blockType = "END"
      BY <1>10 DEF AtEnd
    <2>3. ~ReadWord
      BY <1>4, <2>1 DEF ReadWord, Token, Symbols
    <2>4. ReadEndControl
      BY <1>6, <2>1, <2>2, <2>3
    <2>5. parser' = EndControlBlock(p) /\ read' = Append(read, "%}")
      BY <2>4 DEF ReadEndControl, Token
    <2>6. Leaves(p.nodes, Len(p.nodes), "END", open)
      <3>1. open = Unended(read)
        BY <1>same, <2>5 DEF Symbols
      <3> QED BY <1>10, <3>1 DEF AtEnd
    <2> HIDE DEF open
    <2>7. Closes(p, EndTagContext(p), open)
      BY <1>1, <2>2, <2>6, EndOfEndCloses
    <2>8. Somewhere(EndControlBlock(p), read')
      BY <2>2, <2>7, EndControlBlockSomewhere DEF open
    <2> QED BY <2>5, <2>8
  <1>11. CASE InOutput(p, read) \/ InTag(p, read)
    <2> DEFINE open == Unended(read')
    <2>1. PICK i, base : /\ Ready(p, i, base) /\ Reads(p) /\ IsBlock(p, read, i, base)
      BY <1>11 DEF InOutput, InTag, IsBlock
    <2>2. Inside(p, i, base) /\ Within(read)
      BY <2>1 DEF Ready, IsBlock
    <2>3. open = Unended(read)
      BY <1>1, <1>same, <2>2
    <2> HIDE DEF open
    <2>4. Leaves(base, i, p.blockType, open)
      BY <2>1, <2>3 DEF IsBlock
    <2>5. CASE ReadEndOutput
      <3>1. p.lexing = "OUTPUT" /\ parser' = EndOutputBlock(p)
        BY <2>5 DEF ReadEndOutput, Reading, Token
      <3>2. base[i].type = "output" /\ p.blockType = "NONE"
        BY <2>1, <3>1 DEF IsBlock
      <3>3. Closes(p, EndOutputContext(p), open)
        BY <2>2, <2>4, <3>2, EndOutputContextCloses
      <3>4. Somewhere(EndOutputBlock(p), read')
        BY <3>2, <3>3, EndOutputBlockSomewhere DEF open
      <3> QED BY <3>1, <3>4
    <2>6. CASE ReadEndControl
      <3>1. /\ p.lexing \in {"CONTROL", "CONTROL_HALT"} /\ parser' = EndControlBlock(p)
            /\ read' = Append(read, "%}")
        BY <2>6 DEF ReadEndControl, Reading, Token
      <3>2. base[i].type = "tag" /\ p.blockType # "END"
        BY <2>1, <3>1 DEF IsBlock
      <3>3. Closes(p, EndTagContext(p), open)
        BY <2>2, <2>4, <3>2, EndTagContextCloses
      <3>4. Len(read') >= 1 /\ read'[Len(read')] \in Heads
        BY <1>last, <3>1 DEF Heads
      <3>5. Somewhere(EndControlBlock(p), read')
        BY <3>3, <3>4, EndControlBlockSomewhere DEF open
      <3> QED BY <3>1, <3>5
    <2>7. CASE \E v : /\ read' = Append(read, v) /\ v \notin Heads
                     /\ \/ parser' \in {Literal(p, v), Operand(p, v)}
                        \/ parser' \in {Colon(p), Comma(p), Dot(p), StartVariableDereference(p),
                                        EndVariableDereference(p), OpenParenthesis(p), CloseParenthesis(p), Newline(p)}
      <3>1. PICK v : /\ read' = Append(read, v) /\ v \notin Heads
                     /\ \/ parser' \in {Literal(p, v), Operand(p, v)}
                        \/ parser' \in {Colon(p), Comma(p), Dot(p), StartVariableDereference(p),
                                        EndVariableDereference(p), OpenParenthesis(p), CloseParenthesis(p), Newline(p)}
        BY <2>7
      <3>2. Within(read')
        BY <1>last, <3>1 DEF Within
      <3>3. IsBlock(p, read', i, base)
        BY <2>1, <2>4, <3>2 DEF IsBlock, open
      <3>4. /\ \A w : Somewhere(Literal(p, w), read') /\ Somewhere(Operand(p, w), read')
            /\ Somewhere(Colon(p), read') /\ Somewhere(Comma(p), read') /\ Somewhere(Dot(p), read')
            /\ Somewhere(StartVariableDereference(p), read') /\ Somewhere(EndVariableDereference(p), read')
            /\ Somewhere(OpenParenthesis(p), read') /\ Somewhere(CloseParenthesis(p), read')
            /\ Somewhere(Newline(p), read')
        BY <1>1, <2>1, <3>3, BlockSomewhere
      <3> QED BY <3>1, <3>4
    <2>8. p.lexing \in {"OUTPUT", "CONTROL", "CONTROL_HALT"}
      BY <2>1 DEF IsBlock
    <2> QED BY <1>7, <2>5, <2>6, <2>7, <2>8
  <1> QED BY <1>3, <1>8, <1>9, <1>10, <1>11

\* What holds of the parser and its text after every step.
ReadInv ==
  /\ \E S : read \in Seq(S)
  /\ outcome # "none" => Standing(parser)
  /\ outcome = "reading" /\ parser.start = "INITIAL" /\ TagsAreNamed(read) => Somewhere(parser, read)
  /\ StopsAreReported
  /\ BlocksMatch

LEMMA FreshStands ==
  ASSUME NEW p, NEW n, IsNode(n), NEW state, NEW blockType, NEW lexing
  PROVE  LET q == Fresh(p, <<n>>, state, blockType, lexing)
         IN  /\ Standing(q) /\ q.nodes = <<n>> /\ q.ok /\ q.state = state /\ q.blockType = blockType
             /\ q.lexing = lexing /\ q.start = lexing
  <1> DEFINE s == <<n>>
             q == Fresh(p, s, state, blockType, lexing)
  <1>1. s \in Seq({n}) /\ Len(s) = 1 /\ s[1] = n
    OBVIOUS
  <1> HIDE DEF s
  <1>2. IsStack(s)
    <2>1. \A j \in 1..Len(s) : j = 1
      BY <1>1
    <2>2. \A j \in 1..Len(s) : IsNode(s[j])
      BY <1>1, <2>1
    <2> QED BY <1>1, <2>2 DEF IsStack
  <1>3. Len(s) >= 1
    BY <1>1
  <1>4. IsParser(q)
    BY DEF Fresh, IsParser, Members
  <1>5. q.nodes = s /\ q.ok /\ q.state = state /\ q.blockType = blockType /\ q.lexing = lexing /\ q.start = lexing
    BY DEF Fresh
  <1> HIDE DEF q
  <1>6. Standing(q)
    BY <1>2, <1>3, <1>4, <1>5 DEF Standing
  <1> QED BY <1>5, <1>6 DEF q, s

LEMMA ReadInvInit ==
  ASSUME Init PROVE ReadInv
  <1>1. outcome = "none" /\ read = <<>>
    BY DEF Init
  <1>2. read \in Seq({})
    BY <1>1
  <1> QED BY <1>1, <1>2 DEF ReadInv, StopsAreReported, BlocksMatch, ReadsWhole, Accepted

LEMMA ReadInvParse ==
  ASSUME Parse PROVE ReadInv'
  <1> DEFINE p == Fresh(parser, <<Concat>>, "NODE", "NONE", "INITIAL")
  <1>1. parser' = p /\ read' = <<>> /\ outcome' = "reading"
    BY DEF Parse, Begin
  <1>2. IsNode(Concat) /\ Concat.type = "concat"
    BY DEF IsNode, Node, Concat
  <1>3. /\ Standing(p) /\ p.nodes = <<Concat>> /\ p.ok /\ p.state = "NODE" /\ p.blockType = "NONE"
        /\ p.lexing = "INITIAL" /\ p.start = "INITIAL"
    BY <1>2, FreshStands
  <1> HIDE DEF p
  <1>4. Blocks(p.nodes)
    <2>1. IsStack(p.nodes) /\ Len(p.nodes) >= 1
      BY <1>3 DEF Standing
    <2>2. Len(p.nodes) = 1 /\ p.nodes[1].type = "concat"
      BY <1>2, <1>3
    <2> QED BY <2>1, <2>2 DEF Blocks, Outer
  <1>between. Between(p.nodes, Unended(read'))
    <2>1. Unended(read') = <<>>
      BY <1>1, UnendedNothing
    <2>2. Len(p.nodes) = 1 /\ p.nodes[1].type = "concat"
      BY <1>2, <1>3
    <2>3. IsSeq(<<>>) /\ Len(<<>>) = 0
      <3>1. <<>> \in Seq({}) /\ Len(<<>>) = 0
        OBVIOUS
      <3> QED BY <3>1 DEF IsSeq
    <2>4. Lies(p.nodes, <<>>)
      BY <2>3 DEF Lies
    <2> QED BY <2>1, <2>2, <2>3, <2>4 DEF Between
  <1>5. Somewhere(p, read')
    BY <1>3, <1>4, <1>between DEF Somewhere, AtText, Standing
  <1>6. read' \in Seq({})
    BY <1>1
  <1>7. Standing(parser') /\ Somewhere(parser', read')
    BY <1>1, <1>3, <1>5
  <1>8. StopsAreReported' /\ BlocksMatch'
    BY <1>1 DEF StopsAreReported, BlocksMatch, ReadsWhole, Accepted
  <1> QED BY <1>6, <1>7, <1>8 DEF ReadInv

LEMMA ReadInvParseArgument ==
  ASSUME ParseArgument PROVE ReadInv'
  <1> DEFINE n == Awaiting("output", "echo")
             p == Fresh(parser, <<n>>, "ARGUMENT", "INTERMEDIATE", "OUTPUT")
  <1>1. parser' = p /\ read' = <<>> /\ outcome' = "reading"
    BY DEF ParseArgument, Begin
  <1>2. IsNode(n)
    BY MadeAwaiting
  <1> HIDE DEF n
  <1>3. Standing(p) /\ p.start = "OUTPUT"
    BY <1>2, FreshStands
  <1> HIDE DEF p
  <1>4. read' \in Seq({})
    BY <1>1
  <1>5. Standing(parser') /\ parser'.start = "OUTPUT"
    BY <1>1, <1>3
  <1>6. StopsAreReported' /\ BlocksMatch'
    BY <1>1 DEF StopsAreReported, BlocksMatch, ReadsWhole, Accepted
  <1> QED BY <1>4, <1>5, <1>6 DEF ReadInv

LEMMA ReadInvLex ==
  ASSUME ContextAssumption, NamesAssumption, ReadInv, Lex PROVE ReadInv'
  <1>1. outcome = "reading" /\ outcome' = "reading" /\ \E w : read' = Append(read, w)
    BY DEF Lex, ReadText, ReadHaltText, ReadStartOutput, ReadEndOutput, ReadStartControl, ReadEndControl,
           ReadEndHalt, ReadWord, ReadOperand, ReadColon, ReadComma, ReadDot, ReadOpenBracket,
           ReadCloseBracket, ReadOpenParenthesis, ReadCloseParenthesis, ReadNewline, Token, InBlock, Reading
  <1>2. PICK S : read \in Seq(S)
    BY DEF ReadInv
  <1>3. PICK w : read' = Append(read, w)
    BY <1>1
  <1>4. read' \in Seq(S \cup {w})
    BY <1>2, <1>3, Appended
  <1>5. Standing(parser) /\ Goes(parser, parser')
    BY <1>1, LexGoes DEF ReadInv
  <1>6. Standing(parser') /\ parser'.start = parser.start
    BY <1>5 DEF Goes
  <1>7. ASSUME parser'.start = "INITIAL", TagsAreNamed(read')
        PROVE  Somewhere(parser', read')
    <2>1. TagsAreNamed(Append(read, w))
      BY <1>3, <1>7
    <2>2. TagsAreNamed(read)
      BY <1>2, <2>1, NamedSoFar
    <2>3. Somewhere(parser, read)
      BY <1>1, <1>6, <1>7, <2>2 DEF ReadInv
    <2> QED BY <1>2, <1>7, <2>3, LexSomewhere
  <1>8. StopsAreReported' /\ BlocksMatch'
    BY <1>1 DEF StopsAreReported, BlocksMatch, ReadsWhole, Accepted
  <1> QED BY <1>4, <1>6, <1>7, <1>8 DEF ReadInv

LEMMA ReadInvFinishParse ==
  ASSUME ReadInv, FinishParse PROVE ReadInv'
  <1>1. /\ outcome = "reading" /\ parser.start = "INITIAL" /\ outcome' = ParseOutcome(parser)
        /\ parser' = parser /\ read' = read
    BY DEF FinishParse
  <1>2. outcome' # "reading"
    BY <1>1 DEF ParseOutcome
  <1>3. outcome' = "tree" => ~(Len(parser.nodes) > 1)
    BY <1>1 DEF ParseOutcome
  <1>4. ASSUME TagsAreNamed(read), outcome' = "tree", parser.errors = {}
        PROVE  parser.ok
    <2>1. Somewhere(parser, read)
      BY <1>1, <1>4 DEF ReadInv
    <2> QED BY <1>3, <1>4, <2>1 DEF Somewhere, Reports
  <1>5. StopsAreReported'
    BY <1>1, <1>4 DEF StopsAreReported, ReadsWhole, Accepted
  <1>6. ASSUME TagsAreNamed(read), outcome' = "tree", parser.errors = {}
        PROVE  Unended(read) = <<>>
    <2>1. Somewhere(parser, read) /\ parser.ok /\ ~(Len(parser.nodes) > 1)
      BY <1>1, <1>3, <1>4, <1>6 DEF ReadInv
    <2>2. parser.lexing = "INITIAL"
      BY <1>1, <1>6, <2>1 DEF ParseOutcome
    <2>3. AtText(parser, read)
      BY <2>1, <2>2 DEF Somewhere, AtName, AtEnd, InOutput, InTag
    <2> DEFINE open == Unended(read)
    <2>4. IsSeq(open) /\ Len(open) \in Nat /\ Len(parser.nodes) = 2 * Len(open) + 1
      BY <2>3, SeqEnds DEF AtText, Between, Lies
    <2>5. Len(open) = 0
      BY <2>1, <2>4
    <2> HIDE DEF open
    <2>6. open = <<>>
      BY <2>4, <2>5 DEF IsSeq
    <2> QED BY <2>6 DEF open
  <1>7. BlocksMatch'
    BY <1>1, <1>6 DEF BlocksMatch, Accepted
  <1> QED BY <1>1, <1>2, <1>5, <1>7 DEF ReadInv

LEMMA ReadInvFinishArgument ==
  ASSUME ReadInv, FinishArgument PROVE ReadInv'
  <1> DEFINE closed == PopNodeUntil(parser, "output")
             failed == \/ parser.ok /\ parser.lexing # parser.start
                       \/ parser.errors # {}
  <1>1. outcome' # "reading" /\ read' = read
    BY DEF FinishArgument
  <1>2. outcome' = "tree" => ~failed /\ closed.ok
    BY DEF FinishArgument
  <1>3. ~failed => parser' = closed
    BY DEF FinishArgument
  <1> HIDE DEF closed, failed
  <1>4. StopsAreReported'
    BY <1>2, <1>3 DEF StopsAreReported, ReadsWhole, Accepted
  <1>5. Standing(parser')
    <2>1. Standing(parser)
      BY DEF FinishArgument, ReadInv
    <2>2. Standing(closed)
      BY <2>1, GoesPop DEF closed, Goes
    <2>3. parser' = parser \/ parser' = closed
      BY DEF FinishArgument, closed
    <2> QED BY <2>1, <2>2, <2>3
  <1>6. BlocksMatch'
    <2>1. parser.start = "OUTPUT" /\ Standing(parser)
      BY DEF FinishArgument, ReadInv
    <2>2. closed.start = parser.start
      BY <2>1, GoesPop DEF closed, Goes
    <2>3. parser' = parser \/ parser' = closed
      BY DEF FinishArgument, closed
    <2>4. parser'.start = "OUTPUT"
      BY <2>1, <2>2, <2>3
    <2> QED BY <2>4 DEF BlocksMatch
  <1> QED BY <1>1, <1>4, <1>5, <1>6 DEF ReadInv

LEMMA ReadInvStutter ==
  ASSUME ReadInv, UNCHANGED vars PROVE ReadInv'
  BY DEF ReadInv, vars, StopsAreReported, BlocksMatch, ReadsWhole, Accepted, Somewhere, AtText, AtName, AtEnd,
         InOutput, InTag, TagsAreNamed

LEMMA ReadInvHolds == Spec => []ReadInv
  <1>1. Init => ReadInv
    BY ReadInvInit
  <1>2. ReadInv /\ [Next]_vars => ReadInv'
    <2> SUFFICES ASSUME ReadInv, [Next]_vars PROVE ReadInv'
      OBVIOUS
    <2>1. CASE Parse
      BY <2>1, ReadInvParse
    <2>2. CASE ParseArgument
      BY <2>2, ReadInvParseArgument
    <2>3. CASE Lex
      BY <2>3, ReadInvLex, ContextAssumption, NamesAssumption
    <2>4. CASE FinishParse
      BY <2>4, ReadInvFinishParse
    <2>5. CASE FinishArgument
      BY <2>5, ReadInvFinishArgument
    <2>6. CASE UNCHANGED vars
      BY <2>6, ReadInvStutter
    <2> QED BY <2>1, <2>2, <2>3, <2>4, <2>5, <2>6 DEF Next
  <1> QED BY <1>1, <1>2, PTL DEF Spec

\* Whatever a text of named tags holds, and whatever tags, operators, filters
\* and settings the context has: when a handler stops the lexer before the end
\* of the text, parse throws or reports an error, and no tree of half a text
\* passes for the tree of the text (parser.cpp:504-623, 659-690).
THEOREM StopsReported == Spec => []StopsAreReported
  <1>1. ReadInv => StopsAreReported
    BY DEF ReadInv
  <1> QED BY <1>1, ReadInvHolds, PTL

\* Whatever the text, the stack holds a node after every token and at the end:
\* nodes.back(), which every handler reads first, is always there, and so is
\* the node that parse returns (parser.cpp:8-343, 659-690).
THEOREM StackStands == Spec => [](outcome # "none" => Standing(parser))
  <1>1. ReadInv => (outcome # "none" => Standing(parser))
    BY DEF ReadInv
  <1> QED BY <1>1, ReadInvHolds, PTL

\* Whatever a text of named tags holds, and whatever tags, composed in whatever
\* way, the context has: a text is accepted only if each tag that encloses others
\* was ended by its own end word, the innermost first, whatever is between and
\* within them (parser.cpp:258-275, 576-614).
THEOREM BlocksMatched == Spec => []BlocksMatch
  <1>1. ReadInv => BlocksMatch
    BY DEF ReadInv
  <1> QED BY <1>1, ReadInvHolds, PTL
=============================================================================

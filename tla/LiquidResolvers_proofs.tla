----------------------- MODULE LiquidResolvers_proofs -----------------------
(***************************************************************************)
(* For every list, offset and limit, in all four resolvers: the variables  *)
(* of a loop keep their types, the else of a for tag is never rendered     *)
(* after its body was, and the loops that do not part ways show the body   *)
(* the window as it is written.                                            *)
(***************************************************************************)
EXTENDS LiquidResolvers, TLAPS, SequenceTheorems

(* While a loop runs, the body has seen nothing as long as idx is zero; and the *)
(* else is entered with that.                                                   *)
ZeroMeansUnseen ==
    /\ pc = "for" => visited = <<>>
    /\ pc \in {"loop", "after", "else"} /\ idx = 0 => visited = <<>>
    /\ pc = "else" => idx = 0

IInv == TypeOK /\ ZeroMeansUnseen

(* What a resolver makes of a scalar is a scalar. *)
LEMMA ReadBackIsScalar ==
    ASSUME NEW v \in Scalar PROVE ReadBack(v) \in Scalar
  BY DEF ReadBack, JsonRead, RubyRead, PerlRead, Nil, Scalar

(* The numbers of the window are integers. *)
LEMMA WindowIsInt ==
    ASSUME TypeOK
    PROVE  Size \in Nat /\ Start \in Nat /\ Window \in Int
  <1>1. list \in Seq(Scalar) /\ Size \in Nat  BY ResolversAssumption DEF TypeOK, Size
  <1>2. tag.offset \in Int  BY ResolversAssumption DEF TypeOK, Tags
  <1>3. tag.limit.n \in Int  BY ResolversAssumption DEF TypeOK, Tags, Limit, Unlimited
  <1> QED  BY <1>1, <1>2, <1>3 DEF Start, Window, Larger

(* A remainder by Word is an integer. *)
LEMMA UnsignedIsInt ==
    ASSUME NEW n \in Int PROVE Unsigned(n) \in Int
  BY ResolversAssumption DEF Unsigned

(* iterate starts with two integers. *)
LEMMA BoundsAreInts ==
    ASSUME TypeOK
    PROVE  FirstAndLast[1] \in Int /\ FirstAndLast[2] \in Int
  <1>1. Size \in Nat /\ Start \in Nat /\ Window \in Int  BY WindowIsInt
  <1>2. NativeLast \in Int  BY <1>1 DEF NativeLast, Smaller
  <1>3. BindingLast \in Int  BY <1>1 DEF BindingLast, Smaller
  <1>4. RubyLast \in Int /\ PerlLast \in Int  BY <1>1, <1>3 DEF RubyLast, PerlLast
  <1>5. Unsigned(PerlLast) \in Int /\ Unsigned(Size - 1 - Start) \in Int
    <2>1. Size - 1 - Start \in Int  BY <1>1
    <2> QED  BY <2>1, <1>4, UnsignedIsInt
  <1>6. \A a, b \in Int : Bounds(a, b)[1] \in Int /\ Bounds(a, b)[2] \in Int
    BY <1>1 DEF Bounds
  <1>7. Size - Start \in Int  BY <1>1
  <1>8. resolver \in {"cpp", "json", "ruby", "perl"}  BY DEF TypeOK, Resolvers
  <1>9. CASE resolver \in Native
    <2>1. FirstAndLast = Bounds(NativeLast, Start)  BY <1>9 DEF FirstAndLast, Native
    <2> QED  BY <2>1, <1>1, <1>2, <1>6
  <1>10. CASE resolver = "ruby"
    <2>1. FirstAndLast = Bounds(RubyLast, Size - Start)  BY <1>10 DEF FirstAndLast, Native
    <2> QED  BY <2>1, <1>4, <1>6, <1>7
  <1>11. CASE resolver = "perl"
    <2>1. FirstAndLast = Bounds(Unsigned(PerlLast), Unsigned(Size - 1 - Start))
      BY <1>11 DEF FirstAndLast, Native
    <2> QED  BY <2>1, <1>5, <1>6
  <1> QED  BY <1>8, <1>9, <1>10, <1>11 DEF Native

(* Where an entry is looked for in the list, there is one. *)
LEMMA ElementIsScalar ==
    ASSUME TypeOK, NEW n \in Int, Inside(n)
    PROVE  ElementAt(n) \in Scalar
  <1>1. list \in Seq(Scalar)  BY ResolversAssumption DEF TypeOK
  <1>2. n + 1 \in 1..Len(list)  BY <1>1 DEF Inside, Size
  <1>3. list[n + 1] \in Scalar  BY <1>1, <1>2
  <1> QED  BY <1>3, ReadBackIsScalar DEF ElementAt

(* A visit is of one value, or of none. *)
LEMMA EntryIsSeq ==
    ASSUME TypeOK
    PROVE  Entry \in Seq(Scalar)
  <1>1. Size \in Nat /\ i \in Int  BY WindowIsInt DEF TypeOK
  <1>2. Nil \in Scalar  BY DEF Nil, Scalar
  <1>3. \A n \in Int : FromEnd(n) \in Int  BY <1>1 DEF FromEnd
  <1>4. Signed(i) \in Int  BY <1>1, ResolversAssumption DEF Signed
  <1>5. \A n \in Int : Inside(n) => <<ElementAt(n)>> \in Seq(Scalar)
    BY ElementIsScalar
  <1>6. RubyEntry(i) \in Seq(Scalar)  BY <1>1, <1>2, <1>3, <1>5 DEF RubyEntry
  <1>7. PerlFetch(i) \in Seq(Scalar)  BY <1>3, <1>4, <1>5 DEF PerlFetch
  <1> QED  BY <1>1, <1>5, <1>6, <1>7 DEF Entry

-----------------------------------------------------------------------------
LEMMA InitHolds == Init => IInv
  BY ResolversAssumption DEF Init, IInv, TypeOK, ZeroMeansUnseen

(* iterate is entered with nothing seen. *)
LEMMA IterateKeeps == ASSUME IInv, Iterate PROVE IInv'
  <1>1. Start \in Nat  BY WindowIsInt DEF IInv
  <1>2. i' \in Int /\ last' \in Int  BY BoundsAreInts DEF IInv, Iterate
  <1>3. visited' = <<>>  BY DEF IInv, ZeroMeansUnseen, Iterate
  <1>4. TypeOK'  BY <1>1, <1>2 DEF IInv, TypeOK, Iterate
  <1> QED  BY <1>3, <1>4 DEF IInv, ZeroMeansUnseen, Iterate

(* A visit that shows the body something counts it in idx. *)
LEMMA VisitKeeps == ASSUME IInv, Visit PROVE IInv'
  <1> USE DEF IInv
  <1>1. Entry \in Seq(Scalar)  BY EntryIsSeq
  <1>2. Size \in Nat /\ i \in Int /\ idx \in Nat  BY WindowIsInt DEF TypeOK
  <1>3. visited' \in Seq(Scalar)  BY <1>1 DEF Visit, Recorded, TypeOK
  <1>4. NextIndex \in Int
    <2>1. i - 1 \in Int /\ i + 1 \in Int  BY <1>2
    <2> QED  BY <2>1, UnsignedIsInt DEF NextIndex
  <1>5. i' \in Int  BY <1>2, <1>4 DEF Visit
  <1>6. CASE Entry = <<>>
    <2>1. idx' = idx /\ visited' = visited  BY <1>6 DEF Visit, NextIdx, Recorded, TypeOK
    <2>2. TypeOK'  BY <2>1, <1>5 DEF Visit, TypeOK
    <2> QED  BY <2>1, <2>2 DEF Visit, ZeroMeansUnseen
  <1>7. CASE Entry # <<>>
    <2>1. idx' \in Nat \ {0}  BY <1>2, <1>7, ResolversAssumption DEF Visit, NextIdx, Smaller
    <2>2. TypeOK'  BY <2>1, <1>3, <1>5 DEF Visit, TypeOK
    <2>3. pc' \notin {"for", "else"}  BY DEF Visit
    <2> QED  BY <2>1, <2>2, <2>3 DEF ZeroMeansUnseen
  <1> QED  BY <1>6, <1>7

LEMMA NextKeeps == IInv /\ [Next]_vars => IInv'
  <1> SUFFICES ASSUME IInv, [Next]_vars PROVE IInv'  OBVIOUS
  <1>1. CASE Iterate  BY <1>1, IterateKeeps
  <1>2. CASE Visit  BY <1>2, VisitKeeps
  <1>3. CASE ReadOutside  BY <1>3 DEF IInv, TypeOK, ZeroMeansUnseen, ReadOutside
  <1>4. CASE EndLoop  BY <1>4 DEF IInv, TypeOK, ZeroMeansUnseen, EndLoop
  <1>5. CASE Else  BY <1>5 DEF IInv, TypeOK, ZeroMeansUnseen, Else
  <1>6. CASE UNCHANGED vars  BY <1>6 DEF IInv, TypeOK, ZeroMeansUnseen, vars
  <1> QED  BY <1>1, <1>2, <1>3, <1>4, <1>5, <1>6 DEF Next

(***************************************************************************)
(* In all four resolvers, whatever the list and the qualifiers: every      *)
(* value that a body sees is a scalar, never a list's hole, and iterate's  *)
(* counters stay numbers (dialect.cpp:475, cppvariable.h:310,              *)
(* rapidjsonvariable.h:115, liquid.c:126, XS.xs:179).                      *)
(***************************************************************************)
THEOREM LoopsAreTyped == Spec => []TypeOK
  <1>1. IInv => TypeOK  BY DEF IInv
  <1> QED  BY <1>1, InitHolds, NextKeeps, PTL DEF Spec

(***************************************************************************)
(* The else of a for tag is rendered only when the body was not            *)
(* (dialect.cpp:597), however a resolver counts the window.                *)
(***************************************************************************)
THEOREM ElseOnlyIfUnseen == Spec => []ElseMeansNothingSeen
  <1>1. IInv => ElseMeansNothingSeen
    BY DEF IInv, ZeroMeansUnseen, ElseMeansNothingSeen
  <1> QED  BY <1>1, InitHolds, NextKeeps, PTL DEF Spec

-----------------------------------------------------------------------------
(* What a body has seen, against the window as it is written. *)

(* The loops that visit the window as it is written: all of C++'s and JSON's, *)
(* and the bindings' that the four agree on.                                  *)
Straight == resolver \in Native \/ CommonLoop

(* How many elements the window has, which of the list's is the k-th of them, *)
(* and the index the loop's bound was computed from.                          *)
Width     == Larger(0, Smaller(Start + Window, Size) - Start)
Place(k)  == IF tag.reversed THEN Start + Width + 1 - k ELSE Start + k
LastIndex == IF resolver \in Native THEN NativeLast ELSE BindingLast

Shown == /\ Len(visited) <= Width
         /\ \A k \in 1..Len(visited) : visited[k] = ReadBack(list[Place(k)])
         /\ tag.breakAt = 0 \/ Len(visited) <= tag.breakAt

(* The index the loop is at. *)
AtIndex == /\ i = IF tag.reversed THEN LastIndex - Len(visited) ELSE Start + Len(visited)
           /\ last = IF tag.reversed THEN Start ELSE LastIndex
           /\ tag.reversed /\ visited # <<>> => LastIndex = Start + Width - 1
           /\ tag.breakAt = 0 \/ Len(visited) < tag.breakAt

(* The loop is one past the list, in the step that is undefined. *)
OnePast == /\ resolver \in Native /\ ReadsPast /\ i = Size
           /\ IF tag.reversed THEN visited = <<>> ELSE Len(visited) = Width

Complete == Len(visited) = Width \/ (tag.breakAt # 0 /\ Len(visited) = tag.breakAt)

VisitsInv == Straight =>
    /\ pc = "for" => visited = <<>>
    /\ pc = "loop" => Shown /\ AtIndex
    /\ Ended => Shown /\ Complete /\ ~(resolver \in Native /\ ReadsPast)
    /\ pc = "undefined" => Shown /\ OnePast

(* The lists' indices fit a signed size, and every visit is recorded. *)
ListsFit == \A l \in Lists : Len(l) <= MaxVisits /\ 2 * Len(l) < Word

LEMMA WidthIsNat ==
    ASSUME TypeOK
    PROVE  /\ Width \in Nat /\ Window \in Nat /\ Start \in Nat /\ Size \in Nat
           /\ Width > 0 => Start + Width <= Size /\ Width <= Window
           /\ Width = 0 => Window = 0 \/ Size <= Start
           /\ Width < Window => Start + Width = Size \/ Width = 0
           /\ tag.breakAt \in Nat
  <1>1. Size \in Nat /\ Start \in Nat /\ Window \in Int  BY WindowIsInt
  <1>2. tag.breakAt \in Nat /\ tag.limit.n \in Int
    BY ResolversAssumption DEF TypeOK, Tags, Limit, Unlimited
  <1>3. Window \in Nat  BY <1>1, <1>2 DEF Window, Larger
  <1> QED  BY <1>1, <1>2, <1>3 DEF Width, Smaller, Larger

LEMMA BoundIsInt ==
    ASSUME TypeOK PROVE LastIndex \in Int
  BY WindowIsInt DEF LastIndex, NativeLast, BindingLast, Smaller

(* The window does not change while the loop runs. *)
LEMMA SameWindow ==
    ASSUME UNCHANGED <<resolver, list, tag>>
    PROVE  /\ Width' = Width /\ Start' = Start /\ LastIndex' = LastIndex /\ Window' = Window
           /\ Straight' = Straight /\ ReadsPast' = ReadsPast /\ Size' = Size
           /\ \A k : Place(k)' = Place(k)
           /\ \A v : ReadBack(v)' = ReadBack(v)
  BY DEF Width, Start, LastIndex, Window, Straight, CommonLoop, ReadsPast, Place, ReadBack, Size,
         NativeLast, BindingLast

(* The elements of the window, in the order of the loop. *)
LEMMA ExpectedValues ==
    ASSUME TypeOK
    PROVE  /\ Expected \in Seq(Scalar)
           /\ Len(Expected) = IF tag.breakAt = 0 THEN Width ELSE Smaller(tag.breakAt, Width)
           /\ \A k \in 1..Len(Expected) : Expected[k] = ReadBack(list[Place(k)])
  <1> DEFINE w == SubSeq(list, Start + 1, Smaller(Start + Window, Size))
             o == IF tag.reversed THEN Reversed(w) ELSE w
             f == IF tag.breakAt = 0 THEN o ELSE Front(o, tag.breakAt)
             m == IF tag.breakAt = 0 THEN Width ELSE Smaller(tag.breakAt, Width)
  <1>1. /\ Size \in Nat /\ Start \in Nat /\ Window \in Nat /\ Width \in Nat /\ tag.breakAt \in Nat
        /\ Width > 0 => Start + Width <= Size
    BY WidthIsNat
  <1>2. list \in Seq(Scalar) /\ Size = Len(list) /\ \A k \in 1..Size : list[k] \in Scalar
    BY ResolversAssumption, LenProperties, ElementOfSeq DEF TypeOK, Size
  <1>3. /\ w \in Seq(Scalar) /\ Len(w) = Width
        /\ \A k \in 1..Width : w[k] = list[Start + k]
    <2> DEFINE e == Smaller(Start + Window, Size)
               v == SubSeq(list, Start + 1, e)
    <2>1. e \in Int /\ e <= Size /\ Start + 1 \in Int /\ Width = Larger(0, e - Start)
      BY <1>1 DEF Smaller, Width
    <2>2. v = w  OBVIOUS
    <2> HIDE DEF e
    <2>3. \A k \in (Start + 1)..e : list[k] \in Scalar  BY <1>1, <1>2, <2>1
    <2>4. /\ v \in Seq(Scalar)
          /\ Len(v) = IF Start + 1 <= e THEN e - (Start + 1) + 1 ELSE 0
          /\ \A k \in 1..(e - (Start + 1) + 1) : v[k] = list[Start + 1 + k - 1]
      BY <2>1, <2>3, SubSeqProperties
    <2> HIDE DEF v
    <2>5. Len(v) = Width  BY <1>1, <2>1, <2>4 DEF Larger
    <2>6. \A k \in 1..Width : v[k] = list[Start + k]
      <3> TAKE k \in 1..Width
      <3>1. k \in 1..(e - (Start + 1) + 1) /\ Start + 1 + k - 1 = Start + k
        BY <1>1, <2>1 DEF Larger
      <3> QED  BY <2>4, <3>1
    <2> QED  BY <2>2, <2>4, <2>5, <2>6
  <1> HIDE DEF w
  <1>4. /\ o \in Seq(Scalar) /\ Len(o) = Width
        /\ \A k \in 1..Width : o[k] = list[Place(k)]
    <2>1. CASE tag.reversed
      <3>1. o = [k \in 1..Width |-> w[Width + 1 - k]]  BY <1>3, <2>1 DEF Reversed
      <3>2. \A k \in 1..Width : /\ Width + 1 - k \in 1..Width
                                /\ Start + (Width + 1 - k) = Start + Width + 1 - k
        BY <1>1
      <3>3. \A k \in 1..Width : w[Width + 1 - k] \in Scalar  BY <1>3, <3>2
      <3>4. \A k \in 1..Width : w[Width + 1 - k] = list[Start + Width + 1 - k]
        BY <1>3, <3>2
      <3> HIDE DEF o
      <3>5. o \in [1..Width -> Scalar]  BY <3>1, <3>3
      <3>6. o \in Seq(Scalar) /\ Len(o) = Width  BY <1>1, <3>5, IsASeq, LenProperties
      <3> QED  BY <2>1, <3>1, <3>4, <3>6 DEF Place
    <2>2. CASE ~tag.reversed  BY <1>3, <2>2 DEF Place
    <2> QED  BY <2>1, <2>2
  <1> HIDE DEF o
  <1>5. m \in 0..Width  BY <1>1 DEF Smaller
  <1>6. /\ f \in Seq(Scalar) /\ Len(f) = m
        /\ \A k \in 1..m : f[k] = list[Place(k)]
    <2>1. CASE tag.breakAt = 0  BY <1>4, <2>1
    <2>2. CASE tag.breakAt # 0
      <3>1. f = SubSeq(o, 1, m) /\ m \in Int  BY <1>4, <1>5, <2>2 DEF Front
      <3> HIDE DEF f, m
      <3>2. \A k \in 1..m : k \in 1..Width /\ o[k] \in Scalar  BY <1>4, <1>5
      <3>3. /\ SubSeq(o, 1, m) \in Seq(Scalar)
            /\ Len(SubSeq(o, 1, m)) = IF 1 <= m THEN m - 1 + 1 ELSE 0
            /\ \A k \in 1..(m - 1 + 1) : SubSeq(o, 1, m)[k] = o[1 + k - 1]
        BY <3>1, <3>2, SubSeqProperties
      <3>4. m - 1 + 1 = m /\ \A k \in 1..m : 1 + k - 1 = k  BY <3>1
      <3>5. Len(f) = m  BY <1>5, <3>1, <3>3
      <3> QED  BY <1>4, <3>1, <3>2, <3>3, <3>4, <3>5
    <2> QED  BY <2>1, <2>2
  <1> HIDE DEF f, m
  <1>7. Expected = Values(f)  BY DEF Expected, f, o, w
  <1>8. Values(f) = [k \in 1..m |-> ReadBack(f[k])]  BY <1>6 DEF Values
  <1>9. \A k \in 1..m : f[k] \in Scalar /\ ReadBack(f[k]) \in Scalar
    BY <1>6, ReadBackIsScalar
  <1>10. Values(f) \in [1..m -> Scalar] /\ m \in Nat  BY <1>1, <1>5, <1>8, <1>9
  <1>11. Values(f) \in Seq(Scalar) /\ Len(Values(f)) = m  BY <1>10, IsASeq, LenProperties
  <1> QED  BY <1>6, <1>7, <1>8, <1>11 DEF m

(* A body that has seen the whole window, or all of it up to the break, has *)
(* seen what is expected.                                                   *)
LEMMA CompleteIsExpected ==
    ASSUME TypeOK, Shown, Complete
    PROVE  visited = Expected
  <1>1. visited \in Seq(Scalar) /\ Len(visited) \in Nat  BY LenProperties DEF TypeOK
  <1>2. Width \in Nat /\ tag.breakAt \in Nat  BY WidthIsNat
  <1>3. Len(visited) = Len(Expected)
    BY <1>1, <1>2, ExpectedValues DEF Shown, Complete, Smaller
  <1>4. \A k \in 1..Len(visited) : visited[k] = Expected[k]
    BY <1>3, ExpectedValues DEF Shown
  <1> QED  BY <1>1, <1>3, <1>4, ExpectedValues, SeqEqual

LEMMA VisitsInit == Init => VisitsInv
  BY DEF Init, VisitsInv, Ended

(* iterate starts at the first element of the window. *)
LEMMA VisitsIterate ==
    ASSUME ListsFit, TypeOK, VisitsInv, Iterate
    PROVE  VisitsInv'
  <1> SUFFICES ASSUME Straight PROVE pc' = "loop" /\ Shown' /\ AtIndex'
    BY SameWindow DEF Iterate, VisitsInv, Ended
  <1>1. visited = <<>> /\ visited' = <<>> /\ Len(visited') = 0
    BY EmptySeq DEF Iterate, VisitsInv
  <1>2. /\ Size \in Nat /\ Start \in Nat /\ Window \in Nat /\ Width \in Nat
        /\ tag.breakAt \in Nat /\ LastIndex \in Int
    BY WidthIsNat, BoundIsInt
  <1>3. Width' = Width /\ Start' = Start /\ LastIndex' = LastIndex /\ tag' = tag
    BY SameWindow DEF Iterate
  <1>4. resolver \in Native => ~NothingToVisit /\ FirstAndLast = Bounds(LastIndex, Start)
    BY DEF NothingToVisit, FirstAndLast, LastIndex, Native
  <1>5. resolver \notin Native => ~NothingToVisit /\ ~tag.reversed /\ FirstAndLast = <<Start, LastIndex>>
    <2> SUFFICES ASSUME resolver \notin Native
                 PROVE  ~NothingToVisit /\ ~tag.reversed /\ FirstAndLast = <<Start, LastIndex>>
      OBVIOUS
    <2>1. ~tag.reversed /\ Window > 0 /\ Size > 0  BY DEF Straight, CommonLoop
    <2>2. BindingLast \in Nat /\ BindingLast < Size /\ LastIndex = BindingLast
      BY <1>2, <2>1 DEF BindingLast, Smaller, LastIndex
    <2>3. RubyLast = BindingLast /\ PerlLast = BindingLast
      BY <2>2 DEF RubyLast, PerlLast
    <2>4. 2 * Size < Word /\ Word \in Nat
      BY ResolversAssumption DEF ListsFit, TypeOK, Size
    <2>5. Unsigned(PerlLast) = BindingLast
      BY <1>2, <2>2, <2>3, <2>4 DEF Unsigned
    <2>6. resolver = "ruby" \/ resolver = "perl"  BY DEF TypeOK, Resolvers, Native
    <2> QED  BY <2>1, <2>2, <2>3, <2>5, <2>6 DEF FirstAndLast, NothingToVisit, Bounds, Native
  <1>6. pc' = "loop" /\ i' = FirstAndLast[1] /\ last' = FirstAndLast[2]
    BY <1>4, <1>5 DEF Iterate
  <1>7. /\ i' = IF tag.reversed THEN LastIndex ELSE Start
        /\ last' = IF tag.reversed THEN Start ELSE LastIndex
    BY <1>4, <1>5, <1>6 DEF Bounds
  <1>8. Shown'  BY <1>1, <1>2, <1>3 DEF Shown
  <1>9. AtIndex'  BY <1>1, <1>2, <1>3, <1>7 DEF AtIndex
  <1> QED  BY <1>6, <1>8, <1>9

(* A visit shows the body the next element of the window. *)
LEMMA VisitsVisit ==
    ASSUME ListsFit, TypeOK, VisitsInv, Visit
    PROVE  VisitsInv'
  <1> SUFFICES ASSUME Straight
               PROVE  /\ pc' = "loop" => Shown' /\ AtIndex'
                      /\ pc' = "after" => Shown' /\ Complete' /\ ~(resolver \in Native /\ ReadsPast)
    BY SameWindow DEF Visit, VisitsInv, Ended
  <1> DEFINE n == Len(visited)
  <1>1. Shown /\ AtIndex  BY DEF VisitsInv, Visit
  <1>2. /\ Size \in Nat /\ Start \in Nat /\ Window \in Nat /\ Width \in Nat
        /\ tag.breakAt \in Nat /\ LastIndex \in Int /\ i \in Int
        /\ Width > 0 => Start + Width <= Size /\ Width <= Window
        /\ Width = Larger(0, Smaller(Start + Window, Size) - Start)
    BY WidthIsNat, BoundIsInt DEF TypeOK, Width
  <1>3. visited \in Seq(Scalar) /\ n \in Nat /\ (n = 0 <=> visited = <<>>)
    BY LenProperties, EmptySeq DEF TypeOK
  <1>4. Width' = Width /\ Start' = Start /\ LastIndex' = LastIndex /\ tag' = tag
    BY SameWindow DEF Visit
  <1>5. /\ LastIndex = NativeLast \/ (LastIndex = BindingLast /\ ~tag.reversed)
        /\ ~tag.reversed => LastIndex < Start + Window
    BY <1>2 DEF Straight, CommonLoop, LastIndex, NativeLast, BindingLast, Smaller
  <1>6. Inside(i)
    <2>1. CASE resolver \in Native  BY <2>1 DEF Visit
    <2>2. CASE resolver \notin Native
      <3>1. i = Start + n /\ i <= BindingLast /\ BindingLast < Size
        BY <1>1, <1>2, <1>3, <2>2
        DEF Straight, CommonLoop, AtIndex, Visit, InLoop, LastIndex, BindingLast, Smaller
      <3>2. i \in Nat /\ BindingLast \in Int /\ Size \in Nat
        BY <1>2, <1>3, <3>1 DEF BindingLast, Smaller
      <3> QED  BY <3>1, <3>2 DEF Inside
    <2> QED  BY <2>1, <2>2
  <1>7. 0 <= i /\ i < Size  BY <1>2, <1>6 DEF Inside
  <1>8. n + 1 <= Width /\ i + 1 = Place(n + 1) /\ (tag.reversed => LastIndex = Start + Width - 1)
    <2>1. CASE ~tag.reversed
      <3>1. i = Start + n /\ i <= LastIndex  BY <1>1, <2>1 DEF AtIndex, Visit, InLoop
      <3>2. n + 1 <= Width  BY <1>2, <1>3, <1>5, <1>7, <2>1, <3>1 DEF Smaller, Larger
      <3> QED  BY <1>2, <1>3, <2>1, <3>1, <3>2 DEF Place
    <2>2. CASE tag.reversed
      <3>1. i = LastIndex - n /\ i >= Start /\ (n # 0 => LastIndex = Start + Width - 1)
        BY <1>1, <1>3, <2>2 DEF AtIndex, Visit, InLoop
      <3>2. LastIndex = Smaller(Start + Window - 1, Size)
        BY <2>2 DEF Straight, CommonLoop, LastIndex, NativeLast
      <3>3. LastIndex = Start + Width - 1
        BY <1>2, <1>3, <1>7, <3>1, <3>2 DEF Smaller, Larger
      <3> QED  BY <1>2, <1>3, <2>2, <3>1, <3>3 DEF Place
    <2> QED  BY <2>1, <2>2
  <1>9. Entry = <<ReadBack(list[Place(n + 1)])>>
    <2>1. CASE resolver \in Native
      <3>1. Entry = <<ElementAt(i)>>  BY <1>6, <2>1 DEF Entry, Native
      <3> QED  BY <1>8, <3>1 DEF ElementAt
    <2>2. CASE resolver = "ruby"
      <3>1. FromEnd(i) = i  BY <1>2, <1>7 DEF FromEnd
      <3>2. Entry = <<ElementAt(i)>>  BY <1>6, <2>2, <3>1 DEF Entry, RubyEntry
      <3> QED  BY <1>8, <3>2 DEF ElementAt
    <2>3. CASE resolver = "perl"
      <3>1. 2 * Size < Word /\ Word \in Nat
        BY ResolversAssumption DEF ListsFit, TypeOK, Size
      <3>2. Signed(i) = i  BY <1>2, <1>7, <3>1 DEF Signed
      <3>3. FromEnd(i) = i  BY <1>2, <1>7 DEF FromEnd
      <3>4. Entry = <<ElementAt(i)>>  BY <1>6, <2>3, <3>2, <3>3 DEF Entry, PerlFetch
      <3> QED  BY <1>8, <3>4 DEF ElementAt
    <2> QED  BY <2>1, <2>2, <2>3 DEF TypeOK, Resolvers, Native
  <1> DEFINE x == ReadBack(list[Place(n + 1)])
             seen == Append(visited, x)
  <1>10. x \in Scalar
    <2>1. ElementAt(i) \in Scalar  BY <1>2, <1>6, ElementIsScalar
    <2> QED  BY <1>8, <2>1 DEF ElementAt
  <1>11. visited' = seen
    <2>1. n < MaxVisits
      BY <1>2, <1>3, <1>8, ResolversAssumption DEF ListsFit, TypeOK, Size
    <2>2. visited' = visited \o <<x>>  BY <1>9, <2>1 DEF Visit, Recorded
    <2> HIDE DEF x
    <2> QED  BY <1>3, <1>10, <2>2, AppendIsConcat
  <1>12. /\ Len(seen) = n + 1 /\ seen # <<>>
         /\ \A k \in 1..n : seen[k] = visited[k]
         /\ seen[n + 1] = x
    <2> HIDE DEF x
    <2> QED  BY <1>3, <1>10, AppendProperties
  <1> HIDE DEF seen
  <1>13. Shown'
    <2>1. \A k \in 1..(n + 1) : seen[k] = ReadBack(list[Place(k)])
      <3> SUFFICES ASSUME NEW k \in 1..(n + 1) PROVE seen[k] = ReadBack(list[Place(k)])
        OBVIOUS
      <3>1. CASE k = n + 1  BY <1>12, <3>1
      <3>2. CASE k \in 1..n  BY <1>1, <1>12, <3>2 DEF Shown
      <3> QED  BY <1>3, <3>1, <3>2
    <2>2. \A k : (ReadBack(list[Place(k)]))' = ReadBack(list[Place(k)])
      BY DEF Visit, ReadBack, Place, Width, Start, Window, Size
    <2>3. tag.breakAt = 0 \/ n + 1 <= tag.breakAt  BY <1>1, <1>2, <1>3 DEF AtIndex
    <2> QED  BY <1>3, <1>4, <1>8, <1>11, <1>12, <2>1, <2>2, <2>3 DEF Shown
  <1>14. Breaks(visited') <=> tag.breakAt # 0 /\ n + 1 = tag.breakAt
    <2>1. visited' # visited /\ Len(visited') = n + 1  BY <1>3, <1>11, <1>12
    <2> QED  BY <2>1 DEF Breaks
  <1>15. CASE Leaves(visited')
    <2>1. pc' = "after"  BY <1>15 DEF Visit
    <2>2. Complete'  BY <1>4, <1>11, <1>12, <1>14, <1>15 DEF Complete, Leaves
    <2>3. ~ReadsPast
      <3>1. SUFFICES ASSUME Start <= Size, Start + Window > Size
                     PROVE  ~tag.reversed /\ tag.breakAt \in 1..(Size - Start)
        BY DEF ReadsPast
      <3>2. resolver \in Native  BY <1>15 DEF Leaves
      <3>3. LastIndex = Size /\ Width = Size - Start
        BY <1>2, <3>1, <3>2 DEF LastIndex, NativeLast, Smaller, Larger
      <3>4. ~tag.reversed  BY <1>2, <1>3, <1>8, <3>3
      <3>5. tag.breakAt = n + 1  BY <1>14, <1>15 DEF Leaves
      <3> QED  BY <1>2, <1>3, <1>8, <3>3, <3>4, <3>5
    <2> QED  BY <1>13, <2>1, <2>2, <2>3
  <1>16. CASE ~Leaves(visited')
    <2>1. pc' = "loop" /\ i' = NextIndex /\ last' = last  BY <1>16 DEF Visit
    <2>2. NextIndex = IF tag.reversed THEN i - 1 ELSE i + 1
      <3>1. CASE resolver # "perl"  BY <3>1 DEF NextIndex
      <3>2. CASE resolver = "perl"
        <4>1. 2 * Size < Word /\ Word \in Nat /\ ~tag.reversed
          BY <3>2, ResolversAssumption DEF ListsFit, TypeOK, Size, Straight, CommonLoop, Native
        <4>2. Unsigned(i + 1) = i + 1  BY <1>2, <1>7, <4>1 DEF Unsigned
        <4> QED  BY <3>2, <4>1, <4>2 DEF NextIndex
      <3> QED  BY <3>1, <3>2
    <2>3. tag.breakAt = 0 \/ n + 1 < tag.breakAt
      BY <1>1, <1>2, <1>3, <1>14, <1>16 DEF AtIndex, Leaves, Straight, CommonLoop
    <2>4. AtIndex'
      BY <1>1, <1>2, <1>3, <1>4, <1>8, <1>11, <1>12, <2>1, <2>2, <2>3 DEF AtIndex
    <2> QED  BY <1>13, <2>1, <2>4
  <1> QED  BY <1>15, <1>16

(* The loop ends at the end of the window. *)
LEMMA VisitsEnd ==
    ASSUME TypeOK, VisitsInv, EndLoop
    PROVE  VisitsInv'
  <1> SUFFICES ASSUME Straight PROVE Complete /\ ~(resolver \in Native /\ ReadsPast)
    BY SameWindow DEF EndLoop, VisitsInv, Ended, Shown, Complete
  <1> DEFINE n == Len(visited)
  <1>1. Shown /\ AtIndex /\ ~InLoop  BY DEF VisitsInv, EndLoop
  <1>2. /\ Size \in Nat /\ Start \in Nat /\ Window \in Nat /\ Width \in Nat /\ LastIndex \in Int
        /\ Width = Larger(0, Smaller(Start + Window, Size) - Start)
    BY WidthIsNat, BoundIsInt DEF Width
  <1>3. n \in Nat /\ (n = 0 <=> visited = <<>>) /\ n <= Width
    BY <1>1, LenProperties, EmptySeq DEF TypeOK, Shown
  <1>4. CASE ~tag.reversed
    <2>1. Start + n > LastIndex  BY <1>1, <1>2, <1>3, <1>4 DEF AtIndex, InLoop
    <2>2. LastIndex >= Smaller(Start + Window, Size) - 1
      BY <1>2 DEF Straight, CommonLoop, LastIndex, NativeLast, BindingLast, Smaller
    <2>3. Complete  BY <1>2, <1>3, <2>1, <2>2 DEF Complete, Smaller, Larger
    <2>4. ~(resolver \in Native /\ ReadsPast)
      BY <1>2, <1>3, <2>1 DEF ReadsPast, LastIndex, NativeLast, Smaller, Larger
    <2> QED  BY <2>3, <2>4
  <1>5. CASE tag.reversed
    <2>1. LastIndex - n < Start /\ (n # 0 => LastIndex = Start + Width - 1)
      BY <1>1, <1>2, <1>3, <1>5 DEF AtIndex, InLoop
    <2>2. LastIndex = Smaller(Start + Window - 1, Size)
      BY <1>5 DEF Straight, CommonLoop, LastIndex, NativeLast
    <2>3. Complete  BY <1>2, <1>3, <2>1, <2>2 DEF Complete, Smaller, Larger
    <2>4. ~(resolver \in Native /\ ReadsPast)
      BY <1>2, <1>3, <2>1, <2>2 DEF ReadsPast, Smaller, Larger
    <2> QED  BY <2>3, <2>4
  <1> QED  BY <1>4, <1>5

(* What lies outside the list and inside the bound is the index one past it. *)
LEMMA VisitsReadOutside ==
    ASSUME TypeOK, VisitsInv, ReadOutside
    PROVE  VisitsInv'
  <1> SUFFICES ASSUME Straight PROVE Shown /\ OnePast
    BY SameWindow DEF ReadOutside, VisitsInv, Ended, Shown, OnePast
  <1> DEFINE n == Len(visited)
  <1>1. Shown /\ AtIndex /\ InLoop /\ resolver \in Native /\ ~Inside(i)
    BY DEF VisitsInv, ReadOutside
  <1>2. /\ Size \in Nat /\ Start \in Nat /\ Window \in Nat /\ Width \in Nat /\ tag.breakAt \in Nat
        /\ Width = Larger(0, Smaller(Start + Window, Size) - Start)
        /\ i \in Int
    BY WidthIsNat DEF Width, TypeOK
  <1>3. n \in Nat /\ (n = 0 <=> visited = <<>>) /\ n <= Width
    BY <1>1, LenProperties, EmptySeq DEF TypeOK, Shown
  <1>4. LastIndex = Smaller(Start + Window - 1, Size)  BY <1>1 DEF LastIndex, NativeLast
  <1>5. i < 0 \/ i >= Size  BY <1>1, <1>2 DEF Inside
  <1>6. CASE ~tag.reversed
    <2>1. i = Start + n /\ i <= LastIndex  BY <1>1, <1>6 DEF AtIndex, InLoop
    <2>2. i = Size /\ Start <= Size /\ Start + Window > Size
      BY <1>2, <1>3, <1>4, <1>5, <2>1 DEF Smaller
    <2>3. n = Width /\ n = Size - Start  BY <1>2, <1>3, <2>1, <2>2 DEF Smaller, Larger
    <2>4. tag.breakAt \notin 1..(Size - Start)  BY <1>1, <1>2, <1>3, <2>3 DEF AtIndex
    <2> QED  BY <1>1, <1>6, <2>2, <2>3, <2>4 DEF OnePast, ReadsPast
  <1>7. CASE tag.reversed
    <2>1. i = LastIndex - n /\ i >= Start  BY <1>1, <1>7 DEF AtIndex, InLoop
    <2>2. i = Size /\ n = 0 /\ Start <= Size /\ Start + Window > Size
      BY <1>2, <1>3, <1>4, <1>5, <2>1 DEF Smaller
    <2> QED  BY <1>1, <1>3, <1>7, <2>2 DEF OnePast, ReadsPast
  <1> QED  BY <1>6, <1>7

LEMMA VisitsNext ==
    ASSUME ListsFit, TypeOK, VisitsInv, [Next]_vars
    PROVE  VisitsInv'
  <1>1. CASE Iterate  BY <1>1, VisitsIterate
  <1>2. CASE Visit  BY <1>2, VisitsVisit
  <1>3. CASE EndLoop  BY <1>3, VisitsEnd
  <1>4. CASE ReadOutside  BY <1>4, VisitsReadOutside
  <1>5. CASE Else \/ UNCHANGED vars
    <2>1. /\ UNCHANGED <<resolver, list, tag, i, last, visited>>
          /\ pc' = pc \/ (Ended /\ Ended' /\ pc' \notin {"loop", "for", "undefined"})
      BY <1>5 DEF Else, vars, Ended
    <2>2. Shown' = Shown /\ Complete' = Complete /\ AtIndex' = AtIndex /\ OnePast' = OnePast
      BY <2>1 DEF Shown, Complete, AtIndex, OnePast, ReadsPast, Width, Start, Window, Size, LastIndex,
                  NativeLast, BindingLast, Place, ReadBack
    <2>3. Straight' = Straight /\ ReadsPast' = ReadsPast  BY <2>1, SameWindow
    <2> QED  BY <2>1, <2>2, <2>3 DEF VisitsInv, Ended
  <1> QED  BY <1>1, <1>2, <1>3, <1>4, <1>5 DEF Next

LEMMA Visits == ListsFit => (Spec => []VisitsInv)
  <1> SUFFICES ASSUME ListsFit PROVE Spec => []VisitsInv  OBVIOUS
  <1>1. TypeOK /\ VisitsInv /\ [Next]_vars => VisitsInv'  BY VisitsNext
  <1> QED  BY <1>1, VisitsInit, LoopsAreTyped, PTL DEF Spec

(* Whether it ends or reads on, a loop that counts up has shown its body the window. *)
LEMMA OverIsExpected ==
    ASSUME TypeOK, VisitsInv, Straight, Ended \/ (pc = "undefined" /\ ~tag.reversed)
    PROVE  visited = Expected
  <1>1. Shown /\ Complete  BY DEF VisitsInv, OnePast, Complete
  <1> QED  BY <1>1, CompleteIsExpected

(***************************************************************************)
(* For every list, offset, limit, direction and break, in the C++ and the  *)
(* JSON resolver: a loop whose window reaches past the list comes to read  *)
(* the element one past it, and to nothing else, once its body has seen    *)
(* the rest of the list (reversed: nothing); every other loop visits the   *)
(* elements of its window, each once and in order, up to the break         *)
(* (dialect.cpp:475, cppvariable.h:317, rapidjsonvariable.h:122).          *)
(***************************************************************************)
THEOREM NativeLoopsVisit == ListsFit => (Spec => []NativeLoops)
  <1>1. TypeOK /\ VisitsInv => NativeLoops
    <2> SUFFICES ASSUME TypeOK, VisitsInv, resolver \in Native PROVE NativeLoops
      BY DEF NativeLoops
    <2>1. Ended => ~ReadsPast /\ visited = Expected
      BY OverIsExpected DEF VisitsInv, Straight
    <2>2. pc = "undefined" => ReadsPast /\ i = Size /\ (tag.reversed => visited = <<>>)
      BY DEF VisitsInv, Straight, OnePast
    <2>3. pc = "undefined" /\ ~tag.reversed => visited = Expected
      BY OverIsExpected DEF Straight
    <2> QED  BY <2>1, <2>2, <2>3 DEF NativeLoops
  <1> QED  BY <1>1, Visits, LoopsAreTyped, PTL

(***************************************************************************)
(* In a loop that counts up, does not break and starts at the first        *)
(* element or runs to the end of the list, which is not empty, each of the *)
(* four resolvers shows the body the elements of the window; and where the *)
(* window reaches past the list, the C++ and the JSON resolver then read   *)
(* one element more than there is, the bindings do not                     *)
(* (cppvariable.h:317, rapidjsonvariable.h:122, liquid.c:120, XS.xs:210).  *)
(***************************************************************************)
THEOREM ForwardLoopsVisitTheSame == ListsFit => (Spec => []ForwardLoopsAgree)
  <1>1. TypeOK /\ VisitsInv => ForwardLoopsAgree
    <2> SUFFICES ASSUME TypeOK, VisitsInv, CommonLoop PROVE ForwardLoopsAgree
      BY DEF ForwardLoopsAgree
    <2>1. ~tag.reversed /\ Straight  BY DEF CommonLoop, Straight
    <2>2. Ended \/ pc = "undefined" => visited = Expected  BY <2>1, OverIsExpected
    <2>3. Ended => ~(resolver \in Native /\ ReadsPast)  BY <2>1 DEF VisitsInv
    <2>4. pc = "undefined" => resolver \in Native /\ ReadsPast
      BY <2>1 DEF VisitsInv, OnePast
    <2> QED  BY <2>2, <2>3, <2>4 DEF ForwardLoopsAgree
  <1> QED  BY <1>1, Visits, LoopsAreTyped, PTL
=============================================================================

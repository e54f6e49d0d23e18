--------------------------- MODULE LiquidResolvers --------------------------
(***************************************************************************)
(* A for loop over a list of the host, in each of the four resolvers that  *)
(* the repository has: the C++ and the JSON one (src/cppvariable.h,        *)
(* src/rapidjsonvariable.h), and those of the Ruby and the Perl binding    *)
(* (liquid.c, XS.xs).  ForNode (src/dialect.cpp) computes the window and   *)
(* hands it, with a callback for the body, to the resolver's iterate; the  *)
(* callback says whether to go on.                                         *)
(*                                                                         *)
(* The elements are scalars, put there by the create functions of the      *)
(* resolver (of a JSON document, by its parser), and the body sees what    *)
(* the get functions make of them.  An int and a size_t differ here only   *)
(* in the sign: Word stands for 2^64.                                      *)
(***************************************************************************)
EXTENDS Integers, Sequences, FiniteSets

CONSTANTS
    Lists,        \* the lists a loop may run over
    Offsets,      \* the values of offset:, all integers
    Limits,       \* the values of limit:
    Word,         \* how many values a size_t has
    MaxVisits     \* how many visits are recorded

Scalar == [t: {"NIL", "BOOL", "INT", "FLOAT", "STR"}, n: {0, 1}]
Nil    == [t |-> "NIL", n |-> 0]

ASSUME ResolversAssumption ==
    /\ Lists \subseteq Seq(Scalar)
    /\ Offsets \subseteq Int
    /\ Limits \subseteq Int
    /\ Word \in Nat \ {0}
    /\ MaxVisits \in Nat \ {0}

Resolvers == {"cpp", "json", "ruby", "perl"}
Native    == {"cpp", "json"}

VARIABLES
    resolver,     \* whose iterate runs
    list,         \* the list, as the template wrote it
    tag,          \* the qualifiers of the for tag, and at which visit its body breaks (0: never)
    pc,           \* where the loop is
    i, last,      \* the counter of the iteration and the bound it is compared with
    idx,          \* ForLoopContext::idx, which counts from the offset
    visited       \* the values the body has seen

vars == <<resolver, list, tag, pc, i, last, idx, visited>>

Unlimited == [given |-> FALSE, n |-> 0]
Limit(n)  == [given |-> TRUE, n |-> n]
Tags == [offset: Offsets, limit: {Unlimited} \cup {Limit(n) : n \in Limits},
         reversed: BOOLEAN, breakAt: 0..MaxVisits]

Size == Len(list)
Smaller(a, b) == IF a < b THEN a ELSE b
Larger(a, b)  == IF a > b THEN a ELSE b

-----------------------------------------------------------------------------
(* ForNode::render: the window. *)

Start == Larger(tag.offset, 0)

Window == IF ~tag.limit.given THEN Size
          ELSE IF tag.limit.n < 0 THEN Larger(tag.limit.n + Size, 0) ELSE tag.limit.n

(* Mutated: one further. *)
NativeLastPastTheWindow == Smaller(Start + Window, Size)

(* The last index of CPPVariable::iterate and of the JSON resolver: the size is in it. *)
NativeLast == Smaller(Start + Window - 1, Size)

(* Mutated: the last element is left out. *)
BindingLastButOne == Smaller(Size, Window) - 2

(* The last index of the bindings, which counts the limit from the front of *)
(* the list; with nothing to visit Ruby takes one past the list and Perl    *)
(* all of it.                                                               *)
BindingLast == Smaller(Size, Window) - 1
RubyLast    == IF BindingLast < 0 THEN BindingLast + Size + 1 ELSE BindingLast
PerlLast    == IF BindingLast < 0 THEN BindingLast + Size ELSE BindingLast

(* Counting down, the bindings start where they would have ended going up, and *)
(* count the offset from the end: Ruby from the size, Perl from the top index. *)
Bounds(top, bottom) == IF tag.reversed THEN <<top, bottom>> ELSE <<Start, top>>

(* A negative int, as the size_t it is compared with in Perl's loops. *)
Unsigned(n) == n % Word
Signed(n)   == IF 2 * n >= Word THEN n - Word ELSE n

FirstAndLast ==
    CASE resolver \in Native -> Bounds(NativeLast, Start)
      [] resolver = "ruby"   -> Bounds(RubyLast, Size - Start)
      [] resolver = "perl"   -> Bounds(Unsigned(PerlLast), Unsigned(Size - 1 - Start))

(* Perl's loops are skipped when even the whole list has no last index. *)
NothingToVisit == resolver = "perl" /\ PerlLast < 0

Iterate ==
    /\ pc = "for"
    /\ pc' = IF NothingToVisit THEN "after" ELSE "loop"
    /\ i' = FirstAndLast[1]
    /\ last' = FirstAndLast[2]
    /\ idx' = Start
    /\ UNCHANGED <<resolver, list, tag, visited>>

-----------------------------------------------------------------------------
(* The values: what inject creates and parseVariant gets back. *)

(* rapidjson's type of false is 1 and of true 2; its getBool tests for 2 and 3. *)
JsonRead(v) == IF v = [t |-> "BOOL", n |-> 0] THEN Nil ELSE v

(* Qfalse is the null pointer, which liquidCgetType takes for nil. *)
RubyRead(v) == IF v = [t |-> "BOOL", n |-> 0] THEN Nil ELSE v

(* lpCreateBool makes an integer. *)
PerlRead(v) == IF v.t = "BOOL" THEN [t |-> "INT", n |-> v.n] ELSE v

ReadBack(v) ==
    CASE resolver = "json" -> JsonRead(v)
      [] resolver = "ruby" -> RubyRead(v)
      [] resolver = "perl" -> PerlRead(v)
      [] OTHER             -> v

(* What is at an index of the list, or that nothing is: rb_ary_entry counts a   *)
(* negative index from the end and gives nil outside, av_fetch gives nothing    *)
(* outside; the other two read memory that is not the list's.                   *)
FromEnd(n)   == IF n < 0 THEN n + Size ELSE n
Inside(n)    == n \in 0..(Size - 1)
ElementAt(n) == ReadBack(list[n + 1])

RubyEntry(n) == IF Inside(FromEnd(n)) THEN <<ElementAt(FromEnd(n))>> ELSE <<Nil>>
PerlFetch(n) == IF Inside(FromEnd(Signed(n))) THEN <<ElementAt(FromEnd(Signed(n)))>> ELSE <<>>
Entry == CASE resolver = "ruby" -> RubyEntry(i)
           [] resolver = "perl" -> PerlFetch(i)
           [] OTHER             -> IF Inside(i) THEN <<ElementAt(i)>> ELSE <<>>

-----------------------------------------------------------------------------
(* The loop. *)

InLoop == IF tag.reversed THEN i >= last ELSE i <= last

(* Mutated: Ruby's counter is a size_t as well. *)
NextIndexUnsigned ==
    LET next == IF tag.reversed THEN i - 1 ELSE i + 1
    IN  IF resolver \in Native THEN next ELSE Unsigned(next)

NextIndex == LET next == IF tag.reversed THEN i - 1 ELSE i + 1
             IN  IF resolver = "perl" THEN Unsigned(next) ELSE next

Recorded(v) == IF Len(visited) < MaxVisits THEN visited \o v ELSE visited

(* The body broke: the callback returns false, which the bindings' iterate ignores. *)
Breaks(seen) == tag.breakAt # 0 /\ Len(seen) = tag.breakAt /\ seen # visited

Leaves(seen)      == Breaks(seen) /\ resolver \in Native

(* Mutated: the callback leaves idx as it is. *)
NextIdxStuck(entry) == idx
NextIdx(entry) == IF entry = <<>> THEN idx ELSE Smaller(idx + 1, Size + MaxVisits)

Visit ==
    /\ pc = "loop" /\ InLoop
    /\ ~(resolver \in Native /\ ~Inside(i))
    /\ visited' = Recorded(Entry)
    /\ idx' = NextIdx(Entry)
    /\ IF Leaves(visited') THEN pc' = "after" /\ i' = i ELSE pc' = pc /\ i' = NextIndex
    /\ UNCHANGED <<resolver, list, tag, last>>

(* a[size] of the vector, or Value[size] of the array: what follows is undefined. *)
ReadOutside ==
    /\ pc = "loop" /\ InLoop
    /\ resolver \in Native /\ ~Inside(i)
    /\ pc' = "undefined"
    /\ UNCHANGED <<resolver, list, tag, i, last, idx, visited>>

EndLoop ==
    /\ pc = "loop" /\ ~InLoop
    /\ pc' = "after"
    /\ UNCHANGED <<resolver, list, tag, i, last, idx, visited>>

(* The else of the for tag is rendered when idx is still zero. *)
Else ==
    /\ pc = "after"
    /\ pc' = IF idx = 0 THEN "else" ELSE "done"
    /\ UNCHANGED <<resolver, list, tag, i, last, idx, visited>>

Init ==
    /\ resolver \in Resolvers
    /\ list \in Lists
    /\ tag \in Tags
    /\ pc = "for"
    /\ i = 0 /\ last = 0 /\ idx = 0
    /\ visited = <<>>

Next == Iterate \/ Visit \/ ReadOutside \/ EndLoop \/ Else

Spec == Init /\ [][Next]_vars /\ WF_vars(Next)

-----------------------------------------------------------------------------
Ended == pc \in {"after", "else", "done"}

Reversed(s) == [k \in 1..Len(s) |-> s[Len(s) + 1 - k]]
Values(s)   == [k \in 1..Len(s) |-> ReadBack(s[k])]
Front(s, n) == SubSeq(s, 1, Smaller(n, Len(s)))

(* What the documentation of the for tag makes one expect: the window counts *)
(* from the offset, reversed visits the same elements the other way round,   *)
(* and a break is the last visit.                                            *)
Expected ==
    LET window == SubSeq(list, Start + 1, Smaller(Start + Window, Size))
        order  == IF tag.reversed THEN Reversed(window) ELSE window
    IN  Values(IF tag.breakAt = 0 THEN order ELSE Front(order, tag.breakAt))

TypeOK ==
    /\ resolver \in Resolvers
    /\ list \in Lists
    /\ tag \in Tags
    /\ pc \in {"for", "loop", "after", "else", "done", "undefined"}
    /\ i \in Int
    /\ last \in Int
    /\ idx \in Nat
    /\ visited \in Seq(Scalar)

(* The windows that reach past the list, as that of every offset without a limit *)
(* does, unless the body breaks before the end of the list.                      *)
ReadsPast ==
    /\ Start <= Size /\ Start + Window > Size
    /\ tag.reversed \/ tag.breakAt \notin 1..(Size - Start)

(***************************************************************************)
(* What becomes of each loop in the C++ and the JSON resolver.  If its     *)
(* window reaches past the list, it never ends: counting up, the body sees *)
(* all of the window that there is and then the index one past the list,   *)
(* which the bound lets in, is read; counting down, that index is read     *)
(* before anything is seen (cppvariable.h:317, rapidjsonvariable.h:122).   *)
(* Every other loop ends, and has shown its body exactly the elements of   *)
(* the window, in order, up to a break.                                    *)
(***************************************************************************)
NativeLoops == resolver \in Native =>
    /\ Ended => ~ReadsPast /\ visited = Expected
    /\ pc = "undefined" => /\ ReadsPast /\ i = Size
                           /\ visited = IF tag.reversed THEN <<>> ELSE Expected

(* The loops on which the four agree, up to the end of the list: they count up, *)
(* from the first element or to the last one, over a list and with a limit that *)
(* are not empty, and do not break.  On the others the bindings go their own    *)
(* ways (liquid.c:117, XS.xs:206).                                              *)
CommonLoop ==
    /\ ~tag.reversed /\ tag.breakAt = 0
    /\ Size > 0 /\ Window > 0
    /\ Start = 0 \/ Window >= Size

(***************************************************************************)
(* In each such loop the body sees the elements of the window whichever of *)
(* the four resolvers runs it.  Where the window reaches past the list     *)
(* they part after the last element: the bindings' loops end, those of C++ *)
(* and JSON read on, and no others do (cppvariable.h:317,                  *)
(* rapidjsonvariable.h:122, liquid.c:120, XS.xs:210).                      *)
(***************************************************************************)
ForwardLoopsAgree == CommonLoop =>
    /\ Ended \/ pc = "undefined" => visited = Expected
    /\ Ended => ~(resolver \in Native /\ ReadsPast)
    /\ pc = "undefined" => resolver \in Native /\ ReadsPast

(***************************************************************************)
(* The else of a for tag is rendered only if its body was not.  (Not the   *)
(* reverse: idx counts from the offset, so that with one neither is.)      *)
(***************************************************************************)
ElseMeansNothingSeen == pc = "else" => visited = <<>>

(***************************************************************************)
(* Every loop ends, but for one: Perl's counting down with an offset that  *)
(* leaves just the first element, where a size_t is never less than zero   *)
(* (XS.xs:222).                                                            *)
(***************************************************************************)
NeverBelowZero == resolver = "perl" /\ tag.reversed /\ Start = Size - 1
LoopsEnd == NeverBelowZero \/ <>(pc \in {"else", "done", "undefined"})
=============================================================================

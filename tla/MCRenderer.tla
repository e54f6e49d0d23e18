------------------------------ MODULE MCRenderer ------------------------------
(***************************************************************************)
(* Instances of LiquidRenderer: a handful of templates over one set of     *)
(* nodes, written as the AST the parser builds for them, and the sequences *)
(* a loop may meet.                                                        *)
(***************************************************************************)
EXTENDS LiquidRenderer, TLC

Concat(children) == [kind |-> "concat", child |-> children, var |-> "forloop"]
Leaf(kind) == [kind |-> kind, child |-> <<>>, var |-> "forloop"]
With(kind, v, children) == [kind |-> kind, child |-> children, var |-> v]

\* {% for a in .. %}{{ a }}{% if .. %}{% break %}{% endif %}
\*   {% for a in .. %}{% if .. %}{{ forloop.index0 }}{% continue %}{% endif %}{{ a }}{% endfor %}
\* {{ a }}{% else %}-{% endfor %}{{ a }}{% for a.b in .. %}x{% else %}y{% endfor %}
NestedLoops ==
     1 :> Concat(<<2, 3, 19>>)
  @@ 19 :> With("for", "a", <<80, 81>>) @@ 80 :> Leaf("text") @@ 81 :> Leaf("text")
  @@ 2 :> With("for", "a", <<4, 5>>) @@ 3 :> With("read", "a", <<>>)
  @@ 4 :> Concat(<<7, 8, 10, 15>>)   @@ 5 :> Concat(<<6>>) @@ 6 :> Leaf("text")
  @@ 7 :> With("read", "a", <<>>)    @@ 8 :> With("branch", "a", <<9>>)
  @@ 9 :> Concat(<<16>>)             @@ 16 :> Leaf("break")
  @@ 10 :> With("for", "a", <<11>>)  @@ 11 :> Concat(<<13, 12>>)
  @@ 12 :> With("read", "a", <<>>)   @@ 13 :> With("branch", "a", <<14>>)
  @@ 14 :> Concat(<<17, 18>>)        @@ 17 :> With("read", "forloop", <<>>)
  @@ 18 :> Leaf("continue")          @@ 15 :> With("read", "a", <<>>)

\* {% for b in .. %}{% capture v %}x{% if .. %}{% break %}{% elsif .. %}{% else %}y{% endif %}
\*   {% endcapture %}{{ v }}{% assign b = 1 %}{{ b }}{% cycle "p", "q" %}{% endfor %}{{ b }}
CaptureInLoop ==
     20 :> Concat(<<21, 29>>)
  @@ 21 :> With("for", "b", <<22>>)     @@ 29 :> With("read", "b", <<>>)
  @@ 22 :> Concat(<<23, 27, 28, 30, 31>>)
  @@ 23 :> With("capture", "v", <<24>>) @@ 24 :> Concat(<<25, 26>>) @@ 25 :> Leaf("text")
  @@ 26 :> With("branch", "v", <<34, 35, 36>>)
  @@ 34 :> Concat(<<37>>) @@ 37 :> Leaf("break") @@ 35 :> Concat(<<>>)
  @@ 36 :> Concat(<<38>>) @@ 38 :> Leaf("text")
  @@ 27 :> With("read", "v", <<>>)      @@ 28 :> With("assign", "b", <<>>)
  @@ 30 :> With("read", "b", <<>>)      @@ 31 :> With("cycle", "b", <<32, 33>>)
  @@ 32 :> Leaf("text") @@ 33 :> Leaf("text")

\* {% for a in .. %}{% if .. %}{% if .. %}{% if .. %}xx{% endif %}x{% else %}{% continue %}{% endif %}
\*   x{% endif %}x{% endfor %}x
DeepInLoop ==
     40 :> Concat(<<41, 42>>)
  @@ 41 :> With("for", "a", <<43>>)     @@ 42 :> Leaf("text")
  @@ 43 :> Concat(<<45, 44>>)           @@ 44 :> Leaf("text")
  @@ 45 :> With("branch", "a", <<46>>)  @@ 46 :> Concat(<<48, 47>>) @@ 47 :> Leaf("text")
  @@ 48 :> With("branch", "a", <<49, 50>>)
  @@ 49 :> Concat(<<51, 52>>) @@ 51 :> With("branch", "a", <<54>>) @@ 52 :> Leaf("text")
  @@ 54 :> Concat(<<55, 55>>) @@ 55 :> Leaf("text")
  @@ 50 :> Concat(<<53>>)     @@ 53 :> Leaf("continue")

\* {% wrap %}x{% cycle "p", "q" %}{% endwrap %}
\* {% for a in .. %}{% wrap %}{{ a }}{% if .. %}{% break %}{% endif %}{% endwrap %}x{% endfor %}
HostTags ==
     60 :> Concat(<<61, 63>>)
  @@ 61 :> With("user", "a", <<62>>) @@ 62 :> Concat(<<67, 68>>) @@ 67 :> Leaf("text")
  @@ 68 :> With("cycle", "a", <<69, 70>>) @@ 69 :> Leaf("text") @@ 70 :> Leaf("text")
  @@ 63 :> With("for", "a", <<64>>)  @@ 64 :> Concat(<<65, 71>>) @@ 71 :> Leaf("text")
  @@ 65 :> With("user", "a", <<66>>) @@ 66 :> Concat(<<72, 73>>)
  @@ 72 :> With("read", "a", <<>>)   @@ 73 :> With("branch", "a", <<74>>)
  @@ 74 :> Concat(<<75>>) @@ 75 :> Leaf("break")

\* {% for a in .. %}{% wrap %}xx{% endwrap %}{% cycle "p", "q" %}{% endfor %}{% cycle "p" %}{{ a }}
Reentrant ==
     100 :> Concat(<<101, 103, 110>>)
  @@ 101 :> With("for", "a", <<102>>)   @@ 102 :> Concat(<<104, 107>>)
  @@ 104 :> With("user", "a", <<105>>)  @@ 105 :> Concat(<<106, 106>>) @@ 106 :> Leaf("text")
  @@ 107 :> With("cycle", "a", <<108, 109>>) @@ 108 :> Leaf("text") @@ 109 :> Leaf("text")
  @@ 103 :> With("cycle", "a", <<108>>) @@ 110 :> With("read", "a", <<>>)

MCAst == Reentrant @@ NestedLoops @@ CaptureInLoop @@ DeepInLoop @@ HostTags

MCNode  == DOMAIN MCAst
MCKind  == [n \in MCNode |-> MCAst[n].kind]
MCChild == [n \in MCNode |-> MCAst[n].child]
MCVar   == [n \in MCNode |-> MCAst[n].var]
MCName  == {"forloop", "a", "b", "v"}
MCHasElse == {26, 48}
MCDotted  == {19}

\* {% for a in (1..size) .. %}, {% for a in list .. %}
Variant(size)  == [path |-> "variant", size |-> size, offset |-> 0, limit |-> 0,
                   limited |-> FALSE, reversed |-> FALSE]
Resolver(size) == [Variant(size) EXCEPT !.path = "resolver"]
Offset(w, o)   == [w EXCEPT !.offset = o]
Limit(w, l)    == [w EXCEPT !.limit = l, !.limited = TRUE]
Reversed(w)    == [w EXCEPT !.reversed = TRUE]

OneWindow   == {Variant(1)}
TwoWindows  == {Variant(2), Reversed(Resolver(2))}
\* An offset past the end, a negative limit, a hash instead of an array.
EdgeWindows == {Variant(0), Resolver(-1), Offset(Variant(3), 1), Offset(Variant(1), 2),
                Reversed(Limit(Variant(3), -1)), Offset(Limit(Resolver(3), 2), 1)}
\* An offset without a limit, and a limit past the list: one element too many.
LongWindows == {Offset(Resolver(2), 1), Reversed(Limit(Resolver(1), 2)), Offset(Resolver(1), 2)}
AllWindows == TwoWindows \cup EdgeWindows \cup LongWindows
=============================================================================

------------------------------ MODULE MCEngine ------------------------------
(***************************************************************************)
(* LiquidEngine with templates that have one of each construct on which    *)
(* the machine agrees with the tree renderer, two that stop it, and two    *)
(* stores under which conditions go both ways and loops run twice, once    *)
(* and not at all.                                                         *)
(***************************************************************************)
EXTENDS LiquidEngine

Txt(c)   == Leaf(Str(<<c>>))
Name(c)  == Branch("variable", "", <<Leaf(Str(<<c>>))>>)
Args(c)  == Branch("arguments", "", c)
All(c)   == Branch("concat", "", c)
Echo(n)  == Branch("output", "", <<Args(<<n>>)>>)
Op(sym, v, w)     == Branch("operator", sym, <<v, w>>)
Filter(sym, v, w) == Branch("filter", sym, <<v, Args(<<w>>)>>)
Tag(sym, c)       == Branch("tag", sym, c)
Interval(v, w)       == Branch("group", "", <<Op("..", v, w)>>)

If(cond, body, rest) == Tag("if", <<Args(<<cond>>), body>> \o rest)
Unless(cond, body, rest) == Tag("unless", <<Args(<<cond>>), body>> \o rest)
Elsif(cond, body)    == <<Tag("elsif", <<Args(<<cond>>)>>), body>>
Else(body)           == <<Tag("else", <<Args(<<>>)>>), body>>
For(c, seq, body)    == Tag("for", <<Args(<<Op("in", Name(c), seq)>>), body>>)
Assigned(c, v)       == Tag("assign", <<Args(<<Op("=", Name(c), v)>>)>>)
Capture(c, body)     == Tag("capture", <<Args(<<Name(c)>>), body>>)
When(v, body)        == <<Tag("when", <<Args(<<v>>)>>), body>>
Case(v, whens)       == Tag("case", <<Args(<<v>>), All(<<>>)>> \o whens)

(* {{ a }}{{ a | plus: b }} *)
Outputs == All(<<Echo(Name("a")), Echo(Filter("plus", Name("a"), Name("b")))>>)

(* {% if a < b %}x{{ a }}{% elsif t %}y{% else %}z{{ b }}{% endif %} *)
Conditions == All(<<If(Op("<", Name("a"), Name("b")), All(<<Txt("x"), Echo(Name("a"))>>),
                       Elsif(Name("t"), All(<<Txt("y")>>)) \o Else(All(<<Txt("z"), Echo(Name("b"))>>)))>>)

(* {% for i in l %}{% if i %}{{ i }}{% endif %}{% for j in m %}{{ j }}{{ i }}{% endfor %}{% endfor %}. *)
Loops == All(<<For("i", Name("l"),
                   All(<<If(Name("i"), All(<<Echo(Name("i"))>>), <<>>),
                         For("j", Name("m"), All(<<Echo(Name("j")), Echo(Name("i"))>>))>>)),
               Txt(".")>>)

(* {% for j in l %}{% for i in (b..3) %}{% if 3 > i %}{{ j }}{% endif %}{{ i }}{% endfor %}{% endfor %} *)
Intervals == All(<<For("j", Name("l"),
                    All(<<For("i", Interval(Name("b"), Leaf(Num(3))), 
                          All(<<If(Op(">", Leaf(Num(3)), Name("i")), All(<<Echo(Name("j"))>>), <<>>),
                                Echo(Name("i"))>>))>>))>>)

(* {% assign q = b %}{% for i in l %}{% capture q %}{{ i }}{{ q }}{% endcapture %}{% endfor %}{% assign p = q %}{{ p }}{{ q }} *)
Captures == All(<<Assigned("q", Name("b")),
                  For("i", Name("l"), All(<<Capture("q", All(<<Echo(Name("i")), Echo(Name("q"))>>))>>)),
                  Assigned("p", Name("q")), Echo(Name("p")), Echo(Name("q"))>>)

(* {% case a %}{% when 1 %}x{% when b %}{{ b }}{% else %}{{ a }}{% endcase %}{% unless a and t %}y{% else %}{{ t }}{% endunless %} *)
Selections == All(<<Case(Name("a"), When(Leaf(Num(1)), All(<<Txt("x")>>))
                                 \o When(Name("b"), All(<<Echo(Name("b"))>>))
                                 \o Else(All(<<Echo(Name("a"))>>))),
                 Unless(Op("and", Name("a"), Name("t")), All(<<Txt("y")>>), Else(All(<<Echo(Name("t"))>>)))>>)

MCSound == {Outputs, Conditions, Loops, Intervals, Captures, Selections}

(* {{ a == b }}: reads the children of a node that has none (dialect.cpp:862). *)
Equality == All(<<Echo(Op("==", Name("a"), Name("b")))>>)

(* {{ w | slice: 0, b }}: the second argument stays on the stack (compiler.cpp:975). *)
Slice == All(<<Echo(Branch("filter", "slice", <<Name("w"), Args(<<Leaf(Num(0)), Name("b")>>)>>))>>)

MCTemplates == MCSound \union {Equality, Slice}
FilterTemplates == {Outputs, Slice}

StoreOf(a, t, l, m) ==
    Hash(<<<<"a">>, <<"b">>, <<"t">>, <<"l">>, <<"m">>, <<"w">>>>,
         <<Num(a), Num(2), Bool(t), List(l), List(m), Str(<<"x", "y", "z">>)>>)

MCStores == {StoreOf(1, FALSE, <<Num(1), Num(3)>>, <<Num(5)>>),
             StoreOf(3, TRUE, <<Num(4)>>, <<>>)}

MCPrograms == {ProgramOf(CompileTemplate(NewCompiler, t)) : t \in MCTemplates}
=============================================================================

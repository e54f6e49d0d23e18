# A verification project for liquid-cpp

liquid-cpp parses Liquid templates and renders them, for C++ programs and,
through a C interface, for Perl and Ruby. This directory holds TLA+ models of
its core, the TLC configurations that check them on small instances, and proofs
that TLAPS checks for every instance. Paths below are relative to the
repository; `src/src/x` is written `x`.

## 1. Inventory

| part | source | state it keeps | operations |
|---|---|---|---|
| tree renderer | `renderer.cpp`, `renderer.h`, `context.cpp`, `context.h` | `control`, `error`, `currentRenderingDepth`, `internalDrops`, `internalRender`, `returnValue`, the C++ stack | `render` (callback, string), `renderArgument`, `renderTrimmed`, `NodeType::render` and its overrides |
| control-flow tags | `dialect.cpp` | a `ForLoopContext` per running loop | `for`, `break`, `continue`, `cycle`, `if`, `unless`, `case`, `capture`, `assign`, `increment`, `decrement`, `comment`, `raw` |
| C interface | `interface.cpp`, `interface.h` | none of its own | render a template or an argument, register tags, filters and operators whose functions call back into the renderer |
| parser | `parser.cpp`, `parser.h` | the stack of open nodes, the block type, the state inside a tag, the errors | one handler per lexer event; `parse`, `parseArgument`, `unparse` |
| lexer | `lexer.h` | the scanner's state, a halt tag | `parse` calls the parser's handlers |
| compiler and virtual machine | `compiler.cpp`, `compiler.h`, the `compile` methods of `dialect.cpp` | code and data segments, drop frames and a free register that outlive a compilation; registers, stack, buffers that outlive a program | `compile`, `Interpreter::run` |
| optimizer | `optimizer.cpp`, the `optimize` methods | a renderer of its own | rewrites the tree in place |
| variables and resolvers | `cppvariable.h`, `rapidjsonvariable.h`, `common.h`, and the resolvers of the bindings | the host's values, on the heap | the resolver's callbacks: read, iterate, create, set, clone, free |
| filters and operators | `dialect.cpp` | none | functions of their operands |
| web dialect, minifiers | `web.cpp`, `extended/` | none | formatting of texts and colors |
| Perl and Ruby bindings | `perl/`, `ruby/` | wrappers that own the engine's objects, procs registered as tags and filters, what the collector may take | hosts of the C interface: make, use, nest and drop objects; callbacks that may raise |

How they interact. The lexer calls the parser while it scans; the parser builds
a tree that nothing changes afterwards, except the optimizer. The renderer
walks the tree by recursion: `retrieveRenderedNode` calls the node type's
`render`, which renders children through the renderer again. Node types talk to
each other through the renderer's members: `break` sets `control`, which
concatenations test and a `for` clears; a `for` publishes its context in
`internalDrops`, where variables and `cycle` find it; a concatenation that
exceeds the depth sets `error`, which other concatenations and the end of the
render test. A host's tag runs in the middle of all this, may render its child
and may call `render` or `renderArgument` on the very renderer that called it;
`internalRender` is how `render` tells such a call from a fresh one.

What is hard. There are no threads (README.md:129-132 makes parser and renderer
thread-local) and nothing is persisted. The difficulty is one of

- unwinding: members that have to be put back on every way out of a C++ call -
  normal end, break, error, exception, `longjmp` - while loops, captures and
  re-entrant renders nest, and members that have to be right for the *next*
  render, compilation or parse;
- agreement: a tree, what the optimizer makes of it and the program compiled
  from it are three ways to one text; four resolvers iterate over one list; two
  of them store one value;
- ownership: variables with raw pointers to them while a template assigns to
  what it loops over; engine objects freed by a garbage collector in any order
  while others point to them;
- arithmetic at the boundaries: offsets, limits, indices from the end, an
  unsigned depth counter, texts of size zero.

What makes each part correct:

- tree renderer and tags: a template renders to what its text says, with loop
  variables scoped to their loops; whatever happens inside, the renderer is as
  good as new afterwards; every render returns; errors are reported.
- parser: every handler keeps the stack's shape, every template is parsed to a
  well-formed tree or reported; a tree written out is read back.
- compiler and machine: the code of a tree does what rendering the tree does,
  ends, and touches only its own stack, registers and buffers.
- optimizer: the rewritten tree renders to what the tree rendered to.
- variables: every created variable is stored or freed, exactly once, and a
  loop is on the list its path leads to.
- resolvers: a loop visits its window, the same whoever keeps the list where they
  can agree, and ends; reading past a list is confined to where it is known.
- filters: those that cut, search, encode or compute with one another's results
  obey the laws that connect them.
- bindings: no use of an object that was freed or of a proc that was collected.

## 2. Plan

1. `LiquidRenderer`: renderer, concatenation and control-flow tags under a
   re-entrant host; type correctness and all safety invariants proved. *Done.*
2. `RenderPromise`: the denotational semantics that `LiquidRenderer` is checked
   to implement. *Done.*
3. `LiquidParser`, `LiquidUnparser`: the node stack under the lexer's events,
   and back to tokens. *Done; what stops the lexer is reported, proved.*
4. `LiquidValues`, `LiquidOperators`, `LiquidFilters`, `LiquidWeb`: values and
   the pure functions on them; `LiquidPipeline`: the laws between filters. *Done.*
5. `LiquidTree`, `LiquidCompiler`, `LiquidInterpreter`, `LiquidOptimizer`: the
   three ways to render; `LiquidEngine` composes them and refines
   `TemplateEngine`; the machine's control proved to stay in its code. *Done.*
6. `LiquidVariables`, refining `VariableStore`: ownership and assignment. *Done;
   ownership, leaks, the loops' pointers and the refinement proved.*
7. `LiquidResolvers`: the four resolvers' loops, proved but for their end. *Done.*
8. `LiquidBindings`: the Ruby extension's objects under its collector. *Done,
   model-checked and proved.*
9. Left: the lexer's scanning; the Perl extension's objects; `returnValue` shared
   by a host's tags.

Modules that are proved about, and those they extend, hold no `RECURSIVE`
operator.

## 3. The modules

### LiquidRenderer

One module for renderer and tags, because they share the members above. The
C++ recursion is unrolled into steps:

| TLA+ | code |
|---|---|
| `task` | what the call chain does next: `enter` a node (a call of `retrieveRenderedNode`), `leave` with a text (its return), `host` (inside a host's tag), `idle` |
| `stack` | one frame per call that has work left after its callee returns: a render (`outer` when it set `internalRender`, `inner` when it found it set), a concatenation (`concat`, or `single` for the one-child short cut), `for`, `capture`, a host's tag (`user`). A branch renders its body in tail position and needs none |
| `control`, `error`, `depth`, `drops`, `internalRender` | the members of `Renderer` of those names (`depth` wraps at `DepthModulus` as the `unsigned int` does) |
| a `Drop` | a pointer to a `ForLoopContext`, which lives in a frame: the frame's index and which function the drop carries. A drop whose frame is gone dangles, and reading it may give anything |
| `store` | the template's variables; `reply`: what the last top-level render gave the host |

Actions are named after what they do: `RenderTemplate`, `UserRender` (`render`
from outside and from a host's tag), `EndRender`, `Raise` (the string overload
throws and everything is unwound), `ExceedDepth`, `EnterSingle`, `EnterConcat`,
`NextChild`, `LeaveConcat`, `AbandonConcat` (`ConcatenationNode::render`),
`SkipLoop`, `EmptyLoop`, `EnterLoop`, `NextIteration`, `LeaveLoop`
(`ForNode::render` and its iterator), and so on.

Abstractions. A text is a sequence of items that say which node, element or
index produced them, so two texts differ when the order, the scoping or the
number of renderings does. Conditions go either way each time they are
evaluated; `if`, `unless` and `case` are then one kind of node. What `in` yields
is a member of `Windows` (which array path, size, offset, limit, direction), or
no sequence at all. Expressions have no effect and take no step of their own. A
window may reach one past its array (`ReachesPastEnd`, `cppvariable.h:317`): the body
is then rendered for that place as for any other, with the place as the element's
name, whatever the memory there holds. A loop whose variable has several parts
(`Dotted`) renders nothing and not its `else` either (`dialect.cpp:469-470`).

### RenderPromise, MCPromise

`RenderPromise` says what a render promises, with neither stack, drops, pending
controls nor counter: `Outcomes` maps a node, a lexical scope and a store to the
texts, controls and stores it may end in; `Visits` says which elements a loop
visits as a set of indices, not as a loop over ints. Its state machine has two
steps, ask and be answered; failing is allowed for templates that nest too deep
only. `MCPromise` states that `LiquidRenderer` implements it; the refinement
mapping needs the store the render began with, which a history variable keeps.

### LiquidParser, MCParser

The parser is a function of its members and one token, so the module is one
operator per handler, from the parser's members (the record `parser`) to the
parser's members, and one action per kind of token: the lexer reads it and calls
the handler. The lexer's own state is `parser.lexing`; a handler that returns
false clears `parser.ok`, after which nothing is read. `Parse` and
`ParseArgument` start a parse from whatever the last one left, `FinishParse` and
`FinishArgument` may end it after any token: the text ends there.

| TLA+ | code |
|---|---|
| `nodes`, `errors`, `state`, `filterState`, `blockType` | the members of `Parser` |
| `kids` ending in `Null` | the child slot a node keeps open, `children.push_back(nullptr)` |
| `Value(w)` | a node without a type, which holds a variant |
| `PopNode`, `PopNodeUntil`, `PushNode`, `HasNode` | the functions of those names |
| `Colon`, `Comma`, `Literal`, ... | the handlers `colon`, `comma`, `literal`, ... |
| `TagTypes`, `Contextual`, `Operators`, ... | what a dialect registered with the context |
| `WildcardFilters` | the filters that take named arguments; an unknown filter has no name and takes them (`context.h:250`), a filter of the context may or may not |

Words, strings, numbers and stretches of text are tokens; white space precedes
every line break in a block. A build without assertions is modelled. Where the
code goes on to read what is not there - the children of a value, a null
pointer, the priority of a node that has none - the parse ends as `undefined`
and nothing is claimed of it.

`Accepted` is a tree without errors. It should be the tree of the whole text
(`ReadsWhole`), but for some texts it is not, which run `stops` shows; they all
have a tag that does not begin with its name, an end tag with arguments, or a
liquid tag. `StopsAreReported` and `BlocksMatch` leave exactly those out
(`TagsAreNamed`) and are proved for the rest.

`MCParser` gives a small dialect, a grammar (each template is written together
with the tree it stands for) and the texts: all templates, all templates that
lost a token, have two neighbours exchanged or another end word, and all short
texts over an alphabet, each of them ended anywhere.

### LiquidUnparser

`Unparse` is `Parser::unparse` with tokens for text: one alternative per kind
of node, in the order of the code's tests. The property is about *writable*
trees (`MCParser.Writable`), those for which every node has a case.

### LiquidValues, LiquidOperators, LiquidFilters, LiquidWeb

A value is a record with a type, a number, a string and elements, whether it is
a `Variant` of the engine or a `CPPVariable` of the store; a `VAR` wraps a value
of the store that the engine holds a pointer to. `ParseVariant`, `Text`,
`IsTruthy` and `Get` are the conversions and accesses of `common.h`, `context.h`
and `cppvariable.h`. Operators and filters are functions of rendered operands,
one definition per class of `dialect.cpp` and `web.cpp`; strings are sequences of
characters, colors are four bytes. A double is a number of eighths (`Float`), which
is what dividing by 2, 4 and 8 makes; one that is not, a zero with a minus and one of
a thousand or more are `Beyond`: its value and its text are not modelled, and what is
computed from it is `Beyond` too. Texts are read as doubles (`Atof`) where the code
does, in the arithmetic of filters for one, and as integers (`Atoll`) elsewhere; a
double prints without zeros at its end, one in the store with six decimals
(`StoredText`). A literal with a fraction loses it in a program, whose operand is
loaded as an integer (`compiler.cpp:566-569`). Two more results are no values:
`Undefined`, where the code reads what is not its own - `strip` and `rstrip` of an
empty text, the code of a byte from 128 up - and `Diverges`, where its loop never
ends.

### LiquidPipeline, MCPipeline

The chain of filters of one output, as a state machine: a value, and one step
per filter. The invariants are laws that hold at whatever value a chain arrives:
what `split` took apart `join` puts together, removing is replacing by nothing,
`slice` and `truncate` cut where their counts say, `strip` is both of its halves and
only an empty text has it read outside, quotient and remainder make the dividend
(of an integer, which is cut; a text is divided as a double, with its fraction), what
was escaped or encoded reads back, and a color printed in rgb is read back. What the
color filters print in hexadecimal shows a color up to the low digit of its blue
behind a digit that may be any (`web.cpp:184`), and is read by none of them (177):
`ColorsAgree` says what of it is right, and that it is not read. The laws relate
filters that were written apart and share index arithmetic.

### LiquidTree, LiquidCompiler, LiquidInterpreter, LiquidOptimizer

Three ways to one text.

- `LiquidTree` is the tree renderer again, this time as a function from a tree
  and an environment (the store, the loops' variables, the pending control) to a
  text: the reference. `Exec` renders a node, `Eval` takes an expression's value from it.
- `LiquidCompiler` is a function from a tree to a program. The compiler's state
  - code, string pool, stack distance, free register, drop frames - is threaded
  through as a record `C`; jumps are patched as the code patches them, and one
  that is not stays a jump to the start.
- `LiquidInterpreter` executes one instruction per step. `runs` is the nesting
  of `Interpreter::run` that `OP_ITERATE` makes; registers, stack and buffers are
  the object's and survive a program. `aborted` is an assertion that failed,
  `undefined` a read of memory that does not hold what is read.
- `LiquidOptimizer` is a function from a tree and the store to a tree.

### LiquidEngine, TemplateEngine, MCEngine

The composition: a host asks (`Ask`); the tree may be optimized
(`OptimizeTemplate`); then it is rendered (`RenderByTree`) or compiled
(`CompileAndRun`) and run (`MachineStep`, `MachineDone`). The compiler's drop
frames and the machine's registers go from one request to the next, and the
store changes with each. `TemplateEngine` says what is promised: one answer, a
function of the template and the store, and an effect on the store.

Where the code does not keep that promise the composition has a guard, each with
the line that makes it necessary (section 6): `Optimizable` (no `case`, no name
that the store has and the template binds), `Compilable` (no body that the
optimizer folded into text). `Sound` are the templates for which the machine is
expected not to stop; the instance also has `Equality` and `Slice`, which stop it.

### LiquidVariables, VariableStore, MCVariables

Here variables are cells at addresses, each owned by the list or the map that
holds it. `GetVariable`, `SetVariableAt`, `InjectInto`, `CreateClone` and `Delete`
are the resolver's and the renderer's functions on that heap, with every cell they
create and free; an address is a name that is never given again, new cells come
behind all that are there, and a clone is the cells that it copies, moved there.
`Stores` are heaps that the host has built, numbered with owners before what they
own. `loops` holds the raw pointers of the loops that run, which
become `Dangling` when their cell is freed. Steps are tags (`AssignValue`,
`AssignArray`, `Increment`, a read through a dot filter, the steps of a loop) and
the host's assignments between renders. What the code makes undefined - a copy of
a null in a gap, reading on through one (`cppvariable.h:281`), a store before the
beginning of an array, a step of a loop whose list was freed - ends the behaviour as
`undefined`. Beside the heap runs `json`,
the same store behind the RapidJSON resolver. `VariableStore` is what assignment
promises: one value, changed at one path; the heap refines it by `ValueAt`. What is
assigned there is a literal, a copy of what is at a path or of an element of a list
(`ElementsAt`), or a list of two of these. `Leads` is for a loop over `xs[-1]`: its
index was counted when it began, and `xs` may have grown since.

### LiquidResolvers, MCResolvers

One loop: `ForNode` computes the window, one of four resolvers iterates, the
body's callback says when to stop. The four are written side by side with their
own bounds, directions, signs and ideas of a break. `ReadBack` is what the body
sees of a scalar after the resolver's create and get functions. A read one past the
list ends the behaviour as `undefined`; `ReadsPast` says of which windows it does, and
`NativeLoops` that those never end and all others do, having visited their window.
`CommonLoop` are the loops on which the four can agree. Counting down, breaking, on an
empty list or short of its end with an offset the bindings go their own ways
(`liquid.c:117`, `XS.xs:206`).

### LiquidBindings, MCBindings

A Ruby script that has one object of each class. It makes, uses and lets go of
them, registers procs and is called back, to do the same inside; the collector
takes what is unreachable at any moment (`Collect`, `CollectProc`). An object of
the engine points to another (`on`), and node types are used by templates and
programs (`uses`); `frames` are the engine's calls under way. `Raise` is a Ruby
exception, which leaves C++ frames by `longjmp`. Whatever the script does that
leads to trouble is recorded in `broke`, and the main invariant says that trouble
has no other cause: `RulesSuffice` is the documentation that the extension lacks.
It says what a script must not do, in eight rules. Each kind of trouble is reached in
the instance by breaking its rule, but for the interpreter's mode seen by a tree
(`"mode"`): that takes a template with the script's tags and a program without any,
hence two templates, which are too many states. There the theorem says what TLC
cannot.

### Proof modules

`LiquidRenderer_proofs`, `LiquidRenderer_safety`, `LiquidParser_proofs`,
`LiquidInterpreter_proofs`, `LiquidVariables_proofs`, `LiquidVariables_values`,
`LiquidResolvers_proofs` and `LiquidBindings_safety`: see section 5.

## 4. The runs

| run | question | instance |
|---|---|---|
| `loops` | scoping, indices, controls, the depth counter, errors and the renderer's state between renders | two nested loops binding one name, with break and continue; a loop over bodies nested deeper than `MaxDepth`; eleven windows, three of which reach past the array; all render calls |
| `reentrant` | types and termination, nothing assumed of the host | such templates and one with a nested loop; one call per tag; `DepthModulus` 4, so that the counter wraps; errors thrown through host tags, `renderArgument` called from them |
| `promise` | does it render what the semantics says? | the templates above, and capture, assign, cycle, an empty clause and host tags in loops; the six windows at the edges of a sequence |
| `parse` | is every template parsed to its tree, is anything accepted that was not parsed whole, and does a tree written out read back? | expressions of up to two operators with signs, paths, arrays, filters, groups; outputs, assignments, raw, branches, loops with qualifiers, a liquid tag; what remains of each after one mistake; all texts of up to five tokens; a depth limit far away and one of 4 that is met |
| `engine` | do tree, optimized tree and program answer alike, request after request? | six templates that between them have every tag and operator class the machine renders right, two that stop it; two stores under which conditions go both ways and loops run twice, once and not at all; two programs in a row |
| `pipeline` | do filters obey their laws on each other's results? | chains of two out of some sixty filter calls, on all texts of up to two characters over a letter of either case, a blank and a `<`, on those of three without the capital, on texts read as integers, doubles and colors, on numbers of either sign, lists and nil |
| `variables` | who owns each variable, does a loop stay on its list, and is an assignment what it says? | a store of a list with a list in it; paths to each, past its end, before its start, on through a null that fills a gap, and to nothing; two tags in a row with a loop open |
| `resolvers` | what does one loop visit in each of four resolvers, where does it read past the list, and does it end? | lists of up to three scalars, offsets -1 to 4, limits -2 to 4, either direction, a break at any visit; a `size_t` of four bits |
| `bindings` | what can a script do that goes wrong? | an object of every class, two procs, calls nested two deep, one rule broken |
| `precedence`, `stops`, `compiled_filter` | see section 6 | |

Bounds of the renderer. Two iterations are enough to tell the first from the last
and an element from its successor; two nested loops that bind the same name are
what scoping can confuse; `MaxDepth` 2 to 4 puts the limit within reach of
templates of twenty nodes; `MaxFetch` bounds the calls of one host tag and
`MaxStack` the re-entrant nesting (a host could nest renders for ever, as the
depth limit is off when `renderArgument` resets it). No host tag of `loops` renders
again: what `DepthAccounting` and `ErrorSticks` say of such tags rests on the
theorems `DepthCounts` and `ErrorsStick` alone. The theorems of section 5
hold without these bounds, except that `MaxFetch` and `MaxStack` are constants of
them.

Of the parser: two operators are what its tests have and three are where it goes
wrong (run `precedence`). A token too few or out of order is how a stack machine
loses its place: every handler then meets tops of the stack it was not written
for.

Of the engine: what one request leaves to the next shows in the second, so two
programs in a row (`MaxRenderings`) suffice, with any number of trees rendered
between. `ShortStringSize` is 64 in the code and 8 here: no text of the instance
is longer than either. `MaxRange` is the longest range that is built.

Of the pipeline: a text of three characters has a first, a middle and a last; two
occurrences of a pattern may touch or overlap; two filters are one whose result
another reads. Of the variables: two assignments are enough for the second to act
on what the first made or freed, with a loop entered before, between or after
(`MaxLoops` 1); three break no new case and take too long. Of the resolvers: three
elements, and offsets and limits one past each edge; `Word` 16 keeps the
unsigned wrap beyond every index that a loop of `MaxVisits` reaches, and a loop
that would visit more than `MaxVisits` is the one that does not end. Of the
bindings: `MaxBroken` 1 isolates each rule, since what is wrong only when two are
broken is the fault of either; the depth `Word` 4 wraps within reach.

`CHECK_DEADLOCK` is off where the system may really stop: a chain of filters is at
its end, a loop is over, a machine has aborted, a script may do nothing more, a
store whose bounded number of tags has been spent. An idle renderer can always
render, and the parser always parse: there it is on.

Fairness. `LiquidRenderer.FairSpec` has weak fairness of `Engine`, the renderer's
own steps: it runs on its caller's thread and nothing in it waits. It has weak
fairness of `UserReturn`: a host's tag returns (what it may call before is bounded
by `MaxFetch`). Nothing is assumed of `Host`: no render need ever be asked for.
`LiquidEngine.EngineSpec` has weak fairness of `MachineStep` and `MachineDone`:
`Interpreter::run` is a loop on its caller's thread; requests need not be made or
answered. `LiquidResolvers.Spec` has weak fairness of `Next`, the loop of
`iterate`. The others state safety only.

Each property names, in `PROJECT.json`, a mutation of the model that the run
refutes; the mutated forms stand before the definition they mutate.

## 5. What is proved

### The renderer

For all trees, windows, hosts and bounds that satisfy `AstAssumption` and
`BoundsAssumption`:

| theorem | says | besides the assumptions |
|---|---|---|
| `TypeCorrect` | `Spec => []TypeOK` | |
| `IndexInStep` | `Spec => []IndexTracksElement` | |
| `LoopsInSequence` | `Spec => []LoopStaysInSequence`: a loop is at an element of its sequence or, in a window that reaches past an array of the store, at the first place after its end (`cppvariable.h:317`), and nowhere else | |
| `BreaksStayInLoops` | `Spec => []NoPendingControl` | breaks and continues are in loop bodies, `NoNestedThrow` |
| `PendingUnwinds` | `Spec => []PendingOnlyUnwinds` | the same |
| `ErrorsStick` | `Spec => ErrorSticks` | `NoNestedThrow`, `NoNestedArgument` |
| `DepthCounts` | `Spec => []DepthAccounting` | the two are part of the property |
| `DropsAreLoops` | `Spec => []DropsMirrorLoops` | `NoNestedThrow` is part of the property |
| `IdleRendererIsClean` | `Spec => []IdleIsClean` | `NoNestedThrow` |

`NoNestedThrow` says that the host's tags do not let an error of a nested render
fly through the render around it, `NoNestedArgument` that they do not call
`renderArgument`. Without them the code does not keep these promises (section 6).

The argument. `TypeInv` strengthens `TypeOK` with the shape of the stack
(`Stacked`): the bottom frame is `outer`, no frame's node is of another kind
than the frame, a loop's position lies in its window, and a host's turn has a
`user` frame on top; without it nothing could be said of `Top`. Lemmas state
once what pushing, popping and replacing the top do to a typed stack. For the
safety theorems a second family of lemmas classifies each action by what it does
to the frames of a given set of kinds (carries, pushes, pops or clears them);
each invariant then only looks at the actions that touch its frames:

- `HostInv`: only the bottom frame is an `outer` render, an idle renderer is
  not `internalRender`, and without `render` among a host's calls no render
  nests.
- `ControlInv`: a pending control, and a node of a loop body about to be
  entered, have a `for` frame on the stack; so has every frame of a loop body,
  at or below itself. This is inductive because every node between a `break`
  and its loop is in the loop's body; an idle renderer has no frames, hence no
  pending control.
- `RenderInv`: while a render runs `internalRender` is set, so that no frame
  above the bottom starts afresh: after an error of this render nobody resets
  it.
- `DepthInv`: `depth` lies between the number of `concat` frames and `MaxDepth`,
  and equals that number without an error; the equality alone is not
  inductive, as `AbandonConcat` drops a frame and leaves the depth.
- `DropsInv`: for each name, its drops are those of the
  loops of the stack under that name, all of them, inner after outer. The property
  compares the whole table with the whole stack; the invariant is stated per name,
  because a loop enters two names, `forloop` and its variable, and every other
  name's drops are then compared with a stack that has the same loops. An idle
  renderer has no frames, hence no drops.

### The parser

For every context, every text and every setting that satisfy `ContextAssumption`
and `NamesAssumption` (the lexer makes no word of a bracket, nor of text, and no
name is empty):

| theorem | says |
|---|---|
| `StopsReported` | `Spec => []StopsAreReported`: for texts whose tags are named, a handler that stops the lexer leaves an error or an open node behind, and `parse` does not return the tree of half a text |
| `StackStands` | for all texts, also of `parseArgument`: the stack is never empty, so that `nodes.back()`, which every handler reads first, is there |
| `BlocksMatched` | `Spec => []BlocksMatch`: a text whose tags are named is accepted only if each tag that encloses others was ended by its own end word, the innermost first |

The argument (`LiquidParser_proofs`). `popNodeUntil` stops silently when it has
emptied the stack to its bottom; a lexer stopped there is not told from one that
read all (`parser.cpp:504-534, 668`). So it has to be shown that inside a block a
node of the type that is looked for is always on the stack, unless an error was
noted. `Blocks` is the stack between blocks: concatenations and open tags only.
`Opens(s, i, base)` is the stack in a block: below node `i` as between blocks, `i`
the tag or the output, `i + 1` its arguments, above that only nodes that neither a
tag nor an output contains itself. It is not inductive alone: a bracket closed
when no bracket is open pops to the nearest dereference, a comma gives a slot to the
arguments only if they can keep one (`Ready`, `HasKids`). For each of the handlers
of a block it is shown that it leaves the block open or stops with a report
(`Answers`), for the ends of blocks that they lead back between blocks or report
(`Closes`); `Somewhere` joins the places of a text.

`BlocksMatch` compares the stack with a second one that is kept for the text alone
(`Unended`: a tag that encloses others is pushed by its name, an end word takes its
own tag off). Between blocks the nodes are a body for the text and then, for each
tag of that stack, the tag and its body (`Between`), so that one node left, which is
what `parse` demands, means that no tag is open. This is not inductive either, as a
name is read before its block is over: `Leaves` says which stack a block leaves, by
its kind. A tag that opens a block joins the stack at its name and is under its own
arguments until `%}`; an intermediate (`else`) replaces a body and changes no tag;
an end word takes its tag off the text's stack at once and off the parser's stack at
`%}`. That no argument in between touches the nodes below is the `base` of `Opens`.

What repeated pops do to a stack is an induction over their number. The provers
cannot instantiate the library's induction theorems; `Counting` states induction of
a set of numbers instead, which they can, and `PopsKeep` uses it with the set of the
numbers of pops after which the stack is a beginning of what it was.

### The machine

`StaysInCode` (`LiquidInterpreter_proofs`): `Spec => []TypeOK`, for every set of
programs that are `WellFormed` (the assumption `ProgramsAssumption`): opcodes are
known, jump targets and pool references lie inside the program, and the last
instruction is an exit. `TypeOK` is more than types: the instruction pointer, and
that of every nested run, is inside the code, and never between programs. It is
inductive as it stands once each instruction is shown to move the pointer to the
next instruction or to its operand; the lemmas do that per group of opcodes. What
it shows of the compiler is the assumption: TLC evaluates `WellFormed` on the
programs of the `engine` run.

### The variables

For every set of stores, paths and literals that satisfies `VariablesAssumption`, and
any number of tags and nested loops:

| theorem | says |
|---|---|
| `HeapForest` | `Spec => []HeapIsForest`: one owner, which is there as long; nothing in itself |
| `LoopsStay` | `Spec => []LoopsStayOnTheirLists` |
| `KnownLeaks` | `Spec => LeaksAreKnown` |
| `StoreImplemented` | `Spec => ImplementsStore`: the heap refines `VariableStore` |
| `ResolversAgreeAlways` | `Spec => ResolversAgree` |

The assumption says what a store is: a heap of scalars, lists (which may have null
pointers) and maps with distinct keys, a forest below its root, laid out with owners
before what they own, which any forest can be.

The argument (`LiquidVariables_proofs`). `Sound` is the inductive form of a forest:
what a cell holds lies behind it (`Descends`) and is held there only (`OwnedOnce`).
New cells come last and are stored in cells that were there, so the order survives,
and it says in one step what `IsForest` says by way of `Reach`. A tag then does two
things to the heap. `Injected`: it grows by one cell that nobody owns, with all that
is below it, and the cells that were there are as they were; a clone is that, and so
is an array filled element by element, each copied and freed again. `Placed`: one
unowned cell goes to a slot of one that is there, and what was in the slot is freed
with all that it reaches, which by `OwnedOnce` nobody outside holds. `Assigned` is
what an assignment can be of these: refused, or grown and placed, with a copy lost
when the slot is one of a list.

For the loops, a path that counts from the start and leads to a cell is its only name
(`OneName`): two such paths to one cell end in the same slot of the same owner. So a
cell that is placed or freed at the end of one path changes no path that does not
pass there (`PlacedPath`), and a negative index is named by what it counts to
(`FromStartLeads`). `LoopSound` says of a loop that its pointers are to cells that are
there or known to be gone, that its list is still as long as it was when the loop
began, and what the property says; the length is what the next step needs to find
its element.

The refinement (`LiquidVariables_values`). The value of a cell is what it has and the
values of what it owns (`ValueIs`). That this defines a value follows from the order of
the addresses, by induction over numbers, from the last cell back; so does
`ValueMoved`: cells that lie in one heap as in another, at other addresses, have the
same values there. Hence a clone has the value of its original, a cell that grew
beside the others changes no value, and what was freed had none that is still read.
`PlacedValue` is the heart: a cell placed at the end of a path changes the values of
the cells on the path, each at the one place where the path goes on, and of no other,
since nothing else owns them (`PlacedBeside`); from the end of the path up, that is
`SetPath`. An array injected element by element is the list of its elements' values.
An assignment may take its value from a loop's variable, which is a raw pointer: that
it is still an element of a list in the store takes another invariant,
`LoopsFound` (`LoopsFoundInductive`): for as long as a loop's list is not freed it is
where its path leads, and so is its element in the list, whatever was assigned since
(`LoopsStayOnTheirLists` asks that nothing was). The RapidJSON store is one value from
the start; that both agree is what the same lemmas leave when the source is read in
both.

### The resolvers

`LoopsAreTyped`: `Spec => []TypeOK`, for every set of lists, windows and word
size. `ElseOnlyIfUnseen`: `Spec => []ElseMeansNothingSeen`. The latter is not
inductive: `else` looks at `idx`, which the callback counts from the offset
while the resolver decides what is visited. The invariant adds `ZeroMeansUnseen`
(an `idx` of zero after a loop means that nothing was visited), which rests on
`idx` never being negative, hence on the offset's sign after clamping.

`NativeLoopsVisit`: `Spec => []NativeLoops`, and `ForwardLoopsVisitTheSame`: `Spec =>
[]ForwardLoopsAgree`. By the C++ and the RapidJSON resolver, in either direction and
up to a break, a loop whose window reaches past the list comes to read one past it,
counting up after the rest of the list unless it breaks there, counting down before
all else; every other loop ends and has visited its window, each element once and in order. In a
`CommonLoop` the body sees the elements of the window whichever of the four resolvers
runs it, and what happens after the last one of the list is where they differ: the
bindings' loops end, those of C++ and RapidJSON read on. The hypothesis `ListsFit`
says that a list is no longer than the visits the model records and that a `size_t`
holds its indices with a sign to spare. `VisitsInv` says of a loop under way that what
it has shown is the beginning of the window, and that its index and its bound are
where the number of visits puts them (`AtIndex`); a loop that ends has shown all of
the window or met its break (`Complete`). Being the beginning of the window is said of
each position, so one more visit is one more position, and no induction over the
window is needed.

### The bindings

For every set of objects, symbols, depth of nesting and number of broken rules
that satisfy `BindingsAssumption`, which asks that calls nest no deeper than the
renderer lets them (`MaxFrames <= MaximumRenderingDepth`) and that the depth's
word holds more than that:

| theorem | says |
|---|---|
| `Types` | `Spec => []TypeOK` |
| `RulesAreEnough` | `Spec => []RulesSuffice` |
| `ProcsAreKept` | `Spec => []ProcsLive` |
| `RendererKnowsItRenders` | `Spec => []InternalMeansRendering` |
| `RendererKnowsHowDeep` | `Spec => []DepthIsRenderings` |
| `WarningsOfOneRendering` | `Spec => []WarningsAreOwn` |

The argument (`LiquidBindings_safety`). `Step` lists the ways in which the state
changes: an object is made, let go of, a call is entered, turned, ended, unwound
and so on. `NextIsStep` shows once that every action is one of them; the parts of
the invariant then look at those only. The parts of `SafeInv`, which is inductive:

- `TypeInv`: `TypeOK` and the sets that it leaves open.
- `FitInv`: an object points to one that was made, of the class it is made with;
  the node types of a template are registered with its context, and so are those
  that a call under way has yet to call.
- `Sheltered`: if nothing was let go of too early, all that can be reached is not
  freed and points only to what the script holds. This is why the collector can
  be ignored: what a rendering reads is at most two pointers away from its own
  renderer and template.
- `RenderInv`: `InternalMeansRendering` needs that a call remembers in `nested`
  whether another rendering of the same renderer is below it (`NestedMeansInside`).
- `DepthIsRenderings`, which with the assumption on the depth shows that no
  rendering meets the limit unless a rule was broken.
- `RulesInv`: what keeping one of the other rules preserves: no type is replaced,
  no program calls the host, no renderer at work is in the interpreter's mode,
  none has a stale drop.

The rules are as they are because of the proof. An earlier form of the rule about
programs only forbade to run one during a rendering: `Straight` then fails for a
program that runs during an optimization, and after an exception that left
`internalRender` set, since a later render does not reset the mode. The instance
that TLC checks has one template, too few to reach either.

### Only model-checked

Of the renderer: termination (`RendersReturn`), the refinement of `RenderPromise`,
whose semantics is a recursive operator. Of the parser: what its trees are
(`ParsesAsWritten`, `NothingLostSilently`, `UnparsedReadsBack`), as they are recursive
data. The tree semantics, the compiler, the optimizer and the filters, which are
recursive operators; hence the refinement of `TemplateEngine` and the laws of the
pipeline. Liveness everywhere.

## 6. Where code and documents disagree

Three by a run:

- `precedence`: before an operator opens, one operator that binds as tightly is
  closed, never a second (`parser.cpp:433-442`): `a - b * c - d` is
  `a - (b * c - d)`.
- `stops`: a tag that does not begin with its name, or does not end where its
  arguments do, stops the lexer and reports nothing (`parser.cpp:583, 589, 616`):
  `{% endif | upcase %}`, `{% endfor reversed %}`, `{% ( break ) %}`,
  `{% liquid echo a %}`. `parse` returns the tree of what came before.
- `compiled_filter`: a filter's code pushes one slot per argument and pops two
  (`compiler.cpp:963-975, 633`); a filter of two arguments leaves one, and the
  assertion at the program's end (`compiler.cpp:884`) fails.

The others were met while modelling. The models have them as they are in the code;
where a property says less than one would like, it is because of one of these.

*Renderer.* A `break` outside loops is never cleared (`renderer.cpp:41-49` resets
everything else) and stops the next template. A concatenation with one child is
not counted while that child renders (`context.cpp:103-105`), so the depth limit
does not bound such nesting. `renderer.cpp:66` throws `Renderer::Error`,
`interface.cpp:206` catches `Renderer::Exception`. An error thrown through a
host's tag leaves `internalRender` set and the drops in place.
`maximumMemoryUsage` and `maximumRenderingTime` (`renderer.h:95-100`) are never
tested. `renderTrimmed` tests the index for being a space, not the character
(`renderer.cpp:73-76`).

*Tags.* The `else` of a loop with a positive offset is not rendered
(`dialect.cpp:535, 596`). `rindex` and `rindex0` are exchanged
(`dialect.cpp:551-554`). `increment` and `decrement` use the variable as the store
they write to (`dialect.cpp:118`): they change nothing and leak. The
validation of `assign` (`dialect.cpp:47-62`) never runs on an assignment that was
parsed, and would reject each. In the strict dialect the unary minus of `assign`
replaces the binary one (`dialect.cpp:2320-2321`). `Context(PERMISSIVE)`
implements the strict dialect (`context.cpp:149`).

*Parser and lexer.* An end word in a liquid tag leaves the parser in the arguments
of the tag it ended (`parser.cpp:271`): the line after it is read as those, which is
an error. The text
of a raw tag is dropped when it has two bytes (`lexer.h:486`; left out of the texts
of `parse`). The depth limit is not tested when a variable, an operator or a filter
is pushed, so a chain of operators is parsed to any depth (`parser.h:124` says
otherwise). `{% for i in a "x" limit: 2 %}` loses its `"x"` (`parser.cpp:419`).
`unparse` has no case for literals, qualifiers, arrays and dot filters
(`parser.cpp:819`), writes of several outputs only the last (741), and for an
unknown filter writes its children (807-812); a stray comma and an operator after
a filter without arguments make trees it cannot write (50, 443).

*Compiler and machine.* `==` and `!=` read the children of operands that have none
(`dialect.cpp:862`). The free register stays at 1 after a comparison
(`dialect.cpp:71`) and a comparison in a loop fetches the wrong slot. A loop's
variable over a list reaches operators as a pointer and compares as nil. Falsiness
settings are ignored (`compiler.cpp:834, 844`). Four registers and the stack's size
are never checked. A loop's drop frames leak into later compilations
(`compiler.cpp:195`). Strings of 64 bytes fail an assertion (`compiler.cpp:486,
491`). `assign` hands the store a variable it does not clone (`compiler.cpp:712`).
The string pool is keyed by hash alone (`compiler.cpp:103`). Literals, arrays,
`cycle`, `increment` and `raw` have no code that runs. Text that is not part of a
concatenation is moved and never output (`compiler.cpp:164`).

*Optimizer.* A variable is replaced by the store's value where the template binds it
(`context.cpp:13`); a `case` takes its first `when` (`dialect.cpp:343`); an `else` is
dropped (219); `unless` with `elsif` inverts the elsif (202).

*Variables.* `CPPVariable::iterate` ends one past the array for an offset without a
limit, and for a limit longer than the list (`cppvariable.h:317`), as RapidJSON's does
(`rapidjsonvariable.h:122`); the bindings' do not. What follows a null that fills a gap
is read through the null (`cppvariable.h:281`).
`setArrayVariable` copies what it is given and leaves the given to nobody
(`cppvariable.h:300`), with a negative index out of range writes outside the array
(298), and leaves nulls in a gap that a copy dereferences (110). A value that a dot
filter on a path injects is leaked (`renderer.cpp:236`), as is one that a resolver
refuses (`dialect.cpp:42`).

*Filters.* `strip` and `rstrip` of an empty text read the character before its first
(`dialect.cpp:1487, 1507`); so does `rstrip` of what `lstrip` leaves of blanks. A text
is divided as a double, a number as an integer (`dialect.cpp:14, 1066`): `"7"` and 7
divided by 2 are 3.5 and 3.

*Web dialect.* `getHSL` divides by zero on grey (`web.cpp:227`). `printHex` shifts by
the width of the type for its first digit and loses the last (184); `parseHex` gives
`std::stoul` the `#` in front, which it refuses (177).

*Bindings.* The code of a call with an empty node dereferences null and a renderer
that once ran a program stays in interpreter mode (`compiler.cpp:894`); making an
optimizer resets the depth of its renderer (`optimizer.cpp:7`); a proc of more than
one argument writes past an array of five (`liquid.c:701`); a tag's proc that returns
no string raises through the engine's frames. Ruby's and Perl's loops ignore what a
reversed window means and compare signed with unsigned (`XS.xs:222`).

## 7. Not modelled

- The lexer's scanning of characters into tokens, `parseAppropriate` (which chooses
  between `parse` and `parseArgument`) but for the bindings' use of it, lines and
  columns of errors.
- Doubles that are no whole number of eighths, or a thousand and more; with them dates
  and the arithmetic of hue, saturation, lightness and alpha; 64-bit widths and their
  overflow, except the depth counter and the `size_t` of the resolvers; collisions of
  hashes.
- Memory and time limits, which the code never tests; warnings' wording.
- `returnValue`, one member for all host tags: the model gives each tag its own
  result, as a tag that always sets one has.
- The copying of texts into the buffers of the C interface's callers.
- The lifetimes of the Perl objects; `liquidcpp-dir`, which calls a method that does
  not exist; the disassembler; the minifiers, vendored from another project; the
  portability header and the tests.
- Malformed calls of the C interface (null templates, foreign contexts): a host keeps
  its types.

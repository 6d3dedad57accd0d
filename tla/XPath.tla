-------------------------------- MODULE XPath --------------------------------
(***************************************************************************)
(* How an XPath location path is evaluated (crates/script/js/25_xpath.js): *)
(* compilePath() merges `//` with the step behind it where the predicates  *)
(* allow it, reduceInputs() walks following:: and preceding:: of one node  *)
(* instead of all, steps that keep the order are not sorted again.  The    *)
(* reference is the recommendation's set semantics without any of that.    *)
(* The page writes a path step by step over a tree that is picked at first.*)
(* Numbers are nodes in document order: the even ones tree nodes, 0 the    *)
(* document, and v + 1 the attribute `x` of the element v.                 *)
(***************************************************************************)
EXTENDS Integers, Sequences, SequencesExt, FiniteSets, FiniteSetsExt

CONSTANTS
  Shapes,     \* the trees: what each node but the document is the child of
  Kinds,      \* and what it is: "x", "y" (an element) or "t", "u" (a text)
  Steps,      \* the steps the page may write; `//` is AnyDepth
  MaxSteps    \* how many of them, behind a leading `//`

AnyDepth == [axis |-> "descendant-or-self", test |-> "node", preds |-> << >>]

VARIABLES
  xParent, xKind,  \* the tree
  xAttr,          \* the elements that have an attribute
  xContext,       \* the context node
  xPath           \* the steps written so far

pathVars == <<xParent, xKind, xAttr, xContext, xPath>>

StepTree == DOMAIN xParent \union {0}
Elements == {v \in DOMAIN xKind : xKind[v] \in {"x", "y"}}
IsAttr(v) == v % 2 = 1
Sorted(S) == SetToSortSeq(S, LAMBDA a, b : a < b)

StepInit ==
  /\ xParent \in Shapes /\ xKind \in [DOMAIN xParent -> Kinds]
  /\ \A v \in DOMAIN xParent : xParent[v] = 0 \/ xParent[v] \in Elements
  /\ xAttr \in {{}, {Max(Elements)}}
  /\ xContext \in {0} \union {v + 1 : v \in xAttr}
  /\ xPath = << >>

Write(s) ==
  /\ Len(xPath) < (IF xPath # << >> /\ xPath[1] = AnyDepth THEN MaxSteps + 1 ELSE MaxSteps)
  /\ xPath' = Append(xPath, s)
  /\ UNCHANGED <<xParent, xKind, xAttr, xContext>>
StepNext == \E s \in Steps \union {AnyDepth} : Write(s)
StepSpec == StepInit /\ [][StepNext]_pathVars

-----------------------------------------------------------------------------
(* The tree, as the engine tells it.                                       *)
Kids(v) == Sorted({c \in DOMAIN xParent : xParent[c] = v})
Siblings(v) == IF v = 0 THEN {} ELSE {c \in DOMAIN xParent : xParent[c] = xParent[v]}
Ups(v) == LET up[w \in StepTree] == IF w = 0 THEN << >> ELSE <<xParent[w]>> \o up[xParent[w]] IN up[v]
Down(v) == LET down[w \in StepTree] == FlattenSeq([i \in DOMAIN Kids(w) |-> <<Kids(w)[i]>> \o down[Kids(w)[i]]]) IN down[v]
(* stringValue(): the texts below a node; attributes say "t".              *)
Texts(v) ==
  LET texts == SelectSeq(<<v>> \o Down(v), LAMBDA w : w # 0 /\ xKind[w] \in {"t", "u"})
  IN IF IsAttr(v) THEN <<"t">> ELSE [i \in DOMAIN texts |-> xKind[texts[i]]]

Passes(test, v) ==
  \/ test = "node"
  \/ v # 0 /\ ~IsAttr(v) /\ xKind[v] \in (CASE test = "text" -> {"t", "u"} [] test = "*" -> {"x", "y"} [] OTHER -> {test})

FollowingNodes(v) == FlattenSeq([i \in DOMAIN (<<v>> \o Ups(v)) |->
  LET after == Sorted({c \in Siblings((<<v>> \o Ups(v))[i]) : c > (<<v>> \o Ups(v))[i]})
  IN FlattenSeq([j \in DOMAIN after |-> <<after[j]>> \o Down(after[j])])])
PrecedingNodes(v) == FlattenSeq([i \in DOMAIN (<<v>> \o Ups(v)) |->
  LET before == Reverse(Sorted({c \in Siblings((<<v>> \o Ups(v))[i]) : c < (<<v>> \o Ups(v))[i]}))
  IN FlattenSeq([j \in DOMAIN before |-> Reverse(<<before[j]>> \o Down(before[j]))])])

(* collect(): the nodes on the axis, nearest first.                        *)
OfNode(axis, v) ==
  CASE axis = "child" -> Kids(v)
    [] axis = "descendant" -> Down(v)
    [] axis = "descendant-or-self" -> <<v>> \o Down(v)
    [] axis = "self" -> <<v>>
    [] axis = "parent" -> IF v = 0 THEN << >> ELSE <<xParent[v]>>
    [] axis = "ancestor" -> Ups(v)
    [] axis = "ancestor-or-self" -> <<v>> \o Ups(v)
    [] axis = "following-sibling" -> Sorted({c \in Siblings(v) : c > v})
    [] axis = "preceding-sibling" -> Reverse(Sorted({c \in Siblings(v) : c < v}))
    [] axis = "following" -> FollowingNodes(v)
    [] axis = "preceding" -> PrecedingNodes(v)
    [] OTHER -> << >>

(* collectFromAttr().                                                      *)
OfAttr(axis, v) ==
  CASE axis \in {"self", "descendant-or-self"} -> <<v>>
    [] axis = "parent" -> <<v - 1>>
    [] axis = "ancestor" -> <<v - 1>> \o Ups(v - 1)
    [] axis = "ancestor-or-self" -> <<v, v - 1>> \o Ups(v - 1)
    [] axis = "following" -> FollowingNodes(v - 1)
    [] axis = "preceding" -> PrecedingNodes(v - 1)
    [] OTHER -> << >>

Collect(step, v) ==
  IF step.axis = "attribute" THEN IF v \in xAttr /\ step.test \in {"x", "*", "node"} THEN <<v + 1>> ELSE << >>
  ELSE SelectSeq(IF IsAttr(v) THEN OfAttr(step.axis, v) ELSE OfNode(step.axis, v), LAMBDA w : Passes(step.test, w))

DocOrder(s) == Sorted(Range(s))
Reverses(step) == step.axis \in {"ancestor", "ancestor-or-self", "preceding", "preceding-sibling"}
\* mutant of KeepsOrder
KeepsOrderDown(step) == step.axis \in {"attribute", "self", "child"}
KeepsOrder(step) == step.axis \in {"attribute", "self"}

-----------------------------------------------------------------------------
(* reduceInputs().                                                         *)
Innermost(input) == FoldLeft(LAMBDA best, v : IF v = best \/ best \in Range(Ups(v)) THEN v ELSE best, input[1], input)
Reduced(step, input) ==
  IF step.preds # << >> \/ step.axis \notin {"following", "preceding"} \/ \E v \in Range(input) : IsAttr(v) THEN input
  ELSE IF step.axis = "preceding" THEN <<Last(input)>> ELSE <<Innermost(input)>>

RECURSIVE StepFrom(_, _), EvalStep(_, _)
(* compare() of two node-sets, by the string-values of their nodes.        *)
Compare(op, x, y) ==
  \E a \in Range(x), b \in Range(y) : IF op = "=" THEN Texts(a) = Texts(b) ELSE Texts(a) # Texts(b)
(* What a predicate says of the node at a position of so many.             *)
Holds(pred, v, pos, size) ==
  CASE pred.k \in {"num", "pos"} -> pos = pred.n
    [] pred.k = "last" -> pos = size
    [] pred.k = "has" -> StepFrom(pred.a, v) # << >>
    [] OTHER -> Compare(pred.k, StepFrom(pred.a, v), StepFrom(pred.b, v))
ApplyPredicate(list, pred) ==
  LET kept == {i \in DOMAIN list : Holds(pred, list[i], i, Len(list))}
  IN [i \in 1 .. Cardinality(kept) |-> list[Sorted(kept)[i]]]
StepFrom(step, v) ==
  LET list == FoldLeft(ApplyPredicate, Collect(step, v), step.preds) IN IF Reverses(step) THEN Reverse(list) ELSE list
EvalStep(step, input) ==
  LET in == IF Len(input) > 1 THEN Reduced(step, input) ELSE input
      out == FlattenSeq([i \in DOMAIN in |-> StepFrom(step, in[i])])
  IN IF Len(in) = 1 \/ KeepsOrder(step) THEN out ELSE DocOrder(out)

(* usesPosition() and positional().                                        *)
RECURSIVE UsesPosition(_)
UsesPosition(pred) ==
  \/ pred.k \in {"pos", "last"}
  \/ pred.k \in {"has", "=", "!="} /\ \E s \in {pred.a, pred.b} : \E p \in Range(s.preds) : UsesPosition(p)
Positional(pred) == pred.k = "num" \/ UsesPosition(pred)

(* mergeDescendantSteps().                                                 *)
RECURSIVE Merged(_)
Merged(steps) ==
  IF Len(steps) < 2 THEN steps
  ELSE IF steps[1] = AnyDepth /\ steps[2].axis = "child" /\ ~\E p \in Range(steps[2].preds) : Positional(p)
       THEN <<[steps[2] EXCEPT !.axis = "descendant"]>> \o Merged(SubSeq(steps, 3, Len(steps)))
       ELSE <<steps[1]>> \o Merged(Tail(steps))

Evaluate == FoldLeft(LAMBDA input, s : IF input = << >> THEN input ELSE EvalStep(s, input), <<xContext>>, Merged(xPath))

-----------------------------------------------------------------------------
(* The recommendation: the axes as sets, each node filtered by itself with *)
(* its position in the order of the axis, and the union of it all.  The    *)
(* axes of an attribute that go over the document leave out what is below  *)
(* its element, as in Blink.                                               *)
Above(v) == IF IsAttr(v) THEN {v - 1} \union Range(Ups(v - 1)) ELSE Range(Ups(v))
Below(v) == {w \in DOMAIN xParent : v \in Above(w)}
OnAxis(axis, v) ==
  CASE axis = "child" -> {w \in Below(v) : xParent[w] = v}
    [] axis = "descendant" -> Below(v)
    [] axis = "descendant-or-self" -> Below(v) \union {v}
    [] axis = "self" -> {v}
    [] axis = "parent" -> IF Above(v) = {} THEN {} ELSE {Max(Above(v))}
    [] axis = "ancestor" -> Above(v)
    [] axis = "ancestor-or-self" -> Above(v) \union {v}
    [] axis = "following-sibling" -> {w \in DOMAIN xParent : ~IsAttr(v) /\ v # 0 /\ w > v /\ xParent[w] = xParent[v]}
    [] axis = "preceding-sibling" -> {w \in DOMAIN xParent : ~IsAttr(v) /\ v # 0 /\ w < v /\ xParent[w] = xParent[v]}
    [] axis = "following" -> {w \in StepTree : w > v /\ w \notin Below(v) /\ (IsAttr(v) => w \notin Below(v - 1))}
    [] axis = "preceding" -> {w \in StepTree : w < v /\ w \notin Above(v)}
    [] axis = "attribute" -> IF v \in xAttr THEN {v + 1} ELSE {}
    [] OTHER -> {}
PassesOn(step, v) == IF step.axis = "attribute" THEN step.test \in {"x", "*", "node"} ELSE Passes(step.test, v)

RECURSIVE Selects(_, _)
Says(pred, v, pos, size) ==
  CASE pred.k \in {"num", "pos"} -> pos = pred.n
    [] pred.k = "last" -> pos = size
    [] pred.k = "has" -> Selects(pred.a, v) # {}
    [] OTHER -> \E a \in Selects(pred.a, v), b \in Selects(pred.b, v) : IF pred.k = "=" THEN Texts(a) = Texts(b) ELSE Texts(a) # Texts(b)
Selects(step, v) ==
  LET Nearer(a, b) == IF Reverses(step) THEN a > b ELSE a < b
      Filtered(S, pred) == {w \in S : Says(pred, w, Cardinality({u \in S : u = w \/ Nearer(u, w)}), Cardinality(S))}
  IN FoldLeft(Filtered, {w \in OnAxis(step.axis, v) : PassesOn(step, w)}, step.preds)
Reference == FoldLeft(LAMBDA S, s : UNION {Selects(s, v) : v \in S}, {xContext}, xPath)

(* What evaluate() returns is what the recommendation selects, in document *)
(* order and without duplicates, however steps were merged, inputs dropped *)
(* and sorting left out (mergeDescendantSteps, reduceInputs, evalStep).    *)
PathSelects == Evaluate = Sorted(Reference)

-----------------------------------------------------------------------------
(***************************************************************************)
(* Reading an XPath expression (tokenize() and parse() in                  *)
(* crates/script/js/25_xpath.js).  `*` and the words `and` and `div` are   *)
(* names or operators depending on what stands before them; parse() is a   *)
(* recursive descent that builds the tree as it goes.  The reference is    *)
(* the grammar of the recommendation, as the set of trees it derives.      *)
(* The page writes an expression symbol by symbol; spelling, the axes and  *)
(* the other operators, functions and tests are left out.                  *)
(***************************************************************************)

CONSTANTS
  Starts,      \* what the page has written already
  Symbols,     \* and what it adds, of * and div n 1 f ( ) [ ] / // | - = .
  MaxLength    \* how long it gets

VARIABLES
  text   \* the expression, symbol by symbol

ParseInit == text \in Starts
Type(s) == Len(text) < MaxLength /\ text' = Append(text, s)
ParseNext == \E s \in Symbols : Type(s)
ParseSpec == ParseInit /\ [][ParseNext]_text

-----------------------------------------------------------------------------
(* The token before, if it is one of these, wants an operand.              *)
BeforeOperand == {"(", "[", "and", "mul", "div", "/", "//", "|", "-", "="}

(* tokenize(): `f` is a function name; other names before a parenthesis    *)
(* would be functions that do not exist.                                   *)
Token(toks, i) ==
  LET operator == toks # << >> /\ Last(toks) \notin BeforeOperand
      call == i < Len(text) /\ text[i + 1] = "("
  IN CASE text[i] = "*" -> IF operator THEN "mul" ELSE "name"
       [] text[i] \in {"and", "div"} -> IF operator THEN text[i] ELSE IF call THEN "unknown" ELSE "name"
       [] text[i] = "n" -> IF call THEN "unknown" ELSE "name"
       [] text[i] = "f" -> IF call THEN "func" ELSE "name"
       [] OTHER -> text[i]
Tokens == FoldLeft(LAMBDA toks, i : Append(toks, Token(toks, i)), << >>, [i \in DOMAIN text |-> i]) \o <<"eof">>

-----------------------------------------------------------------------------
(* A tree is tagged; a result is the tree and the position behind it, or   *)
(* Wrong, which badExpression() throws.                                    *)
Wrong == <<"wrong", << >>, 0>>
Got(tree, at) == <<"got", tree, at>>
Bad(r) == r[1] = "wrong"
ParseTree(r) == r[2]
At(r) == r[3]
Deep == <<"step", "deep", << >>>>
StartsStep(t) == t \in {"name", "."}

(* binary(): the levels of operators, the loosest first.                   *)
Ops(level) == CASE level = 1 -> {"and"} [] level = 2 -> {"="} [] level = 3 -> {"-"} [] OTHER -> {"mul", "div"}

(* Every rule goes to the others by Parse(rule, what is built already, at). *)
RECURSIVE Parse(_, _, _)
Binary(level, p) == IF level > 4 THEN Parse("unary", 0, p) ELSE Parse("binary", level, p)
ParseBinary(level, p) == LET l == Binary(level + 1, p) IN IF Bad(l) THEN Wrong ELSE Parse("more", <<level, ParseTree(l)>>, At(l))
\* mutant of MoreBinary
MoreBinaryRight(level, l, p) ==
  IF Tokens[p] \notin Ops(level) THEN Got(l, p)
  ELSE LET r == Binary(level, p + 1) IN
       IF Bad(r) THEN Wrong ELSE Got(<<"bin", Tokens[p], l, ParseTree(r)>>, At(r))
MoreBinary(level, l, p) ==
  IF Tokens[p] \notin Ops(level) THEN Got(l, p)
  ELSE LET r == Binary(level + 1, p + 1) IN
       IF Bad(r) THEN Wrong ELSE Parse("more", <<level, <<"bin", Tokens[p], l, ParseTree(r)>>>>, At(r))
ParseUnary(p) ==
  IF Tokens[p] # "-" THEN Parse("union", << >>, p)
  ELSE LET r == Parse("unary", 0, p + 1) IN IF Bad(r) THEN Wrong ELSE Got(<<"neg", ParseTree(r)>>, At(r))
ParseUnion(list, p) ==
  LET r == Parse("path", 0, p)  all == Append(list, ParseTree(r)) IN
  IF Bad(r) THEN Wrong
  ELSE IF Tokens[At(r)] = "|" THEN Parse("union", all, At(r) + 1)
  ELSE Got(IF Len(all) = 1 THEN all[1] ELSE <<"union", all>>, At(r))

Path(start, abs, steps) == <<"path", start, abs, steps>>
ParsePath(p) ==
  LET PathFrom(start, abs, first, q) ==
        LET r == Parse("relative", first, q) IN IF Bad(r) THEN Wrong ELSE Got(Path(start, abs, ParseTree(r)), At(r))
  IN CASE Tokens[p] = "/" /\ ~StartsStep(Tokens[p + 1]) -> Got(Path(<< >>, TRUE, << >>), p + 1)
       [] Tokens[p] = "/" -> PathFrom(<< >>, TRUE, << >>, p + 1)
       [] Tokens[p] = "//" -> PathFrom(<< >>, TRUE, <<Deep>>, p + 1)
       [] StartsStep(Tokens[p]) -> PathFrom(<< >>, FALSE, << >>, p)
       [] OTHER ->
            LET e == Parse("primary", 0, p)
                preds == Parse("predicates", << >>, At(e))
                start == IF ParseTree(preds) = << >> THEN ParseTree(e) ELSE <<"filter", ParseTree(e), ParseTree(preds)>>
            IN IF Bad(e) THEN Wrong ELSE IF Bad(preds) THEN Wrong
               ELSE CASE Tokens[At(preds)] = "/" -> PathFrom(start, FALSE, << >>, At(preds) + 1)
                      [] Tokens[At(preds)] = "//" -> PathFrom(start, FALSE, <<Deep>>, At(preds) + 1)
                      [] OTHER -> Got(start, At(preds))
ParseRelative(before, p) ==
  LET s == Parse("step", 0, p)  steps == Append(before, ParseTree(s)) IN
  IF Bad(s) THEN Wrong
  ELSE CASE Tokens[At(s)] = "/" -> Parse("relative", steps, At(s) + 1)
         [] Tokens[At(s)] = "//" -> Parse("relative", Append(steps, Deep), At(s) + 1)
         [] OTHER -> Got(steps, At(s))
ParseStep(p) ==
  CASE Tokens[p] = "." -> Got(<<"step", ".", << >>>>, p + 1)
    [] Tokens[p] = "name" -> LET preds == Parse("predicates", << >>, p + 1) IN
                             IF Bad(preds) THEN Wrong ELSE Got(<<"step", text[p], ParseTree(preds)>>, At(preds))
    [] OTHER -> Wrong
(* An expression in brackets that close with `close`.                      *)
Inner(close, p) ==
  LET e == Parse("binary", 1, p) IN
  IF Bad(e) THEN Wrong ELSE IF Tokens[At(e)] # close THEN Wrong ELSE Got(ParseTree(e), At(e) + 1)
ParsePredicates(before, p) ==
  IF Tokens[p] # "[" THEN Got(before, p)
  ELSE LET e == Inner("]", p + 1) IN IF Bad(e) THEN Wrong ELSE Parse("predicates", Append(before, ParseTree(e)), At(e))
ParsePrimary(p) ==
  CASE Tokens[p] = "1" -> Got(<<"num">>, p + 1)
    [] Tokens[p] = "(" -> Inner(")", p + 1)
    [] Tokens[p] = "func" ->
         IF Tokens[p + 2] = ")" THEN Got(<<"call", << >>>>, p + 3)
         ELSE LET e == Inner(")", p + 2) IN IF Bad(e) THEN Wrong ELSE Got(<<"call", <<ParseTree(e)>>>>, At(e))
    [] OTHER -> Wrong

Parse(rule, built, p) ==
  CASE rule = "binary" -> ParseBinary(built, p)
    [] rule = "more" -> MoreBinary(built[1], built[2], p)
    [] rule = "unary" -> ParseUnary(p)
    [] rule = "union" -> ParseUnion(built, p)
    [] rule = "path" -> ParsePath(p)
    [] rule = "relative" -> ParseRelative(built, p)
    [] rule = "step" -> ParseStep(p)
    [] rule = "predicates" -> ParsePredicates(built, p)
    [] OTHER -> ParsePrimary(p)

Parsed == LET r == Parse("binary", 1, 1) IN IF Bad(r) THEN {} ELSE IF Tokens[At(r)] # "eof" THEN {} ELSE {ParseTree(r)}

-----------------------------------------------------------------------------
(* The grammar: the trees a rule derives for the tokens from i to before j *)
(* (a list of steps is a rule, and an expression with its predicates).     *)
T(i) == Tokens[i]
Ends(i, j, ends) == {x \in i + 1 .. j - 2 : T(x) \in ends}
Slashed(k) == IF T(k) = "//" THEN <<Deep>> ELSE << >>
Filtered(f) == IF f[2] = << >> THEN f[1] ELSE <<"filter", f[1], f[2]>>
RECURSIVE Derives(_, _, _)
Derives(rule, i, j) ==
  IF i >= j THEN {}
  ELSE CASE rule \in 1 .. 4 ->
         Derives(rule + 1, i, j) \union
         UNION {{<<"bin", T(k), a, b>> : a \in Derives(rule, i, k), b \in Derives(rule + 1, k + 1, j)} : k \in Ends(i, j, Ops(rule))}
    [] rule = 5 ->  \* a unary expression
         {<<"neg", a>> : a \in IF T(i) = "-" THEN Derives(5, i + 1, j) ELSE {}}
         \union {IF Len(list) = 1 THEN list[1] ELSE <<"union", list>> : list \in Derives(6, i, j)}
    [] rule = 6 ->  \* the paths of a union
         {<<a>> : a \in Derives(7, i, j)} \union
         UNION {{Append(list, b) : list \in Derives(6, i, k), b \in Derives(7, k + 1, j)} : k \in Ends(i, j, {"|"})}
    [] rule = 7 ->  \* a path
         {Path(<< >>, FALSE, s) : s \in Derives(8, i, j)}
         \union (IF T(i) = "/" THEN {Path(<< >>, TRUE, s) : s \in IF i + 1 = j THEN {<< >>} ELSE Derives(8, i + 1, j)} ELSE {})
         \union (IF T(i) = "//" THEN {Path(<< >>, TRUE, <<Deep>> \o s) : s \in Derives(8, i + 1, j)} ELSE {})
         \union {Filtered(f) : f \in Derives(10, i, j)}
         \union UNION {{Path(Filtered(f), FALSE, Slashed(k) \o s) : f \in Derives(10, i, k), s \in Derives(8, k + 1, j)} : k \in Ends(i, j, {"/", "//"})}
    [] rule = 8 ->  \* its steps
         {<<s>> : s \in Derives(9, i, j)} \union
         UNION {{r \o Slashed(k) \o <<s>> : r \in Derives(8, i, k), s \in Derives(9, k + 1, j)} : k \in Ends(i, j, {"/", "//"})}
    [] rule = 9 ->  \* a step
         IF i + 1 = j THEN IF T(i) = "." THEN {<<"step", ".", << >>>>} ELSE IF T(i) = "name" THEN {<<"step", text[i], << >>>>} ELSE {}
         ELSE IF T(j - 1) # "]" THEN {}
         ELSE UNION {{<<"step", s[2], Append(s[3], e)>> : s \in {t \in Derives(9, i, k) : t[2] # "."}, e \in Derives(1, k + 1, j - 1)} : k \in Ends(i, j, {"["})}
    [] rule = 10 ->  \* an expression and its predicates
         {<<a, << >>>> : a \in Derives(11, i, j)} \union
         IF T(j - 1) # "]" THEN {}
         ELSE UNION {{<<f[1], Append(f[2], e)>> : f \in Derives(10, i, k), e \in Derives(1, k + 1, j - 1)} : k \in Ends(i, j, {"["})}
    [] OTHER ->
         CASE T(i) = "1" /\ i + 1 = j -> {<<"num">>}
           [] T(i) = "(" /\ T(j - 1) = ")" -> Derives(1, i + 1, j - 1)
           [] T(i) = "func" /\ T(j - 1) = ")" -> IF j = i + 3 THEN {<<"call", << >>>>} ELSE {<<"call", <<e>>>> : e \in Derives(1, i + 2, j - 1)}
           [] OTHER -> {}

(* What parse() builds is what the grammar derives, operators bound as     *)
(* tightly and as far to the left; it refuses what has no derivation       *)
(* (parse, tokenize).                                                      *)
ParsesAsDerived == text # << >> => Parsed = Derives(1, 1, Len(Tokens))

(* `*`, `and` and `div` in a place where both readings could be meant are  *)
(* operators exactly if something stands before them that they could apply *)
(* to: a name, a number or what is closed there (tokenize).                *)
OperatorsApply ==
  \A i \in DOMAIN text : text[i] \in {"*", "and", "div"} =>
    (Tokens[i] \in {"mul", "and", "div"} <=> i > 1 /\ Tokens[i - 1] \in {"name", "1", "func", "unknown", ")", "]", "."})
=============================================================================

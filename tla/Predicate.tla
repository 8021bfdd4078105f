----------------------------- MODULE Predicate -----------------------------
(***************************************************************************)
(* core/predicate.py: the `when:` expressions of steps and the rules of    *)
(* the pipeline selector.  An expression is a sequence of tokens, a token  *)
(* a pair <<type, text>>.  Values and their comparison are in Comparison.  *)
(***************************************************************************)
EXTENDS Comparison

CONSTANTS
  MaxDepth,    \* MAX_DEPTH: parentheses and nots an expression may nest
  MaxTokens,   \* MAX_TOKENS
  Attributes   \* pairs <<kind, name>>: Python has this attribute on such a value

ASSUME DepthAssumption == MaxDepth \in Nat \ {0} /\ MaxTokens \in Nat

-----------------------------------------------------------------------------
(* The parser: every operator takes the tokens and the position it is at,  *)
(* and yields the node it built and the position behind it, or the place   *)
(* of the error.                                                           *)

At(toks, i) == IF i <= Len(toks) THEN toks[i] ELSE <<"END", "">>
Type(toks, i) == At(toks, i)[1]
IsIdent(toks, i, word) == At(toks, i) = <<"IDENT", word>>
Parsed(node, pos) == [ok |-> TRUE, node |-> node, pos |-> pos]
Refused(pos) == [ok |-> FALSE, pos |-> pos]

\* What is read next, unless the error before it ends the parse.
Then(parsed, Next(_)) == IF parsed.ok THEN Next(parsed) ELSE parsed

RECURSIVE ParsePath(_, _, _)
ParsePath(toks, parts, i) ==
  CASE Type(toks, i) # "IDENT" -> Refused(i)
    [] Type(toks, i) = "IDENT" /\ Type(toks, i + 1) = "DOT" ->
         ParsePath(toks, Append(parts, At(toks, i)[2]), i + 2)
    [] OTHER -> Parsed(Append(parts, At(toks, i)[2]), i + 1)

\* str(True) and str(False) are the only words with a capital in the model.
Lower(word) ==
  CASE word = "True" -> "true" [] word = "False" -> "false" [] OTHER -> word

\* A bare word is a string unless it is one of the literals.
Literal(word) ==
  CASE word \in {"true", "yes"} -> Bool(TRUE)
    [] word \in {"false", "no"} -> Bool(FALSE)
    [] word \in {"null", "none"} -> None
    [] OTHER -> Str(Lower(word))

RECURSIVE ParseOperand(_, _), ParseItems(_, _, _)
ParseOperand(toks, i) ==
  CASE Type(toks, i) = "NUMBER" -> Parsed(Num(At(toks, i)[2]), i + 1)
    [] Type(toks, i) = "STRING" -> Parsed(Str(At(toks, i)[2]), i + 1)
    [] Type(toks, i) = "IDENT" -> Parsed(Literal(At(toks, i)[2]), i + 1)
    [] Type(toks, i) = "LBRACKET" ->
         IF Type(toks, i + 1) = "RBRACKET" THEN Parsed(List(<<>>), i + 2)
         ELSE ParseItems(toks, <<>>, i + 1)
    [] OTHER -> Refused(i)
ParseItems(toks, items, i) ==
  Then(ParseOperand(toks, i), LAMBDA item :
    CASE Type(toks, item.pos) = "COMMA" -> ParseItems(toks, Append(items, item.node), item.pos + 1)
      [] Type(toks, item.pos) = "RBRACKET" -> Parsed(List(Append(items, item.node)), item.pos + 1)
      [] OTHER -> Refused(item.pos))

\* The operator at i and how many tokens it takes; none is "" and 0.
KeywordOps == {"eq", "ne", "lt", "lte", "gt", "gte", "contains"}
TryParseOp(toks, i) ==
  CASE Type(toks, i) = "OP" -> <<At(toks, i)[2], 1>>
    [] Type(toks, i) = "IDENT" /\ At(toks, i)[2] \in KeywordOps \cup {"in"} ->
         <<At(toks, i)[2], 1>>
    [] IsIdent(toks, i, "not") /\ IsIdent(toks, i + 1, "in") -> <<"not_in", 2>>
    [] OTHER -> <<"", 0>>

\* What follows a path: nothing, "is [not] empty", or an operator.
Emptiness(toks, path, negate, i) ==
  IF IsIdent(toks, i, "empty") THEN Parsed(<<"is_empty", path, negate>>, i + 1) ELSE Refused(i)
Comparing(toks, path, op, i) ==
  IF op[2] = 0 THEN Parsed(<<"truthy", path>>, i)
  ELSE Then(ParseOperand(toks, i + op[2]), LAMBDA operand :
         Parsed(<<"compare", path, op[1], operand.node>>, operand.pos))
ParseComparison(toks, i) ==
  Then(ParsePath(toks, <<>>, i), LAMBDA path :
    CASE ~IsIdent(toks, path.pos, "is") -> Comparing(toks, path.node, TryParseOp(toks, path.pos), path.pos)
      [] IsIdent(toks, path.pos, "is") /\ IsIdent(toks, path.pos + 1, "not") ->
           Emptiness(toks, path.node, TRUE, path.pos + 2)
      [] OTHER -> Emptiness(toks, path.node, FALSE, path.pos + 1))

\* depth counts the parentheses and nots around position i; the finally
\* clauses of _parse_expr and _parse_not undo their count on the way out.
RECURSIVE ParseExpr(_, _, _), OrRest(_, _, _), AndRest(_, _, _), ParseNot(_, _, _)
ParseAnd(toks, i, depth) ==
  Then(ParseNot(toks, i, depth), LAMBDA left : AndRest(toks, left, depth))
ParseExpr(toks, i, depth) ==
  IF depth + 1 > MaxDepth THEN Refused(i)
  ELSE Then(ParseAnd(toks, i, depth + 1), LAMBDA left : OrRest(toks, left, depth + 1))
OrRest(toks, left, depth) ==
  IF ~IsIdent(toks, left.pos, "or") THEN left
  ELSE Then(ParseAnd(toks, left.pos + 1, depth), LAMBDA right :
         OrRest(toks, Parsed(<<"or", left.node, right.node>>, right.pos), depth))
AndRest(toks, left, depth) ==
  IF ~IsIdent(toks, left.pos, "and") THEN left
  ELSE Then(ParseNot(toks, left.pos + 1, depth), LAMBDA right :
         AndRest(toks, Parsed(<<"and", left.node, right.node>>, right.pos), depth))
Negated(operand) == Parsed(<<"not", operand.node>>, operand.pos)
Closed(toks, inner) ==
  IF Type(toks, inner.pos) = "RPAREN" THEN Parsed(inner.node, inner.pos + 1) ELSE Refused(inner.pos)
\* Mutant: not covers everything behind it.
NotBindsLoosely(toks, i, depth) ==
  CASE IsIdent(toks, i, "not") -> Then(ParseExpr(toks, i + 1, depth), Negated)
    [] Type(toks, i) = "LPAREN" ->
         Then(ParseExpr(toks, i + 1, depth), LAMBDA inner : Closed(toks, inner))
    [] OTHER -> ParseComparison(toks, i)
ParseNot(toks, i, depth) ==
  CASE IsIdent(toks, i, "not") ->
         IF depth + 1 > MaxDepth THEN Refused(i) ELSE Then(ParseNot(toks, i + 1, depth + 1), Negated)
    [] Type(toks, i) = "LPAREN" ->
         Then(ParseExpr(toks, i + 1, depth), LAMBDA inner : Closed(toks, inner))
    [] OTHER -> ParseComparison(toks, i)

Parse(toks) ==
  Then(ParseExpr(toks, 1, 0), LAMBDA all : IF all.pos <= Len(toks) THEN Refused(all.pos) ELSE all)

-----------------------------------------------------------------------------
(* Evaluation.                                                             *)

RECURSIVE Walk(_, _)
Walk(value, parts) ==
  IF parts = <<>> THEN value
  ELSE CASE value[1] = "map" /\ Head(parts) \in DOMAIN value[2] ->
              Walk(value[2][Head(parts)], Tail(parts))
         [] value[1] # "map" /\ <<value[1], Head(parts)>> \in Attributes ->
              Walk(Object, Tail(parts))
         [] OTHER -> Missing
LookupPath(ctx, path) == Walk(Nested(ctx), path)

IsEmpty(v) ==
  \/ v \in {Missing, None, Str(""), Str(" ")}
  \/ v[1] = "list" /\ v[2] = <<>>
  \/ v[1] = "map" /\ DOMAIN v[2] = {}

\* bool(value) of Python: a blank string and the string "no" are true.
Truthy(v) ==
  CASE v[1] = "bool" -> v[2]
    [] v[1] = "num" -> v[2] # 0
    [] v[1] = "str" -> v[2] # ""
    [] v[1] \in {"list", "map"} -> ~IsEmpty(v)
    [] OTHER -> v = Object

RECURSIVE EvalNode(_, _)
EvalNode(node, ctx) ==
  CASE node[1] = "or" -> EvalNode(node[2], ctx) \/ EvalNode(node[3], ctx)
    [] node[1] = "and" -> EvalNode(node[2], ctx) /\ EvalNode(node[3], ctx)
    [] node[1] = "not" -> ~EvalNode(node[2], ctx)
    [] node[1] = "truthy" -> Truthy(LookupPath(ctx, node[2]))
    [] node[1] = "is_empty" -> IsEmpty(LookupPath(ctx, node[2])) # node[3]
    [] node[1] = "compare" -> Compare(LookupPath(ctx, node[2]), node[3], node[4], node[2])

Verdict(b) == IF b THEN "holds" ELSE "fails"

\* evaluate_any() of a string: the blank one holds, a bad one raises.
Evaluate(toks, ctx) ==
  CASE toks = <<>> -> "holds"
    [] toks # <<>> /\ (Len(toks) > MaxTokens \/ ~Parse(toks).ok) -> "error"
    [] OTHER -> Verdict(EvalNode(Parse(toks).node, ctx))

-----------------------------------------------------------------------------
(* The mapping form: a sequence of entries, each a path with either one    *)
(* value or operators and their operands.                                  *)

CompareOps == KeywordOps \cup {"in"}
EvalRule(entry, ctx) ==
  LET v == LookupPath(ctx, entry.path)
      rule == entry.ops[1]
  IN CASE Len(entry.ops) # 1 -> "error"
       [] rule[1] = "is" -> Verdict(Compare(v, "eq", rule[2], entry.path))
       [] rule[1] = "empty" -> Verdict(IsEmpty(v))
       [] rule[1] = "not_empty" -> Verdict(~IsEmpty(v))
       [] rule[1] \in CompareOps -> Verdict(Compare(v, rule[1], rule[2], entry.path))
       [] OTHER -> "error"

\* all() stops at the first entry that does not hold, or raises.
\* Mutant: any() for all().
EvaluateAnyEntry(spec, ctx) ==
  LET stop == SelectInSeq(spec, LAMBDA entry : EvalRule(entry, ctx) # "fails")
  IN IF stop = 0 THEN "fails" ELSE EvalRule(spec[stop], ctx)
EvaluateMapping(spec, ctx) ==
  LET stop == SelectInSeq(spec, LAMBDA entry : EvalRule(entry, ctx) # "holds")
  IN IF stop = 0 THEN "holds" ELSE EvalRule(spec[stop], ctx)

\* What the banner says of a rule, as the tokens it is made of.
RECURSIVE DescribeValue(_), DescribeItems(_)
DescribeValue(v) ==
  CASE v = None -> <<<<"IDENT", "null">>>>
    [] v[1] = "list" -> <<<<"LBRACKET", "[">>>> \o DescribeItems(v[2]) \o <<<<"RBRACKET", "]">>>>
    [] v[1] = "num" -> <<<<"NUMBER", v[2]>>>>
    [] v[1] = "bool" -> <<<<"IDENT", IF v[2] THEN "True" ELSE "False">>>>
    [] v[1] = "str" /\ v[2] \in DOMAIN NumberOf -> <<<<"NUMBER", NumberOf[v[2]]>>>>
    [] OTHER -> <<<<"IDENT", v[2]>>>>
DescribeItems(q) ==
  IF q = <<>> THEN <<>>
  ELSE DescribeValue(Head(q))
       \o (IF Len(q) > 1 THEN <<<<"COMMA", ",">>>> ELSE <<>>) \o DescribeItems(Tail(q))

PathTokens(path) ==
  [i \in 1..(2 * Len(path) - 1) |->
     IF i % 2 = 0 THEN <<"DOT", ".">> ELSE <<"IDENT", path[(i + 1) \div 2]>>]
Words(q) == [i \in DOMAIN q |-> <<"IDENT", q[i]>>]
DescribeEntry(entry) ==
  LET rule == entry.ops[1]
  IN PathTokens(entry.path)
     \o CASE rule[1] = "empty" -> Words(<<"is", "empty">>)
          [] rule[1] = "not_empty" -> Words(<<"is", "not", "empty">>)
          [] rule[1] \in {"in", "contains"} -> Words(<<rule[1]>>) \o DescribeValue(rule[2])
          [] rule[1] = "is" -> <<<<"OP", "eq">>>> \o DescribeValue(rule[2])
          [] OTHER -> <<<<"OP", rule[1]>>>> \o DescribeValue(rule[2])

RECURSIVE DescribeMapping(_)
DescribeMapping(spec) ==
  IF spec = <<>> THEN <<>>
  ELSE DescribeEntry(Head(spec))
       \o (IF Len(spec) > 1 THEN Words(<<"and">>) ELSE <<>>) \o DescribeMapping(Tail(spec))

-----------------------------------------------------------------------------
(* The two users: the selector takes the first rule that holds, and a step *)
(* whose when cannot be evaluated runs.                                    *)

\* The index of the rule chosen, 0 for the default, -1 for ConfigError.
Select(rules, ctx) ==
  LET hit == SelectInSeq(rules, LAMBDA r : EvaluateMapping(r, ctx) # "fails")
  IN IF hit # 0 /\ EvaluateMapping(rules[hit], ctx) = "error" THEN -1 ELSE hit

\* PipelineDef.load() tries every when on an empty context.
LoadsMapping(spec) == EvaluateMapping(spec, <<>>) # "error"
ShouldRun(spec, ctx) == EvaluateMapping(spec, ctx) # "fails"
=============================================================================

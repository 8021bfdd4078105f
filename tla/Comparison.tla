----------------------------- MODULE Comparison -----------------------------
(***************************************************************************)
(* core/predicate.py: the values a condition is about, and how it compares *)
(* two of them.  Strings stand for their lower-case form, which is all the *)
(* evaluator looks at; Lexical lists them in their order.                  *)
(*                                                                         *)
(* A value is a pair <<kind, content>>: a string, a number, a Boolean, a   *)
(* list, a mapping, None, an object of Python's own (an attribute of a     *)
(* string, such as `title.count`) or MISSING.                              *)
(***************************************************************************)
EXTENDS Integers, Sequences, SequencesExt, FiniteSets

CONSTANTS
  Lexical,   \* the strings of values, in lexical order
  NumberOf,  \* the strings that read as numbers, and which
  Inside     \* pairs <<s, t>>: s is a proper substring of t

ASSUME ComparisonAssumption ==
  /\ Lexical \in Seq(STRING) /\ IsInjective(Lexical)
  /\ \A s \in DOMAIN NumberOf : NumberOf[s] \in Int

Str(s) == <<"str", s>>
Num(n) == <<"num", n>>
Bool(b) == <<"bool", b>>
List(q) == <<"list", q>>
Nested(f) == <<"map", f>>
None == <<"none", 0>>
Object == <<"object", 0>>
Missing == <<"missing", 0>>

\* The values there are, when lists and mappings hold contents.
Value(contents) ==
  ({"str"} \X STRING) \cup ({"num"} \X Int) \cup ({"bool"} \X BOOLEAN)
  \cup ({"list", "map"} \X contents) \cup {None, Object, Missing}

-----------------------------------------------------------------------------
(* The comparisons.                                                        *)

\* v == w of Python, where True is the number 1.
PyEqual(v, w) ==
  LET AsInt(x) == IF x[1] = "bool" THEN Num(IF x[2] THEN 1 ELSE 0) ELSE x
  IN AsInt(v) = AsInt(w)

BoolLike(v) ==
  CASE v \in {Str("true"), Str("yes")} -> Bool(TRUE)
    [] v \in {Str("false"), Str("no")} -> Bool(FALSE)
    [] OTHER -> v

ValuesEqual(v, w) ==
  IF "bool" \in {v[1], w[1]} THEN PyEqual(BoolLike(v), BoolLike(w)) ELSE PyEqual(v, w)

AsNumber(v) ==
  CASE v[1] = "num" -> {v[2]}
    [] v[1] = "str" /\ v[2] \in DOMAIN NumberOf -> {NumberOf[v[2]]}
    [] OTHER -> {}

OrderedEnums ==
  [ambiguity |-> <<"low", "medium", "high">>,
   size      |-> <<"xs", "s", "m", "l", "xl">>,
   severity  |-> <<"nit", "should-fix", "blocker">>]

ApplyOrder(l, op, r) ==
  CASE op = "lt" -> l < r
    [] op = "lte" -> l <= r
    [] op = "gt" -> l > r
    [] op = "gte" -> l >= r

\* order.index() of a string: none for what is not in the list.
Places(order, v) == {i \in DOMAIN order : v[1] = "str" /\ order[i] = v[2]}

\* Numbers are compared as such, the words of an enumeration by their places
\* in it, and other strings in lexical order.
OrderCompare(v, op, w, path) ==
  LET order == IF Last(path) \in DOMAIN OrderedEnums THEN OrderedEnums[Last(path)] ELSE Lexical
  IN IF AsNumber(v) # {} /\ AsNumber(w) # {}
     THEN \E l \in AsNumber(v), r \in AsNumber(w) : ApplyOrder(l, op, r)
     ELSE \E l \in Places(order, v), r \in Places(order, w) : ApplyOrder(l, op, r)

Member(item, container) ==
  CASE Missing \in {item, container} -> FALSE
    [] container[1] = "str" ->
         item[1] = "str" /\ (item = container \/ <<item[2], container[2]>> \in Inside)
    [] container[1] = "list" -> \E i \in DOMAIN container[2] : PyEqual(item, container[2][i])
    [] OTHER -> FALSE

Compare(v, op, w, path) ==
  CASE op = "eq" -> v # Missing /\ ValuesEqual(v, w)
    [] op = "ne" -> v = Missing \/ ~ValuesEqual(v, w)
    [] op \in {"lt", "lte", "gt", "gte"} -> v # Missing /\ OrderCompare(v, op, w, path)
    [] op = "in" -> Member(v, w)
    [] op = "not_in" -> ~Member(v, w)
    [] op = "contains" -> Member(w, v)

-----------------------------------------------------------------------------

\* The comparisons tell one story: of two values that compare at all exactly
\* one is the smaller or they are equal, seen from either side.  (A word that
\* reads as a number compares as one, and is equal to none; predicate.py:411.)
Coherent(v, w, path) ==
  LET Is(op) == Compare(v, op, w, path)
      Was(op) == Compare(w, op, v, path)
  IN \A op \in {"lt", "lte", "gt", "gte"} : Is(op) =>
       /\ Is("lte") <=> ~Is("gt")
       /\ Is("gte") <=> ~Is("lt")
       /\ Is("lt") <=> Was("gt")
       /\ Is("lte") /\ Is("gte") =>
            \/ Is("eq") /\ ~Is("ne")
            \/ AsNumber(v) # {} /\ AsNumber(v) = AsNumber(w)
=============================================================================

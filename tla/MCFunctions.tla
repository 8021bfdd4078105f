---------------------------- MODULE MCFunctions ----------------------------
(***************************************************************************)
(* The pure functions of the program on every small input.  A behaviour    *)
(* grows one input: a when expression token by token, a selector rule      *)
(* entry by entry, a pair of values, the answer of a step line by line, a  *)
(* template, a comment for Jira, a .env file, the path of a file tool.     *)
(* Every state is one input more.                                          *)
(***************************************************************************)
EXTENDS Predicate, Protocol, Templating, PathJail, JiraDocument, Configuration, Environment, TLC

CONSTANTS MaxLogic, MaxComparison, MaxText, MaxTemplate, MaxLines, MaxInline, MaxPath    \* bounds on the inputs

VARIABLES
  kind,     \* which function the input is for
  input
vars == <<kind, input>>

MCLexical == <<"", "5", "bug", "debug", "high", "low", "medium", "no", "yes">>
MCNumberOf == ("5" :> 5)
MCInside == {<<"bug", "debug">>}
MCAttributes == {<<"str", "count">>, <<"list", "count">>}

-----------------------------------------------------------------------------
(* The inputs.                                                             *)

Logic == {<<"IDENT", w>> : w \in {"a", "b", "or", "and", "not"}}
         \cup {<<"LPAREN", "(">>, <<"RPAREN", ")">>}
Comparison == {<<"IDENT", w>> : w \in {"a", "or", "not", "is", "empty", "in"}}
              \cup {<<"OP", "lt">>, <<"NUMBER", 1>>, <<"LPAREN", "(">>, <<"RPAREN", ")">>,
                    <<"LBRACKET", "[">>, <<"RBRACKET", "]">>, <<"COMMA", ",">>, <<"DOT", ".">>}
Expressions == {"logic", "comparison"}

\* An expression refused before its end stays refused, so it is not grown.
Hopeless(toks) == LET p == Parse(toks) IN ~p.ok /\ p.pos <= Len(toks)

Values == {Missing, None, Object, Bool(TRUE), Bool(FALSE), Num(1), Num(5), Str("5"), Str(""),
           Str("bug"), Str("debug"), Str("low"), Str("medium"), Str("high"), Str("yes"), Str("no"),
           List(<<>>), List(<<Str("bug")>>), List(<<Num(1), None>>)}
Operands == {None, Num(1), Num(5), Str("bug"), Str("medium"), List(<<Str("bug"), Num(5)>>)}
Paths == {<<"plan", "security">>, <<"ambiguity">>, <<"labels", "count">>, <<"labels">>}
Entries == [path : Paths,
            ops : {<<<<op, w>>>> : op \in {"is", "eq", "ne", "lt", "gte", "in", "contains"}, w \in Operands}
                  \cup {<<<<op, None>>>> : op \in {"empty", "not_empty", "has"}} \cup {<<>>}]
Few == {e \in Entries : e.ops \in {<<>>, <<<<"has", None>>>>, <<<<"empty", None>>>>, <<<<"is", Str("bug")>>>>,
                                   <<<<"gte", Str("medium")>>>>}}

\* A context in which every path of Paths that names no attribute has value v.
ContextOf(v) ==
  LET names == {"plan", "ambiguity", "labels"}
  IN IF v = Missing THEN <<>>
     ELSE [n \in names |-> IF n = "plan" THEN Nested("security" :> v) ELSE v]

Letters == {"{", "}", "x", "y", " "}

\* The checkout apart from the run directory, in it, around it and named by
\* a link; with a link out of the checkout and links into the run directory.
Disk(named, ws, art) ==
  [workspace |-> named, artifacts_dir |-> art,
   links |-> (ws \o <<"out">> :> <<"etc">>) @@ (ws \o <<"run">> :> art)
             @@ (art \o <<"sections">> :> ws \o <<"out">>) @@ (<<"lib">> :> ws)
             @@ (art \o <<"alias">> :> art \o <<"run.json">>),
   files |-> {ws \o <<"f">>, art \o <<"run.json">>, art \o <<"logs", "f">>, art \o <<"plan">>,
              <<"etc", "f">>, <<"ws2", "f">>}]
Disks == {Disk(<<"ws">>, <<"ws">>, <<"rd">>), Disk(<<"lib">>, <<"ws">>, <<"rd">>),
          Disk(<<"rd", "ws">>, <<"rd", "ws">>, <<"rd">>), Disk(<<"ws">>, <<"ws">>, <<"ws", "rd">>)}
Names == {"..", ".", "f", "out", "run", "plan", "sections", "alias", "run.json", "logs", "ws", "rd"}

\* The word of a line tells which line it is.
Word(n) == <<"a", "b", "c", "d", "e", "f", "g">>[n]
Formatted(w) == {<<w>>, <<"*", "*", w, "*", "*", "tick", "tick">>, <<"link", "_", w, "_">>}
MarkdownLines(n) ==
  [kind : {"blank", "fence", "fence language", "rule"}, text : {<<>>}]
  \cup [kind : {"prose", "heading", "ordered", "bullet"}, text : Formatted(Word(n))]
Characters(n) == {"*", "_", "tick", Word(n)}

Data(file) ==
  LET leaf == <<"leaf", file>>
  IN {<<>>, "a" :> leaf, "a" :> <<"map", <<>>>>, "a" :> <<"map", "b" :> leaf>>,
      ("a" :> <<"map", "c" :> leaf>>) @@ ("d" :> leaf)}
Profiles == {"child", "parent", "grandparent"}
ProfileFiles(file) == {"absent"} \X {0}
                      \cup {"extends"} \X [extends : Profiles \cup {"", "gone"}, data : Data(file)]
FilesOf(choice) ==
  [f \in {f \in Profiles : choice[f][1] = "extends"} |-> choice[f][2]]

EnvValues == {<<>>, <<"x">>, <<"quote", "x", "#", "y", "quote">>, <<"x", "#", "y">>,
              <<"#", "y">>}
EnvLines == [kind : {"blank", "no =", "no name"}, name : {""}, value : {<<>>}]
            \cup [kind : {"assignment"}, name : {"N", "M"}, value : EnvValues]
Environments == {<<>>} \cup {"N" :> v : v \in {<<>>, <<"z">>}}

Init ==
  \/ kind \in Expressions /\ input = <<>>
  \/ kind = "rule" /\ input = <<>>
  \/ kind = "values" /\ input \in Values \X Values \X Paths
  \/ kind = "answer" /\ input = <<>>
  \/ kind = "template" /\ input = <<>>
  \/ kind \in {"comment", "inline", "nested"} /\ input = <<>>
  \/ kind = "profile" /\ \E c \in ProfileFiles("child"), p \in ProfileFiles("parent"),
                             g \in ProfileFiles("grandparent") :
       input = FilesOf([child |-> c, parent |-> p, grandparent |-> g])
  \/ kind = "dotenv" /\ input \in [lines : {<<>>}, env : Environments, override : BOOLEAN]
  \/ kind = "path" /\ input \in [disk : Disks,
                                 request : [absolute : BOOLEAN, parts : {<<>>}]]

Grow ==
  \/ /\ kind = "logic" /\ Len(input) < MaxLogic /\ ~Hopeless(input)
     /\ \E t \in Logic : input' = Append(input, t)
  \/ /\ kind = "comparison" /\ Len(input) < MaxComparison /\ ~Hopeless(input)
     /\ \E t \in Comparison : input' = Append(input, t)
  \/ /\ kind = "rule" /\ input = <<>>
     /\ \E e \in Entries : input' = <<e>>
  \/ /\ kind = "rule" /\ Len(input) = 1 /\ input[1] \in Few
     /\ \E e \in Few : input' = Append(input, e)
  \/ /\ kind = "answer" /\ Len(input) < MaxText
     /\ \E l \in LineKinds : input' = Append(input, l)
  \/ /\ kind = "template" /\ Len(input) < MaxTemplate
     /\ \E l \in Letters : input' = Append(input, l)
  \/ /\ kind = "comment" /\ Len(input) < MaxLines
     /\ \E l \in MarkdownLines(Len(input) + 1) : input' = Append(input, l)
  \/ /\ kind = "inline" /\ Len(input) < MaxInline
     /\ \E c \in Characters(Len(input) + 1) : input' = Append(input, c)
  \/ /\ kind = "nested" /\ Len(input) <= MaxReading
     /\ \E t \in {"bullet", "ordered", "panel"} : input' = Append(input, t)
  \/ /\ kind = "dotenv" /\ Len(input.lines) < MaxLines
     /\ \E l \in EnvLines : input' = [input EXCEPT !.lines = Append(@, l)]
  \/ /\ kind = "path" /\ Len(input.request.parts) < MaxPath
     /\ \E n \in Names : input' = [input EXCEPT !.request.parts = Append(@, n)]

Next == Grow /\ UNCHANGED kind
Spec == Init /\ [][Next]_vars

-----------------------------------------------------------------------------
(* What a when expression means, said of the whole text at once instead of *)
(* from left to right: the set of the meanings its derivations have.       *)

WordAt(q, k, w) == q[k] = <<"IDENT", w>>
Before(q, k) == SubSeq(q, 1, k - 1)
After(q, k) == SubSeq(q, k + 1, Len(q))
Where(q, t) == {k \in DOMAIN q : q[k] = t}

RECURSIVE OperandMeans(_), ItemsMean(_)
OperandMeans(q) ==
  CASE Len(q) = 1 -> IF q[1][1] = "NUMBER" THEN {Num(q[1][2])}
                     ELSE IF q[1][1] = "IDENT" THEN {Literal(q[1][2])} ELSE {}
    [] q = <<<<"LBRACKET", "[">>, <<"RBRACKET", "]">>>> -> {List(<<>>)}
    [] Len(q) > 2 /\ q[1][1] = "LBRACKET" /\ Last(q)[1] = "RBRACKET" ->
         {List(items) : items \in ItemsMean(SubSeq(q, 2, Len(q) - 1))}
    [] OTHER -> {}
ItemsMean(q) ==
  {<<v>> : v \in OperandMeans(q)}
  \cup UNION {{<<v>> \o rest : v \in OperandMeans(Before(q, k)), rest \in ItemsMean(After(q, k))} :
              k \in Where(q, <<"COMMA", ",">>)}

OpMeans(q) ==
  CASE Len(q) = 1 /\ q[1][1] \in {"OP", "IDENT"} /\ q[1][2] \in CompareOps -> {q[1][2]}
    [] q = Words(<<"not", "in">>) -> {"not_in"}
    [] OTHER -> {}

ComparisonMeans(q, ctx) ==
  UNION {LET path == [i \in 1..((n + 1) \div 2) |-> q[2 * i - 1][2]]
             v == LookupPath(ctx, path)
             rest == After(q, n)
         IN {x \in {Truthy(v)} : rest = <<>>}
            \cup {x \in {IsEmpty(v)} : rest = Words(<<"is", "empty">>)}
            \cup {x \in {~IsEmpty(v)} : rest = Words(<<"is", "not", "empty">>)}
            \cup UNION {{Compare(v, op, w, path) : op \in OpMeans(SubSeq(rest, 1, k)),
                                                   w \in OperandMeans(After(rest, k))} :
                        k \in 1..(Len(rest) - 1)} :
         n \in {n \in DOMAIN q : /\ n % 2 = 1
                                 /\ \A i \in 1..n : q[i][1] = IF i % 2 = 1 THEN "IDENT" ELSE "DOT"}}

RECURSIVE OrMeans(_, _, _), AndMeans(_, _, _), NotMeans(_, _, _)
OrMeans(q, depth, ctx) ==
  AndMeans(q, depth, ctx)
  \cup UNION {{l \/ r : l \in OrMeans(Before(q, k), depth, ctx), r \in AndMeans(After(q, k), depth, ctx)} :
              k \in Where(q, <<"IDENT", "or">>)}
AndMeans(q, depth, ctx) ==
  NotMeans(q, depth, ctx)
  \cup UNION {{l /\ r : l \in AndMeans(Before(q, k), depth, ctx), r \in NotMeans(After(q, k), depth, ctx)} :
              k \in Where(q, <<"IDENT", "and">>)}
NotMeans(q, depth, ctx) ==
  CASE q = <<>> -> {}
    [] q # <<>> /\ WordAt(q, 1, "not") ->
         IF depth = MaxDepth THEN {} ELSE {~x : x \in NotMeans(Tail(q), depth + 1, ctx)}
    [] Len(q) > 2 /\ q[1][1] = "LPAREN" /\ Last(q)[1] = "RPAREN" ->
         IF depth = MaxDepth THEN {} ELSE OrMeans(SubSeq(q, 2, Len(q) - 1), depth + 1, ctx)
    [] OTHER -> ComparisonMeans(q, ctx)

Contexts == {[n \in yes \cup no |-> Bool(n \in yes)] :
               <<yes, no>> \in {<<y, {"a", "b", "or"} \ y>> : y \in SUBSET {"a", "b", "or"}}}

\* The parser accepts exactly the expressions that nest no deeper than
\* MAX_DEPTH and have a derivation, and reads each with the one meaning its
\* derivations have: not before and before or, brackets first.
ParsesItsGrammar ==
  kind \in Expressions /\ input # <<>> =>
    \A ctx \in Contexts :
      LET means == OrMeans(input, 1, ctx)
          read == Evaluate(input, ctx)
      IN IF Len(input) > MaxTokens \/ means = {} THEN read = "error"
         ELSE means = {read = "holds"} /\ read # "error"

\* The ways to write a condition agree.  A mapping decides what its banner
\* text says, for operands that are plain words, numbers and null; the
\* selector's choice is the first rule whose text is true; a bad operator that
\* load() passed raises in a run only behind an entry that failed on load()'s
\* empty context and now holds; and the six comparisons tell one story.
Bad(entry) == entry.ops \in {<<>>, <<<<"has", None>>>>}
Told(spec, ctx) == EvalNode(Parse(DescribeMapping(spec)).node, ctx)
FormsAgree ==
  /\ kind = "values" => Coherent(input[1], input[2], input[3])
  /\ kind = "rule" /\ input # <<>> =>
       LET bad == {i \in DOMAIN input : Bad(input[i])}
       IN \A v \in Values :
            LET ctx == ContextOf(v)
                found == EvaluateMapping(input, ctx)
                chosen == Select([i \in DOMAIN input |-> <<input[i]>>], ctx)
            IN /\ bad = {} => found = Verdict(Told(input, ctx))
               /\ bad = {} => \A i \in DOMAIN input :
                    Told(<<input[i]>>, ctx) => chosen \in 1..i /\ Told(<<input[chosen]>>, ctx)
               /\ found = "error" => bad # {} /\ ShouldRun(input, ctx)
               /\ found = "error" /\ LoadsMapping(input) =>
                    \E i \in DOMAIN input \ bad : /\ EvalRule(input[i], <<>>) = "fails"
                                                 /\ EvalRule(input[i], ctx) = "holds"

\* The value of the name that is known looks like a template itself.
ValuesOfX == [n \in {"x"} |-> <<"{", "y", "}", "{", "{">>]

\* A comment as it is read back from Jira: what is code, and the words.
Said(lines) == SelectSeq(FlattenSeq(Texts(lines)), LAMBDA c : c \notin {"*", "_", "tick", " "})
IsCode(lines, opens) ==
  FoldLeft(LAMBDA open, l : IF open THEN l.kind # "fence" ELSE l.kind \in opens, FALSE, lines)
CodeOf(lines, opens) ==
  {lines[i].text : i \in {i \in DOMAIN lines :
     lines[i].text # <<>> /\ IsCode(SubSeq(lines, 1, i - 1), opens)}}
CommentIsKept(lines) ==
  LET posted == MarkdownToAdf(lines)
      read == AdfToText(posted)
      charged == FoldLeft(LAMBDA n, node : n + Charged(node), 0, posted)
  IN /\ IsPrefix(Said(read), Said(lines))
     /\ charged < MaxNodes => Said(read) = Said(lines)
     /\ charged < MaxNodes =>
          CodeOf(read, {"fence"}) = CodeOf(lines, {"fence", "fence language"})

\* A document of Jira: a word in panels and lists.
Wrapped(types) ==
  FoldRight(LAMBDA type, node :
              [type |-> type, content |->
                 IF type = "panel" THEN <<node>> ELSE <<[type |-> "listItem", content |-> <<node>>]>>],
            types, Paragraph(TextNode(<<"a">>)))
DepthOf(types) == FoldLeft(LAMBDA n, type : n + IF type = "panel" THEN 1 ELSE 2, 2, types)

\* Nothing that is said gets lost or is told twice on its way.  The report and
\* the question of a step are its answer, cut at the question, and the report
\* asks nothing any more.  What is put into a template with its braces doubled
\* comes out as it was, and no value is expanded again.  A comment in Jira
\* says the words of the Markdown in their order, cut at the end at most, and
\* its code is code; and a description is read if it nests no deeper than
\* _MAX_DEPTH, of which a list takes two.
TextIsFaithful ==
  /\ kind = "answer" => AnswerIsSplit(input)
  /\ kind = "template" => \A name \in {"x", "y"} : TemplateIsKept(input, name, input, ValuesOfX)
  /\ kind = "comment" => CommentIsKept(input)
  /\ kind = "inline" /\ input # <<>> => CommentIsKept(<<Prose(input)>>)
  /\ kind = "nested" =>
       (Said(AdfToText(<<Wrapped(input)>>)) = <<"a">> <=> DepthOf(input) <= MaxReading)

-----------------------------------------------------------------------------
(* Profiles and the environment.                                           *)

\* What a mapping says of a path of keys: a leaf there or above it, a mapping
\* there, or nothing.
RECURSIVE Says(_, _)
Says(data, path) ==
  LET value == data[Head(path)]
  IN CASE Head(path) \notin DOMAIN data -> <<"nothing", "">>
       [] Head(path) \in DOMAIN data /\ value[1] = "map" /\ Len(path) > 1 -> Says(value[2], Tail(path))
       [] Head(path) \in DOMAIN data /\ value[1] = "map" /\ Len(path) = 1 -> <<"map", "">>
       [] OTHER -> <<IF Len(path) = 1 THEN "leaf" ELSE "above", value[2]>>

\* The files from a profile up to the one that extends nothing, if they exist
\* and no two are the same.
Chains(files) ==
  {q \in UNION {[1..n -> DOMAIN files] : n \in 1..Cardinality(DOMAIN files)} :
     /\ q[1] = "child" /\ files[q[Len(q)]].extends = ""
     /\ \A i \in 1..(Len(q) - 1) : files[q[i]].extends = q[i + 1]}

\* A profile loads exactly when its chain of files ends, and then it says of
\* every setting what the nearest file says that says anything of it.  And a
\* ${NAME} has the value of the real environment or, if that is empty or to be
\* overridden, the one of .env, of which a malformed line takes all.
SettingsAreFound ==
  /\ kind = "profile" =>
       LET loaded == LoadProfileDict(input, "child", {})
       IN /\ loaded = {} <=> Chains(input) = {}
          /\ \A data \in loaded, chain \in Chains(input),
                path \in {<<"a">>, <<"a", "b">>, <<"a", "c">>, <<"d">>} :
               LET of(i) == Says(input[chain[i]].data, path)
                   says == SelectInSeq([i \in DOMAIN chain |-> of(i)], LAMBDA x : x[1] # "nothing")
                   found == Says(data, path)
               IN IF says = 0 \/ of(says)[1] = "above" THEN found[1] \in {"nothing", "above"}
                  ELSE found = of(says)
  /\ kind = "dotenv" =>
       /\ LoadDotenv(input.lines, input.env, input.override) = {} <=>
            {"no =", "no name"} \cap {input.lines[i].kind : i \in DOMAIN input.lines} # {}
       /\ \A name \in {"N", "M"} : NameIsFound(input.lines, input.env, input.override, name)

ASSUME DisksAssumption == \A disk \in Disks : IsDisk(disk)

\* The jail of the file tools lets through exactly what the operating system
\* finds inside the checkout or the run directory.
JailIsExact == kind = "path" => ReachesExactly(input.disk, input.request)
=============================================================================

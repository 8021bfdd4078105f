----------------------------- MODULE Templating -----------------------------
(***************************************************************************)
(* core/templating.py: how the engine fills in what a step is asked.       *)
(*                                                                         *)
(* A template is a sequence of "{", "}", words and " ".  A word stands for *)
(* a dotted name as a placeholder may hold one, " " for a character that   *)
(* is in no name.  values maps the known names to what is inserted.        *)
(***************************************************************************)
EXTENDS Integers, Sequences

Braces == {"{", "}"}
Signs == Braces \cup {" "}

\* The two matches of PLACEHOLDER, of which the leftmost is taken.
Doubled(template, i) ==
  i < Len(template) /\ template[i] \in Braces /\ template[i + 1] = template[i]
Placeholder(template, i) ==
  /\ i + 2 <= Len(template) /\ template[i] = "{" /\ template[i + 2] = "}"
  /\ template[i + 1] \notin Signs

Inserted(values, name) ==
  IF name \in DOMAIN values THEN values[name] ELSE <<"{", name, "}">>

\* What the template is rendered to from a position on, and from the first.
Rendered(template, values) ==
  LET from[i \in 1..(Len(template) + 1)] ==
        CASE i > Len(template) -> <<>>
          [] Doubled(template, i) -> <<template[i]>> \o from[i + 2]
          [] Placeholder(template, i) -> Inserted(values, template[i + 1]) \o from[i + 3]
          [] OTHER -> <<template[i]>> \o from[i + 1]
  IN from
Render(template, values) == Rendered(template, values)[1]

-----------------------------------------------------------------------------

\* A text as it is written in a template, up to a position and as a whole.
Escaped(text) ==
  LET upto[i \in 0..Len(text)] ==
        IF i = 0 THEN <<>>
        ELSE upto[i - 1] \o IF text[i] \in Braces THEN <<text[i], text[i]>> ELSE <<text[i]>>
  IN upto
Escape(text) == Escaped(text)[Len(text)]

\* A text whose braces are doubled comes out as it was, also before and behind a
\* placeholder; that becomes its value as it is, which nothing expands again, or
\* stays if nobody knows it (core/templating.py:53-62).
TemplateIsKept(before, name, after, values) ==
  /\ Render(Escape(before), values) = before
  /\ Render(Escape(before) \o <<"{", name, "}">> \o Escape(after), values)
       = before \o Inserted(values, name) \o after
=============================================================================

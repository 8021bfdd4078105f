------------------------------ MODULE Protocol ------------------------------
(***************************************************************************)
(* engine/protocol.py: how the engine reads what a step answered.          *)
(*                                                                         *)
(* A text is a sequence of lines.  A line is named by what its stripped    *)
(* form starts with: a code fence, a marker, a marker with nothing behind  *)
(* it, nothing at all, or anything else.                                   *)
(***************************************************************************)
EXTENDS Integers, Sequences, SequencesExt, FiniteSets

LineKinds == {"fence", "QUESTION:", "DEFER:", "DEFER", "blank", "prose"}

\* in_fence when the loop comes to line i.
InFence(text) ==
  LET in_fence[i \in Nat] ==
        i > 1 /\ (IF text[i - 1] = "fence" THEN ~in_fence[i - 1] ELSE in_fence[i - 1])
  IN in_fence

\* Mutant: code fences are not looked at.
EveryLine(text) == DOMAIN text
NonFencedLines(text) ==
  {i \in DOMAIN text : text[i] # "fence" /\ ~InFence(text)[i]}

\* The line that starts the question, 0 when there is none.
QuestionLine(text) ==
  SelectInSeq([i \in DOMAIN text |-> i \in NonFencedLines(text) /\ text[i] = "QUESTION:"],
              LAMBDA found : found)

\* str.rstrip() of the joined lines.
DropBlanks(text) ==
  SubSeq(text, 1, Max({0} \cup {i \in DOMAIN text : text[i] # "blank"}))

HasQuestion(text) == QuestionLine(text) # 0
ParseQuestion(text) == DropBlanks(SubSeq(text, QuestionLine(text), Len(text)))
StripProtocol(text) ==
  IF HasQuestion(text) THEN DropBlanks(SubSeq(text, 1, QuestionLine(text) - 1)) ELSE text

\* The places of the follow-ups; a marker without a payload is dropped.
ParseDefers(text) == {i \in NonFencedLines(text) : text[i] = "DEFER:"}

-----------------------------------------------------------------------------

\* An answer is cut in two and nothing of it gets lost: there is a question if
\* a line outside of all fences asks one, the text that is reported asks none
\* any more, report and question are the answer but for the blank lines between
\* them, and the follow-ups are the marked lines outside of all fences.  Outside
\* is, where an even number of fences went before (engine/protocol.py).
AnswerIsSplit(text) ==
  LET fences(i) == Cardinality({j \in 1..(i - 1) : text[j] = "fence"})
      asked == {i \in DOMAIN text : text[i] = "QUESTION:" /\ fences(i) % 2 = 0}
  IN /\ HasQuestion(text) <=> asked # {}
     /\ ~HasQuestion(StripProtocol(text))
     /\ HasQuestion(text) =>
          \E gap \in 0..Len(text) :
            DropBlanks(text) = StripProtocol(text) \o [i \in 1..gap |-> "blank"] \o ParseQuestion(text)
     /\ ParseDefers(text) = {i \in DOMAIN text : text[i] = "DEFER:" /\ fences(i) % 2 = 0}
=============================================================================

-------------------------- MODULE ReportingProofs --------------------------
(***************************************************************************)
(* What a run says to the outside, for every arrangement of the sinks and  *)
(* any number of failed calls, crashes and resumes.                        *)
(*                                                                         *)
(* While calls are being made, the methods already called have reached the *)
(* primary sink, the one at hand too once the primary is passed; and a     *)
(* comment that got past the github_pr sink is on the pull request, or a   *)
(* call of that sink failed.  That the methods are called in one order     *)
(* (the link, the comment, the state) makes the ticket explain itself.     *)
(*                                                                         *)
(* What there is to say comes out of a step's answer, which is cut in two  *)
(* at its first question, for answers of any length: the loop over the     *)
(* lines knows it is in a fence when an odd number of fences went by.      *)
(***************************************************************************)
EXTENDS Reporting, Protocol, Functions, WellFoundedInduction, FiniteSetTheorems,
        SequenceTheorems, TLAPS

Primary == setting.primary

\* The order of the methods, among those of one text.
Rank == [link |-> 0, comment |-> 1, unassign |-> 2, on_block |-> 3, in_review |-> 4]
Ordered(s) == \A i, j \in DOMAIN s : i < j => Rank[s[i]] < Rank[s[j]]

\* What is to be called for the text of this phase.
Planned ==
  IF phase = "ask"
  THEN {"comment"} \cup {m \in {"unassign"} : setting.unassign} \cup {m \in {"on_block"} : setting.onBlock}
  ELSE {"comment", "in_review"} \cup {m \in {"link"} : setting.forge}

\* The sinks that the method at hand has been called on.
Passed == Len(Sinks) - Len(queue)

QueueInv ==
  pc = "calls" =>
    /\ ~dry /\ todo # <<>> /\ Ordered(todo)
    /\ Len(queue) \in 1..Len(Sinks)
    /\ \A i \in 1..Len(queue) : queue[i] = Sinks[Passed + i]

\* Only what follows the pull request has its URL.
UrlInv ==
  /\ pc = "open_pr" /\ setting.forge /\ ~dry => pushed
  /\ file.url => setting.forge /\ pr /\ pushed
  /\ text.url => setting.forge /\ pr /\ pushed
  /\ pc = "calls" /\ text.url => phase = "report"
  /\ pc = "calls" /\ phase = "report" => told = (setting.forge /\ Has("github_pr"))

\* The primary sink has this method of the text, or is a github_pr sink that
\* has nowhere to put it.
PrimaryHas(m) ==
  \/ Got(Primary, m, text)
  \/ Primary = "github_pr" /\ (m \in {"comment", "link"} => ~text.url)

LeadInv ==
  /\ pc = "calls" => /\ \A m \in Planned \ Range(todo) : PrimaryHas(m)
                     /\ Passed > 0 => PrimaryHas(todo[1])
  /\ pc \in {"blocked", "record"} /\ ~dry => \A m \in Planned : PrimaryHas(m)
  /\ pc = "blocked" => phase = "ask"

\* The pull request has the report, or a call of its sink failed.
Served == "github_pr" \in failed \/ Got("github_pr", "comment", text)

ServedInv ==
  setting.forge =>
    /\ pc = "calls" /\ phase = "report" =>
         /\ todo[1] = "comment" /\ (\E i \in 1..Passed : Sinks[i] = "github_pr") => Served
         /\ "comment" \notin Range(todo) /\ Has("github_pr") => Served
    /\ pc = "record" /\ ~dry /\ Has("github_pr") => Served

\* What is to be posted as a report is one, or there is a question in its place.
WordInv ==
  /\ file = Empty \/ Reports(file) \/ Asked
  /\ pc \in {"push", "open_pr"} => Reports(file) \/ Asked
  /\ pc \in {"calls", "record", "raise"} /\ phase = "report" => Reports(text) \/ Asked
  /\ pc = "calls" /\ phase = "ask" => asks > 0
  /\ pc \in {"record", "raise"} => phase = "report"

\* What a comment has to explain.
Moves == {"unassign", "on_block", "in_review"}

\* The second half of TicketIsTold.
ToldInv ==
  \A s \in Sink : \A e \in posted[s] :
    /\ e.call \in Moves /\ Primary # "github_pr" => Got(Primary, "comment", e.text)
    /\ e.text.url =>
         /\ pr /\ pushed
         /\ s = Primary => \E f \in posted[s] : f.call = "link"

ReportInv ==
  /\ ReportingTypeOK /\ QueueInv /\ UrlInv
  /\ LeadInv /\ ServedInv /\ WordInv /\ ToldInv /\ PrimaryLeads /\ ReportIsOut

-----------------------------------------------------------------------------
(* Sequences of methods.                                                   *)

\* The first of a sequence, and the rest.
LEMMA FirstAndRest ==
  ASSUME NEW S, NEW s \in Seq(S), s # <<>>
  PROVE  /\ Len(s) \in Nat \ {0} /\ DOMAIN s = 1..Len(s)
         /\ Head(s) = s[1] /\ s[1] \in S
         /\ Tail(s) \in Seq(S) /\ Len(Tail(s)) = Len(s) - 1 /\ DOMAIN Tail(s) = 1..(Len(s) - 1)
         /\ \A i \in 1..(Len(s) - 1) : Tail(s)[i] = s[i + 1]
         /\ Len(s) = 1 => Tail(s) = <<>>
         /\ Len(s) > 1 => Tail(s) # <<>>
<1>1. Len(s) \in Nat \ {0} /\ DOMAIN s = 1..Len(s) /\ Head(s) = s[1] /\ s[1] \in S
  OBVIOUS
<1>2. Tail(s) \in Seq(S) /\ Len(Tail(s)) = Len(s) - 1
  OBVIOUS
<1>3. DOMAIN Tail(s) = 1..(Len(s) - 1)
  BY <1>2
<1>4. \A i \in 1..(Len(s) - 1) : Tail(s)[i] = s[i + 1]
  OBVIOUS
<1>5. ASSUME NEW t \in Seq(S) PROVE (t = <<>>) <=> (Len(t) = 0)
  OBVIOUS
<1>6. (Tail(s) = <<>>) <=> (Len(s) - 1 = 0)
  BY <1>2, <1>5
<1> QED BY <1>1, <1>2, <1>3, <1>4, <1>6

\* What is left of the methods keeps their order.
LEMMA RangeOfRest ==
  ASSUME NEW s \in Seq(Method), s # <<>>, Ordered(s)
  PROVE  /\ Range(s) = {s[1]} \cup Range(Tail(s))
         /\ Ordered(Tail(s))
         /\ s[1] \in Moves => "comment" \notin Range(s)
         /\ s[1] # "link" => "link" \notin Range(s)
<1>1. /\ Len(s) \in Nat \ {0} /\ DOMAIN s = 1..Len(s) /\ DOMAIN Tail(s) = 1..(Len(s) - 1)
      /\ \A i \in 1..(Len(s) - 1) : Tail(s)[i] = s[i + 1]
  BY FirstAndRest
<1>2. Range(s) = {s[1]} \cup Range(Tail(s))
  <2>1. ASSUME NEW i \in 1..Len(s) PROVE i = 1 \/ (i - 1 \in 1..(Len(s) - 1) /\ (i - 1) + 1 = i)
    BY <1>1
  <2>2. ASSUME NEW i \in 1..(Len(s) - 1) PROVE i + 1 \in 1..Len(s)
    BY <1>1
  <2>3. ASSUME NEW i \in 1..Len(s) PROVE s[i] \in {s[1]} \cup Range(Tail(s))
    <3>1. CASE i = 1
      BY <3>1
    <3>2. CASE i - 1 \in 1..(Len(s) - 1) /\ (i - 1) + 1 = i
      <4>1. Tail(s)[i - 1] = s[i]
        BY <1>1, <3>2
      <4> QED BY <1>1, <3>2, <4>1 DEF Range
    <3> QED BY <2>1, <3>1, <3>2
  <2>4. ASSUME NEW x \in Range(Tail(s)) PROVE x \in Range(s)
    BY <1>1, <2>2 DEF Range
  <2>5. s[1] \in Range(s)
    BY <1>1 DEF Range
  <2> QED BY <1>1, <2>3, <2>4, <2>5 DEF Range
<1>3. Ordered(Tail(s))
  BY <1>1 DEF Ordered
<1>4. ASSUME NEW m \in Range(s), m # s[1] PROVE Rank[s[1]] < Rank[m]
  <2>1. PICK i \in 1..Len(s) : m = s[i]
    BY <1>1 DEF Range
  <2>2. 1 \in 1..Len(s) /\ 1 < i
    BY <1>1, <1>4, <2>1
  <2> QED BY <1>1, <2>1, <2>2 DEF Ordered
<1>5. s[1] \in Method
  BY <1>1
<1>6. s[1] \in Moves => "comment" \notin Range(s)
  BY <1>4 DEF Rank, Moves
<1>7. s[1] # "link" => "link" \notin Range(s)
  BY <1>4, <1>5 DEF Rank, Method
<1> QED BY <1>2, <1>3, <1>6, <1>7

\* Methods strung together keep it too, where the later ones rank higher.
LEMMA Joined ==
  ASSUME NEW s \in Seq(Method), NEW t \in Seq(Method), Ordered(s), Ordered(t),
         \A x \in Range(s), y \in Range(t) : Rank[x] < Rank[y]
  PROVE  /\ s \o t \in Seq(Method) /\ Ordered(s \o t)
         /\ Range(s \o t) = Range(s) \cup Range(t)
         /\ s # <<>> => s \o t # <<>>
<1>1. /\ Len(s) \in Nat /\ DOMAIN s = 1..Len(s) /\ Len(t) \in Nat /\ DOMAIN t = 1..Len(t)
  OBVIOUS
<1>2. s \o t \in Seq(Method) /\ Len(s \o t) = Len(s) + Len(t) /\ DOMAIN (s \o t) = 1..(Len(s) + Len(t))
  OBVIOUS
<1>3. \A i \in 1..Len(s) : (s \o t)[i] = s[i]
  OBVIOUS
<1>4. ASSUME NEW i \in 1..Len(t)
      PROVE  Len(s) + i \in 1..(Len(s) + Len(t)) /\ (s \o t)[Len(s) + i] = t[i]
  BY <1>1
<1>5. ASSUME NEW i \in 1..(Len(s) + Len(t))
      PROVE  i \in 1..Len(s) \/ (i - Len(s) \in 1..Len(t) /\ Len(s) + (i - Len(s)) = i)
  BY <1>1
<1>6. ASSUME NEW i \in 1..(Len(s) + Len(t))
      PROVE  \/ i \in 1..Len(s) /\ (s \o t)[i] = s[i]
             \/ i - Len(s) \in 1..Len(t) /\ (s \o t)[i] = t[i - Len(s)]
  BY <1>3, <1>4, <1>5
<1>7. Range(s \o t) = Range(s) \cup Range(t)
  <2>1. ASSUME NEW x \in Range(s \o t) PROVE x \in Range(s) \cup Range(t)
    <3>1. PICK i \in 1..(Len(s) + Len(t)) : x = (s \o t)[i]
      BY <1>2 DEF Range
    <3> QED BY <1>1, <1>6, <3>1 DEF Range
  <2>2. ASSUME NEW x \in Range(s) PROVE x \in Range(s \o t)
    <3>1. PICK i \in 1..Len(s) : x = s[i]
      BY <1>1 DEF Range
    <3>2. i \in 1..(Len(s) + Len(t))
      BY <1>1
    <3> QED BY <1>2, <1>3, <3>1, <3>2 DEF Range
  <2>3. ASSUME NEW x \in Range(t) PROVE x \in Range(s \o t)
    <3>1. PICK i \in 1..Len(t) : x = t[i]
      BY <1>1 DEF Range
    <3> QED BY <1>2, <1>4, <3>1 DEF Range
  <2> QED BY <2>1, <2>2, <2>3
<1>8. Ordered(s \o t)
  <2> SUFFICES ASSUME NEW i \in 1..(Len(s) + Len(t)), NEW j \in 1..(Len(s) + Len(t)), i < j
               PROVE  Rank[(s \o t)[i]] < Rank[(s \o t)[j]]
    BY <1>2 DEF Ordered
  <2>1. CASE i \in 1..Len(s) /\ j \in 1..Len(s)
    BY <1>1, <1>3, <2>1 DEF Ordered
  <2>2. CASE i \in 1..Len(s) /\ j \notin 1..Len(s)
    <3>1. (s \o t)[i] \in Range(s) /\ (s \o t)[j] \in Range(t)
      BY <1>1, <1>3, <1>6, <2>2 DEF Range
    <3> QED BY <3>1
  <2>3. CASE i \notin 1..Len(s)
    <3>1. j \notin 1..Len(s) /\ i - Len(s) < j - Len(s)
      BY <1>1, <2>3
    <3>2. /\ i - Len(s) \in 1..Len(t) /\ (s \o t)[i] = t[i - Len(s)]
          /\ j - Len(s) \in 1..Len(t) /\ (s \o t)[j] = t[j - Len(s)]
      BY <1>6, <2>3, <3>1
    <3> QED BY <1>1, <3>1, <3>2 DEF Ordered
  <2> QED BY <2>1, <2>2, <2>3
<1>9. s # <<>> => s \o t # <<>>
  BY <1>1, <1>2
<1> QED BY <1>2, <1>7, <1>8, <1>9

\* One method, and one that is called on a condition.
LEMMA Single ==
  ASSUME NEW m \in Method
  PROVE  /\ <<m>> \in Seq(Method) /\ <<m>> # <<>> /\ Range(<<m>>) = {m} /\ Ordered(<<m>>)
         /\ \A c : /\ When(c, m) \in Seq(Method) /\ Ordered(When(c, m))
                   /\ Range(When(c, m)) = {x \in {m} : c}
<1>1. <<m>> \in Seq(Method) /\ <<m>> # <<>> /\ Range(<<m>>) = {m} /\ Ordered(<<m>>)
  BY DEF Range, Ordered
<1>2. <<>> \in Seq(Method) /\ Range(<<>>) = {} /\ Ordered(<<>>)
  BY DEF Range, Ordered
<1>3. ASSUME NEW c PROVE /\ When(c, m) \in Seq(Method) /\ Ordered(When(c, m))
                         /\ Range(When(c, m)) = {x \in {m} : c}
  <2>1. CASE c
    BY <1>1, <2>1 DEF When
  <2>2. CASE ~c
    BY <1>2, <2>2 DEF When
  <2> QED BY <2>1, <2>2
<1> QED BY <1>1, <1>3

\* The order, method by method.
LEMMA Ranks ==
  /\ Rank["link"] = 0 /\ Rank["comment"] = 1 /\ Rank["unassign"] = 2
  /\ Rank["on_block"] = 3 /\ Rank["in_review"] = 4
BY DEF Rank

\* What Ask calls.
LEMMA AskMethods ==
  ASSUME NEW u, NEW b
  PROVE  LET ms == <<"comment">> \o When(u, "unassign") \o When(b, "on_block") IN
         /\ ms \in Seq(Method) /\ ms # <<>> /\ Ordered(ms)
         /\ Range(ms) = {"comment"} \cup {m \in {"unassign"} : u} \cup {m \in {"on_block"} : b}
<1> DEFINE two == <<"comment">> \o When(u, "unassign")
<1>0. "comment" \in Method /\ "unassign" \in Method /\ "on_block" \in Method
  BY DEF Method
<1>a. /\ Range(<<"comment">>) = {"comment"}
      /\ Range(When(u, "unassign")) = {m \in {"unassign"} : u}
      /\ Range(When(b, "on_block")) = {m \in {"on_block"} : b}
  BY <1>0, Single
<1>1. \A x \in Range(<<"comment">>), y \in Range(When(u, "unassign")) : Rank[x] < Rank[y]
  BY <1>a, Ranks
<1>2. /\ two \in Seq(Method) /\ two # <<>> /\ Ordered(two)
      /\ Range(two) = {"comment"} \cup {m \in {"unassign"} : u}
  <2>1. /\ <<"comment">> \in Seq(Method) /\ <<"comment">> # <<>> /\ Ordered(<<"comment">>)
        /\ When(u, "unassign") \in Seq(Method) /\ Ordered(When(u, "unassign"))
    BY <1>0, Single
  <2>2. /\ two \in Seq(Method) /\ two # <<>> /\ Ordered(two)
        /\ Range(two) = Range(<<"comment">>) \cup Range(When(u, "unassign"))
    BY <1>1, <2>1, Joined
  <2> QED BY <1>a, <2>2
<1>3. \A x \in Range(two), y \in Range(When(b, "on_block")) : Rank[x] < Rank[y]
  BY <1>a, <1>2, Ranks
<1> HIDE DEF two
<1>4. /\ two \o When(b, "on_block") \in Seq(Method) /\ two \o When(b, "on_block") # <<>>
      /\ Ordered(two \o When(b, "on_block"))
      /\ Range(two \o When(b, "on_block")) = Range(two) \cup Range(When(b, "on_block"))
  BY <1>0, <1>2, <1>3, Single, Joined
<1> QED BY <1>a, <1>2, <1>4 DEF two

\* What OpenPr calls.
LEMMA ReportMethods ==
  ASSUME NEW url
  PROVE  /\ ReportCalls(url) \in Seq(Method) /\ ReportCalls(url) # <<>> /\ Ordered(ReportCalls(url))
         /\ Range(ReportCalls(url)) = {"comment", "in_review"} \cup {m \in {"link"} : url}
<1> DEFINE last == <<"comment", "in_review">>
<1>1. last \in Seq(Method) /\ Len(last) = 2 /\ last[1] = "comment" /\ last[2] = "in_review"
  BY DEF Method
<1>2. Range(last) = {"comment", "in_review"} /\ Ordered(last)
  BY DEF Range, Ordered, Rank
<1>3. "link" \in Method
  BY DEF Method
<1>4. \A x \in Range(When(url, "link")), y \in Range(last) : Rank[x] < Rank[y]
  <2>1. Range(When(url, "link")) = {m \in {"link"} : url}
    BY <1>3, Single
  <2> QED BY <1>2, <2>1, Ranks
<1>5. ReportCalls(url) = When(url, "link") \o last
  BY DEF ReportCalls
<1> HIDE DEF last
<1>6. /\ ReportCalls(url) \in Seq(Method) /\ Ordered(ReportCalls(url))
      /\ Range(ReportCalls(url)) = Range(When(url, "link")) \cup Range(last)
  BY <1>1, <1>2, <1>3, <1>4, <1>5, Single, Joined
<1>7. Range(When(url, "link")) = {m \in {"link"} : url}
  BY <1>3, Single
<1>8. "comment" \in Range(ReportCalls(url))
  BY <1>2, <1>6
<1>9. Range(<<>>) = {}
  BY DEF Range
<1>10. ReportCalls(url) # <<>>
  BY <1>8, <1>9
<1> QED BY <1>2, <1>6, <1>7, <1>10

-----------------------------------------------------------------------------
(* The setting, the sinks and the texts.                                   *)

\* The primary sink comes first, and only there.
LEMMA SinkFacts ==
  ASSUME setting \in Settings
  PROVE  /\ Primary \in Sink /\ setting.also \in Seq(Sink)
         /\ Sinks \in Seq(Sink) /\ Len(Sinks) \in Nat \ {0}
         /\ DOMAIN Sinks = 1..Len(Sinks)
         /\ Sinks[1] = Primary
         /\ \A i \in DOMAIN setting.also : setting.also[i] \in Sink /\ setting.also[i] # Primary
         /\ \A i \in 2..Len(Sinks) : Sinks[i] # Primary
         /\ setting.forge \in BOOLEAN /\ setting.jira \in BOOLEAN
<1>1. setting \in Setting /\ \A i \in DOMAIN setting.also : setting.also[i] # Primary
  BY ReportingConstants DEF Primary
<1>2. Primary \in Sink /\ setting.also \in Seq(Sink)
  BY <1>1 DEF Setting, Primary
<1>3. setting.forge \in BOOLEAN /\ setting.jira \in BOOLEAN
  BY <1>1 DEF Setting
<1>4. DOMAIN setting.also = 1..Len(setting.also) /\ Len(setting.also) \in Nat
  BY <1>2
<1>5. Sinks = <<Primary>> \o setting.also /\ <<Primary>> \in Seq(Sink)
  BY <1>2 DEF Sinks, Primary
<1>6. Sinks \in Seq(Sink) /\ Len(Sinks) = Len(setting.also) + 1
  BY <1>2, <1>5
<1>7. DOMAIN Sinks = 1..Len(Sinks)
  BY <1>6
<1>8. Sinks[1] = Primary /\ \A i \in 1..Len(setting.also) : Sinks[i + 1] = setting.also[i]
  BY <1>2, <1>4, <1>5
<1>9. ASSUME NEW i \in 2..Len(Sinks) PROVE Sinks[i] # Primary
  <2>1. i - 1 \in 1..Len(setting.also) /\ (i - 1) + 1 = i
    BY <1>4, <1>6
  <2>2. Sinks[i] = setting.also[i - 1]
    BY <1>8, <2>1
  <2> QED BY <1>1, <1>4, <2>1, <2>2
<1>10. /\ Len(Sinks) \in Nat \ {0}
       /\ \A i \in DOMAIN setting.also : setting.also[i] \in Sink /\ setting.also[i] # Primary
  BY <1>1, <1>2, <1>4, <1>6
<1> QED BY <1>2, <1>3, <1>6, <1>7, <1>8, <1>9, <1>10

\* No step changes the setting.
LEMMA SettingIsFixed ==
  ASSUME [Next]_vars
  PROVE  /\ setting' = setting /\ Sinks' = Sinks /\ Primary' = Primary
         /\ \A s : Has(s)' = Has(s)
<1>1. setting' = setting
  BY DEF Next, vars, Begin, Ask, RunReporter, Push, OpenPr, ForgeFails, Deliver, SecondaryFails,
         Raise, Record, Crash, Resume
<1> QED BY <1>1 DEF Sinks, Primary, Has

\* The texts are texts, and which of them have the URL.
LEMMA TextFacts ==
  /\ \A t \in Text : t.parts \in Seq({"question", "report"} \X Nat) /\ t.url \in BOOLEAN
  /\ \A t, u \in Text : [parts |-> t.parts \o u.parts, url |-> t.url \/ u.url] \in Text
  /\ \A t \in Text, b \in BOOLEAN :
       [t EXCEPT !.url = @ \/ b] \in Text /\ [t EXCEPT !.url = @ \/ b].url = (t.url \/ b)
  /\ \A n \in Nat : Question(n) \in Text /\ ~Question(n).url /\ Report(n) \in Text /\ ~Report(n).url
  /\ Empty \in Text /\ ~Empty.url
<1>1. \A t \in Text : t.parts \in Seq({"question", "report"} \X Nat) /\ t.url \in BOOLEAN
  BY DEF Text
<1>2. ASSUME NEW t \in Text, NEW u \in Text
      PROVE  [parts |-> t.parts \o u.parts, url |-> t.url \/ u.url] \in Text
  <2>1. t.parts \o u.parts \in Seq({"question", "report"} \X Nat)
    BY <1>1
  <2>2. (t.url \/ u.url) \in BOOLEAN
    BY Zenon
  <2> QED BY <2>1, <2>2 DEF Text
<1>3. ASSUME NEW t \in Text, NEW b \in BOOLEAN
      PROVE  [t EXCEPT !.url = @ \/ b] \in Text /\ [t EXCEPT !.url = @ \/ b].url = (t.url \/ b)
  BY DEF Text
<1>4. ASSUME NEW n \in Nat
      PROVE  Question(n) \in Text /\ ~Question(n).url /\ Report(n) \in Text /\ ~Report(n).url
  BY DEF Text, Question, Report
<1>5. Empty \in Text /\ ~Empty.url
  BY DEF Text, Empty
<1> QED BY <1>1, <1>2, <1>3, <1>4, <1>5

-----------------------------------------------------------------------------
(* A call of a sink.                                                       *)

\* What a call leaves on its sink and in ticket_comment.md.
LEMMA EffectOfCall ==
  ASSUME ReportingTypeOK, NEW s \in Sink, NEW m \in Method, Effect(s, m)
  PROVE  /\ posted' \in [Sink -> SUBSET [call : Method, text : Text]]
         /\ \A q \in Sink : posted[q] \subseteq posted'[q]
         /\ \A q \in Sink : q # s => posted'[q] = posted[q]
         /\ \A e \in posted'[s] : e \in posted[s] \/ e = [call |-> m, text |-> text]
         /\ s = "github_pr" => (posted'[s] # posted[s] => told /\ m \in {"comment", "link"})
         /\ s # "github_pr" \/ (told /\ m \in {"comment", "link"}) =>
              [call |-> m, text |-> text] \in posted'[s]
         /\ file' \in Text /\ (file'.url => file.url \/ text.url)
<1> DEFINE e == [call |-> m, text |-> text]
<1>1. e \in [call : Method, text : Text]
  BY DEF ReportingTypeOK
<1>2. file' \in Text /\ (file'.url => file.url \/ text.url)
  <2>1. CASE file' = file
    BY <2>1 DEF ReportingTypeOK
  <2>2. CASE file' = [parts |-> file.parts \o text.parts, url |-> file.url \/ text.url]
    BY <2>2, TextFacts DEF ReportingTypeOK
  <2> QED BY <2>1, <2>2 DEF Effect
<1>3. CASE s = "github_pr" /\ ~(told /\ m \in {"comment", "link"})
  BY <1>2, <1>3 DEF Effect, ReportingTypeOK
<1>4. CASE ~(s = "github_pr" /\ ~(told /\ m \in {"comment", "link"}))
  <2>1. posted' = [posted EXCEPT ![s] = @ \cup {e}]
    BY <1>4 DEF Effect
  <2>2. posted' \in [Sink -> SUBSET [call : Method, text : Text]]
    BY <1>1, <2>1 DEF ReportingTypeOK
  <2>3. posted'[s] = posted[s] \cup {e} /\ \A q \in Sink : q # s => posted'[q] = posted[q]
    BY <2>1 DEF ReportingTypeOK
  <2> QED BY <1>2, <1>4, <2>2, <2>3
<1> QED BY <1>3, <1>4

\* The call that is made next.
LEMMA CallAtHand ==
  ASSUME ReportingTypeOK, QueueInv, pc = "calls"
  PROVE  /\ Head(queue) \in Sink /\ Head(queue) = Sinks[Passed + 1] /\ Has(Head(queue))
         /\ Passed \in Nat /\ Passed < Len(Sinks) /\ (Passed = 0 <=> Head(queue) = Primary)
         /\ Head(todo) = todo[1] /\ todo[1] \in Method /\ todo[1] \in Range(todo)
<1>0. /\ Sinks \in Seq(Sink) /\ Len(Sinks) \in Nat /\ DOMAIN Sinks = 1..Len(Sinks)
      /\ Sinks[1] = Primary /\ \A i \in 2..Len(Sinks) : Sinks[i] # Primary
      /\ todo \in Seq(Method) /\ todo # <<>> /\ queue \in Seq(Sink)
      /\ Len(queue) \in 1..Len(Sinks) /\ \A i \in 1..Len(queue) : queue[i] = Sinks[Passed + i]
  BY SinkFacts DEF ReportingTypeOK, QueueInv
<1>1. queue # <<>> /\ Passed = Len(Sinks) - Len(queue)
  BY <1>0 DEF Passed
<1>2. Passed \in Nat /\ Passed < Len(Sinks) /\ queue[1] = Sinks[Passed + 1]
  BY <1>0, <1>1
<1>3. Head(queue) = queue[1] /\ Head(queue) \in Sink
  BY <1>0, <1>1, FirstAndRest
<1>4. Head(todo) = todo[1] /\ todo[1] \in Method /\ todo[1] \in Range(todo)
  BY <1>0, FirstAndRest DEF Range
<1>5. Passed + 1 \in 1..Len(Sinks) /\ (Passed = 0 \/ Passed + 1 \in 2..Len(Sinks))
  BY <1>0, <1>2
<1>6. Has(Head(queue))
  BY <1>0, <1>2, <1>3, <1>5 DEF Has
<1>7. Passed = 0 <=> Head(queue) = Primary
  <2>1. Passed = 0 => Head(queue) = Primary
    BY <1>0, <1>2, <1>3
  <2>2. Passed # 0 => Head(queue) # Primary
    BY <1>0, <1>2, <1>3, <1>5
  <2> QED BY <2>1, <2>2
<1> QED BY <1>2, <1>3, <1>4, <1>6, <1>7

\* Where the calls go on after one of them.
LEMMA GoesOn ==
  ASSUME ReportingTypeOK, QueueInv, pc = "calls", NextCall, UNCHANGED setting
  PROVE  /\ \/ /\ pc' = "calls" /\ todo' = todo
               /\ Len(queue') \in 1..Len(Sinks) /\ Passed' = Passed + 1
               /\ \A i \in 1..Len(queue') : queue'[i] = Sinks[Passed' + i]
            \/ /\ pc' = "calls" /\ todo' = Tail(todo) /\ todo' # <<>>
               /\ Len(queue') \in 1..Len(Sinks) /\ Passed' = 0 /\ Passed + 1 = Len(Sinks)
               /\ \A i \in 1..Len(queue') : queue'[i] = Sinks[Passed' + i]
            \/ /\ pc' = After /\ todo' = Tail(todo) /\ todo' = <<>> /\ Passed + 1 = Len(Sinks)
         /\ queue' \in Seq(Sink) /\ todo' \in Seq(Method)
<1>0. /\ Sinks \in Seq(Sink) /\ Len(Sinks) \in Nat
      /\ todo \in Seq(Method) /\ todo # <<>> /\ queue \in Seq(Sink)
      /\ Len(queue) \in 1..Len(Sinks) /\ \A i \in 1..Len(queue) : queue[i] = Sinks[Passed + i]
  BY SinkFacts DEF ReportingTypeOK, QueueInv
<1>1. queue # <<>> /\ Len(queue) \in Nat \ {0}
  BY <1>0
<1>a. \A n \in Nat \ {0} : n = 1 \/ n > 1
  OBVIOUS
<1>2. Sinks' = Sinks /\ Passed = Len(Sinks) - Len(queue) /\ Passed' = Len(Sinks) - Len(queue')
  BY DEF Sinks, Passed
<1>3. Passed \in 0..(Len(Sinks) - 1) /\ queue[1] = Sinks[Passed + 1]
  BY <1>0, <1>2
<1>5. CASE Len(queue) > 1
  <2>1. queue' = Tail(queue) /\ todo' = todo /\ pc' = "calls"
    BY <1>5 DEF NextCall
  <2>2. /\ queue' \in Seq(Sink) /\ Len(queue') = Len(queue) - 1
        /\ \A i \in 1..Len(queue') : queue'[i] = queue[i + 1]
    BY <1>0, <1>1, <2>1, FirstAndRest
  <2>3. Len(queue') \in 1..Len(Sinks) /\ Passed' = Passed + 1
    BY <1>0, <1>2, <1>5, <2>2
  <2>4. ASSUME NEW i \in 1..Len(queue') PROVE queue'[i] = Sinks[Passed' + i]
    <3>1. i + 1 \in 1..Len(queue) /\ Passed + (i + 1) = Passed' + i
      BY <1>0, <1>3, <2>2, <2>3
    <3> QED BY <1>0, <2>2, <3>1
  <2> QED BY <1>0, <1>3, <2>1, <2>2, <2>3, <2>4
<1>6. CASE Len(queue) = 1
  <2>0. todo' = Tail(todo) /\ Passed + 1 = Len(Sinks)
    BY <1>0, <1>2, <1>6 DEF NextCall
  <2>1. todo' \in Seq(Method) /\ Len(todo) \in Nat \ {0}
    BY <1>0, <2>0, FirstAndRest
  <2>2. CASE Len(todo) > 1
    <3>1. queue' = Sinks /\ pc' = "calls" /\ todo' # <<>>
      BY <1>0, <1>6, <2>0, <2>2, FirstAndRest DEF NextCall
    <3>2. /\ Passed' = 0 /\ Len(queue') \in 1..Len(Sinks)
          /\ \A i \in 1..Len(queue') : queue'[i] = Sinks[Passed' + i]
      BY <1>0, <1>2, <3>1
    <3> QED BY <1>0, <2>0, <2>1, <3>1, <3>2
  <2>3. CASE Len(todo) = 1
    <3>1. queue' = <<>> /\ pc' = After /\ todo' = <<>>
      BY <1>0, <1>6, <2>0, <2>3, FirstAndRest DEF NextCall
    <3>2. queue' \in Seq(Sink)
      BY <3>1
    <3> QED BY <2>0, <2>1, <3>1, <3>2
  <2>4. Len(todo) = 1 \/ Len(todo) > 1
    BY <1>a, <2>1
  <2> QED BY <2>2, <2>3, <2>4
<1>7. Len(queue) = 1 \/ Len(queue) > 1
  BY <1>1, <1>a
<1> QED BY <1>5, <1>6, <1>7

-----------------------------------------------------------------------------
(* Types.                                                                  *)

\* The variables keep their types.
LEMMA ReportingTypesKept ==
  ASSUME ReportingTypeOK, QueueInv, [Next]_vars
  PROVE  ReportingTypeOK'
<1> DEFINE Posted == [Sink -> SUBSET [call : Method, text : Text]]
<1>0. /\ setting' = setting /\ MaxAsks \in Nat /\ MaxAttempts \in Nat /\ MaxFaults \in Nat
      /\ Sinks \in Seq(Sink) /\ setting.forge \in BOOLEAN /\ setting.jira \in BOOLEAN
  BY SettingIsFixed, SinkFacts, ReportingConstants DEF ReportingTypeOK
<1>a. /\ todo \in Seq(Method) /\ queue \in Seq(Sink) /\ text \in Text /\ file \in Text
      /\ asks \in 0..MaxAsks /\ attempt \in 0..MaxAttempts /\ faults \in 0..MaxFaults
  BY DEF ReportingTypeOK
<1>b. <<>> \in Seq(Method) /\ <<>> \in Seq(Sink)
  OBVIOUS
<1> USE <1>0 DEF ReportingTypeOK
<1>1. CASE Begin
  BY <1>1 DEF Begin, Fails, calls
<1>2. CASE Ask
  <2>1. todo' \in Seq(Method) /\ queue' \in Seq(Sink) /\ pc' \in {"blocked", "calls"} /\ phase' = "ask"
    <3> DEFINE ms == <<"comment">> \o When(setting.unassign, "unassign") \o When(setting.onBlock, "on_block")
    <3>1. ms \in Seq(Method)
      BY AskMethods
    <3>2. Call("ask", ms, Question(asks + 1))
      BY <1>2 DEF Ask
    <3> HIDE DEF ms
    <3> QED BY <1>b, <3>1, <3>2 DEF Call
  <2>2. asks' \in 0..MaxAsks /\ asks + 1 \in Nat
    BY <1>2 DEF Ask
  <2>3. text' \in Text
    BY <1>2, <2>2, TextFacts DEF Ask, Call
  <2> QED BY <1>2, <2>1, <2>2, <2>3 DEF Ask, outside
<1>3. CASE RunReporter
  <2>1. attempt' \in 0..MaxAttempts /\ attempt + 1 \in Nat
    BY <1>3 DEF RunReporter
  <2>2. file' \in Text
    BY <1>3, <2>1, TextFacts DEF RunReporter, Reported
  <2> QED BY <1>3, <2>1, <2>2 DEF RunReporter, calls, outside
<1>4. CASE Push
  <2>1. pushed' \in BOOLEAN
    BY <1>4, Zenon DEF Push
  <2> QED BY <1>4, <2>1 DEF Push, calls, bounds
<1>5. CASE OpenPr
  <2>1. pr' \in BOOLEAN /\ told' \in BOOLEAN
    BY <1>5, Zenon DEF OpenPr
  <2>2. todo' \in Seq(Method) /\ queue' \in Seq(Sink) /\ pc' \in {"record", "calls"} /\ phase' = "report"
    BY <1>b, <1>5, ReportMethods DEF OpenPr, Call
  <2>3. PICK b \in BOOLEAN : text' = [file EXCEPT !.url = @ \/ b]
    BY <1>5 DEF OpenPr, Call
  <2>4. text' \in Text
    BY <1>a, <2>3, TextFacts
  <2> QED BY <1>5, <2>1, <2>2, <2>4 DEF OpenPr, bounds
<1>6. CASE ForgeFails
  <2>1. pushed' \in BOOLEAN /\ pr' \in BOOLEAN
    BY <1>6 DEF ForgeFails
  <2> QED BY <1>6, <2>1 DEF ForgeFails, Fails, calls
<1>7. CASE Deliver
  <2>1. todo' \in Seq(Method) /\ queue' \in Seq(Sink) /\ pc' \in {"calls", "blocked", "record"}
    BY <1>7, GoesOn DEF Deliver, After
  <2>2. Head(queue) \in Sink /\ Head(todo) \in Method
    BY <1>7, CallAtHand DEF Deliver
  <2>3. posted' \in Posted /\ file' \in Text
    BY <1>7, <2>2, EffectOfCall DEF Deliver
  <2> QED BY <1>7, <2>1, <2>3 DEF Deliver, bounds
<1>8. CASE SecondaryFails
  <2>1. todo' \in Seq(Method) /\ queue' \in Seq(Sink) /\ pc' \in {"calls", "blocked", "record"}
    BY <1>8, GoesOn DEF SecondaryFails, After
  <2>2. Head(queue) \in Sink /\ Head(todo) \in Method
    BY <1>8, CallAtHand DEF SecondaryFails
  <2>3. posted' \in Posted /\ file' \in Text
    BY <1>8, <2>2, EffectOfCall DEF SecondaryFails, NoEffect
  <2> QED BY <1>8, <2>1, <2>2, <2>3 DEF SecondaryFails, Fails
<1>9. CASE Raise
  <2>2. Head(queue) \in Sink /\ Head(todo) \in Method
    BY <1>9, CallAtHand DEF Raise
  <2>3. posted' \in Posted /\ file' \in Text
    BY <1>9, <2>2, EffectOfCall DEF Raise, NoEffect
  <2> QED BY <1>9, <1>b, <2>3 DEF Raise, Fails
<1>10. CASE Record
  BY <1>10 DEF Record, calls, outside, bounds
<1>11. CASE Crash
  BY <1>11, <1>b DEF Crash, Fails, outside
<1>12. CASE Resume
  <2>1. told' \in BOOLEAN /\ dry' \in BOOLEAN
    BY <1>12, Zenon DEF Resume
  <2> QED BY <1>12, <2>1 DEF Resume, calls, outside, bounds
<1>13. CASE UNCHANGED vars
  BY <1>13 DEF vars, calls, outside, bounds
<1> QED
  BY <1>1, <1>2, <1>3, <1>4, <1>5, <1>6, <1>7, <1>8, <1>9, <1>10, <1>11, <1>12, <1>13 DEF Next

-----------------------------------------------------------------------------
(* What the calls leave of the invariant.                                  *)

\* After a call the primary sink has it, whichever sink it was made on.
LEMMA PrimaryGetsIt ==
  ASSUME ReportInv, pc = "calls", UNCHANGED <<setting, text>>, NEW m, m = todo[1],
         \/ Effect(Head(queue), Head(todo))
         \/ Passed > 0 /\ NoEffect
  PROVE  /\ PrimaryHas(m)'
         /\ \A n : PrimaryHas(n) => PrimaryHas(n)'
         /\ \A q \in Sink : posted[q] \subseteq posted'[q]
         /\ file'.url => file.url \/ text.url
<1> USE DEF ReportInv
<1>a. Primary \in Sink /\ Primary' = Primary
  BY SinkFacts DEF ReportingTypeOK, Primary
<1>b. /\ Head(queue) \in Sink /\ m \in Method /\ Head(todo) = m
      /\ Passed \in Nat /\ (Passed = 0 => Head(queue) = Primary) /\ Has(Head(queue))
  BY CallAtHand
<1>0. /\ Primary \in Sink /\ Primary' = Primary /\ Head(queue) \in Sink /\ m \in Method
      /\ Head(todo) = m /\ Passed \in Nat /\ (Passed = 0 => Head(queue) = Primary) /\ Has(Head(queue))
  BY <1>a, <1>b
<1>1. /\ \A q \in Sink : posted[q] \subseteq posted'[q]
      /\ file'.url => file.url \/ text.url
  BY <1>0, EffectOfCall DEF NoEffect
<1>2. ASSUME NEW n, PrimaryHas(n) PROVE PrimaryHas(n)'
  BY <1>0, <1>1, <1>2 DEF PrimaryHas, Got
<1>3. PrimaryHas(m)'
  <2>1. CASE Passed > 0
    BY <1>2, <2>1 DEF LeadInv
  <2>2. CASE Passed = 0
    <3>1. Effect(Primary, m)
      BY <1>0, <2>2
    <3>2. Primary # "github_pr" \/ (told /\ m \in {"comment", "link"}) => Got(Primary, m, text)'
      BY <1>0, <3>1, EffectOfCall DEF Got
    <3>3. Primary = "github_pr" /\ text.url => told
      BY <1>0, <2>2 DEF UrlInv
    <3> QED BY <1>0, <3>2, <3>3 DEF PrimaryHas
  <2> QED BY <1>0, <2>1, <2>2
<1> QED BY <1>1, <1>2, <1>3

\* What a call leaves on the sinks.
LEMMA PostedKept ==
  ASSUME ReportInv, pc = "calls", UNCHANGED <<setting, text, pr, pushed>>,
         \/ Effect(Head(queue), Head(todo))
         \/ NoEffect
  PROVE  PrimaryLeads' /\ ToldInv'
<1> DEFINE s == Head(queue)
           m == Head(todo)
           new == [call |-> m, text |-> text]
<1> USE DEF ReportInv
<1>0. /\ Primary \in Sink /\ Primary' = Primary /\ s \in Sink /\ m \in Method
      /\ m = todo[1] /\ Passed \in Nat /\ (Passed = 0 <=> s = Primary) /\ Has(s)
      /\ \A i \in DOMAIN setting.also : setting.also[i] \in Sink /\ setting.also[i] # Primary
  <2>1. Primary \in Sink /\ Primary' = Primary
    BY SinkFacts DEF ReportingTypeOK, Primary
  <2>2. \A i \in DOMAIN setting.also : setting.also[i] \in Sink /\ setting.also[i] # Primary
    BY SinkFacts DEF ReportingTypeOK
  <2>3. s \in Sink /\ m = todo[1] /\ m \in Method /\ Passed \in Nat
        /\ (Passed = 0 <=> s = Primary) /\ Has(s)
    BY CallAtHand
  <2> QED BY <2>1, <2>2, <2>3
<1>1. CASE NoEffect
  BY <1>0, <1>1 DEF NoEffect, PrimaryLeads, ToldInv, Got, Primary
<1>2. CASE Effect(s, m)
  <2>1. /\ \A q \in Sink : posted[q] \subseteq posted'[q]
        /\ \A q \in Sink : q # s => posted'[q] = posted[q]
        /\ \A e \in posted'[s] : e \in posted[s] \/ e = new
        /\ s = "github_pr" => (posted'[s] # posted[s] => told /\ m \in {"comment", "link"})
    BY <1>0, <1>2, EffectOfCall
  <2>2. Passed > 0 => PrimaryHas(m)
    BY <1>0 DEF LeadInv
  <2>3. PrimaryLeads'
    <3> SUFFICES ASSUME NEW i \in DOMAIN setting.also, NEW e \in posted'[setting.also[i]]
                 PROVE  \/ e \in posted'[Primary]
                        \/ Primary = "github_pr" /\ (e.call \in {"comment", "link"} => ~e.text.url)
      BY DEF PrimaryLeads, Primary
    <3>1. CASE e \in posted[setting.also[i]]
      BY <1>0, <2>1, <3>1 DEF PrimaryLeads, Primary
    <3>2. CASE e \notin posted[setting.also[i]]
      <4>1. s = setting.also[i] /\ e = new
        BY <1>0, <2>1, <3>2
      <4>2. PrimaryHas(m)
        BY <1>0, <2>2, <4>1
      <4> QED BY <1>0, <2>1, <4>1, <4>2 DEF PrimaryHas, Got
    <3> QED BY <3>1, <3>2
  <2>4. ToldInv'
    <3> SUFFICES ASSUME NEW q \in Sink, NEW e \in posted'[q]
                 PROVE  /\ e.call \in Moves /\ Primary # "github_pr" =>
                             [call |-> "comment", text |-> e.text] \in posted'[Primary]
                        /\ e.text.url =>
                             /\ pr /\ pushed
                             /\ q = Primary => \E f \in posted'[q] : f.call = "link"
      BY <1>0 DEF ToldInv, Got
    <3>1. CASE e \in posted[q]
      BY <1>0, <2>1, <3>1 DEF ToldInv, Got
    <3>2. CASE e \notin posted[q]
      <4>1. q = s /\ e = new /\ posted'[s] # posted[s]
        BY <2>1, <3>2
      <4>2. todo \in Seq(Method) /\ todo # <<>> /\ Ordered(todo)
        BY DEF ReportingTypeOK, QueueInv
      <4>3. ASSUME m \in Moves, Primary # "github_pr"
            PROVE  [call |-> "comment", text |-> text] \in posted'[Primary]
        <5>1. "comment" \notin Range(todo)
          BY <1>0, <4>2, <4>3, RangeOfRest
        <5>2. PrimaryHas("comment")
          BY <5>1 DEF LeadInv, Planned
        <5> QED BY <1>0, <2>1, <4>3, <5>2 DEF PrimaryHas, Got
      <4>4. ASSUME text.url PROVE pr /\ pushed
        BY <4>4 DEF UrlInv
      <4>5. ASSUME text.url, q = Primary PROVE \E f \in posted'[q] : f.call = "link"
        <5>1. CASE m = "link"
          BY <4>1, <5>1
        <5>2. CASE m # "link"
          <6>1. "link" \notin Range(todo)
            BY <1>0, <4>2, <5>2, RangeOfRest
          <6>2. PrimaryHas("link")
            BY <4>5, <6>1 DEF LeadInv, UrlInv, Planned
          <6>3. [call |-> "link", text |-> text] \in posted[Primary]
            BY <4>5, <6>2 DEF PrimaryHas, Got
          <6> QED BY <1>0, <2>1, <4>5, <6>3
        <5> QED BY <5>1, <5>2
      <4> QED BY <4>1, <4>3, <4>4, <4>5
    <3> QED BY <3>1, <3>2
  <2> QED BY <2>3, <2>4
<1> QED BY <1>1, <1>2

\* The loop goes on after a call that was made: the primary sink has it, and so
\* has the pull request, if the call was the comment of a report on github_pr and
\* did not fail.
LEMMA CallMade ==
  ASSUME ReportInv, pc = "calls", NextCall,
         UNCHANGED <<setting, dry, phase, text, told, pushed, pr>>,
         NEW m, m = todo[1],
         PrimaryHas(m)', \A n : PrimaryHas(n) => PrimaryHas(n)',
         \A q \in Sink : posted[q] \subseteq posted'[q],
         failed \subseteq failed',
         file'.url => file.url \/ text.url,
         Head(queue) = "github_pr" /\ m = "comment" /\ setting.forge /\ phase = "report" => Served'
  PROVE  QueueInv' /\ UrlInv' /\ LeadInv' /\ ServedInv' /\ ReportIsOut'
<1> USE DEF ReportInv
<1>0. /\ Sinks' = Sinks /\ Primary' = Primary /\ Planned' = Planned /\ DOMAIN Sinks = 1..Len(Sinks)
      /\ Passed \in Nat /\ Head(queue) = Sinks[Passed + 1]
      /\ \A s : Has(s)' = Has(s) /\ (Has(s) <=> \E i \in 1..Len(Sinks) : Sinks[i] = s)
  BY CallAtHand, SinkFacts DEF ReportingTypeOK, Sinks, Primary, Planned, Has
<1>1. /\ todo \in Seq(Method) /\ todo # <<>> /\ Ordered(todo) /\ ~dry /\ pc' # "done"
  BY DEF ReportingTypeOK, QueueInv, NextCall, After
<1>2. /\ Range(todo) = {m} \cup Range(Tail(todo)) /\ Ordered(Tail(todo))
  BY <1>1, RangeOfRest
<1>3. Range(<<>>) = {}
  BY DEF Range
<1>4. Served => Served'
  BY DEF Served, Got, Sink
<1>5. UrlInv'
  <2>1. pc' \in {"calls", "blocked", "record"}
    BY GoesOn DEF After
  <2> QED BY <1>0, <2>1 DEF UrlInv
<1>6. ReportIsOut'
  BY <1>1 DEF ReportIsOut
<1>7. ASSUME setting.forge, phase = "report", "comment" \notin Range(Tail(todo)), Has("github_pr"),
             Passed + 1 = Len(Sinks)
      PROVE  Served'
  <2>1. CASE m = "comment"
    <3>1. PICK i \in 1..Len(Sinks) : Sinks[i] = "github_pr"
      BY <1>0, <1>7
    <3>2. i \in 1..Passed \/ i = Passed + 1
      BY <1>0, <1>7
    <3>3. CASE i \in 1..Passed
      BY <1>4, <1>7, <2>1, <3>1, <3>3 DEF ServedInv
    <3>4. CASE i = Passed + 1
      BY <1>0, <1>7, <2>1, <3>1, <3>4
    <3> QED BY <3>2, <3>3, <3>4
  <2>2. CASE m # "comment"
    BY <1>2, <1>4, <1>7, <2>2 DEF ServedInv
  <2> QED BY <2>1, <2>2
<1>8. CASE /\ pc' = "calls" /\ todo' = todo
           /\ Len(queue') \in 1..Len(Sinks) /\ Passed' = Passed + 1
           /\ \A i \in 1..Len(queue') : queue'[i] = Sinks[Passed' + i]
  <2>1. QueueInv'
    BY <1>0, <1>1, <1>8 DEF QueueInv, Ordered
  <2>2. LeadInv'
    BY <1>0, <1>8 DEF LeadInv, Range
  <2>3. ServedInv'
    <3>1. ASSUME NEW i \in 1..Passed', setting.forge, phase = "report", m = "comment", Sinks[i] = "github_pr"
          PROVE  Served'
      <4>1. i \in 1..Passed \/ i = Passed + 1
        BY <1>0, <1>8, <3>1
      <4>2. CASE i \in 1..Passed
        BY <1>4, <3>1, <4>2 DEF ServedInv
      <4>3. CASE i = Passed + 1
        BY <1>0, <3>1, <4>3
      <4> QED BY <4>1, <4>2, <4>3
    <3>2. ASSUME setting.forge, phase = "report", "comment" \notin Range(todo), Has("github_pr")
          PROVE  Served'
      BY <1>4, <3>2 DEF ServedInv
    <3> QED BY <1>0, <1>8, <3>1, <3>2 DEF ServedInv, Range
  <2> QED BY <1>5, <1>6, <2>1, <2>2, <2>3
<1>9. CASE /\ pc' = "calls" /\ todo' = Tail(todo) /\ todo' # <<>>
           /\ Len(queue') \in 1..Len(Sinks) /\ Passed' = 0 /\ Passed + 1 = Len(Sinks)
           /\ \A i \in 1..Len(queue') : queue'[i] = Sinks[Passed' + i]
  <2>1. QueueInv'
    BY <1>0, <1>1, <1>2, <1>9 DEF QueueInv, Ordered
  <2>2. LeadInv'
    <3>1. \A n \in Planned \ Range(Tail(todo)) : PrimaryHas(n)'
      BY <1>2 DEF LeadInv
    <3>2. Range(todo)' = Range(Tail(todo))
      BY <1>9 DEF Range
    <3> QED BY <1>0, <1>9, <3>1, <3>2 DEF LeadInv
  <2>3. ServedInv'
    BY <1>0, <1>7, <1>9 DEF ServedInv, Range
  <2> QED BY <1>5, <1>6, <2>1, <2>2, <2>3
<1>10. CASE pc' = After /\ todo' = Tail(todo) /\ todo' = <<>> /\ Passed + 1 = Len(Sinks)
  <2>1. QueueInv'
    BY <1>10 DEF QueueInv, After
  <2>2. LeadInv'
    <3>1. \A n \in Planned : PrimaryHas(n)'
      BY <1>2, <1>3, <1>10 DEF LeadInv
    <3> QED BY <1>0, <1>10, <3>1 DEF LeadInv, After
  <2>3. ServedInv'
    <3>1. setting.forge /\ phase = "report" /\ Has("github_pr") => Served'
      BY <1>3, <1>7, <1>10
    <3>2. pc' = "record" => phase = "report"
      BY <1>10 DEF After, ReportingTypeOK
    <3>3. pc' # "calls" /\ setting' = setting
      BY <1>10 DEF After
    <3> QED BY <1>0, <3>1, <3>2, <3>3 DEF ServedInv
  <2> QED BY <1>5, <1>6, <2>1, <2>2, <2>3
<1> QED BY <1>8, <1>9, <1>10, GoesOn

\* What the other actions leave of the invariant.
LEMMA ReportKept ==
  ASSUME ReportInv, [Next]_vars
  PROVE  QueueInv' /\ UrlInv' /\ LeadInv' /\ ServedInv' /\ ToldInv' /\ PrimaryLeads' /\ ReportIsOut'
<1> USE DEF ReportInv
<1>0. /\ setting' = setting /\ Sinks' = Sinks /\ Primary' = Primary /\ \A s : Has(s)' = Has(s)
      /\ Sinks \in Seq(Sink) /\ Len(Sinks) \in Nat \ {0} /\ Primary \in Sink
      /\ \A i \in DOMAIN setting.also : setting.also[i] \in Sink
  <2>1. setting \in Settings
    BY DEF ReportingTypeOK
  <2>2. \A i \in DOMAIN setting.also : setting.also[i] \in Sink
    BY <2>1, SinkFacts
  <2>3. Sinks \in Seq(Sink) /\ Len(Sinks) \in Nat \ {0} /\ Primary \in Sink
    BY <2>1, SinkFacts
  <2> QED BY <2>2, <2>3, SettingIsFixed
\* Steps that post nothing and undo nothing at the forge.
<1>a. ASSUME posted' = posted, pr => pr', pushed => pushed'
      PROVE  ToldInv' /\ PrimaryLeads'
  BY <1>0, <1>a DEF ToldInv, PrimaryLeads, Got, Primary
\* The calls of one text begin, or a dry run passes them over.
<1>b. ASSUME NEW what, NEW ms, NEW t, Call(what, ms, t), ms \in Seq(Method), ms # <<>>, Ordered(ms),
             dry' = dry,
             Range(ms) = IF what = "ask"
               THEN {"comment"} \cup {m \in {"unassign"} : setting.unassign}
                                \cup {m \in {"on_block"} : setting.onBlock}
               ELSE {"comment", "in_review"} \cup {m \in {"link"} : setting.forge}
      PROVE  QueueInv' /\ LeadInv' /\ ServedInv' /\ ReportIsOut'
  <2>1. CASE dry
    BY <1>0, <1>b, <2>1 DEF Call, QueueInv, LeadInv, ServedInv, ReportIsOut
  <2>2. CASE ~dry
    <3>1. pc' = "calls" /\ todo' = ms /\ queue' = Sinks /\ phase' = what
      BY <1>b, <2>2 DEF Call
    <3>2. Passed' = 0 /\ Len(queue') \in 1..Len(Sinks)
      BY <1>0, <3>1 DEF Passed
    <3>3. Range(todo)' = Range(ms) /\ Ordered(todo)'
      BY <1>b, <3>1 DEF Range, Ordered
    <3>4. Planned' = Range(ms)
      BY <1>0, <1>b, <3>1 DEF Planned
    <3>5. QueueInv'
      BY <1>0, <1>b, <2>2, <3>1, <3>2, <3>3 DEF QueueInv
    <3>6. LeadInv'
      BY <3>1, <3>2, <3>3, <3>4 DEF LeadInv
    <3>7. ServedInv'
      <4>1. setting.forge \in BOOLEAN
        BY SinkFacts DEF ReportingTypeOK
      <4>2. what = "report" => "comment" \in Range(ms)
        BY <1>b
      <4> QED BY <1>0, <3>1, <3>2, <3>3, <4>2 DEF ServedInv
    <3>8. ReportIsOut'
      BY <3>1 DEF ReportIsOut
    <3> QED BY <3>5, <3>6, <3>7, <3>8
  <2> QED BY <2>1, <2>2
<1>1. CASE Begin
  <2>1. UNCHANGED <<calls, dry, told, file, failed, posted, pushed, pr>> /\ pc' \in {"work", "gone"}
    BY <1>1 DEF Begin
  <2> QED BY <1>0, <1>a, <2>1 DEF calls, QueueInv, UrlInv, LeadInv, ServedInv, ReportIsOut
<1>2. CASE Ask
  <2> DEFINE ms == <<"comment">> \o When(setting.unassign, "unassign") \o When(setting.onBlock, "on_block")
  <2>1. /\ Call("ask", ms, Question(asks + 1)) /\ UNCHANGED <<dry, told, file, failed, outside>>
    BY <1>2 DEF Ask
  <2>2. /\ ms \in Seq(Method) /\ ms # <<>> /\ Ordered(ms)
        /\ Range(ms) = {"comment"} \cup {m \in {"unassign"} : setting.unassign}
                                    \cup {m \in {"on_block"} : setting.onBlock}
    BY AskMethods
  <2> HIDE DEF ms
  <2>3. QueueInv' /\ LeadInv' /\ ServedInv' /\ ReportIsOut'
    BY <1>b, <2>1, <2>2
  <2>4. UrlInv'
    <3>1. asks + 1 \in Nat
      BY ReportingConstants DEF ReportingTypeOK
    <3>2. ~text'.url /\ phase' = "ask" /\ pc' \in {"calls", "blocked"}
      BY <2>1, <3>1, TextFacts DEF Call
    <3> QED BY <1>0, <2>1, <3>2 DEF UrlInv, outside
  <2> QED BY <1>a, <2>1, <2>3, <2>4 DEF outside
<1>3. CASE RunReporter
  <2>1. /\ UNCHANGED <<dry, calls, told, outside>> /\ pc' = "push"
        /\ file' \in {Report(attempt + 1), file}
    BY <1>3 DEF RunReporter, Reported
  <2>2. ~Report(attempt + 1).url
    <3>1. attempt + 1 \in Nat
      BY ReportingConstants DEF ReportingTypeOK
    <3> QED BY <3>1, TextFacts
  <2>3. UrlInv'
    BY <1>0, <2>1, <2>2 DEF UrlInv, calls, outside
  <2> QED BY <1>0, <1>a, <2>1, <2>3 DEF outside, QueueInv, LeadInv, ServedInv, ReportIsOut
<1>4. CASE Push
  <2>1. /\ UNCHANGED <<dry, calls, told, file, failed, posted, pr>> /\ pc' = "open_pr"
        /\ pushed' = (pushed \/ (setting.forge /\ ~dry))
    BY <1>4 DEF Push
  <2> QED BY <1>0, <1>a, <2>1 DEF calls, QueueInv, UrlInv, LeadInv, ServedInv, ReportIsOut
<1>5. CASE OpenPr
  <2> DEFINE url == setting.forge /\ ~dry
  <2>1. /\ Call("report", ReportCalls(url), [file EXCEPT !.url = @ \/ url])
        /\ pr' = (pr \/ url) /\ told' = (url /\ Has("github_pr"))
        /\ UNCHANGED <<dry, file, failed, posted, pushed>> /\ pc = "open_pr"
    BY <1>5 DEF OpenPr
  <2>2. pc' \in {"calls", "record"} /\ phase' = "report"
    BY <2>1 DEF Call
  <2>3. text'.url => url \/ file.url
    <3>1. url \in BOOLEAN /\ file \in Text
      BY SinkFacts DEF ReportingTypeOK
    <3>2. text' = [file EXCEPT !.url = @ \/ url]
      BY <2>1 DEF Call
    <3> HIDE DEF url
    <3> QED BY <3>1, <3>2, TextFacts
  <2>4. pc' = "calls" => ~dry
    BY <2>1 DEF Call
  <2>5. UrlInv'
    BY <1>0, <2>1, <2>2, <2>3, <2>4 DEF UrlInv
  <2>6. QueueInv' /\ LeadInv' /\ ServedInv' /\ ReportIsOut'
    <3>1. CASE dry
      BY <1>0, <2>1, <3>1 DEF Call, QueueInv, LeadInv, ServedInv, ReportIsOut
    <3>2. CASE ~dry
      <4>1. /\ ReportCalls(url) \in Seq(Method) /\ ReportCalls(url) # <<>> /\ Ordered(ReportCalls(url))
            /\ Range(ReportCalls(url)) = {"comment", "in_review"} \cup {m \in {"link"} : setting.forge}
        BY <3>2, ReportMethods
      <4> QED BY <1>b, <2>1, <4>1
    <3> QED BY <3>1, <3>2
  <2> QED BY <1>a, <2>1, <2>5, <2>6
<1>6. CASE ForgeFails
  <2>0. (pr' = pr \/ pr' = TRUE) /\ (pushed' = pushed \/ pushed' = TRUE)
    BY <1>6 DEF ForgeFails
  <2>1. /\ UNCHANGED <<dry, calls, told, file, failed, posted>> /\ pc' = "off"
        /\ (pr => pr') /\ (pushed => pushed')
    BY <1>6, <2>0 DEF ForgeFails
  <2> QED BY <1>0, <1>a, <2>1 DEF calls, QueueInv, UrlInv, LeadInv, ServedInv, ReportIsOut
<1>7. CASE Deliver
  <2>1. /\ pc = "calls" /\ Effect(Head(queue), Head(todo)) /\ NextCall
        /\ UNCHANGED <<setting, dry, phase, text, told, failed, pushed, pr>>
    BY <1>7 DEF Deliver
  <2>2. /\ Head(queue) \in Sink /\ Has(Head(queue)) /\ Head(todo) = todo[1] /\ todo[1] \in Method
    BY <2>1, CallAtHand
  <2>3. Head(queue) = "github_pr" /\ todo[1] = "comment" /\ setting.forge /\ phase = "report" => Served'
    <3>1. told => ([call |-> todo[1], text |-> text] \in posted'["github_pr"]
                     \/ Head(queue) # "github_pr" \/ todo[1] # "comment")
      BY <2>1, <2>2, EffectOfCall
    <3> QED BY <2>1, <2>2, <3>1 DEF UrlInv, Served, Got
  <2>4. QueueInv' /\ UrlInv' /\ LeadInv' /\ ServedInv' /\ ReportIsOut'
    BY <2>1, <2>3, CallMade, PrimaryGetsIt
  <2>5. ToldInv' /\ PrimaryLeads'
    BY <2>1, PostedKept
  <2> QED BY <2>4, <2>5
<1>8. CASE SecondaryFails
  <2>1. /\ pc = "calls" /\ (Effect(Head(queue), Head(todo)) \/ NoEffect) /\ NextCall
        /\ Head(queue) # setting.primary /\ failed' = failed \cup {Head(queue)}
        /\ UNCHANGED <<setting, dry, phase, text, told, pushed, pr>>
    BY <1>8 DEF SecondaryFails
  <2>2. Passed > 0
    <3>1. Passed \in Nat /\ Passed # 0
      BY <2>1, CallAtHand DEF Primary
    <3> QED BY <3>1
  <2>3. Head(queue) = "github_pr" /\ todo[1] = "comment" /\ setting.forge /\ phase = "report" => Served'
    BY <2>1 DEF Served
  <2>4. QueueInv' /\ UrlInv' /\ LeadInv' /\ ServedInv' /\ ReportIsOut'
    BY <2>1, <2>2, <2>3, CallMade, PrimaryGetsIt
  <2>5. ToldInv' /\ PrimaryLeads'
    BY <2>1, PostedKept
  <2> QED BY <2>4, <2>5
<1>9. CASE Raise
  <2>1. /\ pc = "calls" /\ (Effect(Head(queue), Head(todo)) \/ NoEffect)
        /\ UNCHANGED <<setting, dry, phase, text, told, failed, pushed, pr>>
        /\ pc' \in {"raise", "off"}
    BY <1>9 DEF Raise
  <2>2. file'.url => file.url \/ text.url
    BY <2>1, CallAtHand, EffectOfCall DEF NoEffect
  <2>3. ToldInv' /\ PrimaryLeads'
    BY <2>1, PostedKept
  <2> QED BY <1>0, <2>1, <2>2, <2>3 DEF QueueInv, UrlInv, LeadInv, ServedInv, ReportIsOut
<1>10. CASE Record
  <2>1. /\ UNCHANGED <<dry, calls, told, failed, outside>> /\ file' = text
        /\ pc \in {"record", "raise"} /\ pc' = IF pc = "record" THEN "done" ELSE "off"
    BY <1>10 DEF Record
  <2>2. ReportIsOut'
    <3> SUFFICES ASSUME pc = "record" PROVE ReportIsOut'
      BY <2>1 DEF ReportIsOut
    <3>0. Reports(text) \/ Asked
      BY DEF WordInv
    <3>1. dry \/ PrimaryHas("comment")
      BY DEF LeadInv, Planned
    <3>2. ~dry /\ setting.forge /\ Has("github_pr") => Served
      BY DEF ServedInv
    <3>3. Reports(file') \/ Asked'
      <4>1. asks' = asks
        BY <1>10 DEF Record, bounds
      <4> QED BY <1>0, <2>1, <3>0, <4>1 DEF Asked
    <3>4. dry' \/ Primary = "github_pr" \/ [call |-> "comment", text |-> file'] \in posted'[Primary]
      BY <2>1, <3>1 DEF PrimaryHas, Got, outside
    <3>5. ~dry' /\ setting.forge /\ Has("github_pr") =>
            "github_pr" \in failed' \/ [call |-> "comment", text |-> file'] \in posted'["github_pr"]
      BY <2>1, <3>2 DEF Served, Got, outside
    <3>6. Reports(file)' <=> Reports(file')
      BY DEF Reports
    <3> QED BY <1>0, <3>3, <3>4, <3>5, <3>6 DEF ReportIsOut, Got, Primary
  <2> QED BY <1>0, <1>a, <2>1, <2>2 DEF calls, outside, QueueInv, UrlInv, LeadInv, ServedInv
<1>11. CASE Crash
  <2>1. UNCHANGED <<dry, phase, text, told, file, failed, outside>> /\ pc' = "off"
    BY <1>11 DEF Crash
  <2> QED BY <1>0, <1>a, <2>1 DEF outside, QueueInv, UrlInv, LeadInv, ServedInv, ReportIsOut
<1>12. CASE Resume
  <2>1. UNCHANGED <<calls, file, failed, outside>> /\ pc' = "work"
    BY <1>12 DEF Resume
  <2> QED BY <1>0, <1>a, <2>1 DEF calls, outside, QueueInv, UrlInv, LeadInv, ServedInv, ReportIsOut
<1>13. CASE UNCHANGED vars
  <2>1. UNCHANGED <<setting, dry, pc, phase, todo, queue, text, told, file, failed, posted, pushed,
                    pr, asks>>
    BY <1>13 DEF vars, calls, outside, bounds
  <2>2. /\ Sinks' = Sinks /\ Passed' = Passed /\ Planned' = Planned /\ Served' = Served
        /\ Reports(file)' = Reports(file) /\ Asked' = Asked
        /\ Range(todo)' = Range(todo) /\ Ordered(todo)' = Ordered(todo)
        /\ \A m : PrimaryHas(m)' = PrimaryHas(m)
    BY <2>1 DEF Sinks, Passed, Planned, Served, Range, Ordered, PrimaryHas, Got, Primary,
                Reports, Asked, Has
  <2> QED BY <1>0, <1>a, <2>1, <2>2 DEF QueueInv, UrlInv, LeadInv, ServedInv, ReportIsOut, Got
<1> QED
  BY <1>1, <1>2, <1>3, <1>4, <1>5, <1>6, <1>7, <1>8, <1>9, <1>10, <1>11, <1>12, <1>13 DEF Next

\* What is in a text is in it with something before or behind it.
LEMMA ReportsJoined ==
  ASSUME NEW t \in Text, NEW u \in Text, Reports(t) \/ Reports(u)
  PROVE  Reports([parts |-> t.parts \o u.parts, url |-> t.url \/ u.url])
<1> DEFINE p == t.parts
           q == u.parts
           S == {"question", "report"} \X Nat
<1>1. p \in Seq(S) /\ q \in Seq(S)
  BY TextFacts
<1> HIDE DEF p, q
<1>2. /\ DOMAIN p = 1..Len(p) /\ DOMAIN q = 1..Len(q) /\ Len(p) \in Nat /\ Len(q) \in Nat
      /\ DOMAIN (p \o q) = 1..(Len(p) + Len(q))
      /\ \A i \in 1..Len(p) : (p \o q)[i] = p[i]
      /\ \A i \in 1..Len(q) : (p \o q)[Len(p) + i] = q[i]
  BY <1>1
<1>3. CASE Reports(t)
  <2>1. PICK i \in 1..Len(p) : p[i][1] = "report"
    BY <1>2, <1>3 DEF Reports, p
  <2>2. i \in DOMAIN (p \o q) /\ (p \o q)[i][1] = "report"
    BY <1>2, <2>1
  <2> QED BY <2>2 DEF Reports, p, q
<1>4. CASE Reports(u)
  <2>1. PICK i \in 1..Len(q) : q[i][1] = "report"
    BY <1>2, <1>4 DEF Reports, q
  <2>2. Len(p) + i \in DOMAIN (p \o q) /\ (p \o q)[Len(p) + i][1] = "report"
    BY <1>2, <2>1
  <2> QED BY <2>2 DEF Reports, p, q
<1> QED BY <1>3, <1>4

\* What a call leaves of what is to be posted.
LEMMA WordsOfCall ==
  ASSUME ReportInv, pc = "calls", UNCHANGED <<setting, text, phase, asks>>,
         Effect(Head(queue), Head(todo)) \/ NoEffect
  PROVE  file' = Empty \/ Reports(file') \/ Asked'
<1> USE DEF ReportInv
<1>1. Asked' = Asked
  BY DEF Asked, Has, Sinks
<1>2. CASE file' = file
  BY <1>1, <1>2 DEF WordInv
<1>3. CASE /\ Head(queue) = "file" /\ setting.here
           /\ file' = [parts |-> file.parts \o text.parts, url |-> file.url \/ text.url]
  <2>1. Has("file")
    BY <1>3, CallAtHand
  <2>2. CASE phase = "ask"
    BY <1>1, <1>3, <2>1, <2>2 DEF WordInv, Asked
  <2>3. CASE phase = "report"
    <3>1. Reports(text) => Reports(file')
      BY <1>3, ReportsJoined DEF ReportingTypeOK
    <3> QED BY <1>1, <2>3, <3>1 DEF WordInv
  <2> QED BY <2>2, <2>3 DEF ReportingTypeOK
<1> QED BY <1>2, <1>3 DEF Effect, NoEffect

\* What there is to report.
LEMMA WordsKept ==
  ASSUME ReportInv, [Next]_vars
  PROVE  WordInv'
<1> USE DEF ReportInv
<1>0. /\ setting' = setting /\ \A s : Has(s)' = Has(s)
      /\ asks \in Nat /\ asks' \in Nat /\ asks' >= asks
  <2>1. asks \in Nat
    BY ReportingConstants DEF ReportingTypeOK
  <2>2. asks' = asks \/ asks' = asks + 1
    BY DEF Next, vars, bounds, Begin, Ask, RunReporter, Push, OpenPr, ForgeFails, Deliver,
           SecondaryFails, Raise, Record, Crash, Resume
  <2> QED BY <2>1, <2>2, SettingIsFixed
<1>a. Asked => Asked'
  BY <1>0 DEF Asked
<1>1. CASE Begin \/ Push \/ ForgeFails \/ Crash \/ Resume
  <2>1. UNCHANGED <<file, text, phase>> /\ (pc' = "open_pr" => pc = "push")
        /\ pc' \notin {"push", "calls", "record", "raise"}
    BY <1>1 DEF Begin, Push, ForgeFails, Crash, Resume, calls
  <2> QED BY <1>a, <2>1 DEF WordInv
<1>2. CASE Ask
  <2>1. /\ phase' = "ask" /\ pc' \in {"blocked", "calls"} /\ file' = file /\ asks' = asks + 1
    BY <1>2 DEF Ask, Call
  <2> QED BY <1>0, <1>a, <2>1 DEF WordInv
<1>3. CASE RunReporter
  <2>1. Reports(Report(attempt + 1))
    BY DEF Reports, Report
  <2>2. pc' = "push" /\ (file' = Report(attempt + 1) \/ (file # Empty /\ file' = file))
    BY <1>3 DEF RunReporter, Reported
  <2> QED BY <1>a, <2>1, <2>2 DEF WordInv
<1>4. CASE OpenPr
  <2>1. PICK b : /\ text' = [file EXCEPT !.url = @ \/ b] /\ phase' = "report"
                 /\ pc' \in {"record", "calls"} /\ file' = file /\ pc = "open_pr"
    BY <1>4 DEF OpenPr, Call
  <2>2. text'.parts = file.parts
    BY <2>1 DEF ReportingTypeOK, Text
  <2>3. Reports(file) => Reports(text')
    BY <2>2 DEF Reports
  <2> QED BY <1>a, <2>1, <2>3 DEF WordInv
<1>5. CASE Deliver \/ SecondaryFails
  <2>1. /\ pc = "calls" /\ UNCHANGED <<setting, text, phase, asks>> /\ NextCall
        /\ Effect(Head(queue), Head(todo)) \/ NoEffect
    BY <1>5 DEF Deliver, SecondaryFails, bounds
  <2>2. file' = Empty \/ Reports(file') \/ Asked'
    BY <2>1, WordsOfCall
  <2>3. pc' \in {"calls", "blocked", "record"} /\ (pc' = "record" => phase = "report")
    BY <2>1, GoesOn DEF After, ReportingTypeOK
  <2> QED BY <1>a, <2>1, <2>2, <2>3 DEF WordInv
<1>6. CASE Raise
  <2>1. /\ pc = "calls" /\ UNCHANGED <<setting, text, phase, asks>>
        /\ Effect(Head(queue), Head(todo)) \/ NoEffect
        /\ pc' = "off" \/ (pc' = "raise" /\ phase = "report")
    BY <1>6 DEF Raise
  <2>2. file' = Empty \/ Reports(file') \/ Asked'
    BY <2>1, WordsOfCall
  <2> QED BY <1>a, <2>1, <2>2 DEF WordInv
<1>7. CASE Record
  <2>1. file' = text /\ pc \in {"record", "raise"} /\ pc' \in {"done", "off"}
    BY <1>7 DEF Record
  <2> QED BY <1>a, <2>1 DEF WordInv
<1>8. CASE UNCHANGED vars
  <2>1. UNCHANGED <<pc, file, text, phase, asks>>
    BY <1>8 DEF vars, calls, bounds
  <2> QED BY <1>a, <2>1 DEF WordInv
<1> QED BY <1>1, <1>2, <1>3, <1>4, <1>5, <1>6, <1>7, <1>8 DEF Next

-----------------------------------------------------------------------------
(* The theorems.                                                           *)

\* The invariant holds of a run that has not begun.
LEMMA ReportingInitially == Init => ReportInv
<1> SUFFICES ASSUME Init PROVE ReportInv
  OBVIOUS
<1>1. ReportingTypeOK
  <2>1. <<>> \in Seq(Method) /\ <<>> \in Seq(Sink)
    OBVIOUS
  <2>2. dry \in BOOLEAN /\ told \in BOOLEAN /\ claimed \in BOOLEAN /\ pushed \in BOOLEAN /\ pr \in BOOLEAN
    BY Zenon DEF Init
  <2>3. posted \in [Sink -> SUBSET [call : Method, text : Text]]
    BY DEF Init
  <2> QED BY <2>1, <2>2, <2>3, TextFacts, ReportingConstants DEF Init, ReportingTypeOK
<1>2. ~text.url /\ ~file.url
  BY TextFacts DEF Init
<1>3. \A s \in Sink : posted[s] = {}
  BY DEF Init
<1>4. PrimaryLeads /\ ToldInv
  <2>1. \A i \in DOMAIN setting.also : posted[setting.also[i]] = {}
    BY <1>1, <1>3, SinkFacts DEF ReportingTypeOK
  <2> QED BY <1>3, <2>1 DEF PrimaryLeads, ToldInv
<1> QED
  BY <1>1, <1>2, <1>4 DEF Init, ReportInv, QueueInv, UrlInv, LeadInv, ServedInv, WordInv, ReportIsOut

\* So it always holds.
LEMMA ReportInvariant == Spec => []ReportInv
<1>1. ReportInv /\ [Next]_vars => ReportInv'
  <2> SUFFICES ASSUME ReportInv, [Next]_vars PROVE ReportInv'
    OBVIOUS
  <2>1. ReportingTypeOK'
    BY ReportingTypesKept DEF ReportInv
  <2> QED BY <2>1, ReportKept, WordsKept DEF ReportInv
<1> QED BY <1>1, ReportingInitially, PTL DEF Spec

\* Whatever the sinks, the forge and the user do.
THEOREM ReportingTypeCorrect == Spec => []ReportingTypeOK
<1>1. ReportInv => ReportingTypeOK
  BY DEF ReportInv
<1> QED BY <1>1, ReportInvariant, PTL

\* No sink says what the primary sink has not been told (sinks/base.py:43-49).
THEOREM PrimaryIsAhead == Spec => []PrimaryLeads
<1>1. ReportInv => PrimaryLeads
  BY DEF ReportInv
<1> QED BY <1>1, ReportInvariant, PTL

\* The comments of a ticket explain its state, wherever a call raised
\* (orchestrator.py:1051-1064, 1177-1202).
THEOREM TicketStaysTold == Spec => []TicketIsTold
<1>1. ReportInv => TicketIsTold
  <2> SUFFICES ASSUME ReportInv PROVE TicketIsTold
    OBVIOUS
  <2>1. ASSUME pc = "blocked", ~dry, setting.primary # "github_pr"
        PROVE  /\ Got(setting.primary, "comment", text)
               /\ setting.unassign => Got(setting.primary, "unassign", text)
               /\ setting.onBlock => Got(setting.primary, "on_block", text)
    BY <2>1 DEF ReportInv, LeadInv, Planned, PrimaryHas, Primary
  <2> QED BY <2>1 DEF ReportInv, ToldInv, Moves, Primary, TicketIsTold
<1> QED BY <1>1, ReportInvariant, PTL

\* A run that is over has put its report out, or the question that passed for it
\* (orchestrator.py:1174-1213, sinks/base.py:89).
THEOREM ReportsGetOut == Spec => []ReportIsOut
<1>1. ReportInv => ReportIsOut
  BY DEF ReportInv
<1> QED BY <1>1, ReportInvariant, PTL

\* A dry run leaves the forge and the sinks alone (orchestrator.py:273-279).
THEOREM DryRunIsDry == Spec => DryRunPostsNothing
<1>1. ReportInv /\ [Next]_vars => [dry => UNCHANGED <<posted, pushed, pr>>]_vars
  <2> SUFFICES ASSUME ReportInv, Next, dry PROVE UNCHANGED <<posted, pushed, pr>>
    BY DEF vars, outside
  <2>1. pc # "calls"
    BY DEF ReportInv, QueueInv
  <2>2. CASE Push \/ OpenPr
    BY <2>2 DEF Push, OpenPr, ReportInv, ReportingTypeOK
  <2>3. CASE Begin \/ Ask \/ RunReporter \/ Record \/ Crash \/ Resume
    BY <2>3 DEF Begin, Ask, RunReporter, Record, Crash, Resume, outside
  <2> QED BY <2>1, <2>2, <2>3 DEF Next, ForgeFails, Deliver, SecondaryFails, Raise
<1> QED BY <1>1, ReportInvariant, PTL DEF Spec, DryRunPostsNothing

-----------------------------------------------------------------------------
(* What the answer of a step is split into.                                *)

\* A set of naturals that is not empty has a least element.
LEMMA LeastElement ==
  ASSUME NEW S \in SUBSET Nat, S # {}
  PROVE  Min(S) \in S /\ \A n \in S : Min(S) <= n
<1> DEFINE R == OpToRel(<, Nat)
<1>1. IsWellFoundedOn(R, Nat)
  BY NatLessThanWellFounded
<1>2. \A x, y \in Nat : <<x, y>> \in R <=> x < y
  BY DEF OpToRel
<1> HIDE DEF R
<1>3. PICK x \in S : \A y \in S : ~(<<y, x>> \in R)
  BY <1>1, WFMin
<1>4. \A y \in S : x <= y
  <2> TAKE y \in S
  <2>1. ~(<<y, x>> \in R) /\ x \in Nat /\ y \in Nat
    BY <1>3
  <2>2. ~(y < x)
    BY <1>2, <2>1
  <2> QED BY <2>1, <2>2
<1> QED BY <1>4 DEF Min

\* A set of naturals with a bound has a greatest.
LEMMA GreatestElement ==
  ASSUME NEW n \in Nat, NEW S \in SUBSET (0..n), S # {}
  PROVE  Max(S) \in S /\ \A i \in S : i <= Max(S)
<1> DEFINE down == {n - i : i \in S}
<1>1. down \in SUBSET Nat /\ down # {}
  OBVIOUS
<1>2. PICK d \in down : \A e \in down : d <= e
  BY <1>1, LeastElement
<1>3. PICK i \in S : d = n - i
  BY <1>2
<1>4. \A j \in S : j <= i
  <2> TAKE j \in S
  <2>1. n - j \in down /\ i \in 0..n /\ j \in 0..n
    OBVIOUS
  <2> QED BY <1>2, <1>3, <2>1
<1>5. \A j \in S : i >= j
  BY <1>4
<1> QED BY <1>5 DEF Max

\* The fences before line i, and whether they leave it inside of one.
Fences(answer, i) == {j \in 1..(i - 1) : answer[j] = "fence"}
Odd(answer, i) == Cardinality(Fences(answer, i)) % 2 = 1

\* One more line is one more fence at most.
LEMMA FencesGrow ==
  ASSUME NEW answer, NEW i \in Nat
  PROVE  /\ IsFiniteSet(Fences(answer, i)) /\ Cardinality(Fences(answer, i)) \in Nat
         /\ i <= 1 => ~Odd(answer, i)
         /\ i >= 1 => Odd(answer, i + 1) = (IF answer[i] = "fence" THEN ~Odd(answer, i) ELSE Odd(answer, i))
<1>1. \A k \in Nat : IsFiniteSet(Fences(answer, k)) /\ Cardinality(Fences(answer, k)) \in Nat
  <2> TAKE k \in Nat
  <2>1. IsFiniteSet(1..(k - 1))
    BY FS_Interval
  <2>2. Fences(answer, k) \subseteq 1..(k - 1)
    BY DEF Fences
  <2>3. IsFiniteSet(Fences(answer, k))
    BY <2>1, <2>2, FS_Subset
  <2> QED BY <2>3, FS_CardinalityType
<1>2. i <= 1 => ~Odd(answer, i)
  <2>1. i <= 1 => Fences(answer, i) = {}
    BY DEF Fences
  <2>2. Cardinality({}) = 0
    BY FS_EmptySet
  <2> QED BY <2>1, <2>2 DEF Odd
<1>3. ASSUME i >= 1
      PROVE  Odd(answer, i + 1) = (IF answer[i] = "fence" THEN ~Odd(answer, i) ELSE Odd(answer, i))
  <2> DEFINE c == Cardinality(Fences(answer, i))
  <2>1. CASE answer[i] = "fence"
    <3>1. Fences(answer, i + 1) = Fences(answer, i) \cup {i} /\ i \notin Fences(answer, i)
      BY <1>3, <2>1 DEF Fences
    <3>2. Cardinality(Fences(answer, i + 1)) = c + 1
      BY <1>1, <3>1, FS_AddElement
    <3>3. c \in Nat
      BY <1>1
    <3> HIDE DEF c
    <3>4. (c + 1) % 2 = 1 <=> ~(c % 2 = 1)
      BY <3>3
    <3> QED BY <2>1, <3>2, <3>4 DEF Odd, c
  <2>2. CASE answer[i] # "fence"
    <3>1. Fences(answer, i + 1) = Fences(answer, i)
      BY <1>3, <2>2 DEF Fences
    <3> QED BY <2>2, <3>1 DEF Odd
  <2> QED BY <2>1, <2>2
<1> QED BY <1>1, <1>2, <1>3

\* What the loop keeps in in_fence is whether an odd number of fences went by.
LEMMA InFenceIsOdd ==
  ASSUME NEW answer
  PROVE  \A i \in Nat : InFence(answer)[i] <=> Odd(answer, i)
<1> DEFINE f == InFence(answer)
           g == [i \in Nat |-> Odd(answer, i)]
           Loop(h, i) == i > 1 /\ (IF answer[i - 1] = "fence" THEN ~h[i - 1] ELSE h[i - 1])
           Wrong == {i \in Nat : ~(f[i] <=> Odd(answer, i))}
<1>1. ASSUME NEW h, NEW i \in Nat,
             i > 1 => (h[i - 1] <=> Odd(answer, i - 1))
      PROVE  Loop(h, i) <=> Odd(answer, i)
  <2>1. CASE i <= 1
    BY <2>1, FencesGrow
  <2>2. CASE i > 1
    <3>1. i - 1 \in Nat /\ i - 1 >= 1 /\ (i - 1) + 1 = i
      BY <2>2
    <3>2. Odd(answer, i) = (IF answer[i - 1] = "fence" THEN ~Odd(answer, i - 1) ELSE Odd(answer, i - 1))
      BY <3>1, FencesGrow, Zenon
    <3> QED BY <1>1, <2>2, <3>2
  <2> QED BY <2>1, <2>2
<1>2. g = [i \in Nat |-> Loop(g, i)]
  <2>1. \A i \in Nat : Odd(answer, i) <=> Loop(g, i)
    <3> TAKE i \in Nat
    <3>1. i > 1 => i - 1 \in Nat
      OBVIOUS
    <3>2. i > 1 => (g[i - 1] <=> Odd(answer, i - 1))
      BY <3>1, Zenon
    <3> QED BY <1>1, <3>2
  <2> HIDE DEF Loop
  <2>2. \A i \in Nat : Odd(answer, i) = Loop(g, i)
    BY <2>1, Zenon DEF Odd, Loop
  <2> QED BY <2>2, Zenon
<1>3. f = [i \in Nat |-> Loop(f, i)]
  BY <1>2, Zenon DEF InFence
<1> HIDE DEF f
<1>4. \A i \in Nat : f[i] <=> Loop(f, i)
  BY <1>3, Zenon
<1> HIDE DEF Loop
<1>5. Wrong = {}
  <2> SUFFICES ASSUME Wrong # {} PROVE FALSE
    OBVIOUS
  <2>1. PICK n \in Wrong : \A m \in Wrong : n <= m
    BY LeastElement
  <2>2. n > 1 => n - 1 \in Nat /\ n - 1 \notin Wrong
    BY <2>1
  <2>3. n > 1 => (f[n - 1] <=> Odd(answer, n - 1))
    BY <2>2
  <2>4. f[n] <=> Odd(answer, n)
    BY <1>1, <1>4, <2>3
  <2> QED BY <2>4
<1> QED BY <1>5 DEF f

\* The lines that ask outside of all fences.
Asks(answer) == {i \in DOMAIN answer : answer[i] = "QUESTION:" /\ ~Odd(answer, i)}

\* The question starts at the first of them.
LEMMA FirstQuestion ==
  ASSUME NEW answer \in Seq(LineKinds)
  PROVE  /\ QuestionLine(answer) = 0 <=> Asks(answer) = {}
         /\ Asks(answer) # {} => /\ QuestionLine(answer) \in Asks(answer)
                               /\ \A i \in Asks(answer) : QuestionLine(answer) <= i
<1> DEFINE marks == [i \in DOMAIN answer |-> i \in NonFencedLines(answer) /\ answer[i] = "QUESTION:"]
<1>1. DOMAIN answer = 1..Len(answer) /\ Len(answer) \in Nat /\ Len(marks) = Len(answer)
  OBVIOUS
<1>2. \A i \in 1..Len(answer) : marks[i] <=> i \in Asks(answer)
  <2> TAKE i \in 1..Len(answer)
  <2>1. i \in DOMAIN answer /\ i \in Nat
    BY <1>1
  <2>2. marks[i] <=> i \in NonFencedLines(answer) /\ answer[i] = "QUESTION:"
    BY <2>1, Zenon
  <2>3. InFence(answer)[i] <=> Odd(answer, i)
    BY <2>1, InFenceIsOdd
  <2> QED BY <2>1, <2>2, <2>3 DEF NonFencedLines, Asks
<1>3. {i \in 1..Len(marks) : marks[i]} = Asks(answer)
  BY <1>1, <1>2 DEF Asks
<1>4. QuestionLine(answer) = IF Asks(answer) # {} THEN Min(Asks(answer)) ELSE 0
  BY <1>3 DEF QuestionLine, SelectInSeq
<1>5. Asks(answer) \in SUBSET Nat /\ 0 \notin Asks(answer)
  BY <1>1 DEF Asks
<1>6. CASE Asks(answer) = {}
  BY <1>4, <1>6
<1>7. CASE Asks(answer) # {}
  <2>1. /\ Min(Asks(answer)) \in Asks(answer)
        /\ \A i \in Asks(answer) : Min(Asks(answer)) <= i
    BY <1>5, <1>7, LeastElement
  <2> QED BY <1>4, <1>5, <1>7, <2>1
<1> QED BY <1>6, <1>7

\* What rstrip() keeps ends where the last line that is not blank does.
Kept(answer) == Max({0} \cup {i \in DOMAIN answer : answer[i] # "blank"})

\* It is a last line that says something, or nothing is kept.
LEMMA KeptLines ==
  ASSUME NEW answer \in Seq(LineKinds)
  PROVE  /\ Kept(answer) \in 0..Len(answer)
         /\ DropBlanks(answer) = SubSeq(answer, 1, Kept(answer))
         /\ \A i \in 1..Len(answer) : answer[i] # "blank" => i <= Kept(answer)
         /\ Kept(answer) > 0 => answer[Kept(answer)] # "blank"
<1> DEFINE said == {0} \cup {i \in DOMAIN answer : answer[i] # "blank"}
<1>1. DOMAIN answer = 1..Len(answer) /\ Len(answer) \in Nat
  OBVIOUS
<1>2. said \in SUBSET (0..Len(answer)) /\ said # {}
  BY <1>1
<1>3. Kept(answer) \in said /\ \A i \in said : i <= Kept(answer)
  BY <1>1, <1>2, GreatestElement DEF Kept
<1>4. DropBlanks(answer) = SubSeq(answer, 1, Kept(answer))
  BY DEF DropBlanks, Kept
<1> QED BY <1>1, <1>2, <1>3, <1>4

\* Whether a line is in a fence depends on the lines before it only.
LEMMA PrefixAsks ==
  ASSUME NEW answer \in Seq(LineKinds), NEW n \in 0..Len(answer)
  PROVE  /\ SubSeq(answer, 1, n) \in Seq(LineKinds) /\ Len(SubSeq(answer, 1, n)) = n
         /\ Asks(SubSeq(answer, 1, n)) = {i \in Asks(answer) : i <= n}
<1> DEFINE t == SubSeq(answer, 1, n)
<1>1. Len(answer) \in Nat /\ DOMAIN answer = 1..Len(answer)
  OBVIOUS
<1>2. t \in Seq(LineKinds) /\ Len(t) = n /\ \A i \in 1..n : t[i] = answer[i]
  BY <1>1
<1>3. DOMAIN t = 1..n
  BY <1>2
<1> HIDE DEF t
<1>4. \A i \in 1..n : Odd(t, i) <=> Odd(answer, i)
  <2> TAKE i \in 1..n
  <2>1. \A j \in 1..(i - 1) : t[j] = answer[j]
    BY <1>2
  <2>2. Fences(t, i) = Fences(answer, i)
    BY <2>1 DEF Fences
  <2> QED BY <2>2 DEF Odd
<1>5. Asks(t) = {i \in Asks(answer) : i <= n}
  BY <1>1, <1>2, <1>3, <1>4 DEF Asks
<1> QED BY <1>2, <1>5 DEF t

\* An answer of any length, with any fences and markers in it, is split into
\* what is reported and what is asked without losing a line, and only markers
\* outside of the fences count (engine/protocol.py).
THEOREM EveryAnswerIsSplit == \A answer \in Seq(LineKinds) : AnswerIsSplit(answer)
<1> SUFFICES ASSUME NEW answer \in Seq(LineKinds) PROVE AnswerIsSplit(answer)
  OBVIOUS
<1> DEFINE fences(i) == Cardinality({j \in 1..(i - 1) : answer[j] = "fence"})
           asked == {i \in DOMAIN answer : answer[i] = "QUESTION:" /\ fences(i) % 2 = 0}
           q == QuestionLine(answer)
<1>1. DOMAIN answer = 1..Len(answer) /\ Len(answer) \in Nat
  OBVIOUS
<1>2. \A i \in DOMAIN answer : fences(i) % 2 = 0 <=> ~Odd(answer, i)
  <2> TAKE i \in DOMAIN answer
  <2>1. i \in Nat /\ fences(i) = Cardinality(Fences(answer, i))
    BY <1>1 DEF Fences
  <2>2. fences(i) \in Nat /\ (Odd(answer, i) <=> fences(i) % 2 = 1)
    BY <2>1, FencesGrow DEF Odd
  <2> HIDE DEF fences
  <2> QED BY <2>2
<1>3. asked = Asks(answer)
  BY <1>2 DEF Asks
<1>4. HasQuestion(answer) <=> asked # {}
  BY <1>3, FirstQuestion DEF HasQuestion
<1>5. HasQuestion(answer) => /\ q \in 1..Len(answer) /\ answer[q] = "QUESTION:"
                           /\ \A i \in Asks(answer) : q <= i
  BY <1>1, FirstQuestion DEF HasQuestion, Asks
<1> HIDE DEF q
<1>6. ~HasQuestion(StripProtocol(answer))
  <2>1. CASE ~HasQuestion(answer)
    BY <2>1 DEF StripProtocol
  <2>2. CASE HasQuestion(answer)
    <3> DEFINE before == SubSeq(answer, 1, q - 1)
               n == Kept(before)
    <3>1. q - 1 \in 0..Len(answer)
      BY <1>1, <1>5, <2>2
    <3>2. before \in Seq(LineKinds) /\ Len(before) = q - 1 /\ Asks(before) = {}
      BY <1>1, <1>5, <2>2, <3>1, PrefixAsks DEF Asks
    <3>3. n \in 0..Len(before) /\ StripProtocol(answer) = SubSeq(before, 1, n)
      BY <2>2, <3>2, KeptLines DEF StripProtocol, q
    <3> HIDE DEF before, n
    <3>4. SubSeq(before, 1, n) \in Seq(LineKinds) /\ Asks(SubSeq(before, 1, n)) = {}
      BY <3>2, <3>3, PrefixAsks
    <3> QED BY <3>3, <3>4, FirstQuestion DEF HasQuestion
  <2> QED BY <2>1, <2>2
<1>7. ASSUME HasQuestion(answer)
      PROVE  \E gap \in 0..Len(answer) :
               DropBlanks(answer) = StripProtocol(answer) \o [i \in 1..gap |-> "blank"] \o ParseQuestion(answer)
  <2> DEFINE before == SubSeq(answer, 1, q - 1)
             after == SubSeq(answer, q, Len(answer))
             n == Kept(before)
             m == Kept(after)
             gap == q - 1 - n
             blanks == [i \in 1..gap |-> "blank"]
  <2>1. q \in 1..Len(answer) /\ answer[q] = "QUESTION:"
    BY <1>5, <1>7
  <2>2. /\ before \in Seq(LineKinds) /\ Len(before) = q - 1
        /\ \A i \in 1..(q - 1) : before[i] = answer[i]
    BY <1>1, <2>1
  <2>3. /\ after \in Seq(LineKinds) /\ Len(after) = Len(answer) - q + 1
        /\ \A i \in 1..(Len(answer) - q + 1) : after[i] = answer[q + i - 1]
    BY <1>1, <2>1
  <2>4. StripProtocol(answer) = DropBlanks(before) /\ ParseQuestion(answer) = DropBlanks(after)
    BY <1>7 DEF StripProtocol, ParseQuestion, q
  <2> HIDE DEF before, after
  <2>5. /\ n \in 0..(q - 1) /\ StripProtocol(answer) = SubSeq(before, 1, n)
        /\ \A i \in 1..(q - 1) : before[i] # "blank" => i <= n
    BY <2>2, <2>4, KeptLines
  <2>6. /\ m \in 0..(Len(answer) - q + 1) /\ ParseQuestion(answer) = SubSeq(after, 1, m)
        /\ \A i \in 1..(Len(answer) - q + 1) : after[i] # "blank" => i <= m
        /\ m > 0 => after[m] # "blank"
    BY <2>3, <2>4, KeptLines
  <2>7. m >= 1
    <3>1. 1 \in 1..(Len(answer) - q + 1) /\ after[1] = "QUESTION:"
      BY <1>1, <2>1, <2>3
    <3> QED BY <2>6, <3>1
  <2> HIDE DEF n, m
  <2>8. Kept(answer) = q + m - 1
    <3>1. /\ Kept(answer) \in 0..Len(answer)
          /\ \A i \in 1..Len(answer) : answer[i] # "blank" => i <= Kept(answer)
          /\ Kept(answer) > 0 => answer[Kept(answer)] # "blank"
      BY KeptLines
    <3>2. q + m - 1 \in 1..Len(answer) /\ answer[q + m - 1] # "blank"
      BY <1>1, <2>1, <2>3, <2>6, <2>7
    <3>3. q + m - 1 <= Kept(answer)
      BY <3>1, <3>2
    <3>4. ~(q + m - 1 < Kept(answer))
      <4> SUFFICES ASSUME q + m - 1 < Kept(answer) PROVE FALSE
        OBVIOUS
      <4>1. Kept(answer) - q + 1 \in 1..(Len(answer) - q + 1) /\ answer[Kept(answer)] # "blank"
        BY <1>1, <2>1, <2>6, <2>7, <3>1
      <4>2. after[Kept(answer) - q + 1] = answer[Kept(answer)]
        BY <2>1, <2>3, <3>1, <4>1
      <4> QED BY <2>1, <2>6, <3>1, <4>1, <4>2
    <3>5. q \in Nat /\ m \in Nat /\ Kept(answer) \in Nat
      BY <1>1, <2>1, <2>6, <3>1
    <3> QED BY <3>3, <3>4, <3>5
  <2>9. gap \in 0..Len(answer) /\ blanks \in Seq(LineKinds) /\ Len(blanks) = gap
    BY <1>1, <2>1, <2>5 DEF LineKinds
  <2>10. /\ DropBlanks(answer) \in Seq(LineKinds) /\ Len(DropBlanks(answer)) = q + m - 1
         /\ \A i \in 1..(q + m - 1) : DropBlanks(answer)[i] = answer[i]
    <3>1. q + m - 1 \in 0..Len(answer) /\ DropBlanks(answer) = SubSeq(answer, 1, q + m - 1)
      BY <1>1, <2>1, <2>6, <2>8, KeptLines
    <3> QED BY <1>1, <3>1
  <2>11. /\ StripProtocol(answer) \in Seq(LineKinds) /\ Len(StripProtocol(answer)) = n
         /\ \A i \in 1..n : StripProtocol(answer)[i] = answer[i]
    BY <2>1, <2>2, <2>5
  <2>12. /\ ParseQuestion(answer) \in Seq(LineKinds) /\ Len(ParseQuestion(answer)) = m
         /\ \A i \in 1..m : ParseQuestion(answer)[i] = answer[q + i - 1]
    BY <1>1, <2>1, <2>3, <2>6
  <2>13. \A i \in (n + 1)..(q - 1) : answer[i] = "blank"
    BY <2>1, <2>2, <2>5
  <2> DEFINE whole == StripProtocol(answer) \o blanks \o ParseQuestion(answer)
  <2>14. /\ StripProtocol(answer) \o blanks \in Seq(LineKinds)
         /\ Len(StripProtocol(answer) \o blanks) = q - 1
         /\ \A i \in 1..(q - 1) : (StripProtocol(answer) \o blanks)[i] = answer[i]
    <3>1. \A i \in 1..gap : blanks[i] = "blank"
      OBVIOUS
    <3> HIDE DEF blanks
    <3> QED BY <2>1, <2>5, <2>9, <2>11, <2>13, <3>1, ConcatProperties
  <2>15. /\ whole \in Seq(LineKinds) /\ Len(whole) = q + m - 1
         /\ \A i \in 1..(q + m - 1) : whole[i] = answer[i]
    <3> DEFINE first == StripProtocol(answer) \o blanks
    <3>1. first \in Seq(LineKinds) /\ Len(first) = q - 1 /\ \A i \in 1..(q - 1) : first[i] = answer[i]
      BY <2>14
    <3> HIDE DEF first
    <3>2. q \in Nat /\ m \in Nat /\ q >= 1
      BY <1>1, <2>1, <2>6
    <3> DEFINE second == ParseQuestion(answer)
    <3>3. second \in Seq(LineKinds) /\ Len(second) = m /\ \A i \in 1..m : second[i] = answer[q + i - 1]
      BY <2>12
    <3> HIDE DEF second
    <3>4. /\ first \o second \in Seq(LineKinds)
          /\ Len(first \o second) = Len(first) + Len(second)
          /\ \A i \in 1..(Len(first) + Len(second)) :
               (first \o second)[i] = IF i <= Len(first) THEN first[i] ELSE second[i - Len(first)]
      BY <3>1, <3>3, ConcatProperties
    <3>5. Len(first) + Len(second) = q + m - 1
      BY <3>1, <3>2, <3>3
    <3>6. ASSUME NEW i \in 1..(q + m - 1) PROVE (first \o second)[i] = answer[i]
      <4>1. (first \o second)[i] = IF i <= Len(first) THEN first[i] ELSE second[i - Len(first)]
        BY <3>4, <3>5
      <4>2. CASE i <= q - 1
        <5>1. i \in 1..(q - 1) /\ i <= Len(first)
          BY <3>1, <3>2, <4>2
        <5> QED BY <3>1, <4>1, <5>1
      <4>3. CASE i > q - 1
        <5>1. i - (q - 1) \in 1..m /\ q + (i - (q - 1)) - 1 = i /\ ~(i <= Len(first))
          BY <3>1, <3>2, <4>3
        <5>2. second[i - (q - 1)] = answer[i]
          BY <3>3, <5>1
        <5> QED BY <3>1, <4>1, <5>1, <5>2
      <4>4. i <= q - 1 \/ i > q - 1
        BY <3>2
      <4> QED BY <4>2, <4>3, <4>4
    <3> QED BY <3>4, <3>5, <3>6 DEF first, second
  <2>16. DropBlanks(answer) = whole
    <3> HIDE DEF whole
    <3> QED BY <2>10, <2>15, SeqEqual
  <2> QED BY <2>9, <2>16
<1>8. ParseDefers(answer) = {i \in DOMAIN answer : answer[i] = "DEFER:" /\ fences(i) % 2 = 0}
  <2>1. \A i \in DOMAIN answer : InFence(answer)[i] <=> Odd(answer, i)
    BY <1>1, InFenceIsOdd
  <2> HIDE DEF fences
  <2> QED BY <1>2, <2>1 DEF ParseDefers, NonFencedLines
<1> QED BY <1>4, <1>6, <1>7, <1>8 DEF AnswerIsSplit
=============================================================================

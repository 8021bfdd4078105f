---------------------------- MODULE Environment ----------------------------
(***************************************************************************)
(* config/dotenv.py and expand_env() of config/loader.py: where the        *)
(* ${NAME}s of a profile get their values from.                            *)
(*                                                                         *)
(* A line of a .env file is a record: its kind, and of an assignment the   *)
(* name and the value, a sequence of quotes, of "#" for a hash behind a    *)
(* blank, and of words.  A name set to nothing has the value <<>>.         *)
(***************************************************************************)
EXTENDS Integers, Sequences, SequencesExt

EnvLine == [kind : {"blank", "no =", "no name", "assignment"}, name : STRING, value : Seq(STRING)]

\* A quoted value is taken as it is; of any other a comment is cut off.  A hash
\* at the front is text: strip() has taken the blank before it.
Unquoted(value) ==
  LET n == Len(value)
      hashes == {i \in 2..n : value[i] = "#"}
  IN CASE n >= 2 /\ value[1] = "quote" /\ value[n] = "quote" -> SubSeq(value, 2, n - 1)
       [] hashes # {} -> SubSeq(value, 1, Min(hashes) - 1)
       [] OTHER -> value

\* The lines parse_dotenv() raises for; nothing of such a file is taken.
Malformed(lines) == \E i \in DOMAIN lines : lines[i].kind \in {"no =", "no name"}

\* values after i lines, and after the last one.
ReadLine(values, line) ==
  IF line.kind # "assignment" THEN values
  ELSE [name \in DOMAIN values \cup {line.name} |->
          IF name = line.name THEN Unquoted(line.value) ELSE values[name]]
ParseDotenv(lines) ==
  LET values[i \in 0..Len(lines)] == IF i = 0 THEN <<>> ELSE ReadLine(values[i - 1], lines[i])
  IN values[Len(lines)]

IsSet(target, name) == name \in DOMAIN target /\ target[name] # <<>>
Applied(lines, target, override) ==
  {name \in DOMAIN ParseDotenv(lines) : override \/ ~IsSet(target, name)}

\* The environments load_dotenv() leaves behind: none when it raises.
LoadDotenv(lines, target, override) ==
  IF Malformed(lines) THEN {}
  ELSE LET applied == Applied(lines, target, override)
       IN {[name \in DOMAIN target \cup applied |->
              IF name \in applied THEN ParseDotenv(lines)[name] ELSE target[name]]}

\* The values expand_env() returns for the text ${name}: none when it raises.
ExpandEnv(name, target) == {target[n] : n \in {n \in {name} : IsSet(target, n)}}

-----------------------------------------------------------------------------

\* A ${NAME} has the value of the real environment, unless that is empty or
\* overridden, and then the one of the last line for it in .env ("A name already
\* set in your real environment always wins", README.md:162).
NameIsFound(lines, target, override, name) ==
  LET Lines == {i \in DOMAIN lines : lines[i].kind = "assignment" /\ lines[i].name = name}
  IN \A env \in LoadDotenv(lines, target, override) :
       ExpandEnv(name, env) =
         IF IsSet(target, name) /\ ~(override /\ Lines # {})
         THEN {target[name]}
         ELSE {Unquoted(lines[i].value) :
                 i \in {i \in Lines : /\ \A j \in Lines : j <= i
                                      /\ Unquoted(lines[i].value) # <<>>}}
=============================================================================

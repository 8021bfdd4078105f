--------------------------- MODULE Configuration ---------------------------
(***************************************************************************)
(* config/loader.py: how a profile is put together from the files it       *)
(* extends.                                                                *)
(*                                                                         *)
(* The value of a key is a pair: <<"map", f>> for a mapping f from keys to *)
(* values, <<"leaf", x>> for a scalar or a list.                           *)
(***************************************************************************)
EXTENDS Integers, Sequences, SequencesExt, FiniteSets

\* Mutant: what is not in the profile is taken from the parent as a whole only.
RECURSIVE DeepMerge(_, _)
ShallowMerge(base, override) ==
  [k \in DOMAIN base \cup DOMAIN override |-> IF k \in DOMAIN override THEN override[k] ELSE base[k]]
DeepMerge(base, override) ==
  [k \in DOMAIN base \cup DOMAIN override |->
     CASE k \notin DOMAIN override -> base[k]
       [] k \in DOMAIN override \cap DOMAIN base /\ base[k][1] = "map" /\ override[k][1] = "map" ->
            <<"map", DeepMerge(base[k][2], override[k][2])>>
       [] OTHER -> override[k]]

\* The profiles load_profile_dict() returns for a file: none when it raises.
\* files maps the paths that exist to what is in them; "" extends nothing.
RECURSIVE LoadProfileDict(_, _, _)
LoadProfileDict(files, path, seen) ==
  CASE path \notin DOMAIN files \/ path \in seen -> {}
    [] path \in DOMAIN files \ seen /\ files[path].extends = "" -> {files[path].data}
    [] OTHER -> {DeepMerge(parent, files[path].data) :
                   parent \in LoadProfileDict(files, files[path].extends, seen \cup {path})}
=============================================================================

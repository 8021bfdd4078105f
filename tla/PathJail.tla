------------------------------ MODULE PathJail ------------------------------
(***************************************************************************)
(* The path jail of executors/tools.py, which every file tool of a step    *)
(* goes through, on a POSIX file system.                                   *)
(*                                                                         *)
(* A path is the sequence of its names from the root.  A disk is a record: *)
(* workspace is the checkout a step edits, artifacts_dir the run directory,*)
(* links maps the path of a symbolic link to its target, and files are the *)
(* regular files that exist.  A request is a record: the parts of the path *)
(* a model asked for, which may hold "..", and whether it is absolute.     *)
(***************************************************************************)
EXTENDS Integers, Sequences, SequencesExt

ReservedFiles == {"run.json", "run.json.tmp", "config.resolved.yaml", "workitem.json", "banner.txt"}
ReservedDirs == {"logs"}

Parent(path) == SubSeq(path, 1, Len(path) - 1)

\* os.path.realpath() on its way: done is resolved already, rest is still to be
\* walked.  A link starts again at its target.
PathWalk == [done : Seq(STRING), rest : Seq(STRING)]
Hop(disk, walk) ==
  LET name == Head(walk.rest)
      here == Append(walk.done, name)
      rest == Tail(walk.rest)
  IN CASE name = "." -> [done |-> walk.done, rest |-> rest]
       [] name = ".." -> [done |-> Parent(walk.done), rest |-> rest]
       [] name \notin {".", ".."} /\ here \in DOMAIN disk.links ->
            [done |-> <<>>, rest |-> disk.links[here] \o rest]
       [] OTHER -> [done |-> here, rest |-> rest]
Realpath(disk) ==
  LET end[walk \in PathWalk] == IF walk.rest = <<>> THEN walk.done ELSE end[Hop(disk, walk)]
  IN end

Resolve(disk, path) == Realpath(disk)[[done |-> <<>>, rest |-> path]]

Exists(disk, path) == \E f \in disk.files : IsPrefix(path, f)
ExistingAncestor(disk, path) ==
  SubSeq(path, 1, CHOOSE n \in 0..(Len(path) - 1) :
                    /\ n = 0 \/ Exists(disk, SubSeq(path, 1, n))
                    /\ \A k \in (n + 1)..(Len(path) - 1) : ~Exists(disk, SubSeq(path, 1, k)))

Path(root, request) == IF request.absolute THEN request.parts ELSE root \o request.parts

\* Mutant: the path is judged before its links are resolved.
JailBeforeLinks(disk, root, request) ==
  LET home == Resolve(disk, root)
      p == Path(home, request)
  IN {q \in {Resolve(disk, p)} : /\ request.parts # <<>> \/ request.absolute
                                 /\ IsPrefix(home, p) /\ \A i \in DOMAIN p : p[i] # ".."}

\* The paths jail() returns for one root: none when it raises.
Jail(disk, root, request) ==
  LET home == Resolve(disk, root)
      p == Resolve(disk, Path(home, request))
      Within(q) == IsPrefix(home, q)
  IN {q \in {p} : /\ request.parts # <<>> \/ request.absolute
                  /\ Within(q)
                  /\ Exists(disk, q) \/ Within(Resolve(disk, ExistingAncestor(disk, q)))}

Jailed(disk, request) ==
  IF Jail(disk, disk.workspace, request) # {} THEN Jail(disk, disk.workspace, request)
  ELSE Jail(disk, disk.artifacts_dir, request)

RejectReserved(disk, path) ==
  LET home == Resolve(disk, disk.artifacts_dir)
      inside == SubSeq(path, Len(home) + 1, Len(path))
  IN /\ IsPrefix(home, path) /\ inside # <<>>
     /\ inside \in {<<f>> : f \in ReservedFiles} \/ inside[1] \in ReservedDirs

\* open(path, "w") after mkdir(parents=True) works.
CanOpen(disk, path) ==
  /\ path \in disk.files \/ ~Exists(disk, path)
  /\ \A n \in 0..(Len(path) - 1) : SubSeq(path, 1, n) \notin disk.files

\* Where fs.write puts its content, where fs.edit does, and what fs.read reads.
FsWrite(disk, request) ==
  {p \in Jailed(disk, request) : ~RejectReserved(disk, p) /\ CanOpen(disk, p)}
FsEdit(disk, request) ==
  {p \in Jailed(disk, request) : ~RejectReserved(disk, p) /\ p \in disk.files}
FsRead(disk, request) == Jailed(disk, request) \cap disk.files

\* The working directory of shell.run: the workspace or a place inside it.
ShellCwd(disk, request) ==
  IF request.parts = <<>> /\ ~request.absolute THEN {Resolve(disk, disk.workspace)}
  ELSE Jail(disk, disk.workspace, request)

-----------------------------------------------------------------------------

\* What a path denotes to the operating system: every name of it is looked up
\* in the directory that the names before it denote.
LookUp(disk, denotes, dir, name) ==
  CASE name = "." -> dir
    [] name = ".." -> Parent(dir)
    [] name \notin {".", ".."} /\ Append(dir, name) \in DOMAIN disk.links ->
         denotes[disk.links[Append(dir, name)]]
    [] OTHER -> Append(dir, name)
Denotes(disk) ==
  LET denotes[path \in Seq(STRING)] ==
        IF path = <<>> THEN <<>>
        ELSE LookUp(disk, denotes, denotes[Parent(path)], path[Len(path)])
  IN denotes

\* The disks a step finds: no file is in another one, and checkout and run
\* directory exist, under whatever name.
IsDisk(disk) ==
  /\ disk.workspace \in Seq(STRING) /\ disk.artifacts_dir \in Seq(STRING)
  /\ disk.files \subseteq Seq(STRING)
  /\ \A f, g \in disk.files : IsPrefix(f, g) => f = g
  /\ DOMAIN disk.links \subseteq Seq(STRING)
  /\ \A l \in DOMAIN disk.links : disk.links[l] \in Seq(STRING)
  /\ \A root \in {disk.workspace, disk.artifacts_dir} : Exists(disk, Denotes(disk)[root])

\* No links lead in a circle: every walk ends.
NoCircle(disk) ==
  \A walk \in [Nat -> PathWalk] : \E n \in Nat :
    walk[n].rest = <<>> \/ walk[n + 1] # Hop(disk, walk[n])

Request == [absolute : BOOLEAN, parts : Seq(STRING)]

\* A file tool reaches a place exactly when the operating system's own lookup
\* from the checkout, or failing that from the run directory, ends inside that
\* directory; and no write ever ends on a file of the engine
\* (executors/tools.py:81-190).
ReachesExactly(disk, request) ==
  LET denotes == Denotes(disk)
      From(root) == denotes[Path(root, request)]
      Within(root) == IsPrefix(denotes[root], From(root))
      place == IF Within(disk.workspace) THEN From(disk.workspace) ELSE From(disk.artifacts_dir)
      allowed == /\ request.parts # <<>> \/ request.absolute
                 /\ Within(disk.workspace) \/ Within(disk.artifacts_dir)
      run == denotes[disk.artifacts_dir]
      engine == \/ \E f \in ReservedFiles : place = Append(run, f)
                \/ \E d \in ReservedDirs : IsPrefix(Append(run, d), place)
  IN /\ Jailed(disk, request) = {p \in {place} : allowed}
     /\ FsWrite(disk, request) = {p \in {place} : allowed /\ ~engine /\ CanOpen(disk, p)}
     /\ FsEdit(disk, request) \subseteq FsWrite(disk, request)
=============================================================================

------------------------------ MODULE Worktree ------------------------------
(***************************************************************************)
(* GitLocalRepo under `isolation: worktree`: the git worktrees that runs    *)
(* take, share through git's own registry and give back, and the two checks *)
(* made before a commit.                                                    *)
(*                                                                         *)
(* A run of an item is one process at a time (RunLock); a resume is a new   *)
(* process that checks the recorded branch out anew.  Runs of other items   *)
(* and the developer work in the same clone at the same time.               *)
(***************************************************************************)
EXTENDS Naturals, FiniteSets

CONSTANTS
  Item,          \* work items
  Branch,        \* names branch_name() may produce
  Tree,          \* directories `worktree add` may create
  Main,          \* the parent clone itself
  NoTree,        \* no directory
  File,          \* files of the parent clone; a dirty one is a porcelain line
  TreeLines,     \* lines the worktrees add to its status (worktrees_dir inside it)
  MaxCommits,    \* commits of one branch
  MaxFaults      \* worktrees deleted by hand

ASSUME WorktreeConstants ==
  /\ Main \notin Tree /\ NoTree \notin Tree /\ Main # NoTree
  /\ TreeLines \cap File = {}
  /\ MaxCommits \in Nat /\ MaxFaults \in Nat

VARIABLES
  branchOf,  \* [Item -> Branch]: what branch_name() makes of the item
  record,    \* [Branch -> Tree \cup {Main, NoTree}]: git's list of worktrees
  there,     \* SUBSET Tree: the directories that exist
  edits,     \* [Tree -> SUBSET Item]: who has uncommitted edits in a tree
  head,      \* [Branch -> Nat]: 0 no such branch, n + 1 after n commits
  dirty,     \* SUBSET File: files of the parent clone git status names
  pc,        \* [Item -> Point]: the process running the item
  wt,        \* [Item -> ...]: checkout()'s local `existing`, then `wt`
  ws,        \* [Item -> Tree \cup {NoTree}]: _workspace
  baseline,  \* [Item -> SUBSET Line]: _parent_baseline
  strays,    \* [Item -> SUBSET File]: files the agent dirtied behind the check's back
  fresh,     \* [Item -> SUBSET File]: files anybody dirtied since the checkout
  blind,     \* SUBSET Item: a git probe of the process failed
  raced,     \* SUBSET Item: the registry moved under the process's checkout()
  faults     \* worktrees deleted by hand

registry == <<record, there, edits, head>>
process == <<wt, ws, baseline>>
history == <<strays, fresh, blind, raced, faults>>
vars == <<branchOf, record, there, edits, head, dirty, pc, wt, ws, baseline,
          strays, fresh, blind, raced, faults>>

Line == File \cup TreeLines
Point == {"off", "prune", "list", "isdir", "add", "settle", "work", "commit",
          "clean", "prune2"}
InWorkspace == {"work", "commit", "clean", "prune2"}

TypeOK ==
  /\ branchOf \in [Item -> Branch]
  /\ record \in [Branch -> Tree \cup {Main, NoTree}]
  /\ there \in SUBSET Tree
  /\ edits \in [Tree -> SUBSET Item]
  /\ head \in [Branch -> Nat]
  /\ dirty \in SUBSET File
  /\ pc \in [Item -> Point]
  /\ wt \in [Item -> Tree \cup {Main, NoTree}]
  /\ ws \in [Item -> Tree \cup {NoTree}]
  /\ baseline \in [Item -> SUBSET Line]
  /\ strays \in [Item -> SUBSET File]
  /\ fresh \in [Item -> SUBSET File]
  /\ blind \in SUBSET Item
  /\ raced \in SUBSET Item
  /\ faults \in 0..MaxFaults

Init ==
  /\ branchOf \in [Item -> Branch]
  /\ record = [b \in Branch |-> NoTree]
  /\ there = {}
  /\ edits = [t \in Tree |-> {}]
  /\ head = [b \in Branch |-> 0]
  /\ dirty \in SUBSET File
  /\ pc = [i \in Item |-> "off"]
  /\ wt = [i \in Item |-> NoTree]
  /\ ws = [i \in Item |-> NoTree]
  /\ baseline = [i \in Item |-> {}]
  /\ strays = [i \in Item |-> {}]
  /\ fresh = [i \in Item |-> {}]
  /\ blind = {}
  /\ raced = {}
  /\ faults = 0

Goto(i, point) == pc' = [pc EXCEPT ![i] = point]

\* git status --porcelain in the parent clone.
Porcelain == dirty \cup IF there = {} THEN {} ELSE TreeLines

\* _parent_porcelain(): an unreadable tree reports no changes.
Probe(i, lines) ==
  \/ lines = Porcelain /\ UNCHANGED blind
  \/ lines = {} /\ blind' = blind \cup {i}

\* The process is gone; everything it knew goes with it.
Leaves(i) ==
  /\ Goto(i, "off")
  /\ wt' = [wt EXCEPT ![i] = NoTree]
  /\ ws' = [ws EXCEPT ![i] = NoTree]
  /\ baseline' = [baseline EXCEPT ![i] = {}]
  /\ strays' = [strays EXCEPT ![i] = {}]
  /\ fresh' = [fresh EXCEPT ![i] = {}]
  /\ blind' = blind \ {i}
  /\ raced' = raced \ {i}

-----------------------------------------------------------------------------
(* checkout()                                                              *)

Begin(i) ==
  /\ pc[i] = "off"
  /\ Goto(i, "prune")
  /\ UNCHANGED <<branchOf, registry, dirty, process, history>>

Pruned == [b \in Branch |-> IF record[b] \in Tree \ there THEN NoTree ELSE record[b]]

\* Mutant: checkout() goes straight to the list.
PruneSkipped(i) ==
  /\ pc[i] = "prune"
  /\ Goto(i, "list")
  /\ UNCHANGED <<branchOf, registry, dirty, process, history>>

\* git worktree prune: forget every record whose directory is gone.
Prune(i) ==
  /\ pc[i] = "prune"
  /\ record' = Pruned
  /\ Goto(i, "list")
  /\ UNCHANGED <<branchOf, there, edits, head, dirty, process, history>>

\* Mutant: a branch without a record gets the worktree of another one.
ListMisread(i) ==
  /\ pc[i] = "list"
  /\ LET own == record[branchOf[i]] IN
       \E t \in IF own = NoTree THEN {record[b] : b \in Branch} ELSE {own} :
         wt' = [wt EXCEPT ![i] = t]
  /\ Goto(i, "isdir")
  /\ UNCHANGED <<branchOf, registry, dirty, ws, baseline, history>>

\* git worktree list --porcelain: the worktree holding the branch, if the
\* command succeeds.
List(i) ==
  /\ pc[i] = "list"
  /\ \/ wt' = [wt EXCEPT ![i] = record[branchOf[i]]] /\ UNCHANGED blind
     \/ wt' = [wt EXCEPT ![i] = NoTree] /\ blind' = blind \cup {i}
  /\ Goto(i, "isdir")
  /\ UNCHANGED <<branchOf, registry, dirty, ws, baseline, strays, fresh, raced, faults>>

\* is_dir(), and not the parent clone: reuse it, or add a new one.
IsDir(i) ==
  /\ pc[i] = "isdir"
  /\ IF wt[i] \in there
       THEN Goto(i, "settle") /\ UNCHANGED wt
       ELSE Goto(i, "add") /\ wt' = [wt EXCEPT ![i] = NoTree]
  /\ UNCHANGED <<branchOf, registry, dirty, ws, baseline, history>>

\* A name nobody has used: the branch and a random token.
Unused(t) ==
  /\ t \notin there
  /\ \A b \in Branch : record[b] # t
  /\ \A i \in Item : wt[i] # t /\ ws[i] # t

\* The checkouts of these branches that have read the list.
Past(branches) == {i \in Item : branchOf[i] \in branches /\ pc[i] \in {"isdir", "add"}}

\* Mutant: `worktree add -B`, which moves an existing branch back to the base.
AddFromBase(i) ==
  /\ pc[i] = "add" /\ record[branchOf[i]] = NoTree
  /\ \E t \in Tree :
       /\ Unused(t)
       /\ record' = [record EXCEPT ![branchOf[i]] = t]
       /\ there' = there \cup {t}
       /\ wt' = [wt EXCEPT ![i] = t]
  /\ head' = [head EXCEPT ![branchOf[i]] = 1]
  /\ raced' = raced \cup {j \in Past({branchOf[i]}) : j # i}
  /\ Goto(i, "settle")
  /\ UNCHANGED <<branchOf, edits, dirty, ws, baseline, strays, fresh, blind, faults>>

\* git worktree add, of the branch as it is or of a new one cut from the base.
Add(i) ==
  /\ pc[i] = "add" /\ record[branchOf[i]] = NoTree
  /\ \E t \in Tree :
       /\ Unused(t)
       /\ record' = [record EXCEPT ![branchOf[i]] = t]
       /\ there' = there \cup {t}
       /\ wt' = [wt EXCEPT ![i] = t]
  /\ head' = [head EXCEPT ![branchOf[i]] = IF @ = 0 THEN 1 ELSE @]
  /\ raced' = raced \cup {j \in Past({branchOf[i]}) : j # i}
  /\ Goto(i, "settle")
  /\ UNCHANGED <<branchOf, edits, dirty, ws, baseline, strays, fresh, blind, faults>>

\* git refuses a branch that is checked out elsewhere: RepoError ends the run.
AddRefused(i) ==
  /\ pc[i] = "add" /\ record[branchOf[i]] # NoTree
  /\ Leaves(i)
  /\ UNCHANGED <<branchOf, registry, dirty, faults>>

\* Mutant: the baseline is taken before the worktree is added.
SettleEarly(i) ==
  /\ pc[i] = "settle" /\ wt[i] \in there
  /\ ws' = [ws EXCEPT ![i] = wt[i]]
  /\ baseline' = [baseline EXCEPT ![i] = dirty]
  /\ raced' = raced \ {i}
  /\ Goto(i, "work")
  /\ UNCHANGED <<branchOf, registry, dirty, wt, strays, fresh, blind, faults>>

\* Mutant: a reused worktree is reset first.
SettleClean(i) ==
  /\ pc[i] = "settle" /\ wt[i] \in there
  /\ ws' = [ws EXCEPT ![i] = wt[i]]
  /\ edits' = [edits EXCEPT ![wt[i]] = {}]
  /\ baseline' = [baseline EXCEPT ![i] = Porcelain]
  /\ raced' = raced \ {i}
  /\ Goto(i, "work")
  /\ UNCHANGED <<branchOf, record, there, head, dirty, wt, strays, fresh, blind, faults>>

\* git config in the worktree, then the workspace and the baseline are set.
Settle(i) ==
  /\ pc[i] = "settle" /\ wt[i] \in there
  /\ ws' = [ws EXCEPT ![i] = wt[i]]
  /\ \E lines \in {Porcelain, {}} :
       Probe(i, lines) /\ baseline' = [baseline EXCEPT ![i] = lines]
  /\ raced' = raced \ {i}
  /\ Goto(i, "work")
  /\ UNCHANGED <<branchOf, registry, dirty, wt, strays, fresh, faults>>

\* git cannot be started in a directory that is gone: RepoError ends the run.
SettleRaises(i) ==
  /\ pc[i] = "settle" /\ wt[i] \notin there
  /\ Leaves(i)
  /\ UNCHANGED <<branchOf, registry, dirty, faults>>

-----------------------------------------------------------------------------
(* A step: the agent writes, the engine checks and commits                 *)

Edit(i) ==
  /\ pc[i] = "work" /\ ws[i] \in there
  /\ head[branchOf[i]] <= MaxCommits
  /\ edits' = [edits EXCEPT ![ws[i]] = @ \cup {i}]
  /\ UNCHANGED <<branchOf, record, there, head, dirty, pc, process, history>>

\* A file of the parent clone becomes dirty while runs are going on.
Dirties(f) ==
  /\ dirty' = dirty \cup {f}
  /\ fresh' = [j \in Item |-> IF pc[j] \in InWorkspace /\ f \notin dirty
                              THEN fresh[j] \cup {f} ELSE fresh[j]]

\* The agent ignores its working directory.  A file that was dirty at the
\* checkout shows no new line.
Stray(i) ==
  /\ pc[i] = "work"
  /\ \E f \in File :
       /\ Dirties(f)
       /\ strays' = [strays EXCEPT ![i] = @ \cup ({f} \ baseline[i])]
  /\ UNCHANGED <<branchOf, registry, pc, process, blind, raced, faults>>

\* Mutant: only verify_landed() is asked.
LandedUnwatched(i) ==
  /\ pc[i] = "work"
  /\ Goto(i, "commit") \/ (ws[i] \notin there /\ Goto(i, "clean"))
  /\ UNCHANGED <<branchOf, registry, dirty, process, history>>

\* drifted(): lines that were not there at the checkout.
Drifted(i, lines) == ~(lines \subseteq baseline[i])

\* verify_landed() of paths that were written: they went with the directory.
Missing(i) == ws[i] \notin there

\* _landing_error().  Drift, or declared files that went with the directory,
\* fail the step and so the run; a fixer's output is merely left uncommitted.
Landed(i) ==
  /\ pc[i] = "work"
  /\ \E lines \in {Porcelain, {}} :
       /\ Probe(i, lines)
       /\ \/ ~Drifted(i, lines) /\ Goto(i, "commit")
          \/ /\ Drifted(i, lines) \/ Missing(i)
             /\ Goto(i, "clean") \/ Goto(i, "work")
  /\ UNCHANGED <<branchOf, registry, dirty, process, strays, fresh, raced, faults>>

\* git add -A and git commit, on the branch the worktree is at; with nothing
\* staged there is no commit.
Commit(i) ==
  /\ pc[i] = "commit" /\ ws[i] \in there
  /\ head' = [b \in Branch |->
                IF record[b] = ws[i] /\ edits[ws[i]] # {} THEN head[b] + 1 ELSE head[b]]
  /\ edits' = [edits EXCEPT ![ws[i]] = {}]
  /\ Goto(i, "work")
  /\ UNCHANGED <<branchOf, record, there, dirty, process, history>>

CommitRaises(i) ==
  /\ pc[i] = "commit" /\ ws[i] \notin there
  /\ Leaves(i)
  /\ UNCHANGED <<branchOf, registry, dirty, faults>>

\* The pipeline is done, or stopped: the run is saved.
Ends(i) ==
  /\ pc[i] = "work"
  /\ Goto(i, "clean")
  /\ UNCHANGED <<branchOf, registry, dirty, process, history>>

-----------------------------------------------------------------------------
(* cleanup()                                                               *)

\* keep_worktree.  It is the profile's, and runs of several profiles may share
\* a clone: either way at every cleanup.
Keeps(i) ==
  /\ pc[i] = "clean"
  /\ Leaves(i)
  /\ UNCHANGED <<branchOf, registry, dirty, faults>>

\* git worktree remove --force, with whatever is uncommitted in it.
Remove(i) ==
  /\ pc[i] = "clean"
  /\ record' = [b \in Branch |-> IF record[b] = ws[i] THEN NoTree ELSE record[b]]
  /\ there' = there \ {ws[i]}
  /\ edits' = [edits EXCEPT ![ws[i]] = {}]
  /\ Goto(i, "prune2")
  /\ UNCHANGED <<branchOf, head, dirty, process, history>>

\* A failing removal is logged and swallowed.
RemoveFails(i) ==
  /\ pc[i] = "clean"
  /\ Goto(i, "prune2")
  /\ UNCHANGED <<branchOf, registry, dirty, process, history>>

PruneAfter(i) ==
  /\ pc[i] = "prune2"
  /\ record' = Pruned
  /\ Leaves(i)
  /\ UNCHANGED <<branchOf, there, edits, head, dirty, faults>>

-----------------------------------------------------------------------------
(* The environment                                                         *)

\* Ctrl-C, an exception, a kill: cleanup() is not reached.
Crash(i) ==
  /\ pc[i] # "off"
  /\ Leaves(i)
  /\ UNCHANGED <<branchOf, registry, dirty, faults>>

\* Somebody deletes a worktree's directory.
Vanish(t) ==
  /\ t \in there /\ faults < MaxFaults
  /\ there' = there \ {t}
  /\ edits' = [edits EXCEPT ![t] = {}]
  /\ raced' = raced \cup {i \in Item : /\ record[branchOf[i]] = t
                                    /\ pc[i] \in {"list", "isdir", "add"}}
  /\ faults' = faults + 1
  /\ UNCHANGED <<branchOf, record, head, dirty, pc, process, strays, fresh, blind>>

\* The developer's own work in the parent clone.
HumanEdits ==
  /\ \E f \in File \ dirty : Dirties(f)
  /\ UNCHANGED <<branchOf, registry, pc, process, strays, blind, raced, faults>>

HumanCleans ==
  /\ \E f \in dirty :
       /\ dirty' = dirty \ {f}
       /\ strays' = [i \in Item |-> strays[i] \ {f}]
       /\ fresh' = [i \in Item |-> fresh[i] \ {f}]
  /\ UNCHANGED <<branchOf, registry, pc, process, blind, raced, faults>>

\* git checkout in the parent clone, of an agent branch no worktree holds or
\* back to another one.
HumanSwitches ==
  /\ \E here \in {{}} \cup {{b} : b \in {c \in Branch : head[c] > 0 /\ record[c] = NoTree}} :
       record' = [b \in Branch |-> IF b \in here THEN Main
                                   ELSE IF record[b] = Main THEN NoTree ELSE record[b]]
       /\ raced' = raced \cup Past(here)
  /\ UNCHANGED <<branchOf, there, edits, head, dirty, pc, process, strays, fresh, blind, faults>>

Step(i) ==
  \/ Begin(i) \/ Prune(i) \/ List(i) \/ IsDir(i) \/ Add(i) \/ AddRefused(i)
  \/ Settle(i) \/ SettleRaises(i) \/ Edit(i) \/ Stray(i) \/ Landed(i) \/ Commit(i)
  \/ CommitRaises(i) \/ Ends(i) \/ Keeps(i) \/ Remove(i) \/ RemoveFails(i)
  \/ PruneAfter(i)

Next ==
  \/ \E i \in Item : Step(i) \/ Crash(i)
  \/ \E t \in Tree : Vanish(t)
  \/ HumanEdits \/ HumanCleans \/ HumanSwitches

Spec == Init /\ [][Next]_vars

-----------------------------------------------------------------------------
(* Properties                                                              *)

\* Two runs are in one existing worktree only when branch_name() gave their
\* items the same branch (git_local.py:223-226 takes that for granted).
NoSharedTree ==
  \A i, j \in Item : ws[i] \in there /\ ws[i] = ws[j] => branchOf[i] = branchOf[j]

\* What is committed goes to the branch of the committing run's item, and no
\* checkout, cleanup or crash moves a branch back.
CommitsOnOwnBranch ==
  [][\A b \in Branch : head'[b] # head[b] =>
       \/ head[b] = 0 /\ head'[b] = 1
       \/ /\ head'[b] = head[b] + 1
          /\ \E i \in Item : pc[i] = "commit" /\ pc'[i] = "work" /\ branchOf[i] = b]_vars

\* git_local.py:217-219: `worktree add` is not refused for what an earlier run
\* left behind -- only for what changed during this very checkout, when the
\* worktrees could not be listed, or when the parent clone holds the branch.
NoWall ==
  \A i \in Item : pc[i] = "add" /\ record[branchOf[i]] \in Tree => i \in raced \cup blind

\* Uncommitted edits, an interrupted run's among them, go away by a commit, by
\* the cleanup of a run that ends in that worktree, or by hand: the next run
\* finds them (README.md:266-268).
EditsKept ==
  [][\A t \in Tree : edits[t] # {} /\ edits'[t] = {} =>
       \/ \E i \in Item : ws[i] = t /\ pc[i] = "commit" /\ pc'[i] = "work"
       \/ \E i \in Item : ws[i] = t /\ pc[i] = "clean" /\ pc'[i] = "prune2"
       \/ faults' # faults]_vars

\* Nothing is committed while a file the agent wrote to in the parent clone,
\* clean at the checkout, still lies there (orchestrator.py:156-190).
StraysCaught == \A i \in Item : pc[i] = "commit" /\ i \notin blind => strays[i] = {}

\* Drift is reported only for what somebody changed after the checkout: work in
\* progress and the worktrees themselves are no drift (git_local.py:432-438).
DriftIsNew ==
  \A i \in Item : pc[i] = "work" /\ ws[i] \in there /\ i \notin blind
                    => Porcelain \ baseline[i] \subseteq fresh[i]
=============================================================================

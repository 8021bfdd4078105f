--------------------------- MODULE WorktreeProofs ---------------------------
(* Theorems of Worktree, for any number of items, branches, directories and *)
(* files.                                                                   *)
EXTENDS Worktree, TLAPS

\* git keeps one branch per worktree, and a run's directory, while it exists,
\* is the one recorded for its branch.
RegistryInv ==
  /\ \A b, c \in Branch : record[b] = record[c] /\ record[b] \in Tree => b = c
  /\ \A i \in Item : wt[i] \in there => record[branchOf[i]] = wt[i]
  /\ \A i \in Item : ws[i] \in there => record[branchOf[i]] = ws[i]

\* From the prune on, a checkout knows how its branch is recorded, or something
\* happened under it.
ListInv ==
  \A i \in Item \ raced :
    /\ pc[i] \in {"list", "isdir", "add"} => record[branchOf[i]] \notin Tree \ there
    /\ pc[i] = "isdir" /\ i \notin blind => record[branchOf[i]] \in {wt[i], NoTree, Main}
    /\ pc[i] = "add" /\ i \notin blind => record[branchOf[i]] \in {NoTree, Main}

\* What the agent dirtied is still dirty and outside the baseline; before the
\* workspace is set there is nothing of the kind.
DriftInv ==
  \A i \in Item :
    /\ strays[i] \subseteq dirty \ baseline[i]
    /\ pc[i] \notin InWorkspace => strays[i] = {}
    /\ pc[i] = "commit" /\ i \notin blind => strays[i] = {}

\* The baseline names what the worktrees themselves add, and what else is dirty
\* is fresh.
BaselineInv ==
  \A i \in Item \ blind :
    pc[i] \in InWorkspace /\ ws[i] \in there
      => TreeLines \subseteq baseline[i] /\ dirty \ baseline[i] \subseteq fresh[i]

IInv == TypeOK /\ RegistryInv /\ ListInv /\ DriftInv /\ BaselineInv

LEMMA InitIInv == Init => IInv
BY WorktreeConstants
   DEF Init, IInv, TypeOK, RegistryInv, ListInv, DriftInv, BaselineInv, Point, InWorkspace, Line

\* Every action keeps the types.
LEMMA TypeStep == ASSUME IInv, Next PROVE TypeOK'
<1> USE WorktreeConstants
    DEF IInv, TypeOK, Point, Line, Goto, registry, process, history
<1>1. ASSUME NEW i \in Item, Step(i) PROVE TypeOK'
  <2>1. CASE Begin(i)
    BY <2>1 DEF Begin
  <2>2. CASE Prune(i)
    BY <2>2 DEF Prune, Pruned
  <2>3. CASE List(i)
    BY <2>3 DEF List
  <2>4. CASE IsDir(i)
    BY <2>4 DEF IsDir
  <2>5. CASE Add(i)
    <3>1. PICK t \in Tree :
             /\ record' = [record EXCEPT ![branchOf[i]] = t]
             /\ there' = there \cup {t}
             /\ wt' = [wt EXCEPT ![i] = t]
      BY <2>5 DEF Add, Past
    <3>2. head' \in [Branch -> Nat] /\ pc' \in [Item -> Point]
      BY <2>5 DEF Add, Past
    <3>3. raced' \in SUBSET Item
      BY <2>5, Zenon DEF Add, Past
    <3> QED BY <2>5, <3>1, <3>2, <3>3 DEF Add
  <2>6. CASE AddRefused(i)
    BY <2>6 DEF AddRefused, Leaves
  <2>7. CASE Settle(i)
    BY <2>7 DEF Settle, Probe, Porcelain
  <2>8. CASE SettleRaises(i)
    BY <2>8 DEF SettleRaises, Leaves
  <2>9. CASE Edit(i)
    BY <2>9 DEF Edit
  <2>10. CASE Stray(i)
    BY <2>10 DEF Stray, Dirties
  <2>11. CASE Landed(i)
    BY <2>11 DEF Landed, Probe, Porcelain, Drifted, Missing
  <2>12. CASE Commit(i)
    BY <2>12 DEF Commit
  <2>13. CASE CommitRaises(i)
    BY <2>13 DEF CommitRaises, Leaves
  <2>14. CASE Ends(i)
    BY <2>14 DEF Ends
  <2>15. CASE Keeps(i)
    BY <2>15 DEF Keeps, Leaves
  <2>16. CASE Remove(i)
    BY <2>16 DEF Remove
  <2>17. CASE RemoveFails(i)
    BY <2>17 DEF RemoveFails
  <2>18. CASE PruneAfter(i)
    BY <2>18 DEF PruneAfter, Pruned, Leaves
  <2> QED
    BY <1>1, <2>1, <2>2, <2>3, <2>4, <2>5, <2>6, <2>7, <2>8, <2>9, <2>10, <2>11, <2>12, <2>13,
       <2>14, <2>15, <2>16, <2>17, <2>18 DEF Step
<1>2. ASSUME NEW i \in Item, Crash(i) PROVE TypeOK'
  BY <1>2 DEF Crash, Leaves
<1>3. ASSUME NEW t \in Tree, Vanish(t) PROVE TypeOK'
  BY <1>3 DEF Vanish
<1>4. CASE HumanEdits
  BY <1>4 DEF HumanEdits, Dirties
<1>5. CASE HumanCleans
  BY <1>5 DEF HumanCleans
<1>6. CASE HumanSwitches
  BY <1>6 DEF HumanSwitches, Past
<1> QED BY <1>1, <1>2, <1>3, <1>4, <1>5, <1>6 DEF Next

\* Every action keeps the registry and the runs' directories together.
LEMMA RegistryStep == ASSUME IInv, Next PROVE RegistryInv'
<1> USE WorktreeConstants
    DEF IInv, TypeOK, RegistryInv, Goto, registry, process, history
<1>1. ASSUME NEW i \in Item, Step(i) PROVE RegistryInv'
  <2>1. CASE Begin(i)
    BY <2>1 DEF Begin
  <2>2. CASE Prune(i)
    BY <2>2 DEF Prune, Pruned
  <2>3. CASE List(i)
    BY <2>3 DEF List
  <2>4. CASE IsDir(i)
    BY <2>4 DEF IsDir
  <2>5. CASE Add(i)
    <3>1. PICK t \in Tree :
             /\ Unused(t)
             /\ record' = [record EXCEPT ![branchOf[i]] = t]
             /\ there' = there \cup {t}
             /\ wt' = [wt EXCEPT ![i] = t]
      BY <2>5 DEF Add, Past
    <3> QED BY <2>5, <3>1 DEF Add, Unused, Past
  <2>6. CASE AddRefused(i)
    BY <2>6 DEF AddRefused, Leaves
  <2>7. CASE Settle(i)
    BY <2>7 DEF Settle, Probe, Porcelain
  <2>8. CASE SettleRaises(i)
    BY <2>8 DEF SettleRaises, Leaves
  <2>9. CASE Edit(i)
    BY <2>9 DEF Edit
  <2>10. CASE Stray(i)
    BY <2>10 DEF Stray, Dirties
  <2>11. CASE Landed(i)
    BY <2>11 DEF Landed, Probe, Porcelain, Drifted, Missing
  <2>12. CASE Commit(i)
    BY <2>12 DEF Commit
  <2>13. CASE CommitRaises(i)
    BY <2>13 DEF CommitRaises, Leaves
  <2>14. CASE Ends(i)
    BY <2>14 DEF Ends
  <2>15. CASE Keeps(i)
    BY <2>15 DEF Keeps, Leaves
  <2>16. CASE Remove(i)
    BY <2>16 DEF Remove
  <2>17. CASE RemoveFails(i)
    BY <2>17 DEF RemoveFails
  <2>18. CASE PruneAfter(i)
    BY <2>18 DEF PruneAfter, Pruned, Leaves
  <2> QED
    BY <1>1, <2>1, <2>2, <2>3, <2>4, <2>5, <2>6, <2>7, <2>8, <2>9, <2>10, <2>11, <2>12, <2>13,
       <2>14, <2>15, <2>16, <2>17, <2>18 DEF Step
<1>2. ASSUME NEW i \in Item, Crash(i) PROVE RegistryInv'
  BY <1>2 DEF Crash, Leaves
<1>3. ASSUME NEW t \in Tree, Vanish(t) PROVE RegistryInv'
  BY <1>3 DEF Vanish
<1>4. CASE HumanEdits
  BY <1>4 DEF HumanEdits, Dirties
<1>5. CASE HumanCleans
  BY <1>5 DEF HumanCleans
<1>6. CASE HumanSwitches
  BY <1>6 DEF HumanSwitches, Past
<1> QED BY <1>1, <1>2, <1>3, <1>4, <1>5, <1>6 DEF Next

\* Every action keeps what a checkout knows.
LEMMA ListStep == ASSUME IInv, Next PROVE ListInv'
<1> USE WorktreeConstants
    DEF IInv, TypeOK, RegistryInv, ListInv, Goto, registry, process, history
<1>1. ASSUME NEW i \in Item, Step(i) PROVE ListInv'
  <2>1. CASE Begin(i)
    BY <2>1 DEF Begin
  <2>2. CASE Prune(i)
    BY <2>2 DEF Prune, Pruned
  <2>3. CASE List(i)
    BY <2>3 DEF List
  <2>4. CASE IsDir(i)
    BY <2>4 DEF IsDir
  <2>5. CASE Add(i)
    BY <2>5 DEF Add, Past
  <2>6. CASE AddRefused(i)
    BY <2>6 DEF AddRefused, Leaves
  <2>7. CASE Settle(i)
    BY <2>7 DEF Settle, Probe, Porcelain
  <2>8. CASE SettleRaises(i)
    BY <2>8 DEF SettleRaises, Leaves
  <2>9. CASE Edit(i)
    BY <2>9 DEF Edit
  <2>10. CASE Stray(i)
    BY <2>10 DEF Stray, Dirties
  <2>11. CASE Landed(i)
    BY <2>11 DEF Landed, Probe, Porcelain, Drifted, Missing
  <2>12. CASE Commit(i)
    BY <2>12 DEF Commit
  <2>13. CASE CommitRaises(i)
    BY <2>13 DEF CommitRaises, Leaves
  <2>14. CASE Ends(i)
    BY <2>14 DEF Ends
  <2>15. CASE Keeps(i)
    BY <2>15 DEF Keeps, Leaves
  <2>16. CASE Remove(i)
    BY <2>16 DEF Remove
  <2>17. CASE RemoveFails(i)
    BY <2>17 DEF RemoveFails
  <2>18. CASE PruneAfter(i)
    BY <2>18 DEF PruneAfter, Pruned, Leaves
  <2> QED
    BY <1>1, <2>1, <2>2, <2>3, <2>4, <2>5, <2>6, <2>7, <2>8, <2>9, <2>10, <2>11, <2>12, <2>13,
       <2>14, <2>15, <2>16, <2>17, <2>18 DEF Step
<1>2. ASSUME NEW i \in Item, Crash(i) PROVE ListInv'
  BY <1>2 DEF Crash, Leaves
<1>3. ASSUME NEW t \in Tree, Vanish(t) PROVE ListInv'
  BY <1>3 DEF Vanish
<1>4. CASE HumanEdits
  BY <1>4 DEF HumanEdits, Dirties
<1>5. CASE HumanCleans
  BY <1>5 DEF HumanCleans
<1>6. CASE HumanSwitches
  BY <1>6 DEF HumanSwitches, Past
<1> QED BY <1>1, <1>2, <1>3, <1>4, <1>5, <1>6 DEF Next

\* Every action keeps the strays in the drift.
LEMMA DriftStep == ASSUME IInv, Next PROVE DriftInv'
<1> USE WorktreeConstants
    DEF IInv, TypeOK, DriftInv, InWorkspace, Goto, registry, process, history
<1>1. ASSUME NEW i \in Item, Step(i) PROVE DriftInv'
  <2>1. CASE Begin(i)
    BY <2>1 DEF Begin
  <2>2. CASE Prune(i)
    BY <2>2 DEF Prune, Pruned
  <2>3. CASE List(i)
    BY <2>3 DEF List
  <2>4. CASE IsDir(i)
    BY <2>4 DEF IsDir
  <2>5. CASE Add(i)
    BY <2>5 DEF Add, Past
  <2>6. CASE AddRefused(i)
    BY <2>6 DEF AddRefused, Leaves
  <2>7. CASE Settle(i)
    BY <2>7 DEF Settle, Probe, Porcelain
  <2>8. CASE SettleRaises(i)
    BY <2>8 DEF SettleRaises, Leaves
  <2>9. CASE Edit(i)
    BY <2>9 DEF Edit
  <2>10. CASE Stray(i)
    BY <2>10 DEF Stray, Dirties
  <2>11. CASE Landed(i)
    BY <2>11 DEF Landed, Probe, Porcelain, Drifted, Missing
  <2>12. CASE Commit(i)
    BY <2>12 DEF Commit
  <2>13. CASE CommitRaises(i)
    BY <2>13 DEF CommitRaises, Leaves
  <2>14. CASE Ends(i)
    BY <2>14 DEF Ends
  <2>15. CASE Keeps(i)
    BY <2>15 DEF Keeps, Leaves
  <2>16. CASE Remove(i)
    BY <2>16 DEF Remove
  <2>17. CASE RemoveFails(i)
    BY <2>17 DEF RemoveFails
  <2>18. CASE PruneAfter(i)
    BY <2>18 DEF PruneAfter, Pruned, Leaves
  <2> QED
    BY <1>1, <2>1, <2>2, <2>3, <2>4, <2>5, <2>6, <2>7, <2>8, <2>9, <2>10, <2>11, <2>12, <2>13,
       <2>14, <2>15, <2>16, <2>17, <2>18 DEF Step
<1>2. ASSUME NEW i \in Item, Crash(i) PROVE DriftInv'
  BY <1>2 DEF Crash, Leaves
<1>3. ASSUME NEW t \in Tree, Vanish(t) PROVE DriftInv'
  BY <1>3 DEF Vanish
<1>4. CASE HumanEdits
  BY <1>4 DEF HumanEdits, Dirties
<1>5. CASE HumanCleans
  BY <1>5 DEF HumanCleans
<1>6. CASE HumanSwitches
  BY <1>6 DEF HumanSwitches, Past
<1> QED BY <1>1, <1>2, <1>3, <1>4, <1>5, <1>6 DEF Next

\* Every action keeps the baselines.
LEMMA BaselineStep == ASSUME IInv, Next PROVE BaselineInv'
<1> USE WorktreeConstants
    DEF IInv, TypeOK, RegistryInv, BaselineInv, InWorkspace, Goto, registry, process, history
<1>1. ASSUME NEW i \in Item, Step(i) PROVE BaselineInv'
  <2>1. CASE Begin(i)
    BY <2>1 DEF Begin
  <2>2. CASE Prune(i)
    BY <2>2 DEF Prune, Pruned
  <2>3. CASE List(i)
    BY <2>3 DEF List
  <2>4. CASE IsDir(i)
    BY <2>4 DEF IsDir
  <2>5. CASE Add(i)
    <3>1. PICK t \in Tree :
             /\ Unused(t)
             /\ record' = [record EXCEPT ![branchOf[i]] = t]
             /\ there' = there \cup {t}
             /\ wt' = [wt EXCEPT ![i] = t]
      BY <2>5 DEF Add, Past
    <3> QED BY <2>5, <3>1 DEF Add, Unused, Past
  <2>6. CASE AddRefused(i)
    BY <2>6 DEF AddRefused, Leaves
  <2>7. CASE Settle(i)
    BY <2>7 DEF Settle, Probe, Porcelain
  <2>8. CASE SettleRaises(i)
    BY <2>8 DEF SettleRaises, Leaves
  <2>9. CASE Edit(i)
    BY <2>9 DEF Edit
  <2>10. CASE Stray(i)
    BY <2>10 DEF Stray, Dirties
  <2>11. CASE Landed(i)
    BY <2>11 DEF Landed, Probe, Porcelain, Drifted, Missing
  <2>12. CASE Commit(i)
    BY <2>12 DEF Commit
  <2>13. CASE CommitRaises(i)
    BY <2>13 DEF CommitRaises, Leaves
  <2>14. CASE Ends(i)
    BY <2>14 DEF Ends
  <2>15. CASE Keeps(i)
    BY <2>15 DEF Keeps, Leaves
  <2>16. CASE Remove(i)
    BY <2>16 DEF Remove
  <2>17. CASE RemoveFails(i)
    BY <2>17 DEF RemoveFails
  <2>18. CASE PruneAfter(i)
    BY <2>18 DEF PruneAfter, Pruned, Leaves
  <2> QED
    BY <1>1, <2>1, <2>2, <2>3, <2>4, <2>5, <2>6, <2>7, <2>8, <2>9, <2>10, <2>11, <2>12, <2>13,
       <2>14, <2>15, <2>16, <2>17, <2>18 DEF Step
<1>2. ASSUME NEW i \in Item, Crash(i) PROVE BaselineInv'
  BY <1>2 DEF Crash, Leaves
<1>3. ASSUME NEW t \in Tree, Vanish(t) PROVE BaselineInv'
  BY <1>3 DEF Vanish
<1>4. CASE HumanEdits
  BY <1>4 DEF HumanEdits, Dirties
<1>5. CASE HumanCleans
  BY <1>5 DEF HumanCleans
<1>6. CASE HumanSwitches
  BY <1>6 DEF HumanSwitches, Past
<1> QED BY <1>1, <1>2, <1>3, <1>4, <1>5, <1>6 DEF Next

LEMMA NextIInv == IInv /\ [Next]_vars => IInv'
<1> SUFFICES ASSUME IInv, [Next]_vars PROVE IInv'
  OBVIOUS
<1>1. CASE UNCHANGED vars
  BY <1>1 DEF vars, IInv, TypeOK, RegistryInv, ListInv, DriftInv, BaselineInv
<1>2. CASE Next
  BY <1>2, TypeStep, RegistryStep, ListStep, DriftStep, BaselineStep DEF IInv
<1> QED BY <1>1, <1>2

LEMMA Invariant == Spec => []IInv
BY InitIInv, NextIInv, PTL DEF Spec

\* Type correctness of the registry and of the runs that use it.
THEOREM WorktreeTypeCorrect == Spec => []TypeOK
<1>1. IInv => TypeOK
  BY DEF IInv
<1> QED BY <1>1, Invariant, PTL

\* However many runs share a clone, two of them are in one worktree only if
\* their items have one branch: git records a branch once, and a run's directory
\* is the one recorded.
THEOREM OwnTrees == Spec => []NoSharedTree
<1>1. IInv => NoSharedTree
  BY DEF IInv, TypeOK, RegistryInv, NoSharedTree
<1> QED BY <1>1, Invariant, PTL

\* What an earlier run left behind never makes `worktree add` fail.
THEOREM LeftoversAreNoWall == Spec => []NoWall
<1>1. IInv => NoWall
  BY WorktreeConstants DEF IInv, TypeOK, ListInv, NoWall
<1> QED BY <1>1, Invariant, PTL

\* A write into a clean file of the parent clone stops the commit, if git status
\* works.
THEOREM StraysStopCommits == Spec => []StraysCaught
<1>1. IInv => StraysCaught
  BY DEF IInv, DriftInv, StraysCaught
<1> QED BY <1>1, Invariant, PTL

\* Neither work in progress nor any run's worktree is ever reported as drift.
THEOREM OnlyNewDrift == Spec => []DriftIsNew
<1>1. IInv => DriftIsNew
  BY DEF IInv, BaselineInv, DriftIsNew, InWorkspace, Porcelain
<1> QED BY <1>1, Invariant, PTL

\* The only steps that change a branch are its creation and a commit by a run of
\* an item whose branch it is; the others leave head alone.
LEMMA HeadStep ==
  ASSUME IInv, Next, NEW b \in Branch, head'[b] # head[b]
  PROVE  \/ head[b] = 0 /\ head'[b] = 1
         \/ /\ head'[b] = head[b] + 1
            /\ \E i \in Item : pc[i] = "commit" /\ pc'[i] = "work" /\ branchOf[i] = b
<1> USE DEF IInv, TypeOK, RegistryInv, Goto, registry
<1>1. PICK i \in Item : Add(i) \/ Commit(i)
  BY DEF Next, Step, Begin, Prune, List, IsDir, AddRefused, Settle, SettleRaises, Edit, Stray,
         Landed, CommitRaises, Ends, Keeps, Remove, RemoveFails, PruneAfter, Crash, Vanish,
         HumanEdits, HumanCleans, HumanSwitches
<1>2. CASE Add(i)
  BY <1>2 DEF Add
<1>3. CASE Commit(i)
  <2>1. record[b] = ws[i] /\ head'[b] = head[b] + 1
    BY <1>3 DEF Commit
  <2>2. record[branchOf[i]] = ws[i] /\ ws[i] \in Tree
    BY <1>3 DEF Commit
  <2>3. branchOf[i] = b
    BY <2>1, <2>2
  <2> QED BY <1>3, <2>1, <2>3 DEF Commit
<1> QED BY <1>1, <1>2, <1>3

\* No checkout, cleanup, crash or developer moves a branch back, and a run
\* commits to the branch of its item only.
THEOREM BranchesGrow == Spec => CommitsOnOwnBranch
<1>1. IInv /\ [Next]_vars =>
        [\A b \in Branch : head'[b] # head[b] =>
           \/ head[b] = 0 /\ head'[b] = 1
           \/ /\ head'[b] = head[b] + 1
              /\ \E i \in Item : pc[i] = "commit" /\ pc'[i] = "work" /\ branchOf[i] = b]_vars
  BY HeadStep
<1> QED BY <1>1, Invariant, PTL DEF Spec, CommitsOnOwnBranch

\* Edits leave a worktree by a commit, by the cleanup of a run that is in it, or
\* by hand; a checkout that reuses it leaves them where they are.
LEMMA EditsStep ==
  ASSUME IInv, Next, NEW t \in Tree, edits[t] # {}, edits'[t] = {}
  PROVE  \/ \E i \in Item : ws[i] = t /\ pc[i] = "commit" /\ pc'[i] = "work"
         \/ \E i \in Item : ws[i] = t /\ pc[i] = "clean" /\ pc'[i] = "prune2"
         \/ faults' # faults
<1> USE DEF IInv, TypeOK, Goto, registry
<1>1. CASE \E i \in Item : Edit(i)
  BY <1>1 DEF Edit
<1>2. CASE \E i \in Item : Commit(i)
  BY <1>2 DEF Commit
<1>3. CASE \E i \in Item : Remove(i)
  BY <1>3 DEF Remove
<1>4. CASE \E u \in Tree : Vanish(u)
  BY <1>4 DEF Vanish
<1> QED
  BY <1>1, <1>2, <1>3, <1>4
     DEF Next, Step, Begin, Prune, List, IsDir, Add, AddRefused, Settle, SettleRaises, Stray,
         Landed, CommitRaises, Ends, Keeps, RemoveFails, PruneAfter, Crash,
         HumanEdits, HumanCleans, HumanSwitches

\* An interrupted run's edits are there for the next run of the item.
THEOREM EditsOutlive == Spec => EditsKept
<1>1. IInv /\ [Next]_vars =>
        [\A t \in Tree : edits[t] # {} /\ edits'[t] = {} =>
           \/ \E i \in Item : ws[i] = t /\ pc[i] = "commit" /\ pc'[i] = "work"
           \/ \E i \in Item : ws[i] = t /\ pc[i] = "clean" /\ pc'[i] = "prune2"
           \/ faults' # faults]_vars
  BY EditsStep
<1> QED BY <1>1, Invariant, PTL DEF Spec, EditsKept
=============================================================================

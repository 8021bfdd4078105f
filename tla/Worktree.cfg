CONSTANTS
  t1 = t1
  t2 = t2
  t3 = t3
  Item = {1, 2}
  Branch = {"a", "b"}
  Tree <- MCTree
  Main = Main
  NoTree = NoTree
  File = {"f"}
  TreeLines = {"wt"}
  MaxCommits = 1
  MaxFaults = 1
SPECIFICATION Spec
SYMMETRY TreeSymmetry
INVARIANTS NoSharedTree  StraysCaught DriftIsNew
PROPERTIES CommitsOnOwnBranch EditsKept
CHECK_DEADLOCK FALSE

-------------------------- MODULE PollSweepProofs --------------------------
(* Theorems of PollSweep, for every number of pollers and items.           *)
EXTENDS PollSweep, TLAPS

\* A poller that took an entry up is at an item of the listing, and has room
\* for it under --max-items from the check until it is counted.
TakenUp == {"read", "got", "try", "retire"} \cup Working
CursorInv ==
  \A p \in Poller :
    /\ pc[p] \in TakenUp => cur[p] \in Item
    /\ pc[p] \in {"try", "retire"} \cup Working => count[p] < MaxItems

\* Whoever works on an item owns its lock: a lock names one poller, so nobody
\* else can be working on the same item.
LockInv == \A p \in Poller : pc[p] \in Working => lock[cur[p]] = p

IInv == TypeOK /\ CursorInv /\ LockInv

LEMMA ItemFacts == Item \subseteq 0..ItemCount /\ Item \subseteq Nat
BY PollConstants DEF Item

LEMMA InitIInv == Init => IInv
<1> SUFFICES ASSUME Init PROVE IInv
  OBVIOUS
<1>1. assignee \in [Item -> {"none", "bot", "human"}]
  <2>1. CASE SourceKind = "file"
    BY <2>1 DEF Init
  <2>2. CASE SourceKind # "file"
    BY <2>2 DEF Init
  <2> QED BY <2>1, <2>2
<1> QED
  BY <1>1, PollConstants DEF Init, IInv, TypeOK, CursorInv, LockInv, TakenUp, Working, Point

LEMMA StepIInv == ASSUME NEW p \in Poller, IInv, Step(p) PROVE IInv'
<1> USE PollConstants, ItemFacts
    DEF IInv, TypeOK, CursorInv, LockInv, TakenUp, Working, Point, Goto, source, sweep
<1>1. CASE Search(p)
  <2>1. Page(0) \subseteq Item /\ (Rest(0) # {}) \in BOOLEAN
    BY DEF Page
  <2>2. /\ page' \in [Poller -> SUBSET Item]
        /\ more' \in [Poller -> BOOLEAN]
        /\ cur' \in [Poller -> 0..ItemCount]
        /\ count' \in [Poller -> 0..MaxItems]
    <3>1. cur' \in [Poller -> 0..ItemCount] /\ count' \in [Poller -> 0..MaxItems]
      BY <1>1 DEF Search
    <3>2. CASE SourceKind = "file"
      <4>1. {i \in Item : open[i]} \in SUBSET Item
        OBVIOUS
      <4> QED BY <1>1, <3>1, <3>2, <4>1 DEF Search
    <3>3. CASE SourceKind # "file"
      <4>1. /\ page' = [page EXCEPT ![p] = Page(0)]
            /\ more' = [more EXCEPT ![p] = Rest(0) # {}]
        BY <1>1, <3>3 DEF Search
      <4>2. Page(0) \in SUBSET Item
        BY <2>1
      <4> QED BY <3>1, <4>1, <4>2
    <3> QED BY <3>2, <3>3
  <2>3. /\ pc' \in [Poller -> Point]
        /\ pc'[p] \in {"stat", "next"}
        /\ \A q \in Poller : q # p => pc'[q] = pc[q] /\ cur'[q] = cur[q] /\ count'[q] = count[q]
    BY <1>1 DEF Search
  <2>4. UNCHANGED <<open, assignee, unretired, lock, runs, setting>>
    BY <1>1 DEF Search
  <2>5. TypeOK'
    BY <2>2, <2>3, <2>4
  <2>6. CursorInv'
    BY <2>2, <2>3, <2>4
  <2>7. LockInv'
    BY <2>2, <2>3, <2>4
  <2> QED BY <2>5, <2>6, <2>7
<1>2. CASE SortByMtime(p)
  BY <1>2 DEF SortByMtime
<1>3. CASE NextPage(p)
  <2>1. Page(cur[p]) \subseteq Item /\ (Rest(cur[p]) # {}) \in BOOLEAN
    BY DEF Page
  <2> QED BY <1>3, <2>1 DEF NextPage
<1>4. CASE Yield(p)
  <2>1. PICK i \in page[p] :
           /\ page' = [page EXCEPT ![p] = @ \ {i}]
           /\ cur' = [cur EXCEPT ![p] = i]
           /\ pc' = [pc EXCEPT ![p] = IF SourceKind = "jira" THEN "got"
                                      ELSE IF open[i] THEN "read" ELSE "next"]
    BY <1>4 DEF Yield
  <2>2. i \in Item
    BY <2>1
  <2>3. page' \in [Poller -> SUBSET Item] /\ cur' \in [Poller -> 0..ItemCount]
    BY <2>1, <2>2
  <2>4. /\ pc' \in [Poller -> Point]
        /\ pc'[p] \in {"got", "read", "next"}
        /\ cur'[p] \in Item
        /\ \A q \in Poller : q # p => pc'[q] = pc[q] /\ cur'[q] = cur[q]
    BY <2>1, <2>2
  <2>5. UNCHANGED <<open, assignee, unretired, lock, runs, more, count, setting>>
    BY <1>4 DEF Yield
  <2>6. TypeOK'
    BY <2>3, <2>4, <2>5
  <2>7. CursorInv'
    BY <2>3, <2>4, <2>5
  <2>8. LockInv'
    BY <2>3, <2>4, <2>5
  <2> QED BY <2>6, <2>7, <2>8
<1>5. CASE ReadFile(p)
  BY <1>5 DEF ReadFile
<1>6. CASE Consider(p)
  BY <1>6 DEF Consider, EndOfSweep
<1>7. CASE Acquire(p)
  <2>1. CASE lock[cur[p]] = Free
    <3>1. \A q \in Poller : pc[q] \in Working => lock[cur[q]] # Free
      BY DEF Free
    <3>2. lock' \in [Item -> Poller \cup {Free, Stuck}]
      BY <1>7, <2>1 DEF Acquire
    <3>3. pc' = [pc EXCEPT ![p] = "claim"] /\ lock' = [lock EXCEPT ![cur[p]] = p] /\ cur[p] \in Item
      BY <1>7, <2>1 DEF Acquire
    <3>4. UNCHANGED <<source, runs, sweep>>
      BY <1>7 DEF Acquire
    <3>5. CursorInv'
      BY <1>7, <3>3, <3>4 DEF Acquire
    <3>6. LockInv'
      BY <2>1, <3>1, <3>3, <3>4
    <3> QED BY <3>2, <3>3, <3>4, <3>5, <3>6
  <2>2. CASE lock[cur[p]] # Free
    BY <1>7, <2>2 DEF Acquire
  <2> QED BY <2>1, <2>2
<1>8. CASE ClaimCheck(p)
  <2>1. cur[p] \in Item /\ runs[p] \in [Item -> 0..2]
    BY <1>8 DEF ClaimCheck
  <2>2. PICK n \in 0..2 : runs' = [runs EXCEPT ![p] = [@ EXCEPT ![cur[p]] = n]]
    <3>1. (IF runs[p][cur[p]] < 2 THEN runs[p][cur[p]] + 1 ELSE 2) \in 0..2
      BY <2>1
    <3> QED BY <1>8, <3>1 DEF ClaimCheck
  <2>3. [runs[p] EXCEPT ![cur[p]] = n] \in [Item -> 0..2]
    BY <2>1
  <2>4. runs' \in [Poller -> [Item -> 0..2]]
    BY <2>2, <2>3
  <2> QED BY <1>8, <2>4 DEF ClaimCheck
<1>9. CASE ClaimWrite(p)
  BY <1>9 DEF ClaimWrite
<1>10. CASE ClaimRaises(p)
  BY <1>10 DEF ClaimRaises
<1>11. CASE RunEnds(p)
  BY <1>11 DEF RunEnds
<1>12. CASE Release(p)
  <2>1. \A q \in Poller : q # p /\ pc[q] \in Working => cur[q] # cur[p]
    BY <1>12 DEF Release
  <2> QED BY <1>12, <2>1 DEF Release, AfterRelease
<1>13. CASE Retire(p)
  BY <1>13 DEF Retire
<1>14. CASE EndSweep(p)
  BY <1>14 DEF EndSweep, EndOfSweep
<1> QED
  BY <1>1, <1>2, <1>3, <1>4, <1>5, <1>6, <1>7, <1>8, <1>9, <1>10, <1>11, <1>12, <1>13,
     <1>14 DEF Step

LEMMA FaultIInv == ASSUME NEW p \in Poller, IInv, Fault(p) PROVE IInv'
<1> USE DEF IInv, TypeOK, CursorInv, LockInv, TakenUp, Working, Point, Goto, source, sweep
<1>1. CASE AcquireFails(p)
  <2>1. \A q \in Poller : q # p /\ pc[q] \in Working => cur[q] # cur[p]
    BY <1>1 DEF AcquireFails
  <2> QED BY <1>1, <2>1 DEF AcquireFails
<1>2. CASE ReleaseFails(p)
  <2>1. \A q \in Poller : q # p /\ pc[q] \in Working => cur[q] # cur[p]
    BY <1>2 DEF ReleaseFails
  <2> QED BY <1>2, <2>1 DEF ReleaseFails, AfterRelease
<1>3. CASE RetireFails(p)
  BY <1>3, PollConstants DEF RetireFails
<1> QED BY <1>1, <1>2, <1>3 DEF Fault

LEMMA NextIInv == IInv /\ [Next]_vars => IInv'
<1> SUFFICES ASSUME IInv, [Next]_vars PROVE IInv'
  OBVIOUS
<1>1. CASE UNCHANGED vars
  BY <1>1 DEF vars, IInv, TypeOK, CursorInv, LockInv
<1>2. ASSUME NEW p \in Poller, Step(p) PROVE IInv'
  BY <1>2, StepIInv
<1>3. ASSUME NEW p \in Poller, Crash(p) PROVE IInv'
  <2> USE DEF IInv, TypeOK, CursorInv, LockInv, TakenUp, Working, Point, Goto, source, sweep
  <2>1. CASE pc[p] \in Working
    <3>1. \A q \in Poller : q # p /\ pc[q] \in Working => cur[q] # cur[p]
      BY <2>1
    <3> QED BY <1>3, <2>1, <3>1 DEF Crash
  <2>2. CASE pc[p] \notin Working
    BY <1>3, <2>2 DEF Crash
  <2> QED BY <2>1, <2>2
<1>4. ASSUME NEW i \in Item, HumanTakes(i) PROVE IInv'
  BY <1>4 DEF HumanTakes, IInv, TypeOK, CursorInv, LockInv, sweep
<1>5. ASSUME NEW p \in Poller, Fault(p) PROVE IInv'
  BY <1>5, FaultIInv
<1> QED BY <1>1, <1>2, <1>3, <1>4, <1>5 DEF Next

LEMMA Invariant == Spec => []IInv
BY InitIInv, NextIInv, PTL DEF Spec

\* Type correctness of the sweep.
THEOREM PollTypeCorrect == Spec => []TypeOK
<1>1. IInv => TypeOK
  BY DEF IInv
<1> QED BY <1>1, Invariant, PTL

\* However many pollers share a source, an item is worked on by one of them at
\* a time, the one its lock names.
THEOREM NeverTogether == Spec => []OneAtATime
<1>1. IInv => OneAtATime
  BY DEF IInv, LockInv, OneAtATime
<1> QED BY <1>1, Invariant, PTL

\* The lock of every item is what ItemMutex calls one: whatever the pollers do,
\* it goes from free to its holder, from its holder to free or stuck.
THEOREM ItemLocksAreMutexes == Spec => LocksAreMutexes
<1>1. Init => \A i \in Item : Lock(i)!Init
  BY DEF Init, Lock!Init, Free
<1>2. IInv /\ [Next]_vars => [\A i \in Item : Lock(i)!Next \/ UNCHANGED lock[i]]_lock
  <2> SUFFICES ASSUME IInv, Next, NEW i \in Item
               PROVE  Lock(i)!Next \/ UNCHANGED lock[i]
    BY DEF vars
  <2> USE DEF IInv, TypeOK, LockInv, CursorInv, TakenUp, Working
  <2>1. ASSUME NEW p \in Poller, Acquire(p) PROVE Lock(i)!Next \/ UNCHANGED lock[i]
    BY <2>1 DEF Acquire, Lock!Next, Lock!Acquire, Free
  <2>2. ASSUME NEW p \in Poller, Release(p) PROVE Lock(i)!Next \/ UNCHANGED lock[i]
    BY <2>2 DEF Release, Lock!Next, Lock!Release, Free
  <2>3. ASSUME NEW p \in Poller, Crash(p) PROVE Lock(i)!Next \/ UNCHANGED lock[i]
    BY <2>3 DEF Crash, Lock!Next, Lock!Orphan, Stuck
  <2>4. ASSUME NEW p \in Poller, Step(p), ~Acquire(p), ~Release(p) PROVE UNCHANGED lock[i]
    BY <2>4 DEF Step, Search, SortByMtime, NextPage, Yield, ReadFile, Consider, ClaimCheck, ClaimWrite,
       ClaimRaises, RunEnds, Retire, EndSweep
  <2>5. ASSUME NEW j \in Item, HumanTakes(j) PROVE UNCHANGED lock[i]
    BY <2>5 DEF HumanTakes
  <2>6. ASSUME NEW p \in Poller, Fault(p) PROVE Lock(i)!Next \/ UNCHANGED lock[i]
    BY <2>6 DEF Fault, AcquireFails, ReleaseFails, RetireFails, Lock!Next, Lock!Orphan, Stuck
  <2> QED BY <2>1, <2>2, <2>3, <2>4, <2>5, <2>6 DEF Next
<1> QED BY <1>1, <1>2, Invariant, PTL DEF Spec, LocksAreMutexes

-----------------------------------------------------------------------------
(* One run of every item by every poller.                                  *)

\* The item has left the listing.
Gone(i) ==
  \/ ~open[i]
  \/ SourceKind = "jira" /\ setting.jqlMine /\ assignee[i] = "human"

\* Where what is run is retired, an item that p has run is gone, or p is still at
\* it, or it could not be moved; what p has listed or taken up it has not run yet.
Busy(p, i) == cur[p] = i /\ pc[p] \in Working \cup {"retire"}
New(p, i) == runs[p][i] = 0 \/ i \in unretired
FirstRunInv(p) ==
  /\ \A i \in Item : runs[p][i] <= 1 \/ i \in unretired
  /\ pc[p] \in {"assign", "run", "release", "retire"} => runs[p][cur[p]] > 0
  /\ Alive(p) =>
       /\ \A i \in Item : runs[p][i] > 0 => Gone(i) \/ Busy(p, i) \/ i \in unretired
       /\ pc[p] # "rest" => \A i \in page[p] : New(p, i)
       /\ pc[p] \in {"read", "got", "try", "claim"} => New(p, cur[p]) /\ cur[p] \notin page[p]
       /\ SourceKind = "jira" /\ pc[p] \in {"run", "release", "retire"} => Gone(cur[p])
       /\ SourceKind = "file" => pc[p] # "assign"

\* A claim that is about to write "bot" over the name of a human is not of an
\* issue that another poller has run: nobody brings that one back into the query.
AssignInv ==
  \A p, q \in Poller :
    p # q /\ pc[q] = "assign" /\ setting.hasAccount /\ runs[p][cur[q]] > 0 /\ Alive(p) =>
      ~open[cur[q]]

\* Only files are moved.
MoveInv == SourceKind = "jira" => unretired = {}

OnceInv == Retires => AssignInv /\ MoveInv /\ \A p \in Poller : FirstRunInv(p)

LEMMA SettingFacts ==
  ASSUME IInv
  PROVE  /\ SourceKind \in {"file", "jira"}
         /\ setting.hasAccount \in BOOLEAN /\ setting.jqlMine \in BOOLEAN
BY PollConstants DEF IInv, TypeOK, SourceKind, Setting

\* What a step of one poller leaves alone.
LEMMA OthersUntouched ==
  ASSUME IInv, NEW q \in Poller, Step(q) \/ Fault(q) \/ Crash(q), NEW p \in Poller, p # q
  PROVE  /\ pc'[p] = pc[p] /\ cur'[p] = cur[p] /\ page'[p] = page[p] /\ runs'[p] = runs[p]
         /\ unretired \subseteq unretired' /\ setting' = setting
         /\ \A i \in Item : ~open[i] => ~open'[i]
<1> USE DEF Goto, source, sweep, IInv, TypeOK
<1>1. CASE Step(q)
  <2>1. CASE Search(q) \/ Yield(q) \/ NextPage(q) \/ SortByMtime(q) \/ ReadFile(q) \/ Consider(q) \/ EndSweep(q)
    BY <2>1 DEF Search, Yield, NextPage, SortByMtime, ReadFile, Consider, EndSweep
  <2>2. CASE Acquire(q) \/ ClaimCheck(q) \/ ClaimRaises(q) \/ RunEnds(q) \/ Release(q)
    BY <2>2 DEF Acquire, ClaimCheck, ClaimRaises, RunEnds, Release, AfterRelease
  <2>3. CASE ClaimWrite(q) \/ Retire(q)
    BY <2>3 DEF ClaimWrite, Retire
  <2> QED BY <1>1, <2>1, <2>2, <2>3 DEF Step
<1>2. CASE Fault(q)
  BY <1>2 DEF Fault, AcquireFails, ReleaseFails, RetireFails, AfterRelease
<1>3. CASE Crash(q)
  BY <1>3 DEF Crash
<1> QED BY <1>1, <1>2, <1>3

\* No step changes the arrangement.
LEMMA SettingIsFixed == [Next]_vars => setting' = setting
<1> SUFFICES ASSUME [Next]_vars PROVE setting' = setting
  OBVIOUS
<1> USE DEF source
<1>1. ASSUME NEW p \in Poller, Step(p) PROVE setting' = setting
  BY <1>1 DEF Step, Search, SortByMtime, NextPage, Yield, ReadFile, Consider, Acquire, ClaimCheck,
     ClaimWrite, ClaimRaises, RunEnds, Release, Retire, EndSweep
<1>2. ASSUME NEW p \in Poller, Crash(p) \/ Fault(p) PROVE setting' = setting
  BY <1>2 DEF Crash, Fault, AcquireFails, ReleaseFails, RetireFails
<1>3. ASSUME NEW i \in Item, HumanTakes(i) PROVE setting' = setting
  BY <1>3 DEF HumanTakes
<1>4. CASE UNCHANGED vars
  BY <1>4 DEF vars
<1> QED BY <1>1, <1>2, <1>3, <1>4 DEF Next

\* What p has run stays out of the listing, whatever another poller does.
LEMMA GoneLasts ==
  ASSUME Retires, IInv, AssignInv, NEW p \in Poller, NEW q \in Poller, p # q,
         Step(q) \/ Fault(q) \/ Crash(q),
         NEW i \in Item, Alive(p), runs[p][i] > 0, Gone(i)
  PROVE  Gone(i)'
<1>1. setting' = setting /\ (~open[i] => ~open'[i])
  BY OthersUntouched
<1>2. assignee' = assignee \/ ~open'[i] \/ (SourceKind = "jira" /\ assignee'[i] = assignee[i])
  <2> USE DEF source, IInv, TypeOK
  <2>1. CASE ClaimWrite(q)
    <3>1. SourceKind \in {"file", "jira"}
      BY SettingFacts
    <3>2. CASE cur[q] = i /\ setting.hasAccount /\ SourceKind = "jira"
      BY <2>1, <3>2 DEF ClaimWrite, Retires
    <3>3. CASE cur[q] = i /\ setting.hasAccount /\ SourceKind = "file"
      <4>1. ~open[i]
        BY <3>3 DEF Gone
      <4> QED BY <1>1, <4>1
    <3>4. CASE cur[q] = i /\ ~setting.hasAccount
      BY <2>1, <3>4 DEF ClaimWrite
    <3>5. CASE cur[q] # i
      <4>1. assignee'[i] = assignee[i]
        BY <2>1, <3>5 DEF ClaimWrite
      <4>2. SourceKind = "file" => ~open[i]
        BY DEF Gone
      <4> QED BY <4>1, <4>2, <3>1, <1>1
    <3> QED BY <3>1, <3>2, <3>3, <3>4, <3>5
  <2>2. CASE ClaimRaises(q)
    <3>1. CASE assignee' = [assignee EXCEPT ![cur[q]] = "bot"] /\ pc[q] = "assign" /\ setting.hasAccount
      <4>1. CASE cur[q] = i
        BY <4>1, <3>1, <1>1 DEF AssignInv
      <4>2. CASE cur[q] # i
        BY <2>2, <3>1, <4>2 DEF ClaimRaises
      <4> QED BY <4>1, <4>2
    <3> QED BY <2>2, <3>1 DEF ClaimRaises
  <2>3. CASE Step(q) /\ ~ClaimWrite(q) /\ ~ClaimRaises(q)
    BY <2>3 DEF Step, Search, SortByMtime, NextPage, Yield, ReadFile, Consider, Acquire, ClaimCheck,
       RunEnds, Release, Retire, EndSweep
  <2>4. CASE Fault(q) \/ Crash(q)
    BY <2>4 DEF Fault, AcquireFails, ReleaseFails, RetireFails, Crash
  <2> QED BY <2>1, <2>2, <2>3, <2>4
<1> QED BY <1>1, <1>2 DEF Gone, SourceKind

\* What p lists it has not run, or could not move.
LEMMA PageIsNew ==
  ASSUME Retires, NEW p \in Poller, IInv, FirstRunInv(p), Alive(p), pc[p] \in {"rest", "next"}, NEW k \in Nat
  PROVE  /\ \A i \in Page(k) : New(p, i)
         /\ \A i \in Item : open[i] => New(p, i) \/ SourceKind = "jira"
<1>1. \A i \in Item : runs[p][i] > 0 => Gone(i) \/ i \in unretired
  BY DEF FirstRunInv, Busy, Working
<1>2. \A i \in Item : runs[p][i] \in 0..2 /\ assignee[i] \in {"none", "bot", "human"}
  BY DEF IInv, TypeOK
<1> QED BY <1>1, <1>2, SettingFacts DEF Gone, Page, Listed, New

LEMMA FirstRunOwnStep ==
  ASSUME Retires, NEW p \in Poller, IInv, IInv', FirstRunInv(p), Step(p) \/ Fault(p) \/ Crash(p)
  PROVE  FirstRunInv(p)'
<1>1. SourceKind \in {"file", "jira"} /\ setting.hasAccount \in BOOLEAN /\ setting.jqlMine \in BOOLEAN
  BY SettingFacts
<1>2. /\ \A i \in Item : runs[p][i] \in 0..2 /\ assignee[i] \in {"none", "bot", "human"} /\ open[i] \in BOOLEAN
      /\ runs \in [Poller -> [Item -> 0..2]] /\ pc \in [Poller -> Point] /\ cur \in [Poller -> 0..ItemCount]
      /\ page \in [Poller -> SUBSET Item] /\ open \in [Item -> BOOLEAN]
      /\ assignee \in [Item -> {"none", "bot", "human"}]
      /\ pc[p] \in TakenUp => cur[p] \in Item
  BY DEF IInv, TypeOK, CursorInv
<1> USE <1>1, <1>2 DEF FirstRunInv, Alive, Gone, Busy, New, Goto, source, sweep, SourceKind, TakenUp, Working
<1>4. CASE Search(p)
  <2>1. /\ \A i \in Page(0) : New(p, i)
        /\ \A i \in Item : open[i] => New(p, i) \/ SourceKind = "jira"
    BY <1>4, PageIsNew DEF Search
  <2>2. UNCHANGED <<open, assignee, unretired, setting, runs>>
    BY <1>4 DEF Search
  <2>3. pc'[p] \in {"stat", "next"} /\ \A i \in page'[p] : New(p, i)
    BY <1>4, <2>1 DEF Search
  <2>4. \A i \in Item : runs[p][i] > 0 => Gone(i) \/ i \in unretired
    BY <1>4 DEF Search
  <2> QED BY <2>2, <2>3, <2>4
<1>5. CASE NextPage(p)
  <2>1. \A i \in Page(cur[p]) : New(p, i)
    BY <1>5, PageIsNew, ItemFacts DEF NextPage
  <2> QED BY <1>5, <2>1 DEF NextPage
<1>6. CASE Yield(p)
  <2>1. PICK i \in page[p] :
           /\ page' = [page EXCEPT ![p] = @ \ {i}]
           /\ cur' = [cur EXCEPT ![p] = i]
           /\ pc' = [pc EXCEPT ![p] = IF SourceKind = "jira" THEN "got"
                                      ELSE IF open[i] THEN "read" ELSE "next"]
    BY <1>6 DEF Yield
  <2>2. pc[p] = "next" /\ UNCHANGED <<open, assignee, unretired, setting, runs>>
    BY <1>6 DEF Yield
  <2>3. pc'[p] \in {"got", "read", "next"} /\ page'[p] = page[p] \ {i} /\ cur'[p] = i
    BY <2>1
  <2> QED BY <2>2, <2>3
<1>7. CASE SortByMtime(p) \/ ReadFile(p) \/ Consider(p) \/ EndSweep(p)
  BY <1>7 DEF SortByMtime, ReadFile, Consider, EndSweep, EndOfSweep
<1>8. CASE Acquire(p)
  BY <1>8 DEF Acquire
<1>9. CASE ClaimCheck(p)
  <2>0. PICK i0 \in Item : i0 = cur[p]
    BY <1>9 DEF ClaimCheck
  <2>1. /\ New(p, i0) /\ i0 \notin page[p]
        /\ UNCHANGED <<open, assignee, unretired, setting, page, cur>>
        /\ \A i \in Item : i # i0 => runs'[p][i] = runs[p][i]
        /\ runs'[p][i0] > 0
        /\ runs'[p][i0] <= 1 \/ i0 \in unretired
    BY <1>9, <2>0 DEF ClaimCheck
  <2>2. /\ pc[p] = "claim" /\ pc'[p] \in {"run", "release", "assign"}
        /\ SourceKind = "file" => pc'[p] = "run"
        /\ SourceKind = "jira" /\ pc'[p] # "assign" =>
             pc'[p] = "release" /\ assignee[i0] = "human" /\ setting.hasAccount
    BY <1>9, <2>0 DEF ClaimCheck
  <2>3. SourceKind = "jira" /\ pc'[p] \in {"run", "release", "retire"} => Gone(i0)'
    BY <2>1, <2>2 DEF Retires
  <2> QED BY <2>0, <2>1, <2>2, <2>3
<1>10. CASE ClaimWrite(p)
  BY <1>10 DEF ClaimWrite, Retires
<1>11. CASE ClaimRaises(p)
  BY <1>11 DEF ClaimRaises
<1>12. CASE RunEnds(p)
  BY <1>12 DEF RunEnds
<1>13. CASE Release(p) \/ ReleaseFails(p)
  BY <1>13 DEF Release, ReleaseFails, AfterRelease
<1>14. CASE Retire(p)
  BY <1>14 DEF Retire
<1>15. CASE RetireFails(p)
  BY <1>15 DEF RetireFails
<1>16. CASE AcquireFails(p)
  BY <1>16 DEF AcquireFails
<1>17. CASE Crash(p)
  BY <1>17 DEF Crash
<1> QED
  BY <1>4, <1>5, <1>6, <1>7, <1>8, <1>9, <1>10, <1>11, <1>12, <1>13, <1>14, <1>15, <1>16, <1>17
     DEF Step, Fault

LEMMA FirstRunOtherStep ==
  ASSUME Retires, IInv, AssignInv, NEW p \in Poller, NEW q \in Poller, p # q, FirstRunInv(p),
         Step(q) \/ Fault(q) \/ Crash(q)
  PROVE  FirstRunInv(p)'
<1>1. /\ pc'[p] = pc[p] /\ cur'[p] = cur[p] /\ page'[p] = page[p] /\ runs'[p] = runs[p]
      /\ unretired \subseteq unretired' /\ setting' = setting
  BY OthersUntouched
<1>2. \A i \in Item : Alive(p) /\ runs[p][i] > 0 /\ Gone(i) => Gone(i)'
  BY GoneLasts
<1>3. pc[p] \in TakenUp => cur[p] \in Item
  BY DEF IInv, CursorInv
<1>4. SourceKind' = SourceKind /\ (Alive(p)' <=> Alive(p)) /\ (\A i \in Item : Busy(p, i)' <=> Busy(p, i))
  BY <1>1 DEF SourceKind, Alive, Busy
<1>5. \A i : New(p, i) => New(p, i)'
  BY <1>1 DEF New
<1>6. SourceKind = "jira" /\ Alive(p) /\ pc[p] \in {"run", "release", "retire"} => Gone(cur[p])'
  <2> SUFFICES ASSUME NEW i \in Item, i = cur[p], SourceKind = "jira", Alive(p),
                      pc[p] \in {"run", "release", "retire"}
               PROVE  Gone(i)'
    BY <1>1, <1>3 DEF TakenUp, Working, Gone
  <2> QED BY <1>2 DEF FirstRunInv
<1> QED
  BY <1>1, <1>2, <1>4, <1>5, <1>6 DEF FirstRunInv, IInv, TypeOK, Gone

\* A human can only take an issue, which leaves the query of the bot with it.
LEMMA FirstRunHuman ==
  ASSUME IInv, NEW p \in Poller, FirstRunInv(p), NEW j \in Item, HumanTakes(j)
  PROVE  FirstRunInv(p)'
<1>1. \A i \in Item : Gone(i) => Gone(i)'
  BY DEF HumanTakes, Gone, IInv, TypeOK, SourceKind
<1>2. UNCHANGED <<pc, cur, page, runs, unretired, setting, open>>
  BY DEF HumanTakes, sweep
<1>3. pc[p] \in TakenUp => cur[p] \in Item
  BY DEF IInv, CursorInv
<1>4. /\ SourceKind' = SourceKind /\ (Alive(p)' <=> Alive(p))
      /\ \A i \in Item : (Busy(p, i)' <=> Busy(p, i))
      /\ \A i : (New(p, i)' <=> New(p, i))
  BY <1>2 DEF SourceKind, Alive, Busy, New
<1> QED
  BY <1>1, <1>2, <1>3, <1>4 DEF FirstRunInv, Gone, IInv, TypeOK, TakenUp, Working

LEMMA MoveInductive == IInv /\ MoveInv /\ [Next]_vars => MoveInv'
<1> SUFFICES ASSUME IInv, MoveInv, [Next]_vars, SourceKind = "jira" PROVE unretired' = {}
  BY SettingIsFixed DEF MoveInv, SourceKind
<1> USE DEF source, MoveInv
<1>1. ASSUME NEW q \in Poller, Step(q) PROVE unretired' = unretired
  BY <1>1 DEF Step, Search, SortByMtime, NextPage, Yield, ReadFile, Consider, Acquire, ClaimCheck,
     ClaimWrite, ClaimRaises, RunEnds, Release, Retire, EndSweep
<1>2. ASSUME NEW q \in Poller, Fault(q) \/ Crash(q) PROVE unretired' = unretired
  BY <1>2 DEF Fault, AcquireFails, ReleaseFails, RetireFails, Crash
<1>3. ASSUME NEW i \in Item, HumanTakes(i) PROVE unretired' = unretired
  BY <1>3 DEF HumanTakes
<1>4. CASE UNCHANGED vars
  BY <1>4 DEF vars
<1> QED BY <1>1, <1>2, <1>3, <1>4 DEF Next

\* Only a claim that finds no human's name on the issue goes on to write its own.
LEMMA AssignFromCheck ==
  ASSUME IInv, NEW q \in Poller, Step(q) \/ Fault(q) \/ Crash(q), pc'[q] = "assign"
  PROVE  ClaimCheck(q)
<1> USE DEF Goto, IInv, TypeOK
<1>1. CASE Step(q)
  BY <1>1 DEF Step, Search, SortByMtime, NextPage, Yield, ReadFile, Consider, EndOfSweep, Acquire,
     ClaimWrite, ClaimRaises, RunEnds, Release, AfterRelease, Retire, EndSweep
<1>2. CASE Fault(q) \/ Crash(q)
  BY <1>2 DEF Fault, AcquireFails, ReleaseFails, AfterRelease, RetireFails, Crash
<1> QED BY <1>1, <1>2

\* A poller gains a run only of the item it has locked.
LEMMA RunsOfOwn ==
  ASSUME IInv, NEW p \in Poller, Step(p) \/ Fault(p) \/ Crash(p), NEW i \in Item
  PROVE  /\ runs'[p][i] = runs[p][i] \/ (cur[p] = i /\ lock[i] = p)
         /\ Alive(p)' => Alive(p)
<1> USE DEF IInv, TypeOK, LockInv, Working, Goto, Alive, source, sweep
<1>1. CASE ClaimCheck(p)
  BY <1>1 DEF ClaimCheck
<1>2. CASE Step(p) /\ ~ClaimCheck(p)
  BY <1>2 DEF Step, Search, SortByMtime, NextPage, Yield, ReadFile, Consider, Acquire, ClaimWrite,
     ClaimRaises, RunEnds, Release, Retire, EndSweep
<1>3. CASE Fault(p) \/ Crash(p)
  BY <1>3 DEF Fault, AcquireFails, ReleaseFails, RetireFails, Crash
<1> QED BY <1>1, <1>2, <1>3

LEMMA AssignInductive ==
  ASSUME Retires, IInv, AssignInv, MoveInv, \A p \in Poller : FirstRunInv(p), [Next]_vars
  PROVE  AssignInv'
<1> SUFFICES ASSUME NEW p \in Poller, NEW q \in Poller, p # q, pc'[q] = "assign",
                    setting'.hasAccount, runs'[p][cur'[q]] > 0, Alive(p)'
             PROVE  ~open'[cur'[q]]
  BY DEF AssignInv
<1>1. ASSUME Step(q) \/ Fault(q) \/ Crash(q) PROVE ~open'[cur'[q]]
  <2>1. ClaimCheck(q)
    BY <1>1, AssignFromCheck
  <2>2. pc[q] = "claim" /\ cur'[q] = cur[q] /\ open' = open /\ setting' = setting
    BY <2>1 DEF ClaimCheck, source, sweep
  <2>3. cur[q] \in Item /\ lock[cur[q]] = q
    BY <2>2 DEF IInv, CursorInv, LockInv, TakenUp, Working
  <2>4. SourceKind = "jira" /\ assignee[cur[q]] # "human"
    BY <2>1, <2>2, SettingFacts DEF ClaimCheck, Goto, IInv, TypeOK
  <2>5. runs'[p] = runs[p] /\ pc'[p] = pc[p]
    BY <1>1, OthersUntouched
  <2>6. Alive(p) /\ runs[p][cur[q]] > 0 /\ unretired = {}
    BY <2>2, <2>4, <2>5 DEF Alive, MoveInv
  <2>7. ~(cur[p] = cur[q] /\ pc[p] \in Working)
    BY <2>3 DEF IInv, LockInv
  <2>8. Gone(cur[q])
    BY <2>3, <2>4, <2>6, <2>7 DEF FirstRunInv, Busy
  <2> QED BY <2>2, <2>4, <2>8 DEF Gone
<1>2. ASSUME NEW r \in Poller, r # q, Step(r) \/ Fault(r) \/ Crash(r) PROVE ~open'[cur'[q]]
  <2>1. pc[q] = "assign" /\ cur'[q] = cur[q] /\ setting' = setting
    BY <1>2, OthersUntouched
  <2>2. cur[q] \in Item /\ lock[cur[q]] = q
    BY <2>1 DEF IInv, CursorInv, LockInv, TakenUp, Working
  <2>3. runs'[p][cur[q]] = runs[p][cur[q]] /\ Alive(p)
    <3>1. CASE r = p
      BY <1>2, <2>2, <3>1, RunsOfOwn
    <3>2. CASE r # p
      BY <1>2, <3>2, OthersUntouched DEF Alive
    <3> QED BY <3>1, <3>2
  <2>4. ~open[cur[q]]
    BY <2>1, <2>3 DEF AssignInv
  <2> QED BY <1>2, <2>1, <2>2, <2>4, OthersUntouched
<1>3. ASSUME NEW j \in Item, HumanTakes(j) PROVE ~open'[cur'[q]]
  BY <1>3 DEF HumanTakes, sweep, AssignInv, Alive
<1>4. CASE UNCHANGED vars
  BY <1>4 DEF vars, AssignInv, Alive
<1> QED BY <1>1, <1>2, <1>3, <1>4 DEF Next

LEMMA OnceInvariant == Spec => [](IInv /\ OnceInv)
<1>1. Init => OnceInv
  BY PollConstants DEF Init, OnceInv, AssignInv, MoveInv, FirstRunInv, Alive, Working
<1>2. ASSUME IInv, OnceInv, [Next]_vars, IInv' PROVE OnceInv'
  <2>1. setting' = setting /\ (Retires' <=> Retires)
    BY <1>2, SettingIsFixed DEF Retires, SourceKind
  <2> SUFFICES ASSUME Retires PROVE AssignInv' /\ MoveInv' /\ \A p \in Poller : FirstRunInv(p)'
    BY <2>1 DEF OnceInv
  <2>2. AssignInv /\ MoveInv /\ \A p \in Poller : FirstRunInv(p)
    BY <1>2 DEF OnceInv
  <2>3. AssignInv' /\ MoveInv'
    BY <1>2, <2>2, AssignInductive, MoveInductive
  <2>4. ASSUME NEW p \in Poller PROVE FirstRunInv(p)'
    <3>1. ASSUME NEW q \in Poller, Step(q) \/ Fault(q) \/ Crash(q) PROVE FirstRunInv(p)'
      <4>1. CASE p = q
        BY <1>2, <2>2, <3>1, <4>1, FirstRunOwnStep
      <4>2. CASE p # q
        BY <1>2, <2>2, <3>1, <4>2, FirstRunOtherStep
      <4> QED BY <4>1, <4>2
    <3>2. ASSUME NEW j \in Item, HumanTakes(j) PROVE FirstRunInv(p)'
      BY <1>2, <2>2, <3>2, FirstRunHuman
    <3>3. CASE UNCHANGED vars
      BY <2>2, <3>3 DEF vars, FirstRunInv, Alive, New, Busy, Gone, SourceKind
    <3> QED BY <1>2, <3>1, <3>2, <3>3 DEF Next
  <2> QED BY <2>3, <2>4
<1> QED BY <1>1, <1>2, Invariant, PTL DEF Spec

\* A source that takes what was run out of its listing has every poller run every
\* item once at most, however many pollers sweep it and whatever the others do:
\* the listing a poller has is never older than its own last run.
THEOREM OneRunEach == Spec => []AtMostOneRun
<1>1. OnceInv => AtMostOneRun
  BY DEF OnceInv, FirstRunInv, AtMostOneRun
<1> QED BY <1>1, OnceInvariant, PTL
=============================================================================

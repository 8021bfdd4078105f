----------------------------- MODULE PollSweep -----------------------------
(***************************************************************************)
(* Orchestrator.poll(): pollers that share one source and one runs         *)
(* directory, the source they sweep (a folder of files, or a Jira query)   *)
(* and the lock of each work item.                                         *)
(*                                                                         *)
(* poll() reads the listing first and comes back to each entry much later: *)
(* between the two another poller may run and retire the item, a human may *)
(* take the issue, the process may die.  The lock is taken and given up in *)
(* one step here: RunLock implements ItemMutex, which is all that is used. *)
(***************************************************************************)
EXTENDS Naturals, FiniteSets

CONSTANTS
  Poller,         \* poller processes
  ItemCount,      \* items are 1..ItemCount, in the order the source lists them
  PageSize,       \* issues per search page (maxResults); a glob is one page
  MaxItems,       \* --max-items
  Settings        \* the arrangements to look at, see Setting

Item == 1..ItemCount

\* Who sweeps what, and what may go wrong.
Setting ==
  [pollers       : SUBSET Poller,     \* the processes there are
   source        : {"file", "jira"},
   jqlMine       : BOOLEAN,           \* the JQL says "assignee = currentUser()"
   hasAccount    : BOOLEAN,           \* account_id is configured
   canTransition : BOOLEAN,           \* the workflow offers in_progress_status
   once          : BOOLEAN,           \* --once
   crashes       : BOOLEAN,           \* pollers may be killed
   raises        : BOOLEAN,           \* a run may end in an exception
   fails         : BOOLEAN]           \* lock files and the inbox may refuse a call

ASSUME PollConstants ==
  /\ ItemCount \in Nat \ {0}
  /\ PageSize \in Nat \ {0}
  /\ MaxItems \in Nat
  /\ Settings \subseteq Setting
  /\ {"free", "stuck"} \cap Poller = {}

VARIABLES
  open,      \* [Item -> BOOLEAN]: in the inbox / still in the polled status
  assignee,  \* [Item -> {"none", "bot", "human"}]: of the Jira issue
  lock,      \* [Item -> Poller \cup {Free, Stuck}]
  runs,      \* [Poller -> [Item -> 0..2]]: runs it made of the item, 2 for "several"
  unretired, \* history: the items whose move out of the inbox has failed
  pc,        \* [Poller -> Point]
  page,      \* [Poller -> SUBSET Item]: entries listed and not yet taken up
  more,      \* [Poller -> BOOLEAN]: the search returned a nextPageToken
  cur,       \* [Poller -> 0..ItemCount]: the entry being worked on
  count,     \* [Poller -> Nat]: items counted against MaxItems in this sweep
  setting

source == <<open, assignee, unretired, setting>>
sweep == <<page, more, cur, count>>
vars == <<open, assignee, lock, runs, unretired, pc, page, more, cur, count, setting>>

SourceKind == setting.source
Free == "free"
Stuck == "stuck"
Point == {"rest", "stat", "next", "read", "got", "try", "claim", "assign", "run",
          "release", "unwind", "retire", "stopped", "dead"}
Working == {"claim", "assign", "run", "release", "unwind"}

TypeOK ==
  /\ open \in [Item -> BOOLEAN]
  /\ assignee \in [Item -> {"none", "bot", "human"}]
  /\ lock \in [Item -> Poller \cup {Free, Stuck}]
  /\ runs \in [Poller -> [Item -> 0..2]]
  /\ unretired \in SUBSET Item
  /\ pc \in [Poller -> Point]
  /\ page \in [Poller -> SUBSET Item]
  /\ more \in [Poller -> BOOLEAN]
  /\ cur \in [Poller -> 0..ItemCount]
  /\ count \in [Poller -> 0..MaxItems]
  /\ setting \in Settings

Init ==
  /\ setting \in Settings
  /\ open = [i \in Item |-> TRUE]
  /\ assignee \in [Item -> IF SourceKind = "file" THEN {"none"} ELSE {"none", "bot", "human"}]
  /\ lock = [i \in Item |-> Free]
  /\ runs = [p \in Poller |-> [i \in Item |-> 0]]
  /\ unretired = {}
  /\ pc = [p \in Poller |-> IF p \in setting.pollers THEN "rest" ELSE "stopped"]
  /\ page = [p \in Poller |-> {}]
  /\ more = [p \in Poller |-> FALSE]
  /\ cur = [p \in Poller |-> 0]
  /\ count = [p \in Poller |-> 0]

Goto(p, point) == pc' = [pc EXCEPT ![p] = point]

-----------------------------------------------------------------------------
(* The listing                                                             *)

Listed(i) == open[i] /\ (SourceKind = "jira" /\ setting.jqlMine => assignee[i] = "bot")

\* The first PageSize listed items after item k.
Page(k) ==
  {i \in Item : /\ i > k /\ Listed(i)
                /\ Cardinality({j \in (k + 1)..(i - 1) : Listed(j)}) < PageSize}

Rest(k) == {i \in Item : i > k /\ Listed(i)} \ Page(k)

\* Mutant: the count of --max-items is not reset between sweeps.
SearchKeepsCount(p) ==
  /\ pc[p] = "rest"
  /\ cur' = [cur EXCEPT ![p] = 0]
  /\ IF SourceKind = "file"
       THEN /\ page' = [page EXCEPT ![p] = {i \in Item : open[i]}]
            /\ Goto(p, "stat")
            /\ UNCHANGED more
       ELSE /\ page' = [page EXCEPT ![p] = Page(0)]
            /\ more' = [more EXCEPT ![p] = Rest(0) # {}]
            /\ Goto(p, "next")
  /\ UNCHANGED <<source, lock, runs, count>>

\* A new sweep: FileSource globs its folder, JiraSource asks for a first page.
Search(p) ==
  /\ pc[p] = "rest"
  /\ count' = [count EXCEPT ![p] = 0]
  /\ cur' = [cur EXCEPT ![p] = 0]
  /\ IF SourceKind = "file"
       THEN /\ page' = [page EXCEPT ![p] = {i \in Item : open[i]}]
            /\ Goto(p, "stat")
            /\ UNCHANGED more
       ELSE /\ page' = [page EXCEPT ![p] = Page(0)]
            /\ more' = [more EXCEPT ![p] = Rest(0) # {}]
            /\ Goto(p, "next")
  /\ UNCHANGED <<source, lock, runs>>

\* sorted(..., key=mtime): a file that has gone since the glob makes stat()
\* raise; SourceError leaves poll().
SortByMtime(p) ==
  /\ pc[p] = "stat"
  /\ Goto(p, IF \A i \in page[p] : open[i] THEN "next" ELSE "stopped")
  /\ UNCHANGED <<source, lock, runs, sweep>>

NextPage(p) ==
  /\ pc[p] = "next" /\ page[p] = {} /\ more[p]
  /\ page' = [page EXCEPT ![p] = Page(cur[p])]
  /\ more' = [more EXCEPT ![p] = Rest(cur[p]) # {}]
  /\ UNCHANGED <<source, lock, runs, pc, cur, count>>

Yield(p) ==
  /\ pc[p] = "next"
  /\ \E i \in page[p] :
       /\ \A j \in page[p] : i <= j
       /\ page' = [page EXCEPT ![p] = @ \ {i}]
       /\ cur' = [cur EXCEPT ![p] = i]
       /\ Goto(p, IF SourceKind = "jira" THEN "got" ELSE IF open[i] THEN "read" ELSE "next")
  /\ UNCHANGED <<source, lock, runs, more, count>>

\* read_text() of a file that is_file() saw a moment ago.
ReadFile(p) ==
  /\ pc[p] = "read"
  /\ Goto(p, IF open[cur[p]] THEN "got" ELSE "stopped")
  /\ UNCHANGED <<source, lock, runs, sweep>>

-----------------------------------------------------------------------------
(* One item                                                                *)

EndOfSweep == IF setting.once THEN "stopped" ELSE "rest"

\* max_items first, then the non-mutating is_locked() check.
Consider(p) ==
  /\ pc[p] = "got"
  /\ Goto(p, IF count[p] >= MaxItems THEN EndOfSweep
             ELSE IF lock[cur[p]] = Free THEN "try" ELSE "next")
  /\ UNCHANGED <<source, lock, runs, sweep>>

\* Mutant: a lock left by a crash is taken over.
AcquireStuck(p) ==
  /\ pc[p] = "try"
  /\ IF lock[cur[p]] \in {Free, Stuck}
       THEN /\ lock' = [lock EXCEPT ![cur[p]] = p]
            /\ Goto(p, "claim")
       ELSE Goto(p, "next") /\ UNCHANGED lock
  /\ UNCHANGED <<source, runs, sweep>>

\* lock.acquire() creates the file; LockHeld moves on to the next item.
Acquire(p) ==
  /\ pc[p] = "try"
  /\ IF lock[cur[p]] = Free
       THEN /\ lock' = [lock EXCEPT ![cur[p]] = p]
            /\ Goto(p, "claim")
       ELSE Goto(p, "next") /\ UNCHANGED lock
  /\ UNCHANGED <<source, runs, sweep>>

\* The write of the lock's content fails: the OSError leaves poll(), the file
\* stays.
AcquireFails(p) ==
  /\ setting.fails
  /\ pc[p] = "claim"
  /\ lock' = [lock EXCEPT ![cur[p]] = Stuck]
  /\ Goto(p, "stopped")
  /\ UNCHANGED <<source, runs, sweep>>

\* The run starts.  source.claim(), first half: a file is always granted; a Jira
\* issue is refused when a fresh fetch shows somebody else's name on it, and the
\* run is then saved as FAILED "claim lost".
ClaimCheck(p) ==
  /\ pc[p] = "claim"
  /\ runs' = [runs EXCEPT ![p][cur[p]] = IF @ < 2 THEN @ + 1 ELSE 2]
  /\ Goto(p, IF SourceKind = "file" THEN "run"
             ELSE IF setting.hasAccount /\ assignee[cur[p]] = "human" THEN "release" ELSE "assign")
  /\ UNCHANGED <<source, lock, sweep>>

\* Mutant: claim() assigns the issue and leaves it in the polled status.
ClaimNoTransition(p) ==
  /\ pc[p] = "assign"
  /\ assignee' = IF setting.hasAccount THEN [assignee EXCEPT ![cur[p]] = "bot"] ELSE assignee
  /\ Goto(p, "run")
  /\ UNCHANGED <<open, unretired, lock, runs, sweep, setting>>

\* Second half, on the issue as it is by now: assign it, move it out of the
\* polled status; without such a transition the claim only warns.
ClaimWrite(p) ==
  /\ pc[p] = "assign"
  /\ assignee' = IF setting.hasAccount THEN [assignee EXCEPT ![cur[p]] = "bot"] ELSE assignee
  /\ open' = IF setting.canTransition THEN [open EXCEPT ![cur[p]] = FALSE] ELSE open
  /\ Goto(p, "run")
  /\ UNCHANGED <<unretired, lock, runs, sweep, setting>>

\* A Jira request of claim() fails, possibly after the issue was assigned: the
\* exception leaves poll() by way of the release.
ClaimRaises(p) ==
  /\ setting.raises /\ SourceKind = "jira"
  /\ pc[p] \in {"claim", "assign"}
  /\ \/ UNCHANGED assignee
     \/ pc[p] = "assign" /\ setting.hasAccount /\ assignee' = [assignee EXCEPT ![cur[p]] = "bot"]
  /\ Goto(p, "unwind")
  /\ UNCHANGED <<open, unretired, lock, runs, sweep, setting>>

\* The pipeline ends: done, blocked or failed -- or an exception is on its way
\* out of poll().
RunEnds(p) ==
  /\ pc[p] = "run"
  /\ Goto(p, "release") \/ (setting.raises /\ Goto(p, "unwind"))
  /\ UNCHANGED <<source, lock, runs, sweep>>

AfterRelease(p) == Goto(p, IF pc[p] = "release" THEN "retire" ELSE "stopped")

Release(p) ==
  /\ pc[p] \in {"release", "unwind"}
  /\ lock' = [lock EXCEPT ![cur[p]] = Free]
  /\ AfterRelease(p)
  /\ UNCHANGED <<source, runs, sweep>>

\* release() swallows what its read and its unlink raise: the file stays.
ReleaseFails(p) ==
  /\ setting.fails
  /\ pc[p] \in {"release", "unwind"}
  /\ lock' = [lock EXCEPT ![cur[p]] = Stuck]
  /\ AfterRelease(p)
  /\ UNCHANGED <<source, runs, sweep>>

\* After the release: count the run and let the source retire the item.  Only
\* FileSource does anything (a file already gone is left alone).
Retire(p) ==
  /\ pc[p] = "retire"
  /\ open' = IF SourceKind = "file" THEN [open EXCEPT ![cur[p]] = FALSE] ELSE open
  /\ count' = [count EXCEPT ![p] = @ + 1]
  /\ Goto(p, "next")
  /\ UNCHANGED <<assignee, unretired, lock, runs, page, more, cur, setting>>

\* The move into processed_dir raises an OSError, which is logged; the run counts.
RetireFails(p) ==
  /\ setting.fails /\ SourceKind = "file"
  /\ pc[p] = "retire" /\ open[cur[p]]
  /\ unretired' = unretired \cup {cur[p]}
  /\ count' = [count EXCEPT ![p] = @ + 1]
  /\ Goto(p, "next")
  /\ UNCHANGED <<open, assignee, lock, runs, page, more, cur, setting>>

EndSweep(p) ==
  /\ pc[p] = "next" /\ page[p] = {} /\ ~more[p]
  /\ Goto(p, EndOfSweep)
  /\ UNCHANGED <<source, lock, runs, sweep>>

-----------------------------------------------------------------------------
(* The environment                                                         *)

HumanTakes(i) ==
  /\ SourceKind = "jira" /\ assignee[i] # "human"
  /\ assignee' = [assignee EXCEPT ![i] = "human"]
  /\ UNCHANGED <<open, unretired, lock, runs, pc, sweep, setting>>

Crash(p) ==
  /\ setting.crashes
  /\ pc[p] \notin {"stopped", "dead"}
  /\ lock' = IF pc[p] \in Working THEN [lock EXCEPT ![cur[p]] = Stuck] ELSE lock
  /\ Goto(p, "dead")
  /\ UNCHANGED <<source, runs, sweep>>

Step(p) ==
  \/ Search(p) \/ SortByMtime(p) \/ NextPage(p) \/ Yield(p) \/ ReadFile(p)
  \/ Consider(p) \/ Acquire(p) \/ ClaimCheck(p) \/ ClaimWrite(p) \/ ClaimRaises(p)
  \/ RunEnds(p) \/ Release(p) \/ Retire(p) \/ EndSweep(p)

Fault(p) == AcquireFails(p) \/ ReleaseFails(p) \/ RetireFails(p)

Next ==
  \/ \E p \in Poller : Step(p) \/ Fault(p) \/ Crash(p)
  \/ \E i \in Item : HumanTakes(i)

Spec == Init /\ [][Next]_vars

\* A live poller keeps sweeping; its runs end because budgets and step timeouts
\* bound them.
FairSpec == Spec /\ \A p \in Poller : WF_vars(Step(p))

-----------------------------------------------------------------------------
(* Properties                                                              *)

\* Two pollers never work on one item at the same time, and whoever works on
\* one owns its lock.
OneAtATime ==
  \A p, q \in Poller :
    /\ pc[p] \in Working => lock[cur[p]] = p
    /\ pc[p] \in Working /\ pc[q] \in Working /\ cur[p] = cur[q] => p = q

\* Every item's lock behaves as ItemMutex promises.
Lock(i) == INSTANCE ItemMutex WITH Proc <- Poller, holder <- lock[i]
LocksAreMutexes ==
  /\ \A i \in Item : Lock(i)!Init
  /\ [][\A i \in Item : Lock(i)!Next \/ UNCHANGED lock[i]]_lock

\* README.md:490-500: an item that was run is retired, so the next sweep moves
\* on "rather than picking it up again".  So it does for the process that ran it,
\* where claims take issues out of the query or the inbox is a folder: a poller
\* runs an item once, unless it could not be moved out of the inbox.  Another
\* poller may run it once more (orchestrator.py:563: its listing may be older than
\* the retirement; :531: the lock is free before the item is retired), but no
\* listing stays old for longer than that.
Retires ==
  SourceKind = "jira" => setting.canTransition /\ (setting.jqlMine \/ ~setting.hasAccount)
AtMostOneRun == Retires => \A p \in Poller : \A i \in Item : runs[p][i] <= 1 \/ i \in unretired

\* Every item the source lists is eventually run, unless a human takes it, a
\* crash or a failing call leaves its lock stuck, or no poller is left -- and
\* provided that what was run leaves the listing.  Files that cannot be moved
\* away starve the ones behind them only when there are as many as --max-items.
Alive(p) == pc[p] \notin {"stopped", "dead"}
InTheWay == {i \in unretired : open[i]}
EveryItemServed ==
  \A i \in Item :
    (Listed(i) /\ Retires) ~>
      (\/ \E p \in Poller : runs[p][i] > 0
       \/ ~Listed(i) \/ lock[i] = Stuck
       \/ Cardinality(InTheWay) >= MaxItems
       \/ \A p \in Poller : ~Alive(p))
=============================================================================

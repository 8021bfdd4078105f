# ticket-bot, modelled and checked

TLA+ models of `ticketbot`, the program that takes a ticket (a file, a Jira issue), runs a
pipeline of roles over a checkout of a repository and hands a pull request to a human. Source
references are to `ticketbot/...` (under `src/` in `PROJECT.json`); `src/README.md` is the
program's own documentation.

Each model is a plain TLA+ module, `MC*.tla` gives its constants values for TLC, `*Proofs.tla`
holds its theorems. `PROJECT.json` maps every definition to the lines it translates.

    tlc -config Run.cfg MCPipelineRun      # one run
    tlapm PipelineRunProofs.tla            # one module of proofs

## 1. The system

| Part | State it keeps | Operations | Talks to | What is hard about it | Module |
|---|---|---|---|---|---|
| Work-item lock (`engine/locks.py`) | one file per work item, its JSON content, `_owned_run_id` | `acquire`, `release`, `is_locked` | other processes, through the file system | several processes between any two system calls, each of which may fail; a crash after the file exists; `--force-lock` | `RunLock` |
| Poll loop (`orchestrator.poll`) | a listing, a counter of `--max-items` | list, check the lock, lock, run, release, retire | source, lock, run loop | the listing ages while items run; two pollers on one source; exceptions that end the loop | `PollSweep` |
| Sources (`adapters/sources`) | the inbox folder; the Jira issues (assignee, status) | `poll`, `fetch`, `claim`, `mark_processed` | poll loop, humans | a file vanishes under a sweep; a claim is three requests; paging | `PollSweep` |
| Run loop (`orchestrator._run_pipeline`, `_run_step`) | the `Run` object, the cursor over the steps | claim, checkout, one step after another, questions, fixers, reporter | executors, git, sinks, forge, store | many ways to stop; what was done and what is recorded are apart; resumed any number of times | `PipelineRun` |
| Conditions of a step (`engine/context.py`, `_after_ingest`, `_after_planner`, `_before_review`) | `run.extra`, `workitem.json`, the changes in the checkout | build the context, decide `when:` | run loop, git, source | facts are gathered in one step, asked for in another, lost or stale after a resume | `WhenFacts` |
| Run store (`core/run.py`) | `run.json`, artifacts | `save` (atomic), `load` | run loop, `resume` | the copy in memory and the copy on disk diverge | `PipelineRun`, `ResumeOverlap` |
| Resume (`orchestrator.resume`) | a `Run` loaded before the lock is taken | load, lock, run | store, lock | two resumes of one run, a resume beside a live run | `ResumeOverlap` |
| Gates (`engine/gates.py`) | `clarify_rounds` in the run | `on_unclear`, `on_pr_ready`, `on_step_gate` | run loop | counted in memory, saved later | `PipelineRun` |
| Budget (`engine/budget.py`) and api executor (`executors/api_loop.py`) | spent, elapsed; deadline, iterations | `start`, `check`, `charge`, `step_timeout`; the loop over turns | run loop, provider | different comparisons before, during and after a call; one process's memory only | `Budget` |
| Git worktree (`adapters/repos/git_local.py`) | worktree, branch, drift baseline; git's registry of worktrees | `checkout`, `commit`, `verify_landed`, `drifted`, `cleanup` | run loop, other runs and the developer through the clone | leftovers of interrupted runs; prunes and removals of other runs in the middle of a checkout; a baseline of a clone others change | `Worktree` |
| Sinks (`adapters/sinks`) and forge (`adapters/repos/github.py`) | comments, attachments, assignee, status; the branch and the pull request | `comment`, `transition`, `unassign`, `link_pr`, `set_pr_url`; `push`, `open_pr` | run loop | one of several sinks fails; a call that fails may have had its effect | `Reporting` |
| Solari runtime (`adapters/runtimes/solari.py`) | a sandbox in the cloud, its client, session, page and code context, an event-loop thread | `start`, `exec`, `screenshot`, `stop` | run loop, a service | the work is on one thread and its waiter on another; half-made connections, Ctrl-C | `SolariRuntime` |
| Process executor (`executors/process.py`), `shell.run` | a child process tree | `run` | run loop | the timeout against the exit of child and helpers, and against the end of the output | `ProcessExecutor` |
| Predicates and selector (`core/predicate.py`, `engine/selector.py`) | none | parse, evaluate, describe | run loop, pipeline files | two written forms of one condition, an order of evaluation, comparison of unlike values | `Predicate`, `Comparison` |
| Marker protocol (`engine/protocol.py`), templates (`core/templating.py`) | none | split an answer; fill in a prompt | run loop | code fences; braces in values | `Protocol`, `Templating` |
| Jira documents (`sinks/adf.py`) | none | Markdown to ADF, ADF to text | Jira sink and source | a node budget and a depth limit that run out in the middle of something | `JiraDocument` |
| Path jail (`executors/tools.py`) | none | resolve a path a model asks for | file system | links, `..`, two roots of which one may hold the other | `PathJail` |
| Configuration (`config/loader.py`, `config/dotenv.py`) | none | `extends:` chains, merge, `.env`, `${NAME}` | all | circles; which of two values wins | `Configuration`, `Environment` |
| Providers, command line, banner, registry, work item | none, or read once | conversions | | input and output | |

### What makes each part correct

* **Lock.** The lock file is a mutex: at most one process acts on an item (`MutexSpec`, the promise of
  `ItemMutex`); only a crash, a failed write or a release that could not read or remove it leaves a file
  behind (`LeftoverOnlyByFault`); a holder that is at work all the while is not called dead
  (`HolderNotCalledDead`); the lock comes free (`LockComesFree`).
* **Poll loop.** The locks of the items are mutexes whatever pollers do (`LocksAreMutexes`); every item
  listed gets a run (`EveryItemServed`), and each poller gives it only one (`AtMostOneRun`).
* **Run loop.** A step starts only when it is not recorded and all before it are (`EarlierRecorded`);
  questions, final comments and unrecorded commits are bounded (`AsksBounded`, `ReportsBounded`,
  `CommitsRecorded`); nothing passes a gate (`GateHolds`); a run that is resumed gets done
  (`EventuallyDone`). What concerns the file is `RunPromise`: steps recorded complete stay so, and a
  run is done only when all mandatory ones are (`PromiseKept`).
* **Conditions.** The security step is passed by only on an explicit no of the plan and a review that
  saw nothing sensitive (`SecurityFailsClosed`); the clarifier is asked about a ticket that is unclear
  (`ClarifierHasItsSay`): across stops, crashes and resumes.
* **Resume.** `run.json` never lies, and only the lock's holder writes it (`RecordIsTrue`); a step is
  repeated only by a process with an old copy, and whoever has a fresh one completes step after step as
  `RunPromise` allows (`PromiseKeptUnlessStale`); the run is completed in the end (`CompleteAgain`). What
  rests on the lock lasts until `--force-lock` takes it from a resume at work.
* **Git worktree.** Runs share a worktree only if they share a branch (`NoSharedTree`); what is
  committed goes to the item's own branch and no branch is moved back (`CommitsOnOwnBranch`);
  leftovers never make a checkout fail (`NoWall`) and uncommitted edits outlive an interrupted run
  (`EditsKept`); a stray write stops the commit (`StraysCaught`), and only new changes of the parent
  clone count as drift (`DriftIsNew`).
* **Budget.** The caps are overshot by one model call per process, one turn and the floor of the
  timeout, and by what fixers cost (`CapsHold`); an executor's call ends (`CallsEnd`).
* **Sinks and forge.** No secondary sink is told what the primary one was not (`PrimaryLeads`); at no
  moment is anybody unassigned or the ticket moved on any sink before the primary one has the comment
  that says why, and no pull request is spoken of before there is one (`TicketIsTold`); a run that is
  done has a report in its record, and the record on its sinks (`ReportIsOut`); a dry run posts nothing
  (`DryRunPostsNothing`).
* **Solari runtime.** A machine outlives `stop()` in three ways only (`TornDown`); a runtime in use is
  connected to a living machine and uses nothing of an earlier one (`HandlesAreCurrent`).
* **Process executor.** A call is back only when its child is gone, and its helper too where a tree
  walk finds it and `taskkill` works (`TreeIsKilled`); what a successful call leaves behind edits nothing later
  (`EditsAreOwn`); a call comes back (`CallComesBack`).
* **Pure functions.** A `when:` is read with the one meaning its grammar gives it
  (`ParsesItsGrammar`), its written forms agree (`FormsAgree`); no text is lost or told twice between
  an answer, a prompt, a comment and Jira (`TextIsFaithful`); every setting has the value of the
  nearest file that says anything of it (`SettingsAreFound`); the jail lets through exactly what the
  operating system would find inside, and no file of the engine is written (`JailIsExact`).

## 2. The modules

    ItemMutex  <---- implemented by ---- RunLock          (one lock file, call by call)
        ^
        |  one instance per work item
    PollSweep           pollers, a source, a lock per item  (implements an ItemMutex per item)
    ResumeOverlap       resumes of one run, one lock, run.json  (implements ItemMutex; its
                        processes with a fresh copy take the steps of a RunPromise)

    RunPromise <---- implemented by ---- PipelineRun      (one run, from claim to pull request)
    WhenFacts           the same run, for what its conditions are decided on
    Reporting           the same run, for what it tells sinks and forge
    Budget              the caps, the run loop's calls to them, the api executor's tool loop
    Worktree            runs of several items and a developer in one clone
    SolariRuntime       one runtime object, its two threads, the machines
    ProcessExecutor     calls one after the other, their processes

    MCFunctions  extends  Predicate (extends Comparison), Protocol, Templating, PathJail,
                          JiraDocument, Configuration, Environment

The run loop appears several times, each time with what the module is about: whole in `PipelineRun`
(one process at a time), as "what is read from and written to `run.json`" in `ResumeOverlap`, as "a
run starts and ends, possibly in an exception" in `PollSweep`, as "checkout, edits, commits, cleanup"
in `Worktree`, as "facts gathered and asked for" in `WhenFacts`, as "a question, two executions of the
reporter" in `Reporting`.

### RunLock, ItemMutex

`file` is the lock file, `[by, run]`: the process whose inode it is and the run id its JSON gives,
`NoRun` while the file is empty. `owned[p]` is `_owned_run_id`, `rid[p]` the run id of the call. Each
system call is an action: `Unlink` (`--force-lock`), `Create` (`O_CREAT|O_EXCL`) or `Refused`
(`FileExistsError`), then `ReadHolder` and `Judge` (the probe of the pid, and `LockHeld`), `Write`;
`ReadOwner`, `Remove`. Each may fail in its own way: `AcquireFails` and `WriteFails` raise,
`ReadHolderFails`, `ProbeFails` and `ReleaseFails` are swallowed, as the code does. Between the refusal
and the verdict the file may be removed, replaced or written: `info[p]` is what was read, of whatever
file had the name by then. A `Write` goes to the inode, `Remove` to the name: that difference is kept.

Four variables are history. `broken` is set when a forced acquire removes the file of a process that
relied on it; what exclusion promises is conditional on it. `abandoned` marks a file its own creator
failed to remove, `blind` a process whose read of the holder failed, and `met[p]` is who has been at
work ever since `p` was refused: whom the verdict must not call dead. `ItemMutex` has one variable, the
holder; `Stuck` is a file nobody alive will remove.

### PollSweep

`page[p]`, `more[p]` and `cur[p]` are the generator of `source.poll()`; the item is locked, claimed,
run, released and retired in the code's order, with `mark_processed` after the release. `FileSource`
sorts by mtime (`SortByMtime` raises when a file has gone) and reads the text later (`ReadFile`);
`JiraSource` asks for pages (`NextPage`) and its `claim` fetches and then writes. People take issues
(`HumanTakes`), processes die (`Crash`), requests and runs raise (`ClaimRaises`, `RunEnds`). File systems
refuse: a lock that cannot be written ends `poll()` (`AcquireFails`), one that cannot be removed stays
(`ReleaseFails`), a file that cannot be moved is logged, counted and left in the inbox (`RetireFails`;
`unretired` remembers it). `runs[p]` is what each poller ran. `setting` is the configuration: which
pollers there are, the source, the query, which faults occur.

### PipelineRun, RunPromise

`m...` is the `Run` object, `d...` is `run.json`; `Save` copies one to the other and is part of every action
whose code saves. `pc` names the call the process is at: executor, landing check and commit, the
ticket's comment, unassign and transition, fixers, push, pull request, report. Between two such calls
nothing outside can observe the process, so the stretch is one action; at each of them it may die
(`Die`: also an exception that leaves the loop) or be interrupted (`Interrupt`: Ctrl-C saves). `setting`
is what profile, pipeline and command line choose for the run; it never changes, only `--pause-at` is
lost by a resume (`pausing`), as `_cmd_resume` does not have it. `Outcomes` is what executors may do
besides succeed.

### WhenFacts

Of a run only what a `when:` may ask for: `item` and `itemFile` (`workitem.json`) with the judgement of
the intake step, `extra` and `dExtra` (`run.extra` in memory and in `run.json`) with the plan's
`Security:` line and what the last review saw of the diff. The changes of the checkout are sets of the
steps that made them, in the five states git tells apart: committed before this process's checkout,
committed since, edited, untracked, and in the index. `Stage` and `Commit` are the two git commands of
`commit()`; a process that ends between them leaves its changes in the index (`stranded`). `Diff` shows what `diff()` shows of them, with and without a
`base_branch`, and perhaps nothing when it is cut. `Begin` and `SkipWhen` are `_before_review` and the
evaluation of the `when:`, which is written out as `Due` for the conditions of `builtin/pipelines`.

### Reporting

`todo` are the methods of the sink still to be called, `queue` the sinks the first of them has still to
reach, primary first. Each call of one sink is an action that takes effect (`Deliver`) or fails, with or
without its effect (`SecondaryFails`, which `MultiSink` swallows, and `Raise`). `posted[s]` is what the
outside of a sink has received, `told` is the URL `set_pr_url` left in a `github_pr` sink, `file` the
record in the run directory. `Begin` is the claim, which `--dry-run` does not suppress.

### ResumeOverlap

`mem[p]` is the `Run` object `p` loaded *before* it asked for the lock, `disk` is `run.json`, saved whole;
`stale[p]` says that somebody saved since `p` loaded. `--force-lock` is two steps, as in the code: `Unlink`
removes the lock, whoever holds it, and `Acquire` takes what is free by then. Until the lock of a live
process is removed (`broken`) its steps are those of `ItemMutex`; afterwards several processes may be in
the loop, and a `Release` may remove another's lock, as both name the same run.
`Promise` is `RunPromise` read off the file: the steps recorded complete, with no step optional and the
verdict left open.

### Budget

`elapsed` and `spent` are the `Budget` object's, `usage`, `turns` and `deadline` the executor call's, `total`
what the answers cost over all processes and fixers; what a provider bills for a refusal, which raises
after the response, is in no account of the code and not in `total`. The tool loop is that of `ApiLoopExecutor.run`: out of
turns, past the deadline, provider error, answer; after an answer the cost is compared.

### Worktree

`record` is what `git worktree list` knows (branch to directory, `Main` for the parent clone), `there` the
directories that exist, `edits[t]` whose uncommitted edits a directory holds, `head[b]` the length of a
branch. `checkout()` is one action per git command: `Prune`, `List`, `IsDir`, then `Add` or reuse, then
`Settle`, which sets `_workspace` and takes the baseline. Git's own commands are atomic. `branchOf` is any
function, so that two items may get one branch. A process that leaves forgets everything (`Leaves`);
a resume, or a new run of the item, begins again with the checkout. `Probe` is `_parent_porcelain()`, which
answers "no changes" when git fails; `blind` remembers that it did. `raced` marks a checkout whose
branch somebody took, or whose directory somebody deleted, after it began; `strays` and `fresh` record
who dirtied what since the checkout. The developer edits and cleans files of the parent clone, checks
agent branches out in it, and deletes a worktree by hand.

### SolariRuntime

`main` is where the main thread is, `work` the coroutine of `start()`, `exec()` or `screenshot()`,
`teardown` the one of `stop()`; every `await` is a step of the loop's thread, and may fail. A timeout
or Ctrl-C ends the main thread's waiting and not the coroutine, which may go on and set `session` after
`stop()` has begun. `fate[v]` is what became of a machine; `lost[v]` says by which of the ways the code
leaves open it escaped.

### ProcessExecutor

`child` and `helper` are the processes of each call, a helper being attached to the pipes and the tree
of its child or cut off from both; `phase` is where `run()` is: waiting for the output, `taskkill`, `kill`,
reading the rest, or cut short by Ctrl-C. `touched` and `result[c].files` are whose changes a call's
snapshot of the workspace takes for its own. `untaken` are the calls whose `taskkill` failed, which
nobody notices (`TaskKillFails`). `tool` tells the executor and `shell.run` apart, `nt` the operating
systems.

### The pure functions: Predicate, Comparison, Protocol, Templating, PathJail, JiraDocument, Configuration, Environment

Operators, one per function of the code, over tokens, kinds of lines, markup characters, names of a
path and trees of settings. Their state machine is `MCFunctions`: a behaviour grows one input, so every
state is one input more, and the invariants compare the operators with definitions of another kind:
the parser (left to right, one token at a time) with the set of all derivations of a text, the jail's
`realpath` and `relative_to` (a walk with the rest of the path in hand, begun anew at every link) with
the operating system's lookup of one name after the other, a merged profile with a search along the
chain, a document posted and read back with the words and the code that were in the text.
`Comparison`, `Protocol`, `Environment`, `PathJail` and `Templating` are modules of their own because they
are proved about: loops and walks are recursive functions there (of the line, of the state of the
walk, of the position in the template), and their properties (`Coherent`, `AnswerIsSplit`, `NameIsFound`,
`ReachesExactly`, `TemplateIsKept`) are next to them.

## 3. The runs

| Run | Question | Bounds, and why they are enough |
|---|---|---|
| `run_lock` | Does the lock file implement `ItemMutex`, come free, and call nobody dead that is at work? | 3 processes: a holder, one that judges it, one that forces between the two; 2 run ids, so that an id can be the other's or one's own again |
| `poll` | Pollers on one folder or one Jira query: are the locks mutexes, is an item run once, is everything served? | 2 pollers; 3 items in pages of 2, `--max-items 2`, so that every sweep leaves one for later and a second page is asked for; two pollers on a folder with crashes and exceptions, two on Jira, one on a folder whose files and locks refuse calls, one on Jira with every query and transition |
| `run` | All safety properties of a run, `RunPromise`, and that it gets done | 5 steps (conditional, planner, fan-out, optional, reporter), 2 sections, 1 clarification round so that the second question is one too many, 2 faults so that a resume can fail again; the defaults, fixers with ignored questions, `gate: human` with failing questions, `--pause-at` with `comment_only`, `proceed` |
| `resume` | Two resumes of one run, either forcing the lock at any time | 3 steps, 2 crashes, failing releases or failing steps |
| `resume_stale` *(violated)* | Does a resume skip every recorded step? | the same, no fault |
| `budget` | How far are the caps overshot? Do calls end? | a cap of 3 with calls of up to 2, 5 time units with turns of up to 2 and a floor of 2, 3 turns, 1 fixer, 1 resume: every comparison is met from both sides |
| `worktree` | Runs in one clone: whose trees, branches, edits, drift? | 2 items with one branch or two, 3 directories (two in use and one left over), 1 file that is dirty from the start or not, 1 commit per branch after which one more is allowed, 1 directory deleted by hand |
| `facts` | Is a `when:` decided on the truth? | the shape of `standard.yaml` (ingest, clarifier, planner, coder, reviewer, security), one with two planners and an agent that does not commit, and one with a second intake that is only due when the ticket is unclear; items with and without an external id, with and without `base_branch`, 2 stops or crashes: one to leave a review unrecorded, or edits in the index, and one in the run that repeats it |
| `reporting` | Who is told what, in which order? | every primary sink with every list of others, 1 question, 2 executions of the reporter so that the second one may add to the first, 2 faults |
| `runtime` | What is left after `stop()`? | 2 machines of each mode, the second one to see handles of the first; 2 failures of the service, 2 Ctrl-C (one in `start()`, one in `stop()`) |
| `process` | What is left after a call? | 2 calls, the second to be edited under; 1 Ctrl-C; any `taskkill` may fail |
| `functions` | Do the pure functions compute what they should? | expressions of up to 7 tokens with nesting up to 4 deep where 3 is the limit and 6 tokens where 7 are tried; every pair of 19 values; rules of up to 2 entries; answers of 5 lines; templates of 5 characters around a name that is known and one that is not; comments of 4 lines or 6 characters against 6 nodes; documents nested 7 deep against 6; 3 profiles; `.env` files of 4 lines; paths of 3 names over 4 disks |

Deadlock is not checked where the system may stop for good: all processes dead, `--once`, a lost
claim, a run that is done, a call that was the last, an input that has its full length. Every property
of a passing run has a mutant in `PROJECT.json`: a definition changed as a plausible mistake would
change it (defined next to the original, marked *Mutant*), under which TLC finds the property violated.

### Fairness

* `RunLock`, `PollSweep`: weak fairness of each process's own steps. A live process executes its next
  call; the pipeline run between `acquire` and `release` ends because the budget and the step timeouts
  bound it. Nothing is assumed of crashes, failing calls, humans, or of a call to `acquire`.
  `EveryItemServed` is promised where claimed issues leave the query (`Retires`): see below.
* `PipelineRun`: `FairSpec` has a live process go on, and an operator who resumes a run that is not
  done. `CalmSpec` adds `<>[][~Trouble]_vars`: from some moment on no *mandatory* execution asks, fails
  or exceeds the budget (the ticket got answered, the fault was mended). Optional steps may fail for
  ever, fixers may be asked for ever. Without it no program could promise an end.
* `ResumeOverlap`: strong fairness of taking the lock, and of forcing one that nobody alive holds, as
  two resumes may alternate; each waits for a lock that comes free infinitely often, and an operator
  tries again. Nobody is obliged to force the lock of a live process, and nobody is kept from it.
* `Budget`: weak fairness of the tool loop and of the bookkeeping after it; every model call has its own
  timeout.
* `ProcessExecutor`: weak fairness of the caller only. Nothing is assumed of child and helper, which may
  run for ever: the timeouts of the code have to end the call. `taskkill`, for which the code has no
  timeout, is taken to come back, if only with an error.
* `SolariRuntime`: weak fairness of the loop and of the main thread; its run checks safety.

### Where the code and its documents differ

`resume_stale` is the violated run and has the one finding in `PROJECT.json`: a resume that waited for
the lock executes recorded steps again, since it executes the `Run` object it loaded before
(`orchestrator.py:534`, against `README.md:533-534`).

The other differences are in the models, and what a property promises is limited by them:

* **Polling.** An item listed before another poller ran and retired it is locked and run again, since
  nothing is checked after the lock is taken (`orchestrator.py:563`, against `README.md:499-500`), and so
  is one whose lock is free but which is not retired yet (`:531`): `AtMostOneRun` counts the runs of each
  poller. A file that cannot be moved out of the inbox is run in every sweep (`:427-430`), which
  `AtMostOneRun` excepts, and `--max-items` of them keep the files behind them from ever being run, which
  `EveryItemServed` excepts.
* A file retired between the glob and the `stat()`, or between `is_file()` and `read_text()`, raises out of
  `poll()` (`PollSweep!SortByMtime`, `ReadFile`; `file.py:134`, against `README.md:499-500`).
* Without a transition to `in_progress_status`, `claim()` only warns, and the issue is run again in every
  sweep (`PollSweep!ClaimWrite`); with `--max-items` such issues can use up every sweep, and those behind
  them are never run: `AtMostOneRun` and `EveryItemServed` are conditional on `Retires`.
* **Locks.** `release()` compares the owner and unlinks in two calls: with `--force-lock` it may remove
  the lock of a process that came in between (`RunLock!Remove`; this is why exclusion needs `broken`).
* A lock that is created and not yet written, or was released between the refusal and the read, is
  reported as stale, and so is any lock whose file cannot be read or whose process cannot be probed
  (`RunLock!VerdictOn`, `ReadHolderFails`, `ProbeFails`): `HolderNotCalledDead` is about holders that are
  at work from the refusal to the verdict, and excepts failing reads. A read or an unlink that fails in
  `release()` is swallowed and leaves the item locked by nobody (`locks.py:127-128`, `179-180`).
* **Runs.** A resume starts from an empty budget (`orchestrator.py:636`), and a fixer's cost is neither
  capped nor charged: `CapsHold` has a term for each.
* A step with `gate: human` blocks again on every resume, since nothing remembers an approval
  (`gates.py:70`): `EventuallyDone` excepts such runs. One whose `when:` is false is skipped before its
  gate is looked at (`orchestrator.py:807`): `GateHolds` is about the others.
* A planner that writes no section succeeds; the fan-out step then fails on every resume
  (`PipelineRun!EmptyPlan`, which `EventuallyDone` excepts).
* A resume posts the question, or the report, of a step again that died before the save; and
  `resume` has no `--dry-run`, so a dry run that is resumed is a real one (`Reporting!Resume`).
* The commit of a fixer is in no record (`CommitsRecorded` excepts it).
* **Conditions.** A resume fetches the ticket again and forgets what intake judged
  (`orchestrator.py:537`): `ClarifierHasItsSay` excepts it. What the security scan sees leaves out
  untracked files, the end of a long diff and, without a `base_branch`, the commits of earlier
  processes: `SecurityFailsClosed` says so in `Visible`. It also leaves out what is in the index
  (`git_local.py:330` is a plain `git diff`, against `memory/adapters/repos.md:55`, "plus uncommitted
  changes"): after a process has ended between `git add -A` and `git commit`, a resume may review around
  the edits of the step that was interrupted, and pass over the security step: `stranded`. A file polled from an inbox with a `key:` line
  cannot be fetched under that key by a resume (`file.py:117`; not modelled).
* **Clones.** A developer who looks at an agent's branch in the parent clone, say while the run waits
  for an answer, makes the next checkout fail: `_worktree_for_branch()` reports no worktree and git
  refuses to add one (`git_local.py:265`, whose comment says adding is still correct): `NoWall` excepts
  a branch that is recorded for `Main`.
* `_parent_porcelain()` calls "no changes" the answer that cannot invent a failure; it also answers for
  the baseline, and then all work in progress is drift later (`Worktree!Settle` with a failing `Probe`).
* `drifted()` cannot tell who changed the parent clone: what the developer or another run changes
  fails every run's next committing step (`fresh` is of anybody's changes); and a stray write into a file
  that was dirty already, or one made before a resume, is not seen (`Stray`, `Leaves`).
* A run that stops for a question cleans up by force: edits no step committed are gone at the resume
  (`Worktree!Remove`; allowed by `EditsKept`).
* **Reporting.** A dry run claims the ticket all the same (`orchestrator.py:687`, against
  `README.md:627`): `DryRunPostsNothing` is about sinks and forge, not the source.
* A `github_pr` sink drops what it is told before it has a URL, and after a resume it has none
  (`github_pr.py:65-68`; nobody passes it a `pr_url_getter`): `PrimaryLeads` and `TicketIsTold` except it.
* A file sink without a `dir:` appends to the very `ticket_comment.md` that the run loop then overwrites
  (`orchestrator.py:1171-1175`); and a question it has put there passes for the reporter's text where the
  reporter writes none (`:1174-1178`, against `memory/engine/reporting.md:14,45`): the `Asked` of
  `ReportIsOut`.
* **Processes and machines.** A machine whose `connect()` fails or times out after `create()` is torn
  down by nobody, as the session was not set yet (`solari.py:198-203`, against 257-263): `lost` in
  `TornDown`.
* Off Windows only the child is killed on a timeout, and its helpers go on (`process.py:232`, against
  `process.py:9-10`): `TreeIsKilled` and `EditsAreOwn` say for whom they hold. On Windows nobody looks at
  what became of `taskkill` (`process.py:236-243`): a call where it failed is `untaken`. `shell.run` on Windows waits
  for a helper that holds the pipe, timeout or not: the exception of `CallComesBack`.
* **Functions.** Words that read as numbers compare as numbers but are not equal to them. A fence that
  is not closed hides every marker behind it. A `}}` outside of a placeholder becomes `}`. Lists nested
  three deep in a Jira description are lost, since a list takes two of the six levels; ordered lists
  are numbered anew when they are read. A quoted `.env` value followed by a comment keeps its quotes.
  `_jailed()` tries the run directory for a path that is not in the checkout.

## 4. The proofs

TLAPS proves the following for every value of the constants that satisfies the module's named
assumptions (types, and that the special values are not processes).

| Module | Theorems | Inductive invariant |
|---|---|---|
| `RunLockProofs` | `TypeCorrect`, `Leftovers`, `VerdictSound`, `Exclusion`, `RecordedHolder`, `ImplementsMutex` | `ExclusionInv`: a file with content names the run its creator owns, unless it is abandoned; a process that owns a run id is in `held` or `release`; and, unless a live lock was broken, every holder's file exists and is its own (`HoldersOwn`). Two holders would both own the one file. Mutual exclusion alone says nothing of the file, so `Create` would not preserve it. `MetInv` and `ReadInv`: whom a refused process has met is at work, and the name it has read is theirs; so the verdict is on a live process. |
| `PollSweepProofs` | `PollTypeCorrect`, `NeverTogether`, `ItemLocksAreMutexes`, `OneRunEach` | `IInv`: whoever is at work is at an item and has its lock; with it every step maps to a step or a stutter of each item's `ItemMutex`. `OnceInv`, for each poller and without counting what others ran: an item it ran has left the listing for good (`FirstRunInv`), is the one it is busy with, or could not be moved, and nothing in its page or in hand was run by it; `AssignInv`: no claim of another brings such an issue back. |
| `PipelineRunProofs` | `RunTypeCorrect`, `DoneIsComplete`, `RecordedInOrder`, `CompleteIsFrozen`, `RunKeepsPromise`, `QuestionsBounded`, `CommitsAreRecorded`, `FinalCommentsBounded`, `GatesHold` | `RunInv`: while a process is alive `run.json` equals the `Run` object, but for DONE before the closing save (`SyncInv`); every step before the cursor is settled, the one being executed is not recorded (`CursorInv`). `StepKinds` shows that each of the 34 actions has one of 13 effects on cursor and record; the proofs go over these. `AsksInv`, `CommitsInv` and `ReportsInv` add where a question, a commit or a report is that the file does not have yet; `GateInv` says that nothing from a gate on is recorded, that the loop is never inside a gated step, and that a pull request comes from a reporter before every gate. |
| `ResumeOverlapProofs` | `OverlapTypeCorrect`, `OverlapRecordIsTrue`, `ResumesTakeTurns`, `FreshResumesKeepPromise` | `OverlapInv`: inside the loop a process has the lock, until a live lock is broken; a status "ok" on disk or in any copy was executed; a copy that is not stale equals the file. `PrefixInv`: what the file and every copy record is an initial part of the pipeline, which a stale save may shorten and never tear. `CursorInv`: at the step at hand everything before it is recorded in the copy, so that with a fresh one the step that is saved is the next one `RunPromise` completes. What is recorded needs no lock: `RecordIsTrue`, `PrefixInv` and the promise hold with any number of processes in the loop. Until a live lock is broken every step maps to a step or a stutter of `ItemMutex`, `Unlink` to `Break`. |
| `WorktreeProofs` | `WorktreeTypeCorrect`, `OwnTrees`, `LeftoversAreNoWall`, `StraysStopCommits`, `OnlyNewDrift`, `BranchesGrow`, `EditsOutlive` | `IInv`: git records a branch once, and a run's directory, while it exists, is the one recorded for its branch (`RegistryInv`; `NoSharedTree` alone does not survive the next `Add`); a checkout that was not raced knows how its branch is recorded (`ListInv`); strays are dirty and outside the baseline (`DriftInv`); the baseline has the worktrees' own lines (`BaselineInv`). |
| `WhenFactsProofs` | `FactsTypeCorrect`, `GateFailsClosed`, `ClarifierIsAsked`; `ComparisonsCohere` | `ScanInv`: the record of the last review matches what it could see, in memory and on disk, except while a reviewer that is not recorded comes first among the steps that are not; then the changes are scanned anew before anything is decided. `PlanInv`: the record says no exactly when the plan of the last recorded planner did. `ItemInv`: `workitem.json` always says what the last intake made of the ticket, and the item in memory too unless a resume fetched it anew. `IndexInv`: the index holds something only between the two git commands, or after a process ended there. `ComparisonsCohere` needs no state: two values that compare have one place each, as numbers or in one list without repetitions. |
| `ReportingProofs` | `ReportingTypeCorrect`, `PrimaryIsAhead`, `TicketStaysTold`, `ReportsGetOut`, `DryRunIsDry`; `EveryAnswerIsSplit` | `QueueInv`: what is left in `todo` is in the order of the methods, and `queue` is the end of the list of sinks. `LeadInv`: the methods already called have reached the primary sink, and the one at hand too once the primary is passed. `ServedInv`: a comment that got past the `github_pr` sink is on the pull request, or a call of that sink failed. `UrlInv`: only what follows the pull request has its URL. `ToldInv`: `TicketIsTold` at every step, by the order of the methods. `WordInv`: from the reporter on, what is to be posted is a report, or a question was put in its place. `EveryAnswerIsSplit` needs no state. |
| `ExecutionProofs` | `BudgetTypeCorrect`, `OvershootBounded`, `OverrunBounded`, `CostIsBounded`, `CapsAreHeld` | `CostInv`: what the executor may still spend is what the budget has left, and the total of all processes is what the earlier ones and the fixers may have cost. `TimeInv`: the deadline of a charged call is at most the cap and the floor away. |
| | `ProcessTypeCorrect`, `TreesAreKilled`, `ChangesAreOwn` | `KillInv`: a call whose kill goes by the tree reaches `kill()` with no child alive and no helper attached to one that was, unless its `taskkill` failed. `TouchedInv`: what was counted so far as changed by a successful call was changed by a helper that had cut itself off. |
| | `RuntimeTypeCorrect`, `MachinesAreTornDown`, `HandlesStayCurrent` | `PlaceInv`: where one thread is limits where the other is. `FieldInv`: which fields are set at each of these places, and that page and code context are of the machine in `session`. `LiveInv`: the machine in use lives. `OwedInv`: every living machine that is not lost is the one in `session` or in the coroutine under way, so that a teardown is still to come for it. |
| | `EveryNameIsFound` | None: the dictionary after *n* lines is the last value of each name among them. |
| | `RealpathAgrees`, `EveryPathIsJailed` | None; induction along the hops of a walk. A walk whose `done` is resolved ends where the lookup of `done` followed by `rest` ends, and stays resolved (`RealpathAgrees`). Of a resolved path every beginning is resolved, so `relative_to` on names is containment of places; and the test of `jail()` on the nearest ancestor that exists adds nothing to the one on the whole path, but for the root itself, which exists. |
| | `EveryTextIsKept` | None; induction over the text. What is rendered from a position on depends on nothing before it (`RenderedBehind`), so a token written with its braces doubled comes out and leaves the rest as it was (`RenderWritten`), and so does a placeholder (`RenderPlaceholder`). |

So exclusion holds for any number of processes, one run per poller and item for any number of pollers, items and pages,
the record's properties, the gates, the security gate and the clarifier's say for pipelines of any
length and shape and any number of crashes and resumes, the caps for any prices and times, the
worktrees for any number of items, branches and directories, the kill for any number of calls, the
teardown for any number of machines, and the order of what is told for any arrangement of sinks. Every
safety property of a state machine that a run checks is a theorem.

Five pure functions are proved for inputs of any size; `Coherent`, `AnswerIsSplit`, `NameIsFound`,
`ReachesExactly` and `TemplateIsKept`, which `functions` checks on small inputs, are what the theorems
state. Comparisons need no recursion. The split of an answer and the `.env` file are loops over lines,
written as recursive functions: the closed form of the loop (*inside a fence* is *an odd number of fences
before*; a name has the value of its last line) is shown to satisfy the recursive equation, so that
there is a function that does, and then to be the only one, by the least line at which the two would
differ (`WFMin` of the library, for `<` on the naturals). Templates and paths have no closed form. There
the function is built up from the end of the template, or is the least relation closed under the
equation of a walk; the induction is over a set of naturals (`SetInduction`) or, for walks, along the
hops, which `NoCircle` makes well-founded: a path that runs in a circle of links denotes no place.
`IsDisk` asks that no file lies in another and that checkout and run directory exist. `EveryTextIsKept` is over any set of tokens that has the braces, as no backend proves that a literal is
a string.

`judged` is the judgement intake arrived at, not the one `run.json` records: with the latter
`ClarifierHasItsSay` is false of a pipeline that has a second intake which its `when:` may skip, as a
crash between the two saves of such a step (`orchestrator.py:1008` and `1032`) leaves a `workitem.json`
that is ahead of `run.json`. The third pipeline of the run is there for it.

Only model-checked:

* everything temporal beyond safety (`LockComesFree`, `EveryItemServed`, `EventuallyDone`,
  `CompleteAgain`, `CallsEnd`, `CallComesBack`), which is out of the prover's reach;
* `ParsesItsGrammar` and `FormsAgree`: the parser calls itself along the grammar, and the definitions it
  is compared with range over all derivations; what they compute for every input would need induction
  over these trees, and RECURSIVE operators are out of the prover's reach;
* of `TextIsFaithful`, the Jira documents (trees, with two budgets that run out in the middle of them);
* of `SettingsAreFound`, the chain of `extends:` and the deep merge (trees again).

## 5. Not modelled, and why

* Wording: prompts, banners, log lines, the Jira field mapping, front matter, help texts. No control
  depends on it, except through the markers, the `Security:` line and the section files, which are
  modelled.
* The tokenizer of predicates, the schema of profiles and pipelines (`config/schema.py`,
  `engine/pipeline.py`): checks of one field at a time, where a unit test reaches every case.
* The wire formats of the model providers, of Jira and GitHub; retries are theirs. A provider is an
  answer at a price or a failure (`Budget`).
* The command line: argument parsing around the entry points that are modelled.
* Time of day, log files, screenshots, exit codes, the stub executor's placeholders.
* What the executors write into a file; `isolation: inplace`; the local and the null runtime, which keep
  no state.
* Pids are not reused, and `lock_filename` is injective (it appends a digest of the key).
* A conversion is modelled over kinds of lines and characters, not over every string; Windows paths and
  case-insensitive file systems are left out of the jail.

## 6. Plan

All of the plan is done: `RunLock` and `ItemMutex`, `PollSweep`, `PipelineRun` and `RunPromise`,
`ResumeOverlap`, `Budget`, `Worktree`, `WhenFacts`, `Reporting`, `SolariRuntime`, `ProcessExecutor`,
`Predicate` and `Comparison`, `Protocol`, `Templating`, `PathJail`, `JiraDocument`, `Configuration` and
`Environment`. What could follow:

1. What a run promises its ticket and its record at once: `Reporting` and `WhenFacts` as implementations
   of one abstract run.
2. The single-item `fetch()` of the file source, and the resume of a run whose item it does not find.
3. `isolation: inplace`, where the developer's clone is the workspace.

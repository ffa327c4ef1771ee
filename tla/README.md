# A formal model of Permian

Permian runs test cases: from an event and a test library it computes
case-run-configurations (crcs), runs each of them in a *workflow* thread, and
feeds the results to *report sender* threads. This directory holds TLA+ models
of that program, configurations that model-check them with TLC, and proofs
checked by TLAPS. Paths below are relative to `src/libpermian/`.

## 1. The system

| Component | State it keeps | Operations | Interacts by |
|---|---|---|---|
| Pipeline (`pipeline/`) | executed, return code, WebUI | `run` | main thread |
| Library repository (`pipeline/library_repo.py`) | the clone | choice of the branch, clone | main thread; git |
| Settings (`settings/`) | sources in order of priority | `get...`, `load_from_library` | everyone reads |
| Events, structures (`events/`) | structures of the event | choice of the class, conversion on demand, generation of crcs | main, workflows and senders ask for structures, under a lock |
| Crc lists and configurations (`caserunconfiguration/`) | list of crcs; per crc result, `runningFor` | merge, append, grouping; `updateResult`, `cancel`, copies | called by every thread |
| run_subset (`plugins/run_subset/`) | queries | filters the crcs of another event | main thread |
| Factories (`workflows/factory.py`, `reportsenders/factory.py`) | registered classes | assign crcs to workflows and senders | main thread |
| Result (`result/`) | state, outcome, final | `update`, `copy` | shared object, no lock |
| TestRuns (`testruns/`) | shared crcs, workflows, senders | `start`, `wait`, `update` | main thread; called by workflows and WebUI |
| Workflows (`workflows/`, plugins) | own copies of crcs | `run`, `groupReportResult`, `groupTerminate` | one thread each |
| Report senders (`reportsenders/`) | queue, own copies of crcs, exception, next flush | `run`, `resultUpdate`, `flush`, hooks | one thread each; FIFO queue |
| Issue analyzer (`issueanalyzer/`) | cache of issues; per issue: synced, new, uri, submitted | `analyze`, `submit`, `sync` | shared by the senders; locks |
| WebUI (`webui/`) | operational lock, port | `run`, `unlock`, `waitUntilStarted`, `cancel` | daemon thread, request threads, hook threads |
| Hooks (`hooks/`) | callbacks per hook | call in place or in a thread | everyone |
| Anaconda WebUI workflow (`plugins/anaconda_webui/`) | setup lock, VM semaphore, instances and directories per branch, image, VM | `setup`, `execute`, `teardown`, `terminate` | one thread per crc; shared lock, semaphore, class attributes |
| Kickstart workflow (`plugins/kickstart_test/`) | results per test, files | `setup`, `execute`, `teardown` | one thread per batch; launcher process |
| Lookups (`plugins/beaker`, `koji`, `compose`) | deadline, attempts | wait, retry, choose | threads that ask for structures; beaker and koji |
| Other plugins | none that decides | formatting, I/O | hooks |

Hard behaviours: results are shared by the workflow, main and WebUI request
threads without a lock; queues are fed by several threads and read by one;
hooks of plugins and workflows may raise anywhere; the main thread joins all
other threads, so an update nobody delivers blocks it; senders may batch their
reports (throttling); WebUI startup is signalled by releasing a lock from
another thread; senders meet in the cache of issues, whose calls to a database
may raise after they acted.

What makes a component correct: a result only moves forward until it is final
and then stays; each crc becomes final exactly once and every sender interested
in it learns the same final result; `wait` returns, with a return code that is
0 only if every sender did its work. Every test case is planned once per
configuration somebody asks for, and each reporting hears of it once. An issue
is filed once. The main thread goes on only when its own WebUI serves, and
leaves no thread behind. A workflow removes nothing another one uses, and
leaves nothing itself.

## 2. Modules

| Module | Models |
|---|---|
| `Results` | `Result` and its `update`; worst and lowest of several results |
| `ReportSenders` | the threads of `reportsenders/base.py`, with a free environment |
| `TestRuns` | a whole run: main, workflows, senders, cancel requests |
| `ResultBoard` | what a run promises, without its threads (abstract) |
| `Issues` | issue analysis, submission and conclusion by several senders |
| `Pipeline` | `Pipeline.run`, the WebUI's start, hooks and their threads |
| `Preparation` | settings, event class, structures, library branch |
| `Planning` | from test plans to crcs, workflows and senders |
| `AnacondaWebUI` | all workflows of that plugin and what they share |
| `KickstartBatch` | one kickstart workflow |
| `Lookups` | waiting and retrying loops, choice among composes |
| `MC...` | values of the constants for TLC; `MCPipeline` also composes |
| `...Proofs` | theorems and their proofs |

How they fit together. `ReportSenders` EXTENDS `Results`; `TestRuns` EXTENDS
`ReportSenders` and replaces its free environment (`Deliver`) by the threads that
really call `resultUpdate`. `Planning` EXTENDS `Preparation` and ends where
`TestRuns` begins: its `crcs`, `workflows` and `senders` are the constants `CRC`,
`workflowOf` and `crcsOf` there. `Pipeline` takes workflows and senders as
threads that end; `MCPipeline` composes it with `Issues`: the senders of `Issues`
are its workers, they run while their threads are alive, and each step is a step
of one of the two modules, with further guards, that leaves the other alone. So
the safety theorems of both hold of the composition. `AnacondaWebUI` and
`KickstartBatch` EXTEND `Results` only: they refine what `TestRuns` leaves open in
a workflow. `AnacondaWebUI` has one step per statement of `Result.update`, as a
cancel request is in it too; `KickstartBatch`, which models no request, takes an
update as one step.

Operators marked *Mutant of* in a comment are faulty variants of the definition
that follows; no specification uses them. They exist to show that each property
is able to fail.

### Results

`Updated(r, u)` is the object after `Result.update`, raising or not.
`StateChangeError` leaves it only partly unchanged: `final` is stored before the
states are compared, so a refused backward update still changes it. `Precedes`
is the order in which values of one result may follow each other.

### ReportSenders

One step per item of the queue: `Process` is `processResult` (own copy first,
then hooks), `Flush` the branch of `queue.Empty`, `TearDown` the end of `run`
with `checkEmptyQueue`. `spc` is the thread's place, `view` the results of its
own copies, `dirty` their dirty marks, `reported` and `closed` remember calls of
`processFinalResult` and `processCaseRunFinished`. With `HooksFail` any hook may
raise, before or after those calls. A `flush` that returns false changes nothing
and is a stuttering step; fairness then says that it does not return false for
ever. Time is left out: an empty queue may always last for the throttle
interval.

### TestRuns

`Result.update` on the shared crc is one step per statement (`CheckFinal`,
`SetFinal`, `CheckState`, `SetState`, `SetOutcome`), then `CopyResult` and one
`DeliverTo` per interested sender. `at`, `arg` and `to` are the frame of that
call in each thread. A workflow is `GroupedWorkflow.run` with the plugin's code
left open: any report of `Reports` for any of its crcs at most `MaxReports`
times, an exception, or a silent return. `Cancel`, `CancelCopies`, `Terminate`
are `CaseRunConfiguration.cancel`; a request may name any set of crcs.
`MainDecides`, `MainFinishes` and `MainJoins` are `wait`.

Abstractions: `extra_fields`, logs and wording are left out. The field reads of
one copy, and the read-compare-store of the outcome, are single steps. Loops
over lists of crcs and senders visit them in any order. A workflow may report a
group in any order. Processing of a queue item is atomic, as no other thread
reads the sender's own state.

### Issues

Each step belongs to one sender: `FinalUpdate` takes a final update that is to be
submitted, `OpenCache`, `CloseCache` and `AnalyzerRaises` are the context
`issue_cache` (lock, copy, write back as a whole, exception), `BeginSubmit`,
`SyncForSubmit` and `ActOnIssue` are `submit` under the lock of the issue, and
`SubmitAgain` is its early return. `BeginConclusion`, `Review` and `Conclude` are
what the github plugin reports at the end; `ConcludeAtOnce` are its early answers.
An object is `<<key, sender>>`: the sender that made it is what tells two objects
of one issue apart.

The database is external: issues of others (`foreign`, `FiledByOthers`) and those
filed by the run (`ours`). A call may raise before it acted or after, which
`mishaps` counts: `submit` then is tried again by the next sender, and an issue may
be filed twice. `ForceSync` is `sync(force=True)`, which no code of `src/` calls
but plugins may. The order of the issues of one update is left open.

### Pipeline

`main`, `webui` and `signal` are the places of the main thread, of the thread of
the WebUI and of `signalWhenStarted`; `alive` are the other threads, each with its
daemon flag. Hooks are sequences of callbacks: `CallNext` calls one, in the
caller's thread or by starting a thread, and `CallRaises` ends the hook and the
caller. A `Thread` inherits the flag of the thread that makes it (`ThreadOf`), so
that the callbacks of `WebUI_starting` and `WebUI_started`, called from the daemon
thread of the WebUI and from the thread that this one starts, get daemon threads;
`ToJoin` leaves these out, as `_waitForThreads` does. In `PluginHook` a worker
calls a hook of a plugin, whose thread may outlive the worker.
`locked` is the operational lock, taken by the constructor (`Run`) and released by
`Unlock` after the callbacks of `WebUI_started`. `port` says who answers at the
address: nobody, this WebUI, or another process (`PortTaken`). `joining` is the
snapshot of `_waitForThreads`. Answers that change nothing (nobody listens,
another status than 200) are left to stuttering; `PollRaises` is any exception but
the `ConnectionError` that is caught.

### Preparation and Planning

`Construct` to `LoadLibrary` are `Pipeline.__init__` and `_cloneLibrary`: the class
of the event, the branches a name is cut to while its last part is not empty
(`MayCut`, `DeriveBranch`) and tried (`TryBranch`), and the settings of the
library. `Get` looks an option up by section, then by source. Then threads ask for structures (`Ask`): an available one, or a
conversion by the first method that does not decline, tried in the order of
`Methods`, while the thread holds `structures_convert_lock`. `koji` remembers the
exception of a lookup that waited and gave up (`GivesUp`), which is raised again
instead of waiting. Any other exception, of the lookup or of what is made of its
result, leaves nothing behind (`ConvertRaises`), and the next who asks looks again.

`Planning` is the construction of `TestRuns`: `AddTestPlan` makes the crcs of a test
plan from the merge of its configurations with those of its test cases
(`MergedList`) and appends them to the list, where equal ones share `runningFor`
(`AppendCrc`); `FilterSubset` is run_subset; `AssignWorkflows` and `AssignSenders`
are the factories, whose groups are `ByKey`. Names of types and artifacts are
sequences of characters, as `dotted_startswith` compares characters. Queries are
the sets they accept.

### AnacondaWebUI

One `pc` per workflow thread of `plugins/anaconda_webui`. `setup` is `Start`,
`EnterSetup` (takes the lock; a canceled crc leaves), `BuildImage`, `JoinBranch`,
`Clone` (which releases the lock), `AcquireSlot`, `CheckCanceled`, the loop of
`StartVM` and `Boot`, and `WaitForWebUI`. Then come `Execute` and `TestEnds`,
and `teardown`: `TearDown` up to line 384, `ReleaseSlot`, `LeaveBranch`.
The shared result is updated statement by statement by two threads: `Report` hands
a result to the workflow's `Result.update`, which `UpdateStep` carries out before
the workflow goes on; `CancelRequest`, `Terminate` and `Cancel` are the request
thread, whose update stands at `cpc`. git, podman, virsh, ssh, the
test and time are outcomes; `Raises` names the calls that may raise, and an
exception of setup or execute goes through `Fail` to the teardown, as in
`GroupedWorkflow.run`. Writing the log may raise there too, before DNF is
reported: then the workflow is in `unlogged`. An exception of the teardown itself ends the thread where
it stands: that is why `TearDown` may skip the release of the slot
(`proc_virtinstall` does not exist before the first VM).

`virsh destroy` is taken to stop a VM.

### KickstartBatch and Lookups

`Setup`, `CloneRepo`, `FetchBootIso`, `Execute`, `ResultLine`, `RunnerEnds` and
`Teardown` follow the methods of `plugins/kickstart_test`; each may raise where
the code may, and `overrides`, `tempRepo` and `iso` are the files that exist then.
The launcher prints any sequence of verdicts (`runs`, at most `MaxRuns` of a test).
`Summary` is the summary in the log.

`Lookups` has one task at a time, with its own clock: a look takes 1 to `MaxLook`,
a `Sleep` exactly its interval, and what is waited for appears at `appears`.
`MayLook` is the condition of each loop and `AfterMiss` what follows a miss: beaker
counts the slept time down, koji has a deadline, `retry_call`, the address of a VM
and the random port count attempts. `TryName` is `rtt_accepted` and `TakePrevious`
`previous`.

## 3. Runs

| Run | Question | Answer |
|---|---|---|
| `senders` | Is a sender, throttled or not, robust against any deliveries, even after the final one? | its view only advances, hooks match the view, it ends when all is final; the throttled one flushes once its queue stays empty |
| `quiet` | What if workflows behave and nobody cancels? | no update follows a final one; return code 0 |
| `rough` | What if workflows and hooks misbehave, but nobody cancels? | one updater at a time, final for ever, ordered queues, agreeing views, right return code, `wait` returns; the run implements `ResultBoard` |
| `cancel_obeyed` | Two requests race; `groupTerminate` succeeds or raises | every crc is decided and `wait` returns |
| `cancel_race` | A request may also be answered with false | a return code of 0 still means that all was reported |
| `cancel_hangs` | Does `wait` return then? | no: `wait` reads the final mark as false and stores DNF itself; a request past its checks clears the mark before the copy is made, and the join of a sender blocks |
| `vm_slots` | Three workflows compete for one VM slot; images, VMs and tests may fail | the limit is kept and each gets its slot |
| `vm_cancel` | Two workflows of one branch and one slot; every call may fail, the log too, and both crcs may be canceled between any two statements | nothing in use is removed; a test lacks its framework only after a failed clone; no workflow that could log ends with an unfinished state; a crc canceled while waiting gets no VM |
| `vm_leak` | One slot, and a crc may be canceled: does everyone get a slot? | no: the teardown of the canceled one raises before the release |
| `pipeline` | A run with two senders that submit issues; the WebUI, callbacks, analyzers and the database fail | main waits for all threads but daemons and passes only its own WebUI; an issue is filed once, its URI agrees, a success is reviewed |
| `planning` | From settings, event and library to workflows and senders | overrides survive, structures are the same for all, no lookup that gave up is repeated, the longest branch is taken, each crc is planned and served once |
| `plugins` | A kickstart batch with every failure; each waiting loop at its boundaries | results, files and summary agree; loops end in time, the right compose is chosen |

Bounds. `senders`: three crcs of two test cases (a test case of two
crcs is needed to tell its end from the end of the run), four results (a step
forward, a later one, two finals of which one may go back), a queue of two
(`MaxQueue`, which bounds the free environment only). As senders share nothing,
the plain and the throttled one run one at a time.
`quiet`: two crcs in two workflows, two senders of which one shares a crc,
two reports each (progress, then final). `rough`: two crcs in one grouped
workflow and two overlapping senders, one throttled; two reports are enough to
report, report backward, and report after a final result. The cancel runs: one
crc, as the races are on one shared result; one request with two senders, or
two requests with one.

`vm_slots`: two workflows share a branch, one has another (the image is shared by
all), and one slot makes them wait; two attempts to start a VM stand for ten, and
nobody cancels. `vm_cancel`: what may be removed or not cloned is that of one
branch, so two workflows suffice; one slot and one attempt to start a VM, as the
states multiply with the statements of the updates and requests. `vm_leak`: the
three workflows of `vm_slots`, one of them without hypervisor, and no call raises.

`pipeline`: two senders, both concerned with one crc whose issue they share, one
with a second crc that has none; six inputs that lead to each conclusion and
each setting; the callbacks of the program and of the jenkins and
`shutdown_delay` plugins, one that may raise, and a hook of a plugin. Senders and
other threads meet nowhere but in the joins, so the plugin's hook is called when
the senders have ended and no daemon thread ends while they work; the return code
is 1 exactly if a sender raised. `planning`: two threads, two
test plans, two test cases, two configuration keys and three values; branch names
with empty parts, registered types that share characters but no parts; families of
inputs that vary types, settings, branches, structures, libraries or subsets,
each against a plain rest, as these decisions do not read each other.
`plugins`: three crcs of two tests, every input of setup, up to three verdicts per
test (a flake, its retry, one too many); timeouts -1, 0, 1 and 4 against
intervals 0, 1 and 3; lists of up to three composes, prefixes among them.
`MaxTime` bounds the sleeping. A batch and a lookup share nothing, so one of them
is nearly idle.

Fairness: every started thread keeps running (weak fairness per thread), and the
plugin code of a workflow and the threads that main waits for terminate; these
are Python threads and the program promises nothing otherwise. A daemon thread of
a callback may run for ever. A cancel request or a raising poll is never owed, and neither is any delivery of the free environment, a forced
sync, a filing by others, or another process that takes the port. Nothing in
`planning` needs fairness.

`CHECK_DEADLOCK FALSE` stands in `senders`
(the environment may stop delivering: a sender then waits), in the runs with
cancel requests that may hang, which is what `cancel_hangs` shows, and in
`pipeline`, `planning` and `plugins`, which come to their end. In `pipeline` main
also waits for ever if the start of the WebUI fails: `RunEnds` says when it does not.
`Returned` stands for the rest of the pipeline after `wait`.

## 4. Proofs

For all values of the constants. The assumptions (`SenderAssumption`,
`TestRunsAssumption`, `WebUIAssumption`, `PipelineAssumption`, `IssuesAssumption`,
`KickstartAssumption`, `LookupsAssumption`, `PreparationAssumption`,
`PlanningAssumption`) fix the types of the constants, that each workflow and each
sender has a crc, that there are finitely many Anaconda workflows and finitely
many crcs of a kickstart workflow (both are lists in the code), that the ids of
test plans differ (the library is a dict by id), and that `signalWhenStarted` is a
threaded callback of `WebUI_starting` and of no other hook.

| Theorem | Statement |
|---|---|
| `SenderTypeCorrect` | `SenderSpec => []SenderTypeOK` |
| `ViewAdvances` | `SenderSpec => ViewOnlyAdvances` |
| `HooksCorrect` | `SenderSpec => []HooksFollowView` |
| `TypeCorrect` | `Spec => []TypeOK` |
| `SingleUpdaterCorrect` | `Canceller = {} /\ Spec => []SingleUpdater` |
| `FinalIsForever` | `Canceller = {} /\ Spec => FinalForever` |
| `DeliveryInOrder` | `Canceller = {} /\ Spec => []OrderedDelivery` |
| `ViewsAgree` | `Canceller = {} /\ Spec => []FinalViewsAgree` |
| `WaitDecides` | `(Canceller = {} \/ Answers \subseteq {TRUE}) /\ Spec => []AllDecided` |
| `ZeroIsReported` | `(Canceller = {} \/ Throttled = {}) /\ Spec => []ZeroMeansReported` |
| `RunIsClean` | `Canceller = {} /\ HooksFail = FALSE /\ LateReports = FALSE /\ Spec => []CleanRun` |
| `RunImplementsBoard` | `Canceller = {} /\ Spec => ImplementsBoard` |
| `WebUITypeCorrect` | `Spec => []TypeOK` (of `AnacondaWebUI`) |
| `NothingIsRemovedInUse` | `Spec => []NothingRemovedInUse` |
| `VMLimitIsObeyed` | `~Debug /\ Spec => []VMLimitObeyed` |
| `FrameworkIsThere` | `Spec => []RunsWithFramework` |
| `NobodyEndsUndecided` | `Spec => []EndsDecided` |
| `CancelBeforeSlot` | `Spec => CanceledGetsNoVM` |
| `PipelineTypeCorrect` | `PipelineSpec => []PipelineTypeOK` |
| `StartIsChecked` | `PipelineSpec => []StartedMeansServing` |
| `NobodyIsLeft` | `PipelineSpec => []EndedMeansAlone` |
| `IssuesTypeCorrect` | `IssuesSpec => []IssuesTypeOK` |
| `IssuesActedOnce` | `IssuesSpec => []ActedOnce` |
| `IssueHasOneUri` | `IssuesSpec => []SubmittersAgree` |
| `SuccessNeedsReview` | `IssuesSpec => []SuccessIsReviewed` |
| `KickstartTypeCorrect` | `KickstartSpec => []KickstartTypeOK` |
| `ResultsAreDecided` | `KickstartSpec => []ResultsDecided` |
| `NothingIsLeft` | `KickstartSpec => []LeavesNothing` |
| `SummaryIsTrue` | `KickstartSpec => []SummaryMatches` |
| `LookupTypeCorrect` | `LookupSpec => []LookupTypeOK` |
| `WaitingIsAsAsked` | `LookupSpec => []WaitsAsAsked` |
| `AllAttemptsAreMade` | `LookupSpec => []AttemptsExact` |
| `ChoiceIsCorrect` | `LookupSpec => []ChoiceCorrect` |
| `LibraryDoesNotOverride` | `PlanningSpec => OverridesSurvive` |
| `ClassIsMostSpecific` | `PlanningSpec => []MostSpecificClass` |
| `BranchIsLongest` | `PlanningSpec => []LongestBranch` |
| `StructuresAreFixed` | `PlanningSpec => []StructuresFixed` |
| `CasesArePlannedOnce` | `PlanningSpec => []PlannedOnce` |
| `EachIsServed` | `PlanningSpec => []EachServed` |

`ViewAdvances` needs no invariant but the types: `UpdatedPrecedes` shows that
any update, accepted or refused, leaves a result that may follow the old one.
`HooksFollowView` is inductive together with the types.

`SingleUpdater` is not inductive. `Ownership` strengthens it: a workflow inside
`TestRuns.update` works on one of its own crcs and has not ended, and the main
thread works only on crcs whose workflow has. Two threads inside the call then
have different crcs (`OwnersDiffer`). For `FinalForever`, `UpdateProgress` adds
that a thread past the check works on a result that is not final, and a thread
past the store of the final mark has stored its own; it survives the steps of
the other threads only because of `Ownership`. The assumption that nobody
cancels is needed, see section 6.

`DeliveryInv` proves the order of delivery: the view of a sender, the results of
that crc in its queue and the shared result form a chain of `Precedes`
(`Chained`), and the copy that a thread is about to deliver is the shared result
itself (`CallPoint`), because no other thread updates that crc. So nothing that is
on its way, and nothing a sender knows, is ahead of the shared result. As a final result
precedes nothing but itself, `FinalViewsAgree` follows.

`WaitDecides` holds with requests to cancel too, if `groupTerminate` raises or
claims success: a request then never clears a final mark (`DecidedInv`). With
other answers it may, which is what `cancel_hangs` shows. `VerdictInv` follows a return
code of 0 back to each sender: main joins them in turn (`JoinInv`), one that
ended without an exception has seen and passed on everything final
(`HooksFollowView`), and its queue held messages about its own crcs only
(`OwnMessages`). With requests to cancel this fails for a throttled sender, as a
refused final result is not marked dirty (section 6). `QuietInv` says that a
workflow has reports left only for crcs it has not reported as final
(`ReportsOpen`), that nothing final was sent out for the crc of a running call
(`CallsOpen`), and so no sender finds anything behind a final result
(`SendersQuiet`). The refinement maps an update to `ResultBoard` at the
store of its final mark; that the steps before and after it are stutters needs
`UpdateProgress` and `DeliveryInv`.

`NothingRemovedInUse` is made inductive by `SharedInv`: whoever is inside setup
holds the lock; whoever needs the directory is registered for its branch; and a
workflow that reaches `execute` because it was canceled needs nothing, as a
canceled result stays canceled while no report of its own is under way (`Settled`). For `VMLimitObeyed`, `SlotInv` counts:
the free slots and the workflows that will give one back are at most `VMLimit`.
A workflow that got a slot but never a VM drops out of the count without
returning its slot, so this is an inequality. Dry runs start no VM (`DryInv`).
`FrameworkInv` adds to `SharedInv` that a directory that is made and not cloned has
a maker that is about to clone under the setup lock, or is past its failure. For
`EndsDecided`, `Decided` says of each workflow that only its last report is final,
that its final mark, once stored, stays until a request stores its own, and that
the report is refused only by a state that is decisive as well; a request alone
makes a result canceled. `UnslottedInv`: no VM is up
and no report under way before a slot is taken; a canceled workflow leaves at
`CheckCanceled`, and a step to the only place that starts a VM does not follow.

`PipelineInv`: the callbacks of `WebUI_started` are called or still in the list of
`signalWhenStarted` while it unlocks (`StartInv`), so that the released lock means
both that they are called and that its thread has ended. After that only the main
thread and workers start threads, and when main takes its snapshots no worker is
left: every thread that is alive and no daemon is in `joining` (`AloneInv`). That
is why a snapshot is enough. `DaemonInv` says where daemons come from: only the
callbacks of `WebUI_starting` and `WebUI_started` are called by daemon threads.

`IssuesInv` rests on three facts. The copy of whoever holds the lock of the cache
is current (`CacheLocked`), so an entry never changes once it is set, and all
senders hold the one object of an issue (`Shared`). The lock of an issue is held
by one sender, and only while the issue is not submitted (`IssueLocked`); what was
done about an issue that is not submitted was therefore a mishap (`Counted`), and
what `submit` returned is the URI of that object (`Answered`). Before the first
lookup this run has filed nothing, so "not new" means known to others, and stays
so (`Known`). `Reviewed` carries this through the conclusion.

`KickstartInv` says what each place of the thread knows of the files
(`PlaceKnows`), and that a crc stays open until a result of its test decides
and then keeps the outcome of that result (`AllFollow`); the lemma `NextResult`
tells what one more verdict changes in the sequence of those that decide.
The numbers of the summary follow from it: a test that ended well after two runs is
one whose first run failed (`FlakesFollow`), and the sum of the additional runs is
the number of those tests (`RepeatedAreCounted`).
`LookupInv` adds to the types linear facts on the time: what was slept, what is
left of it, and that the last look began at most an interval and a look ago.
`CountedInv` relates the attempts made to the time that was waited between them,
the sum of the powers so far, for any interval, growth and number of attempts.
`ChoiceInv` keeps how the composes were chosen; what the choice is worth follows
from the orders. That of strings is strict and total (`LexOrder`), so that a sorted
list exists (`OrderMore` inserts one more element) and the id before the first
own one is the greatest that is less (`PreviousIs`). `_compose_cmp` never calls two
composes equal, but what it prefers is transitive (`OverOrder`), so that keeping the
better of two, along the list, ends with the best (`BestIs`).

In `PlanningProofs`, `GetKept` is the lemma about settings: an option found at a
place above those of the library is found there afterwards; `SettingsInv` says
that loading them is the only change. `ClassIsLongest` shows that the greatest of the
registered names that a type starts with is the longest: of two prefixes of one name the longer is greater
(`LongerIsGreater`), and a longest exists (`LongestPrefix`, a minimal
counterexample by well-founded induction on the numbers). `BranchInv` says which cut
each listed branch is and that all tried before the last one failed. `AskInv`:
one thread at a time converts, and only a name that is not there (`OneConverts`),
so that a name is made once (`MadeOnce`), and a lookup gives up at most once, as it
leaves its exception (`OneLookup`); the event's own structures come first
(`OwnFirst`), so their methods are tried before those of converted ones
(`MadeFromOwn`).

`PlanInv` says what the list of crcs describes while it grows (`Describes`): no two
are equal, each test case and configuration that someone asks for has one, and each
runs for exactly those that ask; they are the test plans looked at so far
(`AskedOf(Done)`), all of them, and in the end those that run_subset leaves
(`LeftWants`). `AppendDescribes` shows it for one crc more, equal to another or
not, `AddAllDescribes` for a list of them, and `MergedIs`, `MergedListIs` and
`CrcsAre` that the crcs of a test plan are those it asks for. `ServedInv` keeps
workflows and senders those of the crcs; that each crc has exactly one of each
(`EachHasOneWorkflow`, `SendersCoverAll`) follows from what grouping does
(`GroupsAre`): all with the same key, no other, and none twice.

What `FoldLeft` and `FlattenSeq` compute is proved by induction without the
induction theorems of the library, which take an operator: `SetInduction` states
induction as a fact about a set of numbers, from the well-foundedness of `<`, and
`FoldExists` that the function which a fold is defined by, with `CHOOSE`, exists.
So `Only` chooses what is in a set, in order (`OnlyPicks`), and appending crcs goes
one after the other (`AddSteps`).

Only model-checked: the liveness properties (`WaitReturns`, `EndsOnceDelivered`,
`FlushedWhenQuiet`, `SlotComes`, `RunEnds`), as TLAPS does not handle liveness
under fairness.

## 5. Not modelled

- The command line, tests, example plugins, templates, the JavaScript and the
  pages of the WebUI, and formatting in plugins: no state, or only wording.
- `merge_testcase_configurations`, used by a template of reports; log files;
  `everything_event`; the id and further data of structures; the conversion of
  values and the parsing of settings files; run_subset's delegation of attributes
  to the original event; methods of factories that only unit tests use.
- git, podman, virsh, ssh, beaker, koji, issue databases and the kickstart
  launcher are external: their answers, failures and delays are choices.
- Whether virsh refuses a second VM of one name (`anaconda_webui` line 268): the
  one hazard without a property, as it is behaviour of an external program.
- In the Anaconda WebUI workflow: log collection, whose exceptions teardown
  swallows, and a failing `mkdtemp`.

`PROJECT.json` lists each component with its status, and each hazard of the code
with the properties that would catch it.

## 6. What reading the code with the model showed

Two disagreements with what the code says of itself are runs: `cancel_hangs` and
`vm_leak`. The rest is here; where a property had to exclude it, it says so.

Results and cancelling:
- A cancel request that passed the check for a final result changes it
  afterwards, and the request and the workflow are both inside `updateResult`,
  which its comment excludes: `FinalForever` and `SingleUpdater` need
  `Canceller = {}`.
- `updateResult` swallows a refusal, and `TestRuns.update` delivers the copy to
  the senders all the same; a second final copy makes a sender that ended fail.
- An own copy made final by a refused update is not marked dirty
  (`reportsenders/base.py` line 166), so it is not flushed.

- What makes `wait` hang in `cancel_hangs` is a request that clears the final mark
  of the DNF which `wait` has just stored, before `wait` makes the copies it
  delivers.

Start of the pipeline:
- `run_threaded_on` promises a "(non-daemon) thread" (`hooks/register.py` line 65),
  but sets no flag (line 78), and a thread inherits that of its maker: what
  callbacks of `WebUI_starting` and `WebUI_started` start (`set_jenkins_build_info`
  of the jenkins plugin, say) are daemons, which nobody joins and which the exit of
  the program cuts off. `EndedMeansAlone` excepts exactly these.
- `signalWhenStarted` catches `ConnectionError` only; any other exception ends it,
  and the lock is not released (`PollRaises`).
- A port setting that is no number, or a callback of `WebUI_starting` or
  `WebUI_started` that raises, leaves main in `waitUntilStarted` for ever, and
  an answer of its own WebUI with another status than 200 makes
  `signalWhenStarted` ask for ever (`StartFailed`).
- `webui/callbacks.py` line 62 reads `create_static_webui` as a string, so that
  "False" counts as true.

Preparation:
- `dotted_startswith` compares characters (`a.b` covers `a.bc`), although its doc
  speaks of parts: `MostSpecificClass` says that the longest name wins with which
  the type starts, as characters, so that the class of `a.b` handles `a.bc` if
  nobody registered a longer one.
- A koji lookup that fails otherwise than by giving up, or whose build cannot be
  made a beaker compose, is not remembered: the next who asks waits again
  (`ConvertRaises`; `StructuresFixed` speaks of lookups that gave up).
- An override of the second section does not override a default of the first,
  as sections go before sources (`OverridesSurvive`).
- `ConfigurationsList.merge` promises an empty dict if the other list is empty;
  only `None` gets one.
- Without `composes_baseurl` a koji build declines to become a compose, but
  becoming a beaker compose then raises; and what a beaker compose is made from
  depends on whether the compose was asked for first (`FromEvent`).

Plugins:
- `wait_for_compose` may return false although the compose became available within the
  timeout, between the last look and its end; an interval of 0 never ends. koji with a
  negative timeout never ends (`NothingMissed`, `Boundaries`).
- `xmlrpc_server` says its calls are retried for up to 17 minutes; the nine
  intervals sum up to 511 seconds (`AttemptsExact`).
- `fetch_boot_iso` skips https without a word; the teardown of a kickstart
  workflow raises after a failed clone and leaves its files (`LeavesNothing`).
- A timed-out Anaconda test that exits with 0 on SIGTERM passes.
- `temp_dirs` keeps the key of a directory that `teardown` removed (line 392), so
  a later setup of that branch finds the key, no directory, and raises in `chmod`
  (`Clone`, first case).
- If the workflow that made the directory fails in its clones, the next ones of
  the branch skip them and run tests without the framework: the exception that
  `RunsWithFramework` makes.
- A cancel request past its check clears the final mark of a complete result and is
  then refused: the crc has ended, neither final nor canceled, and `wait` turns it
  into DNF. And a request can be lost, if the workflow reports "started" over it.
  `EndsDecided` says what remains true: the state is a last one.
- If the log of a failure cannot be written, DNF is not reported
  (`workflows/grouped.py` lines 67-71): the crc stays undecided until `wait` decides
  it (`unlogged`).
- With `debug`, `teardown` releases a slot even if setup failed before it took
  one, so `VMLimitObeyed` is claimed, and proved, only without `debug`.

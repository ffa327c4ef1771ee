----------------------------- MODULE AnacondaWebUI -----------------------------
(***************************************************************************)
(* The workflows of libpermian/plugins/anaconda_webui: one thread per      *)
(* case-run-configuration, which share a setup lock, the semaphore of VM   *)
(* slots, a temporary directory per branch and one container image.        *)
(*                                                                         *)
(* result is the shared result of the workflow's only crc, which its       *)
(* thread and a request of the WebUI update without a lock, so that        *)
(* Result.update is one step per statement; the outcome, which nobody here *)
(* reads, is stored along with the state.  Each crc may be canceled once.  *)
(***************************************************************************)
EXTENDS Results, FiniteSets

CONSTANTS
  Workflow,      \* the instances made by factory
  Branch,        \* branches of the anaconda repository
  branchOf,      \* [Workflow -> Branch]: git_webui_branch
  Unsupported,   \* workflows without hypervisor for their architecture
  VMLimit,       \* hypervisor_vm_limit
  Tries,         \* attempts to start a VM, 10 in the code
  DryRun, Debug, UseContainer, Remote,  \* settings; Remote: hypervisor.remote
  Raises,        \* calls that may raise
  Cancellable,   \* workflows a request may cancel
  Nobody         \* holder of a free lock

Call == {"container", "clone", "startVM", "vmErrors", "webui", "execute",
         "forwarding", "log"}

ASSUME WebUIAssumption ==
  /\ IsFiniteSet(Workflow)
  /\ branchOf \in [Workflow -> Branch]
  /\ VMLimit \in Nat
  /\ Tries \in Nat \ {0}
  /\ {DryRun, Debug, UseContainer, Remote} \subseteq BOOLEAN
  /\ Raises \subseteq Call
  /\ Nobody \notin Workflow

VARIABLES
  pc,         \* [Workflow -> where run() is]
  lock,       \* holder of setup_lock
  slots,      \* value of vm_semaphore
  instances,  \* [Branch -> registered workflows], {} when not a key
  tempDir,    \* [Branch -> the entry of temp_dirs and its directory]
  image,      \* the container image exists
  makesDir,   \* clone_common, the local of setup
  vm,         \* [Workflow -> its VM], "none" before proc_virtinstall is set
  tries,      \* VMs started by the loop of setup
  result,     \* result of the shared crc
  at, given,  \* the workflow's place in Result.update, and its argument
  unlogged,   \* workflows that failed and could not report it
  cpc         \* where the request that cancels the workflow is

reports == <<at, given, unlogged>>

vars == <<pc, lock, slots, instances, tempDir, image, makesDir, vm, tries,
          result, reports, cpc>>

shared == <<instances, tempDir, image, makesDir>>

(* The statements of Result.update. *)
Statement == {"check", "setFinal", "checkState", "setState"}

TypeOK ==
  /\ pc \in [Workflow -> {"new", "lock", "container", "join", "clone", "slot",
                          "check", "startVM", "boot", "webui", "execute",
                          "test", "teardown", "release", "leave", "ended"}]
  /\ lock \in Workflow \union {Nobody}
  /\ slots \in Nat
  /\ instances \in [Branch -> SUBSET Workflow]
  /\ tempDir \in [Branch -> {"none", "made", "cloned", "removed"}]
  /\ image \in BOOLEAN
  /\ makesDir \in [Workflow -> BOOLEAN]
  /\ vm \in [Workflow -> {"none", "up", "down"}]
  /\ tries \in [Workflow -> Nat]
  /\ result \in [Workflow -> Result]
  /\ at \in [Workflow -> Statement \union {"idle"}]
  /\ given \in [Workflow -> Result]
  /\ unlogged \in SUBSET Workflow
  /\ cpc \in [Workflow -> Statement \union {"idle", "terminate", "done"}]

Init ==
  /\ pc = [w \in Workflow |-> "new"]
  /\ lock = Nobody
  /\ slots = VMLimit
  /\ instances = [b \in Branch |-> {}]
  /\ tempDir = [b \in Branch |-> "none"]
  /\ image = FALSE
  /\ makesDir = [w \in Workflow |-> FALSE]
  /\ vm = [w \in Workflow |-> "none"]
  /\ tries = [w \in Workflow |-> 0]
  /\ result = [w \in Workflow |-> NotStarted]
  /\ at = [w \in Workflow |-> "idle"]
  /\ given = [w \in Workflow |-> NotStarted]
  /\ unlogged = {}
  /\ cpc = [w \in Workflow |-> "idle"]

----------------------------------------------------------------------------

canceled(w) == result[w].state = "canceled"

At(w, place) == pc[w] = place
Goto(w, place) == pc' = [pc EXCEPT ![w] = place]

Idle(w) == at[w] = "idle"

(* w calls Result.update of the shared result with r, which its own copy   *)
(* has become, as its reports only go forward; its next step comes when    *)
(* the update is over.                                                     *)
Report(w, r) ==
  /\ at' = [at EXCEPT ![w] = "check"]
  /\ given' = [given EXCEPT ![w] = r]
  /\ UNCHANGED unlogged

(* Where Result.update of r with u goes on after a statement, and what the *)
(* statement leaves in r.                                                  *)
Following(statement, r, u, end) ==
  CASE statement = "check"      -> IF r.final THEN end ELSE "setFinal"
    [] statement = "setFinal"   -> "checkState"
    [] statement = "checkState" -> IF Backward(r, u) THEN end ELSE "setState"
    [] statement = "setState"   -> end

Stored(statement, r, u) ==
  CASE statement = "setFinal" -> [r EXCEPT !.final = u.final]
    [] statement = "setState" -> Res(u.state, Worst(r.outcome, u.outcome), r.final)
    [] OTHER                  -> r

(* Mutant of Fail: nothing is reported.                                    *)
FailSilently(w) == Goto(w, "teardown") /\ UNCHANGED reports

(* An exception of setup or execute: DNF is reported, unless the log of    *)
(* that cannot be written; teardown follows.                               *)
Fail(w) ==
  /\ \/ Report(w, Res("DNF", "ERROR", TRUE))
     \/ /\ "log" \in Raises
        /\ unlogged' = unlogged \union {w}
        /\ UNCHANGED <<at, given>>
  /\ Goto(w, "teardown")

MayRaise(w, call) == call \in Raises /\ Fail(w)

Stopped(w) == [vm EXCEPT ![w] = IF @ = "up" THEN "down" ELSE @]

----------------------------------------------------------------------------
(* setup *)

Start(w) ==
  /\ At(w, "new")
  /\ IF w \in Unsupported THEN Fail(w)
                          ELSE Goto(w, "lock") /\ UNCHANGED reports
  /\ UNCHANGED <<lock, slots, shared, vm, tries, result, cpc>>

(* A canceled workflow leaves setup; run goes on with execute.             *)
EnterSetup(w) ==
  /\ At(w, "lock")
  /\ lock = Nobody
  /\ IF canceled(w) THEN Goto(w, "execute") /\ UNCHANGED lock
                    ELSE Goto(w, "container") /\ lock' = w
  /\ UNCHANGED <<slots, shared, vm, tries, result, reports, cpc>>

(* ExecutionContainer(): the image is built when there is none.            *)
BuildImage(w) ==
  /\ At(w, "container")
  /\ \/ /\ image' = (image \/ UseContainer)
        /\ Goto(w, "join")
        /\ UNCHANGED <<lock, reports>>
     \/ /\ UseContainer
        /\ MayRaise(w, "container")
        /\ lock' = Nobody
        /\ UNCHANGED image
  /\ UNCHANGED <<slots, instances, tempDir, makesDir, vm, tries, result, cpc>>

(* Mutant of CloneNeeded: it is asked after the entry is made.             *)
CloneNeededLate(b) == tempDir'[b] = "none"

CloneNeeded(b) == tempDir[b] = "none"

(* The entry of temp_dirs is made once per branch.                         *)
JoinBranch(w) ==
  LET b == branchOf[w] IN
  /\ At(w, "join")
  /\ instances' = [instances EXCEPT ![b] = @ \union {w}]
  /\ tempDir' = [tempDir EXCEPT ![b] = IF @ = "none" THEN "made" ELSE @]
  /\ makesDir' = [makesDir EXCEPT ![w] = CloneNeeded(b)]
  /\ Goto(w, "clone")
  /\ UNCHANGED <<lock, slots, image, vm, tries, result, reports, cpc>>

(* chmod needs the directory; then come the clones and the boot iso, each  *)
(* of which may raise, before or after the common repositories are there.  *)
Clone(w) ==
  LET b == branchOf[w]
      clonedDir == [tempDir EXCEPT ![b] = IF makesDir[w] THEN "cloned" ELSE @]
  IN
  /\ At(w, "clone")
  /\ IF tempDir[b] = "removed"
     THEN Fail(w) /\ UNCHANGED tempDir
     ELSE \/ Goto(w, "slot") /\ tempDir' = clonedDir /\ UNCHANGED reports
          \/ MayRaise(w, "clone") /\ tempDir' \in {tempDir, clonedDir}
  /\ lock' = Nobody
  /\ UNCHANGED <<slots, instances, image, makesDir, vm, tries, result, cpc>>

SlotFree == slots > 0

AcquireSlot(w) ==
  /\ At(w, "slot")
  /\ SlotFree
  /\ slots' = slots - 1
  /\ Goto(w, "check")
  /\ UNCHANGED <<lock, shared, vm, tries, result, reports, cpc>>

(* Mutant of CheckCanceled: the crc is not looked at again.                *)
CheckNothing(w) ==
  /\ At(w, "check")
  /\ Report(w, Res("started", "None", FALSE))
  /\ Goto(w, IF DryRun THEN "execute" ELSE "startVM")
  /\ UNCHANGED <<lock, slots, shared, vm, tries, result, cpc>>

CheckCanceled(w) ==
  /\ At(w, "check")
  /\ IF canceled(w)
     THEN Goto(w, "execute") /\ UNCHANGED reports
     ELSE /\ Report(w, Res("started", "None", FALSE))
          /\ Goto(w, IF DryRun THEN "execute" ELSE "startVM")
  /\ UNCHANGED <<lock, slots, shared, vm, tries, result, cpc>>

(* _start_vm may raise before proc_virtinstall is set.                     *)
StartVM(w) ==
  /\ At(w, "startVM")
  /\ \/ /\ vm' = [vm EXCEPT ![w] = "up"]
        /\ tries' = [tries EXCEPT ![w] = @ + 1]
        /\ Goto(w, "boot")
        /\ UNCHANGED reports
     \/ MayRaise(w, "startVM") /\ UNCHANGED <<vm, tries>>
  /\ UNCHANGED <<lock, slots, shared, result, cpc>>

(* The VM gets an address, or none in time and is started again, or        *)
(* virt-install ended (the VM was stopped, say) with an unexpected error.  *)
Boot(w) ==
  /\ At(w, "boot")
  /\ \/ vm[w] = "up" /\ Goto(w, "webui") /\ UNCHANGED <<vm, reports>>
     \/ /\ IF tries[w] < Tries THEN Goto(w, "startVM") /\ UNCHANGED reports
                               ELSE Fail(w)
        /\ UNCHANGED vm
     \/ /\ vm[w] = "down" \/ "vmErrors" \in Raises
        /\ Fail(w)
        /\ vm' = Stopped(w)
  /\ UNCHANGED <<lock, slots, shared, tries, result, cpc>>

(* The WebUI answers or the crc is canceled; or it does not in time.       *)
WaitForWebUI(w) ==
  /\ At(w, "webui")
  /\ \/ Goto(w, "execute") /\ UNCHANGED reports
     \/ MayRaise(w, "webui")
  /\ UNCHANGED <<lock, slots, shared, vm, tries, result, cpc>>

----------------------------------------------------------------------------
(* execute, dry_execute *)

Execute(w) ==
  /\ At(w, "execute")
  /\ \/ /\ DryRun
        /\ Report(w, Res("complete", "PASS", TRUE))
        /\ Goto(w, "teardown")
     \/ /\ ~DryRun /\ canceled(w)
        /\ Goto(w, "teardown")
        /\ UNCHANGED reports
     \/ /\ ~DryRun /\ ~canceled(w)
        /\ Report(w, Res("running", "None", FALSE))
        /\ Goto(w, "test")
  /\ UNCHANGED <<lock, slots, shared, vm, tries, result, cpc>>

(* A test that does not end in time is killed and counts as failed.        *)
TestEnds(w) ==
  /\ At(w, "test")
  /\ \/ /\ \E outcome \in {"PASS", "FAIL"} :
             Report(w, Res("complete", outcome, TRUE))
        /\ Goto(w, "teardown")
     \/ MayRaise(w, "execute")
  /\ UNCHANGED <<lock, slots, shared, vm, tries, result, cpc>>

----------------------------------------------------------------------------
(* teardown.  An exception in it ends the thread: without a hypervisor, or *)
(* without proc_virtinstall, that is before the slot is released.          *)

(* Mutant of TearDownRaises: a VM that was never started is tolerated.     *)
TearDownTolerates(w) == w \in Unsupported

TearDownRaises(w) ==
  w \in Unsupported \/ (~DryRun /\ ~Debug /\ vm[w] = "none")

TearDown(w) ==
  /\ At(w, "teardown")
  /\ \/ /\ vm' = IF DryRun \/ Debug THEN vm ELSE Stopped(w)
        /\ IF TearDownRaises(w)
           THEN Goto(w, "ended")
           ELSE \/ Goto(w, "release")
                \/ Remote /\ "forwarding" \in Raises /\ Goto(w, "ended")
     \/ "log" \in Raises /\ Goto(w, "ended") /\ UNCHANGED vm
  /\ UNCHANGED <<lock, slots, shared, tries, result, reports, cpc>>

(* Mutant of ReleaseSlot: the slot is not given back.                      *)
KeepSlot(w) ==
  /\ At(w, "release")
  /\ Goto(w, "leave")
  /\ UNCHANGED <<lock, slots, shared, vm, tries, result, reports, cpc>>

ReleaseSlot(w) ==
  /\ At(w, "release")
  /\ slots' = slots + 1
  /\ Goto(w, "leave")
  /\ UNCHANGED <<lock, shared, vm, tries, result, reports, cpc>>

(* Mutant of DirAfter: the directory is removed by whoever leaves.         *)
DirAfterAnyone(b, left) == "removed"

DirAfter(b, left) == IF left[b] = {} THEN "removed" ELSE tempDir[b]

ImageAfter(left) == image /\ \E c \in Branch : left[c] # {}

(* The last one of a branch removes the directory but not its entry in     *)
(* temp_dirs, the last one of all the image.  A workflow that never joined *)
(* raises and changes nothing.                                             *)
LeaveBranch(w) ==
  LET b == branchOf[w]
      left == [instances EXCEPT ![b] = @ \ {w}]
  IN
  /\ At(w, "leave")
  /\ lock = Nobody
  /\ IF w \in instances[b]
     THEN /\ instances' = left
          /\ tempDir' = [tempDir EXCEPT ![b] = DirAfter(b, left)]
          /\ image' = ImageAfter(left)
     ELSE UNCHANGED <<instances, tempDir, image>>
  /\ Goto(w, "ended")
  /\ UNCHANGED <<lock, slots, makesDir, vm, tries, result, reports, cpc>>

----------------------------------------------------------------------------
(* CaseRunConfiguration.cancel.  terminate of this workflow raises for a    *)
(* crc without hypervisor and otherwise answers None.  The copy made before *)
(* is final only if the result is and then the update is refused all the    *)
(* same, so the copy is left out.                                           *)

CancelRequest(w) ==
  /\ cpc[w] = "idle" /\ w \in Cancellable
  /\ ~result[w].final
  /\ cpc' = [cpc EXCEPT ![w] = "terminate"]
  /\ UNCHANGED <<pc, lock, slots, shared, vm, tries, result, reports>>

Terminate(w) ==
  /\ cpc[w] = "terminate"
  /\ vm' = IF DryRun THEN vm ELSE Stopped(w)
  /\ cpc' = [cpc EXCEPT ![w] = IF w \in Unsupported /\ ~DryRun
                               THEN "done" ELSE "check"]
  /\ UNCHANGED <<pc, lock, slots, shared, tries, result, reports>>

Canceled == Res("canceled", "ERROR", FALSE)

Cancel(w) ==
  /\ cpc[w] \in Statement
  /\ result' = [result EXCEPT ![w] = Stored(cpc[w], @, Canceled)]
  /\ cpc' = [cpc EXCEPT ![w] = Following(@, result[w], Canceled, "done")]
  /\ UNCHANGED <<pc, lock, slots, shared, vm, tries, reports>>

----------------------------------------------------------------------------

(* A statement of the update that the workflow's last report is.           *)
UpdateStep(w) ==
  /\ at[w] \in Statement
  /\ result' = [result EXCEPT ![w] = Stored(at[w], @, given[w])]
  /\ at' = [at EXCEPT ![w] = Following(@, result[w], given[w], "idle")]
  /\ UNCHANGED <<pc, lock, slots, shared, vm, tries, given, unlogged, cpc>>

(* A message cannot be written to the log of the crc.                      *)
LogRaises(w) ==
  /\ \/ pc[w] \in {"lock", "slot", "check", "startVM", "boot", "webui", "test"}
     \/ At(w, "execute") /\ (DryRun \/ ~canceled(w))
  /\ MayRaise(w, "log")
  /\ UNCHANGED <<lock, slots, shared, vm, tries, result, cpc>>

Run(w) ==
  \/ Start(w) \/ EnterSetup(w) \/ BuildImage(w) \/ JoinBranch(w) \/ Clone(w)
  \/ AcquireSlot(w) \/ CheckCanceled(w) \/ StartVM(w) \/ Boot(w)
  \/ WaitForWebUI(w) \/ Execute(w) \/ TestEnds(w) \/ LogRaises(w)
  \/ TearDown(w) \/ ReleaseSlot(w) \/ LeaveBranch(w)

Step(w) == UpdateStep(w) \/ (Idle(w) /\ Run(w))

AllEnded == \A w \in Workflow : At(w, "ended")

(* The main thread has joined every workflow.                              *)
Joined == AllEnded /\ UNCHANGED vars

Next ==
  \/ \E w \in Workflow :
       Step(w) \/ CancelRequest(w) \/ Terminate(w) \/ Cancel(w)
  \/ Joined

Spec == Init /\ [][Next]_vars

(* Threads keep running; nobody has to cancel.                             *)
FairSpec == Spec /\ \A w \in Workflow : WF_vars(Step(w))

----------------------------------------------------------------------------
(* Properties *)

(* Where a workflow may use the VM that its slot stands for.               *)
InSlot == {"check", "startVM", "boot", "webui", "execute", "test", "teardown"}

VMsInUse == {w \in Workflow : vm[w] = "up" /\ pc[w] \in InSlot}

(* At most hypervisor_vm_limit VMs are used at once.                       *)
VMLimitObeyed == Cardinality(VMsInUse) <= VMLimit

(* The places of teardown and after it. *)
Late == {"teardown", "release", "leave", "ended"}

(* Past the setup lock and not done with the test.                         *)
UsesShared(w) ==
  pc[w] \in {"slot", "check", "startVM", "boot", "webui", "test"}

(* No teardown removes the directory or the image from under a workflow    *)
(* that still needs it, whichever of them join and leave in between.       *)
NothingRemovedInUse ==
  \A w \in Workflow : UsesShared(w) =>
    /\ tempDir[branchOf[w]] \in {"made", "cloned"}
    /\ UseContainer => image

(* A test runs in a directory with the testing framework, unless the       *)
(* workflow that made the directory failed before its clones were complete, *)
(* and only then: nobody clones again after it.                            *)
RunsWithFramework ==
  \A w \in Workflow : At(w, "test") =>
    \/ tempDir[branchOf[w]] = "cloned"
    \/ \E v \in Workflow :
         branchOf[v] = branchOf[w] /\ makesDir[v] /\ pc[v] \in Late

(* A workflow that ends without a final result was asked to be canceled, or *)
(* could not log that it failed.  Whatever a request stored between the    *)
(* statements of its last report, the crc does not look unfinished: one    *)
(* that has lost its final mark is complete, DNF or canceled.              *)
EndsDecided ==
  \A w \in Workflow \ unlogged : At(w, "ended") =>
    /\ result[w].final \/ cpc[w] # "idle"
    /\ result[w].state \in {"canceled", "complete", "DNF"}

(* A crc canceled while its workflow waits for a slot gets no VM.          *)
CanceledGetsNoVM ==
  \A w \in Workflow :
    [](At(w, "slot") /\ canceled(w) => [](vm[w] # "up"))

(* Nobody waits for a VM slot for ever.                                    *)
SlotComes == \A w \in Workflow : At(w, "slot") ~> ~At(w, "slot")
=============================================================================

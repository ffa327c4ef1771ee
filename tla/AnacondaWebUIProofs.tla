-------------------------- MODULE AnacondaWebUIProofs --------------------------
(***************************************************************************)
(* For any number of workflows, branches and slots: the types, that no     *)
(* directory or image is removed in use, that the VMs in use never exceed  *)
(* the limit unless the debug setting is on, that a test finds the testing *)
(* framework unless the workflow that was to clone it failed, what a       *)
(* workflow that ends has stored in its result, and that a crc canceled    *)
(* before its slot came gets no VM.                                        *)
(***************************************************************************)
EXTENDS AnacondaWebUI, FiniteSetTheorems, TLAPS

LEMMA ResIsResult ==
  ASSUME NEW s \in State, NEW o \in Outcome, NEW f \in BOOLEAN
  PROVE  Res(s, o, f) \in Result
BY DEF Res, Result

(* A statement of an update leaves a result, and another statement or its  *)
(* end follows.                                                            *)
LEMMA StoredIsResult ==
  ASSUME NEW statement \in Statement, NEW r \in Result, NEW u \in Result
  PROVE  Stored(statement, r, u) \in Result
BY DEF Stored, Statement, Result, Res, Worst

LEMMA FollowingIsPlace ==
  ASSUME NEW statement \in Statement, NEW r, NEW u, NEW end
  PROVE  Following(statement, r, u, end) \in Statement \union {end}
BY DEF Following, Statement

Places == {"new", "lock", "container", "join", "clone", "slot", "check",
           "startVM", "boot", "webui", "execute", "test", "teardown",
           "release", "leave", "ended"}

(* What a step of the workflow, not of its update, does to its reports.    *)
Reporting(v) ==
  \/ UNCHANGED reports
  \/ \E r \in Result : Report(v, r)
  \/ unlogged' = unlogged \union {v} /\ UNCHANGED <<at, given>>

LEMMA FailReports ==
  ASSUME NEW v \in Workflow, Fail(v)
  PROVE  Reporting(v) /\ Goto(v, "teardown")
BY ResIsResult DEF Fail, Reporting, State, Outcome

(* Every step of the workflow reports in one of these ways and moves to a  *)
(* place of its own; the result is left to the steps of the update.        *)
LEMMA RunMoves ==
  ASSUME NEW v \in Workflow, Run(v)
  PROVE  /\ Reporting(v)
         /\ \E place \in Places : Goto(v, place)
         /\ UNCHANGED <<result, cpc>>
<1> USE DEF Places
<1>1. CASE Fail(v)
  <2>1. UNCHANGED <<result, cpc>>
    BY DEF Run, Start, EnterSetup, BuildImage, JoinBranch, Clone, AcquireSlot,
           CheckCanceled, StartVM, Boot, WaitForWebUI, Execute, TestEnds,
           LogRaises, TearDown, ReleaseSlot, LeaveBranch
  <2> QED BY <1>1, <2>1, FailReports
<1>2. CASE Start(v) /\ ~Fail(v) BY <1>2 DEF Start, Reporting
<1>3. CASE EnterSetup(v) /\ ~Fail(v) BY <1>3 DEF EnterSetup, Reporting
<1>4. CASE BuildImage(v) /\ ~Fail(v)
  BY <1>4 DEF BuildImage, MayRaise, Reporting
<1>5. CASE JoinBranch(v) /\ ~Fail(v)
  BY <1>5 DEF JoinBranch, Reporting
<1>6. CASE Clone(v) /\ ~Fail(v) BY <1>6 DEF Clone, MayRaise, Reporting
<1>7. CASE AcquireSlot(v) /\ ~Fail(v) BY <1>7 DEF AcquireSlot, Reporting
<1>8. CASE CheckCanceled(v) /\ ~Fail(v)
  BY <1>8, ResIsResult DEF CheckCanceled, Reporting, State, Outcome
<1>9. CASE StartVM(v) /\ ~Fail(v) BY <1>9 DEF StartVM, MayRaise, Reporting
<1>10. CASE Boot(v) /\ ~Fail(v) BY <1>10 DEF Boot, Reporting
<1>11. CASE WaitForWebUI(v) /\ ~Fail(v)
  BY <1>11 DEF WaitForWebUI, MayRaise, Reporting
<1>12. CASE Execute(v) /\ ~Fail(v)
  BY <1>12, ResIsResult DEF Execute, Reporting, State, Outcome
<1>13. CASE TestEnds(v) /\ ~Fail(v)
  BY <1>13, ResIsResult DEF TestEnds, MayRaise, Reporting, State, Outcome
<1>14. CASE LogRaises(v) /\ ~Fail(v) BY <1>14 DEF LogRaises, MayRaise
<1>15. CASE TearDown(v) /\ ~Fail(v) BY <1>15 DEF TearDown, Reporting
<1>16. CASE ReleaseSlot(v) /\ ~Fail(v) BY <1>16 DEF ReleaseSlot, Reporting
<1>17. CASE LeaveBranch(v) /\ ~Fail(v) BY <1>17 DEF LeaveBranch, Reporting
<1> QED
  BY <1>1, <1>2, <1>3, <1>4, <1>5, <1>6, <1>7, <1>8, <1>9, <1>10, <1>11,
     <1>12, <1>13, <1>14, <1>15, <1>16, <1>17 DEF Run

ReportsTypeOK ==
  /\ at \in [Workflow -> Statement \union {"idle"}]
  /\ given \in [Workflow -> Result]
  /\ unlogged \in SUBSET Workflow

(* What a step of v leaves alone: the other workflows' places and reports. *)
LEMMA RunFrame ==
  ASSUME TypeOK, NEW v \in Workflow, Run(v)
  PROVE  /\ pc' \in [Workflow -> Places]
         /\ ReportsTypeOK'
         /\ result' = result /\ cpc' = cpc
         /\ \A w \in Workflow \ {v} :
              /\ pc'[w] = pc[w] /\ at'[w] = at[w] /\ given'[w] = given[w]
              /\ w \in unlogged' <=> w \in unlogged
<1>1. PICK place \in Places : Goto(v, place) BY RunMoves
<1>2. /\ pc' \in [Workflow -> Places]
      /\ \A w \in Workflow \ {v} : pc'[w] = pc[w]
  BY <1>1 DEF Goto, TypeOK, Places
<1>3. /\ ReportsTypeOK'
      /\ \A w \in Workflow \ {v} :
              /\ at'[w] = at[w] /\ given'[w] = given[w]
              /\ w \in unlogged' <=> w \in unlogged
  <2>1. CASE UNCHANGED reports BY <2>1 DEF reports, ReportsTypeOK, TypeOK
  <2>2. CASE \E r \in Result : Report(v, r)
    BY <2>2 DEF Report, ReportsTypeOK, TypeOK, Statement
  <2>3. CASE unlogged' = unlogged \union {v} /\ UNCHANGED <<at, given>>
    BY <2>3 DEF ReportsTypeOK, TypeOK
  <2> QED BY <2>1, <2>2, <2>3, RunMoves DEF Reporting
<1> QED BY <1>2, <1>3, RunMoves

(* The statements of the updates, of the workflow or of a request.         *)
Elsewhere(v) == UpdateStep(v) \/ CancelRequest(v) \/ Terminate(v) \/ Cancel(v)

(* They leave the workflows where they are; an update that the workflow    *)
(* waits for is not over before, and a request leaves that alone.          *)
LEMMA ElsewhereFrame ==
  ASSUME TypeOK, NEW v \in Workflow, Elsewhere(v)
  PROVE  /\ pc' = pc /\ lock' = lock /\ slots' = slots
         /\ UNCHANGED shared
         /\ vm' = vm \/ vm' = Stopped(v)
         /\ \A w \in Workflow : Idle(w) => result'[w].state \in {result[w].state, "canceled"}
         /\ \A w \in Workflow : canceled(w) /\ Idle(w) => (canceled(w) /\ Idle(w))'
<1>1. ASSUME NEW w \in Workflow
      PROVE  /\ Idle(w) => result'[w].state \in {result[w].state, "canceled"}
             /\ Idle(w) => Idle(w)'
  <2>1. CASE UpdateStep(v)
    <3>1. v = w => ~Idle(w) BY <2>1 DEF UpdateStep, Idle, Statement
    <3>2. v # w => result'[w] = result[w] /\ at'[w] = at[w]
      BY <2>1 DEF UpdateStep, TypeOK
    <3> QED BY <3>1, <3>2 DEF Idle
  <2>2. CASE Cancel(v)
    <3>1. at' = at BY <2>2 DEF Cancel, reports
    <3>2. w # v => result'[w] = result[w] BY <2>2 DEF Cancel, TypeOK
    <3>3. result'[v] = Stored(cpc[v], result[v], Canceled)
      BY <2>2 DEF Cancel, TypeOK
    <3>4. result'[v].state \in {result[v].state, "canceled"}
      BY <2>2, <3>3 DEF Cancel, Stored, Canceled, Res, TypeOK, Result, Statement
    <3> QED BY <3>1, <3>2, <3>4 DEF Idle
  <2>3. CASE CancelRequest(v) \/ Terminate(v)
    BY <2>3 DEF CancelRequest, Terminate, reports, Idle
  <2> QED BY <2>1, <2>2, <2>3 DEF Elsewhere
<1>2. /\ pc' = pc /\ lock' = lock /\ slots' = slots /\ UNCHANGED shared
      /\ vm' = vm \/ vm' = Stopped(v)
  BY DEF Elsewhere, UpdateStep, CancelRequest, Terminate, Cancel
<1> QED BY <1>1, <1>2 DEF canceled

LEMMA ElsewhereType ==
  ASSUME TypeOK, NEW v \in Workflow, Elsewhere(v)
  PROVE  TypeOK'
<1>1. Canceled \in Result BY ResIsResult DEF Canceled, State, Outcome
<1>2. vm' \in [Workflow -> {"none", "up", "down"}]
  BY ElsewhereFrame DEF TypeOK, Stopped
<1>3. CASE UpdateStep(v)
  <2>1. at[v] \in Statement /\ result[v] \in Result /\ given[v] \in Result
    BY <1>3 DEF UpdateStep, TypeOK
  <2>2. Stored(at[v], result[v], given[v]) \in Result BY <2>1, StoredIsResult
  <2>3. result' \in [Workflow -> Result] BY <1>3, <2>2 DEF UpdateStep, TypeOK
  <2>4. Following(at[v], result[v], given[v], "idle") \in Statement \union {"idle"}
    BY <2>1, FollowingIsPlace
  <2>5. at' \in [Workflow -> Statement \union {"idle"}]
    BY <1>3, <2>4 DEF UpdateStep, TypeOK
  <2> QED BY <1>3, <2>3, <2>5 DEF UpdateStep, TypeOK, shared
<1>4. CASE Cancel(v)
  <2>1. cpc[v] \in Statement /\ result[v] \in Result BY <1>4 DEF Cancel, TypeOK
  <2>2. Stored(cpc[v], result[v], Canceled) \in Result
    BY <1>1, <2>1, StoredIsResult
  <2>3. result' \in [Workflow -> Result] BY <1>4, <2>2 DEF Cancel, TypeOK
  <2>4. Following(cpc[v], result[v], Canceled, "done")
          \in Statement \union {"idle", "terminate", "done"}
    BY <2>1, FollowingIsPlace
  <2>5. cpc' \in [Workflow -> Statement \union {"idle", "terminate", "done"}]
    BY <1>4, <2>4 DEF Cancel, TypeOK
  <2> QED BY <1>4, <2>3, <2>5 DEF Cancel, TypeOK, shared, reports
<1>5. CASE CancelRequest(v) \/ Terminate(v)
  <2>1. cpc' \in [Workflow -> Statement \union {"idle", "terminate", "done"}]
    BY <1>5 DEF CancelRequest, Terminate, TypeOK, Statement
  <2> QED
    BY <1>2, <1>5, <2>1 DEF CancelRequest, Terminate, TypeOK, shared, reports
<1> QED BY <1>3, <1>4, <1>5 DEF Elsewhere

(* The next step is one of a workflow between its updates, or one of these.*)
LEMMA NextCases ==
  ASSUME [Next]_vars
  PROVE  \/ \E v \in Workflow : Idle(v) /\ Run(v)
         \/ \E v \in Workflow : Elsewhere(v)
         \/ UNCHANGED vars
BY DEF Next, Step, Elsewhere, Joined

LEMMA RunType ==
  ASSUME TypeOK, NEW w \in Workflow, Run(w)
  PROVE  TypeOK'
<1> USE WebUIAssumption
<1> DEFINE TempOK == tempDir' \in [Branch -> {"none", "made", "cloned", "removed"}]
           InstOK == instances' \in [Branch -> SUBSET Workflow]
           VMOK == vm' \in [Workflow -> {"none", "up", "down"}]
           LockOK == lock' \in Workflow \union {Nobody}
           MakesOK == makesDir' \in [Workflow -> BOOLEAN]
           TriesOK == tries' \in [Workflow -> Nat]
           RestOK == /\ TempOK /\ InstOK /\ VMOK /\ LockOK /\ MakesOK /\ TriesOK
                     /\ slots' \in Nat /\ image' \in BOOLEAN
<1>1. RestOK => TypeOK'
  <2>1. /\ pc' \in [Workflow -> Places] /\ ReportsTypeOK'
        /\ result' = result /\ cpc' = cpc
    BY RunFrame
  <2> QED BY <2>1 DEF TypeOK, ReportsTypeOK, Places
<1>2. CASE \/ Start(w) \/ CheckCanceled(w) \/ WaitForWebUI(w) \/ Execute(w)
           \/ TestEnds(w) \/ LogRaises(w)
  <2>1. UNCHANGED <<lock, slots, shared, vm, tries>>
    BY <1>2 DEF Start, CheckCanceled, WaitForWebUI, Execute, TestEnds, LogRaises
  <2>2. RestOK BY <2>1 DEF TypeOK, shared
  <2> QED BY <1>1, <2>2
<1>3. CASE EnterSetup(w)
  <2>1. RestOK BY <1>3 DEF EnterSetup, TypeOK, shared
  <2> QED BY <1>1, <2>1
<1>4. CASE BuildImage(w)
  <2>1. RestOK BY <1>4 DEF BuildImage, TypeOK
  <2> QED BY <1>1, <2>1
<1>5. CASE JoinBranch(w)
  <2>1. RestOK BY <1>5 DEF JoinBranch, CloneNeeded, TypeOK
  <2> QED BY <1>1, <2>1
<1>6. CASE Clone(w)
  <2>1. TempOK BY <1>6 DEF Clone, TypeOK
  <2>2. RestOK BY <1>6, <2>1 DEF Clone, TypeOK
  <2> QED BY <1>1, <2>2
<1>7. CASE AcquireSlot(w) \/ ReleaseSlot(w)
  <2>1. slots' \in Nat BY <1>7 DEF AcquireSlot, ReleaseSlot, SlotFree, TypeOK
  <2>2. RestOK BY <1>7, <2>1 DEF AcquireSlot, ReleaseSlot, TypeOK, shared
  <2> QED BY <1>1, <2>2
<1>8. CASE StartVM(w)
  <2>1. VMOK /\ TriesOK BY <1>8 DEF StartVM, TypeOK
  <2>2. RestOK BY <1>8, <2>1 DEF StartVM, TypeOK, shared
  <2> QED BY <1>1, <2>2
<1>9. CASE Boot(w) \/ TearDown(w)
  <2>1. VMOK BY <1>9 DEF Boot, TearDown, Stopped, TypeOK
  <2>2. RestOK BY <1>9, <2>1 DEF Boot, TearDown, TypeOK, shared
  <2> QED BY <1>1, <2>2
<1>10. CASE LeaveBranch(w)
  <2>1. branchOf[w] \in Branch OBVIOUS
  <2>2. InstOK BY <1>10, <2>1 DEF LeaveBranch, TypeOK
  <2>3. TempOK BY <1>10, <2>1 DEF LeaveBranch, DirAfter, TypeOK
  <2>4. image' \in BOOLEAN BY <1>10 DEF LeaveBranch, ImageAfter, TypeOK
  <2>5. RestOK BY <1>10, <2>2, <2>3, <2>4 DEF LeaveBranch, TypeOK
  <2> QED BY <1>1, <2>5
<1> QED
  BY <1>2, <1>3, <1>4, <1>5, <1>6, <1>7, <1>8, <1>9, <1>10 DEF Run

(* The type invariant is inductive.                                        *)
LEMMA TypeStep ==
  ASSUME TypeOK, [Next]_vars
  PROVE  TypeOK'
<1>1. CASE UNCHANGED vars BY <1>1 DEF vars, reports, TypeOK
<1> QED BY <1>1, NextCases, RunType, ElsewhereType

LEMMA InitTypeOK == Init => TypeOK
<1>1. NotStarted \in Result BY ResIsResult DEF NotStarted, State, Outcome
<1>2. Init => /\ makesDir \in [Workflow -> BOOLEAN]
              /\ image \in BOOLEAN
  <2>1. Init => makesDir \in [Workflow -> BOOLEAN] BY Zenon DEF Init
  <2>2. Init => image \in BOOLEAN BY Zenon DEF Init
  <2> QED BY <2>1, <2>2
<1>3. Init => /\ result \in [Workflow -> Result]
              /\ given \in [Workflow -> Result]
  BY <1>1 DEF Init
<1> QED BY <1>2, <1>3, WebUIAssumption DEF Init, TypeOK

(* The state of the workflows, the locks and the files has its type.       *)
THEOREM WebUITypeCorrect == Spec => []TypeOK
BY InitTypeOK, TypeStep, PTL DEF Spec

----------------------------------------------------------------------------
(* Nothing is removed in use *)

(* The crc is canceled and the workflow will see it: no report of its own  *)
(* is on the way that would still change the state.                        *)
Settled(w) == canceled(w) /\ Idle(w)

(* The workflow will use the directory: it is past setup, or about to run  *)
(* the test; one that left setup because it was canceled will not.         *)
Needs(w) ==
  \/ UsesShared(w)
  \/ At(w, "execute") /\ ~DryRun /\ ~Settled(w)

Inside(w) == pc[w] \in {"container", "join", "clone"}

LockHeld == \A w \in Workflow : Inside(w) => lock = w

Registered ==
  \A w \in Workflow : At(w, "clone") \/ Needs(w) => w \in instances[branchOf[w]]

DirThere ==
  \A w \in Workflow :
    /\ At(w, "clone") => tempDir[branchOf[w]] # "none"
    /\ Needs(w) => tempDir[branchOf[w]] \in {"made", "cloned"}

ImageThere ==
  UseContainer =>
    \A w \in Workflow : pc[w] \in {"join", "clone"} \/ Needs(w) => image

SharedInv == TypeOK /\ LockHeld /\ Registered /\ DirThere /\ ImageThere

(* The others stay where they are, and those done with the shared files    *)
(* remain so.                                                              *)
OthersStay(v) ==
  \A w \in Workflow \ {v} : pc'[w] = pc[w] /\ (Needs(w)' => Needs(w))

LEMMA OthersOfRun ==
  ASSUME TypeOK, NEW v \in Workflow, Run(v)
  PROVE  OthersStay(v)
BY RunFrame DEF OthersStay, Needs, UsesShared, At, Settled, canceled, Idle

LEMMA ElsewhereNeeds ==
  ASSUME TypeOK, NEW v \in Workflow, Elsewhere(v), NEW w \in Workflow
  PROVE  Needs(w)' => Needs(w)
<1>1. pc' = pc BY ElsewhereFrame
<1>2. Settled(w) => Settled(w)' BY ElsewhereFrame DEF Settled
<1> QED BY <1>1, <1>2 DEF Needs, UsesShared, At

(* A step of v that leaves the shared files alone and after which v needs  *)
(* nothing it did not need before.                                         *)
Quiet(v) ==
  /\ UNCHANGED <<instances, tempDir, image>>
  /\ OthersStay(v)
  /\ Needs(v)' => Needs(v)
  /\ At(v, "clone")' => At(v, "clone")
  /\ pc'[v] \in {"join", "clone"} => pc[v] \in {"join", "clone"}
  /\ Inside(v)' => lock' = v
  /\ \A w \in Workflow \ {v} : Inside(w) => lock' = w

LEMMA QuietStep ==
  ASSUME SharedInv, NEW v \in Workflow, Quiet(v), TypeOK'
  PROVE  SharedInv'
<1>1. ASSUME NEW w \in Workflow \ {v}
      PROVE  /\ Needs(w)' => Needs(w)
             /\ pc'[w] = pc[w]
  BY DEF Quiet, OthersStay
<1>2. LockHeld' BY <1>1 DEF SharedInv, LockHeld, Inside, Quiet
<1>3. Registered' BY <1>1 DEF SharedInv, Registered, Quiet, At
<1>4. DirThere' BY <1>1 DEF SharedInv, DirThere, Quiet, At
<1>5. ImageThere' BY <1>1 DEF SharedInv, ImageThere, Quiet
<1> QED BY <1>2, <1>3, <1>4, <1>5 DEF SharedInv

(* v goes to a place where it needs nothing.                               *)
LEMMA IdleStep ==
  ASSUME SharedInv, NEW v \in Workflow, TypeOK', Run(v),
         NEW place \in {"lock"} \union Late, Goto(v, place),
         UNCHANGED <<instances, tempDir, image>>,
         \A w \in Workflow \ {v} : Inside(w) => lock' = w
  PROVE  SharedInv'
<1>1. TypeOK BY DEF SharedInv
<1>2. OthersStay(v) BY <1>1, OthersOfRun
<1>3. pc'[v] = place BY <1>1 DEF Goto, TypeOK
<1>4. Quiet(v)
  BY <1>2, <1>3 DEF Quiet, Late, Needs, UsesShared, At, Inside
<1> QED BY <1>4, QuietStep

(* v goes on among the places after the lock of setup.                     *)
LEMMA OnwardStep ==
  ASSUME SharedInv, NEW v \in Workflow, TypeOK', Run(v),
         NEW place \in {"slot", "check", "startVM", "boot", "webui", "execute",
                        "test"} \union Late,
         Goto(v, place), Needs(v)' => Needs(v),
         UNCHANGED <<lock, instances, tempDir, image>>
  PROVE  SharedInv'
<1>1. TypeOK BY DEF SharedInv
<1>2. OthersStay(v) BY <1>1, OthersOfRun
<1>3. pc'[v] = place BY <1>1 DEF Goto, TypeOK
<1>4. Quiet(v)
  BY <1>2, <1>3 DEF Quiet, Late, At, Inside, SharedInv, LockHeld
<1> QED BY <1>4, QuietStep

LEMMA SharedRun ==
  ASSUME SharedInv, NEW v \in Workflow, Idle(v), Run(v)
  PROVE  SharedInv'
<1>0. TypeOK /\ TypeOK' BY RunType DEF SharedInv
<1>a. OthersStay(v) BY <1>0, OthersOfRun
<1>b. result' = result BY RunFrame, <1>0
<1>c. \A w \in Workflow \ {v} : pc'[w] = pc[w] BY <1>a DEF OthersStay
<1>2. ASSUME Fail(v), UNCHANGED <<instances, tempDir, image>>,
             \A w \in Workflow \ {v} : Inside(w) => lock' = w
      PROVE  SharedInv'
  <2>1. Goto(v, "teardown") BY <1>2 DEF Fail
  <2> QED BY <1>0, <1>2, <2>1, IdleStep DEF Late
<1>3. \A w \in Workflow : Inside(w) /\ Inside(v) => v = w
  BY DEF SharedInv, LockHeld
<1>4. lock = Nobody => \A w \in Workflow : ~Inside(w)
  BY WebUIAssumption DEF SharedInv, LockHeld
<1>5. \A w \in Workflow \ {v} : lock' = lock /\ Inside(w) => lock' = w
  BY DEF SharedInv, LockHeld
<1>6. CASE Start(v)
  <2>1. CASE Fail(v) BY <1>2, <1>5, <1>6, <2>1 DEF Start, shared
  <2>2. CASE Goto(v, "lock") BY <1>0, <1>5, <1>6, <2>2, IdleStep DEF Start, shared
  <2> QED BY <1>6, <2>1, <2>2 DEF Start
<1>7. CASE EnterSetup(v)
  <2>1. CASE canceled(v) /\ Goto(v, "execute") /\ lock' = lock
    <3>1. Settled(v)' BY <1>7, <2>1 DEF EnterSetup, Settled, canceled, Idle, reports
    <3>2. pc'[v] = "execute" BY <1>0, <2>1 DEF Goto, TypeOK
    <3>3. ~Needs(v)' BY <3>1, <3>2 DEF Needs, UsesShared, At
    <3> QED BY <1>0, <1>7, <2>1, <3>3, OnwardStep DEF EnterSetup, shared
  <2>2. CASE Goto(v, "container") /\ lock' = v
    <3>1. pc'[v] = "container" BY <1>0, <2>2 DEF Goto, TypeOK
    <3>2. \A w \in Workflow : ~Inside(w) BY <1>4, <1>7 DEF EnterSetup
    <3>3. Quiet(v)
      BY <1>7, <1>a, <2>2, <3>1, <3>2
         DEF EnterSetup, Quiet, Needs, UsesShared, At, shared
    <3> QED BY <1>0, <3>3, QuietStep
  <2> QED BY <1>7, <2>1, <2>2 DEF EnterSetup
<1>8. CASE BuildImage(v)
  <2>1. CASE Fail(v) /\ UNCHANGED image
    BY <1>2, <1>3, <1>8, <2>1 DEF BuildImage, Inside, At
  <2>2. CASE Goto(v, "join") /\ image' = (image \/ UseContainer) /\ lock' = lock
    <3>1. instances' = instances /\ tempDir' = tempDir
      BY <1>8 DEF BuildImage
    <3>3. pc[v] = "container" /\ pc'[v] = "join"
      BY <1>0, <1>8, <2>2 DEF BuildImage, Goto, At, TypeOK
    <3>4. ~Needs(v)' BY <3>3 DEF Needs, UsesShared, At
    <3>5. \A w \in Workflow : Needs(w)' => Needs(w)
      BY <1>a, <3>4 DEF OthersStay
    <3>6. LockHeld'
      BY <1>c, <2>2, <3>3 DEF SharedInv, LockHeld, Inside
    <3>7. Registered'
      BY <1>c, <3>1, <3>3, <3>5 DEF SharedInv, Registered, At
    <3>8. DirThere'
      BY <1>c, <3>1, <3>3, <3>5 DEF SharedInv, DirThere, At
    <3>9. ImageThere'
      <4>1. UseContainer => image' BY <2>2, Zenon
      <4> QED BY <4>1 DEF ImageThere
    <3> QED BY <1>0, <3>6, <3>7, <3>8, <3>9 DEF SharedInv
  <2> QED BY <1>8, <2>1, <2>2 DEF BuildImage, MayRaise
<1>9. CASE JoinBranch(v)
  <2>1. branchOf[v] \in Branch BY WebUIAssumption
  <2>2. /\ pc[v] = "join" /\ pc'[v] = "clone"
        /\ lock' = lock /\ image' = image
        /\ \A b \in Branch : instances[b] \subseteq instances'[b]
        /\ v \in instances'[branchOf[v]]
        /\ \A b \in Branch : tempDir[b] # "none" => tempDir'[b] = tempDir[b]
        /\ tempDir'[branchOf[v]] # "none"
    BY <1>0, <1>9, <2>1 DEF JoinBranch, Goto, At, TypeOK
  <2>3. ~Needs(v)' BY <2>2 DEF Needs, UsesShared, At
  <2>4. \A w \in Workflow : Needs(w)' => Needs(w) BY <1>a, <2>3 DEF OthersStay
  <2>5. LockHeld' BY <1>c, <2>2 DEF SharedInv, LockHeld, Inside
  <2>6. Registered'
    BY <1>c, <2>2, <2>4, WebUIAssumption DEF SharedInv, Registered, At
  <2>7. DirThere'
    BY <1>c, <2>2, <2>4, WebUIAssumption DEF SharedInv, DirThere, At
  <2>8. ImageThere' BY <1>c, <2>2, <2>4 DEF SharedInv, ImageThere
  <2> QED BY <1>0, <2>5, <2>6, <2>7, <2>8 DEF SharedInv
<1>10. CASE Clone(v)
  <2>1. \A w \in Workflow \ {v} : ~Inside(w) BY <1>3, <1>10 DEF Clone, Inside, At
  <2>2. CASE Fail(v) /\ UNCHANGED tempDir
    BY <1>2, <1>10, <2>1, <2>2 DEF Clone
  <2>3. CASE tempDir[branchOf[v]] # "removed"
    <3>1. tempDir[branchOf[v]] \in {"made", "cloned"}
      BY <1>0, <1>10, <2>3, WebUIAssumption DEF Clone, SharedInv, DirThere, TypeOK
    <3>2. \A b \in Branch : \/ tempDir'[b] = tempDir[b]
                            \/ b = branchOf[v] /\ tempDir'[b] = "cloned"
      BY <1>0, <1>10, <2>3 DEF Clone, TypeOK
    <3>3. pc'[v] \in {"slot", "teardown"} /\ UNCHANGED <<instances, image>>
      <4>1. PICK place \in {"slot", "teardown"} : Goto(v, place)
        BY <1>10, <2>3 DEF Clone, MayRaise, Fail
      <4> QED BY <1>0, <1>10, <4>1 DEF Clone, Goto, TypeOK
    <3>4. \A w \in Workflow \ {v} : Needs(w)' => Needs(w) BY <1>a DEF OthersStay
    <3>5. pc[v] = "clone" BY <1>10 DEF Clone, At
    <3>6. LockHeld' BY <1>c, <2>1, <3>3 DEF LockHeld, Inside
    <3>7. Registered'
      BY <1>c, <3>3, <3>4, <3>5 DEF SharedInv, Registered, At
    <3>8. DirThere'
      BY <1>c, <3>1, <3>2, <3>3, <3>4, WebUIAssumption
         DEF SharedInv, DirThere, At
    <3>9. ImageThere' BY <1>c, <3>3, <3>4, <3>5 DEF SharedInv, ImageThere
    <3> QED BY <1>0, <3>6, <3>7, <3>8, <3>9 DEF SharedInv
  <2> QED BY <1>10, <2>2, <2>3 DEF Clone
<1>11. CASE \/ AcquireSlot(v) \/ CheckCanceled(v) \/ StartVM(v) \/ Boot(v)
            \/ WaitForWebUI(v)
  <2>1. PICK place \in {"check", "execute", "startVM", "boot", "webui",
                        "teardown"} : Goto(v, place)
    BY <1>11 DEF AcquireSlot, CheckCanceled, StartVM, Boot, WaitForWebUI,
                 MayRaise, Fail
  <2>2. Needs(v)
    BY <1>11 DEF AcquireSlot, CheckCanceled, StartVM, Boot, WaitForWebUI,
                 Needs, UsesShared, At
  <2>3. UNCHANGED <<lock, instances, tempDir, image>>
    BY <1>11 DEF AcquireSlot, CheckCanceled, StartVM, Boot, WaitForWebUI, shared
  <2> QED BY <1>0, <2>1, <2>2, <2>3, OnwardStep DEF Late
<1>12. CASE Execute(v)
  <2>1. \/ Goto(v, "teardown") 
        \/ Goto(v, "test") /\ Needs(v)
    BY <1>12 DEF Execute, Needs, Settled
  <2>2. UNCHANGED <<lock, instances, tempDir, image>>
    BY <1>12 DEF Execute, shared
  <2>3. CASE Goto(v, "teardown")
    BY <1>0, <1>5, <2>2, <2>3, IdleStep DEF Late
  <2>4. CASE Goto(v, "test") /\ Needs(v)
    BY <1>0, <2>2, <2>4, OnwardStep
  <2> QED BY <2>1, <2>3, <2>4
<1>13. CASE TestEnds(v) \/ LogRaises(v) \/ TearDown(v) \/ ReleaseSlot(v)
  <2>1. PICK place \in Late : Goto(v, place)
    BY <1>13 DEF TestEnds, LogRaises, TearDown, ReleaseSlot, MayRaise, Fail, Late
  <2>2. UNCHANGED <<lock, instances, tempDir, image>>
    BY <1>13 DEF TestEnds, LogRaises, TearDown, ReleaseSlot, shared
  <2> QED BY <1>0, <1>5, <2>1, <2>2, IdleStep
<1>14. CASE LeaveBranch(v)
  <2>0. Goto(v, "ended") /\ lock' = lock /\ lock = Nobody
    BY <1>14 DEF LeaveBranch
  <2>1. CASE v \notin instances[branchOf[v]]
    BY <1>0, <1>5, <1>14, <2>0, <2>1, IdleStep DEF LeaveBranch, Late
  <2>2. CASE v \in instances[branchOf[v]]
    <3>1. /\ pc'[v] = "ended"
          /\ \A w \in Workflow : ~Inside(w)
      BY <1>0, <1>4, <2>0 DEF Goto, TypeOK
    <3>2. \A w \in Workflow : ~Inside(w)' /\ ~At(w, "clone")'
      BY <1>c, <3>1 DEF Inside, At
    <3>3. \A w \in Workflow : Needs(w)' => w # v /\ Needs(w)
      BY <1>a, <3>1 DEF OthersStay, Needs, UsesShared, At
    <3>4. \A w \in Workflow : Needs(w)' => w \in instances'[branchOf[w]]
      <4>1. \A w \in Workflow \ {v} : \A b \in Branch :
              w \in instances[b] => w \in instances'[b]
        BY <1>0, <1>14, <2>2, WebUIAssumption DEF LeaveBranch, TypeOK
      <4>2. \A w \in Workflow : Needs(w)' => w \in instances[branchOf[w]]
        BY <3>3 DEF SharedInv, Registered
      <4> QED BY <3>3, <4>1, <4>2, WebUIAssumption
    <3>5. \A b \in Branch : instances'[b] # {} => tempDir'[b] = tempDir[b]
      BY <1>0, <1>14, <2>2, WebUIAssumption DEF LeaveBranch, DirAfter, TypeOK
    <3>6. (\E b \in Branch : instances'[b] # {}) => image' = image
      BY <1>0, <1>14, <2>2 DEF LeaveBranch, ImageAfter, TypeOK
    <3>7. LockHeld' /\ Registered' BY <3>2, <3>4 DEF LockHeld, Registered
    <3>8. DirThere'
      BY <3>2, <3>3, <3>4, <3>5, WebUIAssumption DEF SharedInv, DirThere
    <3>9. ImageThere'
      BY <3>2, <3>3, <3>4, <3>6, WebUIAssumption
         DEF SharedInv, ImageThere, Inside
    <3> QED BY <1>0, <3>7, <3>8, <3>9 DEF SharedInv
  <2> QED BY <2>1, <2>2
<1> QED
  BY <1>6, <1>7, <1>8, <1>9, <1>10, <1>11, <1>12, <1>13, <1>14 DEF Run

LEMMA SharedStep ==
  ASSUME SharedInv, [Next]_vars
  PROVE  SharedInv'
<1>0. TypeOK /\ TypeOK' BY TypeStep DEF SharedInv
<1>1. CASE UNCHANGED vars
  BY <1>0, <1>1 DEF vars, reports, shared, SharedInv, LockHeld, Registered,
     DirThere, ImageThere, Needs, UsesShared, Inside, At, Settled, canceled, Idle
<1>2. ASSUME NEW v \in Workflow, Elsewhere(v) PROVE SharedInv'
  <2>1. pc' = pc /\ lock' = lock /\ UNCHANGED <<instances, tempDir, image>>
    BY <1>0, <1>2, ElsewhereFrame DEF shared
  <2>2. \A w \in Workflow : Needs(w)' => Needs(w) BY <1>0, <1>2, ElsewhereNeeds
  <2>3. LockHeld' BY <2>1 DEF SharedInv, LockHeld, Inside
  <2>4. Registered' BY <2>1, <2>2 DEF SharedInv, Registered, At
  <2>5. DirThere' BY <2>1, <2>2 DEF SharedInv, DirThere, At
  <2>6. ImageThere' BY <2>1, <2>2 DEF SharedInv, ImageThere
  <2> QED BY <1>0, <2>3, <2>4, <2>5, <2>6 DEF SharedInv
<1> QED BY <1>1, <1>2, NextCases, SharedRun

(* No teardown removes the directory or the image from under a workflow    *)
(* that still needs it.                                                    *)
THEOREM NothingIsRemovedInUse == Spec => []NothingRemovedInUse
<1>1. Init => SharedInv
  <2>1. Init => TypeOK BY InitTypeOK
  <2> QED
    BY <2>1 DEF Init, SharedInv, LockHeld, Registered, DirThere, ImageThere,
                Needs, UsesShared, Inside, At
<1>2. SharedInv /\ [Next]_vars => SharedInv' BY SharedStep
<1>3. SharedInv => NothingRemovedInUse
  BY DEF SharedInv, DirThere, ImageThere, Needs, NothingRemovedInUse
<1> QED BY <1>1, <1>2, <1>3, PTL DEF Spec

----------------------------------------------------------------------------
(* The limit of VMs *)

(* w holds a slot that its teardown will give back.  A workflow that never *)
(* started a VM is not counted once it is past the loop of setup: its slot *)
(* is lost, which costs a slot but never adds one.                         *)
HoldsSlot(w) ==
  \/ pc[w] \in {"check", "startVM", "boot", "webui"}
  \/ pc[w] \in {"execute", "test", "teardown", "release"} /\ vm[w] # "none"

Holders == {w \in Workflow : HoldsSlot(w)}

NoVMBefore(w) ==
  pc[w] \in {"new", "lock", "container", "join", "clone", "slot"} =>
    vm[w] = "none"

SlotCount == slots + Cardinality(Holders) <= VMLimit

SlotInv ==
  /\ TypeOK
  /\ \A w \in Workflow : NoVMBefore(w)
  /\ \A w \in Workflow : At(w, "release") => vm[w] # "none"
  /\ SlotCount

(* In dry runs no VM is started.                                           *)
DryInv ==
  /\ TypeOK
  /\ \A w \in Workflow : vm[w] = "none" /\ pc[w] \notin {"startVM", "boot"}

LEMMA HoldersFinite ==
  /\ IsFiniteSet(Holders) /\ Cardinality(Holders) \in Nat
  /\ IsFiniteSet(Holders)' /\ Cardinality(Holders)' \in Nat
<1>1. Holders \subseteq Workflow /\ Holders' \subseteq Workflow BY DEF Holders
<1>2. IsFiniteSet(Holders) /\ IsFiniteSet(Holders')
  BY <1>1, FS_Subset, WebUIAssumption
<1> QED BY <1>2, FS_CardinalityType

(* A step that takes no slot and gives none back.                          *)
LEMMA SameSlots ==
  ASSUME TypeOK, SlotCount, slots' = slots,
         \A w \in Workflow : HoldsSlot(w)' => HoldsSlot(w)
  PROVE  SlotCount'
<1>1. Holders' \in SUBSET Holders BY DEF Holders
<1>2. Cardinality(Holders') <= Cardinality(Holders)
  BY <1>1, HoldersFinite, FS_Subset
<1> QED BY <1>2, HoldersFinite, WebUIAssumption DEF SlotCount, TypeOK

(* What a step of v does when it starts no VM and touches no other.        *)
StepOf(v) ==
  \A w \in Workflow \ {v} : pc'[w] = pc[w] /\ vm'[w] = vm[w]

LEMMA PlainStep ==
  ASSUME SlotInv, TypeOK', NEW v \in Workflow, StepOf(v), slots' = slots,
         HoldsSlot(v)' => HoldsSlot(v),
         NoVMBefore(v)', At(v, "release")' => vm'[v] # "none"
  PROVE  SlotInv'
<1>1. \A w \in Workflow : HoldsSlot(w)' => HoldsSlot(w)
  BY DEF StepOf, HoldsSlot
<1>2. SlotCount' BY <1>1, SameSlots DEF SlotInv
<1> QED BY <1>2 DEF SlotInv, StepOf, NoVMBefore, At

Early == {"new", "lock", "container", "join", "clone", "slot"}

(* The moves in the control of a workflow that keep its VM and its slot.   *)
Moves(from, to) ==
  \/ from \in Early /\ to \in Early \union {"execute", "teardown"}
  \/ /\ from \in {"check", "startVM", "boot", "webui"}
     /\ to \in {"startVM", "boot", "webui", "execute", "teardown"}
  \/ from \in {"execute", "test"} /\ to \in {"test", "teardown"}
  \/ from = "leave" /\ to = "ended"

LEMMA MoveStep ==
  ASSUME SlotInv, TypeOK', NEW v \in Workflow, NEW place \in Places,
         Goto(v, place), Moves(pc[v], place), UNCHANGED <<slots, vm>>
  PROVE  SlotInv'
<1>1. StepOf(v) /\ slots' = slots BY DEF StepOf, Goto, SlotInv, TypeOK
<1>2. pc'[v] = place /\ vm'[v] = vm[v] BY DEF Goto, SlotInv, TypeOK
<1>3. HoldsSlot(v)' => HoldsSlot(v)
  BY <1>2 DEF SlotInv, NoVMBefore, HoldsSlot, Moves, Early
<1>4. NoVMBefore(v)' BY <1>2 DEF SlotInv, NoVMBefore, Moves, Early
<1>5. At(v, "release")' => vm'[v] # "none" BY <1>2 DEF At, Moves, Early
<1> QED BY <1>1, <1>3, <1>4, <1>5, PlainStep

(* The steps of a workflow that leave VMs and slots alone.                 *)
LEMMA SlotMoves ==
  ASSUME NEW v \in Workflow,
         \/ Start(v) \/ EnterSetup(v) \/ BuildImage(v) \/ JoinBranch(v)
         \/ Clone(v) \/ CheckCanceled(v) \/ WaitForWebUI(v) \/ Execute(v)
         \/ TestEnds(v) \/ LogRaises(v) \/ LeaveBranch(v)
  PROVE  /\ UNCHANGED <<slots, vm>>
         /\ \E place \in Places : Goto(v, place) /\ Moves(pc[v], place)
<1> USE DEF Moves, Early, Places, At
<1>1. UNCHANGED <<slots, vm>>
  BY DEF Start, EnterSetup, BuildImage, JoinBranch, Clone, CheckCanceled,
         WaitForWebUI, Execute, TestEnds, LogRaises, LeaveBranch
<1>2. CASE Start(v) \/ EnterSetup(v) \/ BuildImage(v) \/ JoinBranch(v) \/ Clone(v)
  <2>1. PICK place \in {"lock", "container", "join", "clone", "slot", "execute",
                        "teardown"} : Goto(v, place)
    BY <1>2 DEF Start, EnterSetup, BuildImage, JoinBranch, Clone, MayRaise, Fail
  <2>2. pc[v] \in Early
    BY <1>2 DEF Start, EnterSetup, BuildImage, JoinBranch, Clone
  <2> QED BY <1>1, <2>1, <2>2
<1>3. CASE CheckCanceled(v)
  <2>1. PICK place \in {"execute", "startVM"} : Goto(v, place)
    BY <1>3 DEF CheckCanceled
  <2> QED BY <1>1, <1>3, <2>1 DEF CheckCanceled
<1>4. CASE WaitForWebUI(v)
  <2>1. PICK place \in {"execute", "teardown"} : Goto(v, place)
    BY <1>4 DEF WaitForWebUI, MayRaise, Fail
  <2> QED BY <1>1, <1>4, <2>1 DEF WaitForWebUI
<1>5. CASE Execute(v) \/ TestEnds(v)
  <2>1. PICK place \in {"test", "teardown"} : Goto(v, place)
    BY <1>5 DEF Execute, TestEnds, MayRaise, Fail
  <2> QED BY <1>1, <1>5, <2>1 DEF Execute, TestEnds
<1>6. CASE LogRaises(v)
  <2>1. Goto(v, "teardown") BY <1>6 DEF LogRaises, MayRaise, Fail
  <2> QED BY <1>1, <1>6, <2>1 DEF LogRaises
<1>7. CASE LeaveBranch(v) BY <1>1, <1>7 DEF LeaveBranch
<1> QED BY <1>2, <1>3, <1>4, <1>5, <1>6, <1>7

(* A VM is stopped by a request that cancels its crc, or not touched.      *)
LEMMA ElsewhereVM ==
  ASSUME TypeOK, NEW v \in Workflow, Elsewhere(v), NEW w \in Workflow
  PROVE  /\ vm'[w] = "none" <=> vm[w] = "none"
         /\ vm[w] # "up" => vm'[w] = vm[w]
BY ElsewhereFrame DEF Stopped, TypeOK

LEMMA SlotRun ==
  ASSUME ~DryRun, ~Debug, SlotInv, NEW v \in Workflow, Run(v)
  PROVE  SlotInv'
<1>0. TypeOK /\ TypeOK' BY RunType DEF SlotInv
<1>1. \A w \in Workflow \ {v} : pc'[w] = pc[w] BY <1>0, RunFrame
<1>2. CASE \/ Start(v) \/ EnterSetup(v) \/ BuildImage(v) \/ JoinBranch(v)
           \/ Clone(v) \/ CheckCanceled(v) \/ WaitForWebUI(v) \/ Execute(v)
           \/ TestEnds(v) \/ LogRaises(v) \/ LeaveBranch(v)
  BY <1>0, <1>2, SlotMoves, MoveStep
<1>3. CASE AcquireSlot(v)
  <2>0. pc[v] = "slot" /\ pc'[v] = "check" /\ vm' = vm /\ slots' = slots - 1
    BY <1>0, <1>3 DEF AcquireSlot, At, Goto, TypeOK
  <2>1. /\ \A w \in Workflow \ {v} : HoldsSlot(w)' <=> HoldsSlot(w)
        /\ HoldsSlot(v)' /\ ~HoldsSlot(v)
    BY <1>1, <2>0 DEF HoldsSlot
  <2>2. Holders' = Holders \union {v} /\ v \notin Holders
    BY <2>1 DEF Holders
  <2>3. Cardinality(Holders') = Cardinality(Holders) + 1
    BY <2>2, HoldersFinite, FS_AddElement
  <2>5. SlotCount'
    BY <1>0, <2>0, <2>3, HoldersFinite, WebUIAssumption
       DEF SlotInv, SlotCount, TypeOK
  <2> QED BY <1>0, <1>1, <2>0, <2>5 DEF SlotInv, NoVMBefore, At
<1>4. CASE StartVM(v)
  <2>1. CASE Fail(v) /\ UNCHANGED vm
    <3>1. Goto(v, "teardown") /\ pc[v] = "startVM" /\ slots' = slots
      BY <1>4, <2>1 DEF StartVM, Fail, At
    <3> QED BY <1>0, <2>1, <3>1, MoveStep DEF Moves, Places
  <2>2. CASE Goto(v, "boot") /\ vm' = [vm EXCEPT ![v] = "up"]
    <3>1. pc[v] = "startVM" /\ pc'[v] = "boot" /\ slots' = slots
      BY <1>0, <1>4, <2>2 DEF StartVM, Goto, At, TypeOK
    <3>2. \A w \in Workflow \ {v} : vm'[w] = vm[w] BY <1>0, <2>2 DEF TypeOK
    <3> QED
      BY <1>0, <1>1, <3>1, <3>2, PlainStep DEF StepOf, HoldsSlot, NoVMBefore, At
  <2> QED BY <1>4, <2>1, <2>2 DEF StartVM, MayRaise
<1>5. CASE Boot(v)
  <2>1. PICK place \in {"webui", "startVM", "teardown"} : Goto(v, place)
    BY <1>5 DEF Boot, Fail
  <2>2. \A w \in Workflow \ {v} : vm'[w] = vm[w]
    BY <1>0, <1>5 DEF Boot, Stopped, TypeOK
  <2>3. pc[v] = "boot" /\ pc'[v] = place /\ slots' = slots
    BY <1>0, <1>5, <2>1 DEF Boot, Goto, At, TypeOK
  <2> QED
    BY <1>0, <1>1, <2>1, <2>2, <2>3, PlainStep
       DEF StepOf, HoldsSlot, NoVMBefore, At
<1>6. CASE TearDown(v)
  <2>1. PICK place \in {"ended", "release"} :
          /\ Goto(v, place)
          /\ place = "release" => vm[v] # "none"
    BY <1>6 DEF TearDown, TearDownRaises
  <2>2. /\ \A w \in Workflow \ {v} : vm'[w] = vm[w]
        /\ vm'[v] = "none" <=> vm[v] = "none"
    BY <1>0, <1>6 DEF TearDown, Stopped, TypeOK
  <2>3. StepOf(v) /\ slots' = slots
    BY <1>1, <1>6, <2>2 DEF TearDown, StepOf
  <2>4. pc'[v] = place /\ pc[v] = "teardown"
    BY <1>0, <1>6, <2>1 DEF TearDown, Goto, At, TypeOK
  <2>5. HoldsSlot(v)' => HoldsSlot(v) BY <2>2, <2>4 DEF HoldsSlot
  <2>6. NoVMBefore(v)' BY <2>4 DEF NoVMBefore
  <2>7. At(v, "release")' => vm'[v] # "none" BY <2>1, <2>2, <2>4 DEF At
  <2> QED BY <1>0, <2>3, <2>5, <2>6, <2>7, PlainStep
<1>7. CASE ReleaseSlot(v)
  <2>0. pc[v] = "release" /\ pc'[v] = "leave" /\ vm' = vm /\ slots' = slots + 1
    BY <1>0, <1>7 DEF ReleaseSlot, At, Goto, TypeOK
  <2>1. /\ \A w \in Workflow \ {v} : HoldsSlot(w)' <=> HoldsSlot(w)
        /\ ~HoldsSlot(v)' /\ HoldsSlot(v)
    BY <1>1, <2>0 DEF HoldsSlot, SlotInv, At
  <2>2. Holders' = Holders \ {v} /\ v \in Holders BY <2>1 DEF Holders
  <2>3. Cardinality(Holders') = Cardinality(Holders) - 1
    BY <2>2, HoldersFinite, FS_RemoveElement
  <2>5. SlotCount'
    BY <1>0, <2>0, <2>3, HoldersFinite, WebUIAssumption
       DEF SlotInv, SlotCount, TypeOK
  <2> QED BY <1>0, <1>1, <2>0, <2>5 DEF SlotInv, NoVMBefore, At
<1> QED BY <1>2, <1>3, <1>4, <1>5, <1>6, <1>7 DEF Run

LEMMA SlotStep ==
  ASSUME ~DryRun, ~Debug, SlotInv, [Next]_vars
  PROVE  SlotInv'
<1>0. TypeOK /\ TypeOK' BY TypeStep DEF SlotInv
<1>1. ASSUME pc' = pc, slots' = slots,
             \A w \in Workflow : vm'[w] = "none" <=> vm[w] = "none"
      PROVE  SlotInv'
  <2>1. \A w \in Workflow : HoldsSlot(w)' => HoldsSlot(w)
    BY <1>1 DEF HoldsSlot
  <2>2. SlotCount' BY <1>0, <1>1, <2>1, SameSlots DEF SlotInv
  <2> QED BY <1>0, <1>1, <2>2 DEF SlotInv, NoVMBefore, At
<1>2. CASE UNCHANGED vars BY <1>1, <1>2 DEF vars
<1>3. ASSUME NEW v \in Workflow, Elsewhere(v) PROVE SlotInv'
  BY <1>0, <1>1, <1>3, ElsewhereVM, ElsewhereFrame
<1> QED BY <1>2, <1>3, NextCases, SlotRun

LEMMA DryRunStep ==
  ASSUME DryRun, DryInv, NEW v \in Workflow, Run(v)
  PROVE  DryInv'
<1>0. TypeOK /\ TypeOK' BY RunType DEF DryInv
<1> USE DEF At
<1>1. vm' = vm
  BY DEF DryInv, Run, Start, EnterSetup, BuildImage, JoinBranch, Clone,
     AcquireSlot, CheckCanceled, StartVM, Boot, WaitForWebUI, Execute,
     TestEnds, LogRaises, TearDown, ReleaseSlot, LeaveBranch
<1>2. PICK place \in Places \ {"startVM", "boot"} : Goto(v, place)
  <2>1. CASE Start(v) \/ EnterSetup(v) \/ BuildImage(v) \/ JoinBranch(v)
    BY <2>1 DEF Places, Start, EnterSetup, BuildImage, JoinBranch, MayRaise,
                Fail
  <2>2. CASE Clone(v) \/ AcquireSlot(v) \/ CheckCanceled(v) \/ WaitForWebUI(v)
    BY <2>2 DEF Places, Clone, AcquireSlot, CheckCanceled, WaitForWebUI,
                MayRaise, Fail
  <2>3. CASE Execute(v) \/ TestEnds(v) \/ TearDown(v) \/ ReleaseSlot(v)
    BY <2>3 DEF Places, Execute, TestEnds, TearDown, ReleaseSlot, MayRaise,
                Fail
  <2>4. CASE LeaveBranch(v) \/ LogRaises(v)
    BY <2>4 DEF Places, LeaveBranch, LogRaises, MayRaise, Fail
  <2>5. ~StartVM(v) /\ ~Boot(v) BY DEF DryInv, StartVM, Boot
  <2> QED BY <2>1, <2>2, <2>3, <2>4, <2>5 DEF Run
<1> QED BY <1>0, <1>1, <1>2 DEF DryInv, Goto, TypeOK

LEMMA DryStep ==
  ASSUME DryRun, DryInv, [Next]_vars
  PROVE  DryInv'
<1>0. TypeOK /\ TypeOK' BY TypeStep DEF DryInv
<1>1. CASE UNCHANGED vars BY <1>0, <1>1 DEF DryInv, vars
<1>2. ASSUME NEW v \in Workflow, Elsewhere(v) PROVE DryInv'
  BY <1>0, <1>2, ElsewhereFrame, ElsewhereVM DEF DryInv
<1> QED BY <1>1, <1>2, NextCases, DryRunStep

(* At most hypervisor_vm_limit VMs are used at once, unless debug is on.   *)
THEOREM VMLimitIsObeyed == ~Debug /\ Spec => []VMLimitObeyed
<1>1. CASE ~DryRun /\ ~Debug
  <2>1. Init => SlotInv
    <3>1. Init => TypeOK BY InitTypeOK
    <3>2. Init => Holders = {} BY DEF Init, Holders, HoldsSlot
    <3>3. Init => SlotCount
      <4>1. Init => slots = VMLimit BY DEF Init
      <4> QED BY <3>2, <4>1, FS_EmptySet, WebUIAssumption DEF SlotCount
    <3>4. Init => \A w \in Workflow : pc[w] = "new" /\ vm[w] = "none"
      BY DEF Init
    <3> QED BY <3>1, <3>3, <3>4 DEF SlotInv, NoVMBefore, At
  <2>2. SlotInv /\ [Next]_vars => SlotInv' BY <1>1, SlotStep
  <2>3. SlotInv => VMLimitObeyed
    <3>1. VMsInUse \in SUBSET Holders
      BY DEF VMsInUse, InSlot, Holders, HoldsSlot
    <3>2. Cardinality(VMsInUse) <= Cardinality(Holders)
          /\ Cardinality(VMsInUse) \in Nat
      BY <3>1, HoldersFinite, FS_Subset, FS_CardinalityType
    <3> QED
      BY <3>2, HoldersFinite, WebUIAssumption
         DEF SlotInv, SlotCount, TypeOK, VMLimitObeyed
  <2> QED BY <2>1, <2>2, <2>3, PTL DEF Spec
<1>2. CASE DryRun
  <2>1. Init => DryInv BY InitTypeOK DEF Init, DryInv
  <2>2. DryInv /\ [Next]_vars => DryInv' BY <1>2, DryStep
  <2>3. DryInv => VMLimitObeyed
    <3>1. DryInv => VMsInUse = {} BY DEF DryInv, VMsInUse
    <3> QED BY <3>1, FS_EmptySet, WebUIAssumption DEF VMLimitObeyed
  <2> QED BY <2>1, <2>2, <2>3, PTL DEF Spec
<1> QED BY <1>1, <1>2

----------------------------------------------------------------------------
(* A test runs with the testing framework *)

(* v is at a place of the set, and it is to make the clones of branch b.   *)
Makes(v, b, places) == branchOf[v] = b /\ makesDir[v] /\ pc[v] \in places

(* The framework is there, or the one that was to clone it failed.         *)
Provided(b) ==
  tempDir[b] = "cloned" \/ \E v \in Workflow : Makes(v, b, Late)

(* Whoever uses a directory finds the framework in it, or its maker has    *)
(* failed; a directory without it has a maker.                             *)
FrameworkInv ==
  /\ SharedInv
  /\ \A w \in Workflow : Needs(w) => Provided(branchOf[w])
  /\ \A b \in Branch : tempDir[b] = "made" =>
       \E v \in Workflow : Makes(v, b, {"clone"} \union Late)

(* A workflow does not come back from its teardown.                        *)
LEMMA LateStays ==
  ASSUME TypeOK, NEW v \in Workflow, Run(v), NEW w \in Workflow, pc[w] \in Late
  PROVE  pc'[w] \in Late
<1>1. CASE w # v BY <1>1, RunFrame
<1>2. CASE w = v
  <2>1. TearDown(v) \/ ReleaseSlot(v) \/ LeaveBranch(v)
    BY <1>2 DEF Late, Run, At, Start, EnterSetup, BuildImage, JoinBranch,
       Clone, AcquireSlot, CheckCanceled, StartVM, Boot, WaitForWebUI, Execute,
       TestEnds, LogRaises
  <2>2. PICK place \in Late : Goto(v, place)
    BY <2>1 DEF TearDown, ReleaseSlot, LeaveBranch, Late
  <2> QED BY <1>2, <2>2 DEF Goto, TypeOK
<1> QED BY <1>1, <1>2

(* A step of v that leaves the directories alone, after which v uses none  *)
(* that it did not use before.                                             *)
LEMMA FrameworkKept ==
  ASSUME FrameworkInv, SharedInv', NEW v \in Workflow, ~At(v, "clone"), Run(v),
         UNCHANGED <<tempDir, makesDir>>, Needs(v)' => Needs(v)
  PROVE  FrameworkInv'
<1>0. TypeOK BY DEF FrameworkInv, SharedInv
<1>1. \A w \in Workflow : Needs(w)' => Needs(w)
  BY <1>0, OthersOfRun DEF OthersStay
<1>2. \A w \in Workflow, b \in Branch :
        /\ Makes(w, b, Late) => Makes(w, b, Late)'
        /\ Makes(w, b, {"clone"} \union Late) => Makes(w, b, {"clone"} \union Late)'
  BY <1>0, LateStays, RunFrame DEF Makes, At
<1>3. \A b \in Branch : Provided(b) => Provided(b)' BY <1>2 DEF Provided
<1> QED BY <1>1, <1>2, <1>3, WebUIAssumption DEF FrameworkInv

LEMMA FrameworkRun ==
  ASSUME FrameworkInv, NEW v \in Workflow, Idle(v), Run(v)
  PROVE  FrameworkInv'
<1>0. SharedInv /\ SharedInv' /\ TypeOK /\ TypeOK'
  BY SharedRun DEF FrameworkInv, SharedInv
<1>a. branchOf[v] \in Branch BY WebUIAssumption
<1>b. \A w \in Workflow \ {v} : pc'[w] = pc[w] BY <1>0, RunFrame
<1>c. \A w \in Workflow \ {v} : Needs(w)' => Needs(w)
  BY <1>0, OthersOfRun DEF OthersStay
<1>d. \A w \in Workflow : pc[w] \in Late => pc'[w] \in Late BY <1>0, LateStays
<1>1. ASSUME ~At(v, "clone"), UNCHANGED <<tempDir, makesDir>>,
             NEW place \in {"lock", "container", "join"} \union Late, Goto(v, place)
      PROVE  FrameworkInv'
  <2>1. pc'[v] = place BY <1>0, <1>1 DEF Goto, TypeOK
  <2>2. ~Needs(v)' BY <2>1 DEF Needs, UsesShared, At, Late
  <2> QED BY <1>0, <1>1, <2>2, FrameworkKept
<1>2. ASSUME Needs(v), UNCHANGED <<tempDir, makesDir>>
      PROVE  FrameworkInv'
  <2>1. ~At(v, "clone") BY <1>2 DEF Needs, UsesShared, At
  <2> QED BY <1>0, <1>2, <2>1, FrameworkKept
<1>3. CASE Start(v) \/ BuildImage(v)
  <2>1. PICK place \in {"lock", "join", "teardown"} : Goto(v, place)
    BY <1>3 DEF Start, BuildImage, MayRaise, Fail
  <2>2. ~At(v, "clone") /\ UNCHANGED <<tempDir, makesDir>>
    BY <1>3 DEF Start, BuildImage, At, shared
  <2> QED BY <1>1, <2>1, <2>2 DEF Late
<1>4. CASE EnterSetup(v)
  <2>1. ~At(v, "clone") /\ UNCHANGED <<tempDir, makesDir>>
    BY <1>4 DEF EnterSetup, At, shared
  <2>2. CASE Goto(v, "container") BY <1>1, <2>1, <2>2
  <2>3. CASE canceled(v) /\ Goto(v, "execute")
    <3>1. Settled(v)' BY <1>4, <2>3 DEF EnterSetup, Settled, canceled, Idle, reports
    <3>2. pc'[v] = "execute" BY <1>0, <2>3 DEF Goto, TypeOK
    <3>3. ~Needs(v)' BY <3>1, <3>2 DEF Needs, UsesShared, At
    <3> QED BY <1>0, <2>1, <3>3, FrameworkKept
  <2> QED BY <1>4, <2>2, <2>3 DEF EnterSetup
<1>5. CASE JoinBranch(v)
  <2>1. /\ \A w \in Workflow \ {v} : makesDir'[w] = makesDir[w]
        /\ pc'[v] = "clone" /\ pc[v] = "join"
    BY <1>0, <1>5 DEF JoinBranch, Goto, At, TypeOK
  <2>2. /\ makesDir'[v] = (tempDir[branchOf[v]] = "none")
        /\ \A b \in Branch : \/ tempDir'[b] = tempDir[b]
                             \/ /\ b = branchOf[v] /\ tempDir[b] = "none"
                                /\ tempDir'[b] = "made"
    BY <1>0, <1>5, <1>a DEF JoinBranch, CloneNeeded, TypeOK
  <2>3. \A w \in Workflow : Needs(w)' => Needs(w)
    BY <1>c, <2>1 DEF Needs, UsesShared, At
  <2>4. \A w \in Workflow, b \in Branch :
        /\ Makes(w, b, Late) => Makes(w, b, Late)'
        /\ Makes(w, b, {"clone"} \union Late) => Makes(w, b, {"clone"} \union Late)'
    BY <1>b, <1>d, <2>1 DEF Makes, Late
  <2>5. \A b \in Branch : Provided(b) => Provided(b)'
    BY <2>2, <2>4 DEF Provided
  <2>6. ASSUME NEW b \in Branch, tempDir'[b] = "made"
        PROVE  \E u \in Workflow : Makes(u, b, {"clone"} \union Late)'
    <3>1. CASE tempDir[b] = "made" BY <2>4, <3>1 DEF FrameworkInv
    <3>2. CASE tempDir[b] # "made"
      <4>1. b = branchOf[v] /\ tempDir[b] = "none" BY <2>2, <2>6, <3>2
      <4> QED BY <2>1, <2>2, <4>1 DEF Makes
    <3> QED BY <3>1, <3>2
  <2> QED BY <1>0, <2>3, <2>5, <2>6, WebUIAssumption DEF FrameworkInv
<1>6. CASE Clone(v)
  <2>1. \A u \in Workflow : Inside(u) => u = v
    BY <1>0, <1>6 DEF Clone, SharedInv, LockHeld, Inside, At
  <2>2. pc[v] = "clone" /\ tempDir[branchOf[v]] # "none"
    BY <1>0, <1>6 DEF Clone, SharedInv, DirThere, At
  <2>3. makesDir' = makesDir /\ pc'[v] \in {"slot", "teardown"}
    <3>1. PICK place \in {"slot", "teardown"} : Goto(v, place)
      BY <1>6 DEF Clone, MayRaise, Fail
    <3> QED BY <1>0, <1>6, <3>1 DEF Clone, Goto, TypeOK
  <2>4. \A b \in Branch \ {branchOf[v]} : tempDir'[b] = tempDir[b]
    BY <1>0, <1>6 DEF Clone, TypeOK
  <2>5. \A w \in Workflow, b \in Branch :
          Makes(w, b, Late) => Makes(w, b, Late)'
    BY <1>d, <2>3 DEF Makes
  (* Only v is at its clones; with v in teardown its directory has a maker *)
  (* that failed.                                                          *)
  <2>6. \A b \in Branch \ {branchOf[v]} :
          tempDir'[b] = "made" => \E u \in Workflow : Makes(u, b, Late)'
    <3>1. \A b \in Branch \ {branchOf[v]}, u \in Workflow :
            Makes(u, b, {"clone"} \union Late) => Makes(u, b, Late)
      BY <2>1 DEF Makes, Inside
    <3> QED BY <2>4, <2>5, <3>1 DEF FrameworkInv
  <2>7. CASE tempDir[branchOf[v]] = "removed"
    <3>1. tempDir' = tempDir /\ pc'[v] = "teardown"
      BY <1>0, <1>6, <2>7 DEF Clone, Fail, Goto, TypeOK
    <3>2. ~Needs(v)' BY <3>1 DEF Needs, UsesShared, At
    <3>3. \A b \in Branch : Provided(b) => Provided(b)'
      BY <2>5, <3>1 DEF Provided
    <3>4. \A w \in Workflow : Needs(w)' => Provided(branchOf[w])'
      BY <1>c, <3>2, <3>3, WebUIAssumption DEF FrameworkInv
    <3>5. \A b \in Branch : tempDir'[b] = "made" =>
             \E u \in Workflow : Makes(u, b, {"clone"} \union Late)'
      BY <2>6, <2>7, <3>1 DEF Makes
    <3> QED BY <1>0, <3>4, <3>5 DEF FrameworkInv
  <2>8. CASE tempDir[branchOf[v]] # "removed"
    <3>1. tempDir[branchOf[v]] \in {"made", "cloned"}
      BY <1>0, <1>a, <2>2, <2>8 DEF TypeOK
    <3>2. tempDir'[branchOf[v]] \in {tempDir[branchOf[v]], "cloned"}
      BY <1>0, <1>6, <1>a, <2>8 DEF Clone, MayRaise, TypeOK
    <3>3. \A b \in Branch : Provided(b) => Provided(b)'
      BY <2>4, <2>5, <3>2 DEF Provided
    (* The directory is still without the framework after v's clones.      *)
    <3>4. ASSUME tempDir'[branchOf[v]] = "made"
          PROVE  \E u \in Workflow : Makes(u, branchOf[v], Late)'
      <4>1. tempDir[branchOf[v]] = "made" BY <3>1, <3>2, <3>4
      <4>2. PICK u \in Workflow : Makes(u, branchOf[v], {"clone"} \union Late)
        BY <1>a, <4>1 DEF FrameworkInv
      <4>3. CASE pc[u] \in Late
        BY <1>a, <2>5, <4>2, <4>3 DEF Makes
      <4>4. CASE pc[u] = "clone"
        <5>1. u = v /\ makesDir[v] BY <2>1, <4>2, <4>4 DEF Inside, Makes
        <5>2. Goto(v, "teardown")
          <6>1. \/ tempDir' = [tempDir EXCEPT ![branchOf[v]] =
                                 IF makesDir[v] THEN "cloned" ELSE @]
                \/ Fail(v)
            BY <1>6, <2>8 DEF Clone, MayRaise
          <6>2. tempDir' # [tempDir EXCEPT ![branchOf[v]] =
                              IF makesDir[v] THEN "cloned" ELSE @]
            BY <1>0, <1>a, <3>4, <5>1 DEF TypeOK
          <6> QED BY <6>1, <6>2 DEF Fail
        <5>3. pc'[v] = "teardown" BY <1>0, <5>2 DEF Goto, TypeOK
        <5> QED BY <2>3, <5>1, <5>3 DEF Makes, Late
      <4> QED BY <4>2, <4>3, <4>4 DEF Makes
    <3>5. Provided(branchOf[v])'
      <4>1. tempDir'[branchOf[v]] \in {"made", "cloned"} BY <3>1, <3>2
      <4> QED BY <3>4, <4>1 DEF Provided
    <3>6. \A w \in Workflow : Needs(w)' => Provided(branchOf[w])'
      BY <1>c, <3>3, <3>5, WebUIAssumption DEF FrameworkInv
    <3>7. \A b \in Branch : tempDir'[b] = "made" =>
             \E u \in Workflow : Makes(u, b, {"clone"} \union Late)'
      BY <2>6, <3>4 DEF Makes
    <3> QED BY <1>0, <3>6, <3>7 DEF FrameworkInv
  <2> QED BY <2>7, <2>8
<1>7. CASE \/ AcquireSlot(v) \/ CheckCanceled(v) \/ StartVM(v) \/ Boot(v)
           \/ WaitForWebUI(v)
  <2>1. Needs(v) /\ UNCHANGED <<tempDir, makesDir>>
    BY <1>7 DEF AcquireSlot, CheckCanceled, StartVM, Boot, WaitForWebUI, Needs,
                UsesShared, At, shared
  <2> QED BY <1>2, <2>1
<1>8. CASE Execute(v)
  <2>1. Goto(v, "teardown") \/ Needs(v) BY <1>8 DEF Execute, Needs, Settled
  <2>2. ~At(v, "clone") /\ UNCHANGED <<tempDir, makesDir>>
    BY <1>8 DEF Execute, At, shared
  <2> QED BY <1>1, <1>2, <2>1, <2>2 DEF Late
<1>9. CASE TestEnds(v) \/ TearDown(v) \/ ReleaseSlot(v)
  <2>1. PICK place \in Late : Goto(v, place)
    BY <1>9 DEF TestEnds, TearDown, ReleaseSlot, MayRaise, Fail, Late
  <2>2. ~At(v, "clone") /\ UNCHANGED <<tempDir, makesDir>>
    BY <1>9 DEF TestEnds, TearDown, ReleaseSlot, At, shared
  <2> QED BY <1>1, <2>1, <2>2
<1>10. CASE LogRaises(v)
  <2>1. Goto(v, "teardown") BY <1>10 DEF LogRaises, MayRaise, Fail
  <2>2. ~At(v, "clone") /\ UNCHANGED <<tempDir, makesDir>>
    BY <1>10 DEF LogRaises, At, shared
  <2> QED BY <1>1, <2>1, <2>2 DEF Late
<1>11. CASE LeaveBranch(v)
  <2>1. Goto(v, "ended") /\ makesDir' = makesDir /\ ~At(v, "clone") /\ lock = Nobody
    BY <1>11 DEF LeaveBranch, At
  <2>2. CASE tempDir' = tempDir BY <1>1, <2>1, <2>2 DEF Late
  <2>3. CASE tempDir' # tempDir
    <3>1. /\ tempDir' = [tempDir EXCEPT ![branchOf[v]] = "removed"]
          /\ instances'[branchOf[v]] = {}
      BY <1>0, <1>11, <1>a, <2>3 DEF LeaveBranch, DirAfter, TypeOK
    <3>2. \A w \in Workflow : Needs(w)' => branchOf[w] # branchOf[v]
      BY <1>0, <3>1 DEF SharedInv, Registered
    <3>3. pc'[v] = "ended" BY <1>0, <2>1 DEF Goto, TypeOK
    <3>4. \A w \in Workflow : Needs(w)' => Needs(w)
      BY <1>c, <3>3 DEF Needs, UsesShared, At
    <3>5. /\ tempDir'[branchOf[v]] = "removed"
          /\ \A b \in Branch \ {branchOf[v]} : tempDir'[b] = tempDir[b]
      BY <1>0, <1>a, <3>1 DEF TypeOK
    <3>6. \A w \in Workflow, b \in Branch :
            /\ Makes(w, b, Late) => Makes(w, b, Late)'
            /\ Makes(w, b, {"clone"} \union Late) =>
                 Makes(w, b, {"clone"} \union Late)'
      BY <1>b, <1>d, <2>1 DEF Makes, At
    <3>7. \A b \in Branch \ {branchOf[v]} : Provided(b) => Provided(b)'
      BY <3>5, <3>6 DEF Provided
    <3>8. \A w \in Workflow : Needs(w)' => Provided(branchOf[w])'
      BY <3>2, <3>4, <3>7, WebUIAssumption DEF FrameworkInv
    <3>9. \A b \in Branch : tempDir'[b] = "made" =>
            \E u \in Workflow : Makes(u, b, {"clone"} \union Late)'
      BY <3>5, <3>6 DEF FrameworkInv
    <3> QED BY <1>0, <3>8, <3>9 DEF FrameworkInv
  <2> QED BY <2>2, <2>3
<1> QED
  BY <1>3, <1>4, <1>5, <1>6, <1>7, <1>8, <1>9, <1>10, <1>11 DEF Run

LEMMA FrameworkStep ==
  ASSUME FrameworkInv, [Next]_vars
  PROVE  FrameworkInv'
<1>0. SharedInv /\ SharedInv' /\ TypeOK
  BY SharedStep DEF FrameworkInv, SharedInv
<1>1. ASSUME pc' = pc, UNCHANGED <<tempDir, makesDir>>,
             \A w \in Workflow : Needs(w)' => Needs(w)
      PROVE  FrameworkInv'
  <2>1. \A w \in Workflow, b \in Branch :
          /\ Makes(w, b, Late)' <=> Makes(w, b, Late)
          /\ Makes(w, b, {"clone"} \union Late)' <=> Makes(w, b, {"clone"} \union Late)
    BY <1>1 DEF Makes
  <2>2. \A b \in Branch : Provided(b) => Provided(b)' BY <1>1, <2>1 DEF Provided
  <2> QED BY <1>0, <1>1, <2>1, <2>2, WebUIAssumption DEF FrameworkInv
<1>2. CASE UNCHANGED vars
  <2>1. \A w \in Workflow : Needs(w)' => Needs(w)
    BY <1>2 DEF vars, reports, Needs, UsesShared, At, Settled, canceled, Idle
  <2> QED BY <1>1, <1>2, <2>1 DEF vars
<1>3. ASSUME NEW v \in Workflow, Elsewhere(v) PROVE FrameworkInv'
  <2>1. pc' = pc /\ UNCHANGED <<tempDir, makesDir>>
    BY <1>0, <1>3, ElsewhereFrame DEF shared
  <2> QED BY <1>0, <1>1, <1>3, <2>1, ElsewhereNeeds
<1> QED BY <1>2, <1>3, NextCases, FrameworkRun

(* A test runs in a directory with the testing framework, unless the       *)
(* workflow of its branch that made the directory failed: whoever else     *)
(* joined, left or failed in between, nobody skips a clone that is needed. *)
THEOREM FrameworkIsThere == Spec => []RunsWithFramework
<1>1. Init => FrameworkInv
  <2>1. Init => TypeOK BY InitTypeOK
  <2>2. Init => /\ \A w \in Workflow : pc[w] = "new"
                /\ \A b \in Branch : tempDir[b] = "none"
    BY DEF Init
  <2> QED
    BY <2>1, <2>2 DEF FrameworkInv, SharedInv, LockHeld, Registered, DirThere,
                ImageThere, Needs, UsesShared, Inside, At
<1>2. FrameworkInv /\ [Next]_vars => FrameworkInv' BY FrameworkStep
<1>3. FrameworkInv => RunsWithFramework
  BY DEF FrameworkInv, RunsWithFramework, Provided, Makes, Needs, UsesShared, At
<1> QED BY <1>1, <1>2, <1>3, PTL DEF Spec

----------------------------------------------------------------------------
(* What a workflow that ends has stored *)

Decisive == {"canceled", "complete", "DNF"}

(* The last report of w, the only final one, decides its result: the final *)
(* mark stays until a request that got past the check of it takes it away, *)
(* and no state it is refused for or that replaces it is unfinished.       *)
Decided(w) ==
  /\ given[w].state # "canceled"
  /\ canceled(w) => cpc[w] # "idle"
  /\ pc[w] \notin Late => ~result[w].final /\ (~Idle(w) => ~given[w].final)
  /\ pc[w] \in Late \ {"teardown"} => Idle(w)
  /\ at[w] \in {"check", "setFinal"} => ~result[w].final
  /\ pc[w] \in Late /\ w \notin unlogged =>
       /\ ~Idle(w) => given[w].final /\ given[w].state \in {"complete", "DNF"}
       /\ at[w] \in {"checkState", "setState", "idle"} =>
            result[w].final \/ cpc[w] # "idle"
       /\ Idle(w) => result[w].state \in Decisive

DecidedInv == TypeOK /\ \A w \in Workflow : Decided(w)

LEMMA ReportSets ==
  ASSUME TypeOK, NEW v \in Workflow, NEW r, Report(v, r)
  PROVE  at'[v] = "check" /\ given'[v] = r /\ unlogged' = unlogged
BY DEF Report, TypeOK

(* A report before the last one.                                           *)
LEMMA EarlyReport ==
  ASSUME TypeOK, NEW v \in Workflow, Decided(v), pc[v] \notin Late,
         result' = result, cpc' = cpc,
         NEW s \in {"started", "running"}, Report(v, Res(s, "None", FALSE)),
         NEW place \in Places \ Late, Goto(v, place)
  PROVE  Decided(v)'
<1>1. pc'[v] = place BY DEF Goto, TypeOK
<1>2. at'[v] = "check" /\ given'[v] = Res(s, "None", FALSE) BY ReportSets
<1> QED BY <1>1, <1>2 DEF Decided, canceled, Res

(* The last report, with which the teardown begins.                        *)
LEMMA FinalReport ==
  ASSUME TypeOK, NEW v \in Workflow, Decided(v), pc[v] \notin Late,
         result' = result, cpc' = cpc,
         NEW s \in {"complete", "DNF"}, NEW o, Report(v, Res(s, o, TRUE)),
         Goto(v, "teardown")
  PROVE  Decided(v)'
<1>1. pc'[v] = "teardown" BY DEF Goto, TypeOK
<1>2. at'[v] = "check" /\ given'[v] = Res(s, o, TRUE) BY ReportSets
<1> QED BY <1>1, <1>2 DEF Decided, canceled, Res, Idle, Late

LEMMA FailDecides ==
  ASSUME TypeOK, NEW v \in Workflow, Decided(v), pc[v] \notin Late,
         result' = result, cpc' = cpc, Idle(v), Fail(v)
  PROVE  Decided(v)'
<1>0. Goto(v, "teardown") BY DEF Fail
<1>1. CASE Report(v, Res("DNF", "ERROR", TRUE)) BY <1>0, <1>1, FinalReport
<1>2. CASE unlogged' = unlogged \union {v} /\ UNCHANGED <<at, given>>
  <2>1. pc'[v] = "teardown" BY <1>0 DEF Goto, TypeOK
  <2> QED BY <1>2, <2>1 DEF Decided, canceled, Idle, Late
<1> QED BY <1>1, <1>2 DEF Fail

(* A step of v that reports nothing and does not begin its teardown.       *)
LEMMA SilentMove ==
  ASSUME TypeOK, NEW v \in Workflow, Decided(v), Idle(v),
         result' = result, cpc' = cpc, UNCHANGED reports,
         NEW place \in Places, Goto(v, place), place \in Late => pc[v] \in Late,
         pc[v] \in Late => place \in Late
  PROVE  Decided(v)'
<1>1. pc'[v] = place BY DEF Goto, TypeOK
<1> QED BY <1>1 DEF Decided, canceled, reports, Idle

LEMMA DecidedRun ==
  ASSUME DecidedInv, NEW v \in Workflow, Idle(v), Run(v)
  PROVE  DecidedInv'
<1>0. TypeOK /\ TypeOK' /\ Decided(v) BY RunType DEF DecidedInv
<1>1. result' = result /\ cpc' = cpc BY <1>0, RunFrame
<1>2. ASSUME NEW w \in Workflow \ {v} PROVE Decided(w)'
  BY <1>0, <1>1, RunFrame DEF DecidedInv, Decided, canceled, Idle
<1>3. Decided(v)'
  <2>1. CASE Fail(v)
    <3>1. pc[v] \notin Late
      <4>1. ~Fail(v) \/ ~(TearDown(v) \/ ReleaseSlot(v) \/ LeaveBranch(v))
        <5>1. Fail(v) => pc'[v] = "teardown" BY <1>0 DEF Fail, Goto, TypeOK
        <5>2. TearDown(v) \/ ReleaseSlot(v) \/ LeaveBranch(v) =>
                pc'[v] # "teardown"
          BY <1>0 DEF TearDown, ReleaseSlot, LeaveBranch, Goto, TypeOK
        <5> QED BY <5>1, <5>2
      <4> QED
        BY <2>1, <4>1 DEF Run, Late, At, Start, EnterSetup, BuildImage,
           JoinBranch, Clone, AcquireSlot, CheckCanceled, StartVM, Boot,
           WaitForWebUI, Execute, TestEnds, LogRaises
    <3> QED BY <1>0, <1>1, <2>1, <3>1, FailDecides
  <2>2. CASE ~Fail(v) /\ \/ Start(v) \/ EnterSetup(v) \/ BuildImage(v)
                         \/ JoinBranch(v) \/ Clone(v) \/ AcquireSlot(v)
    <3>1. PICK place \in Places \ Late : Goto(v, place) /\ UNCHANGED reports
      BY <2>2 DEF Start, EnterSetup, BuildImage, JoinBranch, Clone,
                  AcquireSlot, MayRaise, Places, Late
    <3>2. pc[v] \notin Late
      BY <2>2 DEF Start, EnterSetup, BuildImage, JoinBranch, Clone,
                  AcquireSlot, At, Late
    <3> QED BY <1>0, <1>1, <3>1, <3>2, SilentMove
  <2>3. CASE ~Fail(v) /\ (StartVM(v) \/ Boot(v) \/ WaitForWebUI(v))
    <3>1. PICK place \in Places \ Late : Goto(v, place) /\ UNCHANGED reports
      BY <2>3 DEF StartVM, Boot, WaitForWebUI, MayRaise, Places, Late
    <3>2. pc[v] \notin Late BY <2>3 DEF StartVM, Boot, WaitForWebUI, At, Late
    <3> QED BY <1>0, <1>1, <3>1, <3>2, SilentMove
  <2>4. CASE CheckCanceled(v)
    <3>1. pc[v] \notin Late BY <2>4 DEF CheckCanceled, At, Late
    <3>2. CASE Goto(v, "execute") /\ UNCHANGED reports
      BY <1>0, <1>1, <3>1, <3>2, SilentMove DEF Places, Late
    <3>3. CASE Report(v, Res("started", "None", FALSE))
      <4>1. PICK place \in Places \ Late : Goto(v, place)
        BY <2>4 DEF CheckCanceled, Places, Late
      <4> QED BY <1>0, <1>1, <3>1, <3>3, <4>1, EarlyReport
    <3> QED BY <2>4, <3>2, <3>3 DEF CheckCanceled
  <2>5. CASE Execute(v)
    <3>1. pc[v] \notin Late BY <2>5 DEF Execute, At, Late
    <3>2. CASE Report(v, Res("complete", "PASS", TRUE)) /\ Goto(v, "teardown")
      BY <1>0, <1>1, <3>1, <3>2, FinalReport
    <3>3. CASE canceled(v) /\ Goto(v, "teardown") /\ UNCHANGED reports
      <4>1. pc'[v] = "teardown" BY <1>0, <3>3 DEF Goto, TypeOK
      <4> QED
        BY <1>0, <1>1, <3>3, <4>1
           DEF Decided, Decisive, canceled, Idle, Late, reports
    <3>4. CASE Report(v, Res("running", "None", FALSE)) /\ Goto(v, "test")
      BY <1>0, <1>1, <3>1, <3>4, EarlyReport DEF Places, Late
    <3> QED BY <2>5, <3>2, <3>3, <3>4 DEF Execute
  <2>6. CASE ~Fail(v) /\ TestEnds(v)
    <3>1. pc[v] \notin Late BY <2>6 DEF TestEnds, At, Late
    <3>2. PICK o \in {"PASS", "FAIL"} : Report(v, Res("complete", o, TRUE))
      BY <2>6 DEF TestEnds, MayRaise
    <3>3. Goto(v, "teardown") BY <2>6 DEF TestEnds, MayRaise
    <3> QED BY <1>0, <1>1, <3>1, <3>2, <3>3, FinalReport
  <2>7. CASE TearDown(v) \/ ReleaseSlot(v) \/ LeaveBranch(v)
    <3>1. PICK place \in Places \intersect Late : Goto(v, place) /\ UNCHANGED reports
      BY <2>7 DEF TearDown, ReleaseSlot, LeaveBranch, Places, Late
    <3>2. pc[v] \in Late BY <2>7 DEF TearDown, ReleaseSlot, LeaveBranch, At, Late
    <3> QED BY <1>0, <1>1, <3>1, <3>2, SilentMove
  <2>8. CASE LogRaises(v) /\ ~Fail(v) BY <2>8 DEF LogRaises, MayRaise
  <2> QED BY <2>1, <2>2, <2>3, <2>4, <2>5, <2>6, <2>7, <2>8 DEF Run
<1> QED BY <1>0, <1>2, <1>3 DEF DecidedInv

(* Each statement of the update of v by its workflow.                      *)
LEMMA DecidedUpdate ==
  ASSUME TypeOK, NEW v \in Workflow, Decided(v), UpdateStep(v)
  PROVE  Decided(v)'
<1>1. /\ pc' = pc /\ given' = given /\ unlogged' = unlogged /\ cpc' = cpc
      /\ result'[v] = Stored(at[v], result[v], given[v])
      /\ at'[v] = Following(at[v], result[v], given[v], "idle")
      /\ at[v] \in Statement
  BY DEF UpdateStep, TypeOK
<1>2. result[v] \in Result /\ given[v] \in Result BY DEF TypeOK
<1>3. CASE at[v] = "check"
  <2>1. ~result[v].final BY <1>3 DEF Decided
  <2>2. result'[v] = result[v] /\ at'[v] = "setFinal"
    BY <1>1, <1>3, <2>1 DEF Stored, Following
  <2> QED BY <1>1, <1>3, <2>1, <2>2 DEF Decided, canceled, Idle
<1>4. CASE at[v] = "setFinal"
  <2>1. /\ result'[v] = [result[v] EXCEPT !.final = given[v].final]
        /\ at'[v] = "checkState"
    BY <1>1, <1>4 DEF Stored, Following
  <2>2. result'[v].state = result[v].state /\ result'[v].final = given[v].final
    BY <1>2, <2>1 DEF Result
  <2> QED BY <1>1, <1>4, <2>1, <2>2 DEF Decided, canceled, Idle
<1>5. CASE at[v] = "checkState"
  <2>1. result'[v] = result[v] /\ at'[v] \in {"setState", "idle"}
    BY <1>1, <1>5 DEF Stored, Following
  <2>2. at'[v] = "idle" => Backward(result[v], given[v])
    BY <1>1, <1>5 DEF Following
  (* Only DNF comes after complete, and nothing after DNF.                 *)
  <2>3. given[v].state \in {"complete", "DNF"} /\ at'[v] = "idle" =>
          result[v].state \in Decisive
    <3>1. StateIndex["complete"] = 6 /\ StateIndex["DNF"] = 7
      BY DEF StateIndex, State
    <3>2. ASSUME result[v].state \notin Decisive PROVE StateIndex[result[v].state] \in 0..4
      <4>1. result[v].state \in {"not started", "queued", "started", "running",
                                 "cleaning"}
        BY <1>2, <3>2 DEF Result, State, Decisive
      <4>2. CASE result[v].state = "not started"
        <5>1. \A s \in State : s = "not started" => StateIndex[s] = 0
          BY Zenon DEF StateIndex
        <5>2. "not started" \in State BY DEF State
        <5>3. StateIndex["not started"] = 0 BY <5>1, <5>2
        <5>4. StateIndex[result[v].state] = 0 BY <4>2, <5>3, Zenon
        <5> QED BY <5>4
      <4>3. CASE result[v].state = "queued" BY <4>3 DEF StateIndex, State
      <4>4. CASE result[v].state = "started" BY <4>4 DEF StateIndex, State
      <4>5. CASE result[v].state = "running" BY <4>5 DEF StateIndex, State
      <4>6. CASE result[v].state = "cleaning" BY <4>6 DEF StateIndex, State
      <4> QED BY <4>1, <4>2, <4>3, <4>4, <4>5, <4>6
    <3> QED BY <2>2, <3>1, <3>2 DEF Backward
  <2> QED BY <1>1, <1>5, <2>1, <2>3 DEF Decided, canceled, Idle
<1>6. CASE at[v] = "setState"
  <2>1. /\ result'[v] = Res(given[v].state, Worst(result[v].outcome, given[v].outcome),
                            result[v].final)
        /\ at'[v] = "idle"
    BY <1>1, <1>6 DEF Stored, Following
  <2>2. result'[v].state = given[v].state /\ result'[v].final = result[v].final
    BY <2>1 DEF Res
  <2> QED BY <1>1, <1>6, <2>1, <2>2 DEF Decided, Decisive, canceled, Idle
<1> QED BY <1>1, <1>3, <1>4, <1>5, <1>6 DEF Statement

(* A request marks that it was made, takes a final mark away at most, and  *)
(* stores no other state than canceled.                                    *)
LEMMA DecidedRequest ==
  ASSUME TypeOK, NEW v \in Workflow, Decided(v),
         CancelRequest(v) \/ Terminate(v) \/ Cancel(v)
  PROVE  Decided(v)'
<1>1. pc' = pc /\ at' = at /\ given' = given /\ unlogged' = unlogged
  BY DEF CancelRequest, Terminate, Cancel, reports
<1>2. cpc'[v] # "idle"
  <2>1. CASE CancelRequest(v) \/ Terminate(v)
    BY <2>1 DEF CancelRequest, Terminate, TypeOK
  <2>2. CASE Cancel(v)
    <3>1. cpc'[v] = Following(cpc[v], result[v], Canceled, "done")
          /\ cpc[v] \in Statement
      BY <2>2 DEF Cancel, TypeOK
    <3>2. Following(cpc[v], result[v], Canceled, "done")
            \in Statement \union {"done"}
      BY <3>1, FollowingIsPlace
    <3> QED BY <3>1, <3>2 DEF Statement
  <2> QED BY <2>1, <2>2
<1>3. /\ result'[v].final => result[v].final
      /\ result'[v].state \in {result[v].state, "canceled"}
  <2>1. CASE CancelRequest(v) \/ Terminate(v)
    BY <2>1 DEF CancelRequest, Terminate
  <2>2. CASE Cancel(v)
    <3>1. result'[v] = Stored(cpc[v], result[v], Canceled)
          /\ cpc[v] \in Statement
      BY <2>2 DEF Cancel, TypeOK
    <3>2. result[v] \in Result BY DEF TypeOK
    <3> QED BY <3>1, <3>2 DEF Stored, Canceled, Res, Result, Statement
  <2> QED BY <2>1, <2>2
<1> QED BY <1>1, <1>2, <1>3 DEF Decided, Decisive, canceled, Idle

LEMMA DecidedStep ==
  ASSUME DecidedInv, [Next]_vars
  PROVE  DecidedInv'
<1>0. TypeOK /\ TypeOK' BY TypeStep DEF DecidedInv
<1>1. CASE UNCHANGED vars
  BY <1>0, <1>1 DEF vars, reports, DecidedInv, Decided, canceled, Idle
<1>2. ASSUME NEW v \in Workflow, Elsewhere(v) PROVE DecidedInv'
  <2>1. Decided(v)'
    BY <1>0, <1>2, DecidedUpdate, DecidedRequest DEF Elsewhere, DecidedInv
  <2>2. ASSUME NEW w \in Workflow \ {v}
        PROVE  /\ pc' = pc /\ given' = given /\ unlogged' = unlogged
               /\ result'[w] = result[w] /\ at'[w] = at[w] /\ cpc'[w] = cpc[w]
    BY <1>0, <1>2 DEF Elsewhere, UpdateStep, CancelRequest, Terminate, Cancel,
                      reports, TypeOK
  <2>3. ASSUME NEW w \in Workflow \ {v} PROVE Decided(w)'
    BY <2>2 DEF DecidedInv, Decided, canceled, Idle
  <2> QED BY <1>0, <2>1, <2>3 DEF DecidedInv
<1> QED BY <1>1, <1>2, NextCases, DecidedRun

(* A workflow that ends and could log its failures has a final result or   *)
(* was asked to be canceled, and in either case a state that is complete,  *)
(* DNF or canceled, however the statements of the request and of the       *)
(* reports interleave.                                                     *)
THEOREM NobodyEndsUndecided == Spec => []EndsDecided
<1>1. Init => DecidedInv
  <2>1. Init => \A w \in Workflow :
          /\ pc[w] = "new" /\ at[w] = "idle"
          /\ result[w] = NotStarted /\ given[w] = NotStarted
    BY DEF Init
  <2>2. NotStarted.state = "not started" /\ ~NotStarted.final
    BY DEF NotStarted, Res
  <2> QED BY <2>1, <2>2, InitTypeOK DEF DecidedInv, Decided, canceled, Idle, Late
<1>2. DecidedInv /\ [Next]_vars => DecidedInv' BY DecidedStep
<1>3. DecidedInv => EndsDecided
  <2>1. ASSUME DecidedInv, NEW w \in Workflow \ unlogged, At(w, "ended")
        PROVE  /\ result[w].final \/ cpc[w] # "idle"
               /\ result[w].state \in {"canceled", "complete", "DNF"}
    BY <2>1 DEF DecidedInv, Decided, Decisive, At, Idle, Late
  <2> QED BY <2>1 DEF EndsDecided
<1> QED BY <1>1, <1>2, <1>3, PTL DEF Spec

----------------------------------------------------------------------------
(* A crc canceled before its slot came gets no VM *)

(* The way from the slot to the end that starts no VM.                     *)
NoVMComes(w) ==
  /\ vm[w] # "up"
  /\ \/ pc[w] \in {"slot", "check", "execute"} /\ Settled(w)
     \/ pc[w] \in Late

LEMMA NoVMRun ==
  ASSUME TypeOK, NEW w \in Workflow, NoVMComes(w), NEW v \in Workflow, Run(v)
  PROVE  NoVMComes(w)'
<1>0. result' = result BY RunFrame
<1>1. CASE v # w
  <2>1. pc'[w] = pc[w] /\ at'[w] = at[w] BY <1>1, RunFrame
  <2>2. vm'[w] = vm[w]
    <3>1. vm' = vm \/ vm' = Stopped(v) \/ vm' = [vm EXCEPT ![v] = "up"]
      BY DEF Run, Start, EnterSetup, BuildImage, JoinBranch, Clone,
         AcquireSlot, CheckCanceled, StartVM, Boot, WaitForWebUI, Execute,
         TestEnds, LogRaises, TearDown, ReleaseSlot, LeaveBranch
    <3> QED BY <1>1, <3>1 DEF Stopped, TypeOK
  <2> QED BY <1>0, <2>1, <2>2 DEF NoVMComes, Settled, canceled, Idle
<1>2. CASE v = w
  <2>1. ASSUME NEW place, Goto(w, place), vm'[w] # "up",
               \/ place \in Late
               \/ place \in {"check", "execute"} /\ UNCHANGED reports /\ Settled(w)
        PROVE  NoVMComes(w)'
    <3>1. pc'[w] = place BY <2>1 DEF Goto, TypeOK
    <3> QED BY <1>0, <2>1, <3>1 DEF NoVMComes, Settled, canceled, Idle, reports
  <2>2. CASE AcquireSlot(w)
    <3>1. Settled(w) BY <2>2 DEF AcquireSlot, NoVMComes, At, Late
    <3> QED BY <2>1, <2>2, <3>1 DEF AcquireSlot, NoVMComes
  <2>3. CASE CheckCanceled(w)
    <3>1. Settled(w) BY <2>3 DEF CheckCanceled, NoVMComes, At, Late
    <3> QED BY <2>1, <2>3, <3>1 DEF CheckCanceled, NoVMComes, Settled
  <2>4. CASE Execute(w)
    <3>1. Settled(w) BY <2>4 DEF Execute, NoVMComes, At, Late
    <3> QED BY <2>1, <2>4, <3>1 DEF Execute, NoVMComes, Settled, Late
  <2>5. CASE TearDown(w)
    <3>1. vm'[w] # "up" BY <2>5 DEF TearDown, Stopped, NoVMComes, TypeOK
    <3> QED BY <2>1, <2>5, <3>1 DEF TearDown, Late
  <2>6. CASE ReleaseSlot(w) \/ LeaveBranch(w) \/ LogRaises(w)
    <3>1. vm' = vm BY <2>6 DEF ReleaseSlot, LeaveBranch, LogRaises
    <3>2. PICK place \in Late : Goto(w, place)
      BY <2>6 DEF ReleaseSlot, LeaveBranch, LogRaises, MayRaise, Fail, Late
    <3> QED BY <2>1, <3>1, <3>2 DEF NoVMComes
  <2>7. /\ ~Start(w) /\ ~EnterSetup(w) /\ ~BuildImage(w) /\ ~JoinBranch(w)
        /\ ~Clone(w) /\ ~StartVM(w) /\ ~Boot(w) /\ ~WaitForWebUI(w)
        /\ ~TestEnds(w)
    BY DEF NoVMComes, Late, At, Start, EnterSetup, BuildImage, JoinBranch,
           Clone, StartVM, Boot, WaitForWebUI, TestEnds
  <2> QED BY <1>2, <2>2, <2>3, <2>4, <2>5, <2>6, <2>7 DEF Run
<1> QED BY <1>1, <1>2

LEMMA NoVMStep ==
  ASSUME TypeOK, NEW w \in Workflow, NoVMComes(w), [Next]_vars
  PROVE  NoVMComes(w)'
<1>1. CASE UNCHANGED vars
  BY <1>1 DEF vars, reports, NoVMComes, Settled, canceled, Idle
<1>2. ASSUME NEW v \in Workflow, Elsewhere(v) PROVE NoVMComes(w)'
  <2>1. pc' = pc /\ (Settled(w) => Settled(w)')
    BY <1>2, ElsewhereFrame DEF Settled
  <2>2. vm'[w] # "up" BY <1>2, ElsewhereVM DEF NoVMComes
  <2> QED BY <2>1, <2>2 DEF NoVMComes
<1> QED BY <1>1, <1>2, NextCases, NoVMRun

(* No VM was started before a slot was taken, and nothing was reported.    *)
UnslottedInv ==
  /\ TypeOK
  /\ \A w \in Workflow : pc[w] \in Early => vm[w] = "none" /\ Idle(w)

LEMMA UnslottedRun ==
  ASSUME UnslottedInv, NEW v \in Workflow, Run(v)
  PROVE  UnslottedInv'
<1>0. TypeOK /\ TypeOK' BY RunType DEF UnslottedInv
<1>1. ASSUME NEW w \in Workflow \ {v}
      PROVE  pc'[w] \in Early => vm'[w] = "none" /\ Idle(w)'
  <2>1. vm' = vm \/ vm' = Stopped(v) \/ vm' = [vm EXCEPT ![v] = "up"]
    BY DEF Run, Start, EnterSetup, BuildImage, JoinBranch, Clone,
       AcquireSlot, CheckCanceled, StartVM, Boot, WaitForWebUI, Execute,
       TestEnds, LogRaises, TearDown, ReleaseSlot, LeaveBranch
  <2>2. vm'[w] = vm[w] BY <1>0, <2>1 DEF Stopped, TypeOK
  <2>3. pc'[w] = pc[w] /\ at'[w] = at[w] BY <1>0, RunFrame
  <2> QED BY <2>2, <2>3 DEF UnslottedInv, Idle
<1>2. pc'[v] \in Early => vm'[v] = "none" /\ Idle(v)'
  <2>1. CASE /\ Start(v) \/ EnterSetup(v) \/ BuildImage(v) \/ JoinBranch(v)
                \/ Clone(v)
             /\ ~Goto(v, "teardown")
    <3>1. UNCHANGED reports /\ vm' = vm /\ pc[v] \in Early
      BY <2>1 DEF Start, EnterSetup, BuildImage, JoinBranch, Clone, MayRaise,
                  Fail, At, Early
    <3> QED BY <3>1 DEF UnslottedInv, Idle, reports
  <2>2. CASE Goto(v, "teardown")
    <3>1. pc'[v] = "teardown" BY <1>0, <2>2 DEF Goto, TypeOK
    <3> QED BY <3>1 DEF Early
  <2>3. CASE AcquireSlot(v) \/ CheckCanceled(v) \/ StartVM(v) \/ Boot(v)
    <3>1. PICK place \in Places \ Early : Goto(v, place)
      BY <2>3 DEF AcquireSlot, CheckCanceled, StartVM, Boot, MayRaise, Fail,
                  Places, Early
    <3> QED BY <1>0, <3>1 DEF Goto, TypeOK
  <2>4. CASE WaitForWebUI(v) \/ Execute(v) \/ TestEnds(v) \/ LogRaises(v)
    <3>1. PICK place \in Places \ Early : Goto(v, place)
      BY <2>4 DEF WaitForWebUI, Execute, TestEnds, LogRaises, MayRaise, Fail,
                  Places, Early
    <3> QED BY <1>0, <3>1 DEF Goto, TypeOK
  <2>5. CASE TearDown(v) \/ ReleaseSlot(v) \/ LeaveBranch(v)
    <3>1. PICK place \in Places \ Early : Goto(v, place)
      BY <2>5 DEF TearDown, ReleaseSlot, LeaveBranch, Places, Early
    <3> QED BY <1>0, <3>1 DEF Goto, TypeOK
  <2> QED BY <2>1, <2>2, <2>3, <2>4, <2>5 DEF Run
<1> QED BY <1>0, <1>1, <1>2 DEF UnslottedInv

LEMMA UnslottedStep ==
  ASSUME UnslottedInv, [Next]_vars
  PROVE  UnslottedInv'
<1>0. TypeOK /\ TypeOK' BY TypeStep DEF UnslottedInv
<1>1. CASE UNCHANGED vars
  BY <1>0, <1>1 DEF vars, reports, UnslottedInv, Idle
<1>2. ASSUME NEW v \in Workflow, Elsewhere(v) PROVE UnslottedInv'
  <2>1. pc' = pc BY <1>0, <1>2, ElsewhereFrame
  <2>2. ASSUME NEW w \in Workflow PROVE Idle(w) => Idle(w)'
    BY <1>0, <1>2 DEF Elsewhere, UpdateStep, CancelRequest, Terminate, Cancel,
                      reports, Idle, Statement, TypeOK
  <2>3. ASSUME NEW w \in Workflow PROVE vm[w] = "none" => vm'[w] = "none"
    BY <1>0, <1>2, ElsewhereVM
  <2> QED BY <1>0, <2>1, <2>2, <2>3 DEF UnslottedInv
<1> QED BY <1>1, <1>2, NextCases, UnslottedRun

(* A crc canceled while its workflow waits for a slot gets no VM: the      *)
(* workflow looks at the crc again when the slot comes, before it reports. *)
THEOREM CancelBeforeSlot == Spec => CanceledGetsNoVM
<1>1. Init => UnslottedInv
  <2>1. Init => \A w \in Workflow : vm[w] = "none" /\ at[w] = "idle" BY DEF Init
  <2> QED BY <2>1, InitTypeOK DEF UnslottedInv, Idle
<1>2. UnslottedInv /\ [Next]_vars => UnslottedInv' BY UnslottedStep
<1>3. ASSUME NEW w \in Workflow
      PROVE  Spec => [](At(w, "slot") /\ canceled(w) => [](vm[w] # "up"))
  <2>1. UnslottedInv /\ NoVMComes(w) /\ [Next]_vars => NoVMComes(w)'
    BY NoVMStep DEF UnslottedInv
  <2>2. UnslottedInv /\ At(w, "slot") /\ canceled(w) => NoVMComes(w)
    BY DEF UnslottedInv, NoVMComes, Settled, At, Early
  <2>3. NoVMComes(w) => vm[w] # "up" BY DEF NoVMComes
  <2> QED BY <1>1, <1>2, <2>1, <2>2, <2>3, PTL DEF Spec
<1> QED BY <1>3 DEF CanceledGetsNoVM
=============================================================================

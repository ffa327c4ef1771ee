------------------------- MODULE ReportSendersProofs -------------------------
(***************************************************************************)
(* Proofs about Results and ReportSenders, for every set of crcs, test     *)
(* cases and senders and for every environment that delivers results.      *)
(***************************************************************************)
EXTENDS ReportSenders, TLAPS

(* The positions of states and outcomes are natural numbers. *)
LEMMA IndexType ==
  /\ \A s \in State : StateIndex[s] \in Nat
  /\ \A o \in Outcome : OutcomeIndex[o] \in Nat
  BY DEF State, StateIndex, Outcome, OutcomeIndex

(* Result.update turns results into results. *)
LEMMA UpdatedType ==
  ASSUME NEW r \in Result, NEW u \in Result
  PROVE  Updated(r, u) \in Result
  BY DEF Updated, Result, Res, Worst

(* Result.update, refused or not, leaves a result the old one precedes:    *)
(* in particular it never changes a final result.                          *)
LEMMA UpdatedPrecedes ==
  ASSUME NEW r \in Result, NEW u \in Result
  PROVE  Precedes(r, Updated(r, u))
  BY IndexType DEF Precedes, Updated, Result, Res, Worst, Backward

(* Every result precedes itself. *)
LEMMA PrecedesReflexive ==
  ASSUME NEW r \in Result
  PROVE  Precedes(r, r)
  BY IndexType DEF Precedes, Result

----------------------------------------------------------------------------

(* Types are kept by everything that happens to a sender: the steps of its *)
(* thread, its start, and the delivery of any message.                     *)
LEMMA SenderStepType ==
  ASSUME SenderTypeOK, NEW s \in Sender, SenderStep(s)
  PROVE  SenderTypeOK'
<1>1. CASE SetUp(s)
  BY <1>1 DEF SenderTypeOK, SetUp, Fail
<1>2. CASE Process(s)
  <2> DEFINE m == Head(queue[s])
             results == [view[s] EXCEPT ![m.crc] = Updated(@, m.res)]
  <2>1. m \in Message /\ Tail(queue[s]) \in Seq(Message)
    BY <1>2 DEF Process, SenderTypeOK
  <2>2. m.crc \in CRC /\ m.res \in Result
    BY <2>1 DEF Message
  <2>3. results \in [CRC -> Result]
    BY <2>2, UpdatedType DEF SenderTypeOK
  <2>4. testcaseOf[m.crc] \in TestCase
    BY <2>2, SenderAssumption
  <2>5. view' \in [Sender -> [CRC -> Result]] /\ queue' \in [Sender -> Seq(Message)]
    BY <1>2, <2>1, <2>3 DEF Process, SenderTypeOK
  <2>6. dirty' \in [Sender -> SUBSET CRC]
    BY <1>2, <2>2 DEF Process, SenderTypeOK
  <2>7. reported' \in [Sender -> SUBSET CRC]
    BY <1>2, <2>2 DEF Process, SenderTypeOK, FinalHook
  <2>8. closed' \in [Sender -> SUBSET TestCase]
    <3>1. UNCHANGED closed \/ CaseHook(s, m, results)
      BY <1>2 DEF Process
    <3>2. closed' = closed \/ closed' = [closed EXCEPT ![s] = @ \cup {testcaseOf[m.crc]}]
      BY <3>1 DEF CaseHook
    <3>3. closed \in [Sender -> SUBSET TestCase]
      BY DEF SenderTypeOK
    <3>4. closed[s] \cup {testcaseOf[m.crc]} \in SUBSET TestCase
      BY <2>4, <3>3
    <3> HIDE DEF m, results
    <3> QED
      BY <3>2, <3>3, <3>4
  <2>9. /\ spc' \in [Sender -> {"new", "setUp", "loop", "tearDown", "ended"}]
        /\ exc' \in [Sender -> BOOLEAN]
    <3>1. \/ /\ spc' = [spc EXCEPT ![s] = IF AllFinal(s, results) THEN "tearDown" ELSE "loop"]
             /\ exc' = exc
          \/ /\ spc' = [spc EXCEPT ![s] = "ended"]
             /\ exc' = [exc EXCEPT ![s] = TRUE]
      BY <1>2 DEF Process, Fail
    <3> HIDE DEF results
    <3> QED
      BY <3>1 DEF SenderTypeOK
  <2> QED
    BY <2>5, <2>6, <2>7, <2>8, <2>9 DEF SenderTypeOK
<1>3. CASE Flush(s)
  BY <1>3 DEF SenderTypeOK, Flush, Fail
<1>4. CASE TearDown(s)
  BY <1>4 DEF SenderTypeOK, TearDown, Fail
<1> QED
  BY <1>1, <1>2, <1>3, <1>4 DEF SenderStep

LEMMA StartSenderType ==
  ASSUME SenderTypeOK, NEW s \in Sender, StartSender(s)
  PROVE  SenderTypeOK'
  BY DEF SenderTypeOK, StartSender

LEMMA ResultUpdateType ==
  ASSUME SenderTypeOK, NEW s \in Sender, NEW m \in Message, ResultUpdate(s, m)
  PROVE  SenderTypeOK'
<1>1. Append(queue[s], m) \in Seq(Message)
  BY DEF SenderTypeOK
<1> QED
  BY <1>1 DEF SenderTypeOK, ResultUpdate

LEMMA SenderInitType == SenderInit => SenderTypeOK
<1>1. NotStarted \in Result
  BY DEF NotStarted, Res, Result, State, Outcome
<1> QED
  BY <1>1, SenderAssumption DEF SenderInit, SenderTypeOK

(* Every step of a sender, or on a sender, is one of these. *)
LEMMA SenderNextCases ==
  ASSUME SenderNext
  PROVE  \E s \in Sender :
           \/ StartSender(s)
           \/ SenderStep(s)
           \/ \E m \in Message : ResultUpdate(s, m)
<1>1. PICK s \in Sender : StartSender(s) \/ SenderStep(s) \/ Deliver(s)
  BY DEF SenderNext
<1>2. CASE Deliver(s)
  <2>1. PICK c \in CRC, r \in Reports : ResultUpdate(s, [crc |-> c, res |-> r])
    BY <1>2 DEF Deliver
  <2>2. [crc |-> c, res |-> r] \in Message
    BY SenderAssumption DEF Message
  <2> QED
    BY <2>1, <2>2
<1> QED
  BY <1>1, <1>2

(* The state of the senders is well typed whatever is delivered to them.   *)
THEOREM SenderTypeCorrect == SenderSpec => []SenderTypeOK
<1>1. SenderTypeOK /\ [SenderNext]_senderVars => SenderTypeOK'
  <2> SUFFICES ASSUME SenderTypeOK, [SenderNext]_senderVars PROVE SenderTypeOK'
    OBVIOUS
  <2>1. CASE SenderNext
    BY <2>1, SenderNextCases, SenderStepType, StartSenderType, ResultUpdateType
  <2>2. CASE UNCHANGED senderVars
    BY <2>2 DEF SenderTypeOK, senderVars
  <2> QED
    BY <2>1, <2>2
<1> QED
  BY <1>1, SenderInitType, PTL DEF SenderSpec

----------------------------------------------------------------------------

(* Only Process changes a view, and it changes it by Updated. *)
LEMMA StepAdvances ==
  ASSUME SenderTypeOK, NEW s \in Sender,
         StartSender(s) \/ SenderStep(s) \/ (\E m \in Message : ResultUpdate(s, m))
  PROVE  \A q \in Sender : \A c \in CRC : Precedes(view[q][c], view'[q][c])
<1>1. CASE view' = view
  BY <1>1, PrecedesReflexive DEF SenderTypeOK
<1>2. CASE Process(s)
  <2> DEFINE m == Head(queue[s])
  <2>1. m \in Message
    BY <1>2 DEF Process, SenderTypeOK
  <2>2. m.crc \in CRC /\ m.res \in Result
    BY <2>1 DEF Message
  <2>3. view' = [view EXCEPT ![s] =
                   [view[s] EXCEPT ![m.crc] = Updated(view[s][m.crc], m.res)]]
    BY <1>2 DEF Process
  <2>4. SUFFICES ASSUME NEW q \in Sender, NEW c \in CRC
                 PROVE  Precedes(view[q][c], view'[q][c])
    OBVIOUS
  <2>5. view[q][c] \in Result
    BY DEF SenderTypeOK
  <2>6. \/ view'[q][c] = view[q][c]
        \/ view'[q][c] = Updated(view[q][c], m.res)
    BY <2>2, <2>3 DEF SenderTypeOK
  <2> QED
    BY <2>2, <2>5, <2>6, UpdatedPrecedes, PrecedesReflexive
<1> QED
  BY <1>1, <1>2 DEF SenderStep, StartSender, SetUp, Flush, TearDown, ResultUpdate

(* A sender's own copy never goes back, never improves its outcome and     *)
(* keeps a final result, even if updates arrive out of order.              *)
THEOREM ViewAdvances == SenderSpec => ViewOnlyAdvances
<1> DEFINE Advances == \A s \in Sender : \A c \in CRC : Precedes(view[s][c], view'[s][c])
<1>1. SenderTypeOK /\ [SenderNext]_senderVars => [Advances]_senderVars
  BY SenderNextCases, StepAdvances
<1> QED
  BY <1>1, SenderTypeCorrect, PTL DEF SenderSpec, ViewOnlyAdvances

----------------------------------------------------------------------------

(* An update is final afterwards iff it was before or the new one is. *)
LEMMA UpdatedFinal ==
  ASSUME NEW r \in Result, NEW u \in Result
  PROVE  Updated(r, u).final <=> (r.final \/ u.final)
  BY DEF Updated, Result, Res

(* A sender is only ever given messages about its own crcs. *)
OwnMessages == \A s \in Sender : queue[s] \in Seq([crc : crcsOf[s], res : Result])

(* Every step keeps OwnMessages. *)
LEMMA OwnMessagesStep ==
  ASSUME SenderTypeOK, OwnMessages, NEW s \in Sender,
         StartSender(s) \/ SenderStep(s) \/ (\E m \in Message : ResultUpdate(s, m))
  PROVE  OwnMessages'
<1>1. CASE queue' = queue
  BY <1>1 DEF OwnMessages
<1>2. CASE Process(s)
  <2>1. Tail(queue[s]) \in Seq([crc : crcsOf[s], res : Result])
    BY <1>2 DEF Process, OwnMessages
  <2> QED
    BY <1>2, <2>1 DEF Process, OwnMessages, SenderTypeOK
<1>3. ASSUME NEW m \in Message, ResultUpdate(s, m)
      PROVE  OwnMessages'
  <2>1. m \in [crc : crcsOf[s], res : Result]
    BY <1>3 DEF ResultUpdate, Message
  <2>2. Append(queue[s], m) \in Seq([crc : crcsOf[s], res : Result])
    BY <2>1 DEF OwnMessages
  <2> QED
    BY <1>3, <2>2 DEF ResultUpdate, OwnMessages, SenderTypeOK
<1> QED
  BY <1>1, <1>2, <1>3 DEF SenderStep, StartSender, SetUp, Flush, TearDown

(* The two halves of HooksFollowView for sender s and the results rs. *)
ReportedFollow(s, rep, rs) == rep = {c \in crcsOf[s] : rs[c].final}

ClosedFollow(s, cl, rs) ==
  cl = {testcaseOf[c] : c \in {d \in crcsOf[s] : CaseFinal(s, testcaseOf[d], rs)}}

(* The hooks called for an update keep up with the view it changes. *)
LEMMA HooksKeepUp ==
  ASSUME SenderTypeOK, NEW s \in Sender \ Throttled,
         NEW m \in [crc : crcsOf[s], res : Result],
         NEW rs \in [CRC -> Result],
         rs = [view[s] EXCEPT ![m.crc] = Updated(@, m.res)],
         FinalHook(s, m), CaseHook(s, m, rs),
         ReportedFollow(s, reported[s], view[s]),
         ClosedFollow(s, closed[s], view[s])
  PROVE  ReportedFollow(s, reported'[s], rs) /\ ClosedFollow(s, closed'[s], rs)
<1> DEFINE tc == testcaseOf[m.crc]
<1>1. m.crc \in crcsOf[s] /\ m.crc \in CRC /\ m.res \in Result /\ crcsOf[s] \subseteq CRC
  BY SenderAssumption
<1>2. \A c \in CRC : rs[c].final <=> (view[s][c].final \/ (c = m.crc /\ m.res.final))
  <2> TAKE c \in CRC
  <2>1. view[s][c] \in Result
    BY DEF SenderTypeOK
  <2>2. rs[c] = IF c = m.crc THEN Updated(view[s][c], m.res) ELSE view[s][c]
    BY <1>1 DEF SenderTypeOK
  <2> QED
    BY <1>1, <2>1, <2>2, UpdatedFinal
<1>3. CASE ~m.res.final
  <2>1. UNCHANGED <<reported, closed>>
    BY <1>3 DEF FinalHook, CaseHook
  <2>2. \A t : CaseFinal(s, t, rs) <=> CaseFinal(s, t, view[s])
    BY <1>1, <1>2, <1>3 DEF CaseFinal
  <2> QED
    BY <1>1, <1>2, <1>3, <2>1, <2>2 DEF ReportedFollow, ClosedFollow
<1>4. CASE m.res.final
  <2>1. reported'[s] = reported[s] \cup {m.crc}
    BY <1>4 DEF FinalHook, SenderTypeOK
  <2>2. ReportedFollow(s, reported'[s], rs)
    BY <1>1, <1>2, <1>4, <2>1 DEF ReportedFollow
  <2>3. \A t : t # tc => (CaseFinal(s, t, rs) <=> CaseFinal(s, t, view[s]))
    BY <1>1, <1>2 DEF CaseFinal
  <2>4. CaseFinal(s, tc, view[s]) => CaseFinal(s, tc, rs)
    BY <1>1, <1>2 DEF CaseFinal
  <2>5. closed'[s] = IF CaseFinal(s, tc, rs) THEN closed[s] \cup {tc} ELSE closed[s]
    BY <1>4 DEF CaseHook, SenderTypeOK
  <2>6. ClosedFollow(s, closed'[s], rs)
    BY <1>1, <2>3, <2>4, <2>5 DEF ClosedFollow
  <2> QED
    BY <2>2, <2>6
<1> QED
  BY <1>3, <1>4

HooksFollow(s) ==
  ReportedFollow(s, reported[s], view[s]) /\ ClosedFollow(s, closed[s], view[s])

LEMMA HooksFollowViewEquiv ==
  HooksFollowView <=> \A s \in Sender \ Throttled : Working(s) => HooksFollow(s)
  BY DEF HooksFollowView, HooksFollow, ReportedFollow, ClosedFollow

(* Every step keeps HooksFollowView. *)
LEMMA HooksFollowViewStep ==
  ASSUME SenderTypeOK, OwnMessages, HooksFollowView, NEW s \in Sender,
         StartSender(s) \/ SenderStep(s) \/ (\E m \in Message : ResultUpdate(s, m))
  PROVE  HooksFollowView'
<1> SUFFICES ASSUME NEW q \in Sender \ Throttled, Working(q)'
             PROVE  HooksFollow(q)'
  BY DEF HooksFollowView, HooksFollow, ReportedFollow, ClosedFollow
<1>1. Working(q) => HooksFollow(q)
  BY HooksFollowViewEquiv
<1>2. CASE /\ view'[q] = view[q]
           /\ reported'[q] = reported[q]
           /\ closed'[q] = closed[q]
           /\ Working(q)
  BY <1>1, <1>2 DEF HooksFollow, ReportedFollow, ClosedFollow, CaseFinal
<1>3. CASE Process(s)
  <2>1. CASE q # s
    BY <1>2, <1>3, <2>1
       DEF Process, FinalHook, CaseHook, Fail, SenderTypeOK, Working
  <2>2. CASE q = s
    <3> DEFINE m == Head(queue[s])
               rs == [view[s] EXCEPT ![m.crc] = Updated(@, m.res)]
    <3>1. m \in [crc : crcsOf[s], res : Result]
      <4> DEFINE Own == [crc : crcsOf[s], res : Result]
      <4>1. queue[s] \in Seq(Own) /\ queue[s] # <<>>
        BY <1>3 DEF Process, OwnMessages
      <4> HIDE DEF Own
      <4>2. Head(queue[s]) \in Own
        BY <4>1
      <4> QED
        BY <4>2 DEF Own
    <3>2. m.crc \in CRC /\ m.res \in Result
      BY <3>1, SenderAssumption
    <3>3. rs \in [CRC -> Result]
      BY <3>2, UpdatedType DEF SenderTypeOK
    <3>4. ~Fail(s)
      BY <2>2 DEF Fail, Working, SenderTypeOK
    <3>5. FinalHook(s, m) /\ CaseHook(s, m, rs) /\ view'[s] = rs
      BY <1>3, <3>4 DEF Process, SenderTypeOK
    <3>6. Working(s)
      BY <1>3 DEF Process, Working
    <3>7. ReportedFollow(s, reported[s], view[s]) /\ ClosedFollow(s, closed[s], view[s])
      BY <1>1, <2>2, <3>6 DEF HooksFollow
    <3>8. ReportedFollow(s, reported'[s], rs) /\ ClosedFollow(s, closed'[s], rs)
      <4> HIDE DEF m
      <4> QED
        BY <2>2, <3>1, <3>3, <3>5, <3>7, HooksKeepUp
    <3> QED
      BY <2>2, <3>5, <3>8 DEF HooksFollow, ReportedFollow, ClosedFollow, CaseFinal
  <2> QED
    BY <2>1, <2>2
<1>4. CASE SetUp(s) \/ Flush(s) \/ TearDown(s) \/ StartSender(s)
           \/ \E m \in Message : ResultUpdate(s, m)
  <2>1. view' = view /\ closed' = closed
    BY <1>4 DEF SetUp, Flush, TearDown, StartSender, ResultUpdate
  <2>2. reported'[q] = reported[q]
    BY <1>4 DEF SetUp, Flush, TearDown, StartSender, ResultUpdate, SenderTypeOK
  <2>3. Working(q)
    BY <1>4 DEF SetUp, Flush, TearDown, StartSender, ResultUpdate, Working,
                Fail, SenderTypeOK
  <2> QED
    BY <1>2, <2>1, <2>2, <2>3
<1> QED
  BY <1>3, <1>4 DEF SenderStep

(* A sender that has not failed has passed on exactly the final results it *)
(* holds, and closed exactly the test cases they complete.                 *)
THEOREM HooksCorrect == SenderSpec => []HooksFollowView
<1> DEFINE HooksInv == OwnMessages /\ HooksFollowView
<1>1. SenderInit => HooksInv
  <2> SUFFICES ASSUME SenderInit PROVE HooksInv
    OBVIOUS
  <2>1. OwnMessages
    BY DEF SenderInit, OwnMessages
  <2>2. \A s \in Sender \ Throttled : HooksFollow(s)
    BY SenderAssumption DEF SenderInit, HooksFollow, ReportedFollow, ClosedFollow,
                            CaseFinal, NotStarted, Res
  <2> QED
    BY <2>1, <2>2, HooksFollowViewEquiv
<1>2. SenderTypeOK /\ HooksInv /\ [SenderNext]_senderVars => HooksInv'
  <2> SUFFICES ASSUME SenderTypeOK, HooksInv, [SenderNext]_senderVars PROVE HooksInv'
    OBVIOUS
  <2>1. CASE SenderNext
    BY <2>1, SenderNextCases, OwnMessagesStep, HooksFollowViewStep
  <2>2. CASE UNCHANGED senderVars
    BY <2>2 DEF senderVars, OwnMessages, HooksFollowView, Working, CaseFinal
  <2> QED
    BY <2>1, <2>2
<1>3. HooksInv => HooksFollowView
  OBVIOUS
<1> QED
  BY <1>1, <1>2, <1>3, SenderTypeCorrect, PTL DEF SenderSpec
=============================================================================

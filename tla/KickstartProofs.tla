--------------------------- MODULE KickstartProofs ---------------------------
(***************************************************************************)
(* For any batch of kickstart tests: the types, that every crc ends with   *)
(* the result its runs give it, or with an error, that no file is left     *)
(* unless the clone failed, and that the summary says how the tests ended. *)
(***************************************************************************)
EXTENDS KickstartBatch, FiniteSetTheorems, WellFoundedInduction, TLAPS

----------------------------------------------------------------------------
(* Results.                                                                *)

LEMMA ResIsResult ==
  ASSUME NEW s \in State, NEW o \in Outcome, NEW f \in BOOLEAN
  PROVE  Res(s, o, f) \in Result
BY DEF Res, Result

LEMMA UpdatedIsResult ==
  ASSUME NEW r \in Result, NEW u \in Result
  PROVE  Updated(r, u) \in Result
BY DEF Updated, Result, Res, Worst

(* States that come before those a result ends with. *)
Early == {"not started", "queued", "started", "running"}

(* A result without a decision: an early state, and no outcome. *)
Open(r) == ~r.final /\ r.outcome = "None" /\ r.state \in Early

LEMMA StaysOpen ==
  ASSUME NEW r \in Result, Open(r), NEW s \in Early
  PROVE  Open(Updated(r, Res(s, "None", FALSE)))
<1>1. Worst("None", "None") = "None" BY DEF Worst
<1> QED BY <1>1 DEF Open, Updated, Res, Result

LEMMA Decides ==
  ASSUME NEW r \in Result, Open(r), NEW o \in {"None", "PASS", "FAIL"}
  PROVE  Updated(r, Res("complete", o, TRUE)) = Res("complete", o, TRUE)
<1>1. Worst("None", o) = o BY DEF Worst, OutcomeIndex, Outcome
<1>2. ~Backward(r, Res("complete", o, TRUE))
  <2>1. Res("complete", o, TRUE).state = "complete" BY DEF Res
  <2>2. StateIndex["complete"] = 6 BY DEF StateIndex, State
  <2>3. r.state \in Early BY DEF Open
  <2>4. StateIndex[r.state] \in 0..3
    <3>1. CASE r.state = "not started"
      <4>1. \A s \in State : s = "not started" => StateIndex[s] = 0
        BY Zenon DEF StateIndex
      <4>2. "not started" \in State BY DEF State
      <4>3. StateIndex["not started"] = 0 BY <4>1, <4>2
      <4>4. StateIndex[r.state] = 0 BY <3>1, <4>3, Zenon
      <4> QED BY <4>4
    <3>2. CASE r.state = "queued" BY <3>2 DEF StateIndex, State
    <3>3. CASE r.state = "started" BY <3>3 DEF StateIndex, State
    <3>4. CASE r.state = "running" BY <3>4 DEF StateIndex, State
    <3> QED BY <2>3, <3>1, <3>2, <3>3, <3>4 DEF Early
  <2>5. ~(6 < StateIndex[r.state]) BY <2>4
  <2> QED BY <2>1, <2>2, <2>5 DEF Backward
<1>3. ~r.final /\ r.outcome = "None" BY DEF Open
<1>4. /\ Res("complete", o, TRUE).state = "complete"
      /\ Res("complete", o, TRUE).outcome = o /\ Res("complete", o, TRUE).final = TRUE
  BY DEF Res
<1>5. Updated(r, Res("complete", o, TRUE)) = Res("complete", Worst("None", o), TRUE)
  BY <1>2, <1>3, <1>4 DEF Updated
<1> QED BY <1>1, <1>5

LEMMA FailureDecides ==
  ASSUME NEW r \in Result
  PROVE  Updated(r, Failure) \in Result /\ Updated(r, Failure).final
<1>1. Failure \in Result BY ResIsResult DEF Failure, State, Outcome
<1> QED BY <1>1, UpdatedIsResult DEF Updated, Failure, Res, Result

LEMMA FinalStays ==
  ASSUME NEW r \in Result, NEW u, r.final
  PROVE  Updated(r, u) = r
BY DEF Updated

----------------------------------------------------------------------------
(* The results of one test.                                                *)

LEMMA EmptySeq ==
  ASSUME NEW s \in Seq(Verdict), Len(s) = 0
  PROVE  s = <<>>
OBVIOUS

DecisiveOf(rs) ==
  IF rs # <<>> /\ given.retry /\ rs[1] = "FAILED" THEN Tail(rs) ELSE rs

OutcomeOf(v) ==
  CASE v = "SUCCESS" -> "PASS" [] v = "FAILED" -> "FAIL" [] OTHER -> "None"

(* A result of the launcher is a flake and decides nothing, or is the      *)
(* first one that decides, or comes after it.                              *)
LEMMA NextResult ==
  ASSUME NEW rs \in Seq(Verdict), NEW v \in Verdict
  PROVE  LET new == Append(rs, v)
         IN \/ /\ DecisiveOf(rs) = <<>> /\ DecisiveOf(new) = <<>>
               /\ PermianResult(new) = Res("running", "None", FALSE)
            \/ /\ DecisiveOf(rs) = <<>> /\ DecisiveOf(new) # <<>>
               /\ DecisiveOf(new)[1] = v
               /\ PermianResult(new) = Res("complete", OutcomeOf(v), TRUE)
            \/ /\ DecisiveOf(rs) # <<>> /\ DecisiveOf(new) # <<>>
               /\ DecisiveOf(new)[1] = DecisiveOf(rs)[1]
<1> SUFFICES ASSUME NEW new, new = Append(rs, v)
             PROVE  \/ /\ DecisiveOf(rs) = <<>> /\ DecisiveOf(new) = <<>>
                       /\ PermianResult(new) = Res("running", "None", FALSE)
                    \/ /\ DecisiveOf(rs) = <<>> /\ DecisiveOf(new) # <<>>
                       /\ DecisiveOf(new)[1] = v
                       /\ PermianResult(new) = Res("complete", OutcomeOf(v), TRUE)
                    \/ /\ DecisiveOf(rs) # <<>> /\ DecisiveOf(new) # <<>>
                       /\ DecisiveOf(new)[1] = DecisiveOf(rs)[1]
  OBVIOUS
<1>1. /\ new \in Seq(Verdict) /\ Len(new) = Len(rs) + 1 /\ new # <<>>
      /\ new[Len(rs) + 1] = v /\ \A i \in 1..Len(rs) : new[i] = rs[i]
  OBVIOUS
<1>2. Last(new) = v BY <1>1 DEF Last
<1>3. Verdict = {"SUCCESS", "FAILED", "other"} BY DEF Verdict
<1>4. ASSUME ~IsFlake(new)
      PROVE  PermianResult(new) = Res("complete", OutcomeOf(v), TRUE)
  BY <1>2, <1>3, <1>4 DEF PermianResult, OutcomeOf
<1>5. ASSUME IsFlake(new)
      PROVE  PermianResult(new) = Res("running", "None", FALSE)
  <2>1. v = "FAILED" BY <1>1, <1>5 DEF IsFlake
  <2> QED BY <1>2, <1>5, <2>1 DEF PermianResult
<1>6. Tail(new) \in Seq(Verdict) /\ Len(Tail(new)) = Len(rs)
      /\ \A i \in 1..Len(rs) : Tail(new)[i] = new[i + 1]
  BY <1>1
<1>7. CASE rs = <<>>
  <2>1. Len(new) = 1 /\ new[1] = v /\ Tail(new) = <<>> /\ DecisiveOf(rs) = <<>>
    BY <1>1, <1>6, <1>7 DEF DecisiveOf
  <2>2. CASE IsFlake(new)
    <3>1. DecisiveOf(new) = <<>> BY <1>1, <2>1, <2>2 DEF DecisiveOf, IsFlake
    <3> QED BY <1>5, <2>1, <2>2, <3>1
  <2>3. CASE ~IsFlake(new)
    <3>1. DecisiveOf(new) = new BY <1>1, <2>1, <2>3 DEF DecisiveOf, IsFlake
    <3> QED BY <1>1, <1>4, <2>1, <2>3, <3>1
  <2> QED BY <2>2, <2>3
<1>8. CASE rs # <<>> /\ ~(given.retry /\ rs[1] = "FAILED")
  <2>1. Len(rs) > 0 /\ new[1] = rs[1] BY <1>1, <1>8
  <2>2. DecisiveOf(rs) = rs /\ DecisiveOf(new) = new BY <1>1, <1>8, <2>1 DEF DecisiveOf
  <2> QED BY <1>1, <1>8, <2>1, <2>2
<1>9. CASE rs # <<>> /\ given.retry /\ rs[1] = "FAILED"
  <2>1. Len(rs) > 0 /\ new[1] = rs[1] BY <1>1, <1>9
  <2>2. DecisiveOf(rs) = Tail(rs) /\ DecisiveOf(new) = Tail(new)
    BY <1>1, <1>9, <2>1 DEF DecisiveOf
  <2>3. Tail(rs) \in Seq(Verdict) /\ Len(Tail(rs)) = Len(rs) - 1
        /\ \A i \in 1..Len(rs) - 1 : Tail(rs)[i] = rs[i + 1]
    BY <1>9, <2>1
  <2>4. Tail(new) # <<>> BY <1>6, <2>1
  <2>5. CASE Len(rs) = 1
    <3>1. Tail(rs) = <<>>
      <4>1. Tail(rs) \in Seq(Verdict) /\ Len(Tail(rs)) = 0 BY <2>3, <2>5
      <4> QED BY <4>1, EmptySeq
    <3>2. Tail(new)[1] = v BY <1>1, <1>6, <2>5
    <3>3. ~IsFlake(new) BY <1>1, <2>5 DEF IsFlake
    <3> QED BY <1>4, <2>2, <2>4, <3>1, <3>2, <3>3
  <2>6. CASE Len(rs) > 1
    <3>1. Tail(rs) # <<>> /\ Tail(rs)[1] = rs[2] BY <2>3, <2>6
    <3>2. Tail(new)[1] = rs[2] BY <1>1, <1>6, <2>6
    <3> QED BY <2>2, <2>4, <3>1, <3>2
  <2>7. Len(rs) = 1 \/ Len(rs) > 1
    <3>1. Len(rs) \in Nat OBVIOUS
    <3>2. Len(rs) > 0 BY <2>1
    <3>3. \A n \in Nat : n > 0 => n = 1 \/ n > 1 OBVIOUS
    <3> QED BY <3>1, <3>2, <3>3, Zenon
  <2> QED BY <2>5, <2>6, <2>7
<1> QED BY <1>7, <1>8, <1>9
----------------------------------------------------------------------------
(* The invariant.                                                          *)

(* What each place of the thread knows of the files and the failures. *)
PlaceKnows ==
  /\ place = "setup" =>
       failures = {} /\ ~isoUrl /\ ~isoDest /\ ~iso /\ ~tempRepo
  /\ place = "clone" => failures = {} /\ isoUrl /\ ~isoDest /\ ~iso
  /\ place \in {"fetch", "execute", "runner"} => failures = {} /\ isoUrl /\ isoDest
  /\ place = "teardown" =>
       /\ "clone" \in failures <=> (isoUrl /\ ~isoDest)
       /\ "clone" \in failures => tempRepo
  /\ place = "ended" => ((overrides \/ tempRepo \/ iso) <=> "clone" \in failures)

(* A crc follows its test: open until a result decides, final after it. *)
Follows(r, rs) ==
  /\ DecisiveOf(rs) = <<>> => Open(r)
  /\ DecisiveOf(rs) # <<>> => r.final /\ r.outcome = OutcomeOf(DecisiveOf(rs)[1])

AllFollow == \A c \in CRC : Follows(results[c], runs[testOf[c]])

NotRunYet ==
  place \in {"setup", "clone", "fetch", "execute"} => \A t \in Test : runs[t] = <<>>

KickstartInv ==
  /\ KickstartTypeOK
  /\ given \in Input
  /\ PlaceKnows
  /\ NotRunYet
  /\ failures \subseteq {"teardown"} => AllFollow
  /\ FailureIsFinal

Booleans == isoUrl \in BOOLEAN /\ isoDest \in BOOLEAN /\ iso \in BOOLEAN
            /\ overrides \in BOOLEAN /\ tempRepo \in BOOLEAN

LEMMA NothingDecided == DecisiveOf(<<>>) = <<>>
BY DEF DecisiveOf

LEMMA RunResultIsResult ==
  ASSUME NEW rs
  PROVE  PermianResult(rs) \in Result
<1>1. Res("running", "None", FALSE) \in Result BY ResIsResult DEF State, Outcome
<1>2. Res("complete", "PASS", TRUE) \in Result BY ResIsResult DEF State, Outcome
<1>3. Res("complete", "FAIL", TRUE) \in Result BY ResIsResult DEF State, Outcome
<1>4. Res("complete", "None", TRUE) \in Result BY ResIsResult DEF State, Outcome
<1> QED BY <1>1, <1>2, <1>3, <1>4 DEF PermianResult

LEMMA ReportKeepsTypes ==
  ASSUME results \in [CRC -> Result], NEW crcs, NEW u \in Result, Report(crcs, u)
  PROVE  results' \in [CRC -> Result]
<1>1. \A c \in CRC : Updated(results[c], u) \in Result BY UpdatedIsResult
<1> QED BY <1>1 DEF Report

(* An early report to a crc whose test has no result keeps it open. *)
LEMMA EarlyFollows ==
  ASSUME NEW r \in Result, NEW rs, rs = <<>>, Follows(r, rs), NEW s \in Early
  PROVE  Updated(r, Res(s, "None", FALSE)) \in Result
         /\ Follows(Updated(r, Res(s, "None", FALSE)), rs)
<1>1. Open(r) BY NothingDecided DEF Follows
<1>2. Res(s, "None", FALSE) \in Result BY ResIsResult DEF Early, State, Outcome
<1>3. Updated(r, Res(s, "None", FALSE)) \in Result BY <1>2, UpdatedIsResult
<1>4. Open(Updated(r, Res(s, "None", FALSE))) BY <1>1, StaysOpen
<1> QED BY <1>3, <1>4, NothingDecided DEF Follows

(* The report of one more result of the test. *)
LEMMA ResultFollows ==
  ASSUME NEW r \in Result, NEW rs \in Seq(Verdict), NEW v \in Verdict, Follows(r, rs)
  PROVE  Follows(Updated(r, PermianResult(Append(rs, v))), Append(rs, v))
<1> SUFFICES ASSUME NEW new, new = Append(rs, v)
             PROVE  Follows(Updated(r, PermianResult(new)), new)
  OBVIOUS
<1>1. \/ /\ DecisiveOf(rs) = <<>> /\ DecisiveOf(new) = <<>>
         /\ PermianResult(new) = Res("running", "None", FALSE)
      \/ /\ DecisiveOf(rs) = <<>> /\ DecisiveOf(new) # <<>>
         /\ DecisiveOf(new)[1] = v
         /\ PermianResult(new) = Res("complete", OutcomeOf(v), TRUE)
      \/ /\ DecisiveOf(rs) # <<>> /\ DecisiveOf(new) # <<>>
         /\ DecisiveOf(new)[1] = DecisiveOf(rs)[1]
  BY NextResult
<1>2. CASE /\ DecisiveOf(rs) = <<>> /\ DecisiveOf(new) = <<>>
           /\ PermianResult(new) = Res("running", "None", FALSE)
  <2>1. Open(r) BY <1>2 DEF Follows
  <2>2. Open(Updated(r, Res("running", "None", FALSE))) BY <2>1, StaysOpen DEF Early
  <2> QED BY <1>2, <2>2 DEF Follows
<1>3. CASE /\ DecisiveOf(rs) = <<>> /\ DecisiveOf(new) # <<>>
           /\ DecisiveOf(new)[1] = v
           /\ PermianResult(new) = Res("complete", OutcomeOf(v), TRUE)
  <2>1. Open(r) BY <1>3 DEF Follows
  <2>2. OutcomeOf(v) \in {"None", "PASS", "FAIL"} BY DEF OutcomeOf
  <2>3. Updated(r, PermianResult(new)) = Res("complete", OutcomeOf(v), TRUE)
    BY <1>3, <2>1, <2>2, Decides
  <2>4. /\ Res("complete", OutcomeOf(v), TRUE).final
        /\ Res("complete", OutcomeOf(v), TRUE).outcome = OutcomeOf(v)
    BY DEF Res
  <2> QED BY <1>3, <2>3, <2>4 DEF Follows
<1>4. CASE /\ DecisiveOf(rs) # <<>> /\ DecisiveOf(new) # <<>>
           /\ DecisiveOf(new)[1] = DecisiveOf(rs)[1]
  <2>1. r.final /\ r.outcome = OutcomeOf(DecisiveOf(rs)[1]) BY <1>4 DEF Follows
  <2>2. Updated(r, PermianResult(new)) = r BY <2>1, FinalStays
  <2> QED BY <1>4, <2>1, <2>2 DEF Follows
<1> QED BY <1>1, <1>2, <1>3, <1>4

(* Any exception leaves every crc final. *)
LEMMA RaisingIsFinal ==
  ASSUME results \in [CRC -> Result], Report(CRC, Failure)
  PROVE  results' \in [CRC -> Result] /\ \A c \in CRC : results'[c].final
<1>1. \A c \in CRC : results'[c] = Updated(results[c], Failure) BY DEF Report
<1>2. \A c \in CRC : Updated(results[c], Failure) \in Result
                     /\ Updated(results[c], Failure).final
  BY FailureDecides
<1>3. results' \in [CRC -> Result] BY <1>1, <1>2 DEF Report
<1> QED BY <1>1, <1>2, <1>3

(* What a raising step of setup or execute makes of the invariant, whatever *)
(* it leaves of the files.                                                 *)
LEMMA RaisingKeepsInv ==
  ASSUME KickstartInv, Raises, UNCHANGED <<given, runs>>,
         place \in {"setup", "clone", "fetch", "execute", "runner"},
         Booleans', isoDest' => isoUrl',
         "clone" \in failures' <=> (isoUrl' /\ ~isoDest'),
         "clone" \in failures' => tempRepo'
  PROVE  KickstartInv'
<1>1. results \in [CRC -> Result] BY DEF KickstartInv, KickstartTypeOK
<1>2. results' \in [CRC -> Result] /\ \A c \in CRC : results'[c].final
  BY <1>1, RaisingIsFinal DEF Raises
<1>3. failures' = failures \cup {place} /\ place' = "teardown" BY DEF Raises
<1>4. KickstartTypeOK'
  <2>1. runs' \in [Test -> Seq(Verdict)] BY DEF KickstartInv, KickstartTypeOK
  <2>2. failures' \subseteq {"setup", "clone", "fetch", "execute", "runner", "teardown"}
    BY <1>3 DEF KickstartInv, KickstartTypeOK
  <2>3. {isoUrl, isoDest, iso, overrides, tempRepo}' \subseteq BOOLEAN
    BY Zenon DEF Booleans
  <2> QED BY <1>2, <1>3, <2>1, <2>2, <2>3 DEF KickstartTypeOK
<1>5. given' \in Input BY DEF KickstartInv
<1>6. PlaceKnows' BY <1>3 DEF PlaceKnows
<1>7. NotRunYet' BY <1>3 DEF NotRunYet
<1>8. ~(failures' \subseteq {"teardown"}) BY <1>3
<1>9. FailureIsFinal' BY <1>2 DEF FailureIsFinal
<1> QED BY <1>4, <1>5, <1>6, <1>7, <1>8, <1>9 DEF KickstartInv

LEMMA KickstartInit_Inv ==
  ASSUME KickstartInit
  PROVE  KickstartInv
<1>1. NotStarted \in Result BY ResIsResult DEF NotStarted, State, Outcome
<1>2. KickstartTypeOK
  <2>1. results \in [CRC -> Result] BY <1>1 DEF KickstartInit
  <2>2. runs \in [Test -> Seq(Verdict)] BY DEF KickstartInit
  <2>3. {isoUrl, isoDest, iso, overrides, tempRepo} \subseteq BOOLEAN
    BY DEF KickstartInit
  <2> QED BY <2>1, <2>2, <2>3 DEF KickstartInit, KickstartTypeOK
<1>3. given \in Input BY KickstartAssumption DEF KickstartInit
<1>4. PlaceKnows BY DEF KickstartInit, PlaceKnows
<1>5. NotRunYet BY DEF KickstartInit, NotRunYet
<1>6. AllFollow
  <2>1. Open(NotStarted) BY DEF Open, NotStarted, Res, Early
  <2>2. Follows(NotStarted, <<>>) BY <2>1, NothingDecided DEF Follows
  <2> QED BY <2>2, KickstartAssumption DEF KickstartInit, AllFollow
<1>7. FailureIsFinal BY DEF KickstartInit, FailureIsFinal
<1> QED BY <1>2, <1>3, <1>4, <1>5, <1>6, <1>7 DEF KickstartInv

----------------------------------------------------------------------------
(* One step per action.                                                    *)

LEMMA BooleansHold ==
  ASSUME KickstartTypeOK
  PROVE  Booleans
BY Zenon DEF KickstartTypeOK, Booleans

LEMMA SetupKeepsInv ==
  ASSUME KickstartInv, Setup
  PROVE  KickstartInv'
<1>1. /\ place = "setup" /\ failures = {}
      /\ ~isoUrl /\ ~isoDest /\ ~iso /\ ~tempRepo
  BY DEF Setup, KickstartInv, PlaceKnows
<1>2. Booleans BY BooleansHold DEF KickstartInv
<1>3. overrides' \in BOOLEAN
  <2>1. overrides' = (given.arch = "supported" /\ given.params /\ given.urls)
    BY DEF Setup
  <2>2. (given.arch = "supported" /\ given.params /\ given.urls) \in BOOLEAN
    BY Zenon
  <2> QED BY <2>1, <2>2
<1>4. CASE Raises /\ UNCHANGED isoUrl
  <2>1. Booleans'
    BY <1>2, <1>3, <1>4 DEF Setup, Booleans
  <2>2. UNCHANGED <<given, runs, isoUrl, isoDest, tempRepo>> BY <1>4 DEF Setup
  <2>3. failures' = {"setup"} BY <1>1, <1>4 DEF Raises
  <2> QED BY <1>1, <1>4, <2>1, <2>2, <2>3, RaisingKeepsInv
<1>5. CASE /\ isoUrl' = TRUE
           /\ Report(CRC, Res("queued", "None", FALSE))
           /\ place' = "clone"
           /\ UNCHANGED failures
  <2>1. UNCHANGED <<given, runs, isoDest, iso, tempRepo, failures>> BY <1>5 DEF Setup
  <2>2. results \in [CRC -> Result] /\ AllFollow /\ \A t \in Test : runs[t] = <<>>
    BY <1>1 DEF KickstartInv, KickstartTypeOK, NotRunYet
  <2>3. \A c \in CRC : results'[c] = Updated(results[c], Res("queued", "None", FALSE))
    BY <1>5 DEF Report
  <2>4. \A c \in CRC : runs[testOf[c]] = <<>> BY <2>2, KickstartAssumption
  <2>5. ASSUME NEW c \in CRC
        PROVE  results'[c] \in Result /\ Follows(results'[c], runs[testOf[c]])
    <3>1. /\ results[c] \in Result /\ Follows(results[c], runs[testOf[c]])
          /\ runs[testOf[c]] = <<>>
      BY <2>2, <2>4 DEF AllFollow
    <3>2. /\ Updated(results[c], Res("queued", "None", FALSE)) \in Result
          /\ Follows(Updated(results[c], Res("queued", "None", FALSE)), runs[testOf[c]])
      BY <3>1, EarlyFollows DEF Early
    <3> QED BY <2>3, <3>2
  <2>6. results' \in [CRC -> Result] BY <1>5, <2>5 DEF Report
  <2>7. AllFollow' BY <2>1, <2>5 DEF AllFollow, Follows, DecisiveOf
  <2>8. KickstartTypeOK'
    <3>1. Booleans' BY <1>2, <1>3, <1>5, <2>1 DEF Booleans
    <3>2. {isoUrl, isoDest, iso, overrides, tempRepo}' \subseteq BOOLEAN
      BY <3>1, Zenon DEF Booleans
    <3> QED BY <1>5, <2>1, <2>6, <3>2 DEF KickstartInv, KickstartTypeOK
  <2>9. PlaceKnows' BY <1>1, <1>5, <2>1 DEF PlaceKnows
  <2>10. NotRunYet' BY <2>1, <2>2 DEF NotRunYet
  <2>11. FailureIsFinal' BY <1>1, <2>1 DEF FailureIsFinal
  <2> QED BY <2>1, <2>7, <2>8, <2>9, <2>10, <2>11 DEF KickstartInv
<1> QED BY <1>4, <1>5 DEF Setup

LEMMA CloneKeepsInv ==
  ASSUME KickstartInv, CloneRepo
  PROVE  KickstartInv'
<1>1. place = "clone" /\ failures = {} /\ isoUrl /\ ~isoDest /\ ~iso
  BY DEF CloneRepo, KickstartInv, PlaceKnows
<1>2. Booleans BY BooleansHold DEF KickstartInv
<1>3. tempRepo' \in BOOLEAN BY DEF CloneRepo
<1>4. UNCHANGED <<given, runs, isoUrl, iso, overrides>> BY DEF CloneRepo
<1>5. CASE ~given.localRepo /\ Raises /\ UNCHANGED isoDest
  <2>1. Booleans' BY <1>2, <1>3, <1>4, <1>5 DEF Booleans
  <2>2. failures' = {"clone"} /\ tempRepo' BY <1>1, <1>5 DEF Raises, CloneRepo
  <2> QED BY <1>1, <1>4, <1>5, <2>1, <2>2, RaisingKeepsInv
<1>6. CASE isoDest' = TRUE /\ place' = "fetch" /\ UNCHANGED <<results, failures>>
  <2>1. Booleans' BY <1>2, <1>3, <1>4, <1>6 DEF Booleans
  <2>2. {isoUrl, isoDest, iso, overrides, tempRepo}' \subseteq BOOLEAN
    BY <2>1, Zenon DEF Booleans
  <2>3. KickstartTypeOK'
    BY <1>1, <1>4, <1>6, <2>2 DEF KickstartInv, KickstartTypeOK
  <2>4. PlaceKnows' BY <1>1, <1>4, <1>6 DEF PlaceKnows
  <2>5. NotRunYet' BY <1>1, <1>4 DEF KickstartInv, NotRunYet
  <2>6. AllFollow'
    BY <1>1, <1>4, <1>6 DEF KickstartInv, AllFollow, Follows, DecisiveOf
  <2>7. FailureIsFinal' BY <1>1, <1>6 DEF FailureIsFinal
  <2> QED BY <1>4, <2>3, <2>4, <2>5, <2>6, <2>7 DEF KickstartInv
<1> QED BY <1>5, <1>6 DEF CloneRepo

LEMMA FetchKeepsInv ==
  ASSUME KickstartInv, FetchBootIso
  PROVE  KickstartInv'
<1>1. place = "fetch" /\ failures = {} /\ isoUrl /\ isoDest
  BY DEF FetchBootIso, KickstartInv, PlaceKnows
<1>2. Booleans BY BooleansHold DEF KickstartInv
<1>3. Fetched \in BOOLEAN BY DEF Fetched
<1>4. UNCHANGED <<given, runs, isoUrl, isoDest, overrides, tempRepo>> BY DEF FetchBootIso
<1>5. CASE Raises /\ iso' \in {FALSE, Fetched}
  <2>1. iso' \in BOOLEAN BY <1>3, <1>5
  <2>2. Booleans' BY <1>2, <1>4, <2>1 DEF Booleans
  <2>3. failures' = {"fetch"} BY <1>1, <1>5 DEF Raises
  <2> QED BY <1>1, <1>4, <1>5, <2>2, <2>3, RaisingKeepsInv
<1>6. CASE iso' = Fetched /\ place' = "execute" /\ UNCHANGED <<results, failures>>
  <2>1. Booleans' BY <1>2, <1>3, <1>4, <1>6 DEF Booleans
  <2>2. {isoUrl, isoDest, iso, overrides, tempRepo}' \subseteq BOOLEAN
    BY <2>1, Zenon DEF Booleans
  <2>3. KickstartTypeOK'
    BY <1>1, <1>4, <1>6, <2>2 DEF KickstartInv, KickstartTypeOK
  <2>4. PlaceKnows' BY <1>1, <1>4, <1>6 DEF PlaceKnows
  <2>5. NotRunYet' BY <1>1, <1>4 DEF KickstartInv, NotRunYet
  <2>6. AllFollow'
    BY <1>1, <1>4, <1>6 DEF KickstartInv, AllFollow, Follows, DecisiveOf
  <2>7. FailureIsFinal' BY <1>1, <1>6 DEF FailureIsFinal
  <2> QED BY <1>4, <2>3, <2>4, <2>5, <2>6, <2>7 DEF KickstartInv
<1> QED BY <1>5, <1>6 DEF FetchBootIso

LEMMA ExecuteKeepsInv ==
  ASSUME KickstartInv, Execute
  PROVE  KickstartInv'
<1>1. place = "execute" /\ failures = {} /\ isoUrl /\ isoDest
  BY DEF Execute, KickstartInv, PlaceKnows
<1>2. Booleans BY BooleansHold DEF KickstartInv
<1>3. UNCHANGED <<given, runs, isoUrl, isoDest, iso, overrides, tempRepo>> BY DEF Execute
<1>4. Booleans' BY <1>2, <1>3 DEF Booleans
<1>5. CASE Raises
  <2>1. failures' = {"execute"} BY <1>1, <1>5 DEF Raises
  <2> QED BY <1>1, <1>3, <1>4, <1>5, <2>1, RaisingKeepsInv
<1>6. CASE /\ results' = [c \in CRC |->
                Updated(Updated(results[c], Res("started", "None", FALSE)),
                        Res("running", "None", FALSE))]
           /\ place' = "runner"
           /\ UNCHANGED failures
  <2>1. results \in [CRC -> Result] /\ AllFollow /\ \A t \in Test : runs[t] = <<>>
    BY <1>1 DEF KickstartInv, KickstartTypeOK, NotRunYet
  <2>2. \A c \in CRC : runs[testOf[c]] = <<>> BY <2>1, KickstartAssumption
  <2>3. ASSUME NEW c \in CRC
        PROVE  results'[c] \in Result /\ Follows(results'[c], runs[testOf[c]])
    <3>1. /\ Updated(results[c], Res("started", "None", FALSE)) \in Result
          /\ Follows(Updated(results[c], Res("started", "None", FALSE)), runs[testOf[c]])
      BY <2>1, <2>2, EarlyFollows DEF AllFollow, Early
    <3> SUFFICES ASSUME NEW r \in Result, Follows(r, runs[testOf[c]]),
                        r = Updated(results[c], Res("started", "None", FALSE))
                 PROVE  results'[c] \in Result /\ Follows(results'[c], runs[testOf[c]])
      BY <3>1
    <3>2. /\ Updated(r, Res("running", "None", FALSE)) \in Result
          /\ Follows(Updated(r, Res("running", "None", FALSE)), runs[testOf[c]])
      BY <2>2, EarlyFollows DEF Early
    <3> QED BY <1>6, <3>2
  <2>4. results' \in [CRC -> Result] BY <1>6, <2>3
  <2>5. AllFollow' BY <1>3, <2>3 DEF AllFollow, Follows, DecisiveOf
  <2>6. {isoUrl, isoDest, iso, overrides, tempRepo}' \subseteq BOOLEAN
    BY <1>4, Zenon DEF Booleans
  <2>7. KickstartTypeOK'
    BY <1>1, <1>3, <1>6, <2>4, <2>6 DEF KickstartInv, KickstartTypeOK
  <2>8. PlaceKnows' BY <1>1, <1>3, <1>6 DEF PlaceKnows
  <2>9. NotRunYet' BY <1>6 DEF NotRunYet
  <2>10. FailureIsFinal' BY <1>1, <1>6 DEF FailureIsFinal
  <2> QED BY <1>3, <2>5, <2>7, <2>8, <2>9, <2>10 DEF KickstartInv
<1> QED BY <1>5, <1>6 DEF Execute

LEMMA ResultLineKeepsInv ==
  ASSUME KickstartInv, ResultLine
  PROVE  KickstartInv'
<1>1. place = "runner" /\ failures = {} /\ isoUrl /\ isoDest
  BY DEF ResultLine, KickstartInv, PlaceKnows
<1>2. PICK t \in Batch, v \in Verdict :
        /\ runs' = [runs EXCEPT ![t] = Append(@, v)]
        /\ Report({c \in CRC : testOf[c] = t}, PermianResult(runs'[t]))
  BY DEF ResultLine
<1>3. UNCHANGED <<given, place, isoUrl, isoDest, iso, overrides, tempRepo, failures>>
  BY DEF ResultLine
<1>4. t \in Test BY KickstartAssumption DEF Batch
<1>5. results \in [CRC -> Result] /\ runs \in [Test -> Seq(Verdict)] /\ AllFollow
  BY <1>1 DEF KickstartInv, KickstartTypeOK
<1>6. /\ runs' \in [Test -> Seq(Verdict)]
      /\ runs'[t] = Append(runs[t], v)
      /\ \A q \in Test : q # t => runs'[q] = runs[q]
  BY <1>2, <1>4, <1>5
<1>7. results' \in [CRC -> Result]
  BY <1>2, <1>5, RunResultIsResult, ReportKeepsTypes
<1>8. ASSUME NEW c \in CRC
      PROVE  Follows(results'[c], runs'[testOf[c]])
  <2>1. testOf[c] \in Test /\ results[c] \in Result /\ Follows(results[c], runs[testOf[c]])
    BY <1>5, KickstartAssumption DEF AllFollow
  <2>2. CASE testOf[c] = t
    <3>1. results'[c] = Updated(results[c], PermianResult(Append(runs[t], v)))
      BY <1>2, <1>6, <2>2 DEF Report
    <3>2. runs[t] \in Seq(Verdict) BY <1>4, <1>5
    <3>3. Follows(Updated(results[c], PermianResult(Append(runs[t], v))), Append(runs[t], v))
      BY <2>1, <2>2, <3>2, ResultFollows
    <3> QED BY <1>6, <2>2, <3>1, <3>3
  <2>3. CASE testOf[c] # t
    <3>1. results'[c] = results[c] BY <1>2, <2>3 DEF Report
    <3> QED BY <1>6, <2>1, <2>3, <3>1
  <2> QED BY <2>2, <2>3
<1>9. AllFollow' BY <1>3, <1>8 DEF AllFollow, Follows, DecisiveOf
<1>10. KickstartTypeOK' BY <1>3, <1>6, <1>7 DEF KickstartInv, KickstartTypeOK
<1>11. PlaceKnows' BY <1>3 DEF KickstartInv, PlaceKnows
<1>12. NotRunYet' BY <1>1, <1>3 DEF NotRunYet
<1>13. FailureIsFinal' BY <1>1, <1>3 DEF FailureIsFinal
<1> QED BY <1>3, <1>9, <1>10, <1>11, <1>12, <1>13 DEF KickstartInv

LEMMA RunnerEndsKeepsInv ==
  ASSUME KickstartInv, RunnerEnds
  PROVE  KickstartInv'
<1>1. place = "runner" /\ failures = {} /\ isoUrl /\ isoDest
  BY DEF RunnerEnds, KickstartInv, PlaceKnows
<1>2. UNCHANGED <<given, runs, isoUrl, isoDest, iso, overrides, tempRepo>>
  BY DEF RunnerEnds
<1>3. Booleans' BY <1>2, BooleansHold DEF KickstartInv, Booleans
<1>4. CASE Raises
  <2>1. failures' = {"runner"} BY <1>1, <1>4 DEF Raises
  <2> QED BY <1>1, <1>2, <1>3, <1>4, <2>1, RaisingKeepsInv
<1>5. CASE place' = "teardown" /\ UNCHANGED <<results, failures>>
  <2>1. KickstartTypeOK' BY <1>2, <1>5 DEF KickstartInv, KickstartTypeOK
  <2>2. PlaceKnows' BY <1>1, <1>2, <1>5 DEF PlaceKnows
  <2>3. NotRunYet' BY <1>5 DEF NotRunYet
  <2>4. AllFollow'
    BY <1>1, <1>2, <1>5 DEF KickstartInv, AllFollow, Follows, DecisiveOf
  <2>5. FailureIsFinal' BY <1>1, <1>5 DEF FailureIsFinal
  <2> QED BY <1>2, <2>1, <2>2, <2>3, <2>4, <2>5 DEF KickstartInv
<1> QED BY <1>4, <1>5 DEF RunnerEnds

LEMMA TeardownKeepsInv ==
  ASSUME KickstartInv, Teardown
  PROVE  KickstartInv'
<1>1. /\ place = "teardown"
      /\ "clone" \in failures <=> (isoUrl /\ ~isoDest)
      /\ "clone" \in failures => tempRepo
  BY DEF Teardown, KickstartInv, PlaceKnows
<1>2. UNCHANGED <<given, results, runs, isoUrl, isoDest>> /\ place' = "ended"
  BY DEF Teardown
<1>3. /\ Booleans'
      /\ failures' \in {failures, failures \cup {"teardown"}}
      /\ (overrides' \/ tempRepo' \/ iso') <=> "clone" \in failures'
  <2>1. Booleans BY BooleansHold DEF KickstartInv
  <2>2. CASE isoUrl /\ ~isoDest
    <3>1. failures' = failures \cup {"teardown"} /\ UNCHANGED <<iso, overrides, tempRepo>>
      BY <2>2 DEF Teardown
    <3>2. Booleans' BY <1>2, <2>1, <3>1 DEF Booleans
    <3> QED BY <1>1, <2>2, <3>1, <3>2
  <2>3. CASE ~(isoUrl /\ ~isoDest)
    <3>1. iso' = FALSE /\ overrides' = FALSE /\ tempRepo' = FALSE /\ failures' = failures
      BY <2>3 DEF Teardown, OverridesLeft
    <3>2. Booleans' BY <1>2, <2>1, <3>1 DEF Booleans
    <3> QED BY <1>1, <2>3, <3>1, <3>2
  <2> QED BY <2>2, <2>3
<1>4. KickstartTypeOK'
  <2>1. {isoUrl, isoDest, iso, overrides, tempRepo}' \subseteq BOOLEAN
    BY <1>3, Zenon DEF Booleans
  <2> QED BY <1>2, <1>3, <2>1 DEF KickstartInv, KickstartTypeOK
<1>5. PlaceKnows' BY <1>2, <1>3 DEF PlaceKnows
<1>6. NotRunYet' BY <1>2 DEF NotRunYet
<1>7. failures' \subseteq {"teardown"} => AllFollow'
  BY <1>2, <1>3 DEF KickstartInv, AllFollow, Follows, DecisiveOf
<1>8. FailureIsFinal' BY <1>2, <1>3 DEF KickstartInv, FailureIsFinal
<1> QED BY <1>2, <1>4, <1>5, <1>6, <1>7, <1>8 DEF KickstartInv

----------------------------------------------------------------------------
(* Theorems.                                                               *)

LEMMA KickstartInvHolds == KickstartSpec => []KickstartInv
<1>1. KickstartInit => KickstartInv BY KickstartInit_Inv
<1>2. KickstartInv /\ [KickstartNext]_kickstartVars => KickstartInv'
  <2> SUFFICES ASSUME KickstartInv, [KickstartNext]_kickstartVars
               PROVE  KickstartInv'
    OBVIOUS
  <2>1. CASE Setup BY <2>1, SetupKeepsInv
  <2>2. CASE CloneRepo BY <2>2, CloneKeepsInv
  <2>3. CASE FetchBootIso BY <2>3, FetchKeepsInv
  <2>4. CASE Execute BY <2>4, ExecuteKeepsInv
  <2>5. CASE ResultLine BY <2>5, ResultLineKeepsInv
  <2>6. CASE RunnerEnds BY <2>6, RunnerEndsKeepsInv
  <2>7. CASE Teardown BY <2>7, TeardownKeepsInv
  <2>8. CASE UNCHANGED kickstartVars
    BY <2>8 DEF kickstartVars, KickstartInv, KickstartTypeOK, PlaceKnows, NotRunYet,
                AllFollow, Follows, DecisiveOf, FailureIsFinal
  <2> QED BY <2>1, <2>2, <2>3, <2>4, <2>5, <2>6, <2>7, <2>8 DEF KickstartNext
<1> QED BY <1>1, <1>2, PTL DEF KickstartSpec

(* Every variable of the batch keeps its type, and a boot.iso destination  *)
(* exists only with its url.                                               *)
THEOREM KickstartTypeCorrect == KickstartSpec => []KickstartTypeOK
<1>1. KickstartInv => KickstartTypeOK BY DEF KickstartInv
<1> QED BY <1>1, KickstartInvHolds, PTL

(* Whatever the launcher prints and whichever step raises, every crc of    *)
(* the batch is final exactly when a result of its test decides, with the  *)
(* outcome of the first one, or is made final by the exception.            *)
THEOREM ResultsAreDecided == KickstartSpec => []ResultsDecided
<1>1. KickstartInv => ResultsDecided
  <2> SUFFICES ASSUME KickstartInv PROVE FirstDecisiveCounts /\ FailureIsFinal
    BY DEF ResultsDecided
  <2>1. \A t : Decisive(t) = DecisiveOf(runs[t]) BY DEF Decisive, DecisiveOf
  <2>2. ASSUME failures \subseteq {"teardown"}, NEW c \in CRC
        PROVE  LET rs == Decisive(testOf[c])
               IN /\ results[c].final <=> rs # <<>>
                  /\ rs # <<>> => results[c].outcome =
                       (CASE rs[1] = "SUCCESS" -> "PASS" [] rs[1] = "FAILED" -> "FAIL"
                          [] OTHER -> "None")
    <3>1. Follows(results[c], runs[testOf[c]])
      BY <2>2 DEF KickstartInv, AllFollow
    <3> QED BY <2>1, <3>1 DEF Follows, Open, OutcomeOf
  <2> QED BY <2>2 DEF KickstartInv, FirstDecisiveCounts
<1> QED BY <1>1, KickstartInvHolds, PTL

(* Whatever fails, the files the workflow made are gone when it has ended, *)
(* but for those of a failed clone.                                        *)
THEOREM NothingIsLeft == KickstartSpec => []LeavesNothing
<1>1. KickstartInv => LeavesNothing BY DEF KickstartInv, PlaceKnows, LeavesNothing
<1> QED BY <1>1, KickstartInvHolds, PTL

----------------------------------------------------------------------------
(* The summary.                                                            *)

(* A batch, made from a list of crcs, is finite.                           *)
LEMMA BatchIsFinite == IsFiniteSet(Batch)
<1> DEFINE f == [c \in CRC |-> testOf[c]]
<1>1. f \in Surjection(CRC, Batch) BY DEF Surjection, Batch
<1>2. IsFiniteSet(CRC) BY KickstartAssumption
<1> HIDE DEF f
<1> QED BY <1>1, <1>2, FS_Surjection

(* The runs of S that were repeated are the ones the summary adds up.      *)
LEMMA RepeatedAreCounted ==
  ASSUME NEW S, IsFiniteSet(S), \A t \in S : Len(runs[t]) \in {1, 2}
  PROVE  MapThenSumSet(LAMBDA t : Len(runs[t]) - 1, S)
           = Cardinality({t \in S : Len(runs[t]) = 2})
<1> DEFINE Is(f) == f = [s \in SUBSET S |-> IF s = {} THEN 0
                           ELSE LET x == CHOOSE x \in s : TRUE
                                IN  (Len(runs[x]) - 1) + f[s \ {x}]]
           sum == CHOOSE f : Is(f)
           Twice(s) == {t \in s : Len(runs[t]) = 2}
           count == [s \in SUBSET S |-> Cardinality(Twice(s))]
<1>1. MapThenSumSet(LAMBDA t : Len(runs[t]) - 1, S) = sum[S]
  BY DEF MapThenSumSet, MapThenFoldSet
<1>2. \A s \in SUBSET S : IsFiniteSet(s) /\ IsFiniteSet(Twice(s))
  <2>1. \A s \in SUBSET S : Twice(s) \in SUBSET S OBVIOUS
  <2> QED BY <2>1, FS_Subset
<1>3. ASSUME NEW s \in SUBSET S, NEW x \in s
      PROVE  Cardinality(Twice(s)) = (Len(runs[x]) - 1) + Cardinality(Twice(s \ {x}))
  <2>1. Twice(s \ {x}) = Twice(s) \ {x} OBVIOUS
  <2>2. x \in Twice(s) <=> Len(runs[x]) = 2 OBVIOUS
  <2>3. Len(runs[x]) \in {1, 2} OBVIOUS
  <2>4. IsFiniteSet(Twice(s)) BY <1>2
  <2> HIDE DEF Twice
  <2>5. Cardinality(Twice(s)) \in Nat BY <2>4, FS_CardinalityType
  <2>6. Cardinality(Twice(s) \ {x}) =
          IF x \in Twice(s) THEN Cardinality(Twice(s)) - 1 ELSE Cardinality(Twice(s))
    BY <2>4, FS_RemoveElement
  <2>7. Cardinality(Twice(s \ {x})) =
          IF Len(runs[x]) = 2 THEN Cardinality(Twice(s)) - 1 ELSE Cardinality(Twice(s))
    BY <2>1, <2>2, <2>6, Zenon
  <2> DEFINE c == Cardinality(Twice(s))
             d == Cardinality(Twice(s \ {x}))
             l == Len(runs[x])
  <2>8. c \in Nat /\ l \in {1, 2} /\ d = IF l = 2 THEN c - 1 ELSE c
    BY <2>3, <2>5, <2>7
  <2> HIDE DEF c, d, l
  <2>9. c = (l - 1) + d BY <2>8
  <2> QED BY <2>9 DEF c, d, l
<1>4. Twice({}) = {} OBVIOUS
<1> HIDE DEF Twice
<1>5. Is(count)
  <2>1. ASSUME NEW s \in SUBSET S
        PROVE  count[s] = IF s = {} THEN 0
                          ELSE LET x == CHOOSE x \in s : TRUE
                               IN  (Len(runs[x]) - 1) + count[s \ {x}]
    <3>1. CASE s = {} BY <1>4, <3>1, FS_EmptySet
    <3>2. CASE s # {}
      <4> DEFINE x == CHOOSE x \in s : TRUE
      <4>1. x \in s BY <3>2
      <4>2. s \ {x} \in SUBSET S OBVIOUS
      <4> HIDE DEF x
      <4>3. count[s] = (Len(runs[x]) - 1) + count[s \ {x}] BY <1>3, <4>1, <4>2
      <4> QED BY <3>2, <4>3 DEF x
    <3> QED BY <3>1, <3>2
  <2> QED BY <2>1, Zenon
<1>6. Is(sum)
  <2> HIDE DEF Is
  <2> QED BY <1>5
<1> HIDE DEF sum
<1>7. \A s \in SUBSET S : sum[s] = count[s]
  <2> DEFINE Bad == {s \in SUBSET S : sum[s] # count[s]}
             Sizes == {n \in Nat : \E s \in Bad : n = Cardinality(s)}
             Less == OpToRel(<, Nat)
  <2>1. \A m, n \in Nat : <<m, n>> \in Less <=> m < n BY DEF OpToRel
  <2>2. IsWellFoundedOn(Less, Nat) BY NatLessThanWellFounded
  <2> HIDE DEF Less
  <2>3. SUFFICES ASSUME NEW s \in Bad PROVE FALSE OBVIOUS
  <2>4. \A b \in Bad : Cardinality(b) \in Nat BY <1>2, FS_CardinalityType
  <2>5. Sizes # {} /\ Sizes \subseteq Nat BY <2>3, <2>4
  <2>6. PICK n \in Sizes : \A m \in Sizes : ~(<<m, n>> \in Less)
    <3> HIDE DEF Sizes
    <3> QED BY <2>2, <2>5, WFMin
  <2>7. PICK b \in Bad : n = Cardinality(b) OBVIOUS
  <2>8. b \in SUBSET S /\ sum[b] # count[b] OBVIOUS
  <2>9. CASE b = {} BY <1>5, <1>6, <2>8, <2>9
  <2>10. CASE b # {}
    <3> DEFINE x == CHOOSE x \in b : TRUE
    <3>1. x \in b BY <2>10
    <3>2. b \ {x} \in SUBSET S BY <2>8
    <3>3. /\ sum[b] = (Len(runs[x]) - 1) + sum[b \ {x}]
          /\ count[b] = (Len(runs[x]) - 1) + count[b \ {x}]
      <4> HIDE DEF count
      <4> QED BY <1>5, <1>6, <2>8, <2>10
    <3> HIDE DEF x, count
    <3>4. b \ {x} \in Bad BY <2>8, <3>2, <3>3
    <3>5. Cardinality(b \ {x}) = n - 1 BY <1>2, <2>7, <2>8, <3>1, FS_RemoveElement
    <3>6. Cardinality(b \ {x}) \in Nat BY <2>4, <3>4
    <3>7. n - 1 \in Sizes
      <4> HIDE DEF Bad
      <4> QED BY <3>4, <3>5, <3>6
    <3>8. n \in Nat /\ n - 1 \in Nat BY <3>5, <3>6
    <3>9. n - 1 < n BY <3>8
    <3> QED BY <2>1, <2>6, <3>7, <3>8, <3>9
  <2> QED BY <2>9, <2>10
<1>8. sum[S] = count[S] BY <1>7
<1> QED BY <1>1, <1>8 DEF Twice

(* The results of a test with at most one that decides: it is the last.    *)
LEMMA OneDecides ==
  ASSUME NEW rs \in Seq(Verdict), Len(DecisiveOf(rs)) <= 1
  PROVE  /\ DecisiveOf(rs) = <<>> <=> rs = <<>> \/ IsFlake(rs)
         /\ DecisiveOf(rs) # <<>> =>
              /\ Len(DecisiveOf(rs)) = 1
              /\ DecisiveOf(rs)[1] = Last(rs)
              /\ Len(rs) \in {1, 2}
              /\ Len(rs) = 2 <=> given.retry /\ rs[1] = "FAILED"
<1>1. CASE rs = <<>> BY <1>1, NothingDecided
<1>2. CASE rs # <<>> /\ given.retry /\ rs[1] = "FAILED"
  <2>1. Len(rs) \in Nat /\ Len(rs) > 0 BY <1>2
  <2>2. DecisiveOf(rs) = Tail(rs) BY <1>2 DEF DecisiveOf
  <2>3. Tail(rs) \in Seq(Verdict) /\ Len(Tail(rs)) = Len(rs) - 1
        /\ \A i \in 1..Len(rs) - 1 : Tail(rs)[i] = rs[i + 1]
    BY <1>2, <2>1
  <2>4. Len(rs) \in {1, 2}
    <3>1. Len(Tail(rs)) <= 1 BY <2>2
    <3> QED BY <2>1, <2>3, <3>1
  <2>5. CASE Len(rs) = 1
    <3>1. Tail(rs) = <<>>
      <4>1. Tail(rs) \in Seq(Verdict) /\ Len(Tail(rs)) = 0 BY <2>3, <2>5
      <4> QED BY <4>1, EmptySeq
    <3> QED BY <1>2, <2>2, <2>5, <3>1 DEF IsFlake
  <2>6. CASE Len(rs) = 2
    <3>1. Len(Tail(rs)) = 1 /\ Tail(rs)[1] = rs[2]
      <4>1. 2 - 1 = 1 /\ 1 + 1 = 2 /\ 1 \in 1..(2 - 1) OBVIOUS
      <4>2. 1 \in 1..Len(rs) - 1 BY <2>6, <4>1, Zenon
      <4>3. Tail(rs)[1] = rs[1 + 1] BY <2>3, <4>2, Zenon
      <4>4. Len(Tail(rs)) = 2 - 1 BY <2>3, <2>6, Zenon
      <4> QED BY <4>1, <4>3, <4>4, Zenon
    <3>2. Tail(rs) # <<>>
      <4>1. Len(<<>>) = 0 OBVIOUS
      <4> QED BY <3>1, <4>1
    <3>3. Last(rs) = rs[2] BY <2>6 DEF Last
    <3> QED BY <1>2, <2>2, <2>6, <3>1, <3>2, <3>3 DEF IsFlake
  <2> QED BY <2>4, <2>5, <2>6
<1>3. CASE rs # <<>> /\ ~(given.retry /\ rs[1] = "FAILED")
  <2>1. DecisiveOf(rs) = rs BY <1>3 DEF DecisiveOf
  <2>2. Len(rs) \in Nat /\ Len(rs) > 0 BY <1>3
  <2>3. Len(rs) = 1
    <3>1. Len(rs) <= 1 BY <2>1
    <3>2. \A n \in Nat : n > 0 /\ n <= 1 => n = 1 OBVIOUS
    <3> QED BY <2>2, <3>1, <3>2, Zenon
  <2>4. Last(rs) = rs[1] BY <2>3 DEF Last
  <2> QED BY <1>3, <2>1, <2>3, <2>4 DEF IsFlake
<1> QED BY <1>1, <1>2, <1>3

(* The tests the summary lists with the verdict v.                         *)
EndedAs(v) == {t \in Batch \ Outstanding : runs[t] # <<>> /\ Last(runs[t]) = v}

(* The crcs of such a test, and no other ones, are reported with the       *)
(* outcome of the verdict.                                                 *)
LEMMA SummaryFollows ==
  ASSUME KickstartInv, failures \subseteq {"teardown"},
         \A t \in Batch : Len(Decisive(t)) <= 1,
         NEW v \in {"SUCCESS", "FAILED"}
  PROVE  EndedAs(v) = {testOf[c] : c \in {d \in CRC : results[d].outcome = OutcomeOf(v)}}
<1>1. ASSUME NEW c \in CRC
      PROVE  testOf[c] \in EndedAs(v) <=> results[c].outcome = OutcomeOf(v)
  <2> DEFINE t == testOf[c]
  <2>1. t \in Batch /\ t \in Test BY KickstartAssumption DEF Batch
  <2>2. runs[t] \in Seq(Verdict) /\ Len(DecisiveOf(runs[t])) <= 1
    BY <2>1 DEF KickstartInv, KickstartTypeOK, Decisive, DecisiveOf
  <2>3. Follows(results[c], runs[t]) BY DEF KickstartInv, AllFollow
  <2>4. t \in EndedAs(v) <=> /\ DecisiveOf(runs[t]) # <<>>
                             /\ Last(runs[t]) = v
    BY <2>1, <2>2, OneDecides DEF EndedAs, Outstanding
  <2>5. CASE DecisiveOf(runs[t]) = <<>>
    <3>1. results[c].outcome = "None" BY <2>3, <2>5 DEF Follows, Open
    <3>2. OutcomeOf(v) # "None" BY DEF OutcomeOf
    <3> QED BY <2>4, <2>5, <3>1, <3>2
  <2>6. CASE DecisiveOf(runs[t]) # <<>>
    <3>1. DecisiveOf(runs[t])[1] = Last(runs[t]) BY <2>2, <2>6, OneDecides
    <3>2. results[c].outcome = OutcomeOf(Last(runs[t])) BY <2>3, <2>6, <3>1 DEF Follows
    <3>3. OutcomeOf(Last(runs[t])) = OutcomeOf(v) <=> Last(runs[t]) = v
      BY DEF OutcomeOf
    <3> QED BY <2>4, <2>6, <3>2, <3>3
  <2> QED BY <2>5, <2>6
<1>2. \A t \in EndedAs(v) : \E c \in CRC : t = testOf[c] BY DEF EndedAs, Batch
<1> QED BY <1>1, <1>2

(* The number of repeated runs, the flakes of the summary, follows from how *)
(* many runs the tests of the batch have.                                  *)
LEMMA FlakesFollow ==
  ASSUME KickstartInv, \A t \in Batch : Len(Decisive(t)) <= 1
  PROVE  /\ \A t \in EndedAs("SUCCESS") : Len(runs[t]) \in {1, 2}
         /\ {t \in Batch : given.retry /\ runs[t] # <<>> /\ runs[t][1] = "FAILED"
               /\ Decisive(t) \in {<<>>, <<"SUCCESS">>}}
              = Outstanding \cup {t \in EndedAs("SUCCESS") : Len(runs[t]) = 2}
<1>1. ASSUME NEW t \in Batch
      PROVE  /\ t \in EndedAs("SUCCESS") => Len(runs[t]) \in {1, 2}
             /\ (given.retry /\ runs[t] # <<>> /\ runs[t][1] = "FAILED"
                   /\ Decisive(t) \in {<<>>, <<"SUCCESS">>})
                <=> t \in Outstanding \/ (t \in EndedAs("SUCCESS") /\ Len(runs[t]) = 2)
  <2> DEFINE rs == runs[t]
  <2>1. t \in Test BY KickstartAssumption DEF Batch
  <2>2. rs \in Seq(Verdict) /\ Decisive(t) = DecisiveOf(rs) /\ Len(DecisiveOf(rs)) <= 1
    BY <2>1 DEF KickstartInv, KickstartTypeOK, Decisive, DecisiveOf
  <2>3. t \in Outstanding <=> rs # <<>> /\ IsFlake(rs) BY DEF Outstanding
  <2>4. t \in EndedAs("SUCCESS") <=> DecisiveOf(rs) # <<>> /\ Last(rs) = "SUCCESS"
    BY <2>2, <2>3, OneDecides DEF EndedAs
  <2>5. CASE DecisiveOf(rs) = <<>>
    <3>1. rs # <<>> /\ given.retry /\ rs[1] = "FAILED" <=> rs # <<>> /\ IsFlake(rs)
      BY <2>2, <2>5, OneDecides DEF IsFlake
    <3> QED BY <2>2, <2>3, <2>4, <2>5, <3>1
  <2>6. CASE DecisiveOf(rs) # <<>>
    <3>1. /\ rs # <<>> /\ ~IsFlake(rs)
          /\ Len(DecisiveOf(rs)) = 1 /\ DecisiveOf(rs)[1] = Last(rs)
          /\ Len(rs) \in {1, 2}
          /\ Len(rs) = 2 <=> given.retry /\ rs[1] = "FAILED"
      BY <2>2, <2>6, OneDecides
    <3>2. DecisiveOf(rs) \in Seq(Verdict)
      BY <2>2, <3>1 DEF DecisiveOf
    <3>3. DecisiveOf(rs) = <<"SUCCESS">> <=> Last(rs) = "SUCCESS"
      <4> DEFINE ds == DecisiveOf(rs)
      <4>1. ds \in Seq(Verdict) /\ Len(ds) = 1 BY <3>1, <3>2
      <4> HIDE DEF ds
      <4>2. ds = <<ds[1]>> BY <4>1
      <4> QED BY <3>1, <4>2 DEF ds
    <3> QED BY <2>2, <2>3, <2>4, <2>6, <3>1, <3>3
  <2> QED BY <2>5, <2>6
<1>2. EndedAs("SUCCESS") \subseteq Batch /\ Outstanding \subseteq Batch
  BY DEF EndedAs, Outstanding
<1> QED BY <1>1, <1>2

(* The summary of a finished batch is what its tests ended with.           *)
LEMMA SummaryIsRight ==
  ASSUME KickstartInv
  PROVE  SummaryMatches
<1> DEFINE Reported(o) == {testOf[c] : c \in {d \in CRC : results[d].outcome = o}}
           Flakes == {t \in Batch : given.retry /\ runs[t] # <<>> /\ runs[t][1] = "FAILED"
                                      /\ Decisive(t) \in {<<>>, <<"SUCCESS">>}}
           Twice == {t \in EndedAs("SUCCESS") : Len(runs[t]) = 2}
<1>1. SUFFICES ASSUME failures \subseteq {"teardown"}, \A t \in Batch : Len(Decisive(t)) <= 1
               PROVE  /\ Summary.success = Cardinality(Reported("PASS"))
                      /\ Summary.failed = Cardinality(Reported("FAIL"))
                      /\ Summary.flakes = Cardinality(Flakes)
  BY DEF SummaryMatches
<1>2. /\ Summary.success = Cardinality(EndedAs("SUCCESS"))
      /\ Summary.failed = Cardinality(EndedAs("FAILED"))
      /\ Summary.flakes = Cardinality(Outstanding)
           + MapThenSumSet(LAMBDA t : Len(runs[t]) - 1, EndedAs("SUCCESS"))
  BY DEF Summary, EndedAs
<1>3. Reported("PASS") = EndedAs("SUCCESS") /\ Reported("FAIL") = EndedAs("FAILED")
  BY <1>1, SummaryFollows DEF OutcomeOf
<1>4. Flakes = Outstanding \cup Twice BY <1>1, FlakesFollow
<1>5. Outstanding \cap Twice = {} BY DEF EndedAs
<1>6. /\ Outstanding \in SUBSET Batch /\ EndedAs("SUCCESS") \in SUBSET Batch
      /\ Twice \in SUBSET Batch
  BY DEF EndedAs, Outstanding
<1>7. IsFiniteSet(Outstanding) /\ IsFiniteSet(EndedAs("SUCCESS")) /\ IsFiniteSet(Twice)
  BY <1>6, BatchIsFinite, FS_Subset
<1>8. MapThenSumSet(LAMBDA t : Len(runs[t]) - 1, EndedAs("SUCCESS")) = Cardinality(Twice)
  BY <1>1, <1>7, FlakesFollow, RepeatedAreCounted
<1>9. Cardinality(Flakes) = Cardinality(Outstanding) + Cardinality(Twice)
  <2> HIDE DEF Twice, Flakes
  <2>1. Cardinality(Outstanding) \in Nat /\ Cardinality(Twice) \in Nat
    BY <1>7, FS_CardinalityType
  <2>2. Cardinality(Outstanding \cup Twice)
          = Cardinality(Outstanding) + Cardinality(Twice) - Cardinality(Outstanding \cap Twice)
    BY <1>7, FS_Union
  <2>3. Cardinality(Outstanding \cap Twice) = 0 BY <1>5, FS_EmptySet
  <2> QED BY <1>4, <2>1, <2>2, <2>3
<1> QED BY <1>2, <1>3, <1>8, <1>9

(* The summary in the log counts the tests as their crcs are reported, and *)
(* as flakes those that failed first and did not fail again.               *)
THEOREM SummaryIsTrue == KickstartSpec => []SummaryMatches
BY SummaryIsRight, KickstartInvHolds, PTL
=============================================================================

--------------------------- MODULE KickstartBatch ---------------------------
(***************************************************************************)
(* One workflow of plugins/kickstart_test: a batch of kickstart tests run  *)
(* by one launcher process, whose output lines carry the results.  A test  *)
(* may belong to several crcs.  With retry, the launcher runs a test again *)
(* after its first failure, and that failure is a flake so far.            *)
(*                                                                         *)
(* The launcher is external: it prints what it likes and may stop anytime. *)
(***************************************************************************)
EXTENDS Integers, Results, Sequences, SequencesExt

CONSTANTS
  CRC, Test,
  testOf,     \* [CRC -> Test]: automation_data of the test case
  Inputs,     \* what given may be
  MaxRuns     \* bound on the results the launcher prints for one test

(* What the event and the settings may provide. *)
Input == [arch : {"supported", "unsupported"}, params : BOOLEAN, urls : BOOLEAN,
          bootIso : {"none", "http", "file", "https"},
          localRepo : BOOLEAN, retry : BOOLEAN, dryRun : BOOLEAN]

ASSUME KickstartAssumption ==
  /\ IsFiniteSet(CRC)
  /\ testOf \in [CRC -> Test]
  /\ Inputs \subseteq Input
  /\ MaxRuns \in Nat

VARIABLES
  given,      \* the inputs of this workflow
  place,      \* where the thread is
  results,    \* [CRC -> Result]: results of crcList
  runs,       \* [Test -> results of it that were printed]
  isoUrl,     \* boot_iso_url is set
  isoDest,    \* boot_iso_dest is set
  iso,        \* boot.iso is in the repository
  overrides,  \* the url overrides file exists
  tempRepo,   \* the temporary directory of the repository exists
  failures    \* where exceptions were raised

kickstartVars == <<given, place, results, runs, isoUrl, isoDest, iso, overrides,
                   tempRepo, failures>>

Verdict == {"SUCCESS", "FAILED", "other"}

(* Types; boot.iso and the repository come with the setup that made them. *)
KickstartTypeOK ==
  /\ place \in {"setup", "clone", "fetch", "execute", "runner", "teardown", "ended"}
  /\ results \in [CRC -> Result]
  /\ runs \in [Test -> Seq(Verdict)]
  /\ {isoUrl, isoDest, iso, overrides, tempRepo} \subseteq BOOLEAN
  /\ isoDest => isoUrl
  /\ failures \subseteq {"setup", "clone", "fetch", "execute", "runner", "teardown"}

KickstartInit ==
  /\ given \in Inputs
  /\ place = "setup"
  /\ results = [c \in CRC |-> NotStarted]
  /\ runs = [t \in Test |-> <<>>]
  /\ isoUrl = FALSE
  /\ isoDest = FALSE
  /\ iso = FALSE
  /\ overrides = FALSE
  /\ tempRepo = FALSE
  /\ failures = {}

(* groupReportResult. *)
Report(crcs, r) ==
  results' = [c \in CRC |-> IF c \in crcs THEN Updated(results[c], r) ELSE results[c]]

Failure == Res("DNF", "ERROR", TRUE)

(* An exception ends setup or execute; GroupedWorkflow.run reports an error *)
(* for all crcs, silently or not, and tears down.                          *)
Raises ==
  /\ Report(CRC, Failure)
  /\ failures' = failures \cup {place}
  /\ place' = "teardown"

----------------------------------------------------------------------------
(* setup.                                                                  *)

(* UnsupportedConfiguration, MissingInformation or MissingBootIso. *)
MissingInput ==
  given.arch = "unsupported" \/ ~given.params \/ given.bootIso = "none"

(* Up to the clone: the overrides file is written before the boot.iso is    *)
(* looked for, so that it may exist although setup raises.                 *)
Setup ==
  /\ place = "setup"
  /\ overrides' = (given.arch = "supported" /\ given.params /\ given.urls)
  /\ \/ MissingInput /\ Raises /\ UNCHANGED isoUrl
     \/ /\ ~MissingInput
        /\ isoUrl' = TRUE
        /\ Report(CRC, Res("queued", "None", FALSE))
        /\ place' = "clone"
        /\ UNCHANGED failures
  /\ UNCHANGED <<given, runs, isoDest, iso, tempRepo>>

(* The repository: the local one, or a clone in a temporary directory. *)
CloneRepo ==
  /\ place = "clone"
  /\ tempRepo' = ~given.localRepo
  /\ \/ isoDest' = TRUE /\ place' = "fetch" /\ UNCHANGED <<results, failures>>
     \/ ~given.localRepo /\ Raises /\ UNCHANGED isoDest
  /\ UNCHANGED <<given, runs, isoUrl, iso, overrides>>

(* Only http and file are fetched; another scheme leaves boot.iso out. *)
Fetched == given.bootIso \in {"http", "file"}

FetchBootIso ==
  /\ place = "fetch"
  /\ \/ iso' = Fetched /\ place' = "execute" /\ UNCHANGED <<results, failures>>
     \/ Raises /\ iso' \in {FALSE, Fetched}
  /\ UNCHANGED <<given, runs, isoUrl, isoDest, overrides, tempRepo>>

----------------------------------------------------------------------------
(* execute.                                                                *)

(* started and running are reported, then the launcher is started; in a dry *)
(* run echo takes its place and prints no result.                          *)
Execute ==
  /\ place = "execute"
  /\ \/ /\ results' = [c \in CRC |->
              Updated(Updated(results[c], Res("started", "None", FALSE)),
                      Res("running", "None", FALSE))]
        /\ place' = "runner"
        /\ UNCHANGED failures
     \/ Raises
  /\ UNCHANGED <<given, runs, isoUrl, isoDest, iso, overrides, tempRepo>>

(* _is_flake. *)
IsFlake(rs) == given.retry /\ Len(rs) = 1 /\ rs[1] = "FAILED"

(* Mutant of PermianResult: a flake keeps its outcome. *)
PermianResultOfFlake(rs) ==
  CASE Last(rs) = "FAILED"  -> Res("complete", "FAIL", ~IsFlake(rs))
    [] Last(rs) = "SUCCESS" -> Res("complete", "PASS", TRUE)
    [] OTHER                -> Res("complete", "None", TRUE)

(* _get_permian_result_of_test, of a test with results. *)
PermianResult(rs) ==
  CASE IsFlake(rs)          -> Res("running", "None", FALSE)
    [] Last(rs) = "SUCCESS" -> Res("complete", "PASS", TRUE)
    [] Last(rs) = "FAILED" /\ ~IsFlake(rs) -> Res("complete", "FAIL", TRUE)
    [] OTHER                -> Res("complete", "None", TRUE)

(* Tests of the batch. *)
Batch == {testOf[c] : c \in CRC}

(* Mutant of Outstanding: flakes are not told from failures. *)
OutstandingNone == {}

(* Tests whose only result so far is a flake. *)
Outstanding == {t \in Batch : runs[t] # <<>> /\ IsFlake(runs[t])}

(* summary_message, without the runs that timed out. *)
Summary ==
  LET Ended(v) == {t \in Batch \ Outstanding : runs[t] # <<>> /\ Last(runs[t]) = v}
  IN [success |-> Cardinality(Ended("SUCCESS")),
      failed |-> Cardinality(Ended("FAILED")),
      n_a |-> Cardinality(Batch) - Cardinality(Ended("SUCCESS") \cup Ended("FAILED")),
      flakes |-> Cardinality(Outstanding) + MapThenSumSet(LAMBDA t : Len(runs[t]) - 1, Ended("SUCCESS"))]

(* A line with the result of a test of the batch.  Other lines, and results *)
(* of unexpected tests, change nothing.                                    *)
ResultLine ==
  /\ place = "runner" /\ ~given.dryRun
  /\ \E t \in Batch, v \in Verdict :
       /\ Len(runs[t]) < MaxRuns
       /\ runs' = [runs EXCEPT ![t] = Append(@, v)]
       /\ Report({c \in CRC : testOf[c] = t}, PermianResult(runs'[t]))
  /\ UNCHANGED <<given, place, isoUrl, isoDest, iso, overrides, tempRepo, failures>>

(* The output ends, whatever the return code, or reading it raises. *)
RunnerEnds ==
  /\ place = "runner"
  /\ \/ place' = "teardown" /\ UNCHANGED <<results, failures>>
     \/ Raises
  /\ UNCHANGED <<given, runs, isoUrl, isoDest, iso, overrides, tempRepo>>

----------------------------------------------------------------------------

(* Mutant of OverridesLeft: the file with the overrides is forgotten. *)
OverridesKept == overrides

(* What teardown leaves of the overrides when it does not raise. *)
OverridesLeft == FALSE

(* teardown removes boot.iso, the overrides file and the temporary          *)
(* directory.  After a failed clone boot_iso_dest is None, and os.remove   *)
(* raises before anything is removed.                                      *)
Teardown ==
  /\ place = "teardown"
  /\ IF isoUrl /\ ~isoDest
     THEN /\ failures' = failures \cup {"teardown"}
          /\ UNCHANGED <<iso, overrides, tempRepo>>
     ELSE /\ iso' = FALSE
          /\ overrides' = OverridesLeft
          /\ tempRepo' = FALSE
          /\ UNCHANGED failures
  /\ place' = "ended"
  /\ UNCHANGED <<given, results, runs, isoUrl, isoDest>>

KickstartNext ==
  \/ Setup \/ CloneRepo \/ FetchBootIso \/ Execute \/ ResultLine \/ RunnerEnds
  \/ Teardown

KickstartSpec ==
  KickstartInit /\ [][KickstartNext]_kickstartVars /\ WF_kickstartVars(KickstartNext)

----------------------------------------------------------------------------
(* Properties.                                                             *)

(* The results of t that decide: all but a first failure that is retried. *)
Decisive(t) ==
  IF runs[t] # <<>> /\ given.retry /\ runs[t][1] = "FAILED" THEN Tail(runs[t]) ELSE runs[t]

(* While no exception was raised, a crc is final exactly when its test has *)
(* a result that decides, and its outcome is that of the first such        *)
(* result: a failure that was retried leaves no trace in it.               *)
FirstDecisiveCounts ==
  failures \subseteq {"teardown"} =>
    \A c \in CRC :
      LET rs == Decisive(testOf[c])
      IN /\ results[c].final <=> rs # <<>>
         /\ rs # <<>> => results[c].outcome =
              (CASE rs[1] = "SUCCESS" -> "PASS" [] rs[1] = "FAILED" -> "FAIL" [] OTHER -> "None")

(* An exception of setup or execute leaves no crc without a final result. *)
FailureIsFinal ==
  failures \ {"teardown"} # {} => \A c \in CRC : results[c].final

(* Every crc ends with the result that its runs or a failure give it. *)
ResultsDecided == FirstDecisiveCounts /\ FailureIsFinal

(* At the end no file of the workflow is left, unless the clone failed: then *)
(* teardown raises and leaves the overrides file and the directory behind. *)
LeavesNothing ==
  place = "ended" =>
    (overrides \/ tempRepo \/ iso) <=> ("clone" \in failures)

(* As long as no test printed more than one result that decides, the       *)
(* summary in the log counts the tests as their crcs are reported, and a   *)
(* flake is a failed first run that was not followed by a second failure.  *)
SummaryMatches ==
  failures \subseteq {"teardown"} /\ (\A t \in Batch : Len(Decisive(t)) <= 1) =>
    LET Reported(o) == {testOf[c] : c \in {d \in CRC : results[d].outcome = o}}
    IN /\ Summary.success = Cardinality(Reported("PASS"))
       /\ Summary.failed = Cardinality(Reported("FAIL"))
       /\ Summary.flakes = Cardinality({t \in Batch :
            given.retry /\ runs[t] # <<>> /\ runs[t][1] = "FAILED"
              /\ Decisive(t) \in {<<>>, <<"SUCCESS">>}})
=============================================================================

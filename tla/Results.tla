------------------------------- MODULE Results -------------------------------
(***************************************************************************)
(* The Result object of libpermian/result: a state that only moves         *)
(* forward, an outcome that only gets worse, and a final mark.             *)
(* extra_fields are data no control depends on and are left out; dirty is  *)
(* kept by ReportSenders, the only component that reads it.                *)
(***************************************************************************)
EXTENDS Naturals

State == {"not started", "queued", "started", "running",
          "cleaning", "canceled", "complete", "DNF"}

(* Position of a state in the ordered dictionary STATES. *)
StateIndex == [s \in State |->
                 CASE s = "not started" -> 0
                   [] s = "queued"      -> 1
                   [] s = "started"     -> 2
                   [] s = "running"     -> 3
                   [] s = "cleaning"    -> 4
                   [] s = "canceled"    -> 5
                   [] s = "complete"    -> 6
                   [] s = "DNF"         -> 7]

Outcome == {"None", "PASS", "FAIL", "ERROR"}

(* Position of an outcome in the ordered dictionary RESULTS. *)
OutcomeIndex == [o \in Outcome |->
                   CASE o = "None"  -> 0
                     [] o = "PASS"  -> 1
                     [] o = "FAIL"  -> 2
                     [] o = "ERROR" -> 3]

Result == [state : State, outcome : Outcome, final : BOOLEAN]

Res(state, outcome, final) ==
  [state |-> state, outcome |-> outcome, final |-> final]

NotStarted == Res("not started", "None", FALSE)

Backward(old, new) == StateIndex[new.state] < StateIndex[old.state]

(* The outcome is replaced only by one of a higher rank. *)
Worst(old, new) == IF OutcomeIndex[new] > OutcomeIndex[old] THEN new ELSE old

(* status and result of a list of case-run-configurations, from the set of *)
(* its results: the lowest state and the worst outcome present.            *)
LowestState(results) ==
  CHOOSE s \in {r.state : r \in results} :
    \A r \in results : StateIndex[s] <= StateIndex[r.state]

WorstOutcome(results) ==
  CHOOSE o \in {r.outcome : r \in results} :
    \A r \in results : OutcomeIndex[r.outcome] <= OutcomeIndex[o]

(* Result.update raises StateChangeError exactly when this is false. *)
Accepts(r, u) == ~r.final /\ ~Backward(r, u)

(* Mutant of Updated: states are not compared. *)
UpdatedAnyOrder(r, u) ==
  IF r.final THEN r ELSE Res(u.state, Worst(r.outcome, u.outcome), u.final)

(* What Result.update leaves in r, raising or not: the final mark is       *)
(* overwritten before the state is compared, so an update refused for      *)
(* going backward still changes it.                                        *)
Updated(r, u) ==
  IF r.final           THEN r
  ELSE IF Backward(r, u) THEN [r EXCEPT !.final = u.final]
  ELSE Res(u.state, Worst(r.outcome, u.outcome), u.final)

(* The order in which the values of one Result may succeed each other. *)
Precedes(r, q) ==
  /\ r.final => q = r
  /\ StateIndex[r.state] <= StateIndex[q.state]
  /\ OutcomeIndex[r.outcome] <= OutcomeIndex[q.outcome]
=============================================================================

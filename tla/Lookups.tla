------------------------------ MODULE Lookups ------------------------------
(***************************************************************************)
(* Waiting for something that appears some time: a compose in beaker, the  *)
(* test compose of a koji build, a beaker call that works, the address of  *)
(* a VM, a free port; and choosing among the composes that were found.     *)
(*                                                                         *)
(* The services are external.  Each look at one takes some time, and finds *)
(* what has appeared before it began.                                      *)
(***************************************************************************)
EXTENDS Integers, Sequences, FiniteSets, SequencesExt, Functions

CONSTANTS
  Tasks,     \* what task may be
  MaxLook,   \* how long a look takes at most
  MaxTime    \* bound on the time that is looked at

(* What is looked for, and how: see TaskOK for the fields of each kind. *)
Timed == {"beaker", "koji"}
Counted == {"retry", "ip", "port"}
Composed == {"accepted", "previous"}

(* The id of a compose: its characters, as numbers. *)
ComposeId == Seq(Nat)

TaskOK(t) ==
  \/ /\ t.kind \in Timed
     /\ t.timeout \in Int /\ t.step \in Nat
     /\ t.kind = "beaker" => t.step > 0
  \/ /\ t.kind \in Counted
     /\ t.attempts \in Int /\ t.step \in Nat /\ t.growth \in Nat \ {0}
     /\ t.kind # "retry" => t.growth = 1
  \/ /\ t.kind \in Composed
     /\ t.lists \in Seq(Seq(ComposeId)) \ {<<>>}
     /\ t.kind = "previous" => t.own \in ComposeId

ASSUME LookupsAssumption ==
  /\ \A t \in Tasks : TaskOK(t)
  /\ MaxLook \in Nat \ {0}
  /\ MaxTime \in Nat

VARIABLES
  task,      \* what is looked for
  appears,   \* when it appears
  at,        \* where the loop is
  now,       \* time since the start
  slept,     \* how much of it was slept
  looks,     \* number of looks
  last,      \* when the last look began
  left,      \* timeout (beaker) or attempts that are left
  nap,       \* next interval
  chosen     \* the compose that was chosen

lookupVars == <<task, appears, at, now, slept, looks, last, left, nap, chosen>>

NoCompose == <<>>
Ended == {"found", "gaveUp", "other"}

LookupTypeOK ==
  /\ task \in Tasks
  /\ appears \in Nat
  /\ at \in {"look", "sleep"} \cup Ended
  /\ now \in Nat /\ slept \in Nat /\ looks \in Nat /\ nap \in Nat
  /\ last \in Nat /\ left \in Int
  /\ slept + looks <= now /\ now <= slept + looks * MaxLook
  /\ last <= now
  /\ task.kind \in Counted /\ task.attempts >= 0 => left \in 0..task.attempts

LookupInit ==
  /\ task \in Tasks
  /\ appears \in 0..(MaxTime + 1)
  /\ at = IF task.kind = "ip" /\ task.attempts > 0 THEN "sleep" ELSE "look"
  /\ now = 0
  /\ slept = 0
  /\ looks = 0
  /\ last = 0
  /\ left = IF task.kind \in Timed THEN task.timeout
            ELSE IF task.kind \in Counted THEN task.attempts ELSE 0
  /\ nap = IF task.kind \in Composed THEN 0 ELSE task.step
  /\ chosen = NoCompose

----------------------------------------------------------------------------
(* The waiting loops.                                                      *)

(* Mutant of MayLook: the last look is left out. *)
MayLookAhead ==
  CASE task.kind = "koji"     -> task.timeout <= 0 \/ now + task.step < task.timeout
    [] task.kind \in Composed -> FALSE
    [] OTHER                  -> left > 0

(* The condition of the loop.  koji has a deadline, if its timeout is       *)
(* positive, and no condition otherwise.                                   *)
MayLook ==
  CASE task.kind = "koji"     -> task.timeout <= 0 \/ now < task.timeout
    [] task.kind \in Composed -> FALSE
    [] OTHER                  -> left > 0

LookFinds ==
  /\ at = "look" /\ MayLook /\ appears <= now
  /\ at' = "found"
  /\ \E d \in 1..MaxLook : now' = now + d
  /\ looks' = looks + 1
  /\ last' = now
  /\ UNCHANGED <<task, appears, slept, left, nap, chosen>>

(* What follows a look in vain.  The last attempt is not followed by a      *)
(* sleep, but beaker and koji sleep before they look at the time.          *)
AfterMiss ==
  CASE task.kind = "koji" -> IF task.timeout = 0 THEN "gaveUp" ELSE "sleep"
    [] task.kind = "port" -> IF left > 1 THEN "look" ELSE "gaveUp"
    [] task.kind \in {"retry", "ip"} -> IF left > 1 THEN "sleep" ELSE "gaveUp"
    [] OTHER -> "sleep"

LookMisses ==
  /\ at = "look" /\ MayLook /\ appears > now
  /\ at' = AfterMiss
  /\ \E d \in 1..MaxLook : now' = now + d
  /\ looks' = looks + 1
  /\ last' = now
  /\ left' = IF task.kind \in Counted THEN left - 1 ELSE left
  /\ UNCHANGED <<task, appears, slept, nap, chosen>>

(* An exception that retry_call does not ignore. *)
LookRaises ==
  /\ at = "look" /\ MayLook /\ task.kind = "retry"
  /\ at' = "other"
  /\ UNCHANGED <<task, appears, now, slept, looks, last, left, nap, chosen>>

(* Mutant of Slept: the interval grows before it is slept. *)
SleptGrown == IF task.kind = "retry" THEN nap * task.growth ELSE nap

Slept == nap

Sleep ==
  /\ at = "sleep" /\ now <= MaxTime
  /\ at' = "look"
  /\ now' = now + Slept
  /\ slept' = slept + Slept
  /\ left' = IF task.kind = "beaker" THEN left - task.step ELSE left
  /\ nap' = IF task.kind = "retry" THEN nap * task.growth ELSE nap
  /\ UNCHANGED <<task, appears, looks, last, chosen>>

(* The end of the loop: False, ComposeNotAvailable, VMIPTimeout or None;    *)
(* or retry_call is asked for less than one attempt.                       *)
GiveUp ==
  /\ at = "look" /\ task.kind \notin Composed /\ ~MayLook
  /\ at' = "gaveUp"
  /\ UNCHANGED <<task, appears, now, slept, looks, last, left, nap, chosen>>

----------------------------------------------------------------------------
(* Choosing a compose.                                                     *)

LexLess(s, t) ==
  \/ IsStrictPrefix(s, t)
  \/ \E i \in DOMAIN s \cap DOMAIN t : s[i] < t[i] /\ \A j \in 1..(i - 1) : s[j] = t[j]

(* _compose_cmp: a release is preferred to the composes it is a prefix of. *)
ComposeCmp(this, that) ==
  IF IsPrefix(that, this) THEN -1
  ELSE IF IsPrefix(this, that) THEN 1
  ELSE IF LexLess(that, this) THEN 1 ELSE -1

(* max of python. *)
Best(list) ==
  LET best[n \in DOMAIN list] ==
        IF n = 1 THEN list[1]
        ELSE IF ComposeCmp(list[n], best[n - 1]) > 0 THEN list[n] ELSE best[n - 1]
  IN best[Len(list)]

(* rtt_accepted: the name is cut until composes with the tag are found.     *)
(* task.lists holds the composes found for each name.                      *)
TryName ==
  /\ at = "look" /\ task.kind = "accepted" /\ looks < Len(task.lists)
  /\ LET list == task.lists[looks + 1]
     IN \/ /\ list # <<>>
           /\ chosen' = Best(list)
           /\ at' = "found"
        \/ /\ list = <<>>
           /\ at' = IF looks + 1 = Len(task.lists) THEN "gaveUp" ELSE "look"
           /\ UNCHANGED chosen
        \/ at' = "other" /\ UNCHANGED chosen    \* bkr fails
  /\ looks' = looks + 1
  /\ now' = now + 1
  /\ last' = now
  /\ UNCHANGED <<task, appears, slept, left, nap>>

(* sorted of python. *)
Sorted(list) ==
  LET order == CHOOSE p \in Bijection(DOMAIN list, DOMAIN list) :
                 \A i, j \in DOMAIN list : i < j => ~LexLess(list[p[j]], list[p[i]])
  IN [i \in DOMAIN list |-> list[order[i]]]

(* Mutant of Previous: the first compose of the list is not treated. *)
PreviousOrLast(list, own) ==
  LET sorted == Sorted(IF own \in ToSet(list) THEN list ELSE Append(list, own))
      index == CHOOSE i \in DOMAIN sorted :
                 sorted[i] = own /\ \A j \in 1..(i - 1) : sorted[j] # own
      id == IF index = 1 THEN Last(sorted) ELSE sorted[index - 1]
  IN IF id # own THEN id ELSE NoCompose

(* previous: the id before the own one in the sorted list; index -1 is the  *)
(* last one, which is excluded.                                            *)
Previous(list, own) ==
  LET sorted == Sorted(IF own \in ToSet(list) THEN list ELSE Append(list, own))
      index == CHOOSE i \in DOMAIN sorted :
                 sorted[i] = own /\ \A j \in 1..(i - 1) : sorted[j] # own
      id == IF index = 1 THEN Last(sorted) ELSE sorted[index - 1]
  IN IF id # own /\ id # Last(sorted) THEN id ELSE NoCompose

TakePrevious ==
  /\ at = "look" /\ task.kind = "previous"
  /\ chosen' = Previous(task.lists[1], task.own)
  /\ at' = IF chosen' = NoCompose THEN "gaveUp" ELSE "found"
  /\ looks' = looks + 1
  /\ now' = now + 1
  /\ last' = now
  /\ UNCHANGED <<task, appears, slept, left, nap>>

----------------------------------------------------------------------------

LookupNext ==
  \/ LookFinds \/ LookMisses \/ LookRaises \/ Sleep \/ GiveUp
  \/ TryName \/ TakePrevious

LookupSpec == LookupInit /\ [][LookupNext]_lookupVars /\ WF_lookupVars(LookupNext)

----------------------------------------------------------------------------
(* Properties.                                                             *)

(* The waiting for a compose ends after the timeout, and less than one     *)
(* interval later; beaker only counts the time it slept.                   *)
GivesUpInTime ==
  at = "gaveUp" /\ task.kind \in Timed /\ task.timeout > 0 =>
    IF task.kind = "beaker"
    THEN task.timeout <= slept /\ slept < task.timeout + task.step
    ELSE task.timeout <= now /\ now < task.timeout + task.step + MaxLook

(* A compose that appears one interval and one look before the timeout is  *)
(* not missed.  One that appears later may be, although it appears before  *)
(* the timeout.                                                            *)
NothingMissed ==
  at = "gaveUp" /\ task.kind \in Timed =>
    appears > task.timeout - task.step - MaxLook

(* Where the timeout is not positive: koji looks once for zero, and goes on *)
(* for ever for less; beaker does not look at all.                         *)
Boundaries ==
  /\ task.kind = "koji" /\ task.timeout = 0 => looks <= 1
  /\ task.kind = "koji" /\ task.timeout < 0 => at # "gaveUp"
  /\ task.kind = "beaker" /\ task.timeout <= 0 => looks = 0

(* Waiting for a compose takes the timeout, and what appears is found.    *)
WaitsAsAsked == GivesUpInTime /\ NothingMissed /\ Boundaries

(* b to the power of n, for n \in Nat. *)
Power(b, n) == LET p[i \in Nat] == IF i = 0 THEN 1 ELSE b * p[i - 1] IN p[n]

(* All attempts are made before giving up.  A VM is looked at after each    *)
(* interval; retry_call sleeps between the calls only, and as the interval *)
(* grows, this sums up to step * (growth^(attempts - 1) - 1) / (growth - 1). *)
AttemptsExact ==
  at = "gaveUp" /\ task.kind \in Counted /\ task.attempts > 0 =>
    /\ looks = task.attempts
    /\ task.kind = "ip" => slept = task.attempts * task.step
    /\ task.kind = "retry" =>
         slept * (task.growth - 1) = task.step * (Power(task.growth, task.attempts - 1) - 1)

(* The compose accepted last does not depend on the order beaker lists     *)
(* them in: all others of that name continue it or are less.               *)
AcceptedIsLast ==
  at = "found" /\ task.kind = "accepted" =>
    /\ \A l \in 1..(looks - 1) : task.lists[l] = <<>>
    /\ chosen \in ToSet(task.lists[looks])
    /\ \A id \in ToSet(task.lists[looks]) \ {chosen} :
         IsPrefix(chosen, id) \/ (LexLess(id, chosen) /\ ~IsPrefix(id, chosen))

(* The previous compose is the last one before the own one, if any. *)
PreviousIsNearest ==
  at \in Ended /\ task.kind = "previous" =>
    LET before == {id \in ToSet(task.lists[1]) : LexLess(id, task.own)}
    IN IF before = {} THEN chosen = NoCompose
       ELSE chosen \in before /\ \A id \in before \ {chosen} : LexLess(id, chosen)

(* Both choices among composes are what their names say. *)
ChoiceCorrect == AcceptedIsLast /\ PreviousIsNearest
=============================================================================

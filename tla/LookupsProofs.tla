---------------------------- MODULE LookupsProofs ----------------------------
(***************************************************************************)
(* For any timeouts, intervals and durations of a look: the types, that    *)
(* waiting for a compose takes the timeout, less than an interval more,    *)
(* and misses nothing that appears early enough, and that all attempts are *)
(* made, with the intervals between them, before a lookup is given up.     *)
(* For any lists of composes: the one that is chosen is the right one.     *)
(***************************************************************************)
EXTENDS Lookups, SequenceTheorems, WellFoundedInduction, TLAPS

(* The time a loop that waits for a compose has spent.  The last look was  *)
(* in vain, unless the compose was found; at most an interval was slept    *)
(* after it.                                                               *)
TimedInv ==
  task.kind \in Timed =>
    /\ nap = task.step
    /\ looks = 0 => now = 0 /\ slept = 0 /\ at # "sleep"
    /\ looks > 0 /\ at # "found" =>
         /\ appears > last
         /\ now <= last + MaxLook + task.step
         /\ at = "sleep" => now <= last + MaxLook

(* beaker counts down what it slept, and sleeps only while time is left.   *)
BeakerInv ==
  task.kind = "beaker" =>
    /\ slept + left = task.timeout
    /\ at = "sleep" => left > 0
    /\ task.timeout > 0 => left > -task.step
    /\ at = "gaveUp" => left <= 0
    /\ looks > 0 => task.timeout > 0

(* koji has a deadline, one look, or no end, by the sign of its timeout.   *)
KojiInv ==
  task.kind = "koji" =>
    /\ task.timeout > 0 =>
         /\ at = "sleep" => now < task.timeout + MaxLook
         /\ at \in {"look", "gaveUp"} => now < task.timeout + task.step + MaxLook
         /\ at = "gaveUp" => task.timeout <= now
    /\ task.timeout = 0 =>
         /\ at = "look" => looks = 0
         /\ at # "sleep" /\ looks <= 1
    /\ task.timeout < 0 => at # "gaveUp"

LookupInv == LookupTypeOK /\ TimedInv /\ BeakerInv /\ KojiInv

(* What the assumption says of one task. *)
LEMMA TaskFacts ==
  ASSUME task \in Tasks
  PROVE  /\ TaskOK(task) /\ MaxLook \in Nat \ {0} /\ MaxTime \in Nat
         /\ task.kind \in Timed \cup Counted \cup Composed
         /\ task.kind \in Timed => task.timeout \in Int /\ task.step \in Nat
         /\ task.kind = "beaker" => task.step > 0
         /\ task.kind \in Counted =>
              task.attempts \in Int /\ task.step \in Nat /\ task.growth \in Nat \ {0}
BY LookupsAssumption DEF TaskOK, Timed, Counted, Composed

LEMMA InvInit ==
  ASSUME LookupInit PROVE LookupInv
<1>0. task \in Tasks BY DEF LookupInit
<1>1. LookupTypeOK
  BY <1>0, TaskFacts DEF LookupInit, LookupTypeOK, Ended, Timed, Counted, Composed
<1>2. TimedInv BY <1>0, TaskFacts DEF LookupInit, TimedInv, Timed, Composed
<1>3. BeakerInv BY <1>0, TaskFacts DEF LookupInit, BeakerInv, Timed
<1>4. KojiInv BY <1>0, TaskFacts DEF LookupInit, KojiInv, Timed
<1> QED BY <1>1, <1>2, <1>3, <1>4 DEF LookupInv

(* The bound on the time of all looks grows with a look. *)
LEMMA OneMoreLook ==
  ASSUME LookupTypeOK, NEW d \in 1..MaxLook, MaxLook \in Nat
  PROVE  /\ slept + (looks + 1) <= now + d
         /\ now + d <= slept + (looks + 1) * MaxLook
<1>1. (looks + 1) * MaxLook = looks * MaxLook + MaxLook
  BY DEF LookupTypeOK
<1>2. looks * MaxLook \in Nat BY DEF LookupTypeOK
<1> QED BY <1>1, <1>2 DEF LookupTypeOK

LEMMA InvStep ==
  ASSUME LookupInv, [LookupNext]_lookupVars
  PROVE  LookupInv'
<1> USE DEF LookupInv
<1>0. /\ task \in Tasks /\ MaxLook \in Nat \ {0}
      /\ task.kind \in Timed => task.timeout \in Int /\ task.step \in Nat
      /\ task.kind = "beaker" => task.step > 0
      /\ task.kind \in Counted =>
           task.attempts \in Int /\ task.step \in Nat /\ task.growth \in Nat \ {0}
  BY TaskFacts DEF LookupTypeOK
<1>1. CASE UNCHANGED lookupVars
  BY <1>1 DEF lookupVars, LookupTypeOK, TimedInv, BeakerInv, KojiInv
<1>2. CASE LookFinds
  <2>1. PICK d \in 1..MaxLook : now' = now + d BY <1>2 DEF LookFinds
  <2>2. LookupTypeOK'
    BY <1>0, <1>2, <2>1, OneMoreLook DEF LookFinds, LookupTypeOK, Ended
  <2>3. TimedInv' BY <1>0, <1>2, <2>2 DEF LookFinds, LookupTypeOK, TimedInv
  <2>4. BeakerInv'
    BY <1>0, <1>2 DEF LookFinds, LookupTypeOK, BeakerInv, MayLook, Timed, Composed
  <2>5. KojiInv' BY <1>0, <1>2 DEF LookFinds, LookupTypeOK, KojiInv, Timed
  <2> QED BY <2>2, <2>3, <2>4, <2>5
<1>3. CASE LookMisses
  <2>1. PICK d \in 1..MaxLook : now' = now + d BY <1>3 DEF LookMisses
  <2>2. at' \in {"look", "sleep", "gaveUp"} BY <1>3 DEF LookMisses, AfterMiss
  <2>3. LookupTypeOK'
    <3>1. task.kind \in Counted => left > 0
      BY <1>3 DEF LookMisses, MayLook, Counted, Composed
    <3> QED BY <1>0, <1>3, <2>1, <2>2, <3>1, OneMoreLook DEF LookMisses, LookupTypeOK, Ended
  <2>4. TimedInv'
    BY <1>0, <1>3, <2>1, <2>3 DEF LookMisses, LookupTypeOK, TimedInv
  <2>5. BeakerInv'
    BY <1>0, <1>3 DEF LookMisses, LookupTypeOK, BeakerInv, MayLook, AfterMiss, Timed, Counted, Composed
  <2>6. KojiInv'
    BY <1>0, <1>3, <2>1 DEF LookMisses, LookupTypeOK, KojiInv, MayLook, AfterMiss, Timed, Counted, Composed
  <2> QED BY <2>3, <2>4, <2>5, <2>6
<1>4. CASE LookRaises
  <2>1. LookupTypeOK' BY <1>4 DEF LookRaises, LookupTypeOK, Ended
  <2> QED BY <1>4, <2>1 DEF LookRaises, TimedInv, BeakerInv, KojiInv, Timed
<1>5. CASE Sleep
  <2>1. nap' \in Nat
    <3>1. CASE task.kind = "retry"
      <4>1. task.growth \in Nat BY <1>0, <3>1 DEF Counted
      <4>2. nap * task.growth \in Nat BY <4>1 DEF LookupTypeOK
      <4> QED BY <1>5, <3>1, <4>2 DEF Sleep
    <3> QED BY <1>5, <3>1 DEF Sleep, LookupTypeOK
  <2>2. LookupTypeOK'
    <3>1. looks * MaxLook \in Nat BY <1>0 DEF LookupTypeOK
    <3>2. slept + nap + looks <= now + nap /\ now + nap <= slept + nap + looks * MaxLook
      BY <3>1 DEF LookupTypeOK
    <3>3. left' \in Int /\ (task.kind \in Counted => left' = left)
      BY <1>0, <1>5 DEF Sleep, LookupTypeOK, Timed, Counted
    <3> QED BY <1>5, <2>1, <3>2, <3>3 DEF Sleep, Slept, LookupTypeOK
  <2>3. TimedInv' BY <1>0, <1>5 DEF Sleep, Slept, LookupTypeOK, TimedInv, Timed
  <2>4. BeakerInv' BY <1>0, <1>5 DEF Sleep, Slept, LookupTypeOK, TimedInv, BeakerInv, Timed
  <2>5. KojiInv' BY <1>0, <1>5 DEF Sleep, Slept, LookupTypeOK, TimedInv, KojiInv, Timed
  <2> QED BY <2>2, <2>3, <2>4, <2>5
<1>6. CASE GiveUp
  <2>1. LookupTypeOK' BY <1>6 DEF GiveUp, LookupTypeOK, Ended
  <2>2. TimedInv' BY <1>6 DEF GiveUp, TimedInv
  <2>3. BeakerInv' BY <1>0, <1>6 DEF GiveUp, MayLook, BeakerInv, LookupTypeOK, Composed
  <2>4. KojiInv' BY <1>0, <1>6 DEF GiveUp, MayLook, KojiInv, LookupTypeOK, Timed
  <2> QED BY <2>1, <2>2, <2>3, <2>4
<1>7. CASE TryName \/ TakePrevious
  <2>1. /\ task.kind \in Composed /\ at' \in {"look"} \cup Ended
        /\ looks' = looks + 1 /\ now' = now + 1 /\ last' = now
        /\ task' = task /\ appears' = appears /\ slept' = slept /\ left' = left /\ nap' = nap
    BY <1>7 DEF TryName, TakePrevious, Composed, Ended
  <2>2. LookupTypeOK'
    BY <1>0, <2>1, OneMoreLook DEF LookupTypeOK
  <2> QED BY <2>1, <2>2 DEF TimedInv, BeakerInv, KojiInv, Timed, Composed
<1> QED BY <1>1, <1>2, <1>3, <1>4, <1>5, <1>6, <1>7 DEF LookupNext

LEMMA InvHolds == LookupSpec => []LookupInv
BY InvInit, InvStep, PTL DEF LookupSpec

(* The state of every waiting loop keeps its type, and the time since the  *)
(* start is what was slept and spent on looks.                             *)
THEOREM LookupTypeCorrect == LookupSpec => []LookupTypeOK
<1>1. LookupInv => LookupTypeOK BY DEF LookupInv
<1> QED BY <1>1, InvHolds, PTL

LEMMA InTime == ASSUME LookupInv PROVE GivesUpInTime
<1>1. CASE at = "gaveUp" /\ task.kind = "beaker" /\ task.timeout > 0
  BY <1>1, TaskFacts DEF LookupInv, LookupTypeOK, BeakerInv, GivesUpInTime, Timed
<1>2. CASE at = "gaveUp" /\ task.kind = "koji" /\ task.timeout > 0
  BY <1>2 DEF LookupInv, KojiInv, GivesUpInTime
<1> QED BY <1>1, <1>2 DEF GivesUpInTime, Timed

LEMMA Found == ASSUME LookupInv PROVE NothingMissed
<1> SUFFICES ASSUME at = "gaveUp", task.kind \in Timed
             PROVE  appears > task.timeout - task.step - MaxLook
  BY DEF NothingMissed
<1>0. /\ task.timeout \in Int /\ task.step \in Nat /\ MaxLook \in Nat \ {0}
      /\ appears \in Nat /\ now \in Nat /\ slept \in Nat /\ looks \in Nat /\ last \in Nat
      /\ left \in Int /\ slept + looks <= now
  BY TaskFacts DEF LookupInv, LookupTypeOK
<1>1. task.timeout <= now
  <2>1. CASE task.kind = "beaker" BY <1>0, <2>1 DEF LookupInv, BeakerInv
  <2>2. CASE task.kind = "koji" BY <1>0, <2>2 DEF LookupInv, KojiInv
  <2> QED BY <2>1, <2>2 DEF Timed
<1>2. CASE looks = 0 BY <1>0, <1>1, <1>2 DEF LookupInv, TimedInv
<1>3. CASE looks > 0 BY <1>0, <1>1, <1>3 DEF LookupInv, TimedInv
<1> QED BY <1>0, <1>2, <1>3

LEMMA AtTheBoundaries == ASSUME LookupInv PROVE Boundaries
BY TaskFacts DEF LookupInv, LookupTypeOK, BeakerInv, KojiInv, Boundaries, Timed

(* However long the timeout, the interval and a look: the loops of beaker  *)
(* and koji give up in time, but not before what appears was found.        *)
THEOREM WaitingIsAsAsked == LookupSpec => []WaitsAsAsked
<1>1. LookupInv => WaitsAsAsked
  BY InTime, Found, AtTheBoundaries DEF WaitsAsAsked
<1> QED BY <1>1, InvHolds, PTL

----------------------------------------------------------------------------
(* Recursion on the numbers: what powers are.                              *)

(* Induction, with a set in place of a predicate. *)
LEMMA SetInduction ==
  ASSUME NEW S, 0 \in S, \A n \in Nat : n \in S => n + 1 \in S
  PROVE  Nat \subseteq S
<1> DEFINE T == {n \in Nat : n \notin S}
           Less == OpToRel(<, Nat)
<1>1. \A m, n \in Nat : <<m, n>> \in Less <=> m < n BY DEF OpToRel
<1>2. IsWellFoundedOn(Less, Nat) BY NatLessThanWellFounded
<1> HIDE DEF Less
<1>3. SUFFICES ASSUME T # {} PROVE FALSE OBVIOUS
<1>4. PICK n \in T : \A m \in T : ~ (<<m, n>> \in Less)
  <2>1. T \subseteq Nat OBVIOUS
  <2> HIDE DEF T
  <2> QED BY <1>2, <1>3, <2>1, WFMin
<1>5. n \in Nat /\ n \notin S /\ n # 0 OBVIOUS
<1>6. n - 1 \in Nat /\ n - 1 < n BY <1>5
<1>7. n - 1 \in S BY <1>1, <1>4, <1>5, <1>6
<1> QED BY <1>5, <1>6, <1>7

(* Recursion, with a function in place of an operator. *)
Iterates(f, e, F) == f[0] = e /\ \A n \in Nat : f[n + 1] = F[<<n, f[n]>>]

LEMMA Recursion ==
  ASSUME NEW D, NEW e \in D, NEW F \in [Nat \X D -> D]
  PROVE  \E f \in [Nat -> D] : Iterates(f, e, F)
<1> DEFINE Approx(h, n) == /\ h \in [0..n -> D] /\ h[0] = e
                           /\ \A i \in 0..(n - 1) : h[i + 1] = F[<<i, h[i]>>]
<1>1. ASSUME NEW n \in Nat, \E h : Approx(h, n)
      PROVE  \E h : Approx(h, n + 1)
  <2>1. PICK h : Approx(h, n) BY <1>1
  <2> DEFINE g == [i \in 0..(n + 1) |-> IF i = n + 1 THEN F[<<n, h[n]>>] ELSE h[i]]
  <2>2. h[n] \in D /\ F[<<n, h[n]>>] \in D BY <2>1
  <2>3. \A i \in 0..n : h[i] \in D BY <2>1
  <2>4. \A i \in 0..(n + 1) : i # n + 1 => i \in 0..n OBVIOUS
  <2>5. g \in [0..(n + 1) -> D] BY <2>2, <2>3, <2>4
  <2>6. \A i \in 0..n : g[i] = h[i] OBVIOUS
  <2>7. g[n + 1] = F[<<n, h[n]>>] OBVIOUS
  <2> HIDE DEF g
  <2>8. ASSUME NEW i \in 0..n PROVE g[i + 1] = F[<<i, g[i]>>]
    <3>1. CASE i = n BY <2>6, <2>7, <3>1
    <3>2. CASE i # n
      <4>1. i \in 0..(n - 1) /\ i + 1 \in 0..n BY <3>2
      <4> QED BY <2>1, <2>6, <4>1
    <3> QED BY <3>1, <3>2
  <2>9. (n + 1) - 1 = n OBVIOUS
  <2>10. g[0] = e BY <2>1, <2>6
  <2>11. Approx(g, n + 1) BY <2>5, <2>8, <2>9, <2>10
  <2> QED BY <2>11
<1>2. \A n \in Nat : \E h : Approx(h, n)
  <2> DEFINE S == {n \in Nat : \E h : Approx(h, n)}
  <2>1. 0 \in S
    <3>1. Approx([i \in 0..0 |-> e], 0) OBVIOUS
    <3> QED BY <3>1
  <2>2. \A n \in Nat : n \in S => n + 1 \in S
    <3> HIDE DEF Approx
    <3> QED BY <1>1
  <2> HIDE DEF S
  <2>3. Nat \subseteq S BY <2>1, <2>2, SetInduction
  <2> QED BY <2>3 DEF S
<1>3. ASSUME NEW m \in Nat, NEW n \in Nat, m <= n, NEW h, NEW g, Approx(h, m), Approx(g, n)
      PROVE  h[m] = g[m]
  <2> DEFINE S == {i \in Nat : i <= m => h[i] = g[i]}
  <2>1. 0 \in S BY <1>3
  <2>2. ASSUME NEW i \in Nat, i \in S PROVE i + 1 \in S
    <3>1. SUFFICES ASSUME i + 1 <= m PROVE h[i + 1] = g[i + 1] OBVIOUS
    <3>2. i \in 0..(m - 1) /\ i \in 0..(n - 1) BY <1>3, <3>1
    <3>3. h[i] = g[i] BY <2>2, <3>1
    <3> QED BY <1>3, <3>2, <3>3
  <2> HIDE DEF S
  <2>3. Nat \subseteq S BY <2>1, <2>2, SetInduction
  <2>4. m \in S BY <2>3
  <2> QED BY <2>4 DEF S
<1> DEFINE H(n) == CHOOSE h : Approx(h, n)
           f == [n \in Nat |-> H(n)[n]]
<1>4. \A n \in Nat : Approx(H(n), n) BY <1>2
<1> HIDE DEF H
<1>5. f \in [Nat -> D]
  <2>1. ASSUME NEW n \in Nat PROVE H(n)[n] \in D
    <3>1. n \in 0..n /\ Approx(H(n), n) BY <1>4
    <3> QED BY <3>1
  <2> QED BY <2>1
<1>6. f[0] = e BY <1>4
<1>7. ASSUME NEW n \in Nat PROVE f[n + 1] = F[<<n, f[n]>>]
  <2>1. Approx(H(n), n) /\ Approx(H(n + 1), n + 1) BY <1>4
  <2>2. H(n)[n] = H(n + 1)[n]
    <3> HIDE DEF Approx
    <3> QED BY <1>3, <2>1
  <2>3. n \in 0..((n + 1) - 1) OBVIOUS
  <2>4. H(n + 1)[n + 1] = F[<<n, H(n + 1)[n]>>] BY <2>1, <2>3
  <2> QED BY <2>2, <2>4
<1> QED BY <1>5, <1>6, <1>7 DEF Iterates

LEMMA PowerIs ==
  ASSUME NEW b \in Nat
  PROVE  /\ Power(b, 0) = 1
         /\ \A n \in Nat : Power(b, n) \in Nat /\ Power(b, n + 1) = b * Power(b, n)
<1> DEFINE Is(p) == p = [i \in Nat |-> IF i = 0 THEN 1 ELSE b * p[i - 1]]
           pow == CHOOSE p : Is(p)
           F == [x \in Nat \X Nat |-> b * x[2]]
<1>1. F \in [Nat \X Nat -> Nat] OBVIOUS
<1>2. PICK f \in [Nat -> Nat] : Iterates(f, 1, F)
  <2> HIDE DEF F
  <2>1. 1 \in Nat OBVIOUS
  <2> QED BY <1>1, <2>1, Recursion
<1>3. ASSUME NEW i \in Nat PROVE f[i] = IF i = 0 THEN 1 ELSE b * f[i - 1]
  <2>1. CASE i = 0 BY <1>2, <2>1 DEF Iterates
  <2>2. CASE i # 0
    <3>1. i - 1 \in Nat /\ (i - 1) + 1 = i BY <2>2
    <3>2. f[(i - 1) + 1] = F[<<i - 1, f[i - 1]>>] BY <1>2, <3>1 DEF Iterates
    <3>3. F[<<i - 1, f[i - 1]>>] = b * f[i - 1] BY <3>1
    <3> QED BY <2>2, <3>1, <3>2, <3>3
  <2> QED BY <2>1, <2>2
<1>4. Is(f)
  <2>1. f = [i \in Nat |-> f[i]] OBVIOUS
  <2> QED BY <1>3, <2>1
<1>5. Is(pow) BY <1>4
<1>6. \A n : Power(b, n) = pow[n] BY DEF Power
<1> HIDE DEF pow
<1>7. pow[0] = 1 BY <1>5
<1>8. ASSUME NEW n \in Nat PROVE pow[n + 1] = b * pow[n]
  <2>1. n + 1 \in Nat /\ n + 1 # 0 /\ (n + 1) - 1 = n OBVIOUS
  <2> QED BY <1>5, <2>1
<1>9. \A n \in Nat : pow[n] \in Nat
  <2> DEFINE S == {n \in Nat : pow[n] \in Nat}
  <2>1. 0 \in S BY <1>7
  <2>2. \A n \in Nat : n \in S => n + 1 \in S BY <1>8
  <2> HIDE DEF S
  <2>3. Nat \subseteq S BY <2>1, <2>2, SetInduction
  <2> QED BY <2>3 DEF S
<1> QED BY <1>6, <1>7, <1>8, <1>9

----------------------------------------------------------------------------
(* Attempts *)

(* How often retry_call has slept. *)
Sleeps == IF at = "look" THEN looks ELSE looks - 1

(* Attempts that were made and those that are left are all of them; the    *)
(* address of a VM is looked at after a sleep, retry_call sleeps after a   *)
(* call, for an interval that has grown as often as it has slept.          *)
CountedInv ==
  task.kind \in Counted /\ at \notin {"found", "other"} =>
    /\ looks + left = task.attempts
    /\ at = "sleep" => left > 0 /\ (task.kind = "retry" => looks > 0)
    /\ task.attempts > 0 =>
         /\ at = "look" => left > 0
         /\ at = "gaveUp" => left = 0
         /\ task.kind = "ip" =>
              /\ nap = task.step
              /\ slept = IF at = "look" THEN (looks + 1) * task.step ELSE looks * task.step
         /\ task.kind = "retry" =>
              /\ nap = task.step * Power(task.growth, Sleeps)
              /\ slept * (task.growth - 1) = task.step * (Power(task.growth, Sleeps) - 1)

(* The sum of a growing interval, when one more is slept. *)
LEMMA GrowingSum ==
  ASSUME NEW s \in Int, NEW n \in Int, NEW a \in Int, NEW p \in Int, NEW g \in Int,
         n = a * p, s * (g - 1) = a * (p - 1)
  PROVE  /\ (s + n) * (g - 1) = a * (g * p - 1)
         /\ n * g = a * (g * p)
<1>1. (s + n) * (g - 1) = s * (g - 1) + n * (g - 1) OBVIOUS
<1>2. n * (g - 1) = n * g - n OBVIOUS
<1>3. n * g = a * (g * p) OBVIOUS
<1>4. a * (p - 1) = a * p - a OBVIOUS
<1>5. a * (g * p - 1) = a * (g * p) - a OBVIOUS
<1>6. s * (g - 1) \in Int /\ n * g \in Int /\ a * p \in Int /\ a * (g * p) \in Int
  OBVIOUS
<1> QED BY <1>1, <1>2, <1>3, <1>4, <1>5, <1>6

LEMMA CountedInit ==
  ASSUME LookupInit PROVE CountedInv
<1>1. SUFFICES ASSUME task.kind \in Counted PROVE CountedInv BY DEF CountedInv
<1>2. /\ task.attempts \in Int /\ task.step \in Nat /\ task.growth \in Nat
      /\ looks = 0 /\ left = task.attempts /\ slept = 0 /\ nap = task.step
      /\ at = IF task.kind = "ip" /\ task.attempts > 0 THEN "sleep" ELSE "look"
  BY <1>1, TaskFacts DEF LookupInit, Timed, Counted, Composed
<1>3. Power(task.growth, 0) = 1 BY <1>2, PowerIs
<1>4. task.kind = "retry" => at = "look" /\ Sleeps = 0 BY <1>2 DEF Sleeps
<1>5. task.step * 1 = task.step /\ 0 * task.step = 0 /\ task.step * (1 - 1) = 0
      /\ 0 * (task.growth - 1) = 0
  BY <1>2
<1>6. task.kind = "ip" /\ task.attempts > 0 => at = "sleep" BY <1>2
<1> QED BY <1>2, <1>3, <1>4, <1>5, <1>6 DEF CountedInv

LEMMA CountedStep ==
  ASSUME LookupInv, CountedInv, [LookupNext]_lookupVars
  PROVE  CountedInv'
<1>1. CASE task.kind \notin Counted
  <2>1. task' = task
    BY DEF LookupNext, LookFinds, LookMisses, LookRaises, Sleep, GiveUp, TryName,
       TakePrevious, lookupVars
  <2> QED BY <1>1, <2>1 DEF CountedInv
<1>2. CASE task.kind \in Counted
  <2>1. /\ task \in Tasks /\ looks \in Nat /\ left \in Int /\ slept \in Nat /\ nap \in Nat
        /\ task.attempts \in Int /\ task.step \in Nat /\ task.growth \in Nat
    BY <1>2, TaskFacts DEF LookupInv, LookupTypeOK
  <2>2. CASE UNCHANGED lookupVars BY <2>2 DEF lookupVars, CountedInv, Sleeps
  <2>3. CASE LookFinds \/ LookRaises BY <2>3 DEF LookFinds, LookRaises, CountedInv
  <2>4. CASE LookMisses
    <3>1. /\ at = "look" /\ left > 0 /\ task' = task /\ looks' = looks + 1
          /\ left' = left - 1 /\ slept' = slept /\ nap' = nap /\ at' = AfterMiss
      BY <1>2, <2>4 DEF LookMisses, MayLook, Counted, Composed
    <3>2. looks' + left' = looks + left BY <2>1, <3>1
    <3>3. /\ at' = "sleep" => left' > 0
          /\ at' = "gaveUp" => left' = 0
          /\ at' = "look" => left' > 0 /\ task.kind = "port"
      BY <1>2, <2>1, <3>1 DEF AfterMiss, Counted
    <3>4. Sleeps = looks /\ (task.kind = "retry" => Sleeps' = looks)
      BY <1>2, <2>1, <3>1, <3>3 DEF Sleeps
    <3>5. at' = "sleep" => looks' > 0 BY <2>1, <3>1
    <3> QED BY <1>2, <2>1, <3>1, <3>2, <3>3, <3>4, <3>5 DEF CountedInv
  <2>5. CASE Sleep
    <3>1. /\ at = "sleep" /\ at' = "look" /\ task' = task /\ looks' = looks
          /\ left' = left /\ slept' = slept + nap
          /\ nap' = IF task.kind = "retry" THEN nap * task.growth ELSE nap
      BY <1>2, <2>5 DEF Sleep, Slept, Counted
    <3>2. looks + left = task.attempts /\ left > 0 BY <1>2, <3>1 DEF CountedInv
    <3>3. CASE task.kind = "ip" /\ task.attempts > 0
      <4>1. nap = task.step /\ slept = looks * task.step
        BY <1>2, <3>1, <3>3 DEF CountedInv
      <4>2. (looks + 1) * task.step = looks * task.step + task.step BY <2>1
      <4> QED BY <3>1, <3>2, <3>3, <4>1, <4>2 DEF CountedInv
    <3>4. CASE task.kind = "retry" /\ task.attempts > 0
      <4> DEFINE p == Power(task.growth, looks - 1)
      <4>1. looks > 0 /\ Sleeps = looks - 1 /\ Sleeps' = looks
        BY <1>2, <3>1, <3>4 DEF CountedInv, Sleeps
      <4>2. nap = task.step * p /\ slept * (task.growth - 1) = task.step * (p - 1)
        BY <1>2, <3>1, <3>4, <4>1 DEF CountedInv
      <4>3. looks - 1 \in Nat /\ (looks - 1) + 1 = looks BY <2>1, <4>1
      <4>4. p \in Nat /\ Power(task.growth, looks) = task.growth * p
        BY <2>1, <4>3, PowerIs
      <4> HIDE DEF p
      <4> DEFINE g == task.growth
                 a == task.step
      <4>5. /\ (slept + nap) * (g - 1) = a * (g * p - 1)
            /\ nap * g = a * (g * p)
        <5>1. slept \in Int /\ nap \in Int /\ a \in Int /\ p \in Int /\ g \in Int
          BY <2>1, <4>4
        <5>2. nap = a * p /\ slept * (g - 1) = a * (p - 1) BY <4>2
        <5> HIDE DEF g, a
        <5> QED BY <5>1, <5>2, GrowingSum
      <4>6. /\ nap' = task.step * Power(task.growth, Sleeps')
            /\ slept' * (task.growth - 1) = task.step * (Power(task.growth, Sleeps') - 1)
        BY <3>1, <3>4, <4>1, <4>4, <4>5
      <4> QED BY <3>1, <3>2, <3>4, <4>6 DEF CountedInv
    <3>5. CASE ~(task.attempts > 0 /\ task.kind \in {"ip", "retry"})
      BY <3>1, <3>2, <3>5 DEF CountedInv
    <3> QED BY <3>3, <3>4, <3>5
  <2>6. CASE GiveUp
    <3>1. /\ at = "look" /\ at' = "gaveUp" /\ task' = task /\ looks' = looks
          /\ left' = left /\ ~(left > 0)
      BY <1>2, <2>6 DEF GiveUp, MayLook, Counted, Composed
    <3>2. ~(task.attempts > 0) /\ looks + left = task.attempts
      BY <1>2, <3>1 DEF CountedInv
    <3> QED BY <3>1, <3>2 DEF CountedInv
  <2>7. ~TryName /\ ~TakePrevious BY <1>2 DEF TryName, TakePrevious, Counted
  <2> QED BY <2>2, <2>3, <2>4, <2>5, <2>6, <2>7 DEF LookupNext
<1> QED BY <1>1, <1>2

(* All attempts are made before a lookup is given up; the address of a VM  *)
(* is awaited for that many intervals, and retry_call sleeps for the sum   *)
(* of the growing intervals between its calls.                             *)
THEOREM AllAttemptsAreMade == LookupSpec => []AttemptsExact
<1>1. LookupInit => CountedInv BY CountedInit
<1>2. LookupInv /\ CountedInv /\ [LookupNext]_lookupVars => CountedInv' BY CountedStep
<1>3. LookupInv /\ CountedInv => AttemptsExact
  <2> SUFFICES ASSUME LookupInv, CountedInv, at = "gaveUp", task.kind \in Counted,
                      task.attempts > 0
               PROVE  /\ looks = task.attempts
                      /\ task.kind = "ip" => slept = task.attempts * task.step
                      /\ task.kind = "retry" =>
                           slept * (task.growth - 1) =
                             task.step * (Power(task.growth, task.attempts - 1) - 1)
    BY DEF AttemptsExact
  <2>1. looks \in Nat /\ left \in Int /\ task.attempts \in Int
    BY TaskFacts DEF LookupInv, LookupTypeOK
  <2>2. looks = task.attempts BY <2>1 DEF CountedInv
  <2>3. Sleeps = task.attempts - 1 BY <2>2 DEF Sleeps
  <2> QED BY <2>2, <2>3 DEF CountedInv
<1> QED BY <1>1, <1>2, <1>3, InvHolds, PTL DEF LookupSpec

----------------------------------------------------------------------------
(* The order of ids *)

(* A set of numbers has a least one. *)
LEMMA LeastExists ==
  ASSUME NEW T, T \subseteq Nat, T # {}
  PROVE  \E n \in T : \A m \in T : n <= m
<1> DEFINE Less == OpToRel(<, Nat)
<1>1. \A m, n \in Nat : <<m, n>> \in Less <=> m < n BY DEF OpToRel
<1>2. IsWellFoundedOn(Less, Nat) BY NatLessThanWellFounded
<1> HIDE DEF Less
<1>3. PICK n \in T : \A m \in T : ~ (<<m, n>> \in Less) BY <1>2, WFMin
<1>4. \A m \in T : m \in Nat /\ n \in Nat /\ ~(m < n) BY <1>1, <1>3
<1> QED BY <1>4

(* s starts with r, character by character; s has a smaller character than *)
(* t at the first place where they differ.                                 *)
Starts(r, s) == Len(r) <= Len(s) /\ \A i \in 1..Len(r) : r[i] = s[i]
Differs(s, t) ==
  \E i \in 1..Len(s) : i <= Len(t) /\ s[i] < t[i] /\ \A j \in 1..(i - 1) : s[j] = t[j]

(* The library's prefixes are those. *)
LEMMA PrefixIs ==
  ASSUME NEW s \in ComposeId, NEW t \in ComposeId
  PROVE  IsPrefix(s, t) <=> Starts(s, t)
<1> USE DEF ComposeId
<1>1. Len(s) \in Nat /\ Len(t) \in Nat
      /\ DOMAIN s = 1..Len(s) /\ DOMAIN t = 1..Len(t)
  OBVIOUS
<1>2. SubSeq(s, 1, Len(s)) = s BY SubSeqFull
<1>3. ASSUME Len(s) <= Len(t)
      PROVE  /\ SubSeq(t, 1, Len(s)) \in Seq(Nat)
             /\ Len(SubSeq(t, 1, Len(s))) = Len(s)
             /\ \A i \in 1..Len(s) : SubSeq(t, 1, Len(s))[i] = t[i]
  BY <1>1, <1>3
<1>4. ASSUME Len(s) <= Len(t), \A i \in 1..Len(s) : s[i] = t[i]
      PROVE  s = SubSeq(t, 1, Len(s))
  BY <1>1, <1>3, <1>4
<1> QED BY <1>2, <1>3, <1>4 DEF IsPrefix, Starts

(* A string is less than those it is a prefix of, and than those it has a  *)
(* smaller character than.                                                 *)
LEMMA LexIs ==
  ASSUME NEW s \in ComposeId, NEW t \in ComposeId
  PROVE  LexLess(s, t) <=> (Starts(s, t) /\ s # t) \/ Differs(s, t)
<1>1. IsStrictPrefix(s, t) <=> Starts(s, t) /\ s # t BY PrefixIs DEF IsStrictPrefix
<1>2. DOMAIN s = 1..Len(s) /\ DOMAIN t = 1..Len(t) /\ Len(s) \in Nat /\ Len(t) \in Nat
  BY DEF ComposeId
<1>3. Differs(s, t) <=> \E i \in DOMAIN s \cap DOMAIN t :
                          s[i] < t[i] /\ \A j \in 1..(i - 1) : s[j] = t[j]
  BY <1>2 DEF Differs
<1> QED BY <1>1, <1>3 DEF LexLess

(* Strings that start with each other are the same. *)
LEMMA StartsBoth ==
  ASSUME NEW s \in ComposeId, NEW t \in ComposeId
  PROVE  Starts(s, t) /\ Starts(t, s) => s = t
<1>1. s = [i \in 1..Len(s) |-> s[i]] /\ t = [i \in 1..Len(t) |-> t[i]]
  BY DEF ComposeId
<1>2. Len(s) \in Nat /\ Len(t) \in Nat BY DEF ComposeId
<1>3. SUFFICES ASSUME Starts(s, t), Starts(t, s) PROVE s = t OBVIOUS
<1>4. Len(s) <= Len(t) /\ Len(t) <= Len(s) BY <1>3 DEF Starts
<1>5. Len(s) = Len(t) BY <1>2, <1>4
<1>6. \A i \in 1..Len(s) : s[i] = t[i] BY <1>3 DEF Starts
<1> QED BY <1>1, <1>5, <1>6

(* Strings that differ at a place do not start with each other. *)
LEMMA DiffersExcludes ==
  ASSUME NEW s \in ComposeId, NEW t \in ComposeId, Differs(s, t)
  PROVE  ~Starts(s, t) /\ ~Starts(t, s) /\ ~Differs(t, s)
<1>1. /\ Len(s) \in Nat /\ Len(t) \in Nat
      /\ \A i \in 1..Len(s) : s[i] \in Nat
      /\ \A i \in 1..Len(t) : t[i] \in Nat
  BY DEF ComposeId
<1>2. PICK i \in 1..Len(s) : i <= Len(t) /\ s[i] < t[i] /\ \A j \in 1..(i - 1) : s[j] = t[j]
  BY DEF Differs
<1>3. i \in Nat /\ i \in 1..Len(t) /\ s[i] # t[i] /\ ~(t[i] < s[i]) BY <1>1, <1>2
<1>4. ~Starts(s, t) /\ ~Starts(t, s) BY <1>2, <1>3 DEF Starts
<1>5. ASSUME NEW k \in 1..Len(t), k <= Len(s), t[k] < s[k], \A j \in 1..(k - 1) : t[j] = s[j]
      PROVE  FALSE
  <2>1. k \in Nat /\ k \in 1..Len(s) /\ s[k] # t[k] BY <1>1, <1>5
  <2>2. CASE k < i
    <3>1. k \in 1..(i - 1) BY <1>3, <2>1, <2>2
    <3> QED BY <1>2, <2>1, <3>1
  <2>3. CASE i < k
    <3>1. i \in 1..(k - 1) BY <1>3, <2>1, <2>3
    <3> QED BY <1>3, <1>5, <3>1
  <2>4. CASE i = k BY <1>3, <1>5, <2>4
  <2> QED BY <1>3, <2>1, <2>2, <2>3, <2>4
<1> QED BY <1>4, <1>5 DEF Differs

(* Of two strings, one starts with the other, or they differ at a place. *)
LEMMA FirstDifference ==
  ASSUME NEW s \in ComposeId, NEW t \in ComposeId
  PROVE  Starts(s, t) \/ Starts(t, s) \/ Differs(s, t) \/ Differs(t, s)
<1>1. /\ Len(s) \in Nat /\ Len(t) \in Nat
      /\ \A i \in 1..Len(s) : s[i] \in Nat
      /\ \A i \in 1..Len(t) : t[i] \in Nat
  BY DEF ComposeId
<1> DEFINE T == {i \in 1..Len(s) : i <= Len(t) /\ s[i] # t[i]}
<1>2. CASE T = {}
  <2>1. CASE Len(s) <= Len(t)
    <3>1. \A i \in 1..Len(s) : i <= Len(t) BY <1>1, <2>1
    <3>2. \A i \in 1..Len(s) : s[i] = t[i] BY <1>2, <3>1
    <3> QED BY <2>1, <3>2 DEF Starts
  <2>2. CASE Len(t) <= Len(s)
    <3>1. \A i \in 1..Len(t) : i \in 1..Len(s) /\ i <= Len(t) BY <1>1, <2>2
    <3>2. \A i \in 1..Len(t) : t[i] = s[i] BY <1>2, <3>1
    <3> QED BY <2>2, <3>2 DEF Starts
  <2> QED BY <1>1, <2>1, <2>2
<1>3. CASE T # {}
  <2>1. T \subseteq Nat BY <1>1
  <2> HIDE DEF T
  <2>2. PICK i \in T : \A m \in T : i <= m BY <1>3, <2>1, LeastExists
  <2>3. i \in 1..Len(s) /\ i \in 1..Len(t) /\ i \in Nat /\ s[i] # t[i] BY <1>1 DEF T
  <2>4. ASSUME NEW j \in 1..(i - 1) PROVE s[j] = t[j]
    <3>1. j \in 1..Len(s) /\ j <= Len(t) /\ ~(i <= j) BY <1>1, <2>3
    <3>2. j \notin T BY <2>2, <3>1
    <3> QED BY <3>1, <3>2 DEF T
  <2>5. i <= Len(s) /\ i <= Len(t) /\ (s[i] < t[i] \/ t[i] < s[i]) BY <1>1, <2>3
  <2> QED BY <2>3, <2>4, <2>5 DEF Differs
<1> QED BY <1>2, <1>3

(* Transitivity of both relations, and of one after the other. *)
LEMMA DiffersStarts ==
  ASSUME NEW s \in ComposeId, NEW t \in ComposeId, NEW u \in ComposeId
  PROVE  /\ Starts(s, t) /\ Starts(t, u) => Starts(s, u)
         /\ Differs(s, t) /\ Starts(t, u) => Differs(s, u)
         /\ Starts(s, t) /\ Differs(t, u) => Differs(s, u) \/ (Starts(s, u) /\ s # u)
         /\ Starts(s, t) /\ Differs(u, t) => Differs(u, s) \/ Starts(s, u)
         /\ Differs(s, t) /\ Differs(t, u) => Differs(s, u)
<1>1. /\ Len(s) \in Nat /\ Len(t) \in Nat /\ Len(u) \in Nat
      /\ \A i \in 1..Len(s) : s[i] \in Nat
      /\ \A i \in 1..Len(t) : t[i] \in Nat
      /\ \A i \in 1..Len(u) : u[i] \in Nat
  BY DEF ComposeId
<1>2. ASSUME Starts(s, t), Starts(t, u) PROVE Starts(s, u)
  <2>1. \A i \in 1..Len(s) : i \in 1..Len(t) BY <1>1, <1>2 DEF Starts
  <2> QED BY <1>1, <1>2, <2>1 DEF Starts
<1>3. ASSUME Differs(s, t), Starts(t, u) PROVE Differs(s, u)
  <2>1. PICK i \in 1..Len(s) : i <= Len(t) /\ s[i] < t[i] /\ \A j \in 1..(i - 1) : s[j] = t[j]
    BY <1>3 DEF Differs
  <2>2. Len(t) <= Len(u) /\ \A k \in 1..Len(t) : t[k] = u[k] BY <1>3 DEF Starts
  <2>3. i \in 1..Len(t) /\ i <= Len(u) /\ \A j \in 1..(i - 1) : j \in 1..Len(t)
    BY <1>1, <2>1, <2>2
  <2> QED BY <2>1, <2>2, <2>3 DEF Differs
<1>4. ASSUME Starts(s, t), Differs(t, u)
      PROVE  Differs(s, u) \/ (Starts(s, u) /\ s # u)
  <2>1. PICK i \in 1..Len(t) : i <= Len(u) /\ t[i] < u[i] /\ \A j \in 1..(i - 1) : t[j] = u[j]
    BY <1>4 DEF Differs
  <2>2. Len(s) <= Len(t) /\ \A k \in 1..Len(s) : s[k] = t[k] BY <1>4 DEF Starts
  <2>3. CASE i <= Len(s)
    <3>1. i \in 1..Len(s) /\ \A j \in 1..(i - 1) : j \in 1..Len(s) BY <1>1, <2>1, <2>3
    <3> QED BY <2>1, <2>2, <3>1 DEF Differs
  <2>4. CASE Len(s) < i
    <3>1. Len(s) < Len(u) /\ \A k \in 1..Len(s) : k \in 1..(i - 1) BY <1>1, <2>1, <2>4
    <3>2. \A k \in 1..Len(s) : s[k] = u[k] BY <2>1, <2>2, <3>1
    <3>3. Len(s) <= Len(u) /\ s # u BY <1>1, <3>1
    <3> QED BY <3>2, <3>3 DEF Starts
  <2> QED BY <1>1, <2>3, <2>4
<1>5. ASSUME Starts(s, t), Differs(u, t) PROVE Differs(u, s) \/ Starts(s, u)
  <2>1. PICK i \in 1..Len(u) : i <= Len(t) /\ u[i] < t[i] /\ \A j \in 1..(i - 1) : u[j] = t[j]
    BY <1>5 DEF Differs
  <2>2. Len(s) <= Len(t) /\ \A k \in 1..Len(s) : s[k] = t[k] BY <1>5 DEF Starts
  <2>3. CASE i <= Len(s)
    <3>1. i \in 1..Len(s) /\ \A j \in 1..(i - 1) : j \in 1..Len(s) BY <1>1, <2>1, <2>3
    <3> QED BY <2>1, <2>2, <2>3, <3>1 DEF Differs
  <2>4. CASE Len(s) < i
    <3>1. Len(s) <= Len(u) /\ \A k \in 1..Len(s) : k \in 1..(i - 1) BY <1>1, <2>1, <2>4
    <3>2. \A k \in 1..Len(s) : s[k] = u[k] BY <2>1, <2>2, <3>1
    <3> QED BY <3>1, <3>2 DEF Starts
  <2> QED BY <1>1, <2>3, <2>4
<1>6. ASSUME Differs(s, t), Differs(t, u) PROVE Differs(s, u)
  <2>1. PICK i \in 1..Len(s) : i <= Len(t) /\ s[i] < t[i] /\ \A j \in 1..(i - 1) : s[j] = t[j]
    BY <1>6 DEF Differs
  <2>2. PICK k \in 1..Len(t) : k <= Len(u) /\ t[k] < u[k] /\ \A j \in 1..(k - 1) : t[j] = u[j]
    BY <1>6 DEF Differs
  <2>3. i \in Nat /\ k \in Nat /\ i \in 1..Len(t) BY <1>1, <2>1, <2>2
  <2>4. CASE i < k
    <3>1. i \in 1..(k - 1) /\ i <= Len(u) /\ \A j \in 1..(i - 1) : j \in 1..(k - 1)
      BY <1>1, <2>2, <2>3, <2>4
    <3>2. s[i] < u[i] /\ \A j \in 1..(i - 1) : s[j] = u[j] BY <2>1, <2>2, <3>1
    <3> QED BY <3>1, <3>2 DEF Differs
  <2>5. CASE k < i
    <3>1. k \in 1..(i - 1) /\ k \in 1..Len(s) /\ \A j \in 1..(k - 1) : j \in 1..(i - 1)
      BY <1>1, <2>1, <2>2, <2>3, <2>5
    <3>2. s[k] < u[k] /\ \A j \in 1..(k - 1) : s[j] = u[j] BY <2>1, <2>2, <3>1
    <3> QED BY <2>2, <3>1, <3>2 DEF Differs
  <2>6. CASE i = k
    <3>1. i \in 1..Len(u) BY <1>1, <2>2, <2>3, <2>6
    <3>2. s[i] \in Nat /\ t[i] \in Nat /\ u[i] \in Nat BY <1>1, <2>3, <3>1
    <3>3. s[i] < u[i] BY <2>1, <2>2, <2>6, <3>2
    <3>4. \A j \in 1..(i - 1) : s[j] = u[j] BY <2>1, <2>2, <2>6
    <3> QED BY <2>2, <2>6, <3>3, <3>4 DEF Differs
  <2> QED BY <2>3, <2>4, <2>5, <2>6
<1> QED BY <1>2, <1>3, <1>4, <1>5, <1>6

(* The order of strings is a strict and total one.                         *)
LEMMA LexOrder ==
  ASSUME NEW s \in ComposeId, NEW t \in ComposeId, NEW u \in ComposeId
  PROVE  /\ s # t => LexLess(s, t) \/ LexLess(t, s)
         /\ ~(LexLess(s, t) /\ LexLess(t, s))
         /\ ~LexLess(s, s)
         /\ LexLess(s, t) /\ LexLess(t, u) => LexLess(s, u)
<1>1. /\ LexLess(s, t) <=> (Starts(s, t) /\ s # t) \/ Differs(s, t)
      /\ LexLess(t, s) <=> (Starts(t, s) /\ s # t) \/ Differs(t, s)
      /\ LexLess(t, u) <=> (Starts(t, u) /\ t # u) \/ Differs(t, u)
      /\ LexLess(s, u) <=> (Starts(s, u) /\ s # u) \/ Differs(s, u)
      /\ LexLess(s, s) <=> Differs(s, s)
  BY LexIs
<1>2. s # t => LexLess(s, t) \/ LexLess(t, s) BY <1>1, FirstDifference
<1>3. ~(LexLess(s, t) /\ LexLess(t, s)) BY <1>1, DiffersExcludes, StartsBoth
<1>4. ~LexLess(s, s) BY <1>1, DiffersExcludes
<1>5. ASSUME LexLess(s, t), LexLess(t, u) PROVE LexLess(s, u)
  <2>1. CASE Starts(s, t) /\ s # t /\ Starts(t, u) /\ t # u
    <3>1. Starts(s, u) BY <2>1, DiffersStarts
    <3>2. s # u BY <2>1, StartsBoth
    <3> QED BY <1>1, <3>1, <3>2
  <2>2. CASE Starts(s, t) /\ Differs(t, u) BY <1>1, <2>2, DiffersStarts
  <2>3. CASE Differs(s, t) /\ Starts(t, u) BY <1>1, <2>3, DiffersStarts
  <2>4. CASE Differs(s, t) /\ Differs(t, u) BY <1>1, <2>4, DiffersStarts
  <2> QED BY <1>1, <1>5, <2>1, <2>2, <2>3, <2>4
<1> QED BY <1>2, <1>3, <1>4, <1>5

(* p puts the first n of list in order.                                    *)
Orders(p, list, n) ==
  /\ p \in [1..n -> 1..n]
  /\ \A i, j \in 1..n : p[i] = p[j] => i = j
  /\ \A m \in 1..n : \E i \in 1..n : p[i] = m
  /\ \A i, j \in 1..n : i < j => ~LexLess(list[p[j]], list[p[i]])

(* An order of the first n becomes one of the first n + 1: the next one is *)
(* put before the first that is greater.                                   *)
LEMMA OrderMore ==
  ASSUME NEW list \in Seq(ComposeId), NEW n \in Nat, n + 1 <= Len(list),
         NEW p, Orders(p, list, n)
  PROVE  \E q : Orders(q, list, n + 1)
<1> DEFINE x == list[n + 1]
           K == {i \in 1..(n + 1) : i = n + 1 \/ LexLess(x, list[p[i]])}
<1>1. /\ p \in [1..n -> 1..n]
      /\ \A i, j \in 1..n : p[i] = p[j] => i = j
      /\ \A m \in 1..n : \E i \in 1..n : p[i] = m
      /\ \A i, j \in 1..n : i < j => ~LexLess(list[p[j]], list[p[i]])
  BY DEF Orders
<1>2. x \in ComposeId /\ \A i \in 1..n : list[p[i]] \in ComposeId
  <2>1. \A m \in 1..(n + 1) : list[m] \in ComposeId OBVIOUS
  <2>2. n + 1 \in 1..(n + 1) /\ \A i \in 1..n : p[i] \in 1..(n + 1) BY <1>1
  <2> QED BY <2>1, <2>2
<1>3. K \subseteq Nat /\ n + 1 \in K OBVIOUS
<1>4. PICK k \in K : \A m \in K : k <= m
  <2> HIDE DEF K
  <2> QED BY <1>3, LeastExists
<1>5. /\ k \in 1..(n + 1) /\ k \in Nat
      /\ \A i \in 1..n : i < k => ~LexLess(x, list[p[i]])
      /\ k <= n => LexLess(x, list[p[k]])
  <2>1. k \in 1..(n + 1) /\ (k = n + 1 \/ LexLess(x, list[p[k]])) OBVIOUS
  <2>2. ASSUME NEW i \in 1..n, i < k PROVE ~LexLess(x, list[p[i]])
    <3>1. i \in 1..(n + 1) /\ ~(k <= i) BY <2>1, <2>2
    <3>2. i \notin K
      <4> HIDE DEF K
      <4> QED BY <1>4, <3>1
    <3> QED BY <3>1, <3>2
  <2>3. k <= n => k # n + 1 BY <2>1
  <2> HIDE DEF K, x
  <2> QED BY <2>1, <2>2, <2>3
<1> HIDE DEF K
<1> DEFINE q == [i \in 1..(n + 1) |-> IF i < k THEN p[i] ELSE IF i = k THEN n + 1 ELSE p[i - 1]]
<1>6. \A i \in 1..(n + 1) : /\ i < k => i \in 1..n
                            /\ i > k => i - 1 \in 1..n /\ k <= i - 1
  BY <1>5
<1>7. \A i \in 1..(n + 1) : /\ i < k => q[i] = p[i] /\ q[i] \in 1..n
                            /\ i = k => q[i] = n + 1
                            /\ i > k => q[i] = p[i - 1] /\ q[i] \in 1..n
  <2> SUFFICES ASSUME NEW i \in 1..(n + 1)
               PROVE  /\ i < k => q[i] = p[i] /\ q[i] \in 1..n
                      /\ i = k => q[i] = n + 1
                      /\ i > k => q[i] = p[i - 1] /\ q[i] \in 1..n
    OBVIOUS
  <2>1. q[i] = IF i < k THEN p[i] ELSE IF i = k THEN n + 1 ELSE p[i - 1] OBVIOUS
  <2> HIDE DEF q
  <2>2. CASE i < k BY <1>1, <1>5, <1>6, <2>1, <2>2
  <2>3. CASE i = k BY <1>5, <2>1, <2>3
  <2>4. CASE i > k
    <3>1. i - 1 \in 1..n /\ ~(i < k) /\ ~(i = k) BY <1>5, <1>6, <2>4
    <3> QED BY <1>1, <2>1, <3>1
  <2>5. i < k \/ i = k \/ i > k BY <1>5
  <2> QED BY <1>5, <2>2, <2>3, <2>4, <2>5
<1>8. \A i \in 1..(n + 1) : i < k \/ i = k \/ i > k BY <1>5
<1>9. q \in [1..(n + 1) -> 1..(n + 1)]
  <2>1. 1..n \subseteq 1..(n + 1) /\ n + 1 \in 1..(n + 1) OBVIOUS
  <2>2. q = [i \in 1..(n + 1) |-> q[i]] OBVIOUS
  <2> HIDE DEF q
  <2>3. \A i \in 1..(n + 1) : q[i] \in 1..(n + 1) BY <1>7, <1>8, <2>1
  <2> QED BY <2>2, <2>3
<1> HIDE DEF q, x
<1>10. ASSUME NEW i \in 1..(n + 1), NEW j \in 1..(n + 1), q[i] = q[j] PROVE i = j
  <2>1. ~(n + 1 \in 1..n) OBVIOUS
  <2>2. CASE i < k
    <3>1. ~(j = k) BY <1>7, <1>10, <2>1, <2>2
    <3>2. ~(j > k)
      <4> SUFFICES ASSUME j > k PROVE FALSE OBVIOUS
      <4>1. p[i] = p[j - 1] /\ i \in 1..n /\ j - 1 \in 1..n BY <1>6, <1>7, <1>10, <2>2
      <4>2. i = j - 1 BY <1>1, <4>1
      <4> QED BY <1>5, <1>6, <2>2, <4>2
    <3>3. j < k BY <1>8, <3>1, <3>2
    <3> QED BY <1>1, <1>6, <1>7, <1>10, <2>2, <3>3
  <2>3. CASE i = k
    <3>1. ~(j < k) /\ ~(j > k) BY <1>7, <1>10, <2>1, <2>3
    <3> QED BY <1>8, <2>3, <3>1
  <2>4. CASE i > k
    <3>1. ~(j = k) BY <1>7, <1>10, <2>1, <2>4
    <3>2. ~(j < k)
      <4> SUFFICES ASSUME j < k PROVE FALSE OBVIOUS
      <4>1. p[j] = p[i - 1] /\ j \in 1..n /\ i - 1 \in 1..n BY <1>6, <1>7, <1>10, <2>4
      <4>2. j = i - 1 BY <1>1, <4>1
      <4> QED BY <1>5, <1>6, <2>4, <4>2
    <3>3. j > k BY <1>8, <3>1, <3>2
    <3>4. i - 1 = j - 1 BY <1>1, <1>6, <1>7, <1>10, <2>4, <3>3
    <3> QED BY <3>4
  <2> QED BY <1>8, <2>2, <2>3, <2>4
<1>11. ASSUME NEW m \in 1..(n + 1) PROVE \E i \in 1..(n + 1) : q[i] = m
  <2>1. CASE m = n + 1 BY <1>5, <1>7, <2>1
  <2>2. CASE m # n + 1
    <3>1. m \in 1..n BY <2>2
    <3>2. PICK i \in 1..n : p[i] = m BY <1>1, <3>1
    <3>3. CASE i < k
      <4>1. i \in 1..(n + 1) OBVIOUS
      <4> QED BY <1>7, <3>2, <3>3, <4>1
    <3>4. CASE i >= k
      <4>1. i + 1 \in 1..(n + 1) /\ i + 1 > k /\ (i + 1) - 1 = i BY <1>5, <3>4
      <4> QED BY <1>7, <3>2, <4>1
    <3> QED BY <1>5, <3>3, <3>4
  <2> QED BY <2>1, <2>2
<1>12. ASSUME NEW i \in 1..(n + 1), NEW j \in 1..(n + 1), i < j
       PROVE  ~LexLess(list[q[j]], list[q[i]])
  <2> DEFINE At(m) == list[p[m]]
  <2>0. /\ \A m, l \in 1..n : m < l => ~LexLess(At(l), At(m))
        /\ \A m \in 1..n : At(m) \in ComposeId
        /\ \A m \in 1..n : m < k => ~LexLess(x, At(m))
        /\ k <= n => LexLess(x, At(k))
    BY <1>1, <1>2, <1>5
  <2>1. /\ i < k => list[q[i]] = At(i)
        /\ i = k => list[q[i]] = x
        /\ i > k => list[q[i]] = At(i - 1)
        /\ j < k => list[q[j]] = At(j)
        /\ j = k => list[q[j]] = x
        /\ j > k => list[q[j]] = At(j - 1)
    BY <1>7 DEF x
  <2> HIDE DEF At
  <2>2. CASE j < k
    <3>1. i < k /\ i \in 1..n /\ j \in 1..n BY <1>5, <1>6, <1>12, <2>2
    <3> QED BY <1>12, <2>0, <2>1, <2>2, <3>1
  <2>3. CASE j = k
    <3>1. i < k /\ i \in 1..n BY <1>6, <1>12, <2>3
    <3> QED BY <2>0, <2>1, <2>3, <3>1
  <2>4. CASE j > k
    <3>1. j - 1 \in 1..n /\ k <= j - 1 BY <1>6, <2>4
    <3>2. CASE i < k
      <4>1. i \in 1..n /\ i < j - 1 BY <1>5, <1>6, <3>1, <3>2
      <4> QED BY <2>0, <2>1, <2>4, <3>1, <3>2, <4>1
    <3>3. CASE i = k
      <4>1. k <= n /\ k \in 1..n BY <1>5, <3>1
      <4>2. LexLess(x, At(k)) BY <2>0, <4>1
      <4>3. SUFFICES ASSUME LexLess(At(j - 1), x) PROVE FALSE BY <2>1, <2>4, <3>3
      <4>4. LexLess(At(j - 1), At(k)) BY <1>2, <2>0, <3>1, <4>1, <4>2, <4>3, LexOrder
      <4>5. ~(k < j - 1) BY <2>0, <3>1, <4>1, <4>4
      <4>6. k = j - 1 BY <1>5, <3>1, <4>5
      <4> QED BY <2>0, <4>1, <4>4, <4>6, LexOrder
    <3>4. CASE i > k
      <4>1. i - 1 \in 1..n /\ i - 1 < j - 1 BY <1>6, <1>12, <3>4
      <4> QED BY <2>0, <2>1, <2>4, <3>1, <3>4, <4>1
    <3> QED BY <1>8, <3>2, <3>3, <3>4
  <2> QED BY <1>8, <2>2, <2>3, <2>4
<1>13. Orders(q, list, n + 1) BY <1>9, <1>10, <1>11, <1>12 DEF Orders
<1> QED BY <1>13

(* A sorted list has the same elements, none before a lesser one.          *)
LEMMA SortedIs ==
  ASSUME NEW list \in Seq(ComposeId)
  PROVE  /\ Sorted(list) \in Seq(ComposeId) /\ Len(Sorted(list)) = Len(list)
         /\ ToSet(Sorted(list)) = ToSet(list)
         /\ \A i, j \in 1..Len(list) : i < j => ~LexLess(Sorted(list)[j], Sorted(list)[i])
<1> DEFINE n == Len(list)
           T == {k \in Nat : k <= n => \E p : Orders(p, list, k)}
           InOrder(p) == \A i, j \in DOMAIN list : i < j => ~LexLess(list[p[j]], list[p[i]])
           order == CHOOSE p \in Bijection(DOMAIN list, DOMAIN list) : InOrder(p)
<1>1. n \in Nat /\ DOMAIN list = 1..n /\ \A i \in 1..n : list[i] \in ComposeId OBVIOUS
<1>2. 0 \in T
  <2>1. Orders([i \in 1..0 |-> 0], list, 0) BY DEF Orders
  <2> QED BY <2>1
<1>3. ASSUME NEW k \in Nat, k \in T PROVE k + 1 \in T
  <2>1. SUFFICES ASSUME k + 1 <= n PROVE \E p : Orders(p, list, k + 1) OBVIOUS
  <2>2. k <= n BY <1>1, <2>1
  <2>3. PICK p : Orders(p, list, k) BY <1>3, <2>2
  <2> QED BY <2>1, <2>3, OrderMore
<1> HIDE DEF T
<1>4. Nat \subseteq T BY <1>2, <1>3, SetInduction
<1>5. n \in T BY <1>1, <1>4
<1>6. PICK p : Orders(p, list, n)
  <2> HIDE DEF n
  <2> QED BY <1>1, <1>5 DEF T
<1>7. p \in Bijection(DOMAIN list, DOMAIN list) /\ InOrder(p)
  <2>1. /\ p \in [1..n -> 1..n]
        /\ \A i, j \in 1..n : p[i] = p[j] => i = j
        /\ \A m \in 1..n : \E i \in 1..n : p[i] = m
        /\ \A i, j \in 1..n : i < j => ~LexLess(list[p[j]], list[p[i]])
    BY <1>6 DEF Orders
  <2>2. InOrder(p) BY <1>1, <2>1
  <2> HIDE DEF n, InOrder
  <2> QED BY <1>1, <2>1, <2>2 DEF Bijection, Injection, Surjection, IsInjective
<1>8. order \in Bijection(DOMAIN list, DOMAIN list) /\ InOrder(order)
  <2> HIDE DEF InOrder
  <2> QED BY <1>7
<1>9. Sorted(list) = [i \in 1..n |-> list[order[i]]] BY <1>1 DEF Sorted
<1> HIDE DEF order, n
<1>10. /\ \A i \in 1..n : order[i] \in 1..n
       /\ \A m \in 1..n : \E i \in 1..n : order[i] = m
       /\ \A i, j \in 1..n : i < j => ~LexLess(list[order[j]], list[order[i]])
  <2>1. order \in [1..n -> 1..n] /\ \A m \in 1..n : \E i \in 1..n : order[i] = m
    BY <1>1, <1>8 DEF Bijection, Injection, Surjection
  <2>2. \A i, j \in 1..n : i < j => ~LexLess(list[order[j]], list[order[i]])
    BY <1>1, <1>8
  <2> QED BY <2>1, <2>2
<1>11. \A i \in 1..n : list[order[i]] \in ComposeId BY <1>1, <1>10
<1>12. Sorted(list) \in Seq(ComposeId) /\ Len(Sorted(list)) = n BY <1>1, <1>9, <1>11
<1>13. \A i \in 1..n : Sorted(list)[i] = list[order[i]] BY <1>9
<1>14. ToSet(Sorted(list)) = ToSet(list)
  <2>1. \A y : y \in ToSet(list) <=> \E m \in 1..n : list[m] = y BY <1>1 DEF ToSet
  <2>2. DOMAIN Sorted(list) = 1..n BY <1>12
  <2>3. \A y : y \in ToSet(Sorted(list)) <=> \E i \in 1..n : Sorted(list)[i] = y
    BY <2>2 DEF ToSet
  <2>4. ASSUME NEW y PROVE y \in ToSet(Sorted(list)) <=> y \in ToSet(list)
    <3>1. ASSUME NEW i \in 1..n PROVE Sorted(list)[i] \in ToSet(list)
      BY <1>10, <1>13, <2>1
    <3>2. ASSUME NEW m \in 1..n PROVE list[m] \in ToSet(Sorted(list))
      BY <1>10, <1>13, <2>3
    <3> QED BY <2>1, <2>3, <3>1, <3>2
  <2> QED BY <2>4
<1>15. \A i, j \in 1..n : i < j => ~LexLess(Sorted(list)[j], Sorted(list)[i])
  BY <1>10, <1>13
<1> QED BY <1>12, <1>14, <1>15 DEF n

----------------------------------------------------------------------------
(* The compose that is preferred *)

(* c is preferred to id, or is id: id continues it, or is less. *)
Over(c, id) == Starts(c, id) \/ Differs(id, c)

(* What continues a string that is less is less. *)
LEMMA StartsDiffers ==
  ASSUME NEW s \in ComposeId, NEW t \in ComposeId, NEW u \in ComposeId,
         Differs(t, s), Starts(t, u)
  PROVE  Differs(u, s)
<1>1. /\ Len(s) \in Nat /\ Len(t) \in Nat /\ Len(u) \in Nat
  BY DEF ComposeId
<1>2. PICK i \in 1..Len(t) : i <= Len(s) /\ t[i] < s[i] /\ \A j \in 1..(i - 1) : t[j] = s[j]
  BY DEF Differs
<1>3. Len(t) <= Len(u) /\ \A k \in 1..Len(t) : t[k] = u[k] BY DEF Starts
<1>4. i \in 1..Len(u) /\ \A j \in 1..(i - 1) : j \in 1..Len(t) BY <1>1, <1>2, <1>3
<1> QED BY <1>2, <1>3, <1>4 DEF Differs

(* Being preferred is reflexive and transitive. *)
LEMMA OverOrder ==
  ASSUME NEW a \in ComposeId, NEW b \in ComposeId, NEW c \in ComposeId
  PROVE  /\ Over(a, a)
         /\ Over(a, b) /\ Over(b, c) => Over(a, c)
<1>1. Over(a, a) BY DEF Over, Starts, ComposeId
<1>2. ASSUME Over(a, b), Over(b, c) PROVE Over(a, c)
  <2>1. CASE Starts(a, b) /\ Starts(b, c) BY <2>1, DiffersStarts DEF Over
  <2>2. CASE Starts(a, b) /\ Differs(c, b) BY <2>2, DiffersStarts DEF Over
  <2>3. CASE Differs(b, a) /\ Starts(b, c) BY <2>3, StartsDiffers DEF Over
  <2>4. CASE Differs(b, a) /\ Differs(c, b) BY <2>4, DiffersStarts DEF Over
  <2> QED BY <1>2, <2>1, <2>2, <2>3, <2>4 DEF Over
<1> QED BY <1>1, <1>2

(* What _compose_cmp compares. *)
LEMMA CmpIs ==
  ASSUME NEW id \in ComposeId, NEW c \in ComposeId
  PROVE  /\ ComposeCmp(id, c) > 0 => Over(id, c)
         /\ ~(ComposeCmp(id, c) > 0) => Over(c, id)
<1>1. /\ IsPrefix(c, id) <=> Starts(c, id)
      /\ IsPrefix(id, c) <=> Starts(id, c)
      /\ LexLess(c, id) <=> (Starts(c, id) /\ c # id) \/ Differs(c, id)
  BY PrefixIs, LexIs
<1>2. CASE Starts(c, id)
  <2>1. ComposeCmp(id, c) = -1 BY <1>1, <1>2 DEF ComposeCmp
  <2> QED BY <1>2, <2>1 DEF Over
<1>3. CASE ~Starts(c, id) /\ Starts(id, c)
  <2>1. ComposeCmp(id, c) = 1 BY <1>1, <1>3 DEF ComposeCmp
  <2> QED BY <1>3, <2>1 DEF Over
<1>4. CASE ~Starts(c, id) /\ ~Starts(id, c)
  <2>1. CASE Differs(c, id)
    <3>1. ComposeCmp(id, c) = 1 BY <1>1, <1>4, <2>1 DEF ComposeCmp
    <3> QED BY <2>1, <3>1 DEF Over
  <2>2. CASE ~Differs(c, id)
    <3>1. ComposeCmp(id, c) = -1 BY <1>1, <1>4, <2>2 DEF ComposeCmp
    <3>2. Differs(id, c) BY <1>4, <2>2, FirstDifference
    <3> QED BY <3>1, <3>2 DEF Over
  <2> QED BY <2>1, <2>2
<1> QED BY <1>2, <1>3, <1>4

(* The better of two composes. *)
Better(id, c) == IF ComposeCmp(id, c) > 0 THEN id ELSE c

(* best[k] is the best of the first k. *)
Bests(best, list, n) ==
  \A k \in 1..n : best[k] = IF k = 1 THEN list[1] ELSE Better(list[k], best[k - 1])

(* The recursion of Best has a solution, whatever the list. *)
LEMMA BestSteps ==
  ASSUME NEW list \in Seq(ComposeId)
  PROVE  \E best : Bests(best, list, Len(list)) /\ Best(list) = best[Len(list)]
<1> DEFINE n == Len(list)
           Is(f) == f = [k \in DOMAIN list |->
                           IF k = 1 THEN list[1]
                           ELSE IF ComposeCmp(list[k], f[k - 1]) > 0 THEN list[k] ELSE f[k - 1]]
           best == CHOOSE f : Is(f)
           T == {k \in Nat : k <= n => \E h : Bests(h, list, k)}
<1>1. n \in Nat /\ DOMAIN list = 1..n OBVIOUS
<1>2. 0 \in T
  <2>1. Bests(<<>>, list, 0) BY DEF Bests
  <2> QED BY <2>1
<1>3. ASSUME NEW k \in Nat, k \in T PROVE k + 1 \in T
  <2>1. SUFFICES ASSUME k + 1 <= n PROVE \E h : Bests(h, list, k + 1) OBVIOUS
  <2>2. PICK h : Bests(h, list, k) BY <1>1, <1>3, <2>1
  <2> DEFINE g == [m \in 1..(k + 1) |->
                     IF m <= k THEN h[m]
                     ELSE IF m = 1 THEN list[1] ELSE Better(list[m], h[m - 1])]
  <2>3. \A m \in 1..(k + 1) : /\ m <= k => g[m] = h[m] /\ m \in 1..k
                              /\ ~(m <= k) => m = k + 1
    OBVIOUS
  <2>4. g[k + 1] = IF k + 1 = 1 THEN list[1] ELSE Better(list[k + 1], h[k])
    <3>1. k + 1 \in 1..(k + 1) /\ ~(k + 1 <= k) /\ (k + 1) - 1 = k OBVIOUS
    <3> QED BY <3>1
  <2> HIDE DEF g
  <2>5. ASSUME NEW m \in 1..(k + 1)
        PROVE  g[m] = IF m = 1 THEN list[1] ELSE Better(list[m], g[m - 1])
    <3>1. m # 1 => m - 1 \in 1..(k + 1) /\ m - 1 <= k OBVIOUS
    <3>2. m # 1 => g[m - 1] = h[m - 1] BY <2>3, <3>1
    <3>3. CASE m <= k
      <4>1. h[m] = IF m = 1 THEN list[1] ELSE Better(list[m], h[m - 1])
        BY <2>2, <2>3, <3>3 DEF Bests
      <4> QED BY <2>3, <3>2, <3>3, <4>1
    <3>4. CASE m = k + 1
      <4>1. (k + 1) - 1 = k OBVIOUS
      <4> QED BY <2>4, <3>2, <3>4, <4>1
    <3> QED BY <2>3, <3>3, <3>4
  <2>6. Bests(g, list, k + 1) BY <2>5 DEF Bests
  <2> QED BY <2>6
<1> HIDE DEF T
<1>4. Nat \subseteq T BY <1>2, <1>3, SetInduction
<1>5. n \in T BY <1>1, <1>4
<1>6. PICK h : Bests(h, list, n)
  <2> HIDE DEF n
  <2> QED BY <1>1, <1>5 DEF T
<1>7. Is([k \in 1..n |-> h[k]])
  <2> DEFINE f == [k \in 1..n |-> h[k]]
  <2>1. ASSUME NEW k \in 1..n
        PROVE  f[k] = IF k = 1 THEN list[1]
                      ELSE IF ComposeCmp(list[k], f[k - 1]) > 0 THEN list[k] ELSE f[k - 1]
    <3>1. h[k] = IF k = 1 THEN list[1] ELSE Better(list[k], h[k - 1]) BY <1>6 DEF Bests
    <3>2. k # 1 => k - 1 \in 1..n BY <1>1
    <3>3. f[k] = h[k] /\ (k # 1 => f[k - 1] = h[k - 1]) BY <3>2
    <3> HIDE DEF f
    <3> QED BY <3>1, <3>3 DEF Better
  <2>2. f = [k \in 1..n |-> f[k]] OBVIOUS
  <2> HIDE DEF f, n
  <2>3. f = [k \in 1..n |-> IF k = 1 THEN list[1]
                            ELSE IF ComposeCmp(list[k], f[k - 1]) > 0 THEN list[k] ELSE f[k - 1]]
    BY <2>1, <2>2
  <2>4. Is(f) BY <1>1, <2>3
  <2> QED BY <2>4 DEF f
<1>8. Is(best)
  <2> HIDE DEF Is
  <2> QED BY <1>7
<1>9. Best(list) = best[n] BY DEF Best
<1> HIDE DEF best
<1>10. ASSUME NEW k \in 1..n
       PROVE  best[k] = IF k = 1 THEN list[1] ELSE Better(list[k], best[k - 1])
  <2>1. best[k] = IF k = 1 THEN list[1]
                  ELSE IF ComposeCmp(list[k], best[k - 1]) > 0 THEN list[k] ELSE best[k - 1]
    BY <1>1, <1>8
  <2> QED BY <2>1 DEF Better
<1>11. Bests(best, list, n) BY <1>10 DEF Bests
<1> QED BY <1>9, <1>11

(* The best compose is one of the list, and is preferred to all others. *)
LEMMA BestIs ==
  ASSUME NEW list \in Seq(ComposeId), list # <<>>
  PROVE  /\ Best(list) \in ComposeId /\ Best(list) \in ToSet(list)
         /\ \A id \in ToSet(list) : id \in ComposeId /\ Over(Best(list), id)
<1> DEFINE n == Len(list)
<1>1. /\ n \in Nat /\ n >= 1 /\ DOMAIN list = 1..n
      /\ \A i \in 1..n : list[i] \in ComposeId
  OBVIOUS
<1>2. PICK best : Bests(best, list, n) /\ Best(list) = best[n] BY BestSteps
<1> HIDE DEF n
<1> DEFINE Good(k) == /\ best[k] \in ComposeId
                      /\ \E i \in 1..k : best[k] = list[i]
                      /\ \A i \in 1..k : Over(best[k], list[i])
           T == {k \in Nat : k + 1 <= n => Good(k + 1)}
<1>3. 0 \in T
  <2>1. 1 \in 1..n BY <1>1
  <2>2. best[1] = list[1] BY <1>2, <2>1 DEF Bests
  <2>3. Over(list[1], list[1]) BY <1>1, <2>1, OverOrder
  <2>4. \A i \in 1..1 : i = 1 OBVIOUS
  <2>5. Good(1) BY <1>1, <2>1, <2>2, <2>3, <2>4
  <2> HIDE DEF Good
  <2> QED BY <2>5
<1>4. ASSUME NEW k \in Nat, k \in T PROVE k + 1 \in T
  <2>1. SUFFICES ASSUME (k + 1) + 1 <= n PROVE Good((k + 1) + 1)
    <3> HIDE DEF Good
    <3> QED OBVIOUS
  <2>2. Good(k + 1)
    <3> HIDE DEF Good
    <3> QED BY <1>1, <1>4, <2>1
  <2> DEFINE m == k + 1
  <2>3. m + 1 \in 1..n /\ m + 1 # 1 /\ (m + 1) - 1 = m BY <1>1, <2>1
  <2>4. best[m + 1] = Better(list[m + 1], best[m]) BY <1>2, <2>3 DEF Bests
  <2>5. list[m + 1] \in ComposeId /\ best[m] \in ComposeId BY <1>1, <2>2, <2>3
  <2>6. /\ best[m + 1] \in {list[m + 1], best[m]}
        /\ Over(best[m + 1], list[m + 1]) /\ Over(best[m + 1], best[m])
    BY <2>4, <2>5, CmpIs, OverOrder DEF Better
  <2>7. \A i \in 1..(m + 1) : i \in 1..m \/ i = m + 1 OBVIOUS
  <2>8. \A i \in 1..m : i \in 1..(m + 1) /\ i \in 1..n BY <1>1, <2>1
  <2>9. m + 1 \in 1..(m + 1) OBVIOUS
  <2>10. PICK o \in 1..m : best[m] = list[o] BY <2>2
  <2> DEFINE b == best[m]
             c == best[m + 1]
  <2>11. \A i \in 1..m : Over(b, list[i]) BY <2>2
  <2> HIDE DEF m, b, c, Good
  <2>12. c \in ComposeId /\ b \in ComposeId BY <2>5, <2>6 DEF b, c
  <2>13. ASSUME NEW i \in 1..(m + 1) PROVE Over(c, list[i])
    <3>1. CASE i = m + 1 BY <2>6, <3>1 DEF c
    <3>2. CASE i \in 1..m
      <4>1. list[i] \in ComposeId BY <1>1, <2>8, <3>2
      <4>2. Over(b, list[i]) /\ Over(c, b) BY <2>6, <2>11, <3>2 DEF b, c
      <4> QED BY <2>12, <4>1, <4>2, OverOrder
    <3> QED BY <2>7, <3>1, <3>2
  <2>14. \E i \in 1..(m + 1) : c = list[i] BY <2>6, <2>8, <2>9, <2>10 DEF c
  <2>15. Good(m + 1) BY <2>12, <2>13, <2>14 DEF Good, c
  <2> QED BY <2>15 DEF m
<1> HIDE DEF T
<1>5. Nat \subseteq T BY <1>3, <1>4, SetInduction
<1>6. Good(n)
  <2>1. n - 1 \in Nat /\ (n - 1) + 1 = n /\ n <= n BY <1>1
  <2>2. n - 1 \in T BY <1>5, <2>1
  <2> HIDE DEF Good
  <2>3. (n - 1) + 1 <= n => Good((n - 1) + 1) BY <2>2 DEF T
  <2> QED BY <2>1, <2>3
<1> QED BY <1>1, <1>2, <1>6 DEF ToSet

----------------------------------------------------------------------------
(* The compose before the own one *)

(* The composes before the own one. *)
Before(list, own) == {id \in ToSet(list) : LexLess(id, own)}

(* The own id is added to a list that lacks it. *)
LEMMA WholeIs ==
  ASSUME NEW list \in Seq(ComposeId), NEW own \in ComposeId, NEW whole,
         whole = IF own \in ToSet(list) THEN list ELSE Append(list, own)
  PROVE  /\ whole \in Seq(ComposeId)
         /\ ToSet(whole) = ToSet(list) \cup {own}
         /\ ToSet(whole) \subseteq ComposeId
<1>1. CASE own \in ToSet(list)
  <2>1. ToSet(list) \subseteq ComposeId BY DEF ToSet
  <2> QED BY <1>1, <2>1
<1>2. CASE own \notin ToSet(list)
  <2>1. whole = Append(list, own) BY <1>2
  <2>2. /\ whole \in Seq(ComposeId) /\ Len(whole) = Len(list) + 1 /\ Len(list) \in Nat
        /\ whole[Len(list) + 1] = own
        /\ \A i \in 1..Len(list) : whole[i] = list[i]
    BY <2>1
  <2>3. DOMAIN whole = 1..(Len(list) + 1) /\ DOMAIN list = 1..Len(list) BY <2>2
  <2>4. \A i \in 1..(Len(list) + 1) : i \in 1..Len(list) \/ i = Len(list) + 1 BY <2>2
  <2>5. Len(list) + 1 \in DOMAIN whole /\ DOMAIN list \subseteq DOMAIN whole BY <2>2, <2>3
  <2>6. \A x : x \in ToSet(whole) <=> \E i \in DOMAIN whole : whole[i] = x BY DEF ToSet
  <2>7. \A x : x \in ToSet(list) <=> \E i \in DOMAIN list : list[i] = x BY DEF ToSet
  <2>8. ASSUME NEW x PROVE x \in ToSet(whole) <=> x \in ToSet(list) \cup {own}
    <3>1. ASSUME NEW i \in DOMAIN whole PROVE whole[i] \in ToSet(list) \cup {own}
      BY <2>2, <2>3, <2>4, <2>7
    <3>2. own \in ToSet(whole) BY <2>2, <2>5, <2>6
    <3>3. ASSUME NEW i \in DOMAIN list PROVE list[i] \in ToSet(whole)
      BY <2>2, <2>3, <2>5, <2>6
    <3> QED BY <2>6, <2>7, <3>1, <3>2, <3>3
  <2>9. ToSet(whole) \subseteq ComposeId BY <2>2 DEF ToSet
  <2> QED BY <2>2, <2>8, <2>9
<1> QED BY <1>1, <1>2

(* The compose that is chosen is the greatest of those before the own one. *)
LEMMA PreviousIs ==
  ASSUME NEW list \in Seq(ComposeId), NEW own \in ComposeId
  PROVE  IF Before(list, own) = {} THEN Previous(list, own) = NoCompose
         ELSE /\ Previous(list, own) \in Before(list, own)
              /\ \A id \in Before(list, own) \ {Previous(list, own)} :
                   LexLess(id, Previous(list, own))
<1> DEFINE whole == IF own \in ToSet(list) THEN list ELSE Append(list, own)
           sorted == Sorted(whole)
           n == Len(sorted)
           First(i) == sorted[i] = own /\ \A j \in 1..(i - 1) : sorted[j] # own
           index == CHOOSE i \in DOMAIN sorted : First(i)
           id == IF index = 1 THEN Last(sorted) ELSE sorted[index - 1]
<1>1. /\ whole \in Seq(ComposeId)
      /\ ToSet(whole) = ToSet(list) \cup {own} /\ ToSet(whole) \subseteq ComposeId
  <2> HIDE DEF whole
  <2>1. whole = IF own \in ToSet(list) THEN list ELSE Append(list, own) BY DEF whole
  <2> QED BY <2>1, WholeIs
<1>2. Previous(list, own) = IF id # own /\ id # Last(sorted) THEN id ELSE NoCompose
  BY DEF Previous
<1> HIDE DEF whole
<1>3. /\ sorted \in Seq(ComposeId) /\ n \in Nat /\ DOMAIN sorted = 1..n
      /\ ToSet(sorted) = ToSet(list) \cup {own}
      /\ \A i, j \in 1..n : i < j => ~LexLess(sorted[j], sorted[i])
  BY <1>1, SortedIs
<1> HIDE DEF sorted
<1>4. /\ \A i \in 1..n : sorted[i] \in ComposeId /\ sorted[i] \in ToSet(list) \cup {own}
      /\ \A x \in ToSet(list) \cup {own} : \E i \in 1..n : sorted[i] = x
  <2>1. ToSet(sorted) = {sorted[i] : i \in 1..n} BY <1>3 DEF ToSet
  <2>2. \A i \in 1..n : sorted[i] \in ComposeId BY <1>3
  <2> QED BY <1>3, <2>1, <2>2
<1>5. index \in 1..n /\ First(index)
  <2> DEFINE T == {i \in 1..n : sorted[i] = own}
  <2>0. \E i \in 1..n : sorted[i] = own
    <3> HIDE DEF n
    <3> QED BY <1>4
  <2>1. T \subseteq Nat /\ T # {} BY <1>3, <2>0
  <2> HIDE DEF T
  <2>2. PICK i \in T : \A m \in T : i <= m BY <2>1, LeastExists
  <2>3. i \in 1..n /\ sorted[i] = own BY DEF T
  <2>4. ASSUME NEW j \in 1..(i - 1) PROVE sorted[j] # own
    <3>1. j \in 1..n /\ ~(i <= j) BY <1>3, <2>3
    <3>2. j \notin T BY <2>2, <3>1
    <3> QED BY <3>1, <3>2 DEF T
  <2>5. i \in DOMAIN sorted /\ First(i) BY <1>3, <2>3, <2>4
  <2> HIDE DEF First
  <2>6. index \in DOMAIN sorted /\ First(index) BY <2>5
  <2> QED BY <1>3, <2>6
<1>6. /\ sorted[index] = own /\ \A j \in 1..(index - 1) : j \in 1..n /\ sorted[j] # own
  BY <1>3, <1>5
<1> HIDE DEF index, n
<1>7. ASSUME NEW x \in Before(list, own)
      PROVE  x \in ComposeId /\ \E i \in 1..(index - 1) : sorted[i] = x
  <2>1. x \in ToSet(list) /\ LexLess(x, own) BY DEF Before
  <2>2. PICK i \in 1..n : sorted[i] = x BY <1>4, <2>1
  <2>3. x \in ComposeId BY <1>4, <2>2
  <2>4. i # index BY <1>6, <2>1, <2>2, LexOrder
  <2>5. ~(index < i) BY <1>3, <1>5, <1>6, <2>1, <2>2
  <2>6. i \in 1..(index - 1) BY <1>3, <1>5, <2>4, <2>5
  <2> QED BY <2>2, <2>3, <2>6
<1>8. ASSUME NEW i \in 1..(index - 1) PROVE sorted[i] \in Before(list, own)
  <2>1. i \in 1..n /\ i < index /\ sorted[i] # own BY <1>3, <1>5, <1>6
  <2>2. ~LexLess(own, sorted[i]) BY <1>3, <1>5, <1>6, <2>1
  <2>3. LexLess(sorted[i], own) BY <1>4, <2>1, <2>2, LexOrder
  <2> QED BY <1>4, <2>1, <2>3 DEF Before
<1>9. CASE index = 1
  <2>1. Before(list, own) = {} BY <1>7, <1>9
  <2>2. id = Last(sorted) BY <1>9
  <2> QED BY <1>2, <2>1, <2>2
<1>10. CASE index # 1
  <2>1. index - 1 \in 1..(index - 1) /\ index - 1 \in 1..n /\ index - 1 < index
    BY <1>3, <1>5, <1>10
  <2>2. id = sorted[index - 1] BY <1>10
  <2> HIDE DEF id
  <2>3. id \in Before(list, own) /\ id \in ComposeId /\ LexLess(id, own) /\ id # own
    BY <1>4, <1>6, <1>8, <2>1, <2>2 DEF Before
  <2>4. Last(sorted) = sorted[n] /\ n \in 1..n BY <1>3, <1>5 DEF Last, n
  <2>5. sorted[n] # id
    <3>1. CASE n = index BY <1>6, <2>3, <3>1
    <3>2. CASE index < n
      <4>1. ~LexLess(sorted[n], own) BY <1>3, <1>5, <1>6, <2>4, <3>2
      <4> QED BY <2>3, <4>1
    <3> QED BY <1>3, <1>5, <3>1, <3>2
  <2>6. Previous(list, own) = id BY <1>2, <2>3, <2>4, <2>5
  <2>7. ASSUME NEW x \in Before(list, own), x # id PROVE LexLess(x, id)
    <3>1. x \in ComposeId BY <1>7
    <3>2. PICK i \in 1..(index - 1) : sorted[i] = x BY <1>7
    <3>3. i \in 1..n /\ i < index - 1 BY <1>3, <1>5, <2>2, <2>7, <3>2
    <3>4. ~LexLess(id, x) BY <1>3, <2>1, <2>2, <3>2, <3>3
    <3> QED BY <2>3, <2>7, <3>1, <3>4, LexOrder
  <2> QED BY <2>3, <2>6, <2>7
<1> QED BY <1>9, <1>10

----------------------------------------------------------------------------
(* The compose that was chosen is chosen as the code chooses it, among those *)
(* of the first name with any.                                             *)
PreviousInv ==
  task.kind = "previous" /\ at \in Ended => chosen = Previous(task.lists[1], task.own)
TriedInv ==
  task.kind = "accepted" /\ at = "look" => \A l \in 1..looks : task.lists[l] = <<>>
AcceptedInv ==
  task.kind = "accepted" /\ at = "found" =>
    /\ looks \in 1..Len(task.lists) /\ task.lists[looks] # <<>>
    /\ chosen = Best(task.lists[looks])
    /\ \A l \in 1..(looks - 1) : task.lists[l] = <<>>
ChoiceInv ==
  /\ task.kind \in Composed => at # "sleep"
  /\ PreviousInv /\ TriedInv /\ AcceptedInv

LEMMA ChoiceInit ==
  ASSUME LookupInit PROVE ChoiceInv
<1>1. looks = 0 /\ at \notin Ended /\ (task.kind \in Composed => at = "look")
  BY DEF LookupInit, Ended, Composed
<1> QED BY <1>1 DEF ChoiceInv, PreviousInv, TriedInv, AcceptedInv, Ended

LEMMA ChoiceStep ==
  ASSUME LookupInv, ChoiceInv, [LookupNext]_lookupVars
  PROVE  ChoiceInv'
<1>0. looks \in Nat /\ task \in Tasks BY DEF LookupInv, LookupTypeOK
<1>1. CASE task.kind \notin Composed
  <2>1. task' = task
    BY DEF LookupNext, LookFinds, LookMisses, LookRaises, Sleep, GiveUp, TryName,
       TakePrevious, lookupVars
  <2> QED BY <1>1, <2>1 DEF ChoiceInv, PreviousInv, TriedInv, AcceptedInv, Composed
<1>2. CASE task.kind \in Composed
  <2>1. ~MayLook /\ task.kind \notin {"koji"} BY <1>2 DEF MayLook, Composed
  <2>2. ~LookFinds /\ ~LookMisses /\ ~LookRaises /\ ~GiveUp
    BY <1>2, <2>1 DEF LookFinds, LookMisses, LookRaises, GiveUp
  <2>3. CASE UNCHANGED lookupVars
    <3>1. task' = task /\ at' = at /\ looks' = looks /\ chosen' = chosen
      BY <2>3 DEF lookupVars
    <3>2. PreviousInv' BY <3>1 DEF ChoiceInv, PreviousInv
    <3>3. TriedInv' BY <3>1 DEF ChoiceInv, TriedInv
    <3>4. AcceptedInv' BY <3>1 DEF ChoiceInv, AcceptedInv
    <3> QED BY <3>1, <3>2, <3>3, <3>4 DEF ChoiceInv
  <2>4. CASE TakePrevious
    <3>1. /\ task.kind = "previous" /\ task' = task /\ at' \in {"gaveUp", "found"}
          /\ chosen' = Previous(task.lists[1], task.own)
      BY <2>4 DEF TakePrevious
    <3> QED BY <3>1 DEF ChoiceInv, PreviousInv, TriedInv, AcceptedInv
  <2>5. CASE TryName
    <3> DEFINE list == task.lists[looks + 1]
    <3>1. /\ at = "look" /\ task.kind = "accepted" /\ looks < Len(task.lists)
          /\ task' = task /\ looks' = looks + 1
          /\ \/ list # <<>> /\ chosen' = Best(list) /\ at' = "found"
             \/ list = <<>> /\ at' \in {"look", "gaveUp"}
             \/ at' = "other"
      BY <2>5 DEF TryName
    <3>2. \A l \in 1..looks : task.lists[l] = <<>> BY <3>1 DEF ChoiceInv, TriedInv
    <3>3. Len(task.lists) \in Nat BY <1>0, <3>1, TaskFacts DEF TaskOK, Timed, Counted
    <3>4. looks + 1 \in 1..Len(task.lists) /\ (looks + 1) - 1 = looks BY <1>0, <3>1, <3>3
    <3>5. \A l \in 1..(looks + 1) : l \in 1..looks \/ l = looks + 1 BY <1>0
    <3>6. at' = "look" => \A l \in 1..(looks + 1) : task.lists[l] = <<>>
      BY <3>1, <3>2, <3>5
    <3>7. at' = "found" => list # <<>> /\ chosen' = Best(list) BY <3>1
    <3> QED BY <3>1, <3>2, <3>4, <3>6, <3>7 DEF ChoiceInv, PreviousInv, TriedInv, AcceptedInv
  <2>6. ~Sleep BY <1>2 DEF Sleep, ChoiceInv
  <2> QED BY <2>2, <2>3, <2>4, <2>5, <2>6 DEF LookupNext
<1> QED BY <1>1, <1>2

(* The compose accepted last is the best of the first name that has any,   *)
(* whatever the order of the list; the previous one is the greatest before *)
(* the own one.                                                            *)
THEOREM ChoiceIsCorrect == LookupSpec => []ChoiceCorrect
<1>1. LookupInit => ChoiceInv BY ChoiceInit
<1>2. LookupInv /\ ChoiceInv /\ [LookupNext]_lookupVars => ChoiceInv' BY ChoiceStep
<1>3. LookupInv /\ ChoiceInv => ChoiceCorrect
  <2> SUFFICES ASSUME LookupInv, ChoiceInv PROVE ChoiceCorrect OBVIOUS
  <2>1. ASSUME task.kind \in Composed
        PROVE  /\ task.lists \in Seq(Seq(ComposeId)) /\ task.lists # <<>>
               /\ task.kind = "previous" => task.own \in ComposeId
    BY <2>1, TaskFacts DEF LookupInv, LookupTypeOK, TaskOK, Timed, Counted, Composed
  <2>2. AcceptedIsLast
    <3> SUFFICES ASSUME at = "found", task.kind = "accepted"
                 PROVE  /\ \A l \in 1..(looks - 1) : task.lists[l] = <<>>
                        /\ chosen \in ToSet(task.lists[looks])
                        /\ \A id \in ToSet(task.lists[looks]) \ {chosen} :
                             IsPrefix(chosen, id) \/ (LexLess(id, chosen) /\ ~IsPrefix(id, chosen))
      BY DEF AcceptedIsLast
    <3> DEFINE list == task.lists[looks]
    <3>1. /\ looks \in 1..Len(task.lists) /\ list # <<>> /\ chosen = Best(list)
          /\ \A l \in 1..(looks - 1) : task.lists[l] = <<>>
      BY DEF ChoiceInv, AcceptedInv
    <3>2. list \in Seq(ComposeId) BY <2>1, <3>1 DEF Composed
    <3> HIDE DEF list
    <3>3. /\ chosen \in ComposeId /\ chosen \in ToSet(list)
          /\ \A id \in ToSet(list) : id \in ComposeId /\ Over(chosen, id)
      BY <3>1, <3>2, BestIs
    <3>4. ASSUME NEW id \in ToSet(list)
          PROVE  IsPrefix(chosen, id) \/ (LexLess(id, chosen) /\ ~IsPrefix(id, chosen))
      <4>1. id \in ComposeId /\ Over(chosen, id) BY <3>3
      <4>2. CASE Starts(chosen, id) BY <3>3, <4>1, <4>2, PrefixIs
      <4>3. CASE Differs(id, chosen)
        <5>1. LexLess(id, chosen) BY <3>3, <4>1, <4>3, LexIs
        <5>2. ~Starts(id, chosen) BY <3>3, <4>1, <4>3, DiffersExcludes
        <5> QED BY <3>3, <4>1, <5>1, <5>2, PrefixIs
      <4> QED BY <4>1, <4>2, <4>3 DEF Over
    <3> QED BY <3>1, <3>3, <3>4 DEF list
  <2>3. PreviousIsNearest
    <3> SUFFICES ASSUME at \in Ended, task.kind = "previous"
                 PROVE  IF Before(task.lists[1], task.own) = {} THEN chosen = NoCompose
                        ELSE /\ chosen \in Before(task.lists[1], task.own)
                             /\ \A id \in Before(task.lists[1], task.own) \ {chosen} :
                                  LexLess(id, chosen)
      BY DEF PreviousIsNearest, Before
    <3>1. chosen = Previous(task.lists[1], task.own) BY DEF ChoiceInv, PreviousInv
    <3>2. task.lists[1] \in Seq(ComposeId) /\ task.own \in ComposeId
      <4>1. task.lists \in Seq(Seq(ComposeId)) /\ task.lists # <<>> BY <2>1 DEF Composed
      <4>2. 1 \in 1..Len(task.lists) BY <4>1
      <4> QED BY <2>1, <4>1, <4>2 DEF Composed
    <3> QED BY <3>1, <3>2, PreviousIs
  <2> QED BY <2>2, <2>3 DEF ChoiceCorrect
<1> QED BY <1>1, <1>2, <1>3, InvHolds, PTL DEF LookupSpec
=============================================================================

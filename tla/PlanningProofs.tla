--------------------------- MODULE PlanningProofs ---------------------------
(***************************************************************************)
(* What the preparation of a run promises, for every set of inputs, within *)
(* Planning as a whole: the settings that the command line or the          *)
(* environment overrides, the class of the event, the branch of the        *)
(* library that is cloned, the structures that the event converts; and then *)
(* what the construction of TestRuns promises: which crcs are planned, and *)
(* that each has its workflow and its report senders.                      *)
(*                                                                         *)
(* The theorems about the preparation have an inductive invariant each:    *)
(* SettingsInv, ClassInv, BranchInv and AskInv.  Those about the planning  *)
(* rest on PlanInv and ServedInv.                                          *)
(***************************************************************************)
EXTENDS Planning, SequenceTheorems, FiniteSetTheorems, WellFoundedInduction, TLAPS

vars == <<preparationVars, planningVars>>

(* What all steps leave alone.                                             *)
LEMMA SetupStays ==
  ASSUME [PlanningNext]_vars
  PROVE  setup' = setup
BY DEF PlanningNext, PreparationNext, PlanStep, Construct, UseDirectPath, DeriveBranch,
       TryBranch, LoadLibrary, Ask, AskAvailable, BeginConvert, Convert, Decline,
       ConvertRaises, preparationVars, vars

LEMMA SetupIsOK ==
  ASSUME setup \in Setups
  PROVE  SetupOK(setup)
BY PreparationAssumption

----------------------------------------------------------------------------
(* Settings *)

LEMMA PlacesAre ==
  ASSUME NEW all, NEW a, NEW b, NEW o
  PROVE  /\ Places(all, <<a, b>>, o) \subseteq (1..2) \X (1..6)
         /\ \A j \in 1..6 :
              /\ <<1, j>> \in Places(all, <<a, b>>, o) <=> <<a, o>> \in DOMAIN all[Source[j]]
              /\ <<2, j>> \in Places(all, <<a, b>>, o) <=> <<b, o>> \in DOMAIN all[Source[j]]
<1>1. DOMAIN Source = 1..6 BY DEF Source
<1>2. DOMAIN <<a, b>> = 1..2 /\ <<a, b>>[1] = a /\ <<a, b>>[2] = b OBVIOUS
<1> HIDE DEF Source
<1>3. Places(all, <<a, b>>, o) =
        {p \in (1..2) \X (1..6) : << <<a, b>>[p[1]], o>> \in DOMAIN all[Source[p[2]]]}
  BY <1>1, <1>2 DEF Places
<1>4. ASSUME NEW i \in 1..2, NEW j \in 1..6
      PROVE  <<i, j>> \in Places(all, <<a, b>>, o) <=>
               << <<a, b>>[i], o>> \in DOMAIN all[Source[j]]
  BY <1>3
<1>5. Places(all, <<a, b>>, o) \subseteq (1..2) \X (1..6) BY <1>3
<1>6. ASSUME NEW j \in 1..6
      PROVE  /\ <<1, j>> \in Places(all, <<a, b>>, o) <=> <<a, o>> \in DOMAIN all[Source[j]]
             /\ <<2, j>> \in Places(all, <<a, b>>, o) <=> <<b, o>> \in DOMAIN all[Source[j]]
  <2>1. /\ <<1, j>> \in Places(all, <<a, b>>, o) <=>
               << <<a, b>>[1], o>> \in DOMAIN all[Source[j]]
        /\ <<2, j>> \in Places(all, <<a, b>>, o) <=>
               << <<a, b>>[2], o>> \in DOMAIN all[Source[j]]
    BY <1>4
  <2> QED BY <1>2, <2>1
<1> QED BY <1>5, <1>6

(* A set of places has a first one.                                        *)
LEMMA FirstPlace ==
  ASSUME NEW P \in SUBSET ((1..2) \X (1..6)), P # {}
  PROVE  \E p \in P : \A q \in P : Priority(p, q)
<1>1. ASSUME NEW S \in SUBSET (1..6), S # {}
      PROVE  \E j \in S : \A k \in S : j <= k
  <2>1. CASE 1 \in S BY <2>1
  <2>2. CASE 1 \notin S /\ 2 \in S BY <2>2
  <2>3. CASE 1 \notin S /\ 2 \notin S /\ 3 \in S BY <2>3
  <2>4. CASE 1 \notin S /\ 2 \notin S /\ 3 \notin S /\ 4 \in S BY <2>4
  <2>5. CASE 1 \notin S /\ 2 \notin S /\ 3 \notin S /\ 4 \notin S
    <3>1. S \subseteq {5, 6} BY <2>5
    <3>2. CASE 5 \in S BY <3>1, <3>2
    <3>3. CASE 5 \notin S
      <4>1. 6 \in S /\ \A k \in S : k = 6 BY <1>1, <3>1, <3>3
      <4> QED BY <4>1
    <3> QED BY <3>2, <3>3
  <2> QED BY <2>1, <2>2, <2>3, <2>4, <2>5
<1>2. ASSUME NEW i \in 1..2, \E p \in P : p[1] = i, \A p \in P : p[1] >= i
      PROVE  \E p \in P : \A q \in P : Priority(p, q)
  <2> DEFINE S == {j \in 1..6 : <<i, j>> \in P}
  <2>1. S # {}
    <3>1. PICK p \in P : p[1] = i BY <1>2
    <3>2. p = <<i, p[2]>> /\ p[2] \in 1..6 BY <3>1
    <3> QED BY <3>2
  <2>2. PICK j \in S : \A k \in S : j <= k BY <1>1, <2>1
  <2>3. ASSUME NEW q \in P PROVE Priority(<<i, j>>, q)
    <3>1. q = <<q[1], q[2]>> /\ q[1] \in 1..2 /\ q[2] \in 1..6 OBVIOUS
    <3>2. CASE q[1] = i BY <2>2, <3>1, <3>2 DEF Priority
    <3>3. CASE q[1] # i BY <1>2, <2>2, <3>1, <3>3 DEF Priority
    <3> QED BY <3>2, <3>3
  <2> QED BY <2>2, <2>3
<1>3. CASE \E p \in P : p[1] = 1 BY <1>2, <1>3
<1>4. CASE ~\E p \in P : p[1] = 1
  <2>1. \E p \in P : p[1] = 2 BY <1>4
  <2>2. \A p \in P : p[1] >= 2 BY <1>4
  <2> QED BY <1>2, <2>1, <2>2
<1> QED BY <1>3, <1>4

(* get returns the value at the first place.                               *)
LEMMA GetAt ==
  ASSUME NEW all, NEW a, NEW b, NEW o, NEW p \in Places(all, <<a, b>>, o),
         \A q \in Places(all, <<a, b>>, o) : Priority(p, q)
  PROVE  Get(all, <<a, b>>, o) = all[Source[p[2]]][<< <<a, b>>[p[1]], o>>]
<1> DEFINE P == Places(all, <<a, b>>, o)
<1>1. P \subseteq (1..2) \X (1..6) BY PlacesAre
<1> HIDE DEF P
<1>2. ASSUME NEW r \in P, \A q \in P : Priority(r, q) PROVE r = p
  <2>1. Priority(r, p) /\ Priority(p, r) BY <1>2 DEF P
  <2>2. p \in P BY DEF P
  <2> QED BY <1>1, <2>1, <2>2 DEF Priority
<1>3. (CHOOSE r \in P : \A q \in P : Priority(r, q)) = p BY <1>2 DEF P
<1> QED BY <1>3 DEF Get, P

(* load_from_library, for any settings.                                    *)
WithLibrary(all, ini) == [all EXCEPT !["library"] = ini]

(* What option o of sections a and b shows does not depend on the settings *)
(* of the library: the command line or the environment sets it, or the     *)
(* first section does and the library does not.                            *)
Fixed(all, ini, a, b, o) ==
  \/ \E j \in 1..2 : <<a, o>> \in DOMAIN all[Source[j]]
  \/ /\ <<a, o>> \notin DOMAIN ini
     /\ \/ \E j \in DOMAIN Source : <<a, o>> \in DOMAIN all[Source[j]]
        \/ \E j \in 1..2 : <<b, o>> \in DOMAIN all[Source[j]]

LEMMA GetKept ==
  ASSUME NEW all, DOMAIN all = Range(Source), DOMAIN all["library"] = {},
         NEW ini, NEW a, NEW b, NEW o,
         Places(all, <<a, b>>, o) # {}, Fixed(all, ini, a, b, o)
  PROVE  Get(all, <<a, b>>, o) = Get(WithLibrary(all, ini), <<a, b>>, o)
<1> DEFINE new == WithLibrary(all, ini)
           P == Places(all, <<a, b>>, o)
           Q == Places(new, <<a, b>>, o)
<1>1. P \subseteq (1..2) \X (1..6) /\ Q \subseteq (1..2) \X (1..6) BY PlacesAre
<1>2. PICK p \in P : \A q \in P : Priority(p, q) BY <1>1, FirstPlace
<1>3. p = <<p[1], p[2]>> /\ p[1] \in 1..2 /\ p[2] \in 1..6 BY <1>1
<1>4. /\ DOMAIN Source = 1..6 /\ Source[3] = "library"
      /\ \A j \in 1..6 : j # 3 => Source[j] # "library" /\ Source[j] \in DOMAIN all
      /\ "library" \in DOMAIN all
  BY DEF Source, Range
<1>6. /\ \A j \in (1..6) \ {3} : new[Source[j]] = all[Source[j]]
      /\ new[Source[3]] = ini
  BY <1>4 DEF WithLibrary
<1> HIDE DEF Source, new
<1>7. /\ \A j \in 1..6 : /\ <<1, j>> \in P <=> <<a, o>> \in DOMAIN all[Source[j]]
                         /\ <<2, j>> \in P <=> <<b, o>> \in DOMAIN all[Source[j]]
                         /\ <<1, j>> \in Q <=> <<a, o>> \in DOMAIN new[Source[j]]
                         /\ <<2, j>> \in Q <=> <<b, o>> \in DOMAIN new[Source[j]]
  BY PlacesAre
<1>8. DOMAIN all[Source[3]] = {} BY <1>4
<1> HIDE DEF P, Q
<1>9. p[2] # 3
  <2>1. <<1, 3>> \notin P /\ <<2, 3>> \notin P BY <1>7, <1>8
  <2> QED BY <1>3, <2>1
<1>10. p \in Q
  <2>1. new[Source[p[2]]] = all[Source[p[2]]] BY <1>3, <1>6, <1>9
  <2>2. CASE p[1] = 1 BY <1>2, <1>3, <1>7, <2>1, <2>2
  <2>3. CASE p[1] = 2 BY <1>2, <1>3, <1>7, <2>1, <2>3
  <2> QED BY <1>3, <2>2, <2>3
<1>11. ASSUME NEW q \in Q PROVE Priority(p, q)
  <2>1. q = <<q[1], q[2]>> /\ q[1] \in 1..2 /\ q[2] \in 1..6 BY <1>1
  <2>2. CASE q \in P BY <1>2, <2>2
  <2>3. CASE q \notin P
    <3>1. q[2] = 3
      <4>1. q[2] # 3 => new[Source[q[2]]] = all[Source[q[2]]] BY <1>6, <2>1
      <4>2. CASE q[1] = 1 BY <1>7, <2>1, <2>3, <4>1, <4>2
      <4>3. CASE q[1] = 2 BY <1>7, <2>1, <2>3, <4>1, <4>3
      <4> QED BY <2>1, <4>2, <4>3
    <3>2. ASSUME NEW j \in 1..2, <<1, j>> \in P PROVE Priority(p, q)
      <4>1. Priority(p, <<1, j>>) BY <1>2, <3>2
      <4> QED BY <1>3, <2>1, <3>1, <4>1 DEF Priority
    <3>3. CASE q[1] = 1
      <4>1. <<a, o>> \in DOMAIN ini BY <1>6, <1>7, <2>1, <3>1, <3>3
      <4>2. PICK j \in 1..2 : <<a, o>> \in DOMAIN all[Source[j]] BY <4>1 DEF Fixed
      <4> QED BY <1>7, <3>2, <4>2
    <3>4. CASE q[1] = 2
      <4>1. ASSUME NEW j \in 1..6, <<1, j>> \in P PROVE Priority(p, q)
        <5>1. Priority(p, <<1, j>>) BY <1>2, <4>1
        <5> QED BY <1>3, <2>1, <3>4, <5>1 DEF Priority
      <4>2. ASSUME NEW j \in 1..2, <<2, j>> \in P PROVE Priority(p, q)
        <5>1. Priority(p, <<2, j>>) BY <1>2, <4>2
        <5> QED BY <1>3, <2>1, <3>1, <3>4, <5>1 DEF Priority
      <4> QED BY <1>4, <1>7, <3>2, <4>1, <4>2 DEF Fixed
    <3> QED BY <2>1, <3>3, <3>4
  <2> QED BY <2>2, <2>3
<1>12. Get(all, <<a, b>>, o) = all[Source[p[2]]][<< <<a, b>>[p[1]], o>>]
  BY <1>2, GetAt DEF P
<1>13. Get(new, <<a, b>>, o) = new[Source[p[2]]][<< <<a, b>>[p[1]], o>>]
  <2>1. p \in Places(new, <<a, b>>, o) BY <1>10 DEF Q
  <2>2. \A q \in Places(new, <<a, b>>, o) : Priority(p, q) BY <1>11 DEF Q
  <2> QED BY <2>1, <2>2, GetAt
<1>14. new[Source[p[2]]] = all[Source[p[2]]] BY <1>3, <1>6, <1>9
<1> QED BY <1>12, <1>13, <1>14 DEF new

(* Until the settings of the library are loaded, no settings change.       *)
SettingsInv == setup \in Setups /\ (phase # "ready" => settings = setup.sources)

LEMMA SettingsStep ==
  ASSUME SettingsInv, [PlanningNext]_vars
  PROVE  SettingsInv'
BY SetupStays DEF SettingsInv, PlanningNext, PreparationNext, PlanStep, Construct,
   UseDirectPath, DeriveBranch, TryBranch, LoadLibrary, Ask, AskAvailable,
   BeginConvert, Convert, Decline, ConvertRaises, preparationVars, vars, cloning

(* What the command line or the environment sets is not changed by the     *)
(* settings of the library, nor is what the first section of a view sets   *)
(* elsewhere and the library does not.                                     *)
THEOREM LibraryDoesNotOverride == PlanningSpec => OverridesSurvive
<1> DEFINE Top(o) == \E j \in 1..2 : o \in DOMAIN settings[Source[j]]
           Unset(o) == \A j \in DOMAIN Source : o \notin DOMAIN settings[Source[j]]
           Kept1(first, second) ==
             LET view == <<first[1], second[1]>>
             IN /\ first[2] = second[2] /\ Places(settings, view, first[2]) # {}
                /\ Get(settings, view, first[2]) # Get(settings', view, first[2])
                => /\ ~Top(first)
                   /\ \/ first \in DOMAIN setup.library
                      \/ Unset(first) /\ ~Top(second)
<1>1. PlanningInit => SettingsInv BY DEF PlanningInit, PreparationInit, SettingsInv
<1>2. SettingsInv /\ [PlanningNext]_vars => SettingsInv' BY SettingsStep
<1>3. ASSUME SettingsInv, [PlanningNext]_vars
      PROVE  (\A first, second \in Option : Kept1(first, second))
               \/ UNCHANGED preparationVars
  <2>1. CASE settings' = settings BY <2>1
  <2>2. CASE LoadLibrary
    <3>1. /\ DOMAIN settings = Range(Source) /\ DOMAIN settings["library"] = {}
          /\ settings' = [settings EXCEPT !["library"] = setup.library]
      BY <1>3, <2>2, SetupIsOK DEF SettingsInv, SetupOK, LoadLibrary, LibrarySource
    <3>2. SUFFICES ASSUME NEW first \in Option, NEW second \in Option,
                          first[2] = second[2],
                          Places(settings, <<first[1], second[1]>>, first[2]) # {},
                          \/ Top(first)
                          \/ /\ first \notin DOMAIN setup.library
                             /\ ~Unset(first) \/ Top(second)
                   PROVE  Get(settings, <<first[1], second[1]>>, first[2]) =
                          Get(settings', <<first[1], second[1]>>, first[2])
      OBVIOUS
    <3>3. first = <<first[1], first[2]>> /\ second = <<second[1], first[2]>>
      BY <3>2, PreparationAssumption
    <3> DEFINE ini == setup.library
                 a == first[1]
                 b == second[1]
                 o == first[2]
    <3>4. Fixed(settings, ini, a, b, o) BY <3>2, <3>3 DEF Fixed
    <3>5. Places(settings, <<a, b>>, o) # {} BY <3>2
    <3> HIDE DEF ini, a, b, o
    <3>6. settings' = WithLibrary(settings, ini) BY <3>1 DEF ini, WithLibrary
    <3>7. Get(settings, <<a, b>>, o) = Get(WithLibrary(settings, ini), <<a, b>>, o)
      BY <3>1, <3>4, <3>5, GetKept
    <3> QED BY <3>6, <3>7 DEF a, b, o
  <2>3. CASE UNCHANGED preparationVars BY <2>3
  <2> QED
    BY <1>3, <2>1, <2>2, <2>3 DEF PlanningNext, PreparationNext, Construct,
       UseDirectPath, DeriveBranch, TryBranch, Ask, AskAvailable, BeginConvert,
       Convert, Decline, ConvertRaises, cloning, vars
<1>4. SettingsInv /\ [PlanningNext]_vars =>
        [\A first, second \in Option : Kept1(first, second)]_preparationVars
  BY <1>3
<1> QED BY <1>1, <1>2, <1>4, PTL DEF PlanningSpec, OverridesSurvive, vars

----------------------------------------------------------------------------
(* Prefixes *)

LEMMA PrefixDef ==
  ASSUME NEW A, NEW s \in Seq(A), NEW t \in Seq(A)
  PROVE  IsPrefix(s, t) <=>
           Len(s) <= Len(t) /\ \A i \in 1..Len(s) : s[i] = t[i]
<1>1. Len(s) \in Nat /\ Len(t) \in Nat
      /\ DOMAIN s = 1..Len(s) /\ DOMAIN t = 1..Len(t)
  OBVIOUS
<1>2. SubSeq(s, 1, Len(s)) = s BY SubSeqFull
<1>3. ASSUME Len(s) <= Len(t)
      PROVE  /\ SubSeq(t, 1, Len(s)) \in Seq(A)
             /\ Len(SubSeq(t, 1, Len(s))) = Len(s)
             /\ \A i \in 1..Len(s) : SubSeq(t, 1, Len(s))[i] = t[i]
  <2>1. \A i \in 1..Len(s) : t[i] \in A BY <1>1, <1>3
  <2> QED BY <1>1, <1>3, <2>1, SubSeqProperties
<1>4. ASSUME Len(s) <= Len(t), \A i \in 1..Len(s) : s[i] = t[i]
      PROVE  s = SubSeq(t, 1, Len(s))
  BY <1>3, <1>4, SeqEqual
<1> QED BY <1>2, <1>3, <1>4 DEF IsPrefix

(* Of two prefixes of a name, the one that is not longer is a prefix of    *)
(* the other.                                                              *)
LEMMA PrefixesOfOne ==
  ASSUME NEW A, NEW s \in Seq(A), NEW r \in Seq(A), NEW t \in Seq(A),
         IsPrefix(s, t), IsPrefix(r, t), Len(s) <= Len(r)
  PROVE  IsPrefix(s, r) /\ (Len(s) = Len(r) => s = r)
<1>1. \A i \in 1..Len(s) : s[i] = r[i]
  <2>1. /\ \A i \in 1..Len(s) : s[i] = t[i]
        /\ \A i \in 1..Len(r) : r[i] = t[i]
    BY PrefixDef
  <2> QED BY <2>1
<1> QED BY <1>1, PrefixDef, SeqEqual

(* One of the prefixes of a name is the longest.                           *)
LEMMA LongestPrefix ==
  ASSUME NEW A, NEW t \in Seq(A), NEW C \in SUBSET Seq(A), C # {},
         \A r \in C : IsPrefix(r, t)
  PROVE  \E r \in C : \A q \in C : Len(q) <= Len(r)
<1> DEFINE T == {Len(t) - Len(r) : r \in C}
           Less == OpToRel(<, Nat)
<1>1. ASSUME NEW r \in C PROVE Len(r) \in Nat /\ Len(t) \in Nat /\ Len(r) <= Len(t)
  BY PrefixDef
<1>2. T \subseteq Nat /\ T # {} BY <1>1
<1>3. \A m, n \in Nat : <<m, n>> \in Less <=> m < n BY DEF OpToRel
<1>4. IsWellFoundedOn(Less, Nat) BY NatLessThanWellFounded
<1> HIDE DEF T, Less
<1>5. PICK n \in T : \A m \in T : ~ (<<m, n>> \in Less) BY <1>2, <1>4, WFMin
<1>6. PICK r \in C : n = Len(t) - Len(r) BY DEF T
<1>7. ASSUME NEW q \in C PROVE Len(q) <= Len(r)
  <2>1. Len(t) - Len(q) \in T BY DEF T
  <2>2. ~(Len(t) - Len(q) < n) BY <1>2, <1>3, <1>5, <2>1
  <2> QED BY <1>1, <1>6, <2>2
<1> QED BY <1>7

----------------------------------------------------------------------------
(* The class of the event *)

Name == Seq(Range(Alphabet))

LEMMA CodeIs ==
  ASSUME NEW ch \in Range(Alphabet)
  PROVE  Code(ch) \in Nat
<1>1. PICK i \in DOMAIN Alphabet : Alphabet[i] = ch BY DEF Range
<1>2. Code(ch) \in DOMAIN Alphabet BY <1>1 DEF Code
<1>3. DOMAIN Alphabet \subseteq Nat BY PreparationAssumption
<1> QED BY <1>2, <1>3

(* Of two prefixes of a name, the longer is the greater.                   *)
LEMMA LongerIsGreater ==
  ASSUME NEW t \in Name, NEW q \in Name, NEW r \in Name,
         IsPrefix(q, t), IsPrefix(r, t), q # r
  PROVE  LexLess(q, r) <=> Len(q) < Len(r)
<1> USE DEF Name
<1>1. Len(q) \in Nat /\ Len(r) \in Nat /\ Len(q) # Len(r)
  <2>1. Len(q) = Len(r) => q = r BY PrefixesOfOne
  <2> QED BY <2>1
<1>2. \A i \in DOMAIN q \cap DOMAIN r : Code(q[i]) = Code(r[i]) /\ Code(q[i]) \in Nat
  <2>1. /\ \A i \in 1..Len(q) : q[i] = t[i]
        /\ \A i \in 1..Len(r) : r[i] = t[i]
    BY PrefixDef
  <2>2. \A i \in 1..Len(q) : q[i] \in Range(Alphabet) BY ElementOfSeq
  <2>3. ASSUME NEW i \in DOMAIN q \cap DOMAIN r
        PROVE  q[i] = r[i] /\ q[i] \in Range(Alphabet)
    <3>1. i \in 1..Len(q) /\ i \in 1..Len(r) OBVIOUS
    <3> QED BY <2>1, <2>2, <3>1
  <2>4. ASSUME NEW i \in DOMAIN q \cap DOMAIN r
        PROVE  Code(q[i]) = Code(r[i]) /\ Code(q[i]) \in Nat
    BY <2>3, CodeIs
  <2> QED BY <2>4
<1>3. LexLess(q, r) <=> IsStrictPrefix(q, r) BY <1>2 DEF LexLess
<1>4. IsStrictPrefix(q, r) <=> IsPrefix(q, r) BY DEF IsStrictPrefix
<1>5. IsPrefix(q, r) => Len(q) <= Len(r) BY PrefixDef
<1>6. Len(q) <= Len(r) => IsPrefix(q, r) BY PrefixesOfOne
<1> QED BY <1>1, <1>3, <1>4, <1>5, <1>6

(* The first candidate in descending order is the longest.                 *)
LEMMA ClassIsLongest ==
  ASSUME NEW type \in Name, NEW registered \in SUBSET Name,
         NEW covers, covers = {r \in registered : StartsWith(type, r)}
  PROVE  IF covers = {} THEN GetClass(type, registered) = NoClass
         ELSE /\ GetClass(type, registered) \in covers
              /\ \A q \in covers : Len(q) <= Len(GetClass(type, registered))
<1>1. CASE covers = {} BY <1>1 DEF GetClass
<1>2. CASE covers # {}
  <2>1. /\ covers \in SUBSET Name
        /\ \A r \in covers : IsPrefix(r, type)
    BY DEF StartsWith
  <2>2. PICK r \in covers : \A q \in covers : Len(q) <= Len(r)
    BY <1>2, <2>1, LongestPrefix DEF Name
  <2>3. \A q \in covers : Len(q) \in Nat BY <2>1 DEF Name
  <2>4. ASSUME NEW q \in covers, NEW p \in covers, q # p
        PROVE  LexLess(q, p) <=> Len(q) < Len(p)
    BY <2>1, <2>4, LongerIsGreater
  <2>5. \A q \in covers \ {r} : LexLess(q, r)
    <3>1. ASSUME NEW q \in covers \ {r} PROVE Len(q) # Len(r)
      BY <2>1, PrefixesOfOne, <3>1 DEF Name
    <3> QED BY <2>2, <2>3, <2>4, <3>1
  <2> DEFINE c == CHOOSE r1 \in covers : \A q \in covers \ {r1} : LexLess(q, r1)
  <2>6. c \in covers /\ \A q \in covers \ {c} : LexLess(q, c) BY <2>5
  <2>7. GetClass(type, registered) = c BY <1>2 DEF GetClass
  <2> HIDE DEF c
  <2>8. ASSUME NEW q \in covers PROVE Len(q) <= Len(c)
    BY <2>3, <2>4, <2>6
  <2> QED BY <1>2, <2>6, <2>7, <2>8
<1> QED BY <1>1, <1>2

ClassInv ==
  setup \in Setups /\ (phase # "start" => class = GetClass(setup.type, setup.registered))

LEMMA ClassStep ==
  ASSUME ClassInv, [PlanningNext]_vars
  PROVE  ClassInv'
<1>1. setup' = setup BY SetupStays
<1>2. CASE Construct BY <1>1, <1>2 DEF ClassInv, Construct
<1>3. CASE UNCHANGED class /\ (phase' # "start" => phase # "start")
  BY <1>1, <1>3 DEF ClassInv
<1> QED
  BY <1>2, <1>3 DEF PlanningNext, PreparationNext, PlanStep, UseDirectPath,
     DeriveBranch, TryBranch, LoadLibrary, Ask, AskAvailable, BeginConvert,
     Convert, Decline, ConvertRaises, preparationVars, vars

(* The event has the class of the longest registered name that its type    *)
(* starts with, for any names: dotted_startswith compares characters.      *)
THEOREM ClassIsMostSpecific == PlanningSpec => []MostSpecificClass
<1>1. PlanningInit => ClassInv BY DEF PlanningInit, PreparationInit, ClassInv
<1>2. ClassInv /\ [PlanningNext]_vars => ClassInv' BY ClassStep
<1>3. ASSUME ClassInv PROVE MostSpecificClass
  <2> DEFINE starts == {r \in setup.registered : IsPrefix(r, setup.type)}
  <2>1. SUFFICES ASSUME phase # "start"
                 PROVE  IF starts = {} THEN class = NoClass
                        ELSE class \in starts /\ \A r \in starts : Len(r) <= Len(class)
    BY DEF MostSpecificClass
  <2>2. setup.type \in Name /\ setup.registered \in SUBSET Name
    BY <1>3, SetupIsOK DEF ClassInv, SetupOK, Name
  <2>3. starts = {r \in setup.registered : StartsWith(setup.type, r)} BY DEF StartsWith
  <2>4. class = GetClass(setup.type, setup.registered) BY <1>3, <2>1 DEF ClassInv
  <2> HIDE DEF starts
  <2> QED BY <2>2, <2>3, <2>4, ClassIsLongest
<1> QED BY <1>1, <1>2, <1>3, PTL DEF PlanningSpec, vars

----------------------------------------------------------------------------
(* The branch of the library *)

(* Branch i is the name without its last i - 1 parts; those tried so far   *)
(* failed, but for the one that was cloned.                                *)
BranchesInv ==
  /\ branches \in Seq(Seq(STRING))
  /\ phase \notin {"start"} => Len(branches) > 0
  /\ \A i \in DOMAIN branches :
       Len(branches[i]) = Len(setup.branch) + 1 - i /\ IsPrefix(branches[i], setup.branch)

TriedInv ==
  /\ tried \in Seq({"cloned", "failed"}) /\ Len(tried) <= Len(branches)
  /\ phase = "start" => branches = <<>>
  /\ phase \in {"start", "clone"} =>
       branch = <<>> /\ \A i \in DOMAIN tried : tried[i] = "failed"
  /\ branch # <<>> =>
       /\ Len(tried) > 0
       /\ branch = branches[Len(tried)] /\ branch \in setup.existing
       /\ \A i \in DOMAIN tried : i < Len(tried) => tried[i] = "failed"

BranchInv == setup \in Setups /\ BranchesInv /\ TriedInv

LEMMA BranchNames ==
  ASSUME BranchInv
  PROVE  setup.branch \in Seq(STRING) /\ setup.existing \subseteq Seq(STRING)
<1>1. SetupOK(setup) BY SetupIsOK DEF BranchInv
<1> QED BY <1>1, Zenon DEF SetupOK

(* Cutting one part off.                                                   *)
LEMMA FrontIsPrefix ==
  ASSUME NEW A, NEW t \in Seq(A), NEW s \in Seq(A), Len(s) > 1, IsPrefix(s, t)
  PROVE  /\ Front(s) \in Seq(A)
         /\ Len(Front(s)) = Len(s) - 1
         /\ IsPrefix(Front(s), t)
<1>1. Len(s) \in Nat /\ \A i \in 1..(Len(s) - 1) : s[i] \in A OBVIOUS
<1>2. /\ Front(s) \in Seq(A)
      /\ Len(Front(s)) = Len(s) - 1
      /\ \A i \in 1..(Len(s) - 1) : Front(s)[i] = s[i]
  <2> DEFINE n == Len(s) - 1
  <2>1. n \in Int /\ 1 <= n BY <1>1
  <2>2. /\ SubSeq(s, 1, n) \in Seq(A)
        /\ Len(SubSeq(s, 1, n)) = n - 1 + 1
        /\ \A i \in 1..(n - 1 + 1) : SubSeq(s, 1, n)[i] = s[1 + i - 1]
    BY <1>1, <2>1, SubSeqProperties
  <2> QED BY <1>1, <2>1, <2>2 DEF Front
<1>3. Len(s) <= Len(t) /\ \A i \in 1..Len(s) : s[i] = t[i] BY PrefixDef
<1>4. Len(t) \in Nat /\ \A i \in 1..(Len(s) - 1) : i \in 1..Len(s) BY <1>1
<1>5. Len(Front(s)) <= Len(t) BY <1>1, <1>2, <1>3, <1>4
<1>6. \A i \in 1..Len(Front(s)) : Front(s)[i] = t[i] BY <1>2, <1>3, <1>4
<1>7. IsPrefix(Front(s), t) BY <1>2, <1>5, <1>6, PrefixDef
<1> QED BY <1>2, <1>7

LEMMA ConstructBranch ==
  ASSUME BranchInv, setup' = setup, Construct
  PROVE  BranchInv'
<1>1. setup.branch \in Seq(STRING) BY BranchNames
<1>2. /\ branches' = <<setup.branch>> /\ tried' = tried /\ branch' = branch
      /\ phase = "start" /\ phase' = "clone"
  BY DEF Construct
<1>3. IsPrefix(setup.branch, setup.branch) BY <1>1, PrefixDef
<1>4. /\ branches' \in Seq(Seq(STRING)) /\ Len(branches') = 1
      /\ DOMAIN branches' = {1} /\ branches'[1] = setup.branch
  BY <1>1, <1>2
<1>5. BranchesInv' BY <1>1, <1>3, <1>4 DEF BranchesInv
<1>6. TriedInv' BY <1>2, <1>4 DEF BranchInv, TriedInv
<1> QED BY <1>5, <1>6 DEF BranchInv

LEMMA DeriveBranchOK ==
  ASSUME BranchInv, setup' = setup, DeriveBranch
  PROVE  BranchInv'
<1> DEFINE n == Len(branches)
           last == branches[n]
<1>1. /\ branches \in Seq(Seq(STRING)) /\ n \in Nat /\ n > 0
      /\ setup.branch \in Seq(STRING)
  <2>1. branches \in Seq(Seq(STRING)) /\ Len(branches) > 0
    BY DEF BranchInv, BranchesInv, DeriveBranch
  <2> QED BY <2>1, BranchNames
<1>2. /\ last \in Seq(STRING) /\ Len(last) = Len(setup.branch) + 1 - n
      /\ IsPrefix(last, setup.branch) /\ Len(last) > 1
  <2>1. n \in DOMAIN branches /\ last \in Seq(STRING) BY <1>1
  <2>2. Len(last) > 1 BY DEF DeriveBranch, MayCut, Last
  <2> QED BY <1>1, <2>1, <2>2 DEF BranchInv, BranchesInv
<1>3. /\ Front(last) \in Seq(STRING)
      /\ Len(Front(last)) = Len(last) - 1
      /\ IsPrefix(Front(last), setup.branch)
  BY <1>1, <1>2, FrontIsPrefix
<1>4. branches' = Append(branches, Front(last)) BY DEF DeriveBranch, Shorter, Last
<1>5. /\ branches' \in Seq(Seq(STRING)) /\ Len(branches') = n + 1
      /\ \A i \in 1..n : branches'[i] = branches[i]
      /\ branches'[n + 1] = Front(last)
  BY <1>1, <1>3, <1>4, AppendProperties
<1>6. phase' = phase /\ phase = "clone" /\ tried' = tried /\ branch' = branch
  BY DEF DeriveBranch
<1>7. BranchesInv'
  <2>1. ASSUME NEW i \in DOMAIN branches'
        PROVE  /\ Len(branches'[i]) = Len(setup.branch) + 1 - i
               /\ IsPrefix(branches'[i], setup.branch)
    <3>1. i \in 1..(n + 1) BY <1>5, <2>1
    <3>2. CASE i \in 1..n
      <4>1. i \in DOMAIN branches BY <1>1, <3>2
      <4> QED BY <1>5, <3>2, <4>1 DEF BranchInv, BranchesInv
    <3>3. CASE i = n + 1
      <4>1. branches'[i] = Front(last) BY <1>5, <3>3
      <4>2. Len(setup.branch) \in Nat BY <1>1
      <4> HIDE DEF n, last
      <4>3. Len(Front(last)) = Len(last) - 1 /\ Len(last) = Len(setup.branch) + 1 - n
        BY <1>2, <1>3
      <4>4. Len(Front(last)) = Len(setup.branch) + 1 - i
        <5> DEFINE N == Len(setup.branch)
                   l == Len(last)
        <5>1. N \in Nat /\ n \in Nat /\ i = n + 1 /\ l = N + 1 - n
          BY <1>1, <3>3, <4>2, <4>3
        <5> HIDE DEF N, l
        <5>2. l - 1 = N + 1 - i BY <5>1
        <5> QED BY <4>3, <5>2 DEF N, l
      <4> QED BY <1>3, <4>1, <4>4
    <3> QED BY <1>1, <3>1, <3>2, <3>3
  <2> QED BY <1>1, <1>5, <2>1 DEF BranchesInv
<1>8. TriedInv' BY <1>1, <1>5, <1>6 DEF BranchInv, TriedInv
<1> QED BY <1>7, <1>8 DEF BranchInv

LEMMA TryBranchOK ==
  ASSUME BranchInv, setup' = setup, TryBranch
  PROVE  BranchInv'
<1> DEFINE k == Len(tried) + 1
<1>1. /\ tried \in Seq({"cloned", "failed"}) /\ Len(tried) \in Nat
      /\ branches \in Seq(Seq(STRING)) /\ Len(branches) \in Nat
      /\ phase = "clone" /\ branches' = branches /\ k <= Len(branches)
      /\ branch = <<>> /\ \A i \in DOMAIN tried : tried[i] = "failed"
  <2>1. /\ tried \in Seq({"cloned", "failed"}) /\ branches \in Seq(Seq(STRING))
        /\ phase = "clone" /\ branches' = branches
        /\ Len(tried) < Len(branches)
    BY DEF BranchInv, TriedInv, BranchesInv, TryBranch
  <2>2. branch = <<>> /\ \A i \in DOMAIN tried : tried[i] = "failed"
    BY <2>1 DEF BranchInv, TriedInv
  <2>3. Len(tried) \in Nat /\ Len(branches) \in Nat BY <2>1
  <2> QED BY <2>1, <2>2, <2>3
<1>2. phase' \in {"clone", "load", "not found"} BY <1>1 DEF TryBranch
<1>3. BranchesInv' BY <1>1, <1>2 DEF BranchInv, BranchesInv
<1>4. ASSUME NEW r \in {"cloned", "failed"}
      PROVE  /\ Append(tried, r) \in Seq({"cloned", "failed"})
             /\ Len(Append(tried, r)) = k
             /\ \A i \in 1..Len(tried) : Append(tried, r)[i] = "failed"
             /\ Append(tried, r)[k] = r
             /\ DOMAIN Append(tried, r) = 1..k
  BY <1>1, AppendProperties
<1>5. CASE /\ branches[k] \in setup.existing
           /\ branch' = branches[k] /\ tried' = Append(tried, "cloned")
           /\ phase' = "load"
  <2>1. /\ tried' \in Seq({"cloned", "failed"}) /\ Len(tried') = k
        /\ \A i \in DOMAIN tried' : i < k => tried'[i] = "failed"
    BY <1>1, <1>4, <1>5
  <2> QED BY <1>1, <1>3, <1>5, <2>1 DEF BranchInv, TriedInv
<1>6. CASE tried' = Append(tried, "failed") /\ branch' = branch
  <2>1. /\ tried' \in Seq({"cloned", "failed"}) /\ Len(tried') = k
        /\ \A i \in DOMAIN tried' : tried'[i] = "failed"
    BY <1>1, <1>4, <1>6
  <2> QED BY <1>1, <1>2, <1>3, <1>6, <2>1 DEF BranchInv, TriedInv
<1> QED BY <1>5, <1>6 DEF TryBranch

LEMMA BranchStep ==
  ASSUME BranchInv, [PlanningNext]_vars
  PROVE  BranchInv'
<1>1. setup' = setup BY SetupStays
<1>2. CASE Construct BY <1>1, <1>2, ConstructBranch
<1>3. CASE DeriveBranch BY <1>1, <1>3, DeriveBranchOK
<1>4. CASE TryBranch BY <1>1, <1>4, TryBranchOK
<1>5. CASE /\ UNCHANGED <<branches, tried, branch>>
           /\ \/ phase' = phase
              \/ phase = "clone" /\ phase' = "load"
              \/ phase = "load" /\ phase' = "ready"
  BY <1>1, <1>5 DEF BranchInv, BranchesInv, TriedInv
<1>6. CASE UseDirectPath \/ LoadLibrary
  BY <1>5, <1>6 DEF UseDirectPath, LoadLibrary
<1>7. ASSUME NEW t \in Thread, Ask(t) PROVE BranchInv'
  BY <1>5, <1>7 DEF Ask, AskAvailable, BeginConvert, Convert, Decline, ConvertRaises,
     cloning
<1>8. CASE UNCHANGED preparationVars BY <1>5, <1>8 DEF preparationVars
<1> QED
  BY <1>2, <1>3, <1>4, <1>6, <1>7, <1>8 DEF PlanningNext, PreparationNext, vars

(* The branch that is cloned is one that the name can be cut to, and every *)
(* longer one that exists was tried before and failed.                     *)
THEOREM BranchIsLongest == PlanningSpec => []LongestBranch
<1>1. PlanningInit => BranchInv
  BY DEF PlanningInit, PreparationInit, BranchInv, BranchesInv, TriedInv
<1>2. BranchInv /\ [PlanningNext]_vars => BranchInv' BY BranchStep
<1>3. ASSUME BranchInv, branch # <<>>
      PROVE  /\ branch \in setup.existing /\ IsPrefix(branch, setup.branch)
             /\ \A b \in setup.existing :
                  IsStrictPrefix(branch, b) /\ IsPrefix(b, setup.branch) =>
                    \E i \in DOMAIN tried : branches[i] = b /\ tried[i] = "failed"
  <2> DEFINE n == Len(setup.branch)
             k == Len(tried)
  <2>1. /\ setup.branch \in Seq(STRING) /\ setup.existing \subseteq Seq(STRING)
        /\ branches \in Seq(Seq(STRING)) /\ n \in Nat /\ k \in Nat
        /\ k <= Len(branches) /\ k > 0 /\ DOMAIN tried = 1..k
        /\ DOMAIN branches = 1..Len(branches) /\ Len(branches) \in Nat
        /\ branch = branches[k] /\ branch \in setup.existing
    BY <1>3, BranchNames DEF BranchInv, BranchesInv, TriedInv
  <2>2. \A i \in 1..k : /\ branches[i] \in Seq(STRING)
                        /\ Len(branches[i]) = n + 1 - i
                        /\ IsPrefix(branches[i], setup.branch)
    <3>1. \A i \in 1..k : i \in DOMAIN branches BY <2>1
    <3>2. \A i \in 1..k : branches[i] \in Seq(STRING) BY <2>1, <3>1
    <3> QED BY <1>3, <3>1, <3>2 DEF BranchInv, BranchesInv
  <2>3. ASSUME NEW b \in setup.existing, IsStrictPrefix(branch, b),
               IsPrefix(b, setup.branch)
        PROVE  \E i \in DOMAIN tried : branches[i] = b /\ tried[i] = "failed"
    <3>1. b \in Seq(STRING) /\ branch \in Seq(STRING) BY <2>1
    <3>2. Len(branch) < Len(b) /\ Len(b) <= n /\ Len(b) \in Nat
      <4>1. IsPrefix(branch, b) /\ branch # b BY <2>3 DEF IsStrictPrefix
      <4>2. /\ Len(branch) <= Len(b) /\ \A i \in 1..Len(branch) : branch[i] = b[i]
            /\ Len(b) <= n
        BY <2>1, <2>3, <3>1, <4>1, PrefixDef
      <4>3. Len(branch) = Len(b) => branch = b BY <3>1, <4>2, SeqEqual
      <4> QED BY <3>1, <4>1, <4>2, <4>3
    <3> DEFINE j == n + 1 - Len(b)
    <3>3. j \in 1..k /\ j < k
      <4>1. Len(branch) = n + 1 - k BY <2>1, <2>2
      <4> QED BY <2>1, <3>2, <4>1
    <3>4. branches[j] = b
      <4>1. Len(branches[j]) = n + 1 - j BY <2>2, <3>3
      <4>2. n + 1 - j = Len(b) BY <2>1, <3>2
      <4>3. Len(branches[j]) = Len(b) BY <4>1, <4>2
      <4>4. branches[j] \in Seq(STRING) /\ IsPrefix(branches[j], setup.branch)
        BY <2>2, <3>3
      <4> HIDE DEF j
      <4> QED BY <2>1, <2>3, <3>1, <3>2, <4>3, <4>4, PrefixesOfOne
    <3> HIDE DEF j
    <3>5. tried[j] = "failed" BY <1>3, <2>1, <3>3 DEF BranchInv, TriedInv
    <3>6. j \in DOMAIN tried BY <2>1, <3>3
    <3> QED BY <3>4, <3>5, <3>6
  <2>4. IsPrefix(branch, setup.branch)
    <3>1. k \in 1..k BY <2>1
    <3> QED BY <2>1, <2>2, <3>1
  <2> QED BY <2>1, <2>3, <2>4
<1>4. BranchInv => LongestBranch BY <1>3 DEF LongestBranch
<1> QED BY <1>1, <1>2, <1>4, PTL DEF PlanningSpec, vars

----------------------------------------------------------------------------
(* Structures that the event converts *)

Request == {<<>>} \cup Thread \X Nat
AStructure == [name : STRING, from : STRING \cup {"event"}, made : Request]
AnAnswer == [name : STRING, kind : {"structure", "None", "exception"}, made : Request]

AskTypes ==
  /\ setup \in Setups
  /\ structures \in Seq(AStructure)
  /\ converting \subseteq Thread
  /\ toAsk \in [Thread -> Seq(STRING)]
  /\ answers \in [Thread -> Seq(AnAnswer)]
  /\ koji \in [giveUps : Nat, exception : BOOLEAN]

(* One thread at a time converts, a structure that the event does not have. *)
OneConverts ==
  /\ \A t, u \in converting : t = u
  /\ \A t \in converting : toAsk[t] # <<>> /\ Head(toAsk[t]) \notin Names

(* The structures of the event itself come first and stay. *)
OwnFirst ==
  LET own == setup.structures
  IN /\ Len(own) <= Len(structures)
     /\ \A i \in 1..Len(own) : structures[i].name = own[i]

(* Structures of one name were made for one request, and who got one of    *)
(* that name got what was made for it.                                     *)
MadeOnce ==
  /\ \A i, j \in DOMAIN structures :
       structures[i].name = structures[j].name => structures[i].made = structures[j].made
  /\ \A t \in Thread : \A n \in DOMAIN answers[t] :
       answers[t][n].kind = "structure" =>
         \E i \in DOMAIN structures :
           structures[i].name = answers[t][n].name /\ structures[i].made = answers[t][n].made

OneLookup == koji.giveUps = IF koji.exception THEN 1 ELSE 0

AskInv ==
  AskTypes /\ OneConverts /\ OwnFirst /\ MadeOnce /\ OneLookup /\ FromEvent

(* What a structure of the event was made from, as FromEvent says it. *)
OwnSource(s) ==
  s.from \notin ToSet(setup.structures) \cup {"event"} /\ s.name # "beakerCompose" =>
    \A n \in ToSet(setup.structures) :
      <<n, s.name>> \in ToMethods => n = "kstestParams" /\ ~setup.trees

(* An answer is added after those that a thread has.                       *)
LEMMA AnswerAdded ==
  ASSUME AskTypes, NEW t \in Thread, toAsk[t] # <<>>, NEW name \in STRING,
         NEW kind \in {"structure", "None", "exception"}, NEW request \in Request,
         Answered(t, name, kind, request)
  PROVE  /\ toAsk' \in [Thread -> Seq(STRING)]
         /\ answers' \in [Thread -> Seq(AnAnswer)]
         /\ \A u \in Thread \ {t} : toAsk'[u] = toAsk[u]
         /\ \A u \in Thread : \A n \in DOMAIN answers'[u] :
              \/ n \in DOMAIN answers[u] /\ answers'[u][n] = answers[u][n]
              \/ answers'[u][n] = [name |-> name, kind |-> kind, made |-> request]
<1> DEFINE a == [name |-> name, kind |-> kind, made |-> request]
<1>1. a \in AnAnswer BY DEF AnAnswer
<1>2. /\ toAsk[t] \in Seq(STRING) /\ answers[t] \in Seq(AnAnswer)
      /\ toAsk \in [Thread -> Seq(STRING)] /\ answers \in [Thread -> Seq(AnAnswer)]
  BY DEF AskTypes
<1>3. Tail(toAsk[t]) \in Seq(STRING) BY <1>2, HeadTailProperties
<1>4. /\ answers' = [answers EXCEPT ![t] = Append(@, a)]
      /\ toAsk' = [toAsk EXCEPT ![t] = Tail(@)]
  BY DEF Answered
<1> HIDE DEF a
<1>5. /\ Append(answers[t], a) \in Seq(AnAnswer)
      /\ Len(Append(answers[t], a)) = Len(answers[t]) + 1
      /\ \A n \in 1..Len(answers[t]) : Append(answers[t], a)[n] = answers[t][n]
      /\ Append(answers[t], a)[Len(answers[t]) + 1] = a
  BY <1>1, <1>2, AppendProperties
<1>6. \A n \in DOMAIN Append(answers[t], a) :
        \/ n \in DOMAIN answers[t] /\ Append(answers[t], a)[n] = answers[t][n]
        \/ Append(answers[t], a)[n] = a
  <2> DEFINE l == Len(answers[t])
             new == Append(answers[t], a)
  <2>1. l \in Nat /\ DOMAIN answers[t] = 1..l BY <1>2
  <2>2. DOMAIN new = 1..(l + 1) BY <1>5
  <2>3. /\ \A n \in 1..l : new[n] = answers[t][n]
        /\ new[l + 1] = a
    BY <1>5
  <2> HIDE DEF l, new
  <2>4. \A n \in 1..(l + 1) : n \in 1..l \/ n = l + 1 BY <2>1
  <2>5. \A n \in DOMAIN new : (n \in DOMAIN answers[t] /\ new[n] = answers[t][n]) \/ new[n] = a
    BY <2>1, <2>2, <2>3, <2>4
  <2> QED BY <2>5 DEF new
<1>7. answers' \in [Thread -> Seq(AnAnswer)] /\ answers'[t] = Append(answers[t], a)
      /\ \A u \in Thread \ {t} : answers'[u] = answers[u]
  BY <1>2, <1>4, <1>5
<1>8. toAsk' \in [Thread -> Seq(STRING)] /\ \A u \in Thread \ {t} : toAsk'[u] = toAsk[u]
  BY <1>2, <1>3, <1>4
<1>9. ASSUME NEW u \in Thread, NEW n \in DOMAIN answers'[u]
      PROVE  \/ n \in DOMAIN answers[u] /\ answers'[u][n] = answers[u][n]
             \/ answers'[u][n] = a
  <2>1. CASE u = t BY <1>6, <1>7, <1>9, <2>1
  <2>2. CASE u # t BY <1>7, <1>9, <2>2
  <2> QED BY <2>1, <2>2
<1> QED BY <1>7, <1>8, <1>9 DEF a

(* The steps that leave the structures alone, as far as MadeOnce and       *)
(* OneConverts go.                                                         *)
LEMMA AnswerKeepsInv ==
  ASSUME AskInv, NEW t \in Thread, toAsk[t] # <<>>, NEW name \in STRING,
         NEW kind \in {"structure", "None", "exception"}, NEW request \in Request,
         Answered(t, name, kind, request),
         kind = "structure" => \E i \in DOMAIN structures :
           structures[i].name = name /\ structures[i].made = request,
         converting' \subseteq converting \ {t},
         structures' = structures, setup' = setup,
         koji' \in [giveUps : Nat, exception : BOOLEAN], OneLookup'
  PROVE  AskInv'
<1>1. /\ toAsk' \in [Thread -> Seq(STRING)]
      /\ answers' \in [Thread -> Seq(AnAnswer)]
      /\ \A u \in Thread \ {t} : toAsk'[u] = toAsk[u]
      /\ \A u \in Thread : \A n \in DOMAIN answers'[u] :
           \/ n \in DOMAIN answers[u] /\ answers'[u][n] = answers[u][n]
           \/ answers'[u][n] = [name |-> name, kind |-> kind, made |-> request]
  BY AnswerAdded DEF AskInv
<1>2. AskTypes' BY <1>1 DEF AskInv, AskTypes
<1>3. OneConverts'
  <2>1. \A u \in converting' : u \in converting /\ toAsk'[u] = toAsk[u]
    BY <1>1 DEF AskInv, AskTypes
  <2>2. Names' = Names BY DEF Names
  <2> QED BY <2>1, <2>2 DEF AskInv, OneConverts
<1>4. MadeOnce'
  <2>1. \A u \in Thread : \A n \in DOMAIN answers[u] :
          answers[u][n].kind = "structure" =>
            \E i \in DOMAIN structures :
              structures[i].name = answers[u][n].name /\ structures[i].made = answers[u][n].made
    BY DEF AskInv, MadeOnce
  <2>2. ASSUME NEW u \in Thread, NEW n \in DOMAIN answers'[u],
               answers'[u][n].kind = "structure"
        PROVE  \E i \in DOMAIN structures :
                 structures[i].name = answers'[u][n].name
                   /\ structures[i].made = answers'[u][n].made
    <3> DEFINE Has(a) == \E i \in DOMAIN structures :
                           structures[i].name = a.name /\ structures[i].made = a.made
               new == [name |-> name, kind |-> kind, made |-> request]
    <3>1. kind = "structure" => Has(new) OBVIOUS
    <3>2. new.kind = kind OBVIOUS
    <3>3. \A k \in DOMAIN answers[u] : answers[u][k].kind = "structure" => Has(answers[u][k])
      BY <2>1
    <3>4. \/ n \in DOMAIN answers[u] /\ answers'[u][n] = answers[u][n]
          \/ answers'[u][n] = new
      BY <1>1
    <3>5. SUFFICES Has(answers'[u][n]) OBVIOUS
    <3> HIDE DEF Has, new
    <3> QED BY <2>2, <3>1, <3>2, <3>3, <3>4
  <2> QED BY <2>2 DEF AskInv, MadeOnce
<1>5. OwnFirst' /\ FromEvent' BY DEF AskInv, OwnFirst, FromEvent
<1> QED BY <1>2, <1>3, <1>4, <1>5 DEF AskInv

(* A structure is made from one of the event's own if one of them has a    *)
(* method for it that does not decline.                                    *)
LEMMA MadeFromOwn ==
  ASSUME AskInv, NEW name \in STRING, name \notin Names, NEW m \in Decisive(name)
  PROVE  /\ m[1] \in STRING
         /\ \A request : OwnSource(Structure(name, m[1], request))
<1> DEFINE own == setup.structures
           S == {c \in Methods(name) : Outcomes(MethodOf(c, name)) # {"declines"}}
           First(c) == \A d \in S : c[1] < d[1] \/ (c[1] = d[1] /\ c[2] <= d[2])
<1>1. PICK c \in S : First(c) /\ m = MethodOf(c, name) BY DEF Decisive
<1>2. /\ c \in {1, 2} \X DOMAIN structures
      /\ MethodOf(c, name) \in <<FromMethods, ToMethods>>[c[1]]
  BY <1>1 DEF Methods
<1>3. m = <<structures[c[2]].name, name>> /\ c[1] \in {1, 2} /\ c[2] \in DOMAIN structures
  BY <1>1, <1>2 DEF MethodOf
<1>4. structures \in Seq(AStructure) /\ own \in Seq(STRING)
  BY SetupIsOK DEF AskInv, AskTypes, SetupOK
<1>5. m[1] \in STRING
  <2>1. structures[c[2]] \in AStructure BY <1>3, <1>4
  <2>2. structures[c[2]].name \in STRING BY <2>1 DEF AStructure
  <2> QED BY <1>3, <2>2
<1>6. SUFFICES ASSUME m[1] \notin ToSet(own) \cup {"event"}, name # "beakerCompose",
                      NEW n \in ToSet(own), <<n, name>> \in ToMethods
               PROVE  n = "kstestParams" /\ ~setup.trees
  <2> HIDE DEF own
  <2> QED BY <1>5, <1>6 DEF OwnSource, Structure, own
<1>7. PICK j \in DOMAIN own : own[j] = n BY DEF ToSet
<1>8. /\ \A i \in 1..Len(own) : structures[i].name = own[i]
      /\ Len(own) <= Len(structures) /\ DOMAIN own = 1..Len(own)
      /\ DOMAIN structures = 1..Len(structures)
      /\ Len(own) \in Nat /\ Len(structures) \in Nat
  BY <1>4 DEF AskInv, OwnFirst
<1> HIDE DEF own
<1>9. j \in DOMAIN structures /\ structures[j].name = n BY <1>7, <1>8
<1>10. <<2, j>> \in Methods(name) /\ MethodOf(<<2, j>>, name) = <<n, name>>
  BY <1>6, <1>9 DEF Methods, MethodOf
<1>11. c[1] = 2 /\ m \in ToMethods
  <2>1. CASE c[1] = 1
    <3>1. m \in FromMethods BY <1>1, <1>2, <2>1
    <3>2. name \in {"beakerCompose", "InstallationSource"}
      BY <1>3, <3>1 DEF FromMethods, BeakerComposeFrom, InstallationSourceFrom
    <3>3. <<n, "InstallationSource">> \notin ToMethods
      BY DEF ToMethods, KojiBuildTo, ComposeTo, KstestParamsTo
    <3> QED BY <1>6, <3>2, <3>3
  <2>2. CASE c[1] = 2 BY <1>1, <1>2, <2>2
  <2> QED BY <1>3, <2>1, <2>2
<1>12. Outcomes(<<n, name>>) = {"declines"}
  <2>1. SUFFICES ASSUME Outcomes(<<n, name>>) # {"declines"} PROVE FALSE OBVIOUS
  <2>2. <<2, j>> \in S BY <1>10, <2>1
  <2> HIDE DEF S
  <2>3. c[2] <= j BY <1>1, <1>11, <2>2
  <2>4. c[2] \in DOMAIN own BY <1>3, <1>7, <1>8, <2>3
  <2>5. m[1] = own[c[2]] BY <1>3, <1>8, <2>4
  <2> QED BY <1>6, <2>4, <2>5 DEF ToSet
<1>13. CASE LooksUp(<<n, name>>)
  <2>1. name = "compose" /\ n = "koji_build"
    <3>1. <<n, name>> = <<"koji_build", "compose">> BY <1>6, <1>13 DEF LooksUp
    <3> QED BY <3>1
  <2>2. m[1] = "koji_build"
    BY <1>3, <1>11, <2>1 DEF ToMethods, KojiBuildTo, ComposeTo, KstestParamsTo
  <2> QED BY <1>6, <2>1, <2>2
<1>14. CASE ~LooksUp(<<n, name>>)
  <2>1. CASE n = "kstestParams" BY <1>12, <1>14, <2>1 DEF Outcomes
  <2>2. CASE n # "kstestParams"
    <3>1. Outcomes(<<n, name>>) = {"made", "raises"} BY <1>14, <2>2 DEF Outcomes
    <3> QED BY <1>12, <3>1
  <2> QED BY <2>1, <2>2
<1> QED BY <1>13, <1>14

(* The structure that was made comes after those that the event has.       *)
LEMMA ConvertKeeps ==
  ASSUME AskInv, NEW t \in Thread, Convert(t)
  PROVE  AskInv'
<1> DEFINE name == Head(toAsk[t])
           request == <<t, Len(answers[t])>>
           own == setup.structures
<1>1. /\ t \in converting /\ toAsk[t] # <<>> /\ name \notin Names
      /\ toAsk[t] \in Seq(STRING) /\ answers[t] \in Seq(AnAnswer)
      /\ structures \in Seq(AStructure) /\ own \in Seq(STRING)
  BY SetupIsOK DEF Convert, AskInv, AskTypes, OneConverts, SetupOK
<1>2. name \in STRING /\ request \in Request
  BY <1>1, HeadTailProperties DEF Request
<1>3. PICK m \in Decisive(name) :
        /\ structures' = Append(structures, Structure(name, m[1], request))
        /\ Answered(t, name, "structure", request)
  BY DEF Convert, Kept, Structure
<1>4. m[1] \in STRING /\ OwnSource(Structure(name, m[1], request))
  BY <1>1, <1>2, MadeFromOwn
<1> DEFINE s == Structure(name, m[1], request)
           l == Len(structures)
<1>5. s \in AStructure /\ s.name = name /\ s.made = request
  BY <1>2, <1>4 DEF Structure, AStructure
<1>6. /\ toAsk' \in [Thread -> Seq(STRING)]
      /\ answers' \in [Thread -> Seq(AnAnswer)]
      /\ \A u \in Thread : \A n \in DOMAIN answers'[u] :
           \/ n \in DOMAIN answers[u] /\ answers'[u][n] = answers[u][n]
           \/ answers'[u][n] = [name |-> name, kind |-> "structure", made |-> request]
  <2> HIDE DEF name, request
  <2> QED BY <1>1, <1>2, <1>3, AnswerAdded DEF AskInv
<1>7. setup' = setup /\ koji' = koji /\ converting' = {}
  BY <1>1 DEF Convert, AskInv, OneConverts
<1> HIDE DEF name, request, s
<1>8. /\ structures' \in Seq(AStructure) /\ Len(structures') = l + 1
      /\ \A i \in 1..l : structures'[i] = structures[i]
      /\ structures'[l + 1] = s
  BY <1>1, <1>3, <1>5, AppendProperties DEF s
<1>9. /\ l \in Nat /\ DOMAIN structures = 1..l /\ DOMAIN structures' = 1..(l + 1)
  BY <1>1, <1>8
<1> HIDE DEF l
<1>10. /\ l + 1 \in DOMAIN structures' /\ structures'[l + 1] = s
       /\ \A i \in DOMAIN structures : i \in DOMAIN structures' /\ structures'[i] = structures[i]
       /\ \A i \in DOMAIN structures' : i \in DOMAIN structures \/ structures'[i] = s
  <2>1. \A i \in 1..(l + 1) : i \in 1..l \/ i = l + 1 BY <1>9
  <2>2. \A i \in 1..l : i \in 1..(l + 1) BY <1>9
  <2>3. l + 1 \in 1..(l + 1) BY <1>9
  <2> QED BY <1>8, <1>9, <2>1, <2>2, <2>3
<1>11. AskTypes' BY <1>6, <1>7, <1>8 DEF AskInv, AskTypes
<1>12. OneConverts' /\ OneLookup' BY <1>7 DEF OneConverts, AskInv, OneLookup
<1>13. OwnFirst'
  <2>1. Len(own) <= l /\ Len(own) \in Nat /\ \A i \in 1..Len(own) : structures[i].name = own[i]
    BY <1>1 DEF AskInv, OwnFirst, l
  <2>2. Len(own) <= Len(structures') BY <1>8, <1>9, <2>1
  <2>3. \A i \in 1..Len(own) : i \in 1..l BY <1>9, <2>1
  <2>4. \A i \in 1..Len(own) : structures'[i].name = own[i] BY <1>8, <2>1, <2>3
  <2>5. setup'.structures = own BY <1>7
  <2> HIDE DEF own
  <2> QED BY <2>2, <2>4, <2>5 DEF OwnFirst
<1>14. MadeOnce'
  <2>1. \A i \in DOMAIN structures : structures[i].name # name BY <1>1 DEF Names
  <2>2. ASSUME NEW i \in DOMAIN structures', NEW j \in DOMAIN structures',
               structures'[i].name = structures'[j].name
        PROVE  structures'[i].made = structures'[j].made
    <3>1. \A k \in DOMAIN structures : structures'[k].name # name BY <1>10, <2>1
    <3>2. CASE i \in DOMAIN structures /\ j \in DOMAIN structures
      BY <1>10, <2>2, <3>2 DEF AskInv, MadeOnce
    <3>3. CASE i \in DOMAIN structures /\ structures'[j] = s BY <1>5, <2>2, <3>1, <3>3
    <3>4. CASE structures'[i] = s /\ j \in DOMAIN structures BY <1>5, <2>2, <3>1, <3>4
    <3>5. CASE structures'[i] = s /\ structures'[j] = s BY <3>5
    <3> QED BY <1>10, <3>2, <3>3, <3>4, <3>5
  <2>3. ASSUME NEW u \in Thread, NEW n \in DOMAIN answers'[u],
               answers'[u][n].kind = "structure"
        PROVE  \E i \in DOMAIN structures' :
                 structures'[i].name = answers'[u][n].name
                   /\ structures'[i].made = answers'[u][n].made
    <3>1. CASE n \in DOMAIN answers[u] /\ answers'[u][n] = answers[u][n]
      <4>1. answers[u][n].kind = "structure" BY <2>3, <3>1
      <4>2. PICK i \in DOMAIN structures :
              structures[i].name = answers[u][n].name /\ structures[i].made = answers[u][n].made
        BY <3>1, <4>1 DEF AskInv, MadeOnce
      <4> QED BY <1>10, <3>1, <4>2
    <3>2. CASE answers'[u][n] = [name |-> name, kind |-> "structure", made |-> request]
      <4>1. answers'[u][n].name = name /\ answers'[u][n].made = request BY <3>2
      <4> QED BY <1>5, <1>10, <4>1
    <3> QED BY <1>6, <3>1, <3>2
  <2> QED BY <2>2, <2>3 DEF MadeOnce
<1>15. FromEvent'
  <2>1. \A i \in DOMAIN structures : OwnSource(structures[i])
    BY DEF AskInv, FromEvent, OwnSource
  <2>2. OwnSource(s) BY <1>4 DEF s
  <2>3. \A i \in DOMAIN structures' : OwnSource(structures'[i]) BY <1>10, <2>1, <2>2
  <2>4. setup' = setup BY <1>7
  <2> QED BY <2>3, <2>4 DEF FromEvent, OwnSource
<1> QED BY <1>11, <1>12, <1>13, <1>14, <1>15 DEF AskInv

(* Everything else that a thread does when it asks.                        *)
LEMMA AskKeeps ==
  ASSUME AskInv, NEW t \in Thread, Ask(t)
  PROVE  AskInv'
<1>1. /\ toAsk[t] \in Seq(STRING) /\ structures \in Seq(AStructure)
      /\ toAsk[t] # <<>> => Head(toAsk[t]) \in STRING
  BY HeadTailProperties DEF AskInv, AskTypes
<1>2. <<>> \in Request BY DEF Request
<1>3. CASE AskAvailable(t)
  <2>1. PICK i \in DOMAIN structures :
          /\ structures[i].name = Head(toAsk[t])
          /\ Answered(t, structures[i].name, "structure", structures[i].made)
    BY <1>3 DEF AskAvailable
  <2>2. structures[i] \in AStructure BY <1>1
  <2>3. structures[i].name \in STRING /\ structures[i].made \in Request
    BY <2>2 DEF AStructure
  <2>4. /\ toAsk[t] # <<>> /\ converting' = converting /\ converting = {}
        /\ structures' = structures /\ setup' = setup /\ koji' = koji
    BY <1>3 DEF AskAvailable, MayConvert
  <2>5. koji' \in [giveUps : Nat, exception : BOOLEAN] /\ OneLookup'
    BY <2>4 DEF AskInv, AskTypes, OneLookup
  <2>6. converting' \subseteq converting \ {t} BY <2>4
  <2> DEFINE name == structures[i].name
             request == structures[i].made
  <2>7. name \in STRING /\ request \in Request /\ Answered(t, name, "structure", request)
        /\ \E k \in DOMAIN structures : structures[k].name = name /\ structures[k].made = request
    BY <2>1, <2>3
  <2> HIDE DEF name, request
  <2> QED BY <2>4, <2>5, <2>6, <2>7, AnswerKeepsInv
<1>4. CASE BeginConvert(t)
  <2>1. /\ converting' = {t} /\ toAsk' = toAsk /\ toAsk[t] # <<>>
        /\ Head(toAsk[t]) \notin Names /\ answers' = answers
        /\ structures' = structures /\ setup' = setup /\ koji' = koji
    BY <1>4 DEF BeginConvert, MayConvert
  <2>2. Names' = Names BY <2>1 DEF Names
  <2>3. OneConverts' BY <2>1, <2>2 DEF OneConverts
  <2> QED
    BY <2>1, <2>3 DEF AskInv, AskTypes, OwnFirst, MadeOnce, OneLookup, FromEvent
<1>5. CASE Convert(t) BY <1>5, ConvertKeeps
<1>6. CASE Decline(t)
  <2>1. /\ t \in converting /\ toAsk[t] # <<>> /\ converting' = converting \ {t}
        /\ Answered(t, Head(toAsk[t]), "None", <<>>)
        /\ structures' = structures /\ setup' = setup /\ koji' = koji
    BY <1>6 DEF Decline, AskInv, OneConverts
  <2>2. koji' \in [giveUps : Nat, exception : BOOLEAN] /\ OneLookup'
    BY <2>1 DEF AskInv, AskTypes, OneLookup
  <2> QED BY <1>1, <1>2, <2>1, <2>2, AnswerKeepsInv
<1>7. CASE ConvertRaises(t)
  <2>1. /\ t \in converting /\ toAsk[t] # <<>> /\ converting' = converting \ {t}
        /\ Answered(t, Head(toAsk[t]), "exception", <<>>)
        /\ structures' = structures /\ setup' = setup
    BY <1>7 DEF ConvertRaises, AskInv, OneConverts
  <2>2. \/ koji' = koji
        \/ ~koji.exception /\ koji' = [koji EXCEPT !.giveUps = @ + 1, !.exception = TRUE]
    BY <1>7 DEF ConvertRaises, GivesUp
  <2>3. koji' \in [giveUps : Nat, exception : BOOLEAN] /\ OneLookup'
    <3>1. koji \in [giveUps : Nat, exception : BOOLEAN] /\ OneLookup
      BY DEF AskInv, AskTypes
    <3>2. CASE koji' = koji BY <3>1, <3>2 DEF OneLookup
    <3>3. CASE ~koji.exception /\ koji' = [koji EXCEPT !.giveUps = @ + 1, !.exception = TRUE]
      <4>1. koji.giveUps = 0 BY <3>1, <3>3 DEF OneLookup
      <4> DEFINE once == [koji EXCEPT !.giveUps = @ + 1]
      <4>2. once \in [giveUps : Nat, exception : BOOLEAN] /\ once.giveUps = 1
        BY <3>1, <4>1
      <4>3. koji' = [once EXCEPT !.exception = TRUE] BY <3>3
      <4> HIDE DEF once
      <4>4. koji' \in [giveUps : Nat, exception : BOOLEAN]
              /\ koji'.giveUps = 1 /\ koji'.exception
        BY <4>2, <4>3
      <4> QED BY <4>4 DEF OneLookup
    <3> QED BY <2>2, <3>2, <3>3
  <2> QED BY <1>1, <1>2, <2>1, <2>3, AnswerKeepsInv
<1> QED BY <1>3, <1>4, <1>5, <1>6, <1>7 DEF Ask

LEMMA AskStep ==
  ASSUME AskInv, [PlanningNext]_vars
  PROVE  AskInv'
<1>1. CASE setup' = setup /\ UNCHANGED asking
  BY <1>1 DEF asking, AskInv, AskTypes, OneConverts, Names, OwnFirst, MadeOnce, OneLookup,
     FromEvent
<1>2. CASE \E t \in Thread : Ask(t) BY <1>2, AskKeeps
<1> QED
  BY <1>1, <1>2 DEF PlanningNext, PreparationNext, PlanStep, Construct, UseDirectPath,
     DeriveBranch, TryBranch, LoadLibrary, preparationVars, vars, asking

(* Whoever asks the event for a structure, and when, gets what was made    *)
(* for the first who did; it was made from the event's own structures if   *)
(* one of them can be converted; and a lookup that gave up is not repeated. *)
THEOREM StructuresAreFixed == PlanningSpec => []StructuresFixed
<1>1. PlanningInit => AskInv
  <2> SUFFICES ASSUME PlanningInit PROVE AskInv OBVIOUS
  <2> DEFINE own == setup.structures
  <2>1. own \in Seq(STRING) /\ setup \in Setups /\ setup.asks \in [Thread -> Seq(STRING)]
    BY SetupIsOK DEF PlanningInit, PreparationInit, SetupOK
  <2>2. /\ structures = [i \in DOMAIN own |-> Structure(own[i], "event", <<>>)]
        /\ converting = {} /\ toAsk = setup.asks /\ answers = [t \in Thread |-> <<>>]
        /\ koji = [giveUps |-> 0, exception |-> FALSE]
    BY DEF PlanningInit, PreparationInit
  <2> HIDE DEF own
  <2>3. /\ Len(own) \in Nat /\ DOMAIN own = 1..Len(own)
        /\ \A i \in DOMAIN own : Structure(own[i], "event", <<>>) \in AStructure
    BY <2>1 DEF Structure, AStructure, Request
  <2>4. structures \in Seq(AStructure) /\ Len(structures) = Len(own)
        /\ DOMAIN structures = 1..Len(own)
    BY <2>2, <2>3
  <2>5. \A i \in DOMAIN structures :
          structures[i].name = own[i] /\ structures[i].made = <<>>
            /\ structures[i].from = "event"
    BY <2>2 DEF Structure
  <2>6. AskTypes BY <2>1, <2>2, <2>4 DEF AskTypes
  <2>7. OneConverts /\ OneLookup BY <2>2 DEF OneConverts, OneLookup
  <2>8. OwnFirst BY <2>3, <2>4, <2>5 DEF OwnFirst, own
  <2>9. MadeOnce BY <2>2, <2>5 DEF MadeOnce
  <2>10. FromEvent BY <2>5 DEF FromEvent
  <2> QED BY <2>6, <2>7, <2>8, <2>9, <2>10 DEF AskInv
<1>2. AskInv /\ [PlanningNext]_vars => AskInv' BY AskStep
<1>3. AskInv => StructuresFixed
  <2> SUFFICES ASSUME AskInv PROVE OneStructure /\ koji.giveUps <= 1
    BY DEF AskInv, StructuresFixed
  <2>1. \A a \in UNION {ToSet(answers[t]) : t \in Thread} : a.kind = "structure" =>
          \E i \in DOMAIN structures :
            structures[i].name = a.name /\ structures[i].made = a.made
    BY DEF ToSet, AskInv, MadeOnce
  <2>2. OneStructure
    <3> DEFINE Given == UNION {ToSet(answers[t]) : t \in Thread}
    <3>1. SUFFICES ASSUME NEW a \in Given, NEW b \in Given, a.name = b.name,
                          a.kind = "structure", b.kind = "structure"
                   PROVE  a.made = b.made
      BY DEF OneStructure
    <3> HIDE DEF Given
    <3>2. PICK i \in DOMAIN structures :
            structures[i].name = a.name /\ structures[i].made = a.made
      BY <2>1, <3>1 DEF Given
    <3>3. PICK j \in DOMAIN structures :
            structures[j].name = b.name /\ structures[j].made = b.made
      BY <2>1, <3>1 DEF Given
    <3> QED BY <3>1, <3>2, <3>3 DEF AskInv, MadeOnce
  <2> QED BY <2>2 DEF AskInv, OneLookup
<1> QED BY <1>1, <1>2, <1>3, PTL DEF PlanningSpec, vars

----------------------------------------------------------------------------
(* Folds: what FoldLeft and FlattenSeq compute.                            *)

(* Induction over the numbers, as a fact about a set.                      *)
LEMMA SetInduction ==
  ASSUME NEW S, 0 \in S, \A n \in Nat : n \in S => n + 1 \in S
  PROVE  Nat \subseteq S
<1> DEFINE T == {n \in Nat : n \notin S}
           Less == OpToRel(<, Nat)
<1>1. \A m, n \in Nat : <<m, n>> \in Less <=> m < n BY DEF OpToRel
<1>2. IsWellFoundedOn(Less, Nat) BY NatLessThanWellFounded
<1> HIDE DEF Less
<1>3. SUFFICES ASSUME T # {} PROVE FALSE OBVIOUS
<1>4. PICK n \in T : \A m \in T : ~ (<<m, n>> \in Less)
  <2>1. T \subseteq Nat OBVIOUS
  <2> HIDE DEF T
  <2> QED BY <1>2, <1>3, <2>1, WFMin
<1>5. n \in Nat /\ n \notin S /\ n # 0 OBVIOUS
<1>6. n - 1 \in Nat /\ n - 1 < n BY <1>5
<1>7. n - 1 \in S BY <1>1, <1>4, <1>5, <1>6
<1> QED BY <1>5, <1>6, <1>7

(* What FoldLeft computes from the numbers 1..n, if F is applied at each.  *)
FoldsTo(g, n, e, F) ==
  \A s \in SUBSET (1..n) : g[s] = IF s = {} THEN e ELSE F[<<Max(s), g[s \ {Max(s)}]>>]

(* The largest of some numbers is the one that no other exceeds.           *)
LEMMA MaxIs ==
  ASSUME NEW s, NEW n \in s, s \subseteq Nat, \A m \in s : m <= n
  PROVE  Max(s) = n
<1>1. n \in Nat OBVIOUS
<1>2. \A x \in s : (\A y \in s : x >= y) => x = n OBVIOUS
<1>3. n \in s /\ \A y \in s : n >= y OBVIOUS
<1> QED BY <1>2, <1>3 DEF Max

(* Some of the numbers 1..n, if not none, have a largest.                  *)
LEMMA MaxExists ==
  ASSUME NEW n \in Nat, NEW s, s \subseteq 1..n, s # {}
  PROVE  Max(s) \in s /\ \A m \in s : m <= Max(s)
<1> DEFINE Has(s0) == \E x \in s0 : \A y \in s0 : x >= y
           S == {k \in Nat : \A t : t \subseteq 1..k /\ t # {} => Has(t)}
<1>1. 0 \in S OBVIOUS
<1>2. ASSUME NEW k \in Nat, k \in S PROVE k + 1 \in S
  <2> SUFFICES ASSUME NEW t, t \subseteq 1..(k + 1), t # {} PROVE Has(t) OBVIOUS
  <2>1. CASE k + 1 \in t
    <3>1. \A y \in t : k + 1 >= y OBVIOUS
    <3> QED BY <2>1, <3>1
  <2>2. CASE k + 1 \notin t
    <3>1. t \subseteq 1..k BY <2>2
    <3> QED BY <1>2, <3>1
  <2> QED BY <2>1, <2>2
<1> HIDE DEF S
<1>3. Nat \subseteq S BY <1>1, <1>2, SetInduction
<1>4. n \in S BY <1>3
<1>5. PICK x \in s : \A y \in s : x >= y BY <1>4 DEF S
<1>6. x \in Nat BY <1>5
<1>7. Max(s) = x
  <2>1. s \subseteq Nat OBVIOUS
  <2>2. \A m \in s : m <= x BY <1>5, <1>6
  <2> QED BY <2>1, <2>2, MaxIs
<1> QED BY <1>5, <1>6, <1>7

(* There is a function that applies F at each number.                      *)
LEMMA FoldExists ==
  ASSUME NEW D, NEW e \in D, NEW n \in Nat, NEW F \in [(1..n) \X D -> D]
  PROVE  \E g \in [SUBSET (1..n) -> D] : FoldsTo(g, n, e, F)
<1> DEFINE Folds(k) == \E g \in [SUBSET (1..k) -> D] : FoldsTo(g, k, e, F)
           S == {k \in Nat : k <= n => Folds(k)}
<1>1. 0 \in S
  <2> SUFFICES Folds(0)
    <3> HIDE DEF Folds
    <3> QED OBVIOUS
  <2> DEFINE g == [s \in SUBSET (1..0) |-> e]
  <2>1. g \in [SUBSET (1..0) -> D] OBVIOUS
  <2>2. FoldsTo(g, 0, e, F) BY DEF FoldsTo
  <2> QED BY <2>1, <2>2
<1>2. ASSUME NEW k \in Nat, k \in S PROVE k + 1 \in S
  <2>1. SUFFICES ASSUME k + 1 <= n PROVE Folds(k + 1)
    <3> HIDE DEF Folds
    <3> QED OBVIOUS
  <2>2. PICK g \in [SUBSET (1..k) -> D] : FoldsTo(g, k, e, F)
    <3>1. Folds(k)
      <4> HIDE DEF Folds
      <4> QED BY <1>2, <2>1
    <3> QED BY <3>1
  <2> DEFINE h == [s \in SUBSET (1..(k + 1)) |->
                     IF k + 1 \in s THEN F[<<k + 1, g[s \ {k + 1}]>>] ELSE g[s]]
  <2>3. \A s \in SUBSET (1..(k + 1)) : s \ {k + 1} \in SUBSET (1..k)
    OBVIOUS
  <2>4. \A s \in SUBSET (1..(k + 1)) : k + 1 \notin s => s \in SUBSET (1..k) OBVIOUS
  <2>5. h \in [SUBSET (1..(k + 1)) -> D]
    <3>1. ASSUME NEW s \in SUBSET (1..(k + 1))
          PROVE  (IF k + 1 \in s THEN F[<<k + 1, g[s \ {k + 1}]>>] ELSE g[s]) \in D
      <4>1. k + 1 \in 1..n BY <2>1
      <4>2. g[s \ {k + 1}] \in D BY <2>3
      <4>3. k + 1 \notin s => g[s] \in D BY <2>4
      <4>4. F[<<k + 1, g[s \ {k + 1}]>>] \in D BY <4>1, <4>2
      <4> QED BY <4>3, <4>4
    <3> QED BY <3>1
  <2>6. FoldsTo(h, k + 1, e, F)
    <3>1. SUFFICES ASSUME NEW s \in SUBSET (1..(k + 1))
                   PROVE  h[s] = IF s = {} THEN e ELSE F[<<Max(s), h[s \ {Max(s)}]>>]
      BY DEF FoldsTo
    <3>2. CASE k + 1 \in s
      <4>1. Max(s) = k + 1
        <5>1. s \subseteq Nat /\ \A m \in s : m <= k + 1 OBVIOUS
        <5> QED BY <3>2, <5>1, MaxIs
      <4>2. h[s] = F[<<k + 1, g[s \ {k + 1}]>>] BY <3>2
      <4>3. h[s \ {k + 1}] = g[s \ {k + 1}] BY <2>3
      <4> QED BY <3>2, <4>1, <4>2, <4>3
    <3>3. CASE k + 1 \notin s
      <4>1. s \in SUBSET (1..k) BY <2>4, <3>3
      <4>2. h[s] = g[s] BY <3>3
      <4>3. h[s \ {Max(s)}] = g[s \ {Max(s)}]
        <5>1. s \ {Max(s)} \in SUBSET (1..(k + 1)) /\ k + 1 \notin s \ {Max(s)} BY <3>3
        <5> QED BY <5>1
      <4>4. g[s] = IF s = {} THEN e ELSE F[<<Max(s), g[s \ {Max(s)}]>>]
        BY <2>2, <4>1 DEF FoldsTo
      <4> QED BY <4>2, <4>3, <4>4
    <3> QED BY <3>2, <3>3
  <2> QED BY <2>5, <2>6
<1> HIDE DEF S
<1>3. Nat \subseteq S BY <1>1, <1>2, SetInduction
<1>4. n \in S BY <1>3
<1>5. Folds(n)
  <2> HIDE DEF Folds
  <2> QED BY <1>4 DEF S
<1> QED BY <1>5

Applies(g, s, n, D, F) ==
  /\ Max(s) \in 1..n /\ g[s \ {Max(s)}] \in D
  /\ g[s] = F[<<Max(s), g[s \ {Max(s)}]>>]

(* Where such a function applies F, and to what.                           *)
LEMMA FoldFacts ==
  ASSUME NEW D, NEW e \in D, NEW n \in Nat, NEW F \in [(1..n) \X D -> D],
         NEW g \in [SUBSET (1..n) -> D], FoldsTo(g, n, e, F),
         NEW s \in SUBSET (1..n), s # {}
  PROVE  Applies(g, s, n, D, F)
<1>1. Max(s) \in s BY MaxExists
<1>2. s \ {Max(s)} \in SUBSET (1..n) OBVIOUS
<1> QED BY <1>1, <1>2 DEF FoldsTo, Applies

(* The largest of the first numbers is the last one.                       *)
LEMMA MaxOfFirst ==
  ASSUME NEW k \in Nat
  PROVE  Max(1..(k + 1)) = k + 1 /\ (1..(k + 1)) \ {k + 1} = 1..k
<1>1. 1..(k + 1) \subseteq Nat /\ k + 1 \in 1..(k + 1) /\ \A m \in 1..(k + 1) : m <= k + 1
  OBVIOUS
<1>2. Max(1..(k + 1)) = k + 1 BY <1>1, MaxIs
<1> QED BY <1>2

(* What Only does with one element after the other.                        *)
LEMMA OnlySteps ==
  ASSUME NEW A, NEW list \in Seq(A), NEW S
  PROVE  \E out :
           /\ out[0] = <<>>
           /\ \A k \in 0..(Len(list) - 1) :
                out[k + 1] = IF list[k + 1] \in S THEN Append(out[k], list[k + 1]) ELSE out[k]
           /\ Only(list, S) = out[Len(list)]
<1> DEFINE n == Len(list)
           op(chosen, x) == IF x \in S THEN Append(chosen, x) ELSE chosen
           F == [x \in (1..n) \X Seq(A) |-> op(x[2], list[x[1]])]
           Is(f) == f = [s \in SUBSET DOMAIN list |->
                           IF s = {} THEN <<>>
                           ELSE LET x == Max(s) IN op(f[s \ {x}], list[x])]
           iter == CHOOSE f : Is(f)
           out == [k \in 0..n |-> iter[1..k]]
<1>1. n \in Nat /\ DOMAIN list = 1..n /\ \A i \in 1..n : list[i] \in A OBVIOUS
<1>2. Only(list, S) = iter[DOMAIN list] BY DEF Only, FoldLeft, MapThenFoldSet
<1>3. F \in [(1..n) \X Seq(A) -> Seq(A)]
  <2>1. \A i \in 1..n, c \in Seq(A) : op(c, list[i]) \in Seq(A) BY <1>1
  <2> HIDE DEF op
  <2> QED BY <2>1
<1>4. \E f : Is(f)
  <2>1. <<>> \in Seq(A) OBVIOUS
  <2>2. PICK g \in [SUBSET (1..n) -> Seq(A)] : FoldsTo(g, n, <<>>, F)
    <3> HIDE DEF F, n
    <3> QED BY <1>1, <1>3, <2>1, FoldExists
  <2>3. ASSUME NEW s \in SUBSET (1..n)
        PROVE  g[s] = IF s = {} THEN <<>> ELSE op(g[s \ {Max(s)}], list[Max(s)])
    <3>1. CASE s = {} BY <2>2, <3>1 DEF FoldsTo
    <3>2. CASE s # {}
      <4>1. /\ Max(s) \in 1..n /\ g[s \ {Max(s)}] \in Seq(A)
            /\ g[s] = F[<<Max(s), g[s \ {Max(s)}]>>]
        <5> DEFINE D == Seq(A)
                   e == <<>>
        <5>1. n \in Nat /\ e \in D /\ F \in [(1..n) \X D -> D]
          BY <1>1, <1>3, <2>1
        <5>2. g \in [SUBSET (1..n) -> D] /\ FoldsTo(g, n, e, F) BY <2>2
        <5> HIDE DEF F, n, D, e
        <5>3. Applies(g, s, n, D, F) BY <3>2, <5>1, <5>2, FoldFacts
        <5> QED BY <5>3 DEF D, Applies
      <4> HIDE DEF op
      <4>2. F[<<Max(s), g[s \ {Max(s)}]>>] = op(g[s \ {Max(s)}], list[Max(s)]) BY <4>1
      <4> QED BY <3>2, <4>1, <4>2
    <3> QED BY <3>1, <3>2
  <2> HIDE DEF op
  <2>4. g = [s \in SUBSET (1..n) |-> g[s]] OBVIOUS
  <2>5. Is(g) BY <1>1, <2>3, <2>4
  <2> QED BY <2>5
<1>5. Is(iter)
  <2> HIDE DEF Is
  <2> QED BY <1>4
<1> HIDE DEF iter, op
<1>6. out[0] = <<>>
  <2>1. 1..0 = {} /\ 0 \in 0..n BY <1>1
  <2>2. {} \in SUBSET DOMAIN list OBVIOUS
  <2> QED BY <1>5, <2>1, <2>2
<1>7. ASSUME NEW k \in 0..(n - 1) PROVE out[k + 1] = op(out[k], list[k + 1])
  <2>1. k \in Nat /\ k \in 0..n /\ k + 1 \in 0..n BY <1>1
  <2>2. Max(1..(k + 1)) = k + 1 /\ (1..(k + 1)) \ {k + 1} = 1..k BY <2>1, MaxOfFirst
  <2>3. 1..(k + 1) \in SUBSET DOMAIN list /\ 1..(k + 1) # {}
    <3>1. 1..(k + 1) \subseteq 1..n BY <1>1, <2>1
    <3>2. k + 1 \in 1..(k + 1) BY <2>1
    <3> HIDE DEF n
    <3> QED BY <1>1, <3>1, <3>2
  <2>4. iter[1..(k + 1)] = op(iter[1..k], list[k + 1])
    <3> HIDE DEF n
    <3> QED BY <1>5, <2>2, <2>3
  <2> QED BY <2>1, <2>4
<1>8. Only(list, S) = out[n] BY <1>1, <1>2
<1> QED BY <1>6, <1>7, <1>8 DEF op

(* Place i of chosen holds what is at place f[i] among the first k of list; *)
(* all of those that are in S are chosen.                                  *)
Picks(chosen, f, list, S, k) ==
  /\ f \in [1..Len(chosen) -> 1..k]
  /\ \A i, j \in 1..Len(chosen) : f[i] = f[j] => i = j
  /\ \A i \in 1..Len(chosen) : chosen[i] = list[f[i]] /\ chosen[i] \in S
  /\ \A m \in 1..k : list[m] \in S => \E i \in 1..Len(chosen) : f[i] = m

(* Only chooses all that are in S, each at its own place of the list.      *)
LEMMA OnlyPicks ==
  ASSUME NEW A, NEW list \in Seq(A), NEW S
  PROVE  /\ Only(list, S) \in Seq(A)
         /\ \E f : Picks(Only(list, S), f, list, S, Len(list))
<1>1. PICK out :
           /\ out[0] = <<>>
           /\ \A k \in 0..(Len(list) - 1) :
                out[k + 1] = IF list[k + 1] \in S THEN Append(out[k], list[k + 1]) ELSE out[k]
           /\ Only(list, S) = out[Len(list)]
  BY OnlySteps
<1> DEFINE n == Len(list)
           Good(k) == out[k] \in Seq(A) /\ \E f : Picks(out[k], f, list, S, k)
           T == {k \in Nat : k <= n => Good(k)}
<1>2. n \in Nat OBVIOUS
<1>3. 0 \in T
  <2>1. out[0] = <<>> BY <1>1
  <2> DEFINE f == [i \in 1..0 |-> 0]
  <2>2. Len(out[0]) = 0 /\ 1..0 = {} /\ f \in [1..0 -> 1..0] BY <2>1
  <2>3. Picks(out[0], f, list, S, 0) BY <2>2 DEF Picks
  <2>4. out[0] \in Seq(A) BY <2>1
  <2> QED BY <2>3, <2>4
<1>4. ASSUME NEW k \in Nat, k \in T PROVE k + 1 \in T
  <2>1. SUFFICES ASSUME k + 1 <= n PROVE Good(k + 1)
    <3> HIDE DEF Good
    <3> QED OBVIOUS
  <2>2. Good(k)
    <3> HIDE DEF Good
    <3> QED BY <1>2, <1>4, <2>1
  <2>3. PICK f : Picks(out[k], f, list, S, k) BY <2>2
  <2>4. k \in 0..(n - 1) /\ k + 1 \in 1..n /\ list[k + 1] \in A BY <1>2, <2>1
  <2> DEFINE o == out[k]
             x == list[k + 1]
  <2>5. o \in Seq(A) /\ Len(o) \in Nat BY <2>2
  <2>6. out[k + 1] = IF x \in S THEN Append(o, x) ELSE o BY <1>1, <2>4
  <2> HIDE DEF o
  <2>7. CASE x \in S
    <3> DEFINE m == Len(o)
               q == Append(o, x)
               h == [i \in 1..(m + 1) |-> IF i = m + 1 THEN k + 1 ELSE f[i]]
    <3>1. q \in Seq(A) /\ Len(q) = m + 1 /\ q[m + 1] = x /\ \A i \in 1..m : q[i] = o[i]
      BY <2>4, <2>5
    <3>2. m \in Nat BY <2>5
    <3> HIDE DEF q, m
    <3>3. /\ f \in [1..m -> 1..k]
          /\ \A i, j \in 1..m : f[i] = f[j] => i = j
          /\ \A i \in 1..m : o[i] = list[f[i]] /\ o[i] \in S
          /\ \A l \in 1..k : list[l] \in S => \E i \in 1..m : f[i] = l
      BY <2>3 DEF Picks, o, m
    <3>4. \A i \in 1..(m + 1) : i # m + 1 => i \in 1..m BY <3>2
    <3>5. h \in [1..(m + 1) -> 1..(k + 1)]
      <4>1. \A i \in 1..m : f[i] \in 1..(k + 1) BY <3>3
      <4> QED BY <3>4, <4>1
    <3>6. ASSUME NEW i \in 1..(m + 1), NEW j \in 1..(m + 1), h[i] = h[j] PROVE i = j
      <4>1. \A l \in 1..m : f[l] # k + 1 BY <3>3
      <4> QED BY <3>3, <3>4, <3>6, <4>1
    <3>7. ASSUME NEW i \in 1..(m + 1) PROVE q[i] = list[h[i]] /\ q[i] \in S
      BY <2>7, <3>1, <3>3, <3>4
    <3>8. ASSUME NEW l \in 1..(k + 1), list[l] \in S PROVE \E i \in 1..(m + 1) : h[i] = l
      <4>1. CASE l = k + 1
        <5>1. m + 1 \in 1..(m + 1) /\ h[m + 1] = l BY <3>2, <4>1
        <5> QED BY <5>1
      <4>2. CASE l # k + 1
        <5>1. l \in 1..k BY <4>2
        <5>2. PICK i \in 1..m : f[i] = l BY <3>3, <3>8, <5>1
        <5>3. i \in 1..(m + 1) /\ i # m + 1 BY <3>2
        <5> QED BY <5>2, <5>3
      <4> QED BY <4>1, <4>2
    <3> HIDE DEF h
    <3>9. Picks(q, h, list, S, k + 1) BY <3>1, <3>5, <3>6, <3>7, <3>8 DEF Picks
    <3> QED BY <2>6, <2>7, <3>1, <3>9 DEF q
  <2>8. CASE x \notin S
    <3>1. \A l \in 1..(k + 1) : list[l] \in S => l \in 1..k BY <2>8
    <3>2. 1..k \subseteq 1..(k + 1) OBVIOUS
    <3> HIDE DEF x
    <3>3. Picks(o, f, list, S, k) BY <2>3 DEF o
    <3>4. Picks(o, f, list, S, k + 1) BY <3>1, <3>2, <3>3 DEF Picks
    <3> QED BY <2>5, <2>6, <2>8, <3>4
  <2> QED BY <2>7, <2>8
<1> HIDE DEF T
<1>5. Nat \subseteq T BY <1>3, <1>4, SetInduction
<1>6. n \in T BY <1>2, <1>5
<1>7. Good(n)
  <2> HIDE DEF Good, n
  <2> QED BY <1>2, <1>6 DEF T
<1> QED BY <1>1, <1>7

(* Numbers, if there are some, have a least.                               *)
LEMMA LeastExists ==
  ASSUME NEW T, T \subseteq Nat, T # {}
  PROVE  \E n \in T : \A m \in T : n <= m
<1> DEFINE Less == OpToRel(<, Nat)
<1>1. \A m, n \in Nat : <<m, n>> \in Less <=> m < n BY DEF OpToRel
<1>2. IsWellFoundedOn(Less, Nat) BY NatLessThanWellFounded
<1> HIDE DEF Less
<1>3. PICK n \in T : \A m \in T : ~ (<<m, n>> \in Less) BY <1>2, WFMin
<1>4. \A m \in T : m \in Nat /\ n \in Nat /\ ~(m < n) BY <1>1, <1>3
<1> QED BY <1>4

(* x is somewhere in list.                                                 *)
Has(list, x) == \E m \in 1..Len(list) : list[m] = x

(* A list of lists in one has what some of them has.                       *)
LEMMA FlattenIs ==
  ASSUME NEW A, NEW seqs \in Seq(Seq(A))
  PROVE  /\ FlattenSeq(seqs) \in Seq(A)
         /\ \A x : Has(FlattenSeq(seqs), x) <=> \E i \in 1..Len(seqs) : Has(seqs[i], x)
<1> DEFINE n == Len(seqs)
           Is(f) == f = [i \in 1..n |-> IF i = 1 THEN seqs[i] ELSE f[i - 1] \o seqs[i]]
           flatten == CHOOSE f : Is(f)
<1>1. n \in Nat /\ \A i \in 1..n : seqs[i] \in Seq(A) OBVIOUS
<1>2. CASE n = 0
  <2>1. FlattenSeq(seqs) = seqs BY <1>2 DEF FlattenSeq
  <2>2. seqs = <<>> BY <1>2
  <2> QED BY <2>1, <2>2 DEF Has
<1>3. CASE n # 0
  <2>1. FlattenSeq(seqs) = flatten[n] BY <1>3 DEF FlattenSeq
  <2> DEFINE Part(h, k) == /\ h \in [1..k -> Seq(A)]
                           /\ \A i \in 1..k : h[i] = IF i = 1 THEN seqs[i] ELSE h[i - 1] \o seqs[i]
             Made(k) == \E h : Part(h, k)
             T == {k \in Nat : k <= n => Made(k)}
  <2>2. 0 \in T
    <3>1. Part([i \in 1..0 |-> <<>>], 0) OBVIOUS
    <3>2. Made(0) BY <3>1
    <3> HIDE DEF Made
    <3> QED BY <3>2
  <2>3. ASSUME NEW k \in Nat, k \in T PROVE k + 1 \in T
    <3>1. SUFFICES ASSUME k + 1 <= n PROVE Made(k + 1)
      <4> HIDE DEF Made
      <4> QED OBVIOUS
    <3>2. Made(k)
      <4> HIDE DEF Made
      <4> QED BY <1>1, <2>3, <3>1
    <3>3. PICK h : Part(h, k) BY <3>2
    <3>4. k + 1 \in 1..n /\ seqs[k + 1] \in Seq(A) BY <1>1, <3>1
    <3> DEFINE s == IF k = 0 THEN seqs[k + 1] ELSE h[k] \o seqs[k + 1]
               g == [i \in 1..(k + 1) |-> IF i = k + 1 THEN s ELSE h[i]]
    <3>5. s \in Seq(A)
      <4>1. CASE k = 0 BY <3>4, <4>1
      <4>2. CASE k # 0
        <5>1. k \in 1..k BY <4>2
        <5>2. h[k] \in Seq(A) BY <3>3, <5>1
        <5> QED BY <3>4, <4>2, <5>2
      <4> QED BY <4>1, <4>2
    <3>6. \A i \in 1..(k + 1) : i # k + 1 => i \in 1..k OBVIOUS
    <3>7. g \in [1..(k + 1) -> Seq(A)]
      <4> HIDE DEF s
      <4> QED BY <3>3, <3>5, <3>6
    <3>8. ASSUME NEW i \in 1..(k + 1)
          PROVE  g[i] = IF i = 1 THEN seqs[i] ELSE g[i - 1] \o seqs[i]
      <4>1. CASE i = k + 1
        <5>1. g[i] = s BY <4>1
        <5>2. i = 1 <=> k = 0 BY <4>1
        <5>3. k # 0 => g[i - 1] = h[k]
          <6>1. k # 0 => i - 1 = k /\ i - 1 \in 1..(k + 1) /\ i - 1 # k + 1 BY <4>1
          <6> HIDE DEF s
          <6> QED BY <6>1
        <5> QED BY <4>1, <5>1, <5>2, <5>3
      <4>2. CASE i # k + 1
        <5>1. i \in 1..k BY <3>6, <4>2
        <5>2. i # 1 => i - 1 \in 1..(k + 1) /\ i - 1 # k + 1 BY <5>1
        <5> HIDE DEF s
        <5>3. g[i] = h[i] /\ (i # 1 => g[i - 1] = h[i - 1]) BY <4>2, <5>2
        <5> QED BY <3>3, <5>1, <5>3
      <4> QED BY <4>1, <4>2
    <3> HIDE DEF g
    <3>9. Part(g, k + 1) BY <3>7, <3>8
    <3> QED BY <3>9
  <2> HIDE DEF T
  <2>4. Nat \subseteq T BY <2>2, <2>3, SetInduction
  <2>5. n \in T BY <1>1, <2>4
  <2>6. Made(n)
    <3> HIDE DEF Made, n
    <3> QED BY <1>1, <2>5 DEF T
  <2>7. PICK h : Part(h, n) BY <2>6
  <2>8. Is(h)
    <3>1. h = [i \in 1..n |-> h[i]] BY <2>7
    <3> HIDE DEF n
    <3> QED BY <2>7, <3>1
  <2>9. Is(flatten)
    <3> HIDE DEF Is
    <3> QED BY <2>8
  <2> HIDE DEF flatten
  <2> DEFINE Within(i) == \A x : (\E m \in 1..Len(flatten[i]) : flatten[i][m] = x)
                                   <=> \E l \in 1..i : \E j \in 1..Len(seqs[l]) : seqs[l][j] = x
             Good(k) == flatten[k] \in Seq(A) /\ Within(k)
             U == {k \in Nat : k + 1 <= n => Good(k + 1)}
  <2>10. 0 \in U
    <3>1. flatten[1] = seqs[1] /\ 1 \in 1..n
      <4>1. 1 \in 1..n BY <1>1, <1>3
      <4> HIDE DEF n
      <4> QED BY <2>9, <4>1
    <3>2. flatten[1] \in Seq(A) BY <1>1, <3>1
    <3>3. 1..1 = {1} OBVIOUS
    <3>4. Within(1) BY <3>1, <3>3
    <3>5. Good(0 + 1)
      <4> HIDE DEF Within
      <4>1. 0 + 1 = 1 OBVIOUS
      <4> QED BY <3>2, <3>4, <4>1
    <3> HIDE DEF Good
    <3> QED BY <3>5
  <2>11. ASSUME NEW k \in Nat, k \in U PROVE k + 1 \in U
    <3>1. SUFFICES ASSUME (k + 1) + 1 <= n PROVE Good((k + 1) + 1)
      <4> HIDE DEF Good
      <4> QED OBVIOUS
    <3> DEFINE i == k + 1
               a == flatten[i]
               b == seqs[i + 1]
    <3>2. Good(i)
      <4> HIDE DEF Good
      <4> QED BY <1>1, <2>11, <3>1
    <3>3. i \in Nat /\ i + 1 \in 1..n /\ i + 1 # 1 /\ (i + 1) - 1 = i BY <1>1, <3>1
    <3>4. a \in Seq(A) /\ b \in Seq(A) BY <1>1, <3>2, <3>3
    <3>5. flatten[i + 1] = a \o b
      <4> HIDE DEF n, i
      <4> QED BY <2>9, <3>3
    <3> HIDE DEF a, b, i
    <3>6. Len(a \o b) = Len(a) + Len(b) /\ Len(a) \in Nat /\ Len(b) \in Nat
          /\ \A m \in 1..(Len(a) + Len(b)) :
               (a \o b)[m] = IF m <= Len(a) THEN a[m] ELSE b[m - Len(a)]
      BY <3>4
    <3>7. Within(i + 1)
      <4>1. SUFFICES ASSUME NEW x
                     PROVE  (\E m \in 1..Len(a \o b) : (a \o b)[m] = x)
                              <=> \E l \in 1..(i + 1) : \E j \in 1..Len(seqs[l]) : seqs[l][j] = x
        BY <3>5
      <4>2. (\E m \in 1..Len(a \o b) : (a \o b)[m] = x)
              <=> (\E m \in 1..Len(a) : a[m] = x) \/ (\E m \in 1..Len(b) : b[m] = x)
        <5>1. ASSUME NEW m \in 1..Len(a \o b), (a \o b)[m] = x
              PROVE  (\E q \in 1..Len(a) : a[q] = x) \/ (\E q \in 1..Len(b) : b[q] = x)
          <6>1. CASE m <= Len(a)
            <7>1. m \in 1..Len(a) BY <3>6, <6>1
            <7>2. a[m] = x BY <3>6, <5>1, <6>1
            <7> QED BY <7>1, <7>2
          <6>2. CASE ~(m <= Len(a))
            <7>1. m - Len(a) \in 1..Len(b) BY <3>6, <6>2
            <7>2. b[m - Len(a)] = x BY <3>6, <5>1, <6>2
            <7> QED BY <7>1, <7>2
          <6> QED BY <6>1, <6>2
        <5>2. ASSUME NEW m \in 1..Len(a), a[m] = x
              PROVE  \E q \in 1..Len(a \o b) : (a \o b)[q] = x
          <6>1. m \in 1..Len(a \o b) /\ m <= Len(a) BY <3>6
          <6> QED BY <3>6, <5>2, <6>1
        <5>3. ASSUME NEW m \in 1..Len(b), b[m] = x
              PROVE  \E q \in 1..Len(a \o b) : (a \o b)[q] = x
          <6>1. /\ m + Len(a) \in 1..(Len(a) + Len(b)) /\ ~(m + Len(a) <= Len(a))
                /\ (m + Len(a)) - Len(a) = m
            BY <3>6
          <6>2. (a \o b)[m + Len(a)] = x BY <3>6, <5>3, <6>1
          <6> QED BY <3>6, <6>1, <6>2
        <5> QED BY <5>1, <5>2, <5>3
      <4>3. (\E m \in 1..Len(a) : a[m] = x)
              <=> \E l \in 1..i : \E j \in 1..Len(seqs[l]) : seqs[l][j] = x
        BY <3>2 DEF a
      <4>4. \A l : l \in 1..(i + 1) <=> l \in 1..i \/ l = i + 1 BY <3>3
      <4> QED BY <4>2, <4>3, <4>4 DEF b
    <3>8. a \o b \in Seq(A) BY <3>4
    <3>9. Good(i + 1)
      <4> HIDE DEF Within
      <4> QED BY <3>5, <3>7, <3>8
    <3> HIDE DEF Good
    <3> QED BY <3>9 DEF i
  <2> HIDE DEF U
  <2>12. Nat \subseteq U BY <2>10, <2>11, SetInduction
  <2>13. n - 1 \in Nat /\ (n - 1) + 1 = n BY <1>1, <1>3
  <2>14. Good(n)
    <3>1. n - 1 \in U BY <2>12, <2>13
    <3> HIDE DEF Good, n
    <3> QED BY <1>1, <2>13, <3>1 DEF U
  <2> HIDE DEF n
  <2> QED BY <2>1, <2>14 DEF n, Has
<1> QED BY <1>2, <1>3

----------------------------------------------------------------------------
(* Crcs: a list describes who wants what.                                  *)

(* A crc of the list.                                                      *)
Crc == [case : Case, configuration : Configuration, runningFor : SUBSET Plan]

(* Who runs what: for each test case and configuration the test plans.     *)
Assigned == [Case \X Configuration -> SUBSET Plan]

(* list has one crc for each test case and configuration that someone      *)
(* wants, with exactly the test plans that want it.                        *)
Describes(list, wants) ==
  /\ list \in Seq(Crc)
  /\ \A i, j \in 1..Len(list) : Same(list[i], list[j]) => i = j
  /\ \A c \in Case, conf \in Configuration :
       wants[<<c, conf>>] # {} =>
         \E i \in 1..Len(list) : list[i].case = c /\ list[i].configuration = conf
  /\ \A i \in 1..Len(list) :
       list[i].runningFor = wants[<<list[i].case, list[i].configuration>>]

With(wants, crc) ==
  [x \in Case \X Configuration |->
     IF x = <<crc.case, crc.configuration>> THEN wants[x] \cup crc.runningFor ELSE wants[x]]

(* A list of crcs stays one when a crc is appended.                        *)
LEMMA AppendTypes ==
  ASSUME NEW list \in Seq(Crc), NEW crc \in Crc
  PROVE  AppendCrc(list, crc) \in Seq(Crc)
<1> DEFINE equal == {i \in DOMAIN list : Same(list[i], crc)}
           least == CHOOSE i \in equal : \A j \in equal : i <= j
<1>1. CASE equal = {} BY <1>1 DEF AppendCrc
<1>2. CASE equal # {}
  <2>1. equal \subseteq Nat /\ equal \subseteq DOMAIN list OBVIOUS
  <2> HIDE DEF equal
  <2>2. \E i \in equal : \A j \in equal : i <= j BY <1>2, <2>1, LeastExists
  <2>3. least \in DOMAIN list BY <2>1, <2>2
  <2>4. AppendCrc(list, crc) =
          [list EXCEPT ![least].runningFor = @ \cup crc.runningFor]
    BY <1>2 DEF AppendCrc, equal
  <2> HIDE DEF least
  <2>5. list[least] \in Crc BY <2>3
  <2>6. [list[least] EXCEPT !.runningFor = @ \cup crc.runningFor] \in Crc BY <2>5 DEF Crc
  <2> DEFINE new == [list[least] EXCEPT !.runningFor = @ \cup crc.runningFor]
  <2>7. AppendCrc(list, crc) = [list EXCEPT ![least] = new] BY <2>4
  <2> HIDE DEF new
  <2>8. [list EXCEPT ![least] = new] \in Seq(Crc) BY <2>3, <2>6 DEF new
  <2> QED BY <2>7, <2>8
<1> QED BY <1>1, <1>2

(* A list that has a crc for each that is wanted, and no other, still has when *)
(* one more is appended: crcs that are equal become one, which runs for both. *)
LEMMA AppendDescribes ==
  ASSUME NEW wants \in Assigned, NEW list, Describes(list, wants), NEW crc \in Crc
  PROVE  Describes(AppendCrc(list, crc), With(wants, crc))
<1> DEFINE equal == {i \in DOMAIN list : Same(list[i], crc)}
           n == Len(list)
           new == AppendCrc(list, crc)
           more == With(wants, crc)
<1>1. /\ list \in Seq(Crc) /\ n \in Nat /\ DOMAIN list = 1..n /\ \A i \in 1..n : list[i] \in Crc
      /\ \A i, j \in 1..n : Same(list[i], list[j]) => i = j
      /\ \A c \in Case, conf \in Configuration :
           wants[<<c, conf>>] # {} =>
             \E i \in 1..n : list[i].case = c /\ list[i].configuration = conf
      /\ \A i \in 1..n : list[i].runningFor = wants[<<list[i].case, list[i].configuration>>]
  BY DEF Describes
<1>2. new \in Seq(Crc) BY <1>1, AppendTypes
<1>3. /\ crc.case \in Case /\ crc.configuration \in Configuration
      /\ \A i \in 1..n : list[i].case \in Case /\ list[i].configuration \in Configuration
  BY <1>1 DEF Crc
<1>4. \A c \in Case, conf \in Configuration :
        more[<<c, conf>>] =
          IF c = crc.case /\ conf = crc.configuration
          THEN wants[<<c, conf>>] \cup crc.runningFor ELSE wants[<<c, conf>>]
  BY DEF With
<1> HIDE DEF more
<1>10. ASSUME NEW i \in 1..n
       PROVE  LET x == <<list[i].case, list[i].configuration>>
              IN more[x] = IF list[i].case = crc.case /\ list[i].configuration = crc.configuration
                           THEN list[i].runningFor \cup crc.runningFor
                           ELSE list[i].runningFor
  <2>1. list[i].case \in Case /\ list[i].configuration \in Configuration BY <1>3
  <2>2. list[i].runningFor = wants[<<list[i].case, list[i].configuration>>] BY <1>1
  <2> QED BY <1>4, <2>1, <2>2
<1>5. CASE equal = {}
  <2>1. new = Append(list, crc) BY <1>5 DEF AppendCrc
  <2>2. Len(new) = n + 1 /\ new[n + 1] = crc /\ \A i \in 1..n : new[i] = list[i]
    BY <1>1, <2>1
  <2>3. \A i \in 1..(n + 1) : i = n + 1 \/ i \in 1..n BY <1>1
  <2>4. \A i \in 1..n : ~(list[i].case = crc.case /\ list[i].configuration = crc.configuration)
    BY <1>1, <1>5 DEF Same
  <2>5. wants[<<crc.case, crc.configuration>>] = {} BY <1>1, <1>3, <2>4
  <2> HIDE DEF new, n, equal
  <2>6. \A i, j \in 1..(n + 1) : Same(new[i], new[j]) => i = j
    BY <1>1, <2>2, <2>3, <2>4 DEF Same
  <2>7. ASSUME NEW c \in Case, NEW conf \in Configuration, more[<<c, conf>>] # {}
        PROVE  \E i \in 1..(n + 1) : new[i].case = c /\ new[i].configuration = conf
    <3>1. CASE c = crc.case /\ conf = crc.configuration
      <4>1. n + 1 \in 1..(n + 1) BY <1>1
      <4> QED BY <2>2, <3>1, <4>1
    <3>2. CASE ~(c = crc.case /\ conf = crc.configuration)
      <4>1. wants[<<c, conf>>] # {} BY <1>4, <2>7, <3>2
      <4>2. PICK i \in 1..n : list[i].case = c /\ list[i].configuration = conf BY <1>1, <4>1
      <4>3. i \in 1..(n + 1) BY <1>1
      <4> QED BY <2>2, <4>2, <4>3
    <3> QED BY <3>1, <3>2
  <2>8. ASSUME NEW i \in 1..(n + 1)
        PROVE  new[i].runningFor = more[<<new[i].case, new[i].configuration>>]
    <3>1. CASE i = n + 1
      <4>1. more[<<crc.case, crc.configuration>>] =
              wants[<<crc.case, crc.configuration>>] \cup crc.runningFor
        BY <1>3, <1>4
      <4>2. more[<<crc.case, crc.configuration>>] = crc.runningFor BY <2>5, <4>1
      <4>3. new[i] = crc BY <2>2, <3>1
      <4> QED BY <4>2, <4>3
    <3>2. CASE i \in 1..n
      <4>1. ~(list[i].case = crc.case /\ list[i].configuration = crc.configuration)
        BY <2>4, <3>2
      <4>2. more[<<list[i].case, list[i].configuration>>] = list[i].runningFor
        BY <1>10, <3>2, <4>1
      <4>3. new[i] = list[i] BY <2>2, <3>2
      <4> QED BY <4>2, <4>3
    <3> QED BY <2>3, <3>1, <3>2
  <2> QED BY <1>2, <2>2, <2>6, <2>7, <2>8 DEF Describes, new, more
<1>6. CASE equal # {}
  <2>1. PICK l \in equal : TRUE BY <1>6
  <2>2. l \in 1..n /\ list[l].case = crc.case /\ list[l].configuration = crc.configuration
    BY <1>1, <2>1 DEF Same
  <2>3. equal = {l} BY <1>1, <2>1, <2>2 DEF Same
  <2>4. (CHOOSE i \in equal : \A j \in equal : i <= j) = l BY <1>1, <2>2, <2>3
  <2> DEFINE that == [list[l] EXCEPT !.runningFor = @ \cup crc.runningFor]
  <2>5. new = [list EXCEPT ![l] = that]
    <3>1. new = [list EXCEPT ![l].runningFor = @ \cup crc.runningFor]
      BY <1>6, <2>4 DEF AppendCrc
    <3> QED BY <3>1
  <2>6. /\ that.case = crc.case /\ that.configuration = crc.configuration
        /\ that.runningFor = list[l].runningFor \cup crc.runningFor
    BY <1>1, <2>2 DEF Crc
  <2> HIDE DEF new, that, equal
  <2>7. Len(new) = n /\ new[l] = that /\ \A i \in 1..n : i # l => new[i] = list[i]
    BY <1>1, <2>2, <2>5
  <2> HIDE DEF n
  <2>8. \A i \in 1..n : new[i].case = list[i].case /\ new[i].configuration = list[i].configuration
    BY <2>2, <2>6, <2>7
  <2>9. \A i, j \in 1..n : Same(new[i], new[j]) => i = j BY <1>1, <2>8 DEF Same
  <2>10. ASSUME NEW c \in Case, NEW conf \in Configuration, more[<<c, conf>>] # {}
         PROVE  \E i \in 1..n : new[i].case = c /\ new[i].configuration = conf
    <3>1. CASE c = crc.case /\ conf = crc.configuration BY <2>2, <2>8, <3>1
    <3>2. CASE ~(c = crc.case /\ conf = crc.configuration)
      <4>1. wants[<<c, conf>>] # {} BY <1>4, <2>10, <3>2
      <4> QED BY <1>1, <2>8, <4>1
    <3> QED BY <3>1, <3>2
  <2>11. ASSUME NEW i \in 1..n
         PROVE  new[i].runningFor = more[<<new[i].case, new[i].configuration>>]
    <3>1. CASE i = l
      <4>1. more[<<list[l].case, list[l].configuration>>] = list[l].runningFor \cup crc.runningFor
        BY <1>10, <2>2
      <4>2. new[l].runningFor = list[l].runningFor \cup crc.runningFor BY <2>6, <2>7
      <4>3. new[l].case = list[l].case /\ new[l].configuration = list[l].configuration
        BY <2>2, <2>8
      <4> QED BY <3>1, <4>1, <4>2, <4>3
    <3>2. CASE i # l
      <4>1. ~(list[i].case = crc.case /\ list[i].configuration = crc.configuration)
        BY <1>1, <2>2, <3>2 DEF Same
      <4>2. more[<<list[i].case, list[i].configuration>>] = list[i].runningFor
        BY <1>10, <4>1
      <4>3. new[i] = list[i] BY <2>7, <3>2
      <4> QED BY <4>2, <4>3
    <3> QED BY <3>1, <3>2
  <2> QED BY <1>2, <2>7, <2>9, <2>10, <2>11 DEF Describes, new, more
<1> QED BY <1>5, <1>6

(* What appending the crcs of a list one after the other does.             *)
LEMMA AddSteps ==
  ASSUME NEW list \in Seq(Crc), NEW more \in Seq(Crc)
  PROVE  \E out :
           /\ out[0] = list
           /\ \A k \in 0..(Len(more) - 1) : out[k + 1] = AppendCrc(out[k], more[k + 1])
           /\ FoldLeft(AppendCrc, list, more) = out[Len(more)]
<1> DEFINE n == Len(more)
           D == Seq(Crc)
           F == [x \in (1..n) \X D |-> AppendCrc(x[2], more[x[1]])]
           Is(f) == f = [s \in SUBSET DOMAIN more |->
                           IF s = {} THEN list
                           ELSE LET x == Max(s) IN AppendCrc(f[s \ {x}], more[x])]
           iter == CHOOSE f : Is(f)
           out == [k \in 0..n |-> iter[1..k]]
<1>1. n \in Nat /\ DOMAIN more = 1..n /\ \A i \in 1..n : more[i] \in Crc OBVIOUS
<1>2. FoldLeft(AppendCrc, list, more) = iter[DOMAIN more] BY DEF FoldLeft, MapThenFoldSet
<1>3. F \in [(1..n) \X D -> D]
  <2>1. \A i \in 1..n, c \in D : AppendCrc(c, more[i]) \in D BY <1>1, AppendTypes
  <2> HIDE DEF D
  <2> QED BY <2>1
<1>4. list \in D OBVIOUS
<1> HIDE DEF D
<1>5. \E f : Is(f)
  <2>1. PICK g \in [SUBSET (1..n) -> D] : FoldsTo(g, n, list, F)
    <3> HIDE DEF F, n
    <3> QED BY <1>1, <1>3, <1>4, FoldExists
  <2>2. ASSUME NEW s \in SUBSET (1..n)
        PROVE  g[s] = IF s = {} THEN list ELSE AppendCrc(g[s \ {Max(s)}], more[Max(s)])
    <3>1. CASE s = {} BY <2>1, <3>1 DEF FoldsTo
    <3>2. CASE s # {}
      <4>1. Applies(g, s, n, D, F)
        <5> HIDE DEF F, n
        <5> QED BY <1>1, <1>3, <1>4, <2>1, <3>2, FoldFacts
      <4>2. F[<<Max(s), g[s \ {Max(s)}]>>] = AppendCrc(g[s \ {Max(s)}], more[Max(s)])
        BY <4>1 DEF Applies
      <4> QED BY <3>2, <4>1, <4>2 DEF Applies
    <3> QED BY <3>1, <3>2
  <2>3. g = [s \in SUBSET (1..n) |-> g[s]] OBVIOUS
  <2>4. Is(g) BY <1>1, <2>2, <2>3
  <2> QED BY <2>4
<1>6. Is(iter)
  <2> HIDE DEF Is
  <2> QED BY <1>5
<1> HIDE DEF iter
<1>7. out[0] = list
  <2>1. 1..0 = {} /\ 0 \in 0..n BY <1>1
  <2>2. {} \in SUBSET DOMAIN more OBVIOUS
  <2> QED BY <1>6, <2>1, <2>2
<1>8. ASSUME NEW k \in 0..(n - 1) PROVE out[k + 1] = AppendCrc(out[k], more[k + 1])
  <2>1. k \in Nat /\ k \in 0..n /\ k + 1 \in 0..n BY <1>1
  <2>2. Max(1..(k + 1)) = k + 1 /\ (1..(k + 1)) \ {k + 1} = 1..k BY <2>1, MaxOfFirst
  <2>3. 1..(k + 1) \in SUBSET DOMAIN more /\ 1..(k + 1) # {}
    <3>1. 1..(k + 1) \subseteq 1..n BY <1>1, <2>1
    <3>2. k + 1 \in 1..(k + 1) BY <2>1
    <3> HIDE DEF n
    <3> QED BY <1>1, <3>1, <3>2
  <2>4. iter[1..(k + 1)] = AppendCrc(iter[1..k], more[k + 1])
    <3> HIDE DEF n
    <3> QED BY <1>6, <2>2, <2>3
  <2> QED BY <2>1, <2>4
<1>9. FoldLeft(AppendCrc, list, more) = out[n] BY <1>1, <1>2
<1> QED BY <1>7, <1>8, <1>9

(* What the first k of more add.                                           *)
WithFirst(wants, more, k) ==
  [x \in Case \X Configuration |->
     wants[x] \cup UNION {more[m].runningFor :
                            m \in {m \in 1..k : <<more[m].case, more[m].configuration>> = x}}]

(* The same for a list of crcs.                                            *)
LEMMA AddAllDescribes ==
  ASSUME NEW wants \in Assigned, NEW list, Describes(list, wants), NEW more \in Seq(Crc)
  PROVE  Describes(FoldLeft(AppendCrc, list, more), WithFirst(wants, more, Len(more)))
<1>1. list \in Seq(Crc) BY DEF Describes
<1>2. PICK out :
           /\ out[0] = list
           /\ \A k \in 0..(Len(more) - 1) : out[k + 1] = AppendCrc(out[k], more[k + 1])
           /\ FoldLeft(AppendCrc, list, more) = out[Len(more)]
  BY <1>1, AddSteps
<1> DEFINE n == Len(more)
           W(k) == WithFirst(wants, more, k)
           T == {k \in Nat : k <= n => Describes(out[k], W(k))}
<1>3. n \in Nat /\ \A i \in 1..n : more[i] \in Crc OBVIOUS
<1>4. 0 \in T
  <2>1. W(0) = wants BY DEF WithFirst, Assigned
  <2> QED BY <1>2, <2>1
<1>5. ASSUME NEW k \in Nat, k \in T PROVE k + 1 \in T
  <2>1. SUFFICES ASSUME k + 1 <= n PROVE Describes(out[k + 1], W(k + 1)) OBVIOUS
  <2>2. Describes(out[k], W(k)) BY <1>3, <1>5, <2>1
  <2>3. k \in 0..(n - 1) /\ more[k + 1] \in Crc BY <1>3, <2>1
  <2>4. W(k) \in Assigned
    <3>1. \A m \in 1..k : more[m].runningFor \in SUBSET Plan
      <4>1. \A m \in 1..k : m \in 1..n BY <1>3, <2>1
      <4> QED BY <1>3, <4>1 DEF Crc
    <3> QED BY <3>1 DEF WithFirst, Assigned
  <2>5. W(k + 1) = With(W(k), more[k + 1])
    <3> DEFINE of(x, j) == {m \in 1..j : <<more[m].case, more[m].configuration>> = x}
    <3>4. ASSUME NEW x \in Case \X Configuration, NEW j \in Nat, NEW y
          PROVE  y \in W(j)[x] <=> y \in wants[x] \/ \E m \in of(x, j) : y \in more[m].runningFor
      BY DEF WithFirst
    <3>1. ASSUME NEW x \in Case \X Configuration
          PROVE  W(k + 1)[x] = With(W(k), more[k + 1])[x]
      <4>1. CASE x = <<more[k + 1].case, more[k + 1].configuration>>
        <5>1. of(x, k + 1) = of(x, k) \cup {k + 1}
          <6>1. \A m : m \in 1..(k + 1) <=> m \in 1..k \/ m = k + 1 OBVIOUS
          <6> QED BY <4>1, <6>1
        <5>2. With(W(k), more[k + 1])[x] = W(k)[x] \cup more[k + 1].runningFor
          BY <4>1 DEF With
        <5>3. ASSUME NEW y
              PROVE  y \in W(k + 1)[x] <=> y \in W(k)[x] \/ y \in more[k + 1].runningFor
          <6> HIDE DEF of, W
          <6>1. k + 1 \in Nat OBVIOUS
          <6> QED BY <3>4, <5>1, <6>1
        <5> HIDE DEF of, W
        <5> QED BY <5>2, <5>3
      <4>2. CASE x # <<more[k + 1].case, more[k + 1].configuration>>
        <5>1. of(x, k + 1) = of(x, k)
          <6>1. \A m : m \in 1..(k + 1) <=> m \in 1..k \/ m = k + 1 OBVIOUS
          <6> QED BY <4>2, <6>1
        <5> QED BY <4>2, <5>1 DEF WithFirst, With
      <4> QED BY <4>1, <4>2
    <3>2. W(k + 1) = [x \in Case \X Configuration |-> W(k + 1)[x]] BY DEF WithFirst
    <3>3. With(W(k), more[k + 1])
            = [x \in Case \X Configuration |-> With(W(k), more[k + 1])[x]] BY DEF With
    <3> HIDE DEF W
    <3> QED BY <3>1, <3>2, <3>3
  <2> HIDE DEF W
  <2>6. Describes(AppendCrc(out[k], more[k + 1]), With(W(k), more[k + 1]))
    BY <2>2, <2>3, <2>4, AppendDescribes
  <2> QED BY <1>2, <2>3, <2>5, <2>6
<1> HIDE DEF T
<1>6. Nat \subseteq T BY <1>4, <1>5, SetInduction
<1>7. n \in T BY <1>3, <1>6
<1>8. Describes(out[n], W(n)) BY <1>3, <1>7 DEF T
<1> QED BY <1>2, <1>8

----------------------------------------------------------------------------
(* Configurations, and what the test plans ask for.                        *)

(* The inputs of the planning are what it takes them for.                  *)
LEMMA PlansAreOK ==
  ASSUME setup \in Setups
  PROVE  PlansOK(setup)
BY PlanningAssumption

(* What a configuration is.                                                *)
LEMMA ConfIs ==
  ASSUME NEW f
  PROVE  f \in Configuration <=>
           \E K \in SUBSET ConfKey : f = [k \in K |-> f[k]] /\ \A k \in K : f[k] \in ConfValue
<1>1. ASSUME f \in Configuration
      PROVE  \E K \in SUBSET ConfKey : f = [k \in K |-> f[k]] /\ \A k \in K : f[k] \in ConfValue
  <2>1. PICK K \in SUBSET ConfKey : f \in [K -> ConfValue] BY <1>1 DEF Configuration
  <2> QED BY <2>1
<1>2. ASSUME NEW K \in SUBSET ConfKey, f = [k \in K |-> f[k]], \A k \in K : f[k] \in ConfValue
      PROVE  f \in Configuration
  <2>1. f \in [K -> ConfValue] BY <1>2
  <2> QED BY <2>1 DEF Configuration
<1> QED BY <1>1, <1>2

(* The empty configuration is one.                                         *)
LEMMA EmptyConf == <<>> \in Configuration
<1>1. <<>> \in [{} -> ConfValue] OBVIOUS
<1> QED BY <1>1 DEF Configuration

(* Two configurations are compatible and merge into f if and only if f has *)
(* just the keys and values of both; they are equal for an intersection.   *)
LEMMA MergedIs ==
  ASSUME NEW s \in Configuration, NEW o \in Configuration,
         Method \in {"intersection", "extension"}
  PROVE  /\ Merged(s, o) \in Configuration
         /\ \A f \in Configuration :
              (Compatible(s, o) /\ f = Merged(s, o))
                <=> /\ PartOf(s, f) /\ PartOf(o, f)
                    /\ DOMAIN f = DOMAIN s \cup DOMAIN o
                    /\ Method = "intersection" => s = o
<1>1. PICK K \in SUBSET ConfKey : s = [k \in K |-> s[k]] /\ \A k \in K : s[k] \in ConfValue
  BY ConfIs
<1>2. PICK L \in SUBSET ConfKey : o = [k \in L |-> o[k]] /\ \A k \in L : o[k] \in ConfValue
  BY ConfIs
<1>3. DOMAIN s = K /\ DOMAIN o = L BY <1>1, <1>2
<1>4. \A f \in Configuration : f = [k \in DOMAIN f |-> f[k]]
  <2> SUFFICES ASSUME NEW f \in Configuration PROVE f = [k \in DOMAIN f |-> f[k]] OBVIOUS
  <2>1. PICK M \in SUBSET ConfKey : f = [k \in M |-> f[k]] /\ \A k \in M : f[k] \in ConfValue
    BY ConfIs
  <2>2. DOMAIN f = M BY <2>1
  <2> QED BY <2>1, <2>2
<1>5. CASE Method = "intersection"
  <2>1. Merged(s, o) = o /\ (Compatible(s, o) <=> s = o) BY <1>5 DEF Merged, Compatible
  <2>2. ASSUME NEW f \in Configuration
        PROVE  (s = o /\ f = o) <=> /\ PartOf(s, f) /\ PartOf(o, f)
                                    /\ DOMAIN f = DOMAIN s \cup DOMAIN o /\ s = o
    <3>1. ASSUME PartOf(o, f), DOMAIN f = DOMAIN o PROVE f = o
      <4>1. \A k \in L : f[k] = o[k] BY <1>3, <3>1 DEF PartOf
      <4>2. f = [k \in L |-> f[k]] BY <1>3, <1>4, <3>1
      <4> QED BY <1>2, <4>1, <4>2
    <3> QED BY <3>1 DEF PartOf
  <2> QED BY <1>5, <2>1, <2>2
<1>6. CASE Method = "extension"
  <2> DEFINE m == [k \in K \cup L |-> IF k \in L THEN o[k] ELSE s[k]]
  <2>1. Merged(s, o) = m /\ (Compatible(s, o) <=> \A k \in K \cap L : s[k] = o[k])
    BY <1>3, <1>6 DEF Merged, Compatible
  <2>2. m \in Configuration
    <3>1. m \in [K \cup L -> ConfValue] BY <1>1, <1>2
    <3>2. K \cup L \in SUBSET ConfKey OBVIOUS
    <3> HIDE DEF m
    <3> QED BY <3>1, <3>2 DEF Configuration
  <2>3. ASSUME NEW f \in Configuration
        PROVE  ((\A k \in K \cap L : s[k] = o[k]) /\ f = m)
                 <=> PartOf(s, f) /\ PartOf(o, f) /\ DOMAIN f = K \cup L
    <3>1. ASSUME \A k \in K \cap L : s[k] = o[k]
          PROVE  PartOf(s, m) /\ PartOf(o, m) /\ DOMAIN m = K \cup L
      BY <1>3, <3>1 DEF PartOf
    <3>2. ASSUME PartOf(s, f), PartOf(o, f), DOMAIN f = K \cup L
          PROVE  (\A k \in K \cap L : s[k] = o[k]) /\ f = m
      <4>1. (\A k \in K : f[k] = s[k]) /\ \A k \in L : f[k] = o[k]
        BY <1>3, <3>2 DEF PartOf
      <4>2. f = [k \in K \cup L |-> f[k]] BY <1>4, <3>2
      <4>3. \A k \in K \cup L : f[k] = IF k \in L THEN o[k] ELSE s[k] BY <4>1
      <4> QED BY <4>1, <4>2, <4>3
    <3> HIDE DEF m
    <3> QED BY <3>1, <3>2
  <2> HIDE DEF m
  <2> QED BY <1>3, <1>6, <2>1, <2>2, <2>3
<1> QED BY <1>5, <1>6

(* Merging one configuration of a test plan with those of a test case.     *)
FitsOf(s, other) == Only(other, {o \in ToSet(other) : Compatible(s, o)})
MergedWith(s, other) ==
  [i \in DOMAIN FitsOf(s, other) |-> Merged(s, FitsOf(s, other)[i])]

(* They are the merges with those of the test case that are compatible.    *)
LEMMA MergedWithIs ==
  ASSUME NEW s \in Configuration, NEW other \in Seq(Configuration),
         Method \in {"intersection", "extension"}
  PROVE  /\ MergedWith(s, other) \in Seq(Configuration)
         /\ \A f : Has(MergedWith(s, other), f)
                     <=> \E o \in ToSet(other) : Compatible(s, o) /\ f = Merged(s, o)
<1> DEFINE fits == FitsOf(s, other)
           S == {o \in ToSet(other) : Compatible(s, o)}
<1>1. fits \in Seq(Configuration) /\ \E f : Picks(fits, f, other, S, Len(other))
  BY OnlyPicks DEF FitsOf
<1>2. PICK f : Picks(fits, f, other, S, Len(other)) BY <1>1
<1>3. \A o : o \in S <=> \E i \in 1..Len(fits) : fits[i] = o
  <2>1. ASSUME NEW o \in S PROVE \E i \in 1..Len(fits) : fits[i] = o
    <3>1. PICK m \in 1..Len(other) : other[m] = o BY DEF ToSet
    <3>2. other[m] \in S BY <3>1
    <3>3. PICK i \in 1..Len(fits) : f[i] = m
      <4> HIDE DEF S, fits
      <4> QED BY <1>2, <3>2 DEF Picks
    <3>4. fits[i] = o
      <4> HIDE DEF S, fits
      <4> QED BY <1>2, <3>1, <3>3 DEF Picks
    <3> QED BY <3>4
  <2>2. \A i \in 1..Len(fits) : fits[i] \in S BY <1>2 DEF Picks
  <2> HIDE DEF S, fits
  <2> QED BY <2>1, <2>2
<1>4. MergedWith(s, other) = [i \in 1..Len(fits) |-> Merged(s, fits[i])] /\ Len(fits) \in Nat
  BY <1>1 DEF MergedWith
<1>5. \A i \in 1..Len(fits) : Merged(s, fits[i]) \in Configuration
  <2>1. \A i \in 1..Len(fits) : fits[i] \in Configuration BY <1>1
  <2> HIDE DEF fits
  <2> QED BY <2>1, MergedIs
<1> HIDE DEF fits
<1>6. MergedWith(s, other) \in Seq(Configuration) /\ Len(MergedWith(s, other)) = Len(fits)
  BY <1>4, <1>5
<1>7. \A m \in 1..Len(fits) : MergedWith(s, other)[m] = Merged(s, fits[m]) BY <1>4
<1> QED BY <1>3, <1>6, <1>7 DEF Has

(* conf is one of those that a test plan and a test case ask for.          *)
WantedConf(self, case, conf) ==
  LET other == IF case.configured THEN ToSet(case.configurations) ELSE {<<>>}
  IN IF self = <<>> THEN conf \in other
     ELSE \E s \in ToSet(self), o \in other :
            /\ PartOf(s, conf) /\ PartOf(o, conf)
            /\ DOMAIN conf = DOMAIN s \cup DOMAIN o
            /\ Method = "intersection" => s = o

(* The merged list has the configurations that both ask for, and no other. *)
LEMMA MergedListIs ==
  ASSUME NEW self \in Seq(Configuration), NEW case \in TestCase,
         Method \in {"intersection", "extension"}
  PROVE  /\ MergedList(self, case) \in Seq(Configuration)
         /\ \A conf \in Configuration :
              Has(MergedList(self, case), conf)
                <=> WantedConf(self, case, conf)
<1> DEFINE other == IF case.configured THEN case.configurations ELSE <<<<>>>>
           lists == [i \in DOMAIN self |-> MergedWith(self[i], other)]
<1>1. other \in Seq(Configuration) BY EmptyConf DEF TestCase
<1>2. ToSet(other) = IF case.configured THEN ToSet(case.configurations) ELSE {<<>>}
  BY DEF ToSet
<1>3. \A c : c \in ToSet(other) <=> \E m \in 1..Len(other) : other[m] = c
  <2> HIDE DEF other
  <2> QED BY <1>1 DEF ToSet
<1>4. CASE self = <<>>
  <2>1. MergedList(self, case) = other BY <1>4 DEF MergedList
  <2> HIDE DEF other
  <2> QED BY <1>1, <1>2, <1>3, <1>4, <2>1 DEF WantedConf, Has
<1>5. CASE self # <<>>
  <2>1. MergedList(self, case) = FlattenSeq(lists)
    BY <1>5 DEF MergedList, MergedWith, FitsOf
  <2> HIDE DEF other
  <2>2. \A i \in 1..Len(self) : self[i] \in Configuration OBVIOUS
  <2>3. \A i \in 1..Len(self) : MergedWith(self[i], other) \in Seq(Configuration)
    BY <1>1, <2>2, MergedWithIs
  <2>4. /\ lists \in Seq(Seq(Configuration)) /\ Len(lists) = Len(self)
        /\ \A i \in 1..Len(self) : lists[i] = MergedWith(self[i], other)
    <3>1. DOMAIN self = 1..Len(self) /\ Len(self) \in Nat OBVIOUS
    <3> QED BY <2>3, <3>1
  <2> HIDE DEF lists
  <2>5. /\ FlattenSeq(lists) \in Seq(Configuration)
        /\ \A x : Has(FlattenSeq(lists), x)
                     <=> \E i \in 1..Len(lists) : Has(lists[i], x)
    BY <2>4, FlattenIs
  <2>6. ASSUME NEW conf \in Configuration
        PROVE  Has(FlattenSeq(lists), conf)
                 <=> WantedConf(self, case, conf)
    <3>1. Has(FlattenSeq(lists), conf)
            <=> \E i \in 1..Len(self) : \E o \in ToSet(other) :
                  Compatible(self[i], o) /\ conf = Merged(self[i], o)
      <4>1. ASSUME NEW i \in 1..Len(self)
            PROVE  Has(lists[i], conf)
                     <=> \E o \in ToSet(other) : Compatible(self[i], o) /\ conf = Merged(self[i], o)
        <5>1. self[i] \in Configuration /\ lists[i] = MergedWith(self[i], other) BY <2>2, <2>4
        <5>2. Has(MergedWith(self[i], other), conf)
                <=> \E o \in ToSet(other) : Compatible(self[i], o) /\ conf = Merged(self[i], o)
          BY <1>1, <5>1, MergedWithIs
        <5> QED BY <5>1, <5>2
      <4> QED BY <2>4, <2>5, <4>1
    <3>2. \A o \in ToSet(other) : o \in Configuration BY <1>1, <1>3
    <3>3. \A i \in 1..Len(self), o \in ToSet(other) :
            (Compatible(self[i], o) /\ conf = Merged(self[i], o))
              <=> /\ PartOf(self[i], conf) /\ PartOf(o, conf)
                  /\ DOMAIN conf = DOMAIN self[i] \cup DOMAIN o
                  /\ Method = "intersection" => self[i] = o
      BY <2>2, <3>2, MergedIs
    <3>4. \A s : s \in ToSet(self) <=> \E i \in 1..Len(self) : self[i] = s
      BY DEF ToSet
    <3>6. \A s \in ToSet(self) : \E i \in 1..Len(self) : self[i] = s BY <3>4
    <3>7. \A i \in 1..Len(self) : self[i] \in ToSet(self) BY <3>4
    <3>5. WantedConf(self, case, conf)
            <=> \E s \in ToSet(self), o \in ToSet(other) :
                  /\ PartOf(s, conf) /\ PartOf(o, conf)
                  /\ DOMAIN conf = DOMAIN s \cup DOMAIN o
                  /\ Method = "intersection" => s = o
      BY <1>2, <1>5 DEF WantedConf
    <3> DEFINE Fits(s, o) == /\ PartOf(s, conf) /\ PartOf(o, conf)
                             /\ DOMAIN conf = DOMAIN s \cup DOMAIN o
                             /\ Method = "intersection" => s = o
    <3>8. Has(FlattenSeq(lists), conf)
            <=> \E i \in 1..Len(self) : \E o \in ToSet(other) : Fits(self[i], o)
      <4> HIDE DEF Fits
      <4>1. \A i \in 1..Len(self), o \in ToSet(other) :
              (Compatible(self[i], o) /\ conf = Merged(self[i], o)) <=> Fits(self[i], o)
        BY <3>3 DEF Fits
      <4> QED BY <3>1, <4>1
    <3>9. WantedConf(self, case, conf)
            <=> \E s \in ToSet(self), o \in ToSet(other) : Fits(s, o)
      BY <3>5
    <3> HIDE DEF Fits
    <3> QED BY <3>6, <3>7, <3>8, <3>9
  <2> QED BY <2>1, <2>5, <2>6
<1> QED BY <1>4, <1>5

(* A test plan asks for what it selects, for its cases, in those configurations. *)
LEMMA AsksIs ==
  ASSUME NEW p, NEW c, NEW conf
  PROVE  Asks(p, c, conf) <=> /\ Selected(p) /\ c \in ToSet(p.cases)
                              /\ WantedConf(p.configurations, setup.cases[c], conf)
BY DEF Asks, WantedConf

(* The crcs of one test case of a test plan, and those of all of them.     *)
CrcsOfCase(p, c) ==
  LET confs == MergedList(p.configurations, setup.cases[c])
  IN [i \in DOMAIN confs |-> [case |-> c, configuration |-> confs[i], runningFor |-> {p.id}]]

(* The crcs of one test case are for the configurations asked for.         *)
LEMMA CrcsOfCaseAre ==
  ASSUME NEW p \in TestPlan, NEW c \in Case, setup.cases \in [Case -> TestCase],
         Method \in {"intersection", "extension"}
  PROVE  /\ CrcsOfCase(p, c) \in Seq(Crc)
         /\ \A x : Has(CrcsOfCase(p, c), x) <=>
              \E conf \in Configuration :
                /\ WantedConf(p.configurations, setup.cases[c], conf)
                /\ x = [case |-> c, configuration |-> conf, runningFor |-> {p.id}]
<1> DEFINE confs == MergedList(p.configurations, setup.cases[c])
<1>1. p.configurations \in Seq(Configuration) /\ p.id \in Plan /\ setup.cases[c] \in TestCase
  BY DEF TestPlan
<1>2. /\ confs \in Seq(Configuration)
      /\ \A conf \in Configuration :
           Has(confs, conf) <=> WantedConf(p.configurations, setup.cases[c], conf)
  BY <1>1, MergedListIs
<1>3. CrcsOfCase(p, c) = [i \in 1..Len(confs) |-> [case |-> c, configuration |-> confs[i],
                                                   runningFor |-> {p.id}]]
  BY <1>2 DEF CrcsOfCase
<1> HIDE DEF confs
<1>4. Len(confs) \in Nat /\ \A i \in 1..Len(confs) : confs[i] \in Configuration BY <1>2
<1>5. CrcsOfCase(p, c) \in Seq(Crc) /\ Len(CrcsOfCase(p, c)) = Len(confs)
  <2>1. \A i \in 1..Len(confs) :
          [case |-> c, configuration |-> confs[i], runningFor |-> {p.id}] \in Crc
    BY <1>1, <1>4 DEF Crc
  <2> QED BY <1>3, <1>4, <2>1
<1>6. \A i \in 1..Len(confs) :
        CrcsOfCase(p, c)[i] = [case |-> c, configuration |-> confs[i], runningFor |-> {p.id}]
  BY <1>3
<1>7. \A x : Has(CrcsOfCase(p, c), x) <=>
        \E i \in 1..Len(confs) : x = [case |-> c, configuration |-> confs[i], runningFor |-> {p.id}]
  BY <1>5, <1>6 DEF Has
<1>8. \A conf \in Configuration :
        (\E i \in 1..Len(confs) : confs[i] = conf)
          <=> WantedConf(p.configurations, setup.cases[c], conf)
  BY <1>2 DEF Has
<1> QED BY <1>4, <1>5, <1>7, <1>8

(* The crcs of a test plan are those it asks for, running for it.          *)
LEMMA CrcsAre ==
  ASSUME NEW p \in TestPlan, Selected(p), setup.cases \in [Case -> TestCase],
         Method \in {"intersection", "extension"}
  PROVE  /\ CrcsOf(p) \in Seq(Crc)
         /\ \A x : Has(CrcsOf(p), x) <=>
              \E c \in Case, conf \in Configuration :
                /\ Asks(p, c, conf)
                /\ x = [case |-> c, configuration |-> conf, runningFor |-> {p.id}]
<1> DEFINE lists == [i \in DOMAIN p.cases |-> CrcsOfCase(p, p.cases[i])]
<1>1. p.cases \in Seq(Case) BY DEF TestPlan
<1>2. CrcsOf(p) = FlattenSeq(lists) BY DEF CrcsOf, CrcsOfCase
<1>3. \A i \in 1..Len(p.cases) : p.cases[i] \in Case BY <1>1
<1>4. \A i \in 1..Len(p.cases) : CrcsOfCase(p, p.cases[i]) \in Seq(Crc) BY <1>3, CrcsOfCaseAre
<1>5. /\ lists \in Seq(Seq(Crc)) /\ Len(lists) = Len(p.cases)
      /\ \A i \in 1..Len(p.cases) : lists[i] = CrcsOfCase(p, p.cases[i])
  <2>1. DOMAIN p.cases = 1..Len(p.cases) /\ Len(p.cases) \in Nat BY <1>1
  <2> QED BY <1>4, <2>1
<1> HIDE DEF lists
<1>6. /\ FlattenSeq(lists) \in Seq(Crc)
      /\ \A x : Has(FlattenSeq(lists), x) <=> \E i \in 1..Len(lists) : Has(lists[i], x)
  BY <1>5, FlattenIs
<1>7. ASSUME NEW x
      PROVE  Has(CrcsOf(p), x) <=>
               \E c \in Case, conf \in Configuration :
                 /\ Asks(p, c, conf)
                 /\ x = [case |-> c, configuration |-> conf, runningFor |-> {p.id}]
  <2> DEFINE Of(c) == \E conf \in Configuration :
                        /\ WantedConf(p.configurations, setup.cases[c], conf)
                        /\ x = [case |-> c, configuration |-> conf, runningFor |-> {p.id}]
  <2>1. ASSUME NEW i \in 1..Len(p.cases) PROVE Has(lists[i], x) <=> Of(p.cases[i])
    <3>1. p.cases[i] \in Case /\ lists[i] = CrcsOfCase(p, p.cases[i]) BY <1>3, <1>5
    <3>2. Has(CrcsOfCase(p, p.cases[i]), x) <=> Of(p.cases[i]) BY <3>1, CrcsOfCaseAre
    <3> QED BY <3>1, <3>2
  <2>2. \A c : c \in ToSet(p.cases) <=> \E i \in 1..Len(p.cases) : p.cases[i] = c
    BY <1>1 DEF ToSet
  <2>3. Has(CrcsOf(p), x) <=> \E c \in ToSet(p.cases) : Of(c)
    <3> HIDE DEF Of
    <3>1. Has(CrcsOf(p), x) <=> \E i \in 1..Len(p.cases) : Has(lists[i], x)
      BY <1>2, <1>5, <1>6
    <3>2. (\E i \in 1..Len(p.cases) : Of(p.cases[i])) <=> \E c \in ToSet(p.cases) : Of(c)
      BY <2>2
    <3> QED BY <2>1, <3>1, <3>2
  <2>4. ToSet(p.cases) \subseteq Case BY <1>3, <2>2
  <2>5. (\E c \in ToSet(p.cases) : Of(c)) <=>
          \E c \in Case, conf \in Configuration :
             /\ Asks(p, c, conf)
             /\ x = [case |-> c, configuration |-> conf, runningFor |-> {p.id}]
    BY <2>4, AsksIs
  <2> QED BY <2>3, <2>5
<1> QED BY <1>2, <1>6, <1>7

----------------------------------------------------------------------------
(* The crcs that are planned.                                              *)

(* For each test case and configuration, those of the first n test plans   *)
(* that ask for it, and those that run_subset leaves of all.               *)
AskedOf(n) ==
  [x \in Case \X Configuration |->
     {setup.plans[k].id : k \in {k \in 1..n : Asks(setup.plans[k], x[1], x[2])}}]
LeftWants == [x \in Case \X Configuration |-> LeftOf(x[1], x[2])]

(* How many test plans were looked at.                                     *)
Done == Len(setup.plans) - Len(plansLeft)

(* The list describes what the test plans looked at ask for, and, filtered, *)
(* what is left of it.                                                     *)
PlanInv ==
  /\ setup \in Setups
  /\ plansLeft \in Seq(TestPlan) /\ Len(plansLeft) <= Len(setup.plans)
  /\ \A k \in 1..Len(plansLeft) : plansLeft[k] = setup.plans[Done + k]
  /\ phase # "ready" => stage = "generate" /\ crcs = <<>> /\ Done = 0
  /\ stage = "generate" => Describes(crcs, AskedOf(Done))
  /\ stage = "filter" => Describes(crcs, AskedOf(Len(setup.plans)))
  /\ stage \in {"workflows", "senders", "planned"} => Describes(crcs, LeftWants)

(* The empty list describes that nothing is wanted.                        *)
LEMMA NothingWanted ==
  ASSUME NEW wants, \A c \in Case, conf \in Configuration : wants[<<c, conf>>] = {}
  PROVE  Describes(<<>>, wants)
<1>1. <<>> \in Seq(Crc) /\ Len(<<>>) = 0 OBVIOUS
<1>2. 1..0 = {} OBVIOUS
<1> QED BY <1>1, <1>2 DEF Describes

(* What a test plan asks for depends on the setup and the settings only.   *)
LEMMA AsksStays ==
  ASSUME NEW p, NEW c, NEW conf, UNCHANGED <<setup, settings>>
  PROVE  Asks(p, c, conf)' <=> Asks(p, c, conf)
BY DEF Asks, Selected, Method, Setting, Get, Places

(* So does what all of them ask for, and what is left of it.               *)
LEMMA WantsStay ==
  ASSUME UNCHANGED <<setup, settings>>
  PROVE  /\ \A n : AskedOf(n)' = AskedOf(n)
         /\ LeftWants' = LeftWants
<1>1. \A p, c, conf : Asks(p, c, conf)' <=> Asks(p, c, conf) BY AsksStays
<1>2. ASSUME NEW n PROVE AskedOf(n)' = AskedOf(n)
  BY <1>1 DEF AskedOf
<1>3. ASSUME NEW c, NEW conf PROVE LeftOf(c, conf)' = LeftOf(c, conf)
  BY <1>1 DEF LeftOf, AskedBy
<1>4. LeftWants' = LeftWants BY <1>3 DEF LeftWants
<1> QED BY <1>2, <1>4

(* The preparation, once ready, leaves the settings alone.                 *)
LEMMA PrepStays ==
  ASSUME PreparationNext
  PROVE  /\ setup' = setup
         /\ phase = "ready" => UNCHANGED <<phase, settings>>
<1>1. CASE Construct BY <1>1 DEF Construct
<1>2. CASE UseDirectPath BY <1>2 DEF UseDirectPath
<1>3. CASE DeriveBranch BY <1>3 DEF DeriveBranch
<1>4. CASE TryBranch BY <1>4 DEF TryBranch
<1>5. CASE LoadLibrary BY <1>5 DEF LoadLibrary
<1>6. CASE \E t \in Thread : Ask(t)
  BY <1>6 DEF Ask, AskAvailable, BeginConvert, Convert, Decline, ConvertRaises, cloning
<1> QED BY <1>1, <1>2, <1>3, <1>4, <1>5, <1>6 DEF PreparationNext

(* The invariant holds at first.                                           *)
LEMMA PlanInit == PlanningInit => PlanInv
<1> SUFFICES ASSUME PlanningInit PROVE PlanInv OBVIOUS
<1>1. /\ setup \in Setups /\ phase = "start" /\ stage = "generate" /\ plansLeft = setup.plans
      /\ crcs = <<>>
  BY DEF PlanningInit, PreparationInit
<1>2. setup.plans \in Seq(TestPlan) BY <1>1, PlansAreOK DEF PlansOK
<1>3. Len(setup.plans) \in Nat BY <1>2
<1>4. Done = 0 BY <1>1, <1>3 DEF Done
<1>5. \A k \in 1..Len(plansLeft) : plansLeft[k] = setup.plans[Done + k] BY <1>1, <1>3, <1>4
<1>6. Describes(crcs, AskedOf(Done))
  <2>1. 1..0 = {} OBVIOUS
  <2>2. \A c \in Case, conf \in Configuration : AskedOf(0)[<<c, conf>>] = {}
    BY <2>1 DEF AskedOf
  <2> QED BY <1>1, <1>4, <2>2, NothingWanted
<1> QED BY <1>1, <1>2, <1>3, <1>4, <1>5, <1>6 DEF PlanInv

(* No step of the preparation violates it: nothing is planned until it is  *)
(* ready, and then it only answers requests for structures.                *)
LEMMA PlanUnderPreparation ==
  ASSUME PlanInv, PreparationNext, UNCHANGED planningVars
  PROVE  PlanInv'
<1>1. setup' = setup /\ (phase = "ready" => UNCHANGED <<phase, settings>>) BY PrepStays
<1>2. UNCHANGED <<stage, plansLeft, crcs>> BY DEF planningVars
<1>3. Done' = Done BY <1>1, <1>2 DEF Done
<1>4. CASE phase = "ready"
  <2>1. UNCHANGED <<phase, settings>> BY <1>1, <1>4
  <2>2. \A n : AskedOf(n)' = AskedOf(n) BY <1>1, <2>1, WantsStay
  <2>3. LeftWants' = LeftWants BY <1>1, <2>1, WantsStay
  <2>4. AskedOf(Done)' = AskedOf(Done)
    <3>1. \A p, c, conf : Asks(p, c, conf)' <=> Asks(p, c, conf) BY <1>1, <2>1, AsksStays
    <3> QED BY <1>1, <1>3, <3>1 DEF AskedOf
  <2>5. AskedOf(Len(setup.plans))' = AskedOf(Len(setup.plans)) BY <1>1, <2>2
  <2> QED BY <1>1, <1>2, <1>3, <2>1, <2>3, <2>4, <2>5 DEF PlanInv, Describes, Same
<1>5. CASE phase # "ready"
  <2>1. stage = "generate" /\ crcs = <<>> /\ Done = 0 BY <1>5 DEF PlanInv
  <2>2. Done' = 0 /\ 1..0 = {} BY <1>3, <2>1
  <2> DEFINE wants == AskedOf(Done)'
  <2>4. \A c \in Case, conf \in Configuration : wants[<<c, conf>>] = {}
    BY <2>2 DEF AskedOf
  <2> HIDE DEF wants
  <2>5. Describes(<<>>, wants) BY <2>4, NothingWanted
  <2>3. Describes(crcs, AskedOf(Done))' BY <1>2, <2>1, <2>5 DEF wants, Describes, Same
  <2> QED BY <1>1, <1>2, <1>3, <2>1, <2>3 DEF PlanInv
<1> QED BY <1>4, <1>5

(* What the next test plan adds to those that ask.                         *)
LEMMA AskedNext ==
  ASSUME NEW n \in Nat, NEW x \in Case \X Configuration, NEW y
  PROVE  y \in AskedOf(n + 1)[x] <=>
           \/ y \in AskedOf(n)[x]
           \/ y = setup.plans[n + 1].id /\ Asks(setup.plans[n + 1], x[1], x[2])
<1> DEFINE Is(k) == y = setup.plans[k].id /\ Asks(setup.plans[k], x[1], x[2])
<1>1. \A m \in Nat : y \in AskedOf(m)[x] <=> \E k \in 1..m : Is(k) BY DEF AskedOf
<1>2. n + 1 \in Nat /\ \A k : k \in 1..(n + 1) <=> k \in 1..n \/ k = n + 1 OBVIOUS
<1> HIDE DEF Is
<1>3. y \in AskedOf(n + 1)[x] <=> y \in AskedOf(n)[x] \/ Is(n + 1) BY <1>1, <1>2
<1> QED BY <1>3 DEF Is

(* Those that ask for something are test plans.                            *)
LEMMA AskedIsAssigned ==
  ASSUME NEW n \in 0..Len(setup.plans), setup.plans \in Seq(TestPlan)
  PROVE  AskedOf(n) \in Assigned
<1>1. \A k \in 1..n : setup.plans[k] \in TestPlan OBVIOUS
<1>2. \A k \in 1..n : setup.plans[k].id \in Plan BY <1>1 DEF TestPlan
<1> QED BY <1>2 DEF AskedOf, Assigned

(* The crcs of the next test plan add it to those that ask.                *)
LEMMA AddedAsked ==
  ASSUME NEW n \in Nat, n + 1 \in 1..Len(setup.plans), setup \in Setups,
         Selected(setup.plans[n + 1]), Method \in {"intersection", "extension"}
  PROVE  WithFirst(AskedOf(n), CrcsOf(setup.plans[n + 1]), Len(CrcsOf(setup.plans[n + 1])))
           = AskedOf(n + 1)
<1> DEFINE p == setup.plans[n + 1]
           more == CrcsOf(p)
           W == WithFirst(AskedOf(n), more, Len(more))
<1>1. p \in TestPlan /\ setup.cases \in [Case -> TestCase] BY PlansAreOK DEF PlansOK
<1>2. /\ more \in Seq(Crc)
      /\ \A x : Has(more, x) <=>
           \E c \in Case, conf \in Configuration :
             /\ Asks(p, c, conf)
             /\ x = [case |-> c, configuration |-> conf, runningFor |-> {p.id}]
  BY <1>1, CrcsAre
<1> HIDE DEF more
<1>3. ASSUME NEW x \in Case \X Configuration, NEW y
      PROVE  y \in W[x] <=> y \in AskedOf(n + 1)[x]
  <2> DEFINE At(m) == <<more[m].case, more[m].configuration>> = x
  <2>1. y \in W[x] <=> y \in AskedOf(n)[x]
                       \/ \E m \in 1..Len(more) : At(m) /\ y \in more[m].runningFor
    BY DEF WithFirst
  <2>2. x = <<x[1], x[2]>> /\ x[1] \in Case /\ x[2] \in Configuration OBVIOUS
  <2>3. ASSUME NEW m \in 1..Len(more), At(m), y \in more[m].runningFor
        PROVE  y = p.id /\ Asks(p, x[1], x[2])
    <3>1. Has(more, more[m]) BY DEF Has
    <3>2. PICK c \in Case, conf \in Configuration :
             /\ Asks(p, c, conf)
             /\ more[m] = [case |-> c, configuration |-> conf, runningFor |-> {p.id}]
      BY <1>2, <3>1
    <3>3. x = <<c, conf>> BY <2>3, <3>2
    <3>4. x[1] = c /\ x[2] = conf BY <3>3
    <3>5. y = p.id BY <2>3, <3>2
    <3> QED BY <3>2, <3>4, <3>5
  <2>4. ASSUME y = p.id, Asks(p, x[1], x[2])
        PROVE  \E m \in 1..Len(more) : At(m) /\ y \in more[m].runningFor
    <3> DEFINE crc == [case |-> x[1], configuration |-> x[2], runningFor |-> {p.id}]
    <3>1. Has(more, crc) BY <1>2, <2>2, <2>4
    <3>2. PICK m \in 1..Len(more) : more[m] = crc BY <3>1 DEF Has
    <3>3. more[m].case = x[1] /\ more[m].configuration = x[2] /\ more[m].runningFor = {p.id}
      BY <3>2
    <3>4. At(m) BY <2>2, <3>3
    <3>5. y \in more[m].runningFor BY <2>4, <3>3
    <3> QED BY <3>4, <3>5
  <2> HIDE DEF W, At
  <2>5. y \in AskedOf(n + 1)[x] <=> y \in AskedOf(n)[x] \/ (y = p.id /\ Asks(p, x[1], x[2]))
    BY AskedNext
  <2> QED BY <2>1, <2>3, <2>4, <2>5
<1>4. W = [x \in Case \X Configuration |-> W[x]] BY DEF WithFirst
<1>5. AskedOf(n + 1) = [x \in Case \X Configuration |-> AskedOf(n + 1)[x]] BY DEF AskedOf
<1> HIDE DEF W
<1>6. \A x \in Case \X Configuration : W[x] = AskedOf(n + 1)[x] BY <1>3
<1>7. W = AskedOf(n + 1) BY <1>4, <1>5, <1>6
<1> QED BY <1>7 DEF W, more

(* Adding a test plan keeps the invariant, selected or not.                *)
LEMMA AddingPreserves ==
  ASSUME PlanInv, AddTestPlan, UNCHANGED preparationVars
  PROVE  PlanInv'
<1> DEFINE n == Done
           p == setup.plans[n + 1]
<1>1. /\ UNCHANGED <<setup, phase, settings, stage>> /\ phase = "ready" /\ stage = "generate"
      /\ plansLeft # <<>> /\ plansLeft' = Tail(plansLeft)
  BY DEF AddTestPlan, preparationVars
<1>2. /\ setup \in Setups /\ plansLeft \in Seq(TestPlan) /\ Len(plansLeft) <= Len(setup.plans)
      /\ \A k \in 1..Len(plansLeft) : plansLeft[k] = setup.plans[n + k]
      /\ Describes(crcs, AskedOf(n))
  BY <1>1 DEF PlanInv
<1>3. setup.plans \in Seq(TestPlan) BY <1>2, PlansAreOK DEF PlansOK
<1>4. /\ Len(setup.plans) \in Nat /\ Len(plansLeft) \in Nat /\ Len(plansLeft) >= 1
      /\ n = Len(setup.plans) - Len(plansLeft)
  BY <1>1, <1>2, <1>3 DEF Done
<1>5. /\ plansLeft' \in Seq(TestPlan) /\ Len(plansLeft') = Len(plansLeft) - 1
      /\ \A k \in 1..(Len(plansLeft) - 1) : plansLeft'[k] = plansLeft[k + 1]
  BY <1>1, <1>2
<1>6. Done' = n + 1 BY <1>1, <1>4, <1>5 DEF Done
<1>7. n \in Nat /\ n + 1 \in 1..Len(setup.plans) /\ n \in 0..Len(setup.plans)
  <2> HIDE DEF n
  <2> QED BY <1>2, <1>4
<1>8. Head(plansLeft) = p
  <2>1. Head(plansLeft) = plansLeft[1] /\ 1 \in 1..Len(plansLeft) BY <1>1, <1>2, <1>4
  <2> QED BY <1>2, <2>1
<1>9. \A k \in 1..Len(plansLeft') : plansLeft'[k] = setup'.plans[Done' + k]
  <2> SUFFICES ASSUME NEW k \in 1..(Len(plansLeft) - 1)
               PROVE  plansLeft'[k] = setup.plans[n + 1 + k]
    BY <1>1, <1>5, <1>6
  <2> HIDE DEF n
  <2>1. k \in Int /\ k + 1 \in 1..Len(plansLeft) BY <1>4
  <2>2. n + (k + 1) = n + 1 + k BY <1>7, <2>1
  <2> QED BY <1>2, <1>5, <2>1, <2>2
<1> HIDE DEF n
<1>12. /\ Selected(p) => Method \in {"intersection", "extension"}
       /\ crcs' = IF Selected(p) THEN FoldLeft(AppendCrc, crcs, CrcsOf(p)) ELSE crcs
  BY <1>8 DEF AddTestPlan
<1>13. Describes(crcs', AskedOf(n + 1))
  <2>1. CASE Selected(p)
    <3>1. p \in TestPlan /\ setup.cases \in [Case -> TestCase]
      BY <1>2, <1>7, PlansAreOK DEF PlansOK
    <3>2. CrcsOf(p) \in Seq(Crc) BY <1>12, <2>1, <3>1, CrcsAre
    <3>3. AskedOf(n) \in Assigned BY <1>3, <1>7, AskedIsAssigned
    <3>4. Describes(FoldLeft(AppendCrc, crcs, CrcsOf(p)),
                    WithFirst(AskedOf(n), CrcsOf(p), Len(CrcsOf(p))))
      BY <1>2, <3>2, <3>3, AddAllDescribes
    <3>5. WithFirst(AskedOf(n), CrcsOf(p), Len(CrcsOf(p))) = AskedOf(n + 1)
      BY <1>2, <1>7, <1>12, <2>1, AddedAsked
    <3> QED BY <1>12, <2>1, <3>4, <3>5
  <2>2. CASE ~Selected(p)
    <3>1. \A c, conf : ~Asks(p, c, conf) BY <2>2, AsksIs
    <3>2. ASSUME NEW x \in Case \X Configuration
          PROVE  AskedOf(n + 1)[x] = AskedOf(n)[x]
      <4>1. \A y : y \in AskedOf(n + 1)[x] <=> y \in AskedOf(n)[x]
        BY <1>7, <3>1, AskedNext
      <4> HIDE DEF p
      <4> QED BY <4>1
    <3>3. \A m : AskedOf(m) = [x \in Case \X Configuration |-> AskedOf(m)[x]] BY DEF AskedOf
    <3>4. AskedOf(n + 1) = AskedOf(n) BY <3>2, <3>3
    <3> QED BY <1>2, <1>12, <2>2, <3>4
  <2> QED BY <2>1, <2>2
<1>14. Describes(crcs, AskedOf(Done))'
  <2>1. AskedOf(Done)' = AskedOf(n + 1)
    <3>1. \A q, c, conf : Asks(q, c, conf)' <=> Asks(q, c, conf) BY <1>1, AsksStays
    <3> QED BY <1>1, <1>6, <3>1 DEF AskedOf
  <2> QED BY <1>13, <2>1 DEF Describes, Same
<1> QED BY <1>1, <1>2, <1>4, <1>5, <1>9, <1>14 DEF PlanInv

(* What the crcs of a list are.                                            *)
LEMMA CrcsHave ==
  ASSUME NEW list, list \in Seq(Crc)
  PROVE  /\ DOMAIN list = 1..Len(list) /\ Len(list) \in Nat
         /\ \A i \in 1..Len(list) :
              /\ list[i] \in Crc /\ list[i].case \in Case
              /\ list[i].configuration \in Configuration
<1>1. DOMAIN list = 1..Len(list) /\ Len(list) \in Nat /\ \A i \in 1..Len(list) : list[i] \in Crc
  OBVIOUS
<1> QED BY <1>1 DEF Crc

(* The test plans that ask are those among all of them.                    *)
LEMMA AskedByIs ==
  ASSUME setup.plans \in Seq(TestPlan), NEW c \in Case, NEW conf \in Configuration
  PROVE  AskedBy(c, conf) = AskedOf(Len(setup.plans))[<<c, conf>>]
<1> DEFINE N == Len(setup.plans)
           Is(k, y) == y = setup.plans[k].id /\ Asks(setup.plans[k], c, conf)
<1>1. \A q : q \in ToSet(setup.plans) <=> \E k \in 1..N : setup.plans[k] = q BY DEF ToSet
<1>2. ASSUME NEW y PROVE y \in AskedBy(c, conf) <=> \E k \in 1..N : Is(k, y)
  <2>1. y \in AskedBy(c, conf)
          <=> \E q \in ToSet(setup.plans) : Asks(q, c, conf) /\ y = q.id
    BY DEF AskedBy
  <2> QED BY <1>1, <2>1
<1>3. ASSUME NEW y PROVE y \in AskedOf(N)[<<c, conf>>] <=> \E k \in 1..N : Is(k, y)
  <2>1. <<c, conf>> \in Case \X Configuration /\ <<c, conf>>[1] = c /\ <<c, conf>>[2] = conf
    OBVIOUS
  <2>2. AskedOf(N)[<<c, conf>>]
          = {setup.plans[k].id : k \in {k \in 1..N : Asks(setup.plans[k], c, conf)}}
    BY <2>1 DEF AskedOf
  <2> QED BY <2>2
<1> HIDE DEF Is
<1>4. \A y : y \in AskedBy(c, conf) <=> y \in AskedOf(N)[<<c, conf>>] BY <1>2, <1>3
<1> QED BY <1>4

(* What run_subset leaves of a list is what it leaves of what is asked for. *)
LEMMA FilteredDescribes ==
  ASSUME setup \in Setups, setup.subset.on, Describes(crcs, AskedOf(Len(setup.plans))),
         NEW narrowed, narrowed = [i \in DOMAIN crcs |-> Narrowed(crcs[i])]
  PROVE  Describes(Only(narrowed, {crc \in ToSet(narrowed) : Passes(crc)}), LeftWants)
<1> DEFINE n == Len(crcs)
           S == {crc \in ToSet(narrowed) : Passes(crc)}
           chosen == Only(narrowed, S)
           In == setup.subset.plans \cap setup.subset.queriedPlans
           Asked(i) == AskedOf(Len(setup.plans))[<<crcs[i].case, crcs[i].configuration>>]
<1>0. crcs \in Seq(Crc) BY DEF Describes
<1>1. /\ crcs \in Seq(Crc) /\ n \in Nat /\ DOMAIN crcs = 1..n /\ \A i \in 1..n : crcs[i] \in Crc
      /\ \A i, j \in 1..n : Same(crcs[i], crcs[j]) => i = j
      /\ \A c \in Case, conf \in Configuration :
           AskedOf(Len(setup.plans))[<<c, conf>>] # {} =>
             \E i \in 1..n : crcs[i].case = c /\ crcs[i].configuration = conf
      /\ \A i \in 1..n : crcs[i].runningFor = Asked(i)
  BY <1>0, CrcsHave DEF Describes
<1> HIDE DEF Asked
<1>2. setup.plans \in Seq(TestPlan) BY PlansAreOK DEF PlansOK
<1>3. ASSUME NEW i \in 1..n
      PROVE  /\ narrowed[i] \in Crc
             /\ narrowed[i].case = crcs[i].case
             /\ narrowed[i].configuration = crcs[i].configuration
             /\ narrowed[i].runningFor = crcs[i].runningFor \cap In
  <2>1. crcs[i] \in Crc BY <1>1
  <2>2. narrowed[i] = [crcs[i] EXCEPT !.runningFor
                         = @ \cap setup.subset.plans \cap setup.subset.queriedPlans]
    <3>1. narrowed[i] = Narrowed(crcs[i]) BY <1>1
    <3> QED BY <3>1 DEF Narrowed
  <2> QED BY <2>1, <2>2 DEF Crc
<1>4. narrowed \in Seq(Crc) /\ Len(narrowed) = n
  <2>1. narrowed = [i \in 1..n |-> narrowed[i]] BY <1>1
  <2> HIDE DEF n
  <2> QED BY <1>1, <1>3, <2>1
<1> HIDE DEF n, In, chosen
<1>5. chosen \in Seq(Crc) /\ \E f : Picks(chosen, f, narrowed, S, n)
  <2> HIDE DEF S
  <2> QED BY <1>4, OnlyPicks DEF chosen
<1>6. PICK f : Picks(chosen, f, narrowed, S, n) BY <1>5
<1>7. \A x : x \in S <=> Passes(x) /\ \E i \in 1..n : narrowed[i] = x
  BY <1>4 DEF ToSet
<1> HIDE DEF S
<1>8. /\ \A i \in 1..Len(chosen) : f[i] \in 1..n
      /\ \A i, j \in 1..Len(chosen) : f[i] = f[j] => i = j
      /\ \A i \in 1..Len(chosen) : chosen[i] = narrowed[f[i]] /\ chosen[i] \in S
      /\ \A m \in 1..n : narrowed[m] \in S => \E i \in 1..Len(chosen) : f[i] = m
  BY <1>6 DEF Picks
<1>9. ASSUME NEW i \in 1..Len(chosen)
      PROVE  /\ f[i] \in 1..n /\ Passes(chosen[i])
             /\ chosen[i].case = crcs[f[i]].case
             /\ chosen[i].configuration = crcs[f[i]].configuration
             /\ chosen[i].runningFor = crcs[f[i]].runningFor \cap In
  <2>1. f[i] \in 1..n /\ chosen[i] = narrowed[f[i]] /\ Passes(chosen[i]) BY <1>7, <1>8
  <2> QED BY <1>3, <2>1
<1>10. ASSUME NEW crc \in Crc
       PROVE  Passes(crc) <=>
                /\ crc.runningFor # {} /\ crc.case \in setup.subset.cases
                /\ \E w \in setup.subset.configurations : PartOf(w, crc.configuration)
  BY DEF Passes, HasConfiguration, PartOf
<1>11. ASSUME NEW c \in Case, NEW conf \in Configuration
       PROVE  LeftWants[<<c, conf>>] =
                IF c \in setup.subset.cases
                   /\ \E w \in setup.subset.configurations : PartOf(w, conf)
                THEN AskedOf(Len(setup.plans))[<<c, conf>>] \cap In ELSE {}
  <2>1. LeftWants[<<c, conf>>] = LeftOf(c, conf)
    <3>1. <<c, conf>> \in Case \X Configuration /\ <<c, conf>>[1] = c /\ <<c, conf>>[2] = conf
      OBVIOUS
    <3> QED BY <3>1 DEF LeftWants
  <2>2. AskedBy(c, conf) = AskedOf(Len(setup.plans))[<<c, conf>>] BY <1>2, AskedByIs
  <2>3. LeftOf(c, conf) =
          IF c \in setup.subset.cases /\ \E w \in setup.subset.configurations : PartOf(w, conf)
          THEN AskedBy(c, conf) \cap setup.subset.plans \cap setup.subset.queriedPlans ELSE {}
    BY DEF LeftOf
  <2>4. \A T : T \cap setup.subset.plans \cap setup.subset.queriedPlans = T \cap In BY DEF In
  <2> QED BY <2>1, <2>2, <2>3, <2>4
<1>12. \A i, j \in 1..Len(chosen) : Same(chosen[i], chosen[j]) => i = j
  <2> SUFFICES ASSUME NEW i \in 1..Len(chosen), NEW j \in 1..Len(chosen),
                      Same(chosen[i], chosen[j])
               PROVE  i = j
    OBVIOUS
  <2>1. f[i] \in 1..n /\ f[j] \in 1..n BY <1>9
  <2>2. Same(crcs[f[i]], crcs[f[j]]) BY <1>9 DEF Same
  <2>3. f[i] = f[j] BY <1>1, <2>1, <2>2
  <2> QED BY <1>8, <2>3
<1>13. ASSUME NEW c \in Case, NEW conf \in Configuration, LeftWants[<<c, conf>>] # {}
       PROVE  \E i \in 1..Len(chosen) : chosen[i].case = c /\ chosen[i].configuration = conf
  <2>1. /\ c \in setup.subset.cases /\ \E w \in setup.subset.configurations : PartOf(w, conf)
        /\ AskedOf(Len(setup.plans))[<<c, conf>>] \cap In # {}
    BY <1>11, <1>13
  <2>2. PICK m \in 1..n : crcs[m].case = c /\ crcs[m].configuration = conf
    BY <1>1, <2>1
  <2>3. narrowed[m].runningFor # {}
    <3>1. crcs[m].runningFor = AskedOf(Len(setup.plans))[<<c, conf>>] BY <1>1, <2>2 DEF Asked
    <3> QED BY <1>3, <2>1, <3>1
  <2>4. Passes(narrowed[m]) BY <1>3, <1>10, <2>1, <2>2, <2>3
  <2>5. narrowed[m] \in S BY <1>7, <2>4
  <2>6. PICK i \in 1..Len(chosen) : f[i] = m BY <1>8, <2>5
  <2> QED BY <1>9, <2>2, <2>6
<1>14. ASSUME NEW i \in 1..Len(chosen)
       PROVE  chosen[i].runningFor = LeftWants[<<chosen[i].case, chosen[i].configuration>>]
  <2>1. /\ chosen[i] \in Crc /\ chosen[i].case \in Case /\ chosen[i].configuration \in Configuration
    BY <1>5, CrcsHave
  <2>2. /\ chosen[i].case \in setup.subset.cases
        /\ \E w \in setup.subset.configurations : PartOf(w, chosen[i].configuration)
    BY <1>9, <1>10, <2>1
  <2>3. LeftWants[<<chosen[i].case, chosen[i].configuration>>]
          = AskedOf(Len(setup.plans))[<<chosen[i].case, chosen[i].configuration>>] \cap In
    BY <1>11, <2>1, <2>2
  <2>4. crcs[f[i]].runningFor
          = AskedOf(Len(setup.plans))[<<chosen[i].case, chosen[i].configuration>>]
    <3>1. f[i] \in 1..n BY <1>9
    <3>2. crcs[f[i]].runningFor = Asked(f[i]) BY <1>1, <3>1
    <3>3. chosen[i].case = crcs[f[i]].case /\ chosen[i].configuration = crcs[f[i]].configuration
      BY <1>9
    <3> QED BY <3>2, <3>3 DEF Asked
  <2> QED BY <1>9, <2>3, <2>4
<1>15. Describes(chosen, LeftWants) BY <1>5, <1>12, <1>13, <1>14 DEF Describes
<1> QED BY <1>15 DEF chosen, S

(* run_subset keeps the invariant, with what it leaves instead of all.     *)
LEMMA FilteringPreserves ==
  ASSUME PlanInv, FilterSubset, UNCHANGED preparationVars
  PROVE  PlanInv'
<1>1. /\ UNCHANGED <<setup, phase, settings, plansLeft>> /\ stage = "filter"
      /\ stage' = "workflows" /\ setup \in Setups
      /\ Describes(crcs, AskedOf(Len(setup.plans))) /\ phase = "ready"
  BY DEF FilterSubset, preparationVars, PlanInv
<1>2. setup.plans \in Seq(TestPlan) BY <1>1, PlansAreOK DEF PlansOK
<1>3. Describes(crcs', LeftWants)
  <2>1. CASE setup.subset.on
    <3> DEFINE narrowed == [i \in DOMAIN crcs |-> Narrowed(crcs[i])]
    <3>1. crcs' = Only(narrowed, {crc \in ToSet(narrowed) : Passes(crc)})
      BY <2>1 DEF FilterSubset
    <3> HIDE DEF narrowed
    <3>2. narrowed = [i \in DOMAIN crcs |-> Narrowed(crcs[i])] BY DEF narrowed
    <3> QED BY <1>1, <2>1, <3>1, <3>2, FilteredDescribes
  <2>2. CASE ~setup.subset.on
    <3>1. crcs' = crcs BY <2>2 DEF FilterSubset
    <3>2. ASSUME NEW c \in Case, NEW conf \in Configuration
          PROVE  LeftWants[<<c, conf>>] = AskedOf(Len(setup.plans))[<<c, conf>>]
      <4>1. <<c, conf>> \in Case \X Configuration /\ <<c, conf>>[1] = c /\ <<c, conf>>[2] = conf
        OBVIOUS
      <4>2. LeftWants[<<c, conf>>] = LeftOf(c, conf) BY <4>1 DEF LeftWants
      <4>3. LeftOf(c, conf) = AskedBy(c, conf) BY <2>2 DEF LeftOf
      <4> QED BY <1>2, <4>2, <4>3, AskedByIs
    <3>3. \A i \in 1..Len(crcs) : crcs[i].case \in Case /\ crcs[i].configuration \in Configuration
      BY <1>1, CrcsHave DEF Describes
    <3> QED BY <1>1, <3>1, <3>2, <3>3 DEF Describes
  <2> QED BY <2>1, <2>2
<1>4. LeftWants' = LeftWants BY <1>1, WantsStay
<1>5. Describes(crcs, LeftWants)' BY <1>3, <1>4 DEF Describes, Same
<1>6. Done' = Done BY <1>1 DEF Done
<1> QED BY <1>1, <1>5, <1>6 DEF PlanInv

(* Every step keeps the invariant.                                         *)
LEMMA PlanPreserved ==
  ASSUME PlanInv, [PlanningNext]_<<preparationVars, planningVars>>
  PROVE  PlanInv'
<1>1. CASE PreparationNext /\ UNCHANGED planningVars BY <1>1, PlanUnderPreparation
<1>2. ASSUME PlanStep, UNCHANGED preparationVars PROVE PlanInv'
  <2>1. UNCHANGED <<setup, phase, settings>> BY <1>2 DEF preparationVars
  <2>2. (\A n : AskedOf(n)' = AskedOf(n)) /\ LeftWants' = LeftWants BY <2>1, WantsStay
  <2>3. AskedOf(Len(setup.plans))' = AskedOf(Len(setup.plans)) BY <2>1, <2>2
  <2>4. CASE AddTestPlan BY <1>2, <2>4, AddingPreserves
  <2>5. CASE MethodUnknown
    <3>1. UNCHANGED <<plansLeft, crcs>> /\ stage' = "raised" /\ phase = "ready"
      BY <2>5 DEF MethodUnknown
    <3> QED BY <2>1, <3>1 DEF PlanInv, Done
  <2>6. CASE Generated
    <3>1. /\ UNCHANGED <<plansLeft, crcs>> /\ stage' = "filter" /\ phase = "ready"
          /\ plansLeft = <<>> /\ stage = "generate"
      BY <2>6 DEF Generated
    <3>2. Done = Len(setup.plans)
      <4>1. setup.plans \in Seq(TestPlan) BY PlansAreOK DEF PlansOK, PlanInv
      <4>2. Len(setup.plans) \in Nat /\ Len(plansLeft) = 0 BY <3>1, <4>1
      <4> QED BY <4>2 DEF Done
    <3>3. Describes(crcs, AskedOf(Len(setup.plans))) BY <3>1, <3>2 DEF PlanInv
    <3>4. Describes(crcs, AskedOf(Len(setup.plans)))' BY <2>3, <3>1, <3>3 DEF Describes, Same
    <3> QED BY <2>1, <3>1, <3>4 DEF PlanInv, Done
  <2>7. CASE FilterSubset BY <1>2, <2>7, FilteringPreserves
  <2>8. CASE AssignWorkflows \/ AssignSenders
    <3>1. /\ UNCHANGED <<plansLeft, crcs>> /\ stage' \in {"senders", "planned"}
          /\ stage \in {"workflows", "senders"}
      BY <2>8 DEF AssignWorkflows, AssignSenders
    <3>2. Describes(crcs, LeftWants) BY <3>1 DEF PlanInv
    <3>3. Describes(crcs, LeftWants)' BY <2>2, <3>1, <3>2 DEF Describes, Same
    <3> QED BY <2>1, <3>1, <3>3 DEF PlanInv, Done
  <2> QED BY <1>2, <2>4, <2>5, <2>6, <2>7, <2>8 DEF PlanStep
<1>3. CASE UNCHANGED <<preparationVars, planningVars>>
  <2>1. UNCHANGED <<setup, phase, settings, stage, plansLeft, crcs>>
    BY <1>3 DEF preparationVars, planningVars
  <2>2. (\A n : AskedOf(n)' = AskedOf(n)) /\ LeftWants' = LeftWants BY <2>1, WantsStay
  <2>3. AskedOf(Len(setup.plans))' = AskedOf(Len(setup.plans)) BY <2>1, <2>2
  <2>4. AskedOf(Done)' = AskedOf(Done)
    <3>1. \A q, c, conf : Asks(q, c, conf)' <=> Asks(q, c, conf) BY <2>1, AsksStays
    <3>2. Done' = Done BY <2>1 DEF Done
    <3> QED BY <2>1, <3>1, <3>2 DEF AskedOf
  <2>5. Done' = Done BY <2>1 DEF Done
  <2>6. Describes(crcs, AskedOf(Done))' <=> Describes(crcs, AskedOf(Done))
    BY <2>1, <2>4 DEF Describes, Same
  <2>7. /\ Describes(crcs, AskedOf(Len(setup.plans)))' <=> Describes(crcs, AskedOf(Len(setup.plans)))
        /\ Describes(crcs, LeftWants)' <=> Describes(crcs, LeftWants)
    BY <2>1, <2>2, <2>3 DEF Describes, Same
  <2> QED BY <2>1, <2>5, <2>6, <2>7 DEF PlanInv
<1> QED BY <1>1, <1>2, <1>3 DEF PlanningNext

(* A test case is run once in each configuration that some test plan asks  *)
(* for, and for exactly the test plans that do.                            *)
THEOREM CasesArePlannedOnce == PlanningSpec => []PlannedOnce
<1>1. PlanningInit => PlanInv BY PlanInit
<1>2. PlanInv /\ [PlanningNext]_<<preparationVars, planningVars>> => PlanInv' BY PlanPreserved
<1>3. PlanInv => PlannedOnce
  <2> SUFFICES ASSUME PlanInv, stage \in {"filter", "workflows", "senders", "planned"}
               PROVE  PlannedOnce
    BY DEF PlannedOnce
  <2> DEFINE wants == IF stage = "filter" THEN AskedOf(Len(setup.plans)) ELSE LeftWants
             Wanted(c, conf) == IF stage = "filter" THEN AskedBy(c, conf) ELSE LeftOf(c, conf)
  <2>1. Describes(crcs, wants) BY DEF PlanInv
  <2>2. setup.plans \in Seq(TestPlan) BY PlansAreOK DEF PlansOK, PlanInv
  <2>3. ASSUME NEW c \in Case, NEW conf \in Configuration
        PROVE  wants[<<c, conf>>] = Wanted(c, conf)
    <3>1. <<c, conf>> \in Case \X Configuration /\ <<c, conf>>[1] = c /\ <<c, conf>>[2] = conf
      OBVIOUS
    <3>2. LeftWants[<<c, conf>>] = LeftOf(c, conf) BY <3>1 DEF LeftWants
    <3>3. AskedOf(Len(setup.plans))[<<c, conf>>] = AskedBy(c, conf) BY <2>2, AskedByIs
    <3> QED BY <3>2, <3>3
  <2> HIDE DEF wants, Wanted
  <2>4. /\ DOMAIN crcs = 1..Len(crcs)
        /\ \A i \in 1..Len(crcs) : crcs[i].case \in Case /\ crcs[i].configuration \in Configuration
    BY <2>1, CrcsHave DEF Describes
  <2>5. \A i, j \in DOMAIN crcs : Same(crcs[i], crcs[j]) => i = j BY <2>1, <2>4 DEF Describes
  <2>6. \A c \in Case, conf \in Configuration :
          Wanted(c, conf) # {} =>
            \E i \in DOMAIN crcs : crcs[i].case = c /\ crcs[i].configuration = conf
    <3> SUFFICES ASSUME NEW c \in Case, NEW conf \in Configuration, Wanted(c, conf) # {}
                 PROVE  \E i \in DOMAIN crcs : crcs[i].case = c /\ crcs[i].configuration = conf
      OBVIOUS
    <3>1. wants[<<c, conf>>] # {} BY <2>3
    <3> QED BY <2>1, <2>4, <3>1 DEF Describes
  <2>7. \A i \in DOMAIN crcs :
          crcs[i].runningFor = Wanted(crcs[i].case, crcs[i].configuration)
    BY <2>1, <2>3, <2>4 DEF Describes
  <2> QED BY <2>5, <2>6, <2>7 DEF PlannedOnce, Wanted
<1> QED BY <1>1, <1>2, <1>3, PTL DEF PlanningSpec

----------------------------------------------------------------------------
(* Workflows and report senders.                                           *)

Distinct(list) == \A i, j \in 1..Len(list) : list[i] = list[j] => i = j

(* The elements of a list are those that it has.                           *)
LEMMA InSet ==
  ASSUME NEW A, NEW list, list \in Seq(A)
  PROVE  \A x : x \in ToSet(list) <=> Has(list, x)
<1>1. DOMAIN list = 1..Len(list) OBVIOUS
<1> QED BY <1>1 DEF ToSet, Has

(* Only has what list has of S, and no element twice that list has once.   *)
LEMMA OnlyIs ==
  ASSUME NEW A, NEW list \in Seq(A), NEW S
  PROVE  /\ Only(list, S) \in Seq(A)
         /\ \A x : Has(Only(list, S), x) <=> Has(list, x) /\ x \in S
         /\ Distinct(list) => Distinct(Only(list, S))
<1> DEFINE chosen == Only(list, S)
<1>1. chosen \in Seq(A) /\ \E f : Picks(chosen, f, list, S, Len(list)) BY OnlyPicks
<1> HIDE DEF chosen
<1>2. PICK f : Picks(chosen, f, list, S, Len(list)) BY <1>1
<1>3. /\ \A i \in 1..Len(chosen) : f[i] \in 1..Len(list)
      /\ \A i, j \in 1..Len(chosen) : f[i] = f[j] => i = j
      /\ \A i \in 1..Len(chosen) : chosen[i] = list[f[i]] /\ chosen[i] \in S
      /\ \A m \in 1..Len(list) : list[m] \in S => \E i \in 1..Len(chosen) : f[i] = m
  BY <1>2 DEF Picks
<1>4. ASSUME NEW x PROVE Has(chosen, x) <=> Has(list, x) /\ x \in S
  <2>1. ASSUME Has(chosen, x) PROVE Has(list, x) /\ x \in S BY <1>3, <2>1 DEF Has
  <2>2. ASSUME Has(list, x), x \in S PROVE Has(chosen, x)
    <3>1. PICK m \in 1..Len(list) : list[m] = x BY <2>2 DEF Has
    <3>2. PICK i \in 1..Len(chosen) : f[i] = m BY <1>3, <2>2, <3>1
    <3>3. chosen[i] = x BY <1>3, <3>1, <3>2
    <3> QED BY <3>3 DEF Has
  <2> QED BY <2>1, <2>2
<1>5. ASSUME Distinct(list) PROVE Distinct(chosen)
  <2> SUFFICES ASSUME NEW i \in 1..Len(chosen), NEW j \in 1..Len(chosen), chosen[i] = chosen[j]
               PROVE  i = j
    BY DEF Distinct
  <2>1. f[i] = f[j] BY <1>3, <1>5 DEF Distinct
  <2> QED BY <1>3, <2>1
<1> QED BY <1>1, <1>4, <1>5 DEF chosen

(* The group of x: those with the same key, in their order.                *)
GroupOf(list, keyOf, x) == Only(list, {y \in ToSet(list) : keyOf[y] = keyOf[x]})

(* by_key splits a list into the groups of its elements.                   *)
LEMMA GroupsAre ==
  ASSUME NEW A, NEW list \in Seq(A), NEW keyOf
  PROVE  /\ \A g : g \in ByKey(list, keyOf)
                     <=> \E x \in ToSet(list) : g = GroupOf(list, keyOf, x)
         /\ \A x : GroupOf(list, keyOf, x) \in Seq(A)
         /\ \A x, y : Has(GroupOf(list, keyOf, x), y)
                        <=> Has(list, y) /\ keyOf[y] = keyOf[x]
         /\ \A x : Distinct(list) => Distinct(GroupOf(list, keyOf, x))
<1>1. \A g : g \in ByKey(list, keyOf)
               <=> \E x \in ToSet(list) : g = GroupOf(list, keyOf, x)
  BY DEF ByKey, GroupOf
<1>2. ASSUME NEW x
      PROVE  /\ GroupOf(list, keyOf, x) \in Seq(A)
             /\ \A y : Has(GroupOf(list, keyOf, x), y) <=> Has(list, y) /\ keyOf[y] = keyOf[x]
             /\ Distinct(list) => Distinct(GroupOf(list, keyOf, x))
  <2> DEFINE S == {y \in ToSet(list) : keyOf[y] = keyOf[x]}
  <2>1. \A y : y \in S <=> Has(list, y) /\ keyOf[y] = keyOf[x] BY InSet
  <2>2. GroupOf(list, keyOf, x) = Only(list, S) BY DEF GroupOf
  <2> HIDE DEF S
  <2> QED BY <2>1, <2>2, OnlyIs
<1> QED BY <1>1, <1>2

(* The workflow of a crc.                                                  *)
Types == [crc \in ToSet(crcs) |-> TypeOf(crc)]
Keys == [crc \in ToSet(crcs) |-> WorkflowKey(crc)]
WorkflowFor(x) ==
  [type |-> TypeOf(x), crcs |-> GroupOf(GroupOf(crcs, Types, x), Keys, x)]
WorkflowsMade ==
  UNION {{[type |-> Types[list[1]], crcs |-> group] : group \in ByKey(list, Keys)}
         : list \in ByKey(crcs, Types)}

(* The workflows are those of the crcs; crcs of a type with the same key share *)
(* one.                                                                    *)
LEMMA WorkflowsAre ==
  ASSUME crcs \in Seq(Crc)
  PROVE  /\ \A w : w \in WorkflowsMade <=> \E x \in ToSet(crcs) : w = WorkflowFor(x)
         /\ \A x \in ToSet(crcs) :
              /\ WorkflowFor(x).crcs \in Seq(Crc)
              /\ Distinct(crcs) => Distinct(WorkflowFor(x).crcs)
              /\ \A y : Has(WorkflowFor(x).crcs, y) <=>
                          Has(crcs, y) /\ TypeOf(y) = TypeOf(x) /\ WorkflowKey(y) = WorkflowKey(x)
         /\ \A x, y \in ToSet(crcs) :
              TypeOf(x) = TypeOf(y) /\ WorkflowKey(x) = WorkflowKey(y)
                => WorkflowFor(x) = WorkflowFor(y)
<1>0. \A x : x \in ToSet(crcs) <=> Has(crcs, x) BY InSet
<1>1. /\ \A x \in ToSet(crcs) : Types[x] = TypeOf(x) /\ Keys[x] = WorkflowKey(x)
  BY DEF Types, Keys
<1>2. /\ \A g : g \in ByKey(crcs, Types) <=> \E x \in ToSet(crcs) : g = GroupOf(crcs, Types, x)
      /\ \A x : GroupOf(crcs, Types, x) \in Seq(Crc)
      /\ \A x, y : Has(GroupOf(crcs, Types, x), y) <=> Has(crcs, y) /\ Types[y] = Types[x]
      /\ \A x : Distinct(crcs) => Distinct(GroupOf(crcs, Types, x))
  BY GroupsAre
<1>3. ASSUME NEW list \in Seq(Crc)
      PROVE  /\ \A g : g \in ByKey(list, Keys) <=> \E x \in ToSet(list) : g = GroupOf(list, Keys, x)
             /\ \A x : GroupOf(list, Keys, x) \in Seq(Crc)
             /\ \A x, y : Has(GroupOf(list, Keys, x), y) <=> Has(list, y) /\ Keys[y] = Keys[x]
             /\ \A x : Distinct(list) => Distinct(GroupOf(list, Keys, x))
  BY GroupsAre
<1>4. ASSUME NEW x \in ToSet(crcs), NEW y \in ToSet(crcs), TypeOf(x) = TypeOf(y)
      PROVE  GroupOf(crcs, Types, x) = GroupOf(crcs, Types, y)
  BY <1>1, <1>4 DEF GroupOf
<1>5. ASSUME NEW x \in ToSet(crcs), NEW y \in ToSet(crcs), TypeOf(x) = TypeOf(y),
             WorkflowKey(x) = WorkflowKey(y)
      PROVE  WorkflowFor(x) = WorkflowFor(y)
  <2>1. GroupOf(crcs, Types, x) = GroupOf(crcs, Types, y) BY <1>4, <1>5
  <2>2. Keys[x] = Keys[y] BY <1>1, <1>5
  <2>3. \A list : GroupOf(list, Keys, x) = GroupOf(list, Keys, y) BY <2>2 DEF GroupOf
  <2> QED BY <1>5, <2>1, <2>3 DEF WorkflowFor
<1>6. ASSUME NEW x \in ToSet(crcs)
      PROVE  /\ WorkflowFor(x).crcs \in Seq(Crc)
             /\ Distinct(crcs) => Distinct(WorkflowFor(x).crcs)
             /\ \A y : Has(WorkflowFor(x).crcs, y) <=>
                         Has(crcs, y) /\ TypeOf(y) = TypeOf(x) /\ WorkflowKey(y) = WorkflowKey(x)
  <2> DEFINE list == GroupOf(crcs, Types, x)
  <2>1. WorkflowFor(x).crcs = GroupOf(list, Keys, x) BY DEF WorkflowFor
  <2>2. list \in Seq(Crc) BY <1>2
  <2>3. \A y : Has(list, y) <=> Has(crcs, y) /\ TypeOf(y) = TypeOf(x) BY <1>0, <1>1, <1>2
  <2>4. Distinct(crcs) => Distinct(list) BY <1>2
  <2> HIDE DEF list
  <2> QED BY <1>0, <1>1, <1>3, <2>1, <2>2, <2>3, <2>4
<1>7. ASSUME NEW x \in ToSet(crcs)
      PROVE  LET list == GroupOf(crcs, Types, x) IN Types[list[1]] = TypeOf(x)
  <2> DEFINE list == GroupOf(crcs, Types, x)
  <2>1. list \in Seq(Crc) /\ Has(list, x) BY <1>0, <1>2
  <2>2. \A y : Has(list, y) => Types[y] = TypeOf(x) BY <1>1, <1>2
  <2> HIDE DEF list
  <2>3. 1 \in 1..Len(list)
    <3>1. PICK m \in 1..Len(list) : list[m] = x BY <2>1 DEF Has
    <3>2. Len(list) \in Nat BY <2>1
    <3> QED BY <3>1, <3>2
  <2>4. Has(list, list[1]) BY <2>3 DEF Has
  <2>5. Types[list[1]] = TypeOf(x) BY <2>2, <2>4
  <2> QED BY <2>5 DEF list
<1>8. ASSUME NEW w PROVE w \in WorkflowsMade <=> \E x \in ToSet(crcs) : w = WorkflowFor(x)
  <2>1. w \in WorkflowsMade <=>
          \E list \in ByKey(crcs, Types) : \E group \in ByKey(list, Keys) :
             w = [type |-> Types[list[1]], crcs |-> group]
    BY DEF WorkflowsMade
  <2>2. ASSUME NEW list \in ByKey(crcs, Types), NEW group \in ByKey(list, Keys),
               w = [type |-> Types[list[1]], crcs |-> group]
        PROVE  \E x \in ToSet(crcs) : w = WorkflowFor(x)
    <3>1. PICK x \in ToSet(crcs) : list = GroupOf(crcs, Types, x) BY <1>2
    <3>2. list \in Seq(Crc) BY <1>2, <3>1
    <3>3. PICK z \in ToSet(list) : group = GroupOf(list, Keys, z) BY <1>3, <3>2
    <3>4. Has(list, z) BY <3>2, InSet
    <3>5. z \in ToSet(crcs) /\ TypeOf(z) = TypeOf(x) BY <1>0, <1>1, <1>2, <3>1, <3>4
    <3>6. list = GroupOf(crcs, Types, z) BY <1>4, <3>1, <3>5
    <3>7. Types[list[1]] = TypeOf(z) BY <1>7, <3>5, <3>6
    <3>8. w = WorkflowFor(z) BY <2>2, <3>3, <3>6, <3>7 DEF WorkflowFor
    <3> QED BY <3>5, <3>8
  <2>3. ASSUME NEW x \in ToSet(crcs), w = WorkflowFor(x) PROVE w \in WorkflowsMade
    <3> DEFINE list == GroupOf(crcs, Types, x)
               group == GroupOf(list, Keys, x)
    <3>1. list \in ByKey(crcs, Types) /\ list \in Seq(Crc) /\ Has(list, x) BY <1>0, <1>2
    <3>2. w = [type |-> Types[list[1]], crcs |-> group] BY <1>7, <2>3 DEF WorkflowFor
    <3> HIDE DEF list
    <3>3. group \in ByKey(list, Keys)
      <4>1. x \in ToSet(list) BY <3>1, InSet
      <4> QED BY <1>3, <3>1, <4>1
    <3> HIDE DEF group
    <3> QED BY <2>1, <3>1, <3>2, <3>3
  <2> QED BY <2>1, <2>2, <2>3
<1> QED BY <1>5, <1>6, <1>8

(* Crcs of the same group have the same value for each key it goes by.     *)
LEMMA ValuesAt ==
  ASSUME NEW a, NEW b, NEW keys, Values(a, keys) = Values(b, keys), NEW k \in ToSet(keys)
  PROVE  Values(a, <<k>>) = Values(b, <<k>>)
<1> DEFINE At(x, key) == IF key \in DOMAIN x.configuration THEN x.configuration[key] ELSE NoKey
<1>1. \A x, l : Values(x, l) = [i \in DOMAIN l |-> At(x, l[i])] BY DEF Values
<1> HIDE DEF At
<1>2. PICK m \in DOMAIN keys : keys[m] = k BY DEF ToSet
<1>3. Values(a, keys)[m] = At(a, k) /\ Values(b, keys)[m] = At(b, k) BY <1>1, <1>2
<1>4. At(a, k) = At(b, k) BY <1>3
<1>5. DOMAIN <<k>> = {1} /\ <<k>>[1] = k OBVIOUS
<1>6. \A x : Values(x, <<k>>) = [i \in {1} |-> At(x, <<k>>[i])] BY <1>1, <1>5
<1>7. \A i \in {1} : At(a, <<k>>[i]) = At(b, <<k>>[i]) BY <1>4, <1>5
<1> QED BY <1>6, <1>7

(* No crc is twice in a list that describes what is wanted.                *)
LEMMA CrcsAreDistinct ==
  ASSUME NEW wants, Describes(crcs, wants)
  PROVE  crcs \in Seq(Crc) /\ Distinct(crcs)
BY DEF Describes, Distinct, Same

(* Every crc has one workflow, and what shares one belongs together.       *)
LEMMA EachHasOneWorkflow ==
  ASSUME NEW wants, Describes(crcs, wants), workflows = WorkflowsMade
  PROVE  OneWorkflowEach
<1>1. crcs \in Seq(Crc) /\ Distinct(crcs) BY CrcsAreDistinct
<1>2. /\ DOMAIN crcs = 1..Len(crcs)
      /\ \A i, j \in 1..Len(crcs) : Same(crcs[i], crcs[j]) => i = j
  BY <1>1 DEF Describes
<1>3. \A x : x \in ToSet(crcs) <=> Has(crcs, x) BY <1>1, InSet
<1>4. /\ \A w : w \in workflows <=> \E x \in ToSet(crcs) : w = WorkflowFor(x)
      /\ \A x \in ToSet(crcs) :
           /\ WorkflowFor(x).crcs \in Seq(Crc)
           /\ Distinct(WorkflowFor(x).crcs)
           /\ \A y : Has(WorkflowFor(x).crcs, y) <=>
                       Has(crcs, y) /\ TypeOf(y) = TypeOf(x) /\ WorkflowKey(y) = WorkflowKey(x)
      /\ \A x, y \in ToSet(crcs) :
           TypeOf(x) = TypeOf(y) /\ WorkflowKey(x) = WorkflowKey(y)
             => WorkflowFor(x) = WorkflowFor(y)
  BY <1>1, WorkflowsAre
<1>5. ASSUME NEW x \in ToSet(crcs)
      PROVE  \A y : y \in ToSet(WorkflowFor(x).crcs) <=>
               y \in ToSet(crcs) /\ TypeOf(y) = TypeOf(x) /\ WorkflowKey(y) = WorkflowKey(x)
  BY <1>3, <1>4, InSet
<1>6. ASSUME NEW i \in DOMAIN crcs
      PROVE  Cardinality({w \in workflows : crcs[i] \in ToSet(w.crcs)}) = 1
  <2> DEFINE Of == {w \in workflows : crcs[i] \in ToSet(w.crcs)}
             mine == WorkflowFor(crcs[i])
  <2>1. crcs[i] \in ToSet(crcs) BY <1>2, <1>3 DEF Has
  <2>2. mine \in Of BY <1>4, <1>5, <2>1
  <2>3. ASSUME NEW w \in Of PROVE w = mine
    <3>1. PICK x \in ToSet(crcs) : w = WorkflowFor(x) BY <1>4
    <3>2. TypeOf(crcs[i]) = TypeOf(x) /\ WorkflowKey(crcs[i]) = WorkflowKey(x)
      BY <1>5, <3>1
    <3> QED BY <1>4, <2>1, <3>1, <3>2
  <2> HIDE DEF mine, Of
  <2>4. Of = {mine} BY <2>2, <2>3
  <2>5. Cardinality(Of) = 1 BY <2>4, FS_Singleton
  <2> QED BY <2>5 DEF Of
<1>7. ASSUME NEW w \in workflows, NEW i \in DOMAIN w.crcs, NEW j \in DOMAIN w.crcs
      PROVE  /\ TypeOf(w.crcs[i]) = w.type
             /\ IF w.type = "kickstart-test"
                THEN LET A(conf) == IF "architecture" \in DOMAIN conf
                                    THEN conf["architecture"] ELSE NoKey
                     IN A(w.crcs[i].configuration) = A(w.crcs[j].configuration)
                ELSE i = j
  <2>1. PICK x \in ToSet(crcs) : w = WorkflowFor(x) BY <1>4
  <2> DEFINE group == w.crcs
             a == group[i]
             b == group[j]
  <2>2. group \in Seq(Crc) /\ Distinct(group) BY <1>4, <2>1
  <2>3. w.type = TypeOf(x) BY <2>1 DEF WorkflowFor
  <2>4. i \in 1..Len(group) /\ j \in 1..Len(group) BY <2>2
  <2> HIDE DEF group
  <2>5. Has(group, a) /\ Has(group, b) BY <2>4 DEF Has
  <2>6. /\ Has(crcs, a) /\ TypeOf(a) = TypeOf(x) /\ WorkflowKey(a) = WorkflowKey(x)
        /\ Has(crcs, b) /\ TypeOf(b) = TypeOf(x) /\ WorkflowKey(b) = WorkflowKey(x)
    BY <1>4, <2>1, <2>5 DEF group
  <2> HIDE DEF a, b
  <2>7. CASE w.type = "kickstart-test"
    <3>1. Values(a, <<"architecture">>) = Values(b, <<"architecture">>)
      BY <2>3, <2>6, <2>7 DEF WorkflowKey
    <3> DEFINE A(conf) == IF "architecture" \in DOMAIN conf THEN conf["architecture"] ELSE NoKey
    <3>2. \A y : Values(y, <<"architecture">>)[1] = A(y.configuration)
      <4>1. DOMAIN <<"architecture">> = {1} /\ <<"architecture">>[1] = "architecture" OBVIOUS
      <4> QED BY <4>1 DEF Values
    <3>3. A(a.configuration) = A(b.configuration) BY <3>1, <3>2
    <3> QED BY <2>3, <2>6, <2>7, <3>3 DEF a, b, group
  <2>8. CASE w.type # "kickstart-test"
    <3>1. <<a.case, a.configuration>> = <<b.case, b.configuration>>
      BY <2>3, <2>6, <2>8 DEF WorkflowKey
    <3>2. Same(a, b) BY <3>1 DEF Same
    <3>3. PICK k \in 1..Len(crcs) : crcs[k] = a BY <2>6 DEF Has
    <3>4. PICK l \in 1..Len(crcs) : crcs[l] = b BY <2>6 DEF Has
    <3>5. a = b BY <1>2, <3>2, <3>3, <3>4
    <3>6. i = j BY <2>2, <2>4, <3>5 DEF Distinct, a, b
    <3> QED BY <2>3, <2>6, <2>8, <3>6 DEF a, group
  <2> QED BY <2>7, <2>8
<1> QED BY <1>6, <1>7 DEF OneWorkflowEach

(* The report sender of a crc for reporting r of test plan p.              *)
ValuesFor(keys) == [crc \in ToSet(crcs) |-> Values(crc, keys)]
Reportings(p) == p.reporting \o setup.additional
SenderGroup(p, r, x) == GroupOf(OfPlan(p.id), ValuesFor(Reportings(p)[r]), x)
SenderFor(p, r, x) ==
  [plan |-> p.id, reporting |-> r,
   group |-> Values(SenderGroup(p, r, x)[1], Reportings(p)[r]),
   crcs |-> SenderGroup(p, r, x)]

(* The report senders of a test plan are those of its crcs.                *)
LEMMA SendersAre ==
  ASSUME crcs \in Seq(Crc), NEW p
  PROVE  /\ \A s : s \in SendersOf(p) <=>
              \E r \in DOMAIN Reportings(p), x \in ToSet(OfPlan(p.id)) : s = SenderFor(p, r, x)
         /\ \A x : x \in ToSet(OfPlan(p.id)) <=> x \in ToSet(crcs) /\ p.id \in x.runningFor
         /\ \A r, x, y : y \in ToSet(SenderFor(p, r, x).crcs) <=>
                           y \in ToSet(OfPlan(p.id))
                           /\ ValuesFor(Reportings(p)[r])[y] = ValuesFor(Reportings(p)[r])[x]
         /\ \A r, x, y : ValuesFor(Reportings(p)[r])[y] = ValuesFor(Reportings(p)[r])[x]
                           => SenderFor(p, r, x) = SenderFor(p, r, y)
<1> DEFINE reportings == Reportings(p)
           list == OfPlan(p.id)
           S == {crc \in ToSet(crcs) : p.id \in crc.runningFor}
<1>1. list = Only(crcs, S) BY DEF OfPlan
<1>2. \A x : x \in ToSet(crcs) <=> Has(crcs, x) BY InSet
<1>3. \A x : x \in S <=> x \in ToSet(crcs) /\ p.id \in x.runningFor OBVIOUS
<1> HIDE DEF S, list
<1>4. list \in Seq(Crc) /\ \A x : Has(list, x) <=> Has(crcs, x) /\ x \in S BY <1>1, OnlyIs
<1>5. \A x : x \in ToSet(list) <=> Has(list, x) BY <1>4, InSet
<1>6. \A x : x \in ToSet(list) <=> x \in ToSet(crcs) /\ p.id \in x.runningFor
  BY <1>2, <1>3, <1>4, <1>5
<1>7. \A r, x : SenderFor(p, r, x) =
        [plan |-> p.id, reporting |-> r,
         group |-> Values(GroupOf(list, ValuesFor(reportings[r]), x)[1], reportings[r]),
         crcs |-> GroupOf(list, ValuesFor(reportings[r]), x)]
  BY DEF SenderFor, SenderGroup, list
<1>8. \A s : s \in SendersOf(p) <=>
        \E r \in DOMAIN reportings : \E group \in ByKey(list, ValuesFor(reportings[r])) :
          s = [plan |-> p.id, reporting |-> r, group |-> Values(group[1], reportings[r]),
               crcs |-> group]
  <2> DEFINE Key(m) == ValuesFor(reportings[m])
             Made(m, group) == [plan |-> p.id, reporting |-> m,
                                group |-> Values(group[1], reportings[m]), crcs |-> group]
  <2>1. SendersOf(p) = UNION {{Made(m, group) : group \in ByKey(list, Key(m))}
                              : m \in DOMAIN reportings}
    BY DEF SendersOf, ValuesFor, list, Reportings
  <2> HIDE DEF Key, reportings
  <2>2. \A s : s \in SendersOf(p) <=>
          \E m \in DOMAIN reportings : \E group \in ByKey(list, Key(m)) : s = Made(m, group)
    BY <2>1
  <2> QED BY <2>2 DEF Key
<1> HIDE DEF reportings
<1>9. ASSUME NEW keyOf
      PROVE  /\ \A g : g \in ByKey(list, keyOf) <=> \E x \in ToSet(list) : g = GroupOf(list, keyOf, x)
             /\ \A x : GroupOf(list, keyOf, x) \in Seq(Crc)
             /\ \A x, y : Has(GroupOf(list, keyOf, x), y) <=> Has(list, y) /\ keyOf[y] = keyOf[x]
             /\ \A x, y : y \in ToSet(GroupOf(list, keyOf, x))
                            <=> y \in ToSet(list) /\ keyOf[y] = keyOf[x]
             /\ \A x, y : keyOf[y] = keyOf[x] => GroupOf(list, keyOf, x) = GroupOf(list, keyOf, y)
  <2>1. /\ \A g : g \in ByKey(list, keyOf) <=> \E x \in ToSet(list) : g = GroupOf(list, keyOf, x)
        /\ \A x : GroupOf(list, keyOf, x) \in Seq(Crc)
        /\ \A x, y : Has(GroupOf(list, keyOf, x), y) <=> Has(list, y) /\ keyOf[y] = keyOf[x]
    BY <1>4, GroupsAre
  <2>2. ASSUME NEW x
        PROVE  \A y : y \in ToSet(GroupOf(list, keyOf, x)) <=> Has(GroupOf(list, keyOf, x), y)
    <3>1. GroupOf(list, keyOf, x) \in Seq(Crc) BY <2>1
    <3> QED BY <3>1, InSet
  <2>3. \A x, y : keyOf[y] = keyOf[x] => GroupOf(list, keyOf, x) = GroupOf(list, keyOf, y)
    BY DEF GroupOf
  <2> QED BY <1>5, <2>1, <2>2, <2>3
<1>10. ASSUME NEW s
       PROVE  s \in SendersOf(p) <=>
                \E r \in DOMAIN reportings, x \in ToSet(list) : s = SenderFor(p, r, x)
  <2>1. ASSUME NEW r \in DOMAIN reportings
        PROVE  (\E group \in ByKey(list, ValuesFor(reportings[r])) :
                  s = [plan |-> p.id, reporting |-> r, group |-> Values(group[1], reportings[r]),
                       crcs |-> group])
               <=> \E x \in ToSet(list) : s = SenderFor(p, r, x)
    <3> DEFINE keyOf == ValuesFor(reportings[r])
    <3>1. \A g : g \in ByKey(list, keyOf) <=> \E x \in ToSet(list) : g = GroupOf(list, keyOf, x)
      BY <1>9
    <3>2. \A x : SenderFor(p, r, x) =
            [plan |-> p.id, reporting |-> r,
             group |-> Values(GroupOf(list, keyOf, x)[1], reportings[r]),
             crcs |-> GroupOf(list, keyOf, x)]
      BY <1>7
    <3> HIDE DEF keyOf
    <3>3. (\E group \in ByKey(list, keyOf) :
             s = [plan |-> p.id, reporting |-> r, group |-> Values(group[1], reportings[r]),
                  crcs |-> group])
          <=> \E x \in ToSet(list) : s = SenderFor(p, r, x)
      BY <3>1, <3>2
    <3> QED BY <3>3 DEF keyOf
  <2> QED BY <1>8, <2>1
<1>11. ASSUME NEW r, NEW x, NEW y
       PROVE  /\ y \in ToSet(SenderFor(p, r, x).crcs) <=>
                   y \in ToSet(list) /\ ValuesFor(reportings[r])[y] = ValuesFor(reportings[r])[x]
              /\ ValuesFor(reportings[r])[y] = ValuesFor(reportings[r])[x]
                   => SenderFor(p, r, x) = SenderFor(p, r, y)
  <2>1. SenderFor(p, r, x).crcs = GroupOf(list, ValuesFor(reportings[r]), x) BY <1>7
  <2>2. ValuesFor(reportings[r])[y] = ValuesFor(reportings[r])[x]
          => GroupOf(list, ValuesFor(reportings[r]), x) = GroupOf(list, ValuesFor(reportings[r]), y)
    BY <1>9
  <2> QED BY <1>7, <1>9, <2>1, <2>2
<1> QED BY <1>6, <1>10, <1>11 DEF reportings, list

(* Every reporting of a test plan has one sender for each of its crcs.     *)
LEMMA SendersCoverAll ==
  ASSUME setup \in Setups, crcs \in Seq(Crc),
         senders = UNION {SendersOf(setup.plans[i]) : i \in DOMAIN setup.plans}
  PROVE  SendersCover
<1> SUFFICES ASSUME NEW n \in DOMAIN setup.plans, NEW i \in DOMAIN crcs,
                    NEW r \in DOMAIN Reportings(setup.plans[n])
             PROVE  LET p == setup.plans[n]
                        keys == Reportings(p)[r]
                        Of == {s \in senders : s.plan = p.id /\ s.reporting = r
                                               /\ crcs[i] \in ToSet(s.crcs)}
                    IN /\ Cardinality(Of) = IF p.id \in crcs[i].runningFor THEN 1 ELSE 0
                       /\ \A s \in Of : \A b \in ToSet(s.crcs), k \in ToSet(keys) :
                            Values(crcs[i], <<k>>) = Values(b, <<k>>)
  BY DEF SendersCover, Reportings
<1> DEFINE p == setup.plans[n]
           reportings == Reportings(p)
           keys == reportings[r]
           x == crcs[i]
           Of == {s \in senders : s.plan = p.id /\ s.reporting = r /\ x \in ToSet(s.crcs)}
           mine == SenderFor(p, r, x)
<1>1. \A q, l \in DOMAIN setup.plans : setup.plans[q].id = setup.plans[l].id => q = l
  BY PlansAreOK DEF PlansOK
<1>2. x \in ToSet(crcs) /\ \A y \in ToSet(crcs) : ValuesFor(keys)[y] = Values(y, keys)
  BY DEF ToSet, ValuesFor
<1>3. /\ \A s : s \in SendersOf(p) <=>
           \E q \in DOMAIN reportings, y \in ToSet(OfPlan(p.id)) : s = SenderFor(p, q, y)
      /\ \A y : y \in ToSet(OfPlan(p.id)) <=> y \in ToSet(crcs) /\ p.id \in y.runningFor
      /\ \A y, z : z \in ToSet(SenderFor(p, r, y).crcs) <=>
                        z \in ToSet(OfPlan(p.id)) /\ ValuesFor(keys)[z] = ValuesFor(keys)[y]
      /\ \A y, z : ValuesFor(keys)[z] = ValuesFor(keys)[y]
                        => SenderFor(p, r, y) = SenderFor(p, r, z)
  BY SendersAre
<1>4. \A s : s \in senders <=> \E l \in DOMAIN setup.plans : s \in SendersOf(setup.plans[l])
  OBVIOUS
<1>5. \A q, m, y : SenderFor(q, m, y).plan = q.id /\ SenderFor(q, m, y).reporting = m
  BY DEF SenderFor
<1> HIDE DEF keys, reportings
<1>6. ASSUME NEW s \in Of
      PROVE  /\ s = mine /\ p.id \in x.runningFor
             /\ \A b \in ToSet(s.crcs) : Values(x, keys) = Values(b, keys)
  <2>1. s \in senders /\ s.plan = p.id /\ s.reporting = r /\ x \in ToSet(s.crcs) OBVIOUS
  <2>2. PICK l \in DOMAIN setup.plans : s \in SendersOf(setup.plans[l]) BY <1>4, <2>1
  <2>3. s.plan = setup.plans[l].id
    <3> DEFINE q == setup.plans[l]
    <3>1. \A t : t \in SendersOf(q) => \E m, y : t = SenderFor(q, m, y)
      <4> HIDE DEF q
      <4> QED BY SendersAre
    <3>2. PICK m, y : s = SenderFor(q, m, y) BY <2>2, <3>1
    <3> HIDE DEF q
    <3>3. s.plan = q.id BY <1>5, <3>2
    <3> QED BY <3>3 DEF q
  <2>4. l = n BY <1>1, <2>1, <2>3
  <2>5. PICK q \in DOMAIN reportings, y \in ToSet(OfPlan(p.id)) : s = SenderFor(p, q, y)
    BY <1>3, <2>2, <2>4
  <2>6. s = SenderFor(p, r, y) BY <1>5, <2>1, <2>5
  <2>7. x \in ToSet(OfPlan(p.id)) /\ ValuesFor(keys)[x] = ValuesFor(keys)[y]
    BY <1>3, <2>1, <2>6
  <2>8. s = mine BY <1>3, <2>6, <2>7
  <2>9. ASSUME NEW b \in ToSet(s.crcs) PROVE Values(x, keys) = Values(b, keys)
    <3>1. b \in ToSet(OfPlan(p.id)) /\ ValuesFor(keys)[b] = ValuesFor(keys)[y] BY <1>3, <2>6
    <3> QED BY <1>2, <1>3, <2>7, <3>1
  <2> QED BY <1>3, <2>7, <2>8, <2>9
<1>7. ASSUME p.id \in x.runningFor PROVE mine \in Of
  <2>1. x \in ToSet(OfPlan(p.id)) BY <1>2, <1>3, <1>7
  <2>2. r \in DOMAIN reportings BY DEF reportings
  <2>3. mine \in SendersOf(p) BY <1>3, <2>1, <2>2
  <2>4. mine \in senders BY <1>4, <2>3
  <2>5. x \in ToSet(mine.crcs) BY <1>3, <2>1
  <2> QED BY <1>5, <2>4, <2>5
<1> HIDE DEF Of, mine
<1>8. Cardinality(Of) = IF p.id \in x.runningFor THEN 1 ELSE 0
  <2>1. CASE p.id \in x.runningFor
    <3>1. Of = {mine} BY <1>6, <1>7, <2>1
    <3> QED BY <2>1, <3>1, FS_Singleton
  <2>2. CASE p.id \notin x.runningFor
    <3>1. Of = {} BY <1>6, <2>2
    <3> QED BY <2>2, <3>1, FS_EmptySet
  <2> QED BY <2>1, <2>2
<1>9. \A s \in Of : \A b \in ToSet(s.crcs), k \in ToSet(keys) :
        Values(x, <<k>>) = Values(b, <<k>>)
  BY <1>6, ValuesAt
<1> QED BY <1>8, <1>9 DEF Of, keys, reportings

(* Workflows and report senders are those of the crcs.                     *)
ServedInv ==
  /\ stage \in {"senders", "planned"} => workflows = WorkflowsMade
  /\ stage = "planned" =>
       senders = UNION {SendersOf(setup.plans[i]) : i \in DOMAIN setup.plans}

(* Every step keeps workflows and senders those of the crcs.               *)
LEMMA ServedPreserved ==
  ASSUME PlanInv, ServedInv, [PlanningNext]_<<preparationVars, planningVars>>
  PROVE  ServedInv'
<1>1. ASSUME UNCHANGED <<setup, crcs>>
      PROVE  /\ WorkflowsMade' = WorkflowsMade
             /\ \A p : SendersOf(p)' = SendersOf(p)
  <2>1. \A x : TypeOf(x)' = TypeOf(x) BY <1>1 DEF TypeOf
  <2>2. \A x : WorkflowKey(x)' = WorkflowKey(x) BY <2>1 DEF WorkflowKey
  <2>3. Types' = Types /\ Keys' = Keys BY <1>1, <2>1, <2>2 DEF Types, Keys
  <2>4. WorkflowsMade' = WorkflowsMade BY <1>1, <2>3 DEF WorkflowsMade
  <2>5. \A p : SendersOf(p)' = SendersOf(p) BY <1>1 DEF SendersOf, OfPlan
  <2> QED BY <2>4, <2>5
<1>2. ASSUME UNCHANGED <<setup, crcs, stage, workflows, senders>> PROVE ServedInv'
  <2>1. WorkflowsMade' = WorkflowsMade /\ \A p : SendersOf(p)' = SendersOf(p) BY <1>1, <1>2
  <2> QED BY <1>2, <2>1 DEF ServedInv
<1>3. CASE PreparationNext /\ UNCHANGED planningVars
  BY <1>2, <1>3, PrepStays DEF planningVars
<1>4. CASE UNCHANGED <<preparationVars, planningVars>>
  BY <1>2, <1>4 DEF preparationVars, planningVars
<1>5. CASE PlanStep /\ UNCHANGED preparationVars
  <2>1. setup' = setup BY <1>5 DEF preparationVars
  <2>2. CASE AddTestPlan \/ MethodUnknown \/ Generated \/ FilterSubset
    <3>1. stage' \notin {"senders", "planned"}
      BY <2>2 DEF AddTestPlan, MethodUnknown, Generated, FilterSubset
    <3> QED BY <3>1 DEF ServedInv
  <2>3. CASE AssignWorkflows
    <3>1. stage' = "senders" /\ UNCHANGED crcs /\ workflows' = WorkflowsMade
      BY <2>3 DEF AssignWorkflows, WorkflowsMade, Types, Keys
    <3> QED BY <1>1, <2>1, <3>1 DEF ServedInv
  <2>4. CASE AssignSenders
    <3>1. /\ stage = "senders" /\ stage' = "planned" /\ UNCHANGED <<crcs, workflows>>
          /\ senders' = UNION {SendersOf(setup.plans[i]) : i \in DOMAIN setup.plans}
      BY <2>4 DEF AssignSenders
    <3>2. WorkflowsMade' = WorkflowsMade /\ \A p : SendersOf(p)' = SendersOf(p)
      BY <1>1, <2>1, <3>1
    <3> QED BY <2>1, <3>1, <3>2 DEF ServedInv
  <2> QED BY <1>5, <2>2, <2>3, <2>4 DEF PlanStep
<1> QED BY <1>3, <1>4, <1>5 DEF PlanningNext

(* Every planned crc is run by one workflow of its kind and told to one    *)
(* report sender of each reporting of each of its test plans.              *)
THEOREM EachIsServed == PlanningSpec => []EachServed
<1>1. PlanningInit => PlanInv /\ ServedInv
  <2>1. PlanningInit => stage = "generate" BY DEF PlanningInit
  <2> QED BY <2>1, PlanInit DEF ServedInv
<1>2. PlanInv /\ ServedInv /\ [PlanningNext]_<<preparationVars, planningVars>>
        => (PlanInv /\ ServedInv)'
  BY PlanPreserved, ServedPreserved
<1>3. PlanInv /\ ServedInv => EachServed
  <2> SUFFICES ASSUME PlanInv, ServedInv PROVE OneWorkflowEach /\ SendersCover
    BY DEF EachServed
  <2>1. CASE stage \notin {"senders", "planned"} BY <2>1 DEF OneWorkflowEach, SendersCover
  <2>2. CASE stage \in {"senders", "planned"}
    <3>1. Describes(crcs, LeftWants) /\ workflows = WorkflowsMade /\ setup \in Setups
      BY <2>2 DEF PlanInv, ServedInv
    <3>2. OneWorkflowEach BY <3>1, EachHasOneWorkflow
    <3>3. SendersCover
      <4>1. CASE stage = "planned"
        <5>1. crcs \in Seq(Crc) BY <3>1, CrcsAreDistinct
        <5> QED BY <3>1, <4>1, <5>1, SendersCoverAll DEF ServedInv
      <4>2. CASE stage # "planned" BY <4>2 DEF SendersCover
      <4> QED BY <4>1, <4>2
    <3> QED BY <3>2, <3>3
  <2> QED BY <2>1, <2>2
<1> QED BY <1>1, <1>2, <1>3, PTL DEF PlanningSpec
=============================================================================

---------------------------- MODULE Preparation ----------------------------
(***************************************************************************)
(* What is decided before there are test runs: the settings by source, the *)
(* class of the event, the structures that the event converts on demand,   *)
(* and the branch of the library that is cloned.                           *)
(*                                                                         *)
(* The library repository and koji are external: a clone or a lookup may   *)
(* fail at any time.                                                       *)
(***************************************************************************)
EXTENDS Naturals, Sequences, FiniteSets, SequencesExt, Functions

CONSTANTS
  Thread,     \* threads that ask the event for structures
  Option,     \* <<section, option>>: what may be set
  Value,      \* what an option may be set to
  Alphabet,   \* characters of the names of types, in their order
  Setups      \* what setup may be

(* Sources of settings, the most important first. *)
Source == <<"overrides", "environment", "library", "custom", "plugins", "default">>

(* The name of an event type or artifact type is a sequence of characters. *)
NoClass == <<>>

VARIABLES
  setup,       \* the inputs of this run: see SetupOK
  phase,       \* where Pipeline.__init__ and _cloneLibrary are
  settings,    \* [source -> [set options -> value]]
  class,       \* the registered type whose class the event has
  structures,  \* event.structures: sequence of structures in insertion order
  converting,  \* threads that convert, holding structures_convert_lock
  toAsk,       \* [Thread -> names it still asks the event for]
  answers,     \* [Thread -> sequence of answers]
  koji,        \* lookups of the compose that gave up, and whether koji_build
               \* keeps the exception of one
  branches,    \* branches still to be tried, or being derived
  tried,       \* results of the clones so far
  branch       \* the branch that was cloned

preparationVars == <<setup, phase, settings, class, structures, converting, toAsk,
                     answers, koji, branches, tried, branch>>
asking == <<structures, converting, toAsk, answers, koji>>
cloning == <<settings, branches, tried, branch>>

(* A structure: its name, what it was made from, and for which request. *)
Structure(name, from, request) == [name |-> name, from |-> from, made |-> request]
Names == {structures[i].name : i \in DOMAIN structures}

----------------------------------------------------------------------------
(* Settings.                                                               *)

(* Mutant of Priority: sources take precedence over sections. *)
SourcesFirst(p, q) == p[2] < q[2] \/ (p[2] = q[2] /\ p[1] <= q[1])

(* Places <<i, j>>, a section and a source, in the order get looks there. *)
Priority(p, q) == p[1] < q[1] \/ (p[1] = q[1] /\ p[2] <= q[2])

(* Where option is set for a view on some sections. *)
Places(all, sections, option) ==
  {p \in (DOMAIN sections) \X (DOMAIN Source) :
     <<sections[p[1]], option>> \in DOMAIN all[Source[p[2]]]}

(* get, for an option that is set somewhere. *)
Get(all, sections, option) ==
  LET p == CHOOSE p \in Places(all, sections, option) :
             \A q \in Places(all, sections, option) : Priority(p, q)
  IN all[Source[p[2]]][<<sections[p[1]], option>>]

(* load_from_library. *)
LibrarySource(ini) == [settings EXCEPT !["library"] = ini]

----------------------------------------------------------------------------
(* Event types.                                                            *)

(* dotted_startswith: the characters are compared, not the dotted parts. *)
StartsWith(src, dst) == IsPrefix(dst, src)

(* The order of strings: a prefix is less. *)
Code(ch) == CHOOSE i \in DOMAIN Alphabet : Alphabet[i] = ch
LexLess(s, t) ==
  \/ IsStrictPrefix(s, t)
  \/ \E i \in DOMAIN s \cap DOMAIN t :
       Code(s[i]) < Code(t[i]) /\ \A j \in 1..(i - 1) : s[j] = t[j]

(* Mutant of GetClass: the candidates are sorted in ascending order. *)
GetClassAscending(type, registered) ==
  LET covers == {r \in registered : StartsWith(type, r)}
  IN IF covers = {} THEN NoClass
     ELSE CHOOSE r \in covers : \A q \in covers \ {r} : LexLess(r, q)

(* get_class: of the candidates in descending order, the first that covers *)
(* the type, or the default class.                                         *)
GetClass(type, registered) ==
  LET covers == {r \in registered : StartsWith(type, r)}
  IN IF covers = {} THEN NoClass
     ELSE CHOOSE r \in covers : \A q \in covers \ {r} : LexLess(q, r)

----------------------------------------------------------------------------
(* Conversion of structures.                                               *)

(* Methods from_* of the desired class: from what, to what. *)
BeakerComposeFrom == {<<"compose", "beakerCompose">>}
InstallationSourceFrom == {<<"compose", "InstallationSource">>}
FromMethods == BeakerComposeFrom \cup InstallationSourceFrom

(* Methods to_* of the available structures. *)
KojiBuildTo == {"koji_build"} \X {"compose", "product", "beakerCompose"}
ComposeTo == {"compose"} \X {"product", "bootIso"}
KstestParamsTo == {<<"kstestParams", "bootIso">>}
ToMethods == KojiBuildTo \cup ComposeTo \cup KstestParamsTo

(* Conversions that look the compose of a koji build up. *)
LooksUp(m) == m \in {<<"koji_build", "compose">>, <<"koji_build", "beakerCompose">>}

(* What a method may do.  Without composes_baseurl, to_compose declines and *)
(* to_beakerCompose fails on what it returns.  Once a lookup gave up, both  *)
(* raise its exception at once; anything else that raises is not kept.     *)
Outcomes(m) ==
  CASE LooksUp(m) /\ koji.exception -> {"raises"}
    [] LooksUp(m) /\ ~koji.exception /\ ~setup.baseurl ->
         IF m[2] = "compose" THEN {"declines"} ELSE {"raises"}
    [] LooksUp(m) /\ ~koji.exception /\ setup.baseurl -> {"made", "raises"}
    [] m[1] = "kstestParams" -> IF setup.trees THEN {"made"} ELSE {"declines"}
    [] OTHER -> {"made", "raises"}

(* The methods that can be tried for a name: <<1, i>> makes it from, <<2, i>> *)
(* converts structure i.                                                   *)
MethodOf(c, name) == <<structures[c[2]].name, name>>
Methods(name) ==
  {c \in {1, 2} \X DOMAIN structures :
     MethodOf(c, name) \in <<FromMethods, ToMethods>>[c[1]]}

(* Of those that do not decline, the first in this order, if there is one. *)
Decisive(name) ==
  LET S == {c \in Methods(name) : Outcomes(MethodOf(c, name)) # {"declines"}}
      First(c) == \A d \in S : c[1] < d[1] \/ (c[1] = d[1] /\ c[2] <= d[2])
  IN {MethodOf(c, name) : c \in {c \in S : First(c)}}

(* Mutant of Kept: a structure that was made is put aside. *)
NotKept(s) == structures

(* The structures after s was made. *)
Kept(s) == Append(structures, s)

(* Whether a thread gets the lock. *)
MayConvert == converting = {}

(* Thread t has its answer for a name. *)
Answered(t, name, kind, request) ==
  /\ answers' = [answers EXCEPT ![t] =
                   Append(@, [name |-> name, kind |-> kind, made |-> request])]
  /\ toAsk' = [toAsk EXCEPT ![t] = Tail(@)]

(* The structure is in the event. *)
AskAvailable(t) ==
  /\ phase = "ready" /\ toAsk[t] # <<>> /\ MayConvert
  /\ \E i \in DOMAIN structures :
       /\ structures[i].name = Head(toAsk[t])
       /\ \A j \in 1..(i - 1) : structures[j].name # Head(toAsk[t])
       /\ Answered(t, structures[i].name, "structure", structures[i].made)
  /\ UNCHANGED <<setup, phase, class, structures, converting, koji, cloning>>

(* It is not: the thread keeps the lock while it converts. *)
BeginConvert(t) ==
  /\ phase = "ready" /\ toAsk[t] # <<>> /\ MayConvert /\ t \notin converting
  /\ Head(toAsk[t]) \notin Names
  /\ converting' = converting \cup {t}
  /\ UNCHANGED <<setup, phase, class, structures, toAsk, answers, koji, cloning>>

(* The structure is made and kept for the next one who asks. *)
Convert(t) ==
  /\ t \in converting
  /\ LET name == Head(toAsk[t])
     IN \E m \in Decisive(name) :
          /\ "made" \in Outcomes(m)
          /\ LET s == Structure(name, m[1], <<t, Len(answers[t])>>)
             IN structures' = Kept(s) /\ Answered(t, name, "structure", s.made)
  /\ converting' = converting \ {t}
  /\ UNCHANGED <<setup, phase, class, koji, cloning>>

(* No method applies: the answer is None, and nothing is kept. *)
Decline(t) ==
  /\ t \in converting
  /\ Decisive(Head(toAsk[t])) = {}
  /\ Answered(t, Head(toAsk[t]), "None", <<>>)
  /\ converting' = converting \ {t}
  /\ UNCHANGED <<setup, phase, class, structures, koji, cloning>>

(* The lookup of method m gives up after its timeout. *)
GivesUp(m) ==
  /\ LooksUp(m) /\ setup.baseurl /\ ~koji.exception
  /\ koji' = [koji EXCEPT !.giveUps = @ + 1, !.exception = TRUE]

(* A method raises: the lookup gave up, now or before, or it failed in     *)
(* another way, or making the structure from what it found did.            *)
ConvertRaises(t) ==
  /\ t \in converting
  /\ \E m \in Decisive(Head(toAsk[t])) :
       /\ "raises" \in Outcomes(m)
       /\ GivesUp(m) \/ UNCHANGED koji
  /\ Answered(t, Head(toAsk[t]), "exception", <<>>)
  /\ converting' = converting \ {t}
  /\ UNCHANGED <<setup, phase, class, structures, cloning>>

Ask(t) == AskAvailable(t) \/ BeginConvert(t) \/ Convert(t) \/ Decline(t) \/ ConvertRaises(t)

----------------------------------------------------------------------------
(* The library.                                                            *)

(* A branch name is a sequence of parts that were separated by - or .      *)
(* Mutant of Shorter: two parts are cut. *)
MuchShorter(name) == IF Len(name) > 2 THEN Front(Front(name)) ELSE Front(name)

(* The name without its least significant part. *)
Shorter(name) == Front(name)

(* A part that is not empty can be cut off if that leaves something. *)
MayCut(name) == Len(name) > 1 /\ Last(name) # "" /\ Front(name) # <<"">>

(* Pipeline.__init__: settings without the library, and the event. *)
Construct ==
  /\ phase = "start"
  /\ class' = GetClass(setup.type, setup.registered)
  /\ phase' = "clone"
  /\ branches' = <<setup.branch>>
  /\ UNCHANGED <<setup, settings, asking, tried, branch>>

Setting(option) == Get(settings, <<"library">>, option)
SettingOr(option, default) ==
  IF Places(settings, <<"library">>, option) = {} THEN default ELSE Setting(option)

(* directPath is used as it is. *)
UseDirectPath ==
  /\ phase = "clone" /\ SettingOr("directPath", "unset") # "unset"
  /\ phase' = "load"
  /\ UNCHANGED <<setup, class, settings, asking, branches, tried, branch>>

(* All possible branches are listed before one is tried. *)
DeriveBranch ==
  /\ phase = "clone" /\ SettingOr("directPath", "unset") = "unset"
  /\ Setting("branchNameStrategy") = "drop-least-significant"
  /\ tried = <<>>
  /\ MayCut(Last(branches))
  /\ branches' = Append(branches, Shorter(Last(branches)))
  /\ UNCHANGED <<setup, phase, class, settings, asking, tried, branch>>

(* The next branch is cloned, if it exists and git does not fail. *)
TryBranch ==
  /\ phase = "clone" /\ SettingOr("directPath", "unset") = "unset"
  /\ tried # <<>> \/ ~MayCut(Last(branches))
       \/ Setting("branchNameStrategy") = "exact-match"
  /\ Len(tried) < Len(branches)
  /\ LET name == branches[Len(tried) + 1]
     IN \/ /\ name \in setup.existing
           /\ branch' = name /\ tried' = Append(tried, "cloned") /\ phase' = "load"
        \/ /\ tried' = Append(tried, "failed")
           /\ phase' = IF Len(tried) + 1 = Len(branches) THEN "not found" ELSE phase
           /\ UNCHANGED branch
  /\ UNCHANGED <<setup, class, settings, asking, branches>>

LoadLibrary ==
  /\ phase = "load"
  /\ settings' = LibrarySource(setup.library)
  /\ phase' = "ready"
  /\ UNCHANGED <<setup, class, asking, branches, tried, branch>>

----------------------------------------------------------------------------

(* What a setup is; Planning looks at more fields of it.  No settings of   *)
(* the library are there at first, and the name of the branch is not empty. *)
SetupOK(s) ==
  /\ \A some \in {s.library} \cup Range(s.sources) :
       DOMAIN some \subseteq Option /\ Range(some) \subseteq Value
  /\ DOMAIN s.sources = Range(Source) /\ DOMAIN s.sources["library"] = {}
  /\ s.type \in Seq(Range(Alphabet)) /\ s.registered \subseteq Seq(Range(Alphabet))
  /\ s.structures \in Seq(STRING)
  /\ s.branch \in Seq(STRING) /\ s.existing \subseteq Seq(STRING)
  /\ Len(s.branch) > 0 /\ s.branch # <<"">>
  /\ s.asks \in [Thread -> Seq(STRING)]
  /\ {s.baseurl, s.trees} \subseteq BOOLEAN

ASSUME PreparationAssumption ==
  /\ \A o \in Option : o = <<o[1], o[2]>>
  /\ Alphabet \in Seq(STRING)
  /\ \A s \in Setups : SetupOK(s)

PreparationInit ==
  /\ setup \in Setups
  /\ phase = "start"
  /\ settings = setup.sources
  /\ class = NoClass
  /\ structures = [i \in DOMAIN setup.structures |-> Structure(setup.structures[i], "event", <<>>)]
  /\ converting = {}
  /\ toAsk = setup.asks
  /\ answers = [t \in Thread |-> <<>>]
  /\ koji = [giveUps |-> 0, exception |-> FALSE]
  /\ branches = <<>>
  /\ tried = <<>>
  /\ branch = <<>>

PreparationNext ==
  \/ Construct \/ UseDirectPath \/ DeriveBranch \/ TryBranch \/ LoadLibrary
  \/ \E t \in Thread : Ask(t)

----------------------------------------------------------------------------
(* Properties.                                                             *)

(* The value that a view on one or two sections shows changes when the     *)
(* settings of the library are loaded only if the option of its first      *)
(* section is set there, or nowhere, and neither a command line argument   *)
(* nor the environment sets it.  Setting it for the second section does    *)
(* not help: sections go before sources.                                   *)
OverridesSurvive ==
  [][LET Top(o) == \E j \in 1..2 : o \in DOMAIN settings[Source[j]]
         Unset(o) == \A j \in DOMAIN Source : o \notin DOMAIN settings[Source[j]]
     IN \A first, second \in Option :
          LET view == <<first[1], second[1]>>
          IN /\ first[2] = second[2] /\ Places(settings, view, first[2]) # {}
             /\ Get(settings, view, first[2]) # Get(settings', view, first[2])
             => /\ ~Top(first)
                /\ \/ first \in DOMAIN setup.library
                   \/ Unset(first) /\ ~Top(second)]_preparationVars

(* Whatever is registered, the class of the event is that of the longest   *)
(* name that the type starts with, character by character: no other that   *)
(* covers the type, part by part or not, is more specific.                 *)
MostSpecificClass ==
  LET starts == {r \in setup.registered : IsPrefix(r, setup.type)}
  IN phase # "start" =>
       IF starts = {} THEN class = NoClass
       ELSE class \in starts /\ \A r \in starts : Len(r) <= Len(class)

(* Whoever asks for a structure, and when, gets the same one. *)
OneStructure ==
  LET Given == UNION {ToSet(answers[t]) : t \in Thread}
  IN \A a, b \in Given : a.name = b.name /\ a.kind = "structure" /\ b.kind = "structure"
                           => a.made = b.made

(* What a structure was made from does not depend on earlier requests: a   *)
(* converted structure is used only if none of the event's own has a       *)
(* method that applies.  The beakerCompose of a koji build is the exception. *)
FromEvent ==
  \A i \in DOMAIN structures :
    LET s == structures[i]
    IN s.from \notin ToSet(setup.structures) \cup {"event"} /\ s.name # "beakerCompose" =>
         \A n \in ToSet(setup.structures) :
           <<n, s.name>> \in ToMethods => n = "kstestParams" /\ ~setup.trees

(* The structures of an event do not depend on who asks, when, and for what *)
(* else, and a lookup of the compose of a koji build that gave up is not   *)
(* repeated, however often it is asked for, and in whatever form.  One that *)
(* raised before it gave up may be repeated.                               *)
StructuresFixed == OneStructure /\ FromEvent /\ koji.giveUps <= 1

(* The branch that was cloned is one that the name of the branch can be cut *)
(* to; those that are longer do not exist, or git failed to clone them.    *)
LongestBranch ==
  branch # <<>> =>
    /\ branch \in setup.existing /\ IsPrefix(branch, setup.branch)
    /\ \A b \in setup.existing :
         IsStrictPrefix(branch, b) /\ IsPrefix(b, setup.branch) =>
           \E i \in DOMAIN tried : branches[i] = b /\ tried[i] = "failed"
=============================================================================

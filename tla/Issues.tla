------------------------------- MODULE Issues -------------------------------
(***************************************************************************)
(* Report senders looking for the issues behind failed test cases:         *)
(* libpermian/issueanalyzer, and its use in reportsenders/base.py and in   *)
(* the conclusion of plugins/github.  Analyzers keep issues in a cache     *)
(* shared by all senders; an issue is looked up, filed or updated in an    *)
(* external issue database at most once, under its own lock.               *)
(*                                                                         *)
(* The issue database and the analyzers are external: a call may raise,    *)
(* also after it took effect.                                              *)
(***************************************************************************)
EXTENDS Results, FiniteSets

CONSTANTS
  CRC, Sender,
  crcsOf,        \* [Sender -> SUBSET CRC]
  Key,           \* what identifies an issue in the cache
  keysOf,        \* [CRC -> SUBSET Key]: the issues the analyzer finds
  Inputs,        \* what given may be
  Nobody,        \* who holds the lock of the cache when nobody does
  CallsRaise     \* may the database and the analyzer raise?

(* The inputs of a run: the final results that the senders will be told,   *)
(* the senders whose reporting has submit_issues None or true, the issues  *)
(* resolved in the database, and the three settings of issueAnalyzer.      *)
Input == [results : [CRC -> {r \in Result : r.final}],
          submitters : SUBSET Sender, resolved : SUBSET Key,
          create : BOOLEAN, update : BOOLEAN, insteadOfUpdate : BOOLEAN]

ASSUME IssuesAssumption ==
  /\ crcsOf \in [Sender -> (SUBSET CRC) \ {{}}]
  /\ keysOf \in [CRC -> SUBSET Key]
  /\ Inputs \subseteq Input
  /\ CallsRaise \in BOOLEAN
  /\ Nobody \notin Sender

VARIABLES
  given,      \* the inputs of this run
  foreign,    \* issues filed in the database by others
  ours,       \* [Key -> how often this run filed it]
  updates,    \* [Key -> how often this run updated it]
  mishaps,    \* [Key -> how often a call took effect and raised]
  cache,      \* _issue_cache: [Key -> Object or NoObject]
  cacheLock,  \* holder of _issue_cache_lock, or Nobody
  issue,      \* [Object -> its fields]
  lock,       \* [Object -> holders of its lock]
  forced,     \* issues that were synced by force
  pc,         \* [Sender -> where the thread is]
  closing,    \* [Sender -> it is concluding, not processing an update]
  left,       \* [Sender -> crcs without a final result in its own list]
  scope,      \* [Sender -> crcs still to analyze]
  copy,       \* [Sender -> cache_copy]
  found,      \* [Sender -> objects of the issue set still to be handled]
  clean,      \* [Sender -> set is complete and nothing needs review so far]
  returned,   \* [Sender -> [Key -> what submit returned]]
  conclusion  \* [Sender -> conclusion reported at the end]

database == <<foreign, ours, updates, mishaps>>
shared == <<cache, cacheLock, issue, lock, forced>>
own == <<pc, left, scope, copy, found, clean, closing, returned, conclusion>>
issueVars == <<given, database, shared, own>>

NoObject == <<>>
NoCopy == [k \in Key |-> NoObject]

(* The object that the analyzer of a sender makes for a key. *)
Object == Key \X Sender

(* URIs: that of others, or of the n-th issue filed by this run. *)
NoUri == <<"none">>
NotAsked == <<"not asked">>
Ours(n) == <<"ours", n>>
Uris(k) == (IF k \in foreign THEN {<<"foreign">>} ELSE {}) \cup {Ours(n) : n \in 1..ours[k]}

FreshIssue == [synced |-> FALSE, new |-> "unset", uri |-> NoUri, submitted |-> FALSE]

(* The types of the variables; locks are held by whoever needs them. *)
IssuesTypeOK ==
  /\ foreign \subseteq Key
  /\ cache \in [Key -> Object \cup {NoObject}]
  /\ \A k \in Key : cache[k] # NoObject => cache[k][1] = k
  /\ \A o \in Object :
       /\ issue[o].new = "unset" <=> ~issue[o].synced
       /\ issue[o].submitted => issue[o].synced
  /\ \A s \in Sender :
       /\ cacheLock = s <=> pc[s] = "analyzing"
       /\ \A o \in Object : s \in lock[o] => lock[o] = {s} /\ pc[s] \in {"lookup", "act"}

IssuesInit ==
  /\ given \in Inputs
  /\ foreign \in SUBSET Key
  /\ ours = [k \in Key |-> 0]
  /\ updates = [k \in Key |-> 0]
  /\ mishaps = [k \in Key |-> 0]
  /\ cache = [k \in Key |-> NoObject]
  /\ cacheLock = Nobody
  /\ issue = [o \in Object |-> FreshIssue]
  /\ lock = [o \in Object |-> {}]
  /\ forced = {}
  /\ pc = [s \in Sender |-> "loop"]
  /\ closing = [s \in Sender |-> FALSE]
  /\ left = crcsOf
  /\ scope = [s \in Sender |-> {}]
  /\ copy = [s \in Sender |-> NoCopy]
  /\ found = [s \in Sender |-> {}]
  /\ clean = [s \in Sender |-> TRUE]
  /\ returned = [s \in Sender |-> [k \in Key |-> NotAsked]]
  /\ conclusion = [s \in Sender |-> "none"]

Goto(s, place) == pc' = [pc EXCEPT ![s] = place]

----------------------------------------------------------------------------
(* Analysis: IssueAnalyzerProxy.analyze, crc by crc.                       *)

(* A final update of a crc: its issues are looked for if they are to be    *)
(* submitted (processResult).                                              *)
FinalUpdate(s) ==
  /\ pc[s] = "loop"
  /\ \E c \in left[s] :
       /\ left' = [left EXCEPT ![s] = @ \ {c}]
       /\ IF s \in given.submitters
          THEN scope' = [scope EXCEPT ![s] = {c}] /\ Goto(s, "analyze")
          ELSE UNCHANGED <<scope, pc>>
  /\ UNCHANGED <<given, database, shared, copy, found, clean, closing, returned,
                 conclusion>>

(* The analyzer opens the issue_cache context: it takes the lock and gets a *)
(* copy, to which it adds the issues it does not find there.               *)
OpenCache(s) ==
  /\ pc[s] = "analyze"
  /\ scope[s] # {}
  /\ cacheLock = Nobody
  /\ cacheLock' = s
  /\ copy' = [copy EXCEPT ![s] = cache]
  /\ Goto(s, "analyzing")
  /\ UNCHANGED <<given, database, cache, issue, lock, forced,
                 left, scope, found, clean, closing, returned, conclusion>>

(* Mutant of Kept: the context leaves the lock before it looks at the cache *)
(* again, so entries of others made since are replaced.                     *)
KeptOwn(s, c, k) == IF k \in keysOf[c] THEN <<k, s>> ELSE cache[k]

(* The entry of a key after the context: the one of the copy. *)
Kept(s, c, k) ==
  IF k \in keysOf[c] /\ copy[s][k] = NoObject THEN <<k, s>> ELSE copy[s][k]

(* The context is left normally and the issues found are returned. *)
CloseCache(s) ==
  /\ pc[s] = "analyzing"
  /\ cacheLock' = Nobody
  /\ \E c \in scope[s] :
       /\ cache' = [k \in Key |-> Kept(s, c, k)]
       /\ found' = [found EXCEPT ![s] = @ \cup {Kept(s, c, k) : k \in keysOf[c]}]
       /\ clean' = [clean EXCEPT ![s] =
                      @ /\ (keysOf[c] # {} \/ given.results[c].outcome = "PASS")]
       /\ scope' = [scope EXCEPT ![s] = @ \ {c}]
  /\ copy' = [copy EXCEPT ![s] = NoCopy]
  /\ Goto(s, "analyze")
  /\ UNCHANGED <<given, database, issue, lock, forced,
                 left, closing, returned, conclusion>>

(* The set of issues is not complete when an analyzer raised. *)
AnalysisFailed(s) == clean' = [clean EXCEPT ![s] = FALSE]

(* Mutant of HolderAfter: an exception does not release the lock. *)
StillHeld(s) == s

(* Who holds the lock of the cache after an exception in the context. *)
HolderAfter(s) == Nobody

(* The analyzer raises inside the context, so that the copy is dropped. *)
AnalyzerRaises(s) ==
  /\ CallsRaise
  /\ pc[s] = "analyzing"
  /\ cacheLock' = HolderAfter(s)
  /\ AnalysisFailed(s)
  /\ \E c \in scope[s] : scope' = [scope EXCEPT ![s] = @ \ {c}]
  /\ copy' = [copy EXCEPT ![s] = NoCopy]
  /\ Goto(s, "analyze")
  /\ UNCHANGED <<given, database, cache, issue, lock, forced,
                 left, found, closing, returned, conclusion>>

Analyzed(s) == pc[s] = "analyze" /\ scope[s] = {}

----------------------------------------------------------------------------
(* BaseIssue: sync and submit.                                             *)

(* Mutant of NewAfter: a forced sync decides again what is new. *)
NewAgain(o, uri) == IF uri = NoUri THEN "yes" ELSE "no"

(* _new, which later syncs leave as it is. *)
NewAfter(o, uri) ==
  IF issue[o].new # "unset" THEN issue[o].new
  ELSE IF uri = NoUri THEN "yes" ELSE "no"

Synced(o, uri) == [issue[o] EXCEPT !.synced = TRUE, !.uri = uri, !.new = NewAfter(o, uri)]

(* _lookup: any issue of that key in the database, if there is one. *)
Lookup(o) == IF Uris(o[1]) = {} THEN {NoUri} ELSE Uris(o[1])

(* What sync may leave in o. *)
SyncResults(o) ==
  IF issue[o].synced THEN {issue[o]} ELSE {Synced(o, uri) : uri \in Lookup(o)}

(* A plugin calls sync(force=True) on an issue of the cache. *)
ForceSync(o) ==
  /\ o \in {cache[k] : k \in Key}
  /\ lock[o] = {}
  /\ o[1] \notin forced
  /\ \E uri \in Lookup(o) : issue' = [issue EXCEPT ![o] = Synced(o, uri)]
  /\ forced' = forced \cup {o[1]}
  /\ UNCHANGED <<given, database, cache, cacheLock, lock, own>>

(* An exception in a call of the sender: it releases the lock and ends the *)
(* thread (BaseReportSender.run).                                          *)
SenderFails(s) ==
  /\ CallsRaise
  /\ Goto(s, "failed")
  /\ lock' = [o \in Object |-> lock[o] \ {s}]

(* Mutant of MaySubmit: the lock is not taken. *)
MaySubmitAnyway(o) == TRUE

(* Whether a thread gets the lock of the issue. *)
MaySubmit(o) == lock[o] = {}

(* submit has returned for object o. *)
Returned(s, o, uri) ==
  /\ found' = [found EXCEPT ![s] = @ \ {o}]
  /\ returned' = [returned EXCEPT ![s] = [@ EXCEPT ![o[1]] = uri]]

(* submit of an issue of the update that was submitted already. *)
SubmitAgain(s) ==
  /\ Analyzed(s) /\ ~closing[s]
  /\ \E o \in found[s] :
       /\ MaySubmit(o) /\ issue[o].submitted
       /\ Returned(s, o, issue[o].uri)
  /\ UNCHANGED <<given, database, shared, pc, left, scope, copy, clean,
                 closing, conclusion>>

BeginSubmit(s) ==
  /\ Analyzed(s) /\ ~closing[s]
  /\ \E o \in found[s] :
       /\ MaySubmit(o) /\ ~issue[o].submitted
       /\ lock' = [lock EXCEPT ![o] = @ \cup {s}]
  /\ Goto(s, "lookup")
  /\ UNCHANGED <<given, database, cache, cacheLock, issue, forced, left, scope,
                 copy, found, clean, closing, returned, conclusion>>

(* sync inside submit; _lookup may raise. *)
SyncForSubmit(s) ==
  /\ pc[s] = "lookup"
  /\ \/ /\ \E o \in Object : /\ s \in lock[o]
                             /\ \E fields \in SyncResults(o) :
                                  issue' = [issue EXCEPT ![o] = fields]
        /\ Goto(s, "act")
        /\ UNCHANGED lock
     \/ SenderFails(s) /\ UNCHANGED issue
  /\ UNCHANGED <<given, database, cache, cacheLock, forced, left, scope, copy,
                 found, clean, closing, returned, conclusion>>

FilesNew(o) == issue[o].uri = NoUri \/ given.insteadOfUpdate

Submitted(o, uri) == [issue[o] EXCEPT !.uri = uri, !.submitted = TRUE]

(* The end of submit: the issue is marked and its lock released. *)
EndSubmit(s, o, uri) ==
  /\ issue' = [issue EXCEPT ![o] = Submitted(o, uri)]
  /\ lock' = [lock EXCEPT ![o] = @ \ {s}]
  /\ Returned(s, o, uri)
  /\ Goto(s, "analyze")

(* make and the end of submit.  make may raise before or after it filed.    *)
Make(s, o) ==
  /\ FilesNew(o) /\ given.create
  /\ \/ /\ ours' = [ours EXCEPT ![o[1]] = @ + 1]
        /\ EndSubmit(s, o, Ours(ours[o[1]] + 1))
        /\ UNCHANGED mishaps
     \/ SenderFails(s) /\ UNCHANGED <<issue, ours, mishaps, found, returned>>
     \/ /\ SenderFails(s)
        /\ ours' = [ours EXCEPT ![o[1]] = @ + 1]
        /\ mishaps' = [mishaps EXCEPT ![o[1]] = @ + 1]
        /\ UNCHANGED <<issue, found, returned>>
  /\ UNCHANGED updates

(* update and the end of submit; update may raise before or after it acted. *)
Update(s, o) ==
  /\ ~FilesNew(o) /\ given.update
  /\ \/ /\ updates' = [updates EXCEPT ![o[1]] = @ + 1]
        /\ EndSubmit(s, o, issue[o].uri)
        /\ UNCHANGED mishaps
     \/ SenderFails(s) /\ UNCHANGED <<issue, updates, mishaps, found, returned>>
     \/ /\ SenderFails(s)
        /\ updates' = [updates EXCEPT ![o[1]] = @ + 1]
        /\ mishaps' = [mishaps EXCEPT ![o[1]] = @ + 1]
        /\ UNCHANGED <<issue, found, returned>>
  /\ UNCHANGED ours

(* The settings ask for nothing to be done. *)
SkipSubmit(s, o) ==
  /\ IF FilesNew(o) THEN ~given.create ELSE ~given.update
  /\ EndSubmit(s, o, issue[o].uri)
  /\ UNCHANGED <<ours, updates, mishaps>>

ActOnIssue(s) ==
  /\ pc[s] = "act"
  /\ \E o \in Object : s \in lock[o] /\ (Make(s, o) \/ Update(s, o) \/ SkipSubmit(s, o))
  /\ UNCHANGED <<given, foreign, cache, cacheLock, forced, left, scope, copy,
                 clean, closing, conclusion>>

(* All issues of the update are submitted. *)
EndOfUpdate(s) ==
  /\ Analyzed(s) /\ ~closing[s] /\ found[s] = {}
  /\ Goto(s, "loop")
  /\ clean' = [clean EXCEPT ![s] = TRUE]
  /\ UNCHANGED <<given, database, shared, left, scope, copy, found, closing,
                 returned, conclusion>>

----------------------------------------------------------------------------
(* The end of the test run: processTestRunFinished of the github plugin.   *)

ResultsOf(s) == {given.results[c] : c \in crcsOf[s]}

(* A list without outcome, or canceled, is concluded without analysis. *)
ConcludeAtOnce(s) ==
  /\ pc[s] = "loop" /\ left[s] = {} /\ conclusion[s] = "none"
  /\ \/ /\ LowestState(ResultsOf(s)) = "canceled"
        /\ conclusion' = [conclusion EXCEPT ![s] = "cancelled"]
     \/ /\ LowestState(ResultsOf(s)) # "canceled"
        /\ WorstOutcome(ResultsOf(s)) = "None"
        /\ conclusion' = [conclusion EXCEPT ![s] = "action_required"]
  /\ Goto(s, "done")
  /\ UNCHANGED <<given, database, shared, left, scope, copy, found, clean,
                 closing, returned>>

(* resultOf analyzes all crcs of the sender. *)
BeginConclusion(s) ==
  /\ pc[s] = "loop" /\ left[s] = {}
  /\ LowestState(ResultsOf(s)) # "canceled"
  /\ WorstOutcome(ResultsOf(s)) # "None"
  /\ closing' = [closing EXCEPT ![s] = TRUE]
  /\ scope' = [scope EXCEPT ![s] = crcsOf[s]]
  /\ Goto(s, "analyze")
  /\ UNCHANGED <<given, database, shared, left, copy, found, clean, returned,
                 conclusion>>

(* needsReview asks each issue whether it is new or resolved; asking may    *)
(* look the issue up, in one step as the lock is held meanwhile.           *)
Review(s) ==
  /\ Analyzed(s) /\ closing[s]
  /\ \E o \in found[s] :
       /\ MaySubmit(o)
       /\ \/ \E fields \in SyncResults(o) :
               /\ issue' = [issue EXCEPT ![o] = fields]
               /\ clean' = [clean EXCEPT ![s] =
                              @ /\ fields.new = "no" /\ o[1] \notin given.resolved]
               /\ found' = [found EXCEPT ![s] = @ \ {o}]
               /\ UNCHANGED <<pc, lock>>
          \/ SenderFails(s) /\ UNCHANGED <<issue, clean, found>>
  /\ UNCHANGED <<given, database, cache, cacheLock, forced, left, scope, copy,
                 closing, returned, conclusion>>

(* The mapping of outcomes to conclusions, where ERROR stands for a list   *)
(* that needs review, too.                                                 *)
Conclude(s) ==
  /\ Analyzed(s) /\ closing[s] /\ found[s] = {}
  /\ conclusion' = [conclusion EXCEPT ![s] =
       IF clean[s] /\ WorstOutcome(ResultsOf(s)) = "PASS" THEN "success" ELSE "failure"]
  /\ Goto(s, "done")
  /\ UNCHANGED <<given, database, shared, left, scope, copy, found, clean,
                 closing, returned>>

----------------------------------------------------------------------------

(* Somebody else files an issue that was unknown. *)
FiledByOthers(k) ==
  /\ foreign' = foreign \cup {k}
  /\ k \notin foreign
  /\ UNCHANGED <<given, ours, updates, mishaps, shared, own>>

IssueStep(s) ==
  \/ FinalUpdate(s) \/ OpenCache(s) \/ CloseCache(s) \/ AnalyzerRaises(s)
  \/ SubmitAgain(s) \/ BeginSubmit(s) \/ SyncForSubmit(s) \/ ActOnIssue(s)
  \/ EndOfUpdate(s)
  \/ ConcludeAtOnce(s) \/ BeginConclusion(s) \/ Review(s) \/ Conclude(s)

IssuesNext ==
  \/ \E s \in Sender : IssueStep(s)
  \/ \E o \in Object : ForceSync(o)
  \/ \E k \in Key : FiledByOthers(k)

IssuesSpec ==
  /\ IssuesInit /\ [][IssuesNext]_issueVars
  /\ \A s \in Sender : WF_issueVars(IssueStep(s))

----------------------------------------------------------------------------
(* Properties.                                                             *)

(* However many senders meet an issue, it is filed or updated once in a    *)
(* run, unless a call raised after it had taken effect: submit is then     *)
(* tried again by the next sender.                                         *)
ActedOnce == \A k \in Key : ours[k] + updates[k] <= 1 + mishaps[k]

(* The conclusion is "success" only if every crc has the outcome PASS or   *)
(* none, and every issue found for them was known to the database before   *)
(* this run filed it: an issue filed by the run itself stays new.          *)
SuccessIsReviewed ==
  \A s \in Sender : conclusion[s] = "success" =>
    \A c \in crcsOf[s] :
      /\ given.results[c].outcome \in {"PASS", "None"}
      /\ given.results[c].outcome = "None" => keysOf[c] # {}
      /\ keysOf[c] \subseteq foreign \ given.resolved

(* Two senders that submitted the same issue report the same URI, unless a *)
(* forced sync replaced it.                                                *)
SubmittersAgree ==
  \A s, t \in Sender, k \in Key \ forced :
    \/ NotAsked \in {returned[s][k], returned[t][k]}
    \/ returned[s][k] = returned[t][k]
=============================================================================

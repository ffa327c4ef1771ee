---------------------------- MODULE IssuesProofs ----------------------------
(***************************************************************************)
(* For any number of senders, crcs and issues: an issue is acted on once,  *)
(* whoever submitted it reports the same URI, and a successful conclusion  *)
(* rests on issues that were known before this run.                        *)
(***************************************************************************)
EXTENDS Issues, TLAPS

----------------------------------------------------------------------------
(* Data.                                                                   *)

AnyUri == {NoUri, <<"foreign">>} \cup {Ours(n) : n \in Nat}

Fields == [synced : BOOLEAN, new : {"unset", "yes", "no"}, uri : AnyUri,
           submitted : BOOLEAN]

Place == {"loop", "analyze", "analyzing", "lookup", "act", "done", "failed"}

LEMMA Objects ==
  /\ \A o \in Object : o[1] \in Key
  /\ \A k \in Key, s \in Sender : <<k, s>> \in Object /\ <<k, s>>[1] = k
  /\ NoObject \notin Object
BY DEF Object, NoObject

LEMMA FreshIsFields == FreshIssue \in Fields
BY DEF FreshIssue, Fields, AnyUri

----------------------------------------------------------------------------
(* The invariant.                                                          *)

Types ==
  /\ given \in Input
  /\ foreign \subseteq Key
  /\ ours \in [Key -> Nat] /\ updates \in [Key -> Nat] /\ mishaps \in [Key -> Nat]
  /\ cache \in [Key -> Object \cup {NoObject}]
  /\ issue \in [Object -> Fields]
  /\ lock \in [Object -> SUBSET Sender]
  /\ pc \in [Sender -> Place]
  /\ closing \in [Sender -> BOOLEAN]
  /\ clean \in [Sender -> BOOLEAN]
  /\ scope \in [Sender -> SUBSET CRC]
  /\ left \in [Sender -> SUBSET CRC]
  /\ copy \in [Sender -> [Key -> Object \cup {NoObject}]]
  /\ found \in [Sender -> SUBSET Object]
  /\ DOMAIN returned = Sender /\ \A s \in Sender : DOMAIN returned[s] = Key
  /\ DOMAIN conclusion = Sender

(* The lock of the cache is held for one analysis, and the copy is current. *)
CacheLocked ==
  \A s \in Sender :
    /\ cacheLock = s <=> pc[s] = "analyzing"
    /\ pc[s] = "analyzing" => copy[s] = cache

(* The lock of an issue is held by one sender, which submits one issue.    *)
IssueLocked ==
  /\ \A o \in Object : \A s \in lock[o] :
       /\ pc[s] \in {"lookup", "act"}
       /\ o \in found[s]
       /\ ~issue[o].submitted
       /\ pc[s] = "act" => issue[o].synced
  /\ \A o \in Object : \A s, t \in lock[o] : s = t
  /\ \A o, p \in Object : \A s \in lock[o] : s \in lock[p] => o = p

(* Everybody has the objects of the cache; the others were never touched.  *)
Shared ==
  /\ \A k \in Key : cache[k] # NoObject => cache[k][1] = k
  /\ \A s \in Sender : \A o \in found[s] : cache[o[1]] = o
  /\ \A o \in Object : cache[o[1]] # o => issue[o] = FreshIssue

Done(k) == cache[k] # NoObject /\ issue[cache[k]].submitted

(* What was done about an issue that is not submitted was a mishap. *)
Counted ==
  \A k \in Key :
    /\ ~Done(k) => ours[k] + updates[k] <= mishaps[k]
    /\ ours[k] + updates[k] <= 1 + mishaps[k]

(* An issue that is not new was filed by others, since this run files none *)
(* before it has looked.                                                   *)
Known ==
  /\ \A o \in Object :
       /\ issue[o].new = "unset" <=> ~issue[o].synced
       /\ issue[o].submitted => issue[o].synced
       /\ issue[o].new = "no" => o[1] \in foreign
       /\ cache[o[1]] = o /\ ~issue[o].synced => ours[o[1]] = 0
  /\ \A k \in Key : cache[k] = NoObject => ours[k] = 0

(* What submit returned is the URI of the object in the cache. *)
Answered ==
  \A s \in Sender, k \in Key : returned[s][k] # NotAsked =>
    /\ Done(k)
    /\ k \notin forced => returned[s][k] = issue[cache[k]].uri

(* A crc that was analyzed for a conclusion without a need for review has  *)
(* issues that are reviewed or still to be.                                *)
Reviewed ==
  \A s \in Sender :
    /\ closing[s] => pc[s] \notin {"loop", "lookup", "act"}
    /\ closing[s] /\ clean[s] =>
         \A c \in crcsOf[s] \ scope[s] :
           /\ keysOf[c] # {} \/ given.results[c].outcome = "PASS"
           /\ \A k \in keysOf[c] :
                \/ cache[k] # NoObject /\ cache[k] \in found[s]
                \/ k \in foreign \ given.resolved

IssuesInv ==
  /\ Types /\ CacheLocked /\ IssueLocked /\ Shared /\ Counted /\ Known /\ Answered
  /\ Reviewed /\ SuccessIsReviewed

LEMMA IssuesInit_Inv ==
  ASSUME IssuesInit
  PROVE  IssuesInv
<1>1. Types
  <2>1. given \in Input BY IssuesAssumption DEF IssuesInit
  <2>2. crcsOf \in [Sender -> SUBSET CRC] BY IssuesAssumption
  <2>3. copy \in [Sender -> [Key -> Object \cup {NoObject}]]
    BY DEF IssuesInit, NoCopy
  <2>4. issue \in [Object -> Fields] BY FreshIsFields DEF IssuesInit
  <2>5. /\ DOMAIN returned = Sender /\ \A s \in Sender : DOMAIN returned[s] = Key
        /\ DOMAIN conclusion = Sender
    BY DEF IssuesInit
  <2>6. /\ lock \in [Object -> SUBSET Sender]
        /\ found \in [Sender -> SUBSET Object]
        /\ scope \in [Sender -> SUBSET CRC]
        /\ left \in [Sender -> SUBSET CRC]
    BY <2>2 DEF IssuesInit
  <2>7. /\ pc \in [Sender -> Place]
        /\ closing \in [Sender -> BOOLEAN] /\ clean \in [Sender -> BOOLEAN]
    BY DEF IssuesInit, Place
  <2>8. /\ foreign \subseteq Key
        /\ ours \in [Key -> Nat] /\ updates \in [Key -> Nat] /\ mishaps \in [Key -> Nat]
        /\ cache \in [Key -> Object \cup {NoObject}]
    BY DEF IssuesInit
  <2> QED BY <2>1, <2>3, <2>4, <2>5, <2>6, <2>7, <2>8 DEF Types
<1>2. CacheLocked BY IssuesAssumption DEF IssuesInit, CacheLocked
<1>3. IssueLocked BY DEF IssuesInit, IssueLocked
<1>4. Shared BY Objects DEF IssuesInit, Shared
<1>5. Counted BY DEF IssuesInit, Counted
<1>6. Known BY Objects DEF IssuesInit, Known, FreshIssue
<1>7. Answered BY DEF IssuesInit, Answered
<1>8. Reviewed BY DEF IssuesInit, Reviewed
<1>9. SuccessIsReviewed BY DEF IssuesInit, SuccessIsReviewed
<1> QED BY <1>1, <1>2, <1>3, <1>4, <1>5, <1>6, <1>7, <1>8, <1>9 DEF IssuesInv

----------------------------------------------------------------------------
(* What steps that leave its variables alone make of each part.            *)

LEMMA SharedFrame ==
  ASSUME Shared, UNCHANGED <<cache, found, issue>>
  PROVE  Shared'
BY DEF Shared

LEMMA CountedFrame ==
  ASSUME Counted, UNCHANGED <<ours, updates, mishaps, cache, issue>>
  PROVE  Counted'
BY DEF Counted, Done

LEMMA KnownFrame ==
  ASSUME Known, UNCHANGED <<ours, foreign, cache, issue>>
  PROVE  Known'
BY DEF Known

LEMMA AnsweredFrame ==
  ASSUME Answered, UNCHANGED <<returned, cache, issue, forced>>
  PROVE  Answered'
BY DEF Answered, Done

LEMMA ReviewedFrame ==
  ASSUME Reviewed, UNCHANGED <<given, closing, pc, clean, scope, cache, found, foreign>>
  PROVE  Reviewed'
BY DEF Reviewed

LEMMA SuccessFrame ==
  ASSUME SuccessIsReviewed, UNCHANGED <<given, conclusion, foreign>>
  PROVE  SuccessIsReviewed'
BY DEF SuccessIsReviewed

LEMMA CacheLockedFrame ==
  ASSUME CacheLocked, UNCHANGED <<cacheLock, pc, copy, cache>>
  PROVE  CacheLocked'
BY DEF CacheLocked

LEMMA IssueLockedFrame ==
  ASSUME IssueLocked, UNCHANGED <<lock, pc, found, issue>>
  PROVE  IssueLocked'
BY DEF IssueLocked

(* The thread moves between places where it holds no lock. *)
LEMMA MovesFree ==
  ASSUME Types, CacheLocked, IssueLocked, NEW s \in Sender, NEW place,
         Goto(s, place), pc[s] \in {"loop", "analyze"}, place # "analyzing",
         UNCHANGED <<cacheLock, cache, copy, lock, found, issue>>
  PROVE  CacheLocked' /\ IssueLocked'
<1>1. /\ pc'[s] = place /\ \A t \in Sender : t # s => pc'[t] = pc[t]
  BY DEF Types, Goto
<1>2. CacheLocked' BY <1>1 DEF CacheLocked
<1>3. \A o \in Object : s \notin lock[o] BY DEF IssueLocked
<1>4. IssueLocked' BY <1>1, <1>3 DEF IssueLocked, Types
<1> QED BY <1>2, <1>4

(* An exception in a call releases the locks of the thread. *)
LEMMA FailingIsFree ==
  ASSUME Types, CacheLocked, IssueLocked, Reviewed, NEW s \in Sender,
         SenderFails(s), pc[s] \in {"analyze", "lookup", "act"},
         UNCHANGED <<given, foreign, closing, clean, scope, cacheLock, cache, copy,
                     found, issue>>
  PROVE  /\ CacheLocked' /\ IssueLocked' /\ Reviewed'
         /\ lock' \in [Object -> SUBSET Sender] /\ pc' \in [Sender -> Place]
<1>1. /\ pc'[s] = "failed" /\ \A t \in Sender : t # s => pc'[t] = pc[t]
      /\ pc' \in [Sender -> Place]
  BY DEF Types, SenderFails, Goto, Place
<1>2. \A o \in Object : lock'[o] = lock[o] \ {s} BY DEF SenderFails
<1>3. CacheLocked' BY <1>1 DEF CacheLocked
<1>4. IssueLocked' BY <1>1, <1>2 DEF IssueLocked, Types
<1>5. lock' \in [Object -> SUBSET Sender] BY DEF SenderFails, Types
<1>6. Reviewed' BY <1>1 DEF Reviewed
<1> QED BY <1>1, <1>3, <1>4, <1>5, <1>6

----------------------------------------------------------------------------
(* The analysis.                                                           *)

LEMMA FinalUpdateKeepsInv ==
  ASSUME IssuesInv, NEW s \in Sender, FinalUpdate(s)
  PROVE  IssuesInv'
<1>1. UNCHANGED <<given, foreign, ours, updates, mishaps, cache, cacheLock, issue, lock,
                  forced, copy, found, clean, closing, returned, conclusion>>
  BY DEF FinalUpdate, database, shared
<1>2. PICK c \in left[s] :
        /\ left' = [left EXCEPT ![s] = @ \ {c}]
        /\ IF s \in given.submitters
           THEN scope' = [scope EXCEPT ![s] = {c}] /\ Goto(s, "analyze")
           ELSE UNCHANGED <<scope, pc>>
  BY DEF FinalUpdate
<1>3. pc[s] = "loop" BY DEF FinalUpdate
<1>4. c \in CRC BY DEF IssuesInv, Types
<1>5. Types'
  <2>1. left' \in [Sender -> SUBSET CRC] BY <1>2 DEF IssuesInv, Types
  <2>2. scope' \in [Sender -> SUBSET CRC] /\ pc' \in [Sender -> Place]
    <3>1. CASE s \in given.submitters
      <4>1. scope' = [scope EXCEPT ![s] = {c}] /\ pc' = [pc EXCEPT ![s] = "analyze"]
        BY <1>2, <3>1 DEF Goto
      <4> QED BY <1>4, <4>1 DEF IssuesInv, Types, Place
    <3>2. CASE s \notin given.submitters BY <1>2, <3>2 DEF IssuesInv, Types
    <3> QED BY <3>1, <3>2
  <2> QED BY <1>1, <2>1, <2>2 DEF IssuesInv, Types
<1>6. CacheLocked' /\ IssueLocked'
  <2>1. CASE s \in given.submitters
    BY <1>1, <1>2, <1>3, <2>1, MovesFree DEF IssuesInv
  <2>2. CASE s \notin given.submitters
    BY <1>1, <1>2, <2>2, CacheLockedFrame, IssueLockedFrame DEF IssuesInv
  <2> QED BY <2>1, <2>2
<1>7. Reviewed'
  <2>1. ~closing[s] BY <1>3 DEF IssuesInv, Reviewed
  <2>2. \A t \in Sender : t # s => scope'[t] = scope[t] /\ pc'[t] = pc[t]
    BY <1>2 DEF IssuesInv, Types, Goto
  <2> QED BY <1>1, <2>1, <2>2 DEF IssuesInv, Reviewed
<1> QED
  BY <1>1, <1>5, <1>6, <1>7, SharedFrame, CountedFrame, KnownFrame, AnsweredFrame,
     SuccessFrame DEF IssuesInv

LEMMA OpenCacheKeepsInv ==
  ASSUME IssuesInv, NEW s \in Sender, OpenCache(s)
  PROVE  IssuesInv'
<1>1. UNCHANGED <<given, foreign, ours, updates, mishaps, cache, issue, lock, forced,
                  left, scope, found, clean, closing, returned, conclusion>>
  BY DEF OpenCache, database
<1>2. /\ pc[s] = "analyze" /\ cacheLock = Nobody /\ cacheLock' = s
      /\ copy' = [copy EXCEPT ![s] = cache]
      /\ pc' = [pc EXCEPT ![s] = "analyzing"]
  BY DEF OpenCache, Goto
<1>3. /\ pc'[s] = "analyzing" /\ copy'[s] = cache
      /\ \A t \in Sender : t # s => pc'[t] = pc[t] /\ copy'[t] = copy[t]
  BY <1>2 DEF IssuesInv, Types
<1>4. Types'
  <2>1. copy' \in [Sender -> [Key -> Object \cup {NoObject}]]
    BY <1>2 DEF IssuesInv, Types
  <2>2. pc' \in [Sender -> Place] BY <1>2 DEF IssuesInv, Types, Place
  <2> QED BY <1>1, <2>1, <2>2 DEF IssuesInv, Types
<1>5. CacheLocked'
  <2>1. \A t \in Sender : t # s => pc[t] # "analyzing"
    BY <1>2, IssuesAssumption DEF IssuesInv, CacheLocked
  <2> QED BY <1>1, <1>2, <1>3, <2>1 DEF IssuesInv, CacheLocked
<1>6. IssueLocked'
  <2>1. \A o \in Object : s \notin lock[o] BY <1>2 DEF IssuesInv, IssueLocked
  <2> QED BY <1>1, <1>3, <2>1 DEF IssuesInv, IssueLocked, Types
<1>7. Reviewed' BY <1>1, <1>3 DEF IssuesInv, Reviewed
<1> QED
  BY <1>1, <1>4, <1>5, <1>6, <1>7, SharedFrame, CountedFrame, KnownFrame, AnsweredFrame,
     SuccessFrame DEF IssuesInv

(* The cache grows: an issue in it stays the same object. *)
LEMMA CacheGrows ==
  ASSUME IssuesInv, NEW s \in Sender, CloseCache(s)
  PROVE  \E c \in scope[s] :
    /\ cache' = [k \in Key |-> IF k \in keysOf[c] /\ cache[k] = NoObject
                               THEN <<k, s>> ELSE cache[k]]
    /\ found' = [found EXCEPT ![s] = @ \cup {cache'[k] : k \in keysOf[c]}]
    /\ clean' = [clean EXCEPT ![s] =
                   @ /\ (keysOf[c] # {} \/ given.results[c].outcome = "PASS")]
    /\ scope' = [scope EXCEPT ![s] = @ \ {c}]
<1>1. pc[s] = "analyzing" /\ copy[s] = cache
  BY DEF CloseCache, IssuesInv, CacheLocked
<1>2. PICK c \in scope[s] :
        /\ cache' = [k \in Key |-> Kept(s, c, k)]
        /\ found' = [found EXCEPT ![s] = @ \cup {Kept(s, c, k) : k \in keysOf[c]}]
        /\ clean' = [clean EXCEPT ![s] =
                       @ /\ (keysOf[c] # {} \/ given.results[c].outcome = "PASS")]
        /\ scope' = [scope EXCEPT ![s] = @ \ {c}]
  BY DEF CloseCache
<1>3. \A k \in Key : Kept(s, c, k) = IF k \in keysOf[c] /\ cache[k] = NoObject
                                     THEN <<k, s>> ELSE cache[k]
  BY <1>1 DEF Kept
<1>4. keysOf[c] \subseteq Key
  BY IssuesAssumption DEF IssuesInv, Types
<1>5. {Kept(s, c, k) : k \in keysOf[c]} = {cache'[k] : k \in keysOf[c]}
  BY <1>2, <1>4
<1> QED BY <1>2, <1>3, <1>5

LEMMA CloseCacheKeepsInv ==
  ASSUME IssuesInv, NEW s \in Sender, CloseCache(s)
  PROVE  IssuesInv'
<1>1. UNCHANGED <<given, foreign, ours, updates, mishaps, issue, lock, forced,
                  left, closing, returned, conclusion>>
  BY DEF CloseCache, database
<1>2. /\ pc[s] = "analyzing" /\ cacheLock' = Nobody
      /\ copy' = [copy EXCEPT ![s] = NoCopy]
      /\ pc' = [pc EXCEPT ![s] = "analyze"]
  BY DEF CloseCache, Goto
<1>3. PICK c \in scope[s] :
        /\ cache' = [k \in Key |-> IF k \in keysOf[c] /\ cache[k] = NoObject
                                   THEN <<k, s>> ELSE cache[k]]
        /\ found' = [found EXCEPT ![s] = @ \cup {cache'[k] : k \in keysOf[c]}]
        /\ clean' = [clean EXCEPT ![s] =
                       @ /\ (keysOf[c] # {} \/ given.results[c].outcome = "PASS")]
        /\ scope' = [scope EXCEPT ![s] = @ \ {c}]
  BY CacheGrows
<1>4. c \in CRC /\ keysOf[c] \subseteq Key
  BY IssuesAssumption DEF IssuesInv, Types
<1>5. /\ cacheLock = s
      /\ \A t \in Sender : t # s => pc[t] # "analyzing"
  BY <1>2 DEF IssuesInv, CacheLocked
<1>6. /\ pc'[s] = "analyze" /\ \A t \in Sender : t # s => pc'[t] = pc[t]
  BY <1>2 DEF IssuesInv, Types
<1>7. /\ \A k \in Key : cache[k] # NoObject => cache'[k] = cache[k]
      /\ \A k \in Key : cache[k] = NoObject => cache'[k] \in {NoObject, <<k, s>>}
      /\ \A k \in keysOf[c] : cache'[k] # NoObject
      /\ \A k \in Key : cache'[k] \in Object \cup {NoObject}
      /\ \A k \in Key : cache'[k] # NoObject => cache'[k] \in Object /\ cache'[k][1] = k
  <2>1. \A k \in Key : cache[k] \in Object \cup {NoObject}
    BY DEF IssuesInv, Types
  <2>2. \A k \in Key : cache[k] # NoObject => cache[k] \in Object /\ cache[k][1] = k
    BY <2>1 DEF IssuesInv, Shared
  <2>3. \A k \in Key : cache'[k] = IF k \in keysOf[c] /\ cache[k] = NoObject
                                   THEN <<k, s>> ELSE cache[k]
    BY <1>3
  <2> SUFFICES ASSUME NEW k \in Key
               PROVE  /\ cache[k] # NoObject => cache'[k] = cache[k]
                      /\ cache[k] = NoObject => cache'[k] \in {NoObject, <<k, s>>}
                      /\ k \in keysOf[c] => cache'[k] # NoObject
                      /\ cache'[k] \in Object \cup {NoObject}
                      /\ cache'[k] # NoObject => cache'[k] \in Object /\ cache'[k][1] = k
    BY <1>4
  <2>4. CASE k \in keysOf[c] /\ cache[k] = NoObject
    <3>1. cache'[k] = <<k, s>> BY <2>3, <2>4
    <3>2. <<k, s>> \in Object /\ <<k, s>>[1] = k /\ <<k, s>> # NoObject
      BY Objects
    <3> QED BY <2>4, <3>1, <3>2
  <2>5. CASE ~(k \in keysOf[c] /\ cache[k] = NoObject)
    <3>1. cache'[k] = cache[k] BY <2>3, <2>5
    <3> QED BY <2>1, <2>2, <2>5, <3>1
  <2> QED BY <2>4, <2>5
<1>8. Types'
  <2>1. pc' \in [Sender -> Place] BY <1>2 DEF IssuesInv, Types, Place
  <2>2. clean' \in [Sender -> BOOLEAN] BY <1>3 DEF IssuesInv, Types
  <2>3. scope' \in [Sender -> SUBSET CRC] BY <1>3 DEF IssuesInv, Types
  <2>4. copy' \in [Sender -> [Key -> Object \cup {NoObject}]]
    BY <1>2 DEF IssuesInv, Types, NoCopy
  <2>5. cache' \in [Key -> Object \cup {NoObject}] BY <1>3, <1>7
  <2>6. {cache'[k] : k \in keysOf[c]} \subseteq Object BY <1>4, <1>7
  <2>7. found' \in [Sender -> SUBSET Object] BY <1>3, <2>6 DEF IssuesInv, Types
  <2> QED BY <1>1, <2>1, <2>2, <2>3, <2>4, <2>5, <2>7 DEF IssuesInv, Types
<1>9. /\ found'[s] = found[s] \cup {cache'[k] : k \in keysOf[c]}
      /\ \A t \in Sender : t # s => found'[t] = found[t]
  BY <1>3 DEF IssuesInv, Types
<1>10. CacheLocked'
  <2>1. \A t \in Sender : pc'[t] # "analyzing" BY <1>5, <1>6
  <2> QED BY <1>2, <2>1, IssuesAssumption DEF CacheLocked
<1>11. IssueLocked'
  <2>1. \A o \in Object : s \notin lock[o] BY <1>2 DEF IssuesInv, IssueLocked
  <2>2. \A t \in Sender : found[t] \subseteq found'[t] BY <1>9
  <2> QED BY <1>1, <1>6, <2>1, <2>2 DEF IssuesInv, IssueLocked, Types
<1>12. Shared'
  <2>1. \A k \in Key : cache'[k] # NoObject => cache'[k][1] = k BY <1>7
  <2>2. ASSUME NEW o \in Object, cache[o[1]] = o
        PROVE  cache'[o[1]] = o
    BY <1>7, <2>2, Objects
  <2>3. ASSUME NEW t \in Sender, NEW o \in found'[t]
        PROVE  cache'[o[1]] = o
    <3>1. CASE o \in found[t]
      BY <2>2, <3>1 DEF IssuesInv, Shared, Types
    <3>2. CASE o \notin found[t]
      <4>1. PICK k \in keysOf[c] : o = cache'[k] BY <1>9, <3>2, <2>3
      <4>2. o[1] = k BY <1>4, <1>7, <4>1
      <4> QED BY <4>1, <4>2
    <3> QED BY <3>1, <3>2
  <2>4. ASSUME NEW o \in Object, cache'[o[1]] # o
        PROVE  issue'[o] = FreshIssue
    BY <1>1, <2>2, <2>4 DEF IssuesInv, Shared
  <2> QED BY <2>1, <2>3, <2>4 DEF Shared
<1>13. Known'
  <2>1. \A o \in Object : cache'[o[1]] = o /\ ~issue[o].synced => ours[o[1]] = 0
    <3> SUFFICES ASSUME NEW o \in Object, cache'[o[1]] = o, ~issue[o].synced
                 PROVE  ours[o[1]] = 0
      OBVIOUS
    <3>1. o[1] \in Key BY Objects
    <3>2. CASE cache[o[1]] = NoObject BY <3>1, <3>2 DEF IssuesInv, Known
    <3>3. CASE cache[o[1]] # NoObject
      <4>1. cache[o[1]] = o BY <1>7, <3>1, <3>3
      <4> QED BY <4>1 DEF IssuesInv, Known
    <3> QED BY <3>2, <3>3
  <2>2. \A k \in Key : cache'[k] = NoObject => ours[k] = 0
    BY <1>7 DEF IssuesInv, Known
  <2> QED BY <1>1, <2>1, <2>2 DEF IssuesInv, Known
<1>14. \A k \in Key : Done(k) => Done(k)' /\ cache'[k] = cache[k]
  BY <1>1, <1>7 DEF Done
<1>15. Counted' BY <1>1, <1>14 DEF IssuesInv, Counted
<1>16. Answered' BY <1>1, <1>14 DEF IssuesInv, Answered
<1>17. Reviewed'
  <2>1. ASSUME NEW t \in Sender
        PROVE  closing'[t] => pc'[t] \notin {"loop", "lookup", "act"}
    BY <1>1, <1>6 DEF IssuesInv, Reviewed
  <2>2. ASSUME NEW t \in Sender, closing'[t], clean'[t], NEW d \in crcsOf[t] \ scope'[t]
        PROVE  /\ keysOf[d] # {} \/ given'.results[d].outcome = "PASS"
               /\ \A k \in keysOf[d] :
                    \/ cache'[k] # NoObject /\ cache'[k] \in found'[t]
                    \/ k \in foreign' \ given'.resolved
    <3>1. keysOf[d] \subseteq Key BY IssuesAssumption
    <3>2. clean[t] /\ closing[t]
      BY <1>1, <1>3, <2>2 DEF IssuesInv, Types
    <3>3. CASE d \notin scope[t]
      <4>1. /\ keysOf[d] # {} \/ given.results[d].outcome = "PASS"
            /\ \A k \in keysOf[d] :
                 \/ cache[k] # NoObject /\ cache[k] \in found[t]
                 \/ k \in foreign \ given.resolved
        BY <2>2, <3>2, <3>3 DEF IssuesInv, Reviewed
      <4>2. found[t] \subseteq found'[t] BY <1>9
      <4> QED BY <1>1, <1>7, <3>1, <4>1, <4>2
    <3>4. CASE d \in scope[t]
      <4>1. t = s /\ d = c BY <1>3, <2>2, <3>4 DEF IssuesInv, Types
      <4>2. keysOf[c] # {} \/ given.results[c].outcome = "PASS"
        BY <1>3, <2>2, <4>1 DEF IssuesInv, Types
      <4>3. \A k \in keysOf[c] : cache'[k] # NoObject /\ cache'[k] \in found'[s]
        BY <1>7, <1>9
      <4> QED BY <1>1, <4>1, <4>2, <4>3
    <3> QED BY <3>3, <3>4
  <2> QED BY <2>1, <2>2 DEF Reviewed
<1> QED
  BY <1>1, <1>8, <1>10, <1>11, <1>12, <1>13, <1>15, <1>16, <1>17, SuccessFrame
  DEF IssuesInv

LEMMA AnalyzerRaisesKeepsInv ==
  ASSUME IssuesInv, NEW s \in Sender, AnalyzerRaises(s)
  PROVE  IssuesInv'
<1>1. UNCHANGED <<given, foreign, ours, updates, mishaps, cache, issue, lock, forced,
                  left, found, closing, returned, conclusion>>
  BY DEF AnalyzerRaises, database
<1>2. /\ pc[s] = "analyzing" /\ cacheLock' = Nobody
      /\ copy' = [copy EXCEPT ![s] = NoCopy]
      /\ clean' = [clean EXCEPT ![s] = FALSE]
      /\ pc' = [pc EXCEPT ![s] = "analyze"]
  BY DEF AnalyzerRaises, Goto, HolderAfter, AnalysisFailed
<1>3. PICK c \in scope[s] : scope' = [scope EXCEPT ![s] = @ \ {c}]
  BY DEF AnalyzerRaises
<1>4. /\ pc'[s] = "analyze" /\ clean'[s] = FALSE
      /\ \A t \in Sender : t # s =>
           pc'[t] = pc[t] /\ clean'[t] = clean[t] /\ scope'[t] = scope[t]
  BY <1>2, <1>3 DEF IssuesInv, Types
<1>5. \A t \in Sender : t # s => pc[t] # "analyzing"
  BY <1>2 DEF IssuesInv, CacheLocked
<1>6. Types'
  <2>1. pc' \in [Sender -> Place] BY <1>2 DEF IssuesInv, Types, Place
  <2>2. clean' \in [Sender -> BOOLEAN] BY <1>2 DEF IssuesInv, Types
  <2>3. scope' \in [Sender -> SUBSET CRC] BY <1>3 DEF IssuesInv, Types
  <2>4. copy' \in [Sender -> [Key -> Object \cup {NoObject}]]
    BY <1>2 DEF IssuesInv, Types, NoCopy
  <2> QED BY <1>1, <2>1, <2>2, <2>3, <2>4 DEF IssuesInv, Types
<1>7. CacheLocked'
  <2>1. \A t \in Sender : pc'[t] # "analyzing" BY <1>4, <1>5
  <2> QED BY <1>2, <2>1, IssuesAssumption DEF CacheLocked
<1>8. IssueLocked'
  <2>1. \A o \in Object : s \notin lock[o] BY <1>2 DEF IssuesInv, IssueLocked
  <2> QED BY <1>1, <1>4, <2>1 DEF IssuesInv, IssueLocked, Types
<1>9. Reviewed' BY <1>1, <1>4 DEF IssuesInv, Reviewed
<1> QED
  BY <1>1, <1>6, <1>7, <1>8, <1>9, SharedFrame, CountedFrame, KnownFrame, AnsweredFrame,
     SuccessFrame DEF IssuesInv

----------------------------------------------------------------------------
(* sync.                                                                   *)

(* What sync finds for an issue of the cache.  Before it has looked, this  *)
(* run has filed none of that key, so that what it finds is of others.     *)
LEMMA SyncedIsKnown ==
  ASSUME Types, Known, NEW o \in Object, cache[o[1]] = o, NEW uri \in Lookup(o)
  PROVE  /\ Synced(o, uri) \in Fields
         /\ Synced(o, uri).synced /\ Synced(o, uri).new # "unset"
         /\ Synced(o, uri).new = "no" => o[1] \in foreign
         /\ Synced(o, uri).submitted = issue[o].submitted
<1>1. o[1] \in Key /\ issue[o] \in Fields /\ ours[o[1]] \in Nat
  BY Objects DEF Types
<1>2. uri \in AnyUri
  <2>1. Uris(o[1]) \subseteq AnyUri BY <1>1 DEF Uris, AnyUri
  <2> QED BY <2>1 DEF Lookup, AnyUri
<1>3. NewAfter(o, uri) \in {"yes", "no"}
  BY <1>1 DEF NewAfter, Fields
<1>4. /\ Synced(o, uri) \in Fields
      /\ Synced(o, uri).synced = TRUE
      /\ Synced(o, uri).new = NewAfter(o, uri)
      /\ Synced(o, uri).submitted = issue[o].submitted
  BY <1>1, <1>2, <1>3 DEF Synced, Fields
<1>5. ASSUME NewAfter(o, uri) = "no" PROVE o[1] \in foreign
  <2>1. CASE issue[o].new # "unset"
    <3>1. issue[o].new = "no" BY <1>5, <2>1 DEF NewAfter
    <3> QED BY <3>1 DEF Known
  <2>2. CASE issue[o].new = "unset"
    <3>1. uri # NoUri BY <1>5, <2>2 DEF NewAfter
    <3>2. ours[o[1]] = 0 BY <2>2 DEF Known
    <3>3. Uris(o[1]) # {} BY <3>1 DEF Lookup
    <3>4. 1..ours[o[1]] = {} BY <3>2
    <3> QED BY <3>3, <3>4 DEF Uris
  <2> QED BY <2>1, <2>2
<1> QED BY <1>3, <1>4, <1>5

LEMMA SyncResultIsKnown ==
  ASSUME Types, Known, NEW o \in Object, cache[o[1]] = o, NEW f \in SyncResults(o)
  PROVE  /\ f \in Fields /\ f.synced /\ f.new # "unset"
         /\ f.new = "no" => o[1] \in foreign
         /\ f.submitted = issue[o].submitted
         /\ issue[o].submitted => f = issue[o]
<1>1. CASE issue[o].synced
  <2>1. f = issue[o] BY <1>1 DEF SyncResults
  <2>2. issue[o] \in Fields BY DEF Types
  <2> QED BY <1>1, <2>1, <2>2 DEF Known
<1>2. CASE ~issue[o].synced
  <2>1. PICK uri \in Lookup(o) : f = Synced(o, uri) BY <1>2 DEF SyncResults
  <2>2. ~issue[o].submitted BY <1>2 DEF Known
  <2> QED BY <2>1, <2>2, SyncedIsKnown
<1> QED BY <1>1, <1>2

LEMMA SyncKeeps ==
  ASSUME IssuesInv, NEW o \in Object, cache[o[1]] = o, NEW f \in Fields,
         f.synced, f.new # "unset", f.new = "no" => o[1] \in foreign,
         f.submitted = issue[o].submitted,
         f.submitted /\ o[1] \notin forced' => f.uri = issue[o].uri,
         forced \subseteq forced',
         issue' = [issue EXCEPT ![o] = f],
         UNCHANGED <<ours, updates, mishaps, foreign, cache, returned>>
  PROVE  /\ issue' \in [Object -> Fields]
         /\ Known' /\ Counted' /\ Answered'
         /\ \A p \in Object : cache[p[1]] # p => issue'[p] = FreshIssue
         /\ \A p \in Object : issue'[p].submitted = issue[p].submitted
         /\ \A p \in Object : issue[p].synced => issue'[p].synced
         /\ issue'[o].synced
<1>1. /\ issue'[o] = f /\ \A p \in Object : p # o => issue'[p] = issue[p]
      /\ issue' \in [Object -> Fields]
  BY DEF IssuesInv, Types
<1>2. Known' BY <1>1 DEF IssuesInv, Known
<1>3. /\ \A p \in Object : issue'[p].submitted = issue[p].submitted
      /\ \A p \in Object : issue[p].synced => issue'[p].synced
  BY <1>1
<1>4. \A k \in Key : Done(k)' = Done(k)
  <2>1. \A k \in Key : cache[k] \in Object \cup {NoObject} BY DEF IssuesInv, Types
  <2> QED BY <1>3, <2>1 DEF Done
<1>5. Counted' BY <1>4 DEF IssuesInv, Counted
<1>6. Answered'
  <2> SUFFICES ASSUME NEW s \in Sender, NEW k \in Key, returned[s][k] # NotAsked
               PROVE  /\ Done(k)'
                      /\ k \notin forced' => returned[s][k] = issue'[cache[k]].uri
    BY DEF Answered
  <2>1. /\ Done(k)
        /\ k \notin forced => returned[s][k] = issue[cache[k]].uri
    BY DEF IssuesInv, Answered
  <2>2. /\ cache[k] # NoObject /\ issue[cache[k]].submitted BY <2>1 DEF Done
  <2>3. cache[k] \in Object /\ cache[k][1] = k
    BY <2>2 DEF IssuesInv, Types, Shared
  <2>4. CASE cache[k] = o BY <1>1, <1>4, <2>1, <2>2, <2>3, <2>4
  <2>5. CASE cache[k] # o BY <1>1, <1>4, <2>1, <2>3, <2>5
  <2> QED BY <2>4, <2>5
<1>7. \A p \in Object : cache[p[1]] # p => issue'[p] = FreshIssue
  BY <1>1 DEF IssuesInv, Shared
<1> QED BY <1>1, <1>2, <1>3, <1>5, <1>6, <1>7

LEMMA ForceSyncKeepsInv ==
  ASSUME IssuesInv, NEW o \in Object, ForceSync(o)
  PROVE  IssuesInv'
<1>1. UNCHANGED <<given, foreign, ours, updates, mishaps, cache, cacheLock, lock, pc,
                  left, scope, copy, found, clean, closing, returned, conclusion>>
  BY DEF ForceSync, database, own
<1>2. PICK uri \in Lookup(o) : issue' = [issue EXCEPT ![o] = Synced(o, uri)]
  BY DEF ForceSync
<1>3. cache[o[1]] = o
  <2>1. PICK k \in Key : o = cache[k] BY DEF ForceSync
  <2>2. o # NoObject BY Objects
  <2> QED BY <2>1, <2>2 DEF IssuesInv, Shared
<1>4. forced' = forced \cup {o[1]} BY DEF ForceSync
<1>5. /\ Synced(o, uri) \in Fields
      /\ Synced(o, uri).synced /\ Synced(o, uri).new # "unset"
      /\ Synced(o, uri).new = "no" => o[1] \in foreign
      /\ Synced(o, uri).submitted = issue[o].submitted
  BY <1>3, SyncedIsKnown DEF IssuesInv
<1>6. /\ issue' \in [Object -> Fields]
      /\ Known' /\ Counted' /\ Answered'
      /\ \A p \in Object : cache[p[1]] # p => issue'[p] = FreshIssue
      /\ \A p \in Object : issue'[p].submitted = issue[p].submitted
      /\ \A p \in Object : issue[p].synced => issue'[p].synced
  BY <1>1, <1>2, <1>3, <1>4, <1>5, SyncKeeps
<1>7. Types' BY <1>1, <1>6 DEF IssuesInv, Types
<1>8. IssueLocked' BY <1>1, <1>6 DEF IssuesInv, IssueLocked, Types
<1>9. Shared' BY <1>1, <1>6 DEF IssuesInv, Shared
<1> QED
  BY <1>1, <1>6, <1>7, <1>8, <1>9, CacheLockedFrame, ReviewedFrame, SuccessFrame
  DEF IssuesInv

----------------------------------------------------------------------------
(* submit.                                                                 *)

(* Handled issues of a sender that does not conclude are not reviewed. *)
LEMMA NotClosing ==
  ASSUME Reviewed, NEW s \in Sender, ~closing[s],
         \A t \in Sender : t # s => found'[t] = found[t] /\ pc'[t] = pc[t],
         UNCHANGED <<given, foreign, closing, clean, scope, cache>>
  PROVE  Reviewed'
BY DEF Reviewed

LEMMA SubmitAgainKeepsInv ==
  ASSUME IssuesInv, NEW s \in Sender, SubmitAgain(s)
  PROVE  IssuesInv'
<1>1. UNCHANGED <<given, foreign, ours, updates, mishaps, cache, cacheLock, issue, lock,
                  forced, pc, left, scope, copy, clean, closing, conclusion>>
  BY DEF SubmitAgain, database, shared
<1>2. PICK o \in found[s] :
        /\ issue[o].submitted
        /\ found' = [found EXCEPT ![s] = @ \ {o}]
        /\ returned' = [returned EXCEPT ![s] = [@ EXCEPT ![o[1]] = issue[o].uri]]
  BY DEF SubmitAgain, Returned
<1>3. pc[s] = "analyze" /\ ~closing[s] BY DEF SubmitAgain, Analyzed
<1>4. o \in Object /\ cache[o[1]] = o /\ o[1] \in Key
  BY Objects DEF IssuesInv, Types, Shared
<1>5. /\ found'[s] = found[s] \ {o} /\ \A t \in Sender : t # s => found'[t] = found[t]
      /\ found' \in [Sender -> SUBSET Object]
  BY <1>2 DEF IssuesInv, Types
<1>6. /\ returned'[s][o[1]] = issue[o].uri
      /\ \A t \in Sender, k \in Key :
           ~(t = s /\ k = o[1]) => returned'[t][k] = returned[t][k]
      /\ DOMAIN returned' = Sender /\ \A t \in Sender : DOMAIN returned'[t] = Key
  BY <1>2, <1>4 DEF IssuesInv, Types
<1>7. Types' BY <1>1, <1>5, <1>6 DEF IssuesInv, Types
<1>8. IssueLocked'
  <2>1. \A p \in Object : s \notin lock[p] BY <1>3 DEF IssuesInv, IssueLocked
  <2>2. \A p \in Object : \A t \in lock[p] : found'[t] = found[t]
    BY <1>5, <2>1 DEF IssuesInv, Types
  <2> QED BY <1>1, <2>2 DEF IssuesInv, IssueLocked
<1>9. Shared' BY <1>1, <1>5 DEF IssuesInv, Shared
<1>10. Answered'
  <2>1. Done(o[1])
    <3>1. o # NoObject BY <1>4, Objects
    <3> QED BY <1>2, <1>4, <3>1 DEF Done
  <2>2. \A k \in Key : Done(k)' = Done(k) BY <1>1 DEF Done
  <2> QED BY <1>1, <1>4, <1>6, <2>1, <2>2 DEF IssuesInv, Answered
<1>11. Reviewed' BY <1>1, <1>3, <1>5, NotClosing DEF IssuesInv
<1> QED
  BY <1>1, <1>7, <1>8, <1>9, <1>10, <1>11, CacheLockedFrame, CountedFrame, KnownFrame,
     SuccessFrame DEF IssuesInv

LEMMA BeginSubmitKeepsInv ==
  ASSUME IssuesInv, NEW s \in Sender, BeginSubmit(s)
  PROVE  IssuesInv'
<1>1. UNCHANGED <<given, foreign, ours, updates, mishaps, cache, cacheLock, issue,
                  forced, left, scope, copy, found, clean, closing, returned, conclusion>>
  BY DEF BeginSubmit, database
<1>2. PICK o \in found[s] :
        /\ lock[o] = {} /\ ~issue[o].submitted
        /\ lock' = [lock EXCEPT ![o] = @ \cup {s}]
  BY DEF BeginSubmit, MaySubmit
<1>3. pc[s] = "analyze" /\ ~closing[s] BY DEF BeginSubmit, Analyzed
<1>4. o \in Object BY DEF IssuesInv, Types
<1>5. /\ pc'[s] = "lookup" /\ \A t \in Sender : t # s => pc'[t] = pc[t]
      /\ pc' \in [Sender -> Place]
  BY DEF BeginSubmit, Goto, IssuesInv, Types, Place
<1>6. /\ lock'[o] = {s} /\ \A p \in Object : p # o => lock'[p] = lock[p]
      /\ lock' \in [Object -> SUBSET Sender]
  BY <1>2, <1>4 DEF IssuesInv, Types
<1>7. Types' BY <1>1, <1>5, <1>6 DEF IssuesInv, Types
<1>8. CacheLocked' BY <1>1, <1>3, <1>5 DEF IssuesInv, CacheLocked
<1>9. IssueLocked'
  <2>1. \A p \in Object : s \notin lock[p] BY <1>3 DEF IssuesInv, IssueLocked
  <2>2. \A p \in Object : \A t \in lock'[p] :
          \/ p = o /\ t = s
          \/ p # o /\ t \in lock[p] /\ t # s /\ t \in Sender
    BY <1>6, <2>1 DEF IssuesInv, Types
  <2>3. ASSUME NEW p \in Object, NEW t \in lock'[p]
        PROVE  /\ pc'[t] \in {"lookup", "act"}
               /\ p \in found'[t]
               /\ ~issue'[p].submitted
               /\ pc'[t] = "act" => issue'[p].synced
    <3>1. CASE p = o /\ t = s BY <1>1, <1>2, <1>5, <3>1
    <3>2. CASE p # o /\ t \in lock[p] /\ t # s /\ t \in Sender
      BY <1>1, <1>5, <3>2 DEF IssuesInv, IssueLocked
    <3> QED BY <2>2, <3>1, <3>2
  <2>4. \A p \in Object : \A t, u \in lock'[p] : t = u
    BY <2>2 DEF IssuesInv, IssueLocked
  <2>5. \A p, q \in Object : \A t \in lock'[p] : t \in lock'[q] => p = q
    BY <2>2 DEF IssuesInv, IssueLocked
  <2> QED BY <2>3, <2>4, <2>5 DEF IssueLocked
<1>10. Reviewed' BY <1>1, <1>3, <1>5, NotClosing DEF IssuesInv
<1> QED
  BY <1>1, <1>7, <1>8, <1>9, <1>10, SharedFrame, CountedFrame, KnownFrame, AnsweredFrame,
     SuccessFrame DEF IssuesInv

(* A sender that holds the lock of an issue of the cache. *)
LEMMA HeldIsCached ==
  ASSUME IssuesInv, NEW s \in Sender, NEW o \in Object, s \in lock[o]
  PROVE  /\ cache[o[1]] = o /\ o[1] \in Key /\ o # NoObject
         /\ o \in found[s] /\ ~issue[o].submitted /\ pc[s] \in {"lookup", "act"}
         /\ pc[s] = "act" => issue[o].synced
BY Objects DEF IssuesInv, IssueLocked, Shared

LEMMA SyncForSubmitKeepsInv ==
  ASSUME IssuesInv, NEW s \in Sender, SyncForSubmit(s)
  PROVE  IssuesInv'
<1>1. UNCHANGED <<given, foreign, ours, updates, mishaps, cache, cacheLock, forced,
                  left, scope, copy, found, clean, closing, returned, conclusion>>
  BY DEF SyncForSubmit, database
<1>2. pc[s] = "lookup" BY DEF SyncForSubmit
<1>3. CASE SenderFails(s) /\ UNCHANGED issue
  <2>1. /\ CacheLocked' /\ IssueLocked' /\ Reviewed'
        /\ lock' \in [Object -> SUBSET Sender] /\ pc' \in [Sender -> Place]
    BY <1>1, <1>2, <1>3, FailingIsFree DEF IssuesInv
  <2>2. Types' BY <1>1, <1>3, <2>1 DEF IssuesInv, Types
  <2> QED
    BY <1>1, <1>3, <2>1, <2>2, SharedFrame, CountedFrame, KnownFrame, AnsweredFrame,
       SuccessFrame DEF IssuesInv
<1>4. CASE /\ \E o \in Object : /\ s \in lock[o]
                                /\ \E fields \in SyncResults(o) :
                                     issue' = [issue EXCEPT ![o] = fields]
           /\ Goto(s, "act")
           /\ UNCHANGED lock
  <2>1. PICK o \in Object : /\ s \in lock[o]
                            /\ \E fields \in SyncResults(o) :
                                 issue' = [issue EXCEPT ![o] = fields]
    BY <1>4
  <2>2. PICK f \in SyncResults(o) : issue' = [issue EXCEPT ![o] = f] BY <2>1
  <2>3. cache[o[1]] = o BY <2>1, HeldIsCached
  <2>4. /\ f \in Fields /\ f.synced /\ f.new # "unset"
        /\ f.new = "no" => o[1] \in foreign
        /\ f.submitted = issue[o].submitted
        /\ issue[o].submitted => f = issue[o]
    BY <2>3, SyncResultIsKnown DEF IssuesInv
  <2>5. /\ issue' \in [Object -> Fields]
        /\ Known' /\ Counted' /\ Answered'
        /\ \A p \in Object : cache[p[1]] # p => issue'[p] = FreshIssue
        /\ \A p \in Object : issue'[p].submitted = issue[p].submitted
        /\ \A p \in Object : issue[p].synced => issue'[p].synced
        /\ issue'[o].synced
    BY <1>1, <2>2, <2>3, <2>4, SyncKeeps
  <2>6. /\ pc'[s] = "act" /\ \A t \in Sender : t # s => pc'[t] = pc[t]
        /\ pc' \in [Sender -> Place]
    BY <1>4 DEF Goto, IssuesInv, Types, Place
  <2>7. Types' BY <1>1, <1>4, <2>5, <2>6 DEF IssuesInv, Types
  <2>8. CacheLocked' BY <1>1, <1>2, <2>6 DEF IssuesInv, CacheLocked
  <2>9. IssueLocked'
    <3>1. \A p \in Object : s \in lock[p] => p = o
      BY <2>1 DEF IssuesInv, IssueLocked
    <3>2. ASSUME NEW p \in Object, NEW t \in lock[p]
          PROVE  /\ pc'[t] \in {"lookup", "act"} /\ p \in found[t]
                 /\ ~issue'[p].submitted
                 /\ pc'[t] = "act" => issue'[p].synced
      <4>1. t \in Sender BY DEF IssuesInv, Types
      <4>2. /\ pc[t] \in {"lookup", "act"} /\ p \in found[t]
            /\ ~issue[p].submitted
            /\ pc[t] = "act" => issue[p].synced
        BY DEF IssuesInv, IssueLocked
      <4>3. CASE t = s BY <2>5, <2>6, <3>1, <3>2, <4>2, <4>3
      <4>4. CASE t # s BY <2>5, <2>6, <4>1, <4>2, <4>4
      <4> QED BY <4>3, <4>4
    <3> QED BY <1>1, <1>4, <3>2 DEF IssuesInv, IssueLocked
  <2>10. Shared' BY <1>1, <2>5 DEF IssuesInv, Shared
  <2>11. Reviewed' BY <1>1, <1>2, <2>6 DEF IssuesInv, Reviewed
  <2> QED
    BY <1>1, <2>5, <2>7, <2>8, <2>9, <2>10, <2>11, SuccessFrame DEF IssuesInv
<1> QED BY <1>3, <1>4 DEF SyncForSubmit

(* The end of submit: one call acted at most, and the issue is marked. *)
LEMMA EndSubmitKeepsInv ==
  ASSUME IssuesInv, NEW s \in Sender, NEW o \in Object, s \in lock[o], pc[s] = "act",
         NEW uri \in AnyUri, EndSubmit(s, o, uri),
         ours' \in [Key -> Nat], updates' \in [Key -> Nat],
         \A k \in Key : k # o[1] => ours'[k] = ours[k] /\ updates'[k] = updates[k],
         ours'[o[1]] + updates'[o[1]] <= 1 + ours[o[1]] + updates[o[1]],
         UNCHANGED <<given, foreign, mishaps, cache, cacheLock, forced, left, scope,
                     copy, clean, closing, conclusion>>
  PROVE  IssuesInv'
<1>1. /\ cache[o[1]] = o /\ o[1] \in Key /\ o # NoObject
      /\ o \in found[s] /\ ~issue[o].submitted /\ issue[o].synced
  BY HeldIsCached
<1>2. /\ issue' = [issue EXCEPT ![o] = Submitted(o, uri)]
      /\ lock' = [lock EXCEPT ![o] = @ \ {s}]
      /\ found' = [found EXCEPT ![s] = @ \ {o}]
      /\ returned' = [returned EXCEPT ![s] = [@ EXCEPT ![o[1]] = uri]]
      /\ pc' = [pc EXCEPT ![s] = "analyze"]
  BY DEF EndSubmit, Returned, Goto
<1>3. /\ Submitted(o, uri) \in Fields
      /\ Submitted(o, uri).synced = issue[o].synced
      /\ Submitted(o, uri).new = issue[o].new
      /\ Submitted(o, uri).uri = uri
      /\ Submitted(o, uri).submitted = TRUE
  <2>1. issue[o] \in Fields BY DEF IssuesInv, Types
  <2> QED BY <2>1 DEF Submitted, Fields
<1>4. /\ issue' \in [Object -> Fields]
      /\ issue'[o] = Submitted(o, uri)
      /\ \A p \in Object : p # o => issue'[p] = issue[p]
  BY <1>2, <1>3 DEF IssuesInv, Types
<1>5. /\ pc' \in [Sender -> Place]
      /\ pc'[s] = "analyze" /\ \A t \in Sender : t # s => pc'[t] = pc[t]
  BY <1>2 DEF IssuesInv, Types, Place
<1>6. /\ found' \in [Sender -> SUBSET Object]
      /\ found'[s] = found[s] \ {o} /\ \A t \in Sender : t # s => found'[t] = found[t]
  BY <1>2 DEF IssuesInv, Types
<1>7. /\ returned'[s][o[1]] = uri
      /\ \A t \in Sender, k \in Key :
           ~(t = s /\ k = o[1]) => returned'[t][k] = returned[t][k]
      /\ DOMAIN returned' = Sender /\ \A t \in Sender : DOMAIN returned'[t] = Key
  BY <1>1, <1>2 DEF IssuesInv, Types
<1>8. /\ lock' \in [Object -> SUBSET Sender]
      /\ lock'[o] = lock[o] \ {s} /\ \A p \in Object : p # o => lock'[p] = lock[p]
  BY <1>2 DEF IssuesInv, Types
<1>9. Types' BY <1>4, <1>5, <1>6, <1>7, <1>8 DEF IssuesInv, Types
<1>10. CacheLocked' BY <1>5 DEF IssuesInv, CacheLocked
<1>11. IssueLocked'
  <2>1. lock'[o] = {} BY <1>8 DEF IssuesInv, IssueLocked
  <2>2. \A p \in Object : p # o => s \notin lock[p]
    BY DEF IssuesInv, IssueLocked
  <2>3. \A p \in Object : \A t \in lock'[p] :
          p # o /\ t # s /\ t \in lock[p] /\ t \in Sender
    BY <1>8, <2>1, <2>2 DEF IssuesInv, Types
  <2>4. ASSUME NEW p \in Object, NEW t \in lock'[p]
        PROVE  /\ pc'[t] \in {"lookup", "act"}
               /\ p \in found'[t]
               /\ ~issue'[p].submitted
               /\ pc'[t] = "act" => issue'[p].synced
    <3>1. p # o /\ t # s /\ t \in lock[p] /\ t \in Sender BY <2>3, <2>4
    <3> QED BY <1>4, <1>5, <1>6, <3>1 DEF IssuesInv, IssueLocked
  <2>5. \A p \in Object : \A t, u \in lock'[p] : t = u
    BY <2>3 DEF IssuesInv, IssueLocked
  <2>6. \A p, q \in Object : \A t \in lock'[p] : t \in lock'[q] => p = q
    BY <2>3 DEF IssuesInv, IssueLocked
  <2> QED BY <2>4, <2>5, <2>6 DEF IssueLocked
<1>12. Shared'
  <2>1. \A t \in Sender : found'[t] \subseteq found[t] BY <1>6
  <2>2. \A p \in Object : cache[p[1]] # p => p # o BY <1>1
  <2> QED BY <1>4, <2>1, <2>2 DEF IssuesInv, Shared
<1>13. /\ ~Done(o[1]) /\ Done(o[1])'
       /\ \A k \in Key : k # o[1] => Done(k)' = Done(k)
  <2>1. ~Done(o[1]) BY <1>1 DEF Done
  <2>2. Done(o[1])' BY <1>1, <1>3, <1>4 DEF Done
  <2>3. ASSUME NEW k \in Key, k # o[1] PROVE Done(k)' = Done(k)
    <3>1. cache[k] \in Object \cup {NoObject} BY DEF IssuesInv, Types
    <3>2. cache[k] # o BY <1>1, <2>3 DEF IssuesInv, Shared
    <3> QED BY <1>4, <3>1, <3>2 DEF Done
  <2> QED BY <2>1, <2>2, <2>3
<1>14. Counted'
  <2>1. ASSUME NEW k \in Key, k # o[1]
        PROVE  /\ ~Done(k)' => ours'[k] + updates'[k] <= mishaps'[k]
               /\ ours'[k] + updates'[k] <= 1 + mishaps'[k]
    BY <1>13, <2>1 DEF IssuesInv, Counted
  <2>2. ours[o[1]] + updates[o[1]] <= mishaps[o[1]]
    BY <1>1, <1>13 DEF IssuesInv, Counted
  <2>3. ours'[o[1]] + updates'[o[1]] <= 1 + mishaps'[o[1]]
    <3>1. /\ ours[o[1]] \in Nat /\ updates[o[1]] \in Nat /\ mishaps[o[1]] \in Nat
          /\ ours'[o[1]] \in Nat /\ updates'[o[1]] \in Nat
      BY <1>1 DEF IssuesInv, Types
    <3> QED BY <2>2, <3>1
  <2> QED BY <1>13, <2>1, <2>3 DEF Counted
<1>15. Known'
  <2>1. ASSUME NEW p \in Object
        PROVE  /\ issue'[p].new = "unset" <=> ~issue'[p].synced
               /\ issue'[p].submitted => issue'[p].synced
               /\ issue'[p].new = "no" => p[1] \in foreign'
               /\ cache'[p[1]] = p /\ ~issue'[p].synced => ours'[p[1]] = 0
    <3>1. CASE p = o
      <4>1. /\ issue'[o].synced = issue[o].synced /\ issue'[o].new = issue[o].new
        BY <1>3, <1>4
      <4>2. /\ issue[o].new = "unset" <=> ~issue[o].synced
            /\ issue[o].new = "no" => o[1] \in foreign
        BY DEF IssuesInv, Known
      <4> QED BY <1>1, <3>1, <4>1, <4>2
    <3>2. CASE p # o
      <4>1. cache[p[1]] = p => p[1] # o[1] BY <1>1, <3>2
      <4>2. p[1] \in Key BY Objects
      <4> QED BY <1>4, <3>2, <4>1, <4>2 DEF IssuesInv, Known
    <3> QED BY <3>1, <3>2
  <2>2. \A k \in Key : cache'[k] = NoObject => ours'[k] = 0
    BY <1>1 DEF IssuesInv, Known
  <2> QED BY <2>1, <2>2 DEF Known
<1>16. Answered'
  <2> SUFFICES ASSUME NEW t \in Sender, NEW k \in Key, returned'[t][k] # NotAsked
               PROVE  /\ Done(k)'
                      /\ k \notin forced => returned'[t][k] = issue'[cache[k]].uri
    BY DEF Answered
  <2>1. CASE k = o[1]
    <3>1. t = s
      <4>1. \A u \in Sender : returned[u][k] = NotAsked
        BY <1>13, <2>1 DEF IssuesInv, Answered
      <4> QED BY <1>7, <4>1
    <3> QED BY <1>1, <1>3, <1>4, <1>7, <1>13, <2>1, <3>1
  <2>2. CASE k # o[1]
    <3>1. returned[t][k] # NotAsked BY <1>7, <2>2
    <3>2. Done(k) BY <3>1 DEF IssuesInv, Answered
    <3>3. cache[k] \in Object /\ cache[k] # o
      BY <1>1, <2>2, <3>2 DEF IssuesInv, Types, Shared, Done
    <3>4. k \notin forced => returned[t][k] = issue[cache[k]].uri
      BY <3>1 DEF IssuesInv, Answered
    <3> QED BY <1>4, <1>7, <1>13, <2>2, <3>2, <3>3, <3>4
  <2> QED BY <2>1, <2>2
<1>17. Reviewed'
  <2>1. ~closing[s] BY DEF IssuesInv, Reviewed
  <2> QED BY <1>5, <1>6, <2>1, NotClosing DEF IssuesInv
<1> QED
  BY <1>9, <1>10, <1>11, <1>12, <1>14, <1>15, <1>16, <1>17, SuccessFrame DEF IssuesInv

(* A call that raises: if it acted before, that is a mishap. *)
LEMMA FailedCallKeepsInv ==
  ASSUME IssuesInv, NEW s \in Sender, NEW o \in Object, s \in lock[o], pc[s] = "act",
         SenderFails(s),
         ours' \in [Key -> Nat], updates' \in [Key -> Nat], mishaps' \in [Key -> Nat],
         \A k \in Key : k # o[1] =>
           ours'[k] = ours[k] /\ updates'[k] = updates[k] /\ mishaps'[k] = mishaps[k],
         ours'[o[1]] + updates'[o[1]] + mishaps[o[1]]
           <= ours[o[1]] + updates[o[1]] + mishaps'[o[1]],
         UNCHANGED <<given, foreign, cache, cacheLock, issue, forced, left, scope,
                     copy, found, returned, clean, closing, conclusion>>
  PROVE  IssuesInv'
<1>1. /\ cache[o[1]] = o /\ o[1] \in Key /\ o # NoObject
      /\ ~issue[o].submitted /\ issue[o].synced
  BY HeldIsCached
<1>2. /\ CacheLocked' /\ IssueLocked' /\ Reviewed'
      /\ lock' \in [Object -> SUBSET Sender] /\ pc' \in [Sender -> Place]
  BY FailingIsFree DEF IssuesInv
<1>3. Types' BY <1>2 DEF IssuesInv, Types
<1>4. \A k \in Key : Done(k)' = Done(k) BY DEF Done
<1>5. Counted'
  <2>1. ASSUME NEW k \in Key, k # o[1]
        PROVE  /\ ~Done(k)' => ours'[k] + updates'[k] <= mishaps'[k]
               /\ ours'[k] + updates'[k] <= 1 + mishaps'[k]
    BY <1>4, <2>1 DEF IssuesInv, Counted
  <2>2. ours[o[1]] + updates[o[1]] <= mishaps[o[1]]
    BY <1>1 DEF IssuesInv, Counted, Done
  <2>3. /\ ours[o[1]] \in Nat /\ updates[o[1]] \in Nat /\ mishaps[o[1]] \in Nat
        /\ ours'[o[1]] \in Nat /\ updates'[o[1]] \in Nat /\ mishaps'[o[1]] \in Nat
    BY <1>1 DEF IssuesInv, Types
  <2>4. ours'[o[1]] + updates'[o[1]] <= mishaps'[o[1]] BY <2>2, <2>3
  <2>5. ours'[o[1]] + updates'[o[1]] <= 1 + mishaps'[o[1]] BY <2>3, <2>4
  <2> QED BY <2>1, <2>4, <2>5 DEF Counted
<1>6. Known'
  <2>1. ASSUME NEW p \in Object, cache[p[1]] = p, ~issue[p].synced
        PROVE  ours'[p[1]] = 0
    <3>1. p[1] \in Key /\ p[1] # o[1] BY <1>1, <2>1, Objects
    <3> QED BY <2>1, <3>1 DEF IssuesInv, Known
  <2>2. \A k \in Key : cache[k] = NoObject => ours'[k] = 0
    BY <1>1 DEF IssuesInv, Known
  <2> QED BY <2>1, <2>2 DEF IssuesInv, Known
<1> QED
  BY <1>2, <1>3, <1>5, <1>6, SharedFrame, AnsweredFrame, SuccessFrame DEF IssuesInv

LEMMA ActOnIssueKeepsInv ==
  ASSUME IssuesInv, NEW s \in Sender, ActOnIssue(s)
  PROVE  IssuesInv'
<1>1. UNCHANGED <<given, foreign, cache, cacheLock, forced, left, scope, copy, clean,
                  closing, conclusion>>
  BY DEF ActOnIssue
<1>2. PICK o \in Object : s \in lock[o] /\ (Make(s, o) \/ Update(s, o) \/ SkipSubmit(s, o))
  BY DEF ActOnIssue
<1>3. pc[s] = "act" BY DEF ActOnIssue
<1>4. /\ o[1] \in Key
      /\ ours \in [Key -> Nat] /\ updates \in [Key -> Nat] /\ mishaps \in [Key -> Nat]
  BY Objects DEF IssuesInv, Types
<1>5. issue[o].uri \in AnyUri
  <2>1. issue[o] \in Fields BY DEF IssuesInv, Types
  <2> QED BY <2>1 DEF Fields
<1>6. CASE Make(s, o)
  <2>1. updates' = updates BY <1>6 DEF Make
  <2>2. CASE /\ ours' = [ours EXCEPT ![o[1]] = @ + 1]
             /\ EndSubmit(s, o, Ours(ours[o[1]] + 1))
             /\ UNCHANGED mishaps
    <3>1. Ours(ours[o[1]] + 1) \in AnyUri BY <1>4 DEF AnyUri
    <3>2. /\ ours' \in [Key -> Nat] /\ ours'[o[1]] = ours[o[1]] + 1
          /\ \A k \in Key : k # o[1] => ours'[k] = ours[k]
      BY <1>4, <2>2
    <3>3. ours'[o[1]] + updates'[o[1]] <= 1 + ours[o[1]] + updates[o[1]]
      BY <1>4, <2>1, <3>2
    <3> QED BY <1>1, <1>2, <1>3, <1>4, <2>1, <2>2, <3>1, <3>2, <3>3, EndSubmitKeepsInv
  <2>3. CASE SenderFails(s) /\ UNCHANGED <<issue, ours, mishaps, found, returned>>
    <3>1. ours'[o[1]] + updates'[o[1]] + mishaps[o[1]]
            <= ours[o[1]] + updates[o[1]] + mishaps'[o[1]]
      BY <1>4, <2>1, <2>3
    <3> QED BY <1>1, <1>2, <1>3, <1>4, <2>1, <2>3, <3>1, FailedCallKeepsInv
  <2>4. CASE /\ SenderFails(s)
             /\ ours' = [ours EXCEPT ![o[1]] = @ + 1]
             /\ mishaps' = [mishaps EXCEPT ![o[1]] = @ + 1]
             /\ UNCHANGED <<issue, found, returned>>
    <3>1. /\ ours' \in [Key -> Nat] /\ ours'[o[1]] = ours[o[1]] + 1
          /\ mishaps' \in [Key -> Nat] /\ mishaps'[o[1]] = mishaps[o[1]] + 1
          /\ \A k \in Key : k # o[1] => ours'[k] = ours[k] /\ mishaps'[k] = mishaps[k]
      BY <1>4, <2>4
    <3>2. ours'[o[1]] + updates'[o[1]] + mishaps[o[1]]
            <= ours[o[1]] + updates[o[1]] + mishaps'[o[1]]
      BY <1>4, <2>1, <3>1
    <3> QED BY <1>1, <1>2, <1>3, <1>4, <2>1, <2>4, <3>1, <3>2, FailedCallKeepsInv
  <2> QED BY <1>6, <2>2, <2>3, <2>4 DEF Make
<1>7. CASE Update(s, o)
  <2>1. ours' = ours BY <1>7 DEF Update
  <2>2. CASE /\ updates' = [updates EXCEPT ![o[1]] = @ + 1]
             /\ EndSubmit(s, o, issue[o].uri)
             /\ UNCHANGED mishaps
    <3>1. /\ updates' \in [Key -> Nat] /\ updates'[o[1]] = updates[o[1]] + 1
          /\ \A k \in Key : k # o[1] => updates'[k] = updates[k]
      BY <1>4, <2>2
    <3>2. ours'[o[1]] + updates'[o[1]] <= 1 + ours[o[1]] + updates[o[1]]
      BY <1>4, <2>1, <3>1
    <3> QED BY <1>1, <1>2, <1>3, <1>4, <1>5, <2>1, <2>2, <3>1, <3>2, EndSubmitKeepsInv
  <2>3. CASE SenderFails(s) /\ UNCHANGED <<issue, updates, mishaps, found, returned>>
    <3>1. ours'[o[1]] + updates'[o[1]] + mishaps[o[1]]
            <= ours[o[1]] + updates[o[1]] + mishaps'[o[1]]
      BY <1>4, <2>1, <2>3
    <3> QED BY <1>1, <1>2, <1>3, <1>4, <2>1, <2>3, <3>1, FailedCallKeepsInv
  <2>4. CASE /\ SenderFails(s)
             /\ updates' = [updates EXCEPT ![o[1]] = @ + 1]
             /\ mishaps' = [mishaps EXCEPT ![o[1]] = @ + 1]
             /\ UNCHANGED <<issue, found, returned>>
    <3>1. /\ updates' \in [Key -> Nat] /\ updates'[o[1]] = updates[o[1]] + 1
          /\ mishaps' \in [Key -> Nat] /\ mishaps'[o[1]] = mishaps[o[1]] + 1
          /\ \A k \in Key : k # o[1] => updates'[k] = updates[k] /\ mishaps'[k] = mishaps[k]
      BY <1>4, <2>4
    <3>2. ours'[o[1]] + updates'[o[1]] + mishaps[o[1]]
            <= ours[o[1]] + updates[o[1]] + mishaps'[o[1]]
      BY <1>4, <2>1, <3>1
    <3> QED BY <1>1, <1>2, <1>3, <1>4, <2>1, <2>4, <3>1, <3>2, FailedCallKeepsInv
  <2> QED BY <1>7, <2>2, <2>3, <2>4 DEF Update
<1>8. CASE SkipSubmit(s, o)
  <2>1. EndSubmit(s, o, issue[o].uri) /\ UNCHANGED <<ours, updates, mishaps>>
    BY <1>8 DEF SkipSubmit
  <2>2. ours'[o[1]] + updates'[o[1]] <= 1 + ours[o[1]] + updates[o[1]]
    BY <1>4, <2>1
  <2> QED BY <1>1, <1>2, <1>3, <1>4, <1>5, <2>1, <2>2, EndSubmitKeepsInv
<1> QED BY <1>2, <1>6, <1>7, <1>8

LEMMA EndOfUpdateKeepsInv ==
  ASSUME IssuesInv, NEW s \in Sender, EndOfUpdate(s)
  PROVE  IssuesInv'
<1>1. UNCHANGED <<given, foreign, ours, updates, mishaps, cache, cacheLock, issue, lock,
                  forced, left, scope, copy, found, closing, returned, conclusion>>
  BY DEF EndOfUpdate, database, shared
<1>2. /\ pc[s] = "analyze" /\ ~closing[s] /\ Goto(s, "loop")
      /\ clean' = [clean EXCEPT ![s] = TRUE]
  BY DEF EndOfUpdate, Analyzed
<1>3. /\ pc' \in [Sender -> Place] /\ clean' \in [Sender -> BOOLEAN]
      /\ \A t \in Sender : t # s => pc'[t] = pc[t] /\ clean'[t] = clean[t]
  BY <1>2 DEF IssuesInv, Types, Goto, Place
<1>4. Types' BY <1>1, <1>3 DEF IssuesInv, Types
<1>5. CacheLocked' /\ IssueLocked' BY <1>1, <1>2, MovesFree DEF IssuesInv
<1>6. Reviewed' BY <1>1, <1>2, <1>3 DEF IssuesInv, Reviewed
<1> QED
  BY <1>1, <1>4, <1>5, <1>6, SharedFrame, CountedFrame, KnownFrame, AnsweredFrame,
     SuccessFrame DEF IssuesInv

----------------------------------------------------------------------------
(* The conclusion.                                                         *)

LEMMA OutcomeOrder ==
  /\ OutcomeIndex["None"] = 0 /\ OutcomeIndex["PASS"] = 1
  /\ OutcomeIndex["FAIL"] = 2 /\ OutcomeIndex["ERROR"] = 3
<1>1. "None" \in Outcome /\ "PASS" \in Outcome /\ "FAIL" \in Outcome /\ "ERROR" \in Outcome
  BY DEF Outcome
<1>2. \A o \in Outcome : o = "None" => OutcomeIndex[o] = 0 BY Zenon DEF OutcomeIndex
<1>3. OutcomeIndex["None"] = 0 BY <1>1, <1>2
<1>4. OutcomeIndex["PASS"] = 1 BY <1>1 DEF OutcomeIndex
<1>5. OutcomeIndex["FAIL"] = 2 BY <1>1 DEF OutcomeIndex
<1>6. OutcomeIndex["ERROR"] = 3 BY <1>1 DEF OutcomeIndex
<1> QED BY <1>3, <1>4, <1>5, <1>6

(* The worst outcome of a list is the outcome of no better one in it. *)
LEMMA WorstIsWorst ==
  ASSUME NEW R \in SUBSET Result, R # {}, NEW r \in R
  PROVE  OutcomeIndex[r.outcome] <= OutcomeIndex[WorstOutcome(R)]
<1> SUFFICES ASSUME NEW outcomes, outcomes = {q.outcome : q \in R}
             PROVE  OutcomeIndex[r.outcome] <= OutcomeIndex[WorstOutcome(R)]
  OBVIOUS
<1>1. outcomes \subseteq {"None", "PASS", "FAIL", "ERROR"} /\ outcomes # {}
  BY DEF Result, Outcome
<1>2. \E o \in outcomes : \A q \in outcomes : OutcomeIndex[q] <= OutcomeIndex[o]
  <2>0. \A q \in outcomes : OutcomeIndex[q] \in 0..3
    <3> SUFFICES ASSUME NEW q \in outcomes PROVE OutcomeIndex[q] \in 0..3
      OBVIOUS
    <3>1. q \in {"None", "PASS", "FAIL", "ERROR"} BY <1>1
    <3> QED BY <3>1, OutcomeOrder
  <2>1. CASE "ERROR" \in outcomes
    <3>1. \A q \in outcomes : OutcomeIndex[q] <= OutcomeIndex["ERROR"]
      BY <2>0, OutcomeOrder
    <3> QED BY <2>1, <3>1
  <2>2. CASE "ERROR" \notin outcomes /\ "FAIL" \in outcomes
    <3>1. ASSUME NEW q \in outcomes PROVE OutcomeIndex[q] <= OutcomeIndex["FAIL"]
      <4>1. q \in {"None", "PASS", "FAIL"} BY <1>1, <2>2
      <4> QED BY <4>1, OutcomeOrder
    <3> QED BY <2>2, <3>1
  <2>3. CASE "ERROR" \notin outcomes /\ "FAIL" \notin outcomes /\ "PASS" \in outcomes
    <3>1. ASSUME NEW q \in outcomes PROVE OutcomeIndex[q] <= OutcomeIndex["PASS"]
      <4>1. q \in {"None", "PASS"} BY <1>1, <2>3
      <4> QED BY <4>1, OutcomeOrder
    <3> QED BY <2>3, <3>1
  <2>4. CASE outcomes = {"None"}
    <3>1. \A q \in outcomes : OutcomeIndex[q] <= OutcomeIndex["None"]
      BY <2>4, OutcomeOrder
    <3> QED BY <2>4, <3>1
  <2>5. CASE "ERROR" \notin outcomes /\ "FAIL" \notin outcomes /\ "PASS" \notin outcomes
    <3>1. outcomes = {"None"} BY <1>1, <2>5
    <3> QED BY <2>4, <3>1
  <2> QED BY <2>1, <2>2, <2>3, <2>5
<1>3. \E o \in outcomes : \A q \in R : OutcomeIndex[q.outcome] <= OutcomeIndex[o]
  BY <1>2
<1>4. WorstOutcome(R) =
        CHOOSE o \in outcomes : \A q \in R : OutcomeIndex[q.outcome] <= OutcomeIndex[o]
  BY DEF WorstOutcome
<1> QED BY <1>3, <1>4

LEMMA ConcludeAtOnceKeepsInv ==
  ASSUME IssuesInv, NEW s \in Sender, ConcludeAtOnce(s)
  PROVE  IssuesInv'
<1>1. UNCHANGED <<given, foreign, ours, updates, mishaps, cache, cacheLock, issue, lock,
                  forced, left, scope, copy, found, clean, closing, returned>>
  BY DEF ConcludeAtOnce, database, shared
<1>2. pc[s] = "loop" /\ Goto(s, "done") BY DEF ConcludeAtOnce
<1>3. /\ conclusion'[s] \in {"cancelled", "action_required"}
      /\ \A t \in Sender : t # s => conclusion'[t] = conclusion[t]
      /\ DOMAIN conclusion' = Sender
  BY DEF ConcludeAtOnce, IssuesInv, Types
<1>4. /\ pc' \in [Sender -> Place]
      /\ pc'[s] = "done" /\ \A t \in Sender : t # s => pc'[t] = pc[t]
  BY <1>2 DEF IssuesInv, Types, Goto, Place
<1>5. Types' BY <1>1, <1>3, <1>4 DEF IssuesInv, Types
<1>6. CacheLocked' /\ IssueLocked' BY <1>1, <1>2, MovesFree DEF IssuesInv
<1>7. Reviewed' BY <1>1, <1>4 DEF IssuesInv, Reviewed
<1>8. SuccessIsReviewed' BY <1>1, <1>3 DEF IssuesInv, SuccessIsReviewed
<1> QED
  BY <1>1, <1>5, <1>6, <1>7, <1>8, SharedFrame, CountedFrame, KnownFrame, AnsweredFrame
  DEF IssuesInv

LEMMA BeginConclusionKeepsInv ==
  ASSUME IssuesInv, NEW s \in Sender, BeginConclusion(s)
  PROVE  IssuesInv'
<1>1. UNCHANGED <<given, foreign, ours, updates, mishaps, cache, cacheLock, issue, lock,
                  forced, left, copy, found, clean, returned, conclusion>>
  BY DEF BeginConclusion, database, shared
<1>2. /\ pc[s] = "loop" /\ Goto(s, "analyze")
      /\ closing' = [closing EXCEPT ![s] = TRUE]
      /\ scope' = [scope EXCEPT ![s] = crcsOf[s]]
  BY DEF BeginConclusion
<1>3. /\ pc' \in [Sender -> Place] /\ closing' \in [Sender -> BOOLEAN]
      /\ scope' \in [Sender -> SUBSET CRC]
      /\ pc'[s] = "analyze" /\ scope'[s] = crcsOf[s]
      /\ \A t \in Sender : t # s =>
           pc'[t] = pc[t] /\ closing'[t] = closing[t] /\ scope'[t] = scope[t]
  BY <1>2, IssuesAssumption DEF IssuesInv, Types, Goto, Place
<1>4. Types' BY <1>1, <1>3 DEF IssuesInv, Types
<1>5. CacheLocked' /\ IssueLocked' BY <1>1, <1>2, MovesFree DEF IssuesInv
<1>6. Reviewed' BY <1>1, <1>3 DEF IssuesInv, Reviewed
<1> QED
  BY <1>1, <1>4, <1>5, <1>6, SharedFrame, CountedFrame, KnownFrame, AnsweredFrame,
     SuccessFrame DEF IssuesInv

LEMMA ReviewKeepsInv ==
  ASSUME IssuesInv, NEW s \in Sender, Review(s)
  PROVE  IssuesInv'
<1>1. UNCHANGED <<given, foreign, ours, updates, mishaps, cache, cacheLock, forced,
                  left, scope, copy, closing, returned, conclusion>>
  BY DEF Review, database
<1>2. pc[s] = "analyze" BY DEF Review, Analyzed
<1>3. PICK o \in found[s] :
        \/ \E fields \in SyncResults(o) :
             /\ issue' = [issue EXCEPT ![o] = fields]
             /\ clean' = [clean EXCEPT ![s] =
                            @ /\ fields.new = "no" /\ o[1] \notin given.resolved]
             /\ found' = [found EXCEPT ![s] = @ \ {o}]
             /\ UNCHANGED <<pc, lock>>
        \/ SenderFails(s) /\ UNCHANGED <<issue, clean, found>>
  BY DEF Review
<1>4. o \in Object /\ cache[o[1]] = o BY DEF IssuesInv, Types, Shared
<1>5. CASE SenderFails(s) /\ UNCHANGED <<issue, clean, found>>
  <2>1. /\ CacheLocked' /\ IssueLocked' /\ Reviewed'
        /\ lock' \in [Object -> SUBSET Sender] /\ pc' \in [Sender -> Place]
    BY <1>1, <1>2, <1>5, FailingIsFree DEF IssuesInv
  <2>2. Types' BY <1>1, <1>5, <2>1 DEF IssuesInv, Types
  <2> QED
    BY <1>1, <1>5, <2>1, <2>2, SharedFrame, CountedFrame, KnownFrame, AnsweredFrame,
       SuccessFrame DEF IssuesInv
<1>6. CASE \E fields \in SyncResults(o) :
             /\ issue' = [issue EXCEPT ![o] = fields]
             /\ clean' = [clean EXCEPT ![s] =
                            @ /\ fields.new = "no" /\ o[1] \notin given.resolved]
             /\ found' = [found EXCEPT ![s] = @ \ {o}]
             /\ UNCHANGED <<pc, lock>>
  <2>1. PICK f \in SyncResults(o) :
             /\ issue' = [issue EXCEPT ![o] = f]
             /\ clean' = [clean EXCEPT ![s] =
                            @ /\ f.new = "no" /\ o[1] \notin given.resolved]
             /\ found' = [found EXCEPT ![s] = @ \ {o}]
             /\ UNCHANGED <<pc, lock>>
    BY <1>6
  <2>2. /\ f \in Fields /\ f.synced /\ f.new # "unset"
        /\ f.new = "no" => o[1] \in foreign
        /\ f.submitted = issue[o].submitted
        /\ issue[o].submitted => f = issue[o]
    BY <1>4, SyncResultIsKnown DEF IssuesInv
  <2>3. /\ issue' \in [Object -> Fields]
        /\ Known' /\ Counted' /\ Answered'
        /\ \A p \in Object : cache[p[1]] # p => issue'[p] = FreshIssue
        /\ \A p \in Object : issue'[p].submitted = issue[p].submitted
        /\ \A p \in Object : issue[p].synced => issue'[p].synced
    BY <1>1, <1>4, <2>1, <2>2, SyncKeeps
  <2>4. /\ found' \in [Sender -> SUBSET Object] /\ clean' \in [Sender -> BOOLEAN]
        /\ found'[s] = found[s] \ {o}
        /\ clean'[s] = (clean[s] /\ f.new = "no" /\ o[1] \notin given.resolved)
        /\ \A t \in Sender : t # s => found'[t] = found[t] /\ clean'[t] = clean[t]
    BY <2>1 DEF IssuesInv, Types
  <2>5. Types' BY <1>1, <2>1, <2>3, <2>4 DEF IssuesInv, Types
  <2>6. CacheLocked' BY <1>1, <2>1, CacheLockedFrame DEF IssuesInv
  <2>7. IssueLocked'
    <3>1. \A p \in Object : s \notin lock[p] BY <1>2 DEF IssuesInv, IssueLocked
    <3>2. \A p \in Object : \A t \in lock[p] : found'[t] = found[t]
      BY <2>4, <3>1 DEF IssuesInv, Types
    <3> QED BY <2>1, <2>3, <3>2 DEF IssuesInv, IssueLocked
  <2>8. Shared' BY <1>1, <2>3, <2>4 DEF IssuesInv, Shared
  <2>9. Reviewed'
    <3>1. ASSUME NEW t \in Sender, closing[t], clean'[t], NEW c \in crcsOf[t] \ scope[t]
          PROVE  /\ keysOf[c] # {} \/ given.results[c].outcome = "PASS"
                 /\ \A k \in keysOf[c] :
                      \/ cache[k] # NoObject /\ cache[k] \in found'[t]
                      \/ k \in foreign \ given.resolved
      <4>1. clean[t] BY <2>4, <3>1
      <4>2. /\ keysOf[c] # {} \/ given.results[c].outcome = "PASS"
            /\ \A k \in keysOf[c] :
                 \/ cache[k] # NoObject /\ cache[k] \in found[t]
                 \/ k \in foreign \ given.resolved
        BY <3>1, <4>1 DEF IssuesInv, Reviewed
      <4>3. CASE t # s BY <2>4, <4>2, <4>3
      <4>4. CASE t = s
        <5>1. o[1] \in foreign \ given.resolved BY <2>2, <2>4, <3>1, <4>4
        <5>2. ASSUME NEW k \in keysOf[c], cache[k] = o PROVE k = o[1]
          <6>1. k \in Key BY <3>1, IssuesAssumption
          <6>2. cache[k] # NoObject BY <1>4, <5>2, Objects
          <6> QED BY <5>2, <6>1, <6>2 DEF IssuesInv, Shared
        <5> QED BY <2>4, <4>2, <4>4, <5>1, <5>2
      <4> QED BY <4>3, <4>4
    <3> QED BY <1>1, <2>1, <3>1 DEF IssuesInv, Reviewed
  <2> QED
    BY <1>1, <2>3, <2>5, <2>6, <2>7, <2>8, <2>9, SuccessFrame DEF IssuesInv
<1> QED BY <1>3, <1>5, <1>6

LEMMA ConcludeKeepsInv ==
  ASSUME IssuesInv, NEW s \in Sender, Conclude(s)
  PROVE  IssuesInv'
<1>1. UNCHANGED <<given, foreign, ours, updates, mishaps, cache, cacheLock, issue, lock,
                  forced, left, scope, copy, found, clean, closing, returned>>
  BY DEF Conclude, database, shared
<1>2. /\ pc[s] = "analyze" /\ scope[s] = {} /\ closing[s] /\ found[s] = {}
      /\ Goto(s, "done")
      /\ conclusion' = [conclusion EXCEPT ![s] =
           IF clean[s] /\ WorstOutcome(ResultsOf(s)) = "PASS" THEN "success" ELSE "failure"]
  BY DEF Conclude, Analyzed
<1>3. /\ pc' \in [Sender -> Place]
      /\ pc'[s] = "done" /\ \A t \in Sender : t # s => pc'[t] = pc[t]
  BY <1>2 DEF IssuesInv, Types, Goto, Place
<1>4. /\ conclusion'[s] = "success" =>
           clean[s] /\ WorstOutcome(ResultsOf(s)) = "PASS"
      /\ \A t \in Sender : t # s => conclusion'[t] = conclusion[t]
      /\ DOMAIN conclusion' = Sender
  BY <1>2 DEF IssuesInv, Types
<1>5. Types' BY <1>1, <1>3, <1>4 DEF IssuesInv, Types
<1>6. CacheLocked' /\ IssueLocked' BY <1>1, <1>2, MovesFree DEF IssuesInv
<1>7. Reviewed' BY <1>1, <1>3 DEF IssuesInv, Reviewed
<1>8. ASSUME clean[s], WorstOutcome(ResultsOf(s)) = "PASS", NEW c \in crcsOf[s]
      PROVE  /\ given.results[c].outcome \in {"PASS", "None"}
             /\ given.results[c].outcome = "None" => keysOf[c] # {}
             /\ keysOf[c] \subseteq foreign \ given.resolved
  <2>1. c \in CRC BY <1>8, IssuesAssumption
  <2>2. given.results \in [CRC -> Result] BY DEF IssuesInv, Types, Input
  <2>3. ResultsOf(s) \in SUBSET Result
    <3>1. crcsOf[s] \subseteq CRC BY IssuesAssumption
    <3> QED BY <2>2, <3>1 DEF ResultsOf
  <2>4. given.results[c] \in ResultsOf(s) BY DEF ResultsOf
  <2>5. OutcomeIndex[given.results[c].outcome] <= OutcomeIndex["PASS"]
    BY <1>8, <2>3, <2>4, WorstIsWorst
  <2>6. given.results[c].outcome \in {"None", "PASS", "FAIL", "ERROR"}
    BY <2>1, <2>2 DEF Result, Outcome
  <2>7. given.results[c].outcome \in {"PASS", "None"} BY <2>5, <2>6, OutcomeOrder
  <2>8. /\ keysOf[c] # {} \/ given.results[c].outcome = "PASS"
        /\ \A k \in keysOf[c] : k \in foreign \ given.resolved
    BY <1>2, <1>8 DEF IssuesInv, Reviewed
  <2> QED BY <2>7, <2>8
<1>9. SuccessIsReviewed'
  <2> SUFFICES ASSUME NEW t \in Sender, conclusion'[t] = "success", NEW c \in crcsOf[t]
               PROVE  /\ given.results[c].outcome \in {"PASS", "None"}
                      /\ given.results[c].outcome = "None" => keysOf[c] # {}
                      /\ keysOf[c] \subseteq foreign \ given.resolved
    BY <1>1 DEF SuccessIsReviewed
  <2>1. CASE t = s BY <1>4, <1>8, <2>1
  <2>2. CASE t # s BY <1>4, <2>2 DEF IssuesInv, SuccessIsReviewed
  <2> QED BY <2>1, <2>2
<1> QED
  BY <1>1, <1>5, <1>6, <1>7, <1>9, SharedFrame, CountedFrame, KnownFrame, AnsweredFrame
  DEF IssuesInv

LEMMA FiledByOthersKeepsInv ==
  ASSUME IssuesInv, NEW k \in Key, FiledByOthers(k)
  PROVE  IssuesInv'
<1>1. UNCHANGED <<given, ours, updates, mishaps, cache, cacheLock, issue, lock, forced,
                  pc, left, scope, copy, found, clean, closing, returned, conclusion>>
  BY DEF FiledByOthers, shared, own
<1>2. foreign' = foreign \cup {k} BY DEF FiledByOthers
<1>3. Types' BY <1>1, <1>2 DEF IssuesInv, Types
<1>4. Known' BY <1>1, <1>2 DEF IssuesInv, Known
<1>5. Reviewed' BY <1>1, <1>2 DEF IssuesInv, Reviewed
<1>6. SuccessIsReviewed' BY <1>1, <1>2 DEF IssuesInv, SuccessIsReviewed
<1> QED
  BY <1>1, <1>3, <1>4, <1>5, <1>6, CacheLockedFrame, IssueLockedFrame, SharedFrame,
     CountedFrame, AnsweredFrame DEF IssuesInv

----------------------------------------------------------------------------
(* Theorems.                                                               *)

LEMMA IssuesInvHolds == IssuesSpec => []IssuesInv
<1>1. IssuesInit => IssuesInv BY IssuesInit_Inv
<1>2. IssuesInv /\ [IssuesNext]_issueVars => IssuesInv'
  <2> SUFFICES ASSUME IssuesInv, [IssuesNext]_issueVars
               PROVE  IssuesInv'
    OBVIOUS
  <2>1. ASSUME NEW s \in Sender, IssueStep(s)
        PROVE  IssuesInv'
    <3>1. CASE FinalUpdate(s) BY <3>1, FinalUpdateKeepsInv
    <3>2. CASE OpenCache(s) BY <3>2, OpenCacheKeepsInv
    <3>3. CASE CloseCache(s) BY <3>3, CloseCacheKeepsInv
    <3>4. CASE AnalyzerRaises(s) BY <3>4, AnalyzerRaisesKeepsInv
    <3>5. CASE SubmitAgain(s) BY <3>5, SubmitAgainKeepsInv
    <3>6. CASE BeginSubmit(s) BY <3>6, BeginSubmitKeepsInv
    <3>7. CASE SyncForSubmit(s) BY <3>7, SyncForSubmitKeepsInv
    <3>8. CASE ActOnIssue(s) BY <3>8, ActOnIssueKeepsInv
    <3>9. CASE EndOfUpdate(s) BY <3>9, EndOfUpdateKeepsInv
    <3>10. CASE ConcludeAtOnce(s) BY <3>10, ConcludeAtOnceKeepsInv
    <3>11. CASE BeginConclusion(s) BY <3>11, BeginConclusionKeepsInv
    <3>12. CASE Review(s) BY <3>12, ReviewKeepsInv
    <3>13. CASE Conclude(s) BY <3>13, ConcludeKeepsInv
    <3> QED
      BY <2>1, <3>1, <3>2, <3>3, <3>4, <3>5, <3>6, <3>7, <3>8, <3>9, <3>10, <3>11,
         <3>12, <3>13 DEF IssueStep
  <2>2. ASSUME NEW o \in Object, ForceSync(o)
        PROVE  IssuesInv'
    BY <2>2, ForceSyncKeepsInv
  <2>3. ASSUME NEW k \in Key, FiledByOthers(k)
        PROVE  IssuesInv'
    BY <2>3, FiledByOthersKeepsInv
  <2>4. CASE UNCHANGED issueVars
    <3>1. UNCHANGED <<given, foreign, ours, updates, mishaps, cache, cacheLock, issue,
                      lock, forced, pc, left, scope, copy, found, clean, closing,
                      returned, conclusion>>
      BY <2>4 DEF issueVars, database, shared, own
    <3>2. Types' BY <3>1 DEF IssuesInv, Types
    <3> QED
      BY <3>1, <3>2, CacheLockedFrame, IssueLockedFrame, SharedFrame, CountedFrame,
         KnownFrame, AnsweredFrame, ReviewedFrame, SuccessFrame DEF IssuesInv
  <2> QED BY <2>1, <2>2, <2>3, <2>4 DEF IssuesNext
<1> QED BY <1>1, <1>2, PTL DEF IssuesSpec

(* The cache maps each key to one of its objects, and its lock and those of *)
(* the issues are each held by one sender at the place that needs it.      *)
THEOREM IssuesTypeCorrect == IssuesSpec => []IssuesTypeOK
<1>1. IssuesInv => IssuesTypeOK
  <2> SUFFICES ASSUME IssuesInv PROVE IssuesTypeOK
    OBVIOUS
  <2>1. /\ foreign \subseteq Key
        /\ cache \in [Key -> Object \cup {NoObject}]
        /\ \A k \in Key : cache[k] # NoObject => cache[k][1] = k
    BY DEF IssuesInv, Types, Shared
  <2>2. \A o \in Object :
          /\ issue[o].new = "unset" <=> ~issue[o].synced
          /\ issue[o].submitted => issue[o].synced
    BY DEF IssuesInv, Known
  <2>3. \A s \in Sender : cacheLock = s <=> pc[s] = "analyzing"
    BY DEF IssuesInv, CacheLocked
  <2>4. \A s \in Sender : \A o \in Object :
          s \in lock[o] => lock[o] = {s} /\ pc[s] \in {"lookup", "act"}
    BY DEF IssuesInv, IssueLocked
  <2> QED BY <2>1, <2>2, <2>3, <2>4 DEF IssuesTypeOK
<1> QED BY <1>1, IssuesInvHolds, PTL

(* However the senders interleave and whichever call raises, an issue is   *)
(* filed or updated at most once more than calls raised after they acted.  *)
THEOREM IssuesActedOnce == IssuesSpec => []ActedOnce
<1>1. IssuesInv => ActedOnce BY DEF IssuesInv, Counted, ActedOnce
<1> QED BY <1>1, IssuesInvHolds, PTL

(* Whoever submits an issue that no forced sync touched reports the same   *)
(* URI, that of the one object of the cache.                               *)
THEOREM IssueHasOneUri == IssuesSpec => []SubmittersAgree
<1>1. IssuesInv => SubmittersAgree BY DEF IssuesInv, Answered, SubmittersAgree
<1> QED BY <1>1, IssuesInvHolds, PTL

(* A test run concluded with success has no failed crc and no issue that   *)
(* is new or resolved, however many were filed meanwhile.                  *)
THEOREM SuccessNeedsReview == IssuesSpec => []SuccessIsReviewed
<1>1. IssuesInv => SuccessIsReviewed BY DEF IssuesInv
<1> QED BY <1>1, IssuesInvHolds, PTL
=============================================================================

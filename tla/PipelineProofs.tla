--------------------------- MODULE PipelineProofs ---------------------------
(***************************************************************************)
(* For any workers and callbacks: the types, that the main thread goes on  *)
(* only with its own WebUI, and that pipeline_ended and the end of run     *)
(* find no thread they should have waited for: only daemons are left.      *)
(***************************************************************************)
EXTENDS Pipeline, TLAPS

(* Callbacks that may start threads at the end of a run. *)
AtTheEnd == ToSet(endedHooks) \cup ToSet(renderedHooks)

----------------------------------------------------------------------------
(* Sequences of callbacks.                                                 *)

LEMMA HooksAreSeqs ==
  /\ startingHooks \in Seq(Callbacks) /\ startedHooks \in Seq(Callbacks)
  /\ endedHooks \in Seq(Callbacks) /\ renderedHooks \in Seq(Callbacks)
<1>1. ASSUME NEW h, h \in Seq(ToSet(h)), ToSet(h) \subseteq Callbacks
      PROVE  h \in Seq(Callbacks)
  BY <1>1
<1>2. \A h \in {startingHooks, startedHooks, endedHooks, renderedHooks} :
        h \in Seq(ToSet(h)) /\ ToSet(h) \subseteq Callbacks
  BY PipelineAssumption, Zenon DEF Callbacks
<1> QED BY <1>1, <1>2

LEMMA HeadAndTail ==
  ASSUME NEW S, NEW s \in Seq(S), s # <<>>
  PROVE  /\ Head(s) \in S /\ Tail(s) \in Seq(S)
         /\ Head(s) \in ToSet(s)
         /\ ToSet(Tail(s)) \subseteq ToSet(s)
         /\ ToSet(s) \subseteq {Head(s)} \cup ToSet(Tail(s))
<1>1. Len(s) > 0 /\ Head(s) = s[1] OBVIOUS
<1>2. Len(Tail(s)) = Len(s) - 1 /\ \A i \in 1..Len(s) - 1 : Tail(s)[i] = s[i + 1]
  BY <1>1
<1>3. ASSUME NEW i \in 1..Len(s) PROVE s[i] = Head(s) \/ s[i] \in ToSet(Tail(s))
  <2>1. CASE i = 1 BY <1>1, <2>1
  <2>2. CASE i # 1
    <3>1. i - 1 \in DOMAIN Tail(s) /\ Tail(s)[i - 1] = s[i] BY <1>2, <2>2
    <3> QED BY <3>1 DEF ToSet
  <2> QED BY <2>1, <2>2
<1>4. \A i \in 1..Len(s) - 1 : i + 1 \in DOMAIN s BY <1>1
<1>5. ToSet(Tail(s)) \subseteq ToSet(s) BY <1>2, <1>4 DEF ToSet
<1>6. ToSet(s) \subseteq {Head(s)} \cup ToSet(Tail(s)) BY <1>3 DEF ToSet
<1>7. Head(s) \in ToSet(s) BY <1>1 DEF ToSet
<1> QED BY <1>1, <1>5, <1>6, <1>7

LEMMA Concatenated ==
  ASSUME NEW S, NEW s \in Seq(S), NEW t \in Seq(S)
  PROVE  /\ s \o t \in Seq(S)
         /\ ToSet(t) \subseteq ToSet(s \o t)
         /\ ToSet(s \o t) \subseteq ToSet(s) \cup ToSet(t)
<1>1. /\ s \o t \in Seq(S) /\ Len(s \o t) = Len(s) + Len(t)
      /\ \A i \in 1..Len(s) : (s \o t)[i] = s[i]
      /\ \A i \in 1..Len(t) : (s \o t)[Len(s) + i] = t[i]
  OBVIOUS
<1>2. ASSUME NEW i \in 1..Len(t) PROVE t[i] \in ToSet(s \o t)
  <2>1. Len(s) + i \in DOMAIN (s \o t) BY <1>1
  <2> QED BY <1>1, <2>1 DEF ToSet
<1>3. ASSUME NEW i \in 1..Len(s \o t) PROVE (s \o t)[i] \in ToSet(s) \cup ToSet(t)
  <2>1. CASE i <= Len(s)
    <3>1. i \in DOMAIN s /\ (s \o t)[i] = s[i] BY <1>1, <2>1
    <3> QED BY <3>1 DEF ToSet
  <2>2. CASE i > Len(s)
    <3>1. i - Len(s) \in DOMAIN t /\ (s \o t)[i] = t[i - Len(s)]
      BY <1>1, <2>2
    <3> QED BY <3>1 DEF ToSet
  <2>3. i \in Nat /\ Len(s) \in Nat BY <1>1
  <2> QED BY <2>1, <2>2, <2>3
<1>4. ToSet(t) \subseteq ToSet(s \o t)
  <2>1. DOMAIN t = 1..Len(t) OBVIOUS
  <2>2. \A e \in ToSet(t) : \E i \in 1..Len(t) : e = t[i] BY <2>1 DEF ToSet
  <2> QED BY <1>2, <2>2
<1>5. ToSet(s \o t) \subseteq ToSet(s) \cup ToSet(t)
  <2> DEFINE u == s \o t
  <2>1. DOMAIN u = 1..Len(u) BY <1>1
  <2>2. \A i \in 1..Len(u) : u[i] \in ToSet(s) \cup ToSet(t) BY <1>3
  <2> HIDE DEF u
  <2>3. \A e \in ToSet(u) : \E i \in 1..Len(u) : e = u[i] BY <2>1 DEF ToSet
  <2>4. ToSet(u) \subseteq ToSet(s) \cup ToSet(t) BY <2>2, <2>3
  <2> QED BY <2>4 DEF u
<1> QED BY <1>1, <1>4, <1>5

----------------------------------------------------------------------------
(* The inductive invariant.                                                *)

(* Callbacks are in sequences, and what was started is complete when the   *)
(* lock is released: the thread of signalWhenStarted has ended then, so    *)
(* that only the main thread starts further ones.                          *)
StartInv ==
  /\ calls \in [Caller -> Seq(Callbacks)]
  /\ main = "idle" <=> webui = "none"
  /\ main \notin {"idle", "startWebUI"} => ~locked
  /\ main # "idle" /\ ~locked =>
       /\ webui = "serving" /\ signal = "ended"
       /\ ToSet(startedHooks) \subseteq called
  /\ signal = "unlocking" =>
       /\ webui = "serving"
       /\ ToSet(startedHooks) \subseteq called \cup ToSet(calls["signal"])

(* The main thread joins all threads it has to wait for, and starts those  *)
(* of the last callbacks only; no worker is left then to start another.    *)
AloneInv ==
  /\ main = "ended" => ToSet(calls["main"]) \subseteq AtTheEnd
  /\ main \in {"join", "ended", "joinAgain", "returned"} =>
       \A t \in alive : t.name \notin Worker
  /\ main \in {"join", "joinAgain"} => \A t \in alive : ~t.daemon => t \in joining
  /\ main \in {"ended", "joinAgain"} => \A t \in alive : ~t.daemon => t.name \in AtTheEnd
  /\ main = "returned" => \A t \in alive : t.daemon

(* Only the callbacks of the start of the WebUI run in, and start, daemons. *)
DaemonInv ==
  /\ ToSet(calls["webui"]) \subseteq ToSet(startingHooks)
  /\ ToSet(calls["signal"]) \subseteq ToSet(startedHooks)
  /\ \A t \in alive : t.daemon => t.name \in ToSet(startingHooks) \cup ToSet(startedHooks)

PipelineInv == PipelineTypeOK /\ StartInv /\ AloneInv /\ DaemonInv

LEMMA InvInit ==
  ASSUME PipelineInit PROVE PipelineInv
<1>1. PipelineTypeOK BY DEF PipelineInit, PipelineTypeOK
<1>2. StartInv BY DEF PipelineInit, StartInv, Caller
<1>3. AloneInv BY DEF PipelineInit, AloneInv
<1>4. ToSet(<<>>) = {} BY DEF ToSet
<1>5. calls["webui"] = <<>> /\ calls["signal"] = <<>> /\ alive = {}
  BY DEF PipelineInit, Caller
<1>6. DaemonInv BY <1>4, <1>5 DEF DaemonInv
<1> QED BY <1>1, <1>2, <1>3, <1>6 DEF PipelineInv

(* What the call of a callback does to the threads and to the hooks left.  *)
LEMMA CallOne ==
  ASSUME PipelineInv, NEW x \in Caller, CallNext(x),
         x = "main" => SignalWhenStarted \notin ToSet(calls[x])
  PROVE  /\ calls' \in [Caller -> Seq(Callbacks)]
         /\ \A y \in Caller \ {x} : calls'[y] = calls[y]
         /\ called \subseteq called' /\ called' \subseteq Callbacks
         /\ ToSet(calls[x]) \subseteq called' \cup ToSet(calls'[x])
         /\ ToSet(calls'[x]) \subseteq ToSet(calls[x]) \cup ToSet(renderedHooks)
         /\ RenderStatic \notin ToSet(calls[x]) => ToSet(calls'[x]) \subseteq ToSet(calls[x])
         /\ alive' \subseteq Thread /\ alive \subseteq alive'
         /\ \A t \in alive' \ alive : t.name \in ToSet(calls[x]) /\ t.daemon = (x # "main")
         /\ Signal \in alive' <=> signal' \in {"polling", "unlocking"}
         /\ signal' = signal \/ (signal' = "polling" /\ SignalWhenStarted \in ToSet(calls[x]))
<1> DEFINE f == Head(calls[x])
           rest == Tail(calls[x])
           started == ThreadOf(f, x)
<1>1. calls[x] \in Seq(Callbacks) /\ calls[x] # <<>>
  BY DEF PipelineInv, StartInv, CallNext
<1>2. /\ f \in Callbacks /\ rest \in Seq(Callbacks) /\ f \in ToSet(calls[x])
      /\ ToSet(rest) \subseteq ToSet(calls[x])
      /\ ToSet(calls[x]) \subseteq {f} \cup ToSet(rest)
  BY <1>1, HeadAndTail
<1>3. PICK more \in {<<>>, renderedHooks} :
        calls' = [calls EXCEPT ![x] = more \o rest] /\ (f # RenderStatic => more = <<>>)
  BY DEF CallNext
<1>4. /\ more \in Seq(Callbacks) /\ ToSet(more) \subseteq ToSet(renderedHooks)
      /\ more = <<>> => ToSet(more) = {}
  <2>1. ToSet(<<>>) = {} BY DEF ToSet
  <2>2. <<>> \in Seq(Callbacks) OBVIOUS
  <2>3. CASE more = <<>> BY <2>1, <2>2, <2>3
  <2>4. CASE more = renderedHooks BY <2>1, <2>4, HooksAreSeqs
  <2> QED BY <1>3, <2>3, <2>4
<1>5. /\ more \o rest \in Seq(Callbacks)
      /\ ToSet(rest) \subseteq ToSet(more \o rest)
      /\ ToSet(more \o rest) \subseteq ToSet(more) \cup ToSet(rest)
  BY <1>2, <1>4, Concatenated
<1>6. calls \in [Caller -> Seq(Callbacks)] BY DEF PipelineInv, StartInv
<1>7. /\ calls' \in [Caller -> Seq(Callbacks)] /\ calls'[x] = more \o rest
      /\ \A y \in Caller \ {x} : calls'[y] = calls[y]
  BY <1>3, <1>5, <1>6
<1>8. /\ called' = called \cup {f} /\ alive' = alive \cup started
      /\ signal' = IF f = SignalWhenStarted THEN "polling" ELSE signal
  BY DEF CallNext
<1>9. /\ called \subseteq Callbacks /\ alive \subseteq Thread
      /\ Signal \in alive <=> signal \in {"polling", "unlocking"}
  BY DEF PipelineInv, PipelineTypeOK
<1>10. \A t \in started : /\ t \in Thread /\ t.name = f /\ t.daemon = (x # "main")
  <2> DEFINE flag == x # "main"
  <2>1. flag \in BOOLEAN OBVIOUS
  <2>2. started = {[name |-> g, daemon |-> flag] : g \in {f} \cap Threaded} BY DEF ThreadOf
  <2>3. \A g \in {f} \cap Threaded : g \in Names BY <1>2 DEF Names
  <2> HIDE DEF flag, f, started
  <2>4. \A t \in started : t \in [name : Names, daemon : BOOLEAN] /\ t.name = f /\ t.daemon = flag
    BY <2>1, <2>2, <2>3
  <2> QED BY <2>4 DEF Thread, flag
<1>11. f = SignalWhenStarted => Signal \in started
  <2> SUFFICES ASSUME f = SignalWhenStarted PROVE Signal \in started
    OBVIOUS
  <2>1. x # "main" BY <1>2
  <2>2. SignalWhenStarted \in {f} \cap Threaded BY PipelineAssumption
  <2>3. [name |-> SignalWhenStarted, daemon |-> x # "main"] \in started
    BY <2>2 DEF ThreadOf
  <2>4. (x # "main") = TRUE BY <2>1
  <2> QED BY <2>3, <2>4 DEF Signal
<1>12. Signal \in started => f = SignalWhenStarted
  BY <1>10 DEF Signal
<1> HIDE DEF f, rest, started
<1>13. Signal \in alive' <=> signal' \in {"polling", "unlocking"}
  BY <1>8, <1>9, <1>11, <1>12
<1>14. RenderStatic \notin ToSet(calls[x]) => ToSet(calls'[x]) \subseteq ToSet(calls[x])
  BY <1>2, <1>3, <1>4, <1>5, <1>7
<1>15. \A t \in alive' \ alive : t.name \in ToSet(calls[x]) /\ t.daemon = (x # "main")
  BY <1>2, <1>8, <1>10
<1>16. alive' \subseteq Thread BY <1>8, <1>9, <1>10
<1> QED BY <1>2, <1>4, <1>5, <1>7, <1>8, <1>9, <1>13, <1>14, <1>15, <1>16

LEMMA InvStep ==
  ASSUME PipelineInv, [PipelineNext]_pipelineVars
  PROVE  PipelineInv'
<1> USE DEF PipelineInv
<1> DEFINE AtStart == ToSet(startingHooks) \cup ToSet(startedHooks)
<1>0. ToSet(<<>>) = {} BY DEF ToSet
<1>1. CASE UNCHANGED pipelineVars
  BY <1>1 DEF pipelineVars, PipelineTypeOK, StartInv, AloneInv, DaemonInv
<1>2. CASE Run
  <2>1. PipelineTypeOK' BY <1>2 DEF Run, PipelineTypeOK, StartInv
  <2>2. StartInv' BY <1>2 DEF Run, StartInv, PipelineTypeOK
  <2>3. AloneInv' BY <1>2 DEF Run, AloneInv
  <2>4. DaemonInv' BY <1>2 DEF Run, DaemonInv
  <2> QED BY <2>1, <2>2, <2>3, <2>4
<1>3. CASE WebUIStarted
  <2>1. PipelineTypeOK' BY <1>3 DEF WebUIStarted, PipelineTypeOK
  <2>2. StartInv' BY <1>3 DEF WebUIStarted, StartInv
  <2>3. AloneInv' BY <1>3 DEF WebUIStarted, AloneInv
  <2>4. DaemonInv' BY <1>3 DEF WebUIStarted, DaemonInv
  <2> QED BY <2>1, <2>2, <2>3, <2>4
<1>4. CASE Prepare
  <2>1. PipelineTypeOK' BY <1>4 DEF Prepare, PipelineTypeOK
  <2>2. StartInv' BY <1>4 DEF Prepare, StartInv
  <2>3. AloneInv' BY <1>4 DEF Prepare, AloneInv
  <2>4. DaemonInv' BY <1>4 DEF Prepare, DaemonInv
  <2> QED BY <2>1, <2>2, <2>3, <2>4
<1>5. CASE RunWorkflows
  <2>0. SignalWhenStarted \notin Worker
    <3>1. SignalWhenStarted \in ToSet(startingHooks) BY PipelineAssumption
    <3>2. SignalWhenStarted \in Callbacks BY <3>1 DEF Callbacks
    <3> QED BY <3>2, PipelineAssumption
  <2>1. \A t \in [name : Worker, daemon : {FALSE}] : t \in Thread /\ ~t.daemon /\ t # Signal
    <3>1. SUFFICES ASSUME NEW t \in [name : Worker, daemon : {FALSE}]
                   PROVE  t \in Thread /\ ~t.daemon /\ t # Signal
      OBVIOUS
    <3>2. t.name \in Worker /\ t.daemon = FALSE /\ t \in [name : Names, daemon : BOOLEAN]
      BY <3>1 DEF Names
    <3>3. Signal.name = SignalWhenStarted BY DEF Signal
    <3> QED BY <2>0, <3>2, <3>3 DEF Thread
  <2>2. alive' = alive \cup [name : Worker, daemon : {FALSE}] BY <1>5 DEF RunWorkflows
  <2>3. alive' \subseteq Thread /\ (Signal \in alive' <=> Signal \in alive)
    BY <2>1, <2>2 DEF PipelineTypeOK
  <2>4. PipelineTypeOK' BY <1>5, <2>3 DEF RunWorkflows, PipelineTypeOK
  <2>5. StartInv' BY <1>5 DEF RunWorkflows, StartInv
  <2>6. AloneInv' BY <1>5 DEF RunWorkflows, AloneInv
  <2>7. \A t \in alive' : t.daemon => t \in alive BY <2>1, <2>2
  <2>8. DaemonInv' BY <1>5, <2>7 DEF RunWorkflows, DaemonInv
  <2> QED BY <2>4, <2>5, <2>6, <2>8
<1>6. CASE WaitForWorkflows
  <2>1. PipelineTypeOK' BY <1>6 DEF WaitForWorkflows, ToJoin, PipelineTypeOK
  <2>2. StartInv' BY <1>6 DEF WaitForWorkflows, StartInv
  <2>3. AloneInv' BY <1>6 DEF WaitForWorkflows, ToJoin, AloneInv
  <2>4. DaemonInv' BY <1>6 DEF WaitForWorkflows, DaemonInv
  <2> QED BY <2>1, <2>2, <2>3, <2>4
<1>7. CASE WaitForThreads
  <2>1. PipelineTypeOK' BY <1>7 DEF WaitForThreads, PipelineTypeOK
  <2>2. calls \in [Caller -> Seq(Callbacks)] /\ {"main", "signal", "webui"} \subseteq Caller
    BY DEF StartInv, Caller
  <2>3. /\ calls' \in [Caller -> Seq(Callbacks)] /\ calls'["signal"] = calls["signal"]
        /\ calls'["main"] = endedHooks /\ calls'["webui"] = calls["webui"]
    BY <1>7, <2>2, HooksAreSeqs DEF WaitForThreads
  <2>4. StartInv' BY <1>7, <2>3 DEF WaitForThreads, StartInv
  <2>5. \A t \in alive' : t.daemon /\ t.name \notin Worker
    BY <1>7 DEF WaitForThreads, Joined, AloneInv
  <2>6. AloneInv' BY <1>7, <2>3, <2>5 DEF WaitForThreads, AloneInv, AtTheEnd
  <2>7. DaemonInv' BY <1>7, <2>3 DEF WaitForThreads, DaemonInv
  <2> QED BY <2>1, <2>4, <2>6, <2>7
<1>8. CASE EndedHook
  <2>1. CASE CallNext("main") /\ UNCHANGED main
    <3>1. "main" \in Caller BY DEF Caller
    <3>2. ToSet(calls["main"]) \subseteq AtTheEnd /\ (\A t \in alive : ~t.daemon => t.name \in AtTheEnd)
      BY <1>8 DEF EndedHook, AloneInv
    <3>3. SignalWhenStarted \notin AtTheEnd
      BY PipelineAssumption, Zenon DEF AtTheEnd
    <3>4. signal' = signal BY <2>1, <3>1, <3>2, <3>3, CallOne
    <3>5. /\ calls' \in [Caller -> Seq(Callbacks)] /\ calls'["signal"] = calls["signal"]
          /\ calls'["webui"] = calls["webui"]
          /\ called \subseteq called' /\ called' \subseteq Callbacks /\ alive' \subseteq Thread
          /\ Signal \in alive' <=> signal' \in {"polling", "unlocking"}
          /\ ToSet(calls'["main"]) \subseteq AtTheEnd
      BY <2>1, <3>1, <3>2, <3>3, CallOne DEF Caller, AtTheEnd
    <3>6. \A t \in alive' \ alive : t.name \in AtTheEnd /\ ~t.daemon
      BY <2>1, <3>1, <3>2, <3>3, CallOne
    <3>7. AtTheEnd \cap Worker = {} BY PipelineAssumption DEF AtTheEnd, Callbacks
    <3>8. PipelineTypeOK' BY <1>8, <2>1, <3>4, <3>5 DEF EndedHook, PipelineTypeOK
    <3>9. StartInv' BY <1>8, <2>1, <3>4, <3>5 DEF EndedHook, StartInv
    <3>10. AloneInv' BY <1>8, <2>1, <3>2, <3>5, <3>6, <3>7 DEF EndedHook, AloneInv
    <3>11. DaemonInv' BY <3>5, <3>6 DEF DaemonInv
    <3> QED BY <3>8, <3>9, <3>10, <3>11
  <2>2. CASE CallRaises("main") /\ main' = "raised" /\ UNCHANGED <<called, alive, signal>>
    <3>1. /\ calls' \in [Caller -> Seq(Callbacks)] /\ calls'["signal"] = calls["signal"]
          /\ calls'["webui"] = calls["webui"]
      BY <2>2 DEF CallRaises, StartInv, Caller
    <3>2. PipelineTypeOK' BY <1>8, <2>2 DEF EndedHook, PipelineTypeOK
    <3>3. StartInv' BY <1>8, <2>2, <3>1 DEF EndedHook, StartInv
    <3>4. AloneInv' BY <1>8, <2>2 DEF EndedHook, AloneInv
    <3>5. DaemonInv' BY <2>2, <3>1 DEF DaemonInv
    <3> QED BY <3>2, <3>3, <3>4, <3>5
  <2> QED BY <1>8, <2>1, <2>2 DEF EndedHook
<1>9. CASE WaitForThreadsAgain
  <2>1. PipelineTypeOK' BY <1>9 DEF WaitForThreadsAgain, ToJoin, PipelineTypeOK
  <2>2. StartInv' BY <1>9 DEF WaitForThreadsAgain, StartInv
  <2>3. AloneInv' BY <1>9 DEF WaitForThreadsAgain, ToJoin, AloneInv
  <2>4. DaemonInv' BY <1>9 DEF WaitForThreadsAgain, DaemonInv
  <2> QED BY <2>1, <2>2, <2>3, <2>4
<1>10. CASE RunReturns
  <2>1. PipelineTypeOK' BY <1>10 DEF RunReturns, PipelineTypeOK
  <2>2. StartInv' BY <1>10 DEF RunReturns, StartInv
  <2>3. AloneInv' BY <1>10 DEF RunReturns, Joined, AloneInv
  <2>4. DaemonInv' BY <1>10 DEF RunReturns, DaemonInv
  <2> QED BY <2>1, <2>2, <2>3, <2>4
<1>11. CASE GetPort
  <2>1. PipelineTypeOK' BY <1>11 DEF GetPort, PipelineTypeOK
  <2>2. /\ calls' \in [Caller -> Seq(Callbacks)] /\ calls'["signal"] = calls["signal"]
        /\ calls'["main"] = calls["main"] /\ calls'["webui"] \in {calls["webui"], startingHooks}
    BY <1>11, HooksAreSeqs DEF GetPort, StartInv, Caller
  <2>3. StartInv' BY <1>11, <2>2 DEF GetPort, StartInv
  <2>4. AloneInv' BY <1>11, <2>2 DEF GetPort, AloneInv
  <2>5. alive' = alive BY <1>11 DEF GetPort
  <2>6. DaemonInv' BY <2>2, <2>5 DEF DaemonInv
  <2> QED BY <2>1, <2>3, <2>4, <2>6
<1>12. CASE StartingHook
  <2>1. webui = "starting" BY <1>12 DEF StartingHook
  <2>2. signal # "unlocking" /\ main \in {"idle", "startWebUI"} /\ (main # "idle" => locked)
    BY <2>1 DEF StartInv
  <2>3. CASE CallNext("webui") /\ UNCHANGED webui
    <3>1. "webui" \in Caller BY DEF Caller
    <3>2. /\ calls' \in [Caller -> Seq(Callbacks)] /\ calls'["signal"] = calls["signal"]
          /\ called' \subseteq Callbacks /\ alive' \subseteq Thread
          /\ Signal \in alive' <=> signal' \in {"polling", "unlocking"}
          /\ signal' \in {signal, "polling"}
      BY <2>3, <3>1, CallOne DEF Caller
    <3>3. RenderStatic \notin ToSet(calls["webui"])
      BY PipelineAssumption DEF DaemonInv
    <3>4. ToSet(calls'["webui"]) \subseteq ToSet(startingHooks)
      BY <2>3, <3>1, <3>3, CallOne DEF DaemonInv
    <3>5. \A t \in alive' : t.daemon => t.name \in AtStart
      BY <2>3, <3>1, CallOne DEF DaemonInv
    <3>6. PipelineTypeOK' BY <1>12, <2>3, <3>2 DEF StartingHook, PipelineTypeOK
    <3>7. StartInv' BY <1>12, <2>1, <2>2, <2>3, <3>2 DEF StartingHook, StartInv
    <3>8. AloneInv' BY <1>12, <2>2 DEF StartingHook, AloneInv
    <3>9. DaemonInv' BY <3>2, <3>4, <3>5 DEF DaemonInv
    <3> QED BY <3>6, <3>7, <3>8, <3>9
  <2>4. CASE CallRaises("webui") /\ webui' = "dead" /\ UNCHANGED <<called, alive, signal>>
    <3>1. /\ calls' \in [Caller -> Seq(Callbacks)] /\ calls'["signal"] = calls["signal"]
          /\ calls'["webui"] = <<>>
      BY <2>4 DEF CallRaises, StartInv, Caller
    <3>2. PipelineTypeOK' BY <1>12, <2>4 DEF StartingHook, PipelineTypeOK
    <3>3. StartInv' BY <1>12, <2>1, <2>2, <2>4, <3>1 DEF StartingHook, StartInv
    <3>4. AloneInv' BY <1>12, <2>2 DEF StartingHook, AloneInv
    <3>5. DaemonInv' BY <1>0, <2>4, <3>1 DEF DaemonInv
    <3> QED BY <3>2, <3>3, <3>4, <3>5
  <2> QED BY <1>12, <2>3, <2>4 DEF StartingHook
<1>13. CASE ListenOnPort
  <2>1. PipelineTypeOK' BY <1>13 DEF ListenOnPort, PipelineTypeOK
  <2>2. StartInv' BY <1>13 DEF ListenOnPort, StartInv
  <2>3. AloneInv' BY <1>13 DEF ListenOnPort, AloneInv
  <2>4. DaemonInv' BY <1>13 DEF ListenOnPort, DaemonInv
  <2> QED BY <2>1, <2>2, <2>3, <2>4
<1>14. CASE PortTaken
  <2>1. PipelineTypeOK' BY <1>14 DEF PortTaken, PipelineTypeOK
  <2>2. StartInv' BY <1>14 DEF PortTaken, StartInv
  <2>3. AloneInv' BY <1>14 DEF PortTaken, AloneInv
  <2>4. DaemonInv' BY <1>14 DEF PortTaken, DaemonInv
  <2> QED BY <2>1, <2>2, <2>3, <2>4
<1>15. CASE Poll
  <2>1. PipelineTypeOK' BY <1>15 DEF Poll, PipelineTypeOK
  <2>2. /\ calls' \in [Caller -> Seq(Callbacks)] /\ calls'["main"] = calls["main"]
        /\ calls'["webui"] = calls["webui"] /\ calls'["signal"] \in {calls["signal"], startedHooks}
    BY <1>15, HooksAreSeqs DEF Poll, StartInv, Caller
  <2>3. signal' = "unlocking" => webui = "serving" /\ calls'["signal"] = startedHooks
    BY <1>15 DEF Poll, OwnAnswer, PipelineTypeOK, StartInv, Caller
  <2>4. StartInv' BY <1>15, <2>2, <2>3 DEF Poll, StartInv
  <2>5. AloneInv' BY <1>15, <2>2 DEF Poll, AloneInv
  <2>6. alive' \subseteq alive BY <1>15 DEF Poll
  <2>7. DaemonInv' BY <2>2, <2>6 DEF DaemonInv
  <2> QED BY <2>1, <2>4, <2>5, <2>7
<1>16. CASE PollRaises
  <2>1. PipelineTypeOK' BY <1>16 DEF PollRaises, PipelineTypeOK
  <2>2. StartInv' BY <1>16 DEF PollRaises, StartInv
  <2>3. AloneInv' BY <1>16 DEF PollRaises, AloneInv
  <2>4. DaemonInv' BY <1>16 DEF PollRaises, DaemonInv
  <2> QED BY <2>1, <2>2, <2>3, <2>4
<1>17. CASE StartedHook
  <2>1. signal = "unlocking" /\ webui = "serving" BY <1>17 DEF StartedHook, StartInv
  <2>2. main \in {"idle", "startWebUI"} /\ (main # "idle" => locked)
    BY <2>1 DEF StartInv
  <2>3. CASE CallNext("signal")
    <3>1. "signal" \in Caller BY DEF Caller
    <3>2. /\ calls' \in [Caller -> Seq(Callbacks)] /\ calls'["webui"] = calls["webui"]
          /\ called \subseteq called' /\ called' \subseteq Callbacks /\ alive' \subseteq Thread
          /\ Signal \in alive' <=> signal' \in {"polling", "unlocking"}
          /\ signal' \in {signal, "polling"}
          /\ ToSet(calls["signal"]) \subseteq called' \cup ToSet(calls'["signal"])
      BY <2>3, <3>1, CallOne DEF Caller
    <3>3. ToSet(startedHooks) \subseteq called \cup ToSet(calls["signal"])
      BY <2>1 DEF StartInv
    <3>4. ToSet(startedHooks) \subseteq called' \cup ToSet(calls'["signal"])
      BY <3>2, <3>3
    <3>5. RenderStatic \notin ToSet(calls["signal"])
      BY PipelineAssumption DEF DaemonInv
    <3>6. ToSet(calls'["signal"]) \subseteq ToSet(startedHooks)
      BY <2>3, <3>1, <3>5, CallOne DEF DaemonInv
    <3>7. \A t \in alive' : t.daemon => t.name \in AtStart
      BY <2>3, <3>1, CallOne DEF DaemonInv
    <3>8. PipelineTypeOK' BY <1>17, <3>2 DEF StartedHook, PipelineTypeOK
    <3>9. StartInv' BY <1>17, <2>1, <2>2, <3>2, <3>4 DEF StartedHook, StartInv
    <3>10. AloneInv' BY <1>17, <2>2 DEF StartedHook, AloneInv
    <3>11. DaemonInv' BY <3>2, <3>6, <3>7 DEF DaemonInv
    <3> QED BY <3>8, <3>9, <3>10, <3>11
  <2>4. CASE /\ CallRaises("signal") /\ signal' = "raised"
             /\ alive' = alive \ {Signal} /\ UNCHANGED called
    <3>1. /\ calls' \in [Caller -> Seq(Callbacks)] /\ calls'["webui"] = calls["webui"]
          /\ calls'["signal"] = <<>>
      BY <2>4 DEF CallRaises, StartInv, Caller
    <3>2. PipelineTypeOK' BY <1>17, <2>4 DEF StartedHook, PipelineTypeOK
    <3>3. StartInv' BY <1>17, <2>2, <2>4, <3>1 DEF StartedHook, StartInv
    <3>4. AloneInv' BY <1>17, <2>2 DEF StartedHook, AloneInv
    <3>5. DaemonInv' BY <1>0, <2>4, <3>1 DEF DaemonInv
    <3> QED BY <3>2, <3>3, <3>4, <3>5
  <2> QED BY <1>17, <2>3, <2>4 DEF StartedHook
<1>18. CASE Unlock
  <2>1. PipelineTypeOK' BY <1>18 DEF Unlock, PipelineTypeOK
  <2>2. webui = "serving" /\ ToSet(startedHooks) \subseteq called
    BY <1>0, <1>18 DEF Unlock, StartInv
  <2>3. StartInv' BY <1>18, <2>2 DEF Unlock, StartInv
  <2>4. AloneInv' BY <1>18 DEF Unlock, AloneInv
  <2>5. DaemonInv' BY <1>18 DEF Unlock, DaemonInv
  <2> QED BY <2>1, <2>3, <2>4, <2>5
<1>19. CASE PluginHook
  <2>1. main \notin {"join", "ended", "joinAgain", "returned"}
    BY <1>19 DEF PluginHook, AloneInv
  <2>2. PICK f \in pluginHooks : alive' = alive \cup {[name |-> f, daemon |-> FALSE]}
    BY <1>19 DEF PluginHook
  <2>3. [name |-> f, daemon |-> FALSE] \in Thread /\ Signal # [name |-> f, daemon |-> FALSE]
    BY PipelineAssumption DEF Thread, Names, Signal
  <2>4. alive' \subseteq Thread /\ (Signal \in alive' <=> Signal \in alive)
    BY <2>2, <2>3 DEF PipelineTypeOK
  <2>5. \A t \in alive' : t.daemon => t \in alive BY <2>2
  <2>6. PipelineTypeOK' BY <1>19, <2>4 DEF PluginHook, PipelineTypeOK
  <2>7. StartInv' BY <1>19 DEF PluginHook, StartInv
  <2>8. AloneInv' BY <1>19, <2>1 DEF PluginHook, AloneInv
  <2>9. DaemonInv' BY <1>19, <2>5 DEF PluginHook, DaemonInv
  <2> QED BY <2>6, <2>7, <2>8, <2>9
<1>20. ASSUME NEW t \in Thread, ThreadEnds(t) PROVE PipelineInv'
  <2>1. PipelineTypeOK' BY <1>20 DEF ThreadEnds, PipelineTypeOK
  <2>2. StartInv' BY <1>20 DEF ThreadEnds, StartInv
  <2>3. AloneInv' BY <1>20 DEF ThreadEnds, AloneInv
  <2>4. DaemonInv' BY <1>20 DEF ThreadEnds, DaemonInv
  <2> QED BY <2>1, <2>2, <2>3, <2>4
<1> QED
  BY <1>1, <1>2, <1>3, <1>4, <1>5, <1>6, <1>7, <1>8, <1>9, <1>10, <1>11, <1>12,
     <1>13, <1>14, <1>15, <1>16, <1>17, <1>18, <1>19, <1>20
  DEF PipelineNext, MainThread, WebUIThread, SignalThread

LEMMA InvHolds == PipelineSpec => []PipelineInv
BY InvInit, InvStep, PTL DEF PipelineSpec

(* The state of Pipeline.run, the WebUI and the threads keeps its type, and *)
(* who is alive fits where it is.                                          *)
THEOREM PipelineTypeCorrect == PipelineSpec => []PipelineTypeOK
<1>1. PipelineInv => PipelineTypeOK BY DEF PipelineInv
<1> QED BY <1>1, InvHolds, PTL

(* waitUntilStarted returns only when this WebUI serves and all callbacks  *)
(* on WebUI_started were called, whoever else takes its port.              *)
THEOREM StartIsChecked == PipelineSpec => []StartedMeansServing
<1>1. PipelineInv => StartedMeansServing
  BY DEF PipelineInv, StartInv, StartedMeansServing
<1> QED BY <1>1, InvHolds, PTL

(* _waitForThreads leaves no thread behind but daemons of the start of the *)
(* WebUI, for any callbacks and workers.                                   *)
THEOREM NobodyIsLeft == PipelineSpec => []EndedMeansAlone
<1>1. PipelineInv => EndedMeansAlone
  BY DEF PipelineInv, AloneInv, DaemonInv, EndedMeansAlone, AtTheEnd
<1> QED BY <1>1, InvHolds, PTL
=============================================================================

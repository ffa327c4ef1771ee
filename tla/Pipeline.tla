------------------------------ MODULE Pipeline ------------------------------
(***************************************************************************)
(* One run of libpermian/pipeline: the start of the WebUI, the threads     *)
(* that hooks start, and what the main thread waits for.  The workflows    *)
(* and report senders are just threads here; TestRuns is their model.      *)
(*                                                                         *)
(* The WebUI is a daemon thread, so nobody joins it.  It is up when a      *)
(* request to its address is answered with its own uuid; the thread that   *)
(* asks, signalWhenStarted, then releases the lock the main thread waits   *)
(* for.  A Thread inherits the daemon flag of the thread that makes it, so *)
(* that nobody joins what the callbacks of the WebUI start either.         *)
(***************************************************************************)
EXTENDS Naturals, Sequences, FiniteSets, SequencesExt

CONSTANTS
  Worker,          \* threads of workflows and report senders
  startingHooks,   \* callbacks on WebUI_starting, with SignalWhenStarted
  startedHooks,    \* callbacks on WebUI_started
  endedHooks,      \* callbacks on pipeline_ended
  renderedHooks,   \* callbacks on static_WebUI_rendered
  pluginHooks,     \* callbacks by run_threaded_on on hooks that plugins make
  SignalWhenStarted, RenderStatic,  \* callbacks of the program itself
  Threaded,        \* callbacks registered by run_threaded_on
  Faulty           \* callbacks that may raise

Callbacks == UNION {ToSet(h) : h \in {startingHooks, startedHooks, endedHooks,
                                      renderedHooks}}

(* Threads have the names of callbacks and of workers. *)
Names == Worker \cup (Callbacks \cap Threaded) \cup pluginHooks
Thread == [name : Names, daemon : BOOLEAN]

(* The thread of signalWhenStarted, which the thread of the WebUI starts. *)
Signal == [name |-> SignalWhenStarted, daemon |-> TRUE]

ASSUME PipelineAssumption ==
  /\ SignalWhenStarted \in ToSet(startingHooks) \cap Threaded
  /\ SignalWhenStarted \notin UNION {ToSet(h) : h \in {startedHooks, endedHooks, renderedHooks}}
  /\ RenderStatic \notin Threaded \cup ToSet(startingHooks) \cup ToSet(startedHooks)
  /\ \A h \in {startingHooks, startedHooks, endedHooks, renderedHooks} : h \in Seq(ToSet(h))
  /\ Worker \cap (Callbacks \cup pluginHooks) = {}
  /\ SignalWhenStarted \notin pluginHooks

VARIABLES
  main,        \* where Pipeline.run is
  executed,    \* self.executed
  returnCode,  \* self.return_code
  webui,       \* where the thread of the WebUI is
  port,        \* who listens on the port of the WebUI
  locked,      \* the operational lock is held
  signal,      \* where signalWhenStarted is
  calls,       \* [caller of a hook -> callbacks it still has to call]
  called,      \* callbacks that were called and did not raise
  alive,       \* the other threads
  joining      \* the threads of the snapshot that main joins

pipelineVars == <<main, executed, returnCode, webui, port, locked, signal, calls,
                  called, alive, joining>>

Caller == {"main", "webui", "signal"}

(* Types, and which threads are alive in which place. *)
PipelineTypeOK ==
  /\ main \in {"idle", "startWebUI", "prepare", "run", "wait", "join", "ended",
               "joinAgain", "returned", "raised"}
  /\ executed <=> main # "idle"
  /\ returnCode \in {0, 1}
  /\ webui \in {"none", "getPort", "starting", "serving", "dead"}
  /\ port \in {"free", "ours", "other"}
  /\ port = "ours" <=> webui = "serving"
  /\ locked \in BOOLEAN
  /\ signal \in {"none", "polling", "unlocking", "ended", "raised"}
  /\ Signal \in alive <=> signal \in {"polling", "unlocking"}
  /\ alive \subseteq Thread /\ joining \subseteq Thread
  /\ called \subseteq Callbacks

PipelineInit ==
  /\ main = "idle"
  /\ executed = FALSE
  /\ returnCode = 0
  /\ webui = "none"
  /\ port = "free"
  /\ locked = FALSE
  /\ signal = "none"
  /\ calls = [x \in Caller |-> <<>>]
  /\ called = {}
  /\ alive = {}
  /\ joining = {}

----------------------------------------------------------------------------
(* Hooks: callbacks are called in the order of their registration, those   *)
(* of run_threaded_on by starting a thread.                                *)

(* The thread that run_threaded_on starts in caller x instead of calling f: *)
(* it is a daemon if the caller is one, as all but the main thread are.    *)
ThreadOf(f, x) == {[name |-> g, daemon |-> x # "main"] : g \in {f} \cap Threaded}

(* Caller x calls its next callback, which returns.  render_static calls    *)
(* another hook, unless no static WebUI is asked for.                      *)
CallNext(x) ==
  /\ calls[x] # <<>>
  /\ LET f == Head(calls[x])
     IN /\ \E more \in IF f = RenderStatic THEN {<<>>, renderedHooks} ELSE {<<>>} :
             /\ calls' = [calls EXCEPT ![x] = more \o Tail(@)]
             /\ more # <<>> => port = "ours"
        /\ called' = called \cup {f}
        /\ alive' = alive \cup ThreadOf(f, x)
        /\ signal' = IF f = SignalWhenStarted THEN "polling" ELSE signal

(* The next callback raises in the thread of the caller, and with it the   *)
(* hook: the callbacks after it are not called.                            *)
CallRaises(x) ==
  /\ calls[x] # <<>>
  /\ \/ Head(calls[x]) \in Faulty \ Threaded
     \/ Head(calls[x]) = RenderStatic /\ port # "ours"
  /\ calls' = [calls EXCEPT ![x] = <<>>]

----------------------------------------------------------------------------
(* The thread of the WebUI.                                                *)

(* get_port, which raises when the setting is no number and not 'random'. *)
GetPort ==
  /\ webui = "getPort"
  /\ \/ /\ webui' = "starting"
        /\ calls' = [calls EXCEPT !["webui"] = startingHooks]
     \/ webui' = "dead" /\ UNCHANGED calls
  /\ UNCHANGED <<main, executed, returnCode, port, locked, signal, called, alive,
                 joining>>

StartingHook ==
  /\ webui = "starting"
  /\ \/ CallNext("webui") /\ UNCHANGED webui
     \/ CallRaises("webui") /\ webui' = "dead" /\ UNCHANGED <<called, alive, signal>>
  /\ UNCHANGED <<main, executed, returnCode, port, locked, joining>>

(* app.run: it listens on the port, unless that is taken, or crashes. *)
ListenOnPort ==
  /\ webui = "starting" /\ calls["webui"] = <<>>
  /\ \/ port = "free" /\ port' = "ours" /\ webui' = "serving"
     \/ webui' = "dead" /\ UNCHANGED port
  /\ UNCHANGED <<main, executed, returnCode, locked, signal, calls, called, alive,
                 joining>>

(* Another process takes the port that get_random_free_port found. *)
PortTaken ==
  /\ webui \in {"getPort", "starting"} /\ port = "free"
  /\ port' = "other"
  /\ UNCHANGED <<main, executed, returnCode, webui, locked, signal, calls, called,
                 alive, joining>>

----------------------------------------------------------------------------
(* The thread of signalWhenStarted.                                        *)

(* Mutant of OwnAnswer: any answer with status 200 will do. *)
AnyAnswer == port \in {"ours", "other"}

(* The uuid in the answer is that of this WebUI. *)
OwnAnswer == port = "ours"

(* A request that settles the matter.  While nobody listens, or an answer   *)
(* has another status than 200, it is repeated, which changes nothing.     *)
Poll ==
  /\ signal = "polling"
  /\ \/ /\ OwnAnswer
        /\ signal' = "unlocking"
        /\ calls' = [calls EXCEPT !["signal"] = startedHooks]
        /\ UNCHANGED alive
     \/ /\ port = "other" \/ (port = "free" /\ webui = "dead")
        /\ signal' = "raised"
        /\ alive' = alive \ {Signal}
        /\ UNCHANGED calls
  /\ UNCHANGED <<main, executed, returnCode, webui, port, locked, called, joining>>

(* A request, or the look-up of the own address, raises anything but the   *)
(* ConnectionError that is caught.                                         *)
PollRaises ==
  /\ signal = "polling"
  /\ signal' = "raised"
  /\ alive' = alive \ {Signal}
  /\ UNCHANGED <<main, executed, returnCode, webui, port, locked, calls, called,
                 joining>>

StartedHook ==
  /\ signal = "unlocking"
  /\ \/ CallNext("signal")
     \/ /\ CallRaises("signal")
        /\ signal' = "raised"
        /\ alive' = alive \ {Signal}
        /\ UNCHANGED called
  /\ UNCHANGED <<main, executed, returnCode, webui, port, locked, joining>>

(* The end of unlock, after the callbacks; the thread ends. *)
Unlock ==
  /\ signal = "unlocking" /\ calls["signal"] = <<>>
  /\ locked' = FALSE
  /\ signal' = "ended"
  /\ alive' = alive \ {Signal}
  /\ UNCHANGED <<main, executed, returnCode, webui, port, calls, called, joining>>

(* A worker calls a hook of a plugin, with a callback by run_threaded_on.   *)
PluginHook ==
  /\ \E t \in alive : t.name \in Worker
  /\ \E f \in pluginHooks : alive' = alive \cup {[name |-> f, daemon |-> FALSE]}
  /\ UNCHANGED <<main, executed, returnCode, webui, port, locked, signal, calls,
                 called, joining>>

(* Any other thread comes to its end, raising or not. *)
ThreadEnds(t) ==
  /\ t \in alive \ {Signal}
  /\ alive' = alive \ {t}
  /\ UNCHANGED <<main, executed, returnCode, webui, port, locked, signal, calls,
                 called, joining>>

----------------------------------------------------------------------------
(* Pipeline.run.                                                           *)

(* run refuses to start with other threads, or a second time; then it makes *)
(* the WebUI, which holds its own lock, and starts its thread.             *)
Run ==
  /\ main = "idle" /\ alive = {} /\ ~executed
  /\ executed' = TRUE
  /\ main' = "startWebUI"
  /\ locked' = TRUE
  /\ webui' = "getPort"
  /\ UNCHANGED <<returnCode, port, signal, calls, called, alive, joining>>

(* waitUntilStarted. *)
WebUIStarted ==
  /\ main = "startWebUI" /\ ~locked
  /\ main' = "prepare"
  /\ UNCHANGED <<executed, returnCode, webui, port, locked, signal, calls, called,
                 alive, joining>>

(* The library is cloned and the test runs are made; both may raise. *)
Prepare ==
  /\ main = "prepare"
  /\ main' \in {"run", "raised"}
  /\ UNCHANGED <<executed, returnCode, webui, port, locked, signal, calls, called,
                 alive, joining>>

RunWorkflows ==
  /\ main = "run"
  /\ main' = "wait"
  /\ alive' = alive \cup [name : Worker, daemon : {FALSE}]
  /\ UNCHANGED <<executed, returnCode, webui, port, locked, signal, calls, called,
                 joining>>

(* Mutant of ToJoin: only the workers are waited for. *)
ToJoinWorkers == {t \in alive : t.name \in Worker}

(* The snapshot of _waitForThreads, without the daemon threads. *)
ToJoin == {t \in alive : ~t.daemon}

(* TestRuns.wait has returned, and the threads left are listed. *)
WaitForWorkflows ==
  /\ main = "wait" /\ \A t \in alive : t.name \notin Worker
  /\ returnCode' \in {0, 1}
  /\ joining' = ToJoin
  /\ main' = "join"
  /\ UNCHANGED <<executed, webui, port, locked, signal, calls, called, alive>>

(* All threads of the snapshot have ended. *)
Joined == joining \cap alive = {}

(* The last thread of the list was joined: pipeline_ended is called. *)
WaitForThreads ==
  /\ main = "join" /\ Joined
  /\ main' = "ended"
  /\ calls' = [calls EXCEPT !["main"] = endedHooks]
  /\ UNCHANGED <<executed, returnCode, webui, port, locked, signal, called, alive,
                 joining>>

EndedHook ==
  /\ main = "ended"
  /\ \/ CallNext("main") /\ UNCHANGED main
     \/ CallRaises("main") /\ main' = "raised" /\ UNCHANGED <<called, alive, signal>>
  /\ UNCHANGED <<executed, returnCode, webui, port, locked, joining>>

WaitForThreadsAgain ==
  /\ main = "ended" /\ calls["main"] = <<>>
  /\ main' = "joinAgain"
  /\ joining' = ToJoin
  /\ UNCHANGED <<executed, returnCode, webui, port, locked, signal, calls, called,
                 alive>>

RunReturns ==
  /\ main = "joinAgain" /\ Joined
  /\ main' = "returned"
  /\ UNCHANGED <<executed, returnCode, webui, port, locked, signal, calls, called,
                 alive, joining>>

MainThread ==
  \/ Run \/ WebUIStarted \/ Prepare \/ RunWorkflows \/ WaitForWorkflows
  \/ WaitForThreads \/ EndedHook \/ WaitForThreadsAgain \/ RunReturns

WebUIThread == GetPort \/ StartingHook \/ ListenOnPort

SignalThread == Poll \/ StartedHook \/ Unlock

PipelineNext ==
  \/ MainThread \/ WebUIThread \/ PortTaken \/ SignalThread \/ PollRaises
  \/ PluginHook
  \/ \E t \in Thread : ThreadEnds(t)

(* A daemon thread may run for ever. *)
PipelineFairness ==
  /\ WF_pipelineVars(MainThread)
  /\ WF_pipelineVars(WebUIThread)
  /\ WF_pipelineVars(SignalThread)
  /\ \A t \in [name : Names, daemon : {FALSE}] : WF_pipelineVars(ThreadEnds(t))

PipelineSpec == PipelineInit /\ [][PipelineNext]_pipelineVars /\ PipelineFairness

----------------------------------------------------------------------------
(* Properties.                                                             *)

(* When waitUntilStarted has returned, it is this WebUI that listens on    *)
(* its port, and all callbacks on WebUI_started were called.               *)
StartedMeansServing ==
  main \notin {"idle", "startWebUI"} =>
    /\ webui = "serving"
    /\ ToSet(startedHooks) \subseteq called

(* pipeline_ended is called when no thread is left of those that workers   *)
(* and hooks started before, although _waitForThreads only joins those of  *)
(* one snapshot; and when run returns, none is left at all.  Excepted are  *)
(* daemon threads, which callbacks of the start of the WebUI alone start.  *)
EndedMeansAlone ==
  LET waitedFor == {t.name : t \in {u \in alive : ~u.daemon}}
      others == {t.name : t \in {u \in alive : u.daemon}}
  IN /\ main \in {"ended", "joinAgain"} =>
          waitedFor \subseteq ToSet(endedHooks) \cup ToSet(renderedHooks)
     /\ main = "returned" => waitedFor = {}
     /\ others \subseteq ToSet(startingHooks) \cup ToSet(startedHooks)

(* What may go wrong in the start of the WebUI. *)
StartFailed == webui = "dead" \/ port = "other" \/ signal = "raised"

(* The main thread passes the operational lock unless the start failed, and *)
(* then comes to the end of run, as no thread it joins is blocked for ever. *)
(* If the start fails, it waits for ever.                                  *)
RunEnds ==
  /\ <>(StartFailed \/ main \notin {"idle", "startWebUI"})
  /\ main = "prepare" ~> main \in {"returned", "raised"}
=============================================================================

------------------------------ MODULE Transport ------------------------------
(***************************************************************************)
(* One `serve` process from its first line to its end: what it decides to  *)
(* watch so that it does not outlive its client (resolve_watch_plan), the  *)
(* parent and idle watchdogs beside the MCP server task, and the shutdown  *)
(* that a watchdog starts (server/transport, run_stdio).                   *)
(*                                                                         *)
(* The shutdown has four threads: the main one, which may hang wherever it *)
(* waits; a timer that ends the process if it does; the timer's cleanup    *)
(* thread, which may hang in its turn; and the atexit thread, a bounded    *)
(* wait of whoever starts it.                                              *)
(***************************************************************************)
EXTENDS Naturals, FiniteSets

CONSTANTS
    MaxIdle,   \* idle ticks that make the idle timeout
    MaxCalls   \* bound: tool calls in flight

ASSUME MaxIdleIsNat == MaxIdle \in Nat
ASSUME MaxCallsIsNat == MaxCalls \in Nat

VARIABLES
    conf,      \* how the process is launched and configured
    client,    \* the MCP client's process: "alive" or "gone"
    eof,       \* stdin is at its end
    snapshot,  \* getppid() at process entry
    psAnswered, \* _inspect_process got an answer
    watchPid,  \* client_watch_pid is the client's PID
    idleArmed, \* the idle timeout is not 0
    active,    \* IdleTracker: calls in flight
    quiet,     \* IdleTracker: ticks since the last request
    fired,     \* tasks of run_stdio that are done
    reason,    \* shutdown_reason
    pc,        \* the main thread
    timer,     \* the hard-exit timer thread
    cleanup,   \* the timer's cleanup thread
    graceful,  \* graceful_done
    spent,     \* the timer gave up waiting for the cleanup thread
    closeTaken, atexitTaken,  \* the two once-flags
    closing,   \* threads inside on_watchdog_shutdown
    atexits,   \* history: runs of the atexit handlers
    ended      \* "no", "returned" to the caller, or "exited" by os._exit

planVars == <<snapshot, psAnswered, watchPid, idleArmed>>
serveVars == <<active, quiet, fired, reason>>
timerVars == <<timer, cleanup, spent>>
closeVars == <<closeTaken, closing>>
atexitVars == <<atexitTaken, atexits>>
vars == <<conf, client, eof, planVars, serveVars, pc, timerVars, graceful, closeVars, atexitVars, ended>>

Conf == [launched : BOOLEAN,      \* the parent is `uv run` or the like
         parentWatch : BOOLEAN,   \* the parent watch is on, not Windows
         idle : {"off", "default", "explicit"},
         embedded : BOOLEAN]      \* exit_on_watchdog_shutdown is false

\* The plan and what is watched.
ServeTypeOK ==
    /\ conf \in Conf
    /\ client \in {"alive", "gone"} /\ eof \in BOOLEAN
    /\ snapshot \in {"none", "client", "launcher", "init"}
    /\ psAnswered \in BOOLEAN /\ watchPid \in BOOLEAN /\ idleArmed \in BOOLEAN
    /\ active \in 0..MaxCalls /\ quiet \in 0..MaxIdle
    /\ fired \subseteq {"server", "parent", "idle"} /\ reason \in {"none", "parent", "idle"}

\* The threads of the shutdown.
ThreadsTypeOK ==
    /\ pc \in {"entry", "inspect", "startup", "waiting", "cancel", "close", "closing", "closed",
               "atexit", "exit", "return"}
    /\ timer \in {"off", "armed", "cleanup", "atexit", "exit"}
    /\ cleanup \in {"off", "start", "closing", "done"}
    /\ timer # "off" => reason # "none" /\ ~conf.embedded
    /\ ended \in {"no", "returned", "exited"}

FlagsTypeOK ==
    /\ graceful \in BOOLEAN /\ spent \in BOOLEAN
    /\ closeTaken \in BOOLEAN /\ atexitTaken \in BOOLEAN
    /\ atexits \in 0..1

ClosingTypeOK ==
    /\ closing \subseteq {"main", "cleanup"}
    /\ "main" \in closing <=> pc = "closing"
    /\ "cleanup" \in closing <=> cleanup = "closing"

TypeOK == ServeTypeOK /\ ThreadsTypeOK /\ FlagsTypeOK /\ ClosingTypeOK

Init ==
    /\ conf \in Conf
    /\ client = "alive" /\ eof = FALSE
    /\ snapshot = "none" /\ psAnswered = FALSE /\ watchPid = FALSE /\ idleArmed = FALSE
    /\ active = 0 /\ quiet = 0 /\ fired = {} /\ reason = "none"
    /\ pc = "entry" /\ timer = "off" /\ cleanup = "off" /\ graceful = FALSE /\ spent = FALSE
    /\ closeTaken = FALSE /\ closing = {} /\ atexitTaken = FALSE /\ atexits = 0
    /\ ended = "no"

Goto(p) == pc' = p

-----------------------------------------------------------------------------
(* The client, and what becomes of the process's parent *)

\* A launcher lingers; a direct child is reparented.
Ppid ==
    CASE conf.launched -> "launcher"
      [] ~conf.launched /\ client = "alive" -> "client"
      [] OTHER -> "init"

ClientDies ==
    /\ client = "alive"
    /\ client' = "gone"
    /\ UNCHANGED <<conf, eof, planVars, serveVars, pc, timerVars, graceful, closeVars, atexitVars, ended>>

\* The client closes stdin, or nobody holds its other end any more.
StdinEnds ==
    /\ ~eof
    /\ eof' = TRUE
    /\ UNCHANGED <<conf, client, planVars, serveVars, pc, timerVars, graceful, closeVars, atexitVars, ended>>

-----------------------------------------------------------------------------
(* Process entry *)

Capture ==
    /\ pc = "entry"
    /\ snapshot' = Ppid
    /\ Goto("inspect")
    /\ UNCHANGED <<conf, client, eof, psAnswered, watchPid, idleArmed, serveVars, timerVars, graceful,
                   closeVars, atexitVars, ended>>

\* The parent is a known launcher, and the process above it is the client;
\* ps says neither when it fails.
LauncherSeen(answered) == answered /\ snapshot = "launcher"
ClientSeen(answered) == LauncherSeen(answered) /\ client = "alive"

DetectionReliable_Always(answered) == TRUE   \* mutant: an unknown grandparent counts as watched

DetectionReliable(answered) == LauncherSeen(answered) => ClientSeen(answered)

Inspect(answered) ==
    /\ pc = "inspect"
    /\ psAnswered' = answered
    /\ watchPid' = (conf.parentWatch /\ ClientSeen(answered))
    /\ idleArmed' = \/ conf.idle = "explicit"
                    \/ conf.idle = "default" /\ ~(conf.parentWatch /\ DetectionReliable(answered))
    /\ Goto("startup")
    /\ UNCHANGED <<conf, client, eof, snapshot, serveVars, timerVars, graceful, closeVars, atexitVars, ended>>

\* The index, the models and the server are set up.
Startup ==
    /\ pc = "startup"
    /\ quiet' = 0
    /\ Goto("waiting")
    /\ UNCHANGED <<conf, client, eof, planVars, active, fired, reason, timerVars, graceful, closeVars,
                   atexitVars, ended>>

-----------------------------------------------------------------------------
(* Serving: the event loop *)

servingUnchanged == <<conf, client, eof, planVars, reason, pc, timerVars, graceful, closeVars,
                      atexitVars, ended>>

Serving == pc = "waiting"

BeginCall ==
    /\ Serving /\ client = "alive" /\ ~eof /\ "server" \notin fired
    /\ active < MaxCalls
    /\ active' = active + 1 /\ quiet' = 0
    /\ UNCHANGED <<fired, servingUnchanged>>

EndCall ==
    /\ Serving /\ active > 0
    /\ active' = active - 1 /\ quiet' = 0
    /\ UNCHANGED <<fired, servingUnchanged>>

Tick ==
    /\ Serving /\ quiet < MaxIdle
    /\ quiet' = quiet + 1
    /\ UNCHANGED <<active, fired, servingUnchanged>>

ServerEnds ==
    /\ Serving /\ eof
    /\ fired' = fired \union {"server"}
    /\ UNCHANGED <<active, quiet, servingUnchanged>>

WatchParent ==
    /\ Serving /\ conf.parentWatch
    /\ Ppid # snapshot \/ (watchPid /\ client = "gone")
    /\ fired' = fired \union {"parent"}
    /\ UNCHANGED <<active, quiet, servingUnchanged>>

\* seconds_since_last() is 0 while a call is in flight.
WatchIdle ==
    /\ Serving /\ idleArmed
    /\ active = 0 /\ quiet = MaxIdle
    /\ fired' = fired \union {"idle"}
    /\ UNCHANGED <<active, quiet, servingUnchanged>>

-----------------------------------------------------------------------------
(* Shutdown: the main thread *)

Reason ==
    CASE "parent" \in fired -> "parent"
      [] "parent" \notin fired /\ "idle" \in fired -> "idle"
      [] OTHER -> "none"

Wake_NoTimer ==   \* mutant: the graceful unwind is trusted to end
    /\ Serving /\ fired # {}
    /\ reason' = Reason
    /\ Goto("cancel")
    /\ UNCHANGED <<conf, client, eof, planVars, active, quiet, fired, timerVars, graceful,
                   closeVars, atexitVars, ended>>

\* asyncio.wait returned; a watchdog's shutdown arms the timer, unless the
\* process belongs to an embedding caller.
Wake ==
    /\ Serving /\ fired # {}
    /\ reason' = Reason
    /\ timer' = IF Reason # "none" /\ ~conf.embedded THEN "armed" ELSE timer
    /\ Goto("cancel")
    /\ UNCHANGED <<conf, client, eof, planVars, active, quiet, fired, cleanup, spent, graceful,
                   closeVars, atexitVars, ended>>

Cancel_ExitsEarly ==   \* mutant: os._exit without the close
    /\ pc = "cancel"
    /\ active' = 0
    /\ Goto(IF reason = "none" \/ conf.embedded THEN "return" ELSE "exit")
    /\ UNCHANGED <<conf, client, eof, planVars, quiet, fired, reason, timerVars, graceful, closeVars,
                   atexitVars, ended>>

\* The tasks that were not done are cancelled and awaited.
Cancel ==
    /\ pc = "cancel"
    /\ active' = 0
    /\ Goto(IF reason = "none" THEN "return" ELSE "close")
    /\ UNCHANGED <<conf, client, eof, planVars, quiet, fired, reason, timerVars, graceful, closeVars,
                   atexitVars, ended>>

mainUnchanged == <<conf, client, eof, planVars, serveVars, timerVars>>

MainClose ==
    /\ pc = "close"
    /\ closeTaken' = TRUE
    /\ IF closeTaken
       THEN Goto("closed") /\ UNCHANGED closing
       ELSE Goto("closing") /\ closing' = closing \union {"main"}
    /\ UNCHANGED <<mainUnchanged, graceful, atexitVars, ended>>

MainClosed ==
    /\ pc = "closing"
    /\ closing' = closing \ {"main"}
    /\ Goto("closed")
    /\ UNCHANGED <<mainUnchanged, closeTaken, graceful, atexitVars, ended>>

MainDisarms ==
    /\ pc = "closed"
    /\ IF conf.embedded
       THEN Goto("return") /\ UNCHANGED graceful
       ELSE Goto("atexit") /\ graceful' = TRUE
    /\ UNCHANGED <<mainUnchanged, closeVars, atexitVars, ended>>

\* The handlers run in a thread of their own, waited for a second at most.
RunAtexitOnce ==
    /\ atexitTaken' = TRUE
    /\ atexits' = IF atexitTaken THEN atexits ELSE atexits + 1

MainAtexit ==
    /\ pc = "atexit"
    /\ RunAtexitOnce
    /\ Goto("exit")
    /\ UNCHANGED <<mainUnchanged, graceful, closeVars, ended>>

MainExits ==
    /\ pc = "exit"
    /\ ended' = "exited"
    /\ UNCHANGED <<mainUnchanged, pc, graceful, closeVars, atexitVars>>

MainReturns ==
    /\ pc = "return"
    /\ ended' = "returned"
    /\ UNCHANGED <<mainUnchanged, pc, graceful, closeVars, atexitVars>>

-----------------------------------------------------------------------------
(* Shutdown: the timer and its cleanup thread *)

timerUnchanged == <<conf, client, eof, planVars, serveVars, pc, graceful>>

TimerWaits ==
    /\ timer = "armed"
    /\ IF graceful
       THEN timer' = "off" /\ UNCHANGED cleanup
       ELSE timer' = "cleanup" /\ cleanup' = "start"
    /\ UNCHANGED <<timerUnchanged, spent, closeVars, atexitVars, ended>>

CleanupClose ==
    /\ cleanup = "start"
    /\ closeTaken' = TRUE
    /\ IF closeTaken
       THEN cleanup' = "done" /\ UNCHANGED closing
       ELSE cleanup' = "closing" /\ closing' = closing \union {"cleanup"}
    /\ UNCHANGED <<timerUnchanged, timer, spent, atexitVars, ended>>

CleanupClosed ==
    /\ cleanup = "closing"
    /\ cleanup' = "done"
    /\ closing' = closing \ {"cleanup"}
    /\ UNCHANGED <<timerUnchanged, timer, spent, closeTaken, atexitVars, ended>>

\* The cleanup thread is waited for a second at most.
TimerLeavesCleanup ==
    /\ timer = "cleanup"
    /\ timer' = "atexit"
    /\ spent' \in {cleanup # "done", TRUE}
    /\ UNCHANGED <<timerUnchanged, cleanup, closeVars, atexitVars, ended>>

TimerAtexit ==
    /\ timer = "atexit"
    /\ timer' = "exit"
    /\ RunAtexitOnce
    /\ UNCHANGED <<timerUnchanged, cleanup, spent, closeVars, ended>>

TimerExits ==
    /\ timer = "exit"
    /\ ended' = "exited"
    /\ UNCHANGED <<timerUnchanged, timerVars, closeVars, atexitVars>>

Timer == TimerWaits \/ TimerLeavesCleanup \/ TimerAtexit \/ TimerExits

Entry == Capture \/ (\E answered \in BOOLEAN : Inspect(answered)) \/ Startup

Main ==
    \/ Wake \/ Cancel \/ MainClose \/ MainClosed \/ MainDisarms
    \/ MainAtexit \/ MainExits \/ MainReturns

Running == ended = "no"

Next ==
    /\ Running
    /\ \/ ClientDies \/ StdinEnds
       \/ Entry
       \/ BeginCall \/ EndCall \/ Tick \/ ServerEnds \/ WatchParent \/ WatchIdle
       \/ Main
       \/ Timer \/ CleanupClose \/ CleanupClosed

Spec == Init /\ [][Next]_vars

\* What cannot hang the main thread: the atexit handlers are waited for a
\* second, os._exit is not refused, and after the end of stdin the reader's
\* thread is not stuck in a read.
MainBounded == MainAtexit \/ MainExits \/ (reason = "none" /\ (Cancel \/ MainReturns))

\* Time passes and the process starts up; until it shuts down its event loop
\* turns and its calls return.  In a watchdog's shutdown only the timer's
\* thread, and the main one past the close, are certain to get on.
Fairness ==
    /\ WF_vars(Running /\ Entry) /\ WF_vars(Running /\ Tick)
    /\ WF_vars(Running /\ EndCall) /\ WF_vars(Running /\ ServerEnds)
    /\ WF_vars(Running /\ WatchParent) /\ WF_vars(Running /\ WatchIdle)
    /\ WF_vars(Running /\ Wake)
    /\ WF_vars(Running /\ Timer) /\ WF_vars(Running /\ MainBounded)

FairSpec == Spec /\ Fairness

-----------------------------------------------------------------------------
(* Properties *)

\* However the main thread and the timer race, the store is never closed by
\* two threads at a time and the atexit handlers run once (serve_stdio: "a
\* single-shot guard ensures at most one invocation").
CleanupsRunOnce == Cardinality(closing) <= 1 /\ atexits <= 1

\* The process is never ended by os._exit before the close was tried, unless
\* a second went by without the cleanup thread getting to it.
ExitFollowsClose == ended = "exited" => closeTaken \/ spent

\* The process of an embedding caller is never ended (serve_stdio: "every
\* host-affecting action is suppressed").
EmbeddedSurvives == conf.embedded => ended # "exited" /\ timer = "off"

\* A session that goes quiet keeps its hub while the client is watched,
\* unless an idle timeout was asked for (_resolve_watch_and_idle_plan: it
\* "would only reap a warm hub during a quiet stretch of an active session").
QuietSessionLives ==
    reason = "idle" /\ client = "alive" => conf.idle = "explicit" \/ ~conf.parentWatch

\* A shutdown that a watchdog began ends the process, whatever hangs.
ShutdownIsBounded == reason # "none" /\ ~conf.embedded ~> ended # "no"

\* A client that dies after the process took its PPID is noticed and the
\* process ends, however it was launched and though stdin stays open, as long
\* as ps answered and neither watch was switched off.
WatchesOn == conf.parentWatch /\ conf.idle # "off" /\ ~conf.embedded
OutlivesNoClient ==
    client = "gone" /\ WatchesOn /\ psAnswered /\ snapshot # "init" ~> ended # "no"
=============================================================================

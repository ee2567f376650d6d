--------------------------- MODULE Transport_proofs ---------------------------
(* Proofs about Transport, for any idle timeout and any number of calls. *)
EXTENDS Transport, FiniteSetTheorems, TLAPS

\* Who is inside the close has the flag, and is alone; the timer starts after
\* the main thread has left the wait, and the cleanup thread after the timer.
OneCloser ==
    /\ pc = "closing" \/ cleanup = "closing" => closeTaken
    /\ ~(pc = "closing" /\ cleanup = "closing")
    /\ pc \in {"entry", "inspect", "startup", "waiting"} => timer = "off"
    /\ timer \in {"off", "armed"} => cleanup = "off"
    /\ atexits = IF atexitTaken THEN 1 ELSE 0

\* How far the close has come when a thread goes on towards os._exit.
ClosedBeforeExit ==
    /\ pc \in {"closed", "atexit", "exit"} => closeTaken
    /\ cleanup = "done" => closeTaken
    /\ timer \in {"atexit", "exit"} => closeTaken \/ spent
    /\ ended = "exited" => closeTaken \/ spent

\* An embedding caller's process is left alone.
HandsOff == conf.embedded => timer = "off" /\ pc \notin {"atexit", "exit"} /\ ended # "exited"

\* The idle watch is armed only for a reason, and fires only when armed.
IdleIsWanted ==
    /\ pc \in {"entry", "inspect"} => fired = {} /\ reason = "none"
    /\ pc = "entry" => ~idleArmed
    /\ idleArmed => conf.idle = "explicit" \/ ~conf.parentWatch \/ client = "gone"
    /\ "idle" \in fired \/ reason = "idle" => idleArmed

IInv == TypeOK /\ OneCloser /\ ClosedBeforeExit /\ HandsOff /\ IdleIsWanted

-----------------------------------------------------------------------------

\* A process at its entry satisfies the invariant.
LEMMA InitIInv == Init => IInv
  <1> SUFFICES ASSUME Init PROVE IInv
    OBVIOUS
  <1> USE MaxIdleIsNat, MaxCallsIsNat DEF Init
  <1>1. TypeOK
    <2>1. ServeTypeOK
      <3>1. active \in 0..MaxCalls /\ quiet \in 0..MaxIdle
        OBVIOUS
      <3>2. QED
        BY <3>1, Zenon DEF ServeTypeOK
    <2>2. ThreadsTypeOK
      BY DEF ThreadsTypeOK
    <2>3. FlagsTypeOK
      <3>1. atexits \in 0..1
        OBVIOUS
      <3>2. QED
        BY <3>1, Zenon DEF FlagsTypeOK
    <2>4. ClosingTypeOK
      BY DEF ClosingTypeOK
    <2>5. QED
      BY <2>1, <2>2, <2>3, <2>4 DEF TypeOK
  <1>2. OneCloser /\ ClosedBeforeExit /\ HandsOff /\ IdleIsWanted
    BY DEF OneCloser, ClosedBeforeExit, HandsOff, IdleIsWanted
  <1>3. QED
    BY <1>1, <1>2 DEF IInv

\* Every step of every thread preserves it.
LEMMA NextIInv == IInv /\ [Next]_vars => IInv'
  <1> SUFFICES ASSUME IInv, [Next]_vars PROVE IInv'
    OBVIOUS
  <1> USE MaxIdleIsNat, MaxCallsIsNat
      DEF IInv, TypeOK, Conf, Goto, planVars, serveVars, timerVars, closeVars, atexitVars
  <1>1. CASE ClientDies
    <2>1. TypeOK'
      <3>1. ServeTypeOK'
        BY <1>1 DEF ClientDies, ServeTypeOK
      <3>2. ThreadsTypeOK'
        BY <1>1 DEF ClientDies, ThreadsTypeOK, ServeTypeOK
      <3>3. FlagsTypeOK'
        BY <1>1 DEF ClientDies, FlagsTypeOK, OneCloser
      <3>4. ClosingTypeOK'
        BY <1>1 DEF ClientDies, ClosingTypeOK, OneCloser
      <3>5. QED
        BY <3>1, <3>2, <3>3, <3>4 DEF TypeOK
    <2>2. OneCloser' /\ ClosedBeforeExit'
      BY <1>1 DEF ClientDies, TypeOK, OneCloser, ClosedBeforeExit
    <2>3. HandsOff' /\ IdleIsWanted'
      BY <1>1 DEF ClientDies, TypeOK, HandsOff, IdleIsWanted
    <2>4. QED
      BY <2>1, <2>2, <2>3
  <1>2. CASE StdinEnds
    <2>1. TypeOK'
      <3>1. ServeTypeOK'
        BY <1>2 DEF StdinEnds, ServeTypeOK
      <3>2. ThreadsTypeOK'
        BY <1>2 DEF StdinEnds, ThreadsTypeOK, ServeTypeOK
      <3>3. FlagsTypeOK'
        BY <1>2 DEF StdinEnds, FlagsTypeOK, OneCloser
      <3>4. ClosingTypeOK'
        BY <1>2 DEF StdinEnds, ClosingTypeOK, OneCloser
      <3>5. QED
        BY <3>1, <3>2, <3>3, <3>4 DEF TypeOK
    <2>2. OneCloser' /\ ClosedBeforeExit'
      BY <1>2 DEF StdinEnds, TypeOK, OneCloser, ClosedBeforeExit
    <2>3. HandsOff' /\ IdleIsWanted'
      BY <1>2 DEF StdinEnds, TypeOK, HandsOff, IdleIsWanted
    <2>4. QED
      BY <2>1, <2>2, <2>3
  <1>3. CASE Capture
    <2>1. TypeOK'
      <3>1. ServeTypeOK'
        BY <1>3 DEF Capture, Ppid, ServeTypeOK
      <3>2. ThreadsTypeOK'
        BY <1>3 DEF Capture, Ppid, ThreadsTypeOK, ServeTypeOK
      <3>3. FlagsTypeOK'
        BY <1>3 DEF Capture, Ppid, FlagsTypeOK, OneCloser
      <3>4. ClosingTypeOK'
        BY <1>3 DEF Capture, Ppid, ClosingTypeOK, OneCloser
      <3>5. QED
        BY <3>1, <3>2, <3>3, <3>4 DEF TypeOK
    <2>2. OneCloser' /\ ClosedBeforeExit'
      BY <1>3 DEF Capture, Ppid, TypeOK, OneCloser, ClosedBeforeExit
    <2>3. HandsOff' /\ IdleIsWanted'
      BY <1>3 DEF Capture, Ppid, TypeOK, HandsOff, IdleIsWanted
    <2>4. QED
      BY <2>1, <2>2, <2>3
  <1>4. ASSUME NEW answered \in BOOLEAN, Inspect(answered) PROVE IInv'
    <2>1. TypeOK'
      <3>1. ServeTypeOK'
        BY <1>4 DEF Inspect, DetectionReliable, LauncherSeen, ClientSeen, ServeTypeOK
      <3>2. ThreadsTypeOK'
        BY <1>4 DEF Inspect, DetectionReliable, LauncherSeen, ClientSeen, ThreadsTypeOK, ServeTypeOK
      <3>3. FlagsTypeOK'
        BY <1>4 DEF Inspect, DetectionReliable, LauncherSeen, ClientSeen, FlagsTypeOK, OneCloser
      <3>4. ClosingTypeOK'
        BY <1>4 DEF Inspect, DetectionReliable, LauncherSeen, ClientSeen, ClosingTypeOK, OneCloser
      <3>5. QED
        BY <3>1, <3>2, <3>3, <3>4 DEF TypeOK
    <2>2. OneCloser' /\ ClosedBeforeExit'
      BY <1>4 DEF Inspect, DetectionReliable, LauncherSeen, ClientSeen, TypeOK, OneCloser, ClosedBeforeExit
    <2>3. HandsOff' /\ IdleIsWanted'
      BY <1>4 DEF Inspect, DetectionReliable, LauncherSeen, ClientSeen, ServeTypeOK, HandsOff, IdleIsWanted
    <2>4. QED
      BY <2>1, <2>2, <2>3
  <1>5. CASE Startup
    <2>1. TypeOK'
      <3>1. ServeTypeOK'
        BY <1>5 DEF Startup, ServeTypeOK
      <3>2. ThreadsTypeOK'
        BY <1>5 DEF Startup, ThreadsTypeOK, ServeTypeOK
      <3>3. FlagsTypeOK'
        BY <1>5 DEF Startup, FlagsTypeOK, OneCloser
      <3>4. ClosingTypeOK'
        BY <1>5 DEF Startup, ClosingTypeOK, OneCloser
      <3>5. QED
        BY <3>1, <3>2, <3>3, <3>4 DEF TypeOK
    <2>2. OneCloser' /\ ClosedBeforeExit'
      BY <1>5 DEF Startup, TypeOK, OneCloser, ClosedBeforeExit
    <2>3. HandsOff' /\ IdleIsWanted'
      BY <1>5 DEF Startup, TypeOK, HandsOff, IdleIsWanted
    <2>4. QED
      BY <2>1, <2>2, <2>3
  <1>6. CASE BeginCall
    <2>1. TypeOK'
      <3>1. ServeTypeOK'
        BY <1>6 DEF BeginCall, Serving, servingUnchanged, ServeTypeOK
      <3>2. ThreadsTypeOK'
        BY <1>6 DEF BeginCall, Serving, servingUnchanged, ThreadsTypeOK, ServeTypeOK
      <3>3. FlagsTypeOK'
        BY <1>6 DEF BeginCall, Serving, servingUnchanged, FlagsTypeOK, OneCloser
      <3>4. ClosingTypeOK'
        BY <1>6 DEF BeginCall, Serving, servingUnchanged, ClosingTypeOK, OneCloser
      <3>5. QED
        BY <3>1, <3>2, <3>3, <3>4 DEF TypeOK
    <2>2. OneCloser' /\ ClosedBeforeExit'
      BY <1>6 DEF BeginCall, Serving, servingUnchanged, TypeOK, OneCloser, ClosedBeforeExit
    <2>3. HandsOff' /\ IdleIsWanted'
      BY <1>6 DEF BeginCall, Serving, servingUnchanged, TypeOK, HandsOff, IdleIsWanted
    <2>4. QED
      BY <2>1, <2>2, <2>3
  <1>7. CASE EndCall
    <2>1. TypeOK'
      <3>1. ServeTypeOK'
        BY <1>7 DEF EndCall, Serving, servingUnchanged, ServeTypeOK
      <3>2. ThreadsTypeOK'
        BY <1>7 DEF EndCall, Serving, servingUnchanged, ThreadsTypeOK, ServeTypeOK
      <3>3. FlagsTypeOK'
        BY <1>7 DEF EndCall, Serving, servingUnchanged, FlagsTypeOK, OneCloser
      <3>4. ClosingTypeOK'
        BY <1>7 DEF EndCall, Serving, servingUnchanged, ClosingTypeOK, OneCloser
      <3>5. QED
        BY <3>1, <3>2, <3>3, <3>4 DEF TypeOK
    <2>2. OneCloser' /\ ClosedBeforeExit'
      BY <1>7 DEF EndCall, Serving, servingUnchanged, TypeOK, OneCloser, ClosedBeforeExit
    <2>3. HandsOff' /\ IdleIsWanted'
      BY <1>7 DEF EndCall, Serving, servingUnchanged, TypeOK, HandsOff, IdleIsWanted
    <2>4. QED
      BY <2>1, <2>2, <2>3
  <1>8. CASE Tick
    <2>1. TypeOK'
      <3>1. ServeTypeOK'
        BY <1>8 DEF Tick, Serving, servingUnchanged, ServeTypeOK
      <3>2. ThreadsTypeOK'
        BY <1>8 DEF Tick, Serving, servingUnchanged, ThreadsTypeOK, ServeTypeOK
      <3>3. FlagsTypeOK'
        BY <1>8 DEF Tick, Serving, servingUnchanged, FlagsTypeOK, OneCloser
      <3>4. ClosingTypeOK'
        BY <1>8 DEF Tick, Serving, servingUnchanged, ClosingTypeOK, OneCloser
      <3>5. QED
        BY <3>1, <3>2, <3>3, <3>4 DEF TypeOK
    <2>2. OneCloser' /\ ClosedBeforeExit'
      BY <1>8 DEF Tick, Serving, servingUnchanged, TypeOK, OneCloser, ClosedBeforeExit
    <2>3. HandsOff' /\ IdleIsWanted'
      BY <1>8 DEF Tick, Serving, servingUnchanged, TypeOK, HandsOff, IdleIsWanted
    <2>4. QED
      BY <2>1, <2>2, <2>3
  <1>9. CASE ServerEnds
    <2>1. TypeOK'
      <3>1. ServeTypeOK'
        BY <1>9 DEF ServerEnds, Serving, servingUnchanged, ServeTypeOK
      <3>2. ThreadsTypeOK'
        BY <1>9 DEF ServerEnds, Serving, servingUnchanged, ThreadsTypeOK, ServeTypeOK
      <3>3. FlagsTypeOK'
        BY <1>9 DEF ServerEnds, Serving, servingUnchanged, FlagsTypeOK, OneCloser
      <3>4. ClosingTypeOK'
        BY <1>9 DEF ServerEnds, Serving, servingUnchanged, ClosingTypeOK, OneCloser
      <3>5. QED
        BY <3>1, <3>2, <3>3, <3>4 DEF TypeOK
    <2>2. OneCloser' /\ ClosedBeforeExit'
      BY <1>9 DEF ServerEnds, Serving, servingUnchanged, TypeOK, OneCloser, ClosedBeforeExit
    <2>3. HandsOff' /\ IdleIsWanted'
      BY <1>9 DEF ServerEnds, Serving, servingUnchanged, TypeOK, HandsOff, IdleIsWanted
    <2>4. QED
      BY <2>1, <2>2, <2>3
  <1>10. CASE WatchParent
    <2>1. TypeOK'
      <3>1. ServeTypeOK'
        BY <1>10 DEF WatchParent, Serving, servingUnchanged, ServeTypeOK
      <3>2. ThreadsTypeOK'
        BY <1>10 DEF WatchParent, Serving, servingUnchanged, ThreadsTypeOK, ServeTypeOK
      <3>3. FlagsTypeOK'
        BY <1>10 DEF WatchParent, Serving, servingUnchanged, FlagsTypeOK, OneCloser
      <3>4. ClosingTypeOK'
        BY <1>10 DEF WatchParent, Serving, servingUnchanged, ClosingTypeOK, OneCloser
      <3>5. QED
        BY <3>1, <3>2, <3>3, <3>4 DEF TypeOK
    <2>2. OneCloser' /\ ClosedBeforeExit'
      BY <1>10 DEF WatchParent, Serving, servingUnchanged, TypeOK, OneCloser, ClosedBeforeExit
    <2>3. HandsOff' /\ IdleIsWanted'
      BY <1>10 DEF WatchParent, Serving, servingUnchanged, TypeOK, HandsOff, IdleIsWanted
    <2>4. QED
      BY <2>1, <2>2, <2>3
  <1>11. CASE WatchIdle
    <2>1. TypeOK'
      <3>1. ServeTypeOK'
        BY <1>11 DEF WatchIdle, Serving, servingUnchanged, ServeTypeOK
      <3>2. ThreadsTypeOK'
        BY <1>11 DEF WatchIdle, Serving, servingUnchanged, ThreadsTypeOK, ServeTypeOK
      <3>3. FlagsTypeOK'
        BY <1>11 DEF WatchIdle, Serving, servingUnchanged, FlagsTypeOK, OneCloser
      <3>4. ClosingTypeOK'
        BY <1>11 DEF WatchIdle, Serving, servingUnchanged, ClosingTypeOK, OneCloser
      <3>5. QED
        BY <3>1, <3>2, <3>3, <3>4 DEF TypeOK
    <2>2. OneCloser' /\ ClosedBeforeExit'
      BY <1>11 DEF WatchIdle, Serving, servingUnchanged, TypeOK, OneCloser, ClosedBeforeExit
    <2>3. HandsOff' /\ IdleIsWanted'
      BY <1>11 DEF WatchIdle, Serving, servingUnchanged, TypeOK, HandsOff, IdleIsWanted
    <2>4. QED
      BY <2>1, <2>2, <2>3
  <1>12. CASE Wake
    <2>1. TypeOK'
      <3>1. ServeTypeOK'
        BY <1>12 DEF Wake, Reason, Serving, ServeTypeOK
      <3>2. ThreadsTypeOK'
        <4>1. conf.embedded \in BOOLEAN
          BY DEF ServeTypeOK
        <4>2. CASE timer' = timer
          BY <1>12, <4>1, <4>2 DEF Wake, Reason, Serving, ThreadsTypeOK, OneCloser
        <4>3. CASE timer' = "armed" /\ Reason # "none" /\ ~conf.embedded
          BY <1>12, <4>1, <4>3 DEF Wake, Reason, Serving, ThreadsTypeOK
        <4>4. QED
          BY <1>12, <4>1, <4>2, <4>3 DEF Wake
      <3>3. FlagsTypeOK'
        BY <1>12 DEF Wake, Reason, Serving, FlagsTypeOK, OneCloser
      <3>4. ClosingTypeOK'
        BY <1>12 DEF Wake, Reason, Serving, ClosingTypeOK, OneCloser
      <3>5. QED
        BY <3>1, <3>2, <3>3, <3>4 DEF TypeOK
    <2>2. OneCloser' /\ ClosedBeforeExit'
      BY <1>12 DEF Wake, Reason, Serving, TypeOK, OneCloser, ClosedBeforeExit
    <2>3. HandsOff' /\ IdleIsWanted'
      BY <1>12 DEF Wake, Reason, Serving, TypeOK, HandsOff, IdleIsWanted
    <2>4. QED
      BY <2>1, <2>2, <2>3
  <1>13. CASE Cancel
    <2>1. TypeOK'
      <3>1. ServeTypeOK'
        BY <1>13 DEF Cancel, ServeTypeOK
      <3>2. ThreadsTypeOK'
        BY <1>13 DEF Cancel, ThreadsTypeOK, ServeTypeOK
      <3>3. FlagsTypeOK'
        BY <1>13 DEF Cancel, FlagsTypeOK, OneCloser
      <3>4. ClosingTypeOK'
        BY <1>13 DEF Cancel, ClosingTypeOK, OneCloser
      <3>5. QED
        BY <3>1, <3>2, <3>3, <3>4 DEF TypeOK
    <2>2. OneCloser' /\ ClosedBeforeExit'
      BY <1>13 DEF Cancel, TypeOK, OneCloser, ClosedBeforeExit
    <2>3. HandsOff' /\ IdleIsWanted'
      BY <1>13 DEF Cancel, TypeOK, HandsOff, IdleIsWanted
    <2>4. QED
      BY <2>1, <2>2, <2>3
  <1>14. CASE MainClose
    <2>1. TypeOK'
      <3>1. ServeTypeOK'
        BY <1>14 DEF MainClose, mainUnchanged, ServeTypeOK
      <3>2. ThreadsTypeOK'
        BY <1>14 DEF MainClose, mainUnchanged, ThreadsTypeOK, ServeTypeOK
      <3>3. FlagsTypeOK'
        BY <1>14 DEF MainClose, mainUnchanged, FlagsTypeOK, OneCloser
      <3>4. ClosingTypeOK'
        BY <1>14 DEF MainClose, mainUnchanged, ClosingTypeOK, OneCloser
      <3>5. QED
        BY <3>1, <3>2, <3>3, <3>4 DEF TypeOK
    <2>2. OneCloser' /\ ClosedBeforeExit'
      BY <1>14 DEF MainClose, mainUnchanged, TypeOK, OneCloser, ClosedBeforeExit
    <2>3. HandsOff' /\ IdleIsWanted'
      BY <1>14 DEF MainClose, mainUnchanged, TypeOK, HandsOff, IdleIsWanted
    <2>4. QED
      BY <2>1, <2>2, <2>3
  <1>15. CASE MainClosed
    <2>1. TypeOK'
      <3>1. ServeTypeOK'
        BY <1>15 DEF MainClosed, mainUnchanged, ServeTypeOK
      <3>2. ThreadsTypeOK'
        BY <1>15 DEF MainClosed, mainUnchanged, ThreadsTypeOK, ServeTypeOK
      <3>3. FlagsTypeOK'
        BY <1>15 DEF MainClosed, mainUnchanged, FlagsTypeOK, OneCloser
      <3>4. ClosingTypeOK'
        BY <1>15 DEF MainClosed, mainUnchanged, ClosingTypeOK, OneCloser
      <3>5. QED
        BY <3>1, <3>2, <3>3, <3>4 DEF TypeOK
    <2>2. OneCloser' /\ ClosedBeforeExit'
      BY <1>15 DEF MainClosed, mainUnchanged, TypeOK, OneCloser, ClosedBeforeExit
    <2>3. HandsOff' /\ IdleIsWanted'
      BY <1>15 DEF MainClosed, mainUnchanged, TypeOK, HandsOff, IdleIsWanted
    <2>4. QED
      BY <2>1, <2>2, <2>3
  <1>16. CASE MainDisarms
    <2>1. TypeOK'
      <3>1. ServeTypeOK'
        BY <1>16 DEF MainDisarms, mainUnchanged, ServeTypeOK
      <3>2. ThreadsTypeOK'
        BY <1>16 DEF MainDisarms, mainUnchanged, ThreadsTypeOK, ServeTypeOK
      <3>3. FlagsTypeOK'
        BY <1>16 DEF MainDisarms, mainUnchanged, FlagsTypeOK, OneCloser
      <3>4. ClosingTypeOK'
        BY <1>16 DEF MainDisarms, mainUnchanged, ClosingTypeOK, OneCloser
      <3>5. QED
        BY <3>1, <3>2, <3>3, <3>4 DEF TypeOK
    <2>2. OneCloser' /\ ClosedBeforeExit'
      BY <1>16 DEF MainDisarms, mainUnchanged, TypeOK, OneCloser, ClosedBeforeExit
    <2>3. HandsOff' /\ IdleIsWanted'
      BY <1>16 DEF MainDisarms, mainUnchanged, TypeOK, HandsOff, IdleIsWanted
    <2>4. QED
      BY <2>1, <2>2, <2>3
  <1>17. CASE MainAtexit
    <2>1. TypeOK'
      <3>1. ServeTypeOK'
        BY <1>17 DEF MainAtexit, RunAtexitOnce, mainUnchanged, ServeTypeOK
      <3>2. ThreadsTypeOK'
        BY <1>17 DEF MainAtexit, RunAtexitOnce, mainUnchanged, ThreadsTypeOK, ServeTypeOK
      <3>3. FlagsTypeOK'
        BY <1>17 DEF MainAtexit, RunAtexitOnce, mainUnchanged, FlagsTypeOK, OneCloser
      <3>4. ClosingTypeOK'
        BY <1>17 DEF MainAtexit, RunAtexitOnce, mainUnchanged, ClosingTypeOK, OneCloser
      <3>5. QED
        BY <3>1, <3>2, <3>3, <3>4 DEF TypeOK
    <2>2. OneCloser' /\ ClosedBeforeExit'
      BY <1>17 DEF MainAtexit, RunAtexitOnce, mainUnchanged, TypeOK, OneCloser, ClosedBeforeExit
    <2>3. HandsOff' /\ IdleIsWanted'
      BY <1>17 DEF MainAtexit, RunAtexitOnce, mainUnchanged, TypeOK, HandsOff, IdleIsWanted
    <2>4. QED
      BY <2>1, <2>2, <2>3
  <1>18. CASE MainExits
    <2>1. TypeOK'
      <3>1. ServeTypeOK'
        BY <1>18 DEF MainExits, mainUnchanged, ServeTypeOK
      <3>2. ThreadsTypeOK'
        BY <1>18 DEF MainExits, mainUnchanged, ThreadsTypeOK, ServeTypeOK
      <3>3. FlagsTypeOK'
        BY <1>18 DEF MainExits, mainUnchanged, FlagsTypeOK, OneCloser
      <3>4. ClosingTypeOK'
        BY <1>18 DEF MainExits, mainUnchanged, ClosingTypeOK, OneCloser
      <3>5. QED
        BY <3>1, <3>2, <3>3, <3>4 DEF TypeOK
    <2>2. OneCloser' /\ ClosedBeforeExit'
      BY <1>18 DEF MainExits, mainUnchanged, TypeOK, OneCloser, ClosedBeforeExit
    <2>3. HandsOff' /\ IdleIsWanted'
      BY <1>18 DEF MainExits, mainUnchanged, TypeOK, HandsOff, IdleIsWanted
    <2>4. QED
      BY <2>1, <2>2, <2>3
  <1>19. CASE MainReturns
    <2>1. TypeOK'
      <3>1. ServeTypeOK'
        BY <1>19 DEF MainReturns, mainUnchanged, ServeTypeOK
      <3>2. ThreadsTypeOK'
        BY <1>19 DEF MainReturns, mainUnchanged, ThreadsTypeOK, ServeTypeOK
      <3>3. FlagsTypeOK'
        BY <1>19 DEF MainReturns, mainUnchanged, FlagsTypeOK, OneCloser
      <3>4. ClosingTypeOK'
        BY <1>19 DEF MainReturns, mainUnchanged, ClosingTypeOK, OneCloser
      <3>5. QED
        BY <3>1, <3>2, <3>3, <3>4 DEF TypeOK
    <2>2. OneCloser' /\ ClosedBeforeExit'
      BY <1>19 DEF MainReturns, mainUnchanged, TypeOK, OneCloser, ClosedBeforeExit
    <2>3. HandsOff' /\ IdleIsWanted'
      BY <1>19 DEF MainReturns, mainUnchanged, TypeOK, HandsOff, IdleIsWanted
    <2>4. QED
      BY <2>1, <2>2, <2>3
  <1>20. CASE TimerWaits
    <2>1. TypeOK'
      <3>1. ServeTypeOK'
        BY <1>20 DEF TimerWaits, timerUnchanged, ServeTypeOK
      <3>2. ThreadsTypeOK'
        BY <1>20 DEF TimerWaits, timerUnchanged, ThreadsTypeOK, ServeTypeOK
      <3>3. FlagsTypeOK'
        BY <1>20 DEF TimerWaits, timerUnchanged, FlagsTypeOK, OneCloser
      <3>4. ClosingTypeOK'
        BY <1>20 DEF TimerWaits, timerUnchanged, ClosingTypeOK, OneCloser
      <3>5. QED
        BY <3>1, <3>2, <3>3, <3>4 DEF TypeOK
    <2>2. OneCloser' /\ ClosedBeforeExit'
      BY <1>20 DEF TimerWaits, timerUnchanged, TypeOK, OneCloser, ClosedBeforeExit
    <2>3. HandsOff' /\ IdleIsWanted'
      BY <1>20 DEF TimerWaits, timerUnchanged, TypeOK, HandsOff, IdleIsWanted
    <2>4. QED
      BY <2>1, <2>2, <2>3
  <1>21. CASE TimerLeavesCleanup
    <2>1. TypeOK'
      <3>1. ServeTypeOK'
        BY <1>21 DEF TimerLeavesCleanup, timerUnchanged, ServeTypeOK
      <3>2. ThreadsTypeOK'
        BY <1>21 DEF TimerLeavesCleanup, timerUnchanged, ThreadsTypeOK, ServeTypeOK
      <3>3. FlagsTypeOK'
        BY <1>21 DEF TimerLeavesCleanup, timerUnchanged, FlagsTypeOK, OneCloser
      <3>4. ClosingTypeOK'
        BY <1>21 DEF TimerLeavesCleanup, timerUnchanged, ClosingTypeOK, OneCloser
      <3>5. QED
        BY <3>1, <3>2, <3>3, <3>4 DEF TypeOK
    <2>2. OneCloser' /\ ClosedBeforeExit'
      BY <1>21 DEF TimerLeavesCleanup, timerUnchanged, TypeOK, OneCloser, ClosedBeforeExit
    <2>3. HandsOff' /\ IdleIsWanted'
      BY <1>21 DEF TimerLeavesCleanup, timerUnchanged, TypeOK, HandsOff, IdleIsWanted
    <2>4. QED
      BY <2>1, <2>2, <2>3
  <1>22. CASE TimerAtexit
    <2>1. TypeOK'
      <3>1. ServeTypeOK'
        BY <1>22 DEF TimerAtexit, RunAtexitOnce, timerUnchanged, ServeTypeOK
      <3>2. ThreadsTypeOK'
        BY <1>22 DEF TimerAtexit, RunAtexitOnce, timerUnchanged, ThreadsTypeOK, ServeTypeOK
      <3>3. FlagsTypeOK'
        BY <1>22 DEF TimerAtexit, RunAtexitOnce, timerUnchanged, FlagsTypeOK, OneCloser
      <3>4. ClosingTypeOK'
        BY <1>22 DEF TimerAtexit, RunAtexitOnce, timerUnchanged, ClosingTypeOK, OneCloser
      <3>5. QED
        BY <3>1, <3>2, <3>3, <3>4 DEF TypeOK
    <2>2. OneCloser' /\ ClosedBeforeExit'
      BY <1>22 DEF TimerAtexit, RunAtexitOnce, timerUnchanged, TypeOK, OneCloser, ClosedBeforeExit
    <2>3. HandsOff' /\ IdleIsWanted'
      BY <1>22 DEF TimerAtexit, RunAtexitOnce, timerUnchanged, TypeOK, HandsOff, IdleIsWanted
    <2>4. QED
      BY <2>1, <2>2, <2>3
  <1>23. CASE TimerExits
    <2>1. TypeOK'
      <3>1. ServeTypeOK'
        BY <1>23 DEF TimerExits, timerUnchanged, ServeTypeOK
      <3>2. ThreadsTypeOK'
        BY <1>23 DEF TimerExits, timerUnchanged, ThreadsTypeOK, ServeTypeOK
      <3>3. FlagsTypeOK'
        BY <1>23 DEF TimerExits, timerUnchanged, FlagsTypeOK, OneCloser
      <3>4. ClosingTypeOK'
        BY <1>23 DEF TimerExits, timerUnchanged, ClosingTypeOK, OneCloser
      <3>5. QED
        BY <3>1, <3>2, <3>3, <3>4 DEF TypeOK
    <2>2. OneCloser' /\ ClosedBeforeExit'
      BY <1>23 DEF TimerExits, timerUnchanged, TypeOK, OneCloser, ClosedBeforeExit
    <2>3. HandsOff' /\ IdleIsWanted'
      BY <1>23 DEF TimerExits, timerUnchanged, TypeOK, HandsOff, IdleIsWanted
    <2>4. QED
      BY <2>1, <2>2, <2>3
  <1>24. CASE CleanupClose
    <2>1. TypeOK'
      <3>1. ServeTypeOK'
        BY <1>24 DEF CleanupClose, timerUnchanged, ServeTypeOK
      <3>2. ThreadsTypeOK'
        BY <1>24 DEF CleanupClose, timerUnchanged, ThreadsTypeOK, ServeTypeOK
      <3>3. FlagsTypeOK'
        BY <1>24 DEF CleanupClose, timerUnchanged, FlagsTypeOK, OneCloser
      <3>4. ClosingTypeOK'
        <4>1. CASE closeTaken
          BY <1>24, <4>1 DEF CleanupClose, timerUnchanged, ClosingTypeOK
        <4>2. CASE ~closeTaken
          <5>1. closing' = closing \union {"cleanup"} /\ cleanup' = "closing" /\ pc' = pc
            BY <1>24, <4>2 DEF CleanupClose, timerUnchanged
          <5>2. closing \subseteq {"main", "cleanup"} /\ ("main" \in closing <=> pc = "closing")
            BY DEF ClosingTypeOK
          <5>3. QED
            BY <5>1, <5>2 DEF ClosingTypeOK
        <4>3. QED
          BY <4>1, <4>2
      <3>5. QED
        BY <3>1, <3>2, <3>3, <3>4 DEF TypeOK
    <2>2. OneCloser' /\ ClosedBeforeExit'
      BY <1>24 DEF CleanupClose, timerUnchanged, TypeOK, OneCloser, ClosedBeforeExit
    <2>3. HandsOff' /\ IdleIsWanted'
      BY <1>24 DEF CleanupClose, timerUnchanged, TypeOK, HandsOff, IdleIsWanted
    <2>4. QED
      BY <2>1, <2>2, <2>3
  <1>25. CASE CleanupClosed
    <2>1. TypeOK'
      <3>1. ServeTypeOK'
        BY <1>25 DEF CleanupClosed, timerUnchanged, ServeTypeOK
      <3>2. ThreadsTypeOK'
        BY <1>25 DEF CleanupClosed, timerUnchanged, ThreadsTypeOK, ServeTypeOK
      <3>3. FlagsTypeOK'
        BY <1>25 DEF CleanupClosed, timerUnchanged, FlagsTypeOK, OneCloser
      <3>4. ClosingTypeOK'
        BY <1>25 DEF CleanupClosed, timerUnchanged, ClosingTypeOK, OneCloser
      <3>5. QED
        BY <3>1, <3>2, <3>3, <3>4 DEF TypeOK
    <2>2. OneCloser' /\ ClosedBeforeExit'
      BY <1>25 DEF CleanupClosed, timerUnchanged, TypeOK, OneCloser, ClosedBeforeExit
    <2>3. HandsOff' /\ IdleIsWanted'
      BY <1>25 DEF CleanupClosed, timerUnchanged, TypeOK, HandsOff, IdleIsWanted
    <2>4. QED
      BY <2>1, <2>2, <2>3
  <1>26. CASE UNCHANGED vars
    BY <1>26 DEF vars, ServeTypeOK, ThreadsTypeOK, FlagsTypeOK, ClosingTypeOK, OneCloser,
                 ClosedBeforeExit, HandsOff, IdleIsWanted
  <1>27. QED
    BY <1>1, <1>2, <1>3, <1>4, <1>5, <1>6, <1>7, <1>8, <1>9, <1>10, <1>11, <1>12, <1>13,
       <1>14, <1>15, <1>16, <1>17, <1>18, <1>19, <1>20, <1>21, <1>22, <1>23, <1>24, <1>25, <1>26
    DEF Next, Entry, Main, Timer

-----------------------------------------------------------------------------

\* The inductive invariant holds throughout.
THEOREM Invariant == Spec => []IInv
  BY InitIInv, NextIInv, PTL DEF Spec

\* Type correctness; the threads inside the close are those at that step.
THEOREM TypeCorrect == Spec => []TypeOK
  <1>1. IInv => TypeOK
    BY DEF IInv
  <1>2. QED
    BY <1>1, Invariant, PTL

\* The store is never closed by two threads at once, nor atexit run twice.
THEOREM OneCleanup == Spec => []CleanupsRunOnce
  <1>1. IInv => CleanupsRunOnce
    <2> SUFFICES ASSUME IInv PROVE CleanupsRunOnce
      OBVIOUS
    <2>1. closing \subseteq {"main", "cleanup"} /\ ~("main" \in closing /\ "cleanup" \in closing)
      BY DEF IInv, TypeOK, ClosingTypeOK, OneCloser
    <2>2. Cardinality(closing) <= 1
      <3>1. CASE closing = {}
        BY <3>1, FS_EmptySet
      <3>2. ASSUME NEW th, closing = {th} PROVE Cardinality(closing) <= 1
        <4>1. Cardinality({th}) = 1
          BY FS_Singleton, Zenon
        <4>2. QED
          BY <3>2, <4>1
      <3>3. closing = {} \/ closing = {"main"} \/ closing = {"cleanup"}
        BY <2>1
      <3>4. QED
        BY <3>1, <3>2, <3>3
    <2>3. QED
      BY <2>2 DEF IInv, OneCloser, CleanupsRunOnce
  <1>2. QED
    BY <1>1, Invariant, PTL

\* os._exit comes after the close was tried, or after its second is spent.
THEOREM CloseComesFirst == Spec => []ExitFollowsClose
  <1>1. IInv => ExitFollowsClose
    BY DEF IInv, ClosedBeforeExit, ExitFollowsClose
  <1>2. QED
    BY <1>1, Invariant, PTL

\* Nothing in the module ends the process of an embedding caller.
THEOREM EmbeddedIsSafe == Spec => []EmbeddedSurvives
  <1>1. IInv => EmbeddedSurvives
    BY DEF IInv, HandsOff, EmbeddedSurvives
  <1>2. QED
    BY <1>1, Invariant, PTL

\* A quiet session whose client is watched is not reaped.
THEOREM QuietSessionsLive == Spec => []QuietSessionLives
  <1>1. IInv => QuietSessionLives
    BY DEF IInv, TypeOK, IdleIsWanted, QuietSessionLives
  <1>2. QED
    BY <1>1, Invariant, PTL
=============================================================================

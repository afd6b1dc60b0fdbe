--------------------------- MODULE ContextFollower ---------------------------
(***************************************************************************)
(* Which tab a WebDriver BiDi test drives, and the hooks that make the     *)
(* recording follow it: src/service/context-follower.ts and the hooks of   *)
(* worker-runtime.ts and worker-recording-coordinator.ts that put          *)
(* operations on the chain of RecordingControl.                            *)
(*                                                                         *)
(* A test and the pages it opens act on the browser: the test sends one    *)
(* command at a time, pages open and close tabs on their own.  A hook runs *)
(* up to its first await on the chain in one action.  With Stray, a test   *)
(* that has timed out may go on sending commands.                          *)
(***************************************************************************)
EXTENDS RecordingControl

CONSTANTS
    FirstTab,       \* the tab the session starts with
    MaxCommands,    \* bound: commands the tests send
    MaxReloads,     \* bound: sessions reloaded
    TreeFaults,     \* may browsingContextGetTree fail?
    Stray           \* may a command outlast its test?

ASSUME FirstTabAssumption == FirstTab \in Tabs
ASSUME BoundAssumption ==
    /\ MaxCommands \in Nat /\ MaxReloads \in Nat
    /\ TreeFaults \in BOOLEAN /\ Stray \in BOOLEAN

VARIABLES
    currentWindow,  \* ContextFollower.currentWindow
    introduced,     \* ContextFollower.introduced
    pendingSwitch,  \* ContextFollower.pendingSwitch
    known,          \* tabs in topLevelByContext
    command,        \* the command under way
    runner,         \* where WDIO's test runner stands
    issued,         \* commands sent
    reloads,        \* sessions reloaded
    seen,           \* tabs that were ever open
    held,           \* tabs a command result handed to the test
    missed          \* recordings in which the test drove an unfilmed tab

follower == <<currentWindow, introduced, pendingSwitch, known>>
test == <<command, runner, issued, reloads, held, missed>>
vars == <<controlVars, follower, test, seen>>

Callers == {"command", "runner"}
CommandKinds ==
    {"drive", "current", "switch", "close", "closeWindow", "handles", "create"}
Commands == [kind : CommandKinds, tab : Tabs \union {None},
             at : {"sent", "run", "answered", "settling"}, failed : BOOLEAN]
Switches == [tab : Tabs, wasIntroduced : BOOLEAN]

ASSUME CommandAssumption == None \notin Commands \union Switches

Runner == {"between", "beginning", "testing", "ending", "reloading",
           "leaving", "done"}

TypeOK ==
    /\ ControlTypeOK(Callers)
    /\ currentWindow \in Tabs \union {None}
    /\ pendingSwitch \in Switches \union {None}
    /\ command \in Commands \union {None}
    /\ runner \in Runner
    /\ open \union introduced \union known \union held \subseteq seen
    /\ seen \subseteq Tabs
    /\ wdioWindow \in open \union {None}

Init ==
    /\ ControlInit
    /\ open = {FirstTab} /\ wdioWindow = FirstTab
    /\ currentWindow = None /\ introduced = {} /\ known = {}
    /\ pendingSwitch = None
    /\ command = None /\ runner = "between"
    /\ issued = 0 /\ reloads = 0
    /\ seen = {FirstTab} /\ held = {} /\ missed = {}

----------------------------------------------------------------------------
(* beforeCommand.                                                          *)

Sent(kind) == command # None /\ command.at = "sent" /\ command.kind = kind
Proceed(at) == command' = [command EXCEPT !.at = at]

\* shouldSegmentWindowChanges, read before the operation is queued.
Ask(kind, tab, reason) ==
    IF slug = 0 THEN UNCHANGED queue
    ELSE Enqueue(kind, tab, reason, "command")

\* follow: a filmed tab needs nothing.
FollowTab(tab, reason) ==
    IF tab = window /\ capture # None THEN UNCHANGED queue
    ELSE Ask("follow", tab, reason)

\* What beforeCommand and afterCommand leave alone.
HookUnchanged ==
    UNCHANGED <<session, slot, life, gaps, op, steps, reports, browser,
                runner, issued, reloads, held, missed, seen>>

\* A tab is looked up in the cache; unknown, it has the tree read again, and
\* the read may fail.
LookUp(tab, read) ==
    IF tab \in known THEN read /\ UNCHANGED known
    ELSE IF read THEN known' = open
    ELSE TreeFaults /\ UNCHANGED known

IsAddressable(tab) ==
    tab \in introduced \union {currentWindow, window}

\* readCurrentWindow, as the window it yields.
CurrentWindow(remembered) ==
    IF remembered # None THEN remembered ELSE wdioWindow

BeforeCurrent ==
    /\ Sent("current")
    /\ Proceed("run")
    /\ LET current == CurrentWindow(currentWindow)
       IN  /\ currentWindow' = current
           /\ introduced' = introduced \union ({current} \ {None})
           /\ IF current = None THEN UNCHANGED queue
              ELSE FollowTab(current, "command")
    /\ UNCHANGED <<pendingSwitch, known>>
    /\ HookUnchanged

\* A command that names the tab it drives.
BeforeDrive ==
    /\ Sent("drive")
    /\ Proceed("run")
    /\ LET tab == command.tab IN
       \/ /\ ~IsAddressable(tab)
          /\ UNCHANGED <<known, queue>>
       \/ /\ IsAddressable(tab)
          /\ \E read \in BOOLEAN : LookUp(tab, read)
          /\ IF tab \in known' THEN FollowTab(tab, "command")
             ELSE UNCHANGED queue
    /\ UNCHANGED <<currentWindow, introduced, pendingSwitch>>
    /\ HookUnchanged

\* switchToWindow: a window the browser knows, or may know, is followed before
\* the browser accepts the switch.
BeforeSwitch ==
    /\ Sent("switch")
    /\ Proceed("run")
    /\ LET tab == command.tab IN
       \E read \in BOOLEAN :
          /\ LookUp(tab, read)
          /\ IF tab \in known' \/ ~read
             THEN /\ pendingSwitch' = [tab |-> tab,
                                       wasIntroduced |-> tab \in introduced]
                  /\ introduced' = introduced \union {tab}
                  /\ currentWindow' = tab
                  /\ FollowTab(tab, "switch-to-window")
             ELSE UNCHANGED <<pendingSwitch, introduced, currentWindow, queue>>
    /\ HookUnchanged

\* browsingContextClose ends the segment of the tab it closes first.
BeforeClose ==
    /\ Sent("close")
    /\ Proceed("run")
    /\ LET tab == command.tab IN
       \/ /\ ~IsAddressable(tab)
          /\ UNCHANGED <<known, queue>>
       \/ /\ IsAddressable(tab)
          /\ \E read \in BOOLEAN : LookUp(tab, read)
          /\ IF tab \in known' /\ tab = window
             THEN Ask("stop-closing", tab, "command")
             ELSE UNCHANGED queue
    /\ UNCHANGED <<currentWindow, introduced, pendingSwitch>>
    /\ HookUnchanged

\* Commands classifyCommand knows no context of.
BeforeOther ==
    /\ command # None /\ command.at = "sent"
    /\ command.kind \in {"closeWindow", "handles", "create"}
    /\ Proceed("run")
    /\ UNCHANGED <<follower, queue>>
    /\ HookUnchanged

----------------------------------------------------------------------------
(* The browser runs the command once its hook has returned.                *)

Running(kinds) ==
    /\ command # None /\ command.at = "run"
    /\ command.kind \in kinds
    /\ Settled("command")

Answer(failed) ==
    command' = [command EXCEPT !.at = "answered", !.failed = failed]

BrowserUnchanged ==
    UNCHANGED <<session, slot, life, gaps, chain, reports, follower, runner,
                issued, reloads>>

Drive ==
    /\ Running({"drive", "current"})
    /\ LET tab == IF command.kind = "drive" THEN command.tab ELSE wdioWindow
       IN  IF tab \in open
           THEN /\ Answer(FALSE)
                /\ missed' = IF slug # 0 /\ capture # tab
                             THEN missed \union {slug} ELSE missed
           ELSE Answer(TRUE) /\ UNCHANGED missed
    /\ UNCHANGED <<browser, seen, held>>
    /\ BrowserUnchanged

Switch ==
    /\ Running({"switch"})
    /\ IF command.tab \in open
       THEN Answer(FALSE) /\ wdioWindow' = command.tab
       ELSE Answer(TRUE) /\ UNCHANGED wdioWindow
    /\ UNCHANGED <<open, seen, held, missed>>
    /\ BrowserUnchanged

ClosesTab(tab) ==
    /\ open' = open \ {tab}
    /\ wdioWindow' = IF wdioWindow = tab THEN None ELSE wdioWindow

\* The page may refuse to be closed.
Close ==
    /\ Running({"close"})
    /\ \/ /\ command.tab \in open
          /\ Answer(FALSE)
          /\ ClosesTab(command.tab)
       \/ Answer(TRUE) /\ UNCHANGED browser
    /\ UNCHANGED <<seen, held, missed>>
    /\ BrowserUnchanged

CloseWindow ==
    /\ Running({"closeWindow"})
    /\ IF wdioWindow # None
       THEN Answer(FALSE) /\ ClosesTab(wdioWindow)
       ELSE Answer(TRUE) /\ UNCHANGED browser
    /\ UNCHANGED <<seen, held, missed>>
    /\ BrowserUnchanged

\* getWindowHandles and newWindow hand tabs to the test.
Hand ==
    /\ \/ /\ Running({"handles"})
          /\ held' = held \union open
          /\ UNCHANGED <<browser, seen>>
       \/ /\ Running({"create"})
          /\ \E tab \in Tabs \ seen :
                /\ open' = open \union {tab}
                /\ seen' = seen \union {tab}
                /\ held' = held \union {tab}
          /\ UNCHANGED wdioWindow
    /\ Answer(FALSE)
    /\ UNCHANGED missed
    /\ BrowserUnchanged

CannotHand ==
    /\ Running({"create"}) /\ Tabs = seen
    /\ Answer(TRUE)
    /\ UNCHANGED <<browser, seen, held, missed>>
    /\ BrowserUnchanged

----------------------------------------------------------------------------
(* afterCommand.                                                           *)

Answered(kinds) ==
    command # None /\ command.at = "answered" /\ command.kind \in kinds

AfterHand ==
    /\ Answered({"handles", "create"})
    /\ command' = None
    /\ introduced' = introduced \union held
    /\ UNCHANGED <<currentWindow, pendingSwitch, known, queue>>
    /\ HookUnchanged

AfterDrive ==
    /\ Answered({"drive", "current"})
    /\ command' = None
    /\ UNCHANGED <<follower, queue>>
    /\ HookUnchanged

\* recoverFailedSwitch: the recording returns to WDIO's current window.
RecoverFailedSwitch ==
    LET tab == pendingSwitch.tab
        remembered == IF currentWindow = tab THEN None ELSE currentWindow
        current == CurrentWindow(remembered)
        kept == IF pendingSwitch.wasIntroduced THEN introduced
                ELSE introduced \ {tab}
    IN  /\ known' = known \ {tab}
        /\ introduced' = kept \union
               IF remembered = None THEN {current} \ {None} ELSE {}
        /\ currentWindow' = current
        /\ IF current \in {None, tab} THEN UNCHANGED queue
           ELSE FollowTab(current, "switch-failed")

AfterSwitch ==
    /\ Answered({"switch"})
    /\ Proceed("settling")
    /\ pendingSwitch' = None
    /\ IF command.failed /\ pendingSwitch # None
       THEN RecoverFailedSwitch
       ELSE UNCHANGED <<known, introduced, currentWindow, queue>>
    /\ HookUnchanged

\* afterContextClose.
AfterClose ==
    /\ Answered({"close"})
    /\ Proceed("settling")
    /\ \/ /\ command.failed
          /\ Ask("recover-close", command.tab, "close-failed")
          /\ UNCHANGED currentWindow
       \/ /\ ~command.failed
          /\ currentWindow' = IF currentWindow = command.tab THEN None
                              ELSE currentWindow
          /\ Ask("resume", None, "tab-closed")
    /\ UNCHANGED <<introduced, pendingSwitch, known>>
    /\ HookUnchanged

AfterCloseWindow ==
    /\ Answered({"closeWindow"})
    /\ Proceed("settling")
    /\ currentWindow' = IF command.failed THEN currentWindow ELSE None
    /\ Ask("resume", None, "tab-closed")
    /\ UNCHANGED <<introduced, pendingSwitch, known>>
    /\ HookUnchanged

Returned ==
    /\ command # None /\ command.at = "settling"
    /\ Settled("command")
    /\ command' = None
    /\ UNCHANGED <<controlVars, follower, runner, issued, reloads, held,
                   missed, seen>>

----------------------------------------------------------------------------
(* The test, its pages and the test runner.                                *)

TestUnchanged == UNCHANGED <<session, slot, life, gaps, op, steps, reports>>

\* Which tab a command of each kind may name.
Nameable(kind) ==
    CASE kind \in {"drive", "close"} -> held
      [] kind = "switch" -> seen
      [] OTHER -> {None}

Send ==
    /\ command = None /\ issued < MaxCommands
    /\ runner \in {"between", "testing"} \union
                  IF Stray THEN {"ending"} ELSE {}
    /\ \E kind \in CommandKinds : \E tab \in Nameable(kind) :
          command' = [kind |-> kind, tab |-> tab, at |-> "sent",
                      failed |-> FALSE]
    /\ issued' = issued + 1
    /\ UNCHANGED <<controlVars, follower, runner, reloads, held, missed, seen>>

PageOpens ==
    /\ \E tab \in Tabs \ seen :
          open' = open \union {tab} /\ seen' = seen \union {tab}
    /\ UNCHANGED <<wdioWindow, queue, follower, test>>
    /\ TestUnchanged

PageCloses ==
    /\ \E tab \in open : ClosesTab(tab)
    /\ UNCHANGED <<queue, follower, test, seen>>
    /\ TestUnchanged

RunnerMoves(to) ==
    /\ runner' = to
    /\ UNCHANGED <<command, issued, missed>>
    /\ TestUnchanged

\* beforeTest: beginEntity.
BeginTest ==
    /\ runner = "between" /\ command = None /\ begun < MaxTests
    /\ Enqueue("begin", None, "start", "runner")
    /\ RunnerMoves("beginning")
    /\ UNCHANGED <<browser, follower, reloads, held, seen>>

\* afterTest: endEntity, which finds the recording active or does nothing.  A
\* test that has timed out may still wait for a command.
EndTest ==
    /\ runner = "testing" /\ (command = None \/ Stray)
    /\ IF slug = 0 THEN UNCHANGED queue
       ELSE Enqueue("end", None, "start", "runner")
    /\ RunnerMoves("ending")
    /\ UNCHANGED <<browser, follower, reloads, held, seen>>

\* The hook the runner waits for has returned.
HookReturns ==
    /\ Settled("runner")
    /\ \/ runner = "beginning" /\ RunnerMoves("testing")
       \/ runner = "ending" /\ RunnerMoves("between")
       \/ runner = "leaving" /\ RunnerMoves("done")
    /\ UNCHANGED <<queue, browser, follower, reloads, held, seen>>

\* onReload is called once the new session has replaced the old one.
Reload ==
    /\ runner = "testing" /\ command = None
    /\ reloads < MaxReloads
    /\ reloads' = reloads + 1
    /\ \E tab \in Tabs \ seen :
          /\ open' = {tab} /\ wdioWindow' = tab
          /\ seen' = seen \union {tab}
    /\ held' = {}
    /\ Enqueue("teardown", None, "start", "runner")
    /\ RunnerMoves("reloading")
    /\ UNCHANGED follower

\* _configureContextFollowing for the new session.
Reloaded ==
    /\ runner = "reloading" /\ Settled("runner")
    /\ currentWindow' = None /\ pendingSwitch' = None
    /\ introduced' = {} /\ known' = {}
    /\ RunnerMoves("testing")
    /\ UNCHANGED <<queue, browser, reloads, held, seen>>

\* after: the worker's last hook.
After ==
    /\ runner = "between" /\ command = None
    /\ Enqueue("teardown", None, "start", "runner")
    /\ RunnerMoves("leaving")
    /\ UNCHANGED <<browser, follower, reloads, held, seen>>

Finished == runner = "done" /\ UNCHANGED vars

ChainStep == Step /\ UNCHANGED <<follower, test, seen>>

CommandStep ==
    \/ BeforeCurrent \/ BeforeDrive \/ BeforeSwitch \/ BeforeClose
    \/ BeforeOther
    \/ Drive \/ Switch \/ Close \/ CloseWindow \/ Hand \/ CannotHand
    \/ AfterHand \/ AfterDrive \/ AfterSwitch \/ AfterClose
    \/ AfterCloseWindow \/ Returned

RunnerStep == HookReturns \/ Reloaded \/ EndTest

Next ==
    \/ ChainStep \/ CommandStep \/ RunnerStep
    \/ Send \/ PageOpens \/ PageCloses
    \/ BeginTest \/ Reload \/ After \/ Finished

Spec == Init /\ [][Next]_vars

\* Node settles every await of the chain (each has a timeout), the browser
\* answers every command, and the runner ends every test.
FairSpec ==
    /\ Spec
    /\ WF_vars(ChainStep) /\ WF_vars(CommandStep) /\ WF_vars(RunnerStep)

----------------------------------------------------------------------------
(* Properties.                                                             *)

\* A recording reported complete shows every action of its test: whenever the
\* test drove a tab, that tab was being filmed, and every segment stopped
\* cleanly.  (An operation that threw while it stopped a segment has rejected
\* its hook instead.)
CompletedIsComplete ==
    \A r \in Recordings : results[r] = "completed" =>
        r \notin (missed \union spoiled) \ broken

\* Every command's hooks return, so that no test waits for the service for ever.
HooksReturn == command # None ~> command = None
=============================================================================

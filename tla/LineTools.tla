----------------------------- MODULE LineTools ------------------------------
(***************************************************************************)
(* What a line of the log viewport offers, and what new errors set off:    *)
(* the context menu (ContextMenuComponent), the copy marker of             *)
(* LogViewportComponent, the badge that counts errors                      *)
(* (ErrorCountBadgeComponent) and the sound alerts (AudioService).  Three  *)
(* of them are switched off again by timers that nothing cancels.          *)
(***************************************************************************)
EXTENDS Integers

CONSTANTS
    ToolLines,          \* lines of the viewport
    Windows,            \* sizes of the window
    Points,             \* where the pointer may be
    MenuWidth, MenuHeight, Gap,     \* 220, 6 * 36 + 2 * 9, 10
    ErrorCounts,        \* numbers of errors in a pushed batch
    MaxTimers           \* bound on the timers of a kind under way

NoLine == "none"

ASSUME ToolsAssumption ==
    /\ NoLine \notin ToolLines
    /\ MenuWidth \in Nat /\ MenuHeight \in Nat /\ Gap \in Nat
    /\ \A w \in Windows : w.width \in Nat /\ w.height \in Nat
    /\ \A p \in Points : p.x \in Nat /\ p.y \in Nat
    /\ ErrorCounts \subseteq Nat /\ MaxTimers \in Nat \ {0}

VARIABLES
    window,
    hasClipboard,       \* navigator.clipboard exists
    menu,               \* the context menu: isVisible, log, position
    writing,            \* lines on their way to the clipboard
    copiedLogId,
    copiedTimers,       \* timers that will take the marker away
    errorCount, hasNewErrors,
    pulseTimers,        \* timers that will end the pulsing
    sound,              \* soundSettings: enabled, errorSound, warningSound
    testTimers,         \* test sounds that wait for half a second
    played,             \* the last sound: why, whether alerts were on then,
                        \* and, of a test, undone
    undone              \* history: switched off before the test sound

toolsVars == <<window, hasClipboard, menu, writing, copiedLogId, copiedTimers, errorCount,
               hasNewErrors, pulseTimers, sound, testTimers, played, undone>>
menuVars == <<window, menu>>
copyVars == <<hasClipboard, writing, copiedLogId, copiedTimers>>
badgeVars == <<errorCount, hasNewErrors, pulseTimers>>
soundVars == <<sound, testTimers, played, undone>>

ToolsInit ==
    /\ window \in Windows /\ hasClipboard \in BOOLEAN
    /\ menu = [visible |-> FALSE, line |-> NoLine, x |-> 0, y |-> 0]
    /\ writing = {} /\ copiedLogId = NoLine /\ copiedTimers = 0
    /\ errorCount = 0 /\ hasNewErrors = FALSE /\ pulseTimers = 0
    /\ sound = [enabled |-> FALSE, errorSound |-> TRUE, warningSound |-> FALSE]
    /\ testTimers = 0 /\ played = [why |-> "nothing", on |-> FALSE, undone |-> FALSE] /\ undone = FALSE

-----------------------------------------------------------------------------
(* The context menu.                                                       *)

\* At the pointer, or as far from it as the window demands.
Placed(x, y) ==
    [x |-> IF x + MenuWidth > window.width THEN window.width - MenuWidth - Gap ELSE x,
     y |-> IF y + MenuHeight > window.height THEN window.height - MenuHeight - Gap ELSE y]

Show(line, x, y) ==
    /\ x <= window.width /\ y <= window.height
    /\ menu' = [visible |-> TRUE, line |-> line, x |-> Placed(x, y).x, y |-> Placed(x, y).y]
    /\ UNCHANGED <<window, copyVars, badgeVars, soundVars>>

\* A click anywhere else.
Hide ==
    /\ menu.visible /\ menu' = [menu EXCEPT !.visible = FALSE]
    /\ UNCHANGED <<window, copyVars, badgeVars, soundVars>>

-----------------------------------------------------------------------------
(* copyLog.  Without a clipboard the line is selected and copied by the    *)
(* document, whose answer is not looked at.                                *)

\* Variant: the marker of the old way stays.
MarkedAtOnce_NoTimer(line) == copiedLogId' = line /\ UNCHANGED copiedTimers

MarkedAtOnce(line) ==
    /\ copiedTimers < MaxTimers
    /\ copiedLogId' = line /\ copiedTimers' = copiedTimers + 1

CopyLog(line) ==
    IF hasClipboard
      THEN /\ writing' = writing \cup {line}
           /\ UNCHANGED <<copiedLogId, copiedTimers>>
      ELSE MarkedAtOnce(line) /\ UNCHANGED writing

\* From the menu, which closes.
OnContextMenuCopy ==
    /\ menu.visible /\ menu' = [menu EXCEPT !.visible = FALSE]
    /\ CopyLog(menu.line)
    /\ UNCHANGED <<window, hasClipboard, badgeVars, soundVars>>

CopyWritten(line) ==
    /\ line \in writing /\ writing' = writing \ {line}
    /\ MarkedAtOnce(line)
    /\ UNCHANGED <<hasClipboard, menuVars, badgeVars, soundVars>>

CopyFails(line) ==
    /\ line \in writing /\ writing' = writing \ {line}
    /\ UNCHANGED <<hasClipboard, copiedLogId, copiedTimers, menuVars, badgeVars, soundVars>>

\* Whichever line is marked by then.
CopiedTimer ==
    /\ copiedTimers > 0 /\ copiedTimers' = copiedTimers - 1
    /\ copiedLogId' = NoLine
    /\ UNCHANGED <<hasClipboard, writing, menuVars, badgeVars, soundVars>>

-----------------------------------------------------------------------------
(* A pushed batch: the badge counts its errors, and those of the viewport  *)
(* may be heard.                                                           *)

\* More errors than in the last batch make it pulse.
UpdateErrorCount(n) ==
    /\ errorCount' = n
    /\ hasNewErrors' = (hasNewErrors \/ n > errorCount)
    /\ pulseTimers' = IF n > errorCount THEN pulseTimers + 1 ELSE pulseTimers

PlayAlert(errors, warnings) ==
    IF sound.enabled /\ ((errors /\ sound.errorSound) \/ (warnings /\ sound.warningSound))
      THEN played' = [why |-> "alert", on |-> sound.enabled, undone |-> FALSE] ELSE UNCHANGED played

LogsPushed(errors, warnings, live) ==
    /\ pulseTimers < MaxTimers
    /\ UpdateErrorCount(errors)
    /\ IF live THEN PlayAlert(errors > 0, warnings) ELSE UNCHANGED played
    /\ UNCHANGED <<menuVars, copyVars, sound, testTimers, undone>>

PulseTimer ==
    /\ pulseTimers > 0 /\ pulseTimers' = pulseTimers - 1
    /\ hasNewErrors' = FALSE
    /\ UNCHANGED <<errorCount, menuVars, copyVars, soundVars>>

-----------------------------------------------------------------------------
(* The settings of the alerts.                                             *)

UpdateSettings(changes) == sound' = changes

\* Switching them on is confirmed by a test sound, half a second later.
ToggleSoundAlerts ==
    /\ testTimers < MaxTimers
    /\ UpdateSettings([sound EXCEPT !.enabled = ~@])
    /\ testTimers' = IF sound.enabled THEN testTimers ELSE testTimers + 1
    /\ undone' = (undone \/ (sound.enabled /\ testTimers > 0))
    /\ UNCHANGED <<played, menuVars, copyVars, badgeVars>>

PlayTestSound ==
    /\ testTimers > 0 /\ testTimers' = testTimers - 1
    /\ played' = [why |-> "test", on |-> sound.enabled, undone |-> undone]
    /\ undone' = (undone /\ testTimers > 1)
    /\ UNCHANGED <<sound, menuVars, copyVars, badgeVars>>

ToolsNext ==
    \/ \E line \in ToolLines, p \in Points : Show(line, p.x, p.y)
    \/ Hide \/ OnContextMenuCopy
    \/ \E line \in ToolLines : CopyWritten(line) \/ CopyFails(line)
    \/ CopiedTimer \/ PulseTimer \/ ToggleSoundAlerts \/ PlayTestSound
    \/ \E n \in ErrorCounts, warnings, live \in BOOLEAN : LogsPushed(n, warnings, live)

ToolsSpec == ToolsInit /\ [][ToolsNext]_toolsVars

-----------------------------------------------------------------------------
ToolsTypeOK ==
    /\ window \in Windows /\ hasClipboard \in BOOLEAN
    /\ menu \in [visible : BOOLEAN, line : ToolLines \cup {NoLine}, x : Int, y : Int]
    /\ writing \subseteq ToolLines /\ copiedLogId \in ToolLines \cup {NoLine}
    /\ copiedTimers \in 0..MaxTimers /\ pulseTimers \in 0..MaxTimers
    /\ testTimers \in 0..MaxTimers
    /\ errorCount \in ErrorCounts \cup {0} /\ hasNewErrors \in BOOLEAN
    /\ sound \in [enabled : BOOLEAN, errorSound : BOOLEAN, warningSound : BOOLEAN]
    /\ played \in [why : {"nothing", "alert", "test"}, on : BOOLEAN,
                  undone : BOOLEAN]
    /\ undone \in BOOLEAN

\* The menu is inside the window, as far as the window has room for it.
MenuFits ==
    /\ window.width >= MenuWidth + Gap => menu.x \in 0..window.width
    /\ window.height >= MenuHeight + Gap => menu.y \in 0..window.height
    /\ menu.visible =>
        /\ menu.line # NoLine
        /\ window.width >= MenuWidth + Gap => menu.x + MenuWidth <= window.width
        /\ window.height >= MenuHeight + Gap => menu.y + MenuHeight <= window.height

\* A copy marker and a pulse never stay: the timer that ends them is under way,
\* however many were started before.
MarksEnd ==
    /\ copiedLogId # NoLine => copiedTimers > 0
    /\ hasNewErrors => pulseTimers > 0

\* Nothing is heard while the alerts are off, except a test sound that was asked
\* for before they were switched off again.
SilentWhenOff == played.why # "nothing" => played.on \/ played.undone

\* What the menu, the timers and the alerts promise of each other.
ToolsPromise ==
    /\ MenuFits
    /\ MarksEnd
    /\ SilentWhenOff
=============================================================================

--------------------------- MODULE SecureClipboard ---------------------------
(***************************************************************************)
(* The clipboard of the PurrivacyApp mobile app                            *)
(* (src/apps/mobile/src/shared: clipboard/secureClipboardController.ts,    *)
(* clipboard/clipboardSensitivity.ts, hooks/useSecureCopy.ts).             *)
(*                                                                         *)
(* Every screen has a controller of its own, with the value it copied last *)
(* and a timer that wipes it.  The clipboard is one, the user and other    *)
(* screens copy over it, and timers stand still in the background.  On     *)
(* Android the calls to the clipboard are done at once, elsewhere they are *)
(* awaited.                                                                *)
(***************************************************************************)
EXTENDS Naturals

CONSTANTS
    Screen,     \* instances of useSecureCopy
    Text,       \* what is copied
    NoText,     \* model value: nothing
    LastSecond, \* bound: time ends here
    MaxCopies   \* bound: copies of a behaviour

ASSUME ClipboardAssumption == {LastSecond, MaxCopies} \subseteq Nat /\ NoText \notin Text

VARIABLES
    native,     \* the native module is there
    clip,       \* what is on the clipboard, and whose copy it is
    controller, \* copiedValue, expectedClearTime and the timer of every controller
    copying,    \* secureCopy under way: [text, ttl] of every screen
    wiping,     \* wipeClipboard under way
    now, foreground, copies,
    woken,      \* controllers whose time was over when the app came to the foreground
    due         \* history: when what an app screen put on the clipboard has to be gone

clipVars == <<native, clip, controller, copying, wiping, now, foreground, copies, woken, due>>

\* CLIPBOARD_SENSITIVITY_TTL_MS.
Ttl == {1, 2}
Never == LastSecond + 3
Nowhere == [value |-> NoText, clearAt |-> Never, timer |-> Never]
NoCopy == [text |-> NoText, ttl |-> 0]
Someone == "user"

ClipInit ==
    /\ native \in BOOLEAN
    /\ clip = [text |-> NoText, by |-> Someone]
    /\ controller = [s \in Screen |-> Nowhere]
    /\ copying = [s \in Screen |-> NoCopy]
    /\ wiping = [s \in Screen |-> "none"]
    /\ now = 0 /\ foreground = TRUE /\ copies = 0
    /\ woken = {} /\ due = Never

-----------------------------------------------------------------------------
(* secureCopy.                                                             *)

\* A screen that is gone, but for the timer of what it copied.
Released(s) == controller[s].value # NoText /\ controller[s].clearAt = Never

\* The timer of the screen's last copy goes first.
BeginCopy(s, text, ttl) ==
    /\ ~Released(s) /\ s \notin woken
    /\ copying[s] = NoCopy /\ foreground /\ copies < MaxCopies
    /\ copies' = copies + 1
    /\ controller' = [controller EXCEPT ![s].timer = Never]
    /\ copying' = [copying EXCEPT ![s] = [text |-> text, ttl |-> ttl]]
    /\ UNCHANGED <<native, clip, wiping, now, foreground, woken, due>>

\* Mutant: no timer starts; the return to the foreground would have to do.
CopiedUntimed(s) ==
    LET c == copying[s] IN
    /\ c # NoCopy
    /\ clip' = [text |-> c.text, by |-> s]
    /\ controller' = [controller EXCEPT ![s].value = c.text, ![s].clearAt = now + c.ttl]
    /\ copying' = [copying EXCEPT ![s] = NoCopy]
    /\ due' = now + c.ttl
    /\ UNCHANGED <<native, wiping, now, foreground, copies, woken>>

\* The text is on the clipboard; the new timer starts.
Copied(s) ==
    LET c == copying[s] IN
    /\ c # NoCopy
    /\ clip' = [text |-> c.text, by |-> s]
    /\ controller' = [controller EXCEPT ![s] = [value |-> c.text, clearAt |-> now + c.ttl, timer |-> now + c.ttl]]
    /\ copying' = [copying EXCEPT ![s] = NoCopy]
    /\ due' = now + c.ttl
    /\ UNCHANGED <<native, wiping, now, foreground, copies, woken>>

\* setStringAsync is refused: nothing is copied and nothing set.
CopyFails(s) ==
    /\ copying[s] # NoCopy /\ ~native
    /\ copying' = [copying EXCEPT ![s] = NoCopy]
    /\ UNCHANGED <<native, clip, controller, wiping, now, foreground, copies, woken, due>>

-----------------------------------------------------------------------------
(* wipeClipboard.                                                          *)

Matches(s) == clip.text = controller[s].value

Cleared(s) ==
    /\ clip' = [text |-> NoText, by |-> Someone]
    /\ due' = Never

\* The timer of a copy, or the return to the foreground after its time.
WipeDue(s) ==
    foreground /\ wiping[s] = "none" /\ (controller[s].timer <= now \/ s \in woken)

\* clearClipboardIfMatches.
WipeAtOnce(s) ==
    /\ native /\ WipeDue(s)
    /\ IF Matches(s) THEN Cleared(s) ELSE UNCHANGED <<clip, due>>
    /\ controller' = [controller EXCEPT ![s] = Nowhere]
    /\ woken' = woken \ {s}
    /\ UNCHANGED <<native, copying, wiping, now, foreground, copies>>

\* Elsewhere the text is asked for, compared and replaced, with an await in between each.
BeginWipe(s) ==
    /\ ~native /\ WipeDue(s)
    /\ wiping' = [wiping EXCEPT ![s] = IF controller[s].value = NoText THEN "finish"
                                       ELSE IF Matches(s) THEN "clear" ELSE "finish"]
    /\ controller' = [controller EXCEPT ![s].timer = Never]
    /\ woken' = woken \ {s}
    /\ UNCHANGED <<native, clip, copying, now, foreground, copies, due>>

WipeClears(s) ==
    /\ wiping[s] = "clear"
    /\ wiping' = [wiping EXCEPT ![s] = "finish"]
    /\ Cleared(s)
    /\ UNCHANGED <<native, controller, copying, now, foreground, copies, woken>>

WipeFinishes(s) ==
    /\ wiping[s] = "finish"
    /\ wiping' = [wiping EXCEPT ![s] = "none"]
    /\ controller' = [controller EXCEPT ![s] = Nowhere]
    /\ UNCHANGED <<native, clip, copying, now, foreground, copies, woken, due>>

-----------------------------------------------------------------------------
\* The user copies in a text field or in another app, perhaps the same text.
UserCopies(text) ==
    /\ copies < MaxCopies /\ copies' = copies + 1
    /\ clip' = [text |-> text, by |-> Someone]
    /\ due' = Never
    /\ UNCHANGED <<native, controller, copying, wiping, now, foreground, woken>>

Background ==
    /\ foreground /\ foreground' = FALSE
    /\ woken = {}
    /\ UNCHANGED <<native, clip, controller, copying, wiping, now, copies, woken, due>>

\* onAppStateChange.
Foreground ==
    /\ ~foreground /\ foreground' = TRUE
    /\ woken' = {s \in Screen : controller[s].clearAt <= now}
    /\ UNCHANGED <<native, clip, controller, copying, wiping, now, copies, due>>

\* The screen goes; its timer stays, the listener of the app's state does not.
LeaveScreen(s) ==
    /\ controller[s].clearAt # Never /\ copying[s] = NoCopy /\ wiping[s] = "none"
    /\ controller' = [controller EXCEPT ![s].clearAt = Never]
    /\ woken' = woken \ {s}
    /\ UNCHANGED <<native, clip, copying, wiping, now, foreground, copies, due>>

\* In the foreground a timer fires, and a call of Android returns, before time goes on.
Busy(s) ==
    \/ native /\ copying[s] # NoCopy
    \/ WipeDue(s)

Tick ==
    /\ now < LastSecond /\ now' = now + 1
    /\ ~\E s \in Screen : Busy(s)
    /\ UNCHANGED <<native, clip, controller, copying, wiping, foreground, copies, woken, due>>

ClipNext ==
    \/ \E s \in Screen :
          \/ \E text \in Text, ttl \in Ttl : BeginCopy(s, text, ttl)
          \/ Copied(s) \/ CopyFails(s) \/ WipeAtOnce(s) \/ BeginWipe(s) \/ WipeClears(s) \/ WipeFinishes(s)
          \/ LeaveScreen(s)
    \/ \E text \in Text : UserCopies(text)
    \/ Background \/ Foreground \/ Tick

ClipSpec == ClipInit /\ [][ClipNext]_clipVars

-----------------------------------------------------------------------------
ClipTypeOK ==
    /\ clip.text \in Text \cup {NoText}
    /\ now \in 0..LastSecond /\ due \in 0..Never
    /\ \A s \in Screen : wiping[s] \in {"none", "clear", "finish"}

\* clipboardSensitivity.ts:4 - "The TTL is the maximum lifetime of a copied value": on
\* Android, what a screen copied last is gone by its time, as soon as the app is in the
\* foreground and its timers have fired - whatever other screens copied or wiped meanwhile,
\* and also when the screen is gone.
CopiesAreWiped ==
    native /\ foreground /\ (\A s \in Screen : ~Busy(s)) => due > now
=============================================================================

---------------------------- MODULE ModalPrompts ----------------------------
(***************************************************************************)
(* The prompts of the PurrivacyApp mobile app                              *)
(* (src/apps/mobile/src: app/state/ModalContext.tsx,                       *)
(* features/mfa/domain/mfaUtils.ts, features/mfa/hooks).                   *)
(*                                                                         *)
(* One provider shows the prompt for an MFA code, the new recovery codes   *)
(* and the question whether passphrases may be stored, one at a time: a    *)
(* prompt that is asked for takes the place of the one on the screen,      *)
(* whose caller goes on waiting.  Answers of the server speak to it by     *)
(* events that name no prompt, from any request there is.                  *)
(***************************************************************************)

VARIABLES
    screen,   \* modalStateRef, and who waits: the resolver refs and the close timer
    busy,     \* the MFA prompt shows its spinner and takes no input
    flow,     \* executeMfaFlow; isInMfaHandler unless "rest"
    asker,   \* what the caller of the last sensitive flow does next
    handoff,  \* the session of a login is ready, and the app loads
    checking, \* usePassphraseStorageConsent reads the settings
    late      \* the kinds of flow that gave up on an answer still under way

modalVars == <<screen, busy, flow, asker, handoff, checking, late>>

Flows == {"login", "sensitive"}
\* What follows a sensitive request: nothing, the codes it returned are shown,
\* or another sensitive request (revokeAllSessions after a change of the password).
Sequels == {"nothing", "codes", "more"}

NoFlow == [pc |-> "rest", kind |-> "login", own |-> FALSE, sequel |-> "nothing", attempt |-> 1]
Blank == [shown |-> "none", kind |-> "login", asked |-> FALSE, codes |-> FALSE,
          consent |-> FALSE, closing |-> FALSE]

ModalInit ==
    /\ screen = Blank /\ busy = FALSE /\ flow = NoFlow
    /\ asker = "nothing" /\ handoff = "no" /\ checking = FALSE /\ late = {}

-----------------------------------------------------------------------------
(* The provider.                                                           *)

\* Mutant: only the callers of the other two prompts are told.
HiddenSilently(s) == [Blank EXCEPT !.asked = s.asked]

\* hideModal tells everyone who waits, whatever was on the screen.
Hidden(s) == Blank

WithMfa(s, kind) == [s EXCEPT !.shown = "mfa", !.kind = kind, !.asked = TRUE]
WithCodes(s)     == [s EXCEPT !.shown = "codes", !.codes = TRUE]
WithConsent(s)   == [s EXCEPT !.shown = "consent", !.consent = TRUE]

\* The event closeMfaModal.
Closed(s, force, delayed) ==
    IF s.shown # "mfa" THEN [s EXCEPT !.closing = FALSE]
    ELSE IF s.kind = "login" /\ ~force /\ ~delayed THEN s
    ELSE IF delayed THEN [s EXCEPT !.closing = TRUE]
    ELSE Hidden(s)

\* A flow whose prompt was resolved without a code ends as cancelled.
Shows(s) ==
    /\ screen' = s
    /\ busy' = (busy /\ s.shown = "mfa" /\ screen.shown = "mfa")
    /\ IF flow.pc = "waits" /\ ~s.asked
         THEN flow' = NoFlow
         ELSE UNCHANGED flow

UserBack ==
    /\ screen.shown \in {"mfa", "consent"}
    /\ Shows(Hidden(screen))
    /\ UNCHANGED <<asker, handoff, checking, late>>

\* The button works once the codes were copied.
CodesAcknowledged ==
    /\ screen.shown = "codes"
    /\ Shows(Hidden(screen))
    /\ UNCHANGED <<asker, handoff, checking, late>>

ConsentAnswered ==
    /\ screen.shown = "consent"
    /\ Shows(Hidden(screen))
    /\ UNCHANGED <<asker, handoff, checking, late>>

TimerFires ==
    /\ screen.closing
    /\ Shows(Hidden(screen))
    /\ UNCHANGED <<asker, handoff, checking, late>>

-----------------------------------------------------------------------------
(* The flow for an MFA code.                                               *)

Prompted(s, f) ==
    /\ screen' = WithMfa(s, f.kind)
    /\ flow' = [f EXCEPT !.pc = "waits"]
    /\ busy' = (busy /\ s.shown = "mfa")

\* A screen begins a sensitive request, when no prompt covers it; any request may
\* find that it needs a login, which is the app's own when it enters the app.
BeginFlow(kind, own, sequel) ==
    /\ flow.pc = "rest"
    /\ kind = "sensitive" => screen.shown = "none" /\ asker = "nothing" /\ ~own
    /\ kind = "login" => sequel = "nothing"
    /\ own => handoff = "no"
    /\ Prompted(screen, [NoFlow EXCEPT !.kind = kind, !.own = own, !.sequel = sequel])
    /\ UNCHANGED <<asker, handoff, checking, late>>

UserSubmits ==
    /\ screen.shown = "mfa" /\ ~busy /\ flow.pc = "waits"
    /\ screen' = [screen EXCEPT !.asked = FALSE]
    /\ busy' = TRUE
    /\ flow' = [flow EXCEPT !.pc = "sends"]
    /\ UNCHANGED <<asker, handoff, checking, late>>

\* What processResponse tells the provider of an answer that is well.
Heard(s, kind, codes) ==
    LET closed == IF kind = "login" THEN s ELSE Closed(s, FALSE, FALSE)
    IN  IF codes THEN WithCodes(closed) ELSE closed

\* The code was right; the answer may hold new recovery codes.
Accepted(codes) ==
    /\ flow.pc = "sends"
    /\ LET s == Heard(screen, flow.kind, codes)
       IN  screen' = IF flow.kind = "login" THEN s ELSE Closed(s, FALSE, FALSE)
    /\ busy' = (busy /\ screen'.shown = "mfa")
    /\ flow' = NoFlow
    /\ handoff' = IF flow.own THEN "due" ELSE handoff
    /\ asker' = IF flow.kind = "sensitive" THEN flow.sequel ELSE asker
    /\ UNCHANGED <<checking, late>>

\* A wrong code, or one of the wrong shape: the input is cleared, and asked for anew.
WrongCode ==
    /\ flow.pc = "sends"
    /\ screen' = WithMfa(screen, flow.kind)
    /\ busy' = FALSE
    /\ flow' = [flow EXCEPT !.pc = "waits", !.attempt = 1]
    /\ UNCHANGED <<asker, handoff, checking, late>>

\* A timeout, or a switch of MFA that can be finished: the code is sent once more.
Resubmits(timedOut) ==
    /\ flow.pc = "sends" /\ flow.attempt = 1
    /\ flow' = [flow EXCEPT !.attempt = 2]
    /\ late' = IF timedOut THEN late \cup {flow.kind} ELSE late
    /\ UNCHANGED <<screen, busy, asker, handoff, checking>>

GivesUp(timedOut) ==
    /\ flow.pc = "sends" /\ (timedOut => flow.attempt = 2)
    /\ screen' = Closed(screen, TRUE, FALSE)
    /\ busy' = (busy /\ screen'.shown = "mfa")
    /\ flow' = NoFlow
    /\ late' = IF timedOut THEN late \cup {flow.kind} ELSE late
    /\ UNCHANGED <<asker, handoff, checking>>

LateAnswer(kind, codes) ==
    /\ kind \in late
    /\ late' = late \ {kind}
    /\ Shows(Heard(screen, kind, codes))
    /\ UNCHANGED <<asker, handoff, checking>>

\* Any other request is answered, a load after a notification for instance.
OtherAnswer ==
    /\ Shows(Closed(screen, FALSE, FALSE))
    /\ UNCHANGED <<asker, handoff, checking, late>>

-----------------------------------------------------------------------------
(* Those who wait for the flow.                                            *)

\* enableMfa and regenerateRecoveryCodes show the codes.
CallerShowsCodes ==
    /\ asker = "codes"
    /\ Shows(WithCodes(screen))
    /\ asker' = "nothing"
    /\ UNCHANGED <<handoff, checking, late>>

\* The second request is refused at once while another flow runs.
CallerGoesOn ==
    /\ asker = "more"
    /\ IF flow.pc = "rest"
         THEN Prompted(screen, [NoFlow EXCEPT !.kind = "sensitive"])
         ELSE UNCHANGED <<screen, busy, flow>>
    /\ asker' = "nothing"
    /\ UNCHANGED <<handoff, checking, late>>

\* sessionAuthenticated: the prompt goes 75 ms later, while the app loads.
Handoff ==
    /\ handoff = "due"
    /\ handoff' = "loads"
    /\ Shows(Closed(screen, FALSE, TRUE))
    /\ UNCHANGED <<asker, checking, late>>

HandoffEnds(loaded) ==
    /\ handoff = "loads"
    /\ handoff' = "no"
    /\ Shows(IF loaded THEN screen ELSE Closed(screen, TRUE, FALSE))
    /\ UNCHANGED <<asker, checking, late>>

\* A key screen needs to know whether to store a passphrase.
CheckConsent ==
    /\ ~checking /\ ~screen.consent /\ screen.shown = "none"
    /\ checking' = TRUE
    /\ UNCHANGED <<screen, busy, flow, asker, handoff, late>>

AskConsent(asks) ==
    /\ checking
    /\ checking' = FALSE
    /\ Shows(IF asks THEN WithConsent(screen) ELSE screen)
    /\ UNCHANGED <<asker, handoff, late>>

ModalNext ==
    \/ UserBack \/ CodesAcknowledged \/ ConsentAnswered \/ TimerFires
    \/ \E kind \in Flows, own \in BOOLEAN, sequel \in Sequels : BeginFlow(kind, own, sequel)
    \/ UserSubmits \/ WrongCode
    \/ \E b \in BOOLEAN : Accepted(b) \/ Resubmits(b) \/ GivesUp(b) \/ HandoffEnds(b) \/ AskConsent(b)
    \/ \E kind \in late, codes \in BOOLEAN : LateAnswer(kind, codes)
    \/ OtherAnswer \/ CallerShowsCodes \/ CallerGoesOn \/ Handoff \/ CheckConsent

ModalSpec == ModalInit /\ [][ModalNext]_modalVars

-----------------------------------------------------------------------------
ModalTypeOK ==
    /\ screen \in [shown : {"none", "mfa", "codes", "consent"}, kind : Flows, asked : BOOLEAN,
                   codes : BOOLEAN, consent : BOOLEAN, closing : BOOLEAN]
    /\ flow \in [pc : {"rest", "waits", "sends"}, kind : Flows, own : BOOLEAN,
                 sequel : Sequels, attempt : {1, 2}]
    /\ busy \in BOOLEAN /\ checking \in BOOLEAN /\ late \subseteq Flows
    /\ asker \in Sequels /\ handoff \in {"no", "due", "loads"}

\* ModalContext.tsx:65, 157-188 - whatever prompts displace one another, and whatever
\* events close them: a flow that waits for a code can still be told, and nobody waits
\* for a prompt while the screen is free.
WaitersAreHeld ==
    /\ flow.pc = "waits" => screen.asked
    /\ screen.asked \/ screen.codes \/ screen.consent => screen.shown # "none"

\* RecoveryCodesModal.tsx:67 - "You must copy the recovery codes before closing": new
\* recovery codes stay on the screen until the user has copied them.
CodesStayUntilCopied ==
    [][screen.shown = "codes" /\ screen'.shown # "codes" => CodesAcknowledged]_modalVars
=============================================================================

------------------------------- MODULE MfaCodes -------------------------------
(***************************************************************************)
(* The MFA material of one account (src/apps/server/src/features/mfa): the *)
(* nonces that prove a fresh login, the setup document, and the secret and *)
(* recovery codes of the security document, with the requests that mint,   *)
(* set up, enable, present, regenerate and disable them running beside     *)
(* each other.  A Firestore transaction or batch is one step, any other    *)
(* read or write a step of its own.                                        *)
(*                                                                         *)
(* Secrets and batches of recovery codes are numbered in the order they    *)
(* are generated; the sessions such a request creates and revokes are the  *)
(* matter of MfaTransitions.                                               *)
(***************************************************************************)
EXTENDS Naturals, FiniteSets

CONSTANTS
    SessionFamily, \* session families, all created on the first day
    Ask,         \* requests that may be in progress at once
    Absent,      \* no document, no value
    CodeCount,   \* RECOVERY_CODE_COUNT
    Threshold,   \* AUTO_REGENERATE_THRESHOLD
    NonceLife,   \* MFA_SETUP_NONCE_TTL_MS, in ticks
    FreshLife,    \* MFA_SETUP_EXPIRY_MINUTES and FRESH_SESSION_WINDOW_MS, in ticks
    LastDay,     \* bound: ticks in one behaviour
    MaxBatch,    \* bound: secrets and batches generated
    MaxNonce     \* bound: nonces minted

ASSUME CodesAssumption ==
    /\ {CodeCount, Threshold, NonceLife, FreshLife, LastDay, MaxBatch, MaxNonce} \subseteq Nat
    /\ Threshold < CodeCount
    /\ Absent \notin Nat

VARIABLES
    day,       \* the time
    mfaOn,     \* users/{uid}.mfaEnabled
    secret,    \* security/mfa: the TOTP secret; Absent: no document
    codes,     \* security/mfa: the recovery codes left
    setupDoc,  \* mfaSetups/{uid}
    nonces,    \* mfaSetupNonces: the documents
    batch,     \* batches generated so far
    drawn,     \* nonces generated so far
    ask,       \* the local variables of every request
    spent,     \* history: the recovery codes that were accepted
    enabled,   \* history: the setups MFA was enabled with
    again      \* history: one of them enabled it twice

security == <<mfaOn, secret, codes>>
past     == <<spent, enabled, again>>
stores   == <<day, security, setupDoc, nonces>>
codeVars == <<stores, batch, drawn, ask, past>>

Batch(b) == {b} \X (1..CodeCount)

NoAsk == [pc |-> "idle", op |-> "none", login |-> Absent, proof |-> Absent, read |-> Absent]

Sensitive == {"trust", "regenerate", "disable"}

CodesInit ==
    /\ day = 0
    /\ mfaOn = FALSE /\ secret = Absent /\ codes = {}
    /\ setupDoc = Absent /\ nonces = {}
    /\ batch = 0 /\ drawn = 0
    /\ ask = [a \in Ask |-> NoAsk]
    /\ spent = {} /\ enabled = {} /\ again = FALSE

Continue(a, pc) == ask' = [ask EXCEPT ![a].pc = pc]
Finish(a) == ask' = [ask EXCEPT ![a] = NoAsk]

-----------------------------------------------------------------------------
(* The world around: time, the cleanup job, and requests that arrive.      *)

DayPasses ==
    /\ day < LastDay
    /\ day' = day + 1
    /\ UNCHANGED <<security, setupDoc, nonces, batch, drawn, ask, past>>

CleanExpired ==
    /\ setupDoc' = IF setupDoc # Absent /\ setupDoc.until < day THEN Absent ELSE setupDoc
    /\ nonces' = {n \in nonces : n.until >= day}
    /\ <<setupDoc, nonces>>' # <<setupDoc, nonces>>
    /\ UNCHANGED <<day, security, batch, drawn, ask, past>>

\* Where a verified request goes on.
Verified(op) ==
    CASE op = "mint" -> "store" [] op = "regenerate" -> "reread" [] OTHER -> op

Accept(a) == ask' = [ask EXCEPT ![a] = [NoAsk EXCEPT !.pc = Verified(ask[a].op),
                                                    !.login = ask[a].login]]

\* A request authenticates; the sensitive ones ask for a code if MFA is on now.
Present(a, op, login, proof) ==
    /\ ask[a].pc = "idle"
    /\ ask' = [ask EXCEPT ![a] =
          IF op \in Sensitive /\ ~mfaOn THEN [NoAsk EXCEPT !.pc = Verified(op)]
          ELSE [pc |-> IF op \in Sensitive THEN "verify" ELSE op,
                op |-> op, login |-> login, proof |-> proof, read |-> Absent]]
    /\ UNCHANGED <<stores, batch, drawn, past>>

\* A TOTP code of a secret, written like the codes of its batch; a nonce likewise.
Totp(b) == <<b, 0>>

\* What a client may present: nothing, or any code, secret or nonce it was ever given.
Proofs(op) ==
    CASE op = "setup"  -> {Totp(n) : n \in 1..drawn}
      [] op = "enable" -> {Totp(b) : b \in 1..batch}
      [] OTHER         -> (1..batch) \X (0..CodeCount) \cup {Absent}

-----------------------------------------------------------------------------
(* Presenting a code.                                                      *)

IsRecovery(proof) == proof[2] # 0

VerifyRead(a) ==
    /\ ask[a].pc = "verify"
    /\ IF mfaOn /\ ask[a].proof # Absent
       THEN Continue(a, IF IsRecovery(ask[a].proof) THEN "consume" ELSE "totp")
       ELSE Finish(a)
    /\ UNCHANGED <<stores, batch, drawn, past>>

\* The codes that stay when one is used: none but a new batch when few are left.
\* Mutant: the code that was used stays.
LeftAsBefore(code) ==
    IF Cardinality(codes) <= Threshold THEN Batch(batch + 1) ELSE codes
Left(code) ==
    IF Cardinality(codes \ {code}) <= Threshold THEN Batch(batch + 1) ELSE codes \ {code}

ConsumeCode(a) ==
    LET code == ask[a].proof IN
    /\ ask[a].pc = "consume"
    /\ IF code \notin codes
       THEN Finish(a) /\ UNCHANGED <<codes, batch, spent>>
       ELSE /\ codes' = Left(code) /\ spent' = spent \cup {code}
            /\ batch' = IF codes' = codes \ {code} THEN batch ELSE batch + 1
            /\ batch' <= MaxBatch
            /\ Accept(a)
    /\ UNCHANGED <<day, mfaOn, secret, setupDoc, nonces, drawn, enabled, again>>

CheckTotp(a) ==
    /\ ask[a].pc = "totp"
    /\ IF Totp(secret) = ask[a].proof THEN Accept(a) ELSE Finish(a)
    /\ UNCHANGED <<stores, batch, drawn, past>>

-----------------------------------------------------------------------------
(* Minting a nonce and setting MFA up.                                     *)

\* A fresh family, or a code.  (A family that was revoked meanwhile ends the request,
\* like any failure.)
MintCheck(a) ==
    /\ ask[a].pc = "mint"
    /\ IF day <= FreshLife THEN Accept(a) ELSE Continue(a, "verify")
    /\ UNCHANGED <<stores, batch, drawn, past>>

MintStore(a) ==
    /\ ask[a].pc = "store" /\ drawn < MaxNonce
    /\ drawn' = drawn + 1
    /\ nonces' = nonces \cup {[id |-> drawn + 1, login |-> ask[a].login,
                               until |-> day + NonceLife, used |-> FALSE]}
    /\ Finish(a)
    /\ UNCHANGED <<day, security, setupDoc, batch, past>>

SetupCheck(a) ==
    /\ ask[a].pc = "setup"
    /\ IF mfaOn THEN Finish(a) ELSE Continue(a, "nonce")
    /\ UNCHANGED <<stores, batch, drawn, past>>

SpendNonce(a) ==
    LET fit == {n \in nonces : Totp(n.id) = ask[a].proof /\ n.login = ask[a].login
                               /\ ~n.used /\ n.until > day} IN
    /\ ask[a].pc = "nonce"
    /\ IF fit = {} THEN Finish(a) /\ UNCHANGED nonces
       ELSE /\ nonces' = (nonces \ fit) \cup {[n EXCEPT !.used = TRUE] : n \in fit}
            /\ ask' = [ask EXCEPT ![a] = [NoAsk EXCEPT !.pc = "write"]]
    /\ UNCHANGED <<day, security, setupDoc, batch, drawn, past>>

SetupStore(a) ==
    /\ ask[a].pc = "write" /\ batch < MaxBatch
    /\ batch' = batch + 1
    /\ setupDoc' = [batch |-> batch + 1, until |-> day + FreshLife]
    /\ Finish(a)
    /\ UNCHANGED <<day, security, nonces, drawn, past>>

-----------------------------------------------------------------------------
(* Enabling: reads the setup, checks the code, commits, drops the setup.   *)

EnableSetup(a) ==
    /\ ask[a].pc = "enable"
    /\ IF setupDoc = Absent THEN Finish(a)
       ELSE IF setupDoc.until < day THEN Continue(a, "drop")
       ELSE IF Totp(setupDoc.batch) # ask[a].proof THEN Finish(a)
       ELSE ask' = [ask EXCEPT ![a] = [NoAsk EXCEPT !.pc = "commit", !.read = setupDoc.batch]]
    /\ UNCHANGED <<stores, batch, drawn, past>>

EnableStore(a) ==
    /\ ask[a].pc = "commit"
    /\ mfaOn' = TRUE /\ secret' = ask[a].read /\ codes' = Batch(ask[a].read)
    /\ enabled' = enabled \cup {ask[a].read}
    /\ again' = (again \/ ask[a].read \in enabled)
    /\ ask' = [ask EXCEPT ![a] = [NoAsk EXCEPT !.pc = "drop"]]
    /\ UNCHANGED <<day, setupDoc, nonces, batch, drawn, spent>>

SetupDrop(a) ==
    /\ ask[a].pc = "drop"
    /\ setupDoc' = Absent
    /\ Finish(a)
    /\ UNCHANGED <<day, security, nonces, batch, drawn, past>>

-----------------------------------------------------------------------------
(* The sensitive requests, verified or in no need of it.                   *)

DisableStore(a) ==
    /\ ask[a].pc = "disable"
    /\ mfaOn' = FALSE /\ secret' = Absent /\ codes' = {}
    /\ Finish(a)
    /\ UNCHANGED <<day, setupDoc, nonces, batch, drawn, past>>

TrustStore(a) ==
    /\ ask[a].pc = "trust"
    /\ Finish(a)
    /\ UNCHANGED <<stores, batch, drawn, past>>

RegenerateRead(a) ==
    /\ ask[a].pc = "reread"
    /\ IF mfaOn THEN Continue(a, "regenerate") ELSE Finish(a)
    /\ UNCHANGED <<stores, batch, drawn, past>>

\* The update of a document: it fails if the document is gone.
\* Mutant: a write that makes the document if there is none.
RegenerateAnyway(a) ==
    /\ ask[a].pc = "regenerate" /\ batch < MaxBatch
    /\ batch' = batch + 1 /\ codes' = Batch(batch + 1)
    /\ Finish(a)
    /\ UNCHANGED <<day, mfaOn, secret, setupDoc, nonces, drawn, past>>
RegenerateStore(a) ==
    /\ ask[a].pc = "regenerate" /\ batch < MaxBatch
    /\ IF secret = Absent THEN UNCHANGED <<codes, batch>>
       ELSE batch' = batch + 1 /\ codes' = Batch(batch + 1)
    /\ Finish(a)
    /\ UNCHANGED <<day, mfaOn, secret, setupDoc, nonces, drawn, past>>

AskDies(a) ==
    /\ ask[a].pc # "idle"
    /\ Finish(a)
    /\ UNCHANGED <<stores, batch, drawn, past>>

CodesNext ==
    \/ DayPasses \/ CleanExpired
    \/ \E a \in Ask :
          \/ \E op \in Sensitive \cup {"mint", "setup", "enable"} : \E l \in SessionFamily :
                \E proof \in Proofs(op) : Present(a, op, l, proof)
          \/ VerifyRead(a) \/ ConsumeCode(a) \/ CheckTotp(a)
          \/ MintCheck(a) \/ MintStore(a) \/ SetupCheck(a) \/ SpendNonce(a) \/ SetupStore(a)
          \/ EnableSetup(a) \/ EnableStore(a) \/ SetupDrop(a)
          \/ DisableStore(a) \/ TrustStore(a) \/ RegenerateRead(a) \/ RegenerateStore(a)
          \/ AskDies(a)

CodesSpec == CodesInit /\ [][CodesNext]_codeVars

-----------------------------------------------------------------------------
CodesTypeOK ==
    /\ day \in 0..LastDay /\ mfaOn \in BOOLEAN
    /\ secret \in 1..MaxBatch \cup {Absent} /\ codes \subseteq UNION {Batch(b) : b \in 1..MaxBatch}
    /\ batch \in 0..MaxBatch /\ drawn \in 0..MaxNonce
    /\ Cardinality(nonces) <= MaxNonce

\* mfaRecoveryCodes.ts:54 - a recovery code that was accepted never becomes valid
\* again, whatever was consumed, regenerated, set up or disabled beside it, as long
\* as MFA is not enabled twice with one setup (see DoubleEnableFails).
SpentCodesStayGone == ~again => spent \cap codes = {}

\* mfaRecoveryCodes.ts:71 - an account with MFA on always has its secret and more
\* codes than the threshold, and an account with MFA off has neither, also when a
\* regeneration overlaps a disable or codes are used at the same time.
EnrolmentIsWhole ==
    /\ mfaOn <=> secret # Absent
    /\ mfaOn => Cardinality(codes) > Threshold
    /\ ~mfaOn => codes = {}

\* MfaSessionService.ts:90 - "the setup document is already consumed", "a fresh
\* double-enable keeps failing with the original setup error": one setup enables
\* MFA once.  A second time brings the codes that were used back to life.
DoubleEnableFails == ~again
=============================================================================

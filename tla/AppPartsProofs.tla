--------------------------- MODULE AppPartsProofs ---------------------------
(***************************************************************************)
(* Theorems about parts of the mobile app that run on their own, for any   *)
(* calls, screens, releases, losses and restarts: the session manager      *)
(* (SessionClient), the bridge to the PGP page (PgpBridge), the updates    *)
(* (AppUpdates), the clipboard (SecureClipboard) and the prompts           *)
(* (ModalPrompts).                                                         *)
(***************************************************************************)
EXTENDS SessionClient, PgpBridge, AppUpdates, SecureClipboard, ModalPrompts, TLAPS

-----------------------------------------------------------------------------
(* The session manager: the stored token is unspent unless something slipped. *)

\* The stored token is unspent except while the app holds its successor, and the token
\* that is being presented is unspent.
ReuseInv ==
    /\ "pc" \in DOMAIN refresh
    /\ 0 \notin spent
    /\ "slipped" \notin why =>
          /\ refresh.pc \notin {"answered", "keep"} => stored.tok \notin spent
          /\ refresh.pc = "sent" => refresh.sess.tok \notin spent

\* Most steps leave the refresh alone, spend nothing and store what lives, or nothing.
LEMMA OtherSteps ==
    ASSUME ReuseInv, refresh' = refresh, spent' = spent \/ spent' = {}, why \subseteq why',
           \/ stored' = stored
           \/ stored' = NoSession
           \/ "slipped" \in why'
           \/ stored'.tok \notin spent'
    PROVE  ReuseInv'
  BY DEF ReuseInv, NoSession

LEMMA StoresUnspent ==
    ASSUME NEW s, Stores(s), spent' = spent
    PROVE  "slipped" \in why' \/ stored'.tok \notin spent'
  BY DEF Stores, Live

\* A refresh that settles is none.
LEMMA SettleSteps ==
    ASSUME ReuseInv, NEW e, NEW s, NEW token, Settle(e, s, token),
           spent' = spent \/ spent' = {}, why \subseteq why',
           \/ stored' = stored /\ refresh.pc \notin {"answered", "keep"}
           \/ "slipped" \in why'
           \/ stored'.tok \notin spent'
    PROVE  ReuseInv'
  BY DEF ReuseInv, Settle, NoRefresh

LEMMA RefreshSteps == ASSUME ReuseInv, RefreshStep PROVE ReuseInv'
  <1> USE DEF serverVars, flagVars
  <1>1. CASE RefreshRead
    <2>1. CASE stored = NoSession
      BY <1>1, <2>1, SettleSteps DEF RefreshRead
    <2>2. CASE stored # NoSession
      BY <1>1, <2>2 DEF RefreshRead, ReuseInv
    <2> QED BY <2>1, <2>2
  <1>2. ASSUME NEW n \in Token, RefreshServed(n) PROVE ReuseInv'
    <2>1. refresh.sess.tok # 0 /\ refresh'.pc = "answered" /\ "pc" \in DOMAIN refresh'
      BY <1>2 DEF RefreshServed, Live, Of
    <2> QED BY <1>2, <2>1 DEF RefreshServed, ReuseInv
  <1>3. CASE RefreshDead
    BY <1>3, SettleSteps DEF RefreshDead, Ends
  <1>4. CASE RefreshNeedsMfa \/ RefreshLimited
    BY <1>4, SettleSteps DEF RefreshNeedsMfa, RefreshLimited
  <1>5. CASE RefreshLost
    BY <1>5, SettleSteps DEF RefreshLost
  <1>6. CASE RefreshAnswered
    BY <1>6 DEF RefreshAnswered, ReuseInv
  <1>7. CASE RefreshKept
    BY <1>7, SettleSteps, StoresUnspent DEF RefreshKept, Stores
  <1>8. CASE RefreshNotKept
    BY <1>8, SettleSteps DEF RefreshNotKept
  <1> QED BY <1>1, <1>2, <1>3, <1>4, <1>5, <1>6, <1>7, <1>8 DEF RefreshStep

\* A call that joins a refresh begins one when there is none.
LEMMA JoinSteps ==
    ASSUME ReuseInv, NEW c, Join(c), UNCHANGED <<spent, stored, why>>
    PROVE  ReuseInv'
  BY DEF ReuseInv, Join, NoRefresh

LEMMA SessionCallSteps == ASSUME ReuseInv, NEW c \in Call, Step(c) PROVE ReuseInv'
  <1> USE DEF serverVars, flagVars
  <1>1. CASE Create(c) \/ Clear(c) \/ PostFails(c) \/ AnswerLost(c) \/ Answered(c) \/ KeepFails(c)
    BY <1>1, OtherSteps DEF Create, Clear, PostFails, AnswerLost, Answered, KeepFails
  <1>2. CASE Read(c) \/ ReadFails(c)
    <2>1. UNCHANGED <<spent, stored, why>> /\ (Join(c) \/ refresh' = refresh)
      BY <1>2 DEF Read, ReadFails, Found
    <2> QED BY <2>1, JoinSteps, OtherSteps
  <1>3. ASSUME NEW n \in Token, Post(c, n) PROVE ReuseInv'
    BY <1>3, OtherSteps DEF Post, Login
  <1>4. CASE Keep(c) \/ Write(c)
    <2>1. spent' = spent /\ refresh' = refresh /\ \E s : Stores(s)
      BY <1>4 DEF Keep, Write
    <2> QED BY <2>1, StoresUnspent, OtherSteps DEF Stores
  <1>5. CASE Served(c) \/ NotServed(c) \/ Refused(c)
    BY <1>5, OtherSteps DEF Served, NotServed, Refused
  <1>6. ASSUME NEW trusted \in BOOLEAN, NEW n \in Token,
               ServedTrust(c, trusted) \/ ServedSwap(c, n, trusted)
        PROVE  ReuseInv'
    BY <1>6, OtherSteps DEF ServedTrust, ServedSwap, Login
  <1>7. CASE Sync(c) \/ Copy(c) \/ NotWritten(c) \/ NotRevoked(c) \/ Wipe(c) \/ Gone(c) \/ NotGone(c)
    BY <1>7, OtherSteps DEF Sync, Copy, NotWritten, NotRevoked, Wipe, Gone, NotGone
  <1>8. CASE Leave(c)
    <2>1. UNCHANGED <<spent, stored, why>> /\ (Join(c) \/ refresh' = refresh)
      BY <1>8 DEF Leave
    <2> QED BY <2>1, JoinSteps, OtherSteps
  <1>9. CASE Revoke(c)
    BY <1>9, OtherSteps DEF Revoke, Ends
  <1>10. ASSUME NEW trusted \in BOOLEAN, ServedTrust(c, trusted) PROVE ReuseInv'
    BY <1>10, OtherSteps DEF ServedTrust
  <1> QED BY <1>1, <1>2, <1>3, <1>4, <1>5, <1>6, <1>7, <1>8, <1>9, <1>10 DEF Step

LEMMA SessionNext == ReuseInv /\ [Next]_vars => ReuseInv'
  <1> SUFFICES ASSUME ReuseInv, [Next]_vars PROVE ReuseInv'
    OBVIOUS
  <1> USE DEF serverVars, flagVars
  <1>1. ASSUME NEW c \in Call, NEW k \in Kind, Start(c, k) PROVE ReuseInv'
    BY <1>1, OtherSteps DEF Start
  <1>2. CASE TokenGoes \/ Forget \/ EndedElsewhere \/ SwitchedElsewhere \/ UNCHANGED vars
    BY <1>2, OtherSteps DEF TokenGoes, Forget, EndedElsewhere, SwitchedElsewhere, Ends, vars
  <1>3. CASE Restart
    BY <1>3 DEF Restart, ReuseInv, NoRefresh
  <1> QED BY <1>1, <1>2, <1>3, SessionCallSteps, RefreshSteps DEF Next

\* refreshSession - for any number of calls and tokens, the app presents no refresh token
\* twice, unless an answer got lost or a late write put an old session back.
THEOREM TokensArePresentedOnce == Spec => []NoReuse
  <1>1. Init => ReuseInv
    BY DEF Init, ReuseInv, NoRefresh, NoSession
  <1>2. ReuseInv => NoReuse
    BY DEF ReuseInv, NoReuse
  <1> QED BY <1>1, <1>2, SessionNext, PTL DEF Spec

-----------------------------------------------------------------------------
(* The session manager: a sign-out event comes only over a dead session.    *)
(* While a live session is stored and nothing came in lately, every call    *)
(* under way is of that session.                                            *)

\* The tokens issued so far, and 0 for none.
Drawn == 0..minted

\* No token is known before the server issued it.
KnownOK ==
    /\ mem \in Drawn /\ alive \in Drawn /\ stored.tok \in Drawn /\ refresh.sess.tok \in Drawn
    /\ spent \subseteq Drawn
    /\ \A c \in Call : call[c].sess.tok \in Drawn
    /\ \A t \in Token : t \in Drawn => family[t] \in Drawn

\* The family has one token that is not used up.
OneUnspent ==
    \A t \in Drawn, u \in Drawn :
        Of(t) /\ Of(u) /\ t \notin spent /\ u \notin spent => t = u

\* The middle write of a login comes while the first one is remembered.
LeftOK == \A c \in Call : call[c].left = 1 => At(c, "keep") /\ recent

\* A live session is stored, or about to be written back.
HeldLive == Live(stored) \/ \E c \in Call : At(c, "write") /\ Live(call[c].sess)

\* A session that was answered is about to be stored, and is the live one or not.
KeepsLive == \/ \E c \in Call : At(c, "keep") /\ Live(call[c].sess)
             \/ refresh.pc = "keep" /\ Live(refresh.sess)

KeepsDead == \/ \E c \in Call : At(c, "keep") /\ ~Live(call[c].sess)
             \/ refresh.pc = "keep" /\ ~Live(refresh.sess)

\* The token in memory is one of the session that is held, or it came with
\* a session that is about to slip.
MemOK == HeldLive \/ KeepsLive => mem = 0 \/ Of(mem) \/ KeepsDead

\* A call that is under way while the session is held and nothing came in lately.
CalmCall(r) ==
    /\ r.pc \notin {"clear", "answered", "keep"}
    /\ r.pc = "have" => Of(r.sess.tok)
    /\ r.pc = "write" => Live(r.sess)

\* Twenty seconds after the last session came in, all that is under way is of it.
CalmOK ==
    HeldLive /\ ~recent =>
        /\ stored = NoSession \/ Live(stored)
        /\ refresh.pc \notin {"answered", "keep"}
        /\ refresh.pc = "sent" => Live(refresh.sess)
        /\ \A c \in Call : CalmCall(call[c])

\* The inductive invariant.  Storing a dead session is what slips, so that none of
\* the claims about the held session has to survive it.
EventInv ==
    /\ TypeOK /\ KnownOK /\ OneUnspent /\ LeftOK
    /\ "slipped" \notin why => MemOK /\ CalmOK

\* Who holds a session to store holds one with a token: the answers carry a
\* token, and only a session that is stored is copied.
HandsOK ==
    \A c \in Call : call[c].pc \in {"answered", "keep", "write"} => call[c].sess.tok # 0

LEMMA CallTypes ==
    ASSUME TypeOK, NEW c \in Call, NEW r \in CallType, Becomes(c, r)
    PROVE  /\ call' \in [Call -> CallType]
           /\ call'[c] = r
           /\ \A d \in Call : d # c => call'[d] = call[d]
  BY DEF TypeOK, Becomes

LEMMA TroubleOK ==
    ASSUME TypeOK, Trouble \/ trouble' = trouble
    PROVE  trouble' \in 0..MaxTrouble
  BY BoundAssumption DEF TypeOK, Trouble

\* The locals of a call that is in no write.
Fit(r) == r \in CallType /\ r.left # 1 /\ r.sess.tok \in Drawn

\* A step that changes nothing the invariant is about besides the types.
Harmless ==
    /\ UNCHANGED <<minted, family, alive, spent, stored, recent, mfaOn, uses, why>>
    /\ mode' \in Mode /\ user' \in BOOLEAN /\ force' \in BOOLEAN /\ event' \in BOOLEAN
    /\ notice' \in Mode \cup {"none"} /\ trouble' \in 0..MaxTrouble
    /\ mem' \in {0, mem}

\* The refresh is left alone, or one begins.
JoinsOnly ==
    \/ refresh' = refresh
    \/ refresh.pc = "none" /\ refresh' = [NoRefresh EXCEPT !.pc = "read"]

\* A step of one call that leaves the session and the server's tokens alone.
LEMMA CallStep ==
    ASSUME EventInv, NEW c \in Call, NEW r, Fit(r), Becomes(c, r), ~At(c, "keep"),
           Harmless, JoinsOnly, r.pc # "keep",
           "slipped" \notin why /\ HeldLive /\ ~recent =>
               r.pc \notin {"clear", "answered"} /\ (r.pc = "have" => Of(r.sess.tok)),
           r.pc = "write" => r.sess.tok = stored.tok /\ stored # NoSession
    PROVE  EventInv'
  <1>0. TypeOK /\ KnownOK /\ OneUnspent /\ LeftOK /\ r \in CallType
    BY DEF EventInv, Fit
  <1> USE DEF Harmless
  <1>1. /\ call'[c] = r
        /\ \A d \in Call : d # c => call'[d] = call[d]
    BY <1>0, CallTypes
  <1>r. /\ refresh'.pc \in {"answered", "keep", "sent"} => refresh' = refresh
        /\ refresh'.sess.tok \in Drawn
        /\ refresh.pc = "keep" => refresh' = refresh
    BY <1>0 DEF NoRefresh, NoSession, KnownOK, Drawn, TypeOK, JoinsOnly
  <1>t. TypeOK'
    <2>1. call' \in [Call -> CallType]
      BY <1>0, CallTypes
    <2>2. mem' \in {0} \cup Token
      BY <1>0 DEF TypeOK
    <2>3. /\ refresh' \in [pc : {"none", "read", "sent", "answered", "keep"}, sess : Session]
          /\ refresh'.pc \in {"sent", "answered", "keep"} <=> refresh'.sess # NoSession
      <3>1. CASE refresh' = refresh
        BY <1>0, <3>1 DEF TypeOK
      <3>2. CASE refresh' = [NoRefresh EXCEPT !.pc = "read"]
        BY <3>2 DEF NoRefresh, Session
      <3> QED BY <3>1, <3>2 DEF JoinsOnly
    <2> QED BY <1>0, <2>1, <2>2, <2>3 DEF TypeOK
  <1>2. KnownOK'
    <2>1. Drawn' = Drawn
      BY DEF Drawn
    <2>2. mem' \in Drawn /\ \A d \in Call : call'[d].sess.tok \in Drawn
      BY <1>0, <1>1 DEF KnownOK, TypeOK, Drawn, Fit
    <2> QED BY <1>0, <1>r, <2>1, <2>2 DEF KnownOK
  <1>3. OneUnspent'
    BY <1>0 DEF OneUnspent, Of, Drawn
  <1>4. LeftOK'
    BY <1>0, <1>1 DEF LeftOK, At, Fit
  <1>5. \A s : Live(s)' <=> Live(s)
    BY DEF Live, Of
  <1>o. \A t : Of(t)' <=> Of(t)
    BY DEF Of
  <1>6. HeldLive' => HeldLive
    <2>1. r.pc = "write" /\ Live(r.sess) => Live(stored)
      BY DEF Live
    <2> QED BY <1>1, <1>5, <2>1 DEF HeldLive, At
  <1>7. (KeepsLive' => KeepsLive) /\ (KeepsDead => KeepsDead')
    BY <1>1, <1>5, <1>r DEF KeepsLive, KeepsDead, At
  <1>8. ASSUME "slipped" \notin why PROVE (MemOK /\ CalmOK)'
    <2>1. MemOK /\ CalmOK
      BY <1>8 DEF EventInv
    <2>2. MemOK'
      BY <1>6, <1>7, <2>1 DEF MemOK, Of
    <2>3. ASSUME HeldLive', ~recent', NEW d \in Call PROVE CalmCall(call[d])'
      <3>1. HeldLive /\ ~recent
        BY <1>6, <2>3
      <3>2. PICK q : q = call'[d]
        OBVIOUS
      <3>3. CalmCall(q)
        <4>1. CASE d = c
          <5>1. q = r
            BY <1>1, <3>2, <4>1
          <5>2. r.pc = "write" => Live(r.sess)
            BY <2>1, <3>1 DEF CalmOK, Live
          <5> QED BY <1>8, <3>1, <5>1, <5>2 DEF CalmCall
        <4>2. CASE d # c
          BY <1>1, <2>1, <3>1, <3>2, <4>2 DEF CalmOK
        <4> QED BY <4>1, <4>2
      <3>4. CalmCall(q)'
        BY <1>5, <1>o, <3>3 DEF CalmCall
      <3> QED BY <3>2, <3>4 DEF CalmCall, Live, Of
    <2>4. CalmOK'
      <3> SUFFICES ASSUME HeldLive', ~recent' PROVE CalmOK'
        BY DEF CalmOK
      <3>1. HeldLive /\ ~recent
        BY <1>6
      <3>2. (stored = NoSession \/ Live(stored))'
        BY <1>5, <2>1, <3>1 DEF CalmOK
      <3>3. (refresh.pc = "sent" => Live(refresh.sess))'
        BY <1>5, <1>r, <2>1, <3>1 DEF CalmOK
      <3>4. refresh'.pc \notin {"answered", "keep"}
        BY <1>r, <2>1, <3>1 DEF CalmOK
      <3> QED BY <2>3, <3>2, <3>3, <3>4 DEF CalmOK
    <2> QED BY <2>2, <2>4
  <1> QED BY <1>t, <1>2, <1>3, <1>4, <1>8 DEF EventInv

\* What a call holds as a session; then what the operators make of its locals.
Sess == [tok : {0} \cup Token, mode : Mode]

LEMMA IdleFit == Idle \in CallType /\ Idle.left = 0 /\ Idle.sess.tok = 0 /\ Idle.pc = "idle"
  BY DEF Idle, CallType, NoSession, Mode

LEMMA NoSessionIs == NoSession \in Sess /\ NoSession.tok = 0
  BY DEF NoSession, Sess, Mode

LEMMA GotFit ==
    ASSUME NEW r \in CallType, NEW s \in Sess
    PROVE  /\ Got(r, s) \in CallType
           /\ Got(r, s).pc \in {"idle", "create", "have"}
           /\ Got(r, s).pc = "have" => Got(r, s).sess.tok = s.tok
           /\ Got(r, s).left \in {0, r.left}
           /\ Got(r, s).sess.tok \in {0, r.sess.tok, s.tok}
  <1> DEFINE renewed == [r EXCEPT !.pc = "create", !.stage = "again", !.from = "none"]
             held == [r EXCEPT !.pc = "have", !.sess = [NoSession EXCEPT !.tok = s.tok],
                               !.from = "none"]
  <1>0. Got(r, s) = Idle \/ Got(r, s) = renewed \/ Got(r, s) = held
    <2>1. CASE r.kind \in {"login", "relogin", "resume"} /\ r.stage = "renew"
      BY <2>1 DEF Got
    <2>2. CASE r.kind \in {"login", "relogin", "resume"} /\ r.stage # "renew"
      BY <2>2 DEF Got
    <2>3. CASE r.kind \notin {"login", "relogin", "resume"}
      BY <2>3 DEF Got
    <2> QED BY <2>1, <2>2, <2>3
  <1>1. CASE Got(r, s) = Idle
    <2>2. Idle.left \in {0, r.left} /\ Idle.sess.tok \in {0, r.sess.tok, s.tok}
      BY IdleFit
    <2> QED BY <1>1, <2>2, IdleFit
  <1>2. CASE Got(r, s) = renewed
    BY <1>2 DEF CallType
  <1>3. CASE Got(r, s) = held
    <2>1. PICK t \in Sess : t = [NoSession EXCEPT !.tok = s.tok]
      BY DEF NoSession, Sess, Mode
    <2>2. Got(r, s) = [r EXCEPT !.pc = "have", !.sess = t, !.from = "none"]
      BY <1>3, <2>1
    <2>3. t.tok = s.tok
      BY <2>1 DEF NoSession
    <2> HIDE DEF held, renewed
    <2> QED BY <2>2, <2>3 DEF CallType, Sess
  <1> QED BY <1>0, <1>1, <1>2, <1>3

LEMMA EnterFit ==
    ASSUME NEW c \in Call, NEW q, Fit(q), Enter(c, q)
    PROVE  \E r : Fit(r) /\ Becomes(c, r) /\ r.pc \in {"post", "read"} /\ mem' \in {0, mem}
  <1>1. PICK pc \in {"post", "read"} : Becomes(c, [q EXCEPT !.pc = pc])
    BY DEF Enter
  <1>2. [q EXCEPT !.pc = pc] \in CallType
    BY DEF Fit, CallType
  <1>3. Fit([q EXCEPT !.pc = pc]) /\ [q EXCEPT !.pc = pc].pc = pc
    BY <1>2 DEF Fit, CallType
  <1> QED BY <1>1, <1>3 DEF Enter

LEMMA ResumedFit ==
    ASSUME NEW r \in CallType, NEW s \in Sess, NEW e \in {"ok", "mfa", "dead", "limit", "other"}
    PROVE  /\ Resumed(r, e, s) \in CallType
           /\ Resumed(r, e, s).pc \in {"revoke", "wipe", "idle", "create", "have", "post", "clear"}
           /\ Resumed(r, e, s).pc = "clear" => e = "dead"
           /\ Resumed(r, e, s).pc = "have" => e = "ok" /\ Resumed(r, e, s).sess.tok = s.tok
           /\ Resumed(r, e, s).left \in {0, r.left}
           /\ Resumed(r, e, s).sess.tok \in {0, r.sess.tok, s.tok}
  <1>1. CASE r.kind = "signout"
    <2>1. PICK pc \in {"revoke", "wipe"} : Resumed(r, e, s) = [r EXCEPT !.pc = pc, !.sess.tok = s.tok]
      BY <1>1 DEF Resumed
    <2>2. r.sess \in Sess
      BY DEF CallType, Sess
    <2>3. PICK t \in Sess : t = [r.sess EXCEPT !.tok = s.tok]
      BY <2>2 DEF Sess
    <2>4. t.tok = s.tok
      BY <2>2, <2>3 DEF Sess
    <2>5. Resumed(r, e, s) = [r EXCEPT !.pc = pc, !.sess = t]
      BY <2>1, <2>3 DEF CallType
    <2> QED BY <2>4, <2>5, <1>1 DEF CallType, Sess
  <1>2. CASE r.kind # "signout" /\ e = "ok"
    BY <1>2, GotFit DEF Resumed
  <1>3. CASE r.kind # "signout" /\ e # "ok"
    <2>1. Resumed(r, e, s) = Idle \/ \E pc \in {"post", "clear"} :
              Resumed(r, e, s) = [r EXCEPT !.pc = pc] /\ (pc = "clear" => e = "dead")
      BY <1>3 DEF Resumed
    <2>2. CASE Resumed(r, e, s) = Idle
      BY <2>2, IdleFit
    <2>3. ASSUME NEW pc \in {"post", "clear"}, Resumed(r, e, s) = [r EXCEPT !.pc = pc]
          PROVE  /\ Resumed(r, e, s) \in CallType
                 /\ Resumed(r, e, s).pc = pc
                 /\ Resumed(r, e, s).left = r.left
                 /\ Resumed(r, e, s).sess.tok = r.sess.tok
      BY <2>3 DEF CallType
    <2> QED BY <2>1, <2>2, <2>3
  <1> QED BY <1>1, <1>2, <1>3

LEMMA CallFit ==
    ASSUME EventInv, NEW c \in Call
    PROVE  ~At(c, "keep") => Fit(call[c])
  BY DEF EventInv, TypeOK, LeftOK, KnownOK, Fit

LEMMA PcMoves ==
    ASSUME NEW q, Fit(q),
           NEW pc \in {"idle", "create", "read", "wait", "clear", "post", "answered", "have",
                       "sync", "copy", "write", "leave", "revoke", "wipe", "gone"}
    PROVE  /\ Fit([q EXCEPT !.pc = pc])
           /\ [q EXCEPT !.pc = pc].pc = pc
           /\ [q EXCEPT !.pc = pc].sess = q.sess
  BY DEF Fit, CallType

\* Calls begin, ask, wait and give up.
LEMMA BeginStep ==
    ASSUME EventInv, NEW c \in Call,
           \/ \E k \in Kind : Start(c, k)
           \/ Create(c) \/ Read(c) \/ ReadFails(c) \/ PostFails(c) \/ Leave(c)
    PROVE  EventInv'
  <1> USE DEF flagVars, serverVars
  <1>0. TypeOK /\ KnownOK
    BY DEF EventInv
  <1>a. trouble' \in 0..MaxTrouble
    BY <1>0, TroubleOK DEF Start, Create, Read, ReadFails, PostFails, Leave
  <1>b. ~At(c, "keep")
    BY DEF At, Start, Create, Read, ReadFails, PostFails, Leave
  <1>c. Fit(call[c])
    BY <1>b, CallFit
  <1>d. Fit(Idle) /\ Idle.pc = "idle"
    BY <1>0, IdleFit DEF Fit, KnownOK, Drawn, TypeOK
  <1>1. ASSUME NEW k \in Kind, Start(c, k) PROVE EventInv'
    <2> DEFINE q == [Idle EXCEPT !.kind = k]
    <2>1. Fit(q)
      BY <1>d DEF Fit, CallType, Idle
    <2>2. notice' \in Mode \cup {"none"}
      BY <1>0, <1>1 DEF Start, TypeOK
    <2>3. CASE k = "sync"
      <3>1. notice \in Mode
        BY <1>0, <1>1, <2>3 DEF Start, TypeOK
      <3>a. PICK t \in Sess : t = [NoSession EXCEPT !.mode = notice] /\ t.tok = 0
        <4>1. PICK t : t = [tok |-> 0, mode |-> notice]
          OBVIOUS
        <4>2. t \in Sess /\ t.tok = 0
          BY <3>1, <4>1 DEF Sess
        <4>3. t = [NoSession EXCEPT !.mode = notice]
          BY <4>1 DEF NoSession
        <4> QED BY <4>2, <4>3
      <3>2. PICK r : r = [q EXCEPT !.pc = "sync", !.sess = t]
        OBVIOUS
      <3>b. Fit(r) /\ r.pc = "sync"
        <4> HIDE DEF q
        <4>1. 0 \in Drawn
          BY <1>0 DEF KnownOK, Drawn, TypeOK
        <4> QED BY <2>1, <3>2, <3>a, <4>1 DEF Fit, CallType, Sess
      <3>3. r = [q EXCEPT !.pc = "sync", !.sess.mode = notice]
        BY <3>2, <3>a DEF Idle
      <3>4. Becomes(c, r) /\ mem' = mem
        BY <1>1, <2>3, <3>3 DEF Start
      <3>5. Harmless /\ JoinsOnly
        BY <1>0, <1>1, <1>a, <2>2, <3>4 DEF Start, Harmless, JoinsOnly, TypeOK
      <3> QED BY <1>b, <3>b, <3>4, <3>5, CallStep
    <2>4. CASE k = "signout"
      <3>1. PICK r : r = [q EXCEPT !.pc = "leave"]
        OBVIOUS
      <3>2. Fit(r) /\ r.pc = "leave"
        BY <2>1, <3>1, PcMoves
      <3>3. Becomes(c, r) /\ mem' = mem
        BY <1>1, <2>4, <3>1 DEF Start
      <3>4. Harmless /\ JoinsOnly
        BY <1>0, <1>1, <1>a, <2>2, <3>3 DEF Start, Harmless, JoinsOnly, TypeOK
      <3> QED BY <1>b, <3>2, <3>3, <3>4, CallStep
    <2>5. CASE k \notin {"sync", "signout"}
      <3>1. Enter(c, q)
        BY <1>1, <2>5 DEF Start
      <3>2. PICK r : Fit(r) /\ Becomes(c, r) /\ r.pc \in {"post", "read"} /\ mem' \in {0, mem}
        <4> HIDE DEF q
        <4> QED BY <2>1, <3>1, EnterFit
      <3>3. Harmless /\ JoinsOnly
        BY <1>0, <1>1, <1>a, <2>2, <3>2 DEF Start, Harmless, JoinsOnly, TypeOK
      <3> QED BY <1>b, <3>2, <3>3, CallStep
    <2> QED BY <2>3, <2>4, <2>5
  <1>2. CASE Create(c)
    <2>1. PICK r : Fit(r) /\ Becomes(c, r) /\ r.pc \in {"post", "read"} /\ mem' \in {0, mem}
      BY <1>2, <1>c, EnterFit DEF Create
    <2>2. Harmless /\ JoinsOnly
      BY <1>0, <1>2, <1>a, <2>1 DEF Create, Harmless, JoinsOnly, TypeOK
    <2> QED BY <1>b, <2>1, <2>2, CallStep
  <1>j. ASSUME Join(c), Harmless PROVE EventInv'
    <2>1. PICK r : r = [call[c] EXCEPT !.pc = "wait"]
      OBVIOUS
    <2>2. Fit(r) /\ r.pc = "wait"
      BY <1>c, <2>1, PcMoves
    <2>3. Becomes(c, r) /\ JoinsOnly
      BY <1>j, <2>1 DEF Join, Goto, JoinsOnly
    <2> QED BY <1>b, <1>j, <2>2, <2>3, CallStep
  <1>f. ASSUME NEW s, s = stored \/ s = NoSession, Found(c, s), Harmless, mem' = mem PROVE EventInv'
    <2>1. CASE s # NoSession /\ mem = 0
      BY <1>f, <1>j, <2>1 DEF Found
    <2>2. CASE s # NoSession /\ mem # 0
      <3>1. PICK t \in Sess : t = [s EXCEPT !.tok = mem]
        BY <1>0, <1>f, <2>2 DEF TypeOK, Session, Sess, NoSession
      <3>2. t.tok = mem
        BY <1>0, <1>f, <2>2, <3>1 DEF TypeOK, Session, Sess, NoSession
      <3>3. PICK r : r = Got(call[c], t)
        OBVIOUS
      <3>4. /\ r \in CallType /\ r.pc \in {"idle", "create", "have"}
            /\ r.pc = "have" => r.sess.tok = mem
            /\ r.left \in {0, call[c].left} /\ r.sess.tok \in {0, call[c].sess.tok, mem}
        BY <1>c, <3>2, <3>3, GotFit DEF Fit
      <3>5. Fit(r)
        BY <1>0, <1>c, <3>4 DEF Fit, KnownOK, Drawn, TypeOK
      <3>6. Becomes(c, r) /\ JoinsOnly
        BY <1>f, <2>2, <3>1, <3>3 DEF Found, JoinsOnly
      <3>7. "slipped" \notin why /\ HeldLive /\ ~recent => Of(mem)
        <4> SUFFICES ASSUME "slipped" \notin why, HeldLive, ~recent PROVE Of(mem)
          OBVIOUS
        <4>1. MemOK /\ CalmOK
          BY DEF EventInv
        <4>2. ~KeepsDead
          BY <4>1 DEF KeepsDead, CalmOK, CalmCall, At
        <4> QED BY <2>2, <4>1, <4>2 DEF MemOK
      <3> QED BY <1>b, <1>f, <3>4, <3>5, <3>6, <3>7, CallStep
    <2>3. CASE s = NoSession
      <3>1. PICK r \in {[call[c] EXCEPT !.pc = "post"], Idle} : Becomes(c, r) /\ JoinsOnly
        BY <1>f, <2>3 DEF Found, JoinsOnly
      <3>2. Fit(r) /\ r.pc \in {"post", "idle"}
        <4>1. PICK p : p = [call[c] EXCEPT !.pc = "post"]
          OBVIOUS
        <4>2. Fit(p) /\ p.pc = "post"
          BY <1>c, <4>1, PcMoves
        <4> QED BY <1>d, <3>1, <4>1, <4>2
      <3> QED BY <1>b, <1>f, <3>1, <3>2, CallStep
    <2> QED BY <2>1, <2>2, <2>3
  <1>3. CASE Read(c)
    <2>1. Harmless /\ mem' = mem
      BY <1>0, <1>3, <1>a DEF Read, Harmless, TypeOK
    <2>2. CASE user
      BY <1>3, <1>f, <2>1, <2>2 DEF Read
    <2>3. CASE ~user
      BY <1>3, <1>b, <1>d, <2>1, <2>3, CallStep DEF Read, JoinsOnly
    <2> QED BY <2>2, <2>3
  <1>4. CASE ReadFails(c)
    <2>1. Harmless /\ mem' = mem
      BY <1>0, <1>4, <1>a DEF ReadFails, Harmless, TypeOK
    <2> QED BY <1>4, <1>f, <2>1 DEF ReadFails
  <1>5. CASE PostFails(c)
    <2>1. Harmless /\ JoinsOnly
      BY <1>0, <1>5, <1>a DEF PostFails, Harmless, JoinsOnly, TypeOK
    <2> QED BY <1>5, <1>b, <1>d, <2>1, CallStep DEF PostFails
  <1>6. CASE Leave(c)
    <2>1. Harmless
      BY <1>0, <1>6, <1>a DEF Leave, Harmless, TypeOK
    <2>2. CASE Join(c)
      BY <1>j, <2>1, <2>2
    <2>3. CASE ~Join(c)
      <3>1. JoinsOnly
        BY <1>6, <2>3 DEF Leave, JoinsOnly
      <3>2. CASE mem # 0
        <4>1. PICK t \in Sess : t = [call[c].sess EXCEPT !.tok = mem]
          BY <1>0, <1>c DEF Fit, CallType, Sess, TypeOK
        <4>2. t.tok = mem
          BY <1>c, <4>1 DEF Fit, CallType
        <4>3. PICK r : r = [call[c] EXCEPT !.pc = "revoke", !.sess = t]
          OBVIOUS
        <4>4. Fit(r) /\ r.pc = "revoke"
          BY <1>0, <1>c, <4>2, <4>3 DEF Fit, CallType, Sess, KnownOK
        <4>5. Becomes(c, r)
          BY <1>6, <1>c, <2>3, <3>2, <4>1, <4>3 DEF Leave, Fit, CallType
        <4> QED BY <1>b, <2>1, <3>1, <4>4, <4>5, CallStep
      <3>3. CASE mem = 0
        <4>1. PICK r : r = [call[c] EXCEPT !.pc = "wipe"]
          OBVIOUS
        <4>2. Fit(r) /\ r.pc = "wipe"
          BY <1>c, <4>1, PcMoves
        <4>3. Becomes(c, r)
          BY <1>6, <2>3, <3>3, <4>1 DEF Leave
        <4> QED BY <1>b, <2>1, <3>1, <4>2, <4>3, CallStep
      <3> QED BY <3>2, <3>3
    <2> QED BY <2>2, <2>3
  <1> QED BY <1>1, <1>2, <1>3, <1>4, <1>5, <1>6

\* A call has its answer, or copies the stored session; a sign-out goes on.
ServeStep ==
    \E c \in Call :
        \/ Served(c) \/ NotServed(c) \/ Refused(c)
        \/ \E trusted \in BOOLEAN : ServedTrust(c, trusted)
        \/ Sync(c) \/ Copy(c) \/ NotWritten(c)
        \/ NotRevoked(c) \/ (Revoke(c) /\ ~Of(call[c].sess.tok))
        \/ Gone(c) \/ NotGone(c)

LEMMA ServeSteps ==
    ASSUME EventInv, ServeStep
    PROVE  EventInv'
  <1> USE DEF flagVars, serverVars
  <1>0. TypeOK /\ KnownOK
    BY DEF EventInv
  <1>p. PICK c \in Call :
        \/ Served(c) \/ NotServed(c) \/ Refused(c)
        \/ \E trusted \in BOOLEAN : ServedTrust(c, trusted)
        \/ Sync(c) \/ Copy(c) \/ NotWritten(c)
        \/ NotRevoked(c) \/ (Revoke(c) /\ ~Of(call[c].sess.tok))
        \/ Gone(c) \/ NotGone(c)
    BY DEF ServeStep
  <1>a. trouble' \in 0..MaxTrouble
    BY <1>0, <1>p, TroubleOK DEF Served, NotServed, Refused, ServedTrust, Sync, Copy, NotWritten,
         NotRevoked, Revoke, Gone, NotGone
  <1>b. ~At(c, "keep")
    BY <1>p DEF At, Authentic, Served, NotServed, Refused, ServedTrust, Sync, Copy, NotWritten,
         NotRevoked, Revoke, Gone, NotGone
  <1>c. Fit(call[c])
    BY <1>b, CallFit
  <1>d. Fit(Idle) /\ Idle.pc = "idle"
    BY <1>0, IdleFit DEF Fit, KnownOK, Drawn, TypeOK
  <1>j. JoinsOnly
    BY <1>p DEF Served, NotServed, Refused, ServedTrust, Sync, Copy, NotWritten,
         NotRevoked, Revoke, Gone, NotGone, JoinsOnly
  <1>i. ASSUME Becomes(c, Idle), Harmless PROVE EventInv'
    BY <1>b, <1>d, <1>i, <1>j, CallStep
  <1>1. CASE Served(c)
    BY <1>0, <1>1, <1>a, <1>i DEF Served, Harmless, TypeOK
  <1>2. CASE NotServed(c)
    BY <1>0, <1>2, <1>a, <1>i DEF NotServed, Harmless, TypeOK
  <1>3. CASE Refused(c)
    <2>1. CASE call[c].stage = "first"
      <3>a. PICK t \in Sess : t = NoSession /\ t.tok = 0
        BY NoSessionIs
      <3>b. t.tok \in Drawn
        BY <1>0, <3>a DEF Drawn, TypeOK
      <3>1. PICK q : q = [call[c] EXCEPT !.sess = t, !.stage = "renew"]
        OBVIOUS
      <3>2. Fit(q)
        BY <1>c, <3>1, <3>b DEF Fit, CallType, Sess
      <3>3. Enter(c, q)
        BY <1>3, <2>1, <3>1, <3>a DEF Refused
      <3>4. PICK r : Fit(r) /\ Becomes(c, r) /\ r.pc \in {"post", "read"} /\ mem' \in {0, mem}
        BY <3>2, <3>3, EnterFit
      <3>5. Harmless
        BY <1>0, <1>3, <1>a, <2>1, <3>4 DEF Refused, Harmless, TypeOK
      <3> QED BY <1>b, <1>j, <3>4, <3>5, CallStep
    <2>2. CASE call[c].stage # "first"
      <3>1. Becomes(c, Idle) /\ event' = (event \/ ~recent) /\ mem' = mem
        BY <1>3, <2>2 DEF Refused
      <3>2. event' \in BOOLEAN
        BY <1>0, <3>1, Zenon DEF TypeOK
      <3> QED BY <1>0, <1>3, <1>a, <1>i, <3>1, <3>2 DEF Refused, Harmless, TypeOK
    <2> QED BY <2>1, <2>2
  <1>4. ASSUME NEW trusted \in BOOLEAN, ServedTrust(c, trusted) PROVE EventInv'
    <2>1. PICK m \in Mode : m = IF mode = "off" THEN "off" ELSE IF trusted THEN "trusted" ELSE "asks"
      BY DEF Mode
    <2>2. PICK t \in Sess : t = [tok |-> 0, mode |-> m]
      BY DEF Sess
    <2>3. PICK r : r = [call[c] EXCEPT !.pc = "copy", !.sess = t]
      OBVIOUS
    <2>4. Fit(r) /\ r.pc = "copy"
      <3>1. t.tok \in Drawn
        BY <1>0, <2>2 DEF KnownOK, Drawn, TypeOK
      <3> QED BY <1>c, <2>3, <3>1 DEF Fit, CallType, Sess
    <2>5. Becomes(c, r) /\ mode' = m
      BY <1>4, <2>1, <2>2, <2>3 DEF ServedTrust
    <2>6. Harmless
      BY <1>0, <1>4, <1>a, <2>5 DEF ServedTrust, Harmless, TypeOK
    <2> QED BY <1>b, <1>j, <2>4, <2>5, <2>6, CallStep
  <1>5. CASE Sync(c)
    <2>1. PICK p : p = [call[c] EXCEPT !.pc = "copy"]
      OBVIOUS
    <2>2. Fit(p) /\ p.pc = "copy"
      BY <1>c, <2>1, PcMoves
    <2>3. PICK r \in {p, Idle} : Becomes(c, r)
      BY <1>5, <2>1 DEF Sync, Goto
    <2>4. Harmless
      BY <1>0, <1>5, <1>a DEF Sync, Harmless, TypeOK
    <2> QED BY <1>b, <1>d, <1>j, <2>2, <2>3, <2>4, CallStep
  <1>6. CASE Copy(c)
    <2>1. Harmless
      BY <1>0, <1>6, <1>a DEF Copy, Harmless, TypeOK
    <2>2. CASE stored = NoSession
      BY <1>6, <1>i, <2>1, <2>2 DEF Copy
    <2>3. CASE stored # NoSession
      <3>1. PICK m \in Mode :
              m = IF call[c].kind = "trust" /\ stored.mode = "off" THEN "off"
                  ELSE IF call[c].kind = "trust" /\ call[c].sess.mode = "off" THEN "asks"
                  ELSE call[c].sess.mode
        BY <1>c DEF Fit, CallType, Mode
      <3>2. PICK t \in Sess : t = [stored EXCEPT !.mode = m] /\ t.tok = stored.tok
        <4>1. stored \in [tok : Token, mode : Mode]
          BY <1>0, <2>3 DEF TypeOK, Session
        <4>2. PICK t : t = [stored EXCEPT !.mode = m]
          OBVIOUS
        <4>3. t \in Sess /\ t.tok = stored.tok
          BY <4>1, <4>2 DEF Sess
        <4> QED BY <4>2, <4>3
      <3>3. PICK r : r = [call[c] EXCEPT !.pc = "write", !.sess = t]
        OBVIOUS
      <3>4. Fit(r) /\ r.pc = "write" /\ r.sess.tok = stored.tok
        BY <1>0, <1>c, <3>2, <3>3 DEF Fit, CallType, Sess, KnownOK
      <3>5. Becomes(c, r)
        BY <1>6, <2>3, <3>1, <3>2, <3>3 DEF Copy
      <3> QED BY <1>b, <1>j, <2>1, <2>3, <3>4, <3>5, CallStep
    <2> QED BY <2>2, <2>3
  <1>7. CASE NotWritten(c)
    BY <1>0, <1>7, <1>a, <1>i DEF NotWritten, Harmless, TypeOK
  <1>w. ASSUME Becomes(c, [Idle EXCEPT !.kind = "signout", !.pc = "wipe"]), Harmless
        PROVE  EventInv'
    <2>1. PICK r : r = [Idle EXCEPT !.kind = "signout", !.pc = "wipe"]
      OBVIOUS
    <2>2. Fit(r) /\ r.pc = "wipe"
      BY <1>d, <2>1 DEF Fit, CallType, Idle, Kind
    <2> QED BY <1>b, <1>j, <1>w, <2>1, <2>2, CallStep
  <1>8. CASE NotRevoked(c)
    BY <1>0, <1>8, <1>a, <1>w DEF NotRevoked, Harmless, TypeOK
  <1>9. CASE Revoke(c) /\ ~Of(call[c].sess.tok)
    BY <1>0, <1>9, <1>a, <1>w DEF Revoke, Harmless, TypeOK
  <1>10. CASE Gone(c)
    BY <1>0, <1>10, <1>a, <1>i DEF Gone, Harmless, TypeOK
  <1>11. CASE NotGone(c)
    BY <1>0, <1>11, <1>a, <1>i DEF NotGone, Harmless, TypeOK
  <1> QED BY <1>p, <1>1, <1>2, <1>3, <1>4, <1>5, <1>6, <1>7, <1>8, <1>9, <1>10, <1>11

\* After a step that leaves no live session with the app, nothing is claimed.
LEMMA NoneHeld ==
    ASSUME (TypeOK /\ KnownOK /\ OneUnspent /\ LeftOK)', ~HeldLive', ~KeepsLive'
    PROVE  EventInv'
  BY DEF EventInv, MemOK, CalmOK

\* A session response is drawn, or the family ends.
LEMMA DrawnGrows ==
    ASSUME TypeOK, NEW n \in Token, minted < MaxToken, n = minted + 1, minted' = n
    PROVE  /\ Drawn' = Drawn \cup {n}
           /\ n \notin Drawn
           /\ n # 0
           /\ minted' \in 0..MaxToken
  BY BoundAssumption DEF TypeOK, Drawn, Token

\* A login: nobody but the call that waits for it has its token.
LEMMA LoginOK ==
    ASSUME TypeOK, KnownOK, NEW n \in Token, NEW m, Login(n, m)
    PROVE  /\ Drawn' = Drawn \cup {n} /\ n \notin Drawn /\ minted' \in 0..MaxToken
           /\ alive' = n /\ spent' = {} /\ mode' = m
           /\ family' \in [Token -> Token]
           /\ \A t \in Token : t \in Drawn' => family'[t] \in Drawn'
           /\ \A t \in Drawn : ~Of(t)'
           /\ OneUnspent'
  <1>1. /\ Drawn' = Drawn \cup {n} /\ n \notin Drawn /\ n # 0 /\ minted' \in 0..MaxToken
    BY DrawnGrows DEF Login
  <1>2. /\ alive' = n /\ spent' = {} /\ mode' = m
        /\ family' \in [Token -> Token] /\ family'[n] = n
        /\ \A t \in Token : t # n => family'[t] = family[t]
    BY DEF Login, TypeOK
  <1>d. \A t \in Drawn : t # 0 => t \in Token
    BY BoundAssumption DEF Drawn, Token, TypeOK
  <1>3. \A t \in Drawn : ~Of(t)'
    BY <1>1, <1>2, <1>d DEF Of, KnownOK
  <1>4. \A t \in Token : t \in Drawn' => family'[t] \in Drawn'
    BY <1>1, <1>2 DEF KnownOK
  <1>5. OneUnspent'
    BY <1>1, <1>3 DEF OneUnspent
  <1> QED BY <1>1, <1>2, <1>3, <1>4, <1>5

LEMMA EndsOK ==
    ASSUME TypeOK, KnownOK, Ends, UNCHANGED <<minted, family>>
    PROVE  /\ Drawn' = Drawn
           /\ \A t \in Drawn : ~Of(t)'
           /\ OneUnspent'
  <1>1. Drawn' = Drawn
    BY DEF Drawn
  <1>d. \A t \in Drawn : t # 0 => t \in Token
    BY BoundAssumption DEF Drawn, Token, TypeOK
  <1>2. \A t \in Drawn : ~Of(t)'
    <2>1. \A t \in Token : family[t] # 0
      BY BoundAssumption DEF TypeOK, Token
    <2> QED BY <1>d, <2>1 DEF Of, Ends
  <1>3. OneUnspent'
    BY <1>1, <1>2 DEF OneUnspent
  <1> QED BY <1>1, <1>2, <1>3

\* A refresh spends the one token that was not used up.
LEMMA ServedOK ==
    ASSUME TypeOK, KnownOK, OneUnspent, NEW n \in Token, RefreshServed(n)
    PROVE  /\ Drawn' = Drawn \cup {n} /\ n \notin Drawn /\ minted' \in 0..MaxToken
           /\ family' \in [Token -> Token]
           /\ \A t \in Token : t \in Drawn' => family'[t] \in Drawn'
           /\ \A t \in Drawn : Of(t)' => t \in spent'
           /\ OneUnspent'
  <1>1. /\ Drawn' = Drawn \cup {n} /\ n \notin Drawn /\ n # 0 /\ minted' \in 0..MaxToken
    BY DrawnGrows DEF RefreshServed
  <1>d. \A t \in Drawn : t # 0 => t \in Token
    BY BoundAssumption DEF Drawn, Token, TypeOK
  <1>e. Of(refresh.sess.tok) /\ refresh.sess.tok \notin spent /\ refresh.sess.tok \in Drawn
    BY DEF RefreshServed, Live, KnownOK
  <1>f. alive \in Token /\ alive \in Drawn
    BY <1>d, <1>e DEF Of, TypeOK, KnownOK
  <1>2. /\ family' = [family EXCEPT ![n] = alive] /\ spent' = spent \cup {refresh.sess.tok}
        /\ alive' = alive
    BY DEF RefreshServed
  <1>3. /\ family' \in [Token -> Token] /\ family'[n] = alive
        /\ \A t \in Token : t # n => family'[t] = family[t]
    BY <1>2, <1>f DEF TypeOK
  <1>4. \A t \in Token : t \in Drawn' => family'[t] \in Drawn'
    BY <1>1, <1>3, <1>f DEF KnownOK
  <1>5. \A t \in Drawn : Of(t)' => t \in spent'
    <2>1. \A t \in Drawn : Of(t)' => Of(t)
      BY <1>1, <1>2, <1>3, <1>d DEF Of
    <2> QED BY <1>2, <1>e, <2>1 DEF OneUnspent
  <1>6. OneUnspent'
    BY <1>1, <1>5 DEF OneUnspent
  <1> QED BY <1>1, <1>3, <1>4, <1>5, <1>6

LEMMA LoginStep ==
    ASSUME EventInv, NEW c \in Call, NEW n \in Token, NEW m \in Mode, Login(n, m),
           NEW r \in CallType, r.pc = "answered", r.left # 1, r.sess.tok = n, Becomes(c, r),
           mem' \in {0, mem}, mfaOn' \in BOOLEAN,
           UNCHANGED <<uses, stored, user, force, recent, event, notice, refresh, why, trouble>>
    PROVE  EventInv'
  <1>0. TypeOK /\ KnownOK /\ OneUnspent /\ LeftOK
    BY DEF EventInv
  <1>3. /\ Drawn' = Drawn \cup {n} /\ n \notin Drawn /\ minted' \in 0..MaxToken
        /\ alive' = n /\ spent' = {} /\ mode' = m
        /\ family' \in [Token -> Token]
        /\ \A t \in Token : t \in Drawn' => family'[t] \in Drawn'
        /\ \A t \in Drawn : ~Of(t)'
        /\ OneUnspent'
    BY <1>0, LoginOK
  <1>10. /\ call' \in [Call -> CallType] /\ call'[c] = r
         /\ \A d \in Call : d # c => call'[d] = call[d]
    BY <1>0, CallTypes
  <1>12. TypeOK'
    BY <1>0, <1>3, <1>10 DEF TypeOK
  <1>13. KnownOK'
    <2>1. \A d \in Call : call'[d].sess.tok \in Drawn'
      BY <1>0, <1>3, <1>10 DEF KnownOK
    <2>2. mem' \in Drawn'
      BY <1>0, <1>3 DEF KnownOK, Drawn, TypeOK
    <2> QED BY <1>0, <1>3, <2>1, <2>2 DEF KnownOK
  <1>14. LeftOK'
    BY <1>0, <1>10 DEF LeftOK, At
  <1>15. ~HeldLive' /\ ~KeepsLive'
    <2>1. \A s : s.tok \in Drawn => ~Live(s)'
      BY <1>3 DEF Live, Of
    <2> QED BY <1>0, <1>10, <2>1 DEF HeldLive, KeepsLive, KnownOK, Live, Of, At
  <1> QED BY <1>3, <1>12, <1>13, <1>14, <1>15, NoneHeld

LEMMA DrawStep ==
    ASSUME EventInv, NEW c \in Call, NEW n \in Token,
           Post(c, n) \/ \E trusted \in BOOLEAN : ServedSwap(c, n, trusted)
    PROVE  EventInv'
  <1> USE DEF flagVars
  <1>0. TypeOK /\ LeftOK /\ call[c] \in CallType
    BY DEF EventInv, TypeOK
  <1>t. ASSUME NEW m \in Mode
        PROVE  /\ [tok |-> n, mode |-> m] \in Sess
               /\ [tok |-> n, mode |-> m].tok = n
    BY DEF Sess
  <1>1. CASE Post(c, n)
    <2>1. PICK m \in Mode : m = ModeOf(mfaOn)
      BY DEF ModeOf, Mode
    <2>2. PICK t \in Sess : t = [tok |-> n, mode |-> m] /\ t.tok = n
      BY <1>t
    <2>3. PICK left \in 0..2 : left = (IF mfaOn THEN 2 ELSE 0) /\ left # 1
      OBVIOUS
    <2>4. PICK r : r = [call[c] EXCEPT !.pc = "answered", !.from = "post", !.left = left, !.sess = t]
      OBVIOUS
    <2>5. r \in CallType /\ r.pc = "answered" /\ r.left = left /\ r.sess = t
      BY <1>0, <2>4 DEF CallType, Sess
    <2>6. Becomes(c, r)
      BY <1>1, <2>1, <2>2, <2>3, <2>4 DEF Post
    <2>7. Login(n, m) /\ mfaOn' \in BOOLEAN
      BY <1>0, <1>1, <2>1 DEF Post, TypeOK
    <2> QED BY <1>1, <2>2, <2>3, <2>5, <2>6, <2>7, LoginStep DEF Post
  <1>2. ASSUME NEW trusted \in BOOLEAN, ServedSwap(c, n, trusted) PROVE EventInv'
    <2>1. PICK m \in Mode : m = IF mfaOn THEN "off" ELSE IF trusted THEN "trusted" ELSE "asks"
      BY DEF Mode
    <2>2. PICK t \in Sess : t = [tok |-> n, mode |-> m] /\ t.tok = n
      BY <1>t
    <2>3. call[c].left # 1
      BY <1>0, <1>2 DEF ServedSwap, Authentic, LeftOK, At
    <2>4. PICK r : r = [call[c] EXCEPT !.pc = "answered", !.from = "swap", !.sess = t]
      OBVIOUS
    <2>5. r \in CallType /\ r.pc = "answered" /\ r.left = call[c].left /\ r.sess = t
      BY <1>0, <2>4 DEF CallType, Sess
    <2>6. Becomes(c, r)
      BY <1>2, <2>1, <2>2, <2>4 DEF ServedSwap
    <2>7. Login(n, m)
      BY <1>2, <2>1 DEF ServedSwap
    <2>8. mfaOn' \in BOOLEAN
      BY <1>0, <1>2 DEF ServedSwap, TypeOK
    <2> QED BY <1>2, <2>2, <2>3, <2>5, <2>6, <2>7, <2>8, LoginStep DEF ServedSwap
  <1> QED BY <1>1, <1>2

\* The calls that waited for the refresh go on, the others stay.
LEMMA SettleIs ==
    ASSUME EventInv, NEW e \in {"ok", "mfa", "dead", "limit", "other"}, NEW s \in Sess,
           s.tok \in Drawn, NEW token, Settle(e, s, token)
    PROVE  /\ call' \in [Call -> CallType]
           /\ mem' \in {0, token}
           /\ refresh' = NoRefresh
           /\ \A d \in Call :
                 \/ call'[d] = call[d]
                 \/ /\ At(d, "wait") /\ Fit(call'[d])
                    /\ call'[d].pc \in {"revoke", "wipe", "idle", "create", "have", "post", "clear"}
                    /\ call'[d].pc = "clear" => e = "dead"
                    /\ call'[d].pc = "have" => e = "ok" /\ call'[d].sess.tok = s.tok
  <1>0. TypeOK /\ KnownOK
    BY DEF EventInv
  <1>1. /\ mem' \in {0, token}
        /\ refresh' = NoRefresh
        /\ call' = [d \in Call |-> IF At(d, "wait") THEN Resumed(call[d], e, s) ELSE call[d]]
    BY DEF Settle
  <1>2. ASSUME NEW d \in Call, At(d, "wait")
        PROVE  /\ Fit(Resumed(call[d], e, s))
               /\ Resumed(call[d], e, s).pc \in {"revoke", "wipe", "idle", "create", "have", "post", "clear"}
               /\ Resumed(call[d], e, s).pc = "clear" => e = "dead"
               /\ Resumed(call[d], e, s).pc = "have" =>
                      e = "ok" /\ Resumed(call[d], e, s).sess.tok = s.tok
    <2>1. Fit(call[d])
      BY <1>2, CallFit DEF At
    <2>2. PICK q \in CallType : q = call[d]
      BY <2>1 DEF Fit
    <2>3. PICK r : r = Resumed(q, e, s)
      OBVIOUS
    <2>4. /\ r \in CallType
          /\ r.pc \in {"revoke", "wipe", "idle", "create", "have", "post", "clear"}
          /\ r.pc = "clear" => e = "dead"
          /\ r.pc = "have" => e = "ok" /\ r.sess.tok = s.tok
          /\ r.left \in {0, q.left}
          /\ r.sess.tok \in {0, q.sess.tok, s.tok}
      BY <2>3, ResumedFit
    <2>5. 0 \in Drawn
      BY <1>0 DEF Drawn, TypeOK
    <2>6. Fit(r)
      BY <2>1, <2>2, <2>4, <2>5 DEF Fit
    <2> QED BY <2>2, <2>3, <2>4, <2>6
  <1>3. \A d \in Call : At(d, "wait") => Resumed(call[d], e, s) \in CallType
    BY <1>2 DEF Fit
  <1>4. call' \in [Call -> CallType]
    BY <1>0, <1>1, <1>3 DEF TypeOK
  <1>5. \A d \in Call : call'[d] = IF At(d, "wait") THEN Resumed(call[d], e, s) ELSE call[d]
    BY <1>1
  <1> QED BY <1>1, <1>2, <1>4, <1>5

\* A refresh that fails: the session goes on living, or something slipped or
\* ended that makes the question moot.
LEMMA FailedRefresh ==
    ASSUME EventInv, NEW e \in {"mfa", "dead", "limit", "other"}, Settle(e, NoSession, mem),
           UNCHANGED <<minted, family, mfaOn, stored, flagVars, uses>>,
           UNCHANGED <<alive, spent, mode>> \/ Ends,
           why' = why \/ why' = why \cup {"slipped"}, trouble' \in 0..MaxTrouble,
           "slipped" \notin why' => refresh.pc # "keep",
           Ends \/ ("slipped" \notin why /\ HeldLive /\ ~recent => e # "dead")
    PROVE  EventInv'
  <1> USE DEF flagVars
  <1>0. TypeOK /\ KnownOK /\ OneUnspent /\ LeftOK
    BY DEF EventInv
  <1>z. 0 \in Drawn /\ Drawn' = Drawn
    BY <1>0 DEF Drawn, TypeOK
  <1>1. /\ call' \in [Call -> CallType]
        /\ mem' \in {0, mem}
        /\ refresh' = NoRefresh
        /\ \A d \in Call :
              \/ call'[d] = call[d]
              \/ /\ At(d, "wait") /\ Fit(call'[d])
                 /\ call'[d].pc \in {"revoke", "wipe", "idle", "create", "have", "post", "clear"}
                 /\ call'[d].pc = "clear" => e = "dead"
                 /\ call'[d].pc # "have"
    BY <1>z, SettleIs, NoSessionIs
  <1>2. /\ alive' \in {0} \cup Token /\ alive' \in Drawn /\ spent' \subseteq Token
        /\ spent' \subseteq Drawn /\ mode' \in Mode
    BY <1>0, <1>z DEF TypeOK, KnownOK, Ends, Mode
  <1>3. TypeOK'
    <2>1. /\ refresh' \in [pc : {"none", "read", "sent", "answered", "keep"}, sess : Session]
          /\ refresh'.pc \in {"sent", "answered", "keep"} <=> refresh'.sess # NoSession
      BY <1>1 DEF NoRefresh, Session
    <2>2. mem' \in {0} \cup Token /\ why' \subseteq {"ended", "slipped"}
      BY <1>0, <1>1 DEF TypeOK
    <2> QED BY <1>0, <1>1, <1>2, <2>1, <2>2 DEF TypeOK
  <1>4. KnownOK'
    <2>1. refresh'.sess.tok = 0
      BY <1>1, NoSessionIs DEF NoRefresh
    <2>2. \A d \in Call : call'[d].sess.tok \in Drawn
      BY <1>0, <1>1 DEF KnownOK, Fit
    <2>3. mem' \in Drawn
      BY <1>0, <1>1, <1>z DEF KnownOK
    <2> QED BY <1>0, <1>2, <1>z, <2>1, <2>2, <2>3 DEF KnownOK
  <1>5. LeftOK'
    BY <1>0, <1>1 DEF LeftOK, Fit, At
  <1>6. CASE Ends
    <2>1. (\A t \in Drawn : ~Of(t)') /\ OneUnspent'
      BY <1>0, <1>6, EndsOK
    <2>2. \A s : s.tok \in Drawn => ~Live(s)'
      BY <2>1 DEF Live, Of
    <2>3. ~HeldLive' /\ ~KeepsLive'
      BY <1>4, <1>z, <2>2 DEF KnownOK, HeldLive, KeepsLive, Live, Of, At
    <2> QED BY <1>3, <1>4, <1>5, <2>1, <2>3, NoneHeld
  <1>7. CASE UNCHANGED <<alive, spent, mode>> /\ ("slipped" \notin why /\ HeldLive /\ ~recent => e # "dead")
    <2>1. OneUnspent'
      BY <1>0, <1>7, <1>z DEF OneUnspent, Of
    <2>2. (\A s : Live(s)' <=> Live(s)) /\ (\A t : Of(t)' <=> Of(t))
      BY <1>7 DEF Live, Of
    <2>3. HeldLive' => HeldLive
      BY <1>1, <2>2 DEF HeldLive, At
    <2>4. ASSUME "slipped" \notin why' PROVE (MemOK /\ CalmOK)'
      <3>1. MemOK /\ CalmOK /\ "slipped" \notin why
        BY <2>4 DEF EventInv
      <3>2. (KeepsLive' => KeepsLive) /\ (KeepsDead => KeepsDead')
        BY <1>1, <2>2, <2>4 DEF KeepsLive, KeepsDead, At, NoRefresh
      <3>3. MemOK'
        BY <1>1, <2>2, <2>3, <3>1, <3>2 DEF MemOK
      <3>4. ASSUME HeldLive', ~recent', NEW d \in Call PROVE CalmCall(call[d])'
        <4>1. HeldLive /\ ~recent /\ e # "dead"
          BY <1>7, <2>3, <3>1, <3>4
        <4>2. PICK q : q = call'[d]
          OBVIOUS
        <4>3. CalmCall(q)
          BY <1>1, <3>1, <4>1, <4>2 DEF CalmOK, CalmCall
        <4>4. CalmCall(q)'
          BY <2>2, <4>3 DEF CalmCall
        <4> QED BY <4>2, <4>4 DEF CalmCall, Live, Of
      <3>5. CalmOK'
        <4>1. HeldLive' /\ ~recent' => (stored = NoSession \/ Live(stored))'
          BY <2>2, <2>3, <3>1 DEF CalmOK
        <4> QED BY <1>1, <3>4, <4>1 DEF CalmOK, NoRefresh
      <3> QED BY <3>3, <3>5
    <2> QED BY <1>3, <1>4, <1>5, <2>1, <2>4 DEF EventInv
  <1> QED BY <1>6, <1>7

\* What the invariant says of calls that a step leaves alone.
LEMMA SameServer ==
    ASSUME UNCHANGED <<minted, family, alive, spent>>
    PROVE  /\ Drawn' = Drawn
           /\ \A s : Live(s)' <=> Live(s)
           /\ \A t : Of(t)' <=> Of(t)
           /\ OneUnspent => OneUnspent'
           /\ \A r : CalmCall(r)' <=> CalmCall(r)
  <1>1. Drawn' = Drawn
    BY DEF Drawn
  <1>2. /\ \A s : Live(s)' <=> Live(s)
        /\ \A t : Of(t)' <=> Of(t)
    BY DEF Live, Of
  <1>3. OneUnspent => OneUnspent'
    BY <1>1, <1>2 DEF OneUnspent
  <1>4. \A r : CalmCall(r)' <=> CalmCall(r)
    BY <1>2 DEF CalmCall
  <1> QED BY <1>1, <1>2, <1>3, <1>4

LEMMA RefreshGoes ==
    ASSUME EventInv, RefreshStep, ~RefreshKept
    PROVE  EventInv'
  <1> USE DEF flagVars, serverVars
  <1>0. TypeOK /\ KnownOK /\ OneUnspent /\ LeftOK
    BY DEF EventInv
  <1>1. CASE RefreshRead /\ stored = NoSession
    <2>1. trouble' \in 0..MaxTrouble
      BY <1>0, <1>1 DEF RefreshRead, TypeOK
    <2>2. Settle("other", NoSession, mem) /\ refresh.pc = "read"
      BY <1>1 DEF RefreshRead
    <2> QED BY <1>1, <2>1, <2>2, FailedRefresh DEF RefreshRead
  <1>2. CASE RefreshRead /\ stored # NoSession
    <2>1. /\ refresh' = [pc |-> "sent", sess |-> stored] /\ refresh.pc = "read"
          /\ UNCHANGED <<serverVars, stored, flagVars, call, mem, uses, why, trouble>>
      BY <1>2 DEF RefreshRead
    <2>2. /\ refresh' \in [pc : {"none", "read", "sent", "answered", "keep"}, sess : Session]
          /\ refresh'.pc = "sent" /\ refresh'.sess = stored
      BY <1>0, <2>1 DEF TypeOK
    <2>3. TypeOK'
      BY <1>0, <1>2, <2>1, <2>2 DEF TypeOK
    <2>4. /\ Drawn' = Drawn /\ OneUnspent'
          /\ \A s : Live(s)' <=> Live(s)
          /\ \A t : Of(t)' <=> Of(t)
          /\ \A r : CalmCall(r)' <=> CalmCall(r)
      BY <1>0, <2>1, SameServer
    <2>5. KnownOK' /\ LeftOK'
      BY <1>0, <2>1, <2>2, <2>4 DEF KnownOK, LeftOK, At
    <2>6. HeldLive' <=> HeldLive
      BY <2>1, <2>4 DEF HeldLive, At
    <2>7. (KeepsLive' <=> KeepsLive) /\ (KeepsDead <=> KeepsDead')
      BY <2>1, <2>2, <2>4 DEF KeepsLive, KeepsDead, At
    <2>8. MemOK => MemOK'
      BY <2>1, <2>4, <2>6, <2>7 DEF MemOK
    <2>9. CalmOK => CalmOK'
      BY <1>2, <2>1, <2>2, <2>4, <2>6 DEF CalmOK
    <2> QED BY <2>1, <2>3, <2>4, <2>5, <2>8, <2>9 DEF EventInv
  <1>3. ASSUME NEW n \in Token, RefreshServed(n) PROVE EventInv'
    <2>1. /\ Drawn' = Drawn \cup {n} /\ n \notin Drawn /\ minted' \in 0..MaxToken
          /\ family' \in [Token -> Token]
          /\ \A t \in Token : t \in Drawn' => family'[t] \in Drawn'
          /\ \A t \in Drawn : Of(t)' => t \in spent'
          /\ OneUnspent'
      BY <1>0, <1>3, ServedOK
    <2>2. /\ refresh' = [pc |-> "answered", sess |-> [tok |-> n, mode |-> mode]]
          /\ UNCHANGED <<alive, mode, mfaOn, mem, stored, flagVars, call, uses, why, trouble>>
          /\ spent' = spent \cup {refresh.sess.tok} /\ Live(refresh.sess)
      BY <1>3 DEF RefreshServed
    <2>3. /\ refresh' \in [pc : {"none", "read", "sent", "answered", "keep"}, sess : Session]
          /\ refresh'.pc = "answered" /\ refresh'.sess.tok = n /\ refresh'.sess # NoSession
      <3>1. PICK s : s = [tok |-> n, mode |-> mode]
        OBVIOUS
      <3>2. s \in Session /\ s.tok = n
        BY <1>0, <3>1 DEF Session, TypeOK
      <3>3. n # 0
        BY <1>0, <2>1 DEF Drawn, TypeOK
      <3>4. s # NoSession
        BY <3>2, <3>3, NoSessionIs
      <3> QED BY <2>2, <3>1, <3>2, <3>4
    <2>4. refresh.sess.tok \in Token
      <3>1. refresh.sess.tok # 0 /\ refresh.sess \in Session
        BY <1>0, <2>2 DEF Live, Of, TypeOK
      <3> QED BY <3>1, NoSessionIs DEF Session
    <2>5. TypeOK'
      BY <1>0, <2>1, <2>2, <2>3, <2>4 DEF TypeOK
    <2>6. KnownOK'
      BY <1>0, <2>1, <2>2, <2>3 DEF KnownOK
    <2>7. LeftOK'
      BY <1>0, <2>2 DEF LeftOK, At
    <2>8. \A s : s.tok \in Drawn => ~Live(s)'
      BY <2>1 DEF Live
    <2>9. ~HeldLive' /\ ~KeepsLive'
      BY <1>0, <2>2, <2>3, <2>8 DEF HeldLive, KeepsLive, KnownOK, At
    <2> QED BY <2>1, <2>5, <2>6, <2>7, <2>9, NoneHeld
  <1>4. CASE RefreshDead
    <2>1. UNCHANGED <<alive, spent, mode>> \/ Ends
      BY <1>4 DEF RefreshDead
    <2>2. trouble' \in 0..MaxTrouble
      BY <1>0, <1>4 DEF RefreshDead, TypeOK
    <2>3. ~("slipped" \notin why /\ HeldLive /\ ~recent)
      BY <1>4 DEF RefreshDead, EventInv, CalmOK
    <2>4. Settle("dead", NoSession, mem) /\ refresh.pc = "sent"
      BY <1>4 DEF RefreshDead
    <2> QED BY <1>4, <2>1, <2>2, <2>3, <2>4, FailedRefresh DEF RefreshDead
  <1>5. CASE RefreshNeedsMfa
    <2>1. trouble' \in 0..MaxTrouble
      BY <1>0, <1>5 DEF RefreshNeedsMfa, TypeOK
    <2>2. Settle("mfa", NoSession, mem) /\ refresh.pc = "sent"
      BY <1>5 DEF RefreshNeedsMfa
    <2> QED BY <1>5, <2>1, <2>2, FailedRefresh DEF RefreshNeedsMfa
  <1>6. CASE RefreshLimited
    <2>1. trouble' \in 0..MaxTrouble
      BY <1>0, <1>6, TroubleOK DEF RefreshLimited
    <2>2. Settle("limit", NoSession, mem) /\ refresh.pc = "sent"
      BY <1>6 DEF RefreshLimited
    <2> QED BY <1>6, <2>1, <2>2, FailedRefresh DEF RefreshLimited
  <1>7. CASE RefreshLost
    <2>1. trouble' \in 0..MaxTrouble
      BY <1>0, <1>7, TroubleOK DEF RefreshLost
    <2>2. Settle("other", NoSession, mem) /\ refresh.pc \in {"sent", "answered"}
      BY <1>7 DEF RefreshLost
    <2>3. why' = why \/ why' = why \cup {"slipped"}
      BY <1>7 DEF RefreshLost
    <2> QED BY <1>7, <2>1, <2>2, <2>3, FailedRefresh DEF RefreshLost
  <1>8. CASE RefreshNotKept
    <2>1. trouble' \in 0..MaxTrouble
      BY <1>0, <1>8, TroubleOK DEF RefreshNotKept
    <2>2. Settle("other", NoSession, mem) /\ why' = why \cup {"slipped"}
      BY <1>8 DEF RefreshNotKept
    <2> QED BY <1>8, <2>1, <2>2, FailedRefresh DEF RefreshNotKept
  <1>9. CASE RefreshAnswered
    <2>1. /\ refresh.pc = "answered" /\ mem' = refresh.sess.tok
          /\ refresh' = [refresh EXCEPT !.pc = "keep"]
          /\ UNCHANGED <<serverVars, stored, flagVars, call, uses, why, trouble>>
      BY <1>9 DEF RefreshAnswered
    <2>2. /\ refresh' \in [pc : {"none", "read", "sent", "answered", "keep"}, sess : Session]
          /\ refresh'.pc = "keep" /\ refresh'.sess = refresh.sess
      BY <1>0, <2>1 DEF TypeOK
    <2>t. mem' \in {0} \cup Token
      BY <1>0, <2>1, NoSessionIs DEF TypeOK, Session, Sess
    <2>3. TypeOK'
      BY <1>0, <2>1, <2>2, <2>t DEF TypeOK
    <2>4. /\ Drawn' = Drawn /\ OneUnspent'
          /\ \A s : Live(s)' <=> Live(s)
          /\ \A t : Of(t)' <=> Of(t)
          /\ \A r : CalmCall(r)' <=> CalmCall(r)
      BY <1>0, <2>1, SameServer
    <2>5. KnownOK' /\ LeftOK'
      BY <1>0, <2>1, <2>2, <2>4 DEF KnownOK, LeftOK, At
    <2>6. HeldLive' <=> HeldLive
      BY <2>1, <2>4 DEF HeldLive, At
    <2>7. MemOK'
      <3>1. CASE Live(refresh.sess)
        <4>1. Of(mem')
          BY <2>1, <3>1 DEF Live
        <4> QED BY <2>4, <4>1 DEF MemOK
      <3>2. CASE ~Live(refresh.sess)
        <4>1. KeepsDead'
          BY <2>2, <2>4, <3>2 DEF KeepsDead
        <4> QED BY <4>1 DEF MemOK
      <3> QED BY <3>1, <3>2
    <2>8. CalmOK => CalmOK'
      BY <2>1, <2>4, <2>6 DEF CalmOK
    <2> QED BY <2>1, <2>3, <2>4, <2>5, <2>7, <2>8 DEF EventInv
  <1> QED BY <1>1, <1>2, <1>3, <1>4, <1>5, <1>6, <1>7, <1>8, <1>9 DEF RefreshStep

LEMMA SessionSess == \A s \in Session : s \in Sess
  BY NoSessionIs DEF Session, Sess

LEMMA RefreshKeeps ==
    ASSUME EventInv, RefreshKept
    PROVE  EventInv'
  <1> USE DEF flagVars, serverVars
  <1>0. TypeOK /\ KnownOK /\ OneUnspent /\ LeftOK
    BY DEF EventInv
  <1>1. /\ refresh.pc = "keep" /\ stored' = refresh.sess /\ recent' = TRUE
        /\ Settle("ok", refresh.sess, mem)
        /\ why' = IF Live(refresh.sess) THEN why ELSE why \cup {"slipped"}
        /\ UNCHANGED <<uses, serverVars, user, force, event, notice, trouble>>
    BY DEF RefreshKept, Stores
  <1>2. refresh.sess \in Session /\ refresh.sess \in Sess /\ refresh.sess.tok \in Drawn
    BY <1>0, SessionSess DEF TypeOK, KnownOK
  <1>3. /\ call' \in [Call -> CallType]
        /\ mem' \in {0, mem}
        /\ refresh' = NoRefresh
        /\ \A d \in Call :
              \/ call'[d] = call[d]
              \/ At(d, "wait") /\ Fit(call'[d]) /\ call'[d].pc \notin {"keep", "write"}
    <2>1. PICK s \in Sess : s = refresh.sess
      BY <1>2
    <2>2. s.tok \in Drawn /\ Settle("ok", s, mem)
      BY <1>1, <1>2, <2>1
    <2>3. /\ call' \in [Call -> CallType]
          /\ mem' \in {0, mem}
          /\ refresh' = NoRefresh
          /\ \A d \in Call :
                \/ call'[d] = call[d]
                \/ /\ At(d, "wait") /\ Fit(call'[d])
                   /\ call'[d].pc \in {"revoke", "wipe", "idle", "create", "have", "post", "clear"}
      BY <2>2, SettleIs
    <2> QED BY <2>3
  <1>4. TypeOK'
    <2>1. /\ refresh' \in [pc : {"none", "read", "sent", "answered", "keep"}, sess : Session]
          /\ refresh'.pc \in {"sent", "answered", "keep"} <=> refresh'.sess # NoSession
      BY <1>3 DEF NoRefresh, Session
    <2>2. mem' \in {0} \cup Token /\ why' \subseteq {"ended", "slipped"}
      BY <1>0, <1>1, <1>3 DEF TypeOK
    <2> QED BY <1>0, <1>1, <1>2, <1>3, <2>1, <2>2 DEF TypeOK
  <1>5. /\ Drawn' = Drawn /\ OneUnspent'
        /\ \A s : Live(s)' <=> Live(s)
        /\ \A t : Of(t)' <=> Of(t)
        /\ \A r : CalmCall(r)' <=> CalmCall(r)
    BY <1>0, <1>1, SameServer
  <1>6. KnownOK'
    <2>1. refresh'.sess.tok = 0 /\ 0 \in Drawn
      BY <1>0, <1>3, NoSessionIs DEF NoRefresh, Drawn, TypeOK
    <2>2. \A d \in Call : call'[d].sess.tok \in Drawn
      BY <1>0, <1>3 DEF KnownOK, Fit
    <2>3. mem' \in Drawn
      BY <1>0, <1>3, <2>1 DEF KnownOK
    <2> QED BY <1>0, <1>1, <1>2, <1>5, <2>1, <2>2, <2>3 DEF KnownOK
  <1>7. LeftOK'
    BY <1>0, <1>1, <1>3 DEF LeftOK, Fit, At
  <1>8. CalmOK'
    BY <1>1 DEF CalmOK
  <1>9. ASSUME "slipped" \notin why' PROVE MemOK'
    <2>1. Live(refresh.sess) /\ "slipped" \notin why
      BY <1>1, <1>9
    <2>2. KeepsLive
      BY <1>1, <2>1 DEF KeepsLive
    <2>3. mem = 0 \/ Of(mem) \/ KeepsDead
      BY <2>1, <2>2 DEF EventInv, MemOK
    <2>4. KeepsDead => KeepsDead'
      BY <1>3, <1>5, <2>1 DEF KeepsDead, At
    <2>5. mem' = 0 \/ Of(mem)' \/ KeepsDead'
      BY <1>5, <2>3, <2>4, <1>3
    <2> QED BY <1>3, <1>5, <2>3, <2>4 DEF MemOK
  <1> QED BY <1>4, <1>5, <1>6, <1>7, <1>8, <1>9 DEF EventInv

\* A call that gives up what it was about to keep, or that cannot keep it.
LEMMA SlipStep ==
    ASSUME EventInv, NEW c \in Call, Becomes(c, Idle), why' = why \cup {"slipped"},
           UNCHANGED <<serverVars, mem, stored, flagVars, refresh, uses>>, trouble' \in 0..MaxTrouble
    PROVE  EventInv'
  <1> USE DEF flagVars, serverVars
  <1>0. TypeOK /\ KnownOK /\ OneUnspent /\ LeftOK
    BY DEF EventInv
  <1>1. /\ call' \in [Call -> CallType] /\ call'[c] = Idle
        /\ \A d \in Call : d # c => call'[d] = call[d]
    BY <1>0, CallTypes, IdleFit
  <1>2. TypeOK'
    BY <1>0, <1>1 DEF TypeOK
  <1>3. Drawn' = Drawn /\ OneUnspent'
    BY <1>0, SameServer
  <1>4. KnownOK'
    <2>1. \A d \in Call : call'[d].sess.tok \in Drawn
      BY <1>0, <1>1, IdleFit DEF KnownOK, Drawn, TypeOK
    <2> QED BY <1>0, <1>3, <2>1 DEF KnownOK
  <1>5. LeftOK'
    BY <1>0, <1>1, IdleFit DEF LeftOK, At
  <1> QED BY <1>2, <1>3, <1>4, <1>5 DEF EventInv

LEMMA AnswerStep ==
    ASSUME EventInv, NEW c \in Call, Answered(c) \/ AnswerLost(c) \/ KeepFails(c)
    PROVE  EventInv'
  <1> USE DEF flagVars, serverVars
  <1>0. TypeOK /\ KnownOK /\ OneUnspent /\ LeftOK /\ call[c] \in CallType
    BY DEF EventInv, TypeOK
  <1>a. trouble' \in 0..MaxTrouble
    BY <1>0, TroubleOK DEF Answered, AnswerLost, KeepFails
  <1>1. CASE AnswerLost(c) \/ KeepFails(c) \/ (Answered(c) /\ ~user)
    BY <1>1, <1>a, SlipStep DEF AnswerLost, KeepFails, Answered
  <1>2. CASE Answered(c) /\ user
    <2>1. PICK r : r = [call[c] EXCEPT !.pc = "keep"]
      OBVIOUS
    <2>2. /\ r \in CallType /\ r.pc = "keep" /\ r.sess = call[c].sess /\ r.left = call[c].left
      BY <1>0, <2>1 DEF CallType
    <2>3. /\ At(c, "answered") /\ mem' = r.sess.tok /\ Becomes(c, r)
          /\ UNCHANGED <<uses, serverVars, stored, flagVars, refresh, trouble, why>>
      BY <1>2, <2>1, <2>2 DEF Answered, Goto
    <2>4. /\ call' \in [Call -> CallType] /\ call'[c] = r
          /\ \A d \in Call : d # c => call'[d] = call[d]
      BY <1>0, <2>2, <2>3, CallTypes
    <2>5. mem' \in {0} \cup Token
      BY <2>2, <2>3 DEF CallType
    <2>6. TypeOK'
      BY <1>0, <2>3, <2>4, <2>5 DEF TypeOK
    <2>7. /\ Drawn' = Drawn /\ OneUnspent'
          /\ \A s : Live(s)' <=> Live(s)
          /\ \A t : Of(t)' <=> Of(t)
          /\ \A q : CalmCall(q)' <=> CalmCall(q)
      BY <1>0, <2>3, SameServer
    <2>8. KnownOK'
      BY <1>0, <2>2, <2>3, <2>4, <2>7 DEF KnownOK
    <2>9. LeftOK'
      BY <1>0, <2>2, <2>3, <2>4 DEF LeftOK, At
    <2>10. HeldLive' => HeldLive
      BY <2>2, <2>3, <2>4, <2>7 DEF HeldLive, At
    <2>11. MemOK'
      <3>1. CASE Live(r.sess)
        <4>1. Of(mem')
          BY <2>3, <3>1 DEF Live
        <4> QED BY <2>7, <4>1 DEF MemOK
      <3>2. CASE ~Live(r.sess)
        <4>1. KeepsDead'
          BY <2>2, <2>4, <2>7, <3>2 DEF KeepsDead, At
        <4> QED BY <4>1 DEF MemOK
      <3> QED BY <3>1, <3>2
    <2>12. CalmOK => CalmOK'
      <3>1. CalmOK => ~HeldLive \/ recent
        BY <2>3 DEF CalmOK, CalmCall, At
      <3> QED BY <2>3, <2>10, <3>1 DEF CalmOK
    <2> QED BY <2>3, <2>6, <2>7, <2>8, <2>9, <2>11, <2>12 DEF EventInv
  <1>3. CASE Answered(c)
    <2>1. CASE user
      BY <1>2, <1>3, <2>1
    <2>2. CASE ~user
      BY <1>1, <1>3, <2>2
    <2> QED BY <2>1, <2>2
  <1> QED BY <1>1, <1>3

\* Where a call goes after a write of storeSessionResponse.
LEMMA KeptFit ==
    ASSUME EventInv, NEW c \in Call, Keep(c)
    PROVE  \E g \in CallType :
              /\ Becomes(c, g)
              /\ g.left = 1 => g.pc = "keep" /\ call[c].left = 2
              /\ g.sess.tok \in {0, call[c].sess.tok}
              /\ g.pc \in {"keep", "answered"} => g.sess = call[c].sess
              /\ g.pc # "write"
  <1>1. PICK r \in CallType : r = call[c] /\ r.pc = "keep"
    BY DEF EventInv, TypeOK, Keep, At
  <1> DEFINE g == CASE r.left = 2 -> [r EXCEPT !.left = 1]
                    [] r.left = 1 -> [r EXCEPT !.left = 0, !.from = "kept", !.pc = "answered"]
                    [] r.from = "swap" -> Idle
                    [] OTHER -> Got(r, r.sess)
  <1>2. Becomes(c, g)
    BY <1>1 DEF Keep
  <1>3. \/ g = [r EXCEPT !.left = 1] /\ r.left = 2
        \/ g = [r EXCEPT !.left = 0, !.from = "kept", !.pc = "answered"]
        \/ g = Idle
        \/ g = Got(r, r.sess) /\ r.left \notin {1, 2}
    <2>1. CASE r.left = 2 /\ r.from = "swap"
      BY <2>1
    <2>2. CASE r.left = 2 /\ r.from # "swap"
      BY <2>2
    <2>3. CASE r.left = 1 /\ r.from = "swap"
      BY <2>3
    <2>4. CASE r.left = 1 /\ r.from # "swap"
      BY <2>4
    <2>5. CASE r.left \notin {1, 2} /\ r.from = "swap"
      BY <2>5
    <2>6. CASE r.left \notin {1, 2} /\ r.from # "swap"
      BY <2>6
    <2> QED BY <2>1, <2>2, <2>3, <2>4, <2>5, <2>6
  <1> HIDE DEF g
  <1>4. CASE g = [r EXCEPT !.left = 1] /\ r.left = 2
    <2>1. /\ g \in CallType /\ g.left = 1 /\ g.pc = "keep" /\ g.sess = r.sess
      BY <1>1, <1>4 DEF CallType
    <2> QED BY <1>1, <1>2, <1>4, <2>1
  <1>5. CASE g = [r EXCEPT !.left = 0, !.from = "kept", !.pc = "answered"]
    <2>1. PICK p : p = [r EXCEPT !.left = 0]
      OBVIOUS
    <2>2. p \in CallType /\ p.left = 0 /\ p.sess = r.sess
      BY <1>1, <2>1 DEF CallType
    <2>4. PICK q : q = [p EXCEPT !.pc = "answered"]
      OBVIOUS
    <2>5. q \in CallType /\ q.left = 0 /\ q.sess = r.sess /\ q.pc = "answered"
      BY <2>2, <2>4 DEF CallType
    <2>6. g = [q EXCEPT !.from = "kept"]
      BY <1>1, <1>5, <2>1, <2>4 DEF CallType
    <2>3. /\ g \in CallType /\ g.left = 0 /\ g.pc = "answered" /\ g.sess = r.sess
      BY <2>5, <2>6 DEF CallType
    <2> QED BY <1>1, <1>2, <2>3
  <1>6. CASE g = Idle
    BY <1>2, <1>6, IdleFit
  <1>7. CASE g = Got(r, r.sess) /\ r.left \notin {1, 2}
    <2>1. PICK s \in Sess : s = r.sess
      BY DEF CallType, Sess
    <2>2. /\ g \in CallType /\ g.pc \in {"idle", "create", "have"}
          /\ g.left \in {0, r.left} /\ g.sess.tok \in {0, r.sess.tok}
      BY <1>7, <2>1, GotFit
    <2> QED BY <1>1, <1>2, <1>7, <2>2
  <1> QED BY <1>3, <1>4, <1>5, <1>6, <1>7

LEMMA KeepStep ==
    ASSUME EventInv, HandsOK, NEW c \in Call, Keep(c)
    PROVE  EventInv'
  <1> USE DEF flagVars, serverVars
  <1>0. TypeOK /\ KnownOK /\ OneUnspent /\ LeftOK /\ call[c] \in CallType
    BY DEF EventInv, TypeOK
  <1>1. PICK g \in CallType :
              /\ Becomes(c, g)
              /\ g.left = 1 => g.pc = "keep" /\ call[c].left = 2
              /\ g.sess.tok \in {0, call[c].sess.tok}
              /\ g.pc \in {"keep", "answered"} => g.sess = call[c].sess
              /\ g.pc # "write"
    BY KeptFit
  <1>2. /\ At(c, "keep") /\ stored' = call[c].sess
        /\ why' = IF Live(call[c].sess) THEN why ELSE why \cup {"slipped"}
        /\ recent' = (recent \/ call[c].left # 1)
        /\ force' = (force /\ (call[c].left = 1 \/ call[c].from = "swap"))
        /\ UNCHANGED <<uses, serverVars, mem, user, event, notice, refresh, trouble>>
    BY DEF Keep, Stores
  <1>3. recent' /\ recent' \in BOOLEAN
    <2>1. call[c].left = 1 => recent
      BY <1>0 DEF LeftOK
    <2> QED BY <1>2, <2>1
  <1>4. force' \in BOOLEAN
    BY <1>2, Zenon
  <1>5. /\ call' \in [Call -> CallType] /\ call'[c] = g
        /\ \A d \in Call : d # c => call'[d] = call[d]
    BY <1>0, <1>1, CallTypes
  <1>s. stored' \in Session
    <2>1. call[c].sess \in Sess /\ call[c].sess.tok # 0
      BY <1>0, <1>2 DEF CallType, Sess, HandsOK, At
    <2> QED BY <1>2, <2>1 DEF Sess, Session
  <1>6. TypeOK'
    BY <1>0, <1>2, <1>3, <1>4, <1>5, <1>s DEF TypeOK
  <1>7. /\ Drawn' = Drawn /\ OneUnspent'
        /\ \A s : Live(s)' <=> Live(s)
        /\ \A t : Of(t)' <=> Of(t)
    BY <1>0, <1>2, SameServer
  <1>8. KnownOK'
    <2>1. call[c].sess.tok \in Drawn /\ 0 \in Drawn
      BY <1>0 DEF KnownOK, Drawn, TypeOK
    <2>2. \A d \in Call : call'[d].sess.tok \in Drawn
      BY <1>0, <1>1, <1>5, <2>1 DEF KnownOK
    <2> QED BY <1>0, <1>2, <1>7, <2>1, <2>2 DEF KnownOK
  <1>9. LeftOK'
    BY <1>0, <1>1, <1>3, <1>5 DEF LeftOK, At
  <1>10. CalmOK'
    BY <1>3 DEF CalmOK
  <1>11. ASSUME "slipped" \notin why' PROVE MemOK'
    <2>1. Live(call[c].sess) /\ "slipped" \notin why
      BY <1>2, <1>11
    <2>2. KeepsLive
      BY <1>2, <2>1 DEF KeepsLive
    <2>3. mem = 0 \/ Of(mem) \/ KeepsDead
      BY <2>1, <2>2 DEF EventInv, MemOK
    <2>4. KeepsDead => KeepsDead'
      BY <1>2, <1>5, <1>7, <2>1 DEF KeepsDead, At
    <2> QED BY <1>2, <1>7, <2>3, <2>4 DEF MemOK
  <1> QED BY <1>6, <1>7, <1>8, <1>9, <1>10, <1>11 DEF EventInv

\* Copying the mode back: the session written is the live one, or it slips.
LEMMA WriteStep ==
    ASSUME EventInv, HandsOK, NEW c \in Call, Write(c)
    PROVE  EventInv'
  <1> USE DEF flagVars, serverVars
  <1>0. TypeOK /\ KnownOK /\ OneUnspent /\ LeftOK /\ call[c] \in CallType
    BY DEF EventInv, TypeOK
  <1>1. /\ At(c, "write") /\ stored' = call[c].sess /\ Becomes(c, Idle)
        /\ why' = IF Live(call[c].sess) THEN why ELSE why \cup {"slipped"}
        /\ UNCHANGED <<uses, serverVars, mem, flagVars, refresh, trouble>>
    BY DEF Write, Stores
  <1>2. /\ call' \in [Call -> CallType] /\ call'[c] = Idle
        /\ \A d \in Call : d # c => call'[d] = call[d]
    BY <1>0, <1>1, CallTypes, IdleFit
  <1>3. stored' \in Session
    <2>1. call[c].sess \in Sess /\ call[c].sess.tok # 0
      BY <1>0, <1>1 DEF CallType, Sess, HandsOK, At
    <2> QED BY <1>1, <2>1 DEF Sess, Session
  <1>4. TypeOK'
    BY <1>0, <1>1, <1>2, <1>3 DEF TypeOK
  <1>5. /\ Drawn' = Drawn /\ OneUnspent'
        /\ \A s : Live(s)' <=> Live(s)
        /\ \A t : Of(t)' <=> Of(t)
        /\ \A q : CalmCall(q)' <=> CalmCall(q)
    BY <1>0, <1>1, SameServer
  <1>6. KnownOK'
    <2>1. \A d \in Call : call'[d].sess.tok \in Drawn
      BY <1>0, <1>2, IdleFit DEF KnownOK, Drawn, TypeOK
    <2> QED BY <1>0, <1>1, <1>5, <2>1 DEF KnownOK
  <1>7. LeftOK'
    BY <1>0, <1>1, <1>2, IdleFit DEF LeftOK, At
  <1>8. ASSUME "slipped" \notin why' PROVE (MemOK /\ CalmOK)'
    <2>1. Live(call[c].sess) /\ "slipped" \notin why
      BY <1>1, <1>8
    <2>2. HeldLive /\ MemOK /\ CalmOK
      BY <1>1, <2>1 DEF HeldLive, EventInv
    <2>3. KeepsDead => KeepsDead'
      BY <1>1, <1>2, <1>5 DEF KeepsDead, At
    <2>4. MemOK'
      BY <1>1, <1>5, <2>2, <2>3 DEF MemOK
    <2>5. Live(stored)'
      BY <1>1, <1>5, <2>1
    <2>6. ASSUME ~recent, NEW d \in Call PROVE CalmCall(call[d])'
      <3>1. CalmCall(call'[d])
        BY <1>2, <2>2, <2>6, IdleFit DEF CalmOK, CalmCall
      <3>2. PICK q : q = call'[d]
        OBVIOUS
      <3>3. CalmCall(q)'
        BY <1>5, <3>1, <3>2
      <3> QED BY <3>2, <3>3 DEF CalmCall, Live, Of
    <2>7. CalmOK'
      <3>1. ~recent => (refresh.pc = "sent" => Live(refresh.sess))'
        BY <1>1, <1>5, <2>2 DEF CalmOK
      <3> QED BY <1>1, <2>2, <2>5, <2>6, <3>1 DEF CalmOK
    <2> QED BY <2>4, <2>7
  <1> QED BY <1>4, <1>5, <1>6, <1>7, <1>8 DEF EventInv

\* The stored session is dropped.
LEMMA DropStep ==
    ASSUME EventInv, NEW c \in Call, Clear(c) \/ Wipe(c)
    PROVE  EventInv'
  <1> USE DEF flagVars, serverVars
  <1>0. TypeOK /\ KnownOK /\ OneUnspent /\ LeftOK
    BY DEF EventInv
  <1>1. /\ At(c, "clear") \/ At(c, "wipe")
        /\ stored' = NoSession /\ event' \in BOOLEAN
        /\ UNCHANGED <<uses, serverVars, mem, user, force, recent, notice, refresh, why, trouble>>
    BY <1>0 DEF Clear, Wipe, TypeOK
  <1>2. PICK r : Fit(r) /\ Becomes(c, r) /\ r.pc \in {"idle", "gone"}
    <2>1. CASE Clear(c)
      <3>1. Fit(Idle)
        BY <1>0, IdleFit DEF Fit, KnownOK, Drawn, TypeOK
      <3> QED BY <2>1, <3>1, IdleFit DEF Clear
    <2>2. CASE Wipe(c)
      <3>1. Fit(call[c])
        BY <2>2, CallFit DEF Wipe, At
      <3>2. PICK q : q = call[c] /\ Fit(q)
        BY <3>1
      <3>3. PICK r : r = [q EXCEPT !.pc = "gone"]
        OBVIOUS
      <3>4. Fit(r) /\ r.pc = "gone"
        BY <3>2, <3>3 DEF Fit, CallType
      <3>5. Becomes(c, r)
        BY <2>2, <3>2, <3>3 DEF Wipe, Goto
      <3> QED BY <3>4, <3>5
    <2> QED BY <2>1, <2>2
  <1>3. /\ call' \in [Call -> CallType] /\ call'[c] = r
        /\ \A d \in Call : d # c => call'[d] = call[d]
    BY <1>0, <1>2, CallTypes DEF Fit
  <1>4. TypeOK'
    BY <1>0, <1>1, <1>3 DEF TypeOK, Session
  <1>5. /\ Drawn' = Drawn /\ OneUnspent'
        /\ \A s : Live(s)' <=> Live(s)
        /\ \A t : Of(t)' <=> Of(t)
        /\ \A q : CalmCall(q)' <=> CalmCall(q)
    BY <1>0, <1>1, SameServer
  <1>6. KnownOK'
    <2>1. \A d \in Call : call'[d].sess.tok \in Drawn
      BY <1>0, <1>2, <1>3 DEF KnownOK, Fit
    <2>2. stored'.tok \in Drawn
      BY <1>0, <1>1, NoSessionIs DEF Drawn, TypeOK
    <2> QED BY <1>0, <1>1, <1>5, <2>1, <2>2 DEF KnownOK
  <1>7. LeftOK'
    BY <1>0, <1>1, <1>2, <1>3 DEF LeftOK, Fit, At
  <1>8. HeldLive' => HeldLive
    <2>1. ~Live(stored')
      BY <1>1, NoSessionIs DEF Live, Of
    <2>2. PICK s : s = stored'
      OBVIOUS
    <2>3. ~Live(s)'
      BY <1>5, <2>1, <2>2
    <2>4. ~Live(stored)'
      BY <2>2, <2>3 DEF Live, Of
    <2> QED BY <1>2, <1>3, <1>5, <2>4 DEF HeldLive, At
  <1>9. (KeepsLive' => KeepsLive) /\ (KeepsDead => KeepsDead')
    BY <1>1, <1>2, <1>3, <1>5 DEF KeepsLive, KeepsDead, At
  <1>10. ASSUME "slipped" \notin why' PROVE (MemOK /\ CalmOK)'
    <2>1. MemOK /\ CalmOK
      BY <1>1, <1>10 DEF EventInv
    <2>2. MemOK'
      BY <1>1, <1>5, <1>8, <1>9, <2>1 DEF MemOK
    <2>3. ASSUME HeldLive', ~recent, NEW d \in Call PROVE CalmCall(call[d])'
      <3>1. CalmCall(call'[d])
        BY <1>2, <1>3, <1>8, <2>1, <2>3 DEF CalmOK, CalmCall
      <3>2. PICK q : q = call'[d]
        OBVIOUS
      <3>3. CalmCall(q)'
        BY <1>5, <3>1, <3>2
      <3> QED BY <3>2, <3>3 DEF CalmCall, Live, Of
    <2>4. CalmOK'
      <3>1. HeldLive' /\ ~recent => (refresh.pc = "sent" => Live(refresh.sess))'
        BY <1>1, <1>5, <1>8, <2>1 DEF CalmOK
      <3> QED BY <1>1, <1>8, <2>1, <2>3, <3>1 DEF CalmOK
    <2> QED BY <2>2, <2>4
  <1> QED BY <1>4, <1>5, <1>6, <1>7, <1>10 DEF EventInv

\* The session ends on the server, here or elsewhere.
LEMMA EndStep ==
    ASSUME EventInv, Ends, UNCHANGED <<minted, family, mem, stored, user, force, recent, event,
                                      refresh, uses>>,
           mfaOn' \in BOOLEAN, notice' \in Mode \cup {"none"}, trouble' \in 0..MaxTrouble,
           why' \subseteq {"ended", "slipped"}, call' \in [Call -> CallType],
           \A d \in Call : call'[d] = call[d] \/ (Fit(call'[d]) /\ call'[d].pc = "wipe")
    PROVE  EventInv'
  <1>0. TypeOK /\ KnownOK /\ OneUnspent /\ LeftOK
    BY DEF EventInv
  <1>1. Drawn' = Drawn /\ (\A t \in Drawn : ~Of(t)') /\ OneUnspent'
    BY <1>0, EndsOK
  <1>2. TypeOK'
    BY <1>0 DEF TypeOK, Ends, Mode
  <1>3. KnownOK'
    <2>1. \A d \in Call : call'[d].sess.tok \in Drawn
      BY <1>0 DEF KnownOK, Fit
    <2>2. alive' \in Drawn /\ spent' \subseteq Drawn
      BY <1>0 DEF Ends, Drawn, TypeOK
    <2> QED BY <1>0, <1>1, <2>1, <2>2 DEF KnownOK
  <1>4. LeftOK'
    BY <1>0 DEF LeftOK, Fit, At
  <1>5. \A s : s.tok \in Drawn => ~Live(s)'
    BY <1>1 DEF Live, Of
  <1>6. ~HeldLive' /\ ~KeepsLive'
    BY <1>1, <1>3, <1>5 DEF KnownOK, HeldLive, KeepsLive, Live, Of, At
  <1> QED BY <1>1, <1>2, <1>3, <1>4, <1>6, NoneHeld

LEMMA RevokeStep ==
    ASSUME EventInv, NEW c \in Call, Revoke(c), Of(call[c].sess.tok)
    PROVE  EventInv'
  <1> USE DEF flagVars
  <1>0. TypeOK /\ KnownOK
    BY DEF EventInv
  <1>1. PICK r : r = [Idle EXCEPT !.kind = "signout", !.pc = "wipe"]
    OBVIOUS
  <1>2. Fit(r) /\ r.pc = "wipe"
    <2>1. Fit(Idle)
      BY <1>0, IdleFit DEF Fit, KnownOK, Drawn, TypeOK
    <2> QED BY <1>1, <2>1 DEF Fit, CallType, Idle, Kind
  <1>3. Becomes(c, r) /\ Ends
    BY <1>1 DEF Revoke
  <1>4. /\ call' \in [Call -> CallType] /\ call'[c] = r
        /\ \A d \in Call : d # c => call'[d] = call[d]
    BY <1>0, <1>2, <1>3, CallTypes DEF Fit
  <1>5. \A d \in Call : call'[d] = call[d] \/ (Fit(call'[d]) /\ call'[d].pc = "wipe")
    BY <1>2, <1>4
  <1>6. /\ UNCHANGED <<minted, family, mem, stored, user, force, recent, event, refresh, uses>>
        /\ mfaOn' \in BOOLEAN /\ notice' \in Mode \cup {"none"} /\ trouble' \in 0..MaxTrouble
        /\ why' \subseteq {"ended", "slipped"}
    BY <1>0 DEF Revoke, TypeOK
  <1> QED BY <1>3, <1>4, <1>5, <1>6, EndStep

LEMMA EndedStep ==
    ASSUME EventInv, EndedElsewhere \/ SwitchedElsewhere
    PROVE  EventInv'
  <1> USE DEF flagVars
  <1>0. TypeOK
    BY DEF EventInv
  <1>1. trouble' \in 0..MaxTrouble
    BY <1>0, TroubleOK DEF EndedElsewhere, SwitchedElsewhere
  <1>2. /\ Ends /\ UNCHANGED <<minted, family, mem, stored, user, force, recent, event, refresh, uses>>
        /\ call' = call /\ why' = why \cup {"ended"}
    BY DEF EndedElsewhere, SwitchedElsewhere
  <1>3. mfaOn' \in BOOLEAN
    BY <1>0 DEF EndedElsewhere, SwitchedElsewhere, TypeOK
  <1>4. notice' \in Mode \cup {"none"}
    BY <1>0 DEF EndedElsewhere, SwitchedElsewhere, TypeOK, ModeOf, Mode
  <1>5. why' \subseteq {"ended", "slipped"} /\ call' \in [Call -> CallType]
    BY <1>0, <1>2 DEF TypeOK
  <1> QED BY <1>1, <1>2, <1>3, <1>4, <1>5, EndStep

\* The token in memory goes, time passes, the process dies.
LEMMA AroundStep ==
    ASSUME EventInv, TokenGoes \/ Forget \/ Restart \/ UNCHANGED vars
    PROVE  EventInv'
  <1> USE DEF flagVars, serverVars, vars
  <1>0. TypeOK /\ KnownOK /\ OneUnspent /\ LeftOK
    BY DEF EventInv
  <1>1. /\ Drawn' = Drawn /\ OneUnspent'
        /\ \A s : Live(s)' <=> Live(s)
        /\ \A t : Of(t)' <=> Of(t)
        /\ \A q : CalmCall(q)' <=> CalmCall(q)
    BY <1>0, SameServer DEF TokenGoes, Forget, Restart
  <1>z. 0 \in Drawn
    BY <1>0 DEF Drawn, TypeOK
  <1>2. CASE TokenGoes \/ Forget \/ UNCHANGED vars
    <2>1. /\ mem' \in {0, mem} /\ recent' \in {FALSE, recent}
          /\ UNCHANGED <<uses, serverVars, stored, user, force, event, notice, refresh, call, why, trouble>>
      BY <1>2 DEF TokenGoes, Forget
    <2>2. recent' \in BOOLEAN
      BY <1>0, <2>1 DEF TypeOK
    <2>3. TypeOK'
      BY <1>0, <2>1, <2>2 DEF TypeOK
    <2>4. KnownOK'
      BY <1>0, <1>1, <1>z, <2>1 DEF KnownOK
    <2>5. LeftOK'
      BY <1>0, <1>2, <2>1 DEF LeftOK, At, TokenGoes, Forget, Quiet
    <2>6. (HeldLive' <=> HeldLive) /\ (KeepsLive' <=> KeepsLive) /\ (KeepsDead' <=> KeepsDead)
      BY <1>1, <2>1 DEF HeldLive, KeepsLive, KeepsDead, At
    <2>7. MemOK => MemOK'
      BY <1>1, <2>1, <2>6 DEF MemOK
    <2>8. CASE recent' = recent
      <3>1. CalmOK => CalmOK'
        BY <1>1, <2>1, <2>6, <2>8 DEF CalmOK
      <3> QED BY <1>1, <2>1, <2>3, <2>4, <2>5, <2>7, <3>1 DEF EventInv
    <2>9. CASE Forget
      <3>1. Quiet
        BY <2>9 DEF Forget
      <3>2. HeldLive => Live(stored)
        BY <3>1 DEF HeldLive, Quiet, At
      <3>3. \A d \in Call : CalmCall(call[d])
        BY <3>1 DEF CalmCall, Quiet, At
      <3>4. CalmOK'
        BY <1>1, <2>1, <2>6, <3>1, <3>2, <3>3 DEF CalmOK, Quiet
      <3> QED BY <1>1, <2>1, <2>3, <2>4, <2>5, <2>7, <3>4 DEF EventInv
    <2> QED BY <1>2, <2>8, <2>9 DEF TokenGoes
  <1>3. CASE Restart
    <2>1. /\ mem' = 0 /\ force' = FALSE /\ recent' = FALSE /\ event' = FALSE
          /\ refresh' = NoRefresh /\ call' = [c \in Call |-> Idle]
          /\ why' = why \/ why' = why \cup {"slipped"}
          /\ UNCHANGED <<uses, serverVars, stored, user, notice>>
      BY <1>3 DEF Restart
    <2>a. trouble' \in 0..MaxTrouble
      BY <1>0, <1>3, TroubleOK DEF Restart
    <2>2. call' \in [Call -> CallType] /\ \A d \in Call : call'[d] = Idle
      BY <2>1, IdleFit
    <2>3. /\ refresh' \in [pc : {"none", "read", "sent", "answered", "keep"}, sess : Session]
          /\ refresh'.pc \in {"sent", "answered", "keep"} <=> refresh'.sess # NoSession
          /\ refresh'.pc = "none" /\ refresh'.sess.tok = 0
      BY <2>1, NoSessionIs DEF NoRefresh, Session
    <2>4. why' \subseteq {"ended", "slipped"} /\ mem' \in {0} \cup Token
      BY <1>0, <2>1 DEF TypeOK
    <2>5. TypeOK'
      BY <1>0, <2>1, <2>2, <2>3, <2>4, <2>a DEF TypeOK
    <2>6. KnownOK'
      BY <1>0, <1>1, <1>z, <2>1, <2>2, <2>3, IdleFit DEF KnownOK
    <2>7. LeftOK'
      BY <2>2, IdleFit DEF LeftOK
    <2>8. MemOK'
      BY <2>1 DEF MemOK
    <2>9. HeldLive' => Live(stored)'
      BY <2>2, IdleFit DEF HeldLive, At
    <2>10. \A d \in Call : CalmCall(call[d])'
      BY <2>2, IdleFit DEF CalmCall
    <2>11. CalmOK'
      BY <2>3, <2>9, <2>10 DEF CalmOK
    <2> QED BY <1>1, <2>5, <2>6, <2>7, <2>8, <2>11 DEF EventInv
  <1> QED BY <1>2, <1>3

\* HandsOK of one call.
Hands(r) == r.pc \in {"answered", "keep", "write"} => r.sess.tok # 0

LEMMA HandsOne ==
    ASSUME TypeOK, HandsOK, NEW c \in Call, NEW r, Becomes(c, r), Hands(r)
    PROVE  HandsOK'
  BY DEF TypeOK, HandsOK, Becomes, Hands

LEMMA HandsSettle ==
    ASSUME EventInv, HandsOK, NEW e \in {"ok", "mfa", "dead", "limit", "other"}, NEW s \in Sess,
           s.tok \in Drawn, NEW token, Settle(e, s, token)
    PROVE  HandsOK'
  <1>1. \A d \in Call : call'[d] = call[d] \/ call'[d].pc \notin {"answered", "keep", "write"}
    BY SettleIs
  <1> QED BY <1>1 DEF HandsOK

LEMMA HandsRefresh == ASSUME EventInv, HandsOK, RefreshStep PROVE HandsOK'
  <1>0. 0 \in Drawn /\ NoSession \in Sess /\ NoSession.tok = 0
    BY NoSessionIs DEF EventInv, Drawn, TypeOK
  <1>1. refresh.sess \in Sess /\ refresh.sess.tok \in Drawn
    BY SessionSess DEF EventInv, TypeOK, KnownOK
  <1>2. ASSUME NEW e \in {"mfa", "dead", "limit", "other"}, Settle(e, NoSession, mem)
        PROVE  HandsOK'
    BY <1>0, <1>2, HandsSettle
  <1>3. CASE RefreshKept
    <2>1. PICK s \in Sess : s = refresh.sess
      BY <1>1
    <2>2. Settle("ok", s, mem) /\ s.tok \in Drawn
      BY <1>1, <1>3, <2>1 DEF RefreshKept
    <2> QED BY <2>2, HandsSettle
  <1>4. CASE call' = call
    BY <1>4 DEF HandsOK
  <1>5. \/ RefreshKept \/ call' = call
        \/ \E e \in {"mfa", "dead", "limit", "other"} : Settle(e, NoSession, mem)
    BY DEF RefreshStep, RefreshRead, RefreshServed, RefreshDead, RefreshNeedsMfa,
           RefreshLimited, RefreshLost, RefreshAnswered, RefreshNotKept
  <1> QED BY <1>2, <1>3, <1>4, <1>5

LEMMA HandsEnter ==
    ASSUME EventInv, HandsOK, NEW c \in Call, NEW q, Enter(c, q), Fit(q)
    PROVE  HandsOK'
  <1>1. PICK r : Becomes(c, r) /\ r.pc \in {"post", "read"}
    BY EnterFit
  <1> QED BY <1>1, HandsOne DEF Hands, EventInv

LEMMA HandsCall == ASSUME EventInv, HandsOK, NEW c \in Call, Step(c) PROVE HandsOK'
  <1>0. TypeOK /\ call[c] \in CallType
    BY DEF EventInv, TypeOK
  <1>a. Fit(Idle)
    BY <1>0, IdleFit DEF Fit, EventInv, KnownOK, Drawn, TypeOK
  <1>i. ASSUME Becomes(c, Idle) PROVE HandsOK'
    BY <1>0, <1>i, IdleFit, HandsOne DEF Hands
  <1>q. PICK q \in CallType : q = call[c]
    BY <1>0
  <1>g. ASSUME NEW pc \in {"idle", "create", "read", "wait", "clear", "post", "have",
                           "sync", "copy", "leave", "revoke", "wipe", "gone"}, Goto(c, pc)
        PROVE HandsOK'
    <2>1. PICK r : r = [q EXCEPT !.pc = pc]
      OBVIOUS
    <2>2. r.pc = pc /\ Becomes(c, r)
      BY <1>g, <1>q, <2>1 DEF CallType, Goto
    <2> QED BY <1>0, <2>2, HandsOne DEF Hands
  <1>t. ASSUME NEW s \in Sess, NEW r, r = Got(q, s), Becomes(c, r) PROVE HandsOK'
    <2>1. r.pc \in {"idle", "create", "have"}
      BY <1>t, GotFit
    <2> QED BY <1>0, <1>t, <2>1, HandsOne DEF Hands
  <1>1. CASE Create(c)
    <2>1. Fit(call[c])
      BY <1>1, CallFit DEF Create, At
    <2> QED BY <1>1, <2>1, HandsEnter DEF Create
  <1>f. ASSUME NEW s \in Session, s # NoSession => s = stored, Found(c, s) PROVE HandsOK'
    <2>1. CASE s # NoSession /\ mem = 0
      BY <1>f, <1>g, <2>1 DEF Found, Join
    <2>2. CASE s # NoSession /\ mem # 0
      <3>1. PICK t : t = [s EXCEPT !.tok = mem]
        OBVIOUS
      <3>2. t \in Sess
        BY <1>0, <1>f, <2>2, <3>1, SessionSess DEF TypeOK, Sess
      <3>3. PICK r : r = Got(q, t)
        OBVIOUS
      <3>4. Becomes(c, r)
        BY <1>f, <1>q, <2>2, <3>1, <3>3 DEF Found
      <3> QED BY <1>t, <3>2, <3>3, <3>4
    <2>3. CASE s = NoSession
      <3>1. Goto(c, "post") \/ Becomes(c, Idle)
        BY <1>f, <2>3 DEF Found, Goto
      <3> QED BY <1>g, <1>i, <3>1
    <2> QED BY <2>1, <2>2, <2>3
  <1>2. CASE Read(c) \/ ReadFails(c)
    <2>1. stored \in Session /\ NoSession \in Session
      BY <1>0 DEF TypeOK, Session
    <2>2. CASE Becomes(c, Idle)
      BY <1>i, <2>2
    <2>3. CASE Found(c, stored)
      BY <1>f, <2>1, <2>3
    <2>4. CASE Found(c, NoSession)
      BY <1>f, <2>1, <2>4
    <2> QED BY <1>2, <2>2, <2>3, <2>4 DEF Read, ReadFails
  <1>3. CASE \/ Clear(c) \/ PostFails(c) \/ AnswerLost(c) \/ KeepFails(c) \/ Served(c)
             \/ NotServed(c) \/ Write(c) \/ NotWritten(c) \/ Gone(c) \/ NotGone(c)
    BY <1>3, <1>i DEF Clear, PostFails, AnswerLost, KeepFails, Served, NotServed, Write,
                      NotWritten, Gone, NotGone
  <1>d. ASSUME NEW n \in Token, NEW r, Becomes(c, r), r.sess.tok = n PROVE HandsOK'
    <2>1. n # 0
      BY DEF Token
    <2> QED BY <1>0, <1>d, <2>1, HandsOne DEF Hands
  <1>4. ASSUME NEW n \in Token, Post(c, n) PROVE HandsOK'
    <2>1. PICK t : t = [tok |-> n, mode |-> ModeOf(mfaOn)]
      OBVIOUS
    <2>2. PICK left : left = IF mfaOn THEN 2 ELSE 0
      OBVIOUS
    <2>3. PICK r : r = [q EXCEPT !.pc = "answered", !.from = "post", !.left = left, !.sess = t]
      OBVIOUS
    <2>4. Becomes(c, r)
      BY <1>4, <1>q, <2>1, <2>2, <2>3 DEF Post
    <2>5. r.sess.tok = n
      BY <2>1, <2>3 DEF CallType
    <2> QED BY <1>d, <2>4, <2>5
  <1>5. ASSUME NEW n \in Token, NEW trusted \in BOOLEAN, ServedSwap(c, n, trusted) PROVE HandsOK'
    <2>1. PICK m : m = IF mfaOn THEN "off" ELSE IF trusted THEN "trusted" ELSE "asks"
      OBVIOUS
    <2>2. PICK t : t = [tok |-> n, mode |-> m]
      OBVIOUS
    <2>3. PICK r : r = [q EXCEPT !.pc = "answered", !.from = "swap", !.sess = t]
      OBVIOUS
    <2>4. Becomes(c, r)
      BY <1>5, <1>q, <2>1, <2>2, <2>3 DEF ServedSwap
    <2>5. r.sess.tok = n
      BY <2>2, <2>3 DEF CallType
    <2> QED BY <1>d, <2>4, <2>5
  <1>6. CASE Answered(c)
    <2>1. CASE user
      <3>1. At(c, "answered") /\ Goto(c, "keep")
        BY <1>6, <2>1 DEF Answered
      <3>2. PICK r : r = [q EXCEPT !.pc = "keep"]
        OBVIOUS
      <3>3. Becomes(c, r) /\ r.sess = q.sess
        BY <1>q, <3>1, <3>2 DEF Goto, CallType
      <3>4. q.sess.tok # 0
        BY <1>q, <3>1 DEF HandsOK, At
      <3> QED BY <1>0, <3>3, <3>4, HandsOne DEF Hands
    <2>2. CASE ~user
      BY <1>6, <1>i, <2>2 DEF Answered
    <2> QED BY <2>1, <2>2
  <1>7. CASE Keep(c)
    <2>1. PICK g : Becomes(c, g) /\ (g.pc \in {"keep", "answered"} => g.sess = call[c].sess)
                   /\ g.pc # "write"
      BY <1>7, KeptFit
    <2>2. call[c].sess.tok # 0
      BY <1>7 DEF Keep, At, HandsOK
    <2> QED BY <1>0, <2>1, <2>2, HandsOne DEF Hands
  <1>8. CASE Refused(c)
    <2>1. CASE call[c].stage = "first"
      <3>1. PICK t \in Sess : t = NoSession /\ t.tok = 0
        BY NoSessionIs
      <3>2. PICK r : r = [q EXCEPT !.sess = t, !.stage = "renew"]
        OBVIOUS
      <3>3. Enter(c, r)
        BY <1>8, <1>q, <2>1, <3>1, <3>2 DEF Refused
      <3>4. q.left # 1
        BY <1>8, <1>q DEF Refused, EventInv, LeftOK, At
      <3>5. r \in CallType /\ r.left = q.left /\ r.sess = t
        BY <3>1, <3>2 DEF CallType, Sess
      <3>6. Fit(r)
        BY <1>a, <3>1, <3>4, <3>5, IdleFit DEF Fit
      <3> QED BY <3>3, <3>6, HandsEnter
    <2>2. CASE call[c].stage # "first"
      BY <1>8, <1>i, <2>2 DEF Refused
    <2> QED BY <2>1, <2>2
  <1>9. ASSUME NEW trusted \in BOOLEAN, ServedTrust(c, trusted) PROVE HandsOK'
    <2>1. PICK m : m = IF mode = "off" THEN "off" ELSE IF trusted THEN "trusted" ELSE "asks"
      OBVIOUS
    <2>2. PICK r : r = [q EXCEPT !.pc = "copy", !.sess = [tok |-> 0, mode |-> m]]
      OBVIOUS
    <2>3. Becomes(c, r)
      BY <1>9, <1>q, <2>1, <2>2 DEF ServedTrust
    <2>4. r.pc = "copy"
      BY <2>2 DEF CallType
    <2> QED BY <1>0, <2>3, <2>4, HandsOne DEF Hands
  <1>10. CASE Sync(c)
    BY <1>10, <1>g, <1>i DEF Sync
  <1>11. CASE Copy(c)
    <2>1. CASE stored = NoSession
      BY <1>11, <1>i, <2>1 DEF Copy
    <2>2. CASE stored # NoSession
      <3>1. PICK m : Becomes(c, [q EXCEPT !.pc = "write", !.sess = [stored EXCEPT !.mode = m]])
        BY <1>11, <1>q, <2>2 DEF Copy
      <3>2. PICK t : t = [stored EXCEPT !.mode = m]
        OBVIOUS
      <3>3. t.tok \in Token
        BY <1>0, <2>2, <3>2 DEF TypeOK, Session
      <3>4. PICK r : r = [q EXCEPT !.pc = "write", !.sess = t]
        OBVIOUS
      <3>5. r.sess = t
        BY <3>4 DEF CallType
      <3>6. Becomes(c, r)
        BY <3>1, <3>2, <3>4
      <3> QED BY <1>d, <3>3, <3>5, <3>6
    <2> QED BY <2>1, <2>2
  <1>12. CASE Leave(c)
    <2>1. CASE Goto(c, "wait")
      BY <1>g, <2>1
    <2>2. CASE Goto(c, "wipe")
      BY <1>g, <2>2
    <2>3. CASE Becomes(c, [call[c] EXCEPT !.pc = "revoke", !.sess.tok = mem])
      <3>1. PICK r : r = [q EXCEPT !.pc = "revoke", !.sess.tok = mem]
        OBVIOUS
      <3>2. r.pc = "revoke"
        BY <3>1 DEF CallType
      <3>3. Becomes(c, r)
        BY <1>q, <2>3, <3>1
      <3> QED BY <1>0, <3>2, <3>3, HandsOne DEF Hands
    <2> QED BY <1>12, <2>1, <2>2, <2>3 DEF Leave, Join, Goto
  <1>13. CASE Revoke(c) \/ NotRevoked(c)
    <2>1. PICK r : r = [Idle EXCEPT !.kind = "signout", !.pc = "wipe"]
      OBVIOUS
    <2>2. r.pc = "wipe"
      BY <2>1 DEF Idle
    <2>3. Becomes(c, r)
      BY <1>13, <2>1 DEF Revoke, NotRevoked
    <2> QED BY <1>0, <2>2, <2>3, HandsOne DEF Hands
  <1>14. CASE Wipe(c)
    BY <1>14, <1>g DEF Wipe
  <1> QED BY <1>1, <1>2, <1>3, <1>4, <1>5, <1>6, <1>7, <1>8, <1>9, <1>10, <1>11, <1>12, <1>13, <1>14 DEF Step

LEMMA HandsNext == ASSUME EventInv, HandsOK, [Next]_vars PROVE HandsOK'
  <1>1. ASSUME NEW c \in Call, NEW k \in Kind, Start(c, k) PROVE HandsOK'
    <2>0. TypeOK
      BY DEF EventInv
    <2>a. Fit(Idle)
      BY <2>0, IdleFit DEF Fit, EventInv, KnownOK, Drawn, TypeOK
    <2>1. PICK q : q = [Idle EXCEPT !.kind = k]
      OBVIOUS
    <2>2. Fit(q)
      BY <2>1, <2>a DEF Fit, CallType, Idle
    <2>3. CASE Enter(c, q)
      BY <2>2, <2>3, HandsEnter
    <2>4. ASSUME NEW pc \in {"sync", "leave"}, NEW s,
                 Becomes(c, [q EXCEPT !.pc = pc, !.sess = s])
          PROVE  HandsOK'
      <3>2. PICK r : r = [q EXCEPT !.pc = pc, !.sess = s]
        OBVIOUS
      <3>3. r.pc = pc
        BY <2>2, <3>2 DEF Fit, CallType
      <3> QED BY <2>0, <2>4, <3>2, <3>3, HandsOne DEF Hands
    <2>5. CASE k = "sync"
      <3>1. PICK s : s = [q.sess EXCEPT !.mode = notice]
        OBVIOUS
      <3>2. Becomes(c, [q EXCEPT !.pc = "sync", !.sess = s])
        BY <1>1, <2>1, <2>5, <3>1 DEF Start, Idle
      <3> QED BY <2>4, <3>2
    <2>6. CASE k = "signout"
      <3>1. Becomes(c, [q EXCEPT !.pc = "leave", !.sess = q.sess])
        BY <1>1, <2>1, <2>6 DEF Start, Idle
      <3> QED BY <2>4, <3>1
    <2>7. CASE k \notin {"sync", "signout"}
      BY <1>1, <2>1, <2>3, <2>7 DEF Start
    <2> QED BY <2>5, <2>6, <2>7
  <1>2. CASE RefreshStep
    BY <1>2, HandsRefresh
  <1>3. CASE TokenGoes \/ Forget \/ EndedElsewhere \/ SwitchedElsewhere \/ UNCHANGED vars
    BY <1>3 DEF HandsOK, TokenGoes, Forget, EndedElsewhere, SwitchedElsewhere, vars
  <1>4. CASE Restart
    BY <1>4, IdleFit DEF HandsOK, Restart
  <1> QED BY <1>1, <1>2, <1>3, <1>4, HandsCall DEF Next

LEMMA EventInit == Init => EventInv /\ HandsOK
  <1> SUFFICES ASSUME Init PROVE EventInv /\ HandsOK
    OBVIOUS
  <1>0. minted = 0 /\ Drawn = {0} /\ mem = 0 /\ spent = {} /\ alive = 0
    BY DEF Init, Drawn
  <1>1. \A c \in Call : call[c] = Idle
    BY DEF Init
  <1>2. /\ stored = NoSession /\ stored \in Session /\ stored.tok = 0
        /\ refresh = NoRefresh /\ refresh.pc = "none" /\ refresh.sess = NoSession
        /\ refresh \in [pc : {"none", "read", "sent", "answered", "keep"}, sess : Session]
    BY NoSessionIs DEF Init, NoRefresh, Session
  <1>3. minted \in 0..MaxToken /\ trouble \in 0..MaxTrouble /\ family \in [Token -> Token]
    BY BoundAssumption DEF Init, Token
  <1>4. call \in [Call -> CallType]
    BY IdleFit DEF Init
  <1>5. TypeOK
    BY <1>0, <1>2, <1>3, <1>4 DEF Init, TypeOK, Mode
  <1>6. KnownOK
    <2>1. 0 \notin Token
      BY DEF Token
    <2> QED BY <1>0, <1>1, <1>2, <2>1, IdleFit DEF KnownOK
  <1>7. OneUnspent
    BY <1>0 DEF OneUnspent
  <1>8. LeftOK /\ HandsOK
    BY <1>1, IdleFit DEF LeftOK, HandsOK
  <1>9. ~HeldLive /\ ~KeepsLive
    BY <1>1, <1>2, IdleFit DEF HeldLive, KeepsLive, Live, Of, At
  <1> QED BY <1>5, <1>6, <1>7, <1>8, <1>9 DEF EventInv, MemOK, CalmOK

LEMMA EventInductive == EventInv /\ HandsOK /\ [Next]_vars => (EventInv /\ HandsOK)'
  <1> SUFFICES ASSUME EventInv, HandsOK, [Next]_vars PROVE EventInv' /\ HandsOK'
    OBVIOUS
  <1>1. HandsOK'
    BY HandsNext
  <1>2. ASSUME NEW c \in Call, Step(c) PROVE EventInv'
    <2>1. CASE Create(c) \/ Read(c) \/ ReadFails(c) \/ PostFails(c) \/ Leave(c)
      BY <2>1, BeginStep
    <2>2. CASE (\E n \in Token : Post(c, n)) \/ \E n \in Token, trusted \in BOOLEAN : ServedSwap(c, n, trusted)
      BY <2>2, DrawStep
    <2>3. CASE Answered(c) \/ AnswerLost(c) \/ KeepFails(c)
      BY <2>3, AnswerStep
    <2>4. CASE Keep(c)
      BY <2>4, KeepStep
    <2>5. CASE Clear(c) \/ Wipe(c)
      BY <2>5, DropStep
    <2>6. CASE Write(c)
      BY <2>6, WriteStep
    <2>7. CASE Revoke(c) /\ Of(call[c].sess.tok)
      BY <2>7, RevokeStep
    <2>8. CASE ServeStep
      BY <2>8, ServeSteps
    <2>9. CASE Revoke(c)
      BY <2>7, <2>8, <2>9 DEF ServeStep
    <2> QED BY <1>2, <2>1, <2>2, <2>3, <2>4, <2>5, <2>6, <2>8, <2>9 DEF Step, ServeStep
  <1>3. CASE RefreshKept
    BY <1>1, <1>3, RefreshKeeps
  <1>4. CASE RefreshStep /\ ~RefreshKept
    BY <1>1, <1>4, RefreshGoes
  <1> QED BY <1>1, <1>2, <1>3, <1>4, BeginStep, EndedStep, AroundStep DEF Next

\* An event is emitted over a session that is stored and live only if a call
\* goes wrong that is of another session, and there is none once nothing came
\* in lately.
LEMMA EventIsDue ==
    EventInv /\ [Next]_vars => (event' /\ ~event /\ "slipped" \notin why => ~Live(stored))
  <1> SUFFICES ASSUME EventInv, [Next]_vars, event', ~event, "slipped" \notin why, Live(stored)
               PROVE  FALSE
    OBVIOUS
  <1>1. HeldLive /\ CalmOK /\ TypeOK
    BY DEF HeldLive, EventInv
  <1>2. ASSUME NEW c \in Call, Clear(c) PROVE FALSE
    BY <1>1, <1>2 DEF Clear, CalmOK, CalmCall, At
  <1>3. ASSUME NEW c \in Call, Refused(c) PROVE FALSE
    <2>1. At(c, "have") /\ ~Of(call[c].sess.tok) /\ ~recent
      BY <1>3 DEF Refused, Authentic
    <2> QED BY <1>1, <2>1 DEF CalmOK, CalmCall, At
  <1>4. ASSUME NEW c \in Call, Step(c) PROVE FALSE
    BY <1>2, <1>3, <1>4 DEF Step, flagVars, Create, Read, ReadFails, Post, PostFails, AnswerLost,
        Answered, Keep, KeepFails, Served, NotServed, ServedTrust, ServedSwap, Sync, Copy, Write,
        NotWritten, Leave, Revoke, NotRevoked, Wipe, Gone, NotGone
  <1>5. CASE RefreshStep
    BY <1>5 DEF RefreshStep, flagVars, RefreshRead, RefreshServed, RefreshDead, RefreshNeedsMfa,
        RefreshLimited, RefreshLost, RefreshAnswered, RefreshKept, RefreshNotKept
  <1> QED BY <1>4, <1>5 DEF Next, vars, flagVars, Start, TokenGoes, Forget, EndedElsewhere,
        SwitchedElsewhere, Restart

\* signOut in httpErrorHandler, throwStoredSessionAuthFailure - for any number of calls,
\* tokens, faults and MFA switches, the app is told to sign out only when the session it
\* has stored is dead, unless an answer got lost or a late write put an old session back.
THEOREM SignOutsAreDue == Spec => SignOutEventIsDue
  <1>1. Init => EventInv /\ HandsOK
    BY EventInit
  <1>2. EventInv /\ HandsOK /\ [Next]_vars => (EventInv /\ HandsOK)'
    BY EventInductive
  <1>3. EventInv /\ [Next]_vars => [event' /\ ~event /\ "slipped" \notin why => ~Live(stored)]_vars
    BY EventIsDue
  <1> QED BY <1>1, <1>2, <1>3, PTL DEF Spec, SignOutEventIsDue

-----------------------------------------------------------------------------
(* The PGP bridge: an answer of the page settles no call but its own.      *)

Message == [id : Nat, for : Asker]
Pc == {"idle", "unready", "go", "check", "pinging", "pause", "sent", "done", "failed"}
CallState == [pc : Pc, attempt : Nat, id : Nat, answer : SUBSET Asker]

\* A number stands for one message only, among those that wait and those under way.
NumbersOK ==
    /\ opId \in Nat /\ pending \subseteq Message /\ injected \subseteq Message
    /\ \A m \in pending \cup injected : m.id < opId
    /\ \A e, m \in pending \cup injected : e.id = m.id => e = m

\* The inductive invariant.
BridgeInv ==
    /\ pgpCall \in [PgpCall -> CallState]
    /\ NumbersOK
    /\ AnswersMatchCalls

LEMMA BridgeInitInv == BridgeInit => BridgeInv
  <1> SUFFICES ASSUME BridgeInit PROVE BridgeInv
    OBVIOUS
  <1>1. Uncalled \in CallState /\ Uncalled.answer = {}
    BY DEF Uncalled, CallState, Pc
  <1>2. pgpCall \in [PgpCall -> CallState] /\ \A c \in PgpCall : pgpCall[c].answer = {}
    BY <1>1 DEF BridgeInit
  <1>3. NumbersOK
    BY DEF BridgeInit, NumbersOK
  <1> QED BY <1>2, <1>3 DEF BridgeInv, AnswersMatchCalls

\* A step of the calls alone, none of which gets an answer.
LEMMA StateStep ==
    ASSUME BridgeInv, pgpCall' \in [PgpCall -> CallState],
           \A c \in PgpCall : pgpCall'[c].answer = pgpCall[c].answer
    PROVE  pgpCall' \in [PgpCall -> CallState] /\ AnswersMatchCalls'
  BY DEF BridgeInv, AnswersMatchCalls

\* One call moves on, and nothing answers it.
LEMMA Moved ==
    ASSUME BridgeInv, NEW c \in PgpCall, NEW t \in CallState, pgpCall' = [pgpCall EXCEPT ![c] = t],
           t.answer = pgpCall[c].answer
    PROVE  pgpCall' \in [PgpCall -> CallState] /\ AnswersMatchCalls'
  <1>1. pgpCall' \in [PgpCall -> CallState] /\ \A d \in PgpCall : pgpCall'[d].answer = pgpCall[d].answer
    BY DEF BridgeInv
  <1> QED BY <1>1, StateStep

\* A failed ping, a failure and a change of place do not answer a call.
LEMMA Failures ==
    ASSUME NEW t \in CallState
    PROVE  /\ MissedPing(t) \in CallState /\ MissedPing(t).answer = t.answer
           /\ Fail(t) \in CallState /\ Fail(t).answer = t.answer
           /\ \A pc \in Pc : /\ [t EXCEPT !.pc = pc] \in CallState
                             /\ [t EXCEPT !.pc = pc].answer = t.answer
  BY DEF MissedPing, Fail, CallState, Pc

\* The last message of a call, and the next ping of it.
LEMMA Counted ==
    ASSUME NEW t \in CallState
    PROVE  /\ [t EXCEPT !.pc = "check", !.attempt = @ + 1] \in CallState
           /\ [t EXCEPT !.pc = "check", !.attempt = @ + 1].answer = t.answer
  <1>1. t.attempt + 1 \in Nat /\ "check" \in Pc
    BY DEF CallState, Pc
  <1> QED BY <1>1 DEF CallState

LEMMA AnswerIs ==
    ASSUME NEW t \in CallState, NEW a \in Asker, NEW pc \in Pc
    PROVE  /\ [t EXCEPT !.pc = pc, !.answer = {a}] \in CallState
           /\ [t EXCEPT !.pc = pc, !.answer = {a}].answer = {a}
  BY DEF CallState

LEMMA SendOK ==
    ASSUME BridgeInv, NEW c \in PgpCall, NEW what \in Purpose, NEW pc \in Pc, Send(c, what, pc)
    PROVE  BridgeInv'
  <1>1. PICK m \in Message : m = [id |-> opId, for |-> [call |-> c, what |-> what]] /\ m.id = opId
    <2> DEFINE y == [id |-> opId, for |-> [call |-> c, what |-> what]]
    <2>1. y \in Message /\ y.id = opId
      BY DEF BridgeInv, NumbersOK, Message, Asker
    <2> QED BY <2>1, Zenon
  <1>2. /\ opId' = opId + 1 /\ pending' = pending \cup {m}
        /\ injected' \subseteq injected \cup {m}
        /\ pgpCall' = [pgpCall EXCEPT ![c].pc = pc, ![c].id = opId]
    BY <1>1 DEF Send
  <1>3. NumbersOK'
    <2>1. \A e \in pending \cup injected : e \in Message /\ e.id < opId /\ e.id \in Nat
      BY DEF BridgeInv, NumbersOK, Message
    <2>2. opId \in Nat
      BY DEF BridgeInv, NumbersOK
    <2>3. \A e \in pending' \cup injected' : e = m \/ e \in pending \cup injected
      BY <1>2
    <2>4. \A e \in pending' \cup injected' : e \in Message /\ e.id < opId'
      BY <1>1, <1>2, <2>1, <2>2, <2>3
    <2>5. \A e, d \in pending' \cup injected' : e.id = d.id => e = d
      BY <1>1, <2>1, <2>2, <2>3 DEF BridgeInv, NumbersOK
    <2> QED BY <1>2, <2>2, <2>4, <2>5 DEF NumbersOK
  <1>4. PICK t \in CallState : /\ t = [pgpCall[c] EXCEPT !.pc = pc, !.id = opId]
                               /\ t.answer = pgpCall[c].answer
    <2> DEFINE y == [pgpCall[c] EXCEPT !.pc = pc, !.id = opId]
    <2>1. y \in CallState /\ y.answer = pgpCall[c].answer
      BY DEF BridgeInv, NumbersOK, CallState
    <2> QED BY <2>1, Zenon
  <1>5. pgpCall' = [pgpCall EXCEPT ![c] = t]
    BY <1>2, <1>4 DEF BridgeInv
  <1> QED BY <1>3, <1>4, <1>5, Moved DEF BridgeInv

\* Messages that are dropped leave the others with their numbers.
LEMMA FewerMessages ==
    ASSUME BridgeInv, pending' \subseteq pending, injected' \subseteq injected,
           UNCHANGED opId \/ (opId' = 0 /\ pending' = {} /\ injected' = {})
    PROVE  NumbersOK'
  <1>1. CASE UNCHANGED opId
    BY <1>1 DEF BridgeInv, NumbersOK
  <1>2. CASE opId' = 0 /\ pending' = {} /\ injected' = {}
    BY <1>2 DEF NumbersOK
  <1> QED BY <1>1, <1>2

LEMMA MessageOK ==
    ASSUME BridgeInv, NEW m \in injected, NEW sound \in BOOLEAN, MessageArrives(m, sound)
    PROVE  BridgeInv'
  <1>1. /\ injected' = injected \ {m} /\ pending' = pending \ Entry(m) /\ UNCHANGED opId
        /\ pgpCall' = [c \in PgpCall |->
              IF \E e \in Entry(m) : e.for.call = c
              THEN Take(CHOOSE e \in Entry(m) : e.for.call = c, m, sound) ELSE pgpCall[c]]
    BY DEF MessageArrives
  <1>2. NumbersOK'
    BY <1>1, FewerMessages
  <1>3. ASSUME NEW c \in PgpCall
        PROVE  /\ pgpCall'[c] \in CallState
               /\ pgpCall'[c].answer \subseteq {[call |-> c, what |-> "op"]}
    <2>0. pgpCall[c] \in CallState /\ pgpCall[c].answer \subseteq {[call |-> c, what |-> "op"]}
      BY DEF BridgeInv, AnswersMatchCalls
    <2>1. CASE ~\E e \in Entry(m) : e.for.call = c
      BY <1>1, <2>0, <2>1
    <2>2. CASE \E e \in Entry(m) : e.for.call = c
      <3>1. PICK e \in Entry(m) : /\ e = CHOOSE d \in Entry(m) : d.for.call = c
                                  /\ e.for.call = c
        BY <2>2, Zenon
      <3>2. pgpCall'[c] = Take(e, m, sound)
        BY <1>1, <2>2, <3>1, Zenon
      <3>3. e \in pending /\ e.id = m.id
        BY DEF Entry
      <3>4. e = m /\ m.for \in Asker
        BY <3>3 DEF BridgeInv, NumbersOK, Message
      <3>5. CASE e.for.what = "op"
        <4>1. m.for = [call |-> c, what |-> "op"]
          BY <3>1, <3>4, <3>5 DEF Asker
        <4>2. Take(e, m, sound) = [pgpCall[c] EXCEPT !.pc = IF sound THEN "done" ELSE "failed",
                                                     !.answer = {m.for}]
          BY <3>1, <3>5 DEF Take
        <4>3. PICK a \in Asker, pc \in Pc : a = m.for /\ pc = IF sound THEN "done" ELSE "failed"
          BY <3>4 DEF Pc
        <4>4. pgpCall'[c] = [pgpCall[c] EXCEPT !.pc = pc, !.answer = {a}]
          BY <3>2, <4>2, <4>3
        <4>5. PICK t \in CallState : t = pgpCall[c]
          BY <2>0
        <4>6. pgpCall'[c] \in CallState /\ pgpCall'[c].answer = {a}
          <5>1. PICK x : x = [t EXCEPT !.pc = pc, !.answer = {a}]
            OBVIOUS
          <5>2. x \in CallState /\ x.answer = {a}
            BY <5>1, AnswerIs
          <5>3. pgpCall'[c] = x
            BY <4>4, <4>5, <5>1
          <5> QED BY <5>2, <5>3
        <4> QED BY <4>1, <4>3, <4>6
      <3>6. CASE e.for.what = "ping"
        <4>1. \/ Take(e, m, sound) = [pgpCall[c] EXCEPT !.pc = "go"]
              \/ Take(e, m, sound) = MissedPing(pgpCall[c])
              \/ Take(e, m, sound) = pgpCall[c]
          BY <3>1, <3>6 DEF Take
        <4>2. "go" \in Pc
          BY DEF Pc
        <4>3. Take(e, m, sound) \in CallState /\ Take(e, m, sound).answer = pgpCall[c].answer
          <5>1. CASE Take(e, m, sound) = [pgpCall[c] EXCEPT !.pc = "go"]
            BY <2>0, <4>2, <5>1, Failures
          <5>2. CASE Take(e, m, sound) = MissedPing(pgpCall[c])
            BY <2>0, <5>2, Failures
          <5>3. CASE Take(e, m, sound) = pgpCall[c]
            BY <2>0, <5>3
          <5> QED BY <4>1, <5>1, <5>2, <5>3
        <4> QED BY <2>0, <3>2, <4>3
      <3> QED BY <3>4, <3>5, <3>6 DEF Asker, Purpose
    <2> QED BY <2>1, <2>2
  <1>4. pgpCall' \in [PgpCall -> CallState] /\ AnswersMatchCalls'
    BY <1>1, <1>3 DEF AnswersMatchCalls
  <1> QED BY <1>2, <1>4 DEF BridgeInv

-----------------------------------------------------------------------------
LEMMA BridgeNextInv == BridgeInv /\ [BridgeNext]_bridgeVars => BridgeInv'
  <1> SUFFICES ASSUME BridgeInv, [BridgeNext]_bridgeVars PROVE BridgeInv'
    OBVIOUS
  <1>0. pgpCall \in [PgpCall -> CallState] /\ \A c \in PgpCall : pgpCall[c] \in CallState
    BY DEF BridgeInv
  <1>1. CASE UNCHANGED bridgeVars
    BY <1>1 DEF bridgeVars, BridgeInv, NumbersOK, AnswersMatchCalls
  <1>2. ASSUME NEW c \in PgpCall, CallSteps(c) \/ \E authorized \in BOOLEAN : Execute(c, authorized)
        PROVE  BridgeInv'
    <2>1. CASE (Ping(c) /\ executor) \/ (Go(c) /\ executor)
      <3>1. Send(c, "ping", "pinging") \/ Send(c, "op", "sent")
        BY <2>1 DEF Ping, Go
      <3>2. {"ping", "op"} \subseteq Purpose /\ {"pinging", "sent"} \subseteq Pc
        BY DEF Purpose, Pc
      <3> QED BY <3>1, <3>2, SendOK
    <2>2. CASE ~((Ping(c) \/ Go(c)) /\ executor)
      <3>1. UNCHANGED <<opId, pending, injected>>
        BY <1>2, <2>2 DEF CallSteps, Ping, PingTimesOut, PauseEnds, Go, ReadyTimesOut, Execute
      <3>2. PICK t \in CallState : pgpCall' = [pgpCall EXCEPT ![c] = t] /\ t.answer = pgpCall[c].answer
        <4>1. CASE PauseEnds(c)
          <5> DEFINE y == [pgpCall[c] EXCEPT !.pc = "check", !.attempt = @ + 1]
          <5>1. y \in CallState /\ y.answer = pgpCall[c].answer
            BY <1>0, Counted
          <5>2. pgpCall' = [pgpCall EXCEPT ![c] = y]
            BY <1>0, <4>1 DEF PauseEnds
          <5> HIDE DEF y
          <5> QED BY <5>1, <5>2
        <4>2. CASE \E authorized \in BOOLEAN : Execute(c, authorized)
          <5>1. PICK pc \in Pc : pgpCall' = [pgpCall EXCEPT ![c].pc = pc, ![c].attempt = 1]
            BY <4>2 DEF Execute, Pc
          <5> DEFINE y == [pgpCall[c] EXCEPT !.pc = pc, !.attempt = 1]
          <5>2. y \in CallState /\ y.answer = pgpCall[c].answer
            BY <1>0 DEF CallState
          <5>3. pgpCall' = [pgpCall EXCEPT ![c] = y]
            BY <1>0, <5>1
          <5> HIDE DEF y
          <5> QED BY <5>2, <5>3
        <4>3. CASE \/ Ping(c) \/ PingTimesOut(c) \/ Go(c) \/ ReadyTimesOut(c)
          <5>1. \/ pgpCall' = [pgpCall EXCEPT ![c] = MissedPing(pgpCall[c])]
                \/ pgpCall' = [pgpCall EXCEPT ![c] = Fail(pgpCall[c])]
            BY <1>0, <2>2, <4>3 DEF Ping, PingTimesOut, Go, ReadyTimesOut
          <5> QED BY <1>0, <5>1, Failures
        <4> QED BY <1>2, <4>1, <4>2, <4>3 DEF CallSteps
      <3> QED BY <3>1, <3>2, Moved, FewerMessages DEF BridgeInv
    <2> QED BY <2>1, <2>2
  <1>3. ASSUME NEW m \in injected, NEW sound \in BOOLEAN, MessageArrives(m, sound) PROVE BridgeInv'
    BY <1>3, MessageOK
  <1>4. ASSUME NEW e \in pending, EntryTimesOut(e) PROVE BridgeInv'
    <2>1. NumbersOK'
      BY <1>4, FewerMessages DEF EntryTimesOut
    <2>2. pgpCall' = pgpCall \/ pgpCall' = [pgpCall EXCEPT ![e.for.call] = Fail(pgpCall[e.for.call])]
      BY <1>0, <1>4 DEF EntryTimesOut
    <2>3. PICK c \in PgpCall : c = e.for.call
      BY DEF BridgeInv, NumbersOK, Message, Asker
    <2>4. PICK t \in CallState : /\ t = pgpCall[c] \/ t = Fail(pgpCall[c])
                                 /\ t.answer = pgpCall[c].answer /\ pgpCall' = [pgpCall EXCEPT ![c] = t]
      BY <1>0, <2>2, <2>3, Failures
    <2> QED BY <2>1, <2>4, Moved DEF BridgeInv
  <1>5. CASE PageMounts \/ Load \/ Reload \/ Die \/ PageUnmounts
    <2>1. NumbersOK'
      BY <1>5, FewerMessages DEF PageMounts, Load, Reload, Die, PageUnmounts
    <2>2. \A c \in PgpCall : \/ pgpCall'[c] = pgpCall[c] \/ pgpCall'[c] = Fail(pgpCall[c])
                             \/ pgpCall'[c] = MissedPing(pgpCall[c])
                             \/ pgpCall'[c] = [pgpCall[c] EXCEPT !.pc = "go"]
      BY <1>5 DEF PageMounts, Load, Reload, Die, PageUnmounts, Connect
    <2>3. \A c \in PgpCall : pgpCall'[c] \in CallState /\ pgpCall'[c].answer = pgpCall[c].answer
      BY <1>0, <2>2, "go" \in Pc, Failures DEF Pc
    <2>4. pgpCall' = pgpCall \/ pgpCall' = [c \in PgpCall |-> pgpCall'[c]]
      BY <1>5 DEF PageMounts, Load, Reload, Die, PageUnmounts, Connect
    <2>5. pgpCall' \in [PgpCall -> CallState]
      BY <1>0, <2>3, <2>4
    <2> QED BY <2>1, <2>3, <2>5, StateStep DEF BridgeInv
  <1> QED BY <1>1, <1>2, <1>3, <1>4, <1>5 DEF BridgeNext

\* useHiddenPgpExecutor.ts:115 - however many calls, timers, reloads and deaths of the
\* page there are, an answer settles the call it was given for and no other.
THEOREM AnswersReachTheirCalls == BridgeSpec => []AnswersMatchCalls
  <1>1. BridgeInv => AnswersMatchCalls
    BY DEF BridgeInv
  <1> QED BY <1>1, BridgeInitInv, BridgeNextInv, PTL DEF BridgeSpec

-----------------------------------------------------------------------------
(* Updates: what is installed is what was offered and signed.              *)

\* A check shows "checking" until it ends, and an install is of the release on display.
Checks == [pc : {"rest", "release", "manifest", "skipped"}, startup : BOOLEAN,
           version : Nat, size : Nat, found : [version : Nat, manifest : Nat]]
UpdatesInv ==
    /\ check \in Checks
    /\ display \in [status : Cards, release : [version : Nat, manifest : Nat]]
    /\ install \in [pc : {"rest", "permission", "download", "verify"},
                    release : [version : Nat, manifest : Nat]]
    /\ github \in [latest : Nat, apk : [Version -> Nat], manifest : [Version -> Nat]]
    /\ github.latest <= LastVersion
    /\ check.pc \in {"manifest"} => check.version \in Version
    /\ check.pc # "rest" => display.status = "checking"
    /\ display.status = "available" => display.release.version > Current
    /\ install.pc # "rest" =>
          /\ check.pc = "rest"
          /\ install.release = display.release /\ install.release.version > Current
    /\ InstallsWhatWasSigned

LEMMA UpdatesNextInv == UpdatesInv /\ [UpdatesNext]_updateVars => UpdatesInv'
  <1> SUFFICES ASSUME UpdatesInv, [UpdatesNext]_updateVars PROVE UpdatesInv'
    OBVIOUS
  <1> USE DEF UpdatesInv, Cards
  <1>0. {Current, LastVersion, LastBuild} \subseteq Nat
    BY UpdatesAssumption
  <1>1. CASE UNCHANGED updateVars
    BY <1>1 DEF updateVars, InstallsWhatWasSigned
  <1>2. CASE Publish
    BY <1>0, <1>2 DEF Publish, InstallsWhatWasSigned
  <1>3. CASE \E v \in Version : UploadApk(v) \/ UploadManifest(v)
    BY <1>0, <1>3 DEF UploadApk, UploadManifest, InstallsWhatWasSigned
  <1>4. ASSUME NEW startup \in BOOLEAN, BeginCheck(startup) PROVE UpdatesInv'
    <2> DEFINE c == [NoCheck EXCEPT !.pc = "release", !.startup = startup]
    <2>1. c \in Checks /\ c.pc = "release"
      BY DEF NoCheck, NoRelease, Checks
    <2>2. check' = c
      BY <1>4 DEF BeginCheck
    <2> HIDE DEF c
    <2> QED BY <1>4, <2>1, <2>2 DEF BeginCheck, InstallsWhatWasSigned
  <1>5. CASE ReleaseRead
    <2> DEFINE n == github.latest
    <2>1. n \in Version /\ Size(github.apk[n]) \in Nat
      BY <1>0, <1>5 DEF ReleaseRead, Version, Size
    <2>2. check' \in Checks /\ check'.pc = "manifest" /\ check'.version = n
      BY <1>5, <2>1 DEF ReleaseRead, Version, Checks
    <2> QED BY <1>5, <2>1, <2>2 DEF ReleaseRead, InstallsWhatWasSigned
  <1>6. CASE ManifestRead
    BY <1>0, <1>6 DEF Checks, ManifestRead, Version, InstallsWhatWasSigned
  <1>7. CASE ManifestMissed
    BY <1>0, <1>7 DEF Checks, ManifestMissed, Version, InstallsWhatWasSigned
  <1>8. CASE CheckEnds
    BY <1>0, <1>8 DEF Checks, CheckEnds, NoCheck, NoRelease, InstallsWhatWasSigned
  <1>9. CASE CheckFails
    BY <1>0, <1>9 DEF Checks, CheckFails, NoCheck, NoRelease, InstallsWhatWasSigned
  <1>10. CASE CloseModal \/ SkipLatestRelease \/ BeginInstall
    BY <1>0, <1>10 DEF CloseModal, SkipLatestRelease, BeginInstall, InstallsWhatWasSigned
  <1>11. CASE \E allowed \in BOOLEAN : PermissionAnswered(allowed)
    BY <1>0, <1>11 DEF PermissionAnswered, NoInstall, NoRelease, InstallsWhatWasSigned
  <1>12. CASE Downloaded \/ InstallFails \/ BecomesActive
    BY <1>0, <1>12 DEF Downloaded, InstallFails, BecomesActive, NoInstall, NoRelease, InstallsWhatWasSigned
  <1>13. CASE Verify
    BY <1>0, <1>13 DEF Verify, Verified, NoInstall, NoRelease, InstallsWhatWasSigned
  <1>14. CASE Relaunch
    BY <1>0, <1>14 DEF Checks, Relaunch, NoCheck, NoInstall, NoRelease, InstallsWhatWasSigned
  <1> QED BY <1>1, <1>2, <1>3, <1>4, <1>5, <1>6, <1>7, <1>8, <1>9, <1>10, <1>11, <1>12, <1>13, <1>14
          DEF UpdatesNext

\* appUpdateService.ts:304 - for any releases, uploads, checks and relaunches, the installer
\* is only given the build that the manifest of the offered release was signed for, and
\* that release is newer than the one that runs.
THEOREM SignedIsInstalled == UpdatesSpec => []InstallsWhatWasSigned
  <1>1. UpdatesInit => UpdatesInv
    BY UpdatesAssumption DEF Checks, UpdatesInit, UpdatesInv, NoCheck, NoRelease, NoInstall, Cards, InstallsWhatWasSigned
  <1>2. UpdatesInv => InstallsWhatWasSigned
    BY DEF UpdatesInv
  <1> QED BY <1>1, <1>2, UpdatesNextInv, PTL DEF UpdatesSpec

-----------------------------------------------------------------------------
(* The clipboard: a copy is gone by its time.                              *)

\* What the native timer will wipe was copied by a screen that still waits for the answer
\* of its copy, or has a timer of its own for the same time and text.
ClipInv ==
    /\ native \in BOOLEAN /\ now \in 0..LastSecond /\ due \in Nat
    /\ controller \in [Screen -> [value : Text \cup {NoText}, clearAt : Nat, timer : Nat]]
    /\ copying \in [Screen -> [text : Text, ttl : Ttl] \cup {NoCopy}]
    /\ wiping \in [Screen -> {"none", "clear", "finish"}]
    /\ native => \A s \in Screen : wiping[s] = "none"
    /\ native /\ due # Never =>
          /\ clip.by \in Screen
          /\ \/ copying[clip.by] # NoCopy
             \/ /\ controller[clip.by].timer = due
                /\ controller[clip.by].value = clip.text

LEMMA ClipNextInv == ClipInv /\ [ClipNext]_clipVars => ClipInv'
  <1> SUFFICES ASSUME ClipInv, [ClipNext]_clipVars PROVE ClipInv'
    OBVIOUS
  <1> USE ClipboardAssumption DEF ClipInv, Never, Ttl
  <1>1. CASE UNCHANGED clipVars
    BY <1>1 DEF clipVars
  <1>2. ASSUME NEW s \in Screen, NEW text \in Text, NEW ttl \in Ttl, BeginCopy(s, text, ttl)
        PROVE  ClipInv'
    BY <1>2 DEF BeginCopy, NoCopy
  <1>3. ASSUME NEW s \in Screen, Copied(s) PROVE ClipInv'
    BY <1>3 DEF Copied
  <1>4. ASSUME NEW s \in Screen, CopyFails(s) PROVE ClipInv'
    BY <1>4 DEF CopyFails
  <1>5. ASSUME NEW s \in Screen, WipeAtOnce(s) PROVE ClipInv'
    BY <1>5 DEF WipeAtOnce, WipeDue, Matches, Cleared, Nowhere
  <1>6. ASSUME NEW s \in Screen, BeginWipe(s) PROVE ClipInv'
    BY <1>6 DEF BeginWipe
  <1>7. ASSUME NEW s \in Screen, WipeClears(s) \/ WipeFinishes(s) PROVE ClipInv'
    BY <1>7 DEF WipeClears, WipeFinishes, Cleared, Nowhere
  <1>8. ASSUME NEW s \in Screen, LeaveScreen(s) PROVE ClipInv'
    BY <1>8 DEF LeaveScreen
  <1>9. CASE (\E text \in Text : UserCopies(text)) \/ Background \/ Foreground \/ Tick
    BY <1>9 DEF UserCopies, Background, Foreground, Tick
  <1> QED BY <1>1, <1>2, <1>3, <1>4, <1>5, <1>6, <1>7, <1>8, <1>9 DEF ClipNext

\* clipboardSensitivity.ts:4 - for any screens, texts and lifetimes, what a screen copied
\* last is gone by its time once the app is in the foreground and its timers have fired.
THEOREM CopiesGoInTime == ClipSpec => []CopiesAreWiped
  <1>1. ClipInit => ClipInv
    BY ClipboardAssumption DEF ClipInit, ClipInv, Nowhere, NoCopy, Never
  <1>2. ClipInv => CopiesAreWiped
    BY ClipboardAssumption DEF ClipInv, CopiesAreWiped, Busy, WipeDue, Never
  <1> QED BY <1>1, <1>2, ClipNextInv, PTL DEF ClipSpec

-----------------------------------------------------------------------------
(* Prompts: whoever waits for an answer has a prompt on the screen.        *)

Prompt == [shown : {"none", "mfa", "codes", "consent"}, kind : Flows, asked : BOOLEAN,
           codes : BOOLEAN, consent : BOOLEAN, closing : BOOLEAN]

\* Who waits for a prompt has one on the screen; a caller that still has to be told.
Held(s) == s \in Prompt /\ (s.asked \/ s.codes \/ s.consent => s.shown # "none")

\* Every way of showing and closing a prompt keeps its callers held.
LEMMA BlankHeld == Held(Blank) /\ ~Blank.asked
  BY DEF Held, Blank, Prompt, Flows

LEMMA MfaHeld ==
    ASSUME NEW s, Held(s), NEW kind \in Flows
    PROVE  /\ Held(WithMfa(s, kind)) /\ WithMfa(s, kind).asked
           /\ WithMfa(s, kind).shown = "mfa"
  BY DEF Held, WithMfa, Prompt

LEMMA OthersHeld ==
    ASSUME NEW s, Held(s)
    PROVE  /\ Held(WithCodes(s)) /\ WithCodes(s).asked = s.asked
           /\ Held(WithConsent(s)) /\ WithConsent(s).asked = s.asked
  BY DEF Held, WithCodes, WithConsent, Prompt

LEMMA ClosedHeld ==
    ASSUME NEW s, Held(s), NEW f \in BOOLEAN, NEW d \in BOOLEAN
    PROVE  Held(Closed(s, f, d))
  BY BlankHeld DEF Held, Closed, Hidden, Prompt

Flow == [pc : {"rest", "waits", "sends"}, kind : Flows, own : BOOLEAN,
         sequel : Sequels, attempt : {1, 2}]

\* The inductive invariant.
PromptInv ==
    /\ Held(screen) /\ flow \in Flow /\ late \subseteq Flows
    /\ flow.pc = "waits" => screen.asked

LEMMA NoFlowIsOne == NoFlow \in Flow /\ NoFlow.pc = "rest"
  BY DEF NoFlow, Flow, Flows, Sequels

\* Whatever the provider shows next, a flow that waits can be told or is.
LEMMA ShowsHeld ==
    ASSUME PromptInv, NEW s, Held(s), Shows(s), late' \subseteq Flows
    PROVE  PromptInv'
  BY NoFlowIsOne DEF PromptInv, Shows

LEMMA PromptedHeld ==
    ASSUME PromptInv, NEW f \in Flow, Prompted(screen, f), late' = late
    PROVE  PromptInv'
  <1>1. Held(screen') /\ screen'.asked
    BY MfaHeld DEF Prompted, PromptInv, Flow
  <1>2. flow' \in Flow
    BY DEF Prompted, Flow
  <1> QED BY <1>1, <1>2 DEF PromptInv

LEMMA HeardHeld ==
    ASSUME NEW s, Held(s), NEW kind, NEW codes \in BOOLEAN
    PROVE  Held(Heard(s, kind, codes))
  BY ClosedHeld, OthersHeld DEF Heard

LEMMA ModalNextInv == PromptInv /\ [ModalNext]_modalVars => PromptInv'
  <1> SUFFICES ASSUME PromptInv, [ModalNext]_modalVars PROVE PromptInv'
    OBVIOUS
  <1>0. Held(screen) /\ flow \in Flow /\ late \subseteq Flows
    BY DEF PromptInv
  <1>1. CASE UNCHANGED modalVars
    BY <1>1 DEF modalVars, PromptInv
  <1>2. CASE UserBack \/ CodesAcknowledged \/ ConsentAnswered \/ TimerFires
    BY <1>0, <1>2, BlankHeld, ShowsHeld
       DEF UserBack, CodesAcknowledged, ConsentAnswered, TimerFires, Hidden
  <1>3. ASSUME NEW kind \in Flows, NEW own \in BOOLEAN, NEW sequel \in Sequels,
               BeginFlow(kind, own, sequel)
        PROVE  PromptInv'
    <2>1. [NoFlow EXCEPT !.kind = kind, !.own = own, !.sequel = sequel] \in Flow
      BY DEF NoFlow, Flow
    <2> QED BY <1>3, <2>1, PromptedHeld DEF BeginFlow
  <1>4. CASE UserSubmits
    <2>1. Held(screen') /\ flow' \in Flow /\ flow'.pc = "sends" /\ late' = late
      BY <1>0, <1>4 DEF UserSubmits, Held, Prompt, Flow
    <2> QED BY <1>0, <2>1 DEF PromptInv
  <1>5. CASE WrongCode
    <2>1. Held(screen') /\ screen'.asked /\ flow' \in Flow /\ late' = late
      BY <1>0, <1>5, MfaHeld DEF WrongCode, Flow
    <2> QED BY <1>0, <2>1 DEF PromptInv
  <1>6. ASSUME NEW b \in BOOLEAN, Accepted(b) \/ GivesUp(b) PROVE PromptInv'
    <2>1. CASE Accepted(b)
      <3> DEFINE s == Heard(screen, flow.kind, b)
      <3>1. Held(s) /\ Held(Closed(s, FALSE, FALSE))
        BY <1>0, HeardHeld, ClosedHeld
      <3>2. /\ screen' = IF flow.kind = "login" THEN s ELSE Closed(s, FALSE, FALSE)
            /\ flow' = NoFlow /\ late' = late
        BY <2>1 DEF Accepted
      <3>3. Held(screen')
        BY <3>1, <3>2
      <3> QED BY <1>0, <3>2, <3>3, NoFlowIsOne DEF PromptInv
    <2>2. CASE GivesUp(b)
      <3>1. Held(screen') /\ flow' = NoFlow /\ late' \subseteq Flows
        BY <1>0, <2>2, ClosedHeld DEF GivesUp, Flow
      <3> QED BY <3>1, NoFlowIsOne DEF PromptInv
    <2> QED BY <1>6, <2>1, <2>2
  <1>7. ASSUME NEW b \in BOOLEAN, Resubmits(b) PROVE PromptInv'
    <2>1. screen' = screen /\ flow' \in Flow /\ flow'.pc = "sends" /\ late' \subseteq Flows
      BY <1>0, <1>7 DEF Resubmits, Flow
    <2> QED BY <1>0, <2>1 DEF PromptInv
  <1>8. ASSUME NEW b \in BOOLEAN, HandoffEnds(b) \/ AskConsent(b) PROVE PromptInv'
    BY <1>0, <1>8, ClosedHeld, OthersHeld, ShowsHeld DEF HandoffEnds, AskConsent
  <1>9. ASSUME NEW kind \in late, NEW codes \in BOOLEAN, LateAnswer(kind, codes) PROVE PromptInv'
    BY <1>0, <1>9, HeardHeld, ShowsHeld DEF LateAnswer
  <1>10. CASE OtherAnswer \/ Handoff
    BY <1>0, <1>10, ClosedHeld, ShowsHeld DEF OtherAnswer, Handoff
  <1>11. CASE CheckConsent
    BY <1>11 DEF CheckConsent, PromptInv
  <1>12. CASE CallerShowsCodes
    BY <1>0, <1>12, OthersHeld, ShowsHeld DEF CallerShowsCodes
  <1>13. CASE CallerGoesOn
    <2>1. [NoFlow EXCEPT !.kind = "sensitive"] \in Flow
      BY DEF NoFlow, Flow, Flows, Sequels
    <2> QED BY <1>13, <2>1, PromptedHeld DEF CallerGoesOn, PromptInv
  <1> QED BY <1>1, <1>2, <1>3, <1>4, <1>5, <1>6, <1>7, <1>8, <1>9, <1>10, <1>11, <1>12, <1>13
          DEF ModalNext

\* ModalContext.tsx:65, 157-188 - for any sequence of flows, answers, late answers and closing
\* events: a flow that waits for a code can still be told, and nobody waits for a prompt
\* while the screen is free.
THEOREM WaitersAreTold == ModalSpec => []WaitersAreHeld
  <1>1. ModalInit => PromptInv
    BY BlankHeld, NoFlowIsOne DEF ModalInit, PromptInv
  <1>2. PromptInv => WaitersAreHeld
    BY DEF PromptInv, Held, WaitersAreHeld
  <1> QED BY <1>1, <1>2, ModalNextInv, PTL DEF ModalSpec
=============================================================================

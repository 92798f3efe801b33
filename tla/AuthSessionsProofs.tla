------------------------- MODULE AuthSessionsProofs -------------------------
(***************************************************************************)
(* Theorems about AuthSessions, for any number of accounts, devices, ids,  *)
(* concurrent requests and cleanup jobs, and any token lifetimes.          *)
(***************************************************************************)
EXTENDS AuthSessions, TLAPS

(***************************************************************************)
(* What TypeOK needs to be inductive.                                      *)
(***************************************************************************)
\* Child documents name a family that was drawn.
ChildrenHaveFamily ==
    /\ \A t \in tokenDocs : token[t].familyId \in Family \cap minted
    /\ \A s \in sessionDocs : session[s].familyId \in Family \cap minted

\* What local variables r hold where they are used, given the drawn ids.
LocalOK(r, ids) ==
    /\ r.pc # "idle" /\ r.op # "cleanup" => r.fam \in Family \cap ids
    /\ r.pc = "issue" => r.op \in {"login", "refresh"}
    /\ r.pc \in {"sweep", "nextStale"} => r.op = "login"
    /\ r.pc # "idle" /\ r.op \in {"login", "refresh"} => r.tok \in Token \cap ids
    /\ r.pc \in {"query", "purge"} => r.left # <<>>
    /\ r.pc = "dropFamily" => r.op = "signOut"
    /\ r.op = "cleanup" => r.pc \in {"idle", "query", "purge", "respond"}

LocalsOK == \A w \in Worker : LocalOK(req[w], minted)

TypeInv == TypeOK /\ ChildrenHaveFamily /\ LocalsOK

-----------------------------------------------------------------------------
LEMMA IdleLocal == Idle \in Local /\ LocalOK(Idle, minted)
  BY SMT DEF Idle, Local, Pc, SessionOps, Id, Collection, LocalOK

LEMMA InitType == Init => TypeInv
  <1> SUFFICES ASSUME Init PROVE TypeInv
    OBVIOUS
  <1>1. TypeOK
    BY IdleLocal DEF Init, TypeOK, NoFamily, NoToken, NoSession, FamilyDoc, TokenDoc, SessionDoc
  <1>2. ChildrenHaveFamily
    BY DEF Init, ChildrenHaveFamily
  <1>3. LocalsOK
    BY IdleLocal DEF Init, LocalsOK
  <1> QED BY <1>1, <1>2, <1>3 DEF TypeInv

\* Replacing one worker's locals keeps the type of req and LocalsOK.
LEMMA BecomesType ==
    ASSUME TypeInv, NEW w \in Worker, NEW r \in Local, LocalOK(r, minted'),
           minted \subseteq minted', Becomes(w, r)
    PROVE  req' \in [Worker -> Local] /\ LocalsOK'
  <1>1. req' \in [Worker -> Local]
    BY DEF Becomes, TypeInv, TypeOK
  <1>2. ASSUME NEW v \in Worker PROVE LocalOK(req'[v], minted')
    <2>1. CASE v = w
      BY <2>1 DEF Becomes, TypeInv, TypeOK
    <2>2. CASE v # w
      <3>1. req'[v] = req[v]
        BY <2>2 DEF Becomes, TypeInv, TypeOK
      <3>2. LocalOK(req[v], minted)
        BY DEF TypeInv, LocalsOK
      <3> QED BY <3>1, <3>2 DEF LocalOK
    <2> QED BY <2>1, <2>2
  <1> QED BY <1>1, <1>2 DEF LocalsOK

\* A step that only changes local variables (and the history).
LEMMA LocalStep ==
    ASSUME TypeInv, NEW w \in Worker, NEW r \in Local, LocalOK(r, minted),
           Becomes(w, r),
           UNCHANGED <<docVars, dataVars, idVars, clock>>,
           stale' \in [Family -> SUBSET Family],
           sweep' \in [Family -> {"none", "running", "done"}],
           promised' \subseteq Family
    PROVE  TypeInv'
  <1> USE DEF docVars, dataVars, idVars
  <1>1. req' \in [Worker -> Local] /\ LocalsOK'
    BY BecomesType
  <1>2. TypeOK'
    BY <1>1 DEF TypeInv, TypeOK
  <1>3. ChildrenHaveFamily'
    BY DEF TypeInv, ChildrenHaveFamily
  <1> QED BY <1>1, <1>2, <1>3 DEF TypeInv

\* The documents that are left after a deletion are what they were.
LEMMA DeletedType ==
    ASSUME TypeInv, NEW ids, DeleteDocs(ids), UNCHANGED <<idVars, clock>>,
           stale' \in [Family -> SUBSET Family],
           sweep' \in [Family -> {"none", "running", "done"}],
           promised' \subseteq Family,
           req' \in [Worker -> Local], LocalsOK'
    PROVE  TypeInv'
  <1> USE DEF idVars
  <1>1. /\ family' \in [Family -> FamilyDoc]
        /\ token' \in [Token -> TokenDoc]
        /\ session' \in [Access -> SessionDoc]
    BY DEF DeleteDocs, TypeInv, TypeOK, NoFamily, NoToken, NoSession, FamilyDoc, TokenDoc, SessionDoc
  <1>2. TypeOK'
    BY <1>1 DEF DeleteDocs, TypeInv, TypeOK
  <1>3. ChildrenHaveFamily'
    BY DEF DeleteDocs, TypeInv, TypeOK, ChildrenHaveFamily
  <1> QED BY <1>2, <1>3 DEF TypeInv

LEMMA DeleteStep ==
    ASSUME TypeInv, NEW w \in Worker, NEW r \in Local, LocalOK(r, minted),
           Becomes(w, r), NEW ids, DeleteDocs(ids), UNCHANGED <<idVars, clock>>,
           stale' \in [Family -> SUBSET Family], UNCHANGED <<sweep, promised>>
    PROVE  TypeInv'
  <1> USE DEF idVars
  <1>1. req' \in [Worker -> Local] /\ LocalsOK'
    BY BecomesType
  <1> QED BY <1>1, DeletedType DEF TypeInv, TypeOK

LEMMA WorkerType ==
    ASSUME TypeInv, NEW w \in Worker
    PROVE  req[w] \in Local /\ LocalOK(req[w], minted)
  BY DEF TypeInv, TypeOK, LocalsOK

LEMMA CollectionSeqs ==
    /\ <<>> \in Seq(Collection)
    /\ FamilyChildren \in Seq(Collection) /\ FamilyChildren # <<>>
    /\ AllCollections \in Seq(Collection) /\ AllCollections # <<>>
    /\ CleanupOrder \in Seq(Collection) /\ CleanupOrder # <<>>
  BY DEF FamilyChildren, AllCollections, CleanupOrder, Collection

\* Going on at another pc, with everything else as it is.
LEMMA GotoLocal ==
    ASSUME TypeInv, NEW w \in Worker, NEW pc \in Pc \ {"query", "purge", "dropFamily"},
           pc = "issue" => req[w].op \in {"login", "refresh"},
           pc \in {"sweep", "nextStale"} => req[w].op = "login",
           req[w].pc # "idle", req[w].op # "cleanup"
    PROVE  /\ [req[w] EXCEPT !.pc = pc] \in Local
           /\ LocalOK([req[w] EXCEPT !.pc = pc], minted)
  BY WorkerType DEF Local, LocalOK

-----------------------------------------------------------------------------
(***************************************************************************)
(* Every action preserves TypeInv.                                         *)
(***************************************************************************)
LEMMA LoginType ==
    ASSUME TypeInv, NEW w \in Worker, Login(w)
    PROVE  TypeInv'
  <1> USE UserAssumption, LifeAssumption, DistinctIds
  <1>1. PICK u \in User, d \in Device \cup {None}, trusted \in BOOLEAN,
             f \in Family, t \in Token : LoginCommit(w, u, d, trusted, f, t)
    BY DEF Login
  <1> DEFINE r == [Idle EXCEPT !.pc = IF d = None THEN "issue" ELSE "sweep",
                               !.op = "login", !.userId = u, !.dev = d,
                               !.fam = f, !.tok = t]
  <1>2. r \in Local
    BY ZenonT(40), IdleLocal DEF Local, Pc, SessionOps
  <1>3. minted' = minted \cup {f, t}
    BY <1>1 DEF LoginCommit
  <1>4. LocalOK(r, minted')
    BY <1>3 DEF Idle, LocalOK
  <1>5. req' \in [Worker -> Local] /\ LocalsOK'
    <2>1. Becomes(w, r)
      BY <1>1 DEF LoginCommit
    <2> HIDE DEF r
    <2> QED BY <2>1, <1>2, <1>3, <1>4, BecomesType
  <1>6. TypeOK'
    BY <1>1, <1>5 DEF LoginCommit, TypeInv, TypeOK, devVars, Id, FamilyDoc, TokenDoc
  <1>7. ChildrenHaveFamily'
    BY <1>1 DEF LoginCommit, TypeInv, TypeOK, ChildrenHaveFamily
  <1> QED BY <1>5, <1>6, <1>7 DEF TypeInv

LEMMA SweepType ==
    ASSUME TypeInv, NEW w \in Worker, Sweep(w)
    PROVE  TypeInv'
  <1>0. req[w] \in Local /\ LocalOK(req[w], minted)
    BY WorkerType
  <1> USE <1>0
  <1>1. CASE SweepDevices(w)
    <2>1. stale' \in [Family -> SUBSET Family] /\ sweep' \in [Family -> {"none", "running", "done"}]
      BY <1>1 DEF SweepDevices, TypeInv, TypeOK, StaleDeviceFamilies
    <2>2. At(w, "sweep") /\ Goto(w, "nextStale")
      BY <1>1 DEF SweepDevices
    <2>3. PICK r \in Local : LocalOK(r, minted) /\ Becomes(w, r)
      BY <2>2, GotoLocal DEF At, Goto, Pc, LocalOK
    <2> QED BY <1>1, <2>1, <2>3, LocalStep DEF SweepDevices, TypeInv, TypeOK
  <1>2. CASE \E g \in Family : SweepFamily(w, g)
    <2>1. PICK g \in Family : SweepFamily(w, g)
      BY <1>2
    <2>2. stale' \in [Family -> SUBSET Family]
      BY <2>1 DEF SweepFamily, TypeInv, TypeOK
    <2> DEFINE r == [req[w] EXCEPT !.pc = "query", !.target = g,
                                   !.left = FamilyChildren]
    <2>3. r \in Local
      BY <2>1, CollectionSeqs DEF SweepFamily, Local, Pc
    <2>4. LocalOK(r, minted)
      BY <2>1, CollectionSeqs DEF SweepFamily, At, LocalOK, Local
    <2>5. Becomes(w, r)
      BY <2>1 DEF SweepFamily
    <2> HIDE DEF r
    <2> QED BY <2>1, <2>2, <2>3, <2>4, <2>5, DeleteStep DEF SweepFamily
  <1>3. CASE SweepDone(w)
    <2>1. sweep' \in [Family -> {"none", "running", "done"}]
      BY <1>3 DEF SweepDone, TypeInv, TypeOK
    <2>2. At(w, "nextStale") /\ Goto(w, "issue")
      BY <1>3 DEF SweepDone
    <2>3. PICK r \in Local : LocalOK(r, minted) /\ Becomes(w, r)
      BY <2>2, GotoLocal DEF At, Goto, Pc, LocalOK
    <2> QED BY <1>3, <2>1, <2>3, LocalStep DEF SweepDone, TypeInv, TypeOK
  <1>4. CASE SweepFails(w)
    <2>1. stale' \in [Family -> SUBSET Family] /\ sweep' \in [Family -> {"none", "running", "done"}]
      BY <1>4 DEF SweepFails, TypeInv, TypeOK
    <2> DEFINE r == [req[w] EXCEPT !.pc = "issue", !.target = None,
                                   !.left = <<>>, !.pend = {}]
    <2>2. r \in Local
      BY CollectionSeqs DEF Local, Pc
    <2>3. LocalOK(r, minted)
      BY <1>4 DEF SweepFails, LocalOK, Local
    <2>4. Becomes(w, r)
      BY <1>4 DEF SweepFails
    <2> HIDE DEF r
    <2> QED BY <1>4, <2>1, <2>2, <2>3, <2>4, LocalStep DEF SweepFails, TypeInv, TypeOK
  <1>5. CASE SweepQuery(w)
    <2> DEFINE m == Matches(w, Head(req[w].left))
               r == [req[w] EXCEPT !.pc = "purge", !.pend = m]
    <2>1. m \in SUBSET Id
      BY DEF Matches, FamilyMatches, UserMatches, ExpiredMatches, TypeInv, TypeOK, Id
    <2>2. r \in Local
      <3> HIDE DEF m
      <3> QED BY <2>1 DEF Local, Pc
    <2>3. LocalOK(r, minted)
      BY <1>5 DEF SweepQuery, At, LocalOK, Local
    <2>4. Becomes(w, r)
      BY <1>5 DEF SweepQuery
    <2> HIDE DEF r
    <2> QED BY <1>5, <2>2, <2>3, <2>4, LocalStep DEF SweepQuery, devVars, TypeInv, TypeOK
  <1>6. CASE SweepPurge(w)
    <2> DEFINE rest == Tail(req[w].left)
               r == [req[w] EXCEPT
                        !.pc = IF rest = <<>> THEN AfterSweep(req[w].op) ELSE "query",
                        !.pend = {}, !.left = rest]
    <2>1. rest \in Seq(Collection)
      BY <1>6 DEF SweepPurge, At, LocalOK, Local
    <2>2. r \in Local
      <3>1. (IF rest = <<>> THEN AfterSweep(req[w].op) ELSE "query") \in Pc
        BY DEF AfterSweep, Pc
      <3> HIDE DEF rest
      <3> QED BY ZenonT(40), <2>1, <3>1 DEF Local
    <2>3. LocalOK(r, minted)
      <3> HIDE DEF rest
      <3> QED BY <1>6 DEF SweepPurge, At, LocalOK, Local, AfterSweep
    <2>4. Becomes(w, r)
      BY <1>6 DEF SweepPurge
    <2> HIDE DEF r
    <2> QED BY <1>6, <2>2, <2>3, <2>4, DeleteStep DEF SweepPurge, devVars, TypeInv, TypeOK
  <1> QED BY <1>1, <1>2, <1>3, <1>4, <1>5, <1>6 DEF Sweep

LEMMA IssueType ==
    ASSUME TypeInv, NEW w \in Worker, Issue(w)
    PROVE  TypeInv'
  <1>1. PICK s \in Access, delivered \in BOOLEAN : IssueAccess(w, s, delivered)
    BY DEF Issue
  <1>2. req[w] \in Local /\ LocalOK(req[w], minted) /\ req[w].pc = "issue"
    BY <1>1, WorkerType DEF IssueAccess, At
  <1>3. req[w].fam \in Family \cap minted /\ req[w].tok \in Token \cap minted
    BY <1>2 DEF LocalOK
  <1>4. req' \in [Worker -> Local] /\ LocalsOK'
    BY <1>1, IdleLocal, BecomesType DEF IssueAccess, Idle, LocalOK
  <1>5. TypeOK'
    <2>1. session' \in [Access -> SessionDoc]
      BY <1>1, <1>2, LifeAssumption DEF IssueAccess, TypeInv, TypeOK, Local, SessionDoc
    <2>2. /\ sessionDocs' \subseteq Access \cap minted'
          /\ known' \subseteq (Token \cup Access) \cap minted'
          /\ minted' \subseteq Id
      BY <1>1, <1>3 DEF IssueAccess, TypeInv, TypeOK, Id
    <2> QED BY <1>1, <1>4, <2>1, <2>2 DEF IssueAccess, TypeInv, TypeOK, devVars
  <1>6. ChildrenHaveFamily'
    BY <1>1, <1>3 DEF IssueAccess, TypeInv, TypeOK, ChildrenHaveFamily
  <1> QED BY <1>4, <1>5, <1>6 DEF TypeInv

\* Deleting sessions leaves the others, with their fields.
LEMMA DeleteSessionsType ==
    ASSUME TypeInv, NEW ids, DeleteSessions(ids)
    PROVE  /\ sessionDocs' \subseteq sessionDocs
           /\ session' \in [Access -> SessionDoc]
           /\ \A s \in sessionDocs' : session'[s] = session[s]
  BY DEF DeleteSessions, TypeInv, TypeOK, NoSession, SessionDoc

LEMMA RevokedDoc ==
    ASSUME NEW d \in FamilyDoc
    PROVE  [d EXCEPT !.revoked = TRUE] \in FamilyDoc
  BY DEF FamilyDoc

LEMMA RefreshType ==
    ASSUME TypeInv, NEW w \in Worker, Refresh(w)
    PROVE  TypeInv'
  <1>1. PICK t \in Token, a \in (known \cap Access) \cup {None} :
            \/ RefreshReuse(w, t, a)
            \/ RefreshTooLate(w, t, a)
            \/ \E new \in Token : RefreshRotate(w, t, a, new)
    BY DEF Refresh
  <1> DEFINE f == token[t].familyId
  <1>2. CASE RefreshReuse(w, t, a)
    <2>1. f \in Family
      BY <1>2 DEF RefreshReuse, TypeInv, TypeOK
    <2>5. DeleteSessions(ExpiredSession(a))
      BY <1>2 DEF RefreshReuse
    <2>6. family' \in [Family -> FamilyDoc]
      <3>1. family' = [family EXCEPT ![f].revoked = TRUE]
        BY <1>2 DEF RefreshReuse
      <3>2. [family[f] EXCEPT !.revoked = TRUE] \in FamilyDoc
        BY <2>1, RevokedDoc DEF TypeInv, TypeOK
      <3> HIDE DEF f
      <3> QED BY <2>1, <3>1, <3>2 DEF TypeInv, TypeOK
    <2>2. TypeOK'
      BY <1>2, <2>1, <2>5, <2>6, DeleteSessionsType
      DEF RefreshReuse, TypeInv, TypeOK, idVars, devVars
    <2>3. ChildrenHaveFamily'
      BY <1>2, <2>5, DeleteSessionsType DEF RefreshReuse, TypeInv, ChildrenHaveFamily, idVars
    <2>4. LocalsOK'
      BY <1>2 DEF RefreshReuse, TypeInv, LocalsOK, idVars
    <2> QED BY <2>2, <2>3, <2>4 DEF TypeInv
  <1>3. CASE RefreshTooLate(w, t, a)
    <2>1. promised' \subseteq Family
      BY <1>3 DEF RefreshTooLate, TypeInv, TypeOK
    <2>2. LocalsOK'
      BY <1>3 DEF RefreshTooLate, TypeInv, LocalsOK, idVars
    <2> QED BY <1>3, <2>1, <2>2, DeletedType
        DEF RefreshTooLate, TypeInv, TypeOK, idVars, devVars
  <1>4. CASE \E new \in Token : RefreshRotate(w, t, a, new)
    <2>1. PICK new \in Token : RefreshRotate(w, t, a, new)
      BY <1>4
    <2>2. /\ f \in Family \cap minted
          /\ minted' = minted \cup {new}
          /\ t \in tokenDocs
      BY <2>1 DEF RefreshRotate, TypeInv, TypeOK
    <2> DEFINE r == [Idle EXCEPT !.pc = "issue", !.op = "refresh", !.fam = f,
                                 !.userId = family[f].userId, !.tok = new]
    <2>3. r \in Local
      BY <2>2, IdleLocal DEF TypeInv, TypeOK, FamilyDoc, Local, Pc, SessionOps
    <2>4. LocalOK(r, minted')
      BY <2>2 DEF Idle, LocalOK
    <2>5. req' \in [Worker -> Local] /\ LocalsOK'
      <3>1. Becomes(w, r)
        BY <2>1 DEF RefreshRotate
      <3> HIDE DEF r
      <3> QED BY <2>2, <2>3, <2>4, <3>1, BecomesType
    <2>6. /\ token' \in [Token -> TokenDoc]
          /\ \A v \in tokenDocs' : token'[v].familyId \in Family \cap minted'
      <3>1. /\ RotateTokens(t, new)
            /\ tokenDocs' = tokenDocs \cup {new}
        BY <2>1 DEF RefreshRotate
      <3>2. family[f].userId \in User \cup {None}
        BY <2>2 DEF TypeInv, TypeOK, FamilyDoc
      <3>3. clock \in Nat
        BY DEF TypeInv, TypeOK
      <3> DEFINE doc == [familyId |-> f, userId |-> family[f].userId,
                         createdAt |-> clock, used |-> FALSE]
      <3>4. token' = [token EXCEPT ![t].used = TRUE, ![new] = doc]
        BY <3>1 DEF RotateTokens
      <3>5. /\ doc \in TokenDoc
            /\ doc.familyId = f
        BY <2>2, <3>2, <3>3 DEF TokenDoc
      <3> HIDE DEF doc, f
      <3>6. ASSUME NEW v \in Token
            PROVE  /\ token'[v] \in TokenDoc
                   /\ token'[v].familyId = IF v = new THEN f ELSE token[v].familyId
        BY <3>4, <3>5 DEF TypeInv, TypeOK, TokenDoc
      <3>7. \A v \in tokenDocs' : token'[v].familyId \in Family \cap minted'
        BY <3>1, <3>6, <2>2 DEF TypeInv, TypeOK, ChildrenHaveFamily
      <3>8. token' \in [Token -> TokenDoc]
        <4>1. DOMAIN token' = Token /\ token' = [v \in Token |-> token'[v]]
          BY <3>4 DEF TypeInv, TypeOK
        <4> QED BY <4>1, <3>6
      <3> QED BY <3>7, <3>8
    <2>7. family' \in [Family -> FamilyDoc]
      <3>1. family' = [family EXCEPT ![f].expiresAt = clock + RefreshLife]
        BY <2>1 DEF RefreshRotate
      <3>2. clock + RefreshLife \in Nat
        BY LifeAssumption DEF TypeInv, TypeOK
      <3>3. [family[f] EXCEPT !.expiresAt = clock + RefreshLife] \in FamilyDoc
        BY <2>2, <3>2 DEF TypeInv, TypeOK, FamilyDoc
      <3> HIDE DEF f
      <3> QED BY <2>2, <3>1, <3>3 DEF TypeInv, TypeOK
    <2>8. DeleteSessions(ExpiredSession(a))
      BY <2>1 DEF RefreshRotate
    <2>9. TypeOK'
      BY <2>1, <2>2, <2>5, <2>6, <2>7, <2>8, DeleteSessionsType
      DEF RefreshRotate, TypeInv, TypeOK, devVars, Id
    <2>10. ChildrenHaveFamily'
      BY <2>2, <2>6, <2>8, DeleteSessionsType DEF TypeInv, ChildrenHaveFamily
    <2> QED BY <2>5, <2>9, <2>10 DEF TypeInv
  <1> QED BY <1>1, <1>2, <1>3, <1>4

LEMMA AuthenticateType ==
    ASSUME TypeInv, NEW w \in Worker, Authenticate(w)
    PROVE  TypeInv'
  <1>0. req[w] \in Local /\ LocalOK(req[w], minted)
    BY WorkerType
  <1> USE <1>0
  <1>1. CASE \E op \in SessionOps, a \in Access : AuthRead(w, op, a)
    <2>1. PICK op \in SessionOps, a \in Access : AuthRead(w, op, a)
      BY <1>1
    <2> DEFINE f == session[a].familyId
               d == Dead(f)
               pc == IF session[a].expiresAt < clock THEN "dropSession" ELSE "family"
               r == [Idle EXCEPT
                !.pc = pc, !.op = op, !.acc = a, !.fam = f,
                !.userId = session[a].userId, !.deadAtStart = d]
    <2>2. f \in Family \cap minted
      BY <2>1 DEF AuthRead, TypeInv, ChildrenHaveFamily
    <2>3. d \in BOOLEAN
      BY <2>2 DEF Dead, TypeInv, TypeOK
    <2>4. r \in Local
      <3>1. session[a].userId \in User \cup {None}
        BY <2>1 DEF AuthRead, TypeInv, TypeOK, SessionDoc
      <3>2. pc \in Pc
        BY DEF Pc
      <3> HIDE DEF f, d, pc
      <3> QED BY <2>2, <2>3, <3>1, <3>2, IdleLocal DEF Local
    <2>5. LocalOK(r, minted)
      BY <2>2 DEF Idle, LocalOK, SessionOps
    <2>6. Becomes(w, r)
      BY <2>1 DEF AuthRead
    <2> HIDE DEF r
    <2> QED BY <2>1, <2>4, <2>5, <2>6, LocalStep DEF AuthRead, devVars, TypeInv, TypeOK
  <1>2. CASE AuthFamily(w)
    <2>1. PICK r \in Local : LocalOK(r, minted) /\ Becomes(w, r)
      <3> DEFINE pc == IF FamilyUsable(req[w].fam) THEN "authed" ELSE "dropSession"
      <3>1. pc \in {"authed", "dropSession"}
        OBVIOUS
      <3>2. At(w, "family") /\ Goto(w, pc)
        BY <1>2 DEF AuthFamily
      <3> HIDE DEF pc
      <3> QED BY <3>1, <3>2, GotoLocal DEF At, Goto, Pc, LocalOK
    <2> QED BY <1>2, <2>1, LocalStep DEF AuthFamily, devVars, TypeInv, TypeOK
  <1>3. CASE DropSession(w)
    BY <1>3, IdleLocal, DeleteStep DEF DropSession, devVars, TypeInv, TypeOK
  <1> QED BY <1>1, <1>2, <1>3 DEF Authenticate

\* The two updates of a family document that MFA verification makes.
LEMMA UpdateType ==
    ASSUME TypeInv, NEW w \in Worker, NEW doc \in FamilyDoc, NEW r \in Local,
           LocalOK(r, minted), req[w].fam \in Family,
           UpdateFamily(w, doc, Becomes(w, r)),
           UNCHANGED <<tokenDocs, sessionDocs, token, session, idVars, devVars,
                       clock, promised>>
    PROVE  TypeInv'
  <1> USE DEF idVars, devVars
  <1>1. PICK q \in Local : LocalOK(q, minted) /\ Becomes(w, q)
    BY IdleLocal DEF UpdateFamily
  <1>2. req' \in [Worker -> Local] /\ LocalsOK'
    BY <1>1, BecomesType
  <1>3. family' \in [Family -> FamilyDoc] /\ familyDocs' = familyDocs
    BY DEF UpdateFamily, TypeInv, TypeOK
  <1>4. TypeOK'
    BY <1>2, <1>3 DEF TypeInv, TypeOK
  <1>5. ChildrenHaveFamily'
    BY DEF TypeInv, ChildrenHaveFamily
  <1> QED BY <1>2, <1>4, <1>5 DEF TypeInv

LEMMA VerifiedDocs ==
    ASSUME NEW d \in FamilyDoc, NEW c \in Nat, NEW b \in BOOLEAN
    PROVE  /\ [d EXCEPT !.mfaVerifiedAt = c] \in FamilyDoc
           /\ [d EXCEPT !.mfaTrusted = b, !.mfaVerifiedAt = c] \in FamilyDoc
  BY DEF FamilyDoc

LEMMA HandleType ==
    ASSUME TypeInv, NEW w \in Worker, Handle(w)
    PROVE  TypeInv'
  <1>0. req[w] \in Local /\ LocalOK(req[w], minted)
    BY WorkerType
  <1>1. stale \in [Family -> SUBSET Family]
        /\ sweep \in [Family -> {"none", "running", "done"}]
        /\ promised \subseteq Family /\ clock \in Nat
    BY DEF TypeInv, TypeOK
  <1> USE <1>0, <1>1
  <1>2. CASE SkipMfa(w)
    <2>1. PICK r \in Local : LocalOK(r, minted) /\ Becomes(w, r)
      BY <1>2, GotoLocal DEF SkipMfa, Sensitive, At, Goto, Pc
    <2> QED BY <1>2, <2>1, LocalStep DEF SkipMfa, devVars
  <1>3. ASSUME NEW from \in {"authed", "handler"}, NEW to \in {"markWrite", "trustWrite"},
               OwnedFamilyRead(w, from, to)
        PROVE  TypeInv'
    <2>1. PICK r \in Local : LocalOK(r, minted) /\ Becomes(w, r)
      BY <1>3, IdleLocal, GotoLocal DEF OwnedFamilyRead, At, Goto, Pc, LocalOK
    <2> QED BY <1>3, <2>1, LocalStep DEF OwnedFamilyRead, devVars
  <1>4. CASE MarkRead(w)
    BY <1>3, <1>4 DEF MarkRead
  <1>5. CASE TrustRead(w)
    BY <1>3, <1>5 DEF TrustRead
  <1>6. CASE MarkWrite(w)
    <2> DEFINE r == [req[w] EXCEPT !.pc = "handler"]
               doc == [family[req[w].fam] EXCEPT !.mfaVerifiedAt = clock]
    <2>1. req[w].pc = "markWrite" /\ req[w].op # "cleanup" /\ req[w].fam \in Family
      BY <1>6 DEF MarkWrite, At, LocalOK
    <2>2. r \in Local /\ LocalOK(r, minted)
      BY <2>1, GotoLocal DEF Pc
    <2>3. doc \in FamilyDoc
      BY <2>1, VerifiedDocs DEF TypeInv, TypeOK
    <2>4. UpdateFamily(w, doc, Becomes(w, r))
      BY <1>6 DEF MarkWrite, Goto
    <2> HIDE DEF r, doc
    <2> QED BY <1>6, <2>1, <2>2, <2>3, <2>4, UpdateType DEF MarkWrite
  <1>7. CASE TrustWrite(w)
    <2> DEFINE doc == TrustedFields(w)
    <2>1. req[w].fam \in Family
      BY <1>7 DEF TrustWrite, At, LocalOK
    <2>2. doc \in FamilyDoc
      <3> DEFINE d == family[req[w].fam]
                 b == HasMfa(req[w].fam) /\ req[w].op = "trust"
                 c == IF HasMfa(req[w].fam) THEN clock ELSE 0
      <3>1. d \in FamilyDoc /\ b \in BOOLEAN /\ c \in Nat
        BY <2>1 DEF TypeInv, TypeOK
      <3>2. doc = [d EXCEPT !.mfaTrusted = b, !.mfaVerifiedAt = c]
        BY DEF TrustedFields
      <3> HIDE DEF d, b, c, doc
      <3> QED BY <3>1, <3>2, VerifiedDocs
    <2>3. UpdateFamily(w, doc, Becomes(w, Idle))
      BY <1>7 DEF TrustWrite
    <2> HIDE DEF doc
    <2> QED BY <1>7, <2>1, <2>2, <2>3, IdleLocal, UpdateType DEF TrustWrite
  <1>8. CASE SignOutRead(w)
    <2> DEFINE pc == IF req[w].fam \in familyDocs THEN "dropFamily" ELSE "respond"
               r == [req[w] EXCEPT !.pc = pc, !.had = {req[w].fam}]
    <2>1. req[w].fam \in Family /\ pc \in {"dropFamily", "respond"}
      BY <1>8 DEF SignOutRead, At, LocalOK
    <2>2. Becomes(w, r)
      BY <1>8 DEF SignOutRead
    <2>3. req[w].pc = "authed" /\ req[w].op = "signOut"
      BY <1>8 DEF SignOutRead, At
    <2> HIDE DEF pc
    <2>4. r \in Local /\ LocalOK(r, minted)
      BY <2>1, <2>3 DEF Local, Pc, LocalOK
    <2> HIDE DEF r
    <2> QED BY <1>8, <2>2, <2>4, LocalStep DEF SignOutRead, devVars
  <1>9. CASE DropFamily(w)
    <2> DEFINE r == [req[w] EXCEPT !.pc = "query", !.target = req[w].fam,
                                   !.left = FamilyChildren]
    <2>1. Becomes(w, r)
      BY <1>9 DEF DropFamily
    <2>2. req[w].pc = "dropFamily" /\ req[w].op # "cleanup"
      BY <1>9 DEF DropFamily, At, LocalOK
    <2>3. r \in Local /\ LocalOK(r, minted)
      BY <2>2, CollectionSeqs DEF Local, Pc, LocalOK
    <2> HIDE DEF r
    <2> QED BY <1>9, <2>1, <2>3, DeleteStep DEF DropFamily, devVars
  <1>10. CASE RevokeAllStart(w)
    <2> DEFINE fs == {f \in familyDocs : family[f].userId = req[w].userId}
               r == [req[w] EXCEPT !.pc = "query", !.left = AllCollections,
                                   !.had = fs]
    <2>1. Becomes(w, r)
      BY <1>10 DEF RevokeAllStart
    <2>2. req[w].pc = "handler" /\ req[w].op # "cleanup"
      BY <1>10 DEF RevokeAllStart, At
    <2>3. fs \in SUBSET Family
      BY DEF TypeInv, TypeOK
    <2> HIDE DEF fs
    <2>4. r \in Local /\ LocalOK(r, minted)
      BY ZenonT(40), <2>2, <2>3, CollectionSeqs DEF Local, Pc, LocalOK
    <2> HIDE DEF r
    <2> QED BY <1>10, <2>1, <2>4, LocalStep DEF RevokeAllStart, devVars
  <1>11. CASE Serve(w)
    BY <1>11, IdleLocal, LocalStep DEF Serve, devVars
  <1>12. CASE Respond(w)
    <2>1. promised' \subseteq Family
      BY <1>12 DEF Respond, Local
    <2> QED BY <1>12, <2>1, IdleLocal, LocalStep DEF Respond, devVars
  <1> QED BY <1>2, <1>4, <1>5, <1>6, <1>7, <1>8, <1>9, <1>10, <1>11, <1>12 DEF Handle

LEMMA JobType ==
    ASSUME TypeInv, NEW w \in Worker, JobStart(w)
    PROVE  TypeInv'
  <1> DEFINE r == [Idle EXCEPT !.pc = "query", !.op = "cleanup", !.now = clock,
                               !.left = CleanupOrder]
  <1>1. r \in Local /\ LocalOK(r, minted)
    BY IdleLocal, CollectionSeqs DEF TypeInv, TypeOK, Local, Pc, LocalOK, Idle
  <1>2. Becomes(w, r)
    BY DEF JobStart
  <1> HIDE DEF r
  <1> QED BY <1>1, <1>2, LocalStep DEF JobStart, devVars, TypeInv, TypeOK

LEMMA AbortType ==
    ASSUME TypeInv, NEW w \in Worker, Abort(w)
    PROVE  TypeInv'
  <1>1. /\ stale' \in [Family -> SUBSET Family]
        /\ sweep' \in [Family -> {"none", "running", "done"}]
    BY DEF Abort, devVars, TypeInv, TypeOK
  <1> QED BY <1>1, IdleLocal, LocalStep DEF Abort, TypeInv, TypeOK

LEMMA TickType == ASSUME TypeInv, Tick PROVE TypeInv'
  <1> USE DEF Tick, docVars, dataVars, idVars, devVars
  <1>1. TypeOK'
    BY DEF TypeInv, TypeOK
  <1>2. ChildrenHaveFamily' /\ LocalsOK'
    BY DEF TypeInv, ChildrenHaveFamily, LocalsOK
  <1> QED BY <1>1, <1>2 DEF TypeInv

LEMMA NextType == TypeInv /\ [Next]_vars => TypeInv'
  <1> SUFFICES ASSUME TypeInv, [Next]_vars PROVE TypeInv'
    OBVIOUS
  <1>1. CASE Tick
    BY <1>1, TickType
  <1>2. ASSUME NEW w \in Worker, Step(w) PROVE TypeInv'
    BY <1>2, LoginType, SweepType, IssueType, RefreshType, AuthenticateType,
       HandleType, JobType, AbortType DEF Step
  <1>3. CASE UNCHANGED vars
    BY <1>3 DEF vars, docVars, dataVars, idVars, devVars, TypeInv, TypeOK,
                ChildrenHaveFamily, LocalsOK
  <1> QED BY <1>1, <1>2, <1>3 DEF Next

\* In every reachable state the variables have their types; documents exist
\* only under drawn ids and clients know only drawn tokens.
THEOREM TypeCorrect == Spec => []TypeOK
  <1>1. TypeInv => TypeOK
    BY DEF TypeInv
  <1> QED BY InitType, NextType, <1>1, PTL DEF Spec

-----------------------------------------------------------------------------
(***************************************************************************)
(* What a step may do to the family documents and to the workers.          *)
(***************************************************************************)
\* Family documents that a step leaves in place keep their account and their
\* device and, once revoked, stay revoked; any other is new.
FamilyStep ==
    /\ minted \subseteq minted'
    /\ \A f \in familyDocs' :
            \/ f \notin minted
            \/ /\ f \in familyDocs
               /\ family'[f].userId = family[f].userId
               /\ family'[f].deviceId = family[f].deviceId
               /\ family[f].revoked => family'[f].revoked

LEMMA DeleteKeepsFamilies ==
    ASSUME TypeInv, NEW ids, DeleteDocs(ids), UNCHANGED minted
    PROVE  FamilyStep
  BY DEF DeleteDocs, FamilyStep, TypeInv, TypeOK

\* What the updates of MFA trust leave alone.
LEMMA TrustedFieldsKeep ==
    ASSUME TypeInv, NEW w \in Worker, req[w].fam \in Family
    PROVE  /\ TrustedFields(w).userId = family[req[w].fam].userId
           /\ TrustedFields(w).deviceId = family[req[w].fam].deviceId
           /\ TrustedFields(w).revoked = family[req[w].fam].revoked
           /\ TrustedFields(w).mfaVerifiedAt = IF HasMfa(req[w].fam) THEN clock ELSE 0
  <1> DEFINE d == family[req[w].fam]
             b == HasMfa(req[w].fam) /\ req[w].op = "trust"
             c == IF HasMfa(req[w].fam) THEN clock ELSE 0
  <1>1. d \in FamilyDoc
    BY DEF TypeInv, TypeOK
  <1>2. TrustedFields(w) = [d EXCEPT !.mfaTrusted = b, !.mfaVerifiedAt = c]
    BY DEF TrustedFields
  <1>3. c = IF HasMfa(req[w].fam) THEN clock ELSE 0
    OBVIOUS
  <1> HIDE DEF b, c
  <1>4. /\ TrustedFields(w).userId = d.userId
        /\ TrustedFields(w).deviceId = d.deviceId
        /\ TrustedFields(w).revoked = d.revoked
        /\ TrustedFields(w).mfaVerifiedAt = c
    <2> HIDE DEF d
    <2> QED BY <1>1, <1>2 DEF FamilyDoc
  <1> QED BY <1>3, <1>4

LEMMA NextFamilyStep ==
    ASSUME TypeInv, [Next]_vars
    PROVE  FamilyStep
  <1> USE DEF docVars, dataVars, idVars, devVars
  <1>0. familyDocs \subseteq Family \cap minted /\ family \in [Family -> FamilyDoc]
    BY DEF TypeInv, TypeOK
  <1>1. ASSUME UNCHANGED <<familyDocs, family>>, minted \subseteq minted'
        PROVE  FamilyStep
    BY <1>1 DEF FamilyStep
  <1>2. ASSUME NEW w \in Worker, Login(w) PROVE FamilyStep
    <2>1. PICK u \in User, d \in Device \cup {None}, trusted \in BOOLEAN,
             f \in Family, t \in Token : LoginCommit(w, u, d, trusted, f, t)
      BY <1>2 DEF Login
    <2>2. /\ f \notin minted /\ minted \subseteq minted'
          /\ familyDocs' = familyDocs \cup {f}
          /\ \A g \in Family \ {f} : family'[g] = family[g]
      BY <1>0, <2>1 DEF LoginCommit
    <2> QED BY <1>0, <2>2 DEF FamilyStep
  <1>3. ASSUME NEW w \in Worker, Sweep(w) PROVE FamilyStep
    BY <1>1, <1>3, DeleteKeepsFamilies
    DEF Sweep, SweepDevices, SweepFamily, SweepDone, SweepFails, SweepQuery, SweepPurge
  <1>4. ASSUME NEW w \in Worker, Issue(w) PROVE FamilyStep
    BY <1>1, <1>4 DEF Issue, IssueAccess
  <1>5. ASSUME NEW w \in Worker, Refresh(w) PROVE FamilyStep
    <2>1. PICK t \in Token, a \in (known \cap Access) \cup {None} :
            \/ RefreshReuse(w, t, a)
            \/ RefreshTooLate(w, t, a)
            \/ \E new \in Token : RefreshRotate(w, t, a, new)
      BY <1>5 DEF Refresh
    <2>2. CASE RefreshTooLate(w, t, a)
      BY <2>2, DeleteKeepsFamilies DEF RefreshTooLate
    <2>3. CASE RefreshReuse(w, t, a)
      BY <1>0, <2>3 DEF RefreshReuse, FamilyStep, FamilyDoc
    <2>4. CASE \E new \in Token : RefreshRotate(w, t, a, new)
      BY <1>0, <2>4 DEF RefreshRotate, FamilyStep, FamilyDoc
    <2> QED BY <2>1, <2>2, <2>3, <2>4
  <1>6. ASSUME NEW w \in Worker, Authenticate(w) PROVE FamilyStep
    BY <1>1, <1>6, DeleteKeepsFamilies DEF Authenticate, AuthRead, AuthFamily, DropSession
  <1>7. ASSUME NEW w \in Worker, Handle(w) PROVE FamilyStep
    <2>1. CASE MarkWrite(w)
      BY <1>0, <2>1 DEF MarkWrite, UpdateFamily, FamilyStep, FamilyDoc
    <2>2. CASE TrustWrite(w)
      <3>1. req[w].fam \in Family
        BY <2>2, WorkerType DEF TrustWrite, At, LocalOK
      <3>2. UpdateFamily(w, TrustedFields(w), Becomes(w, Idle)) /\ UNCHANGED minted
        BY <2>2 DEF TrustWrite
      <3> QED BY <1>0, <3>1, <3>2, TrustedFieldsKeep DEF UpdateFamily, FamilyStep
    <2>3. CASE DropFamily(w)
      BY <2>3, DeleteKeepsFamilies DEF DropFamily
    <2> QED BY <1>1, <1>7, <2>1, <2>2, <2>3
        DEF Handle, SkipMfa, MarkRead, TrustRead, OwnedFamilyRead, SignOutRead,
            RevokeAllStart, Serve, Respond
  <1>8. ASSUME NEW w \in Worker, JobStart(w) \/ Abort(w) PROVE FamilyStep
    BY <1>1, <1>8 DEF JobStart, Abort
  <1>9. CASE Tick \/ UNCHANGED vars
    BY <1>1, <1>9 DEF Tick, vars
  <1> QED BY <1>2, <1>3, <1>4, <1>5, <1>6, <1>7, <1>8, <1>9 DEF Next, Step

\* A login between its query of the device's families and its answer.
Sweeping(r) == r.op = "login" /\ r.pc \in {"nextStale", "query", "purge"}

\* A step of w leaves the other workers alone, and w stays in its call, ends
\* it, or begins one; a login begins with a family id nobody has drawn.
WorkerStep(w) ==
    /\ \A v \in Worker \ {w} : req'[v] = req[v]
    /\ \/ req'[w].pc = "idle"
       \/ req'[w].op # "login"
       \/ /\ req[w].pc # "idle"
          /\ req'[w].op = req[w].op
          /\ req'[w].fam = req[w].fam
          /\ Sweeping(req'[w]) => Sweep(w)
       \/ req'[w].fam \notin minted /\ req'[w].pc \in {"sweep", "issue"}

LEMMA BecomesWorkerStep ==
    ASSUME TypeInv, NEW w \in Worker, NEW r, Becomes(w, r),
           \/ r.pc = "idle"
           \/ r.op # "login"
           \/ /\ req[w].pc # "idle" /\ r.op = req[w].op /\ r.fam = req[w].fam
              /\ Sweeping(r) => Sweep(w)
           \/ r.fam \notin minted /\ r.pc \in {"sweep", "issue"}
    PROVE  WorkerStep(w)
  BY DEF WorkerStep, Becomes, TypeInv, TypeOK

LEMMA GotoWorkerStep ==
    ASSUME TypeInv, NEW w \in Worker, NEW pc, Goto(w, pc), req[w].pc # "idle",
           Sweep(w) \/ pc \notin {"nextStale", "query", "purge"}
    PROVE  WorkerStep(w)
  <1>1. req[w] \in Local
    BY WorkerType
  <1> QED BY <1>1, BecomesWorkerStep DEF Goto, Local, Sweeping

LEMMA StepWorkerStep ==
    ASSUME TypeInv, NEW w \in Worker, Step(w)
    PROVE  WorkerStep(w)
  <1>0. req[w] \in Local /\ LocalOK(req[w], minted) /\ Idle.pc = "idle"
    BY WorkerType DEF Idle
  <1> USE <1>0
  <1>1. CASE Login(w)
    <2>1. PICK u \in User, d \in Device \cup {None}, trusted \in BOOLEAN,
             f \in Family, t \in Token : LoginCommit(w, u, d, trusted, f, t)
      BY <1>1 DEF Login
    <2> DEFINE r == [Idle EXCEPT !.pc = IF d = None THEN "issue" ELSE "sweep",
                               !.op = "login", !.userId = u, !.dev = d,
                               !.fam = f, !.tok = t]
    <2>2. r.fam = f /\ r.pc \in {"sweep", "issue"}
      BY DEF Idle
    <2>3. Becomes(w, r) /\ f \notin minted
      BY <2>1 DEF LoginCommit
    <2> HIDE DEF r
    <2> QED BY <2>2, <2>3, BecomesWorkerStep
  <1>2. CASE Sweep(w)
    BY <1>2, BecomesWorkerStep, GotoWorkerStep
    DEF Sweep, SweepDevices, SweepFamily, SweepDone, SweepFails, SweepQuery,
        SweepPurge, At, Local
  <1>3. CASE Issue(w)
    BY <1>3, BecomesWorkerStep DEF Issue, IssueAccess
  <1>4. CASE Refresh(w)
    <2>1. PICK t \in Token, a \in (known \cap Access) \cup {None} :
            \/ RefreshReuse(w, t, a)
            \/ RefreshTooLate(w, t, a)
            \/ \E new \in Token : RefreshRotate(w, t, a, new)
      BY <1>4 DEF Refresh
    <2>2. CASE RefreshReuse(w, t, a) \/ RefreshTooLate(w, t, a)
      BY <2>2 DEF RefreshReuse, RefreshTooLate, At, WorkerStep
    <2>3. CASE \E new \in Token : RefreshRotate(w, t, a, new)
      <3>1. PICK new \in Token : RefreshRotate(w, t, a, new)
        BY <2>3
      <3> DEFINE f == token[t].familyId
                 r == [Idle EXCEPT !.pc = "issue", !.op = "refresh", !.fam = f,
                                   !.userId = family[f].userId, !.tok = new]
      <3>2. r.op # "login"
        BY DEF Idle
      <3>3. Becomes(w, r)
        BY <3>1 DEF RefreshRotate
      <3> HIDE DEF r
      <3> QED BY <3>2, <3>3, BecomesWorkerStep
    <2> QED BY <2>1, <2>2, <2>3
  <1>5. CASE Authenticate(w)
    <2>1. CASE \E op \in SessionOps, a \in Access : AuthRead(w, op, a)
      <3>1. PICK op \in SessionOps, a \in Access : AuthRead(w, op, a)
        BY <2>1
      <3> DEFINE f == session[a].familyId
                 d == Dead(f)
                 pc == IF session[a].expiresAt < clock THEN "dropSession" ELSE "family"
                 r == [Idle EXCEPT
                        !.pc = pc, !.op = op, !.acc = a, !.fam = f,
                        !.userId = session[a].userId, !.deadAtStart = d]
      <3>2. Becomes(w, r)
        BY <3>1 DEF AuthRead
      <3>3. r.op # "login"
        <4> HIDE DEF d, pc
        <4> QED BY DEF Idle, SessionOps
      <3> HIDE DEF r
      <3> QED BY <3>2, <3>3, BecomesWorkerStep
    <2>2. CASE AuthFamily(w)
      BY <2>2, GotoWorkerStep DEF AuthFamily, At
    <2>3. CASE DropSession(w)
      BY <2>3, BecomesWorkerStep DEF DropSession
    <2> QED BY <1>5, <2>1, <2>2, <2>3 DEF Authenticate
  <1>6. CASE Handle(w)
    <2>1. CASE SkipMfa(w)
      BY <2>1, GotoWorkerStep DEF SkipMfa, At
    <2>2. CASE MarkRead(w) \/ TrustRead(w)
      BY <2>2, GotoWorkerStep, BecomesWorkerStep DEF MarkRead, TrustRead, OwnedFamilyRead, At
    <2>3. CASE MarkWrite(w)
      BY <2>3, GotoWorkerStep, BecomesWorkerStep DEF MarkWrite, UpdateFamily, At
    <2>4. CASE TrustWrite(w)
      BY <2>4, BecomesWorkerStep DEF TrustWrite, UpdateFamily
    <2>5. CASE SignOutRead(w) \/ DropFamily(w) \/ RevokeAllStart(w)
      BY <2>5, BecomesWorkerStep
      DEF SignOutRead, DropFamily, RevokeAllStart, At, Local, LocalOK, Sweeping
    <2>6. CASE Serve(w) \/ Respond(w)
      BY <2>6, BecomesWorkerStep DEF Serve, Respond
    <2> QED BY <1>6, <2>1, <2>2, <2>3, <2>4, <2>5, <2>6 DEF Handle
  <1>7. CASE JobStart(w)
    <2> DEFINE r == [Idle EXCEPT !.pc = "query", !.op = "cleanup", !.now = clock,
                                 !.left = CleanupOrder]
    <2>1. Becomes(w, r) /\ r.op # "login"
      BY <1>7 DEF JobStart, Idle
    <2> HIDE DEF r
    <2> QED BY <2>1, BecomesWorkerStep
  <1>8. CASE Abort(w)
    BY <1>8, BecomesWorkerStep DEF Abort
  <1> QED BY <1>1, <1>2, <1>3, <1>4, <1>5, <1>6, <1>7, <1>8 DEF Step

-----------------------------------------------------------------------------
(***************************************************************************)
(* What a step does to the local variables of the request that makes it.   *)
(***************************************************************************)
\* The request with the locals r goes on with the locals s, in the same call, and what it
\* is about to delete or has promised is not more than before.
Onward(r, s) ==
    /\ s.op = r.op /\ s.userId = r.userId /\ s.dev = r.dev /\ s.fam = r.fam
    /\ s.had = r.had /\ s.now = r.now /\ s.pend \subseteq r.pend
    /\ r.pc \notin {"idle", "dropFamily"} /\ s.pc # "dropFamily"
    /\ r.pc \in {"query", "purge"} \/ s.pc \in {"query", "purge"} => r.op = "login"

\* A request begins: nothing is to be deleted, nothing promised.
Fresh(s) == s.had = {} /\ s.pend = {} /\ s.pc # "dropFamily"

LEMMA IdleFresh ==
    /\ Idle.pc = "idle" /\ Idle.op = "none" /\ Idle.had = {} /\ Idle.pend = {}
    /\ Idle.fam = None /\ Idle.dev = None /\ Fresh(Idle)
  BY DEF Idle, Fresh

LEMMA BecomesIs ==
    ASSUME TypeInv, NEW w \in Worker, NEW s, Becomes(w, s)
    PROVE  req'[w] = s
  BY DEF Becomes, TypeInv, TypeOK

LEMMA GotoOnward ==
    ASSUME TypeInv, NEW w \in Worker, NEW pc, Goto(w, pc),
           req[w].pc \notin {"idle", "dropFamily", "query", "purge"},
           pc \notin {"query", "purge", "dropFamily"}
    PROVE  Onward(req[w], req'[w])
  <1>1. PICK r \in Local : r = req[w]
    BY WorkerType
  <1>2. req'[w] = [r EXCEPT !.pc = pc]
    BY <1>1, BecomesIs DEF Goto
  <1> QED BY <1>1, <1>2 DEF Onward, Local

LEMMA LoginStarts ==
    ASSUME TypeInv, NEW w \in Worker, NEW u \in User, NEW d \in Device \cup {None},
           NEW trusted \in BOOLEAN, NEW f \in Family, NEW t \in Token,
           LoginCommit(w, u, d, trusted, f, t)
    PROVE  /\ Fresh(req'[w]) /\ req'[w].op = "login" /\ req'[w].pc \in {"issue", "sweep"}
           /\ req'[w].fam = f /\ req'[w].userId = u /\ req'[w].dev = d
  <1> DEFINE pc == IF d = None THEN "issue" ELSE "sweep"
             r == [Idle EXCEPT !.pc = pc, !.op = "login", !.userId = u, !.dev = d,
                               !.fam = f, !.tok = t]
  <1>1. pc \in {"issue", "sweep"}
    OBVIOUS
  <1>2. Becomes(w, r)
    BY DEF LoginCommit
  <1> HIDE DEF pc
  <1>3. /\ Fresh(r) /\ r.op = "login" /\ r.pc = pc
        /\ r.fam = f /\ r.userId = u /\ r.dev = d
    BY <1>1 DEF Idle, Fresh
  <1> HIDE DEF r
  <1> QED BY <1>1, <1>2, <1>3, BecomesIs

LEMMA RotateStarts ==
    ASSUME TypeInv, NEW w \in Worker, NEW t \in Token, NEW a, NEW new \in Token,
           RefreshRotate(w, t, a, new)
    PROVE  /\ Fresh(req'[w]) /\ req'[w].op = "refresh" /\ req'[w].pc = "issue"
           /\ req'[w].fam = token[t].familyId
           /\ req'[w].userId = family[token[t].familyId].userId
  <1> DEFINE f == token[t].familyId
             u == family[f].userId
             r == [Idle EXCEPT !.pc = "issue", !.op = "refresh", !.fam = f,
                               !.userId = u, !.tok = new]
  <1>1. Becomes(w, r)
    BY DEF RefreshRotate
  <1> HIDE DEF f, u
  <1>2. /\ Fresh(r) /\ r.op = "refresh" /\ r.pc = "issue"
        /\ r.fam = f /\ r.userId = u
    BY DEF Idle, Fresh
  <1> HIDE DEF r
  <1> QED BY <1>1, <1>2, BecomesIs DEF f, u

LEMMA AuthStarts ==
    ASSUME TypeInv, NEW w \in Worker, NEW op \in SessionOps, NEW a \in Access, AuthRead(w, op, a)
    PROVE  /\ Fresh(req'[w]) /\ req'[w].op = op /\ req'[w].pc \in {"dropSession", "family"}
           /\ req'[w].fam = session[a].familyId /\ req'[w].userId = session[a].userId
           /\ a \in sessionDocs
  <1> DEFINE f == session[a].familyId
             u == session[a].userId
             d == Dead(f)
             pc == IF session[a].expiresAt < clock THEN "dropSession" ELSE "family"
             r == [Idle EXCEPT !.pc = pc, !.op = op, !.acc = a, !.fam = f,
                               !.userId = u, !.deadAtStart = d]
  <1>1. Becomes(w, r) /\ a \in sessionDocs
    BY DEF AuthRead
  <1>2. pc \in {"dropSession", "family"}
    OBVIOUS
  <1> HIDE DEF f, u, d, pc
  <1>3. /\ Fresh(r) /\ r.op = op /\ r.pc = pc
        /\ r.fam = f /\ r.userId = u
    BY <1>2 DEF Idle, Fresh
  <1> HIDE DEF r
  <1> QED BY <1>1, <1>2, <1>3, BecomesIs DEF f, u

LEMMA JobStarts ==
    ASSUME TypeInv, NEW w \in Worker, JobStart(w)
    PROVE  /\ Fresh(req'[w]) /\ req'[w].op = "cleanup" /\ req'[w].pc = "query"
           /\ req'[w].now = clock
  <1> DEFINE r == [Idle EXCEPT !.pc = "query", !.op = "cleanup", !.now = clock,
                               !.left = CleanupOrder]
  <1>1. Becomes(w, r)
    BY DEF JobStart
  <1>2. Fresh(r) /\ r.op = "cleanup" /\ r.pc = "query" /\ r.now = clock
    BY DEF Idle, Fresh
  <1> HIDE DEF r
  <1> QED BY <1>1, <1>2, BecomesIs

\* The locals of a request after the steps that delete and promise.
LEMMA SweepLocals ==
    ASSUME TypeInv, NEW w \in Worker
    PROVE  /\ SignOutRead(w) =>
                /\ req[w].op = "signOut" /\ req[w].pc = "authed" /\ req'[w].had = {req[w].fam}
                /\ req'[w].pc = IF req[w].fam \in familyDocs THEN "dropFamily" ELSE "respond"
                /\ \A x \in {"op", "fam", "userId", "pend", "now"} : req'[w][x] = req[w][x]
           /\ DropFamily(w) =>
                /\ req[w].pc = "dropFamily" /\ req'[w].pc = "query"
                /\ \A x \in {"op", "fam", "userId", "pend", "now", "had"} : req'[w][x] = req[w][x]
           /\ RevokeAllStart(w) =>
                /\ req[w].op = "revokeAll" /\ req[w].pc = "handler" /\ req'[w].pc = "query"
                /\ req'[w].left = AllCollections
                /\ req'[w].had = {f \in familyDocs : family[f].userId = req[w].userId}
                /\ \A x \in {"op", "fam", "userId", "pend", "now"} : req'[w][x] = req[w][x]
           /\ SweepQuery(w) =>
                /\ req[w].pc = "query" /\ req'[w].pc = "purge"
                /\ req'[w].pend = Matches(w, Head(req[w].left))
                /\ \A x \in {"op", "fam", "userId", "dev", "now", "had", "left"} :
                        req'[w][x] = req[w][x]
           /\ SweepPurge(w) =>
                /\ req[w].pc = "purge" /\ req'[w].pend = {} /\ req'[w].left = Tail(req[w].left)
                /\ req'[w].pc = IF Tail(req[w].left) = <<>> THEN AfterSweep(req[w].op) ELSE "query"
                /\ \A x \in {"op", "fam", "userId", "dev", "now", "had"} : req'[w][x] = req[w][x]
  <1>1. PICK r \in Local : r = req[w]
    BY WorkerType
  <1> USE <1>1
  <1>2. ASSUME SignOutRead(w)
        PROVE  /\ r.op = "signOut" /\ r.pc = "authed"
               /\ req'[w] = [r EXCEPT !.pc = IF r.fam \in familyDocs THEN "dropFamily" ELSE "respond",
                                      !.had = {r.fam}]
    BY <1>2, BecomesIs DEF SignOutRead, At
  <1>3. ASSUME DropFamily(w)
        PROVE  /\ r.pc = "dropFamily"
               /\ req'[w] = [r EXCEPT !.pc = "query", !.target = r.fam, !.left = FamilyChildren]
    BY <1>3, BecomesIs DEF DropFamily, At
  <1>4. ASSUME RevokeAllStart(w)
        PROVE  /\ r.op = "revokeAll" /\ r.pc = "handler"
               /\ req'[w] = [r EXCEPT !.pc = "query", !.left = AllCollections,
                                !.had = {f \in familyDocs : family[f].userId = r.userId}]
    BY <1>4, BecomesIs DEF RevokeAllStart, At
  <1>5. ASSUME SweepQuery(w)
        PROVE  /\ r.pc = "query"
               /\ req'[w] = [r EXCEPT !.pc = "purge", !.pend = Matches(w, Head(r.left))]
    BY <1>5, BecomesIs DEF SweepQuery, At
  <1>6. ASSUME SweepPurge(w)
        PROVE  /\ r.pc = "purge"
               /\ req'[w] = [r EXCEPT
                    !.pc = IF Tail(r.left) = <<>> THEN AfterSweep(r.op) ELSE "query",
                    !.pend = {}, !.left = Tail(r.left)]
    BY <1>6, BecomesIs DEF SweepPurge, At
  <1> QED BY <1>2, <1>3, <1>4, <1>5, <1>6 DEF Local

\* What a step does to the locals of the request that makes it.
LEMMA StepKinds ==
    ASSUME TypeInv, NEW w \in Worker, Step(w)
    PROVE  \/ UNCHANGED req
           \/ req'[w] = Idle
           \/ Onward(req[w], req'[w])
           \/ \E u \in User, d \in Device \cup {None}, trusted \in BOOLEAN, f \in Family, t \in Token :
                 LoginCommit(w, u, d, trusted, f, t)
           \/ \E t \in Token, a \in Access \cup {None}, new \in Token : RefreshRotate(w, t, a, new)
           \/ \E op \in SessionOps, a \in Access : AuthRead(w, op, a)
           \/ JobStart(w) \/ SignOutRead(w) \/ DropFamily(w) \/ RevokeAllStart(w)
           \/ SweepQuery(w) \/ SweepPurge(w)
  <1>0. PICK r \in Local : r = req[w] /\ LocalOK(r, minted)
    BY WorkerType
  <1>1. ASSUME Becomes(w, Idle) PROVE req'[w] = Idle
    BY <1>1, BecomesIs
  <1>2. CASE Login(w) \/ JobStart(w)
    BY <1>2 DEF Login
  <1>3. CASE Sweep(w)
    <2>1. CASE SweepDevices(w) \/ SweepDone(w)
      BY <2>1, GotoOnward DEF SweepDevices, SweepDone, At
    <2>2. ASSUME NEW g \in Family, SweepFamily(w, g) PROVE Onward(req[w], req'[w])
      <3>1. req'[w] = [r EXCEPT !.pc = "query", !.target = g, !.left = FamilyChildren]
        BY <1>0, <2>2, BecomesIs DEF SweepFamily
      <3>2. r.pc = "nextStale" /\ r.op = "login"
        BY <1>0, <2>2 DEF SweepFamily, At, LocalOK
      <3> QED BY <1>0, <3>1, <3>2 DEF Onward, Local
    <2>3. CASE SweepFails(w)
      <3>1. req'[w] = [r EXCEPT !.pc = "issue", !.target = None, !.left = <<>>, !.pend = {}]
        BY <1>0, <2>3, BecomesIs DEF SweepFails
      <3>2. r.pc \in {"sweep", "nextStale", "query", "purge"} /\ r.op = "login"
        BY <1>0, <2>3 DEF SweepFails
      <3> QED BY <1>0, <3>1, <3>2 DEF Onward, Local
    <2> QED BY <1>3, <2>1, <2>2, <2>3 DEF Sweep
  <1>4. CASE Issue(w) \/ Abort(w)
    BY <1>1, <1>4 DEF Issue, IssueAccess, Abort
  <1>5. CASE Refresh(w)
    BY <1>5 DEF Refresh, RefreshReuse, RefreshTooLate
  <1>6. CASE Authenticate(w)
    <2>1. CASE AuthFamily(w)
      BY <2>1, GotoOnward DEF AuthFamily, At
    <2> QED BY <1>1, <1>6, <2>1 DEF Authenticate, DropSession
  <1>7. CASE Handle(w)
    <2>1. CASE SkipMfa(w)
      BY <2>1, GotoOnward DEF SkipMfa, At
    <2>2. CASE MarkRead(w) \/ TrustRead(w)
      BY <1>1, <2>2, GotoOnward DEF MarkRead, TrustRead, OwnedFamilyRead, At
    <2>3. CASE MarkWrite(w)
      BY <1>1, <2>3, GotoOnward DEF MarkWrite, UpdateFamily, At
    <2>4. CASE TrustWrite(w)
      BY <1>1, <2>4 DEF TrustWrite, UpdateFamily
    <2>5. CASE Serve(w) \/ Respond(w)
      BY <1>1, <2>5 DEF Serve, Respond
    <2> QED BY <1>7, <2>1, <2>2, <2>3, <2>4, <2>5 DEF Handle
  <1> QED BY <1>2, <1>3, <1>4, <1>5, <1>6, <1>7 DEF Step

(***************************************************************************)
(* The safety properties, proved on top of TypeInv.  Each proof looks at   *)
(* the steps by what they do to the family documents (FamilyStep), to the  *)
(* local variables of a request (StepKinds), to the refresh-token          *)
(* documents (TokenFrame) and to the device sweeps, so that most actions   *)
(* are dealt with at once.                                                 *)
(***************************************************************************)
-----------------------------------------------------------------------------
(***************************************************************************)
(* What requests know and owe.  A request and a session name the account   *)
(* of their family; what a request is about to delete is its own, or is    *)
(* expired; and every family it is going to promise dead is dead already,  *)
(* or its sweep still has it ahead.                                        *)
(***************************************************************************)
OwnLocal(r) ==
    r.pc # "idle" /\ r.op # "cleanup" /\ r.fam \in familyDocs =>
        /\ family[r.fam].userId = r.userId
        /\ r.op = "login" => family[r.fam].deviceId = r.dev

PurgeLocal(r) ==
    /\ r.pc \in {"query", "purge"} => r.op \in {"login", "signOut", "revokeAll", "cleanup"}
    /\ r.op \in {"login", "signOut"} => r.pend \cap Family = {}
    /\ r.op = "revokeAll" =>
          \A f \in r.pend \cap Family :
             f \in minted /\ (f \in familyDocs => family[f].userId = r.userId)
    /\ r.op = "cleanup" =>
          /\ r.now <= clock
          /\ \A f \in r.pend \cap Family :
                f \in minted /\ (f \in familyDocs => family[f].expiresAt < clock)

\* The sweep of an account has the family f still ahead.
Ahead(r, f) ==
    /\ r.op = "revokeAll" /\ f \in familyDocs /\ family[f].userId = r.userId
    /\ \/ r.pc = "query" /\ r.left \in {AllCollections, Tail(AllCollections)}
       \/ r.pc = "purge" /\ (r.left = AllCollections \/ f \in r.pend)

PromiseLocal(r) ==
    \A f \in r.had : Dead(f) \/ (r.pc = "dropFamily" /\ f = r.fam) \/ Ahead(r, f)

SessionsOwned ==
    \A s \in sessionDocs :
        session[s].familyId \in familyDocs =>
            family[session[s].familyId].userId = session[s].userId

RequestInv ==
    /\ \A w \in Worker : OwnLocal(req[w]) /\ PurgeLocal(req[w]) /\ PromiseLocal(req[w])
    /\ SessionsOwned
    /\ PromisedRevocationsHold

\* A family that expired is not prolonged.
ExpiryStep ==
    /\ clock \in Nat /\ clock' \in Nat /\ clock <= clock'
    /\ \A f \in familyDocs' :
            f \notin minted \/ (family[f].expiresAt < clock => family'[f].expiresAt < clock')

LEMMA DeadIsStable ==
    ASSUME TypeInv, FamilyStep, NEW f \in Family, Dead(f)
    PROVE  Dead(f)'
  BY DEF FamilyStep, Dead

LEMMA NextExpiryStep ==
    ASSUME TypeInv, [Next]_vars
    PROVE  ExpiryStep
  <1> USE DEF docVars, dataVars, idVars, devVars
  <1>0. /\ familyDocs \subseteq Family \cap minted /\ family \in [Family -> FamilyDoc]
        /\ clock \in Nat /\ \A f \in familyDocs : family[f].expiresAt \in Nat
    BY DEF TypeInv, TypeOK, FamilyDoc
  <1>1. ASSUME UNCHANGED clock,
               \A f \in familyDocs' : f \notin minted \/ family'[f].expiresAt = family[f].expiresAt
        PROVE  ExpiryStep
    BY <1>0, <1>1 DEF ExpiryStep
  <1>2. ASSUME NEW ids, DeleteDocs(ids), UNCHANGED clock PROVE ExpiryStep
    BY <1>0, <1>1, <1>2 DEF DeleteDocs
  <1>3. ASSUME NEW w \in Worker, Login(w) PROVE ExpiryStep
    <2>1. PICK u \in User, d \in Device \cup {None}, trusted \in BOOLEAN,
             f \in Family, t \in Token : LoginCommit(w, u, d, trusted, f, t)
      BY <1>3 DEF Login
    <2>2. /\ f \notin minted /\ UNCHANGED clock
          /\ familyDocs' = familyDocs \cup {f}
          /\ \A g \in Family \ {f} : family'[g] = family[g]
      BY <1>0, <2>1 DEF LoginCommit
    <2> QED BY <1>0, <1>1, <2>2
  <1>4. ASSUME NEW w \in Worker, Sweep(w) \/ Issue(w) \/ Authenticate(w) \/ JobStart(w) \/ Abort(w)
        PROVE  ExpiryStep
    BY <1>0, <1>1, <1>2, <1>4
    DEF Sweep, SweepDevices, SweepFamily, SweepDone, SweepFails, SweepQuery, SweepPurge,
        Issue, IssueAccess, Authenticate, AuthRead, AuthFamily, DropSession, JobStart, Abort
  <1>5. ASSUME NEW w \in Worker, Refresh(w) PROVE ExpiryStep
    <2>1. PICK t \in Token, a \in (known \cap Access) \cup {None} :
            \/ RefreshReuse(w, t, a)
            \/ RefreshTooLate(w, t, a)
            \/ \E new \in Token : RefreshRotate(w, t, a, new)
      BY <1>5 DEF Refresh
    <2>2. CASE RefreshTooLate(w, t, a)
      BY <1>2, <2>2 DEF RefreshTooLate
    <2>3. CASE RefreshReuse(w, t, a)
      BY <1>0, <1>1, <2>3 DEF RefreshReuse, FamilyDoc
    <2>4. CASE \E new \in Token : RefreshRotate(w, t, a, new)
      <3>1. /\ token[t].familyId \in familyDocs /\ UNCHANGED <<familyDocs, clock>>
            /\ ~(family[token[t].familyId].expiresAt < clock)
            /\ family' = [family EXCEPT ![token[t].familyId].expiresAt = clock + RefreshLife]
        BY <2>4 DEF RefreshRotate, RefreshExpired
      <3> QED BY <1>0, <3>1 DEF ExpiryStep, FamilyDoc
    <2> QED BY <2>1, <2>2, <2>3, <2>4
  <1>6. ASSUME NEW w \in Worker, Handle(w) PROVE ExpiryStep
    <2>1. CASE MarkWrite(w)
      BY <1>0, <1>1, <2>1 DEF MarkWrite, UpdateFamily, FamilyDoc
    <2>2. CASE TrustWrite(w)
      <3>1. req[w].fam \in Family
        BY <2>2, WorkerType DEF TrustWrite, At, LocalOK
      <3>2. PICK d \in FamilyDoc : d = family[req[w].fam]
        BY <1>0, <3>1
      <3>3. TrustedFields(w).expiresAt = d.expiresAt
        BY <3>2, ZenonT(40) DEF TrustedFields, FamilyDoc
      <3>4. UpdateFamily(w, TrustedFields(w), Becomes(w, Idle)) /\ UNCHANGED clock
        BY <2>2 DEF TrustWrite
      <3> QED BY <1>0, <1>1, <3>1, <3>2, <3>3, <3>4 DEF UpdateFamily
    <2>3. CASE DropFamily(w)
      BY <1>2, <2>3 DEF DropFamily
    <2> QED BY <1>0, <1>1, <1>6, <2>1, <2>2, <2>3
        DEF Handle, SkipMfa, MarkRead, TrustRead, OwnedFamilyRead, SignOutRead,
            RevokeAllStart, Serve, Respond
  <1>7. CASE Tick
    <2>1. UNCHANGED <<familyDocs, family>> /\ clock' = clock + 1
      BY <1>7 DEF Tick
    <2> QED BY <1>0, <2>1 DEF ExpiryStep
  <1>8. CASE UNCHANGED vars
    BY <1>0, <1>1, <1>8 DEF vars
  <1> QED BY <1>3, <1>4, <1>5, <1>6, <1>7, <1>8 DEF Next, Step

\* What holds of the locals of a request is not disturbed by others.
LEMMA LocalsAreStable ==
    ASSUME TypeInv, FamilyStep, ExpiryStep, NEW r \in Local, LocalOK(r, minted)
    PROVE  /\ OwnLocal(r) => OwnLocal(r)'
           /\ PurgeLocal(r) => PurgeLocal(r)'
           /\ PromiseLocal(r) => PromiseLocal(r)'
  <1>0. minted \subseteq minted' /\ familyDocs \subseteq minted
    BY DEF FamilyStep, TypeInv, TypeOK
  <1>1. OwnLocal(r) => OwnLocal(r)'
    BY DEF OwnLocal, FamilyStep, LocalOK
  <1>2. ASSUME PurgeLocal(r) PROVE PurgeLocal(r)'
    <2>1. r.now \in Nat
      BY DEF Local
    <2>2. r.now <= clock => r.now <= clock'
      BY <2>1 DEF ExpiryStep
    <2>3. ASSUME NEW f, f \in minted
          PROVE  /\ f \in minted'
                 /\ f \in familyDocs' => /\ f \in familyDocs /\ family'[f].userId = family[f].userId
                                         /\ family[f].expiresAt < clock => family'[f].expiresAt < clock'
      BY <2>3 DEF FamilyStep, ExpiryStep
    <2> QED BY <1>2, <2>2, <2>3 DEF PurgeLocal
  <1>3. ASSUME PromiseLocal(r), NEW f \in r.had
        PROVE  Dead(f)' \/ (r.pc = "dropFamily" /\ f = r.fam) \/ Ahead(r, f)'
    <2>1. f \in Family
      BY DEF Local
    <2>2. CASE Dead(f)
      BY <2>1, <2>2, DeadIsStable
    <2>3. CASE Ahead(r, f)
      <3>1. CASE f \in familyDocs'
        BY <1>0, <2>3, <3>1 DEF Ahead, FamilyStep
      <3>2. CASE f \notin familyDocs'
        BY <1>0, <2>3, <3>2 DEF Ahead, Dead
      <3> QED BY <3>1, <3>2
    <2> QED BY <1>3, <2>2, <2>3 DEF PromiseLocal
  <1> QED BY <1>1, <1>2, <1>3 DEF PromiseLocal

\* What a step leaves true of the locals of the request that makes it.
Kept(s) == OwnLocal(s) /\ PurgeLocal(s) /\ PromiseLocal(s)

\* The ids of the three collections differ.
LEMMA IdsDiffer ==
    ASSUME TypeInv
    PROVE  /\ sessionDocs \cap Family = {} /\ tokenDocs \cap Family = {}
           /\ familyDocs \subseteq Family \cap minted
  BY DistinctIds DEF TypeInv, TypeOK

LEMMA OnwardKept ==
    ASSUME TypeInv, FamilyStep, ExpiryStep, NEW r \in Local, LocalOK(r, minted), Kept(r),
           NEW s \in Local, Onward(r, s)
    PROVE  Kept(s)'
  <1>1. OwnLocal(r)' /\ PurgeLocal(r)'
    BY LocalsAreStable DEF Kept
  <1>2. OwnLocal(s)'
    BY <1>1 DEF OwnLocal, Onward
  <1>3. PurgeLocal(s)'
    BY <1>1 DEF PurgeLocal, Onward
  <1>4. ASSUME NEW f \in s.had PROVE Dead(f)'
    <2>1. f \in Family /\ f \in r.had
      BY DEF Local, Onward
    <2>2. ~Ahead(r, f)
      BY DEF Ahead, Onward
    <2>3. Dead(f)
      BY <2>1, <2>2 DEF Kept, PromiseLocal, Onward
    <2> QED BY <2>1, <2>3, DeadIsStable
  <1>5. PromiseLocal(s)'
    BY <1>4 DEF PromiseLocal
  <1> QED BY <1>2, <1>3, <1>5 DEF Kept

\* A request that begins names the account of its family.
LEMMA FreshKept ==
    ASSUME NEW s, Fresh(s), OwnLocal(s)', s.pc \in {"query", "purge"} => s.op = "cleanup",
           s.op = "cleanup" => s.now <= clock'
    PROVE  Kept(s)'
  BY DEF Fresh, Kept, PurgeLocal, PromiseLocal

LEMMA LoginKept ==
    ASSUME TypeInv, NEW w \in Worker, NEW u \in User, NEW d \in Device \cup {None},
           NEW trusted \in BOOLEAN, NEW f \in Family, NEW t \in Token,
           LoginCommit(w, u, d, trusted, f, t), NEW s, s = req'[w]
    PROVE  Kept(s)'
  <1>1. family'[f].userId = u /\ family'[f].deviceId = d
    BY DEF LoginCommit, TypeInv, TypeOK
  <1>2. /\ Fresh(s) /\ s.op = "login" /\ s.pc \in {"issue", "sweep"}
        /\ s.fam = f /\ s.userId = u /\ s.dev = d
    BY LoginStarts
  <1>3. OwnLocal(s)'
    BY <1>1, <1>2 DEF OwnLocal
  <1> QED BY <1>2, <1>3, FreshKept

LEMMA RotateKept ==
    ASSUME TypeInv, NEW w \in Worker, NEW t \in Token, NEW a, NEW new \in Token,
           RefreshRotate(w, t, a, new), NEW s, s = req'[w]
    PROVE  Kept(s)'
  <1>1. PICK f \in Family : f = token[t].familyId
    BY DEF RefreshRotate, TypeInv, ChildrenHaveFamily
  <1>2. family'[f].userId = family[f].userId
    BY <1>1 DEF RefreshRotate, TypeInv, TypeOK, FamilyDoc
  <1>3. /\ Fresh(s) /\ s.op = "refresh" /\ s.pc = "issue" /\ s.fam = f
        /\ s.userId = family[f].userId
    BY <1>1, RotateStarts
  <1>4. OwnLocal(s)'
    BY <1>2, <1>3 DEF OwnLocal
  <1> QED BY <1>3, <1>4, FreshKept

LEMMA AuthKept ==
    ASSUME TypeInv, SessionsOwned, NEW w \in Worker, NEW op \in SessionOps, NEW a \in Access,
           AuthRead(w, op, a), NEW s, s = req'[w]
    PROVE  Kept(s)'
  <1>1. UNCHANGED <<familyDocs, family>>
    BY DEF AuthRead, docVars, dataVars
  <1>2. /\ Fresh(s) /\ s.op = op /\ s.pc \in {"dropSession", "family"} /\ a \in sessionDocs
        /\ s.fam = session[a].familyId /\ s.userId = session[a].userId
    BY AuthStarts
  <1>3. op \notin {"login", "cleanup"}
    BY DEF SessionOps
  <1>4. OwnLocal(s)'
    BY <1>1, <1>2, <1>3 DEF OwnLocal, SessionsOwned
  <1> QED BY <1>2, <1>3, <1>4, FreshKept

LEMMA JobKept ==
    ASSUME TypeInv, NEW w \in Worker, JobStart(w), NEW s, s = req'[w]
    PROVE  Kept(s)'
  <1>1. clock' = clock /\ clock \in Nat
    BY DEF JobStart, TypeInv, TypeOK
  <1>2. Fresh(s) /\ s.op = "cleanup" /\ s.pc = "query" /\ s.now = clock
    BY JobStarts
  <1>3. OwnLocal(s)'
    BY <1>2 DEF OwnLocal
  <1> QED BY <1>1, <1>2, <1>3, FreshKept

\* Sign-out: the family is deleted before anything is promised.
LEMMA SignOutKept ==
    ASSUME TypeInv, FamilyStep, ExpiryStep, NEW w \in Worker, SignOutRead(w) \/ DropFamily(w),
           NEW r \in Local, r = req[w], Kept(r), NEW s, s = req'[w]
    PROVE  Kept(s)'
  <1>0. LocalOK(r, minted)
    BY WorkerType
  <1>1. OwnLocal(r)' /\ PurgeLocal(r)'
    BY <1>0, LocalsAreStable DEF Kept
  <1>2. CASE SignOutRead(w)
    <2>1. /\ r.op = "signOut" /\ r.pc = "authed" /\ s.had = {r.fam}
          /\ s.pc = IF r.fam \in familyDocs THEN "dropFamily" ELSE "respond"
          /\ s.op = r.op /\ s.fam = r.fam /\ s.userId = r.userId /\ s.pend = r.pend
      BY <1>2, SweepLocals
    <2>2. UNCHANGED <<familyDocs, family, minted>> /\ r.fam \in minted
      BY <1>0, <1>2, <2>1 DEF SignOutRead, docVars, dataVars, idVars, LocalOK
    <2>3. OwnLocal(s)'
      BY <1>1, <2>1 DEF OwnLocal
    <2>4. PurgeLocal(s)'
      BY <1>1, <2>1 DEF PurgeLocal
    <2>5. PromiseLocal(s)'
      BY <2>1, <2>2 DEF PromiseLocal, Dead
    <2> QED BY <2>3, <2>4, <2>5 DEF Kept
  <1>3. CASE DropFamily(w)
    <2>1. /\ r.pc = "dropFamily" /\ s.pc = "query" /\ r.op = "signOut"
          /\ s.op = r.op /\ s.fam = r.fam /\ s.userId = r.userId /\ s.pend = r.pend
          /\ s.had = r.had
      BY <1>0, <1>3, SweepLocals DEF LocalOK
    <2>2. r.fam \notin familyDocs' /\ r.fam \in minted'
      BY <1>0, <1>3, <2>1 DEF DropFamily, DeleteDocs, idVars, LocalOK
    <2>3. OwnLocal(s)'
      BY <1>1, <2>1 DEF OwnLocal
    <2>4. PurgeLocal(s)'
      BY <1>1, <2>1 DEF PurgeLocal
    <2>5. ASSUME NEW f \in s.had PROVE Dead(f)'
      <3>1. f \in Family
        BY <2>1 DEF Local
      <3>2. Dead(f) \/ f = r.fam
        BY <2>1 DEF Kept, PromiseLocal, Ahead
      <3> QED BY <2>2, <3>1, <3>2, DeadIsStable DEF Dead
    <2>6. PromiseLocal(s)'
      BY <2>5 DEF PromiseLocal
    <2> QED BY <2>3, <2>4, <2>6 DEF Kept
  <1> QED BY <1>2, <1>3

LEMMA RevokeAllKept ==
    ASSUME TypeInv, FamilyStep, ExpiryStep, NEW w \in Worker, RevokeAllStart(w),
           NEW r \in Local, r = req[w], Kept(r), NEW s, s = req'[w]
    PROVE  Kept(s)'
  <1>0. LocalOK(r, minted)
    BY WorkerType
  <1>1. OwnLocal(r)' /\ PurgeLocal(r)'
    BY <1>0, LocalsAreStable DEF Kept
  <1>2. /\ r.op = "revokeAll" /\ r.pc = "handler" /\ s.pc = "query" /\ s.left = AllCollections
        /\ s.had = {f \in familyDocs : family[f].userId = r.userId}
        /\ s.op = r.op /\ s.fam = r.fam /\ s.userId = r.userId /\ s.pend = r.pend
    BY SweepLocals
  <1>3. UNCHANGED <<familyDocs, family>>
    BY DEF RevokeAllStart, docVars, dataVars
  <1>4. OwnLocal(s)'
    BY <1>1, <1>2 DEF OwnLocal
  <1>5. PurgeLocal(s)'
    BY <1>1, <1>2 DEF PurgeLocal
  <1>6. PromiseLocal(s)'
    BY <1>2, <1>3 DEF PromiseLocal, Ahead
  <1> QED BY <1>4, <1>5, <1>6 DEF Kept

\* What the query of a sweep answers is the caller's own, or expired.
LEMMA MatchesOwned ==
    ASSUME TypeInv, NEW w \in Worker, NEW r \in Local, r = req[w], NEW c
    PROVE  /\ r.op \in {"login", "signOut"} => Matches(w, c) \cap Family = {}
           /\ r.op = "revokeAll" =>
                /\ \A f \in Matches(w, c) \cap Family : f \in familyDocs /\ family[f].userId = r.userId
                /\ c = "refreshTokenFamilies" =>
                     Matches(w, c) = {f \in familyDocs : family[f].userId = r.userId}
           /\ r.op = "cleanup" =>
                \A f \in Matches(w, c) \cap Family : f \in familyDocs /\ family[f].expiresAt < r.now
  <1>1. r.op \in {"login", "signOut"} => Matches(w, c) \cap Family = {}
    BY IdsDiffer DEF Matches, FamilyMatches
  <1>2. ASSUME r.op = "revokeAll"
        PROVE  /\ \A f \in Matches(w, c) \cap Family : f \in familyDocs /\ family[f].userId = r.userId
               /\ c = "refreshTokenFamilies" =>
                     Matches(w, c) = {f \in familyDocs : family[f].userId = r.userId}
    <2>1. Matches(w, c) = UserMatches(w, c)
      BY <1>2 DEF Matches
    <2> QED BY <2>1, IdsDiffer DEF UserMatches
  <1>3. ASSUME r.op = "cleanup"
        PROVE  \A f \in Matches(w, c) \cap Family : f \in familyDocs /\ family[f].expiresAt < r.now
    <2>1. Matches(w, c) = ExpiredMatches(w, c)
      BY <1>3 DEF Matches
    <2> QED BY <2>1, IdsDiffer DEF ExpiredMatches
  <1> QED BY <1>1, <1>2, <1>3

LEMMA RevokeOrder ==
    /\ Head(AllCollections) = "sessions" /\ Tail(AllCollections) # <<>>
    /\ Head(Tail(AllCollections)) = "refreshTokenFamilies"
  BY DEF AllCollections

LEMMA SweepQueryKept ==
    ASSUME TypeInv, FamilyStep, ExpiryStep, NEW w \in Worker, SweepQuery(w),
           NEW r \in Local, r = req[w], Kept(r), NEW s, s = req'[w]
    PROVE  Kept(s)'
  <1> DEFINE m == Matches(w, Head(r.left))
  <1>0. LocalOK(r, minted) /\ r.now \in Nat /\ r.had \subseteq Family
    BY WorkerType DEF Local
  <1>1. OwnLocal(r)' /\ PurgeLocal(r)'
    BY <1>0, LocalsAreStable DEF Kept
  <1>2. /\ r.pc = "query" /\ s.pc = "purge" /\ s.pend = m
        /\ s.op = r.op /\ s.userId = r.userId /\ s.dev = r.dev /\ s.fam = r.fam /\ s.now = r.now
        /\ s.had = r.had /\ s.left = r.left
    BY SweepLocals
  <1>3. /\ UNCHANGED <<familyDocs, family, minted, clock>> /\ clock \in Nat
        /\ \A f \in familyDocs : family[f].expiresAt \in Nat
    BY DEF SweepQuery, docVars, dataVars, idVars, TypeInv, TypeOK, FamilyDoc
  <1>4. OwnLocal(s)'
    BY <1>1, <1>2 DEF OwnLocal
  <1>5. PurgeLocal(s)'
    <2>1. s.op \in {"login", "signOut"} => s.pend \cap Family = {}
      BY <1>2, MatchesOwned
    <2>2. s.op = "revokeAll" =>
            \A f \in s.pend \cap Family :
                f \in minted' /\ (f \in familyDocs' => family'[f].userId = s.userId)
      <3>1. r.op = "revokeAll" =>
              \A f \in s.pend \cap Family : f \in familyDocs /\ family[f].userId = r.userId
        BY <1>2, MatchesOwned
      <3> QED BY <1>2, <1>3, <3>1, IdsDiffer
    <2>3. s.op = "cleanup" =>
            /\ s.now <= clock'
            /\ \A f \in s.pend \cap Family :
                  f \in minted' /\ (f \in familyDocs' => family'[f].expiresAt < clock')
      <3>1. r.op = "cleanup" =>
              \A f \in s.pend \cap Family : f \in familyDocs /\ family[f].expiresAt < r.now
        BY <1>2, MatchesOwned
      <3> QED BY <1>0, <1>2, <1>3, <3>1, IdsDiffer DEF Kept, PurgeLocal
    <2>4. s.op \in {"login", "signOut", "revokeAll", "cleanup"}
      BY <1>2 DEF Kept, PurgeLocal
    <2> QED BY <2>1, <2>2, <2>3, <2>4 DEF PurgeLocal
  <1>6. ASSUME NEW f \in s.had PROVE Dead(f)' \/ Ahead(s, f)'
    <2>1. Dead(f) \/ Ahead(r, f)
      BY <1>2 DEF Kept, PromiseLocal
    <2>2. CASE Dead(f)
      BY <1>0, <1>2, <2>2, DeadIsStable
    <2>3. CASE Ahead(r, f)
      <3>1. r.left # AllCollections => f \in m
        BY <1>2, <2>3, RevokeOrder, MatchesOwned DEF Ahead
      <3> QED BY <1>2, <1>3, <2>3, <3>1 DEF Ahead
    <2> QED BY <2>1, <2>2, <2>3
  <1>7. PromiseLocal(s)'
    BY <1>6 DEF PromiseLocal
  <1> QED BY <1>4, <1>5, <1>7 DEF Kept

LEMMA SweepPurgeKept ==
    ASSUME TypeInv, FamilyStep, ExpiryStep, NEW w \in Worker, SweepPurge(w),
           NEW r \in Local, r = req[w], Kept(r), NEW s, s = req'[w]
    PROVE  Kept(s)'
  <1>0. LocalOK(r, minted) /\ r.now \in Nat /\ r.had \subseteq Family
    BY WorkerType DEF Local
  <1>1. OwnLocal(r)' /\ PurgeLocal(r)'
    BY <1>0, LocalsAreStable DEF Kept
  <1>2. /\ r.pc = "purge" /\ s.pend = {} /\ s.left = Tail(r.left)
        /\ s.pc = IF s.left = <<>> THEN AfterSweep(r.op) ELSE "query"
        /\ s.op = r.op /\ s.userId = r.userId /\ s.dev = r.dev /\ s.fam = r.fam /\ s.now = r.now
        /\ s.had = r.had
    BY SweepLocals
  <1>3. /\ familyDocs' = familyDocs \ r.pend /\ minted' = minted
        /\ \A f \in Family \ r.pend : family'[f] = family[f]
    BY DEF SweepPurge, DeleteDocs, idVars
  <1>4. OwnLocal(s)'
    BY <1>1, <1>2 DEF OwnLocal
  <1>5. PurgeLocal(s)'
    BY <1>1, <1>2 DEF PurgeLocal
  <1>6. ASSUME NEW f \in s.had PROVE Dead(f)' \/ Ahead(s, f)'
    <2>1. Dead(f) \/ Ahead(r, f)
      BY <1>2 DEF Kept, PromiseLocal
    <2>2. CASE Dead(f)
      BY <1>0, <1>2, <2>2, DeadIsStable
    <2>3. CASE Ahead(r, f) /\ f \in r.pend
      BY <1>3, <2>3, IdsDiffer DEF Ahead, Dead
    <2>4. CASE Ahead(r, f) /\ f \notin r.pend
      <3>1. s.left = Tail(AllCollections) /\ s.pc = "query" /\ f \in familyDocs' /\ f \in Family
        BY <1>2, <1>3, <2>4, RevokeOrder, IdsDiffer DEF Ahead
      <3> QED BY <1>2, <1>3, <2>4, <3>1 DEF Ahead
    <2> QED BY <2>1, <2>2, <2>3, <2>4
  <1>7. PromiseLocal(s)'
    BY <1>6 DEF PromiseLocal
  <1> QED BY <1>4, <1>5, <1>7 DEF Kept

\* The locals of every request, after a step of one of them.
LEMMA StepKept ==
    ASSUME TypeInv, TypeInv', FamilyStep, ExpiryStep, RequestInv, NEW w \in Worker, Step(w),
           NEW v \in Worker
    PROVE  OwnLocal(req[v])' /\ PurgeLocal(req[v])' /\ PromiseLocal(req[v])'
  <1>1. PICK r \in Local : r = req[v]
    BY WorkerType
  <1>2. PICK s \in Local : s = req'[v]
    BY WorkerType DEF TypeInv, TypeOK
  <1>3. Kept(r) /\ LocalOK(r, minted)
    BY <1>1, WorkerType DEF RequestInv, Kept
  <1>4. r = s => Kept(s)'
    BY <1>3, LocalsAreStable DEF Kept
  <1> SUFFICES Kept(s)'
    BY <1>2 DEF Kept, OwnLocal, PurgeLocal, PromiseLocal, Ahead, Dead
  <1>5. CASE v = w
    <2>1. CASE UNCHANGED req
      BY <1>1, <1>2, <1>4, <2>1
    <2>2. CASE req'[w] = Idle
      <3>1. OwnLocal(s)'
        BY <1>2, <1>5, <2>2, IdleFresh DEF OwnLocal
      <3> QED BY <1>2, <1>5, <2>2, <3>1, IdleFresh, FreshKept
    <2>3. CASE Onward(req[w], req'[w])
      BY <1>1, <1>2, <1>3, <1>5, <2>3, OnwardKept
    <2>4. CASE \E u \in User, d \in Device \cup {None}, trusted \in BOOLEAN,
                 f \in Family, t \in Token : LoginCommit(w, u, d, trusted, f, t)
      BY <1>2, <1>5, <2>4, LoginKept
    <2>5. CASE \E t \in Token, a \in Access \cup {None}, new \in Token : RefreshRotate(w, t, a, new)
      BY <1>2, <1>5, <2>5, RotateKept
    <2>6. CASE \E op \in SessionOps, a \in Access : AuthRead(w, op, a)
      BY <1>2, <1>5, <2>6, AuthKept DEF RequestInv
    <2>7. CASE JobStart(w)
      BY <1>2, <1>5, <2>7, JobKept
    <2>8. CASE SignOutRead(w) \/ DropFamily(w)
      BY <1>1, <1>2, <1>3, <1>5, <2>8, SignOutKept
    <2>9. CASE RevokeAllStart(w)
      BY <1>1, <1>2, <1>3, <1>5, <2>9, RevokeAllKept
    <2>10. CASE SweepQuery(w)
      BY <1>1, <1>2, <1>3, <1>5, <2>10, SweepQueryKept
    <2>11. CASE SweepPurge(w)
      BY <1>1, <1>2, <1>3, <1>5, <2>11, SweepPurgeKept
    <2> QED BY StepKinds, <2>1, <2>2, <2>3, <2>4, <2>5, <2>6, <2>7, <2>8, <2>9, <2>10, <2>11
  <1>6. CASE v # w
    BY <1>1, <1>2, <1>4, <1>6, StepWorkerStep DEF WorkerStep
  <1> QED BY <1>5, <1>6

\* Only the last step of a login or a refresh writes a session.
SessionStep ==
    \A s \in sessionDocs' :
        \/ s \in sessionDocs /\ session'[s] = session[s]
        \/ \E w \in Worker : /\ req[w].pc = "issue"
                             /\ UNCHANGED <<familyDocs, family>>
                             /\ session'[s].familyId = req[w].fam
                             /\ session'[s].userId = req[w].userId

LEMMA NextSessionStep ==
    ASSUME TypeInv, [Next]_vars
    PROVE  SessionStep
  <1> USE DEF docVars, dataVars, idVars, devVars
  <1>0. sessionDocs \subseteq Access /\ session \in [Access -> SessionDoc]
    BY DEF TypeInv, TypeOK
  <1>1. ASSUME UNCHANGED <<sessionDocs, session>> PROVE SessionStep
    BY <1>1 DEF SessionStep
  <1>2. ASSUME NEW ids, DeleteDocs(ids) \/ DeleteSessions(ids) PROVE SessionStep
    BY <1>0, <1>2 DEF SessionStep, DeleteDocs, DeleteSessions
  <1>3. ASSUME NEW w \in Worker, Issue(w) PROVE SessionStep
    <2>1. PICK s \in Access, delivered \in BOOLEAN : IssueAccess(w, s, delivered)
      BY <1>3 DEF Issue
    <2>2. /\ req[w].pc = "issue" /\ UNCHANGED <<familyDocs, family>>
          /\ sessionDocs' = sessionDocs \cup {s}
          /\ session' = [session EXCEPT ![s] =
                [familyId |-> req[w].fam, userId |-> req[w].userId,
                 expiresAt |-> clock + AccessLife]]
      BY <2>1 DEF IssueAccess, At
    <2>3. session'[s].familyId = req[w].fam /\ session'[s].userId = req[w].userId
      BY <1>0, <2>2
    <2>4. \A x \in sessionDocs \ {s} : session'[x] = session[x]
      BY <1>0, <2>2
    <2> QED BY <2>2, <2>3, <2>4 DEF SessionStep
  <1>4. ASSUME NEW w \in Worker, Sweep(w) \/ Authenticate(w) \/ JobStart(w) \/ Abort(w)
        PROVE  SessionStep
    BY <1>1, <1>2, <1>4
    DEF Sweep, SweepDevices, SweepFamily, SweepDone, SweepFails, SweepQuery, SweepPurge,
        Authenticate, AuthRead, AuthFamily, DropSession, JobStart, Abort
  <1>5. ASSUME NEW w \in Worker, Refresh(w) \/ Login(w) PROVE SessionStep
    <2>1. ASSUME NEW t \in Token, NEW a, \/ RefreshReuse(w, t, a) \/ RefreshTooLate(w, t, a)
                                        \/ \E new \in Token : RefreshRotate(w, t, a, new)
          PROVE  SessionStep
      BY <1>2, <2>1 DEF RefreshReuse, RefreshTooLate, RefreshRotate
    <2>2. CASE Login(w)
      BY <1>1, <2>2 DEF Login, LoginCommit
    <2> QED BY <1>5, <2>1, <2>2 DEF Refresh
  <1>6. ASSUME NEW w \in Worker, Handle(w) PROVE SessionStep
    BY <1>1, <1>2, <1>6
    DEF Handle, SkipMfa, MarkRead, MarkWrite, TrustRead, TrustWrite, OwnedFamilyRead,
        SignOutRead, DropFamily, RevokeAllStart, Serve, Respond
  <1>7. CASE Tick \/ UNCHANGED vars
    BY <1>1, <1>7 DEF Tick, vars
  <1> QED BY <1>3, <1>4, <1>5, <1>6, <1>7 DEF Next, Step

LEMMA NextSessionsOwned ==
    ASSUME TypeInv, FamilyStep, SessionStep, RequestInv
    PROVE  SessionsOwned'
  <1>1. ASSUME NEW s \in sessionDocs', session'[s].familyId \in familyDocs'
        PROVE  family'[session'[s].familyId].userId = session'[s].userId
    <2>1. CASE s \in sessionDocs /\ session'[s] = session[s]
      <3>1. session[s].familyId \in minted
        BY <2>1 DEF TypeInv, ChildrenHaveFamily
      <3> QED BY <1>1, <2>1, <3>1 DEF FamilyStep, RequestInv, SessionsOwned
    <2>2. ASSUME NEW w \in Worker, req[w].pc = "issue", UNCHANGED <<familyDocs, family>>,
                 session'[s].familyId = req[w].fam, session'[s].userId = req[w].userId
          PROVE  family'[session'[s].familyId].userId = session'[s].userId
      <3>1. OwnLocal(req[w]) /\ req[w].op # "cleanup"
        BY <2>2, WorkerType DEF RequestInv, LocalOK
      <3> QED BY <1>1, <2>2, <3>1 DEF OwnLocal
    <2> QED BY <1>1, <2>1, <2>2 DEF SessionStep
  <1> QED BY <1>1 DEF SessionsOwned

\* What a step adds to the promised families is dead.
LEMMA NextPromised ==
    ASSUME TypeInv, FamilyStep, RequestInv, [Next]_vars
    PROVE  PromisedRevocationsHold'
  <1> USE DEF docVars, dataVars, idVars, devVars
  <1>0. promised \subseteq Family /\ familyDocs \subseteq Family \cap minted
    BY DEF TypeInv, TypeOK
  <1>1. \A f \in promised : Dead(f)'
    BY <1>0, DeadIsStable DEF RequestInv, PromisedRevocationsHold
  <1>2. ASSUME UNCHANGED promised PROVE PromisedRevocationsHold'
    BY <1>1, <1>2 DEF PromisedRevocationsHold
  <1>3. ASSUME NEW w \in Worker, Respond(w) PROVE PromisedRevocationsHold'
    <2>1. req[w].pc = "respond" /\ promised' = promised \cup req[w].had
      BY <1>3 DEF Respond, At
    <2>2. req[w].had \subseteq Family
      BY WorkerType DEF Local
    <2>3. \A f \in req[w].had : Dead(f)
      BY <2>1 DEF RequestInv, PromiseLocal, Ahead
    <2> QED BY <1>1, <2>1, <2>2, <2>3, DeadIsStable DEF PromisedRevocationsHold
  <1>4. ASSUME NEW w \in Worker, NEW t \in Token, NEW a,
               RefreshReuse(w, t, a) \/ RefreshTooLate(w, t, a)
        PROVE  PromisedRevocationsHold'
    <2>1. PICK f \in familyDocs : f = token[t].familyId
      BY <1>4 DEF RefreshReuse, RefreshTooLate
    <2>2. promised' = promised \cup {f} /\ minted' = minted
      BY <1>4, <2>1 DEF RefreshReuse, RefreshTooLate
    <2>3. CASE RefreshReuse(w, t, a)
      <3>1. family'[f].revoked
        BY <1>0, <2>1, <2>3 DEF RefreshReuse, TypeInv, TypeOK, FamilyDoc
      <3> QED BY <1>0, <1>1, <2>2, <3>1 DEF PromisedRevocationsHold, Dead
    <2>4. CASE RefreshTooLate(w, t, a)
      <3>1. f \notin familyDocs'
        BY <2>1, <2>4 DEF RefreshTooLate, DeleteDocs
      <3> QED BY <1>0, <1>1, <2>2, <3>1 DEF PromisedRevocationsHold, Dead
    <2> QED BY <1>4, <2>3, <2>4
  <1>5. ASSUME NEW w \in Worker, Refresh(w) PROVE PromisedRevocationsHold'
    BY <1>2, <1>4, <1>5 DEF Refresh, RefreshRotate
  <1>6. ASSUME NEW w \in Worker, Handle(w) PROVE PromisedRevocationsHold'
    BY <1>2, <1>3, <1>6
    DEF Handle, SkipMfa, MarkRead, MarkWrite, TrustRead, TrustWrite, OwnedFamilyRead,
        SignOutRead, DropFamily, RevokeAllStart, Serve
  <1>7. ASSUME NEW w \in Worker, \/ Login(w) \/ Sweep(w) \/ Issue(w) \/ Authenticate(w)
                                 \/ JobStart(w) \/ Abort(w)
        PROVE  PromisedRevocationsHold'
    BY <1>2, <1>7
    DEF Login, LoginCommit, Issue, IssueAccess, Sweep, SweepDevices, SweepFamily, SweepDone,
        SweepFails, SweepQuery, SweepPurge, Authenticate, AuthRead, AuthFamily, DropSession,
        JobStart, Abort
  <1>8. CASE Tick \/ UNCHANGED vars
    BY <1>2, <1>8 DEF Tick, vars
  <1> QED BY <1>5, <1>6, <1>7, <1>8 DEF Next, Step

LEMMA NextRequestInv ==
    ASSUME TypeInv, RequestInv, [Next]_vars
    PROVE  RequestInv'
  <1>1. TypeInv' /\ FamilyStep /\ ExpiryStep /\ SessionStep
    BY NextType, NextFamilyStep, NextExpiryStep, NextSessionStep
  <1>2. SessionsOwned' /\ PromisedRevocationsHold'
    BY <1>1, NextSessionsOwned, NextPromised
  <1>3. ASSUME NEW v \in Worker
        PROVE  OwnLocal(req[v])' /\ PurgeLocal(req[v])' /\ PromiseLocal(req[v])'
    <2>1. ASSUME NEW w \in Worker, Step(w)
          PROVE  OwnLocal(req[v])' /\ PurgeLocal(req[v])' /\ PromiseLocal(req[v])'
      BY <1>1, <2>1, StepKept
    <2>2. CASE Tick \/ UNCHANGED vars
      <3>1. PICK r \in Local : r = req[v] /\ LocalOK(r, minted)
        BY WorkerType
      <3>2. req'[v] = r
        BY <2>2, <3>1 DEF Tick, vars
      <3>3. Kept(r)'
        BY <1>1, <3>1, LocalsAreStable DEF RequestInv, Kept
      <3> QED BY <3>2, <3>3 DEF Kept, OwnLocal, PurgeLocal, PromiseLocal, Ahead, Dead
    <2> QED BY <2>1, <2>2 DEF Next
  <1> QED BY <1>2, <1>3 DEF RequestInv

LEMMA InitRequestInv == Init => RequestInv
  BY IdleFresh DEF Init, RequestInv, OwnLocal, PurgeLocal, PromiseLocal, SessionsOwned,
     PromisedRevocationsHold

\* What an answer declared dead stays dead (sessionFamilyMutations.ts, sessionDeletion.ts,
\* rotateRefreshToken.ts), whatever was in flight meanwhile.
THEOREM RevocationsStay == Spec => []PromisedRevocationsHold
  <1>1. TypeInv /\ RequestInv /\ [Next]_vars => TypeInv' /\ RequestInv'
    BY NextType, NextRequestInv
  <1>2. RequestInv => PromisedRevocationsHold
    BY DEF RequestInv
  <1> QED BY <1>1, <1>2, InitType, InitRequestInv, PTL DEF Spec

\* The hourly cleanup deletes no family that a refresh prolonged after its query
\* (expiredSessionCleanup.ts 8-41).
THEOREM CleanupIsSafe == Spec => []CleanupPurgesOnlyExpired
  <1>1. TypeInv /\ RequestInv /\ [Next]_vars => TypeInv' /\ RequestInv'
    BY NextType, NextRequestInv
  <1>2. TypeInv /\ RequestInv => CleanupPurgesOnlyExpired
    BY IdsDiffer DEF RequestInv, PurgeLocal, CleanupPurgesOnlyExpired
  <1> QED BY <1>1, <1>2, InitType, InitRequestInv, PTL DEF Spec

-----------------------------------------------------------------------------
(***************************************************************************)
(* One family per device.  Of two logins whose sweeps have read the        *)
(* families, the one that read later saw the other's family, because each  *)
(* family is committed before its own sweep: while both families exist,    *)
(* one of them still is on the other's list.                               *)
(***************************************************************************)
DeviceInv ==
    /\ \A f \in Family : sweep[f] # "none" => f \in minted
    /\ \A f \in Family : sweep[f] = "done" => stale[f] = {}
    /\ \A f, g \in familyDocs :
            f # g /\ SameDevice(f, g) /\ sweep[f] # "none" /\ sweep[g] # "none"
                => g \in stale[f] \/ f \in stale[g]

LoggingIn(r) == r.op = "login" /\ r.pc # "idle"

\* A family has one login, and past its query that login's sweep is running.
SweepersInv ==
    /\ \A v, w \in Worker :
            v # w /\ LoggingIn(req[v]) /\ LoggingIn(req[w])
                => req[v].fam # req[w].fam
    /\ \A w \in Worker :
            req[w].op = "login" /\ req[w].pc \in {"nextStale", "query", "purge"}
                => sweep[req[w].fam] = "running"

\* Steps that leave the sweeps alone.
LEMMA DeviceFrame ==
    ASSUME TypeInv, TypeInv', DeviceInv, FamilyStep, UNCHANGED devVars
    PROVE  DeviceInv'
  <1> USE DEF devVars
  <1>1. \A f \in Family : sweep'[f] # "none" => f \in minted'
    BY DEF DeviceInv, FamilyStep
  <1>2. \A f \in Family : sweep'[f] = "done" => stale'[f] = {}
    BY DEF DeviceInv
  <1>3. ASSUME NEW f \in familyDocs', NEW g \in familyDocs', f # g,
               SameDevice(f, g)', sweep'[f] # "none", sweep'[g] # "none"
        PROVE  g \in stale'[f] \/ f \in stale'[g]
    <2>1. f \in Family /\ g \in Family
      BY DEF TypeInv, TypeOK
    <2>2. f \in minted /\ g \in minted
      BY <1>3, <2>1 DEF DeviceInv
    <2>3. f \in familyDocs /\ g \in familyDocs /\ SameDevice(f, g)
      BY <1>3, <2>2 DEF FamilyStep, SameDevice
    <2> QED BY <1>3, <2>3 DEF DeviceInv
  <1> QED BY <1>1, <1>2, <1>3 DEF DeviceInv

\* A sweep that fails, or dies with its process, gives up its list.
LEMMA DeviceGiveUp ==
    ASSUME TypeInv, DeviceInv, NEW f \in Family, NEW st \in {"none", "done"},
           st = "done" => sweep[f] = "done",
           stale' = [stale EXCEPT ![f] = {}], sweep' = [sweep EXCEPT ![f] = st],
           UNCHANGED <<familyDocs, family, minted>>
    PROVE  DeviceInv'
  <1>1. \A g \in Family : /\ sweep'[g] = IF g = f THEN st ELSE sweep[g]
                          /\ stale'[g] = IF g = f THEN {} ELSE stale[g]
    BY DEF TypeInv, TypeOK
  <1>2. familyDocs \subseteq Family
    BY DEF TypeInv, TypeOK
  <1> QED BY <1>1, <1>2 DEF DeviceInv, SameDevice

LEMMA DeviceSweepDevices ==
    ASSUME TypeInv, RequestInv, DeviceInv, NEW w \in Worker, SweepDevices(w)
    PROVE  DeviceInv'
  <1> DEFINE f == req[w].fam
             found == StaleDeviceFamilies(req[w])
  <1>1. f \in Family \cap minted
    BY WorkerType DEF SweepDevices, At, LocalOK
  <1>2. /\ UNCHANGED <<familyDocs, family, minted>>
        /\ \A g \in Family : /\ sweep'[g] = IF g = f THEN "running" ELSE sweep[g]
                             /\ stale'[g] = IF g = f THEN found ELSE stale[g]
    BY <1>1 DEF SweepDevices, docVars, dataVars, idVars, TypeInv, TypeOK
  <1>3. familyDocs \subseteq Family
    BY DEF TypeInv, TypeOK
  <1>4. ASSUME f \in familyDocs, NEW g \in familyDocs \ {f}, SameDevice(f, g) \/ SameDevice(g, f)
        PROVE  g \in found
    <2>1. family[f].userId = req[w].userId /\ family[f].deviceId = req[w].dev
      BY <1>4, WorkerType DEF SweepDevices, At, LocalOK, RequestInv, OwnLocal
    <2> QED BY <1>4, <2>1 DEF SameDevice, StaleDeviceFamilies
  <1> HIDE DEF f, found
  <1>5. \A g \in Family : sweep'[g] # "none" => g \in minted'
    BY <1>1, <1>2 DEF DeviceInv
  <1>6. \A g \in Family : sweep'[g] = "done" => stale'[g] = {}
    BY <1>2 DEF DeviceInv
  <1>7. ASSUME NEW g \in familyDocs, NEW h \in familyDocs, g # h,
               SameDevice(g, h), sweep'[g] # "none", sweep'[h] # "none"
        PROVE  h \in stale'[g] \/ g \in stale'[h]
    <2>1. CASE g # f /\ h # f
      BY <1>2, <1>3, <1>7, <2>1 DEF DeviceInv
    <2>2. CASE g = f
      BY <1>2, <1>3, <1>4, <1>7, <2>2
    <2>3. CASE h = f
      BY <1>2, <1>3, <1>4, <1>7, <2>3
    <2> QED BY <2>1, <2>2, <2>3
  <1> QED BY <1>2, <1>5, <1>6, <1>7 DEF DeviceInv, SameDevice

LEMMA DeviceSweepFamily ==
    ASSUME TypeInv, DeviceInv, NEW w \in Worker, NEW g \in Family, SweepFamily(w, g)
    PROVE  DeviceInv'
  <1> DEFINE f == req[w].fam
  <1>1. f \in Family
    BY WorkerType DEF SweepFamily, At, LocalOK
  <1>2. /\ UNCHANGED <<sweep, minted>>
        /\ familyDocs' = familyDocs \ {g}
        /\ \A h \in Family \ {g} : family'[h] = family[h]
        /\ \A h \in Family : stale'[h] = IF h = f THEN stale[h] \ {g} ELSE stale[h]
    BY <1>1 DEF SweepFamily, DeleteDocs, idVars, TypeInv, TypeOK
  <1>3. familyDocs \subseteq Family
    BY DEF TypeInv, TypeOK
  <1> HIDE DEF f
  <1>4. \A h \in Family : sweep'[h] # "none" => h \in minted'
    BY <1>2 DEF DeviceInv
  <1>5. \A h \in Family : sweep'[h] = "done" => stale'[h] = {}
    BY <1>2 DEF DeviceInv
  <1>6. ASSUME NEW h \in familyDocs', NEW k \in familyDocs', h # k,
               SameDevice(h, k)', sweep'[h] # "none", sweep'[k] # "none"
        PROVE  k \in stale'[h] \/ h \in stale'[k]
    <2>1. h \in familyDocs \ {g} /\ k \in familyDocs \ {g} /\ SameDevice(h, k)
      BY <1>2, <1>3, <1>6 DEF SameDevice
    <2>2. k \in stale[h] \/ h \in stale[k]
      BY <1>2, <1>6, <2>1 DEF DeviceInv
    <2> QED BY <1>2, <1>3, <2>1, <2>2
  <1> QED BY <1>4, <1>5, <1>6 DEF DeviceInv

LEMMA SweepersUnique ==
    ASSUME TypeInv, SweepersInv, NEW w \in Worker, WorkerStep(w),
           NEW u \in Worker, NEW v \in Worker, u # v,
           LoggingIn(req'[u]), LoggingIn(req'[v])
    PROVE  req'[u].fam # req'[v].fam
  <1>1. \A x \in Worker : req[x].pc # "idle" /\ req[x].op = "login" => req[x].fam \in minted
    BY WorkerType DEF LocalOK
  <1>2. CASE u # w /\ v # w
    BY <1>2 DEF WorkerStep, SweepersInv, LoggingIn
  <1>3. CASE u = w
    BY <1>1, <1>3 DEF WorkerStep, SweepersInv, LoggingIn
  <1>4. CASE v = w
    BY <1>1, <1>4 DEF WorkerStep, SweepersInv, LoggingIn
  <1> QED BY <1>2, <1>3, <1>4

\* A step that marks at most the sweep of its own login.
LEMMA SweepersStep ==
    ASSUME TypeInv, SweepersInv, NEW w \in Worker, WorkerStep(w),
           \A f \in Family :
                sweep'[f] = sweep[f] \/ (/\ f = req[w].fam /\ req[w].op = "login"
                                         /\ req[w].pc # "idle"),
           Sweeping(req'[w]) => sweep'[req'[w].fam] = "running"
    PROVE  SweepersInv'
  <1>1. ASSUME NEW v \in Worker, Sweeping(req'[v])
        PROVE  sweep'[req'[v].fam] = "running"
    <2>1. CASE v = w
      BY <1>1, <2>1
    <2>2. CASE v # w
      <3>1. req'[v] = req[v] /\ req[v].op = "login" /\ req[v].pc # "idle"
        BY <1>1, <2>2 DEF WorkerStep, Sweeping
      <3>2. req[v].fam \in Family
        BY <3>1, WorkerType DEF LocalOK
      <3>3. sweep'[req[v].fam] = sweep[req[v].fam]
        BY <2>2, <3>1, <3>2 DEF SweepersInv, LoggingIn
      <3> QED BY <1>1, <3>1, <3>3 DEF SweepersInv, Sweeping
    <2> QED BY <2>1, <2>2
  <1>2. ASSUME NEW u \in Worker, NEW v \in Worker, u # v,
               LoggingIn(req'[u]), LoggingIn(req'[v])
        PROVE  req'[u].fam # req'[v].fam
    BY <1>2, SweepersUnique
  <1> QED BY <1>1, <1>2 DEF SweepersInv, Sweeping

\* A step that marks no sweep and enters none.
LEMMA SweepersFrame ==
    ASSUME TypeInv, SweepersInv, NEW w \in Worker, WorkerStep(w), UNCHANGED sweep,
           Sweeping(req'[w]) => Sweeping(req[w]) /\ req'[w].fam = req[w].fam
    PROVE  SweepersInv'
  <1>1. Sweeping(req'[w]) => sweep'[req'[w].fam] = "running"
    BY DEF Sweeping, SweepersInv
  <1> QED BY <1>1, SweepersStep

\* What the locals of a worker are after Goto.
LEMMA GotoRecord ==
    ASSUME TypeInv, NEW w \in Worker, NEW pc, Goto(w, pc)
    PROVE  /\ req'[w].pc = pc
           /\ req'[w].op = req[w].op /\ req'[w].fam = req[w].fam
  BY WorkerType, BecomesIs DEF Goto, Local

LEMMA SweepSweepers ==
    ASSUME TypeInv, SweepersInv, NEW w \in Worker, Sweep(w)
    PROVE  SweepersInv'
  <1>0. /\ WorkerStep(w) /\ req[w] \in Local /\ LocalOK(req[w], minted)
        /\ sweep \in [Family -> {"none", "running", "done"}]
    BY StepWorkerStep, WorkerType DEF Step, TypeInv, TypeOK
  <1> USE <1>0
  <1>1. CASE SweepDevices(w)
    <2>1. /\ req[w].op = "login" /\ req[w].fam \in Family /\ req[w].pc = "sweep"
          /\ sweep' = [sweep EXCEPT ![req[w].fam] = "running"]
          /\ Goto(w, "nextStale")
      BY <1>1 DEF SweepDevices, At, LocalOK
    <2>2. req'[w].fam = req[w].fam
      BY <2>1, GotoRecord
    <2> QED BY <2>1, <2>2, SweepersStep
  <1>2. CASE SweepDone(w)
    <2>1. /\ req[w].op = "login" /\ req[w].fam \in Family /\ req[w].pc = "nextStale"
          /\ sweep' = [sweep EXCEPT ![req[w].fam] = "done"]
          /\ Goto(w, "issue")
      BY <1>2 DEF SweepDone, At, LocalOK
    <2>2. ~Sweeping(req'[w])
      BY <2>1, GotoRecord DEF Sweeping
    <2> QED BY <2>1, <2>2, SweepersStep
  <1>3. CASE SweepFails(w)
    <2>1. /\ req[w].op = "login" /\ req[w].fam \in Family /\ req[w].pc # "idle"
          /\ sweep' = [sweep EXCEPT ![req[w].fam] = "none"]
      BY <1>3 DEF SweepFails, LocalOK
    <2>2. req'[w].pc = "issue"
      BY ZenonT(40), <1>3, BecomesIs DEF SweepFails, Local
    <2> QED BY <2>1, <2>2, SweepersStep DEF Sweeping
  <1>4. CASE \E g \in Family : SweepFamily(w, g)
    BY ZenonT(40), <1>4, BecomesIs, SweepersFrame DEF SweepFamily, At, LocalOK, Local, Sweeping
  <1>5. CASE SweepQuery(w)
    <2> DEFINE m == Matches(w, Head(req[w].left))
    <2>1. Becomes(w, [req[w] EXCEPT !.pc = "purge", !.pend = m]) /\ At(w, "query")
          /\ UNCHANGED sweep
      BY <1>5 DEF SweepQuery, devVars
    <2> HIDE DEF m
    <2> QED BY ZenonT(40), <2>1, BecomesIs, SweepersFrame DEF At, Local, Sweeping
  <1>6. CASE SweepPurge(w)
    <2>1. /\ req'[w].op = req[w].op /\ req'[w].fam = req[w].fam
          /\ req[w].pc = "purge" /\ UNCHANGED sweep
      BY ZenonT(40), <1>6, BecomesIs DEF SweepPurge, At, Local, devVars
    <2> QED BY <2>1, SweepersFrame DEF Sweeping
  <1> QED BY <1>1, <1>2, <1>3, <1>4, <1>5, <1>6 DEF Sweep

LEMMA OtherSweepers ==
    ASSUME TypeInv, SweepersInv, NEW w \in Worker, Step(w), ~Sweep(w)
    PROVE  SweepersInv'
  <1>0. /\ WorkerStep(w) /\ req[w] \in Local /\ LocalOK(req[w], minted)
        /\ sweep \in [Family -> {"none", "running", "done"}]
        /\ Idle.op = "none"
    BY StepWorkerStep, WorkerType DEF TypeInv, TypeOK, Idle
  <1> USE <1>0
  <1>1. CASE Abort(w)
    <2>1. ~Sweeping(req'[w])
      BY <1>1, BecomesIs DEF Abort, Sweeping
    <2>2. CASE req[w].op = "login"
      BY <1>1, <2>1, <2>2, SweepersStep DEF Abort, At
    <2>3. CASE req[w].op # "login"
      BY <1>1, <2>1, <2>3, SweepersStep DEF Abort, devVars
    <2> QED BY <2>2, <2>3
  <1>2. CASE Login(w) \/ Issue(w) \/ Refresh(w) \/ Authenticate(w) \/ Handle(w) \/ JobStart(w)
    <2>1. UNCHANGED sweep
      BY ZenonT(40), <1>2 DEF Login, LoginCommit, Issue, IssueAccess, Refresh, RefreshReuse,
         RefreshTooLate, RefreshRotate, Authenticate, AuthRead, AuthFamily,
         DropSession, Handle, SkipMfa, MarkRead, OwnedFamilyRead, MarkWrite,
         TrustRead, TrustWrite, SignOutRead, DropFamily, RevokeAllStart, Serve,
         Respond, JobStart, devVars
    <2>2. ~Sweeping(req'[w])
      BY DEF WorkerStep, Sweeping
    <2> QED BY <2>1, <2>2, SweepersFrame
  <1> QED BY <1>1, <1>2 DEF Step

LEMMA NextSweepers ==
    ASSUME TypeInv, SweepersInv, [Next]_vars
    PROVE  SweepersInv'
  <1>1. ASSUME NEW w \in Worker, Step(w) PROVE SweepersInv'
    BY <1>1, SweepSweepers, OtherSweepers
  <1>2. CASE Tick \/ UNCHANGED vars
    BY <1>2 DEF Tick, vars, devVars, SweepersInv
  <1> QED BY <1>1, <1>2 DEF Next

LEMMA NextDevice ==
    ASSUME TypeInv, RequestInv, SweepersInv, DeviceInv, [Next]_vars
    PROVE  DeviceInv'
  <1> USE DEF docVars, dataVars, idVars
  <1>1. TypeInv' /\ FamilyStep
    BY NextType, NextFamilyStep
  <1>2. ASSUME NEW w \in Worker, Sweep(w) PROVE DeviceInv'
    <2>1. CASE SweepDevices(w)
      BY <2>1, DeviceSweepDevices
    <2>2. CASE \E g \in Family : SweepFamily(w, g)
      BY <2>2, DeviceSweepFamily
    <2>3. CASE SweepDone(w)
      <3> DEFINE f == req[w].fam
      <3>1. /\ f \in Family \cap minted /\ familyDocs \subseteq Family
            /\ sweep[f] = "running"
        BY <2>3, WorkerType DEF SweepDone, At, LocalOK, SweepersInv, TypeInv, TypeOK
      <3>2. /\ \A g \in Family : sweep'[g] = IF g = f THEN "done" ELSE sweep[g]
            /\ UNCHANGED <<stale, familyDocs, family, minted>> /\ stale[f] = {}
        BY <2>3 DEF SweepDone, TypeInv, TypeOK
      <3> HIDE DEF f
      <3> QED BY <3>1, <3>2 DEF DeviceInv, SameDevice
    <2>4. CASE SweepFails(w)
      <3>1. req[w].fam \in Family
        BY <2>4, WorkerType DEF SweepFails, LocalOK
      <3> QED BY <2>4, <3>1, DeviceGiveUp DEF SweepFails
    <2>5. CASE SweepQuery(w) \/ SweepPurge(w)
      BY <1>1, <2>5, DeviceFrame DEF SweepQuery, SweepPurge
    <2> QED BY <1>2, <2>1, <2>2, <2>3, <2>4, <2>5 DEF Sweep
  <1>3. ASSUME NEW w \in Worker, Abort(w) PROVE DeviceInv'
    <2>1. CASE req[w].op # "login"
      BY <1>1, <1>3, <2>1, DeviceFrame DEF Abort
    <2>2. CASE req[w].op = "login"
      <3> DEFINE f == req[w].fam
                 st == IF sweep[f] = "running" THEN "none" ELSE sweep[f]
      <3>1. f \in Family
        BY <1>3, <2>2, WorkerType DEF Abort, At, LocalOK
      <3>2. st \in {"none", "done"} /\ (st = "done" => sweep[f] = "done")
        BY <3>1 DEF TypeInv, TypeOK
      <3>3. /\ stale' = [stale EXCEPT ![f] = {}] /\ sweep' = [sweep EXCEPT ![f] = st]
            /\ UNCHANGED <<familyDocs, family, minted>>
        BY <1>3, <2>2 DEF Abort
      <3> HIDE DEF f, st
      <3> QED BY <3>1, <3>2, <3>3, DeviceGiveUp
    <2> QED BY <2>1, <2>2
  <1>4. ASSUME NEW w \in Worker, \/ Login(w) \/ Issue(w) \/ Refresh(w)
                                 \/ Authenticate(w) \/ Handle(w) \/ JobStart(w)
        PROVE  DeviceInv'
    <2>1. UNCHANGED devVars
      BY ZenonT(40), <1>4 DEF Login, LoginCommit, Issue, IssueAccess, Refresh, RefreshReuse,
         RefreshTooLate, RefreshRotate, Authenticate, AuthRead, AuthFamily,
         DropSession, Handle, SkipMfa, MarkRead, OwnedFamilyRead, MarkWrite,
         TrustRead, TrustWrite, SignOutRead, DropFamily, RevokeAllStart, Serve,
         Respond, JobStart
    <2> QED BY <1>1, <2>1, DeviceFrame
  <1>5. CASE Tick \/ UNCHANGED vars
    BY <1>1, <1>5, DeviceFrame DEF Tick, vars
  <1> QED BY <1>2, <1>3, <1>4, <1>5 DEF Next, Step

\* Once two logins of one account on one device have both swept, at most one
\* of their families exists (createSession.ts 52-76): for any number of
\* concurrent logins and any failures in between.
THEOREM SweptDeviceHasOneFamily == Spec => []OneFamilyPerDevice
  <1>1. Init => SweepersInv /\ DeviceInv
    <2>1. Idle.op = "none" /\ Idle.pc = "idle"
      BY DEF Idle
    <2>2. ASSUME Init PROVE SweepersInv
      <3>1. \A w \in Worker : req[w].op = "none"
        BY <2>1, <2>2 DEF Init
      <3> QED BY <3>1 DEF SweepersInv, LoggingIn
    <2>3. ASSUME Init PROVE DeviceInv
      BY <2>3 DEF Init, DeviceInv
    <2> QED BY <2>2, <2>3
  <1>2. TypeInv /\ DeviceInv => OneFamilyPerDevice
    BY DEF DeviceInv, OneFamilyPerDevice, TypeInv, TypeOK
  <1>3. TypeInv /\ RequestInv /\ SweepersInv /\ DeviceInv /\ [Next]_vars
            => TypeInv' /\ RequestInv' /\ SweepersInv' /\ DeviceInv'
    BY NextType, NextRequestInv, NextSweepers, NextDevice
  <1> QED BY <1>1, <1>2, <1>3, InitType, InitRequestInv, PTL DEF Spec

-----------------------------------------------------------------------------
(***************************************************************************)
(* Refresh tokens: the lineage of a family is a chain, and an untrusted    *)
(* MFA family issues none that is older than its verification allows.      *)
(***************************************************************************)
AgeInv ==
    /\ \A t \in tokenDocs : token[t].createdAt <= clock
    /\ UntrustedRotationsAreFresh

\* The step leaves the refresh-token documents alone or deletes some.
TokenFrame ==
    \A t \in tokenDocs' : t \in tokenDocs /\ token'[t] = token[t]

\* ... and no family is untrusted or unverified that was not before, except
\* those that were verified right now.
AgeFrame ==
    /\ clock' \in Nat /\ clock <= clock'
    /\ \A f \in familyDocs' :
        /\ f \in familyDocs
        /\ family'[f].userId = family[f].userId
        /\ \/ family'[f].mfaVerifiedAt = clock
           \/ ~HasMfa(f)
           \/ /\ family'[f].mfaVerifiedAt = family[f].mfaVerifiedAt
              /\ family'[f].mfaTrusted = family[f].mfaTrusted

LEMMA FrameAges ==
    ASSUME TypeInv, AtMostOneUnusedToken, AgeInv, TokenFrame, AgeFrame
    PROVE  AtMostOneUnusedToken' /\ AgeInv'
  <1>1. AtMostOneUnusedToken'
    BY DEF TokenFrame, AtMostOneUnusedToken
  <1>2. \A t \in tokenDocs : /\ t \in Token /\ token[t].createdAt \in Nat
                             /\ token[t].familyId \in Family
    BY DEF TypeInv, TypeOK, TokenDoc, ChildrenHaveFamily
  <1>3. clock \in Nat /\ UntrustedMfaMaxAge \in Nat
    BY LifeAssumption DEF TypeInv, TypeOK
  <1>4. \A t \in tokenDocs' : token'[t].createdAt <= clock'
    BY <1>2, <1>3 DEF TokenFrame, AgeFrame, AgeInv
  <1>5. ASSUME NEW t \in tokenDocs', token'[t].familyId \in familyDocs',
               family'[token'[t].familyId].userId \in MfaUser,
               ~family'[token'[t].familyId].mfaTrusted
        PROVE  token'[t].createdAt
                <= family'[token'[t].familyId].mfaVerifiedAt + UntrustedMfaMaxAge
    <2> DEFINE f == token[t].familyId
    <2>1. t \in tokenDocs /\ token'[t] = token[t] /\ f \in familyDocs /\ HasMfa(f)
      BY <1>5 DEF TokenFrame, AgeFrame, HasMfa
    <2>2. CASE family'[f].mfaVerifiedAt = clock
      BY <1>2, <1>3, <2>1, <2>2 DEF AgeInv
    <2>3. CASE /\ family'[f].mfaVerifiedAt = family[f].mfaVerifiedAt
               /\ family'[f].mfaTrusted = family[f].mfaTrusted
      BY <1>5, <2>1, <2>3 DEF AgeInv, UntrustedRotationsAreFresh
    <2> QED BY <1>5, <2>1, <2>2, <2>3 DEF AgeFrame
  <1>6. UntrustedRotationsAreFresh'
    BY <1>5 DEF UntrustedRotationsAreFresh, HasMfa
  <1> QED BY <1>1, <1>4, <1>6 DEF AgeInv

LEMMA SameDocsFrame ==
    ASSUME TypeInv, UNCHANGED <<familyDocs, tokenDocs, family, token>>,
           clock' \in Nat, clock <= clock'
    PROVE  TokenFrame /\ AgeFrame
  BY DEF TokenFrame, AgeFrame

LEMMA DeleteFrame ==
    ASSUME TypeInv, NEW ids, DeleteDocs(ids), UNCHANGED clock
    PROVE  TokenFrame /\ AgeFrame
  BY DEF DeleteDocs, TokenFrame, AgeFrame, TypeInv, TypeOK

LEMMA LoginAges ==
    ASSUME TypeInv, AtMostOneUnusedToken, AgeInv, NEW w \in Worker, Login(w)
    PROVE  AtMostOneUnusedToken' /\ AgeInv'
  <1>1. PICK u \in User, d \in Device \cup {None}, trusted \in BOOLEAN,
             f \in Family, t \in Token : LoginCommit(w, u, d, trusted, f, t)
    BY DEF Login
  <1>2. /\ tokenDocs' = tokenDocs \cup {t} /\ familyDocs' = familyDocs \cup {f}
        /\ f \notin minted /\ t \notin minted /\ clock' = clock
        /\ token'[t].familyId = f /\ token'[t].createdAt = clock
        /\ \A x \in Token \ {t} : token'[x] = token[x]
        /\ family'[f].userId \in MfaUser => family'[f].mfaVerifiedAt = clock
        /\ \A g \in Family \ {f} : family'[g] = family[g]
    BY <1>1 DEF LoginCommit, TypeInv, TypeOK
  <1>3. \A x \in tokenDocs : /\ x \in Token /\ x # t /\ token[x].createdAt \in Nat
                             /\ token[x].familyId \in Family \ {f}
    BY <1>2 DEF TypeInv, TypeOK, TokenDoc, ChildrenHaveFamily
  <1>4. clock \in Nat /\ UntrustedMfaMaxAge \in Nat
    BY LifeAssumption DEF TypeInv, TypeOK
  <1>5. AtMostOneUnusedToken'
    BY <1>2, <1>3 DEF AtMostOneUnusedToken
  <1>6. \A x \in tokenDocs' : token'[x].createdAt <= clock'
    BY <1>2, <1>3, <1>4 DEF AgeInv
  <1>7. UntrustedRotationsAreFresh'
    BY <1>2, <1>3, <1>4 DEF AgeInv, UntrustedRotationsAreFresh, HasMfa
  <1> QED BY <1>5, <1>6, <1>7 DEF AgeInv

LEMMA RotateAges ==
    ASSUME TypeInv, AtMostOneUnusedToken, AgeInv, NEW w \in Worker,
           NEW t \in Token, NEW a, NEW new \in Token, RefreshRotate(w, t, a, new)
    PROVE  AtMostOneUnusedToken' /\ AgeInv'
  <1> DEFINE f == token[t].familyId
  <1>1. /\ t \in tokenDocs /\ f \in familyDocs /\ ~token[t].used
        /\ new \notin minted /\ tokenDocs' = tokenDocs \cup {new}
        /\ familyDocs' = familyDocs /\ clock' = clock
        /\ RotateTokens(t, new) /\ ~RequiresMfaForRefresh(f, a)
        /\ family' = [family EXCEPT ![f].expiresAt = clock + RefreshLife]
    BY DEF RefreshRotate
  <1>2. /\ t # new /\ f \in Family
        /\ \A x \in tokenDocs : x \in Token /\ x # new /\ token[x].createdAt \in Nat
    BY <1>1 DEF TypeInv, TypeOK, TokenDoc, ChildrenHaveFamily
  <1>3. /\ token'[new].familyId = f /\ token'[new].createdAt = clock
        /\ token'[t].used /\ token'[t].familyId = f
        /\ token'[t].createdAt = token[t].createdAt
        /\ \A x \in Token \ {t, new} : token'[x] = token[x]
    BY <1>1, <1>2 DEF RotateTokens, TypeInv, TypeOK, TokenDoc
  <1>4. \A g \in Family : /\ family'[g].userId = family[g].userId
                          /\ family'[g].mfaTrusted = family[g].mfaTrusted
                          /\ family'[g].mfaVerifiedAt = family[g].mfaVerifiedAt
    BY <1>1, <1>2 DEF TypeInv, TypeOK, FamilyDoc
  <1>5. /\ clock \in Nat /\ UntrustedMfaMaxAge \in Nat /\ familyDocs \subseteq Family
        /\ \A g \in Family : family[g].mfaVerifiedAt \in Nat
    BY LifeAssumption DEF TypeInv, TypeOK, FamilyDoc
  <1>6. HasMfa(f) /\ ~family[f].mfaTrusted
            => clock <= family[f].mfaVerifiedAt + UntrustedMfaMaxAge
    BY <1>1, <1>2, <1>5 DEF RequiresMfaForRefresh, MfaVerificationFresh
  <1> HIDE DEF f
  <1>7. AtMostOneUnusedToken'
    <2>1. \A x \in tokenDocs : token[x].familyId = f /\ ~token[x].used => x = t
      BY <1>1 DEF AtMostOneUnusedToken, f
    <2> QED BY <1>1, <1>2, <1>3, <2>1 DEF AtMostOneUnusedToken
  <1>8. \A x \in tokenDocs' : token'[x].createdAt <= clock'
    BY <1>1, <1>2, <1>3, <1>5 DEF AgeInv
  <1>9. UntrustedRotationsAreFresh'
    <2>1. ASSUME NEW x \in tokenDocs', token'[x].familyId \in familyDocs',
                 family'[token'[x].familyId].userId \in MfaUser,
                 ~family'[token'[x].familyId].mfaTrusted
          PROVE  token'[x].createdAt
                  <= family'[token'[x].familyId].mfaVerifiedAt + UntrustedMfaMaxAge
      <3>1. CASE x = new
        BY <1>1, <1>2, <1>3, <1>4, <1>6, <2>1, <3>1 DEF HasMfa
      <3>2. CASE x # new
        <4>1. /\ x \in tokenDocs /\ token'[x].familyId = token[x].familyId
              /\ token'[x].createdAt = token[x].createdAt
          BY <1>1, <1>2, <1>3, <3>2 DEF f
        <4> QED BY <1>1, <1>4, <1>5, <2>1, <4>1
            DEF AgeInv, UntrustedRotationsAreFresh, HasMfa
      <3> QED BY <3>1, <3>2
    <2> QED BY <2>1 DEF UntrustedRotationsAreFresh, HasMfa
  <1> QED BY <1>7, <1>8, <1>9 DEF AgeInv

LEMMA NextAges ==
    ASSUME TypeInv, AtMostOneUnusedToken, AgeInv, [Next]_vars
    PROVE  AtMostOneUnusedToken' /\ AgeInv'
  <1> USE DEF docVars, dataVars, idVars
  <1>0. /\ clock \in Nat /\ clock <= clock
        /\ familyDocs \subseteq Family /\ family \in [Family -> FamilyDoc]
    BY DEF TypeInv, TypeOK
  <1>1. ASSUME TokenFrame, AgeFrame PROVE AtMostOneUnusedToken' /\ AgeInv'
    BY <1>1, FrameAges
  <1>2. ASSUME NEW w \in Worker, Sweep(w) PROVE TokenFrame /\ AgeFrame
    BY <1>0, <1>2, SameDocsFrame, DeleteFrame
    DEF Sweep, SweepDevices, SweepFamily, SweepDone, SweepFails, SweepQuery, SweepPurge
  <1>3. ASSUME NEW w \in Worker, Issue(w) PROVE TokenFrame /\ AgeFrame
    BY <1>0, <1>3, SameDocsFrame DEF Issue, IssueAccess
  <1>4. ASSUME NEW w \in Worker, Refresh(w) PROVE AtMostOneUnusedToken' /\ AgeInv'
    <2>1. PICK t \in Token, a \in (known \cap Access) \cup {None} :
            \/ RefreshReuse(w, t, a)
            \/ RefreshTooLate(w, t, a)
            \/ \E new \in Token : RefreshRotate(w, t, a, new)
      BY <1>4 DEF Refresh
    <2>2. CASE RefreshReuse(w, t, a)
      <3>1. TokenFrame
        BY <2>2 DEF RefreshReuse, TokenFrame
      <3>2. AgeFrame
        BY <1>0, <2>2 DEF RefreshReuse, AgeFrame, FamilyDoc
      <3> QED BY <1>1, <3>1, <3>2
    <2>3. CASE RefreshTooLate(w, t, a)
      BY <1>1, <2>3, DeleteFrame DEF RefreshTooLate
    <2> QED BY <2>1, <2>2, <2>3, RotateAges
  <1>5. ASSUME NEW w \in Worker, Authenticate(w) PROVE TokenFrame /\ AgeFrame
    BY <1>0, <1>5, SameDocsFrame, DeleteFrame
    DEF Authenticate, AuthRead, AuthFamily, DropSession
  <1>6. ASSUME NEW w \in Worker, Handle(w) PROVE TokenFrame /\ AgeFrame
    <2>1. CASE MarkWrite(w)
      <3>1. TokenFrame
        BY <2>1 DEF MarkWrite, TokenFrame, UpdateFamily
      <3>2. AgeFrame
        BY <1>0, <2>1 DEF MarkWrite, UpdateFamily, AgeFrame, FamilyDoc
      <3> QED BY <3>1, <3>2
    <2>2. CASE TrustWrite(w)
      <3>1. TokenFrame
        BY <2>2 DEF TrustWrite, TokenFrame, UpdateFamily
      <3>2. req[w].fam \in Family
        BY <2>2, WorkerType DEF TrustWrite, At, LocalOK
      <3>3. UpdateFamily(w, TrustedFields(w), Becomes(w, Idle)) /\ UNCHANGED clock
        BY <2>2 DEF TrustWrite
      <3>4. AgeFrame
        BY <1>0, <3>2, <3>3, TrustedFieldsKeep DEF UpdateFamily, AgeFrame
      <3> QED BY <3>1, <3>4
    <2>3. CASE DropFamily(w)
      BY <2>3, DeleteFrame DEF DropFamily
    <2> QED BY <1>0, <1>6, <2>1, <2>2, <2>3, SameDocsFrame
        DEF Handle, SkipMfa, MarkRead, TrustRead, OwnedFamilyRead, SignOutRead,
            RevokeAllStart, Serve, Respond
  <1>7. ASSUME NEW w \in Worker, JobStart(w) \/ Abort(w) PROVE TokenFrame /\ AgeFrame
    BY <1>0, <1>7, SameDocsFrame DEF JobStart, Abort
  <1>8. CASE Tick \/ UNCHANGED vars
    BY <1>0, <1>1, <1>8, SameDocsFrame DEF Tick, vars
  <1> QED BY <1>1, <1>2, <1>3, <1>4, <1>5, <1>6, <1>7, <1>8, LoginAges DEF Next, Step

LEMMA InitAges == Init => AtMostOneUnusedToken /\ AgeInv
  BY DEF Init, AtMostOneUnusedToken, AgeInv, UntrustedRotationsAreFresh

\* Rotation keeps the refresh tokens of a family a chain with one unused end
\* (rotateRefreshToken.ts 28-109), for any number of racing clients.
THEOREM RotationIsAChain == Spec => []AtMostOneUnusedToken
  <1>1. TypeInv /\ AtMostOneUnusedToken /\ AgeInv /\ [Next]_vars
            => TypeInv' /\ AtMostOneUnusedToken' /\ AgeInv'
    BY NextType, NextAges
  <1> QED BY <1>1, InitType, InitAges, PTL DEF Spec

\* An untrusted MFA family is never refreshed beyond the age of its last MFA
\* verification (sessionMfaPolicy.ts 10-29), whatever becomes of its trust.
THEOREM UntrustedRefreshNeedsMfa == Spec => []UntrustedRotationsAreFresh
  <1>1. TypeInv /\ AtMostOneUnusedToken /\ AgeInv /\ [Next]_vars
            => TypeInv' /\ AtMostOneUnusedToken' /\ AgeInv'
    BY NextType, NextAges
  <1>2. AgeInv => UntrustedRotationsAreFresh
    BY DEF AgeInv
  <1> QED BY <1>1, <1>2, InitType, InitAges, PTL DEF Spec

-----------------------------------------------------------------------------
(***************************************************************************)
(* Validation.  A family that is dead stays dead (FamilyStep), so a family *)
(* document found usable was usable when the request began.                *)
(***************************************************************************)
ValidLocal(w) ==
    /\ req[w].pc = "family" /\ req[w].deadAtStart => Dead(req[w].fam)
    /\ req[w].pc = "authed" => ~req[w].deadAtStart

ValidationInv == \A w \in Worker : ValidLocal(w)

LEMMA ValidationFrame ==
    ASSUME TypeInv, FamilyStep, ValidationInv, NEW w \in Worker,
           \A v \in Worker \ {w} : req'[v] = req[v], ValidLocal(w)'
    PROVE  ValidationInv'
  <1>1. ASSUME NEW v \in Worker, v # w PROVE ValidLocal(v)'
    <2>1. req[v].fam \in Family \cup {None}
      BY <1>1, WorkerType DEF Local
    <2>2. req'[v] = req[v] /\ ValidLocal(v)
      BY <1>1 DEF ValidationInv
    <2>3. ASSUME req[v].fam \in Family, Dead(req[v].fam) PROVE Dead(req[v].fam)'
      <3> DEFINE f == req[v].fam
      <3>1. f' = f
        BY <2>2
      <3>2. \A g \in Family : Dead(g) => Dead(g)'
        BY DeadIsStable
      <3> QED BY <2>2, <2>3, <3>2 DEF Dead
    <2>4. Dead(req[v].fam) => req[v].fam \in Family
      BY <2>1, DistinctIds DEF Dead, TypeInv, TypeOK, Id
    <2> QED BY <2>2, <2>3, <2>4 DEF ValidLocal
  <1> QED BY <1>1 DEF ValidationInv

\* Most steps bring w to another place than the two validated ones.
LEMMA ElsewhereIsValid ==
    ASSUME TypeInv, FamilyStep, ValidationInv, NEW w \in Worker, NEW r,
           Becomes(w, r), r.pc \notin {"family", "authed"}
    PROVE  ValidationInv'
  <1>1. req'[w] = r /\ \A v \in Worker \ {w} : req'[v] = req[v]
    BY DEF Becomes, TypeInv, TypeOK
  <1>2. ValidLocal(w)'
    BY <1>1 DEF ValidLocal
  <1> QED BY <1>1, <1>2, ValidationFrame

LEMMA GotoElsewhere ==
    ASSUME TypeInv, FamilyStep, ValidationInv, NEW w \in Worker, NEW pc,
           Goto(w, pc), pc \notin {"family", "authed"}
    PROVE  ValidationInv'
  <1>1. [req[w] EXCEPT !.pc = pc].pc = pc
    BY WorkerType DEF Local
  <1> QED BY <1>1, ElsewhereIsValid DEF Goto

LEMMA UnchangedValid ==
    ASSUME TypeInv, FamilyStep, ValidationInv, UNCHANGED req
    PROVE  ValidationInv'
  <1>1. ASSUME NEW w \in Worker PROVE ValidationInv'
    <2>1. req[w].fam \in Family \cup {None}
      BY <1>1, WorkerType DEF Local
    <2>2. Dead(req[w].fam) => req[w].fam \in Family
      BY <2>1, DistinctIds DEF Dead, TypeInv, TypeOK, Id
    <2>3. \A g \in Family : Dead(g) => Dead(g)'
      BY DeadIsStable
    <2>4. ValidLocal(w)'
      BY <2>2, <2>3 DEF ValidLocal, ValidationInv, Dead
    <2> QED BY <2>4, ValidationFrame
  <1> QED BY <1>1 DEF ValidationInv

LEMMA NextValidation ==
    ASSUME TypeInv, ValidationInv, [Next]_vars
    PROVE  ValidationInv'
  <1>0. FamilyStep
    BY NextFamilyStep
  <1>1. Idle.pc = "idle"
    BY DEF Idle
  <1>2. ASSUME NEW w \in Worker, Becomes(w, Idle) PROVE ValidationInv'
    BY <1>0, <1>1, <1>2, ElsewhereIsValid
  <1>3. ASSUME NEW w \in Worker, Login(w) PROVE ValidationInv'
    <2>1. PICK u \in User, d \in Device \cup {None}, trusted \in BOOLEAN,
             f \in Family, t \in Token : LoginCommit(w, u, d, trusted, f, t)
      BY <1>3 DEF Login
    <2> DEFINE pc == IF d = None THEN "issue" ELSE "sweep"
               r == [Idle EXCEPT !.pc = pc, !.op = "login", !.userId = u, !.dev = d,
                                 !.fam = f, !.tok = t]
    <2>2. r.pc = pc /\ pc \notin {"family", "authed"}
      BY DEF Idle
    <2>3. Becomes(w, r)
      BY <2>1 DEF LoginCommit
    <2> HIDE DEF r, pc
    <2> QED BY <1>0, <2>2, <2>3, ElsewhereIsValid
  <1>4. ASSUME NEW w \in Worker, Sweep(w) PROVE ValidationInv'
    <2>1. req[w] \in Local
      BY <1>4, WorkerType
    <2>2. CASE SweepDevices(w) \/ SweepDone(w)
      BY <1>0, <2>2, GotoElsewhere DEF SweepDevices, SweepDone
    <2>3. CASE SweepFails(w) \/ SweepQuery(w) \/ \E g \in Family : SweepFamily(w, g)
      BY <1>0, <2>1, <2>3, ElsewhereIsValid
      DEF SweepFails, SweepQuery, SweepFamily, Local
    <2>4. CASE SweepPurge(w)
      BY <1>0, <2>1, <2>4, ElsewhereIsValid DEF SweepPurge, AfterSweep, Local
    <2> QED BY <1>4, <2>2, <2>3, <2>4 DEF Sweep
  <1>5. ASSUME NEW w \in Worker, Refresh(w) PROVE ValidationInv'
    <2>1. CASE UNCHANGED req
      BY <1>0, <2>1, UnchangedValid
    <2> QED BY ZenonT(40), <1>0, <1>5, <2>1, ElsewhereIsValid
        DEF Refresh, RefreshReuse, RefreshTooLate, RefreshRotate, Idle
  <1>6. ASSUME NEW w \in Worker, NEW op, NEW a \in Access, AuthRead(w, op, a)
        PROVE  ValidationInv'
    <2> DEFINE f == session[a].familyId
               pc == IF session[a].expiresAt < clock THEN "dropSession" ELSE "family"
               r == [Idle EXCEPT !.pc = pc, !.op = op, !.acc = a, !.fam = f,
                                 !.userId = session[a].userId,
                                 !.deadAtStart = Dead(f)]
    <2>1. Becomes(w, r) /\ UNCHANGED <<familyDocs, family, minted>>
      BY <1>6 DEF AuthRead, docVars, dataVars, idVars
    <2>2. r.pc = pc /\ r.fam = f /\ r.deadAtStart = Dead(f)
      BY DEF Idle
    <2>3. pc # "authed"
      OBVIOUS
    <2> HIDE DEF r, f, pc
    <2>4. req'[w] = r /\ \A v \in Worker \ {w} : req'[v] = req[v]
      BY <2>1 DEF Becomes, TypeInv, TypeOK
    <2>5. ValidLocal(w)'
      BY <2>1, <2>2, <2>3, <2>4 DEF ValidLocal, Dead
    <2> QED BY <1>0, <2>4, <2>5, ValidationFrame
  <1>7. ASSUME NEW w \in Worker, AuthFamily(w) PROVE ValidationInv'
    <2> DEFINE pc == IF FamilyUsable(req[w].fam) THEN "authed" ELSE "dropSession"
               r == [req[w] EXCEPT !.pc = pc]
    <2>1. Becomes(w, r) /\ req[w].pc = "family"
      BY <1>7 DEF AuthFamily, Goto, At
    <2>2. r.pc = pc /\ r.deadAtStart = req[w].deadAtStart /\ pc # "family"
      BY WorkerType DEF Local
    <2>3. pc = "authed" => ~req[w].deadAtStart
      BY <2>1 DEF ValidationInv, ValidLocal, FamilyUsable, Dead
    <2> HIDE DEF r, pc
    <2>4. req'[w] = r /\ \A v \in Worker \ {w} : req'[v] = req[v]
      BY <2>1 DEF Becomes, TypeInv, TypeOK
    <2>5. ValidLocal(w)'
      BY <2>2, <2>3, <2>4 DEF ValidLocal
    <2> QED BY <1>0, <2>4, <2>5, ValidationFrame
  <1>8. ASSUME NEW w \in Worker, Handle(w) PROVE ValidationInv'
    <2>1. req[w] \in Local
      BY <1>8, WorkerType
    <2>2. ASSUME NEW pc \in {"markWrite", "handler", "trustWrite"}, Goto(w, pc)
          PROVE  ValidationInv'
      BY <1>0, <2>2, GotoElsewhere
    <2>3. CASE SkipMfa(w) \/ MarkRead(w) \/ MarkWrite(w) \/ TrustRead(w) \/ TrustWrite(w)
      BY <1>2, <2>2, <2>3
      DEF SkipMfa, MarkRead, MarkWrite, TrustRead, TrustWrite, OwnedFamilyRead, UpdateFamily
    <2>4. CASE SignOutRead(w) \/ DropFamily(w) \/ RevokeAllStart(w)
      BY <1>0, <2>1, <2>4, ElsewhereIsValid
      DEF SignOutRead, DropFamily, RevokeAllStart, Local
    <2>5. CASE Serve(w) \/ Respond(w)
      BY <1>2, <2>5 DEF Serve, Respond
    <2> QED BY <1>8, <2>3, <2>4, <2>5 DEF Handle
  <1>9. ASSUME NEW w \in Worker, Authenticate(w) PROVE ValidationInv'
    BY <1>2, <1>6, <1>7, <1>9 DEF Authenticate, DropSession
  <1>10. ASSUME NEW w \in Worker, JobStart(w) \/ Abort(w) \/ Issue(w)
         PROVE  ValidationInv'
    BY <1>0, <1>2, <1>10, ElsewhereIsValid DEF JobStart, Abort, Issue, IssueAccess, Idle
  <1>11. CASE Tick \/ UNCHANGED vars
    BY <1>0, <1>11, UnchangedValid DEF Tick, vars
  <1> QED BY <1>3, <1>4, <1>5, <1>8, <1>9, <1>10, <1>11 DEF Next, Step

\* A request is let through only if its family was alive when it began
\* (validateSession.ts 7-42), for any number of concurrent revocations.
THEOREM AuthenticatedWasAlive == Spec => []NoStaleAuth
  <1>1. Init => ValidationInv
    BY DEF Init, ValidationInv, ValidLocal, Idle
  <1>2. TypeInv /\ ValidationInv /\ [Next]_vars => TypeInv' /\ ValidationInv'
    BY NextType, NextValidation
  <1>3. ValidationInv => NoStaleAuth
    BY DEF ValidationInv, ValidLocal, NoStaleAuth
  <1> QED BY <1>1, <1>2, <1>3, InitType, PTL DEF Spec

-----------------------------------------------------------------------------
(***************************************************************************)
(* Deletions.  A login deletes what its query listed, and the query asked  *)
(* for families of its own account; a refresh that comes too late deletes  *)
(* a family that has expired, since an unused token lives as long as its   *)
(* family.                                                                 *)
(***************************************************************************)
StaleOwned ==
    \A w \in Worker : Sweeping(req[w]) =>
        \A g \in stale[req[w].fam] :
            g \in minted /\ (g \in familyDocs => family[g].userId = req[w].userId)

UnusedLivesOn ==
    \A t \in tokenDocs :
        ~token[t].used /\ token[t].familyId \in familyDocs
            => family[token[t].familyId].expiresAt = TokenExpiresAt(t)

OwnerInv == StaleOwned /\ UnusedLivesOn

\* No document is new and no lifetime changes.
LifeFrame ==
    /\ TokenFrame
    /\ \A f \in familyDocs' : f \in familyDocs /\ family'[f].expiresAt = family[f].expiresAt

LEMMA NextLifeFrame ==
    ASSUME TypeInv, [Next]_vars
    PROVE  \/ LifeFrame
           \/ \E w \in Worker, u \in User, d \in Device \cup {None}, trusted \in BOOLEAN,
                 f \in Family, t \in Token : LoginCommit(w, u, d, trusted, f, t)
           \/ \E w \in Worker, t \in Token, a \in Access \cup {None}, new \in Token :
                 RefreshRotate(w, t, a, new)
  <1> USE DEF docVars, dataVars, idVars, devVars
  <1>0. familyDocs \subseteq Family /\ family \in [Family -> FamilyDoc] /\ tokenDocs \subseteq Token
    BY DEF TypeInv, TypeOK
  <1>1. ASSUME UNCHANGED <<familyDocs, family, tokenDocs, token>> PROVE LifeFrame
    BY <1>1 DEF LifeFrame, TokenFrame
  <1>2. ASSUME NEW ids, DeleteDocs(ids) PROVE LifeFrame
    BY <1>0, <1>2 DEF DeleteDocs, LifeFrame, TokenFrame
  <1>3. ASSUME NEW w \in Worker, Sweep(w) \/ Issue(w) \/ Authenticate(w) \/ JobStart(w) \/ Abort(w)
        PROVE  LifeFrame
    BY <1>1, <1>2, <1>3
    DEF Sweep, SweepDevices, SweepFamily, SweepDone, SweepFails, SweepQuery, SweepPurge,
        Issue, IssueAccess, Authenticate, AuthRead, AuthFamily, DropSession, JobStart, Abort
  <1>4. ASSUME NEW w \in Worker, NEW t \in Token, NEW a,
               RefreshReuse(w, t, a) \/ RefreshTooLate(w, t, a)
        PROVE  LifeFrame
    <2>1. CASE RefreshReuse(w, t, a)
      BY <1>0, <2>1 DEF RefreshReuse, LifeFrame, TokenFrame, FamilyDoc
    <2>2. CASE RefreshTooLate(w, t, a)
      BY <1>2, <2>2 DEF RefreshTooLate
    <2> QED BY <1>4, <2>1, <2>2
  <1>5. ASSUME NEW w \in Worker, Handle(w) PROVE LifeFrame
    <2>1. CASE MarkWrite(w)
      BY <1>0, <2>1 DEF MarkWrite, UpdateFamily, LifeFrame, TokenFrame, FamilyDoc
    <2>2. CASE TrustWrite(w)
      <3>1. req[w].fam \in Family
        BY <2>2, WorkerType DEF TrustWrite, At, LocalOK
      <3>2. PICK d \in FamilyDoc : d = family[req[w].fam]
        BY <1>0, <3>1
      <3>3. TrustedFields(w).expiresAt = d.expiresAt
        BY <3>2, ZenonT(40) DEF TrustedFields, FamilyDoc
      <3>4. UpdateFamily(w, TrustedFields(w), Becomes(w, Idle)) /\ UNCHANGED <<tokenDocs, token>>
        BY <2>2 DEF TrustWrite
      <3> QED BY <1>0, <3>1, <3>2, <3>3, <3>4 DEF UpdateFamily, LifeFrame, TokenFrame
    <2>3. CASE DropFamily(w)
      BY <1>2, <2>3 DEF DropFamily
    <2> QED BY <1>1, <1>5, <2>1, <2>2, <2>3
        DEF Handle, SkipMfa, MarkRead, TrustRead, OwnedFamilyRead, SignOutRead,
            RevokeAllStart, Serve, Respond
  <1>6. CASE Tick \/ UNCHANGED vars
    BY <1>1, <1>6 DEF Tick, vars
  <1> QED BY <1>3, <1>4, <1>5, <1>6 DEF Next, Step, Login, Refresh

LEMMA NextUnused ==
    ASSUME TypeInv, AtMostOneUnusedToken, UnusedLivesOn, [Next]_vars
    PROVE  UnusedLivesOn'
  <1>0. /\ \A t \in tokenDocs : t \in Token \cap minted /\ token[t].familyId \in Family \cap minted
        /\ familyDocs \subseteq Family \cap minted
        /\ token \in [Token -> TokenDoc] /\ family \in [Family -> FamilyDoc]
        /\ clock \in Nat /\ RefreshLife \in Nat
    BY LifeAssumption DEF TypeInv, TypeOK, ChildrenHaveFamily
  <1>1. CASE LifeFrame
    BY <1>1 DEF LifeFrame, TokenFrame, UnusedLivesOn, TokenExpiresAt
  <1>2. ASSUME NEW w \in Worker, NEW u \in User, NEW d \in Device \cup {None},
               NEW trusted \in BOOLEAN, NEW f \in Family, NEW t \in Token,
               LoginCommit(w, u, d, trusted, f, t)
        PROVE  UnusedLivesOn'
    <2>1. /\ tokenDocs' = tokenDocs \cup {t} /\ familyDocs' = familyDocs \cup {f}
          /\ f \notin minted /\ t \notin minted
          /\ token'[t].familyId = f /\ token'[t].createdAt = clock
          /\ family'[f].expiresAt = clock + RefreshLife
          /\ \A x \in Token \ {t} : token'[x] = token[x]
          /\ \A g \in Family \ {f} : family'[g] = family[g]
      BY <1>0, <1>2 DEF LoginCommit
    <2> QED BY <1>0, <2>1 DEF UnusedLivesOn, TokenExpiresAt
  <1>3. ASSUME NEW w \in Worker, NEW t \in Token, NEW a, NEW new \in Token,
               RefreshRotate(w, t, a, new)
        PROVE  UnusedLivesOn'
    <2>1. PICK f \in familyDocs : f = token[t].familyId
      BY <1>3 DEF RefreshRotate
    <2>2. /\ tokenDocs' = tokenDocs \cup {new} /\ familyDocs' = familyDocs
          /\ t \in tokenDocs /\ ~token[t].used /\ new \notin minted
          /\ RotateTokens(t, new) /\ family' = [family EXCEPT ![f].expiresAt = clock + RefreshLife]
      BY <1>3, <2>1 DEF RefreshRotate
    <2>3. /\ t # new
          /\ token'[new].familyId = f /\ token'[new].createdAt = clock
          /\ token'[t].used
          /\ \A x \in Token \ {t, new} : token'[x] = token[x]
      BY <1>0, <2>1, <2>2 DEF RotateTokens, TokenDoc
    <2>4. /\ family'[f].expiresAt = clock + RefreshLife
          /\ \A g \in familyDocs \ {f} : family'[g].expiresAt = family[g].expiresAt
      BY <1>0, <2>1, <2>2 DEF FamilyDoc
    <2>5. \A x \in tokenDocs : token[x].familyId = f /\ ~token[x].used => x = t
      BY <2>1, <2>2 DEF AtMostOneUnusedToken
    <2> QED BY <1>0, <2>2, <2>3, <2>4, <2>5 DEF UnusedLivesOn, TokenExpiresAt
  <1> QED BY <1>1, <1>2, <1>3, NextLifeFrame

\* The list of a login changes in its own steps only, and grows in its query only.
LEMMA StaleStep ==
    ASSUME TypeInv, NEW w \in Worker, Step(w), NEW f \in Family
    PROVE  stale'[f] \subseteq stale[f] \/ (SweepDevices(w) /\ f = req[w].fam)
  <1>0. stale \in [Family -> SUBSET Family]
    BY DEF TypeInv, TypeOK
  <1>1. CASE UNCHANGED stale
    BY <1>1
  <1>2. CASE Sweep(w)
    BY <1>0, <1>1, <1>2
    DEF Sweep, SweepDevices, SweepFamily, SweepDone, SweepFails, SweepQuery, SweepPurge, devVars
  <1>3. CASE Abort(w)
    <2>1. CASE req[w].op = "login"
      BY <1>0, <1>3, <2>1 DEF Abort
    <2>2. CASE req[w].op # "login"
      BY <1>1, <1>3, <2>2 DEF Abort, devVars
    <2> QED BY <2>1, <2>2
  <1>4. CASE Login(w) \/ Issue(w) \/ Refresh(w) \/ Authenticate(w) \/ Handle(w) \/ JobStart(w)
    BY ZenonT(40), <1>1, <1>4 DEF Login, LoginCommit, Issue, IssueAccess, Refresh, RefreshReuse,
       RefreshTooLate, RefreshRotate, Authenticate, AuthRead, AuthFamily,
       DropSession, Handle, SkipMfa, MarkRead, OwnedFamilyRead, MarkWrite,
       TrustRead, TrustWrite, SignOutRead, DropFamily, RevokeAllStart, Serve,
       Respond, JobStart, devVars
  <1> QED BY <1>2, <1>3, <1>4 DEF Step

\* A login that is sweeping after its step has just asked, or was sweeping before.
LEMMA SweepGoesOn ==
    ASSUME TypeInv, NEW w \in Worker, Step(w), Sweeping(req'[w])
    PROVE  /\ LoggingIn(req[w]) /\ req'[w].fam = req[w].fam /\ req'[w].userId = req[w].userId
           /\ SweepDevices(w) \/ Sweeping(req[w])
  <1>0. PICK r \in Local : r = req[w] /\ LocalOK(r, minted)
    BY WorkerType
  <1>1. \/ UNCHANGED req \/ Onward(req[w], req'[w]) \/ SweepQuery(w) \/ SweepPurge(w)
    <2>1. req'[w] # Idle
      BY IdleFresh DEF Sweeping
    <2>2. ~ \E u \in User, d \in Device \cup {None}, trusted \in BOOLEAN, f \in Family, t \in Token :
              LoginCommit(w, u, d, trusted, f, t)
      BY LoginStarts DEF Sweeping
    <2>3. ~ \E t \in Token, a \in Access \cup {None}, new \in Token : RefreshRotate(w, t, a, new)
      BY RotateStarts DEF Sweeping
    <2>4. ~ \E op \in SessionOps, a \in Access : AuthRead(w, op, a)
      BY AuthStarts DEF Sweeping
    <2>5. ~JobStart(w)
      BY JobStarts DEF Sweeping
    <2>6. ~SignOutRead(w) /\ ~DropFamily(w) /\ ~RevokeAllStart(w)
      BY <1>0, SweepLocals DEF Sweeping, LocalOK
    <2> QED BY <2>1, <2>2, <2>3, <2>4, <2>5, <2>6, StepKinds
  <1>2. SweepQuery(w) \/ SweepPurge(w) =>
            /\ r.pc \in {"query", "purge"} /\ r.op = req'[w].op
            /\ req'[w].fam = r.fam /\ req'[w].userId = r.userId
    BY <1>0, SweepLocals
  <1>3. /\ r.op = "login" /\ r.pc # "idle"
        /\ req'[w].fam = r.fam /\ req'[w].userId = r.userId
    BY <1>0, <1>1, <1>2 DEF Onward, Sweeping
  <1>4. SweepDevices(w) \/ Sweeping(r)
    <2>1. CASE UNCHANGED req
      BY <1>0, <2>1 DEF Sweeping
    <2>2. CASE Sweep(w)
      <3>1. ~SweepDone(w)
        BY GotoRecord DEF SweepDone, Sweeping
      <3>2. ~SweepFails(w)
        <4>1. ASSUME SweepFails(w) PROVE req'[w].pc = "issue"
          BY <1>0, <4>1, BecomesIs, ZenonT(40) DEF SweepFails, Local
        <4> QED BY <4>1 DEF Sweeping
      <3>3. (\E g \in Family : SweepFamily(w, g)) => r.pc = "nextStale"
        BY <1>0 DEF SweepFamily, At
      <3> QED BY <1>2, <1>3, <2>2, <3>1, <3>2, <3>3 DEF Sweep, Sweeping
    <2>3. UNCHANGED req \/ Sweep(w)
      <3>1. WorkerStep(w)
        BY StepWorkerStep
      <3>2. CASE Sweeping(req'[w]) => Sweep(w)
        BY <3>2
      <3>3. CASE req'[w].fam \notin minted
        BY <1>0, <1>3, <3>3 DEF LocalOK
      <3> QED BY <3>1, <3>2, <3>3 DEF WorkerStep, Sweeping
    <2> QED BY <2>1, <2>2, <2>3
  <1> QED BY <1>0, <1>3, <1>4 DEF LoggingIn

LEMMA NextStaleOwned ==
    ASSUME TypeInv, FamilyStep, SweepersInv, StaleOwned, [Next]_vars
    PROVE  StaleOwned'
  <1>0. familyDocs \subseteq Family \cap minted /\ minted \subseteq minted'
    BY DEF TypeInv, TypeOK, FamilyStep
  \* A list that does not grow stays owned.
  <1>1. ASSUME NEW r, Sweeping(r), NEW st,
               \A g \in stale[r.fam] :
                   g \in minted /\ (g \in familyDocs => family[g].userId = r.userId),
               st \subseteq stale[r.fam], NEW g \in st
        PROVE  g \in minted' /\ (g \in familyDocs' => family'[g].userId = r.userId)
    BY <1>0, <1>1 DEF FamilyStep
  <1>2. ASSUME NEW w \in Worker, Step(w), NEW v \in Worker, Sweeping(req'[v]), NEW g \in stale'[req'[v].fam]
        PROVE  g \in minted' /\ (g \in familyDocs' => family'[g].userId = req'[v].userId)
    <2>1. CASE v # w
      <3>1. req'[v] = req[v] /\ req[v].fam \in Family /\ LoggingIn(req[v])
        BY <1>2, <2>1, StepWorkerStep, WorkerType DEF WorkerStep, Sweeping, LoggingIn, LocalOK
      <3>2. SweepDevices(w) => LoggingIn(req[w])
        BY WorkerType DEF SweepDevices, At, LocalOK, LoggingIn
      <3>3. stale'[req[v].fam] \subseteq stale[req[v].fam]
        BY <1>2, <2>1, <3>1, <3>2, StaleStep DEF SweepersInv
      <3>4. \A x \in stale[req[v].fam] :
                x \in minted /\ (x \in familyDocs => family[x].userId = req[v].userId)
        BY <1>2, <3>1 DEF StaleOwned
      <3> QED BY <1>1, <1>2, <3>1, <3>3, <3>4
    <2>2. CASE v = w
      <3>1. /\ LoggingIn(req[w]) /\ req'[w].fam = req[w].fam /\ req'[w].userId = req[w].userId
            /\ SweepDevices(w) \/ Sweeping(req[w])
        BY <1>2, <2>2, SweepGoesOn
      <3>2. req[w].fam \in Family
        BY <3>1, WorkerType DEF LoggingIn, LocalOK
      <3>3. CASE SweepDevices(w)
        <4>1. g \in StaleDeviceFamilies(req[w]) /\ UNCHANGED <<familyDocs, family>>
          BY <1>2, <2>2, <3>1, <3>2, <3>3 DEF SweepDevices, docVars, dataVars, TypeInv, TypeOK
        <4> QED BY <1>0, <2>2, <3>1, <4>1 DEF StaleDeviceFamilies
      <3>4. CASE Sweeping(req[w]) /\ ~SweepDevices(w)
        <4>1. stale'[req[w].fam] \subseteq stale[req[w].fam]
          BY <1>2, <3>2, <3>4, StaleStep
        <4>2. \A x \in stale[req[w].fam] :
                x \in minted /\ (x \in familyDocs => family[x].userId = req[w].userId)
          BY <3>4 DEF StaleOwned
        <4> QED BY <1>1, <1>2, <2>2, <3>1, <3>4, <4>1, <4>2
      <3> QED BY <3>1, <3>3, <3>4
    <2> QED BY <2>1, <2>2
  <1>3. CASE Tick \/ UNCHANGED vars
    BY <1>3 DEF Tick, vars, docVars, dataVars, idVars, devVars, StaleOwned
  <1> QED BY <1>2, <1>3 DEF StaleOwned, Next

LEMMA NextOwner ==
    ASSUME TypeInv, SweepersInv, AtMostOneUnusedToken, OwnerInv, [Next]_vars
    PROVE  OwnerInv'
  BY NextFamilyStep, NextStaleOwned, NextUnused DEF OwnerInv

\* What DeletionsAreOwned says of one step.
Owned(f) ==
    \/ family[f].expiresAt < clock
    \/ \E w \in Worker : req[w].userId = family[f].userId /\ req[w] # req'[w]

LEMMA StepDeletesOwned ==
    ASSUME TypeInv, RequestInv, OwnerInv, [Next]_vars, NEW f \in familyDocs \ familyDocs'
    PROVE  Owned(f)
  <1> USE DEF docVars, dataVars, idVars, devVars
  <1>0. f \in Family \cap minted /\ f \notin sessionDocs /\ f \notin tokenDocs /\ clock \in Nat
    BY IdsDiffer DEF TypeInv, TypeOK
  <1>1. ASSUME NEW w \in Worker, Sweep(w) PROVE Owned(f)
    <2>1. CASE \E g \in Family : SweepFamily(w, g)
      <3>1. PICK g \in Family : SweepFamily(w, g)
        BY <2>1
      <3>2. f = g /\ g \in stale[req[w].fam] /\ req[w].pc = "nextStale"
        BY <3>1 DEF SweepFamily, DeleteDocs, At
      <3>3. family[f].userId = req[w].userId
        BY <3>2, WorkerType DEF OwnerInv, StaleOwned, Sweeping, LocalOK
      <3>4. req'[w].pc = "query"
        BY <3>1, WorkerType, BecomesIs DEF SweepFamily, Local
      <3> QED BY <3>2, <3>3, <3>4 DEF Owned
    <2>2. CASE SweepPurge(w)
      <3>1. f \in req[w].pend
        BY <2>2 DEF SweepPurge, DeleteDocs
      <3>2. req'[w].pend = {}
        BY <2>2, SweepLocals
      <3>3. req[w].pc = "purge" /\ PurgeLocal(req[w])
        BY <2>2 DEF SweepPurge, At, RequestInv
      <3>4. family[f].userId = req[w].userId \/ family[f].expiresAt < clock
        BY <1>0, <3>1, <3>3 DEF PurgeLocal
      <3> QED BY <3>1, <3>2, <3>4 DEF Owned
    <2> QED BY <1>1, <2>1, <2>2 DEF Sweep, SweepDevices, SweepDone, SweepFails, SweepQuery
  <1>2. ASSUME NEW w \in Worker, NEW t \in Token, NEW a, RefreshTooLate(w, t, a) PROVE Owned(f)
    <2>1. /\ t \in tokenDocs /\ token[t].familyId \in familyDocs /\ ~token[t].used
          /\ RefreshExpired(t)
          /\ DeleteDocs({t, token[t].familyId} \cup ExpiredSession(a))
      BY <1>2 DEF RefreshTooLate
    <2>2. f = token[t].familyId
      BY <1>0, <2>1 DEF DeleteDocs, ExpiredSession
    <2>3. family[f].expiresAt < clock
      BY <2>1, <2>2 DEF RefreshExpired, OwnerInv, UnusedLivesOn
    <2> QED BY <2>3 DEF Owned
  <1>3. ASSUME NEW w \in Worker, Refresh(w) PROVE Owned(f)
    BY <1>2, <1>3 DEF Refresh, RefreshReuse, RefreshRotate
  <1>4. ASSUME NEW w \in Worker, Authenticate(w) PROVE Owned(f)
    <2>1. req[w].acc \in Access \cup {None}
      BY <1>4, WorkerType DEF Local
    <2>2. ~DropSession(w)
      BY <1>0, <2>1, DistinctIds DEF DropSession, DeleteDocs
    <2> QED BY <1>4, <2>2 DEF Authenticate, AuthRead, AuthFamily
  <1>5. ASSUME NEW w \in Worker, Handle(w) PROVE Owned(f)
    <2>1. CASE DropFamily(w)
      <3>1. f = req[w].fam /\ req[w].pc = "dropFamily" /\ req'[w].pc = "query"
        BY <2>1, SweepLocals DEF DropFamily, DeleteDocs
      <3>2. req[w].op = "signOut"
        BY <3>1, WorkerType DEF LocalOK
      <3>3. family[f].userId = req[w].userId
        BY <3>1, <3>2 DEF RequestInv, OwnLocal
      <3> QED BY <3>1, <3>3 DEF Owned
    <2> QED BY <1>5, <2>1
        DEF Handle, SkipMfa, MarkRead, MarkWrite, TrustRead, TrustWrite, OwnedFamilyRead,
            UpdateFamily, SignOutRead, RevokeAllStart, Serve, Respond
  <1>6. ASSUME NEW w \in Worker, Login(w) \/ Issue(w) \/ JobStart(w) \/ Abort(w)
        PROVE  Owned(f)
    BY <1>6 DEF Login, LoginCommit, Issue, IssueAccess, JobStart, Abort
  <1>7. CASE Tick \/ UNCHANGED vars
    BY <1>7 DEF Tick, vars
  <1> QED BY <1>1, <1>3, <1>4, <1>5, <1>6, <1>7 DEF Next, Step

\* A step deletes a family only for a request of the account it belongs to, or once it has
\* expired (sessionRecordStore.ts 123-135, rotateRefreshToken.ts, sessionDeletion.ts).
THEOREM FamiliesAreDeletedByTheirAccount == Spec => DeletionsAreOwned
  <1> DEFINE AllInv == /\ TypeInv /\ RequestInv /\ SweepersInv /\ AtMostOneUnusedToken /\ AgeInv
                       /\ OwnerInv
  <1>1. Init => AllInv
    <2>1. Init => SweepersInv /\ OwnerInv
      <3>1. ASSUME Init PROVE \A w \in Worker : req[w].op = "none"
        BY <3>1, IdleFresh DEF Init
      <3> QED BY <3>1 DEF Init, SweepersInv, LoggingIn, OwnerInv, StaleOwned, Sweeping, UnusedLivesOn
    <2> QED BY <2>1, InitType, InitRequestInv, InitAges
  <1>2. AllInv /\ [Next]_vars => AllInv'
    BY NextType, NextRequestInv, NextSweepers, NextAges, NextOwner
  <1>3. AllInv /\ [Next]_vars =>
            [\A f \in familyDocs \ familyDocs' :
                \/ family[f].expiresAt < clock
                \/ \E w \in Worker : /\ req[w].userId = family[f].userId
                                     /\ req[w] # req'[w]]_vars
    BY StepDeletesOwned DEF Owned
  <1> HIDE DEF AllInv
  <1> QED BY <1>1, <1>2, <1>3, PTL DEF Spec, DeletionsAreOwned
=============================================================================

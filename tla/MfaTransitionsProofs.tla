------------------------ MODULE MfaTransitionsProofs ------------------------
(***************************************************************************)
(* Theorems about MfaTransitions, for any number of families and any       *)
(* lifetimes, and but for the last one any number of requests at once.     *)
(***************************************************************************)
EXTENDS MfaTransitions, TLAPS

\* Where a step of the transition is in progress, or is being recorded.
StepPc == {"createSession", "access", "applyMfa", "verify", "readSetup", "dropSetup",
           "enableCommit", "consumeSetup", "revokeOldSessions", "purge",
           "recordRead", "recordWrite"}

\* What the local variables r hold, given the drawn ids.
LocalOK(r, ids) ==
    /\ r.fam \in ids \cup {None}
    /\ r.doc.fam \in ids \cup {None}
    /\ r.pend \subseteq ids
    /\ r.pc \in StepPc => r.step \in StepName
    /\ r.pc \in {"reread", "clear", "answer", "compensate", "clearFailed"} => r.kind \in Kind
    /\ r.step \in StepName => r.kind \in Kind
    /\ r.pc \in {"revokeOldSessions", "purge"} => {"createSession", "applyMfa"} \subseteq r.done

LocalsOK == \A w \in Request : LocalOK(req[w], minted)
ProgressOK == \A k \in Kind : progress[k].fam \in minted \cup {None}

\* TypeOK is inductive together with these two.
TypeInv == TypeOK /\ LocalsOK /\ ProgressOK

-----------------------------------------------------------------------------
LEMMA NoDocType == NoDoc \in ProgressDoc /\ NoDoc.fam = None
  BY SMT DEF NoDoc, ProgressDoc

LEMMA IdleLocal == Idle \in Local /\ LocalOK(Idle, minted) /\ Idle.kind = "none"
  <1>1. Idle \in Local
    BY NoDocType DEF Idle, Local, Pc, Kind, StepName
  <1>2. LocalOK(Idle, minted)
    BY NoDocType DEF Idle, LocalOK, StepPc, StepName, Kind
  <1> QED BY <1>1, <1>2 DEF Idle

LEMMA InitType == Init => TypeInv
  <1> SUFFICES ASSUME Init PROVE TypeInv
    OBVIOUS
  <1>1. TypeOK
    BY IdleLocal, NoDocType DEF Init, TypeOK
  <1>2. LocalsOK
    BY IdleLocal DEF Init, LocalsOK
  <1>3. ProgressOK
    BY NoDocType DEF Init, ProgressOK
  <1> QED BY <1>1, <1>2, <1>3 DEF TypeInv

\* Replacing the locals of one request by well-typed ones keeps req typed.
LEMMA BecomesType ==
    ASSUME TypeInv, NEW w \in Request, NEW r \in Local, LocalOK(r, minted'),
           minted \subseteq minted', Becomes(w, r)
    PROVE  req' \in [Request -> Local] /\ LocalsOK'
  <1>1. req' \in [Request -> Local]
    BY DEF Becomes, TypeInv, TypeOK
  <1>2. ASSUME NEW v \in Request PROVE LocalOK(req'[v], minted')
    <2>1. CASE v = w
      BY <2>1 DEF Becomes, TypeInv, TypeOK
    <2>2. CASE v # w
      <3>1. req'[v] = req[v] /\ LocalOK(req[v], minted)
        BY <2>2 DEF Becomes, TypeInv, TypeOK, LocalsOK
      <3> QED BY <3>1 DEF LocalOK
    <2> QED BY <2>1, <2>2
  <1> QED BY <1>1, <1>2 DEF LocalsOK

\* The locals after a step of the transition was chosen, finished or failed.
LEMMA NextStepType ==
    ASSUME NEW done \in SUBSET StepName
    PROVE  /\ NextStep(done) \in StepName \cup {"clear"}
           /\ NextStep(done) = "revokeOldSessions"
                => {"createSession", "applyMfa"} \subseteq done
           /\ NextStep(done) = "clear" => done = StepName
           /\ NextStep(done) \notin done
  <1>1. CASE "createSession" \notin done
    BY <1>1 DEF NextStep, StepName
  <1>2. CASE "createSession" \in done /\ "applyMfa" \notin done
    BY <1>2 DEF NextStep, StepName
  <1>3. CASE {"createSession", "applyMfa"} \subseteq done /\ "revokeOldSessions" \notin done
    BY <1>3 DEF NextStep, StepName
  <1>4. CASE StepName \subseteq done
    <2>1. NextStep(done) = "clear"
      BY <1>4 DEF NextStep, StepName
    <2>2. done = StepName
      BY <1>4
    <2> QED BY <2>1, <2>2 DEF StepName
  <1> QED BY <1>1, <1>2, <1>3, <1>4 DEF StepName

LEMMA ProceedType ==
    ASSUME NEW r \in Local, NEW ids, LocalOK(r, ids), r.kind \in Kind
    PROVE  LET n == NextStep(r.done)
               s == [r EXCEPT !.pc = n, !.step = n]
           IN  s \in Local /\ LocalOK(s, ids)
  <1> DEFINE n == NextStep(r.done)
             s == [r EXCEPT !.pc = n, !.step = n]
  <1>0. r.done \in SUBSET StepName
    BY DEF Local
  <1>1. /\ n \in StepName \cup {"clear"}
        /\ n = "revokeOldSessions" => {"createSession", "applyMfa"} \subseteq r.done
    BY <1>0, NextStepType
  <1>2. n \in Pc
    BY <1>1 DEF Pc, StepName
  <1>3. s \in Local
    BY <1>1, <1>2 DEF Local
  <1>4. /\ s.pc = n /\ s.step = n /\ s.fam = r.fam /\ s.doc = r.doc /\ s.pend = r.pend
        /\ s.kind = r.kind /\ s.done = r.done
    BY DEF Local
  <1>5. LocalOK(s, ids)
    BY <1>1, <1>4 DEF LocalOK, StepPc, StepName
  <1> QED BY <1>3, <1>5

LEMMA StepDoneType ==
    ASSUME NEW r \in Local, NEW ids, LocalOK(r, ids), r.pc \in StepPc
    PROVE  LET s == [r EXCEPT !.done = @ \cup {r.step}, !.pc = "recordRead"]
           IN  s \in Local /\ LocalOK(s, ids)
  <1> DEFINE s == [r EXCEPT !.done = @ \cup {r.step}, !.pc = "recordRead"]
  <1>1. r.step \in StepName
    BY DEF LocalOK
  <1>2. s \in Local
    BY <1>1 DEF Local, Pc
  <1>3. /\ s.pc = "recordRead" /\ s.step = r.step /\ s.fam = r.fam /\ s.doc = r.doc
        /\ s.pend = r.pend /\ s.kind = r.kind
    BY DEF Local
  <1>4. LocalOK(s, ids)
    BY <1>1, <1>3 DEF LocalOK, StepPc
  <1> QED BY <1>2, <1>4

\* A failed step leaves the request idle or at the compensation.
LEMMA FailType ==
    ASSUME TypeInv, NEW w \in Request, minted' = minted, req[w].step \in StepName, Fail(w)
    PROVE  req' \in [Request -> Local] /\ LocalsOK'
  <1>1. req[w] \in Local /\ LocalOK(req[w], minted)
    BY DEF TypeInv, TypeOK, LocalsOK
  <1>2. CASE Goto(w, "compensate")
    <2> DEFINE s == [req[w] EXCEPT !.pc = "compensate"]
    <2>1. s \in Local /\ LocalOK(s, minted)
      BY <1>1 DEF Local, Pc, LocalOK, StepPc
    <2> QED BY <1>2, <2>1, BecomesType DEF Goto
  <1>3. CASE Becomes(w, Idle)
    BY <1>3, IdleLocal, BecomesType
  <1> QED BY <1>2, <1>3 DEF Fail

\* Moving on to another place with the locals as they are.
LEMMA GotoType ==
    ASSUME TypeInv, NEW w \in Request, minted' = minted, NEW pc \in Pc, Goto(w, pc),
           pc \in StepPc => req[w].step \in StepName,
           pc \notin {"revokeOldSessions", "purge"},
           req[w].kind \in Kind
    PROVE  req' \in [Request -> Local] /\ LocalsOK'
  <1>1. req[w] \in Local /\ LocalOK(req[w], minted)
    BY DEF TypeInv, TypeOK, LocalsOK
  <1> DEFINE s == [req[w] EXCEPT !.pc = pc]
  <1>2. s \in Local
    BY <1>1 DEF Local
  <1>3. /\ s.pc = pc /\ s.step = req[w].step /\ s.fam = req[w].fam /\ s.doc = req[w].doc
        /\ s.pend = req[w].pend /\ s.kind = req[w].kind /\ s.done = req[w].done
    BY <1>1 DEF Local
  <1>4. LocalOK(s, minted)
    BY <1>1, <1>3 DEF LocalOK
  <1> QED BY <1>2, <1>4, BecomesType DEF Goto

-----------------------------------------------------------------------------
(***************************************************************************)
(* TypeInv is inductive: one lemma per group of actions.                   *)
(***************************************************************************)
\* What a step has to show when it draws no id and leaves the progress alone.
LEMMA SameIds ==
    ASSUME TypeInv, minted' = minted, progress' = progress,
           req' \in [Request -> Local], LocalsOK',
           mfaEnabled' \in BOOLEAN, setup' \in Nat \cup {None},
           live' \subseteq live, claims' = claims, held' \subseteq minted, clock' \in Nat
    PROVE  TypeInv'
  <1>1. TypeOK'
    BY DEF TypeInv, TypeOK
  <1>2. ProgressOK'
    BY DEF TypeInv, ProgressOK
  <1> QED BY <1>1, <1>2 DEF TypeInv

\* Both ways a family is drawn.
LEMMA DrawType ==
    ASSUME TypeInv, NEW w \in Request, NEW f \in Family, NEW c \in BOOLEAN,
           NEW r \in Local, LocalOK(r, minted'), Becomes(w, r),
           minted' = minted \cup {f}, live' = live \cup {f}, claims' = [claims EXCEPT ![f] = c],
           held' \subseteq held \cup {f}, UNCHANGED <<accountVars, progress, clock>>
    PROVE  TypeInv'
  <1>1. req' \in [Request -> Local] /\ LocalsOK'
    BY BecomesType
  <1>2. TypeOK'
    BY <1>1 DEF TypeInv, TypeOK, accountVars
  <1>3. ProgressOK'
    BY DEF TypeInv, ProgressOK
  <1> QED BY <1>1, <1>2, <1>3 DEF TypeInv

LEMMA AroundType ==
    ASSUME TypeInv, NEW w \in Request, Around(w)
    PROVE  TypeInv'
  <1> USE DEF accountVars, familyVars
  <1>0. TypeOK /\ req[w] \in Local
    BY DEF TypeInv, TypeOK
  <1>1. CASE LoginRead(w)
    <2> DEFINE s == [Idle EXCEPT !.pc = "login", !.was = mfaEnabled]
    <2>0. s \in Local
      BY <1>0, IdleLocal DEF Local, Pc, TypeOK
    <2>a. /\ s.pc = "login" /\ s.step = Idle.step /\ s.fam = Idle.fam /\ s.doc = Idle.doc
          /\ s.pend = Idle.pend /\ s.kind = Idle.kind /\ s.done = Idle.done
      BY IdleLocal DEF Local
    <2>1. LocalOK(s, minted)
      BY <2>a, IdleLocal DEF LocalOK, StepPc
    <2>2. req' \in [Request -> Local] /\ LocalsOK'
      BY <1>1, <2>0, <2>1, BecomesType DEF LoginRead
    <2> QED BY <1>0, <1>1, <2>2, SameIds DEF LoginRead, TypeOK
  <1>2. ASSUME NEW f \in Family, NEW delivered \in BOOLEAN, LoginCommit(w, f, delivered)
        PROVE  TypeInv'
    <2>1. LocalOK(Idle, minted')
      BY NoDocType DEF Idle, LocalOK, StepPc, StepName, Kind
    <2>2. req[w].was \in BOOLEAN
      BY <1>0 DEF Local
    <2> QED BY <1>2, <2>1, <2>2, IdleLocal, DrawType DEF LoginCommit
  <1>3. ASSUME NEW gone, SignOut(w, gone) PROVE TypeInv'
    <2>1. req' \in [Request -> Local] /\ LocalsOK'
      BY <1>3, <1>0 DEF SignOut, TypeInv, TypeOK, LocalsOK
    <2> QED BY <1>0, <1>3, <2>1, SameIds DEF SignOut, TypeOK
  <1>4. CASE SetupRead(w)
    <2> DEFINE s == [Idle EXCEPT !.pc = "setup"]
    <2>1. s \in Local /\ LocalOK(s, minted)
      BY IdleLocal DEF Local, Pc, LocalOK, StepPc
    <2>2. req' \in [Request -> Local] /\ LocalsOK'
      BY <1>4, <2>1, BecomesType DEF SetupRead
    <2> QED BY <1>0, <1>4, <2>2, SameIds DEF SetupRead, TypeOK
  <1>5. CASE SetupWrite(w)
    <2>1. req' \in [Request -> Local] /\ LocalsOK'
      BY <1>5, IdleLocal, BecomesType DEF SetupWrite
    <2>2. setup' \in Nat
      BY <1>0, <1>5, LifeAssumption DEF SetupWrite, TypeOK
    <2> QED BY <1>0, <1>5, <2>1, <2>2, SameIds DEF SetupWrite, TypeOK
  <1> QED BY <1>1, <1>2, <1>3, <1>4, <1>5 DEF Around

LEMMA ApplyType ==
    ASSUME TypeInv, NEW w \in Request, Apply(w)
    PROVE  TypeInv'
  <1> USE DEF accountVars, familyVars, At
  <1>0. TypeOK /\ req[w] \in Local /\ LocalOK(req[w], minted)
    BY DEF TypeInv, TypeOK, LocalsOK
  <1>a. req[w].pc \in StepPc => req[w].step \in StepName /\ req[w].kind \in Kind
    BY <1>0 DEF LocalOK
  <1>b. ASSUME req[w].pc \in StepPc, StepDone(w, req[w]), minted' = minted
        PROVE  req' \in [Request -> Local] /\ LocalsOK'
    BY <1>0, <1>b, StepDoneType, BecomesType DEF StepDone
  <1>1. CASE EnableRead(w)
    <2>1. req' \in [Request -> Local] /\ LocalsOK'
      <3>1. PICK pc \in {"verify", "readSetup"} : Goto(w, pc)
        BY <1>1 DEF EnableRead
      <3>2. pc \in Pc /\ pc \in StepPc /\ req[w].pc \in StepPc
        BY <1>1 DEF EnableRead, Pc, StepPc
      <3> QED BY <1>1, <1>a, <3>1, <3>2, GotoType DEF EnableRead
    <2> QED BY <1>0, <1>1, <2>1, SameIds DEF EnableRead, TypeOK
  <1>2. CASE EnableVerify(w)
    <2>1. req[w].pc \in StepPc
      BY <1>2 DEF EnableVerify, StepPc
    <2>2. req' \in [Request -> Local] /\ LocalsOK'
      BY <1>2, <1>a, <1>b, <2>1, FailType DEF EnableVerify
    <2> QED BY <1>0, <1>2, <2>2, SameIds DEF EnableVerify, TypeOK
  <1>3. CASE ReadSetup(w)
    <2>1. req[w].pc \in StepPc
      BY <1>3 DEF ReadSetup, StepPc
    <2>2. Fail(w) \/ Goto(w, "dropSetup") \/ Goto(w, "enableCommit")
      BY <1>3 DEF ReadSetup
    <2>3. {"dropSetup", "enableCommit"} \subseteq Pc \cap StepPc
      BY DEF Pc, StepPc
    <2>4. minted' = minted
      BY <1>3 DEF ReadSetup
    <2>5. req' \in [Request -> Local] /\ LocalsOK'
      <3>1. CASE Fail(w)
        BY <3>1, <1>a, <2>1, <2>4, FailType
      <3>2. CASE Goto(w, "dropSetup")
        BY <3>2, <1>a, <2>1, <2>3, <2>4, GotoType
      <3>3. CASE Goto(w, "enableCommit")
        BY <3>3, <1>a, <2>1, <2>3, <2>4, GotoType
      <3> QED BY <2>2, <3>1, <3>2, <3>3
    <2> QED BY <1>0, <1>3, <2>5, SameIds DEF ReadSetup, TypeOK
  <1>4. CASE DropSetup(w)
    <2>1. req' \in [Request -> Local] /\ LocalsOK'
      BY <1>4, <1>a, FailType DEF DropSetup, StepPc
    <2> QED BY <1>0, <1>4, <2>1, SameIds DEF DropSetup, TypeOK
  <1>5. CASE EnableCommit(w)
    <2>1. "consumeSetup" \in Pc \cap StepPc /\ req[w].pc \in StepPc
      BY <1>5 DEF Pc, StepPc, EnableCommit
    <2>2. req' \in [Request -> Local] /\ LocalsOK'
      BY <1>5, <1>a, <2>1, GotoType DEF EnableCommit
    <2> QED BY <1>0, <1>5, <2>2, SameIds DEF EnableCommit, TypeOK
  <1>6. CASE ConsumeSetup(w)
    <2>1. req' \in [Request -> Local] /\ LocalsOK'
      BY <1>6, <1>b DEF ConsumeSetup, StepPc
    <2> QED BY <1>0, <1>6, <2>1, SameIds DEF ConsumeSetup, TypeOK
  <1>7. CASE DisableCommit(w)
    <2>1. req' \in [Request -> Local] /\ LocalsOK'
      BY <1>7, <1>b DEF DisableCommit, StepPc
    <2> QED BY <1>0, <1>7, <2>1, SameIds DEF DisableCommit, TypeOK
  <1> QED BY <1>1, <1>2, <1>3, <1>4, <1>5, <1>6, <1>7 DEF Apply

\* The locals a transition starts with.
Started(k, code, resume, fam, was, sound) ==
    [Idle EXCEPT !.pc = "reread", !.kind = k, !.code = code, !.resume = resume,
                 !.fam = fam, !.was = was, !.sound = sound]

LEMMA StartLocal ==
    ASSUME NEW k \in Kind, NEW code \in BOOLEAN, NEW resume \in BOOLEAN,
           NEW fam \in Family \cup {None}, NEW was \in BOOLEAN, NEW sound \in BOOLEAN
    PROVE  Started(k, code, resume, fam, was, sound) \in Local
  <1> DEFINE a == [Idle EXCEPT !.pc = "reread", !.kind = k, !.code = code]
             b == [a EXCEPT !.resume = resume, !.fam = fam]
  <1>1. a \in Local
    BY IdleLocal DEF Local, Pc
  <1>2. b \in Local
    <2> HIDE DEF a
    <2> QED BY <1>1 DEF Local
  <1>3. [b EXCEPT !.was = was, !.sound = sound] \in Local
    <2> HIDE DEF b
    <2> QED BY <1>2 DEF Local
  <1> QED BY <1>3 DEF Started

LEMMA RunType ==
    ASSUME TypeInv, NEW w \in Request,
           \/ \E k \in Kind, code \in BOOLEAN : Start(w, k, code)
           \/ Reread(w)
           \/ \E f \in Family : CreateCommit(w, f)
           \/ \E f \in Family : CreateAccess(w, f)
           \/ RevokeQuery(w)
           \/ RevokePurge(w)
    PROVE  TypeInv'
  <1> USE DEF accountVars, familyVars, At
  <1>0. TypeOK /\ req[w] \in Local /\ LocalOK(req[w], minted)
    BY DEF TypeInv, TypeOK, LocalsOK
  <1>a. req[w].pc \in StepPc => req[w].step \in StepName /\ req[w].kind \in Kind
    BY <1>0 DEF LocalOK
  <1>1. ASSUME NEW k \in Kind, NEW code \in BOOLEAN, Start(w, k, code) PROVE TypeInv'
    <2> DEFINE doc == progress[k]
               resume == Readable(doc)
               fam == IF Readable(doc) THEN doc.fam ELSE None
               sound == Truthful(doc, k)
               s == [Idle EXCEPT
                !.pc = "reread", !.kind = k, !.code = code, !.resume = resume,
                !.fam = fam, !.was = mfaEnabled, !.sound = sound]
    <2>1. doc \in ProgressDoc /\ doc.fam \in minted \cup {None}
      BY <1>0 DEF TypeInv, TypeOK, ProgressOK
    <2>2. Readable(doc) \in BOOLEAN /\ Truthful(doc, k) \in BOOLEAN
      BY Zenon DEF Readable, Truthful
    <2>3. s \in Local
      <3>1. doc.fam \in Family \cup {None} /\ mfaEnabled \in BOOLEAN
        BY <1>0, <2>1 DEF ProgressDoc, TypeOK
      <3>2. fam \in Family \cup {None} /\ resume \in BOOLEAN /\ sound \in BOOLEAN
        BY <2>2, <3>1
      <3> HIDE DEF fam, resume, sound
      <3>3. Started(k, code, resume, fam, mfaEnabled, sound) \in Local
        BY <3>1, <3>2, StartLocal
      <3> QED BY <3>3 DEF Started
    <2>4. /\ s.pc = "reread" /\ s.step = "none" /\ s.fam \in {doc.fam, None} /\ s.doc = NoDoc
          /\ s.pend = {} /\ s.kind = k
      BY DEF Idle
    <2>5. LocalOK(s, minted)
      BY <2>1, <2>4, NoDocType DEF LocalOK, StepPc, StepName
    <2>6. req' \in [Request -> Local] /\ LocalsOK'
      BY <1>1, <2>3, <2>5, BecomesType DEF Start
    <2> QED BY <1>0, <1>1, <2>6, SameIds DEF Start, TypeOK
  <1>2. CASE Reread(w)
    <2> DEFINE doc == progress[req[w].kind]
               r == [req[w] EXCEPT !.done = Recorded(doc)]
    <2>1. req[w].kind \in Kind /\ req[w].pc = "reread"
      BY <1>0, <1>2 DEF LocalOK, Reread
    <2>2. Recorded(doc) \in SUBSET StepName
      BY <1>0, <2>1 DEF Recorded, TypeOK, ProgressDoc
    <2>3. r \in Local /\ r.kind \in Kind
      BY <1>0, <2>1, <2>2 DEF Local
    <2>4. LocalOK(r, minted)
      <3>1. /\ r.pc = "reread" /\ r.step = req[w].step /\ r.fam = req[w].fam
            /\ r.doc = req[w].doc /\ r.pend = req[w].pend /\ r.kind = req[w].kind
        BY <1>0, <2>1 DEF Local
      <3> HIDE DEF r
      <3> QED BY <1>0, <2>1, <3>1 DEF LocalOK, StepPc
    <2>5. Proceed(w, r)
      BY <1>2 DEF Reread
    <2>6. req' \in [Request -> Local] /\ LocalsOK'
      <3> HIDE DEF r
      <3> QED BY <1>2, <2>3, <2>4, <2>5, ProceedType, BecomesType DEF Proceed, Reread
    <2> QED BY <1>0, <1>2, <2>6, SameIds DEF Reread, TypeOK
  <1>3. ASSUME NEW f \in Family, CreateCommit(w, f) PROVE TypeInv'
    <2> DEFINE s == [req[w] EXCEPT !.pc = "access", !.pend = {f}]
    <2>1. req[w].pc \in StepPc /\ minted' = minted \cup {f}
      BY <1>3 DEF CreateCommit, StepPc
    <2>2. s \in Local
      BY <1>0 DEF Local, Pc
    <2>3. /\ s.pc = "access" /\ s.step = req[w].step /\ s.fam = req[w].fam
          /\ s.doc = req[w].doc /\ s.pend = {f} /\ s.kind = req[w].kind
      BY <1>0 DEF Local
    <2>4. LocalOK(s, minted')
      BY <1>0, <1>a, <2>1, <2>3 DEF LocalOK, StepPc
    <2>5. Target(req[w].kind) \in BOOLEAN
      BY DEF Target
    <2> QED BY <1>3, <2>2, <2>4, <2>5, DrawType DEF CreateCommit
  <1>4. ASSUME NEW f \in Family, CreateAccess(w, f) PROVE TypeInv'
    <2> DEFINE r == [req[w] EXCEPT !.fam = f, !.pend = {}]
    <2>1. req[w].pc = "access" /\ f \in minted
      BY <1>0, <1>4 DEF CreateAccess, LocalOK
    <2>2. r \in Local
      BY <1>0 DEF Local
    <2>3. /\ r.pc = "access" /\ r.step = req[w].step /\ r.fam = f
          /\ r.doc = req[w].doc /\ r.pend = {} /\ r.kind = req[w].kind
      BY <1>0, <2>1 DEF Local
    <2>4. LocalOK(r, minted) /\ r.pc \in StepPc
      BY <1>0, <2>1, <2>3 DEF LocalOK, StepPc
    <2>5. StepDone(w, r)
      BY <1>4 DEF CreateAccess
    <2>6. req' \in [Request -> Local] /\ LocalsOK'
      <3> HIDE DEF r
      <3> QED BY <1>4, <2>2, <2>4, <2>5, StepDoneType, BecomesType DEF StepDone, CreateAccess
    <2> QED BY <1>0, <1>4, <2>6, SameIds DEF CreateAccess, TypeOK
  <1>5. CASE RevokeQuery(w)
    <2>1. req[w].pc = "revokeOldSessions" /\ req[w].pc \in StepPc
      BY <1>5 DEF RevokeQuery, StepPc
    <2>2. req' \in [Request -> Local] /\ LocalsOK'
      <3>1. CASE Fail(w)
        BY <1>5, <1>a, <2>1, <3>1, FailType DEF RevokeQuery
      <3>2. CASE Becomes(w, [req[w] EXCEPT !.pc = "purge", !.pend = OldFamilies(w)])
        <4> DEFINE s == [req[w] EXCEPT !.pc = "purge", !.pend = OldFamilies(w)]
        <4>1. OldFamilies(w) \subseteq minted /\ minted \subseteq Family
          BY <1>0 DEF OldFamilies, TypeOK
        <4>2. s \in Local
          BY <1>0, <4>1 DEF Local, Pc
        <4>3. /\ s.pc = "purge" /\ s.step = req[w].step /\ s.fam = req[w].fam
              /\ s.doc = req[w].doc /\ s.pend = OldFamilies(w) /\ s.kind = req[w].kind
              /\ s.done = req[w].done
          BY <1>0 DEF Local
        <4>4. LocalOK(s, minted)
          BY <1>0, <1>a, <2>1, <4>1, <4>3 DEF LocalOK, StepPc
        <4> QED BY <1>5, <3>2, <4>2, <4>4, BecomesType DEF RevokeQuery
      <3> QED BY <1>5, <3>1, <3>2 DEF RevokeQuery
    <2> QED BY <1>0, <1>5, <2>2, SameIds DEF RevokeQuery, TypeOK
  <1>6. CASE RevokePurge(w)
    <2> DEFINE r == [req[w] EXCEPT !.pend = {}]
    <2>1. req[w].pc = "purge"
      BY <1>6 DEF RevokePurge
    <2>2. r \in Local
      BY <1>0 DEF Local
    <2>3. /\ r.pc = "purge" /\ r.step = req[w].step /\ r.fam = req[w].fam /\ r.done = req[w].done
          /\ r.doc = req[w].doc /\ r.pend = {} /\ r.kind = req[w].kind
      BY <1>0, <2>1 DEF Local
    <2>4. LocalOK(r, minted) /\ r.pc \in StepPc
      BY <1>0, <2>1, <2>3 DEF LocalOK, StepPc
    <2>5. StepDone(w, r)
      BY <1>6 DEF RevokePurge
    <2>6. req' \in [Request -> Local] /\ LocalsOK'
      <3> HIDE DEF r
      <3> QED BY <1>6, <2>2, <2>4, <2>5, StepDoneType, BecomesType DEF StepDone, RevokePurge
    <2> QED BY <1>0, <1>6, <2>6, SameIds DEF RevokePurge, TypeOK
  <1> QED BY <1>1, <1>2, <1>3, <1>4, <1>5, <1>6

\* What a step has to show when it writes the progress of one transition.
LEMMA WriteType ==
    ASSUME TypeInv, NEW k \in Kind, NEW d \in ProgressDoc, d.fam \in minted \cup {None},
           progress' = [progress EXCEPT ![k] = d],
           req' \in [Request -> Local], LocalsOK',
           UNCHANGED <<accountVars, familyVars, clock>>
    PROVE  TypeInv'
  <1> USE DEF accountVars, familyVars
  <1>1. TypeOK'
    BY DEF TypeInv, TypeOK
  <1>2. ASSUME NEW j \in Kind PROVE progress'[j].fam \in minted' \cup {None}
    <2>1. CASE j = k
      BY <2>1 DEF TypeInv, TypeOK
    <2>2. CASE j # k
      BY <2>2 DEF TypeInv, TypeOK, ProgressOK
    <2> QED BY <2>1, <2>2
  <1> QED BY <1>1, <1>2 DEF TypeInv, ProgressOK

LEMMA RecordType ==
    ASSUME TypeInv, NEW w \in Request, RecordRead(w) \/ RecordWrite(w)
    PROVE  TypeInv'
  <1> USE DEF accountVars, familyVars, At
  <1>0. TypeOK /\ req[w] \in Local /\ LocalOK(req[w], minted)
    BY DEF TypeInv, TypeOK, LocalsOK
  <1>1. req[w].pc \in StepPc
    BY DEF RecordRead, RecordWrite, StepPc
  <1>2. req[w].step \in StepName /\ req[w].kind \in Kind
    BY <1>0, <1>1 DEF LocalOK
  <1>3. CASE RecordRead(w)
    <2> DEFINE doc == progress[req[w].kind]
               s == [req[w] EXCEPT !.pc = "recordWrite", !.doc = doc]
    <2>1. doc \in ProgressDoc /\ doc.fam \in minted \cup {None}
      BY <1>0, <1>2 DEF TypeInv, TypeOK, ProgressOK
    <2>2. s \in Local
      BY <1>0, <2>1 DEF Local, Pc
    <2>3. /\ s.pc = "recordWrite" /\ s.step = req[w].step /\ s.fam = req[w].fam
          /\ s.doc = doc /\ s.pend = req[w].pend /\ s.kind = req[w].kind
      BY <1>0 DEF Local
    <2>4. LocalOK(s, minted)
      <3> HIDE DEF s, doc
      <3> QED BY <1>0, <1>2, <2>1, <2>3 DEF LocalOK, StepPc
    <2>5. req' \in [Request -> Local] /\ LocalsOK'
      BY <1>3, <2>2, <2>4, BecomesType DEF RecordRead
    <2> QED BY <1>0, <1>3, <2>5, SameIds DEF RecordRead, TypeOK
  <1>4. CASE RecordWrite(w)
    <2> DEFINE q == req[w]
               d == [exists |-> TRUE, steps |-> q.doc.steps \cup {q.step},
                     fam |-> IF q.step = "createSession" THEN q.fam ELSE q.doc.fam,
                     expiresAt |-> IF q.doc.exists THEN q.doc.expiresAt
                                                   ELSE clock + ProgressLife]
               r == [q EXCEPT !.doc = NoDoc]
    <2>1. d \in ProgressDoc
      <3>1. q.doc \in ProgressDoc /\ q.fam \in Family \cup {None} /\ clock + ProgressLife \in Nat
        BY <1>0, LifeAssumption DEF Local, TypeOK
      <3> QED BY <1>2, <3>1 DEF ProgressDoc
    <2>2. d.fam \in minted \cup {None}
      BY <1>0 DEF LocalOK
    <2>3. r \in Local
      BY <1>0, NoDocType DEF Local
    <2>4. /\ r.pc = q.pc /\ r.step = q.step /\ r.fam = q.fam /\ r.done = q.done
          /\ r.doc = NoDoc /\ r.pend = q.pend /\ r.kind = q.kind
      BY <1>0 DEF Local
    <2>5. LocalOK(r, minted) /\ r.kind \in Kind
      <3> HIDE DEF r
      <3> QED BY <1>0, <1>2, <2>4, NoDocType DEF LocalOK
    <2>6. Proceed(w, r) /\ progress' = [progress EXCEPT ![q.kind] = d] /\ minted' = minted
      BY <1>4 DEF RecordWrite
    <2>7. req' \in [Request -> Local] /\ LocalsOK'
      <3> HIDE DEF r
      <3> QED BY <2>3, <2>5, <2>6, ProceedType, BecomesType DEF Proceed
    <2> HIDE DEF d
    <2> QED BY <1>2, <1>4, <2>1, <2>2, <2>6, <2>7, WriteType DEF RecordWrite
  <1> QED BY <1>3, <1>4

LEMMA EndType ==
    ASSUME TypeInv, NEW w \in Request,
           \/ \E ok \in BOOLEAN : Clear(w, ok)
           \/ \E delivered \in BOOLEAN : Answer(w, delivered)
           \/ Compensate(w)
           \/ ClearFailed(w)
           \/ StepFails(w)
           \/ Abort(w)
    PROVE  TypeInv'
  <1> USE DEF accountVars, familyVars, At
  <1>0. TypeOK /\ req[w] \in Local /\ LocalOK(req[w], minted)
    BY DEF TypeInv, TypeOK, LocalsOK
  <1>1. ASSUME NEW ok \in BOOLEAN, Clear(w, ok) PROVE TypeInv'
    <2>1. req[w].kind \in Kind /\ minted' = minted
      BY <1>0, <1>1 DEF LocalOK, Clear
    <2>2. "answer" \in Pc /\ "answer" \notin StepPc
      BY DEF Pc, StepPc
    <2>3. req' \in [Request -> Local] /\ LocalsOK'
      BY <1>1, <2>1, <2>2, GotoType DEF Clear
    <2>4. CASE ok
      BY <1>1, <2>1, <2>3, <2>4, NoDocType, WriteType DEF Clear
    <2>5. CASE ~ok
      BY <1>0, <1>1, <2>3, <2>5, SameIds DEF Clear, TypeOK
    <2> QED BY <2>4, <2>5
  <1>2. ASSUME NEW delivered \in BOOLEAN, Answer(w, delivered) PROVE TypeInv'
    <2>1. req' \in [Request -> Local] /\ LocalsOK'
      BY <1>2, IdleLocal, BecomesType DEF Answer
    <2>2. held' \subseteq minted
      BY <1>0, <1>2 DEF Answer, LocalOK, TypeOK
    <2> QED BY <1>0, <1>2, <2>1, <2>2, SameIds DEF Answer, TypeOK
  <1>3. CASE Compensate(w)
    <2>1. req[w].kind \in Kind /\ minted' = minted
      BY <1>0, <1>3 DEF LocalOK, Compensate
    <2>2. "clearFailed" \in Pc /\ "clearFailed" \notin StepPc
      BY DEF Pc, StepPc
    <2>3. req' \in [Request -> Local] /\ LocalsOK'
      BY <1>3, <2>1, <2>2, GotoType DEF Compensate
    <2> QED BY <1>0, <1>3, <2>3, SameIds DEF Compensate, TypeOK
  <1>4. CASE ClearFailed(w)
    <2>1. req[w].kind \in Kind
      BY <1>0, <1>4 DEF LocalOK, ClearFailed
    <2>2. req' \in [Request -> Local] /\ LocalsOK'
      BY <1>4, IdleLocal, BecomesType DEF ClearFailed
    <2> QED BY <1>4, <2>1, <2>2, NoDocType, WriteType DEF ClearFailed
  <1>5. CASE StepFails(w)
    <2>1. req' \in [Request -> Local] /\ LocalsOK'
      BY <1>5, FailType DEF StepFails
    <2> QED BY <1>0, <1>5, <2>1, SameIds DEF StepFails, TypeOK
  <1>6. CASE Abort(w)
    <2>1. req' \in [Request -> Local] /\ LocalsOK'
      BY <1>6, IdleLocal, BecomesType DEF Abort
    <2> QED BY <1>0, <1>6, <2>1, SameIds DEF Abort, TypeOK
  <1> QED BY <1>1, <1>2, <1>3, <1>4, <1>5, <1>6

LEMMA NextType ==
    ASSUME TypeInv, [Next]_vars
    PROVE  TypeInv'
  <1> USE DEF accountVars, familyVars
  <1>1. CASE Tick
    <2>1. clock' \in Nat /\ req' \in [Request -> Local] /\ LocalsOK'
      BY <1>1 DEF Tick, TypeInv, TypeOK, LocalsOK
    <2> QED BY <1>1, <2>1, SameIds DEF Tick, TypeInv, TypeOK
  <1>2. CASE CleanupSetup
    <2>1. req' \in [Request -> Local] /\ LocalsOK'
      BY <1>2 DEF CleanupSetup, TypeInv, TypeOK, LocalsOK
    <2> QED BY <1>2, <2>1, SameIds DEF CleanupSetup, TypeInv, TypeOK
  <1>3. ASSUME NEW w \in Request, Around(w) \/ Transition(w) PROVE TypeInv'
    BY <1>3, AroundType, ApplyType, RunType, RecordType, EndType DEF Transition
  <1>4. CASE UNCHANGED vars
    BY <1>4 DEF vars, TypeInv, TypeOK, LocalsOK, ProgressOK
  <1> QED BY <1>1, <1>2, <1>3, <1>4 DEF Next

\* The variables keep their types, and every place of a transition finds the
\* local variables it relies on (executeTransition and the steps it runs).
THEOREM TypeCorrect == Spec => []TypeOK
  <1>1. Spec => []TypeInv
    BY InitType, NextType, PTL DEF Spec
  <1>2. TypeInv => TypeOK
    BY DEF TypeInv
  <1> QED BY <1>1, <1>2, PTL

-----------------------------------------------------------------------------
(***************************************************************************)
(* What a transition that fails costs.                                     *)
(***************************************************************************)
\* No step of a request in a transition deletes a family besides its own
\* before the change was applied.
LEMMA CostStep ==
    ASSUME TypeInv, Next, NEW w \in Request, req[w].kind \in Kind, req[w] # req'[w]
    PROVE  live \ live' \subseteq {req[w].fam}
               \/ {"createSession", "applyMfa"} \subseteq req[w].done
  <1> USE DEF accountVars, familyVars, At
  <1>0. LocalOK(req[w], minted)
    BY DEF TypeInv, LocalsOK
  <1>1. ASSUME Tick \/ CleanupSetup PROVE live' = live
    BY <1>1 DEF Tick, CleanupSetup
  <1>2. ASSUME NEW v \in Request, Around(v), live' # live PROVE live \subseteq live' \/ req' = req
    BY <1>2 DEF Around, LoginRead, LoginCommit, SignOut, SetupRead, SetupWrite
  <1>3. ASSUME NEW v \in Request, Transition(v)
        PROVE  \/ live \subseteq live'
               \/ Compensate(v)
               \/ RevokePurge(v)
    BY <1>3 DEF Transition, Apply, Start, Reread, CreateCommit, CreateAccess, EnableRead,
         EnableVerify, ReadSetup, DropSetup, EnableCommit, ConsumeSetup, DisableCommit,
         RevokeQuery, RecordRead, RecordWrite, Clear, Answer, ClearFailed, StepFails, Abort
  <1>4. ASSUME NEW v \in Request, Compensate(v) \/ RevokePurge(v) PROVE v = w
    BY <1>4 DEF Compensate, RevokePurge, Goto, StepDone, Becomes, TypeInv, TypeOK
  <1>5. CASE Compensate(w)
    BY <1>5 DEF Compensate
  <1>6. CASE RevokePurge(w)
    BY <1>0, <1>6 DEF RevokePurge, LocalOK
  <1> QED BY <1>1, <1>2, <1>3, <1>4, <1>5, <1>6 DEF Next

\* A transition deletes no family but the one it created unless the change was
\* applied: a wrong code, or any failure before, costs no session
\* (sweepStaleFamilies: false in runTransition, and the compensation).
THEOREM FailureCostsNoSessionCorrect == Spec => FailureCostsNoSession
  <1>1. Spec => []TypeInv
    BY InitType, NextType, PTL DEF Spec
  <1>2. ASSUME TypeInv, [Next]_vars
        PROVE  [\A w \in Request : req[w].kind \in Kind /\ req[w] # req'[w] =>
                   live \ live' \subseteq {req[w].fam}
                       \/ {"createSession", "applyMfa"} \subseteq req[w].done]_vars
    BY <1>2, CostStep
  <1> QED BY <1>1, <1>2, PTL DEF Spec, FailureCostsNoSession
-----------------------------------------------------------------------------
(***************************************************************************)
(* What a transition that succeeds leaves behind, when the requests of the *)
(* account do not overlap.                                                 *)
(***************************************************************************)
\* The hypothesis: with overlapping requests the property is false, a login that read
\* the flag before an enable commits its family after the revocation.
OneAtATime == \A v, w \in Request : v = w

\* A session of a transition of kind k claims what the transition is about to make true.
FamOK(f, k) == f # None => claims[f] = Target(k)

ClaimOK(r) ==
    r.kind \in Kind =>
        /\ FamOK(r.fam, r.kind) /\ FamOK(r.doc.fam, r.kind)
        /\ r.pc = "access" => \A f \in r.pend : claims[f] = Target(r.kind)

ApplyPc == {"applyMfa", "verify", "readSetup", "dropSetup", "enableCommit", "consumeSetup"}

\* The step that is recorded next is the one that ran.
StepAt(r) ==
    /\ r.pc \in {"createSession", "access"} => r.step = "createSession"
    /\ r.pc \in ApplyPc => r.step = "applyMfa"
    /\ r.pc \in ApplyPc \ {"applyMfa"} => r.kind = "enable"
    /\ r.pc \in {"revokeOldSessions", "purge"} => r.step = "revokeOldSessions"
    /\ r.pc \in {"clear", "answer"} => r.done = StepName

\* What the steps in done achieved still holds.
Achieved(done, fam, k) ==
    /\ "createSession" \in done => fam \in live
    /\ "applyMfa" \in done => mfaEnabled = Target(k)
    /\ "revokeOldSessions" \in done => \A f \in live : claims[f] = Target(k)

\* What a request that began with a truthful document may rely on.
SoundNow(r) ==
    r.sound =>
        /\ r.pc = "reread" => /\ Truthful(progress[r.kind], r.kind)
                              /\ Readable(progress[r.kind]) => r.fam = progress[r.kind].fam
        /\ r.pc \in StepPc \cup {"clear", "answer"} => Achieved(r.done, r.fam, r.kind)
        /\ r.pc = "access" => r.pend \subseteq live
        /\ r.pc = "consumeSetup" => mfaEnabled
        /\ r.pc = "purge" => live \ r.pend \subseteq {r.fam} /\ r.fam \notin r.pend

RequestOK(r) == ClaimOK(r) /\ StepAt(r) /\ SoundNow(r)

DocsOK == \A k \in Kind : FamOK(progress[k].fam, k)

SuccessInv == TypeInv /\ DocsOK /\ \A w \in Request : RequestOK(req[w])

\* The only request of the account moves on.
LEMMA Advance ==
    ASSUME TypeInv, OneAtATime, NEW w \in Request, NEW r, Becomes(w, r),
           TypeInv', DocsOK', RequestOK(r)'
    PROVE  SuccessInv'
  <1>1. ASSUME NEW v \in Request PROVE req'[v] = r
    BY <1>1 DEF OneAtATime, Becomes, TypeInv, TypeOK
  <1>2. ASSUME NEW v \in Request PROVE RequestOK(req[v])'
    BY <1>1, <1>2 DEF RequestOK, ClaimOK, StepAt, SoundNow, FamOK, Achieved
  <1> QED BY <1>2 DEF SuccessInv

\* Outside a transition nothing is claimed.
LEMMA RestOK ==
    ASSUME NEW r, r.kind = "none", r.pc \in {"idle", "login", "setup"}, ~r.sound
    PROVE  RequestOK(r)'
  BY DEF RequestOK, ClaimOK, StepAt, SoundNow, Kind, ApplyPc

LEMMA IdleOK == RequestOK(Idle)'
  <1>1. Idle.kind = "none" /\ Idle.pc = "idle" /\ ~Idle.sound
    BY DEF Idle
  <1> QED BY <1>1, RestOK

\* Documents are disturbed by nothing that only adds a family.
LEMMA DocsStay ==
    ASSUME TypeInv, DocsOK, progress' = progress,
           \A f \in minted : claims'[f] = claims[f]
    PROVE  DocsOK'
  BY DEF DocsOK, FamOK, TypeInv, ProgressOK

\* The next step is chosen.
LEMMA ProceedOK ==
    ASSUME NEW r \in Local, r.kind \in Kind,
           FamOK(r.fam, r.kind)', FamOK(r.doc.fam, r.kind)',
           r.sound => Achieved(r.done, r.fam, r.kind)'
    PROVE  RequestOK([r EXCEPT !.pc = NextStep(r.done), !.step = NextStep(r.done)])'
  <1> DEFINE n == NextStep(r.done)
             s == [r EXCEPT !.pc = n, !.step = n]
  <1>0. r.done \in SUBSET StepName
    BY DEF Local
  <1>1. n \in StepName \cup {"clear"} /\ (n = "clear" => r.done = StepName)
    BY <1>0, NextStepType
  <1>2. /\ s.pc = n /\ s.step = n /\ s.fam = r.fam /\ s.doc = r.doc
        /\ s.kind = r.kind /\ s.done = r.done /\ s.sound = r.sound
    BY DEF Local
  <1> HIDE DEF n, s
  <1>3. ClaimOK(s)'
    BY <1>1, <1>2 DEF ClaimOK, StepName
  <1>4. StepAt(s)'
    BY <1>1, <1>2 DEF StepAt, StepName, ApplyPc
  <1>5. SoundNow(s)'
    BY <1>1, <1>2 DEF SoundNow, StepName
  <1>6. RequestOK(s)'
    BY <1>3, <1>4, <1>5 DEF RequestOK
  <1> QED BY <1>6 DEF s, n

\* A step ran and is recorded next.
LEMMA StepDoneOK ==
    ASSUME NEW r \in Local, r.kind \in Kind,
           FamOK(r.fam, r.kind)', FamOK(r.doc.fam, r.kind)',
           r.sound => Achieved(r.done \cup {r.step}, r.fam, r.kind)'
    PROVE  RequestOK([r EXCEPT !.done = @ \cup {r.step}, !.pc = "recordRead"])'
  <1> DEFINE s == [r EXCEPT !.done = @ \cup {r.step}, !.pc = "recordRead"]
  <1>2. /\ s.pc = "recordRead" /\ s.fam = r.fam /\ s.doc = r.doc
        /\ s.kind = r.kind /\ s.done = r.done \cup {r.step} /\ s.sound = r.sound
    BY DEF Local
  <1> HIDE DEF s
  <1>3. ClaimOK(s)' /\ StepAt(s)'
    BY <1>2 DEF ClaimOK, StepAt, ApplyPc
  <1>5. SoundNow(s)'
    BY <1>2 DEF SoundNow
  <1>6. RequestOK(s)'
    BY <1>3, <1>5 DEF RequestOK
  <1> QED BY <1>6 DEF s

\* Moving on within a step, with nothing the locals say disturbed.
LEMMA GotoOK ==
    ASSUME NEW r \in Local, r.kind \in Kind, NEW pc,
           pc \in (ApplyPc \ {"applyMfa"}) \cup {"answer", "compensate", "clearFailed"},
           FamOK(r.fam, r.kind)', FamOK(r.doc.fam, r.kind)',
           pc \in ApplyPc => r.step = "applyMfa" /\ r.kind = "enable",
           pc = "answer" => r.done = StepName,
           pc \in ApplyPc \cup {"answer"} /\ r.sound => Achieved(r.done, r.fam, r.kind)',
           pc = "consumeSetup" => mfaEnabled'
    PROVE  RequestOK([r EXCEPT !.pc = pc])'
  <1> DEFINE s == [r EXCEPT !.pc = pc]
  <1>2. /\ s.pc = pc /\ s.fam = r.fam /\ s.doc = r.doc /\ s.step = r.step
        /\ s.kind = r.kind /\ s.done = r.done /\ s.sound = r.sound
    BY DEF Local
  <1> HIDE DEF s
  <1>3. ClaimOK(s)' /\ StepAt(s)'
    BY <1>2 DEF ClaimOK, StepAt, ApplyPc
  <1>5. SoundNow(s)'
    BY <1>2 DEF SoundNow, ApplyPc, StepPc
  <1>6. RequestOK(s)'
    BY <1>3, <1>5 DEF RequestOK
  <1> QED BY <1>6 DEF s

\* A failed step ends the request or leads to the compensation.
LEMMA FailOK ==
    ASSUME SuccessInv, OneAtATime, NEW w \in Request, Fail(w), req[w].kind \in Kind,
           progress' = progress, claims' = claims, TypeInv'
    PROVE  SuccessInv'
  <1>1. req[w] \in Local /\ RequestOK(req[w]) /\ TypeInv /\ DocsOK
    BY DEF SuccessInv, TypeInv, TypeOK
  <1>2. DocsOK'
    BY <1>1, DocsStay
  <1>3. CASE Becomes(w, Idle)
    BY <1>1, <1>2, <1>3, IdleOK, Advance
  <1>4. CASE Goto(w, "compensate")
    <2>1. PICK q \in Local : q = req[w]
      BY <1>1
    <2>2. FamOK(q.fam, q.kind)' /\ FamOK(q.doc.fam, q.kind)'
      BY <1>1, <2>1 DEF RequestOK, ClaimOK, FamOK
    <2>3. RequestOK([q EXCEPT !.pc = "compensate"])'
      BY <2>1, <2>2, GotoOK DEF ApplyPc
    <2> QED BY <1>1, <1>2, <1>4, <2>1, <2>3, Advance DEF Goto
  <1> QED BY <1>3, <1>4 DEF Fail

\* Logins, sign-outs and the setup of MFA, around the transition.
LEMMA AroundSuccess ==
    ASSUME SuccessInv, OneAtATime, NEW w \in Request, Around(w), TypeInv'
    PROVE  SuccessInv'
  <1> USE DEF accountVars, familyVars, At
  <1>0. TypeInv /\ DocsOK
    BY DEF SuccessInv
  <1>1. CASE LoginRead(w)
    <2>1. PICK r : r = [Idle EXCEPT !.pc = "login", !.was = mfaEnabled]
      OBVIOUS
    <2>2. r.kind = "none" /\ r.pc = "login" /\ ~r.sound
      BY <2>1 DEF Idle
    <2>3. RequestOK(r)'
      BY <2>2, RestOK
    <2>4. DocsOK'
      BY <1>0, <1>1, DocsStay DEF LoginRead
    <2> QED BY <1>0, <1>1, <2>1, <2>3, <2>4, Advance DEF LoginRead
  <1>2. ASSUME NEW f \in Family, NEW delivered \in BOOLEAN, LoginCommit(w, f, delivered)
        PROVE  SuccessInv'
    <2>1. DocsOK'
      BY <1>0, <1>2, DocsStay DEF LoginCommit, TypeInv, TypeOK
    <2> QED BY <1>0, <1>2, <2>1, IdleOK, Advance DEF LoginCommit
  <1>3. ASSUME NEW gone, SignOut(w, gone) PROVE SuccessInv'
    <2>1. DocsOK'
      BY <1>0, <1>3, DocsStay DEF SignOut
    <2>2. PICK r : r = req[w]
      OBVIOUS
    <2>3. r.pc = "idle" /\ RequestOK(r)
      BY <1>3, <2>2 DEF SignOut, SuccessInv
    <2>4. RequestOK(r)'
      BY <1>3, <2>3 DEF RequestOK, ClaimOK, StepAt, SoundNow, FamOK, SignOut, StepPc, ApplyPc
    <2>5. Becomes(w, r)
      BY <1>0, <1>3, <2>2 DEF SignOut, Becomes, TypeInv, TypeOK
    <2> QED BY <1>0, <2>1, <2>4, <2>5, Advance
  <1>4. CASE SetupRead(w)
    <2>1. PICK r : r = [Idle EXCEPT !.pc = "setup"]
      OBVIOUS
    <2>2. r.kind = "none" /\ r.pc = "setup" /\ ~r.sound
      BY <2>1 DEF Idle
    <2>3. RequestOK(r)'
      BY <2>2, RestOK
    <2>4. DocsOK'
      BY <1>0, <1>4, DocsStay DEF SetupRead
    <2> QED BY <1>0, <1>4, <2>1, <2>3, <2>4, Advance DEF SetupRead
  <1>5. CASE SetupWrite(w)
    <2>1. DocsOK'
      BY <1>0, <1>5, DocsStay DEF SetupWrite
    <2> QED BY <1>0, <1>5, <2>1, IdleOK, Advance DEF SetupWrite
  <1> QED BY <1>1, <1>2, <1>3, <1>4, <1>5 DEF Around

\* The transition begins and reads what is recorded.
LEMMA StartSuccess ==
    ASSUME SuccessInv, OneAtATime, NEW w \in Request, NEW k \in Kind, NEW code \in BOOLEAN,
           Start(w, k, code), TypeInv'
    PROVE  SuccessInv'
  <1> USE DEF accountVars, familyVars, At
  <1>0. TypeInv /\ DocsOK
    BY DEF SuccessInv
  <1>1. PICK doc \in ProgressDoc : doc = progress[k]
    BY <1>0 DEF TypeInv, TypeOK
  <1>2. PICK resume \in BOOLEAN : resume = Readable(doc)
    BY Zenon DEF Readable
  <1>3. PICK sound \in BOOLEAN : sound = Truthful(doc, k)
    BY Zenon DEF Truthful
  <1>4. PICK fam : fam = IF Readable(doc) THEN doc.fam ELSE None
    OBVIOUS
  <1>5. PICK r : r = [Idle EXCEPT
                !.pc = "reread", !.kind = k, !.code = code, !.resume = resume,
                !.fam = fam, !.was = mfaEnabled, !.sound = sound]
    OBVIOUS
  <1>6. Becomes(w, r)
    BY <1>1, <1>2, <1>3, <1>4, <1>5 DEF Start
  <1>7. /\ r.pc = "reread" /\ r.kind = k /\ r.fam = fam /\ r.sound = sound
        /\ r.doc.fam = None
    BY <1>5, NoDocType DEF Idle
  <1>8. FamOK(fam, k)
    BY <1>0, <1>1, <1>4 DEF DocsOK, FamOK
  <1>9. UNCHANGED <<mfaEnabled, live, claims, progress, clock>>
    BY DEF Start
  <1>10. DocsOK'
    BY <1>0, <1>9, DocsStay
  <1>11. (ClaimOK(r) /\ StepAt(r))'
    BY <1>7, <1>8, <1>9 DEF ClaimOK, StepAt, FamOK, ApplyPc
  <1>12. SoundNow(r)
    BY <1>1, <1>3, <1>4, <1>7 DEF SoundNow, StepPc
  <1>13. SoundNow(r)'
    BY <1>7, <1>9, <1>12 DEF SoundNow, Truthful, Recorded, Readable, StepPc
  <1>14. RequestOK(r)'
    BY <1>11, <1>13 DEF RequestOK
  <1> QED BY <1>0, <1>6, <1>10, <1>14, Advance

LEMMA RereadSuccess ==
    ASSUME SuccessInv, OneAtATime, NEW w \in Request, Reread(w), TypeInv'
    PROVE  SuccessInv'
  <1> USE DEF accountVars, familyVars, At
  <1>0. TypeInv /\ DocsOK /\ req[w] \in Local /\ RequestOK(req[w]) /\ LocalOK(req[w], minted)
    BY DEF SuccessInv, TypeInv, TypeOK, LocalsOK
  <1>1. PICK q \in Local : q = req[w]
    BY <1>0
  <1>2. q.pc = "reread" /\ q.kind \in Kind
    BY <1>0, <1>1 DEF Reread, LocalOK
  <1>3. PICK done \in SUBSET StepName : done = Recorded(progress[q.kind])
    BY <1>0, <1>2 DEF Recorded, TypeInv, TypeOK, ProgressDoc
  <1>4. PICK r \in Local : r = [q EXCEPT !.done = done]
    BY DEF Local
  <1>5. r.kind = q.kind /\ r.fam = q.fam /\ r.doc = q.doc /\ r.done = done /\ r.sound = q.sound
    BY <1>4 DEF Local
  <1>6. UNCHANGED <<mfaEnabled, live, claims, progress, clock>> /\ Proceed(w, r)
    BY <1>1, <1>3, <1>4 DEF Reread
  <1>7. FamOK(r.fam, r.kind)' /\ FamOK(r.doc.fam, r.kind)'
    BY <1>0, <1>1, <1>2, <1>5, <1>6 DEF RequestOK, ClaimOK, FamOK
  <1>8. ASSUME r.sound PROVE Achieved(r.done, r.fam, r.kind)'
    <2>1. Truthful(progress[q.kind], q.kind)
      BY <1>0, <1>1, <1>2, <1>5, <1>8 DEF RequestOK, SoundNow
    <2>2. Readable(progress[q.kind]) => q.fam = progress[q.kind].fam
      BY <1>0, <1>1, <1>2, <1>5, <1>8 DEF RequestOK, SoundNow
    <2>3. "createSession" \in done => Readable(progress[q.kind])
      BY <1>3 DEF Recorded
    <2> QED BY <1>3, <1>5, <1>6, <2>1, <2>2, <2>3 DEF Truthful, Achieved
  <1>9. RequestOK([r EXCEPT !.pc = NextStep(r.done), !.step = NextStep(r.done)])'
    BY <1>2, <1>5, <1>7, <1>8, ProceedOK
  <1>10. DocsOK'
    BY <1>0, <1>6, DocsStay
  <1> QED BY <1>0, <1>6, <1>9, <1>10, Advance DEF Proceed

LEMMA CreateSuccess ==
    ASSUME SuccessInv, OneAtATime, NEW w \in Request, NEW f \in Family,
           CreateCommit(w, f) \/ CreateAccess(w, f), TypeInv'
    PROVE  SuccessInv'
  <1> USE DEF accountVars, familyVars, At
  <1>0. TypeInv /\ DocsOK /\ req[w] \in Local /\ RequestOK(req[w]) /\ LocalOK(req[w], minted)
    BY DEF SuccessInv, TypeInv, TypeOK, LocalsOK
  <1>1. PICK q \in Local : q = req[w]
    BY <1>0
  <1>2. q.pc \in {"createSession", "access"} /\ q.kind \in Kind /\ q.step = "createSession"
    <2>1. q.pc \in {"createSession", "access"}
      BY <1>1 DEF CreateCommit, CreateAccess
    <2> QED BY <1>0, <1>1, <2>1 DEF LocalOK, StepPc, RequestOK, StepAt
  <1>3. CASE CreateCommit(w, f)
    <2>1. PICK r \in Local : r = [q EXCEPT !.pc = "access", !.pend = {f}]
      BY DEF Local, Pc
    <2>2. /\ r.pc = "access" /\ r.pend = {f} /\ r.kind = q.kind /\ r.fam = q.fam
          /\ r.doc = q.doc /\ r.done = q.done /\ r.sound = q.sound /\ r.step = q.step
      BY <2>1 DEF Local
    <2>3. /\ f \notin minted /\ live' = live \cup {f} /\ progress' = progress
          /\ mfaEnabled' = mfaEnabled /\ Becomes(w, r)
          /\ claims' = [claims EXCEPT ![f] = Target(q.kind)]
      BY <1>1, <1>3, <2>1 DEF CreateCommit
    <2>4. claims'[f] = Target(q.kind) /\ \A g \in minted : claims'[g] = claims[g]
      BY <1>0, <2>3 DEF TypeInv, TypeOK
    <2>5. DocsOK'
      BY <1>0, <2>3, <2>4, DocsStay
    <2>6. ClaimOK(r)'
      BY <1>0, <1>1, <1>2, <2>2, <2>4 DEF ClaimOK, FamOK, RequestOK, LocalOK
    <2>7. StepAt(r)'
      BY <1>2, <2>2 DEF StepAt, ApplyPc
    <2>8. ASSUME r.sound PROVE Achieved(r.done, r.fam, r.kind)'
      <3>1. Achieved(q.done, q.fam, q.kind)
        <4>1. q.pc \in StepPc
          BY <1>2 DEF StepPc
        <4> QED BY <1>0, <1>1, <2>2, <2>8, <4>1 DEF RequestOK, SoundNow
      <3>2. \A g \in live : g \in minted
        BY <1>0 DEF TypeInv, TypeOK
      <3> QED BY <2>2, <2>3, <2>4, <3>1, <3>2 DEF Achieved
    <2>9. SoundNow(r)'
      BY <2>2, <2>3, <2>8 DEF SoundNow
    <2>10. RequestOK(r)'
      BY <2>6, <2>7, <2>9 DEF RequestOK
    <2> QED BY <1>0, <2>3, <2>5, <2>10, Advance
  <1>4. CASE CreateAccess(w, f)
    <2>1. PICK r \in Local : r = [q EXCEPT !.fam = f, !.pend = {}]
      BY DEF Local
    <2>2. /\ r.kind = q.kind /\ r.fam = f
          /\ r.doc = q.doc /\ r.done = q.done /\ r.sound = q.sound /\ r.step = q.step
      BY <2>1 DEF Local
    <2>3. /\ q.pc = "access" /\ f \in q.pend /\ StepDone(w, r)
          /\ UNCHANGED <<mfaEnabled, live, claims, progress>>
      BY <1>1, <1>4, <2>1 DEF CreateAccess
    <2>4. FamOK(r.fam, r.kind)' /\ FamOK(r.doc.fam, r.kind)'
      BY <1>0, <1>1, <1>2, <2>2, <2>3 DEF RequestOK, ClaimOK, FamOK
    <2>5. ASSUME r.sound PROVE Achieved(r.done \cup {r.step}, r.fam, r.kind)'
      <3>1. q.pc \in StepPc
        BY <2>3 DEF StepPc
      <3>2. Achieved(q.done, q.fam, q.kind) /\ q.pend \subseteq live
        BY <1>0, <1>1, <2>2, <2>3, <2>5, <3>1 DEF RequestOK, SoundNow
      <3> QED BY <1>2, <2>2, <2>3, <3>2 DEF Achieved
    <2>6. RequestOK([r EXCEPT !.done = @ \cup {r.step}, !.pc = "recordRead"])'
      BY <1>2, <2>2, <2>4, <2>5, StepDoneOK
    <2>7. DocsOK'
      BY <1>0, <2>3, DocsStay
    <2> QED BY <1>0, <2>3, <2>6, <2>7, Advance DEF StepDone
  <1> QED BY <1>3, <1>4

\* The change itself.
LEMMA ApplySuccess ==
    ASSUME SuccessInv, OneAtATime, NEW w \in Request, Apply(w), TypeInv'
    PROVE  SuccessInv'
  <1> USE DEF accountVars, familyVars, At
  <1>0. TypeInv /\ DocsOK /\ req[w] \in Local /\ RequestOK(req[w]) /\ LocalOK(req[w], minted)
    BY DEF SuccessInv, TypeInv, TypeOK, LocalsOK
  <1>1. PICK q \in Local : q = req[w]
    BY <1>0
  <1>2. q.pc \in ApplyPc /\ (q.pc = "applyMfa" \/ q.kind = "enable")
    <2>1. q.pc \in ApplyPc
      BY <1>1 DEF Apply, EnableRead, EnableVerify, ReadSetup, DropSetup, EnableCommit,
           ConsumeSetup, DisableCommit, ApplyPc
    <2> QED BY <1>0, <1>1, <2>1 DEF RequestOK, StepAt
  <1>3. q.kind \in Kind /\ q.step = "applyMfa" /\ q.pc \in StepPc
    <2>1. q.pc \in StepPc /\ q.step = "applyMfa"
      BY <1>0, <1>1, <1>2 DEF RequestOK, StepAt, ApplyPc, StepPc
    <2> QED BY <1>0, <1>1, <2>1 DEF LocalOK
  <1>4. live' = live /\ claims' = claims /\ progress' = progress /\ clock' = clock
    BY DEF Apply, EnableRead, EnableVerify, ReadSetup, DropSetup, EnableCommit,
         ConsumeSetup, DisableCommit
  <1>5. DocsOK'
    BY <1>0, <1>4, DocsStay
  <1>6. FamOK(q.fam, q.kind)' /\ FamOK(q.doc.fam, q.kind)'
    BY <1>0, <1>1, <1>3, <1>4 DEF RequestOK, ClaimOK, FamOK
  <1>7. q.sound => Achieved(q.done, q.fam, q.kind)
    BY <1>0, <1>1, <1>3 DEF RequestOK, SoundNow
  <1>8. ASSUME Fail(w) PROVE SuccessInv'
    BY <1>1, <1>3, <1>4, <1>8, FailOK
  <1>9. ASSUME NEW pc \in ApplyPc \ {"applyMfa"}, Goto(w, pc), q.kind = "enable",
               mfaEnabled' = mfaEnabled \/ mfaEnabled' = TRUE,
               pc = "consumeSetup" => mfaEnabled'
        PROVE  SuccessInv'
    <2>1. q.sound => Achieved(q.done, q.fam, q.kind)'
      BY <1>4, <1>7, <1>9 DEF Achieved, Target
    <2>2. RequestOK([q EXCEPT !.pc = pc])'
      BY <1>3, <1>6, <1>9, <2>1, GotoOK DEF ApplyPc
    <2> QED BY <1>0, <1>1, <1>5, <1>9, <2>2, Advance DEF Goto
  <1>10. ASSUME StepDone(w, q), mfaEnabled' = Target(q.kind) PROVE SuccessInv'
    <2>1. q.sound => Achieved(q.done \cup {q.step}, q.fam, q.kind)'
      BY <1>3, <1>4, <1>7, <1>10 DEF Achieved
    <2>2. RequestOK([q EXCEPT !.done = @ \cup {q.step}, !.pc = "recordRead"])'
      BY <1>3, <1>6, <2>1, StepDoneOK
    <2> QED BY <1>0, <1>5, <1>10, <2>2, Advance DEF StepDone
  <1>11. CASE EnableRead(w)
    <2>1. PICK pc \in {"verify", "readSetup"} : Goto(w, pc)
      BY <1>11 DEF EnableRead
    <2> QED BY <1>1, <1>9, <1>11, <2>1 DEF EnableRead, ApplyPc
  <1>12. CASE EnableVerify(w)
    <2>1. CASE Fail(w)
      BY <1>8, <2>1
    <2>2. CASE mfaEnabled /\ StepDone(w, q)
      <3>1. mfaEnabled' = mfaEnabled /\ mfaEnabled \in BOOLEAN /\ q.kind = "enable"
        BY <1>0, <1>1, <1>2, <1>12 DEF EnableVerify, TypeInv, TypeOK
      <3> QED BY <1>10, <2>2, <3>1 DEF Target
    <2> QED BY <1>1, <1>12, <2>1, <2>2 DEF EnableVerify
  <1>13. CASE ReadSetup(w)
    <2>1. Fail(w) \/ Goto(w, "dropSetup") \/ Goto(w, "enableCommit")
      BY <1>13 DEF ReadSetup
    <2>2. q.kind = "enable" /\ mfaEnabled' = mfaEnabled
      BY <1>1, <1>2, <1>13 DEF ReadSetup
    <2> QED BY <1>8, <1>9, <2>1, <2>2 DEF ApplyPc
  <1>14. CASE DropSetup(w)
    BY <1>8, <1>14 DEF DropSetup
  <1>15. CASE EnableCommit(w)
    <2>1. q.kind = "enable"
      BY <1>1, <1>2, <1>15 DEF EnableCommit
    <2> QED BY <1>9, <1>15, <2>1 DEF EnableCommit, ApplyPc
  <1>16. CASE ConsumeSetup(w)
    <2>1. q.kind = "enable" /\ q.pc = "consumeSetup"
      BY <1>1, <1>2, <1>16 DEF ConsumeSetup
    <2>2. CASE q.sound
      <3>1. mfaEnabled' = mfaEnabled /\ mfaEnabled /\ mfaEnabled \in BOOLEAN
        BY <1>0, <1>1, <1>16, <2>1, <2>2 DEF ConsumeSetup, RequestOK, SoundNow, TypeInv, TypeOK
      <3> QED BY <1>1, <1>10, <1>16, <2>1, <3>1 DEF ConsumeSetup, Target
    <2>3. CASE ~q.sound
      <3>1. RequestOK([q EXCEPT !.done = @ \cup {q.step}, !.pc = "recordRead"])'
        BY <1>3, <1>6, <2>3, StepDoneOK
      <3> QED BY <1>0, <1>1, <1>5, <1>16, <3>1, Advance DEF StepDone, ConsumeSetup
    <2> QED BY <2>2, <2>3
  <1>17. CASE DisableCommit(w)
    BY <1>1, <1>10, <1>17 DEF DisableCommit, Target
  <1> QED BY <1>11, <1>12, <1>13, <1>14, <1>15, <1>16, <1>17 DEF Apply

\* The old sessions are swept.
LEMMA RevokeSuccess ==
    ASSUME SuccessInv, OneAtATime, NEW w \in Request, RevokeQuery(w) \/ RevokePurge(w), TypeInv'
    PROVE  SuccessInv'
  <1> USE DEF accountVars, familyVars, At
  <1>0. TypeInv /\ DocsOK /\ req[w] \in Local /\ RequestOK(req[w]) /\ LocalOK(req[w], minted)
    BY DEF SuccessInv, TypeInv, TypeOK, LocalsOK
  <1>1. PICK q \in Local : q = req[w]
    BY <1>0
  <1>2. q.pc \in {"revokeOldSessions", "purge"} /\ q.pc \in StepPc
    BY <1>1 DEF RevokeQuery, RevokePurge, StepPc
  <1>3. q.kind \in Kind /\ q.step = "revokeOldSessions"
    BY <1>0, <1>1, <1>2 DEF LocalOK, RequestOK, StepAt
  <1>4. mfaEnabled' = mfaEnabled /\ claims' = claims /\ progress' = progress
    BY DEF RevokeQuery, RevokePurge
  <1>5. DocsOK'
    BY <1>0, <1>4, DocsStay
  <1>6. FamOK(q.fam, q.kind)' /\ FamOK(q.doc.fam, q.kind)'
    BY <1>0, <1>1, <1>3, <1>4 DEF RequestOK, ClaimOK, FamOK
  <1>7. q.sound => Achieved(q.done, q.fam, q.kind)
    BY <1>0, <1>1, <1>2 DEF RequestOK, SoundNow
  <1>8. CASE RevokeQuery(w)
    <2>1. CASE Fail(w)
      BY <1>1, <1>3, <1>4, <2>1, FailOK
    <2>2. CASE Becomes(w, [q EXCEPT !.pc = "purge", !.pend = OldFamilies(w)])
      <3>1. PICK old \in SUBSET Family : old = live \ {q.fam}
        BY <1>0 DEF TypeInv, TypeOK
      <3>2. PICK r \in Local : r = [q EXCEPT !.pc = "purge", !.pend = old]
        BY DEF Local, Pc
      <3>3. /\ r.pc = "purge" /\ r.pend = old /\ r.kind = q.kind /\ r.fam = q.fam
            /\ r.doc = q.doc /\ r.done = q.done /\ r.sound = q.sound /\ r.step = q.step
        BY <3>2 DEF Local
      <3>4. ClaimOK(r)' /\ StepAt(r)'
        BY <1>3, <1>6, <3>3 DEF ClaimOK, StepAt, ApplyPc
      <3>5. live' = live
        BY <1>8 DEF RevokeQuery
      <3>6. r.sound => Achieved(r.done, r.fam, r.kind)'
        BY <1>4, <1>7, <3>3, <3>5 DEF Achieved
      <3>7. SoundNow(r)'
        BY <3>1, <3>3, <3>5, <3>6 DEF SoundNow
      <3>8. RequestOK(r)'
        BY <3>4, <3>7 DEF RequestOK
      <3> QED BY <1>0, <1>1, <1>5, <2>2, <3>1, <3>2, <3>8, Advance DEF OldFamilies
    <2> QED BY <1>1, <1>8, <2>1, <2>2 DEF RevokeQuery
  <1>9. CASE RevokePurge(w)
    <2>1. PICK r \in Local : r = [q EXCEPT !.pend = {}]
      BY DEF Local
    <2>2. /\ r.kind = q.kind /\ r.fam = q.fam
          /\ r.doc = q.doc /\ r.done = q.done /\ r.sound = q.sound /\ r.step = q.step
      BY <2>1 DEF Local
    <2>3. q.pc = "purge" /\ live' = live \ q.pend /\ StepDone(w, r)
      BY <1>1, <1>9, <2>1 DEF RevokePurge
    <2>4. ASSUME r.sound PROVE Achieved(r.done \cup {r.step}, r.fam, r.kind)'
      <3>1. live \ q.pend \subseteq {q.fam} /\ q.fam \notin q.pend
        BY <1>0, <1>1, <2>2, <2>3, <2>4 DEF RequestOK, SoundNow
      <3>2. \A f \in live' : claims'[f] = Target(q.kind)
        <4>1. TAKE f \in live'
        <4>2. f = q.fam /\ f # None
          BY <1>0, <2>3, <3>1, <4>1, NoneAssumption DEF TypeInv, TypeOK
        <4> QED BY <1>6, <4>2 DEF FamOK
      <3> QED BY <1>3, <1>4, <1>7, <2>2, <2>3, <2>4, <3>1, <3>2 DEF Achieved
    <2>5. RequestOK([r EXCEPT !.done = @ \cup {r.step}, !.pc = "recordRead"])'
      BY <1>3, <1>6, <2>2, <2>4, StepDoneOK
    <2> QED BY <1>0, <1>5, <2>3, <2>5, Advance DEF StepDone
  <1> QED BY <1>8, <1>9

\* The step is recorded.
LEMMA RecordSuccess ==
    ASSUME SuccessInv, OneAtATime, NEW w \in Request, RecordRead(w) \/ RecordWrite(w), TypeInv'
    PROVE  SuccessInv'
  <1> USE DEF accountVars, familyVars, At
  <1>0. TypeInv /\ DocsOK /\ req[w] \in Local /\ RequestOK(req[w]) /\ LocalOK(req[w], minted)
    BY DEF SuccessInv, TypeInv, TypeOK, LocalsOK
  <1>1. PICK q \in Local : q = req[w]
    BY <1>0
  <1>2. q.pc \in StepPc
    BY <1>1 DEF RecordRead, RecordWrite, StepPc
  <1>3. q.kind \in Kind
    BY <1>0, <1>1, <1>2 DEF LocalOK
  <1>4. mfaEnabled' = mfaEnabled /\ claims' = claims /\ live' = live
    BY DEF RecordRead, RecordWrite
  <1>5. FamOK(q.fam, q.kind)' /\ FamOK(q.doc.fam, q.kind)'
    BY <1>0, <1>1, <1>3, <1>4 DEF RequestOK, ClaimOK, FamOK
  <1>6. q.sound => Achieved(q.done, q.fam, q.kind)'
    BY <1>0, <1>1, <1>2, <1>4 DEF RequestOK, SoundNow, Achieved
  <1>7. CASE RecordRead(w)
    <2>1. PICK doc \in ProgressDoc : doc = progress[q.kind]
      BY <1>0, <1>3 DEF TypeInv, TypeOK
    <2>2. PICK r \in Local : r = [q EXCEPT !.pc = "recordWrite", !.doc = doc]
      BY DEF Local, Pc
    <2>3. /\ r.pc = "recordWrite" /\ r.doc = doc /\ r.kind = q.kind /\ r.fam = q.fam
          /\ r.done = q.done /\ r.sound = q.sound
      BY <2>2 DEF Local
    <2>4. FamOK(doc.fam, q.kind)'
      BY <1>0, <1>3, <1>4, <2>1 DEF DocsOK, FamOK
    <2>5. RequestOK(r)'
      BY <1>5, <1>6, <2>3, <2>4 DEF RequestOK, ClaimOK, StepAt, SoundNow, ApplyPc
    <2>6. DocsOK' /\ Becomes(w, r)
      BY <1>0, <1>1, <1>7, <2>1, <2>2, DocsStay DEF RecordRead
    <2> QED BY <1>0, <2>5, <2>6, Advance
  <1>8. CASE RecordWrite(w)
    <2>1. PICK d : d = [exists |-> TRUE, steps |-> q.doc.steps \cup {q.step},
                fam |-> IF q.step = "createSession" THEN q.fam ELSE q.doc.fam,
                expiresAt |-> IF q.doc.exists THEN q.doc.expiresAt
                                              ELSE clock + ProgressLife]
      OBVIOUS
    <2>2. d.fam \in {q.fam, q.doc.fam}
      BY <2>1
    <2>3. progress' = [progress EXCEPT ![q.kind] = d]
      BY <1>1, <1>8, <2>1 DEF RecordWrite
    <2>4. ASSUME NEW k \in Kind PROVE FamOK(progress[k].fam, k)'
      <3>1. CASE k = q.kind
        <4>1. progress'[k] = d
          BY <1>0, <2>3, <3>1 DEF TypeInv, TypeOK
        <4> QED BY <1>5, <2>2, <3>1, <4>1 DEF FamOK
      <3>2. CASE k # q.kind
        <4>1. progress'[k] = progress[k]
          BY <1>0, <2>3, <3>2 DEF TypeInv, TypeOK
        <4> QED BY <1>0, <1>4, <4>1 DEF FamOK, DocsOK
      <3> QED BY <3>1, <3>2
    <2>5. DocsOK'
      BY <2>4 DEF DocsOK
    <2>6. PICK r \in Local : r = [q EXCEPT !.doc = NoDoc]
      BY NoDocType DEF Local
    <2>7. r.kind = q.kind /\ r.fam = q.fam /\ r.done = q.done /\ r.sound = q.sound
          /\ r.doc = NoDoc
      BY <2>6 DEF Local
    <2>8. FamOK(r.doc.fam, r.kind)'
      BY <2>7, NoDocType DEF FamOK
    <2>9. RequestOK([r EXCEPT !.pc = NextStep(r.done), !.step = NextStep(r.done)])'
      BY <1>3, <1>5, <1>6, <2>7, <2>8, ProceedOK
    <2>10. Proceed(w, r)
      BY <1>1, <1>8, <2>6 DEF RecordWrite
    <2> QED BY <1>0, <2>5, <2>9, <2>10, Advance DEF Proceed
  <1> QED BY <1>7, <1>8

\* The ends of a transition, good and bad.
LEMMA EndSuccess ==
    ASSUME SuccessInv, OneAtATime, NEW w \in Request,
           \/ \E ok \in BOOLEAN : Clear(w, ok)
           \/ \E delivered \in BOOLEAN : Answer(w, delivered)
           \/ Compensate(w)
           \/ ClearFailed(w)
           \/ StepFails(w)
           \/ Abort(w),
           TypeInv'
    PROVE  SuccessInv'
  <1> USE DEF accountVars, familyVars, At
  <1>0. TypeInv /\ DocsOK /\ req[w] \in Local /\ RequestOK(req[w]) /\ LocalOK(req[w], minted)
    BY DEF SuccessInv, TypeInv, TypeOK, LocalsOK
  <1>1. PICK q \in Local : q = req[w]
    BY <1>0
  <1>2. claims' = claims /\ mfaEnabled' = mfaEnabled
    BY DEF Clear, Answer, Compensate, ClearFailed, StepFails, Abort
  <1>3. ASSUME NEW k \in Kind, progress' = [progress EXCEPT ![k] = NoDoc] PROVE DocsOK'
    <2>1. ASSUME NEW j \in Kind PROVE FamOK(progress[j].fam, j)'
      <3>1. progress'[j] = NoDoc \/ progress'[j] = progress[j]
        BY <1>0, <1>3 DEF TypeInv, TypeOK
      <3> QED BY <1>0, <1>2, <3>1, NoDocType DEF FamOK, DocsOK
    <2> QED BY <2>1 DEF DocsOK
  <1>4. ASSUME q.kind \in Kind PROVE FamOK(q.fam, q.kind)' /\ FamOK(q.doc.fam, q.kind)'
    BY <1>0, <1>1, <1>2, <1>4 DEF RequestOK, ClaimOK, FamOK
  <1>5. ASSUME NEW ok \in BOOLEAN, Clear(w, ok) PROVE SuccessInv'
    <2>1. q.pc = "clear" /\ live' = live /\ Goto(w, "answer")
      BY <1>1, <1>5 DEF Clear
    <2>2. q.kind \in Kind /\ q.done = StepName
      BY <1>0, <1>1, <2>1 DEF LocalOK, RequestOK, StepAt
    <2>3. q.sound => Achieved(q.done, q.fam, q.kind)'
      BY <1>0, <1>1, <1>2, <2>1 DEF RequestOK, SoundNow, Achieved
    <2>4. RequestOK([q EXCEPT !.pc = "answer"])'
      BY <1>4, <2>2, <2>3, GotoOK DEF ApplyPc
    <2>5. progress' = progress \/ progress' = [progress EXCEPT ![q.kind] = NoDoc]
      BY <1>1, <1>5 DEF Clear
    <2>6. DocsOK'
      BY <1>0, <1>2, <1>3, <2>2, <2>5, DocsStay
    <2> QED BY <1>0, <1>1, <2>1, <2>4, <2>6, Advance DEF Goto
  <1>6. ASSUME NEW delivered \in BOOLEAN, Answer(w, delivered) PROVE SuccessInv'
    <2>1. DocsOK'
      BY <1>0, <1>6, DocsStay DEF Answer
    <2> QED BY <1>0, <1>6, <2>1, IdleOK, Advance DEF Answer
  <1>7. CASE Compensate(w)
    <2>1. q.kind \in Kind
      BY <1>0, <1>1, <1>7 DEF LocalOK, Compensate
    <2>2. RequestOK([q EXCEPT !.pc = "clearFailed"])'
      BY <1>4, <2>1, GotoOK DEF ApplyPc
    <2>3. DocsOK'
      BY <1>0, <1>7, DocsStay DEF Compensate
    <2> QED BY <1>0, <1>1, <1>7, <2>2, <2>3, Advance DEF Compensate, Goto
  <1>8. CASE ClearFailed(w)
    <2>1. q.kind \in Kind
      BY <1>0, <1>1, <1>8 DEF LocalOK, ClearFailed
    <2>2. DocsOK'
      BY <1>1, <1>3, <1>8, <2>1 DEF ClearFailed
    <2> QED BY <1>0, <1>8, <2>2, IdleOK, Advance DEF ClearFailed
  <1>9. CASE StepFails(w)
    <2>1. req[w].kind \in Kind
      BY <1>0, <1>9 DEF LocalOK, StepFails
    <2> QED BY <1>9, <2>1, FailOK DEF StepFails
  <1>10. CASE Abort(w)
    <2>1. DocsOK'
      BY <1>0, <1>10, DocsStay DEF Abort
    <2> QED BY <1>0, <1>10, <2>1, IdleOK, Advance DEF Abort
  <1> QED BY <1>5, <1>6, <1>7, <1>8, <1>9, <1>10

\* Time and the cleanup of the setup document take nothing back: a document
\* that expires no longer says anything.
LEMMA ElsewhereSuccess ==
    ASSUME SuccessInv, Tick \/ CleanupSetup \/ UNCHANGED vars, TypeInv'
    PROVE  SuccessInv'
  <1> USE DEF accountVars, familyVars
  <1>1. UNCHANGED <<mfaEnabled, live, claims, progress, req>>
    BY DEF Tick, CleanupSetup, vars
  <1>2. ASSUME NEW k \in Kind
        PROVE  /\ Readable(progress[k])' => Readable(progress[k])
               /\ Truthful(progress[k], k) => Truthful(progress[k], k)'
    <2>1. progress[k] \in ProgressDoc /\ clock \in Nat
      BY DEF SuccessInv, TypeInv, TypeOK
    <2>2. progress[k].expiresAt \in Nat
      BY <2>1 DEF ProgressDoc
    <2>3. clock' = clock \/ clock' = clock + 1
      BY DEF Tick, CleanupSetup, vars
    <2>4. \A e, c \in Nat : e > c + 1 => e > c
      OBVIOUS
    <2>5. Readable(progress[k])' => Readable(progress[k])
      BY <1>1, <2>1, <2>2, <2>3, <2>4 DEF Readable
    <2>6. Recorded(progress[k])' \subseteq Recorded(progress[k])
      BY <1>1, <2>5 DEF Recorded
    <2> QED BY <1>1, <2>5, <2>6 DEF Truthful
  <1>3. DocsOK'
    BY <1>1 DEF SuccessInv, DocsOK, FamOK
  <1>4. ASSUME NEW v \in Request PROVE RequestOK(req[v])'
    <2>1. PICK q : q = req[v]
      OBVIOUS
    <2>2. RequestOK(q) /\ LocalOK(q, minted)
      BY <2>1 DEF SuccessInv, TypeInv, LocalsOK
    <2>3. ClaimOK(q)' /\ StepAt(q)'
      BY <1>1, <2>2 DEF RequestOK, ClaimOK, StepAt, FamOK
    <2>4. q.pc = "reread" => q.kind \in Kind
      BY <2>2 DEF LocalOK
    <2>5. SoundNow(q)
      BY <2>2 DEF RequestOK
    <2>6. \A done, fam, k : Achieved(done, fam, k) => Achieved(done, fam, k)'
      BY <1>1 DEF Achieved
    <2>7. SoundNow(q)'
      <3> SUFFICES ASSUME q.sound PROVE SoundNow(q)'
        BY DEF SoundNow
      <3>1. q.pc = "reread" => /\ Truthful(progress[q.kind], q.kind)'
                               /\ (Readable(progress[q.kind]) => q.fam = progress[q.kind].fam)'
        BY <1>1, <1>2, <2>4, <2>5 DEF SoundNow
      <3> QED BY <1>1, <2>5, <2>6, <3>1 DEF SoundNow
    <2>8. RequestOK(q)'
      BY <2>3, <2>7 DEF RequestOK
    <2>9. req'[v] = q
      BY <1>1, <2>1
    <2> QED BY <2>8, <2>9 DEF RequestOK, ClaimOK, StepAt, SoundNow, FamOK, Achieved
  <1> QED BY <1>3, <1>4 DEF SuccessInv

LEMMA SuccessInductive ==
    ASSUME SuccessInv, OneAtATime, [Next]_vars
    PROVE  SuccessInv'
  <1>1. TypeInv'
    BY NextType DEF SuccessInv
  <1>2. CASE Tick \/ CleanupSetup \/ UNCHANGED vars
    BY <1>1, <1>2, ElsewhereSuccess
  <1>3. ASSUME NEW w \in Request, Around(w) PROVE SuccessInv'
    BY <1>1, <1>3, AroundSuccess
  <1>4. ASSUME NEW w \in Request, Transition(w) PROVE SuccessInv'
    BY <1>1, <1>4, StartSuccess, RereadSuccess, CreateSuccess, ApplySuccess, RevokeSuccess,
       RecordSuccess, EndSuccess DEF Transition
  <1> QED BY <1>2, <1>3, <1>4 DEF Next

LEMMA SuccessInit == Init => SuccessInv
  <1> SUFFICES ASSUME Init PROVE SuccessInv
    OBVIOUS
  <1>1. TypeInv
    BY InitType
  <1>2. DocsOK
    BY NoDocType DEF Init, DocsOK, FamOK
  <1>3. ASSUME NEW w \in Request PROVE RequestOK(req[w])
    BY DEF Init, Idle, RequestOK, ClaimOK, StepAt, SoundNow, Kind, ApplyPc
  <1> QED BY <1>1, <1>2, <1>3 DEF SuccessInv

\* For an account whose requests do not overlap: a transition that answers
\* success has switched MFA, hands out a session that is alive, and leaves no
\* session that carries the old state, however many attempts failed, crashed or
\* expired before it, unless it resumed a progress document that no longer told
\* the truth when it began (MfaSessionService.runTransition).
THEOREM SuccessCorrect ==
    ASSUME OneAtATime
    PROVE  Spec => []SuccessIsApplied
  <1>1. SuccessInv /\ [Next]_vars => SuccessInv'
    BY SuccessInductive
  <1>2. Spec => []SuccessInv
    BY <1>1, SuccessInit, PTL DEF Spec
  <1>3. SuccessInv => SuccessIsApplied
    <2> SUFFICES ASSUME SuccessInv, NEW w \in Request, req[w].pc = "answer",
                        req[w].fam # None, req[w].sound
                 PROVE  /\ mfaEnabled = Target(req[w].kind)
                        /\ req[w].fam \in live
                        /\ \A f \in live : claims[f] = mfaEnabled
      BY DEF SuccessIsApplied, At
    <2>1. req[w].done = StepName /\ Achieved(req[w].done, req[w].fam, req[w].kind)
      BY DEF SuccessInv, RequestOK, StepAt, SoundNow
    <2> QED BY <2>1 DEF Achieved, StepName
  <1> QED BY <1>2, <1>3, PTL
====

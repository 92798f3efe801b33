----------------------------- MODULE PushTokens -----------------------------
(***************************************************************************)
(* The push-token registry of the API server                               *)
(* (src/apps/server/src/features/notification).  A registration lives in   *)
(* three trees of the Realtime Database: who holds a token, what a device  *)
(* holds, and the devices of a user.  A registration writes all three at   *)
(* once, but everything around the write - the reads before it, and the    *)
(* conditional removals of what it replaces - are calls of their own, some *)
(* of them concurrent.  A removal takes an entry away only if it still     *)
(* reads as expected.                                                      *)
(***************************************************************************)
EXTENDS Naturals, Sequences, FiniteSets, SequencesExt

CONSTANTS
    Account,    \* user ids
    Device,     \* device ids
    PushToken,  \* Expo push tokens
    Worker,     \* requests that may be in progress at once
    Nobody,     \* "no entry", "no value read"
    MaxRequests \* bound: requests in one behaviour

\* Nothing is no user, device or token, and no entry of a tree.
ASSUME PushAssumption ==
    /\ Nobody \notin Account \cup Device \cup PushToken
    /\ Nobody \notin (Account \X Device) \cup (Account \X PushToken)
    /\ MaxRequests \in Nat

VARIABLES
    tokenOf,   \* pushTokens/{token}: <<user, device>> or Nobody
    deviceOf,  \* devicePushTokens/{device}: <<user, token>> or Nobody
    indexOf,   \* userPushDevices/{user}/{device}: token or Nobody
    worker,    \* the local variables of every request
    requests,  \* how many there were
    latest,    \* history: device -> <<user, token>> it registered last, unless replaced or given up
    twice      \* history: a registration was made while a removal of the same one was under way

trees    == <<tokenOf, deviceOf, indexOf>>
pushVars == <<trees, worker, requests, latest, twice>>

Job == {"idle", "save", "clean", "delete", "drop", "notify", "check"}

IdleWorker == [job |-> "idle", user |-> Nobody, device |-> Nobody, token |-> Nobody,
               dev |-> Nobody, tok |-> Nobody, chains |-> {}, left |-> {}]

\* A call to the database: what it does, and the entry it is about.
Call(op, u, d, t) == [op |-> op, user |-> u, device |-> d, token |-> t]

\* The entries of a registration, removed by three concurrent calls.
Removals(u, d, t) ==
    {<<Call("rmToken", u, d, t)>>, <<Call("rmDevice", u, d, t)>>, <<Call("rmIndex", u, d, t)>>}

Current(u, d, t) ==
    tokenOf[t] = <<u, d>> /\ deviceOf[d] = <<u, t>> /\ indexOf[u][d] = t

PushInit ==
    /\ tokenOf = [t \in PushToken |-> Nobody] /\ deviceOf = [d \in Device |-> Nobody]
    /\ indexOf = [u \in Account |-> [d \in Device |-> Nobody]]
    /\ worker = [w \in Worker |-> IdleWorker]
    /\ latest = [d \in Device |-> Nobody] /\ twice = FALSE
    /\ requests = 0

Starts(w, job, u, d, t, chains) ==
    /\ worker[w].job = "idle" /\ requests < MaxRequests
    /\ requests' = requests + 1
    /\ worker' = [worker EXCEPT ![w] = [IdleWorker EXCEPT !.job = job, !.user = u,
                                        !.device = d, !.token = t, !.chains = chains]]

-----------------------------------------------------------------------------
(* One call of a request; the first calls of its chains run concurrently.  *)

\* What is left of the chains of a request once a call of it was made.
Remaining(w, chain) ==
    (worker[w].chains \ {chain}) \cup (IF Len(chain) = 1 THEN {} ELSE {Tail(chain)})

\* The transaction of a removal keeps an entry that is not the expected one.
\* Mutant: it removes whatever is there.
Regardless(entry, expected) == Nobody
Without(entry, expected) == IF entry = expected THEN Nobody ELSE entry

RemoveCall(w, chain) ==
    LET c == chain[1] IN
    /\ \/ /\ c.op = "rmToken"
          /\ tokenOf' = [tokenOf EXCEPT ![c.token] = Without(@, <<c.user, c.device>>)]
          /\ UNCHANGED <<deviceOf, indexOf>>
       \/ /\ c.op = "rmDevice"
          /\ deviceOf' = [deviceOf EXCEPT ![c.device] = Without(@, <<c.user, c.token>>)]
          /\ UNCHANGED <<tokenOf, indexOf>>
       \/ /\ c.op = "rmIndex"
          /\ indexOf' = [indexOf EXCEPT ![c.user][c.device] = Without(@, c.token)]
          /\ UNCHANGED <<tokenOf, deviceOf>>
    /\ worker' = [worker EXCEPT ![w].chains = Remaining(w, chain)]

ReadCall(w, chain) ==
    LET c == chain[1] IN
    /\ \/ /\ c.op = "getDevice"
          /\ worker' = [worker EXCEPT ![w].dev = deviceOf[c.device], ![w].chains = Remaining(w, chain)]
       \/ /\ c.op = "getToken"
          /\ worker' = [worker EXCEPT ![w].tok = tokenOf[c.token], ![w].chains = Remaining(w, chain)]
    /\ UNCHANGED trees

\* The deletion of a user looks at the device, then at the index of the user,
\* and removes the token it found first.
ProbeCall(w, chain) ==
    LET c     == chain[1]
        owner == deviceOf[c.device]
        token == IF c.token # Nobody THEN c.token ELSE indexOf[c.user][c.device]
        next  == IF c.op = "probeDevice"
                 THEN {<<Call("probeIndex", c.user, c.device,
                              IF owner # Nobody /\ owner[1] = c.user THEN owner[2] ELSE Nobody)>>}
                 ELSE IF token = Nobody THEN {} ELSE Removals(c.user, c.device, token)
    IN  /\ c.op \in {"probeDevice", "probeIndex"}
        /\ worker' = [worker EXCEPT ![w].chains = Remaining(w, chain) \cup next]
        /\ UNCHANGED trees

DatabaseCall(w) ==
    \E chain \in worker[w].chains :
        /\ RemoveCall(w, chain) \/ ReadCall(w, chain) \/ ProbeCall(w, chain)
        /\ UNCHANGED <<requests, latest, twice>>

-----------------------------------------------------------------------------
(* POST /user/save-push-token                                              *)

Save(w, u, d, t) ==
    /\ Starts(w, "save", u, d, t,
              {<<Call("getDevice", u, d, t)>>, <<Call("getToken", u, d, t)>>})
    /\ UNCHANGED <<trees, latest, twice>>

\* What the device held before, and who held the token before, one chain each:
\* the first removes token and index one after the other, the second both at once.
PreviousDevice(w) ==
    LET x == worker[w]
        removeToken == Call("rmToken", x.dev[1], x.device, x.dev[2])
        removeIndex == Call("rmIndex", x.dev[1], x.device, x.dev[2])
    IN  IF x.dev = Nobody THEN {}
        ELSE {(IF x.dev[2] # x.token THEN <<removeToken>> ELSE <<>>)
              \o (IF x.dev[1] # x.user THEN <<removeIndex>> ELSE <<>>)} \ {<<>>}

PreviousToken(w) ==
    LET x == worker[w] IN
    IF x.tok = Nobody \/ x.tok = <<x.user, x.device>> THEN {}
    ELSE {<<Call("rmDevice", x.tok[1], x.tok[2], x.token)>>,
          <<Call("rmIndex", x.tok[1], x.tok[2], x.token)>>}

\* Another request may still remove the very entries that are written now: it
\* holds them as what it expects to find, or has yet to look.
Removing(w, u, d, t) ==
    \E o \in Worker \ {w} :
        LET x == worker[o] IN
        \/ x.job \in {"delete", "drop", "notify", "check"} /\ x.user = u
        \/ x.job \in {"save", "clean"} /\ \/ x.device = d /\ x.dev = <<u, t>>
                                          \/ x.token = t /\ x.tok = <<u, d>>

WriteRegistration(w) ==
    LET x == worker[w] IN
    /\ x.job = "save" /\ x.chains = {}
    /\ tokenOf' = [tokenOf EXCEPT ![x.token] = <<x.user, x.device>>]
    /\ deviceOf' = [deviceOf EXCEPT ![x.device] = <<x.user, x.token>>]
    /\ indexOf' = [indexOf EXCEPT ![x.user][x.device] = x.token]
    /\ worker' = [worker EXCEPT ![w].job = "clean",
                                ![w].chains = PreviousDevice(w) \cup PreviousToken(w)]
    /\ latest' = [d \in Device |->
                    IF d = x.device THEN <<x.user, x.token>>
                    ELSE IF latest[d] # Nobody /\ latest[d][2] = x.token THEN Nobody
                    ELSE latest[d]]
    /\ twice' = (twice \/ Removing(w, x.user, x.device, x.token))
    /\ UNCHANGED requests

-----------------------------------------------------------------------------
(* Deletions: of a token, when the user signs out or Expo refused it, and  *)
(* of everything a user has.                                               *)

GivenUp(u, tokens) ==
    latest' = [d \in Device |-> IF \E t \in tokens : latest[d] = <<u, t>> THEN Nobody
                                ELSE latest[d]]

DeleteToken(w, u, t) ==
    /\ Starts(w, "delete", u, Nobody, t, {<<Call("getToken", u, Nobody, t)>>})
    /\ GivenUp(u, {t})
    /\ UNCHANGED <<trees, twice>>

DeleteFound(w) ==
    LET x == worker[w] IN
    /\ x.job = "delete" /\ x.chains = {}
    /\ worker' = [worker EXCEPT
          ![w].job = "clean",
          ![w].chains = IF x.tok = Nobody \/ x.tok[1] # x.user THEN {}
                        ELSE Removals(x.user, x.tok[2], x.token)]
    /\ UNCHANGED <<trees, requests, latest, twice>>

DropUser(w, u) ==
    /\ Starts(w, "drop", u, Nobody, Nobody,
              {<<Call("probeDevice", u, d, Nobody)>> : d \in {e \in Device : indexOf[u][e] # Nobody}})
    /\ GivenUp(u, PushToken)
    /\ UNCHANGED <<trees, twice>>

DropIndex(w) ==
    /\ worker[w].job = "drop" /\ worker[w].chains = {}
    /\ indexOf' = [indexOf EXCEPT ![worker[w].user] = [d \in Device |-> Nobody]]
    /\ worker' = [worker EXCEPT ![w] = IdleWorker]
    /\ UNCHANGED <<requests, tokenOf, deviceOf, latest, twice>>

-----------------------------------------------------------------------------
(* A notification checks the devices of its user one after the other, and  *)
(* drops the index entries that are no longer current.                     *)

Notify(w, u) ==
    /\ worker[w].job = "idle" /\ requests < MaxRequests
    /\ requests' = requests + 1
    /\ worker' = [worker EXCEPT ![w] =
          [IdleWorker EXCEPT !.job = "notify", !.user = u,
                             !.left = {<<d, indexOf[u][d]>> : d \in
                                         {e \in Device : indexOf[u][e] # Nobody}}]]
    /\ UNCHANGED <<trees, latest, twice>>

CheckNext(w) ==
    LET x == worker[w] IN
    /\ x.job = "notify" /\ x.chains = {}
    /\ \E e \in x.left :
          worker' = [worker EXCEPT
              ![w].job = "check", ![w].device = e[1], ![w].token = e[2], ![w].left = x.left \ {e},
              ![w].chains = {<<Call("getToken", x.user, e[1], e[2])>>,
                             <<Call("getDevice", x.user, e[1], e[2])>>}]
    /\ UNCHANGED <<trees, requests, latest, twice>>

CheckDone(w) ==
    LET x       == worker[w]
        current == x.tok = <<x.user, x.device>> /\ x.dev = <<x.user, x.token>>
    IN  /\ x.job = "check" /\ x.chains = {}
        /\ worker' = [worker EXCEPT
              ![w].job = "notify",
              ![w].chains = IF current THEN {} ELSE {<<Call("rmIndex", x.user, x.device, x.token)>>}]
        /\ UNCHANGED <<trees, requests, latest, twice>>

\* A request ends, or fails: what it has not done yet stays undone.
EndRequest(w) ==
    /\ worker[w].job \in {"clean", "notify"} /\ worker[w].chains = {} /\ worker[w].left = {}
    /\ worker' = [worker EXCEPT ![w] = IdleWorker]
    /\ UNCHANGED <<trees, requests, latest, twice>>

RequestFails(w) ==
    /\ worker[w].chains # {}
    /\ worker' = [worker EXCEPT ![w] = IdleWorker]
    /\ UNCHANGED <<trees, requests, latest, twice>>

PushNext ==
    \E w \in Worker :
        \/ \E u \in Account, d \in Device, t \in PushToken : Save(w, u, d, t)
        \/ \E u \in Account, t \in PushToken : DeleteToken(w, u, t)
        \/ \E u \in Account : DropUser(w, u) \/ Notify(w, u)
        \/ DatabaseCall(w) \/ WriteRegistration(w) \/ DeleteFound(w) \/ DropIndex(w)
        \/ CheckNext(w) \/ CheckDone(w) \/ EndRequest(w) \/ RequestFails(w)

PushSpec == PushInit /\ [][PushNext]_pushVars

-----------------------------------------------------------------------------
PushTypeOK ==
    /\ tokenOf \in [PushToken -> (Account \X Device) \cup {Nobody}]
    /\ deviceOf \in [Device -> (Account \X PushToken) \cup {Nobody}]
    /\ indexOf \in [Account -> [Device -> PushToken \cup {Nobody}]]
    /\ latest \in [Device -> (Account \X PushToken) \cup {Nobody}] /\ twice \in BOOLEAN
    /\ \A w \in Worker : worker[w].job \in Job

\* savePushToken.ts:38 - the removals another account's or another device's
\* registration still has to make, with what it read before its write, never take
\* away the registration made last: it stays in all three trees until its device
\* or its token is registered anew or it is given up.  (Repeating a registration
\* while a request that removes the same one is still under way is excluded: the
\* conditional removals cannot tell the two apart.)
LastRegistrationHolds ==
    ~twice => \A d \in Device :
        latest[d] # Nobody => Current(latest[d][1], d, latest[d][2])
=============================================================================

----------------------------- MODULE Accounts ------------------------------
(***************************************************************************)
(* The account of the ledger: first-run initialization, login by password  *)
(* or passkey under the throttle, sessions, passkey ceremonies and the     *)
(* step-up verification a sensitive change needs.  One action is one       *)
(* database statement or one synchronous stretch of a handler; calls       *)
(* interleave between them, and a restart loses what is only in memory.    *)
(***************************************************************************)
EXTENDS LoginThrottle

CONSTANTS
    Callers,            \* bound: requests under way at once
    Sessions,           \* bound: sessions issued
    Challenges,         \* bound: challenges issued
    Passkeys,           \* credentials a device may offer
    Buckets,            \* the buckets a login is charged to, by name and address
    PasskeyBuckets,     \* the same for a login by passkey
    MaxPasskeys,        \* MAX_PASSKEYS_PER_USER
    Mixes,              \* bound: what one behaviour starts from and asks for
    NoOne               \* no caller, session, challenge or passkey

ASSUME AccountsAssumption ==
    /\ IsFiniteSet(Callers)
    /\ Buckets \subseteq BucketKeys /\ PasskeyBuckets \in BucketKeys
    /\ NoOne \notin Callers \cup Sessions \cup Challenges \cup Passkeys
    /\ MaxPasskeys \in Nat \ {0}
    /\ \A m \in Mixes :
        /\ m.live \subseteq Sessions /\ m.passkeys \subseteq Passkeys
        /\ m.ticks \in Nat /\ m.restarts \in Nat /\ m.lapses \in BOOLEAN

Purposes == {"register", "login", "stepUp"}
Sensitive == {"ChangePassword", "ChangeUsername"}
Ceremonies == [PasskeyLogin |-> "login", Register |-> "register", StepUp |-> "stepUp"]
Starts == [BeginLogin |-> "login", BeginRegister |-> "register", BeginStepUp |-> "stepUp"]
Authenticated ==
    Sensitive \cup {"Register", "StepUp", "BeginRegister", "BeginStepUp",
                    "RemovePasskey", "Logout", "LogoutOthers"}

VARIABLES
    users,      \* AppUser rows
    initLock,   \* who holds the advisory lock of initialization
    session,    \* UserSession rows
    challenge,  \* WebAuthnChallenge rows
    passkeys,   \* credentials with a UserPasskey row
    store,      \* the throttle's Map
    nextPruneAt,
    now,
    call,       \* the requests under way
    claims,     \* claims[ch]: ceremonies that got past the claim of ch
    spent,      \* spent[ch]: sensitive changes the step-up with ch authorised
    mix,        \* the bounds of this behaviour, chosen at the start
    restarts

setup == <<users, initLock>>
proofs == <<challenge, passkeys, claims, spent>>
throttle == <<store, nextPruneAt>>
world == <<now, mix, restarts>>
vars == <<users, initLock, session, challenge, passkeys, store, nextPruneAt,
          now, call, claims, spent, mix, restarts>>

NoSession == [status |-> "none", idle |-> FALSE, elevation |-> NoOne]
Idle == [kind |-> "none", phase |-> "idle", session |-> NoOne, challenge |-> NoOne,
         passkey |-> NoOne, keys |-> <<>>, seen |-> {}]

Init ==
    /\ mix \in Mixes
    /\ users = IF "Initialize" \in mix.kinds THEN 0 ELSE 1
    /\ initLock = NoOne
    /\ session = [s \in Sessions |->
          [NoSession EXCEPT !.status = IF s \in mix.live THEN "active" ELSE "none"]]
    /\ challenge = [ch \in Challenges |-> [status |-> "none", purpose |-> "none"]]
    /\ passkeys = mix.passkeys
    /\ store = [k \in {} |-> {}] /\ nextPruneAt = 0 /\ now = 0
    /\ call = [c \in Callers |-> Idle]
    /\ claims = [ch \in Challenges |-> 0] /\ spent = [ch \in Challenges |-> 0]
    /\ restarts = 0

At(c, kinds, phase) == call[c].kind \in kinds /\ call[c].phase = phase
Start(c, kind) == kind \in mix.kinds /\ call[c] = Idle
Step(c, phase) == call' = [call EXCEPT ![c].phase = phase]
Answer(c) == call' = [call EXCEPT ![c] = Idle]
-----------------------------------------------------------------------------
(* First-run initialization *)

\* The fast path: nothing to do when there is an account.
StartInitialize(c) ==
    /\ Start(c, "Initialize") /\ users = 0
    /\ call' = [call EXCEPT ![c] = [Idle EXCEPT !.kind = "Initialize", !.phase = "lock"]]
    /\ UNCHANGED <<setup, session, proofs, throttle, world>>

\* Fault: no advisory lock.
AnyoneEnters(c) == initLock' = initLock

\* pg_advisory_xact_lock: one transaction at a time.
EnterInitLock(c) == initLock = NoOne /\ initLock' = c

LockInitialize(c) ==
    /\ At(c, {"Initialize"}, "lock") /\ EnterInitLock(c) /\ Step(c, "recheck")
    /\ UNCHANGED <<users, session, proofs, throttle, world>>

Recheck(c) ==
    /\ At(c, {"Initialize"}, "recheck")
    /\ \/ users = 0 /\ Step(c, "create") /\ UNCHANGED initLock
       \/ users > 0 /\ Answer(c) /\ initLock' = NoOne
    /\ UNCHANGED <<users, session, proofs, throttle, world>>

CreateAccount(c) ==
    /\ At(c, {"Initialize"}, "create")
    /\ users' = users + 1 /\ initLock' = NoOne /\ Step(c, "issue")
    /\ UNCHANGED <<session, proofs, throttle, world>>

-----------------------------------------------------------------------------
(* Sessions *)

Usable(s) == session[s].status = "active" /\ ~session[s].idle

\* SessionService.issue, the end of every login; its insert may fail.
IssueSession(c) ==
    /\ At(c, {"Initialize", "Login", "PasskeyLogin"}, "issue") /\ Answer(c)
    /\ \/ UNCHANGED session
       \/ \E s \in Sessions :
             /\ session[s].status = "none"
             /\ session' = [session EXCEPT ![s].status = "active"]
    /\ UNCHANGED <<setup, proofs, throttle, world>>

\* SessionService.authenticate: the read, with or without a slide to write.
Authenticate(c, kind, s) ==
    /\ Start(c, kind) /\ kind \in Authenticated /\ Usable(s)
    /\ \E phase \in {"slide", "begun"} :
          call' = [call EXCEPT ![c] = [Idle EXCEPT !.kind = kind, !.phase = phase,
                                                   !.session = s]]
    /\ UNCHANGED <<setup, session, proofs, throttle, world>>

\* Fault: the slide writes the row back as it was read.
SlideRewrites(row) == [row EXCEPT !.idle = FALSE, !.status = "active"]

SlideWrites(row) == [row EXCEPT !.idle = FALSE]

\* The slide updates by id alone, whatever happened since the read.
WriteSlide(c) ==
    /\ At(c, Authenticated, "slide") /\ Step(c, "begun")
    /\ LET s == call[c].session
       IN  session' = [session EXCEPT ![s] = SlideWrites(@)]
    /\ UNCHANGED <<setup, proofs, throttle, world>>

\* Fault: only the sessions that can still be used are revoked.
RevokeUsable(doomed) ==
    [s \in Sessions |-> IF s \in doomed /\ Usable(s)
                        THEN [session[s] EXCEPT !.status = "revoked"] ELSE session[s]]

Revoke(doomed) ==
    [s \in Sessions |-> IF s \in doomed /\ session[s].status \in {"active", "expired"}
                        THEN [session[s] EXCEPT !.status = "revoked"] ELSE session[s]]

Logout(c) ==
    /\ At(c, {"Logout"}, "begun") /\ Answer(c)
    /\ session' = Revoke({call[c].session})
    /\ UNCHANGED <<setup, proofs, throttle, world>>

LogoutAllOthers(c) ==
    /\ At(c, {"LogoutOthers"}, "begun") /\ Answer(c)
    /\ session' = Revoke(Sessions \ {call[c].session})
    /\ UNCHANGED <<setup, proofs, throttle, world>>

\* The clock ends a session's idle or absolute lifetime, or a step-up's.
SessionLapses(s) ==
    /\ mix.lapses /\ session[s].status = "active"
    /\ \/ ~session[s].idle /\ session' = [session EXCEPT ![s].idle = TRUE]
       \/ session' = [session EXCEPT ![s].status = "expired"]
       \/ /\ session[s].elevation # NoOne
          /\ session' = [session EXCEPT ![s].elevation = NoOne]
    /\ UNCHANGED <<setup, proofs, throttle, world, call>>

-----------------------------------------------------------------------------
(* Logins under the throttle *)

\* The store after maybePruneExpired.
Tidied == IF now >= nextPruneAt THEN Pruned(store, now) ELSE store
PruneTime == IF now >= nextPruneAt THEN now + PruneEvery ELSE nextPruneAt

\* consume: the attempt is reserved, or refused; either way the buckets it
\* looked at are refreshed.
Attempt(c, kind, keys, ch, p) ==
    /\ Start(c, kind) /\ nextPruneAt' = PruneTime
    /\ IF Admits(Tidied, keys, now)
       THEN /\ store' = Consumed(Tidied, keys, now)
            /\ call' = [call EXCEPT ![c] =
                    [Idle EXCEPT !.kind = kind, !.phase = "begun", !.keys = keys,
                                 !.challenge = ch, !.passkey = p]]
       ELSE store' = Looked(Tidied, keys, now) /\ UNCHANGED call
    /\ UNCHANGED <<setup, session, proofs, world>>

StartLogin(c) == \E keys \in Buckets : Attempt(c, "Login", keys, NoOne, NoOne)

StartPasskeyLogin(c) ==
    \E ch \in Challenges, p \in Passkeys :
        /\ challenge[ch].status # "none"
        /\ Attempt(c, "PasskeyLogin", PasskeyBuckets, ch, p)

\* recordFailure, recordSuccess and release for the attempt of c.
CountFailure(c) ==
    /\ store' = FailureRecorded(Tidied, call[c].keys, now)
    /\ nextPruneAt' = PruneTime
CountSuccess(c) ==
    store' = SuccessRecorded(store, call[c].keys) /\ UNCHANGED nextPruneAt
GiveBack(c) == store' = Released(store, call[c].keys) /\ UNCHANGED nextPruneAt

\* AuthService.login, once the account is read and the password compared.
Verdict(c) ==
    /\ At(c, {"Login"}, "begun")
    /\ \/ users > 0 /\ CountSuccess(c) /\ Step(c, "issue")
       \/ CountFailure(c) /\ Answer(c)
       \/ GiveBack(c) /\ Answer(c)
    /\ UNCHANGED <<setup, session, proofs, world>>

-----------------------------------------------------------------------------
(* Passkey ceremonies *)

StartBeginLogin(c) ==
    /\ Start(c, "BeginLogin")
    /\ call' = [call EXCEPT ![c] = [Idle EXCEPT !.kind = "BeginLogin", !.phase = "begun"]]
    /\ UNCHANGED <<setup, session, proofs, throttle, world>>

\* The check each begin makes before it issues a challenge.
MayBegin(kind) ==
    CASE kind = "BeginLogin" -> TRUE
      [] kind = "BeginRegister" -> Cardinality(passkeys) < MaxPasskeys
      [] kind = "BeginStepUp" -> passkeys # {}

BeginCeremony(c) ==
    /\ At(c, DOMAIN Starts, "begun")
    /\ IF MayBegin(call[c].kind) THEN Step(c, "challenge") ELSE Answer(c)
    /\ UNCHANGED <<setup, session, proofs, throttle, world>>

Redeemed == {ch \in Challenges : challenge[ch].status \in {"consumed", "expired"}}

\* WebAuthnChallengeService.issue, which from time to time sweeps first.
IssueChallenge(c) ==
    /\ At(c, DOMAIN Starts, "challenge") /\ Answer(c)
    /\ \E gone \in {{}, Redeemed}, ch \in Challenges :
          /\ challenge[ch].status = "none"
          /\ challenge' = [x \in Challenges |->
                CASE x = ch -> [status |-> "pending", purpose |-> Starts[call[c].kind]]
                  [] x \in gone -> [challenge[x] EXCEPT !.status = "swept"]
                  [] OTHER -> challenge[x]]
    /\ UNCHANGED <<setup, session, passkeys, claims, spent, throttle, world>>

\* An authenticated finish names the challenge and the passkey it answers with.
ReadAnswer(c) ==
    /\ At(c, {"Register", "StepUp"}, "begun") /\ call[c].challenge = NoOne
    /\ \E ch \in Challenges, p \in Passkeys :
          /\ challenge[ch].status # "none"
          /\ call' = [call EXCEPT ![c].challenge = ch, ![c].passkey = p]
    /\ UNCHANGED <<setup, session, proofs, throttle, world>>

\* A ceremony that throws gives a reserved login attempt back.
Fails(c) == GiveBack(c) /\ Answer(c)

\* consume's first read.
ReadChallenge(c) ==
    LET ch == call[c].challenge
    IN  /\ At(c, DOMAIN Ceremonies, "begun") /\ ch # NoOne
        /\ IF /\ challenge[ch].status \in {"pending", "expired"}
              /\ challenge[ch].purpose = Ceremonies[call[c].kind]
           THEN Step(c, "claim") /\ UNCHANGED throttle
           ELSE Fails(c)
        /\ UNCHANGED <<setup, session, proofs, world>>

\* Fault: the claim does not repeat the check of the read.
ClaimUnchecked(ch) == challenge[ch].status # "swept"

\* The WHERE of consume's conditional update.
ClaimMatches(ch) == challenge[ch].status = "pending"

ClaimChallenge(c) ==
    LET ch == call[c].challenge
    IN  /\ At(c, DOMAIN Ceremonies, "claim")
        /\ IF ClaimMatches(ch)
           THEN /\ challenge' = [challenge EXCEPT ![ch].status = "consumed"]
                /\ claims' = [claims EXCEPT ![ch] = @ + 1]
                /\ Step(c, "assert") /\ UNCHANGED throttle
           ELSE Fails(c) /\ UNCHANGED <<challenge, claims>>
        /\ UNCHANGED <<setup, session, passkeys, spent, world>>

\* The attestation is verified and the credential stored, unless it is already.
StorePasskey(c) ==
    /\ At(c, {"Register"}, "assert") /\ Answer(c)
    /\ \/ passkeys' = passkeys \cup {call[c].passkey}
       \/ UNCHANGED passkeys
    /\ UNCHANGED <<setup, session, challenge, claims, spent, throttle, world>>

\* assertCredential: the credential is read and the signature verified.
AssertCredential(c) ==
    /\ At(c, {"PasskeyLogin", "StepUp"}, "assert")
    /\ \/ /\ call[c].passkey \in passkeys /\ Step(c, "use")
          /\ IF call[c].kind = "StepUp" THEN UNCHANGED throttle ELSE CountSuccess(c)
       \/ /\ Answer(c)
          /\ IF call[c].kind = "StepUp" THEN UNCHANGED throttle ELSE CountFailure(c)
       \/ Fails(c)
    /\ UNCHANGED <<setup, session, proofs, world>>

\* recordUse updates the passkey's row, which may be gone.
RecordUse(c) ==
    /\ At(c, {"PasskeyLogin", "StepUp"}, "use")
    /\ IF call[c].passkey \notin passkeys THEN Answer(c)
       ELSE Step(c, IF call[c].kind = "StepUp" THEN "elevate" ELSE "issue")
    /\ UNCHANGED <<setup, session, proofs, throttle, world>>

\* markReauthenticated.
Elevated(s, ch) ==
    IF session[s].status = "revoked" THEN session
    ELSE [session EXCEPT ![s].elevation = ch]

Elevate(c) ==
    /\ At(c, {"StepUp"}, "elevate") /\ Answer(c)
    /\ session' = Elevated(call[c].session, call[c].challenge)
    /\ UNCHANGED <<setup, proofs, throttle, world>>

RemovePasskey(c) ==
    /\ At(c, {"RemovePasskey"}, "begun") /\ Answer(c)
    /\ \E p \in Passkeys : passkeys' = passkeys \ {p}
    /\ UNCHANGED <<setup, session, challenge, claims, spent, throttle, world>>

ChallengeExpires(ch) ==
    /\ challenge[ch].status = "pending"
    /\ challenge' = [challenge EXCEPT ![ch].status = "expired"]
    /\ UNCHANGED <<setup, session, passkeys, claims, spent, throttle, world, call>>

-----------------------------------------------------------------------------
(* Sensitive changes *)

\* requireReauthentication by the current password: right or wrong.
VerifyPassword(c) ==
    /\ At(c, Sensitive, "begun")
    /\ Step(c, "write") \/ Answer(c)
    /\ UNCHANGED <<setup, session, proofs, throttle, world>>

\* Fault: the elevation is looked up and left for its time to run out.
LeaveElevation(s) == session' = session

\* The SET of consumeReauthentication.
ClearElevation(s) == session' = [session EXCEPT ![s].elevation = NoOne]

\* requireReauthentication by a step-up, which is spent.
ConsumeReauthentication(c) ==
    LET s == call[c].session
    IN  /\ At(c, Sensitive, "begun")
        /\ IF session[s].status # "revoked" /\ session[s].elevation # NoOne
           THEN /\ ClearElevation(s)
                /\ spent' = [spent EXCEPT ![session[s].elevation] = @ + 1]
                /\ Step(c, "write")
           ELSE Answer(c) /\ UNCHANGED <<session, spent>>
        /\ UNCHANGED <<setup, challenge, passkeys, claims, throttle, world>>

Live == {s \in Sessions : session[s].status = "active"}

\* The new name or password hash is stored; a new password ends other sessions.
WriteChange(c) ==
    /\ At(c, Sensitive, "write")
    /\ call' = [call EXCEPT ![c] =
          IF @.kind = "ChangePassword" THEN [@ EXCEPT !.phase = "revoke", !.seen = Live]
          ELSE Idle]
    /\ UNCHANGED <<setup, session, proofs, throttle, world>>

RevokeOthers(c) ==
    /\ At(c, {"ChangePassword"}, "revoke") /\ Step(c, "answered")
    /\ session' = Revoke(Sessions \ {call[c].session})
    /\ UNCHANGED <<setup, proofs, throttle, world>>

\* Any statement but a login's (see Fails) may fail, which ends its request;
\* and a change of password that was made is answered.
EndRequest(c) ==
    /\ call[c].phase \in {"challenge", "write", "revoke", "answered"} /\ Answer(c)
    /\ UNCHANGED <<setup, session, proofs, throttle, world>>

-----------------------------------------------------------------------------
Tick ==
    /\ now < mix.ticks /\ now' = now + 1
    /\ UNCHANGED <<setup, session, proofs, throttle, call, mix, restarts>>

\* The process stops: its memory and its open transactions are gone.
Restart ==
    /\ restarts < mix.restarts /\ restarts' = restarts + 1
    /\ call' = [c \in Callers |-> Idle] /\ initLock' = NoOne
    /\ store' = [k \in {} |-> {}] /\ nextPruneAt' = 0
    /\ UNCHANGED <<users, session, proofs, now, mix>>

Next ==
    \/ \E c \in Callers :
        \/ StartInitialize(c) \/ LockInitialize(c) \/ Recheck(c) \/ CreateAccount(c)
        \/ IssueSession(c) \/ StartLogin(c) \/ StartPasskeyLogin(c) \/ Verdict(c)
        \/ \E kind \in Authenticated, s \in Sessions : Authenticate(c, kind, s)
        \/ WriteSlide(c) \/ Logout(c) \/ LogoutAllOthers(c)
        \/ StartBeginLogin(c) \/ BeginCeremony(c) \/ IssueChallenge(c)
        \/ ReadAnswer(c) \/ ReadChallenge(c) \/ ClaimChallenge(c)
        \/ StorePasskey(c) \/ AssertCredential(c) \/ RecordUse(c) \/ Elevate(c)
        \/ RemovePasskey(c) \/ VerifyPassword(c) \/ ConsumeReauthentication(c)
        \/ WriteChange(c) \/ RevokeOthers(c) \/ EndRequest(c)
    \/ \E s \in Sessions : SessionLapses(s)
    \/ \E ch \in Challenges : ChallengeExpires(ch)
    \/ Tick \/ Restart

Spec == Init /\ [][Next]_vars

-----------------------------------------------------------------------------
(* Properties *)

\* Concurrent first-run initializations leave one account, whoever passed the
\* fast path (init.service.ts).
OneAccount == users <= 1

\* A challenge is redeemed by at most one ceremony, however many verifications
\* of it are under way (webauthn-challenge.service.ts).
Claims == INSTANCE SingleUse WITH Tokens <- Challenges, uses <- claims
ChallengesAreSingleUse == Claims!Spec

\* One step-up authorises at most one sensitive change, even when several
\* requests of its session ask at once (session.service.ts).
StepUps == INSTANCE SingleUse WITH Tokens <- Challenges, uses <- spent
StepUpsAreSingleUse == StepUps!Spec

ChargedTo(key) ==
    {c \in Callers : /\ \E i \in DOMAIN call[c].keys : call[c].keys[i] = key
                     /\ call[c].phase \in {"begun", "claim", "assert"}}

\* Every admitted attempt ends in a failure, a success or a release: no bucket
\* keeps a reservation that no attempt under way stands for.
NoReservationLeaks ==
    \A k \in DOMAIN store : store[k].inFlight <= Cardinality(ChargedTo(k))

\* However many attempts run in parallel, a bucket never has more failures and
\* attempts under way than it allows.
BurstsAreBounded ==
    \A k \in DOMAIN store :
        /\ store[k].failures < MaxAttempts
        /\ store[k].failures + store[k].inFlight <= MaxAttempts

LockedNow == {k \in DOMAIN store : LockedAt(store[k], now)}

\* A store that is full of lockouts, but for one bucket at most.
Crowded(buckets, spared) ==
    /\ Cardinality(DOMAIN buckets) = MaxBuckets
    /\ \A k \in DOMAIN buckets \ spared : buckets[k].lockedUntil # NotLocked

\* A lockout is served in full: it ends early only by a success of its bucket,
\* by a restart, or to make room for a bucket in a store full of lockouts.
LockoutsAreServed ==
    [][\A k \in LockedNow :
        \/ k \in DOMAIN store' /\ store'[k].lockedUntil >= store[k].lockedUntil
        \/ store[k].lockedUntil <= now'
        \/ \E c \in Callers : c \in ChargedTo(k) /\ call'[c].phase \in {"issue", "use"}
        \/ restarts' # restarts
        \/ Crowded(store, {})
        \/ \E new \in DOMAIN store' : Crowded(store', {new})]_vars

\* Once a change of password is answered, none of the sessions that were live
\* when it was written is, but the one that made it.
PasswordChangesEndSessions ==
    \A c \in Callers : At(c, {"ChangePassword"}, "answered") =>
        \A s \in call[c].seen \ {call[c].session} : session[s].status # "active"

\* A session that was revoked or has outlived its absolute lifetime is never
\* live again, whatever slide of its idle lifetime was still to be written.
EndedSessionsStayEnded ==
    [][\A s \in Sessions :
        /\ session[s].status = "revoked" => session'[s].status = "revoked"
        /\ session[s].status = "expired" => session'[s].status # "active"]_vars

Kinds ==
    Authenticated \cup DOMAIN Starts \cup DOMAIN Ceremonies \cup {"none", "Initialize", "Login"}
Phases ==
    {"idle", "lock", "recheck", "create", "issue", "slide", "begun", "challenge", "claim",
     "assert", "use", "elevate", "write", "revoke", "answered"}
CallShapes ==
    [kind : Kinds, phase : Phases, session : Sessions \cup {NoOne},
     challenge : Challenges \cup {NoOne}, passkey : Passkeys \cup {NoOne},
     keys : BucketKeys \cup {<<>>}, seen : SUBSET Sessions]
SessionRows ==
    [status : {"none", "active", "expired", "revoked"}, idle : BOOLEAN,
     elevation : Challenges \cup {NoOne}]
ChallengeRows ==
    [status : {"none", "pending", "expired", "consumed", "swept"},
     purpose : Purposes \cup {"none"}]

TypeOK ==
    /\ users \in Nat /\ initLock \in Callers \cup {NoOne} /\ call \in [Callers -> CallShapes]
    /\ session \in [Sessions -> SessionRows] /\ challenge \in [Challenges -> ChallengeRows]
    /\ passkeys \subseteq Passkeys
    /\ claims \in [Challenges -> Nat] /\ spent \in [Challenges -> Nat]
    /\ now \in Nat /\ nextPruneAt \in Nat /\ restarts \in Nat /\ mix \in Mixes
    /\ IsStore(store)

\* What a call works with is there: its session, its challenge with the passkey that
\* answers it, and buckets when it is a login.
CallsAreWhole ==
    \A c \in Callers :
        /\ call[c].kind \in Authenticated => call[c].session # NoOne
        /\ call[c].phase \in {"claim", "assert", "use", "elevate"} => call[c].challenge # NoOne
        /\ call[c].keys # <<>> => call[c].kind \in {"Login", "PasskeyLogin"}
        /\ call[c].challenge = NoOne <=> call[c].passkey = NoOne

\* Who looks for the account again, and creates it, does so under the lock.
InitializationIsAlone ==
    \A c \in Callers : At(c, {"Initialize"}, "recheck") \/ At(c, {"Initialize"}, "create") =>
        initLock = c /\ (call[c].phase = "create" => users = 0)

\* The sessions a change of password saw had been issued; when they were ended
\* they are revoked.
SeenSessionsEnd ==
    \A c \in Callers : \A s \in call[c].seen :
        /\ session[s].status # "none"
        /\ (call[c].phase = "answered" /\ s # call[c].session) => session[s].status = "revoked"

\* The step-ups that got past the claim of ch and are not written yet.
Bearers(ch) ==
    {c \in Callers : /\ call[c].kind = "StepUp" /\ call[c].challenge = ch
                     /\ call[c].phase \in {"assert", "use", "elevate"}}

\* A claimed challenge is no longer redeemable; it is on its way to a session, in
\* one session, or spent, and never in two places.
ProofsAreInOnePlace ==
    \A ch \in Challenges :
        /\ claims[ch] # 0 => challenge[ch].status \in {"consumed", "swept"}
        /\ (spent[ch] # 0 \/ Bearers(ch) # {} \/ \E s \in Sessions : session[s].elevation = ch)
              => claims[ch] # 0
        /\ \A c, d \in Bearers(ch) : c = d
        /\ \A s, r \in Sessions : session[s].elevation = ch /\ session[r].elevation = ch => s = r
        /\ Bearers(ch) # {} => spent[ch] = 0 /\ \A s \in Sessions : session[s].elevation # ch
        /\ (\E s \in Sessions : session[s].elevation = ch) => spent[ch] = 0

\* No lockout is longer than the window it was given.
LockoutsAreBounded ==
    \A k \in DOMAIN store : /\ store[k].windowStart <= now
                            /\ store[k].lockedUntil <= now + WindowSec

\* There is one account, its logins are counted and held off whatever the interleaving, and a
\* change of password leaves no other session (init.service.ts:67, login-throttle.service.ts:50).
AccountIsGuarded ==
    /\ TypeOK /\ CallsAreWhole /\ InitializationIsAlone /\ OneAccount
    /\ NoReservationLeaks /\ BurstsAreBounded /\ LockoutsAreBounded
    /\ SeenSessionsEnd /\ PasswordChangesEndSessions /\ ProofsAreInOnePlace

\* Nothing that was used up works again: no challenge, no step-up, no session that ended, and
\* no bucket before its lockout is over (webauthn-challenge.service.ts:69, session.service.ts:154).
NothingWorksTwice ==
    ChallengesAreSingleUse /\ StepUpsAreSingleUse /\ LockoutsAreServed /\ EndedSessionsStayEnded
=============================================================================

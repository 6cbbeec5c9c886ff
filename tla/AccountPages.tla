------------------------------ MODULE AccountPages ------------------------------
(* Who the web client takes to be logged in, and the account's own pages: the shell's gate
   (App, InitGate), InitScreen, LoginScreen, the cards of Settings with the passkey ceremonies
   behind them (passkeys.ts, webauthn.ts), the export of a backup and LogoutButton.

   The windows of one browser share its cookie.  A request carries the cookie of the moment it is
   sent, the server serves it at some later moment, and the window hears the answer later still,
   unless it was lost.  A card that is left goes on with what it began: only its button is forgotten.
   The queries for the init status, the session and the passkeys are calls too: an invalidation
   asks again and ignores the answer still to come, whose 401 is heard all the same.

   Names, passwords and passkeys are numbered in the order the account got them, so a number also
   says how new it is; 0 stands for a wrong one.  Sessions are numbered as well, cookie 0 is none.  *)
EXTENDS Naturals, FiniteSets, Sequences

CONSTANTS
    Windows,       \* the client's windows
    JarOf(_),      \* the browser a window is of
    Jars,          \* the browsers
    MaxPasskeys,   \* MAX_PASSKEYS_PER_USER
    Visits         \* [windows, start, keys, presses, moves, faults, lapses]: what may happen

ASSUME AccountPagesAssumption ==
    /\ \A w \in Windows : JarOf(w) \in Jars
    /\ MaxPasskeys \in Nat \ {0}

VARIABLES
    account,       \* the server's: the account, its passkeys and its sessions
    jar,           \* per browser, the session its cookie names
    window,        \* per window, what the client holds
    calls,         \* requests and ceremonies under way
    visit          \* what the behaviour may still do

pageVars == <<account, jar, window, calls, visit>>

-----------------------------------------------------------------------------
(* What a window shows *)

Lookups == {"status", "session", "keys"}

\* What the shell shows, in the order of App's returns.
Showing(p) ==
    CASE p.gate # "ready" -> p.gate
      [] p.gate = "ready" /\ ~p.opened -> "init"
      [] p.gate = "ready" /\ p.opened /\ p.failed -> "error"
      [] p.gate = "ready" /\ p.opened /\ ~p.failed -> p.seen

Mounted(p, slot, key) ==
    CASE slot \in Lookups -> TRUE
      [] slot = "init" -> Showing(p) = "init"
      [] slot = "login" -> Showing(p) = "nobody"
      [] slot = "logout" -> Showing(p) = "somebody"
      [] slot = "row" -> Showing(p) = "somebody" /\ p.screen = "settings" /\ key \in p.keys
      [] OTHER -> Showing(p) = "somebody" /\ p.screen = "settings"

UnderWay(w, slot) == {c \in calls : c.win = w /\ c.slot = slot /\ c.shown}
Busy(w, slot, key) == \E c \in UnderWay(w, slot) : slot = "row" => c.key = key

\* Offered only when the account has a passkey to ask for.
CanReauthWithPasskey(p) == p.keysSeen /\ p.keys # {}

-----------------------------------------------------------------------------
(* Requests *)

NoAnswer == [kind |-> "none", sid |-> 0, at |-> 0, keys |-> {}]
Failed == [NoAnswer EXCEPT !.kind = "failed"]
Ok(at) == [NoAnswer EXCEPT !.kind = "ok", !.at = at]
\* A 401: because the session is over, or because what was typed or signed proves nothing.
Declined(why) == [NoAnswer EXCEPT !.kind = why]
Refusals == {"no session", "no proof"}

Ask(w, slot, todo, cookie, known) ==
    [win |-> w, slot |-> slot, todo |-> todo, sid |-> cookie, typed |-> 0, name |-> 0, key |-> 0,
     bySign |-> FALSE, answer |-> NoAnswer, shown |-> TRUE,
     no |-> CHOOSE n \in 1 .. Cardinality(known) + 1 : \A c \in known : c.no # n]

Reauth == <<"reauth options", "prompt", "reauth verify">>

\* Fault: an invalidation is satisfied by an answer that is already on its way.
FetchJoinsOlder(w, slot, again, cookie, cs) ==
    IF \E c \in cs : c.win = w /\ c.slot = slot /\ c.shown THEN cs
    ELSE cs \cup {Ask(w, slot, <<slot>>, cookie, cs)}

\* A query's fetch.  With `again` (refetch, invalidateQueries) one that has data is asked anew;
\* otherwise the window waits for the answer that is to come.
Fetch(w, slot, again, cookie, cs) ==
    LET before == {c \in cs : c.win = w /\ c.slot = slot /\ c.shown}
        left == (cs \ before) \cup {[c EXCEPT !.shown = FALSE] : c \in before}
    IN IF before # {} /\ ~again THEN cs
       ELSE left \cup {Ask(w, slot, <<slot>>, cookie, left)}

\* The calls of a window whose cards are no longer on the screen.
Tidied(cs, w, p) ==
    {IF c.win = w /\ ~Mounted(p, c.slot, c.key) THEN [c EXCEPT !.shown = FALSE] ELSE c : c \in cs}

-----------------------------------------------------------------------------
(* The server *)

\* Fault: the session is read for anyone, and an old cookie's is found still.
PublicWithSession == {"status", "init", "login", "login options", "login verify", "session"}

Public == {"status", "init", "login", "login options", "login verify"}

\* What requireReauthentication takes: the password, or else this session's step-up, once.
Proven(c) == IF c.bySign THEN c.sid \in account.proven ELSE c.typed = account.password
ProofUsed(c) == IF c.bySign THEN [account EXCEPT !.proven = @ \ {c.sid}] ELSE account

\* [account, answer]: what a request makes of the account, and what it is answered.
Served(c) ==
    LET kind == Head(c.todo)
        Then(a, answer) == [account |-> a, answer |-> answer]
        No(answer) == Then(account, answer)
        LoggedIn(a) ==
            Then([a EXCEPT !.issued = @ + 1, !.live = @ \cup {a.issued + 1}],
                 [Ok(0) EXCEPT !.sid = a.issued + 1])
        Changed(a) == [a EXCEPT !.keysAt = @ + 1]
        known == c.key \in account.keys
    IN CASE kind \notin Public /\ c.sid \notin account.live -> No(Declined("no session"))
         [] kind = "status" -> No(Ok(IF account.opened THEN 1 ELSE 0))
         [] kind = "init" ->
                IF account.opened THEN No(Failed) ELSE LoggedIn([account EXCEPT !.opened = TRUE])
         [] kind = "login" ->
                IF c.name = account.name /\ c.typed = account.password THEN LoggedIn(account)
                ELSE No(Declined("no proof"))
         [] kind = "login verify" ->
                IF known THEN LoggedIn(account) ELSE No(Declined("no proof"))
         [] kind = "logout" ->
                Then([account EXCEPT !.live = @ \ {c.sid}], Ok(0))
         [] kind = "logout all others" ->
                Then([account EXCEPT !.live = @ \cap {c.sid}], Ok(0))
         [] kind = "session" -> No(Ok(account.name))
         [] kind = "keys" -> No([Ok(account.keysAt) EXCEPT !.keys = account.keys])
         [] kind = "reauth options" /\ account.keys = {} -> No(Failed)
         [] kind = "register options" /\ Cardinality(account.keys) >= MaxPasskeys -> No(Failed)
         [] kind = "reauth verify" ->
                IF known THEN Then([account EXCEPT !.proven = @ \cup {c.sid}], Ok(0))
                ELSE No(Declined("no proof"))
         [] kind = "register verify" ->
                Then([Changed(account) EXCEPT !.made = @ + 1, !.keys = @ \cup {account.made + 1}],
                     Ok(account.keysAt + 1))
         [] kind = "rename" ->
                IF known THEN Then(Changed(account), Ok(account.keysAt + 1)) ELSE No(Failed)
         [] kind = "remove" ->
                IF known THEN Then([Changed(account) EXCEPT !.keys = @ \ {c.key}],
                                   Ok(account.keysAt + 1))
                ELSE No(Failed)
         [] kind \in {"change username", "change password", "export"} /\ ~Proven(c) ->
                No(Declined("no proof"))
         [] kind = "change username" ->
                Then([ProofUsed(c) EXCEPT !.name = @ + 1], Ok(account.name + 1))
         [] kind = "change password" ->
                Then([ProofUsed(c) EXCEPT !.password = @ + 1, !.live = @ \cap {c.sid}], Ok(0))
         [] kind = "export" -> Then(ProofUsed(c), Ok(0))
         [] OTHER -> No(Ok(0))

Waiting(c) == c.answer.kind = "none" /\ Head(c.todo) \notin {"prompt", "await"}
With(c, answer) == (calls \ {c}) \cup {[c EXCEPT !.answer = answer]}

Serve(c) ==
    /\ Waiting(c)
    /\ LET served == Served(c)
       IN /\ account' = served.account
          /\ calls' = With(c, served.answer)
    /\ UNCHANGED <<jar, window, visit>>

Faulty == visit.faults > 0 /\ visit' = [visit EXCEPT !.faults = @ - 1]

\* The request does not get there, is turned away (too many logins, a challenge too old), or fails
\* on the server: a sensitive change then after its step-up is spent, and a new password possibly
\* after it is stored, before the other sessions are revoked.
Miss(c) ==
    /\ Waiting(c) /\ Faulty
    /\ \/ account' = account
       \/ /\ Head(c.todo) \in {"change username", "change password", "export"}
          /\ c.sid \in account.live /\ Proven(c)
          /\ account' \in {ProofUsed(c), [ProofUsed(c) EXCEPT
                 !.password = IF Head(c.todo) = "change password" THEN @ + 1 ELSE @]}
    /\ calls' = With(c, Failed)
    /\ UNCHANGED <<jar, window>>

\* The answer is lost, its cookie with it.
LoseAnswer(c) ==
    /\ c.answer.kind \notin {"none", "failed"} /\ Faulty
    /\ calls' = With(c, Failed)
    /\ UNCHANGED <<account, jar, window>>

\* Sessions end and step-ups grow old by themselves.
Lapse ==
    /\ visit.lapses > 0 /\ visit' = [visit EXCEPT !.lapses = @ - 1]
    /\ \E s \in account.live :
           \/ account' = [account EXCEPT !.live = @ \ {s}]
           \/ account' = [account EXCEPT !.proven = @ \ {s}] /\ s \in account.proven
    /\ UNCHANGED <<jar, window, calls>>

-----------------------------------------------------------------------------
(* Answers *)

\* The cookie an answer leaves: a login sets it, a logout clears it.
CookieAfter(c) ==
    IF c.answer.sid # 0 THEN c.answer.sid
    ELSE IF c.slot = "logout" /\ c.answer.kind = "ok" THEN 0
    ELSE jar[JarOf(c.win)]

\* A login waits for the session to be read.
Awaiting(w, cs) == {c \in cs : c.win = w /\ c.todo = <<"await">>}

\* What the window p and the calls cs become; the calls whose card is gone are marked.
Becomes(w, p, cs) ==
    /\ window' = [window EXCEPT ![w] = p]
    /\ calls' = Tidied(cs, w, p)

\* The window takes nobody to be logged in: it heard so of a session, by a call with its cookie.
\* A read of the session under way goes on.
Out(c, why) ==
    [window[c.win] EXCEPT
        !.seen = "nobody", !.failed = FALSE, !.screen = "dashboard", !.endedBy = why,
        !.endedSid = c.sid, !.overtaken = UnderWay(c.win, "session") \ {c} # {}]

\* A 401 of any call of `api`: the listener of App.  The export does not go through `api`.
HearRefusal(c) ==
    LET rest == calls \ {c}
        reads == c.slot = "session" /\ c.shown
    IN /\ c.answer.kind \in Refusals
       /\ IF c.slot = "export" THEN Becomes(c.win, window[c.win], rest)
          ELSE Becomes(c.win,
                       [Out(c, c.answer.kind) EXCEPT !.keysOld = @ \/ (c.slot = "keys" /\ c.shown)],
                       IF reads THEN rest \ Awaiting(c.win, rest) ELSE rest)
       /\ UNCHANGED <<account, jar, visit>>

\* Any other failure: a query shows it, and a card's button can be pressed again.
QueryFails(c) ==
    LET p == window[c.win]
        rest == calls \ {c}
    IN /\ c.answer.kind = "failed" /\ c.slot \in Lookups /\ c.shown
       /\ \/ c.slot = "status" /\ Becomes(c.win, [p EXCEPT !.gate = "gone", !.pressed = FALSE], rest)
          \/ /\ c.slot = "session"
             /\ Becomes(c.win, [p EXCEPT !.failed = TRUE], rest \ Awaiting(c.win, rest))
          \/ c.slot = "keys" /\ Becomes(c.win, [p EXCEPT !.keysOld = TRUE], rest)
       /\ UNCHANGED <<account, jar, visit>>

\* Fault: a logout that failed is shown as one.
FailedLogoutLeaves(c) ==
    /\ c.answer.kind = "failed" /\ ~(c.slot \in Lookups /\ c.shown)
    /\ Becomes(c.win, IF c.slot = "logout" THEN Out(c, "left") ELSE window[c.win], calls \ {c})
    /\ UNCHANGED <<account, jar, visit>>
\* Fault: the button of a failed initialization stays as it was pressed.
FailedInitStays(c) ==
    /\ c.answer.kind = "failed" /\ ~(c.slot \in Lookups /\ c.shown)
    /\ Becomes(c.win, window[c.win], calls \ {c})
    /\ UNCHANGED <<account, jar, visit>>

CardFails(c) ==
    /\ c.answer.kind = "failed" /\ ~(c.slot \in Lookups /\ c.shown)
    /\ Becomes(c.win, [window[c.win] EXCEPT !.pressed = @ /\ c.slot # "init"], calls \ {c})
    /\ UNCHANGED <<account, jar, visit>>

\* A step of a ceremony or of a login is done and the next begins, with the cookie of now.
CeremonyGoesOn(c) ==
    LET cookie == CookieAfter(c)
        next == [c EXCEPT !.todo = Tail(c.todo), !.answer = NoAnswer, !.sid = cookie]
        cs == (calls \ {c}) \cup {next}
    IN /\ c.answer.kind = "ok" /\ Len(c.todo) > 1
       /\ jar' = [jar EXCEPT ![JarOf(c.win)] = cookie]
       /\ calls' = IF next.todo = <<"await">> THEN Fetch(c.win, "session", TRUE, cookie, cs) ELSE cs
       /\ UNCHANGED <<account, window, visit>>

\* A query is answered; an answer asked for anew meanwhile is ignored.
Read(c, slot) ==
    c.answer.kind = "ok" /\ c.slot = slot /\ c.shown /\ UNCHANGED <<account, jar, visit>>

ReadIgnored(c) ==
    /\ c.answer.kind = "ok" /\ c.slot \in Lookups /\ ~c.shown
    /\ calls' = calls \ {c}
    /\ UNCHANGED <<account, jar, window, visit>>

StatusRead(c) ==
    LET p == window[c.win]
        opened == c.answer.at = 1
        rest == calls \ {c}
    IN /\ Read(c, "status")
       /\ Becomes(c.win,
                  [p EXCEPT !.gate = "ready", !.opened = opened, !.pressed = @ /\ ~opened],
                  IF opened /\ p.seen = "checking"
                  THEN Fetch(c.win, "session", FALSE, jar[JarOf(c.win)], rest) ELSE rest)

\* A login that waited for it goes to the dashboard.
SessionRead(c) ==
    LET rest == calls \ {c}
        waits == Awaiting(c.win, rest)
    IN /\ Read(c, "session")
       /\ Becomes(c.win,
                  [window[c.win] EXCEPT
                      !.seen = "somebody", !.name = c.answer.at, !.failed = FALSE,
                      !.screen = IF waits = {} THEN @ ELSE "dashboard", !.readSid = c.sid],
                  rest \ waits)

KeysRead(c) ==
    /\ Read(c, "keys")
    /\ Becomes(c.win,
               [window[c.win] EXCEPT !.keysSeen = TRUE, !.keys = c.answer.keys,
                                     !.keysAt = c.answer.at, !.keysOld = FALSE],
               calls \ {c})

\* What a card began is done.  `ownName` and `ownKeys` note the newest change the user was told of;
\* not one of the passkeys while they are first read, which is not asked anew and may miss it.
Done(c, slots) ==
    /\ c.answer.kind = "ok" /\ Len(c.todo) = 1 /\ c.slot \in slots
    /\ jar' = [jar EXCEPT ![JarOf(c.win)] = CookieAfter(c)]
    /\ UNCHANGED <<account, visit>>

LoggedOut(c) == Done(c, {"logout"}) /\ Becomes(c.win, Out(c, "left"), calls \ {c})

Initialized(c) ==
    /\ Done(c, {"init"})
    /\ Becomes(c.win, window[c.win],
               Fetch(c.win, "status", TRUE, CookieAfter(c), calls \ {c}))

UsernameChanged(c) ==
    LET p == window[c.win]
    IN /\ Done(c, {"username"})
       /\ Becomes(c.win, [p EXCEPT !.ownName = c.answer.at],
                  Fetch(c.win, "session", p.seen # "checking", CookieAfter(c), calls \ {c}))

\* With the settings left, the passkeys are only marked to be read again.
PasskeysChanged(c) ==
    LET p == window[c.win]
        rest == calls \ {c}
    IN /\ Done(c, {"passkey", "row"})
       /\ IF Showing(p) = "somebody" /\ p.screen = "settings"
          THEN Becomes(c.win, [p EXCEPT !.ownKeys = IF p.keysSeen THEN c.answer.at ELSE @],
                       Fetch(c.win, "keys", p.keysSeen, CookieAfter(c), rest))
          ELSE Becomes(c.win, [p EXCEPT !.keysOld = TRUE], rest)

NothingToRead(c) ==
    Done(c, {"password", "others", "export"}) /\ Becomes(c.win, window[c.win], calls \ {c})

Hear(c) ==
    \/ HearRefusal(c) \/ QueryFails(c) \/ CardFails(c) \/ CeremonyGoesOn(c)
    \/ ReadIgnored(c) \/ StatusRead(c) \/ SessionRead(c) \/ KeysRead(c)
    \/ LoggedOut(c) \/ Initialized(c) \/ UsernameChanged(c) \/ PasskeysChanged(c) \/ NothingToRead(c)

-----------------------------------------------------------------------------
(* The user *)

Press(w, slot, key) ==
    /\ w \in visit.windows /\ visit.presses > 0 /\ visit' = [visit EXCEPT !.presses = @ - 1]
    /\ Mounted(window[w], slot, key) /\ ~Busy(w, slot, key)
    /\ UNCHANGED <<account, jar>>

Send(w, slot, todo) == Ask(w, slot, todo, jar[JarOf(w)], calls)

\* The right password as it is now, or a wrong one.
Typed == {account.password, 0}

SubmitInit(w) ==
    /\ Press(w, "init", 0) /\ ~window[w].pressed
    /\ calls' = calls \cup {Send(w, "init", <<"init">>)}
    /\ window' = [window EXCEPT ![w].pressed = TRUE]

SubmitLogin(w) ==
    /\ Press(w, "login", 0)
    /\ \/ \E t \in Typed :
              calls' = calls \cup {[Send(w, "login", <<"login", "await">>) EXCEPT
                                        !.typed = t, !.name = account.name]}
       \/ calls' = calls \cup {Send(w, "login", <<"login options", "prompt", "login verify", "await">>)}
    /\ UNCHANGED window

\* A change proven by the password, or by a passkey just before it.
SubmitChange(w, slot, kind) ==
    /\ Press(w, slot, 0)
    /\ \/ \E t \in Typed : calls' = calls \cup {[Send(w, slot, <<kind>>) EXCEPT !.typed = t]}
       \/ /\ CanReauthWithPasskey(window[w])
          /\ calls' = calls \cup {[Send(w, slot, Reauth \o <<kind>>) EXCEPT !.bySign = TRUE]}
    /\ UNCHANGED window

SubmitUsername(w) == SubmitChange(w, "username", "change username")
SubmitPassword(w) == SubmitChange(w, "password", "change password")

AddPasskey(w) ==
    /\ Press(w, "passkey", 0)
    /\ calls' = calls \cup
           {Send(w, "passkey", <<"register options", "prompt", "register verify">>)}
    /\ UNCHANGED window

ChangePasskey(w) ==
    /\ \E key \in window[w].keys, kind \in {"rename", "remove"} :
           /\ Press(w, "row", key)
           /\ calls' = calls \cup {[Send(w, "row", <<kind>>) EXCEPT !.key = key]}
    /\ UNCHANGED window

\* The export has no ceremony of its own: without a password it takes a step-up made before.
ExportBackup(w) ==
    /\ Press(w, "export", 0)
    /\ \E t \in Typed, bySign \in BOOLEAN :
           calls' = calls \cup {[Send(w, "export", <<"export">>) EXCEPT
                                     !.typed = t, !.bySign = bySign]}
    /\ UNCHANGED window

LogOutOthers(w) ==
    /\ Press(w, "others", 0)
    /\ calls' = calls \cup {Send(w, "others", <<"logout all others">>)}
    /\ UNCHANGED window

LogOut(w) ==
    /\ Press(w, "logout", 0)
    /\ calls' = calls \cup {Send(w, "logout", <<"logout">>)}
    /\ UNCHANGED window

\* The browser's prompt: the user signs with one of the passkeys made so far, also one the account
\* no longer has; or cancels, or it fails.
AnswerPrompt(c) ==
    /\ Head(c.todo) = "prompt"
    /\ \/ /\ c.slot = "passkey"
          /\ calls' = (calls \ {c}) \cup
                 {[c EXCEPT !.todo = Tail(@), !.sid = jar[JarOf(c.win)]]}
       \/ /\ c.slot # "passkey"
          /\ \E key \in 1 .. account.made :
                 calls' = (calls \ {c}) \cup
                     {[c EXCEPT !.todo = Tail(@), !.sid = jar[JarOf(c.win)], !.key = key]}
       \/ calls' = calls \ {c}
    /\ UNCHANGED <<account, jar, window, visit>>

Moves == visit.moves > 0 /\ visit' = [visit EXCEPT !.moves = @ - 1]

\* Opening the settings reads the passkeys when there are none, when they were invalidated, or when
\* they are older than 30 seconds.
OpenScreen(w) ==
    LET p == window[w]
        there == [p EXCEPT !.screen = IF @ = "settings" THEN "dashboard" ELSE "settings"]
    IN /\ w \in visit.windows /\ Moves /\ Showing(p) = "somebody"
       /\ \E read \in BOOLEAN :
              /\ read => there.screen = "settings"
              /\ there.screen = "settings" /\ (p.keysOld \/ ~p.keysSeen) => read
              /\ Becomes(w, there,
                         IF read THEN Fetch(w, "keys", FALSE, jar[JarOf(w)], calls) ELSE calls)
       /\ UNCHANGED <<account, jar>>

\* Back online, what is old is read again.
Reconnect(w) ==
    LET p == window[w]
    IN /\ w \in visit.windows /\ Moves
       /\ \E slot \in Lookups :
              /\ p.gate = "ready"
              /\ slot = "session" => p.opened
              /\ slot = "keys" => Showing(p) = "somebody" /\ p.screen = "settings"
              /\ calls' = Fetch(w, slot, FALSE, jar[JarOf(w)], calls)
       /\ UNCHANGED <<account, jar, window>>

\* The button of the screen that says the session could not be read.
TryAgain(w) ==
    LET p == window[w]
    IN /\ Showing(p) = "error" /\ Moves
       /\ window' = [window EXCEPT ![w].failed = p.seen # "checking"]
       /\ calls' = Fetch(w, "session", p.seen # "checking", jar[JarOf(w)], calls)
       /\ UNCHANGED <<account, jar>>

NewWindow ==
    [gate |-> "loading", opened |-> FALSE, seen |-> "checking", name |-> 0, failed |-> FALSE,
     screen |-> "dashboard", keysSeen |-> FALSE, keys |-> {}, keysAt |-> 0, keysOld |-> FALSE,
     pressed |-> FALSE, ownName |-> 0, ownKeys |-> 0, endedBy |-> "",
     endedSid |-> 0, overtaken |-> FALSE, readSid |-> 0]

\* The page is loaded again; what it had under way is dropped.
Reload(w) ==
    LET others == {c \in calls : c.win # w}
    IN /\ Showing(window[w]) = "gone"
       /\ window' = [window EXCEPT ![w] = NewWindow]
       /\ calls' = Fetch(w, "status", FALSE, jar[JarOf(w)], others)
       /\ UNCHANGED <<account, jar, visit>>

-----------------------------------------------------------------------------
(* Behaviours *)

\* Nobody has an account yet; everybody is logged out; or every browser is logged in.
PagesInit ==
    /\ visit \in Visits
    /\ LET in == visit.start = "in"
           opened == visit.start # "new"
           sessions == IF in THEN 1 .. Cardinality(Jars) ELSE {}
       IN /\ account = [opened |-> opened, name |-> 1, password |-> 1, keys |-> 1 .. visit.keys,
                        keysAt |-> 1, made |-> visit.keys, live |-> sessions, proven |-> {},
                        issued |-> Cardinality(sessions)]
          /\ jar \in {j \in [Jars -> sessions \cup {0}] :
                          IF in THEN \A a, b \in Jars : j[a] # 0 /\ (j[a] = j[b] => a = b)
                          ELSE \A a \in Jars : j[a] = 0}
          /\ window = [w \in Windows |->
                 IF ~opened THEN NewWindow
                 ELSE [NewWindow EXCEPT
                           !.gate = "ready", !.opened = TRUE,
                           !.seen = IF in THEN "somebody" ELSE "nobody",
                           !.name = IF in THEN 1 ELSE 0,
                           !.screen = IF in THEN "settings" ELSE "dashboard",
                           !.keysSeen = in, !.keys = IF in THEN account.keys ELSE {},
                           !.keysAt = IF in THEN 1 ELSE 0, !.readSid = jar[JarOf(w)],
                           !.endedBy = IF in THEN "" ELSE "no session"]]
    /\ calls = IF visit.start # "new" THEN {}
               ELSE {[Ask(w, "status", <<"status">>, 0, {}) EXCEPT !.no = 1] :
                         w \in visit.windows}

PagesNext ==
    \/ \E c \in calls : Serve(c) \/ Miss(c) \/ LoseAnswer(c) \/ Hear(c) \/ AnswerPrompt(c)
    \/ Lapse
    \/ \E w \in visit.windows :
           \/ SubmitInit(w) \/ SubmitLogin(w) \/ SubmitUsername(w) \/ SubmitPassword(w)
           \/ AddPasskey(w) \/ ChangePasskey(w) \/ ExportBackup(w) \/ LogOutOthers(w) \/ LogOut(w)
           \/ OpenScreen(w) \/ Reconnect(w) \/ TryAgain(w) \/ Reload(w)

PagesSpec == PagesInit /\ [][PagesNext]_pageVars

-----------------------------------------------------------------------------
(* Properties *)

PagesTyped ==
    /\ account.live \cup account.proven \subseteq 1 .. account.issued
    /\ \A b \in Jars : jar[b] \in 0 .. account.issued
    /\ \A w \in Windows :
           Showing(window[w]) \in {"loading", "gone", "init", "error", "checking", "nobody", "somebody"}

\* The login is shown over a live session only when another session has taken the browser's cookie
\* since, or when what the server refused was a password or a passkey and not the session: a wrong
\* current password leaves the settings for the login (auth.service.ts:226, api.ts:73).
LoginIsShownForAReason ==
    \A w \in Windows :
        LET p == window[w]
        IN Showing(p) = "nobody" /\ jar[JarOf(w)] \in account.live =>
               p.endedBy = "no proof" \/ p.endedSid # jar[JarOf(w)]

\* Having heard that its session is over, a window shows the account's pages again only for another
\* session, or for a read that was under way when it heard.
PagesAreShownForAReason ==
    \A w \in Windows :
        LET p == window[w]
        IN Showing(p) = "somebody" /\ p.endedBy \in {"no session", "left"} =>
               p.readSid # p.endedSid \/ p.overtaken

\* A change the user was told of is what the window shows, or something newer, as soon as it reads
\* nothing more.
OwnChangesAreShown ==
    \A w \in Windows :
        LET p == window[w]
        IN Showing(p) = "somebody" =>
               /\ p.name >= p.ownName \/ UnderWay(w, "session") # {}
               /\ p.screen = "settings" =>
                      p.keysAt >= p.ownKeys \/ p.keysOld \/ UnderWay(w, "keys") # {}

\* No window waits for what nobody will answer.
NobodyIsStuck ==
    \A w \in visit.windows :
        LET p == window[w]
        IN /\ Showing(p) = "loading" => UnderWay(w, "status") # {}
           /\ Showing(p) = "checking" => UnderWay(w, "session") # {}
           /\ Awaiting(w, calls) # {} => UnderWay(w, "session") # {}
           /\ Showing(p) = "init" /\ p.pressed =>
                  UnderWay(w, "init") # {} \/ UnderWay(w, "status") # {}

AccountPagesAreTrue ==
    PagesTyped /\ LoginIsShownForAReason /\ PagesAreShownForAReason /\ OwnChangesAreShown
    /\ NobodyIsStuck
=============================================================================

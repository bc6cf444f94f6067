------------------------------ MODULE Sessions ------------------------------
(***************************************************************************)
(* Who a browser is signed in as: AuthService and AuthController on the    *)
(* server, fetchAPI and the useAuth store in the browser.                  *)
(*                                                                         *)
(* The server knows one refresh token per user, in memory.  The browser    *)
(* keeps the access token of its last sign-in and shows that user; when    *)
(* page and API share an origin it also keeps the server's two cookies,    *)
(* of which scripts know nothing and which the server prefers.  Calls run  *)
(* concurrently and their answers come back in any order; an answer's      *)
(* cookies are in the jar before scripts have awaited its body.  A token   *)
(* is known by its user and the time it was signed, like the JWT it stands *)
(* for: two tokens of a user signed at the same time are the same string.  *)
(***************************************************************************)
EXTENDS Integers

CONSTANTS
    Users, Browsers,
    Calls,           \* requests in flight at a time
    SameOrigin,      \* whether page and API share an origin
    AccessLife, RefreshLife,   \* lifetime of the tokens
    LinkLife,        \* how long a verification link works, says its e-mail
    MaxTime,         \* bound: time that passes
    Faulty           \* whether the server restarts, answers get lost, writes throw

ASSUME LifeAssumption ==
    {AccessLife, RefreshLife, LinkLife} \subseteq Nat \ {0} /\ MaxTime \in Nat
ASSUME ModeAssumption == {SameOrigin, Faulty} \subseteq BOOLEAN

VARIABLES
    now,
    accounts,    \* rows of table users
    verified,    \* accounts with email_verified set
    links,       \* verificationTokens: whose link is still good
    stored,      \* refreshTokens: the one token each user may refresh with
    shown,       \* the user each browser shows, persisted with its token
    bearer,      \* the access token scripts of the browser know
    jar,         \* the browser's httpOnly cookies
    call,        \* how far each call is
    mailed,      \* auxiliary: when each link was mailed, since the last restart
    mixed        \* auxiliary: browsers whose cookies a script may know nothing of

server == <<accounts, verified, links, stored, mailed>>
browser == <<shown, bearer, jar, mixed>>
vars == <<now, server, browser, call>>

Nobody == "nobody"
NoToken == [user |-> Nobody, iat |-> 0]
Tokens == [user: Users, iat: 0 .. MaxTime]
Held == Tokens \cup {NoToken}
Person == Users \cup {Nobody}
NotMailed == -1
Idle == [at |-> "idle"]

Call == {Idle}
    \cup [at: {"create", "sign"}, kind: {"login", "refresh"}, browser: Browsers, user: Users]
    \cup [at: {"store", "answer", "read"}, kind: {"login", "refresh"}, browser: Browsers, token: Tokens]
    \cup [at: {"sent"}, browser: Browsers, cookie: Held, bearer: Held, as: Person]
    \cup [at: {"check"}, browser: Browsers, token: Held]
    \cup [at: {"unauthorized", "refused"}, browser: Browsers]
    \cup [at: {"served"}, browser: Browsers, as: Person, user: Users]
    \cup [at: {"verify"}, user: Users]

TypeOK ==
    /\ now \in 0 .. MaxTime
    /\ accounts \subseteq Users /\ verified \subseteq Users /\ links \subseteq Users
    /\ stored \in [Users -> Held]
    /\ shown \in [Browsers -> Person] /\ bearer \in [Browsers -> Held]
    /\ jar \in [Browsers -> [access: Held, refresh: Held]]
    /\ call \in [Calls -> Call]
    /\ mailed \in [Users -> {NotMailed} \cup 0 .. MaxTime]
    /\ mixed \subseteq Browsers

\* The server starts: what was in the table stays, what was in memory is gone.
Init ==
    /\ now = 0
    /\ accounts \in SUBSET Users /\ verified \in SUBSET accounts /\ links = {}
    /\ stored = [u \in Users |-> NoToken]
    /\ shown = [b \in Browsers |-> Nobody]
    /\ bearer = [b \in Browsers |-> NoToken]
    /\ jar = [b \in Browsers |-> [access |-> NoToken, refresh |-> NoToken]]
    /\ call = [c \in Calls |-> Idle]
    /\ mailed = [u \in Users |-> NotMailed]
    /\ mixed = {}

-----------------------------------------------------------------------------
(* Slips a maintainer could make below, to see that the properties notice. *)

MutSignedOutKeepsUser(b) == shown[b]
MutAfterGivingUpAgain(c) ==
    [at |-> "sent", browser |-> call[c].browser, cookie |-> NoToken, bearer |-> NoToken,
     as |-> Nobody]
MutSpentAtLookup(u) == {u}

-----------------------------------------------------------------------------
(* Tokens. *)

Issued(u) == [user |-> u, iat |-> now]

Good(token, life) == token # NoToken /\ now < token.iat + life

\* A cookie's maxAge is its token's lifetime, so the browser drops it then.
Sendable(cookie, life) == IF Good(cookie, life) THEN cookie ELSE NoToken

GoOn(c, next) == call' = [call EXCEPT ![c] = next]

\* Links spent when one is looked up.
Spent(u) == {}

-----------------------------------------------------------------------------
(* register, login, verifyEmail. *)

\* isLoading: a browser signs in once at a time.
SigningIn(b) ==
    \E c \in Calls : /\ call[c].at \in {"create", "sign", "store", "answer", "read"}
                     /\ call[c].kind = "login" /\ call[c].browser = b

Register(c, b, u) ==
    /\ call[c] = Idle /\ ~ SigningIn(b)
    /\ u \notin accounts
    /\ GoOn(c, [at |-> "create", kind |-> "login", browser |-> b, user |-> u])
    /\ UNCHANGED <<now, server, browser>>

CreateUser(c) ==
    /\ call[c].at = "create" /\ call[c].user \notin accounts
    /\ accounts' = accounts \cup {call[c].user}
    /\ links' = links \cup {call[c].user}
    /\ mailed' = [mailed EXCEPT ![call[c].user] = now]
    /\ GoOn(c, [call[c] EXCEPT !.at = "sign"])
    /\ UNCHANGED <<now, verified, stored, browser>>

\* users.email is unique; a create that throws may have been committed.
CreateUserFails(c) ==
    /\ call[c].at = "create" /\ (call[c].user \in accounts \/ Faulty)
    /\ accounts' \in {accounts} \cup {accounts \cup {call[c].user} : f \in {Faulty} \ {FALSE}}
    /\ GoOn(c, Idle)
    /\ UNCHANGED <<now, verified, links, stored, mailed, browser>>

\* With the right password.
Login(c, b, u) ==
    /\ call[c] = Idle /\ ~ SigningIn(b)
    /\ u \in accounts
    /\ GoOn(c, [at |-> "sign", kind |-> "login", browser |-> b, user |-> u])
    /\ UNCHANGED <<now, server, browser>>

OpenLink(c, u) ==
    /\ call[c] = Idle /\ u \in links
    /\ GoOn(c, [at |-> "verify", user |-> u])
    /\ links' = links \ Spent(u)
    /\ UNCHANGED <<now, accounts, verified, stored, mailed, browser>>

VerifyEmail(c) ==
    /\ call[c].at = "verify"
    /\ verified' = verified \cup {call[c].user}
    /\ links' = links \ {call[c].user}
    /\ GoOn(c, Idle)
    /\ UNCHANGED <<now, accounts, stored, mailed, browser>>

-----------------------------------------------------------------------------
(* generateTokenPair: signing awaits, storing does not. *)

Sign(c) ==
    /\ call[c].at = "sign"
    /\ GoOn(c, [at |-> "store", kind |-> call[c].kind, browser |-> call[c].browser,
                token |-> Issued(call[c].user)])
    /\ UNCHANGED <<now, server, browser>>

Store(c) ==
    /\ call[c].at = "store"
    /\ stored' = [stored EXCEPT ![call[c].token.user] = call[c].token]
    /\ GoOn(c, [call[c] EXCEPT !.at = "answer"])
    /\ UNCHANGED <<now, accounts, verified, links, mailed, browser>>

-----------------------------------------------------------------------------
(* The browser. *)

\* Answers whose cookies came and whose body scripts still await.
HalfRead(b) == {c \in Calls : call[c].at = "read" /\ call[c].browser = b}

\* fetch resolves: the browser heeds Set-Cookie only from its own origin.
TakeCookies(c) ==
    /\ call[c].at = "answer"
    /\ jar' = IF SameOrigin
              THEN [jar EXCEPT ![call[c].browser] = [access |-> call[c].token,
                                                     refresh |-> call[c].token]]
              ELSE jar
    /\ mixed' = IF HalfRead(call[c].browser) = {} THEN mixed \ {call[c].browser}
                ELSE mixed \cup {call[c].browser}
    /\ GoOn(c, [call[c] EXCEPT !.at = "read"])
    /\ UNCHANGED <<now, server, shown, bearer>>

SignedIn(c) ==
    /\ call[c].at = "read" /\ call[c].kind = "login"
    /\ shown' = [shown EXCEPT ![call[c].browser] = call[c].token.user]
    /\ bearer' = [bearer EXCEPT ![call[c].browser] = call[c].token]
    /\ GoOn(c, Idle)
    /\ UNCHANGED <<now, server, jar, mixed>>

\* logout of the store; nothing calls the server's.
Logout(b) ==
    /\ shown[b] # Nobody
    /\ shown' = [shown EXCEPT ![b] = Nobody]
    /\ bearer' = [bearer EXCEPT ![b] = NoToken]
    /\ UNCHANGED <<now, server, jar, mixed, call>>

\* Whom a request comes from, as far as scripts can know.
Sender(b) ==
    IF SameOrigin /\ (HalfRead(b) # {} \/ b \in mixed) THEN Nobody ELSE shown[b]

Send(c, b) ==
    /\ call[c] = Idle
    /\ GoOn(c, [at |-> "sent", browser |-> b, as |-> Sender(b), bearer |-> bearer[b],
                cookie |-> Sendable(jar[b].access, AccessLife)])
    /\ UNCHANGED <<now, server, browser>>

\* JwtStrategy: the cookie first, then the header.
Credential(c) == IF call[c].cookie # NoToken THEN call[c].cookie ELSE call[c].bearer

Serve(c) ==
    /\ call[c].at = "sent" /\ Good(Credential(c), AccessLife)
    /\ GoOn(c, [at |-> "served", browser |-> call[c].browser, as |-> call[c].as,
                user |-> Credential(c).user])
    /\ UNCHANGED <<now, server, browser>>

Answered(c) ==
    /\ call[c].at = "served"
    /\ GoOn(c, Idle)
    /\ UNCHANGED <<now, server, browser>>

Refuse(c) ==
    /\ call[c].at = "sent" /\ ~ Good(Credential(c), AccessLife)
    /\ GoOn(c, [at |-> "unauthorized", browser |-> call[c].browser])
    /\ UNCHANGED <<now, server, browser>>

tryRefreshToken(c) ==
    /\ call[c].at = "unauthorized"
    /\ GoOn(c, [at |-> "check", browser |-> call[c].browser,
                token |-> Sendable(jar[call[c].browser].refresh, RefreshLife)])
    /\ UNCHANGED <<now, server, browser>>

Honoured(token) == Good(token, RefreshLife) /\ stored[token.user] = token

\* What is checked here may be rotated before the new pair is stored.
refreshToken(c) ==
    /\ call[c].at = "check"
    /\ GoOn(c, IF Honoured(call[c].token)
               THEN [at |-> "sign", kind |-> "refresh", browser |-> call[c].browser,
                     user |-> call[c].token.user]
               ELSE [at |-> "refused", browser |-> call[c].browser])
    /\ UNCHANGED <<now, server, browser>>

\* Who the browser shows once it sends its user to the sign-in page.
SignedOut(b) == Nobody

\* fetchAPI tries a refresh once and then fails.
AfterGivingUp(c) == Idle

GiveUp(c) ==
    /\ shown' = [shown EXCEPT ![call[c].browser] = SignedOut(call[c].browser)]
    /\ bearer' = [bearer EXCEPT ![call[c].browser] = NoToken]
    /\ GoOn(c, AfterGivingUp(c))
    /\ UNCHANGED <<now, server, jar, mixed>>

RefreshRefused(c) == call[c].at = "refused" /\ GiveUp(c)

\* The answer brought cookies but no accessToken, for which the client looks.
RefreshGranted(c) ==
    /\ call[c].at = "read" /\ call[c].kind = "refresh"
    /\ GiveUp(c)

-----------------------------------------------------------------------------
(* Failures.  A sign-in or a request that fails is over; a refresh that    *)
(* fails, for whatever reason, counts as refused.                          *)

Refreshing(c) ==
    \/ call[c].at = "check"
    \/ call[c].at \in {"sign", "store", "answer", "read"} /\ call[c].kind = "refresh"

Broken(c) ==
    CASE Refreshing(c) -> [at |-> "refused", browser |-> call[c].browser]
      [] call[c].at \in {"unauthorized", "refused"} -> call[c]
      [] OTHER -> Idle

Lose(c) ==
    /\ Faulty /\ call[c] # Idle
    /\ GoOn(c, Broken(c))
    /\ mixed' = mixed \cup {b \in Browsers : c \in HalfRead(b)}
    /\ UNCHANGED <<now, server, shown, bearer, jar>>

\* An answer that is being read has left the server.
Restart ==
    /\ Faulty
    /\ stored' = [u \in Users |-> NoToken]
    /\ links' = {} /\ mailed' = [u \in Users |-> NotMailed]
    /\ call' = [c \in Calls |-> IF call[c].at = "read" THEN call[c] ELSE Broken(c)]
    /\ UNCHANGED <<now, accounts, verified, browser>>

Tick ==
    /\ now < MaxTime
    /\ now' = now + 1
    /\ UNCHANGED <<server, browser, call>>

-----------------------------------------------------------------------------
Begin(c) ==
    \/ \E b \in Browsers, u \in Users : Register(c, b, u) \/ Login(c, b, u)
    \/ \E b \in Browsers : Send(c, b)
    \/ \E u \in Users : OpenLink(c, u)

Continue(c) ==
    \/ CreateUser(c) \/ CreateUserFails(c)
    \/ VerifyEmail(c)
    \/ Sign(c) \/ Store(c) \/ TakeCookies(c) \/ SignedIn(c)
    \/ Serve(c) \/ Answered(c) \/ Refuse(c)
    \/ tryRefreshToken(c) \/ refreshToken(c)
    \/ RefreshRefused(c) \/ RefreshGranted(c)

Next ==
    \/ \E c \in Calls : Begin(c) \/ Continue(c) \/ Lose(c)
    \/ \E b \in Browsers : Logout(b)
    \/ Restart
    \/ Tick

Spec == Init /\ [][Next]_vars

(* Calls that were begun go on.                                            *)
Fairness == \A c \in Calls : WF_vars(Continue(c))

FairSpec == Spec /\ Fairness

-----------------------------------------------------------------------------
(* What a person does on a page that shows them as signed in is done as    *)
(* that person: no sign-out and sign-in of somebody else, no late answer   *)
(* to the first one's refresh, makes the server take the request for the   *)
(* other one's.  One tab to a browser.  Left out are requests sent between *)
(* an answer's cookies and its body, and after two such answers overlapped *)
(* or a body was lost, until a later answer is read: there the server may  *)
(* take the request for the other one's.                                   *)
ShownUserActs ==
    \A c \in Calls :
        call[c].at = "served" /\ call[c].as # Nobody => call[c].user = call[c].as

(* Until the server restarts, a link works as long as its e-mail says, or  *)
(* until the account is verified: neither a concurrent registration nor an *)
(* opening whose write fails spends it.                                    *)
Fresh(u) == mailed[u] # NotMailed /\ now < mailed[u] + LinkLife

LinkUntilVerified == \A u \in Users \ verified : Fresh(u) => u \in links

(* Every call ends, through refusals, refreshes, lost answers and writes   *)
(* that throw.  The client's retry with a new token is never reached, see  *)
(* RefreshKeepsSession.                                                    *)
CallSettles == \A c \in Calls : []<>(call[c] = Idle)

-----------------------------------------------------------------------------
(* api.ts, on a 401: refresh the token and retry.  A refresh that the      *)
(* server granted does not sign the user out.                              *)
RefreshKeepsSession ==
    [][\A c \in Calls :
          RefreshGranted(c) /\ shown[call[c].browser] = call[c].token.user =>
              shown'[call[c].browser] = shown[call[c].browser]]_vars
=============================================================================

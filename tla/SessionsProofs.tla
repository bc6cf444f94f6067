--------------------------- MODULE SessionsProofs ---------------------------
(***************************************************************************)
(* Proofs about Sessions, for any number of users, browsers and calls, any *)
(* lifetimes, with and without failures.                                   *)
(***************************************************************************)
EXTENDS Sessions, TLAPS

(* What a call holds between two awaits, read off its type.                *)
LEMMA CallFields ==
    ASSUME TypeOK, NEW c \in Calls
    PROVE  /\ call[c] \in Call
           /\ call[c].at \in {"create", "sign"} =>
                 /\ call[c].kind \in {"login", "refresh"}
                 /\ call[c].browser \in Browsers /\ call[c].user \in Users
           /\ call[c].at \in {"store", "answer", "read"} =>
                 /\ call[c].kind \in {"login", "refresh"}
                 /\ call[c].browser \in Browsers
                 /\ call[c].token \in Tokens /\ call[c].token.user \in Users
           /\ call[c].at = "sent" =>
                 /\ call[c].browser \in Browsers /\ call[c].as \in Person
                 /\ call[c].cookie \in Held /\ call[c].bearer \in Held
           /\ call[c].at = "check" => call[c].browser \in Browsers /\ call[c].token \in Held
           /\ call[c].at \in {"unauthorized", "refused"} => call[c].browser \in Browsers
           /\ call[c].at = "verify" => call[c].user \in Users
<1>1. call[c] \in Call  BY DEF TypeOK
<1>. QED  BY <1>1 DEF Call, Idle, Tokens

(* The credential that the server goes by is a user's, if it is good.      *)
LEMMA CredentialUser ==
    ASSUME TypeOK, NEW c \in Calls, call[c].at = "sent", Good(Credential(c), AccessLife)
    PROVE  Credential(c).user \in Users
  BY CallFields DEF Credential, Good, Held, Tokens

(* A call that goes on to a typed step keeps the types of all calls.       *)
LEMMA GoOnType ==
    ASSUME TypeOK, NEW c, NEW next \in Call, GoOn(c, next)
    PROVE  call' \in [Calls -> Call]
  BY DEF TypeOK, GoOn

(* Losing an answer leaves a call in a typed state.                        *)
LEMMA BrokenType ==
    ASSUME TypeOK, NEW c \in Calls
    PROVE  Broken(c) \in Call
<1>1. CASE Refreshing(c)
  BY <1>1, CallFields DEF Broken, Refreshing, Call
<1>2. CASE ~ Refreshing(c) /\ call[c].at \in {"unauthorized", "refused"}
  BY <1>2, CallFields DEF Broken
<1>3. CASE ~ Refreshing(c) /\ call[c].at \notin {"unauthorized", "refused"}
  BY <1>3 DEF Broken, Call
<1>. QED  BY <1>1, <1>2, <1>3

-----------------------------------------------------------------------------
(* Type correctness, by the part of the system that moves.                 *)
LEMMA BeginTypes ==
    ASSUME TypeOK, NEW c \in Calls, Begin(c)
    PROVE  TypeOK'
<1>1. ASSUME NEW b \in Browsers, NEW u \in Users, Register(c, b, u) \/ Login(c, b, u)
      PROVE  TypeOK'
  <2>1. PICK next \in Call : GoOn(c, next)
    <3>1. [at |-> "create", kind |-> "login", browser |-> b, user |-> u] \in Call  BY DEF Call
    <3>2. [at |-> "sign", kind |-> "login", browser |-> b, user |-> u] \in Call  BY DEF Call
    <3>. QED  BY <1>1, <3>1, <3>2 DEF Register, Login
  <2>. QED  BY <1>1, <2>1, GoOnType DEF Register, Login, TypeOK, server, browser
<1>2. ASSUME NEW b \in Browsers, Send(c, b)
      PROVE  TypeOK'
  <2>1. Sendable(jar[b].access, AccessLife) \in Held  BY DEF TypeOK, Sendable, Held
  <2>3. Sender(b) \in Person  BY DEF Sender, Person, TypeOK
  <2>2. [at |-> "sent", browser |-> b, as |-> Sender(b), bearer |-> bearer[b],
         cookie |-> Sendable(jar[b].access, AccessLife)] \in Call
    BY <2>1, <2>3 DEF Call, TypeOK
  <2>. QED  BY <1>2, <2>2, GoOnType DEF Send, TypeOK, server, browser
<1>3. ASSUME NEW u \in Users, OpenLink(c, u)
      PROVE  TypeOK'
  <2>1. [at |-> "verify", user |-> u] \in Call  BY DEF Call
  <2>. QED  BY <1>3, <2>1, GoOnType DEF OpenLink, TypeOK, Spent, browser
<1>. QED  BY <1>1, <1>2, <1>3 DEF Begin

LEMMA SignInTypes ==
    ASSUME TypeOK, NEW c \in Calls,
           \/ CreateUser(c) \/ CreateUserFails(c) \/ VerifyEmail(c)
           \/ Sign(c) \/ Store(c) \/ TakeCookies(c) \/ SignedIn(c)
    PROVE  TypeOK'
<1>a. Idle \in Call  BY DEF Call
<1>1. CASE CreateUser(c)
  <2>1. [call[c] EXCEPT !.at = "sign"] \in Call
    <3>1. call[c] \in [at: {"create", "sign"}, kind: {"login", "refresh"}, browser: Browsers, user: Users]
      BY <1>1, CallFields DEF CreateUser, Call, Idle
    <3>. QED  BY <3>1 DEF Call
  <2>2. mailed' \in [Users -> {NotMailed} \cup 0 .. MaxTime]
    BY <1>1, CallFields DEF CreateUser, TypeOK
  <2>. QED  BY <1>1, <2>1, <2>2, GoOnType, CallFields DEF CreateUser, TypeOK, browser
<1>2. CASE CreateUserFails(c)
  <2>1. accounts' \subseteq Users
    BY <1>2, CallFields DEF CreateUserFails, TypeOK
  <2>. QED  BY <1>2, <1>a, <2>1, GoOnType DEF CreateUserFails, TypeOK, browser
<1>3. CASE VerifyEmail(c)
  BY <1>3, <1>a, GoOnType, CallFields DEF VerifyEmail, TypeOK, browser
<1>4. CASE Sign(c)
  <2>1. Issued(call[c].user) \in Tokens
    BY <1>4, CallFields DEF Sign, Issued, Tokens, TypeOK
  <2>2. [at |-> "store", kind |-> call[c].kind, browser |-> call[c].browser,
         token |-> Issued(call[c].user)] \in Call
    BY <1>4, <2>1, CallFields DEF Sign, Call
  <2>. QED  BY <1>4, <2>2, GoOnType DEF Sign, TypeOK, server, browser
<1>5. CASE Store(c)
  <2>1. [call[c] EXCEPT !.at = "answer"] \in Call
    <3>1. call[c] \in [at: {"store", "answer", "read"}, kind: {"login", "refresh"}, browser: Browsers, token: Tokens]
      BY <1>5, CallFields DEF Store, Call, Idle
    <3>. QED  BY <3>1 DEF Call
  <2>2. stored' \in [Users -> Held]
    BY <1>5, CallFields DEF Store, TypeOK, Held
  <2>. QED  BY <1>5, <2>1, <2>2, GoOnType DEF Store, TypeOK, browser
<1>6. CASE TakeCookies(c)
  <2>1. [call[c] EXCEPT !.at = "read"] \in Call
    <3>1. call[c] \in [at: {"store", "answer", "read"}, kind: {"login", "refresh"}, browser: Browsers, token: Tokens]
      BY <1>6, CallFields DEF TakeCookies, Call, Idle
    <3>. QED  BY <3>1 DEF Call
  <2>2. jar' \in [Browsers -> [access: Held, refresh: Held]]
    BY <1>6, CallFields DEF TakeCookies, TypeOK, Held
  <2>3. mixed' \subseteq Browsers
    BY <1>6, CallFields DEF TakeCookies, TypeOK
  <2>. QED  BY <1>6, <2>1, <2>2, <2>3, GoOnType DEF TakeCookies, TypeOK, server
<1>7. CASE SignedIn(c)
  <2>1. call[c].browser \in Browsers /\ call[c].token \in Tokens /\ call[c].token.user \in Users
    BY <1>7, CallFields DEF SignedIn
  <2>2. shown' \in [Browsers -> Person] /\ bearer' \in [Browsers -> Held]
    BY <1>7, <2>1 DEF SignedIn, TypeOK, Held, Person
  <2>. QED  BY <1>7, <1>a, <2>2, GoOnType DEF SignedIn, TypeOK, server
<1>. QED  BY <1>1, <1>2, <1>3, <1>4, <1>5, <1>6, <1>7

LEMMA RequestTypes ==
    ASSUME TypeOK, NEW c \in Calls,
           \/ Serve(c) \/ Answered(c) \/ Refuse(c)
           \/ tryRefreshToken(c) \/ refreshToken(c)
    PROVE  TypeOK'
<1>1. PICK next \in Call : GoOn(c, next)
  <2>1. CASE Serve(c)
    <3>1. [at |-> "served", browser |-> call[c].browser, as |-> call[c].as,
           user |-> Credential(c).user] \in Call
      BY <2>1, CredentialUser, CallFields DEF Serve, Call
    <3>. QED  BY <2>1, <3>1 DEF Serve
  <2>2. CASE Answered(c)
    BY <2>2 DEF Answered, Call
  <2>3. CASE Refuse(c)
    <3>1. [at |-> "unauthorized", browser |-> call[c].browser] \in Call
      BY <2>3, CallFields DEF Refuse, Call
    <3>. QED  BY <2>3, <3>1 DEF Refuse
  <2>4. CASE tryRefreshToken(c)
    <3>1. call[c].browser \in Browsers  BY <2>4, CallFields DEF tryRefreshToken
    <3>2. Sendable(jar[call[c].browser].refresh, RefreshLife) \in Held
      BY <3>1 DEF TypeOK, Sendable, Held
    <3>3. [at |-> "check", browser |-> call[c].browser,
           token |-> Sendable(jar[call[c].browser].refresh, RefreshLife)] \in Call
      BY <3>1, <3>2 DEF Call
    <3>. QED  BY <2>4, <3>3 DEF tryRefreshToken
  <2>5. CASE refreshToken(c)
    <3>1. call[c].browser \in Browsers /\ call[c].token \in Held
      BY <2>5, CallFields DEF refreshToken
    <3>2. Honoured(call[c].token) => call[c].token.user \in Users
      BY <3>1 DEF Honoured, Good, Held, Tokens
    <3>3. [at |-> "refused", browser |-> call[c].browser] \in Call  BY <3>1 DEF Call
    <3>4. Honoured(call[c].token) =>
             [at |-> "sign", kind |-> "refresh", browser |-> call[c].browser,
              user |-> call[c].token.user] \in Call
      BY <3>1, <3>2 DEF Call
    <3>. QED  BY <2>5, <3>3, <3>4 DEF refreshToken
  <2>. QED  BY <2>1, <2>2, <2>3, <2>4, <2>5
<1>2. UNCHANGED <<now, server, browser>>
  BY DEF Serve, Answered, Refuse, tryRefreshToken, refreshToken
<1>. QED  BY <1>1, <1>2, GoOnType DEF TypeOK, server, browser

LEMMA GiveUpTypes ==
    ASSUME TypeOK, NEW c \in Calls, RefreshRefused(c) \/ RefreshGranted(c)
    PROVE  TypeOK'
<1>1. call[c].browser \in Browsers
  BY CallFields DEF RefreshRefused, RefreshGranted
<1>2. GiveUp(c)  BY DEF RefreshRefused, RefreshGranted
<1>3. shown' \in [Browsers -> Person] /\ bearer' \in [Browsers -> Held]
  BY <1>2 DEF GiveUp, SignedOut, TypeOK, Person, Held
<1>4. call' \in [Calls -> Call]
  BY <1>2, GoOnType DEF GiveUp, AfterGivingUp, Call
<1>. QED  BY <1>2, <1>3, <1>4 DEF GiveUp, TypeOK, server

LEMMA FailureTypes ==
    ASSUME TypeOK,
           \/ \E c \in Calls : Lose(c)
           \/ \E b \in Browsers : Logout(b)
           \/ Restart \/ Tick \/ UNCHANGED vars
    PROVE  TypeOK'
<1>1. ASSUME NEW c \in Calls, Lose(c)
      PROVE  TypeOK'
  <2>1. mixed' \subseteq Browsers  BY <1>1 DEF Lose, TypeOK
  <2>. QED  BY <1>1, <2>1, BrokenType, GoOnType DEF Lose, TypeOK, server
<1>2. ASSUME NEW b \in Browsers, Logout(b)
      PROVE  TypeOK'
  BY <1>2 DEF Logout, TypeOK, Person, Held, server
<1>3. CASE Restart
  BY <1>3, BrokenType DEF Restart, TypeOK, Held, browser
<1>4. CASE Tick
  BY <1>4, LifeAssumption DEF Tick, TypeOK, server, browser
<1>5. CASE UNCHANGED vars
  BY <1>5 DEF vars, server, browser, TypeOK
<1>. QED  BY <1>1, <1>2, <1>3, <1>4, <1>5

LEMMA InitTypes == Init => TypeOK
<1>1. Idle \in Call /\ NoToken \in Held /\ Nobody \in Person  BY DEF Call, Held, Person
<1>2. 0 \in 0 .. MaxTime  BY LifeAssumption
<1>6. Init => mailed \in [Users -> {NotMailed} \cup 0 .. MaxTime]  BY DEF Init
<1>3. Init => jar \in [Browsers -> [access: Held, refresh: Held]]  BY <1>1 DEF Init
<1>4. Init => /\ stored \in [Users -> Held] /\ bearer \in [Browsers -> Held]
              /\ shown \in [Browsers -> Person]
  BY <1>1 DEF Init
<1>5. Init => call \in [Calls -> Call]  BY <1>1 DEF Init
<1>. QED  BY <1>2, <1>3, <1>4, <1>5, <1>6 DEF Init, TypeOK

LEMMA StepTypes == TypeOK /\ [Next]_vars => TypeOK'
  BY BeginTypes, SignInTypes, RequestTypes, GiveUpTypes, FailureTypes DEF Next, Continue

(* Every call, cookie and stored token is one the program can have.        *)
THEOREM TypeCorrect == Spec => []TypeOK
  BY InitTypes, StepTypes, PTL DEF Spec

-----------------------------------------------------------------------------
(* A call never takes a user's verification link away before the account   *)
(* is verified: only VerifyEmail and a restart remove links.               *)
LinksAtRest == UNCHANGED <<now, accounts, verified, links, mailed>>

LEMMA LinkStep ==
    ASSUME TypeOK, LinkUntilVerified, [Next]_vars
    PROVE  LinkUntilVerified'
<1>. USE DEF LinkUntilVerified, Fresh
<1>1. CASE UNCHANGED <<now, verified, links, mailed>>
  BY <1>1
<1>2. ASSUME NEW c \in Calls, Begin(c)
      PROVE  LinkUntilVerified'
  <2>1. LinksAtRest
    BY <1>2 DEF Begin, Register, Login, Send, OpenLink, Spent, server, LinksAtRest
  <2>. QED  BY <1>1, <2>1 DEF LinksAtRest
<1>3. ASSUME NEW c \in Calls, CreateUser(c)
      PROVE  LinkUntilVerified'
  <2>1. ASSUME NEW u \in Users
        PROVE  mailed'[u] = IF u = call[c].user THEN now ELSE mailed[u]
    BY <1>3 DEF CreateUser, TypeOK
  <2>. QED  BY <1>3, <2>1 DEF CreateUser
<1>4. ASSUME NEW c \in Calls, VerifyEmail(c)
      PROVE  LinkUntilVerified'
  BY <1>4 DEF VerifyEmail
<1>5. CASE Restart
  BY <1>5 DEF Restart
<1>6. CASE Tick
  <2>1. now' = now + 1 /\ UNCHANGED <<verified, links, mailed>>
    BY <1>6 DEF Tick, server
  <2>2. ASSUME NEW u \in Users, Fresh(u)'
        PROVE  Fresh(u)
    <3>1. mailed[u] \in {NotMailed} \cup 0 .. MaxTime /\ now \in 0 .. MaxTime  BY DEF TypeOK
    <3>2. LinkLife \in Nat /\ MaxTime \in Nat  BY LifeAssumption
    <3>3. mailed[u] # NotMailed /\ now + 1 < mailed[u] + LinkLife  BY <2>1, <2>2
    <3>. QED  BY <3>1, <3>2, <3>3 DEF NotMailed
  <2>. QED  BY <2>1, <2>2
<1>7. ASSUME NEW c \in Calls, Continue(c), ~ CreateUser(c), ~ VerifyEmail(c)
      PROVE  UNCHANGED <<now, verified, links, mailed>>
  BY <1>7 DEF Continue, CreateUserFails, Sign, Store, TakeCookies, SignedIn, Serve, Answered,
        Refuse, tryRefreshToken, refreshToken, RefreshRefused, RefreshGranted, GiveUp, server
<1>8. CASE \/ \E c \in Calls : Lose(c)
           \/ \E b \in Browsers : Logout(b)
           \/ UNCHANGED vars
  <2>1. UNCHANGED <<now, verified, links, mailed>>
    BY <1>8 DEF Lose, Logout, vars, server
  <2>. QED  BY <1>1, <2>1
<1>. QED  BY <1>1, <1>2, <1>3, <1>4, <1>5, <1>6, <1>7, <1>8 DEF Next

(* A link works until its account is verified or its time is up, through   *)
(* concurrent registrations and writes that fail.                          *)
THEOREM LinkKept == Spec => []LinkUntilVerified
<1>1. Init => LinkUntilVerified  BY DEF Init, LinkUntilVerified, Fresh
<1>. QED  BY <1>1, LinkStep, TypeCorrect, PTL DEF Spec

-----------------------------------------------------------------------------
(* What a browser shows and what it holds belong together.  The cookie,    *)
(* which the server prefers, comes before the answer it belongs to is      *)
(* read: while one is, the jar is that answer's.                           *)
Belongs(token, u) == token = NoToken \/ token.user = u

BearerFits == \A b \in Browsers : shown[b] # Nobody => Belongs(bearer[b], shown[b])

JarFitsIn(b) ==
    /\ \A c, d \in HalfRead(b) : c = d
    /\ \A c \in HalfRead(b) : Belongs(jar[b].access, call[c].token.user)
    /\ HalfRead(b) = {} /\ shown[b] # Nobody => Belongs(jar[b].access, shown[b])

JarFits == SameOrigin => \A b \in Browsers \ mixed : JarFitsIn(b)

\* Without cookies there is nothing in the jar.
JarEmpty == ~ SameOrigin => \A b \in Browsers : jar[b].access = NoToken

\* What a request carries was its sender's when it was sent.
RequestsFit ==
    \A c \in Calls :
        call[c].at = "sent" /\ call[c].as # Nobody =>
            Belongs(call[c].cookie, call[c].as) /\ Belongs(call[c].bearer, call[c].as)

IInv == TypeOK /\ BearerFits /\ JarFits /\ JarEmpty /\ RequestsFit /\ ShownUserActs

\* Nothing is read and no body comes: what is half read stays.
ReadsRest(b) ==
    \A d \in Calls :
        (call[d].at = "read" /\ call[d].browser = b)
            \/ (call'[d].at = "read" /\ call'[d].browser = b) => call'[d] = call[d]

LEMMA HalfReadRests ==
    ASSUME NEW b, ReadsRest(b)
    PROVE  HalfRead(b)' = HalfRead(b) /\ \A d \in HalfRead(b) : call'[d] = call[d]
  BY DEF ReadsRest, HalfRead

LEMMA JarRests ==
    ASSUME NEW b, JarFitsIn(b), ReadsRest(b), UNCHANGED jar[b], shown'[b] \in {shown[b], Nobody}
    PROVE  JarFitsIn(b)'
<1>1. HalfRead(b)' = HalfRead(b) /\ \A d \in HalfRead(b) : call'[d] = call[d]
  BY HalfReadRests
<1>. QED  BY <1>1 DEF JarFitsIn

\* A call's step leaves the others where they are.
LEMMA OthersRest ==
    ASSUME TypeOK, NEW c \in Calls, NEW next, GoOn(c, next)
    PROVE  call'[c] = next /\ \A d \in Calls : d # c => UNCHANGED call[d]
  BY DEF GoOn, TypeOK

LEMMA CookiesTaken ==
    ASSUME IInv, NEW c \in Calls, TakeCookies(c)
    PROVE  JarFits'
<1>1. PICK b \in Browsers : b = call[c].browser  BY CallFields DEF TakeCookies, IInv
<1>2. call[c].at = "answer" /\ call'[c] = [call[c] EXCEPT !.at = "read"]
  BY OthersRest DEF TakeCookies, IInv
<1>3. \A d \in Calls : d # c => UNCHANGED call[d]  BY OthersRest DEF TakeCookies, IInv
<1>4. call'[c].at = "read" /\ call'[c].browser = b /\ call'[c].token = call[c].token
  <2>1. call[c] \in [at: {"store", "answer", "read"}, kind: {"login", "refresh"}, browser: Browsers, token: Tokens]
    BY <1>2, CallFields DEF IInv, Call, Idle
  <2>. QED  BY <1>1, <1>2, <2>1
<1>5. ASSUME NEW b2 \in Browsers \ mixed', b2 # b, SameOrigin
      PROVE  JarFitsIn(b2)'
  <2>1. ReadsRest(b2)  BY <1>1, <1>2, <1>3, <1>4, <1>5 DEF ReadsRest
  <2>2. UNCHANGED <<jar[b2], shown[b2]>>  BY <1>1, <1>5 DEF TakeCookies, IInv, TypeOK
  <2>3. b2 \notin mixed  BY <1>1, <1>5 DEF TakeCookies
  <2>. QED  BY <1>5, <2>1, <2>2, <2>3, JarRests DEF IInv, JarFits
<1>6. ASSUME b \notin mixed', SameOrigin
      PROVE  JarFitsIn(b)'
  <2>1. HalfRead(b) = {}  BY <1>1, <1>6 DEF TakeCookies
  <2>2. HalfRead(b)' = {c}
    <3>1. \A d \in Calls : d # c => ~ (call'[d].at = "read" /\ call'[d].browser = b)
      BY <1>3, <2>1 DEF HalfRead
    <3>. QED  BY <1>4, <3>1 DEF HalfRead
  <2>3. jar'[b].access = call[c].token
    BY <1>1, <1>6 DEF TakeCookies, IInv, TypeOK
  <2>. QED  BY <1>4, <2>2, <2>3 DEF JarFitsIn, Belongs
<1>. QED  BY <1>5, <1>6 DEF JarFits

LEMMA BodyRead ==
    ASSUME IInv, NEW c \in Calls, SignedIn(c) \/ RefreshGranted(c)
    PROVE  JarFits'
<1>1. PICK b \in Browsers : b = call[c].browser /\ call[c].at = "read"
  BY CallFields DEF SignedIn, RefreshGranted, IInv
<1>2. call'[c] = Idle /\ \A d \in Calls : d # c => UNCHANGED call[d]
  BY OthersRest DEF SignedIn, RefreshGranted, GiveUp, AfterGivingUp, IInv
<1>3. UNCHANGED <<jar, mixed>>  BY DEF SignedIn, RefreshGranted, GiveUp
<1>4. shown'[b] \in {call[c].token.user, Nobody}
  BY <1>1 DEF SignedIn, RefreshGranted, GiveUp, SignedOut, IInv, TypeOK
<1>5. ASSUME NEW b2 \in Browsers \ mixed', b2 # b, SameOrigin
      PROVE  JarFitsIn(b2)'
  <2>1. ReadsRest(b2)  BY <1>1, <1>2, <1>5 DEF ReadsRest, Idle
  <2>2. UNCHANGED shown[b2]
    BY <1>1, <1>5 DEF SignedIn, RefreshGranted, GiveUp, IInv, TypeOK
  <2>. QED  BY <1>3, <1>5, <2>1, <2>2, JarRests DEF IInv, JarFits
<1>6. ASSUME b \notin mixed', SameOrigin
      PROVE  JarFitsIn(b)'
  <2>1. JarFitsIn(b)  BY <1>1, <1>3, <1>6 DEF IInv, JarFits
  <2>2. c \in HalfRead(b)  BY <1>1 DEF HalfRead
  <2>3. HalfRead(b) = {c} /\ Belongs(jar[b].access, call[c].token.user)
    BY <2>1, <2>2 DEF JarFitsIn
  <2>4. HalfRead(b)' = {}
    <3>1. \A d \in Calls : d # c => ~ (call'[d].at = "read" /\ call'[d].browser = b)
      BY <1>2, <2>3 DEF HalfRead
    <3>. QED  BY <1>2, <3>1 DEF HalfRead, Idle
  <2>. QED  BY <1>3, <1>4, <2>3, <2>4 DEF JarFitsIn
<1>. QED  BY <1>5, <1>6 DEF JarFits

LEMMA BodyLost ==
    ASSUME IInv, NEW c \in Calls, Lose(c)
    PROVE  JarFits'
<1>1. call'[c] = Broken(c) /\ \A d \in Calls : d # c => UNCHANGED call[d]
  BY OthersRest DEF Lose, IInv
<1>2. call'[c].at # "read"  BY <1>1 DEF Broken, Idle
<1>3. ASSUME NEW b \in Browsers \ mixed', SameOrigin
      PROVE  JarFitsIn(b)'
  <2>1. b \notin mixed /\ c \notin HalfRead(b)  BY <1>3 DEF Lose
  <2>2. ReadsRest(b)  BY <1>1, <1>2, <2>1 DEF ReadsRest, HalfRead
  <2>3. UNCHANGED <<jar, shown>>  BY DEF Lose
  <2>. QED  BY <1>3, <2>1, <2>2, <2>3, JarRests DEF IInv, JarFits
<1>. QED  BY <1>3 DEF JarFits

LEMMA JarAtRest ==
    ASSUME IInv, UNCHANGED <<jar, mixed>>,
           \A b \in Browsers : ReadsRest(b) /\ shown'[b] \in {shown[b], Nobody}
    PROVE  JarFits'
<1>1. ASSUME NEW b \in Browsers \ mixed', SameOrigin
      PROVE  JarFitsIn(b)'
  <2>1. JarFitsIn(b)  BY <1>1 DEF IInv, JarFits
  <2>2. UNCHANGED jar[b]  OBVIOUS
  <2>3. ReadsRest(b) /\ shown'[b] \in {shown[b], Nobody}  BY <1>1
  <2>. QED  BY <2>1, <2>2, <2>3, JarRests
<1>. QED  BY <1>1 DEF JarFits

\* A step between two kinds of place other than "read".
LEMMA ElsewhereRests ==
    ASSUME TypeOK, NEW c \in Calls, NEW next, GoOn(c, next), call[c].at # "read", next.at # "read"
    PROVE  \A b \in Browsers : ReadsRest(b)
  BY OthersRest DEF ReadsRest

LEMMA BeginMoves ==
    ASSUME NEW c \in Calls, Begin(c)
    PROVE  /\ UNCHANGED browser /\ call[c] = Idle
           /\ \E next : GoOn(c, next) /\ next.at \in {"create", "sign", "sent", "verify"}
<1>1. ASSUME NEW b \in Browsers, NEW u \in Users, Register(c, b, u)
      PROVE  \E next : GoOn(c, next) /\ next.at \in {"create", "sign", "sent", "verify"}
  BY <1>1 DEF Register
<1>2. ASSUME NEW b \in Browsers, NEW u \in Users, Login(c, b, u)
      PROVE  \E next : GoOn(c, next) /\ next.at \in {"create", "sign", "sent", "verify"}
  BY <1>2 DEF Login
<1>3. ASSUME NEW b \in Browsers, Send(c, b)
      PROVE  \E next : GoOn(c, next) /\ next.at \in {"create", "sign", "sent", "verify"}
  BY <1>3 DEF Send
<1>4. ASSUME NEW u \in Users, OpenLink(c, u)
      PROVE  \E next : GoOn(c, next) /\ next.at \in {"create", "sign", "sent", "verify"}
  BY <1>4 DEF OpenLink
<1>5. UNCHANGED browser /\ call[c] = Idle
  BY DEF Begin, Register, Login, Send, OpenLink
<1>. QED  BY <1>1, <1>2, <1>3, <1>4, <1>5 DEF Begin

\* Steps of a call between its start and its answer.
OnServer(c) ==
    \/ CreateUser(c) \/ CreateUserFails(c) \/ VerifyEmail(c) \/ Sign(c) \/ Store(c)
    \/ Serve(c) \/ Answered(c) \/ Refuse(c) \/ tryRefreshToken(c) \/ refreshToken(c)

LEMMA ServerMoves ==
    ASSUME TypeOK, NEW c \in Calls, OnServer(c)
    PROVE  /\ UNCHANGED browser /\ call[c].at # "read"
           /\ \E next : /\ GoOn(c, next) /\ next.at # "read"
                        /\ ~ Serve(c) => next.at \notin {"sent", "served"}
<1>1. UNCHANGED browser /\ call[c].at # "read"
  BY DEF OnServer, CreateUser, CreateUserFails, VerifyEmail, Sign, Store, Serve, Answered, Refuse,
        tryRefreshToken, refreshToken
<1>2. CASE CreateUser(c)
  <2>1. [call[c] EXCEPT !.at = "sign"].at = "sign"
    BY <1>2, CallFields DEF CreateUser, Call, Idle
  <2>. QED  BY <1>1, <1>2, <2>1 DEF CreateUser
<1>3. CASE Store(c)
  <2>1. [call[c] EXCEPT !.at = "answer"].at = "answer"
    BY <1>3, CallFields DEF Store, Call, Idle
  <2>. QED  BY <1>1, <1>3, <2>1 DEF Store
<1>4. CASE refreshToken(c)
  <2>1. PICK next : /\ GoOn(c, next)
                    /\ \/ next = [at |-> "sign", kind |-> "refresh", browser |-> call[c].browser,
                                  user |-> call[c].token.user]
                       \/ next = [at |-> "refused", browser |-> call[c].browser]
    BY <1>4 DEF refreshToken
  <2>. QED  BY <1>1, <2>1
<1>5. CASE CreateUserFails(c) \/ VerifyEmail(c) \/ Answered(c)
  <2>1. GoOn(c, Idle)  BY <1>5 DEF CreateUserFails, VerifyEmail, Answered
  <2>. QED  BY <1>1, <2>1 DEF Idle
<1>6. CASE Sign(c)
  BY <1>1, <1>6 DEF Sign
<1>7. CASE Refuse(c) \/ tryRefreshToken(c)
  BY <1>1, <1>7 DEF Refuse, tryRefreshToken
<1>8. CASE Serve(c)
  BY <1>1, <1>8 DEF Serve
<1>. QED  BY <1>2, <1>3, <1>4, <1>5, <1>6, <1>7, <1>8 DEF OnServer

LEMMA BrowserStep ==
    ASSUME IInv, [Next]_vars
    PROVE  (BearerFits /\ JarFits /\ JarEmpty)'
<1>1. CASE UNCHANGED browser /\ \A b \in Browsers : ReadsRest(b)
  <2>1. JarFits'  BY <1>1, JarAtRest DEF browser
  <2>. QED  BY <1>1, <2>1 DEF browser, IInv, BearerFits, JarEmpty
<1>2. ASSUME NEW c \in Calls, Begin(c)
      PROVE  (BearerFits /\ JarFits /\ JarEmpty)'
  <2>1. PICK next : GoOn(c, next) /\ next.at \in {"create", "sign", "sent", "verify"}
    BY <1>2, BeginMoves
  <2>2. call[c].at # "read"  BY <1>2, BeginMoves DEF Idle
  <2>. QED  BY <1>1, <1>2, <2>1, <2>2, BeginMoves, ElsewhereRests DEF IInv
<1>3. ASSUME NEW c \in Calls, OnServer(c)
      PROVE  (BearerFits /\ JarFits /\ JarEmpty)'
  <2>1. TypeOK  BY DEF IInv
  <2>2. PICK next : GoOn(c, next) /\ next.at # "read"
    BY <1>3, <2>1, ServerMoves
  <2>3. UNCHANGED browser /\ call[c].at # "read"  BY <1>3, <2>1, ServerMoves
  <2>. QED  BY <1>1, <2>1, <2>2, <2>3, ElsewhereRests
<1>4. ASSUME NEW c \in Calls, TakeCookies(c)
      PROVE  (BearerFits /\ JarFits /\ JarEmpty)'
  BY <1>4, CookiesTaken DEF TakeCookies, IInv, BearerFits, JarEmpty
<1>5. ASSUME NEW c \in Calls, SignedIn(c) \/ RefreshGranted(c)
      PROVE  (BearerFits /\ JarFits /\ JarEmpty)'
  <2>1. JarFits'  BY <1>5, BodyRead
  <2>2. JarEmpty'
    BY <1>5 DEF SignedIn, RefreshGranted, GiveUp, IInv, JarEmpty
  <2>3. call[c].browser \in Browsers  BY <1>5, CallFields DEF SignedIn, RefreshGranted, IInv
  <2>4. ASSUME NEW b \in Browsers
        PROVE  IF b = call[c].browser
               THEN \/ shown'[b] = call[c].token.user /\ bearer'[b] = call[c].token
                    \/ shown'[b] = Nobody
               ELSE UNCHANGED <<shown[b], bearer[b]>>
    BY <1>5, <2>3 DEF SignedIn, RefreshGranted, GiveUp, SignedOut, IInv, TypeOK
  <2>. QED  BY <2>1, <2>2, <2>4 DEF IInv, BearerFits, Belongs
<1>6. ASSUME NEW c \in Calls, RefreshRefused(c)
      PROVE  (BearerFits /\ JarFits /\ JarEmpty)'
  <2>1. call[c].browser \in Browsers  BY <1>6, CallFields DEF RefreshRefused, IInv
  <2>2. ASSUME NEW b \in Browsers
        PROVE  /\ b = call[c].browser => shown'[b] = Nobody
               /\ b # call[c].browser => UNCHANGED <<shown[b], bearer[b]>>
    BY <1>6, <2>1 DEF RefreshRefused, GiveUp, SignedOut, IInv, TypeOK
  <2>3. \A b \in Browsers : ReadsRest(b)
    BY <1>6, ElsewhereRests DEF RefreshRefused, GiveUp, AfterGivingUp, Idle, IInv
  <2>4. UNCHANGED <<jar, mixed>>  BY <1>6 DEF RefreshRefused, GiveUp
  <2>5. \A b \in Browsers : shown'[b] \in {shown[b], Nobody}  BY <2>2
  <2>6. JarFits'  BY <2>3, <2>4, <2>5, JarAtRest
  <2>. QED  BY <2>2, <2>4, <2>6 DEF IInv, BearerFits, JarEmpty
<1>7. ASSUME NEW b \in Browsers, Logout(b)
      PROVE  (BearerFits /\ JarFits /\ JarEmpty)'
  <2>1. ASSUME NEW d \in Browsers
        PROVE  shown'[d] = Nobody \/ UNCHANGED <<shown[d], bearer[d]>>
    BY <1>7 DEF Logout, IInv, TypeOK
  <2>2. UNCHANGED <<jar, mixed, call>>  BY <1>7 DEF Logout
  <2>3. \A d \in Browsers : ReadsRest(d)  BY <2>2 DEF ReadsRest
  <2>4. \A d \in Browsers : shown'[d] \in {shown[d], Nobody}  BY <2>1
  <2>5. JarFits'  BY <2>2, <2>3, <2>4, JarAtRest
  <2>. QED  BY <2>1, <2>2, <2>5 DEF IInv, BearerFits, JarEmpty
<1>8. ASSUME NEW c \in Calls, Lose(c)
      PROVE  (BearerFits /\ JarFits /\ JarEmpty)'
  BY <1>8, BodyLost DEF Lose, IInv, BearerFits, JarEmpty
<1>9. CASE Restart
  <2>1. \A d \in Calls : IF call[d].at = "read" THEN call'[d] = call[d] ELSE call'[d] = Broken(d)
    BY <1>9 DEF Restart
  <2>2. \A d \in Calls : Broken(d).at # "read" \/ call[d].at = "read"
    BY DEF Broken, Idle
  <2>3. \A b \in Browsers : ReadsRest(b)  BY <2>1, <2>2 DEF ReadsRest
  <2>. QED  BY <1>1, <1>9, <2>3 DEF Restart
<1>10. CASE Tick \/ UNCHANGED vars
  <2>1. UNCHANGED <<browser, call>>  BY <1>10 DEF Tick, vars
  <2>2. \A b \in Browsers : ReadsRest(b)  BY <2>1 DEF ReadsRest
  <2>. QED  BY <1>1, <2>1, <2>2
<1>. QED
  BY <1>2, <1>3, <1>4, <1>5, <1>6, <1>7, <1>8, <1>9, <1>10 DEF Next, Continue, OnServer

\* A call that is neither under way to the server nor served says nothing.
Elsewhere(next) == next.at \notin {"sent", "served"}

LEMMA CallsStep ==
    ASSUME IInv, [Next]_vars
    PROVE  (RequestsFit /\ ShownUserActs)'
<1>. USE DEF IInv, RequestsFit, ShownUserActs, Belongs
<1>1. CASE \A c \in Calls : UNCHANGED call[c] \/ Elsewhere(call'[c])
  BY <1>1 DEF Elsewhere
<1>3. ASSUME NEW c \in Calls, NEW b \in Browsers, Send(c, b)
      PROVE  (RequestsFit /\ ShownUserActs)'
  <2>1. /\ call'[c].at = "sent" /\ call'[c].as = Sender(b) /\ call'[c].bearer = bearer[b]
        /\ call'[c].cookie \in {jar[b].access, NoToken}
        /\ \A d \in Calls : d # c => UNCHANGED call[d]
    BY <1>3, OthersRest DEF Send, Sendable
  <2>2. Sender(b) # Nobody => shown[b] = Sender(b)  BY DEF Sender
  <2>3. Sender(b) # Nobody => Belongs(bearer[b], Sender(b))
    BY <2>2 DEF BearerFits
  <2>4. Sender(b) # Nobody => Belongs(jar[b].access, Sender(b))
    <3>1. CASE ~ SameOrigin  BY <3>1 DEF JarEmpty
    <3>2. CASE SameOrigin /\ Sender(b) # Nobody
      <4>1. HalfRead(b) = {} /\ b \notin mixed  BY <3>2 DEF Sender
      <4>. QED  BY <2>2, <3>2, <4>1 DEF JarFits, JarFitsIn
    <3>. QED  BY <3>1, <3>2
  <2>. QED  BY <2>1, <2>3, <2>4
<1>4. ASSUME NEW c \in Calls, Serve(c)
      PROVE  (RequestsFit /\ ShownUserActs)'
  <2>1. /\ call'[c].at = "served" /\ call'[c].as = call[c].as
        /\ call'[c].user = Credential(c).user
        /\ \A d \in Calls : d # c => UNCHANGED call[d]
    BY <1>4, OthersRest DEF Serve
  <2>2. Credential(c) # NoToken /\ Credential(c) \in {call[c].cookie, call[c].bearer}
    BY <1>4 DEF Serve, Good, Credential
  <2>3. call[c].as # Nobody => Credential(c).user = call[c].as
    BY <1>4, <2>2 DEF Serve
  <2>. QED  BY <2>1, <2>3
<1>5. ASSUME NEW c \in Calls, \E next : GoOn(c, next) /\ Elsewhere(next)
      PROVE  (RequestsFit /\ ShownUserActs)'
  <2>1. PICK next : GoOn(c, next) /\ Elsewhere(next)  BY <1>5
  <2>2. \A d \in Calls : UNCHANGED call[d] \/ Elsewhere(call'[d])  BY <2>1, OthersRest
  <2>. QED  BY <1>1, <2>2
<1>6. ASSUME NEW c \in Calls, Begin(c), \A b \in Browsers : ~ Send(c, b)
      PROVE  \E next : GoOn(c, next) /\ Elsewhere(next)
  <2>1. CASE \E b \in Browsers, u \in Users : Register(c, b, u)
    BY <2>1 DEF Register, Elsewhere
  <2>2. CASE \E b \in Browsers, u \in Users : Login(c, b, u)
    BY <2>2 DEF Login, Elsewhere
  <2>3. CASE \E u \in Users : OpenLink(c, u)
    BY <2>3 DEF OpenLink, Elsewhere
  <2>. QED  BY <1>6, <2>1, <2>2, <2>3 DEF Begin
<1>7. ASSUME NEW c \in Calls, OnServer(c), ~ Serve(c)
      PROVE  \E next : GoOn(c, next) /\ Elsewhere(next)
  BY <1>7, ServerMoves DEF Elsewhere
<1>8. ASSUME NEW c \in Calls, TakeCookies(c)
      PROVE  \E next : GoOn(c, next) /\ Elsewhere(next)
  <2>1. [call[c] EXCEPT !.at = "read"].at = "read"
    BY <1>8, CallFields DEF TakeCookies, Call, Idle
  <2>. QED  BY <1>8, <2>1 DEF TakeCookies, Elsewhere
<1>9. ASSUME NEW c \in Calls, RefreshRefused(c) \/ RefreshGranted(c) \/ SignedIn(c)
      PROVE  \E next : GoOn(c, next) /\ Elsewhere(next)
  BY <1>9 DEF RefreshRefused, RefreshGranted, GiveUp, AfterGivingUp, SignedIn, Elsewhere, Idle
<1>10. ASSUME NEW c \in Calls
       PROVE  Elsewhere(Broken(c))
  BY DEF Broken, Elsewhere, Idle
<1>11. ASSUME NEW c \in Calls, Lose(c)
       PROVE  \E next : GoOn(c, next) /\ Elsewhere(next)
  BY <1>10, <1>11 DEF Lose
<1>12. CASE Restart
  <2>1. \A c \in Calls : UNCHANGED call[c] \/ call'[c] = Broken(c)  BY <1>12 DEF Restart
  <2>. QED  BY <1>1, <1>10, <2>1
<1>13. CASE (\E b \in Browsers : Logout(b)) \/ Tick \/ UNCHANGED vars
  <2>1. UNCHANGED call  BY <1>13 DEF Logout, Tick, vars
  <2>. QED  BY <1>1, <2>1
<1>14. ASSUME NEW c \in Calls, Begin(c)
       PROVE  (RequestsFit /\ ShownUserActs)'
  BY <1>3, <1>5, <1>6, <1>14
<1>15. ASSUME NEW c \in Calls, Continue(c)
       PROVE  (RequestsFit /\ ShownUserActs)'
  <2>1. \/ OnServer(c) \/ TakeCookies(c)
        \/ RefreshRefused(c) \/ RefreshGranted(c) \/ SignedIn(c)
    BY <1>15 DEF Continue, OnServer
  <2>2. CASE OnServer(c)  BY <1>4, <1>5, <1>7, <2>2
  <2>3. CASE TakeCookies(c)  BY <1>5, <1>8, <2>3
  <2>4. CASE RefreshRefused(c) \/ RefreshGranted(c) \/ SignedIn(c)  BY <1>5, <1>9, <2>4
  <2>. QED  BY <2>1, <2>2, <2>3, <2>4
<1>16. ASSUME NEW c \in Calls, Lose(c)
       PROVE  (RequestsFit /\ ShownUserActs)'
  BY <1>5, <1>11, <1>16
<1>. HIDE DEF RequestsFit, ShownUserActs
<1>. QED  BY <1>12, <1>13, <1>14, <1>15, <1>16 DEF Next

(* What a person does on a page is done as the person it shows, however    *)
(* sign-outs, sign-ins and late answers interleave: outside the time       *)
(* between an answer's cookies and its body, and until two such answers    *)
(* have overlapped.                                                        *)
THEOREM NobodyActsForAnother == Spec => []ShownUserActs
<1>1. Init => IInv
  <2>. SUFFICES ASSUME Init PROVE IInv
    OBVIOUS
  <2>1. TypeOK  BY InitTypes
  <2>2. \A b \in Browsers : shown[b] = Nobody /\ jar[b].access = NoToken  BY DEF Init
  <2>3. \A c \in Calls : call[c].at = "idle"  BY DEF Init, Idle
  <2>4. \A b \in Browsers : HalfRead(b) = {}  BY <2>3 DEF HalfRead
  <2>5. BearerFits /\ JarFits /\ JarEmpty
    BY <2>2, <2>4 DEF BearerFits, JarFits, JarFitsIn, JarEmpty, Belongs
  <2>. QED
    BY <2>1, <2>3, <2>5 DEF IInv, RequestsFit, ShownUserActs
<1>2. IInv /\ [Next]_vars => IInv'
  BY BrowserStep, CallsStep, StepTypes DEF IInv
<1>. QED  BY <1>1, <1>2, PTL DEF Spec, IInv
=============================================================================

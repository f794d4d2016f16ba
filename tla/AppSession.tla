------------------------------- MODULE AppSession -------------------------------
(***************************************************************************)
(* Who the app thinks the user is, and who the server lets in: log-in with *)
(* an access and a refresh token in cookies (auth_api.go, auth_mid.go,     *)
(* jwt.go), the check of the user when the app is loaded (useAuthStore.ts, *)
(* App.tsx, pages/Auth), and the websocket connection that follows the     *)
(* user (syncClient of useClientStore.ts).                                 *)
(*                                                                         *)
(* A request is sent, answered by the server, received by the browser,     *)
(* which stores its cookies, and finished by the app after it has read the *)
(* body.  Any of these may take its time; the clock goes on meanwhile.     *)
(***************************************************************************)
EXTENDS Integers, FiniteSets

CONSTANTS
  Users,         (* users with an id in the table                          *)
  AccessLife,    (* life of an access token and of its cookie: an hour     *)
  RefreshLife,   (* life of a refresh token: 30 days                       *)
  RememberLife,  (* life of its cookie if the user is remembered: 365 days *)
  MaxTime,       (* bound of the clock                                     *)
  MaxRequests,   (* requests under way at the same time, at most           *)
  NumVisits,     (* what the user does, at most                            *)
  None           (* no user, token, cookie, client or connection           *)

TokenType  == [user : Users, exp : Nat, since : Nat]
CookieType == [token : TokenType, until : Nat]
UserType   == [who : Users, id : Users \union {None}]
ClientType == [id : Users \union {None}]
ConnType   == [state : {"opening", "open", "closed"}, joined : SUBSET (Users \union {None})]

ASSUME SessionAssumption ==
  /\ AccessLife \in Nat \ {0} /\ RefreshLife \in Nat \ {0} /\ RememberLife \in Nat \ {0}
  /\ MaxTime \in Nat /\ MaxRequests \in Nat \ {0} /\ NumVisits \in Nat
  /\ None \notin Users \union TokenType \union CookieType
  /\ None \notin UserType \union ClientType \union ConnType

Pages == {"home", "other", "login", "signup"}   \* "other": disk and device
AuthPages == {"login", "signup"}                \* under Auth, the others under App

VARIABLES
  now,
  access, refresh,   (* cookies: a token, and when the cookie expires       *)
  page, visited,     (* visited: pages in the history of this load          *)
  authChecked, isAuthenticated,
  user,              (* who it is, and the id the app takes for theirs      *)
  client,            (* the id of the client, or None                       *)
  conn,              (* the current connection, or None                     *)
  opening,           (* connections replaced before they opened are left    *)
  requests,          (* requests under way                                  *)
  crossed,           (* history: an answer from before the last log-in came *)
  visits             (* after it; visits counts what the user has done      *)

appVars == <<authChecked, isAuthenticated, user>>
connVars == <<client, conn, opening>>
cookieVars == <<access, refresh>>
sessionVars == <<now, cookieVars, page, visited, appVars, connVars, requests, crossed, visits>>

--------------------------------------------------------------------------------
(* Tokens.  since is history: when the user logged in. *)

Token(u, life, since) == [user |-> u, exp |-> now + life, since |-> since]

VerifyJWT(token) == token # None /\ now < token.exp

\* The token of a cookie that is sent.
Sent(cookie) == IF cookie = None THEN None ELSE cookie.token

Cookie(token, maxAge) == [token |-> token, until |-> now + maxAge]

Refused == [ok |-> FALSE, who |-> None, access |-> None, refresh |-> None]

\* Fault: the refresh token is renewed, too.
BothRenewed(token) ==
  [ok |-> TRUE, who |-> token.user,
   access |-> Token(token.user, AccessLife, token.since),
   refresh |-> Token(token.user, RefreshLife, token.since)]

\* A valid refresh token makes a new access token, and no new refresh token.
Renewed(token) ==
  [ok |-> TRUE, who |-> token.user,
   access |-> Token(token.user, AccessLife, token.since), refresh |-> None]

\* AuthMiddleware.  Without an access cookie it does not look for the other;
\* without a refresh cookie it panics, and the browser gets no answer.
AuthMiddleware(r) ==
  IF VerifyJWT(r.access)
  THEN [ok |-> TRUE, who |-> r.access.user, access |-> None, refresh |-> None]
  ELSE IF r.access # None /\ VerifyJWT(r.refresh) THEN Renewed(r.refresh) ELSE Refused

--------------------------------------------------------------------------------
(* What the app does when it is loaded, comes to a page, or learns who the *)
(* user is.                                                                *)

\* Fault: App does not send to the log-in page whom the server does not know.
LandingAnywhere(p) == IF p \in AuthPages /\ authChecked' /\ isAuthenticated' THEN "home" ELSE p

\* The effects of App and Auth: where the app goes from page p.
Landing(p) ==
  IF p \notin AuthPages /\ authChecked' /\ ~isAuthenticated' THEN "login"
  ELSE IF p \in AuthPages /\ authChecked' /\ isAuthenticated' THEN "home"
  ELSE p

\* HomeView is brought up on the way.
BringsHome(from, p) == (p = "home" /\ from # "home") \/ (p \in AuthPages /\ Landing(p) = "home")

\* Bound on requests under way.
Room(others) == Cardinality(others) < MaxRequests

Request(others, kind, w, remember) ==
  [no |-> CHOOSE n \in 1 .. MaxRequests : \A o \in others : o.no # n,
   kind |-> kind, who |-> w, remember |-> remember,
   access |-> Sent(access), refresh |-> Sent(refresh),
   stage |-> "sent", answer |-> Refused, late |-> FALSE]

\* App comes up, or sees a log-in, and nobody has checked the user: checkUser.
AppChecks(from, p) ==
  p \notin AuthPages /\ ~authChecked' /\ (from \in AuthPages \/ isAuthenticated' # isAuthenticated)

CheckOnArrival(from, p, others) ==
  IF AppChecks(from, p)
  THEN Room(others) /\ requests' = others \union {Request(others, "check", None, FALSE)}
  ELSE requests' = others

\* Fault: a connection that is there is kept.
SyncKeepsConn(times) ==
  /\ client' = IF user' = None THEN None ELSE [id |-> user'.id]
  /\ conn' = IF user' = None \/ conn # None THEN conn ELSE [state |-> "opening", joined |-> {}]
  /\ opening' = opening

\* syncClient, as often as it is called: the client, and a new connection.
SyncClient(times) ==
  IF times = 0 THEN UNCHANGED connVars
  ELSE IF user' = None THEN client' = None /\ UNCHANGED <<conn, opening>>
  ELSE /\ client' = [id |-> user'.id]
       /\ conn' = [state |-> "opening", joined |-> {}]
       /\ opening' = (opening \/ times > 1 \/ (conn # None /\ conn.state = "opening"))

\* To come to page p when the stores are as primed.
GoTo(from, p, others, syncs) ==
  /\ page' = Landing(p)
  /\ visited' = visited \union {p, page'}
  /\ SyncClient(syncs + (IF BringsHome(from, p) THEN 1 ELSE 0))
  /\ CheckOnArrival(from, p, others)

\* Bound on what the user does.
Visit == visits < NumVisits /\ visits' = visits + 1

SessionInit ==
  /\ now = 0
  /\ access = None /\ refresh = None
  /\ page = "home" /\ visited = {"home"}
  /\ authChecked = FALSE /\ isAuthenticated = FALSE /\ user = None
  /\ client = None /\ conn = None /\ opening = FALSE
  /\ requests = {Request({}, "check", None, FALSE)}
  /\ crossed = FALSE
  /\ visits = 0

\* A page is loaded: nothing is left of the app but its cookies.
Load(p) ==
  /\ Visit
  /\ page' = p /\ visited' = {p}
  /\ authChecked' = FALSE /\ isAuthenticated' = FALSE /\ user' = None
  /\ client' = None /\ conn' = None /\ opening' = FALSE
  /\ requests' = IF p \in AuthPages THEN {} ELSE {Request({}, "check", None, FALSE)}
  /\ UNCHANGED <<now, cookieVars, crossed>>

\* A link in the menu, or the history of the browser.
Browse(p) ==
  /\ p # page
  /\ p \in visited \/ {page, p} \intersect AuthPages = {}
  /\ Visit
  /\ UNCHANGED appVars
  /\ GoTo(page, p, requests, 0)
  /\ UNCHANGED <<now, cookieVars, crossed>>

\* handleSubmit, with the password of a user or a wrong one.
Submit(w, remember) ==
  /\ page = "login"
  /\ Visit
  /\ Room(requests)
  /\ requests' = requests \union {Request(requests, "login", w, remember)}
  /\ UNCHANGED <<now, cookieVars, page, visited, appVars, connVars, crossed>>

\* handleSubmit of the sign-up page.  The base of its URL is not defined: the
\* request does not come to the server, but to where the app was loaded from.
SubmitSignUp ==
  /\ page = "signup"
  /\ Visit
  /\ Room(requests)
  /\ requests' = requests \union {Request(requests, "signup", None, FALSE)}
  /\ UNCHANGED <<now, cookieVars, page, visited, appVars, connVars, crossed>>

\* Devices are listed.  What the list says is left out.
ScanDevices ==
  /\ page = "other"
  /\ Visit
  /\ Room(requests)
  /\ requests' = requests \union {Request(requests, "devices", None, FALSE)}
  /\ UNCHANGED <<now, cookieVars, page, visited, appVars, connVars, crossed>>

--------------------------------------------------------------------------------
(* Requests. *)

Becomes(r, s) == (requests \ {r}) \union {s}

RequestVars == <<now, page, visited, appVars, connVars, visits>>

LogIn(r) ==
  IF r.who = None THEN Refused
  ELSE [ok |-> TRUE, who |-> r.who,
        access |-> Token(r.who, AccessLife, now), refresh |-> Token(r.who, RefreshLife, now)]

\* A handler that is let in may still fail on the database; a cookie that has
\* been set by then is sent.
Handle(r) ==
  /\ r.stage = "sent"
  /\ \E answer \in
       IF r.kind = "login" THEN {LogIn(r), Refused}
       ELSE IF r.kind = "signup" THEN {Refused, [Refused EXCEPT !.ok = TRUE]}
       ELSE LET let == AuthMiddleware(r) IN {let, [let EXCEPT !.ok = FALSE]} :
       requests' = Becomes(r, [r EXCEPT !.stage = "answered", !.answer = answer])
  /\ UNCHANGED <<RequestVars, cookieVars, crossed>>

\* The server is not reached, or its answer is lost.
Lose(r) ==
  /\ r.stage \in {"sent", "answered"}
  /\ requests' = Becomes(r, [r EXCEPT !.stage = "received", !.answer = Refused])
  /\ UNCHANGED <<RequestVars, cookieVars, crossed>>

RefreshAge(r) == IF r.remember THEN RememberLife ELSE RefreshLife

\* The cookies of a log-in make all the others late.
LoggedIn(r) == r.kind = "login" /\ r.answer.ok

Receive(r) ==
  /\ r.stage = "answered"
  /\ access'  = IF r.answer.access = None THEN access ELSE Cookie(r.answer.access, AccessLife)
  /\ refresh' = IF r.answer.refresh = None THEN refresh ELSE Cookie(r.answer.refresh, RefreshAge(r))
  /\ requests' =
       LET received == [r EXCEPT !.stage = "received", !.late = @ /\ ~LoggedIn(r)]
           others   == requests \ {r}
       IN  {received} \union
           IF LoggedIn(r) THEN {[o EXCEPT !.late = TRUE] : o \in others} ELSE others
  /\ crossed' = (~LoggedIn(r) /\ (crossed \/ (r.late /\ r.answer.access # None)))
  /\ UNCHANGED RequestVars

\* Fault: a check that fails leaves the user who was there.
CheckedKeepsUser(r) ==
  IF r.answer.ok THEN [who |-> r.answer.who, id |-> r.answer.who] ELSE user

Checked(r) == IF r.answer.ok THEN [who |-> r.answer.who, id |-> r.answer.who] ELSE None

\* checkUser after its awaits.
FinishCheck(r) ==
  /\ r.kind = "check" /\ r.stage = "received"
  /\ user' = Checked(r)
  /\ isAuthenticated' = r.answer.ok
  /\ authChecked' = TRUE
  /\ crossed' = (crossed \/ r.late)
  /\ GoTo(page, page, requests \ {r}, 1)
  /\ UNCHANGED <<now, cookieVars, visits>>

\* Fault: res.ok is not looked at.
AnyAnswer(r) == TRUE

Succeeds(r) == r.answer.ok

\* handleSubmit after its awaits.  The answer has the id as userID, and the
\* app looks for id: it has none.
FinishLogin(r) ==
  /\ r.kind = "login" /\ r.stage = "received"
  /\ IF Succeeds(r)
     THEN /\ user' = [who |-> r.answer.who, id |-> None]
          /\ isAuthenticated' = TRUE
          /\ crossed' = (crossed \/ r.late)
          /\ UNCHANGED authChecked
          /\ GoTo(page, "home", requests \ {r}, 0)
     ELSE /\ requests' = requests \ {r}
          /\ UNCHANGED <<page, visited, appVars, connVars, crossed>>
  /\ UNCHANGED <<now, cookieVars, visits>>

\* handleSubmit of the sign-up page after its await: nobody is logged in.
FinishSignUp(r) ==
  /\ r.kind = "signup" /\ r.stage = "received"
  /\ IF r.answer.ok
     THEN UNCHANGED appVars /\ GoTo(page, "home", requests \ {r}, 0)
     ELSE requests' = requests \ {r} /\ UNCHANGED <<page, visited, appVars, connVars>>
  /\ UNCHANGED <<now, cookieVars, crossed, visits>>

FinishScan(r) ==
  /\ r.kind = "devices" /\ r.stage = "received"
  /\ requests' = requests \ {r}
  /\ UNCHANGED <<RequestVars, cookieVars, crossed>>

--------------------------------------------------------------------------------
(* Connections. *)

\* joinTransferChannel, called by any connection that opens, joins with the
\* current one.
JoinWith(c) ==
  IF client # None /\ c.state = "open" THEN [c EXCEPT !.joined = @ \union {client.id}] ELSE c

ConnOpens ==
  /\ conn # None /\ conn.state = "opening"
  /\ conn' = JoinWith([conn EXCEPT !.state = "open"])
  /\ UNCHANGED <<now, cookieVars, page, visited, appVars, client, opening, requests, crossed, visits>>

\* One that has been replaced opens; there may be more of them.
OlderOpens ==
  /\ opening
  /\ opening' \in BOOLEAN
  /\ conn' = JoinWith(conn)
  /\ UNCHANGED <<now, cookieVars, page, visited, appVars, client, requests, crossed, visits>>

ConnCloses ==
  /\ conn # None /\ conn.state # "closed"
  /\ conn' = [conn EXCEPT !.state = "closed"]
  /\ UNCHANGED <<now, cookieVars, page, visited, appVars, client, opening, requests, crossed, visits>>

--------------------------------------------------------------------------------
Left(cookie) == IF cookie # None /\ cookie.until <= now' THEN None ELSE cookie

Tick ==
  /\ now < MaxTime
  /\ now' = now + 1
  /\ access' = Left(access) /\ refresh' = Left(refresh)
  /\ UNCHANGED <<page, visited, appVars, connVars, requests, crossed, visits>>

UserStep ==
  \/ \E p \in Pages : Load(p) \/ Browse(p)
  \/ \E w \in Users \union {None}, remember \in BOOLEAN : Submit(w, remember)
  \/ SubmitSignUp
  \/ ScanDevices

Finish(r) == FinishCheck(r) \/ FinishLogin(r) \/ FinishSignUp(r) \/ FinishScan(r)

RequestStep == \E r \in requests : Handle(r) \/ Lose(r) \/ Receive(r) \/ Finish(r)

SessionNext == UserStep \/ RequestStep \/ ConnOpens \/ OlderOpens \/ ConnCloses \/ Tick

(* A request ends: it is answered, or the browser gives up; and what has   *)
(* been received is read.                                                  *)
SessionFairness ==
  /\ WF_sessionVars(\E r \in requests : Handle(r) \/ Lose(r))
  /\ WF_sessionVars(\E r \in requests : Receive(r) \/ Finish(r))

SessionSpec == SessionInit /\ [][SessionNext]_sessionVars /\ SessionFairness

--------------------------------------------------------------------------------
AnswerType == [ok : BOOLEAN, who : Users \union {None},
               access : TokenType \union {None}, refresh : TokenType \union {None}]

(* Types; a cookie that is there has not expired; a connection is there     *)
(* when an older one still opens.                                           *)
SessionTypeOK ==
  /\ now \in 0 .. MaxTime
  /\ \A c \in {access, refresh} : c = None \/ (c \in CookieType /\ now < c.until)
  /\ page \in Pages /\ visited \subseteq Pages /\ page \in visited
  /\ authChecked \in BOOLEAN /\ isAuthenticated \in BOOLEAN
  /\ user = None \/ user \in UserType
  /\ isAuthenticated <=> user # None
  /\ client = None \/ client \in ClientType
  /\ conn = None \/ conn \in ConnType
  /\ opening \in BOOLEAN /\ (opening => conn # None)
  /\ Cardinality(requests) <= MaxRequests
  /\ \A r \in requests :
       /\ r.kind \in {"check", "login", "signup", "devices"}
       /\ r.stage \in {"sent", "answered", "received"}
       /\ r.answer \in AnswerType
  /\ crossed \in BOOLEAN
  /\ visits \in 0 .. NumVisits

(* The app shows the user whose cookies it sends: the tokens are those of   *)
(* one log-in and of the user that is shown, however requests and answers   *)
(* cross, unless an answer to a request from before the last log-in came    *)
(* after that log-in (nothing in checkUser or the middleware prevents it).  *)
ShownIsLoggedIn ==
  LET cookies == {access, refresh} \ {None} IN
  user # None /\ ~crossed /\ (\A r \in requests : LoggedIn(r) => r.stage # "received") =>
    /\ \A c \in cookies : c.token.user = user.who
    /\ \A c, d \in cookies : c.token.since = d.token.since

(* However often a session is renewed, it ends: no token lives longer than  *)
(* a refresh token and an access token together, from the log-in on.        *)
SessionEnds ==
  LET tokens == {c.token : c \in {access, refresh} \ {None}} \union
                ((UNION {{r.answer.access, r.answer.refresh} : r \in requests}) \ {None})
  IN  \A t \in tokens : t.exp < t.since + RefreshLife + AccessLife

(* A connection that has opened has been sent a join for the client, whoever *)
(* opened first: joinTransferChannel takes the connection that is current    *)
(* when one opens, and not the one that opens.  And the client, and so the   *)
(* group it joins, is the user's, from the first check of that user on (the  *)
(* user that a log-in stores has no id, and such a client none either).      *)
CurrentHasJoined ==
  /\ conn # None /\ conn.state = "open" /\ client # None => client.id \in conn.joined
  /\ user # None /\ user.id # None => client = [id |-> user.who]

(* What is not on the log-in or sign-up page gets there, or knows its user; *)
(* a sign-up that succeeds sends the app home, and no further than that.    *)
AppSettles == page \notin AuthPages ~> (page \in AuthPages \/ isAuthenticated)
================================================================================

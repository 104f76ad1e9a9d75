------------------------------- MODULE Sessions -------------------------------
(***************************************************************************)
(* The session of one browser: the calls of its tabs (apiFetch,            *)
(* refreshSession, migrateLegacyRefreshToken and setupSignOut of           *)
(* public/js/app.js), the routes of http/auth-routes.mjs that answer them, *)
(* and the auth service behind these.                                      *)
(*                                                                         *)
(* The tabs share the access token (localStorage) and the refresh cookie;  *)
(* each serialises its own refreshes, not those of the others.  A response *)
(* reaches the browser some time after the auth service has acted.  The    *)
(* auth service rotates the refresh token at each use; one used before is  *)
(* accepted again or rejected, as its reuse interval has it.  A refresh    *)
(* also ends, for the best of tokens, when the auth service fails, which   *)
(* the route answers as a rejection, and when the route's throttle turns   *)
(* it away.                                                                *)
(***************************************************************************)
EXTENDS Naturals, FiniteSets

CONSTANTS
  Tabs,
  Calls,       \* api calls of a tab that can be under way together
  MaxTokens,   \* bound: refresh tokens handed out
  MaxCalls,    \* bound: api calls
  NoToken

ASSUME SessionsAssumption ==
  MaxTokens \in Nat \ {0} /\ MaxCalls \in Nat /\ NoToken \notin Nat

VARIABLES
  newest,     \* auth service: the last refresh token of the family
  revoked,    \* auth service: logout revoked the family
  cookie,     \* rr_refresh
  access,     \* localStorage: NoToken, or an access token, by its number
  live,       \* the access tokens that have not expired
  page,       \* "app", "leaving" (sign-out under way) or "signin", of a tab
  call,       \* where a call of a tab stands
  exchange,   \* refreshInFlight of a tab
  legacy,     \* rr_refresh_token in localStorage
  made,
  bounced,    \* history: a call has sent the user to the sign-in page
  causes      \* history: what may have cost the user his session

browserVars == <<cookie, access, page, call, exchange, legacy>>
sessionVars == <<newest, revoked, browserVars, live, made, bounced, causes>>

-----------------------------------------------------------------------------
\* "strayed": refreshes of two tabs overlapped, or one got no answer;
\* "cookieless": the user signed out, the auth service failed, or the session is
\* older than the cookie; "turned away": a throttled refresh, a second 401.
Causes == {"strayed", "cookieless", "turned away"}

Numbered == 1 .. MaxTokens
Resting  == [at |-> "rest", token |-> NoToken]
NoExchange == [at |-> "none", token |-> NoToken]

\* A refresh of the tab has been asked for, and not answered.
OnTheWire(t) == exchange[t].at \in {"asked", "granted", "denied", "refused"}

\* It starts a refresh beside another tab's.
Strays(t) == IF \E o \in Tabs \ {t} : OnTheWire(o) THEN {"strayed"} ELSE {}

\* migrateLegacyRefreshToken comes before the calls of the page: a refresh no
\* call waits for.
Loading(t) == OnTheWire(t) /\ \A c \in Calls : call[t][c].at # "waiting"

SessionsInit ==
  /\ newest = 1 /\ revoked = FALSE
  /\ cookie \in {1, NoToken} /\ legacy = IF cookie = 1 THEN NoToken ELSE 1
  /\ access = 1 /\ live = {1}
  /\ page = [t \in Tabs |-> "app"]
  /\ call = [t \in Tabs |-> [c \in Calls |-> Resting]]
  /\ exchange = [t \in Tabs |-> NoExchange]
  /\ made = 0 /\ bounced = FALSE
  /\ causes = IF legacy = 1 THEN {"cookieless"} ELSE {}

AccessExpires ==
  /\ \E a \in live : live' = live \ {a}
  /\ UNCHANGED <<newest, revoked, browserVars, made, bounced, causes>>

-----------------------------------------------------------------------------
(* apiFetch *)

Sets(t, c, step) == call' = [call EXCEPT ![t][c] = step]

Send(t, c) ==
  /\ page[t] = "app" /\ call[t][c] = Resting /\ made < MaxCalls
  /\ ~Loading(t)
  /\ made' = made + 1
  /\ Sets(t, c, [at |-> "sent", token |-> access])
  /\ UNCHANGED <<newest, revoked, cookie, access, page, exchange, legacy, live,
                 bounced, causes>>

\* The api verifies the access token by itself: revocation does not reach it.
Answered(t, c) ==
  /\ call[t][c].at \in {"sent", "replayed"}
  /\ call[t][c].token \in live
  /\ Sets(t, c, Resting)
  /\ UNCHANGED <<newest, revoked, cookie, access, page, exchange, legacy, live,
                 made, bounced, causes>>

\* A variant in which every 401 starts a refresh of its own.
UnauthorizedAlone(t, c) ==
  /\ call[t][c].at = "sent"
  /\ Sets(t, c, [at |-> "waiting", token |-> NoToken])
  /\ exchange' = [exchange EXCEPT ![t] = [at |-> "asked", token |-> cookie]]
  /\ causes' = IF exchange[t].at = "none" THEN causes \cup Strays(t) ELSE causes
  /\ UNCHANGED <<newest, revoked, cookie, access, page, legacy, live, made,
                 bounced>>

\* A 401, of an expired token or of a server without the key to verify it.  The
\* first starts the tab's refresh, the others join it.
Unauthorized(t, c) ==
  /\ call[t][c].at = "sent"
  /\ Sets(t, c, [at |-> "waiting", token |-> NoToken])
  /\ exchange' = [exchange EXCEPT ![t] = IF @.at = "none"
                    THEN [at |-> "asked", token |-> cookie] ELSE @]
  /\ causes' = IF exchange[t].at = "none" THEN causes \cup Strays(t) ELSE causes
  /\ UNCHANGED <<newest, revoked, cookie, access, page, legacy, live, made,
                 bounced>>

\* clearAuthAndRedirect: the page is gone, with its calls; a refresh the auth
\* service has been asked for may still answer with a cookie.
Leave(t) ==
  /\ access' = NoToken
  /\ page' = [page EXCEPT ![t] = "signin"]
  /\ call' = [call EXCEPT ![t] = [c \in Calls |-> Resting]]
  /\ exchange' = [exchange EXCEPT
       ![t] = IF @.at \in {"stored", "failed"} THEN NoExchange ELSE @]

\* A second 401, or a refresh that failed.
Bounce(t, c) ==
  /\ \/ call[t][c].at = "replayed"
     \/ call[t][c].at = "waiting" /\ exchange[t].at = "failed"
  /\ Leave(t)
  /\ bounced' = TRUE
  /\ causes' = causes \cup
       (IF call[t][c].at = "replayed" THEN {"turned away"} ELSE {})
  /\ UNCHANGED <<newest, revoked, cookie, legacy, live, made>>

Replay(t, c) ==
  /\ call[t][c].at = "waiting" /\ exchange[t].at = "stored"
  /\ Sets(t, c, [at |-> "replayed", token |-> access])
  /\ exchange' = [exchange EXCEPT
       ![t] = IF \E d \in Calls \ {c} : call[t][d].at = "waiting"
                THEN @ ELSE NoExchange]
  /\ UNCHANGED <<newest, revoked, cookie, access, page, legacy, live, made,
                 bounced, causes>>

-----------------------------------------------------------------------------
(* POST /auth/refresh *)

Answers(t, at, token) ==
  /\ exchange[t].at = "asked"
  /\ exchange' = [exchange EXCEPT ![t] = [at |-> at, token |-> token]]
  /\ UNCHANGED <<revoked, cookie, access, page, call, legacy, made, bounced>>

\* The auth service has a next token for the family.
Rotates ==
  /\ ~revoked /\ newest < MaxTokens
  /\ newest' = newest + 1 /\ live' = live \cup {newest + 1}

\* It accepts the newest token of a family it has not revoked, and an older one
\* within its reuse interval.
Rotate(t) ==
  /\ exchange[t].token # NoToken /\ Rotates
  /\ Answers(t, "granted", newest + 1)
  /\ UNCHANGED causes

\* It rejects an older or a revoked one.
Reject(t) ==
  /\ exchange[t].token # NoToken
  /\ exchange[t].token # newest \/ revoked
  /\ Answers(t, "denied", NoToken)
  /\ UNCHANGED <<newest, live, causes>>

\* It is out of reach, or answers 429 or an error, before or after it has
\* rotated the token: to the route that is a rejection too.
AuthFails(t) ==
  /\ exchange[t].token # NoToken
  /\ Rotates \/ UNCHANGED <<newest, live>>
  /\ Answers(t, "denied", NoToken)
  /\ causes' = causes \cup {"cookieless"}

\* The route's throttle is asked first (SignInThrottle has the limits, which
\* the browser shares with all of its address); a missing cookie is a 400.
\* Neither sets a cookie.
Refuse(t) ==
  \E throttled \in BOOLEAN :
    /\ throttled \/ exchange[t].token = NoToken
    /\ Answers(t, "refused", NoToken)
    /\ causes' = causes \cup (IF throttled THEN {"turned away"} ELSE {})
    /\ UNCHANGED <<newest, live>>

\* The response arrives: its Set-Cookie, then the body.
RefreshAnswer(t) ==
  LET x == exchange[t]
      granted == x.at = "granted"
  IN /\ x.at \in {"granted", "denied", "refused"}
     /\ cookie' = IF x.at = "refused" THEN cookie ELSE x.token
     /\ access' = IF granted /\ page[t] # "signin" THEN x.token ELSE access
     /\ exchange' = [exchange EXCEPT ![t] =
          IF \A c \in Calls : call[t][c].at # "waiting" THEN NoExchange
          ELSE [at |-> IF granted THEN "stored" ELSE "failed",
                token |-> NoToken]]
     /\ UNCHANGED <<newest, revoked, page, call, legacy, live, made,
                    bounced, causes>>

\* The request, or its response, is lost; or its body only, after the browser
\* has taken the cookie.
RefreshLost(t) ==
  /\ OnTheWire(t)
  /\ \/ UNCHANGED cookie
     \/ exchange[t].at \in {"granted", "denied"} /\ cookie' = exchange[t].token
  /\ exchange' = [exchange EXCEPT ![t] =
       IF \A c \in Calls : call[t][c].at # "waiting" THEN NoExchange
       ELSE [at |-> "failed", token |-> NoToken]]
  /\ causes' = causes \cup {"strayed"}
  /\ UNCHANGED <<newest, revoked, access, page, call, legacy, live, made, bounced>>

\* migrateLegacyRefreshToken: on load, the key is removed and its token goes
\* through the same route, unless the cookie, which comes first, is there.
MigrateLegacyRefreshToken(t) ==
  /\ legacy # NoToken /\ page[t] = "app" /\ exchange[t] = NoExchange
  /\ \A c \in Calls : call[t][c] = Resting
  /\ legacy' = NoToken
  /\ exchange' = [exchange EXCEPT ![t] = [at |-> "asked",
                    token |-> IF cookie # NoToken THEN cookie ELSE legacy]]
  /\ causes' = causes \cup Strays(t)
  /\ UNCHANGED <<newest, revoked, cookie, access, page, call, live, made,
                 bounced>>

-----------------------------------------------------------------------------
(* Sign-out and sign-in *)

SignOut(t) ==
  /\ page[t] = "app"
  /\ page' = [page EXCEPT ![t] = "leaving"]
  /\ causes' = causes \cup {"cookieless"}
  /\ UNCHANGED <<newest, revoked, cookie, access, call, exchange, legacy, live,
                 made, bounced>>

\* POST /auth/sign-out revokes upstream with the bearer the tab holds, when it
\* holds one that is still good and the auth service answers; it clears the
\* cookie in any case, and the tab clears its storage whether or not it hears
\* of that.
SignedOut(t, heard, revokes) ==
  /\ page[t] = "leaving"
  /\ revokes => access \in live
  /\ revoked' = (revoked \/ revokes)
  /\ cookie' = IF heard THEN NoToken ELSE cookie
  /\ Leave(t)
  /\ UNCHANGED <<newest, legacy, live, made, bounced, causes>>

\* A new family, by the time the user has typed his password.
SignIn(t) ==
  /\ page[t] = "signin" /\ newest < MaxTokens
  /\ \A o \in Tabs : exchange[o] = NoExchange
  /\ newest' = newest + 1 /\ revoked' = FALSE
  /\ cookie' = newest + 1 /\ access' = newest + 1
  /\ live' = live \cup {newest + 1}
  /\ page' = [page EXCEPT ![t] = "app"]
  /\ UNCHANGED <<call, exchange, legacy, made, bounced, causes>>

-----------------------------------------------------------------------------
SessionsNext ==
  \/ AccessExpires
  \/ \E t \in Tabs :
       \/ \E c \in Calls :
            \/ Send(t, c) \/ Answered(t, c) \/ Unauthorized(t, c)
            \/ Bounce(t, c) \/ Replay(t, c)
       \/ Rotate(t) \/ Reject(t) \/ AuthFails(t) \/ Refuse(t)
       \/ RefreshAnswer(t) \/ RefreshLost(t) \/ MigrateLegacyRefreshToken(t)
       \/ SignOut(t) \/ SignIn(t)
       \/ \E heard, revokes \in BOOLEAN : SignedOut(t, heard, revokes)

SessionsSpec == SessionsInit /\ [][SessionsNext]_sessionVars

-----------------------------------------------------------------------------
SessionsTypeOK ==
  /\ newest \in Numbered /\ revoked \in BOOLEAN
  /\ cookie \in Numbered \cup {NoToken} /\ access \in Numbered \cup {NoToken}
  /\ live \subseteq Numbered
  /\ page \in [Tabs -> {"app", "leaving", "signin"}]
  /\ made \in 0 .. MaxCalls /\ bounced \in BOOLEAN
  /\ causes \subseteq Causes

Granting == \E t \in Tabs : exchange[t].at = "granted"

\* An expired access token costs the user nothing: however many calls of a tab
\* meet it, nobody is sent to the sign-in page, unless one of the causes has.
RefreshIsSilent == causes = {} => ~bounced

\* Whoever is sent to the sign-in page by the throttle or by a second 401 keeps
\* the cookie the auth service expects, or has it in an answer on its way.
TurnedAwayKeepsCookie ==
  causes \subseteq {"turned away"} => cookie = newest \/ Granting

\* Whatever the auth service, the throttle and the user do, the browser is left
\* with the newest token or with none, never with one the auth service has
\* replaced, unless two tabs refreshed at once or an answer was lost.
CookieIsCurrent ==
  "strayed" \notin causes =>
    \/ cookie \in {newest, NoToken}
    \/ \E t \in Tabs : exchange[t].at \in {"granted", "denied"}

\* A call is never left waiting for a refresh that nobody is making.
NobodyWaitsAlone ==
  \A t \in Tabs, c \in Calls :
    call[t][c].at = "waiting" => exchange[t].at # "none"

\* All together: what an expired token may do to a browser.
SessionsInv ==
  RefreshIsSilent /\ TurnedAwayKeepsCookie /\ CookieIsCurrent /\ NobodyWaitsAlone
=============================================================================

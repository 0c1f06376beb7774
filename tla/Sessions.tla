------------------------------ MODULE Sessions ------------------------------
(***************************************************************************)
(* Authentication sessions: refresh tokens that are rotated on every use,  *)
(* short-lived access tokens that name a session, the browser that holds   *)
(* both and repeats a refused call after a refresh, and the authorization  *)
(* of a call.                                                              *)
(*                                                                         *)
(* One user and one browser, whose calls run in parallel.  A session is    *)
(* named by its first refresh token.  Passwords, rate limits and the       *)
(* user's own status, which nothing under src/ changes, are left out.      *)
(***************************************************************************)
CONSTANTS
  RefreshTokens,   \* every refresh token that will be issued
  Calls,           \* calls the browser makes at the same time
  NoToken

ASSUME NoTokenAssumption == NoToken \notin RefreshTokens

VARIABLES
  token,      \* RefreshToken rows: state and session
  jar,        \* the browser's refresh cookie (the CSRF cookie goes with it)
  bearer,     \* the session of the access token in the page's memory
  call        \* where each call is

sessions == <<token, jar, bearer, call>>

TokenNames == RefreshTokens \cup {NoToken}
TokenStates == {"unused", "live", "expired", "revoked"}
CallSteps == {"idle", "session", "member", "served", "unauthorized",
              "issued", "rotate", "rotating", "rotated", "invalid", "logout", "cleared"}

\* of is the session or the cookie a call brings, new the token made for it;
\* late says that the session had already ended when the call was sent.
IdleCall == [at |-> "idle", of |-> NoToken, new |-> NoToken, first |-> TRUE, late |-> FALSE]

SessionsOK ==
  /\ token \in [RefreshTokens -> [state : TokenStates, session : TokenNames]]
  /\ jar \in TokenNames /\ bearer \in TokenNames
  /\ call \in [Calls -> [at : CallSteps, of : TokenNames, new : TokenNames,
                         first : BOOLEAN, late : BOOLEAN]]

SessionsInit ==
  /\ token = [t \in RefreshTokens |-> [state |-> "unused", session |-> NoToken]]
  /\ jar = NoToken /\ bearer = NoToken
  /\ call = [c \in Calls |-> IdleCall]

TokensOf(s) == {t \in RefreshTokens : token[t].session = s}
Unrevoked(s) == {t \in TokensOf(s) : token[t].state \in {"live", "expired"}}
Ended(s) == TokensOf(s) # {} /\ Unrevoked(s) = {}

CallAt(c, step) == call[c].at = step
CallGoes(c, step) == call' = [call EXCEPT ![c].at = step]
CallEnds(c) == call' = [call EXCEPT ![c] = IdleCall]
Browser == <<jar, bearer>>

Inserted(t, s) == [token EXCEPT ![t] = [state |-> "live", session |-> s]]
Revoked(rows, t) == [rows EXCEPT ![t].state = IF @ = "unused" THEN @ ELSE "revoked"]

\* The next random token: none that was issued, or that a transaction holds.
Unissued == {t \in RefreshTokens : token[t].state = "unused" /\ \A c \in Calls : call[c].new # t}
FreshToken == CHOOSE t \in Unissued : TRUE

-----------------------------------------------------------------------------
(* Log in and log out *)

\* issueSession and createRefreshToken.
IssueSession(c) ==
  /\ CallAt(c, "idle") /\ Unissued # {}
  /\ token' = Inserted(FreshToken, FreshToken)
  /\ call' = [call EXCEPT ![c] = [IdleCall EXCEPT !.at = "issued", !.of = FreshToken, !.new = FreshToken]]
  /\ UNCHANGED Browser

\* The answer sets the cookies and the access token.
Login(c) ==
  /\ CallAt(c, "issued") /\ CallEnds(c)
  /\ jar' = call[c].new /\ bearer' = call[c].of
  /\ UNCHANGED token

\* The console's button.  (Without its cookie the request would be refused.)
SendLogout(c) ==
  /\ CallAt(c, "idle") /\ jar # NoToken
  /\ call' = [call EXCEPT ![c] = [IdleCall EXCEPT !.at = "logout", !.of = jar]]
  /\ UNCHANGED <<token, Browser>>

RevokeRefreshToken(c) ==
  /\ CallAt(c, "logout")
  /\ token' = Revoked(token, call[c].of) /\ CallGoes(c, "cleared")
  /\ UNCHANGED Browser

Logout(c) ==
  /\ CallAt(c, "cleared") /\ CallEnds(c)
  /\ jar' = NoToken /\ bearer' = NoToken
  /\ UNCHANGED token

\* The page is loaded anew whether or not the server heard of it.
LoseLogout(c) ==
  /\ call[c].at \in {"logout", "cleared"} /\ CallEnds(c)
  /\ bearer' = NoToken
  /\ UNCHANGED <<token, jar>>

\* A page that has no access token tries to restore the session from the cookie.
RestoreSession(c) ==
  /\ CallAt(c, "idle") /\ bearer = NoToken /\ jar # NoToken
  /\ call' = [call EXCEPT ![c] = [IdleCall EXCEPT !.at = "rotate", !.of = jar]]
  /\ UNCHANGED <<token, Browser>>

-----------------------------------------------------------------------------
(* An API call and its authorization *)

Sent(s, first) == [IdleCall EXCEPT !.at = "session", !.of = s, !.first = first, !.late = Ended(s)]

\* The page sends a call with the access token it has.
SendCall(c) ==
  /\ CallAt(c, "idle") /\ bearer # NoToken
  /\ call' = [call EXCEPT ![c] = Sent(bearer, TRUE)]
  /\ UNCHANGED <<token, Browser>>

\* AuthService.session: the access token must be valid, which it is for fifteen
\* minutes, and its session active.  (The first form trusts the access token.)
ActiveIfSigned(s) == s # NoToken
IsAccessSessionActive(s) == \E t \in TokensOf(s) : token[t].state = "live"
Session(c) ==
  /\ CallAt(c, "session")
  /\ \/ IsAccessSessionActive(call[c].of) /\ CallGoes(c, "member")
     \/ CallGoes(c, "unauthorized")
  /\ UNCHANGED <<token, Browser>>

\* findUserAccess: the membership is ACTIVE and has the permission, or the call is
\* answered 403.
Authorize(c) ==
  /\ CallAt(c, "member") /\ (CallGoes(c, "served") \/ CallEnds(c))
  /\ UNCHANGED <<token, Browser>>

\* A call answered 401 refreshes, once; any other answer is the call's.
AnswerCall(c) ==
  /\ \/ CallAt(c, "unauthorized") /\ call[c].first /\ jar # NoToken
        /\ call' = [call EXCEPT ![c] = [IdleCall EXCEPT !.at = "rotate", !.of = jar, !.first = FALSE]]
     \/ CallAt(c, "unauthorized") /\ (~call[c].first \/ jar = NoToken) /\ CallEnds(c)
     \/ CallAt(c, "served") /\ CallEnds(c)
  /\ UNCHANGED <<token, Browser>>

-----------------------------------------------------------------------------
(* Refresh: rotateRefreshToken is a transaction that reads the token, inserts *)
(* its replacement and revokes it; another one can commit in between          *)

RotateRead(c) ==
  /\ CallAt(c, "rotate")
  /\ \/ /\ token[call[c].of].state = "live" /\ Unissued # {}
        /\ call' = [call EXCEPT ![c].at = "rotating", ![c].new = FreshToken]
     \/ token[call[c].of].state # "live" /\ CallGoes(c, "invalid")
  /\ UNCHANGED <<token, Browser>>

\* The update revokes a token that is not revoked yet, and must change one row.
\* (The first form commits whatever the update changed.)
RotateTxUnguarded(c) ==
  /\ token' = Revoked(Inserted(call[c].new, token[call[c].of].session), call[c].of)
  /\ CallGoes(c, "rotated")
RotateTx(c) ==
  /\ token[call[c].of].state # "revoked"
  /\ token' = Revoked(Inserted(call[c].new, token[call[c].of].session), call[c].of)
  /\ CallGoes(c, "rotated")

RotateCommit(c) ==
  /\ CallAt(c, "rotating")
  /\ \/ RotateTx(c)
     \/ token[call[c].of].state = "revoked" /\ CallGoes(c, "invalid") /\ UNCHANGED token
  /\ UNCHANGED Browser

\* The route's answer: new cookies and the call again (or, of a restored session,
\* the console's first call), or no cookies at all.
Refreshed(c) ==
  /\ CallAt(c, "rotated")
  /\ jar' = call[c].new /\ bearer' = token[call[c].new].session
  /\ call' = [call EXCEPT ![c] = Sent(bearer', call[c].first)]
  /\ UNCHANGED token
RefreshRejected(c) ==
  /\ CallAt(c, "invalid") /\ CallEnds(c)
  /\ jar' = NoToken
  /\ UNCHANGED <<token, bearer>>

\* The answer is lost, or a transaction is.
LoseAnswer(c) == call[c].at \in {"issued", "rotating", "rotated"} /\ CallEnds(c) /\ UNCHANGED <<token, Browser>>

ExpireToken(t) ==
  /\ token[t].state = "live" /\ token' = [token EXCEPT ![t].state = "expired"]
  /\ UNCHANGED <<Browser, call>>

SessionsNext ==
  \/ \E t \in RefreshTokens : ExpireToken(t)
  \/ \E c \in Calls :
       \/ IssueSession(c) \/ Login(c) \/ SendLogout(c) \/ RevokeRefreshToken(c) \/ Logout(c)
       \/ LoseLogout(c) \/ RestoreSession(c)
       \/ SendCall(c) \/ Session(c) \/ Authorize(c) \/ AnswerCall(c)
       \/ RotateRead(c) \/ RotateCommit(c) \/ Refreshed(c) \/ RefreshRejected(c) \/ LoseAnswer(c)

SessionsSpec == SessionsInit /\ [][SessionsNext]_sessions

-----------------------------------------------------------------------------
\* However many calls refresh at once, a session has one refresh token that can
\* still be used: the one that replaced all the others.
OneRefreshToken ==
  \A t, u \in RefreshTokens :
    t \in Unrevoked(token[t].session) /\ u \in Unrevoked(token[t].session) => t = u

\* A session that was logged out, or whose token was used up, stays ended: no
\* refresh that was already on its way brings it back.
EndedStaysEnded == [][\A s \in RefreshTokens : Ended(s) => Ended(s)']_sessions

\* A call sent after its session ended is not served, though its access token
\* is still valid.
LateIsRefused == \A c \in Calls : call[c].late => call[c].at # "served"
=============================================================================

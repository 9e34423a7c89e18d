------------------------------ MODULE Sessions ------------------------------
(***************************************************************************)
(* What signing in, refreshing, switching and signing out promise to the    *)
(* people at one browser.                                                   *)
(***************************************************************************)
EXTENDS WebSessions

\* Every variable keeps its type, and a pair its session (the rows of
\* auth_sessions and the claims of the tokens minted from them).
SessionsTypeOK == WebTypeOK

\* A refresh token is exchanged once: handlers that came with the same one have
\* the same successor, whichever of them asked, and a switch counts
\* (security.py 219-279 under the row lock, auth-session.ts 35-58).
OneSuccessor == \A c, d \in Calls :
  calls[c].pair = calls[d].pair /\ calls[c].fresh # 0 /\ calls[d].fresh # 0
    /\ calls[c].pair # 0 => calls[c].fresh = calls[d].fresh

\* Tabs that refresh at the same time never look like a stolen token: as long as
\* no answer is lost, nobody comes after the grace and no branch is switched, no
\* session is revoked for reuse (auth-session.ts 35-58, security.py 308-316).
CalmSessionSurvives ==
  troubles = 0 /\ switches = 0 => \A s \in DOMAIN sessions : sessions[s].revoked # "reuse"

\* What the browser holds, or a handler acts with, opens nobody's session but
\* that of the person who signed in last and has not signed out, however late the
\* answers to the previous person's calls arrive, unless the API never heard the
\* sign-out, or a third person signed in over a session that still stood
\* (logout/route.ts 33-57, auth-session.ts 70-98, api/auth.py 893-928).
Held == {jar} \cup UNION {{calls[c].pair, calls[c].fresh} : c \in {d \in Calls : calls[d].kind # "login"}}
NobodyElse ==
  switches = 0 /\ ~unheard /\ ~evicted =>
    \A p \in Held \ {0} : Live(p) => pairs[p].sid \in owner

\* Work is done in the branch the session is in, never with an access token from
\* before a switch (dependencies.py 98-111, security.py 385-398).
WorksInItsBranch == [][\A c \in Calls :
  calls'[c].ran # 0 /\ calls[c].ran = 0 =>
    LET p == calls'[c].ran IN
      Live(p) /\ pairs[p].branch = pairs[SessionOf(p).jti].branch]_vars

\* A call of a person who stays signed in gets its work done, expired access
\* token or not, if no answer is lost and no branch is switched
\* (auth-session.ts 60-98).
Disturbed == \/ troubles > 0 \/ switches > 0
             \/ \E s \in DOMAIN sessions : sessions[s].revoked \in {"logout", "elsewhere"}
WorkIsDone == \A c \in Calls :
  calls[c].at = "first" ~> (calls[c].ran # 0 \/ Disturbed)

\* Once the API has answered a sign-out, the session it carried is over
\* (docs/authentication.md:45: "Logout revokes the current session").
LogoutEndsSession == \A c \in Calls :
  calls[c].kind = "logout" /\ calls[c].at = "answered" /\ ~unheard =>
    SessionOf(calls[c].pair).revoked # "no"
=============================================================================

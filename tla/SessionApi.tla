----------------------------- MODULE SessionApi -----------------------------
(***************************************************************************)
(* The API's sessions (apps/api security.py, dependencies.py, api/auth.py): *)
(* what a sign-in issues, when a token is accepted, what a refresh, a       *)
(* branch switch, a sign-out and a revocation from elsewhere do. An access  *)
(* and its refresh token are minted together and kept together, so they are *)
(* one pair; the pair's number stands for its jti.                          *)
(***************************************************************************)
EXTENDS Integers, Sequences, FiniteSets

CONSTANTS Users, Branches,
          Home(_),                 \* the branch a user's sign-in lands in
          MaxSessions, MaxPairs    \* bounds: sign-ins, token pairs minted

ASSUME SessionAssumption == /\ MaxSessions \in Nat /\ MaxPairs \in Nat
                            /\ Users # {} /\ \A u \in Users : Home(u) \in Branches

VARIABLES
  sessions,   \* auth_sessions rows: user, token_family, current jti, revocation and its cause
  pairs,      \* the pairs minted, oldest first: session, family and branch claims
  expired     \* pairs whose access token is past its fifteen minutes

apiVars == <<sessions, pairs, expired>>

SessionIds == 1..MaxSessions
PairIds    == 1..MaxPairs
Session == [user: Users, family: PairIds, jti: PairIds,
            revoked: {"no", "logout", "reuse", "elsewhere"}]
Pair    == [sid: SessionIds, family: PairIds, branch: Branches]

ApiTypeOK ==
  /\ sessions \in Seq(Session) /\ Len(sessions) <= MaxSessions
  /\ pairs \in Seq(Pair) /\ Len(pairs) <= MaxPairs
  /\ expired \subseteq DOMAIN pairs
  /\ \A p \in DOMAIN pairs : pairs[p].sid \in DOMAIN sessions

ApiInit == sessions = <<>> /\ pairs = <<>> /\ expired = {}

-----------------------------------------------------------------------------
SessionOf(p) == sessions[pairs[p].sid]

\* The session a pair names still stands and is of the pair's family.
Live(p) == SessionOf(p).revoked = "no" /\ SessionOf(p).family = pairs[p].family

\* get_current_identity: the access token is good; jti plays no part.
Accepted(p) == Live(p) /\ p \notin expired

\* Mutant: any token of the family can be exchanged.
RefreshableByFamily(p) == Live(p)

\* _load_refresh_session under the row lock.
Refreshable(p) == Live(p) /\ SessionOf(p).jti = p
Reused(p)      == Live(p) /\ SessionOf(p).jti # p

\* Mutant: the last jti is given again.
LastOnceMore == Len(pairs)

New == Len(pairs) + 1
Mint(sid, family, branch) ==
  /\ New <= MaxPairs
  /\ pairs' = Append(pairs, [sid |-> sid, family |-> family, branch |-> branch])

\* issue_token_pair: a new row, a new family.
SignIn(u) ==
  /\ Len(sessions) < MaxSessions
  /\ Mint(Len(sessions) + 1, New, Home(u))
  /\ sessions' = Append(sessions, [user |-> u, family |-> New, jti |-> New, revoked |-> "no"])
  /\ UNCHANGED expired

\* rotate_refresh_token and switch_refresh_token_branch: _rotate_session_tokens
\* writes the new jti, and for a switch the new family.
Rotate(p) ==
  /\ Refreshable(p)
  /\ Mint(pairs[p].sid, pairs[p].family, pairs[p].branch)
  /\ sessions' = [sessions EXCEPT ![pairs[p].sid].jti = New]
  /\ UNCHANGED expired

\* Mutant: a switch keeps the family.
SwitchInFamily(p, b) ==
  /\ Refreshable(p)
  /\ Mint(pairs[p].sid, pairs[p].family, b)
  /\ sessions' = [sessions EXCEPT ![pairs[p].sid].jti = New]
  /\ UNCHANGED expired

SwitchTo(p, b) ==
  /\ Refreshable(p)
  /\ Mint(pairs[p].sid, New, b)
  /\ sessions' = [sessions EXCEPT ![pairs[p].sid].jti = New, ![pairs[p].sid].family = New]
  /\ UNCHANGED expired

Revoke(sid, cause) == sessions' = [sessions EXCEPT ![sid].revoked = cause]

\* A refresh token whose jti was replaced: the session is revoked, committed.
\* One whose session is gone or of another family is refused and nothing more.
RefuseToken(p) ==
  /\ ~Refreshable(p)
  /\ IF Reused(p) THEN Revoke(pairs[p].sid, "reuse") ELSE UNCHANGED sessions
  /\ UNCHANGED <<pairs, expired>>

\* Mutant: only the pair minted last can sign out.
SignOutWithLatest(p) ==
  /\ IF Refreshable(p) THEN Revoke(pairs[p].sid, "logout") ELSE UNCHANGED sessions
  /\ UNCHANGED <<pairs, expired>>

\* auth/logout: the session is found by id and family, whatever the jti and
\* however old the access token.
SignOut(p) ==
  /\ IF Live(p) THEN Revoke(pairs[p].sid, "logout") ELSE UNCHANGED sessions
  /\ UNCHANGED <<pairs, expired>>

\* The user changes the password on another device (change_own_password), or
\* an administrator ends the session.
RevokeElsewhere(sid) ==
  /\ sessions[sid].revoked = "no"
  /\ Revoke(sid, "elsewhere")
  /\ UNCHANGED <<pairs, expired>>
=============================================================================

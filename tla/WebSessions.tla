---------------------------- MODULE WebSessions ----------------------------
(***************************************************************************)
(* One browser signed in through the web server (apps/web): its cookie jar, *)
(* shared by all tabs; the route handlers that answer its calls             *)
(* (app/api/auth, app/api/backend, lib/server/auth-session.ts); and the     *)
(* map of refreshes under way that keeps two handlers from exchanging one   *)
(* refresh token twice. A handler has the cookies its request arrived with; *)
(* what it does to the jar takes effect when its response arrives.          *)
(***************************************************************************)
EXTENDS SessionApi

CONSTANTS Calls,        \* slots for the calls the browser has outstanding
          MaxTroubles,  \* bound on lost answers, abandoned calls and stragglers
          MaxSwitches   \* bound on branch switches

ASSUME WebAssumption == MaxTroubles \in Nat /\ MaxSwitches \in Nat

VARIABLES
  jar,        \* the pair in the cookies, 0 for none
  calls,      \* the handler of each slot
  flights,    \* refreshFlights, by the pair being exchanged
  owner,      \* history: the session of the last sign-in, while not signed out (a set)
  switches,   \* history: branch switches asked for
  unheard,    \* history: a sign-out the API did not get
  evicted,    \* history: a sign-in began while the last person's session still stood
  troubles    \* history: lost answers, abandoned calls, stragglers

webVars == <<jar, calls, flights, owner, switches, unheard, evicted, troubles>>
vars == <<apiVars, webVars>>

\* at: where the handler is. pair: the cookies it was sent with. fresh: the pair
\* its refresh got. ran: the pair under which the API did the work it carries.
\* jar: what its response does to the cookies ("keep", "clear", "set").
Stages  == {"idle", "first", "refreshing", "retry", "asking", "answered"}
Kinds   == {"work", "refresh", "switch", "login", "logout"}
Idle    == [at |-> "idle", kind |-> "work", pair |-> 0, fresh |-> 0, ran |-> 0, cookies |-> "keep"]
Call    == [at: Stages, kind: Kinds, pair: 0..MaxPairs, fresh: 0..MaxPairs,
            ran: 0..MaxPairs, cookies: {"keep", "clear", "set"}]
\* A flight is out, or over with the pair it got or a failure; "none": no entry.
NoFlight == [at |-> "none", got |-> 0]
Flight   == [at: {"none", "out", "won", "refused", "failed"}, got: 0..MaxPairs]

WebTypeOK ==
  /\ ApiTypeOK
  /\ jar \in 0..Len(pairs)
  /\ calls \in [Calls -> Call]
  /\ flights \in [PairIds -> Flight]
  /\ owner \subseteq DOMAIN sessions
  /\ switches \in 0..MaxSwitches /\ troubles \in 0..MaxTroubles
  /\ unheard \in BOOLEAN /\ evicted \in BOOLEAN

Init ==
  /\ ApiInit
  /\ jar = 0 /\ calls = [c \in Calls |-> Idle]
  /\ flights = [p \in PairIds |-> NoFlight]
  /\ owner = {} /\ switches = 0 /\ troubles = 0
  /\ unheard = FALSE /\ evicted = FALSE

-----------------------------------------------------------------------------
(* Calls begin with the cookies of the moment.                               *)

\* Bound: whatever is under way can still mint its pair.
Booked == Len(pairs)
          + Cardinality({c \in Calls : calls[c].at \in {"first", "asking"} /\ calls[c].kind # "logout"})
          + Cardinality({p \in PairIds : flights[p].at = "out"})
Room == Booked < MaxPairs

Begin(c, kind, at) ==
  /\ calls[c].at = "idle" /\ (Room \/ kind \in {"login", "logout"})
  /\ calls' = [calls EXCEPT ![c] = [Idle EXCEPT !.at = at, !.kind = kind, !.pair = jar]]
  /\ UNCHANGED <<apiVars, jar, flights, owner, unheard, troubles>>

\* authenticatedBackendFetch: the first try goes out with the access token.
BeginWork(c) == jar # 0 /\ Begin(c, "work", "first") /\ UNCHANGED <<switches, evicted>>

\* Mutant: the call is not sent again with the pair the refresh brought.
AfterWithoutRetry(call, f) ==
  CASE f.at = "won"     -> [call EXCEPT !.at = "answered", !.fresh = f.got, !.cookies = "set"]
    [] f.at = "refused" -> [call EXCEPT !.at = "answered", !.cookies = "clear"]
    [] f.at = "failed"  -> [call EXCEPT !.at = "answered"]
    [] OTHER            -> [call EXCEPT !.at = "refreshing"]

\* refreshSession: who comes joins the pair's flight, a new one when the map has
\* none. When it is over, all who await it go on at once; the refresh route has
\* nothing to try again.
After(call, f) ==
  CASE f.at = "won" /\ call.kind = "work" -> [call EXCEPT !.at = "retry", !.fresh = f.got]
    [] f.at = "won" /\ call.kind # "work" ->
         [call EXCEPT !.at = "answered", !.fresh = f.got, !.cookies = "set"]
    [] f.at = "refused" -> [call EXCEPT !.at = "answered", !.cookies = "clear"]
    [] f.at = "failed"  -> [call EXCEPT !.at = "answered"]
    [] OTHER            -> [call EXCEPT !.at = "refreshing"]
Board(c, call) ==
  /\ calls' = [calls EXCEPT ![c] = After(call, flights[call.pair])]
  /\ flights' = [flights EXCEPT ![call.pair] = IF @.at = "none" THEN [@ EXCEPT !.at = "out"] ELSE @]

\* Mutant: a flight leaves the map as soon as it is over.
LandAndForget(p, f) ==
  /\ flights' = [flights EXCEPT ![p] = NoFlight]
  /\ calls' = [c \in Calls |-> IF calls[c].at = "refreshing" /\ calls[c].pair = p
                              THEN After(calls[c], f) ELSE calls[c]]

Land(p, f) ==
  /\ flights' = [flights EXCEPT ![p] = f]
  /\ calls' = [c \in Calls |-> IF calls[c].at = "refreshing" /\ calls[c].pair = p
                              THEN After(calls[c], f) ELSE calls[c]]

BeginRefresh(c) ==
  /\ jar # 0 /\ calls[c].at = "idle" /\ Room
  /\ Board(c, [Idle EXCEPT !.kind = "refresh", !.pair = jar])
  /\ UNCHANGED <<apiVars, jar, owner, switches, unheard, evicted, troubles>>
BeginSwitch(c) ==
  /\ jar # 0 /\ switches < MaxSwitches /\ switches' = switches + 1
  /\ Begin(c, "switch", "asking") /\ UNCHANGED evicted
BeginLogout(c) == jar # 0 /\ Begin(c, "logout", "asking") /\ UNCHANGED <<switches, evicted>>
\* The sign-in page shows only to a browser without cookies (proxy.ts). They may have
\* fallen to a late answer to an earlier person's call, while the last one is signed in.
Standing == {s \in owner : sessions[s].revoked = "no"}
BeginLogin(c) ==
  /\ jar = 0 /\ \A d \in Calls : calls[d].at # "idle" => calls[d].kind # "login"
  /\ Begin(c, "login", "asking") /\ evicted' = (evicted \/ Standing # {}) /\ UNCHANGED switches

Step(c, changes) == calls' = [calls EXCEPT ![c] = changes]
Answer(c, effect) == Step(c, [calls[c] EXCEPT !.at = "answered", !.cookies = effect])

-----------------------------------------------------------------------------
(* authenticatedBackendFetch                                                 *)

FirstTry(c) ==
  /\ calls[c].at = "first"
  /\ LET p == calls[c].pair IN
     IF Accepted(p)
     THEN Step(c, [calls[c] EXCEPT !.at = "answered", !.ran = p]) /\ UNCHANGED flights
     ELSE Board(c, calls[c])
  /\ UNCHANGED <<apiVars, jar, owner, switches, unheard, evicted, troubles>>

\* performRefresh: the API exchanges the token or refuses it.
Exchange(p) ==
  /\ flights[p].at = "out"
  /\ \/ Rotate(p) /\ Land(p, [at |-> "won", got |-> New])
     \/ RefuseToken(p) /\ Land(p, [at |-> "refused", got |-> 0])
  /\ UNCHANGED <<jar, owner, switches, unheard, evicted, troubles>>

Retry(c) ==
  /\ calls[c].at = "retry"
  /\ LET p == calls[c].fresh IN
     Step(c, IF Accepted(p)
             THEN [calls[c] EXCEPT !.at = "answered", !.cookies = "set", !.ran = p]
             ELSE [calls[c] EXCEPT !.at = "answered", !.cookies = "clear"])
  /\ UNCHANGED <<apiVars, jar, flights, owner, switches, unheard, evicted, troubles>>

-----------------------------------------------------------------------------
(* The other routes: one call to the API each, none through the map.         *)

ServeSwitch(c) ==
  /\ calls[c].at = "asking" /\ calls[c].kind = "switch"
  /\ LET p == calls[c].pair IN
     \/ \E b \in Branches :
          /\ SwitchTo(p, b)
          /\ Step(c, [calls[c] EXCEPT !.at = "answered", !.fresh = New, !.cookies = "set"])
     \/ RefuseToken(p) /\ Answer(c, "clear")
  /\ UNCHANGED <<jar, flights, owner, switches, unheard, evicted, troubles>>

\* Wrong credentials leave the cookies alone.
ServeLogin(c) ==
  /\ calls[c].at = "asking" /\ calls[c].kind = "login"
  /\ \/ /\ Booked <= MaxPairs
        /\ \E u \in Users : SignIn(u)
        /\ Step(c, [calls[c] EXCEPT !.at = "answered", !.fresh = New, !.cookies = "set"])
     \/ UNCHANGED apiVars /\ Answer(c, "keep")
  /\ UNCHANGED <<jar, flights, owner, switches, unheard, evicted, troubles>>

ServeLogout(c) ==
  /\ calls[c].at = "asking" /\ calls[c].kind = "logout"
  /\ SignOut(calls[c].pair)
  /\ Answer(c, "clear")
  /\ UNCHANGED <<jar, flights, owner, switches, unheard, evicted, troubles>>

-----------------------------------------------------------------------------
(* The response reaches the browser.                                         *)

SignedInBy(c) == CASE calls[c].kind = "login" /\ calls[c].fresh # 0 -> {pairs[calls[c].fresh].sid}
                   [] calls[c].kind = "logout" -> owner \ {pairs[calls[c].pair].sid}
                   [] OTHER -> owner
Arrive(c) ==
  /\ calls[c].at = "answered"
  /\ jar' = CASE calls[c].cookies = "set" -> calls[c].fresh
              [] calls[c].cookies = "clear" -> 0
              [] OTHER -> jar
  /\ owner' = SignedInBy(c)
  /\ Step(c, Idle)
  /\ UNCHANGED <<apiVars, flights, switches, unheard, evicted, troubles>>

\* Fifteen minutes pass: neither a call nor a flight lasts that long. A pair
\* that is refused anyway need not expire.
Expire(p) ==
  /\ p \in DOMAIN pairs /\ Accepted(p)
  /\ \A c \in Calls : p \notin {calls[c].pair, calls[c].fresh}
  /\ \A q \in PairIds : flights[q].got # p
  /\ expired' = expired \cup {p}
  /\ UNCHANGED <<sessions, pairs, webVars>>

\* Two seconds after it ended a flight leaves the map, the one that brought its
\* pair before it. Whoever still has the pair, or is about to put it back into the
\* cookies, is a straggler.
Straggler(p) == jar = p \/ \E c \in Calls : \/ calls[c].pair = p /\ calls[c].fresh = 0
                                            \/ calls[c].fresh = p
Over(p) == flights[p].at \in {"won", "refused", "failed"}
Forget(p) ==
  /\ Over(p) /\ \A q \in PairIds : flights[q].got # p
  /\ flights' = [flights EXCEPT ![p] = NoFlight]
  /\ IF flights[p].at = "won" /\ Straggler(p) THEN troubles < MaxTroubles /\ troubles' = troubles + 1
     ELSE UNCHANGED troubles
  /\ UNCHANGED <<apiVars, jar, calls, owner, switches, unheard, evicted>>

-----------------------------------------------------------------------------
(* Troubles                                                                  *)

Trouble == troubles < MaxTroubles /\ troubles' = troubles + 1

\* The page goes away or the network fails: the response is never applied. A
\* refresh under way goes on.
Abandon(c) ==
  /\ calls[c].at # "idle" /\ (calls[c].kind = "logout" => calls[c].at = "answered") /\ Trouble
  /\ Step(c, Idle)
  /\ UNCHANGED <<apiVars, jar, flights, owner, switches, unheard, evicted>>

\* The exchange fails in transport, before or after the API did it.
LoseExchange(p) ==
  /\ flights[p].at = "out" /\ Trouble
  /\ Rotate(p) \/ UNCHANGED apiVars
  /\ Land(p, [at |-> "failed", got |-> 0])
  /\ UNCHANGED <<jar, owner, switches, unheard, evicted>>

\* auth/logout is best effort: the cookies go although the API heard nothing.
LogoutUnheard(c) ==
  /\ calls[c].at = "asking" /\ calls[c].kind = "logout" /\ Trouble
  /\ unheard' = TRUE
  /\ Answer(c, "clear")
  /\ UNCHANGED <<apiVars, jar, flights, owner, switches, evicted>>

EndElsewhere(s) == s \in DOMAIN sessions /\ RevokeElsewhere(s) /\ UNCHANGED webVars

-----------------------------------------------------------------------------
Handler(c) == FirstTry(c) \/ Retry(c) \/ ServeSwitch(c) \/ ServeLogin(c)
              \/ ServeLogout(c) \/ Arrive(c)
Next ==
  \/ \E c \in Calls : BeginWork(c) \/ BeginRefresh(c) \/ BeginSwitch(c) \/ BeginLogout(c)
                      \/ BeginLogin(c) \/ Handler(c) \/ Abandon(c) \/ LogoutUnheard(c)
  \/ \E p \in PairIds : Exchange(p) \/ Expire(p) \/ Forget(p) \/ LoseExchange(p)
  \/ \E s \in SessionIds : EndElsewhere(s)

\* The web server runs its handlers and its timers; the API answers what it is sent.
Fairness == /\ \A c \in Calls : WF_vars(Handler(c))
            /\ \A p \in PairIds : WF_vars(Exchange(p))
Spec == Init /\ [][Next]_vars /\ Fairness
=============================================================================

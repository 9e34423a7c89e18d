---------------------------- MODULE SessionProofs ----------------------------
(***************************************************************************)
(* Sessions for any number of calls, sign-ins, tokens and branches: a       *)
(* refresh token has one successor, work is done in the branch of its       *)
(* session, tabs that refresh at once are not taken for thieves, and nobody *)
(* inherits a session. All rest on the same fact: a jti that was replaced   *)
(* never comes back, and a family never changes its branch.                 *)
(***************************************************************************)
EXTENDS Sessions, TLAPS

\* Of the API's rows: a session's jti is a pair of its own family, a family is
\* named after its first pair, and all its pairs are for one branch.
ApiInv ==
  /\ ApiTypeOK
  /\ \A s \in DOMAIN sessions :
       sessions[s].jti \in DOMAIN pairs /\ pairs[sessions[s].jti].family = sessions[s].family
  /\ \A p \in DOMAIN pairs : pairs[p].family <= p
  /\ \A p, q \in DOMAIN pairs : pairs[p].family = pairs[q].family => pairs[p].branch = pairs[q].branch

\* Nothing is taken back: rows and pairs stay, and a jti gives way to a new one only.
Grows ==
  /\ Len(sessions) <= Len(sessions') /\ Len(pairs) <= Len(pairs')
  /\ \A p \in DOMAIN pairs : pairs'[p] = pairs[p]
  /\ \A s \in DOMAIN sessions : sessions'[s].jti \in {sessions[s].jti, New}

\* The pair's refresh token was exchanged, by the pairs P and the rows S.
Exchanged(p, P, S) == p \in DOMAIN P /\ S[P[p].sid].jti # p

-----------------------------------------------------------------------------
(* The API                                                                   *)

LEMMA Minted ==
  ASSUME ApiTypeOK, NEW sid \in SessionIds, NEW family \in PairIds, NEW branch \in Branches,
         Mint(sid, family, branch)
  PROVE  /\ pairs' \in Seq(Pair) /\ Len(pairs') = New /\ New \in PairIds
         /\ DOMAIN pairs' = 1..New /\ DOMAIN pairs = 1..Len(pairs)
         /\ pairs'[New] = [sid |-> sid, family |-> family, branch |-> branch]
         /\ \A p \in DOMAIN pairs : pairs'[p] = pairs[p]
BY SessionAssumption DEF ApiTypeOK, Mint, New, Pair, PairIds

\* One row changes, and keeps its type.
LEMMA RowChanged ==
  ASSUME ApiTypeOK, NEW sid \in DOMAIN sessions, NEW row \in Session,
         sessions' = [sessions EXCEPT ![sid] = row]
  PROVE  /\ sessions' \in Seq(Session) /\ Len(sessions') = Len(sessions)
         /\ DOMAIN sessions' = DOMAIN sessions /\ sessions'[sid] = row
         /\ \A s \in DOMAIN sessions : s # sid => sessions'[s] = sessions[s]
BY DEF ApiTypeOK

\* What the rows and pairs of a sound state are.
LEMMA Numbered ==
  ASSUME ApiTypeOK
  PROVE  /\ Len(pairs) \in Nat /\ DOMAIN pairs = 1..Len(pairs) /\ DOMAIN pairs \subseteq PairIds
         /\ Len(sessions) \in Nat /\ DOMAIN sessions = 1..Len(sessions) /\ DOMAIN sessions \subseteq SessionIds
         /\ New = Len(pairs) + 1 /\ New \notin DOMAIN pairs
BY SessionAssumption DEF ApiTypeOK, PairIds, SessionIds, New

\* A pair's session exists.
LEMMA PairsHaveSessions ==
  ASSUME ApiInv, NEW p \in DOMAIN pairs
  PROVE  /\ pairs[p] \in Pair /\ pairs[p].sid \in DOMAIN sessions
         /\ sessions[pairs[p].sid] \in Session /\ SessionOf(p) = sessions[pairs[p].sid]
<1>1. pairs[p] \in Pair /\ pairs[p].sid \in DOMAIN sessions
  BY DEF ApiInv, ApiTypeOK
<1>2. \A s \in DOMAIN sessions : sessions[s] \in Session
  BY DEF ApiInv, ApiTypeOK
<1> QED BY <1>1, <1>2 DEF SessionOf

\* A session is given a new pair, of its family or of a new one.
LEMMA RenewedStaysSound ==
  ASSUME ApiInv, NEW p \in DOMAIN pairs, NEW family \in {pairs[p].family, New}, NEW branch \in Branches,
         family = pairs[p].family => branch = pairs[p].branch,
         Mint(pairs[p].sid, family, branch), UNCHANGED expired,
         NEW row, row \in Session, row.jti = New, row.family = family,
         sessions' = [sessions EXCEPT ![pairs[p].sid] = row]
  PROVE  ApiInv' /\ Grows /\ Exchanged(p, pairs', sessions')
<1> DEFINE s == pairs[p].sid
<1>a. ApiTypeOK
  BY DEF ApiInv
<1>1. s \in DOMAIN sessions /\ s \in SessionIds /\ p \in PairIds /\ pairs[p] \in Pair
  BY <1>a, PairsHaveSessions, Numbered
<1>2. family \in PairIds
  BY DEF Session
<1>3. /\ pairs' \in Seq(Pair) /\ Len(pairs') = New /\ New \in PairIds
      /\ DOMAIN pairs' = 1..New /\ DOMAIN pairs = 1..Len(pairs)
      /\ pairs'[New] = [sid |-> s, family |-> family, branch |-> branch]
      /\ \A q \in DOMAIN pairs : pairs'[q] = pairs[q]
  BY <1>a, <1>1, <1>2, Minted
<1>6. /\ sessions' \in Seq(Session) /\ Len(sessions') = Len(sessions)
      /\ DOMAIN sessions' = DOMAIN sessions /\ sessions'[s] = row
      /\ \A r \in DOMAIN sessions : r # s => sessions'[r] = sessions[r]
  BY <1>a, <1>1, RowChanged
<1>4. pairs[p].sid = s
  OBVIOUS
<1> HIDE DEF s
<1>7. New = Len(pairs) + 1 /\ Len(pairs) \in Nat /\ New \notin DOMAIN pairs
  BY <1>a, Numbered
<1>10. \A q \in DOMAIN pairs' : q \in DOMAIN pairs \/ q = New
  BY <1>3, <1>7
<1>5. DOMAIN pairs \subseteq DOMAIN pairs' /\ New \in DOMAIN pairs'
  BY <1>3, <1>7
<1>8. ApiTypeOK'
  <2>1. \A q \in DOMAIN pairs' : pairs'[q].sid \in DOMAIN sessions'
    BY <1>1, <1>3, <1>6, <1>10 DEF ApiInv, ApiTypeOK
  <2>2. expired' \subseteq DOMAIN pairs'
    BY <1>5 DEF ApiInv, ApiTypeOK
  <2>3. Len(sessions') <= MaxSessions /\ Len(pairs') <= MaxPairs
    BY <1>3, <1>6 DEF ApiInv, ApiTypeOK, Mint
  <2> QED BY <2>1, <2>2, <2>3, <1>3, <1>6 DEF ApiTypeOK
<1>9. \A r \in DOMAIN sessions' :
        sessions'[r].jti \in DOMAIN pairs' /\ pairs'[sessions'[r].jti].family = sessions'[r].family
  <2> TAKE r \in DOMAIN sessions'
  <2>1. CASE r = s
    BY <2>1, <1>3, <1>5, <1>6
  <2>2. CASE r # s
    <3>1. sessions'[r] = sessions[r] /\ sessions[r].jti \in DOMAIN pairs
          /\ pairs[sessions[r].jti].family = sessions[r].family
      BY <2>2, <1>6 DEF ApiInv
    <3>2. sessions[r].jti \in DOMAIN pairs' /\ pairs'[sessions[r].jti] = pairs[sessions[r].jti]
      BY <3>1, <1>3, <1>5
    <3> QED BY <3>1, <3>2
  <2> QED BY <2>1, <2>2
<1>12. \A q \in DOMAIN pairs : pairs[q].family <= q /\ q < New /\ pairs[q].family \in Int
  <2> TAKE q \in DOMAIN pairs
  <2>1. pairs[q].family \in Int
    BY PairsHaveSessions DEF Pair, PairIds
  <2>2. q \in 1..Len(pairs)
    BY <1>3
  <2> QED BY <2>1, <2>2, <1>7 DEF ApiInv
<1>11. \A q \in DOMAIN pairs' : pairs'[q].family <= q
  <2>1. family <= New /\ New \in Int
    BY <1>7, <1>12
  <2> QED BY <2>1, <1>3, <1>10, <1>12
<1>13. \A q \in DOMAIN pairs : pairs[q].family = family => pairs[q].branch = branch
  <2>1. \A q \in DOMAIN pairs : pairs[q].family # New
    BY <1>7, <1>12
  <2> QED BY <2>1 DEF ApiInv
<1>14. \A q, r \in DOMAIN pairs' :
         pairs'[q].family = pairs'[r].family => pairs'[q].branch = pairs'[r].branch
  <2> TAKE q, r \in DOMAIN pairs'
  <2>1. CASE q = New
    BY <2>1, <1>3, <1>10, <1>13
  <2>2. CASE r = New
    BY <2>2, <1>3, <1>10, <1>13
  <2>3. CASE q # New /\ r # New
    BY <2>3, <1>3, <1>10 DEF ApiInv
  <2> QED BY <2>1, <2>2, <2>3
<1>15. Grows
  <2>1. \A r \in DOMAIN sessions : sessions'[r].jti \in {sessions[r].jti, New}
    BY <1>6
  <2>2. Len(sessions) <= Len(sessions') /\ Len(pairs) <= Len(pairs')
    BY <1>3, <1>6, <1>7 DEF ApiInv, ApiTypeOK
  <2> QED BY <2>1, <2>2, <1>3 DEF Grows
<1>16. Exchanged(p, pairs', sessions')
  <2>1. pairs'[p].sid = s /\ p # New /\ p \in DOMAIN pairs' /\ sessions'[s].jti = New
    BY <1>3, <1>4, <1>5, <1>6, <1>7
  <2> QED BY <2>1 DEF Exchanged
<1> QED BY <1>8, <1>9, <1>11, <1>14, <1>15, <1>16 DEF ApiInv

LEMMA RotatedStaysSound ==
  ASSUME ApiInv, NEW p \in DOMAIN pairs, Rotate(p) PROVE ApiInv' /\ Grows /\ Exchanged(p, pairs', sessions')
<1> DEFINE row == [sessions[pairs[p].sid] EXCEPT !.jti = New]
<1>1. sessions[pairs[p].sid].family = pairs[p].family /\ pairs[p].sid \in DOMAIN sessions
      /\ sessions[pairs[p].sid] \in Session /\ pairs[p].branch \in Branches /\ New \in PairIds
  <2>1. New \in PairIds
    BY Numbered, SessionAssumption DEF Rotate, Mint, PairIds, ApiInv
  <2> QED BY <2>1, PairsHaveSessions DEF Rotate, Refreshable, Live, Pair
<1>2. row \in Session /\ row.jti = New /\ row.family = pairs[p].family
  BY <1>1 DEF Session
<1>3. sessions' = [sessions EXCEPT ![pairs[p].sid] = row]
  BY DEF Rotate
<1> HIDE DEF row
<1> QED BY <1>1, <1>2, <1>3, RenewedStaysSound DEF Rotate

LEMMA SwitchedStaysSound ==
  ASSUME ApiInv, NEW p \in DOMAIN pairs, NEW b \in Branches, SwitchTo(p, b)
  PROVE  ApiInv' /\ Grows /\ Exchanged(p, pairs', sessions')
<1> DEFINE s == pairs[p].sid
           half == [sessions[s] EXCEPT !.jti = New]
           row == [half EXCEPT !.family = New]
           mid == [sessions EXCEPT ![s].jti = New]
<1>1. s \in DOMAIN sessions /\ sessions[s] \in Session /\ pairs[p] \in Pair
  BY PairsHaveSessions
<1>2. New \in PairIds /\ pairs[p].family # New
  <2>1. New \in PairIds
    BY Numbered, SessionAssumption DEF SwitchTo, Mint, PairIds, ApiInv
  <2>2. p < New /\ pairs[p].family <= p /\ pairs[p].family \in Int /\ p \in Int
    BY <1>1, Numbered DEF ApiInv, Pair, PairIds
  <2> QED BY <2>1, <2>2, Numbered DEF ApiInv
<1>3. sessions' = [mid EXCEPT ![s].family = New]
  BY DEF SwitchTo
<1>4. half \in Session /\ half.jti = New /\ mid = [sessions EXCEPT ![s] = half]
  BY <1>1, <1>2 DEF Session
<1> HIDE DEF half, mid
<1>5. row \in Session /\ row.jti = New /\ row.family = New
  BY <1>2, <1>4 DEF Session
<1>6. sessions' = [sessions EXCEPT ![s] = row]
  BY <1>1, <1>3, <1>4
<1> HIDE DEF row
<1> QED BY <1>2, <1>5, <1>6, RenewedStaysSound DEF SwitchTo

LEMMA SignedInStaysSound ==
  ASSUME ApiInv, NEW u \in Users, SignIn(u) PROVE ApiInv' /\ Grows
<1> DEFINE s   == Len(sessions) + 1
           row == [user |-> u, family |-> New, jti |-> New, revoked |-> "no"]
<1>a. ApiTypeOK
  BY DEF ApiInv
<1>1. s \in SessionIds /\ New \in PairIds /\ Home(u) \in Branches
  BY <1>a, Numbered, SessionAssumption DEF SignIn, Mint, SessionIds, PairIds
<1>2. row \in Session /\ row.jti = New /\ row.family = New
  BY <1>1 DEF Session
<1>3. /\ pairs' \in Seq(Pair) /\ Len(pairs') = New
      /\ DOMAIN pairs' = 1..New /\ DOMAIN pairs = 1..Len(pairs)
      /\ pairs'[New] = [sid |-> s, family |-> New, branch |-> Home(u)]
      /\ \A q \in DOMAIN pairs : pairs'[q] = pairs[q]
  BY <1>a, <1>1, Minted DEF SignIn
<1>4. sessions' = Append(sessions, row)
  BY DEF SignIn
<1> HIDE DEF row
<1>5. /\ sessions' \in Seq(Session) /\ Len(sessions') = s /\ DOMAIN sessions' = 1..s
      /\ sessions'[s] = row /\ \A r \in DOMAIN sessions : sessions'[r] = sessions[r]
  BY <1>a, <1>2, <1>4 DEF ApiTypeOK
<1>6. s \in Nat /\ DOMAIN sessions = 1..Len(sessions) /\ Len(sessions) \in Nat
      /\ \A r \in DOMAIN sessions' : r \in DOMAIN sessions \/ r = s
  BY <1>a, <1>5, Numbered
<1>7. s \in DOMAIN sessions' /\ DOMAIN sessions \subseteq DOMAIN sessions'
  BY <1>5, <1>6
<1> HIDE DEF s
<1>8. New = Len(pairs) + 1 /\ Len(pairs) \in Nat /\ New \notin DOMAIN pairs
  BY <1>a, Numbered
<1>9. DOMAIN pairs \subseteq DOMAIN pairs' /\ New \in DOMAIN pairs'
      /\ \A q \in DOMAIN pairs' : q \in DOMAIN pairs \/ q = New
  BY <1>3, <1>8
<1>10. ApiTypeOK'
  <2>1. \A q \in DOMAIN pairs' : pairs'[q].sid \in DOMAIN sessions'
    BY <1>3, <1>7, <1>9 DEF ApiInv, ApiTypeOK
  <2>2. expired' \subseteq DOMAIN pairs'
    BY <1>9 DEF ApiInv, ApiTypeOK, SignIn
  <2>3. Len(sessions') <= MaxSessions /\ Len(pairs') <= MaxPairs
    BY <1>1, <1>3, <1>5, SessionAssumption DEF PairIds, SessionIds
  <2> QED BY <2>1, <2>2, <2>3, <1>3, <1>5 DEF ApiTypeOK
<1>11. \A r \in DOMAIN sessions' :
         sessions'[r].jti \in DOMAIN pairs' /\ pairs'[sessions'[r].jti].family = sessions'[r].family
  <2> TAKE r \in DOMAIN sessions'
  <2>1. CASE r = s
    BY <2>1, <1>2, <1>3, <1>5, <1>9
  <2>2. CASE r \in DOMAIN sessions
    <3>1. sessions'[r] = sessions[r] /\ sessions[r].jti \in DOMAIN pairs
          /\ pairs[sessions[r].jti].family = sessions[r].family
      BY <2>2, <1>5 DEF ApiInv
    <3>2. sessions[r].jti \in DOMAIN pairs' /\ pairs'[sessions[r].jti] = pairs[sessions[r].jti]
      BY <3>1, <1>3, <1>9
    <3> QED BY <3>1, <3>2
  <2> QED BY <2>1, <2>2, <1>6
<1>12. \A q \in DOMAIN pairs : pairs[q].family <= q /\ pairs[q].family # New
  <2> TAKE q \in DOMAIN pairs
  <2>1. pairs[q].family \in Int
    BY PairsHaveSessions DEF Pair, PairIds
  <2>2. q \in 1..Len(pairs)
    BY <1>3
  <2> QED BY <2>1, <2>2, <1>8 DEF ApiInv
<1>13. \A q \in DOMAIN pairs' : pairs'[q].family <= q
  BY <1>3, <1>8, <1>9, <1>12
<1>14. \A q, r \in DOMAIN pairs' :
         pairs'[q].family = pairs'[r].family => pairs'[q].branch = pairs'[r].branch
  <2> TAKE q, r \in DOMAIN pairs'
  <2>1. CASE q = New
    BY <2>1, <1>3, <1>9, <1>12
  <2>2. CASE r = New
    BY <2>2, <1>3, <1>9, <1>12
  <2>3. CASE q # New /\ r # New
    BY <2>3, <1>3, <1>9 DEF ApiInv
  <2> QED BY <2>1, <2>2, <2>3
<1>15. Grows
  <2>1. Len(sessions) <= Len(sessions') /\ Len(pairs) <= Len(pairs')
    BY <1>3, <1>5, <1>6, <1>8 DEF s
  <2> QED BY <2>1, <1>3, <1>5 DEF Grows
<1> QED BY <1>10, <1>11, <1>13, <1>14, <1>15 DEF ApiInv

\* A revocation, by whatever cause, or nothing.
LEMMA RevokedStaysSound ==
  ASSUME ApiInv, NEW sid \in DOMAIN sessions, NEW cause \in {"logout", "reuse", "elsewhere"},
         Revoke(sid, cause) \/ UNCHANGED sessions, UNCHANGED pairs,
         expired' \subseteq DOMAIN pairs
  PROVE  ApiInv' /\ Grows
<1>1. CASE UNCHANGED sessions
  BY <1>1 DEF ApiInv, ApiTypeOK, Grows
<1>2. CASE Revoke(sid, cause)
  <2> DEFINE row == [sessions[sid] EXCEPT !.revoked = cause]
  <2>1. sessions[sid] \in Session
    BY DEF ApiInv, ApiTypeOK
  <2>2. row \in Session /\ row.jti = sessions[sid].jti /\ row.family = sessions[sid].family
    BY <2>1 DEF Session
  <2>3. sessions' = [sessions EXCEPT ![sid] = row]
    BY <1>2 DEF Revoke
  <2> HIDE DEF row
  <2>4. /\ sessions' \in Seq(Session) /\ Len(sessions') = Len(sessions)
        /\ DOMAIN sessions' = DOMAIN sessions /\ sessions'[sid] = row
        /\ \A s \in DOMAIN sessions : s # sid => sessions'[s] = sessions[s]
    BY <2>2, <2>3, RowChanged DEF ApiInv
  <2>5. \A s \in DOMAIN sessions :
          sessions'[s].jti = sessions[s].jti /\ sessions'[s].family = sessions[s].family
    BY <2>2, <2>4
  <2>6. ApiTypeOK'
    BY <2>4 DEF ApiInv, ApiTypeOK
  <2>7. Grows
    BY <2>4, <2>5 DEF Grows, ApiInv, ApiTypeOK
  <2> QED BY <2>4, <2>5, <2>6, <2>7 DEF ApiInv
<1> QED BY <1>1, <1>2

LEMMA RefusedStaysSound ==
  ASSUME ApiInv, NEW p \in DOMAIN pairs, RefuseToken(p) \/ SignOut(p)
  PROVE  ApiInv' /\ Grows
<1>1. pairs[p].sid \in DOMAIN sessions /\ expired \subseteq DOMAIN pairs
  BY PairsHaveSessions DEF ApiInv, ApiTypeOK
<1>2. CASE RefuseToken(p)
  BY <1>1, <1>2, RevokedStaysSound DEF RefuseToken
<1>3. CASE SignOut(p)
  BY <1>1, <1>3, RevokedStaysSound DEF SignOut
<1> QED BY <1>2, <1>3

LEMMA UntouchedStaysSound ==
  ASSUME ApiInv, UNCHANGED <<sessions, pairs>>, expired' \subseteq DOMAIN pairs
  PROVE  ApiInv' /\ Grows
BY DEF ApiInv, ApiTypeOK, Grows

-----------------------------------------------------------------------------
(* The web server and the browser                                            *)

\* A call carries cookies unless it is a sign-in, and has no new pair before it
\* got one; a pair it has exchanged is not its session's any more.
CallOK(k, P, S) ==
  /\ k \in Call /\ k.pair <= Len(P) /\ k.fresh <= Len(P)
  /\ k.at # "idle" /\ k.kind # "login" => k.pair # 0
  /\ k.kind = "login" => k.pair = 0 /\ k.at \in {"asking", "answered"}
  /\ k.at \in {"idle", "first", "refreshing", "asking"} => k.fresh = 0
  /\ k.pair # 0 /\ k.fresh # 0 => Exchanged(k.pair, P, S)
FlightOK(p, f, P, S) ==
  /\ f \in Flight /\ f.got <= Len(P)
  /\ f.at # "none" => p \in DOMAIN P
  /\ f.at = "won" => Exchanged(p, P, S)

\* What a flight got and what calls got for the same pair is the same.
FlightsAgree == \A p \in PairIds, c \in Calls :
  flights[p].at = "won" /\ calls[c].pair = p /\ calls[c].fresh # 0 => calls[c].fresh = flights[p].got

Rest == /\ jar \in 0..Len(pairs) /\ owner \subseteq DOMAIN sessions
        /\ switches \in 0..MaxSwitches /\ troubles \in 0..MaxTroubles
        /\ unheard \in BOOLEAN /\ evicted \in BOOLEAN

WebInv ==
  /\ ApiInv /\ Rest
  /\ calls \in [Calls -> Call] /\ flights \in [PairIds -> Flight]
  /\ \A c \in Calls : CallOK(calls[c], pairs, sessions)
  /\ \A p \in PairIds : FlightOK(p, flights[p], pairs, sessions)
  /\ OneSuccessor /\ FlightsAgree

LEMMA WebStart == Init => WebInv
<1> SUFFICES ASSUME Init PROVE WebInv
  OBVIOUS
<1>1. ApiInv
  BY SessionAssumption DEF Init, ApiInit, ApiInv, ApiTypeOK
<1>2. Len(pairs) = 0 /\ Rest
  <2>1. pairs = <<>> /\ sessions = <<>>
    BY DEF Init, ApiInit
  <2>2. Len(pairs) = 0
    BY <2>1
  <2>3. jar \in 0..Len(pairs) /\ switches \in 0..MaxSwitches /\ troubles \in 0..MaxTroubles
    BY <2>2, WebAssumption DEF Init
  <2>4. owner \subseteq DOMAIN sessions /\ unheard \in BOOLEAN /\ evicted \in BOOLEAN
    BY DEF Init
  <2> QED BY <2>2, <2>3, <2>4 DEF Rest
<1>3. Idle \in Call /\ NoFlight \in Flight
  BY SessionAssumption DEF Idle, Call, Stages, Kinds, NoFlight, Flight
<1>4. CallOK(Idle, pairs, sessions) /\ \A p \in PairIds : FlightOK(p, NoFlight, pairs, sessions)
  BY <1>2, <1>3 DEF CallOK, FlightOK, Idle, NoFlight
<1> QED
  BY <1>1, <1>2, <1>3, <1>4 DEF Init, WebInv, OneSuccessor, FlightsAgree, Idle, NoFlight

\* Exchanged is for ever.
LEMMA DomainsGrow ==
  ASSUME ApiInv, ApiInv', Grows
  PROVE  /\ DOMAIN pairs \subseteq DOMAIN pairs' /\ DOMAIN sessions \subseteq DOMAIN sessions'
         /\ Len(pairs) \in Nat /\ Len(pairs') \in Nat /\ Len(pairs) <= Len(pairs')
BY DEF ApiInv, ApiTypeOK, Grows

LEMMA ExchangedStays ==
  ASSUME ApiInv, ApiInv', Grows
  PROVE  \A p : Exchanged(p, pairs, sessions) => Exchanged(p, pairs', sessions')
<1> SUFFICES ASSUME NEW p, Exchanged(p, pairs, sessions) PROVE Exchanged(p, pairs', sessions')
  OBVIOUS
<1>1. p \in DOMAIN pairs /\ pairs[p].sid \in DOMAIN sessions /\ p # New
  BY PairsHaveSessions, Numbered DEF Exchanged, ApiInv
<1>2. pairs'[p] = pairs[p] /\ sessions'[pairs[p].sid].jti \in {sessions[pairs[p].sid].jti, New}
  BY <1>1 DEF Grows
<1>3. p \in DOMAIN pairs'
  BY <1>1, DomainsGrow
<1> QED BY <1>1, <1>2, <1>3 DEF Exchanged

LEMMA CallsStayOK ==
  ASSUME ApiInv, ApiInv', Grows
  PROVE  \A k : CallOK(k, pairs, sessions) => CallOK(k, pairs', sessions')
<1> SUFFICES ASSUME NEW k, CallOK(k, pairs, sessions) PROVE CallOK(k, pairs', sessions')
  OBVIOUS
<1>1. k.pair <= Len(pairs') /\ k.fresh <= Len(pairs')
  BY DomainsGrow, SessionAssumption DEF CallOK, Call
<1> QED BY <1>1, ExchangedStays DEF CallOK

LEMMA FlightsStayOK ==
  ASSUME ApiInv, ApiInv', Grows
  PROVE  \A p, f : FlightOK(p, f, pairs, sessions) => FlightOK(p, f, pairs', sessions')
<1> SUFFICES ASSUME NEW p, NEW f, FlightOK(p, f, pairs, sessions) PROVE FlightOK(p, f, pairs', sessions')
  OBVIOUS
<1>1. f.got <= Len(pairs') /\ (p \in DOMAIN pairs => p \in DOMAIN pairs')
  BY DomainsGrow, SessionAssumption DEF FlightOK, Flight
<1> QED BY <1>1, ExchangedStays DEF FlightOK

LEMMA RestStays ==
  ASSUME ApiInv, ApiInv', Grows, Rest,
         jar' \in 0..Len(pairs), owner' \subseteq DOMAIN sessions,
         switches' \in 0..MaxSwitches, unheard' \in BOOLEAN, evicted' \in BOOLEAN, troubles' \in 0..MaxTroubles
  PROVE  Rest'
BY DomainsGrow DEF Rest

-----------------------------------------------------------------------------
\* A call goes on without a new pair, or it is a sign-in.
LEMMA CallMoves ==
  ASSUME WebInv, ApiInv', Grows, Rest', NEW c \in Calls, NEW k,
         calls' = [calls EXCEPT ![c] = k], CallOK(k, pairs', sessions'), flights' = flights,
         k.fresh = 0 \/ k.pair = 0 \/ (k.pair = calls[c].pair /\ k.fresh = calls[c].fresh)
  PROVE  WebInv'
<1>1. k \in Call /\ calls' \in [Calls -> Call] /\ calls'[c] = k
      /\ \A d \in Calls : d # c => calls'[d] = calls[d]
  BY DEF WebInv, CallOK
<1>2. \A d \in Calls : CallOK(calls'[d], pairs', sessions')
  BY <1>1, CallsStayOK DEF WebInv
<1>3. \A p \in PairIds : FlightOK(p, flights'[p], pairs', sessions')
  BY FlightsStayOK DEF WebInv
<1>4. OneSuccessor'
  BY <1>1 DEF WebInv, OneSuccessor
<1>5. FlightsAgree'
  <2>1. \A p \in PairIds : p # 0
    BY DEF PairIds
  <2> QED BY <1>1, <2>1 DEF WebInv, FlightsAgree
<1> QED BY <1>1, <1>2, <1>3, <1>4, <1>5 DEF WebInv

\* What becomes of a call when the flight it is on, or comes to, stands as f.
LEMMA AfterFlight ==
  ASSUME NEW k \in Call, NEW f \in Flight, k.fresh = 0
  PROVE  /\ After(k, f) \in Call /\ After(k, f).pair = k.pair /\ After(k, f).kind = k.kind
         /\ After(k, f).at \in {"retry", "answered", "refreshing"}
         /\ After(k, f).ran = k.ran
         /\ After(k, f).fresh = IF f.at = "won" THEN f.got ELSE 0
         /\ After(k, f).at = "refreshing" => f.at # "won"
<1>1. f.got \in 0..MaxPairs
  BY DEF Flight
<1>2. CASE f.at = "won" /\ k.kind = "work"
  BY <1>1, <1>2 DEF After, Call, Stages
<1>3. CASE f.at = "won" /\ k.kind # "work"
  BY <1>1, <1>3 DEF After, Call, Stages
<1>4. CASE f.at = "refused"
  BY <1>4 DEF After, Call, Stages
<1>5. CASE f.at = "failed"
  BY <1>5 DEF After, Call, Stages
<1>6. CASE f.at \in {"none", "out"}
  BY <1>6 DEF After, Call, Stages
<1> QED BY <1>2, <1>3, <1>4, <1>5, <1>6 DEF Flight

\* A call comes to its pair's flight.
LEMMA Boards ==
  ASSUME WebInv, UNCHANGED <<apiVars, jar, owner, unheard, troubles>>, Rest',
         NEW c \in Calls, NEW k \in Call, k.fresh = 0, k.pair \in DOMAIN pairs, k.kind # "login",
         Board(c, k)
  PROVE  WebInv'
<1> DEFINE p == k.pair
           a == After(k, flights[p])
           g == IF flights[p].at = "none" THEN [flights[p] EXCEPT !.at = "out"] ELSE flights[p]
<1>1. ApiInv' /\ Grows
  BY UntouchedStaysSound DEF WebInv, ApiInv, ApiTypeOK, apiVars
<1>2. p \in PairIds /\ p # 0 /\ p <= Len(pairs) /\ flights[p] \in Flight /\ FlightOK(p, flights[p], pairs, sessions)
  BY Numbered DEF WebInv, ApiInv, PairIds
<1>3. /\ a \in Call /\ a.pair = p /\ a.kind = k.kind /\ a.at \in {"retry", "answered", "refreshing"}
      /\ a.fresh = (IF flights[p].at = "won" THEN flights[p].got ELSE 0)
      /\ (a.at = "refreshing" => flights[p].at # "won")
  BY <1>2, AfterFlight
<1>4. calls' = [calls EXCEPT ![c] = a] /\ flights' = [flights EXCEPT ![p] = g]
  BY DEF Board
<1>5. g \in Flight /\ g.got = flights[p].got /\ g.at # "none"
      /\ (g.at = "won" <=> flights[p].at = "won")
  BY <1>2 DEF Flight
<1> HIDE DEF a, g
<1>6. CallOK(a, pairs, sessions)
  BY <1>2, <1>3 DEF CallOK, FlightOK
<1>7. FlightOK(p, g, pairs, sessions)
  BY <1>2, <1>5 DEF FlightOK
<1>8. calls' \in [Calls -> Call] /\ calls'[c] = a /\ \A d \in Calls : d # c => calls'[d] = calls[d]
  BY <1>3, <1>4 DEF WebInv
<1>9. flights' \in [PairIds -> Flight] /\ flights'[p] = g
      /\ \A q \in PairIds : q # p => flights'[q] = flights[q]
  BY <1>2, <1>4, <1>5 DEF WebInv
<1>10. \A d \in Calls : CallOK(calls'[d], pairs', sessions')
  BY <1>1, <1>6, <1>8, CallsStayOK DEF WebInv
<1>11. \A q \in PairIds : FlightOK(q, flights'[q], pairs', sessions')
  BY <1>1, <1>7, <1>9, FlightsStayOK DEF WebInv
<1>12. \A d \in Calls : d # c /\ calls[d].pair = p /\ calls[d].fresh # 0 /\ a.fresh # 0
                        => calls[d].fresh = a.fresh
  BY <1>2, <1>3 DEF WebInv, FlightsAgree
<1>13. OneSuccessor'
  BY <1>3, <1>8, <1>12 DEF WebInv, OneSuccessor
<1>14. FlightsAgree'
  <2> SUFFICES ASSUME NEW q \in PairIds, NEW d \in Calls,
                      flights'[q].at = "won", calls'[d].pair = q, calls'[d].fresh # 0
               PROVE  calls'[d].fresh = flights'[q].got
    BY DEF FlightsAgree
  <2>1. flights[q].at = "won" /\ flights'[q].got = flights[q].got
    BY <1>5, <1>9
  <2>2. CASE d = c
    BY <2>1, <2>2, <1>3, <1>8
  <2>3. CASE d # c
    BY <2>1, <2>3, <1>8 DEF WebInv, FlightsAgree
  <2> QED BY <2>2, <2>3
<1> QED BY <1>1, <1>8, <1>9, <1>10, <1>11, <1>13, <1>14 DEF WebInv

\* A flight is over: a pair is won only by the exchange of a token nobody had
\* exchanged.
LEMMA Lands ==
  ASSUME WebInv, ApiInv', Grows, Rest', NEW p \in PairIds, NEW f,
         FlightOK(p, f, pairs', sessions'), f.at \in {"won", "refused", "failed"},
         f.at = "won" => ~Exchanged(p, pairs, sessions), Land(p, f)
  PROVE  WebInv'
<1> DEFINE Aboard(c) == calls[c].at = "refreshing" /\ calls[c].pair = p
<1>1. p # 0 /\ f \in Flight
  BY DEF PairIds, FlightOK
<1>2. \A c \in Calls : calls[c] \in Call /\ CallOK(calls[c], pairs, sessions)
  BY DEF WebInv
<1>3. \A c \in Calls : Aboard(c) => calls[c].fresh = 0
  BY <1>2 DEF CallOK
<1>4. \A c \in Calls : calls'[c] = IF Aboard(c) THEN After(calls[c], f) ELSE calls[c]
  BY DEF Land
<1>5. \A c \in Calls : Aboard(c) =>
        /\ calls'[c] \in Call /\ calls'[c].pair = p /\ calls'[c].kind = calls[c].kind
        /\ calls'[c].at \in {"retry", "answered", "refreshing"}
        /\ calls'[c].fresh = (IF f.at = "won" THEN f.got ELSE 0)
        /\ (calls'[c].at = "refreshing" => f.at # "won")
  BY <1>1, <1>2, <1>3, <1>4, AfterFlight
<1>6. calls' \in [Calls -> Call]
  BY <1>2, <1>4, <1>5 DEF Land
<1>7. flights' \in [PairIds -> Flight] /\ flights'[p] = f
      /\ \A q \in PairIds : q # p => flights'[q] = flights[q]
  BY <1>1 DEF WebInv, Land
<1>8. \A c \in Calls : CallOK(calls'[c], pairs', sessions')
  <2> TAKE c \in Calls
  <2>1. CASE Aboard(c)
    <3>1. CallOK(calls[c], pairs', sessions')
      BY <1>2, CallsStayOK DEF WebInv
    <3>2. f.got <= Len(pairs') /\ 0 <= Len(pairs') /\ (f.at = "won" => Exchanged(p, pairs', sessions'))
      BY DomainsGrow DEF FlightOK, WebInv
    <3>3. calls[c].kind # "login"
      BY <2>1, <1>2 DEF CallOK
    <3>4. calls[c].pair <= Len(pairs')
      BY <3>1 DEF CallOK
    <3> QED BY <2>1, <3>2, <3>3, <3>4, <1>1, <1>5 DEF CallOK
  <2>2. CASE ~Aboard(c)
    BY <2>2, <1>2, <1>4, CallsStayOK DEF WebInv
  <2> QED BY <2>1, <2>2
<1>9. \A q \in PairIds : FlightOK(q, flights'[q], pairs', sessions')
  BY <1>7, FlightsStayOK DEF WebInv
<1>10. \A c \in Calls : calls'[c].pair = p /\ calls'[c].fresh # 0 /\ f.at = "won" => calls'[c].fresh = f.got
  BY <1>1, <1>2, <1>4, <1>5 DEF CallOK
<1>11. \A c \in Calls : (calls'[c].fresh = calls[c].fresh /\ calls'[c].pair = calls[c].pair)
                        \/ (calls'[c].pair = p /\ f.at = "won")
  BY <1>3, <1>4, <1>5
<1>12. OneSuccessor'
  <2> SUFFICES ASSUME NEW c \in Calls, NEW d \in Calls, calls'[c].pair = calls'[d].pair,
                      calls'[c].fresh # 0, calls'[d].fresh # 0, calls'[c].pair # 0
               PROVE  calls'[c].fresh = calls'[d].fresh
    BY DEF OneSuccessor
  <2>1. CASE calls'[c].pair = p /\ f.at = "won"
    BY <2>1, <1>10
  <2>2. CASE ~(calls'[c].pair = p /\ f.at = "won")
    BY <2>2, <1>11 DEF WebInv, OneSuccessor
  <2> QED BY <2>1, <2>2
<1>13. FlightsAgree'
  <2> SUFFICES ASSUME NEW q \in PairIds, NEW d \in Calls,
                      flights'[q].at = "won", calls'[d].pair = q, calls'[d].fresh # 0
               PROVE  calls'[d].fresh = flights'[q].got
    BY DEF FlightsAgree
  <2>1. CASE q = p
    BY <2>1, <1>7, <1>10
  <2>2. CASE q # p
    BY <2>2, <1>7, <1>11 DEF WebInv, FlightsAgree
  <2> QED BY <2>1, <2>2
<1> HIDE DEF Aboard
<1> QED BY <1>6, <1>7, <1>8, <1>9, <1>12, <1>13 DEF WebInv

-----------------------------------------------------------------------------
(* The actions                                                               *)

\* What the API's rows and the rest of the browser need while calls move.
LEMMA ApiUntouched ==
  ASSUME WebInv, UNCHANGED apiVars PROVE ApiInv' /\ Grows
BY UntouchedStaysSound DEF WebInv, ApiInv, ApiTypeOK, apiVars

LEMMA RestUntouched ==
  ASSUME WebInv, ApiInv', Grows, UNCHANGED <<jar, owner>>,
         switches' = switches \/ (switches < MaxSwitches /\ switches' = switches + 1),
         unheard' \in BOOLEAN, evicted' \in BOOLEAN, UNCHANGED troubles \/ Trouble
  PROVE  Rest'
<1>1. switches' \in 0..MaxSwitches
  BY WebAssumption DEF WebInv, Rest
<1>2. troubles' \in 0..MaxTroubles
  BY WebAssumption DEF WebInv, Rest, Trouble
<1> QED BY <1>1, <1>2, RestStays DEF WebInv, Rest

LEMMA KnownCalls ==
  ASSUME WebInv, NEW c \in Calls
  PROVE  /\ calls[c] \in Call /\ CallOK(calls[c], pairs, sessions)
         /\ calls[c].pair \in Nat /\ calls[c].fresh \in Nat
         /\ calls[c].pair # 0 => calls[c].pair \in DOMAIN pairs
         /\ calls[c].fresh # 0 => calls[c].fresh \in DOMAIN pairs
<1>1. calls[c] \in Call /\ CallOK(calls[c], pairs, sessions)
  BY DEF WebInv
<1>2. calls[c].pair \in Nat /\ calls[c].fresh \in Nat
  BY <1>1, SessionAssumption DEF Call
<1>3. DOMAIN pairs = 1..Len(pairs) /\ Len(pairs) \in Nat
  BY Numbered DEF WebInv, ApiInv
<1> QED BY <1>1, <1>2, <1>3 DEF CallOK

LEMMA IdleOK == ASSUME ApiInv PROVE Idle \in Call /\ CallOK(Idle, pairs, sessions)
<1>1. Idle \in Call
  BY SessionAssumption DEF Idle, Call, Stages, Kinds
<1> QED BY <1>1, Numbered DEF CallOK, Idle, ApiInv

\* A call begins.
LEMMA BegunCalls ==
  ASSUME ApiInv, Rest, NEW kind \in Kinds, NEW at \in Stages
  PROVE  LET k == [Idle EXCEPT !.at = at, !.kind = kind, !.pair = jar]
             r == [Idle EXCEPT !.kind = kind, !.pair = jar]
         IN /\ k \in Call /\ k.at = at /\ k.kind = kind /\ k.pair = jar /\ k.fresh = 0 /\ k.ran = 0
            /\ r \in Call /\ r.kind = kind /\ r.pair = jar /\ r.fresh = 0 /\ r.ran = 0
<1>1. jar \in 0..MaxPairs
  BY Numbered, SessionAssumption DEF Rest, ApiInv, ApiTypeOK
<1>2. Idle \in Call /\ Idle.fresh = 0 /\ Idle.ran = 0
  BY IdleOK DEF Idle
<1> QED BY <1>1, <1>2 DEF Call

LEMMA BeginSound ==
  ASSUME WebInv, NEW c \in Calls, BeginWork(c) \/ BeginSwitch(c) \/ BeginLogout(c) \/ BeginLogin(c)
  PROVE  WebInv'
<1>1. PICK kind \in Kinds, at \in Stages :
         /\ Begin(c, kind, at)
         /\ kind = "login" <=> jar = 0
         /\ at \in {"first", "asking"} /\ (kind = "login" => at = "asking")
         /\ UNCHANGED switches \/ (switches < MaxSwitches /\ switches' = switches + 1)
         /\ evicted' = evicted \/ evicted' = (evicted \/ Standing # {})
  BY DEF BeginWork, BeginSwitch, BeginLogout, BeginLogin, Kinds, Stages
<1> DEFINE k == [Idle EXCEPT !.at = at, !.kind = kind, !.pair = jar]
<1>2. ApiInv' /\ Grows
  BY <1>1, ApiUntouched DEF Begin
<1>3. Rest'
  BY <1>1, <1>2, RestUntouched DEF Begin, WebInv, Rest
<1>4. calls' = [calls EXCEPT ![c] = k] /\ flights' = flights
  BY <1>1 DEF Begin
<1>5. jar \in 0..Len(pairs) /\ Len(pairs) \in Nat /\ Len(pairs) <= MaxPairs
  BY Numbered DEF WebInv, Rest, ApiInv, ApiTypeOK
<1>6. k \in Call /\ k.pair = jar /\ k.fresh = 0 /\ k.kind = kind /\ k.at = at
  BY BegunCalls DEF WebInv
<1> HIDE DEF k
<1>7. CallOK(k, pairs, sessions)
  BY <1>1, <1>5, <1>6 DEF CallOK
<1>8. CallOK(k, pairs', sessions')
  BY <1>2, <1>7, CallsStayOK DEF WebInv
<1> QED BY <1>2, <1>3, <1>4, <1>6, <1>8, CallMoves

LEMMA BeginRefreshSound == ASSUME WebInv, NEW c \in Calls, BeginRefresh(c) PROVE WebInv'
<1> DEFINE k == [Idle EXCEPT !.kind = "refresh", !.pair = jar]
<1>1. ApiInv' /\ Grows /\ Rest'
  BY ApiUntouched, RestUntouched DEF BeginRefresh, WebInv, Rest
<1>2. jar \in 0..Len(pairs) /\ Len(pairs) \in Nat /\ Len(pairs) <= MaxPairs /\ DOMAIN pairs = 1..Len(pairs)
  BY Numbered DEF WebInv, Rest, ApiInv, ApiTypeOK
<1>3. k \in Call /\ k.pair = jar /\ k.fresh = 0 /\ k.kind = "refresh"
  BY BegunCalls DEF WebInv, Kinds, Stages
<1>4. Board(c, k) /\ jar # 0 /\ UNCHANGED <<apiVars, jar, owner, unheard, troubles>>
  BY DEF BeginRefresh
<1> HIDE DEF k
<1> QED BY <1>1, <1>2, <1>3, <1>4, Boards

LEMMA FirstTrySound == ASSUME WebInv, NEW c \in Calls, FirstTry(c) PROVE WebInv'
<1>1. ApiInv' /\ Grows /\ Rest'
  BY ApiUntouched, RestUntouched DEF FirstTry, WebInv, Rest
<1> DEFINE p == calls[c].pair
           k == [calls[c] EXCEPT !.at = "answered", !.ran = p]
<1>2. calls[c].at = "first" /\ calls[c].kind # "login" /\ calls[c].fresh = 0 /\ p # 0 /\ p \in DOMAIN pairs
  BY KnownCalls DEF FirstTry, CallOK
<1>3. CASE Accepted(p)
  <2>1. calls' = [calls EXCEPT ![c] = k] /\ flights' = flights
    BY <1>3 DEF FirstTry, Step
  <2>2. k \in Call /\ k.pair = p /\ k.fresh = 0 /\ k.kind = calls[c].kind /\ k.at = "answered"
    BY <1>2, KnownCalls DEF Call, Stages
  <2> HIDE DEF k
  <2>3. CallOK(k, pairs, sessions)
    BY <1>2, <2>2, KnownCalls DEF CallOK
  <2>4. CallOK(k, pairs', sessions')
    BY <1>1, <2>3, CallsStayOK DEF WebInv
  <2> QED BY <1>1, <2>1, <2>2, <2>4, CallMoves
<1>4. CASE ~Accepted(p)
  <2>1. Board(c, calls[c]) /\ UNCHANGED <<apiVars, jar, owner, unheard, troubles>>
    BY <1>4 DEF FirstTry
  <2> QED BY <1>1, <1>2, <2>1, KnownCalls, Boards
<1> QED BY <1>3, <1>4

\* A call whose answer is settled without another pair, or that is given up.
LEMMA AnswerSound ==
  ASSUME WebInv, ApiInv', Grows, Rest', NEW c \in Calls, UNCHANGED flights,
         calls[c].kind # "login" \/ calls[c].at = "asking", calls[c].at # "idle",
         NEW k, k \in Call, k.pair = calls[c].pair, k.fresh = calls[c].fresh, k.kind = calls[c].kind,
         k.at = "answered", calls' = [calls EXCEPT ![c] = k]
  PROVE  WebInv'
<1>1. CallOK(k, pairs, sessions)
  BY KnownCalls DEF CallOK
<1>2. CallOK(k, pairs', sessions')
  BY <1>1, CallsStayOK DEF WebInv
<1> QED BY <1>2, CallMoves

\* The answer leaves pair and new pair of the call as they are.
LEMMA Answered ==
  ASSUME NEW k \in Call, NEW cookies \in {"keep", "clear", "set"}, NEW ran \in 0..MaxPairs
  PROVE  LET a == [k EXCEPT !.at = "answered", !.cookies = cookies]
             b == [k EXCEPT !.at = "answered", !.cookies = cookies, !.ran = ran]
         IN /\ a \in Call /\ a.pair = k.pair /\ a.fresh = k.fresh /\ a.kind = k.kind /\ a.at = "answered"
            /\ b \in Call /\ b.pair = k.pair /\ b.fresh = k.fresh /\ b.kind = k.kind /\ b.at = "answered"
BY DEF Call, Stages

LEMMA RetrySound == ASSUME WebInv, NEW c \in Calls, Retry(c) PROVE WebInv'
<1>1. ApiInv' /\ Grows /\ Rest'
  BY ApiUntouched, RestUntouched DEF Retry, WebInv, Rest
<1>2. calls[c] \in Call /\ calls[c].kind # "login" /\ calls[c].at # "idle" /\ calls[c].fresh \in 0..MaxPairs
  BY KnownCalls DEF Retry, CallOK, Call
<1>3. \E k : /\ k \in Call /\ k.pair = calls[c].pair /\ k.fresh = calls[c].fresh
             /\ k.kind = calls[c].kind /\ k.at = "answered" /\ calls' = [calls EXCEPT ![c] = k]
  <2>1. CASE Accepted(calls[c].fresh)
    <3> DEFINE k == [calls[c] EXCEPT !.at = "answered", !.cookies = "set", !.ran = calls[c].fresh]
    <3>1. k \in Call /\ k.pair = calls[c].pair /\ k.fresh = calls[c].fresh
          /\ k.kind = calls[c].kind /\ k.at = "answered"
      BY <1>2, Answered
    <3>2. calls' = [calls EXCEPT ![c] = k]
      BY <2>1 DEF Retry, Step
    <3> QED BY <3>1, <3>2
  <2>2. CASE ~Accepted(calls[c].fresh)
    <3> DEFINE k == [calls[c] EXCEPT !.at = "answered", !.cookies = "clear"]
    <3>1. k \in Call /\ k.pair = calls[c].pair /\ k.fresh = calls[c].fresh
          /\ k.kind = calls[c].kind /\ k.at = "answered"
      BY <1>2, Answered
    <3>2. calls' = [calls EXCEPT ![c] = k]
      BY <2>2 DEF Retry, Step
    <3> QED BY <3>1, <3>2
  <2> QED BY <2>1, <2>2
<1>4. UNCHANGED flights
  BY DEF Retry
<1> QED BY <1>1, <1>2, <1>3, <1>4, AnswerSound

\* What Answer does to a call that asks.
LEMMA AnsweredAsking ==
  ASSUME WebInv, ApiInv', Grows, Rest', UNCHANGED flights, NEW c \in Calls,
         NEW effect \in {"keep", "clear"}, calls[c].at = "asking", Answer(c, effect)
  PROVE  WebInv'
<1> DEFINE k == [calls[c] EXCEPT !.at = "answered", !.cookies = effect]
<1>1. k \in Call /\ k.pair = calls[c].pair /\ k.fresh = calls[c].fresh
      /\ k.kind = calls[c].kind /\ k.at = "answered"
  <2>1. calls[c] \in Call
    BY KnownCalls
  <2> QED BY <2>1 DEF Call, Stages
<1>2. calls' = [calls EXCEPT ![c] = k]
  BY DEF Answer, Step
<1> HIDE DEF k
<1> QED BY <1>1, <1>2, AnswerSound

LEMMA ServeLogoutSound ==
  ASSUME WebInv, NEW c \in Calls, ServeLogout(c) \/ LogoutUnheard(c) PROVE WebInv'
<1>1. calls[c].at = "asking" /\ calls[c].pair \in DOMAIN pairs
  BY KnownCalls DEF ServeLogout, LogoutUnheard, CallOK
<1>2. CASE ServeLogout(c)
  <2>1. ApiInv' /\ Grows
    BY <1>1, <1>2, RefusedStaysSound DEF ServeLogout, WebInv
  <2>2. Rest'
    BY <1>2, <2>1, RestUntouched DEF ServeLogout, WebInv, Rest
  <2> QED BY <1>1, <1>2, <2>1, <2>2, AnsweredAsking DEF ServeLogout
<1>3. CASE LogoutUnheard(c)
  <2>1. ApiInv' /\ Grows
    BY <1>3, ApiUntouched DEF LogoutUnheard
  <2>2. Rest'
    BY <1>3, <2>1, RestUntouched DEF LogoutUnheard, WebInv, Rest
  <2> QED BY <1>1, <1>3, <2>1, <2>2, AnsweredAsking DEF LogoutUnheard
<1> QED BY <1>2, <1>3

LEMMA LoginSound == ASSUME WebInv, NEW c \in Calls, ServeLogin(c) PROVE WebInv'
<1>1. calls[c].at = "asking" /\ calls[c].kind = "login" /\ calls[c].pair = 0 /\ calls[c] \in Call
  BY KnownCalls DEF ServeLogin, CallOK
<1>2. CASE UNCHANGED apiVars /\ Answer(c, "keep")
  <2>1. ApiInv' /\ Grows
    BY <1>2, ApiUntouched
  <2>2. Rest'
    BY <2>1, RestUntouched DEF ServeLogin, WebInv, Rest
  <2> QED BY <1>1, <1>2, <2>1, <2>2, AnsweredAsking DEF ServeLogin
<1>3. CASE \E u \in Users : SignIn(u) /\ Step(c, [calls[c] EXCEPT !.at = "answered", !.fresh = New, !.cookies = "set"])
  <2> DEFINE k == [calls[c] EXCEPT !.at = "answered", !.fresh = New, !.cookies = "set"]
  <2>1. ApiInv' /\ Grows /\ New \in PairIds /\ Len(pairs') = New
    <3>1. PICK u \in Users : SignIn(u)
      BY <1>3
    <3>2. New \in PairIds /\ Len(pairs') = New
      BY <3>1, Numbered, SessionAssumption DEF SignIn, Mint, PairIds, WebInv, ApiInv, ApiTypeOK, New
    <3> QED BY <3>1, <3>2, SignedInStaysSound DEF WebInv
  <2>2. Rest'
    BY <2>1, RestUntouched DEF ServeLogin, WebInv, Rest
  <2>3. k \in Call /\ k.pair = 0 /\ k.fresh = New /\ k.kind = "login" /\ k.at = "answered"
    <3>1. New \in 0..MaxPairs
      BY <2>1 DEF PairIds
    <3> QED BY <1>1, <3>1 DEF Call, Stages
  <2>4. calls' = [calls EXCEPT ![c] = k]
    BY <1>3 DEF Step
  <2> HIDE DEF k
  <2>5. CallOK(k, pairs', sessions')
    BY <2>1, <2>3 DEF CallOK, PairIds
  <2> QED BY <2>1, <2>2, <2>3, <2>4, <2>5, CallMoves DEF ServeLogin
<1> QED BY <1>2, <1>3 DEF ServeLogin

LEMMA SwitchSound == ASSUME WebInv, NEW c \in Calls, ServeSwitch(c) PROVE WebInv'
<1> DEFINE p == calls[c].pair
<1>1. calls[c].at = "asking" /\ calls[c].kind = "switch" /\ p \in DOMAIN pairs /\ p # 0
      /\ calls[c] \in Call /\ calls[c].fresh = 0
  BY KnownCalls DEF ServeSwitch, CallOK
<1>2. CASE RefuseToken(p) /\ Answer(c, "clear")
  <2>1. ApiInv' /\ Grows
    BY <1>1, <1>2, RefusedStaysSound DEF WebInv
  <2>2. Rest'
    BY <2>1, RestUntouched DEF ServeSwitch, WebInv, Rest
  <2> QED BY <1>1, <1>2, <2>1, <2>2, AnsweredAsking DEF ServeSwitch
<1>3. CASE \E b \in Branches :
             /\ SwitchTo(p, b)
             /\ Step(c, [calls[c] EXCEPT !.at = "answered", !.fresh = New, !.cookies = "set"])
  <2> DEFINE k == [calls[c] EXCEPT !.at = "answered", !.fresh = New, !.cookies = "set"]
  <2>1. PICK b \in Branches : SwitchTo(p, b)
    BY <1>3
  <2>2. ApiInv' /\ Grows /\ Exchanged(p, pairs', sessions')
    BY <1>1, <2>1, SwitchedStaysSound DEF WebInv
  <2>3. New \in PairIds /\ Len(pairs') = New
    BY <2>1, Numbered, SessionAssumption DEF SwitchTo, Mint, PairIds, WebInv, ApiInv, ApiTypeOK, New
  <2>4. Rest'
    BY <2>2, RestUntouched DEF ServeSwitch, WebInv, Rest
  <2>5. k \in Call /\ k.pair = p /\ k.fresh = New /\ k.kind = "switch" /\ k.at = "answered"
    <3>1. New \in 0..MaxPairs
      BY <2>3 DEF PairIds
    <3> QED BY <1>1, <3>1 DEF Call, Stages
  <2>6. calls' = [calls EXCEPT ![c] = k] /\ UNCHANGED flights
    BY <1>3 DEF Step, ServeSwitch
  <2> HIDE DEF k
  <2>7. p <= Len(pairs') /\ p \in PairIds
    BY <1>1, <2>2, Numbered, DomainsGrow DEF WebInv, ApiInv
  <2>8. CallOK(k, pairs', sessions')
    BY <1>1, <2>2, <2>3, <2>5, <2>7 DEF CallOK, PairIds
  <2>9. ~Exchanged(p, pairs, sessions)
    BY <2>1 DEF SwitchTo, Refreshable, SessionOf, Exchanged
  <2>10. \A d \in Calls : calls[d].pair = p => calls[d].fresh = 0
    BY <1>1, <2>9, KnownCalls DEF CallOK
  <2>11. \A q \in PairIds : flights[q].at = "won" => q # p
    BY <2>9 DEF WebInv, FlightOK
  <2>12. calls' \in [Calls -> Call] /\ calls'[c] = k /\ \A d \in Calls : d # c => calls'[d] = calls[d]
    BY <2>5, <2>6 DEF WebInv
  <2>13. \A d \in Calls : CallOK(calls'[d], pairs', sessions')
    BY <2>2, <2>8, <2>12, CallsStayOK DEF WebInv
  <2>14. \A q \in PairIds : FlightOK(q, flights'[q], pairs', sessions')
    BY <2>2, <2>6, FlightsStayOK DEF WebInv
  <2>15. OneSuccessor'
    BY <2>5, <2>10, <2>12 DEF WebInv, OneSuccessor
  <2>16. FlightsAgree'
    BY <2>5, <2>6, <2>11, <2>12 DEF WebInv, FlightsAgree
  <2> QED BY <2>2, <2>4, <2>6, <2>12, <2>13, <2>14, <2>15, <2>16 DEF WebInv
<1> QED BY <1>2, <1>3 DEF ServeSwitch

\* The jar and the owner follow what arrives.
LEMMA ArriveSound == ASSUME WebInv, NEW c \in Calls, Arrive(c) \/ Abandon(c) PROVE WebInv'
<1>1. ApiInv' /\ Grows /\ UNCHANGED <<sessions, pairs, flights>> /\ calls' = [calls EXCEPT ![c] = Idle]
  BY ApiUntouched DEF Arrive, Abandon, Step, apiVars
<1>2. Rest'
  <2>1. CASE Abandon(c)
    BY <1>1, <2>1, RestUntouched DEF Abandon, WebInv, Rest
  <2>2. CASE Arrive(c)
    <3>1. jar' \in 0..Len(pairs)
      BY <2>2, KnownCalls DEF Arrive, CallOK, WebInv, Rest
    <3>2. owner' \subseteq DOMAIN sessions
      <4>1. CASE calls[c].kind = "login" /\ calls[c].fresh # 0
        <5>1. owner' = {pairs[calls[c].fresh].sid} /\ calls[c].fresh \in DOMAIN pairs
          BY <2>2, <4>1, KnownCalls DEF Arrive, SignedInBy
        <5> QED BY <5>1, PairsHaveSessions DEF WebInv
      <4>2. CASE ~(calls[c].kind = "login" /\ calls[c].fresh # 0)
        <5>1. SignedInBy(c) \subseteq owner
          BY <4>2 DEF SignedInBy
        <5> QED BY <2>2, <5>1 DEF Arrive, WebInv, Rest
      <4> QED BY <4>1, <4>2
    <3> QED BY <1>1, <2>2, <3>1, <3>2, RestStays DEF Arrive, WebInv, Rest
  <2> QED BY <2>1, <2>2
<1>3. CallOK(Idle, pairs', sessions') /\ Idle.fresh = 0
  BY <1>1, IdleOK DEF WebInv, Idle
<1> QED BY <1>1, <1>2, <1>3, CallMoves

\* Every exchange, whether its answer comes back or not.
LEMMA ExchangeSound ==
  ASSUME WebInv, NEW p \in PairIds, Exchange(p) \/ LoseExchange(p) PROVE WebInv'
<1>1. flights[p].at = "out" /\ p \in DOMAIN pairs
  BY DEF Exchange, LoseExchange, WebInv, FlightOK
<1>2. Len(pairs) \in Nat /\ 0 \in 0..MaxPairs
  BY Numbered, SessionAssumption DEF WebInv, ApiInv
<1>3. CASE Exchange(p) /\ Rotate(p) /\ Land(p, [at |-> "won", got |-> New])
  <2> DEFINE f == [at |-> "won", got |-> New]
  <2>1. ApiInv' /\ Grows /\ Exchanged(p, pairs', sessions')
    BY <1>1, <1>3, RotatedStaysSound DEF WebInv
  <2>2. New \in PairIds /\ Len(pairs') = New
    BY <1>3, Numbered, SessionAssumption DEF Rotate, Mint, PairIds, WebInv, ApiInv, ApiTypeOK, New
  <2>3. Rest'
    BY <1>3, <2>1, RestUntouched DEF Exchange, WebInv, Rest
  <2>4. FlightOK(p, f, pairs', sessions')
    BY <1>1, <2>1, <2>2, DomainsGrow DEF FlightOK, Flight, PairIds, WebInv
  <2>5. ~Exchanged(p, pairs, sessions)
    BY <1>3 DEF Rotate, Refreshable, SessionOf, Exchanged
  <2>6. f.at = "won" /\ Land(p, f)
    BY <1>3
  <2> HIDE DEF f
  <2> QED BY <2>1, <2>3, <2>4, <2>5, <2>6, Lands
<1>4. CASE Exchange(p) /\ RefuseToken(p) /\ Land(p, [at |-> "refused", got |-> 0])
  <2> DEFINE f == [at |-> "refused", got |-> 0]
  <2>1. ApiInv' /\ Grows
    BY <1>1, <1>4, RefusedStaysSound DEF WebInv
  <2>2. Rest'
    BY <1>4, <2>1, RestUntouched DEF Exchange, WebInv, Rest
  <2>3. FlightOK(p, f, pairs', sessions')
    BY <1>1, <1>2, <2>1, DomainsGrow DEF FlightOK, Flight, WebInv
  <2>4. f.at = "refused" /\ Land(p, f)
    BY <1>4
  <2> HIDE DEF f
  <2> QED BY <2>1, <2>2, <2>3, <2>4, Lands
<1>5. CASE LoseExchange(p)
  <2> DEFINE f == [at |-> "failed", got |-> 0]
  <2>1. ApiInv' /\ Grows
    BY <1>1, <1>5, RotatedStaysSound, ApiUntouched DEF LoseExchange, WebInv
  <2>2. Rest'
    BY <1>5, <2>1, RestUntouched DEF LoseExchange, WebInv, Rest
  <2>3. FlightOK(p, f, pairs', sessions')
    BY <1>1, <1>2, <2>1, DomainsGrow DEF FlightOK, Flight, WebInv
  <2>4. f.at = "failed" /\ Land(p, f)
    BY <1>5 DEF LoseExchange
  <2> HIDE DEF f
  <2> QED BY <2>1, <2>2, <2>3, <2>4, Lands
<1> QED BY <1>3, <1>4, <1>5 DEF Exchange

\* Steps that leave the calls alone and take no flight's pair away.
LEMMA CallsStandSound ==
  ASSUME WebInv, ApiInv', Grows, Rest', UNCHANGED calls, flights' \in [PairIds -> Flight],
         \A p \in PairIds : flights'[p] = flights[p] \/ flights'[p] = NoFlight
  PROVE  WebInv'
<1>1. \A d \in Calls : CallOK(calls'[d], pairs', sessions')
  BY CallsStayOK DEF WebInv
<1>2. \A p \in PairIds : FlightOK(p, NoFlight, pairs, sessions)
  BY Numbered, SessionAssumption DEF FlightOK, NoFlight, Flight, WebInv, ApiInv
<1>3. \A p \in PairIds : FlightOK(p, flights'[p], pairs', sessions')
  BY <1>2, FlightsStayOK DEF WebInv
<1>4. OneSuccessor' /\ FlightsAgree'
  BY DEF WebInv, OneSuccessor, FlightsAgree, NoFlight
<1> QED BY <1>1, <1>3, <1>4 DEF WebInv

LEMMA OthersSound ==
  ASSUME WebInv,
         \/ \E p \in PairIds : Expire(p) \/ Forget(p)
         \/ \E s \in SessionIds : EndElsewhere(s)
  PROVE  WebInv'
<1>1. ASSUME NEW p \in PairIds, Expire(p) PROVE WebInv'
  <2>1. ApiInv' /\ Grows
    BY <1>1, UntouchedStaysSound DEF Expire, WebInv, ApiInv, ApiTypeOK
  <2>2. Rest' /\ UNCHANGED <<calls, flights>>
    BY <1>1, <2>1, RestUntouched DEF Expire, webVars, WebInv, Rest
  <2> QED BY <2>1, <2>2, CallsStandSound DEF WebInv
<1>2. ASSUME NEW p \in PairIds, Forget(p) PROVE WebInv'
  <2>1. ApiInv' /\ Grows
    BY <1>2, ApiUntouched DEF Forget
  <2>2. Rest' /\ UNCHANGED calls
    BY <1>2, <2>1, RestUntouched DEF Forget, Trouble, WebInv, Rest
  <2>3. flights' = [flights EXCEPT ![p] = NoFlight] /\ NoFlight \in Flight
    BY <1>2, SessionAssumption DEF Forget, NoFlight, Flight
  <2>4. flights' \in [PairIds -> Flight]
        /\ \A q \in PairIds : flights'[q] = flights[q] \/ flights'[q] = NoFlight
    BY <2>3 DEF WebInv
  <2> QED BY <2>1, <2>2, <2>4, CallsStandSound
<1>3. ASSUME NEW s \in SessionIds, EndElsewhere(s) PROVE WebInv'
  <2>1. ApiInv' /\ Grows
    BY <1>3, RevokedStaysSound DEF EndElsewhere, RevokeElsewhere, WebInv, ApiInv, ApiTypeOK
  <2>2. Rest' /\ UNCHANGED <<calls, flights>>
    BY <1>3, <2>1, RestUntouched DEF EndElsewhere, webVars, WebInv, Rest
  <2> QED BY <2>1, <2>2, CallsStandSound DEF WebInv
<1> QED BY <1>1, <1>2, <1>3

LEMMA WebLasts == ASSUME WebInv, [Next]_vars PROVE WebInv'
<1>1. CASE UNCHANGED vars
  <2>1. ApiInv' /\ Grows
    BY <1>1, ApiUntouched DEF vars
  <2>2. Rest' /\ UNCHANGED <<calls, flights>>
    BY <1>1, <2>1, RestUntouched DEF vars, webVars, WebInv, Rest
  <2> QED BY <2>1, <2>2, CallsStandSound DEF WebInv
<1>2. ASSUME NEW c \in Calls,
             BeginWork(c) \/ BeginRefresh(c) \/ BeginSwitch(c) \/ BeginLogout(c)
               \/ BeginLogin(c) \/ Handler(c) \/ Abandon(c) \/ LogoutUnheard(c)
      PROVE  WebInv'
  BY <1>2, BeginSound, BeginRefreshSound, FirstTrySound, RetrySound, SwitchSound, LoginSound,
     ServeLogoutSound, ArriveSound DEF Handler
<1>3. CASE \E p \in PairIds : Exchange(p) \/ LoseExchange(p)
  BY <1>3, ExchangeSound
<1>4. CASE \/ \E p \in PairIds : Expire(p) \/ Forget(p)
           \/ \E s \in SessionIds : EndElsewhere(s)
  BY <1>4, OthersSound
<1> QED BY <1>1, <1>2, <1>3, <1>4 DEF Next

-----------------------------------------------------------------------------
\* A refresh token is exchanged once, whoever comes with it and in whatever order
\* calls, refreshes, switches, time-outs and revocations happen: a handler that
\* joins a flight gets the flight's pair, one that comes too late is refused by the
\* row lock (security.py 219-279, auth-session.ts 35-58).
THEOREM RefreshTokensAreExchangedOnce == Spec => []OneSuccessor
<1>1. WebInv => OneSuccessor
  BY DEF WebInv
<1>2. WebInv /\ [Next]_vars => WebInv'
  BY WebLasts
<1> QED BY <1>1, <1>2, WebStart, PTL DEF Spec

\* The tables of the API and the state of the web server stay well typed.
THEOREM SessionsTypeCorrect == Spec => []SessionsTypeOK
<1>1. WebInv => SessionsTypeOK
  BY DEF WebInv, ApiInv, Rest, SessionsTypeOK, WebTypeOK
<1>2. WebInv /\ [Next]_vars => WebInv'
  BY WebLasts
<1> QED BY <1>1, <1>2, WebStart, PTL DEF Spec

-----------------------------------------------------------------------------
\* Work is only done under a pair the API accepts at that moment.
LEMMA RunsWhenAccepted ==
  ASSUME WebInv, Next, NEW c \in Calls
  PROVE  \/ calls'[c].ran \in {0, calls[c].ran}
         \/ calls'[c].ran \in {calls[c].pair, calls[c].fresh} /\ Accepted(calls'[c].ran)
<1> DEFINE Goal == \/ calls'[c].ran \in {0, calls[c].ran}
                   \/ calls'[c].ran \in {calls[c].pair, calls[c].fresh} /\ Accepted(calls'[c].ran)
<1>a. \A d \in Calls : calls[d] \in Call
  BY KnownCalls
<1>b. calls \in [Calls -> Call]
  BY DEF WebInv
<1>c. ASSUME NEW d \in Calls, NEW k, calls' = [calls EXCEPT ![d] = k],
             k.ran \in {0, calls[d].ran}
      PROVE  Goal
  BY <1>b, <1>c
<1>d. ASSUME NEW d \in Calls, NEW k \in Call, Board(d, k), k.fresh = 0, k.ran \in {0, calls[d].ran},
             k.pair \in PairIds
      PROVE  Goal
  <2> DEFINE a == After(k, flights[k.pair])
  <2>1. a.ran = k.ran
    <3>1. flights[k.pair] \in Flight
      BY <1>d DEF WebInv
    <3> QED BY <1>d, <3>1, AfterFlight
  <2>2. calls' = [calls EXCEPT ![d] = a]
    BY <1>d DEF Board
  <2> HIDE DEF a
  <2> QED BY <1>c, <1>d, <2>1, <2>2
<1>e. jar # 0 => jar \in PairIds
  BY Numbered, SessionAssumption DEF WebInv, Rest, ApiInv, ApiTypeOK, PairIds
<1>1. ASSUME NEW d \in Calls, BeginWork(d) \/ BeginSwitch(d) \/ BeginLogout(d) \/ BeginLogin(d)
      PROVE  Goal
  <2>1. PICK kind \in Kinds, at \in Stages : Begin(d, kind, at)
    BY <1>1 DEF BeginWork, BeginSwitch, BeginLogout, BeginLogin, Kinds, Stages
  <2> DEFINE k == [Idle EXCEPT !.at = at, !.kind = kind, !.pair = jar]
  <2>2. k.ran = 0 /\ calls' = [calls EXCEPT ![d] = k]
    BY <2>1, BegunCalls DEF Begin, WebInv
  <2> HIDE DEF k
  <2> QED BY <1>c, <2>2
<1>2. ASSUME NEW d \in Calls, BeginRefresh(d) PROVE Goal
  <2> DEFINE k == [Idle EXCEPT !.kind = "refresh", !.pair = jar]
  <2>1. k \in Call /\ k.fresh = 0 /\ k.ran = 0 /\ k.pair = jar
    BY BegunCalls DEF WebInv, Kinds, Stages
  <2>2. Board(d, k) /\ jar # 0
    BY <1>2 DEF BeginRefresh
  <2> HIDE DEF k
  <2> QED BY <1>d, <1>e, <2>1, <2>2
<1>3. ASSUME NEW d \in Calls, FirstTry(d) PROVE Goal
  <2>1. calls[d].pair \in DOMAIN pairs /\ calls[d].fresh = 0 /\ calls[d].pair \in PairIds
    <3>1. calls[d].pair \in DOMAIN pairs /\ calls[d].fresh = 0
      BY <1>3, KnownCalls DEF FirstTry, CallOK
    <3> QED BY <3>1, Numbered DEF WebInv, ApiInv
  <2>2. CASE ~Accepted(calls[d].pair)
    <3>1. Board(d, calls[d])
      BY <1>3, <2>2 DEF FirstTry
    <3> QED BY <1>a, <1>d, <2>1, <3>1
  <2>3. CASE Accepted(calls[d].pair)
    <3> DEFINE k == [calls[d] EXCEPT !.at = "answered", !.ran = calls[d].pair]
    <3>1. calls' = [calls EXCEPT ![d] = k] /\ k.ran = calls[d].pair
      BY <1>3, <1>a, <2>3 DEF FirstTry, Step, Call
    <3> HIDE DEF k
    <3>2. CASE c = d
      BY <1>b, <2>3, <3>1, <3>2
    <3>3. CASE c # d
      BY <1>b, <3>1, <3>3
    <3> QED BY <3>2, <3>3
  <2> QED BY <2>2, <2>3
<1>4. ASSUME NEW d \in Calls, Retry(d) PROVE Goal
  <2>1. CASE ~Accepted(calls[d].fresh)
    <3> DEFINE k == [calls[d] EXCEPT !.at = "answered", !.cookies = "clear"]
    <3>1. calls' = [calls EXCEPT ![d] = k] /\ k.ran = calls[d].ran
      BY <1>4, <1>a, <2>1 DEF Retry, Step, Call
    <3> HIDE DEF k
    <3> QED BY <1>c, <3>1
  <2>2. CASE Accepted(calls[d].fresh)
    <3> DEFINE k == [calls[d] EXCEPT !.at = "answered", !.cookies = "set", !.ran = calls[d].fresh]
    <3>1. calls' = [calls EXCEPT ![d] = k] /\ k.ran = calls[d].fresh
      BY <1>4, <1>a, <2>2 DEF Retry, Step, Call
    <3> HIDE DEF k
    <3>2. CASE c = d
      BY <1>b, <2>2, <3>1, <3>2
    <3>3. CASE c # d
      BY <1>b, <3>1, <3>3
    <3> QED BY <3>2, <3>3
  <2> QED BY <2>1, <2>2
<1>5. ASSUME NEW d \in Calls, NEW effect, Answer(d, effect) PROVE Goal
  <2> DEFINE k == [calls[d] EXCEPT !.at = "answered", !.cookies = effect]
  <2>1. calls' = [calls EXCEPT ![d] = k] /\ k.ran = calls[d].ran
    BY <1>5, <1>a DEF Answer, Step, Call
  <2> HIDE DEF k
  <2> QED BY <1>c, <2>1
<1>6. ASSUME NEW d \in Calls,
             Step(d, [calls[d] EXCEPT !.at = "answered", !.fresh = New, !.cookies = "set"])
      PROVE  Goal
  <2> DEFINE k == [calls[d] EXCEPT !.at = "answered", !.fresh = New, !.cookies = "set"]
  <2>1. calls' = [calls EXCEPT ![d] = k] /\ k.ran = calls[d].ran
    BY <1>6, <1>a DEF Step, Call
  <2> HIDE DEF k
  <2> QED BY <1>c, <2>1
<1>7. ASSUME NEW d \in Calls, ServeSwitch(d) \/ ServeLogin(d) \/ ServeLogout(d) \/ LogoutUnheard(d)
      PROVE  Goal
  BY <1>5, <1>6, <1>7 DEF ServeSwitch, ServeLogin, ServeLogout, LogoutUnheard
<1>8. ASSUME NEW d \in Calls, Arrive(d) \/ Abandon(d) PROVE Goal
  <2>1. calls' = [calls EXCEPT ![d] = Idle] /\ Idle.ran = 0
    BY <1>8 DEF Arrive, Abandon, Step, Idle
  <2> QED BY <1>c, <2>1
<1>9. ASSUME NEW p \in PairIds, NEW f \in Flight, Land(p, f) PROVE Goal
  <2>1. calls[c].at = "refreshing" => calls[c].fresh = 0
    BY KnownCalls DEF CallOK
  <2>2. calls'[c] = calls[c] \/ (calls[c].at = "refreshing" /\ calls'[c] = After(calls[c], f))
    BY <1>9 DEF Land
  <2> QED BY <1>a, <2>1, <2>2, AfterFlight
<1>10. ASSUME NEW p \in PairIds, Exchange(p) \/ LoseExchange(p) PROVE Goal
  <2>1. PICK f : /\ Land(p, f)
                 /\ \/ f = [at |-> "won", got |-> New] /\ Rotate(p)
                    \/ f = [at |-> "refused", got |-> 0]
                    \/ f = [at |-> "failed", got |-> 0]
    BY <1>10 DEF Exchange, LoseExchange
  <2>2. Rotate(p) => New \in 0..MaxPairs
    BY Numbered, SessionAssumption DEF Rotate, Mint, WebInv, ApiInv
  <2>3. f \in Flight
    BY <2>1, <2>2, SessionAssumption DEF Flight
  <2> QED BY <1>9, <2>1, <2>3
<1>11. ASSUME UNCHANGED calls PROVE Goal
  BY <1>11
<1>12. Goal
  <2> HIDE DEF Goal
  <2>1. CASE \E d \in Calls : BeginWork(d) \/ BeginRefresh(d) \/ BeginSwitch(d) \/ BeginLogout(d) \/ BeginLogin(d)
    BY <2>1, <1>1, <1>2
  <2>2. CASE \E d \in Calls : Handler(d) \/ Abandon(d) \/ LogoutUnheard(d)
    BY <2>2, <1>3, <1>4, <1>7, <1>8 DEF Handler
  <2>3. CASE \E p \in PairIds : Exchange(p) \/ LoseExchange(p)
    BY <2>3, <1>10
  <2>4. CASE \/ \E p \in PairIds : Expire(p) \/ Forget(p)
             \/ \E s \in SessionIds : EndElsewhere(s)
    <3>1. UNCHANGED calls
      BY <2>4 DEF Expire, Forget, EndElsewhere, webVars
    <3> QED BY <3>1, <1>11
  <2> QED BY <2>1, <2>2, <2>3, <2>4 DEF Next
<1> QED BY <1>12

\* Work is done in the branch the session is in: a switch gives the session a new
\* family, an access token of before is none of it any more, and a refresh keeps
\* family and branch (dependencies.py 98-111, security.py 385-398).
THEOREM WorkStaysInItsBranch == Spec => WorksInItsBranch
<1> DEFINE Right == \A c \in Calls :
             calls'[c].ran # 0 /\ calls[c].ran = 0 =>
               LET p == calls'[c].ran IN
                 Live(p) /\ pairs[p].branch = pairs[SessionOf(p).jti].branch
<1>1. ASSUME WebInv, Next PROVE Right
  <2> SUFFICES ASSUME NEW c \in Calls, calls'[c].ran # 0, calls[c].ran = 0
               PROVE  LET p == calls'[c].ran IN
                        Live(p) /\ pairs[p].branch = pairs[SessionOf(p).jti].branch
    OBVIOUS
  <2> DEFINE p == calls'[c].ran
  <2>1. p \in {calls[c].pair, calls[c].fresh} /\ Accepted(p)
    BY <1>1, RunsWhenAccepted
  <2>2. p \in DOMAIN pairs /\ Live(p)
    BY <1>1, <2>1, KnownCalls DEF Accepted
  <2> HIDE DEF p
  <2>3. SessionOf(p).jti \in DOMAIN pairs /\ pairs[SessionOf(p).jti].family = SessionOf(p).family
    BY <1>1, <2>2, PairsHaveSessions DEF WebInv, ApiInv
  <2>4. pairs[p].branch = pairs[SessionOf(p).jti].branch
    BY <1>1, <2>2, <2>3 DEF WebInv, ApiInv, Live
  <2> QED BY <2>2, <2>4 DEF p
<1>2. WebInv /\ [Next]_vars => WebInv'
  BY WebLasts
<1>3. WebInv /\ [Next]_vars => [Right]_vars
  BY <1>1
<1> QED BY <1>2, <1>3, WebStart, PTL DEF Spec, WorksInItsBranch

-----------------------------------------------------------------------------
(* What the API does in a step, and what of it a token's holder sees. *)

\* What the API does in a step.
ApiStep ==
  \/ UNCHANGED <<sessions, pairs>>
  \/ \E p \in DOMAIN pairs : Rotate(p) \/ RefuseToken(p) \/ SignOut(p)
  \/ \E p \in DOMAIN pairs, b \in Branches : SwitchTo(p, b)
  \/ \E u \in Users : SignIn(u)
  \/ \E s \in DOMAIN sessions : RevokeElsewhere(s)

\* A token that opens nothing stays so.
LivesFall == \A p \in DOMAIN pairs : pairs'[p] = pairs[p] /\ (Live(p)' => Live(p))
OneFamily == \A p \in DOMAIN pairs : pairs[p].family = SessionOf(p).family

LEMMA NewIsNew ==
  ASSUME ApiInv
  PROVE  \A p \in DOMAIN pairs : p # New /\ p # 0 /\ pairs[p].family # New
<1> TAKE p \in DOMAIN pairs
<1>1. p \in 1..Len(pairs) /\ Len(pairs) \in Nat /\ New = Len(pairs) + 1
  BY Numbered DEF ApiInv
<1>2. pairs[p].family \in Int /\ pairs[p].family <= p
  BY PairsHaveSessions DEF ApiInv, Pair, PairIds
<1> QED BY <1>1, <1>2

LEMMA RowsFall ==
  ASSUME ApiInv, Grows,
         \A s \in DOMAIN sessions : /\ sessions'[s].revoked = "no" => sessions[s].revoked = "no"
                                    /\ sessions'[s].family \in {sessions[s].family, New}
  PROVE  LivesFall
<1> SUFFICES ASSUME NEW p \in DOMAIN pairs PROVE pairs'[p] = pairs[p] /\ (Live(p)' => Live(p))
  BY DEF LivesFall
<1>1. pairs'[p] = pairs[p] /\ pairs[p].sid \in DOMAIN sessions /\ pairs[p].family # New
  BY PairsHaveSessions, NewIsNew DEF Grows
<1> QED BY <1>1 DEF Live, SessionOf

LEMMA Revokes ==
  ASSUME ApiInv, NEW sid \in DOMAIN sessions, NEW cause \in {"logout", "reuse", "elsewhere"}, Revoke(sid, cause)
  PROVE  /\ sessions'[sid].revoked = cause
         /\ \A s \in DOMAIN sessions : /\ sessions'[s].revoked \in {sessions[s].revoked, cause}
                                       /\ sessions'[s].family = sessions[s].family
         /\ DOMAIN sessions' = DOMAIN sessions
<1> DEFINE row == [sessions[sid] EXCEPT !.revoked = cause]
<1>1. sessions[sid] \in Session /\ ApiTypeOK
  BY DEF ApiInv, ApiTypeOK
<1>2. row \in Session /\ row.revoked = cause /\ row.family = sessions[sid].family
  BY <1>1 DEF Session
<1>3. sessions' = [sessions EXCEPT ![sid] = row]
  BY DEF Revoke
<1> HIDE DEF row
<1>4. /\ DOMAIN sessions' = DOMAIN sessions /\ sessions'[sid] = row
      /\ \A s \in DOMAIN sessions : s # sid => sessions'[s] = sessions[s]
  BY <1>1, <1>2, <1>3, RowChanged
<1> QED BY <1>2, <1>4

\* A new pair: nothing but the jti, and for a switch the family, of its session changes.
LEMMA Renews ==
  ASSUME ApiInv, NEW p \in DOMAIN pairs, Rotate(p)
  PROVE  /\ \A s \in DOMAIN sessions : /\ sessions'[s].revoked = sessions[s].revoked
                                       /\ sessions'[s].family = sessions[s].family
                                       /\ s # pairs[p].sid => sessions'[s] = sessions[s]
         /\ DOMAIN sessions' = DOMAIN sessions
         /\ New \in DOMAIN pairs' /\ pairs'[New].sid = pairs[p].sid /\ pairs'[New].family = pairs[p].family
         /\ \A q \in DOMAIN pairs' : q \in DOMAIN pairs \/ q = New
         /\ \A q \in DOMAIN pairs : pairs'[q] = pairs[q]
<1> DEFINE row == [sessions[pairs[p].sid] EXCEPT !.jti = New]
<1>1. /\ pairs[p].sid \in DOMAIN sessions /\ sessions[pairs[p].sid] \in Session /\ pairs[p] \in Pair
      /\ pairs[p].sid \in SessionIds /\ pairs[p].family \in PairIds /\ pairs[p].branch \in Branches /\ ApiTypeOK
  BY PairsHaveSessions DEF Pair, ApiInv
<1>2. /\ New \in PairIds /\ DOMAIN pairs' = 1..New /\ DOMAIN pairs = 1..Len(pairs)
      /\ pairs'[New] = [sid |-> pairs[p].sid, family |-> pairs[p].family, branch |-> pairs[p].branch]
      /\ \A q \in DOMAIN pairs : pairs'[q] = pairs[q]
  BY <1>1, Minted DEF Rotate
<1>3. row \in Session /\ row.revoked = sessions[pairs[p].sid].revoked /\ row.family = sessions[pairs[p].sid].family
  BY <1>1, <1>2 DEF Session
<1>4. sessions' = [sessions EXCEPT ![pairs[p].sid] = row]
  BY DEF Rotate
<1> HIDE DEF row
<1>5. /\ DOMAIN sessions' = DOMAIN sessions /\ sessions'[pairs[p].sid] = row
      /\ \A s \in DOMAIN sessions : s # pairs[p].sid => sessions'[s] = sessions[s]
  BY <1>1, <1>3, <1>4, RowChanged
<1>6. \A q \in DOMAIN pairs' : q \in DOMAIN pairs \/ q = New
  BY <1>1, <1>2, Numbered
<1>7. New \in DOMAIN pairs'
  BY <1>2 DEF PairIds
<1> QED BY <1>2, <1>3, <1>5, <1>6, <1>7

LEMMA SignsIn ==
  ASSUME ApiInv, NEW u \in Users, SignIn(u)
  PROVE  /\ \A s \in DOMAIN sessions : sessions'[s] = sessions[s] /\ s \in DOMAIN sessions'
         /\ \A s \in DOMAIN sessions' : s \in DOMAIN sessions \/ sessions'[s].revoked = "no"
         /\ New \in DOMAIN pairs' /\ pairs'[New].family = sessions'[pairs'[New].sid].family
         /\ \A q \in DOMAIN pairs' : q \in DOMAIN pairs \/ q = New
         /\ \A q \in DOMAIN pairs : pairs'[q] = pairs[q]
<1> DEFINE s   == Len(sessions) + 1
           row == [user |-> u, family |-> New, jti |-> New, revoked |-> "no"]
<1>a. ApiTypeOK
  BY DEF ApiInv
<1>1. s \in SessionIds /\ New \in PairIds /\ Home(u) \in Branches
  BY <1>a, Numbered, SessionAssumption DEF SignIn, Mint, SessionIds, PairIds
<1>2. row \in Session /\ row.jti = New /\ row.family = New /\ row.revoked = "no"
  BY <1>1 DEF Session
<1>3. /\ DOMAIN pairs' = 1..New /\ DOMAIN pairs = 1..Len(pairs)
      /\ pairs'[New] = [sid |-> s, family |-> New, branch |-> Home(u)]
      /\ \A q \in DOMAIN pairs : pairs'[q] = pairs[q]
  BY <1>a, <1>1, Minted DEF SignIn
<1>4. sessions' = Append(sessions, row)
  BY DEF SignIn
<1> HIDE DEF row
<1>5. DOMAIN sessions' = 1..s /\ sessions'[s] = row /\ \A r \in DOMAIN sessions : sessions'[r] = sessions[r]
  BY <1>a, <1>2, <1>4 DEF ApiTypeOK
<1>6. DOMAIN sessions = 1..Len(sessions) /\ Len(sessions) \in Nat
  BY <1>a, Numbered
<1>7. \A r \in DOMAIN sessions' : r \in DOMAIN sessions \/ r = s
  BY <1>5, <1>6
<1>8. \A r \in DOMAIN sessions : r \in DOMAIN sessions'
  BY <1>5, <1>6
<1> HIDE DEF s
<1>9. /\ \A q \in DOMAIN pairs' : q \in DOMAIN pairs \/ q = New
      /\ New \in DOMAIN pairs'
  BY <1>a, <1>1, <1>3, Numbered DEF PairIds
<1> QED BY <1>2, <1>3, <1>5, <1>7, <1>8, <1>9

LEMMA SwitchesRows ==
  ASSUME ApiInv, NEW p \in DOMAIN pairs, NEW b \in Branches, SwitchTo(p, b)
  PROVE  \A s \in DOMAIN sessions : /\ sessions'[s].revoked = sessions[s].revoked
                                    /\ sessions'[s].family \in {sessions[s].family, New}
<1>1. sessions \in Seq(Session) /\ pairs[p].sid \in DOMAIN sessions
  BY PairsHaveSessions DEF ApiInv, ApiTypeOK
<1>2. sessions' = [sessions EXCEPT ![pairs[p].sid].jti = New, ![pairs[p].sid].family = New]
  BY DEF SwitchTo
<1> SUFFICES ASSUME NEW s \in DOMAIN sessions
             PROVE  /\ sessions'[s].revoked = sessions[s].revoked
                    /\ sessions'[s].family \in {sessions[s].family, New}
  OBVIOUS
<1>3. sessions[s] \in Session
  BY <1>1
<1>4. CASE s = pairs[p].sid
  <2>1. sessions'[s] = [[sessions[s] EXCEPT !.jti = New] EXCEPT !.family = New]
    BY <1>1, <1>2, <1>4
  <2> QED BY <1>3, <2>1 DEF Session
<1>5. CASE s # pairs[p].sid
  BY <1>1, <1>2, <1>5
<1> QED BY <1>4, <1>5

LEMMA ApiGoesOn == ASSUME ApiInv, ApiStep, expired' \subseteq DOMAIN pairs PROVE ApiInv' /\ Grows /\ LivesFall
<1>1. CASE UNCHANGED <<sessions, pairs>>
  <2>1. ApiInv' /\ Grows
    BY <1>1, UntouchedStaysSound
  <2> QED BY <1>1, <2>1, RowsFall
<1>2. ASSUME NEW p \in DOMAIN pairs, Rotate(p) PROVE ApiInv' /\ Grows /\ LivesFall
  <2>1. ApiInv' /\ Grows
    BY <1>2, RotatedStaysSound
  <2> QED BY <1>2, <2>1, Renews, RowsFall
<1>3. ASSUME NEW p \in DOMAIN pairs, RefuseToken(p) \/ SignOut(p) PROVE ApiInv' /\ Grows /\ LivesFall
  <2>1. ApiInv' /\ Grows /\ pairs[p].sid \in DOMAIN sessions
    BY <1>3, RefusedStaysSound, PairsHaveSessions
  <2>2. UNCHANGED sessions \/ \E cause \in {"logout", "reuse"} : Revoke(pairs[p].sid, cause)
    BY <1>3 DEF RefuseToken, SignOut
  <2>3. CASE UNCHANGED sessions
    BY <2>1, <2>3, RowsFall
  <2>4. ASSUME NEW cause \in {"logout", "reuse"}, Revoke(pairs[p].sid, cause) PROVE LivesFall
    <3>1. \A s \in DOMAIN sessions : /\ sessions'[s].revoked \in {sessions[s].revoked, cause}
                                     /\ sessions'[s].family = sessions[s].family
      BY <2>1, <2>4, Revokes
    <3> QED BY <2>1, <3>1, RowsFall
  <2> QED BY <2>1, <2>2, <2>3, <2>4
<1>4. ASSUME NEW p \in DOMAIN pairs, NEW b \in Branches, SwitchTo(p, b) PROVE ApiInv' /\ Grows /\ LivesFall
  <2>1. ApiInv' /\ Grows
    BY <1>4, SwitchedStaysSound
  <2> QED BY <1>4, <2>1, SwitchesRows, RowsFall
<1>5. ASSUME NEW u \in Users, SignIn(u) PROVE ApiInv' /\ Grows /\ LivesFall
  <2>1. ApiInv' /\ Grows
    BY <1>5, SignedInStaysSound
  <2> QED BY <1>5, <2>1, SignsIn, RowsFall
<1>6. ASSUME NEW s \in DOMAIN sessions, RevokeElsewhere(s) PROVE ApiInv' /\ Grows /\ LivesFall
  <2>1. Revoke(s, "elsewhere") /\ UNCHANGED pairs
    BY <1>6 DEF RevokeElsewhere
  <2>2. ApiInv' /\ Grows
    BY <2>1, RevokedStaysSound
  <2>3. \A r \in DOMAIN sessions : /\ sessions'[r].revoked \in {sessions[r].revoked, "elsewhere"}
                                   /\ sessions'[r].family = sessions[r].family
    BY <2>1, Revokes
  <2> QED BY <2>2, <2>3, RowsFall
<1> QED BY <1>1, <1>2, <1>3, <1>4, <1>5, <1>6 DEF ApiStep

-----------------------------------------------------------------------------
(* A step of the system, for those who hold tokens. *)

\* Where a call's new pair is from: the flight of its pair, or minted in this step.
FreshFrom(n) ==
  \/ n.pair \in PairIds /\ flights[n.pair].at = "won" /\ n.fresh = flights[n.pair].got
  \/ /\ n.fresh = New /\ New \in DOMAIN pairs'
     /\ n.pair # 0 => pairs'[New].sid = pairs[n.pair].sid

\* What the pair opens after the step.
LiveNext(p) == sessions'[pairs'[p].sid].revoked = "no" /\ sessions'[pairs'[p].sid].family = pairs'[p].family

OfItsKind(n) == n.at \in {"first", "refreshing", "retry"} => n.kind \in {"work", "refresh"}
\* Only the refresh is made for two kinds of calls, and no call switches unless asked to.
KindsInv ==
  /\ \A c \in Calls : OfItsKind(calls[c])
  /\ switches = 0 => \A c \in Calls : calls[c].kind # "switch"

\* A call begins with the cookies, no other changes.
Begun(c, n) ==
  /\ calls[c].at = "idle" /\ n.pair = jar /\ OfItsKind(n)
  /\ n.fresh = 0 \/ FreshFrom(n)
  /\ n.kind = "switch" => switches' # 0
  /\ n.kind = "logout" => n.at = "asking"
  /\ n.kind = "login" => /\ jar = 0 /\ evicted' = (evicted \/ Standing # {})
                         /\ \A d \in Calls : calls[d].kind # "login"
                         /\ \A d \in Calls : d # c => calls'[d] = calls[d]
GoesOn(k, n) ==
  /\ n.pair = k.pair /\ n.kind = k.kind /\ OfItsKind(n)
  /\ n.fresh = k.fresh \/ (n.fresh # 0 /\ FreshFrom(n))
  /\ n.kind = "logout" /\ n.at = "answered" => k.at = "answered" \/ unheard' \/ ~LiveNext(k.pair)
CallGoes(c) == calls'[c] = calls[c] \/ calls'[c] = Idle \/ Begun(c, calls'[c]) \/ GoesOn(calls[c], calls'[c])

\* A flight stays, is forgotten, goes out, is won or lost.
FlightGoes(q) ==
  \/ flights'[q] = flights[q]
  \/ /\ flights'[q] = NoFlight /\ UNCHANGED <<jar, calls>> /\ \A r \in PairIds : flights[r].got # q
     /\ troubles' # 0 \/ ~Straggler(q) \/ flights[q].at # "won"
  \/ /\ flights'[q].at = "out" /\ flights[q].at = "none" /\ flights'[q].got = flights[q].got
     /\ q = jar \/ \E c \in Calls : calls[c].pair = q /\ calls[c].fresh = 0
  \/ flights'[q].at = "won" /\ flights'[q].got = New /\ q \in DOMAIN pairs /\ Rotate(q)
  \/ flights'[q].at \in {"refused", "failed"} /\ flights[q].at = "out" /\ flights'[q].got = 0

ApiGoes ==
  \/ UNCHANGED <<sessions, pairs>>
  \/ \E p \in DOMAIN pairs : Rotate(p) /\ (flights'[p].at = "won" \/ troubles' # 0)
  \/ \E p \in DOMAIN pairs : RefuseToken(p) /\ (flights[p].at = "out" \/ switches # 0)
  \/ \E p \in DOMAIN pairs : SignOut(p)
  \/ \E p \in DOMAIN pairs, b \in Branches : SwitchTo(p, b) /\ switches # 0
  \/ \E u \in Users : SignIn(u)
  \/ \E s \in DOMAIN sessions : RevokeElsewhere(s)

HistoryGoes ==
  /\ switches' = 0 => switches = 0
  /\ troubles' = 0 => troubles = 0
  /\ unheard => unheard'
  /\ evicted => evicted'

\* What a step of the system is, for those who hold tokens.
Shape ==
  /\ ApiGoes /\ HistoryGoes
  /\ UNCHANGED <<jar, owner>> \/ \E c \in Calls : Arrive(c)
  /\ \A c \in Calls : CallGoes(c)
  /\ \A q \in PairIds : FlightGoes(q)

LEMMA HistoryStays ==
  ASSUME WebInv, UNCHANGED switches \/ switches' = switches + 1,
         UNCHANGED troubles \/ troubles' = troubles + 1,
         UNCHANGED unheard \/ unheard' = TRUE, UNCHANGED evicted \/ evicted' = (evicted \/ Standing # {})
  PROVE  HistoryGoes
<1>1. switches \in Nat /\ troubles \in Nat
  BY WebAssumption DEF WebInv, Rest
<1>2. (switches' = 0 => switches = 0) /\ (troubles' = 0 => troubles = 0)
  BY <1>1
<1>3. unheard \in BOOLEAN /\ evicted \in BOOLEAN
  BY DEF WebInv, Rest
<1>4. unheard => unheard'
  <2>1. CASE UNCHANGED unheard
    BY <2>1
  <2>2. CASE unheard' = TRUE
    BY <2>2
  <2> QED BY <2>1, <2>2
<1>5. evicted => evicted'
  <2>1. CASE UNCHANGED evicted
    BY <2>1
  <2>2. CASE evicted' = (evicted \/ Standing # {})
    BY <2>2
  <2> QED BY <2>1, <2>2
<1> QED BY <1>2, <1>4, <1>5 DEF HistoryGoes

\* One call changes.
LEMMA OneCall ==
  ASSUME WebInv, NEW c \in Calls, NEW n, calls' = [calls EXCEPT ![c] = n],
         calls'[c] = n => CallGoes(c)
  PROVE  \A d \in Calls : CallGoes(d)
BY DEF WebInv, CallGoes

LEMMA FlightsRest == ASSUME UNCHANGED flights PROVE \A q \in PairIds : FlightGoes(q)
BY DEF FlightGoes

\* A call that was asking, trying first or trying again goes on.
LEMMA BeginShape ==
  ASSUME WebInv, NEW c \in Calls, BeginWork(c) \/ BeginSwitch(c) \/ BeginLogout(c) \/ BeginLogin(c)
  PROVE  Shape
<1>1. PICK kind \in Kinds, at \in Stages :
         /\ Begin(c, kind, at)
         /\ kind = "login" => /\ jar = 0 /\ \A d \in Calls : calls[d].at # "idle" => calls[d].kind # "login"
                              /\ evicted' = (evicted \/ Standing # {})
         /\ kind = "switch" => switches' = switches + 1
         /\ kind = "logout" => at = "asking"
         /\ at = "asking" \/ (at = "first" /\ kind = "work")
         /\ UNCHANGED switches \/ switches' = switches + 1
         /\ UNCHANGED evicted \/ evicted' = (evicted \/ Standing # {})
  BY DEF BeginWork, BeginSwitch, BeginLogout, BeginLogin, Kinds, Stages
<1> DEFINE n == [Idle EXCEPT !.at = at, !.kind = kind, !.pair = jar]
<1>2. n.at = at /\ n.kind = kind /\ n.pair = jar /\ n.fresh = 0
  BY BegunCalls DEF WebInv
<1>3. calls' = [calls EXCEPT ![c] = n] /\ calls[c].at = "idle"
  BY <1>1 DEF Begin
<1> HIDE DEF n
<1>4. HistoryGoes
  BY <1>1, HistoryStays DEF Begin
<1>5. switches \in Nat
  BY WebAssumption DEF WebInv, Rest
<1>6. \A d \in Calls : calls[d].at = "idle" => calls[d].kind # "login"
  BY KnownCalls DEF CallOK
<1>7. Begun(c, n)
  <2>1. kind = "switch" => switches' # 0
    BY <1>1, <1>5
  <2>2. n.kind = "login" => \A d \in Calls : d # c => calls'[d] = calls[d]
    BY <1>3 DEF WebInv
  <2>3. OfItsKind(n)
    BY <1>1, <1>2 DEF OfItsKind
  <2> QED BY <1>1, <1>2, <1>3, <1>6, <2>1, <2>2, <2>3 DEF Begun
<1>8. \A d \in Calls : CallGoes(d)
  BY <1>3, <1>7, OneCall DEF CallGoes
<1> QED BY <1>1, <1>4, <1>8, FlightsRest DEF Shape, ApiGoes, Begin, apiVars

\* A call is answered, the API doing something or nothing.
LEMMA AnswerShape ==
  ASSUME WebInv, ApiGoes, HistoryGoes, NEW c \in Calls, NEW n, UNCHANGED <<jar, owner, flights>>,
         calls' = [calls EXCEPT ![c] = n], GoesOn(calls[c], n)
  PROVE  Shape
<1>1. \A d \in Calls : CallGoes(d)
  BY OneCall DEF CallGoes
<1> QED BY <1>1, FlightsRest DEF Shape

\* A call boards the flight of its pair, as it begins or when its first try was refused.
LEMMA BoardShape ==
  ASSUME WebInv, UNCHANGED <<apiVars, jar, owner, switches, unheard, evicted, troubles>>,
         NEW c \in Calls, NEW k \in Call, k.fresh = 0, k.pair \in DOMAIN pairs, k.kind \in {"work", "refresh"},
         \/ calls[c].at = "idle" /\ k.pair = jar
         \/ calls[c].pair = k.pair /\ calls[c].kind = k.kind /\ calls[c].fresh = 0,
         Board(c, k)
  PROVE  Shape
<1> DEFINE p == k.pair
           n == After(k, flights[p])
           g == IF flights[p].at = "none" THEN [flights[p] EXCEPT !.at = "out"] ELSE flights[p]
<1>1. p \in PairIds /\ flights[p] \in Flight
  BY Numbered DEF WebInv, ApiInv
<1>2. n.pair = p /\ n.kind = k.kind /\ n.fresh = (IF flights[p].at = "won" THEN flights[p].got ELSE 0)
  BY <1>1, AfterFlight
<1>3. calls' = [calls EXCEPT ![c] = n] /\ flights' = [flights EXCEPT ![p] = g]
  BY DEF Board
<1>4. g = flights[p] \/ (flights[p].at = "none" /\ g.at = "out" /\ g.got = flights[p].got)
  BY <1>1 DEF Flight
<1> HIDE DEF n, g
<1>5. n.fresh = 0 \/ (n.fresh # 0 /\ FreshFrom(n))
  BY <1>1, <1>2 DEF FreshFrom
<1>6. Begun(c, n) \/ GoesOn(calls[c], n)
  BY <1>2, <1>5 DEF Begun, GoesOn, OfItsKind
<1>7. \A d \in Calls : CallGoes(d)
  BY <1>3, <1>6, OneCall DEF CallGoes
<1>8. flights'[p] = g /\ \A q \in PairIds : q # p => flights'[q] = flights[q]
  BY <1>1, <1>3 DEF WebInv
<1>9. p = jar \/ (calls[c].pair = p /\ calls[c].fresh = 0)
  OBVIOUS
<1> HIDE DEF p
<1>10. FlightGoes(p)
  <2>1. p = jar \/ \E d \in Calls : calls[d].pair = p /\ calls[d].fresh = 0
    BY <1>9
  <2> QED BY <1>4, <1>8, <2>1 DEF FlightGoes
<1>11. \A q \in PairIds : q # p => FlightGoes(q)
  BY <1>8 DEF FlightGoes
<1>12. HistoryGoes
  BY DEF HistoryGoes
<1> QED BY <1>7, <1>10, <1>11, <1>12 DEF Shape, ApiGoes, apiVars

LEMMA BeginRefreshShape == ASSUME WebInv, NEW c \in Calls, BeginRefresh(c) PROVE Shape
<1> DEFINE k == [Idle EXCEPT !.kind = "refresh", !.pair = jar]
<1>1. k \in Call /\ k.pair = jar /\ k.fresh = 0 /\ k.kind = "refresh"
  BY BegunCalls DEF WebInv, Kinds, Stages
<1>2. Board(c, k) /\ jar # 0 /\ calls[c].at = "idle"
      /\ UNCHANGED <<apiVars, jar, owner, switches, unheard, evicted, troubles>>
  BY DEF BeginRefresh
<1>3. jar \in DOMAIN pairs
  BY <1>2, Numbered DEF WebInv, Rest, ApiInv
<1> HIDE DEF k
<1> QED BY <1>1, <1>2, <1>3, BoardShape

LEMMA FirstTryShape == ASSUME WebInv, KindsInv, NEW c \in Calls, FirstTry(c) PROVE Shape
<1> DEFINE p == calls[c].pair
           n == [calls[c] EXCEPT !.at = "answered", !.ran = p]
<1>1. calls[c].at = "first" /\ calls[c].kind \in {"work", "refresh"} /\ calls[c].fresh = 0
      /\ p \in DOMAIN pairs /\ calls[c] \in Call
  BY KnownCalls DEF FirstTry, CallOK, KindsInv, OfItsKind
<1>2. UNCHANGED <<apiVars, jar, owner, switches, unheard, evicted, troubles>>
  BY DEF FirstTry
<1>3. CASE Accepted(p)
  <2>1. calls' = [calls EXCEPT ![c] = n] /\ flights' = flights
    BY <1>3 DEF FirstTry, Step
  <2>2. n.pair = p /\ n.fresh = calls[c].fresh /\ n.kind = calls[c].kind
    BY <1>1 DEF Call
  <2> HIDE DEF n
  <2>3. GoesOn(calls[c], n)
    BY <1>1, <2>2 DEF GoesOn, OfItsKind
  <2> QED BY <1>2, <2>1, <2>3, AnswerShape DEF ApiGoes, HistoryGoes, apiVars
<1>4. CASE ~Accepted(p)
  <2>1. Board(c, calls[c])
    BY <1>4 DEF FirstTry
  <2> QED BY <1>1, <1>2, <2>1, BoardShape
<1> QED BY <1>3, <1>4

LEMMA RetryShape == ASSUME WebInv, KindsInv, NEW c \in Calls, Retry(c) PROVE Shape
<1>1. calls[c].kind \in {"work", "refresh"} /\ calls[c] \in Call
  BY KnownCalls DEF Retry, KindsInv, OfItsKind
<1>2. UNCHANGED <<apiVars, jar, flights, owner, switches, unheard, evicted, troubles>>
  BY DEF Retry
<1>3. ASSUME NEW n, calls' = [calls EXCEPT ![c] = n], n.pair = calls[c].pair, n.fresh = calls[c].fresh,
             n.kind = calls[c].kind
      PROVE  Shape
  <2>1. GoesOn(calls[c], n)
    BY <1>1, <1>3 DEF GoesOn, OfItsKind
  <2> QED BY <1>2, <1>3, <2>1, AnswerShape DEF ApiGoes, HistoryGoes, apiVars
<1>4. CASE Accepted(calls[c].fresh)
  <2> DEFINE n == [calls[c] EXCEPT !.at = "answered", !.cookies = "set", !.ran = calls[c].fresh]
  <2>1. calls' = [calls EXCEPT ![c] = n]
    BY <1>4 DEF Retry, Step
  <2>2. n.pair = calls[c].pair /\ n.fresh = calls[c].fresh /\ n.kind = calls[c].kind
    BY <1>1 DEF Call
  <2> HIDE DEF n
  <2> QED BY <1>3, <2>1, <2>2
<1>5. CASE ~Accepted(calls[c].fresh)
  <2> DEFINE n == [calls[c] EXCEPT !.at = "answered", !.cookies = "clear"]
  <2>1. calls' = [calls EXCEPT ![c] = n]
    BY <1>5 DEF Retry, Step
  <2>2. n.pair = calls[c].pair /\ n.fresh = calls[c].fresh /\ n.kind = calls[c].kind
    BY <1>1 DEF Call
  <2> HIDE DEF n
  <2> QED BY <1>3, <2>1, <2>2
<1> QED BY <1>4, <1>5

\* An answer without a new pair.
LEMMA PlainAnswers ==
  ASSUME WebInv, ApiGoes, HistoryGoes, NEW c \in Calls, NEW effect, Answer(c, effect),
         UNCHANGED <<jar, owner, flights>>,
         calls[c].kind = "logout" => unheard' \/ ~LiveNext(calls[c].pair)
  PROVE  Shape
<1> DEFINE n == [calls[c] EXCEPT !.at = "answered", !.cookies = effect]
<1>1. calls' = [calls EXCEPT ![c] = n] /\ calls[c] \in Call
  BY KnownCalls DEF Answer, Step
<1>2. n.pair = calls[c].pair /\ n.fresh = calls[c].fresh /\ n.kind = calls[c].kind /\ n.at = "answered"
  BY <1>1 DEF Call, Stages
<1> HIDE DEF n
<1>3. GoesOn(calls[c], n)
  BY <1>2 DEF GoesOn, OfItsKind
<1> QED BY <1>1, <1>3, AnswerShape

\* An answer with one.
LEMMA MintedAnswers ==
  ASSUME WebInv, ApiGoes, HistoryGoes, NEW c \in Calls, calls[c].kind # "logout",
         Step(c, [calls[c] EXCEPT !.at = "answered", !.fresh = New, !.cookies = "set"]),
         UNCHANGED <<jar, owner, flights>>,
         New \in DOMAIN pairs', calls[c].pair # 0 => pairs'[New].sid = pairs[calls[c].pair].sid
  PROVE  Shape
<1> DEFINE n == [calls[c] EXCEPT !.at = "answered", !.fresh = New, !.cookies = "set"]
<1>1. calls' = [calls EXCEPT ![c] = n] /\ calls[c] \in Call
  BY KnownCalls DEF Step
<1>2. n.pair = calls[c].pair /\ n.fresh = New /\ n.kind = calls[c].kind /\ n.at = "answered"
  BY <1>1 DEF Call, Stages
<1>3. New # 0
  BY Numbered DEF WebInv, ApiInv
<1> HIDE DEF n
<1>4. GoesOn(calls[c], n)
  BY <1>2, <1>3 DEF GoesOn, OfItsKind, FreshFrom
<1> QED BY <1>1, <1>4, AnswerShape

LEMMA ServeSwitchShape == ASSUME WebInv, KindsInv, NEW c \in Calls, ServeSwitch(c) PROVE Shape
<1> DEFINE p == calls[c].pair
<1>1. calls[c].kind = "switch" /\ p \in DOMAIN pairs /\ switches # 0
      /\ UNCHANGED <<jar, owner, flights, switches, unheard, evicted, troubles>>
  BY KnownCalls DEF ServeSwitch, CallOK, KindsInv
<1>2. HistoryGoes
  BY <1>1 DEF HistoryGoes
<1>3. CASE RefuseToken(p) /\ Answer(c, "clear")
  <2>1. ApiGoes
    BY <1>1, <1>3 DEF ApiGoes
  <2> QED BY <1>1, <1>2, <1>3, <2>1, PlainAnswers
<1>4. ASSUME NEW b \in Branches, SwitchTo(p, b),
             Step(c, [calls[c] EXCEPT !.at = "answered", !.fresh = New, !.cookies = "set"])
      PROVE  Shape
  <2>1. ApiGoes
    BY <1>1, <1>4 DEF ApiGoes
  <2>2. New \in PairIds /\ pairs[p].sid \in SessionIds /\ ApiTypeOK
    BY <1>1, <1>4, PairsHaveSessions, Numbered, SessionAssumption DEF SwitchTo, Mint, PairIds, WebInv, ApiInv, Pair
  <2>3. pairs'[New].sid = pairs[p].sid /\ New \in DOMAIN pairs'
    <3>1. Mint(pairs[p].sid, New, b)
      BY <1>4 DEF SwitchTo
    <3>2. /\ DOMAIN pairs' = 1..New
          /\ pairs'[New] = [sid |-> pairs[p].sid, family |-> New, branch |-> b]
      BY <2>2, <3>1, Minted
    <3> QED BY <2>2, <3>2 DEF PairIds
  <2> QED BY <1>1, <1>2, <1>4, <2>1, <2>3, MintedAnswers
<1> QED BY <1>3, <1>4 DEF ServeSwitch

LEMMA ServeLoginShape == ASSUME WebInv, NEW c \in Calls, ServeLogin(c) PROVE Shape
<1>1. calls[c].kind = "login" /\ calls[c].pair = 0
      /\ UNCHANGED <<jar, owner, flights, switches, unheard, evicted, troubles>>
  BY KnownCalls DEF ServeLogin, CallOK
<1>2. HistoryGoes
  BY <1>1 DEF HistoryGoes
<1>3. CASE UNCHANGED apiVars /\ Answer(c, "keep")
  <2>1. ApiGoes
    BY <1>3 DEF ApiGoes, apiVars
  <2> QED BY <1>1, <1>2, <1>3, <2>1, PlainAnswers
<1>4. ASSUME NEW u \in Users, SignIn(u),
             Step(c, [calls[c] EXCEPT !.at = "answered", !.fresh = New, !.cookies = "set"])
      PROVE  Shape
  <2>1. ApiGoes
    BY <1>4 DEF ApiGoes
  <2>2. New \in DOMAIN pairs'
    BY <1>4, SignsIn DEF WebInv
  <2> QED BY <1>1, <1>2, <1>4, <2>1, <2>2, MintedAnswers
<1> QED BY <1>3, <1>4 DEF ServeLogin

\* After a sign-out the pair opens nothing.
LEMMA SignOutCloses == ASSUME ApiInv, NEW p \in DOMAIN pairs, SignOut(p) PROVE ~LiveNext(p)
<1>1. pairs' = pairs /\ pairs[p].sid \in DOMAIN sessions
  BY PairsHaveSessions DEF SignOut
<1>2. CASE Live(p)
  <2>1. Revoke(pairs[p].sid, "logout")
    BY <1>2 DEF SignOut
  <2>2. sessions'[pairs[p].sid].revoked = "logout"
    BY <1>1, <2>1, Revokes
  <2> QED BY <1>1, <2>2 DEF Live, SessionOf, LiveNext
<1>3. CASE ~Live(p)
  BY <1>3, <1>1 DEF SignOut, Live, SessionOf, LiveNext
<1> QED BY <1>2, <1>3

LEMMA LogoutShape == ASSUME WebInv, NEW c \in Calls, ServeLogout(c) \/ LogoutUnheard(c) PROVE Shape
<1>1. calls[c].at = "asking" /\ calls[c].pair \in DOMAIN pairs /\ UNCHANGED <<jar, owner, flights>>
      /\ Answer(c, "clear")
  BY KnownCalls DEF ServeLogout, LogoutUnheard, CallOK
<1>2. HistoryGoes
  BY HistoryStays DEF ServeLogout, LogoutUnheard, Trouble
<1>3. CASE ServeLogout(c)
  <2>1. ApiGoes /\ SignOut(calls[c].pair)
    BY <1>1, <1>3 DEF ServeLogout, ApiGoes
  <2>2. ~LiveNext(calls[c].pair)
    <3> DEFINE p == calls[c].pair
    <3>1. SignOut(p) /\ p \in DOMAIN pairs
      BY <1>1, <2>1
    <3> QED BY <3>1, SignOutCloses DEF WebInv
  <2> QED BY <1>1, <1>2, <2>1, <2>2, PlainAnswers
<1>4. CASE LogoutUnheard(c)
  <2>1. ApiGoes /\ unheard'
    BY <1>4 DEF LogoutUnheard, ApiGoes, apiVars
  <2> QED BY <1>1, <1>2, <2>1, PlainAnswers
<1> QED BY <1>3, <1>4

LEMMA ArriveShape == ASSUME WebInv, NEW c \in Calls, Arrive(c) \/ Abandon(c) PROVE Shape
<1>1. calls' = [calls EXCEPT ![c] = Idle] /\ UNCHANGED <<apiVars, flights>>
  BY DEF Arrive, Abandon, Step
<1>2. \A d \in Calls : CallGoes(d)
  BY <1>1, OneCall DEF CallGoes
<1>3. HistoryGoes
  BY HistoryStays DEF Arrive, Abandon, Trouble
<1>4. UNCHANGED <<jar, owner>> \/ \E d \in Calls : Arrive(d)
  BY DEF Abandon
<1> QED BY <1>1, <1>2, <1>3, <1>4, FlightsRest DEF Shape, ApiGoes, apiVars

\* A flight is over: those aboard go on with what it got.
LEMMA LandShape ==
  ASSUME WebInv, KindsInv, ApiGoes, HistoryGoes, NEW p \in DOMAIN pairs, p \in PairIds, NEW f \in Flight, Land(p, f),
         UNCHANGED <<jar, owner>>, flights[p].at = "out",
         \/ f.at = "won" /\ f.got = New /\ Rotate(p)
         \/ f.at \in {"refused", "failed"} /\ f.got = 0
  PROVE  Shape
<1>1. flights' = [flights EXCEPT ![p] = f] /\ flights \in [PairIds -> Flight]
  BY DEF Land, WebInv
<1>2. flights'[p] = f /\ \A q \in PairIds : q # p => flights'[q] = flights[q]
  BY <1>1
<1>3. FlightGoes(p)
  BY <1>2 DEF FlightGoes
<1>4. \A q \in PairIds : FlightGoes(q)
  BY <1>2, <1>3 DEF FlightGoes
<1>5. ASSUME NEW c \in Calls PROVE CallGoes(c)
  <2>1. calls'[c] = IF calls[c].at = "refreshing" /\ calls[c].pair = p THEN After(calls[c], f) ELSE calls[c]
    BY DEF Land
  <2>2. CASE ~(calls[c].at = "refreshing" /\ calls[c].pair = p)
    BY <2>1, <2>2 DEF CallGoes
  <2>3. CASE calls[c].at = "refreshing" /\ calls[c].pair = p
    <3> DEFINE n == After(calls[c], f)
    <3>1. calls'[c] = n
      BY <2>1, <2>3
    <3>2. calls[c] \in Call /\ calls[c].fresh = 0
      BY <2>3, KnownCalls DEF CallOK
    <3>3. n.pair = p /\ n.kind = calls[c].kind /\ n.fresh = (IF f.at = "won" THEN f.got ELSE 0)
      BY <2>3, <3>2, AfterFlight
    <3>4. n.kind \in {"work", "refresh"}
      BY <2>3, <3>3 DEF KindsInv, OfItsKind
    <3> HIDE DEF n
    <3>5. n.fresh = calls[c].fresh \/ (n.fresh # 0 /\ FreshFrom(n))
      <4>1. CASE f.at = "won"
        <5>1. New \in DOMAIN pairs' /\ pairs'[New].sid = pairs[p].sid /\ New # 0
          BY <4>1, Renews, Numbered DEF WebInv, ApiInv
        <5> QED BY <3>3, <4>1, <5>1 DEF FreshFrom
      <4>2. CASE f.at # "won"
        BY <3>2, <3>3, <4>2
      <4> QED BY <4>1, <4>2
    <3>6. GoesOn(calls[c], n)
      BY <2>3, <3>3, <3>4, <3>5 DEF GoesOn, OfItsKind
    <3> QED BY <3>1, <3>6 DEF CallGoes
  <2> QED BY <2>2, <2>3
<1> QED BY <1>4, <1>5 DEF Shape

LEMMA ExchangeShape ==
  ASSUME WebInv, KindsInv, NEW p \in PairIds, Exchange(p) \/ LoseExchange(p) PROVE Shape
<1>1. flights[p].at = "out" /\ p \in DOMAIN pairs /\ UNCHANGED <<jar, owner, switches, unheard, evicted>>
  BY DEF Exchange, LoseExchange, WebInv, FlightOK
<1>2. HistoryGoes
  BY HistoryStays DEF Exchange, LoseExchange, Trouble
<1>3. CASE Rotate(p) /\ Land(p, [at |-> "won", got |-> New])
  <2> DEFINE f == [at |-> "won", got |-> New]
  <2>1. New \in 0..MaxPairs
    BY <1>3, Numbered, SessionAssumption DEF Rotate, Mint, WebInv, ApiInv
  <2>2. f \in Flight /\ f.at = "won" /\ f.got = New /\ Land(p, f)
    BY <1>3, <2>1 DEF Flight
  <2> HIDE DEF f
  <2>3. flights'[p].at = "won"
    BY <2>2 DEF Land, WebInv
  <2>4. ApiGoes
    BY <1>1, <1>3, <2>3 DEF ApiGoes
  <2> QED BY <1>1, <1>2, <1>3, <2>2, <2>4, LandShape
<1>4. ASSUME NEW at \in {"refused", "failed"}, Land(p, [at |-> at, got |-> 0]),
             RefuseToken(p) \/ UNCHANGED apiVars \/ (Rotate(p) /\ troubles' # 0)
      PROVE  Shape
  <2> DEFINE f == [at |-> at, got |-> 0]
  <2>1. f \in Flight /\ f.at = at /\ f.got = 0 /\ Land(p, f)
    BY <1>4, SessionAssumption DEF Flight
  <2> HIDE DEF f
  <2>2. ApiGoes
    BY <1>1, <1>4 DEF ApiGoes, apiVars
  <2> QED BY <1>1, <1>2, <2>1, <2>2, LandShape
<1>5. LoseExchange(p) => troubles' # 0
  BY WebAssumption DEF LoseExchange, Trouble, WebInv, Rest
<1>6. CASE Exchange(p)
  BY <1>3, <1>4, <1>6 DEF Exchange
<1>7. CASE LoseExchange(p)
  BY <1>4, <1>5, <1>7 DEF LoseExchange
<1> QED BY <1>6, <1>7

LEMMA OthersShape ==
  ASSUME WebInv,
         \/ \E p \in PairIds : Expire(p) \/ Forget(p)
         \/ \E s \in SessionIds : EndElsewhere(s)
  PROVE  Shape
<1>1. UNCHANGED calls => \A c \in Calls : CallGoes(c)
  BY DEF CallGoes
<1>2. ASSUME NEW p \in PairIds, Expire(p) PROVE Shape
  BY <1>1, <1>2, FlightsRest DEF Expire, Shape, ApiGoes, HistoryGoes, webVars
<1>3. ASSUME NEW s \in SessionIds, EndElsewhere(s) PROVE Shape
  BY <1>1, <1>3, FlightsRest DEF EndElsewhere, Shape, ApiGoes, HistoryGoes, webVars
<1>4. ASSUME NEW p \in PairIds, Forget(p) PROVE Shape
  <2>1. /\ flights' = [flights EXCEPT ![p] = NoFlight] /\ flights \in [PairIds -> Flight]
        /\ UNCHANGED <<apiVars, jar, calls, owner, switches, unheard, evicted>>
        /\ \A q \in PairIds : flights[q].got # p
    BY <1>4 DEF Forget, WebInv
  <2>2. HistoryGoes
    BY <1>4, <2>1, HistoryStays DEF Forget
  <2>3. troubles' # 0 \/ ~Straggler(p) \/ flights[p].at # "won"
    BY <1>4, WebAssumption DEF Forget, WebInv, Rest
  <2>4. FlightGoes(p)
    BY <2>1, <2>3 DEF FlightGoes
  <2>5. \A q \in PairIds : FlightGoes(q)
    BY <2>1, <2>4 DEF FlightGoes
  <2> QED BY <1>1, <2>1, <2>2, <2>5 DEF Shape, ApiGoes, apiVars
<1> QED BY <1>2, <1>3, <1>4

LEMMA NextShape == ASSUME WebInv, KindsInv, Next PROVE Shape
<1>1. ASSUME NEW c \in Calls,
             BeginWork(c) \/ BeginRefresh(c) \/ BeginSwitch(c) \/ BeginLogout(c)
               \/ BeginLogin(c) \/ Handler(c) \/ Abandon(c) \/ LogoutUnheard(c)
      PROVE  Shape
  BY <1>1, BeginShape, BeginRefreshShape, FirstTryShape, RetryShape, ServeSwitchShape, ServeLoginShape,
     LogoutShape, ArriveShape DEF Handler
<1>2. CASE \E p \in PairIds : Exchange(p) \/ LoseExchange(p)
  BY <1>2, ExchangeShape
<1>3. CASE \/ \E p \in PairIds : Expire(p) \/ Forget(p)
           \/ \E s \in SessionIds : EndElsewhere(s)
  BY <1>3, OthersShape
<1> QED BY <1>1, <1>2, <1>3 DEF Next

LEMMA StandsShape == ASSUME WebInv, UNCHANGED vars PROVE Shape
<1>1. \A c \in Calls : CallGoes(c)
  BY DEF CallGoes, vars, webVars
<1> QED BY <1>1, FlightsRest DEF Shape, ApiGoes, HistoryGoes, vars, webVars, apiVars

LEMMA KindsLast == ASSUME WebInv, KindsInv, Shape PROVE KindsInv'
<1>1. ASSUME NEW c \in Calls PROVE OfItsKind(calls'[c]) /\ (switches' = 0 => calls'[c].kind # "switch")
  <2>1. switches' = 0 => switches = 0
    BY DEF Shape, HistoryGoes
  <2>2. CASE calls'[c] = calls[c]
    BY <2>1, <2>2 DEF KindsInv, OfItsKind
  <2>3. CASE calls'[c] = Idle
    BY <2>3 DEF OfItsKind, Idle
  <2>4. CASE Begun(c, calls'[c])
    BY <2>4 DEF Begun
  <2>5. CASE GoesOn(calls[c], calls'[c])
    BY <2>1, <2>5 DEF GoesOn, KindsInv
  <2> QED BY <2>2, <2>3, <2>4, <2>5 DEF Shape, CallGoes
<1> QED BY <1>1 DEF KindsInv, OfItsKind

LEMMA OnlyKnownExpire == ASSUME WebInv, [Next]_vars PROVE expired' \subseteq DOMAIN pairs
<1>1. expired \subseteq DOMAIN pairs
  BY DEF WebInv, ApiInv, ApiTypeOK
<1>2. ASSUME UNCHANGED expired PROVE expired' \subseteq DOMAIN pairs
  BY <1>1, <1>2
<1>3. CASE UNCHANGED vars
  BY <1>2, <1>3 DEF vars, apiVars
<1>4. ASSUME NEW c \in Calls, BeginWork(c) \/ BeginRefresh(c) \/ BeginSwitch(c) \/ BeginLogout(c) \/ BeginLogin(c)
      PROVE  UNCHANGED expired
  BY <1>4 DEF BeginWork, BeginRefresh, BeginSwitch, BeginLogout, BeginLogin, Begin, apiVars
<1>5. ASSUME NEW c \in Calls, FirstTry(c) \/ Retry(c) \/ Arrive(c) \/ Abandon(c) \/ LogoutUnheard(c)
      PROVE  UNCHANGED expired
  BY <1>5 DEF FirstTry, Retry, Arrive, Abandon, LogoutUnheard, apiVars
<1>6. ASSUME NEW c \in Calls, ServeSwitch(c) \/ ServeLogin(c) \/ ServeLogout(c)
      PROVE  UNCHANGED expired
  BY <1>6 DEF ServeSwitch, ServeLogin, ServeLogout, SwitchTo, RefuseToken, SignIn, SignOut, apiVars
<1>7. ASSUME NEW p \in PairIds, Exchange(p) \/ LoseExchange(p) \/ Forget(p)
      PROVE  UNCHANGED expired
  BY <1>7 DEF Exchange, LoseExchange, Forget, Rotate, RefuseToken, apiVars
<1>8. ASSUME NEW s \in SessionIds, EndElsewhere(s) PROVE UNCHANGED expired
  BY <1>8 DEF EndElsewhere, RevokeElsewhere
<1>9. ASSUME NEW p \in PairIds, Expire(p) PROVE expired' \subseteq DOMAIN pairs
  BY <1>1, <1>9 DEF Expire
<1> QED BY <1>2, <1>3, <1>4, <1>5, <1>6, <1>7, <1>8, <1>9 DEF Next, Handler

\* A step of the system, as the invariants below see it.
LEMMA StepShape ==
  ASSUME WebInv, KindsInv, [Next]_vars
  PROVE  WebInv' /\ KindsInv' /\ Shape /\ Grows /\ LivesFall /\ expired' \subseteq DOMAIN pairs
<1>1. WebInv'
  BY WebLasts
<1>2. Shape
  BY NextShape, StandsShape
<1>3. expired' \subseteq DOMAIN pairs
  BY OnlyKnownExpire
<1>4. ApiStep
  BY <1>2 DEF Shape, ApiGoes, ApiStep
<1>5. Grows /\ LivesFall
  BY <1>3, <1>4, ApiGoesOn DEF WebInv
<1> QED BY <1>1, <1>2, <1>3, <1>5, KindsLast

-----------------------------------------------------------------------------
(* Nobody is thrown out for the sake of their own tabs.                       *)

\* Nobody will come with the pair again: it is in nobody's hands, and on no way to them.
Gone(p) ==
  /\ jar # p /\ flights[p].at # "out"
  /\ \A q \in PairIds : flights[q].got # p
  /\ \A c \in Calls : calls[c].fresh # p /\ (calls[c].pair = p => calls[c].fresh # 0)

\* An exchanged pair is known to the map, or gone.
Remembered(p) == flights[p].at = "won" \/ Gone(p)
Calm == troubles = 0 /\ switches = 0
NoReuse == \A s \in DOMAIN sessions : sessions[s].revoked # "reuse"
CalmInv ==
  /\ WebInv /\ KindsInv
  /\ Calm => /\ NoReuse
             /\ \A p \in DOMAIN pairs : Exchanged(p, pairs, sessions) => Remembered(p)

\* While it is calm, only the pair that was exchanged in the step is so newly, and its flight is won.
LEMMA NewlyExchanged ==
  ASSUME WebInv, ApiGoes, Calm', Calm, NEW p \in DOMAIN pairs', Exchanged(p, pairs', sessions'),
         ~Exchanged(p, pairs, sessions)
  PROVE  flights'[p].at = "won"
<1>a. ApiInv
  BY DEF WebInv
<1>b. \A q \in DOMAIN pairs : pairs[q].sid \in DOMAIN sessions
  BY <1>a, PairsHaveSessions
<1>1. CASE UNCHANGED <<sessions, pairs>>
  BY <1>1 DEF Exchanged
<1>2. ASSUME NEW q \in DOMAIN pairs, Rotate(q), flights'[q].at = "won" \/ troubles' # 0
      PROVE  flights'[p].at = "won"
  <2>1. flights'[q].at = "won"
    BY <1>2 DEF Calm
  <2>2. CASE p = New
    <3>1. pairs'[New].sid = pairs[q].sid /\ sessions'[pairs[q].sid].jti = New
      <4>1. sessions[pairs[q].sid] \in Session /\ sessions \in Seq(Session)
        BY <1>a, PairsHaveSessions DEF ApiInv, ApiTypeOK
      <4>2. sessions'[pairs[q].sid] = [sessions[pairs[q].sid] EXCEPT !.jti = New]
        BY <1>b, <1>2, <4>1 DEF Rotate
      <4>3. sessions'[pairs[q].sid].jti = New
        BY <4>1, <4>2 DEF Session
      <4> QED BY <1>a, <1>2, <4>3, Renews
    <3> QED BY <2>2, <3>1 DEF Exchanged
  <2>3. CASE p \in DOMAIN pairs /\ pairs[p].sid # pairs[q].sid
    <3>1. pairs'[p] = pairs[p] /\ sessions'[pairs[p].sid] = sessions[pairs[p].sid]
      BY <1>a, <1>b, <1>2, <2>3, Renews
    <3> QED BY <2>3, <3>1 DEF Exchanged
  <2>4. CASE p \in DOMAIN pairs /\ pairs[p].sid = pairs[q].sid
    BY <1>2, <2>1, <2>4 DEF Exchanged, Rotate, Refreshable, SessionOf
  <2> QED BY <1>a, <1>2, <2>2, <2>3, <2>4, Renews
<1>3. ASSUME UNCHANGED pairs, \A s \in DOMAIN sessions : sessions'[s].jti = sessions[s].jti PROVE FALSE
  BY <1>b, <1>3 DEF Exchanged
<1>4. ASSUME NEW sid \in DOMAIN sessions, NEW cause \in {"logout", "reuse", "elsewhere"}, Revoke(sid, cause), UNCHANGED pairs
      PROVE  FALSE
  <2>1. \A s \in DOMAIN sessions : sessions[s] \in Session
    BY <1>a DEF ApiInv, ApiTypeOK
  <2>2. ASSUME NEW s \in DOMAIN sessions PROVE sessions'[s].jti = sessions[s].jti
    <3>1. sessions \in Seq(Session)
      BY <1>a DEF ApiInv, ApiTypeOK
    <3>2. CASE s = sid
      <4>1. sessions'[s] = [sessions[s] EXCEPT !.revoked = cause]
        BY <1>4, <3>1, <3>2 DEF Revoke
      <4> QED BY <2>1, <4>1 DEF Session
    <3>3. CASE s # sid
      BY <1>4, <3>1, <3>3 DEF Revoke
    <3> QED BY <3>2, <3>3
  <2> QED BY <1>3, <1>4, <2>2
<1>5. ASSUME NEW q \in DOMAIN pairs, RefuseToken(q) \/ SignOut(q) PROVE FALSE
  <2>1. UNCHANGED pairs /\ (UNCHANGED sessions \/ Revoke(pairs[q].sid, "reuse") \/ Revoke(pairs[q].sid, "logout"))
    BY <1>5 DEF RefuseToken, SignOut
  <2> QED BY <1>b, <1>3, <1>4, <2>1
<1>6. ASSUME NEW u \in Users, SignIn(u) PROVE FALSE
  <2>1. CASE p \in DOMAIN pairs
    BY <1>a, <1>b, <1>6, <2>1, SignsIn DEF Exchanged
  <2>2. CASE p = New
    <3> DEFINE s == Len(sessions) + 1
    <3>1. s \in SessionIds /\ New \in PairIds /\ Home(u) \in Branches /\ ApiTypeOK
      BY <1>a, <1>6, Numbered, SessionAssumption DEF SignIn, Mint, SessionIds, PairIds, ApiInv
    <3>2. Mint(s, New, Home(u))
      BY <1>6 DEF SignIn
    <3>3. pairs'[New] = [sid |-> s, family |-> New, branch |-> Home(u)]
      BY <3>1, <3>2, Minted
    <3>4. sessions'[s] = [user |-> u, family |-> New, jti |-> New, revoked |-> "no"]
      BY <1>6, <3>1 DEF SignIn, ApiTypeOK
    <3> HIDE DEF s
    <3> QED BY <2>2, <3>3, <3>4 DEF Exchanged
  <2> QED BY <1>a, <1>6, <2>1, <2>2, SignsIn
<1>7. ASSUME NEW s \in DOMAIN sessions, RevokeElsewhere(s) PROVE FALSE
  BY <1>4, <1>7 DEF RevokeElsewhere
<1> QED BY <1>1, <1>2, <1>5, <1>6, <1>7 DEF ApiGoes, Calm

LEMMA NoReuseLasts ==
  ASSUME CalmInv, ApiGoes, Calm PROVE NoReuse'
<1>a. ApiInv /\ NoReuse
  BY DEF CalmInv, WebInv
<1>b. \A q \in DOMAIN pairs : pairs[q].sid \in DOMAIN sessions
  BY <1>a, PairsHaveSessions
<1>1. CASE UNCHANGED sessions
  BY <1>a, <1>1 DEF NoReuse
<1>2. ASSUME NEW sid \in DOMAIN sessions, NEW cause \in {"logout", "elsewhere"}, Revoke(sid, cause) PROVE NoReuse'
  <2>1. /\ DOMAIN sessions' = DOMAIN sessions
        /\ \A s \in DOMAIN sessions : sessions'[s].revoked \in {sessions[s].revoked, cause}
    BY <1>a, <1>2, Revokes
  <2> QED BY <1>a, <2>1 DEF NoReuse
<1>3. ASSUME NEW p \in DOMAIN pairs, Rotate(p) PROVE NoReuse'
  BY <1>a, <1>3, Renews DEF NoReuse
<1>4. ASSUME NEW p \in DOMAIN pairs, RefuseToken(p), flights[p].at = "out" PROVE NoReuse'
  <2>1. Exchanged(p, pairs, sessions) => Remembered(p)
    BY DEF CalmInv
  <2>2. ~Reused(p)
    BY <1>4, <2>1 DEF Reused, Exchanged, SessionOf, Remembered, Gone
  <2> QED BY <1>1, <1>4, <2>2 DEF RefuseToken
<1>5. ASSUME NEW p \in DOMAIN pairs, SignOut(p) PROVE NoReuse'
  BY <1>1, <1>2, <1>5, <1>b DEF SignOut
<1>6. ASSUME NEW u \in Users, SignIn(u) PROVE NoReuse'
  <2>1. /\ \A s \in DOMAIN sessions : sessions'[s] = sessions[s]
        /\ \A s \in DOMAIN sessions' : s \in DOMAIN sessions \/ sessions'[s].revoked = "no"
    BY <1>a, <1>6, SignsIn
  <2> QED BY <1>a, <2>1 DEF NoReuse
<1>7. ASSUME NEW s \in DOMAIN sessions, RevokeElsewhere(s) PROVE NoReuse'
  BY <1>2, <1>7 DEF RevokeElsewhere
<1> QED BY <1>1, <1>3, <1>4, <1>5, <1>6, <1>7 DEF ApiGoes, Calm

LEMMA GoneStays ==
  ASSUME WebInv, Shape, NEW p \in DOMAIN pairs, Gone(p) PROVE Gone(p)'
<1>1. p # 0 /\ p # New /\ p \in PairIds
  BY Numbered, NewIsNew DEF WebInv, ApiInv
<1>2. jar' # p
  <2>1. CASE UNCHANGED jar
    BY <2>1 DEF Gone
  <2>2. ASSUME NEW c \in Calls, Arrive(c) PROVE jar' # p
    <3>1. jar' \in {calls[c].fresh, 0, jar}
      BY <2>2 DEF Arrive
    <3> QED BY <1>1, <3>1 DEF Gone
  <2> QED BY <2>1, <2>2 DEF Shape
<1>3. flights'[p].at # "out"
  <2>1. FlightGoes(p)
    BY <1>1 DEF Shape
  <2> QED BY <2>1 DEF FlightGoes, Gone, NoFlight
<1>4. ASSUME NEW q \in PairIds PROVE flights'[q].got # p
  <2>1. FlightGoes(q) /\ flights[q].got # p
    BY DEF Shape, Gone
  <2> QED BY <1>1, <2>1 DEF FlightGoes, NoFlight
<1>5. ASSUME NEW c \in Calls PROVE calls'[c].fresh # p /\ (calls'[c].pair = p => calls'[c].fresh # 0)
  <2>1. calls[c].fresh # p /\ (calls[c].pair = p => calls[c].fresh # 0) /\ jar # p
    BY DEF Gone
  <2>2. FreshFrom(calls'[c]) => calls'[c].fresh # p
    BY <1>1 DEF FreshFrom, Gone
  <2>3. CASE calls'[c] = calls[c]
    BY <2>1, <2>3
  <2>4. CASE calls'[c] = Idle
    BY <1>1, <2>4 DEF Idle
  <2>5. CASE Begun(c, calls'[c])
    BY <1>1, <2>1, <2>2, <2>5 DEF Begun
  <2>6. CASE GoesOn(calls[c], calls'[c])
    BY <2>1, <2>2, <2>6 DEF GoesOn
  <2> QED BY <2>3, <2>4, <2>5, <2>6 DEF Shape, CallGoes
<1> QED BY <1>2, <1>3, <1>4, <1>5 DEF Gone

\* A flight is forgotten when nobody can ask for it: while it is calm there are no stragglers.
LEMMA ForgottenIsGone ==
  ASSUME WebInv, Shape, Calm', NEW p \in DOMAIN pairs, flights[p].at = "won" PROVE Remembered(p)'
<1>1. p # 0 /\ p # New /\ p \in PairIds
  BY Numbered, NewIsNew DEF WebInv, ApiInv
<1>2. FlightGoes(p)
  BY <1>1 DEF Shape
<1>3. CASE flights'[p].at = "won"
  BY <1>3 DEF Remembered
<1>4. CASE /\ flights'[p] = NoFlight /\ UNCHANGED <<jar, calls>> /\ \A r \in PairIds : flights[r].got # p
           /\ ~Straggler(p)
  <2>1. ASSUME NEW q \in PairIds PROVE flights'[q].got # p
    <3>1. FlightGoes(q) /\ flights[q].got # p
      BY <1>4 DEF Shape
    <3> QED BY <1>1, <3>1 DEF FlightGoes, NoFlight
  <2>2. jar' # p /\ \A c \in Calls : calls'[c].fresh # p /\ (calls'[c].pair = p => calls'[c].fresh # 0)
    BY <1>4 DEF Straggler
  <2>3. flights'[p].at # "out"
    BY <1>4 DEF NoFlight
  <2> QED BY <2>1, <2>2, <2>3 DEF Remembered, Gone
<1> QED BY <1>2, <1>3, <1>4 DEF FlightGoes, Calm

LEMMA CalmLasts == ASSUME CalmInv, [Next]_vars PROVE CalmInv'
<1>1. WebInv /\ KindsInv
  BY DEF CalmInv
<1>2. WebInv' /\ KindsInv' /\ Shape
  BY <1>1, StepShape
<1>3. ASSUME Calm' PROVE NoReuse' /\ \A p \in DOMAIN pairs' : Exchanged(p, pairs', sessions') => Remembered(p)'
  <2>1. Calm /\ ApiGoes
    BY <1>2, <1>3 DEF Shape, HistoryGoes, Calm
  <2>2. NoReuse'
    BY <2>1, NoReuseLasts
  <2>3. ASSUME NEW p \in DOMAIN pairs', Exchanged(p, pairs', sessions') PROVE Remembered(p)'
    <3>1. CASE ~Exchanged(p, pairs, sessions)
      BY <1>1, <1>3, <2>1, <2>3, <3>1, NewlyExchanged DEF Remembered
    <3>2. CASE Exchanged(p, pairs, sessions)
      <4>1. p \in DOMAIN pairs /\ Remembered(p)
        BY <2>1, <3>2 DEF Exchanged, CalmInv
      <4>2. CASE flights[p].at = "won"
        BY <1>1, <1>2, <1>3, <4>1, <4>2, ForgottenIsGone
      <4>3. CASE Gone(p)
        BY <1>1, <1>2, <4>1, <4>3, GoneStays DEF Remembered
      <4> QED BY <4>1, <4>2, <4>3 DEF Remembered
    <3> QED BY <3>1, <3>2
  <2> QED BY <2>2, <2>3
<1> QED BY <1>2, <1>3 DEF CalmInv

\* Tabs that refresh at the same time never look like a stolen token. The map makes
\* the second ask the first's flight, and forgets it only when nobody holds the pair
\* any more: an exchanged pair is in the map with its successor, or out of
\* everybody's hands (auth-session.ts 35-58, security.py 308-316).
THEOREM TabsAreNoThieves == Spec => []CalmSessionSurvives
<1>1. Init => CalmInv
  <2> SUFFICES ASSUME Init PROVE CalmInv
    OBVIOUS
  <2>1. DOMAIN sessions = {} /\ DOMAIN pairs = {}
    BY DEF Init, ApiInit
  <2>2. KindsInv
    BY DEF Init, KindsInv, OfItsKind, Idle
  <2> QED BY <2>1, <2>2, WebStart DEF CalmInv, NoReuse
<1>2. CalmInv /\ [Next]_vars => CalmInv'
  BY CalmLasts
<1>3. CalmInv => CalmSessionSurvives
  BY DEF CalmInv, CalmSessionSurvives, Calm, NoReuse
<1> QED BY <1>1, <1>2, <1>3, PTL DEF Spec

-----------------------------------------------------------------------------
(* Nobody acts with another person's session. *)

\* As long as the API heard every sign-out, nobody signed in over a session that
\* stood, and no branch was switched:
Good == switches = 0 /\ ~unheard /\ ~evicted

Ours(p)   == p # 0 /\ Live(p) => pairs[p].sid \in owner
Closed(p) == p = 0 \/ ~Live(p)

\* A call's new pair is of the session of its pair, and so is a flight's.
SameSession ==
  /\ \A c \in Calls : calls[c].pair # 0 /\ calls[c].fresh # 0 =>
       calls[c].fresh \in DOMAIN pairs /\ pairs[calls[c].fresh].sid = pairs[calls[c].pair].sid
  /\ \A q \in PairIds : flights[q].at = "won" =>
       /\ q \in DOMAIN pairs /\ flights[q].got \in DOMAIN pairs
       /\ pairs[flights[q].got].sid = pairs[q].sid

SignedOut == \A c \in Calls : calls[c].kind = "logout" /\ calls[c].at = "answered" => Closed(calls[c].pair)
OneLogin  == \A c, d \in Calls : calls[c].kind = "login" /\ calls[d].kind = "login" => c = d
AllOurs   == Ours(jar) /\ \A c \in Calls : Ours(calls[c].pair)

\* Who signs in finds nobody's session open: this is what evicted watches over.
Deserted  == (\E c \in Calls : calls[c].kind = "login") => Closed(jar) /\ \A c \in Calls : Closed(calls[c].pair)

OwnInv ==
  /\ WebInv /\ KindsInv /\ SameSession /\ OneLogin
  /\ switches = 0 => OneFamily
  /\ Good => SignedOut /\ AllOurs /\ Deserted

LEMMA SameSessionLasts == ASSUME WebInv, WebInv', Grows, Shape, SameSession PROVE SameSession'
<1>1. /\ DOMAIN pairs \subseteq DOMAIN pairs' /\ 0 \notin DOMAIN pairs
      /\ \A p \in DOMAIN pairs : pairs'[p] = pairs[p]
  BY DomainsGrow, NewIsNew DEF WebInv, Grows
<1>2. ASSUME NEW n, FreshFrom(n), n.pair # 0, n.pair \in DOMAIN pairs
      PROVE  n.fresh \in DOMAIN pairs' /\ pairs'[n.fresh].sid = pairs'[n.pair].sid
  BY <1>1, <1>2 DEF FreshFrom, SameSession
<1>3. ASSUME NEW c \in Calls, calls'[c].pair # 0, calls'[c].fresh # 0
      PROVE  calls'[c].fresh \in DOMAIN pairs' /\ pairs'[calls'[c].fresh].sid = pairs'[calls'[c].pair].sid
  <2>1. jar # 0 => jar \in DOMAIN pairs
    BY Numbered DEF WebInv, Rest, ApiInv
  <2>2. calls[c].pair # 0 => calls[c].pair \in DOMAIN pairs
    BY KnownCalls
  <2>3. CASE calls'[c] = calls[c]
    BY <1>1, <1>3, <2>2, <2>3 DEF SameSession
  <2>4. CASE calls'[c] = Idle
    BY <1>3, <2>4 DEF Idle
  <2>5. CASE Begun(c, calls'[c])
    BY <1>2, <1>3, <2>1, <2>5 DEF Begun
  <2>6. CASE GoesOn(calls[c], calls'[c])
    BY <1>1, <1>2, <1>3, <2>2, <2>6 DEF GoesOn, SameSession
  <2> QED BY <2>3, <2>4, <2>5, <2>6 DEF Shape, CallGoes
<1>4. ASSUME NEW q \in PairIds, flights'[q].at = "won"
      PROVE  /\ q \in DOMAIN pairs' /\ flights'[q].got \in DOMAIN pairs'
             /\ pairs'[flights'[q].got].sid = pairs'[q].sid
  <2>1. FlightGoes(q)
    BY DEF Shape
  <2>2. CASE flights'[q] = flights[q]
    BY <1>1, <1>4, <2>2 DEF SameSession
  <2>3. CASE flights'[q].got = New /\ q \in DOMAIN pairs /\ Rotate(q)
    BY <1>1, <2>3, Renews DEF WebInv
  <2> QED BY <1>4, <2>1, <2>2, <2>3 DEF FlightGoes, NoFlight
<1> QED BY <1>3, <1>4 DEF SameSession

LEMMA OneLoginLasts == ASSUME WebInv, Shape, OneLogin PROVE OneLogin'
<1>1. ASSUME NEW c \in Calls, NEW d \in Calls, calls'[c].kind = "login", calls'[d].kind = "login", c # d PROVE FALSE
  <2>1. ASSUME NEW e \in Calls, calls'[e].kind = "login", ~(Begun(e, calls'[e])) PROVE calls[e].kind = "login"
    BY <2>1 DEF Shape, CallGoes, GoesOn, Idle
  <2>2. ASSUME NEW e \in Calls, calls'[e].kind = "login", Begun(e, calls'[e]),
               NEW f \in Calls, f # e
        PROVE  calls'[f].kind # "login"
    BY <2>2 DEF Begun
  <2> QED BY <1>1, <2>1, <2>2 DEF OneLogin
<1> QED BY <1>1 DEF OneLogin

\* As long as no branch is switched, a session has one family.
LEMMA FamiliesLast ==
  ASSUME ApiInv, ApiInv', Grows, ApiGoes, switches = 0, OneFamily
  PROVE  OneFamily'
<1>b. \A p \in DOMAIN pairs : pairs'[p] = pairs[p] /\ pairs[p].sid \in DOMAIN sessions
  BY PairsHaveSessions DEF Grows
<1>c. ASSUME \A s \in DOMAIN sessions : sessions'[s].family = sessions[s].family
      PROVE  \A p \in DOMAIN pairs : pairs'[p].family = sessions'[pairs'[p].sid].family
  BY <1>b, <1>c DEF OneFamily, SessionOf
<1>1. CASE UNCHANGED <<sessions, pairs>>
  BY <1>1, <1>c DEF OneFamily, SessionOf
<1>2. ASSUME NEW p \in DOMAIN pairs, Rotate(p) PROVE OneFamily'
  <2>1. \A q \in DOMAIN pairs : pairs'[q].family = sessions'[pairs'[q].sid].family
    BY <1>2, <1>c, Renews
  <2>2. pairs'[New].family = sessions'[pairs'[New].sid].family
    BY <1>2, <1>b, Renews DEF OneFamily, SessionOf
  <2>3. \A q \in DOMAIN pairs' : q \in DOMAIN pairs \/ q = New
    BY <1>2, Renews
  <2> QED BY <2>1, <2>2, <2>3 DEF OneFamily, SessionOf
<1>3. ASSUME NEW p \in DOMAIN pairs, RefuseToken(p) \/ SignOut(p) PROVE OneFamily'
  <2>1. UNCHANGED pairs /\ (UNCHANGED sessions \/ \E cause \in {"logout", "reuse"} : Revoke(pairs[p].sid, cause))
    BY <1>3 DEF RefuseToken, SignOut
  <2>2. \A s \in DOMAIN sessions : sessions'[s].family = sessions[s].family
    BY <1>b, <2>1, Revokes
  <2> QED BY <1>c, <2>1, <2>2 DEF OneFamily, SessionOf
<1>5. ASSUME NEW u \in Users, SignIn(u) PROVE OneFamily'
  <2>1. \A q \in DOMAIN pairs : pairs'[q].family = sessions'[pairs'[q].sid].family
    BY <1>5, <1>c, SignsIn
  <2>2. /\ pairs'[New].family = sessions'[pairs'[New].sid].family
        /\ \A q \in DOMAIN pairs' : q \in DOMAIN pairs \/ q = New
    BY <1>5, SignsIn
  <2> QED BY <2>1, <2>2 DEF OneFamily, SessionOf
<1>6. ASSUME NEW s \in DOMAIN sessions, RevokeElsewhere(s) PROVE OneFamily'
  <2>1. Revoke(s, "elsewhere") /\ UNCHANGED pairs
    BY <1>6 DEF RevokeElsewhere
  <2>2. \A r \in DOMAIN sessions : sessions'[r].family = sessions[r].family
    BY <2>1, Revokes
  <2> QED BY <1>c, <2>1, <2>2 DEF OneFamily, SessionOf
<1> QED BY <1>1, <1>2, <1>3, <1>5, <1>6 DEF ApiGoes

-----------------------------------------------------------------------------
LEMMA FreshLikePair ==
  ASSUME WebInv, SameSession, OneFamily, NEW c \in Calls, calls[c].pair # 0
  PROVE  /\ Ours(calls[c].pair) => Ours(calls[c].fresh)
         /\ Closed(calls[c].pair) => Closed(calls[c].fresh)
<1>1. calls[c].pair \in DOMAIN pairs
  BY KnownCalls
<1>2. CASE calls[c].fresh = 0
  BY <1>2 DEF Ours, Closed
<1>3. CASE calls[c].fresh # 0
  <2>1. calls[c].fresh \in DOMAIN pairs /\ pairs[calls[c].fresh].sid = pairs[calls[c].pair].sid
    BY <1>3 DEF SameSession
  <2> QED BY <1>1, <2>1 DEF Ours, Closed, Live, OneFamily, SessionOf
<1> QED BY <1>2, <1>3

LEMMA TokensFall ==
  ASSUME LivesFall, NEW p, p = 0 \/ p \in DOMAIN pairs
  PROVE  /\ Closed(p) => p = 0 \/ ~LiveNext(p)
         /\ Ours(p) /\ p # 0 /\ LiveNext(p) => pairs'[p] = pairs[p] /\ pairs[p].sid \in owner
BY DEF LivesFall, Closed, Ours, LiveNext, Live, SessionOf

LEMMA KnownPairs == ASSUME WebInv PROVE (jar = 0 \/ jar \in DOMAIN pairs) /\ \A c \in Calls : calls[c].pair = 0 \/ calls[c].pair \in DOMAIN pairs
BY KnownCalls, Numbered DEF WebInv, Rest, ApiInv

\* The response to a call arrives.
LEMMA OwnArrives ==
  ASSUME OwnInv, Good, NEW c \in Calls, Arrive(c) PROVE (SignedOut /\ AllOurs /\ Deserted)'
<1>a. WebInv /\ SameSession /\ OneLogin /\ OneFamily /\ SignedOut /\ AllOurs /\ Deserted
  BY DEF OwnInv, Good
<1>b. /\ UNCHANGED <<sessions, pairs>> /\ calls' = [calls EXCEPT ![c] = Idle] /\ calls \in [Calls -> Call]
      /\ jar' \in {jar, 0, calls[c].fresh} /\ owner' = SignedInBy(c) /\ calls[c].at = "answered"
  BY <1>a DEF Arrive, Step, WebInv, apiVars
<1>c. /\ calls'[c] = Idle /\ Idle.kind = "work" /\ Idle.pair = 0
      /\ \A d \in Calls : d # c => calls'[d] = calls[d]
  BY <1>b DEF Idle
<1>d. SignedOut'
  BY <1>a, <1>b, <1>c DEF SignedOut, Closed, Live, SessionOf
<1>e. calls[c].kind # "login" => calls[c].pair # 0
  BY <1>a, <1>b, KnownCalls DEF CallOK
<1>1. CASE calls[c].kind = "login" /\ calls[c].fresh # 0
  <2>1. owner' = {pairs[calls[c].fresh].sid}
    BY <1>1, <1>b DEF SignedInBy
  <2>2. Closed(jar) /\ \A d \in Calls : Closed(calls[d].pair)
    BY <1>1, <1>a DEF Deserted
  <2>3. AllOurs'
    BY <1>b, <1>c, <2>1, <2>2 DEF AllOurs, Ours, Closed, Live, SessionOf
  <2>4. \A d \in Calls : calls'[d].kind # "login"
    BY <1>1, <1>a, <1>c DEF OneLogin
  <2>5. Deserted'
    BY <2>4 DEF Deserted
  <2> QED BY <1>d, <2>3, <2>5
<1>2. CASE ~(calls[c].kind = "login" /\ calls[c].fresh # 0)
  <2>1. Ours(jar') /\ (Closed(jar) /\ Closed(calls[c].pair) => Closed(jar'))
    <3>1. Ours(jar) /\ Ours(calls[c].pair) /\ Ours(0) /\ Closed(0)
      BY <1>a DEF AllOurs, Ours, Closed
    <3>2. Ours(calls[c].fresh) /\ (Closed(calls[c].pair) => Closed(calls[c].fresh))
      <4>1. CASE calls[c].fresh = 0
        BY <3>1, <4>1
      <4>2. CASE calls[c].fresh # 0
        BY <1>2, <1>a, <1>e, <3>1, <4>2, FreshLikePair
      <4> QED BY <4>1, <4>2
    <3> QED BY <1>b, <3>1, <3>2
  <2> DEFINE j == jar'
  <2>2. ASSUME NEW p, Ours(p), p # 0, p = 0 \/ p \in DOMAIN pairs, Live(p) PROVE pairs[p].sid \in owner'
    <3>1. pairs[p].sid \in owner /\ p \in DOMAIN pairs
      BY <2>2 DEF Ours
    <3>2. CASE calls[c].kind = "logout"
      <4>1. owner' = owner \ {pairs[calls[c].pair].sid}
        BY <1>b, <3>2 DEF SignedInBy
      <4>2. ~Live(calls[c].pair) /\ calls[c].pair \in DOMAIN pairs
        BY <1>a, <1>b, <1>e, <3>2, KnownPairs DEF SignedOut, Closed
      <4>3. pairs[p].sid # pairs[calls[c].pair].sid
        BY <1>a, <2>2, <3>1, <4>2 DEF OneFamily, Live, SessionOf
      <4> QED BY <3>1, <4>1, <4>3
    <3>3. CASE calls[c].kind # "logout"
      BY <1>2, <1>b, <3>1, <3>3 DEF SignedInBy
    <3> QED BY <3>2, <3>3
  <2>3. j = 0 \/ j \in DOMAIN pairs
    <3>1. calls[c].fresh = 0 \/ calls[c].fresh \in DOMAIN pairs
      BY <1>a, KnownCalls
    <3> QED BY <1>a, <1>b, <3>1, KnownPairs
  <2>4. Ours(jar)'
    <3>1. j # 0 /\ Live(j) => pairs[j].sid \in owner'
      BY <2>1, <2>2, <2>3
    <3> QED BY <1>b, <3>1 DEF Ours, Live, SessionOf
  <2>5. ASSUME NEW d \in Calls PROVE Ours(calls[d].pair)'
    <3>1. CASE d = c
      BY <1>c, <3>1 DEF Ours
    <3>2. CASE d # c
      <4>1. calls[d].pair # 0 /\ Live(calls[d].pair) => pairs[calls[d].pair].sid \in owner'
        BY <1>a, <2>2, KnownPairs DEF AllOurs
      <4> QED BY <1>b, <1>c, <3>2, <4>1 DEF Ours, Live, SessionOf
    <3> QED BY <3>1, <3>2
  <2>6. Deserted'
    <3> SUFFICES ASSUME NEW d \in Calls, calls'[d].kind = "login"
                 PROVE  Closed(jar)' /\ \A e \in Calls : Closed(calls[e].pair)'
      BY DEF Deserted
    <3>1. calls[d].kind = "login"
      BY <1>c
    <3>2. Closed(jar) /\ \A e \in Calls : Closed(calls[e].pair)
      BY <1>a, <3>1 DEF Deserted
    <3>3. Closed(jar') /\ Closed(0)
      BY <2>1, <3>2 DEF Closed
    <3>4. Closed(jar)'
      BY <1>b, <3>3 DEF Closed, Live, SessionOf
    <3>5. ASSUME NEW e \in Calls PROVE Closed(calls[e].pair)'
      BY <1>b, <1>c, <3>2 DEF Closed, Live, SessionOf
    <3> QED BY <3>4, <3>5
  <2> QED BY <1>d, <2>4, <2>5, <2>6 DEF AllOurs
<1> QED BY <1>1, <1>2

\* The cookies stay.
LEMMA OwnStays ==
  ASSUME OwnInv, Good, Good', Shape, LivesFall, UNCHANGED <<jar, owner>>
  PROVE  (SignedOut /\ AllOurs /\ Deserted)'
<1>a. WebInv /\ SignedOut /\ AllOurs /\ Deserted
  BY DEF OwnInv
<1>b. (jar = 0 \/ jar \in DOMAIN pairs) /\ \A c \in Calls : calls[c].pair = 0 \/ calls[c].pair \in DOMAIN pairs
  BY <1>a, KnownPairs
<1>1. /\ jar' = jar /\ Ours(jar)
      /\ jar # 0 /\ LiveNext(jar) => pairs'[jar] = pairs[jar] /\ pairs[jar].sid \in owner
      /\ Closed(jar) => jar = 0 \/ ~LiveNext(jar)
  BY <1>a, <1>b, TokensFall DEF AllOurs
<1>2. ASSUME NEW c \in Calls
      PROVE  /\ calls[c].pair # 0 /\ LiveNext(calls[c].pair) =>
                  pairs'[calls[c].pair] = pairs[calls[c].pair] /\ pairs[calls[c].pair].sid \in owner
             /\ Closed(calls[c].pair) => calls[c].pair = 0 \/ ~LiveNext(calls[c].pair)
  <2> DEFINE p == calls[c].pair
  <2>1. Ours(p) /\ (p = 0 \/ p \in DOMAIN pairs)
    BY <1>a, <1>b DEF AllOurs
  <2> HIDE DEF p
  <2>2. /\ p # 0 /\ LiveNext(p) => pairs'[p] = pairs[p] /\ pairs[p].sid \in owner
        /\ Closed(p) => p = 0 \/ ~LiveNext(p)
    BY <2>1, TokensFall
  <2> QED BY <2>2 DEF p
<1>3. ASSUME NEW c \in Calls
      PROVE  calls'[c].pair \in {calls[c].pair, jar, 0}
  BY DEF Shape, CallGoes, Begun, GoesOn, Idle
<1>4. Ours(jar)'
  BY <1>1 DEF Ours, LiveNext, Live, SessionOf
<1>5. ASSUME NEW c \in Calls PROVE Ours(calls[c].pair)'
  <2> DEFINE n == calls'[c].pair
  <2>1. n # 0 /\ LiveNext(n) => pairs'[n].sid \in owner
    BY <1>1, <1>2, <1>3
  <2> QED BY <2>1 DEF Ours, LiveNext, Live, SessionOf
<1>6. SignedOut'
  <2> SUFFICES ASSUME NEW c \in Calls, calls'[c].kind = "logout", calls'[c].at = "answered"
               PROVE  calls'[c].pair = 0 \/ ~LiveNext(calls'[c].pair)
    BY DEF SignedOut, Closed, LiveNext, Live, SessionOf
  <2>1. CASE calls'[c] = calls[c]
    BY <1>2, <1>a, <2>1 DEF SignedOut
  <2>2. CASE calls'[c] = Idle
    BY <2>2 DEF Idle
  <2>3. CASE Begun(c, calls'[c])
    BY <2>3 DEF Begun
  <2>4. CASE GoesOn(calls[c], calls'[c])
    BY <1>2, <1>a, <2>4 DEF GoesOn, SignedOut, Good
  <2> QED BY <2>1, <2>2, <2>3, <2>4 DEF Shape, CallGoes
<1>7. Deserted'
  <2> SUFFICES ASSUME NEW c \in Calls, calls'[c].kind = "login"
               PROVE  /\ jar = 0 \/ ~LiveNext(jar)
                      /\ \A d \in Calls : calls'[d].pair = 0 \/ ~LiveNext(calls'[d].pair)
    BY DEF Deserted, Closed, LiveNext, Live, SessionOf
  <2>1. CASE Begun(c, calls'[c])
    <3>1. jar = 0 /\ calls'[c].pair = 0 /\ \A d \in Calls : d # c => calls'[d] = calls[d]
      BY <2>1 DEF Begun
    <3>2. Standing = {}
      BY <2>1 DEF Begun, Good
    <3>3. ASSUME NEW d \in Calls PROVE Closed(calls[d].pair)
      BY <1>a, <3>2 DEF AllOurs, Ours, Closed, Standing, Live, SessionOf
    <3> QED BY <1>2, <3>1, <3>3
  <2>2. CASE ~Begun(c, calls'[c])
    <3>1. calls[c].kind = "login"
      BY <2>2 DEF Shape, CallGoes, GoesOn, Idle
    <3>2. Closed(jar) /\ \A d \in Calls : Closed(calls[d].pair)
      BY <1>a, <3>1 DEF Deserted
    <3> QED BY <1>1, <1>2, <1>3, <3>2
  <2> QED BY <2>1, <2>2
<1> QED BY <1>4, <1>5, <1>6, <1>7 DEF AllOurs

LEMMA OwnLasts == ASSUME OwnInv, [Next]_vars PROVE OwnInv'
<1>1. WebInv /\ KindsInv /\ SameSession /\ OneLogin
  BY DEF OwnInv
<1>2. WebInv' /\ KindsInv' /\ Shape /\ Grows /\ LivesFall
  BY <1>1, StepShape
<1>3. SameSession' /\ OneLogin'
  BY <1>1, <1>2, SameSessionLasts, OneLoginLasts
<1>4. ASSUME switches' = 0 PROVE switches = 0 /\ OneFamily'
  <2>1. switches = 0 /\ ApiGoes /\ OneFamily
    BY <1>2, <1>4 DEF Shape, HistoryGoes, OwnInv
  <2> QED BY <1>1, <1>2, <2>1, FamiliesLast DEF WebInv
<1>5. ASSUME Good' PROVE (SignedOut /\ AllOurs /\ Deserted)'
  <2>1. Good
    BY <1>2, <1>5 DEF Shape, HistoryGoes, Good
  <2>2. CASE UNCHANGED <<jar, owner>>
    BY <1>2, <1>5, <2>1, <2>2, OwnStays
  <2>3. CASE \E c \in Calls : Arrive(c)
    BY <2>1, <2>3, OwnArrives
  <2> QED BY <1>2, <2>2, <2>3 DEF Shape
<1> QED BY <1>2, <1>3, <1>4, <1>5 DEF OwnInv

\* Whatever the browser holds or a handler acts with is dead or of the person who
\* signed in last: what a late answer puts into the cookies is of the session of the
\* call it answers, and a sign-in begins only when nobody's session stands
\* (logout/route.ts 33-57, auth-session.ts 70-98, api/auth.py 893-928).
THEOREM CookiesAreTheirOwners == Spec => []NobodyElse
<1>1. Init => OwnInv
  <2> SUFFICES ASSUME Init PROVE OwnInv
    OBVIOUS
  <2>1. DOMAIN pairs = {} /\ jar = 0
    BY DEF Init, ApiInit
  <2>2. \A c \in Calls : calls[c].kind = "work" /\ calls[c].pair = 0 /\ calls[c].at = "idle"
    BY DEF Init, Idle
  <2>3. \A q \in PairIds : flights[q].at = "none"
    BY DEF Init, NoFlight
  <2>4. KindsInv /\ SameSession /\ OneLogin
    BY <2>2, <2>3 DEF KindsInv, OfItsKind, SameSession, OneLogin
  <2>5. SignedOut /\ AllOurs /\ Deserted
    BY <2>1, <2>2 DEF SignedOut, AllOurs, Deserted, Ours
  <2> QED BY <2>1, <2>4, <2>5, WebStart DEF OwnInv, OneFamily
<1>2. OwnInv /\ [Next]_vars => OwnInv'
  BY OwnLasts
<1>3. OwnInv => NobodyElse
  <2> SUFFICES ASSUME OwnInv, switches = 0, ~unheard, ~evicted, NEW p \in Held \ {0}, Live(p)
               PROVE  pairs[p].sid \in owner
    BY DEF NobodyElse
  <2>1. WebInv /\ SameSession /\ OneFamily /\ AllOurs
    BY DEF OwnInv, Good
  <2>2. CASE p = jar
    BY <2>1, <2>2 DEF AllOurs, Ours
  <2>3. ASSUME NEW c \in Calls, calls[c].kind # "login", p \in {calls[c].pair, calls[c].fresh}
        PROVE  pairs[p].sid \in owner
    <3>1. Ours(calls[c].pair)
      BY <2>1 DEF AllOurs
    <3>2. CASE calls[c].pair # 0
      BY <2>1, <2>3, <3>1, <3>2, FreshLikePair DEF Ours
    <3>3. CASE calls[c].pair = 0
      <4>1. calls[c].at = "idle" /\ calls[c].fresh = 0
        BY <2>1, <2>3, <3>3, KnownCalls DEF CallOK
      <4> QED BY <2>3, <3>3, <4>1
    <3> QED BY <3>2, <3>3
  <2> QED BY <2>2, <2>3 DEF Held
<1> QED BY <1>1, <1>2, <1>3, PTL DEF Spec
=============================================================================

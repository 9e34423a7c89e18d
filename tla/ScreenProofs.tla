---------------------------- MODULE ScreenProofs ----------------------------
(***************************************************************************)
(* What a page needs of its commands to show everything they reported as    *)
(* done, whatever is fetched, polled, left and reopened meanwhile: that     *)
(* every command refreshes what it changes on the page (Thorough).          *)
(***************************************************************************)
EXTENDS Screens, TLAPS

\* A command refreshes the answers it changes beside it, and where it is several
\* requests also when only the first of them was done.
Refreshing(e) == e.changes /\ e.due => e.refreshes /\ (e.partial => e.mends)
Thorough == \A q \in Queries : \A e \in Screen(q).own : Refreshing(e)

-----------------------------------------------------------------------------
\* Nothing on the way to the page is older than what was reported, or newer than
\* the data of the API.
NothingOld ==
  /\ own <= truth /\ cache <= truth
  /\ call.at = "done" => own <= call.version /\ call.version <= truth
  /\ fetch.at = "served" => own <= fetch.version /\ fetch.version <= truth

\* An answer that is older than a report is known to be.
OldIsStale == cache # None /\ cache < own => stale

ScreenInv == /\ ScreensTypeOK /\ NothingOld /\ OldIsStale /\ OwnChangesAreShown
             /\ \A e \in screen.own : Refreshing(e)

-----------------------------------------------------------------------------
LEMMA EffectsAreTyped ==
  ASSUME NEW q \in Queries
  PROVE  Screen(q) \in [polls : BOOLEAN, watched : BOOLEAN, own : SUBSET Effects]
<1>1. ASSUME NEW c \in Commands PROVE Effect(c, q) \in Effects
  BY <1>1, ScreenAssumption DEF Effect, Effects, Changes, Refreshed
<1> QED BY <1>1, ScreenAssumption DEF Screen

LEMMA Records ==
  /\ 0 \in Versions /\ Versions \subseteq Nat /\ None \notin Versions
  /\ NoFetch \in Fetches
  /\ \A v \in Versions : [at |-> "asked", version |-> v] \in Fetches
  /\ \A v \in Versions : [at |-> "served", version |-> v] \in Fetches
  /\ NoCall \in Calls
  /\ \A e \in Effects : [at |-> "sent", version |-> 0, does |-> e] \in Calls
BY ScreenAssumption DEF Versions, Fetches, NoFetch, Calls, NoCall, None

\* A call under way has an effect of this screen.
LEMMA CallsAreOwn ==
  ASSUME ScreensTypeOK, call.at \in {"sent", "done"}
  PROVE  /\ call \in [at : {"sent", "done"}, version : Versions, does : Effects]
         /\ call # NoCall /\ call.does \in screen.own /\ call.does \in Effects
<1>1. call # NoCall
  BY DEF NoCall
<1>2. call \in [at : {"sent", "done"}, version : Versions, does : Effects]
  BY <1>1 DEF ScreensTypeOK, Calls
<1> QED BY <1>1, <1>2 DEF ScreensTypeOK

LEMMA ScreensStart == ASSUME Thorough, Init PROVE ScreenInv
<1>1. PICK q \in Queries : screen = Screen(q)
  BY DEF Init
<1>2. ScreensTypeOK
  <2>1. screen \in [polls : BOOLEAN, watched : BOOLEAN, own : SUBSET Effects]
    BY <1>1, EffectsAreTyped
  <2>2. truth \in Versions /\ own \in Versions /\ fetch \in Fetches /\ call \in Calls /\ call = NoCall
    BY Records DEF Init
  <2>3. troubles \in 0..MaxTroubles
    BY ScreenAssumption DEF Init
  <2> QED BY <2>1, <2>2, <2>3 DEF Init, ScreensTypeOK
<1>3. NothingOld /\ OldIsStale /\ OwnChangesAreShown
  BY DEF Init, NothingOld, OldIsStale, OwnChangesAreShown, None, NoFetch, NoCall
<1> QED BY <1>1, <1>2, <1>3 DEF Thorough, ScreenInv

-----------------------------------------------------------------------------
\* The types, under every step.
LEMMA TypesLast ==
  ASSUME ScreensTypeOK, [Next]_vars PROVE ScreensTypeOK'
<1> USE Records DEF ScreensTypeOK, Start
<1>1. CASE Visit    BY <1>1 DEF Visit
<1>2. CASE Leave    BY <1>2 DEF Leave
<1>3. CASE Send
  <2>1. PICK e \in screen.own : call' = [at |-> "sent", version |-> 0, does |-> e]
    BY <1>3 DEF Send
  <2>2. call' \in Calls /\ call'.does \in screen.own
    BY <2>1
  <2> QED BY <1>3, <2>2 DEF Send
<1>4. CASE Age \/ Collect \/ Poll
  BY <1>4 DEF Age, Collect, Poll
<1>5. CASE Nudge    BY <1>5 DEF Nudge, Outdate
<1>6. CASE Commit
  <2>1. truth' \in Versions
    BY <1>6, ScreenAssumption DEF Commit, Versions
  <2>2. call' \in Calls /\ call'.does = call.does /\ call.does \in screen.own
    BY <1>6, <2>1, CallsAreOwn DEF Commit, Calls
  <2> QED BY <1>6, <2>1, <2>2 DEF Commit
<1>7. CASE OtherWrite
  BY <1>7, ScreenAssumption DEF OtherWrite, Versions
<1>8. CASE Serve    BY <1>8 DEF Serve
<1>9. CASE Show
  <2>1. fetch.version \in Versions
    BY DEF Fetches
  <2> QED BY <1>9, <2>1 DEF Show
<1>10. CASE FetchFails BY <1>10, ScreenAssumption DEF FetchFails
<1>11. CASE Succeed
  <2>1. call.does \in Effects /\ call.version \in Versions /\ call.does \in screen.own
    BY <1>11, CallsAreOwn DEF Succeed
  <2>2. Filled \in Versions \cup {None} /\ (own' \in Versions) /\ stale' \in BOOLEAN /\ failed' \in BOOLEAN
    BY <1>11, <2>1 DEF Succeed, Filled, Effects
  <2> QED BY <1>11, <2>2 DEF Succeed
<1>12. CASE Fail    BY <1>12 DEF Fail, Outdate
<1>13. CASE Break
  <2>1. call.version \in Versions
    BY <1>13, CallsAreOwn DEF Break
  <2> QED BY <1>13, <2>1 DEF Break, Outdate
<1>14. CASE UNCHANGED vars BY <1>14 DEF vars
<1> QED BY <1>1, <1>2, <1>3, <1>4, <1>5, <1>6, <1>7, <1>8, <1>9, <1>10, <1>11, <1>12, <1>13, <1>14 DEF Next

\* Pages, timers and the API.
LEMMA PageKeepsUp ==
  ASSUME ScreenInv, ScreensTypeOK',
         Visit \/ Leave \/ Send \/ Age \/ Collect \/ Poll \/ Nudge \/ Commit \/ OtherWrite \/ Serve
  PROVE  ScreenInv'
<1> USE ScreenAssumption
        DEF ScreenInv, ScreensTypeOK, NothingOld, OldIsStale, OwnChangesAreShown, Versions, None,
            NoFetch, NoCall, Start
<1>1. CASE Visit  BY <1>1 DEF Visit
<1>2. CASE Leave  BY <1>2 DEF Leave
<1>3. CASE Send   BY <1>3 DEF Send
<1>4. CASE Age \/ Collect \/ Poll
  BY <1>4 DEF Age, Collect, Poll
<1>5. CASE Nudge  BY <1>5 DEF Nudge, Outdate, Loading
<1>6. CASE Commit
  <2>1. truth <= truth'
    BY <1>6 DEF Commit
  <2>2. call'.at = "done" /\ call'.version = truth'
    BY <1>6, CallsAreOwn DEF Commit
  <2> QED BY <1>6, <2>1, <2>2 DEF Commit, Fetches
<1>7. CASE OtherWrite
  BY <1>7, CallsAreOwn DEF OtherWrite, Fetches
<1>8. CASE Serve
  BY <1>8 DEF Serve
<1> QED BY <1>1, <1>2, <1>3, <1>4, <1>5, <1>6, <1>7, <1>8

\* Answers that arrive.
LEMMA AnswersKeepUp ==
  ASSUME ScreenInv, ScreensTypeOK', Show \/ FetchFails \/ Succeed \/ Fail \/ Break
  PROVE  ScreenInv'
<1> USE ScreenAssumption
        DEF ScreenInv, ScreensTypeOK, NothingOld, OldIsStale, OwnChangesAreShown, Versions, None,
            NoFetch, NoCall, Start
<1>1. CASE Show \/ FetchFails
  BY <1>1 DEF Show, FetchFails
<1>2. CASE Succeed
  <2>1. call.does \in Effects /\ call.version \in Versions /\ Refreshing(call.does)
    BY <1>2, CallsAreOwn DEF Succeed
  <2>2. CASE Told
    BY <1>2, <2>1, <2>2 DEF Succeed, Filled, Told, Refreshing, Effects
  <2>3. CASE ~Told
    BY <1>2, <2>1, <2>3 DEF Succeed, Filled, Effects
  <2> QED BY <2>2, <2>3
<1>3. CASE Fail
  BY <1>3 DEF Fail, Outdate, Loading
<1>4. CASE Break
  <2>1. call.does \in Effects /\ call.version \in Versions /\ Refreshing(call.does)
    BY <1>4, CallsAreOwn DEF Break
  <2>2. CASE Told
    BY <1>4, <2>1, <2>2 DEF Break, Told, Refreshing, Outdate, Loading
  <2>3. CASE ~Told
    BY <1>4, <2>3 DEF Break, Outdate, Loading
  <2> QED BY <2>2, <2>3
<1> QED BY <1>1, <1>2, <1>3, <1>4

LEMMA ScreensKeepUp == ASSUME ScreenInv, [Next]_vars PROVE ScreenInv'
<1>1. ScreensTypeOK'
  BY TypesLast DEF ScreenInv
<1>2. CASE UNCHANGED vars
  BY <1>2 DEF vars, ScreenInv, ScreensTypeOK, NothingOld, OldIsStale, OwnChangesAreShown
<1> QED BY <1>1, <1>2, PageKeepsUp, AnswersKeepUp DEF Next

-----------------------------------------------------------------------------
\* On pages whose commands refresh what they change, nothing that was reported as
\* done is ever missing: no fetch that was under way, no poll, no visit after the
\* cache was left to age brings back an answer of before (the onSuccess and onError
\* handlers of all mutations).
THEOREM ReportedIsShown == ASSUME Thorough PROVE Spec => []OwnChangesAreShown
<1>1. Init => ScreenInv
  BY ScreensStart
<1>2. ScreenInv /\ [Next]_vars => ScreenInv'
  BY ScreensKeepUp
<1>3. ScreenInv => OwnChangesAreShown
  BY DEF ScreenInv
<1> QED BY <1>1, <1>2, <1>3, PTL DEF Spec
=============================================================================

------------------------------ MODULE Screens ------------------------------
(***************************************************************************)
(* What a page of the web application (apps/web) shows of the server's      *)
(* data. Every page keeps the answers of its queries in the react-query     *)
(* cache; its commands say in their handlers which answers they outdate.    *)
(* The module follows one query, whichever of Queries it is, while the      *)
(* person at the page comes and goes and gives commands and other people    *)
(* change the same data.                                                    *)
(***************************************************************************)
EXTENDS ScreenData

CONSTANTS
  Queries, Commands,   \* of all pages, as ScreenData describes them
  Overlooked,          \* <<command, query>>: it changes what the query shows and leaves it alone
  Watched,             \* queries that are to show other people's changes by themselves
  MaxWrites,           \* bound on changes of what the query shows
  MaxTroubles          \* bound on fetches that fail for good

ASSUME ScreenAssumption ==
  /\ \A q \in Queries : q.polls \in BOOLEAN
  /\ \A c \in Commands : c.partial \in BOOLEAN
  /\ MaxWrites \in Nat /\ MaxTroubles \in Nat

VARIABLES
  screen,     \* what is to be known of the query (Screen)
  mounted,    \* its page is open
  truth,      \* versions of what it shows, at the API
  cache,      \* the version in the cache, None for no data
  stale,      \* invalidated, or older than its staleTime
  fetch,      \* the fetch under way and the version it was answered with
  call,       \* the command under way
  own,        \* history: the version of the last own command that reported success
  failed,     \* the last fetch failed, and the page says so
  troubles    \* history: failed fetches

vars == <<screen, mounted, truth, cache, stale, fetch, call, own, failed, troubles>>

-----------------------------------------------------------------------------
(* Queries and commands                                                      *)

\* A key is matched by its prefixes (invalidateQueries).
Begins(prefix, key)   == /\ Len(prefix) <= Len(key)
                         /\ \A i \in 1..Len(prefix) : prefix[i] = key[i]
Refreshed(keys, q)    == \E prefix \in keys : Begins(prefix, q.key)
Changes(c, q)         == c.writes \cap q.reads # {}
Beside(c, q)          == c.on \cap q.on # {}

\* What a command does to the screen of a query beside it. due: the screen is to
\* show it.
Effect(c, q) ==
  [changes |-> Changes(c, q), due |-> <<c, q>> \notin Overlooked,
   refreshes |-> Refreshed(c.refreshes, q), fills |-> q.key \in c.fills,
   partial |-> c.partial, mends |-> Refreshed(c.failing, q)]
Effects == [changes : BOOLEAN, due : BOOLEAN, refreshes : BOOLEAN, fills : BOOLEAN,
            partial : BOOLEAN, mends : BOOLEAN]

Screen(q) == [polls |-> q.polls, watched |-> q \in Watched,
              own |-> {Effect(c, q) : c \in {d \in Commands : Beside(d, q)}}]

-----------------------------------------------------------------------------
None     == -1
Versions == 0..MaxWrites
NoFetch  == [at |-> "idle", version |-> 0]
NoCall   == [at |-> "none", version |-> 0]
Fetches  == [at : {"idle", "asked", "served"}, version : Versions]
Calls    == {NoCall} \cup [at : {"sent", "done"}, version : Versions, does : Effects]

ScreensTypeOK ==
  /\ screen \in [polls : BOOLEAN, watched : BOOLEAN, own : SUBSET Effects]
  /\ mounted \in BOOLEAN /\ stale \in BOOLEAN /\ failed \in BOOLEAN
  /\ truth \in Versions /\ own \in Versions
  /\ cache \in Versions \cup {None}
  /\ fetch \in Fetches
  /\ call \in Calls /\ (call # NoCall => call.does \in screen.own)
  /\ troubles \in 0..MaxTroubles

Init ==
  /\ screen \in {Screen(q) : q \in Queries}
  /\ mounted = FALSE /\ truth = 0 /\ cache = None /\ stale = FALSE
  /\ fetch = NoFetch /\ call = NoCall /\ own = 0 /\ failed = FALSE /\ troubles = 0

Start   == fetch' = [at |-> "asked", version |-> 0]
Loading == cache = None /\ fetch.at # "idle"

-----------------------------------------------------------------------------
(* The person at the page                                                    *)

\* A page that opens fetches what it has not got or what is stale, unless a
\* fetch is still under way.
Visit ==
  /\ ~mounted /\ mounted' = TRUE
  /\ IF fetch.at = "idle" /\ (cache = None \/ stale) THEN Start ELSE UNCHANGED fetch
  /\ UNCHANGED <<screen, truth, cache, stale, call, own, failed, troubles>>

\* A fetch that takes the signal is given up with its page, another one goes on.
Leave ==
  /\ mounted /\ mounted' = FALSE
  /\ fetch' \in {fetch, NoFetch}
  /\ UNCHANGED <<screen, truth, cache, stale, call, own, failed, troubles>>

Send ==
  /\ call.at = "none"
  /\ \E e \in screen.own : call' = [at |-> "sent", version |-> 0, does |-> e]
  /\ UNCHANGED <<screen, mounted, truth, cache, stale, fetch, own, failed, troubles>>

-----------------------------------------------------------------------------
(* Time and the cache                                                        *)

\* staleTime.
Age ==
  /\ cache # None /\ ~stale /\ stale' = TRUE
  /\ UNCHANGED <<screen, mounted, truth, cache, fetch, call, own, failed, troubles>>

\* gcTime: what no page has shown for half an hour is dropped.
Collect ==
  /\ ~mounted /\ fetch.at = "idle" /\ cache # None
  /\ cache' = None /\ stale' = FALSE /\ failed' = FALSE
  /\ UNCHANGED <<screen, mounted, truth, fetch, call, own, troubles>>

\* refetchInterval. An interval that ends during a fetch adds none.
Poll ==
  /\ mounted /\ screen.polls /\ fetch.at = "idle" /\ Start
  /\ UNCHANGED <<screen, mounted, truth, cache, stale, call, own, failed, troubles>>

\* invalidateQueries: the answer is stale, and on an open page fetched anew, in
\* place of a fetch under way. Only a first load is not started over.
Outdate ==
  /\ stale' = TRUE
  /\ IF mounted /\ ~Loading THEN Start ELSE UNCHANGED fetch

\* Somebody else's refresh: an event of the branch, a socket that is up again,
\* the button of the page.
Nudge ==
  /\ Outdate
  /\ UNCHANGED <<screen, mounted, truth, cache, call, own, failed, troubles>>

-----------------------------------------------------------------------------
(* The API                                                                   *)

\* A command is done, and changes what the query shows or something else.
Commit ==
  /\ call.at = "sent"
  /\ truth' = IF call.does.changes THEN truth + 1 ELSE truth
  /\ truth' <= MaxWrites
  /\ call' = [call EXCEPT !.at = "done", !.version = truth']
  /\ UNCHANGED <<screen, mounted, cache, stale, fetch, own, failed, troubles>>

\* Other people's commands.
OtherWrite ==
  /\ truth < MaxWrites /\ truth' = truth + 1
  /\ UNCHANGED <<screen, mounted, cache, stale, fetch, call, own, failed, troubles>>

Serve ==
  /\ fetch.at = "asked" /\ fetch' = [at |-> "served", version |-> truth]
  /\ UNCHANGED <<screen, mounted, truth, cache, stale, call, own, failed, troubles>>

-----------------------------------------------------------------------------
(* Answers arrive                                                            *)

Show ==
  /\ fetch.at = "served" /\ fetch' = NoFetch
  /\ cache' = fetch.version /\ stale' = FALSE /\ failed' = FALSE
  /\ UNCHANGED <<screen, mounted, truth, call, own, troubles>>

\* shouldRetry has no further try: the page shows the error.
FetchFails ==
  /\ fetch.at # "idle" /\ troubles < MaxTroubles
  /\ fetch' = NoFetch /\ failed' = TRUE /\ troubles' = troubles + 1
  /\ UNCHANGED <<screen, mounted, truth, cache, stale, call, own>>

\* onSuccess, its steps in one: setQueryData leaves a fetch under way alone, then
\* the refreshes. Whoever looks at data now is told that the command is done.
Filled == IF call.does.fills THEN call.version ELSE cache
Told == mounted /\ cache # None /\ call.does.changes /\ call.does.due
Succeed ==
  /\ call.at = "done" /\ call' = NoCall
  /\ cache' = Filled
  /\ stale' = (call.does.refreshes \/ (stale /\ ~call.does.fills))
  /\ failed' = (failed /\ ~call.does.fills)
  /\ fetch' = IF call.does.refreshes /\ mounted /\ ~(Filled = None /\ fetch.at # "idle")
              THEN [at |-> "asked", version |-> 0] ELSE fetch
  /\ own' = IF Told THEN call.version ELSE own
  /\ UNCHANGED <<screen, mounted, truth, troubles>>

\* onError. The API refused the command, or its answer was lost.
Fail ==
  /\ call.at \in {"sent", "done"} /\ call' = NoCall
  /\ IF call.does.mends THEN Outdate ELSE UNCHANGED <<stale, fetch>>
  /\ UNCHANGED <<screen, mounted, truth, cache, own, failed, troubles>>

\* The first request of several was done and the next one failed: the page says
\* so, and that the first one stands.
Break ==
  /\ call.at = "done" /\ call.does.partial /\ call' = NoCall
  /\ IF call.does.mends THEN Outdate ELSE UNCHANGED <<stale, fetch>>
  /\ own' = IF Told THEN call.version ELSE own
  /\ UNCHANGED <<screen, mounted, truth, cache, failed, troubles>>

-----------------------------------------------------------------------------
Next == \/ Visit \/ Leave \/ Send \/ Age \/ Collect \/ Poll \/ Nudge
        \/ Commit \/ OtherWrite \/ Serve \/ Show \/ FetchFails
        \/ Succeed \/ Fail \/ Break

\* The API answers, timers run while a page is open and in front, and refreshes
\* do not overtake the answers for ever.
Fairness == WF_vars(Serve) /\ SF_vars(Show) /\ WF_vars(Poll)
Spec == Init /\ [][Next]_vars /\ Fairness

-----------------------------------------------------------------------------
\* What a command reported as done is on the page that gave it: unless a fetch is
\* on its way or the page shows an error, no answer is older, whatever was fetched,
\* polled, left and reopened meanwhile (the onSuccess handlers of all mutations).
OwnChangesAreShown ==
  mounted /\ fetch.at = "idle" /\ ~failed => cache >= own

\* Open pages that watch the work of others come to show every change by
\* themselves (the refetchInterval of their queries).
ChangesReachScreens == \A v \in Versions :
  (screen.watched /\ mounted /\ truth >= v) ~> (cache >= v \/ ~mounted)
=============================================================================

------------------------------ MODULE Realtime ------------------------------
(***************************************************************************)
(* Live screens: how a change committed by one person reaches the screens   *)
(* of the others. An event carries no data. It makes a screen fetch again   *)
(* what it shows (apps/web providers/realtime-sync.tsx, use-websocket.ts);  *)
(* the API pushes it over WebSockets kept by several workers, which tell    *)
(* each other through Redis (apps/api realtime.py, api/websocket.py). One   *)
(* tenant and one branch: the channel is the tenant's, and tenants do not   *)
(* share a socket.                                                          *)
(***************************************************************************)
EXTENDS Integers, FiniteSets, Sequences

CONSTANTS Workers, Clients,
          Sockets,       \* connection slots, used again when both ends are done
          NoSocket,      \* none; in a local hub, a connection nobody serves any more
          MaxWrites,     \* bound: changes committed
          MaxTroubles    \* bound: dropped connections, failed Redis calls, lost events

ASSUME RealtimeAssumption == /\ MaxWrites \in Nat /\ MaxTroubles \in Nat /\ NoSocket \notin Sockets
                             /\ Workers # {} /\ Clients # {}

VARIABLES
  truth,       \* changes committed so far: what a fetch returns
  owed,        \* the changes whose event is not yet published
  subscribed,  \* workers subscribed to the tenant's channel (_subscribed)
  channel,     \* messages a worker's reader has still to take
  sending,     \* sockets a worker's delivery has still to serve
  registered,  \* sockets in a worker's local hub (_connections)
  sockets,     \* the server's end: stage of its handler, worker, client
  inbox,       \* messages on their way to the browser, by socket
  cut,         \* sockets whose connection is broken or closed by the browser
  screen,      \* a client's page: what it shows, what it fetches, its connection
  live,        \* clients whose session stands
  troubles, gaps  \* history: troubles so far; changes whose event never went out to everyone

vars == <<truth, owed, subscribed, channel, sending, registered, sockets, inbox, cut,
          screen, live, troubles, gaps>>
hub  == <<subscribed, channel, sending, registered>>

Versions == 0..MaxWrites
\* free: no handler. asking: the upgrade request is on its way. accepted: the
\* session was checked, it is in the local hub. joined: the worker is
\* subscribed. serving: connection.ready was sent. leaving: the loop has ended.
Stages  == {"free", "asking", "accepted", "joined", "serving", "leaving"}
\* away: no operational page. waiting: a retry timer runs. asking: for a ticket.
Links   == {"away", "waiting", "asking", "connected"}
Fetches == {"none", "out", "back"}
\* deaf, history: a check that failed took the open connection out of the hub.
Socket  == [at: Stages, worker: Workers, client: Clients, deaf: BOOLEAN]
NoHandler == [at |-> "free", worker |-> CHOOSE w \in Workers : TRUE,
              client |-> CHOOSE c \in Clients : TRUE, deaf |-> FALSE]
\* loaded: the first load is over. missed, history: after its last fetch was
\* served, a message came that made the page fetch nothing.
Screen  == [shows: Versions, fetch: Fetches, got: Versions, loaded: BOOLEAN, missed: BOOLEAN,
            link: Links, socket: Sockets \cup {NoSocket}]
Messages == {"ready", "event"}

RealtimeTypeOK ==
  /\ truth \in Versions /\ owed \subseteq Versions
  /\ subscribed \subseteq Workers
  /\ channel \in [Workers -> 0..MaxWrites]
  /\ sending \in [Workers -> SUBSET (Sockets \cup {NoSocket})]
  /\ registered \in [Workers -> SUBSET (Sockets \cup {NoSocket})]
  /\ sockets \in [Sockets -> Socket]
  /\ \A s \in Sockets : inbox[s] \in Seq(Messages) /\ Len(inbox[s]) <= MaxWrites + 1
  /\ cut \subseteq Sockets
  /\ screen \in [Clients -> Screen]
  /\ live \subseteq Clients
  /\ troubles \in 0..MaxTroubles /\ gaps \subseteq Versions

Init ==
  /\ truth = 0 /\ owed = {} /\ subscribed = {}
  /\ channel = [w \in Workers |-> 0]
  /\ sending = [w \in Workers |-> {}] /\ registered = [w \in Workers |-> {}]
  /\ sockets = [s \in Sockets |-> NoHandler]
  /\ inbox = [s \in Sockets |-> << >>] /\ cut = {}
  /\ screen = [c \in Clients |-> [shows |-> 0, fetch |-> "none", got |-> 0, loaded |-> FALSE,
                                  missed |-> FALSE, link |-> "away", socket |-> NoSocket]]
  /\ live = Clients /\ troubles = 0 /\ gaps = {}

Trouble == troubles < MaxTroubles /\ troubles' = troubles + 1
Move(s, stage) == sockets' = [sockets EXCEPT ![s].at = stage]
\* The handler is done; only a browser that still has the socket needs to know.
End(s) ==
  /\ sockets' = [sockets EXCEPT ![s] = NoHandler]
  /\ cut' = IF \E c \in Clients : screen[c].socket = s THEN cut \cup {s} ELSE cut \ {s}

-----------------------------------------------------------------------------
(* Writers: a handler commits first and broadcasts then, if it broadcasts.   *)

\* Some changes are announced by no event, such as those of the back office.
Write ==
  /\ truth < MaxWrites /\ truth' = truth + 1
  /\ \/ owed' = owed \cup {truth + 1} /\ UNCHANGED gaps
     \/ gaps' = gaps \cup {truth + 1} /\ UNCHANGED owed
  /\ UNCHANGED <<hub, sockets, inbox, cut, screen, live, troubles>>

\* Mutant: what was published stays owed.
PublishAgain ==
  /\ owed # {}
  /\ channel' = [w \in Workers |-> IF w \in subscribed THEN channel[w] + 1 ELSE channel[w]]
  /\ UNCHANGED <<truth, owed, subscribed, sending, registered, sockets, inbox, cut, screen, live,
                 troubles, gaps>>

\* RedisRealtimeHub.broadcast: to every subscribed worker, this one included.
Publish ==
  /\ \E v \in owed : owed' = owed \ {v}
  /\ channel' = [w \in Workers |-> IF w \in subscribed THEN channel[w] + 1 ELSE channel[w]]
  /\ UNCHANGED <<truth, subscribed, sending, registered, sockets, inbox, cut, screen, live,
                 troubles, gaps>>

\* Redis refuses the message: only worker w, which handles the request, delivers
\* it. Or the process dies between the commit and the broadcast.
PublishFails ==
  /\ \E v \in owed : owed' = owed \ {v} /\ gaps' = gaps \cup {v}
  /\ Trouble
  /\ \/ \E w \in Workers : channel' = [channel EXCEPT ![w] = @ + 1]
     \/ UNCHANGED channel
  /\ UNCHANGED <<truth, subscribed, sending, registered, sockets, inbox, cut, screen, live>>

-----------------------------------------------------------------------------
(* A worker's reader and its local hub.                                      *)

\* RealtimeHub.broadcast takes its targets under the lock.
Deliver(w) ==
  /\ channel[w] > 0 /\ sending[w] = {}
  /\ channel' = [channel EXCEPT ![w] = @ - 1]
  /\ sending' = [sending EXCEPT ![w] = registered[w]]
  /\ UNCHANGED <<truth, owed, subscribed, registered, sockets, inbox, cut, screen, live,
                 troubles, gaps>>

\* One target after another: authorised, it gets the event; if not, or if the
\* connection is dead, it leaves the local hub (and only that). When the check
\* itself fails, so does an open connection: nobody closes it, and its handler
\* goes on.
Reachable(s) == s \in Sockets \ cut /\ sockets[s].at \in {"accepted", "joined", "serving"}
SendTo(w, s) ==
  /\ s \in sending[w]
  /\ sending' = [sending EXCEPT ![w] = @ \ {s}]
  /\ \/ /\ Reachable(s) /\ sockets[s].client \in live
        /\ inbox' = [inbox EXCEPT ![s] = Append(@, "event")]
        /\ UNCHANGED <<registered, sockets, cut, troubles>>
     \/ /\ ~(Reachable(s) /\ sockets[s].client \in live)
        /\ registered' = [registered EXCEPT ![w] = @ \ {s}]
        /\ cut' = IF s \in Sockets /\ sockets[s].at # "free" THEN cut \cup {s} ELSE cut
        /\ UNCHANGED <<inbox, sockets, troubles>>
     \/ /\ Reachable(s) /\ Trouble
        /\ registered' = [registered EXCEPT ![w] = @ \ {s}]
        /\ sockets' = [sockets EXCEPT ![s].deaf = TRUE]
        /\ UNCHANGED <<inbox, cut>>
  /\ UNCHANGED <<truth, owed, subscribed, channel, screen, live, gaps>>

-----------------------------------------------------------------------------
(* websocket_endpoint, up to its loop and out of it.                         *)

\* The ticket is used up and the session checked; RedisRealtimeHub.connect
\* accepts, joins the local hub, then subscribes.
Accept(s) ==
  /\ sockets[s].at = "asking"
  /\ IF sockets[s].client \in live
     THEN /\ Move(s, "accepted") /\ UNCHANGED cut
          /\ registered' = [registered EXCEPT ![sockets[s].worker] = @ \cup {s}]
     ELSE End(s) /\ UNCHANGED registered
  /\ UNCHANGED <<truth, owed, subscribed, channel, sending, inbox, screen, live, troubles, gaps>>
Subscribe(s) ==
  /\ sockets[s].at = "accepted"
  /\ Move(s, "joined")
  /\ subscribed' = subscribed \cup {sockets[s].worker}
  /\ UNCHANGED <<truth, owed, channel, sending, registered, inbox, cut, screen, live, troubles, gaps>>

\* connection.ready makes the page fetch everything again.
Ready(s) ==
  /\ sockets[s].at = "joined" /\ s \notin cut
  /\ Move(s, "serving")
  /\ inbox' = [inbox EXCEPT ![s] = Append(@, "ready")]
  /\ UNCHANGED <<truth, owed, hub, cut, screen, live, troubles, gaps>>

\* Until here nothing is caught: when Redis fails, or when the browser is gone
\* before connection.ready, the handler ends without hub.disconnect.
EndEarly(s) ==
  /\ End(s)
  /\ registered' = [registered EXCEPT ![sockets[s].worker] =
                      IF s \in @ THEN (@ \ {s}) \cup {NoSocket} ELSE @]
  /\ UNCHANGED <<truth, owed, subscribed, channel, sending, inbox, screen, live, gaps>>
RedisFails(s) == /\ sockets[s].at = "accepted" /\ sockets[s].worker \notin subscribed
                 /\ Trouble /\ EndEarly(s)
GoneEarly(s)  == sockets[s].at = "joined" /\ s \in cut /\ EndEarly(s) /\ UNCHANGED troubles

\* Mutant: only the end of the connection ends the loop.
EndLoopWhenCut(s) ==
  /\ sockets[s].at = "serving" /\ s \in cut
  /\ Move(s, "leaving") /\ UNCHANGED cut
  /\ UNCHANGED <<truth, owed, hub, inbox, screen, live, troubles, gaps>>

\* The loop ends when the connection does, or when the check of every fifteen
\* seconds finds the session over.
EndLoop(s) ==
  /\ sockets[s].at = "serving"
  /\ s \in cut \/ sockets[s].client \notin live
  /\ Move(s, "leaving") /\ cut' = cut \cup {s}
  /\ UNCHANGED <<truth, owed, hub, inbox, screen, live, troubles, gaps>>

\* Its own check fails, or what the browser sent cannot be read.
LoopFails(s) ==
  /\ sockets[s].at = "serving" /\ s \notin cut /\ Trouble
  /\ Move(s, "leaving") /\ cut' = cut \cup {s}
  /\ UNCHANGED <<truth, owed, hub, inbox, screen, live, gaps>>

\* Mutant: the other sockets of the worker are not looked at.
DisconnectAll(s) ==
  /\ sockets[s].at = "leaving"
  /\ End(s)
  /\ LET w == sockets[s].worker IN
       /\ registered' = [registered EXCEPT ![w] = @ \ {s}]
       /\ subscribed' = subscribed \ {w}
  /\ UNCHANGED <<truth, owed, channel, sending, inbox, screen, live, troubles, gaps>>

\* RedisRealtimeHub.disconnect: nothing runs between the look at the local hub
\* and the place in the queue of the lock, so a connect that comes later also
\* subscribes later.
Disconnect(s) ==
  /\ sockets[s].at = "leaving"
  /\ End(s)
  /\ LET w == sockets[s].worker  left == registered[w] \ {s} IN
       /\ registered' = [registered EXCEPT ![w] = left]
       /\ subscribed' = IF left = {} THEN subscribed \ {w} ELSE subscribed
  /\ UNCHANGED <<truth, owed, channel, sending, inbox, screen, live, troubles, gaps>>

-----------------------------------------------------------------------------
(* The page.                                                                 *)

Set(c, page) == screen' = [screen EXCEPT ![c] = page]
Fetch(page)  == [page EXCEPT !.fetch = "out", !.got = 0, !.missed = FALSE]
Passes(page) == [page EXCEPT !.missed = (page.fetch # "out")]

\* Mutant: a fetch under way is left to finish.
AgainWhenIdle(page) == IF page.fetch = "none" THEN Fetch(page) ELSE page

\* invalidateQueries gives up the fetch under way and starts again, but it
\* leaves a first load alone.
Again(page) == IF page.loaded \/ page.fetch = "none" THEN Fetch(page) ELSE Passes(page)

\* A page shows what the cache kept of it, or loads for the first time. What
\* nobody watches is dropped after half an hour.
Open(c) ==
  /\ screen[c].link = "away"
  /\ LET page == [screen[c] EXCEPT !.link = "waiting"] IN
     \/ Set(c, IF page.loaded \/ page.fetch # "none" THEN page ELSE Fetch(page))
     \/ /\ page.loaded /\ page.fetch = "none"
        /\ Set(c, Fetch([page EXCEPT !.shows = 0, !.loaded = FALSE]))
  /\ UNCHANGED <<truth, owed, hub, sockets, inbox, cut, live, troubles, gaps>>

\* The timer fires: requestTicket. It is refused to a session that is over.
RequestTicket(c) ==
  /\ screen[c].link = "waiting"
  /\ Set(c, [screen[c] EXCEPT !.link = "asking"])
  /\ UNCHANGED <<truth, owed, hub, sockets, inbox, cut, live, troubles, gaps>>
Free(s) == /\ sockets[s].at = "free" /\ \A c \in Clients : screen[c].socket # s
           /\ \A w \in Workers : s \notin registered[w] \cup sending[w]
Connect(c) ==
  /\ screen[c].link = "asking"
  /\ \/ /\ c \in live
        /\ \E s \in Sockets, w \in Workers :
             /\ Free(s) /\ s = CHOOSE r \in Sockets : Free(r)
             /\ sockets' = [sockets EXCEPT ![s] = [at |-> "asking", worker |-> w, client |-> c,
                                                     deaf |-> FALSE]]
             /\ UNCHANGED <<inbox, cut>>
             /\ Set(c, [screen[c] EXCEPT !.link = "connected", !.socket = s])
     \/ /\ c \notin live
        /\ Set(c, [screen[c] EXCEPT !.link = "waiting"])
        /\ UNCHANGED <<sockets, inbox, cut>>
  /\ UNCHANGED <<truth, owed, hub, live, troubles, gaps>>

\* onmessage: connection.ready invalidates the queries of every page, an event
\* those listed for its type (queryKeysForRealtimeEvent), this page's or not. (What
\* onopen fetches after a reconnection, connection.ready fetches again.)
Receive(c) ==
  /\ screen[c].link = "connected"
  /\ LET s == screen[c].socket IN
       /\ inbox[s] # << >> /\ inbox' = [inbox EXCEPT ![s] = Tail(@)]
       /\ \/ Set(c, Again(screen[c]))
          \/ Head(inbox[s]) = "event" /\ Set(c, Passes(screen[c]))
  /\ UNCHANGED <<truth, owed, hub, sockets, cut, live, troubles, gaps>>

\* The page is done with its socket; what was on its way to it is lost.
LetGo(c, link) ==
  /\ Set(c, [screen[c] EXCEPT !.link = link, !.socket = NoSocket])
  /\ LET s == screen[c].socket IN
     IF s = NoSocket THEN UNCHANGED <<cut, inbox>>
     ELSE /\ cut' = IF sockets[s].at = "free" THEN cut \ {s} ELSE cut \cup {s}
          /\ inbox' = [inbox EXCEPT ![s] = << >>]

\* onclose of the current connection: a new ticket in a second.
OnClose(c) ==
  /\ screen[c].link = "connected" /\ screen[c].socket \in cut
  /\ LetGo(c, "waiting")
  /\ UNCHANGED <<truth, owed, hub, sockets, live, troubles, gaps>>

\* The page closes its connection: it is left, or the network came back and
\* everything starts again. What the old connection still brings is ignored.
HangUp(c, link) ==
  /\ screen[c].link # "away"
  /\ LetGo(c, link)
  /\ UNCHANGED <<truth, owed, hub, sockets, live, gaps>>
Leave(c)  == HangUp(c, "away") /\ UNCHANGED troubles
Online(c) == HangUp(c, "waiting") /\ Trouble

\* A fetch reads what is committed when the API serves it.
Poll(c) ==
  /\ screen[c].fetch = "none" /\ screen[c].link # "away"
  /\ Set(c, Again(screen[c]))
  /\ UNCHANGED <<truth, owed, hub, sockets, inbox, cut, live, troubles, gaps>>
ServeFetch(c) ==
  /\ screen[c].fetch = "out"
  /\ Set(c, IF c \in live THEN [screen[c] EXCEPT !.fetch = "back", !.got = truth]
            ELSE [screen[c] EXCEPT !.fetch = "none"])
  /\ UNCHANGED <<truth, owed, hub, sockets, inbox, cut, live, troubles, gaps>>
Show(c) ==
  /\ screen[c].fetch = "back"
  /\ Set(c, [screen[c] EXCEPT !.fetch = "none", !.shows = screen[c].got, !.got = 0, !.loaded = TRUE])
  /\ UNCHANGED <<truth, owed, hub, sockets, inbox, cut, live, troubles, gaps>>

-----------------------------------------------------------------------------
\* The network drops a connection.
Drop(s) ==
  /\ sockets[s].at # "free" /\ s \notin cut /\ Trouble
  /\ cut' = cut \cup {s}
  /\ UNCHANGED <<truth, owed, hub, sockets, inbox, screen, live, gaps>>
\* Sign-out, a branch switch in another tab, a role change: the session's
\* sockets are no longer authorised.
Revoke(c) ==
  /\ c \in live /\ live' = live \ {c}
  /\ UNCHANGED <<truth, owed, hub, sockets, inbox, cut, screen, troubles, gaps>>

Handler(s) == Accept(s) \/ Subscribe(s) \/ Ready(s) \/ GoneEarly(s)
              \/ EndLoop(s) \/ Disconnect(s)
Page(c) == RequestTicket(c) \/ Connect(c) \/ Receive(c) \/ OnClose(c)
Next ==
  \/ Write \/ Publish \/ PublishFails
  \/ \E w \in Workers : Deliver(w) \/ \E s \in Sockets \cup {NoSocket} : SendTo(w, s)
  \/ \E s \in Sockets : Handler(s) \/ RedisFails(s) \/ LoopFails(s) \/ Drop(s)
  \/ \E c \in Clients : Open(c) \/ Page(c) \/ Leave(c) \/ Online(c) \/ Poll(c)
                        \/ ServeFetch(c) \/ Show(c) \/ Revoke(c)

\* Handlers, readers, pages and fetches run; people and troubles are free.
Fairness ==
  /\ WF_vars(Publish)
  /\ \A w \in Workers : /\ WF_vars(Deliver(w))
                        /\ WF_vars(\E s \in Sockets \cup {NoSocket} : SendTo(w, s))
  /\ \A s \in Sockets : WF_vars(Handler(s))
  /\ \A c \in Clients : WF_vars(Page(c)) /\ WF_vars(ServeFetch(c) \/ Show(c))
Spec == Init /\ [][Next]_vars /\ Fairness

-----------------------------------------------------------------------------
\* Whoever was told that the connection is ready hears what is published: the
\* worker is subscribed and the socket is in its hub, whatever other sockets
\* come and go on the worker (realtime.py 151-168: "so a busy business never
\* loses events mid-session"). A connection whose own check failed during a
\* delivery is excepted: it was taken out of the hub and left open.
ReadyHears == \A s \in Sockets :
  sockets[s].at = "serving" /\ s \notin cut /\ ~sockets[s].deaf =>
    LET w == sockets[s].worker IN w \in subscribed /\ s \in registered[w]

Deaf(c) == screen[c].socket # NoSocket /\ sockets[screen[c].socket].deaf

\* A change reaches every open screen, through events, reconnections and fetches
\* that were under way when it was made (docs/multi-tenancy.md 129-140,
\* docs/architecture-decisions.md 53: "Clients refetch after reconnect"), unless
\* the page is left or its session is over. Excepted are the ways in which the
\* code leaves a page behind: the change has no event or lost it (gaps), its
\* event is not one of the page's or came during the page's first load (missed,
\* until the next answer), and the connection is deaf.
ScreensCatchUp == \A c \in Clients, v \in 1..MaxWrites :
  truth >= v /\ screen[c].link # "away" ~>
    \/ screen[c].shows >= v \/ screen[c].link = "away" \/ c \notin live
    \/ v \in gaps \/ screen[c].missed \/ Deaf(c)

\* When a session is over, all of its sockets are cut off, if nothing is ever
\* sent on them too (api/websocket.py 167-188).
EndedSessionsAreCutOff == \A c \in Clients :
  c \notin live ~> \A s \in Sockets : sockets[s].client = c => ~Reachable(s)
=============================================================================

---------------------------- MODULE RealtimeProofs ----------------------------
(***************************************************************************)
(* Live screens for any number of workers, screens, connections and         *)
(* changes: whoever was told that the connection is ready hears what is     *)
(* published, and no queue holds more than one event for each change.       *)
(***************************************************************************)
EXTENDS Realtime, FiniteSetTheorems, TLAPS

\* The types, without the bounds of the queues.
Plain ==
  /\ truth \in Nat /\ truth <= MaxWrites /\ owed \subseteq 1..truth
  /\ subscribed \subseteq Workers
  /\ channel \in [Workers -> Nat]
  /\ sending \in [Workers -> SUBSET (Sockets \cup {NoSocket})]
  /\ registered \in [Workers -> SUBSET (Sockets \cup {NoSocket})]
  /\ sockets \in [Sockets -> Socket]
  /\ inbox \in [Sockets -> Seq(Messages)]
  /\ cut \subseteq Sockets
  /\ screen \in [Clients -> Screen]
  /\ live \subseteq Clients
  /\ troubles \in 0..MaxTroubles /\ gaps \subseteq Versions

\* A connection that stands is in the local hub of its worker from the moment it
\* is accepted, and from the subscription on the worker listens for it, unless a
\* check that failed took it out.
InHub(s) ==
  s \notin cut /\ ~sockets[s].deaf =>
    /\ sockets[s].at \in {"accepted", "joined", "serving"} => s \in registered[sockets[s].worker]
    /\ sockets[s].at \in {"joined", "serving"} => sockets[s].worker \in subscribed

\* Only the worker that serves a connection knows it.
AtHome(s) ==
  sockets[s].at # "free" => \A w \in Workers : s \in registered[w] \cup sending[w] => w = sockets[s].worker

\* A page has a socket while it is connected, and only then; a connection that
\* stands is some page's, and so is whatever is still on its way to a browser.
Due == Cardinality(owed)
Size(s) == Len(inbox[s])
Held(s) == \E c \in Clients : screen[c].socket = s
Connected(c) == screen[c].link = "connected" <=> screen[c].socket # NoSocket
Owned(s) ==
  /\ sockets[s].at # "free" /\ s \notin cut => Held(s)
  /\ Size(s) > 0 => Held(s)

\* Every change is published once: what a connection has still to be told, and
\* the greeting, are no more than the changes made and one.
One(condition) == IF condition THEN 1 ELSE 0
ToCome(s) == LET w == sockets[s].worker IN
  channel[w] + Due + One(s \in sending[w]) + One(sockets[s].at \in {"asking", "accepted", "joined"})
Counted(s) ==
  /\ Size(s) <= truth + 1
  /\ sockets[s].at # "free" => Size(s) + ToCome(s) <= truth + 1

RealtimeInv ==
  /\ Plain
  /\ \A w \in Workers : channel[w] + Due <= truth
  /\ \A c \in Clients : Connected(c)
  /\ \A s \in Sockets : InHub(s) /\ AtHome(s) /\ Owned(s) /\ Counted(s)

-----------------------------------------------------------------------------
(* Pages and handlers                                                        *)

LEMMA Constants ==
  /\ NoHandler \in Socket /\ NoHandler.at = "free" /\ NoHandler.deaf = FALSE
  /\ MaxWrites \in Nat /\ MaxTroubles \in Nat /\ NoSocket \notin Sockets
  /\ 0 \in Versions /\ Versions = 0..MaxWrites
BY RealtimeAssumption DEF NoHandler, Socket, Stages, Versions

LEMMA Relinked ==
  ASSUME NEW p \in Screen, NEW l \in Links
  PROVE  LET q == [p EXCEPT !.link = l] IN q \in Screen /\ q.link = l /\ q.socket = p.socket
BY DEF Screen
LEMMA Reconnected ==
  ASSUME NEW p \in Screen, NEW l \in Links, NEW s \in Sockets \cup {NoSocket}
  PROVE  LET q == [p EXCEPT !.link = l, !.socket = s] IN q \in Screen /\ q.link = l /\ q.socket = s
BY DEF Screen
LEMMA Refetched ==
  ASSUME NEW p \in Screen
  PROVE  /\ Fetch(p) \in Screen /\ Fetch(p).link = p.link /\ Fetch(p).socket = p.socket
         /\ Passes(p) \in Screen /\ Passes(p).link = p.link /\ Passes(p).socket = p.socket
         /\ Again(p) \in Screen /\ Again(p).link = p.link /\ Again(p).socket = p.socket
<1>1. Fetch(p) \in Screen /\ Fetch(p).link = p.link /\ Fetch(p).socket = p.socket
  BY Constants DEF Screen, Fetch, Fetches
<1>2. Passes(p) \in Screen /\ Passes(p).link = p.link /\ Passes(p).socket = p.socket
  BY DEF Screen, Passes
<1> QED BY <1>1, <1>2 DEF Again
LEMMA Dropped ==
  ASSUME NEW p \in Screen
  PROVE  LET q == [p EXCEPT !.shows = 0, !.loaded = FALSE]
         IN q \in Screen /\ q.link = p.link /\ q.socket = p.socket
BY Constants DEF Screen
LEMMA Fetched ==
  ASSUME NEW p \in Screen, NEW f \in Fetches, NEW v \in Versions
  PROVE  /\ LET q == [p EXCEPT !.fetch = f, !.got = v]
            IN q \in Screen /\ q.link = p.link /\ q.socket = p.socket
         /\ LET q == [p EXCEPT !.fetch = f]
            IN q \in Screen /\ q.link = p.link /\ q.socket = p.socket
BY DEF Screen
LEMMA Displayed ==
  ASSUME NEW p \in Screen
  PROVE  LET q == [p EXCEPT !.fetch = "none", !.shows = p.got, !.got = 0, !.loaded = TRUE]
         IN q \in Screen /\ q.link = p.link /\ q.socket = p.socket
BY Constants DEF Screen, Fetches

\* The size of a queue, and what sending and taking do to it.
LEMMA Sizes ==
  ASSUME Plain
  PROVE  /\ IsFiniteSet(owed) /\ Due \in Nat /\ truth + 1 \notin owed
         /\ \A s \in Sockets : Size(s) \in Nat /\ inbox[s] \in Seq(Messages)
<1>1. IsFiniteSet(1..truth) /\ owed \in SUBSET (1..truth) /\ truth \in Nat
  BY FS_Interval DEF Plain
<1>2. IsFiniteSet(owed)
  BY <1>1, FS_Subset
<1>3. Due \in Nat
  BY <1>2, FS_CardinalityType DEF Due
<1>4. \A s \in Sockets : inbox[s] \in Seq(Messages)
  BY DEF Plain
<1> QED BY <1>1, <1>2, <1>3, <1>4 DEF Size

LEMMA Sent ==
  ASSUME Plain, NEW s \in Sockets, NEW m \in Messages, inbox' = [inbox EXCEPT ![s] = Append(@, m)]
  PROVE  /\ inbox' \in [Sockets -> Seq(Messages)] /\ Size(s)' = Size(s) + 1
         /\ \A r \in Sockets : r # s => inbox'[r] = inbox[r]
<1>1. inbox \in [Sockets -> Seq(Messages)] /\ inbox[s] \in Seq(Messages)
  BY DEF Plain
<1>2. Append(inbox[s], m) \in Seq(Messages) /\ Len(Append(inbox[s], m)) = Len(inbox[s]) + 1
  BY <1>1
<1>3. inbox'[s] = Append(inbox[s], m) /\ inbox' \in [Sockets -> Seq(Messages)]
  BY <1>1, <1>2
<1> QED BY <1>1, <1>2, <1>3 DEF Size

LEMMA Taken ==
  ASSUME Plain, NEW s \in Sockets, inbox[s] # << >>, inbox' = [inbox EXCEPT ![s] = Tail(@)]
  PROVE  /\ inbox' \in [Sockets -> Seq(Messages)]
         /\ \A r \in Sockets : Size(r)' <= Size(r)
<1>1. inbox \in [Sockets -> Seq(Messages)] /\ inbox[s] \in Seq(Messages) /\ \A r \in Sockets : Size(r) \in Nat
  BY Sizes DEF Plain
<1>2. Tail(inbox[s]) \in Seq(Messages) /\ Len(Tail(inbox[s])) = Len(inbox[s]) - 1
  BY <1>1
<1>3. inbox'[s] = Tail(inbox[s]) /\ inbox' \in [Sockets -> Seq(Messages)]
  BY <1>1, <1>2
<1>4. \A r \in Sockets : r # s => inbox'[r] = inbox[r]
  BY <1>1
<1> QED BY <1>1, <1>2, <1>3, <1>4 DEF Size

LEMMA PageSet ==
  ASSUME Plain, NEW c \in Clients, NEW p \in Screen, Set(c, p)
  PROVE  /\ screen' \in [Clients -> Screen] /\ screen'[c] = p
         /\ \A d \in Clients : d # c => screen'[d] = screen[d]
BY DEF Plain, Set

LEMMA StageSet ==
  ASSUME Plain, NEW s \in Sockets, NEW stage \in Stages, Move(s, stage)
  PROVE  /\ sockets' \in [Sockets -> Socket] /\ sockets'[s].at = stage
         /\ sockets'[s].deaf = sockets[s].deaf
         /\ sockets'[s].worker = sockets[s].worker /\ sockets'[s].client = sockets[s].client
         /\ \A r \in Sockets : r # s => sockets'[r] = sockets[r]
BY DEF Plain, Move, Socket

\* The end of a handler, for its socket and for the others.
LEMMA Ended ==
  ASSUME Plain, NEW s \in Sockets, End(s)
  PROVE  /\ sockets' \in [Sockets -> Socket] /\ sockets'[s].at = "free"
         /\ \A r \in Sockets : r # s => sockets'[r] = sockets[r]
         /\ cut' \subseteq Sockets /\ \A r \in Sockets : r # s => (r \in cut' <=> r \in cut)
BY Constants DEF Plain, End

-----------------------------------------------------------------------------
(* What is left alone                                                        *)

\* A page that keeps its connection, whatever it fetches or shows.
LEMMA PageStays ==
  ASSUME RealtimeInv, NEW c \in Clients, NEW p \in Screen, Set(c, p),
         p.socket = screen[c].socket, p.link = "connected" <=> screen[c].link = "connected",
         UNCHANGED <<truth, owed, hub, sockets, cut, live, troubles, gaps>>,
         inbox' \in [Sockets -> Seq(Messages)], \A s \in Sockets : Size(s)' <= Size(s)
  PROVE  RealtimeInv'
<1>1. /\ screen' \in [Clients -> Screen] /\ screen'[c] = p
      /\ \A d \in Clients : d # c => screen'[d] = screen[d]
  BY PageSet DEF RealtimeInv
<1>2. Plain'
  BY <1>1 DEF RealtimeInv, Plain, hub
<1>3. \A d \in Clients : screen'[d].socket = screen[d].socket
  BY <1>1
<1>4. \A d \in Clients : Connected(d)'
  BY <1>1 DEF RealtimeInv, Connected
<1>5. \A s \in Sockets : Held(s) <=> Held(s)'
  BY <1>3 DEF Held
<1>0. Due' = Due /\ Due \in Nat /\ \A s \in Sockets : Size(s) \in Nat /\ Size(s)' \in Nat
  BY <1>2, Sizes DEF RealtimeInv, Due, Plain, Size
<1>6. ASSUME NEW s \in Sockets PROVE InHub(s)' /\ AtHome(s)' /\ Owned(s)' /\ Counted(s)'
  <2>1. InHub(s)' /\ AtHome(s)'
    BY DEF RealtimeInv, InHub, AtHome, hub
  <2>2. Owned(s)'
    BY <1>0, <1>5 DEF RealtimeInv, Plain, Owned
  <2>3. Counted(s)'
    <3>1. ToCome(s)' = ToCome(s)
      BY <1>0 DEF ToCome, hub
    <3>2. ToCome(s) \in Nat
      BY <1>0 DEF RealtimeInv, Plain, ToCome, One, Socket
    <3> QED BY <1>0, <3>1, <3>2 DEF RealtimeInv, Plain, Counted
  <2> QED BY <2>1, <2>2, <2>3
<1> QED BY <1>0, <1>2, <1>4, <1>6 DEF RealtimeInv, hub

LEMMA PageRuns ==
  ASSUME RealtimeInv, NEW c \in Clients,
         Open(c) \/ RequestTicket(c) \/ Poll(c) \/ ServeFetch(c) \/ Show(c) \/ Receive(c)
  PROVE  RealtimeInv'
<1> DEFINE p == screen[c]
<1>a. Plain /\ p \in Screen /\ inbox \in [Sockets -> Seq(Messages)] /\ truth \in Versions
  BY Constants DEF RealtimeInv, Plain
<1>b. {"waiting", "asking"} \subseteq Links /\ {"none", "out", "back"} \subseteq Fetches /\ 0 \in Versions
  BY Constants DEF Links, Fetches
<1>c. UNCHANGED inbox => inbox' \in [Sockets -> Seq(Messages)] /\ \A s \in Sockets : Size(s)' <= Size(s)
  BY <1>a, Sizes DEF Size
<1>1. CASE Open(c)
  <2> DEFINE q == [p EXCEPT !.link = "waiting"]
             r == [q EXCEPT !.shows = 0, !.loaded = FALSE]
  <2>1. q \in Screen /\ q.link = "waiting" /\ q.socket = p.socket
    BY <1>a, <1>b, Relinked
  <2>2. r \in Screen /\ r.link = q.link /\ r.socket = q.socket
    <3> HIDE DEF q
    <3> QED BY <2>1, Dropped
  <2>3. /\ Set(c, q) \/ Set(c, Fetch(q)) \/ Set(c, Fetch(r))
        /\ p.link = "away" /\ UNCHANGED <<truth, owed, hub, sockets, inbox, cut, live, troubles, gaps>>
    BY <1>1 DEF Open
  <2> HIDE DEF q, r
  <2>4. PICK x \in {q, Fetch(q), Fetch(r)} : Set(c, x)
    BY <2>3
  <2>5. x \in Screen /\ x.link = "waiting" /\ x.socket = p.socket
    BY <2>1, <2>2, <2>4, Refetched
  <2> QED BY <1>c, <2>3, <2>4, <2>5, PageStays
<1>2. CASE RequestTicket(c)
  <2> DEFINE q == [p EXCEPT !.link = "asking"]
  <2>1. q \in Screen /\ q.link = "asking" /\ q.socket = p.socket
    BY <1>a, <1>b, Relinked
  <2>2. Set(c, q) /\ p.link = "waiting"
    BY <1>2 DEF RequestTicket
  <2> HIDE DEF q
  <2> QED BY <1>c, <1>2, <2>1, <2>2, PageStays DEF RequestTicket
<1>3. CASE Poll(c)
  <2>1. Again(p) \in Screen /\ Again(p).link = p.link /\ Again(p).socket = p.socket
    BY <1>a, Refetched
  <2>2. Set(c, Again(p))
    BY <1>3 DEF Poll
  <2> QED BY <1>c, <1>3, <2>1, <2>2, PageStays DEF Poll
<1>4. CASE ServeFetch(c)
  <2> DEFINE q == [p EXCEPT !.fetch = "back", !.got = truth]
             r == [p EXCEPT !.fetch = "none"]
  <2>1. q \in Screen /\ q.link = p.link /\ q.socket = p.socket
    <3> HIDE DEF p
    <3> QED BY <1>a, <1>b, Fetched
  <2>2. r \in Screen /\ r.link = p.link /\ r.socket = p.socket
    <3> HIDE DEF p
    <3> QED BY <1>a, <1>b, Fetched
  <2>3. Set(c, q) \/ Set(c, r)
    BY <1>4 DEF ServeFetch
  <2> HIDE DEF q, r
  <2> QED BY <1>c, <1>4, <2>1, <2>2, <2>3, PageStays DEF ServeFetch
<1>5. CASE Show(c)
  <2> DEFINE q == [screen[c] EXCEPT !.fetch = "none", !.shows = screen[c].got, !.got = 0, !.loaded = TRUE]
  <2>1. q \in Screen /\ q.link = screen[c].link /\ q.socket = screen[c].socket
    BY <1>a, Displayed
  <2>2. Set(c, q)
    BY <1>5 DEF Show
  <2> HIDE DEF q
  <2> QED BY <1>c, <1>5, <2>1, <2>2, PageStays DEF Show
<1>6. CASE Receive(c)
  <2>1. PICK q \in {Again(p), Passes(p)} : Set(c, q)
    BY <1>6 DEF Receive
  <2>2. q \in Screen /\ q.link = p.link /\ q.socket = p.socket
    BY <1>a, <2>1, Refetched
  <2>3. p.link = "connected" /\ UNCHANGED <<truth, owed, hub, sockets, cut, live, troubles, gaps>>
    BY <1>6 DEF Receive
  <2>4. p.socket \in Sockets
    BY <1>a, <2>3 DEF RealtimeInv, Connected, Screen
  <2>5. inbox[p.socket] # << >> /\ inbox' = [inbox EXCEPT ![p.socket] = Tail(@)]
    BY <1>6 DEF Receive
  <2>6. inbox' \in [Sockets -> Seq(Messages)] /\ \A s \in Sockets : Size(s)' <= Size(s)
    BY <1>a, <2>4, <2>5, Taken
  <2> QED BY <2>1, <2>2, <2>3, <2>6, PageStays
<1> QED BY <1>1, <1>2, <1>3, <1>4, <1>5, <1>6

\* A page lets go of its socket: what was on its way is lost, and the
\* connection is broken unless its handler is done already.
LEMMA PageLetsGo ==
  ASSUME RealtimeInv, NEW c \in Clients, NEW link \in {"away", "waiting"}, LetGo(c, link),
         UNCHANGED <<truth, owed, hub, sockets, live, gaps>>, troubles' \in 0..MaxTroubles
  PROVE  RealtimeInv'
<1> DEFINE p == [screen[c] EXCEPT !.link = link, !.socket = NoSocket]
           s == screen[c].socket
<1>1. p \in Screen /\ p.link = link /\ p.socket = NoSocket /\ s \in Sockets \cup {NoSocket}
  <2>1. screen[c] \in Screen /\ link \in Links
    BY DEF RealtimeInv, Plain, Links
  <2> QED BY <2>1, Reconnected DEF Screen
<1>2. /\ screen' \in [Clients -> Screen] /\ screen'[c] = p
      /\ \A d \in Clients : d # c => screen'[d] = screen[d]
  <2>1. Set(c, p)
    BY DEF LetGo
  <2> HIDE DEF p
  <2> QED BY <1>1, <2>1, PageSet DEF RealtimeInv
<1>3. /\ inbox' \in [Sockets -> Seq(Messages)] /\ \A r \in Sockets : Size(r)' <= Size(r)
      /\ \A r \in Sockets : r = s => Size(r)' = 0
  <2>1. inbox \in [Sockets -> Seq(Messages)] /\ \A r \in Sockets : Size(r) \in Nat
    BY Sizes DEF RealtimeInv, Plain
  <2>2. CASE s = NoSocket
    BY <2>1, <2>2, Constants DEF LetGo, Size
  <2>3. CASE s # NoSocket
    <3>1. inbox' = [inbox EXCEPT ![s] = << >>] /\ << >> \in Seq(Messages) /\ Len(<< >>) = 0
      BY <2>3 DEF LetGo
    <3> HIDE DEF s
    <3>2. inbox' \in [Sockets -> Seq(Messages)] /\ inbox'[s] = << >>
          /\ \A r \in Sockets : r # s => inbox'[r] = inbox[r]
      BY <1>1, <2>1, <2>3, <3>1
    <3> QED BY <2>1, <3>1, <3>2 DEF Size
  <2> QED BY <2>2, <2>3
<1>4. /\ cut' \subseteq Sockets /\ \A r \in Sockets : r \notin cut' => r \notin cut \/ sockets[r].at = "free"
      /\ s \in Sockets /\ sockets[s].at # "free" => s \in cut'
  <2>1. cut \subseteq Sockets
    BY DEF RealtimeInv, Plain
  <2>2. CASE s = NoSocket
    BY <2>1, <2>2, Constants DEF LetGo
  <2>3. CASE s # NoSocket
    <3>1. cut' = IF sockets[s].at = "free" THEN cut \ {s} ELSE cut \cup {s}
      BY <2>3 DEF LetGo
    <3> HIDE DEF s
    <3> QED BY <1>1, <2>1, <2>3, <3>1
  <2> QED BY <2>2, <2>3
<1> HIDE DEF p
<1>5. Plain'
  BY <1>2, <1>3, <1>4 DEF RealtimeInv, Plain, hub
<1>0. Due' = Due /\ Due \in Nat /\ \A r \in Sockets : Size(r) \in Nat /\ Size(r)' \in Nat
  BY <1>5, Sizes DEF RealtimeInv, Due, Plain, Size
<1>6. \A d \in Clients : Connected(d)'
  BY <1>1, <1>2 DEF RealtimeInv, Connected
<1>7. \A r \in Sockets : Held(r) /\ r # s => Held(r)'
  BY <1>2 DEF Held
<1> HIDE DEF s
<1>8. ASSUME NEW r \in Sockets PROVE InHub(r)' /\ AtHome(r)' /\ Owned(r)' /\ Counted(r)'
  <2>1. InHub(r)' /\ AtHome(r)'
    BY <1>4 DEF RealtimeInv, InHub, AtHome, hub
  <2>2. Owned(r)'
    <3>1. CASE r = s
      BY <1>3, <1>4, <3>1 DEF Owned
    <3>2. CASE r # s
      <4>1. /\ sockets'[r].at # "free" /\ r \notin cut' => Held(r)
            /\ Size(r)' > 0 => Held(r)
        BY <1>0, <1>3, <1>4 DEF RealtimeInv, Owned
      <4> QED BY <1>7, <3>2, <4>1 DEF Owned
    <3> QED BY <3>1, <3>2
  <2>3. Counted(r)'
    <3>1. ToCome(r)' = ToCome(r)
      BY <1>0 DEF ToCome, hub
    <3>2. ToCome(r) \in Nat
      BY <1>0 DEF RealtimeInv, Plain, ToCome, One, Socket
    <3> QED BY <1>0, <1>3, <3>1, <3>2 DEF RealtimeInv, Plain, Counted
  <2> QED BY <2>1, <2>2, <2>3
<1> QED BY <1>0, <1>5, <1>6, <1>8 DEF RealtimeInv, hub

\* A free slot carries the new connection.
LEMMA PageConnects ==
  ASSUME RealtimeInv, NEW c \in Clients, Connect(c) PROVE RealtimeInv'
<1>a. Plain /\ screen[c] \in Screen /\ inbox \in [Sockets -> Seq(Messages)] /\ screen[c].link = "asking"
  BY DEF RealtimeInv, Plain, Connect
<1>b. Due \in Nat /\ \A s \in Sockets : Size(s) \in Nat
  BY <1>a, Sizes
<1>1. CASE c \notin live
  <2> DEFINE q == [screen[c] EXCEPT !.link = "waiting"]
  <2>1. q \in Screen /\ q.link = "waiting" /\ q.socket = screen[c].socket
    BY <1>a, Relinked DEF Links
  <2>2. Set(c, q) /\ UNCHANGED <<sockets, inbox, cut>>
    BY <1>1 DEF Connect
  <2>3. UNCHANGED <<truth, owed, hub, live, troubles, gaps>>
    BY DEF Connect
  <2> HIDE DEF q
  <2>4. \A s \in Sockets : Size(s)' <= Size(s)
    BY <1>b, <2>2 DEF Size
  <2> QED BY <1>a, <2>1, <2>2, <2>3, <2>4, PageStays
<1>2. CASE c \in live
  <2>1. PICK s \in Sockets, w \in Workers :
          /\ Free(s)
          /\ sockets' = [sockets EXCEPT ![s] = [at |-> "asking", worker |-> w, client |-> c, deaf |-> FALSE]]
          /\ UNCHANGED <<inbox, cut>>
          /\ Set(c, [screen[c] EXCEPT !.link = "connected", !.socket = s])
    BY <1>2 DEF Connect
  <2> DEFINE q == [screen[c] EXCEPT !.link = "connected", !.socket = s]
             k == [at |-> "asking", worker |-> w, client |-> c, deaf |-> FALSE]
  <2>2. q \in Screen /\ q.link = "connected" /\ q.socket = s
    BY <1>a, Reconnected DEF Links
  <2>3. k \in Socket /\ k.at = "asking" /\ k.worker = w
    BY DEF Socket, Stages
  <2>4. Set(c, q) /\ sockets' = [sockets EXCEPT ![s] = k]
    BY <2>1
  <2> HIDE DEF q, k
  <2>5. /\ screen' \in [Clients -> Screen] /\ screen'[c] = q
        /\ \A d \in Clients : d # c => screen'[d] = screen[d]
    BY <2>2, <2>4, PageSet DEF RealtimeInv
  <2>6. /\ sockets' \in [Sockets -> Socket] /\ sockets'[s] = k
        /\ \A r \in Sockets : r # s => sockets'[r] = sockets[r]
    BY <2>3, <2>4 DEF RealtimeInv, Plain
  <2>7. ~Held(s) /\ s \notin sending[w] /\ screen[c].socket = NoSocket
    BY <1>a, <2>1 DEF Free, Held, RealtimeInv, Connected
  <2>u. UNCHANGED <<truth, owed, subscribed, channel, sending, registered, live, troubles, gaps, inbox, cut>>
    BY <2>1 DEF Connect, hub
  <2>8. Plain'
    BY <2>u, <2>5, <2>6 DEF RealtimeInv, Plain
  <2>9. \A d \in Clients : Connected(d)'
    BY <2>2, <2>5, Constants DEF RealtimeInv, Connected
  <2>10. \A r \in Sockets : (Held(r) => Held(r)') /\ Held(s)'
    BY <2>2, <2>5, <2>7, Constants DEF Held
  <2>0. Due' = Due /\ \A r \in Sockets : Size(r)' = Size(r)
    BY <2>u DEF Due, Size
  <2>11. ASSUME NEW r \in Sockets PROVE InHub(r)' /\ AtHome(r)' /\ Owned(r)' /\ Counted(r)'
    <3>1. InHub(r)' /\ AtHome(r)'
      BY <2>1, <2>u, <2>3, <2>6 DEF RealtimeInv, InHub, AtHome, Free
    <3>2. Owned(r)'
      BY <2>u, <2>0, <2>6, <2>10 DEF RealtimeInv, Plain, Owned
    <3>3. Counted(r)'
      <4>1. CASE r # s
        BY <4>1, <2>u, <2>0, <2>6 DEF RealtimeInv, Counted, ToCome
      <4>2. CASE r = s
        <5>1. Size(s) = 0 /\ channel[w] + Due <= truth
          BY <1>b, <2>7 DEF RealtimeInv, Owned
        <5>2. ToCome(s)' = channel[w] + Due + 0 + 1
          BY <2>u, <2>0, <2>3, <2>6, <2>7 DEF ToCome, One
        <5>3. channel[w] \in Nat /\ truth \in Nat
          BY DEF RealtimeInv, Plain
        <5> QED BY <1>b, <2>0, <4>2, <5>1, <5>2, <5>3, <2>u DEF Counted
      <4> QED BY <4>1, <4>2
    <3> QED BY <3>1, <3>2, <3>3
  <2> QED BY <2>u, <2>0, <2>8, <2>9, <2>11 DEF RealtimeInv
<1> QED BY <1>1, <1>2

-----------------------------------------------------------------------------
(* Writers, workers and handlers                                             *)

\* What a step leaves to prove that moves no page.
LEMMA PagesAside ==
  ASSUME RealtimeInv, Plain', UNCHANGED screen,
         \A w \in Workers : channel'[w] + Due' <= truth',
         \A s \in Sockets : InHub(s)' /\ AtHome(s)',
         \A s \in Sockets : sockets'[s].at # "free" /\ s \notin cut' =>
                              sockets[s].at # "free" /\ s \notin cut,
         \A s \in Sockets : Size(s)' > 0 => Size(s) > 0 \/ (sockets[s].at # "free" /\ s \notin cut),
         \A s \in Sockets : Counted(s)'
  PROVE  RealtimeInv'
<1>1. \A s \in Sockets : Held(s)' <=> Held(s)
  BY DEF Held
<1>2. \A s \in Sockets : Owned(s)'
  BY <1>1 DEF RealtimeInv, Owned
<1>3. \A c \in Clients : Connected(c)'
  BY DEF RealtimeInv, Connected
<1> QED BY <1>2, <1>3 DEF RealtimeInv

LEMMA WriterRuns == ASSUME RealtimeInv, Write \/ Publish \/ PublishFails PROVE RealtimeInv'
<1>a. Plain /\ \A w \in Workers : channel[w] + Due <= truth
  BY DEF RealtimeInv
<1>b. \A s \in Sockets : InHub(s) /\ AtHome(s) /\ Counted(s) /\ sockets[s].worker \in Workers /\ Size(s) \in Nat
  BY Sizes DEF RealtimeInv, Plain, Socket
<1>c. IsFiniteSet(owed) /\ Due \in Nat /\ truth + 1 \notin owed
  BY <1>a, Sizes
<1>1. /\ UNCHANGED <<subscribed, sending, registered, sockets, inbox, cut, screen, live>>
      /\ truth' \in {truth, truth + 1} /\ truth' <= MaxWrites
      /\ owed' \subseteq 1..truth' /\ Due' \in Nat /\ channel' \in [Workers -> Nat]
      /\ \A w \in Workers : channel'[w] + Due' - truth' <= channel[w] + Due - truth
      /\ troubles' \in 0..MaxTroubles /\ gaps' \subseteq Versions
  <2>1. CASE Write
    <3>1. truth' = truth + 1 /\ truth + 1 \in Versions /\ truth' <= MaxWrites
      BY <1>a, <2>1, Constants DEF Write, Plain
    <3>2. owed' \in {owed, owed \cup {truth + 1}} /\ gaps' \in {gaps, gaps \cup {truth + 1}}
      BY <2>1 DEF Write
    <3>3. Due' \in {Due, Due + 1}
      BY <1>c, <3>2, FS_AddElement DEF Due
    <3>4. owed' \subseteq 1..truth' /\ gaps' \subseteq Versions
      BY <1>a, <3>1, <3>2 DEF Plain
    <3> QED BY <1>a, <1>c, <2>1, <3>1, <3>3, <3>4 DEF Write, Plain, hub
  <2>2. ASSUME Publish \/ PublishFails PROVE owed' \subseteq owed /\ Due' = Due - 1 /\ Due' \in Nat
    <3>1. PICK v \in owed : owed' = owed \ {v}
      BY <2>2 DEF Publish, PublishFails
    <3>2. IsFiniteSet(owed') /\ Cardinality(owed') = Cardinality(owed) - 1
      BY <1>c, <3>1, FS_RemoveElement
    <3> QED BY <3>1, <3>2, FS_CardinalityType DEF Due
  <2>3. CASE Publish
    BY <1>a, <1>c, <2>2, <2>3, Constants DEF Publish, Plain
  <2>4. CASE PublishFails
    <3>1. channel' = channel \/ \E w \in Workers : channel' = [channel EXCEPT ![w] = @ + 1]
      BY <2>4 DEF PublishFails
    <3>2. channel \in [Workers -> Nat] /\ truth' = truth /\ truth \in Nat /\ truth <= MaxWrites
      BY <1>a, <2>4 DEF PublishFails, Plain
    <3>3. channel' \in [Workers -> Nat]
          /\ \A w \in Workers : channel'[w] + Due' - truth' <= channel[w] + Due - truth
      BY <1>c, <2>2, <2>4, <3>1, <3>2
    <3>4. troubles' \in 0..MaxTroubles
      BY <1>a, <2>4, Constants DEF PublishFails, Trouble, Plain
    <3>5. gaps' \subseteq Versions /\ owed' \subseteq 1..truth'
      BY <1>a, <2>2, <2>4, <3>2, Constants DEF PublishFails, Plain
    <3> QED BY <2>2, <2>4, <3>2, <3>3, <3>4, <3>5 DEF PublishFails
  <2> QED BY <2>1, <2>3, <2>4
<1>2. Plain'
  BY <1>a, <1>1 DEF Plain
<1>3. \A w \in Workers : channel'[w] + Due' <= truth'
  BY <1>a, <1>c, <1>1 DEF Plain
<1>d. \A s \in Sockets : Size(s)' = Size(s)
  BY <1>1 DEF Size
<1>4. ASSUME NEW s \in Sockets PROVE InHub(s)' /\ AtHome(s)' /\ Counted(s)'
  <2>1. InHub(s)' /\ AtHome(s)'
    BY <1>1, <1>b DEF InHub, AtHome
  <2>2. Size(s) <= truth' + 1
    BY <1>a, <1>b, <1>1 DEF Counted, Plain
  <2>3. ASSUME sockets[s].at # "free" PROVE Size(s) + ToCome(s)' <= truth' + 1
    <3>1. PICK w \in Workers : w = sockets[s].worker
      BY <1>b
    <3>2. PICK n \in Nat : n = One(s \in sending[w]) + One(sockets[s].at \in {"asking", "accepted", "joined"})
      BY DEF One
    <3>3. ToCome(s) = channel[w] + Due + n
      BY <1>a, <1>c, <3>1, <3>2 DEF ToCome, One, Plain
    <3>4. ToCome(s)' = channel'[w] + Due' + n
      BY <1>1, <3>1, <3>2 DEF ToCome, One
    <3>5. /\ channel[w] \in Nat /\ channel'[w] \in Nat /\ truth \in Nat /\ truth' \in Nat /\ Due' \in Nat
          /\ channel'[w] + Due' - truth' <= channel[w] + Due - truth
      BY <1>a, <1>1 DEF Plain
    <3>6. Size(s) + ToCome(s) <= truth + 1
      BY <1>b, <2>3 DEF Counted
    <3> QED BY <1>b, <1>c, <3>3, <3>4, <3>5, <3>6
  <2> QED BY <1>d, <1>1, <2>1, <2>2, <2>3 DEF Counted
<1> QED BY <1>d, <1>1, <1>2, <1>3, <1>4, PagesAside

LEMMA WorkerRuns ==
  ASSUME RealtimeInv, NEW w \in Workers, NEW s \in Sockets \cup {NoSocket}, Deliver(w) \/ SendTo(w, s)
  PROVE  RealtimeInv'
<1>a. Plain /\ \A v \in Workers : channel[v] + Due <= truth
  BY DEF RealtimeInv
<1>b. \A r \in Sockets : InHub(r) /\ AtHome(r) /\ Counted(r) /\ sockets[r].worker \in Workers /\ Size(r) \in Nat
  BY Sizes DEF RealtimeInv, Plain, Socket
<1>c. Due' = Due /\ Due \in Nat
  BY <1>a, Sizes DEF Due, Deliver, SendTo
<1>1. CASE Deliver(w)
  <2>1. Plain'
    BY <1>a, <1>1, Constants DEF Plain, Deliver
  <2>2. \A v \in Workers : channel'[v] + Due' <= truth'
    BY <1>a, <1>c, <1>1 DEF Plain, Deliver
  <2>0. \A r \in Sockets : Size(r)' = Size(r)
    BY <1>1 DEF Deliver, Size
  <2>3. ASSUME NEW r \in Sockets PROVE InHub(r)' /\ AtHome(r)' /\ Counted(r)'
    <3>1. InHub(r)'
      BY <1>b, <1>1 DEF InHub, Deliver
    <3>0. AtHome(r)'
      BY <1>a, <1>b, <1>1 DEF AtHome, Deliver, Plain
    <3>2. \A v \in Workers : channel'[v] + One(r \in sending'[v]) <= channel[v] + One(r \in sending[v])
      BY <1>a, <1>1 DEF Plain, Deliver, One
    <3>3. ToCome(r)' <= ToCome(r) /\ ToCome(r) \in Nat /\ ToCome(r)' \in Nat
      <4>1. PICK v \in Workers : v = sockets[r].worker
        BY <1>b
      <4>2. PICK n \in Nat : n = One(sockets[r].at \in {"asking", "accepted", "joined"})
        BY DEF One
      <4>3. ToCome(r) = channel[v] + Due + One(r \in sending[v]) + n
        BY <4>1, <4>2 DEF ToCome
      <4>4. ToCome(r)' = channel'[v] + Due + One(r \in sending'[v]) + n
        BY <1>c, <1>1, <4>1, <4>2 DEF ToCome, Deliver
      <4>5. channel[v] \in Nat /\ channel'[v] \in Nat /\ One(r \in sending[v]) \in Nat /\ One(r \in sending'[v]) \in Nat
        BY <1>a, <2>1 DEF Plain, One
      <4> QED BY <1>c, <3>2, <4>3, <4>4, <4>5
    <3> QED BY <1>a, <1>b, <1>1, <2>0, <3>0, <3>1, <3>3 DEF Deliver, Counted, Plain
  <2> QED BY <1>1, <2>0, <2>1, <2>2, <2>3, PagesAside DEF Deliver
<1>2. CASE SendTo(w, s)
  <2>a. /\ s \in sending[w] /\ sending' = [sending EXCEPT ![w] = @ \ {s}]
        /\ UNCHANGED <<truth, owed, subscribed, channel, screen, live, gaps>>
    BY <1>2 DEF SendTo
  <2>b. \/ /\ Reachable(s) /\ inbox' = [inbox EXCEPT ![s] = Append(@, "event")]
           /\ UNCHANGED <<registered, sockets, cut, troubles>>
        \/ /\ registered' = [registered EXCEPT ![w] = @ \ {s}]
           /\ cut' = IF s \in Sockets /\ sockets[s].at # "free" THEN cut \cup {s} ELSE cut
           /\ UNCHANGED <<inbox, sockets, troubles>>
        \/ /\ Reachable(s) /\ Trouble
           /\ registered' = [registered EXCEPT ![w] = @ \ {s}]
           /\ sockets' = [sockets EXCEPT ![s].deaf = TRUE]
           /\ UNCHANGED <<inbox, cut>>
    BY <1>2 DEF SendTo
  <2>c. /\ sockets' \in [Sockets -> Socket] /\ troubles' \in 0..MaxTroubles
        /\ \A r \in Sockets : sockets'[r].at = sockets[r].at /\ sockets'[r].worker = sockets[r].worker
    <3>1. sockets \in [Sockets -> Socket] /\ troubles \in 0..MaxTroubles
      BY <1>a DEF Plain
    <3>2. CASE UNCHANGED <<sockets, troubles>>
      BY <3>1, <3>2
    <3>3. CASE Reachable(s) /\ Trouble /\ sockets' = [sockets EXCEPT ![s].deaf = TRUE]
      <4>1. s \in Sockets /\ troubles' \in 0..MaxTroubles
        BY <3>1, <3>3, Constants DEF Reachable, Trouble
      <4>2. sockets' \in [Sockets -> Socket] /\ sockets'[s] = [sockets[s] EXCEPT !.deaf = TRUE]
            /\ \A r \in Sockets : r # s => sockets'[r] = sockets[r]
        BY <3>1, <3>3, <4>1 DEF Socket
      <4>3. sockets'[s].at = sockets[s].at /\ sockets'[s].worker = sockets[s].worker
        BY <3>1, <4>1, <4>2 DEF Socket
      <4> QED BY <4>1, <4>2, <4>3
    <3> QED BY <2>b, <3>2, <3>3
  <2>e. ASSUME NEW r \in Sockets, sockets[r].deaf PROVE sockets'[r].deaf
    <3>1. CASE sockets' = sockets
      BY <2>e, <3>1
    <3>2. CASE Reachable(s) /\ sockets' = [sockets EXCEPT ![s].deaf = TRUE]
      <4>1. CASE r = s
        BY <1>a, <3>2, <4>1 DEF Plain, Socket
      <4>2. CASE r # s
        BY <1>a, <2>e, <3>2, <4>2 DEF Plain
      <4> QED BY <4>1, <4>2
    <3> QED BY <2>b, <3>1, <3>2
  <2>d. /\ inbox' \in [Sockets -> Seq(Messages)]
        /\ \A r \in Sockets :
             \/ Size(r)' = Size(r)
             \/ Size(r)' = Size(r) + 1 /\ r = s /\ sockets[r].at # "free" /\ r \notin cut
    <3>1. CASE inbox' = inbox
      BY <1>a, <3>1 DEF Plain, Size
    <3>2. CASE Reachable(s) /\ inbox' = [inbox EXCEPT ![s] = Append(@, "event")]
      <4>1. s \in Sockets /\ "event" \in Messages /\ sockets[s].at # "free" /\ s \notin cut
        BY <3>2 DEF Reachable, Messages
      <4>2. /\ inbox' \in [Sockets -> Seq(Messages)] /\ Size(s)' = Size(s) + 1
            /\ \A r \in Sockets : r # s => inbox'[r] = inbox[r]
        BY <1>a, <3>2, <4>1, Sent
      <4> QED BY <4>1, <4>2 DEF Size
    <3> QED BY <2>b, <3>1, <3>2
  <2>1. Plain'
    <3>1. sending' \in [Workers -> SUBSET (Sockets \cup {NoSocket})]
      BY <1>a, <2>a DEF Plain
    <3>2. registered' \in [Workers -> SUBSET (Sockets \cup {NoSocket})]
      BY <1>a, <2>b DEF Plain
    <3>4. cut' \subseteq Sockets
      BY <1>a, <2>b DEF Plain
    <3> QED BY <1>a, <2>a, <2>c, <2>d, <3>1, <3>2, <3>4 DEF Plain
  <2>2. \A v \in Workers : channel'[v] + Due' <= truth'
    BY <1>a, <1>c, <2>a
  <2>3. /\ \A v \in Workers : registered'[v] \subseteq registered[v]
        /\ \A v \in Workers, r \in Sockets :
             r \in registered[v] \ registered'[v] =>
               r = s /\ (r \in cut' \/ sockets[r].at = "free" \/ sockets'[r].deaf)
        /\ cut \subseteq cut'
    <3>1. CASE registered' = registered /\ cut' = cut
      BY <3>1
    <3>2. CASE /\ registered' = [registered EXCEPT ![w] = @ \ {s}]
               /\ cut' = IF s \in Sockets /\ sockets[s].at # "free" THEN cut \cup {s} ELSE cut
      BY <1>a, <3>2 DEF Plain
    <3>3. CASE /\ Reachable(s) /\ registered' = [registered EXCEPT ![w] = @ \ {s}]
               /\ sockets' = [sockets EXCEPT ![s].deaf = TRUE] /\ cut' = cut
      <4>1. s \in Sockets /\ sockets'[s].deaf
        BY <1>a, <3>3 DEF Reachable, Plain, Socket
      <4> QED BY <1>a, <3>3, <4>1 DEF Plain
    <3> QED BY <2>b, <3>1, <3>2, <3>3
  <2>4. \A v \in Workers : sending'[v] \subseteq sending[v]
    BY <1>a, <2>a DEF Plain
  <2>5. ASSUME NEW r \in Sockets PROVE InHub(r)' /\ AtHome(r)'
    <3>1. InHub(r)'
      <4> SUFFICES ASSUME r \notin cut', ~sockets'[r].deaf
                   PROVE  /\ sockets'[r].at \in {"accepted", "joined", "serving"}
                               => r \in registered'[sockets'[r].worker]
                          /\ sockets'[r].at \in {"joined", "serving"} => sockets'[r].worker \in subscribed'
        BY DEF InHub
      <4>1. r \notin cut /\ ~sockets[r].deaf
        BY <2>3, <2>e
      <4>2. /\ sockets[r].at \in {"accepted", "joined", "serving"} => r \in registered[sockets[r].worker]
            /\ sockets[r].at \in {"joined", "serving"} => sockets[r].worker \in subscribed
        BY <1>b, <4>1 DEF InHub
      <4> QED BY <1>b, <2>a, <2>c, <2>3, <4>2
    <3>2. AtHome(r)'
      BY <1>b, <2>c, <2>3, <2>4 DEF AtHome
    <3> QED BY <3>1, <3>2
  <2>7. ASSUME NEW r \in Sockets PROVE Counted(r)'
    <3>1. PICK v \in Workers : v = sockets[r].worker
      BY <1>b
    <3>2. PICK n \in Nat : n = channel[v] + Due + One(sockets[r].at \in {"asking", "accepted", "joined"})
      <4>1. channel[v] \in Nat /\ One(sockets[r].at \in {"asking", "accepted", "joined"}) \in Nat
        BY <1>a DEF Plain, One
      <4> QED BY <1>c, <4>1
    <3>3. ToCome(r) = n + One(r \in sending[v])
      BY <1>a, <1>c, <3>1, <3>2 DEF ToCome, Plain, One
    <3>4. ToCome(r)' = n + One(r \in sending'[v])
      BY <1>a, <1>c, <2>a, <2>c, <3>1, <3>2 DEF ToCome, Plain, One
    <3>5. One(r \in sending'[v]) <= One(r \in sending[v]) /\ One(r \in sending'[v]) \in Nat /\ One(r \in sending[v]) \in Nat
      BY <2>4 DEF One
    <3>6. CASE Size(r)' = Size(r)
      <4>1. ToCome(r)' <= ToCome(r) /\ ToCome(r) \in Nat /\ ToCome(r)' \in Nat
        BY <3>2, <3>3, <3>4, <3>5
      <4>2. Counted(r) /\ Size(r) \in Nat /\ truth' = truth /\ truth \in Nat /\ sockets'[r].at = sockets[r].at
        BY <1>a, <1>b, <2>a, <2>c DEF Plain
      <4> QED BY <3>6, <4>1, <4>2 DEF Counted
    <3>7. CASE Size(r)' = Size(r) + 1 /\ r = s /\ sockets[r].at # "free"
      <4>1. w = v
        BY <1>b, <2>a, <3>1, <3>7 DEF AtHome
      <4>2. r \in sending[v] /\ r \notin sending'[v]
        BY <1>a, <2>a, <3>7, <4>1 DEF Plain
      <4>3. ToCome(r)' + 1 = ToCome(r) /\ ToCome(r) \in Nat /\ ToCome(r)' \in Nat
        BY <3>3, <3>4, <4>2 DEF One
      <4> QED BY <1>a, <1>b, <2>a, <2>c, <3>7, <4>3 DEF Counted, Plain
    <3> QED BY <2>d, <3>6, <3>7
  <2> QED BY <2>1, <2>a, <2>c, <2>d, <2>2, <2>3, <2>5, <2>7, PagesAside
<1> QED BY <1>1, <1>2

\* A handler's step is about its own connection; the others keep their place in
\* the hubs, and their worker its subscription.
LEMMA HandlerSteps ==
  ASSUME RealtimeInv, Plain', NEW s \in Sockets,
         UNCHANGED <<truth, owed, channel, sending, screen>>,
         \A r \in Sockets : r # s =>
            /\ sockets'[r] = sockets[r] /\ inbox'[r] = inbox[r]
            /\ r \notin cut' => r \notin cut
            /\ \A w \in Workers : r \in registered'[w] <=> r \in registered[w]
            /\ \A w \in Workers : w \in subscribed /\ r \in registered[w] => w \in subscribed',
         InHub(s)' /\ AtHome(s)' /\ Counted(s)',
         sockets'[s].at # "free" /\ s \notin cut' => sockets[s].at # "free" /\ s \notin cut,
         Size(s)' > 0 => Size(s) > 0 \/ (sockets[s].at # "free" /\ s \notin cut)
  PROVE  RealtimeInv'
<1>0. Due' = Due /\ \A r \in Sockets : r # s => Size(r)' = Size(r)
  BY DEF Due, Size
<1>1. ASSUME NEW r \in Sockets, r # s PROVE InHub(r)' /\ AtHome(r)' /\ Counted(r)'
  <2>1. sockets[r].worker \in Workers
    BY DEF RealtimeInv, Plain, Socket
  <2>2. InHub(r)'
    BY <1>1, <2>1 DEF RealtimeInv, InHub
  <2>3. AtHome(r)'
    BY <1>1, <2>1 DEF RealtimeInv, AtHome
  <2>4. Counted(r)'
    BY <1>0, <1>1 DEF RealtimeInv, Counted, ToCome
  <2> QED BY <2>2, <2>3, <2>4
<1>2. \A r \in Sockets : InHub(r)' /\ AtHome(r)' /\ Counted(r)'
  BY <1>1
<1>3. \A w \in Workers : channel'[w] + Due' <= truth'
  BY <1>0 DEF RealtimeInv
<1>4. \A r \in Sockets : sockets'[r].at # "free" /\ r \notin cut' => sockets[r].at # "free" /\ r \notin cut
  OBVIOUS
<1>5. \A r \in Sockets : Size(r)' > 0 => Size(r) > 0 \/ (sockets[r].at # "free" /\ r \notin cut)
  BY <1>0
<1> QED BY <1>2, <1>3, <1>4, <1>5, PagesAside

\* The end of a handler, however it comes about.
LEMMA HandlerEnds ==
  ASSUME RealtimeInv, NEW s \in Sockets, End(s),
         UNCHANGED <<truth, owed, channel, sending, inbox, screen, live, gaps>>,
         troubles' \in 0..MaxTroubles, subscribed' \subseteq Workers,
         registered' \in [Workers -> SUBSET (Sockets \cup {NoSocket})],
         \A r \in Sockets : r # s =>
            /\ \A w \in Workers : r \in registered'[w] <=> r \in registered[w]
            /\ \A w \in Workers : w \in subscribed /\ r \in registered[w] => w \in subscribed'
  PROVE  RealtimeInv'
<1>1. /\ sockets' \in [Sockets -> Socket] /\ sockets'[s].at = "free"
      /\ \A r \in Sockets : r # s => sockets'[r] = sockets[r]
      /\ cut' \subseteq Sockets /\ \A r \in Sockets : r # s => (r \in cut' <=> r \in cut)
  BY Ended DEF RealtimeInv
<1>2. Plain'
  BY <1>1 DEF RealtimeInv, Plain
<1>0. Size(s)' = Size(s)
  BY DEF Size
<1>3. InHub(s)' /\ AtHome(s)' /\ Counted(s)'
  BY <1>0, <1>1 DEF RealtimeInv, InHub, AtHome, Counted
<1> QED BY <1>0, <1>1, <1>2, <1>3, HandlerSteps

LEMMA HandlerRuns ==
  ASSUME RealtimeInv, NEW s \in Sockets,
         Handler(s) \/ RedisFails(s) \/ LoopFails(s) \/ Drop(s)
  PROVE  RealtimeInv'
<1> DEFINE w == sockets[s].worker
<1>a. Plain /\ w \in Workers /\ Size(s) \in Nat /\ Due \in Nat /\ sockets[s] \in Socket
  BY Sizes DEF RealtimeInv, Plain, Socket
<1>u. UNCHANGED owed => Due' = Due
  BY DEF Due
<1>v. UNCHANGED inbox => Size(s)' = Size(s)
  BY DEF Size
<1>b. InHub(s) /\ AtHome(s) /\ Counted(s)
  BY DEF RealtimeInv
<1>c. {"accepted", "joined", "serving", "leaving"} \subseteq Stages /\ ToCome(s) \in Nat
  BY <1>a DEF Stages, ToCome, Plain, One
<1>1. CASE Accept(s)
  <2>1. CASE sockets[s].client \in live
    <3>0. /\ Move(s, "accepted") /\ sockets[s].at = "asking"
          /\ UNCHANGED <<truth, owed, subscribed, channel, sending, inbox, screen, cut>>
          /\ registered' = [registered EXCEPT ![w] = @ \cup {s}]
      BY <1>1, <2>1 DEF Accept
    <3>1. /\ sockets' \in [Sockets -> Socket] /\ sockets'[s].at = "accepted" /\ sockets'[s].worker = w
          /\ \A r \in Sockets : r # s => sockets'[r] = sockets[r]
      BY <1>a, <1>c, <3>0, StageSet
    <3> HIDE DEF w
    <3>2. /\ registered' \in [Workers -> SUBSET (Sockets \cup {NoSocket})] /\ s \in registered'[w]
          /\ \A v \in Workers : v # w => registered'[v] = registered[v]
          /\ \A v \in Workers, r \in Sockets : r # s => (r \in registered'[v] <=> r \in registered[v])
      BY <1>a, <3>0 DEF Plain
    <3>3. Plain'
      BY <1>a, <1>1, <3>0, <3>1, <3>2 DEF Plain, Accept
    <3>4. InHub(s)'
      BY <3>1, <3>2 DEF InHub
    <3>5. AtHome(s)'
      BY <1>b, <3>0, <3>1, <3>2 DEF AtHome, w
    <3>6. Counted(s)'
      BY <1>u, <1>v, <1>b, <3>0, <3>1 DEF Counted, ToCome, w
    <3> QED BY <1>v, <3>0, <3>1, <3>2, <3>3, <3>4, <3>5, <3>6, HandlerSteps
  <2>2. CASE sockets[s].client \notin live
    <3>1. End(s) /\ UNCHANGED <<truth, owed, subscribed, channel, sending, registered, inbox, screen, live, gaps, troubles>>
      BY <1>1, <2>2 DEF Accept
    <3> QED BY <1>a, <3>1, HandlerEnds DEF Plain
  <2> QED BY <2>1, <2>2
<1>2. CASE Subscribe(s)
  <2>0. /\ Move(s, "joined") /\ sockets[s].at = "accepted"
        /\ UNCHANGED <<truth, owed, registered, channel, sending, inbox, screen, cut>>
        /\ subscribed' = subscribed \cup {w}
    BY <1>2 DEF Subscribe
  <2>1. /\ sockets' \in [Sockets -> Socket] /\ sockets'[s].at = "joined" /\ sockets'[s].worker = w
        /\ sockets'[s].deaf = sockets[s].deaf
        /\ \A r \in Sockets : r # s => sockets'[r] = sockets[r]
    BY <1>a, <1>c, <2>0, StageSet
  <2>2. Plain'
    BY <1>a, <1>2, <2>0, <2>1 DEF Plain, Subscribe
  <2>3. InHub(s)' /\ AtHome(s)' /\ Counted(s)'
    BY <1>u, <1>v, <1>b, <2>0, <2>1 DEF InHub, AtHome, Counted, ToCome
  <2> QED BY <1>v, <2>0, <2>1, <2>2, <2>3, HandlerSteps
<1>3. CASE Ready(s)
  <2>0. /\ Move(s, "serving") /\ sockets[s].at = "joined" /\ s \notin cut
        /\ UNCHANGED <<truth, owed, hub, screen, cut>>
        /\ inbox' = [inbox EXCEPT ![s] = Append(@, "ready")] /\ "ready" \in Messages
    BY <1>3 DEF Ready, Messages
  <2>1. /\ sockets' \in [Sockets -> Socket] /\ sockets'[s].at = "serving" /\ sockets'[s].worker = w
        /\ sockets'[s].deaf = sockets[s].deaf
        /\ \A r \in Sockets : r # s => sockets'[r] = sockets[r]
    BY <1>a, <1>c, <2>0, StageSet
  <2>2. inbox' \in [Sockets -> Seq(Messages)] /\ Size(s)' = Size(s) + 1
        /\ \A r \in Sockets : r # s => inbox'[r] = inbox[r]
    BY <1>a, <2>0, Sent
  <2>3. Plain'
    BY <1>a, <1>3, <2>0, <2>1, <2>2 DEF Plain, Ready, hub
  <2>4. InHub(s)' /\ AtHome(s)'
    BY <1>b, <2>0, <2>1 DEF InHub, AtHome, hub
  <2>5. ToCome(s)' + 1 = ToCome(s) /\ ToCome(s)' \in Nat
    BY <1>a, <1>u, <2>0, <2>1 DEF ToCome, One, hub, Plain
  <2>6. Counted(s)'
    BY <1>a, <1>b, <1>c, <2>0, <2>1, <2>2, <2>5 DEF Counted, Plain
  <2> QED BY <2>0, <2>1, <2>2, <2>3, <2>4, <2>6, HandlerSteps DEF hub
<1>4. CASE GoneEarly(s) \/ RedisFails(s)
  <2>1. /\ EndEarly(s) /\ End(s)
        /\ UNCHANGED <<truth, owed, subscribed, channel, sending, inbox, screen, live, gaps>>
        /\ registered' = [registered EXCEPT ![w] = IF s \in @ THEN (@ \ {s}) \cup {NoSocket} ELSE @]
    BY <1>4 DEF GoneEarly, RedisFails, EndEarly
  <2>2. troubles' \in 0..MaxTroubles
    BY <1>a, <1>4, Constants DEF GoneEarly, RedisFails, Trouble, Plain
  <2> HIDE DEF w
  <2>3. /\ registered' \in [Workers -> SUBSET (Sockets \cup {NoSocket})]
        /\ \A r \in Sockets : r # s => \A v \in Workers : r \in registered'[v] <=> r \in registered[v]
    BY <1>a, <2>1, Constants DEF Plain
  <2> QED BY <1>a, <2>1, <2>2, <2>3, HandlerEnds DEF Plain
<1>5. CASE EndLoop(s) \/ LoopFails(s)
  <2>0. /\ Move(s, "leaving") /\ sockets[s].at = "serving" /\ cut' = cut \cup {s}
        /\ UNCHANGED <<truth, owed, hub, screen, inbox>>
    BY <1>5 DEF EndLoop, LoopFails
  <2>1. /\ sockets' \in [Sockets -> Socket] /\ sockets'[s].at = "leaving" /\ sockets'[s].worker = w
        /\ \A r \in Sockets : r # s => sockets'[r] = sockets[r]
    BY <1>a, <1>c, <2>0, StageSet
  <2>2. Plain'
    <3>1. troubles' \in 0..MaxTroubles
      BY <1>a, <1>5, Constants DEF EndLoop, LoopFails, Trouble, Plain
    <3> QED BY <1>a, <1>5, <2>0, <2>1, <3>1 DEF Plain, EndLoop, LoopFails, hub
  <2>3. InHub(s)' /\ AtHome(s)' /\ Counted(s)'
    BY <1>u, <1>v, <1>b, <2>0, <2>1 DEF InHub, AtHome, Counted, ToCome, hub
  <2> QED BY <1>v, <2>0, <2>1, <2>2, <2>3, HandlerSteps DEF hub
<1>6. CASE Disconnect(s)
  <2> DEFINE left == registered[w] \ {s}
  <2>1. /\ End(s)
        /\ UNCHANGED <<truth, owed, channel, sending, inbox, screen, live, troubles, gaps>>
        /\ registered' = [registered EXCEPT ![w] = left]
        /\ subscribed' = IF left = {} THEN subscribed \ {w} ELSE subscribed
    BY <1>6 DEF Disconnect
  <2> HIDE DEF w
  <2>2. left \in SUBSET (Sockets \cup {NoSocket})
    BY <1>a DEF Plain
  <2>3. /\ registered' \in [Workers -> SUBSET (Sockets \cup {NoSocket})]
        /\ \A r \in Sockets : r # s => \A v \in Workers : r \in registered'[v] <=> r \in registered[v]
    BY <1>a, <2>1 DEF Plain
  <2>4. \A r \in Sockets : r # s => \A v \in Workers : v \in subscribed /\ r \in registered[v] => v \in subscribed'
    BY <2>1
  <2>5. subscribed' \subseteq Workers /\ troubles' \in 0..MaxTroubles
    BY <1>a, <2>1 DEF Plain
  <2> HIDE DEF left
  <2> QED BY <2>1, <2>3, <2>4, <2>5, HandlerEnds
<1>7. CASE Drop(s)
  <2>0. /\ cut' = cut \cup {s} /\ sockets[s].at # "free"
        /\ UNCHANGED <<truth, owed, hub, sockets, inbox, screen>>
    BY <1>7 DEF Drop
  <2>1. Plain'
    BY <1>a, <1>7, Constants DEF Plain, Drop, Trouble, hub
  <2>2. InHub(s)' /\ AtHome(s)' /\ Counted(s)'
    BY <1>u, <1>v, <1>b, <2>0 DEF InHub, AtHome, Counted, ToCome, hub
  <2> QED BY <1>v, <2>0, <2>1, <2>2, HandlerSteps DEF hub
<1> QED BY <1>1, <1>2, <1>3, <1>4, <1>5, <1>6, <1>7 DEF Handler

\* A session that ends, and a step that leaves everything alone.
LEMMA NothingMoves ==
  ASSUME RealtimeInv, live' \subseteq Clients,
         UNCHANGED <<truth, owed, hub, sockets, inbox, cut, screen, troubles, gaps>>
  PROVE  RealtimeInv'
<1>1. Plain'
  BY DEF RealtimeInv, Plain, hub
<1>0. Due' = Due /\ \A s \in Sockets : Size(s)' = Size(s)
  BY DEF Due, Size
<1>2. \A s \in Sockets : InHub(s)' /\ AtHome(s)' /\ Counted(s)'
  BY <1>0 DEF RealtimeInv, InHub, AtHome, Counted, ToCome, hub
<1> QED BY <1>0, <1>1, <1>2, PagesAside DEF RealtimeInv, hub

-----------------------------------------------------------------------------
LEMMA RealtimeStarts == Init => RealtimeInv
<1> SUFFICES ASSUME Init PROVE RealtimeInv
  OBVIOUS
<1>1. \A c \in Clients : screen[c] \in Screen /\ screen[c].link = "away" /\ screen[c].socket = NoSocket
  BY Constants DEF Init, Screen, Fetches, Links
<1>2. Plain
  <2>1. screen \in [Clients -> Screen]
    BY <1>1 DEF Init
  <2>2. sockets \in [Sockets -> Socket]
    BY Constants DEF Init
  <2>3. inbox \in [Sockets -> Seq(Messages)]
    BY DEF Init
  <2>4. owed \subseteq 1..truth /\ gaps \subseteq Versions /\ truth \in Nat /\ truth <= MaxWrites
    BY Constants DEF Init
  <2>5. /\ channel \in [Workers -> Nat] /\ live \subseteq Clients /\ troubles \in 0..MaxTroubles
        /\ subscribed \subseteq Workers /\ cut \subseteq Sockets
        /\ sending \in [Workers -> SUBSET (Sockets \cup {NoSocket})]
        /\ registered \in [Workers -> SUBSET (Sockets \cup {NoSocket})]
    BY Constants DEF Init
  <2> QED BY <2>1, <2>2, <2>3, <2>4, <2>5 DEF Plain
<1>3. \A s \in Sockets : sockets[s].at = "free" /\ Size(s) = 0
  BY Constants DEF Init, Size
<1>4. \A s \in Sockets : InHub(s) /\ AtHome(s) /\ Owned(s) /\ Counted(s)
  BY <1>2, <1>3 DEF Init, InHub, AtHome, Owned, Counted
<1>5. \A c \in Clients : Connected(c)
  BY <1>1 DEF Connected
<1>6. \A w \in Workers : channel[w] + Due <= truth
  BY FS_EmptySet DEF Init, Due
<1> QED BY <1>2, <1>4, <1>5, <1>6 DEF RealtimeInv

LEMMA RealtimeSteps == RealtimeInv /\ [Next]_vars => RealtimeInv'
<1> SUFFICES ASSUME RealtimeInv, [Next]_vars PROVE RealtimeInv'
  OBVIOUS
<1>a. live \subseteq Clients /\ troubles \in 0..MaxTroubles
  BY DEF RealtimeInv, Plain
<1>1. CASE Write \/ Publish \/ PublishFails
  BY <1>1, WriterRuns
<1>2. CASE \E w \in Workers : Deliver(w) \/ \E s \in Sockets \cup {NoSocket} : SendTo(w, s)
  BY <1>2, WorkerRuns
<1>3. CASE \E s \in Sockets : Handler(s) \/ RedisFails(s) \/ LoopFails(s) \/ Drop(s)
  BY <1>3, HandlerRuns
<1>4. ASSUME NEW c \in Clients,
             Open(c) \/ Page(c) \/ Leave(c) \/ Online(c) \/ Poll(c) \/ ServeFetch(c) \/ Show(c) \/ Revoke(c)
      PROVE  RealtimeInv'
  <2>1. CASE Open(c) \/ RequestTicket(c) \/ Poll(c) \/ ServeFetch(c) \/ Show(c) \/ Receive(c)
    BY <2>1, PageRuns
  <2>2. CASE Connect(c)
    BY <2>2, PageConnects
  <2>3. CASE OnClose(c)
    BY <1>a, <2>3, PageLetsGo DEF OnClose
  <2>4. CASE Leave(c)
    BY <1>a, <2>4, PageLetsGo DEF Leave, HangUp
  <2>5. CASE Online(c)
    <3>1. troubles' \in 0..MaxTroubles
      BY <1>a, <2>5, Constants DEF Online, Trouble
    <3> QED BY <2>5, <3>1, PageLetsGo DEF Online, HangUp
  <2>6. CASE Revoke(c)
    BY <1>a, <2>6, NothingMoves DEF Revoke
  <2> QED BY <1>4, <2>1, <2>2, <2>3, <2>4, <2>5, <2>6 DEF Page
<1>5. CASE UNCHANGED vars
  BY <1>a, <1>5, NothingMoves DEF vars, hub
<1> QED BY <1>1, <1>2, <1>3, <1>4, <1>5 DEF Next

LEMMA RealtimeInvariant == Spec => []RealtimeInv
BY RealtimeStarts, RealtimeSteps, PTL DEF Spec

\* No queue, and no connection's inbox, ever holds more than one event for each
\* change and the greeting.
THEOREM RealtimeTypeCorrect == Spec => []RealtimeTypeOK
<1>1. RealtimeInv => RealtimeTypeOK
  <2> SUFFICES ASSUME RealtimeInv PROVE RealtimeTypeOK
    OBVIOUS
  <2>1. Plain /\ (\A w \in Workers : channel[w] + Due <= truth) /\ Due \in Nat
    BY Sizes DEF RealtimeInv
  <2>2. truth \in Versions /\ owed \subseteq Versions
    BY <2>1, RealtimeAssumption, Constants DEF Plain
  <2>3. channel \in [Workers -> 0..MaxWrites]
    BY <2>1, Constants DEF Plain
  <2>4. \A s \in Sockets : inbox[s] \in Seq(Messages) /\ Len(inbox[s]) <= MaxWrites + 1
    <3>1. \A s \in Sockets : inbox[s] \in Seq(Messages) /\ Size(s) \in Nat /\ Size(s) <= truth + 1
      BY <2>1, Sizes DEF RealtimeInv, Counted
    <3> QED BY <2>1, <3>1, Constants DEF Plain, Size
  <2> QED BY <2>1, <2>2, <2>3, <2>4 DEF Plain, RealtimeTypeOK
<1> QED BY <1>1, RealtimeInvariant, PTL

\* Whoever was told that the connection is ready is in the hub of a worker that
\* listens, whatever other connections of the worker come, fail and go
\* (realtime.py 151-168), unless a check of its own failed during a delivery.
THEOREM ReadyAlwaysHears == Spec => []ReadyHears
<1>1. RealtimeInv => ReadyHears
  BY DEF RealtimeInv, ReadyHears, InHub
<1> QED BY <1>1, RealtimeInvariant, PTL
=============================================================================

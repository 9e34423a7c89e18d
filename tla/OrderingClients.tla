--------------------------- MODULE OrderingClients --------------------------
(***************************************************************************)
(* The web app's ordering screens at one table and the line between them    *)
(* and the API: the waiter's order builder, the till, the guest's QR menu   *)
(* and the delivery desk. A screen makes one call at a time; the call can   *)
(* fail on the screen while its request is still executed, and a screen can *)
(* be reloaded, which empties its memory.                                   *)
(***************************************************************************)
EXTENDS CommandApi

CONSTANT MaxTroubles \* bound: calls that fail on the way and pages that are reloaded

ASSUME TroubleAssumption == MaxTroubles \in Nat

VARIABLES
  wanted,    \* things people have wanted so far: 1..wanted
  minted,    \* keys drawn so far (crypto.randomUUID)
  calling,   \* the command of the device's open call
  seen,      \* the check the waiter and the till have on screen, as they last read it
  draft,     \* the waiter's pending lines, the guest's cart, the desk's lines
  draftKey,  \* the key kept with the draft: submissionKey, idempotencyKeyRef
  retained,  \* commands whose outcome is unknown: PendingCommands, pendingIntent
  faults, reloads,
  announced  \* how often a success was announced under each key

clientVars == <<wanted, minted, calling, seen, draft, draftKey, retained, faults, reloads,
                announced>>
vars == <<apiVars, clientVars>>

NoCommand == [from |-> Waiter, to |-> "orders", check |-> 0, key |-> DeviceKey(0),
              items |-> {}, amount |-> 0, open |-> FALSE]
NoKey  == DeviceKey(0)

\* What PendingCommands files a command under: the table and the product, or
\* the order and the amount (the order of the check is not part of the first).
Intent(m) == IF m.to = "payments" THEN <<"payment", m.check, m.amount>>
             ELSE <<"product", 0, CHOOSE p \in Products : \E w \in m.items : ProductOf(w) = p>>

Idle(d) == calling[d] = NoCommand

ClientTypeOK ==
  /\ wanted \in 0..MaxWishes /\ minted \in 0..MaxKeys
  /\ calling \in [Devices -> Command \cup {NoCommand}]
  /\ seen \in [{Waiter, Till} -> Views]
  /\ draft \in [{Waiter, Guest, Desk} -> SUBSET Wishes]
  /\ draftKey \in [{Waiter, Guest} -> DeviceKeys \cup {NoKey}]
  /\ retained \in [{Till, Cash, Desk} -> SUBSET Command]
  /\ faults \in Nat /\ reloads \in Nat /\ faults + reloads <= MaxTroubles
  /\ announced \in [DeviceKeys -> Nat]

ClientInit ==
  /\ wanted = 0 /\ minted = 0
  /\ calling = [d \in Devices |-> NoCommand]
  /\ seen = [d \in {Waiter, Till} |-> NoView]
  /\ draft = [d \in {Waiter, Guest, Desk} |-> {}]
  /\ draftKey = [d \in {Waiter, Guest} |-> NoKey]
  /\ retained = [d \in {Till, Cash, Desk} |-> {}]
  /\ faults = 0 /\ reloads = 0
  /\ announced = [k \in DeviceKeys |-> 0]

-----------------------------------------------------------------------------
(* One call of a screen: request() of lib/api/client.ts and useMutation.     *)

Dispatch(m) ==
  /\ Idle(m.from)
  /\ calling' = [calling EXCEPT ![m.from] = m]
  /\ wire' = wire \cup {m}
  /\ answers' = [answers EXCEPT ![m.from] = NoAnswer]
  /\ UNCHANGED <<checks, rows, asks, rejecting>>

Mint == minted < MaxKeys /\ minted' = minted + 1

HangUp(d) == calling' = [calling EXCEPT ![d] = NoCommand]

\* The request stays on the wire after its sender gave up waiting for it.
Abandon(d) ==
  wire' = {IF m = calling[d] THEN [m EXCEPT !.open = FALSE] ELSE m : m \in wire}

\* The call fails on the screen: refused, timed out, answer lost.
Failed(d) ==
  /\ ~Idle(d)
  /\ HangUp(d)
  /\ \/ /\ answers[d].come /\ ~answers[d].ok
        /\ UNCHANGED <<faults, wire>>
     \/ /\ faults + reloads < MaxTroubles /\ faults' = faults + 1
        /\ Abandon(d)
  /\ answers' = [answers EXCEPT ![d] = NoAnswer]
  /\ UNCHANGED <<checks, rows, asks, rejecting, wanted, minted, seen, draft, draftKey,
                 retained, reloads, announced>>

Succeeded(d) ==
  /\ ~Idle(d) /\ answers[d].ok
  /\ HangUp(d)
  /\ announced' = [announced EXCEPT ![calling[d].key] = @ + 1]
  /\ answers' = [answers EXCEPT ![d] = NoAnswer]
  /\ UNCHANGED <<checks, rows, asks, rejecting, wire, wanted, minted, faults, reloads>>

Draft(d, items) == draft' = [draft EXCEPT ![d] = items]
KeepKey(d, key) == draftKey' = [draftKey EXCEPT ![d] = key]

\* A new wish enters the draft.
Want(d) ==
  /\ wanted < MaxWishes /\ wanted' = wanted + 1
  /\ Draft(d, draft[d] \cup {wanted + 1})
TakeOut(d, w) ==
  /\ w \in draft[d]
  /\ Draft(d, draft[d] \ {w})

EditFrame == /\ UNCHANGED apiVars
             /\ UNCHANGED <<minted, calling, seen, retained, faults, reloads, announced>>

-----------------------------------------------------------------------------
(* components/waiter/order-builder.tsx                                       *)

\* addSelectedProduct forgets the key of a submission that failed. The ticket
\* can be edited while it is being sent.
WaiterTaps == Want(Waiter) /\ KeepKey(Waiter, NoKey) /\ EditFrame

\* The plus and minus of a pending line leave the key as it is.
WaiterCounts ==
  /\ \/ /\ Want(Waiter)
        /\ \E w \in draft[Waiter] : ProductOf(w) = ProductOf(wanted + 1)
     \/ (\E w \in draft[Waiter] : TakeOut(Waiter, w)) /\ UNCHANGED wanted
  /\ UNCHANGED draftKey /\ EditFrame

\* submitMutation: the endpoint follows the order on screen, the key only the ticket.
WaiterSends ==
  /\ draft[Waiter] # {}
  /\ \/ /\ draftKey[Waiter] = NoKey
        /\ Mint /\ KeepKey(Waiter, DeviceKey(minted + 1))
     \/ draftKey[Waiter] # NoKey /\ UNCHANGED <<minted, draftKey>>
  /\ LET c == seen[Waiter].check IN
     Dispatch([from |-> Waiter, to |-> IF c = 0 THEN "orders" ELSE "items", check |-> c,
               key |-> draftKey'[Waiter], items |-> draft[Waiter], amount |-> 0, open |-> TRUE])
  /\ UNCHANGED <<wanted, seen, draft, retained, faults, reloads, announced>>

\* onSuccess empties the ticket, whatever was added to it meanwhile.
WaiterSent == /\ Succeeded(Waiter)
              /\ Draft(Waiter, {}) /\ KeepKey(Waiter, NoKey)
              /\ UNCHANGED <<seen, retained>>

-----------------------------------------------------------------------------
(* components/cashier/cashier-workspace.tsx and lib/pending-command.ts       *)

\* prepare builds a command for an intent that has none on file.
TillPrepares(d, m) ==
  /\ \A kept \in retained[d] : Intent(kept) # Intent(m)
  /\ Mint
  /\ retained' = [retained EXCEPT ![d] = @ \cup {m}]
  /\ Dispatch(m)

\* Mutant: a repeat draws a key of its own.
TillRepeatsAnew(d, m) ==
  LET again == [m EXCEPT !.key = DeviceKey(minted + 1)] IN
  /\ UNCHANGED wanted /\ Mint
  /\ retained' = [retained EXCEPT ![d] = (@ \ {m}) \cup {again}]
  /\ Dispatch(again)

\* What it has on file it sends again unchanged, with its endpoint and its key.
TillRepeats(d, m) ==
  /\ UNCHANGED <<wanted, minted, retained>>
  /\ Dispatch(m)

\* productMutation. A check that is paid takes no product until it is closed.
TillAddsProduct ==
  /\ seen[Till].state # "paid"
  /\ LET c == seen[Till].check IN
     \/ /\ wanted < MaxWishes /\ wanted' = wanted + 1
        /\ TillPrepares(Till, [from |-> Till, to |-> IF c = 0 THEN "orders" ELSE "items",
                               check |-> c, key |-> DeviceKey(minted + 1),
                               items |-> {wanted + 1}, amount |-> 0, open |-> TRUE])
     \/ \E kept \in retained[Till] : TillRepeats(Till, kept)
  /\ UNCHANGED <<seen, draft, draftKey, faults, reloads, announced>>

\* paymentMutation: the amount is at most what is due on the check on screen.
TillCollects ==
  /\ seen[Till].state = "open"
  /\ \E amount \in Amounts : LET c == seen[Till].check IN
       /\ amount <= seen[Till].due
       /\ \/ /\ TillPrepares(Cash, [from |-> Cash, to |-> "payments", check |-> c,
                                    key |-> DeviceKey(minted + 1), items |-> {},
                                    amount |-> amount, open |-> TRUE])
             /\ UNCHANGED wanted
          \/ \E kept \in retained[Cash] : /\ kept.check = c /\ kept.amount = amount
                                         /\ TillRepeats(Cash, kept)
  /\ UNCHANGED <<seen, draft, draftKey, faults, reloads, announced>>

\* The order in the answer goes into the list on screen, whatever that has shown
\* since; selectCurrentTableOrder prefers an open order that was there before.
Shown(view) ==
  IF view.state \notin {"open", "paid"} \/ (seen[Till].state = "open" /\ seen[Till].check # view.check)
  THEN seen[Till] ELSE view

\* confirmed: the intent is free for a new command.
TillSucceeds(d) ==
  /\ Succeeded(d)
  /\ retained' = [retained EXCEPT ![d] = {m \in @ : Intent(m) # Intent(calling[d])}]
  /\ seen' = [seen EXCEPT ![Till] = IF d = Till THEN Shown(answers[d].view) ELSE @]
  /\ UNCHANGED <<draft, draftKey>>

\* The order lists of the waiter and the till are read again every eight
\* seconds. The till goes on showing a paid check until its table is closed.
OnScreen(d) == LET paid == {c \in DOMAIN checks : checks[c] = "paid"}
                   c == IF Active # 0 \/ d = Waiter \/ paid = {} THEN Active
                        ELSE CHOOSE p \in paid : TRUE
               IN View(checks, rows, c)
Refresh(d) ==
  /\ seen[d] # OnScreen(d)
  /\ seen' = [seen EXCEPT ![d] = OnScreen(d)]
  /\ UNCHANGED apiVars
  /\ UNCHANGED <<wanted, minted, calling, draft, draftKey, retained, faults, reloads, announced>>

-----------------------------------------------------------------------------
(* components/qr/public-menu.tsx and stores/cart-store.ts                    *)

GuestEdits ==
  /\ \/ Want(Guest)
     \/ (\E w \in draft[Guest] : TakeOut(Guest, w)) /\ UNCHANGED wanted
  /\ UNCHANGED draftKey /\ EditFrame

\* Mutant: every submission draws a key.
GuestSendsAnew ==
  /\ draft[Guest] # {}
  /\ Mint /\ KeepKey(Guest, DeviceKey(minted + 1))
  /\ Dispatch([from |-> Guest, to |-> "requests", check |-> 0, key |-> draftKey'[Guest],
               items |-> draft[Guest], amount |-> 0, open |-> TRUE])
  /\ UNCHANGED <<wanted, seen, draft, retained, faults, reloads, announced>>

\* submitRequest: idempotencyKeyRef survives a failure, the cart may change.
GuestSends ==
  /\ draft[Guest] # {}
  /\ \/ /\ draftKey[Guest] = NoKey
        /\ Mint /\ KeepKey(Guest, DeviceKey(minted + 1))
     \/ draftKey[Guest] # NoKey /\ UNCHANGED <<minted, draftKey>>
  /\ Dispatch([from |-> Guest, to |-> "requests", check |-> 0, key |-> draftKey'[Guest],
               items |-> draft[Guest], amount |-> 0, open |-> TRUE])
  /\ UNCHANGED <<wanted, seen, draft, retained, faults, reloads, announced>>

GuestSent == /\ Succeeded(Guest)
             /\ Draft(Guest, {}) /\ KeepKey(Guest, NoKey)
             /\ UNCHANGED <<seen, retained>>

-----------------------------------------------------------------------------
(* components/delivery/new-delivery-order-dialog.tsx                         *)

DeskEdits ==
  /\ \/ Want(Desk)
     \/ (\E w \in draft[Desk] : TakeOut(Desk, w)) /\ UNCHANGED wanted
  /\ UNCHANGED draftKey /\ EditFrame

\* pendingIntent keeps the key and the body: what is sent again is the first
\* body, whatever the dialog shows by then.
DeskSends ==
  /\ draft[Desk] # {}
  /\ \/ /\ retained[Desk] = {} /\ Mint
        /\ LET m == [from |-> Desk, to |-> "delivery", check |-> 0,
                     key |-> DeviceKey(minted + 1), items |-> draft[Desk], amount |-> 0,
                     open |-> TRUE]
           IN retained' = [retained EXCEPT ![Desk] = {m}] /\ Dispatch(m)
     \/ /\ \E m \in retained[Desk] : Dispatch(m)
        /\ UNCHANGED <<minted, retained>>
  /\ UNCHANGED <<wanted, seen, draft, draftKey, faults, reloads, announced>>

DeskSent == /\ Succeeded(Desk)
            /\ Draft(Desk, {})
            /\ retained' = [retained EXCEPT ![Desk] = {}]
            /\ UNCHANGED <<seen, draftKey>>

\* Closing the dialog empties it unless a submission is pending.
DeskCloses ==
  /\ Idle(Desk) /\ retained[Desk] = {} /\ draft[Desk] # {}
  /\ Draft(Desk, {})
  /\ UNCHANGED <<wanted, draftKey>> /\ EditFrame

-----------------------------------------------------------------------------
\* A page is reloaded: keys, tickets and retained commands live in memory, the
\* guest's cart in the session storage of the browser.
Pages == {{Waiter}, {Guest}, {Desk}, {Till, Cash}}
Forgets(f, page, none) == [d \in DOMAIN f |-> IF d \in page THEN none ELSE f[d]]
Reload(page) ==
  /\ faults + reloads < MaxTroubles /\ reloads' = reloads + 1
  /\ calling' = Forgets(calling, page, NoCommand)
  /\ wire' = {IF m.from \in page THEN [m EXCEPT !.open = FALSE] ELSE m : m \in wire}
  /\ answers' = Forgets(answers, page, NoAnswer)
  /\ draft' = Forgets(draft, page \ {Guest}, {})
  /\ draftKey' = Forgets(draftKey, page, NoKey)
  /\ retained' = Forgets(retained, page, {})
  /\ UNCHANGED <<checks, rows, asks, rejecting, wanted, minted, seen, faults, announced>>

ClientNext ==
  \/ WaiterTaps \/ WaiterCounts \/ WaiterSends \/ WaiterSent
  \/ TillAddsProduct \/ TillCollects \/ TillSucceeds(Till) \/ TillSucceeds(Cash)
  \/ GuestEdits \/ GuestSends \/ GuestSent
  \/ DeskEdits \/ DeskSends \/ DeskSent \/ DeskCloses
  \/ \E d \in {Waiter, Till} : Refresh(d)
  \/ \E d \in Devices : Failed(d)
  \/ \E page \in Pages : Reload(page)

Init == ApiInit /\ ClientInit
Next == \/ ApiNext /\ UNCHANGED clientVars
        \/ ClientNext
Spec == Init /\ [][Next]_vars
=============================================================================

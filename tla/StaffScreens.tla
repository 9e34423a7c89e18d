---------------------------- MODULE StaffScreens ----------------------------
(***************************************************************************)
(* The queries and commands of the people on the floor (/cashier, /waiter,  *)
(* /panels, delivery) and of the guest's menu, as ScreenData describes them.*)
(***************************************************************************)
EXTENDS ScreenData

WaiterPages == {"waiter tables", "order builder", "waiter orders", "order status", "notices"}
StaffPages  == {"till", "till gate", "closed orders", "shift", "delivery"} \cup WaiterPages

Access == Polled(StaffPages, <<"operation-access">>, {"access"})
PanelOptions == Query({"panels"}, <<"operation-options">>, {"access"})
\* The panel is left: the grant ends, and everything is asked for again.
ExitPanel == Command(StaffPages, {"access"}, Everything)
SelectPanel == Command({"panels"}, {"chosen panel"}, {<<"operation-access">>, <<"shifts">>})
SupportTables == Polled({"support"}, <<"operation-support", "tables">>, {"tables"})
SupportOrders == Polled({"support"}, <<"operation-support", "orders">>, {"orders"})

-----------------------------------------------------------------------------
(* The till                                                                  *)

TillAreas      == Query({"till"}, <<"cashier", "areas">>, {"areas"})
TillTables     == Polled({"till"}, <<"cashier", "tables">>, {"tables", "guest labels"})
TillOrders     == Polled({"till"}, <<"cashier", "orders">>, {"orders", "payments"})
TillProducts   == Query({"till"}, <<"cashier", "products">>, {"products"})
TillCategories == Query({"till"}, <<"cashier", "categories">>, {"categories"})
TillShift      == Polled({"till", "closed orders", "shift"}, <<"shifts", "current">>, {"shifts"})
TillRooms      == Query({"till"}, <<"cashier", "hotel-rooms">>, {"rooms"})
TillApprovals  == Polled({"till"}, <<"cashier", "approval-requests", "PENDING">>, {"approvals"})
TillPrintJobs  == Query({"till"}, <<"cashier", "print-jobs", "id">>, {"print jobs"})
OrderLoyalty   == Query({"till", "order status"}, <<"loyalty", "order", "id">>, {"offers", "orders"})

\* refreshOperations.
TillKeys == {<<"cashier">>, <<"orders">>, <<"tables">>, <<"waiter">>, <<"kitchen">>,
             <<"dashboard">>, <<"admin-operations">>}
AtTill(writes) == Command({"till"}, writes, TillKeys)
Filling(c) == [c EXCEPT !.fills = {TillOrders.key}]
Mending(c) == [c EXCEPT !.failing = TillKeys]

AddProduct      == Filling(AtTill({"orders", "tables"}))
Pay             == AtTill({"orders", "payments", "tables"})
CloseTable      == Mending(AtTill({"orders", "tables"}))
RequestDiscount == AtTill({"approvals"})
TransferTable   == AtTill({"orders", "tables"})
MergeTables     == AtTill({"orders", "tables"})
TransferLines   == AtTill({"orders", "tables"})
\* Mending: after a version conflict only.
ChangeItem      == Filling(AtTill({"orders"}))
RemoveItem      == Filling(AtTill({"orders"}))
RequestCancellation == AtTill({"approvals"})
ApproveCancellation == AtTill({"approvals", "orders"})
RejectCancellation  == AtTill({"approvals"})
SendToKitchen   == Filling(AtTill({"orders", "print jobs"}))
PrintBill       == Command({"till"}, {"print jobs"}, {TillPrintJobs.key})
NameGuest       == Command({"till"}, {"guest labels"}, {TillTables.key})
\* handleApproveQr: the hook's refreshes, and then the till's.
RequestAtTillKeys == TillKeys \cup {<<"qr-menu", "requests">>}
ApproveAtTill   == Command({"till"}, {"qr requests", "orders", "tables"}, RequestAtTillKeys)
RejectAtTill    == Command({"till"}, {"qr requests"}, RequestAtTillKeys)

\* The offers of the order are fetched first, and then the rewards; the screen
\* the panel is on is told after that.
PanelKeys   == {<<"loyalty", "order", "id">>, <<"loyalty", "rewards">>}
ApplyMember == Command({"till", "order status"}, {"offers", "orders"}, PanelKeys)
RedeemReward == Command({"till", "order status"}, {"offers", "orders"}, PanelKeys)

-----------------------------------------------------------------------------
(* Payments and shifts                                                       *)

RefundKeys   == {<<"cashier">>, <<"orders">>, <<"shifts">>, <<"reports">>, <<"dashboard">>,
                 <<"admin-operations">>}
RefundAtTill == Filling(Command({"till"}, {"payments"}, RefundKeys \cup TillKeys))
RefundClosed == Command({"closed orders"}, {"payments"}, RefundKeys)
\* Mutant: the list is fetched once.
ClosedOrdersOnce == Query({"closed orders"}, <<"orders", "closed">>, {"orders", "payments"})
ClosedOrders == Polled({"closed orders"}, <<"orders", "closed">>, {"orders", "payments"})
Receipts     == Polled({"closed orders"}, <<"printing", "receipts">>, {"receipts", "print jobs"})
Reprint      == Command({"closed orders"}, {"print jobs"}, {})

GateShift    == Query({"till gate", "panels"}, <<"shifts", "current">>, {"shifts"})
VerifyStaff  == Command({"till gate"}, {}, {})
OpenShift    == Command({"till gate"}, {"shifts"}, {<<"shifts">>})
OpenOwnShift == Command({"till gate"}, {"shifts"}, {<<"shifts">>})
EndShift     == Command({"shift"}, {"shifts"}, {<<"shifts">>})

-----------------------------------------------------------------------------
(* Waiters                                                                   *)

WaiterAreas  == Query({"waiter tables"}, <<"waiter", "areas">>, {"areas"})
WaiterTables == Polled({"waiter tables"}, <<"waiter", "tables">>, {"tables", "guest labels"})
NameGuestAtTable == Command({"waiter tables"}, {"guest labels"}, {WaiterTables.key})

WaiterTable      == Query({"order builder"}, <<"waiter", "table", "id">>, {"tables"})
ActiveOrder      == Polled({"order builder"}, <<"waiter", "table", "id", "active-order">>, {"orders"})
WaiterCategories == Query({"order builder"}, <<"waiter", "categories">>, {"categories"})
WaiterProducts   == Query({"order builder"}, <<"waiter", "products">>, {"products"})
TableOrderKeys   == {WaiterTable.key}
SubmitOrder      == Command({"order builder"}, {"orders", "tables"}, TableOrderKeys)
RequestBill      == Command({"order builder"}, {"orders", "tables"}, TableOrderKeys)
PrintTableBill   == Command({"order builder"}, {"print jobs"}, TableOrderKeys)
AskCancellation  == Command({"order builder"}, {"approvals"}, TableOrderKeys)
SaveNote == [Command({"order builder"}, {"orders"}, TableOrderKeys \cup {<<"cashier", "orders">>})
             EXCEPT !.fills = {ActiveOrder.key}, !.failing = {ActiveOrder.key}]

WaiterOrders == Polled({"waiter orders"}, <<"waiter", "active-orders">>, {"orders"})
WaiterOrder  == Polled({"order status"}, <<"waiter", "orders", "id">>, {"orders"})
\* The tables are fetched once more, after the order was.
Destinations  == Query({"order status"}, <<"waiter", "tables">>, {"tables"})
TransferItems == Command({"order status"}, {"orders", "tables"}, {WaiterOrder.key})

Notices == Polled({"notices"}, <<"waiter", "notifications">>, {"orders", "qr requests"})
ResolveRequest == Command({"notices"}, {"qr requests", "orders", "tables"},
                    {Notices.key, <<"waiter", "tables">>, <<"waiter", "table">>})

-----------------------------------------------------------------------------
(* Delivery                                                                  *)

Deliveries         == Polled({"delivery"}, <<"delivery", "list">>, {"deliveries"})
DeliveryCounts     == Polled(StaffPages, <<"delivery", "counts">>, {"deliveries"})
DeliveryProducts   == Query({"delivery"}, <<"delivery", "products">>, {"products"})
DeliveryCategories == Query({"delivery"}, <<"delivery", "categories">>, {"categories"})
DeliveryKeys   == {<<"delivery">>}
CreateDelivery == Command({"delivery"}, {"deliveries"}, DeliveryKeys)
AcceptDelivery == Command({"delivery"}, {"deliveries"}, DeliveryKeys)
RejectDelivery == Command({"delivery"}, {"deliveries"}, DeliveryKeys)
MoveDelivery   == Command({"delivery"}, {"deliveries"}, DeliveryKeys)
PrintCourier   == Command({"delivery"}, {"print jobs"}, {})

-----------------------------------------------------------------------------
(* The guest's menu                                                          *)

PublicMenu   == Query({"menu"}, <<"qr-menu", "public", "menu">>, {"products", "categories", "qr config"})
PublicOffers == Query({"menu"}, <<"qr-menu", "public", "campaigns">>, {"campaigns"})
MenuLoyalty  == Query({"menu"}, <<"loyalty", "public", "offer">>, {"program"})

-----------------------------------------------------------------------------
StaffQueries == {Access, PanelOptions, SupportTables, SupportOrders,
  TillAreas, TillTables, TillOrders, TillProducts, TillCategories, TillShift, TillRooms, TillApprovals,
  TillPrintJobs, OrderLoyalty, ClosedOrders, Receipts, GateShift,
  WaiterAreas, WaiterTables, WaiterTable, ActiveOrder, WaiterCategories, WaiterProducts,
  WaiterOrders, WaiterOrder, Destinations, Notices,
  Deliveries, DeliveryCounts, DeliveryProducts, DeliveryCategories, PublicMenu, PublicOffers, MenuLoyalty}

OrderCommands == {AddProduct, Pay, CloseTable, TransferTable, MergeTables, TransferLines, ChangeItem,
  RemoveItem, ApproveCancellation, SendToKitchen, ApproveAtTill, TransferItems}
StaffCommands == OrderCommands \cup {ExitPanel, SelectPanel, RequestDiscount, RequestCancellation,
  RejectCancellation, PrintBill, NameGuest, RejectAtTill, ApplyMember, RedeemReward,
  RefundAtTill, RefundClosed, Reprint, VerifyStaff, OpenShift, OpenOwnShift, EndShift,
  NameGuestAtTable, SubmitOrder, RequestBill, PrintTableBill, AskCancellation, SaveNote, ResolveRequest,
  CreateDelivery, AcceptDelivery, RejectDelivery, MoveDelivery, PrintCourier}

\* Changes a page does not refresh, or not at once. The lines a reward may cover
\* are those of the last answer; what a member's code changed on the order comes
\* after its offers; a reprint waits for the next round.
StaffOverlooked ==
  (OrderCommands \X {OrderLoyalty})
  \cup ({ApplyMember, RedeemReward} \X {TillOrders, WaiterOrder})
  \cup {<<TransferItems, Destinations>>, <<Reprint, Receipts>>}

StaffWatched == {Access, SupportTables, SupportOrders, TillTables, TillOrders, TillShift, TillApprovals,
  ClosedOrders, Receipts, WaiterTables, ActiveOrder, WaiterOrders, WaiterOrder, Notices,
  Deliveries, DeliveryCounts}
=============================================================================

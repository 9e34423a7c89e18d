---------------------------- MODULE OfficeScreens ----------------------------
(***************************************************************************)
(* The queries and commands of the management pages (/admin and the shell   *)
(* around it), as ScreenData describes them.                                *)
(***************************************************************************)
EXTENDS ScreenData

OfficePages == {"approvals", "audit", "branches", "business", "campaigns", "categories",
  "dashboard", "employees", "inventory", "live", "loyalty", "modifiers", "notifications",
  "office orders", "onboarding", "order activity", "panels", "printers", "products", "qr codes", "qr overview", "qr requests",
  "qr settings", "reports", "roles", "rooms", "shift history", "subscription", "tables"}

-----------------------------------------------------------------------------
(* The shell                                                                 *)

Me == Query(OfficePages, <<"auth", "me">>, {"business name", "branch name", "account", "roles"})
ShellBranches == Query(OfficePages, <<"auth", "branches">>, {"branches"})
PendingApprovals == Polled(OfficePages, Admin("approval-requests") \o <<"pending-count">>, {"approvals"})

-----------------------------------------------------------------------------
(* Catalog                                                                   *)

ProductReadModels == {<<"catalog">>, <<"qr-menu">>}
ProductCategories == Query({"products"}, <<"catalog", "categories">>, {"categories"})
Products          == Query({"products"}, <<"catalog", "products">>, {"products"})
ProductStations   == Query({"products"}, <<"catalog", "stations">>, {"stations"})
CentreStatus      == Query({"products"}, <<"catalog", "centre-status">>, {"centre"})

\* Mutant: a product that was saved without its picture refreshes nothing.
SaveProductWhole == [Command({"products"}, {"products"}, ProductReadModels) EXCEPT !.partial = TRUE]
SaveProduct == [Command({"products"}, {"products"}, ProductReadModels)
                EXCEPT !.partial = TRUE, !.failing = ProductReadModels]
RemoveImage   == Command({"products"}, {"products"}, ProductReadModels)
ToggleProduct == Command({"products"}, {"products"}, ProductReadModels)
SyncCentre    == Command({"products"}, {"products", "categories", "centre"}, ProductReadModels)
ImportProducts == Command({"products"}, {"products", "categories"}, {<<"catalog">>})

ModifierGroups   == Query({"modifiers"}, <<"catalog", "modifier-groups">>, {"modifiers"})
AssignedProducts == Query({"modifiers"}, <<"catalog", "products", "modifier-assignment">>, {"products"})
GroupKeys        == {<<"catalog", "modifier-groups">>}
AssignmentKeys   == {<<"catalog", "products">>}
SaveModifierGroup == Command({"modifiers"}, {"modifiers"}, GroupKeys \cup AssignmentKeys)
SaveModifier      == Command({"modifiers"}, {"modifiers"}, GroupKeys)
\* The assignments are refreshed with a group and not with a modifier; either way
\* the groups are.
ArchiveModifier   == Command({"modifiers"}, {"modifiers"}, GroupKeys)

Categories        == Query({"categories"}, <<"catalog", "categories">>, {"categories"})
CategoryKeys      == {<<"catalog", "categories">>}
SaveCategory      == Command({"categories"}, {"categories"}, CategoryKeys)
ReorderCategories == Command({"categories"}, {"categories"}, CategoryKeys)
DeleteCategory    == Command({"categories"}, {"categories", "products"},
                             CategoryKeys \cup AssignmentKeys)

-----------------------------------------------------------------------------
(* Inventory                                                                 *)

StockItems     == Query({"inventory"}, <<"inventory", "items">>, {"stock", "stock items"})
StockMovements == Query({"inventory"}, <<"inventory", "movements">>, {"stock", "stock items"})
StockOverview  == Query({"inventory"}, <<"inventory", "overview">>, {"stock", "stock items", "branches"})
StockProducts  == Query({"inventory"}, <<"catalog", "products">>, {"products"})
Recipes        == Query({"inventory"}, <<"inventory", "recipes">>, {"recipes", "stock items"})
AdjustStock    == Command({"inventory"}, {"stock"}, {<<"inventory">>})
TransferStock  == Command({"inventory"}, {"stock"},
                    {<<"inventory", "overview">>, <<"inventory", "items">>, <<"inventory", "movements">>})
CreateStockItem == Command({"inventory"}, {"stock", "stock items"}, {<<"inventory">>})
SaveRecipe     == Command({"inventory"}, {"recipes"},
                    {<<"inventory", "recipes">>, <<"inventory", "items">>, <<"catalog", "products">>})
\* The ingredients it had to create first stay when the copy fails; the page does
\* not say so.
CopyRecipe     == Command({"inventory"}, {"recipes", "stock items"},
                    {<<"inventory">>, <<"catalog", "products">>})

-----------------------------------------------------------------------------
(* Tables and rooms                                                          *)

Areas     == Query({"tables"}, <<"areas">>, {"areas"})
TablePlan == Polled({"tables"}, <<"tables">>, {"tables", "areas", "orders"})
TableKeys == {<<"tables">>}
AreaKeys  == {<<"areas">>, <<"tables">>}
SaveTable      == Command({"tables"}, {"tables"}, TableKeys)
SetTableActive == Command({"tables"}, {"tables"}, TableKeys)
SortTable      == Command({"tables"}, {"tables"}, TableKeys)
SaveArea       == Command({"tables"}, {"areas"}, AreaKeys)
ArchiveArea    == Command({"tables"}, {"areas"}, AreaKeys)

Rooms      == Query({"rooms"}, <<"admin", "hotel-rooms">>, {"rooms"})
RoomFolio  == Query({"rooms"}, <<"admin", "hotel-rooms", "folio">>, {"rooms", "payments"})
RoomKeys   == {<<"admin", "hotel-rooms">>}
CreateRoom == Command({"rooms"}, {"rooms"}, RoomKeys)
CheckIn    == Command({"rooms"}, {"rooms"}, RoomKeys)
CheckOut   == Command({"rooms"}, {"rooms", "payments"}, RoomKeys)

-----------------------------------------------------------------------------
(* Organisation                                                              *)

Branches      == Query({"branches"}, Admin("branches"), {"branches"})
BranchUsage   == Query({"branches"}, Admin("branch-usage"), {"branches"})
BranchPricing == Query({"branches"}, Admin("branch-pricing"), {"branches"})
BranchKeys    == {Branches.key, BranchUsage.key, BranchPricing.key}
CreateBranch  == Command({"branches"}, {"branches"}, BranchKeys)
UpdateBranch  == Command({"branches"}, {"branches", "branch name"}, BranchKeys)
ArchiveBranch == Command({"branches"}, {"branches"}, BranchKeys)
RestoreBranch == Command({"branches"}, {"branches"}, BranchKeys)

Employees        == Query({"employees"}, Admin("employees"), {"employees"})
EmployeeRoles    == Query({"employees"}, Admin("roles"), {"roles"})
EmployeeBranches == Query({"employees"}, Admin("branches"), {"branches"})
EmployeeStations == Query({"employees"}, Admin("stations"), {"stations"})
EmployeeKeys     == {Employees.key}
CreateEmployee   == Command({"employees"}, {"employees"}, EmployeeKeys)
UpdateEmployee   == Command({"employees"}, {"employees", "account"}, EmployeeKeys)
ToggleEmployee   == Command({"employees"}, {"employees"}, EmployeeKeys)
ResetPassword    == Command({"employees"}, {}, {})
\* The row's PIN state is kept beside the cache (pinStates).
SetPin           == Command({"employees"}, {"employees"}, {})

RoleList    == Query({"roles"}, Admin("roles"), {"roles"})
Permissions == Query({"roles"}, Admin("permissions"), {})
SaveRole       == Command({"roles"}, {"roles"}, Everything)
DeactivateRole == Command({"roles"}, {"roles"}, Everything)

Business     == Query({"business"}, Admin("businesses"), {"business name"})
SaveBusiness == Command({"business"}, {"business name"}, {Business.key})

Onboarding     == Query({"onboarding"}, <<"onboarding">>, {"onboarding"})
SaveOnboarding == Command({"onboarding"}, {"onboarding"}, {<<"onboarding">>})

SubscriptionPricing == Query({"subscription"}, Admin("branch-pricing"), {"branches"})
SubscriptionState   == Query({"subscription"}, <<"auth", "me", "subscription">>, {"business state"})
Cards      == Query({"subscription"}, <<"billing", "cards">>, {"cards"})
Invoices   == Query({"subscription"}, <<"billing", "invoices">>, {"invoices"})
RemoveCard == Command({"subscription"}, {"cards"}, {Cards.key})

-----------------------------------------------------------------------------
(* Printers. Whether paper was accepted depends on the printers and their     *)
(* mappings (printing_acceptance.py).                                         *)

Stations   == Query({"printers"}, Admin("stations"), {"stations"})
Printers   == Query({"printers"}, Admin("printer-devices"), {"printers", "mappings"})
Bridges    == Polled({"printers"}, Admin("print-bridges"), {"bridges", "mappings"})
PrintJobs  == Polled({"printers"}, Admin("print-jobs"), {"print jobs"})
Acceptance == Polled({"printers"}, <<"printing-acceptance">>,
                     {"paper confirmed", "printers", "mappings", "bridges"})
ConfirmPaper  == Command({"printers"}, {"paper confirmed"}, {Acceptance.key})
PrinterKeys   == {Printers.key, Bridges.key, PrintJobs.key}
CreatePrinter == Command({"printers"}, {"printers"}, PrinterKeys)
CreateStation == Command({"printers"}, {"stations"}, {Stations.key, <<"catalog", "stations">>})
UpdatePrinter == Command({"printers"}, {"printers"}, PrinterKeys)
TestPrinter   == Command({"printers"}, {"print jobs"}, {PrintJobs.key})
MapPrinter    == Command({"printers"}, {"mappings"}, PrinterKeys)
UnmapPrinter  == Command({"printers"}, {"mappings"}, PrinterKeys)
RetryPrintJob == Command({"printers"}, {"print jobs"}, {PrintJobs.key})
RevokeBridge  == Command({"printers"}, {"bridges", "mappings"}, PrinterKeys)

-----------------------------------------------------------------------------
(* Orders and approvals                                                      *)

OfficeOrders == Query({"office orders"}, Admin("orders"), {"orders"})
OfficeOrder  == Query({"office orders"}, Admin("order"), {"orders"})
AcceptOfficeOrder == [Command({"office orders"}, {"orders"}, {Admin("orders")})
                      EXCEPT !.fills = {OfficeOrder.key}]

LiveDashboard == Polled({"live"}, Admin("dashboard"), {"orders", "tables", "payments"})
LiveTables    == Polled({"live"}, Admin("tables"), {"tables", "orders"})
LiveOrders    == Polled({"live"}, Admin("orders") \o <<"live">>, {"orders"})
LiveRequests  == Polled({"live"}, Admin("qr-requests") \o <<"PENDING">>, {"qr requests"})
LiveKeys      == {LiveDashboard.key, LiveTables.key, Admin("orders"), Admin("qr-requests")}
AcceptLive    == Command({"live"}, {"orders"}, LiveKeys)
ApproveLive   == Command({"live"}, {"orders", "tables", "qr requests"}, LiveKeys)
RejectLive    == Command({"live"}, {"qr requests"}, LiveKeys)

Approvals     == Polled({"approvals"}, Admin("approval-requests") \o <<"PENDING">>, {"approvals"})
ApprovalKeys  == {Admin("approval-requests"), Admin("orders") \o <<"ALL">>, Admin("dashboard")}
Approve       == Command({"approvals"}, {"approvals", "orders"}, ApprovalKeys)
Reject        == Command({"approvals"}, {"approvals"}, ApprovalKeys)

-----------------------------------------------------------------------------
(* Figures                                                                   *)

Dashboard     == Polled({"dashboard"}, Admin("dashboard"), {"orders", "tables", "payments"})
SalesReport   == Query({"reports"}, Admin("report") \o <<"current">>, {"payments", "orders"})
EarlierReport == Query({"reports"}, Admin("report") \o <<"previous">>, {"payments", "orders"})
ReportShifts  == Query({"reports"}, <<"report-shifts">>, {"shifts"})
AuditLog      == Query({"audit"}, Admin("audit"), {"audit"})

OrderActivity   == Polled({"order activity"}, <<"reports", "order-activity", "range">>, {"orders", "payments"})
ActivityDetail  == Query({"order activity"}, <<"reports", "order-activity", "detail">>, {"orders", "payments"})
ReceiptPrinters == Query({"order activity"}, <<"printing", "devices", "receipt-picker">>, {"printers"})
ReceiptStations == Query({"order activity"}, <<"catalog", "stations", "receipt-picker">>, {"stations"})
QueueReceipt    == Command({"order activity"}, {"print jobs"}, {})

GuestMessages == Polled({"notifications"}, <<"customer-notifications">>, {"guest messages"})

ShiftHistory == Query({"shift history"}, <<"shifts", "history">>, {"shifts"})
DayHistory   == Query({"shift history"}, <<"shifts", "day-history">>, {"days"})
DayPreview   == Query({"shift history"}, <<"shifts", "day-preview">>, {"shifts", "days"})
OpenShifts   == Query({"shift history"}, <<"shifts", "open">>, {"shifts"})
CloseAnyShift == Command({"shift history"}, {"shifts"}, {<<"shifts">>})
CloseDay      == Command({"shift history"}, {"shifts", "days"}, {<<"shifts">>})

-----------------------------------------------------------------------------
(* Loyalty and campaigns                                                     *)

LoyaltyProgram   == Query({"loyalty"}, <<"loyalty", "program">>, {"program"})
LoyaltySetup     == Query({"loyalty"}, <<"loyalty", "setup-options">>, {"products", "branches"})
LoyaltyCustomers == Query({"loyalty"}, <<"loyalty", "customers">>, {"members"})
LoyaltyRewards   == Query({"loyalty"}, <<"loyalty", "rewards">>, {"rewards"})
UpdateProgram == [Command({"loyalty"}, {"program"},
                    {LoyaltyCustomers.key, LoyaltyRewards.key, <<"loyalty", "public">>})
                  EXCEPT !.fills = {LoyaltyProgram.key}]
EnrollAtOffice == Command({"loyalty"}, {"members"}, {LoyaltyCustomers.key})

Campaigns       == Query({"campaigns"}, <<"campaigns", "list">>, {"campaigns"})
CampaignCatalog == Query({"campaigns"}, <<"campaigns", "catalog">>, {"products", "categories", "branches"})
SaveCampaign       == Command({"campaigns"}, {"campaigns"}, {<<"campaigns">>})
DeactivateCampaign == Command({"campaigns"}, {"campaigns"}, {<<"campaigns">>})

-----------------------------------------------------------------------------
(* The QR menu                                                               *)

QrConfig   == Query({"qr settings", "qr overview"}, <<"qr-menu", "config">>, {"qr config"})
QrRequests == Polled({"qr requests", "qr overview", "till"}, <<"qr-menu", "requests">>, {"qr requests"})
QrTables   == Query({"qr codes", "qr requests", "qr overview"}, <<"tables", "qr-codes">>, {"tables", "qr codes"})
QrProducts == Query({"qr requests"}, <<"catalog", "products", "qr-request-lookup">>, {"products"})
UpdateQrConfig == [Command({"qr settings"}, {"qr config"}, {<<"qr-menu">>})
                   EXCEPT !.fills = {QrConfig.key}]
UploadQrAsset  == [Command({"qr settings"}, {"qr config"}, {<<"qr-menu">>})
                   EXCEPT !.fills = {QrConfig.key}]
DeleteQrAsset  == [Command({"qr settings"}, {"qr config"}, {<<"qr-menu">>})
                   EXCEPT !.fills = {QrConfig.key}]
RegenerateCode == Command({"qr codes"}, {"qr codes"}, {QrTables.key})
RequestKeys    == {<<"qr-menu", "requests">>, <<"orders">>, <<"tables">>}
ApproveRequest == Command({"qr requests"}, {"qr requests", "orders", "tables"}, RequestKeys)
RejectRequest  == Command({"qr requests"}, {"qr requests"}, RequestKeys)

-----------------------------------------------------------------------------
OfficeQueries == {Me, ShellBranches, PendingApprovals,
  ProductCategories, Products, ProductStations, CentreStatus, ModifierGroups, AssignedProducts, Categories,
  StockItems, StockMovements, StockOverview, StockProducts, Recipes,
  Areas, TablePlan, Rooms, RoomFolio,
  Branches, BranchUsage, BranchPricing, Employees, EmployeeRoles, EmployeeBranches, EmployeeStations,
  RoleList, Permissions, Business, Onboarding, SubscriptionPricing, SubscriptionState, Cards, Invoices,
  Stations, Printers, Bridges, PrintJobs, Acceptance,
  OfficeOrders, OfficeOrder, LiveDashboard, LiveTables, LiveOrders, LiveRequests, Approvals,
  Dashboard, SalesReport, EarlierReport, ReportShifts, AuditLog,
  OrderActivity, ActivityDetail, ReceiptPrinters, ReceiptStations, GuestMessages,
  ShiftHistory, DayHistory, DayPreview, OpenShifts,
  LoyaltyProgram, LoyaltySetup, LoyaltyCustomers, LoyaltyRewards, Campaigns, CampaignCatalog,
  QrConfig, QrRequests, QrTables, QrProducts}

OfficeCommands == {SaveProduct, RemoveImage, ToggleProduct, SyncCentre, ImportProducts,
  SaveModifierGroup, SaveModifier, ArchiveModifier, SaveCategory, ReorderCategories, DeleteCategory,
  AdjustStock, TransferStock, CreateStockItem, SaveRecipe, CopyRecipe,
  SaveTable, SetTableActive, SortTable, SaveArea, ArchiveArea, CreateRoom, CheckIn, CheckOut,
  CreateBranch, UpdateBranch, ArchiveBranch, RestoreBranch,
  CreateEmployee, UpdateEmployee, ToggleEmployee, ResetPassword, SetPin, SaveRole, DeactivateRole,
  SaveBusiness, SaveOnboarding, RemoveCard,
  ConfirmPaper, CreatePrinter, CreateStation, UpdatePrinter, TestPrinter, MapPrinter, UnmapPrinter,
  RetryPrintJob, RevokeBridge, AcceptOfficeOrder, AcceptLive, ApproveLive, RejectLive, Approve, Reject,
  CloseAnyShift, CloseDay, QueueReceipt, UpdateProgram, EnrollAtOffice, SaveCampaign, DeactivateCampaign,
  UpdateQrConfig, UploadQrAsset, DeleteQrAsset, RegenerateCode, ApproveRequest, RejectRequest}

\* Changes a page does not refresh although it shows them. The shell keeps names
\* and branches; a filled answer is not protected from a fetch under way; members
\* are not counted in the program; the paper test is asked for again by time.
OfficeOverlooked ==
  ({CreateBranch, UpdateBranch, ArchiveBranch, RestoreBranch} \X {ShellBranches})
  \cup ({UpdateBranch, UpdateEmployee, SaveBusiness} \X {Me})
  \cup ({CreatePrinter, UpdatePrinter, MapPrinter, UnmapPrinter, RevokeBridge} \X {Acceptance})
  \cup {<<SetPin, Employees>>, <<AcceptOfficeOrder, OfficeOrder>>, <<UpdateProgram, LoyaltyProgram>>}

OfficeWatched == {PendingApprovals, TablePlan, Bridges, PrintJobs, Acceptance, LiveDashboard, LiveTables,
  LiveOrders, LiveRequests, Approvals, Dashboard, QrRequests, OrderActivity, GuestMessages}
=============================================================================

--------------------------- MODULE PlatformScreens ---------------------------
(***************************************************************************)
(* The queries and commands of the platform's own pages (/super-admin), as  *)
(* ScreenData describes them.                                               *)
(***************************************************************************)
EXTENDS ScreenData

Businesses       == Query({"businesses"}, Platform("businesses"), {"businesses"})
Plans            == Query({"businesses"}, Platform("subscription-plans"), {"plans"})
CreateBusiness   == Command({"businesses"}, {"businesses"}, {Businesses.key})
PlatformInvoices == Polled({"platform invoices"}, Platform("invoices"), {"invoices"})
Health           == Polled({"health"}, <<"secondary-admin", "system">>, {"health"})
PlatformAudit    == Query({"platform audit"}, <<"secondary-admin", "audit">>, {"audit"})
Portfolio        == Query({"portfolio"}, <<"secondary-admin", "subscriptions">>, {"businesses"})

BusinessDetail   == Query({"business detail"}, <<"secondary-admin", "business", "id">>, {"businesses"})
BusinessOverview == Query({"business detail"}, BusinessDetail.key \o <<"overview">>, {"businesses"})
BusinessUsers    == Query({"business detail"}, <<"secondary-admin", "business-users", "id">>, {"accounts"})
LifecycleKeys    == {Businesses.key, Portfolio.key}
SetLifecycle == [Command({"business detail"}, {"businesses"}, LifecycleKeys)
                 EXCEPT !.fills = {BusinessDetail.key}]
Reactivate   == [Command({"business detail"}, {"businesses"}, LifecycleKeys \cup {BusinessOverview.key})
                 EXCEPT !.fills = {BusinessDetail.key}]
ResetUserPassword == Command({"business detail"}, {}, {})

PlatformQueries  == {Businesses, Plans, PlatformInvoices, Health, PlatformAudit, Portfolio,
                     BusinessDetail, BusinessOverview, BusinessUsers}
PlatformCommands == {CreateBusiness, SetLifecycle, Reactivate, ResetUserPassword}

\* The answer is put under the key of the business and not protected from a fetch
\* under way; the overview beside it keeps the state it had.
PlatformOverlooked == ({SetLifecycle, Reactivate} \X {BusinessDetail})
                      \cup {<<SetLifecycle, BusinessOverview>>}
PlatformWatched    == {PlatformInvoices, Health}
=============================================================================

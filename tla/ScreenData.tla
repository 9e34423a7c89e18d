----------------------------- MODULE ScreenData -----------------------------
(***************************************************************************)
(* How the data modules describe the pages of the web application: what a   *)
(* query shows and under which key its answer is kept, what a command       *)
(* changes at the API and which keys its handlers refresh. Resources and    *)
(* pages are names; identifiers and filters in keys are one word each.      *)
(***************************************************************************)
EXTENDS Integers, Sequences

\* useQuery: the pages it is mounted on, its key, the resources its answer
\* shows, and whether it has a refetchInterval.
Query(on, key, reads)  == [on |-> on, key |-> key, reads |-> reads, polls |-> FALSE]
Polled(on, key, reads) == [Query(on, key, reads) EXCEPT !.polls = TRUE]

\* useMutation: the pages it is offered on, the resources it changes, and the
\* key prefixes its onSuccess invalidates or refetches. failing: those of its
\* onError. fills: keys its onSuccess writes with setQueryData. partial: it is
\* several requests, and an error may come after the first was done.
Command(on, writes, refreshes) ==
  [on |-> on, writes |-> writes, refreshes |-> refreshes,
   failing |-> {}, fills |-> {}, partial |-> FALSE]

Admin(name)    == <<"admin-operations", name>>
Platform(name) == <<"platform", name>>
Everything     == {<<>>}
=============================================================================

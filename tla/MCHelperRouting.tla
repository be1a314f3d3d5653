--------------------------- MODULE MCHelperRouting ---------------------------
(***************************************************************************)
(* HelperRouting for TLC: two scenarios, and three helpers of which the    *)
(* third is born while a run is under way.                                 *)
(***************************************************************************)
EXTENDS HelperRouting

MCToolNames == {"bounds", "distance", "target"}

\* The scenarios: the latest reminder is removed, or cannot be told from what the
\* user knows.
MCTask ==
    [s \in 1..2 |->
        [tokens |-> IF s = 1 THEN {"latest", "days"} ELSE {"latest"},
         strata |-> {"record_filtering_ranking_latest_selection"},
         family |-> "remove_reminder",
         recency |-> TRUE, insufficient |-> s = 2, action |-> s = 1,
         tools |-> {"search_reminder", "search_holiday"}
                     \cup (IF s = 1 THEN {"remove_reminder"} ELSE {})]]

Plain ==
    [family |-> Canonical, positive |-> {}, negative |-> {"stock"}, families |-> {},
     triggers |-> {}, birthStrata |-> {}, birthFamily |-> "search_message",
     required |-> {}, preserves |-> {}, effects |-> {"remove_reminder"}, emits |-> {},
     recencyAction |-> FALSE, guard |-> FALSE, selectedRecord |-> FALSE,
     takesRecords |-> FALSE, aboutState |-> FALSE, clustered |-> TRUE, abstains |-> TRUE,
     downstreamKey |-> FALSE, named |-> FALSE, shows |-> {}, polluting |-> FALSE, rank |-> 1]

\* A canonicalizer for every search, a calculator that needs search_reminder, and a
\* selector of the record to act on.
MCContract ==
    [t \in MCToolNames |->
        CASE t = "bounds" ->
               [Plain EXCEPT !.families = {"record_filtering_ranking_latest_selection"},
                             !.positive = {"days"}]
          [] t = "distance" ->
               [Plain EXCEPT !.family = Derived, !.required = {"search_reminder"},
                             !.positive = {"days", "latest"}, !.guard = TRUE,
                             !.clustered = FALSE, !.rank = 2]
          [] t = "target" ->
               [Plain EXCEPT !.family = Selector, !.recencyAction = TRUE,
                             !.positive = {"latest"}, !.takesRecords = TRUE,
                             !.families = {"record_filtering_ranking_latest_selection"},
                             !.preserves = {"search_reminder", "remove_reminder"},
                             !.downstreamKey = TRUE, !.rank = 3]]

MCRequests == {<<"online", "default">>, <<"frozen", "default">>, <<"frozen", "pinned">>}

\* A run of three scenarios in which everything was shown and "bounds" called once.
MCOtherLog ==
    [i \in 1..3 |-> [scenario |-> i, visible |-> MCToolNames,
                     called |-> IF i = 1 THEN {"bounds"} ELSE {}]]

MCFirstRegistry ==
    [t \in MCToolNames |->
        IF t = "target" THEN NoEntry
        ELSE [version |-> 1, reuse_count |-> 0, diagnostic_only |-> FALSE,
              retired |-> FALSE, validated |-> TRUE, hash |-> "match"]]
=============================================================================

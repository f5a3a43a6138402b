----------------------------- MODULE CampaignMC -----------------------------
(* Model-checking instance of Campaign: one policy, two seeds. *)
EXTENDS Campaign

\* The run_id of seed 13 begins with that of seed 1.
Beginnings ==
    {<<k, k>> : k \in Runs} \cup {<<<<p, 1>>, <<p, 13>>>> : p \in Policies}

\* Calls for both seeds, for one of them, and for one that is named twice.
ListsOfPolicies == {<<p>> : p \in Policies}
ListsOfSeeds    == {<<1, 13>>, <<1>>, <<13, 13>>}

=============================================================================

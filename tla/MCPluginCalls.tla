---------------------------- MODULE MCPluginCalls ----------------------------
(* PluginCalls with drivers that add structure, administration and a console in
   every mixture, whole or not, or one of two guarded interfaces, to what most
   drivers have, and budgets below zero and too large. *)
EXTENDS PluginCalls

Common == {"driver", "decoder", "spawner", "attributer", "restartable", "versionless"}
MCDrivers ==
    {Common \cup s : s \in SUBSET {"converger", "inventory", "pruner", "admin", "console"}
                            \cup {{"lifecycle"}, {"health"}}}
MCBudgets == {-3, 9}
=============================================================================

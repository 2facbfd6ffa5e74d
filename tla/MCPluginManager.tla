-------------------------- MODULE MCPluginManager --------------------------
(* PluginManager with two engine types, two goroutines and as many process
   identities as can be referred to at once. *)
EXTENDS PluginManager
=============================================================================

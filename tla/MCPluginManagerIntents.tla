----------------------- MODULE MCPluginManagerIntents -----------------------
(* A small deployment: plugins are installed by attempts of one manager or  *)
(* of several, which are interchangeable.                                   *)
EXTENDS PluginManagerIntents, TLC

Interchangeable == Permutations(Managers)
=============================================================================

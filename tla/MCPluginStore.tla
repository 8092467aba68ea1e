---------------------------- MODULE MCPluginStore ----------------------------
EXTENDS PluginStore, TLC
CONSTANTS c1, c2
MCCommands == {c1, c2}
MCNames == {"fmt", "lint"}
MCBuilds == {<<"fmt", "v1">>, <<"fmt", "v2">>, <<"lint", "v1">>}
Alike == Permutations(MCCommands)
=============================================================================

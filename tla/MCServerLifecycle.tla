--------------------------- MODULE MCServerLifecycle ---------------------------
(* Instances of ServerLifecycle for TLC: settings that work, that turn the server *)
(* off, that name no binary and that launch cannot read.                          *)
EXTENDS ServerLifecycle
=============================================================================

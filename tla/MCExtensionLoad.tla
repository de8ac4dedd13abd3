-------------------------- MODULE MCExtensionLoad --------------------------
(* Small instances of ExtensionLoad and MeosThread for TLC.                  *)
EXTENDS ExtensionLoad, TLC

=============================================================================

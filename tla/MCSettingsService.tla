------------------------- MODULE MCSettingsService -------------------------
(* SettingsService for TLC. *)
EXTENDS SettingsService, TLC

Symm == Permutations(Requests)
=============================================================================

--------------------------- MODULE MCSettingsAuth ---------------------------
(* SettingsAuth for TLC: requests are interchangeable.                     *)
EXTENDS SettingsAuth, TLC

Symmetry == Permutations(Requests)
=============================================================================

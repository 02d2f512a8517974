-------------------------- MODULE MCSettingsStore ---------------------------
(* Instances of SettingsStore for TLC.                                      *)
EXTENDS SettingsStore
=============================================================================

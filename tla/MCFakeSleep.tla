---------------------------- MODULE MCFakeSleep ----------------------------
(* FakeSleep under the settings that MCEnvironments lists.                 *)
EXTENDS FakeSleep, MCEnvironments
=============================================================================

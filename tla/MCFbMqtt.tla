------------------------------ MODULE MCFbMqtt -------------------------------
(* The FbMqtt stream has no constants: this module only names the run. *)
EXTENDS FbMqtt
=============================================================================

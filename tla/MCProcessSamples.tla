-------------------------- MODULE MCProcessSamples --------------------------
(* ProcessSamples with two ids, one of which changes hands.                   *)
EXTENDS ProcessSamples
=============================================================================

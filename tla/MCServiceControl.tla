-------------------------- MODULE MCServiceControl --------------------------
(* ServiceControl with a template and an instance of it, which is on the list *)
(* while it is loaded and can be selected there.                             *)
EXTENDS ServiceControl

CONSTANTS tmpl, inst

MCUnits == {inst}
MCNames == {inst, tmpl, Blank}
=============================================================================

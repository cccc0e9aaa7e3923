-------------------------- MODULE MCPermissionBroker --------------------------
(* Two prompts of one session and two HTTP requests racing to answer them.   *)
EXTENDS PermissionBroker
===============================================================================

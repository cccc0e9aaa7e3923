------------------------------- MODULE MCSession -------------------------------
(* Instances of Session: model values for requests, runs and tool calls.   *)
EXTENDS Session, TLC

Symmetric == Permutations(Message) \cup Permutations(Op)
===============================================================================

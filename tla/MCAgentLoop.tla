----------------------------- MODULE MCAgentLoop -----------------------------
(* Small instances of AgentLoop for TLC.                                   *)
EXTENDS AgentLoop

\* A conversation with one turn behind it, two tool calls, and a new request.
OneTurn == <<Msg("system", 1), Msg("user", 1), Calling(2, 1), Answering(1, 2), Answering(2, 2),
             Msg("assistant", 1), Msg("user", 1)>>

\* Text, two calls that share a batch, and two of which one is refused.
SomeReplies == {<<>>, <<"safe", "safe">>, <<"unsafe", "denied">>}
\* Text, and a call that has to run alone.
FewReplies  == {<<>>, <<"unsafe">>}
=============================================================================

------------------------------- MODULE MCShell -------------------------------
(* Shell on a screen of three by four cells, with a prompt of two. *)
EXTENDS Shell

TwoCells == <<"$", ">">>
OneCell  == <<"m">>
==============================================================================

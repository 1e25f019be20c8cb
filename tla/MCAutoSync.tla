----------------------------- MODULE MCAutoSync -----------------------------
(***************************************************************************)
(* Instances of AutoSync for TLC.                                          *)
(***************************************************************************)
EXTENDS AutoSync

\* Automatic syncs switched off in two ways, over HTTP with a delay, and at once over
\* HTTP or a transport that is always there
HttpSettings ==
    {[interval |-> TRUE, delay |-> FALSE, urls |-> <<>>],
     [interval |-> FALSE, delay |-> FALSE, urls |-> <<"http">>],
     [interval |-> TRUE, delay |-> TRUE, urls |-> <<"http">>],
     [interval |-> TRUE, delay |-> FALSE, urls |-> <<"http", "other">>]}

=============================================================================

------------------------------ MODULE MCCommands ------------------------------
(***************************************************************************)
(* Bounds for Commands: two callers; a command that changes one cell, one  *)
(* that changes the other and calls it in both passes, one without a       *)
(* session that calls a command nobody handles; the filters in the orders  *)
(* their priorities allow, with and without one that tries again.          *)
(***************************************************************************)
EXTENDS Commands

CONSTANTS user, session, rename, signUp, purge, unknown, s1, s2

MCCell == {user, session}
MCCommand == {rename, signUp, purge, unknown}
Write(c) == [do |-> "write", what |-> c]
Declare(c) == [do |-> "invalidate", what |-> c]
Nested(k) == [do |-> "call", what |-> k]
MCHandler ==
    [k \in {rename, signUp, purge} |->
        CASE k = rename -> [change |-> <<Write(user)>>, declare |-> <<Declare(user)>>]
          [] k = signUp -> [change |-> <<Write(session), Nested(rename)>>,
                            declare |-> <<Declare(session), Nested(rename)>>]
          [] k = purge  -> [change |-> <<Write(user), Nested(unknown)>>,
                            declare |-> <<Declare(user)>>]]
MCSessionOf ==
    [k \in MCCommand |-> CASE k = rename -> s1 [] k = signUp -> s2 [] OTHER -> NoSession]
MCPipelines ==
    {<<"session", "invalidation">>, <<"invalidation", "retry", "session">>, <<"retry", "invalidation">>}
=============================================================================

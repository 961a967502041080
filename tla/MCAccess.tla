------------------------------ MODULE MCAccess ------------------------------
(* The gates: an owner with a browser session and a member, whose role, the *)
(* visibility and the repository change under their requests.  Sign-up:     *)
(* accounts and tokens come and go, in every order.  Shared: git behind the *)
(* deployment's one credential.  Ageing: an agent's token and the reaper.   *)
(* In the last three the database fails once.                               *)
EXTENDS Access

Gates == [registered |-> {"alice", "bob"}, names |-> {<<"session", "alice">>},
          keys |-> {}, invited |-> {"bob"}, repos |-> 2, ttl |-> 0, basic |-> FALSE, faults |-> 0]
SignUp == [registered |-> {}, names |-> {<<"own", "alice">>, <<"session", "alice">>},
           keys |-> {"k"}, invited |-> {}, repos |-> 1, ttl |-> 0, basic |-> FALSE, faults |-> 1]
Shared == [registered |-> {"alice", "bob"}, names |-> {}, keys |-> {}, invited |-> {"bob"},
           repos |-> 1, ttl |-> 0, basic |-> TRUE, faults |-> 1]
Ageing == [registered |-> {}, names |-> {<<"agent", "1">>},
           keys |-> {}, invited |-> {}, repos |-> 1, ttl |-> 4, basic |-> FALSE, faults |-> 1]
MCScenarios == {Gates, SignUp, Shared, Ageing}
=============================================================================

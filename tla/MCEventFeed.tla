----------------------------- MODULE MCEventFeed -----------------------------
(* A small feed: two types, every kind of client.                          *)
EXTENDS EventFeed

AllQueries == [repo : BOOLEAN, types : {{}, {"push"}}, once : BOOLEAN]
=============================================================================

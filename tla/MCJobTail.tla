------------------------------ MODULE MCJobTail ------------------------------
(* One CI job or one agent session with a viewer that connects at once.    *)
EXTENDS JobTail
=============================================================================

------------------------------ MODULE Delivery ------------------------------
(***************************************************************************)
(* What both of the server's event streams (the fleet feed and the log of  *)
(* a job) promise one reader: numbered events appear in ascending order,   *)
(* some may be withdrawn again, and the reader receives them in order,     *)
(* each at most once, and passes over an event only if it was withdrawn.   *)
(***************************************************************************)
EXTENDS Naturals, Sequences, SequencesExt

CONSTANT Events   \* the numbers events are given, a set of naturals

VARIABLES published,  \* the events that have appeared
          gone,       \* those of them that were withdrawn
          delivered   \* those the reader has received, in the order it did

vars == <<published, gone, delivered>>

Init == published = {} /\ gone = {} /\ delivered = <<>>

Publish(n) ==
    /\ \A m \in published : m < n
    /\ published' = published \cup {n}
    /\ UNCHANGED <<gone, delivered>>

Withdraw ==
    /\ gone \subseteq gone' /\ gone' \subseteq published
    /\ UNCHANGED <<published, delivered>>

Received == ToSet(delivered)

Deliver(n) ==
    /\ n \in published
    /\ \A m \in Received : m < n
    /\ \A m \in published : m < n => m \in Received \cup gone
    /\ delivered' = Append(delivered, n)
    /\ UNCHANGED <<published, gone>>

Next == Withdraw \/ \E n \in Events : Publish(n) \/ Deliver(n)

Spec == Init /\ [][Next]_vars
=============================================================================

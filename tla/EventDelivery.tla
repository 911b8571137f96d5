---------------------------- MODULE EventDelivery ----------------------------
(* What the edge-to-cloud path promises whatever fails: an event is stored     *)
(* only after it was handed in, and its row never changes again, however often *)
(* the batch that carries it is sent.                                          *)
EXTENDS Integers, Sequences, Functions

CONSTANT Event

VARIABLES accepted,   \* the events handed in, in order
          delivered,  \* delivered[e]: the round that stored e, or 0
          rounds      \* the rounds of delivery so far

vars == <<accepted, delivered, rounds>>

Init == /\ accepted = <<>>
        /\ delivered = [e \in Event |-> 0]
        /\ rounds = 0

Accept(e) == /\ e \notin Range(accepted)
             /\ accepted' = Append(accepted, e)
             /\ UNCHANGED <<delivered, rounds>>

Undelivered == {e \in Range(accepted) : delivered[e] = 0}

Deliver(S) == /\ S # {}
              /\ rounds' = rounds + 1
              /\ delivered' = [e \in Event |-> IF e \in S THEN rounds + 1
                                                         ELSE delivered[e]]
              /\ UNCHANGED accepted

Next == \/ \E e \in Event : Accept(e)
        \/ \E S \in SUBSET Undelivered : Deliver(S)

Spec == Init /\ [][Next]_vars
=============================================================================

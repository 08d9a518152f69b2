--------------------------- MODULE MCOrderPayments ---------------------------
(* Small instances of OrderPayments for TLC. *)
EXTENDS OrderPayments, TLC

\* Every payment id is of the one order.
OneOrder == [p \in Payments |-> CHOOSE o \in Orders : TRUE]

Symmetric ==
    Permutations(Intents) \cup Permutations(Processors) \cup Permutations(Tills)
        \cup Permutations(Managers)

=============================================================================

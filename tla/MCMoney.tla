------------------------------ MODULE MCMoney ------------------------------
(* Two scenes of OrderPayments, checked in one run; scene is chosen once and  *)
(* says who takes part.  In "capture" two intents and cash race for one       *)
(* order, two processors for one event, and nobody cancels or refunds.  In    *)
(* "refund" there is one intent, whose capture may look wrong, and one event  *)
(* is processed at a time, while a cancel and the sweep race the payment and  *)
(* two managers refund in parts.  All scenes at once are beyond TLC.          *)
EXTENDS MCOrderPayments, FiniteSets

VARIABLE scene

Captures ==
    /\ \A k \in Cancellers : voids[k] = Idle
    /\ \A m \in Managers : refunds[m] = Idle
    /\ \A e \in sent : e[2] # "MISMATCHED"

Refunds ==
    /\ Cardinality({i \in Intents : gateway[i] # "none"}) <= 1
    /\ Cardinality({p \in Processors : procs[p] # Idle}) <= 1

InScene == (scene = "capture" => Captures) /\ (scene = "refund" => Refunds)

MoneyInit == scene \in {"capture", "refund"} /\ Init
MoneyNext == Next /\ UNCHANGED scene /\ InScene'

MoneySpec == MoneyInit /\ [][MoneyNext]_<<scene, vars>>

=============================================================================

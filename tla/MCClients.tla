----------------------------- MODULE MCClients -----------------------------
(* What clients see of concurrent requests, checked in one run: a retried     *)
(* POST with its Idempotency-Key (IdempotentRequests), a walk through the     *)
(* order list (OrderPages), the kitchen and pickup screens (KitchenScreens)   *)
(* and the pairing of a kiosk (KioskDevices).  No module reads another's      *)
(* variables: turn is chosen once, the component it names runs its whole      *)
(* specification and the others keep their initial state, in which their      *)
(* invariants hold.                                                           *)
EXTENDS IdempotentRequests, OrderPages, KitchenScreens, KioskDevices, TLC

VARIABLE turn

ClientsInit ==
    /\ turn \in {"keys", "pages", "screens", "devices"}
    /\ KeyedInit /\ PagesInit /\ ScreensInit /\ DevicesInit

ClientsNext ==
    \/ turn = "keys" /\ KeyedNext /\ UNCHANGED <<turn, pageVars, screenVars, deviceVars>>
    \/ turn = "pages" /\ PagesNext /\ UNCHANGED <<turn, keyVars, screenVars, deviceVars>>
    \/ turn = "screens" /\ ScreensNext /\ UNCHANGED <<turn, keyVars, pageVars, deviceVars>>
    \/ turn = "devices" /\ DevicesNext /\ UNCHANGED <<turn, keyVars, pageVars, screenVars>>

ClientsSpec ==
    ClientsInit /\ [][ClientsNext]_<<turn, keyVars, pageVars, screenVars, deviceVars>>

Symmetric == Permutations(Attempts) \cup Permutations(Keys) \cup Permutations(Bodies)

=============================================================================

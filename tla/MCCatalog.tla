----------------------------- MODULE MCCatalog -----------------------------
(* The catalog and what is taken from it, checked in one run: the menu        *)
(* document (MenuCache), the pictures (ItemImages), the option groups of an   *)
(* item (ItemOptionGroups), the price of an order (OrderPricing), the queue   *)
(* numbers of the orders (OrderPayments without any payment) and the seed     *)
(* script (SeedRuns).  No component reads another's variables, so nothing is  *)
(* gained by interleaving them: turn is chosen once, the component it names   *)
(* runs its whole specification and the others keep their initial state, of   *)
(* which a property has nothing more to say.                                  *)
EXTENDS OrderPayments, MenuCache, ItemImages, OrderPricing, ItemOptionGroups, SeedRuns,
        SequencesExt, TLC

CONSTANTS
    latte, cake, ghost, size, small, large    \* OrderPricing

VARIABLE turn

-----------------------------------------------------------------------------
NoPayments == <<>>

MCItems == {latte, cake}
MCGroups == {size}
MCOptions == {small, large}
MCGroupOf == [o \in MCOptions |-> size]
MCDeltas == {-130, 0, 15}
MCBounds == {<<0, 1>>, <<1, 1>>, <<1, 2>>, <<2, 1>>}

Line(i, q, os) == [item |-> i, quantity |-> q, optionIds |-> os]

\* Two lattes with up to two options, one of them possibly twice; cake with an
\* option it does not have; an item the catalog has never heard of.
Lines == {Line(latte, 2, os) : os \in SeqOf(MCOptions, 2)}
            \cup {Line(cake, 1, <<>>), Line(cake, 1, <<large>>), Line(ghost, 1, <<>>)}

MCBaskets == {<<a>> : a \in Lines} \cup {<<a, b>> : a, b \in Lines}

MCFirstCatalog ==
    [base |-> [i \in MCItems |-> IF i = latte THEN 120 ELSE 65],
     on |-> [i \in MCItems |-> TRUE],
     active |-> [i \in MCItems |-> TRUE],
     groups |-> [i \in MCItems |-> IF i = latte THEN {size} ELSE {}],
     delta |-> [o \in MCOptions |-> IF o = small THEN -10 ELSE 15],
     stock |-> [o \in MCOptions |-> TRUE],
     bounds |-> [g \in MCGroups |-> <<0, 1>>]]

\* One entry of each sort the script writes, in its order.
MCPlan == <<"staff", "group", "option", "category", "item", "link">>
MCKind == [staff |-> "unique", group |-> "plain", option |-> "plain",
           category |-> "unique", item |-> "plain", link |-> "link"]
MCParents == [staff |-> {}, group |-> {}, option |-> {"group"},
              category |-> {}, item |-> {"category"}, link |-> {"item", "group"}]

-----------------------------------------------------------------------------
CatalogVars == <<turn, vars, menuVars, imageVars, priceVars, putVars, seedVars>>

CatalogInit ==
    /\ turn \in {"menu", "images", "groups", "pricing", "intake", "seed"}
    /\ Init /\ MenuInit /\ ImagesInit /\ PricingInit /\ PutsInit /\ SeedInit
    \* one initial state is enough of a component that does not move
    /\ turn # "images" => autoCreateBucket /\ bucket = "public"
    /\ turn # "groups" => attachments = {} /\ \A p \in Puts : tx[p].body = CHOOSE b \in Bodies : TRUE
    /\ turn # "seed" => committed = {}

CatalogNext ==
    \/ turn = "menu" /\ MenuNext
       /\ UNCHANGED <<turn, vars, imageVars, priceVars, putVars, seedVars>>
    \/ turn = "images" /\ ImagesNext
       /\ UNCHANGED <<turn, vars, menuVars, priceVars, putVars, seedVars>>
    \/ turn = "pricing" /\ PricingNext
       /\ UNCHANGED <<turn, vars, menuVars, imageVars, putVars, seedVars>>
    \/ turn = "intake" /\ Next
       /\ UNCHANGED <<turn, menuVars, imageVars, priceVars, putVars, seedVars>>
    \/ turn = "groups" /\ PutsNext
       /\ UNCHANGED <<turn, vars, menuVars, imageVars, priceVars, seedVars>>
    \/ turn = "seed" /\ SeedNext
       /\ UNCHANGED <<turn, vars, menuVars, imageVars, priceVars, putVars>>

CatalogSpec == CatalogInit /\ [][CatalogNext]_CatalogVars

Symmetric == Permutations(Kiosks) \cup Permutations(Writers)

=============================================================================

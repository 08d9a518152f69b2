---------------------------- MODULE OrderPricing ----------------------------
(***************************************************************************)
(* Pricing a basket against a catalog that managers edit while a kiosk     *)
(* shows an older menu (priceOrder, OrdersService.build and the catalog    *)
(* services).  A basket is a sequence of lines; its option ids may repeat  *)
(* or name options of another item, since the client composes them.        *)
(***************************************************************************)
EXTENDS Integers, Sequences, FiniteSets, FiniteSetsExt, Functions, Absent

CONSTANTS
    Items, Groups, Options,
    GroupOf,        \* option -> its group
    Prices, Deltas, \* values a manager may enter
    Bounds,         \* <<minSelect, maxSelect>> pairs a manager may enter
    Baskets,        \* baskets a client may submit; a line may name no item at all
    FirstCatalog,
    MaxEdits

VARIABLES
    catalog, \* [base, on, active, groups : per item; delta, stock : per option; bounds : per group]
    shown,   \* the menu the kiosk shows: an earlier catalog
    basket,  \* what the customer has put together
    answer,  \* what POST /orders answered
    edits

priceVars == <<catalog, shown, basket, answer, edits>>

-----------------------------------------------------------------------------
\* resolveLine

Chosen(line) == Range(line.optionIds)

duplicateOptionIds(line) ==
    {o \in Chosen(line) :
        Cardinality({n \in DOMAIN line.optionIds : line.optionIds[n] = o}) > 1}

\* MUTANT of attached: an option that is sold out is not one of the item's.
attachedInStock(line, cat) ==
    IF line.item \in Items
    THEN {o \in Options : GroupOf[o] \in cat.groups[line.item] /\ cat.stock[o]} ELSE {}

attached(line, cat) ==
    IF line.item \in Items THEN {o \in Options : GroupOf[o] \in cat.groups[line.item]} ELSE {}

options(line, cat) == Chosen(line) \cap attached(line, cat)

unknownOptionIds(line, cat) == Chosen(line) \ attached(line, cat)

\* readCatalog: an item of an inactive category is unavailable, not missing.
isAvailable(item, cat) == item \in Items /\ cat.on[item] /\ cat.active[item]

\* The bounds are only looked at when every id is understood.
validateSelections(line, cat) ==
    LET rules == {r \in {"DUPLICATE_OPTION", "UNKNOWN_OPTION"} :
                     \/ r = "DUPLICATE_OPTION" /\ duplicateOptionIds(line) # {}
                     \/ r = "UNKNOWN_OPTION" /\ unknownOptionIds(line, cat) # {}}
        selected(g) == Cardinality({o \in options(line, cat) : GroupOf[o] = g})
    IN IF rules # {} THEN rules
       ELSE {IF selected(g) < cat.bounds[g][1] THEN "MIN_SELECT" ELSE "MAX_SELECT" :
                g \in {h \in cat.groups[line.item] :
                          selected(h) \notin cat.bounds[h][1] .. cat.bounds[h][2]}}

violations(lines, cat) ==
    UNION {validateSelections(lines[n], cat) : n \in {k \in DOMAIN lines : lines[k].item \in Items}}

unavailable(lines, cat) ==
    {lines[n].item : n \in {k \in DOMAIN lines : ~isAvailable(lines[k].item, cat)}}
        \cup {o \in UNION {options(lines[n], cat) : n \in DOMAIN lines} : ~cat.stock[o]}

lineTotalMinor(line, cat) ==
    line.quantity * Max({0, cat.base[line.item]
                              + MapThenSumSet(LAMBDA o : cat.delta[o], options(line, cat))})

totalMinor(lines, cat) == MapThenSumSet(LAMBDA n : lineTotalMinor(lines[n], cat), DOMAIN lines)

refused(kind, why) == [kind |-> kind, why |-> why, total |-> 0]

priceOrder(lines, cat) ==
    IF violations(lines, cat) # {} THEN refused("invalid", violations(lines, cat))
    ELSE IF unavailable(lines, cat) # {} THEN refused("unavailable", unavailable(lines, cat))
    ELSE [kind |-> "priced", why |-> {}, total |-> totalMinor(lines, cat)]

-----------------------------------------------------------------------------
\* The back office.

Edit(cat) ==
    /\ edits < MaxEdits /\ cat # catalog
    /\ catalog' = cat /\ edits' = edits + 1
    /\ UNCHANGED <<shown, basket, answer>>

updateItem == \E i \in Items, p \in Prices : Edit([catalog EXCEPT !.base[i] = p])
setAvailability == \E i \in Items : Edit([catalog EXCEPT !.on[i] = ~@])
updateCategory == \E i \in Items : Edit([catalog EXCEPT !.active[i] = ~@])
replaceGroups == \E i \in Items : \E gs \in SUBSET Groups : Edit([catalog EXCEPT !.groups[i] = gs])
\* option_groups_minmax_check refuses the others.
updateGroup ==
    \E g \in Groups : \E b \in {b \in Bounds : b[1] <= b[2]} : Edit([catalog EXCEPT !.bounds[g] = b])
updateOption == \E o \in Options, d \in Deltas : Edit([catalog EXCEPT !.delta[o] = d])
setOptionAvailability == \E o \in Options : Edit([catalog EXCEPT !.stock[o] = ~@])

\* The kiosk reads the menu, and a customer fills a basket from it.
GetMenu ==
    /\ answer = None /\ basket = None
    /\ shown' = catalog
    /\ basket' \in Baskets
    /\ UNCHANGED <<catalog, answer, edits>>

\* What the client may send along: nothing, or the total its own menu gives.
expectedTotalMinor ==
    {None} \cup IF \A line \in Range(basket) : line.item \in Items
                 THEN {totalMinor(basket, shown)} ELSE {}

\* POST /orders, priced from the catalog of the moment.
buildOrder ==
    /\ basket # None /\ answer = None
    /\ \E expected \in expectedTotalMinor :
          LET priced == priceOrder(basket, catalog)
          IN  answer' = IF /\ priced.kind = "priced"
                           /\ expected # None /\ expected # priced.total
                        THEN refused("mismatch", {}) ELSE priced
    /\ UNCHANGED <<catalog, shown, basket, edits>>

-----------------------------------------------------------------------------
PricingInit ==
    /\ catalog = FirstCatalog
    /\ shown = FirstCatalog
    /\ basket = None
    /\ answer = None
    /\ edits = 0

PricingNext ==
    \/ updateItem \/ setAvailability \/ updateCategory \/ replaceGroups
    \/ updateGroup \/ updateOption \/ setOptionAvailability
    \/ GetMenu \/ buildOrder

PricingSpec == PricingInit /\ [][PricingNext]_priceVars

-----------------------------------------------------------------------------
Permitted(lines, cat) == priceOrder(lines, cat).kind = "priced"

\* What of a basket is off sale.
OffSale(lines, cat) ==
    {i \in {line.item : line \in Range(lines)} : ~isAvailable(i, cat)}
        \cup {o \in UNION {Chosen(line) : line \in Range(lines)} : ~cat.stock[o]}

SameShape(lines, cat, other) ==
    \A line \in Range(lines) :
        /\ cat.groups[line.item] = other.groups[line.item]
        /\ \A g \in cat.groups[line.item] : cat.bounds[g] = other.bounds[g]

SameFigures(lines, cat, other) ==
    \A line \in Range(lines) :
        /\ cat.base[line.item] = other.base[line.item]
        /\ \A o \in Chosen(line) : cat.delta[o] = other.delta[o]

\* The basket without the lines that use one of these.
Without(lines, gone) ==
    SelectSeq(lines, LAMBDA line : ({line.item} \cup Chosen(line)) \cap gone = {})

\* A basket the kiosk's menu allowed is refused for what has changed since, and told
\* the truth about it: "invalid" only when the groups of its items were edited, "sold
\* out" with all that is off sale in it and nothing else, so that the rest can be had
\* ("so a customer fixes their order once"), "price changed" only when a price of its
\* own changed and nothing in it is sold out ("hears about the sold-out item first").
RefusalNamesItsCause ==
    [][answer = None /\ answer' # None /\ Permitted(basket, shown) =>
          LET gone == OffSale(basket, catalog) IN
          CASE answer'.kind = "invalid" -> ~SameShape(basket, shown, catalog)
            [] answer'.kind = "unavailable" ->
                  /\ answer'.why = gone
                  /\ Permitted(Without(basket, gone), catalog)
            [] answer'.kind = "mismatch" -> gone = {} /\ ~SameFigures(basket, shown, catalog)
            [] answer'.kind = "priced" -> gone = {}]_priceVars

\* A basket refused as invalid is one "the menu never permitted".
\* Not guaranteed by the code: the README tells how it fails.
InvalidWasNeverPermitted ==
    answer # None /\ answer.kind = "invalid" => ~Permitted(basket, shown)

\* An order that is accepted can be paid: payments.amount_minor must be positive
\* ("a free croissant costs the cafe one croissant, where a rejection closes every
\* kiosk for that item").
\* Not guaranteed by the code: the README tells how it fails.
AcceptedCanBePaid == answer # None /\ answer.kind = "priced" => answer.total > 0

=============================================================================

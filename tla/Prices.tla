------------------------------- MODULE Prices -------------------------------
(***************************************************************************)
(* Prices and costs (pricing.py).  The name of a model is the sequence of  *)
(* its parts between "-"; a price is in units per token, cache_read and    *)
(* cache_write may be unknown (None).                                      *)
(***************************************************************************)
EXTENDS Messages

CONSTANTS
    PriceTable,   \* provider -> model -> price, as loaded from the files
    Overrides     \* the same, as set with set_price ("*": any provider)

Price(input, output, read, write) ==
    [input |-> input, output |-> output, read |-> read, write |-> write]

\* Names are sequences of parts; a date may be one of them.
NameParts == STRING \union {"dated"}
ModelNames == Seq(NameParts)

Rate == [input : Nat, output : Nat, read : Nat \union {None}, write : Nat \union {None}]

IsPriceList(table) == \A name \in DOMAIN table : name \in ModelNames /\ table[name] \in Rate

ASSUME PricesAssumption ==
    /\ None \notin Rate /\ None \notin ModelNames
    /\ \A provider \in DOMAIN PriceTable : IsPriceList(PriceTable[provider])
    /\ \A provider \in DOMAIN Overrides : IsPriceList(Overrides[provider])

OrInput(rate, price) == IF rate = None THEN price.input ELSE rate

\* ModelPrice.cost
CostAt(price, usage) ==
      usage.input * price.input + usage.output * price.output
    + usage.read * OrInput(price.read, price) + usage.write * OrInput(price.write, price)

IsPrefixOrEqual(known, name) ==
    Len(known) <= Len(name) /\ SubSeq(name, 1, Len(known)) = known

\* What a price list says of a model: the price of the longest name that its own begins
\* with, or nothing.
Lists(table, model, price) ==
    \E name \in DOMAIN table :
        /\ IsPrefixOrEqual(name, model) /\ table[name] = price
        /\ \A other \in DOMAIN table : IsPrefixOrEqual(other, model) => Len(other) <= Len(name)

Silent(table, model) == \A name \in DOMAIN table : ~IsPrefixOrEqual(name, model)

ShortestPrefix(table, name) ==  \* mutant
    LET known == {k \in DOMAIN table : IsPrefixOrEqual(k, name)} IN
    IF known = {} THEN None
    ELSE table[CHOOSE k \in known : \A other \in known : Len(k) <= Len(other)]

\* _lookup: the model itself, or the longest name that ends before one of its "-".
Lookup(table, name) ==
    LET known == {k \in DOMAIN table : IsPrefixOrEqual(k, name)} IN
    IF known = {} THEN None
    ELSE table[CHOOSE k \in known : \A other \in known : Len(other) <= Len(k)]

\* _PRICE_ALIASES
ProviderKey(provider) == IF provider = "openai-responses" THEN "openai" ELSE provider

TableOf(tables, provider) ==
    IF provider \in DOMAIN tables THEN tables[provider] ELSE <<>>

\* get_price: overrides of the provider, overrides of any provider, the table.
GetPrice(provider, model) ==
    LET own  == Lookup(TableOf(Overrides, ProviderKey(provider)), model)
        any  == Lookup(TableOf(Overrides, "*"), model)
    IN IF own # None THEN own
       ELSE IF any # None THEN any
       ELSE Lookup(TableOf(PriceTable, ProviderKey(provider)), model)

\* What the price lists say of a model, to be compared with GetPrice: an override of its
\* provider decides, else one of any provider, else the table; in each the longest name.
\* A list that is silent leaves it to the next, also where that knows a longer name.
IsPriced(provider, model, price) ==
    LET own    == TableOf(Overrides, ProviderKey(provider))
        any    == TableOf(Overrides, "*")
        listed == TableOf(PriceTable, ProviderKey(provider))
    IN \/ Lists(own, model, price)
       \/ Silent(own, model) /\ Lists(any, model, price)
       \/ Silent(own, model) /\ Silent(any, model) /\ Lists(listed, model, price)
       \/ /\ Silent(own, model) /\ Silent(any, model) /\ Silent(listed, model)
          /\ price = None

ListedPrices ==
    (UNION {Range(PriceTable[provider]) : provider \in DOMAIN PriceTable})
      \union (UNION {Range(Overrides[provider]) : provider \in DOMAIN Overrides})

PriceInForce(provider, model) ==
    CHOOSE price \in ListedPrices \union {None} : IsPriced(provider, model, price)

\* cost_for
CostFor(provider, model, usage) ==
    LET price == GetPrice(provider, model) IN
    IF price = None THEN None ELSE CostAt(price, usage)

\* The end of transport: the price of the model that says it answered, or else of the
\* model asked; no cost without counters.
CostOfResponse(target, response) ==
    LET named == CostFor(target.provider, response.model, response.usage) IN
    IF ~response.usage.reported THEN None
    ELSE IF named # None THEN named
    ELSE CostFor(target.provider, target.model, response.usage)

=============================================================================

SPECIFICATION Spec
CONSTANTS
    Assets = {a}
    Currencies = {usd}
    Default = usd
    NoCurrency = none
    Scales = {0, 1}
    NoScale = none
    Amounts = {3}
    Marks = {5}
    Times = {0}
    Txs = {t}
    MaxQuantity = 1
    MaxEvents = 2
INVARIANT ScalesAreTheLedgers
CHECK_DEADLOCK FALSE

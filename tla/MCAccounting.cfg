SPECIFICATION Spec
CONSTANTS
    Assets = {a}
    Currencies = {usd, eur}
    Default = usd
    NoCurrency = none
    Scales = {0, 1}
    NoScale = none
    Amounts = {3}
    Marks = {5}
    Times = {0, 1}
    Txs = {t}
    MaxQuantity = 2
    MaxEvents = 4
INVARIANTS TypeOK BooksAgree ReportsAddUp MethodMakesNoMoney KnownCostsWerePaid OldestGoFirst
PROPERTY HifoCostsMost
CHECK_DEADLOCK FALSE

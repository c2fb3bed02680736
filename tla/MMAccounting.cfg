SPECIFICATION Spec
CONSTANTS
    Terminals = {plain, zero}
    Plain = {plain}
    None = None
    Times = {1, 2}
    Seqs = {1, 2}
    Cards = {c1, c2}
    StatusWords = {0, 1}
    AllOnes = AllOnes
    Boxes <- MCBoxes
    Editions = {e1, e2}
    MaxDay = 1
    MaxReports = 2
    MaxRows = 3
    Mixed = FALSE
INVARIANTS
    TypeOK
    AnsweredIsFiled
    FiledOnce
    StatusChanges
    CashBoxIsLast
PROPERTY ImplementsLedger

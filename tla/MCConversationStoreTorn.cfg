CONSTANTS
    w1 = w1
    w2 = w2
    w3 = w3
    Writers = {w1, w2, w3}
    MaxSaid = 2
    MaxTorn = 1
    Serial = TRUE
    Torn = Torn
SPECIFICATION Spec
INVARIANTS
    NewMessagesAppended
SYMMETRY Symmetry
CHECK_DEADLOCK FALSE

SPECIFICATION MessengerFairSpec
CONSTANTS
    ann = ann
    bob = bob
    cem = cem
    Users = {ann, bob, cem}
    Leavers = {bob}
    Texts <- MCTexts
    NoOne = NoOne
INVARIANTS
    MessengerTypeOK
    Contiguous
    Agreement
    DiesSilent
PROPERTIES
    TextArrives
    ImplementsChat
CHECK_DEADLOCK FALSE

CONSTANTS
    Models = {0, 1}
    PcMod = 2
    Masks = {0, 1}
    UserWords = 1
    SystemWords = 12
    MaxDepth = 3
SPECIFICATION Spec
INVARIANTS
    TypeOK
    BanksApart
PROPERTY
    ImplementsSuspension

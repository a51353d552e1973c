SPECIFICATION FairSpec
CONSTANTS
    P = 3
    B = 2
    BankOf <- MCBankOf
    Caps <- MCCaps
    Worlds <- MCWorlds
    AtReset <- MCAtReset
    HelpLines = 1
    Id = {i1}
    None = None
INVARIANTS
    HardwareAgrees
    CapabilitiesRespected
    SilentAfterBye
PROPERTIES
    NoPhantomEvent
    StreamWhole
    ChangesSettle
    StreamEnds

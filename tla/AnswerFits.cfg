SPECIFICATION Spec
CONSTANTS
    Targets = {"PA0", "PB13", "PIOA", "ALL", "PX", "BYE", "UNSET", "LOW", "DIR", "GET", "HAI", "SAM", "WYD", "BAD_PACKET", "ON"}
    Unprintable <- MCUnprintable
    Pins = {"PA0", "PB13"}
    BankNames = {"PIOA"}
    Strange = {"PX", "ON", "BAD_PACKET"}
    Identity <- MCIdentity
    Packages = {1, 65535}
    Bits = {0, 9, 31}
    Ids = {1, 57, 999}
    TypedTokens <- LongRouteTokens
    MaxTokens = 3
INVARIANT AnswerFits

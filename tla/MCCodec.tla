------------------------------ MODULE MCCodec -------------------------------
EXTENDS Codec

MCIdentity == <<Word("SAM4E8E"), Word("GPIO")>>

\* A route name that fills the answer to the last byte, and one byte more.
Widest == Word("R23456789012345678901234567890123456789")
TooWide == Word("R234567890123456789012345678901234567890")

\* "~" stands for a byte that is neither graphic nor blank, as DEL.
MCUnprintable == {"~"}

MCTypedTokens ==
    {Word(w) : w \in {"SAM", "GET", "HAI", "PA0", "OK?", "DIR", "WYD"}}
    \cup {Widest, Num(7, 1), Num(1000, 4), Word("~")}
LongRouteTokens == {Num(7, 1), TooWide, Word("HAI")}
=============================================================================

------------------------------ MODULE MCGpio ------------------------------
EXTENDS Gpio, TLC

\* A pin that is open or driven high and an unavailable one in the first bank;
\* in the second, a pin without pull-up that the world moves freely.
MCBankOf == 0 :> 0 @@ 1 :> 0 @@ 2 :> 1
MCCaps == 0 :> Capabilities @@ 1 :> {} @@ 2 :> {"input", "output"}
MCAtReset == 0 :> "pullup" @@ 1 :> "other" @@ 2 :> "input"
MCWorlds == 0 :> {"high", "open"} @@ 1 :> {"low"} @@ 2 :> Levels
=============================================================================

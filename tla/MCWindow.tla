------------------------------ MODULE MCWindow ------------------------------
EXTENDS Window

Pin(token, bank) == [token |-> token, bank |-> bank]
Board(banks, pins) == [banks |-> banks, pins |-> pins]

MCRoutes == <<"SAM", "LPC">>
MCLayout == [route |-> "SAM", groups |-> <<<<"PIOA">>, <<"PIOB", "PIOE">>>>]

\* A board whose banks are in another order than the tabs, one of them in no
\* tab, and another board.
Lpc == Board(<<"PIO0">>, <<>>)
MCDevices ==
    {[SAM |-> Board(<<"PIOE", "PIOX", "PIOB">>, <<Pin("PB0", "PIOB")>>),
      LPC |-> Lpc],
     [SAM |-> Board(<<"PIOA">>, <<Pin("PA0", "PIOA")>>), LPC |-> Lpc]}
=============================================================================

------------------------------ MODULE MCRouter ------------------------------
EXTENDS Router

\* Route 0 serves two destinations, as one next hop may; "XYZ" is configured on
\* both routes, and the first one must be chosen; "lost" is configured on none.
MCReaches == 0 :> {"LPC", "XYZ"} @@ 1 :> {"ABC", "XYZ"}
=============================================================================

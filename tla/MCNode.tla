------------------------------- MODULE MCNode -------------------------------
EXTENDS Node

\* One downstream node.
MCReaches == 0 :> {"LPC"}
\* All kinds but the oversized line, which a turn skips like no line at all.
MCLocal == LocalKinds \ {"tooLong"}
=============================================================================

-------------------------------- MODULE MCRpc --------------------------------
\* Rpc for TLC: a controller, a module that is there and one that comes late, which has
\* the name of the server.
EXTENDS Rpc, TLC

CONSTANTS k1, m1, m2

MCCaller == {k1}
MCCallee == {m1, m2}
MCLate == {m1}
MCgetName == (k1 :> "control") @@ (m1 :> "hub") @@ (m2 :> "digitizer") @@ ("Server" :> "hub")

=============================================================================

--------------------------- MODULE MC_ClientProxy ---------------------------
(* Bounded instances of ClientProxy for TLC.                               *)
EXTENDS ClientProxy

CONSTANTS c1, c2, k1

MCClients == {c1, c2}
MCKeys == {k1}

\* RetryLater and one other engine error code.
MCEngineCodes == {RetryLater, -1}

\* VERSION "0.1"; an engine of release 0.1.3, which it accepts, and one of
\* release 0.2.0, which it refuses.
MCClientVersion == <<"0", ".", "1">>
MCServerVersions == {<<"0", ".", "1", ".", "3">>, <<"0", ".", "2", ".", "0">>}
=============================================================================

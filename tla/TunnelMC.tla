------------------------------ MODULE TunnelMC ------------------------------
(***************************************************************************)
(* Tunnel for TLC: two gateway processes that compete for one lock file    *)
(* and one host, and enough slots for a replaced connection and its        *)
(* successor to overlap on the hub.                                        *)
(***************************************************************************)
EXTENDS Tunnel

FirstGateway == CHOOSE g \in Gateways : TRUE
FirstConn    == CHOOSE c \in Conns : TRUE

\* As long as nothing tells two gateways or two slots apart, the first one is
\* taken.  This leaves out behaviours that differ from others by their names
\* only; a SYMMETRY set would not be sound for the liveness properties.
NamesInOrder ==
    /\ (\A g \in Gateways : gs[g] = "idle" /\ ~redir[g]) =>
          \A g \in Gateways \ {FirstGateway} : gs'[g] = "idle"
    /\ (\A c \in Conns : conn[c] = FreeConn) =>
          \A c \in Conns \ {FirstConn} : conn'[c] = FreeConn

TunnelMCNext == Next /\ NamesInOrder
TunnelMCSpec == Init /\ [][TunnelMCNext]_vars /\ Fairness
=============================================================================

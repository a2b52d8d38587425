----------------------------- MODULE MCNmConsole -----------------------------
(***************************************************************************)
(* Two ports and two clients.  The first client may call either port, the  *)
(* second the later one: a descriptor that the first port gives up can be  *)
(* handed out again in the same pass only to a port after it.              *)
(***************************************************************************)
EXTENDS NmConsole, Telnet, TLC

CONSTANTS c1, c2

MCConns == {c1, c2}
MCDials == c1 :> {0, 1} @@ c2 :> {1}

\* telnet_filter does to the bytes of units what NmConsole does to units (FilterUnit),
\* and telnet_write is its inverse.
ASSUME FilterByUnits == WholeUnits(3) /\ SplitUnits
ASSUME WriteKept == LineRoundTrip(4, 2..6)
=============================================================================

-------------------------- MODULE MCLinkMonitoring --------------------------
(***************************************************************************)
(* Values of the constants of LinkMonitoring for TLC.                      *)
(***************************************************************************)
EXTENDS LinkMonitoring, TLC

CONSTANTS eth0, eth1   \* interface names

Distinct2  == 1 :> eth0 @@ 2 :> eth1
Repeated3  == 1 :> eth0 @@ 2 :> eth1 @@ 3 :> eth0
Single     == 1 :> eth0
TwoMonitors == {1, 2}
FirstMonitorAndServer == {1, MASTER}
Everybody  == Monitors \cup {MASTER}
=============================================================================

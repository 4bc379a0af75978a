------------------------------ MODULE MCAhciPort ------------------------------
(***************************************************************************)
(* Two tasks on a port each, or on the same port.                          *)
(***************************************************************************)
EXTENDS AhciPort, TLC

CONSTANTS t1, t2, p1, p2

OwnPort == t1 :> p1 @@ t2 :> p2
SharedPort == t1 :> p1 @@ t2 :> p1
BothMaps == {OwnPort, SharedPort}
=============================================================================

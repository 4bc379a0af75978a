---------------------------- MODULE MCTcpSocket -----------------------------
(* One TCP socket on the list of a process; its peer's initial sequence     *)
(* number is arbitrary and is not the socket's.                             *)
EXTENDS TcpSocket, TLC

CONSTANT s1

OneSocket == <<s1>>
OneIsn    == s1 :> 5
=============================================================================

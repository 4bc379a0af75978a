----------------------------- MODULE MCHostSetup -----------------------------
(***************************************************************************)
(* Networks for HostSetup: two DHCP servers, of which 200 is not on the     *)
(* subnet 100..199 of the addresses it offers; a host on the subnet and one *)
(* off it.                                                                  *)
(***************************************************************************)
EXTENDS HostSetup

LocalAndRelayed == {101, 200}
OnlyLocal == {101}
Offers == [s \in Servers |-> IF s = 101 THEN 110 ELSE 120]
Masks == [s \in Servers |-> 100]
Destinations == {150, 250}
=============================================================================

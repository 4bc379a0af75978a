------------------------------ MODULE MCTxPages -------------------------------
(***************************************************************************)
(* A ring of three descriptors and frames for more than two rounds, sent   *)
(* at any pace, three of them with a message, and pages for all.           *)
(***************************************************************************)
EXTENDS TxPages

ManyPages == 1 .. Frames + 3 * MaxWrites
=============================================================================

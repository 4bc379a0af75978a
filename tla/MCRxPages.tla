------------------------------ MODULE MCRxPages -------------------------------
(***************************************************************************)
(* A ring of three descriptors and frames for two rounds, a reader         *)
(* that keeps up or does not, and pages enough to keep all that is kept.   *)
(* The frames come in three mixes; each kind follows each other kind.      *)
(***************************************************************************)
EXTENDS RxPages

ManyPages == 1 .. 3 * Frames

Mixes ==
  {<<"data", "data", "stray", "data", "other", "reply">>,
   <<"reply", "undecodable", "data", "reply", "stray", "data">>,
   <<"other", "data", "undecodable", "other", "data", "stray">>}
=============================================================================

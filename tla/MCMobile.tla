----------------------------- MODULE MCMobile -----------------------------
(***************************************************************************)
(* A small instance of Mobile for TLC.                                     *)
(***************************************************************************)
EXTENDS Mobile, TLC

CONSTANTS aman, cafe, guest

MCOpening == (aman :> 3) @@ (cafe :> 1)
=============================================================================

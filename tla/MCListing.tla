------------------------------ MODULE MCListing ------------------------------
(***************************************************************************)
(* Small instances of Listing for TLC.                                     *)
(***************************************************************************)
EXTENDS Listing, TLC
=============================================================================

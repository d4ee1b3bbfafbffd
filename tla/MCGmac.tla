------------------------------- MODULE MCGmac -------------------------------
(***************************************************************************)
(* Three transmit and two receive descriptors, with more frames than       *)
(* descriptors both ways so that the rings wrap, fill up and drift.        *)
(***************************************************************************)
EXTENDS Gmac

=============================================================================

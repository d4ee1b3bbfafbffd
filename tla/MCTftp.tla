------------------------------- MODULE MCTftp -------------------------------
(* A small instance of Tftp: blocks of two bytes, files of up to two blocks *)
(* and a part, two sessions.                                                *)
EXTENDS Tftp
=============================================================================

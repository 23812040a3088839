-------------------------- MODULE MCResponseStream --------------------------
(***************************************************************************)
(* A generator of up to five pieces, none to three bytes each, read one to *)
(* four bytes at a time.                                                   *)
(***************************************************************************)
EXTENDS ResponseStream
=============================================================================

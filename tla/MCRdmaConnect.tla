---------------------------- MODULE MCRdmaConnect ----------------------------
(* Model-checking instances of RdmaConnect.                                *)
EXTENDS RdmaConnect
=============================================================================

------------------------------ MODULE MCWebPage ------------------------------
(* The administrator and an ordinary account that use one browser. *)
EXTENDS WebPage, TLC

CONSTANTS uma, adam

=============================================================================

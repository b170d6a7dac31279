------------------------------- MODULE MCCqrs --------------------------------
(***************************************************************************)
(* TLC instances of lesson 6.                                              *)
(***************************************************************************)
EXTENDS CqrsProps
=============================================================================

----------------------------- MODULE MCSession -----------------------------
(***************************************************************************)
(* Session for TLC. Three messages leave room for a greeting, a question   *)
(* and its answer; with two swipes a message is full after one more swipe; *)
(* two requests let an answer be regenerated.                              *)
(***************************************************************************)
EXTENDS Session
=============================================================================

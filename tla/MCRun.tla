------------------------------- MODULE MCRun -------------------------------
(* The Step loop over a short Chat: every tool the loop tells apart but     *)
(* those that act, which it treats as it treats a read that brings no image. *)
EXTENDS Run

SomeTools == Tools \ {"act"}
=============================================================================

------------------------------ MODULE MCInbound ------------------------------
(***************************************************************************)
(* Instances of Inbound: the command lines people send.                    *)
(***************************************************************************)
EXTENDS Inbound

\* Purges that name nothing, their stretch and all of it, a digest that names
\* nothing and one that names its stretch and its destination, and the picker.
By(of) == [NoLine EXCEPT !.of = of, !.by = "opener"]
SomeLines == {
  [By("purge") EXCEPT !.everything = TRUE],
  [By("purge") EXCEPT !.everything = TRUE, !.range = "day"],
  [By("purge") EXCEPT !.everything = TRUE, !.range = "day", !.yes = TRUE],
  By("digest"),
  [By("digest") EXCEPT !.range = "day", !.delivery = "person"],
  By("policy"),
  [By("policy") EXCEPT !.yes = TRUE, !.level = 1] }

=============================================================================

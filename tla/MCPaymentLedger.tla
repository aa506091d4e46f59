-------------------------- MODULE MCPaymentLedger --------------------------
(* Instances of PaymentLedger: drafts by request and by adjustment.          *)
EXTENDS PaymentLedger, TLC

CONSTANTS d1, d2, x1, x2, h1, h2, e1, boss

HandlerSymmetry == Permutations(Handlers)
=============================================================================

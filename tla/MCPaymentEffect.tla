--------------------------- MODULE MCPaymentEffect ---------------------------
(***************************************************************************)
(* Instances of PaymentEffect for TLC: a subscription and a gift code, two *)
(* handlers (the provider's webhook, an administrator) and the reconciler. *)
(***************************************************************************)
EXTENDS PaymentEffect, TLC

CONSTANTS sub, gift, webhook, admin, reconciler

BothProducts == {sub, gift}
OnlySub == {sub}
OnlyGift == {gift}
Nothing == {}
TwoHandlers == {webhook, admin}
OneHandler == {webhook}

(* The handlers run the same code: interchangeable where no property names one. *)
HandlerSymmetry == Permutations(TwoHandlers)
=============================================================================

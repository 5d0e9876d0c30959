--------------------------- MODULE MCCheckoutRepos ---------------------------
(* CheckoutRepos with two workers and five repositories, any of which fail. *)
EXTENDS CheckoutRepos

CONSTANTS w1, w2

\* checkoutRepos returns when few repositories fail, and is stuck otherwise
\* only on a full error channel.
ReturnsOrFull == FewFailuresReturn /\ <>[]StuckOnlyOnFullErrc
=============================================================================

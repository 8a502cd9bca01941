--------------------------- MODULE MCPayableCycle ---------------------------
EXTENDS PayableCycle, TLC

CONSTANTS w1, w2, s1, s2

MCWallets == {w1, w2}
MCSlots == {s1, s2}

Scene(kinds, payees, txs, starts) ==
  [faults |-> kinds, creditors |-> payees, nonces |-> txs, restarts |-> starts]

\* Nothing fails; submissions fail; the chain refuses single transactions.
FairScenes == {Scene({}, MCWallets, 4, 0)}
FailingScenes == {Scene({"payment_error"}, MCWallets, 4, 0)}
RefusingScenes == {Scene({"rejection"}, MCWallets, 4, 0)}

\* Payments to one creditor fail in every way, and a Node that pays two crashes.
RoughScenes ==
  {Scene({"payment_error", "lost_response", "rejection"}, {w}, 2, 0) : w \in MCWallets}
    \cup {Scene({"crash", "rejection"}, MCWallets, 3, 1)}

Symmetry == Permutations(MCWallets) \cup Permutations(MCSlots)
=============================================================================

---------------------------- MODULE MCHandshake ----------------------------
EXTENDS Handshake, TLC

Symmetry == Permutations(Wallets)

\* Requests of the connected dApp are left out where no property is about them.
NoRequests == \A w \in Wallets : Ask(w) \notin relay
=============================================================================

------------------------------ MODULE Pairing ------------------------------
(***************************************************************************)
(* What a connection attempt promises, seen from outside: the dApp settles *)
(* on at most one of the wallets that scanned its request and never        *)
(* changes its mind; each side is open, then perhaps paired, and once over *)
(* stays so.  If wallets are confirmed (untrusted mode) only the one the   *)
(* dApp settled on may consider itself paired.                             *)
(***************************************************************************)
CONSTANTS
  Wallets,    \* wallets that scanned the request
  NoWallet    \* the dApp has not settled on one

VARIABLES
  confirmed,  \* do wallets wait to be acknowledged?
  chosen,     \* the wallet the dApp settled on
  dappEnd,    \* "open", "paired" or "over"
  walletEnd   \* the same of each wallet

vars == <<confirmed, chosen, dappEnd, walletEnd>>

Init ==
  /\ confirmed \in BOOLEAN
  /\ chosen = NoWallet
  /\ dappEnd = "open"
  /\ walletEnd = [w \in Wallets |-> "open"]

Choose(w) ==
  /\ chosen = NoWallet
  /\ chosen' = w
  /\ UNCHANGED <<confirmed, dappEnd, walletEnd>>

DappPairs ==
  /\ dappEnd = "open" /\ chosen # NoWallet
  /\ dappEnd' = "paired"
  /\ UNCHANGED <<confirmed, chosen, walletEnd>>

WalletPairs(w) ==
  /\ walletEnd[w] = "open"
  /\ confirmed => chosen = w
  /\ walletEnd' = [walletEnd EXCEPT ![w] = "paired"]
  /\ UNCHANGED <<confirmed, chosen, dappEnd>>

DappEnds ==
  /\ dappEnd' = "over"
  /\ UNCHANGED <<confirmed, chosen, walletEnd>>

WalletEnds(w) ==
  /\ walletEnd' = [walletEnd EXCEPT ![w] = "over"]
  /\ UNCHANGED <<confirmed, chosen, dappEnd>>

Next ==
  \/ DappPairs \/ DappEnds
  \/ \E w \in Wallets : Choose(w) \/ WalletPairs(w) \/ WalletEnds(w)

Spec == Init /\ [][Next]_vars
=============================================================================

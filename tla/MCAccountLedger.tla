--------------------------- MODULE MCAccountLedger ---------------------------
EXTENDS AccountLedger

MCOthers == {<<"hyperliquid", "USDT">>}

Target(a, min, max, target, priority) ==
  [account |-> a, min |-> min, max |-> max, target |-> target, priority |-> priority]

(* Two deficits of different rank after one surplus, a min outranking a    *)
(* higher priority, and one deficit after two surpluses; the account at    *)
(* the third venue is one the ledger has never heard of.                   *)
MCTargetLists ==
  LET h == HomeQuote
      x == <<"hyperliquid", "USDT">>
      k == <<"kraken", "USDT">>
  IN { <<Target(x, Unset, Unset, 1, 1), Target(h, Unset, 0, Unset, 0), Target(k, 1, Unset, Unset, 0)>>,
       <<Target(k, Unset, Unset, 2, 0), Target(h, 0, Unset, 0, 0), Target(x, Unset, 0, Unset, 0)>> }
=============================================================================

------------------------------ MODULE MCWallet ------------------------------
(* A small wallet for TLC. *)
EXTENDS WalletPages, TLC

MCOpening == [c \in Column |-> CASE c = "balance"       -> 2
                                 [] c = "balancetriple" -> 1
                                 [] c = "balanceleft"   -> 2
                                 [] c = "balanceright"  -> 6]

MCMoves == {<<"settlement", "balanceleft", -1>>, <<"adjustment", "balance", -1>>}

\* Cards matter to withdrawals only: while there is one no order is looked at, and a withdrawal
\* that meets orders is one without a card.
CardsApart ==
    \A m \in Method : userwithdrawmethod[m] # NULL =>
        \A o \in InventoryOrder : inventoryorder[o] = NULL /\ ~ Busy(o)

Symmetry == Permutations(Withdraw) \cup Permutations(InventoryOrder)
            \cup Permutations(Session)
=============================================================================

----------------------------- MODULE MCWalletSync -----------------------------
\* Two blocks that pay the first address, the one the gap adds next, or nobody of
\* the account: never an address beyond the gap at its time.
EXTENDS WalletSync

MCPayments == {<<0, 0>>, <<0, 1>>, <<0, Foreign>>}
=============================================================================

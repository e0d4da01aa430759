----------------------------- MODULE MCOnline -----------------------------
(***************************************************************************)
(* Small instances of PaymentOnline for TLC.                               *)
(***************************************************************************)
EXTENDS PaymentOnline, TLC

CONSTANTS r1, r2, r3, i1, i2

MCHome == [r \in Requests |-> IF r = r3 THEN i2 ELSE i1]

\* Wallet 1 has 4, 2 of them in escrow, so 3 for user 2 are too much; a balance
\* holds 6 at most (MaxInt), so 3 for user 1 overflow the column unless a payment
\* to user 2 comes first.
MCOpening ==
    1 :> [balance |-> 4, allocated |-> 2, lastSeq |-> 0] @@
    2 :> [balance |-> 3, allocated |-> 0, lastSeq |-> 0]

\* One key for two transfers, one the other way, more than is available, to
\* oneself, to nobody, nothing.
MCTransfers == {
    Payment("k1", 1, 2, 2), Payment("k2", 2, 1, 3), Payment("k2", 1, 2, 3),
    Payment("k1", 1, 1, 1), Payment("k2", 1, 3, 1), Payment(None, 1, 2, 0)}

\* Crossing transfers: each pays the other.
CrossTransfers == {Payment(None, 1, 2, 1), Payment(None, 2, 1, 1)}

\* r1 and r2 run in the same process and can be swapped.
MCSymmetry == Permutations({r1, r2})
=============================================================================

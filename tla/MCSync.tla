------------------------------ MODULE MCSync ------------------------------
(***************************************************************************)
(* Small instances of OfflineSync for TLC.                                 *)
(***************************************************************************)
EXTENDS OfflineSync, TLC

CONSTANTS r1, r2, r3, i1, i2, d1, d2

MCHome == [r \in Requests |-> IF r = r1 THEN i1 ELSE i2]

MCDeviceUser == [d \in Devices |-> CASE d = d1 -> 1 [] d = d2 -> 2]

\* Wallet 1 has 4, 3 of them in escrow.
MCOpening == [u \in Users |->
    CASE u = 1 -> [balance |-> 4, allocated |-> 3, lastSeq |-> 0]
      [] u = 2 -> [balance |-> 2, allocated |-> 2, lastSeq |-> 0]]

V(id, nonce, device, payee, amount, seq) ==
    [id |-> id, nonce |-> nonce, device |-> device, payee |-> payee,
     amount |-> amount, seq |-> seq, signed |-> TRUE]

Forged(v) == [v EXCEPT !.signed = FALSE]

First1  == V("v1", "n1", d1, 2, 2, 1)
Next1   == V("v2", "n2", d1, 2, 3, 2)
Other2  == V("v3", "n3", d2, 1, 1, 1)
\* A voucher that repeats a nonce.
Renonce == V("v5", "n1", d1, 2, 1, 3)
\* A second voucher under a number that is used: the payer's counter was lost.
Clone   == V("v4", "n4", d1, 2, 1, 1)

\* Vouchers out of order, uploaded twice, a nonce and a number that come again,
\* and a payment the other way.
MCBatches == {
    <<Next1, First1>>, <<First1, First1>>, <<Other2>>, <<Renonce>>, <<Clone>>}

\* A forged amount, an unknown payee, amounts the CHECKs refuse, and a payee
\* whose balance overflows.
OddBatches == {
    <<Forged(First1), First1>>, <<V("v6", "n6", d1, 3, 1, 1)>>,
    <<V("v7", "n7", d1, 2, -1, 2)>>, <<V("v8", "n8", d1, 2, 4, 2), Other2>>, <<>>}

AllBatches == MCBatches \cup OddBatches

\* A voucher to oneself.
SelfBatches == {<<V("v9", "n9", d1, 1, 1, 1)>>}

\* Two vouchers of one payer, each held by another payee.
SplitBatches == {<<First1>>, <<Next1>>}
=============================================================================

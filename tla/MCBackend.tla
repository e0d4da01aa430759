----------------------------- MODULE MCBackend -----------------------------
(***************************************************************************)
(* Small instances of Backend for TLC.                                     *)
(***************************************************************************)
EXTENDS Backend, TLC

CONSTANTS r1, r2, r3, i1, i2, d1, d2

MCHome == [r \in Requests |-> IF r = r3 THEN i2 ELSE i1]

MCDeviceUser == (d1 :> 1) @@ (d2 :> 2)

\* Wallet 1 has 4, 3 of them in escrow; a balance holds 6 at most (MaxInt), which
\* a voucher and two fundings of user 2 exceed.
MCOpening ==
    1 :> [balance |-> 4, allocated |-> 3, lastSeq |-> 0] @@
    2 :> [balance |-> 2, allocated |-> 0, lastSeq |-> 0]

V(id, nonce, device, payee, amount, seq) ==
    [id |-> id, nonce |-> nonce, device |-> device, payee |-> payee,
     amount |-> amount, seq |-> seq, signed |-> TRUE]

MCBatches == {<<V("v1", "n1", d1, 2, 3, 1)>>}

MCTransfers == {Payment("k1", 1, 2, 2), Payment("k1", 2, 1, 2)}

MCJobs == {
    [op |-> "fund", user |-> 2, amount |-> 2],
    [op |-> "allocate", user |-> 1, amount |-> 1]}

\* A transfer that meets the voucher from the other side, and a claim on the
\* money of its payer.
LiveTransfers == {Payment("k1", 2, 1, 2)}

LiveJobs == {[op |-> "allocate", user |-> 1, amount |-> 1]}
=============================================================================

----------------------------- MODULE SyncProofs -----------------------------
(***************************************************************************)
(* Proofs about OfflineSync, for any users, requests, processes, devices   *)
(* and batches.  The lemmas of the single steps assume no more of the      *)
(* tables than every service keeps (StoreInv).                             *)
(***************************************************************************)
EXTENDS OfflineSync, StoreProofs

-----------------------------------------------------------------------------
(* The voucher a request works on.                                         *)

\* Every uploaded voucher has the type of one.
LEMMA BatchType ==
    ASSUME SyncDataOK, NEW r \in Requests, NEW i \in DOMAIN batch[r]
    PROVE  batch[r][i] \in Voucher /\ batch[r][i] \in Uploaded /\ i \in Nat \ {0}
<1>1. batch[r] \in Batches
    BY DEF SyncDataOK
<1>2. batch[r] \in Seq(Voucher)
    BY <1>1, VoucherAssumption
<1>3. batch[r][i] \in Voucher /\ i \in Nat \ {0}
    <2>. HIDE DEF Voucher
    <2>. QED BY <1>2
<1>4. batch[r][i] \in Uploaded
    BY <1>1 DEF Uploaded
<1>. QED BY <1>3, <1>4

\* A settled voucher has a payer and a number.
LEMMA SettledType ==
    ASSUME SyncDataOK, NEW k \in DOMAIN vouchers
    PROVE  /\ vouchers[k].payer \in Users /\ vouchers[k].seq \in Int
           /\ k \in 1..Len(vouchers)
<1>1. vouchers \in Seq(VoucherRows)
    BY DEF SyncDataOK
<1>2. vouchers[k] \in VoucherRows /\ k \in 1..Len(vouchers)
    <2>. HIDE DEF VoucherRows
    <2>. QED BY <1>1
<1>. QED BY <1>2, StoreAssumption DEF VoucherRows, Int64

\* The rows of a voucher are those of its payer and its payee.
LEMMA RowsOfVoucher ==
    ASSUME NEW r \in Requests
    PROVE  /\ {FirstUser(r), SecondUser(r)} = {payerOf[r], The(r).payee}
           /\ FirstUser(r) = SecondUser(r) => payerOf[r] = The(r).payee
BY DEF FirstUser, SecondUser, First, Second

-----------------------------------------------------------------------------
(* Steps of others.                                                        *)

\* A voucher whose rows nobody touches stays where it is.
LEMMA SyncStageKept ==
    ASSUME NEW q \in Requests, SyncStageOK(q), pc'[q] = pc[q],
           batch'[q] = batch[q], results'[q] = results[q],
           current'[q] = current[q], payerOf'[q] = payerOf[q],
           \A u \in Users : rowLock[u] = q => rowLock'[u] = q
    PROVE  SyncStageOK(q)'
<1>1. UNCHANGED <<The(q), FirstUser(q), SecondUser(q), InVoucher(q)>>
    BY DEF The, FirstUser, SecondUser, InVoucher
<1>. QED BY <1>1 DEF SyncStageOK

\* A request that has no batch in work holds nothing up.
LEMMA SyncStageOutside ==
    ASSUME NEW q \in Requests, SyncStageOK(q), pc'[q] \notin SyncLabels \ {"done"},
           batch'[q] = batch[q], results'[q] = results[q]
    PROVE  SyncStageOK(q)'
BY DEF SyncStageOK, InVoucher, SyncLabels

\* What other services and a crash do to reconciliation: nothing, as long as
\* they leave the sequence numbers of the wallets and the rows it has locked.
LEMMA SyncUntouched ==
    ASSUME SyncCore, UNCHANGED <<devices, vouchers, batch, results, current, payerOf>>,
           nonces' \in [Instances -> SUBSET Nonces],
           \A u \in Users : wallets'[u].lastSeq = wallets[u].lastSeq,
           \A q \in Requests :
              \/ pc'[q] \notin SyncLabels \ {"done"}
              \/ /\ pc'[q] = pc[q]
                 /\ \A u \in Users : rowLock[u] = q => rowLock'[u] = q
    PROVE  SyncCore'
<1>1. SyncDataOK' /\ VoucherSettledOnce' /\ ReconciledIsSettled' /\ DevicesKeepUser'
    BY DEF SyncCore, SyncDataOK, VoucherSettledOnce, ReconciledIsSettled, DevicesKeepUser
<1>2. SequenceMonotone'
    <2>1. \A k \in DOMAIN vouchers : vouchers[k].payer \in Users
        BY SettledType DEF SyncCore
    <2>. QED BY <2>1 DEF SyncCore, SequenceMonotone
<1>3. ASSUME NEW q \in Requests PROVE SyncStageOK(q)'
    BY SyncStageKept, SyncStageOutside DEF SyncCore
<1>. QED BY <1>1, <1>2, <1>3 DEF SyncCore

-----------------------------------------------------------------------------
(* Steps of a batch that settle nothing.                                   *)

\* A step of r that changes only its own batch, result and label, and does not
\* report anything as reconciled, leaves the rest of reconciliation alone.
LEMMA OwnStep ==
    ASSUME SyncCore, NEW r \in Requests, StepOf(r),
           UNCHANGED <<wallets, devices, vouchers>>, SyncDataOK',
           \A q \in Requests \ {r} :
              /\ batch'[q] = batch[q] /\ results'[q] = results[q]
              /\ current'[q] = current[q] /\ payerOf'[q] = payerOf[q],
           \A i \in DOMAIN results'[r] : results'[r][i] = "reconciled" =>
              /\ i \in DOMAIN results[r] /\ results[r][i] = "reconciled"
              /\ batch'[r] = batch[r],
           SyncStageOK(r)'
    PROVE  SyncCore'
<1>1. VoucherSettledOnce' /\ SequenceMonotone' /\ DevicesKeepUser'
    BY DEF SyncCore, VoucherSettledOnce, SequenceMonotone, DevicesKeepUser
<1>2. ReconciledIsSettled'
    <2>1. SUFFICES ASSUME NEW q \in Requests, NEW i \in DOMAIN results'[q],
                          results'[q][i] = "reconciled"
                   PROVE  /\ batch'[q][i].signed
                          /\ \E k \in DOMAIN vouchers : vouchers[k].id = batch'[q][i].id
        BY DEF ReconciledIsSettled
    <2>2. i \in DOMAIN results[q] /\ results[q][i] = "reconciled" /\ batch'[q] = batch[q]
        BY <2>1
    <2>. QED BY <2>2 DEF SyncCore, ReconciledIsSettled
<1>3. ASSUME NEW q \in Requests PROVE SyncStageOK(q)'
    BY SyncStageKept DEF SyncCore, StepOf
<1>. QED BY <1>1, <1>2, <1>3 DEF SyncCore

LEMMA StartBatchStep ==
    ASSUME StoreInv, SyncCore, NEW r \in Requests, NEW b \in Batches, StartBatch(r, b)
    PROVE  StoreInv' /\ StepOf(r) /\ SyncCore'
<1>. DEFINE verdicts == [i \in DOMAIN b |-> FirstResult(b[i])]
<1>1. StoreInv' /\ StepOf(r)
    BY MoveStoreStep DEF StartBatch, sessions, StoreInv, StoreTypeOK
<1>2. verdicts \in Seq(SyncResults) /\ DOMAIN verdicts = DOMAIN b
    <2>1. DOMAIN b = 1..Len(b) /\ Len(b) \in Nat
        BY VoucherAssumption
    <2>2. \A i \in DOMAIN b : FirstResult(b[i]) \in SyncResults
        BY DEF FirstResult, SyncResults
    <2>. QED BY <2>1, <2>2
<1>3. pc[r] = "idle" /\ current[r] = 0 /\ pc'[r] = "next"
    BY DEF StartBatch, At, Goto, SyncCore, SyncStageOK, StoreInv
<1>4. /\ batch' = [batch EXCEPT ![r] = b] /\ results' = [results EXCEPT ![r] = verdicts]
      /\ UNCHANGED <<wallets, devices, vouchers, nonces, current, payerOf>>
    BY DEF StartBatch, tables
<1>. HIDE DEF verdicts
<1>5. SyncDataOK'
    BY <1>2, <1>3, <1>4 DEF SyncCore, SyncDataOK
<1>6. batch'[r] = b /\ results'[r] = verdicts
    BY <1>4 DEF SyncCore, SyncDataOK
<1>7. SyncStageOK(r)'
    BY <1>3, <1>4, <1>6 DEF SyncStageOK, InVoucher, verdicts, FirstResult
<1>8. \A i \in DOMAIN results'[r] : results'[r][i] # "reconciled"
    BY <1>6 DEF verdicts, FirstResult
<1>. QED BY <1>1, <1>4, <1>5, <1>7, <1>8, OwnStep DEF SyncCore, SyncDataOK

LEMMA TakeVoucherStep ==
    ASSUME StoreInv, SyncCore, NEW r \in Requests, TakeVoucher(r)
    PROVE  StoreInv' /\ StepOf(r) /\ SyncCore'
<1>1. StoreInv' /\ StepOf(r)
    BY MoveStoreStep DEF TakeVoucher, sessions, StoreInv, StoreTypeOK
<1>2. pc'[r] = "device"
    BY DEF TakeVoucher, Goto, StoreInv
<1>3. PICK i \in NextUp(r) :
        /\ nonces' = [nonces EXCEPT ![Home[r]] = @ \cup {batch[r][i].nonce}]
        /\ current' = [current EXCEPT ![r] = i]
    BY DEF TakeVoucher
<1>4. i \in DOMAIN batch[r] /\ results[r][i] = "pending"
    BY DEF NextUp, Todo
<1>5. UNCHANGED <<wallets, devices, vouchers, batch, results, payerOf>>
    BY DEF TakeVoucher, tables
<1>6. SyncDataOK'
    <2>1. batch[r][i].nonce \in Nonces /\ i \in Nat
        BY <1>4, BatchType DEF SyncCore, Nonces
    <2>. QED BY <1>3, <1>4, <1>5, <2>1 DEF SyncCore, SyncDataOK
<1>7. SyncStageOK(r)'
    <2>1. current'[r] = i
        BY <1>3 DEF SyncCore, SyncDataOK
    <2>. QED BY <1>2, <1>4, <1>5, <2>1 DEF SyncCore, SyncStageOK, InVoucher
<1>8. \A q \in Requests \ {r} : current'[q] = current[q]
    BY <1>3 DEF SyncCore, SyncDataOK
<1>. QED BY <1>1, <1>5, <1>6, <1>7, <1>8, OwnStep

LEMMA SeenNonceStep ==
    ASSUME StoreInv, SyncCore, NEW r \in Requests, SeenNonce(r)
    PROVE  StoreInv' /\ StepOf(r) /\ SyncCore'
<1>1. StoreInv' /\ StepOf(r) /\ UNCHANGED <<wallets, pc, rowLock, devices, vouchers, nonces,
                                             batch, current, payerOf>>
    <2>1. UNCHANGED <<storeVars, devices, vouchers, nonces, batch, current, payerOf>>
        BY DEF SeenNonce
    <2>2. StoreInv'
        BY <2>1 DEF StoreInv, StoreTypeOK, LockedRowsAreFresh, EscrowCovered, storeVars
    <2>. QED BY <2>1, <2>2 DEF StepOf, storeVars
<1>2. PICK i \in NextUp(r) : results' = [results EXCEPT ![r][i] = "dup_nonce"]
    BY DEF SeenNonce
<1>3. i \in DOMAIN batch[r] /\ results[r][i] = "pending" /\ pc[r] = "next"
    BY DEF NextUp, Todo, SeenNonce, At
<1>4. /\ results'[r] = [results[r] EXCEPT ![i] = "dup_nonce"]
      /\ \A q \in Requests \ {r} : results'[q] = results[q]
    BY <1>2 DEF SyncCore, SyncDataOK
<1>5. SyncDataOK'
    <2>1. results[r] \in Seq(SyncResults) /\ i \in DOMAIN results[r]
        BY <1>3 DEF SyncCore, SyncDataOK
    <2>2. results'[r] \in Seq(SyncResults) /\ DOMAIN results'[r] = DOMAIN results[r]
        BY <1>4, <2>1 DEF SyncResults
    <2>3. results' \in [Requests -> Seq(SyncResults)]
        BY <1>2, <1>4, <2>2 DEF SyncCore, SyncDataOK
    <2>. QED BY <1>1, <1>4, <2>2, <2>3 DEF SyncCore, SyncDataOK
<1>6. DOMAIN results[r] = DOMAIN batch[r]
    BY DEF SyncCore, SyncDataOK
<1>7. SyncStageOK(r)'
    BY <1>1, <1>3, <1>4, <1>6 DEF SyncCore, SyncStageOK, InVoucher
<1>8. \A j \in DOMAIN results'[r] : results'[r][j] = "reconciled" =>
        j \in DOMAIN results[r] /\ results[r][j] = "reconciled"
    BY <1>3, <1>4, <1>6
<1>. QED BY <1>1, <1>4, <1>5, <1>7, <1>8, OwnStep

\* The steps that change only the label, the row locks and the pool.
LEMMA LabelStep ==
    ASSUME StoreInv, SyncCore, NEW r \in Requests, StepOf(r),
           UNCHANGED <<tables, syncVars>>, SyncStageOK(r)'
    PROVE  SyncCore'
<1>1. SyncDataOK'
    BY DEF SyncCore, SyncDataOK, syncVars
<1>. QED BY <1>1, OwnStep DEF syncVars, tables

LEMMA LabelSteps ==
    ASSUME StoreInv, SyncCore, NEW r \in Requests,
           FinishBatch(r) \/ OpenTx(r) \/ LookupVoucher(r)
    PROVE  StoreInv' /\ StepOf(r) /\ SyncCore'
<1>. USE DEF At
<1>1. UNCHANGED <<tables, rowLock, seen, syncVars>> /\ conns' \in SUBSET Requests
    BY DEF FinishBatch, OpenTx, LookupVoucher, TakeConn, sessions, StoreInv, StoreTypeOK
<1>2. PICK label : /\ Goto(r, label)
                   /\ \/ label = "done"
                      \/ label = "lookup" /\ pc[r] = "open"
                      \/ label = "first" /\ pc[r] = "lookup"
    BY DEF FinishBatch, OpenTx, LookupVoucher
<1>3. StoreInv' /\ StepOf(r)
    BY <1>1, <1>2, MoveStoreStep
<1>4. SyncStageOK(r)'
    <2>1. pc'[r] = label
        BY <1>2 DEF Goto, StoreInv
    <2>2. SyncStageOK(r)
        BY DEF SyncCore
    <2>3. UNCHANGED <<The(r), FirstUser(r), SecondUser(r)>>
        BY <1>1 DEF The, FirstUser, SecondUser, syncVars
    <2>. QED BY <1>1, <1>2, <2>1, <2>2, <2>3 DEF SyncStageOK, InVoucher, syncVars
<1>. QED BY <1>1, <1>3, <1>4, LabelStep

LEMMA ResolveStep ==
    ASSUME StoreInv, SyncCore, NEW r \in Requests, ResolveDevice(r)
    PROVE  StoreInv' /\ StepOf(r) /\ SyncCore'
<1>. USE DEF ResolveDevice
<1>1. StoreInv' /\ StepOf(r)
    BY MoveStoreStep DEF sessions, StoreInv, StoreTypeOK
<1>2. pc[r] = "device" /\ pc'[r] = "open"
    BY DEF At, Goto, StoreInv
<1>3. /\ current[r] \in DOMAIN batch[r] /\ results[r][current[r]] = "pending"
      /\ \A i \in DOMAIN batch[r] : results[r][i] # "bad_signature" => batch[r][i].signed
    BY <1>2 DEF SyncCore, SyncStageOK, InVoucher
<1>4. /\ Owner(r) \in Users /\ Owner(r) = DeviceUser[The(r).device]
    <2>1. The(r) \in Voucher
        BY <1>3, BatchType DEF SyncCore, The
    <2>2. The(r).device \in Devices
        BY <2>1 DEF Voucher
    <2>. QED BY <2>2, VoucherAssumption DEF SyncCore, DevicesKeepUser, Owner
<1>5. /\ payerOf' = [payerOf EXCEPT ![r] = Owner(r)]
      /\ UNCHANGED <<wallets, devices, vouchers, nonces, batch, results, current>>
    BY DEF tables
<1>6. payerOf'[r] = Owner(r) /\ \A q \in Requests \ {r} : payerOf'[q] = payerOf[q]
    BY <1>5 DEF SyncCore, SyncDataOK
<1>7. SyncDataOK'
    BY <1>4, <1>5 DEF SyncCore, SyncDataOK
<1>8. SyncStageOK(r)'
    BY <1>2, <1>3, <1>4, <1>5, <1>6 DEF SyncStageOK, InVoucher, The
<1>. QED BY <1>1, <1>5, <1>6, <1>7, <1>8, OwnStep

-----------------------------------------------------------------------------
(* Row locks.                                                              *)

LEMMA LockFirstStep ==
    ASSUME StoreInv, SyncCore, NEW r \in Requests, LockFirst(r)
    PROVE  StoreInv' /\ StepOf(r) /\ SyncCore'
<1>. USE DEF LockFirst
<1>1. StoreInv' /\ StepOf(r)
    BY LockStoreStep
<1>2. pc[r] = "first" /\ pc'[r] = "second" /\ SyncStageOK(r)
    BY DEF At, Goto, StoreInv, SyncCore
<1>3. rowLock'[FirstUser(r)] = r
    BY DEF LockRow, StoreInv, StoreTypeOK
<1>4. UNCHANGED <<The(r), FirstUser(r), SecondUser(r)>>
    BY DEF The, FirstUser, SecondUser, syncVars
<1>5. SyncStageOK(r)'
    BY <1>2, <1>3, <1>4 DEF SyncStageOK, InVoucher, syncVars
<1>. QED BY <1>1, <1>5, LabelStep

LEMMA LockSecondStep ==
    ASSUME StoreInv, SyncCore, NEW r \in Requests, LockSecond(r)
    PROVE  StoreInv' /\ StepOf(r) /\ SyncCore'
<1>. USE DEF LockSecond
<1>1. StoreInv' /\ StepOf(r)
    BY LockStoreStep
<1>2. pc[r] = "second" /\ pc'[r] = "post" /\ SyncStageOK(r)
    BY DEF At, Goto, StoreInv, SyncCore
<1>3. rowLock'[SecondUser(r)] = r /\ rowLock'[FirstUser(r)] = r
    BY <1>2 DEF LockRow, StoreInv, StoreTypeOK, SyncStageOK
<1>4. UNCHANGED <<The(r), FirstUser(r), SecondUser(r)>>
    BY DEF The, FirstUser, SecondUser, syncVars
<1>5. SyncStageOK(r)'
    BY <1>2, <1>3, <1>4 DEF SyncStageOK, InVoucher, syncVars
<1>. QED BY <1>1, <1>5, LabelStep

-----------------------------------------------------------------------------
(* The end of a voucher.                                                   *)

LEMMA ConcludeEffect ==
    ASSUME SyncCore, pc = [q \in Requests |-> pc[q]], NEW r \in Requests, InVoucher(r),
           NEW what \in SyncResults, Conclude(r, what)
    PROVE  /\ current[r] \in DOMAIN batch[r] /\ The(r).signed
           /\ pc'[r] = "next" /\ current'[r] = 0
           /\ results' \in [Requests -> Seq(SyncResults)]
           /\ current' \in [Requests -> Nat]
           /\ payerOf' \in [Requests -> Users \cup {None}]
           /\ DOMAIN results'[r] = DOMAIN results[r]
           /\ results'[r] = [results[r] EXCEPT ![current[r]] = what]
           /\ \A q \in Requests \ {r} :
                /\ results'[q] = results[q] /\ current'[q] = current[q]
                /\ payerOf'[q] = payerOf[q]
<1>1. /\ current[r] \in DOMAIN batch[r] /\ results[r][current[r]] = "pending"
      /\ The(r).signed
    BY DEF SyncCore, SyncStageOK, The
<1>2. pc'[r] = "next"
    BY DEF Conclude, Goto
<1>3. /\ results \in [Requests -> Seq(SyncResults)] /\ current \in [Requests -> Nat]
      /\ payerOf \in [Requests -> Users \cup {None}]
      /\ DOMAIN results[r] = DOMAIN batch[r]
    BY DEF SyncCore, SyncDataOK
<1>4. results' = [results EXCEPT ![r] = [results[r] EXCEPT ![current[r]] = what]]
    BY <1>3 DEF Conclude
<1>5. [results[r] EXCEPT ![current[r]] = what] \in Seq(SyncResults)
    <2>1. results[r] \in Seq(SyncResults) /\ current[r] \in DOMAIN results[r]
        BY <1>1, <1>3
    <2>. QED BY <2>1
<1>6. /\ current' = [current EXCEPT ![r] = 0] /\ payerOf' = [payerOf EXCEPT ![r] = None]
    BY DEF Conclude
<1>. HIDE DEF SyncResults
<1>7. results' \in [Requests -> Seq(SyncResults)]
    BY <1>3, <1>4, <1>5
<1>. QED BY <1>1, <1>2, <1>3, <1>4, <1>6, <1>7

\* After a voucher the request is ready for the next one.
LEMMA ConcludeStage ==
    ASSUME SyncCore, pc = [q \in Requests |-> pc[q]], NEW r \in Requests, InVoucher(r),
           NEW what \in SyncResults, Conclude(r, what), UNCHANGED batch
    PROVE  SyncStageOK(r)'
<1>1. /\ current[r] \in DOMAIN batch[r] /\ The(r).signed
      /\ pc'[r] = "next" /\ current'[r] = 0
      /\ results'[r] = [results[r] EXCEPT ![current[r]] = what]
    BY ConcludeEffect
<1>2. DOMAIN results[r] = DOMAIN batch[r]
    BY DEF SyncCore, SyncDataOK
<1>3. \A i \in DOMAIN batch[r] : results[r][i] # "bad_signature" => batch[r][i].signed
    BY DEF SyncCore, SyncStageOK
<1>. QED BY <1>1, <1>2, <1>3 DEF SyncStageOK, InVoucher, The

LEMMA GiveUpStep ==
    ASSUME StoreInv, SyncCore, NEW r \in Requests, InVoucher(r),
           NEW what \in SyncResults \ {"reconciled"}, GiveUp(r, what)
    PROVE  StoreInv' /\ StepOf(r) /\ SyncCore'
<1>1. StoreInv' /\ StepOf(r)
    BY RollbackStoreStep DEF GiveUp, Conclude
<1>2. pc = [q \in Requests |-> pc[q]] /\ Conclude(r, what)
    BY DEF GiveUp, StoreInv
<1>3. UNCHANGED <<wallets, devices, vouchers, nonces, batch>>
    BY DEF GiveUp, tables
<1>4. /\ current[r] \in DOMAIN batch[r] /\ current'[r] = 0
      /\ results' \in [Requests -> Seq(SyncResults)]
      /\ current' \in [Requests -> Nat]
      /\ payerOf' \in [Requests -> Users \cup {None}]
      /\ DOMAIN results'[r] = DOMAIN results[r]
      /\ results'[r] = [results[r] EXCEPT ![current[r]] = what]
      /\ \A q \in Requests \ {r} :
            /\ results'[q] = results[q] /\ current'[q] = current[q]
            /\ payerOf'[q] = payerOf[q]
    BY <1>2, ConcludeEffect
<1>5. SyncDataOK'
    BY <1>3, <1>4 DEF SyncCore, SyncDataOK
<1>6. SyncStageOK(r)'
    BY <1>2, <1>3, ConcludeStage
<1>7. \A i \in DOMAIN results'[r] : results'[r][i] = "reconciled" =>
        i \in DOMAIN results[r] /\ results[r][i] = "reconciled"
    BY <1>4
<1>. QED BY <1>1, <1>3, <1>4, <1>5, <1>6, <1>7, OwnStep

\* What SettleVoucher finds and what it does to the wallets: exactly the
\* redemption, paid from the escrow first.
LEMMA RedeemEffect ==
    ASSUME StoreInv, SyncCore, NEW r \in Requests, SettleVoucher(r)
    PROVE  LET payer == payerOf[r]
               v     == The(r)
           IN  /\ pc[r] = "post" /\ payer \in Users /\ v.payee \in Users
               /\ v \in Voucher /\ v \in Uploaded /\ payer = DeviceUser[v.device]
               /\ v.amount \in Int64 /\ v.amount > 0
               /\ rowLock[payer] = r /\ rowLock[v.payee] = r
               /\ seen[r][payer] = wallets[payer] /\ seen[r][v.payee] = wallets[v.payee]
               /\ v.seq > wallets[payer].lastSeq
               /\ wallets[payer].balance >= v.amount
               /\ Debited(r, Redemption(r)) = wallets[payer].balance - v.amount
               /\ Credited(r, Redemption(r)) = wallets[v.payee].balance + v.amount
               /\ PayerRowAfter(r) \in Row
               /\ EscrowLeft(r) = IF v.amount > wallets[payer].allocated
                    THEN 0 ELSE wallets[payer].allocated - v.amount
               /\ wallets' \in [Users -> Row] /\ journal' \in [Users -> Seq(Entry)]
               /\ wallets'[payer] = IF payer = v.payee
                    THEN [PayerRowAfter(r) EXCEPT !.balance = wallets[payer].balance + v.amount]
                    ELSE PayerRowAfter(r)
               /\ payer # v.payee => wallets'[v.payee] =
                    [wallets[v.payee] EXCEPT !.balance = wallets[v.payee].balance + v.amount]
               /\ \A u \in Users \ {payer, v.payee} : wallets'[u] = wallets[u]
<1>. DEFINE payer == payerOf[r]
            v     == The(r)
            t     == Redemption(r)
<1>1. /\ pc[r] = "post" /\ ~StaleSequence(r) /\ CanPay(r) /\ PaymentFits(r, t)
      /\ PostPayment(r, t, PayerRowAfter(r))
    BY DEF SettleVoucher, At
<1>2. /\ current[r] \in DOMAIN batch[r] /\ payer \in Users /\ payer = DeviceUser[v.device]
      /\ FirstUser(r) \in Users /\ SecondUser(r) \in Users
      /\ rowLock[FirstUser(r)] = r /\ rowLock[SecondUser(r)] = r
    BY <1>1 DEF SyncCore, SyncStageOK, InVoucher
<1>3. v \in Voucher /\ v \in Uploaded
    BY <1>2, BatchType DEF SyncCore, The
<1>4. v.payee \in Users /\ rowLock[payer] = r /\ rowLock[v.payee] = r
    BY <1>2, RowsOfVoucher
<1>5. seen[r][payer] = wallets[payer] /\ seen[r][v.payee] = wallets[v.payee]
    BY <1>2, <1>4, StoreAssumption DEF StoreInv, LockedRowsAreFresh
<1>6. t.payer = payer /\ t.payee = v.payee /\ t.amount = v.amount
    BY DEF Redemption, Payment
<1>7. v.amount \in Int64 /\ v.seq \in Int64
    BY <1>3 DEF Voucher
<1>8. StoreTypeOK /\ EscrowCovered
    BY DEF StoreInv
<1>. HIDE DEF payer, v, t
<1>9. /\ Debited(r, t) = wallets[payer].balance - v.amount
      /\ Credited(r, t) = wallets[v.payee].balance + v.amount
      /\ Debited(r, t) \in Int64 /\ Credited(r, t) \in Int64
      /\ -t.amount \in Int64 /\ v.amount > 0
    BY <1>1, <1>2, <1>4, <1>5, <1>6, <1>7, <1>8, PaymentSums
<1>10. PayerRow(r) = wallets[payer]
    BY <1>5 DEF PayerRow, payer
<1>11. /\ wallets[payer] \in Row /\ wallets[payer].allocated \in Int
       /\ wallets[payer].allocated >= 0
       /\ wallets[payer].lastSeq \in Int /\ v.amount \in Int /\ v.seq \in Int
    <2>1. wallets[payer] \in Row
        BY <1>2, <1>8 DEF StoreTypeOK
    <2>2. Int64 \subseteq Int
        BY StoreAssumption DEF Int64
    <2>3. 0 <= wallets[payer].allocated
        BY <1>2, <1>8 DEF EscrowCovered, Covered
    <2>. QED BY <1>7, <2>1, <2>2, <2>3 DEF Row
<1>12. EscrowLeft(r) = IF v.amount > wallets[payer].allocated
            THEN 0 ELSE wallets[payer].allocated - v.amount
    BY <1>10, <1>11 DEF EscrowLeft, v
<1>13. v.seq > wallets[payer].lastSeq /\ wallets[payer].balance >= v.amount
    BY <1>1, <1>10, <1>11 DEF StaleSequence, CanPay, v
<1>14. EscrowLeft(r) \in Int64
    <2>1. wallets[payer].allocated \in Int64 /\ v.amount > 0
        BY <1>9, <1>11 DEF Row
    <2>. QED BY <1>11, <1>12, <2>1, StoreAssumption DEF Int64
<1>15. PayerRowAfter(r) \in Row
    BY <1>7, <1>9, <1>14 DEF PayerRowAfter, Row, t, v
<1>16. /\ wallets' \in [Users -> Row] /\ journal' \in [Users -> Seq(Entry)]
       /\ wallets'[payer] = IF payer = v.payee
            THEN [PayerRowAfter(r) EXCEPT !.balance = Credited(r, t)] ELSE PayerRowAfter(r)
       /\ payer # v.payee =>
            wallets'[v.payee] = [wallets[v.payee] EXCEPT !.balance = Credited(r, t)]
       /\ \A u \in Users \ {payer, v.payee} : wallets'[u] = wallets[u]
    BY <1>1, <1>2, <1>4, <1>6, <1>7, <1>8, <1>9, <1>15, PaymentRows
<1>17. payer = v.payee => Credited(r, t) = wallets[payer].balance + v.amount
    BY <1>9
<1>. QED BY <1>1, <1>2, <1>3, <1>4, <1>5, <1>7, <1>9, <1>12, <1>13, <1>15, <1>16, <1>17
         DEF payer, v, t

\* A redemption leaves every escrow covered and moves the payer's number on.
LEMMA RedeemRows ==
    ASSUME StoreInv, SyncCore, NEW r \in Requests, SettleVoucher(r), NEW u \in Users
    PROVE  /\ Covered(wallets'[u])
           /\ wallets'[u].lastSeq =
                IF u = payerOf[r] THEN The(r).seq ELSE wallets[u].lastSeq
<1>. DEFINE payer == payerOf[r]
            v     == The(r)
<1>1. /\ payer \in Users /\ v.payee \in Users /\ v.amount \in Int64 /\ v.amount > 0
      /\ wallets[payer].balance >= v.amount
      /\ Debited(r, Redemption(r)) = wallets[payer].balance - v.amount
      /\ EscrowLeft(r) = IF v.amount > wallets[payer].allocated
            THEN 0 ELSE wallets[payer].allocated - v.amount
      /\ wallets'[payer] = IF payer = v.payee
            THEN [PayerRowAfter(r) EXCEPT !.balance = wallets[payer].balance + v.amount]
            ELSE PayerRowAfter(r)
      /\ payer # v.payee => wallets'[v.payee] =
            [wallets[v.payee] EXCEPT !.balance = wallets[v.payee].balance + v.amount]
      /\ \A w \in Users \ {payer, v.payee} : wallets'[w] = wallets[w]
    BY RedeemEffect
<1>2. /\ wallets[u] \in Row /\ 0 <= wallets[u].allocated
      /\ wallets[u].allocated <= wallets[u].balance
    BY DEF StoreInv, StoreTypeOK, EscrowCovered, Covered
<1>3. /\ wallets[u].allocated \in Int /\ wallets[u].balance \in Int /\ v.amount \in Int
    <2>1. Int64 \subseteq Int
        BY StoreAssumption DEF Int64
    <2>. QED BY <1>1, <1>2, <2>1 DEF Row
<1>4. CASE u = payer
    <2>1. /\ wallets'[u].lastSeq = v.seq
          /\ wallets'[u].allocated = EscrowLeft(r)
          /\ wallets'[u].balance = IF payer = v.payee THEN wallets[u].balance + v.amount
                                   ELSE wallets[u].balance - v.amount
        BY <1>1, <1>4 DEF PayerRowAfter
    <2>2. Covered(wallets'[u])
        BY <1>1, <1>2, <1>3, <1>4, <2>1 DEF Covered
    <2>. QED BY <1>4, <2>1, <2>2
<1>5. CASE u # payer /\ u = v.payee
    <2>1. /\ wallets'[u].lastSeq = wallets[u].lastSeq
          /\ wallets'[u].allocated = wallets[u].allocated
          /\ wallets'[u].balance = wallets[u].balance + v.amount
        BY <1>1, <1>2, <1>5 DEF Row
    <2>. QED BY <1>1, <1>2, <1>3, <1>5, <2>1 DEF Covered
<1>6. CASE u \notin {payer, v.payee}
    BY <1>1, <1>2, <1>6 DEF Covered
<1>. QED BY <1>4, <1>5, <1>6

\* The table of vouchers after a redemption.
LEMMA RedeemVouchers ==
    ASSUME SyncDataOK, NEW r \in Requests, SettleVoucher(r)
    PROVE  LET n == Len(vouchers)
           IN  /\ n \in Nat /\ DOMAIN vouchers = 1..n /\ DOMAIN vouchers' = 1..(n + 1)
               /\ vouchers'[n + 1] = VoucherRow(r)
               /\ \A k \in 1..n : vouchers'[k] = vouchers[k]
BY DEF SettleVoucher, SyncDataOK

LEMMA RedeemStep ==
    ASSUME StoreInv, SyncCore, NEW r \in Requests, SettleVoucher(r)
    PROVE  StoreInv' /\ StepOf(r) /\ SyncCore'
<1>. DEFINE payer == payerOf[r]
            v     == The(r)
            n     == Len(vouchers)
<1>1. /\ pc[r] = "post" /\ payer \in Users /\ v.payee \in Users /\ v \in Voucher
      /\ rowLock[payer] = r /\ rowLock[v.payee] = r
      /\ v.seq > wallets[payer].lastSeq
      /\ wallets' \in [Users -> Row] /\ journal' \in [Users -> Seq(Entry)]
      /\ \A u \in Users \ {payer, v.payee} : wallets'[u] = wallets[u]
    BY RedeemEffect
<1>2. \A u \in Users : /\ Covered(wallets'[u])
                       /\ wallets'[u].lastSeq = IF u = payer THEN v.seq ELSE wallets[u].lastSeq
    BY RedeemRows
<1>3. /\ n \in Nat /\ DOMAIN vouchers = 1..n /\ DOMAIN vouchers' = 1..(n + 1)
      /\ vouchers'[n + 1] = VoucherRow(r)
      /\ \A k \in 1..n : vouchers'[k] = vouchers[k]
    BY RedeemVouchers DEF SyncCore
<1>4. /\ EndTx(r) /\ ~Recorded(v) /\ UNCHANGED <<devices, nonces, batch>>
      /\ vouchers' = Append(vouchers, VoucherRow(r))
    BY DEF SettleVoucher
<1>5. PICK what \in {"reconciled", "rejected"} : Conclude(r, what)
    BY DEF SettleVoucher
<1>. HIDE DEF n, payer, v
<1>6. StoreInv' /\ StepOf(r)
    <2>1. \A u \in Users : rowLock[u] # r => wallets'[u] = wallets[u]
        BY <1>1
    <2>. QED BY <1>1, <1>2, <1>4, <1>5, <2>1, EndStoreStep DEF Conclude
<1>7. InVoucher(r) /\ pc = [q \in Requests |-> pc[q]] /\ what \in SyncResults
    BY <1>1 DEF InVoucher, StoreInv, SyncResults
<1>8. /\ current[r] \in DOMAIN batch[r] /\ v.signed /\ current'[r] = 0
      /\ results' \in [Requests -> Seq(SyncResults)]
      /\ current' \in [Requests -> Nat]
      /\ payerOf' \in [Requests -> Users \cup {None}]
      /\ DOMAIN results'[r] = DOMAIN results[r]
      /\ results'[r] = [results[r] EXCEPT ![current[r]] = what]
      /\ \A q \in Requests \ {r} :
            /\ results'[q] = results[q] /\ current'[q] = current[q]
            /\ payerOf'[q] = payerOf[q]
    BY <1>5, <1>7, ConcludeEffect DEF v
<1>9. SyncDataOK'
    <2>1. VoucherRow(r) \in VoucherRows
        BY <1>1 DEF VoucherRow, VoucherRows, Voucher, v, payer
    <2>2. vouchers' \in Seq(VoucherRows)
        <3>. HIDE DEF VoucherRows
        <3>. QED BY <1>4, <2>1 DEF SyncCore, SyncDataOK
    <2>. QED BY <1>4, <1>8, <2>2 DEF SyncCore, SyncDataOK
<1>10. VoucherSettledOnce'
    <2>1. \A k \in 1..n : vouchers[k].id # v.id /\ vouchers[k].nonce # v.nonce
        BY <1>3, <1>4 DEF Recorded
    <2>2. vouchers'[n + 1].id = v.id /\ vouchers'[n + 1].nonce = v.nonce
        BY <1>3 DEF VoucherRow, v
    <2>. QED BY <1>3, <2>1, <2>2 DEF SyncCore, VoucherSettledOnce
<1>11. SequenceMonotone'
    <2>1. \A k \in 1..n : vouchers[k].payer \in Users /\ vouchers[k].seq \in Int
        BY <1>3, SettledType DEF SyncCore
    <2>2. v.seq \in Int /\ \A u \in Users : wallets[u].lastSeq \in Int
        <3>1. Int64 \subseteq Int
            BY StoreAssumption DEF Int64
        <3>. QED BY <1>1, <3>1 DEF StoreInv, StoreTypeOK, Row, Voucher
    <2>3. \A k \in 1..n : vouchers[k].seq <= wallets[vouchers[k].payer].lastSeq
        BY <1>3 DEF SyncCore, SequenceMonotone
    <2>4. vouchers'[n + 1].seq = v.seq /\ vouchers'[n + 1].payer = payer
        BY <1>3 DEF VoucherRow, v, payer
    <2>5. ASSUME NEW k \in 1..(n + 1)
          PROVE  vouchers'[k].seq <= wallets'[vouchers'[k].payer].lastSeq
        <3>1. CASE k = n + 1
            BY <1>1, <1>2, <2>2, <2>4, <3>1
        <3>2. CASE k \in 1..n
            <4>. DEFINE u == vouchers[k].payer
            <4>1. vouchers'[k] = vouchers[k] /\ u \in Users /\ vouchers[k].seq \in Int
                BY <1>3, <2>1, <3>2
            <4>2. vouchers[k].seq <= wallets[u].lastSeq
                BY <2>3, <3>2
            <4>. HIDE DEF u
            <4>3. wallets'[u].lastSeq = IF u = payer THEN v.seq ELSE wallets[u].lastSeq
                BY <1>2, <4>1
            <4>4. wallets[u].lastSeq <= wallets'[u].lastSeq
                BY <1>1, <2>2, <4>1, <4>3
            <4>5. wallets'[u].lastSeq \in Int
                BY <2>2, <4>1, <4>3
            <4>. QED BY <2>2, <4>1, <4>2, <4>4, <4>5 DEF u
        <3>. QED BY <1>3, <3>1, <3>2
    <2>6. ASSUME NEW k \in 1..(n + 1), NEW j \in 1..(k - 1),
                 vouchers'[j].payer = vouchers'[k].payer
          PROVE  vouchers'[j].seq < vouchers'[k].seq
        <3>1. j \in 1..n
            BY <1>3
        <3>2. CASE k = n + 1
            <4>1. vouchers[j].payer = payer /\ vouchers[j].seq <= wallets[payer].lastSeq
                BY <1>3, <2>3, <2>4, <2>6, <3>1, <3>2
            <4>. QED BY <1>1, <1>3, <2>1, <2>2, <2>4, <3>1, <3>2, <4>1
        <3>3. CASE k \in 1..n
            BY <1>3, <2>6, <3>1, <3>3 DEF SyncCore, SequenceMonotone
        <3>. QED BY <1>3, <3>2, <3>3
    <2>. QED BY <1>3, <2>5, <2>6 DEF SequenceMonotone
<1>12. ReconciledIsSettled'
    <2>1. SUFFICES ASSUME NEW q \in Requests, NEW i \in DOMAIN results'[q],
                          results'[q][i] = "reconciled"
                   PROVE  /\ batch[q][i].signed
                          /\ \E k \in 1..(n + 1) : vouchers'[k].id = batch[q][i].id
        BY <1>3, <1>4 DEF ReconciledIsSettled
    <2>2. CASE q = r /\ i = current[r]
        <3>1. vouchers'[n + 1].id = v.id /\ v = batch[q][i]
            BY <1>3, <2>2 DEF VoucherRow, v, The
        <3>. QED BY <1>3, <1>8, <3>1
    <2>3. CASE ~(q = r /\ i = current[r])
        <3>1. i \in DOMAIN results[q] /\ results[q][i] = "reconciled"
            BY <1>8, <2>1, <2>3
        <3>2. PICK k \in 1..n : vouchers[k].id = batch[q][i].id
            BY <1>3, <3>1 DEF SyncCore, ReconciledIsSettled
        <3>3. k \in 1..(n + 1) /\ vouchers'[k].id = batch[q][i].id
            BY <1>3, <3>2
        <3>4. batch[q][i].signed
            BY <3>1 DEF SyncCore, ReconciledIsSettled
        <3>. QED BY <3>3, <3>4
    <2>. QED BY <2>2, <2>3
<1>13. DevicesKeepUser'
    BY <1>4 DEF SyncCore, DevicesKeepUser
<1>14. ASSUME NEW q \in Requests PROVE SyncStageOK(q)'
    <2>1. CASE q = r
        BY <1>4, <1>5, <1>7, <2>1, ConcludeStage
    <2>2. CASE q # r
        BY <1>4, <1>6, <1>8, <2>2, SyncStageKept DEF SyncCore, StepOf
    <2>. QED BY <2>1, <2>2
<1>. QED BY <1>6, <1>9, <1>10, <1>11, <1>12, <1>13, <1>14 DEF SyncCore

-----------------------------------------------------------------------------
(* All steps.                                                              *)

\* The ways to give up on a voucher.
LEMMA RefusalIsGiveUp ==
    ASSUME NEW r \in Requests,
           \/ UnknownDevice(r) \/ KnownVoucher(r) \/ NoWallet(r) \/ RefuseSequence(r)
           \/ RefuseVoucherFunds(r) \/ RefuseVoucher(r) \/ FailVoucher(r)
    PROVE  InVoucher(r) /\ \E what \in SyncResults \ {"reconciled", "pending"} : GiveUp(r, what)
BY DEF UnknownDevice, KnownVoucher, NoWallet, RefuseSequence, RefuseVoucherFunds,
       RefuseVoucher, FailVoucher, InVoucher, At, SyncResults

LEMMA SyncRequestStep ==
    ASSUME StoreInv, SyncCore, NEW r \in Requests, SyncRequest(r)
    PROVE  StoreInv' /\ StepOf(r) /\ SyncCore'
<1>1. CASE SubmitBatch(r)
    BY <1>1, StartBatchStep DEF SubmitBatch
<1>2. CASE TakeVoucher(r)
    BY <1>2, TakeVoucherStep
<1>3. CASE SeenNonce(r)
    BY <1>3, SeenNonceStep
<1>4. CASE FinishBatch(r) \/ OpenTx(r) \/ LookupVoucher(r)
    BY <1>4, LabelSteps
<1>5. CASE ResolveDevice(r)
    BY <1>5, ResolveStep
<1>6. CASE LockFirst(r)
    BY <1>6, LockFirstStep
<1>7. CASE LockSecond(r)
    BY <1>7, LockSecondStep
<1>8. CASE SettleVoucher(r)
    BY <1>8, RedeemStep
<1>9. CASE \/ UnknownDevice(r) \/ KnownVoucher(r) \/ NoWallet(r) \/ RefuseSequence(r)
           \/ RefuseVoucherFunds(r) \/ RefuseVoucher(r) \/ FailVoucher(r)
    BY <1>9, RefusalIsGiveUp, GiveUpStep
<1>. QED BY <1>1, <1>2, <1>3, <1>4, <1>5, <1>6, <1>7, <1>8, <1>9
         DEF SyncRequest, VoucherStep

\* The registry forgets and devices are registered beside the batches.
LEMMA SyncBesideStep ==
    ASSUME StoreInv, SyncCore, SyncForget \/ SyncRegister
    PROVE  StoreInv' /\ SyncCore'
<1>1. CASE SyncForget
    <2>1. PICK i \in Instances, n \in Nonces : ForgetNonce(i, n)
        BY <1>1 DEF SyncForget
    <2>2. nonces' \in [Instances -> SUBSET Nonces]
        BY <2>1 DEF ForgetNonce, SyncCore, SyncDataOK
    <2>3. UNCHANGED storeVars
        BY <2>1 DEF ForgetNonce
    <2>. QED BY <2>1, <2>2, <2>3, StoreSame, SyncUntouched DEF ForgetNonce, storeVars
<1>2. CASE SyncRegister
    <2>1. PICK d \in Devices : RegisterDevice(d)
        BY <1>2 DEF SyncRegister
    <2>2. devices' = [devices EXCEPT ![d] = DeviceUser[d]]
        BY <2>1 DEF RegisterDevice
    <2>3. UNCHANGED <<storeVars, vouchers, nonces, batch, results, current, payerOf>>
        BY <2>1 DEF RegisterDevice
    <2>4. DevicesKeepUser'
        BY <2>2 DEF SyncCore, SyncDataOK, DevicesKeepUser
    <2>5. SyncDataOK'
        BY <2>2, <2>3, VoucherAssumption DEF SyncCore, SyncDataOK
    <2>6. VoucherSettledOnce' /\ SequenceMonotone' /\ ReconciledIsSettled'
        BY <2>3 DEF SyncCore, VoucherSettledOnce, SequenceMonotone, ReconciledIsSettled, storeVars
    <2>7. ASSUME NEW q \in Requests PROVE SyncStageOK(q)'
        BY <2>3, SyncStageKept DEF SyncCore, storeVars
    <2>. QED BY <2>3, <2>4, <2>5, <2>6, <2>7, StoreSame DEF SyncCore
<1>. QED BY <1>1, <1>2

\* A process dies: its batches stop and its registry is empty.
LEMMA SyncCrashStep ==
    ASSUME StoreInv, SyncCore, NEW i \in Instances, CrashStore(i), CrashSync(i),
           UNCHANGED <<devices, vouchers, batch, results, current, payerOf>>
    PROVE  StoreInv' /\ SyncCore'
<1>1. nonces' \in [Instances -> SUBSET Nonces]
    BY DEF CrashSync, SyncCore, SyncDataOK
<1>. QED BY <1>1, CrashStoreStep, SyncUntouched DEF CrashStore

-----------------------------------------------------------------------------
(* Labels, answers, payments and locks of a server that only reconciles.   *)

\* Where a step of a batch leads to.
LEMMA SyncLabelNext ==
    ASSUME StoreInv, NEW r \in Requests, SyncRequest(r)
    PROVE  \E label \in SyncLabels : Goto(r, label)
<1>. USE DEF SyncLabels
<1>1. CASE \/ UnknownDevice(r) \/ KnownVoucher(r) \/ NoWallet(r) \/ RefuseSequence(r)
           \/ RefuseVoucherFunds(r) \/ RefuseVoucher(r) \/ FailVoucher(r)
    BY <1>1, RefusalIsGiveUp DEF GiveUp, Conclude
<1>2. CASE SeenNonce(r)
    BY <1>2 DEF SeenNonce, storeVars, At, Goto, StoreInv
<1>3. CASE \/ SubmitBatch(r) \/ TakeVoucher(r) \/ ResolveDevice(r) \/ OpenTx(r)
           \/ LookupVoucher(r) \/ FinishBatch(r)
    BY <1>3 DEF SubmitBatch, StartBatch, TakeVoucher, ResolveDevice, OpenTx, LookupVoucher,
                FinishBatch
<1>4. CASE LockFirst(r) \/ LockSecond(r) \/ SettleVoucher(r)
    BY <1>4 DEF LockFirst, LockSecond, SettleVoucher, Conclude
<1>. QED BY <1>1, <1>2, <1>3, <1>4 DEF SyncRequest, VoucherStep

LEMMA SyncLabelsType ==
    ASSUME SyncInv, NEW r \in Requests, SyncRequest(r)
    PROVE  /\ pc' \in [Requests -> SyncLabels]
           /\ reply' \in [Requests -> {"none", "batch_done"}]
           /\ transactions' \in Seq(Redemptions)
<1>. USE DEF SyncInv, SyncTypeOK, Goto, Conclude, GiveUp, SyncLabels
<1>1. CASE SettleVoucher(r)
    <2>1. pc' \in [Requests -> SyncLabels] /\ UNCHANGED reply
        BY <1>1 DEF SettleVoucher
    <2>2. Redemption(r) \in Redemptions
        BY <1>1, RedeemEffect DEF Redemption, Payment, Redemptions
    <2>3. transactions' = Append(transactions, Redemption(r))
        BY <1>1 DEF SettleVoucher, PostPayment
    <2>4. transactions' \in Seq(Redemptions)
        <3>. HIDE DEF Redemptions
        <3>. QED BY <2>2, <2>3
    <2>. QED BY <2>1, <2>4
<1>2. CASE FinishBatch(r)
    BY <1>2 DEF FinishBatch, Answer, tables
<1>3. CASE SeenNonce(r)
    BY <1>3 DEF SeenNonce, storeVars
<1>4. CASE \/ UnknownDevice(r) \/ KnownVoucher(r) \/ NoWallet(r) \/ RefuseSequence(r)
           \/ RefuseVoucherFunds(r) \/ RefuseVoucher(r) \/ FailVoucher(r)
    <2>1. PICK what : GiveUp(r, what)
        BY <1>4, RefusalIsGiveUp
    <2>. QED BY <2>1 DEF tables
<1>5. CASE \/ SubmitBatch(r) \/ TakeVoucher(r) \/ ResolveDevice(r) \/ OpenTx(r)
           \/ LookupVoucher(r) \/ LockFirst(r) \/ LockSecond(r)
    <2>1. PICK label \in SyncLabels : Goto(r, label)
        BY <1>5 DEF SubmitBatch, StartBatch, TakeVoucher, ResolveDevice, OpenTx, LookupVoucher,
                    LockFirst, LockSecond
    <2>2. UNCHANGED <<tables, reply>>
        BY <1>5 DEF SubmitBatch, StartBatch, TakeVoucher, ResolveDevice, OpenTx, LookupVoucher,
                    LockFirst, LockSecond
    <2>. QED BY <2>1, <2>2 DEF tables
<1>. QED BY <1>1, <1>2, <1>3, <1>4, <1>5 DEF SyncRequest, VoucherStep

\* No step of one request gives another one a lock.
LEMMA LocksOfOthers ==
    ASSUME SyncInv, NEW r \in Requests, SyncRequest(r), NEW q \in Requests, q # r,
           NEW u \in Users, rowLock'[u] = q
    PROVE  rowLock[u] = q
<1>1. \/ UNCHANGED rowLock
      \/ \E v \in Users : LockRow(r, v)
      \/ EndTx(r)
    <2>1. CASE \/ UnknownDevice(r) \/ KnownVoucher(r) \/ NoWallet(r) \/ RefuseSequence(r)
               \/ RefuseVoucherFunds(r) \/ RefuseVoucher(r) \/ FailVoucher(r)
        BY <2>1, RefusalIsGiveUp DEF GiveUp
    <2>2. CASE SubmitBatch(r) \/ TakeVoucher(r) \/ ResolveDevice(r) \/ LookupVoucher(r)
        BY <2>2 DEF SubmitBatch, StartBatch, TakeVoucher, ResolveDevice, LookupVoucher, sessions
    <2>3. CASE SeenNonce(r) \/ FinishBatch(r) \/ OpenTx(r)
        BY <2>3 DEF SeenNonce, FinishBatch, OpenTx, TakeConn, sessions, storeVars
    <2>4. CASE LockFirst(r) \/ LockSecond(r) \/ SettleVoucher(r)
        BY <2>4 DEF LockFirst, LockSecond, SettleVoucher
    <2>. QED BY <2>1, <2>2, <2>3, <2>4 DEF SyncRequest, VoucherStep
<1>. QED BY <1>1, StoreAssumption DEF LockRow, EndTx, Unlocked, SyncInv, StoreInv, StoreTypeOK

LEMMA SyncLocksKept ==
    ASSUME NEW q \in Requests, SyncLocksOK(q), pc'[q] = pc[q],
           batch'[q] = batch[q], current'[q] = current[q], payerOf'[q] = payerOf[q],
           \A u \in Users : rowLock'[u] = q => rowLock[u] = q
    PROVE  SyncLocksOK(q)'
<1>1. UNCHANGED <<FirstUser(q), SecondUser(q)>>
    BY DEF The, FirstUser, SecondUser
<1>. QED BY <1>1 DEF SyncLocksOK

\* A step of a request changes no other request's data.
LEMMA DataOfOthers ==
    ASSUME SyncInv, NEW r \in Requests, SyncRequest(r), NEW q \in Requests, q # r
    PROVE  batch'[q] = batch[q] /\ current'[q] = current[q] /\ payerOf'[q] = payerOf[q]
<1>. USE DEF SyncInv, SyncCore, SyncDataOK
<1>1. CASE \/ UnknownDevice(r) \/ KnownVoucher(r) \/ NoWallet(r) \/ RefuseSequence(r)
           \/ RefuseVoucherFunds(r) \/ RefuseVoucher(r) \/ FailVoucher(r)
    BY <1>1, RefusalIsGiveUp DEF GiveUp, Conclude
<1>2. CASE SubmitBatch(r) \/ TakeVoucher(r) \/ ResolveDevice(r) \/ LookupVoucher(r)
    BY <1>2 DEF SubmitBatch, StartBatch, TakeVoucher, ResolveDevice, LookupVoucher, syncVars
<1>3. CASE SeenNonce(r) \/ FinishBatch(r) \/ OpenTx(r)
    BY <1>3 DEF SeenNonce, FinishBatch, OpenTx, syncVars
<1>4. CASE LockFirst(r) \/ LockSecond(r) \/ SettleVoucher(r)
    BY <1>4 DEF LockFirst, LockSecond, SettleVoucher, Conclude, syncVars
<1>. QED BY <1>1, <1>2, <1>3, <1>4 DEF SyncRequest, VoucherStep

\* The rows a request has locked are those of the voucher it works on.
LEMMA OwnLocks ==
    ASSUME SyncInv, NEW r \in Requests, SyncRequest(r)
    PROVE  SyncLocksOK(r)'
<1>. USE DEF SyncInv, At
<1>1. CASE EndTx(r)
    BY <1>1, StoreAssumption DEF EndTx, Unlocked, SyncLocksOK
<1>2. CASE LockFirst(r)
    <2>1. UNCHANGED <<FirstUser(r), SecondUser(r)>>
        BY <1>2 DEF LockFirst, The, FirstUser, SecondUser, syncVars
    <2>2. pc[r] = "first" /\ pc'[r] = "second"
        BY <1>2 DEF LockFirst, Goto, StoreInv
    <2>3. \A u \in Users : rowLock'[u] = r => u = FirstUser(r)
        BY <1>2, <2>2 DEF LockFirst, LockRow, SyncLocksOK, StoreInv, StoreTypeOK
    <2>. QED BY <2>1, <2>2, <2>3 DEF SyncLocksOK
<1>3. CASE LockSecond(r)
    <2>1. UNCHANGED <<FirstUser(r), SecondUser(r)>>
        BY <1>3 DEF LockSecond, The, FirstUser, SecondUser, syncVars
    <2>2. pc[r] = "second" /\ pc'[r] = "post"
        BY <1>3 DEF LockSecond, Goto, StoreInv
    <2>3. \A u \in Users : rowLock'[u] = r => u \in {FirstUser(r), SecondUser(r)}
        BY <1>3, <2>2 DEF LockSecond, LockRow, SyncLocksOK, StoreInv, StoreTypeOK
    <2>. QED BY <2>1, <2>2, <2>3 DEF SyncLocksOK
<1>4. CASE UNCHANGED rowLock /\ pc[r] \notin {"second", "post"}
    BY <1>4 DEF SyncLocksOK
<1>5. CASE \/ UnknownDevice(r) \/ KnownVoucher(r) \/ NoWallet(r) \/ RefuseSequence(r)
           \/ RefuseVoucherFunds(r) \/ RefuseVoucher(r) \/ FailVoucher(r)
    BY <1>1, <1>5, RefusalIsGiveUp DEF GiveUp
<1>6. CASE SettleVoucher(r)
    BY <1>1, <1>6 DEF SettleVoucher
<1>7. CASE SubmitBatch(r) \/ TakeVoucher(r) \/ ResolveDevice(r) \/ LookupVoucher(r)
    BY <1>4, <1>7 DEF SubmitBatch, StartBatch, TakeVoucher, ResolveDevice, LookupVoucher, sessions
<1>8. CASE SeenNonce(r) \/ FinishBatch(r) \/ OpenTx(r)
    BY <1>4, <1>8 DEF SeenNonce, FinishBatch, OpenTx, TakeConn, sessions, storeVars
<1>. QED BY <1>2, <1>3, <1>5, <1>6, <1>7, <1>8 DEF SyncRequest, VoucherStep

-----------------------------------------------------------------------------
(* The inductive invariant.                                                *)

LEMMA SyncInvInit ==
    ASSUME SyncInitial
    PROVE  SyncInv
<1>. USE DEF SyncInitial, StoreInit, SyncInit
<1>1. StoreInv
    BY StoreAssumption, ZeroType DEF StoreInv, StoreTypeOK, LockedRowsAreFresh, EscrowCovered
<1>2. SyncDataOK
    BY VoucherAssumption DEF SyncDataOK
<1>3. SyncTypeOK
    BY <1>1, <1>2 DEF StoreInv, SyncTypeOK, SyncLabels
<1>4. VoucherSettledOnce /\ SequenceMonotone /\ ReconciledIsSettled /\ DevicesKeepUser
    BY DEF VoucherSettledOnce, SequenceMonotone, ReconciledIsSettled, DevicesKeepUser
<1>5. \A r \in Requests : SyncStageOK(r) /\ SyncLocksOK(r)
    BY StoreAssumption DEF SyncStageOK, SyncLocksOK, InVoucher
<1>. QED BY <1>1, <1>2, <1>3, <1>4, <1>5 DEF SyncInv, SyncCore

LEMMA SyncInvNext ==
    ASSUME SyncInv, [SyncNext]_syncAll
    PROVE  SyncInv'
<1>. USE DEF SyncInv
<1>1. ASSUME NEW r \in Requests, SyncRequest(r) PROVE SyncInv'
    <2>1. StoreInv' /\ StepOf(r) /\ SyncCore'
        BY <1>1, SyncRequestStep
    <2>2. SyncTypeOK'
        BY <1>1, <2>1, SyncLabelsType DEF SyncTypeOK, StoreInv, SyncCore
    <2>3. ASSUME NEW q \in Requests PROVE SyncLocksOK(q)'
        <3>1. CASE q = r
            BY <1>1, <3>1, OwnLocks
        <3>2. CASE q # r
            BY <1>1, <2>1, <3>2, LocksOfOthers, DataOfOthers, SyncLocksKept DEF StepOf
        <3>. QED BY <3>1, <3>2
    <2>. QED BY <2>1, <2>2, <2>3
<1>2. CASE SyncForget \/ SyncRegister
    <2>1. StoreInv' /\ SyncCore'
        BY <1>2, SyncBesideStep
    <2>2. UNCHANGED <<storeVars, batch, current, payerOf>>
        BY <1>2 DEF SyncForget, SyncRegister, ForgetNonce, RegisterDevice
    <2>3. SyncTypeOK'
        BY <2>1, <2>2 DEF SyncTypeOK, StoreInv, SyncCore, storeVars
    <2>4. \A q \in Requests : SyncLocksOK(q)'
        BY <2>2, SyncLocksKept DEF storeVars
    <2>. QED BY <2>1, <2>3, <2>4
<1>3. CASE SyncCrash
    <2>1. PICK i \in Instances :
            /\ CrashStore(i) /\ CrashSync(i)
            /\ UNCHANGED <<devices, vouchers, batch, results, current, payerOf>>
        BY <1>3 DEF SyncCrash
    <2>2. StoreInv' /\ SyncCore'
        BY <2>1, SyncCrashStep
    <2>3. SyncTypeOK'
        BY <2>1, <2>2 DEF SyncTypeOK, StoreInv, SyncCore, CrashStore, SyncLabels
    <2>4. ASSUME NEW q \in Requests PROVE SyncLocksOK(q)'
        <3>1. CASE q \in Busy(i)
            <4>1. \A u \in Users : rowLock'[u] # q
                BY <2>1, <3>1, StoreAssumption DEF CrashStore
            <4>. QED BY <4>1 DEF SyncLocksOK
        <3>2. CASE q \notin Busy(i)
            <4>1. pc'[q] = pc[q] /\ \A u \in Users : rowLock'[u] = q => rowLock[u] = q
                BY <2>1, <3>2, StoreAssumption DEF CrashStore
            <4>. QED BY <2>1, <4>1, SyncLocksKept
        <3>. QED BY <3>1, <3>2
    <2>. QED BY <2>2, <2>3, <2>4
<1>4. CASE SyncDone \/ UNCHANGED syncAll
    <2>1. UNCHANGED <<storeVars, syncVars>>
        BY <1>4 DEF SyncDone, syncAll
    <2>2. StoreInv' /\ SyncDataOK'
        BY <2>1, StoreSame DEF SyncCore, SyncDataOK, syncVars
    <2>3. SyncCore'
        BY <2>1, <2>2, SyncUntouched DEF syncVars, storeVars, SyncDataOK
    <2>4. SyncTypeOK'
        BY <2>1, <2>2 DEF SyncTypeOK, StoreInv, storeVars
    <2>5. \A q \in Requests : SyncLocksOK(q)'
        BY <2>1, SyncLocksKept DEF storeVars, syncVars
    <2>. QED BY <2>2, <2>3, <2>4, <2>5
<1>. QED BY <1>1, <1>2, <1>3, <1>4 DEF SyncNext

\* The inductive invariant holds in every reachable state.
THEOREM SyncInvariant == SyncSpec => []SyncInv
<1>1. SyncInitial => SyncInv
    BY SyncInvInit
<1>2. SyncInv /\ [SyncNext]_syncAll => SyncInv'
    BY SyncInvNext
<1>. QED BY <1>1, <1>2, PTL DEF SyncSpec

\* Every variable always has its type.
THEOREM SyncTypes == SyncSpec => []SyncTypeOK
<1>1. SyncInv => SyncTypeOK
    BY DEF SyncInv
<1>. QED BY <1>1, SyncInvariant, PTL

\* Redemptions never leave an escrow without the money that covers it, also when
\* somebody redeems a voucher to himself (service.go, the new allocated balance).
THEOREM SyncEscrowCovered == SyncSpec => []EscrowCovered
<1>1. SyncInv => EscrowCovered
    BY DEF SyncInv, StoreInv
<1>. QED BY <1>1, SyncInvariant, PTL

\* A voucher and a nonce are settled at most once, in whichever process, however
\* often a batch is uploaded and whatever the registry forgets.
THEOREM SyncVoucherSettledOnce == SyncSpec => []VoucherSettledOnce
<1>1. SyncInv => VoucherSettledOnce
    BY DEF SyncInv, SyncCore
<1>. QED BY <1>1, SyncInvariant, PTL

\* The vouchers of a payer settle in strictly increasing order of their numbers.
THEOREM SyncSequenceMonotone == SyncSpec => []SequenceMonotone
<1>1. SyncInv => SequenceMonotone
    BY DEF SyncInv, SyncCore
<1>. QED BY <1>1, SyncInvariant, PTL

\* What a client is told is reconciled was signed and has been settled.
THEOREM SyncReconciledIsSettled == SyncSpec => []ReconciledIsSettled
<1>1. SyncInv => ReconciledIsSettled
    BY DEF SyncInv, SyncCore
<1>. QED BY <1>1, SyncInvariant, PTL

-----------------------------------------------------------------------------
(* What is reported.                                                       *)

\* A voucher is refused for lack of funds by RefuseVoucherFunds, and for its
\* number by RefuseSequence: while it is in work, and by nothing else.
LEMMA RefusalReported ==
    ASSUME StoreInv, SyncCore, NEW r \in Requests, SyncRequest(r),
           NEW q \in Requests, NEW i \in DOMAIN results'[q],
           results'[q][i] \in {"no_funds", "dup_seq"}
    PROVE  /\ batch'[q] = batch[q] /\ i \in DOMAIN results[q]
           /\ \/ results[q][i] = results'[q][i]
              \/ /\ q = r /\ i = current[r]
                 /\ IF results'[q][i] = "no_funds" THEN RefuseVoucherFunds(r) ELSE RefuseSequence(r)
<1>. DEFINE Refuses == IF results'[q][i] = "no_funds" THEN RefuseVoucherFunds(r)
                                                      ELSE RefuseSequence(r)
<1>1. pc = [p \in Requests |-> pc[p]]
    BY DEF StoreInv
<1>2. ASSUME NEW what \in SyncResults, InVoucher(r), Conclude(r, what), UNCHANGED batch,
             what \notin {"no_funds", "dup_seq"} \/ (what = results'[q][i] => Refuses)
      PROVE  /\ batch'[q] = batch[q] /\ i \in DOMAIN results[q]
             /\ \/ results[q][i] = results'[q][i]
                \/ q = r /\ i = current[r] /\ Refuses
    <2>1. /\ DOMAIN results'[r] = DOMAIN results[r]
          /\ results'[r] = [results[r] EXCEPT ![current[r]] = what]
          /\ \A p \in Requests \ {r} : results'[p] = results[p]
        BY <1>1, <1>2, ConcludeEffect
    <2>. HIDE DEF Refuses
    <2>. QED BY <1>2, <2>1
<1>3. CASE RefuseVoucherFunds(r)
    BY <1>2, <1>3 DEF RefuseVoucherFunds, GiveUp, InVoucher, At, SyncResults
<1>4. CASE RefuseSequence(r)
    BY <1>2, <1>4 DEF RefuseSequence, GiveUp, InVoucher, At, SyncResults
<1>5. CASE UnknownDevice(r) \/ NoWallet(r) \/ RefuseVoucher(r) \/ FailVoucher(r) \/ KnownVoucher(r)
    BY <1>2, <1>5 DEF UnknownDevice, NoWallet, RefuseVoucher, FailVoucher, KnownVoucher, GiveUp,
                      InVoucher, At, SyncResults
<1>6. CASE SettleVoucher(r)
    <2>1. PICK what \in {"reconciled", "rejected"} : Conclude(r, what)
        BY <1>6 DEF SettleVoucher
    <2>2. InVoucher(r) /\ UNCHANGED batch
        BY <1>6 DEF SettleVoucher, InVoucher, At
    <2>. QED BY <1>2, <2>1, <2>2 DEF SyncResults
<1>7. CASE SubmitBatch(r)
    <2>1. PICK b \in Batches : StartBatch(r, b)
        BY <1>7 DEF SubmitBatch
    <2>2. /\ batch' = [batch EXCEPT ![r] = b]
          /\ results' = [results EXCEPT ![r] = [k \in DOMAIN b |-> FirstResult(b[k])]]
        BY <2>1 DEF StartBatch
    <2>3. batch \in [Requests -> Batches \cup {<<>>}] /\ results \in [Requests -> Seq(SyncResults)]
        BY DEF SyncCore, SyncDataOK
    <2>4. q # r
        <3>1. ASSUME q = r PROVE FALSE
            <4>1. results'[q] = [k \in DOMAIN b |-> FirstResult(b[k])]
                BY <2>2, <2>3, <3>1
            <4>2. results'[q][i] = FirstResult(b[i])
                BY <4>1
            <4>. QED BY <4>2 DEF FirstResult
        <3>. QED BY <3>1
    <2>. QED BY <2>2, <2>3, <2>4
<1>8. CASE SeenNonce(r)
    <2>1. PICK k \in NextUp(r) : results' = [results EXCEPT ![r][k] = "dup_nonce"]
        BY <1>8 DEF SeenNonce
    <2>2. UNCHANGED batch /\ results \in [Requests -> Seq(SyncResults)]
        BY <1>8 DEF SeenNonce, SyncCore, SyncDataOK
    <2>3. results' = [results EXCEPT ![r] = [results[r] EXCEPT ![k] = "dup_nonce"]]
        BY <2>1
    <2>4. results'[q] = IF q = r THEN [results[r] EXCEPT ![k] = "dup_nonce"] ELSE results[q]
        BY <2>2, <2>3
    <2>. QED BY <2>2, <2>4
<1>9. CASE \/ TakeVoucher(r) \/ ResolveDevice(r) \/ FinishBatch(r) \/ OpenTx(r) \/ LookupVoucher(r)
           \/ LockFirst(r) \/ LockSecond(r)
    BY <1>9 DEF TakeVoucher, ResolveDevice, FinishBatch, OpenTx, LookupVoucher, LockFirst,
                LockSecond, syncVars
<1>. QED BY <1>3, <1>4, <1>5, <1>6, <1>7, <1>8, <1>9 DEF SyncRequest, VoucherStep

-----------------------------------------------------------------------------
(* The books, as long as nobody redeems a voucher to himself.              *)

\* All steps of a batch but SettleVoucher leave the tables alone.
LEMMA SyncRequestTables ==
    ASSUME NEW r \in Requests, SyncRequest(r), ~SettleVoucher(r)
    PROVE  UNCHANGED tables
<1>1. CASE \/ UnknownDevice(r) \/ KnownVoucher(r) \/ NoWallet(r) \/ RefuseSequence(r)
           \/ RefuseVoucherFunds(r) \/ RefuseVoucher(r) \/ FailVoucher(r)
    BY <1>1, RefusalIsGiveUp DEF GiveUp
<1>2. CASE SubmitBatch(r) \/ TakeVoucher(r) \/ ResolveDevice(r) \/ LookupVoucher(r)
    BY <1>2 DEF SubmitBatch, StartBatch, TakeVoucher, ResolveDevice, LookupVoucher
<1>3. CASE SeenNonce(r) \/ FinishBatch(r) \/ OpenTx(r)
    BY <1>3 DEF SeenNonce, FinishBatch, OpenTx, storeVars, tables
<1>4. CASE LockFirst(r) \/ LockSecond(r)
    BY <1>4 DEF LockFirst, LockSecond
<1>. QED BY <1>1, <1>2, <1>3, <1>4 DEF SyncRequest, VoucherStep

LEMMA SyncTablesStay ==
    ASSUME [SyncNext]_syncAll, \A r \in Requests : ~SettleVoucher(r)
    PROVE  UNCHANGED tables
<1>1. ASSUME NEW r \in Requests, SyncRequest(r) PROVE UNCHANGED tables
    BY <1>1, SyncRequestTables
<1>2. CASE SyncForget \/ SyncRegister \/ SyncCrash
    BY <1>2 DEF SyncForget, SyncRegister, SyncCrash, ForgetNonce, RegisterDevice, CrashStore,
                storeVars, tables
<1>3. CASE SyncDone \/ UNCHANGED syncAll
    BY <1>3 DEF SyncDone, syncAll, storeVars, tables
<1>. QED BY <1>1, <1>2, <1>3 DEF SyncNext

\* A redemption from one user to another keeps the books.
LEMMA RedeemMoves ==
    ASSUME StoreInv, SyncCore, NEW r \in Requests, SettleVoucher(r),
           payerOf[r] # The(r).payee
    PROVE  (JournalChain => JournalChain') /\ TotalOf(wallets') = TotalOf(wallets)
<1>. DEFINE payer == payerOf[r]
            v     == The(r)
            t     == Redemption(r)
<1>1. /\ payer \in Users /\ v.payee \in Users /\ v \in Uploaded
      /\ payer = DeviceUser[v.device] /\ v.amount \in Int64
      /\ seen[r][payer] = wallets[payer] /\ seen[r][v.payee] = wallets[v.payee]
      /\ Debited(r, t) = wallets[payer].balance - v.amount
      /\ PayerRowAfter(r) \in Row /\ wallets' \in [Users -> Row]
      /\ payer # v.payee =>
            /\ wallets'[payer] = PayerRowAfter(r)
            /\ wallets'[v.payee] =
                [wallets[v.payee] EXCEPT !.balance = wallets[v.payee].balance + v.amount]
      /\ \A u \in Users \ {payer, v.payee} : wallets'[u] = wallets[u]
    BY RedeemEffect
<1>2. payer # v.payee
    OBVIOUS
<1>3. t.payer = payer /\ t.payee = v.payee /\ t.amount = v.amount
    BY DEF Redemption, Payment
<1>4. PayerRowAfter(r).balance = Debited(r, t)
    BY DEF PayerRowAfter
<1>5. PaymentFits(r, t) /\ PostPayment(r, t, PayerRowAfter(r))
    BY DEF SettleVoucher
<1>6. StoreTypeOK /\ EscrowCovered
    BY DEF StoreInv
<1>. HIDE DEF payer, v, t
<1>7. JournalChain => JournalChain'
    BY <1>1, <1>2, <1>3, <1>4, <1>5, <1>6, PaymentKeepsChain
<1>8. TotalOf(wallets') = TotalOf(wallets)
    <2>1. wallets \in [Users -> Row] /\ wallets[v.payee] \in Row
        BY <1>1, <1>6 DEF StoreTypeOK
    <2>2. v.amount \in Int
        BY <1>1, StoreAssumption DEF Int64
    <2>3. /\ wallets'[payer].balance = wallets[payer].balance - v.amount
          /\ wallets'[v.payee].balance = wallets[v.payee].balance + v.amount
          /\ \A u \in Users \ {payer, v.payee} : wallets'[u].balance = wallets[u].balance
        BY <1>1, <1>2, <1>4, <2>1 DEF Row
    <2>. QED BY <1>1, <1>2, <2>1, <2>2, <2>3, PaymentKeepsTotal
<1>. QED BY <1>7, <1>8

LEMMA RedeemKeepsBooks ==
    ASSUME NoSelfVouchers, StoreInv, SyncCore, NEW r \in Requests, SettleVoucher(r)
    PROVE  (JournalChain => JournalChain') /\ TotalOf(wallets') = TotalOf(wallets)
<1>1. The(r) \in Uploaded /\ payerOf[r] = DeviceUser[The(r).device]
    BY RedeemEffect
<1>2. payerOf[r] # The(r).payee
    BY <1>1 DEF NoSelfVouchers
<1>. QED BY <1>2, RedeemMoves

SyncBooks == JournalChain /\ TotalOf(wallets) = TotalOf(Opening)

LEMMA SyncBooksKept == ASSUME NoSelfVouchers PROVE SyncSpec => []SyncBooks
<1>1. SyncInitial => SyncBooks
    BY DEF SyncInitial, StoreInit, SyncBooks, JournalChain, ChainOf
<1>2. SyncInv /\ SyncBooks /\ [SyncNext]_syncAll => SyncBooks'
    <2>1. SUFFICES ASSUME SyncInv, SyncBooks, [SyncNext]_syncAll
                   PROVE  SyncBooks'
        OBVIOUS
    <2>2. CASE \E r \in Requests : SettleVoucher(r)
        BY <2>1, <2>2, RedeemKeepsBooks DEF SyncInv, SyncBooks
    <2>3. CASE ~ \E r \in Requests : SettleVoucher(r)
        <3>1. UNCHANGED <<wallets, journal>>
            BY <2>1, <2>3, SyncTablesStay DEF tables
        <3>. QED BY <2>1, <3>1, ChainSame DEF SyncBooks, JournalChain
    <2>. QED BY <2>2, <2>3
<1>. QED BY <1>1, <1>2, SyncInvariant, PTL DEF SyncSpec

\* Redemptions lose nobody's update and leave every wallet as its ledger says.
THEOREM SyncJournalChain == ASSUME NoSelfVouchers PROVE SyncSpec => []JournalChain
<1>1. SyncBooks => JournalChain
    BY DEF SyncBooks
<1>. QED BY <1>1, SyncBooksKept, PTL

\* Redemptions move money and neither make nor destroy any (the audit of the
\* simulator); a voucher to oneself would make some.
THEOREM SyncMoneyConserved == ASSUME NoSelfVouchers PROVE SyncSpec => []MoneyConserved
<1>1. SyncInv /\ SyncBooks => MoneyConserved
    <2>1. SUFFICES ASSUME SyncInv, SyncBooks PROVE MoneyConserved
        OBVIOUS
    <2>2. \A i \in DOMAIN transactions : transactions[i].payer \in Users
        <3>1. transactions \in Seq(Redemptions)
            BY <2>1 DEF SyncInv, SyncTypeOK
        <3>2. \A i \in DOMAIN transactions : transactions[i] \in Redemptions
            <4>. HIDE DEF Redemptions
            <4>. QED BY <3>1
        <3>. QED BY <3>2 DEF Redemptions
    <2>. QED BY <2>1, <2>2, NoFunding DEF SyncBooks
<1>. QED BY <1>1, SyncInvariant, SyncBooksKept, PTL

-----------------------------------------------------------------------------
(* Deadlock.                                                               *)

\* Of the rows that a circle of waiting batches has locked, the largest is locked
\* by a batch that waits for a larger one: there is no such circle.
LEMMA NoCircle ==
    ASSUME SyncInv, NEW D \in SUBSET Requests, D # {}, Deadlocked(D, SyncWants)
    PROVE  FALSE
<1>. DEFINE Held == {u \in Users : rowLock[u] \in D}
<1>1. \A r \in D : \E u \in SyncWants[r] : rowLock[u] \in D \ {r} /\ u \in Users
    BY DEF Deadlocked, SyncWants
<1>2. Held # {}
    BY <1>1
<1>3. IsFiniteSet(Held) /\ Held \subseteq Nat
    BY StoreAssumption, FS_Subset
<1>4. PICK m \in Held : \A u \in Held : u <= m
    BY <1>2, <1>3, FiniteMax
<1>. DEFINE r == rowLock[m]
<1>5. r \in D /\ r \in Requests /\ m \in Users
    OBVIOUS
<1>6. PICK u \in SyncWants[r] : rowLock[u] \in D \ {r} /\ u \in Users
    BY <1>1, <1>5
<1>7. SyncLocksOK(r)
    BY <1>5 DEF SyncInv
<1>8. pc[r] = "second" /\ m = FirstUser(r)
    <2>1. pc[r] \in {"first", "second"}
        BY <1>5, <1>6 DEF SyncWants, At
    <2>. QED BY <1>5, <1>7, <2>1 DEF SyncLocksOK
<1>9. u = SecondUser(r)
    BY <1>5, <1>6, <1>8 DEF SyncWants, At
<1>10. u # m /\ u \in Held
    BY <1>6
<1>11. u > m
    <2>1. payerOf[r] \in Nat /\ The(r).payee \in Nat
        <3>1. payerOf[r] \in Users /\ SecondUser(r) \in Users /\ FirstUser(r) \in Users
            BY <1>5, <1>6, <1>8, <1>9 DEF SyncInv, SyncCore, SyncStageOK
        <3>2. {FirstUser(r), SecondUser(r)} = {payerOf[r], The(r).payee}
            BY <1>5, RowsOfVoucher
        <3>. QED BY <3>1, <3>2, StoreAssumption
    <2>. QED BY <1>8, <1>9, <1>10, <2>1 DEF FirstUser, SecondUser, First, Second
<1>. QED BY <1>3, <1>4, <1>10, <1>11

\* Batches never wait for each other's rows in a circle: they lock them in the
\* order of the user ids (service.go, lock ordering).
THEOREM SyncDeadlockFree == SyncSpec => []NoSyncLockCycle
<1>1. SyncInv => NoSyncLockCycle
    <2>1. SUFFICES ASSUME SyncInv, LockCycle(SyncWants) PROVE FALSE
        BY DEF NoSyncLockCycle
    <2>2. PICK D \in (SUBSET Requests) \ {{}} : Deadlocked(D, SyncWants)
        BY <2>1 DEF LockCycle
    <2>. QED BY <2>1, <2>2, NoCircle
<1>. QED BY <1>1, SyncInvariant, PTL
=============================================================================

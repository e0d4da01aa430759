-------------------------- MODULE SimulatorProofs --------------------------
(***************************************************************************)
(* Proofs about Simulator, for any accounts, vouchers, batch size and      *)
(* workers.  What a worker does inside a batch is proved in SyncProofs.    *)
(***************************************************************************)
EXTENDS Simulator, SyncProofs, SequenceTheorems

-----------------------------------------------------------------------------
(* The vouchers that are dealt.                                            *)

LEMMA KeyOwner ==
    ASSUME NEW u \in Users
    PROVE  KeyOf(u) \in Devices /\ DeviceUser[KeyOf(u)] = u
BY SimAssumption DEF KeyOf

LEMMA DealType ==
    ASSUME NEW v \in Deals
    PROVE  /\ v.seq \in 1..NumTxs /\ v.signed /\ v.amount \in 1..MaxInt
           /\ v.device \in Devices /\ DeviceUser[v.device] \in Users
<1>1. PICK d \in Draws, n \in 1..NumTxs, s \in 1..NumTxs : v = SignedVoucher(d, n, s)
    BY DEF Deals
<1>2. d.payer \in Users /\ d.amount \in 1..MaxInt
    BY SimAssumption
<1>. QED BY <1>1, <1>2, KeyOwner DEF SignedVoucher

LEMMA DealtType ==
    ASSUME dealt \in Seq(Deals), NEW m \in DOMAIN dealt
    PROVE  dealt[m] \in Deals /\ m \in Nat /\ m >= 1 /\ m <= Len(dealt)
<1>. HIDE DEF Deals
<1>. QED OBVIOUS

\* Dealt vouchers have ids of their own, and the number of a payer's voucher is
\* the number of one of them only.
LEMMA DealtDiffer ==
    ASSUME SimTypeOK, DealtOK, NEW m \in DOMAIN dealt, NEW n \in DOMAIN dealt
    PROVE  /\ dealt[m].id = dealt[n].id => m = n
           /\ /\ DeviceUser[dealt[m].device] = DeviceUser[dealt[n].device]
              /\ dealt[m].seq = dealt[n].seq
              => m = n
<1>1. /\ m \in 1..NumTxs /\ n \in 1..NumTxs
      /\ dealt[m].seq \in Int /\ dealt[n].seq \in Int
    <2>1. /\ dealt[m] \in Deals /\ dealt[n] \in Deals /\ Len(dealt) <= NumTxs
          /\ m \in Nat /\ m >= 1 /\ m <= Len(dealt) /\ n \in Nat /\ n >= 1 /\ n <= Len(dealt)
        BY DealtType DEF SimTypeOK
    <2>2. Len(dealt) \in Nat
        <3>. HIDE DEF Deals
        <3>. QED BY DEF SimTypeOK
    <2>. QED BY <2>1, <2>2, DealType, SimAssumption
<1>2. dealt[m].id = dealt[n].id => m = n
    BY <1>1, SimAssumption DEF DealtOK
<1>3. ASSUME m < n PROVE /\ DeviceUser[dealt[m].device] = DeviceUser[dealt[n].device]
                         => dealt[m].seq < dealt[n].seq
    BY <1>1, <1>3 DEF DealtOK
<1>4. ASSUME n < m PROVE /\ DeviceUser[dealt[m].device] = DeviceUser[dealt[n].device]
                         => dealt[n].seq < dealt[m].seq
    BY <1>1, <1>4 DEF DealtOK
<1>. QED BY <1>1, <1>2, <1>3, <1>4

-----------------------------------------------------------------------------
(* The order in which a worker settles its batch.                          *)

\* A step of a worker inside its batch, as far as that order goes: what is
\* decided has the lowest number of what is open.
WorkOf(r) ==
    /\ batch' = batch
    /\ \A q \in Requests \ {r} :
          pc'[q] = pc[q] /\ results'[q] = results[q] /\ current'[q] = current[q]
    /\ pc[r] \notin {"idle", "done", "gone"} /\ pc'[r] \notin {"idle", "gone"}
    /\ Todo(r)' \subseteq Todo(r)
    /\ \A i \in Todo(r) \ Todo(r)' : \A j \in Todo(r) : batch[r][i].seq <= batch[r][j].seq
    /\ InVoucher(r)' => \A j \in Todo(r)' : batch[r][current'[r]].seq <= batch[r][j].seq
    /\ pc'[r] = "done" => Todo(r)' = {} /\ current'[r] = 0

\* The voucher in work is decided.
LEMMA ConcludeWorks ==
    ASSUME StoreInv, SyncCore, NEW r \in Requests, AscendingOK(r), InVoucher(r),
           NEW what \in SyncResults \ {"pending"}, Conclude(r, what), batch' = batch
    PROVE  WorkOf(r) /\ current[r] \in Todo(r) \ Todo(r)'
<1>1. /\ current[r] \in DOMAIN batch[r]
      /\ pc'[r] = "next"
      /\ results'[r] = [results[r] EXCEPT ![current[r]] = what]
      /\ \A q \in Requests \ {r} : results'[q] = results[q] /\ current'[q] = current[q]
    BY ConcludeEffect DEF StoreInv
<1>2. \A q \in Requests \ {r} : pc'[q] = pc[q]
    BY DEF Conclude, Goto, StoreInv
<1>3. DOMAIN results[r] = DOMAIN batch[r] /\ results[r][current[r]] = "pending"
    BY DEF SyncCore, SyncDataOK, SyncStageOK
<1>4. Todo(r)' = Todo(r) \ {current[r]} /\ current[r] \in Todo(r)
    BY <1>1, <1>3 DEF Todo
<1>5. \A j \in Todo(r) : batch[r][current[r]].seq <= batch[r][j].seq
    BY DEF AscendingOK, The
<1>6. ~InVoucher(r)' /\ pc[r] \notin {"idle", "done", "gone"}
    BY <1>1 DEF InVoucher
<1>. QED BY <1>1, <1>2, <1>4, <1>5, <1>6 DEF WorkOf

LEMMA WorkerWorks ==
    ASSUME StoreInv, SyncCore, NEW r \in Requests, AscendingOK(r),
           VoucherStep(r) \/ FailVoucher(r)
    PROVE  WorkOf(r)
<1>1. CASE \/ UnknownDevice(r) \/ KnownVoucher(r) \/ NoWallet(r) \/ RefuseSequence(r)
           \/ RefuseVoucherFunds(r) \/ RefuseVoucher(r) \/ FailVoucher(r)
    <2>1. PICK what \in SyncResults \ {"reconciled", "pending"} : InVoucher(r) /\ GiveUp(r, what)
        BY <1>1, RefusalIsGiveUp
    <2>. QED BY <2>1, ConcludeWorks DEF GiveUp
<1>2. CASE SettleVoucher(r)
    <2>1. PICK what \in {"reconciled", "rejected"} : Conclude(r, what)
        BY <1>2 DEF SettleVoucher
    <2>. QED BY <1>2, <2>1, ConcludeWorks DEF SettleVoucher, InVoucher, At, SyncResults
<1>3. CASE TakeVoucher(r)
    <2>1. PICK i \in NextUp(r) : current' = [current EXCEPT ![r] = i]
        BY <1>3 DEF TakeVoucher
    <2>2. /\ batch' = batch /\ results' = results /\ Todo(r)' = Todo(r)
          /\ pc[r] = "next" /\ pc' = [pc EXCEPT ![r] = "device"]
        BY <1>3 DEF TakeVoucher, Todo, At, Goto
    <2>3. current'[r] = i /\ \A q \in Requests \ {r} : current'[q] = current[q]
        BY <2>1 DEF SyncCore, SyncDataOK
    <2>4. \A j \in Todo(r) : batch[r][i].seq <= batch[r][j].seq
        BY DEF NextUp
    <2>. QED BY <2>2, <2>3, <2>4 DEF WorkOf, StoreInv
<1>4. CASE SeenNonce(r)
    <2>1. PICK i \in NextUp(r) : results' = [results EXCEPT ![r][i] = "dup_nonce"]
        BY <1>4 DEF SeenNonce
    <2>2. /\ batch' = batch /\ pc[r] = "next" /\ pc' = pc /\ current' = current
        BY <1>4 DEF SeenNonce, storeVars, At
    <2>3. /\ results \in [Requests -> Seq(SyncResults)] /\ DOMAIN results[r] = DOMAIN batch[r]
        BY DEF SyncCore, SyncDataOK
    <2>4. /\ results'[r] = [results[r] EXCEPT ![i] = "dup_nonce"]
          /\ \A q \in Requests \ {r} : results'[q] = results[q]
        BY <2>1, <2>3
    <2>5. Todo(r)' = Todo(r) \ {i} /\ \A j \in Todo(r) : batch[r][i].seq <= batch[r][j].seq
        BY <2>2, <2>3, <2>4 DEF Todo, NextUp
    <2>. QED BY <2>2, <2>4, <2>5 DEF WorkOf, InVoucher
<1>5. CASE FinishBatch(r)
    <2>1. /\ batch' = batch /\ results' = results /\ current' = current
          /\ pc[r] = "next" /\ pc' = [pc EXCEPT ![r] = "done"] /\ Todo(r) = {}
        BY <1>5 DEF FinishBatch, At, Goto, syncVars
    <2>2. Todo(r)' = {} /\ current[r] = 0
        BY <2>1 DEF Todo, SyncCore, SyncStageOK
    <2>. QED BY <2>1, <2>2 DEF WorkOf, StoreInv
<1>6. CASE ResolveDevice(r) \/ OpenTx(r) \/ LookupVoucher(r) \/ LockFirst(r) \/ LockSecond(r)
    <2>1. /\ batch' = batch /\ results' = results /\ current' = current /\ Todo(r)' = Todo(r)
        BY <1>6 DEF ResolveDevice, OpenTx, LookupVoucher, LockFirst, LockSecond, syncVars, Todo
    <2>2. PICK label \in {"open", "lookup", "first", "second", "post"} : Goto(r, label)
        BY <1>6 DEF ResolveDevice, OpenTx, LookupVoucher, LockFirst, LockSecond
    <2>3. InVoucher(r) /\ pc[r] \notin {"idle", "done", "gone"}
        BY <1>6 DEF ResolveDevice, OpenTx, LookupVoucher, LockFirst, LockSecond, At, InVoucher
    <2>4. pc'[r] = label /\ \A q \in Requests \ {r} : pc'[q] = pc[q]
        BY <2>2 DEF Goto, StoreInv
    <2>5. \A j \in Todo(r) : batch[r][current[r]].seq <= batch[r][j].seq
        BY <2>3 DEF AscendingOK, The
    <2>. QED BY <2>1, <2>3, <2>4, <2>5 DEF WorkOf
<1>. QED BY <1>1, <1>2, <1>3, <1>4, <1>5, <1>6 DEF VoucherStep

\* The order within the batches is kept.
LEMMA WorkAscends ==
    ASSUME SyncCore, SimTypeOK, NEW r \in Requests, \A q \in Requests : AscendingOK(q),
           WorkOf(r), NEW q \in Requests
    PROVE  AscendingOK(q)'
<1>1. CASE q # r
    <2>1. UNCHANGED <<Todo(q), InVoucher(q), The(q), batch>>
        BY <1>1 DEF WorkOf, Todo, InVoucher, The
    <2>. QED BY <2>1 DEF AscendingOK
<1>2. CASE q = r
    <2>1. ASSUME NEW i \in Todo(r)', NEW j \in DOMAIN batch[r] \ Todo(r)'
          PROVE  batch[r][j].seq <= batch[r][i].seq
        BY <2>1 DEF WorkOf, AscendingOK
    <2>. QED BY <1>2, <2>1 DEF WorkOf, AscendingOK, The
<1>. QED BY <1>1, <1>2

-----------------------------------------------------------------------------
(* What a worker settles.                                                  *)

\* The table of vouchers grows by the voucher in work, which is then decided,
\* or not at all.
Settles(r) ==
    /\ \A k \in DOMAIN vouchers : k \in DOMAIN vouchers' /\ vouchers'[k] = vouchers[k]
    /\ \A k \in DOMAIN vouchers' :
          \/ k \in DOMAIN vouchers /\ vouchers'[k] = vouchers[k]
          \/ /\ current[r] \in Todo(r) \ Todo(r)'
             /\ vouchers'[k].id = The(r).id /\ vouchers'[k].seq = The(r).seq
             /\ vouchers'[k].payer = DeviceUser[The(r).device]

LEMMA VouchersStayUnless ==
    ASSUME NEW r \in Requests, VoucherStep(r) \/ FailVoucher(r), ~SettleVoucher(r)
    PROVE  UNCHANGED <<vouchers, tables>>
<1>1. CASE \/ UnknownDevice(r) \/ KnownVoucher(r) \/ NoWallet(r) \/ RefuseSequence(r)
           \/ RefuseVoucherFunds(r) \/ RefuseVoucher(r) \/ FailVoucher(r)
    BY <1>1, RefusalIsGiveUp DEF GiveUp
<1>2. CASE TakeVoucher(r) \/ ResolveDevice(r) \/ SeenNonce(r)
    BY <1>2 DEF TakeVoucher, ResolveDevice, SeenNonce, storeVars, tables
<1>3. CASE FinishBatch(r) \/ OpenTx(r) \/ LookupVoucher(r) \/ LockFirst(r) \/ LockSecond(r)
    BY <1>3 DEF FinishBatch, OpenTx, LookupVoucher, LockFirst, LockSecond, syncVars
<1>. QED BY <1>1, <1>2, <1>3 DEF VoucherStep

LEMMA WorkerSettles ==
    ASSUME StoreInv, SyncCore, NEW r \in Requests, AscendingOK(r),
           VoucherStep(r) \/ FailVoucher(r)
    PROVE  Settles(r)
<1>1. CASE SettleVoucher(r)
    <2>1. PICK what \in {"reconciled", "rejected"} : Conclude(r, what)
        BY <1>1 DEF SettleVoucher
    <2>2. InVoucher(r) /\ batch' = batch /\ what \in SyncResults \ {"pending"}
        BY <1>1 DEF SettleVoucher, InVoucher, At, SyncResults
    <2>3. current[r] \in Todo(r) \ Todo(r)'
        BY <2>1, <2>2, ConcludeWorks
    <2>4. payerOf[r] = DeviceUser[The(r).device]
        BY <1>1, RedeemEffect
    <2>5. PICK n \in Nat :
             /\ DOMAIN vouchers = 1..n /\ DOMAIN vouchers' = 1..(n + 1)
             /\ vouchers'[n + 1] = VoucherRow(r)
             /\ \A k \in 1..n : vouchers'[k] = vouchers[k]
        BY <1>1, RedeemVouchers DEF SyncCore
    <2>6. /\ vouchers'[n + 1].id = The(r).id /\ vouchers'[n + 1].seq = The(r).seq
          /\ vouchers'[n + 1].payer = DeviceUser[The(r).device]
        BY <2>4, <2>5 DEF VoucherRow
    <2>. QED BY <2>3, <2>5, <2>6 DEF Settles
<1>2. CASE ~SettleVoucher(r)
    BY <1>2, VouchersStayUnless DEF Settles
<1>. QED BY <1>1, <1>2

-----------------------------------------------------------------------------
(* Where the vouchers of batches and the settled ones come from.           *)

LEMMA BatchOfDeals ==
    ASSUME NEW b \in DealtBatches
    PROVE  /\ b \in Batches /\ Len(b) \in 1..BatchSize /\ DOMAIN b = 1..Len(b)
           /\ \A i \in DOMAIN b : b[i] \in Deals
<1>1. PICK k \in 1..BatchSize : b \in [1..k -> Deals]
    BY DEF DealtBatches
<1>2. k \in Nat /\ DOMAIN b = 1..k
    BY <1>1, SimAssumption
<1>3. b \in Seq(Deals) /\ Len(b) = k
    <2>. HIDE DEF Deals
    <2>. QED BY <1>1, <1>2
<1>. QED BY <1>1, <1>2, <1>3, DealtAssumption

LEMMA DealtLength ==
    ASSUME SimTypeOK
    PROVE  /\ Len(dealt) \in Nat /\ Len(dealt) <= NumTxs /\ DOMAIN dealt = 1..Len(dealt)
           /\ Len(channel) \in Nat /\ DOMAIN channel = 1..Len(channel)
           /\ sent \in Nat /\ NumTxs \in Nat /\ BatchSize \in Nat /\ BatchSize >= 1
<1>. HIDE DEF Deals, DealtBatches
<1>1. dealt \in Seq(Deals) /\ channel \in Seq(DealtBatches) /\ Len(dealt) <= NumTxs /\ sent \in Nat
    BY DEF SimTypeOK
<1>2. NumTxs \in Nat /\ BatchSize \in Nat /\ BatchSize >= 1
    BY SimAssumption
<1>. QED BY <1>1, <1>2

\* What has been taken has been dealt.
LEMMA TakenDealt ==
    ASSUME SimTypeOK, ChannelOK
    PROVE  Taken \in Nat /\ Taken <= NumTxs /\ 1..Taken \subseteq DOMAIN dealt
<1>1. /\ Len(dealt) \in Nat /\ Len(dealt) <= NumTxs /\ DOMAIN dealt = 1..Len(dealt)
      /\ Len(channel) \in Nat /\ sent \in Nat /\ NumTxs \in Nat /\ BatchSize \in Nat
    BY DealtLength
<1>2. StartOf(1) \in Int /\ 0 <= StartOf(1)
    BY <1>1 DEF StartOf, ChannelOK
<1>3. Taken \in Nat /\ Taken <= NumTxs
    BY <1>1, <1>2 DEF Taken
<1>4. CASE Len(dealt) = NumTxs
    BY <1>1, <1>3, <1>4
<1>5. CASE Len(dealt) < NumTxs
    <2>1. sent = 0 /\ Len(channel) = 0
        <3>1. sent = 0 /\ channel = <<>>
            BY <1>5 DEF ChannelOK
        <3>2. Len(<<>>) = 0
            OBVIOUS
        <3>. QED BY <3>1, <3>2
    <2>2. StartOf(1) = 0
        BY <1>1, <2>1 DEF StartOf
    <2>3. Taken = 0
        BY <1>1, <2>2 DEF Taken
    <2>. QED BY <1>3, <2>3
<1>6. Len(dealt) = NumTxs \/ Len(dealt) < NumTxs
    <2>1. PICK n \in Nat, t \in Nat : n = Len(dealt) /\ t = NumTxs /\ n <= t
        BY <1>1
    <2>2. n = t \/ n < t
        BY ONLY <2>1
    <2>. QED BY <2>1, <2>2
<1>. QED BY <1>4, <1>5, <1>6

LEMMA OriginOfBatch ==
    ASSUME SimTypeOK, ChannelOK, TakenOK, NEW r \in Requests, NEW i \in DOMAIN batch[r]
    PROVE  \E m \in DOMAIN dealt : m <= Taken /\ batch[r][i] = dealt[m]
<1>1. PICK m \in 1..Taken : batch[r][i] = dealt[m]
    BY DEF TakenOK
<1>. QED BY <1>1, TakenDealt

LEMMA OriginOfSettled ==
    ASSUME SimTypeOK, ChannelOK, TakenOK, NEW k \in DOMAIN vouchers
    PROVE  \E m \in DOMAIN dealt :
              /\ m <= Taken
              /\ vouchers[k].id = dealt[m].id /\ vouchers[k].seq = dealt[m].seq
              /\ vouchers[k].payer = DeviceUser[dealt[m].device]
<1>1. PICK m \in 1..Taken :
          /\ vouchers[k].id = dealt[m].id /\ vouchers[k].seq = dealt[m].seq
          /\ vouchers[k].payer = DeviceUser[dealt[m].device]
    BY DEF TakenOK
<1>. QED BY <1>1, TakenDealt

-----------------------------------------------------------------------------
(* A step inside a batch keeps the invariant.                              *)

\* All of the invariant is about these.
WorkHyp(r) == SimInv /\ (VoucherStep(r) \/ FailVoucher(r)) /\ UNCHANGED mainVars

LEMMA WorkBasics ==
    ASSUME NEW r \in Requests, WorkHyp(r)
    PROVE  StoreInv' /\ SyncCore' /\ WorkOf(r) /\ Settles(r) /\ main = "wait"
<1>. USE DEF WorkHyp, SimInv
<1>1. StoreInv' /\ SyncCore'
    BY SyncRequestStep DEF SyncRequest
<1>2. WorkOf(r) /\ Settles(r)
    BY WorkerWorks, WorkerSettles DEF BatchesOK
<1>3. main = "wait"
    <2>1. pc[r] \notin {"idle", "gone"}
        BY <1>2 DEF WorkOf
    <2>2. main # "deal" /\ main \in {"deal", "wait"}
        BY <2>1 DEF StagesOK, AllGone, At
    <2>. QED BY <2>2
<1>. QED BY <1>1, <1>2, <1>3

LEMMA WorkTypes ==
    ASSUME NEW r \in Requests, WorkHyp(r)
    PROVE  SimTypeOK'
<1>. USE DEF WorkHyp, SimInv
<1>1. StoreTypeOK' /\ batch' = batch
    BY WorkBasics DEF StoreInv, WorkOf
<1>2. pc' \in [Requests -> SyncLabels \cup {"gone"}]
    <2>1. PICK label \in SyncLabels : Goto(r, label)
        BY SyncLabelNext DEF SyncRequest
    <2>. QED BY <2>1 DEF Goto, SimTypeOK
<1>3. UNCHANGED <<main, dealt, currentSeq, sent, channel, totals, audited, finalTotal>>
    BY DEF mainVars, dealVars, sendVars, auditVars
<1>. QED BY <1>1, <1>2, <1>3 DEF SimTypeOK

LEMMA WorkTaken ==
    ASSUME NEW r \in Requests, WorkHyp(r)
    PROVE  DealtOK' /\ ChannelOK' /\ TakenOK'
<1>. USE DEF WorkHyp, SimInv
<1>1. UNCHANGED <<dealt, currentSeq, sent, channel, totals, batch>>
    BY WorkBasics DEF mainVars, dealVars, sendVars, auditVars, WorkOf
<1>2. DealtOK' /\ ChannelOK'
    BY <1>1 DEF DealtOK, ChannelOK, StartOf, EndOf
<1>3. Taken' = Taken /\ InWork' = InWork
    BY <1>1 DEF Taken, StartOf, InWork
<1>4. ASSUME NEW k \in DOMAIN vouchers'
      PROVE  \E m \in 1..Taken :
                /\ vouchers'[k].id = dealt[m].id /\ vouchers'[k].seq = dealt[m].seq
                /\ vouchers'[k].payer = DeviceUser[dealt[m].device]
    <2>1. CASE k \in DOMAIN vouchers /\ vouchers'[k] = vouchers[k]
        BY <2>1 DEF TakenOK
    <2>2. CASE ~(k \in DOMAIN vouchers /\ vouchers'[k] = vouchers[k])
        <3>1. /\ current[r] \in DOMAIN batch[r]
              /\ vouchers'[k].id = The(r).id /\ vouchers'[k].seq = The(r).seq
              /\ vouchers'[k].payer = DeviceUser[The(r).device]
            BY <2>2, WorkBasics DEF Settles, Todo
        <3>. QED BY <3>1 DEF TakenOK, The
    <2>. QED BY <2>1, <2>2
<1>. QED BY <1>1, <1>2, <1>3, <1>4 DEF TakenOK

LEMMA WorkBatches ==
    ASSUME NEW r \in Requests, WorkHyp(r)
    PROVE  BatchesOK'
<1>. USE DEF WorkHyp, SimInv
<1>1. WorkOf(r) /\ Settles(r) /\ batch' = batch
    BY WorkBasics DEF WorkOf
<1>2. ASSUME NEW q \in Requests PROVE Todo(q)' \subseteq Todo(q)
    <2>1. CASE q = r
        BY <1>1, <2>1 DEF WorkOf
    <2>2. CASE q # r
        BY <1>1, <2>2 DEF WorkOf, Todo
    <2>. QED BY <2>1, <2>2
<1>3. ASSUME NEW k \in DOMAIN vouchers', NEW q \in Requests, NEW i \in Todo(q)'
      PROVE  vouchers'[k].id # batch[q][i].id
    <2>1. i \in Todo(q) /\ i \in DOMAIN batch[q]
        BY <1>2, <1>3 DEF Todo
    <2>2. CASE k \in DOMAIN vouchers /\ vouchers'[k] = vouchers[k]
        BY <2>1, <2>2 DEF BatchesOK
    <2>3. CASE ~(k \in DOMAIN vouchers /\ vouchers'[k] = vouchers[k])
        <3>1. /\ current[r] \in DOMAIN batch[r] /\ current[r] \notin Todo(r)'
              /\ vouchers'[k].id = batch[r][current[r]].id
            BY <1>1, <2>3 DEF Settles, Todo, The
        <3>2. ~(q = r /\ i = current[r])
            BY <1>3, <3>1
        <3>. QED BY <2>1, <3>1, <3>2 DEF BatchesOK
    <2>. QED BY <2>2, <2>3
<1>4. \A q \in Requests : AscendingOK(q)'
    BY <1>1, WorkAscends DEF BatchesOK
<1>. QED BY <1>1, <1>3, <1>4 DEF BatchesOK

LEMMA WorkNumbers ==
    ASSUME NEW r \in Requests, WorkHyp(r)
    PROVE  NumbersAreSettled'
<1>. USE DEF WorkHyp, SimInv
<1>1. SUFFICES ASSUME NEW u \in Users, wallets'[u].lastSeq # 0
               PROVE  \E k \in DOMAIN vouchers' :
                         vouchers'[k].payer = u /\ vouchers'[k].seq = wallets'[u].lastSeq
    BY DEF NumbersAreSettled
<1>2. CASE wallets'[u].lastSeq = wallets[u].lastSeq
    <2>1. PICK k \in DOMAIN vouchers :
             vouchers[k].payer = u /\ vouchers[k].seq = wallets[u].lastSeq
        BY <1>1, <1>2 DEF NumbersAreSettled
    <2>2. k \in DOMAIN vouchers' /\ vouchers'[k] = vouchers[k]
        BY WorkBasics DEF Settles
    <2>. QED BY <1>2, <2>1, <2>2
<1>3. CASE wallets'[u].lastSeq # wallets[u].lastSeq
    <2>1. SettleVoucher(r)
        BY <1>3, VouchersStayUnless DEF tables
    <2>2. u = payerOf[r] /\ wallets'[u].lastSeq = The(r).seq
        BY <1>3, <2>1, RedeemRows
    <2>3. PICK n \in Nat : DOMAIN vouchers' = 1..(n + 1) /\ vouchers'[n + 1] = VoucherRow(r)
        BY <2>1, RedeemVouchers DEF SyncCore
    <2>4. vouchers'[n + 1].payer = u /\ vouchers'[n + 1].seq = wallets'[u].lastSeq
        BY <2>2, <2>3 DEF VoucherRow
    <2>5. n + 1 \in DOMAIN vouchers'
        BY <2>3
    <2>. QED BY <2>4, <2>5
<1>. QED BY <1>2, <1>3

LEMMA WorkTotal ==
    ASSUME NEW r \in Requests, WorkHyp(r)
    PROVE  TotalOf(wallets') = TotalOf(wallets)
<1>. USE DEF WorkHyp, SimInv
<1>1. CASE SettleVoucher(r)
    <2>1. current[r] \in DOMAIN batch[r] /\ payerOf[r] = DeviceUser[The(r).device]
        BY <1>1 DEF SettleVoucher, At, SyncCore, SyncStageOK, InVoucher
    <2>2. PICK m \in DOMAIN dealt : The(r) = dealt[m]
        BY <2>1, OriginOfBatch DEF The
    <2>3. payerOf[r] # The(r).payee
        BY <2>1, <2>2 DEF DealtOK
    <2>. QED BY <1>1, <2>3, RedeemMoves
<1>2. CASE ~SettleVoucher(r)
    BY <1>2, VouchersStayUnless DEF tables
<1>. QED BY <1>1, <1>2

LEMMA WorkStages ==
    ASSUME NEW r \in Requests, WorkHyp(r)
    PROVE  StagesOK' /\ AuditPasses'
<1>. USE DEF WorkHyp, SimInv
<1>1. WorkOf(r) /\ main = "wait" /\ batch' = batch
    BY WorkBasics DEF WorkOf
<1>2. UNCHANGED <<main, dealt, sent, channel, audited, finalTotal>>
    BY DEF mainVars, dealVars, sendVars, auditVars
<1>3. ASSUME NEW q \in Requests
      PROVE  /\ pc'[q] \in {"idle", "gone"} => batch'[q] = <<>>
             /\ pc'[q] = "done" => Todo(q)' = {} /\ current'[q] = 0
             /\ pc'[q] = "gone" => main' # "deal" /\ channel' = <<>>
    <2>1. CASE q = r
        BY <1>1, <2>1 DEF WorkOf
    <2>2. CASE q # r
        BY <1>1, <1>2, <2>2 DEF WorkOf, StagesOK, Todo
    <2>. QED BY <2>1, <2>2
<1>4. audited = {} /\ finalTotal = SumFunction([u \in audited |-> wallets[u].balance])
    BY <1>1 DEF StagesOK
<1>5. [u \in audited |-> wallets[u].balance] = [u \in audited |-> wallets'[u].balance]
    BY <1>4
<1>6. finalTotal' = SumFunction([u \in audited' |-> wallets'[u].balance])
    BY <1>2, <1>4, <1>5
<1>. QED BY <1>1, <1>2, <1>3, <1>4, <1>6 DEF StagesOK, AuditPasses

\* The voucher that overtook one that is refused for its number: it has a later
\* number and comes from another batch.
OvertakenBy(r, i, k) ==
    /\ vouchers[k].payer = DeviceUser[batch[r][i].device]
    /\ vouchers[k].seq > batch[r][i].seq
    /\ \A j \in DOMAIN batch[r] : batch[r][j].id # vouchers[k].id

LEMMA RefusedIsOvertaken ==
    ASSUME SimInv, NEW r \in Requests, RefuseSequence(r)
    PROVE  \E k \in DOMAIN vouchers : OvertakenBy(r, current[r], k)
<1>. USE DEF SimInv
<1>. DEFINE u == payerOf[r]
            c == current[r]
<1>1. /\ c \in Todo(r) /\ c \in DOMAIN batch[r] /\ u \in Users /\ rowLock[u] = r
      /\ u = DeviceUser[The(r).device] /\ StaleSequence(r) /\ InVoucher(r)
    <2>1. pc[r] = "post" /\ StaleSequence(r) /\ InVoucher(r)
        BY DEF RefuseSequence, At, InVoucher
    <2>2. /\ c \in DOMAIN batch[r] /\ results[r][c] = "pending" /\ u \in Users
          /\ u = DeviceUser[The(r).device]
          /\ rowLock[FirstUser(r)] = r /\ rowLock[SecondUser(r)] = r
        BY <2>1 DEF SyncCore, SyncStageOK
    <2>. QED BY <2>1, <2>2, RowsOfVoucher DEF Todo
<1>2. PICK m \in DOMAIN dealt : batch[r][c] = dealt[m]
    BY <1>1, OriginOfBatch
<1>3. The(r).seq \in Int /\ The(r).seq >= 1
    BY <1>2, DealtType, DealType, SimAssumption DEF SimTypeOK, The
<1>4. The(r).seq <= wallets[u].lastSeq /\ wallets[u].lastSeq \in Int
    <2>1. PayerRow(r) = wallets[u]
        BY <1>1, StoreAssumption DEF StoreInv, LockedRowsAreFresh, PayerRow
    <2>2. wallets[u].lastSeq \in Int
        BY <1>1, StoreAssumption DEF StoreInv, StoreTypeOK, Row, Int64
    <2>. QED BY <1>1, <2>1, <2>2 DEF StaleSequence
<1>5. PICK k \in DOMAIN vouchers :
         vouchers[k].payer = u /\ vouchers[k].seq = wallets[u].lastSeq
    BY <1>1, <1>3, <1>4 DEF NumbersAreSettled
<1>6. PICK n \in DOMAIN dealt :
         /\ vouchers[k].id = dealt[n].id /\ vouchers[k].seq = dealt[n].seq
         /\ vouchers[k].payer = DeviceUser[dealt[n].device]
    BY OriginOfSettled
<1>7. vouchers[k].id # batch[r][c].id
    BY <1>1 DEF BatchesOK
<1>8. vouchers[k].seq > batch[r][c].seq
    <2>1. m # n
        BY <1>2, <1>6, <1>7
    <2>2. dealt[m].seq # dealt[n].seq
        BY <1>1, <1>2, <1>5, <1>6, <2>1, DealtDiffer DEF The
    <2>. QED BY <1>2, <1>3, <1>4, <1>5, <1>6, <2>2 DEF The
<1>9. ASSUME NEW j \in DOMAIN batch[r], batch[r][j].id = vouchers[k].id
      PROVE  FALSE
    <2>1. PICK l \in DOMAIN dealt : batch[r][j] = dealt[l]
        BY OriginOfBatch
    <2>2. l = n
        BY <1>6, <1>9, <2>1, DealtDiffer
    <2>3. batch[r][j].seq = vouchers[k].seq
        BY <1>6, <2>1, <2>2
    <2>4. j \notin Todo(r)
        BY <1>9 DEF BatchesOK
    <2>5. batch[r][j].seq <= batch[r][c].seq
        BY <1>1, <2>4 DEF BatchesOK, AscendingOK
    <2>. QED BY <1>3, <1>4, <1>5, <1>8, <2>3, <2>5 DEF The
<1>. QED BY <1>1, <1>5, <1>8, <1>9 DEF OvertakenBy, The

LEMMA WorkRefused ==
    ASSUME NEW r \in Requests, WorkHyp(r)
    PROVE  RefusedWasOvertaken'
<1>. USE DEF WorkHyp, SimInv
<1>1. SUFFICES ASSUME NEW q \in Requests, NEW i \in DOMAIN results'[q],
                      results'[q][i] = "dup_seq"
               PROVE  \E k \in DOMAIN vouchers' : OvertakenBy(q, i, k)'
    BY DEF RefusedWasOvertaken, OvertakenBy
<1>2. /\ i \in DOMAIN results[q]
      /\ results[q][i] = "dup_seq" \/ (q = r /\ i = current[r] /\ RefuseSequence(r))
    BY <1>1, RefusalReported DEF SyncRequest
<1>3. PICK k \in DOMAIN vouchers : OvertakenBy(q, i, k)
    <2>1. CASE results[q][i] = "dup_seq"
        BY <1>2, <2>1 DEF RefusedWasOvertaken, OvertakenBy
    <2>2. CASE q = r /\ i = current[r] /\ RefuseSequence(r)
        BY <2>2, RefusedIsOvertaken
    <2>. QED BY <1>2, <2>1, <2>2
<1>4. k \in DOMAIN vouchers' /\ vouchers'[k] = vouchers[k] /\ batch' = batch
    BY WorkBasics DEF Settles, WorkOf
<1>5. OvertakenBy(q, i, k)'
    BY <1>3, <1>4 DEF OvertakenBy
<1>. QED BY <1>4, <1>5

LEMMA WorkStep ==
    ASSUME NEW r \in Requests, WorkHyp(r)
    PROVE  SimInv'
<1>1. ExpectedTotal' = ExpectedTotal /\ TotalOf(wallets) = ExpectedTotal
    BY DEF ExpectedTotal, WorkHyp, SimInv, TotalOf
<1>. QED BY <1>1, WorkBasics, WorkTypes, WorkTaken, WorkBatches, WorkNumbers, WorkTotal,
            WorkStages, WorkRefused DEF SimInv, TotalOf

-----------------------------------------------------------------------------
(* A worker takes a batch from the channel.                                *)

LEMMA ChannelHead ==
    ASSUME SimInv, channel # <<>>
    PROVE  LET b == Head(channel)
           IN  /\ b \in DealtBatches /\ b \in Batches
               /\ Len(dealt) = NumTxs /\ Taken \in Nat
               /\ Taken = StartOf(1) /\ Taken < EndOf(Taken) /\ EndOf(Taken) <= NumTxs
               /\ EndOf(Taken) \in Nat
               /\ Len(b) = EndOf(Taken) - Taken /\ DOMAIN b = 1..Len(b)
               /\ \A i \in DOMAIN b : Taken + i \in DOMAIN dealt /\ b[i] = dealt[Taken + i]
<1>. USE DEF SimInv
<1>1. /\ Len(dealt) \in Nat /\ Len(dealt) <= NumTxs /\ DOMAIN dealt = 1..Len(dealt)
      /\ Len(channel) \in Nat /\ sent \in Nat /\ NumTxs \in Nat
      /\ BatchSize \in Nat /\ BatchSize >= 1 /\ DOMAIN channel = 1..Len(channel)
    BY DealtLength
<1>2. 1 \in DOMAIN channel /\ Head(channel) = channel[1] /\ channel[1] \in DealtBatches
    <2>. HIDE DEF DealtBatches
    <2>1. channel \in Seq(DealtBatches)
        BY DEF SimTypeOK
    <2>. QED BY <2>1
<1>3. /\ StartOf(1) < NumTxs
      /\ Head(channel) = SubSeq(dealt, StartOf(1) + 1, EndOf(StartOf(1)))
    BY <1>2 DEF ChannelOK
<1>4. Len(dealt) = NumTxs /\ Taken \in Nat
    <2>1. SimTypeOK /\ ChannelOK
        OBVIOUS
    <2>2. Taken \in Nat
        BY ONLY <2>1, TakenDealt
    <2>3. ~(Len(dealt) < NumTxs)
        BY <2>1 DEF ChannelOK
    <2>4. PICK n \in Nat, t \in Nat : n = Len(dealt) /\ t = NumTxs /\ n <= t
        BY <1>1
    <2>5. ~(n < t) => n = t
        BY ONLY <2>4
    <2>. QED BY <2>2, <2>3, <2>4, <2>5
<1>5. Taken = StartOf(1)
    <2>1. StartOf(1) \in Int
        BY ONLY <1>1 DEF StartOf
    <2>. QED BY ONLY <1>1, <1>3, <2>1 DEF Taken
<1>. HIDE DEF Taken
<1>6. /\ Taken < EndOf(Taken) /\ EndOf(Taken) <= NumTxs /\ EndOf(Taken) \in Nat
    <2>1. PICK a \in Nat, t \in Nat, b \in Nat :
             a = Taken /\ t = NumTxs /\ b = BatchSize /\ a < t /\ b >= 1
        BY <1>1, <1>3, <1>4, <1>5
    <2>2. a < t /\ b >= 1
        BY <2>1
    <2>3. LET e == IF a + b > t THEN t ELSE a + b IN a < e /\ e <= t /\ e \in Nat
        BY ONLY <2>2, a \in Nat, t \in Nat, b \in Nat
    <2>4. EndOf(Taken) = IF a + b > t THEN t ELSE a + b
        BY <2>1 DEF EndOf
    <2>. QED BY ONLY <2>1, <2>3, <2>4
<1>7. PICK from \in Nat, to \in Nat : from = Taken /\ to = EndOf(Taken)
    BY <1>4, <1>6
<1>8. from < to /\ to <= Len(dealt) /\ Head(channel) = SubSeq(dealt, from + 1, to)
    BY <1>3, <1>4, <1>5, <1>6, <1>7
<1>9. /\ Len(SubSeq(dealt, from + 1, to)) = to - from
      /\ \A i \in 1..(to - from) : SubSeq(dealt, from + 1, to)[i] = dealt[from + i]
    <2>1. \A i \in (from + 1)..to : dealt[i] \in Deals
        BY <1>1, <1>8, DealtType DEF SimTypeOK
    <2>2. from + 1 \in Int /\ to \in Int /\ from + 1 <= to
        BY <1>7, <1>8
    <2>3. /\ Len(SubSeq(dealt, from + 1, to)) = to - (from + 1) + 1
          /\ \A i \in 1..(to - (from + 1) + 1) :
                SubSeq(dealt, from + 1, to)[i] = dealt[(from + 1) + i - 1]
        BY <2>1, <2>2, SubSeqProperties
    <2>4. to - (from + 1) + 1 = to - from /\ \A i \in Int : (from + 1) + i - 1 = from + i
        OBVIOUS
    <2>. QED BY <2>3, <2>4
<1>10. DOMAIN Head(channel) = 1..(to - from) /\ Len(Head(channel)) = to - from
    BY <1>2, <1>8, <1>9, BatchOfDeals
<1>11. \A i \in 1..(to - from) : from + i \in DOMAIN dealt
    BY <1>1, <1>8
<1>12. Head(channel) \in Batches
    BY <1>2, BatchOfDeals
<1>. QED BY <1>2, <1>4, <1>5, <1>6, <1>7, <1>8, <1>9, <1>10, <1>11, <1>12

\* One multiple of the batch size more or less.
LEMMA Multiples ==
    ASSUME NEW n \in Int, NEW k \in Int, NEW b \in Int, NEW s \in Int
    PROVE  /\ s - ((n - 1) + 1 - k) * b = s - (n + 1 - (k + 1)) * b
           /\ s - ((n - 1) + 1 - k) * b = (s - (n + 1 - k) * b) + b
           /\ (s + b) - ((n + 1) + 1 - k) * b = s - (n + 1 - k) * b
           /\ (s + b) - ((n + 1) + 1 - (n + 1)) * b = s
OBVIOUS

LEMMA ChannelTail ==
    ASSUME SimInv, channel # <<>>, channel' = Tail(channel), UNCHANGED <<sent, dealt>>
    PROVE  ChannelOK' /\ Taken' = EndOf(Taken) /\ channel' \in Seq(DealtBatches)
<1>. USE DEF SimInv
<1>1. /\ Len(channel) \in Nat /\ sent \in Nat /\ NumTxs \in Nat
      /\ BatchSize \in Nat /\ BatchSize >= 1 /\ DOMAIN channel = 1..Len(channel)
    BY DealtLength
<1>2. /\ channel' \in Seq(DealtBatches) /\ Len(channel') = Len(channel) - 1
      /\ DOMAIN channel' = 1..(Len(channel) - 1)
      /\ \A k \in 1..(Len(channel) - 1) : channel'[k] = channel[k + 1]
    <2>. HIDE DEF DealtBatches
    <2>1. channel \in Seq(DealtBatches)
        BY DEF SimTypeOK
    <2>. QED BY <2>1, HeadTailProperties
<1>3. \A k \in Int : StartOf(k)' = StartOf(k + 1) /\ StartOf(k)' = StartOf(k) + BatchSize
    <2>1. PICK n \in Nat, s \in Nat, b \in Nat :
             /\ s = sent /\ b = BatchSize /\ Len(channel) = n
             /\ Len(channel') = n - 1 /\ sent' = s
        BY <1>1, <1>2
    <2>2. \A k \in Int : /\ StartOf(k) = s - (n + 1 - k) * b
                         /\ StartOf(k)' = s - ((n - 1) + 1 - k) * b
        BY <2>1 DEF StartOf
    <2>3. \A k \in Int : /\ s - ((n - 1) + 1 - k) * b = s - (n + 1 - (k + 1)) * b
                         /\ s - ((n - 1) + 1 - k) * b = (s - (n + 1 - k) * b) + b
        BY ONLY Multiples, n \in Nat, s \in Nat, b \in Nat
    <2>4. \A k \in Int : StartOf(k + 1) = s - (n + 1 - (k + 1)) * b
        BY <2>1 DEF StartOf
    <2>5. ASSUME NEW k \in Int
          PROVE  StartOf(k)' = StartOf(k + 1) /\ StartOf(k)' = StartOf(k) + b
        <3>1. /\ StartOf(k) = s - (n + 1 - k) * b
              /\ StartOf(k)' = s - ((n - 1) + 1 - k) * b
            BY <2>2
        <3>2. /\ s - ((n - 1) + 1 - k) * b = s - (n + 1 - (k + 1)) * b
              /\ s - ((n - 1) + 1 - k) * b = (s - (n + 1 - k) * b) + b
            BY <2>3
        <3>3. StartOf(k + 1) = s - (n + 1 - (k + 1)) * b
            BY <2>4
        <3>. HIDE DEF StartOf
        <3>. QED BY ONLY <3>1, <3>2, <3>3
    <2>6. b = BatchSize
        BY <2>1
    <2>. HIDE DEF StartOf
    <2>. QED BY ONLY <2>5, <2>6
<1>4. /\ Len(dealt) = NumTxs /\ Taken = StartOf(1) /\ Taken \in Nat
    BY ChannelHead
<1>5. 0 <= StartOf(1)' /\ StartOf(1)' = Taken + BatchSize
    <2>1. StartOf(1)' = Taken + BatchSize
        BY ONLY <1>3, <1>4, 1 \in Int
    <2>2. 0 <= Taken + BatchSize
        BY <1>1, <1>4
    <2>. QED BY ONLY <2>1, <2>2
<1>6. ASSUME NEW k \in DOMAIN channel'
      PROVE  /\ StartOf(k)' < NumTxs
             /\ channel'[k] = SubSeq(dealt', StartOf(k)' + 1, EndOf(StartOf(k)'))
    <2>1. k \in Int /\ k + 1 \in DOMAIN channel /\ channel'[k] = channel[k + 1]
        BY <1>1, <1>2
    <2>2. StartOf(k)' = StartOf(k + 1)
        BY <1>3, <2>1
    <2>. QED BY <2>1, <2>2 DEF ChannelOK
<1>7. ChannelOK'
    BY <1>4, <1>5, <1>6 DEF ChannelOK, EndOf
<1>8. Taken' = EndOf(Taken)
    BY <1>5 DEF Taken, EndOf
<1>. QED BY <1>2, <1>7, <1>8

\* What is in work changes with the batch of one worker.
LEMMA InWorkChanges ==
    ASSUME SyncDataOK, NEW r \in Requests, NEW b, NEW d \in Int,
           \A q \in Requests : Len(batch[q]) \in Nat,
           Len(b) \in Nat, Len(b) = Plus(Len(batch[r]), d), batch' = [batch EXCEPT ![r] = b]
    PROVE  InWork \in Int /\ InWork' = Plus(InWork, d)
<1>1. PICK f : f = [q \in Requests |-> Len(batch[q])]
    OBVIOUS
<1>2. PICK g : g = [q \in Requests |-> Len(batch'[q])]
    OBVIOUS
<1>3. batch \in [Requests -> Batches \cup {<<>>}]
    BY DEF SyncDataOK
<1>4. /\ f \in [Requests -> Int] /\ g \in [Requests -> Int]
      /\ g[r] = Plus(f[r], d) /\ \A q \in Requests : q # r => g[q] = f[q]
    BY <1>1, <1>2, <1>3
<1>5. SumFunction(f) \in Int /\ IsFiniteSet(Requests)
    BY <1>4, SumType, SimAssumption
<1>6. SumFunction(g) = Plus(SumFunction(f), d)
    BY <1>4, <1>5, SumChange
<1>. QED BY <1>1, <1>2, <1>5, <1>6 DEF InWork

LEMMA BatchLength ==
    ASSUME SimTypeOK, NEW r \in Requests
    PROVE  Len(batch[r]) \in Nat /\ DOMAIN batch[r] = 1..Len(batch[r])
<1>1. Len(<<>>) = 0 /\ DOMAIN <<>> = 1..0
    OBVIOUS
<1>2. CASE batch[r] = <<>>
    BY <1>1, <1>2
<1>3. CASE batch[r] \in DealtBatches
    BY <1>3, BatchOfDeals, SimAssumption
<1>. QED BY <1>2, <1>3 DEF SimTypeOK

-----------------------------------------------------------------------------

TakeHyp(r) == SimInv /\ TakeBatch(r)

LEMMA TakeBasics ==
    ASSUME NEW r \in Requests, TakeHyp(r)
    PROVE  LET b == Head(channel)
           IN  /\ StoreInv' /\ SyncCore' /\ channel # <<>> /\ channel' = Tail(channel)
               /\ pc[r] = "idle" /\ pc'[r] = "next" /\ batch[r] = <<>>
               /\ batch' = [batch EXCEPT ![r] = b] /\ batch'[r] = b
               /\ results'[r] = [i \in DOMAIN b |-> "pending"] /\ Todo(r)' = DOMAIN b
               /\ \A q \in Requests \ {r} : /\ pc'[q] = pc[q] /\ batch'[q] = batch[q]
                                            /\ results'[q] = results[q]
               /\ UNCHANGED <<wallets, vouchers, current, payerOf, main, dealt, currentSeq, sent,
                              totals, audited, finalTotal>>
<1>. USE DEF TakeHyp, SimInv
<1>. DEFINE b == Head(channel)
<1>1. channel # <<>> /\ StartBatch(r, b) /\ channel' = Tail(channel)
    BY DEF TakeBatch
<1>2. b \in DealtBatches /\ b \in Batches
    BY <1>1, ChannelHead
<1>3. \A i \in DOMAIN b : FirstResult(b[i]) = "pending"
    BY <1>2, BatchOfDeals, DealType DEF FirstResult
<1>. HIDE DEF b
<1>4. StoreInv' /\ SyncCore' /\ StepOf(r)
    BY <1>1, <1>2, StartBatchStep
<1>5. /\ batch' = [batch EXCEPT ![r] = b]
      /\ results' = [results EXCEPT ![r] = [i \in DOMAIN b |-> FirstResult(b[i])]]
      /\ pc[r] = "idle" /\ pc' = [pc EXCEPT ![r] = "next"]
      /\ UNCHANGED <<wallets, vouchers, current, payerOf>>
    BY <1>1 DEF StartBatch, At, Goto, tables
<1>6. [i \in DOMAIN b |-> FirstResult(b[i])] = [i \in DOMAIN b |-> "pending"]
    BY <1>3
<1>7. /\ batch'[r] = b /\ results'[r] = [i \in DOMAIN b |-> "pending"]
      /\ pc'[r] = "next"
      /\ \A q \in Requests \ {r} : batch'[q] = batch[q] /\ results'[q] = results[q]
    BY <1>5, <1>6 DEF SyncCore, SyncDataOK, StoreInv
<1>8. Todo(r)' = DOMAIN b
    BY <1>7 DEF Todo
<1>9. batch[r] = <<>>
    BY <1>5 DEF StagesOK
<1>10. UNCHANGED <<main, dealt, currentSeq, sent, totals, audited, finalTotal>>
    BY DEF TakeBatch, dealVars, auditVars
<1>. QED BY <1>1, <1>4, <1>5, <1>7, <1>8, <1>9, <1>10 DEF b, StepOf

LEMMA TakeTypes ==
    ASSUME NEW r \in Requests, TakeHyp(r)
    PROVE  SimTypeOK'
<1>. USE DEF TakeHyp, SimInv
<1>1. /\ channel # <<>> /\ channel' = Tail(channel) /\ batch'[r] = Head(channel)
      /\ \A q \in Requests \ {r} : batch'[q] = batch[q]
      /\ UNCHANGED <<main, dealt, currentSeq, sent, totals, audited, finalTotal>>
    BY TakeBasics
<1>2. channel' \in Seq(DealtBatches) /\ Head(channel) \in DealtBatches
    BY <1>1, ChannelTail, ChannelHead
<1>3. StoreTypeOK'
    BY TakeBasics DEF StoreInv
<1>4. pc' \in [Requests -> SyncLabels \cup {"gone"}]
    BY DEF TakeBatch, StartBatch, Goto, SimTypeOK, SyncLabels
<1>. QED BY <1>1, <1>2, <1>3, <1>4 DEF SimTypeOK

LEMMA TakeTaken ==
    ASSUME NEW r \in Requests, TakeHyp(r)
    PROVE  DealtOK' /\ ChannelOK' /\ TakenOK'
<1>. USE DEF TakeHyp, SimInv
<1>. DEFINE b == Head(channel)
<1>1. /\ channel # <<>> /\ channel' = Tail(channel) /\ batch'[r] = b /\ batch[r] = <<>>
      /\ batch' = [batch EXCEPT ![r] = b]
      /\ \A q \in Requests \ {r} : batch'[q] = batch[q]
      /\ UNCHANGED <<vouchers, dealt, currentSeq, sent, totals>>
    BY TakeBasics
<1>2. DealtOK' /\ ChannelOK' /\ Taken' = EndOf(Taken)
    BY <1>1, ChannelTail DEF DealtOK
<1>3. /\ Taken \in Nat /\ Taken' \in Nat /\ Taken < Taken' /\ Len(b) = Taken' - Taken
      /\ DOMAIN b = 1..Len(b) /\ \A i \in DOMAIN b : b[i] = dealt[Taken + i]
    BY <1>1, <1>2, ChannelHead
<1>. HIDE DEF b, Taken
<1>4. InWork \in Int /\ InWork' = Plus(InWork, Len(b))
    <2>1. \A q \in Requests : Len(batch[q]) \in Nat
        BY BatchLength
    <2>2. Len(b) \in Nat /\ Len(b) \in Int /\ Len(batch[r]) = 0
        <3>1. Len(<<>>) = 0
            OBVIOUS
        <3>2. PICK x \in Nat, y \in Nat : x = Taken' /\ y = Taken /\ Len(b) = x - y /\ y < x
            BY <1>3
        <3>3. y < x
            BY <3>2
        <3>4. x - y \in Nat
            BY ONLY <3>3, x \in Nat, y \in Nat
        <3>5. Len(b) \in Nat
            BY <3>2, <3>4
        <3>. QED BY ONLY <1>1, <3>1, <3>5
    <2>3. Len(b) = Plus(Len(batch[r]), Len(b))
        BY <2>2 DEF Plus
    <2>. QED BY <1>1, <2>1, <2>2, <2>3, InWorkChanges DEF SyncCore
<1>5. totals.reconciled + totals.duplicates + totals.rejected + InWork' = Taken'
    <2>1. /\ totals.reconciled \in Nat /\ totals.duplicates \in Nat /\ totals.rejected \in Nat
        BY DEF SimTypeOK
    <2>2. totals.reconciled + totals.duplicates + totals.rejected + InWork = Taken
        BY DEF TakenOK
    <2>3. PICK i \in Int, t \in Int, t1 \in Int, a \in Int :
             i = InWork /\ t = Taken /\ t1 = Taken' /\ Len(b) = t1 - t
             /\ a = totals.reconciled + totals.duplicates + totals.rejected /\ a + i = t
        <3>1. totals.reconciled + totals.duplicates + totals.rejected \in Int
            BY ONLY <2>1
        <3>2. Taken \in Int /\ Taken' \in Int /\ InWork \in Int /\ Len(b) = Taken' - Taken
            BY <1>3, <1>4
        <3>. HIDE DEF InWork
        <3>. QED BY ONLY <2>2, <3>1, <3>2
    <2>4. InWork' = i + (t1 - t)
        BY <1>4, <2>3 DEF Plus
    <2>5. a + i = t
        BY <2>3
    <2>6. a + (i + (t1 - t)) = t1
        BY ONLY <2>5, i \in Int, t \in Int, t1 \in Int, a \in Int
    <2>. QED BY <2>3, <2>4, <2>6
<1>6. ASSUME NEW q \in Requests, NEW i \in DOMAIN batch'[q]
      PROVE  \E m \in 1..Taken' : batch'[q][i] = dealt[m]
    <2>1. CASE q = r
        <3>1. i \in 1..Len(b) /\ batch'[q][i] = dealt[Taken + i]
            BY <1>1, <1>3, <1>6, <2>1
        <3>2. Taken + i \in 1..Taken'
            BY <1>3, <3>1
        <3>. QED BY <3>1, <3>2
    <2>2. CASE q # r
        <3>1. PICK m \in 1..Taken : batch[q][i] = dealt[m]
            BY <1>1, <1>6, <2>2 DEF TakenOK
        <3>2. m \in 1..Taken'
            BY <1>3
        <3>. QED BY <1>1, <2>2, <3>1, <3>2
    <2>. QED BY <2>1, <2>2
<1>7. ASSUME NEW k \in DOMAIN vouchers
      PROVE  \E m \in 1..Taken' :
                /\ vouchers[k].id = dealt[m].id /\ vouchers[k].seq = dealt[m].seq
                /\ vouchers[k].payer = DeviceUser[dealt[m].device]
    <2>1. PICK m \in 1..Taken :
                /\ vouchers[k].id = dealt[m].id /\ vouchers[k].seq = dealt[m].seq
                /\ vouchers[k].payer = DeviceUser[dealt[m].device]
        BY DEF TakenOK
    <2>2. m \in 1..Taken'
        BY <1>3
    <2>. QED BY <2>1, <2>2
<1>. QED BY <1>1, <1>2, <1>5, <1>6, <1>7 DEF TakenOK

LEMMA TakeBatches ==
    ASSUME NEW r \in Requests, TakeHyp(r)
    PROVE  BatchesOK'
<1>. USE DEF TakeHyp, SimInv
<1>. DEFINE b == Head(channel)
<1>1. /\ channel # <<>> /\ batch'[r] = b /\ pc'[r] = "next" /\ Todo(r)' = DOMAIN b
      /\ \A q \in Requests \ {r} : /\ pc'[q] = pc[q] /\ batch'[q] = batch[q]
                                   /\ results'[q] = results[q]
      /\ UNCHANGED <<vouchers, current>>
    BY TakeBasics
<1>2. /\ Taken \in Nat /\ DOMAIN b = 1..Len(b) /\ Len(b) \in Nat
      /\ \A i \in DOMAIN b : Taken + i \in DOMAIN dealt /\ b[i] = dealt[Taken + i]
    <2>1. Len(b) \in 1..BatchSize
        BY <1>1, ChannelHead, BatchOfDeals
    <2>. QED BY <1>1, <2>1, ChannelHead, SimAssumption
<1>. HIDE DEF b, Taken
<1>3. ASSUME NEW i \in DOMAIN b, NEW m \in DOMAIN dealt, m <= Taken
      PROVE  dealt[m].id # b[i].id
    <2>1. Taken + i \in DOMAIN dealt /\ b[i] = dealt[Taken + i]
        BY <1>2
    <2>2. m \in Nat /\ i >= 1 /\ i \in Nat
        BY <1>2, DealtType DEF SimTypeOK
    <2>3. m # Taken + i
        BY <1>2, <1>3, <2>2
    <2>. QED BY <2>1, <2>3, DealtDiffer
<1>4. ASSUME NEW i \in DOMAIN b, NEW q \in Requests \ {r}, NEW j \in DOMAIN batch[q]
      PROVE  batch[q][j].id # b[i].id
    BY <1>3, OriginOfBatch
<1>5. ASSUME NEW i \in DOMAIN b, NEW j \in DOMAIN b, b[i].id = b[j].id
      PROVE  i = j
    <2>1. /\ Taken + i \in DOMAIN dealt /\ b[i] = dealt[Taken + i]
          /\ Taken + j \in DOMAIN dealt /\ b[j] = dealt[Taken + j]
        BY <1>2
    <2>2. Taken + i = Taken + j
        BY <1>5, <2>1, DealtDiffer
    <2>. QED BY <1>2, <2>2
<1>6. ASSUME NEW p \in Requests, NEW q \in Requests,
             NEW i \in DOMAIN batch'[p], NEW j \in DOMAIN batch'[q],
             batch'[p][i].id = batch'[q][j].id
      PROVE  p = q /\ i = j
    <2>1. CASE p = r /\ q = r
        BY <1>1, <1>5, <1>6, <2>1
    <2>2. CASE p = r /\ q # r
        BY <1>1, <1>4, <1>6, <2>2
    <2>3. CASE p # r /\ q = r
        BY <1>1, <1>4, <1>6, <2>3
    <2>4. CASE p # r /\ q # r
        BY <1>1, <1>6, <2>4 DEF BatchesOK
    <2>. QED BY <2>1, <2>2, <2>3, <2>4
<1>7. ASSUME NEW k \in DOMAIN vouchers, NEW q \in Requests, NEW i \in Todo(q)'
      PROVE  vouchers[k].id # batch'[q][i].id
    <2>1. CASE q = r
        <3>1. PICK m \in DOMAIN dealt : m <= Taken /\ vouchers[k].id = dealt[m].id
            BY OriginOfSettled
        <3>. QED BY <1>1, <1>3, <1>7, <2>1, <3>1
    <2>2. CASE q # r
        <3>1. i \in Todo(q)
            BY <1>1, <1>7, <2>2 DEF Todo
        <3>. QED BY <1>1, <2>2, <3>1 DEF BatchesOK
    <2>. QED BY <2>1, <2>2
<1>8. ASSUME NEW q \in Requests PROVE AscendingOK(q)'
    <2>1. CASE q = r
        BY <1>1, <2>1 DEF AscendingOK, InVoucher
    <2>2. CASE q # r
        <3>1. UNCHANGED <<Todo(q), InVoucher(q), The(q), batch[q]>>
            BY <1>1, <2>2 DEF Todo, InVoucher, The
        <3>. QED BY <3>1 DEF AscendingOK, BatchesOK
    <2>. QED BY <2>1, <2>2
<1>. QED BY <1>1, <1>6, <1>7, <1>8 DEF BatchesOK

LEMMA TakeStep ==
    ASSUME NEW r \in Requests, TakeHyp(r)
    PROVE  SimInv'
<1>. USE DEF TakeHyp, SimInv
<1>1. /\ StoreInv' /\ SyncCore' /\ channel # <<>>
      /\ pc[r] = "idle" /\ pc'[r] = "next"
      /\ results'[r] = [i \in DOMAIN Head(channel) |-> "pending"]
      /\ \A q \in Requests \ {r} : /\ pc'[q] = pc[q] /\ batch'[q] = batch[q]
                                   /\ results'[q] = results[q]
      /\ UNCHANGED <<wallets, vouchers, current, main, dealt, sent, audited, finalTotal>>
    BY TakeBasics
<1>2. NumbersAreSettled' /\ AuditPasses' /\ TotalOf(wallets') = ExpectedTotal'
    BY <1>1 DEF NumbersAreSettled, AuditPasses, ExpectedTotal, TotalOf
<1>3. RefusedWasOvertaken'
    <2>1. SUFFICES ASSUME NEW q \in Requests, NEW i \in DOMAIN results'[q],
                          results'[q][i] = "dup_seq"
                   PROVE  \E k \in DOMAIN vouchers : OvertakenBy(q, i, k)'
        BY <1>1 DEF RefusedWasOvertaken, OvertakenBy
    <2>2. q # r
        BY <1>1, <2>1
    <2>3. PICK k \in DOMAIN vouchers : OvertakenBy(q, i, k)
        BY <1>1, <2>1, <2>2 DEF RefusedWasOvertaken, OvertakenBy
    <2>4. OvertakenBy(q, i, k)'
        BY <1>1, <2>2, <2>3 DEF OvertakenBy
    <2>. QED BY <2>4
<1>4. StagesOK'
    <2>1. main = "wait"
        <3>1. main # "deal"
            BY DEF TakeBatch
        <3>2. main \in {"deal", "wait"}
            BY <1>1 DEF StagesOK, AllGone, At
        <3>. QED BY <3>1, <3>2
    <2>2. \A q \in Requests \ {r} : Todo(q)' = Todo(q) /\ pc[q] # "gone"
        BY <1>1 DEF Todo, StagesOK
    <2>3. \A q \in Requests :
             /\ pc'[q] \in {"idle", "gone"} => batch'[q] = <<>>
             /\ pc'[q] = "done" => Todo(q)' = {} /\ current'[q] = 0
             /\ pc'[q] # "gone"
        BY <1>1, <2>2 DEF StagesOK
    <2>. QED BY <1>1, <2>1, <2>3 DEF StagesOK
<1>. QED BY <1>1, <1>2, <1>3, <1>4, TakeTypes, TakeTaken, TakeBatches DEF TotalOf

-----------------------------------------------------------------------------
(* A worker counts its batch, and leaves.                                  *)

\* Each voucher of a batch is in one of the three totals.
LEMMA EachCountedOnce ==
    ASSUME SyncDataOK, NEW r \in Requests, Todo(r) = {}, NEW n \in Nat,
           DOMAIN batch[r] = 1..n
    PROVE  /\ CountOf(r, {"reconciled"}) \in Nat
           /\ CountOf(r, {"dup_nonce", "dup_voucher", "dup_seq"}) \in Nat
           /\ CountOf(r, {"bad_signature", "no_funds", "rejected"}) \in Nat
           /\ CountOf(r, {"reconciled"}) + CountOf(r, {"dup_nonce", "dup_voucher", "dup_seq"})
                + CountOf(r, {"bad_signature", "no_funds", "rejected"}) = n
<1>. DEFINE Kind(kinds) == {i \in DOMAIN results[r] : results[r][i] \in kinds}
<1>1. PICK A : A = Kind({"reconciled"})
    OBVIOUS
<1>2. PICK B : B = Kind({"dup_nonce", "dup_voucher", "dup_seq"})
    OBVIOUS
<1>3. PICK C : C = Kind({"bad_signature", "no_funds", "rejected"})
    OBVIOUS
<1>4. DOMAIN results[r] = 1..n
    BY DEF SyncDataOK
<1>5. \A i \in 1..n : results[r][i] \in SyncResults \ {"pending"}
    <2>1. results[r] \in Seq(SyncResults)
        BY DEF SyncDataOK
    <2>2. \A i \in 1..n : results[r][i] \in SyncResults
        <3>. HIDE DEF SyncResults
        <3>. QED BY <1>4, <2>1
    <2>. QED BY <2>2 DEF Todo
<1>6. A \cup B \cup C = 1..n
    BY <1>1, <1>2, <1>3, <1>4, <1>5 DEF SyncResults
<1>7. A \cap B = {} /\ (A \cup B) \cap C = {}
    BY <1>1, <1>2, <1>3
<1>8. IsFiniteSet(1..n) /\ Cardinality(1..n) = n
    BY FS_Interval
<1>. HIDE DEF Kind
<1>9. IsFiniteSet(A) /\ IsFiniteSet(B) /\ IsFiniteSet(C) /\ IsFiniteSet(A \cup B)
    BY <1>6, <1>8, FS_Subset
<1>10. Cardinality(A) \in Nat /\ Cardinality(B) \in Nat /\ Cardinality(C) \in Nat
    BY <1>9, FS_CardinalityType
<1>11. Cardinality(A \cup B) = Cardinality(A) + Cardinality(B) - Cardinality({})
    BY <1>7, <1>9, FS_Union
<1>12. Cardinality(1..n) = Cardinality(A \cup B) + Cardinality(C) - Cardinality({})
    <2>1. Cardinality((A \cup B) \cup C)
            = Cardinality(A \cup B) + Cardinality(C) - Cardinality((A \cup B) \cap C)
        BY ONLY <1>9, FS_Union
    <2>. QED BY <1>6, <1>7, <2>1
<1>13. Cardinality({}) = 0
    BY FS_EmptySet
<1>14. Cardinality(A) + Cardinality(B) + Cardinality(C) = n
    BY <1>8, <1>10, <1>11, <1>12, <1>13
<1>. QED BY <1>1, <1>2, <1>3, <1>10, <1>14 DEF CountOf, Kind

CountHyp(r) == SimInv /\ CountBatch(r)

LEMMA CountBasics ==
    ASSUME NEW r \in Requests, CountHyp(r)
    PROVE  /\ pc[r] = "done" /\ pc'[r] = "idle" /\ main = "wait" /\ Todo(r) = {}
           /\ batch' = [batch EXCEPT ![r] = <<>>] /\ batch'[r] = <<>> /\ results'[r] = <<>>
           /\ \A q \in Requests \ {r} : /\ pc'[q] = pc[q] /\ batch'[q] = batch[q]
                                        /\ results'[q] = results[q]
           /\ UNCHANGED <<tables, sessions, devices, vouchers, nonces, current, payerOf, main,
                          dealt, currentSeq, sent, channel, audited, finalTotal>>
           /\ StoreInv' /\ SyncCore'
<1>. USE DEF CountHyp, SimInv
<1>1. /\ pc[r] = "done" /\ pc' = [pc EXCEPT ![r] = "idle"]
      /\ batch' = [batch EXCEPT ![r] = <<>>] /\ results' = [results EXCEPT ![r] = <<>>]
      /\ UNCHANGED <<tables, sessions, devices, vouchers, nonces, current, payerOf, main,
                     dealt, currentSeq, sent, channel, audited, finalTotal>>
    BY DEF CountBatch, At, Goto, dealVars, sendVars, auditVars
<1>2. /\ pc'[r] = "idle" /\ batch'[r] = <<>> /\ results'[r] = <<>>
      /\ \A q \in Requests \ {r} : /\ pc'[q] = pc[q] /\ batch'[q] = batch[q]
                                   /\ results'[q] = results[q]
    BY <1>1 DEF SyncCore, SyncDataOK, StoreInv
<1>3. Todo(r) = {} /\ current[r] = 0 /\ main = "wait"
    <2>1. main # "deal" /\ main \in {"deal", "wait"}
        BY <1>1 DEF StagesOK, AllGone, At
    <2>. QED BY <1>1, <2>1 DEF StagesOK
<1>4. StoreInv' /\ StepOf(r)
    <2>1. Goto(r, "idle") /\ conns' \in SUBSET Requests
        BY <1>1 DEF CountBatch, sessions, StoreInv, StoreTypeOK
    <2>. QED BY <1>1, <2>1, MoveStoreStep DEF sessions
<1>5. SyncDataOK'
    <2>1. <<>> \in Seq(SyncResults)
        OBVIOUS
    <2>2. results' \in [Requests -> Seq(SyncResults)] /\ batch' \in [Requests -> Batches \cup {<<>>}]
        BY <1>1, <2>1 DEF SyncCore, SyncDataOK
    <2>3. ASSUME NEW q \in Requests
          PROVE  DOMAIN results'[q] = DOMAIN batch'[q] /\ current'[q] \in DOMAIN batch'[q] \cup {0}
        BY <1>1, <1>2, <1>3 DEF SyncCore, SyncDataOK
    <2>. QED BY <1>1, <2>2, <2>3 DEF SyncCore, SyncDataOK
<1>6. SyncStageOK(r)'
    BY <1>1, <1>2, <1>3 DEF SyncStageOK, InVoucher
<1>7. SyncCore'
    <2>1. \A i \in DOMAIN results'[r] : results'[r][i] = "reconciled" =>
              /\ i \in DOMAIN results[r] /\ results[r][i] = "reconciled"
              /\ batch'[r] = batch[r]
        BY <1>2
    <2>2. \A q \in Requests \ {r} :
              /\ batch'[q] = batch[q] /\ results'[q] = results[q]
              /\ current'[q] = current[q] /\ payerOf'[q] = payerOf[q]
        BY <1>1, <1>2
    <2>. QED BY <1>1, <1>4, <1>5, <1>6, <2>1, <2>2, OwnStep DEF tables
<1>. QED BY <1>1, <1>2, <1>3, <1>4, <1>7

LEMMA CountTaken ==
    ASSUME NEW r \in Requests, CountHyp(r)
    PROVE  /\ DealtOK' /\ ChannelOK' /\ TakenOK'
           /\ totals' \in [reconciled : Nat, duplicates : Nat, rejected : Nat]
<1>. USE DEF CountHyp, SimInv
<1>1. /\ Todo(r) = {} /\ batch' = [batch EXCEPT ![r] = <<>>] /\ batch'[r] = <<>>
      /\ \A q \in Requests \ {r} : batch'[q] = batch[q]
      /\ UNCHANGED <<vouchers, dealt, currentSeq, sent, channel>>
    BY CountBasics
<1>2. DealtOK' /\ ChannelOK' /\ Taken' = Taken
    BY <1>1 DEF DealtOK, ChannelOK, StartOf, EndOf, Taken
<1>3. PICK n \in Nat : n = Len(batch[r]) /\ DOMAIN batch[r] = 1..n
    BY BatchLength
<1>4. PICK x \in Nat, y \in Nat, z \in Nat :
         /\ x = CountOf(r, {"reconciled"})
         /\ y = CountOf(r, {"dup_nonce", "dup_voucher", "dup_seq"})
         /\ z = CountOf(r, {"bad_signature", "no_funds", "rejected"})
         /\ x + y + z = n
    BY <1>1, <1>3, EachCountedOnce DEF SyncCore
<1>5. /\ totals'.reconciled = totals.reconciled + x
      /\ totals'.duplicates = totals.duplicates + y
      /\ totals'.rejected = totals.rejected + z
      /\ totals' \in [reconciled : Nat, duplicates : Nat, rejected : Nat]
      /\ totals.reconciled \in Nat /\ totals.duplicates \in Nat /\ totals.rejected \in Nat
    <2>1. totals' = [reconciled |-> totals.reconciled + x, duplicates |-> totals.duplicates + y,
                     rejected |-> totals.rejected + z]
        BY <1>4 DEF CountBatch
    <2>2. totals \in [reconciled : Nat, duplicates : Nat, rejected : Nat]
        BY DEF SimTypeOK
    <2>. QED BY ONLY <2>1, <2>2, x \in Nat, y \in Nat, z \in Nat
<1>6. InWork \in Int /\ InWork' = Plus(InWork, -n)
    <2>1. \A q \in Requests : Len(batch[q]) \in Nat
        BY BatchLength
    <2>2. Len(<<>>) = 0
        OBVIOUS
    <2>3. Len(<<>>) \in Nat /\ Len(<<>>) = Plus(Len(batch[r]), -n) /\ -n \in Int
        BY <1>3, <2>2 DEF Plus
    <2>. QED BY <1>1, <2>1, <2>3, InWorkChanges DEF SyncCore
<1>7. totals'.reconciled + totals'.duplicates + totals'.rejected + InWork' = Taken'
    <2>1. totals.reconciled + totals.duplicates + totals.rejected + InWork = Taken
        BY DEF TakenOK
    <2>. HIDE DEF InWork, Taken
    <2>2. PICK i \in Int, t \in Int, a \in Nat, d \in Nat, j \in Nat :
             /\ i = InWork /\ t = Taken /\ a = totals.reconciled /\ d = totals.duplicates
             /\ j = totals.rejected
        BY <1>2, <1>5, <1>6, TakenDealt
    <2>3. /\ totals'.reconciled = a + x /\ totals'.duplicates = d + y
          /\ totals'.rejected = j + z /\ InWork' = i + -n /\ a + d + j + i = t
        BY <1>5, <1>6, <2>1, <2>2 DEF Plus
    <2>4. (a + x) + (d + y) + (j + z) + (i + -n) = t
        BY ONLY <1>4, <2>3, a \in Nat, d \in Nat, j \in Nat, i \in Int, n \in Nat,
                x \in Nat, y \in Nat, z \in Nat, t \in Int
    <2>. QED BY <1>2, <2>2, <2>3, <2>4
<1>8. ASSUME NEW q \in Requests, NEW i \in DOMAIN batch'[q]
      PROVE  q # r /\ batch'[q] = batch[q]
    BY <1>1, <1>8
<1>9. \A q \in Requests : \A i \in DOMAIN batch'[q] : \E m \in 1..Taken : batch'[q][i] = dealt[m]
    BY <1>8 DEF TakenOK
<1>. HIDE DEF Taken
<1>10. TakenOK'
    BY <1>1, <1>2, <1>7, <1>9 DEF TakenOK
<1>. QED BY <1>2, <1>5, <1>10

LEMMA CountStep ==
    ASSUME NEW r \in Requests, CountHyp(r)
    PROVE  SimInv'
<1>. USE DEF CountHyp, SimInv
<1>1. /\ pc[r] = "done" /\ pc'[r] = "idle" /\ main = "wait" /\ Todo(r) = {}
      /\ batch'[r] = <<>> /\ results'[r] = <<>>
      /\ \A q \in Requests \ {r} : /\ pc'[q] = pc[q] /\ batch'[q] = batch[q]
                                   /\ results'[q] = results[q]
      /\ UNCHANGED <<wallets, vouchers, current, main, dealt, currentSeq, sent, channel,
                     audited, finalTotal>>
      /\ StoreInv' /\ SyncCore'
    BY CountBasics DEF tables
<1>2. SimTypeOK'
    <2>1. pc' \in [Requests -> SyncLabels \cup {"gone"}]
        BY DEF CountBatch, Goto, SimTypeOK, SyncLabels
    <2>. QED BY <1>1, <2>1, CountTaken DEF SimTypeOK, StoreInv
<1>3. NumbersAreSettled' /\ AuditPasses' /\ TotalOf(wallets') = ExpectedTotal'
    BY <1>1 DEF NumbersAreSettled, AuditPasses, ExpectedTotal, TotalOf
<1>4. RefusedWasOvertaken'
    <2>1. SUFFICES ASSUME NEW q \in Requests, NEW i \in DOMAIN results'[q],
                          results'[q][i] = "dup_seq"
                   PROVE  \E k \in DOMAIN vouchers : OvertakenBy(q, i, k)'
        BY <1>1 DEF RefusedWasOvertaken, OvertakenBy
    <2>2. q # r
        BY <1>1, <2>1
    <2>3. PICK k \in DOMAIN vouchers : OvertakenBy(q, i, k)
        BY <1>1, <2>1, <2>2 DEF RefusedWasOvertaken, OvertakenBy
    <2>4. OvertakenBy(q, i, k)'
        BY <1>1, <2>2, <2>3 DEF OvertakenBy
    <2>. QED BY <2>4
<1>5. \A q \in Requests \ {r} : Todo(q)' = Todo(q) /\ InVoucher(q)' = InVoucher(q) /\ The(q)' = The(q)
    BY <1>1 DEF Todo, InVoucher, The
<1>6. Todo(r)' = {} /\ ~InVoucher(r)'
    BY <1>1 DEF Todo, InVoucher
<1>7. BatchesOK'
    <2>1. ASSUME NEW q \in Requests PROVE AscendingOK(q)'
        BY <1>1, <1>5, <1>6 DEF AscendingOK, BatchesOK
    <2>2. ASSUME NEW q \in Requests, NEW p \in Requests,
                 NEW i \in DOMAIN batch'[q], NEW j \in DOMAIN batch'[p],
                 batch'[q][i].id = batch'[p][j].id
          PROVE  q = p /\ i = j
        <3>1. q # r /\ p # r
            BY <1>1, <2>2
        <3>. QED BY <1>1, <2>2, <3>1 DEF BatchesOK
    <2>3. ASSUME NEW k \in DOMAIN vouchers, NEW q \in Requests, NEW i \in Todo(q)'
          PROVE  vouchers[k].id # batch'[q][i].id
        <3>1. q # r /\ i \in Todo(q)
            BY <1>5, <1>6, <2>3
        <3>. QED BY <1>1, <3>1 DEF BatchesOK
    <2>. QED BY <1>1, <2>1, <2>2, <2>3 DEF BatchesOK
<1>8. StagesOK'
    <2>1. \A q \in Requests :
             /\ pc'[q] \in {"idle", "gone"} => batch'[q] = <<>>
             /\ pc'[q] = "done" => Todo(q)' = {} /\ current'[q] = 0
             /\ pc'[q] = "gone" => channel' = <<>>
        BY <1>1, <1>5 DEF StagesOK
    <2>. QED BY <1>1, <2>1 DEF StagesOK
<1>. QED BY <1>1, <1>2, <1>3, <1>4, <1>7, <1>8, CountTaken DEF TotalOf

LEMMA LeaveStep ==
    ASSUME SimInv, NEW r \in Requests, LeaveWorker(r)
    PROVE  SimInv'
<1>. USE DEF SimInv
<1>1. /\ pc[r] = "idle" /\ pc' = [pc EXCEPT ![r] = "gone"] /\ main # "deal" /\ channel = <<>>
      /\ UNCHANGED <<wallets, rowLock, devices, vouchers, nonces, batch, results, current, payerOf,
                     main, dealt, currentSeq, sent, channel, totals, audited, finalTotal>>
    BY DEF LeaveWorker, At, Goto, tables, sessions, syncVars, mainVars, dealVars, sendVars, auditVars
<1>2. pc'[r] = "gone" /\ \A q \in Requests \ {r} : pc'[q] = pc[q]
    BY <1>1 DEF StoreInv
<1>3. StoreInv'
    <2>1. Goto(r, "gone") /\ conns' \in SUBSET Requests /\ UNCHANGED <<tables, rowLock, seen>>
        BY DEF LeaveWorker, sessions, StoreInv, StoreTypeOK
    <2>. QED BY <2>1, MoveStoreStep
<1>4. SyncCore'
    <2>1. nonces' \in [Instances -> SUBSET Nonces]
        BY <1>1 DEF SyncCore, SyncDataOK
    <2>2. \A q \in Requests :
             \/ pc'[q] \notin SyncLabels \ {"done"}
             \/ pc'[q] = pc[q] /\ \A u \in Users : rowLock[u] = q => rowLock'[u] = q
        BY <1>1, <1>2 DEF SyncLabels
    <2>. QED BY <1>1, <2>1, <2>2, SyncUntouched
<1>5. SimTypeOK'
    <2>1. pc' \in [Requests -> SyncLabels \cup {"gone"}]
        BY <1>1 DEF SimTypeOK
    <2>. QED BY <1>1, <1>3, <2>1 DEF SimTypeOK, StoreInv
<1>6. DealtOK' /\ ChannelOK' /\ TakenOK'
    BY <1>1 DEF DealtOK, ChannelOK, TakenOK, StartOf, EndOf, Taken, InWork
<1>7. NumbersAreSettled' /\ AuditPasses' /\ TotalOf(wallets') = ExpectedTotal'
    BY <1>1 DEF NumbersAreSettled, AuditPasses, ExpectedTotal, TotalOf
<1>8. RefusedWasOvertaken'
    BY <1>1 DEF RefusedWasOvertaken
<1>9. BatchesOK'
    <2>1. \A q \in Requests : Todo(q)' = Todo(q) /\ The(q)' = The(q) /\ (InVoucher(q)' => InVoucher(q))
        BY <1>1, <1>2 DEF Todo, The, InVoucher
    <2>2. \A q \in Requests : AscendingOK(q)'
        BY <1>1, <2>1 DEF AscendingOK, BatchesOK
    <2>. QED BY <1>1, <2>1, <2>2 DEF BatchesOK
<1>10. StagesOK'
    <2>1. main = "wait"
        BY <1>1 DEF StagesOK, AllGone, At, SimTypeOK
    <2>2. \A q \in Requests : Todo(q)' = Todo(q)
        BY <1>1 DEF Todo
    <2>. QED BY <1>1, <1>2, <2>1, <2>2 DEF StagesOK
<1>. QED BY <1>3, <1>4, <1>5, <1>6, <1>7, <1>8, <1>9, <1>10

-----------------------------------------------------------------------------
(* Main waits and audits.                                                  *)

\* A step of main that the workers do not notice.
LEMMA MainStepKeeps ==
    ASSUME SimInv, UNCHANGED workerVars
    PROVE  /\ StoreInv' /\ SyncCore' /\ BatchesOK' /\ NumbersAreSettled'
           /\ TotalOf(wallets') = ExpectedTotal' /\ RefusedWasOvertaken'
<1>. USE DEF SimInv
<1>1. /\ UNCHANGED storeVars /\ UNCHANGED <<wallets, rowLock, pc>>
      /\ UNCHANGED <<devices, vouchers, nonces, batch, results, current, payerOf>>
    BY DEF workerVars, storeVars, syncVars
<1>2. StoreInv'
    BY <1>1, StoreSame
<1>3. SyncCore'
    <2>1. nonces' \in [Instances -> SUBSET Nonces]
        BY <1>1 DEF SyncCore, SyncDataOK
    <2>. QED BY <1>1, <2>1, SyncUntouched
<1>4. NumbersAreSettled' /\ TotalOf(wallets') = ExpectedTotal'
    BY <1>1 DEF NumbersAreSettled, ExpectedTotal, TotalOf
<1>5. RefusedWasOvertaken'
    BY <1>1 DEF RefusedWasOvertaken
<1>6. BatchesOK'
    BY <1>1 DEF BatchesOK, AscendingOK, Todo, The, InVoucher
<1>. QED BY <1>2, <1>3, <1>4, <1>5, <1>6

\* A step of main that only moves main on, or reads a wallet.
LEMMA QuietStepSim ==
    ASSUME SimInv, UNCHANGED <<workerVars, dealVars, sendVars, totals>>,
           main' \in {"deal", "wait", "audit"} \cup Ended,
           audited' \subseteq Users, finalTotal' \in Nat, StagesOK', AuditPasses'
    PROVE  SimInv'
<1>. USE DEF SimInv
<1>1. UNCHANGED <<vouchers, batch, pc, dealt, currentSeq, sent, channel, totals>>
    BY DEF workerVars, dealVars, sendVars, storeVars, syncVars
<1>2. SimTypeOK'
    BY <1>1, MainStepKeeps DEF SimTypeOK, StoreInv
<1>3. DealtOK' /\ ChannelOK' /\ TakenOK'
    BY <1>1 DEF DealtOK, ChannelOK, TakenOK, StartOf, EndOf, Taken, InWork
<1>. QED BY <1>2, <1>3, MainStepKeeps

\* The stages after a step of main that leaves the workers alone.
WorkersStand ==
    UNCHANGED <<workerVars, dealVars, sendVars, totals>>

LEMMA StandingStages ==
    ASSUME WorkersStand
    PROVE  /\ UNCHANGED <<pc, batch, results, current, channel, sent, dealt, wallets>>
           /\ \A r \in Requests : Todo(r)' = Todo(r) /\ At(r, "gone")' = At(r, "gone")
                                                     /\ At(r, "idle")' = At(r, "idle")
           /\ AllGone' = AllGone
BY DEF WorkersStand, workerVars, dealVars, sendVars, storeVars, syncVars, Todo, At, AllGone

LEMMA StartStep ==
    ASSUME SimInv, StartWorkers
    PROVE  SimInv'
<1>. USE DEF SimInv
<1>1. /\ main = "deal" /\ main' = "wait" /\ Len(dealt) = NumTxs /\ sent >= NumTxs
      /\ WorkersStand /\ UNCHANGED auditVars
    <2>1. sent \in Nat /\ NumTxs \in Nat
        BY DealtLength
    <2>. QED BY <2>1 DEF StartWorkers, WorkersStand, MoreToSend
<1>2. audited' \subseteq Users /\ finalTotal' \in Nat
    BY <1>1 DEF auditVars, SimTypeOK
<1>3. StagesOK'
    BY <1>1, StandingStages DEF StagesOK, auditVars
<1>4. AuditPasses'
    BY <1>1 DEF AuditPasses
<1>. QED BY <1>1, <1>2, <1>3, <1>4, QuietStepSim DEF WorkersStand

LEMMA AwaitStep ==
    ASSUME SimInv, AwaitWorkers
    PROVE  SimInv'
<1>. USE DEF SimInv
<1>1. /\ main = "wait" /\ main' = "audit" /\ AllGone
      /\ WorkersStand /\ UNCHANGED auditVars
    BY DEF AwaitWorkers, WorkersStand
<1>2. audited' \subseteq Users /\ finalTotal' \in Nat
    BY <1>1 DEF auditVars, SimTypeOK
<1>3. StagesOK'
    BY <1>1, StandingStages DEF StagesOK, auditVars
<1>4. AuditPasses'
    BY <1>1 DEF AuditPasses
<1>. QED BY <1>1, <1>2, <1>3, <1>4, QuietStepSim DEF WorkersStand

LEMMA FailAuditStep ==
    ASSUME SimInv, FailAudit
    PROVE  SimInv'
<1>. USE DEF SimInv
<1>1. /\ main = "audit" /\ main' = "failed"
      /\ WorkersStand /\ UNCHANGED auditVars
    BY DEF FailAudit, WorkersStand
<1>2. audited' \subseteq Users /\ finalTotal' \in Nat
    BY <1>1 DEF auditVars, SimTypeOK
<1>3. StagesOK'
    BY <1>1, StandingStages DEF StagesOK, auditVars
<1>4. AuditPasses'
    BY <1>1 DEF AuditPasses
<1>. QED BY <1>1, <1>2, <1>3, <1>4, QuietStepSim DEF WorkersStand, Ended

\* One wallet more is read, and nobody writes it any more.
LEMMA AuditWalletStep ==
    ASSUME SimInv, AuditWallet
    PROVE  SimInv'
<1>. USE DEF SimInv
<1>1. main = "audit" /\ main' = main /\ WorkersStand
    BY DEF AuditWallet, WorkersStand
<1>2. PICK u \in Users \ audited : /\ finalTotal' = finalTotal + wallets[u].balance
                                   /\ audited' = audited \cup {u}
    BY DEF AuditWallet
<1>3. audited \subseteq Users /\ finalTotal \in Nat
    BY DEF SimTypeOK
<1>4. \A w \in Users : wallets[w].balance \in Nat
    <2>1. \A w \in Users : wallets[w] \in Row /\ Covered(wallets[w])
        BY DEF StoreInv, StoreTypeOK, EscrowCovered
    <2>. QED BY <2>1, StoreAssumption DEF Row, Int64, Covered
<1>5. audited' \subseteq Users /\ finalTotal' \in Nat
    BY <1>2, <1>3, <1>4
<1>6. PICK f : f = [w \in audited' |-> wallets[w].balance]
    OBVIOUS
<1>7. PICK g : g = [w \in audited |-> wallets[w].balance]
    OBVIOUS
<1>8. /\ u \in audited' /\ audited' \ {u} = audited
      /\ f \in [audited' -> Int] /\ g \in [audited' \ {u} -> Int]
      /\ \A w \in audited' \ {u} : g[w] = f[w]
    BY <1>2, <1>4, <1>5, <1>6, <1>7
<1>9. SumFunction(f) = Plus(f[u], SumFunction(g))
    <2>1. IsFiniteSet(audited')
        BY <1>5, FS_Subset, StoreAssumption
    <2>2. PICK A : A = audited'
        OBVIOUS
    <2>. QED BY ONLY <1>8, <2>1, <2>2, SumNew
<1>10. finalTotal = SumFunction(g)
    BY <1>7 DEF StagesOK
<1>11. finalTotal' = SumFunction(f)
    BY <1>2, <1>3, <1>4, <1>6, <1>8, <1>9, <1>10 DEF Plus
<1>12. StagesOK'
    <2>1. finalTotal' = SumFunction([w \in audited' |-> wallets'[w].balance])
        BY <1>1, <1>6, <1>11, StandingStages
    <2>. QED BY <1>1, <2>1, StandingStages DEF StagesOK
<1>. QED BY <1>1, <1>5, <1>12, QuietStepSim DEF WorkersStand, AuditPasses

\* All wallets have been read, and together they are what they were.
LEMMA VerdictStep ==
    ASSUME SimInv, Verdict
    PROVE  SimInv'
<1>. USE DEF SimInv
<1>1. /\ main = "audit" /\ audited = Users /\ WorkersStand /\ UNCHANGED auditVars
      /\ main' = IF finalTotal = ExpectedTotal THEN "passed" ELSE "drift"
    BY DEF Verdict, WorkersStand
<1>2. finalTotal = ExpectedTotal
    BY <1>1 DEF StagesOK, TotalOf
<1>3. main' = "passed"
    BY <1>1, <1>2
<1>4. audited' \subseteq Users /\ finalTotal' \in Nat
    BY <1>1 DEF auditVars, SimTypeOK
<1>5. StagesOK'
    BY <1>1, <1>3, StandingStages DEF StagesOK, auditVars
<1>6. AuditPasses'
    BY <1>3 DEF AuditPasses
<1>. QED BY <1>1, <1>3, <1>4, <1>5, <1>6, QuietStepSim DEF WorkersStand, Ended

-----------------------------------------------------------------------------
(* Main deals and sends.                                                   *)

\* Until all vouchers are dealt, nothing is sent, taken or settled.
LEMMA NothingTaken ==
    ASSUME SimInv, Len(dealt) < NumTxs
    PROVE  /\ sent = 0 /\ channel = <<>> /\ Len(channel) = 0 /\ StartOf(1) = 0 /\ Taken = 0
           /\ \A r \in Requests : DOMAIN batch[r] = {}
           /\ DOMAIN vouchers = {}
<1>. USE DEF SimInv
<1>1. sent = 0 /\ channel = <<>>
    BY DEF ChannelOK
<1>2. Len(channel) = 0
    <2>1. Len(<<>>) = 0
        OBVIOUS
    <2>. QED BY <1>1, <2>1
<1>3. StartOf(1) = 0 /\ Taken = 0
    <2>1. BatchSize \in Nat /\ NumTxs \in Nat
        BY DealtLength
    <2>2. StartOf(1) = 0
        BY <1>1, <1>2, <2>1 DEF StartOf
    <2>. QED BY <2>1, <2>2 DEF Taken
<1>4. 1..Taken = {}
    BY <1>3
<1>. HIDE DEF Taken
<1>. QED BY <1>1, <1>2, <1>3, <1>4 DEF TakenOK

\* The next voucher has the next id, and the next number of its payer.
LEMMA DealEffect ==
    ASSUME SimInv, DealVoucher
    PROVE  \E v \in Deals, u \in Users, n \in Nat :
              /\ n = Len(dealt) /\ n < NumTxs /\ DOMAIN dealt = 1..n
              /\ v.id = Ids[n + 1] /\ DeviceUser[v.device] = u /\ v.payee # u
              /\ currentSeq[u] \in Nat /\ currentSeq[u] <= n /\ v.seq = currentSeq[u] + 1
              /\ currentSeq' = [currentSeq EXCEPT ![u] = currentSeq[u] + 1]
              /\ dealt' = Append(dealt, v)
<1>. USE DEF SimInv
<1>1. PICK d \in Draws :
         /\ d.payer # d.payee
         /\ currentSeq' = [currentSeq EXCEPT ![d.payer] = @ + 1]
         /\ dealt' = Append(dealt, SignedVoucher(d, Len(dealt) + 1, currentSeq'[d.payer]))
    BY DEF DealVoucher, MayPay
<1>2. PICK n \in Nat : n = Len(dealt) /\ n < NumTxs /\ DOMAIN dealt = 1..n
    BY DealtLength DEF DealVoucher
<1>3. PICK u \in Users : u = d.payer
    BY SimAssumption
<1>4. /\ currentSeq[u] \in Nat /\ currentSeq[u] <= n /\ NumTxs \in Nat
      /\ currentSeq' = [currentSeq EXCEPT ![u] = currentSeq[u] + 1]
      /\ currentSeq'[u] = currentSeq[u] + 1
    <2>1. currentSeq \in [Users -> 0..NumTxs] /\ NumTxs \in Nat
        BY DealtLength DEF SimTypeOK
    <2>2. currentSeq[u] <= n
        BY <1>2 DEF DealtOK
    <2>. QED BY <1>1, <1>3, <2>1, <2>2
<1>5. PICK s \in Nat : s = currentSeq[u] + 1
    BY <1>4
<1>6. n + 1 \in 1..NumTxs /\ s \in 1..NumTxs
    BY <1>2, <1>4, <1>5
<1>7. PICK v : v = SignedVoucher(d, n + 1, s)
    OBVIOUS
<1>8. v \in Deals
    BY <1>6, <1>7 DEF Deals
<1>9. v.id = Ids[n + 1] /\ DeviceUser[v.device] = u /\ v.payee # u /\ v.seq = s
    BY <1>1, <1>3, <1>7, KeyOwner DEF SignedVoucher
<1>10. dealt' = Append(dealt, v)
    BY <1>1, <1>2, <1>3, <1>4, <1>5, <1>7
<1>. HIDE DEF Deals
<1>. QED BY <1>2, <1>4, <1>5, <1>8, <1>9, <1>10

LEMMA DealStep ==
    ASSUME SimInv, DealVoucher
    PROVE  SimInv'
<1>. USE DEF SimInv
<1>1. PICK v \in Deals, u \in Users, n \in Nat :
         /\ n = Len(dealt) /\ n < NumTxs /\ DOMAIN dealt = 1..n
         /\ v.id = Ids[n + 1] /\ DeviceUser[v.device] = u /\ v.payee # u
         /\ currentSeq[u] \in Nat /\ currentSeq[u] <= n /\ v.seq = currentSeq[u] + 1
         /\ currentSeq' = [currentSeq EXCEPT ![u] = currentSeq[u] + 1]
         /\ dealt' = Append(dealt, v)
    BY DealEffect
<1>2. /\ main = "deal" /\ main' = main /\ UNCHANGED workerVars
      /\ UNCHANGED <<vouchers, batch, pc, sent, channel, totals, audited, finalTotal>>
    BY DEF DealVoucher, sendVars, auditVars, workerVars, storeVars, syncVars
<1>3. /\ dealt' \in Seq(Deals) /\ Len(dealt') = n + 1 /\ DOMAIN dealt' = 1..(n + 1)
      /\ dealt'[n + 1] = v /\ \A k \in 1..n : dealt'[k] = dealt[k]
    <2>. HIDE DEF Deals
    <2>1. dealt \in Seq(Deals)
        BY DEF SimTypeOK
    <2>. QED BY <1>1, <2>1, AppendProperties
<1>4. NumTxs \in Nat /\ currentSeq \in [Users -> 0..NumTxs]
    BY DealtLength DEF SimTypeOK
<1>5. /\ currentSeq' \in [Users -> 0..NumTxs] /\ currentSeq'[u] = currentSeq[u] + 1
      /\ \A w \in Users : w # u => currentSeq'[w] = currentSeq[w]
    BY <1>1, <1>4
<1>6. SimTypeOK'
    <2>1. Len(dealt') <= NumTxs
        BY <1>1, <1>3, <1>4
    <2>. QED BY <1>2, <1>3, <1>5, <2>1, MainStepKeeps DEF SimTypeOK, StoreInv
<1>7. DealtOK'
    <2>1. \A k \in 1..n : /\ dealt[k].id = Ids[k]
                          /\ dealt[k].payee # DeviceUser[dealt[k].device]
                          /\ dealt[k].seq <= currentSeq[DeviceUser[dealt[k].device]]
                          /\ dealt[k].seq \in Int /\ DeviceUser[dealt[k].device] \in Users
        <3>1. SUFFICES ASSUME NEW k \in 1..n
                       PROVE  /\ dealt[k].id = Ids[k]
                              /\ dealt[k].payee # DeviceUser[dealt[k].device]
                              /\ dealt[k].seq <= currentSeq[DeviceUser[dealt[k].device]]
                              /\ dealt[k].seq \in Int /\ DeviceUser[dealt[k].device] \in Users
            OBVIOUS
        <3>2. k \in DOMAIN dealt
            BY <1>1
        <3>3. dealt[k] \in Deals
            BY <3>2, DealtType DEF SimTypeOK
        <3>4. dealt[k].seq \in 1..NumTxs /\ DeviceUser[dealt[k].device] \in Users
            BY <3>3, DealType
        <3>5. dealt[k].seq \in Int
            BY <3>4, <1>4
        <3>. QED BY <3>2, <3>4, <3>5 DEF DealtOK
    <2>2. \A w \in Users : currentSeq[w] \in Int /\ currentSeq[w] <= n
        BY <1>1, <1>4 DEF DealtOK
    <2>3. ASSUME NEW k \in 1..(n + 1)
          PROVE  /\ dealt'[k].id = Ids[k]
                 /\ dealt'[k].payee # DeviceUser[dealt'[k].device]
                 /\ dealt'[k].seq <= currentSeq'[DeviceUser[dealt'[k].device]]
        <3>1. CASE k = n + 1
            BY <1>1, <1>3, <1>5, <3>1
        <3>2. CASE k \in 1..n
            BY <1>1, <1>3, <1>5, <2>1, <2>2, <3>2
        <3>. QED BY <3>1, <3>2
    <2>4. ASSUME NEW k \in 1..(n + 1), NEW m \in 1..(k - 1),
                 DeviceUser[dealt'[m].device] = DeviceUser[dealt'[k].device]
          PROVE  dealt'[m].seq < dealt'[k].seq
        <3>1. m \in 1..n /\ dealt'[m] = dealt[m]
            BY <1>3
        <3>2. CASE k = n + 1
            BY <1>1, <1>3, <2>1, <2>4, <3>1, <3>2
        <3>3. CASE k \in 1..n
            BY <1>1, <1>3, <2>4, <3>1, <3>3 DEF DealtOK
        <3>. QED BY <3>2, <3>3
    <2>5. \A w \in Users : currentSeq'[w] <= Len(dealt')
        BY <1>1, <1>3, <1>5, <2>2
    <2>. QED BY <1>3, <2>3, <2>4, <2>5 DEF DealtOK
<1>8. /\ sent = 0 /\ channel = <<>> /\ Len(channel) = 0 /\ StartOf(1) = 0 /\ Taken = 0
      /\ \A r \in Requests : DOMAIN batch[r] = {}
      /\ DOMAIN vouchers = {}
    BY <1>1, NothingTaken
<1>9. StartOf(1)' = StartOf(1) /\ Taken' = Taken /\ InWork' = InWork
    BY <1>2 DEF StartOf, Taken, InWork
<1>10. ChannelOK'
    <2>1. DOMAIN channel' = {}
        BY <1>2, <1>8
    <2>. QED BY <1>2, <1>8, <1>9, <2>1 DEF ChannelOK
<1>11. TakenOK'
    BY <1>2, <1>8, <1>9 DEF TakenOK
<1>12. StagesOK'
    <2>1. /\ UNCHANGED <<wallets, results, current>> /\ AllGone' = AllGone
          /\ \A r \in Requests : Todo(r)' = Todo(r) /\ At(r, "idle")' = At(r, "idle")
        BY <1>2 DEF Todo, At, AllGone, workerVars, storeVars, syncVars
    <2>. QED BY <1>2, <2>1 DEF StagesOK
<1>. QED BY <1>2, <1>6, <1>7, <1>10, <1>11, <1>12, MainStepKeeps DEF AuditPasses

\* What main sends is a full batch, or what is left.
LEMMA BatchIsDealt ==
    ASSUME SimTypeOK, Len(dealt) = NumTxs, MoreToSend
    PROVE  SubSeq(dealt, sent + 1, BatchEnd) \in DealtBatches /\ BatchEnd = EndOf(sent)
<1>1. PICK s \in Nat, t \in Nat, b \in Nat, e \in Nat :
         /\ s = sent /\ t = NumTxs /\ b = BatchSize /\ e = BatchEnd /\ b >= 1 /\ s < t
         /\ e = (IF s + b > t THEN t ELSE s + b)
    BY DealtLength DEF MoreToSend, BatchEnd
<1>2. e - s \in 1..b /\ s + 1 <= e /\ e <= t /\ e - (s + 1) + 1 = e - s /\ s + 1 \in Int /\ e \in Int
    <2>1. b >= 1 /\ s < t /\ e = IF s + b > t THEN t ELSE s + b
        BY <1>1
    <2>. QED BY ONLY <2>1, s \in Nat, t \in Nat, b \in Nat, e \in Nat
<1>3. DOMAIN dealt = 1..t
    BY <1>1, DealtLength
<1>4. \A i \in (s + 1)..e : dealt[i] \in Deals
    <2>1. \A i \in (s + 1)..e : i \in 1..t
        BY <1>1, <1>2
    <2>. QED BY <1>3, <2>1, DealtType DEF SimTypeOK
<1>. DEFINE x == SubSeq(dealt, s + 1, e)
<1>5. x \in Seq(Deals) /\ Len(x) = e - s
    <2>. HIDE DEF Deals
    <2>1. /\ SubSeq(dealt, s + 1, e) \in Seq(Deals)
          /\ Len(SubSeq(dealt, s + 1, e)) = IF s + 1 <= e THEN e - (s + 1) + 1 ELSE 0
        BY <1>2, <1>4, SubSeqProperties
    <2>. QED BY <1>2, <2>1
<1>. HIDE DEF x
<1>6. x \in [1..(e - s) -> Deals]
    <2>. HIDE DEF Deals
    <2>. QED BY <1>5
<1>7. x \in DealtBatches
    BY <1>1, <1>2, <1>6 DEF DealtBatches
<1>8. x = SubSeq(dealt, sent + 1, BatchEnd)
    BY <1>1 DEF x
<1>. QED BY <1>7, <1>8 DEF BatchEnd, EndOf

LEMMA SendStep ==
    ASSUME SimInv, SendBatch
    PROVE  SimInv'
<1>. USE DEF SimInv
<1>. DEFINE x == SubSeq(dealt, sent + 1, EndOf(sent))
<1>0. PICK n \in Nat : n = Len(channel)
    BY DealtLength
<1>1. /\ main = "deal" /\ main' = main /\ Len(dealt) = NumTxs /\ MoreToSend
      /\ channel' = Append(channel, x) /\ sent' = sent + BatchSize
      /\ UNCHANGED workerVars
      /\ UNCHANGED <<vouchers, batch, pc, dealt, currentSeq, totals, audited, finalTotal>>
    BY BatchIsDealt DEF SendBatch, dealVars, auditVars, workerVars, storeVars, syncVars
<1>2. x \in DealtBatches
    BY <1>1, BatchIsDealt
<1>3. /\ n \in Nat /\ DOMAIN channel = 1..n /\ sent \in Nat /\ NumTxs \in Nat
      /\ BatchSize \in Nat /\ sent < NumTxs
    BY <1>0, <1>1, DealtLength DEF MoreToSend
<1>4. /\ channel' \in Seq(DealtBatches) /\ Len(channel') = n + 1 /\ DOMAIN channel' = 1..(n + 1)
      /\ channel'[n + 1] = x /\ \A k \in 1..n : channel'[k] = channel[k]
    <2>. HIDE DEF DealtBatches, x
    <2>1. channel \in Seq(DealtBatches)
        BY DEF SimTypeOK
    <2>. QED BY <1>0, <1>1, <1>2, <1>3, <2>1, AppendProperties
<1>. HIDE DEF x
<1>5. SimTypeOK'
    BY <1>1, <1>3, <1>4, MainStepKeeps DEF SimTypeOK, StoreInv
<1>6. (\A k \in Int : StartOf(k)' = StartOf(k)) /\ StartOf(n + 1)' = sent
    <2>1. PICK s \in Nat, b \in Nat :
             /\ s = sent /\ b = BatchSize /\ Len(channel) = n
             /\ Len(channel') = n + 1 /\ sent' = s + b
        BY <1>0, <1>1, <1>3, <1>4
    <2>2. \A k \in Int : /\ StartOf(k) = s - (n + 1 - k) * b
                         /\ StartOf(k)' = (s + b) - ((n + 1) + 1 - k) * b
        BY <2>1 DEF StartOf
    <2>3. \A k \in Int : (s + b) - ((n + 1) + 1 - k) * b = s - (n + 1 - k) * b
        BY ONLY Multiples, n \in Nat, s \in Nat, b \in Nat
    <2>4. (s + b) - ((n + 1) + 1 - (n + 1)) * b = s
        BY ONLY Multiples, n \in Nat, s \in Nat, b \in Nat
    <2>5. StartOf(n + 1)' = s
        BY <2>2, <2>4, n + 1 \in Int
    <2>. QED BY <2>1, <2>2, <2>3, <2>5
<1>7. ChannelOK' /\ Taken' = Taken
    <2>1. 0 <= StartOf(1)' /\ Taken' = Taken
        BY <1>6 DEF Taken, ChannelOK
    <2>2. ASSUME NEW k \in 1..(n + 1)
          PROVE  /\ StartOf(k)' < NumTxs
                 /\ channel'[k] = SubSeq(dealt', StartOf(k)' + 1, EndOf(StartOf(k)'))
        <3>1. CASE k = n + 1
            <4>1. StartOf(k)' = sent /\ channel'[k] = x
                BY <1>4, <1>6, <3>1
            <4>. QED BY <1>1, <1>3, <4>1 DEF x
        <3>2. CASE k \in 1..n
            <4>1. k \in DOMAIN channel /\ k \in Int /\ channel'[k] = channel[k]
                BY <1>3, <1>4, <3>2
            <4>2. StartOf(k)' = StartOf(k)
                BY <1>6, <4>1
            <4>. QED BY <1>1, <4>1, <4>2 DEF ChannelOK
        <3>. QED BY <1>3, <3>1, <3>2
    <2>3. ~(Len(dealt') < NumTxs)
        BY <1>1, <1>3
    <2>. QED BY <1>4, <2>1, <2>2, <2>3 DEF ChannelOK, EndOf
<1>8. DealtOK' /\ TakenOK'
    <2>. HIDE DEF Taken
    <2>. QED BY <1>1, <1>7 DEF DealtOK, TakenOK, InWork
<1>9. StagesOK'
    <2>1. /\ UNCHANGED <<wallets, results, current>> /\ AllGone' = AllGone
          /\ \A r \in Requests : Todo(r)' = Todo(r) /\ At(r, "idle")' = At(r, "idle")
        BY <1>1 DEF Todo, At, AllGone, workerVars, storeVars, syncVars
    <2>2. \A r \in Requests : pc'[r] # "gone"
        BY <1>1 DEF StagesOK, At
    <2>. QED BY <1>1, <2>1, <2>2 DEF StagesOK
<1>. QED BY <1>1, <1>5, <1>7, <1>8, <1>9, MainStepKeeps DEF AuditPasses

-----------------------------------------------------------------------------
(* The inductive invariant.                                                *)

LEMMA SimInvInit ==
    ASSUME SimInit
    PROVE  SimInv
<1>. USE DEF SimInit
<1>1. StoreInv /\ SyncCore
    BY SyncInvInit DEF SyncInitial, SyncInv
<1>2. /\ wallets = Opening /\ vouchers = <<>> /\ pc = [r \in Requests |-> "idle"]
      /\ batch = [r \in Requests |-> <<>>] /\ results = [r \in Requests |-> <<>>]
      /\ current = [r \in Requests |-> 0]
    BY DEF StoreInit, SyncInit
<1>3. Len(<<>>) = 0
    OBVIOUS
<1>4. DOMAIN <<>> = {}
    OBVIOUS
<1>5. SimTypeOK
    <2>1. StoreTypeOK
        BY <1>1 DEF StoreInv
    <2>2. dealt \in Seq(Deals) /\ channel \in Seq(DealtBatches)
        <3>. HIDE DEF Deals, DealtBatches
        <3>. QED OBVIOUS
    <2>3. NumTxs \in Nat /\ Len(dealt) <= NumTxs
        BY <1>3, SimAssumption
    <2>. QED BY <1>2, <2>1, <2>2, <2>3 DEF SimTypeOK, SyncLabels
<1>6. StartOf(1) = 0 /\ Taken = 0
    <2>1. BatchSize \in Nat /\ NumTxs \in Nat
        BY SimAssumption
    <2>2. StartOf(1) = 0
        BY <1>3, <2>1 DEF StartOf
    <2>. QED BY <2>1, <2>2 DEF Taken
<1>7. DealtOK /\ ChannelOK
    BY <1>3, <1>4, <1>6 DEF DealtOK, ChannelOK
<1>8. InWork = 0
    <2>1. PICK f : f = [r \in Requests |-> Len(batch[r])]
        OBVIOUS
    <2>2. f \in [Requests -> Int] /\ \A r \in Requests : f[r] = 0
        BY <1>2, <1>3, <2>1
    <2>3. SumFunction(f) = 0
        BY <2>2, SumZero, SimAssumption
    <2>. QED BY <2>1, <2>3 DEF InWork
<1>9. TakenOK
    BY <1>2, <1>4, <1>6, <1>8 DEF TakenOK
<1>10. \A r \in Requests : Todo(r) = {} /\ ~InVoucher(r) /\ At(r, "idle")
    BY <1>2, <1>4 DEF Todo, InVoucher, At
<1>11. BatchesOK
    BY <1>2, <1>4, <1>10 DEF BatchesOK, AscendingOK
<1>12. NumbersAreSettled /\ TotalOf(wallets) = ExpectedTotal
    BY <1>2, SimAssumption DEF NumbersAreSettled, ExpectedTotal
<1>13. StagesOK
    <2>1. PICK f : f = [u \in {} |-> wallets[u].balance]
        OBVIOUS
    <2>2. SumFunction(f) = 0
        BY <2>1, SumEmpty
    <2>3. finalTotal = SumFunction([u \in audited |-> wallets[u].balance])
        BY <2>1, <2>2
    <2>. QED BY <1>2, <1>10, <2>3 DEF StagesOK
<1>14. AuditPasses /\ RefusedWasOvertaken
    BY <1>2, <1>4 DEF AuditPasses, RefusedWasOvertaken
<1>. QED BY <1>1, <1>5, <1>7, <1>9, <1>11, <1>12, <1>13, <1>14 DEF SimInv

LEMMA SimInvNext ==
    ASSUME SimInv, [SimNext]_simVars
    PROVE  SimInv'
<1>1. CASE MainStep
    BY <1>1, DealStep, SendStep, StartStep, AwaitStep, AuditWalletStep, VerdictStep DEF MainStep
<1>2. CASE FailAudit
    BY <1>2, FailAuditStep
<1>3. ASSUME NEW r \in Requests, (VoucherStep(r) \/ FailVoucher(r)) /\ UNCHANGED mainVars
      PROVE  SimInv'
    BY <1>3, WorkStep DEF WorkHyp
<1>4. ASSUME NEW r \in Requests, TakeBatch(r) \/ CountBatch(r) \/ LeaveWorker(r)
      PROVE  SimInv'
    BY <1>4, TakeStep, CountStep, LeaveStep DEF TakeHyp, CountHyp
<1>5. CASE UNCHANGED simVars
    <2>1. /\ UNCHANGED <<workerVars, dealVars, sendVars, totals>>
          /\ main' = main /\ audited' = audited /\ finalTotal' = finalTotal /\ WorkersStand
        BY <1>5 DEF simVars, mainVars, auditVars, WorkersStand
    <2>2. StagesOK'
        BY <2>1, StandingStages DEF SimInv, StagesOK
    <2>. QED BY <2>1, <2>2, QuietStepSim DEF SimInv, SimTypeOK, AuditPasses
<1>. QED BY <1>1, <1>2, <1>3, <1>4, <1>5 DEF SimNext, SimTrouble, WorkerStep

\* The inductive invariant holds throughout.
THEOREM SimInvariant == SimSpec => []SimInv
<1>1. SimInit => SimInv
    BY SimInvInit
<1>2. SimInv /\ [SimNext]_simVars => SimInv'
    BY SimInvNext
<1>. QED BY <1>1, <1>2, PTL DEF SimSpec

\* Every variable of the simulator always has its type.
THEOREM SimTypes == SimSpec => []SimTypeOK
<1>1. SimInv => SimTypeOK
    BY DEF SimInv
<1>. QED BY <1>1, SimInvariant, PTL

\* The audit of cmd/simulator never reports a drift: main reads no wallet before
\* all workers have gone, and no batch loses or makes money (main.go, the audit).
THEOREM SimAuditPasses == SimSpec => []AuditPasses
<1>1. SimInv => AuditPasses
    BY DEF SimInv
<1>. QED BY <1>1, SimInvariant, PTL

\* A voucher is refused for its number only after a later one of its payer was
\* settled from another batch (service.go, the check of the number).
THEOREM SimRefusedWasOvertaken == SimSpec => []RefusedWasOvertaken
<1>1. SimInv => RefusedWasOvertaken
    BY DEF SimInv
<1>. QED BY <1>1, SimInvariant, PTL

LEMMA AllAreCounted ==
    ASSUME SimInv
    PROVE  EveryVoucherCounted
<1>. USE DEF SimInv
<1>1. SUFFICES ASSUME main \in {"audit"} \cup Ended
               PROVE  totals.reconciled + totals.duplicates + totals.rejected = NumTxs
    BY DEF EveryVoucherCounted
<1>2. AllGone /\ sent >= NumTxs
    BY <1>1 DEF StagesOK, Ended
<1>3. \A r \in Requests : batch[r] = <<>>
    BY <1>2 DEF StagesOK, AllGone, At
<1>4. channel = <<>>
    <2>1. PICK r \in Requests : TRUE
        BY SimAssumption
    <2>. QED BY <1>2, <2>1 DEF StagesOK, AllGone, At
<1>5. Len(<<>>) = 0
    OBVIOUS
<1>6. InWork = 0
    <2>1. PICK f : f = [r \in Requests |-> Len(batch[r])]
        OBVIOUS
    <2>2. f \in [Requests -> Int] /\ \A r \in Requests : f[r] = 0
        BY <1>3, <1>5, <2>1
    <2>3. SumFunction(f) = 0
        BY <2>2, SumZero, SimAssumption
    <2>. QED BY <2>1, <2>3 DEF InWork
<1>7. Taken = NumTxs
    <2>1. PICK s \in Nat, t \in Nat, b \in Nat : s = sent /\ t = NumTxs /\ b = BatchSize /\ s >= t
        BY <1>2, DealtLength
    <2>2. Len(channel) = 0
        BY <1>4, <1>5
    <2>3. StartOf(1) = s
        BY <2>1, <2>2 DEF StartOf
    <2>. QED BY <2>1, <2>3 DEF Taken
<1>8. /\ totals.reconciled \in Nat /\ totals.duplicates \in Nat /\ totals.rejected \in Nat
      /\ totals.reconciled + totals.duplicates + totals.rejected + 0 = NumTxs
    <2>. HIDE DEF Taken, InWork
    <2>. QED BY <1>6, <1>7 DEF TakenOK, SimTypeOK
<1>. QED BY ONLY <1>8

\* When the workers have gone, every voucher is in exactly one of the three
\* totals that the simulator prints (main.go, the counters of the workers).
THEOREM SimEveryVoucherCounted == SimSpec => []EveryVoucherCounted
<1>1. SimInv => EveryVoucherCounted
    BY AllAreCounted
<1>. QED BY <1>1, SimInvariant, PTL

-----------------------------------------------------------------------------
(* Refusals for lack of funds.                                             *)

LEMMA AmountsType ==
    ASSUME SimTypeOK, NEW S, S \subseteq DOMAIN dealt
    PROVE  /\ [k \in S |-> dealt[k].amount] \in [S -> Int]
           /\ \A k \in S : dealt[k].amount >= 1
           /\ IsFiniteSet(S) /\ AmountOf(S) \in Int
<1>1. ASSUME NEW k \in S PROVE dealt[k].amount \in Int /\ dealt[k].amount >= 1
    <2>1. dealt[k] \in Deals
        BY DealtType DEF SimTypeOK
    <2>2. dealt[k].amount \in 1..MaxInt
        BY <2>1, DealType
    <2>. QED BY <2>2, StoreAssumption
<1>2. IsFiniteSet(S)
    <2>1. DOMAIN dealt = 1..Len(dealt) /\ Len(dealt) \in Nat
        BY DealtLength
    <2>2. IsFiniteSet(1..Len(dealt))
        BY <2>1, FS_Interval
    <2>. QED BY <2>1, <2>2, FS_Subset
<1>3. PICK f : f = [k \in S |-> dealt[k].amount]
    OBVIOUS
<1>4. f \in [S -> Int]
    BY <1>1, <1>3
<1>5. SumFunction(f) \in Int
    BY <1>2, <1>4, SumType
<1>. QED BY <1>1, <1>2, <1>3, <1>4, <1>5 DEF AmountOf

LEMMA AmountsAdd ==
    ASSUME SimTypeOK, NEW S, S \subseteq DOMAIN dealt, NEW m \in DOMAIN dealt, m \notin S
    PROVE  AmountOf(S \cup {m}) = Plus(dealt[m].amount, AmountOf(S))
<1>1. PICK T : T = S \cup {m}
    OBVIOUS
<1>2. PICK f : f = [k \in T |-> dealt[k].amount]
    OBVIOUS
<1>3. PICK g : g = [k \in S |-> dealt[k].amount]
    OBVIOUS
<1>4. IsFiniteSet(T) /\ f \in [T -> Int] /\ g \in [S -> Int]
    <2>1. T \subseteq DOMAIN dealt
        BY <1>1
    <2>. QED BY <1>2, <1>3, <2>1, AmountsType
<1>5. /\ m \in T /\ T \ {m} = S /\ f[m] = dealt[m].amount
      /\ \A x \in T \ {m} : g[x] = f[x]
    BY <1>1, <1>2, <1>3
<1>6. g \in [T \ {m} -> Int]
    BY <1>4, <1>5
<1>7. SumFunction(f) = Plus(f[m], SumFunction(g))
    BY ONLY <1>4, <1>5, <1>6, SumNew
<1>. QED BY <1>1, <1>2, <1>3, <1>5, <1>7 DEF AmountOf

LEMMA AmountsGrow ==
    ASSUME SimTypeOK, NEW T, T \subseteq DOMAIN dealt, NEW S, S \subseteq T
    PROVE  AmountOf(S) <= AmountOf(T)
<1>1. PICK f : f = [k \in T |-> dealt[k].amount]
    OBVIOUS
<1>2. PICK g : g = [k \in S |-> dealt[k].amount]
    OBVIOUS
<1>3. /\ IsFiniteSet(T) /\ f \in [T -> Int] /\ g \in [S -> Int]
      /\ \A x \in S : g[x] = f[x]
    BY <1>1, <1>2, AmountsType
<1>4. \A x \in T : f[x] >= 0
    BY <1>1, <1>3, AmountsType
<1>5. SumFunction(g) <= SumFunction(f)
    BY ONLY <1>3, <1>4, S \subseteq T, SumGrows
<1>. QED BY <1>1, <1>2, <1>5 DEF AmountOf

\* The voucher in work is one of its payer's that is not settled.
LEMMA UnsettledInWork ==
    ASSUME SimInv, NEW r \in Requests, pc[r] = "post"
    PROVE  /\ payerOf[r] \in Users /\ payerOf[r] = DeviceUser[The(r).device]
           /\ current[r] \in Todo(r)
           /\ \E m \in SignedBy(payerOf[r]) \ Settled(payerOf[r]) : The(r) = dealt[m]
<1>. USE DEF SimInv
<1>1. /\ current[r] \in DOMAIN batch[r] /\ results[r][current[r]] = "pending"
      /\ payerOf[r] \in Users /\ payerOf[r] = DeviceUser[The(r).device]
    BY DEF SyncCore, SyncStageOK, InVoucher
<1>2. current[r] \in Todo(r)
    BY <1>1 DEF Todo
<1>3. PICK m \in DOMAIN dealt : The(r) = dealt[m]
    BY <1>1, OriginOfBatch DEF The
<1>4. \A k \in DOMAIN vouchers : vouchers[k].id # The(r).id
    BY <1>2 DEF BatchesOK, The
<1>5. m \in SignedBy(payerOf[r]) \ Settled(payerOf[r])
    BY <1>1, <1>3, <1>4 DEF SignedBy, Settled
<1>. QED BY <1>1, <1>2, <1>3, <1>5

\* A voucher that cannot be paid does not fit into what the payer had.
LEMMA UnpaidIsTooMuch ==
    ASSUME SimInv, SolvencyOK, NEW r \in Requests, RefuseVoucherFunds(r)
    PROVE  LET u == DeviceUser[batch[r][current[r]].device]
           IN  AmountOf(SignedBy(u)) > Opening[u].balance
<1>1. pc[r] = "post" /\ ~CanPay(r)
    BY DEF RefuseVoucherFunds, At
<1>2. PICK u \in Users : u = payerOf[r]
    BY <1>1, UnsettledInWork
<1>3. u = DeviceUser[The(r).device]
    BY <1>1, <1>2, UnsettledInWork
<1>4. PICK m \in SignedBy(u) \ Settled(u) : The(r) = dealt[m]
    BY <1>1, <1>2, UnsettledInWork
<1>5. PICK S : S = Settled(u)
    OBVIOUS
<1>6. PICK T : T = SignedBy(u)
    OBVIOUS
<1>7. /\ T \subseteq DOMAIN dealt /\ S \subseteq T /\ m \in T /\ m \notin S
      /\ S \subseteq DOMAIN dealt /\ m \in DOMAIN dealt
    BY <1>4, <1>5, <1>6 DEF SignedBy, Settled
<1>8. SimTypeOK
    BY DEF SimInv
<1>9. /\ AmountOf(S \cup {m}) = Plus(dealt[m].amount, AmountOf(S))
      /\ AmountOf(S \cup {m}) <= AmountOf(T)
    <2>1. S \cup {m} \subseteq T
        BY <1>7
    <2>. QED BY <1>7, <1>8, <2>1, AmountsAdd, AmountsGrow
<1>10. AmountOf(S) \in Int /\ AmountOf(T) \in Int /\ dealt[m].amount \in Int
    BY <1>7, <1>8, AmountsType
<1>11. wallets[u].balance < dealt[m].amount /\ wallets[u].balance \in Int
       /\ Opening[u].balance \in Int
    <2>1. rowLock[u] = r
        BY <1>1, <1>2, RowsOfVoucher DEF SimInv, SyncCore, SyncStageOK
    <2>2. PayerRow(r) = wallets[u]
        BY <1>2, <2>1, StoreAssumption DEF SimInv, StoreInv, LockedRowsAreFresh, PayerRow
    <2>3. wallets[u].balance \in Int /\ Opening[u].balance \in Int
        BY StoreAssumption DEF SimInv, StoreInv, StoreTypeOK, Row, Int64
    <2>. QED BY <1>1, <1>4, <1>10, <2>2, <2>3 DEF CanPay
<1>12. Opening[u].balance <= wallets[u].balance + AmountOf(S)
    BY <1>5 DEF SolvencyOK
<1>13. AmountOf(T) > Opening[u].balance
    BY ONLY <1>9, <1>10, <1>11, <1>12 DEF Plus
<1>. QED BY <1>3, <1>6, <1>13 DEF The

\* A settled voucher takes no more out of a wallet than it is worth.
LEMMA SettleSolvent ==
    ASSUME SimInv, SolvencyOK, NEW r \in Requests, SettleVoucher(r), UNCHANGED mainVars
    PROVE  SolvencyOK'
<1>. USE DEF SimInv
<1>0. StoreInv /\ SyncCore
    OBVIOUS
<1>1. pc[r] = "post" /\ dealt' = dealt
    BY DEF SettleVoucher, At, mainVars, dealVars
<1>2. PICK u \in Users : u = payerOf[r] /\ u = DeviceUser[The(r).device]
    BY <1>1, UnsettledInWork
<1>3. PICK m \in SignedBy(u) \ Settled(u) : The(r) = dealt[m]
    BY <1>1, <1>2, UnsettledInWork
<1>4. m \in DOMAIN dealt /\ DeviceUser[dealt[m].device] = u /\ dealt[m].payee # u
    BY <1>3 DEF SignedBy, DealtOK
<1>5. PICK p \in Users, a \in Int :
         /\ p = dealt[m].payee /\ a = dealt[m].amount /\ p # u /\ a >= 1
         /\ wallets'[u].balance = wallets[u].balance - a
         /\ wallets'[p].balance = wallets[p].balance + a
         /\ \A w \in Users \ {u, p} : wallets'[w] = wallets[w]
    <2>0. /\ The(r).payee \in Users /\ The(r).amount \in Int64 /\ The(r).amount > 0
          /\ Debited(r, Redemption(r)) = wallets[payerOf[r]].balance - The(r).amount
          /\ wallets'[payerOf[r]] = IF payerOf[r] = The(r).payee
               THEN [PayerRowAfter(r) EXCEPT
                        !.balance = wallets[payerOf[r]].balance + The(r).amount]
               ELSE PayerRowAfter(r)
          /\ payerOf[r] # The(r).payee => wallets'[The(r).payee] = [wallets[The(r).payee] EXCEPT
                !.balance = wallets[The(r).payee].balance + The(r).amount]
          /\ \A w \in Users \ {payerOf[r], The(r).payee} : wallets'[w] = wallets[w]
        BY ONLY <1>0, r \in Requests, SettleVoucher(r), RedeemEffect
    <2>1. /\ The(r).payee \in Users /\ The(r).amount \in Int64 /\ The(r).amount > 0
          /\ Debited(r, Redemption(r)) = wallets[u].balance - The(r).amount
          /\ wallets'[u] = PayerRowAfter(r)
          /\ wallets'[The(r).payee] = [wallets[The(r).payee] EXCEPT
                !.balance = wallets[The(r).payee].balance + The(r).amount]
          /\ \A w \in Users \ {u, The(r).payee} : wallets'[w] = wallets[w]
        BY ONLY <1>2, <1>3, <1>4, <2>0
    <2>2. PayerRowAfter(r).balance = wallets[u].balance - The(r).amount
        BY <2>1 DEF PayerRowAfter
    <2>3. wallets[The(r).payee] \in Row
        BY <2>1 DEF StoreInv, StoreTypeOK
    <2>4. wallets'[The(r).payee].balance = wallets[The(r).payee].balance + The(r).amount
        BY <2>1, <2>3 DEF Row
    <2>5. The(r).amount \in Int /\ The(r).amount >= 1
        BY <2>1, StoreAssumption DEF Int64
    <2>. QED BY <1>3, <1>4, <2>1, <2>2, <2>4, <2>5
<1>6. PICK n \in Nat :
         /\ DOMAIN vouchers = 1..n /\ DOMAIN vouchers' = 1..(n + 1)
         /\ vouchers'[n + 1].id = dealt[m].id
         /\ \A k \in 1..n : vouchers'[k] = vouchers[k]
    <2>1. SyncDataOK
        BY DEF SyncCore
    <2>2. PICK n \in Nat :
             /\ DOMAIN vouchers = 1..n /\ DOMAIN vouchers' = 1..(n + 1)
             /\ vouchers'[n + 1] = VoucherRow(r)
             /\ \A k \in 1..n : vouchers'[k] = vouchers[k]
        BY ONLY <2>1, r \in Requests, SettleVoucher(r), RedeemVouchers
    <2>3. VoucherRow(r).id = dealt[m].id
        BY <1>3 DEF VoucherRow
    <2>. QED BY <2>2, <2>3
<1>7. \A w \in Users : Settled(w)' = IF w = u THEN Settled(w) \cup {m} ELSE Settled(w)
    <2>1. \A w \in Users : SignedBy(w)' = SignedBy(w) /\ SignedBy(w) \subseteq DOMAIN dealt
        BY <1>1 DEF SignedBy
    <2>2. \A k \in DOMAIN dealt : (\E j \in DOMAIN vouchers' : vouchers'[j].id = dealt[k].id)
             <=> k = m \/ \E j \in DOMAIN vouchers : vouchers[j].id = dealt[k].id
        BY <1>4, <1>6, DealtDiffer
    <2>3. m \in SignedBy(u) /\ \A w \in Users \ {u} : m \notin SignedBy(w)
        BY <1>3, <1>4 DEF SignedBy
    <2>4. \A w \in Users : Settled(w)' =
             {k \in SignedBy(w) : \E j \in DOMAIN vouchers' : vouchers'[j].id = dealt[k].id}
        BY <1>1, <2>1 DEF Settled
    <2>. QED BY <2>1, <2>2, <2>3, <2>4 DEF Settled
<1>8. \A w \in Users : wallets[w].balance \in Int /\ Opening[w].balance \in Int
    <2>1. \A w \in Users : wallets[w] \in Row /\ Opening[w] \in Row
        BY StoreAssumption DEF StoreInv, StoreTypeOK
    <2>2. Int64 \subseteq Int
        BY StoreAssumption DEF Int64
    <2>. QED BY ONLY <2>1, <2>2 DEF Row
<1>9. ASSUME NEW w \in Users
      PROVE  Opening[w].balance <= wallets'[w].balance + AmountOf(Settled(w)')
    <2>1. PICK S : S = Settled(w)
        OBVIOUS
    <2>2. S \subseteq DOMAIN dealt
        BY <2>1 DEF Settled, SignedBy
    <2>3. AmountOf(S) \in Int
        BY <2>2, AmountsType
    <2>4. Opening[w].balance <= wallets[w].balance + AmountOf(S)
        BY <2>1 DEF SolvencyOK
    <2>5. CASE w = u
        <3>1. m \notin S
            BY <1>3, <2>1, <2>5
        <3>2. AmountOf(S \cup {m}) = Plus(a, AmountOf(S))
            BY <1>4, <1>5, <2>2, <3>1, AmountsAdd
        <3>3. Settled(w)' = S \cup {m} /\ wallets'[w].balance = wallets[w].balance - a
            BY <1>5, <1>7, <2>1, <2>5
        <3>. QED BY <1>8, <2>3, <2>4, <3>2, <3>3 DEF Plus
    <2>6. CASE w # u
        <3>1. Settled(w)' = S
            BY <1>7, <2>1, <2>6
        <3>2. wallets'[w].balance >= wallets[w].balance
            BY <1>5, <1>8, <2>6
        <3>3. wallets'[w].balance \in Int
            BY <1>5, <1>8, <2>6
        <3>. QED BY <1>8, <2>3, <2>4, <3>1, <3>2, <3>3
    <2>. QED BY <2>5, <2>6
<1>. QED BY <1>1, <1>9 DEF SolvencyOK, AmountOf

\* No other step writes a wallet, settles a voucher or, once one is settled,
\* deals another.
LEMMA SolvencyStep ==
    ASSUME SimInv, SolvencyOK, [SimNext]_simVars
    PROVE  SolvencyOK'
<1>1. CASE \E r \in Requests : SettleVoucher(r) /\ UNCHANGED mainVars
    BY <1>1, SettleSolvent
<1>2. CASE UNCHANGED <<wallets, vouchers, dealt>>
    BY <1>2 DEF SolvencyOK, Settled, SignedBy, AmountOf
<1>3. CASE DealVoucher
    <2>1. UNCHANGED <<wallets, vouchers>> /\ DOMAIN vouchers = {}
        BY <1>3, NothingTaken, DealtLength
           DEF DealVoucher, workerVars, storeVars, syncVars, SimInv
    <2>2. \A u \in Users : Settled(u) = {} /\ Settled(u)' = {}
        BY <2>1 DEF Settled
    <2>3. AmountOf({})' = AmountOf({})
        <3>1. [k \in {} |-> dealt'[k].amount] = [k \in {} |-> dealt[k].amount]
            OBVIOUS
        <3>. QED BY <3>1 DEF AmountOf
    <2>4. \A u \in Users : AmountOf(Settled(u))' = AmountOf(Settled(u))
        BY <2>2, <2>3
    <2>. QED BY <2>1, <2>4 DEF SolvencyOK
<1>4. CASE (MainStep /\ ~DealVoucher) \/ FailAudit \/ UNCHANGED simVars
    <2>1. UNCHANGED <<workerVars, dealVars>>
        BY <1>4 DEF MainStep, SendBatch, StartWorkers, AwaitWorkers, AuditWallet, Verdict,
                    FailAudit, simVars, mainVars
    <2>. QED BY <1>2, <2>1 DEF workerVars, storeVars, syncVars, dealVars
<1>5. ASSUME NEW r \in Requests, TakeBatch(r) \/ CountBatch(r) \/ LeaveWorker(r)
      PROVE  SolvencyOK'
    <2>1. UNCHANGED <<tables, vouchers, dealVars>>
        BY <1>5 DEF TakeBatch, StartBatch, CountBatch, LeaveWorker, syncVars, mainVars
    <2>. QED BY <1>2, <2>1 DEF tables, dealVars
<1>6. ASSUME NEW r \in Requests, (VoucherStep(r) \/ FailVoucher(r)) /\ UNCHANGED mainVars,
             ~SettleVoucher(r)
      PROVE  SolvencyOK'
    <2>1. UNCHANGED <<tables, vouchers, dealVars>>
        BY <1>6, VouchersStayUnless DEF mainVars
    <2>. QED BY <1>2, <2>1 DEF tables, dealVars
<1>. QED BY <1>1, <1>3, <1>4, <1>5, <1>6 DEF SimNext, SimTrouble, WorkerStep

\* The i-th voucher of r's batch does not fit into what its payer had.
TooMuch(r, i) == LET u == DeviceUser[batch[r][i].device]
                 IN  AmountOf(SignedBy(u)) > Opening[u].balance

LEMMA SolventIsTooMuch ==
    SolventVouchersPay <=>
        \A r \in Requests : \A i \in DOMAIN results[r] :
            results[r][i] = "no_funds" => TooMuch(r, i)
BY DEF SolventVouchersPay, TooMuch, AmountOf

LEMMA SolventStep ==
    ASSUME SolventInv, [SimNext]_simVars
    PROVE  SolventInv'
<1>. USE DEF SolventInv
<1>1. SimInv' /\ SolvencyOK'
    BY SimInvNext, SolvencyStep
<1>2. SUFFICES ASSUME NEW q \in Requests, NEW i \in DOMAIN results'[q],
                      results'[q][i] = "no_funds"
               PROVE  TooMuch(q, i)'
    <2>1. SolventVouchersPay' <=>
            \A r \in Requests : \A i \in DOMAIN results'[r] :
                results'[r][i] = "no_funds" => TooMuch(r, i)'
        BY DEF SolventVouchersPay, TooMuch, AmountOf
    <2>. QED BY <1>1, <2>1
<1>3. ASSUME batch'[q] = batch[q], dealt' = dealt, i \in DOMAIN results[q], TooMuch(q, i)
      PROVE  TooMuch(q, i)'
    BY <1>3 DEF TooMuch, SignedBy, AmountOf
<1>4. ASSUME batch'[q] = batch[q], results'[q] = results[q], dealt' = dealt
      PROVE  TooMuch(q, i)'
    <2>1. i \in DOMAIN results[q] /\ TooMuch(q, i)
        BY <1>2, <1>4, SolventIsTooMuch
    <2>. QED BY <1>3, <1>4, <2>1
<1>5. CASE DealVoucher
    <2>1. DOMAIN batch[q] = {} /\ results' = results
        BY <1>5, NothingTaken DEF DealVoucher, workerVars, syncVars
    <2>2. DOMAIN results[q] = DOMAIN batch[q]
        BY DEF SimInv, SyncCore, SyncDataOK
    <2>. QED BY <1>2, <2>1, <2>2
<1>6. CASE (MainStep /\ ~DealVoucher) \/ FailAudit \/ UNCHANGED simVars
    <2>1. UNCHANGED <<workerVars, dealVars>>
        BY <1>6 DEF MainStep, SendBatch, StartWorkers, AwaitWorkers, AuditWallet, Verdict,
                    FailAudit, simVars, mainVars
    <2>. QED BY <1>4, <2>1 DEF workerVars, syncVars, dealVars
<1>7. ASSUME NEW r \in Requests, TakeBatch(r)
      PROVE  TooMuch(q, i)'
    <2>1. /\ results'[r] = [k \in DOMAIN Head(channel) |-> "pending"] /\ dealt' = dealt
          /\ \A p \in Requests \ {r} : batch'[p] = batch[p] /\ results'[p] = results[p]
        BY <1>7, TakeBasics DEF TakeHyp
    <2>2. q # r
        BY <1>2, <2>1
    <2>. QED BY <1>4, <2>1, <2>2
<1>8. ASSUME NEW r \in Requests, CountBatch(r)
      PROVE  TooMuch(q, i)'
    <2>1. /\ results'[r] = <<>> /\ dealt' = dealt
          /\ \A p \in Requests \ {r} : batch'[p] = batch[p] /\ results'[p] = results[p]
        BY <1>8, CountBasics DEF CountHyp
    <2>2. q # r
        BY <1>2, <2>1
    <2>. QED BY <1>4, <2>1, <2>2
<1>9. ASSUME NEW r \in Requests, LeaveWorker(r)
      PROVE  TooMuch(q, i)'
    <2>1. UNCHANGED <<batch, results, dealt>>
        BY <1>9 DEF LeaveWorker, syncVars, mainVars, dealVars
    <2>. QED BY <1>4, <2>1
<1>10. ASSUME NEW r \in Requests, (VoucherStep(r) \/ FailVoucher(r)) /\ UNCHANGED mainVars
       PROVE  TooMuch(q, i)'
    <2>1. dealt' = dealt
        BY <1>10 DEF mainVars, dealVars
    <2>2. /\ batch'[q] = batch[q] /\ i \in DOMAIN results[q]
          /\ results[q][i] = "no_funds" \/ (q = r /\ i = current[r] /\ RefuseVoucherFunds(r))
        BY <1>2, <1>10, RefusalReported DEF SyncRequest, SimInv
    <2>3. TooMuch(q, i)
        <3>1. CASE results[q][i] = "no_funds"
            BY <2>2, <3>1, SolventIsTooMuch
        <3>2. CASE q = r /\ i = current[r] /\ RefuseVoucherFunds(r)
            BY <3>2, UnpaidIsTooMuch DEF TooMuch
        <3>. QED BY <2>2, <3>1, <3>2
    <2>. QED BY <1>3, <2>1, <2>2, <2>3
<1>. QED BY <1>5, <1>6, <1>7, <1>8, <1>9, <1>10 DEF SimNext, SimTrouble, WorkerStep

LEMMA SolventInit ==
    ASSUME SimInit
    PROVE  SolventInv
<1>. USE DEF SimInit, StoreInit, SyncInit
<1>1. SimInv
    BY SimInvInit
<1>2. DOMAIN <<>> = {}
    OBVIOUS
<1>3. \A u \in Users : Opening[u].balance <= wallets[u].balance + AmountOf(Settled(u))
    <2>1. SUFFICES ASSUME NEW u \in Users
                   PROVE  Opening[u].balance <= wallets[u].balance + AmountOf(Settled(u))
        OBVIOUS
    <2>2. Settled(u) = {}
        BY <1>2 DEF Settled, SignedBy
    <2>3. PICK f : f = [k \in {} |-> dealt[k].amount]
        OBVIOUS
    <2>4. SumFunction(f) = 0
        BY <2>3, SumEmpty
    <2>5. AmountOf(Settled(u)) = 0
        BY <2>2, <2>3, <2>4 DEF AmountOf
    <2>6. Opening[u] \in Row /\ Int64 \subseteq Int
        BY StoreAssumption DEF Int64
    <2>7. Opening[u].balance \in Int /\ wallets[u] = Opening[u]
        BY <2>6 DEF Row
    <2>. QED BY ONLY <2>5, <2>7
<1>4. SolventVouchersPay
    BY <1>2 DEF SolventVouchersPay
<1>. QED BY <1>1, <1>3, <1>4 DEF SolventInv, SolvencyOK

\* A payer whose vouchers add up to no more than his wallet held at the start
\* has none refused for lack of funds, in whatever order workers settle them
\* (main.go, the amounts of the generator; service.go, the check of the balance).
THEOREM SimSolventVouchersPay == SimSpec => []SolventVouchersPay
<1>1. SimInit => SolventInv
    BY SolventInit
<1>2. SolventInv /\ [SimNext]_simVars => SolventInv'
    BY SolventStep
<1>3. SolventInv => SolventVouchersPay
    BY DEF SolventInv
<1>. QED BY <1>1, <1>2, <1>3, PTL DEF SimSpec
=============================================================================

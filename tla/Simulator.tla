----------------------------- MODULE Simulator -----------------------------
(***************************************************************************)
(* The load test with its audit: cmd/simulator.  Main deals signed         *)
(* vouchers between freshly funded accounts, fills a channel with batches  *)
(* of them and starts the workers; each worker reconciles batches with     *)
(* OfflineSync until the channel is empty.  When all of them have gone,    *)
(* main adds the wallets up and compares.  A worker is a request of        *)
(* OfflineSync that takes one batch after another.                         *)
(***************************************************************************)
EXTENDS OfflineSync

CONSTANTS
    NumTxs,     \* flag -txs
    BatchSize,  \* vouchers in a full batch (100 in the code)
    Draws,      \* payer, payee and amount as the generator may draw them
    Ids         \* uuids and nonces, in the order they are generated

ASSUME SimAssumption ==
    /\ NumTxs \in Nat /\ BatchSize \in Nat \ {0}
    /\ Requests # {} /\ IsFiniteSet(Requests)
    /\ \A u \in Users : Opening[u].lastSeq = 0
    /\ Draws \subseteq [payer : Users, payee : Users, amount : 1..MaxInt]
    /\ \E d \in Draws : d.payer # d.payee
    /\ Ids \in [1..NumTxs -> STRING]
    /\ \A j, k \in 1..NumTxs : Ids[j] = Ids[k] => j = k
    /\ Registered = Devices /\ \A u \in Users : \E d \in Devices : DeviceUser[d] = u

VARIABLES
    main,       \* where the main goroutine is
    dealt,      \* the vouchers generated so far
    currentSeq, \* CurrentSeq of each simulated user
    sent,       \* how many of the vouchers are in batches
    channel,    \* batchChan
    totals,     \* totalReconciled, totalDuplicates, totalRejected
    audited,    \* wallets the audit has read
    finalTotal  \* their sum

workerVars == <<storeVars, syncVars>>
dealVars   == <<dealt, currentSeq>>
sendVars   == <<sent, channel>>
auditVars  == <<audited, finalTotal>>
mainVars   == <<main, dealVars, sendVars, totals, auditVars>>
simVars    == <<workerVars, mainVars>>

\* Accounts, device keys and funded wallets are in the tables: Opening, Registered.
SimInit ==
    /\ StoreInit /\ SyncInit
    /\ main = "deal"
    /\ dealt = <<>>
    /\ currentSeq = [u \in Users |-> 0]
    /\ sent = 0 /\ channel = <<>>
    /\ totals = [reconciled |-> 0, duplicates |-> 0, rejected |-> 0]
    /\ audited = {} /\ finalTotal = 0

-----------------------------------------------------------------------------
(* Vouchers.                                                               *)

KeyOf(u) == CHOOSE d \in Devices : DeviceUser[d] = u

\* The n-th voucher, signed by its payer, with an id and a nonce of its own.
SignedVoucher(d, n, seq) ==
    [id |-> Ids[n], nonce |-> Ids[n], device |-> KeyOf(d.payer), payee |-> d.payee,
     amount |-> d.amount, seq |-> seq, signed |-> TRUE]

Deals == {SignedVoucher(d, n, s) : d \in Draws, n \in 1..NumTxs, s \in 1..NumTxs}

\* What a worker may find in the channel: the Batches of OfflineSync.
DealtBatches == UNION {[1..k -> Deals] : k \in 1..BatchSize}

ASSUME DealtAssumption == DealtBatches \subseteq Batches

\* Faulty: the draw is not repeated.
MayPayAnyone(d) == TRUE

\* The payee is drawn again while it is the payer.
MayPay(d) == d.payer # d.payee

DealVoucher ==
    /\ main = "deal" /\ Len(dealt) < NumTxs
    /\ \E d \in Draws :
        /\ MayPay(d)
        /\ currentSeq' = [currentSeq EXCEPT ![d.payer] = @ + 1]
        /\ dealt' = Append(dealt, SignedVoucher(d, Len(dealt) + 1, currentSeq'[d.payer]))
    /\ UNCHANGED <<workerVars, main, sendVars, totals, auditVars>>

-----------------------------------------------------------------------------
(* The channel and the workers.                                            *)

\* Faulty: integer division rounds down.
TotalBatchesFloor == NumTxs \div BatchSize

\* The capacity of the channel: nobody receives while main fills it.
TotalBatches == (NumTxs + BatchSize - 1) \div BatchSize

MoreToSend == sent < NumTxs

\* Faulty: the slice takes one voucher too many.
BatchEndOver == IF sent + BatchSize >= NumTxs THEN NumTxs ELSE sent + BatchSize + 1

BatchEnd == IF sent + BatchSize > NumTxs THEN NumTxs ELSE sent + BatchSize

SendBatch ==
    /\ main = "deal" /\ Len(dealt) = NumTxs
    /\ MoreToSend
    /\ Len(channel) < TotalBatches
    /\ channel' = Append(channel, SubSeq(dealt, sent + 1, BatchEnd))
    /\ sent' = sent + BatchSize
    /\ UNCHANGED <<workerVars, main, dealVars, totals, auditVars>>

\* The channel is closed and the workers are started.
StartWorkers ==
    /\ main = "deal" /\ Len(dealt) = NumTxs
    /\ ~MoreToSend
    /\ main' = "wait"
    /\ UNCHANGED <<workerVars, dealVars, sendVars, totals, auditVars>>

TakeBatch(r) ==
    /\ main # "deal"
    /\ channel # <<>>
    /\ StartBatch(r, Head(channel))
    /\ channel' = Tail(channel)
    /\ UNCHANGED <<main, dealVars, sent, totals, auditVars>>

CountOf(r, kinds) == Cardinality({i \in DOMAIN results[r] : results[r][i] \in kinds})

\* The response of ReconcileBatch is added to the totals.
CountBatch(r) ==
    /\ At(r, "done")
    /\ totals' =
        [reconciled |-> totals.reconciled + CountOf(r, {"reconciled"}),
         duplicates |-> totals.duplicates + CountOf(r, {"dup_nonce", "dup_voucher", "dup_seq"}),
         rejected   |-> totals.rejected + CountOf(r, {"bad_signature", "no_funds", "rejected"})]
    /\ batch' = [batch EXCEPT ![r] = <<>>]
    /\ results' = [results EXCEPT ![r] = <<>>]
    /\ Goto(r, "idle")
    /\ Answer(r, "none")
    /\ UNCHANGED <<tables, sessions, devices, vouchers, nonces, current, payerOf, main,
                   dealVars, sendVars, auditVars>>

\* The channel is closed and empty.
LeaveWorker(r) ==
    /\ main # "deal" /\ At(r, "idle")
    /\ channel = <<>>
    /\ Goto(r, "gone")
    /\ UNCHANGED <<tables, sessions, reply, syncVars, mainVars>>

-----------------------------------------------------------------------------
(* The audit.                                                              *)

\* Faulty: main does not wait for the last batches.
AllGoneNearly == channel = <<>>

AllGone == \A r \in Requests : At(r, "gone")

AwaitWorkers ==
    /\ main = "wait"
    /\ AllGone
    /\ main' = "audit"
    /\ UNCHANGED <<workerVars, dealVars, sendVars, totals, auditVars>>

\* One query per account, in the order of the accounts.
AuditWallet ==
    /\ main = "audit"
    /\ \E i \in Instances : PoolHasRoom(i)
    /\ \E u \in Users \ audited :
        /\ \A v \in Users \ audited : u <= v
        /\ finalTotal' = finalTotal + wallets[u].balance
        /\ audited' = audited \cup {u}
    /\ UNCHANGED <<workerVars, main, dealVars, sendVars, totals>>

\* A query that fails ends the program.
FailAudit ==
    /\ main = "audit" /\ audited # Users
    /\ main' = "failed"
    /\ UNCHANGED <<workerVars, dealVars, sendVars, totals, auditVars>>

ExpectedTotal == TotalOf(Opening)

Verdict ==
    /\ main = "audit" /\ audited = Users
    /\ main' = IF finalTotal = ExpectedTotal THEN "passed" ELSE "drift"
    /\ UNCHANGED <<workerVars, dealVars, sendVars, totals, auditVars>>

-----------------------------------------------------------------------------

MainStep == DealVoucher \/ SendBatch \/ StartWorkers \/ AwaitWorkers \/ AuditWallet \/ Verdict

WorkerStep(r) ==
    \/ TakeBatch(r) \/ CountBatch(r) \/ LeaveWorker(r)
    \/ VoucherStep(r) /\ UNCHANGED mainVars

\* The database fails under a worker or under the audit.
SimTrouble == FailAudit \/ \E r \in Requests : FailVoucher(r) /\ UNCHANGED mainVars

SimNext == MainStep \/ SimTrouble \/ \E r \in Requests : WorkerStep(r)

SimSpec == SimInit /\ [][SimNext]_simVars

\* Goroutines run on.  There are finitely many vouchers, so a row or a
\* connection that a worker waits for is free for good in the end.
SimFairSpec ==
    /\ SimSpec
    /\ WF_simVars(MainStep)
    /\ \A r \in Requests : WF_simVars(WorkerStep(r))

-----------------------------------------------------------------------------
(* Properties.                                                             *)

Ended == {"passed", "drift", "failed"}

\* Every variable of the simulator has its type.
SimTypeOK ==
    /\ StoreTypeOK
    /\ pc \in [Requests -> SyncLabels \cup {"gone"}]
    /\ main \in {"deal", "wait", "audit"} \cup Ended
    /\ dealt \in Seq(Deals) /\ Len(dealt) <= NumTxs
    /\ currentSeq \in [Users -> 0..NumTxs]
    /\ sent \in Nat /\ channel \in Seq(DealtBatches)
    /\ \A r \in Requests : batch[r] = <<>> \/ batch[r] \in DealtBatches
    /\ totals \in [reconciled : Nat, duplicates : Nat, rejected : Nat]
    /\ audited \subseteq Users /\ finalTotal \in Nat

\* "sum(Initial) == sum(Final)": the wallets are read one after the other, so
\* the audit must not run beside a batch, and no batch may lose or make money.
AuditPasses == main # "drift"

\* Reconciled, duplicates and rejected: each voucher that was dealt has been in
\* one batch of one worker, and is in exactly one of the totals.
EveryVoucherCounted ==
    main \in {"audit"} \cup Ended =>
        totals.reconciled + totals.duplicates + totals.rejected = NumTxs

\* A payer's vouchers are spread over batches that different workers take.  A
\* voucher is refused for its number only when a later one of the same payer
\* was settled from another batch first: within a batch they go in order.
RefusedWasOvertaken ==
    \A r \in Requests : \A i \in DOMAIN results[r] :
        results[r][i] = "dup_seq" =>
            \E k \in DOMAIN vouchers :
                /\ vouchers[k].payer = DeviceUser[batch[r][i].device]
                /\ vouchers[k].seq > batch[r][i].seq
                /\ \A j \in DOMAIN batch[r] : batch[r][j].id # vouchers[k].id

\* "micropayments to preserve solvency": a payer whose vouchers add up to no
\* more than the balance at the start has none refused for lack of funds.
SignedBy(u) == {k \in DOMAIN dealt : DeviceUser[dealt[k].device] = u}

SolventVouchersPay ==
    \A r \in Requests : \A i \in DOMAIN results[r] :
        results[r][i] = "no_funds" =>
            LET u == DeviceUser[batch[r][i].device]
            IN  SumFunction([k \in SignedBy(u) |-> dealt[k].amount]) > Opening[u].balance

\* Where the k-th batch of the channel begins among the vouchers, and where a
\* batch that begins there ends.
StartOf(k) == sent - (Len(channel) + 1 - k) * BatchSize
EndOf(n)   == IF n + BatchSize > NumTxs THEN NumTxs ELSE n + BatchSize

\* As many vouchers, the first ones, are with the workers or counted.
Taken  == IF StartOf(1) > NumTxs THEN NumTxs ELSE StartOf(1)
InWork == SumFunction([r \in Requests |-> Len(batch[r])])

\* The batches in the channel follow each other, up to what main has sent.
ChannelOK ==
    /\ 0 <= StartOf(1)
    /\ \A k \in DOMAIN channel :
          /\ StartOf(k) < NumTxs
          /\ channel[k] = SubSeq(dealt, StartOf(k) + 1, EndOf(StartOf(k)))
    /\ Len(dealt) < NumTxs => sent = 0 /\ channel = <<>>

\* The vouchers that have been taken, and no others, are in work or counted;
\* what is settled is among them.
TakenOK ==
    /\ totals.reconciled + totals.duplicates + totals.rejected + InWork = Taken
    /\ \A r \in Requests : \A i \in DOMAIN batch[r] : \E m \in 1..Taken : batch[r][i] = dealt[m]
    /\ \A k \in DOMAIN vouchers : \E m \in 1..Taken :
          /\ vouchers[k].id = dealt[m].id /\ vouchers[k].seq = dealt[m].seq
          /\ vouchers[k].payer = DeviceUser[dealt[m].device]

\* The vouchers differ in their ids; those of a payer are numbered upwards, and
\* nobody pays himself.
DealtOK ==
    /\ \A n \in DOMAIN dealt :
          /\ dealt[n].id = Ids[n]
          /\ dealt[n].payee # DeviceUser[dealt[n].device]
          /\ dealt[n].seq <= currentSeq[DeviceUser[dealt[n].device]]
    /\ \A n \in DOMAIN dealt : \A m \in 1..(n - 1) :
          DeviceUser[dealt[m].device] = DeviceUser[dealt[n].device] => dealt[m].seq < dealt[n].seq
    /\ \A u \in Users : currentSeq[u] <= Len(dealt)

\* A worker settles its batch in ascending order of the numbers.
AscendingOK(r) ==
    /\ \A i \in Todo(r) : \A j \in DOMAIN batch[r] \ Todo(r) : batch[r][j].seq <= batch[r][i].seq
    /\ InVoucher(r) => \A i \in Todo(r) : The(r).seq <= batch[r][i].seq

\* A voucher is in one batch of one worker, and is not settled as long as it is open.
BatchesOK ==
    /\ \A r, q \in Requests : \A i \in DOMAIN batch[r], j \in DOMAIN batch[q] :
          batch[r][i].id = batch[q][j].id => r = q /\ i = j
    /\ \A k \in DOMAIN vouchers, r \in Requests : \A i \in Todo(r) :
          vouchers[k].id # batch[r][i].id
    /\ \A r \in Requests : AscendingOK(r)

\* The last number of a wallet is that of a settled voucher.
NumbersAreSettled ==
    \A u \in Users : wallets[u].lastSeq = 0 \/
        \E k \in DOMAIN vouchers : vouchers[k].payer = u /\ vouchers[k].seq = wallets[u].lastSeq

\* Which workers are at work, and what main has read of the wallets.
StagesOK ==
    /\ \A r \in Requests : /\ pc[r] \in {"idle", "gone"} => batch[r] = <<>>
                           /\ pc[r] = "done" => Todo(r) = {} /\ current[r] = 0
                           /\ pc[r] = "gone" => main # "deal" /\ channel = <<>>
    /\ main = "deal" => \A r \in Requests : At(r, "idle")
    /\ main # "deal" => sent >= NumTxs /\ Len(dealt) = NumTxs
    /\ main \notin {"deal", "wait"} => AllGone
    /\ main \in {"deal", "wait"} => audited = {}
    /\ finalTotal = SumFunction([u \in audited |-> wallets[u].balance])

\* The inductive invariant.
SimInv ==
    /\ SimTypeOK /\ StoreInv /\ SyncCore
    /\ DealtOK /\ ChannelOK /\ TakenOK /\ BatchesOK /\ NumbersAreSettled /\ StagesOK
    /\ TotalOf(wallets) = ExpectedTotal
    /\ AuditPasses
    /\ RefusedWasOvertaken

\* What a payer's vouchers have taken out of his wallet is the most that is
\* missing there.
AmountOf(ks) == SumFunction([k \in ks |-> dealt[k].amount])
Settled(u)   == {k \in SignedBy(u) : \E j \in DOMAIN vouchers : vouchers[j].id = dealt[k].id}
SolvencyOK   == \A u \in Users :
                   Opening[u].balance <= wallets[u].balance + AmountOf(Settled(u))

\* The inductive invariant of the refusals for lack of funds.
SolventInv == SimInv /\ SolvencyOK /\ SolventVouchersPay

\* Main fills the channel before anybody receives, the workers drain it, and
\* main waits for all of them: the program comes to an end.
SimulationEnds == <>(main \in Ended)
=============================================================================

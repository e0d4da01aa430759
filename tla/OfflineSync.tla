---------------------------- MODULE OfflineSync ----------------------------
(***************************************************************************)
(* Reconciliation of offline vouchers: internal/features/offline_sync,     *)
(* with the nonce registry of internal/pkg/crypto and the device keys of   *)
(* internal/features/auth.  A batch is verified, sorted by sequence number *)
(* and settled one voucher after the other, each in a transaction of its   *)
(* own; several batches run at once, in one process or in several.         *)
(***************************************************************************)
EXTENDS Store

CONSTANTS
    Batches,    \* batches a client may upload: sequences of vouchers
    Devices,    \* device public keys
    DeviceUser, \* the user at whose login a device registers its key
    Registered  \* devices registered at the start

Voucher == [id : STRING, nonce : STRING, device : Devices, payee : Nat,
            amount : Int64, seq : Int64, signed : BOOLEAN]

Uploaded == UNION {{b[i] : i \in DOMAIN b} : b \in Batches}
Nonces   == {v.nonce : v \in Uploaded}

ASSUME VoucherAssumption ==
    /\ Batches \subseteq Seq(Voucher)
    /\ DeviceUser \in [Devices -> Users]
    /\ Registered \subseteq Devices

VARIABLES
    devices,    \* table device_keys: device -> user, or None
    vouchers,   \* table offline_vouchers, in commit order
    nonces,     \* the nonce registry of each process
    batch,      \* the vouchers of a request
    results,    \* by voucher of the batch: what became of it
    current,    \* index of the voucher the request works on
    payerOf     \* the user the device of that voucher belongs to

syncVars == <<devices, vouchers, nonces, batch, results, current, payerOf>>

SyncInit ==
    /\ devices = [d \in Devices |-> IF d \in Registered THEN DeviceUser[d] ELSE None]
    /\ vouchers = <<>>
    /\ nonces = [i \in Instances |-> {}]
    /\ batch = [r \in Requests |-> <<>>]
    /\ results = [r \in Requests |-> <<>>]
    /\ current = [r \in Requests |-> 0]
    /\ payerOf = [r \in Requests |-> None]

The(r)  == batch[r][current[r]]
Todo(r) == {i \in DOMAIN batch[r] : results[r][i] = "pending"}

\* Faulty: a voucher that fails verification is processed all the same.
UnverifiedResult(v) == "pending"

\* Verification of one voucher against the key it names.
FirstResult(v) == IF v.signed THEN "pending" ELSE "bad_signature"

-----------------------------------------------------------------------------
(* A batch.                                                                *)

\* A batch arrives and all its signatures are verified.
StartBatch(r, b) ==
    /\ At(r, "idle")
    /\ batch' = [batch EXCEPT ![r] = b]
    /\ results' = [results EXCEPT ![r] = [i \in DOMAIN b |-> FirstResult(b[i])]]
    /\ Goto(r, "next")
    /\ UNCHANGED <<tables, sessions, reply, devices, vouchers, nonces, current, payerOf>>

SubmitBatch(r) == \E b \in Batches : StartBatch(r, b)

\* Faulty: the batch is not sorted.
NextUpAny(r) == Todo(r)

\* sort.Slice by sequence number is not stable: equal numbers in any order.
NextUp(r) ==
    {i \in Todo(r) : \A j \in Todo(r) : batch[r][i].seq <= batch[r][j].seq}

\* The next voucher: its nonce is checked and recorded in one critical section.
TakeVoucher(r) ==
    /\ At(r, "next")
    /\ \E i \in NextUp(r) :
        LET v == batch[r][i] IN
        /\ v.nonce \notin nonces[Home[r]]
        /\ nonces' = [nonces EXCEPT ![Home[r]] = @ \cup {v.nonce}]
        /\ current' = [current EXCEPT ![r] = i]
    /\ Goto(r, "device")
    /\ UNCHANGED <<tables, sessions, reply, devices, vouchers, batch, results, payerOf>>

SeenNonce(r) ==
    /\ At(r, "next")
    /\ \E i \in NextUp(r) :
        /\ batch[r][i].nonce \in nonces[Home[r]]
        /\ results' = [results EXCEPT ![r][i] = "dup_nonce"]
    /\ UNCHANGED <<storeVars, devices, vouchers, nonces, batch, current, payerOf>>

FinishBatch(r) ==
    /\ At(r, "next")
    /\ Todo(r) = {}
    /\ Goto(r, "done")
    /\ Answer(r, "batch_done")
    /\ UNCHANGED <<tables, sessions, syncVars>>

-----------------------------------------------------------------------------
(* One voucher.                                                            *)

\* What became of the current voucher; the locals of processSingleVoucher are
\* gone and the loop goes on with the next one.
Conclude(r, what) ==
    /\ results' = [results EXCEPT ![r][current[r]] = what]
    /\ current' = [current EXCEPT ![r] = 0]
    /\ payerOf' = [payerOf EXCEPT ![r] = None]
    /\ Goto(r, "next")

\* A return of processSingleVoucher that leaves the tables alone; the deferred
\* Rollback, where a transaction is open.
GiveUp(r, what) ==
    /\ EndTx(r)
    /\ Conclude(r, what)
    /\ UNCHANGED <<tables, reply, devices, vouchers, nonces, batch>>

Owner(r) == devices[The(r).device]

\* The device key is looked up through the pool, before the transaction.
ResolveDevice(r) ==
    /\ At(r, "device")
    /\ PoolHasRoom(Home[r])
    /\ Owner(r) # None
    /\ payerOf' = [payerOf EXCEPT ![r] = Owner(r)]
    /\ Goto(r, "open")
    /\ UNCHANGED <<tables, sessions, reply, devices, vouchers, nonces, batch, results, current>>

UnknownDevice(r) ==
    /\ At(r, "device")
    /\ PoolHasRoom(Home[r])
    /\ Owner(r) = None
    /\ GiveUp(r, "rejected")

OpenTx(r) ==
    /\ At(r, "open")
    /\ TakeConn(r)
    /\ Goto(r, "lookup")
    /\ UNCHANGED <<tables, reply, syncVars>>

\* Faulty: offline_vouchers has no unique columns.
RecordedNever(v) == FALSE

\* The voucher or its nonce is in the table: the SELECT before the row locks,
\* and the UNIQUE columns at the INSERT.
Recorded(v) ==
    \E k \in DOMAIN vouchers : vouchers[k].id = v.id \/ vouchers[k].nonce = v.nonce

LookupVoucher(r) ==
    /\ At(r, "lookup")
    /\ ~Recorded(The(r))
    /\ Goto(r, "first")
    /\ UNCHANGED <<tables, sessions, reply, syncVars>>

KnownVoucher(r) ==
    /\ At(r, "lookup")
    /\ Recorded(The(r))
    /\ GiveUp(r, "dup_voucher")

\* Faulty: the payer's wallet first, as Transfer does it.
PayerFirst(payer, payee) == payer

\* The two wallets in the order of their user ids.
First(payer, payee)  == IF payer > payee THEN payee ELSE payer
Second(payer, payee) == IF First(payer, payee) = payer THEN payee ELSE payer

FirstUser(r)  == First(payerOf[r], The(r).payee)
SecondUser(r) == Second(payerOf[r], The(r).payee)

LockFirst(r) ==
    /\ At(r, "first")
    /\ FirstUser(r) \in Users
    /\ LockRow(r, FirstUser(r))
    /\ Goto(r, "second")
    /\ UNCHANGED <<tables, reply, syncVars>>

LockSecond(r) ==
    /\ At(r, "second")
    /\ SecondUser(r) \in Users
    /\ LockRow(r, SecondUser(r))
    /\ Goto(r, "post")
    /\ UNCHANGED <<tables, reply, syncVars>>

NoWallet(r) ==
    /\ \/ At(r, "first")  /\ FirstUser(r) \notin Users
       \/ At(r, "second") /\ SecondUser(r) \notin Users
    /\ GiveUp(r, "rejected")

PayerRow(r) == seen[r][payerOf[r]]

\* Faulty: the last settled number passes once more.
StaleSequenceOff(r) == The(r).seq < PayerRow(r).lastSeq

StaleSequence(r) == The(r).seq <= PayerRow(r).lastSeq

RefuseSequence(r) ==
    /\ At(r, "post")
    /\ StaleSequence(r)
    /\ GiveUp(r, "dup_seq")

\* Faulty: the last of the money cannot be spent.
CanPayStrict(r) == PayerRow(r).balance > The(r).amount

\* The whole balance counts, the escrow included: the escrow is what a voucher
\* is paid from.
CanPay(r) == PayerRow(r).balance >= The(r).amount

RefuseVoucherFunds(r) ==
    /\ At(r, "post")
    /\ ~StaleSequence(r)
    /\ ~CanPay(r)
    /\ GiveUp(r, "no_funds")

Redemption(r) == Payment(None, payerOf[r], The(r).payee, The(r).amount)

\* Faulty: a redemption leaves the escrow as it is.
EscrowKept(r) == PayerRow(r).allocated

\* A redemption uses the escrow up, and not below zero.
EscrowLeft(r) ==
    LET left == PayerRow(r).allocated - The(r).amount
    IN  IF left < 0 THEN 0 ELSE left

PayerRowAfter(r) ==
    [balance   |-> Debited(r, Redemption(r)),
     allocated |-> EscrowLeft(r),
     lastSeq   |-> The(r).seq]

VoucherRow(r) ==
    [id |-> The(r).id, nonce |-> The(r).nonce, payer |-> payerOf[r],
     seq |-> The(r).seq]

\* The UPDATEs, the INSERTs and COMMIT.  When the acknowledgement of the commit
\* is lost, the voucher is settled and reported as rejected.
SettleVoucher(r) ==
    /\ At(r, "post")
    /\ ~StaleSequence(r)
    /\ CanPay(r)
    /\ PaymentFits(r, Redemption(r))
    /\ ~Recorded(The(r))
    /\ PostPayment(r, Redemption(r), PayerRowAfter(r))
    /\ vouchers' = Append(vouchers, VoucherRow(r))
    /\ EndTx(r)
    /\ \E what \in {"reconciled", "rejected"} : Conclude(r, what)
    /\ UNCHANGED <<reply, devices, nonces, batch>>

\* A CHECK or a UNIQUE constraint refuses a statement.
RefuseVoucher(r) ==
    /\ At(r, "post")
    /\ ~StaleSequence(r)
    /\ CanPay(r)
    /\ ~PaymentFits(r, Redemption(r)) \/ Recorded(The(r))
    /\ GiveUp(r, "rejected")

InVoucher(r) == pc[r] \in {"device", "open", "lookup", "first", "second", "post"}

\* The context ends or the database fails: the voucher is rejected and the loop
\* goes on to the next one.
FailVoucher(r) ==
    /\ InVoucher(r)
    /\ GiveUp(r, "rejected")

-----------------------------------------------------------------------------
(* Beside the batches.                                                     *)

\* POST /auth/device/register: a key that is known keeps its user.
RegisterDevice(d) ==
    /\ devices[d] = None
    /\ devices' = [devices EXCEPT ![d] = DeviceUser[d]]
    /\ UNCHANGED <<storeVars, vouchers, nonces, batch, results, current, payerOf>>

\* The clean-up loop of the registry drops a nonce whose TTL (24 h) is over.
ForgetNonce(i, n) ==
    /\ n \in nonces[i]
    /\ nonces' = [nonces EXCEPT ![i] = @ \ {n}]
    /\ UNCHANGED <<storeVars, devices, vouchers, batch, results, current, payerOf>>

\* The nonce registry is not persisted.
CrashSync(i) == nonces' = [nonces EXCEPT ![i] = {}]

-----------------------------------------------------------------------------

VoucherStep(r) ==
    \/ TakeVoucher(r) \/ SeenNonce(r) \/ FinishBatch(r)
    \/ ResolveDevice(r) \/ UnknownDevice(r) \/ OpenTx(r)
    \/ LookupVoucher(r) \/ KnownVoucher(r)
    \/ LockFirst(r) \/ LockSecond(r) \/ NoWallet(r)
    \/ RefuseSequence(r) \/ RefuseVoucherFunds(r)
    \/ SettleVoucher(r) \/ RefuseVoucher(r)

SyncRequest(r) == SubmitBatch(r) \/ FailVoucher(r) \/ VoucherStep(r)

SyncForget == \E i \in Instances, n \in Nonces : ForgetNonce(i, n)

SyncRegister == \E d \in Devices : RegisterDevice(d)

SyncCrash == \E i \in Instances :
    /\ CrashStore(i)
    /\ CrashSync(i)
    /\ UNCHANGED <<devices, vouchers, batch, results, current, payerOf>>

syncAll == <<storeVars, syncVars>>

SyncDone == (\A r \in Requests : At(r, "done")) /\ UNCHANGED syncAll

SyncNext ==
    \/ \E r \in Requests : SyncRequest(r)
    \/ SyncForget
    \/ SyncRegister
    \/ SyncCrash
    \/ SyncDone

SyncInitial == StoreInit /\ SyncInit

SyncSpec == SyncInitial /\ [][SyncNext]_syncAll

-----------------------------------------------------------------------------
(* Properties.                                                             *)

SyncLabels == {"idle", "next", "device", "open", "lookup", "first", "second",
               "post", "done"}

SyncResults == {"pending", "reconciled", "bad_signature", "dup_nonce",
                "dup_voucher", "dup_seq", "no_funds", "rejected"}

Redemptions == [key : {None}, payer : Users, payee : Users, amount : Int64]

VoucherRows == [id : STRING, nonce : STRING, payer : Users, seq : Int64]

SyncDataOK ==
    /\ devices \in [Devices -> Users \cup {None}]
    /\ vouchers \in Seq(VoucherRows)
    /\ nonces \in [Instances -> SUBSET Nonces]
    /\ payerOf \in [Requests -> Users \cup {None}]
    /\ batch \in [Requests -> Batches \cup {<<>>}]
    /\ results \in [Requests -> Seq(SyncResults)]
    /\ current \in [Requests -> Nat]
    /\ \A r \in Requests : /\ DOMAIN results[r] = DOMAIN batch[r]
                           /\ current[r] \in DOMAIN batch[r] \cup {0}

\* Every variable has its type.
SyncTypeOK ==
    /\ StoreTypeOK
    /\ SyncDataOK
    /\ transactions \in Seq(Redemptions)
    /\ pc \in [Requests -> SyncLabels]
    /\ reply \in [Requests -> {"none", "batch_done"}]

SyncWants == [r \in Requests |->
    (CASE At(r, "first")  -> {FirstUser(r)}
       [] At(r, "second") -> {SecondUser(r)}
       [] OTHER           -> {}) \cap Users]

\* Locking in the order of user ids is deadlock-free: no set of batches waits
\* for each other's rows in a circle.
NoSyncLockCycle == ~LockCycle(SyncWants)

\* A voucher, and a nonce, is settled at most once, whichever processes the
\* batches reach, and however often the registry forgets.
VoucherSettledOnce ==
    \A j, k \in DOMAIN vouchers :
        vouchers[j].id = vouchers[k].id \/ vouchers[j].nonce = vouchers[k].nonce
            => j = k

\* The vouchers of a payer settle in strictly increasing sequence order, and
\* the wallet remembers the last number.
SequenceMonotone ==
    \A k \in DOMAIN vouchers :
        /\ vouchers[k].seq <= wallets[vouchers[k].payer].lastSeq
        /\ \A j \in 1..(k - 1) :
              vouchers[j].payer = vouchers[k].payer => vouchers[j].seq < vouchers[k].seq

\* What is reported as reconciled has been settled.
ReconciledIsSettled ==
    \A r \in Requests : \A i \in DOMAIN results[r] :
        results[r][i] = "reconciled" =>
            /\ batch[r][i].signed
            /\ \E k \in DOMAIN vouchers : vouchers[k].id = batch[r][i].id

\* How far a voucher has got and what that guarantees: which rows the request
\* has locked, in which order, and for whom.
SyncStageOK(r) ==
    /\ pc[r] \in {"idle", "next"} => current[r] = 0
    /\ InVoucher(r) => /\ current[r] \in DOMAIN batch[r]
                       /\ results[r][current[r]] = "pending"
    /\ pc[r] \in {"open", "lookup", "first", "second", "post"} =>
          payerOf[r] \in Users /\ payerOf[r] = DeviceUser[The(r).device]
    /\ pc[r] \in {"second", "post"} =>
          FirstUser(r) \in Users /\ rowLock[FirstUser(r)] = r
    /\ pc[r] = "post" => SecondUser(r) \in Users /\ rowLock[SecondUser(r)] = r
    /\ \A i \in DOMAIN batch[r] : results[r][i] # "bad_signature" => batch[r][i].signed

\* A request has no other rows locked than those of its voucher.
SyncLocksOK(r) ==
    \A u \in Users : rowLock[u] = r =>
        \/ pc[r] \in {"second", "post"} /\ u = FirstUser(r)
        \/ pc[r] = "post" /\ u = SecondUser(r)

\* A device belongs to the user at whose login it was registered, or to nobody.
DevicesKeepUser == \A d \in Devices : devices[d] \in {DeviceUser[d], None}

\* What reconciliation keeps true on its own, whatever other services run on the
\* same tables.
SyncCore ==
    /\ SyncDataOK
    /\ VoucherSettledOnce
    /\ SequenceMonotone
    /\ ReconciledIsSettled
    /\ DevicesKeepUser
    /\ \A r \in Requests : SyncStageOK(r)

\* The inductive invariant: each request locks the rows of its voucher in the
\* order of the user ids and posts what it has read under those locks.
SyncInv ==
    /\ SyncTypeOK
    /\ StoreInv
    /\ SyncCore
    /\ \A r \in Requests : SyncLocksOK(r)

\* Nobody has signed a voucher to himself; the service does not refuse one, and
\* settles it wrongly.
NoSelfVouchers == \A v \in Uploaded : v.payee # DeviceUser[v.device]

\* The vouchers a user has signed; one without a positive amount pays nothing.
Issued(u) == {v \in Uploaded : v.signed /\ v.amount > 0 /\ DeviceUser[v.device] = u}

\* Money in escrow is there when the vouchers arrive: a payer who has signed no
\* more than the escrow holds never has a voucher refused for lack of funds,
\* whatever is transferred or redeemed in the meantime.
EscrowedVouchersPay ==
    \A r \in Requests : \A i \in DOMAIN results[r] :
        results[r][i] = "no_funds" =>
            LET u == DeviceUser[batch[r][i].device]
            IN  SumFunction([v \in Issued(u) |-> v.amount]) > Opening[u].allocated

\* What a settled voucher uses up.
VoucherNote(payer, v) == {<<"id", v.id>>, <<"nonce", v.nonce>>, <<"seq", payer, v.seq>>}

SpentVouchers == UNION {VoucherNote(vouchers[k].payer, vouchers[k]) : k \in DOMAIN vouchers}
VoucherNotes  == {VoucherNote(DeviceUser[v.device], v) : v \in Uploaded}

\* Every batch that was uploaded has been answered: none is being worked on, and
\* none died with its process.
AllAnswered ==
    \A r \in Requests : At(r, "idle") \/ (At(r, "done") /\ reply[r] = "batch_done")

\* "duplicate nonce / voucher already processed": when all batches have been
\* answered, a voucher refused for its nonce has been settled.
DuplicateIsProcessed ==
    AllAnswered => \A r \in Requests : \A i \in DOMAIN results[r] :
        results[r][i] = "dup_nonce" =>
            \E k \in DOMAIN vouchers : vouchers[k].nonce = batch[r][i].nonce
=============================================================================

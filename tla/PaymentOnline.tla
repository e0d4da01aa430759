--------------------------- MODULE PaymentOnline ---------------------------
(***************************************************************************)
(* Online transfers: internal/features/payment_online, with the            *)
(* idempotency lock of internal/pkg/redis.  A transfer takes the lock of   *)
(* its idempotency key, opens a transaction, resolves the recipient, locks *)
(* the payer's and then the recipient's wallet row, posts both sides,      *)
(* commits, and only then gives the key back.                              *)
(***************************************************************************)
EXTENDS Store

CONSTANTS
    Transfers,  \* transfer requests a client may send
    UseMemory,  \* processes that fell back to the in-memory lock store
    Redis       \* the lock store shared by the other processes

ASSUME TransferAssumption ==
    /\ \A t \in Transfers :
          /\ t = Payment(t.key, t.payer, t.payee, t.amount)
          /\ t.payer \in Users /\ t.payee \in Nat /\ t.amount \in Int64
    /\ UseMemory \subseteq Instances
    /\ Redis \notin Instances

VARIABLES
    order,      \* the transfer a request asks for
    keyLock     \* by lock store: idempotency key -> request that holds it

onlineVars == <<order, keyLock>>

\* POST /payments/online without an idempotency key gets a fresh uuid.
KeyOf(r, t) == IF t.key = None THEN r ELSE t.key

ClientKeys == {t.key : t \in Transfers} \ {None}
Keys       == ClientKeys \cup Requests
LockStores == UseMemory \cup {Redis}

InMemory(r)  == Home[r] \in UseMemory
StoreOf(r)   == IF InMemory(r) THEN Home[r] ELSE Redis
Key(r)       == order[r].key
Holder(r)    == keyLock[StoreOf(r)][Key(r)]
SetHolder(r, q) == keyLock' = [keyLock EXCEPT ![StoreOf(r)][Key(r)] = q]

OnlineInit ==
    /\ order = [r \in Requests |-> None]
    /\ keyLock = [s \in LockStores |-> [k \in Keys |-> None]]

-----------------------------------------------------------------------------
(* The steps of one transfer.                                              *)

\* A client posts a transfer; the handler refuses an amount that is not
\* positive before anything else happens.
SubmitTransfer(r) ==
    /\ At(r, "idle")
    /\ \E t \in Transfers :
        /\ order' = [order EXCEPT ![r] = [t EXCEPT !.key = KeyOf(r, t)]]
        /\ IF t.amount > 0 THEN Goto(r, "lock") /\ UNCHANGED reply
                           ELSE Goto(r, "done") /\ Answer(r, "refused")
    /\ UNCHANGED <<tables, sessions, keyLock>>

\* SETNX, or the map of the in-memory store.
AcquireKey(r) ==
    /\ At(r, "lock")
    /\ Holder(r) = None
    /\ SetHolder(r, r)
    /\ Goto(r, "begin")
    /\ UNCHANGED <<tables, sessions, order, reply>>

\* Somebody has the key, or Redis does not answer: the transfer is refused.
KeyBusy(r) ==
    /\ At(r, "lock")
    /\ Holder(r) # None \/ ~InMemory(r)
    /\ Goto(r, "done")
    /\ Answer(r, "busy")
    /\ UNCHANGED <<tables, sessions, order, keyLock>>

\* Redis sets the key but the answer is lost: refused, and nobody releases it.
KeyLost(r) ==
    /\ At(r, "lock")
    /\ ~InMemory(r)
    /\ Holder(r) = None
    /\ SetHolder(r, r)
    /\ Goto(r, "done")
    /\ Answer(r, "busy")
    /\ UNCHANGED <<tables, sessions, order>>

BeginTransfer(r) ==
    /\ At(r, "begin")
    /\ TakeConn(r)
    /\ Goto(r, "resolve")
    /\ UNCHANGED <<tables, order, keyLock, reply>>

\* Every return with an error inside the transaction: the deferred Rollback
\* runs first, then the deferred ReleaseLock.
RollbackTransfer(r, what) ==
    /\ EndTx(r)
    /\ Goto(r, "release")
    /\ Answer(r, what)
    /\ UNCHANGED <<tables, order, keyLock>>

\* Faulty: paying oneself is not refused.
PayableAnyone(t) == t.payee \in Users

\* The recipient has an account with a wallet and is not the payer.
Payable(t) == t.payee \in Users /\ t.payee # t.payer

ResolvePayee(r) ==
    /\ At(r, "resolve")
    /\ Payable(order[r])
    /\ Goto(r, "payer")
    /\ UNCHANGED <<tables, sessions, order, keyLock, reply>>

RefusePayee(r) ==
    /\ At(r, "resolve")
    /\ ~Payable(order[r])
    /\ RollbackTransfer(r, "refused")

\* Faulty: the escrow counts as spendable.
AvailableAll(row) == row.balance

Available(row) == row.balance - row.allocated

\* The payer's row, FOR UPDATE, and the check of the available balance.
LockPayer(r) ==
    /\ At(r, "payer")
    /\ LockRow(r, order[r].payer)
    /\ Available(wallets[order[r].payer]) >= order[r].amount
    /\ Goto(r, "payee")
    /\ UNCHANGED <<tables, order, keyLock, reply>>

RefuseFunds(r) ==
    /\ At(r, "payer")
    /\ RowFree(r, order[r].payer)
    /\ Available(wallets[order[r].payer]) < order[r].amount
    /\ RollbackTransfer(r, "refused")

\* The recipient's row, FOR UPDATE.
LockPayee(r) ==
    /\ At(r, "payee")
    /\ LockRow(r, order[r].payee)
    /\ Goto(r, "settle")
    /\ UNCHANGED <<tables, order, keyLock, reply>>

\* Faulty: the idempotency key of a transaction is not unique.
KeyClashNever(r) == FALSE

\* transactions.idempotency_key is UNIQUE.
KeyClash(r) == KeyTaken(Key(r))

\* The UPDATEs, the INSERTs and COMMIT.  When the acknowledgement of the commit
\* is lost, the payment is settled and the client is told of an error.
SettleTransfer(r) ==
    /\ At(r, "settle")
    /\ PaymentFits(r, order[r])
    /\ ~KeyClash(r)
    /\ PostPayment(r, order[r],
            [wallets[order[r].payer] EXCEPT !.balance = Debited(r, order[r])])
    /\ EndTx(r)
    /\ Goto(r, "release")
    /\ \E what \in {"settled", "error"} : Answer(r, what)
    /\ UNCHANGED <<order, keyLock>>

\* A CHECK or the UNIQUE constraint refuses a statement.
RefuseStatement(r) ==
    /\ At(r, "settle")
    /\ ~PaymentFits(r, order[r]) \/ KeyClash(r)
    /\ RollbackTransfer(r, "error")

InTransfer(r) == pc[r] \in {"begin", "resolve", "payer", "payee", "settle"}

\* The context ends (60 s, or the client hangs up) or the database fails.
FailTransfer(r) ==
    /\ InTransfer(r)
    /\ RollbackTransfer(r, "error")

OnlineWants == [r \in Requests |->
    CASE At(r, "payer") -> {order[r].payer}
      [] At(r, "payee") -> {order[r].payee}
      [] OTHER          -> {}]

\* PostgreSQL cancels one transaction of a deadlock (deadlock_timeout).
DeadlockVictim(r) ==
    /\ InLockCycle(r, OnlineWants)
    /\ RollbackTransfer(r, "error")

\* Faulty: the token is not compared.
MayDeleteAny(r) == TRUE

\* Redis deletes the key for its owner's token only; the in-memory store
\* deletes it for whoever asks.
MayDelete(r) == InMemory(r) \/ Holder(r) = r

\* The deferred ReleaseLock; with a context that has ended, Redis is not
\* reached and the key stays until its TTL.
ReleaseKey(r) ==
    /\ At(r, "release")
    /\ \/ IF MayDelete(r) THEN SetHolder(r, None) ELSE UNCHANGED keyLock
       \/ ~InMemory(r) /\ UNCHANGED keyLock
    /\ Goto(r, "done")
    /\ UNCHANGED <<tables, sessions, order, reply>>

\* The TTL of a key (10 s) passes: nothing ties it to how long a transfer takes.
ExpireKey(s, k) ==
    /\ keyLock[s][k] # None
    /\ keyLock' = [keyLock EXCEPT ![s][k] = None]
    /\ UNCHANGED <<storeVars, order>>

\* A process dies: its in-memory lock store goes with it, Redis stays.
CrashOnline(i) ==
    keyLock' = [s \in LockStores |-> IF s = i THEN [k \in Keys |-> None] ELSE keyLock[s]]

-----------------------------------------------------------------------------

TransferStep(r) ==
    \/ AcquireKey(r) \/ KeyBusy(r)
    \/ BeginTransfer(r) \/ ResolvePayee(r) \/ RefusePayee(r)
    \/ LockPayer(r) \/ RefuseFunds(r) \/ LockPayee(r)
    \/ SettleTransfer(r) \/ RefuseStatement(r)
    \/ ReleaseKey(r)

OnlineServe(r) == TransferStep(r) \/ DeadlockVictim(r)

OnlineRequest(r) ==
    SubmitTransfer(r) \/ KeyLost(r) \/ FailTransfer(r) \/ OnlineServe(r)

ExpireSome == \E s \in LockStores, k \in Keys : ExpireKey(s, k)

OnlineCrash == \E i \in Instances :
    CrashStore(i) /\ CrashOnline(i) /\ UNCHANGED order

AllDone == (\A r \in Requests : At(r, "done")) /\ UNCHANGED <<storeVars, onlineVars>>

OnlineNext ==
    \/ \E r \in Requests : OnlineRequest(r)
    \/ ExpireSome
    \/ OnlineCrash
    \/ AllDone

onlineAll == <<storeVars, onlineVars>>

OnlineInitial == StoreInit /\ OnlineInit

OnlineSpec == OnlineInitial /\ [][OnlineNext]_onlineAll

-----------------------------------------------------------------------------
(* Properties.                                                             *)

TransferLabels == {"lock", "begin", "resolve", "payer", "payee", "settle", "release"}

OnlineLabels == TransferLabels \cup {"idle", "done"}

OnlineReplies == {"none", "settled", "refused", "busy", "error"}

Orders == [key : Keys, payer : Users, payee : Nat, amount : Int64]

\* A row of the table transactions, whichever service wrote it: vouchers and
\* fundings have no idempotency key, fundings have no payer.
Posted == [key : Keys \cup {None}, payer : Users \cup {None}, payee : Nat, amount : Int64]

KeyLocks == [LockStores -> [Keys -> Requests \cup {None}]]

\* Every variable has its type.
OnlineTypeOK ==
    /\ StoreTypeOK
    /\ pc \in [Requests -> OnlineLabels]
    /\ reply \in [Requests -> OnlineReplies]
    /\ order \in [Requests -> Orders \cup {None}]
    /\ transactions \in Seq(Orders)
    /\ keyLock \in KeyLocks

\* How far a transfer has got and what that guarantees: rows it has locked and
\* money it has found there stay until it settles.
StageOK(r) ==
    /\ pc[r] \in TransferLabels => order[r] \in Orders
    /\ pc[r] \in TransferLabels \ {"release"} => order[r].amount > 0
    /\ pc[r] \in {"payer", "payee", "settle"} => Payable(order[r])
    /\ pc[r] \in {"payee", "settle"} =>
          /\ rowLock[order[r].payer] = r
          /\ Available(wallets[order[r].payer]) >= order[r].amount
    /\ pc[r] = "settle" => rowLock[order[r].payee] = r

\* What transfers keep true on their own, whatever other services run on the
\* same tables.
TransferCore ==
    /\ order \in [Requests -> Orders \cup {None}]
    /\ keyLock \in KeyLocks
    /\ transactions \in Seq(Posted)
    /\ NoDoubleCharge
    /\ \A r \in Requests : StageOK(r)

\* The inductive invariant: what a transfer has checked under its locks still
\* holds when it posts, whatever the others do in between.
OnlineInv ==
    /\ OnlineTypeOK
    /\ StoreInv
    /\ JournalChain
    /\ TransferCore

\* A transfer never deadlocks with others: no set of transfers waits for each
\* other's rows in a circle.
NoLockCycle == ~LockCycle(OnlineWants)

\* ReleaseLock frees a key only for the request that holds it: a slow transfer
\* whose key has expired does not free the key of the retry that took it over.
\* (A crash empties the in-memory store too; that is not a release.)
ReleasesOwnKey ==
    [][\A r \in Requests : ReleaseKey(r) =>
          \A s \in LockStores, k \in Keys :
              keyLock[s][k] \notin {r, None} => keyLock'[s][k] = keyLock[s][k]
      ]_onlineAll

\* The idempotency keys that have been used.
Keyed     == {i \in DOMAIN transactions : transactions[i].key # None}
SpentKeys == {<<"key", transactions[i].key>> : i \in Keyed}
KeyNotes  == {{<<"key", k>>} : k \in Keys}

OnlineBank == INSTANCE Bank WITH
    Notes   <- KeyNotes,
    balance <- [u \in Users |-> wallets[u].balance],
    escrow  <- [u \in Users |-> wallets[u].allocated],
    spent   <- SpentKeys

\* Interleaved, retried, failing and crashing transfers move money as if each
\* were one step, at most once per key, and never out of the escrow.
OnlineImplementsBank == OnlineBank!BankSpec
=============================================================================

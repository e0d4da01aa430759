---------------------------- MODULE OnlineProofs ----------------------------
(***************************************************************************)
(* Proofs about PaymentOnline, for any users, requests, processes and      *)
(* transfers.                                                              *)
(***************************************************************************)
EXTENDS PaymentOnline, StoreProofs

-----------------------------------------------------------------------------
(* What the constants give.                                                *)

LEMMA OrderType ==
    ASSUME NEW r \in Requests, NEW t \in Transfers
    PROVE  [t EXCEPT !.key = KeyOf(r, t)] \in Orders
<1>1. /\ t = [key |-> t.key, payer |-> t.payer, payee |-> t.payee, amount |-> t.amount]
      /\ t.payer \in Users /\ t.payee \in Nat /\ t.amount \in Int64
    BY TransferAssumption DEF Payment
<1>2. KeyOf(r, t) \in Keys
    BY DEF KeyOf, Keys, ClientKeys
<1>3. [t EXCEPT !.key = KeyOf(r, t)] =
        [key |-> KeyOf(r, t), payer |-> t.payer, payee |-> t.payee, amount |-> t.amount]
    BY <1>1
<1>. QED BY <1>1, <1>2, <1>3 DEF Orders

LEMMA KeyStoreType ==
    ASSUME NEW r \in Requests
    PROVE  StoreOf(r) \in LockStores
BY StoreAssumption, TransferAssumption DEF StoreOf, InMemory, LockStores

\* Nobody is known by the null value of a key.
LEMMA KeysNotNone == None \notin Keys
BY StoreAssumption DEF Keys, ClientKeys

-----------------------------------------------------------------------------
(* Steps of others.                                                        *)

\* A transfer whose rows nobody touches stays where it is.
LEMMA StageKept ==
    ASSUME NEW q \in Requests, StageOK(q), pc'[q] = pc[q], order'[q] = order[q],
           \A u \in Users : rowLock[u] = q => rowLock'[u] = q /\ wallets'[u] = wallets[u]
    PROVE  StageOK(q)'
<1>1. pc[q] \in {"payee", "settle"} => order[q].payer \in Users
    BY DEF StageOK, Orders, TransferLabels
<1>2. pc[q] = "settle" => order[q].payee \in Users
    BY DEF StageOK, Payable
<1>. QED BY <1>1, <1>2 DEF StageOK, Payable, Available

\* A request that is not in a transfer promises nothing.
LEMMA StageOutside ==
    ASSUME NEW q \in Requests, pc'[q] \notin TransferLabels
    PROVE  StageOK(q)'
BY DEF StageOK, TransferLabels

\* A row without a key charges no key twice.
LEMMA KeylessRow ==
    ASSUME NoDoubleCharge, transactions \in Seq(Posted), NEW t \in Posted, t.key = None,
           transactions' = Append(transactions, t)
    PROVE  NoDoubleCharge' /\ transactions' \in Seq(Posted)
<1>. DEFINE n == Len(transactions)
<1>1. /\ DOMAIN transactions = 1..n /\ DOMAIN transactions' = 1..(n + 1) /\ n \in Nat
      /\ transactions'[n + 1] = t
      /\ \A i \in 1..n : transactions'[i] = transactions[i]
      /\ transactions' \in Seq(Posted)
    <2>. HIDE DEF Posted
    <2>. QED OBVIOUS
<1>. HIDE DEF n
<1>2. \A i, j \in 1..(n + 1) :
        transactions'[i].key # None /\ transactions'[i].key = transactions'[j].key =>
            i \in 1..n /\ j \in 1..n
    BY <1>1
<1>. QED BY <1>1, <1>2 DEF NoDoubleCharge

\* What other services and a crash do to transfers: nothing, as long as they
\* leave the rows alone that a transfer has locked and post without a key.
LEMMA TransferUntouched ==
    ASSUME TransferCore, UNCHANGED order, keyLock' \in KeyLocks,
           \/ UNCHANGED transactions
           \/ \E t \in Posted : t.key = None /\ transactions' = Append(transactions, t),
           \A q \in Requests :
              \/ pc'[q] \notin TransferLabels
              \/ /\ pc'[q] = pc[q]
                 /\ \A u \in Users :
                      rowLock[u] = q => rowLock'[u] = q /\ wallets'[u] = wallets[u]
    PROVE  TransferCore'
<1>1. NoDoubleCharge' /\ transactions' \in Seq(Posted)
    <2>1. CASE UNCHANGED transactions
        BY <2>1 DEF TransferCore, NoDoubleCharge
    <2>2. CASE \E t \in Posted : t.key = None /\ transactions' = Append(transactions, t)
        <3>1. PICK t \in Posted : t.key = None /\ transactions' = Append(transactions, t)
            BY <2>2
        <3>. HIDE DEF Posted
        <3>. QED BY <3>1, KeylessRow DEF TransferCore
    <2>. QED BY <2>1, <2>2
<1>2. ASSUME NEW q \in Requests PROVE StageOK(q)'
    BY StageKept, StageOutside DEF TransferCore
<1>. QED BY <1>1, <1>2 DEF TransferCore

\* A step of r that posts nothing.
LEMMA OwnTransferStep ==
    ASSUME TransferCore, NEW r \in Requests, StepOf(r), UNCHANGED transactions,
           order' \in [Requests -> Orders \cup {None}], keyLock' \in KeyLocks,
           \A q \in Requests \ {r} : order'[q] = order[q], StageOK(r)'
    PROVE  TransferCore'
<1>1. NoDoubleCharge'
    BY DEF TransferCore, NoDoubleCharge
<1>2. ASSUME NEW q \in Requests PROVE StageOK(q)'
    BY StageKept DEF TransferCore, StepOf
<1>. QED BY <1>1, <1>2 DEF TransferCore

-----------------------------------------------------------------------------
(* Steps of a transfer that post nothing.                                  *)

LEMMA SubmitStep ==
    ASSUME StoreInv, TransferCore, NEW r \in Requests, SubmitTransfer(r)
    PROVE  StoreInv' /\ StepOf(r) /\ TransferCore'
<1>1. PICK t \in Transfers :
        /\ order' = [order EXCEPT ![r] = [t EXCEPT !.key = KeyOf(r, t)]]
        /\ IF t.amount > 0 THEN Goto(r, "lock") /\ UNCHANGED reply
                           ELSE Goto(r, "done") /\ Answer(r, "refused")
    BY DEF SubmitTransfer
<1>2. UNCHANGED <<tables, sessions, keyLock>>
    BY DEF SubmitTransfer
<1>3. [t EXCEPT !.key = KeyOf(r, t)] \in Orders
    BY OrderType
<1>4. [t EXCEPT !.key = KeyOf(r, t)].amount = t.amount
    BY TransferAssumption DEF Payment
<1>5. StoreInv' /\ StepOf(r)
    BY <1>1, <1>2, MoveStoreStep DEF sessions, StoreInv, StoreTypeOK
<1>. HIDE DEF Orders
<1>6. /\ order' \in [Requests -> Orders \cup {None}]
      /\ order'[r] = [t EXCEPT !.key = KeyOf(r, t)]
      /\ \A q \in Requests \ {r} : order'[q] = order[q]
    BY <1>1, <1>3 DEF TransferCore
<1>7. StageOK(r)'
    <2>1. pc'[r] = (IF t.amount > 0 THEN "lock" ELSE "done")
        BY <1>1 DEF Goto, StoreInv
    <2>. QED BY <1>3, <1>4, <1>6, <2>1 DEF StageOK, TransferLabels
<1>. QED BY <1>2, <1>5, <1>6, <1>7, OwnTransferStep DEF TransferCore, tables

\* The steps around the key and the recipient move a request from one label to
\* another and change at most the key locks and the pool.
LEMMA MoveStep ==
    ASSUME StoreInv, TransferCore, NEW r \in Requests,
           UNCHANGED <<tables, rowLock, seen, order>>,
           NEW label, Goto(r, label), conns' \in SUBSET Requests, keyLock' \in KeyLocks,
           StageOK(r)'
    PROVE  StoreInv' /\ StepOf(r) /\ TransferCore'
<1>1. StoreInv' /\ StepOf(r)
    BY MoveStoreStep
<1>. QED BY <1>1, OwnTransferStep DEF TransferCore, tables

LEMMA HolderType ==
    ASSUME TransferCore, NEW r \in Requests, order[r] \in Orders,
           NEW q \in Requests \cup {None}, SetHolder(r, q)
    PROVE  keyLock' \in KeyLocks
<1>1. StoreOf(r) \in LockStores /\ Key(r) \in Keys
    BY KeyStoreType DEF Key, Orders
<1>. QED BY <1>1 DEF SetHolder, TransferCore, KeyLocks

LEMMA KeySteps ==
    ASSUME StoreInv, TransferCore, NEW r \in Requests,
           \/ AcquireKey(r) \/ KeyBusy(r) \/ KeyLost(r) \/ ReleaseKey(r)
           \/ BeginTransfer(r) \/ ResolvePayee(r)
    PROVE  StoreInv' /\ StepOf(r) /\ TransferCore'
<1>. USE DEF At, TransferLabels, tables, sessions
<1>1. /\ pc[r] \in {"lock", "release", "begin", "resolve"} /\ StageOK(r)
      /\ order[r] \in Orders
    BY DEF AcquireKey, KeyBusy, KeyLost, ReleaseKey, BeginTransfer, ResolvePayee,
           TransferCore, StageOK
<1>2. /\ UNCHANGED <<tables, rowLock, seen, order>>
      /\ conns' \in SUBSET Requests
    BY DEF AcquireKey, KeyBusy, KeyLost, ReleaseKey, BeginTransfer, ResolvePayee, TakeConn,
           StoreInv, StoreTypeOK
<1>3. keyLock' \in KeyLocks
    <2>1. CASE UNCHANGED keyLock
        BY <2>1 DEF TransferCore
    <2>2. CASE ~ UNCHANGED keyLock
        <3>1. SetHolder(r, r) \/ SetHolder(r, None)
            BY <2>2 DEF AcquireKey, KeyBusy, KeyLost, ReleaseKey, BeginTransfer, ResolvePayee
        <3>. QED BY <1>1, <3>1, HolderType
    <2>. QED BY <2>1, <2>2
<1>4. PICK label : /\ Goto(r, label)
                   /\ \/ label = "done"
                      \/ label = "begin" /\ pc[r] = "lock"
                      \/ label = "resolve" /\ pc[r] = "begin"
                      \/ label = "payer" /\ pc[r] = "resolve" /\ Payable(order[r])
    BY DEF AcquireKey, KeyBusy, KeyLost, ReleaseKey, BeginTransfer, ResolvePayee
<1>5. StageOK(r)'
    <2>1. pc'[r] = label
        BY <1>4 DEF Goto, StoreInv
    <2>2. label # "done" => order[r].amount > 0
        BY <1>1, <1>4 DEF StageOK
    <2>. QED BY <1>1, <1>2, <1>4, <2>1, <2>2 DEF StageOK, Payable
<1>. QED BY <1>2, <1>3, <1>4, <1>5, MoveStep

\* A rollback gives back the locks of one request and changes nothing else.
LEMMA RollbackStep ==
    ASSUME StoreInv, TransferCore, NEW r \in Requests, InTransfer(r),
           NEW what, RollbackTransfer(r, what)
    PROVE  StoreInv' /\ StepOf(r) /\ TransferCore'
<1>. USE DEF RollbackTransfer
<1>1. StoreInv' /\ StepOf(r)
    BY RollbackStoreStep
<1>2. order[r] \in Orders
    BY DEF TransferCore, StageOK, InTransfer, TransferLabels
<1>3. StageOK(r)'
    <2>1. pc'[r] = "release"
        BY DEF Goto, StoreInv
    <2>. QED BY <1>2, <2>1 DEF StageOK
<1>. QED BY <1>1, <1>3, OwnTransferStep DEF TransferCore, tables

\* The ways to give a transfer up.
LEMMA RefusalIsRollback ==
    ASSUME NEW r \in Requests,
           \/ RefusePayee(r) \/ RefuseFunds(r) \/ RefuseStatement(r) \/ FailTransfer(r)
           \/ DeadlockVictim(r)
    PROVE  InTransfer(r) /\ \E what \in OnlineReplies : RollbackTransfer(r, what)
<1>. USE DEF At, InTransfer, OnlineReplies
<1>1. CASE DeadlockVictim(r)
    <2>1. PICK u \in OnlineWants[r] : TRUE
        BY <1>1 DEF DeadlockVictim, InLockCycle, Deadlocked
    <2>2. pc[r] \in {"payer", "payee"}
        BY <2>1 DEF OnlineWants
    <2>. QED BY <1>1, <2>2 DEF DeadlockVictim
<1>. QED BY <1>1 DEF RefusePayee, RefuseFunds, RefuseStatement, FailTransfer

-----------------------------------------------------------------------------
(* The steps that take row locks and the step that pays.                   *)

\* What both LockPayer and LockPayee do to the others.
LEMMA LockStep ==
    ASSUME StoreInv, TransferCore, NEW r \in Requests, NEW u \in Users, LockRow(r, u),
           NEW label, Goto(r, label), UNCHANGED <<tables, order, keyLock>>, StageOK(r)'
    PROVE  StoreInv' /\ StepOf(r) /\ TransferCore'
<1>1. StoreInv' /\ StepOf(r)
    BY LockStoreStep
<1>. QED BY <1>1, OwnTransferStep DEF TransferCore, tables

LEMMA LockPayerStep ==
    ASSUME StoreInv, TransferCore, NEW r \in Requests, LockPayer(r)
    PROVE  StoreInv' /\ StepOf(r) /\ TransferCore'
<1>. USE DEF LockPayer, TransferLabels
<1>1. pc[r] = "payer" /\ order[r] \in Orders /\ order[r].payer \in Users
    BY DEF At, TransferCore, StageOK, Orders
<1>2. /\ order[r].amount > 0 /\ Payable(order[r])
      /\ Available(wallets[order[r].payer]) >= order[r].amount
    BY <1>1 DEF TransferCore, StageOK
<1>3. pc'[r] = "payee" /\ rowLock'[order[r].payer] = r
    BY <1>1 DEF Goto, LockRow, StoreInv, StoreTypeOK
<1>4. StageOK(r)'
    BY <1>1, <1>2, <1>3 DEF StageOK, tables, Payable, Available
<1>. QED BY <1>1, <1>4, LockStep

LEMMA LockPayeeStep ==
    ASSUME StoreInv, TransferCore, NEW r \in Requests, LockPayee(r)
    PROVE  StoreInv' /\ StepOf(r) /\ TransferCore'
<1>. USE DEF LockPayee, TransferLabels
<1>1. pc[r] = "payee" /\ order[r] \in Orders /\ order[r].payer \in Users
    BY DEF At, TransferCore, StageOK, Orders
<1>2. /\ order[r].amount > 0 /\ Payable(order[r]) /\ order[r].payee \in Users
      /\ Available(wallets[order[r].payer]) >= order[r].amount
      /\ rowLock[order[r].payer] = r
    BY <1>1 DEF TransferCore, StageOK, Payable
<1>3. /\ pc'[r] = "settle" /\ rowLock'[order[r].payee] = r
      /\ rowLock'[order[r].payer] = r
    BY <1>1, <1>2 DEF Goto, LockRow, StoreInv, StoreTypeOK
<1>4. StageOK(r)'
    BY <1>1, <1>2, <1>3 DEF StageOK, tables, Payable, Available
<1>. QED BY <1>1, <1>2, <1>4, LockStep

\* What SettleTransfer does to the tables: exactly the payment, in full.
LEMMA SettleEffect ==
    ASSUME StoreInv, TransferCore, NEW r \in Requests, SettleTransfer(r)
    PROVE  /\ pc[r] = "settle" /\ order[r] \in Orders
           /\ order[r].payer \in Users /\ order[r].payee \in Users
           /\ order[r].payer # order[r].payee
           /\ order[r].amount \in Int64 /\ order[r].amount > 0
           /\ rowLock[order[r].payer] = r /\ rowLock[order[r].payee] = r
           /\ Available(wallets[order[r].payer]) >= order[r].amount
           /\ Credited(r, order[r]) = wallets[order[r].payee].balance + order[r].amount
           /\ Credited(r, order[r]) \in Int64
           /\ wallets' \in [Users -> Row]
           /\ journal' \in [Users -> Seq(Entry)]
           /\ JournalChain => JournalChain'
           /\ wallets'[order[r].payer] =
                [wallets[order[r].payer] EXCEPT !.balance = @ - order[r].amount]
           /\ wallets'[order[r].payee] =
                [wallets[order[r].payee] EXCEPT !.balance = @ + order[r].amount]
           /\ \A u \in Users \ {order[r].payer, order[r].payee} : wallets'[u] = wallets[u]
<1>. DEFINE t == order[r]
            payerRow == [wallets[t.payer] EXCEPT !.balance = Debited(r, t)]
<1>1. /\ pc[r] = "settle" /\ t \in Orders /\ t.amount > 0 /\ Payable(t)
      /\ rowLock[t.payer] = r /\ rowLock[t.payee] = r
      /\ Available(wallets[t.payer]) >= t.amount
    BY DEF SettleTransfer, At, TransferCore, StageOK, TransferLabels
<1>2. /\ t.payer \in Users /\ t.payee \in Users /\ t.payer # t.payee
      /\ t.amount \in Int64
    BY <1>1 DEF Payable, Orders
<1>3. seen[r][t.payer] = wallets[t.payer] /\ seen[r][t.payee] = wallets[t.payee]
    BY <1>1, <1>2, StoreAssumption DEF StoreInv, LockedRowsAreFresh
<1>4. PaymentFits(r, t) /\ PostPayment(r, t, payerRow)
    BY DEF SettleTransfer
<1>5. StoreTypeOK /\ EscrowCovered
    BY DEF StoreInv
<1>. HIDE DEF t, payerRow
<1>6. /\ Debited(r, t) = wallets[t.payer].balance - t.amount
      /\ Credited(r, t) = wallets[t.payee].balance + t.amount
      /\ Debited(r, t) \in Int64 /\ Credited(r, t) \in Int64 /\ -t.amount \in Int64
    BY <1>2, <1>3, <1>4, <1>5, PaymentSums
<1>7. payerRow \in Row /\ payerRow.balance = Debited(r, t)
    BY <1>2, <1>5, <1>6 DEF payerRow, StoreTypeOK, Row
<1>8. /\ wallets' \in [Users -> Row]
      /\ journal' \in [Users -> Seq(Entry)]
      /\ wallets'[t.payer] = payerRow
      /\ wallets'[t.payee] = [wallets[t.payee] EXCEPT !.balance = Credited(r, t)]
      /\ \A u \in Users \ {t.payer, t.payee} : wallets'[u] = wallets[u]
    <2>1. /\ wallets' \in [Users -> Row]
          /\ journal' \in [Users -> Seq(Entry)]
          /\ wallets'[t.payer] = IF t.payer = t.payee
                THEN [payerRow EXCEPT !.balance = Credited(r, t)] ELSE payerRow
          /\ t.payer # t.payee =>
                wallets'[t.payee] = [wallets[t.payee] EXCEPT !.balance = Credited(r, t)]
          /\ \A u \in Users \ {t.payer, t.payee} : wallets'[u] = wallets[u]
        BY <1>2, <1>4, <1>5, <1>6, <1>7, PaymentRows
    <2>. QED BY <1>2, <2>1
<1>9. JournalChain => JournalChain'
    BY <1>2, <1>3, <1>4, <1>5, <1>7, PaymentKeepsChain
<1>10. payerRow = [wallets[t.payer] EXCEPT !.balance = @ - t.amount]
    BY <1>6 DEF payerRow
<1>11. wallets'[t.payee] = [wallets[t.payee] EXCEPT !.balance = @ + t.amount]
    BY <1>6, <1>8
<1>. QED BY <1>1, <1>2, <1>6, <1>8, <1>9, <1>10, <1>11 DEF t

LEMMA SettleStep ==
    ASSUME StoreInv, TransferCore, NEW r \in Requests, SettleTransfer(r)
    PROVE  StoreInv' /\ StepOf(r) /\ TransferCore'
<1>. DEFINE t == order[r]
<1>1. /\ pc[r] = "settle" /\ t \in Orders
      /\ t.payer \in Users /\ t.payee \in Users /\ t.payer # t.payee
      /\ t.amount \in Int64 /\ t.amount > 0
      /\ rowLock[t.payer] = r /\ rowLock[t.payee] = r
      /\ Available(wallets[t.payer]) >= t.amount
      /\ wallets' \in [Users -> Row] /\ journal' \in [Users -> Seq(Entry)]
      /\ wallets'[t.payer] = [wallets[t.payer] EXCEPT !.balance = @ - t.amount]
      /\ wallets'[t.payee] = [wallets[t.payee] EXCEPT !.balance = @ + t.amount]
      /\ \A u \in Users \ {t.payer, t.payee} : wallets'[u] = wallets[u]
    BY SettleEffect
<1>2. /\ EndTx(r) /\ Goto(r, "release") /\ ~KeyClash(r) /\ UNCHANGED <<order, keyLock>>
      /\ transactions' = Append(transactions, t)
    BY DEF SettleTransfer, PostPayment
<1>3. ~KeyTaken(t.key)
    BY <1>2 DEF KeyClash, Key
<1>4. \A u \in Users : wallets[u].balance \in Int /\ wallets[u].allocated \in Int
    <2>1. Int64 \subseteq Int
        BY StoreAssumption DEF Int64
    <2>. QED BY <2>1 DEF StoreInv, StoreTypeOK, Row
<1>5. t.amount \in Int
    BY <1>1, StoreAssumption DEF Int64
<1>. HIDE DEF t
<1>6. ASSUME NEW u \in Users PROVE Covered(wallets'[u])
    <2>1. 0 <= wallets[u].allocated /\ wallets[u].allocated <= wallets[u].balance
        BY DEF StoreInv, EscrowCovered, Covered
    <2>2. wallets \in [Users -> Row]
        BY DEF StoreInv, StoreTypeOK
    <2>3. CASE u = t.payer
        <3>1. /\ wallets'[u].allocated = wallets[u].allocated
              /\ wallets'[u].balance = wallets[u].balance - t.amount
            BY <1>1, <2>2, <2>3 DEF Row
        <3>2. wallets[u].balance - wallets[u].allocated >= t.amount
            BY <1>1, <2>3 DEF Available
        <3>. QED BY <1>4, <1>5, <2>1, <3>1, <3>2 DEF Covered
    <2>4. CASE u = t.payee
        <3>1. /\ wallets'[u].allocated = wallets[u].allocated
              /\ wallets'[u].balance = wallets[u].balance + t.amount
            BY <1>1, <2>2, <2>4 DEF Row
        <3>. QED BY <1>1, <1>4, <1>5, <2>1, <3>1 DEF Covered
    <2>5. CASE u \notin {t.payer, t.payee}
        BY <1>1, <2>1, <2>5 DEF Covered
    <2>. QED BY <2>3, <2>4, <2>5
<1>7. StoreInv' /\ StepOf(r)
    <2>1. \A u \in Users : rowLock[u] # r => wallets'[u] = wallets[u]
        BY <1>1
    <2>. QED BY <1>1, <1>2, <1>6, <2>1, EndStoreStep
<1>8. t \in Posted
    BY <1>1 DEF Orders, Posted
<1>9. NoDoubleCharge' /\ transactions' \in Seq(Posted)
    <2>1. transactions \in Seq(Posted) /\ NoDoubleCharge
        BY DEF TransferCore
    <2>2. \A i \in DOMAIN transactions : transactions[i].key # t.key
        BY <1>3 DEF KeyTaken
    <2>. DEFINE n == Len(transactions)
    <2>3. /\ DOMAIN transactions = 1..n /\ DOMAIN transactions' = 1..(n + 1) /\ n \in Nat
          /\ transactions'[n + 1] = t /\ transactions' \in Seq(Posted)
          /\ \A i \in 1..n : transactions'[i] = transactions[i]
        <3>. HIDE DEF Posted
        <3>. QED BY <1>2, <1>8, <2>1
    <2>. HIDE DEF n
    <2>. QED BY <2>1, <2>2, <2>3 DEF NoDoubleCharge
<1>10. ASSUME NEW q \in Requests PROVE StageOK(q)'
    <2>1. CASE q = r
        <3>1. pc'[r] = "release" /\ order'[r] \in Orders
            BY <1>1, <1>2 DEF Goto, StoreInv, t
        <3>. QED BY <2>1, <3>1 DEF StageOK
    <2>2. CASE q # r
        BY <1>2, <1>7, <2>2, StageKept DEF TransferCore, StepOf
    <2>. QED BY <2>1, <2>2
<1>. QED BY <1>2, <1>7, <1>9, <1>10 DEF TransferCore

-----------------------------------------------------------------------------
(* All steps.                                                              *)

LEMMA OnlineRequestStep ==
    ASSUME StoreInv, TransferCore, NEW r \in Requests, OnlineRequest(r)
    PROVE  StoreInv' /\ StepOf(r) /\ TransferCore'
<1>1. CASE SubmitTransfer(r)
    BY <1>1, SubmitStep
<1>2. CASE \/ AcquireKey(r) \/ KeyBusy(r) \/ KeyLost(r) \/ ReleaseKey(r)
           \/ BeginTransfer(r) \/ ResolvePayee(r)
    BY <1>2, KeySteps
<1>3. CASE \/ RefusePayee(r) \/ RefuseFunds(r) \/ RefuseStatement(r) \/ FailTransfer(r)
           \/ DeadlockVictim(r)
    BY <1>3, RefusalIsRollback, RollbackStep
<1>4. CASE LockPayer(r)
    BY <1>4, LockPayerStep
<1>5. CASE LockPayee(r)
    BY <1>5, LockPayeeStep
<1>6. CASE SettleTransfer(r)
    BY <1>6, SettleStep
<1>. QED BY <1>1, <1>2, <1>3, <1>4, <1>5, <1>6 DEF OnlineRequest, OnlineServe, TransferStep

\* A key expires beside the transfers.
LEMMA ExpireStep ==
    ASSUME TransferCore, ExpireSome
    PROVE  UNCHANGED storeVars /\ TransferCore'
<1>1. PICK s \in LockStores, k \in Keys : ExpireKey(s, k)
    BY DEF ExpireSome
<1>2. keyLock' \in KeyLocks
    BY <1>1 DEF ExpireKey, TransferCore, KeyLocks
<1>. QED BY <1>1, <1>2, TransferUntouched DEF ExpireKey, storeVars

\* A process dies: its transfers stop and its key store is empty.
LEMMA OnlineCrashStep ==
    ASSUME StoreInv, TransferCore, NEW i \in Instances, CrashStore(i), CrashOnline(i),
           UNCHANGED order
    PROVE  StoreInv' /\ TransferCore'
<1>1. keyLock' \in KeyLocks
    BY DEF CrashOnline, TransferCore, KeyLocks
<1>2. UNCHANGED <<wallets, transactions>>
    BY DEF CrashStore
<1>3. "done" \notin TransferLabels
    BY DEF TransferLabels
<1>. QED BY <1>1, <1>2, <1>3, CrashStoreStep, TransferUntouched

\* All but SettleTransfer leave the tables alone.
LEMMA TransferTables ==
    ASSUME NEW r \in Requests, OnlineRequest(r), ~SettleTransfer(r)
    PROVE  UNCHANGED tables
<1>1. CASE \/ RefusePayee(r) \/ RefuseFunds(r) \/ RefuseStatement(r) \/ FailTransfer(r)
           \/ DeadlockVictim(r)
    BY <1>1, RefusalIsRollback DEF RollbackTransfer
<1>2. CASE \/ AcquireKey(r) \/ KeyBusy(r) \/ KeyLost(r) \/ ReleaseKey(r)
           \/ BeginTransfer(r) \/ ResolvePayee(r)
    BY <1>2 DEF AcquireKey, KeyBusy, KeyLost, ReleaseKey, BeginTransfer, ResolvePayee
<1>3. CASE SubmitTransfer(r) \/ LockPayer(r) \/ LockPayee(r)
    BY <1>3 DEF SubmitTransfer, LockPayer, LockPayee
<1>. QED BY <1>1, <1>2, <1>3 DEF OnlineRequest, OnlineServe, TransferStep

-----------------------------------------------------------------------------
(* Labels, answers and payments of a server that only transfers.           *)

\* Where a step of a transfer leads to.
LEMMA OnlineLabelNext ==
    ASSUME NEW r \in Requests, OnlineRequest(r)
    PROVE  \E label \in TransferLabels \cup {"done"} : Goto(r, label)
<1>. USE DEF TransferLabels
<1>1. CASE \/ RefusePayee(r) \/ RefuseFunds(r) \/ RefuseStatement(r) \/ FailTransfer(r)
           \/ DeadlockVictim(r)
    BY <1>1, RefusalIsRollback DEF RollbackTransfer
<1>2. CASE \/ AcquireKey(r) \/ KeyBusy(r) \/ KeyLost(r) \/ ReleaseKey(r)
           \/ BeginTransfer(r) \/ ResolvePayee(r)
    BY <1>2 DEF AcquireKey, KeyBusy, KeyLost, ReleaseKey, BeginTransfer, ResolvePayee
<1>3. CASE SubmitTransfer(r) \/ LockPayer(r) \/ LockPayee(r) \/ SettleTransfer(r)
    BY <1>3 DEF SubmitTransfer, LockPayer, LockPayee, SettleTransfer
<1>. QED BY <1>1, <1>2, <1>3 DEF OnlineRequest, OnlineServe, TransferStep

LEMMA OnlineLabelsType ==
    ASSUME OnlineInv, NEW r \in Requests, OnlineRequest(r)
    PROVE  /\ pc' \in [Requests -> OnlineLabels]
           /\ reply' \in [Requests -> OnlineReplies]
           /\ transactions' \in Seq(Orders)
<1>. USE DEF OnlineInv, OnlineTypeOK, Goto, Answer, tables
<1>1. \E label \in OnlineLabels : Goto(r, label)
    BY OnlineLabelNext DEF OnlineLabels
<1>2. UNCHANGED reply \/ \E what \in OnlineReplies : Answer(r, what)
    <2>1. CASE \/ RefusePayee(r) \/ RefuseFunds(r) \/ RefuseStatement(r) \/ FailTransfer(r)
               \/ DeadlockVictim(r)
        BY <2>1, RefusalIsRollback DEF RollbackTransfer
    <2>2. CASE \/ AcquireKey(r) \/ KeyBusy(r) \/ KeyLost(r) \/ ReleaseKey(r)
               \/ BeginTransfer(r) \/ ResolvePayee(r)
        BY <2>2 DEF AcquireKey, KeyBusy, KeyLost, ReleaseKey, BeginTransfer, ResolvePayee,
                    OnlineReplies
    <2>3. CASE SubmitTransfer(r) \/ LockPayer(r) \/ LockPayee(r) \/ SettleTransfer(r)
        BY <2>3 DEF SubmitTransfer, LockPayer, LockPayee, SettleTransfer, OnlineReplies
    <2>. QED BY <2>1, <2>2, <2>3 DEF OnlineRequest, OnlineServe, TransferStep
<1>3. transactions' \in Seq(Orders)
    <2>1. CASE SettleTransfer(r)
        <3>1. order[r] \in Orders
            BY <2>1, SettleEffect
        <3>2. transactions' = Append(transactions, order[r])
            BY <2>1 DEF SettleTransfer, PostPayment
        <3>. HIDE DEF Orders
        <3>. QED BY <3>1, <3>2
    <2>2. CASE ~SettleTransfer(r)
        <3>1. UNCHANGED transactions
            BY <2>2, TransferTables
        <3>. QED BY <3>1
    <2>. QED BY <2>1, <2>2
<1>4. pc' \in [Requests -> OnlineLabels]
    BY <1>1
<1>5. reply' \in [Requests -> OnlineReplies]
    BY <1>2
<1>. QED BY <1>3, <1>4, <1>5

-----------------------------------------------------------------------------
(* The inductive invariant.                                                *)

LEMMA InvInit ==
    ASSUME OnlineInitial
    PROVE  OnlineInv
<1>. USE DEF OnlineInitial, StoreInit, OnlineInit
<1>1. StoreInv
    BY StoreAssumption, ZeroType DEF StoreInv, StoreTypeOK, LockedRowsAreFresh, EscrowCovered
<1>2. TransferCore
    BY DEF TransferCore, NoDoubleCharge, StageOK, TransferLabels, KeyLocks
<1>3. OnlineTypeOK
    BY <1>1, <1>2 DEF StoreInv, TransferCore, OnlineTypeOK, OnlineLabels, OnlineReplies
<1>4. JournalChain
    BY DEF JournalChain, ChainOf
<1>. QED BY <1>1, <1>2, <1>3, <1>4 DEF OnlineInv

LEMMA InvNext ==
    ASSUME OnlineInv, [OnlineNext]_onlineAll
    PROVE  OnlineInv'
<1>. USE DEF OnlineInv
<1>1. ASSUME NEW r \in Requests, OnlineRequest(r) PROVE OnlineInv'
    <2>1. StoreInv' /\ TransferCore'
        BY <1>1, OnlineRequestStep
    <2>2. OnlineTypeOK'
        BY <1>1, <2>1, OnlineLabelsType DEF OnlineTypeOK, StoreInv, TransferCore
    <2>3. JournalChain'
        <3>1. CASE SettleTransfer(r)
            BY <3>1, SettleEffect
        <3>2. CASE ~SettleTransfer(r)
            BY <1>1, <3>2, TransferTables, BooksSame DEF tables
        <3>. QED BY <3>1, <3>2
    <2>. QED BY <2>1, <2>2, <2>3
<1>2. CASE ExpireSome
    <2>1. UNCHANGED storeVars /\ TransferCore'
        BY <1>2, ExpireStep
    <2>2. StoreInv' /\ JournalChain'
        BY <2>1, StoreSame, BooksSame DEF storeVars
    <2>3. OnlineTypeOK'
        BY <2>1, <2>2 DEF OnlineTypeOK, StoreInv, TransferCore, storeVars
    <2>. QED BY <2>1, <2>2, <2>3
<1>3. CASE OnlineCrash
    <2>1. PICK i \in Instances : CrashStore(i) /\ CrashOnline(i) /\ UNCHANGED order
        BY <1>3 DEF OnlineCrash
    <2>2. StoreInv' /\ TransferCore'
        BY <2>1, OnlineCrashStep
    <2>3. UNCHANGED <<wallets, journal, transactions, reply>>
        BY <2>1 DEF CrashStore
    <2>4. pc' \in [Requests -> OnlineLabels]
        BY <2>1 DEF CrashStore, OnlineTypeOK, OnlineLabels
    <2>5. OnlineTypeOK'
        BY <2>2, <2>3, <2>4 DEF OnlineTypeOK, StoreInv, TransferCore
    <2>. QED BY <2>2, <2>3, <2>5, BooksSame
<1>4. CASE AllDone \/ UNCHANGED onlineAll
    <2>1. UNCHANGED <<storeVars, order, keyLock>>
        BY <1>4 DEF AllDone, onlineAll, onlineVars
    <2>2. StoreInv' /\ JournalChain'
        BY <2>1, StoreSame, BooksSame DEF storeVars
    <2>3. TransferCore'
        BY <2>1, TransferUntouched DEF storeVars, TransferCore
    <2>4. OnlineTypeOK'
        BY <2>1, <2>2 DEF OnlineTypeOK, StoreInv, storeVars
    <2>. QED BY <2>2, <2>3, <2>4
<1>. QED BY <1>1, <1>2, <1>3, <1>4 DEF OnlineNext

\* The inductive invariant holds in every reachable state.
THEOREM OnlineInvariant == OnlineSpec => []OnlineInv
<1>1. OnlineInitial => OnlineInv
    BY InvInit
<1>2. OnlineInv /\ [OnlineNext]_onlineAll => OnlineInv'
    BY InvNext
<1>. QED BY <1>1, <1>2, PTL DEF OnlineSpec

\* Every variable always has its type.
THEOREM OnlineTypes == OnlineSpec => []OnlineTypeOK
<1>1. OnlineInv => OnlineTypeOK
    BY DEF OnlineInv
<1>. QED BY <1>1, OnlineInvariant, PTL

\* Transfers never touch money in escrow, and no balance goes below it, however
\* they interleave, fail, time out or crash (service.go, the available check).
THEOREM OnlineEscrowCovered == OnlineSpec => []EscrowCovered
<1>1. OnlineInv => EscrowCovered
    BY DEF OnlineInv, StoreInv
<1>. QED BY <1>1, OnlineInvariant, PTL

\* Every entry of the ledger follows from the one before it and the wallet shows
\* the last: no transfer loses another's update.
THEOREM OnlineJournalChain == OnlineSpec => []JournalChain
<1>1. OnlineInv => JournalChain
    BY DEF OnlineInv
<1>. QED BY <1>1, OnlineInvariant, PTL

\* One idempotency key pays at most once, although its lock expires, is lost in
\* a crash or freed by somebody else.
THEOREM OnlineNoDoubleCharge == OnlineSpec => []NoDoubleCharge
<1>1. OnlineInv => NoDoubleCharge
    BY DEF OnlineInv, TransferCore
<1>. QED BY <1>1, OnlineInvariant, PTL

-----------------------------------------------------------------------------
(* Refinement: each transfer is one step of the bank.                      *)

\* All steps but SettleTransfer leave the tables alone.
LEMMA TablesStay ==
    ASSUME [OnlineNext]_onlineAll, \A r \in Requests : ~SettleTransfer(r)
    PROVE  UNCHANGED <<wallets, transactions>>
<1>1. ASSUME NEW r \in Requests, OnlineRequest(r) PROVE UNCHANGED <<wallets, transactions>>
    BY <1>1, TransferTables DEF tables
<1>. QED BY <1>1 DEF OnlineNext, ExpireSome, ExpireKey, OnlineCrash,
        CrashStore, AllDone, onlineAll, storeVars

\* The bank's variables do not move while wallets and transactions stay.
LEMMA BankStutter ==
    ASSUME UNCHANGED <<wallets, transactions>>
    PROVE  UNCHANGED OnlineBank!bankVars
BY DEF OnlineBank!bankVars, SpentKeys, Keyed

\* The keys spent after a posting are those before it and its own, if it has one.
LEMMA SpentAfter ==
    ASSUME transactions \in Seq(Posted), NEW t \in Posted,
           transactions' = Append(transactions, t)
    PROVE  SpentKeys' = SpentKeys \cup (IF t.key = None THEN {} ELSE {<<"key", t.key>>})
<1>. DEFINE n == Len(transactions)
<1>1. /\ DOMAIN transactions = 1..n /\ DOMAIN transactions' = 1..(n + 1) /\ n \in Nat
      /\ transactions'[n + 1] = t
      /\ \A i \in 1..n : transactions'[i] = transactions[i]
    <2>. HIDE DEF Posted
    <2>. QED OBVIOUS
<1>. HIDE DEF n
<1>2. Keyed' = Keyed \cup (IF t.key = None THEN {} ELSE {n + 1})
    BY <1>1 DEF Keyed
<1>3. \A i \in Keyed : transactions'[i] = transactions[i]
    BY <1>1 DEF Keyed
<1>. QED BY <1>1, <1>2, <1>3 DEF SpentKeys

\* A transfer as the bank sees it: available money of one user becomes another's,
\* and a key that was not spent is.
LEMMA SettlePayment ==
    ASSUME StoreInv, TransferCore, NEW r \in Requests, SettleTransfer(r)
    PROVE  LET B == [u \in Users |-> wallets[u].balance]
               E == [u \in Users |-> wallets[u].allocated]
           IN  \E u \in Users, v \in Users, a \in 1..MaxInt, n \in KeyNotes :
                  /\ u # v /\ a <= B[u] - E[u] /\ B[v] + a <= MaxInt
                  /\ B' = [B EXCEPT ![u] = @ - a, ![v] = @ + a] /\ E' = E
                  /\ n \cap SpentKeys = {} /\ SpentKeys' = SpentKeys \cup n
<1>. DEFINE t == order[r]
            bal(u) == wallets[u].balance
<1>1. /\ t \in Orders /\ t.payer \in Users /\ t.payee \in Users /\ t.payer # t.payee
      /\ t.amount \in Int64 /\ t.amount > 0
      /\ Available(wallets[t.payer]) >= t.amount
      /\ Credited(r, t) = bal(t.payee) + t.amount /\ Credited(r, t) \in Int64
      /\ wallets' \in [Users -> Row]
      /\ wallets'[t.payer] = [wallets[t.payer] EXCEPT !.balance = @ - t.amount]
      /\ wallets'[t.payee] = [wallets[t.payee] EXCEPT !.balance = @ + t.amount]
      /\ \A u \in Users \ {t.payer, t.payee} : wallets'[u] = wallets[u]
    BY SettleEffect
<1>2. /\ transactions' = Append(transactions, t) /\ ~KeyTaken(t.key)
      /\ transactions \in Seq(Posted) /\ wallets \in [Users -> Row]
    BY DEF SettleTransfer, PostPayment, KeyClash, Key, StoreInv, StoreTypeOK, TransferCore
<1>. HIDE DEF t
<1>3. t.amount \in 1..MaxInt
    BY <1>1, StoreAssumption DEF Int64
<1>4. /\ bal(t.payer) \in Int /\ bal(t.payee) \in Int
      /\ wallets[t.payer].allocated \in Int
    <2>1. Int64 \subseteq Int
        BY StoreAssumption DEF Int64
    <2>. QED BY <1>1, <1>2, <2>1 DEF Row
<1>5. /\ t.amount <= bal(t.payer) - wallets[t.payer].allocated
      /\ bal(t.payee) + t.amount <= MaxInt
    BY <1>1, <1>3, <1>4, StoreAssumption DEF Available, Int64
<1>6. /\ \A u \in Users : wallets'[u].allocated = wallets[u].allocated
      /\ wallets'[t.payer].balance = bal(t.payer) - t.amount
      /\ wallets'[t.payee].balance = bal(t.payee) + t.amount
      /\ \A u \in Users \ {t.payer, t.payee} : wallets'[u].balance = bal(u)
    <2>1. /\ wallets'[t.payer].allocated = wallets[t.payer].allocated
          /\ wallets'[t.payer].balance = bal(t.payer) - t.amount
        BY <1>1, <1>2 DEF Row
    <2>2. /\ wallets'[t.payee].allocated = wallets[t.payee].allocated
          /\ wallets'[t.payee].balance = bal(t.payee) + t.amount
        BY <1>1, <1>2 DEF Row
    <2>3. \A u \in Users \ {t.payer, t.payee} :
            wallets'[u].allocated = wallets[u].allocated /\ wallets'[u].balance = bal(u)
        BY <1>1
    <2>. QED BY <2>1, <2>2, <2>3
<1>. DEFINE B  == [u \in Users |-> wallets[u].balance]
            E  == [u \in Users |-> wallets[u].allocated]
            note == {<<"key", t.key>>}
<1>7. /\ B' = [B EXCEPT ![t.payer] = @ - t.amount, ![t.payee] = @ + t.amount]
      /\ E' = E
    BY <1>1, <1>6
<1>8. note \cap SpentKeys = {} /\ SpentKeys' = SpentKeys \cup note
    <2>1. t \in Posted /\ t.key # None
        BY <1>1, KeysNotNone DEF Orders, Posted
    <2>2. SpentKeys' = SpentKeys \cup note
        BY <1>2, <2>1, SpentAfter
    <2>. QED BY <1>2, <2>2 DEF SpentKeys, Keyed, KeyTaken
<1>9. note \in KeyNotes
    BY <1>1 DEF KeyNotes, Orders
<1>10. /\ t.amount <= B[t.payer] - E[t.payer] /\ B[t.payee] + t.amount <= MaxInt
    BY <1>1, <1>5
<1>. HIDE DEF note
<1>. QED BY <1>1, <1>3, <1>7, <1>8, <1>9, <1>10

LEMMA SettlePays ==
    ASSUME StoreInv, TransferCore, NEW r \in Requests, SettleTransfer(r)
    PROVE  OnlineBank!BankNext
<1>. DEFINE B == [u \in Users |-> wallets[u].balance]
            E == [u \in Users |-> wallets[u].allocated]
<1>1. PICK u \in Users, v \in Users, a \in 1..MaxInt, n \in KeyNotes :
            /\ u # v /\ a <= B[u] - E[u] /\ B[v] + a <= MaxInt
            /\ B' = [B EXCEPT ![u] = @ - a, ![v] = @ + a] /\ E' = E
            /\ n \cap SpentKeys = {} /\ SpentKeys' = SpentKeys \cup n
    BY SettlePayment
<1>2. OnlineBank!Pay(u, v, a)
    <2>1. OnlineBank!Move(u, v, a)
        BY <1>1 DEF OnlineBank!Move
    <2>2. OnlineBank!FromAvailable(u, a)
        BY <1>1 DEF OnlineBank!FromAvailable
    <2>3. OnlineBank!Spend(n)
        BY <1>1 DEF OnlineBank!Spend
    <2>. QED BY <2>1, <2>2, <2>3 DEF OnlineBank!Pay
<1>. QED BY <1>2 DEF OnlineBank!BankNext

\* Transfers implement the bank: seen from outside, a transfer happens in one
\* step or not at all, for every interleaving, failure, expiry and crash.
THEOREM OnlineRefinesBank == OnlineSpec => OnlineImplementsBank
<1>1. OnlineInitial => OnlineBank!BankInit
    <2>1. SUFFICES ASSUME OnlineInitial PROVE OnlineBank!BankInit
        OBVIOUS
    <2>2. wallets = Opening /\ transactions = <<>>
        BY <2>1 DEF OnlineInitial, StoreInit
    <2>. QED BY <2>2 DEF OnlineBank!BankInit, SpentKeys, Keyed
<1>2. OnlineInv /\ [OnlineNext]_onlineAll => [OnlineBank!BankNext]_OnlineBank!bankVars
    <2>1. SUFFICES ASSUME OnlineInv, [OnlineNext]_onlineAll
                   PROVE  [OnlineBank!BankNext]_OnlineBank!bankVars
        OBVIOUS
    <2>2. CASE \E r \in Requests : SettleTransfer(r)
        BY <2>1, <2>2, SettlePays DEF OnlineInv
    <2>3. CASE ~ \E r \in Requests : SettleTransfer(r)
        BY <2>1, <2>3, TablesStay, BankStutter
    <2>. QED BY <2>2, <2>3
<1>. QED BY <1>1, <1>2, OnlineInvariant, PTL
        DEF OnlineSpec, OnlineImplementsBank, OnlineBank!BankSpec
-----------------------------------------------------------------------------
(* The audit.                                                              *)

LEMMA SettleKeepsTotal ==
    ASSUME StoreInv, TransferCore, NEW r \in Requests, SettleTransfer(r)
    PROVE  TotalOf(wallets') = TotalOf(wallets)
<1>. DEFINE t == order[r]
<1>1. /\ t.payer \in Users /\ t.payee \in Users /\ t.payer # t.payee
      /\ t.amount \in Int64
      /\ wallets' \in [Users -> Row]
      /\ wallets'[t.payer] = [wallets[t.payer] EXCEPT !.balance = @ - t.amount]
      /\ wallets'[t.payee] = [wallets[t.payee] EXCEPT !.balance = @ + t.amount]
      /\ \A u \in Users \ {t.payer, t.payee} : wallets'[u] = wallets[u]
    BY SettleEffect
<1>. HIDE DEF t
<1>2. wallets \in [Users -> Row] /\ t.amount \in Int
    BY <1>1, StoreAssumption DEF StoreInv, StoreTypeOK, Int64
<1>3. /\ wallets'[t.payer].balance = wallets[t.payer].balance - t.amount
      /\ wallets'[t.payee].balance = wallets[t.payee].balance + t.amount
      /\ \A u \in Users \ {t.payer, t.payee} : wallets'[u].balance = wallets[u].balance
    BY <1>1, <1>2 DEF Row
<1>4. PICK u \in Users, v \in Users, a \in Int : u = t.payer /\ v = t.payee /\ a = t.amount
    BY <1>1, <1>2
<1>5. TotalOf(wallets') = TotalOf(wallets)
    <2>1. /\ u # v /\ wallets'[u].balance = wallets[u].balance - a
          /\ wallets'[v].balance = wallets[v].balance + a
          /\ \A w \in Users \ {u, v} : wallets'[w].balance = wallets[w].balance
        BY <1>1, <1>3, <1>4
    <2>. QED BY <1>1, <1>2, <2>1, PaymentKeepsTotal
<1>. QED BY <1>5

\* Transfers move money and neither make nor destroy any, however they interleave,
\* fail and crash (the audit of the simulator).
THEOREM OnlineMoneyConserved == OnlineSpec => []MoneyConserved
<1>. DEFINE SameTotal == TotalOf(wallets) = TotalOf(Opening)
<1>1. OnlineInitial => SameTotal
    BY DEF OnlineInitial, StoreInit
<1>2. OnlineInv /\ SameTotal /\ [OnlineNext]_onlineAll => SameTotal'
    <2>1. SUFFICES ASSUME OnlineInv, SameTotal, [OnlineNext]_onlineAll PROVE SameTotal'
        OBVIOUS
    <2>2. CASE \E r \in Requests : SettleTransfer(r)
        BY <2>1, <2>2, SettleKeepsTotal DEF OnlineInv
    <2>3. CASE ~ \E r \in Requests : SettleTransfer(r)
        BY <2>1, <2>3, TablesStay
    <2>. QED BY <2>2, <2>3
<1>3. OnlineInv /\ SameTotal => MoneyConserved
    <2>1. SUFFICES ASSUME OnlineInv, SameTotal PROVE MoneyConserved
        OBVIOUS
    <2>2. \A i \in DOMAIN transactions : transactions[i] \in Orders
        <3>1. transactions \in Seq(Orders)
            BY <2>1 DEF OnlineInv, OnlineTypeOK
        <3>. HIDE DEF Orders
        <3>. QED BY <3>1
    <2>3. \A i \in DOMAIN transactions : transactions[i].payer \in Users
        BY <2>2 DEF Orders
    <2>. QED BY <2>1, <2>3, NoFunding
<1>. QED BY <1>1, <1>2, <1>3, OnlineInvariant, PTL DEF OnlineSpec
-----------------------------------------------------------------------------
(* The lock of an idempotency key.                                         *)

\* What a release does to the keys of others, with Redis.
ReleaseOwn ==
    \A r \in Requests : ReleaseKey(r) =>
        \A s \in LockStores, k \in Keys :
            keyLock[s][k] \notin {r, None} => keyLock'[s][k] = keyLock[s][k]

\* Where every process has Redis, ReleaseLock frees a key only for the request
\* that holds it (redis.go, the token); the in-memory store does not keep this.
THEOREM OnlineReleasesOwnKey == ASSUME UseMemory = {} PROVE OnlineSpec => ReleasesOwnKey
<1>1. OnlineInv /\ [OnlineNext]_onlineAll => ReleaseOwn
    <2>1. SUFFICES ASSUME OnlineInv, NEW r \in Requests, ReleaseKey(r),
                          NEW s \in LockStores, NEW k \in Keys, keyLock[s][k] \notin {r, None}
                   PROVE  keyLock'[s][k] = keyLock[s][k]
        BY DEF ReleaseOwn
    <2>2. keyLock \in [LockStores -> [Keys -> Requests \cup {None}]] /\ s = Redis
        BY <2>1 DEF OnlineInv, OnlineTypeOK, KeyLocks, LockStores
    <2>3. CASE UNCHANGED keyLock
        BY <2>3
    <2>4. CASE MayDelete(r) /\ SetHolder(r, None)
        <3>1. Holder(r) = r /\ StoreOf(r) = Redis
            BY <2>4 DEF MayDelete, InMemory, StoreOf
        <3>2. k # Key(r)
            BY <2>1, <2>2, <3>1 DEF Holder
        <3>. QED BY <2>2, <2>4, <3>1, <3>2 DEF SetHolder
    <2>. QED BY <2>1, <2>3, <2>4 DEF ReleaseKey
<1>2. OnlineInv /\ [OnlineNext]_onlineAll => [ReleaseOwn]_onlineAll
    BY <1>1
<1>. QED BY <1>2, OnlineInvariant, PTL DEF OnlineSpec, ReleasesOwnKey, ReleaseOwn
=============================================================================

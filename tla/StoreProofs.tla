---------------------------- MODULE StoreProofs ----------------------------
(***************************************************************************)
(* Lemmas about the operations of Store, for the proofs of the services.   *)
(***************************************************************************)
EXTENDS Store, FiniteProofs, TLAPS

\* Wrapped sums and differences of two int64 are int64, and what fits is kept.
LEMMA WrapType ==
    ASSUME NEW x \in Int64, NEW y \in Int64
    PROVE  Wrap(x + y) \in Int64 /\ Wrap(x - y) \in Int64
BY StoreAssumption DEF Wrap, Int64

LEMMA WrapFits ==
    ASSUME NEW x \in Int64
    PROVE  Wrap(x) = x
BY StoreAssumption DEF Wrap, Int64

\* A sum of two amounts that overflows comes out negative.
LEMMA WrapSum ==
    ASSUME NEW x \in Int64, NEW y \in Int64, x >= 0, y >= 0, Wrap(x + y) >= 0
    PROVE  Wrap(x + y) = x + y
BY StoreAssumption DEF Wrap, Int64

-----------------------------------------------------------------------------
(* Row locks.                                                              *)

\* A scan under the lock makes the reader's copy of that row current and
\* touches no other request's copies.
LEMMA LockKeepsFresh ==
    ASSUME StoreTypeOK, LockedRowsAreFresh, UNCHANGED wallets,
           NEW r \in Requests, NEW u \in Users, LockRow(r, u)
    PROVE  LockedRowsAreFresh'
<1>1. SUFFICES ASSUME NEW v \in Users, rowLock'[v] # None
               PROVE  seen'[rowLock'[v]][v] = wallets[v]
    BY DEF LockedRowsAreFresh
<1>2. CASE v = u
    BY <1>2, StoreAssumption DEF LockRow, StoreTypeOK
<1>3. CASE v # u
    <2>1. rowLock'[v] = rowLock[v] /\ rowLock[v] \in Requests
        BY <1>1, <1>3 DEF LockRow, StoreTypeOK
    <2>2. seen'[rowLock[v]][v] = seen[rowLock[v]][v]
        BY <2>1, <1>3 DEF LockRow, StoreTypeOK
    <2>. QED BY <1>1, <2>1, <2>2 DEF LockedRowsAreFresh
<1>. QED BY <1>2, <1>3

\* The end of a transaction may write only rows that it locks.
LEMMA EndKeepsFresh ==
    ASSUME StoreTypeOK, LockedRowsAreFresh, NEW r \in Requests, EndTx(r),
           \A u \in Users : rowLock[u] \notin {r, None} => wallets'[u] = wallets[u]
    PROVE  LockedRowsAreFresh'
<1>1. SUFFICES ASSUME NEW v \in Users, rowLock'[v] # None
               PROVE  seen'[rowLock'[v]][v] = wallets'[v]
    BY DEF LockedRowsAreFresh
<1>2. rowLock'[v] = rowLock[v] /\ rowLock[v] \in Requests \ {r}
    BY <1>1 DEF EndTx, Unlocked, StoreTypeOK
<1>3. seen'[rowLock[v]] = seen[rowLock[v]]
    BY <1>2 DEF EndTx, StoreTypeOK
<1>. QED BY <1>1, <1>2, <1>3 DEF LockedRowsAreFresh

\* A crash leaves the rows and the copies of the surviving requests alone.
LEMMA CrashKeepsFresh ==
    ASSUME StoreTypeOK, LockedRowsAreFresh, NEW i \in Instances, CrashStore(i)
    PROVE  LockedRowsAreFresh'
<1>1. SUFFICES ASSUME NEW v \in Users, rowLock'[v] # None
               PROVE  seen'[rowLock'[v]][v] = wallets[v]
    BY DEF LockedRowsAreFresh, CrashStore
<1>2. rowLock'[v] = rowLock[v] /\ rowLock[v] \in Requests \ Busy(i)
    BY <1>1 DEF CrashStore, StoreTypeOK
<1>3. seen'[rowLock[v]] = seen[rowLock[v]]
    BY <1>2 DEF CrashStore, StoreTypeOK
<1>. QED BY <1>1, <1>2, <1>3 DEF LockedRowsAreFresh

-----------------------------------------------------------------------------
(* Types.                                                                  *)

LEMMA ZeroType == NoRows \in [Users -> Row]
BY StoreAssumption DEF NoRows, ZeroRow, Row, Int64

LEMMA LockType ==
    ASSUME StoreTypeOK, NEW r \in Requests, NEW u \in Users, LockRow(r, u)
    PROVE  /\ rowLock' \in [Users -> Requests \cup {None}]
           /\ seen' \in [Requests -> [Users -> Row]]
           /\ conns' \in SUBSET Requests
BY DEF StoreTypeOK, LockRow

LEMMA EndType ==
    ASSUME StoreTypeOK, NEW r \in Requests, EndTx(r)
    PROVE  /\ rowLock' \in [Users -> Requests \cup {None}]
           /\ seen' \in [Requests -> [Users -> Row]]
           /\ conns' \in SUBSET Requests
BY ZeroType DEF StoreTypeOK, EndTx, Unlocked

LEMMA CrashType ==
    ASSUME StoreTypeOK, NEW i \in Instances, CrashStore(i)
    PROVE  StoreTypeOK'
BY ZeroType DEF StoreTypeOK, CrashStore

-----------------------------------------------------------------------------
(* Steps.                                                                  *)

\* A step of one request as the others see it: they stay where they are, and
\* the rows that they have locked stay theirs and as they are.
StepOf(r) ==
    \A q \in Requests \ {r} :
        /\ pc'[q] = pc[q]
        /\ \A u \in Users : rowLock[u] = q => rowLock'[u] = q /\ wallets'[u] = wallets[u]

\* A step that leaves tables, locks, pool and goroutines alone.
LEMMA StoreSame ==
    ASSUME StoreInv, UNCHANGED storeVars
    PROVE  StoreInv'
BY DEF StoreInv, StoreTypeOK, LockedRowsAreFresh, EscrowCovered, storeVars

\* A step that changes no more than a request's label and the pool.
LEMMA MoveStoreStep ==
    ASSUME StoreInv, NEW r \in Requests, NEW label, Goto(r, label),
           UNCHANGED <<tables, rowLock, seen>>, conns' \in SUBSET Requests
    PROVE  StoreInv' /\ StepOf(r)
<1>. USE DEF StoreInv, Goto, tables
<1>1. StoreTypeOK' /\ pc' = [q \in Requests |-> pc'[q]]
    BY DEF StoreTypeOK
<1>2. LockedRowsAreFresh' /\ EscrowCovered'
    BY DEF LockedRowsAreFresh, EscrowCovered
<1>3. StepOf(r)
    BY DEF StepOf
<1>. QED BY <1>1, <1>2, <1>3

\* A step that locks a row.
LEMMA LockStoreStep ==
    ASSUME StoreInv, NEW r \in Requests, NEW u \in Users, LockRow(r, u),
           NEW label, Goto(r, label), UNCHANGED tables
    PROVE  StoreInv' /\ StepOf(r)
<1>. USE DEF StoreInv, Goto, tables
<1>1. StoreTypeOK' /\ pc' = [q \in Requests |-> pc'[q]]
    BY LockType DEF StoreTypeOK
<1>2. LockedRowsAreFresh' /\ EscrowCovered'
    BY LockKeepsFresh DEF EscrowCovered
<1>3. \A v \in Users : \A q \in Requests \ {r} :
        rowLock[v] = q => rowLock'[v] = q /\ wallets'[v] = wallets[v]
    BY StoreAssumption DEF LockRow, RowFree, StoreTypeOK
<1>4. StepOf(r)
    BY <1>3 DEF StepOf
<1>. QED BY <1>1, <1>2, <1>4

\* A step that ends a transaction and writes only rows that it has locked.
LEMMA EndStoreStep ==
    ASSUME StoreInv, NEW r \in Requests, EndTx(r),
           NEW label, Goto(r, label),
           wallets' \in [Users -> Row], journal' \in [Users -> Seq(Entry)],
           \A u \in Users : rowLock[u] # r => wallets'[u] = wallets[u],
           \A u \in Users : Covered(wallets'[u])
    PROVE  StoreInv' /\ StepOf(r)
<1>. USE DEF StoreInv, Goto
<1>1. StoreTypeOK' /\ pc' = [q \in Requests |-> pc'[q]]
    BY EndType DEF StoreTypeOK
<1>2. LockedRowsAreFresh' /\ EscrowCovered'
    BY EndKeepsFresh DEF EscrowCovered
<1>3. \A v \in Users : \A q \in Requests \ {r} :
        rowLock[v] = q => rowLock'[v] = q /\ wallets'[v] = wallets[v]
    BY DEF EndTx, Unlocked
<1>4. StepOf(r)
    BY <1>3 DEF StepOf
<1>. QED BY <1>1, <1>2, <1>4

\* A rollback writes no row at all.
LEMMA RollbackStoreStep ==
    ASSUME StoreInv, NEW r \in Requests, EndTx(r),
           NEW label, Goto(r, label), UNCHANGED tables
    PROVE  StoreInv' /\ StepOf(r)
<1>1. /\ wallets' \in [Users -> Row] /\ journal' \in [Users -> Seq(Entry)]
      /\ \A u \in Users : wallets'[u] = wallets[u] /\ Covered(wallets'[u])
    BY DEF StoreInv, StoreTypeOK, EscrowCovered, tables
<1>. QED BY <1>1, EndStoreStep

\* A crash of a process.
LEMMA CrashStoreStep ==
    ASSUME StoreInv, NEW i \in Instances, CrashStore(i)
    PROVE  /\ StoreInv'
           /\ \A q \in Requests :
                \/ pc'[q] = "done"
                \/ /\ pc'[q] = pc[q]
                   /\ \A u \in Users : rowLock[u] = q => rowLock'[u] = q
<1>. USE DEF StoreInv
<1>1. StoreTypeOK' /\ pc' = [q \in Requests |-> pc'[q]]
    <2>1. StoreTypeOK'
        BY CrashType
    <2>2. pc' = [q \in Requests |-> pc'[q]]
        BY DEF CrashStore
    <2>. QED BY <2>1, <2>2
<1>2. LockedRowsAreFresh' /\ EscrowCovered'
    BY CrashKeepsFresh DEF EscrowCovered, CrashStore
<1>3. \A q \in Requests \ Busy(i) :
        pc'[q] = pc[q] /\ \A u \in Users : rowLock[u] = q => rowLock'[u] = q
    BY DEF CrashStore
<1>4. \A q \in Requests \cap Busy(i) : pc'[q] = "done"
    BY DEF CrashStore
<1>. QED BY <1>1, <1>2, <1>3, <1>4

-----------------------------------------------------------------------------
(* Payments.                                                               *)

\* What a payment computed from fresh, covered rows posts: no sum has wrapped.
LEMMA PaymentSums ==
    ASSUME StoreTypeOK, EscrowCovered, NEW r \in Requests, NEW t,
           t.payer \in Users, t.payee \in Users, t.amount \in Int64,
           seen[r][t.payer] = wallets[t.payer],
           seen[r][t.payee] = wallets[t.payee],
           PaymentFits(r, t)
    PROVE  /\ Debited(r, t) = wallets[t.payer].balance - t.amount
           /\ Credited(r, t) = wallets[t.payee].balance + t.amount
           /\ Debited(r, t) \in Int64 /\ Credited(r, t) \in Int64
           /\ Debited(r, t) >= 0 /\ Credited(r, t) >= 0
           /\ t.amount \in Int64 /\ -t.amount \in Int64 /\ t.amount > 0
<1>1. wallets[t.payer].balance \in Int64 /\ wallets[t.payee].balance \in Int64
    BY DEF StoreTypeOK, Row
<1>2. wallets[t.payer].balance >= 0 /\ wallets[t.payee].balance >= 0
    <2>1. \A u \in Users : wallets[u].balance \in Int /\ wallets[u].allocated \in Int
        BY StoreAssumption DEF StoreTypeOK, Row, Int64
    <2>. QED BY <2>1 DEF EscrowCovered, Covered
<1>3. t.amount > 0 /\ Debited(r, t) >= 0 /\ Credited(r, t) >= 0
    BY DEF PaymentFits
<1>4. -t.amount \in Int64 /\ wallets[t.payer].balance - t.amount \in Int64
    BY <1>1, <1>2, <1>3, StoreAssumption DEF Int64
<1>5. Debited(r, t) = wallets[t.payer].balance - t.amount
    BY <1>4, WrapFits DEF Debited
<1>6. Credited(r, t) = wallets[t.payee].balance + t.amount
    <2>1. Wrap(wallets[t.payee].balance + t.amount) >= 0
        BY <1>3 DEF Credited
    <2>2. t.amount >= 0
        BY <1>3, StoreAssumption DEF Int64
    <2>. QED BY <1>1, <1>2, <2>1, <2>2, WrapSum DEF Credited
<1>7. Credited(r, t) \in Int64
    BY <1>1, WrapType DEF Credited
<1>. QED BY <1>3, <1>4, <1>5, <1>6, <1>7

\* The rows a payment leaves behind, whoever is paid.
LEMMA PaymentRows ==
    ASSUME StoreTypeOK, NEW r \in Requests, NEW t,
           t.payer \in Users, t.payee \in Users, -t.amount \in Int64, t.amount \in Int64,
           Debited(r, t) \in Int64, Credited(r, t) \in Int64,
           NEW payerRow \in Row, PostPayment(r, t, payerRow)
    PROVE  /\ wallets' \in [Users -> Row]
           /\ journal' \in [Users -> Seq(Entry)]
           /\ wallets'[t.payer] = IF t.payer = t.payee
                THEN [payerRow EXCEPT !.balance = Credited(r, t)] ELSE payerRow
           /\ t.payer # t.payee =>
                wallets'[t.payee] = [wallets[t.payee] EXCEPT !.balance = Credited(r, t)]
           /\ \A u \in Users \ {t.payer, t.payee} : wallets'[u] = wallets[u]
<1>1. [amount |-> -t.amount, after |-> Debited(r, t)] \in Entry
    BY DEF Entry
<1>2. [amount |-> t.amount, after |-> Credited(r, t)] \in Entry
    BY DEF Entry
<1>3. PICK debit \in Entry, credit \in Entry :
        journal' = LET debited == [journal EXCEPT ![t.payer] = Append(@, debit)]
                   IN  [debited EXCEPT ![t.payee] = Append(@, credit)]
    BY <1>1, <1>2 DEF PostPayment
<1>4. journal' \in [Users -> Seq(Entry)]
    <2>. DEFINE debited == [journal EXCEPT ![t.payer] = Append(@, debit)]
    <2>1. debited \in [Users -> Seq(Entry)]
        BY DEF StoreTypeOK
    <2>2. journal' = [debited EXCEPT ![t.payee] = Append(@, credit)]
        BY <1>3
    <2>. HIDE DEF debited
    <2>. QED BY <2>1, <2>2
<1>5. wallets' = LET debited == [wallets EXCEPT ![t.payer] = payerRow]
                  IN  [debited EXCEPT ![t.payee].balance = Credited(r, t)]
    BY DEF PostPayment
<1>6. wallets' \in [Users -> Row]
    BY <1>5 DEF StoreTypeOK, Row
<1>. QED BY <1>4, <1>5, <1>6 DEF StoreTypeOK

\* An entry computed from the balance in the table prolongs the chain.
LEMMA ChainAppend ==
    ASSUME StoreTypeOK, NEW u \in Users, ChainOf(u), NEW e \in Entry,
           e.after = e.amount + wallets[u].balance,
           journal'[u] = Append(journal[u], e),
           wallets'[u].balance = e.after
    PROVE  ChainOf(u)'
<1>. DEFINE n == Len(journal[u])
<1>1. journal[u] \in Seq(Entry) /\ n \in Nat
    BY DEF StoreTypeOK
<1>2. /\ Len(journal'[u]) = n + 1
      /\ journal'[u][n + 1] = e
      /\ \A k \in 1..n : journal'[u][k] = journal[u][k]
      /\ journal'[u] # <<>>
    BY <1>1
<1>3. wallets[u].balance = IF n = 0 THEN Opening[u].balance ELSE journal[u][n].after
    BY <1>1 DEF ChainOf
<1>4. ASSUME NEW k \in 1..(n + 1)
      PROVE  journal'[u][k].after = journal'[u][k].amount +
                (IF k = 1 THEN Opening[u].balance ELSE journal'[u][k - 1].after)
    <2>1. CASE k = n + 1
        <3>1. CASE n = 0
            BY <1>2, <1>3, <2>1, <3>1
        <3>2. CASE n # 0
            <4>1. k # 1 /\ k - 1 = n /\ n \in 1..n
                BY <1>1, <2>1, <3>2
            <4>2. journal'[u][k - 1].after = wallets[u].balance
                BY <1>2, <1>3, <3>2, <4>1
            <4>. QED BY <1>2, <2>1, <4>1, <4>2
        <3>. QED BY <3>1, <3>2
    <2>2. CASE k \in 1..n
        <3>1. k # 1 => k - 1 \in 1..n
            BY <1>1, <2>2
        <3>2. journal[u][k].after = journal[u][k].amount +
                (IF k = 1 THEN Opening[u].balance ELSE journal[u][k - 1].after)
            BY <2>2 DEF ChainOf
        <3>. QED BY <1>2, <2>2, <3>1, <3>2
    <2>. QED BY <1>1, <2>1, <2>2
<1>5. wallets'[u].balance = journal'[u][Len(journal'[u])].after
    BY <1>2
<1>. QED BY <1>2, <1>4, <1>5 DEF ChainOf

\* A wallet whose balance and entries stay as they are keeps its chain.
LEMMA ChainSame ==
    ASSUME NEW u \in Users, ChainOf(u),
           journal'[u] = journal[u], wallets'[u].balance = wallets[u].balance
    PROVE  ChainOf(u)'
BY DEF ChainOf

LEMMA BooksSame ==
    ASSUME JournalChain, UNCHANGED <<wallets, journal>>
    PROVE  JournalChain'
BY ChainSame DEF JournalChain

\* A payment between two different wallets, both locked and fresh, keeps every
\* chain: no update is lost and none is computed from a stale balance.
LEMMA PaymentKeepsChain ==
    ASSUME StoreTypeOK, EscrowCovered, JournalChain, NEW r \in Requests, NEW t,
           t.payer \in Users, t.payee \in Users, t.payer # t.payee,
           t.amount \in Int64,
           seen[r][t.payer] = wallets[t.payer],
           seen[r][t.payee] = wallets[t.payee],
           PaymentFits(r, t),
           NEW payerRow \in Row, payerRow.balance = Debited(r, t),
           PostPayment(r, t, payerRow)
    PROVE  /\ JournalChain'
           /\ wallets' \in [Users -> Row]
           /\ journal' \in [Users -> Seq(Entry)]
           /\ wallets'[t.payer] = payerRow
           /\ wallets'[t.payee] = [wallets[t.payee] EXCEPT
                                        !.balance = @ + t.amount]
           /\ \A u \in Users \ {t.payer, t.payee} : wallets'[u] = wallets[u]
<1>. DEFINE debit  == [amount |-> -t.amount, after |-> Debited(r, t)]
            credit == [amount |-> t.amount, after |-> Credited(r, t)]
<1>1. /\ Debited(r, t) = wallets[t.payer].balance - t.amount
      /\ Credited(r, t) = wallets[t.payee].balance + t.amount
      /\ Debited(r, t) \in Int64 /\ Credited(r, t) \in Int64
      /\ -t.amount \in Int64
    BY PaymentSums
<1>2. debit \in Entry /\ credit \in Entry
    BY <1>1 DEF Entry
<1>3. /\ journal' = [journal EXCEPT ![t.payer] = Append(journal[t.payer], debit),
                                    ![t.payee] = Append(journal[t.payee], credit)]
      /\ wallets' = [wallets EXCEPT ![t.payer] = payerRow,
                                    ![t.payee] = [wallets[t.payee] EXCEPT !.balance = Credited(r, t)]]
    BY DEF PostPayment, StoreTypeOK
<1>4. /\ journal'[t.payer] = Append(journal[t.payer], debit)
      /\ journal'[t.payee] = Append(journal[t.payee], credit)
      /\ \A u \in Users \ {t.payer, t.payee} : journal'[u] = journal[u]
    BY <1>3 DEF StoreTypeOK
<1>5. /\ wallets'[t.payer] = payerRow
      /\ wallets'[t.payee] = [wallets[t.payee] EXCEPT !.balance = Credited(r, t)]
      /\ \A u \in Users \ {t.payer, t.payee} : wallets'[u] = wallets[u]
    BY <1>3 DEF StoreTypeOK
<1>6. journal' \in [Users -> Seq(Entry)]
    <2>. HIDE DEF debit, credit
    <2>1. /\ Append(journal[t.payer], debit) \in Seq(Entry)
          /\ Append(journal[t.payee], credit) \in Seq(Entry)
        BY <1>2 DEF StoreTypeOK
    <2>. QED BY <1>3, <2>1 DEF StoreTypeOK
<1>7. wallets' \in [Users -> Row]
    BY <1>1, <1>3 DEF StoreTypeOK, Row
<1>8. wallets'[t.payee].balance = Credited(r, t)
    BY <1>5 DEF StoreTypeOK, Row
<1>9. /\ wallets[t.payer].balance \in Int /\ wallets[t.payee].balance \in Int
      /\ t.amount \in Int
    <2>1. Int64 \subseteq Int
        BY StoreAssumption DEF Int64
    <2>. QED BY <2>1 DEF StoreTypeOK, Row
<1>10. ASSUME NEW u \in Users PROVE ChainOf(u)'
    <2>. ChainOf(u) BY DEF JournalChain
    <2>1. CASE u = t.payer
        <3>1. debit.after = debit.amount + wallets[u].balance
            BY <1>1, <1>9, <2>1
        <3>. HIDE DEF debit
        <3>2. wallets'[u].balance = debit.after
            BY <1>5, <2>1 DEF debit
        <3>. QED BY <1>2, <1>4, <2>1, <3>1, <3>2, ChainAppend
    <2>2. CASE u = t.payee
        <3>1. credit.after = credit.amount + wallets[u].balance
            BY <1>1, <1>9, <2>2
        <3>2. wallets'[u].balance = credit.after
            BY <1>8, <2>2
        <3>. HIDE DEF credit
        <3>. QED BY <1>2, <1>4, <2>2, <3>1, <3>2, ChainAppend
    <2>3. CASE u \notin {t.payer, t.payee}
        BY <1>4, <1>5, <2>3, ChainSame
    <2>. QED BY <2>1, <2>2, <2>3
<1>11. JournalChain'
    BY <1>10 DEF JournalChain
<1>. QED BY <1>1, <1>5, <1>6, <1>7, <1>11

-----------------------------------------------------------------------------
(* The audit.                                                              *)

\* Money moves from one wallet to another one.
LEMMA PaymentKeepsTotal ==
    ASSUME wallets \in [Users -> Row], wallets' \in [Users -> Row],
           NEW payer \in Users, NEW payee \in Users, payer # payee, NEW amount \in Int,
           wallets'[payer].balance = wallets[payer].balance - amount,
           wallets'[payee].balance = wallets[payee].balance + amount,
           \A u \in Users \ {payer, payee} : wallets'[u].balance = wallets[u].balance
    PROVE  TotalOf(wallets') = TotalOf(wallets)
<1>1. PICK before : before = [u \in Users |-> wallets[u].balance]
    OBVIOUS
<1>2. PICK after : after = [u \in Users |-> wallets'[u].balance]
    OBVIOUS
<1>3. before \in [Users -> Int] /\ after \in [Users -> Int]
    BY <1>1, <1>2, StoreAssumption DEF Row, Int64
<1>4. Moved(before, after, payer, payee, amount, Users)
    <2>1. /\ before[payer] = Plus(after[payer], amount)
          /\ after[payee] = Plus(before[payee], amount)
        BY <1>1, <1>2, <1>3 DEF Plus
    <2>2. \A u \in Users \ {payer, payee} : after[u] = before[u]
        BY <1>1, <1>2
    <2>. QED BY <2>1, <2>2 DEF Moved
<1>5. SumFunction(after) = SumFunction(before)
    <2>1. IsFiniteSet(Users)
        BY StoreAssumption
    <2>. QED BY <1>3, <1>4, <2>1, SumTransfer
<1>. QED BY <1>1, <1>2, <1>5 DEF TotalOf

\* Without fundings, money is conserved if the total stays.
LEMMA NoFunding ==
    ASSUME \A i \in DOMAIN transactions : transactions[i].payer \in Users
    PROVE  MoneyConserved <=> TotalOf(wallets) = TotalOf(Opening)
<1>1. Funding = {}
    BY StoreAssumption DEF Funding
<1>2. SumFunction([i \in Funding |-> transactions[i].amount]) = 0
    BY <1>1, SumEmpty
<1>3. TotalOf(Opening) \in Int
    <2>1. [u \in Users |-> Opening[u].balance] \in [Users -> Int]
        BY StoreAssumption DEF Row, Int64
    <2>. QED BY <2>1, StoreAssumption, SumType DEF TotalOf
<1>. QED BY <1>2, <1>3 DEF MoneyConserved
=============================================================================

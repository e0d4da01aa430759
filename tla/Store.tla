------------------------------- MODULE Store -------------------------------
(***************************************************************************)
(* What every TapCash service shares: the wallet tables in PostgreSQL      *)
(* (backend/migrations), the row locks that SELECT ... FOR UPDATE takes    *)
(* and the connection pool of each server process                          *)
(* (internal/pkg/database), and the goroutine that serves each request.    *)
(*                                                                         *)
(* A request is a goroutine with a program counter pc.  The rows it has    *)
(* read into local variables are seen[r]; they keep their values while     *)
(* other requests run.  The tables change only when a transaction          *)
(* commits (READ COMMITTED: nobody reads what is not committed).           *)
(***************************************************************************)
EXTENDS Integers, Sequences, FiniteSets, FiniteSetsExt

CONSTANTS
    Users,      \* users that own a wallet; ids are ordered as the strings are
    Requests,   \* HTTP requests, each served by a goroutine of its own
    None,       \* no value: nil, NULL, a free lock
    Instances,  \* server processes on the same database
    Home,       \* the process that serves a request
    MaxConns,   \* connections in the pool of a process (25 in the code)
    MaxInt,     \* the largest int64 / BIGINT
    Opening     \* the wallet rows at the start

Int64 == (-MaxInt - 1)..MaxInt

Row == [balance : Int64, allocated : Int64, lastSeq : Int64]

\* Faulty: arithmetic without a width.
WrapNot(x) == x

\* Go's int64 addition of two int64 values.
Wrap(x) ==
    IF x > MaxInt THEN x - 2 * (MaxInt + 1)
    ELSE IF x < -MaxInt - 1 THEN x + 2 * (MaxInt + 1) ELSE x

\* A row whose escrow is covered by its balance.
Covered(row) == 0 <= row.allocated /\ row.allocated <= row.balance

ASSUME StoreAssumption ==
    /\ Users \subseteq Nat /\ IsFiniteSet(Users)
    /\ None \notin Requests \cup Users
    /\ Home \in [Requests -> Instances]
    /\ MaxConns \in Nat \ {0}
    /\ MaxInt \in Nat
    /\ Opening \in [Users -> Row]
    /\ \A u \in Users : Covered(Opening[u])

VARIABLES
    wallets,      \* table wallets, by user_id (UNIQUE)
    journal,      \* table ledger_entries, by wallet, in commit order
    transactions, \* table transactions, in commit order
    rowLock,      \* the request whose transaction locks a wallet row, or None
    conns,        \* requests whose transaction holds a pooled connection
    seen,         \* wallet rows as a request has scanned them into locals
    pc,           \* where the goroutine of a request is
    reply         \* what the client has been answered

tables    == <<wallets, journal, transactions>>
sessions  == <<rowLock, conns, seen>>
storeVars == <<wallets, journal, transactions, rowLock, conns, seen, pc, reply>>

\* Go's zero values in the local variables of a handler.
ZeroRow == [balance |-> 0, allocated |-> 0, lastSeq |-> 0]
NoRows  == [u \in Users |-> ZeroRow]

StoreInit ==
    /\ wallets = Opening
    /\ journal = [u \in Users |-> <<>>]
    /\ transactions = <<>>
    /\ rowLock = [u \in Users |-> None]
    /\ conns = {}
    /\ seen = [r \in Requests |-> NoRows]
    /\ pc = [r \in Requests |-> "idle"]
    /\ reply = [r \in Requests |-> "none"]

-----------------------------------------------------------------------------
(* Goroutines.                                                             *)

At(r, label)    == pc[r] = label
Goto(r, label)  == pc' = [pc EXCEPT ![r] = label]
Answer(r, what) == reply' = [reply EXCEPT ![r] = what]

-----------------------------------------------------------------------------
(* Connections and transactions.                                           *)

InUse(i) == {r \in conns : Home[r] = i}

PoolHasRoom(i) == Cardinality(InUse(i)) < MaxConns

\* pool.Begin: waits until the pool of the process has a connection.
TakeConn(r) ==
    /\ PoolHasRoom(Home[r])
    /\ conns' = conns \cup {r}
    /\ UNCHANGED <<rowLock, seen>>

RowFree(r, u) == rowLock[u] \in {None, r}

\* Faulty: the row is read without FOR UPDATE.
LockRowUnlocked(r, u) ==
    /\ seen' = [seen EXCEPT ![r] = [@ EXCEPT ![u] = wallets[u]]]
    /\ UNCHANGED <<rowLock, conns>>

\* SELECT ... FROM wallets ... FOR UPDATE: waits while another transaction
\* has the row, then locks it and scans what is committed at that moment.
LockRow(r, u) ==
    /\ RowFree(r, u)
    /\ rowLock' = [rowLock EXCEPT ![u] = r]
    /\ seen' = [seen EXCEPT ![r] = [@ EXCEPT ![u] = wallets[u]]]
    /\ UNCHANGED conns

Unlocked(r) == [u \in Users |-> IF rowLock[u] = r THEN None ELSE rowLock[u]]

\* Faulty: the connection is not returned to the pool.
EndTxLeak(r) ==
    /\ rowLock' = Unlocked(r)
    /\ seen' = [seen EXCEPT ![r] = NoRows]
    /\ UNCHANGED conns

\* COMMIT or the deferred Rollback: the row locks and the connection go back,
\* the locals of the handler die with its return.
EndTx(r) ==
    /\ rowLock' = Unlocked(r)
    /\ conns' = conns \ {r}
    /\ seen' = [seen EXCEPT ![r] = NoRows]

Busy(i) == {r \in Requests : Home[r] = i /\ pc[r] \notin {"idle", "done"}}

\* A server process dies: its goroutines are gone, their clients get no answer,
\* PostgreSQL rolls their transactions back.
CrashStore(i) ==
    /\ Busy(i) # {}
    /\ rowLock' = [u \in Users |-> IF rowLock[u] \in Busy(i) THEN None ELSE rowLock[u]]
    /\ conns' = conns \ Busy(i)
    /\ seen' = [r \in Requests |-> IF r \in Busy(i) THEN NoRows ELSE seen[r]]
    /\ pc' = [r \in Requests |-> IF r \in Busy(i) THEN "done" ELSE pc[r]]
    /\ UNCHANGED <<wallets, journal, transactions, reply>>

-----------------------------------------------------------------------------
(* Posting a payment: two wallet rows, a debit and a credit entry and a    *)
(* transaction record.  Every statement here finds its rows locked by its  *)
(* own transaction, and COMMIT follows: one step.                          *)

Payment(key, payer, payee, amount) ==
    [key |-> key, payer |-> payer, payee |-> payee, amount |-> amount]

Debited(r, t)  == Wrap(seen[r][t.payer].balance - t.amount)
Credited(r, t) == Wrap(seen[r][t.payee].balance + t.amount)

\* The CHECK constraints of wallets, ledger_entries and transactions.
PaymentFits(r, t) ==
    /\ t.amount > 0
    /\ Debited(r, t) >= 0
    /\ Credited(r, t) >= 0

KeyTaken(key) ==
    \E i \in DOMAIN transactions : transactions[i].key = key

\* The new rows: the payer's columns as the caller computed them, and the
\* payee's balance column written after them.
PostPayment(r, t, payerRow) ==
    /\ wallets' = LET debited == [wallets EXCEPT ![t.payer] = payerRow]
                  IN  [debited EXCEPT ![t.payee].balance = Credited(r, t)]
    /\ journal' =
        LET debited == [journal EXCEPT ![t.payer] =
                            Append(@, [amount |-> -t.amount, after |-> Debited(r, t)])]
        IN  [debited EXCEPT ![t.payee] =
                            Append(@, [amount |-> t.amount, after |-> Credited(r, t)])]
    /\ transactions' = Append(transactions, t)

-----------------------------------------------------------------------------
(* Waiting.  wants[r] is the set of rows that request r waits for.         *)

\* A set of requests each of which waits for a row another one of them has.
Deadlocked(D, wants) ==
    \A r \in D : \E u \in wants[r] : rowLock[u] \in D \ {r}

LockCycle(wants) ==
    \E D \in (SUBSET Requests) \ {{}} : Deadlocked(D, wants)

InLockCycle(r, wants) ==
    \E D \in SUBSET Requests : r \in D /\ Deadlocked(D, wants)

-----------------------------------------------------------------------------
(* Types and properties of the tables.                                     *)

Entry == [amount : Int64, after : Int64]

StoreTypeOK ==
    /\ wallets \in [Users -> Row]
    /\ journal \in [Users -> Seq(Entry)]
    /\ rowLock \in [Users -> Requests \cup {None}]
    /\ conns \in SUBSET Requests
    /\ seen \in [Requests -> [Users -> Row]]

\* A row lock is worth something only if what its holder has scanned is still
\* what the table says: no other transaction has written the row since.
LockedRowsAreFresh ==
    \A u \in Users : rowLock[u] # None => seen[rowLock[u]][u] = wallets[u]

\* The escrow an offline wallet spends from is covered by money that is there,
\* whatever transfers, funding and redemptions run in between.
EscrowCovered == \A u \in Users : Covered(wallets[u])

\* What every service needs of the tables and the locks, and keeps.
StoreInv ==
    /\ StoreTypeOK
    /\ pc = [r \in Requests |-> pc[r]]
    /\ LockedRowsAreFresh
    /\ EscrowCovered

\* balance_after_cents of an entry follows from the entry before it, and the
\* wallet shows the last one: a lost update, a posting computed from a stale
\* balance or a wallet changed without its entry breaks the chain.
ChainOf(u) ==
    /\ \A k \in 1..Len(journal[u]) :
          journal[u][k].after = journal[u][k].amount +
            (IF k = 1 THEN Opening[u].balance ELSE journal[u][k - 1].after)
    /\ wallets[u].balance =
          IF journal[u] = <<>> THEN Opening[u].balance
                               ELSE journal[u][Len(journal[u])].after

JournalChain == \A u \in Users : ChainOf(u)

\* The audit of the simulator: all the money there is is the money there was
\* plus what funding brought in (a funding has no payer).
Funding == {i \in DOMAIN transactions : transactions[i].payer = None}

TotalOf(table) == SumFunction([u \in Users |-> table[u].balance])

MoneyConserved ==
    TotalOf(wallets) =
        TotalOf(Opening) + SumFunction([i \in Funding |-> transactions[i].amount])

\* One idempotency key, one payment: retries, an expired key, two processes
\* and a lost acknowledgement never charge a client twice.
NoDoubleCharge ==
    \A i, j \in DOMAIN transactions :
        transactions[i].key # None /\ transactions[i].key = transactions[j].key => i = j
=============================================================================

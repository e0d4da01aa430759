-------------------------------- MODULE Bank --------------------------------
(***************************************************************************)
(* What TapCash promises, without databases, locks or retries: every user  *)
(* has a balance, part of it in escrow for offline payments, and money     *)
(* moves in single steps.  A note (an idempotency key; a voucher with its  *)
(* nonce and sequence number) is good for one payment.                     *)
(***************************************************************************)
EXTENDS Integers

CONSTANTS
    Users,
    MaxInt,     \* what a balance can hold
    Notes,      \* sets of tokens: each set is good for one payment
    Opening     \* the wallets at the start

VARIABLES
    balance,    \* all of a user's money
    escrow,     \* the part of it kept for offline payments
    spent       \* tokens that have been used

bankVars == <<balance, escrow, spent>>

BankInit ==
    /\ balance = [u \in Users |-> Opening[u].balance]
    /\ escrow = [u \in Users |-> Opening[u].allocated]
    /\ spent = {}

Spend(note) == note \cap spent = {} /\ spent' = spent \cup note

Move(u, v, a) ==
    /\ u # v
    /\ balance[v] + a <= MaxInt
    /\ balance' = [balance EXCEPT ![u] = @ - a, ![v] = @ + a]

\* Money that is not in escrow is paid.
FromAvailable(u, a) ==
    /\ a <= balance[u] - escrow[u]
    /\ UNCHANGED escrow

\* A voucher is paid, out of the escrow as far as that goes.
FromEscrow(u, a) ==
    /\ a <= balance[u]
    /\ escrow' = [escrow EXCEPT ![u] = IF a < @ THEN @ - a ELSE 0]

Pay(u, v, a) ==
    /\ Move(u, v, a)
    /\ FromAvailable(u, a) \/ FromEscrow(u, a)
    /\ \E note \in Notes : Spend(note)

Reserve(u, a) ==
    /\ a <= balance[u] - escrow[u]
    /\ escrow' = [escrow EXCEPT ![u] = @ + a]
    /\ UNCHANGED <<balance, spent>>

Deposit(u, a) ==
    /\ balance[u] + a <= MaxInt
    /\ balance' = [balance EXCEPT ![u] = @ + a]
    /\ UNCHANGED <<escrow, spent>>

BankNext ==
    \E u \in Users, a \in 1..MaxInt :
        \/ Reserve(u, a)
        \/ Deposit(u, a)
        \/ \E v \in Users : Pay(u, v, a)

BankSpec == BankInit /\ [][BankNext]_bankVars
=============================================================================

--------------------------- MODULE WalletService ---------------------------
(***************************************************************************)
(* Funding and offline allocation: internal/features/wallet.  Both look    *)
(* the wallet up, then lock its row in a transaction and change it.        *)
(***************************************************************************)
EXTENDS Store

CONSTANT Jobs   \* what the users ask of their wallets

ASSUME JobAssumption ==
    Jobs \subseteq [op : {"fund", "allocate"}, user : Users, amount : Int64]

VARIABLE job    \* what a request asks for

WalletInit == job = [r \in Requests |-> None]

Own(r) == seen[r][job[r].user]

\* POST /wallet/fund and /wallet/allocate-offline; the service refuses an
\* amount that is not positive.
SubmitJob(r) ==
    /\ At(r, "idle")
    /\ \E j \in Jobs :
        /\ job' = [job EXCEPT ![r] = j]
        /\ IF j.amount > 0 THEN Goto(r, "find") /\ UNCHANGED reply
                           ELSE Goto(r, "done") /\ Answer(r, "refused")
    /\ UNCHANGED <<tables, sessions>>

\* GetByUserID, through the pool.
FindWallet(r) ==
    /\ At(r, "find")
    /\ PoolHasRoom(Home[r])
    /\ Goto(r, "start")
    /\ UNCHANGED <<tables, sessions, reply, job>>

StartJob(r) ==
    /\ At(r, "start")
    /\ TakeConn(r)
    /\ Goto(r, "row")
    /\ UNCHANGED <<tables, reply, job>>

LockOwn(r) ==
    /\ At(r, "row")
    /\ LockRow(r, job[r].user)
    /\ Goto(r, "change")
    /\ UNCHANGED <<tables, reply, job>>

\* The transaction is over and the client is answered.
EndJob(r, what) ==
    /\ EndTx(r)
    /\ Goto(r, "done")
    /\ Answer(r, what)
    /\ UNCHANGED job

Funded(r) == Wrap(Own(r).balance + job[r].amount)

\* The UPDATE, the INSERTs and COMMIT; the acknowledgement may be lost.
Fund(r) ==
    /\ At(r, "change") /\ job[r].op = "fund"
    /\ Funded(r) >= 0
    /\ wallets' = [wallets EXCEPT ![job[r].user].balance = Funded(r)]
    /\ journal' = [journal EXCEPT ![job[r].user] =
            Append(@, [amount |-> job[r].amount, after |-> Funded(r)])]
    /\ transactions' =
            Append(transactions, Payment(None, None, job[r].user, job[r].amount))
    /\ \E what \in {"funded", "error"} : EndJob(r, what)

\* The CHECK of the balance refuses an amount that overflows the column.
RefuseFund(r) ==
    /\ At(r, "change") /\ job[r].op = "fund"
    /\ Funded(r) < 0
    /\ EndJob(r, "error")
    /\ UNCHANGED tables

\* Faulty: what is in escrow already is not set aside.
MayAllocateAgain(r) == job[r].amount <= Own(r).balance

MayAllocate(r) == job[r].amount <= Own(r).balance - Own(r).allocated

Allocate(r) ==
    /\ At(r, "change") /\ job[r].op = "allocate"
    /\ MayAllocate(r)
    /\ wallets' = [wallets EXCEPT ![job[r].user].allocated =
            Wrap(Own(r).allocated + job[r].amount)]
    /\ UNCHANGED <<journal, transactions>>
    /\ \E what \in {"allocated", "error"} : EndJob(r, what)

RefuseAllocate(r) ==
    /\ At(r, "change") /\ job[r].op = "allocate"
    /\ ~MayAllocate(r)
    /\ EndJob(r, "refused")
    /\ UNCHANGED tables

\* The context ends or the database fails.
FailJob(r) ==
    /\ pc[r] \in {"find", "start", "row", "change"}
    /\ EndJob(r, "error")
    /\ UNCHANGED tables

JobStep(r) ==
    \/ FindWallet(r) \/ StartJob(r) \/ LockOwn(r)
    \/ Fund(r) \/ RefuseFund(r) \/ Allocate(r) \/ RefuseAllocate(r)

WalletRequest(r) == SubmitJob(r) \/ FailJob(r) \/ JobStep(r)

WalletWants == [r \in Requests |-> IF At(r, "row") THEN {job[r].user} ELSE {}]

-----------------------------------------------------------------------------
(* Properties.                                                             *)

WalletLabels == {"find", "start", "row", "change"}

\* How far a job has got: it asks for a positive amount, and changes a row only
\* when it has locked it.
JobOK(r) ==
    /\ pc[r] \in WalletLabels => job[r] \in Jobs /\ job[r].amount > 0
    /\ pc[r] = "change" => rowLock[job[r].user] = r

\* What the wallet service keeps true on its own, whatever other services run on
\* the same tables.
WalletCore ==
    /\ job \in [Requests -> Jobs \cup {None}]
    /\ \A r \in Requests : JobOK(r)
=============================================================================

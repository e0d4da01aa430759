---------------------------- MODULE BackendProofs ----------------------------
(***************************************************************************)
(* Proofs about the server: what transfers, reconciliation and the wallet  *)
(* service keep, each on its own, they keep together, in any number of     *)
(* processes that die and come back.                                       *)
(***************************************************************************)
EXTENDS Backend, OnlineProofs, SyncProofs

-----------------------------------------------------------------------------
(* The wallet service.                                                     *)

LEMMA JobType ==
    ASSUME NEW j \in Jobs
    PROVE  j.user \in Users /\ j.amount \in Int64
BY JobAssumption

\* A job whose rows nobody touches stays where it is.
LEMMA JobKept ==
    ASSUME NEW q \in Requests, JobOK(q), job'[q] = job[q],
           \/ pc'[q] \notin WalletLabels
           \/ /\ pc'[q] = pc[q]
              /\ \A u \in Users : rowLock[u] = q => rowLock'[u] = q
    PROVE  JobOK(q)'
BY JobType DEF JobOK, WalletLabels

\* What other services and a crash do to jobs: nothing.
LEMMA WalletUntouched ==
    ASSUME WalletCore, UNCHANGED job,
           \A q \in Requests :
              \/ pc'[q] \notin WalletLabels
              \/ /\ pc'[q] = pc[q]
                 /\ \A u \in Users : rowLock[u] = q => rowLock'[u] = q
    PROVE  WalletCore'
<1>1. ASSUME NEW q \in Requests PROVE JobOK(q)'
    BY JobKept DEF WalletCore
<1>. QED BY <1>1 DEF WalletCore

\* A step of r concerns no other job.
LEMMA OwnJobStep ==
    ASSUME WalletCore, NEW r \in Requests, StepOf(r),
           job' \in [Requests -> Jobs \cup {None}],
           \A q \in Requests \ {r} : job'[q] = job[q], JobOK(r)'
    PROVE  WalletCore'
<1>1. ASSUME NEW q \in Requests PROVE JobOK(q)'
    BY JobKept DEF WalletCore, StepOf
<1>. QED BY <1>1 DEF WalletCore

LEMMA SubmitJobStep ==
    ASSUME StoreInv, WalletCore, NEW r \in Requests, SubmitJob(r)
    PROVE  StoreInv' /\ StepOf(r) /\ WalletCore'
<1>1. PICK j \in Jobs :
        /\ job' = [job EXCEPT ![r] = j]
        /\ IF j.amount > 0 THEN Goto(r, "find") /\ UNCHANGED reply
                           ELSE Goto(r, "done") /\ Answer(r, "refused")
    BY DEF SubmitJob
<1>2. StoreInv' /\ StepOf(r)
    BY <1>1, MoveStoreStep DEF SubmitJob, sessions, StoreInv, StoreTypeOK
<1>3. /\ job' \in [Requests -> Jobs \cup {None}] /\ job'[r] = j
      /\ \A q \in Requests \ {r} : job'[q] = job[q]
    BY <1>1 DEF WalletCore
<1>4. JobOK(r)'
    <2>1. pc'[r] = (IF j.amount > 0 THEN "find" ELSE "done")
        BY <1>1 DEF Goto, StoreInv
    <2>. QED BY <1>3, <2>1 DEF JobOK, WalletLabels
<1>. QED BY <1>2, <1>3, <1>4, OwnJobStep

LEMMA MoveJobStep ==
    ASSUME StoreInv, WalletCore, NEW r \in Requests, FindWallet(r) \/ StartJob(r)
    PROVE  StoreInv' /\ StepOf(r) /\ WalletCore'
<1>1. /\ UNCHANGED <<tables, rowLock, seen, job>> /\ conns' \in SUBSET Requests
      /\ pc[r] \in WalletLabels
    BY DEF FindWallet, StartJob, TakeConn, sessions, StoreInv, StoreTypeOK, At, WalletLabels
<1>2. PICK label \in WalletLabels \ {"change"} : Goto(r, label)
    BY DEF FindWallet, StartJob, WalletLabels
<1>3. StoreInv' /\ StepOf(r)
    BY <1>1, <1>2, MoveStoreStep
<1>4. JobOK(r)'
    <2>1. pc'[r] = label
        BY <1>2 DEF Goto, StoreInv
    <2>. QED BY <1>1, <1>2, <2>1 DEF WalletCore, JobOK
<1>. QED BY <1>1, <1>3, <1>4, OwnJobStep DEF WalletCore

LEMMA LockOwnStep ==
    ASSUME StoreInv, WalletCore, NEW r \in Requests, LockOwn(r)
    PROVE  StoreInv' /\ StepOf(r) /\ WalletCore'
<1>. USE DEF LockOwn
<1>1. job[r] \in Jobs /\ job[r].amount > 0
    BY DEF At, WalletCore, JobOK, WalletLabels
<1>2. job[r].user \in Users
    BY <1>1, JobType
<1>3. StoreInv' /\ StepOf(r)
    BY <1>2, LockStoreStep
<1>4. rowLock'[job[r].user] = r
    BY <1>2 DEF LockRow, StoreInv, StoreTypeOK
<1>5. JobOK(r)'
    BY <1>1, <1>4 DEF JobOK
<1>. QED BY <1>3, <1>5, OwnJobStep DEF WalletCore

\* A job that ends has locked at most its own row.
LEMMA EndJobOK ==
    ASSUME StoreInv, NEW r \in Requests, NEW what, EndJob(r, what)
    PROVE  JobOK(r)'
<1>1. pc'[r] = "done"
    BY DEF EndJob, Goto, StoreInv
<1>. QED BY <1>1 DEF JobOK, WalletLabels

LEMMA GiveUpJobStep ==
    ASSUME StoreInv, WalletCore, NEW r \in Requests,
           RefuseFund(r) \/ RefuseAllocate(r) \/ FailJob(r)
    PROVE  StoreInv' /\ StepOf(r) /\ WalletCore'
<1>1. PICK what : EndJob(r, what)
    BY DEF RefuseFund, RefuseAllocate, FailJob
<1>2. UNCHANGED tables
    BY DEF RefuseFund, RefuseAllocate, FailJob
<1>3. StoreInv' /\ StepOf(r)
    BY <1>1, <1>2, RollbackStoreStep DEF EndJob
<1>4. JobOK(r)'
    BY <1>1, EndJobOK
<1>. QED BY <1>1, <1>3, <1>4, OwnJobStep DEF WalletCore, EndJob

\* What a job that changes its row starts from.
LEMMA ChangeFinds ==
    ASSUME StoreInv, WalletCore, NEW r \in Requests, At(r, "change")
    PROVE  LET u == job[r].user
           IN  /\ u \in Users /\ rowLock[u] = r /\ Own(r) = wallets[u]
               /\ wallets[u] \in Row /\ Covered(wallets[u])
               /\ wallets[u].balance \in Int /\ wallets[u].allocated \in Int
               /\ job[r].amount \in Int64 /\ job[r].amount \in Int /\ job[r].amount > 0
<1>1. job[r] \in Jobs /\ job[r].amount > 0 /\ rowLock[job[r].user] = r
    BY DEF At, WalletCore, JobOK, WalletLabels
<1>2. job[r].user \in Users /\ job[r].amount \in Int64
    BY <1>1, JobType
<1>3. Own(r) = wallets[job[r].user]
    BY <1>1, <1>2, StoreAssumption DEF Own, StoreInv, LockedRowsAreFresh
<1>4. wallets[job[r].user] \in Row /\ Covered(wallets[job[r].user])
    BY <1>2 DEF StoreInv, StoreTypeOK, EscrowCovered
<1>5. Int64 \subseteq Int
    BY StoreAssumption DEF Int64
<1>. QED BY <1>1, <1>2, <1>3, <1>4, <1>5 DEF Row

\* A funding adds exactly its amount: a sum that wraps is refused.
LEMMA FundEffect ==
    ASSUME StoreInv, WalletCore, NEW r \in Requests, Fund(r)
    PROVE  LET u == job[r].user
               a == job[r].amount
               after == wallets[u].balance + a
           IN  /\ u \in Users /\ rowLock[u] = r /\ a \in Int64 /\ a > 0
               /\ after \in Int64
               /\ wallets' = [wallets EXCEPT ![u] = [@ EXCEPT !.balance = after]]
               /\ wallets' \in [Users -> Row] /\ journal' \in [Users -> Seq(Entry)]
               /\ Covered(wallets'[u])
               /\ transactions' = Append(transactions, Payment(None, None, u, a))
               /\ JournalChain => JournalChain'
<1>. DEFINE u == job[r].user
            a == job[r].amount
            after == wallets[u].balance + a
            e == [amount |-> a, after |-> after]
<1>1. /\ At(r, "change") /\ Funded(r) >= 0
      /\ wallets' = [wallets EXCEPT ![u].balance = Funded(r)]
      /\ journal' = [journal EXCEPT ![u] = Append(@, [amount |-> a, after |-> Funded(r)])]
      /\ transactions' = Append(transactions, Payment(None, None, u, a))
    BY DEF Fund
<1>2. /\ u \in Users /\ rowLock[u] = r /\ Own(r) = wallets[u]
      /\ wallets[u] \in Row /\ Covered(wallets[u])
      /\ wallets[u].balance \in Int /\ wallets[u].allocated \in Int
      /\ a \in Int64 /\ a \in Int /\ a > 0
    BY <1>1, ChangeFinds
<1>3. wallets[u].balance \in Int64 /\ wallets[u].balance >= 0
    BY <1>2 DEF Row, Covered
<1>4. Funded(r) = Wrap(wallets[u].balance + a)
    BY <1>2 DEF Funded
<1>. HIDE DEF u, a
<1>5. Funded(r) = after /\ after \in Int64
    BY <1>1, <1>2, <1>3, <1>4, WrapSum, WrapType
<1>. HIDE DEF after
<1>6. wallets' = [wallets EXCEPT ![u] = [@ EXCEPT !.balance = after]]
    BY <1>1, <1>5
<1>7. wallets' \in [Users -> Row]
    BY <1>2, <1>5, <1>6 DEF StoreInv, StoreTypeOK, Row
<1>8. e \in Entry
    BY <1>2, <1>5 DEF Entry
<1>9. journal' = [journal EXCEPT ![u] = Append(@, e)]
    BY <1>1, <1>5
<1>10. e.after = e.amount + wallets[u].balance
    BY <1>2 DEF after
<1>. HIDE DEF e
<1>11. journal' \in [Users -> Seq(Entry)]
    <2>1. journal \in [Users -> Seq(Entry)]
        BY DEF StoreInv, StoreTypeOK
    <2>2. Append(journal[u], e) \in Seq(Entry)
        BY <1>2, <1>8, <2>1
    <2>. QED BY <1>9, <2>1, <2>2
<1>12. wallets'[u].balance = after /\ wallets'[u].allocated = wallets[u].allocated
    BY <1>2, <1>6 DEF StoreInv, StoreTypeOK, Row
<1>13. Covered(wallets'[u])
    BY <1>2, <1>12 DEF Covered, after
<1>14. ASSUME JournalChain PROVE JournalChain'
    <2>1. ASSUME NEW w \in Users PROVE ChainOf(w)'
        <3>. ChainOf(w) BY <1>14 DEF JournalChain
        <3>1. CASE w = u
            <4>1. journal'[w] = Append(journal[w], e)
                BY <1>2, <1>9, <3>1 DEF StoreInv, StoreTypeOK
            <4>2. wallets'[w].balance = e.after
                BY <1>12, <3>1 DEF e
            <4>. QED BY <1>8, <1>10, <3>1, <4>1, <4>2, ChainAppend DEF StoreInv
        <3>2. CASE w # u
            BY <1>6, <1>9, <3>2, ChainSame DEF StoreInv, StoreTypeOK
        <3>. QED BY <3>1, <3>2
    <2>. QED BY <2>1 DEF JournalChain
<1>. QED BY <1>1, <1>2, <1>5, <1>6, <1>7, <1>11, <1>13, <1>14 DEF u, a, after

\* An allocation moves available money, and no more, into the escrow.
LEMMA AllocateEffect ==
    ASSUME StoreInv, WalletCore, NEW r \in Requests, Allocate(r)
    PROVE  LET u == job[r].user
               a == job[r].amount
               after == wallets[u].allocated + a
           IN  /\ u \in Users /\ rowLock[u] = r /\ a \in Int64 /\ a > 0
               /\ a <= wallets[u].balance - wallets[u].allocated
               /\ wallets' = [wallets EXCEPT ![u] = [@ EXCEPT !.allocated = after]]
               /\ wallets' \in [Users -> Row]
               /\ Covered(wallets'[u])
               /\ UNCHANGED <<journal, transactions>>
<1>. DEFINE u == job[r].user
            a == job[r].amount
            after == wallets[u].allocated + a
<1>1. /\ At(r, "change") /\ MayAllocate(r)
      /\ wallets' = [wallets EXCEPT ![u].allocated = Wrap(Own(r).allocated + a)]
      /\ UNCHANGED <<journal, transactions>>
    BY DEF Allocate
<1>2. /\ u \in Users /\ rowLock[u] = r /\ Own(r) = wallets[u]
      /\ wallets[u] \in Row /\ Covered(wallets[u])
      /\ wallets[u].balance \in Int /\ wallets[u].allocated \in Int
      /\ a \in Int64 /\ a \in Int /\ a > 0
    BY <1>1, ChangeFinds
<1>3. a <= wallets[u].balance - wallets[u].allocated
    BY <1>1, <1>2 DEF MayAllocate
<1>. HIDE DEF u, a
<1>4. after \in Int64
    <2>1. 0 <= after /\ after <= wallets[u].balance
        BY <1>2, <1>3 DEF Covered
    <2>. QED BY <1>2, <2>1, StoreAssumption DEF Row, Int64
<1>5. Wrap(Own(r).allocated + a) = after
    BY <1>2, <1>4, WrapFits
<1>6. after >= 0 /\ after <= wallets[u].balance
    BY <1>2, <1>3 DEF Covered
<1>. HIDE DEF after
<1>7. wallets' = [wallets EXCEPT ![u] = [@ EXCEPT !.allocated = after]]
    BY <1>1, <1>5
<1>8. wallets' \in [Users -> Row]
    BY <1>2, <1>4, <1>7 DEF StoreInv, StoreTypeOK, Row
<1>9. wallets'[u].balance = wallets[u].balance /\ wallets'[u].allocated = after
    BY <1>2, <1>7 DEF StoreInv, StoreTypeOK, Row
<1>10. Covered(wallets'[u])
    BY <1>6, <1>9 DEF Covered
<1>. QED BY <1>1, <1>2, <1>3, <1>7, <1>8, <1>10 DEF u, a, after

\* A funding or an allocation keeps every escrow covered.
LEMMA ChangeStep ==
    ASSUME StoreInv, WalletCore, NEW r \in Requests, Fund(r) \/ Allocate(r)
    PROVE  StoreInv' /\ StepOf(r) /\ WalletCore'
<1>. DEFINE u == job[r].user
<1>1. /\ u \in Users /\ rowLock[u] = r
      /\ wallets' \in [Users -> Row] /\ journal' \in [Users -> Seq(Entry)]
      /\ Covered(wallets'[u])
      /\ \A w \in Users \ {u} : wallets'[w] = wallets[w]
    <2>1. CASE Fund(r)
        <3>1. PICK row : wallets' = [wallets EXCEPT ![u] = row]
            BY <2>1, FundEffect
        <3>. QED BY <2>1, <3>1, FundEffect DEF StoreInv, StoreTypeOK
    <2>2. CASE Allocate(r)
        <3>1. PICK row : wallets' = [wallets EXCEPT ![u] = row]
            BY <2>2, AllocateEffect
        <3>. QED BY <2>2, <3>1, AllocateEffect DEF StoreInv, StoreTypeOK
    <2>. QED BY <2>1, <2>2
<1>2. PICK what : EndJob(r, what)
    BY DEF Fund, Allocate
<1>. HIDE DEF u
<1>3. \A w \in Users : Covered(wallets'[w])
    BY <1>1 DEF StoreInv, EscrowCovered
<1>4. StoreInv' /\ StepOf(r)
    <2>1. EndTx(r) /\ Goto(r, "done")
        BY <1>2 DEF EndJob
    <2>2. \A w \in Users : rowLock[w] # r => wallets'[w] = wallets[w]
        BY <1>1
    <2>. QED BY <1>1, <1>3, <2>1, <2>2, EndStoreStep
<1>5. JobOK(r)'
    BY <1>2, EndJobOK
<1>. QED BY <1>2, <1>4, <1>5, OwnJobStep DEF WalletCore, EndJob

LEMMA WalletRequestStep ==
    ASSUME StoreInv, WalletCore, NEW r \in Requests, WalletRequest(r)
    PROVE  StoreInv' /\ StepOf(r) /\ WalletCore'
<1>1. CASE SubmitJob(r)
    BY <1>1, SubmitJobStep
<1>2. CASE FindWallet(r) \/ StartJob(r)
    BY <1>2, MoveJobStep
<1>3. CASE LockOwn(r)
    BY <1>3, LockOwnStep
<1>4. CASE RefuseFund(r) \/ RefuseAllocate(r) \/ FailJob(r)
    BY <1>4, GiveUpJobStep
<1>5. CASE Fund(r) \/ Allocate(r)
    BY <1>5, ChangeStep
<1>. QED BY <1>1, <1>2, <1>3, <1>4, <1>5 DEF WalletRequest, JobStep

\* All steps of a job but a funding and an allocation leave the tables alone.
LEMMA WalletTables ==
    ASSUME NEW r \in Requests, WalletRequest(r), ~Fund(r), ~Allocate(r)
    PROVE  UNCHANGED tables
BY DEF WalletRequest, JobStep, SubmitJob, FindWallet, StartJob, LockOwn, RefuseFund,
       RefuseAllocate, FailJob

\* Where a step of a job leads to.
LEMMA WalletLabelNext ==
    ASSUME NEW r \in Requests, WalletRequest(r)
    PROVE  \E label \in WalletLabels \cup {"done"} : Goto(r, label)
BY DEF WalletRequest, JobStep, SubmitJob, FindWallet, StartJob, LockOwn, RefuseFund,
       RefuseAllocate, FailJob, Fund, Allocate, EndJob, WalletLabels

-----------------------------------------------------------------------------
(* The services side by side.                                              *)

\* A step of the server is one of a service that leaves the data of the others
\* alone, or a crash.
LEMMA BackendSteps ==
    ASSUME [BackendNext]_backendVars
    PROVE  \/ \E r \in Requests : OnlineRequest(r) /\ UNCHANGED <<syncVars, job>>
           \/ \E r \in Requests : SyncRequest(r) /\ UNCHANGED <<onlineVars, job>>
           \/ \E r \in Requests : WalletRequest(r) /\ UNCHANGED <<onlineVars, syncVars>>
           \/ ExpireSome /\ UNCHANGED <<syncVars, job>>
           \/ (SyncForget \/ SyncRegister) /\ UNCHANGED <<onlineVars, job>>
           \/ \E i \in Instances : Crash(i)
           \/ UNCHANGED backendVars
<1>1. ASSUME NEW r \in Requests, BreakDeadlock(r)
      PROVE  \/ FailTransfer(r) /\ UNCHANGED <<syncVars, job>>
             \/ FailVoucher(r) /\ UNCHANGED <<onlineVars, job>>
    BY <1>1 DEF BreakDeadlock, FailTransfer, FailVoucher
<1>2. ASSUME NEW r \in Requests, Submit(r) \/ Serve(r) \/ Trouble(r)
      PROVE  \/ OnlineRequest(r) /\ UNCHANGED <<syncVars, job>>
             \/ SyncRequest(r) /\ UNCHANGED <<onlineVars, job>>
             \/ WalletRequest(r) /\ UNCHANGED <<onlineVars, syncVars>>
    BY <1>1, <1>2 DEF Submit, Serve, Trouble, OnlineRequest, OnlineServe, SyncRequest,
                      WalletRequest
<1>. QED BY <1>2 DEF BackendNext, Background, BackendDone

\* A transfer beside the other services.
LEMMA TransferInBackend ==
    ASSUME BackendInv, NEW r \in Requests, OnlineRequest(r), UNCHANGED <<syncVars, job>>
    PROVE  BackendInv'
<1>. USE DEF BackendInv
<1>1. StoreInv' /\ StepOf(r) /\ TransferCore'
    BY OnlineRequestStep
<1>2. pc'[r] \in TransferLabels \cup {"done"}
    BY OnlineLabelNext DEF Goto, StoreInv
<1>3. pc'[r] \notin SyncLabels \ {"done"} /\ pc'[r] \notin WalletLabels
    BY <1>2 DEF TransferLabels, SyncLabels, WalletLabels
<1>4. ASSUME NEW u \in Users PROVE wallets'[u].lastSeq = wallets[u].lastSeq
    <2>1. CASE SettleTransfer(r)
        <3>1. wallets \in [Users -> Row]
            BY DEF StoreInv, StoreTypeOK
        <3>2. /\ order[r].payer \in Users /\ order[r].payee \in Users
              /\ wallets'[order[r].payer] =
                    [wallets[order[r].payer] EXCEPT !.balance = @ - order[r].amount]
              /\ wallets'[order[r].payee] =
                    [wallets[order[r].payee] EXCEPT !.balance = @ + order[r].amount]
              /\ \A w \in Users \ {order[r].payer, order[r].payee} : wallets'[w] = wallets[w]
            BY <2>1, SettleEffect
        <3>. QED BY <3>1, <3>2 DEF Row
    <2>2. CASE ~SettleTransfer(r)
        BY <2>2, TransferTables DEF tables
    <2>. QED BY <2>1, <2>2
<1>5. SyncCore'
    <2>1. nonces' \in [Instances -> SUBSET Nonces]
        BY DEF SyncCore, SyncDataOK, syncVars
    <2>2. \A q \in Requests :
            \/ pc'[q] \notin SyncLabels \ {"done"}
            \/ pc'[q] = pc[q] /\ \A u \in Users : rowLock[u] = q => rowLock'[u] = q
        BY <1>1, <1>3 DEF StepOf
    <2>. QED BY <1>4, <2>1, <2>2, SyncUntouched DEF syncVars
<1>6. WalletCore'
    BY <1>1, <1>3, WalletUntouched DEF StepOf
<1>. QED BY <1>1, <1>5, <1>6

\* Reconciliation beside the other services.
LEMMA VoucherInBackend ==
    ASSUME BackendInv, NEW r \in Requests, SyncRequest(r), UNCHANGED <<onlineVars, job>>
    PROVE  BackendInv'
<1>. USE DEF BackendInv
<1>1. StoreInv' /\ StepOf(r) /\ SyncCore'
    BY SyncRequestStep
<1>2. pc'[r] \in SyncLabels
    BY SyncLabelNext DEF Goto, StoreInv
<1>3. pc'[r] \notin TransferLabels /\ pc'[r] \notin WalletLabels
    BY <1>2 DEF TransferLabels, SyncLabels, WalletLabels
<1>4. \/ UNCHANGED transactions
      \/ \E t \in Posted : t.key = None /\ transactions' = Append(transactions, t)
    <2>1. CASE SettleVoucher(r)
        <3>1. transactions' = Append(transactions, Redemption(r))
            BY <2>1 DEF SettleVoucher, PostPayment
        <3>2. Redemption(r) \in Posted /\ Redemption(r).key = None
            BY <2>1, RedeemEffect, StoreAssumption DEF Redemption, Payment, Posted
        <3>. HIDE DEF Posted
        <3>. QED BY <3>1, <3>2
    <2>2. CASE ~SettleVoucher(r)
        BY <2>2, SyncRequestTables DEF tables
    <2>. QED BY <2>1, <2>2
<1>5. TransferCore'
    <2>1. keyLock' \in KeyLocks
        BY DEF TransferCore, onlineVars
    <2>. HIDE DEF Posted
    <2>. QED BY <1>1, <1>3, <1>4, <2>1, TransferUntouched DEF onlineVars, StepOf
<1>6. WalletCore'
    BY <1>1, <1>3, WalletUntouched DEF StepOf
<1>. QED BY <1>1, <1>5, <1>6

\* Fundings and allocations beside the other services.
LEMMA JobInBackend ==
    ASSUME BackendInv, NEW r \in Requests, WalletRequest(r), UNCHANGED <<onlineVars, syncVars>>
    PROVE  BackendInv'
<1>. USE DEF BackendInv
<1>1. StoreInv' /\ StepOf(r) /\ WalletCore'
    BY WalletRequestStep
<1>2. pc'[r] \in WalletLabels \cup {"done"}
    BY WalletLabelNext DEF Goto, StoreInv
<1>3. pc'[r] \notin TransferLabels /\ pc'[r] \notin SyncLabels \ {"done"}
    BY <1>2 DEF TransferLabels, SyncLabels, WalletLabels
<1>4. \/ UNCHANGED transactions
      \/ \E t \in Posted : t.key = None /\ transactions' = Append(transactions, t)
    <2>1. CASE Fund(r)
        <3>. DEFINE t == Payment(None, None, job[r].user, job[r].amount)
        <3>1. transactions' = Append(transactions, t)
            BY <2>1, FundEffect
        <3>2. t \in Posted /\ t.key = None
            BY <2>1, FundEffect, StoreAssumption DEF Payment, Posted
        <3>. HIDE DEF Posted
        <3>. QED BY <3>1, <3>2
    <2>2. CASE Allocate(r)
        BY <2>2, AllocateEffect
    <2>3. CASE ~Fund(r) /\ ~Allocate(r)
        BY <2>3, WalletTables DEF tables
    <2>. QED BY <2>1, <2>2, <2>3
<1>5. ASSUME NEW u \in Users PROVE wallets'[u].lastSeq = wallets[u].lastSeq
    <2>1. wallets \in [Users -> Row]
        BY DEF StoreInv, StoreTypeOK
    <2>2. CASE Fund(r)
        <3>1. PICK b : wallets' = [wallets EXCEPT ![job[r].user] = [@ EXCEPT !.balance = b]]
            BY <2>2, FundEffect
        <3>. QED BY <2>1, <3>1 DEF Row
    <2>3. CASE Allocate(r)
        <3>1. PICK a : wallets' = [wallets EXCEPT ![job[r].user] = [@ EXCEPT !.allocated = a]]
            BY <2>3, AllocateEffect
        <3>. QED BY <2>1, <3>1 DEF Row
    <2>4. CASE ~Fund(r) /\ ~Allocate(r)
        BY <2>4, WalletTables DEF tables
    <2>. QED BY <2>2, <2>3, <2>4
<1>6. TransferCore'
    <2>1. keyLock' \in KeyLocks
        BY DEF TransferCore, onlineVars
    <2>. HIDE DEF Posted
    <2>. QED BY <1>1, <1>3, <1>4, <2>1, TransferUntouched DEF onlineVars, StepOf
<1>7. SyncCore'
    <2>1. nonces' \in [Instances -> SUBSET Nonces]
        BY DEF SyncCore, SyncDataOK, syncVars
    <2>2. \A q \in Requests :
            \/ pc'[q] \notin SyncLabels \ {"done"}
            \/ pc'[q] = pc[q] /\ \A u \in Users : rowLock[u] = q => rowLock'[u] = q
        BY <1>1, <1>3 DEF StepOf
    <2>. QED BY <1>5, <2>1, <2>2, SyncUntouched DEF syncVars
<1>. QED BY <1>1, <1>6, <1>7

\* A process dies with all that it was serving.
LEMMA CrashInBackend ==
    ASSUME BackendInv, NEW i \in Instances, Crash(i)
    PROVE  BackendInv'
<1>. USE DEF BackendInv, Crash
<1>1. StoreInv' /\ TransferCore'
    BY OnlineCrashStep
<1>2. SyncCore'
    BY SyncCrashStep
<1>3. WalletCore'
    BY CrashStoreStep, WalletUntouched DEF WalletLabels
<1>. QED BY <1>1, <1>2, <1>3

\* What goes on beside the requests.
LEMMA BackgroundInBackend ==
    ASSUME BackendInv,
           \/ ExpireSome /\ UNCHANGED <<syncVars, job>>
           \/ (SyncForget \/ SyncRegister) /\ UNCHANGED <<onlineVars, job>>
           \/ UNCHANGED backendVars
    PROVE  BackendInv' /\ UNCHANGED storeVars
<1>. USE DEF BackendInv
<1>1. UNCHANGED <<storeVars, job>>
    BY ExpireStep DEF SyncForget, SyncRegister, ForgetNonce, RegisterDevice, backendVars
<1>2. StoreInv' /\ WalletCore'
    BY <1>1, StoreSame, WalletUntouched DEF storeVars
<1>3. TransferCore'
    <2>1. CASE ExpireSome
        BY <2>1, ExpireStep
    <2>2. CASE UNCHANGED onlineVars
        BY <1>1, <2>2, TransferUntouched DEF TransferCore, onlineVars, storeVars
    <2>. QED BY <2>1, <2>2 DEF backendVars
<1>4. SyncCore'
    <2>1. CASE SyncForget \/ SyncRegister
        BY <2>1, SyncBesideStep
    <2>2. CASE UNCHANGED syncVars
        <3>1. nonces' \in [Instances -> SUBSET Nonces]
            BY <2>2 DEF SyncCore, SyncDataOK, syncVars
        <3>. QED BY <1>1, <2>2, <3>1, SyncUntouched DEF syncVars, storeVars
    <2>. QED BY <2>1, <2>2 DEF backendVars
<1>. QED BY <1>1, <1>2, <1>3, <1>4

LEMMA BackendInvInit ==
    ASSUME BackendInit
    PROVE  BackendInv
<1>1. StoreInv /\ TransferCore
    BY InvInit DEF BackendInit, OnlineInitial, OnlineInv
<1>2. SyncCore
    BY SyncInvInit DEF BackendInit, SyncInitial, SyncInv
<1>3. WalletCore
    BY DEF BackendInit, StoreInit, WalletInit, WalletCore, JobOK, WalletLabels
<1>. QED BY <1>1, <1>2, <1>3 DEF BackendInv

\* Services that share tables, locks and pools, in processes that die and come
\* back, keep what each of them keeps on its own.
THEOREM BackendInvariant == BackendSpec => []BackendInv
<1>1. BackendInit => BackendInv
    BY BackendInvInit
<1>2. BackendInv /\ [BackendNext]_backendVars => BackendInv'
    BY BackendSteps, TransferInBackend, VoucherInBackend, JobInBackend, CrashInBackend,
       BackgroundInBackend
<1>. QED BY <1>1, <1>2, PTL DEF BackendSpec

\* The escrow of every wallet is covered by money, whatever transfers, redemptions,
\* fundings and allocations do to it at the same time.
THEOREM BackendEscrowCovered == BackendSpec => []EscrowCovered
<1>1. BackendInv => EscrowCovered
    BY DEF BackendInv, StoreInv
<1>. QED BY <1>1, BackendInvariant, PTL

\* An idempotency key charges once, also among redemptions and fundings, which
\* carry none.
THEOREM BackendNoDoubleCharge == BackendSpec => []NoDoubleCharge
<1>1. BackendInv => NoDoubleCharge
    BY DEF BackendInv, TransferCore
<1>. QED BY <1>1, BackendInvariant, PTL

-----------------------------------------------------------------------------
(* The steps that move money.                                              *)

\* All steps but these four leave wallets, payments and vouchers alone.
LEMMA BooksStay ==
    ASSUME BackendInv, [BackendNext]_backendVars,
           \A r \in Requests : ~SettleTransfer(r) /\ ~SettleVoucher(r) /\ ~Fund(r) /\ ~Allocate(r)
    PROVE  UNCHANGED <<wallets, journal, transactions, vouchers>>
<1>. USE DEF tables
<1>1. ASSUME NEW r \in Requests, OnlineRequest(r), UNCHANGED syncVars
      PROVE  UNCHANGED <<tables, vouchers>>
    BY <1>1, TransferTables DEF syncVars
<1>2. ASSUME NEW r \in Requests, SyncRequest(r) PROVE UNCHANGED <<tables, vouchers>>
    <2>1. UNCHANGED tables
        BY <1>2, SyncRequestTables
    <2>2. CASE \/ UnknownDevice(r) \/ KnownVoucher(r) \/ NoWallet(r) \/ RefuseSequence(r)
               \/ RefuseVoucherFunds(r) \/ RefuseVoucher(r) \/ FailVoucher(r)
        BY <2>1, <2>2, RefusalIsGiveUp DEF GiveUp
    <2>3. CASE \/ SubmitBatch(r) \/ TakeVoucher(r) \/ ResolveDevice(r) \/ SeenNonce(r)
               \/ FinishBatch(r) \/ OpenTx(r) \/ LookupVoucher(r) \/ LockFirst(r) \/ LockSecond(r)
        BY <2>1, <2>3 DEF SubmitBatch, StartBatch, TakeVoucher, ResolveDevice, SeenNonce,
            FinishBatch, OpenTx, LookupVoucher, LockFirst, LockSecond, syncVars
    <2>. QED BY <1>2, <2>2, <2>3 DEF SyncRequest, VoucherStep
<1>3. ASSUME NEW r \in Requests, WalletRequest(r), UNCHANGED syncVars
      PROVE  UNCHANGED <<tables, vouchers>>
    BY <1>3, WalletTables DEF syncVars
<1>4. ASSUME NEW i \in Instances, Crash(i) PROVE UNCHANGED <<tables, vouchers>>
    BY <1>4 DEF Crash, CrashStore
<1>5. CASE \/ ExpireSome /\ UNCHANGED <<syncVars, job>>
           \/ (SyncForget \/ SyncRegister) /\ UNCHANGED <<onlineVars, job>>
           \/ UNCHANGED backendVars
    <2>1. UNCHANGED storeVars
        BY <1>5, BackgroundInBackend
    <2>2. UNCHANGED vouchers
        BY <1>5 DEF SyncForget, SyncRegister, ForgetNonce, RegisterDevice, syncVars, backendVars
    <2>. QED BY <2>1, <2>2 DEF storeVars
<1>. QED BY <1>1, <1>2, <1>3, <1>4, <1>5, BackendSteps

\* When nobody pays himself offline, every wallet stays as its ledger says.
THEOREM BackendJournalChain == ASSUME NoSelfVouchers PROVE BackendSpec => []JournalChain
<1>1. BackendInit => JournalChain
    BY DEF BackendInit, StoreInit, JournalChain, ChainOf
<1>2. BackendInv /\ JournalChain /\ [BackendNext]_backendVars => JournalChain'
    <2>1. SUFFICES ASSUME BackendInv, JournalChain, [BackendNext]_backendVars
                   PROVE  JournalChain'
        OBVIOUS
    <2>. USE <2>1 DEF BackendInv
    <2>2. ASSUME NEW r \in Requests, SettleTransfer(r) PROVE JournalChain'
        BY <2>2, SettleEffect
    <2>3. ASSUME NEW r \in Requests, SettleVoucher(r) PROVE JournalChain'
        BY <2>3, RedeemKeepsBooks
    <2>4. ASSUME NEW r \in Requests, Fund(r) PROVE JournalChain'
        BY <2>4, FundEffect
    <2>5. ASSUME NEW r \in Requests, Allocate(r) PROVE JournalChain'
        <3>1. /\ UNCHANGED journal /\ job[r].user \in Users
              /\ \E a : wallets' = [wallets EXCEPT ![job[r].user] = [@ EXCEPT !.allocated = a]]
            BY <2>5, AllocateEffect
        <3>2. \A u \in Users : wallets'[u].balance = wallets[u].balance
            BY <3>1 DEF StoreInv, StoreTypeOK, Row
        <3>. QED BY <3>1, <3>2, ChainSame DEF JournalChain
    <2>6. CASE \A r \in Requests : ~SettleTransfer(r) /\ ~SettleVoucher(r) /\ ~Fund(r) /\ ~Allocate(r)
        BY <2>6, BooksStay, BooksSame
    <2>. QED BY <2>2, <2>3, <2>4, <2>5, <2>6
<1>. QED BY <1>1, <1>2, BackendInvariant, PTL DEF BackendSpec

-----------------------------------------------------------------------------
(* The audit, with fundings.                                               *)

Brought == SumFunction([i \in Funding |-> transactions[i].amount])

\* One more payment.
Posts(t) ==
    /\ t \in Posted /\ transactions \in Seq(Posted)
    /\ transactions' = Append(transactions, t)

\* The table of payments after one more.
LEMMA PostedNext ==
    ASSUME NEW t, Posts(t)
    PROVE  LET n == Len(transactions)
           IN  /\ n \in Nat /\ DOMAIN transactions = 1..n /\ DOMAIN transactions' = 1..(n + 1)
               /\ transactions'[n + 1] = t
               /\ \A i \in 1..n : transactions'[i] = transactions[i]
               /\ \A i \in 1..n : transactions[i] \in Posted
<1>. HIDE DEF Posted
<1>. QED BY DEF Posts

\* What a payment with a payer brings in: nothing.
LEMMA PaidBringsNothing ==
    ASSUME NEW t, Posts(t), t.payer # None
    PROVE  Brought' = Brought
<1>. DEFINE n == Len(transactions)
<1>1. /\ n \in Nat /\ DOMAIN transactions = 1..n /\ DOMAIN transactions' = 1..(n + 1)
      /\ transactions'[n + 1] = t
      /\ \A i \in 1..n : transactions'[i] = transactions[i]
    BY PostedNext
<1>. HIDE DEF n
<1>2. Funding' = Funding
    BY <1>1 DEF Funding
<1>3. \A i \in Funding : transactions'[i] = transactions[i]
    BY <1>1 DEF Funding
<1>. QED BY <1>2, <1>3 DEF Brought

\* What a funding brings in: its amount.
LEMMA FundingBrings ==
    ASSUME NEW t, Posts(t), t.payer = None
    PROVE  Brought' = Plus(t.amount, Brought) /\ Brought \in Int
<1>. DEFINE n == Len(transactions)
            f == [i \in Funding |-> transactions[i].amount]
<1>1. /\ n \in Nat /\ DOMAIN transactions = 1..n /\ DOMAIN transactions' = 1..(n + 1)
      /\ transactions'[n + 1] = t
      /\ \A i \in 1..n : transactions'[i] = transactions[i]
      /\ \A i \in 1..n : transactions[i] \in Posted
    BY PostedNext
<1>. HIDE DEF n
<1>2. /\ Funding' = Funding \cup {n + 1} /\ n + 1 \notin Funding
      /\ \A i \in Funding : transactions'[i] = transactions[i]
    BY <1>1 DEF Funding
<1>3. IsFiniteSet(Funding)
    <2>1. IsFiniteSet(1..n)
        BY <1>1, FS_Interval
    <2>. QED BY <1>1, <2>1, FS_Subset DEF Funding
<1>4. IsFiniteSet(Funding')
    BY <1>2, <1>3, FS_AddElement
<1>5. /\ \A i \in Funding : transactions[i].amount \in Int
      /\ t.amount \in Int
    <2>1. Int64 \subseteq Int
        BY StoreAssumption DEF Int64
    <2>. QED BY <1>1, <2>1 DEF Funding, Posted, Posts
<1>6. PICK g : g = [i \in Funding' |-> transactions'[i].amount]
    OBVIOUS
<1>7. /\ f \in [Funding -> Int] /\ g \in [Funding' -> Int]
      /\ g[n + 1] = t.amount /\ \A i \in Funding : f[i] = g[i]
    BY <1>1, <1>2, <1>5, <1>6
<1>8. Brought = SumFunction(f) /\ Brought' = SumFunction(g)
    BY <1>6 DEF Brought
<1>. HIDE DEF f
<1>9. PICK S, a, h : S = Funding' /\ a = n + 1 /\ h = f
    OBVIOUS
<1>10. SumFunction(g) = Plus(g[a], SumFunction(h))
    <2>1. S \ {a} = Funding
        BY <1>2, <1>9
    <2>2. IsFiniteSet(S) /\ a \in S /\ g \in [S -> Int]
        BY <1>2, <1>4, <1>7, <1>9
    <2>3. h \in [S \ {a} -> Int] /\ \A x \in S \ {a} : h[x] = g[x]
        BY <1>7, <1>9, <2>1
    <2>. QED BY <2>2, <2>3, SumNew
<1>11. SumFunction(f) \in Int
    BY <1>3, <1>7, SumType
<1>. QED BY <1>7, <1>8, <1>9, <1>10, <1>11

LEMMA FundAdds ==
    ASSUME StoreInv, WalletCore, NEW r \in Requests, Fund(r)
    PROVE  TotalOf(wallets') = Plus(TotalOf(wallets), job[r].amount) /\ TotalOf(wallets) \in Int
<1>. DEFINE u == job[r].user
            a == job[r].amount
            f == [w \in Users |-> wallets[w].balance]
<1>1. /\ u \in Users /\ a \in Int64
      /\ wallets' = [wallets EXCEPT ![u] = [@ EXCEPT !.balance = wallets[u].balance + a]]
      /\ wallets' \in [Users -> Row]
    BY FundEffect
<1>2. wallets \in [Users -> Row] /\ Int64 \subseteq Int
    BY StoreAssumption DEF StoreInv, StoreTypeOK, Int64
<1>. HIDE DEF u, a
<1>3. PICK g : g = [w \in Users |-> wallets'[w].balance]
    OBVIOUS
<1>4. f \in [Users -> Int] /\ g \in [Users -> Int]
    BY <1>1, <1>2, <1>3 DEF Row
<1>5. g[u] = Plus(f[u], a) /\ \A w \in Users : w # u => g[w] = f[w]
    <2>1. wallets'[u].balance = wallets[u].balance + a
        BY <1>1, <1>2 DEF Row
    <2>2. \A w \in Users : w # u => wallets'[w] = wallets[w]
        BY <1>1, <1>2
    <2>. QED BY <1>1, <1>3, <2>1, <2>2 DEF Plus
<1>6. TotalOf(wallets') = SumFunction(g) /\ TotalOf(wallets) = SumFunction(f)
    BY <1>3 DEF TotalOf
<1>. HIDE DEF f
<1>7. SumFunction(g) = Plus(SumFunction(f), a) /\ SumFunction(f) \in Int
    BY <1>1, <1>2, <1>4, <1>5, StoreAssumption, SumChange, SumType
<1>. QED BY <1>6, <1>7 DEF a

LEMMA AllocateKeepsTotal ==
    ASSUME StoreInv, WalletCore, NEW r \in Requests, Allocate(r)
    PROVE  TotalOf(wallets') = TotalOf(wallets)
<1>1. PICK a : wallets' = [wallets EXCEPT ![job[r].user] = [@ EXCEPT !.allocated = a]]
    BY AllocateEffect
<1>2. \A u \in Users : wallets'[u].balance = wallets[u].balance
    BY <1>1 DEF StoreInv, StoreTypeOK, Row
<1>. QED BY <1>2 DEF TotalOf

\* All the money there is is the money there was and what fundings brought in,
\* whatever the services do at the same time and wherever a process dies.
THEOREM BackendMoneyConserved == ASSUME NoSelfVouchers PROVE BackendSpec => []MoneyConserved
<1>1. BackendInit => MoneyConserved
    <2>1. SUFFICES ASSUME BackendInit PROVE MoneyConserved
        OBVIOUS
    <2>2. wallets = Opening /\ transactions = <<>>
        BY <2>1 DEF BackendInit, StoreInit
    <2>. QED BY <2>2, NoFunding
<1>2. BackendInv /\ MoneyConserved /\ [BackendNext]_backendVars => MoneyConserved'
    <2>1. SUFFICES ASSUME BackendInv, MoneyConserved, [BackendNext]_backendVars
                   PROVE  MoneyConserved'
        OBVIOUS
    <2>. USE <2>1 DEF BackendInv
    <2>2. TotalOf(wallets) = TotalOf(Opening) + Brought /\ transactions \in Seq(Posted)
        BY DEF MoneyConserved, Brought, TransferCore
    <2>3. SUFFICES TotalOf(wallets') = TotalOf(Opening) + Brought'
        BY DEF MoneyConserved, Brought
    <2>. HIDE DEF Posted
    <2>4. ASSUME NEW r \in Requests, SettleTransfer(r)
          PROVE  TotalOf(wallets') = TotalOf(Opening) + Brought'
        <3>1. order[r] \in Posted /\ order[r].payer # None
            <4>1. order[r] \in Orders /\ order[r].payer \in Users
                BY <2>4, SettleEffect
            <4>. QED BY <4>1, StoreAssumption DEF Orders, Posted
        <3>2. transactions' = Append(transactions, order[r])
            BY <2>4 DEF SettleTransfer, PostPayment
        <3>3. Brought' = Brought
            BY <2>2, <3>1, <3>2, PaidBringsNothing DEF Posts
        <3>. QED BY <2>2, <2>4, <3>3, SettleKeepsTotal
    <2>5. ASSUME NEW r \in Requests, SettleVoucher(r)
          PROVE  TotalOf(wallets') = TotalOf(Opening) + Brought'
        <3>1. Redemption(r) \in Posted /\ Redemption(r).payer # None
            <4>1. payerOf[r] \in Users /\ The(r).payee \in Users /\ The(r).amount \in Int64
                BY <2>5, RedeemEffect
            <4>. QED BY <4>1, StoreAssumption DEF Redemption, Payment, Posted
        <3>2. transactions' = Append(transactions, Redemption(r))
            BY <2>5 DEF SettleVoucher, PostPayment
        <3>3. Brought' = Brought
            BY <2>2, <3>1, <3>2, PaidBringsNothing DEF Posts
        <3>. QED BY <2>2, <2>5, <3>3, RedeemKeepsBooks
    <2>6. ASSUME NEW r \in Requests, Fund(r)
          PROVE  TotalOf(wallets') = TotalOf(Opening) + Brought'
        <3>. DEFINE t == Payment(None, None, job[r].user, job[r].amount)
        <3>1. transactions' = Append(transactions, t) /\ job[r].amount \in Int64
            BY <2>6, FundEffect
        <3>2. t \in Posted /\ t.payer = None /\ t.amount = job[r].amount
            BY <2>6, FundEffect, StoreAssumption DEF Payment, Posted
        <3>. HIDE DEF t
        <3>3. Brought' = Plus(job[r].amount, Brought) /\ Brought \in Int
            BY <2>2, <3>1, <3>2, FundingBrings DEF Posts
        <3>4. TotalOf(wallets') = Plus(TotalOf(wallets), job[r].amount)
            BY <2>6, FundAdds
        <3>5. TotalOf(Opening) \in Int /\ job[r].amount \in Int
            <4>1. [u \in Users |-> Opening[u].balance] \in [Users -> Int]
                BY StoreAssumption DEF Row, Int64
            <4>2. TotalOf(Opening) \in Int
                BY <4>1, StoreAssumption, SumType DEF TotalOf
            <4>. QED BY <3>1, <4>2, StoreAssumption DEF Int64
        <3>. QED BY <2>2, <3>3, <3>4, <3>5 DEF Plus
    <2>7. ASSUME NEW r \in Requests, Allocate(r)
          PROVE  TotalOf(wallets') = TotalOf(Opening) + Brought'
        <3>1. UNCHANGED transactions
            BY <2>7, AllocateEffect
        <3>2. Brought' = Brought
            BY <3>1 DEF Brought, Funding
        <3>. QED BY <2>2, <2>7, <3>2, AllocateKeepsTotal
    <2>8. CASE \A r \in Requests : ~SettleTransfer(r) /\ ~SettleVoucher(r) /\ ~Fund(r) /\ ~Allocate(r)
        <3>1. UNCHANGED <<wallets, transactions>>
            BY <2>8, BooksStay
        <3>2. Brought' = Brought
            BY <3>1 DEF Brought, Funding
        <3>. QED BY <2>2, <3>1, <3>2
    <2>. QED BY <2>4, <2>5, <2>6, <2>7, <2>8
<1>. QED BY <1>1, <1>2, BackendInvariant, PTL DEF BackendSpec

-----------------------------------------------------------------------------
(* Refinement: each transfer, redemption, funding and allocation is one    *)
(* step of the bank.                                                       *)

Balances == [u \in Users |-> wallets[u].balance]
Escrows  == [u \in Users |-> wallets[u].allocated]

\* No key is a voucher.
LEMMA KeysAreNoVouchers ==
    /\ \A x \in SpentVouchers : x[1] # "key"
    /\ \A x \in SpentKeys : x[1] = "key"
    /\ \A n \in KeyNotes : \A x \in n : x[1] = "key"
    /\ \A n \in VoucherNotes : \A x \in n : x[1] # "key"
BY DEF SpentVouchers, SpentKeys, KeyNotes, VoucherNotes, VoucherNote

\* A redemption as the bank sees it: the payer's money becomes the payee's, his
\* escrow is used up first, and a voucher that was not spent is.
LEMMA RedeemPayment ==
    ASSUME NoSelfVouchers, StoreInv, TransferCore, SyncCore,
           NEW r \in Requests, SettleVoucher(r)
    PROVE  \E u \in Users, v \in Users, a \in 1..MaxInt, n \in VoucherNotes :
              /\ u # v /\ a <= Balances[u] /\ Balances[v] + a <= MaxInt
              /\ Balances' = [Balances EXCEPT ![u] = @ - a, ![v] = @ + a]
              /\ Escrows' = [Escrows EXCEPT ![u] = IF a < @ THEN @ - a ELSE 0]
              /\ n \cap SpentVouchers = {} /\ SpentVouchers' = SpentVouchers \cup n
              /\ SpentKeys' = SpentKeys
<1>. DEFINE payer == payerOf[r]
            v     == The(r)
            payee == v.payee
            note  == VoucherNote(payer, v)
<1>1. /\ payer \in Users /\ payee \in Users /\ v \in Uploaded /\ v \in Voucher
      /\ payer = DeviceUser[v.device] /\ v.amount \in Int64 /\ v.amount > 0
      /\ v.seq > wallets[payer].lastSeq /\ wallets[payer].balance >= v.amount
      /\ Debited(r, Redemption(r)) = wallets[payer].balance - v.amount
      /\ Credited(r, Redemption(r)) = wallets[payee].balance + v.amount
      /\ EscrowLeft(r) = IF v.amount > wallets[payer].allocated
            THEN 0 ELSE wallets[payer].allocated - v.amount
      /\ wallets' \in [Users -> Row]
      /\ payer # payee => wallets'[payer] = PayerRowAfter(r)
      /\ payer # payee => wallets'[payee] =
            [wallets[payee] EXCEPT !.balance = wallets[payee].balance + v.amount]
      /\ \A u \in Users \ {payer, payee} : wallets'[u] = wallets[u]
    BY RedeemEffect
<1>2. payer # payee
    BY <1>1 DEF NoSelfVouchers
<1>3. Credited(r, Redemption(r)) \in Int64
    <2>1. wallets' \in [Users -> Row] /\ wallets'[payee].balance = wallets[payee].balance + v.amount
        BY <1>1, <1>2 DEF StoreInv, StoreTypeOK, Row
    <2>. QED BY <1>1, <2>1 DEF Row
<1>4. ~Recorded(v)
    BY DEF SettleVoucher
<1>5. PayerRowAfter(r).balance = wallets[payer].balance - v.amount
      /\ PayerRowAfter(r).allocated = EscrowLeft(r)
    BY <1>1 DEF PayerRowAfter
<1>. DEFINE n == Len(vouchers)
<1>6. /\ n \in Nat /\ DOMAIN vouchers = 1..n /\ DOMAIN vouchers' = 1..(n + 1)
      /\ vouchers'[n + 1] = VoucherRow(r) /\ \A k \in 1..n : vouchers'[k] = vouchers[k]
    BY RedeemVouchers DEF SyncCore
<1>7. VoucherNote(VoucherRow(r).payer, VoucherRow(r)) = note
    BY DEF VoucherRow, VoucherNote
<1>8. transactions' = Append(transactions, Redemption(r))
    BY DEF SettleVoucher, PostPayment
<1>9. SpentKeys' = SpentKeys
    <2>1. Redemption(r) \in Posted /\ Redemption(r).key = None
        BY <1>1, StoreAssumption DEF Redemption, Payment, Posted
    <2>. QED BY <1>8, <2>1, SpentAfter DEF TransferCore
<1>. HIDE DEF payer, v, payee, n
<1>10. note \in VoucherNotes
    BY <1>1 DEF VoucherNotes
<1>11. SpentVouchers' = SpentVouchers \cup note
    <2>. DEFINE noteOf(k) == VoucherNote(vouchers[k].payer, vouchers[k])
    <2>1. SpentVouchers' = UNION {VoucherNote(vouchers'[k].payer, vouchers'[k]) : k \in 1..(n + 1)}
        BY <1>6 DEF SpentVouchers, VoucherNote
    <2>2. /\ SpentVouchers = UNION {noteOf(k) : k \in 1..n}
          /\ \A k \in 1..n : VoucherNote(vouchers'[k].payer, vouchers'[k]) = noteOf(k)
          /\ VoucherNote(vouchers'[n + 1].payer, vouchers'[n + 1]) = note
        BY <1>6, <1>7 DEF SpentVouchers
    <2>. HIDE DEF note, noteOf
    <2>. QED BY <1>6, <2>1, <2>2
<1>12. note \cap SpentVouchers = {}
    <2>1. ASSUME NEW k \in 1..n, NEW x \in note, x \in VoucherNote(vouchers[k].payer, vouchers[k])
          PROVE  FALSE
        <3>1. vouchers[k].id # v.id /\ vouchers[k].nonce # v.nonce
            BY <1>4, <1>6 DEF Recorded
        <3>2. ~(vouchers[k].payer = payer /\ vouchers[k].seq = v.seq)
            <4>1. vouchers[k].seq <= wallets[vouchers[k].payer].lastSeq
                BY <1>6 DEF SyncCore, SequenceMonotone
            <4>2. wallets[payer].lastSeq \in Int /\ v.seq \in Int
                <5>1. Int64 \subseteq Int
                    BY StoreAssumption DEF Int64
                <5>. QED BY <1>1, <5>1 DEF StoreInv, StoreTypeOK, Row, Voucher
            <4>. QED BY <1>1, <4>1, <4>2
        <3>. QED BY <2>1, <3>1, <3>2 DEF VoucherNote
    <2>. HIDE DEF note
    <2>. QED BY <1>6, <2>1 DEF SpentVouchers
<1>. HIDE DEF note
<1>13. /\ wallets \in [Users -> Row] /\ Int64 \subseteq Int
    BY StoreAssumption DEF StoreInv, StoreTypeOK, Int64
<1>14. /\ wallets[payer].balance \in Int /\ wallets[payee].balance \in Int
       /\ wallets[payer].allocated \in Int /\ v.amount \in 1..MaxInt
       /\ wallets[payee].balance + v.amount <= MaxInt
    BY <1>1, <1>3, <1>13, StoreAssumption DEF Row, Int64
<1>15. /\ wallets'[payer].balance = wallets[payer].balance - v.amount
       /\ wallets'[payer].allocated = IF v.amount < wallets[payer].allocated
            THEN wallets[payer].allocated - v.amount ELSE 0
       /\ wallets'[payee].balance = wallets[payee].balance + v.amount
       /\ wallets'[payee].allocated = wallets[payee].allocated
    <2>1. /\ wallets'[payer].balance = wallets[payer].balance - v.amount
          /\ wallets'[payer].allocated = EscrowLeft(r)
        BY <1>1, <1>2, <1>5
    <2>2. /\ wallets'[payee].balance = wallets[payee].balance + v.amount
          /\ wallets'[payee].allocated = wallets[payee].allocated
        BY <1>1, <1>2, <1>13 DEF Row
    <2>. QED BY <1>1, <1>14, <2>1, <2>2
<1>16. Balances' = [Balances EXCEPT ![payer] = @ - v.amount, ![payee] = @ + v.amount]
    BY <1>1, <1>2, <1>15 DEF Balances
<1>17. Escrows' = [Escrows EXCEPT ![payer] = IF v.amount < @ THEN @ - v.amount ELSE 0]
    BY <1>1, <1>2, <1>15 DEF Escrows
<1>18. v.amount <= Balances[payer] /\ Balances[payee] + v.amount <= MaxInt
    BY <1>1, <1>14 DEF Balances
<1>. QED BY <1>1, <1>2, <1>9, <1>10, <1>11, <1>12, <1>14, <1>16, <1>17, <1>18

\* Money from outside and money set aside, as the bank sees them.
LEMMA FundPays ==
    ASSUME BackendInv, NEW r \in Requests, Fund(r), UNCHANGED vouchers
    PROVE  BackendBank!BankNext
<1>1. PICK u \in Users, a \in Int64 :
        /\ a > 0 /\ wallets[u].balance + a \in Int64
        /\ wallets' = [wallets EXCEPT ![u] = [@ EXCEPT !.balance = wallets[u].balance + a]]
        /\ transactions' = Append(transactions, Payment(None, None, u, a))
    <2>. DEFINE w == job[r].user
                b == job[r].amount
    <2>1. StoreInv /\ WalletCore
        BY DEF BackendInv
    <2>2. /\ w \in Users /\ b \in Int64 /\ b > 0 /\ wallets[w].balance + b \in Int64
          /\ wallets' = [wallets EXCEPT ![w] = [@ EXCEPT !.balance = wallets[w].balance + b]]
          /\ transactions' = Append(transactions, Payment(None, None, w, b))
        BY ONLY <2>1, r \in Requests, Fund(r), FundEffect
    <2>. HIDE DEF w, b
    <2>. QED BY ONLY <2>2
<1>. DEFINE t == Payment(None, None, u, a)
<1>2. wallets \in [Users -> Row] /\ transactions \in Seq(Posted)
    BY DEF BackendInv, StoreInv, StoreTypeOK, TransferCore
<1>3. SpentKeys' = SpentKeys
    <2>1. t \in Posted /\ t.key = None
        BY <1>1, StoreAssumption DEF Payment, Posted
    <2>2. transactions' = Append(transactions, t)
        BY <1>1
    <2>. HIDE DEF t
    <2>. QED BY <1>2, <2>1, <2>2, SpentAfter
<1>. HIDE DEF t
<1>4. a \in 1..MaxInt /\ wallets[u].balance + a <= MaxInt
    BY <1>1, StoreAssumption DEF Int64
<1>5. Balances' = [Balances EXCEPT ![u] = @ + a] /\ UNCHANGED Escrows
    BY <1>1, <1>2 DEF Balances, Escrows, Row
<1>6. UNCHANGED SpentVouchers
    BY DEF SpentVouchers
<1>7. BackendBank!Deposit(u, a)
    BY <1>1, <1>3, <1>4, <1>5, <1>6 DEF BackendBank!Deposit, Balances, Escrows
<1>. QED BY <1>1, <1>4, <1>7 DEF BackendBank!BankNext

LEMMA AllocatePays ==
    ASSUME BackendInv, NEW r \in Requests, Allocate(r), UNCHANGED vouchers
    PROVE  BackendBank!BankNext
<1>1. PICK u \in Users, a \in Int64 :
        /\ a > 0 /\ a <= wallets[u].balance - wallets[u].allocated
        /\ wallets' = [wallets EXCEPT ![u] = [@ EXCEPT !.allocated = wallets[u].allocated + a]]
        /\ UNCHANGED transactions
    BY AllocateEffect DEF BackendInv
<1>2. wallets \in [Users -> Row]
    BY DEF BackendInv, StoreInv, StoreTypeOK
<1>3. a \in 1..MaxInt
    BY <1>1, StoreAssumption DEF Int64
<1>4. Escrows' = [Escrows EXCEPT ![u] = @ + a] /\ UNCHANGED Balances
    BY <1>1, <1>2 DEF Balances, Escrows, Row
<1>5. UNCHANGED <<SpentKeys, SpentVouchers>>
    BY <1>1 DEF SpentKeys, Keyed, SpentVouchers
<1>6. BackendBank!Reserve(u, a)
    BY <1>1, <1>4, <1>5 DEF BackendBank!Reserve, Balances, Escrows
<1>. QED BY <1>1, <1>3, <1>6 DEF BackendBank!BankNext

LEMMA TransferPays ==
    ASSUME BackendInv, NEW r \in Requests, SettleTransfer(r), UNCHANGED vouchers
    PROVE  BackendBank!BankNext
<1>1. PICK u \in Users, v \in Users, a \in 1..MaxInt, n \in KeyNotes :
            /\ u # v /\ a <= Balances[u] - Escrows[u] /\ Balances[v] + a <= MaxInt
            /\ Balances' = [Balances EXCEPT ![u] = @ - a, ![v] = @ + a] /\ Escrows' = Escrows
            /\ n \cap SpentKeys = {} /\ SpentKeys' = SpentKeys \cup n
    BY SettlePayment DEF BackendInv, Balances, Escrows
<1>2. BackendBank!Spend(n)
    <2>1. n \cap SpentVouchers = {} /\ UNCHANGED SpentVouchers
        BY KeysAreNoVouchers DEF SpentVouchers
    <2>. QED BY <1>1, <2>1 DEF BackendBank!Spend
<1>3. BackendBank!Move(u, v, a) /\ BackendBank!FromAvailable(u, a)
    BY <1>1 DEF BackendBank!Move, BackendBank!FromAvailable, Balances, Escrows
<1>4. BackendBank!Pay(u, v, a)
    BY <1>2, <1>3 DEF BackendBank!Pay
<1>. QED BY <1>4 DEF BackendBank!BankNext

LEMMA RedeemPays ==
    ASSUME NoSelfVouchers, BackendInv, NEW r \in Requests, SettleVoucher(r)
    PROVE  BackendBank!BankNext
<1>1. PICK u \in Users, v \in Users, a \in 1..MaxInt, n \in VoucherNotes :
            /\ u # v /\ a <= Balances[u] /\ Balances[v] + a <= MaxInt
            /\ Balances' = [Balances EXCEPT ![u] = @ - a, ![v] = @ + a]
            /\ Escrows' = [Escrows EXCEPT ![u] = IF a < @ THEN @ - a ELSE 0]
            /\ n \cap SpentVouchers = {} /\ SpentVouchers' = SpentVouchers \cup n
            /\ SpentKeys' = SpentKeys
    BY RedeemPayment DEF BackendInv
<1>2. BackendBank!Spend(n)
    <2>1. n \cap SpentKeys = {}
        BY KeysAreNoVouchers
    <2>. QED BY <1>1, <2>1 DEF BackendBank!Spend
<1>3. BackendBank!Move(u, v, a) /\ BackendBank!FromEscrow(u, a)
    BY <1>1 DEF BackendBank!Move, BackendBank!FromEscrow, Balances, Escrows
<1>4. BackendBank!Pay(u, v, a)
    BY <1>2, <1>3 DEF BackendBank!Pay
<1>. QED BY <1>4 DEF BackendBank!BankNext

\* What a transfer, a funding and an allocation leave to reconciliation.
LEMMA VouchersStay ==
    ASSUME BackendInv, [BackendNext]_backendVars,
           NEW r \in Requests, SettleTransfer(r) \/ Fund(r) \/ Allocate(r)
    PROVE  UNCHANGED vouchers
<1>1. pc[r] \in {"settle", "change"}
    BY DEF SettleTransfer, Fund, Allocate, At
<1>2. ASSUME NEW q \in Requests, SettleVoucher(q) PROVE FALSE
    <2>1. pc[q] = "post" /\ pc'[q] = "next"
        BY <1>2 DEF SettleVoucher, Conclude, At, Goto, BackendInv, StoreInv
    <2>2. q # r
        BY <1>1, <2>1
    <2>3. pc'[q] = pc[q]
        BY <2>2, OnlineRequestStep, WalletRequestStep DEF BackendInv, StepOf,
           OnlineRequest, OnlineServe, TransferStep, WalletRequest, JobStep
    <2>. QED BY <2>1, <2>3
<1>3. ASSUME NEW q \in Requests, SyncRequest(q) PROVE UNCHANGED vouchers
    <2>1. CASE \/ UnknownDevice(q) \/ KnownVoucher(q) \/ NoWallet(q) \/ RefuseSequence(q)
               \/ RefuseVoucherFunds(q) \/ RefuseVoucher(q) \/ FailVoucher(q)
        BY <2>1, RefusalIsGiveUp DEF GiveUp
    <2>2. CASE \/ SubmitBatch(q) \/ TakeVoucher(q) \/ ResolveDevice(q) \/ SeenNonce(q)
               \/ FinishBatch(q) \/ OpenTx(q) \/ LookupVoucher(q) \/ LockFirst(q) \/ LockSecond(q)
        BY <2>2 DEF SubmitBatch, StartBatch, TakeVoucher, ResolveDevice, SeenNonce,
            FinishBatch, OpenTx, LookupVoucher, LockFirst, LockSecond, syncVars
    <2>. QED BY <1>2, <1>3, <2>1, <2>2 DEF SyncRequest, VoucherStep
<1>. QED BY <1>3, BackendSteps DEF SyncForget, SyncRegister, ForgetNonce, RegisterDevice,
        Crash, syncVars, backendVars

\* The whole server implements the bank: with nobody paying himself offline, every
\* interleaving of the services, with failures, expiries and crashes, moves money in
\* single steps, each key and each voucher once, and pays vouchers first from the escrow
\* and transfers never from it.
THEOREM BackendRefinesBank ==
    ASSUME NoSelfVouchers PROVE BackendSpec => BackendImplementsBank
<1>1. BackendInit => BackendBank!BankInit
    <2>1. SUFFICES ASSUME BackendInit PROVE BackendBank!BankInit
        OBVIOUS
    <2>2. wallets = Opening /\ transactions = <<>> /\ vouchers = <<>>
        BY <2>1 DEF BackendInit, StoreInit, SyncInit
    <2>. QED BY <2>2 DEF BackendBank!BankInit, SpentKeys, Keyed, SpentVouchers
<1>2. BackendInv /\ [BackendNext]_backendVars => [BackendBank!BankNext]_BackendBank!bankVars
    <2>1. SUFFICES ASSUME BackendInv, [BackendNext]_backendVars
                   PROVE  [BackendBank!BankNext]_BackendBank!bankVars
        OBVIOUS
    <2>. USE <2>1
    <2>2. ASSUME NEW r \in Requests, SettleTransfer(r) \/ Fund(r) \/ Allocate(r)
          PROVE  BackendBank!BankNext
        BY <2>2, VouchersStay, TransferPays, FundPays, AllocatePays
    <2>3. ASSUME NEW r \in Requests, SettleVoucher(r) PROVE BackendBank!BankNext
        BY <2>3, RedeemPays
    <2>4. CASE \A r \in Requests : ~SettleTransfer(r) /\ ~SettleVoucher(r) /\ ~Fund(r) /\ ~Allocate(r)
        <3>1. UNCHANGED <<wallets, transactions, vouchers>>
            BY <2>4, BooksStay
        <3>. QED BY <3>1 DEF BackendBank!bankVars, SpentKeys, Keyed, SpentVouchers
    <2>. QED BY <2>2, <2>3, <2>4
<1>. QED BY <1>1, <1>2, BackendInvariant, PTL
        DEF BackendSpec, BackendImplementsBank, BackendBank!BankSpec

-----------------------------------------------------------------------------
(* What is in escrow pays the vouchers signed against it.                  *)

\* What a set of vouchers is worth.
Worth(S) == SumFunction([v \in S |-> v.amount])

\* The vouchers S of a user make up for all that has left his escrow, and their
\* numbers are used up.
MakeUp(S, u) ==
    /\ \A v \in S : v.seq <= wallets[u].lastSeq
    /\ Opening[u].allocated <= Plus(Worth(S), wallets[u].allocated)

\* Nothing leaves an escrow but for vouchers its user has signed.
Backed(u) == \E S \in SUBSET Issued(u) : MakeUp(S, u)

LEMMA UploadedType ==
    ASSUME NEW v \in Uploaded
    PROVE  v \in Voucher /\ v.amount \in Int /\ v.seq \in Int
<1>1. PICK b \in Batches : \E i \in DOMAIN b : v = b[i]
    BY DEF Uploaded
<1>2. b \in Seq(Voucher)
    BY <1>1, VoucherAssumption
<1>3. v \in Voucher
    <2>. HIDE DEF Voucher
    <2>. QED BY <1>1, <1>2
<1>4. Int64 \subseteq Int
    BY StoreAssumption DEF Int64
<1>. QED BY <1>3, <1>4 DEF Voucher

LEMMA WorthOf ==
    ASSUME IsFiniteSet(Uploaded), NEW S, S \subseteq Uploaded
    PROVE  /\ IsFiniteSet(S) /\ [v \in S |-> v.amount] \in [S -> Int]
           /\ Worth(S) \in Int
<1>1. IsFiniteSet(S)
    BY FS_Subset
<1>2. [v \in S |-> v.amount] \in [S -> Int]
    BY UploadedType
<1>3. PICK f : f = [v \in S |-> v.amount]
    OBVIOUS
<1>4. SumFunction(f) \in Int
    BY <1>1, <1>2, <1>3, SumType
<1>. QED BY <1>1, <1>2, <1>3, <1>4 DEF Worth

\* One voucher more.
LEMMA WorthAdds ==
    ASSUME IsFiniteSet(Uploaded), NEW S, S \subseteq Uploaded, NEW x \in Uploaded \ S
    PROVE  Worth(S \cup {x}) = Plus(x.amount, Worth(S))
<1>1. PICK T : T = S \cup {x}
    OBVIOUS
<1>2. T \subseteq Uploaded /\ x \in T /\ T \ {x} = S
    BY <1>1
<1>3. PICK f : f = [v \in T |-> v.amount]
    OBVIOUS
<1>4. PICK g : g = [v \in S |-> v.amount]
    OBVIOUS
<1>5. IsFiniteSet(T) /\ f \in [T -> Int]
    BY <1>2, <1>3, WorthOf
<1>6. g \in [T \ {x} -> Int]
    BY <1>2, <1>4, WorthOf
<1>7. \A v \in T \ {x} : g[v] = f[v]
    BY <1>2, <1>3, <1>4
<1>8. SumFunction(f) = Plus(f[x], SumFunction(g))
    BY <1>2, <1>5, <1>6, <1>7, SumNew
<1>. QED BY <1>1, <1>2, <1>3, <1>4, <1>8 DEF Worth

\* All that a user has signed is worth no less than a part of it.
LEMMA WorthGrows ==
    ASSUME IsFiniteSet(Uploaded), NEW u, NEW S, S \subseteq Issued(u)
    PROVE  Worth(S) <= Worth(Issued(u))
<1>1. PICK T : T = Issued(u)
    OBVIOUS
<1>2. T \subseteq Uploaded /\ S \subseteq T /\ \A v \in T : v.amount > 0
    BY <1>1 DEF Issued
<1>3. PICK f : f = [v \in T |-> v.amount]
    OBVIOUS
<1>4. PICK g : g = [v \in S |-> v.amount]
    OBVIOUS
<1>5. IsFiniteSet(T) /\ f \in [T -> Int]
    BY <1>2, <1>3, WorthOf
<1>6. g \in [S -> Int]
    <2>1. S \subseteq Uploaded
        BY <1>2
    <2>. QED BY <1>4, <2>1, WorthOf
<1>7. (\A v \in T : f[v] >= 0) /\ (\A v \in S : g[v] = f[v])
    <2>1. \A v \in T : v.amount \in Int
        BY <1>2, UploadedType
    <2>. QED BY <1>2, <1>3, <1>4, <2>1
<1>8. SumFunction(g) <= SumFunction(f)
    BY <1>2, <1>5, <1>6, <1>7, SumGrows
<1>. QED BY <1>1, <1>3, <1>4, <1>8 DEF Worth

\* What every row and every opening has.
LEMMA RowNumbers ==
    ASSUME StoreInv, NEW u \in Users
    PROVE  /\ wallets[u].allocated \in Int /\ wallets[u].lastSeq \in Int
           /\ wallets[u].balance \in Int /\ Opening[u].allocated \in Int
           /\ wallets[u].allocated <= wallets[u].balance /\ 0 <= wallets[u].allocated
<1>1. wallets[u] \in Row /\ Opening[u] \in Row
    BY StoreAssumption DEF StoreInv, StoreTypeOK
<1>2. Int64 \subseteq Int
    BY StoreAssumption DEF Int64
<1>. QED BY <1>1, <1>2 DEF Row, StoreInv, EscrowCovered, Covered

\* A wallet that gains, or stays as it is, stays backed.
LEMMA BackedGains ==
    ASSUME IsFiniteSet(Uploaded), StoreInv, StoreInv', NEW u \in Users, Backed(u),
           wallets'[u].lastSeq = wallets[u].lastSeq,
           wallets'[u].allocated >= wallets[u].allocated
    PROVE  Backed(u)'
<1>1. PICK S \in SUBSET Issued(u) : MakeUp(S, u)
    BY DEF Backed
<1>2. Worth(S) \in Int
    BY WorthOf DEF Issued
<1>3. /\ wallets[u].allocated \in Int /\ wallets'[u].allocated \in Int
      /\ Opening[u].allocated \in Int
    <2>1. wallets'[u] \in Row
        BY DEF StoreInv, StoreTypeOK
    <2>2. Int64 \subseteq Int
        BY StoreAssumption DEF Int64
    <2>. QED BY <2>1, <2>2, RowNumbers DEF Row
<1>4. Opening[u].allocated <= Plus(Worth(S), wallets'[u].allocated)
    BY <1>1, <1>2, <1>3 DEF MakeUp, Plus
<1>. QED BY <1>1, <1>4 DEF MakeUp, Backed, Issued

\* A settled voucher makes up for what it has taken from the escrow.
LEMMA BackedRedeems ==
    ASSUME IsFiniteSet(Uploaded), StoreInv, SyncCore, StoreInv', NEW r \in Requests,
           SettleVoucher(r), The(r).signed, NEW u \in Users, Backed(u)
    PROVE  Backed(u)'
<1>. DEFINE v == The(r)
<1>1. /\ payerOf[r] \in Users /\ v.payee \in Users /\ v \in Uploaded
      /\ payerOf[r] = DeviceUser[v.device] /\ v.amount > 0
      /\ v.seq > wallets[payerOf[r]].lastSeq
      /\ EscrowLeft(r) = IF v.amount > wallets[payerOf[r]].allocated
            THEN 0 ELSE wallets[payerOf[r]].allocated - v.amount
      /\ wallets'[payerOf[r]] = IF payerOf[r] = v.payee
            THEN [PayerRowAfter(r) EXCEPT !.balance = wallets[payerOf[r]].balance + v.amount]
            ELSE PayerRowAfter(r)
      /\ payerOf[r] # v.payee => wallets'[v.payee] =
            [wallets[v.payee] EXCEPT !.balance = wallets[v.payee].balance + v.amount]
      /\ \A w \in Users \ {payerOf[r], v.payee} : wallets'[w] = wallets[w]
    BY RedeemEffect
<1>2. wallets'[u].lastSeq = IF u = payerOf[r] THEN v.seq ELSE wallets[u].lastSeq
    BY RedeemRows
<1>3. /\ wallets[u].allocated \in Int /\ wallets[u].lastSeq \in Int
      /\ Opening[u].allocated \in Int /\ v.amount \in Int /\ v.seq \in Int
    BY <1>1, RowNumbers, UploadedType
<1>4. CASE u # payerOf[r]
    <2>1. wallets'[u].allocated = wallets[u].allocated
        <3>1. wallets[u] \in Row
            BY DEF StoreInv, StoreTypeOK
        <3>. QED BY <1>1, <1>4, <3>1 DEF Row
    <2>. QED BY <1>2, <1>3, <1>4, <2>1, BackedGains
<1>5. CASE u = payerOf[r]
    <2>1. PICK S \in SUBSET Issued(u) : MakeUp(S, u)
        BY DEF Backed
    <2>2. \A x \in S : x \in Uploaded /\ x.seq <= wallets[u].lastSeq /\ x.seq \in Int
        BY <2>1, UploadedType DEF MakeUp, Issued
    <2>3. v \notin S
        BY <1>1, <1>3, <1>5, <2>2
    <2>4. S \cup {v} \in SUBSET Issued(u)
        BY <1>1, <1>5, <2>1 DEF Issued
    <2>5. PICK x : x = v
        OBVIOUS
    <2>6. Worth(S \cup {x}) = Plus(x.amount, Worth(S)) /\ Worth(S) \in Int
        BY <1>1, <2>2, <2>3, <2>5, WorthAdds, WorthOf
    <2>7. wallets'[u].allocated = EscrowLeft(r)
        BY <1>1, <1>5 DEF PayerRowAfter
    <2>8. Opening[u].allocated <= Plus(Worth(S), wallets[u].allocated)
        BY <2>1 DEF MakeUp
    <2>9. Opening[u].allocated <= Plus(Worth(S \cup {x}), wallets'[u].allocated)
        BY <1>1, <1>3, <1>5, <2>5, <2>6, <2>7, <2>8 DEF Plus
    <2>10. \A y \in S \cup {x} : y.seq <= wallets'[u].lastSeq
        BY <1>1, <1>2, <1>3, <1>5, <2>2, <2>5
    <2>. QED BY <2>4, <2>5, <2>9, <2>10 DEF Backed, MakeUp, Issued
<1>. QED BY <1>4, <1>5

\* A refused voucher, with those settled before it, is worth more than the escrow
\* was at the start.
LEMMA RefusedIsOverdrawn ==
    ASSUME IsFiniteSet(Uploaded), BackendInv, NEW r \in Requests, RefuseVoucherFunds(r),
           NEW u, u = DeviceUser[The(r).device], Backed(u)
    PROVE  Worth(Issued(u)) > Opening[u].allocated
<1>. DEFINE v == The(r)
<1>1. pc[r] = "post" /\ ~StaleSequence(r) /\ ~CanPay(r)
    BY DEF RefuseVoucherFunds, At
<1>2. /\ current[r] \in DOMAIN batch[r] /\ results[r][current[r]] = "pending"
      /\ payerOf[r] = u /\ u \in Users
      /\ FirstUser(r) \in Users /\ SecondUser(r) \in Users
      /\ rowLock[FirstUser(r)] = r /\ rowLock[SecondUser(r)] = r
      /\ v.signed
    BY <1>1 DEF BackendInv, SyncCore, SyncStageOK, InVoucher, The
<1>3. v \in Uploaded
    BY <1>2, BatchType DEF BackendInv, SyncCore, The
<1>4. PayerRow(r) = wallets[u]
    <2>1. rowLock[u] = r
        BY <1>2, RowsOfVoucher
    <2>. QED BY <1>2, <2>1, StoreAssumption DEF BackendInv, StoreInv, LockedRowsAreFresh, PayerRow
<1>5. /\ v.amount \in Int /\ v.seq \in Int /\ Opening[u].allocated \in Int
      /\ wallets[u].allocated \in Int /\ wallets[u].lastSeq \in Int /\ wallets[u].balance \in Int
      /\ wallets[u].allocated <= wallets[u].balance /\ 0 <= wallets[u].allocated
    BY <1>2, <1>3, RowNumbers, UploadedType DEF BackendInv
<1>6. v.seq > wallets[u].lastSeq /\ v.amount > wallets[u].allocated /\ v.amount > 0
    BY <1>1, <1>4, <1>5 DEF StaleSequence, CanPay
<1>7. PICK S \in SUBSET Issued(u) : MakeUp(S, u)
    BY DEF Backed
<1>8. \A x \in S : x \in Uploaded /\ x.seq <= wallets[u].lastSeq /\ x.seq \in Int
    BY <1>7, UploadedType DEF MakeUp, Issued
<1>9. PICK x : x = v
    OBVIOUS
<1>10. x \notin S /\ S \cup {x} \subseteq Issued(u)
    BY <1>2, <1>3, <1>5, <1>6, <1>7, <1>8, <1>9 DEF Issued
<1>11. Worth(S \cup {x}) = Plus(x.amount, Worth(S)) /\ Worth(S) \in Int
    BY <1>3, <1>8, <1>9, <1>10, WorthAdds, WorthOf
<1>12. Worth(S \cup {x}) <= Worth(Issued(u)) /\ Worth(Issued(u)) \in Int
    BY <1>10, WorthGrows, WorthOf DEF Issued
<1>13. Opening[u].allocated <= Plus(Worth(S), wallets[u].allocated)
    BY <1>7 DEF MakeUp
<1>. QED BY <1>5, <1>6, <1>9, <1>11, <1>12, <1>13 DEF Plus

\* Every wallet stays backed.
LEMMA BackedNext ==
    ASSUME IsFiniteSet(Uploaded), BackendInv, BackendInv', [BackendNext]_backendVars,
           NEW u \in Users, Backed(u)
    PROVE  Backed(u)'
<1>. USE DEF BackendInv
<1>1. /\ wallets \in [Users -> Row] /\ wallets[u].allocated \in Int
      /\ wallets'[u].allocated \in Int
    <2>1. wallets' \in [Users -> Row] /\ Int64 \subseteq Int
        BY StoreAssumption DEF StoreInv, StoreTypeOK, Int64
    <2>. QED BY <2>1, RowNumbers DEF StoreInv, StoreTypeOK, Row
<1>2. CASE \E r \in Requests : SettleTransfer(r)
    <2>1. PICK r \in Requests : SettleTransfer(r)
        BY <1>2
    <2>2. /\ order[r].payer \in Users /\ order[r].payee \in Users
          /\ wallets'[order[r].payer] =
                [wallets[order[r].payer] EXCEPT !.balance = @ - order[r].amount]
          /\ wallets'[order[r].payee] =
                [wallets[order[r].payee] EXCEPT !.balance = @ + order[r].amount]
          /\ \A w \in Users \ {order[r].payer, order[r].payee} : wallets'[w] = wallets[w]
        BY <2>1, SettleEffect
    <2>3. wallets'[u].lastSeq = wallets[u].lastSeq /\ wallets'[u].allocated = wallets[u].allocated
        BY <1>1, <2>2 DEF Row
    <2>. QED BY <1>1, <2>3, BackedGains
<1>3. CASE \E r \in Requests : SettleVoucher(r)
    <2>1. PICK r \in Requests : SettleVoucher(r)
        BY <1>3
    <2>2. The(r).signed
        BY <2>1 DEF SettleVoucher, SyncCore, SyncStageOK, InVoucher, At, The
    <2>. QED BY <2>1, <2>2, BackedRedeems
<1>4. CASE \E r \in Requests : Fund(r)
    <2>1. PICK w \in Users : \E b : wallets' = [wallets EXCEPT ![w] = [@ EXCEPT !.balance = b]]
        BY <1>4, FundEffect
    <2>2. wallets'[u].lastSeq = wallets[u].lastSeq /\ wallets'[u].allocated = wallets[u].allocated
        BY <1>1, <2>1 DEF Row
    <2>. QED BY <1>1, <2>2, BackedGains
<1>5. CASE \E r \in Requests : Allocate(r)
    <2>1. PICK r \in Requests : Allocate(r)
        BY <1>5
    <2>2. PICK w \in Users, a \in Int64 :
            /\ a > 0
            /\ wallets' = [wallets EXCEPT ![w] = [@ EXCEPT !.allocated = wallets[w].allocated + a]]
        BY <2>1, AllocateEffect
    <2>3. a \in Int
        BY <2>2, StoreAssumption DEF Int64
    <2>4. /\ wallets'[u].lastSeq = wallets[u].lastSeq
          /\ wallets'[u].allocated = IF w = u THEN wallets[u].allocated + a
                                              ELSE wallets[u].allocated
        BY <1>1, <2>2 DEF Row
    <2>. QED BY <1>1, <2>2, <2>3, <2>4, BackedGains
<1>6. CASE \A r \in Requests : ~SettleTransfer(r) /\ ~SettleVoucher(r) /\ ~Fund(r) /\ ~Allocate(r)
    <2>1. UNCHANGED wallets
        BY <1>6, BooksStay
    <2>. QED BY <1>1, <2>1, BackedGains
<1>. QED BY <1>2, <1>3, <1>4, <1>5, <1>6

\* Money in escrow is there when the vouchers arrive: a payer whose signed vouchers
\* are together worth no more than his escrow at the start never has one refused for
\* lack of funds, whatever transfers, fundings, allocations, expiries and crashes run
\* in the meantime.
THEOREM BackendEscrowedVouchersPay ==
    ASSUME IsFiniteSet(Uploaded) PROVE BackendSpec => []EscrowedVouchersPay
<1>. DEFINE AllBacked == \A u \in Users : Backed(u)
<1>1. BackendInit => AllBacked /\ EscrowedVouchersPay
    <2>1. SUFFICES ASSUME BackendInit PROVE AllBacked /\ EscrowedVouchersPay
        OBVIOUS
    <2>2. ASSUME NEW u \in Users PROVE Backed(u)
        <3>1. MakeUp({}, u)
            <4>1. Worth({}) = 0
                <5>1. PICK f : f = [v \in {} |-> v.amount]
                    OBVIOUS
                <5>2. SumFunction(f) = 0
                    BY <5>1, SumEmpty
                <5>. QED BY <5>1, <5>2 DEF Worth
            <4>2. wallets[u] = Opening[u]
                BY <2>1 DEF BackendInit, StoreInit
            <4>3. Opening[u].allocated \in Int
                BY <2>1, BackendInvInit, RowNumbers DEF BackendInv
            <4>. QED BY <4>1, <4>2, <4>3 DEF MakeUp, Plus
        <3>. QED BY <3>1 DEF Backed
    <2>3. EscrowedVouchersPay
        BY <2>1 DEF BackendInit, SyncInit, EscrowedVouchersPay
    <2>. QED BY <2>2, <2>3
<1>2. BackendInv /\ BackendInv' /\ [BackendNext]_backendVars /\ AllBacked => AllBacked'
    BY BackedNext
<1>3. BackendInv /\ [BackendNext]_backendVars /\ AllBacked /\ EscrowedVouchersPay
        => EscrowedVouchersPay'
    <2>1. SUFFICES ASSUME BackendInv, [BackendNext]_backendVars, AllBacked, EscrowedVouchersPay,
                          NEW q \in Requests, NEW i \in DOMAIN results'[q],
                          results'[q][i] = "no_funds"
                   PROVE  LET u == DeviceUser[batch'[q][i].device]
                          IN  Worth(Issued(u)) > Opening[u].allocated
        BY DEF EscrowedVouchersPay, Worth, Issued
    <2>2. ASSUME i \in DOMAIN results[q], results[q][i] = "no_funds", batch'[q] = batch[q]
          PROVE  LET u == DeviceUser[batch'[q][i].device]
                 IN  Worth(Issued(u)) > Opening[u].allocated
        BY <2>1, <2>2 DEF EscrowedVouchersPay, Worth
    <2>3. CASE \E r \in Requests : SyncRequest(r)
        <3>1. PICK r \in Requests : SyncRequest(r)
            BY <2>3
        <3>2. /\ batch'[q] = batch[q] /\ i \in DOMAIN results[q]
              /\ \/ results[q][i] = "no_funds"
                 \/ q = r /\ i = current[r] /\ RefuseVoucherFunds(r)
            BY <2>1, <3>1, RefusalReported DEF BackendInv
        <3>3. CASE q = r /\ i = current[r] /\ RefuseVoucherFunds(r)
            <4>1. PICK u : u = DeviceUser[The(r).device]
                OBVIOUS
            <4>2. u \in Users
                BY <2>1, <3>3, <4>1 DEF RefuseVoucherFunds, At, BackendInv, SyncCore, SyncStageOK
            <4>3. Worth(Issued(u)) > Opening[u].allocated
                BY <2>1, <3>3, <4>1, <4>2, RefusedIsOverdrawn
            <4>. QED BY <3>2, <3>3, <4>1, <4>3 DEF The
        <3>. QED BY <2>2, <3>2, <3>3
    <2>4. CASE ~\E r \in Requests : SyncRequest(r)
        <3>1. UNCHANGED <<batch, results>>
            BY <2>1, <2>4, BackendSteps DEF SyncForget, SyncRegister, ForgetNonce,
               RegisterDevice, Crash, syncVars, backendVars
        <3>. QED BY <2>1, <2>2, <3>1
    <2>. QED BY <2>3, <2>4
<1>. HIDE DEF AllBacked
<1>. QED BY <1>1, <1>2, <1>3, BackendInvariant, PTL DEF BackendSpec

=============================================================================

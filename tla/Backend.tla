------------------------------ MODULE Backend ------------------------------
(***************************************************************************)
(* The server (cmd/server): online transfers, offline reconciliation and   *)
(* the wallet service in several processes on one database, and the        *)
(* processes may die at any moment.                                        *)
(***************************************************************************)
EXTENDS PaymentOnline, OfflineSync, WalletService

backendVars == <<storeVars, onlineVars, syncVars, job>>

BackendInit == StoreInit /\ OnlineInit /\ SyncInit /\ WalletInit

BackendWants ==
    [r \in Requests |-> OnlineWants[r] \cup SyncWants[r] \cup WalletWants[r]]

\* The connection of a request that PostgreSQL picks to break a deadlock.
BreakDeadlock(r) ==
    /\ InLockCycle(r, BackendWants)
    /\ \/ InTransfer(r) /\ RollbackTransfer(r, "error") /\ UNCHANGED <<syncVars, job>>
       \/ InVoucher(r) /\ GiveUp(r, "rejected") /\ UNCHANGED <<onlineVars, job>>

\* One step of the goroutine of a request, whichever service it is in.
Serve(r) ==
    \/ TransferStep(r) /\ UNCHANGED <<syncVars, job>>
    \/ VoucherStep(r) /\ UNCHANGED <<onlineVars, job>>
    \/ JobStep(r) /\ UNCHANGED <<onlineVars, syncVars>>
    \/ BreakDeadlock(r)

Submit(r) ==
    \/ SubmitTransfer(r) /\ UNCHANGED <<syncVars, job>>
    \/ SubmitBatch(r) /\ UNCHANGED <<onlineVars, job>>
    \/ SubmitJob(r) /\ UNCHANGED <<onlineVars, syncVars>>

\* What goes wrong around a request.
Trouble(r) ==
    \/ (KeyLost(r) \/ FailTransfer(r)) /\ UNCHANGED <<syncVars, job>>
    \/ FailVoucher(r) /\ UNCHANGED <<onlineVars, job>>
    \/ FailJob(r) /\ UNCHANGED <<onlineVars, syncVars>>

\* A process dies and is started again.
Crash(i) ==
    /\ CrashStore(i)
    /\ CrashOnline(i)
    /\ CrashSync(i)
    /\ UNCHANGED <<order, devices, vouchers, batch, results, current, payerOf, job>>

Background ==
    \/ ExpireSome /\ UNCHANGED <<syncVars, job>>
    \/ (SyncForget \/ SyncRegister) /\ UNCHANGED <<onlineVars, job>>

BackendDone == (\A r \in Requests : At(r, "done")) /\ UNCHANGED backendVars

BackendNext ==
    \/ \E r \in Requests : Submit(r) \/ Serve(r) \/ Trouble(r)
    \/ \E i \in Instances : Crash(i)
    \/ Background
    \/ BackendDone

BackendSpec == BackendInit /\ [][BackendNext]_backendVars

\* Goroutines run on; waiting for a row or a connection is waiting in a queue.
BackendFairSpec == BackendSpec /\ \A r \in Requests : SF_backendVars(Serve(r))

-----------------------------------------------------------------------------
(* Properties.                                                             *)

\* The inductive invariant: each service keeps its part, whatever the others do.
BackendInv == StoreInv /\ TransferCore /\ SyncCore /\ WalletCore

BackendBank == INSTANCE Bank WITH
    Notes   <- KeyNotes \cup VoucherNotes,
    balance <- [u \in Users |-> wallets[u].balance],
    escrow  <- [u \in Users |-> wallets[u].allocated],
    spent   <- SpentKeys \cup SpentVouchers

\* All services together, in several processes that die and come back, move
\* money as the abstract bank does: in single steps, each idempotency key and
\* each voucher at most once, the escrow kept for vouchers.
BackendImplementsBank == BackendBank!BankSpec

\* Nothing is being worked on.
Quiet == \A r \in Requests : pc[r] \in {"idle", "done"}

\* Every request that has been taken up is answered or dies with its process:
\* again and again a moment comes at which none is open.
RequestsAnswered == []<>Quiet
=============================================================================

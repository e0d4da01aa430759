---------------------------- MODULE MobileProofs ----------------------------
(***************************************************************************)
(* Proofs about Mobile, for any accounts, amounts and bounds.              *)
(***************************************************************************)
EXTENDS Mobile, FiniteProofs

-----------------------------------------------------------------------------
(* The account list.                                                       *)

LEMMA AccountsFinite == IsFiniteSet(Accounts)
<1>1. IsFiniteSet(Presets \cup {Newcomer})
    BY MobileAssumption, FS_AddElement
<1>. QED BY <1>1 DEF Accounts

\* What is paid is what was typed in whole cents, nothing among them.
LEMMA AmountsType == Amounts \subseteq Nat /\ TopUps \subseteq Nat
<1>1. ASSUME NEW x \in Entered PROVE Cents(x) \in Nat
    <2>1. x \in Nat
        BY MobileAssumption
    <2>. QED BY <2>1 DEF Cents
<1>. QED BY <1>1, MobileAssumption DEF Amounts

\* A payment that the list grants leaves no account below nothing.
LEMMA PaidKeeps ==
    ASSUME AccountsOK, NoOverdraft, NEW u \in Accounts, NEW v \in Accounts,
           NEW a \in Nat, CanTransfer(u, a), money' = Paid(u, v, a),
           UNCHANGED <<known, current>>
    PROVE  AccountsOK' /\ NoOverdraft'
<1>. DEFINE less == [money EXCEPT ![u] = Minus(@, a)]
<1>1. a \in Nat
    OBVIOUS
<1>2. /\ less \in [Accounts -> Int \cup {None, NaN}]
      /\ \A w \in Accounts : ~Less(less[w], 0)
    <2>1. Minus(money[u], a) \in Int \cup {None, NaN} /\ ~Less(Minus(money[u], a), 0)
        BY <1>1, MobileAssumption DEF AccountsOK, CanTransfer, Less, Minus, IsNumber
    <2>. QED BY <2>1 DEF AccountsOK, NoOverdraft
<1>. HIDE DEF less
<1>3. OrZero(less[v]) + a \in Int /\ ~Less(OrZero(less[v]) + a, 0)
    BY <1>1, <1>2 DEF OrZero, Less, IsNumber
<1>4. money' = less \/ money' = [less EXCEPT ![v] = OrZero(less[v]) + a]
    BY <1>2 DEF Paid, less
<1>. QED BY <1>2, <1>3, <1>4 DEF AccountsOK, NoOverdraft

LEMMA PaidInKeeps ==
    ASSUME AccountsOK, NoOverdraft, NEW u \in Accounts, NEW a \in Nat,
           money' = [money EXCEPT ![u] = OrZero(@) + a], UNCHANGED <<known, current>>
    PROVE  AccountsOK' /\ NoOverdraft'
<1>1. OrZero(money[u]) + a \in Int /\ ~Less(OrZero(money[u]) + a, 0)
    BY DEF AccountsOK, NoOverdraft, OrZero, Less, IsNumber
<1>. QED BY <1>1 DEF AccountsOK, NoOverdraft

-----------------------------------------------------------------------------
(* The local ledger.                                                       *)

\* What the ledger and its queue keep among themselves.
BooksOK ==
    /\ LedgerOK
    /\ SequenceCountsDebits
    /\ VouchersNumberedOnce
    /\ ledger # <<>>
    /\ \A v \in queue : /\ v.id \in 1..(Len(ledger) - 1)
                        /\ v.kind = "debit" => v.seq <= sequence

Debits(entries) == {k \in DOMAIN entries : entries[k].kind = "debit"}

Entry == [kind : {"debit", "credit"}, amount : Nat, after : Nat]

\* One entry more is one debit more or none.
LEMMA DebitsOf ==
    ASSUME LedgerOK, NEW e \in Entry, ledger' = Append(ledger, e)
    PROVE  /\ ledger' \in Seq(Entry) /\ Len(ledger') = Len(ledger) + 1
           /\ Cardinality(Debits(ledger')) =
                Cardinality(Debits(ledger)) + (IF e.kind = "debit" THEN 1 ELSE 0)
<1>. DEFINE n == Len(ledger)
<1>1. /\ ledger' \in Seq(Entry) /\ Len(ledger') = n + 1 /\ n \in Nat
      /\ DOMAIN ledger = 1..n /\ DOMAIN ledger' = 1..(n + 1)
      /\ ledger'[n + 1] = e /\ \A k \in 1..n : ledger'[k] = ledger[k]
    <2>1. ledger \in Seq(Entry)
        BY DEF LedgerOK, Entry
    <2>. QED BY <2>1
<1>2. IsFiniteSet(Debits(ledger))
    <2>1. IsFiniteSet(1..n)
        BY <1>1, FS_Interval
    <2>. QED BY <1>1, <2>1, FS_Subset DEF Debits
<1>. HIDE DEF n
<1>3. CASE e.kind = "debit"
    <2>1. Debits(ledger') = Debits(ledger) \cup {n + 1} /\ n + 1 \notin Debits(ledger)
        BY <1>1, <1>3 DEF Debits
    <2>2. Cardinality(Debits(ledger')) = Cardinality(Debits(ledger)) + 1
        BY ONLY <1>2, <2>1, FS_AddElement
    <2>. QED BY <1>1, <1>3, <2>2 DEF n
<1>4. CASE e.kind # "debit"
    <2>1. Debits(ledger') = Debits(ledger)
        BY <1>1, <1>4 DEF Debits
    <2>2. Cardinality(Debits(ledger)) \in Nat
        BY <1>2, FS_CardinalityType
    <2>. QED BY <1>1, <1>4, <2>1, <2>2 DEF n
<1>. QED BY <1>3, <1>4

\* The balance of the ledger is a number that is not negative.
LEMMA BalanceType ==
    ASSUME LedgerOK, ledger # <<>>
    PROVE  LocalBalance \in Nat /\ Len(ledger) \in Nat /\ Len(ledger) >= 1
<1>1. ledger \in Seq(Entry)
    BY DEF LedgerOK, Entry
<1>2. ledger[Len(ledger)] \in Entry /\ Len(ledger) \in Nat /\ Len(ledger) >= 1
    BY <1>1
<1>. QED BY <1>2 DEF LocalBalance, Entry

\* A voucher that enters ledger and queue under a fresh number, or under none.
LEMMA EnterKeeps ==
    ASSUME BooksOK, NEW side \in {"debit", "credit"}, NEW num \in Nat, NEW a \in Nat,
           NEW sum \in Nat, Enter(Voucher(side, num, a), sum),
           sequence' \in Nat,
           \/ side = "debit" /\ num = sequence + 1 /\ sequence' = sequence + 1
           \/ side = "credit" /\ sequence' = sequence
    PROVE  BooksOK' /\ Len(ledger') = Len(ledger) + 1
<1>. DEFINE new == Voucher(side, num, a)
            e == [kind |-> side, amount |-> a, after |-> sum]
            n == Len(ledger)
<1>2. n \in Nat /\ n >= 1
    BY BalanceType DEF BooksOK
<1>3. e \in Entry /\ e.kind = side
    BY DEF Entry
<1>4. /\ ledger' = Append(ledger, e) /\ queue' = queue \cup {new}
    BY DEF Enter, Voucher
<1>5. /\ ledger' \in Seq(Entry) /\ Len(ledger') = n + 1
      /\ Cardinality(Debits(ledger')) =
            Cardinality(Debits(ledger)) + (IF side = "debit" THEN 1 ELSE 0)
    <2>. HIDE DEF e
    <2>. QED BY <1>3, <1>4, DebitsOf DEF BooksOK
<1>6. /\ new.id = n /\ new.kind = side /\ new.seq = num /\ new.amount = a
      /\ new \in [id : Nat, kind : {"debit", "credit"}, seq : Nat, amount : Nat]
    BY <1>2 DEF Voucher
<1>. HIDE DEF new, e, n
<1>7. LedgerOK'
    BY <1>4, <1>5, <1>6 DEF LedgerOK, BooksOK, Entry
<1>8. SequenceCountsDebits'
    BY <1>5 DEF BooksOK, SequenceCountsDebits, Debits, LedgerOK
<1>9. /\ sequence \in Nat
      /\ \A w \in queue : /\ w.id \in Nat /\ w.seq \in Nat /\ w.id <= n
                          /\ w.kind = "debit" => w.seq <= sequence
    <2>1. sequence \in Nat
        BY DEF BooksOK, LedgerOK
    <2>2. ASSUME NEW w \in queue
          PROVE  /\ w.id \in Nat /\ w.seq \in Nat /\ w.id <= n
                 /\ w.kind = "debit" => w.seq <= sequence
        <3>1. w.id \in Nat /\ w.seq \in Nat
            BY DEF BooksOK, LedgerOK
        <3>2. w.id \in 1..(n - 1) /\ (w.kind = "debit" => w.seq <= sequence)
            BY DEF BooksOK, n
        <3>. QED BY <1>2, <3>1, <3>2
    <2>. QED BY <2>1, <2>2
<1>10. \A w \in queue' : /\ w.id \in 1..(Len(ledger') - 1)
                         /\ w.kind = "debit" => w.seq <= sequence'
    <2>1. ASSUME NEW w \in queue
          PROVE  w.id \in 1..n /\ (w.kind = "debit" => w.seq <= sequence')
        <3>1. w.id \in 1..(n - 1)
            BY DEF BooksOK, n
        <3>. QED BY <1>2, <1>9, <3>1
    <2>2. new.id \in 1..n /\ (new.kind = "debit" => new.seq <= sequence')
        <3>1. new.id \in 1..n
            BY <1>2, <1>6
        <3>. QED BY <1>6, <1>9, <3>1
    <2>3. Len(ledger') - 1 = n
        BY <1>2, <1>5
    <2>. QED BY <1>4, <2>1, <2>2, <2>3
<1>11. VouchersNumberedOnce'
    <2>1. ASSUME NEW w \in queue, w.kind = "debit", new.kind = "debit" PROVE w.seq # new.seq
        BY <1>6, <1>9, <2>1
    <2>. QED BY <1>4, <2>1 DEF BooksOK, VouchersNumberedOnce
<1>12. ledger' # <<>>
    BY <1>2, <1>5
<1>. QED BY <1>5, <1>7, <1>8, <1>10, <1>11, <1>12 DEF BooksOK, n

LEMMA DebitKeeps ==
    ASSUME BooksOK, NEW a \in Nat, RecordDebit(Voucher("debit", NextSequence, a))
    PROVE  BooksOK' /\ Len(ledger') \in {Len(ledger), Len(ledger) + 1}
<1>1. sequence \in Nat /\ NextSequence \in Nat /\ NextSequence = sequence + 1
    BY DEF BooksOK, LedgerOK, NextSequence
<1>2. LocalBalance \in Nat
    BY BalanceType DEF BooksOK
<1>3. /\ Voucher("debit", NextSequence, a).amount = a
      /\ Voucher("debit", NextSequence, a).seq = NextSequence
    BY DEF Voucher
<1>4. CASE LocalFunds(a)
    <2>1. PICK sum : sum = LocalBalance - a
        OBVIOUS
    <2>2. Enter(Voucher("debit", NextSequence, a), sum) /\ sequence' = sequence + 1
        BY <1>1, <1>3, <1>4, <2>1 DEF RecordDebit
    <2>3. sum \in Nat
        BY <1>2, <1>4, <2>1 DEF LocalFunds
    <2>. QED BY <1>1, <2>2, <2>3, EnterKeeps
<1>5. CASE ~LocalFunds(a)
    BY <1>3, <1>5 DEF RecordDebit, localVars, BooksOK, LedgerOK, SequenceCountsDebits,
                      VouchersNumberedOnce
<1>. QED BY <1>4, <1>5

LEMMA CreditKeeps ==
    ASSUME BooksOK, NEW a \in Nat, RecordCredit(Voucher("credit", sequence, a))
    PROVE  BooksOK' /\ Len(ledger') = Len(ledger) + 1
<1>1. PICK sum : sum = LocalBalance + a
    OBVIOUS
<1>2. sequence \in Nat /\ sum \in Nat
    BY <1>1, BalanceType DEF BooksOK, LedgerOK
<1>3. Enter(Voucher("credit", sequence, a), sum) /\ sequence' = sequence
    BY <1>1 DEF RecordCredit, Voucher
<1>. QED BY <1>2, <1>3, EnterKeeps

LEMMA SyncKeeps ==
    ASSUME BooksOK, NEW ids, queue' = AfterSync(ids), UNCHANGED <<ledger, sequence>>
    PROVE  BooksOK'
BY DEF BooksOK, LedgerOK, SequenceCountsDebits, VouchersNumberedOnce, AfterSync

\* What is in memory after a launch: one entry, which is no payment.
LEMMA FreshFacts ==
    /\ Fresh.ledger \in Seq(Entry) /\ Len(Fresh.ledger) = 1
    /\ Fresh.ledger # <<>> /\ Fresh.sequence = 0 /\ Fresh.queue = {}
    /\ Cardinality({k \in DOMAIN Fresh.ledger : Fresh.ledger[k].kind = "debit"}) = 0
    /\ Fresh.known = Presets /\ Fresh.current \in Presets
    /\ Fresh.money \in [Accounts -> Int \cup {None, NaN}]
    /\ \A u \in Accounts : ~Less(Fresh.money[u], 0)
<1>1. Fresh.ledger = <<FirstEntry>> /\ Fresh.sequence = 0 /\ Fresh.queue = {}
    BY DEF Fresh
<1>2. FirstEntry \in Entry /\ FirstEntry.kind # "debit"
    BY MobileAssumption DEF FirstEntry, Entry
<1>3. {k \in DOMAIN Fresh.ledger : Fresh.ledger[k].kind = "debit"} = {}
    BY <1>1, <1>2
<1>4. Fresh.money = [u \in Accounts |-> IF u \in Presets THEN Opening[u] ELSE None]
    BY DEF Fresh
<1>5. /\ Fresh.money \in [Accounts -> Int \cup {None, NaN}]
      /\ \A u \in Accounts : ~Less(Fresh.money[u], 0)
    BY <1>4, MobileAssumption DEF Less, IsNumber
<1>6. Fresh.known = Presets /\ Fresh.current \in Presets
    BY MobileAssumption DEF Fresh
<1>. QED BY <1>1, <1>2, <1>3, <1>5, <1>6, FS_EmptySet

-----------------------------------------------------------------------------
(* Lines of jobs.                                                          *)

LEMMA HeadAndTail ==
    ASSUME NEW T, NEW q, q \in Seq(T), q # <<>>
    PROVE  /\ Len(q) \in Nat /\ Len(q) >= 1 /\ DOMAIN q = 1..Len(q)
           /\ Head(q) = q[1] /\ q[1] \in T
           /\ Tail(q) \in Seq(T) /\ Len(Tail(q)) = Len(q) - 1
           /\ DOMAIN Tail(q) = 1..(Len(q) - 1)
           /\ \A k \in 1..(Len(q) - 1) : Tail(q)[k] = q[k + 1]
           /\ Tail(q) = <<>> => Len(q) = 1
<1>1. /\ Len(q) \in Nat /\ Len(q) >= 1 /\ DOMAIN q = 1..Len(q)
      /\ Head(q) = q[1] /\ q[1] \in T
      /\ Tail(q) \in Seq(T) /\ Len(Tail(q)) = Len(q) - 1
      /\ DOMAIN Tail(q) = 1..(Len(q) - 1)
      /\ \A k \in 1..(Len(q) - 1) : Tail(q)[k] = q[k + 1]
    OBVIOUS
<1>2. Tail(q) = <<>> => Len(Tail(q)) = 0
    <2>1. Len(<<>>) = 0
        OBVIOUS
    <2>. QED BY <2>1, Zenon
<1>. QED BY <1>1, <1>2

LEMMA Appended ==
    ASSUME NEW T, NEW q, q \in Seq(T), NEW x, x \in T
    PROVE  /\ Len(q) \in Nat /\ DOMAIN q = 1..Len(q)
           /\ Append(q, x) \in Seq(T) /\ Len(Append(q, x)) = Len(q) + 1
           /\ DOMAIN Append(q, x) = 1..(Len(q) + 1) /\ Append(q, x) # <<>>
           /\ Append(q, x)[Len(q) + 1] = x
           /\ \A k \in 1..Len(q) : Append(q, x)[k] = q[k]
OBVIOUS

\* A line that gets a job at its end, or loses the one at its head.
LEMMA LineGrows ==
    ASSUME JobsOK, NEW l \in Lines, NEW j \in JobRow, JobFits(l, j)
    PROVE  /\ Append(jobs[l], j) \in Seq(JobRow)
           /\ \A k \in DOMAIN Append(jobs[l], j) : JobFits(l, Append(jobs[l], j)[k])
           /\ Len(jobs[l]) \in Nat /\ Len(Append(jobs[l], j)) = Len(jobs[l]) + 1
           /\ Append(jobs[l], j) # <<>>
           /\ Append(jobs[l], j)[Len(Append(jobs[l], j))] = j
<1>. DEFINE q == jobs[l]
<1>1. q \in Seq(JobRow) /\ \A k \in DOMAIN q : JobFits(l, q[k])
    BY DEF JobsOK
<1>. HIDE DEF q, JobRow
<1>. QED BY <1>1, Appended DEF q

LEMMA LineShrinks ==
    ASSUME JobsOK, NEW l \in Lines, jobs[l] # <<>>
    PROVE  /\ Head(jobs[l]) \in JobRow /\ JobFits(l, Head(jobs[l]))
           /\ Tail(jobs[l]) \in Seq(JobRow)
           /\ \A k \in DOMAIN Tail(jobs[l]) : JobFits(l, Tail(jobs[l])[k])
           /\ Len(jobs[l]) \in Nat /\ Len(Tail(jobs[l])) = Len(jobs[l]) - 1
           /\ Tail(jobs[l]) # <<>> =>
                Tail(jobs[l])[Len(Tail(jobs[l]))] = jobs[l][Len(jobs[l])]
           /\ Tail(jobs[l]) = <<>> => jobs[l][Len(jobs[l])] = Head(jobs[l])
<1>. DEFINE q == jobs[l]
<1>1. q \in Seq(JobRow) /\ \A k \in DOMAIN q : JobFits(l, q[k])
    BY DEF JobsOK
<1>. HIDE DEF q, JobRow
<1>2. /\ Len(q) \in Nat /\ Len(q) >= 1 /\ DOMAIN q = 1..Len(q)
      /\ Head(q) = q[1] /\ q[1] \in JobRow
      /\ Tail(q) \in Seq(JobRow) /\ Len(Tail(q)) = Len(q) - 1
      /\ DOMAIN Tail(q) = 1..(Len(q) - 1)
      /\ \A k \in 1..(Len(q) - 1) : Tail(q)[k] = q[k + 1]
      /\ Tail(q) = <<>> => Len(q) = 1
    BY <1>1, HeadAndTail DEF q
<1>3. \A k \in DOMAIN Tail(q) : JobFits(l, Tail(q)[k])
    BY <1>1, <1>2
<1>4. Tail(q) # <<>> => Tail(q)[Len(q) - 1] = q[Len(q)]
    <2>1. Tail(q) # <<>> => Len(q) - 1 \in 1..(Len(q) - 1)
        BY <1>2
    <2>. QED BY <1>2, <2>1
<1>. QED BY <1>1, <1>2, <1>3, <1>4 DEF q

\* A job that may run is at the head of its line.
LEMMA DueJob ==
    ASSUME JobsOK, NEW j \in Due
    PROVE  /\ LineOf(j.kind) \in Lines /\ jobs[LineOf(j.kind)] # <<>>
           /\ j = Head(jobs[LineOf(j.kind)])
           /\ j \in JobRow /\ JobFits(LineOf(j.kind), j)
<1>1. PICK l \in Lines : jobs[l] # <<>> /\ j = Head(jobs[l])
    BY DEF Due
<1>2. j \in JobRow /\ JobFits(l, j)
    BY <1>1, LineShrinks
<1>3. LineOf(j.kind) = l
    BY <1>2 DEF JobFits
<1>. QED BY <1>1, <1>2, <1>3

\* A new job: its line gets longer, the others stay.
LEMMA LaterKeeps ==
    ASSUME JobsOK, NEW j \in JobRow, NEW l \in Lines, JobFits(l, j), Later(j)
    PROVE  /\ JobsOK'
           /\ Len(jobs[l]) \in Nat /\ Len(jobs'[l]) = Len(jobs[l]) + 1
           /\ jobs'[l] # <<>> /\ jobs'[l][Len(jobs'[l])] = j
           /\ \A m \in Lines \ {l} : jobs'[m] = jobs[m]
<1>1. jobs \in [Lines -> Seq(JobRow)] /\ jobs' = [jobs EXCEPT ![l] = Append(jobs[l], j)]
    BY DEF JobsOK, JobFits, Later
<1>2. /\ Append(jobs[l], j) \in Seq(JobRow)
      /\ \A k \in DOMAIN Append(jobs[l], j) : JobFits(l, Append(jobs[l], j)[k])
      /\ Len(jobs[l]) \in Nat /\ Len(Append(jobs[l], j)) = Len(jobs[l]) + 1
      /\ Append(jobs[l], j) # <<>>
      /\ Append(jobs[l], j)[Len(Append(jobs[l], j))] = j
    BY LineGrows
<1>3. jobs'[l] = Append(jobs[l], j) /\ \A m \in Lines \ {l} : jobs'[m] = jobs[m]
    BY <1>1
<1>4. JobsOK'
    <2>1. jobs' \in [Lines -> Seq(JobRow)]
        BY <1>1, <1>2
    <2>2. \A m \in Lines : \A k \in DOMAIN jobs'[m] : JobFits(m, jobs'[m][k])
        BY <1>2, <1>3 DEF JobsOK
    <2>. QED BY <2>1, <2>2 DEF JobsOK, JobFits, LineOf
<1>. QED BY <1>2, <1>3, <1>4

\* A job that is done: its line loses its head, the others stay.
LEMMA DoneKeeps ==
    ASSUME JobsOK, NEW j \in Due, NEW l \in Lines, l = LineOf(j.kind), Done(j)
    PROVE  /\ JobsOK'
           /\ Len(jobs[l]) \in Nat /\ Len(jobs'[l]) = Len(jobs[l]) - 1
           /\ jobs'[l] # <<>> => jobs'[l][Len(jobs'[l])] = jobs[l][Len(jobs[l])]
           /\ jobs'[l] = <<>> => jobs[l][Len(jobs[l])] = j
           /\ \A m \in Lines \ {l} : jobs'[m] = jobs[m]
<1>1. jobs \in [Lines -> Seq(JobRow)] /\ jobs' = [jobs EXCEPT ![l] = Tail(jobs[l])]
    BY DEF JobsOK, Done
<1>2. jobs[l] # <<>> /\ j = Head(jobs[l])
    BY DueJob
<1>3. /\ Tail(jobs[l]) \in Seq(JobRow)
      /\ \A k \in DOMAIN Tail(jobs[l]) : JobFits(l, Tail(jobs[l])[k])
      /\ Len(jobs[l]) \in Nat /\ Len(Tail(jobs[l])) = Len(jobs[l]) - 1
      /\ Tail(jobs[l]) # <<>> =>
            Tail(jobs[l])[Len(Tail(jobs[l]))] = jobs[l][Len(jobs[l])]
      /\ Tail(jobs[l]) = <<>> => jobs[l][Len(jobs[l])] = Head(jobs[l])
    BY <1>2, LineShrinks
<1>4. jobs'[l] = Tail(jobs[l]) /\ \A m \in Lines \ {l} : jobs'[m] = jobs[m]
    BY <1>1
<1>5. JobsOK'
    <2>1. jobs' \in [Lines -> Seq(JobRow)]
        BY <1>1, <1>3
    <2>2. \A m \in Lines : \A k \in DOMAIN jobs'[m] : JobFits(m, jobs'[m][k])
        BY <1>3, <1>4 DEF JobsOK
    <2>. QED BY <2>1, <2>2 DEF JobsOK, JobFits, LineOf
<1>. QED BY <1>2, <1>3, <1>4, <1>5

-----------------------------------------------------------------------------
(* The session.                                                            *)

\* What a payment that is under way finds free in the ledger.
RoomFor(entries, sends, taps) ==
    /\ entries + sends + taps <= MaxEntries
    /\ sends <= 1 /\ taps <= 1

RoomOK == RoomFor(Len(ledger), Len(jobs["send"]), Len(jobs["tap"]))

\* The invariant, in the parts that the steps keep separately.
LEMMA Parts ==
    MobileInv <=> AccountsOK /\ NoOverdraft /\ BooksOK /\ ScreenOK /\ JobsOK /\ RoomOK /\ SessionOK
BY DEF MobileInv, MobileTypeOK, QueueOK, BooksOK, RoomOK, RoomFor

LEMMA PartsNext ==
    ASSUME AccountsOK', NoOverdraft', BooksOK', ScreenOK', JobsOK', RoomOK', SessionOK'
    PROVE  MobileInv'
BY DEF MobileInv, MobileTypeOK, QueueOK, BooksOK, RoomOK, RoomFor

\* The bound of the ledger, as arithmetic.
LEMMA RoomMoves ==
    ASSUME NEW n \in Nat, NEW s \in Nat, NEW t \in Nat
    PROVE  /\ RoomFor(n, s, t) => n <= MaxEntries
           /\ RoomFor(n, s, t) /\ n + s + t < MaxEntries => RoomFor(n + 1, s, t)
           /\ RoomFor(n, s, t) /\ n + s + t < MaxEntries /\ s = 0 => RoomFor(n, s + 1, t)
           /\ RoomFor(n, s, t) /\ n + s + t < MaxEntries /\ t = 0 => RoomFor(n, s, t + 1)
           /\ RoomFor(n, s, t) /\ s >= 1 => RoomFor(n, s - 1, t) /\ RoomFor(n + 1, s - 1, t)
           /\ RoomFor(n, s, t) /\ t >= 1 => RoomFor(n, s, t - 1) /\ RoomFor(n + 1, s, t - 1)
BY MobileAssumption DEF RoomFor

LEMMA LengthTypes ==
    ASSUME JobsOK, BooksOK
    PROVE  /\ Len(ledger) \in Nat /\ Len(jobs["send"]) \in Nat /\ Len(jobs["tap"]) \in Nat
           /\ MaxEntries \in Nat
BY MobileAssumption DEF JobsOK, BooksOK, LedgerOK, Lines

\* Nothing waits while the app starts.
LEMMA NotBooting ==
    ASSUME SessionOK, NEW l \in Lines, jobs[l] # <<>>
    PROVE  ~booting
BY DEF SessionOK, NoJobs

\* A step beside the storage that leaves the current account.
LEMMA SessionStays ==
    ASSUME SessionOK, ~booting, UNCHANGED <<current, booting>>,
           jobs'["storage"] = jobs["storage"]
    PROVE  SessionOK'
BY DEF SessionOK, LastAnswer

\* A sign-in, a switch or a log-out asks the storage.
LEMMA SessionAsks ==
    ASSUME ~booting, UNCHANGED booting, NEW j,
           jobs'["storage"] # <<>>, jobs'["storage"][Len(jobs'["storage"])] = j,
           j.kind = "logout" \/ current' = j.user
    PROVE  SessionOK'
BY DEF SessionOK, LastAnswer

\* The storage has answered: what waited last still does, or it was this.
LEMMA SessionAnswered ==
    ASSUME SessionOK, JobsOK, NEW j \in Due, Done(j), LineOf(j.kind) = "storage",
           UNCHANGED <<current, booting>>
    PROVE  /\ SessionOK'
           /\ jobs'["storage"] = <<>> /\ j.kind # "logout" => current = j.user
<1>. DEFINE q == jobs["storage"]
            last == q[Len(q)]
<1>1. "storage" \in Lines
    BY DEF Lines
<1>2. /\ q # <<>>
      /\ jobs'["storage"] # <<>> => jobs'["storage"][Len(jobs'["storage"])] = last
      /\ jobs'["storage"] = <<>> => last = j
    BY <1>1, DueJob, DoneKeeps
<1>3. ~booting
    BY <1>1, <1>2, NotBooting
<1>4. last.kind # "logout" => current = last.user
    BY <1>2 DEF SessionOK, LastAnswer
<1>. HIDE DEF last
<1>. QED BY <1>2, <1>3, <1>4 DEF SessionOK, LastAnswer

-----------------------------------------------------------------------------
(* The screen.                                                             *)

\* A refresh shows the current account and the vouchers that are queued.
LEMMA RefreshKeeps ==
    ASSUME AccountsOK', BooksOK', RoomOK', JobsOK', ScreenOK, Refresh,
           booting' \in BOOLEAN, locked' \in BOOLEAN, authenticating' \in BOOLEAN,
           stored' \in Accounts \cup {None}
    PROVE  ScreenOK'
<1>1. shown' = [id |-> current', balance |-> OrZero(money'[current'])]
    BY DEF Refresh, Profile
<1>2. current' \in Accounts /\ OrZero(money'[current']) \in Int
    BY DEF AccountsOK, OrZero, IsNumber
<1>3. shownQueue' \subseteq 1..MaxEntries
    <2>1. /\ Len(jobs'["send"]) \in Nat /\ Len(jobs'["tap"]) \in Nat
          /\ Len(ledger') \in Nat
        BY DEF JobsOK, BooksOK, LedgerOK, Lines
    <2>2. Len(ledger') <= MaxEntries
        BY <2>1, RoomMoves DEF RoomOK
    <2>3. \A v \in queue' : v.id \in 1..(Len(ledger') - 1)
        BY DEF BooksOK
    <2>4. \A v \in queue' : v.id \in 1..MaxEntries
        BY <2>1, <2>2, <2>3, MobileAssumption
    <2>. QED BY <2>4 DEF Refresh
<1>. QED BY <1>1, <1>2, <1>3 DEF ScreenOK

\* On the main screen an account is shown and the app has started.
LEMMA MainScreen ==
    ASSUME ScreenOK, Screen = "main"
    PROVE  ~booting /\ shown \in [id : Accounts, balance : Int]
BY DEF Screen, ScreenOK

\* A press that leaves a job and changes neither tables nor screen.
LEMMA PressKeeps ==
    ASSUME MobileInv, ~booting, NEW j \in JobRow, NEW l \in Lines \ {"storage"},
           JobFits(l, j), Later(j),
           l \in {"send", "tap"} => Room /\ jobs[l] = <<>>,
           UNCHANGED <<accountVars, localVars, screenVars, booting, locked, stored>>,
           authenticating' \in BOOLEAN
    PROVE  MobileInv'
<1>. USE DEF accountVars, localVars, screenVars
<1>1. /\ JobsOK' /\ Len(jobs[l]) \in Nat /\ Len(jobs'[l]) = Len(jobs[l]) + 1
      /\ \A m \in Lines \ {l} : jobs'[m] = jobs[m]
    BY LaterKeeps, Parts
<1>2. AccountsOK' /\ NoOverdraft' /\ ScreenOK'
    BY Parts DEF AccountsOK, NoOverdraft, ScreenOK
<1>3. BooksOK'
    BY Parts DEF BooksOK, LedgerOK, SequenceCountsDebits, VouchersNumberedOnce
<1>4. SessionOK'
    <2>1. UNCHANGED <<current, booting>> /\ jobs'["storage"] = jobs["storage"]
        BY <1>1 DEF Lines
    <2>. QED BY <2>1, Parts, SessionStays
<1>5. RoomOK'
    <2>1. /\ Len(ledger) \in Nat /\ Len(jobs["send"]) \in Nat /\ Len(jobs["tap"]) \in Nat
          /\ MaxEntries \in Nat /\ RoomOK
        BY Parts, LengthTypes
    <2>2. l \in {"send", "tap"} =>
            /\ Len(jobs[l]) = 0
            /\ Len(ledger) + Len(jobs["send"]) + Len(jobs["tap"]) < MaxEntries
        <3>1. Len(<<>>) = 0
            OBVIOUS
        <3>. QED BY <3>1, Zenon DEF Room
    <2>3. CASE l = "send"
        <3>1. /\ Len(jobs'["send"]) = Len(jobs["send"]) + 1 /\ Len(ledger') = Len(ledger)
              /\ jobs'["tap"] = jobs["tap"]
            BY <1>1, <2>3 DEF Lines
        <3>2. RoomFor(Len(ledger), Len(jobs["send"]) + 1, Len(jobs["tap"]))
            BY <2>1, <2>2, <2>3, RoomMoves DEF RoomOK
        <3>. QED BY <3>1, <3>2 DEF RoomOK
    <2>4. CASE l \notin {"send", "tap"}
        BY <1>1, <2>1, <2>4 DEF RoomOK, Lines
    <2>5. CASE l = "tap"
        <3>1. /\ Len(jobs'["tap"]) = Len(jobs["tap"]) + 1 /\ Len(ledger') = Len(ledger)
              /\ jobs'["send"] = jobs["send"]
            BY <1>1, <2>5 DEF Lines
        <3>2. RoomFor(Len(ledger), Len(jobs["send"]), Len(jobs["tap"]) + 1)
            BY <2>1, <2>2, <2>5, RoomMoves DEF RoomOK
        <3>. QED BY <3>1, <3>2 DEF RoomOK
    <2>. QED BY <2>3, <2>4, <2>5
<1>. QED BY <1>1, <1>2, <1>3, <1>4, <1>5, PartsNext

\* A step beside the session that changes accounts, ledger or queue and shows them.
LEMMA ChangeKeeps ==
    ASSUME MobileInv, ~booting, AccountsOK', NoOverdraft', BooksOK', JobsOK', RoomOK',
           UNCHANGED <<known, current, sessionVars>>, jobs'["storage"] = jobs["storage"],
           Refresh \/ UNCHANGED screenVars
    PROVE  MobileInv'
<1>. USE DEF sessionVars, screenVars
<1>1. ScreenOK /\ SessionOK
    BY Parts
<1>2. /\ booting' \in BOOLEAN /\ locked' \in BOOLEAN /\ authenticating' \in BOOLEAN
      /\ stored' \in Accounts \cup {None}
    BY <1>1 DEF ScreenOK
<1>3. ScreenOK'
    <2>1. CASE Refresh
        BY <1>1, <1>2, <2>1, RefreshKeeps
    <2>2. CASE UNCHANGED screenVars
        BY <1>1, <2>2 DEF ScreenOK
    <2>. QED BY <2>1, <2>2
<1>4. SessionOK'
    BY <1>1, SessionStays
<1>. QED BY <1>3, <1>4, PartsNext

\* Of the jobs of a transfer or a tap there is one less, of the entries of the
\* ledger one more or none.
LEMMA RoomAfterPayment ==
    ASSUME MobileInv, NEW j \in Due, LineOf(j.kind) \in {"send", "tap"}, Done(j),
           Len(ledger') \in {Len(ledger), Len(ledger) + 1}
    PROVE  ~booting /\ JobsOK' /\ RoomOK' /\ jobs'["storage"] = jobs["storage"]
<1>. DEFINE l == LineOf(j.kind)
<1>1. /\ l \in Lines /\ jobs[l] # <<>> /\ JobsOK'
      /\ Len(jobs[l]) \in Nat /\ Len(jobs'[l]) = Len(jobs[l]) - 1
      /\ \A m \in Lines \ {l} : jobs'[m] = jobs[m]
    BY DueJob, DoneKeeps, Parts
<1>2. ~booting
    BY <1>1, NotBooting, Parts
<1>3. /\ Len(ledger) \in Nat /\ Len(jobs["send"]) \in Nat /\ Len(jobs["tap"]) \in Nat
      /\ RoomFor(Len(ledger), Len(jobs["send"]), Len(jobs["tap"]))
    BY Parts, LengthTypes DEF RoomOK
<1>4. jobs[l] \in Seq(JobRow) /\ Len(jobs[l]) >= 1
    <2>1. jobs[l] \in Seq(JobRow)
        BY <1>1, Parts DEF JobsOK
    <2>. HIDE DEF l, JobRow
    <2>. QED BY <1>1, <2>1, HeadAndTail
<1>5. CASE l = "send"
    <2>1. jobs'["tap"] = jobs["tap"] /\ jobs'["storage"] = jobs["storage"]
        BY <1>1, <1>5 DEF Lines
    <2>2. /\ RoomFor(Len(ledger), Len(jobs["send"]) - 1, Len(jobs["tap"]))
          /\ RoomFor(Len(ledger) + 1, Len(jobs["send"]) - 1, Len(jobs["tap"]))
        BY <1>3, <1>4, <1>5, RoomMoves
    <2>3. RoomOK'
        BY <1>1, <1>5, <2>1, <2>2 DEF RoomOK
    <2>. QED BY <1>1, <1>2, <2>1, <2>3
<1>6. CASE l = "tap"
    <2>1. jobs'["send"] = jobs["send"] /\ jobs'["storage"] = jobs["storage"]
        BY <1>1, <1>6 DEF Lines
    <2>2. /\ RoomFor(Len(ledger), Len(jobs["send"]), Len(jobs["tap"]) - 1)
          /\ RoomFor(Len(ledger) + 1, Len(jobs["send"]), Len(jobs["tap"]) - 1)
        BY <1>3, <1>4, <1>6, RoomMoves
    <2>3. RoomOK'
        BY <1>1, <1>6, <2>1, <2>2 DEF RoomOK
    <2>. QED BY <1>1, <1>2, <2>1, <2>3
<1>. QED BY <1>5, <1>6

-----------------------------------------------------------------------------
(* The steps.                                                              *)

LEMMA FinishSendStep ==
    ASSUME MobileInv, NEW j \in Due, FinishSend(j)
    PROVE  MobileInv'
<1>1. /\ Done(j) /\ UNCHANGED <<known, current, sessionVars>> /\ j.kind = "send"
    BY DEF FinishSend, accountVars
<1>2. j.user \in Accounts /\ j.to \in Accounts /\ j.amount \in Nat /\ LineOf(j.kind) = "send"
    BY <1>1, DueJob, Parts DEF JobRow, JobFits, LineOf
<1>3. AccountsOK /\ NoOverdraft /\ BooksOK
    BY Parts
<1>4. CASE CanTransfer(j.user, j.amount)
    <2>1. /\ money' = Paid(j.user, j.to, j.amount) /\ Refresh
          /\ RecordDebit(Voucher("debit", NextSequence, j.amount))
        BY <1>4 DEF FinishSend
    <2>2. AccountsOK' /\ NoOverdraft'
        BY <1>1, <1>2, <1>3, <1>4, <2>1, PaidKeeps
    <2>3. BooksOK' /\ Len(ledger') \in {Len(ledger), Len(ledger) + 1}
        BY <1>2, <1>3, <2>1, DebitKeeps
    <2>4. ~booting /\ JobsOK' /\ RoomOK' /\ jobs'["storage"] = jobs["storage"]
        BY <1>1, <1>2, <2>3, RoomAfterPayment
    <2>. QED BY <1>1, <2>1, <2>2, <2>3, <2>4, ChangeKeeps
<1>5. CASE ~CanTransfer(j.user, j.amount)
    <2>1. UNCHANGED <<accountVars, localVars, screenVars>>
        BY <1>5 DEF FinishSend
    <2>2. AccountsOK' /\ NoOverdraft'
        BY <1>3, <2>1 DEF AccountsOK, NoOverdraft, accountVars
    <2>3. BooksOK' /\ Len(ledger') \in {Len(ledger), Len(ledger) + 1}
        BY <1>3, <2>1 DEF BooksOK, LedgerOK, SequenceCountsDebits, VouchersNumberedOnce, localVars
    <2>4. ~booting /\ JobsOK' /\ RoomOK' /\ jobs'["storage"] = jobs["storage"]
        BY <1>1, <1>2, <2>3, RoomAfterPayment
    <2>. QED BY <1>1, <2>1, <2>2, <2>3, <2>4, ChangeKeeps
<1>. QED BY <1>4, <1>5

LEMMA FinishTapStep ==
    ASSUME MobileInv, NEW j \in Due, FinishTap(j)
    PROVE  MobileInv'
<1>1. /\ Done(j) /\ UNCHANGED <<known, current, sessionVars>> /\ j.kind = "tap"
      /\ RecordDebit(Voucher("debit", NextSequence, j.amount)) /\ Refresh
      /\ money' = IF CanTransfer(j.user, j.amount) THEN Paid(j.user, j.to, j.amount) ELSE money
    BY DEF FinishTap
<1>2. j.user \in Accounts /\ j.to \in Accounts /\ j.amount \in Nat /\ LineOf(j.kind) = "tap"
    BY <1>1, DueJob, Parts DEF JobRow, JobFits, LineOf
<1>3. AccountsOK /\ NoOverdraft /\ BooksOK
    BY Parts
<1>4. AccountsOK' /\ NoOverdraft'
    <2>1. CASE CanTransfer(j.user, j.amount)
        BY <1>1, <1>2, <1>3, <2>1, PaidKeeps
    <2>2. CASE ~CanTransfer(j.user, j.amount)
        BY <1>1, <1>3, <2>2 DEF AccountsOK, NoOverdraft
    <2>. QED BY <2>1, <2>2
<1>5. BooksOK' /\ Len(ledger') \in {Len(ledger), Len(ledger) + 1}
    BY <1>1, <1>2, <1>3, DebitKeeps
<1>6. ~booting /\ JobsOK' /\ RoomOK' /\ jobs'["storage"] = jobs["storage"]
    BY <1>1, <1>2, <1>5, RoomAfterPayment
<1>. QED BY <1>1, <1>4, <1>5, <1>6, ChangeKeeps

LEMMA TopUpStep ==
    ASSUME MobileInv, TopUp
    PROVE  MobileInv'
<1>1. AccountsOK /\ NoOverdraft /\ BooksOK /\ ScreenOK /\ JobsOK /\ RoomOK
    BY Parts
<1>2. ~booting /\ shown \in [id : Accounts, balance : Int]
    BY <1>1, MainScreen DEF TopUp
<1>3. PICK a \in Nat, u \in Accounts :
        /\ u = shown.id /\ money' = [money EXCEPT ![u] = OrZero(@) + a]
        /\ RecordCredit(Voucher("credit", sequence, a))
    BY <1>2, AmountsType DEF TopUp
<1>4. UNCHANGED <<known, current, sessionVars, jobs>> /\ Refresh /\ Room
    BY DEF TopUp
<1>5. AccountsOK' /\ NoOverdraft'
    BY <1>1, <1>3, <1>4, PaidInKeeps
<1>6. BooksOK' /\ Len(ledger') = Len(ledger) + 1
    BY <1>1, <1>3, CreditKeeps
<1>7. JobsOK'
    BY <1>1, <1>4 DEF JobsOK, JobFits
<1>8. RoomOK'
    <2>1. /\ Len(ledger) \in Nat /\ Len(jobs["send"]) \in Nat /\ Len(jobs["tap"]) \in Nat
          /\ RoomFor(Len(ledger), Len(jobs["send"]), Len(jobs["tap"]))
          /\ Len(ledger) + Len(jobs["send"]) + Len(jobs["tap"]) < MaxEntries
        BY <1>1, <1>4, LengthTypes DEF RoomOK, Room
    <2>2. RoomFor(Len(ledger) + 1, Len(jobs["send"]), Len(jobs["tap"]))
        BY <2>1, RoomMoves
    <2>. QED BY <1>4, <1>6, <2>2 DEF RoomOK
<1>. QED BY <1>2, <1>4, <1>5, <1>6, <1>7, <1>8, ChangeKeeps

LEMMA FinishSyncStep ==
    ASSUME MobileInv, NEW j \in Due, FinishSync(j)
    PROVE  MobileInv'
<1>1. /\ Done(j) /\ UNCHANGED <<ledger, sequence, accountVars, sessionVars>>
      /\ j.kind = "sync" /\ queue' = AfterSync(j.ids) /\ Refresh
    BY DEF FinishSync
<1>2. LineOf(j.kind) = "sync" /\ "sync" \in Lines
    BY <1>1 DEF LineOf, Lines
<1>3. AccountsOK /\ NoOverdraft /\ BooksOK /\ JobsOK /\ RoomOK /\ SessionOK
    BY Parts
<1>4. AccountsOK' /\ NoOverdraft' /\ UNCHANGED <<known, current>>
    BY <1>1, <1>3 DEF AccountsOK, NoOverdraft, accountVars
<1>5. BooksOK'
    BY <1>1, <1>3, SyncKeeps
<1>6. JobsOK' /\ \A m \in Lines \ {"sync"} : jobs'[m] = jobs[m]
    BY <1>1, <1>2, <1>3, DoneKeeps
<1>7. RoomOK' /\ jobs'["storage"] = jobs["storage"]
    BY <1>1, <1>3, <1>6 DEF RoomOK, Lines
<1>8. ~booting
    BY <1>2, <1>3, DueJob, NotBooting
<1>. QED BY <1>1, <1>4, <1>5, <1>6, <1>7, <1>8, ChangeKeeps
LEMMA PressSendStep ==
    ASSUME MobileInv, PressSend
    PROVE  MobileInv'
<1>1. ~booting /\ shown \in [id : Accounts, balance : Int]
    BY Parts, MainScreen DEF PressSend
<1>2. PICK to \in Accounts, a \in Amounts : Room /\ Later(Job("send", shown.id, to, a, {}))
    BY DEF PressSend
<1>3. PICK j : j = Job("send", shown.id, to, a, {})
    OBVIOUS
<1>4. PICK l : l = "send"
    OBVIOUS
<1>5. j \in JobRow /\ JobFits(l, j) /\ l \in Lines \ {"storage"}
    BY <1>1, <1>3, <1>4, AmountsType DEF JobRow, Kinds, Job, JobFits, LineOf, Lines
<1>6. /\ Later(j) /\ Room /\ jobs[l] = <<>>
      /\ UNCHANGED <<accountVars, localVars, screenVars, booting, locked, stored>>
      /\ authenticating' \in BOOLEAN
    BY <1>2, <1>3, <1>4, Parts DEF PressSend, sessionVars, ScreenOK
<1>. QED BY <1>1, <1>5, <1>6, PressKeeps

LEMMA PressTapStep ==
    ASSUME MobileInv, PressTap
    PROVE  MobileInv'
<1>1. ~booting /\ shown \in [id : Accounts, balance : Int]
    BY Parts, MainScreen DEF PressTap
<1>2. PICK a \in Amounts : Room /\ Later(Job("tap", shown.id, Merchant, a, {}))
    BY DEF PressTap
<1>3. PICK j : j = Job("tap", shown.id, Merchant, a, {})
    OBVIOUS
<1>4. PICK l : l = "tap"
    OBVIOUS
<1>5. j \in JobRow /\ JobFits(l, j) /\ l \in Lines \ {"storage"}
    BY <1>1, <1>3, <1>4, AmountsType, MobileAssumption
       DEF JobRow, Kinds, Job, JobFits, LineOf, Lines, Accounts
<1>6. /\ Later(j) /\ Room /\ jobs[l] = <<>>
      /\ UNCHANGED <<accountVars, localVars, screenVars, booting, locked, stored>>
      /\ authenticating' \in BOOLEAN
    BY <1>2, <1>3, <1>4, Parts DEF PressTap, sessionVars, ScreenOK
<1>. QED BY <1>1, <1>5, <1>6, PressKeeps

LEMMA PressSyncStep ==
    ASSUME MobileInv, PressSync
    PROVE  MobileInv'
<1>1. ~booting /\ shownQueue \in SUBSET (1..MaxEntries)
    <2>1. ~booting
        BY Parts, MainScreen DEF PressSync
    <2>. QED BY <2>1, Parts DEF ScreenOK
<1>2. PICK j : j = Job("sync", None, None, 0, shownQueue)
    OBVIOUS
<1>3. PICK l : l = "sync"
    OBVIOUS
<1>4. j \in JobRow /\ JobFits(l, j) /\ l \in Lines \ {"storage"}
    BY <1>1, <1>2, <1>3 DEF JobRow, Kinds, Job, JobFits, LineOf, Lines
<1>5. /\ Later(j)
      /\ UNCHANGED <<accountVars, localVars, screenVars, booting, locked, stored>>
      /\ authenticating' \in BOOLEAN
    BY <1>2, Parts DEF PressSync, sessionVars, ScreenOK
<1>6. l \in {"send", "tap"} => Room /\ jobs[l] = <<>>
    BY <1>3
<1>. QED BY <1>1, <1>4, <1>5, <1>6, PressKeeps

LEMMA PressSignInStep ==
    ASSUME MobileInv, PressSignIn
    PROVE  MobileInv'
<1>1. ~booting
    BY DEF PressSignIn, Screen
<1>2. PICK u \in Accounts : Later(Job("signin", u, None, 0, {}))
    BY DEF PressSignIn
<1>3. PICK j : j = Job("signin", u, None, 0, {})
    OBVIOUS
<1>4. PICK l : l = "signin"
    OBVIOUS
<1>5. j \in JobRow /\ JobFits(l, j) /\ l \in Lines \ {"storage"}
    BY <1>3, <1>4 DEF JobRow, Kinds, Job, JobFits, LineOf, Lines
<1>6. /\ Later(j)
      /\ UNCHANGED <<accountVars, localVars, screenVars, booting, locked, stored>>
      /\ authenticating' \in BOOLEAN
    BY <1>2, <1>3 DEF PressSignIn
<1>7. l \in {"send", "tap"} => Room /\ jobs[l] = <<>>
    BY <1>4
<1>. QED BY <1>1, <1>5, <1>6, <1>7, PressKeeps

\* A press that asks the storage: the current account may be another one.
LEMMA AskKeeps ==
    ASSUME MobileInv, ~booting, NEW j \in JobRow, JobFits("storage", j), Later(j),
           j.kind = "logout" \/ current' = j.user, current' \in known,
           UNCHANGED <<known, money, localVars, screenVars, sessionVars>>
    PROVE  MobileInv'
<1>. USE DEF localVars, screenVars, sessionVars
<1>1. PICK l \in Lines : l = "storage"
    BY DEF Lines
<1>2. /\ JobsOK' /\ jobs'[l] # <<>> /\ jobs'[l][Len(jobs'[l])] = j
      /\ \A m \in Lines \ {l} : jobs'[m] = jobs[m]
    BY <1>1, LaterKeeps, Parts
<1>3. AccountsOK' /\ NoOverdraft' /\ ScreenOK'
    BY Parts DEF AccountsOK, NoOverdraft, ScreenOK
<1>4. BooksOK'
    BY Parts DEF BooksOK, LedgerOK, SequenceCountsDebits, VouchersNumberedOnce
<1>5. RoomOK'
    BY <1>1, <1>2, Parts DEF RoomOK, Lines
<1>6. SessionOK'
    BY <1>1, <1>2, SessionAsks
<1>. QED BY <1>2, <1>3, <1>4, <1>5, <1>6, PartsNext

LEMMA PressSwitchStep ==
    ASSUME MobileInv, PressSwitch
    PROVE  MobileInv'
<1>1. ~booting
    BY Parts, MainScreen DEF PressSwitch
<1>2. PICK u \in known : current' = SwitchTo(u) /\ Later(Job("switch", u, None, 0, {}))
    BY DEF PressSwitch
<1>3. PICK j : j = Job("switch", u, None, 0, {})
    OBVIOUS
<1>4. u \in Accounts /\ current' = u
    BY <1>2, Parts DEF AccountsOK, SwitchTo
<1>5. j \in JobRow /\ JobFits("storage", j) /\ j.user = u
    BY <1>3, <1>4 DEF JobRow, Kinds, Job, JobFits, LineOf
<1>6. /\ Later(j) /\ UNCHANGED <<known, money, localVars, screenVars, sessionVars>>
    BY <1>2, <1>3 DEF PressSwitch
<1>. QED BY <1>1, <1>4, <1>5, <1>6, AskKeeps

LEMMA PressLogOutStep ==
    ASSUME MobileInv, PressLogOut
    PROVE  MobileInv'
<1>1. ~booting
    BY DEF PressLogOut, Screen
<1>2. PICK j : j = Job("logout", None, None, 0, {})
    OBVIOUS
<1>3. j \in JobRow /\ JobFits("storage", j) /\ j.kind = "logout"
    BY <1>2 DEF JobRow, Kinds, Job, JobFits, LineOf
<1>4. /\ Later(j) /\ UNCHANGED <<known, money, current, localVars, screenVars, sessionVars>>
    BY <1>2 DEF PressLogOut, accountVars
<1>5. current' \in known
    BY <1>4, Parts DEF AccountsOK
<1>. QED BY <1>1, <1>3, <1>4, <1>5, AskKeeps
\* The timer of a sign-in: its line loses a job, the storage gets one.
LEMMA FinishSignInStep ==
    ASSUME MobileInv, NEW j \in Due, FinishSignIn(j)
    PROVE  MobileInv'
<1>1. /\ j.kind = "signin" /\ known' = known \cup {j.user} /\ current' = j.user
      /\ UNCHANGED <<money, localVars, screenVars, sessionVars>>
    BY DEF FinishSignIn
<1>2. PICK e : e = Job("enter", j.user, None, 0, {})
    OBVIOUS
<1>3. PICK l \in Lines, m \in Lines : l = "signin" /\ m = "storage" /\ l # m
    BY DEF Lines
<1>4. JobsOK /\ AccountsOK /\ SessionOK
    BY Parts
<1>5. /\ LineOf(j.kind) = l /\ jobs[l] # <<>> /\ j.user \in Accounts
    BY <1>1, <1>3, <1>4, DueJob DEF LineOf, JobFits
<1>6. e \in JobRow /\ JobFits(m, e) /\ e.user = j.user
    BY <1>2, <1>3, <1>5 DEF JobRow, Kinds, Job, JobFits, LineOf
<1>7. /\ Tail(jobs[l]) \in Seq(JobRow)
      /\ \A k \in DOMAIN Tail(jobs[l]) : JobFits(l, Tail(jobs[l])[k])
    BY <1>4, <1>5, LineShrinks
<1>8. /\ Append(jobs[m], e) \in Seq(JobRow)
      /\ \A k \in DOMAIN Append(jobs[m], e) : JobFits(m, Append(jobs[m], e)[k])
      /\ Append(jobs[m], e) # <<>>
      /\ Append(jobs[m], e)[Len(Append(jobs[m], e))] = e
    BY <1>4, <1>6, LineGrows
<1>9. /\ jobs' \in [Lines -> Seq(JobRow)]
      /\ jobs'[l] = Tail(jobs[l]) /\ jobs'[m] = Append(jobs[m], e)
      /\ \A n \in Lines \ {l, m} : jobs'[n] = jobs[n]
    <2>1. jobs' = [jobs EXCEPT ![l] = Tail(jobs[l]), ![m] = Append(jobs[m], e)]
        BY <1>2, <1>3, <1>4 DEF FinishSignIn, JobsOK
    <2>2. jobs \in [Lines -> Seq(JobRow)]
        BY <1>4 DEF JobsOK
    <2>. HIDE DEF JobRow
    <2>. QED BY <1>3, <1>7, <1>8, <2>1, <2>2
<1>10. JobsOK'
    <2>1. \A n \in Lines : \A k \in DOMAIN jobs'[n] : JobFits(n, jobs'[n][k])
        BY <1>4, <1>7, <1>8, <1>9 DEF JobsOK
    <2>. QED BY <1>9, <2>1 DEF JobsOK, JobFits, LineOf
<1>11. AccountsOK' /\ NoOverdraft' /\ ScreenOK'
    BY <1>1, <1>5, Parts DEF AccountsOK, NoOverdraft, ScreenOK, screenVars, sessionVars
<1>12. BooksOK'
    BY <1>1, Parts DEF BooksOK, LedgerOK, SequenceCountsDebits, VouchersNumberedOnce, localVars
<1>13. RoomOK'
    BY <1>1, <1>3, <1>9, Parts DEF RoomOK, Lines, localVars
<1>14. SessionOK'
    <2>1. ~booting
        BY <1>4, <1>5, NotBooting
    <2>2. /\ UNCHANGED <<booting, stored>> /\ current' = e.user
          /\ jobs'["storage"] # <<>> /\ jobs'["storage"][Len(jobs'["storage"])] = e
        BY <1>1, <1>3, <1>6, <1>8, <1>9 DEF sessionVars
    <2>. QED BY <2>1, <2>2, SessionAsks
<1>. QED BY <1>10, <1>11, <1>12, <1>13, <1>14, PartsNext

\* An answer of the storage changes the session and the screen only.
LEMMA AnswerKeeps ==
    ASSUME MobileInv, NEW j \in Due, Done(j), LineOf(j.kind) = "storage",
           UNCHANGED <<accountVars, localVars, booting>>
    PROVE  /\ AccountsOK' /\ NoOverdraft' /\ BooksOK' /\ JobsOK' /\ RoomOK' /\ SessionOK'
           /\ j.kind # "logout" => j.user \in Accounts
<1>. USE DEF accountVars, localVars
<1>1. PICK l \in Lines : l = LineOf(j.kind)
    BY DEF Lines
<1>2. JobsOK' /\ \A m \in Lines \ {l} : jobs'[m] = jobs[m]
    BY <1>1, DoneKeeps, Parts
<1>3. SessionOK'
    BY SessionAnswered, Parts
<1>4. AccountsOK' /\ NoOverdraft'
    BY Parts DEF AccountsOK, NoOverdraft
<1>5. BooksOK'
    BY Parts DEF BooksOK, LedgerOK, SequenceCountsDebits, VouchersNumberedOnce
<1>6. RoomOK'
    BY <1>1, <1>2, Parts DEF RoomOK, Lines
<1>7. j.kind # "logout" => j.user \in Accounts
    BY DueJob, Parts DEF JobFits, LineOf
<1>. QED BY <1>2, <1>3, <1>4, <1>5, <1>6, <1>7

LEMMA EnterAccountStep ==
    ASSUME MobileInv, NEW j \in Due, EnterAccount(j)
    PROVE  MobileInv'
<1>1. /\ Done(j) /\ j.kind = "enter" /\ stored' = j.user /\ authenticating' = FALSE
      /\ shown' = [id |-> j.user, balance |-> ListedBalance(j.user)]
      /\ UNCHANGED <<accountVars, localVars, booting>> /\ UNCHANGED <<shownQueue, locked>>
    BY DEF EnterAccount
<1>2. LineOf(j.kind) = "storage" /\ j.kind # "logout"
    BY <1>1 DEF LineOf
<1>3. /\ AccountsOK' /\ NoOverdraft' /\ BooksOK' /\ JobsOK' /\ RoomOK' /\ SessionOK'
      /\ j.user \in Accounts
    BY <1>1, <1>2, AnswerKeeps
<1>4. ScreenOK'
    <2>1. ListedBalance(j.user) \in Int
        BY MobileAssumption DEF ListedBalance
    <2>. QED BY <1>1, <1>3, <2>1, Parts DEF ScreenOK
<1>. QED BY <1>3, <1>4, PartsNext

LEMMA FinishSwitchStep ==
    ASSUME MobileInv, NEW j \in Due, FinishSwitch(j)
    PROVE  MobileInv'
<1>1. /\ Done(j) /\ j.kind = "switch" /\ stored' = j.user /\ Refresh
      /\ UNCHANGED <<accountVars, localVars, booting>> /\ UNCHANGED <<locked, authenticating>>
    BY DEF FinishSwitch
<1>2. LineOf(j.kind) = "storage" /\ j.kind # "logout"
    BY <1>1 DEF LineOf
<1>3. /\ AccountsOK' /\ NoOverdraft' /\ BooksOK' /\ JobsOK' /\ RoomOK' /\ SessionOK'
      /\ j.user \in Accounts
    BY <1>1, <1>2, AnswerKeeps
<1>4. ScreenOK'
    <2>1. /\ ScreenOK /\ booting' \in BOOLEAN /\ locked' \in BOOLEAN
          /\ authenticating' \in BOOLEAN /\ stored' \in Accounts \cup {None}
        BY <1>1, <1>3, Parts DEF ScreenOK
    <2>. QED BY <1>1, <1>3, <2>1, RefreshKeeps
<1>. QED BY <1>3, <1>4, PartsNext

LEMMA FinishLogOutStep ==
    ASSUME MobileInv, NEW j \in Due, FinishLogOut(j)
    PROVE  MobileInv'
<1>1. /\ Done(j) /\ j.kind = "logout" /\ stored' = None /\ shown' = None /\ locked' = FALSE
      /\ UNCHANGED <<accountVars, localVars, booting>>
      /\ UNCHANGED <<shownQueue, authenticating>>
    BY DEF FinishLogOut
<1>2. LineOf(j.kind) = "storage"
    BY <1>1 DEF LineOf
<1>3. AccountsOK' /\ NoOverdraft' /\ BooksOK' /\ JobsOK' /\ RoomOK' /\ SessionOK'
    BY <1>1, <1>2, AnswerKeeps
<1>4. ScreenOK'
    BY <1>1, Parts DEF ScreenOK
<1>. QED BY <1>3, <1>4, PartsNext

LEMMA StorageFailsStep ==
    ASSUME MobileInv, NEW j \in Due, StorageFails(j)
    PROVE  MobileInv'
<1>1. /\ Done(j) /\ LineOf(j.kind) = "storage"
      /\ UNCHANGED <<accountVars, localVars, booting>>
      /\ UNCHANGED <<screenVars, sessionVars>>
    BY DEF StorageFails, sessionVars
<1>2. AccountsOK' /\ NoOverdraft' /\ BooksOK' /\ JobsOK' /\ RoomOK' /\ SessionOK'
    BY <1>1, AnswerKeeps
<1>3. ScreenOK'
    BY <1>1, Parts DEF ScreenOK, screenVars, sessionVars
<1>. QED BY <1>2, <1>3, PartsNext

LEMMA LaunchStep ==
    ASSUME MobileInv, Launch
    PROVE  MobileInv'
<1>. USE DEF localVars
<1>1. /\ booting /\ booting' = FALSE
      /\ UNCHANGED <<localVars, shownQueue, authenticating, stored, jobs>>
      /\ UNCHANGED <<known, money>>
    BY DEF Launch, accountVars
<1>2. jobs = NoJobs /\ shown = None
    BY <1>1, Parts DEF SessionOK
<1>3. AccountsOK /\ ScreenOK /\ None \notin known
    BY Parts, MobileAssumption DEF AccountsOK
<1>4. /\ current' \in known /\ (stored \in known => current' = stored /\ shown'.id = current')
      /\ shown' \in {None, [id |-> current', balance |-> OrZero(money[current'])]}
      /\ locked' \in BOOLEAN
    <2>1. CASE stored # None
        <3>1. current' = SwitchTo(stored) /\ shown' = Profile(current)' /\ locked' = TRUE
            BY <2>1 DEF Launch
        <3>2. current' \in known /\ (stored \in known => current' = stored)
            BY <1>3, <3>1 DEF SwitchTo, AccountsOK
        <3>3. shown' = [id |-> current', balance |-> OrZero(money[current'])]
            BY <1>1, <3>1 DEF Profile, OrZero
        <3>. QED BY <3>1, <3>2, <3>3
    <2>2. CASE stored = None
        <3>1. UNCHANGED <<accountVars, shown, locked>>
            BY <2>2 DEF Launch
        <3>2. current' = current /\ shown' = None /\ locked' = locked
            BY <1>2, <3>1 DEF accountVars
        <3>. QED BY <1>3, <2>2, <3>2 DEF AccountsOK, ScreenOK
    <2>. QED BY <2>1, <2>2
<1>5. AccountsOK' /\ NoOverdraft'
    BY <1>1, <1>4, Parts DEF AccountsOK, NoOverdraft
<1>6. ScreenOK'
    <2>1. current' \in Accounts /\ OrZero(money[current']) \in Int
        BY <1>3, <1>4 DEF AccountsOK, OrZero, IsNumber
    <2>2. shown' \in [id : Accounts, balance : Int] \cup {None}
        BY <1>4, <2>1
    <2>. QED BY <1>1, <1>3, <1>4, <2>2 DEF ScreenOK
<1>7. BooksOK' /\ RoomOK' /\ JobsOK'
    BY <1>1, Parts DEF BooksOK, LedgerOK, SequenceCountsDebits, VouchersNumberedOnce,
                       RoomOK, JobsOK, JobFits
<1>8. SessionOK'
    <2>1. jobs'["storage"] = <<>>
        BY <1>1, <1>2 DEF NoJobs, Lines
    <2>. QED BY <1>1, <1>4, <2>1 DEF SessionOK
<1>. QED BY <1>5, <1>6, <1>7, <1>8, PartsNext

LEMMA LaunchFailsStep ==
    ASSUME MobileInv, LaunchFails
    PROVE  MobileInv'
<1>. USE DEF accountVars, localVars, screenVars
<1>1. /\ booting' = FALSE
      /\ UNCHANGED <<accountVars, localVars, screenVars, locked, authenticating, stored, jobs>>
    BY DEF LaunchFails
<1>2. AccountsOK' /\ NoOverdraft' /\ ScreenOK'
    BY <1>1, Parts DEF AccountsOK, NoOverdraft, ScreenOK
<1>3. BooksOK' /\ RoomOK' /\ JobsOK'
    BY <1>1, Parts DEF BooksOK, LedgerOK, SequenceCountsDebits, VouchersNumberedOnce,
                       RoomOK, JobsOK, JobFits
<1>4. SessionOK'
    BY <1>1, Parts DEF SessionOK, LastAnswer
<1>. QED BY <1>2, <1>3, <1>4, PartsNext

LEMMA UnlockStep ==
    ASSUME MobileInv, Unlock
    PROVE  MobileInv'
<1>. USE DEF accountVars, localVars, screenVars
<1>1. /\ locked' = FALSE
      /\ UNCHANGED <<accountVars, localVars, screenVars, booting, authenticating, stored, jobs>>
    BY DEF Unlock
<1>2. AccountsOK' /\ NoOverdraft' /\ ScreenOK'
    BY <1>1, Parts DEF AccountsOK, NoOverdraft, ScreenOK
<1>3. BooksOK' /\ RoomOK' /\ JobsOK'
    BY <1>1, Parts DEF BooksOK, LedgerOK, SequenceCountsDebits, VouchersNumberedOnce,
                       RoomOK, JobsOK, JobFits
<1>4. SessionOK'
    BY <1>1, Parts DEF SessionOK, LastAnswer
<1>. QED BY <1>2, <1>3, <1>4, PartsNext

\* No jobs: nothing to keep, and room for one payment.
LEMMA NoJobsKeep ==
    /\ NoJobs \in [Lines -> Seq(JobRow)]
    /\ \A l \in Lines : \A k \in DOMAIN NoJobs[l] : JobFits(l, NoJobs[l][k])
    /\ NoJobs["storage"] = <<>>
    /\ RoomFor(1, Len(NoJobs["send"]), Len(NoJobs["tap"]))
<1>1. \A l \in Lines : NoJobs[l] = <<>>
    BY DEF NoJobs
<1>2. Len(<<>>) = 0
    OBVIOUS
<1>3. NoJobs \in [Lines -> Seq(JobRow)]
    <2>1. <<>> \in Seq(JobRow)
        <3>. HIDE DEF JobRow
        <3>. QED OBVIOUS
    <2>. QED BY <2>1 DEF NoJobs
<1>4. \A l \in Lines : \A k \in DOMAIN NoJobs[l] : JobFits(l, NoJobs[l][k])
    <2>1. DOMAIN <<>> = {}
        OBVIOUS
    <2>. QED BY <1>1, <2>1, Zenon
<1>5. Len(NoJobs["send"]) = 0 /\ Len(NoJobs["tap"]) = 0 /\ NoJobs["storage"] = <<>>
    <2>1. "send" \in Lines /\ "tap" \in Lines /\ "storage" \in Lines
        BY DEF Lines
    <2>. QED BY <1>1, <1>2, <2>1, Zenon
<1>6. RoomFor(1, 0, 0)
    BY MobileAssumption DEF RoomFor
<1>. QED BY <1>3, <1>4, <1>5, <1>6, Zenon

LEMMA RestartStep ==
    ASSUME MobileInv, Restart
    PROVE  MobileInv'
<1>1. /\ known' = Fresh.known /\ money' = Fresh.money /\ current' = Fresh.current
      /\ ledger' = Fresh.ledger /\ sequence' = Fresh.sequence /\ queue' = Fresh.queue
      /\ shown' = None /\ shownQueue' = {} /\ booting' = TRUE /\ locked' = FALSE
      /\ authenticating' = FALSE /\ jobs' = NoJobs /\ stored' = stored
    BY DEF Restart
<1>2. AccountsOK' /\ NoOverdraft'
    BY <1>1, FreshFacts DEF AccountsOK, NoOverdraft, Accounts
<1>3. BooksOK'
    BY <1>1, FreshFacts DEF BooksOK, LedgerOK, Entry, SequenceCountsDebits, VouchersNumberedOnce
<1>4. ScreenOK'
    BY <1>1, Parts DEF ScreenOK
<1>5. JobsOK' /\ RoomOK'
    BY <1>1, FreshFacts, NoJobsKeep DEF JobsOK, JobFits, LineOf, RoomOK
<1>6. SessionOK'
    BY <1>1, NoJobsKeep DEF SessionOK
<1>. QED BY <1>2, <1>3, <1>4, <1>5, <1>6, PartsNext

LEMMA MobileInvInit == MobileInit => MobileInv
<1>. SUFFICES ASSUME MobileInit PROVE MobileInv
    OBVIOUS
<1>1. /\ known = Fresh.known /\ money = Fresh.money /\ current = Fresh.current
      /\ ledger = Fresh.ledger /\ sequence = Fresh.sequence /\ queue = Fresh.queue
      /\ shown = None /\ shownQueue = {} /\ booting = TRUE /\ locked = FALSE
      /\ authenticating = FALSE /\ jobs = NoJobs /\ stored = None
    BY DEF MobileInit
<1>2. AccountsOK /\ NoOverdraft
    BY <1>1, FreshFacts DEF AccountsOK, NoOverdraft, Accounts
<1>3. BooksOK
    BY <1>1, FreshFacts DEF BooksOK, LedgerOK, Entry, SequenceCountsDebits, VouchersNumberedOnce
<1>4. ScreenOK
    BY <1>1 DEF ScreenOK
<1>5. JobsOK /\ RoomOK
    BY <1>1, FreshFacts, NoJobsKeep DEF JobsOK, RoomOK
<1>6. SessionOK
    BY <1>1, NoJobsKeep DEF SessionOK
<1>. QED BY <1>2, <1>3, <1>4, <1>5, <1>6, Parts

LEMMA MobileInvStutter ==
    ASSUME MobileInv, UNCHANGED mobileVars
    PROVE  MobileInv'
<1>. USE DEF mobileVars, accountVars, localVars, screenVars, sessionVars
<1>1. AccountsOK' /\ NoOverdraft' /\ ScreenOK'
    BY Parts DEF AccountsOK, NoOverdraft, ScreenOK
<1>2. BooksOK' /\ RoomOK' /\ JobsOK'
    BY Parts DEF BooksOK, LedgerOK, SequenceCountsDebits, VouchersNumberedOnce,
                 RoomOK, JobsOK, JobFits
<1>3. SessionOK'
    BY Parts DEF SessionOK, LastAnswer
<1>. QED BY <1>1, <1>2, <1>3, PartsNext

LEMMA MobileInvNext == MobileInv /\ [MobileNext]_mobileVars => MobileInv'
<1>. SUFFICES ASSUME MobileInv, [MobileNext]_mobileVars PROVE MobileInv'
    OBVIOUS
<1>1. CASE Press
    BY <1>1, PressSendStep, PressTapStep, TopUpStep, PressSyncStep, PressSignInStep,
       PressSwitchStep, PressLogOutStep, UnlockStep DEF Press
<1>2. CASE \E j \in Due : Finish(j)
    <2>1. PICK j \in Due : Finish(j)
        BY <1>2
    <2>. QED BY <2>1, FinishSendStep, FinishTapStep, FinishSyncStep, FinishSignInStep,
                EnterAccountStep, FinishSwitchStep, FinishLogOutStep, StorageFailsStep
             DEF Finish
<1>3. CASE Launch \/ LaunchFails \/ Restart
    BY <1>3, LaunchStep, LaunchFailsStep, RestartStep
<1>. QED BY <1>1, <1>2, <1>3, MobileInvStutter DEF MobileNext

-----------------------------------------------------------------------------
(* The money of all accounts.                                              *)

Wealth == [u \in Accounts |-> OrZero(money[u])]

LEMMA WealthType ==
    /\ AccountsOK => Wealth \in [Accounts -> Int] /\ Money \in Int
    /\ Money = SumFunction(Wealth) /\ Money' = SumFunction(Wealth')
<1>1. AccountsOK => Wealth \in [Accounts -> Int]
    BY DEF AccountsOK, Wealth, OrZero, IsNumber
<1>2. Money = SumFunction(Wealth) /\ Money' = SumFunction(Wealth')
    BY DEF Money, Wealth
<1>3. ASSUME AccountsOK PROVE Money \in Int
    <2>1. PICK w : w = Wealth
        OBVIOUS
    <2>2. w \in [Accounts -> Int]
        BY <1>1, <1>3, <2>1
    <2>. QED BY <1>2, <2>1, <2>2, AccountsFinite, SumType
<1>. QED BY <1>1, <1>2, <1>3

\* A payment of an account that has a balance makes no money, whoever is paid.
LEMMA PaymentMakesNone ==
    ASSUME AccountsOK, NEW u \in Accounts, NEW v \in Accounts, NEW a \in Nat,
           IsNumber(money[u]), money' = Paid(u, v, a)
    PROVE  ~(Money' > Money)
<1>. DEFINE less == [money EXCEPT ![u] = Minus(@, a)]
<1>1. a \in Int /\ -a \in Int /\ a >= 0
    OBVIOUS
<1>2. money \in [Accounts -> Int \cup {None, NaN}] /\ money[u] \in Int
    BY DEF AccountsOK, IsNumber
<1>3. less \in [Accounts -> Int \cup {None, NaN}] /\ less[u] = money[u] - a
    BY <1>1, <1>2 DEF Minus
<1>4. PICK f, h : f = Wealth /\ h = [w \in Accounts |-> OrZero(less[w])]
    OBVIOUS
<1>5. f \in [Accounts -> Int] /\ h \in [Accounts -> Int]
    BY <1>3, <1>4, WealthType DEF OrZero, IsNumber
<1>6. h[u] = Plus(f[u], -a) /\ \A w \in Accounts : w # u => h[w] = f[w]
    <2>1. OrZero(money[u]) = money[u] /\ OrZero(less[u]) = less[u]
        BY <1>1, <1>2, <1>3, MobileAssumption DEF OrZero, IsNumber
    <2>2. h[u] = money[u] - a /\ f[u] = money[u]
        BY <1>3, <1>4, <2>1 DEF Wealth
    <2>. QED BY <1>1, <1>2, <1>4, <2>2 DEF Plus, Wealth
<1>7. SumFunction(h) = Plus(SumFunction(f), -a)
    BY <1>1, <1>5, <1>6, AccountsFinite, SumChange
<1>8. SumFunction(f) \in Int
    BY <1>5, AccountsFinite, SumType
<1>9. CASE v \in known
    <2>1. money' = [less EXCEPT ![v] = OrZero(less[v]) + a]
        BY <1>3, <1>9 DEF Paid
    <2>2. PICK g : g = Wealth'
        OBVIOUS
    <2>. HIDE DEF less
    <2>3. OrZero(less[v]) \in Int
        BY <1>3 DEF OrZero, IsNumber
    <2>4. OrZero(less[v]) + a \in Int /\ OrZero(OrZero(less[v]) + a) = OrZero(less[v]) + a
        <3>1. OrZero(less[v]) + a \in Int
            BY <1>1, <2>3
        <3>2. \A x \in Int : OrZero(x) = x
            BY MobileAssumption DEF OrZero, IsNumber
        <3>. QED BY <3>1, <3>2
    <2>5. /\ g \in [Accounts -> Int] /\ g[v] = Plus(h[v], a)
          /\ \A w \in Accounts : w # v => g[w] = h[w]
        <3>1. g = [w \in Accounts |-> IF w = v THEN OrZero(less[v]) + a ELSE OrZero(less[w])]
            BY <1>3, <2>1, <2>2, <2>4 DEF Wealth
        <3>. QED BY <1>4, <1>5, <2>3, <2>4, <3>1 DEF Plus
    <2>6. SumFunction(g) = Plus(SumFunction(h), a)
        BY <1>1, <1>5, <2>5, AccountsFinite, SumChange
    <2>7. Money = SumFunction(f) /\ Money' = SumFunction(g)
        BY <1>4, <2>2, WealthType
    <2>. QED BY <1>1, <1>7, <1>8, <2>6, <2>7 DEF Plus
<1>10. CASE v \notin known
    <2>1. money' = less
        BY <1>10 DEF Paid
    <2>2. Wealth' = h
        BY <1>4, <2>1 DEF Wealth
    <2>3. Money = SumFunction(f) /\ Money' = SumFunction(h)
        BY <1>4, <2>2, WealthType
    <2>. QED BY <1>1, <1>7, <1>8, <2>3 DEF Plus
<1>. QED BY <1>9, <1>10

\* A top-up makes the money that its entry in the ledger says.
LEMMA TopUpMakes ==
    ASSUME MobileInv, TopUp
    PROVE  /\ Len(ledger') = Len(ledger) + 1
           /\ ledger'[Len(ledger')].kind = "credit"
           /\ ledger'[Len(ledger')].amount = Money' - Money
<1>1. AccountsOK /\ BooksOK /\ ScreenOK
    BY Parts
<1>2. shown \in [id : Accounts, balance : Int]
    BY <1>1, MainScreen DEF TopUp
<1>3. PICK a \in Nat, u \in Accounts :
        /\ u = shown.id /\ money' = [money EXCEPT ![u] = OrZero(@) + a]
        /\ RecordCredit(Voucher("credit", sequence, a))
    BY <1>2, AmountsType DEF TopUp
<1>4. a \in Int
    OBVIOUS
<1>5. PICK f, g : f = Wealth /\ g = Wealth'
    OBVIOUS
<1>6. /\ f \in [Accounts -> Int] /\ g \in [Accounts -> Int] /\ g[u] = Plus(f[u], a)
      /\ \A w \in Accounts : w # u => g[w] = f[w]
    <2>1. money \in [Accounts -> Int \cup {None, NaN}]
        BY <1>1 DEF AccountsOK
    <2>2. OrZero(money[u]) \in Int
        BY <2>1 DEF OrZero, IsNumber
    <2>3. OrZero(OrZero(money[u]) + a) = OrZero(money[u]) + a
        BY <1>4, <2>2, MobileAssumption DEF OrZero, IsNumber
    <2>4. f \in [Accounts -> Int]
        BY <1>1, <1>5, WealthType
    <2>5. g = [w \in Accounts |-> IF w = u THEN OrZero(money[u]) + a ELSE OrZero(money[w])]
        BY <1>3, <1>5, <2>1, <2>3 DEF Wealth
    <2>6. \A w \in Accounts : f[w] = OrZero(money[w])
        BY <1>5 DEF Wealth
    <2>. QED BY <1>4, <2>2, <2>4, <2>5, <2>6 DEF Plus
<1>7. SumFunction(g) = Plus(SumFunction(f), a) /\ SumFunction(f) \in Int
    <2>1. SumFunction(g) = Plus(SumFunction(f), a)
        BY <1>4, <1>6, AccountsFinite, SumChange
    <2>. QED BY <1>6, <2>1, AccountsFinite, SumType
<1>8. Money' - Money = a
    BY <1>4, <1>5, <1>7, WealthType DEF Plus
<1>9. PICK e : e = [kind |-> "credit", amount |-> a, after |-> LocalBalance + a]
    OBVIOUS
<1>10. ledger' = Append(ledger, e)
    BY <1>3, <1>9 DEF RecordCredit, Voucher, Enter
<1>11. Len(ledger') = Len(ledger) + 1 /\ ledger'[Len(ledger')] = e
    <2>1. ledger \in Seq(Entry) /\ e \in Entry
        <3>1. LocalBalance \in Nat
            BY <1>1, BalanceType DEF BooksOK
        <3>. QED BY <1>1, <1>9, <3>1 DEF BooksOK, LedgerOK, Entry
    <2>. QED BY <1>10, <2>1
<1>. QED BY <1>8, <1>9, <1>11

\* The only transfer, or the only tap, that is under way is no more due when done.
LEMMA DoneForGood ==
    ASSUME MobileInv, MobileInv', NEW j \in Due, LineOf(j.kind) \in {"send", "tap"}, Done(j)
    PROVE  j \in Due \ Due'
<1>1. PICK l \in Lines : l = LineOf(j.kind)
    BY DEF Lines
<1>2. JobsOK' /\ JobsOK
    BY DEF MobileInv, MobileTypeOK
<1>3. /\ jobs[l] # <<>> /\ Len(jobs[l]) \in Nat /\ Len(jobs'[l]) = Len(jobs[l]) - 1
    BY <1>1, <1>2, DueJob, DoneKeeps
<1>4. Len(jobs[l]) <= 1 /\ jobs'[l] \in Seq(JobRow)
    BY <1>1, <1>2, Parts DEF RoomOK, RoomFor, JobsOK
<1>5. jobs'[l] = <<>>
    <2>. HIDE DEF JobRow
    <2>1. Len(jobs'[l]) \in Nat
        BY <1>4
    <2>2. PICK n \in Nat, m \in Nat : n = Len(jobs[l]) /\ m = Len(jobs'[l])
        BY <1>3, <2>1
    <2>3. m = 0
        <3>1. m = n - 1 /\ n <= 1
            BY <1>3, <1>4, <2>2
        <3>. QED BY <3>1
    <2>4. PICK q : q = jobs'[l]
        OBVIOUS
    <2>5. q # <<>> => Len(q) >= 1
        BY <1>4, <2>4, HeadAndTail
    <2>6. Len(q) = 0
        BY <2>2, <2>3, <2>4
    <2>. QED BY <2>4, <2>5, <2>6
<1>6. ASSUME NEW m \in Lines, jobs'[m] # <<>>, j = Head(jobs'[m]) PROVE FALSE
    <2>1. PICK q : q = jobs'[m]
        OBVIOUS
    <2>2. q \in Seq(JobRow) /\ q # <<>>
        BY <1>2, <1>6, <2>1 DEF JobsOK
    <2>3. 1 \in DOMAIN q /\ j = q[1]
        <3>. HIDE DEF JobRow
        <3>. QED BY <1>6, <2>1, <2>2, HeadAndTail
    <2>4. LineOf(j.kind) = m
        BY <1>2, <2>1, <2>3 DEF JobsOK, JobFits, LineOf
    <2>. QED BY <1>1, <1>5, <1>6, <2>4
<1>. QED BY <1>6 DEF Due

-----------------------------------------------------------------------------
(* The theorems.                                                           *)

\* The inductive invariant: the conjunction of the phone's invariants with what
\* a payment under way finds in the ledger and what the storage will answer.
THEOREM MobileInvariant == MobileSpec => []MobileInv
BY MobileInvInit, MobileInvNext, PTL DEF MobileSpec

\* Every variable of App.tsx, userManager.ts and sqlite.ts has its type: the
\* local ledger never shows less than nothing.
THEOREM MobileTypes == MobileSpec => []MobileTypeOK
<1>1. MobileInv => MobileTypeOK
    BY DEF MobileInv
<1>. QED BY <1>1, MobileInvariant, PTL

\* No account is overdrawn, whatever runs between the check at the press and the
\* timer that pays (UsersDB.transfer looks at the balance again).
THEOREM MobileNoOverdraft == MobileSpec => []NoOverdraft
<1>1. MobileInv => NoOverdraft
    BY DEF MobileInv
<1>. QED BY <1>1, MobileInvariant, PTL

\* The sequence number of the local ledger is the number of its debits.
THEOREM MobileSequenceCountsDebits == MobileSpec => []SequenceCountsDebits
<1>1. MobileInv => SequenceCountsDebits
    BY DEF MobileInv
<1>. QED BY <1>1, MobileInvariant, PTL

\* No two vouchers in the queue are debits under one sequence number.
THEOREM MobileVouchersNumberedOnce == MobileSpec => []VouchersNumberedOnce
<1>1. MobileInv => VouchersNumberedOnce
    BY DEF MobileInv
<1>. QED BY <1>1, MobileInvariant, PTL

\* The screen, the current account and the id that is kept for the next launch
\* go astray only in a step in which AsyncStorage fails (App.tsx).
THEOREM MobileScreenIsSession == MobileSpec => ScreenIsSession
<1>. DEFINE Together == jobs'["storage"] = <<>> /\ ~booting' /\ Astray' =>
                \/ jobs["storage"] = <<>> /\ Astray
                \/ LaunchFails \/ \E j \in Due : StorageFails(j)
<1>1. ASSUME MobileInv, MobileInv', [MobileNext]_mobileVars PROVE Together
    <2>. USE DEF accountVars, screenVars, sessionVars
    <2>1. AccountsOK /\ ScreenOK /\ JobsOK /\ SessionOK /\ None \notin known
        BY <1>1, Parts, MobileAssumption DEF AccountsOK
    <2>2. ASSUME UNCHANGED <<known, current, stored>>, jobs'["storage"] = jobs["storage"],
                 shown' = shown \/ shown'.id = current
          PROVE  Together
        BY <2>2 DEF Astray
    <2>3. CASE Launch
        <3>1. known' = known /\ stored' = stored
            BY <2>3 DEF Launch
        <3>2. CASE stored \in known
            <4>1. current' = stored /\ shown' = Profile(current)'
                BY <2>1, <2>3, <3>2 DEF Launch, SwitchTo
            <4>. QED BY <3>1, <4>1 DEF Astray, Profile
        <3>. QED BY <3>1, <3>2 DEF Astray
    <2>4. ASSUME NEW j \in Due, EnterAccount(j) \/ FinishSwitch(j) \/ FinishLogOut(j)
          PROVE  Together
        <3>1. /\ Done(j) /\ LineOf(j.kind) = "storage" /\ UNCHANGED <<known, current, booting>>
              /\ j.kind = "logout" => stored' = None
              /\ j.kind # "logout" => stored' = j.user /\ shown'.id \in {j.user, current}
            BY <2>4 DEF EnterAccount, FinishSwitch, FinishLogOut, LineOf, Refresh, Profile
        <3>2. jobs'["storage"] = <<>> /\ j.kind # "logout" => current = j.user
            BY <2>1, <3>1, SessionAnswered
        <3>. QED BY <2>1, <3>1, <3>2 DEF Astray
    <2>5. ASSUME NEW j \in Due, FinishSend(j) \/ FinishTap(j) \/ FinishSync(j)
          PROVE  Together
        <3>1. /\ UNCHANGED <<known, current, stored>> /\ Done(j)
              /\ LineOf(j.kind) \in Lines \ {"storage"}
              /\ shown' = shown \/ shown'.id = current
            BY <2>5 DEF FinishSend, FinishTap, FinishSync, Refresh, Profile, LineOf, Lines
        <3>2. PICK l \in Lines : l = LineOf(j.kind)
            BY <3>1
        <3>3. jobs'["storage"] = jobs["storage"]
            BY <2>1, <3>1, <3>2, DoneKeeps DEF Lines
        <3>. QED BY <2>2, <3>1, <3>3
    <2>6. ASSUME NEW j \in Due, FinishSignIn(j) PROVE jobs'["storage"] # <<>>
        <3>1. PICK e : e = Job("enter", j.user, None, 0, {})
            OBVIOUS
        <3>2. PICK q : q = jobs["storage"]
            OBVIOUS
        <3>3. q \in Seq(JobRow) /\ jobs'["storage"] = Append(q, e) /\ e \in JobRow
            <4>1. j.user \in Accounts
                BY <2>1, <2>6, DueJob DEF FinishSignIn, JobFits
            <4>. QED BY <2>1, <2>6, <3>1, <3>2, <4>1
                     DEF FinishSignIn, JobsOK, Lines, Job, JobRow, Kinds
        <3>. HIDE DEF JobRow
        <3>. QED BY <3>3, Appended
    <2>7. ASSUME NEW j, Later(j), j.kind \in {"switch", "logout"} PROVE jobs'["storage"] # <<>>
        <3>1. PICK q : q = jobs["storage"]
            OBVIOUS
        <3>2. jobs'["storage"] = Append(q, j) /\ q \in Seq(JobRow)
            BY <2>1, <2>7, <3>1 DEF Later, LineOf, JobsOK, Lines
        <3>3. Len(Append(q, j)) = Len(q) + 1 /\ Len(q) \in Nat
            <4>. HIDE DEF JobRow
            <4>. QED BY <3>2
        <3>4. Len(<<>>) = 0
            OBVIOUS
        <3>5. Len(Append(q, j)) # 0
            BY <3>3
        <3>. QED BY <3>2, <3>4, <3>5, Zenon
    <2>8. ASSUME NEW j, Later(j), j.kind \in {"send", "tap", "sync", "signin"}
          PROVE  jobs'["storage"] = jobs["storage"]
        BY <2>1, <2>8 DEF Later, LineOf, JobsOK, Lines
    <2>9. CASE PressSwitch \/ PressLogOut
        <3>1. CASE PressSwitch
            <4>1. PICK u \in known : Later(Job("switch", u, None, 0, {}))
                BY <3>1 DEF PressSwitch
            <4>2. PICK j : j = Job("switch", u, None, 0, {})
                OBVIOUS
            <4>. QED BY <2>7, <4>1, <4>2 DEF Job
        <3>2. CASE PressLogOut
            <4>1. PICK j : j = Job("logout", None, None, 0, {})
                OBVIOUS
            <4>. QED BY <2>7, <3>2, <4>1 DEF PressLogOut, Job
        <3>. QED BY <2>9, <3>1, <3>2
    <2>10. CASE PressSend \/ PressTap \/ PressSync \/ PressSignIn
        <3>1. PICK j : Later(j) /\ j.kind \in {"send", "tap", "sync", "signin"}
            <4>1. CASE PressSend
                <5>1. PICK to \in Accounts, a \in Amounts : Later(Job("send", shown.id, to, a, {}))
                    BY <4>1 DEF PressSend
                <5>2. PICK j : j = Job("send", shown.id, to, a, {})
                    OBVIOUS
                <5>. QED BY <5>1, <5>2 DEF Job
            <4>2. CASE PressTap
                <5>1. PICK a \in Amounts : Later(Job("tap", shown.id, Merchant, a, {}))
                    BY <4>2 DEF PressTap
                <5>2. PICK j : j = Job("tap", shown.id, Merchant, a, {})
                    OBVIOUS
                <5>. QED BY <5>1, <5>2 DEF Job
            <4>3. CASE PressSync
                <5>1. PICK j : j = Job("sync", None, None, 0, shownQueue)
                    OBVIOUS
                <5>. QED BY <4>3, <5>1 DEF PressSync, Job
            <4>4. CASE PressSignIn
                <5>1. PICK u \in Accounts : Later(Job("signin", u, None, 0, {}))
                    BY <4>4 DEF PressSignIn
                <5>2. PICK j : j = Job("signin", u, None, 0, {})
                    OBVIOUS
                <5>. QED BY <5>1, <5>2 DEF Job
            <4>. QED BY <2>10, <4>1, <4>2, <4>3, <4>4
        <3>2. UNCHANGED <<known, current, stored, shown>>
            BY <2>10 DEF PressSend, PressTap, PressSync, PressSignIn
        <3>. QED BY <2>2, <2>8, <3>1, <3>2
    <2>11. CASE TopUp
        BY <2>2, <2>11 DEF TopUp, Refresh, Profile
    <2>12. CASE Unlock \/ UNCHANGED mobileVars
        BY <2>2, <2>12 DEF Unlock, mobileVars
    <2>13. CASE Press
        BY <2>9, <2>10, <2>11, <2>12, <2>13 DEF Press
    <2>14. ASSUME NEW j \in Due, Finish(j) PROVE Together
        BY <2>4, <2>5, <2>6, <2>14 DEF Finish
    <2>. QED BY <1>1, <2>3, <2>12, <2>13, <2>14 DEF MobileNext, Restart
<1>2. MobileInv /\ MobileInv' /\ [MobileNext]_mobileVars => [Together]_mobileVars
    <2>. HIDE DEF Together
    <2>. QED BY <1>1
<1>. QED BY <1>2, MobileInvariant, PTL DEF MobileSpec, ScreenIsSession

\* A voucher leaves the queue only with the sync that had it on the screen, or
\* with the memory of the app (clearSyncedVouchers of sqlite.ts).
THEOREM MobileSyncDropsWhatWasSent == MobileSpec => SyncDropsWhatWasSent
<1>1. ASSUME MobileInv, [MobileNext]_mobileVars, NEW v \in queue \ queue'
      PROVE  booting' \/ \E j \in Due : j.kind = "sync" /\ v.id \in j.ids
    <2>. USE DEF localVars
    <2>1. ~UNCHANGED mobileVars /\ ~UNCHANGED localVars
        BY <1>1 DEF mobileVars
    <2>2. ASSUME NEW w, NEW sum, Enter(w, sum) PROVE FALSE
        BY <1>1, <2>2 DEF Enter
    <2>3. ASSUME NEW w, RecordDebit(w) PROVE FALSE
        BY <2>1, <2>2, <2>3 DEF RecordDebit
    <2>4. ~Press
        BY <2>1, <2>2 DEF Press, PressSend, PressTap, TopUp, PressSync, PressSignIn,
                          PressSwitch, PressLogOut, Unlock, RecordCredit
    <2>5. ASSUME NEW j \in Due, Finish(j) PROVE j.kind = "sync" /\ v.id \in j.ids
        <3>1. FinishSync(j)
            BY <2>1, <2>3, <2>5 DEF Finish, FinishSend, FinishTap, FinishSignIn, EnterAccount,
                                    FinishSwitch, FinishLogOut, StorageFails
        <3>. QED BY <1>1, <3>1 DEF FinishSync, AfterSync
    <2>6. ~Launch /\ ~LaunchFails /\ (Restart => booting')
        BY <2>1 DEF Launch, LaunchFails, Restart
    <2>. QED BY <1>1, <2>1, <2>4, <2>5, <2>6 DEF MobileNext
<1>2. MobileInv /\ [MobileNext]_mobileVars =>
        [\A v \in queue \ queue' :
            \/ booting'
            \/ \E j \in Due : j.kind = "sync" /\ v.id \in j.ids]_mobileVars
    BY <1>1
<1>. QED BY <1>2, MobileInvariant, PTL DEF MobileSpec, SyncDropsWhatWasSent

\* The accounts have more money only after a launch or a top-up, which the ledger
\* lists with the same sum, or after a payment of an account without a balance.
THEOREM MobileMoneyComesFromTopUps == MobileSpec => MoneyComesFromTopUps
<1>. DEFINE Comes == Money' > Money =>
                \/ booting'
                \/ \E j \in Due \ Due' : j.user # None /\ ~IsNumber(money[j.user])
                \/ /\ Len(ledger') = Len(ledger) + 1
                   /\ ledger'[Len(ledger')].kind = "credit"
                   /\ ledger'[Len(ledger')].amount = Money' - Money
<1>1. ASSUME MobileInv, MobileInv', [MobileNext]_mobileVars PROVE Comes
    <2>1. AccountsOK /\ JobsOK
        BY <1>1, Parts
    <2>2. ASSUME UNCHANGED money PROVE Comes
        <3>1. Money' = Money /\ Money \in Int
            BY <2>1, <2>2, WealthType DEF Money, OrZero
        <3>. QED BY <3>1
    <2>3. ASSUME NEW j \in Due, LineOf(j.kind) \in {"send", "tap"}, Done(j),
                 money' = Paid(j.user, j.to, j.amount), j.user \in Accounts,
                 j.to \in Accounts, j.amount \in Nat
          PROVE  Comes
        <3>1. CASE IsNumber(money[j.user])
            BY <2>1, <2>3, <3>1, PaymentMakesNone
        <3>2. CASE ~IsNumber(money[j.user])
            <4>1. j \in Due \ Due'
                BY <1>1, <2>3, DoneForGood
            <4>2. j.user # None
                BY <2>3, MobileAssumption
            <4>. QED BY <3>2, <4>1, <4>2
        <3>. QED BY <3>1, <3>2
    <2>. HIDE DEF Comes
    <2>4. ASSUME NEW j \in Due, FinishSend(j) \/ FinishTap(j) PROVE Comes
        <3>1. LineOf(j.kind) \in {"send", "tap"} /\ Done(j)
            BY <2>4 DEF FinishSend, FinishTap, LineOf
        <3>2. j.user \in Accounts /\ j.to \in Accounts /\ j.amount \in Nat
            BY <2>1, <2>4, DueJob DEF FinishSend, FinishTap, JobFits, JobRow
        <3>3. money' = money \/ money' = Paid(j.user, j.to, j.amount)
            BY <2>4 DEF FinishSend, FinishTap, accountVars
        <3>. QED BY <2>2, <2>3, <3>1, <3>2, <3>3
    <2>5. CASE Press
        <3>1. CASE TopUp
            BY <1>1, <3>1, TopUpMakes DEF Comes
        <3>2. CASE ~TopUp
            BY <2>2, <2>5, <3>2 DEF Press, PressSend, PressTap, PressSync, PressSignIn,
                                    PressSwitch, PressLogOut, Unlock, accountVars
        <3>. QED BY <3>1, <3>2
    <2>6. ASSUME NEW j \in Due, Finish(j) PROVE Comes
        BY <2>2, <2>4, <2>6 DEF Finish, FinishSync, FinishSignIn, EnterAccount, FinishSwitch,
                                FinishLogOut, StorageFails, accountVars
    <2>7. CASE Launch \/ LaunchFails
        BY <2>2, <2>7 DEF Launch, LaunchFails, accountVars
    <2>8. CASE Restart
        BY <2>8 DEF Restart, Comes
    <2>9. CASE UNCHANGED mobileVars
        BY <2>2, <2>9 DEF mobileVars, accountVars
    <2>. QED BY <1>1, <2>5, <2>6, <2>7, <2>8, <2>9 DEF MobileNext
<1>2. MobileInv /\ MobileInv' /\ [MobileNext]_mobileVars => [Comes]_mobileVars
    <2>. HIDE DEF Comes
    <2>. QED BY <1>1
<1>. QED BY <1>2, MobileInvariant, PTL DEF MobileSpec, MoneyComesFromTopUps
=============================================================================

---------------------------- MODULE WalletLedger ----------------------------
(***************************************************************************)
(* The user wallets of WalletService: the rows of user_wallets, the        *)
(* statement kept in wallet_transactions, and the three operations that    *)
(* move money: creditWallet, transferToUser and withdrawToBank.  Each call *)
(* is an operation o \in Op that runs through its own pc, so that calls    *)
(* interleave at every database statement and may crash between them.      *)
(*                                                                         *)
(* A transaction that holds the row lock (SELECT ... FOR UPDATE) is split  *)
(* in two steps, taking the lock and committing: what it writes between    *)
(* them is visible to nobody else.  Amounts are in the smallest unit.      *)
(***************************************************************************)
EXTENDS Integers, Sequences, FiniteSets, Functions

CONSTANTS User,      \* wallet owners
          Op,        \* calls of the service, each used once
          Ref,       \* references that callers hand to creditWallet
          Amount,    \* amounts moved
          QueueFault,\* how payoutQueue.add may fail: "lost" (no job was
                     \* added) or "unknown" (it was, but the reply was lost)
          None       \* no request, no lock holder

ASSUME UserAssumption == IsFiniteSet(User)
ASSUME AmountAssumption == Amount \subseteq Nat \ {0}
ASSUME FaultAssumption == QueueFault \subseteq {"lost", "unknown"}
ASSUME NoneAssumption == None \notin Op

VARIABLES open,     \* users that have a row in user_wallets
          balance, received, sent, status,   \* columns of that row
          ledger,   \* the wallet's statement, in the order of its commits
          rowLock,  \* the transaction that holds the row, or None
          req,      \* what the call was asked to do
          pc,       \* where the call is
          seen,     \* what the reversal read of the wallet, without a lock
          jobs      \* withdrawals for which a payout job is in the queue

walletVars == <<open, balance, received, sent, status, ledger>>
vars == <<open, balance, received, sent, status, ledger, rowLock, req, pc,
          seen, jobs>>

-----------------------------------------------------------------------------
Status == {"active", "frozen", "suspended"}

CreditRequest == [kind : {"credit"}, user : User, amt : Amount, ref : Ref]
TransferRequest == [kind : {"transfer"}, user : User, peer : User, amt : Amount]
WithdrawRequest == [kind : {"withdraw"}, user : User, amt : Amount]
Request == CreditRequest \cup TransferRequest \cup WithdrawRequest

\* A reference is unique by construction when the service generates it (it
\* is then named by the call), and chosen by the caller for a credit.
Reference == ({"CREDIT"} \X Ref) \cup ({"OPENING"} \X User) \cup ({"OUT", "IN", "WDR", "REV"} \X Op)

Debits == {"TRANSFER_OUT", "PAYOUT"}
Entry == [type : {"CREDIT", "TRANSFER_IN", "REVERSAL"} \cup Debits,
          amt : Amount, before : Int, after : Int, ref : Reference]

Idle == "idle"
InFlight == {"select", "insert", "credit", "locking", "transfer",
             "lock", "withdraw", "enqueue", "reversing", "reversal"}
\* Unreversed: the transaction of the reversal failed, too.
Finished == {"done", "failed", "reversed", "unreversed", "crashed"}

\* A transaction is open, or is being opened.
Transacting == {"select", "insert", "credit", "locking", "transfer", "lock", "withdraw"}

\* The rows a call locks.
Rows(o) == IF req[o].kind = "transfer" THEN {req[o].user, req[o].peer}
                                       ELSE {req[o].user}

Post(u, type, amt, before, after, ref) ==
    Append(ledger[u], [type |-> type, amt |-> amt, before |-> before,
                       after |-> after, ref |-> ref])

\* Mutant: the unique index is missing.
UnusedUnchecked(ref) == TRUE

\* The unique index on wallet_transactions.reference.
Unused(ref) == \A u \in User : \A i \in 1..Len(ledger[u]) : ledger[u][i].ref # ref

\* The end of a transaction: its rows are released.
Release(o) == rowLock' = [u \in User |-> IF rowLock[u] = o THEN None ELSE rowLock[u]]

Goto(o, label) == pc' = [pc EXCEPT ![o] = label]

Start(o, r, label) ==
    /\ pc[o] = Idle
    /\ req' = [req EXCEPT ![o] = r]
    /\ Goto(o, label)
    /\ UNCHANGED <<walletVars, rowLock, seen, jobs>>

\* Mutant: the error path keeps its rows locked.
RollbackKeepingLocks(o) ==
    /\ Goto(o, "failed")
    /\ UNCHANGED <<walletVars, rowLock, req, seen, jobs>>

Rollback(o) ==
    /\ Release(o)
    /\ Goto(o, "failed")
    /\ UNCHANGED <<walletVars, req, seen, jobs>>

TakeLock(o, u, label) ==
    /\ rowLock[u] = None
    /\ rowLock' = [rowLock EXCEPT ![u] = o]
    /\ Goto(o, label)
    /\ UNCHANGED <<walletVars, req, seen, jobs>>

-----------------------------------------------------------------------------
\* A user starts with no wallet, or with one that an earlier credit has filled.
Init ==
    /\ balance \in [User -> {0} \cup Amount]
    /\ open = {u \in User : balance[u] # 0}
    /\ received = balance
    /\ sent = [u \in User |-> 0]
    /\ status = [u \in User |-> "active"]
    /\ ledger = [u \in User |->
                   IF u \notin open THEN <<>>
                   ELSE <<[type |-> "CREDIT", amt |-> balance[u], before |-> 0,
                           after |-> balance[u], ref |-> <<"OPENING", u>>]>>]
    /\ rowLock = [u \in User |-> None]
    /\ req = [o \in Op |-> None]
    /\ pc = [o \in Op |-> Idle]
    /\ seen = [o \in Op |-> [balance |-> 0, sent |-> 0]]
    /\ jobs = {}

\* createWallet / getOrCreateWallet.  The loser of a race between two of them
\* hits the unique index on user_id and changes nothing.
OpenWallet(u) ==
    /\ u \notin open
    /\ rowLock[u] = None
    /\ open' = open \cup {u}
    /\ UNCHANGED <<balance, received, sent, status, ledger, rowLock, req, pc,
                   seen, jobs>>

\* adminFreezeWallet: an UPDATE, which waits for whoever holds the row.
SetStatus(u, s) ==
    /\ u \in open
    /\ rowLock[u] = None
    /\ status' = [status EXCEPT ![u] = s]
    /\ UNCHANGED <<open, balance, received, sent, ledger, rowLock, req, pc,
                   seen, jobs>>

-----------------------------------------------------------------------------
(* creditWallet *)

BeginCredit(o, u, a, r) ==
    Start(o, [kind |-> "credit", user |-> u, amt |-> a, ref |-> r], "select")

\* SELECT ... FOR UPDATE finds the row and locks it,
CreditSelect(o) ==
    /\ pc[o] = "select"
    /\ req[o].user \in open
    /\ TakeLock(o, req[o].user, "credit")

\* or finds none, and then locks nothing.
CreditSelectNone(o) ==
    /\ pc[o] = "select"
    /\ req[o].user \notin open
    /\ Goto(o, "insert")
    /\ UNCHANGED <<walletVars, rowLock, req, seen, jobs>>

\* The wallet is created inside the transaction.  The insert waits for another
\* uncommitted insert of the same user_id,
CreditInsert(o) ==
    /\ pc[o] = "insert"
    /\ req[o].user \notin open
    /\ TakeLock(o, req[o].user, "credit")

\* and violates the unique index when a wallet was committed meanwhile.
CreditInsertConflict(o) ==
    /\ pc[o] = "insert"
    /\ req[o].user \in open
    /\ Rollback(o)

CreditRefused(o) ==
    /\ pc[o] = "credit"
    /\ status[req[o].user] = "suspended" \/ ~Unused(<<"CREDIT", req[o].ref>>)
    /\ Rollback(o)

CreditCommit(o) ==
    LET u == req[o].user
        a == req[o].amt
        ref == <<"CREDIT", req[o].ref>>
    IN  /\ pc[o] = "credit"
        /\ status[u] # "suspended"
        /\ Unused(ref)
        /\ open' = open \cup {u}
        /\ balance' = [balance EXCEPT ![u] = @ + a]
        /\ received' = [received EXCEPT ![u] = @ + a]
        /\ ledger' = [ledger EXCEPT ![u] =
                        Post(u, "CREDIT", a, balance[u], balance[u] + a, ref)]
        /\ Release(o)
        /\ Goto(o, "done")
        /\ UNCHANGED <<sent, status, req, seen, jobs>>

-----------------------------------------------------------------------------
(* transferToUser *)

\* Every check but the balance is made here and never again.
BeginTransfer(o, u, v, a) ==
    /\ u # v
    /\ {u, v} \subseteq open
    /\ status[u] = "active"
    /\ status[v] = "active"
    /\ balance[u] >= a
    /\ Start(o, [kind |-> "transfer", user |-> u, peer |-> v, amt |-> a], "locking")

\* The two rows of WHERE id IN (...) are locked one after the other, in the
\* order of the scan: the statement has no ORDER BY.
TransferLockRow(o, w) ==
    /\ pc[o] = "locking"
    /\ w \in Rows(o)
    /\ rowLock[w] # o
    /\ TakeLock(o, w, IF \A x \in Rows(o) \ {w} : rowLock[x] = o
                      THEN "transfer" ELSE "locking")

\* o holds one of its rows and waits for another that p holds.
WaitsFor(o, p) ==
    /\ pc[o] = "locking"
    /\ \E w \in Rows(o) : rowLock[w] = o
    /\ \E w \in Rows(o) : rowLock[w] = p
    /\ p # o

OnWaitCycle(o) ==
    \E S \in SUBSET Op :
        /\ o \in S
        /\ \A p \in S : /\ \E q \in S : WaitsFor(p, q)
                        /\ \E q \in S : WaitsFor(q, p)

\* The database's deadlock detector aborts a transaction of the cycle.
TransferDeadlock(o) == OnWaitCycle(o) /\ Rollback(o)

TransferRefused(o) ==
    /\ pc[o] = "transfer"
    /\ balance[req[o].user] < req[o].amt
    /\ Rollback(o)

\* Mutant: the recipient's entry is written with the sender's balance.
TransferCommitSenderBalance(o) ==
    LET u == req[o].user
        v == req[o].peer
        a == req[o].amt
    IN  /\ pc[o] = "transfer"
        /\ balance[u] >= a
        /\ balance' = [balance EXCEPT ![u] = @ - a, ![v] = @ + a]
        /\ sent' = [sent EXCEPT ![u] = @ + a]
        /\ received' = [received EXCEPT ![v] = @ + a]
        /\ ledger' = [ledger EXCEPT
             ![u] = Post(u, "TRANSFER_OUT", a, balance[u], balance[u] - a, <<"OUT", o>>),
             ![v] = Post(v, "TRANSFER_IN", a, balance[u], balance[u] + a, <<"IN", o>>)]
        /\ Release(o)
        /\ Goto(o, "done")
        /\ UNCHANGED <<open, status, req, seen, jobs>>

\* Mutant: the update of the recipient's row is missing.
TransferCommitDebitOnly(o) ==
    LET u == req[o].user
        a == req[o].amt
    IN  /\ pc[o] = "transfer"
        /\ balance[u] >= a
        /\ balance' = [balance EXCEPT ![u] = @ - a]
        /\ sent' = [sent EXCEPT ![u] = @ + a]
        /\ ledger' = [ledger EXCEPT ![u] =
                        Post(u, "TRANSFER_OUT", a, balance[u], balance[u] - a, <<"OUT", o>>)]
        /\ Release(o)
        /\ Goto(o, "done")
        /\ UNCHANGED <<open, received, status, req, seen, jobs>>

TransferCommit(o) ==
    LET u == req[o].user
        v == req[o].peer
        a == req[o].amt
    IN  /\ pc[o] = "transfer"
        /\ balance[u] >= a
        /\ balance' = [balance EXCEPT ![u] = @ - a, ![v] = @ + a]
        /\ sent' = [sent EXCEPT ![u] = @ + a]
        /\ received' = [received EXCEPT ![v] = @ + a]
        /\ ledger' = [ledger EXCEPT
             ![u] = Post(u, "TRANSFER_OUT", a, balance[u], balance[u] - a, <<"OUT", o>>),
             ![v] = Post(v, "TRANSFER_IN", a, balance[v], balance[v] + a, <<"IN", o>>)]
        /\ Release(o)
        /\ Goto(o, "done")
        /\ UNCHANGED <<open, status, req, seen, jobs>>

-----------------------------------------------------------------------------
(* withdrawToBank *)

\* lockedBalanceNgn is 0 in every wallet: nothing in the code writes another
\* value, so the available balance is the balance.
BeginWithdraw(o, u, a) ==
    /\ u \in open
    /\ status[u] = "active"
    /\ balance[u] >= a
    /\ Start(o, [kind |-> "withdraw", user |-> u, amt |-> a], "lock")

WithdrawLock(o) ==
    /\ pc[o] = "lock"
    /\ TakeLock(o, req[o].user, "withdraw")

WithdrawRefused(o) ==
    /\ pc[o] = "withdraw"
    /\ balance[req[o].user] < req[o].amt
    /\ Rollback(o)

\* The debit of withdrawToBank, whatever its check said.
Debit(o) ==
    LET u == req[o].user
        a == req[o].amt
    IN  /\ balance' = [balance EXCEPT ![u] = @ - a]
        /\ ledger' = [ledger EXCEPT ![u] =
                        Post(u, "PAYOUT", a, balance[u], balance[u] - a, <<"WDR", o>>)]
        /\ Release(o)
        /\ Goto(o, "enqueue")
        /\ UNCHANGED <<open, received, status, req, seen, jobs>>

\* Mutant: the balance is not checked again under the lock.
WithdrawCommitUnchecked(o) ==
    /\ pc[o] = "withdraw"
    /\ sent' = [sent EXCEPT ![req[o].user] = @ + req[o].amt]
    /\ Debit(o)

\* Mutant: totalSentNgn is not raised.
WithdrawCommitUncounted(o) ==
    /\ pc[o] = "withdraw"
    /\ balance[req[o].user] >= req[o].amt
    /\ Debit(o)
    /\ UNCHANGED sent

WithdrawCommit(o) ==
    /\ pc[o] = "withdraw"
    /\ balance[req[o].user] >= req[o].amt
    /\ sent' = [sent EXCEPT ![req[o].user] = @ + req[o].amt]
    /\ Debit(o)

\* payoutQueue.add
Enqueue(o) ==
    /\ pc[o] = "enqueue"
    /\ jobs' = jobs \cup {o}
    /\ Goto(o, "done")
    /\ UNCHANGED <<walletVars, rowLock, req, seen>>

\* Mutant: the catch block swallows the error.
EnqueueFailsSilently(o, fault) ==
    /\ pc[o] = "enqueue"
    /\ jobs' = IF fault = "unknown" THEN jobs \cup {o} ELSE jobs
    /\ Goto(o, "done")
    /\ UNCHANGED <<walletVars, rowLock, req, seen>>

EnqueueFails(o, fault) ==
    /\ pc[o] = "enqueue"
    /\ jobs' = IF fault = "unknown" THEN jobs \cup {o} ELSE jobs
    /\ Goto(o, "reversing")
    /\ UNCHANGED <<walletVars, rowLock, req, seen>>

\* The catch block: a transaction that reads the wallet without locking it,
ReversalRead(o) ==
    /\ pc[o] = "reversing"
    /\ seen' = [seen EXCEPT ![o] = [balance |-> balance[req[o].user],
                                    sent |-> sent[req[o].user]]]
    /\ Goto(o, "reversal")
    /\ UNCHANGED <<walletVars, rowLock, req, jobs>>

\* Mutant: the reversal saves no line of the statement.
WriteBackUnlogged(o, newSent) ==
    LET u == req[o].user
        a == req[o].amt
    IN  /\ pc[o] = "reversal"
        /\ rowLock[u] = None
        /\ balance' = [balance EXCEPT ![u] = seen[o].balance + a]
        /\ sent' = [sent EXCEPT ![u] = newSent]
        /\ Goto(o, "reversed")
        /\ UNCHANGED <<open, received, status, ledger, rowLock, req, seen, jobs>>

\* and writes back what it computed from that read.
WriteBack(o, newSent) ==
    LET u == req[o].user
        a == req[o].amt
    IN  /\ pc[o] = "reversal"
        /\ rowLock[u] = None
        /\ balance' = [balance EXCEPT ![u] = seen[o].balance + a]
        /\ sent' = [sent EXCEPT ![u] = newSent]
        /\ ledger' = [ledger EXCEPT ![u] =
                        Post(u, "REVERSAL", a, seen[o].balance,
                             seen[o].balance + a, <<"REV", o>>)]
        /\ Goto(o, "reversed")
        /\ UNCHANGED <<open, received, status, rowLock, req, seen, jobs>>

\* Mutant: no Math.max(0, ...).
ReversalCommitUnclamped(o) == WriteBack(o, seen[o].sent - req[o].amt)

ReversalCommit(o) ==
    WriteBack(o, IF seen[o].sent >= req[o].amt THEN seen[o].sent - req[o].amt ELSE 0)

\* A statement of that transaction throws inside the catch block: its caller
\* gets an error as after a reversal, and the debit stands.
ReversalFails(o) ==
    /\ pc[o] \in {"reversing", "reversal"}
    /\ Goto(o, "unreversed")
    /\ UNCHANGED <<walletVars, rowLock, req, seen, jobs>>

-----------------------------------------------------------------------------
\* A statement of an open transaction throws.
StatementFails(o) == pc[o] \in Transacting /\ Rollback(o)

\* The process that runs the call dies: the database rolls its open
\* transaction back and nothing resumes the call.
Crash(o) ==
    /\ pc[o] \in InFlight
    /\ Release(o)
    /\ Goto(o, "crashed")
    /\ UNCHANGED <<walletVars, req, seen, jobs>>

CreditStep(o) == \/ CreditSelect(o) \/ CreditSelectNone(o) \/ CreditInsert(o)
                 \/ CreditInsertConflict(o) \/ CreditRefused(o) \/ CreditCommit(o)

TransferStep(o) == \/ \E w \in User : TransferLockRow(o, w)
                   \/ TransferDeadlock(o) \/ TransferRefused(o) \/ TransferCommit(o)

WithdrawStep(o) == \/ WithdrawLock(o) \/ WithdrawRefused(o) \/ WithdrawCommit(o)
                   \/ Enqueue(o) \/ ReversalRead(o) \/ ReversalCommit(o)

Step(o) == CreditStep(o) \/ TransferStep(o) \/ WithdrawStep(o)

Call(o) == \E u \in User, a \in Amount :
              \/ \E r \in Ref : BeginCredit(o, u, a, r)
              \/ \E v \in User : BeginTransfer(o, u, v, a)
              \/ BeginWithdraw(o, u, a)

Next == \/ \E u \in User : OpenWallet(u)
        \/ \E u \in User, s \in Status : SetStatus(u, s)
        \/ \E o \in Op : \/ Call(o)
                         \/ Step(o)
                         \/ \E fault \in QueueFault : EnqueueFails(o, fault)
                         \/ StatementFails(o) \/ ReversalFails(o)
                         \/ Crash(o)

Spec == Init /\ [][Next]_vars

-----------------------------------------------------------------------------
(* Properties *)

\* Types of the variables; totalSentNgn never goes negative, which a reversal
\* that subtracts from a total it read without a lock could make it.
TypeOK ==
    /\ open \subseteq User
    /\ balance \in [User -> Int]
    /\ received \in [User -> Nat]
    /\ sent \in [User -> Nat]
    /\ status \in [User -> Status]
    /\ ledger \in [User -> Seq(Entry)]
    /\ rowLock \in [User -> Op \cup {None}]
    /\ req \in [Op -> Request \cup {None}]
    /\ pc \in [Op -> {Idle} \cup InFlight \cup Finished]
    /\ seen \in [Op -> [balance : Int, sent : Nat]]
    /\ jobs \subseteq Op

\* The balance before line i of statement s: what the line above it left.
Opening(s, i) == IF i = 1 THEN 0 ELSE s[i - 1].after

Posted(e) == e.after = IF e.type \in Debits THEN e.before - e.amt ELSE e.before + e.amt

\* Statement s accounts for balance b.
Accounts(s, b) ==
    /\ b = Opening(s, Len(s) + 1)
    /\ \A i \in 1..Len(s) : /\ Posted(s[i])
                            /\ s[i].type # "REVERSAL" => s[i].before = Opening(s, i)

\* No wallet goes below zero, whatever calls debit it at once: the balance
\* checked before the lock may be gone when the lock is granted.
NeverOverdrawn == \A u \in User : balance[u] >= 0

\* The statement accounts for the balance: the newest entry ends at it, and
\* every entry starts where the one above it ended.  A reversal, which reads
\* the wallet without locking it, may start elsewhere.
StatementChains == \A u \in User : Accounts(ledger[u], balance[u])

\* The same of every entry: "Reverse the debit" gives the customer's money
\* back to the balance there is, and does not take another movement's away.
StatementUnbroken ==
    \A u \in User : \A i \in 1..Len(ledger[u]) : ledger[u][i].before = Opening(ledger[u], i)

\* No reference is used twice over all wallets: however often a credit is
\* retried, and whichever calls race, its money arrives at most once.
ReferenceUnique ==
    \A u, v \in User : \A i \in 1..Len(ledger[u]), j \in 1..Len(ledger[v]) :
        ledger[u][i].ref = ledger[v][j].ref => u = v /\ i = j

NoReversal(s) == \A i \in 1..Len(s) : s[i].type # "REVERSAL"

\* Three columns that every operation updates separately agree: the balance is
\* what was ever received less what was ever sent, until a reversal.
Reconciled ==
    \A u \in User : NoReversal(ledger[u]) => balance[u] = received[u] - sent[u]

Debited(o) == \E u \in User : \E i \in 1..Len(ledger[u]) : ledger[u][i].ref = <<"WDR", o>>
Credited == {o \in Op : pc[o] = "done" /\ req[o].kind = "credit"}

Endowment == [u \in User |-> IF Len(ledger[u]) > 0 /\ ledger[u][1].ref = <<"OPENING", u>>
                             THEN ledger[u][1].amt ELSE 0]

Moved(calls) == [o \in calls |-> req[o].amt]

\* Transfers neither make nor lose money: over all wallets there is what
\* they started with and the credits that reported success brought in, less the
\* withdrawals debited.
MoneyConserved ==
    (\A u \in User : NoReversal(ledger[u])) =>
        SumFunction(balance) = SumFunction(Endowment) + SumFunction(Moved(Credited))
                                 - SumFunction(Moved({o \in Op : Debited(o)}))

Reversed(o) == \E u \in User : \E i \in 1..Len(ledger[u]) : ledger[u][i].ref = <<"REV", o>>

\* Answer, statement and queue account for a withdrawal together: queued means
\* debited and in the queue, a refusal that nothing was debited; a debit has a
\* job or a reversal behind it, except while the call is at it, after a crash,
\* and when the transaction of the reversal failed.
WithdrawalOutcome ==
    \A o \in Op :
        /\ pc[o] = "done" /\ req[o].kind = "withdraw" => o \in jobs
        /\ pc[o] \in {Idle, "failed"} => ~Debited(o)
        /\ o \in jobs \/ Reversed(o) => Debited(o)
        /\ Reversed(o) <=> pc[o] = "reversed"
        /\ Debited(o) => \/ o \in jobs
                         \/ Reversed(o)
                         \/ pc[o] \in {"enqueue", "reversing", "reversal",
                                       "unreversed", "crashed"}

Book == INSTANCE Ledger
          WITH Account <- User, Line <- Entry, Outgoing <- Debits,
               Correction <- {"REVERSAL"}, lines <- ledger

\* The wallets implement the account book: no call, and no two calls together,
\* change a balance without the line that says so, or rewrite a line, or use a
\* reference again.
KeepsBook == Book!Spec

\* However row locks collide, some call can go on while any is under way, to the
\* end of all: no lock outlives its transaction, and no wait cycle is left standing.
NoStandingWait ==
    (\E o \in Op : pc[o] \in InFlight) => \E o \in Op : ENABLED Step(o)
=============================================================================

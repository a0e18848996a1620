------------------------------- MODULE Treasury -------------------------------
(***************************************************************************)
(* The platform's own money: SystemWalletService.  Rows of system_wallets  *)
(* with their statement in system_wallet_transactions, the main wallet     *)
(* that start-up ensures, top-ups and withdrawals of administrators, fees  *)
(* and payout reserves, all recorded by recordNgnTransaction.              *)
(*                                                                         *)
(* A recording holds a connection of the database pool from the start of   *)
(* its transaction to the end, and inside it the alert and the audit line  *)
(* are saved through the services' own repositories, that is on another    *)
(* connection.  Every statement outside a transaction needs one as well.   *)
(***************************************************************************)
EXTENDS Integers, Sequences, FiniteSets

CONSTANTS Wallet,      \* rows that system_wallets may hold
          Op,          \* calls of the service, each used once
          Amount,      \* amounts moved
          Ref,         \* references that administrators choose
          Endowment,   \* what the main wallet may hold at the start
          MinReserve,  \* minBalanceAlertNgn of every wallet, 0 if not set
          PoolSize,    \* connections of the pool
          None         \* no request, wallet, lock holder, reference or change

ASSUME AmountAssumption == Amount \subseteq Nat \ {0}
ASSUME ReserveAssumption == MinReserve \in Nat /\ PoolSize \in Nat \ {0}
ASSUME EndowmentAssumption == Endowment \subseteq Nat \ {0}
ASSUME NoneAssumption == None \notin Op /\ None \notin Wallet /\ None \notin Ref

VARIABLES label, status, balance, credited, debited, fees,  \* system_wallets
          ledger,   \* the wallet's lines in system_wallet_transactions
          rowLock,  \* the transaction that holds the row, or None
          req,      \* what the call was asked to do
          target,   \* the wallet it works on
          pc,       \* where the call is
          checked,  \* the balance its caller's check saw, without a lock
          locked    \* the row as the transaction read it under the lock

rowVars == <<label, status>>
moneyVars == <<balance, credited, debited, fees, ledger>>
vars == <<label, status, balance, credited, debited, fees, ledger, rowLock, req,
          target, pc, checked, locked>>

-----------------------------------------------------------------------------
Label == {"absent", "main", "other"}
Status == {"active", "maintenance"}

Credits == {"fee_credit", "top_up"}
Debits == {"payout_reserve", "debit"}

\* System callers work on the main wallet, administrators on one they name,
\* under a reference of their own or, with None, under a generated one.
SystemRequest == [type : {"fee_credit", "payout_reserve"}, amt : Amount]
AdminRequest == [type : {"top_up", "debit"}, amt : Amount,
                 ref : Ref \cup {None}, force : BOOLEAN]
BootRequest == [type : {"boot"}]
UpdateRequest == [type : {"update"}, label : (Label \ {"absent"}) \cup {None},
                  status : Status \cup {None}]
MoveRequest == SystemRequest \cup AdminRequest
Request == MoveRequest \cup BootRequest \cup UpdateRequest

Reference == ({"OPENING"} \X Wallet) \cup ({"GENERATED"} \X Op) \cup ({"CHOSEN"} \X Ref)

\* A generated reference is named by the call that generates it.
ReferenceOf(o) ==
    IF req[o] \in AdminRequest /\ req[o].ref # None THEN <<"CHOSEN", req[o].ref>>
    ELSE <<"GENERATED", o>>

Entry == [type : Credits \cup Debits, amt : Amount \cup Endowment, before : Int,
          after : Int, ref : Reference]

Row == [balance : Int, credited : Int, debited : Int, fees : Int]
RowOf(w) == [balance |-> balance[w], credited |-> credited[w],
             debited |-> debited[w], fees |-> fees[w]]
NoRow == [balance |-> 0, credited |-> 0, debited |-> 0, fees |-> 0]

Idle == "idle"
InTransaction == {"lock", "insert", "aside", "commit"}
Finished == {"done", "failed", "crashed"}
Place == {Idle, "find", "ensure", "create", "write", "writing", "again", "record", "connect"}
           \cup InTransaction \cup Finished

\* A statement that waits for a row keeps its connection, as a transaction does.
Holders == {o \in Op : pc[o] \in InTransaction \cup {"writing"}}

\* The pool has a connection to give.
Spare == Cardinality(Holders) < PoolSize

\* The unique index on system_wallet_transactions.reference.
Unused(ref) == \A w \in Wallet : \A i \in 1..Len(ledger[w]) : ledger[w][i].ref # ref

After(o) == IF req[o].type \in Credits THEN locked[o].balance + req[o].amt
                                       ELSE locked[o].balance - req[o].amt

\* A low balance makes an alert, an administrator's action an audit line.
WritesAside(o) == After(o) < MinReserve \/ req[o] \in AdminRequest

Goto(o, place) == pc' = [pc EXCEPT ![o] = place]

Release(o) == /\ rowLock' = [w \in Wallet |-> IF rowLock[w] = o THEN None ELSE rowLock[w]]
              /\ locked' = [locked EXCEPT ![o] = NoRow]

Start(o, r, w, place) ==
    /\ pc[o] = Idle
    /\ req' = [req EXCEPT ![o] = r]
    /\ target' = [target EXCEPT ![o] = w]
    /\ Goto(o, place)
    /\ UNCHANGED <<rowVars, moneyVars, rowLock, locked>>

\* The call goes on and changes nothing.
Proceed(o, place) ==
    /\ Goto(o, place)
    /\ UNCHANGED <<rowVars, moneyVars, rowLock, req, target, checked, locked>>

\* Mutant: the row stays locked.
RollbackKeepingLock(o) ==
    /\ Goto(o, "failed")
    /\ UNCHANGED <<rowVars, moneyVars, rowLock, req, target, checked, locked>>

Rollback(o) ==
    /\ Release(o)
    /\ Goto(o, "failed")
    /\ UNCHANGED <<rowVars, moneyVars, req, target, checked>>

-----------------------------------------------------------------------------
\* Before the first start there is no wallet; later there is the main one, and
\* perhaps a second, and it may have been topped up.
Init ==
    /\ label \in [Wallet -> Label]
    /\ Cardinality({w \in Wallet : label[w] = "main"}) <= 1
    /\ (\E w \in Wallet : label[w] = "other") => \E w \in Wallet : label[w] = "main"
    /\ status = [w \in Wallet |-> "active"]
    /\ balance \in [Wallet -> {0} \cup Endowment]
    /\ \A w \in Wallet : label[w] # "main" => balance[w] = 0
    /\ credited = balance
    /\ debited = [w \in Wallet |-> 0]
    /\ fees = [w \in Wallet |-> 0]
    /\ ledger = [w \in Wallet |->
                   IF balance[w] = 0 THEN <<>>
                   ELSE <<[type |-> "top_up", amt |-> balance[w], before |-> 0,
                           after |-> balance[w], ref |-> <<"OPENING", w>>]>>]
    /\ rowLock = [w \in Wallet |-> None]
    /\ req = [o \in Op |-> None]
    /\ target = [o \in Op |-> None]
    /\ pc = [o \in Op |-> Idle]
    /\ checked = [o \in Op |-> 0]
    /\ locked = [o \in Op |-> NoRow]

-----------------------------------------------------------------------------
(* The main wallet *)

\* onModuleInit of a process that starts.
Boot(o) ==
    /\ Start(o, [type |-> "boot"], None, "ensure")
    /\ UNCHANGED checked

\* findOne by label: any row that bears it.
Main(w) == Spare /\ label[w] = "main"
NoMain == Spare /\ \A w \in Wallet : label[w] # "main"

\* getMainWallet returns what it finds, first or after ensureSystemWalletExists;
Find(o, w) ==
    /\ pc[o] \in {"find", "again"}
    /\ Main(w)
    /\ target' = [target EXCEPT ![o] = w]
    /\ Goto(o, "record")
    /\ UNCHANGED <<rowVars, moneyVars, rowLock, req, checked, locked>>

\* a main wallet that is gone again makes its caller fail.
FindNone(o) ==
    /\ pc[o] \in {"find", "again"}
    /\ NoMain
    /\ Proceed(o, IF pc[o] = "find" THEN "ensure" ELSE "failed")

\* ensureSystemWalletExists ends for start-up, and leads on for getMainWallet.
Ensured(o) == IF req[o].type = "boot" THEN "done" ELSE "again"

Ensure(o, w) ==
    /\ pc[o] = "ensure"
    /\ Main(w)
    /\ target' = [target EXCEPT ![o] = w]
    /\ Goto(o, IF status[w] = "active" THEN Ensured(o) ELSE "write")
    /\ UNCHANGED <<rowVars, moneyVars, rowLock, req, checked, locked>>

EnsureNone(o) ==
    /\ pc[o] = "ensure"
    /\ NoMain
    /\ Proceed(o, "create")

\* The label is not unique: a second process creates a second main wallet.
CreateMain(o, w) ==
    /\ pc[o] = "create"
    /\ Spare
    /\ label[w] = "absent"
    /\ label' = [label EXCEPT ![w] = "main"]
    /\ status' = [status EXCEPT ![w] = "active"]
    /\ Goto(o, Ensured(o))
    /\ UNCHANGED <<moneyVars, rowLock, req, target, checked, locked>>

\* create: an additional wallet, whatever its label.
CreateWallet(w, l) ==
    /\ Spare
    /\ l # "absent"
    /\ label[w] = "absent"
    /\ label' = [label EXCEPT ![w] = l]
    /\ status' = [status EXCEPT ![w] = "active"]
    /\ UNCHANGED <<moneyVars, rowLock, req, target, pc, checked, locked>>

\* Mutant: the guard of the main wallet is missing.
BeginUpdateUnguarded(o, w, l, s) ==
    /\ Spare
    /\ label[w] # "absent"
    /\ Start(o, [type |-> "update", label |-> l, status |-> s], w, "write")
    /\ UNCHANGED checked

\* update: the guard looks at the label the row has, and the row is written later.
BeginUpdate(o, w, l, s) ==
    /\ Spare
    /\ label[w] # "absent"
    /\ ~(label[w] = "main" /\ s = "maintenance")
    /\ Start(o, [type |-> "update", label |-> l, status |-> s], w, "write")
    /\ UNCHANGED checked

Write(o) ==
    /\ pc[o] = "write"
    /\ Spare
    /\ Proceed(o, "writing")

\* The statement waits for whoever has locked the row.
WriteRow(o, l, s) ==
    /\ rowLock[target[o]] = None
    /\ label' = [label EXCEPT ![target[o]] = l]
    /\ status' = [status EXCEPT ![target[o]] = s]
    /\ UNCHANGED <<moneyVars, rowLock, req, target, checked, locked>>

Reactivate(o) ==
    /\ pc[o] = "writing" /\ req[o].type # "update"
    /\ WriteRow(o, label[target[o]], "active")
    /\ Goto(o, Ensured(o))

\* Mutant: a status that is not given is written all the same.
UpdateStatusAlways(o) ==
    /\ pc[o] = "writing" /\ req[o].type = "update"
    /\ WriteRow(o, IF req[o].label = None THEN label[target[o]] ELSE req[o].label, req[o].status)
    /\ Goto(o, "done")

\* Only the columns that are given are written.
Update(o) ==
    /\ pc[o] = "writing" /\ req[o].type = "update"
    /\ WriteRow(o, IF req[o].label = None THEN label[target[o]] ELSE req[o].label,
                   IF req[o].status = None THEN status[target[o]] ELSE req[o].status)
    /\ Goto(o, "done")

-----------------------------------------------------------------------------
(* The callers of recordNgnTransaction *)

BeginFee(o, a) ==
    /\ Start(o, [type |-> "fee_credit", amt |-> a], None, "find")
    /\ UNCHANGED checked

\* A balance below the amount is only logged.
BeginReserve(o, a) ==
    /\ Start(o, [type |-> "payout_reserve", amt |-> a], None, "find")
    /\ UNCHANGED checked

BeginTopUp(o, w, a, r) ==
    /\ Spare
    /\ label[w] # "absent"
    /\ status[w] # "maintenance"
    /\ r # None => Unused(<<"CHOSEN", r>>)
    /\ Start(o, [type |-> "top_up", amt |-> a, ref |-> r, force |-> FALSE], w, "record")
    /\ UNCHANGED checked

\* Mutant: the amount is compared with the reserve, not what would be left.
BeginWithdrawAmountOnly(o, w, a, r, force) ==
    /\ Spare
    /\ label[w] # "absent"
    /\ status[w] # "maintenance"
    /\ a <= balance[w]
    /\ a < MinReserve => force
    /\ r # None => Unused(<<"CHOSEN", r>>)
    /\ checked' = [checked EXCEPT ![o] = balance[w]]
    /\ Start(o, [type |-> "debit", amt |-> a, ref |-> r, force |-> force], w, "record")

\* The balance and the reserve are checked here and never again.
BeginWithdraw(o, w, a, r, force) ==
    /\ Spare
    /\ label[w] # "absent"
    /\ status[w] # "maintenance"
    /\ a <= balance[w]
    /\ balance[w] - a < MinReserve => force
    /\ r # None => Unused(<<"CHOSEN", r>>)
    /\ checked' = [checked EXCEPT ![o] = balance[w]]
    /\ Start(o, [type |-> "debit", amt |-> a, ref |-> r, force |-> force], w, "record")

-----------------------------------------------------------------------------
(* recordNgnTransaction *)

RecordRefused(o) ==
    /\ pc[o] = "record"
    /\ Spare
    /\ status[target[o]] = "maintenance"
    /\ Proceed(o, "failed")

Record(o) ==
    /\ pc[o] = "record"
    /\ Spare
    /\ status[target[o]] # "maintenance"
    /\ Proceed(o, "connect")

\* The transaction gets its connection,
Connect(o) ==
    /\ pc[o] = "connect"
    /\ Spare
    /\ Proceed(o, "lock")

\* Mutant: the row is read without setLock.
ReadUnlocked(o) ==
    /\ pc[o] = "lock"
    /\ locked' = [locked EXCEPT ![o] = RowOf(target[o])]
    /\ Goto(o, "insert")
    /\ UNCHANGED <<rowVars, moneyVars, rowLock, req, target, checked>>

\* and reads the row with FOR UPDATE.
LockRow(o) ==
    /\ pc[o] = "lock"
    /\ rowLock[target[o]] = None
    /\ rowLock' = [rowLock EXCEPT ![target[o]] = o]
    /\ locked' = [locked EXCEPT ![o] = RowOf(target[o])]
    /\ Goto(o, "insert")
    /\ UNCHANGED <<rowVars, moneyVars, req, target, checked>>

\* Another transaction has inserted the same reference and not ended.
TwinPending(o) ==
    \E p \in Op \ {o} : pc[p] \in {"aside", "commit"} /\ ReferenceOf(p) = ReferenceOf(o)

\* Mutant: the unique index is missing.
InsertUnchecked(o) ==
    /\ pc[o] = "insert"
    /\ Proceed(o, IF WritesAside(o) THEN "aside" ELSE "commit")

\* The row is updated and the line inserted; the index waits for a twin.
Insert(o) ==
    /\ pc[o] = "insert"
    /\ ~TwinPending(o)
    /\ Unused(ReferenceOf(o))
    /\ Proceed(o, IF WritesAside(o) THEN "aside" ELSE "commit")

InsertRefused(o) ==
    /\ pc[o] = "insert"
    /\ ~TwinPending(o)
    /\ ~Unused(ReferenceOf(o))
    /\ Rollback(o)

\* triggerLowBalanceAlert and saveAudit, on a second connection.
Aside(o) ==
    /\ pc[o] = "aside"
    /\ Spare
    /\ Proceed(o, "commit")

\* One of them throws, and the movement is rolled back.
AsideFails(o) ==
    /\ pc[o] = "aside"
    /\ Spare
    /\ Rollback(o)

\* Mutant: any credit counts as a fee.
CommitAllFees(o) ==
    LET w == target[o]
        a == req[o].amt
    IN  /\ pc[o] = "commit"
        /\ balance' = [balance EXCEPT ![w] = After(o)]
        /\ credited' = IF req[o].type \in Credits
                       THEN [credited EXCEPT ![w] = locked[o].credited + a] ELSE credited
        /\ fees' = IF req[o].type \in Credits
                   THEN [fees EXCEPT ![w] = locked[o].fees + a] ELSE fees
        /\ debited' = IF req[o].type \in Debits
                      THEN [debited EXCEPT ![w] = locked[o].debited + a] ELSE debited
        /\ ledger' = [ledger EXCEPT ![w] =
                        Append(@, [type |-> req[o].type, amt |-> a, before |-> locked[o].balance,
                                   after |-> After(o), ref |-> ReferenceOf(o)])]
        /\ Release(o)
        /\ Goto(o, "done")
        /\ UNCHANGED <<rowVars, req, target, checked>>

\* The writes become visible: absolute values made from the row as it was read.
Commit(o) ==
    LET w == target[o]
        a == req[o].amt
    IN  /\ pc[o] = "commit"
        /\ balance' = [balance EXCEPT ![w] = After(o)]
        /\ credited' = IF req[o].type \in Credits
                       THEN [credited EXCEPT ![w] = locked[o].credited + a] ELSE credited
        /\ fees' = IF req[o].type = "fee_credit"
                   THEN [fees EXCEPT ![w] = locked[o].fees + a] ELSE fees
        /\ debited' = IF req[o].type \in Debits
                      THEN [debited EXCEPT ![w] = locked[o].debited + a] ELSE debited
        /\ ledger' = [ledger EXCEPT ![w] =
                        Append(@, [type |-> req[o].type, amt |-> a, before |-> locked[o].balance,
                                   after |-> After(o), ref |-> ReferenceOf(o)])]
        /\ Release(o)
        /\ Goto(o, "done")
        /\ UNCHANGED <<rowVars, req, target, checked>>

\* The process dies; the database rolls its transaction back.
Crash(o) ==
    /\ pc[o] \notin {Idle} \cup Finished
    /\ Release(o)
    /\ Goto(o, "crashed")
    /\ UNCHANGED <<rowVars, moneyVars, req, target, checked>>

-----------------------------------------------------------------------------
Call(o) ==
    \/ Boot(o)
    \/ \E w \in Wallet, l \in {"main", "other", None}, s \in Status \cup {None} :
         BeginUpdate(o, w, l, s)
    \/ \E a \in Amount :
         \/ BeginFee(o, a)
         \/ BeginReserve(o, a)
         \/ \E w \in Wallet, r \in Ref \cup {None} :
              \/ BeginTopUp(o, w, a, r)
              \/ \E force \in BOOLEAN : BeginWithdraw(o, w, a, r, force)

MainStep(o) ==
    \/ \E w \in Wallet : Find(o, w) \/ Ensure(o, w) \/ CreateMain(o, w)
    \/ FindNone(o) \/ EnsureNone(o) \/ Write(o) \/ Reactivate(o) \/ Update(o)

RecordStep(o) ==
    \/ Record(o) \/ RecordRefused(o) \/ Connect(o) \/ LockRow(o)
    \/ Insert(o) \/ InsertRefused(o) \/ Aside(o) \/ AsideFails(o) \/ Commit(o)

Next == \/ \E w \in Wallet, l \in Label : CreateWallet(w, l)
        \/ \E o \in Op : Call(o) \/ MainStep(o) \/ RecordStep(o) \/ Crash(o)

Spec == Init /\ [][Next]_vars

\* A call that has begun keeps running: the event loop resumes it, the pool
\* hands out its connections and the database its locks in turn.
FairSpec == Spec /\ \A o \in Op : WF_vars(MainStep(o) \/ RecordStep(o))

-----------------------------------------------------------------------------
(* Properties *)

\* Types of the variables.
TypeOK ==
    /\ label \in [Wallet -> Label]
    /\ status \in [Wallet -> Status]
    /\ balance \in [Wallet -> Int]
    /\ credited \in [Wallet -> Int]
    /\ debited \in [Wallet -> Int]
    /\ fees \in [Wallet -> Int]
    /\ ledger \in [Wallet -> Seq(Entry)]
    /\ rowLock \in [Wallet -> Op \cup {None}]
    /\ req \in [Op -> Request \cup {None}]
    /\ target \in [Op -> Wallet \cup {None}]
    /\ pc \in [Op -> Place]
    /\ checked \in [Op -> Int]
    /\ locked \in [Op -> Row]

\* The wallet as its statement tells it: getPlatformStats reports the columns,
\* getTransactions the lines.
Sum(s, types) ==
    LET upTo[i \in 0..Len(s)] ==
          IF i = 0 THEN 0
          ELSE upTo[i - 1] + IF s[i].type \in types THEN s[i].amt ELSE 0
    IN  upTo[Len(s)]

\* Four columns that every recording writes from what it read earlier agree
\* with the statement: no movement is lost or counted twice however recordings
\* overlap, and fees are the part of the credits that came from fees.
TotalsAgree ==
    \A w \in Wallet :
        /\ credited[w] = Sum(ledger[w], Credits)
        /\ debited[w] = Sum(ledger[w], Debits)
        /\ fees[w] = Sum(ledger[w], {"fee_credit"})
        /\ balance[w] = credited[w] - debited[w]

Book == INSTANCE Ledger WITH Account <- Wallet, Line <- Entry, Outgoing <- Debits,
                             Correction <- {}, lines <- ledger

\* The service keeps its book as Ledger demands: a balance moves with one new
\* line that starts at it, lines stay, references are unique, also when two
\* administrators book one reference at once.
KeepsBook == Book!Spec

\* A withdrawal without forceWithdraw leaves the minimum reserve in place unless
\* another movement took money between its check and its lock.
ReserveKept ==
    \A o \in Op : \A w \in Wallet : \A i \in 1..Len(ledger[w]) :
        /\ pc[o] = "done"
        /\ req[o].type = "debit"
        /\ ~req[o].force
        /\ ledger[w][i].ref = ReferenceOf(o)
        => ledger[w][i].after >= MinReserve \/ ledger[w][i].before < checked[o]

\* "The main NGN reserve wallet cannot be put under maintenance": it gets there
\* only when an update makes a main wallet of one that was under maintenance or
\* being put there.
MainInService ==
    \A w \in Wallet :
        label[w] = "main" /\ status[w] = "maintenance" =>
            \E o \in Op : /\ pc[o] = "done"
                          /\ target[o] = w
                          /\ req[o].type = "update"
                          /\ req[o].label = "main"

\* o waits for something that only another call can give back.
Waits(o) == \/ pc[o] = "aside" /\ ~Spare
            \/ pc[o] \in {"lock", "writing"} /\ rowLock[target[o]] # None
            \/ pc[o] = "insert" /\ TwinPending(o)

\* Every connection is held by a transaction that waits.
Jammed == ~Spare /\ \A o \in Holders : Waits(o)

\* The database may hold no more wallets than the model names.
Full == \A w \in Wallet : label[w] # "absent"

\* A call ends, whatever it meets, or the pool is jammed: calls that wait have
\* all the connections, and the one that holds the row they wait for needs another.
CallsEnd ==
    \A o \in Op : pc[o] # Idle ~> \/ pc[o] \in Finished
                                  \/ pc[o] = "create" /\ Full
                                  \/ Jammed
=============================================================================

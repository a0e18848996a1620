------------------------- MODULE WalletLedgerProofs -------------------------
(***************************************************************************)
(* What WalletLedger guarantees for any finite number of users, any calls, *)
(* amounts and references, and for either way in which the queue may fail. *)
(***************************************************************************)
EXTENDS WalletLedger, WellFoundedInduction, FiniteSetTheorems, TLAPS

\* A call that has got to pc[o] was asked for the operation that goes there.
Shape ==
    \A o \in Op :
        /\ pc[o] \in {"select", "insert", "credit"} => req[o] \in CreditRequest
        /\ pc[o] \in {"locking", "transfer"} =>
             req[o] \in TransferRequest /\ req[o].user # req[o].peer
        /\ pc[o] \in {"lock", "withdraw", "enqueue", "reversing", "reversal"} =>
             req[o] \in WithdrawRequest

Typed == TypeOK /\ Shape

\* A new line at the end of a statement.
LEMMA AppendEntry ==
    ASSUME NEW S, NEW s \in Seq(S), NEW e \in S
    PROVE  /\ Append(s, e) \in Seq(S)
           /\ Len(Append(s, e)) = Len(s) + 1
           /\ \A i \in 1..Len(s) : Append(s, e)[i] = s[i]
           /\ Append(s, e)[Len(s) + 1] = e
  OBVIOUS

\* What Post appends is an entry, whatever the balances are.
LEMMA PostType ==
    ASSUME TypeOK, NEW u \in User, NEW a \in Amount, NEW b \in Int, NEW c \in Int,
           NEW type \in {"CREDIT", "TRANSFER_IN", "REVERSAL"} \cup Debits,
           NEW ref \in Reference
    PROVE  Post(u, type, a, b, c, ref) \in Seq(Entry)
  <1>1. [type |-> type, amt |-> a, before |-> b, after |-> c, ref |-> ref] \in Entry
    BY DEF Entry
  <1>2. ledger[u] \in Seq(Entry)
    BY DEF TypeOK
  <1>3. QED
    BY <1>1, <1>2, AppendEntry DEF Post

\* A wallet starts empty or with one of the amounts.
LEMMA InitBalance ==
    Init => \A u \in User : balance[u] \in Nat /\ (u \in open => balance[u] \in Amount)
  <1> SUFFICES ASSUME Init, NEW u \in User
               PROVE  balance[u] \in Nat /\ (u \in open => balance[u] \in Amount)
    OBVIOUS
  <1>1. \A a \in Amount : a \in Nat /\ a # 0
    BY AmountAssumption
  <1>2. balance \in [User -> {0} \cup Amount] /\ open = {w \in User : balance[w] # 0}
    BY DEF Init
  <1>3. balance[u] = 0 \/ balance[u] \in Amount
    BY <1>2
  <1>4. CASE balance[u] = 0
    BY <1>4, <1>2
  <1>5. CASE balance[u] \in Amount
    BY <1>5, <1>1
  <1>6. QED
    BY <1>3, <1>4, <1>5

LEMMA InitTyped == Init => Typed
  <1> SUFFICES ASSUME Init PROVE Typed
    OBVIOUS
  <1>1. \A u \in User : balance[u] \in Nat /\ (u \in open => balance[u] \in Amount)
    BY InitBalance
  <1>2. ASSUME NEW u \in User PROVE ledger[u] \in Seq(Entry)
    <2>1. CASE u \notin open
      BY <2>1 DEF Init
    <2>2. CASE u \in open
      <3>1. <<"OPENING", u>> \in Reference
        BY DEF Reference
      <3>2. [type |-> "CREDIT", amt |-> balance[u], before |-> 0,
             after |-> balance[u], ref |-> <<"OPENING", u>>] \in Entry
        BY <1>1, <2>2, <3>1 DEF Entry
      <3>3. QED
        BY <2>2, <3>2 DEF Init
    <2>3. QED
      BY <2>1, <2>2
  <1>3. ledger \in [User -> Seq(Entry)]
    BY <1>2 DEF Init
  <1>4. TypeOK
    BY <1>1, <1>3, AmountAssumption DEF TypeOK, Init, Status, Idle
  <1>5. Shape
    BY DEF Shape, Init, Idle
  <1>6. QED
    BY <1>4, <1>5 DEF Typed

\* A line of WriteBack, Debit and the two commits: the ledger keeps its type.
LEMMA LedgerType ==
    ASSUME TypeOK, NEW u \in User, NEW a \in Amount, NEW b \in Int, NEW c \in Int,
           NEW type \in {"CREDIT", "TRANSFER_IN", "REVERSAL"} \cup Debits,
           NEW ref \in Reference
    PROVE  [ledger EXCEPT ![u] = Post(u, type, a, b, c, ref)] \in [User -> Seq(Entry)]
  BY PostType DEF TypeOK

LEMMA NextTyped == Typed /\ [Next]_vars => Typed'
  <1> SUFFICES ASSUME Typed, [Next]_vars PROVE Typed'
    OBVIOUS
  <1> USE DEF Typed
  <1>n. \A a \in Amount : a \in Nat \ {0}
    BY AmountAssumption
  <1>1. ASSUME NEW u \in User, OpenWallet(u) PROVE Typed'
    BY <1>1 DEF OpenWallet, TypeOK, Shape
  <1>2. ASSUME NEW u \in User, NEW s \in Status, SetStatus(u, s) PROVE Typed'
    BY <1>2 DEF SetStatus, TypeOK, Shape
  <1>3. ASSUME NEW o \in Op, Call(o) PROVE Typed'
    <2> PICK u \in User, a \in Amount :
              \/ \E r \in Ref : BeginCredit(o, u, a, r)
              \/ \E v \in User : BeginTransfer(o, u, v, a)
              \/ BeginWithdraw(o, u, a)
      BY <1>3 DEF Call
    <2> USE DEF Start, Goto, walletVars, TypeOK, Shape, Idle, InFlight
    <2>1. CASE \E r \in Ref : BeginCredit(o, u, a, r)
      <3> PICK r \in Ref : BeginCredit(o, u, a, r)
        BY <2>1
      <3> DEFINE q == [kind |-> "credit", user |-> u, amt |-> a, ref |-> r]
      <3>1. q \in CreditRequest /\ q \in Request
        BY DEF Request, CreditRequest
      <3>2. /\ pc' = [pc EXCEPT ![o] = "select"]
            /\ req' = [req EXCEPT ![o] = q]
            /\ UNCHANGED <<walletVars, rowLock, seen, jobs>>
        BY DEF BeginCredit
      <3>3. QED
        BY <3>1, <3>2
    <2>2. CASE \E v \in User : BeginTransfer(o, u, v, a)
      <3> PICK v \in User : BeginTransfer(o, u, v, a)
        BY <2>2
      <3> DEFINE q == [kind |-> "transfer", user |-> u, peer |-> v, amt |-> a]
      <3>1. q \in TransferRequest /\ q \in Request /\ q.user = u /\ q.peer = v
        BY DEF Request, TransferRequest
      <3>2. /\ u # v
            /\ pc' = [pc EXCEPT ![o] = "locking"]
            /\ req' = [req EXCEPT ![o] = q]
            /\ UNCHANGED <<walletVars, rowLock, seen, jobs>>
        BY DEF BeginTransfer
      <3>3. QED
        BY <3>1, <3>2
    <2>3. CASE BeginWithdraw(o, u, a)
      BY <2>3 DEF BeginWithdraw, Request, WithdrawRequest
    <2>4. QED
      BY <2>1, <2>2, <2>3
  <1>4. ASSUME NEW o \in Op, CreditStep(o) PROVE Typed'
    <2> USE DEF Goto, walletVars, InFlight, Finished
    <2>1. CASE CreditSelect(o)
      BY <2>1 DEF CreditSelect, TakeLock, TypeOK, Shape, CreditRequest
    <2>2. CASE CreditSelectNone(o)
      BY <2>2 DEF CreditSelectNone, TypeOK, Shape
    <2>3. CASE CreditInsert(o)
      BY <2>3 DEF CreditInsert, TakeLock, TypeOK, Shape, CreditRequest
    <2>4. CASE CreditInsertConflict(o)
      BY <2>4 DEF CreditInsertConflict, Rollback, Release, TypeOK, Shape
    <2>5. CASE CreditRefused(o)
      BY <2>5 DEF CreditRefused, Rollback, Release, TypeOK, Shape
    <2>6. CASE CreditCommit(o)
      <3>1. req[o] \in CreditRequest
        BY <2>6 DEF CreditCommit, Shape
      <3>2. req[o].user \in User /\ req[o].amt \in Amount /\ <<"CREDIT", req[o].ref>> \in Reference
        BY <3>1 DEF CreditRequest, Reference
      <3>3. balance[req[o].user] \in Int /\ balance[req[o].user] + req[o].amt \in Int
        BY <3>2, <1>n DEF TypeOK
      <3>4. ledger' \in [User -> Seq(Entry)]
        BY <2>6, <3>2, <3>3, LedgerType DEF CreditCommit
      <3>n. req[o].amt \in Nat
        BY <3>2, <1>n
      <3>a. balance' \in [User -> Int] /\ received' \in [User -> Nat]
        BY <2>6, <3>2, <3>n DEF CreditCommit, TypeOK
      <3>b. rowLock' \in [User -> Op \cup {None}] /\ pc' \in [Op -> {Idle} \cup InFlight \cup Finished]
        BY <2>6 DEF CreditCommit, Release, TypeOK
      <3>5. TypeOK'
        BY <2>6, <3>2, <3>4, <3>a, <3>b DEF CreditCommit, TypeOK
      <3>s. pc' = [pc EXCEPT ![o] = "done"] /\ req' = req
        BY <2>6 DEF CreditCommit
      <3>6. Shape'
        BY <3>s DEF TypeOK, Shape
      <3>7. QED
        BY <3>5, <3>6
    <2>7. QED
      BY <1>4, <2>1, <2>2, <2>3, <2>4, <2>5, <2>6 DEF CreditStep
  <1>5. ASSUME NEW o \in Op, TransferStep(o) PROVE Typed'
    <2> USE DEF Goto, walletVars, InFlight, Finished
    <2>1. ASSUME NEW w \in User, TransferLockRow(o, w) PROVE Typed'
      BY <2>1 DEF TransferLockRow, TakeLock, TypeOK, Shape
    <2>2. CASE TransferDeadlock(o)
      BY <2>2 DEF TransferDeadlock, Rollback, Release, TypeOK, Shape
    <2>3. CASE TransferRefused(o)
      BY <2>3 DEF TransferRefused, Rollback, Release, TypeOK, Shape
    <2>4. CASE TransferCommit(o)
      <3> DEFINE u == req[o].user
                 v == req[o].peer
                 a == req[o].amt
      <3>1. u \in User /\ v \in User /\ a \in Amount
        BY <2>4 DEF TransferCommit, Shape, TransferRequest
      <3>2. <<"OUT", o>> \in Reference /\ <<"IN", o>> \in Reference
        BY DEF Reference
      <3>n. a \in Nat
        BY <3>1, <1>n
      <3>3. /\ balance[u] \in Int /\ balance[v] \in Int
            /\ balance[u] - a \in Int /\ balance[v] + a \in Int
        BY <3>1, <3>n DEF TypeOK
      <3>4. /\ Post(u, "TRANSFER_OUT", a, balance[u], balance[u] - a, <<"OUT", o>>) \in Seq(Entry)
            /\ Post(v, "TRANSFER_IN", a, balance[v], balance[v] + a, <<"IN", o>>) \in Seq(Entry)
        BY <3>1, <3>2, <3>3, PostType DEF Debits
      <3>5. ledger' \in [User -> Seq(Entry)]
        BY <2>4, <3>1, <3>4 DEF TransferCommit, TypeOK
      <3>t. balance \in [User -> Int] /\ received \in [User -> Nat] /\ sent \in [User -> Nat]
        BY DEF TypeOK
      <3>w. /\ balance' = [balance EXCEPT ![u] = @ - a, ![v] = @ + a]
            /\ received' = [received EXCEPT ![v] = @ + a]
            /\ sent' = [sent EXCEPT ![u] = @ + a]
        BY <2>4 DEF TransferCommit
      <3> HIDE DEF u, v, a
      <3>a. /\ balance' \in [User -> Int]
            /\ received' \in [User -> Nat]
            /\ sent' \in [User -> Nat]
        BY <3>1, <3>n, <3>t, <3>w
      <3> USE DEF u, v, a
      <3>b. rowLock' \in [User -> Op \cup {None}] /\ pc' \in [Op -> {Idle} \cup InFlight \cup Finished]
        BY <2>4 DEF TransferCommit, Release, TypeOK
      <3>6. TypeOK'
        BY <2>4, <3>5, <3>a, <3>b DEF TransferCommit, TypeOK
      <3>s. pc' = [pc EXCEPT ![o] = "done"] /\ req' = req
        BY <2>4 DEF TransferCommit
      <3>7. Shape'
        BY <3>s DEF TypeOK, Shape
      <3>8. QED
        BY <3>6, <3>7
    <2>5. QED
      BY <1>5, <2>1, <2>2, <2>3, <2>4 DEF TransferStep
  <1>6. ASSUME NEW o \in Op, WithdrawStep(o) PROVE Typed'
    <2> USE DEF Goto, walletVars, InFlight, Finished
    <2> DEFINE u == req[o].user
               a == req[o].amt
    <2>0. /\ <<"WDR", o>> \in Reference /\ <<"REV", o>> \in Reference
          /\ pc[o] \in {"lock", "withdraw", "enqueue", "reversing", "reversal"} =>
               u \in User /\ a \in Amount
      BY DEF Reference, Shape, WithdrawRequest
    <2>1. CASE WithdrawLock(o)
      BY <2>1, <2>0 DEF WithdrawLock, TakeLock, TypeOK, Shape
    <2>2. CASE WithdrawRefused(o)
      BY <2>2 DEF WithdrawRefused, Rollback, Release, TypeOK, Shape
    <2>3. CASE WithdrawCommit(o)
      <3>1. u \in User /\ a \in Amount
        BY <2>3, <2>0 DEF WithdrawCommit
      <3>2. balance[u] \in Int /\ balance[u] - a \in Int
        BY <3>1, <1>n DEF TypeOK
      <3>3. ledger' \in [User -> Seq(Entry)]
        BY <2>3, <3>1, <3>2, <2>0, LedgerType DEF WithdrawCommit, Debit, Debits
      <3>n. a \in Nat
        BY <3>1, <1>n
      <3>t. balance \in [User -> Int] /\ sent \in [User -> Nat]
        BY DEF TypeOK
      <3>w. /\ balance' = [balance EXCEPT ![u] = @ - a]
            /\ sent' = [sent EXCEPT ![u] = @ + a]
        BY <2>3 DEF WithdrawCommit, Debit
      <3> HIDE DEF u, a
      <3>a. balance' \in [User -> Int] /\ sent' \in [User -> Nat]
        BY <3>1, <3>n, <3>t, <3>w
      <3> USE DEF u, a
      <3>b. rowLock' \in [User -> Op \cup {None}] /\ pc' \in [Op -> {Idle} \cup InFlight \cup Finished]
        BY <2>3 DEF WithdrawCommit, Debit, Release, TypeOK
      <3>4. TypeOK'
        BY <2>3, <3>3, <3>a, <3>b DEF WithdrawCommit, Debit, TypeOK
      <3>s. pc' = [pc EXCEPT ![o] = "enqueue"] /\ req' = req /\ req[o] \in WithdrawRequest
        BY <2>3 DEF WithdrawCommit, Debit, Shape
      <3>5. Shape'
        BY <3>s DEF TypeOK, Shape
      <3>6. QED
        BY <3>4, <3>5
    <2>4. CASE Enqueue(o)
      BY <2>4 DEF Enqueue, TypeOK, Shape
    <2>5. CASE ReversalRead(o)
      BY <2>5, <2>0 DEF ReversalRead, TypeOK, Shape
    <2>6. CASE ReversalCommit(o)
      <3>1. u \in User /\ a \in Amount
        BY <2>6, <2>0 DEF ReversalCommit, WriteBack
      <3>2. /\ seen[o].balance \in Int /\ seen[o].balance + a \in Int
            /\ seen[o].sent >= a => seen[o].sent - a \in Nat
        BY <3>1, <1>n DEF TypeOK
      <3>3. ledger' \in [User -> Seq(Entry)]
        BY <2>6, <3>1, <3>2, <2>0, LedgerType DEF ReversalCommit, WriteBack
      <3>4. TypeOK'
        BY <2>6, <3>1, <3>2, <3>3, <1>n DEF ReversalCommit, WriteBack, TypeOK
      <3>s. pc' = [pc EXCEPT ![o] = "reversed"] /\ req' = req
        BY <2>6 DEF ReversalCommit, WriteBack
      <3>5. Shape'
        BY <3>s DEF TypeOK, Shape
      <3>6. QED
        BY <3>4, <3>5
    <2>7. QED
      BY <1>6, <2>1, <2>2, <2>3, <2>4, <2>5, <2>6 DEF WithdrawStep
  <1>7. ASSUME NEW o \in Op, NEW fault \in QueueFault, EnqueueFails(o, fault) PROVE Typed'
    BY <1>7 DEF EnqueueFails, Goto, walletVars, InFlight, Finished, TypeOK, Shape
  <1>8. ASSUME NEW o \in Op, Crash(o) PROVE Typed'
    BY <1>8 DEF Crash, Release, Goto, walletVars, InFlight, Finished, TypeOK, Shape
  <1>f. ASSUME NEW o \in Op, StatementFails(o) \/ ReversalFails(o) PROVE Typed'
    BY <1>f DEF StatementFails, ReversalFails, Transacting, Rollback, Release, Goto, walletVars,
       InFlight, Finished, TypeOK, Shape
  <1>9. CASE UNCHANGED vars
    BY <1>9 DEF vars, TypeOK, Shape
  <1>10. QED
    BY <1>1, <1>2, <1>3, <1>4, <1>5, <1>6, <1>7, <1>8, <1>f, <1>9 DEF Next, Step

\* Every variable of the wallets keeps its type: no operation writes anything
\* but a number, a known status or a well-formed statement line.
THEOREM TypeCorrect == Spec => []TypeOK
  <1>1. Typed => TypeOK
    BY DEF Typed
  <1>2. QED
    BY <1>1, InitTyped, NextTyped, PTL DEF Spec

-----------------------------------------------------------------------------
\* Overdrafts.  What a reversal has read was a balance, so what it writes back
\* is not negative either.
Solvent ==
    /\ NeverOverdrawn
    /\ \A o \in Op : pc[o] = "reversal" => seen[o].balance >= 0

LEMMA SolventStep == Typed /\ Solvent /\ [Next]_vars => Solvent'
  <1> SUFFICES ASSUME Typed, Solvent, [Next]_vars PROVE Solvent'
    OBVIOUS
  <1>n. \A a \in Amount : a \in Nat
    BY AmountAssumption
  <1>t. /\ balance \in [User -> Int]
        /\ pc \in [Op -> {Idle} \cup InFlight \cup Finished]
        /\ seen \in [Op -> [balance : Int, sent : Nat]]
    BY DEF Typed, TypeOK
  <1>s. /\ \A u \in User : balance[u] >= 0
        /\ \A o \in Op : pc[o] = "reversal" => seen[o].balance >= 0
    BY DEF Solvent, NeverOverdrawn
  \* A step that moves no money and takes no call to its reversal.
  <1>q. ASSUME NEW o \in Op, NEW label, label # "reversal",
               pc' = [pc EXCEPT ![o] = label], UNCHANGED <<balance, seen>>
        PROVE  Solvent'
    BY <1>q, <1>t, <1>s DEF Solvent, NeverOverdrawn
  <1>1. ASSUME NEW u \in User, OpenWallet(u) PROVE Solvent'
    BY <1>1, <1>s DEF OpenWallet, Solvent, NeverOverdrawn
  <1>2. ASSUME NEW u \in User, NEW s \in Status, SetStatus(u, s) PROVE Solvent'
    BY <1>2, <1>s DEF SetStatus, Solvent, NeverOverdrawn
  <1>3. ASSUME NEW o \in Op, Call(o) PROVE Solvent'
    BY <1>3, <1>q DEF Call, BeginCredit, BeginTransfer, BeginWithdraw, Start, Goto, walletVars
  <1>4. ASSUME NEW o \in Op, CreditStep(o) PROVE Solvent'
    <2>1. CASE CreditCommit(o)
      <3>1. req[o].user \in User /\ req[o].amt \in Nat
        BY <2>1, <1>n DEF CreditCommit, Typed, Shape, CreditRequest
      <3>2. /\ balance' = [balance EXCEPT ![req[o].user] = @ + req[o].amt]
            /\ pc' = [pc EXCEPT ![o] = "done"]
            /\ seen' = seen
        BY <2>1 DEF CreditCommit, Goto
      <3>3. QED
        BY <3>1, <3>2, <1>t, <1>s DEF Solvent, NeverOverdrawn
    <2>2. CASE ~CreditCommit(o)
      BY <1>4, <2>2, <1>q DEF CreditStep, CreditSelect, CreditSelectNone, CreditInsert,
         CreditInsertConflict, CreditRefused, TakeLock, Rollback, Goto, walletVars
    <2>3. QED
      BY <2>1, <2>2
  <1>5. ASSUME NEW o \in Op, TransferStep(o) PROVE Solvent'
    <2>1. CASE TransferCommit(o)
      <3> DEFINE u == req[o].user
                 v == req[o].peer
                 a == req[o].amt
      <3>1. u \in User /\ v \in User /\ u # v /\ a \in Nat
        BY <2>1, <1>n DEF TransferCommit, Typed, Shape, TransferRequest
      <3>2. /\ balance[u] >= a
            /\ balance' = [balance EXCEPT ![u] = @ - a, ![v] = @ + a]
            /\ pc' = [pc EXCEPT ![o] = "done"]
            /\ seen' = seen
        BY <2>1 DEF TransferCommit, Goto
      <3> HIDE DEF u, v, a
      <3>3. QED
        BY <3>1, <3>2, <1>t, <1>s DEF Solvent, NeverOverdrawn
    <2>2. CASE ~TransferCommit(o)
      <3>1. CASE \E w \in User : TransferLockRow(o, w)
        BY <3>1, <1>q DEF TransferLockRow, TakeLock, Goto, walletVars
      <3>2. CASE TransferDeadlock(o) \/ TransferRefused(o)
        BY <3>2, <1>q DEF TransferDeadlock, TransferRefused, Rollback, Goto, walletVars
      <3>3. QED
        BY <1>5, <2>2, <3>1, <3>2 DEF TransferStep
    <2>3. QED
      BY <2>1, <2>2
  <1>6. ASSUME NEW o \in Op, WithdrawStep(o) PROVE Solvent'
    <2> DEFINE u == req[o].user
               a == req[o].amt
    <2>0. pc[o] \in {"withdraw", "reversing", "reversal"} => u \in User /\ a \in Nat
      BY <1>n DEF Typed, Shape, WithdrawRequest
    <2>1. CASE WithdrawCommit(o)
      <3>1. /\ pc[o] = "withdraw" /\ balance[u] >= a
            /\ balance' = [balance EXCEPT ![u] = @ - a]
            /\ pc' = [pc EXCEPT ![o] = "enqueue"]
            /\ seen' = seen
        BY <2>1 DEF WithdrawCommit, Debit, Goto
      <3> HIDE DEF u, a
      <3>2. QED
        BY <2>0, <3>1, <1>t, <1>s DEF Solvent, NeverOverdrawn
    <2>2. CASE ReversalRead(o)
      <3>1. /\ pc[o] = "reversing" /\ balance' = balance
            /\ seen' = [seen EXCEPT ![o] = [balance |-> balance[u], sent |-> sent[u]]]
            /\ pc' = [pc EXCEPT ![o] = "reversal"]
        BY <2>2 DEF ReversalRead, Goto, walletVars
      <3> HIDE DEF u, a
      <3>2. QED
        BY <2>0, <3>1, <1>t, <1>s DEF Solvent, NeverOverdrawn
    <2>3. CASE ReversalCommit(o)
      <3>1. /\ pc[o] = "reversal"
            /\ balance' = [balance EXCEPT ![u] = seen[o].balance + a]
            /\ pc' = [pc EXCEPT ![o] = "reversed"]
            /\ seen' = seen
        BY <2>3 DEF ReversalCommit, WriteBack, Goto
      <3> HIDE DEF u, a
      <3>2. QED
        BY <2>0, <3>1, <1>t, <1>s DEF Solvent, NeverOverdrawn
    <2>4. CASE WithdrawLock(o) \/ WithdrawRefused(o) \/ Enqueue(o)
      BY <2>4, <1>q DEF WithdrawLock, WithdrawRefused, Enqueue, TakeLock, Rollback, Goto, walletVars
    <2>5. QED
      BY <1>6, <2>1, <2>2, <2>3, <2>4 DEF WithdrawStep
  <1>7. ASSUME NEW o \in Op, NEW fault \in QueueFault, EnqueueFails(o, fault) PROVE Solvent'
    BY <1>7, <1>q DEF EnqueueFails, Goto, walletVars
  <1>8. ASSUME NEW o \in Op, Crash(o) PROVE Solvent'
    BY <1>8, <1>q DEF Crash, Goto, walletVars
  <1>f. ASSUME NEW o \in Op, StatementFails(o) \/ ReversalFails(o) PROVE Solvent'
    BY <1>f, <1>q DEF StatementFails, ReversalFails, Rollback, Goto, walletVars
  <1>9. CASE UNCHANGED vars
    BY <1>9, <1>s DEF vars, Solvent, NeverOverdrawn
  <1>10. QED
    BY <1>1, <1>2, <1>3, <1>4, <1>5, <1>6, <1>7, <1>8, <1>f, <1>9 DEF Next, Step

\* No wallet is ever overdrawn, however many calls debit it concurrently: the
\* check under the lock is enough, and an unlocked reversal cannot undo it.
THEOREM NoOverdraft == Spec => []NeverOverdrawn
  <1>1. Init => Solvent
    <2> SUFFICES ASSUME Init PROVE Solvent
      OBVIOUS
    <2>1. \A u \in User : balance[u] >= 0
      BY InitBalance
    <2>2. \A o \in Op : pc[o] # "reversal"
      BY DEF Init, Idle
    <2>3. QED
      BY <2>1, <2>2 DEF Solvent, NeverOverdrawn
  <1>2. Solvent => NeverOverdrawn
    BY DEF Solvent
  <1>3. QED
    BY <1>1, <1>2, InitTyped, NextTyped, SolventStep, PTL DEF Spec

-----------------------------------------------------------------------------
\* The statement.  A line that starts at the balance, or is a reversal, and
\* adds up, keeps the statement and the balance in agreement.
LEMMA AccountsAppend ==
    ASSUME NEW s \in Seq(Entry), NEW b \in Int, NEW e \in Entry,
           Accounts(s, b), Posted(e), e.type # "REVERSAL" => e.before = b
    PROVE  Accounts(Append(s, e), e.after)
  <1> DEFINE t == Append(s, e)
  <1>1. /\ t \in Seq(Entry) /\ Len(t) = Len(s) + 1 /\ Len(s) \in Nat
        /\ \A i \in 1..Len(s) : t[i] = s[i]
        /\ t[Len(s) + 1] = e
    BY AppendEntry
  <1> HIDE DEF t
  <1>2. e.after = Opening(t, Len(t) + 1)
    BY <1>1 DEF Opening
  <1>3. ASSUME NEW i \in 1..Len(t)
        PROVE  Posted(t[i]) /\ (t[i].type # "REVERSAL" => t[i].before = Opening(t, i))
    <2>1. Opening(t, i) = Opening(s, i)
      BY <1>1 DEF Opening
    <2>2. CASE i \in 1..Len(s)
      BY <1>1, <2>1, <2>2 DEF Accounts
    <2>3. CASE i = Len(s) + 1
      BY <1>1, <2>1, <2>3 DEF Accounts
    <2>4. QED
      BY <1>1, <2>2, <2>3
  <1>4. QED
    BY <1>2, <1>3 DEF Accounts, t

\* The same for the line that Post writes.
LEMMA AccountsPost ==
    ASSUME Typed, StatementChains, NEW u \in User, NEW a \in Amount,
           NEW type \in {"CREDIT", "TRANSFER_IN", "REVERSAL"} \cup Debits,
           NEW b \in Int, NEW c \in Int, NEW ref \in Reference,
           c = IF type \in Debits THEN b - a ELSE b + a,
           type # "REVERSAL" => b = balance[u]
    PROVE  Accounts(Post(u, type, a, b, c, ref), c)
  <1> DEFINE e == [type |-> type, amt |-> a, before |-> b, after |-> c, ref |-> ref]
  <1>1. e \in Entry /\ e.after = c /\ Posted(e) /\ (e.type # "REVERSAL" => e.before = balance[u])
    BY DEF Entry, Posted
  <1>2. ledger[u] \in Seq(Entry) /\ balance[u] \in Int /\ Accounts(ledger[u], balance[u])
    BY DEF Typed, TypeOK, StatementChains
  <1> HIDE DEF e
  <1>3. Accounts(Append(ledger[u], e), e.after)
    BY <1>1, <1>2, AccountsAppend
  <1>4. QED
    BY <1>1, <1>3 DEF Post, e

LEMMA ChainsStep == Typed /\ StatementChains /\ [Next]_vars => StatementChains'
  <1> SUFFICES ASSUME Typed, StatementChains, [Next]_vars PROVE StatementChains'
    OBVIOUS
  <1>n. \A a \in Amount : a \in Nat
    BY AmountAssumption
  <1>t. /\ balance \in [User -> Int]
        /\ ledger \in [User -> Seq(Entry)]
        /\ seen \in [Op -> [balance : Int, sent : Nat]]
    BY DEF Typed, TypeOK
  \* A step that moves no money.
  <1>q. ASSUME UNCHANGED <<balance, ledger>> PROVE StatementChains'
    BY <1>q DEF StatementChains, Accounts, Opening
  \* A step that writes one line.
  <1>p. ASSUME NEW u \in User, NEW a \in Amount, NEW b \in Int, NEW c \in Int,
               NEW type \in {"CREDIT", "TRANSFER_IN", "REVERSAL"} \cup Debits,
               NEW ref \in Reference,
               c = IF type \in Debits THEN b - a ELSE b + a,
               type # "REVERSAL" => b = balance[u],
               balance' = [balance EXCEPT ![u] = c],
               ledger' = [ledger EXCEPT ![u] = Post(u, type, a, b, c, ref)]
        PROVE  StatementChains'
    <2>1. Accounts(Post(u, type, a, b, c, ref), c)
      BY <1>p, AccountsPost
    <2>2. \A w \in User : Accounts(ledger'[w], balance'[w])
      <3> TAKE w \in User
      <3>1. CASE w = u
        BY <3>1, <2>1, <1>p, <1>t
      <3>2. CASE w # u
        BY <3>2, <1>p, <1>t DEF StatementChains
      <3>3. QED
        BY <3>1, <3>2
    <2>3. QED
      BY <2>2 DEF StatementChains
  <1>1. ASSUME NEW u \in User, OpenWallet(u) PROVE StatementChains'
    BY <1>1, <1>q DEF OpenWallet
  <1>2. ASSUME NEW u \in User, NEW s \in Status, SetStatus(u, s) PROVE StatementChains'
    BY <1>2, <1>q DEF SetStatus
  <1>3. ASSUME NEW o \in Op, Call(o) PROVE StatementChains'
    BY <1>3, <1>q DEF Call, BeginCredit, BeginTransfer, BeginWithdraw, Start, walletVars
  <1>4. ASSUME NEW o \in Op, CreditStep(o) PROVE StatementChains'
    <2>1. CASE CreditCommit(o)
      <3> DEFINE u == req[o].user
                 a == req[o].amt
                 ref == <<"CREDIT", req[o].ref>>
      <3>1. u \in User /\ a \in Amount /\ ref \in Reference
        BY <2>1 DEF CreditCommit, Typed, Shape, CreditRequest, Reference
      <3>2. /\ balance' = [balance EXCEPT ![u] = balance[u] + a]
            /\ ledger' = [ledger EXCEPT ![u] = Post(u, "CREDIT", a, balance[u], balance[u] + a, ref)]
        BY <2>1 DEF CreditCommit
      <3> HIDE DEF u, a, ref
      <3>3. balance[u] \in Int /\ balance[u] + a \in Int /\ "CREDIT" \notin Debits
        BY <3>1, <1>n, <1>t DEF Debits
      <3>4. QED
        BY <3>1, <3>2, <3>3, <1>p
    <2>2. CASE ~CreditCommit(o)
      BY <1>4, <2>2, <1>q DEF CreditStep, CreditSelect, CreditSelectNone, CreditInsert,
         CreditInsertConflict, CreditRefused, TakeLock, Rollback, walletVars
    <2>3. QED
      BY <2>1, <2>2
  <1>5. ASSUME NEW o \in Op, TransferStep(o) PROVE StatementChains'
    <2>1. CASE TransferCommit(o)
      <3> DEFINE u == req[o].user
                 v == req[o].peer
                 a == req[o].amt
                 su == Post(u, "TRANSFER_OUT", a, balance[u], balance[u] - a, <<"OUT", o>>)
                 sv == Post(v, "TRANSFER_IN", a, balance[v], balance[v] + a, <<"IN", o>>)
      <3>1. u \in User /\ v \in User /\ u # v /\ a \in Amount
        BY <2>1 DEF TransferCommit, Typed, Shape, TransferRequest
      <3>2. /\ balance' = [balance EXCEPT ![u] = @ - a, ![v] = @ + a]
            /\ ledger' = [ledger EXCEPT ![u] = su, ![v] = sv]
        BY <2>1 DEF TransferCommit
      <3>3. <<"OUT", o>> \in Reference /\ <<"IN", o>> \in Reference
        BY DEF Reference
      <3>4. /\ balance[u] \in Int /\ balance[u] - a \in Int
            /\ balance[v] \in Int /\ balance[v] + a \in Int
        <4> HIDE DEF u, v, a
        <4> QED BY <3>1, <1>n, <1>t
      <3>5. Accounts(su, balance[u] - a)
        <4> HIDE DEF u, v, a
        <4> QED BY <3>1, <3>3, <3>4, AccountsPost DEF Debits
      <3>6. Accounts(sv, balance[v] + a)
        <4> HIDE DEF u, v, a
        <4> QED BY <3>1, <3>3, <3>4, AccountsPost DEF Debits
      <3> HIDE DEF u, v, a, su, sv
      <3>7. \A w \in User : Accounts(ledger'[w], balance'[w])
        <4> TAKE w \in User
        <4>1. CASE w = u
          BY <4>1, <3>1, <3>2, <3>5, <1>t
        <4>2. CASE w = v
          BY <4>2, <3>1, <3>2, <3>6, <1>t
        <4>3. CASE w # u /\ w # v
          BY <4>3, <3>2, <1>t DEF StatementChains
        <4>4. QED
          BY <4>1, <4>2, <4>3
      <3>8. QED
        BY <3>7 DEF StatementChains
    <2>2. CASE ~TransferCommit(o)
      BY <1>5, <2>2, <1>q DEF TransferStep, TransferLockRow, TransferDeadlock, TransferRefused,
         TakeLock, Rollback, walletVars
    <2>3. QED
      BY <2>1, <2>2
  <1>6. ASSUME NEW o \in Op, WithdrawStep(o) PROVE StatementChains'
    <2> DEFINE u == req[o].user
               a == req[o].amt
    <2>0. /\ <<"WDR", o>> \in Reference /\ <<"REV", o>> \in Reference
          /\ pc[o] \in {"withdraw", "reversal"} => u \in User /\ a \in Amount
      BY DEF Reference, Typed, Shape, WithdrawRequest
    <2>1. CASE WithdrawCommit(o)
      <3>1. /\ pc[o] = "withdraw"
            /\ balance' = [balance EXCEPT ![u] = balance[u] - a]
            /\ ledger' = [ledger EXCEPT ![u] =
                            Post(u, "PAYOUT", a, balance[u], balance[u] - a, <<"WDR", o>>)]
        BY <2>1 DEF WithdrawCommit, Debit
      <3> HIDE DEF u, a
      <3>2. balance[u] \in Int /\ balance[u] - a \in Int
        BY <2>0, <3>1, <1>n, <1>t
      <3>3. QED
        BY <2>0, <3>1, <3>2, <1>p DEF Debits
    <2>2. CASE ReversalCommit(o)
      <3>1. /\ pc[o] = "reversal"
            /\ balance' = [balance EXCEPT ![u] = seen[o].balance + a]
            /\ ledger' = [ledger EXCEPT ![u] =
                            Post(u, "REVERSAL", a, seen[o].balance, seen[o].balance + a, <<"REV", o>>)]
        BY <2>2 DEF ReversalCommit, WriteBack
      <3> HIDE DEF u, a
      <3>2. seen[o].balance \in Int /\ seen[o].balance + a \in Int
        BY <2>0, <3>1, <1>n, <1>t
      <3>3. QED
        BY <2>0, <3>1, <3>2, <1>p DEF Debits
    <2>3. CASE WithdrawLock(o) \/ WithdrawRefused(o) \/ Enqueue(o) \/ ReversalRead(o)
      BY <2>3, <1>q DEF WithdrawLock, WithdrawRefused, Enqueue, ReversalRead, TakeLock, Rollback, walletVars
    <2>4. QED
      BY <1>6, <2>1, <2>2, <2>3 DEF WithdrawStep
  <1>7. ASSUME NEW o \in Op, NEW fault \in QueueFault, EnqueueFails(o, fault) PROVE StatementChains'
    BY <1>7, <1>q DEF EnqueueFails, walletVars
  <1>8. ASSUME NEW o \in Op, Crash(o) PROVE StatementChains'
    BY <1>8, <1>q DEF Crash, walletVars
  <1>f. ASSUME NEW o \in Op, StatementFails(o) \/ ReversalFails(o) PROVE StatementChains'
    BY <1>f, <1>q DEF StatementFails, ReversalFails, Rollback, walletVars
  <1>9. CASE UNCHANGED vars
    BY <1>9, <1>q DEF vars
  <1>10. QED
    BY <1>1, <1>2, <1>3, <1>4, <1>5, <1>6, <1>7, <1>8, <1>f, <1>9 DEF Next, Step

LEMMA InitChains == Init => StatementChains
  <1> SUFFICES ASSUME Init, NEW u \in User PROVE Accounts(ledger[u], balance[u])
    BY DEF StatementChains
  <1>1. balance[u] \in Nat
    BY InitBalance
  <1>2. CASE u \notin open
    <2>1. ledger[u] = <<>> /\ balance[u] = 0
      BY <1>2 DEF Init
    <2>2. QED
      BY <2>1 DEF Accounts, Opening
  <1>3. CASE u \in open
    <2> DEFINE e == [type |-> "CREDIT", amt |-> balance[u], before |-> 0,
                     after |-> balance[u], ref |-> <<"OPENING", u>>]
    <2>1. ledger[u] = <<e>>
      BY <1>3 DEF Init
    <2>2. Posted(e)
      BY <1>1 DEF Posted, Debits
    <2>3. Len(<<e>>) = 1 /\ <<e>>[1] = e
      OBVIOUS
    <2>4. QED
      BY <1>1, <2>1, <2>2, <2>3 DEF Accounts, Opening
  <1>4. QED
    BY <1>2, <1>3

\* The statement accounts for every wallet's balance at all times, except that
\* a reversal's line may not start where the line above it ended.
THEOREM StatementAccounts == Spec => []StatementChains
  BY InitChains, InitTyped, NextTyped, ChainsStep, PTL DEF Spec

-----------------------------------------------------------------------------
(* The account book, and what follows from it *)

\* Where a withdrawal is once its debit is in the statement.
Charged == {"enqueue", "reversing", "reversal",
            "done", "reversed", "unreversed", "crashed"}

\* A reference that the service made up for a call is in the statements only
\* when the call has passed the step that writes it: this is what makes the
\* references of one call new, which nothing in the code checks.
Marked ==
    \A o \in Op :
        /\ ~Unused(<<"OUT", o>>) => pc[o] = "done"
        /\ ~Unused(<<"IN", o>>) => pc[o] = "done"
        /\ ~Unused(<<"WDR", o>>) => pc[o] \in Charged /\ req[o].kind = "withdraw"
        /\ ~Unused(<<"REV", o>>) => pc[o] = "reversed"

NewLine(type, amt, before, after, ref) ==
    [type |-> type, amt |-> amt, before |-> before, after |-> after, ref |-> ref]

\* Line e is the new end of u's statement.
Writes(u, e) ==
    /\ e \in Entry /\ Posted(e)
    /\ e.type # "REVERSAL" => e.before = balance[u]
    /\ Unused(e.ref)
    /\ balance'[u] = e.after
    /\ ledger'[u] = Append(ledger[u], e)

Rests(u) == balance'[u] = balance[u] /\ ledger'[u] = ledger[u]

\* Wallets that rest and wallets that get one line each, under different
\* references, make a movement of the book.
LEMMA WritesMove ==
    ASSUME Typed, Typed', NEW e, \A u \in User : Rests(u) \/ Writes(u, e[u]),
           \A u, v \in User : u # v /\ ~Rests(u) /\ ~Rests(v) => e[u].ref # e[v].ref
    PROVE  Book!Move
  <1>1. balance' \in [User -> Int] /\ ledger' \in [User -> Seq(Entry)]
    BY DEF Typed, TypeOK
  <1>2. \A u \in User : Rests(u) \/ ledger'[u][Len(ledger'[u])] = e[u]
    <2> TAKE u \in User
    <2>1. CASE Rests(u)
      BY <2>1
    <2>2. CASE Writes(u, e[u])
      <3>1. ledger[u] \in Seq(Entry) /\ e[u] \in Entry /\ ledger'[u] = Append(ledger[u], e[u])
        BY <2>2 DEF Writes, Typed, TypeOK
      <3>2. QED
        BY <3>1, AppendEntry
    <2>3. QED
      BY <2>1, <2>2
  <1>3. \A u \in User : Book!Keep(u) <=> Rests(u)
    BY DEF Book!Keep, Rests
  <1>4. ASSUME NEW u \in User, Writes(u, e[u]) PROVE Book!Enter(u, e[u])
    <2>1. Book!Posted(e[u])
      BY <1>4 DEF Writes, Posted, Book!Posted
    <2>2. \A v \in User : e[u].ref \notin Book!References(ledger[v])
      BY <1>4 DEF Writes, Unused, Book!References
    <2>3. QED
      BY <1>4, <2>1, <2>2 DEF Writes, Book!Enter
  <1>5. \A u \in User : Book!Keep(u) \/ Book!Enter(u, ledger'[u][Len(ledger'[u])])
    BY <1>2, <1>3, <1>4
  <1>6. \A u, v \in User :
          u # v /\ ~Book!Keep(u) /\ ~Book!Keep(v) =>
             ledger'[u][Len(ledger'[u])].ref # ledger'[v][Len(ledger'[v])].ref
    BY <1>2, <1>3
  <1>7. QED
    BY <1>1, <1>5, <1>6 DEF Book!Move

\* A reference is in the new statement when it was in the old one or is the
\* new line's.
LEMMA NewReference ==
    ASSUME Typed, NEW u \in User, NEW e \in Entry, NEW ref, ledger' = [ledger EXCEPT ![u] = Append(@, e)],
           Unused(ref), ref # e.ref
    PROVE  Unused(ref)'
  <1> SUFFICES ASSUME NEW w \in User, NEW i \in 1..Len(ledger'[w]) PROVE ledger'[w][i].ref # ref
    BY DEF Unused
  <1>t. ledger \in [User -> Seq(Entry)]
    BY DEF Typed, TypeOK
  <1>1. CASE w # u
    BY <1>1, <1>t DEF Unused
  <1>2. CASE w = u
    <2>1. ledger[u] \in Seq(Entry) /\ ledger'[u] = Append(ledger[u], e)
      BY <1>t
    <2>2. /\ Len(ledger[u]) \in Nat /\ Len(ledger'[u]) = Len(ledger[u]) + 1
          /\ \A k \in 1..Len(ledger[u]) : ledger'[u][k] = ledger[u][k]
          /\ ledger'[u][Len(ledger[u]) + 1] = e
      BY <2>1, AppendEntry
    <2>3. CASE i \in 1..Len(ledger[u])
      BY <1>2, <2>2, <2>3 DEF Unused
    <2>4. CASE i = Len(ledger[u]) + 1
      BY <1>2, <2>2, <2>4
    <2>5. QED
      BY <1>2, <2>2, <2>3, <2>4
  <1>3. QED
    BY <1>1, <1>2

Moves == [Book!Move]_<<balance, ledger>>

\* A step that moves no money and takes call o forward.
LEMMA QuietStep ==
    ASSUME Typed, Marked, NEW o \in Op, NEW label,
           pc' = [pc EXCEPT ![o] = label], UNCHANGED <<balance, ledger>>,
           pc[o] \notin {"done", "reversed"},
           pc[o] \in Charged => label \in Charged /\ req'[o] = req[o],
           \A p \in Op : p # o => req'[p] = req[p]
    PROVE  Moves /\ Marked'
  <1>1. Moves
    BY DEF Moves
  <1>2. \A ref : Unused(ref)' <=> Unused(ref)
    BY DEF Unused
  <1>3. \A p \in Op : pc'[p] = IF p = o THEN label ELSE pc[p]
    BY DEF Typed, TypeOK
  <1>4. ASSUME NEW p \in Op
        PROVE  /\ ~Unused(<<"OUT", p>>)' => pc'[p] = "done"
               /\ ~Unused(<<"IN", p>>)' => pc'[p] = "done"
               /\ ~Unused(<<"WDR", p>>)' => pc'[p] \in Charged /\ req'[p].kind = "withdraw"
               /\ ~Unused(<<"REV", p>>)' => pc'[p] = "reversed"
    <2>1. CASE p = o
      BY <1>2, <1>3, <2>1 DEF Marked
    <2>2. CASE p # o
      <3>1. pc'[p] = pc[p] /\ req'[p] = req[p]
        BY <1>3, <2>2
      <3>2. QED
        BY <1>2, <3>1 DEF Marked
    <2>3. QED
      BY <2>1, <2>2
  <1>5. Marked'
    BY <1>4 DEF Marked
  <1>6. QED
    BY <1>1, <1>5

\* A step in which call o writes line e in u's statement.
LEMMA LineStep ==
    ASSUME Typed, Typed', Marked, NEW o \in Op, NEW label, NEW u \in User, NEW e \in Entry,
           pc' = [pc EXCEPT ![o] = label],
           balance' = [balance EXCEPT ![u] = e.after],
           ledger' = [ledger EXCEPT ![u] = Append(@, e)],
           Posted(e), e.type # "REVERSAL" => e.before = balance[u], Unused(e.ref),
           pc[o] \notin {"done", "reversed"}, pc[o] \in Charged => label \in Charged, req' = req,
           \A p \in Op : e.ref # <<"OUT", p>> /\ e.ref # <<"IN", p>>,
           \A p \in Op : e.ref = <<"WDR", p>> => p = o /\ label \in Charged /\ req[o].kind = "withdraw",
           \A p \in Op : e.ref = <<"REV", p>> => p = o /\ label = "reversed"
    PROVE  Moves /\ Marked'
  <1>t. balance \in [User -> Int] /\ ledger \in [User -> Seq(Entry)]
    BY DEF Typed, TypeOK
  <1>1. Moves
    <2> DEFINE es == [w \in User |-> e]
    <2>1. Writes(u, e)
      BY <1>t DEF Writes
    <2>2. \A w \in User : w # u => Rests(w)
      BY <1>t DEF Rests
    <2>3. \A w \in User : Rests(w) \/ Writes(w, es[w])
      BY <2>1, <2>2
    <2>4. \A w, x \in User : w # x /\ ~Rests(w) /\ ~Rests(x) => es[w].ref # es[x].ref
      BY <2>2
    <2> HIDE DEF es
    <2>5. Book!Move
      BY <2>3, <2>4, WritesMove
    <2>6. QED
      BY <2>5 DEF Moves
  <1>2. \A ref : Unused(ref) /\ ref # e.ref => Unused(ref)'
    BY NewReference
  <1>3. \A p \in Op : pc'[p] = IF p = o THEN label ELSE pc[p]
    BY DEF Typed, TypeOK
  <1>4. ASSUME NEW p \in Op
        PROVE  /\ ~Unused(<<"OUT", p>>)' => pc'[p] = "done"
               /\ ~Unused(<<"IN", p>>)' => pc'[p] = "done"
               /\ ~Unused(<<"WDR", p>>)' => pc'[p] \in Charged /\ req'[p].kind = "withdraw"
               /\ ~Unused(<<"REV", p>>)' => pc'[p] = "reversed"
    <2>1. /\ ~Unused(<<"OUT", p>>)' => ~Unused(<<"OUT", p>>)
          /\ ~Unused(<<"IN", p>>)' => ~Unused(<<"IN", p>>)
          /\ ~Unused(<<"WDR", p>>)' => ~Unused(<<"WDR", p>>) \/ e.ref = <<"WDR", p>>
          /\ ~Unused(<<"REV", p>>)' => ~Unused(<<"REV", p>>) \/ e.ref = <<"REV", p>>
      BY <1>2
    <2>2. QED
      BY <2>1, <1>3 DEF Marked
  <1>5. Marked'
    BY <1>4 DEF Marked
  <1>6. QED
    BY <1>1, <1>5

LEMMA WriteStep ==
    ASSUME Typed, Typed', Marked, NEW o \in Op, NEW label, NEW u \in User, NEW a \in Amount,
           NEW b \in Int, NEW c \in Int, NEW ref \in Reference,
           NEW type \in {"CREDIT", "TRANSFER_IN", "REVERSAL"} \cup Debits,
           c = IF type \in Debits THEN b - a ELSE b + a,
           pc' = [pc EXCEPT ![o] = label],
           balance' = [balance EXCEPT ![u] = c],
           ledger' = [ledger EXCEPT ![u] = Post(u, type, a, b, c, ref)],
           type # "REVERSAL" => b = balance[u], Unused(ref),
           pc[o] \notin {"done", "reversed"}, pc[o] \in Charged => label \in Charged, req' = req,
           \A p \in Op : ref # <<"OUT", p>> /\ ref # <<"IN", p>>,
           \A p \in Op : ref = <<"WDR", p>> => p = o /\ label \in Charged /\ req[o].kind = "withdraw",
           \A p \in Op : ref = <<"REV", p>> => p = o /\ label = "reversed"
    PROVE  Moves /\ Marked'
  <1> DEFINE e == NewLine(type, a, b, c, ref)
  <1>1. /\ e \in Entry /\ Posted(e) /\ e.type = type /\ e.before = b /\ e.after = c /\ e.ref = ref
        /\ Post(u, type, a, b, c, ref) = Append(ledger[u], e)
    BY DEF NewLine, Entry, Posted, Post
  <1> HIDE DEF e
  <1>2. ledger' = [ledger EXCEPT ![u] = Append(@, e)]
    BY <1>1
  <1>3. /\ balance' = [balance EXCEPT ![u] = e.after]
        /\ e.type # "REVERSAL" => e.before = balance[u]
        /\ Unused(e.ref)
        /\ \A p \in Op : e.ref # <<"OUT", p>> /\ e.ref # <<"IN", p>>
        /\ \A p \in Op : e.ref = <<"WDR", p>> => p = o /\ label \in Charged /\ req[o].kind = "withdraw"
        /\ \A p \in Op : e.ref = <<"REV", p>> => p = o /\ label = "reversed"
    BY <1>1
  <1>4. QED
    BY <1>1, <1>2, <1>3, LineStep, ZenonT(60)

\* A transfer writes two lines at once, under two references of its own.
LEMMA TransferMoves ==
    ASSUME Typed, Typed', Marked, NEW o \in Op, TransferCommit(o)
    PROVE  Moves /\ Marked'
  <1> DEFINE u == req[o].user
             v == req[o].peer
             a == req[o].amt
             eu == NewLine("TRANSFER_OUT", a, balance[u], balance[u] - a, <<"OUT", o>>)
             ev == NewLine("TRANSFER_IN", a, balance[v], balance[v] + a, <<"IN", o>>)
  <1>1. /\ u \in User /\ v \in User /\ u # v /\ a \in Amount
        /\ pc[o] = "transfer" /\ pc' = [pc EXCEPT ![o] = "done"] /\ req' = req
        /\ balance' = [balance EXCEPT ![u] = @ - a, ![v] = @ + a]
        /\ ledger' = [ledger EXCEPT
             ![u] = Post(u, "TRANSFER_OUT", a, balance[u], balance[u] - a, <<"OUT", o>>),
             ![v] = Post(v, "TRANSFER_IN", a, balance[v], balance[v] + a, <<"IN", o>>)]
    BY DEF TransferCommit, Typed, Shape, TransferRequest, Goto
  <1>t. /\ balance \in [User -> Int] /\ ledger \in [User -> Seq(Entry)]
        /\ pc \in [Op -> {Idle} \cup InFlight \cup Finished]
    BY DEF Typed, TypeOK
  <1> HIDE DEF u, v, a
  <1>2. /\ balance[u] \in Int /\ balance[u] - a \in Int
        /\ balance[v] \in Int /\ balance[v] + a \in Int
        /\ <<"OUT", o>> \in Reference /\ <<"IN", o>> \in Reference
        /\ "TRANSFER_OUT" \in Debits /\ "TRANSFER_IN" \notin Debits
    BY <1>1, <1>t, AmountAssumption DEF Reference, Debits
  <1>3. /\ eu \in Entry /\ Posted(eu) /\ eu.before = balance[u] /\ eu.after = balance[u] - a
        /\ eu.ref = <<"OUT", o>>
        /\ Post(u, "TRANSFER_OUT", a, balance[u], balance[u] - a, <<"OUT", o>>) = Append(ledger[u], eu)
    BY <1>1, <1>2 DEF NewLine, Entry, Posted, Post
  <1>4. /\ ev \in Entry /\ Posted(ev) /\ ev.before = balance[v] /\ ev.after = balance[v] + a
        /\ ev.ref = <<"IN", o>>
        /\ Post(v, "TRANSFER_IN", a, balance[v], balance[v] + a, <<"IN", o>>) = Append(ledger[v], ev)
    BY <1>1, <1>2 DEF NewLine, Entry, Posted, Post
  <1> HIDE DEF eu, ev
  <1>5. Unused(<<"OUT", o>>) /\ Unused(<<"IN", o>>)
    BY <1>1 DEF Marked
  <1>6. /\ balance'[u] = eu.after /\ balance'[v] = ev.after
        /\ ledger'[u] = Append(ledger[u], eu) /\ ledger'[v] = Append(ledger[v], ev)
        /\ \A w \in User : w # u /\ w # v => Rests(w)
    BY <1>1, <1>2, <1>3, <1>4, <1>t DEF Rests
  <1>7. Moves
    <2> DEFINE es == [w \in User |-> IF w = u THEN eu ELSE ev]
    <2>1. Writes(u, eu) /\ Writes(v, ev)
      BY <1>3, <1>4, <1>5, <1>6 DEF Writes
    <2>2. es[u] = eu /\ es[v] = ev
      BY <1>1
    <2> HIDE DEF es
    <2>3. \A w \in User : Rests(w) \/ Writes(w, es[w])
      BY <1>6, <2>1, <2>2
    <2>4. eu.ref # ev.ref
      BY <1>3, <1>4
    <2>5. \A w, x \in User : w # x /\ ~Rests(w) /\ ~Rests(x) => es[w].ref # es[x].ref
      BY <1>6, <2>2, <2>4
    <2>6. Book!Move
      BY <2>3, <2>5, WritesMove
    <2>7. QED
      BY <2>6 DEF Moves
  <1>8. ASSUME NEW ref, Unused(ref), ref # <<"OUT", o>>, ref # <<"IN", o>> PROVE Unused(ref)'
    <2> SUFFICES ASSUME NEW w \in User, NEW i \in 1..Len(ledger'[w]) PROVE ledger'[w][i].ref # ref
      BY DEF Unused
    <2>0. \A k \in 1..Len(ledger[w]) : ledger[w][k].ref # ref
      BY <1>8 DEF Unused
    <2>1. CASE Rests(w)
      BY <2>0, <2>1 DEF Rests
    <2>2. CASE ~Rests(w)
      <3>1. PICK e \in {eu, ev} : ledger'[w] = Append(ledger[w], e)
        BY <1>6, <2>2
      <3>2. e \in Entry /\ ledger[w] \in Seq(Entry) /\ e.ref # ref
        BY <1>3, <1>4, <1>8, <1>t, <3>1
      <3>3. /\ Len(ledger[w]) \in Nat /\ Len(ledger'[w]) = Len(ledger[w]) + 1
            /\ \A k \in 1..Len(ledger[w]) : ledger'[w][k] = ledger[w][k]
            /\ ledger'[w][Len(ledger[w]) + 1] = e
        BY <3>1, <3>2, AppendEntry
      <3>4. QED
        BY <2>0, <3>2, <3>3
    <2>3. QED
      BY <2>1, <2>2
  <1>9. \A p \in Op : pc'[p] = IF p = o THEN "done" ELSE pc[p]
    BY <1>1, <1>t
  <1>10. ASSUME NEW p \in Op
         PROVE  /\ ~Unused(<<"OUT", p>>)' => pc'[p] = "done"
                /\ ~Unused(<<"IN", p>>)' => pc'[p] = "done"
                /\ ~Unused(<<"WDR", p>>)' => pc'[p] \in Charged /\ req'[p].kind = "withdraw"
                /\ ~Unused(<<"REV", p>>)' => pc'[p] = "reversed"
    <2>1. /\ ~Unused(<<"OUT", p>>)' => ~Unused(<<"OUT", p>>) \/ p = o
          /\ ~Unused(<<"IN", p>>)' => ~Unused(<<"IN", p>>) \/ p = o
          /\ ~Unused(<<"WDR", p>>)' => ~Unused(<<"WDR", p>>)
          /\ ~Unused(<<"REV", p>>)' => ~Unused(<<"REV", p>>)
      BY <1>8
    <2>2. QED
      BY <1>1, <1>9, <2>1 DEF Marked, Charged
  <1>11. Marked'
    BY <1>10 DEF Marked
  <1>12. QED
    BY <1>7, <1>11

\* Every step of the wallets is a movement of the book or leaves it alone.
LEMMA BookStep == Typed /\ Typed' /\ Marked /\ [Next]_vars => Moves /\ Marked'
  <1> SUFFICES ASSUME Typed, Typed', Marked, [Next]_vars PROVE Moves /\ Marked'
    OBVIOUS
  <1>n. \A a \in Amount : a \in Nat
    BY AmountAssumption
  <1>t. /\ balance \in [User -> Int]
        /\ seen \in [Op -> [balance : Int, sent : Nat]]
    BY DEF Typed, TypeOK
  <1>r. ASSUME UNCHANGED <<balance, ledger, pc, req>> PROVE Moves /\ Marked'
    BY <1>r DEF Moves, Marked, Unused
  <1>1. ASSUME NEW u \in User, OpenWallet(u) PROVE Moves /\ Marked'
    BY <1>1, <1>r DEF OpenWallet
  <1>2. ASSUME NEW u \in User, NEW s \in Status, SetStatus(u, s) PROVE Moves /\ Marked'
    BY <1>2, <1>r DEF SetStatus
  <1>3. ASSUME NEW o \in Op, Call(o) PROVE Moves /\ Marked'
    <2>1. ASSUME NEW r, NEW label \in {"select", "locking", "lock"}, Start(o, r, label)
          PROVE  Moves /\ Marked'
      <3>1. /\ pc[o] = Idle /\ pc' = [pc EXCEPT ![o] = label] /\ req' = [req EXCEPT ![o] = r]
            /\ UNCHANGED <<balance, ledger>>
        BY <2>1 DEF Start, Goto, walletVars
      <3>2. \A p \in Op : p # o => req'[p] = req[p]
        BY <3>1 DEF Typed, TypeOK
      <3>3. pc[o] \notin Charged /\ pc[o] \notin {"done", "reversed"}
        BY <3>1 DEF Idle, Charged
      <3>4. QED
        BY <3>1, <3>2, <3>3, QuietStep
    <2>2. QED
      BY <1>3, <2>1 DEF Call, BeginCredit, BeginTransfer, BeginWithdraw
  <1>4. ASSUME NEW o \in Op, CreditStep(o) PROVE Moves /\ Marked'
    <2>1. CASE CreditCommit(o)
      <3> DEFINE u == req[o].user
                 a == req[o].amt
                 ref == <<"CREDIT", req[o].ref>>
      <3>1. u \in User /\ a \in Amount /\ ref \in Reference
        BY <2>1 DEF CreditCommit, Typed, Shape, CreditRequest, Reference
      <3>2. /\ pc[o] = "credit" /\ pc' = [pc EXCEPT ![o] = "done"]
            /\ balance' = [balance EXCEPT ![u] = balance[u] + a]
            /\ ledger' = [ledger EXCEPT ![u] = Post(u, "CREDIT", a, balance[u], balance[u] + a, ref)]
            /\ Unused(ref) /\ req' = req
        BY <2>1 DEF CreditCommit, Goto
      <3>3. \E label :
               /\ pc' = [pc EXCEPT ![o] = label]
               /\ pc[o] \notin {"done", "reversed"} /\ (pc[o] \in Charged => label \in Charged)
               /\ \A p \in Op : ref # <<"OUT", p>> /\ ref # <<"IN", p>>
               /\ \A p \in Op : ref = <<"WDR", p>> => p = o /\ label \in Charged /\ req[o].kind = "withdraw"
               /\ \A p \in Op : ref = <<"REV", p>> => p = o /\ label = "reversed"
        BY <3>2 DEF Charged
      <3> HIDE DEF u, a, ref
      <3>4. balance[u] \in Int /\ balance[u] + a \in Int /\ "CREDIT" \notin Debits
        BY <3>1, <1>n, <1>t DEF Debits
      <3>5. QED
        BY <3>1, <3>2, <3>3, <3>4, WriteStep
    <2>2. CASE ~CreditCommit(o)
      BY <1>4, <2>2, QuietStep DEF CreditStep, CreditSelect, CreditSelectNone, CreditInsert,
         CreditInsertConflict, CreditRefused, TakeLock, Rollback, Goto, walletVars, Charged
    <2>3. QED
      BY <2>1, <2>2
  <1>5. ASSUME NEW o \in Op, TransferStep(o) PROVE Moves /\ Marked'
    <2>1. CASE TransferCommit(o)
      BY <2>1, TransferMoves
    <2>2. CASE \E w \in User : TransferLockRow(o, w)
      BY <2>2, QuietStep DEF TransferLockRow, TakeLock, Goto, walletVars, Charged
    <2>3. CASE TransferDeadlock(o)
      <3>1. pc[o] = "locking"
        BY <2>3 DEF TransferDeadlock, OnWaitCycle, WaitsFor
      <3>2. QED
        BY <2>3, <3>1, QuietStep DEF TransferDeadlock, Rollback, Goto, walletVars, Charged
    <2>4. CASE TransferRefused(o)
      BY <2>4, QuietStep DEF TransferRefused, Rollback, Goto, walletVars, Charged
    <2>5. QED
      BY <1>5, <2>1, <2>2, <2>3, <2>4 DEF TransferStep
  <1>6. ASSUME NEW o \in Op, WithdrawStep(o) PROVE Moves /\ Marked'
    <2> DEFINE u == req[o].user
               a == req[o].amt
    <2>0. /\ <<"WDR", o>> \in Reference /\ <<"REV", o>> \in Reference
          /\ pc[o] \in {"withdraw", "reversal"} => u \in User /\ a \in Amount
      BY DEF Reference, Typed, Shape, WithdrawRequest
    <2>1. CASE WithdrawCommit(o)
      <3>1. /\ pc[o] = "withdraw" /\ pc' = [pc EXCEPT ![o] = "enqueue"] /\ req' = req
            /\ balance' = [balance EXCEPT ![u] = balance[u] - a]
            /\ ledger' = [ledger EXCEPT ![u] =
                            Post(u, "PAYOUT", a, balance[u], balance[u] - a, <<"WDR", o>>)]
        BY <2>1 DEF WithdrawCommit, Debit, Goto
      <3>2. /\ Unused(<<"WDR", o>>) /\ pc[o] \notin Charged /\ "enqueue" \in Charged
            /\ req[o].kind = "withdraw"
            /\ \A p \in Op : <<"WDR", o>> = <<"WDR", p>> => p = o
        BY <3>1 DEF Marked, Charged, Typed, Shape, WithdrawRequest
      <3> HIDE DEF u, a
      <3>3. balance[u] \in Int /\ balance[u] - a \in Int /\ "PAYOUT" \in Debits
        BY <2>0, <3>1, <1>n, <1>t DEF Debits
      <3>4. QED
        BY <2>0, <3>1, <3>2, <3>3, WriteStep
    <2>2. CASE ReversalCommit(o)
      <3>1. /\ pc[o] = "reversal" /\ pc' = [pc EXCEPT ![o] = "reversed"] /\ req' = req
            /\ balance' = [balance EXCEPT ![u] = seen[o].balance + a]
            /\ ledger' = [ledger EXCEPT ![u] =
                            Post(u, "REVERSAL", a, seen[o].balance, seen[o].balance + a, <<"REV", o>>)]
        BY <2>2 DEF ReversalCommit, WriteBack, Goto
      <3>2. /\ Unused(<<"REV", o>>) /\ "reversed" \in Charged
            /\ \A p \in Op : <<"REV", o>> = <<"REV", p>> => p = o
        BY <3>1 DEF Marked, Charged
      <3> HIDE DEF u, a
      <3>3. seen[o].balance \in Int /\ seen[o].balance + a \in Int /\ "REVERSAL" \notin Debits
        BY <2>0, <3>1, <1>n, <1>t DEF Debits
      <3>4. QED
        BY <2>0, <3>1, <3>2, <3>3, WriteStep
    <2>3. CASE WithdrawLock(o) \/ WithdrawRefused(o) \/ Enqueue(o) \/ ReversalRead(o)
      BY <2>3, QuietStep DEF WithdrawLock, WithdrawRefused, Enqueue, ReversalRead, TakeLock, Rollback,
         Goto, walletVars, Charged
    <2>4. QED
      BY <1>6, <2>1, <2>2, <2>3 DEF WithdrawStep
  <1>7. ASSUME NEW o \in Op, NEW fault \in QueueFault, EnqueueFails(o, fault) PROVE Moves /\ Marked'
    BY <1>7, QuietStep DEF EnqueueFails, Goto, walletVars, Charged
  <1>8. ASSUME NEW o \in Op, Crash(o) PROVE Moves /\ Marked'
    BY <1>8, QuietStep DEF Crash, Goto, walletVars, InFlight, Charged
  <1>f. ASSUME NEW o \in Op, StatementFails(o) \/ ReversalFails(o) PROVE Moves /\ Marked'
    BY <1>f, QuietStep DEF StatementFails, ReversalFails, Transacting, Rollback, Goto,
       walletVars, Charged
  <1>9. CASE UNCHANGED vars
    BY <1>9, <1>r DEF vars
  <1>10. QED
    BY <1>1, <1>2, <1>3, <1>4, <1>5, <1>6, <1>7, <1>8, <1>f, <1>9 DEF Next, Step

LEMMA InitBook == Init => Book!Init /\ Marked
  <1> SUFFICES ASSUME Init PROVE Book!Init /\ Marked
    OBVIOUS
  <1>1. Typed /\ StatementChains
    BY InitTyped, InitChains
  <1>2. /\ ledger = [u \in User |->
                   IF u \notin open THEN <<>>
                   ELSE <<[type |-> "CREDIT", amt |-> balance[u], before |-> 0,
                           after |-> balance[u], ref |-> <<"OPENING", u>>]>>]
    BY DEF Init
  <1>3. ASSUME NEW u \in User, NEW i \in 1..Len(ledger[u])
        PROVE  i = 1 /\ ledger[u][i].ref = <<"OPENING", u>>
    <2>1. CASE u \notin open
      BY <1>2, <1>3, <2>1
    <2>2. CASE u \in open
      <3> DEFINE e == [type |-> "CREDIT", amt |-> balance[u], before |-> 0,
                       after |-> balance[u], ref |-> <<"OPENING", u>>]
      <3>1. ledger[u] = <<e>> /\ e.ref = <<"OPENING", u>>
        BY <1>2, <2>2
      <3> HIDE DEF e
      <3>2. Len(<<e>>) = 1 /\ <<e>>[1] = e
        OBVIOUS
      <3>3. QED
        BY <1>3, <3>1, <3>2
    <2>3. QED
      BY <2>1, <2>2
  <1>4. Book!DistinctReferences
    BY <1>3 DEF Book!DistinctReferences
  <1>5. \A u \in User : Book!Accounts(ledger[u], balance[u])
    BY <1>1 DEF StatementChains, Accounts, Opening, Posted,
       Book!Accounts, Book!Opening, Book!Posted
  <1>6. Marked
    BY <1>3 DEF Marked, Unused
  <1>7. QED
    BY <1>1, <1>4, <1>5, <1>6 DEF Book!Init, Typed, TypeOK

\* The wallets implement the account book: whatever calls run together and
\* whichever of them crash, a balance changes only with the line that says so,
\* no line is changed or lost, and no reference is used again.
THEOREM BookImplemented == Spec => KeepsBook
  <1>1. Typed /\ Marked /\ [Next]_vars => [Book!Move]_<<balance, ledger>> /\ Typed' /\ Marked'
    BY NextTyped, BookStep DEF Moves
  <1>2. Init => Book!Init /\ Typed /\ Marked
    BY InitBook, InitTyped
  <1>3. QED
    BY <1>1, <1>2, PTL DEF Spec, KeepsBook, Book!Spec

-----------------------------------------------------------------------------
\* What every book kept as Ledger demands has, the wallets have.
BookLaws == INSTANCE LedgerProofs
              WITH Account <- User, Line <- Entry, Outgoing <- Debits,
                   Correction <- {"REVERSAL"}, lines <- ledger

\* No reference is in the statements twice, over all wallets: a credit that is
\* retried and calls that race bring their money at most once.
THEOREM ReferencesAreUnique == Spec => []ReferenceUnique
  <1>1. Book!Init => BookLaws!Init
    BY DEF Book!Init, Book!Accounts, Book!Opening, Book!Posted, Book!DistinctReferences,
       BookLaws!Init, BookLaws!Accounts, BookLaws!Opening, BookLaws!Posted, BookLaws!DistinctReferences
  <1>2. [Book!Move]_<<balance, ledger>> => [BookLaws!Move]_<<balance, ledger>>
    BY DEF Book!Move, Book!Keep, Book!Enter, Book!Posted, Book!References,
       BookLaws!Move, BookLaws!Keep, BookLaws!Enter, BookLaws!Posted, BookLaws!References
  <1>3. Spec => BookLaws!Spec
    BY <1>1, <1>2, BookImplemented, PTL DEF KeepsBook, Book!Spec, BookLaws!Spec
  <1>4. BookLaws!Spec => []BookLaws!Kept
    BY BookLaws!BookIsKept
  <1>5. BookLaws!Kept => ReferenceUnique
    BY DEF BookLaws!Kept, BookLaws!DistinctReferences, ReferenceUnique
  <1>6. QED
    BY <1>3, <1>4, <1>5, PTL

-----------------------------------------------------------------------------
\* The columns.  A step that writes no balance and no total keeps them as they
\* are; once a reversal is in the statement nothing more is promised.
LEMMA ReconciledStep == Typed /\ Reconciled /\ [Next]_vars => Reconciled'
  <1> SUFFICES ASSUME Typed, Reconciled, [Next]_vars PROVE Reconciled'
    OBVIOUS
  <1>n. \A a \in Amount : a \in Nat
    BY AmountAssumption
  <1>t. /\ balance \in [User -> Int] /\ received \in [User -> Nat] /\ sent \in [User -> Nat]
        /\ ledger \in [User -> Seq(Entry)]
    BY DEF Typed, TypeOK
  <1>q. ASSUME UNCHANGED <<balance, received, sent, ledger>> PROVE Reconciled'
    BY <1>q DEF Reconciled, NoReversal
  \* A new line hides none of the old ones.
  <1>p. ASSUME NEW u \in User, NEW type, NEW a, NEW b, NEW c, NEW ref,
               Post(u, type, a, b, c, ref) \in Seq(Entry),
               [type |-> type, amt |-> a, before |-> b, after |-> c, ref |-> ref] \in Entry
        PROVE  NoReversal(Post(u, type, a, b, c, ref)) => NoReversal(ledger[u]) /\ type # "REVERSAL"
    <2> DEFINE e == [type |-> type, amt |-> a, before |-> b, after |-> c, ref |-> ref]
               s == Append(ledger[u], e)
    <2>1. e.type = type /\ s = Post(u, type, a, b, c, ref) /\ e \in Entry
      BY <1>p DEF Post
    <2> HIDE DEF e
    <2>2. /\ Len(ledger[u]) \in Nat /\ Len(s) = Len(ledger[u]) + 1
          /\ \A k \in 1..Len(ledger[u]) : s[k] = ledger[u][k]
          /\ s[Len(ledger[u]) + 1] = e
      BY <2>1, <1>t, AppendEntry
    <2> HIDE DEF s
    <2>3. SUFFICES ASSUME NoReversal(s) PROVE NoReversal(ledger[u]) /\ type # "REVERSAL"
      BY <2>1
    <2>4. \A k \in 1..Len(ledger[u]) : k \in 1..Len(s) /\ ledger[u][k].type # "REVERSAL"
      BY <2>2, <2>3 DEF NoReversal
    <2>5. Len(ledger[u]) + 1 \in 1..Len(s)
      BY <2>2
    <2>6. QED
      BY <2>1, <2>2, <2>3, <2>4, <2>5 DEF NoReversal
  <1>1. ASSUME NEW u \in User, OpenWallet(u) PROVE Reconciled'
    BY <1>1, <1>q DEF OpenWallet
  <1>2. ASSUME NEW u \in User, NEW s \in Status, SetStatus(u, s) PROVE Reconciled'
    BY <1>2, <1>q DEF SetStatus
  <1>3. ASSUME NEW o \in Op, Call(o) PROVE Reconciled'
    BY <1>3, <1>q DEF Call, BeginCredit, BeginTransfer, BeginWithdraw, Start, walletVars
  <1>4. ASSUME NEW o \in Op, CreditStep(o) PROVE Reconciled'
    <2>1. CASE CreditCommit(o)
      <3> DEFINE u == req[o].user
                 a == req[o].amt
                 ref == <<"CREDIT", req[o].ref>>
      <3>1. u \in User /\ a \in Amount /\ a \in Nat /\ ref \in Reference
        BY <2>1, <1>n DEF CreditCommit, Typed, Shape, CreditRequest, Reference
      <3>2. /\ balance' = [balance EXCEPT ![u] = balance[u] + a]
            /\ received' = [received EXCEPT ![u] = @ + a]
            /\ sent' = sent
            /\ ledger' = [ledger EXCEPT ![u] = Post(u, "CREDIT", a, balance[u], balance[u] + a, ref)]
        BY <2>1 DEF CreditCommit
      <3> HIDE DEF u, a, ref
      <3>3. balance[u] \in Int /\ balance[u] + a \in Int
        BY <3>1, <1>t
      <3>4. NoReversal(Post(u, "CREDIT", a, balance[u], balance[u] + a, ref)) => NoReversal(ledger[u])
        BY <3>1, <3>3, <1>p, PostType DEF Typed, Entry
      <3>5. QED
        BY <3>1, <3>2, <3>3, <3>4, <1>t DEF Reconciled
    <2>2. CASE ~CreditCommit(o)
      BY <1>4, <2>2, <1>q DEF CreditStep, CreditSelect, CreditSelectNone, CreditInsert,
         CreditInsertConflict, CreditRefused, TakeLock, Rollback, walletVars
    <2>3. QED
      BY <2>1, <2>2
  <1>5. ASSUME NEW o \in Op, TransferStep(o) PROVE Reconciled'
    <2>1. CASE TransferCommit(o)
      <3> DEFINE u == req[o].user
                 v == req[o].peer
                 a == req[o].amt
                 su == Post(u, "TRANSFER_OUT", a, balance[u], balance[u] - a, <<"OUT", o>>)
                 sv == Post(v, "TRANSFER_IN", a, balance[v], balance[v] + a, <<"IN", o>>)
      <3>1. /\ u \in User /\ v \in User /\ u # v /\ a \in Amount /\ a \in Nat
            /\ <<"OUT", o>> \in Reference /\ <<"IN", o>> \in Reference
        BY <2>1, <1>n DEF TransferCommit, Typed, Shape, TransferRequest, Reference
      <3>2. /\ balance' = [balance EXCEPT ![u] = @ - a, ![v] = @ + a]
            /\ sent' = [sent EXCEPT ![u] = @ + a]
            /\ received' = [received EXCEPT ![v] = @ + a]
            /\ ledger' = [ledger EXCEPT ![u] = su, ![v] = sv]
        BY <2>1 DEF TransferCommit
      <3>3. /\ balance[u] \in Int /\ balance[u] - a \in Int
            /\ balance[v] \in Int /\ balance[v] + a \in Int
        <4> HIDE DEF u, v, a
        <4> QED BY <3>1, <1>t
      <3>4. NoReversal(su) => NoReversal(ledger[u])
        <4> HIDE DEF u, v, a
        <4> QED BY <3>1, <3>3, <1>p, PostType DEF Typed, Entry, Debits
      <3>5. NoReversal(sv) => NoReversal(ledger[v])
        <4> HIDE DEF u, v, a
        <4> QED BY <3>1, <3>3, <1>p, PostType DEF Typed, Entry
      <3> HIDE DEF u, v, a, su, sv
      <3>6. ASSUME NEW w \in User, NoReversal(ledger'[w]) PROVE balance'[w] = received'[w] - sent'[w]
        <4>1. NoReversal(ledger[w])
          BY <3>1, <3>2, <3>4, <3>5, <3>6, <1>t
        <4>2. balance[w] = received[w] - sent[w]
          BY <4>1 DEF Reconciled
        <4>3. /\ balance[w] \in Int /\ received[w] \in Int /\ sent[w] \in Int
              /\ balance'[w] = IF w = u THEN balance[w] - a ELSE IF w = v THEN balance[w] + a ELSE balance[w]
              /\ sent'[w] = IF w = u THEN sent[w] + a ELSE sent[w]
              /\ received'[w] = IF w = v THEN received[w] + a ELSE received[w]
          BY <3>1, <3>2, <1>t
        <4>4. QED
          BY <3>1, <4>2, <4>3
      <3>7. QED
        BY <3>6 DEF Reconciled
    <2>2. CASE ~TransferCommit(o)
      BY <1>5, <2>2, <1>q DEF TransferStep, TransferLockRow, TransferDeadlock, TransferRefused,
         TakeLock, Rollback, walletVars
    <2>3. QED
      BY <2>1, <2>2
  <1>6. ASSUME NEW o \in Op, WithdrawStep(o) PROVE Reconciled'
    <2> DEFINE u == req[o].user
               a == req[o].amt
    <2>0. /\ <<"WDR", o>> \in Reference /\ <<"REV", o>> \in Reference
          /\ pc[o] \in {"withdraw", "reversal"} => u \in User /\ a \in Amount /\ a \in Nat
      BY <1>n DEF Reference, Typed, Shape, WithdrawRequest
    <2>1. CASE WithdrawCommit(o)
      <3>1. /\ pc[o] = "withdraw"
            /\ balance' = [balance EXCEPT ![u] = balance[u] - a]
            /\ sent' = [sent EXCEPT ![u] = @ + a]
            /\ received' = received
            /\ ledger' = [ledger EXCEPT ![u] =
                            Post(u, "PAYOUT", a, balance[u], balance[u] - a, <<"WDR", o>>)]
        BY <2>1 DEF WithdrawCommit, Debit
      <3> HIDE DEF u, a
      <3>2. balance[u] \in Int /\ balance[u] - a \in Int
        BY <2>0, <3>1, <1>t
      <3>3. NoReversal(Post(u, "PAYOUT", a, balance[u], balance[u] - a, <<"WDR", o>>)) => NoReversal(ledger[u])
        BY <2>0, <3>1, <3>2, <1>p, PostType DEF Typed, Entry, Debits
      <3>4. QED
        BY <2>0, <3>1, <3>2, <3>3, <1>t DEF Reconciled
    <2>2. CASE ReversalCommit(o)
      <3>1. /\ pc[o] = "reversal"
            /\ balance' = [balance EXCEPT ![u] = seen[o].balance + a]
            /\ received' = received
            /\ \A w \in User : w # u => sent'[w] = sent[w]
            /\ ledger' = [ledger EXCEPT ![u] =
                            Post(u, "REVERSAL", a, seen[o].balance, seen[o].balance + a, <<"REV", o>>)]
        BY <2>2, <1>t DEF ReversalCommit, WriteBack
      <3> HIDE DEF u, a
      <3>2. seen[o].balance \in Int /\ seen[o].balance + a \in Int
        BY <2>0, <3>1 DEF Typed, TypeOK
      <3>3. ~NoReversal(Post(u, "REVERSAL", a, seen[o].balance, seen[o].balance + a, <<"REV", o>>))
        BY <2>0, <3>1, <3>2, <1>p, PostType DEF Typed, Entry
      <3>4. QED
        BY <2>0, <3>1, <3>3, <1>t DEF Reconciled
    <2>3. CASE WithdrawLock(o) \/ WithdrawRefused(o) \/ Enqueue(o) \/ ReversalRead(o)
      BY <2>3, <1>q DEF WithdrawLock, WithdrawRefused, Enqueue, ReversalRead, TakeLock, Rollback, walletVars
    <2>4. QED
      BY <1>6, <2>1, <2>2, <2>3 DEF WithdrawStep
  <1>7. ASSUME NEW o \in Op, NEW fault \in QueueFault, EnqueueFails(o, fault) PROVE Reconciled'
    BY <1>7, <1>q DEF EnqueueFails, walletVars
  <1>8. ASSUME NEW o \in Op, Crash(o) PROVE Reconciled'
    BY <1>8, <1>q DEF Crash, walletVars
  <1>f. ASSUME NEW o \in Op, StatementFails(o) \/ ReversalFails(o) PROVE Reconciled'
    BY <1>f, <1>q DEF StatementFails, ReversalFails, Rollback, walletVars
  <1>9. CASE UNCHANGED vars
    BY <1>9, <1>q DEF vars
  <1>10. QED
    BY <1>1, <1>2, <1>3, <1>4, <1>5, <1>6, <1>7, <1>8, <1>f, <1>9 DEF Next, Step

\* The columns that operations update separately agree: a wallet that no
\* reversal has touched holds what it ever received less what it ever sent.
THEOREM ColumnsReconcile == Spec => []Reconciled
  <1>1. Init => Reconciled
    <2> SUFFICES ASSUME Init, NEW u \in User PROVE balance[u] = received[u] - sent[u]
      BY DEF Reconciled
    <2>1. balance[u] \in Nat /\ received = balance /\ sent[u] = 0
      BY InitBalance DEF Init
    <2>2. QED
      BY <2>1
  <1>2. QED
    BY <1>1, InitTyped, NextTyped, ReconciledStep, PTL DEF Spec

-----------------------------------------------------------------------------
\* What a withdrawal's caller is told.  From the debit on the debit is in the
\* statement, and no movement removes it.
Accountable ==
    \A o \in Op :
        /\ \/ o \in jobs
           \/ pc[o] \in {"enqueue", "reversing", "reversal", "reversed"}
           => Debited(o)
        /\ pc[o] = "done" /\ req[o].kind = "withdraw" => o \in jobs
        /\ pc[o] = "reversed" => Reversed(o)

\* A movement of the book leaves every line where it is.
LEMMA LinesStay ==
    ASSUME Typed, Moves
    PROVE  \A u \in User : \A i \in 1..Len(ledger[u]) :
              i \in 1..Len(ledger'[u]) /\ ledger'[u][i] = ledger[u][i]
  <1>1. ASSUME NEW u \in User, NEW i \in 1..Len(ledger[u]), Book!Move
        PROVE  i \in 1..Len(ledger'[u]) /\ ledger'[u][i] = ledger[u][i]
    <2>1. CASE Book!Keep(u)
      BY <1>1, <2>1 DEF Book!Keep
    <2>2. CASE ~Book!Keep(u)
      <3>1. PICK e \in Entry : ledger'[u] = Append(ledger[u], e)
        BY <1>1, <2>2 DEF Book!Move, Book!Enter
      <3>2. ledger[u] \in Seq(Entry)
        BY DEF Typed, TypeOK
      <3>3. /\ Len(ledger[u]) \in Nat /\ Len(ledger'[u]) = Len(ledger[u]) + 1
            /\ ledger'[u][i] = ledger[u][i]
        BY <3>1, <3>2, AppendEntry
      <3>4. QED
        BY <3>3
    <2>3. QED
      BY <2>1, <2>2
  <1>2. QED
    BY <1>1 DEF Moves

LEMMA AccountableStep == Typed /\ Moves /\ Accountable /\ [Next]_vars => Accountable'
  <1> SUFFICES ASSUME Typed, Moves, Accountable, [Next]_vars PROVE Accountable'
    OBVIOUS
  <1>t. pc \in [Op -> {Idle} \cup InFlight \cup Finished] /\ jobs \subseteq Op
    BY DEF Typed, TypeOK
  <1>d. \A o \in Op : Debited(o) => Debited(o)'
    BY LinesStay DEF Debited
  <1>v. \A o \in Op : Reversed(o) => Reversed(o)'
    BY LinesStay DEF Reversed
  \* Call o goes to another place, its request and the queue stay as they are.
  <1>q. ASSUME NEW o \in Op, NEW label, UNCHANGED <<req, jobs>>, pc' = [pc EXCEPT ![o] = label],
               label \in {"enqueue", "reversing", "reversal", "reversed"} => Debited(o)',
               label = "done" => req[o].kind # "withdraw",
               label = "reversed" => Reversed(o)'
        PROVE  Accountable'
    BY <1>q, <1>t, <1>d, <1>v DEF Accountable
  <1>1. ASSUME NEW u \in User, OpenWallet(u) PROVE Accountable'
    BY <1>1, <1>d, <1>v DEF OpenWallet, Accountable
  <1>2. ASSUME NEW u \in User, NEW s \in Status, SetStatus(u, s) PROVE Accountable'
    BY <1>2, <1>d, <1>v DEF SetStatus, Accountable
  <1>3. ASSUME NEW o \in Op, Call(o) PROVE Accountable'
    <2>1. ASSUME NEW r, NEW label \in {"select", "locking", "lock"}, Start(o, r, label)
          PROVE  Accountable'
      <3>1. /\ pc[o] = Idle /\ pc' = [pc EXCEPT ![o] = label] /\ req' = [req EXCEPT ![o] = r]
            /\ jobs' = jobs /\ ledger' = ledger
        BY <2>1 DEF Start, Goto, walletVars
      <3>2. \A p \in Op : p # o => pc'[p] = pc[p] /\ req'[p] = req[p]
        BY <3>1, <1>t DEF Typed, TypeOK
      <3>3. pc'[o] = label
        BY <3>1, <1>t
      <3>4. QED
        BY <2>1, <3>1, <3>2, <3>3, <1>d, <1>v DEF Accountable
    <2>2. QED
      BY <1>3, <2>1 DEF Call, BeginCredit, BeginTransfer, BeginWithdraw
  <1>4. ASSUME NEW o \in Op, CreditStep(o) PROVE Accountable'
    <2>1. CASE CreditCommit(o)
      <3>1. req[o].kind # "withdraw"
        BY <2>1 DEF CreditCommit, Typed, Shape, CreditRequest
      <3>2. QED
        BY <2>1, <3>1, <1>q DEF CreditCommit, Goto
    <2>2. CASE ~CreditCommit(o)
      BY <1>4, <2>2, <1>q DEF CreditStep, CreditSelect, CreditSelectNone, CreditInsert,
         CreditInsertConflict, CreditRefused, TakeLock, Rollback, Goto
    <2>3. QED
      BY <2>1, <2>2
  <1>5. ASSUME NEW o \in Op, TransferStep(o) PROVE Accountable'
    <2>1. CASE TransferCommit(o)
      <3>1. req[o].kind # "withdraw"
        BY <2>1 DEF TransferCommit, Typed, Shape, TransferRequest
      <3>2. QED
        BY <2>1, <3>1, <1>q DEF TransferCommit, Goto
    <2>2. CASE \E w \in User : TransferLockRow(o, w)
      BY <2>2, <1>q DEF TransferLockRow, TakeLock, Goto
    <2>3. CASE TransferDeadlock(o) \/ TransferRefused(o)
      BY <2>3, <1>q DEF TransferDeadlock, TransferRefused, Rollback, Goto
    <2>4. QED
      BY <1>5, <2>1, <2>2, <2>3 DEF TransferStep
  <1>6. ASSUME NEW o \in Op, WithdrawStep(o) PROVE Accountable'
    <2> DEFINE u == req[o].user
               a == req[o].amt
    <2>0. /\ <<"WDR", o>> \in Reference /\ <<"REV", o>> \in Reference
          /\ pc[o] \in {"withdraw", "reversal"} => u \in User /\ a \in Amount /\ a \in Nat
      BY AmountAssumption DEF Reference, Typed, Shape, WithdrawRequest
    \* The line that the step writes is in the new statement.
    <2>p. ASSUME u \in User, a \in Amount, NEW b \in Int, NEW c \in Int, NEW ref \in Reference,
                 NEW type \in {"REVERSAL", "PAYOUT"},
                 ledger' = [ledger EXCEPT ![u] = Post(u, type, a, b, c, ref)]
          PROVE  \E i \in 1..Len(ledger'[u]) : ledger'[u][i].ref = ref
      <3> DEFINE e == [type |-> type, amt |-> a, before |-> b, after |-> c, ref |-> ref]
      <3> HIDE DEF u, a
      <3>1. e \in Entry /\ e.ref = ref
        BY <2>p DEF Entry, Debits
      <3>2. ledger[u] \in Seq(Entry) /\ ledger'[u] = Append(ledger[u], e)
        BY <2>p DEF Post, Typed, TypeOK
      <3> HIDE DEF e
      <3>3. QED
        BY <3>1, <3>2, AppendEntry
    <2>1. CASE WithdrawCommit(o)
      <3>1. /\ pc[o] = "withdraw" /\ pc' = [pc EXCEPT ![o] = "enqueue"]
            /\ UNCHANGED <<req, jobs>>
            /\ ledger' = [ledger EXCEPT ![u] =
                            Post(u, "PAYOUT", a, balance[u], balance[u] - a, <<"WDR", o>>)]
        BY <2>1 DEF WithdrawCommit, Debit, Goto
      <3>2. balance[u] \in Int /\ balance[u] - a \in Int
        <4> HIDE DEF u, a
        <4> QED BY <2>0, <3>1 DEF Typed, TypeOK
      <3>3. \E i \in 1..Len(ledger'[u]) : ledger'[u][i].ref = <<"WDR", o>>
        BY <2>0, <2>p, <3>1, <3>2
      <3>4. Debited(o)'
        BY <2>0, <3>1, <3>3 DEF Debited
      <3>5. QED
        BY <3>1, <3>4, <1>q
    <2>2. CASE ReversalCommit(o)
      <3>1. /\ pc[o] = "reversal" /\ pc' = [pc EXCEPT ![o] = "reversed"]
            /\ UNCHANGED <<req, jobs>>
            /\ ledger' = [ledger EXCEPT ![u] =
                            Post(u, "REVERSAL", a, seen[o].balance, seen[o].balance + a, <<"REV", o>>)]
        BY <2>2 DEF ReversalCommit, WriteBack, Goto
      <3>2. seen[o].balance \in Int /\ seen[o].balance + a \in Int
        <4> HIDE DEF u, a
        <4> QED BY <2>0, <3>1 DEF Typed, TypeOK
      <3>3. \E i \in 1..Len(ledger'[u]) : ledger'[u][i].ref = <<"REV", o>>
        BY <2>0, <2>p, <3>1, <3>2
      <3>4. Reversed(o)'
        BY <2>0, <3>1, <3>3 DEF Reversed
      <3>5. Debited(o)'
        BY <3>1, <1>d DEF Accountable
      <3>6. QED
        BY <3>1, <3>4, <3>5, <1>q
    <2>3. CASE ReversalRead(o)
      <3>1. Debited(o)'
        BY <2>3, <1>d DEF ReversalRead, Accountable
      <3>2. QED
        BY <2>3, <3>1, <1>q DEF ReversalRead, Goto
    <2>4. CASE Enqueue(o)
      <3>1. Debited(o)'
        BY <2>4, <1>d DEF Enqueue, Accountable
      <3>2. \A p \in Op : pc'[p] = IF p = o THEN "done" ELSE pc[p]
        BY <2>4, <1>t DEF Enqueue, Goto
      <3>3. QED
        BY <2>4, <3>1, <3>2, <1>d, <1>v DEF Enqueue, Accountable
    <2>5. CASE WithdrawLock(o) \/ WithdrawRefused(o)
      BY <2>5, <1>q DEF WithdrawLock, WithdrawRefused, TakeLock, Rollback, Goto
    <2>6. QED
      BY <1>6, <2>1, <2>2, <2>3, <2>4, <2>5 DEF WithdrawStep
  <1>7. ASSUME NEW o \in Op, NEW fault \in QueueFault, EnqueueFails(o, fault) PROVE Accountable'
    <2>1. Debited(o)'
      BY <1>7, <1>d DEF EnqueueFails, Accountable
    <2>2. \A p \in Op : pc'[p] = IF p = o THEN "reversing" ELSE pc[p]
      BY <1>7, <1>t DEF EnqueueFails, Goto
    <2>3. jobs \subseteq jobs' /\ jobs' \subseteq jobs \cup {o} /\ req' = req
      BY <1>7 DEF EnqueueFails
    <2>4. QED
      BY <2>1, <2>2, <2>3, <1>d, <1>v DEF Accountable
  <1>8. ASSUME NEW o \in Op, Crash(o) PROVE Accountable'
    BY <1>8, <1>q DEF Crash, Goto
  <1>f. ASSUME NEW o \in Op, StatementFails(o) \/ ReversalFails(o) PROVE Accountable'
    BY <1>f, <1>q DEF StatementFails, ReversalFails, Rollback, Goto, Accountable
  <1>9. CASE UNCHANGED vars
    BY <1>9, <1>d, <1>v DEF vars, Accountable
  <1>10. QED
    BY <1>1, <1>2, <1>3, <1>4, <1>5, <1>6, <1>7, <1>8, <1>f, <1>9 DEF Next, Step

\* Wherever the queue, a statement or the reversal fails, and whatever runs
\* beside it: queued means debited and in the queue, a refusal means that nothing
\* was debited, and a debit without a job or a reversal is one whose call is
\* still at it, crashed, or could not write the reversal.
THEOREM WithdrawalTold == Spec => []WithdrawalOutcome
  <1>1. Init => Accountable
    BY DEF Init, Accountable, Idle
  <1>2. Typed /\ Marked /\ Accountable => WithdrawalOutcome
    <2> SUFFICES ASSUME Typed, Marked, Accountable, NEW o \in Op
                 PROVE  /\ pc[o] = "done" /\ req[o].kind = "withdraw" => o \in jobs
                        /\ pc[o] \in {Idle, "failed"} => ~Debited(o)
                        /\ o \in jobs \/ Reversed(o) => Debited(o)
                        /\ Reversed(o) <=> pc[o] = "reversed"
                        /\ Debited(o) => \/ o \in jobs
                                         \/ Reversed(o)
                                         \/ pc[o] \in {"enqueue", "reversing", "reversal",
                                                       "unreversed", "crashed"}
      BY DEF WithdrawalOutcome
    <2>1. Debited(o) => pc[o] \in Charged /\ req[o].kind = "withdraw"
      BY DEF Debited, Unused, Marked
    <2>2. Reversed(o) <=> pc[o] = "reversed"
      BY DEF Reversed, Unused, Marked, Accountable
    <2>3. QED
      BY <2>1, <2>2 DEF Accountable, Charged, Idle
  <1>3. Typed /\ Marked /\ Accountable /\ [Next]_vars => Typed' /\ Marked' /\ Accountable'
    BY NextTyped, BookStep, AccountableStep
  <1>4. QED
    BY <1>1, <1>2, <1>3, InitTyped, InitBook, PTL DEF Spec

-----------------------------------------------------------------------------
(* Sums: SumFunctionOnSet over a finite set, whatever order it takes it in *)

\* A set that holds 0, and with a number the next, holds them all.
LEMMA Counting ==
    ASSUME NEW S, 0 \in S, \A n \in Nat : n \in S => n + 1 \in S
    PROVE  \A n \in Nat : n \in S
  <1> SUFFICES ASSUME Nat \ S # {} PROVE FALSE
    OBVIOUS
  <1> DEFINE Less == OpToRel(<, Nat)
  <1>1. IsWellFoundedOn(Less, Nat)
    BY NatLessThanWellFounded
  <1>2. \A m \in Nat : <<m, m + 1>> \in Less
    BY DEF OpToRel
  <1> HIDE DEF Less
  <1>3. PICK n \in Nat \ S : \A m \in Nat \ S : <<m, n>> \notin Less
    BY <1>1, WFMin
  <1>4. n - 1 \in Nat /\ n - 1 + 1 = n
    OBVIOUS
  <1>5. n - 1 \in S
    BY <1>2, <1>3, <1>4
  <1>6. QED
    BY <1>3, <1>4, <1>5

\* A collection that holds a set whenever it holds what is strictly inside it
\* holds every subset of a finite set.
LEMMA Building ==
    ASSUME NEW S, IsFiniteSet(S), NEW C,
           \A s \in SUBSET S : (\A t \in SUBSET s : t # s => t \in C) => s \in C
    PROVE  \A s \in SUBSET S : s \in C
  <1> SUFFICES ASSUME (SUBSET S) \ C # {} PROVE FALSE
    OBVIOUS
  <1> DEFINE T == (SUBSET S) \ C
  <1>1. IsWellFoundedOn(StrictSubsetOrdering(S), FiniteSubsetsOf(S))
    BY FS_StrictSubsetOrderingWellFounded
  <1>2. FiniteSubsetsOf(S) = SUBSET S
    BY FS_FiniteSubsetsOfFinite
  <1>3. T \subseteq FiniteSubsetsOf(S) /\ T # {}
    BY <1>2
  <1>4. PICK s \in T : \A t \in T : ~ (<<t, s>> \in StrictSubsetOrdering(S))
    <2> HIDE DEF T
    <2>1. QED
      BY <1>1, <1>3, WFMin
  <1>5. s \in SUBSET S /\ s \notin C
    BY <1>4
  <1>6. ASSUME NEW t \in SUBSET s, t # s PROVE t \in C
    <2>1. <<t, s>> \in StrictSubsetOrdering(S)
      BY <1>5, <1>6 DEF StrictSubsetOrdering
    <2>2. QED
      BY <1>4, <1>5, <1>6, <2>1
  <1>7. QED
    BY <1>5, <1>6

Pick(S) == CHOOSE x \in S : TRUE

\* h[s] is the sum of f over s, any subset of S, in the order of Pick.
SumsOver(h, f, S) ==
    h = [s \in SUBSET S |-> IF s = {} THEN 0 ELSE f[Pick(s)] + h[s \ {Pick(s)}]]

LEMMA PickOne == \A S : S # {} => Pick(S) \in S
  BY DEF Pick

LEMMA SumsOverExist ==
    ASSUME NEW f, NEW S, IsFiniteSet(S)
    PROVE  \E h : SumsOver(h, f, S)
  <1> DEFINE Small(n) == {s \in SUBSET S : Cardinality(s) <= n}
             Upto(h, n) == h = [s \in Small(n) |-> IF s = {} THEN 0
                                                   ELSE f[Pick(s)] + h[s \ {Pick(s)}]]
             N == {n \in Nat : \E h : Upto(h, n)}
  <1>1. ASSUME NEW s \in SUBSET S
        PROVE  /\ Cardinality(s) \in Nat /\ Cardinality(s) <= Cardinality(S)
               /\ Cardinality(s) = 0 <=> s = {}
               /\ s # {} => /\ s \ {Pick(s)} \in SUBSET S
                            /\ Cardinality(s \ {Pick(s)}) = Cardinality(s) - 1
    <2>1. IsFiniteSet(s) /\ Cardinality(s) <= Cardinality(S)
      BY FS_Subset
    <2>2. Cardinality(s) \in Nat /\ (Cardinality(s) = 0 <=> s = {})
      BY <2>1, FS_CardinalityType, FS_EmptySet
    <2>3. s # {} => Cardinality(s \ {Pick(s)}) = Cardinality(s) - 1
      BY <2>1, PickOne, FS_RemoveElement
    <2>4. QED
      BY <2>1, <2>2, <2>3
  <1>2. 0 \in N
    <2>1. Small(0) = {{}}
      <3>1. ASSUME NEW s \in SUBSET S PROVE Cardinality(s) <= 0 <=> s = {}
        <4>1. Cardinality(s) \in Nat /\ (Cardinality(s) = 0 <=> s = {})
          BY <1>1
        <4>2. QED
          BY <4>1
      <3>2. QED
        BY <3>1
    <2>2. Upto([s \in Small(0) |-> 0], 0)
      <3> HIDE DEF Small
      <3>1. \A s \in Small(0) : s = {}
        BY <2>1
      <3>2. QED
        BY <3>1
    <2>3. QED
      <3> HIDE DEF Upto
      <3>1. QED
        BY <2>2
  <1>3. ASSUME NEW n \in Nat, n \in N PROVE n + 1 \in N
    <2>1. PICK h : Upto(h, n)
      BY <1>3
    <2> DEFINE g == [s \in Small(n + 1) |-> IF s \in Small(n) THEN h[s]
                                            ELSE f[Pick(s)] + h[s \ {Pick(s)}]]
               k == [s \in Small(n + 1) |-> IF s = {} THEN 0
                                            ELSE f[Pick(s)] + g[s \ {Pick(s)}]]
    <2>2. /\ Small(n) \subseteq Small(n + 1) /\ {} \in Small(n)
          /\ \A s \in Small(n + 1) : s # {} => s \ {Pick(s)} \in Small(n)
      <3>1. \A s \in Small(n) : s \in Small(n + 1)
        <4>1. \A s \in SUBSET S : Cardinality(s) \in Nat
          BY <1>1
        <4>2. QED
          BY <4>1
      <3>2. {} \in Small(n)
        BY FS_EmptySet
      <3>3. ASSUME NEW s \in Small(n + 1), s # {} PROVE s \ {Pick(s)} \in Small(n)
        <4>1. /\ s \in SUBSET S /\ Cardinality(s) <= n + 1 /\ Cardinality(s) \in Nat
              /\ s \ {Pick(s)} \in SUBSET S
              /\ Cardinality(s \ {Pick(s)}) = Cardinality(s) - 1
          BY <1>1, <3>3
        <4>2. Cardinality(s \ {Pick(s)}) <= n
          BY <4>1
        <4>3. QED
          BY <4>1, <4>2
      <3> HIDE DEF Small
      <3>4. QED
        BY <3>1, <3>2, <3>3
    <2>3. \A s \in Small(n) : h[s] = IF s = {} THEN 0 ELSE f[Pick(s)] + h[s \ {Pick(s)}]
      BY <2>1
    <2> HIDE DEF Small
    <2>4. \A s \in Small(n) : g[s] = h[s]
      BY <2>2
    <2>5. ASSUME NEW s \in Small(n + 1) PROVE g[s] = k[s]
      <3>1. CASE s = {}
        BY <2>2, <2>3, <2>4, <3>1
      <3>2. CASE s # {}
        <4>1. s \ {Pick(s)} \in Small(n)
          BY <2>2, <3>2
        <4>2. g[s] = f[Pick(s)] + h[s \ {Pick(s)}]
          BY <2>3, <3>2
        <4>3. k[s] = f[Pick(s)] + g[s \ {Pick(s)}]
          BY <3>2
        <4>4. QED
          BY <2>4, <4>1, <4>2, <4>3
      <3>3. QED
        BY <3>1, <3>2
    <2>6. g = k
      BY <2>5
    <2>7. Upto(g, n + 1)
      BY <2>6
    <2>8. QED
      <3> HIDE DEF Upto, g
      <3>1. QED
        BY <2>7
  <1>4. Cardinality(S) \in N
    <2> HIDE DEF N
    <2>1. QED
      BY <1>2, <1>3, Counting, FS_CardinalityType
  <1>5. Small(Cardinality(S)) = SUBSET S
    BY <1>1
  <1>6. QED
    BY <1>4, <1>5 DEF SumsOver

\* SumFunctionOnSet is the last of such sums.
LEMMA SumIs ==
    ASSUME NEW f, NEW S, IsFiniteSet(S)
    PROVE  \E h : SumsOver(h, f, S) /\ SumFunctionOnSet(f, S) = h[S]
  <1>1. PICK h : SumsOver(h, f, S)
    BY SumsOverExist
  <1>2. QED
    BY <1>1 DEF SumFunctionOnSet, FoldFunctionOnSet, MapThenFoldSet, SumsOver, Pick

LEMMA SumOfNone == \A f : SumFunctionOnSet(f, {}) = 0
  <1> SUFFICES ASSUME NEW f PROVE SumFunctionOnSet(f, {}) = 0
    OBVIOUS
  <1>1. PICK h : SumsOver(h, f, {}) /\ SumFunctionOnSet(f, {}) = h[{}]
    BY SumIs, FS_EmptySet
  <1>2. QED
    BY <1>1 DEF SumsOver

\* The sum takes first what Pick picks.
LEMMA SumPicks ==
    ASSUME NEW f, NEW S, IsFiniteSet(S), S # {}
    PROVE  SumFunctionOnSet(f, S) = f[Pick(S)] + SumFunctionOnSet(f, S \ {Pick(S)})
  <1> DEFINE R == S \ {Pick(S)}
  <1>1. IsFiniteSet(R) /\ R \in SUBSET S
    BY FS_Subset
  <1>2. PICK h : SumsOver(h, f, S) /\ SumFunctionOnSet(f, S) = h[S]
    BY SumIs
  <1>3. PICK g : SumsOver(g, f, R) /\ SumFunctionOnSet(f, R) = g[R]
    BY <1>1, SumIs
  <1> DEFINE C == {s \in SUBSET R : g[s] = h[s]}
  <1>4. ASSUME NEW s \in SUBSET R, \A t \in SUBSET s : t # s => t \in C
        PROVE  s \in C
    <2>1. g[s] = IF s = {} THEN 0 ELSE f[Pick(s)] + g[s \ {Pick(s)}]
      BY <1>3 DEF SumsOver
    <2>2. h[s] = IF s = {} THEN 0 ELSE f[Pick(s)] + h[s \ {Pick(s)}]
      BY <1>1, <1>2 DEF SumsOver
    <2>3. s # {} => g[s \ {Pick(s)}] = h[s \ {Pick(s)}]
      BY <1>4, PickOne
    <2>4. QED
      BY <2>1, <2>2, <2>3
  <1>5. R \in C
    <2> HIDE DEF C, R
    <2>1. QED
      BY <1>1, <1>4, Building
  <1>6. h[S] = f[Pick(S)] + h[R]
    BY <1>2 DEF SumsOver
  <1>7. QED
    BY <1>2, <1>3, <1>5, <1>6

\* Summands are integers on S: then so is the sum, and each can be taken first.
LEMMA SumTakes ==
    ASSUME NEW f, NEW S, IsFiniteSet(S), \A x \in S : f[x] \in Int
    PROVE  /\ SumFunctionOnSet(f, S) \in Int
           /\ \A x \in S : SumFunctionOnSet(f, S) = f[x] + SumFunctionOnSet(f, S \ {x})
  <1> DEFINE Sm(s) == SumFunctionOnSet(f, s)
             C == {s \in SUBSET S : /\ Sm(s) \in Int
                                    /\ \A x \in s : Sm(s) = f[x] + Sm(s \ {x})}
  <1>1. ASSUME NEW s \in SUBSET S, \A t \in SUBSET s : t # s => t \in C
        PROVE  s \in C
    <2>1. CASE s = {}
      BY <2>1, SumOfNone
    <2>2. CASE s # {}
      <3> DEFINE p == Pick(s)
      <3>1. p \in s /\ s \ {p} \in SUBSET s /\ s \ {p} # s
        BY <2>2, PickOne
      <3>2. Sm(s) = f[p] + Sm(s \ {p})
        BY <2>2, FS_Subset, SumPicks
      <3> HIDE DEF p
      <3>3. s \ {p} \in C
        BY <1>1, <3>1
      <3> HIDE DEF Sm
      <3>4. Sm(s) \in Int
        BY <3>1, <3>2, <3>3
      <3>5. ASSUME NEW x \in s PROVE Sm(s) = f[x] + Sm(s \ {x})
        <4>1. CASE x = p
          BY <3>2, <4>1
        <4>2. CASE x # p
          <5> DEFINE u == (s \ {p}) \ {x}
          <5>1. x \in s \ {p} /\ p \in s \ {x} /\ s \ {x} \in SUBSET s /\ s \ {x} # s
                /\ u = (s \ {x}) \ {p} /\ u \in SUBSET s /\ u # s
            BY <3>1, <4>2
          <5>2. s \ {x} \in C /\ u \in C
            BY <1>1, <5>1
          <5> HIDE DEF u
          <5>3. Sm(s \ {p}) = f[x] + Sm(u)
            <6>1. QED
              BY <3>3, <5>1 DEF u
          <5>4. Sm(s \ {x}) = f[p] + Sm(u)
            BY <5>1, <5>2
          <5>5. Sm(u) \in Int /\ f[x] \in Int /\ f[p] \in Int
            BY <3>1, <5>2
          <5>6. QED
            BY <3>2, <5>3, <5>4, <5>5
        <4>3. QED
          BY <4>1, <4>2
      <3>6. QED
        BY <3>4, <3>5
    <2>3. QED
      BY <2>1, <2>2
  <1>2. S \in C
    <2> HIDE DEF C
    <2>1. QED
      BY <1>1, Building
  <1>3. QED
    BY <1>2

\* The sum is that of the summands on S.
LEMMA SumSame ==
    ASSUME NEW f, NEW g, NEW S, IsFiniteSet(S), \A x \in S : f[x] = g[x]
    PROVE  SumFunctionOnSet(f, S) = SumFunctionOnSet(g, S)
  <1> DEFINE C == {s \in SUBSET S : SumFunctionOnSet(f, s) = SumFunctionOnSet(g, s)}
  <1>1. ASSUME NEW s \in SUBSET S, \A t \in SUBSET s : t # s => t \in C
        PROVE  s \in C
    <2>1. CASE s = {}
      BY <2>1, SumOfNone
    <2>2. CASE s # {}
      <3>1. Pick(s) \in s /\ IsFiniteSet(s)
        BY <2>2, PickOne, FS_Subset
      <3>2. /\ SumFunctionOnSet(f, s) = f[Pick(s)] + SumFunctionOnSet(f, s \ {Pick(s)})
            /\ SumFunctionOnSet(g, s) = g[Pick(s)] + SumFunctionOnSet(g, s \ {Pick(s)})
        BY <2>2, <3>1, SumPicks
      <3>3. s \ {Pick(s)} \in C
        BY <1>1, <3>1
      <3>4. QED
        BY <3>1, <3>2, <3>3
    <2>3. QED
      BY <2>1, <2>2
  <1>2. S \in C
    <2> HIDE DEF C
    <2>1. QED
      BY <1>1, Building
  <1>3. QED
    BY <1>2

\* One summand changes, or one is new.
LEMMA SumChanges ==
    ASSUME NEW f, NEW g, NEW S, IsFiniteSet(S), NEW x \in S,
           \A y \in S : f[y] \in Int /\ g[y] \in Int,
           \A y \in S \ {x} : f[y] = g[y]
    PROVE  /\ SumFunctionOnSet(f, S) \in Int
           /\ SumFunctionOnSet(g, S) = SumFunctionOnSet(f, S) + (g[x] - f[x])
  <1>1. IsFiniteSet(S \ {x})
    BY FS_RemoveElement
  <1>2. /\ SumFunctionOnSet(f, S) \in Int
        /\ SumFunctionOnSet(f, S) = f[x] + SumFunctionOnSet(f, S \ {x})
    BY SumTakes
  <1>3. SumFunctionOnSet(g, S) = g[x] + SumFunctionOnSet(g, S \ {x})
    BY SumTakes
  <1>4. SumFunctionOnSet(f, S \ {x}) = SumFunctionOnSet(g, S \ {x})
    BY <1>1, SumSame
  <1>5. SumFunctionOnSet(f, S \ {x}) \in Int
    BY <1>1, SumTakes
  <1>6. QED
    BY <1>2, <1>3, <1>4, <1>5

LEMMA SumGrows ==
    ASSUME NEW f, NEW g, NEW S, IsFiniteSet(S), NEW x, x \notin S,
           \A y \in S : f[y] \in Int /\ g[y] = f[y], g[x] \in Int
    PROVE  /\ SumFunctionOnSet(f, S) \in Int
           /\ SumFunctionOnSet(g, S \cup {x}) = SumFunctionOnSet(f, S) + g[x]
  <1>1. IsFiniteSet(S \cup {x}) /\ (S \cup {x}) \ {x} = S
    BY FS_AddElement
  <1>2. SumFunctionOnSet(g, S \cup {x}) = g[x] + SumFunctionOnSet(g, S)
    BY <1>1, SumTakes
  <1>3. SumFunctionOnSet(f, S) = SumFunctionOnSet(g, S) /\ SumFunctionOnSet(f, S) \in Int
    BY SumSame, SumTakes
  <1>4. QED
    BY <1>2, <1>3

-----------------------------------------------------------------------------
(* Money over all wallets *)

\* The withdrawals whose debit is in a statement.
Charges == {o \in Op : Debited(o)}

\* The calls that MoneyConserved sums over are finitely many, for each was made
\* by a step, and what they were asked for is what they were counted as.
Counted ==
    /\ IsFiniteSet(Credited) /\ IsFiniteSet(Charges)
    /\ \A o \in Credited : req[o] \in CreditRequest
    /\ \A o \in Charges : req[o] \in WithdrawRequest

\* What new lines e, one for each wallet of A, do to what is read off the statements.
LEMMA LinesAdded ==
    ASSUME Typed, NEW A \in SUBSET User, NEW e \in [A -> Entry],
           \A u \in User : ledger'[u] = IF u \in A THEN Append(ledger[u], e[u]) ELSE ledger[u]
    PROVE  /\ (\A u \in User : NoReversal(ledger'[u])) =>
                (\A u \in User : NoReversal(ledger[u])) /\ \A u \in A : e[u].type # "REVERSAL"
           /\ (\A u \in A : e[u].ref # <<"OPENING", u>>) => Endowment' = Endowment
           /\ \A p \in Op : Debited(p)' <=> Debited(p) \/ \E u \in A : e[u].ref = <<"WDR", p>>
  <1>t. ledger \in [User -> Seq(Entry)]
    BY DEF Typed, TypeOK
  <1> DEFINE n(u) == Len(ledger[u])
             m(u) == Len(ledger'[u])
  <1>1. ASSUME NEW u \in User
        PROVE  /\ n(u) \in Nat
               /\ u \in A => m(u) = n(u) + 1 /\ ledger'[u][n(u) + 1] = e[u]
               /\ u \notin A => m(u) = n(u)
               /\ \A i \in 1..n(u) : i \in 1..m(u) /\ ledger'[u][i] = ledger[u][i]
    <2>1. CASE u \in A
      <3>1. e[u] \in Entry /\ ledger[u] \in Seq(Entry) /\ ledger'[u] = Append(ledger[u], e[u])
        BY <1>t, <2>1
      <3>2. /\ n(u) \in Nat /\ m(u) = n(u) + 1
            /\ \A i \in 1..n(u) : ledger'[u][i] = ledger[u][i]
            /\ ledger'[u][n(u) + 1] = e[u]
        BY <3>1, AppendEntry
      <3> HIDE DEF n, m
      <3>3. QED
        BY <2>1, <3>2
    <2>2. CASE u \notin A
      <3>1. ledger'[u] = ledger[u] /\ n(u) \in Nat
        BY <1>t, <2>2
      <3>2. QED
        BY <2>2, <3>1
    <2>3. QED
      BY <2>1, <2>2
  <1>2. ASSUME NEW u \in User, NoReversal(ledger'[u])
        PROVE  NoReversal(ledger[u]) /\ (u \in A => e[u].type # "REVERSAL")
    <2>1. \A i \in 1..m(u) : ledger'[u][i].type # "REVERSAL"
      BY <1>2 DEF NoReversal
    <2>2. \A i \in 1..n(u) : ledger[u][i].type # "REVERSAL"
      <3> HIDE DEF n, m
      <3>1. QED
        BY <1>1, <2>1
    <2>3. ASSUME u \in A PROVE e[u].type # "REVERSAL"
      <3> HIDE DEF n, m
      <3>1. n(u) \in Nat /\ m(u) = n(u) + 1 /\ ledger'[u][n(u) + 1] = e[u]
        BY <1>1, <2>3
      <3>2. n(u) + 1 \in 1..m(u)
        BY <3>1
      <3>3. QED
        BY <2>1, <3>1, <3>2
    <2>4. QED
      BY <2>2, <2>3 DEF NoReversal
  <1>3. ASSUME NEW u \in User, u \in A => e[u].ref # <<"OPENING", u>>
        PROVE  Endowment'[u] = Endowment[u]
    <2>1. /\ Endowment[u] = IF n(u) > 0 /\ ledger[u][1].ref = <<"OPENING", u>>
                            THEN ledger[u][1].amt ELSE 0
          /\ Endowment'[u] = IF m(u) > 0 /\ ledger'[u][1].ref = <<"OPENING", u>>
                             THEN ledger'[u][1].amt ELSE 0
      BY DEF Endowment
    <2> HIDE DEF n, m
    <2>2. /\ n(u) \in Nat
          /\ u \in A => m(u) = n(u) + 1 /\ ledger'[u][n(u) + 1] = e[u]
          /\ u \notin A => m(u) = n(u)
          /\ \A i \in 1..n(u) : i \in 1..m(u) /\ ledger'[u][i] = ledger[u][i]
      BY <1>1
    <2>3. CASE n(u) = 0
      BY <1>3, <2>1, <2>2, <2>3
    <2>4. CASE n(u) # 0
      <3>1. 1 \in 1..n(u) /\ n(u) > 0 /\ m(u) > 0
        BY <2>2, <2>4
      <3>2. ledger'[u][1] = ledger[u][1]
        BY <2>2, <3>1
      <3>3. QED
        BY <2>1, <3>1, <3>2
    <2>5. QED
      BY <2>3, <2>4
  <1>4. (\A u \in A : e[u].ref # <<"OPENING", u>>) => Endowment' = Endowment
    BY <1>3 DEF Endowment
  <1>5. ASSUME NEW p \in Op
        PROVE  Debited(p)' <=> Debited(p) \/ \E u \in A : e[u].ref = <<"WDR", p>>
    <2>d. /\ Debited(p) <=> \E u \in User : \E i \in 1..n(u) : ledger[u][i].ref = <<"WDR", p>>
          /\ Debited(p)' <=> \E u \in User : \E i \in 1..m(u) : ledger'[u][i].ref = <<"WDR", p>>
      BY DEF Debited
    <2> HIDE DEF n, m
    <2>1. ASSUME NEW u \in User, NEW i \in 1..m(u), ledger'[u][i].ref = <<"WDR", p>>
          PROVE  Debited(p) \/ \E v \in A : e[v].ref = <<"WDR", p>>
      <3>1. /\ n(u) \in Nat
            /\ u \in A => m(u) = n(u) + 1 /\ ledger'[u][n(u) + 1] = e[u]
            /\ u \notin A => m(u) = n(u)
            /\ \A j \in 1..n(u) : ledger'[u][j] = ledger[u][j]
        BY <1>1
      <3>2. CASE i \in 1..n(u)
        BY <2>1, <2>d, <3>1, <3>2
      <3>3. CASE i \notin 1..n(u)
        <4>1. u \in A /\ i = n(u) + 1
          BY <3>1, <3>3
        <4>2. QED
          BY <2>1, <3>1, <4>1
      <3>4. QED
        BY <3>2, <3>3
    <2>2. ASSUME NEW u \in User, NEW i \in 1..n(u), ledger[u][i].ref = <<"WDR", p>>
          PROVE  Debited(p)'
      <3>1. i \in 1..m(u) /\ ledger'[u][i].ref = <<"WDR", p>>
        BY <1>1, <2>2
      <3>2. QED
        BY <2>d, <3>1
    <2>3. ASSUME NEW u \in A, e[u].ref = <<"WDR", p>> PROVE Debited(p)'
      <3>1. n(u) \in Nat /\ m(u) = n(u) + 1 /\ ledger'[u][n(u) + 1] = e[u]
        BY <1>1
      <3>2. n(u) + 1 \in 1..m(u)
        BY <3>1
      <3>3. QED
        BY <2>3, <2>d, <3>1, <3>2
    <2>4. QED
      BY <2>1, <2>2, <2>3, <2>d
  <1>6. QED
    BY <1>2, <1>4, <1>5

\* MoneyConserved over the sets and functions that it sums.
LEMMA ConservedIs ==
    ASSUME Typed
    PROVE  MoneyConserved <=>
             ((\A u \in User : NoReversal(ledger[u])) =>
                SumFunctionOnSet(balance, User) =
                    SumFunctionOnSet(Endowment, User) + SumFunctionOnSet(Moved(Credited), Credited)
                    - SumFunctionOnSet(Moved(Charges), Charges))
  <1>1. DOMAIN balance = User /\ DOMAIN Endowment = User /\ \A S : DOMAIN Moved(S) = S
    BY DEF Typed, TypeOK, Endowment, Moved
  <1>2. QED
    BY <1>1 DEF MoneyConserved, SumFunction, Charges

LEMMA ConservedNext ==
    ASSUME Typed'
    PROVE  MoneyConserved' <=>
             ((\A u \in User : NoReversal(ledger'[u])) =>
                SumFunctionOnSet(balance', User) =
                    SumFunctionOnSet(Endowment', User)
                    + SumFunctionOnSet(Moved(Credited)', Credited')
                    - SumFunctionOnSet(Moved(Charges)', Charges'))
  <1>1. /\ DOMAIN balance' = User /\ DOMAIN Endowment' = User
        /\ DOMAIN Moved(Credited)' = Credited' /\ DOMAIN Moved(Charges)' = Charges'
    BY DEF Typed, TypeOK, Endowment, Moved
  <1>2. QED
    BY <1>1 DEF MoneyConserved, SumFunction, Charges

\* MoneyConserved stays when balances, statements and what is counted stay.
LEMMA MoneyStays ==
    ASSUME Typed, Typed', Counted, MoneyConserved, UNCHANGED <<balance, ledger>>, Credited' = Credited,
           \A p \in Credited \cup Charges : req'[p] = req[p]
    PROVE  Counted' /\ MoneyConserved'
  <1>1. Charges' = Charges
    BY DEF Charges, Debited
  <1>2. Moved(Credited)' = Moved(Credited) /\ Moved(Charges)' = Moved(Charges)
    BY <1>1 DEF Moved
  <1>3. Endowment' = Endowment /\ \A u \in User : NoReversal(ledger'[u]) <=> NoReversal(ledger[u])
    BY DEF Endowment
  <1>4. Counted'
    BY <1>1 DEF Counted
  <1>5. MoneyConserved'
    BY <1>1, <1>2, <1>3, ConservedIs, ConservedNext
  <1>6. QED
    BY <1>4, <1>5

LEMMA ChargedIsUsed == \A o \in Op : Debited(o) <=> ~Unused(<<"WDR", o>>)
  BY DEF Debited, Unused

\* Call o goes to another place and moves no money.
LEMMA QuietMoney ==
    ASSUME Typed, Typed', Marked, Counted, MoneyConserved, NEW o \in Op, NEW label,
           UNCHANGED <<balance, ledger>>, pc' = [pc EXCEPT ![o] = label], pc[o] # "done",
           label = "done" => req'[o].kind # "credit",
           \A p \in Op \ {o} : req'[p] = req[p], pc[o] # Idle => req'[o] = req[o]
    PROVE  Counted' /\ MoneyConserved'
  <1>1. \A p \in Op : pc'[p] = IF p = o THEN label ELSE pc[p]
    BY DEF Typed, TypeOK
  <1>2. \A p \in Op : p \in Credited' <=> p \in Credited
    BY <1>1 DEF Credited
  <1>3. Credited' = Credited /\ o \notin Credited
    BY <1>2 DEF Credited
  <1>4. o \in Charges => pc[o] \in Charged
    BY ChargedIsUsed DEF Charges, Marked
  <1>5. o \in Charges => pc[o] # Idle
    BY <1>4 DEF Charged, Idle
  <1>6. \A p \in Credited \cup Charges : p \in Op /\ req'[p] = req[p]
    BY <1>3, <1>5 DEF Credited, Charges
  <1>7. QED
    BY <1>3, <1>6, MoneyStays

LEMMA AmountIsInt == \A a \in Amount : a \in Int /\ -a \in Int
  BY AmountAssumption

\* The lines e are written, the balances change by db, and what is counted as
\* credits and as withdrawals by dc and dd.
LEMMA MoneyMoves ==
    ASSUME Typed, Typed', MoneyConserved, NEW A \in SUBSET User, NEW e \in [A -> Entry],
           \A u \in User : ledger'[u] = IF u \in A THEN Append(ledger[u], e[u]) ELSE ledger[u],
           \A u \in A : e[u].ref # <<"OPENING", u>>,
           NEW db \in Int, NEW dc \in Int, NEW dd \in Int, db = dc - dd,
           SumFunctionOnSet(balance, User) \in Int,
           SumFunctionOnSet(Moved(Credited), Credited) \in Int,
           SumFunctionOnSet(Moved(Charges), Charges) \in Int,
           SumFunctionOnSet(balance', User) = SumFunctionOnSet(balance, User) + db,
           SumFunctionOnSet(Moved(Credited)', Credited') = SumFunctionOnSet(Moved(Credited), Credited) + dc,
           SumFunctionOnSet(Moved(Charges)', Charges') = SumFunctionOnSet(Moved(Charges), Charges) + dd
    PROVE  MoneyConserved'
  <1>1. /\ (\A u \in User : NoReversal(ledger'[u])) => \A u \in User : NoReversal(ledger[u])
        /\ Endowment' = Endowment
    BY LinesAdded
  <1> DEFINE s == SumFunctionOnSet(Endowment, User)
  <1>2. ledger \in [User -> Seq(Entry)]
    BY DEF Typed, TypeOK
  <1>3. ASSUME NEW u \in User PROVE Endowment[u] \in Int
    <2>1. ledger[u] \in Seq(Entry)
      BY <1>2
    <2>2. Len(ledger[u]) > 0 => ledger[u][1] \in Entry
      BY <2>1
    <2>3. Len(ledger[u]) > 0 => ledger[u][1].amt \in Amount
      BY <2>2 DEF Entry
    <2>4. Len(ledger[u]) > 0 => ledger[u][1].amt \in Int
      BY <2>3, AmountIsInt
    <2>5. QED
      BY <2>4 DEF Endowment
  <1>4. s \in Int
    BY <1>3, UserAssumption, SumTakes
  <1>5. SumFunctionOnSet(Endowment', User) = s
    BY <1>1
  <1>6. SUFFICES ASSUME \A u \in User : NoReversal(ledger'[u])
                 PROVE  SumFunctionOnSet(balance', User) =
                          s + SumFunctionOnSet(Moved(Credited)', Credited')
                          - SumFunctionOnSet(Moved(Charges)', Charges')
    BY <1>5, ConservedNext
  <1>7. SumFunctionOnSet(balance, User) = s + SumFunctionOnSet(Moved(Credited), Credited)
                                           - SumFunctionOnSet(Moved(Charges), Charges)
    BY <1>1, <1>6, ConservedIs
  <1> HIDE DEF s
  <1>8. QED
    BY <1>4, <1>7

\* Both counts are integers; a call that is not counted can be added to them.
LEMMA Countable ==
    ASSUME Counted
    PROVE  /\ SumFunctionOnSet(Moved(Credited), Credited) \in Int
           /\ SumFunctionOnSet(Moved(Charges), Charges) \in Int
           /\ \A y \in Credited : Moved(Credited)[y] = req[y].amt /\ req[y].amt \in Int
           /\ \A y \in Charges : Moved(Charges)[y] = req[y].amt /\ req[y].amt \in Int
  <1>1. \A y \in Credited : Moved(Credited)[y] = req[y].amt /\ req[y].amt \in Int
    BY AmountIsInt DEF Counted, Moved, CreditRequest
  <1>2. \A y \in Charges : Moved(Charges)[y] = req[y].amt /\ req[y].amt \in Int
    BY AmountIsInt DEF Counted, Moved, WithdrawRequest
  <1>3. SumFunctionOnSet(Moved(Credited), Credited) \in Int
    <2>1. \A y \in Credited : Moved(Credited)[y] \in Int
      BY <1>1
    <2>2. QED
      BY <2>1, SumTakes DEF Counted
  <1>4. SumFunctionOnSet(Moved(Charges), Charges) \in Int
    <2>1. \A y \in Charges : Moved(Charges)[y] \in Int
      BY <1>2
    <2>2. QED
      BY <2>1, SumTakes DEF Counted
  <1>5. QED
    BY <1>1, <1>2, <1>3, <1>4

\* A new line that is none of a withdrawal leaves the debited withdrawals alone.
LEMMA ChargesAfter ==
    ASSUME Typed, NEW A \in SUBSET User, NEW e \in [A -> Entry],
           \A u \in User : ledger'[u] = IF u \in A THEN Append(ledger[u], e[u]) ELSE ledger[u]
    PROVE  Charges' = Charges \cup {p \in Op : \E u \in A : e[u].ref = <<"WDR", p>>}
  <1>1. \A p \in Op : Debited(p)' <=> Debited(p) \/ \E u \in A : e[u].ref = <<"WDR", p>>
    BY LinesAdded
  <1>2. QED
    BY <1>1 DEF Charges

LEMMA CreditMoney ==
    ASSUME Typed, Typed', Counted, MoneyConserved, NEW o \in Op, CreditCommit(o)
    PROVE  Counted' /\ MoneyConserved'
  <1> DEFINE u == req[o].user
             a == req[o].amt
             n == NewLine("CREDIT", a, balance[u], balance[u] + a, <<"CREDIT", req[o].ref>>)
             e == [w \in {u} |-> n]
  <1>1. /\ pc[o] = "credit" /\ req[o] \in CreditRequest /\ req' = req
        /\ pc' = [pc EXCEPT ![o] = "done"]
        /\ balance' = [balance EXCEPT ![u] = balance[u] + a]
        /\ ledger' = [ledger EXCEPT ![u] = Append(ledger[u], n)]
    BY DEF CreditCommit, Goto, Typed, Shape, Post, NewLine
  <1>2. u \in User /\ a \in Amount /\ a \in Int /\ <<"CREDIT", req[o].ref>> \in Reference
        /\ req[o].kind = "credit"
    BY <1>1, AmountIsInt DEF CreditRequest, Reference
  <1>t. /\ balance \in [User -> Int] /\ ledger \in [User -> Seq(Entry)]
        /\ pc \in [Op -> {Idle} \cup InFlight \cup Finished]
    BY DEF Typed, TypeOK
  <1>3. n \in Entry /\ n.ref = <<"CREDIT", req[o].ref>>
    <2> HIDE DEF u, a
    <2>1. balance[u] \in Int /\ balance[u] + a \in Int
      BY <1>2, <1>t
    <2>2. QED
      BY <1>2, <2>1 DEF NewLine, Entry
  <1>4. {u} \in SUBSET User /\ e \in [{u} -> Entry] /\ e[u] = n
    BY <1>2, <1>3
  <1> HIDE DEF u, a, n, e
  <1>5. \A w \in User : ledger'[w] = IF w \in {u} THEN Append(ledger[w], e[w]) ELSE ledger[w]
    BY <1>1, <1>2, <1>4, <1>t
  <1>6. Charges' = Charges
    <2>1. \A p \in Op : ~ \E w \in {u} : e[w].ref = <<"WDR", p>>
      BY <1>3, <1>4
    <2>2. Charges' = Charges \cup {p \in Op : \E w \in {u} : e[w].ref = <<"WDR", p>>}
      BY <1>4, <1>5, ChargesAfter
    <2>3. QED
      BY <2>1, <2>2
  <1>7. \A p \in Op : pc'[p] = IF p = o THEN "done" ELSE pc[p]
    BY <1>1, <1>t
  <1>8. Credited' = Credited \cup {o} /\ o \notin Credited
    BY <1>1, <1>2, <1>7 DEF Credited
  <1>9. Counted'
    <2>1. IsFiniteSet(Credited')
      BY <1>8, FS_AddElement DEF Counted
    <2>2. QED
      BY <1>1, <1>6, <1>8, <2>1 DEF Counted
  <1>10. /\ SumFunctionOnSet(balance, User) \in Int
         /\ SumFunctionOnSet(balance', User) = SumFunctionOnSet(balance, User) + a
    <2>1. /\ \A w \in User : balance[w] \in Int /\ balance'[w] \in Int
          /\ \A w \in User \ {u} : balance[w] = balance'[w]
          /\ balance'[u] - balance[u] = a
      BY <1>1, <1>2, <1>t
    <2>2. QED
      BY <1>2, <2>1, UserAssumption, SumChanges
  <1>11. SumFunctionOnSet(Moved(Credited)', Credited') = SumFunctionOnSet(Moved(Credited), Credited) + a
    <2> DEFINE f == Moved(Credited)
               g == Moved(Credited)'
    <2>1. /\ \A y \in Credited : f[y] \in Int /\ g[y] = f[y]
          /\ g[o] = a
      BY <1>1, <1>8, Countable DEF Moved, a
    <2> HIDE DEF f, g
    <2>2. IsFiniteSet(Credited) /\ o \notin Credited /\ g[o] \in Int
      BY <1>2, <1>8, <2>1 DEF Counted
    <2>3. SumFunctionOnSet(g, Credited \cup {o}) = SumFunctionOnSet(f, Credited) + g[o]
      BY <2>1, <2>2, SumGrows
    <2>4. QED
      BY <1>8, <2>1, <2>3 DEF f, g
  <1>12. SumFunctionOnSet(Moved(Charges)', Charges') = SumFunctionOnSet(Moved(Charges), Charges) + 0
    <2>1. Moved(Charges)' = Moved(Charges)
      BY <1>1, <1>6 DEF Moved
    <2>2. SumFunctionOnSet(Moved(Charges), Charges) \in Int
      BY Countable
    <2>3. QED
      BY <1>6, <2>1, <2>2
  <1>13. \A w \in {u} : e[w].ref # <<"OPENING", w>>
    BY <1>3, <1>4
  <1>14. MoneyConserved'
    <2>1. 0 \in Int /\ a = a - 0
      BY <1>2
    <2>2. /\ SumFunctionOnSet(Moved(Credited), Credited) \in Int
          /\ SumFunctionOnSet(Moved(Charges), Charges) \in Int
      BY Countable
    <2>3. QED
      BY <1>2, <1>4, <1>5, <1>10, <1>11, <1>12, <1>13, <2>1, <2>2, MoneyMoves
  <1>15. QED
    BY <1>9, <1>14

LEMMA WithdrawMoney ==
    ASSUME Typed, Typed', Marked, Counted, MoneyConserved, NEW o \in Op, WithdrawCommit(o)
    PROVE  Counted' /\ MoneyConserved'
  <1> DEFINE u == req[o].user
             a == req[o].amt
             n == NewLine("PAYOUT", a, balance[u], balance[u] - a, <<"WDR", o>>)
             e == [w \in {u} |-> n]
  <1>1. /\ pc[o] = "withdraw" /\ req[o] \in WithdrawRequest /\ req' = req
        /\ pc' = [pc EXCEPT ![o] = "enqueue"]
        /\ balance' = [balance EXCEPT ![u] = balance[u] - a]
        /\ ledger' = [ledger EXCEPT ![u] = Append(ledger[u], n)]
    BY DEF WithdrawCommit, Debit, Goto, Typed, Shape, Post, NewLine
  <1>2. u \in User /\ a \in Amount /\ a \in Int /\ -a \in Int /\ <<"WDR", o>> \in Reference
        /\ req[o].kind = "withdraw"
    BY <1>1, AmountIsInt DEF WithdrawRequest, Reference
  <1>t. /\ balance \in [User -> Int] /\ ledger \in [User -> Seq(Entry)]
        /\ pc \in [Op -> {Idle} \cup InFlight \cup Finished]
    BY DEF Typed, TypeOK
  <1>3. n \in Entry /\ n.ref = <<"WDR", o>>
    <2> HIDE DEF u, a
    <2>1. balance[u] \in Int /\ balance[u] - a \in Int
      BY <1>2, <1>t
    <2>2. QED
      BY <1>2, <2>1 DEF NewLine, Entry, Debits
  <1>4. {u} \in SUBSET User /\ e \in [{u} -> Entry] /\ e[u] = n
    BY <1>2, <1>3
  <1> HIDE DEF u, a, n, e
  <1>5. \A w \in User : ledger'[w] = IF w \in {u} THEN Append(ledger[w], e[w]) ELSE ledger[w]
    BY <1>1, <1>2, <1>4, <1>t
  <1>6. Charges' = Charges \cup {o} /\ o \notin Charges
    <2>1. \A p \in Op : (\E w \in {u} : e[w].ref = <<"WDR", p>>) <=> p = o
      BY <1>3, <1>4
    <2>2. Charges' = Charges \cup {p \in Op : \E w \in {u} : e[w].ref = <<"WDR", p>>}
      BY <1>4, <1>5, ChargesAfter
    <2>3. o \notin Charges
      BY <1>1, ChargedIsUsed DEF Charges, Marked, Charged
    <2>4. QED
      BY <2>1, <2>2, <2>3
  <1>7. \A p \in Op : pc'[p] = IF p = o THEN "enqueue" ELSE pc[p]
    BY <1>1, <1>t
  <1>8. Credited' = Credited
    BY <1>1, <1>7 DEF Credited
  <1>9. Counted'
    <2>1. IsFiniteSet(Charges')
      BY <1>6, FS_AddElement DEF Counted
    <2>2. QED
      BY <1>1, <1>6, <1>8, <2>1 DEF Counted
  <1>10. /\ SumFunctionOnSet(balance, User) \in Int
         /\ SumFunctionOnSet(balance', User) = SumFunctionOnSet(balance, User) + (-a)
    <2>1. /\ \A w \in User : balance[w] \in Int /\ balance'[w] \in Int
          /\ \A w \in User \ {u} : balance[w] = balance'[w]
          /\ balance'[u] - balance[u] = -a
      BY <1>1, <1>2, <1>t
    <2>2. QED
      BY <1>2, <2>1, UserAssumption, SumChanges
  <1>11. SumFunctionOnSet(Moved(Charges)', Charges') = SumFunctionOnSet(Moved(Charges), Charges) + a
    <2> DEFINE f == Moved(Charges)
               g == Moved(Charges)'
    <2>1. /\ \A y \in Charges : f[y] \in Int /\ g[y] = f[y]
          /\ g[o] = a
      BY <1>1, <1>6, Countable DEF Moved, a
    <2> HIDE DEF f, g
    <2>2. IsFiniteSet(Charges) /\ o \notin Charges /\ g[o] \in Int
      BY <1>2, <1>6, <2>1 DEF Counted
    <2>3. SumFunctionOnSet(g, Charges \cup {o}) = SumFunctionOnSet(f, Charges) + g[o]
      BY <2>1, <2>2, SumGrows
    <2>4. QED
      BY <1>6, <2>1, <2>3 DEF f, g
  <1>12. /\ SumFunctionOnSet(Moved(Credited), Credited) \in Int
         /\ SumFunctionOnSet(Moved(Charges), Charges) \in Int
    BY Countable
  <1>13. SumFunctionOnSet(Moved(Credited)', Credited') = SumFunctionOnSet(Moved(Credited), Credited) + 0
    <2>1. Moved(Credited)' = Moved(Credited)
      BY <1>1, <1>8 DEF Moved
    <2>2. QED
      BY <1>8, <1>12, <2>1
  <1>14. \A w \in {u} : e[w].ref # <<"OPENING", w>>
    BY <1>3, <1>4
  <1>15. MoneyConserved'
    <2>1. 0 \in Int /\ -a = 0 - a
      BY <1>2
    <2>2. QED
      BY <1>2, <1>4, <1>5, <1>10, <1>11, <1>12, <1>13, <1>14, <2>1, MoneyMoves
  <1>16. QED
    BY <1>9, <1>15

\* What leaves one wallet arrives in the other.
LEMMA TransferMoney ==
    ASSUME Typed, Typed', Counted, MoneyConserved, NEW o \in Op, TransferCommit(o)
    PROVE  Counted' /\ MoneyConserved'
  <1> DEFINE u == req[o].user
             v == req[o].peer
             a == req[o].amt
             nu == NewLine("TRANSFER_OUT", a, balance[u], balance[u] - a, <<"OUT", o>>)
             nv == NewLine("TRANSFER_IN", a, balance[v], balance[v] + a, <<"IN", o>>)
             e == [w \in {u, v} |-> IF w = u THEN nu ELSE nv]
             half == [balance EXCEPT ![u] = balance[u] - a]
  <1>1. /\ u # v /\ pc[o] = "transfer" /\ req[o] \in TransferRequest /\ req' = req
        /\ pc' = [pc EXCEPT ![o] = "done"]
        /\ balance' = [balance EXCEPT ![u] = @ - a, ![v] = @ + a]
        /\ ledger' = [ledger EXCEPT ![u] = Append(ledger[u], nu), ![v] = Append(ledger[v], nv)]
    BY DEF TransferCommit, Goto, Typed, Shape, Post, NewLine
  <1>2. u \in User /\ v \in User /\ a \in Amount /\ a \in Int /\ -a \in Int
        /\ <<"OUT", o>> \in Reference /\ <<"IN", o>> \in Reference /\ req[o].kind = "transfer"
    BY <1>1, AmountIsInt DEF TransferRequest, Reference
  <1>t. /\ balance \in [User -> Int] /\ ledger \in [User -> Seq(Entry)]
        /\ pc \in [Op -> {Idle} \cup InFlight \cup Finished]
    BY DEF Typed, TypeOK
  <1>3. nu \in Entry /\ nu.ref = <<"OUT", o>> /\ nv \in Entry /\ nv.ref = <<"IN", o>>
    <2> HIDE DEF u, v, a
    <2>1. balance[u] \in Int /\ balance[u] - a \in Int /\ balance[v] \in Int /\ balance[v] + a \in Int
      BY <1>2, <1>t
    <2>2. nu \in Entry /\ nu.ref = <<"OUT", o>>
      BY <1>2, <2>1 DEF NewLine, Entry, Debits
    <2>3. nv \in Entry /\ nv.ref = <<"IN", o>>
      BY <1>2, <2>1 DEF NewLine, Entry
    <2>4. QED
      BY <2>2, <2>3
  <1>4. {u, v} \in SUBSET User /\ e \in [{u, v} -> Entry] /\ e[u] = nu /\ e[v] = nv
    <2> HIDE DEF u, v, nu, nv
    <2>1. QED
      BY <1>1, <1>2, <1>3
  <1> HIDE DEF u, v, a, nu, nv, e
  <1>5. \A w \in User : ledger'[w] = IF w \in {u, v} THEN Append(ledger[w], e[w]) ELSE ledger[w]
    BY <1>1, <1>2, <1>4, <1>t
  <1>6. Charges' = Charges
    <2>1. \A p \in Op : ~ \E w \in {u, v} : e[w].ref = <<"WDR", p>>
      BY <1>3, <1>4
    <2>2. Charges' = Charges \cup {p \in Op : \E w \in {u, v} : e[w].ref = <<"WDR", p>>}
      BY <1>4, <1>5, ChargesAfter
    <2>3. QED
      BY <2>1, <2>2
  <1>7. \A p \in Op : pc'[p] = IF p = o THEN "done" ELSE pc[p]
    BY <1>1, <1>t
  <1>8. Credited' = Credited
    BY <1>1, <1>2, <1>7 DEF Credited
  <1>9. Counted'
    BY <1>1, <1>6, <1>8 DEF Counted
  <1>10. /\ SumFunctionOnSet(balance, User) \in Int
         /\ SumFunctionOnSet(balance', User) = SumFunctionOnSet(balance, User) + 0
    <2>1. /\ \A w \in User : balance[w] \in Int /\ half[w] \in Int
          /\ \A w \in User \ {u} : balance[w] = half[w]
          /\ half[u] - balance[u] = -a
      BY <1>2, <1>t
    <2>2. /\ \A w \in User : balance'[w] \in Int
          /\ \A w \in User \ {v} : half[w] = balance'[w]
          /\ balance'[v] - half[v] = a
      BY <1>1, <1>2, <1>t
    <2> HIDE DEF half
    <2>3. /\ SumFunctionOnSet(balance, User) \in Int
          /\ SumFunctionOnSet(half, User) = SumFunctionOnSet(balance, User) + (-a)
      BY <1>2, <2>1, UserAssumption, SumChanges
    <2>4. SumFunctionOnSet(balance', User) = SumFunctionOnSet(half, User) + a
      BY <1>2, <2>1, <2>2, UserAssumption, SumChanges
    <2>5. QED
      BY <1>2, <2>3, <2>4
  <1>11. /\ SumFunctionOnSet(Moved(Credited), Credited) \in Int
         /\ SumFunctionOnSet(Moved(Charges), Charges) \in Int
    BY Countable
  <1>12. SumFunctionOnSet(Moved(Credited)', Credited') = SumFunctionOnSet(Moved(Credited), Credited) + 0
    <2>1. Moved(Credited)' = Moved(Credited)
      BY <1>1, <1>8 DEF Moved
    <2>2. QED
      BY <1>8, <1>11, <2>1
  <1>13. SumFunctionOnSet(Moved(Charges)', Charges') = SumFunctionOnSet(Moved(Charges), Charges) + 0
    <2>1. Moved(Charges)' = Moved(Charges)
      BY <1>1, <1>6 DEF Moved
    <2>2. QED
      BY <1>6, <1>11, <2>1
  <1>14. \A w \in {u, v} : e[w].ref # <<"OPENING", w>>
    BY <1>3, <1>4
  <1>15. MoneyConserved'
    <2>1. 0 \in Int /\ 0 = 0 - 0
      OBVIOUS
    <2>2. QED
      BY <1>4, <1>5, <1>10, <1>11, <1>12, <1>13, <1>14, <2>1, MoneyMoves
  <1>16. QED
    BY <1>9, <1>15

\* A reversal ends what MoneyConserved says.
LEMMA ReversalMoney ==
    ASSUME Typed, Typed', Counted, MoneyConserved, NEW o \in Op, ReversalCommit(o)
    PROVE  Counted' /\ MoneyConserved'
  <1> DEFINE u == req[o].user
             a == req[o].amt
             n == NewLine("REVERSAL", a, seen[o].balance, seen[o].balance + a, <<"REV", o>>)
             e == [w \in {u} |-> n]
  <1>1. /\ pc[o] = "reversal" /\ req[o] \in WithdrawRequest /\ req' = req
        /\ pc' = [pc EXCEPT ![o] = "reversed"]
        /\ ledger' = [ledger EXCEPT ![u] = Append(ledger[u], n)]
    BY DEF ReversalCommit, WriteBack, Goto, Typed, Shape, Post, NewLine
  <1>t. /\ ledger \in [User -> Seq(Entry)] /\ seen[o] \in [balance : Int, sent : Nat]
        /\ pc \in [Op -> {Idle} \cup InFlight \cup Finished]
    BY DEF Typed, TypeOK
  <1>2. u \in User /\ a \in Amount /\ a \in Int /\ <<"REV", o>> \in Reference
    BY <1>1, AmountIsInt DEF WithdrawRequest, Reference
  <1>3. n \in Entry /\ n.ref = <<"REV", o>> /\ n.type = "REVERSAL"
    <2> HIDE DEF u, a
    <2>1. seen[o].balance \in Int /\ seen[o].balance + a \in Int
      BY <1>2, <1>t
    <2>2. QED
      BY <1>2, <2>1 DEF NewLine, Entry
  <1>4. {u} \in SUBSET User /\ e \in [{u} -> Entry] /\ e[u] = n
    BY <1>2, <1>3
  <1> HIDE DEF u, a, n, e
  <1>5. \A w \in User : ledger'[w] = IF w \in {u} THEN Append(ledger[w], e[w]) ELSE ledger[w]
    BY <1>1, <1>2, <1>4, <1>t
  <1>6. Charges' = Charges
    <2>1. \A p \in Op : ~ \E w \in {u} : e[w].ref = <<"WDR", p>>
      BY <1>3, <1>4
    <2>2. Charges' = Charges \cup {p \in Op : \E w \in {u} : e[w].ref = <<"WDR", p>>}
      BY <1>4, <1>5, ChargesAfter
    <2>3. QED
      BY <2>1, <2>2
  <1>7. \A p \in Op : pc'[p] = IF p = o THEN "reversed" ELSE pc[p]
    BY <1>1, <1>t
  <1>8. Credited' = Credited
    BY <1>1, <1>7 DEF Credited
  <1>9. Counted'
    BY <1>1, <1>6, <1>8 DEF Counted
  <1>10. ~ \A w \in User : NoReversal(ledger'[w])
    <2>1. (\A w \in User : NoReversal(ledger'[w])) => \A w \in {u} : e[w].type # "REVERSAL"
      BY <1>4, <1>5, LinesAdded
    <2>2. QED
      BY <1>3, <1>4, <2>1
  <1>11. MoneyConserved'
    BY <1>10, ConservedNext
  <1>12. QED
    BY <1>9, <1>11

LEMMA MoneyStep ==
    Typed /\ Typed' /\ Marked /\ Counted /\ MoneyConserved /\ [Next]_vars => Counted' /\ MoneyConserved'
  <1> SUFFICES ASSUME Typed, Typed', Marked, Counted, MoneyConserved, [Next]_vars
               PROVE  Counted' /\ MoneyConserved'
    OBVIOUS
  <1>r. ASSUME UNCHANGED <<balance, ledger, pc, req>> PROVE Counted' /\ MoneyConserved'
    <2>1. Credited' = Credited /\ \A p \in Credited \cup Charges : req'[p] = req[p]
      BY <1>r DEF Credited
    <2>2. QED
      BY <1>r, <2>1, MoneyStays
  \* Call o goes on, is not done with a credit, and asks for what it did.
  <1>q. ASSUME NEW o \in Op, NEW label, UNCHANGED <<balance, ledger, req>>,
               pc' = [pc EXCEPT ![o] = label], pc[o] # "done",
               label = "done" => req[o].kind # "credit"
        PROVE  Counted' /\ MoneyConserved'
    <2>1. \A p \in Op \ {o} : req'[p] = req[p]
      BY <1>q
    <2>2. label = "done" => req'[o].kind # "credit"
      BY <1>q
    <2>3. QED
      BY <1>q, <2>1, <2>2, QuietMoney
  <1>1. ASSUME NEW u \in User, OpenWallet(u) PROVE Counted' /\ MoneyConserved'
    BY <1>1, <1>r DEF OpenWallet
  <1>2. ASSUME NEW u \in User, NEW s \in Status, SetStatus(u, s) PROVE Counted' /\ MoneyConserved'
    BY <1>2, <1>r DEF SetStatus
  <1>3. ASSUME NEW o \in Op, Call(o) PROVE Counted' /\ MoneyConserved'
    <2>1. ASSUME NEW r, NEW label \in {"select", "locking", "lock"}, Start(o, r, label)
          PROVE  Counted' /\ MoneyConserved'
      <3>1. /\ pc[o] = Idle /\ pc' = [pc EXCEPT ![o] = label] /\ req' = [req EXCEPT ![o] = r]
            /\ UNCHANGED <<balance, ledger>>
        BY <2>1 DEF Start, Goto, walletVars
      <3>2. \A p \in Op \ {o} : req'[p] = req[p]
        BY <3>1 DEF Typed, TypeOK
      <3>3. pc[o] # "done" /\ label # "done"
        BY <2>1, <3>1 DEF Idle
      <3>4. QED
        BY <3>1, <3>2, <3>3, QuietMoney
    <2>2. QED
      BY <1>3, <2>1 DEF Call, BeginCredit, BeginTransfer, BeginWithdraw
  <1>4. ASSUME NEW o \in Op, CreditStep(o) PROVE Counted' /\ MoneyConserved'
    <2>1. CASE CreditCommit(o)
      BY <2>1, CreditMoney
    <2>2. CASE ~CreditCommit(o)
      BY <1>4, <2>2, <1>q DEF CreditStep, CreditSelect, CreditSelectNone, CreditInsert,
         CreditInsertConflict, CreditRefused, TakeLock, Rollback, Goto, walletVars
    <2>3. QED
      BY <2>1, <2>2
  <1>5. ASSUME NEW o \in Op, TransferStep(o) PROVE Counted' /\ MoneyConserved'
    <2>1. CASE TransferCommit(o)
      BY <2>1, TransferMoney
    <2>2. CASE \E w \in User : TransferLockRow(o, w)
      BY <2>2, <1>q DEF TransferLockRow, TakeLock, Goto, walletVars
    <2>3. CASE TransferDeadlock(o)
      <3>1. pc[o] = "locking"
        BY <2>3 DEF TransferDeadlock, OnWaitCycle, WaitsFor
      <3>2. QED
        BY <2>3, <3>1, <1>q DEF TransferDeadlock, Rollback, Goto, walletVars
    <2>4. CASE TransferRefused(o)
      BY <2>4, <1>q DEF TransferRefused, Rollback, Goto, walletVars
    <2>5. QED
      BY <1>5, <2>1, <2>2, <2>3, <2>4 DEF TransferStep
  <1>6. ASSUME NEW o \in Op, WithdrawStep(o) PROVE Counted' /\ MoneyConserved'
    <2>1. CASE WithdrawCommit(o)
      BY <2>1, WithdrawMoney
    <2>2. CASE ReversalCommit(o)
      BY <2>2, ReversalMoney
    <2>3. CASE Enqueue(o)
      <3>1. req[o].kind = "withdraw"
        BY <2>3 DEF Enqueue, Typed, Shape, WithdrawRequest
      <3>2. QED
        BY <2>3, <3>1, <1>q DEF Enqueue, Goto, walletVars
    <2>4. CASE WithdrawLock(o) \/ WithdrawRefused(o) \/ ReversalRead(o)
      BY <2>4, <1>q DEF WithdrawLock, WithdrawRefused, ReversalRead, TakeLock, Rollback,
         Goto, walletVars
    <2>5. QED
      BY <1>6, <2>1, <2>2, <2>3, <2>4 DEF WithdrawStep
  <1>7. ASSUME NEW o \in Op, NEW fault \in QueueFault, EnqueueFails(o, fault)
        PROVE  Counted' /\ MoneyConserved'
    BY <1>7, <1>q DEF EnqueueFails, Goto, walletVars
  <1>8. ASSUME NEW o \in Op, Crash(o) PROVE Counted' /\ MoneyConserved'
    BY <1>8, <1>q DEF Crash, Goto, walletVars, InFlight
  <1>f. ASSUME NEW o \in Op, StatementFails(o) \/ ReversalFails(o) PROVE Counted' /\ MoneyConserved'
    BY <1>f, <1>q DEF StatementFails, ReversalFails, Transacting, Rollback, Goto, walletVars
  <1>9. CASE UNCHANGED vars
    BY <1>9, <1>r DEF vars
  <1>10. QED
    BY <1>1, <1>2, <1>3, <1>4, <1>5, <1>6, <1>7, <1>8, <1>f, <1>9 DEF Next, Step

LEMMA InitMoney == Init => Counted /\ MoneyConserved
  <1> SUFFICES ASSUME Init PROVE Counted /\ MoneyConserved
    OBVIOUS
  <1>1. Typed /\ Marked
    BY InitTyped, InitBook
  <1>2. \A o \in Op : pc[o] = "idle"
    BY DEF Init, Idle
  <1>3. Credited = {}
    BY <1>2 DEF Credited
  <1>4. Charges = {}
    BY <1>1, <1>2, ChargedIsUsed DEF Charges, Marked, Charged
  <1>5. Counted
    BY <1>3, <1>4, FS_EmptySet DEF Counted
  <1>6. ASSUME NEW u \in User PROVE Endowment[u] = balance[u] /\ balance[u] \in Int
    <2>1. balance[u] \in Int
      BY InitBalance
    <2>2. CASE u \notin open
      <3>1. ledger[u] = <<>> /\ balance[u] = 0
        BY <2>2 DEF Init
      <3>2. QED
        BY <2>1, <3>1 DEF Endowment
    <2>3. CASE u \in open
      <3> DEFINE n == [type |-> "CREDIT", amt |-> balance[u], before |-> 0,
                       after |-> balance[u], ref |-> <<"OPENING", u>>]
      <3>1. ledger[u] = <<n>> /\ n.ref = <<"OPENING", u>> /\ n.amt = balance[u]
        BY <2>3 DEF Init
      <3> HIDE DEF n
      <3>2. Len(<<n>>) = 1 /\ <<n>>[1] = n
        OBVIOUS
      <3>3. QED
        BY <2>1, <3>1, <3>2 DEF Endowment
    <2>4. QED
      BY <2>2, <2>3
  <1>7. SumFunctionOnSet(balance, User) = SumFunctionOnSet(Endowment, User)
    BY <1>6, UserAssumption, SumSame
  <1>8. SumFunctionOnSet(Endowment, User) \in Int
    BY <1>6, UserAssumption, SumTakes
  <1>9. /\ SumFunctionOnSet(Moved(Credited), Credited) = 0
        /\ SumFunctionOnSet(Moved(Charges), Charges) = 0
    BY <1>3, <1>4, SumOfNone
  <1>10. SumFunctionOnSet(balance, User) =
           SumFunctionOnSet(Endowment, User) + SumFunctionOnSet(Moved(Credited), Credited)
           - SumFunctionOnSet(Moved(Charges), Charges)
    BY <1>7, <1>8, <1>9
  <1>11. QED
    BY <1>1, <1>5, <1>10, ConservedIs

\* However transfers, credits and withdrawals overlap, deadlock or crash, and
\* however many users there are, the wallets together hold what they started
\* with, plus the credits reported as done, less the withdrawals debited, until
\* a reversal writes back a balance that it had read without a lock.
THEOREM MoneyIsConserved == Spec => []MoneyConserved
  <1>1. /\ Typed /\ Marked /\ Counted /\ MoneyConserved /\ [Next]_vars
        => Typed' /\ Marked' /\ Counted' /\ MoneyConserved'
    BY NextTyped, BookStep, MoneyStep
  <1>2. Init => Typed /\ Marked /\ Counted /\ MoneyConserved
    BY InitTyped, InitBook, InitMoney
  <1>3. QED
    BY <1>1, <1>2, PTL DEF Spec
=============================================================================

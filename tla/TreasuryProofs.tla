---------------------------- MODULE TreasuryProofs ----------------------------
(***************************************************************************)
(* What Treasury guarantees for any number of wallets, calls, amounts and  *)
(* references, any reserve and any size of the connection pool.            *)
(***************************************************************************)
EXTENDS Treasury, WellFoundedInduction, TLAPS

Recording == {"record", "connect"} \cup InTransaction

\* A call that has got to pc[o] was asked for the operation that goes there, and
\* works on a wallet that is there.
Shape ==
    \A o \in Op :
        /\ pc[o] \in {"find", "again"} => req[o] \in SystemRequest
        /\ pc[o] \in {"ensure", "create"} => req[o] \in SystemRequest \cup BootRequest
        /\ pc[o] \in {"write", "writing"} =>
             /\ target[o] \in Wallet /\ label[target[o]] # "absent"
             /\ req[o] \in SystemRequest \cup BootRequest \cup UpdateRequest
        /\ pc[o] \in Recording => target[o] \in Wallet /\ req[o] \in MoveRequest

Typed == TypeOK /\ Shape

LEMMA InitTyped == Init => Typed
  <1> SUFFICES ASSUME Init PROVE Typed
    OBVIOUS
  <1>e. \A a \in Endowment : a \in Nat /\ a # 0
    BY EndowmentAssumption
  <1>1. \A w \in Wallet : balance[w] = 0 \/ (balance[w] \in Endowment /\ balance[w] \in Nat)
    BY <1>e DEF Init
  <1>2. ASSUME NEW w \in Wallet PROVE ledger[w] \in Seq(Entry)
    <2>1. CASE balance[w] = 0
      BY <2>1 DEF Init
    <2>2. CASE balance[w] # 0
      <3>1. <<"OPENING", w>> \in Reference
        BY DEF Reference
      <3>2. [type |-> "top_up", amt |-> balance[w], before |-> 0,
             after |-> balance[w], ref |-> <<"OPENING", w>>] \in Entry
        BY <1>1, <2>2, <3>1 DEF Entry, Credits
      <3>3. QED
        BY <2>2, <3>2 DEF Init
    <2>3. QED
      BY <2>1, <2>2
  <1>3. ledger \in [Wallet -> Seq(Entry)]
    BY <1>2 DEF Init
  <1>4. balance \in [Wallet -> Int]
    BY <1>1 DEF Init
  <1>5. TypeOK
    BY <1>3, <1>4 DEF TypeOK, Init, Status, Idle, Place, Row, NoRow
  <1>6. Shape
    BY DEF Shape, Init, Idle, Recording, InTransaction
  <1>7. QED
    BY <1>5, <1>6 DEF Typed

\* The line of a recording.
NewLine(o) == [type |-> req[o].type, amt |-> req[o].amt, before |-> locked[o].balance,
               after |-> After(o), ref |-> ReferenceOf(o)]

LEMMA LineType ==
    ASSUME Typed, NEW o \in Op, pc[o] \in Recording
    PROVE  /\ NewLine(o) \in Entry /\ ReferenceOf(o) \in Reference
           /\ req[o].amt \in Nat \ {0} /\ locked[o] \in Row /\ After(o) \in Int
           /\ target[o] \in Wallet /\ req[o].type \in Credits \cup Debits
  <1>1. /\ req[o] \in MoveRequest /\ locked[o] \in Row /\ target[o] \in Wallet
    BY DEF Typed, TypeOK, Shape
  <1>2. req[o].amt \in Amount /\ req[o].type \in Credits \cup Debits
    BY <1>1 DEF MoveRequest, SystemRequest, AdminRequest, Credits, Debits
  <1>3. req[o].amt \in Nat \ {0}
    BY <1>2, AmountAssumption
  <1>4. locked[o].balance \in Int /\ After(o) \in Int
    BY <1>1, <1>3 DEF Row, After
  <1>5. ReferenceOf(o) \in Reference
    <2>1. CASE req[o] \in AdminRequest /\ req[o].ref # None
      <3>1. req[o].ref \in Ref
        BY <2>1 DEF AdminRequest
      <3>2. QED
        BY <2>1, <3>1 DEF ReferenceOf, Reference
    <2>2. CASE ~(req[o] \in AdminRequest /\ req[o].ref # None)
      BY <2>2 DEF ReferenceOf, Reference
    <2>3. QED
      BY <2>1, <2>2
  <1>6. NewLine(o) \in Entry
    BY <1>2, <1>4, <1>5 DEF NewLine, Entry
  <1>7. QED
    BY <1>1, <1>2, <1>3, <1>4, <1>5, <1>6

\* A call goes on: with what Shape asks for at its new place, the types stay.
LEMMA GoesOn ==
    ASSUME Typed, NEW o \in Op, NEW place \in Place,
           pc' = [pc EXCEPT ![o] = place],
           UNCHANGED <<label, req, target>>,
           place \in {"find", "again"} => req[o] \in SystemRequest,
           place \in {"ensure", "create"} => req[o] \in SystemRequest \cup BootRequest,
           place \in {"write", "writing"} =>
             /\ target[o] \in Wallet /\ label[target[o]] # "absent"
             /\ req[o] \in SystemRequest \cup BootRequest \cup UpdateRequest,
           place \in Recording => target[o] \in Wallet /\ req[o] \in MoveRequest
    PROVE  Shape' /\ pc' \in [Op -> Place]
  BY DEF Typed, TypeOK, Shape

LEMMA NextTyped == Typed /\ [Next]_vars => Typed'
  <1> SUFFICES ASSUME Typed, [Next]_vars PROVE Typed'
    OBVIOUS
  <1> USE DEF rowVars, moneyVars
  <1>t. TypeOK /\ Shape
    BY DEF Typed
  <1>r. \A o \in Op : RowOf(target[o]) \in Row \/ target[o] \notin Wallet
    BY <1>t DEF TypeOK, RowOf, Row
  <1>z. NoRow \in Row
    BY DEF NoRow, Row
  \* A step without a write: what a call asks, works on and has locked is kept.
  <1>p. ASSUME NEW o \in Op, NEW place \in Place, Proceed(o, place),
               place \in {"find", "again"} => req[o] \in SystemRequest,
               place \in {"ensure", "create"} => req[o] \in SystemRequest \cup BootRequest,
               place \in {"write", "writing"} =>
                 /\ target[o] \in Wallet /\ label[target[o]] # "absent"
                 /\ req[o] \in SystemRequest \cup BootRequest \cup UpdateRequest,
               place \in Recording => target[o] \in Wallet /\ req[o] \in MoveRequest
        PROVE  Typed'
    <2>1. Shape' /\ pc' \in [Op -> Place]
      BY <1>p, GoesOn DEF Proceed, Goto
    <2>2. QED
      BY <1>p, <1>t, <2>1 DEF Proceed, Typed, TypeOK
  <1>s. ASSUME NEW o \in Op, NEW r \in Request, NEW w \in Wallet \cup {None}, NEW place \in Place,
               Start(o, r, w, place), checked' \in [Op -> Int],
               place \in {"find", "again"} => r \in SystemRequest,
               place \in {"ensure", "create"} => r \in SystemRequest \cup BootRequest,
               place \in {"write", "writing"} =>
                 w \in Wallet /\ label[w] # "absent" /\ r \in UpdateRequest,
               place \in Recording => w \in Wallet /\ r \in MoveRequest
        PROVE  Typed'
    <2>1. /\ req' = [req EXCEPT ![o] = r] /\ target' = [target EXCEPT ![o] = w]
          /\ pc' = [pc EXCEPT ![o] = place] /\ UNCHANGED <<label, status, moneyVars, rowLock, locked>>
      BY <1>s DEF Start, Goto
    <2>2. TypeOK'
      BY <1>s, <1>t, <2>1 DEF TypeOK
    <2>3. Shape'
      BY <1>s, <1>t, <2>1 DEF TypeOK, Shape
    <2>4. QED
      BY <2>2, <2>3 DEF Typed
  <1>b. ASSUME NEW o \in Op, Rollback(o) PROVE Typed'
    <2>1. Shape' /\ pc' \in [Op -> Place]
      BY <1>b, GoesOn DEF Rollback, Goto, Place, Finished, Recording, InTransaction
    <2>2. QED
      BY <1>b, <1>t, <1>z, <2>1 DEF Rollback, Release, Typed, TypeOK
  <1>1. ASSUME NEW w \in Wallet, NEW l \in Label, CreateWallet(w, l) PROVE Typed'
    BY <1>1, <1>t DEF CreateWallet, Typed, TypeOK, Shape, Label, Status
  <1>2. ASSUME NEW o \in Op, Call(o) PROVE Typed'
    <2> USE DEF Place, Finished, InTransaction, Recording, Idle
    <2>1. CASE Boot(o)
      <3>1. [type |-> "boot"] \in BootRequest /\ [type |-> "boot"] \in Request
        BY DEF BootRequest, Request
      <3>2. QED
        BY <2>1, <3>1, <1>s, <1>t DEF Boot, TypeOK
    <2>2. ASSUME NEW w \in Wallet, NEW l \in {"main", "other", None}, NEW s \in Status \cup {None},
                 BeginUpdate(o, w, l, s)
          PROVE  Typed'
      <3> DEFINE r == [type |-> "update", label |-> l, status |-> s]
      <3>1. r \in UpdateRequest /\ r \in Request
        BY DEF UpdateRequest, Request, Label
      <3>2. Start(o, r, w, "write") /\ label[w] # "absent" /\ checked' \in [Op -> Int]
        BY <2>2, <1>t DEF BeginUpdate, TypeOK
      <3> HIDE DEF r
      <3>3. QED
        BY <3>1, <3>2, <1>s
    <2>3. ASSUME NEW a \in Amount, BeginFee(o, a) \/ BeginReserve(o, a) PROVE Typed'
      <3>1. \A t \in {"fee_credit", "payout_reserve"} :
               [type |-> t, amt |-> a] \in SystemRequest /\ [type |-> t, amt |-> a] \in Request
        BY DEF SystemRequest, MoveRequest, Request
      <3>2. checked' \in [Op -> Int]
        BY <2>3, <1>t DEF BeginFee, BeginReserve, TypeOK
      <3>3. \E t \in {"fee_credit", "payout_reserve"} : Start(o, [type |-> t, amt |-> a], None, "find")
        BY <2>3 DEF BeginFee, BeginReserve
      <3>4. QED
        BY <3>1, <3>2, <3>3, <1>s
    <2>4. ASSUME NEW a \in Amount, NEW w \in Wallet, NEW r \in Ref \cup {None}, BeginTopUp(o, w, a, r)
          PROVE  Typed'
      <3> DEFINE q == [type |-> "top_up", amt |-> a, ref |-> r, force |-> FALSE]
      <3>1. q \in AdminRequest
        BY DEF AdminRequest
      <3>2. q \in MoveRequest /\ q \in Request
        BY <3>1 DEF MoveRequest, Request
      <3>3. Start(o, q, w, "record") /\ checked' \in [Op -> Int]
        BY <2>4, <1>t DEF BeginTopUp, TypeOK
      <3> HIDE DEF q
      <3>4. QED
        BY <3>2, <3>3, <1>s
    <2>5. ASSUME NEW a \in Amount, NEW w \in Wallet, NEW r \in Ref \cup {None}, NEW force \in BOOLEAN,
                 BeginWithdraw(o, w, a, r, force)
          PROVE  Typed'
      <3> DEFINE q == [type |-> "debit", amt |-> a, ref |-> r, force |-> force]
      <3>1. q \in AdminRequest
        BY DEF AdminRequest
      <3>2. q \in MoveRequest /\ q \in Request
        BY <3>1 DEF MoveRequest, Request
      <3>3. Start(o, q, w, "record") /\ checked' \in [Op -> Int]
        BY <2>5, <1>t DEF BeginWithdraw, TypeOK
      <3> HIDE DEF q
      <3>4. QED
        BY <3>2, <3>3, <1>s
    <2>6. QED
      BY <1>2, <2>1, <2>2, <2>3, <2>4, <2>5 DEF Call
  <1>3. ASSUME NEW o \in Op, MainStep(o) PROVE Typed'
    <2> USE DEF Place, Finished, InTransaction, Recording, Idle
    <2>0. SystemRequest \subseteq MoveRequest
      BY DEF MoveRequest
    <2>a. /\ \A r \in SystemRequest : r.type \in {"fee_credit", "payout_reserve"}
          /\ \A r \in BootRequest : r.type = "boot"
          /\ \A r \in UpdateRequest : /\ r.type = "update" /\ r.label \in (Label \ {"absent"}) \cup {None}
                                      /\ r.status \in Status \cup {None}
      BY DEF SystemRequest, BootRequest, UpdateRequest
    <2>b. /\ pc[o] \in {"ensure", "create"} \/ (pc[o] = "writing" /\ req[o].type # "update") =>
               req[o] \in SystemRequest \cup BootRequest
      BY <1>t, <2>a DEF Shape
    <2>c. req[o] \in SystemRequest \cup BootRequest =>
            /\ Ensured(o) \in {"done", "again"}
            /\ Ensured(o) = "again" => req[o] \in SystemRequest
      BY <2>a DEF Ensured
    <2>1. ASSUME NEW w \in Wallet, Find(o, w) PROVE Typed'
      <3>1. /\ target' = [target EXCEPT ![o] = w] /\ pc' = [pc EXCEPT ![o] = "record"]
            /\ req[o] \in MoveRequest /\ UNCHANGED <<label, req>>
        BY <2>1, <1>t, <2>0 DEF Find, Goto, Shape
      <3>2. Shape'
        BY <3>1, <1>t DEF Shape, TypeOK
      <3>3. TypeOK'
        BY <2>1, <3>1, <1>t DEF Find, TypeOK
      <3>4. QED
        BY <3>2, <3>3 DEF Typed
    <2>2. ASSUME NEW w \in Wallet, Ensure(o, w) PROVE Typed'
      <3> DEFINE place == IF status[w] = "active" THEN Ensured(o) ELSE "write"
      <3>1. /\ target' = [target EXCEPT ![o] = w] /\ pc' = [pc EXCEPT ![o] = place]
            /\ req[o] \in SystemRequest \cup BootRequest /\ UNCHANGED <<label, req>> /\ label[w] = "main"
        BY <2>2, <2>b DEF Ensure, Goto, Main
      <3>2. place \in {"done", "again", "write"} /\ (place = "again" => req[o] \in SystemRequest)
        BY <3>1, <2>c
      <3> HIDE DEF place
      <3>3. Shape'
        BY <3>1, <3>2, <1>t DEF Shape, TypeOK
      <3>4. TypeOK'
        BY <2>2, <3>1, <3>2, <1>t DEF Ensure, TypeOK
      <3>5. QED
        BY <3>3, <3>4 DEF Typed
    <2>3. ASSUME NEW w \in Wallet, CreateMain(o, w) PROVE Typed'
      <3> DEFINE place == Ensured(o)
      <3>1. /\ label' = [label EXCEPT ![w] = "main"] /\ status' = [status EXCEPT ![w] = "active"]
            /\ pc' = [pc EXCEPT ![o] = place] /\ UNCHANGED <<moneyVars, rowLock, req, target, checked, locked>>
        BY <2>3 DEF CreateMain, Goto
      <3>2. place \in {"done", "again"} /\ (place = "again" => req[o] \in SystemRequest)
        BY <2>3, <2>b, <2>c DEF CreateMain
      <3> HIDE DEF place
      <3>3. Shape'
        BY <3>1, <3>2, <1>t DEF Shape, TypeOK
      <3>4. TypeOK'
        BY <3>1, <3>2, <1>t DEF TypeOK, Label, Status
      <3>5. QED
        BY <3>3, <3>4 DEF Typed
    <2>4. CASE FindNone(o)
      <3>1. pc[o] \in {"find", "again"} /\ req[o] \in SystemRequest
        BY <2>4, <1>t DEF FindNone, Shape
      <3>2. Proceed(o, "ensure") \/ Proceed(o, "failed")
        BY <2>4 DEF FindNone
      <3>3. QED
        BY <3>1, <3>2, <1>p
    <2>5. CASE EnsureNone(o)
      BY <2>5, <2>b, <1>p DEF EnsureNone
    <2>6. CASE Write(o)
      BY <2>6, <1>t, <1>p DEF Write, Shape
    <2>7. ASSUME NEW l \in Label \ {"absent"}, NEW s \in Status, NEW place \in {"done", "again"},
                 pc[o] = "writing", WriteRow(o, l, s), Goto(o, place),
                 place = "again" => req[o] \in SystemRequest
          PROVE  Typed'
      <3>1. /\ target[o] \in Wallet
            /\ label' = [label EXCEPT ![target[o]] = l] /\ status' = [status EXCEPT ![target[o]] = s]
            /\ pc' = [pc EXCEPT ![o] = place] /\ UNCHANGED <<moneyVars, rowLock, req, target, checked, locked>>
        BY <2>7, <1>t DEF WriteRow, Goto, Shape
      <3>2. TypeOK'
        BY <2>7, <3>1, <1>t DEF TypeOK
      <3>3. Shape'
        BY <2>7, <3>1, <1>t DEF Shape, TypeOK
      <3>4. QED
        BY <3>2, <3>3 DEF Typed
    <2>8. pc[o] = "writing" => label[target[o]] \in Label \ {"absent"} /\ status[target[o]] \in Status
      BY <1>t DEF TypeOK, Shape
    <2>9. CASE Reactivate(o)
      <3>1. pc[o] = "writing" /\ WriteRow(o, label[target[o]], "active") /\ Goto(o, Ensured(o))
            /\ req[o].type # "update"
        BY <2>9 DEF Reactivate
      <3>2. QED
        BY <3>1, <2>7, <2>8, <2>b, <2>c DEF Status
    <2>10. CASE Update(o)
      <3> DEFINE l == IF req[o].label = None THEN label[target[o]] ELSE req[o].label
                 s == IF req[o].status = None THEN status[target[o]] ELSE req[o].status
      <3>1. pc[o] = "writing" /\ WriteRow(o, l, s) /\ Goto(o, "done") /\ req[o].type = "update"
        BY <2>10 DEF Update
      <3>2. req[o] \in UpdateRequest
        BY <3>1, <2>a, <1>t DEF Shape
      <3>3. l \in Label \ {"absent"} /\ s \in Status
        BY <3>1, <3>2, <2>a, <2>8
      <3> HIDE DEF l, s
      <3>4. QED
        BY <3>1, <3>3, <2>7
    <2>11. QED
      BY <1>3, <2>1, <2>2, <2>3, <2>4, <2>5, <2>6, <2>9, <2>10 DEF MainStep
  <1>4. ASSUME NEW o \in Op, RecordStep(o) PROVE Typed'
    <2> USE DEF Place, Finished, InTransaction, Recording, Idle
    <2>0. pc[o] \in Recording => target[o] \in Wallet /\ req[o] \in MoveRequest
      BY <1>t DEF Shape
    <2>1. CASE Record(o) \/ RecordRefused(o) \/ Connect(o)
      BY <2>1, <2>0, <1>p DEF Record, RecordRefused, Connect
    <2>2. CASE Insert(o)
      <3>1. Proceed(o, "aside") \/ Proceed(o, "commit")
        BY <2>2 DEF Insert
      <3>2. QED
        BY <2>2, <3>1, <2>0, <1>p DEF Insert
    <2>3. CASE InsertRefused(o) \/ AsideFails(o)
      BY <2>3, <1>b DEF InsertRefused, AsideFails
    <2>4. CASE Aside(o)
      BY <2>4, <2>0, <1>p DEF Aside
    <2>5. CASE LockRow(o)
      <3>1. Shape' /\ pc' \in [Op -> Place]
        BY <2>5, <2>0, GoesOn DEF LockRow, Goto
      <3>2. QED
        BY <2>5, <2>0, <3>1, <1>t, <1>r DEF LockRow, Typed, TypeOK
    <2>6. CASE Commit(o)
      <3>1. Shape' /\ pc' \in [Op -> Place]
        BY <2>6, GoesOn DEF Commit, Goto
      <3>2. /\ NewLine(o) \in Entry /\ target[o] \in Wallet /\ After(o) \in Int
            /\ req[o].amt \in Int /\ locked[o] \in Row
        BY <2>6, LineType DEF Commit
      <3>3. ledger' \in [Wallet -> Seq(Entry)]
        BY <2>6, <3>2, <1>t DEF Commit, NewLine, TypeOK
      <3>4. /\ balance' \in [Wallet -> Int] /\ credited' \in [Wallet -> Int]
            /\ fees' \in [Wallet -> Int] /\ debited' \in [Wallet -> Int]
        <4>1. /\ locked[o].credited + req[o].amt \in Int /\ locked[o].fees + req[o].amt \in Int
              /\ locked[o].debited + req[o].amt \in Int
          BY <3>2 DEF Row
        <4>2. \A f \in [Wallet -> Int], n \in Int : [f EXCEPT ![target[o]] = n] \in [Wallet -> Int]
          BY <3>2
        <4>3. /\ balance' = [balance EXCEPT ![target[o]] = After(o)]
              /\ credited' \in {credited, [credited EXCEPT ![target[o]] = locked[o].credited + req[o].amt]}
              /\ fees' \in {fees, [fees EXCEPT ![target[o]] = locked[o].fees + req[o].amt]}
              /\ debited' \in {debited, [debited EXCEPT ![target[o]] = locked[o].debited + req[o].amt]}
          BY <2>6 DEF Commit
        <4>4. /\ balance \in [Wallet -> Int] /\ credited \in [Wallet -> Int]
              /\ fees \in [Wallet -> Int] /\ debited \in [Wallet -> Int]
          BY <1>t DEF TypeOK
        <4>5. QED
          BY <3>2, <4>1, <4>2, <4>3, <4>4
      <3>5. QED
        BY <2>6, <3>1, <3>3, <3>4, <1>t, <1>z DEF Commit, Release, Typed, TypeOK
    <2>7. QED
      BY <1>4, <2>1, <2>2, <2>3, <2>4, <2>5, <2>6 DEF RecordStep
  <1>5. ASSUME NEW o \in Op, Crash(o) PROVE Typed'
    BY <1>5, <1>b, GoesOn, <1>t, <1>z DEF Crash, Release, Goto, Place, Finished, Recording, InTransaction,
       Typed, TypeOK
  <1>6. CASE UNCHANGED vars
    BY <1>6, <1>t DEF vars, Typed, TypeOK, Shape
  <1>7. QED
    BY <1>1, <1>2, <1>3, <1>4, <1>5, <1>6 DEF Next

\* Every column and every line keeps its type, whatever is written from what.
THEOREM TypeCorrect == Spec => []TypeOK
  <1>1. Typed => TypeOK
    BY DEF Typed
  <1>2. QED
    BY <1>1, InitTyped, NextTyped, PTL DEF Spec

-----------------------------------------------------------------------------
\* The main wallet in service.  An update that is about to put a wallet under
\* maintenance found it to be no main wallet, and can meet one only after
\* another update has made it one.
Promoted(w) ==
    \E o \in Op : pc[o] = "done" /\ target[o] = w /\ req[o].type = "update" /\ req[o].label = "main"

Guarded ==
    /\ MainInService
    /\ \A o \in Op :
         /\ pc[o] \in {"write", "writing"}
         /\ req[o].type = "update" /\ req[o].status = "maintenance"
         /\ label[target[o]] = "main"
         => Promoted(target[o])

LEMMA GuardedStep == Typed /\ Guarded /\ [Next]_vars => Guarded'
  <1> SUFFICES ASSUME Typed, Guarded, [Next]_vars PROVE Guarded'
    OBVIOUS
  <1> USE DEF rowVars, moneyVars
  <1>t. /\ pc \in [Op -> Place] /\ target \in [Op -> Wallet \cup {None}]
        /\ req \in [Op -> Request \cup {None}]
        /\ label \in [Wallet -> Label] /\ status \in [Wallet -> Status]
        /\ \A o \in Op : pc[o] \in {"write", "writing"} =>
             target[o] \in Wallet /\ label[target[o]] # "absent"
    BY DEF Typed, TypeOK, Shape
  <1>g. /\ \A w \in Wallet : label[w] = "main" /\ status[w] = "maintenance" => Promoted(w)
        /\ \A o \in Op : /\ pc[o] \in {"write", "writing"}
                         /\ req[o].type = "update" /\ req[o].status = "maintenance"
                         /\ label[target[o]] = "main"
                         => Promoted(target[o])
    BY DEF Guarded, MainInService, Promoted
  <1>f. (/\ \A w \in Wallet : label'[w] = "main" /\ status'[w] = "maintenance" => Promoted(w)'
         /\ \A o \in Op : /\ pc'[o] \in {"write", "writing"}
                          /\ req'[o].type = "update" /\ req'[o].status = "maintenance"
                          /\ label'[target'[o]] = "main"
                          => Promoted(target[o])')
        => Guarded'
    BY DEF Guarded, MainInService, Promoted
  \* Nobody undoes a promotion.
  <1>k. ASSUME NEW o \in Op, pc[o] # "done",
               \A p \in Op \ {o} : pc'[p] = pc[p] /\ req'[p] = req[p] /\ target'[p] = target[p]
        PROVE  \A w : Promoted(w) => Promoted(w)'
    BY <1>k DEF Promoted
  \* A step of o that writes no row and does not take an update to its write.
  <1>q. ASSUME NEW o \in Op, NEW place, pc[o] # "done", pc' = [pc EXCEPT ![o] = place],
               UNCHANGED <<label, status>>,
               \A p \in Op \ {o} : req'[p] = req[p] /\ target'[p] = target[p],
               place \in {"write", "writing"} =>
                  \/ req'[o].type # "update"
                  \/ pc[o] = "write" /\ target'[o] = target[o] /\ req'[o] = req[o]
                  \/ req'[o].status # "maintenance" \/ label[target'[o]] # "main"
        PROVE  Guarded'
    <2>1. \A p \in Op : pc'[p] = IF p = o THEN place ELSE pc[p]
      BY <1>q, <1>t
    <2>2. \A w : Promoted(w) => Promoted(w)'
      BY <1>q, <1>k, <2>1
    <2>3. \A w \in Wallet : label'[w] = "main" /\ status'[w] = "maintenance" => Promoted(w)'
      BY <1>q, <1>g, <2>2
    <2>4. ASSUME NEW p \in Op, pc'[p] \in {"write", "writing"}, req'[p].type = "update",
                 req'[p].status = "maintenance", label'[target'[p]] = "main"
          PROVE  Promoted(target[p])'
      <3>1. pc[p] \in {"write", "writing"} /\ req'[p] = req[p] /\ target'[p] = target[p]
        BY <1>q, <2>1, <2>4
      <3>2. Promoted(target[p])
        BY <1>q, <1>g, <2>4, <3>1
      <3>3. QED
        BY <2>2, <3>1, <3>2 DEF Promoted
    <2>5. QED
      BY <1>f, <2>3, <2>4
  \* A wallet that is new is in service and nobody works on it.
  <1>c. ASSUME NEW w \in Wallet, NEW l, label[w] = "absent",
               label' = [label EXCEPT ![w] = l], status' = [status EXCEPT ![w] = "active"],
               UNCHANGED <<req, target>>,
               \/ pc' = pc
               \/ \E o \in Op, place \in {"done", "again"} :
                     pc[o] # "done" /\ pc' = [pc EXCEPT ![o] = place]
        PROVE  Guarded'
    <2>1. \A v : Promoted(v) => Promoted(v)'
      BY <1>c, <1>t DEF Promoted
    <2>2. \A v \in Wallet : label'[v] = "main" /\ status'[v] = "maintenance" => Promoted(v)'
      BY <1>c, <1>t, <1>g, <2>1
    <2>3. \A p \in Op : pc'[p] \in {"write", "writing"} => pc[p] = pc'[p]
      BY <1>c, <1>t
    <2>4. \A p \in Op : pc'[p] \in {"write", "writing"} => label'[target'[p]] = label[target[p]]
      BY <1>c, <1>t, <2>3
    <2>5. ASSUME NEW p \in Op, pc'[p] \in {"write", "writing"}, req'[p].type = "update",
                 req'[p].status = "maintenance", label'[target'[p]] = "main"
          PROVE  Promoted(target[p])'
      <3>1. Promoted(target[p])
        BY <1>c, <1>g, <2>3, <2>4, <2>5
      <3>2. Promoted(target[p])' <=> \E o \in Op : pc'[o] = "done" /\ target[o] = target[p]
                                         /\ req[o].type = "update" /\ req[o].label = "main"
        BY <1>c DEF Promoted
      <3>3. \A o \in Op : pc[o] = "done" => pc'[o] = "done"
        BY <1>c, <1>t
      <3>4. QED
        BY <3>1, <3>2, <3>3 DEF Promoted
    <2>6. QED
      BY <1>f, <2>2, <2>5
  \* The row of o's wallet is written.
  <1>w. ASSUME NEW o \in Op, NEW l, NEW s, NEW place \in {"done", "again"}, pc[o] = "writing",
               WriteRow(o, l, s), Goto(o, place),
               l = "main" => \/ Promoted(target[o])'
                             \/ label[target[o]] = "main" /\ s # "maintenance"
                             \/ label[target[o]] = "main" /\ Promoted(target[o])
        PROVE  Guarded'
    <2>1. /\ label' = [label EXCEPT ![target[o]] = l] /\ status' = [status EXCEPT ![target[o]] = s]
          /\ pc' = [pc EXCEPT ![o] = place] /\ UNCHANGED <<req, target>> /\ target[o] \in Wallet
      BY <1>w, <1>t DEF WriteRow, Goto
    <2>2. \A p \in Op : pc'[p] = IF p = o THEN place ELSE pc[p]
      BY <2>1, <1>t
    <2>3. \A v : Promoted(v) => Promoted(v)'
      BY <1>w, <1>k, <2>1, <2>2
    <2>4. \A v \in Wallet : label'[v] = "main" /\ status'[v] = "maintenance" => Promoted(v)'
      <3> SUFFICES ASSUME NEW v \in Wallet, label'[v] = "main", status'[v] = "maintenance"
                   PROVE  Promoted(v)'
        OBVIOUS
      <3>1. CASE v = target[o]
        <4>1. l = "main" /\ s = "maintenance"
          BY <2>1, <3>1, <1>t
        <4>2. CASE Promoted(target[o])'
          BY <2>1, <3>1, <4>2 DEF Promoted
        <4>3. QED
          BY <1>w, <2>3, <3>1, <4>1, <4>2
      <3>2. CASE v # target[o]
        BY <2>1, <2>3, <3>2, <1>t, <1>g
      <3>3. QED
        BY <3>1, <3>2
    <2>5. ASSUME NEW p \in Op, pc'[p] \in {"write", "writing"}, req'[p].type = "update",
                 req'[p].status = "maintenance", label'[target'[p]] = "main"
          PROVE  Promoted(target[p])'
      <3>1. pc[p] \in {"write", "writing"} /\ p # o /\ req'[p] = req[p] /\ target'[p] = target[p]
        BY <2>1, <2>2, <2>5
      <3>2. CASE label[target[p]] = "main"
        BY <1>g, <2>3, <2>5, <3>1, <3>2 DEF Promoted
      <3>3. CASE label[target[p]] # "main"
        <4>1. target[p] = target[o] /\ l = "main"
          BY <1>t, <2>1, <2>5, <3>1, <3>3
        <4>2. Promoted(target[o])'
          BY <1>w, <3>3, <4>1
        <4>3. QED
          BY <2>1, <4>1, <4>2 DEF Promoted
      <3>4. QED
        BY <3>2, <3>3
    <2>6. QED
      BY <1>f, <2>4, <2>5
  <1>1. ASSUME NEW w \in Wallet, NEW l \in Label, CreateWallet(w, l) PROVE Guarded'
    BY <1>1, <1>c DEF CreateWallet
  <1>2. ASSUME NEW o \in Op, Call(o) PROVE Guarded'
    \* Only an update begins at its write.
    <2>1. ASSUME NEW r, NEW w, NEW place, Start(o, r, w, place),
                 place = "write" => r.status # "maintenance" \/ label[w] # "main", place # "writing"
          PROVE  Guarded'
      <3>1. /\ pc[o] # "done" /\ pc' = [pc EXCEPT ![o] = place]
            /\ req' = [req EXCEPT ![o] = r] /\ target' = [target EXCEPT ![o] = w]
            /\ UNCHANGED <<label, status>>
        BY <2>1 DEF Start, Goto, Idle
      <3>2. req'[o] = r /\ target'[o] = w
        BY <3>1, <1>t
      <3>3. QED
        BY <2>1, <3>1, <3>2, <1>q, <1>t
    <2>2. ASSUME NEW w \in Wallet, NEW l \in {"main", "other", None}, NEW s \in Status \cup {None},
                 BeginUpdate(o, w, l, s)
          PROVE  Guarded'
      <3> DEFINE r == [type |-> "update", label |-> l, status |-> s]
      <3>1. /\ Start(o, r, w, "write")
            /\ r.status # "maintenance" \/ label[w] # "main"
        BY <2>2 DEF BeginUpdate
      <3> HIDE DEF r
      <3>2. QED
        BY <3>1, <2>1
    <2>3. CASE Boot(o)
      BY <2>3, <2>1 DEF Boot
    <2>4. ASSUME NEW a \in Amount, BeginFee(o, a) \/ BeginReserve(o, a) PROVE Guarded'
      BY <2>4, <2>1 DEF BeginFee, BeginReserve
    <2>5. ASSUME NEW a \in Amount, NEW w \in Wallet, NEW r \in Ref \cup {None}, BeginTopUp(o, w, a, r)
          PROVE  Guarded'
      BY <2>5, <2>1 DEF BeginTopUp
    <2>6. ASSUME NEW a \in Amount, NEW w \in Wallet, NEW r \in Ref \cup {None}, NEW force \in BOOLEAN,
                 BeginWithdraw(o, w, a, r, force)
          PROVE  Guarded'
      BY <2>6, <2>1 DEF BeginWithdraw
    <2>7. QED
      BY <1>2, <2>2, <2>3, <2>4, <2>5, <2>6 DEF Call
  <1>3. ASSUME NEW o \in Op, MainStep(o) PROVE Guarded'
    <2>0. /\ \A r \in SystemRequest \cup BootRequest : r.type # "update"
          /\ pc[o] \in {"ensure", "create"} => req[o].type # "update"
          /\ pc[o] \in {"ensure", "create", "writing"} => Ensured(o) \in {"done", "again"}
      BY DEF SystemRequest, BootRequest, Typed, Shape, Ensured
    <2>1. ASSUME NEW w \in Wallet, Find(o, w) PROVE Guarded'
      BY <2>1, <1>t, <1>q DEF Find, Goto
    <2>2. ASSUME NEW w \in Wallet, Ensure(o, w) PROVE Guarded'
      BY <2>2, <2>0, <1>t, <1>q DEF Ensure, Goto
    <2>3. ASSUME NEW w \in Wallet, CreateMain(o, w) PROVE Guarded'
      <3>1. /\ label[w] = "absent" /\ label' = [label EXCEPT ![w] = "main"]
            /\ status' = [status EXCEPT ![w] = "active"] /\ UNCHANGED <<req, target>>
            /\ pc[o] = "create" /\ pc' = [pc EXCEPT ![o] = Ensured(o)]
        BY <2>3 DEF CreateMain, Goto
      <3>2. QED
        BY <3>1, <2>0, <1>c
    <2>4. CASE FindNone(o) \/ EnsureNone(o) \/ Write(o)
      BY <2>4, <1>q DEF FindNone, EnsureNone, Write, Proceed, Goto
    <2>5. CASE Reactivate(o)
      <3>1. /\ pc[o] = "writing" /\ WriteRow(o, label[target[o]], "active") /\ Goto(o, Ensured(o))
        BY <2>5 DEF Reactivate
      <3>2. QED
        BY <3>1, <2>0, <1>w
    <2>6. CASE Update(o)
      <3> DEFINE l == IF req[o].label = None THEN label[target[o]] ELSE req[o].label
                 s == IF req[o].status = None THEN status[target[o]] ELSE req[o].status
      <3>1. /\ pc[o] = "writing" /\ req[o].type = "update" /\ WriteRow(o, l, s) /\ Goto(o, "done")
            /\ target[o] \in Wallet
        BY <2>6, <1>t DEF Update
      <3>2. ASSUME l = "main"
            PROVE  \/ Promoted(target[o])'
                   \/ label[target[o]] = "main" /\ s # "maintenance"
                   \/ label[target[o]] = "main" /\ Promoted(target[o])
        <4>1. CASE req[o].label = "main"
          <5>1. pc'[o] = "done" /\ target' = target /\ req' = req
            BY <3>1, <1>t DEF WriteRow, Goto
          <5>2. QED
            BY <3>1, <4>1, <5>1 DEF Promoted
        <4>2. CASE req[o].label # "main"
          <5>1. label[target[o]] = "main"
            BY <3>2, <4>2
          <5>2. s = "maintenance" => status[target[o]] = "maintenance" \/ req[o].status = "maintenance"
            OBVIOUS
          <5>3. QED
            BY <3>1, <5>1, <5>2, <1>g
        <4>3. QED
          BY <4>1, <4>2
      <3> HIDE DEF l, s
      <3>3. QED
        BY <3>1, <3>2, <1>w
    <2>7. QED
      BY <1>3, <2>1, <2>2, <2>3, <2>4, <2>5, <2>6 DEF MainStep
  <1>4. ASSUME NEW o \in Op, RecordStep(o) PROVE Guarded'
    <2>1. CASE Record(o) \/ RecordRefused(o) \/ Connect(o) \/ Insert(o) \/ Aside(o)
      BY <2>1, <1>q DEF Record, RecordRefused, Connect, Insert, Aside, Proceed, Goto
    <2>2. CASE InsertRefused(o) \/ AsideFails(o)
      BY <2>2, <1>q DEF InsertRefused, AsideFails, Rollback, Goto
    <2>3. CASE LockRow(o) \/ Commit(o)
      BY <2>3, <1>q DEF LockRow, Commit, Goto
    <2>4. QED
      BY <1>4, <2>1, <2>2, <2>3 DEF RecordStep
  <1>5. ASSUME NEW o \in Op, Crash(o) PROVE Guarded'
    BY <1>5, <1>q DEF Crash, Goto, Finished
  <1>6. CASE UNCHANGED vars
    BY <1>6 DEF vars, Guarded, MainInService, Promoted
  <1>7. QED
    BY <1>1, <1>2, <1>3, <1>4, <1>5, <1>6 DEF Next

\* The main wallet gets under maintenance only when an update has made a main
\* wallet of another one, however updates and starts of processes overlap.
THEOREM MainStaysInService == Spec => []MainInService
  <1>1. Init => Guarded
    BY DEF Init, Guarded, MainInService, Idle
  <1>2. Guarded => MainInService
    BY DEF Guarded
  <1>3. QED
    BY <1>1, <1>2, InitTyped, NextTyped, GuardedStep, PTL DEF Spec

-----------------------------------------------------------------------------
(* The account book, and the reserve *)

\* A recording that has read its row holds it, and the row is still as it was
\* read; one that has inserted its line is the only one with its reference.
Exclusive ==
    /\ \A o \in Op : pc[o] \in {"insert", "aside", "commit"} =>
         rowLock[target[o]] = o /\ locked[o] = RowOf(target[o])
    /\ \A o \in Op : pc[o] \in {"aside", "commit"} => Unused(ReferenceOf(o))
    /\ \A o, p \in Op : /\ o # p
                        /\ pc[o] \in {"aside", "commit"} /\ pc[p] \in {"aside", "commit"}
                        => ReferenceOf(o) # ReferenceOf(p)
    /\ \A o \in Op : pc[o] = "done" /\ req[o].type \in Credits \cup Debits => ~Unused(ReferenceOf(o))

\* A withdrawal on its way had the reserve left when it was checked.
Covered(o) == req[o].type = "debit" /\ ~req[o].force => checked[o] - req[o].amt >= MinReserve
Prudent == ReserveKept /\ \A o \in Op : pc[o] \in Recording => Covered(o)

Moves == [Book!Move]_<<balance, ledger>>

LEMMA AppendEntry ==
    ASSUME NEW S, NEW s \in Seq(S), NEW e \in S
    PROVE  /\ Append(s, e) \in Seq(S)
           /\ Len(s) \in Nat
           /\ Len(Append(s, e)) = Len(s) + 1
           /\ \A i \in 1..Len(s) : Append(s, e)[i] = s[i]
           /\ Append(s, e)[Len(s) + 1] = e
  OBVIOUS

\* What call o is asked, where it works and what it has seen.
Private(o) == <<req[o], target[o], locked[o], checked[o]>>

\* A step of o that moves no money, writes no line and takes no row of others.
LEMMA QuietStep ==
    ASSUME Typed, Exclusive, Prudent, NEW o \in Op, NEW place,
           pc' = [pc EXCEPT ![o] = place], UNCHANGED moneyVars,
           \A p \in Op \ {o} : Private(p)' = Private(p),
           \A p \in Op \ {o}, w \in Wallet : rowLock[w] = p => rowLock'[w] = p,
           place \in {"insert", "aside", "commit"} =>
             rowLock'[target'[o]] = o /\ locked'[o] = RowOf(target'[o]),
           place \in {"aside", "commit"} =>
             /\ req'[o] = req[o] /\ Unused(ReferenceOf(o))
             /\ pc[o] \in {"aside", "commit"} \/ ~TwinPending(o),
           place = "done" => req'[o].type \notin Credits \cup Debits,
           place \in Recording => Covered(o)'
    PROVE  Moves /\ Exclusive' /\ Prudent'
  <1> USE DEF moneyVars
  <1>t. /\ pc \in [Op -> Place]
        /\ \A p \in Op : pc[p] \in Recording => target[p] \in Wallet
    BY DEF Typed, TypeOK, Shape
  <1>1. \A p \in Op : pc'[p] = IF p = o THEN place ELSE pc[p]
    BY <1>t
  <1>2. \A p \in Op \ {o} : /\ req'[p] = req[p] /\ target'[p] = target[p]
                            /\ locked'[p] = locked[p] /\ checked'[p] = checked[p]
    BY DEF Private
  <1>3. \A p \in Op : req'[p] = req[p] => ReferenceOf(p)' = ReferenceOf(p)
    BY DEF ReferenceOf
  <1>4. /\ \A ref : Unused(ref)' <=> Unused(ref)
        /\ \A w : RowOf(w)' = RowOf(w)
    BY DEF Unused, RowOf
  <1>5. Moves
    BY DEF Moves
  <1>6. ASSUME NEW p \in Op, pc'[p] \in {"insert", "aside", "commit"}
        PROVE  rowLock'[target'[p]] = p /\ locked'[p] = RowOf(target'[p])
    BY <1>1, <1>2, <1>6, <1>t DEF Exclusive, Recording, InTransaction
  <1>7. ASSUME NEW p \in Op, pc'[p] \in {"aside", "commit"} PROVE Unused(ReferenceOf(p))'
    <2>1. CASE p = o
      BY <1>1, <1>3, <1>4, <1>7, <2>1
    <2>2. CASE p # o
      BY <1>1, <1>2, <1>3, <1>4, <1>7, <2>2 DEF Exclusive
    <2>3. QED
      BY <2>1, <2>2
  <1>8. ASSUME NEW p \in Op, NEW q \in Op, p # q,
               pc'[p] \in {"aside", "commit"}, pc'[q] \in {"aside", "commit"}
        PROVE  ReferenceOf(p)' # ReferenceOf(q)'
    <2>1. req'[p] = req[p] /\ req'[q] = req[q]
      BY <1>1, <1>2, <1>8
    <2>2. ReferenceOf(p)' = ReferenceOf(p) /\ ReferenceOf(q)' = ReferenceOf(q)
      BY <1>3, <2>1
    <2>3. CASE p # o /\ q # o
      BY <1>1, <1>8, <2>2, <2>3 DEF Exclusive
    <2>4. CASE p = o \/ q = o
      BY <1>1, <1>8, <2>2, <2>4 DEF Exclusive, TwinPending
    <2>5. QED
      BY <2>3, <2>4
  <1>9. ASSUME NEW p \in Op, pc'[p] = "done", req'[p].type \in Credits \cup Debits
        PROVE  ~Unused(ReferenceOf(p))'
    <2>1. p # o /\ pc[p] = "done" /\ req'[p] = req[p]
      BY <1>1, <1>2, <1>9
    <2>2. QED
      BY <1>3, <1>4, <1>9, <2>1 DEF Exclusive
  <1>10. Exclusive'
    <2>1. \A p \in Op : pc'[p] \in {"insert", "aside", "commit"} =>
             rowLock'[target'[p]] = p /\ locked'[p] = RowOf(target[p])'
      BY <1>6, <1>4 DEF RowOf
    <2>2. QED
      BY <2>1, <1>7, <1>8, <1>9 DEF Exclusive
  <1>11. ReserveKept'
    <2> SUFFICES ASSUME NEW p \in Op, NEW w \in Wallet, NEW i \in 1..Len(ledger'[w]),
                        pc'[p] = "done", req'[p].type = "debit", ~req'[p].force,
                        ledger'[w][i].ref = ReferenceOf(p)'
                 PROVE  ledger'[w][i].after >= MinReserve \/ ledger'[w][i].before < checked'[p]
      BY DEF ReserveKept
    <2>1. CASE p # o
      BY <1>1, <1>2, <1>3, <2>1 DEF Prudent, ReserveKept
    <2>2. CASE p = o
      BY <1>1, <2>2 DEF Debits
    <2>3. QED
      BY <2>1, <2>2
  <1>12. Prudent'
    BY <1>1, <1>2, <1>11 DEF Prudent, Covered
  <1>13. QED
    BY <1>5, <1>10, <1>12

\* Lock and insert keep the row as it was read; the commit writes one line.
LEMMA CommitStep ==
    ASSUME Typed, Typed', Exclusive, Prudent, NEW o \in Op, Commit(o)
    PROVE  Moves /\ Exclusive' /\ Prudent'
  <1> DEFINE w == target[o]
             e == NewLine(o)
             r == ReferenceOf(o)
  <1>t. /\ pc \in [Op -> Place] /\ ledger \in [Wallet -> Seq(Entry)] /\ balance \in [Wallet -> Int]
        /\ rowLock \in [Wallet -> Op \cup {None}] /\ locked \in [Op -> Row]
        /\ \A p \in Op : pc[p] \in Recording => target[p] \in Wallet /\ req[p] \in MoveRequest
    BY DEF Typed, TypeOK, Shape
  <1>1. /\ w \in Wallet /\ e \in Entry /\ req[o] \in MoveRequest
        /\ req[o].amt \in Nat \ {0} /\ After(o) \in Int /\ locked[o] \in Row
        /\ req[o].type \in Credits \cup Debits
    BY LineType, <1>t DEF Commit, Recording, InTransaction
  <1>2. /\ pc[o] = "commit" /\ pc' = [pc EXCEPT ![o] = "done"]
        /\ balance' = [balance EXCEPT ![w] = After(o)]
        /\ rowLock' = [v \in Wallet |-> IF rowLock[v] = o THEN None ELSE rowLock[v]]
        /\ locked' = [locked EXCEPT ![o] = NoRow]
        /\ UNCHANGED <<req, target, checked>>
    BY DEF Commit, Goto, Release
  <1>l. ledger' = [ledger EXCEPT ![w] = Append(@, e)]
    BY DEF Commit, NewLine
  <1>3. /\ rowLock[w] = o /\ locked[o].balance = balance[w] /\ Unused(r)
    <2>1. rowLock[w] = o /\ locked[o] = RowOf(w)
      BY <1>2 DEF Exclusive
    <2>2. Unused(r)
      BY <1>2 DEF Exclusive
    <2>3. QED
      BY <2>1, <2>2 DEF RowOf
  <1>4. /\ e.ref = r /\ e.before = balance[w] /\ e.after = After(o) /\ e.amt = req[o].amt
        /\ e.type = req[o].type
    BY <1>3 DEF NewLine
  <1>5. Book!Posted(e)
    BY <1>1, <1>3, <1>4 DEF Book!Posted, After, Credits, Debits
  <1>r. \A p \in Op : ReferenceOf(p)' = ReferenceOf(p)
    BY <1>2 DEF ReferenceOf
  <1> HIDE DEF w, e, r
  <1>s. /\ ledger'[w] = Append(ledger[w], e) /\ ledger[w] \in Seq(Entry)
        /\ \A v \in Wallet : v # w => ledger'[v] = ledger[v] /\ balance'[v] = balance[v]
        /\ balance'[w] = e.after
    BY <1>1, <1>2, <1>4, <1>l, <1>t
  <1>a. /\ Len(ledger[w]) \in Nat /\ Len(ledger'[w]) = Len(ledger[w]) + 1
        /\ \A i \in 1..Len(ledger[w]) : ledger'[w][i] = ledger[w][i]
        /\ ledger'[w][Len(ledger[w]) + 1] = e
    BY <1>1, <1>s, AppendEntry
  <1>6. Moves
    <2>1. Book!Enter(w, e)
      BY <1>1, <1>3, <1>4, <1>5, <1>s DEF Book!Enter, Book!References, Unused
    <2>2. ledger'[w][Len(ledger'[w])] = e
      BY <1>a
    <2>3. \A v \in Wallet : v # w => Book!Keep(v)
      BY <1>s DEF Book!Keep
    <2>4. \A v \in Wallet : Book!Keep(v) \/ Book!Enter(v, ledger'[v][Len(ledger'[v])])
      BY <2>1, <2>2, <2>3
    <2>5. balance' \in [Wallet -> Int] /\ ledger' \in [Wallet -> Seq(Entry)]
      BY DEF Typed, TypeOK
    <2>6. QED
      BY <2>3, <2>4, <2>5 DEF Moves, Book!Move
  \* The lines of the new statements.
  <1>7. ASSUME NEW v \in Wallet, NEW i \in 1..Len(ledger'[v])
        PROVE  \/ i \in 1..Len(ledger[v]) /\ ledger'[v][i] = ledger[v][i]
               \/ v = w /\ ledger'[v][i] = e
    <2>1. CASE v # w
      BY <1>s, <2>1
    <2>2. CASE v = w
      <3>1. i \in 1..Len(ledger[w]) \/ i = Len(ledger[w]) + 1
        BY <1>a, <2>2
      <3>2. QED
        BY <1>a, <2>2, <3>1
    <2>3. QED
      BY <2>1, <2>2
  <1>8. \A ref : (Unused(ref) /\ ref # r => Unused(ref)') /\ (~Unused(ref) => ~Unused(ref)')
    <2>1. ASSUME NEW ref, Unused(ref), ref # r PROVE Unused(ref)'
      BY <1>4, <1>7, <2>1 DEF Unused
    <2>2. ASSUME NEW ref, NEW v \in Wallet, NEW i \in 1..Len(ledger[v]), ledger[v][i].ref = ref
          PROVE  i \in 1..Len(ledger'[v]) /\ ledger'[v][i].ref = ref
      BY <1>s, <1>a, <2>2
    <2>3. ASSUME NEW ref, ~Unused(ref) PROVE ~Unused(ref)'
      BY <2>2, <2>3 DEF Unused
    <2>4. QED
      BY <2>1, <2>3
  <1>9. ~Unused(r)'
    <2>1. Len(ledger[w]) + 1 \in 1..Len(ledger'[w]) /\ ledger'[w][Len(ledger[w]) + 1].ref = r'
      BY <1>4, <1>a, <1>r DEF r
    <2>2. QED
      BY <1>1, <2>1 DEF Unused
  <1>10. \A p \in Op : pc'[p] = IF p = o THEN "done" ELSE pc[p]
    BY <1>2, <1>t
  <1>11. Exclusive'
    <2>1. ASSUME NEW p \in Op, pc'[p] \in {"insert", "aside", "commit"}
          PROVE  rowLock'[target'[p]] = p /\ locked'[p] = RowOf(target[p])'
      <3>1. /\ p # o /\ pc[p] = pc'[p] /\ target'[p] = target[p] /\ target[p] \in Wallet
        BY <1>2, <1>10, <1>t, <2>1 DEF Recording, InTransaction
      <3>2. rowLock[target[p]] = p /\ locked[p] = RowOf(target[p])
        BY <2>1, <3>1 DEF Exclusive
      <3>3. target[p] # w
        BY <1>3, <3>1, <3>2
      <3>4. RowOf(target[p])' = RowOf(target[p])
        BY <1>1, <1>2, <1>s, <3>1, <3>3, <1>t DEF RowOf, Commit, w, Typed, TypeOK
      <3>5. QED
        BY <1>2, <1>t, <3>1, <3>2, <3>4
    <2>2. ASSUME NEW p \in Op, pc'[p] \in {"aside", "commit"} PROVE Unused(ReferenceOf(p))'
      <3>1. p # o /\ pc[p] = pc'[p]
        BY <1>10, <2>2
      <3>2. Unused(ReferenceOf(p)) /\ ReferenceOf(p) # r
        BY <1>2, <2>2, <3>1 DEF Exclusive, r
      <3>3. QED
        BY <1>8, <1>r, <3>2
    <2>3. ASSUME NEW p \in Op, NEW q \in Op, p # q,
                 pc'[p] \in {"aside", "commit"}, pc'[q] \in {"aside", "commit"}
          PROVE  ReferenceOf(p)' # ReferenceOf(q)'
      BY <1>10, <1>r, <2>3 DEF Exclusive
    <2>4. ASSUME NEW p \in Op, pc'[p] = "done", req'[p].type \in Credits \cup Debits
          PROVE  ~Unused(ReferenceOf(p))'
      BY <1>2, <1>8, <1>9, <1>10, <1>r, <2>4 DEF Exclusive, r
    <2>5. QED
      BY <2>1, <2>2, <2>3, <2>4 DEF Exclusive
  <1>12. ReserveKept'
    <2> SUFFICES ASSUME NEW p \in Op, NEW v \in Wallet, NEW i \in 1..Len(ledger'[v]),
                        pc'[p] = "done", req'[p].type = "debit", ~req'[p].force,
                        ledger'[v][i].ref = ReferenceOf(p)'
                 PROVE  ledger'[v][i].after >= MinReserve \/ ledger'[v][i].before < checked'[p]
      BY DEF ReserveKept
    <2>1. CASE p # o
      <3>1. pc[p] = "done" /\ req[p].type = "debit" /\ ~req[p].force
        BY <1>2, <1>10, <2>1
      <3>2. CASE i \in 1..Len(ledger[v]) /\ ledger'[v][i] = ledger[v][i]
        BY <1>2, <1>r, <3>1, <3>2 DEF Prudent, ReserveKept
      <3>3. CASE ledger'[v][i] = e
        <4>1. ReferenceOf(p) = r
          BY <1>4, <1>r, <3>3
        <4>2. QED
          BY <1>3, <3>1, <4>1 DEF Exclusive, Debits
      <3>4. QED
        BY <1>7, <3>2, <3>3
    <2>2. CASE p = o
      <3>1. ledger'[v][i] = e
        BY <1>3, <1>7, <1>r, <2>2 DEF Unused, r
      <3>2. Covered(o)
        BY <1>2 DEF Prudent, Recording, InTransaction
      <3>3. e.after = e.before - req[o].amt
        BY <1>1, <1>2, <1>3, <1>4, <2>2 DEF After, Credits
      <3>4. checked[o] - req[o].amt >= MinReserve
        BY <1>2, <2>2, <3>2 DEF Covered
      <3>5. e.before \in Int /\ checked[o] \in Int /\ MinReserve \in Int /\ req[o].amt \in Int
        <4>1. e.before \in Int
          BY <1>1 DEF Entry
        <4>2. checked[o] \in Int
          BY DEF Typed, TypeOK
        <4>3. QED
          BY <1>1, <4>1, <4>2, ReserveAssumption
      <3>6. QED
        BY <1>2, <2>2, <3>1, <3>3, <3>4, <3>5
    <2>3. QED
      BY <2>1, <2>2
  <1>13. Prudent'
    BY <1>2, <1>10, <1>12 DEF Prudent, Covered, Recording, InTransaction
  <1>14. QED
    BY <1>6, <1>11, <1>13

\* A step that leaves the money and the calls alone.
LEMMA StillStep ==
    ASSUME Exclusive, Prudent,
           UNCHANGED <<balance, credited, debited, fees, ledger, rowLock, req, target, pc,
                       checked, locked>>
    PROVE  Moves /\ Exclusive' /\ Prudent'
  <1>1. Moves
    BY DEF Moves
  <1>2. /\ \A o : ReferenceOf(o)' = ReferenceOf(o)
        /\ \A ref : Unused(ref)' <=> Unused(ref)
        /\ \A w : RowOf(w)' = RowOf(w)
        /\ \A o : Covered(o)' <=> Covered(o)
    BY DEF ReferenceOf, Unused, RowOf, Covered
  <1>3. Exclusive'
    BY <1>2 DEF Exclusive
  <1>4. ReserveKept'
    BY <1>2 DEF Prudent, ReserveKept
  <1>5. QED
    BY <1>1, <1>2, <1>3, <1>4 DEF Prudent

\* The calls begin: a withdrawal leaves the reserve or is forced.
LEMMA CallStep ==
    ASSUME Typed, Exclusive, Prudent, NEW o \in Op, Call(o)
    PROVE  Moves /\ Exclusive' /\ Prudent'
  <1>t. /\ pc \in [Op -> Place] /\ req \in [Op -> Request \cup {None}]
        /\ target \in [Op -> Wallet \cup {None}] /\ checked \in [Op -> Int]
    BY DEF Typed, TypeOK
  <1>s. ASSUME NEW r, NEW w, NEW place \in {"ensure", "write", "find", "record"}, Start(o, r, w, place),
               \A p \in Op \ {o} : checked'[p] = checked[p],
               place = "record" /\ r.type = "debit" /\ ~r.force => checked'[o] - r.amt >= MinReserve
        PROVE  Moves /\ Exclusive' /\ Prudent'
    <2>1. /\ pc' = [pc EXCEPT ![o] = place] /\ UNCHANGED moneyVars /\ UNCHANGED rowLock
          /\ req'[o] = r
          /\ \A p \in Op \ {o} : /\ req'[p] = req[p] /\ target'[p] = target[p]
                                 /\ locked'[p] = locked[p] /\ checked'[p] = checked[p]
      BY <1>s, <1>t DEF Start, Goto
    <2>2. \A p \in Op \ {o} : Private(p)' = Private(p)
      BY <2>1 DEF Private
    <2>3. place \in Recording => Covered(o)'
      BY <1>s, <2>1 DEF Covered, Recording, InTransaction
    <2>4. QED
      BY <1>s, <2>1, <2>2, <2>3, QuietStep
  <1>1. CASE Boot(o)
    BY <1>1, <1>s DEF Boot
  <1>2. CASE \E w \in Wallet, l \in {"main", "other", None}, s \in Status \cup {None} :
               BeginUpdate(o, w, l, s)
    BY <1>2, <1>s DEF BeginUpdate
  <1>3. CASE \E a \in Amount : BeginFee(o, a)
    BY <1>3, <1>s DEF BeginFee
  <1>4. CASE \E a \in Amount : BeginReserve(o, a)
    BY <1>4, <1>s DEF BeginReserve
  <1>5. ASSUME NEW a \in Amount, NEW w \in Wallet, NEW r \in Ref \cup {None}, BeginTopUp(o, w, a, r)
        PROVE  Moves /\ Exclusive' /\ Prudent'
    <2>1. /\ Start(o, [type |-> "top_up", amt |-> a, ref |-> r, force |-> FALSE], w, "record")
          /\ UNCHANGED checked
      BY <1>5 DEF BeginTopUp
    <2>2. [type |-> "top_up", amt |-> a, ref |-> r, force |-> FALSE].type # "debit"
      OBVIOUS
    <2>3. QED
      BY <1>s, <2>1, <2>2
  <1>6. ASSUME NEW a \in Amount, NEW w \in Wallet, NEW r \in Ref \cup {None},
               NEW force \in BOOLEAN, BeginWithdraw(o, w, a, r, force)
        PROVE  Moves /\ Exclusive' /\ Prudent'
    <2> DEFINE q == [type |-> "debit", amt |-> a, ref |-> r, force |-> force]
    <2>1. /\ Start(o, q, w, "record") /\ checked' = [checked EXCEPT ![o] = balance[w]]
          /\ balance[w] - a < MinReserve => force
      BY <1>6 DEF BeginWithdraw
    <2>2. /\ checked'[o] = balance[w] /\ \A p \in Op \ {o} : checked'[p] = checked[p]
      BY <2>1, <1>t
    <2>3. /\ balance[w] \in Int /\ a \in Int /\ MinReserve \in Int
      BY AmountAssumption, ReserveAssumption DEF Typed, TypeOK
    <2>4. ~force => balance[w] - a >= MinReserve
      BY <2>1, <2>3
    <2>5. q.type = "debit" /\ q.amt = a /\ q.force = force
      OBVIOUS
    <2> HIDE DEF q
    <2>6. ~q.force => checked'[o] - q.amt >= MinReserve
      BY <2>2, <2>4, <2>5
    <2>7. QED
      BY <1>s, <2>1, <2>2, <2>6
  <1>7. QED
    BY <1>1, <1>2, <1>3, <1>4, <1>5, <1>6 DEF Call

\* A step of a call that is under way.
LEMMA RunStep ==
    ASSUME Typed, Typed', Exclusive, Prudent, NEW o \in Op,
           MainStep(o) \/ RecordStep(o) \/ Crash(o)
    PROVE  Moves /\ Exclusive' /\ Prudent'
  <1> USE DEF rowVars
  <1>t. /\ pc \in [Op -> Place] /\ target \in [Op -> Wallet \cup {None}]
        /\ locked \in [Op -> Row] /\ rowLock \in [Wallet -> Op \cup {None}]
        /\ pc[o] \in {"find", "again"} => req[o] \in SystemRequest
        /\ pc[o] \in {"ensure", "create"} => req[o] \in SystemRequest \cup BootRequest
        /\ pc[o] \in {"write", "writing"} => req[o] \in SystemRequest \cup BootRequest \cup UpdateRequest
        /\ pc[o] \in Recording => target[o] \in Wallet
    BY DEF Typed, TypeOK, Shape
  <1>q. \A q \in SystemRequest : q.type # "debit"
    BY DEF SystemRequest
  \* Nothing but the place of the call, and perhaps its wallet, changes.
  <1>g. ASSUME NEW place, Goto(o, place),
               UNCHANGED <<balance, credited, debited, fees, ledger, rowLock, req, checked, locked>>,
               \A p \in Op \ {o} : target'[p] = target[p],
               place \in {"insert", "aside", "commit"} =>
                 rowLock'[target'[o]] = o /\ locked'[o] = RowOf(target'[o]),
               place \in {"aside", "commit"} =>
                 /\ Unused(ReferenceOf(o))
                 /\ pc[o] \in {"aside", "commit"} \/ ~TwinPending(o),
               place = "done" => req[o].type \notin Credits \cup Debits,
               place \in Recording => Covered(o)
        PROVE  Moves /\ Exclusive' /\ Prudent'
    <2>1. \A p \in Op \ {o} : Private(p)' = Private(p)
      BY <1>g DEF Private
    <2>2. place \in Recording => Covered(o)'
      BY <1>g DEF Covered
    <2>3. pc' = [pc EXCEPT ![o] = place] /\ UNCHANGED moneyVars
      BY <1>g DEF Goto, moneyVars
    <2>4. QED
      BY <1>g, <2>1, <2>2, <2>3, QuietStep
  <1>r. ASSUME NEW place \in {"failed", "crashed"}, Release(o), Goto(o, place),
               UNCHANGED <<balance, credited, debited, fees, ledger, req, target, checked>>
        PROVE  Moves /\ Exclusive' /\ Prudent'
    <2>1. \A p \in Op \ {o} : Private(p)' = Private(p)
      BY <1>r, <1>t DEF Private, Release
    <2>2. \A p \in Op \ {o}, w \in Wallet : rowLock[w] = p => rowLock'[w] = p
      BY <1>r DEF Release
    <2>3. pc' = [pc EXCEPT ![o] = place] /\ UNCHANGED moneyVars
      BY <1>r DEF Goto, moneyVars
    <2>4. place \notin Recording \cup {"done"}
      BY <1>r DEF Recording, InTransaction
    <2>5. QED
      BY <1>r, <2>1, <2>2, <2>3, <2>4, QuietStep DEF Recording, InTransaction
  <1>e. pc[o] \in {"ensure", "create", "writing"} /\ Ensured(o) = "done" =>
          req[o].type \notin Credits \cup Debits
    BY DEF Ensured, Credits, Debits
  <1>n. Ensured(o) \in {"done", "again"}
    BY DEF Ensured
  <1> USE DEF Recording, InTransaction
  <1>1. ASSUME NEW w \in Wallet, Find(o, w) PROVE Moves /\ Exclusive' /\ Prudent'
    <2>1. Covered(o)
      BY <1>1, <1>t, <1>q DEF Find, Covered
    <2>2. QED
      BY <1>1, <1>t, <1>g, <2>1 DEF Find, moneyVars
  <1>2. ASSUME NEW w \in Wallet, Ensure(o, w) PROVE Moves /\ Exclusive' /\ Prudent'
    <2>1. PICK place \in {"done", "again", "write"} :
            Goto(o, place) /\ (place = "done" => req[o].type \notin Credits \cup Debits)
      BY <1>2, <1>e, <1>n DEF Ensure
    <2>2. QED
      BY <1>2, <1>t, <1>g, <2>1 DEF Ensure, moneyVars
  <1>3. ASSUME NEW w \in Wallet, CreateMain(o, w) PROVE Moves /\ Exclusive' /\ Prudent'
    BY <1>3, <1>e, <1>n, <1>g DEF CreateMain, moneyVars
  <1>4. ASSUME NEW place \in {"ensure", "failed", "create", "writing", "connect", "lock"},
               Proceed(o, place), place \in {"connect", "lock"} => Covered(o)
        PROVE  Moves /\ Exclusive' /\ Prudent'
    BY <1>4, <1>g DEF Proceed, moneyVars
  <1>5. CASE FindNone(o)
    BY <1>4, <1>5 DEF FindNone
  <1>6. CASE EnsureNone(o)
    BY <1>4, <1>6 DEF EnsureNone
  <1>7. CASE Write(o)
    BY <1>4, <1>7 DEF Write
  <1>8. CASE Reactivate(o)
    BY <1>8, <1>e, <1>n, <1>g DEF Reactivate, WriteRow, moneyVars
  <1>9. CASE Update(o)
    BY <1>9, <1>g DEF Update, WriteRow, moneyVars, Credits, Debits
  <1>10. CASE Record(o)
    BY <1>4, <1>10 DEF Record, Prudent
  <1>11. CASE RecordRefused(o)
    BY <1>4, <1>11 DEF RecordRefused
  <1>12. CASE Connect(o)
    BY <1>4, <1>12 DEF Connect, Prudent
  <1>13. CASE LockRow(o)
    <2>1. \A p \in Op \ {o} : Private(p)' = Private(p)
      BY <1>13, <1>t DEF LockRow, Private
    <2>2. \A p \in Op \ {o}, w \in Wallet : rowLock[w] = p => rowLock'[w] = p
      BY <1>13, <1>t, NoneAssumption DEF LockRow
    <2>3. /\ pc' = [pc EXCEPT ![o] = "insert"] /\ UNCHANGED moneyVars
          /\ UNCHANGED <<req, target, checked>>
      BY <1>13 DEF LockRow, Goto
    <2>4. rowLock'[target'[o]] = o /\ locked'[o] = RowOf(target'[o])
      BY <1>13, <1>t, <2>3 DEF LockRow
    <2>5. Covered(o)'
      BY <1>13, <2>3 DEF LockRow, Prudent, Covered
    <2>6. QED
      BY <2>1, <2>2, <2>3, <2>4, <2>5, QuietStep
  <1>14. CASE Insert(o)
    <2>1. Covered(o) /\ rowLock[target[o]] = o /\ locked[o] = RowOf(target[o])
      BY <1>14 DEF Insert, Prudent, Exclusive
    <2>2. PICK place \in {"aside", "commit"} : Proceed(o, place)
      BY <1>14 DEF Insert
    <2>3. QED
      BY <1>14, <1>g, <2>1, <2>2 DEF Insert, Proceed, moneyVars
  <1>15. CASE InsertRefused(o)
    BY <1>15, <1>r DEF InsertRefused, Rollback, moneyVars
  <1>16. CASE Aside(o)
    <2>1. /\ Covered(o) /\ rowLock[target[o]] = o /\ locked[o] = RowOf(target[o])
          /\ Unused(ReferenceOf(o))
      BY <1>16 DEF Aside, Prudent, Exclusive
    <2>2. QED
      BY <1>16, <1>g, <2>1 DEF Aside, Proceed, moneyVars
  <1>17. CASE AsideFails(o)
    BY <1>17, <1>r DEF AsideFails, Rollback, moneyVars
  <1>18. CASE Commit(o)
    BY <1>18, CommitStep
  <1>19. CASE Crash(o)
    BY <1>19, <1>r DEF Crash, moneyVars
  <1>20. QED
    BY <1>1, <1>2, <1>3, <1>5, <1>6, <1>7, <1>8, <1>9, <1>10, <1>11, <1>12, <1>13, <1>14,
       <1>15, <1>16, <1>17, <1>18, <1>19 DEF MainStep, RecordStep

LEMMA BookStep ==
    Typed /\ Exclusive /\ Prudent /\ [Next]_vars => Moves /\ Exclusive' /\ Prudent'
  <1> SUFFICES ASSUME Typed, Exclusive, Prudent, [Next]_vars
               PROVE  Moves /\ Exclusive' /\ Prudent'
    OBVIOUS
  <1>t. Typed'
    BY NextTyped
  <1>1. ASSUME NEW w \in Wallet, NEW l \in Label, CreateWallet(w, l)
        PROVE  Moves /\ Exclusive' /\ Prudent'
    BY <1>1, StillStep DEF CreateWallet, moneyVars
  <1>2. CASE UNCHANGED vars
    BY <1>2, StillStep DEF vars
  <1>3. QED
    BY <1>t, <1>1, <1>2, CallStep, RunStep DEF Next

LEMMA InitBook == Init => Book!Init /\ Exclusive /\ Prudent
  <1> SUFFICES ASSUME Init PROVE Book!Init /\ Exclusive /\ Prudent
    OBVIOUS
  <1>t. /\ balance \in [Wallet -> Int] /\ ledger \in [Wallet -> Seq(Entry)]
        /\ \A w \in Wallet : balance[w] \in Int
    BY InitTyped DEF Typed, TypeOK
  <1>1. \A o \in Op : pc[o] = "idle"
    BY DEF Init, Idle
  <1>2. Exclusive /\ Prudent
    BY <1>1 DEF Exclusive, Prudent, ReserveKept, Recording, InTransaction
  <1>3. ASSUME NEW w \in Wallet
        PROVE  /\ Book!Accounts(ledger[w], balance[w])
               /\ \A i \in 1..Len(ledger[w]) : i = 1 /\ ledger[w][i].ref = <<"OPENING", w>>
    <2>1. CASE balance[w] = 0
      <3>1. ledger[w] = <<>>
        BY <2>1 DEF Init
      <3>2. QED
        BY <2>1, <3>1 DEF Book!Accounts, Book!Opening
    <2>2. CASE balance[w] # 0
      <3> DEFINE e == [type |-> "top_up", amt |-> balance[w], before |-> 0,
                       after |-> balance[w], ref |-> <<"OPENING", w>>]
      <3>1. ledger[w] = <<e>>
        BY <2>2 DEF Init
      <3>2. /\ e.ref = <<"OPENING", w>> /\ e.type = "top_up" /\ e.amt = balance[w]
            /\ e.before = 0 /\ e.after = balance[w]
        OBVIOUS
      <3> HIDE DEF e
      <3>3. Len(<<e>>) = 1 /\ <<e>>[1] = e
        OBVIOUS
      <3>4. Book!Posted(e)
        BY <1>t, <3>2 DEF Book!Posted, Debits
      <3>5. Book!Opening(ledger[w], 1) = 0 /\ Book!Opening(ledger[w], 2) = e.after
        BY <3>1, <3>3 DEF Book!Opening
      <3>6. QED
        BY <3>1, <3>2, <3>3, <3>4, <3>5 DEF Book!Accounts
    <2>3. QED
      BY <2>1, <2>2
  <1>4. Book!DistinctReferences
    BY <1>3 DEF Book!DistinctReferences
  <1>5. QED
    BY <1>t, <1>2, <1>3, <1>4 DEF Book!Init

-----------------------------------------------------------------------------
\* The service keeps its book as Ledger demands, however its calls overlap and
\* wherever they die: the row is held from the read to the commit, and the
\* unique index makes the second of two equal references wait and fail.
THEOREM BookImplemented == Spec => KeepsBook
  <1>1. Typed /\ Exclusive /\ Prudent /\ [Next]_vars =>
          [Book!Move]_<<balance, ledger>> /\ Typed' /\ Exclusive' /\ Prudent'
    BY NextTyped, BookStep DEF Moves
  <1>2. Init => Book!Init /\ Typed /\ Exclusive /\ Prudent
    BY InitBook, InitTyped
  <1>3. QED
    BY <1>1, <1>2, PTL DEF Spec, KeepsBook, Book!Spec

\* A withdrawal that is not forced leaves the minimum reserve in place, unless
\* the balance sank between its check and its lock.
THEOREM ReserveOutlasts == Spec => []ReserveKept
  <1>1. Typed /\ Exclusive /\ Prudent /\ [Next]_vars => Typed' /\ Exclusive' /\ Prudent'
    BY NextTyped, BookStep
  <1>2. Init => Typed /\ Exclusive /\ Prudent
    BY InitBook, InitTyped
  <1>3. Prudent => ReserveKept
    BY DEF Prudent
  <1>4. QED
    BY <1>1, <1>2, <1>3, PTL DEF Spec

-----------------------------------------------------------------------------
(* The columns and the statement *)

\* A set that holds 0, and with a number the next, holds them all.
LEMMA Counting ==
    ASSUME NEW S, 0 \in S, \A n \in Nat : n \in S => n + 1 \in S
    PROVE  \A n \in Nat : n \in S
  <1> SUFFICES ASSUME Nat \ S # {} PROVE FALSE
    OBVIOUS
  <1> DEFINE Less == OpToRel(<, Nat)
  <1>1. IsWellFoundedOn(Less, Nat)
    BY NatLessThanWellFounded
  <1>2. \A m \in Nat : <<m, m + 1>> \in Less
    BY DEF OpToRel
  <1> HIDE DEF Less
  <1>3. PICK n \in Nat \ S : \A m \in Nat \ S : <<m, n>> \notin Less
    BY <1>1, WFMin
  <1>4. n - 1 \in Nat /\ n - 1 + 1 = n
    OBVIOUS
  <1>5. n - 1 \in S
    BY <1>2, <1>3, <1>4
  <1>6. QED
    BY <1>3, <1>4, <1>5

\* What line i adds to the sum over the lines of these types.
Adds(s, types, i) == IF s[i].type \in types THEN s[i].amt ELSE 0

\* f[i] is the sum over the first i lines of s, up to n.
SumsTo(f, s, types, n) ==
    f = [i \in 0..n |-> IF i = 0 THEN 0 ELSE f[i - 1] + Adds(s, types, i)]

LEMMA SumsExist ==
    ASSUME NEW s, NEW types
    PROVE  \A n \in Nat : \E f : SumsTo(f, s, types, n)
  <1> DEFINE S == {n \in Nat : \E f : SumsTo(f, s, types, n)}
  <1>1. 0 \in S
    <2>1. SumsTo([i \in 0..0 |-> 0], s, types, 0)
      BY DEF SumsTo
    <2>2. QED
      BY <2>1
  <1>2. ASSUME NEW n \in Nat, n \in S PROVE n + 1 \in S
    <2>1. PICK f : SumsTo(f, s, types, n)
      BY <1>2
    <2> DEFINE a == Adds(s, types, n + 1)
               g == [i \in 0..(n + 1) |-> IF i = n + 1 THEN f[n] + a ELSE f[i]]
               h == [i \in 0..(n + 1) |-> IF i = 0 THEN 0 ELSE g[i - 1] + Adds(s, types, i)]
    <2>2. ASSUME NEW i \in 0..(n + 1) PROVE g[i] = h[i]
      <3> HIDE DEF a
      <3>1. \A j \in 0..n : f[j] = IF j = 0 THEN 0 ELSE f[j - 1] + Adds(s, types, j)
        BY <2>1 DEF SumsTo
      <3>2. CASE i = n + 1
        <4>1. g[i] = f[n] + a /\ i # 0 /\ i - 1 = n /\ n \in 0..(n + 1) /\ n # n + 1
          BY <3>2
        <4>2. g[i - 1] = f[n]
          BY <4>1
        <4>3. QED
          BY <3>2, <4>1, <4>2 DEF a
      <3>3. CASE i # n + 1 /\ i # 0
        <4>1. i \in 0..n /\ i - 1 \in 0..(n + 1) /\ i - 1 # n + 1
          BY <3>3
        <4>2. g[i] = f[i] /\ g[i - 1] = f[i - 1]
          BY <3>3, <4>1
        <4>3. QED
          BY <3>1, <3>3, <4>1, <4>2
      <3>4. CASE i = 0
        BY <3>1, <3>4
      <3>5. QED
        BY <3>2, <3>3, <3>4
    <2>3. g = h
      BY <2>2
    <2>4. SumsTo(g, s, types, n + 1)
      BY <2>3 DEF SumsTo
    <2>5. QED
      BY <2>4
  <1>3. QED
    <2> HIDE DEF S
    <2>1. \A n \in Nat : n \in S
      BY <1>1, <1>2, Counting
    <2>2. QED
      BY <2>1 DEF S

\* Sum is the last of such sums.
LEMMA SumIs ==
    ASSUME NEW s, NEW types, Len(s) \in Nat
    PROVE  \E f : SumsTo(f, s, types, Len(s)) /\ Sum(s, types) = f[Len(s)]
  <1> DEFINE f == CHOOSE f : SumsTo(f, s, types, Len(s))
  <1>1. SumsTo(f, s, types, Len(s))
    BY SumsExist
  <1>2. Sum(s, types) = f[Len(s)]
    BY DEF Sum, SumsTo, Adds
  <1>3. QED
    BY <1>1, <1>2

LEMMA SumOfNone == \A types : Sum(<<>>, types) = 0
  <1> SUFFICES ASSUME NEW types PROVE Sum(<<>>, types) = 0
    OBVIOUS
  <1>1. PICK f : SumsTo(f, <<>>, types, 0) /\ Sum(<<>>, types) = f[0]
    BY SumIs
  <1>2. QED
    BY <1>1 DEF SumsTo

\* A new line adds what it moves to the sums it belongs to.
LEMMA SumAppend ==
    ASSUME NEW s \in Seq(Entry), NEW e \in Entry, NEW types
    PROVE  Sum(Append(s, e), types) = Sum(s, types) + IF e.type \in types THEN e.amt ELSE 0
  <1> DEFINE t == Append(s, e)
             n == Len(s)
  <1>1. /\ n \in Nat /\ Len(t) = n + 1
        /\ \A i \in 1..n : t[i] = s[i]
        /\ t[n + 1] = e
    BY AppendEntry
  <1> HIDE DEF t, n
  <1>2. PICK f : SumsTo(f, s, types, n) /\ Sum(s, types) = f[n]
    BY <1>1, SumIs DEF n
  <1>3. PICK g : SumsTo(g, t, types, n + 1) /\ Sum(t, types) = g[n + 1]
    BY <1>1, SumIs
  <1>4. \A i \in 0..n : f[i] = IF i = 0 THEN 0 ELSE f[i - 1] + Adds(s, types, i)
    BY <1>2 DEF SumsTo
  <1>5. \A i \in 0..(n + 1) : g[i] = IF i = 0 THEN 0 ELSE g[i - 1] + Adds(t, types, i)
    BY <1>3 DEF SumsTo
  <1>6. \A i \in 1..n : Adds(t, types, i) = Adds(s, types, i)
    BY <1>1 DEF Adds
  <1> DEFINE S == {i \in Nat : i <= n => g[i] = f[i]}
  <1>7. 0 \in S
    BY <1>1, <1>4, <1>5
  <1>8. ASSUME NEW i \in Nat, i \in S PROVE i + 1 \in S
    <2> SUFFICES ASSUME i + 1 <= n PROVE g[i + 1] = f[i + 1]
      OBVIOUS
    <2>1. i + 1 \in 1..n /\ i + 1 - 1 = i /\ i + 1 # 0 /\ i + 1 \in 0..n /\ i + 1 \in 0..(n + 1)
      BY <1>1
    <2>2. g[i] = f[i]
      BY <1>1, <1>8
    <2>3. QED
      BY <1>4, <1>5, <1>6, <2>1, <2>2
  <1> HIDE DEF S
  <1>9. n \in S
    BY <1>1, <1>7, <1>8, Counting
  <1>10. g[n] = f[n]
    BY <1>1, <1>9 DEF S
  <1>11. g[n + 1] = g[n] + Adds(t, types, n + 1)
    BY <1>1, <1>5
  <1>12. Adds(t, types, n + 1) = IF e.type \in types THEN e.amt ELSE 0
    BY <1>1 DEF Adds
  <1>13. QED
    BY <1>2, <1>3, <1>10, <1>11, <1>12 DEF t

\* The commit adds its line to the sums that it adds to the columns, for the row
\* is as the transaction read it.
LEMMA CommitAgrees ==
    ASSUME Typed, Exclusive, TotalsAgree, NEW o \in Op, Commit(o)
    PROVE  TotalsAgree'
  <1> DEFINE w == target[o]
             e == NewLine(o)
             a == req[o].amt
  <1>1. /\ w \in Wallet /\ e \in Entry /\ req[o] \in MoveRequest
        /\ a \in Nat /\ locked[o] \in Row
        /\ req[o].type \in Credits \cup Debits
    BY LineType DEF Commit, Recording, InTransaction, Typed, Shape, TypeOK
  <1>2. locked[o] = RowOf(w)
    BY DEF Commit, Exclusive
  <1>3. /\ ledger[w] \in Seq(Entry) /\ credited[w] \in Int /\ debited[w] \in Int
        /\ fees[w] \in Int /\ balance[w] \in Int
    BY <1>1 DEF Typed, TypeOK
  <1>4. /\ locked[o].balance = balance[w] /\ locked[o].credited = credited[w]
        /\ locked[o].debited = debited[w] /\ locked[o].fees = fees[w]
    BY <1>2 DEF RowOf
  <1>5. /\ credited[w] = Sum(ledger[w], Credits)
        /\ debited[w] = Sum(ledger[w], Debits)
        /\ fees[w] = Sum(ledger[w], {"fee_credit"})
        /\ balance[w] = credited[w] - debited[w]
    BY <1>1 DEF TotalsAgree
  <1>6. e.type = req[o].type /\ e.amt = a
    BY DEF NewLine
  <1>7. ledger' = [ledger EXCEPT ![w] = Append(@, e)]
    BY DEF Commit, NewLine
  <1>8. /\ credited' = IF req[o].type \in Credits
                       THEN [credited EXCEPT ![w] = credited[w] + a] ELSE credited
        /\ debited' = IF req[o].type \in Debits
                      THEN [debited EXCEPT ![w] = debited[w] + a] ELSE debited
        /\ fees' = IF req[o].type = "fee_credit"
                   THEN [fees EXCEPT ![w] = fees[w] + a] ELSE fees
        /\ balance' = [balance EXCEPT ![w] = IF req[o].type \in Credits
                                              THEN balance[w] + a ELSE balance[w] - a]
    BY <1>4 DEF Commit, After
  <1>t. /\ ledger \in [Wallet -> Seq(Entry)] /\ balance \in [Wallet -> Int]
        /\ credited \in [Wallet -> Int] /\ debited \in [Wallet -> Int]
        /\ fees \in [Wallet -> Int]
    BY DEF Typed, TypeOK
  <1> HIDE DEF w, e, a
  <1>9. ASSUME NEW v \in Wallet, v # w
        PROVE  /\ ledger'[v] = ledger[v] /\ balance'[v] = balance[v]
               /\ credited'[v] = credited[v] /\ debited'[v] = debited[v]
               /\ fees'[v] = fees[v]
    BY <1>7, <1>8, <1>9, <1>t
  <1>10. ledger'[w] = Append(ledger[w], e)
    BY <1>1, <1>7, <1>t
  <1>11. /\ credited'[w] = credited[w] + IF e.type \in Credits THEN a ELSE 0
         /\ debited'[w] = debited[w] + IF e.type \in Debits THEN a ELSE 0
         /\ fees'[w] = fees[w] + IF e.type \in {"fee_credit"} THEN a ELSE 0
         /\ balance'[w] = IF e.type \in Credits THEN balance[w] + a ELSE balance[w] - a
    BY <1>1, <1>3, <1>6, <1>8, <1>t
  <1>12. e.type \in Credits <=> e.type \notin Debits
    BY <1>1, <1>6 DEF Credits, Debits
  <1>13. balance'[w] = credited'[w] - debited'[w]
    BY <1>1, <1>3, <1>5, <1>11, <1>12
  <1>14. /\ credited'[w] = Sum(ledger'[w], Credits)
         /\ debited'[w] = Sum(ledger'[w], Debits)
         /\ fees'[w] = Sum(ledger'[w], {"fee_credit"})
    BY <1>1, <1>3, <1>5, <1>6, <1>10, <1>11, SumAppend
  <1>15. QED
    BY <1>5, <1>9, <1>13, <1>14 DEF TotalsAgree

LEMMA AgreeStep ==
    Typed /\ Exclusive /\ TotalsAgree /\ [Next]_vars => TotalsAgree'
  <1> SUFFICES ASSUME Typed, Exclusive, TotalsAgree, [Next]_vars PROVE TotalsAgree'
    OBVIOUS
  <1>1. ASSUME UNCHANGED moneyVars PROVE TotalsAgree'
    BY <1>1 DEF moneyVars, TotalsAgree
  <1>2. ASSUME NEW o \in Op, Commit(o) PROVE TotalsAgree'
    BY <1>2, CommitAgrees
  <1>3. ASSUME NEW w \in Wallet, NEW l \in Label, CreateWallet(w, l) PROVE UNCHANGED moneyVars
    BY <1>3 DEF CreateWallet
  <1>4. ASSUME NEW o \in Op, Call(o) PROVE UNCHANGED moneyVars
    BY <1>4 DEF Call, Boot, BeginUpdate, BeginFee, BeginReserve, BeginTopUp, BeginWithdraw, Start
  <1>5. ASSUME NEW o \in Op, MainStep(o) PROVE UNCHANGED moneyVars
    BY <1>5 DEF MainStep, Find, FindNone, Ensure, EnsureNone, CreateMain, Write, Reactivate,
                Update, WriteRow, Proceed
  <1>6. ASSUME NEW o \in Op, RecordStep(o) PROVE Commit(o) \/ UNCHANGED moneyVars
    BY <1>6 DEF RecordStep, Record, RecordRefused, Connect, LockRow, Insert, InsertRefused,
                Aside, AsideFails, Proceed, Rollback
  <1>7. ASSUME NEW o \in Op, Crash(o) PROVE UNCHANGED moneyVars
    BY <1>7 DEF Crash
  <1>8. UNCHANGED vars => UNCHANGED moneyVars
    BY DEF vars, moneyVars
  <1>9. QED
    BY <1>1, <1>2, <1>3, <1>4, <1>5, <1>6, <1>7, <1>8 DEF Next

LEMMA InitAgrees == Init => TotalsAgree
  <1> SUFFICES ASSUME Init PROVE TotalsAgree
    OBVIOUS
  <1> SUFFICES ASSUME NEW w \in Wallet
               PROVE  /\ credited[w] = Sum(ledger[w], Credits)
                      /\ debited[w] = Sum(ledger[w], Debits)
                      /\ fees[w] = Sum(ledger[w], {"fee_credit"})
                      /\ balance[w] = credited[w] - debited[w]
    BY DEF TotalsAgree
  <1>1. credited[w] = balance[w] /\ debited[w] = 0 /\ fees[w] = 0 /\ balance[w] \in {0} \cup Endowment
    BY DEF Init
  <1>2. balance[w] \in Int
    BY InitTyped DEF Typed, TypeOK
  <1>3. CASE balance[w] = 0
    <2>1. ledger[w] = <<>>
      BY <1>3 DEF Init
    <2>2. QED
      BY <1>1, <1>3, <2>1, SumOfNone
  <1>4. CASE balance[w] # 0
    <2> DEFINE e == [type |-> "top_up", amt |-> balance[w], before |-> 0,
                     after |-> balance[w], ref |-> <<"OPENING", w>>]
    <2>1. ledger[w] = Append(<<>>, e)
      BY <1>4 DEF Init
    <2>2. e \in Entry /\ e.type = "top_up" /\ e.amt = balance[w]
      <3>1. <<"OPENING", w>> \in Reference
        BY DEF Reference
      <3>2. balance[w] \in Endowment /\ balance[w] \in Int
        BY <1>1, <1>2, <1>4
      <3>3. QED
        BY <3>1, <3>2 DEF Entry, Credits
    <2> HIDE DEF e
    <2>3. <<>> \in Seq(Entry)
      OBVIOUS
    <2>4. ASSUME NEW types
          PROVE  Sum(ledger[w], types) = 0 + IF e.type \in types THEN e.amt ELSE 0
      <3>1. Sum(Append(<<>>, e), types) = Sum(<<>>, types) + IF e.type \in types THEN e.amt ELSE 0
        BY <2>2, <2>3, SumAppend
      <3>2. QED
        BY <2>1, <3>1, SumOfNone
    <2>5. QED
      BY <1>1, <1>2, <2>2, <2>4 DEF Credits, Debits
  <1>5. QED
    BY <1>3, <1>4

\* The four columns of a row of system_wallets agree with its statement: every
\* recording writes them from a row it has held since it read it.
THEOREM ColumnsAgree == Spec => []TotalsAgree
  <1>1. Typed /\ Exclusive /\ Prudent /\ TotalsAgree /\ [Next]_vars =>
          Typed' /\ Exclusive' /\ Prudent' /\ TotalsAgree'
    BY NextTyped, BookStep, AgreeStep
  <1>2. Init => Typed /\ Exclusive /\ Prudent /\ TotalsAgree
    BY InitBook, InitTyped, InitAgrees
  <1>3. QED
    BY <1>1, <1>2, PTL DEF Spec
=============================================================================

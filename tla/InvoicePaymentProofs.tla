------------------------- MODULE InvoicePaymentProofs -------------------------
(***************************************************************************)
(* InvoicePayment for any number of invoices, payments, attempts, restarts *)
(* and IPNs, for any faults and whatever the IPNs say: the types, what is  *)
(* paid out only for a payment that was confirmed and held, and what is    *)
(* paid out once.                                                          *)
(***************************************************************************)
EXTENDS InvoicePayment, TLAPS

\* A job is at work when its processor is, and has attempts and restarts left as
\* long as it has not ended.
Working ==
    \A p \in Payment :
        /\ pc[p] # "idle" => job[p] = "active"
        /\ job[p] \in {"none", "waiting", "active"} =>
             attempts[p] < MaxAttempts /\ stalls[p] <= MaxStalls

\* Payment p was made for invoice i, and NOWPayments has confirmed it.
ConfirmedFor(p, i) == remote[p] \in Confirmed /\ of[p] = i

\* A payment that was made belongs to an invoice for good, and a job is for an invoice:
\* the payment's own, and NOWPayments has confirmed it, or an IPN was not true.
Known ==
    /\ \A p \in Payment : made[p] # "no" <=> of[p] \in Invoice
    /\ \A e \in Ipn :
         hook[e] # None /\ hook[e].founded /\ hook[e].status \in Confirmed =>
            ConfirmedFor(hook[e].payment, hook[e].invoice)
    /\ \A p \in Payment : job[p] # "none" =>
         billed[p] \in Invoice /\ (p \in unfounded \/ ConfirmedFor(p, billed[p]))

Typed == TypeOK /\ Working /\ Known

LEMMA InitTyped == Init => Typed
  BY CountsAssumption, NoneAssumption
     DEF Init, QueueInit, Typed, TypeOK, QueueType, JobState, Working, Known, InvoiceStatus, Remote

\* What is known stays known when payments only move on and no job is added.
LEMMA KnownKept ==
    ASSUME Typed,
           \A p \in Payment : made'[p] # "no" <=> of'[p] \in Invoice,
           \A p \in Payment : of[p] \in Invoice => of'[p] = of[p],
           \A p \in Payment : remote[p] \in Confirmed => remote'[p] \in Confirmed,
           \A e \in Ipn : hook'[e] = hook[e] \/ hook'[e] = None,
           \A p \in Payment : job'[p] # "none" => job[p] # "none",
           UNCHANGED <<billed, unfounded>>
    PROVE  Known'
  <1>1. \A p \in Payment, i \in Invoice : ConfirmedFor(p, i) => ConfirmedFor(p, i)'
    BY DEF ConfirmedFor
  <1>2. ASSUME NEW e \in Ipn, hook'[e] # None, hook'[e].founded, hook'[e].status \in Confirmed
        PROVE  ConfirmedFor(hook[e].payment, hook[e].invoice)' /\ hook'[e] = hook[e]
    <2>1. hook'[e] = hook[e] /\ hook[e] # None
      BY <1>2
    <2>2. hook[e] \in HookType
      BY <2>1 DEF Typed, TypeOK
    <2>3. hook[e].payment \in Payment /\ hook[e].invoice \in Invoice
      BY <2>2 DEF HookType
    <2>4. remote[hook[e].payment] \in Confirmed /\ of[hook[e].payment] = hook[e].invoice
      BY <1>2, <2>1 DEF Typed, Known, ConfirmedFor
    <2>5. remote'[hook[e].payment] \in Confirmed /\ of'[hook[e].payment] = hook[e].invoice
      BY <2>3, <2>4
    <2>6. QED
      BY <2>1, <2>5 DEF ConfirmedFor
  <1>3. ASSUME NEW p \in Payment, job'[p] # "none"
        PROVE  billed'[p] \in Invoice /\ (p \in unfounded' \/ ConfirmedFor(p, billed[p])')
    BY <1>1, <1>3 DEF Typed, Known, ConfirmedFor
  <1>4. QED
    BY <1>2, <1>3 DEF Known, ConfirmedFor


\* The processor moves on, and its job stays as it is.
LEMMA OnwardStep ==
    ASSUME Typed, NEW p \in Payment, NEW l, pc[p] # "idle", Goto(p, l),
           UNCHANGED queueVars
    PROVE  QueueType' /\ Working'
  BY DEF Typed, TypeOK, QueueType, Working, Goto, queueVars

\* The processor is through with its job, and the job ends or waits to be tried again.
LEMMA EndStep ==
    ASSUME Typed, NEW p \in Payment, pc[p] # "idle", Goto(p, "idle"),
           Complete(p) \/ AttemptFails(p) \/ Stall(p)
    PROVE  QueueType' /\ Working' /\ \A q \in Payment : job'[q] # "none" => job[q] # "none"
  <1>t. /\ job \in [Payment -> JobState] /\ attempts \in [Payment -> 0..MaxAttempts]
        /\ stalls \in [Payment -> 0..MaxStalls + 1] /\ DOMAIN pc = Payment
        /\ pc \in [Payment -> {"idle", "verify", "load", "verify again", "commit", "pay",
                               "fallback", "finish"}]
        /\ MaxAttempts \in Nat /\ MaxStalls \in Nat
    BY CountsAssumption DEF Typed, TypeOK, QueueType
  <1>w. \A q \in Payment :
          /\ pc[q] # "idle" => job[q] = "active"
          /\ job[q] \in {"none", "waiting", "active"} =>
               attempts[q] < MaxAttempts /\ stalls[q] <= MaxStalls
    BY DEF Typed, Working
  <1>1. job[p] = "active" /\ attempts[p] < MaxAttempts /\ stalls[p] <= MaxStalls
    BY <1>w
  <1>2. \A q \in Payment \ {p} : pc'[q] = pc[q]
    BY <1>t DEF Goto
  <1>3. pc'[p] = "idle"
    BY <1>t DEF Goto
  <1>4. CASE Complete(p)
    <2>1. job' = [job EXCEPT ![p] = "completed"] /\ attempts' = attempts /\ stalls' = stalls
      BY <1>4 DEF Complete
    <2>2. job'[p] = "completed" /\ \A q \in Payment \ {p} : job'[q] = job[q]
      BY <2>1, <1>t
    <2>3. QueueType'
      BY <2>1, <1>t DEF QueueType, JobState
    <2>4. Working'
      BY <2>1, <2>2, <1>2, <1>3, <1>w DEF Working
    <2>5. QED
      BY <2>2, <2>3, <2>4, <1>1
  <1>5. CASE AttemptFails(p)
    <2>1. /\ attempts' = [attempts EXCEPT ![p] = attempts[p] + 1] /\ stalls' = stalls
          /\ job' = [job EXCEPT ![p] = IF attempts[p] + 1 < MaxAttempts THEN "waiting" ELSE "failed"]
      BY <1>5 DEF AttemptFails
    <2>2. /\ job'[p] = IF attempts[p] + 1 < MaxAttempts THEN "waiting" ELSE "failed"
          /\ attempts'[p] = attempts[p] + 1
          /\ \A q \in Payment \ {p} : job'[q] = job[q] /\ attempts'[q] = attempts[q]
      BY <2>1, <1>t
    <2>3. attempts[p] + 1 \in 0..MaxAttempts
      <3>1. attempts[p] \in 0..MaxAttempts /\ MaxAttempts \in Nat /\ MaxStalls \in Nat
        BY <1>t
      <3>2. QED
        BY <3>1, <1>1
    <2>4. QueueType'
      BY <2>1, <2>3, <1>t DEF QueueType, JobState
    <2>5. Working'
      BY <2>1, <2>2, <1>1, <1>2, <1>3, <1>w DEF Working
    <2>6. QED
      BY <2>2, <2>4, <2>5, <1>1
  <1>6. CASE Stall(p)
    <2>1. /\ stalls' = [stalls EXCEPT ![p] = stalls[p] + 1] /\ attempts' = attempts
          /\ job' = [job EXCEPT ![p] = IF stalls[p] < MaxStalls THEN "waiting" ELSE "failed"]
      BY <1>6 DEF Stall
    <2>2. /\ job'[p] = IF stalls[p] < MaxStalls THEN "waiting" ELSE "failed"
          /\ stalls'[p] = stalls[p] + 1
          /\ \A q \in Payment \ {p} : job'[q] = job[q] /\ stalls'[q] = stalls[q]
      BY <2>1, <1>t
    <2>3. stalls[p] + 1 \in 0..MaxStalls + 1
      <3>1. stalls[p] \in 0..MaxStalls + 1 /\ MaxAttempts \in Nat /\ MaxStalls \in Nat
        BY <1>t
      <3>2. QED
        BY <3>1, <1>1
    <2>4. QueueType'
      BY <2>1, <2>3, <1>t DEF QueueType, JobState
    <2>5. stalls[p] < MaxStalls => stalls[p] + 1 <= MaxStalls
      <3>1. stalls[p] \in 0..MaxStalls + 1 /\ MaxStalls \in Nat
        BY <1>t
      <3>2. QED
        BY <3>1
    <2>6. Working'
      BY <2>1, <2>2, <2>5, <1>1, <1>2, <1>3, <1>w DEF Working
    <2>7. QED
      BY <2>2, <2>4, <2>6, <1>1
  <1>7. QED
    BY <1>4, <1>5, <1>6

\* A job is added, if it is not there, and a waiting one is taken.
LEMMA AddStep ==
    ASSUME Typed, NEW p \in Payment, Add(p), UNCHANGED pc
    PROVE  QueueType' /\ Working' /\ \A q \in Payment : job'[q] # "none" => q = p \/ job[q] # "none"
  <1>t. /\ job \in [Payment -> JobState] /\ attempts \in [Payment -> 0..MaxAttempts]
        /\ stalls \in [Payment -> 0..MaxStalls + 1]
    BY DEF Typed, TypeOK, QueueType
  <1>w. \A q \in Payment :
          /\ pc[q] # "idle" => job[q] = "active"
          /\ job[q] \in {"none", "waiting", "active"} =>
               attempts[q] < MaxAttempts /\ stalls[q] <= MaxStalls
    BY DEF Typed, Working
  <1>1. /\ job' = IF job[p] = "none" THEN [job EXCEPT ![p] = "waiting"] ELSE job
        /\ attempts' = attempts /\ stalls' = stalls /\ pc' = pc
    BY DEF Add
  <1>2. /\ job'[p] = IF job[p] = "none" THEN "waiting" ELSE job[p]
        /\ \A q \in Payment \ {p} : job'[q] = job[q]
    BY <1>1, <1>t
  <1>3. QueueType'
    BY <1>1, <1>t DEF QueueType, JobState
  <1>4. Working'
    BY <1>1, <1>2, <1>w DEF Working
  <1>5. QED
    BY <1>2, <1>3, <1>4

LEMMA TakeStep ==
    ASSUME Typed, NEW p \in Payment, NEW l, Take(p), Goto(p, l)
    PROVE  QueueType' /\ Working' /\ \A q \in Payment : job'[q] # "none" => job[q] # "none"
  <1>t. /\ job \in [Payment -> JobState] /\ attempts \in [Payment -> 0..MaxAttempts]
        /\ stalls \in [Payment -> 0..MaxStalls + 1]
    BY DEF Typed, TypeOK, QueueType
  <1>w. \A q \in Payment :
          /\ pc[q] # "idle" => job[q] = "active"
          /\ job[q] \in {"none", "waiting", "active"} =>
               attempts[q] < MaxAttempts /\ stalls[q] <= MaxStalls
    BY DEF Typed, Working
  <1>1. /\ job[p] = "waiting" /\ job' = [job EXCEPT ![p] = "active"]
        /\ attempts' = attempts /\ stalls' = stalls
    BY DEF Take
  <1>2. job'[p] = "active" /\ \A q \in Payment \ {p} : job'[q] = job[q] /\ pc'[q] = pc[q]
    BY <1>1, <1>t DEF Goto, Typed, TypeOK
  <1>3. QueueType'
    BY <1>1, <1>t DEF QueueType, JobState
  <1>4. Working'
    BY <1>1, <1>2, <1>w DEF Working
  <1>5. QED
    BY <1>1, <1>2, <1>3, <1>4

LEMMA ForgetStep ==
    ASSUME Typed, NEW p \in Payment, Forget(p), UNCHANGED pc
    PROVE  QueueType' /\ Working' /\ \A q \in Payment : job'[q] # "none" => job[q] # "none"
  <1>t. /\ job \in [Payment -> JobState] /\ attempts \in [Payment -> 0..MaxAttempts]
        /\ stalls \in [Payment -> 0..MaxStalls + 1]
        /\ MaxAttempts \in Nat /\ MaxStalls \in Nat
    BY CountsAssumption DEF Typed, TypeOK, QueueType
  <1>1. /\ job[p] \in {"completed", "failed"} /\ pc' = pc
        /\ job' = [job EXCEPT ![p] = "none"] /\ attempts' = [attempts EXCEPT ![p] = 0]
        /\ stalls' = [stalls EXCEPT ![p] = 0]
    BY DEF Forget, Ended
  <1>2. /\ job'[p] = "none" /\ attempts'[p] = 0 /\ stalls'[p] = 0
        /\ \A q \in Payment \ {p} : /\ job'[q] = job[q] /\ attempts'[q] = attempts[q]
                                    /\ stalls'[q] = stalls[q]
    BY <1>1, <1>t
  <1>3. pc[p] = "idle"
    BY <1>1 DEF Typed, Working
  <1>4. QueueType'
    BY <1>1, <1>t DEF QueueType, JobState
  <1>5. Working'
    <2>1. 0 < MaxAttempts /\ 0 <= MaxStalls
      BY CountsAssumption
    <2>2. \A q \in Payment :
            /\ pc[q] # "idle" => job[q] = "active"
            /\ job[q] \in {"none", "waiting", "active"} =>
                 attempts[q] < MaxAttempts /\ stalls[q] <= MaxStalls
      BY DEF Typed, Working
    <2>3. QED
      BY <1>1, <1>2, <1>3, <2>1, <2>2 DEF Working
  <1>6. QED
    BY <1>2, <1>4, <1>5

-----------------------------------------------------------------------------
\* An invoice's status is written; a paid invoice stays so, or is remembered.
Settled(i) == i \in reopened \/ invoice[i] = "paid"

LEMMA StatusStep ==
    ASSUME Typed, NEW i \in Invoice, NEW s \in InvoiceStatus, SetInvoice(i, s)
    PROVE  /\ invoice' \in [Invoice -> InvoiceStatus] /\ reopened' \subseteq Invoice
           /\ reopened \subseteq reopened'
           /\ \A k \in Invoice : Settled(k) => Settled(k)'
           /\ invoice'[i] = s /\ \A k \in Invoice \ {i} : invoice'[k] = invoice[k]
  <1>t. invoice \in [Invoice -> InvoiceStatus] /\ reopened \subseteq Invoice
    BY DEF Typed, TypeOK
  <1>1. /\ invoice' = [invoice EXCEPT ![i] = s]
        /\ reopened' = IF invoice[i] = "paid" /\ s # "paid" THEN reopened \cup {i} ELSE reopened
    BY DEF SetInvoice
  <1>2. invoice'[i] = s /\ \A k \in Invoice \ {i} : invoice'[k] = invoice[k]
    BY <1>1, <1>t
  <1>3. reopened' \subseteq Invoice /\ reopened \subseteq reopened'
    BY <1>1, <1>t
  <1>4. ASSUME NEW k \in Invoice, Settled(k) PROVE Settled(k)'
    BY <1>1, <1>2, <1>3, <1>4 DEF Settled
  <1>5. QED
    BY <1>1, <1>2, <1>3, <1>4, <1>t

LEMMA StatusSame ==
    ASSUME Typed, UNCHANGED statusVars
    PROVE  /\ invoice' \in [Invoice -> InvoiceStatus] /\ reopened' \subseteq Invoice
           /\ reopened \subseteq reopened'
           /\ \A k \in Invoice : Settled(k) => Settled(k)'
           /\ invoice' = invoice
  BY DEF Typed, TypeOK, statusVars, Settled

LEMMA InvoiceTyped ==
    ASSUME Typed, NEW i \in Invoice, InvoiceStep(i)
    PROVE  Typed'
  <1>s. {"draft", "pending", "paid", "expired", "cancelled"} = InvoiceStatus
    BY DEF InvoiceStatus
  <1>1. UNCHANGED <<paymentVars, hookVars, tx, jobVars, moneyVars>>
    BY DEF InvoiceStep, UpdateRead, UpdateWrite, CancelRead, CancelWrite, LockRate, SweepSelect,
       SweepMark, SweepExpire, Sweeping
  <1>2. Working' /\ Known'
    BY <1>1 DEF Typed, Working, Known, ConfirmedFor, paymentVars, hookVars, jobVars,
       queueVars, orderVars
  <1>3. /\ UNCHANGED <<of, made, remote, deposit, received, hook, tx, pc, direct, wallet, sent>>
        /\ UNCHANGED <<job, attempts, stalls, billed, unfounded, strayed, hash>>
    BY <1>1 DEF paymentVars, hookVars, jobVars, queueVars, orderVars, moneyVars
  <1>4. ASSUME invoice' \in [Invoice -> InvoiceStatus], reopened' \subseteq Invoice, auto' \subseteq Invoice,
               lock' \in [Invoice -> {"none", "live", "expired", "used"}],
               sweep' \in [Invoice -> {"idle", "selected", "found"}],
               cancelling' \subseteq Invoice, editing' \subseteq Invoice
        PROVE  Typed'
    BY <1>2, <1>3, <1>4 DEF Typed, TypeOK, QueueType
  <1>t. /\ auto \subseteq Invoice
        /\ lock \in [Invoice -> {"none", "live", "expired", "used"}]
        /\ sweep \in [Invoice -> {"idle", "selected", "found"}]
        /\ cancelling \subseteq Invoice /\ editing \subseteq Invoice
    BY DEF Typed, TypeOK
  <1>5. CASE UpdateRead(i)
    BY <1>5, <1>4, <1>t, StatusSame DEF UpdateRead
  <1>6. CASE UpdateWrite(i)
    BY <1>6, <1>4, <1>t, StatusSame DEF UpdateWrite
  <1>7. CASE CancelRead(i)
    BY <1>7, <1>4, <1>t, StatusSame DEF CancelRead
  <1>8. CASE CancelWrite(i)
    BY <1>8, <1>4, <1>t, <1>s, StatusStep DEF CancelWrite
  <1>9. CASE LockRate(i)
    <2>1. lock' \in [Invoice -> {"none", "live", "expired", "used"}]
      BY <1>9, <1>t DEF LockRate
    <2>2. QED
      BY <1>9, <2>1, <1>4, <1>t, StatusSame DEF LockRate
  <1>10. CASE SweepSelect(i)
    BY <1>10, <1>4, <1>t, StatusSame DEF SweepSelect, Sweeping
  <1>11. CASE SweepMark(i)
    <2>1. lock' \in [Invoice -> {"none", "live", "expired", "used"}]
      BY <1>11, <1>t DEF SweepMark
    <2>2. sweep' \in [Invoice -> {"idle", "selected", "found"}]
      BY <1>11, <1>t DEF SweepMark, Sweeping
    <2>3. QED
      BY <1>11, <2>1, <2>2, <1>4, <1>t, StatusSame DEF SweepMark, Sweeping
  <1>12. CASE SweepExpire(i)
    BY <1>12, <1>4, <1>t, <1>s, StatusStep DEF SweepExpire, Sweeping
  <1>13. QED
    BY <1>5, <1>6, <1>7, <1>8, <1>9, <1>10, <1>11, <1>12 DEF InvoiceStep

\* NOWPayments and Quidax, and the calls that ask them.
LEMMA PaymentTyped ==
    ASSUME Typed, NEW p \in Payment, PaymentStep(p)
    PROVE  Typed'
  <1>t. /\ TypeOK /\ Working /\ Known
    BY DEF Typed
  <1>1. UNCHANGED <<hookVars, jobVars, moneyVars>>
    BY DEF PaymentStep, CreatePosted, CreateSaved, RemoteMoves, DepositMoves
  <1>2. /\ UNCHANGED <<received, hook, job, attempts, stalls, pc, billed, unfounded, strayed, hash,
                        direct, wallet, sent>>
        /\ Working'
    BY <1>1, <1>t DEF Working, hookVars, jobVars, queueVars, orderVars, moneyVars
  <1>3. CASE \E i \in Invoice : CreatePosted(p, i)
    <2>1. PICK i \in Invoice : CreatePosted(p, i)
      BY <1>3
    <2>2. /\ made[p] = "no" /\ of' = [of EXCEPT ![p] = i] /\ made' = [made EXCEPT ![p] = "posted"]
          /\ UNCHANGED <<invoice, reopened, auto, lock, sweep, cancelling, editing, remote, deposit, tx>>
      BY <2>1 DEF CreatePosted, invoiceVars, statusVars
    <2>3. /\ of'[p] = i /\ made'[p] = "posted"
          /\ \A q \in Payment \ {p} : of'[q] = of[q] /\ made'[q] = made[q]
      BY <2>2, <1>t DEF TypeOK
    <2>4. TypeOK'
      BY <1>2, <2>2, <1>t DEF TypeOK, QueueType
    <2>5. Known'
      <3>1. \A q \in Payment : made'[q] # "no" <=> of'[q] \in Invoice
        BY <2>3, <1>t DEF Known
      <3>2. \A q \in Payment : of[q] \in Invoice => of'[q] = of[q]
        BY <2>2, <2>3, <1>t DEF Known
      <3>3. QED
        BY <2>2, <1>2, <3>1, <3>2, KnownKept
    <2>6. QED
      BY <1>2, <2>4, <2>5 DEF Typed
  <1>4. CASE CreateSaved(p)
    <2>1. /\ made[p] = "posted" /\ made' = [made EXCEPT ![p] = "saved"]
          /\ lock' = [lock EXCEPT ![of[p]] = "live"] /\ SetInvoice(of[p], "pending")
          /\ tx' = IF tx[p] = "none" THEN [tx EXCEPT ![p] = "waiting"] ELSE tx
          /\ UNCHANGED <<auto, sweep, cancelling, editing, of, remote, deposit>>
      BY <1>4 DEF CreateSaved
    <2>2. of[p] \in Invoice /\ "pending" \in InvoiceStatus
      BY <2>1, <1>t DEF Known, InvoiceStatus
    <2>3. invoice' \in [Invoice -> InvoiceStatus] /\ reopened' \subseteq Invoice
      BY <2>1, <2>2, StatusStep
    <2>4. /\ made' \in [Payment -> {"no", "posted", "saved"}]
          /\ lock' \in [Invoice -> {"none", "live", "expired", "used"}]
          /\ tx' \in [Payment -> Remote \cup {"none"}]
      BY <2>1, <2>2, <1>t DEF TypeOK, Remote
    <2>5. TypeOK'
      BY <1>2, <2>1, <2>3, <2>4, <1>t DEF TypeOK, QueueType
    <2>6. \A q \in Payment : made'[q] # "no" <=> made[q] # "no"
      BY <2>1, <1>t DEF TypeOK
    <2>7. Known'
      <3>1. \A q \in Payment : made'[q] # "no" <=> of'[q] \in Invoice
        BY <2>1, <2>6, <1>t DEF Known
      <3>2. QED
        BY <2>1, <1>2, <3>1, KnownKept
    <2>8. QED
      BY <1>2, <2>5, <2>7 DEF Typed
  <1>5. CASE \E s \in Remote : RemoteMoves(p, s)
    <2>1. PICK s \in Remote : RemoteMoves(p, s)
      BY <1>5
    <2>2. /\ s \in NextRemote(remote[p]) /\ remote' = [remote EXCEPT ![p] = s]
          /\ UNCHANGED <<invoice, reopened, auto, lock, sweep, cancelling, editing, of, made, deposit, tx>>
      BY <2>1 DEF RemoteMoves, invoiceVars, statusVars
    <2>3. remote' \in [Payment -> Remote]
      BY <2>2, <1>t DEF TypeOK
    <2>4. TypeOK'
      BY <1>2, <2>2, <2>3, <1>t DEF TypeOK, QueueType
    <2>5. \A q \in Payment : remote[q] \in Confirmed => remote'[q] \in Confirmed
      <3>1. remote'[p] = s /\ \A q \in Payment \ {p} : remote'[q] = remote[q]
        BY <2>2, <1>t DEF TypeOK
      <3>2. remote[p] \in Confirmed => s \in Confirmed
        BY <2>2 DEF NextRemote, Confirmed
      <3>3. QED
        BY <3>1, <3>2
    <2>6. Known'
      <3>1. \A q \in Payment : made'[q] # "no" <=> of'[q] \in Invoice
        BY <2>2, <1>t DEF Known
      <3>2. QED
        BY <2>2, <2>5, <1>2, <3>1, KnownKept
    <2>7. QED
      BY <1>2, <2>4, <2>6 DEF Typed
  <1>6. CASE DepositMoves(p)
    <2>1. /\ \/ deposit' = [deposit EXCEPT ![p] = "seen"]
             \/ deposit' = [deposit EXCEPT ![p] = "settled"]
          /\ UNCHANGED <<invoice, reopened, auto, lock, sweep, cancelling, editing, of, made, remote, tx>>
      BY <1>6 DEF DepositMoves, invoiceVars, statusVars
    <2>2. deposit' \in [Payment -> {"absent", "seen", "settled"}]
      BY <2>1, <1>t DEF TypeOK
    <2>3. TypeOK'
      BY <1>2, <2>1, <2>2, <1>t DEF TypeOK, QueueType
    <2>4. Known'
      BY <2>1, <1>2, <1>t DEF Known, ConfirmedFor
    <2>5. QED
      BY <1>2, <2>3, <2>4 DEF Typed
  <1>7. QED
    BY <1>3, <1>4, <1>5, <1>6 DEF PaymentStep

\* An IPN whose handler goes on has the invoice, the payment and the status it came with.
LEMMA HandledHook ==
    ASSUME Typed, NEW e \in Ipn, NEW statuses, Handled(e, statuses)
    PROVE  /\ hook[e] # None /\ hook[e] \in HookType
           /\ hook[e].payment \in Payment /\ hook[e].invoice \in Invoice
           /\ hook[e].status \in Remote /\ hook[e].status \in statuses
           /\ hook' \in [Ipn -> HookType \cup {None}] /\ received' = received
           /\ \A d \in Ipn : hook'[d] = hook[d] \/ hook'[d] = None
  <1>1. hook \in [Ipn -> HookType \cup {None}]
    BY DEF Typed, TypeOK
  <1>2. /\ hook[e] # None /\ hook[e].status \in statuses
        /\ hook' = [hook EXCEPT ![e] = None] /\ received' = received
    BY DEF Handled
  <1>3. hook[e] \in HookType
    BY <1>1, <1>2
  <1>4. hook[e].payment \in Payment /\ hook[e].invoice \in Invoice /\ hook[e].status \in Remote
    BY <1>3 DEF HookType
  <1>5. /\ hook' \in [Ipn -> HookType \cup {None}]
        /\ \A d \in Ipn : hook'[d] = hook[d] \/ hook'[d] = None
    BY <1>1, <1>2
  <1>6. QED
    BY <1>2, <1>3, <1>4, <1>5

\* What the job of an IPN goes by, when it is added.
LEMMA OrderStep ==
    ASSUME Typed, NEW e \in Ipn, Handled(e, Confirmed), NEW withHash \in BOOLEAN,
           AddJob(hook[e], withHash)
    PROVE  /\ Add(hook[e].payment)
           /\ billed' \in [Payment -> Invoice \cup {None}]
           /\ unfounded' \subseteq Payment /\ strayed' \subseteq Payment /\ hash' \subseteq Payment
           /\ strayed \subseteq strayed'
           /\ \A q \in Payment : q # hook[e].payment \/ job[q] # "none" =>
                /\ billed'[q] = billed[q]
                /\ q \in unfounded' <=> q \in unfounded
                /\ q \in hash' <=> q \in hash
           /\ job[hook[e].payment] = "none" =>
                /\ billed'[hook[e].payment] = hook[e].invoice
                /\ hook[e].payment \in strayed'
                     \/ billed[hook[e].payment] = None \/ billed[hook[e].payment] = hook[e].invoice
                /\ hook[e].payment \notin unfounded' => hook[e].founded
  <1> DEFINE h == hook[e]
             p == h.payment
  <1>1. h.payment \in Payment /\ h.invoice \in Invoice
    BY HandledHook
  <1>2. /\ billed \in [Payment -> Invoice \cup {None}]
        /\ unfounded \subseteq Payment /\ strayed \subseteq Payment /\ hash \subseteq Payment
    BY DEF Typed, TypeOK
  <1>3. Add(p)
    BY DEF AddJob
  <1>4. CASE job[p] = "none"
    <2>1. /\ billed' = [billed EXCEPT ![p] = h.invoice]
          /\ strayed' = IF billed[p] \in {None, h.invoice} THEN strayed ELSE strayed \cup {p}
          /\ unfounded' = IF h.founded THEN unfounded \ {p} ELSE unfounded \cup {p}
          /\ hash' = IF withHash THEN hash \cup {p} ELSE hash \ {p}
      BY <1>4 DEF AddJob
    <2>2. billed' \in [Payment -> Invoice \cup {None}] /\ billed'[p] = h.invoice
          /\ \A q \in Payment \ {p} : billed'[q] = billed[q]
      BY <2>1, <1>1, <1>2
    <2>3. /\ unfounded' \subseteq Payment /\ strayed' \subseteq Payment /\ hash' \subseteq Payment
          /\ strayed \subseteq strayed'
          /\ \A q \in Payment \ {p} : (q \in unfounded' <=> q \in unfounded) /\ (q \in hash' <=> q \in hash)
          /\ p \notin unfounded' => h.founded
          /\ p \in strayed' \/ billed[p] = None \/ billed[p] = h.invoice
      <3>1. unfounded' \subseteq Payment /\ strayed' \subseteq Payment /\ hash' \subseteq Payment
        BY <2>1, <1>1, <1>2
      <3>2. strayed \subseteq strayed' /\ (p \in strayed' \/ billed[p] = None \/ billed[p] = h.invoice)
        BY <2>1
      <3>3. p \notin unfounded' => h.founded
        BY <2>1
      <3>4. \A q \in Payment \ {p} : (q \in unfounded' <=> q \in unfounded) /\ (q \in hash' <=> q \in hash)
        BY <2>1
      <3>5. QED
        BY <3>1, <3>2, <3>3, <3>4
    <2>4. QED
      BY <1>3, <1>4, <2>2, <2>3
  <1>5. CASE job[p] # "none"
    <2>1. billed' = billed /\ unfounded' = unfounded /\ strayed' = strayed /\ hash' = hash
      BY <1>5 DEF AddJob, orderVars
    <2>2. QED
      BY <1>2, <1>3, <1>5, <2>1
  <1>6. QED
    BY <1>4, <1>5

LEMMA IpnTyped ==
    ASSUME Typed, NEW e \in Ipn, IpnStep(e)
    PROVE  Typed'
  <1>t. /\ TypeOK /\ Working /\ Known
    BY DEF Typed
  <1>1. UNCHANGED <<paymentVars, moneyVars, pc, direct, auto, lock, sweep, cancelling, editing>>
    BY DEF IpnStep, IpnReceive, IpnIgnored, IpnFailed, IpnEnqueue, IpnEnqueueFails, invoiceVars, jobVars
  <1>2. UNCHANGED <<of, made, remote, deposit, wallet, sent, pc, direct, auto, lock, sweep, cancelling,
                    editing>>
    BY <1>1 DEF paymentVars, moneyVars
  <1>o. \A p \in Payment : made'[p] # "no" <=> of'[p] \in Invoice
    BY <1>2, <1>t DEF Known
  <1>3. CASE \E p \in Payment, s \in Said, i \in Invoice : IpnReceive(e, p, s, i)
    <2>0. PICK p \in Payment, s \in Said, i \in Invoice : IpnReceive(e, p, s, i)
      BY <1>3
    <2> DEFINE h == [payment |-> p, status |-> s, invoice |-> i, read |-> invoice[i],
                     founded |-> of[p] = i /\ Reported(p, s)]
    <2>1. /\ received' = received \cup {e} /\ hook' = [hook EXCEPT ![e] = h]
          /\ tx' = [tx EXCEPT ![p] = TxStatus(s)]
          /\ UNCHANGED <<invoice, reopened, job, attempts, stalls, billed, unfounded, strayed, hash>>
      BY <2>0 DEF IpnReceive, invoiceVars, statusVars, jobVars, queueVars, orderVars
    <2>2. s \in Remote /\ invoice[i] \in InvoiceStatus
      BY FaultAssumption, <1>t DEF TypeOK
    <2>3. h \in HookType
      BY <2>2 DEF HookType
    <2>4. hook' \in [Ipn -> HookType \cup {None}]
      BY <2>1, <2>3, <1>t DEF TypeOK
    <2>5. TxStatus(s) \in Remote
      BY <2>2 DEF TxStatus, Remote
    <2>6. tx' \in [Payment -> Remote \cup {"none"}]
      BY <2>1, <2>5, <1>t DEF TypeOK
    <2>7. TypeOK'
      BY <1>2, <2>1, <2>4, <2>6, <1>t DEF TypeOK, QueueType
    <2>8. hook'[e] = h /\ \A d \in Ipn \ {e} : hook'[d] = hook[d]
      BY <2>1, <1>t DEF TypeOK
    <2>9. h.founded /\ h.status \in Confirmed => ConfirmedFor(h.payment, h.invoice)
      <3>1. s \in Confirmed /\ Reported(p, s) => remote[p] \in Confirmed
        <4>1. remote[p] \in Remote
          BY <1>t DEF TypeOK
        <4>2. QED
          BY <4>1 DEF Reported, Confirmed, Remote
      <3>2. h.founded = (of[p] = i /\ Reported(p, s))
        BY Zenon
      <3>3. h.payment = p /\ h.status = s /\ h.invoice = i
        OBVIOUS
      <3>4. QED
        BY <3>1, <3>2, <3>3 DEF ConfirmedFor
    <2>10. ASSUME NEW d \in Ipn, hook'[d] # None, hook'[d].founded, hook'[d].status \in Confirmed
           PROVE  ConfirmedFor(hook[d].payment, hook[d].invoice)'
      <3>1. CASE d = e
        BY <2>10, <2>8, <2>9, <1>2, <3>1 DEF ConfirmedFor
      <3>2. CASE d # e
        <4>1. hook'[d] = hook[d]
          BY <2>8, <3>2
        <4>2. QED
          BY <2>10, <4>1, <1>2, <1>t DEF Known, ConfirmedFor
      <3>3. QED
        BY <3>1, <3>2
    <2>11. \A q \in Payment : job'[q] # "none" =>
              billed'[q] \in Invoice /\ (q \in unfounded' \/ ConfirmedFor(q, billed[q])')
      BY <1>2, <2>1, <1>t DEF Known, ConfirmedFor
    <2>12. Known'
      BY <1>o, <2>10, <2>11 DEF Known
    <2>13. Working'
      BY <1>2, <2>1, <1>t DEF Working
    <2>14. QED
      BY <2>7, <2>12, <2>13 DEF Typed
  <1>5. CASE IpnIgnored(e) \/ IpnEnqueueFails(e)
    <2>1. /\ \E statuses : Handled(e, statuses)
          /\ UNCHANGED <<invoice, reopened, tx, job, attempts, stalls, billed, unfounded, strayed, hash>>
      BY <1>5 DEF IpnIgnored, IpnEnqueueFails, invoiceVars, statusVars, jobVars, queueVars, orderVars
    <2>2. /\ hook' \in [Ipn -> HookType \cup {None}] /\ received' = received
          /\ \A d \in Ipn : hook'[d] = hook[d] \/ hook'[d] = None
      BY <2>1, HandledHook
    <2>3. TypeOK'
      BY <1>2, <2>1, <2>2, <1>t DEF TypeOK, QueueType
    <2>4. Known'
      BY <1>2, <1>o, <2>1, <2>2, KnownKept
    <2>5. Working'
      BY <1>2, <2>1, <1>t DEF Working
    <2>6. QED
      BY <2>3, <2>4, <2>5 DEF Typed
  <1>6. CASE \E withHash \in BOOLEAN : IpnEnqueue(e, withHash)
    <2>1. PICK withHash \in BOOLEAN : IpnEnqueue(e, withHash)
      BY <1>6
    <2> DEFINE p == hook[e].payment
    <2>2. Handled(e, Confirmed) /\ AddJob(hook[e], withHash) /\ UNCHANGED <<invoice, reopened, tx>>
      BY <2>1 DEF IpnEnqueue, invoiceVars, statusVars
    <2>3. /\ hook[e] # None /\ p \in Payment /\ hook[e].invoice \in Invoice
          /\ hook[e].status \in Confirmed
          /\ hook' \in [Ipn -> HookType \cup {None}] /\ received' = received
          /\ \A d \in Ipn : hook'[d] = hook[d] \/ hook'[d] = None
      BY <2>2, HandledHook
    <2>4. QueueType' /\ Working' /\ \A q \in Payment : job'[q] # "none" => q = p \/ job[q] # "none"
      BY <2>2, <2>3, <1>2, AddStep DEF AddJob
    <2>5. TypeOK'
      <3>1. /\ billed' \in [Payment -> Invoice \cup {None}]
            /\ unfounded' \subseteq Payment /\ strayed' \subseteq Payment /\ hash' \subseteq Payment
        BY <2>2, OrderStep
      <3>2. QED
        BY <1>2, <2>2, <2>3, <2>4, <3>1, <1>t DEF TypeOK
    <2>6. ASSUME NEW d \in Ipn, hook'[d] # None, hook'[d].founded, hook'[d].status \in Confirmed
          PROVE  ConfirmedFor(hook[d].payment, hook[d].invoice)'
      <3>1. hook'[d] = hook[d]
        BY <2>3, <2>6
      <3>2. QED
        BY <2>6, <3>1, <1>2, <1>t DEF Known, ConfirmedFor
    <2>7. ASSUME NEW q \in Payment, job'[q] # "none"
          PROVE  billed'[q] \in Invoice /\ (q \in unfounded' \/ ConfirmedFor(q, billed[q])')
      <3>1. CASE job[q] # "none"
        <4>1. billed'[q] = billed[q] /\ (q \in unfounded' <=> q \in unfounded)
          BY <2>2, <3>1, OrderStep
        <4>2. QED
          BY <3>1, <4>1, <1>2, <1>t DEF Known, ConfirmedFor
      <3>2. CASE job[q] = "none"
        <4>1. q = p
          BY <2>4, <2>7, <3>2
        <4>2. billed'[p] = hook[e].invoice /\ (p \notin unfounded' => hook[e].founded)
          BY <2>2, <3>2, <4>1, OrderStep
        <4>3. p \notin unfounded' => ConfirmedFor(p, hook[e].invoice)
          BY <4>2, <2>3, <1>t DEF Known
        <4>4. QED
          BY <4>1, <4>2, <4>3, <2>3, <1>2 DEF ConfirmedFor
      <3>3. QED
        BY <3>1, <3>2
    <2>8. Known'
      BY <1>o, <2>6, <2>7 DEF Known
    <2>9. QED
      BY <2>4, <2>5, <2>8 DEF Typed
  <1>7. CASE IpnFailed(e)
    <2> DEFINE h == hook[e]
    <2>1. /\ Handled(e, {"failed", "expired"}) /\ tx' = [tx EXCEPT ![h.payment] = h.status]
          /\ UNCHANGED <<job, attempts, stalls, billed, unfounded, strayed, hash>>
          /\ \/ \E s \in {"expired", "cancelled"} : SetInvoice(h.invoice, s)
             \/ UNCHANGED statusVars
      BY <1>7 DEF IpnFailed, jobVars, queueVars, orderVars
    <2>2. /\ h.payment \in Payment /\ h.invoice \in Invoice /\ h.status \in Remote
          /\ {"expired", "cancelled"} \subseteq InvoiceStatus
          /\ hook' \in [Ipn -> HookType \cup {None}] /\ received' = received
          /\ \A d \in Ipn : hook'[d] = hook[d] \/ hook'[d] = None
      BY <2>1, HandledHook DEF InvoiceStatus
    <2>3. invoice' \in [Invoice -> InvoiceStatus] /\ reopened' \subseteq Invoice
      BY <2>1, <2>2, StatusStep, StatusSame
    <2>4. tx' \in [Payment -> Remote \cup {"none"}]
      BY <2>1, <2>2, <1>t DEF TypeOK
    <2>5. TypeOK'
      BY <1>2, <2>1, <2>2, <2>3, <2>4, <1>t DEF TypeOK, QueueType
    <2>6. Known'
      BY <1>2, <1>o, <2>1, <2>2, KnownKept
    <2>7. Working'
      BY <1>2, <2>1, <1>t DEF Working
    <2>8. QED
      BY <2>5, <2>6, <2>7 DEF Typed
  <1>8. QED
    BY <1>3, <1>5, <1>6, <1>7 DEF IpnStep

\* A step of the processor leaves its queue as it is, or ends its work on the job.
MovesOn(p) ==
    /\ pc[p] # "idle" /\ UNCHANGED queueVars
    /\ \E l \in {"load", "verify again", "commit", "pay", "fallback", "finish"} : Goto(p, l)

Ends(p) ==
    /\ pc[p] # "idle" /\ Goto(p, "idle")
    /\ Complete(p) \/ AttemptFails(p) \/ Stall(p)

LEMMA JobKinds ==
    ASSUME NEW p \in Payment
    PROVE  /\ Verified(p) \/ Load(p) \/ VerifiedAgain(p) \/ Commit(p) \/ Credit(p) \/ CreditFails(p)
                \/ CashedOut(p) \/ (\E after \in BOOLEAN : CashoutFails(p, after))
                \/ Fallback(p) \/ FallbackFails(p) => MovesOn(p)
           /\ FlashBlocked(p) \/ NotYetVerified(p) \/ AlreadyPaid(p) \/ Blocked(p) \/ CommitFails(p)
                \/ Finish(p) \/ FinishFails(p) \/ Crash(p) => Ends(p)
  <1>1. ASSUME Verified(p) \/ Load(p) \/ VerifiedAgain(p) \/ Commit(p) PROVE MovesOn(p)
    BY <1>1 DEF Verified, Load, VerifiedAgain, Commit, Onward, MovesOn
  <1>2. ASSUME Credit(p) \/ CreditFails(p) \/ CashedOut(p) \/ (\E after \in BOOLEAN : CashoutFails(p, after))
                 \/ Fallback(p) \/ FallbackFails(p)
        PROVE  MovesOn(p)
    BY <1>2 DEF Credit, CreditFails, CashedOut, CashoutFails, Fallback, FallbackFails, Pay, MovesOn
  <1>3. ASSUME FlashBlocked(p) \/ NotYetVerified(p) \/ AlreadyPaid(p) \/ Blocked(p) PROVE Ends(p)
    BY <1>3 DEF FlashBlocked, NotYetVerified, AlreadyPaid, Blocked, Onward, Ends
  <1>4. ASSUME CommitFails(p) \/ Finish(p) \/ FinishFails(p) \/ Crash(p) PROVE Ends(p)
    BY <1>4 DEF CommitFails, Finish, FinishFails, Crash, Onward, Ends
  <1>5. QED
    BY <1>1, <1>2, <1>3, <1>4

LEMMA MovesOnTyped ==
    ASSUME Typed, NEW p \in Payment, MovesOn(p)
    PROVE  QueueType' /\ Working' /\ UNCHANGED queueVars
  BY OnwardStep DEF MovesOn

LEMMA EndsTyped ==
    ASSUME Typed, NEW p \in Payment, Ends(p)
    PROVE  QueueType' /\ Working' /\ \A q \in Payment : job'[q] # "none" => job[q] # "none"
  BY EndStep DEF Ends

LEMMA FrameOfJobs ==
    ASSUME NEW p \in Payment, JobStep(p) \/ Crash(p) \/ Forgotten(p)
    PROVE  UNCHANGED <<of, made, remote, deposit, received, hook, billed, unfounded, strayed, hash,
                       auto, sweep, cancelling, editing>>
  <1>0. ASSUME UNCHANGED <<paymentVars, hookVars, orderVars, auto, sweep, cancelling, editing>>
        PROVE  UNCHANGED <<of, made, remote, deposit, received, hook, billed, unfounded, strayed, hash,
                           auto, sweep, cancelling, editing>>
    BY <1>0 DEF paymentVars, hookVars, orderVars
  <1>1. CASE JobStart(p) \/ Verified(p) \/ FlashBlocked(p) \/ NotYetVerified(p) \/ Load(p)
             \/ AlreadyPaid(p) \/ VerifiedAgain(p) \/ Blocked(p) \/ Commit(p) \/ CommitFails(p)
             \/ Finish(p) \/ FinishFails(p) \/ Crash(p)
    BY <1>0, <1>1 DEF JobStart, Verified, FlashBlocked, NotYetVerified, Load, AlreadyPaid, VerifiedAgain,
       Blocked, Commit, CommitFails, Finish, FinishFails, Crash, Onward, invoiceVars
  <1>2. CASE Credit(p) \/ CreditFails(p) \/ CashedOut(p) \/ (\E after \in BOOLEAN : CashoutFails(p, after))
             \/ Fallback(p) \/ FallbackFails(p)
    BY <1>0, <1>2 DEF Credit, CreditFails, CashedOut, CashoutFails, Fallback, FallbackFails, Pay, invoiceVars
  <1>3. CASE Forgotten(p)
    BY <1>0, <1>3 DEF Forgotten, invoiceVars
  <1>4. QED
    BY <1>1, <1>2, <1>3 DEF JobStep

LEMMA JobTyped ==
    ASSUME Typed, NEW p \in Payment, JobStep(p) \/ Crash(p) \/ Forgotten(p)
    PROVE  Typed'
  <1>t. /\ TypeOK /\ Working /\ Known
    BY DEF Typed
  <1>2. UNCHANGED <<of, made, remote, deposit, received, hook, billed, unfounded, strayed, hash,
                    auto, sweep, cancelling, editing>>
    BY FrameOfJobs
  <1>3. /\ QueueType' /\ Working' /\ \A q \in Payment : job'[q] # "none" => job[q] # "none"
        /\ pc' \in [Payment -> {"idle", "verify", "load", "verify again", "commit", "pay",
                                "fallback", "finish"}]
    <2>1. CASE MovesOn(p)
      <3>1. PICK l \in {"load", "verify again", "commit", "pay", "fallback", "finish"} : Goto(p, l)
        BY <2>1 DEF MovesOn
      <3>2. pc' \in [Payment -> {"idle", "verify", "load", "verify again", "commit", "pay",
                                "fallback", "finish"}]
        BY <3>1, <1>t DEF Goto, TypeOK
      <3>3. QueueType' /\ Working' /\ job' = job
        BY <2>1, MovesOnTyped DEF queueVars
      <3>4. QED
        BY <3>2, <3>3
    <2>2. CASE Ends(p)
      BY <2>2, <1>t, EndsTyped DEF Ends, Goto, TypeOK
    <2>3. CASE JobStart(p)
      <3>1. PICK l \in {"verify", "load"} : Take(p) /\ Goto(p, l)
        BY <2>3 DEF JobStart, Onward
      <3>2. pc' \in [Payment -> {"idle", "verify", "load", "verify again", "commit", "pay",
                                "fallback", "finish"}]
        BY <3>1, <1>t DEF Goto, TypeOK
      <3>3. QED
        BY <3>1, <3>2, TakeStep
    <2>4. CASE Forgotten(p)
      <3>1. Forget(p) /\ UNCHANGED pc
        BY <2>4 DEF Forgotten
      <3>2. QED
        BY <3>1, <1>t, ForgetStep DEF TypeOK
    <2>5. QED
      BY <2>1, <2>2, <2>3, <2>4, JobKinds DEF JobStep
  <1>4. Known'
    BY <1>2, <1>3, <1>t DEF Known, ConfirmedFor
  <1>5. ASSUME invoice' \in [Invoice -> InvoiceStatus], reopened' \subseteq Invoice,
               lock' \in [Invoice -> {"none", "live", "expired", "used"}],
               tx' \in [Payment -> Remote \cup {"none"}], direct' \subseteq Payment,
               wallet' \subseteq {"INVOICE", "FALLBACK"} \X Invoice \X Payment, sent' \in [Payment -> Nat]
        PROVE  Typed'
    BY <1>2, <1>3, <1>4, <1>5, <1>t DEF Typed, TypeOK
  <1>6. /\ invoice \in [Invoice -> InvoiceStatus] /\ reopened \subseteq Invoice
        /\ lock \in [Invoice -> {"none", "live", "expired", "used"}]
        /\ tx \in [Payment -> Remote \cup {"none"}] /\ direct \subseteq Payment
        /\ wallet \subseteq {"INVOICE", "FALLBACK"} \X Invoice \X Payment /\ sent \in [Payment -> Nat]
    BY <1>t DEF TypeOK
  <1>7. CASE JobStart(p) \/ Verified(p) \/ FlashBlocked(p) \/ NotYetVerified(p) \/ AlreadyPaid(p)
             \/ VerifiedAgain(p) \/ CommitFails(p) \/ Finish(p) \/ FinishFails(p) \/ Crash(p)
    <2>1. UNCHANGED <<invoice, reopened, lock, tx, direct, wallet, sent>>
      BY <1>7 DEF JobStart, Verified, FlashBlocked, NotYetVerified, AlreadyPaid, VerifiedAgain,
         CommitFails, Finish, FinishFails, Crash, Onward, invoiceVars, statusVars, moneyVars
    <2>2. QED
      BY <2>1, <1>5, <1>6
  <1>8. CASE Load(p)
    <2>1. UNCHANGED <<invoice, reopened, lock, tx, wallet, sent>> /\ direct' \subseteq direct \cup {p}
      BY <1>8 DEF Load, Onward, invoiceVars, statusVars, moneyVars
    <2>2. QED
      BY <2>1, <1>5, <1>6
  <1>9. CASE Blocked(p)
    <2>1. UNCHANGED <<invoice, reopened, lock, direct, wallet, sent>> /\ tx' = [tx EXCEPT ![p] = "failed"]
      BY <1>9 DEF Blocked, Onward, invoiceVars, statusVars, moneyVars
    <2>2. tx' \in [Payment -> Remote \cup {"none"}]
      BY <2>1, <1>6 DEF Remote
    <2>3. QED
      BY <2>1, <2>2, <1>5, <1>6
  <1>10. CASE Commit(p)
    <2>1. /\ pc[p] # "idle" /\ SetInvoice(billed[p], "paid") /\ tx' = [tx EXCEPT ![p] = "confirmed"]
          /\ lock' = [lock EXCEPT ![billed[p]] = IF @ = "none" THEN @ ELSE "used"]
          /\ UNCHANGED <<direct, wallet, sent>>
      BY <1>10 DEF Commit, Onward, moneyVars
    <2>2. billed[p] \in Invoice /\ "paid" \in InvoiceStatus
      BY <2>1, <1>t DEF Known, Working, InvoiceStatus
    <2>3. invoice' \in [Invoice -> InvoiceStatus] /\ reopened' \subseteq Invoice
      BY <2>1, <2>2, StatusStep
    <2>4. lock' \in [Invoice -> {"none", "live", "expired", "used"}]
      BY <2>1, <2>2, <1>6
    <2>5. tx' \in [Payment -> Remote \cup {"none"}]
      BY <2>1, <1>6 DEF Remote
    <2>6. QED
      BY <2>1, <2>3, <2>4, <2>5, <1>5, <1>6
  <1>11. CASE Credit(p) \/ CreditFails(p) \/ CashedOut(p) \/ (\E after \in BOOLEAN : CashoutFails(p, after))
              \/ Fallback(p) \/ FallbackFails(p)
    <2>1. /\ UNCHANGED <<invoice, reopened, lock, tx, direct>>
          /\ wallet' \subseteq wallet \cup {Ref(p, "INVOICE"), Ref(p, "FALLBACK")}
          /\ sent' \in {sent, [sent EXCEPT ![p] = @ + 1]}
      BY <1>11 DEF Credit, CreditFails, CashedOut, CashoutFails, Fallback, FallbackFails, Pay,
         invoiceVars, statusVars, moneyVars
    <2>2. sent' \in [Payment -> Nat]
      BY <2>1, <1>6
    <2>3. pc[p] # "idle"
      BY <1>11 DEF Credit, CreditFails, CashedOut, CashoutFails, Fallback, FallbackFails, Pay
    <2>4. billed[p] \in Invoice
      BY <2>3, <1>t DEF Known, Working
    <2>5. wallet' \subseteq {"INVOICE", "FALLBACK"} \X Invoice \X Payment
      BY <2>1, <2>4, <1>6 DEF Ref
    <2>6. QED
      BY <2>1, <2>2, <2>5, <1>5, <1>6
  <1>12. CASE Forgotten(p)
    <2>1. UNCHANGED <<invoice, reopened, lock, tx, direct, wallet, sent>>
      BY <1>12 DEF Forgotten, invoiceVars, statusVars, moneyVars
    <2>2. QED
      BY <2>1, <1>5, <1>6
  <1>13. QED
    BY <1>7, <1>8, <1>9, <1>10, <1>11, <1>12 DEF JobStep

LEMMA NextTyped == Typed /\ [Next]_vars => Typed'
  <1> SUFFICES ASSUME Typed, [Next]_vars PROVE Typed'
    OBVIOUS
  <1>1. CASE Next
    BY <1>1, InvoiceTyped, PaymentTyped, IpnTyped, JobTyped, TouchedAssumption DEF Next
  <1>2. CASE UNCHANGED vars
    BY <1>2 DEF vars, invoiceVars, statusVars, paymentVars, hookVars, jobVars, queueVars, moneyVars,
       orderVars, Typed, TypeOK, QueueType, Working, Known, ConfirmedFor
  <1>3. QED
    BY <1>1, <1>2

\* Every variable has its type: no job is started more often than its attempts and
\* restarts allow, and no write is for an invoice or a payment that does not exist.
THEOREM TypeCorrect == Spec => []TypeOK
  <1>1. Typed => TypeOK
    BY DEF Typed
  <1>2. QED
    BY InitTyped, NextTyped, <1>1, PTL DEF Spec

-----------------------------------------------------------------------------
(* What is paid out is backed *)

Past == {"load", "verify again", "commit", "pay", "fallback", "finish"}

\* Where the check of the deposit is behind a job that had one to make, Quidax holds it.
Checked ==
    \A p \in Payment :
        pc[p] \in Past /\ p \in hash /\ p \notin unfounded => deposit[p] = "settled"

LEMMA PassedIsSettled ==
    ASSUME NEW p \in Payment, "passed" \in Verdicts(p), Typed, p \notin unfounded
    PROVE  deposit[p] = "settled"
  <1>1. deposit[p] \in {"absent", "seen", "settled"}
    BY DEF Typed, TypeOK
  <1>2. QED
    BY <1>1 DEF Verdicts

\* What the steps of the job do to the places in the code.
LEMMA PlaceStep ==
    ASSUME Typed, NEW p \in Payment, NEW l, Goto(p, l)
    PROVE  pc'[p] = l /\ \A q \in Payment \ {p} : pc'[q] = pc[q]
  BY DEF Goto, Typed, TypeOK

LEMMA CheckedStep == Typed /\ Checked /\ [Next]_vars => Checked'
  <1> SUFFICES ASSUME Typed, Checked, [Next]_vars PROVE Checked'
    OBVIOUS
  <1>1. ASSUME NEW i \in Invoice, InvoiceStep(i) PROVE Checked'
    <2>1. UNCHANGED <<deposit, pc, hash, unfounded>>
      BY <1>1 DEF InvoiceStep, UpdateRead, UpdateWrite, CancelRead, CancelWrite, LockRate, SweepSelect,
         SweepMark, SweepExpire, Sweeping, paymentVars, jobVars, orderVars
    <2>2. QED
      BY <2>1 DEF Checked
  <1>2. ASSUME NEW p \in Payment, PaymentStep(p) PROVE Checked'
    <2>1. UNCHANGED <<pc, hash, unfounded>>
      BY <1>2 DEF PaymentStep, CreatePosted, CreateSaved, RemoteMoves, DepositMoves, jobVars, orderVars
    <2>2. \A q \in Payment : deposit[q] = "settled" => deposit'[q] = "settled"
      <3>1. CASE DepositMoves(p)
        BY <3>1 DEF DepositMoves, Typed, TypeOK
      <3>2. CASE ~DepositMoves(p)
        <4>1. UNCHANGED deposit
          BY <1>2, <3>2 DEF PaymentStep, CreatePosted, CreateSaved, RemoteMoves
        <4>2. QED
          BY <4>1
      <3>3. QED
        BY <3>1, <3>2
    <2>3. QED
      BY <2>1, <2>2 DEF Checked
  <1>3. ASSUME NEW e \in Ipn, IpnStep(e) PROVE Checked'
    <2>1. UNCHANGED <<deposit, pc>>
      BY <1>3 DEF IpnStep, IpnReceive, IpnIgnored, IpnFailed, IpnEnqueue, IpnEnqueueFails, paymentVars,
         jobVars
    <2>2. \A q \in Payment : job[q] # "none" =>
            (q \in hash' <=> q \in hash) /\ (q \in unfounded' <=> q \in unfounded)
      <3>1. CASE \E withHash \in BOOLEAN : IpnEnqueue(e, withHash)
        <4>1. PICK withHash \in BOOLEAN : Handled(e, Confirmed) /\ AddJob(hook[e], withHash)
          BY <3>1 DEF IpnEnqueue
        <4>2. ASSUME NEW q \in Payment, job[q] # "none"
              PROVE  (q \in hash' <=> q \in hash) /\ (q \in unfounded' <=> q \in unfounded)
          BY <4>1, <4>2, OrderStep
        <4>3. QED
          BY <4>2
      <3>2. CASE ~ \E withHash \in BOOLEAN : IpnEnqueue(e, withHash)
        <4>1. UNCHANGED <<hash, unfounded>>
          BY <1>3, <3>2 DEF IpnStep, IpnReceive, IpnIgnored, IpnFailed, IpnEnqueueFails, jobVars, orderVars
        <4>2. QED
          BY <4>1
      <3>3. QED
        BY <3>1, <3>2
    <2>3. \A q \in Payment : job[q] = "none" => pc[q] = "idle"
      BY DEF Typed, Working
    <2>4. QED
      BY <2>1, <2>2, <2>3 DEF Checked, Past
  <1>4. ASSUME NEW p \in Payment, JobStep(p) \/ Crash(p) \/ Forgotten(p) PROVE Checked'
    <2>1. ASSUME UNCHANGED <<deposit, hash, unfounded>>, \A q \in Payment \ {p} : pc'[q] = pc[q],
                 \/ pc'[p] \notin Past \/ pc[p] \in Past
                 \/ p \notin hash \/ p \in unfounded \/ deposit[p] = "settled"
          PROVE  Checked'
      BY <2>1 DEF Checked
    <2>2. CASE Ends(p)
      <3>1. UNCHANGED <<deposit, hash, unfounded>>
        BY <1>4, FrameOfJobs
      <3>2. Goto(p, "idle")
        BY <2>2 DEF Ends
      <3>3. pc'[p] = "idle" /\ \A q \in Payment \ {p} : pc'[q] = pc[q]
        BY <3>2, PlaceStep
      <3>4. pc'[p] \notin Past
        BY <3>3 DEF Past
      <3>5. QED
        BY <2>1, <3>1, <3>3, <3>4
    <2>3. CASE Load(p) \/ VerifiedAgain(p) \/ Commit(p) \/ Credit(p) \/ CreditFails(p) \/ CashedOut(p)
               \/ (\E after \in BOOLEAN : CashoutFails(p, after)) \/ Fallback(p) \/ FallbackFails(p)
      <3>1. UNCHANGED <<deposit, hash, unfounded>>
        BY <1>4, FrameOfJobs
      <3>2. pc[p] \in Past
        BY <2>3 DEF Load, VerifiedAgain, Commit, Credit, CreditFails, CashedOut, CashoutFails, Fallback,
           FallbackFails, Onward, Pay, Past
      <3>3. \E l : Goto(p, l)
        BY <2>3, JobKinds DEF MovesOn
      <3>4. QED
        BY <2>1, <3>1, <3>2, <3>3, PlaceStep
    <2>4. CASE Verified(p)
      <3>1. UNCHANGED <<deposit, hash, unfounded>> /\ Goto(p, "load")
        BY <2>4 DEF Verified, Onward, paymentVars, orderVars
      <3>2. p \in unfounded \/ deposit[p] = "settled"
        BY <2>4, PassedIsSettled DEF Verified
      <3>3. QED
        BY <2>1, <3>1, <3>2, PlaceStep
    <2>5. CASE JobStart(p)
      <3>1. UNCHANGED <<deposit, hash, unfounded>> /\ Goto(p, IF p \in hash THEN "verify" ELSE "load")
        BY <2>5 DEF JobStart, Onward, paymentVars, orderVars
      <3>2. p \notin hash \/ pc'[p] \notin Past
        <4>1. pc'[p] = IF p \in hash THEN "verify" ELSE "load"
          BY <3>1, PlaceStep
        <4>2. QED
          BY <4>1 DEF Past
      <3>3. QED
        BY <2>1, <3>1, <3>2, PlaceStep
    <2>6. CASE Forgotten(p)
      <3>1. UNCHANGED <<deposit, hash, unfounded, pc>>
        BY <2>6 DEF Forgotten, paymentVars, orderVars
      <3>2. QED
        BY <3>1 DEF Checked
    <2>7. QED
      BY <1>4, <2>2, <2>3, <2>4, <2>5, <2>6, JobKinds DEF JobStep
  <1>5. CASE UNCHANGED vars
    BY <1>5 DEF vars, paymentVars, jobVars, orderVars, Checked
  <1>6. QED
    BY <1>1, <1>2, <1>3, <1>4, <1>5, TouchedAssumption DEF Next

LEMMA InitChecked == Init => Checked
  BY DEF Init, Checked, Past

\* At the steps that pay, the payment is good, and for the invoice that is paid.
LEMMA PastIsGood ==
    ASSUME Typed, Checked, NEW p \in Payment, pc[p] \in Past
    PROVE  billed[p] \in Invoice /\ (p \in unfounded \/ (of[p] = billed[p] /\ Good(p)))
  BY DEF Typed, Known, Working, Checked, Past, Good, ConfirmedFor

LEMMA BackedStep ==
    ASSUME Typed, Checked, [Next]_vars
    PROVE  /\ \A p \in Payment :
                (sent'[p] # sent[p] \/ \E ref \in wallet' \ wallet : ref[3] = p)
                    => Good(p) \/ p \in unfounded
           /\ \A i \in Invoice : (invoice'[i] = "paid" /\ invoice[i] # "paid") =>
                \E p \in Payment : /\ billed[p] = i
                                   /\ (of[p] = i /\ Good(p)) \/ p \in unfounded
  <1> DEFINE MoneyGoal == \A p \in Payment :
                (sent'[p] # sent[p] \/ \E ref \in wallet' \ wallet : ref[3] = p)
                    => Good(p) \/ p \in unfounded
             PaidGoal == \A i \in Invoice : (invoice'[i] = "paid" /\ invoice[i] # "paid") =>
                \E p \in Payment : /\ billed[p] = i
                                   /\ (of[p] = i /\ Good(p)) \/ p \in unfounded
  <1>s. {"pending", "expired", "cancelled"} \subseteq InvoiceStatus
    BY DEF InvoiceStatus
  <1>a. UNCHANGED moneyVars => MoneyGoal
    BY DEF moneyVars
  <1>b. UNCHANGED statusVars => PaidGoal
    BY DEF statusVars
  <1>c. ASSUME NEW i \in Invoice, NEW s \in {"pending", "expired", "cancelled"}, SetInvoice(i, s) PROVE PaidGoal
    BY <1>c, <1>s, StatusStep
  <1>1. ASSUME NEW i \in Invoice, InvoiceStep(i) PROVE MoneyGoal /\ PaidGoal
    <2>1. UNCHANGED moneyVars
      BY <1>1 DEF InvoiceStep, UpdateRead, UpdateWrite, CancelRead, CancelWrite, LockRate, SweepSelect,
         SweepMark, SweepExpire, Sweeping
    <2>2. UNCHANGED statusVars \/ \E s \in {"expired", "cancelled"} : SetInvoice(i, s)
      BY <1>1 DEF InvoiceStep, UpdateRead, UpdateWrite, CancelRead, CancelWrite, LockRate, SweepSelect,
         SweepMark, SweepExpire
    <2>3. QED
      BY <2>1, <2>2, <1>a, <1>b, <1>c
  <1>2. ASSUME NEW p \in Payment, PaymentStep(p) PROVE MoneyGoal /\ PaidGoal
    <2>1. UNCHANGED moneyVars
      BY <1>2 DEF PaymentStep, CreatePosted, CreateSaved, RemoteMoves, DepositMoves
    <2>2. UNCHANGED statusVars \/ (made[p] = "posted" /\ SetInvoice(of[p], "pending"))
      BY <1>2 DEF PaymentStep, CreatePosted, CreateSaved, RemoteMoves, DepositMoves, invoiceVars
    <2>3. made[p] = "posted" => of[p] \in Invoice
      BY DEF Typed, Known
    <2>4. QED
      BY <2>1, <2>2, <2>3, <1>a, <1>b, <1>c
  <1>3. ASSUME NEW e \in Ipn, IpnStep(e) PROVE MoneyGoal /\ PaidGoal
    <2>1. UNCHANGED moneyVars
      BY <1>3 DEF IpnStep, IpnReceive, IpnIgnored, IpnFailed, IpnEnqueue, IpnEnqueueFails
    <2>2. CASE UNCHANGED statusVars
      BY <2>1, <2>2, <1>a, <1>b
    <2>3. CASE IpnFailed(e)
      <3>1. /\ \E statuses : Handled(e, statuses)
            /\ UNCHANGED statusVars \/ \E s \in {"expired", "cancelled"} : SetInvoice(hook[e].invoice, s)
        BY <2>3 DEF IpnFailed
      <3>2. hook[e].invoice \in Invoice
        BY <3>1, HandledHook
      <3>3. QED
        BY <2>1, <3>1, <3>2, <1>a, <1>b, <1>c
    <2>4. QED
      BY <1>3, <2>2, <2>3 DEF IpnStep, IpnReceive, IpnIgnored, IpnEnqueue, IpnEnqueueFails, invoiceVars
  <1>4. ASSUME NEW p \in Payment, JobStep(p) \/ Crash(p) \/ Forgotten(p) PROVE MoneyGoal /\ PaidGoal
    <2>1. CASE Commit(p)
      <3>1. UNCHANGED moneyVars /\ SetInvoice(billed[p], "paid") /\ pc[p] \in Past
        BY <2>1 DEF Commit, Onward, Past
      <3>2. billed[p] \in Invoice /\ (p \in unfounded \/ (of[p] = billed[p] /\ Good(p)))
        BY <3>1, PastIsGood
      <3>3. \A i \in Invoice \ {billed[p]} : invoice'[i] = invoice[i]
        BY <3>1, <3>2, StatusStep DEF InvoiceStatus
      <3>4. QED
        BY <3>1, <3>2, <3>3, <1>a
    <2>2. CASE Credit(p) \/ CreditFails(p) \/ CashedOut(p) \/ (\E after \in BOOLEAN : CashoutFails(p, after))
               \/ Fallback(p) \/ FallbackFails(p)
      <3>1. /\ UNCHANGED statusVars /\ pc[p] \in Past
            /\ wallet' \subseteq wallet \cup {Ref(p, "INVOICE"), Ref(p, "FALLBACK")}
            /\ sent' \in {sent, [sent EXCEPT ![p] = @ + 1]}
        BY <2>2 DEF Credit, CreditFails, CashedOut, CashoutFails, Fallback, FallbackFails, Pay,
           invoiceVars, moneyVars, Past
      <3>2. Good(p) \/ p \in unfounded
        BY <3>1, PastIsGood
      <3>3. \A q \in Payment \ {p} : sent'[q] = sent[q]
        BY <3>1 DEF Typed, TypeOK
      <3>4. \A q \in Payment \ {p} : \A ref \in wallet' \ wallet : ref[3] # q
        BY <3>1 DEF Ref
      <3>5. MoneyGoal
        BY <3>2, <3>3, <3>4
      <3>6. QED
        BY <3>1, <3>5, <1>b
    <2>3. CASE Ends(p) \/ JobStart(p) \/ Verified(p) \/ Load(p) \/ VerifiedAgain(p) \/ Forgotten(p)
      <3>1. (UNCHANGED moneyVars /\ UNCHANGED statusVars) \/ Commit(p) \/ Credit(p) \/ CreditFails(p)
               \/ CashedOut(p) \/ (\E after \in BOOLEAN : CashoutFails(p, after))
               \/ Fallback(p) \/ FallbackFails(p)
        BY <1>4 DEF JobStep, JobStart, Verified, FlashBlocked, NotYetVerified, Load, AlreadyPaid,
           VerifiedAgain, Blocked, CommitFails, Finish, FinishFails, Crash, Forgotten, Onward, invoiceVars
      <3>2. QED
        BY <3>1, <2>1, <2>2, <1>a, <1>b
    <2>4. QED
      BY <1>4, <2>1, <2>2, <2>3, JobKinds DEF JobStep
  <1>5. CASE UNCHANGED vars
    BY <1>5, <1>a, <1>b DEF vars, invoiceVars
  <1>6. QED
    BY <1>1, <1>2, <1>3, <1>4, <1>5, TouchedAssumption DEF Next

\* Money goes out only for a payment that NOWPayments has confirmed and, when its job has a
\* hash, whose deposit Quidax holds, unless an IPN that was not true asked for the job;
\* whatever other IPNs, restarts and faults come in between.
THEOREM MoneyIsBacked == Spec => MoneyBacked
  <1>1. Typed /\ Checked /\ [Next]_vars =>
          [\A p \in Payment :
             (sent'[p] # sent[p] \/ \E ref \in wallet' \ wallet : ref[3] = p)
                 => Good(p) \/ p \in unfounded]_vars
    BY BackedStep
  <1>2. QED
    BY InitTyped, NextTyped, InitChecked, CheckedStep, <1>1, PTL DEF Spec, MoneyBacked

\* An invoice becomes paid only by the job of a payment that was made for it and is good,
\* unless an IPN that was not true asked for that job.
THEOREM PaidInvoicesAreBacked == Spec => PaidIsBacked
  <1>1. Typed /\ Checked /\ [Next]_vars =>
          [\A i \in Invoice : (invoice'[i] = "paid" /\ invoice[i] # "paid") =>
             \E p \in Payment : /\ billed[p] = i
                                /\ (of[p] = i /\ Good(p)) \/ p \in unfounded]_vars
    BY BackedStep
  <1>2. QED
    BY InitTyped, NextTyped, InitChecked, CheckedStep, <1>1, PTL DEF Spec, PaidIsBacked

-----------------------------------------------------------------------------
(* What is paid out once *)

PaidOut(p) == sent[p] # 0 \/ \E ref \in wallet : ref[3] = p

\* Whoever has paid something out has marked the invoice before, and a job that is about
\* to pay has not paid yet, unless the mark was overwritten meanwhile.
Fine(p) ==
    /\ PaidOut(p) => billed[p] \in Invoice /\ Settled(billed[p])
    /\ pc[p] \in {"pay", "fallback", "finish"} => Settled(billed[p])
    /\ pc[p] \in {"verify again", "commit", "pay"} => billed[p] \in reopened \/ ~PaidOut(p)
    /\ pc[p] = "fallback" => billed[p] \in reopened \/ (sent[p] <= 1 /\ Ref(p, "INVOICE") \notin wallet)
    /\ billed[p] \notin reopened =>
         /\ sent[p] <= 1
         /\ Ref(p, "INVOICE") \in wallet => sent[p] = 0 /\ Ref(p, "FALLBACK") \notin wallet

Once == \A p \in Payment \ strayed : Fine(p)

LEMMA InitOnce == Init => Once
  <1> SUFFICES ASSUME Init, NEW p \in Payment \ strayed PROVE Fine(p)
    BY DEF Once
  <1>1. sent[p] = 0 /\ wallet = {} /\ pc[p] = "idle"
    BY DEF Init
  <1>2. QED
    BY <1>1 DEF Fine, PaidOut

\* Statuses are only written so that what was paid stays so or is remembered.
LEMMA SettledKept ==
    ASSUME Typed, [Next]_vars
    PROVE  /\ \A i \in Invoice : Settled(i) => Settled(i)'
           /\ reopened \subseteq reopened'
  <1>s. {"pending", "expired", "cancelled", "paid"} \subseteq InvoiceStatus
    BY DEF InvoiceStatus
  <1>a. ASSUME UNCHANGED statusVars \/ \E i \in Invoice, s \in {"pending", "expired", "cancelled", "paid"} : SetInvoice(i, s)
        PROVE  /\ \A i \in Invoice : Settled(i) => Settled(i)'
               /\ reopened \subseteq reopened'
    BY <1>a, <1>s, StatusStep, StatusSame
  <1>1. ASSUME NEW i \in Invoice, InvoiceStep(i)
        PROVE  UNCHANGED statusVars \/ \E s \in {"expired", "cancelled"} : SetInvoice(i, s)
    BY <1>1 DEF InvoiceStep, UpdateRead, UpdateWrite, CancelRead, CancelWrite, LockRate, SweepSelect,
       SweepMark, SweepExpire
  <1>2. ASSUME NEW p \in Payment, PaymentStep(p)
        PROVE  UNCHANGED statusVars \/ (of[p] \in Invoice /\ SetInvoice(of[p], "pending"))
    <2>1. UNCHANGED statusVars \/ (made[p] = "posted" /\ SetInvoice(of[p], "pending"))
      BY <1>2 DEF PaymentStep, CreatePosted, CreateSaved, RemoteMoves, DepositMoves, invoiceVars
    <2>2. QED
      BY <2>1 DEF Typed, Known
  <1>3. ASSUME NEW e \in Ipn, IpnStep(e)
        PROVE  \/ UNCHANGED statusVars
               \/ /\ hook[e].invoice \in Invoice
                  /\ \E s \in {"expired", "cancelled"} : SetInvoice(hook[e].invoice, s)
    <2>1. CASE IpnFailed(e)
      <3>1. /\ \E statuses : Handled(e, statuses)
            /\ UNCHANGED statusVars \/ \E s \in {"expired", "cancelled"} : SetInvoice(hook[e].invoice, s)
        BY <2>1 DEF IpnFailed
      <3>2. QED
        BY <3>1, HandledHook
    <2>2. QED
      BY <1>3, <2>1 DEF IpnStep, IpnReceive, IpnIgnored, IpnEnqueue, IpnEnqueueFails, invoiceVars
  <1>4. ASSUME NEW p \in Payment, JobStep(p) \/ Crash(p) \/ Forgotten(p)
        PROVE  UNCHANGED statusVars \/ (billed[p] \in Invoice /\ SetInvoice(billed[p], "paid"))
    <2>1. CASE Commit(p)
      BY <2>1 DEF Commit, Onward, Typed, Known, Working
    <2>2. CASE Credit(p) \/ CreditFails(p) \/ CashedOut(p) \/ (\E after \in BOOLEAN : CashoutFails(p, after))
               \/ Fallback(p) \/ FallbackFails(p)
      BY <2>2 DEF Credit, CreditFails, CashedOut, CashoutFails, Fallback, FallbackFails, Pay, invoiceVars
    <2>3. QED
      BY <1>4, <2>1, <2>2 DEF JobStep, JobStart, Verified, FlashBlocked, NotYetVerified, Load, AlreadyPaid,
         VerifiedAgain, Blocked, CommitFails, Finish, FinishFails, Crash, Forgotten, invoiceVars
  <1>5. CASE UNCHANGED vars
    BY <1>5, <1>a DEF vars, invoiceVars
  <1>6. CASE \E i \in Touched : InvoiceStep(i)
    BY <1>6, <1>1, <1>a, TouchedAssumption
  <1>7. CASE \E p \in Payment : PaymentStep(p) \/ JobStep(p) \/ Crash(p) \/ Forgotten(p)
    BY <1>7, <1>2, <1>4, <1>a
  <1>8. CASE \E e \in Ipn : IpnStep(e)
    BY <1>8, <1>3, <1>a
  <1>9. QED
    BY <1>5, <1>6, <1>7, <1>8 DEF Next

\* A payment that does not pay in a step, and does not come closer to it, stays fine.
LEMMA FineKept ==
    ASSUME Typed, NEW p \in Payment, Fine(p),
           \A i \in Invoice : Settled(i) => Settled(i)', reopened \subseteq reopened',
           billed'[p] = billed[p],
           sent'[p] = sent[p],
           wallet \subseteq wallet', \A ref \in wallet' \ wallet : ref[3] # p,
           pc'[p] \in {pc[p], "idle", "verify", "load"}
    PROVE  Fine(p)'
  <1>1. PaidOut(p)' <=> PaidOut(p)
    BY DEF PaidOut
  <1>r. \A kind \in {"INVOICE", "FALLBACK"} : Ref(p, kind)' = Ref(p, kind) /\ Ref(p, kind)[3] = p
    BY DEF Ref
  <1>w. \A kind \in {"INVOICE", "FALLBACK"} : Ref(p, kind)' \in wallet' <=> Ref(p, kind) \in wallet
    BY <1>r
  <1>2. CASE billed[p] \notin Invoice
    <2>1. pc[p] = "idle" /\ ~PaidOut(p)
      BY <1>2 DEF Typed, Known, Working, Fine
    <2>2. ~PaidOut(p)' /\ pc'[p] \in {"idle", "verify", "load"}
      BY <1>1, <2>1
    <2>3. sent'[p] = 0 /\ Ref(p, "INVOICE")' \notin wallet'
      BY <2>2, <1>r DEF PaidOut
    <2>4. pc'[p] \notin {"verify again", "commit", "pay", "fallback", "finish"}
      BY <2>2
    <2>5. sent'[p] <= 1
      BY <2>3
    <2>6. QED
      BY <2>2, <2>3, <2>4, <2>5 DEF Fine
  <1>3. CASE billed[p] \in Invoice
    <2>2. Settled(billed[p]) => Settled(billed[p])'
      BY <1>3 DEF Settled
    <2>3. billed[p] \in reopened => billed'[p] \in reopened'
      OBVIOUS
    <2>5. (PaidOut(p) => billed[p] \in Invoice /\ Settled(billed[p]))'
      BY <1>1, <1>3, <2>2 DEF Fine
    <2>6. (pc[p] \in {"pay", "fallback", "finish"} => Settled(billed[p]))'
      BY <2>2 DEF Fine
    <2>7. (pc[p] \in {"verify again", "commit", "pay"} => billed[p] \in reopened \/ ~PaidOut(p))'
      BY <1>1, <2>3 DEF Fine
    <2>8. (pc[p] = "fallback" =>
             billed[p] \in reopened \/ (sent[p] <= 1 /\ Ref(p, "INVOICE") \notin wallet))'
      BY <1>w, <2>3 DEF Fine
    <2>9. (billed[p] \notin reopened =>
             /\ sent[p] <= 1
             /\ Ref(p, "INVOICE") \in wallet => sent[p] = 0 /\ Ref(p, "FALLBACK") \notin wallet)'
      BY <1>w, <2>3 DEF Fine
    <2>10. QED
      BY <2>5, <2>6, <2>7, <2>8, <2>9 DEF Fine
  <1>4. QED
    BY <1>2, <1>3

\* One that nothing was paid out for may get a job.
LEMMA FineAdded ==
    ASSUME Typed, NEW p \in Payment, ~PaidOut(p), pc'[p] = "idle", UNCHANGED <<wallet, sent>>
    PROVE  Fine(p)'
  <1>1. ~PaidOut(p)' /\ sent'[p] = 0 /\ \A ref \in wallet' : ref[3] # p
    BY DEF PaidOut
  <1>2. Ref(p, "INVOICE")' \notin wallet'
    BY <1>1 DEF Ref
  <1>3. sent'[p] <= 1
    BY <1>1
  <1>4. QED
    BY <1>1, <1>2, <1>3 DEF Fine

\* The steps of a job that pay, or bring it closer to that.
LEMMA PayStep ==
    ASSUME Typed, NEW p \in Payment, Fine(p), pc[p] \in {"pay", "fallback"}, UNCHANGED <<billed, reopened, invoice>>,
           \/ /\ pc[p] = "pay" /\ pc'[p] = "finish" /\ sent'[p] = sent[p]
              /\ Ref(p, "FALLBACK") \in wallet' <=> Ref(p, "FALLBACK") \in wallet
           \/ /\ pc[p] = "pay" /\ pc'[p] \in {"finish", "fallback"} /\ sent'[p] \in {sent[p], sent[p] + 1}
              /\ Ref(p, "INVOICE") \in wallet' <=> Ref(p, "INVOICE") \in wallet
              /\ Ref(p, "FALLBACK") \in wallet' <=> Ref(p, "FALLBACK") \in wallet
           \/ /\ pc[p] = "fallback" /\ pc'[p] = "finish" /\ sent'[p] = sent[p]
              /\ Ref(p, "INVOICE") \in wallet' <=> Ref(p, "INVOICE") \in wallet
    PROVE  Fine(p)'
  <1>t. sent[p] \in Nat /\ billed[p] \in Invoice
    BY DEF Typed, TypeOK, Known, Working
  <1>1. Settled(billed[p]) /\ (pc[p] = "pay" => billed[p] \in reopened \/ ~PaidOut(p))
        /\ (pc[p] = "fallback" => billed[p] \in reopened \/ (sent[p] <= 1 /\ Ref(p, "INVOICE") \notin wallet))
    BY DEF Fine
  <1>2. Settled(billed[p])' /\ billed'[p] \in Invoice /\ billed'[p] = billed[p]
    BY <1>1, <1>t DEF Settled
  <1>3. pc'[p] \in {"finish", "fallback"} /\ (pc'[p] = "fallback" => pc[p] = "pay")
    OBVIOUS
  <1>4. CASE billed[p] \in reopened
    <2>1. billed'[p] \in reopened'
      BY <1>4
    <2>2. QED
      BY <1>2, <1>3, <2>1 DEF Fine
  <1>5. CASE billed[p] \notin reopened /\ pc[p] = "pay"
    <2>1. sent[p] = 0 /\ Ref(p, "INVOICE") \notin wallet /\ Ref(p, "FALLBACK") \notin wallet
      BY <1>1, <1>5 DEF PaidOut, Ref
    <2>2. /\ sent'[p] <= 1 /\ Ref(p, "FALLBACK") \notin wallet'
          /\ Ref(p, "INVOICE") \in wallet' => sent'[p] = 0 /\ pc'[p] = "finish"
      BY <1>5, <2>1
    <2>3. (pc[p] = "fallback" =>
             billed[p] \in reopened \/ (sent[p] <= 1 /\ Ref(p, "INVOICE") \notin wallet))'
      BY <2>2 DEF Ref
    <2>4. (billed[p] \notin reopened =>
             /\ sent[p] <= 1
             /\ Ref(p, "INVOICE") \in wallet => sent[p] = 0 /\ Ref(p, "FALLBACK") \notin wallet)'
      BY <2>2 DEF Ref
    <2>5. QED
      BY <1>2, <1>3, <2>3, <2>4 DEF Fine
  <1>6. CASE billed[p] \notin reopened /\ pc[p] = "fallback"
    <2>1. sent[p] <= 1 /\ Ref(p, "INVOICE") \notin wallet
      BY <1>1, <1>6
    <2>2. sent'[p] <= 1 /\ Ref(p, "INVOICE") \notin wallet' /\ pc'[p] = "finish"
      BY <1>6, <2>1
    <2>3. (billed[p] \notin reopened =>
             /\ sent[p] <= 1
             /\ Ref(p, "INVOICE") \in wallet => sent[p] = 0 /\ Ref(p, "FALLBACK") \notin wallet)'
      BY <2>2 DEF Ref
    <2>4. QED
      BY <1>2, <2>2, <2>3 DEF Fine
  <1>7. QED
    BY <1>4, <1>5, <1>6

LEMMA NearStep ==
    ASSUME Typed, NEW p \in Payment, Fine(p), Load(p) \/ VerifiedAgain(p) \/ Commit(p)
    PROVE  Fine(p)'
  <1>t. pc[p] # "idle" /\ billed[p] \in Invoice
    BY DEF Load, VerifiedAgain, Commit, Onward, Typed, Known, Working
  <1>1. UNCHANGED <<billed, wallet, sent>>
    BY DEF Load, VerifiedAgain, Commit, Onward, orderVars, moneyVars
  <1>2. pc'[p] \in {"verify again", "commit", "pay"} /\ (pc'[p] = "pay" => Commit(p))
    <2>1. CASE Load(p)
      BY <2>1, PlaceStep DEF Load, Onward
    <2>2. CASE VerifiedAgain(p)
      BY <2>2, PlaceStep DEF VerifiedAgain, Onward
    <2>3. CASE Commit(p)
      BY <2>3, PlaceStep DEF Commit, Onward
    <2>4. QED
      BY <2>1, <2>2, <2>3
  <1>3. billed[p] \in reopened \/ ~PaidOut(p)
    BY DEF Load, VerifiedAgain, Commit, Onward, Fine, Settled
  <1>4. reopened \subseteq reopened' /\ (Commit(p) => invoice'[billed[p]] = "paid")
    <2>1. CASE Commit(p)
      <3>1. SetInvoice(billed[p], "paid") /\ "paid" \in InvoiceStatus
        BY <2>1 DEF Commit, InvoiceStatus
      <3>2. QED
        BY <3>1, <1>t, StatusStep
    <2>2. CASE ~Commit(p)
      BY <2>2 DEF Load, VerifiedAgain, invoiceVars, statusVars
    <2>3. QED
      BY <2>1, <2>2
  <1>5. (Settled(billed[p]) => Settled(billed[p])') /\ (Commit(p) => Settled(billed[p])')
    <2>1. CASE Commit(p)
      BY <2>1, <1>1, <1>4 DEF Settled
    <2>2. CASE ~Commit(p)
      BY <2>2, <1>1 DEF Load, VerifiedAgain, invoiceVars, statusVars, Settled
    <2>3. QED
      BY <2>1, <2>2
  <1>6. PaidOut(p)' <=> PaidOut(p)
    BY <1>1 DEF PaidOut, Ref
  <1>7. (PaidOut(p) => billed[p] \in Invoice /\ Settled(billed[p]))'
    BY <1>1, <1>t, <1>5, <1>6 DEF Fine, Settled
  <1>8. (pc[p] \in {"pay", "fallback", "finish"} => Settled(billed[p]))'
    BY <1>2, <1>5
  <1>9. (billed[p] \in reopened \/ ~PaidOut(p))'
    BY <1>1, <1>3, <1>4, <1>6
  <1>10. (billed[p] \notin reopened =>
            /\ sent[p] <= 1
            /\ Ref(p, "INVOICE") \in wallet => sent[p] = 0 /\ Ref(p, "FALLBACK") \notin wallet)'
    BY <1>1, <1>4 DEF Fine, Ref
  <1>11. QED
    BY <1>2, <1>7, <1>8, <1>9, <1>10 DEF Fine

LEMMA OnceStep == Typed /\ Once /\ [Next]_vars => Once'
  <1> SUFFICES ASSUME Typed, Once, [Next]_vars, NEW q \in Payment, q \notin strayed' PROVE Fine(q)'
    BY DEF Once
  <1>0. /\ reopened \subseteq reopened'
        /\ \A i \in Invoice : Settled(i) => Settled(i)'
    BY SettledKept
  <1>a. ASSUME Fine(q), UNCHANGED <<billed, moneyVars>>, pc'[q] \in {pc[q], "idle", "verify", "load"}
        PROVE  Fine(q)'
    BY <1>a, <1>0, FineKept DEF moneyVars
  <1>f. UNCHANGED strayed => Fine(q)
    BY DEF Once
  <1>1. ASSUME NEW i \in Invoice, InvoiceStep(i) PROVE Fine(q)'
    <2>1. UNCHANGED <<billed, strayed, moneyVars, pc>>
      BY <1>1 DEF InvoiceStep, UpdateRead, UpdateWrite, CancelRead, CancelWrite, LockRate, SweepSelect,
         SweepMark, SweepExpire, Sweeping, jobVars, orderVars
    <2>2. QED
      BY <2>1, <1>a, <1>f
  <1>2. ASSUME NEW p \in Payment, PaymentStep(p) PROVE Fine(q)'
    <2>1. UNCHANGED <<billed, strayed, moneyVars, pc>>
      BY <1>2 DEF PaymentStep, CreatePosted, CreateSaved, RemoteMoves, DepositMoves, jobVars, orderVars
    <2>2. QED
      BY <2>1, <1>a, <1>f
  <1>3. ASSUME NEW e \in Ipn, IpnStep(e) PROVE Fine(q)'
    <2>1. UNCHANGED <<moneyVars, pc>>
      BY <1>3 DEF IpnStep, IpnReceive, IpnIgnored, IpnFailed, IpnEnqueue, IpnEnqueueFails, jobVars
    <2>2. CASE UNCHANGED orderVars
      BY <2>1, <2>2, <1>a, <1>f DEF orderVars
    <2>3. CASE \E withHash \in BOOLEAN : IpnEnqueue(e, withHash)
      <3>1. PICK withHash \in BOOLEAN : Handled(e, Confirmed) /\ AddJob(hook[e], withHash)
        BY <2>3 DEF IpnEnqueue
      <3>2. q \notin strayed
        BY <3>1, OrderStep
      <3>3. Fine(q)
        BY <3>2 DEF Once
      <3>4. CASE billed'[q] = billed[q]
        <4>1. sent' = sent /\ wallet' = wallet /\ pc' = pc
          BY <2>1 DEF moneyVars
        <4>2. QED
          BY <3>3, <3>4, <4>1, <1>0, FineKept
      <3>5. CASE billed'[q] # billed[q]
        <4>1. q = hook[e].payment /\ job[q] = "none"
          BY <3>1, <3>5, OrderStep
        <4>2. billed[q] = None
          BY <3>1, <3>5, <4>1, OrderStep
        <4>3. ~PaidOut(q)
          BY <3>3, <4>2, NoneAssumption DEF Fine
        <4>4. pc'[q] = "idle" /\ UNCHANGED <<wallet, sent>>
          BY <2>1, <4>1 DEF Typed, Working, moneyVars
        <4>5. QED
          BY <4>3, <4>4, FineAdded
      <3>6. QED
        BY <3>4, <3>5
    <2>4. QED
      BY <1>3, <2>2, <2>3 DEF IpnStep, IpnReceive, IpnIgnored, IpnFailed, IpnEnqueueFails, jobVars
  <1>4. ASSUME NEW p \in Payment, JobStep(p) \/ Crash(p) \/ Forgotten(p) PROVE Fine(q)'
    <2>0. UNCHANGED <<billed, strayed>> /\ Fine(q)
      BY <1>4, <1>f, FrameOfJobs
    <2>1. CASE Credit(p) \/ CreditFails(p) \/ CashedOut(p) \/ (\E after \in BOOLEAN : CashoutFails(p, after))
               \/ Fallback(p) \/ FallbackFails(p)
      <3>0. UNCHANGED <<reopened, invoice>> /\ sent \in [Payment -> Nat]
        BY <2>1 DEF Credit, CreditFails, CashedOut, CashoutFails, Fallback, FallbackFails, Pay, invoiceVars,
           statusVars, Typed, TypeOK
      <3>1. /\ pc[p] \in {"pay", "fallback"}
            /\ wallet' \subseteq wallet \cup {Ref(p, "INVOICE"), Ref(p, "FALLBACK")} /\ wallet \subseteq wallet'
            /\ sent' \in {sent, [sent EXCEPT ![p] = @ + 1]}
            /\ \E l \in {"fallback", "finish"} : Goto(p, l)
        BY <2>1 DEF Credit, CreditFails, CashedOut, CashoutFails, Fallback, FallbackFails, Pay, moneyVars
      <3>2. CASE q # p
        <4>1. sent'[q] = sent[q]
          BY <3>0, <3>1, <3>2
        <4>2. \A ref \in wallet' \ wallet : ref[3] # q
          BY <3>1, <3>2 DEF Ref
        <4>3. pc'[q] = pc[q]
          BY <3>1, <3>2, PlaceStep
        <4>4. wallet \subseteq wallet' /\ billed'[q] = billed[q]
          BY <3>1, <2>0
        <4>5. QED
          BY <4>1, <4>2, <4>3, <4>4, <2>0, <1>0, FineKept
      <3>3. CASE q = p
        <4>0. Ref(p, "INVOICE") # Ref(p, "FALLBACK")
          BY DEF Ref
        <4>1. CASE Credit(p) \/ CreditFails(p)
          <5>1. /\ pc[p] = "pay" /\ Goto(p, "finish") /\ sent' = sent
                /\ wallet' \subseteq wallet \cup {Ref(p, "INVOICE")} /\ wallet \subseteq wallet'
            BY <4>1 DEF Credit, CreditFails, Pay, moneyVars
          <5>2. Ref(p, "FALLBACK") \in wallet' <=> Ref(p, "FALLBACK") \in wallet
            BY <5>1, <4>0
          <5>3. QED
            BY <5>1, <5>2, <3>0, <3>3, <2>0, <1>0, PlaceStep, PayStep
        <4>2. CASE CashedOut(p) \/ (\E after \in BOOLEAN : CashoutFails(p, after))
          <5>1. /\ pc[p] = "pay" /\ \E l \in {"finish", "fallback"} : Goto(p, l)
                /\ sent' \in {sent, [sent EXCEPT ![p] = @ + 1]} /\ wallet' = wallet
            BY <4>2 DEF CashedOut, CashoutFails, Pay
          <5>2. sent'[p] \in {sent[p], sent[p] + 1} /\ pc'[p] \in {"finish", "fallback"}
            BY <5>1, <3>0, PlaceStep
          <5>3. QED
            BY <5>1, <5>2, <3>0, <3>3, <2>0, <1>0, PayStep
        <4>3. CASE Fallback(p) \/ FallbackFails(p)
          <5>1. /\ pc[p] = "fallback" /\ Goto(p, "finish") /\ sent' = sent
                /\ wallet' \subseteq wallet \cup {Ref(p, "FALLBACK")} /\ wallet \subseteq wallet'
            BY <4>3 DEF Fallback, FallbackFails, Pay, moneyVars
          <5>2. Ref(p, "INVOICE") \in wallet' <=> Ref(p, "INVOICE") \in wallet
            BY <5>1, <4>0
          <5>3. QED
            BY <5>1, <5>2, <3>0, <3>3, <2>0, <1>0, PlaceStep, PayStep
        <4>4. QED
          BY <2>1, <4>1, <4>2, <4>3
      <3>4. QED
        BY <3>2, <3>3
    <2>2. CASE Ends(p) \/ JobStart(p) \/ Verified(p) \/ Forgotten(p)
      <3>1. \/ UNCHANGED moneyVars
            \/ Credit(p) \/ CreditFails(p) \/ CashedOut(p) \/ (\E after \in BOOLEAN : CashoutFails(p, after))
               \/ Fallback(p) \/ FallbackFails(p)
        BY <1>4 DEF JobStep, JobStart, Verified, FlashBlocked, NotYetVerified, Load, AlreadyPaid,
           VerifiedAgain, Blocked, Commit, CommitFails, Finish, FinishFails, Crash, Forgotten, Onward
      <3>2. pc' = pc \/ \E l \in {"idle", "verify", "load"} : Goto(p, l)
        BY <2>2 DEF Ends, JobStart, Verified, Forgotten, Onward
      <3>3. pc'[q] \in {pc[q], "idle", "verify", "load"}
        BY <3>2, PlaceStep
      <3>4. CASE UNCHANGED moneyVars
        BY <2>0, <3>3, <3>4, <1>a
      <3>5. QED
        BY <3>1, <3>4, <2>1
    <2>3. CASE Load(p) \/ VerifiedAgain(p) \/ Commit(p)
      <3>1. CASE q = p
        BY <2>3, <3>1, <2>0, NearStep
      <3>2. CASE q # p
        <4>1. UNCHANGED moneyVars /\ \E l : Goto(p, l)
          BY <2>3 DEF Load, VerifiedAgain, Commit, Onward
        <4>2. pc'[q] = pc[q]
          BY <3>2, <4>1, PlaceStep
        <4>3. QED
          BY <2>0, <4>1, <4>2, <1>a
      <3>3. QED
        BY <3>1, <3>2
    <2>4. QED
      BY <1>4, <2>1, <2>2, <2>3, JobKinds DEF JobStep
  <1>5. CASE UNCHANGED vars
    BY <1>5, <1>a, <1>f DEF vars, jobVars, orderVars
  <1>6. QED
    BY <1>1, <1>2, <1>3, <1>4, <1>5, TouchedAssumption DEF Next

\* However often its job is started and whatever IPNs come in, a payment is credited or sent
\* to the bank once, as long as its jobs are for one invoice and nobody overwrites the status
\* PAID of that.
THEOREM PaymentsArePaidOutOnce == Spec => []PaidOutOnce
  <1>1. Once => PaidOutOnce
    BY DEF Once, Fine, PaidOutOnce
  <1>2. QED
    BY InitTyped, NextTyped, InitOnce, OnceStep, <1>1, PTL DEF Spec
=============================================================================

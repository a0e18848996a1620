--------------------------- MODULE InvoicePayment ---------------------------
(***************************************************************************)
(* How an invoice is paid: InvoiceService and NowpaymentsService with the  *)
(* tables invoices, rate_locks and transactions, the IPN webhooks of       *)
(* NOWPayments, the payment job with its two Quidax checks, and the credit *)
(* or the automatic cash-out that follows.                                 *)
(*                                                                         *)
(* Handlers are split where they await something: a status they read may   *)
(* be stale when they act on it.  Writes that follow each other with       *)
(* nothing awaited from outside in between are one step.                   *)
(***************************************************************************)
EXTENDS Naturals, FiniteSets

CONSTANTS Invoice,
          Payment,      \* payments NOWPayments makes, each used once (a bound)
          Touched,      \* invoices with more to them than payments (a bound)
          MaxAttempts,  \* attempts of a payment job
          MaxStalls,    \* times Bull restarts a job whose worker died
          Ipn,          \* IPNs that come in, each used once (a bound)
          Said,         \* the statuses that IPNs may state (a bound)
          Fault,        \* what may fail, a subset of FaultKind
          None

FaultKind == {"outage",  \* Quidax does not answer
              "queue",   \* paymentQueue.add
              "commit",  \* the transaction that marks the invoice paid
              "credit",  \* creditWallet
              "cashout", \* initiateDirectPayout, or a step after it
              "audit"}   \* the notification or audit line at the end

InvoiceStatus == {"draft", "pending", "paid", "expired", "cancelled"}
Remote == {"waiting", "confirming", "confirmed", "finished", "failed", "expired"}

ASSUME CountsAssumption ==
    MaxAttempts \in Nat \ {0} /\ MaxStalls \in Nat
ASSUME FaultAssumption == Fault \subseteq FaultKind /\ Said \subseteq Remote
ASSUME TouchedAssumption == Touched \subseteq Invoice
ASSUME NoneAssumption == None \notin Invoice

VARIABLES invoice,    \* the status of each invoice
          reopened,   \* history: invoices that were paid and then were not
          auto,       \* invoices with auto_cashout
          lock,       \* its row in rate_locks
          sweep,      \* where expireRateLocks is with the lock
          cancelling, \* invoices whose cancellation has passed its check
          editing,    \* invoices whose update has passed its check
          of,         \* the invoice of each payment
          made,       \* where createPayment is
          remote,     \* the payment as NOWPayments sees it
          deposit,    \* the deposit as Quidax sees it
          received,   \* IPNs with a row in webhook_events
          hook,       \* what each handler of an IPN goes by
          tx,         \* the status of the payment's row in transactions
          job, attempts, stalls,  \* the payment jobs, see JobQueue
          pc,         \* where the job is
          billed,     \* the invoice that the payment's job is for
          unfounded,  \* payments whose job an IPN asked for that was not true
          strayed,    \* history: payments with jobs for more than one invoice
          hash,       \* payments whose job carries a transaction hash
          direct,     \* payments whose job has read auto_cashout
          wallet,     \* references that creditWallet has booked
          sent        \* payouts sent for each payment

INSTANCE JobQueue WITH Job <- Payment

queueVars == <<job, attempts, stalls>>
statusVars == <<invoice, reopened>>
invoiceVars == <<statusVars, auto, lock, sweep, cancelling, editing>>
paymentVars == <<of, made, remote, deposit>>
hookVars == <<received, hook>>
orderVars == <<billed, unfounded, strayed, hash>>
jobVars == <<queueVars, pc, orderVars, direct>>
moneyVars == <<wallet, sent>>
vars == <<invoiceVars, paymentVars, hookVars, tx, jobVars, moneyVars>>

-----------------------------------------------------------------------------
\* mapNowpaymentsStatus
TxStatus(s) == IF s \in {"confirmed", "finished"} THEN "confirmed" ELSE s

Confirmed == {"confirmed", "finished"}

\* The reference that creditWallet is given.
Ref(p, kind) == <<kind, billed[p], p>>

Goto(p, label) == pc' = [pc EXCEPT ![p] = label]

SetInvoice(i, s) ==
    /\ invoice' = [invoice EXCEPT ![i] = s]
    /\ reopened' = IF invoice[i] = "paid" /\ s # "paid" THEN reopened \cup {i}
                                                      ELSE reopened

Init ==
    /\ invoice = [i \in Invoice |-> "draft"]
    /\ reopened = {}
    /\ auto \in SUBSET Invoice
    /\ lock = [i \in Invoice |-> "none"]
    /\ sweep = [i \in Invoice |-> "idle"]
    /\ cancelling = {}
    /\ editing = {}
    /\ of = [p \in Payment |-> None]
    /\ made = [p \in Payment |-> "no"]
    /\ remote = [p \in Payment |-> "waiting"]
    /\ deposit = [p \in Payment |-> "absent"]
    /\ received = {}
    /\ hook = [e \in Ipn |-> None]
    /\ tx = [p \in Payment |-> "none"]
    /\ QueueInit
    /\ pc = [p \in Payment |-> "idle"]
    /\ billed = [p \in Payment |-> None]
    /\ unfounded = {}
    /\ strayed = {}
    /\ hash = {}
    /\ direct = {}
    /\ wallet = {}
    /\ sent = [p \in Payment |-> 0]

-----------------------------------------------------------------------------
(* InvoiceService *)

UpdateRead(i) ==
    /\ invoice[i] = "draft"
    /\ editing' = editing \cup {i}
    /\ UNCHANGED <<statusVars, auto, lock, sweep, cancelling, paymentVars,
                   hookVars, tx, jobVars, moneyVars>>

\* autoCashout is switched on or off.
UpdateWrite(i) ==
    /\ i \in editing
    /\ editing' = editing \ {i}
    /\ auto' = IF i \in auto THEN auto \ {i} ELSE auto \cup {i}
    /\ UNCHANGED <<statusVars, lock, sweep, cancelling, paymentVars, hookVars, tx,
                   jobVars, moneyVars>>

CancelRead(i) ==
    /\ invoice[i] \notin {"paid", "cancelled"}
    /\ cancelling' = cancelling \cup {i}
    /\ UNCHANGED <<statusVars, auto, lock, sweep, editing, paymentVars, hookVars, tx,
                   jobVars, moneyVars>>

CancelWrite(i) ==
    /\ i \in cancelling
    /\ cancelling' = cancelling \ {i}
    /\ SetInvoice(i, "cancelled")
    /\ UNCHANGED <<auto, lock, sweep, editing, paymentVars, hookVars, tx,
                   jobVars, moneyVars>>

-----------------------------------------------------------------------------
(* createPayment, lockRate and expireRateLocks *)

\* The invoice is read and NOWPayments is asked for a payment,
CreatePosted(p, i) ==
    /\ made[p] = "no"
    /\ invoice[i] \in {"draft", "pending"}
    /\ of' = [of EXCEPT ![p] = i]
    /\ made' = [made EXCEPT ![p] = "posted"]
    /\ UNCHANGED <<invoiceVars, remote, deposit, hookVars, tx, jobVars, moneyVars>>

\* and when it has answered the lock, the invoice and the transaction are
\* written, whatever the invoice is by now.
CreateSaved(p) ==
    /\ made[p] = "posted"
    /\ made' = [made EXCEPT ![p] = "saved"]
    /\ lock' = [lock EXCEPT ![of[p]] = "live"]
    /\ SetInvoice(of[p], "pending")
    /\ tx' = IF tx[p] = "none" THEN [tx EXCEPT ![p] = "waiting"] ELSE tx
    /\ UNCHANGED <<auto, sweep, cancelling, editing, of, remote, deposit,
                   hookVars, jobVars, moneyVars>>

\* A second lock of an invoice expires the first and then hits the unique
\* constraint on invoice_id.
LockRate(i) ==
    /\ lock' = [lock EXCEPT ![i] = CASE @ = "none" -> "live"
                                     [] @ = "live" -> "expired"
                                     [] OTHER -> @]
    /\ UNCHANGED <<statusVars, auto, sweep, cancelling, editing, paymentVars,
                   hookVars, tx, jobVars, moneyVars>>

Sweeping(i, from, to) ==
    /\ sweep[i] = from
    /\ sweep' = [sweep EXCEPT ![i] = to]
    /\ UNCHANGED <<auto, cancelling, editing, paymentVars, hookVars, tx,
                   jobVars, moneyVars>>

\* The locks that are over and neither expired nor used are selected,
SweepSelect(i) ==
    /\ lock[i] = "live"
    /\ Sweeping(i, "idle", "selected")
    /\ UNCHANGED <<statusVars, lock>>

\* each is marked, and its invoice looked up if pending,
SweepMark(i) ==
    /\ lock' = [lock EXCEPT ![i] = IF @ = "used" THEN @ ELSE "expired"]
    /\ Sweeping(i, "selected", IF invoice[i] = "pending" THEN "found" ELSE "idle")
    /\ UNCHANGED statusVars

\* and then expired by its id.
SweepExpire(i) ==
    /\ SetInvoice(i, "expired")
    /\ Sweeping(i, "found", "idle")
    /\ UNCHANGED lock

-----------------------------------------------------------------------------
(* NOWPayments and Quidax *)

NextRemote(s) ==
    CASE s = "waiting" -> {"confirming", "expired", "failed"}
      [] s = "confirming" -> {"confirmed", "failed"}
      [] s = "confirmed" -> {"finished"}
      [] OTHER -> {}

\* Nobody can pay before the reply has told the address; the payment may lapse.
RemoteMoves(p, s) ==
    /\ made[p] = "saved" \/ (made[p] = "posted" /\ s = "expired")
    /\ s \in NextRemote(remote[p])
    /\ remote' = [remote EXCEPT ![p] = s]
    /\ UNCHANGED <<invoiceVars, of, made, deposit, hookVars, tx, jobVars, moneyVars>>

\* A deposit has too few confirmations or a wrong amount before it is settled.
DepositMoves(p) ==
    /\ remote[p] \in {"confirming", "confirmed", "finished"}
    /\ \/ deposit[p] = "absent" /\ deposit' = [deposit EXCEPT ![p] = "seen"]
       \/ deposit[p] = "seen" /\ deposit' = [deposit EXCEPT ![p] = "settled"]
    /\ UNCHANGED <<invoiceVars, of, made, remote, hookVars, tx, jobVars, moneyVars>>

\* NOWPayments has reported the status s, or would now.
Reported(p, s) ==
    s \in CASE remote[p] \in {"waiting", "expired"} -> {"waiting", remote[p]}
            [] remote[p] \in {"confirming", "failed"} -> {"waiting", "confirming", remote[p]}
            [] remote[p] = "confirmed" -> {"waiting", "confirming", "confirmed"}
            [] OTHER -> {"waiting", "confirming", "confirmed", "finished"}

-----------------------------------------------------------------------------
(* processWebhook and handlePaymentStatusUpdate *)

\* The route takes any IPN: whether the signature is valid is logged and stored,
\* and decides nothing.  So what it says of payment p and invoice i need not be
\* true, and "founded" is history.  The event is stored, the invoice is read, and
\* the transaction's status is overwritten.  An event that is stored is never
\* handled again, also when its handler failed: a second delivery is ignored or
\* hits the unique index.
IpnReceive(e, p, s, i) ==
    /\ e \notin received
    /\ received' = received \cup {e}
    /\ hook' = [hook EXCEPT ![e] =
                  [payment |-> p, status |-> s, invoice |-> i, read |-> invoice[i],
                   founded |-> of[p] = i /\ Reported(p, s)]]
    /\ tx' = [tx EXCEPT ![p] = TxStatus(s)]
    /\ UNCHANGED <<invoiceVars, paymentVars, jobVars, moneyVars>>

Handled(e, statuses) ==
    /\ hook[e] # None
    /\ hook[e].status \in statuses
    /\ hook' = [hook EXCEPT ![e] = None]
    /\ UNCHANGED received

IpnIgnored(e) ==
    /\ Handled(e, {"waiting", "confirming"})
    /\ UNCHANGED <<invoiceVars, paymentVars, tx, jobVars, moneyVars>>

\* The job's id is the payment's: the second of two such IPNs adds nothing.
AddJob(h, withHash) ==
    LET p == h.payment
    IN  /\ Add(p)
        /\ IF job[p] = "none"
           THEN /\ billed' = [billed EXCEPT ![p] = h.invoice]
                /\ strayed' = IF billed[p] \in {None, h.invoice} THEN strayed ELSE strayed \cup {p}
                /\ unfounded' = IF h.founded THEN unfounded \ {p} ELSE unfounded \cup {p}
                /\ hash' = IF withHash THEN hash \cup {p} ELSE hash \ {p}
           ELSE UNCHANGED orderVars

\* Mutant: a payment that is not yet confirmed is processed.
IpnEnqueueConfirming(e, withHash) ==
    /\ Handled(e, Confirmed \cup {"confirming"})
    /\ AddJob(hook[e], withHash)
    /\ UNCHANGED <<invoiceVars, paymentVars, tx, pc, direct, moneyVars>>

IpnEnqueue(e, withHash) ==
    /\ Handled(e, Confirmed)
    /\ AddJob(hook[e], withHash)
    /\ UNCHANGED <<invoiceVars, paymentVars, tx, pc, direct, moneyVars>>

IpnEnqueueFails(e) ==
    /\ "queue" \in Fault
    /\ Handled(e, Confirmed)
    /\ UNCHANGED <<invoiceVars, paymentVars, tx, jobVars, moneyVars>>

\* onPaymentFailed, with the invoice as it was when the event came in.
IpnFailed(e) ==
    LET h == hook[e]
    IN  /\ Handled(e, {"failed", "expired"})
        /\ tx' = [tx EXCEPT ![h.payment] = h.status]
        /\ IF h.read = "pending"
           THEN SetInvoice(h.invoice, IF h.status = "expired" THEN "expired" ELSE "cancelled")
           ELSE UNCHANGED statusVars
        /\ UNCHANGED <<auto, lock, sweep, cancelling, editing, paymentVars,
                       jobVars, moneyVars>>

-----------------------------------------------------------------------------
(* runFullVerification *)

\* Mutant: any deposit that Quidax lists passes.
VerdictsUnconfirmed(p) ==
    (IF p \notin unfounded /\ deposit[p] = "absent" THEN {"flash"} ELSE {"passed"})
    \cup (IF "outage" \in Fault THEN {"flash"} ELSE {})

\* A deposit that is not listed, or has no confirmation yet, is taken for a flash
\* deposit; one that has too few or a wrong amount is not.  When Quidax does not
\* answer, getDeposits returns no deposits, and so none is found.  An IPN that is
\* not true may name the hash of any deposit.
Verdicts(p) ==
    (CASE p \in unfounded        -> {"flash", "held", "passed"}
       [] deposit[p] = "absent"  -> {"flash"}
       [] deposit[p] = "seen"    -> {"flash", "held"}
       [] OTHER                  -> {"passed"})
    \cup (IF "outage" \in Fault THEN {"flash"} ELSE {})

-----------------------------------------------------------------------------
(* handleProcessPayment and onPaymentConfirmed *)

\* A step of the job that changes neither the queue nor the money.
Onward(p, from, to) ==
    /\ pc[p] = from
    /\ Goto(p, to)
    /\ UNCHANGED <<paymentVars, hookVars, orderVars, moneyVars>>

JobStart(p) ==
    /\ Take(p)
    /\ Onward(p, "idle", IF p \in hash THEN "verify" ELSE "load")
    /\ UNCHANGED <<invoiceVars, tx, direct>>

Verified(p) ==
    /\ "passed" \in Verdicts(p)
    /\ Onward(p, "verify", "load")
    /\ UNCHANGED <<invoiceVars, tx, queueVars, direct>>

\* The job returns, so that it is not tried again.
FlashBlocked(p) ==
    /\ "flash" \in Verdicts(p)
    /\ Onward(p, "verify", "idle")
    /\ Complete(p)
    /\ UNCHANGED <<invoiceVars, tx, direct>>

\* It throws, so that it is.
NotYetVerified(p) ==
    /\ "held" \in Verdicts(p)
    /\ Onward(p, "verify", "idle")
    /\ AttemptFails(p)
    /\ UNCHANGED <<invoiceVars, tx, direct>>

\* Mutant: a paid invoice is not skipped.
LoadPaid(p) ==
    /\ Onward(p, "load", IF p \in hash THEN "verify again" ELSE "commit")
    /\ direct' = IF billed[p] \in auto THEN direct \cup {p} ELSE direct \ {p}
    /\ UNCHANGED <<invoiceVars, tx, queueVars>>

\* Invoice and transaction are read; what is decided below is decided by them.
Load(p) ==
    /\ Onward(p, "load", IF p \in hash THEN "verify again" ELSE "commit")
    /\ invoice[billed[p]] # "paid"
    /\ direct' = IF billed[p] \in auto THEN direct \cup {p} ELSE direct \ {p}
    /\ UNCHANGED <<invoiceVars, tx, queueVars>>

AlreadyPaid(p) ==
    /\ Onward(p, "load", "idle")
    /\ invoice[billed[p]] = "paid"
    /\ Complete(p)
    /\ UNCHANGED <<invoiceVars, tx, direct>>

VerifiedAgain(p) ==
    /\ "passed" \in Verdicts(p)
    /\ Onward(p, "verify again", "commit")
    /\ UNCHANGED <<invoiceVars, tx, queueVars, direct>>

\* Here the payment is blocked whatever the reason.
Blocked(p) ==
    /\ Verdicts(p) # {"passed"}
    /\ Onward(p, "verify again", "idle")
    /\ Complete(p)
    /\ tx' = [tx EXCEPT ![p] = "failed"]
    /\ UNCHANGED <<invoiceVars, direct>>

\* One database transaction: transaction, invoice and rate lock.
Commit(p) ==
    /\ Onward(p, "commit", "pay")
    /\ tx' = [tx EXCEPT ![p] = "confirmed"]
    /\ SetInvoice(billed[p], "paid")
    /\ lock' = [lock EXCEPT ![billed[p]] = IF @ = "none" THEN @ ELSE "used"]
    /\ UNCHANGED <<auto, sweep, cancelling, editing, queueVars, direct>>

CommitFails(p) ==
    /\ "commit" \in Fault
    /\ Onward(p, "commit", "idle")
    /\ AttemptFails(p)
    /\ UNCHANGED <<invoiceVars, tx, direct>>

-----------------------------------------------------------------------------
(* What the customer gets: the wallet is credited, or the amount is sent to    *)
(* the bank account.                                                           *)

\* The unique index on the references of wallet transactions.
Unused(ref) == ref \notin wallet

Pay(p, from, to) ==
    /\ pc[p] = from
    /\ Goto(p, to)
    /\ UNCHANGED <<invoiceVars, paymentVars, hookVars, tx, queueVars, orderVars, direct>>

Credit(p) ==
    /\ p \notin direct
    /\ Unused(Ref(p, "INVOICE"))
    /\ Pay(p, "pay", "finish")
    /\ wallet' = wallet \cup {Ref(p, "INVOICE")}
    /\ UNCHANGED sent

\* The error is logged and goes no further.
CreditFails(p) ==
    /\ p \notin direct
    /\ "credit" \in Fault \/ ~Unused(Ref(p, "INVOICE"))
    /\ Pay(p, "pay", "finish")
    /\ UNCHANGED moneyVars

CashedOut(p) ==
    /\ p \in direct
    /\ Pay(p, "pay", "finish")
    /\ sent' = [sent EXCEPT ![p] = @ + 1]
    /\ UNCHANGED wallet

\* It throws before or after the transfer was sent.
CashoutFails(p, after) ==
    /\ "cashout" \in Fault
    /\ p \in direct
    /\ Pay(p, "pay", "fallback")
    /\ sent' = IF after THEN [sent EXCEPT ![p] = @ + 1] ELSE sent
    /\ UNCHANGED wallet

Fallback(p) ==
    /\ Unused(Ref(p, "FALLBACK"))
    /\ Pay(p, "fallback", "finish")
    /\ wallet' = wallet \cup {Ref(p, "FALLBACK")}
    /\ UNCHANGED sent

FallbackFails(p) ==
    /\ "credit" \in Fault \/ ~Unused(Ref(p, "FALLBACK"))
    /\ Pay(p, "fallback", "finish")
    /\ UNCHANGED moneyVars

Finish(p) ==
    /\ Onward(p, "finish", "idle")
    /\ Complete(p)
    /\ UNCHANGED <<invoiceVars, tx, direct>>

FinishFails(p) ==
    /\ "audit" \in Fault
    /\ Onward(p, "finish", "idle")
    /\ AttemptFails(p)
    /\ UNCHANGED <<invoiceVars, tx, direct>>

\* Bull keeps the last ended jobs only; a later IPN then adds the job anew.
Forgotten(p) ==
    /\ Forget(p)
    /\ UNCHANGED <<invoiceVars, paymentVars, hookVars, tx, pc, orderVars, direct, moneyVars>>

\* The worker dies, and Bull starts the job again.
Crash(p) ==
    /\ pc[p] # "idle"
    /\ Onward(p, pc[p], "idle")
    /\ Stall(p)
    /\ UNCHANGED <<invoiceVars, tx, direct>>

-----------------------------------------------------------------------------
InvoiceStep(i) ==
    \/ UpdateRead(i) \/ UpdateWrite(i) \/ CancelRead(i) \/ CancelWrite(i)
    \/ LockRate(i) \/ SweepSelect(i) \/ SweepMark(i) \/ SweepExpire(i)

PaymentStep(p) ==
    \/ \E i \in Invoice : CreatePosted(p, i)
    \/ CreateSaved(p)
    \/ \E s \in Remote : RemoteMoves(p, s)
    \/ DepositMoves(p)

IpnStep(e) ==
    \/ \E p \in Payment, s \in Said, i \in Invoice : IpnReceive(e, p, s, i)
    \/ IpnIgnored(e) \/ IpnFailed(e)
    \/ \E withHash \in BOOLEAN : IpnEnqueue(e, withHash)
    \/ IpnEnqueueFails(e)

JobStep(p) ==
    \/ JobStart(p) \/ Verified(p) \/ FlashBlocked(p) \/ NotYetVerified(p)
    \/ Load(p) \/ AlreadyPaid(p) \/ VerifiedAgain(p) \/ Blocked(p)
    \/ Commit(p) \/ CommitFails(p)
    \/ Credit(p) \/ CreditFails(p)
    \/ CashedOut(p) \/ \E after \in BOOLEAN : CashoutFails(p, after)
    \/ Fallback(p) \/ FallbackFails(p) \/ Finish(p) \/ FinishFails(p)

Next ==
    \/ \E i \in Touched : InvoiceStep(i)
    \/ \E p \in Payment : PaymentStep(p) \/ JobStep(p) \/ Crash(p) \/ Forgotten(p)
    \/ \E e \in Ipn : IpnStep(e)

Spec == Init /\ [][Next]_vars

-----------------------------------------------------------------------------
(* Properties *)

HookType == [payment : Payment, status : Remote, invoice : Invoice,
             read : InvoiceStatus, founded : BOOLEAN]

\* Types of the variables.
TypeOK ==
    /\ invoice \in [Invoice -> InvoiceStatus]
    /\ reopened \subseteq Invoice /\ auto \subseteq Invoice
    /\ lock \in [Invoice -> {"none", "live", "expired", "used"}]
    /\ sweep \in [Invoice -> {"idle", "selected", "found"}]
    /\ cancelling \subseteq Invoice /\ editing \subseteq Invoice
    /\ of \in [Payment -> Invoice \cup {None}]
    /\ made \in [Payment -> {"no", "posted", "saved"}]
    /\ remote \in [Payment -> Remote]
    /\ deposit \in [Payment -> {"absent", "seen", "settled"}]
    /\ received \subseteq Ipn
    /\ hook \in [Ipn -> HookType \cup {None}]
    /\ tx \in [Payment -> Remote \cup {"none"}]
    /\ QueueType
    /\ pc \in [Payment -> {"idle", "verify", "load", "verify again", "commit",
                           "pay", "fallback", "finish"}]
    /\ billed \in [Payment -> Invoice \cup {None}]
    /\ unfounded \subseteq Payment /\ strayed \subseteq Payment
    /\ hash \subseteq Payment /\ direct \subseteq Payment
    /\ wallet \subseteq {"INVOICE", "FALLBACK"} \X Invoice \X Payment
    /\ sent \in [Payment -> Nat]

Good(p) == remote[p] \in Confirmed /\ (p \in hash => deposit[p] = "settled")

\* Money goes out only for a payment that NOWPayments has confirmed and, when its
\* job has a transaction hash, whose deposit Quidax holds; unless the job was
\* asked for by an IPN that was not true when it came in.
MoneyBacked ==
    [][\A p \in Payment :
        (sent'[p] # sent[p] \/ \E ref \in wallet' \ wallet : ref[3] = p)
            => Good(p) \/ p \in unfounded]_vars

\* An invoice becomes paid only by the job of a payment that was made for it and
\* is good, never by another invoice's; unless an IPN asked for that job that was
\* not true when it came in.
PaidIsBacked ==
    [][\A i \in Invoice : (invoice'[i] = "paid" /\ invoice[i] # "paid") =>
            \E p \in Payment : /\ billed[p] = i
                               /\ (of[p] = i /\ Good(p)) \/ p \in unfounded]_vars

\* However often its job is started, and whatever IPNs come in, a payment is
\* credited once or sent to the bank once, as long as its jobs are for one invoice
\* and that keeps the status PAID that onPaymentConfirmed goes by.  (A transfer
\* that was sent, and then a step of the cash-out that failed, is the one
\* exception: the fallback credits the wallet as well.)
PaidOutOnce ==
    \A p \in Payment \ strayed : billed[p] \notin reopened =>
        /\ sent[p] <= 1
        /\ Ref(p, "INVOICE") \in wallet => sent[p] = 0 /\ Ref(p, "FALLBACK") \notin wallet

\* "Paid invoices cannot be cancelled", and only a pending one expires, at least
\* when every IPN was true that asked for a job.
PaidStaysPaid ==
    [][unfounded = {} =>
        \A i \in Invoice : invoice[i] = "paid" => invoice'[i] = "paid"]_vars

\* "Don't throw - return unverified so payment is held pending": a payment whose
\* deposit is good is not given up because Quidax could not be asked.
SettledIsHeld ==
    [][\A p \in Payment \ unfounded :
        (pc[p] \in {"verify", "verify again"} /\ deposit[p] = "settled")
            => job'[p] # "completed"]_vars
=============================================================================

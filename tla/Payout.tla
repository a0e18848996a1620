------------------------------- MODULE Payout -------------------------------
(***************************************************************************)
(* How a withdrawal leaves the platform: the payout job of the Bull queue, *)
(* FlutterwaveService with its payouts table, the transfers it asks        *)
(* Flutterwave for, and the webhooks, polls and retries that follow.       *)
(*                                                                         *)
(* Every attempt of a job makes a payouts row of its own, so run <<w, n>>  *)
(* names the n-th attempt of withdrawal w and the row it made.  A retry    *)
(* asks for another transfer for a row that exists.  Each call, a run or a *)
(* retry, sends at most one transfer under a fresh reference: the call     *)
(* itself names the reference and the transfer.                            *)
(***************************************************************************)
EXTENDS Integers, FiniteSets

CONSTANTS Withdrawal,
          MaxAttempts,  \* attempts of a payout job
          MaxStalls,    \* times Bull restarts a job whose worker died
          Retry,        \* calls of retryPayout, each used once (a bound)
          Poll,         \* calls of verifyPayoutStatus, each used once (a bound)
          MaxRetries,   \* MAX_RETRIES
          Delivery,     \* calls of the webhook route, each used once (a bound)
          Outcome,      \* how executeTransfer may end
          None

ASSUME CountsAssumption ==
    /\ MaxAttempts \in Nat \ {0} /\ MaxStalls \in Nat /\ MaxRetries \in Nat
ASSUME OutcomeAssumption ==
    Outcome \subseteq {"accepted", "refused", "timeout"}

Run == Withdrawal \X (1..MaxAttempts + MaxStalls)
Call == Run \cup Retry

ASSUME DistinctAssumption == Run \cap Retry = {} /\ None \notin Call

VARIABLES job, attempts, stalls,  \* the payout jobs, see JobQueue
          runs,     \* attempts of each job that made a payouts row
          row,      \* the payouts table
          pc,       \* where each call is
          target,   \* the row a retry is for
          count,    \* the retry_count a retry has read and not yet used
          bank,     \* what Flutterwave knows of each transfer
          received, \* events with a row in webhook_events
          processed,\* those of them marked as processed
          place,    \* where the handling of each delivery is
          hook,     \* its event, and the payout it has read
          applied,  \* how often each event changed a payout
          misled,   \* payouts set to success by an event that had not happened
          booked,   \* payouts deducted from the platform's reserve
          poll      \* what each poll has read

INSTANCE JobQueue WITH Job <- Withdrawal

queueVars == <<job, attempts, stalls>>
jobVars == <<queueVars, runs>>
callVars == <<pc, target, count>>
eventVars == <<received, processed>>
hookVars == <<eventVars, place, hook, applied, misled>>
vars == <<jobVars, row, callVars, bank, hookVars, booked, poll>>

-----------------------------------------------------------------------------
\* "none" is a row that was never inserted.
NoRow == [status |-> "none", ref |-> None, transferId |-> None, retries |-> 0]

Verdict == {"successful", "failed", "reversed"}
Event == Call \X Verdict

PayoutOf(c) == IF c \in Run THEN c ELSE target[c]

Goto(c, label) == pc' = [pc EXCEPT ![c] = label]

SetStatus(p, s) == row' = [row EXCEPT ![p].status = s]

Init ==
    /\ QueueInit
    /\ runs = [w \in Withdrawal |-> 0]
    /\ row = [p \in Run |-> NoRow]
    /\ pc = [c \in Call |-> "idle"]
    /\ target = [c \in Retry |-> None]
    /\ count = [c \in Retry |-> 0]
    /\ bank = [c \in Call |-> "unknown"]
    /\ received = {}
    /\ processed = {}
    /\ place = [d \in Delivery |-> "idle"]
    /\ hook = [d \in Delivery |-> None]
    /\ applied = [e \in Event |-> 0]
    /\ misled = {}
    /\ booked = {}
    /\ poll = [v \in Poll |-> None]

-----------------------------------------------------------------------------
(* The payout job: handleInitiatePayout and initiateDirectPayout. *)

\* By withdrawToBank; its reference is the id of the job.
Enqueue(w) ==
    /\ job[w] = "none"
    /\ Add(w)
    /\ UNCHANGED <<runs, row, callVars, bank, hookVars, booked, poll>>

\* The row is inserted before anything is sent.  (The fee is credited to the
\* platform at the same time; its wallet is not part of this module.)
JobStart(w) ==
    LET p == <<w, runs[w] + 1>>
    IN  /\ Take(w)
        /\ runs' = [runs EXCEPT ![w] = @ + 1]
        /\ row' = [row EXCEPT ![p] = [NoRow EXCEPT !.status = "processing", !.ref = p]]
        /\ Goto(p, "post")
        /\ UNCHANGED <<target, count, bank, hookVars, booked, poll>>

\* The bank account is gone or unverified, or the fees eat the amount up.
JobRefused(w) ==
    /\ job[w] = "waiting"
    /\ AttemptFails(w)
    /\ UNCHANGED <<runs, row, callVars, bank, hookVars, booked, poll>>

\* Mutant: the client has no timeout, and a reply that is lost is waited for.
ExecuteTransferNoTimeout(c, outcome) ==
    /\ pc[c] = "post"
    /\ bank' = IF outcome = "refused" THEN bank ELSE [bank EXCEPT ![c] = "pending"]
    /\ Goto(c, CASE outcome = "accepted" -> "record"
                 [] outcome = "timeout" -> "waiting"
                 [] OTHER -> "broken")
    /\ UNCHANGED <<jobVars, row, target, count, hookVars, booked, poll>>

\* executeTransfer: the balance check and the POST.  It throws when the transfer
\* is refused, and also when the reply to an accepted one does not come in time.
ExecuteTransfer(c, outcome) ==
    /\ pc[c] = "post"
    /\ bank' = IF outcome = "refused" THEN bank ELSE [bank EXCEPT ![c] = "pending"]
    /\ Goto(c, IF outcome = "accepted" THEN "record" ELSE "broken")
    /\ UNCHANGED <<jobVars, row, target, count, hookVars, booked, poll>>

\* Mutant: an accepted transfer is taken for one that has arrived.
RecordAccepted(c, s) ==
    /\ pc[c] = "record"
    /\ row' = [row EXCEPT ![PayoutOf(c)].transferId = c,
                          ![PayoutOf(c)].status =
                              IF s = "successful" THEN "success" ELSE "processing"]
    /\ Goto(c, IF c \in Run THEN "book" ELSE "done")
    /\ UNCHANGED <<jobVars, target, count, bank, hookVars, booked, poll>>

\* The reply is stored, with the status s the transfer had in it.
Record(c, s) ==
    /\ pc[c] = "record"
    /\ s = "pending" \/ (s = "successful" /\ bank[c] \in {"successful", "reversed"})
    /\ row' = [row EXCEPT ![PayoutOf(c)].transferId = c,
                          ![PayoutOf(c)].status =
                              IF s = "successful" THEN "success" ELSE "processing"]
    /\ Goto(c, IF c \in Run THEN "book" ELSE "done")
    /\ UNCHANGED <<jobVars, target, count, bank, hookVars, booked, poll>>

\* The update fails, and the transfer's id is lost with it.
RecordFails(c) ==
    /\ pc[c] = "record"
    /\ Goto(c, "broken")
    /\ UNCHANGED <<jobVars, row, target, count, bank, hookVars, booked, poll>>

\* deductPayoutReserve, the audit line and the notification; then the job ends.
Book(p) ==
    /\ p \in Run
    /\ pc[p] = "book"
    /\ booked' = booked \cup {p}
    /\ Complete(p[1])
    /\ Goto(p, "done")
    /\ UNCHANGED <<runs, row, target, count, bank, hookVars, poll>>

\* One of them throws, before or after the deduction: as for a failed transfer.
BookFails(p, deducted) ==
    /\ p \in Run
    /\ pc[p] = "book"
    /\ booked' = IF deducted THEN booked \cup {p} ELSE booked
    /\ Goto(p, "broken")
    /\ UNCHANGED <<jobVars, row, target, count, bank, hookVars, poll>>

\* Mutant: the error does not reach Bull.
CatchFailureSwallowed(c) ==
    /\ pc[c] = "broken"
    /\ SetStatus(PayoutOf(c), "failed")
    /\ Goto(c, "done")
    /\ IF c \in Run THEN Complete(c[1]) ELSE UNCHANGED queueVars
    /\ UNCHANGED <<runs, target, count, bank, hookVars, booked, poll>>

\* The catch blocks: the row fails, whatever it says by now, and the error goes
\* on to Bull or to the caller.
CatchFailure(c) ==
    /\ pc[c] = "broken"
    /\ SetStatus(PayoutOf(c), "failed")
    /\ Goto(c, "done")
    /\ IF c \in Run THEN AttemptFails(c[1]) ELSE UNCHANGED queueVars
    /\ UNCHANGED <<runs, target, count, bank, hookVars, booked, poll>>

InFlight(c) == pc[c] \notin {"idle", "done", "crashed"}

\* The worker dies.  Bull runs a job again; a retry is not resumed.
Crash(c) ==
    /\ InFlight(c)
    /\ Goto(c, "crashed")
    /\ IF c \in Run THEN Stall(c[1]) ELSE UNCHANGED queueVars
    /\ UNCHANGED <<runs, row, target, count, bank, hookVars, booked, poll>>

-----------------------------------------------------------------------------
(* retryPayout *)

\* By the payout's owner, an administrator, the retry job, or the job that
\* retries failed payouts every so often.
AskRetry(c, p) ==
    /\ pc[c] = "idle"
    /\ row[p].status # "none"
    /\ target' = [target EXCEPT ![c] = p]
    /\ Goto(c, "read")
    /\ UNCHANGED <<jobVars, row, count, bank, hookVars, booked, poll>>

Retriable(p) ==
    /\ row[p].status \notin {"success", "processing"}
    /\ row[p].retries < MaxRetries

RetryRead(c) ==
    /\ pc[c] = "read"
    /\ Retriable(target[c])
    /\ count' = [count EXCEPT ![c] = row[target[c]].retries]
    /\ Goto(c, "claim")
    /\ UNCHANGED <<jobVars, row, target, bank, hookVars, booked, poll>>

\* Also when the bank account is gone.
RetryRefused(c) ==
    /\ \/ pc[c] = "read" /\ ~Retriable(target[c])
       \/ pc[c] = "claim"
    /\ Goto(c, "done")
    /\ UNCHANGED <<jobVars, row, target, count, bank, hookVars, booked, poll>>

\* An update by id alone, after two reads: the row may have changed since.
RetryClaim(c) ==
    LET p == target[c]
    IN  /\ pc[c] = "claim"
        /\ row' = [row EXCEPT ![p].status = "processing", ![p].ref = c,
                              ![p].retries = count[c] + 1]
        /\ count' = [count EXCEPT ![c] = 0]
        /\ Goto(c, "post")
        /\ UNCHANGED <<jobVars, target, bank, hookVars, booked, poll>>

-----------------------------------------------------------------------------
(* Flutterwave *)

Settle(c, verdict) ==
    /\ \/ bank[c] = "pending" /\ verdict \in {"successful", "failed"}
       \/ bank[c] = "successful" /\ verdict = "reversed"
    /\ bank' = [bank EXCEPT ![c] = verdict]
    /\ UNCHANGED <<jobVars, row, callVars, hookVars, booked, poll>>

\* A transfer that was reversed had been successful before.
Happened(e) == bank[e[1]] = e[2] \/ (bank[e[1]] = "reversed" /\ e[2] = "successful")

-----------------------------------------------------------------------------
(* processWebhook and handleTransferEvent *)

\* The row found by flw_transfer_id, or else by flw_reference.
Found(c) ==
    LET byId == {p \in Run : row[p].transferId = c}
    IN  IF byId # {} THEN byId ELSE {p \in Run : row[p].ref = c}

\* What the handler goes on with.
Reading(e) ==
    IF Found(e[1]) = {} THEN None
    ELSE LET p == CHOOSE q \in Found(e[1]) : TRUE
         IN  [payout |-> p, status |-> row[p].status, retries |-> row[p].retries]

\* The route takes any event: whether the signature is valid is logged and
\* stored, and decides nothing.  So the event need not have happened, and
\* "founded" is history.  An event that is processed already is ignored.
WebhookLookUp(d, e) ==
    /\ place[d] = "idle"
    /\ e \notin processed
    /\ place' = [place EXCEPT ![d] = "insert"]
    /\ hook' = [hook EXCEPT ![d] = [event |-> e, founded |-> Happened(e), row |-> None]]
    /\ UNCHANGED <<jobVars, row, callVars, bank, eventVars, applied, misled, booked, poll>>

\* The row of the event is inserted, and the handler reads the payout.
Accept(d) ==
    /\ place[d] = "insert"
    /\ received' = received \cup {hook[d].event}
    /\ place' = [place EXCEPT ![d] = "apply"]
    /\ hook' = [hook EXCEPT ![d].row = Reading(hook[d].event)]
    /\ UNCHANGED <<jobVars, row, callVars, bank, processed, applied, misled, booked, poll>>

\* Mutant: no unique index on the idempotency key.
WebhookStoreAgain(d) == Accept(d)

WebhookStore(d) == Accept(d) /\ hook[d].event \notin received

\* The unique index refuses the row: another delivery stored it meanwhile, or
\* one before whose handler has not finished, or never will.
WebhookConflict(d) ==
    /\ place[d] = "insert"
    /\ hook[d].event \in received
    /\ place' = [place EXCEPT ![d] = "done"]
    /\ hook' = [hook EXCEPT ![d] = None]
    /\ UNCHANGED <<jobVars, row, callVars, bank, eventVars, applied, misled, booked, poll>>

\* No payout was found, or it was a success already.
WebhookNothing(d) ==
    /\ place[d] = "apply"
    /\ hook[d].row # None =>
         hook[d].event[2] = "successful" /\ hook[d].row.status = "success"
    /\ place' = [place EXCEPT ![d] = "mark"]
    /\ UNCHANGED <<jobVars, row, callVars, bank, eventVars, hook, applied, misled, booked, poll>>

\* What the handler writes to the payout it has read.
Apply(d, verdict, s) ==
    /\ place[d] = "apply"
    /\ hook[d].row # None
    /\ hook[d].event[2] = verdict
    /\ SetStatus(hook[d].row.payout, s)
    /\ place' = [place EXCEPT ![d] = "mark"]
    /\ applied' = [applied EXCEPT ![hook[d].event] = @ + 1]
    /\ UNCHANGED <<jobVars, count, bank, eventVars, hook, booked, poll>>

WebhookSuccessful(d) ==
    /\ Apply(d, "successful", "success")
    /\ hook[d].row.status # "success"
    /\ misled' = IF hook[d].founded THEN misled ELSE misled \cup {hook[d].row.payout}
    /\ UNCHANGED <<pc, target>>

WebhookReversed(d) == Apply(d, "reversed", "reversed") /\ UNCHANGED <<pc, target, misled>>

\* The failure overwrites any status.
WebhookFailed(d) == Apply(d, "failed", "failed") /\ UNCHANGED <<pc, target, misled>>

\* It also asks for a retry, unless the audit line or the notification throws.
WebhookFailedRetry(d, c) ==
    /\ Apply(d, "failed", "failed")
    /\ hook[d].row.retries < MaxRetries
    /\ pc[c] = "idle"
    /\ target' = [target EXCEPT ![c] = hook[d].row.payout]
    /\ Goto(c, "read")
    /\ UNCHANGED misled

\* The event is marked.  A handler that threw or died never gets here, and its
\* event stays in the table unprocessed.
WebhookProcessed(d) ==
    /\ place[d] = "mark"
    /\ processed' = processed \cup {hook[d].event}
    /\ place' = [place EXCEPT ![d] = "done"]
    /\ hook' = [hook EXCEPT ![d] = None]
    /\ UNCHANGED <<jobVars, row, callVars, bank, received, applied, misled, booked, poll>>

-----------------------------------------------------------------------------
(* verifyPayoutStatus: the row, then Flutterwave, then the row again. *)

PollRead(v, p) ==
    /\ poll[v] = None
    /\ row[p].transferId # None
    /\ poll' = [poll EXCEPT ![v] = [payout |-> p, status |-> row[p].status,
                                    transfer |-> row[p].transferId, verdict |-> "none"]]
    /\ UNCHANGED <<jobVars, row, callVars, bank, hookVars, booked>>

PollReply(v) ==
    /\ poll[v] # None
    /\ poll[v].verdict = "none"
    /\ poll' = [poll EXCEPT ![v].verdict = bank[poll[v].transfer]]
    /\ UNCHANGED <<jobVars, row, callVars, bank, hookVars, booked>>

PollDone(v) ==
    /\ poll' = [poll EXCEPT ![v].verdict = "pending"]
    /\ UNCHANGED <<jobVars, callVars, bank, hookVars, booked>>

\* Mutant: the transfer need not have reached the bank.
PollApplyPending(v) ==
    /\ poll[v] # None
    /\ poll[v].verdict \in {"pending", "successful"}
    /\ poll[v].status # "success"
    /\ SetStatus(poll[v].payout, "success")
    /\ PollDone(v)

\* A poll that finds nothing new, and one that is done, leave the row alone.
PollApply(v) ==
    /\ poll[v] # None
    /\ \/ /\ poll[v].verdict = "successful"
          /\ poll[v].status # "success"
          /\ SetStatus(poll[v].payout, "success")
       \/ /\ poll[v].verdict = "failed"
          /\ poll[v].status # "failed"
          /\ SetStatus(poll[v].payout, "failed")
    /\ PollDone(v)

-----------------------------------------------------------------------------
\* The steps of a call that go on by themselves.
Step(c) ==
    \/ \E outcome \in Outcome : ExecuteTransfer(c, outcome)
    \/ \E s \in {"pending", "successful"} : Record(c, s)
    \/ RecordFails(c)
    \/ Book(c)
    \/ \E deducted \in BOOLEAN : BookFails(c, deducted)
    \/ CatchFailure(c)

RetryStep(c) ==
    \/ \E p \in Run : AskRetry(c, p)
    \/ RetryRead(c)
    \/ RetryRefused(c)
    \/ RetryClaim(c)

WebhookStep(d) ==
    \/ \E e \in Event : WebhookLookUp(d, e)
    \/ WebhookStore(d)
    \/ WebhookConflict(d)
    \/ WebhookNothing(d)
    \/ WebhookSuccessful(d)
    \/ WebhookReversed(d)
    \/ WebhookFailed(d)
    \/ \E c \in Retry : WebhookFailedRetry(d, c)
    \/ WebhookProcessed(d)

PollStep(v) ==
    \/ \E p \in Run : PollRead(v, p)
    \/ PollReply(v)
    \/ PollApply(v)

Next ==
    \/ \E w \in Withdrawal : Enqueue(w) \/ JobStart(w) \/ JobRefused(w)
    \/ \E c \in Call : Step(c) \/ Crash(c)
    \/ \E c \in Retry : RetryStep(c)
    \/ \E c \in Call, verdict \in Verdict : Settle(c, verdict)
    \/ \E d \in Delivery : WebhookStep(d)
    \/ \E v \in Poll : PollStep(v)

Spec == Init /\ [][Next]_vars

\* Bull hands out every waiting job, and a running call goes on unless it dies.
FairSpec ==
    /\ Spec
    /\ \A w \in Withdrawal : WF_vars(JobStart(w) \/ JobRefused(w))
    /\ \A c \in Run : WF_vars(Step(c))

-----------------------------------------------------------------------------
(* Properties *)

RowType == [status : {"none", "processing", "success", "failed", "reversed"},
            ref : Call \cup {None}, transferId : Call \cup {None}, retries : Nat]
CallState == {"idle", "read", "claim", "post", "record", "book", "broken",
              "done", "crashed"}
ReadingType == [payout : Run, status : {"processing", "success", "failed", "reversed"},
                retries : Nat]
HookType == [event : Event, founded : BOOLEAN, row : ReadingType \cup {None}]
PollType == [payout : Run, status : {"processing", "success", "failed", "reversed"},
             transfer : Call, verdict : {"none", "pending"} \cup Verdict]

\* Types of the variables; no job has more attempts than Bull allows it.
TypeOK ==
    /\ QueueType
    /\ runs \in [Withdrawal -> 0..MaxAttempts + MaxStalls]
    /\ row \in [Run -> RowType]
    /\ pc \in [Call -> CallState]
    /\ target \in [Retry -> Run \cup {None}]
    /\ count \in [Retry -> Nat]
    /\ bank \in [Call -> {"unknown", "pending"} \cup Verdict]
    /\ received \subseteq Event
    /\ processed \subseteq Event
    /\ place \in [Delivery -> {"idle", "insert", "apply", "mark", "done"}]
    /\ hook \in [Delivery -> HookType \cup {None}]
    /\ \A d \in Delivery : place[d] \in {"idle", "done"} \/ hook[d] \in HookType
    /\ applied \in [Event -> Nat]
    /\ misled \subseteq Run
    /\ booked \subseteq Run
    /\ poll \in [Poll -> PollType \cup {None}]

\* The transfers asked for on behalf of the row p.
Transfers(p) == {c \in Call : PayoutOf(c) = p /\ bank[c] # "unknown"}

\* A payout that says SUCCESS reached the bank account by one of its own
\* transfers, however replies, webhooks, polls and retries overtake each other,
\* unless an event said so that had not happened when it came in: nothing else
\* that such an event says, a failure or a reversal, makes an unpaid success.
SuccessWasPaid ==
    \A p \in Run : row[p].status = "success" =>
        p \in misled \/ \E c \in Transfers(p) : bank[c] \in {"successful", "reversed"}

\* A job that completed, and a deduction from the reserve, stand for a transfer
\* that Flutterwave accepted; a job that is given up used up its attempts or its
\* restarts.
JobOutcome ==
    /\ \A p \in booked : bank[p] # "unknown"
    /\ \A w \in Withdrawal :
        /\ job[w] = "completed" => \E p \in booked : p[1] = w
        /\ job[w] = "failed" => attempts[w] = MaxAttempts \/ stalls[w] > MaxStalls

\* retry_count never passes MAX_RETRIES, although it is read in one step and
\* written in another, and retries of the same payout may overlap.
RetryCountBounded ==
    \A p \in Run : row[p].retries <= MaxRetries

\* An event changes a payout once at most, though a second delivery may come in
\* while the first is between the look-up and the insert, or being handled.
EventAppliedOnce ==
    \A e \in Event : applied[e] <= 1

\* Every payout job comes to an end, whatever fails on the way.
JobsSettle ==
    \A w \in Withdrawal : job[w] # "none" ~> job[w] \in Ended

\* What the guard "Payout already processing" of retryPayout says: a retry takes
\* over a payout, under a new reference, only when no other call is at it.
ClaimsIdlePayout ==
    [][\A p \in Run : row'[p].ref # row[p].ref =>
            row[p].status \notin {"success", "processing"}]_vars

=============================================================================

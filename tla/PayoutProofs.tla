----------------------------- MODULE PayoutProofs -----------------------------
(***************************************************************************)
(* Payout for any number of withdrawals, attempts, restarts, retries,      *)
(* polls and events: the types, the outcome of a job, the limit of         *)
(* retries, events that are delivered again, and successes that were paid. *)
(***************************************************************************)
EXTENDS Payout, TLAPS

\* A job that has not ended has attempts and restarts left; every run of it, but
\* the one that is under way, has used up one of them.  The run under way is the
\* last that began.
JobsAccounted ==
    /\ \A w \in Withdrawal :
         /\ job[w] \in {"none", "waiting", "active"} =>
              attempts[w] < MaxAttempts /\ stalls[w] <= MaxStalls
         /\ job[w] \in {"none", "waiting"} => runs[w] <= attempts[w] + stalls[w]
         /\ job[w] = "active" => runs[w] <= attempts[w] + stalls[w] + 1
    /\ \A p \in Run : InFlight(p) => job[p[1]] = "active" /\ p[2] = runs[p[1]]

\* A retry that has begun is for a row.
TargetsKnown == \A c \in Retry : pc[c] # "idle" => target[c] \in Run

\* A row that was never inserted names no transfer.
RowsNamed == \A p \in Run : row[p].status = "none" => row[p].ref = None /\ row[p].transferId = None

\* What has been seen of a transfer, Flutterwave knows of it.
TransfersKnown ==
    /\ \A p \in Run : row[p].transferId # None => bank[row[p].transferId] # "unknown"
    /\ \A c \in Call : pc[c] \in {"record", "book"} => bank[c] # "unknown"
    /\ \A v \in Poll : poll[v] # None => bank[poll[v].transfer] # "unknown"
    /\ \A p \in booked : bank[p] # "unknown"

Typed == TypeOK /\ JobsAccounted /\ TargetsKnown /\ RowsNamed /\ TransfersKnown

LEMMA RunPair ==
    ASSUME NEW p \in Run
    PROVE  /\ p[1] \in Withdrawal /\ p[2] \in Nat /\ p = <<p[1], p[2]>>
           /\ p \in Call
  BY CountsAssumption DEF Run, Call

LEMMA CallKind == /\ \A c \in Call : c \in Run \/ c \in Retry
                  /\ Run \cap Retry = {} /\ None \notin Call /\ Run \subseteq Call /\ Retry \subseteq Call
  BY DistinctAssumption DEF Call

LEMMA InitTyped == Init => Typed
  <1> SUFFICES ASSUME Init PROVE Typed
    OBVIOUS
  <1>1. TypeOK
    BY CountsAssumption DEF Init, QueueInit, TypeOK, QueueType, JobState, NoRow, RowType, CallState
  <1>2. JobsAccounted
    BY CountsAssumption, CallKind, RunPair DEF Init, QueueInit, JobsAccounted, InFlight
  <1>3. TargetsKnown /\ RowsNamed /\ TransfersKnown
    BY CallKind DEF Init, TargetsKnown, RowsNamed, TransfersKnown, NoRow
  <1>4. QED
    BY <1>1, <1>2, <1>3 DEF Typed

\* The parts of the state that a step leaves alone keep what holds of them.
LEMMA JobsFrame ==
    ASSUME Typed, UNCHANGED jobVars, \A p \in Run : InFlight(p)' => InFlight(p)
    PROVE  JobsAccounted'
  BY DEF Typed, JobsAccounted, jobVars, queueVars

\* The job of a run in flight changes, and the run ends, or goes on with it.
LEMMA JobStartStep ==
    ASSUME Typed, NEW w \in Withdrawal, JobStart(w)
    PROVE  JobsAccounted' /\ QueueType' /\ runs' \in [Withdrawal -> 0..MaxAttempts + MaxStalls]
           /\ <<w, runs[w] + 1>> \in Run
  <1>t. /\ job \in [Withdrawal -> JobState] /\ attempts \in [Withdrawal -> 0..MaxAttempts]
        /\ stalls \in [Withdrawal -> 0..MaxStalls + 1]
        /\ runs \in [Withdrawal -> 0..MaxAttempts + MaxStalls] /\ pc \in [Call -> CallState]
        /\ MaxAttempts \in Nat \ {0} /\ MaxStalls \in Nat
    BY CountsAssumption DEF Typed, TypeOK, QueueType
  <1>1. /\ job[w] = "waiting" /\ job' = [job EXCEPT ![w] = "active"]
        /\ attempts' = attempts /\ stalls' = stalls
        /\ runs' = [runs EXCEPT ![w] = @ + 1]
        /\ pc' = [pc EXCEPT ![<<w, runs[w] + 1>>] = "post"]
    BY DEF JobStart, Take, Goto
  <1>2. /\ attempts[w] < MaxAttempts /\ stalls[w] <= MaxStalls /\ runs[w] <= attempts[w] + stalls[w]
    BY <1>1 DEF Typed, JobsAccounted
  <1>3. runs[w] + 1 \in 1..MaxAttempts + MaxStalls
    BY <1>t, <1>2
  <1>4. <<w, runs[w] + 1>> \in Run
    BY <1>3 DEF Run
  <1>5. QueueType'
    BY <1>t, <1>1 DEF QueueType, JobState
  <1>6. runs' \in [Withdrawal -> 0..MaxAttempts + MaxStalls]
    BY <1>t, <1>1, <1>3
  <1>7. \A v \in Withdrawal :
          /\ job'[v] = IF v = w THEN "active" ELSE job[v]
          /\ runs'[v] = IF v = w THEN runs[w] + 1 ELSE runs[v]
    BY <1>t, <1>1
  <1>8. ASSUME NEW p \in Run, InFlight(p)' PROVE job'[p[1]] = "active" /\ p[2] = runs'[p[1]]
    <2>1. CASE p = <<w, runs[w] + 1>>
      BY <1>7, <2>1
    <2>2. CASE p # <<w, runs[w] + 1>>
      <3>1. pc'[p] = pc[p] /\ p[1] \in Withdrawal
        BY <1>t, <1>1, <2>2, RunPair
      <3>2. job[p[1]] = "active" /\ p[2] = runs[p[1]]
        BY <1>8, <3>1 DEF InFlight, Typed, JobsAccounted
      <3>3. QED
        BY <1>1, <1>7, <3>1, <3>2
    <2>3. QED
      BY <2>1, <2>2
  <1>9. JobsAccounted'
    BY <1>1, <1>2, <1>7, <1>8, <1>t DEF JobsAccounted, Typed
  <1>10. QED
    BY <1>4, <1>5, <1>6, <1>9

LEMMA JobEndStep ==
    ASSUME Typed, NEW p \in Run, InFlight(p), runs' = runs,
           \A q \in Run \ {p} : pc'[q] = pc[q], ~InFlight(p)',
           Complete(p[1]) \/ AttemptFails(p[1]) \/ Stall(p[1])
    PROVE  /\ JobsAccounted' /\ QueueType'
           /\ \A w \in Withdrawal : job'[w] = "failed" =>
                job[w] = "failed" \/ attempts'[w] = MaxAttempts \/ stalls'[w] > MaxStalls
  <1> DEFINE w == p[1]
  <1>t. /\ job \in [Withdrawal -> JobState] /\ attempts \in [Withdrawal -> 0..MaxAttempts]
        /\ stalls \in [Withdrawal -> 0..MaxStalls + 1]
        /\ runs \in [Withdrawal -> 0..MaxAttempts + MaxStalls]
        /\ MaxAttempts \in Nat \ {0} /\ MaxStalls \in Nat
    BY CountsAssumption DEF Typed, TypeOK, QueueType
  <1>w. w \in Withdrawal
    BY RunPair
  <1>1. /\ job[w] = "active" /\ attempts[w] < MaxAttempts /\ stalls[w] <= MaxStalls
        /\ runs[w] <= attempts[w] + stalls[w] + 1 /\ p[2] = runs[w]
    BY <1>w DEF Typed, JobsAccounted
  \* No other run of the withdrawal is in flight.
  <1>2. ASSUME NEW q \in Run, InFlight(q)' PROVE q[1] # w /\ job[q[1]] = "active" /\ q[2] = runs[q[1]]
    <2>1. q # p /\ InFlight(q)
      BY <1>2 DEF InFlight
    <2>2. job[q[1]] = "active" /\ q[2] = runs[q[1]]
      BY <2>1 DEF Typed, JobsAccounted
    <2>3. QED
      BY <1>1, <2>1, <2>2, RunPair
  <1> HIDE DEF w
  <1>3. CASE Complete(w)
    <2>1. /\ job' = [job EXCEPT ![w] = "completed"] /\ attempts' = attempts /\ stalls' = stalls
      BY <1>3 DEF Complete
    <2>2. QueueType'
      BY <1>t, <1>w, <2>1 DEF QueueType, JobState
    <2>3. \A q \in Run : InFlight(q)' => job'[q[1]] = "active" /\ q[2] = runs'[q[1]]
      BY <1>2, <1>t, <2>1, RunPair
    <2>4. QED
      BY <1>t, <1>w, <2>1, <2>2, <2>3 DEF Typed, JobsAccounted
  <1>4. CASE AttemptFails(w)
    <2>1. /\ job' = [job EXCEPT ![w] = IF attempts[w] + 1 < MaxAttempts THEN "waiting" ELSE "failed"]
          /\ attempts' = [attempts EXCEPT ![w] = @ + 1] /\ stalls' = stalls
      BY <1>4 DEF AttemptFails
    <2>2. QueueType'
      BY <1>t, <1>w, <1>1, <2>1 DEF QueueType, JobState
    <2>3. \A q \in Run : InFlight(q)' => job'[q[1]] = "active" /\ q[2] = runs'[q[1]]
      BY <1>2, <1>t, <2>1, RunPair
    <2>4. QED
      BY <1>t, <1>w, <1>1, <2>1, <2>2, <2>3 DEF Typed, JobsAccounted
  <1>5. CASE Stall(w)
    <2>1. /\ job' = [job EXCEPT ![w] = IF stalls[w] < MaxStalls THEN "waiting" ELSE "failed"]
          /\ stalls' = [stalls EXCEPT ![w] = @ + 1] /\ attempts' = attempts
      BY <1>5 DEF Stall
    <2>2. QueueType'
      BY <1>t, <1>w, <1>1, <2>1 DEF QueueType, JobState
    <2>3. \A q \in Run : InFlight(q)' => job'[q[1]] = "active" /\ q[2] = runs'[q[1]]
      BY <1>2, <1>t, <2>1, RunPair
    <2>4. QED
      BY <1>t, <1>w, <1>1, <2>1, <2>2, <2>3 DEF Typed, JobsAccounted
  <1>6. QED
    BY <1>3, <1>4, <1>5 DEF w

\* A job that is added, or refused before it has made a row.
LEMMA JobWaitStep ==
    ASSUME Typed, NEW w \in Withdrawal, Enqueue(w) \/ JobRefused(w)
    PROVE  /\ JobsAccounted' /\ QueueType'
           /\ \A v \in Withdrawal : job'[v] = "failed" =>
                job[v] = "failed" \/ attempts'[v] = MaxAttempts \/ stalls'[v] > MaxStalls
  <1>t. /\ job \in [Withdrawal -> JobState] /\ attempts \in [Withdrawal -> 0..MaxAttempts]
        /\ stalls \in [Withdrawal -> 0..MaxStalls + 1]
        /\ runs \in [Withdrawal -> 0..MaxAttempts + MaxStalls]
        /\ MaxAttempts \in Nat \ {0} /\ MaxStalls \in Nat
    BY CountsAssumption DEF Typed, TypeOK, QueueType
  <1>1. /\ job[w] \in {"none", "waiting"} /\ runs' = runs /\ pc' = pc
        /\ attempts[w] < MaxAttempts /\ stalls[w] <= MaxStalls /\ runs[w] <= attempts[w] + stalls[w]
    BY DEF Enqueue, JobRefused, callVars, Typed, JobsAccounted
  <1>2. \A q \in Run : InFlight(q)' => q[1] # w /\ job[q[1]] = "active" /\ q[2] = runs[q[1]]
    BY <1>1 DEF Typed, JobsAccounted, InFlight
  <1>3. CASE Enqueue(w)
    <2>1. /\ job' = [job EXCEPT ![w] = "waiting"] /\ attempts' = attempts /\ stalls' = stalls
      BY <1>3 DEF Enqueue, Add
    <2>2. QueueType'
      BY <1>t, <2>1 DEF QueueType, JobState
    <2>3. \A q \in Run : InFlight(q)' => job'[q[1]] = "active" /\ q[2] = runs'[q[1]]
      BY <1>1, <1>2, <1>t, <2>1, RunPair
    <2>4. QED
      BY <1>t, <1>1, <2>1, <2>2, <2>3 DEF Typed, JobsAccounted
  <1>4. CASE JobRefused(w)
    <2>1. /\ job' = [job EXCEPT ![w] = IF attempts[w] + 1 < MaxAttempts THEN "waiting" ELSE "failed"]
          /\ attempts' = [attempts EXCEPT ![w] = @ + 1] /\ stalls' = stalls
      BY <1>4 DEF JobRefused, AttemptFails
    <2>2. QueueType'
      BY <1>t, <1>1, <2>1 DEF QueueType, JobState
    <2>3. \A q \in Run : InFlight(q)' => job'[q[1]] = "active" /\ q[2] = runs'[q[1]]
      BY <1>1, <1>2, <1>t, <2>1, RunPair
    <2>4. QED
      BY <1>t, <1>1, <2>1, <2>2, <2>3 DEF Typed, JobsAccounted
  <1>5. QED
    BY <1>3, <1>4

\* A step of call c that leaves the jobs alone and does not begin a run.
LEMMA CallFrame ==
    ASSUME Typed, NEW c \in Call, NEW label \in CallState, Goto(c, label), UNCHANGED jobVars,
           c \in Run => InFlight(c)
    PROVE  JobsAccounted' /\ pc' \in [Call -> CallState]
  <1>1. pc \in [Call -> CallState] /\ pc' = [pc EXCEPT ![c] = label]
    BY DEF Typed, TypeOK, Goto
  <1>2. \A p \in Run : InFlight(p)' => InFlight(p)
    BY <1>1, CallKind DEF InFlight
  <1>3. QED
    BY <1>1, <1>2, JobsFrame

\* The row of payout p gets status s, or nothing happens for want of p.
LEMMA StatusSet ==
    ASSUME Typed, NEW p, NEW s \in {"processing", "success", "failed", "reversed"}, SetStatus(p, s)
    PROVE  /\ row' \in [Run -> RowType]
           /\ \A q \in Run : /\ row'[q].ref = row[q].ref /\ row'[q].retries = row[q].retries
                             /\ row'[q].transferId = row[q].transferId
                             /\ row'[q].status = IF q = p THEN s ELSE row[q].status
           /\ RowsNamed'
  <1>1. row \in [Run -> RowType] /\ row' = [row EXCEPT ![p].status = s]
    BY DEF Typed, TypeOK, SetStatus
  <1>2. \A q \in Run : row[q] \in RowType /\ row'[q] = IF q = p THEN [row[q] EXCEPT !.status = s] ELSE row[q]
    BY <1>1
  <1>3. \A r \in RowType : /\ [r EXCEPT !.status = s] \in RowType
                           /\ [r EXCEPT !.status = s].ref = r.ref
                           /\ [r EXCEPT !.status = s].transferId = r.transferId
                           /\ [r EXCEPT !.status = s].retries = r.retries
                           /\ [r EXCEPT !.status = s].status = s
    BY DEF RowType
  <1>4. row' \in [Run -> RowType]
    BY <1>1, <1>2, <1>3
  <1>5. \A q \in Run : /\ row'[q].ref = row[q].ref /\ row'[q].retries = row[q].retries
                       /\ row'[q].transferId = row[q].transferId
                       /\ row'[q].status = IF q = p THEN s ELSE row[q].status
    BY <1>2, <1>3
  <1>6. QED
    BY <1>4, <1>5 DEF Typed, RowsNamed

\* What Flutterwave knows it does not forget.
LEMMA TransfersFrame ==
    ASSUME Typed, \A c \in Call : bank[c] # "unknown" => bank'[c] # "unknown",
           \A p \in Run : row'[p].transferId = row[p].transferId,
           \A c \in Call : pc'[c] \in {"record", "book"} => bank'[c] # "unknown",
           UNCHANGED <<booked, poll>>
    PROVE  TransfersKnown'
  <1>1. \A p \in Run : row[p].transferId \in Call \cup {None}
    BY DEF Typed, TypeOK, RowType
  <1>2. \A v \in Poll : poll[v] # None => poll[v].transfer \in Call
    BY DEF Typed, TypeOK, PollType
  <1>3. booked \subseteq Call
    BY CallKind DEF Typed, TypeOK
  <1>4. QED
    BY <1>1, <1>2, <1>3 DEF Typed, TransfersKnown

\* A delivery that is being handled holds its event, and what it has read.
Live(d) == place[d] \in {"insert", "apply", "mark"}

LEMMA HookTyped ==
    ASSUME Typed
    PROVE  /\ hook \in [Delivery -> HookType \cup {None}]
           /\ place \in [Delivery -> {"idle", "insert", "apply", "mark", "done"}]
           /\ \A d \in Delivery : Live(d) =>
                /\ hook[d] \in HookType /\ hook[d].event \in Event
                /\ hook[d].row \in ReadingType \cup {None}
  <1>1. \A h \in HookType : h.event \in Event /\ h.row \in ReadingType \cup {None}
    BY DEF HookType
  <1>2. QED
    BY <1>1 DEF Typed, TypeOK, Live

LEMMA WebhookTyped == ASSUME Typed, NEW d \in Delivery, WebhookStep(d) PROVE Typed'
  <1>t. /\ row \in [Run -> RowType] /\ pc \in [Call -> CallState]
        /\ target \in [Retry -> Run \cup {None}]
        /\ applied \in [Event -> Nat] /\ received \subseteq Event /\ processed \subseteq Event
        /\ misled \subseteq Run
    BY DEF Typed, TypeOK
  <1> DEFINE e == hook[d].event
  \* A step that only moves the delivery on.
  <1>f. ASSUME NEW h \in HookType \cup {None}, NEW label \in {"insert", "apply", "mark", "done"},
               label = "done" \/ h \in HookType,
               place' = [place EXCEPT ![d] = label], hook' = [hook EXCEPT ![d] = h],
               received' \subseteq Event, processed' \subseteq Event,
               UNCHANGED <<jobVars, row, callVars, bank, applied, misled, booked, poll>>
        PROVE  Typed'
    <2>1. JobsAccounted'
      BY <1>f, JobsFrame DEF callVars, InFlight
    <2>2. TargetsKnown' /\ RowsNamed' /\ TransfersKnown'
      BY <1>f DEF callVars, Typed, TargetsKnown, RowsNamed, TransfersKnown
    <2>3. /\ hook' \in [Delivery -> HookType \cup {None}]
          /\ place' \in [Delivery -> {"idle", "insert", "apply", "mark", "done"}]
          /\ \A c \in Delivery : place'[c] \in {"idle", "done"} \/ hook'[c] \in HookType
      BY <1>f, HookTyped DEF Live, Typed, TypeOK
    <2>4. TypeOK'
      BY <1>f, <2>3 DEF Typed, TypeOK, jobVars, queueVars, callVars, QueueType
    <2>5. QED
      BY <2>1, <2>2, <2>4 DEF Typed
  <1>1. ASSUME NEW f \in Event, WebhookLookUp(d, f) PROVE Typed'
    <2>1. [event |-> f, founded |-> Happened(f), row |-> None] \in HookType
      BY DEF HookType, Happened
    <2>2. QED
      BY <1>1, <1>f, <1>t, <2>1 DEF WebhookLookUp, eventVars
  <1>2. CASE Accept(d)
    <2>e. hook[d] \in HookType /\ e \in Event /\ e[1] \in Call
      BY <1>2, HookTyped DEF Live, Accept, Event
    <2>1. ASSUME NEW p \in Run, row[p].transferId = e[1] \/ row[p].ref = e[1]
          PROVE  [payout |-> p, status |-> row[p].status, retries |-> row[p].retries] \in ReadingType
      <3>1. e[1] # None /\ row[p] \in RowType
        BY <1>t, <2>e, CallKind
      <3>2. row[p].status # "none"
        BY <2>1, <3>1 DEF Typed, RowsNamed
      <3>3. QED
        BY <3>1, <3>2 DEF RowType, ReadingType
    <2>2. Reading(e) \in ReadingType \cup {None}
      BY <2>1 DEF Reading, Found
    <2>3. [hook[d] EXCEPT !.row = Reading(e)] \in HookType
      BY <2>e, <2>2 DEF HookType
    <2>4. /\ hook' = [hook EXCEPT ![d] = [hook[d] EXCEPT !.row = Reading(e)]]
          /\ place' = [place EXCEPT ![d] = "apply"] /\ received' = received \cup {e}
          /\ UNCHANGED <<jobVars, row, callVars, bank, processed, applied, misled, booked, poll>>
      BY <1>2, HookTyped DEF Live, Accept
    <2>5. QED
      BY <1>f, <1>t, <2>e, <2>3, <2>4
  <1>3. CASE WebhookConflict(d)
    BY <1>3, <1>f, <1>t DEF WebhookConflict, eventVars
  <1>4. CASE WebhookNothing(d)
    <2>1. hook[d] \in HookType /\ hook' = [hook EXCEPT ![d] = hook[d]]
      BY <1>4, HookTyped DEF Live, WebhookNothing
    <2>2. QED
      BY <1>4, <1>f, <1>t, <2>1 DEF WebhookNothing, eventVars
  <1>5. CASE WebhookProcessed(d)
    <2>1. e \in Event
      BY <1>5, HookTyped DEF Live, WebhookProcessed
    <2>2. QED
      BY <1>5, <1>f, <1>t, <2>1 DEF WebhookProcessed
  <1>6. ASSUME NEW verdict \in Verdict, NEW s \in {"success", "failed", "reversed"}, Apply(d, verdict, s),
               misled' \in {misled, misled \cup {hook[d].row.payout}},
               \/ UNCHANGED <<pc, target>>
               \/ \E c \in Retry : /\ pc[c] = "idle" /\ Goto(c, "read")
                                   /\ target' = [target EXCEPT ![c] = hook[d].row.payout]
        PROVE  Typed'
    <2>1. /\ SetStatus(hook[d].row.payout, s) /\ hook[d].row.payout \in Run
          /\ UNCHANGED <<jobVars, count, bank, eventVars, hook, booked, poll>>
      BY <1>6, HookTyped DEF Live, Apply, ReadingType
    <2>a. /\ applied' \in [Event -> Nat] /\ misled' \subseteq Run
          /\ place' \in [Delivery -> {"idle", "insert", "apply", "mark", "done"}]
          /\ \A c \in Delivery : place'[c] \in {"idle", "done"} \/ hook'[c] \in HookType
      BY <1>6, <1>t, <2>1, HookTyped DEF Live, Apply, Typed, TypeOK
    <2>2. row' \in [Run -> RowType] /\ RowsNamed'
          /\ \A q \in Run : row'[q].transferId = row[q].transferId
      BY <2>1, StatusSet
    <2>3. /\ pc' \in [Call -> CallState] /\ target' \in [Retry -> Run \cup {None}]
          /\ TargetsKnown' /\ JobsAccounted'
          /\ \A c \in Call : pc'[c] \in {"record", "book"} => pc[c] = pc'[c]
      <3>1. CASE UNCHANGED <<pc, target>>
        <4>1. JobsAccounted'
          BY <2>1, <3>1, JobsFrame DEF InFlight
        <4>2. QED
          BY <1>t, <3>1, <4>1 DEF Typed, TargetsKnown
      <3>2. ASSUME NEW c \in Retry, pc[c] = "idle", Goto(c, "read"),
                   target' = [target EXCEPT ![c] = hook[d].row.payout]
            PROVE  /\ pc' \in [Call -> CallState] /\ target' \in [Retry -> Run \cup {None}]
                   /\ TargetsKnown' /\ JobsAccounted'
                   /\ \A b \in Call : pc'[b] \in {"record", "book"} => pc[b] = pc'[b]
        <4>1. JobsAccounted' /\ pc' \in [Call -> CallState]
          BY <2>1, <3>2, CallFrame, CallKind DEF CallState
        <4>2. TargetsKnown'
          BY <1>t, <2>1, <3>2, CallKind DEF Goto, Typed, TargetsKnown
        <4>3. QED
          BY <1>t, <2>1, <3>2, <4>1, <4>2, CallKind DEF Goto
      <3>3. QED
        BY <1>6, <3>1, <3>2
    <2>4. TypeOK'
      BY <2>1, <2>2, <2>3, <2>a DEF Typed, TypeOK, jobVars, queueVars, QueueType, eventVars
    <2>5. TransfersKnown'
      BY <2>1, <2>2, <2>3, TransfersFrame DEF Typed, TransfersKnown
    <2>6. QED
      BY <2>2, <2>3, <2>4, <2>5 DEF Typed
  <1>7. CASE WebhookSuccessful(d)
    BY <1>6, <1>7 DEF WebhookSuccessful, Verdict
  <1>8. CASE WebhookReversed(d) \/ WebhookFailed(d)
    BY <1>6, <1>8 DEF WebhookReversed, WebhookFailed, Verdict
  <1>9. ASSUME NEW c \in Retry, WebhookFailedRetry(d, c) PROVE Typed'
    BY <1>6, <1>9 DEF WebhookFailedRetry, Verdict
  <1>10. QED
    BY <1>1, <1>2, <1>3, <1>4, <1>5, <1>7, <1>8, <1>9 DEF WebhookStep, WebhookStore

LEMMA PollTyped == ASSUME Typed, NEW v \in Poll, PollStep(v) PROVE Typed'
  <1>t. /\ row \in [Run -> RowType] /\ poll \in [Poll -> PollType \cup {None}]
        /\ bank \in [Call -> {"unknown", "pending"} \cup Verdict]
    BY DEF Typed, TypeOK
  <1>f. ASSUME row' \in [Run -> RowType], poll' \in [Poll -> PollType \cup {None}], RowsNamed',
               \A p \in Run : row'[p].transferId = row[p].transferId,
               \A u \in Poll : poll'[u] # None => bank[poll'[u].transfer] # "unknown",
               UNCHANGED <<jobVars, callVars, bank, hookVars, booked>>
        PROVE  Typed'
    <2>1. JobsAccounted'
      BY <1>f, JobsFrame DEF callVars, InFlight
    <2>2. TargetsKnown' /\ TransfersKnown'
      BY <1>f DEF Typed, TargetsKnown, TransfersKnown, callVars
    <2>3. TypeOK'
      BY <1>f DEF Typed, TypeOK, jobVars, queueVars, callVars, hookVars, eventVars, QueueType
    <2>4. QED
      BY <1>f, <2>1, <2>2, <2>3 DEF Typed
  <1>k. \A u \in Poll : poll[u] # None => poll[u] \in PollType /\ bank[poll[u].transfer] # "unknown"
    BY <1>t DEF Typed, TransfersKnown
  <1>1. ASSUME NEW p \in Run, PollRead(v, p) PROVE Typed'
    <2> DEFINE r == [payout |-> p, status |-> row[p].status,
                     transfer |-> row[p].transferId, verdict |-> "none"]
    <2>1. row[p] \in RowType /\ row[p].transferId # None /\ row[p].status # "none"
      BY <1>1, <1>t DEF PollRead, Typed, RowsNamed
    <2>2. r \in PollType /\ r.transfer = row[p].transferId
      BY <2>1 DEF RowType, PollType
    <2>3. bank[r.transfer] # "unknown"
      BY <2>1, <2>2 DEF Typed, TransfersKnown
    <2>4. poll' = [poll EXCEPT ![v] = r] /\ UNCHANGED <<jobVars, row, callVars, bank, hookVars, booked>>
      BY <1>1 DEF PollRead
    <2> HIDE DEF r
    <2>5. poll' \in [Poll -> PollType \cup {None}]
      BY <1>t, <2>2, <2>4
    <2>6. \A u \in Poll : poll'[u] # None => bank[poll'[u].transfer] # "unknown"
      BY <1>t, <1>k, <2>3, <2>4
    <2>7. QED
      BY <1>f, <1>t, <2>4, <2>5, <2>6 DEF Typed, RowsNamed
  <1>v. ASSUME NEW verdict \in {"none", "pending"} \cup Verdict, poll[v] # None,
               poll' = [poll EXCEPT ![v].verdict = verdict]
        PROVE  /\ poll' \in [Poll -> PollType \cup {None}]
               /\ \A u \in Poll : poll'[u] # None => bank[poll'[u].transfer] # "unknown"
    <2>1. /\ [poll[v] EXCEPT !.verdict = verdict] \in PollType
          /\ [poll[v] EXCEPT !.verdict = verdict].transfer = poll[v].transfer
      BY <1>k, <1>v DEF PollType
    <2>2. \A u \in Poll : poll'[u] = IF u = v THEN [poll[v] EXCEPT !.verdict = verdict] ELSE poll[u]
      BY <1>t, <1>v
    <2>3. poll' \in [Poll -> PollType \cup {None}]
      BY <1>t, <1>v, <2>1, <2>2
    <2>4. QED
      BY <1>k, <1>v, <2>1, <2>2, <2>3
  <1>2. CASE PollReply(v)
    <2>1. poll[v] # None /\ poll[v].transfer \in Call
      BY <1>2, <1>k DEF PollReply, PollType
    <2>2. bank[poll[v].transfer] \in {"pending"} \cup Verdict
      BY <1>k, <1>t, <2>1
    <2>3. poll' = [poll EXCEPT ![v].verdict = bank[poll[v].transfer]]
          /\ UNCHANGED <<jobVars, row, callVars, bank, hookVars, booked>>
      BY <1>2 DEF PollReply
    <2>4. /\ poll' \in [Poll -> PollType \cup {None}]
          /\ \A u \in Poll : poll'[u] # None => bank[poll'[u].transfer] # "unknown"
      BY <1>v, <2>1, <2>2, <2>3
    <2>5. QED
      BY <1>f, <1>t, <2>3, <2>4 DEF Typed, RowsNamed
  <1>3. CASE PollApply(v)
    <2>1. PICK s \in {"success", "failed"} : SetStatus(poll[v].payout, s)
      BY <1>3 DEF PollApply
    <2>2. /\ row' \in [Run -> RowType] /\ RowsNamed'
          /\ \A p \in Run : row'[p].transferId = row[p].transferId
      BY <2>1, StatusSet
    <2>3. poll[v] # None /\ poll' = [poll EXCEPT ![v].verdict = "pending"]
          /\ UNCHANGED <<jobVars, callVars, bank, hookVars, booked>>
      BY <1>3 DEF PollApply, PollDone
    <2>4. /\ poll' \in [Poll -> PollType \cup {None}]
          /\ \A u \in Poll : poll'[u] # None => bank[poll'[u].transfer] # "unknown"
      BY <1>v, <2>3
    <2>5. QED
      BY <1>f, <2>2, <2>3, <2>4
  <1>4. QED
    BY <1>1, <1>2, <1>3 DEF PollStep

LEMMA RetryTyped == ASSUME Typed, NEW c \in Retry, RetryStep(c) PROVE Typed'
  <1>c. c \in Call /\ c \notin Run /\ c # None
    BY CallKind
  <1>t. /\ row \in [Run -> RowType] /\ pc \in [Call -> CallState]
        /\ target \in [Retry -> Run \cup {None}] /\ count \in [Retry -> Nat]
        /\ bank \in [Call -> {"unknown", "pending"} \cup Verdict]
    BY DEF Typed, TypeOK
  <1>f. ASSUME NEW label \in {"read", "claim", "post", "done"}, Goto(c, label),
               row' \in [Run -> RowType], RowsNamed', count' \in [Retry -> Nat],
               target' \in [Retry -> Run \cup {None}], target'[c] \in Run,
               \A d \in Retry \ {c} : target'[d] = target[d],
               \A p \in Run : row'[p].transferId = row[p].transferId,
               UNCHANGED <<jobVars, bank, hookVars, booked, poll>>
        PROVE  Typed'
    <2>1. JobsAccounted' /\ pc' \in [Call -> CallState]
      BY <1>c, <1>f, CallFrame DEF CallState
    <2>2. \A d \in Call : pc'[d] = IF d = c THEN label ELSE pc[d]
      BY <1>f, <1>t DEF Goto
    <2>3. TargetsKnown'
      BY <1>f, <2>2, CallKind DEF Typed, TargetsKnown
    <2>4. TransfersKnown'
      BY <1>f, <2>2, TransfersFrame DEF Typed, TransfersKnown
    <2>5. TypeOK'
      BY <1>f, <2>1 DEF Typed, TypeOK, jobVars, queueVars, hookVars, eventVars, QueueType
    <2>6. QED
      BY <1>f, <2>1, <2>3, <2>4, <2>5 DEF Typed
  <1>g. pc[c] # "idle" => target[c] \in Run
    BY DEF Typed, TargetsKnown
  <1>n. row' = row => RowsNamed'
    BY DEF Typed, RowsNamed
  <1>1. ASSUME NEW p \in Run, AskRetry(c, p) PROVE Typed'
    <2>1. target' = [target EXCEPT ![c] = p]
      BY <1>1 DEF AskRetry
    <2>2. target' \in [Retry -> Run \cup {None}] /\ target'[c] = p /\ \A d \in Retry \ {c} : target'[d] = target[d]
      BY <1>t, <2>1
    <2>3. QED
      BY <1>1, <1>f, <1>n, <1>t, <2>2 DEF AskRetry
  <1>2. CASE RetryRead(c)
    <2>1. target[c] \in Run /\ row[target[c]].retries \in Nat
      BY <1>2, <1>g, <1>t DEF RetryRead, RowType
    <2>2. QED
      BY <1>2, <1>f, <1>n, <1>t, <2>1 DEF RetryRead
  <1>3. CASE RetryRefused(c)
    BY <1>3, <1>f, <1>g, <1>n, <1>t DEF RetryRefused
  <1>4. CASE RetryClaim(c)
    <2> DEFINE p == target[c]
               r == [row[p] EXCEPT !.status = "processing", !.ref = c, !.retries = count[c] + 1]
    <2>1. p \in Run /\ row' = [row EXCEPT ![p] = r]
      BY <1>4, <1>g DEF RetryClaim
    <2>2. /\ r \in RowType /\ r.transferId = row[p].transferId /\ r.status = "processing"
      <3>1. row[p] \in RowType /\ count[c] + 1 \in Nat
        BY <1>t, <2>1
      <3>2. \A q \in RowType, n \in Nat :
              LET s == [q EXCEPT !.status = "processing", !.ref = c, !.retries = n]
              IN  s \in RowType /\ s.transferId = q.transferId /\ s.status = "processing"
        BY <1>c DEF RowType
      <3>3. QED
        BY <3>1, <3>2
    <2> HIDE DEF r, p
    <2>3. \A q \in Run : row'[q] = IF q = p THEN r ELSE row[q]
      BY <1>t, <2>1
    <2>4. row' \in [Run -> RowType] /\ RowsNamed' /\ \A q \in Run : row'[q].transferId = row[q].transferId
      BY <1>t, <2>1, <2>2, <2>3 DEF Typed, RowsNamed
    <2>5. QED
      BY <1>4, <1>f, <1>t, <2>1, <2>4 DEF RetryClaim, p
  <1>5. QED
    BY <1>1, <1>2, <1>3, <1>4 DEF RetryStep

LEMMA CallTyped == ASSUME Typed, NEW c \in Call, Step(c) \/ Crash(c) PROVE Typed'
  <1>t. /\ row \in [Run -> RowType] /\ pc \in [Call -> CallState] /\ booked \subseteq Run
        /\ bank \in [Call -> {"unknown", "pending"} \cup Verdict]
    BY DEF Typed, TypeOK
  <1>f. ASSUME NEW label \in CallState \ {"idle"}, Goto(c, label), pc[c] # "idle",
               row' \in [Run -> RowType], RowsNamed', TransfersKnown',
               bank' \in [Call -> {"unknown", "pending"} \cup Verdict], booked' \subseteq Run,
               runs' = runs, JobsAccounted', QueueType',
               UNCHANGED <<target, count, hookVars, poll>>
        PROVE  Typed'
    <2>1. pc' = [pc EXCEPT ![c] = label]
      BY <1>f DEF Goto
    <2>2. TargetsKnown'
      BY <1>f, <1>t, <2>1, CallKind DEF Typed, TargetsKnown
    <2>3. TypeOK'
      BY <1>f, <1>t, <2>1 DEF Typed, TypeOK, hookVars, eventVars
    <2>4. QED
      BY <1>f, <2>2, <2>3 DEF Typed
  <1>j. ASSUME NEW label \in CallState, Goto(c, label), UNCHANGED jobVars, InFlight(c)
        PROVE  JobsAccounted' /\ QueueType' /\ runs' = runs
    BY <1>j, CallFrame DEF Typed, TypeOK, QueueType, jobVars, queueVars
  <1>e. ASSUME NEW label \in {"done", "crashed"}, Goto(c, label), c \in Run, runs' = runs,
               InFlight(c),
               Complete(c[1]) \/ AttemptFails(c[1]) \/ Stall(c[1])
        PROVE  JobsAccounted' /\ QueueType'
    <2>1. pc'[c] = label /\ \A q \in Run \ {c} : pc'[q] = pc[q]
      BY <1>e, <1>t, CallKind DEF Goto
    <2>2. ~InFlight(c)'
      BY <1>e, <2>1 DEF InFlight
    <2>3. QED
      BY <1>e, <2>1, <2>2, JobEndStep
  <1>n. row' = row => RowsNamed'
    BY DEF Typed, RowsNamed
  <1>1. ASSUME NEW outcome \in Outcome, ExecuteTransfer(c, outcome) PROVE Typed'
    <2>1. PICK label \in {"record", "broken"} :
            Goto(c, label) /\ (label = "record" => outcome = "accepted")
      BY <1>1 DEF ExecuteTransfer
    <2>2. /\ bank' \in [Call -> {"unknown", "pending"} \cup Verdict]
          /\ \A d \in Call : bank[d] # "unknown" => bank'[d] # "unknown"
          /\ outcome = "accepted" => bank'[c] # "unknown"
      BY <1>1, <1>t DEF ExecuteTransfer
    <2>3. \A d \in Call : pc'[d] \in {"record", "book"} => bank'[d] # "unknown"
      BY <1>t, <2>1, <2>2 DEF Goto, Typed, TransfersKnown
    <2>4. /\ pc[c] = "post" /\ UNCHANGED <<jobVars, row, target, count, hookVars, booked, poll>>
      BY <1>1 DEF ExecuteTransfer
    <2>5. TransfersKnown'
      BY <2>2, <2>3, <2>4, TransfersFrame
    <2>6. JobsAccounted' /\ QueueType' /\ runs' = runs
      BY <1>j, <2>1, <2>4 DEF InFlight, CallState
    <2>7. QED
      BY <1>f, <1>n, <1>t, <2>1, <2>2, <2>4, <2>5, <2>6 DEF CallState
  <1>2. ASSUME NEW s \in {"pending", "successful"}, Record(c, s) PROVE Typed'
    <2> DEFINE p == PayoutOf(c)
               r == [row[p] EXCEPT !.transferId = c,
                       !.status = IF s = "successful" THEN "success" ELSE "processing"]
    <2>1. /\ pc[c] = "record" /\ row' = [row EXCEPT ![p] = r]
          /\ UNCHANGED <<jobVars, target, count, bank, hookVars, booked, poll>>
      BY <1>2 DEF Record
    <2>2. PICK label \in {"book", "done"} : Goto(c, label)
      BY <1>2 DEF Record
    <2>3. p \in Run => r \in RowType /\ r.transferId = c /\ r.status # "none"
      BY <1>t DEF RowType
    <2> HIDE DEF r
    <2>4. \A q \in Run : row'[q] = IF q = p THEN r ELSE row[q]
      BY <1>t, <2>1
    <2>5. row' \in [Run -> RowType] /\ RowsNamed'
      BY <1>t, <2>1, <2>3, <2>4 DEF Typed, RowsNamed
    <2>6. bank[c] # "unknown"
      BY <2>1 DEF Typed, TransfersKnown
    <2>7. \A q \in Run : row'[q].transferId # None => bank'[row'[q].transferId] # "unknown"
      BY <2>1, <2>3, <2>4, <2>6 DEF Typed, TransfersKnown
    <2>8. \A d \in Call : pc'[d] \in {"record", "book"} => bank'[d] # "unknown"
      BY <1>t, <2>1, <2>2, <2>6 DEF Goto, Typed, TransfersKnown
    <2>9. TransfersKnown'
      BY <2>1, <2>7, <2>8 DEF Typed, TransfersKnown
    <2>10. JobsAccounted' /\ QueueType' /\ runs' = runs
      BY <1>j, <2>1, <2>2 DEF InFlight, CallState
    <2>11. QED
      BY <1>f, <1>t, <2>1, <2>2, <2>5, <2>9, <2>10 DEF CallState
  <1>3. CASE RecordFails(c)
    <2>1. /\ pc[c] = "record" /\ Goto(c, "broken")
          /\ UNCHANGED <<jobVars, row, target, count, bank, hookVars, booked, poll>>
      BY <1>3 DEF RecordFails
    <2>2. \A d \in Call : pc'[d] \in {"record", "book"} => bank'[d] # "unknown"
      BY <1>t, <2>1 DEF Goto, Typed, TransfersKnown
    <2>3. TransfersKnown'
      BY <2>1, <2>2, TransfersFrame
    <2>4. JobsAccounted' /\ QueueType' /\ runs' = runs
      BY <1>j, <2>1 DEF InFlight, CallState
    <2>5. QED
      BY <1>f, <1>n, <1>t, <2>1, <2>3, <2>4 DEF CallState
  <1>b. ASSUME NEW label \in {"done", "broken"}, Goto(c, label), c \in Run, pc[c] = "book",
               booked' \in {booked, booked \cup {c}},
               UNCHANGED <<row, target, count, bank, hookVars, poll>>
        PROVE  TransfersKnown'
    <2>1. bank[c] # "unknown"
      BY <1>b DEF Typed, TransfersKnown
    <2>2. \A d \in Call : pc'[d] \in {"record", "book"} => bank'[d] # "unknown"
      BY <1>b, <1>t DEF Goto, Typed, TransfersKnown
    <2>3. QED
      BY <1>b, <2>1, <2>2 DEF Typed, TransfersKnown
  <1>4. CASE Book(c)
    <2>1. /\ c \in Run /\ pc[c] = "book" /\ booked' = booked \cup {c} /\ Complete(c[1]) /\ Goto(c, "done")
          /\ UNCHANGED <<runs, row, target, count, bank, hookVars, poll>>
      BY <1>4 DEF Book
    <2>2. JobsAccounted' /\ QueueType'
      BY <1>e, <2>1 DEF InFlight
    <2>3. TransfersKnown'
      BY <1>b, <2>1
    <2>4. QED
      BY <1>f, <1>n, <1>t, <2>1, <2>2, <2>3 DEF CallState
  <1>5. ASSUME NEW deducted \in BOOLEAN, BookFails(c, deducted) PROVE Typed'
    <2>1. /\ c \in Run /\ pc[c] = "book" /\ booked' \in {booked, booked \cup {c}} /\ Goto(c, "broken")
          /\ UNCHANGED <<jobVars, row, target, count, bank, hookVars, poll>>
      BY <1>5 DEF BookFails
    <2>2. JobsAccounted' /\ QueueType' /\ runs' = runs
      BY <1>j, <2>1 DEF InFlight, CallState
    <2>3. TransfersKnown'
      BY <1>b, <2>1
    <2>4. QED
      BY <1>f, <1>n, <1>t, <2>1, <2>2, <2>3 DEF CallState
  <1>q. ASSUME NEW label \in {"done", "crashed"}, Goto(c, label), InFlight(c), runs' = runs,
               IF c \in Run THEN AttemptFails(c[1]) \/ Stall(c[1]) ELSE UNCHANGED queueVars
        PROVE  JobsAccounted' /\ QueueType'
    <2>1. CASE c \in Run
      BY <1>e, <1>q, <2>1
    <2>2. CASE c \notin Run
      BY <1>j, <1>q, <2>2 DEF jobVars, CallState
    <2>3. QED
      BY <2>1, <2>2
  <1>6. CASE CatchFailure(c)
    <2>1. /\ pc[c] = "broken" /\ SetStatus(PayoutOf(c), "failed") /\ Goto(c, "done")
          /\ UNCHANGED <<runs, target, count, bank, hookVars, booked, poll>>
      BY <1>6 DEF CatchFailure
    <2>2. JobsAccounted' /\ QueueType'
      BY <1>6, <1>q, <2>1 DEF CatchFailure, InFlight
    <2>3. /\ row' \in [Run -> RowType] /\ RowsNamed'
          /\ \A q \in Run : row'[q].transferId = row[q].transferId
      BY <2>1, StatusSet
    <2>4. \A d \in Call : pc'[d] \in {"record", "book"} => bank'[d] # "unknown"
      BY <1>t, <2>1 DEF Goto, Typed, TransfersKnown
    <2>5. TransfersKnown'
      BY <2>1, <2>3, <2>4, TransfersFrame
    <2>6. QED
      BY <1>f, <1>t, <2>1, <2>2, <2>3, <2>5 DEF CallState
  <1>7. CASE Crash(c)
    <2>1. /\ InFlight(c) /\ Goto(c, "crashed")
          /\ UNCHANGED <<runs, row, target, count, bank, hookVars, booked, poll>>
      BY <1>7 DEF Crash
    <2>2. JobsAccounted' /\ QueueType'
      BY <1>7, <1>q, <2>1 DEF Crash
    <2>3. \A d \in Call : pc'[d] \in {"record", "book"} => bank'[d] # "unknown"
      BY <1>t, <2>1 DEF Goto, Typed, TransfersKnown
    <2>4. TransfersKnown'
      BY <2>1, <2>3, TransfersFrame
    <2>5. QED
      BY <1>f, <1>n, <1>t, <2>1, <2>2, <2>4 DEF CallState, InFlight
  <1>8. QED
    BY <1>1, <1>2, <1>3, <1>4, <1>5, <1>6, <1>7 DEF Step

LEMMA NextTyped == Typed /\ [Next]_vars => Typed'
  <1> SUFFICES ASSUME Typed, [Next]_vars PROVE Typed'
    OBVIOUS
  <1>1. ASSUME NEW w \in Withdrawal, Enqueue(w) \/ JobRefused(w) PROVE Typed'
    <2>1. JobsAccounted' /\ QueueType'
      BY <1>1, JobWaitStep
    <2>2. UNCHANGED <<runs, row, callVars, bank, hookVars, booked, poll>>
      BY <1>1 DEF Enqueue, JobRefused
    <2>3. TypeOK' /\ TargetsKnown' /\ RowsNamed' /\ TransfersKnown'
      BY <2>1, <2>2 DEF Typed, TypeOK, TargetsKnown, RowsNamed, TransfersKnown, callVars, hookVars, eventVars
    <2>4. QED
      BY <2>1, <2>3 DEF Typed
  <1>2. ASSUME NEW w \in Withdrawal, JobStart(w) PROVE Typed'
    <2> DEFINE p == <<w, runs[w] + 1>>
               r == [NoRow EXCEPT !.status = "processing", !.ref = p]
    <2>1. /\ JobsAccounted' /\ QueueType' /\ runs' \in [Withdrawal -> 0..MaxAttempts + MaxStalls]
          /\ p \in Run
      BY <1>2, JobStartStep
    <2>2. /\ row' = [row EXCEPT ![p] = r] /\ pc' = [pc EXCEPT ![p] = "post"]
          /\ UNCHANGED <<target, count, bank, hookVars, booked, poll>>
      BY <1>2 DEF JobStart, Goto
    <2>3. r \in RowType /\ r.transferId = None /\ r.status = "processing"
      BY <2>1, CallKind DEF NoRow, RowType
    <2>t. row \in [Run -> RowType] /\ pc \in [Call -> CallState]
      BY DEF Typed, TypeOK
    <2> HIDE DEF r, p
    <2>4. /\ row' \in [Run -> RowType] /\ RowsNamed' /\ pc' \in [Call -> CallState]
          /\ \A q \in Run : row'[q].transferId # None => row'[q].transferId = row[q].transferId
      BY <2>t, <2>1, <2>2, <2>3 DEF Typed, RowsNamed, CallState
    <2>5. TargetsKnown'
      BY <2>t, <2>1, <2>2, CallKind DEF Typed, TargetsKnown
    <2>6. TransfersKnown'
      BY <2>t, <2>2, <2>4 DEF Typed, TransfersKnown
    <2>7. TypeOK'
      BY <2>1, <2>2, <2>4 DEF Typed, TypeOK, hookVars, eventVars
    <2>8. QED
      BY <2>1, <2>4, <2>5, <2>6, <2>7 DEF Typed
  <1>3. ASSUME NEW c \in Call, NEW verdict \in Verdict, Settle(c, verdict) PROVE Typed'
    <2>1. /\ bank' = [bank EXCEPT ![c] = verdict] /\ bank \in [Call -> {"unknown", "pending"} \cup Verdict]
          /\ UNCHANGED <<jobVars, row, callVars, hookVars, booked, poll>>
      BY <1>3 DEF Settle, Typed, TypeOK
    <2>2. /\ bank' \in [Call -> {"unknown", "pending"} \cup Verdict]
          /\ \A d \in Call : bank[d] # "unknown" => bank'[d] # "unknown"
      BY <2>1 DEF Verdict
    <2>3. JobsAccounted'
      BY <2>1, JobsFrame DEF callVars, InFlight
    <2>4. TransfersKnown'
      BY <2>1, <2>2, TransfersFrame DEF callVars, Typed, TransfersKnown
    <2>5. TypeOK' /\ TargetsKnown' /\ RowsNamed'
      BY <2>1, <2>2 DEF Typed, TypeOK, TargetsKnown, RowsNamed, jobVars, queueVars, callVars,
         hookVars, eventVars, QueueType
    <2>6. QED
      BY <2>3, <2>4, <2>5 DEF Typed
  <1>4. CASE UNCHANGED vars
    <2>1. JobsAccounted'
      BY <1>4, JobsFrame DEF vars, callVars, InFlight
    <2>2. TypeOK' /\ TargetsKnown' /\ RowsNamed' /\ TransfersKnown'
      BY <1>4 DEF vars, Typed, TypeOK, TargetsKnown, RowsNamed, TransfersKnown, jobVars, queueVars,
         callVars, hookVars, eventVars, QueueType
    <2>3. QED
      BY <2>1, <2>2 DEF Typed
  <1>5. QED
    BY <1>1, <1>2, <1>3, <1>4, CallTyped, RetryTyped, WebhookTyped, PollTyped DEF Next

\* Types, and no job has more attempts than Bull allows it.
THEOREM TypeCorrect == Spec => []TypeOK
  <1>1. Typed => TypeOK
    BY DEF Typed
  <1>2. QED
    BY <1>1, InitTyped, NextTyped, PTL DEF Spec

-----------------------------------------------------------------------------
\* The part of JobOutcome that looks at the jobs.
JobsExplained ==
    \A w \in Withdrawal :
        /\ job[w] = "completed" => \E p \in booked : p[1] = w
        /\ job[w] = "failed" => attempts[w] = MaxAttempts \/ stalls[w] > MaxStalls

\* At most the job of w, which has not ended, changes.
LEMMA ExplainedFrame ==
    ASSUME JobsExplained, NEW w \in Withdrawal, booked \subseteq booked',
           \A v \in Withdrawal \ {w} :
             job'[v] = job[v] /\ attempts'[v] = attempts[v] /\ stalls'[v] = stalls[v],
           job'[w] = "completed" => \E p \in booked' : p[1] = w,
           job'[w] = "failed" => attempts'[w] = MaxAttempts \/ stalls'[w] > MaxStalls
    PROVE  JobsExplained'
  BY DEF JobsExplained

LEMMA ExplainedStep == Typed /\ JobsExplained /\ [Next]_vars => JobsExplained'
  <1> SUFFICES ASSUME Typed, JobsExplained, [Next]_vars PROVE JobsExplained'
    OBVIOUS
  <1>t. /\ job \in [Withdrawal -> JobState] /\ attempts \in [Withdrawal -> 0..MaxAttempts]
        /\ stalls \in [Withdrawal -> 0..MaxStalls + 1] /\ MaxAttempts \in Nat /\ MaxStalls \in Nat
    BY CountsAssumption DEF Typed, TypeOK, QueueType
  <1>f. ASSUME UNCHANGED queueVars, booked \subseteq booked' PROVE JobsExplained'
    BY <1>f DEF JobsExplained, queueVars
  <1>1. ASSUME NEW w \in Withdrawal, Enqueue(w) \/ JobRefused(w) PROVE JobsExplained'
    <2>1. /\ job[w] \in {"none", "waiting"} /\ booked' = booked
          /\ Add(w) \/ AttemptFails(w)
      BY <1>1 DEF Enqueue, JobRefused
    <2>2. /\ \A v \in Withdrawal \ {w} :
               job'[v] = job[v] /\ attempts'[v] = attempts[v] /\ stalls'[v] = stalls[v]
          /\ job'[w] # "completed"
      BY <1>t, <2>1 DEF Add, AttemptFails
    <2>3. job'[w] = "failed" => attempts'[w] = MaxAttempts \/ stalls'[w] > MaxStalls
      BY <1>1, <2>1, JobWaitStep
    <2>4. QED
      BY <2>1, <2>2, <2>3, ExplainedFrame
  <1>2. ASSUME NEW w \in Withdrawal, JobStart(w) PROVE JobsExplained'
    <2>1. booked' = booked /\ Take(w)
      BY <1>2 DEF JobStart
    <2>2. QED
      BY <1>t, <2>1, ExplainedFrame DEF Take
  \* The job of a run in flight is active, and ends or waits.
  <1>e. ASSUME NEW p \in Run, InFlight(p), booked \subseteq booked',
               \/ AttemptFails(p[1]) \/ Stall(p[1])
               \/ Complete(p[1]) /\ p \in booked'
        PROVE  JobsExplained'
    <2> DEFINE w == p[1]
    <2>1. /\ w \in Withdrawal /\ attempts[w] < MaxAttempts /\ stalls[w] <= MaxStalls
      BY <1>e, RunPair DEF Typed, JobsAccounted
    <2>2. \A v \in Withdrawal \ {w} :
               job'[v] = job[v] /\ attempts'[v] = attempts[v] /\ stalls'[v] = stalls[v]
      BY <1>e, <1>t DEF AttemptFails, Stall, Complete
    <2>3. job'[w] = "completed" => \E q \in booked' : q[1] = w
      BY <1>e, <1>t, <2>1 DEF AttemptFails, Stall, Complete
    <2>4. job'[w] = "failed" => attempts'[w] = MaxAttempts \/ stalls'[w] > MaxStalls
      <3>1. CASE AttemptFails(w)
        BY <1>t, <2>1, <3>1 DEF AttemptFails
      <3>2. CASE Stall(w)
        BY <1>t, <2>1, <3>2 DEF Stall
      <3>3. CASE Complete(w)
        BY <1>t, <2>1, <3>3 DEF Complete
      <3>4. QED
        BY <1>e, <3>1, <3>2, <3>3
    <2>5. QED
      BY <1>e, <2>1, <2>2, <2>3, <2>4, ExplainedFrame
  <1>3. ASSUME NEW c \in Call, Step(c) \/ Crash(c) PROVE JobsExplained'
    <2>1. CASE UNCHANGED queueVars
      <3>1. booked \subseteq booked'
        BY <1>3 DEF Step, ExecuteTransfer, Record, RecordFails, Book, BookFails, CatchFailure, Crash
      <3>2. QED
        BY <1>f, <2>1, <3>1
    <2>2. CASE Book(c)
      BY <1>e, <2>2 DEF Book, InFlight
    <2>3. CASE c \in Run /\ (CatchFailure(c) \/ Crash(c))
      BY <1>e, <2>3 DEF CatchFailure, Crash, InFlight
    <2>4. QED
      BY <1>3, <2>1, <2>2, <2>3
         DEF Step, ExecuteTransfer, Record, RecordFails, BookFails, CatchFailure, Crash, jobVars
  <1>4. ASSUME NEW c \in Retry, RetryStep(c) PROVE JobsExplained'
    BY <1>4, <1>f DEF RetryStep, AskRetry, RetryRead, RetryRefused, RetryClaim, jobVars
  <1>5. ASSUME NEW d \in Delivery, WebhookStep(d) PROVE JobsExplained'
    <2>1. UNCHANGED <<jobVars, booked>>
      BY <1>5 DEF WebhookStep, WebhookLookUp, WebhookStore, Accept, WebhookConflict, WebhookNothing,
         WebhookSuccessful, WebhookReversed, WebhookFailed, WebhookFailedRetry, Apply, WebhookProcessed
    <2>2. QED
      BY <1>f, <2>1 DEF jobVars
  <1>6. ASSUME NEW v \in Poll, PollStep(v) PROVE JobsExplained'
    BY <1>6, <1>f DEF PollStep, PollRead, PollReply, PollApply, PollDone, jobVars
  <1>7. ASSUME NEW c \in Call, NEW verdict \in Verdict, Settle(c, verdict) PROVE JobsExplained'
    BY <1>7, <1>f DEF Settle, jobVars
  <1>8. CASE UNCHANGED vars
    BY <1>8, <1>f DEF vars, jobVars
  <1>9. QED
    BY <1>1, <1>2, <1>3, <1>4, <1>5, <1>6, <1>7, <1>8 DEF Next

\* A job that completed, and a deduction from the reserve, stand for a transfer
\* that Flutterwave accepted; a job that is given up used up its attempts or its
\* restarts.
THEOREM JobsAreExplained == Spec => []JobOutcome
  <1>1. Init => JobsExplained
    BY DEF Init, QueueInit, JobsExplained
  <1>2. Typed /\ JobsExplained => JobOutcome
    BY DEF Typed, TransfersKnown, JobsExplained, JobOutcome
  <1>3. QED
    BY <1>1, <1>2, InitTyped, NextTyped, ExplainedStep, PTL DEF Spec

-----------------------------------------------------------------------------
\* One delivery of an event at most gets past the unique index, and it changes a
\* payout once.
PastInsert(d) == place[d] \in {"apply", "mark"}

HandledOnce ==
    /\ \A e \in Event : applied[e] <= 1 /\ (e \notin received => applied[e] = 0)
    /\ \A d \in Delivery :
         /\ PastInsert(d) => hook[d].event \in received
         /\ place[d] = "apply" => applied[hook[d].event] = 0
         /\ \A c \in Delivery : PastInsert(c) /\ PastInsert(d) /\ hook[c].event = hook[d].event => c = d

\* A retry that has seen the count has seen it below the limit.
BelowLimit ==
    /\ RetryCountBounded
    /\ \A c \in Retry : pc[c] = "claim" => count[c] < MaxRetries

LEMMA HandledStep == Typed /\ HandledOnce /\ [Next]_vars => HandledOnce'
  <1> SUFFICES ASSUME Typed, HandledOnce, [Next]_vars PROVE HandledOnce'
    OBVIOUS
  <1>t. applied \in [Event -> Nat] /\ received \subseteq Event
    BY DEF Typed, TypeOK
  <1>1. CASE UNCHANGED hookVars
    BY <1>1 DEF hookVars, eventVars, HandledOnce, PastInsert
  \* A step that brings no delivery past the index, and applies nothing.
  <1>f. ASSUME NEW d \in Delivery, UNCHANGED <<received, applied>>,
               \A c \in Delivery \ {d} : place'[c] = place[c] /\ hook'[c] = hook[c],
               \/ place'[d] \in {"insert", "done"}
               \/ place[d] = "apply" /\ place'[d] = "mark" /\ hook'[d] = hook[d]
        PROVE  HandledOnce'
    BY <1>f DEF HandledOnce, PastInsert
  <1>2. ASSUME NEW d \in Delivery, WebhookStore(d) PROVE HandledOnce'
    <2>1. /\ place[d] = "insert" /\ hook[d].event \in Event /\ hook[d].event \notin received
          /\ received' = received \cup {hook[d].event} /\ applied' = applied
          /\ place' = [place EXCEPT ![d] = "apply"]
          /\ hook' = [hook EXCEPT ![d] = [hook[d] EXCEPT !.row = Reading(hook[d].event)]]
      BY <1>2, HookTyped DEF Live, WebhookStore, Accept
    <2>2. \A c \in Delivery \ {d} : place'[c] = place[c] /\ hook'[c] = hook[c]
      BY <2>1, HookTyped DEF Live
    <2>3. place'[d] = "apply" /\ hook'[d].event = hook[d].event
      <3>1. [hook[d] EXCEPT !.row = Reading(hook[d].event)].event = hook[d].event
        BY <2>1, HookTyped DEF Live, HookType
      <3>2. QED
        BY <2>1, <3>1, HookTyped DEF Live
    <2>4. applied[hook[d].event] = 0
      BY <2>1 DEF HandledOnce
    <2>5. \A c \in Delivery \ {d} : PastInsert(c) => hook[c].event # hook[d].event
      BY <2>1 DEF HandledOnce
    <2>6. QED
      BY <2>1, <2>2, <2>3, <2>4, <2>5 DEF HandledOnce, PastInsert
  <1>3. ASSUME NEW d \in Delivery, NEW verdict, NEW s, Apply(d, verdict, s) PROVE HandledOnce'
    <2>1. /\ place[d] = "apply" /\ hook[d].event \in Event /\ received' = received /\ hook' = hook
          /\ place' = [place EXCEPT ![d] = "mark"]
          /\ applied' = [applied EXCEPT ![hook[d].event] = @ + 1]
      BY <1>3, HookTyped DEF Live, Apply, eventVars
    <2>2. applied[hook[d].event] = 0 /\ hook[d].event \in received
      BY <2>1 DEF HandledOnce, PastInsert
    <2>3. \A c \in Delivery : place'[c] = IF c = d THEN "mark" ELSE place[c]
      BY <2>1, HookTyped DEF Live
    <2>4. \A e \in Event : applied'[e] = IF e = hook[d].event THEN 1 ELSE applied[e]
      BY <1>t, <2>1, <2>2
    <2>5. \A c \in Delivery : place'[c] = "apply" => hook[c].event # hook[d].event
      BY <2>1, <2>3 DEF HandledOnce, PastInsert
    <2>6. \A e \in Event : applied'[e] <= 1 /\ (e \notin received => applied'[e] = 0)
      BY <2>2, <2>4 DEF HandledOnce
    <2>7. \A c \in Delivery : PastInsert(c)' <=> PastInsert(c)
      BY <2>1, <2>3 DEF PastInsert
    <2>8. \A c \in Delivery : place'[c] = "apply" => applied'[hook[c].event] = 0
      BY <2>1, <2>3, <2>4, <2>5, HookTyped DEF Live, HandledOnce
    <2>9. QED
      BY <2>1, <2>6, <2>7, <2>8 DEF HandledOnce
  <1>4. ASSUME NEW c \in Retry, RetryStep(c) PROVE UNCHANGED hookVars
    BY <1>4 DEF RetryStep, AskRetry, RetryRead, RetryRefused, RetryClaim
  <1>5. ASSUME NEW c \in Call, Step(c) \/ Crash(c) PROVE UNCHANGED hookVars
    BY <1>5 DEF Step, ExecuteTransfer, Record, RecordFails, Book, BookFails, CatchFailure, Crash
  <1>6. ASSUME NEW v \in Poll, PollStep(v) PROVE UNCHANGED hookVars
    BY <1>6 DEF PollStep, PollRead, PollReply, PollApply, PollDone
  <1>7. ASSUME NEW w \in Withdrawal, Enqueue(w) \/ JobStart(w) \/ JobRefused(w)
        PROVE  UNCHANGED hookVars
    BY <1>7 DEF Enqueue, JobStart, JobRefused
  <1>8. ASSUME NEW c \in Call, NEW verdict \in Verdict, Settle(c, verdict) PROVE UNCHANGED hookVars
    BY <1>8 DEF Settle
  <1>9. ASSUME NEW d \in Delivery, WebhookStep(d) PROVE HandledOnce'
    <2>1. CASE \/ \E e \in Event : WebhookLookUp(d, e)
               \/ WebhookConflict(d) \/ WebhookNothing(d) \/ WebhookProcessed(d)
      BY <1>f, <2>1, HookTyped
         DEF Live, WebhookLookUp, WebhookConflict, WebhookNothing, WebhookProcessed, eventVars
    <2>2. QED
      BY <1>2, <1>3, <1>9, <2>1
         DEF WebhookStep, WebhookSuccessful, WebhookReversed, WebhookFailed, WebhookFailedRetry
  <1>10. UNCHANGED vars => UNCHANGED hookVars
    BY DEF vars
  <1>11. QED
    BY <1>1, <1>4, <1>5, <1>6, <1>7, <1>8, <1>9, <1>10 DEF Next

\* An event changes a payout once at most, though a second delivery may come in
\* while the first is between the look-up and the insert, or being handled: past
\* the unique index there is one delivery at most.
THEOREM EventsApplyOnce == Spec => []EventAppliedOnce
  <1>1. Init => HandledOnce
    BY DEF Init, HandledOnce, PastInsert
  <1>2. HandledOnce => EventAppliedOnce
    BY DEF HandledOnce, EventAppliedOnce
  <1>3. QED
    BY <1>1, <1>2, InitTyped, NextTyped, HandledStep, PTL DEF Spec

-----------------------------------------------------------------------------
LEMMA LimitStep == Typed /\ BelowLimit /\ [Next]_vars => BelowLimit'
  <1> SUFFICES ASSUME Typed, BelowLimit, [Next]_vars PROVE BelowLimit'
    OBVIOUS
  <1>t. /\ row \in [Run -> RowType] /\ pc \in [Call -> CallState] /\ count \in [Retry -> Nat]
        /\ MaxRetries \in Nat /\ \A p \in Run : row[p].retries \in Nat
    BY CountsAssumption DEF Typed, TypeOK, RowType
  \* A step that claims no row and reads no count.
  <1>f. ASSUME \A p \in Run : row'[p].retries \in {0, row[p].retries}, count' = count,
               \A c \in Retry : pc'[c] = "claim" => pc[c] = "claim"
        PROVE  BelowLimit'
    BY <1>f, <1>t DEF BelowLimit, RetryCountBounded
  <1>s. ASSUME NEW p, NEW s \in {"processing", "success", "failed", "reversed"}, SetStatus(p, s)
        PROVE  \A q \in Run : row'[q].retries \in {0, row[q].retries}
    BY <1>s, StatusSet
  <1>g. ASSUME NEW c \in Call, NEW label, label # "claim", Goto(c, label)
        PROVE  \A d \in Retry : pc'[d] = "claim" => pc[d] = "claim"
    BY <1>g, <1>t, CallKind DEF Goto
  <1>1. ASSUME NEW w \in Withdrawal, Enqueue(w) \/ JobRefused(w) PROVE BelowLimit'
    BY <1>1, <1>f DEF Enqueue, JobRefused, callVars
  <1>2. ASSUME NEW w \in Withdrawal, JobStart(w) PROVE BelowLimit'
    <2> DEFINE p == <<w, runs[w] + 1>>
    <2>1. /\ row' = [row EXCEPT ![p] = [NoRow EXCEPT !.status = "processing", !.ref = p]]
          /\ Goto(p, "post") /\ count' = count /\ p \in Run
      BY <1>2, JobStartStep DEF JobStart
    <2>2. \A q \in Run : row'[q].retries \in {0, row[q].retries}
      BY <1>t, <2>1 DEF NoRow
    <2>3. QED
      BY <1>f, <1>g, <2>1, <2>2, CallKind
  <1>3. ASSUME NEW c \in Call, Step(c) \/ Crash(c) PROVE BelowLimit'
    <2>1. count' = count /\ \E label : label # "claim" /\ Goto(c, label)
      BY <1>3 DEF Step, ExecuteTransfer, Record, RecordFails, Book, BookFails, CatchFailure, Crash
    <2>2. CASE row' = row
      BY <1>f, <1>g, <2>1, <2>2
    <2>3. ASSUME NEW s, Record(c, s) PROVE \A q \in Run : row'[q].retries \in {0, row[q].retries}
      BY <1>t, <2>3 DEF Record, RowType
    <2>4. CASE CatchFailure(c)
      BY <1>f, <1>g, <1>s, <2>1, <2>4 DEF CatchFailure
    <2>5. QED
      BY <1>3, <1>f, <1>g, <2>1, <2>2, <2>3, <2>4
         DEF Step, ExecuteTransfer, RecordFails, Book, BookFails, Crash
  <1>4. ASSUME NEW c \in Retry, RetryStep(c) PROVE BelowLimit'
    <2>1. CASE RetryRead(c)
      <3>1. /\ pc' = [pc EXCEPT ![c] = "claim"] /\ row' = row /\ target[c] \in Run
            /\ count' = [count EXCEPT ![c] = row[target[c]].retries]
            /\ row[target[c]].retries < MaxRetries
        BY <2>1 DEF RetryRead, Retriable, Goto, Typed, TargetsKnown
      <3>2. QED
        BY <1>t, <3>1, CallKind DEF BelowLimit, RetryCountBounded
    <2>2. CASE RetryClaim(c)
      <3>1. /\ pc[c] = "claim" /\ pc' = [pc EXCEPT ![c] = "post"]
            /\ count' = [count EXCEPT ![c] = 0]
            /\ row' = [row EXCEPT ![target[c]].status = "processing", ![target[c]].ref = c,
                                  ![target[c]].retries = count[c] + 1]
        BY <2>2 DEF RetryClaim, Goto
      <3>2. count[c] + 1 <= MaxRetries
        BY <1>t, <3>1 DEF BelowLimit
      <3>3. \A q \in Run : row'[q].retries \in {row[q].retries, count[c] + 1}
        BY <1>t, <3>1 DEF RowType
      <3>4. RetryCountBounded'
        BY <1>t, <3>2, <3>3 DEF BelowLimit, RetryCountBounded
      <3>5. \A d \in Retry : pc'[d] = "claim" => count'[d] < MaxRetries
        BY <1>t, <3>1, CallKind DEF BelowLimit
      <3>6. QED
        BY <3>4, <3>5 DEF BelowLimit
    <2>3. CASE RetryRefused(c)
      BY <1>f, <1>g, <2>3, CallKind DEF RetryRefused
    <2>4. ASSUME NEW p \in Run, AskRetry(c, p) PROVE BelowLimit'
      BY <1>f, <1>g, <2>4, CallKind DEF AskRetry
    <2>5. QED
      BY <1>4, <2>1, <2>2, <2>3, <2>4 DEF RetryStep
  <1>5. ASSUME NEW d \in Delivery, WebhookStep(d) PROVE BelowLimit'
    <2>1. CASE UNCHANGED <<row, callVars>>
      BY <1>f, <2>1 DEF callVars
    <2>2. ASSUME NEW verdict, NEW s \in {"success", "failed", "reversed"}, Apply(d, verdict, s),
                 UNCHANGED pc \/ \E c \in Retry : Goto(c, "read")
          PROVE  BelowLimit'
      BY <1>f, <1>g, <1>s, <2>2, CallKind DEF Apply
    <2>3. QED
      BY <1>5, <2>1, <2>2
         DEF WebhookStep, WebhookLookUp, WebhookStore, Accept, WebhookConflict, WebhookNothing,
             WebhookSuccessful, WebhookReversed, WebhookFailed, WebhookFailedRetry, WebhookProcessed
  <1>6. ASSUME NEW v \in Poll, PollStep(v) PROVE BelowLimit'
    BY <1>6, <1>f, <1>s DEF PollStep, PollRead, PollReply, PollApply, PollDone, callVars
  <1>7. ASSUME NEW c \in Call, NEW verdict \in Verdict, Settle(c, verdict) PROVE BelowLimit'
    BY <1>7, <1>f DEF Settle, callVars
  <1>8. CASE UNCHANGED vars
    BY <1>8, <1>f DEF vars, callVars
  <1>9. QED
    BY <1>1, <1>2, <1>3, <1>4, <1>5, <1>6, <1>7, <1>8 DEF Next

\* retry_count never passes MAX_RETRIES, although it is read in one step and
\* written in another: a retry that lost a race writes a number that was below.
THEOREM RetriesAreBounded == Spec => []RetryCountBounded
  <1>1. Init => BelowLimit
    BY CountsAssumption, CallKind DEF Init, BelowLimit, RetryCountBounded, NoRow
  <1>2. BelowLimit => RetryCountBounded
    BY DEF BelowLimit
  <1>3. QED
    BY <1>1, <1>2, InitTyped, NextTyped, LimitStep, PTL DEF Spec

-----------------------------------------------------------------------------
\* What rows, handlers and polls say of a transfer.  Whoever names a transfer
\* names one of the row's own, and what has been seen of it has happened, unless
\* only an unfounded event says so.
Paid(c) == bank[c] \in {"successful", "reversed"}

\* Call c has begun, and works for row p.
WorksFor(c, p) == c \in Call /\ PayoutOf(c) = p /\ pc[c] # "idle"

\* Call c has sent nothing yet.
Fresh(c) == pc[c] \in {"idle", "read", "claim", "post"}

HookTraced(h) ==
    /\ h.founded => Happened(h.event)
    /\ h.row # None => WorksFor(h.event[1], h.row.payout)

Backed(p) == p \in misled \/ \E c \in Call : WorksFor(c, p) /\ Paid(c)

Traced ==
    /\ \A p \in Run : row[p].ref # None => WorksFor(row[p].ref, p)
    /\ \A p \in Run : row[p].transferId # None => WorksFor(row[p].transferId, p)
    /\ \A c \in Call : Fresh(c) => bank[c] = "unknown"
    /\ \A d \in Delivery : Live(d) => HookTraced(hook[d])
    /\ \A v \in Poll : poll[v] # None =>
         /\ WorksFor(poll[v].transfer, poll[v].payout)
         /\ poll[v].verdict = "successful" => Paid(poll[v].transfer)
    /\ \A p \in Run : row[p].status = "success" => Backed(p)

\* What was traced stays traced when no call changes its row and no transfer
\* that was paid is unpaid.
LEMMA TracedFrame ==
    ASSUME Typed, Traced, misled \subseteq misled',
           \A c \in Call : \A p : WorksFor(c, p) => WorksFor(c, p)',
           \A c \in Call : Paid(c) => Paid(c)',
           \A e \in Event : Happened(e) => Happened(e)',
           \A p \in Run : row'[p].ref \in {None, row[p].ref} \/ WorksFor(row[p].ref, p)',
           \A p \in Run : row'[p].transferId \in {None, row[p].transferId} \/ WorksFor(row[p].transferId, p)',
           \A c \in Call : Fresh(c)' => bank'[c] = "unknown",
           \A d \in Delivery : Live(d)' =>
                                (Live(d) /\ hook'[d] = hook[d]) \/ HookTraced(hook[d])',
           \A v \in Poll : poll'[v] = poll[v]
                           \/ /\ WorksFor(poll[v].transfer, poll[v].payout)'
                              /\ poll'[v].verdict = "successful" => Paid(poll[v].transfer)',
           \A p \in Run : row'[p].status = "success" => row[p].status = "success" \/ Backed(p)'
    PROVE  Traced'
  <1>1. \A p \in Run : row'[p].ref # None => WorksFor(row[p].ref, p)'
    BY DEF Traced, WorksFor
  <1>2. \A p \in Run : row'[p].transferId # None => WorksFor(row[p].transferId, p)'
    BY DEF Traced, WorksFor
  <1>3. ASSUME NEW d \in Delivery, Live(d)' PROVE HookTraced(hook[d])'
    <2>1. CASE Live(d) /\ hook'[d] = hook[d]
      <3>1. HookTraced(hook[d]) /\ hook[d].event \in Event
        BY <1>3, <2>1, HookTyped DEF Live, Traced
      <3>2. hook[d].row # None => WorksFor(hook[d].event[1], hook[d].row.payout)
        BY <3>1 DEF HookTraced
      <3>3. hook[d].row # None => WorksFor(hook[d].event[1], hook[d].row.payout)'
        BY <2>1, <3>2 DEF WorksFor
      <3>4. (hook[d].founded => Happened(hook[d].event))'
        BY <2>1, <3>1 DEF HookTraced
      <3>5. QED
        BY <3>3, <3>4, <2>1 DEF HookTraced
    <2>2. QED
      BY <1>3, <2>1
  <1>4. ASSUME NEW v \in Poll, poll'[v] # None
        PROVE  /\ WorksFor(poll[v].transfer, poll[v].payout)'
               /\ poll'[v].verdict = "successful" => Paid(poll[v].transfer)'
    <2>1. CASE poll'[v] = poll[v]
      <3>1. /\ WorksFor(poll[v].transfer, poll[v].payout)
            /\ poll[v].verdict = "successful" => Paid(poll[v].transfer)
        BY <1>4, <2>1 DEF Traced
      <3>2. poll[v].transfer \in Call
        BY <3>1 DEF WorksFor
      <3>3. QED
        BY <2>1, <3>1, <3>2
    <2>2. CASE poll'[v] # poll[v]
      BY <2>2
    <2>3. QED
      BY <2>1, <2>2
  <1>5. \A p \in Run : row'[p].status = "success" => Backed(p)'
    BY DEF Traced, Backed
  <1>6. QED
    BY <1>1, <1>2, <1>3, <1>4, <1>5 DEF Traced

\* A call works for its row from the moment it has begun.
LEMMA WorkFrame ==
    ASSUME \A c \in Call : pc[c] # "idle" => pc'[c] # "idle",
           \A c \in Retry : pc[c] # "idle" => target'[c] = target[c]
    PROVE  \A c \in Call : \A p : WorksFor(c, p) => WorksFor(c, p)'
  BY CallKind DEF WorksFor, PayoutOf

\* A step of call c, which has begun, that looks no further than its own row.
LEMMA TracedCall ==
    ASSUME Typed, Traced, NEW c \in Call, UNCHANGED <<place, hook, misled, poll>>,
           pc'[c] # "idle", \A d \in Call \ {c} : pc'[d] = pc[d],
           pc'[c] \in {"read", "claim", "post"} => Fresh(c) /\ bank' = bank,
           \A d \in Retry : pc[d] # "idle" => target'[d] = target[d],
           \A d \in Call : bank'[d] = bank[d] \/ (d = c /\ bank[d] = "unknown"),
           \A p \in Run : row'[p].ref \in {None, row[p].ref} \/ (row'[p].ref = c /\ p = PayoutOf(c)'),
           \A p \in Run : row'[p].transferId \in {None, row[p].transferId}
                          \/ (row'[p].transferId = c /\ p = PayoutOf(c)'),
           \A p \in Run : row'[p].status = "success" =>
                            row[p].status = "success" \/ (p = PayoutOf(c)' /\ Paid(c)')
    PROVE  Traced'
  <1>1. \A d \in Call : \A p : WorksFor(d, p) => WorksFor(d, p)'
    BY WorkFrame
  <1>2. \A p : p = PayoutOf(c)' => WorksFor(c, p)'
    BY DEF WorksFor
  <1>3. \A d \in Call : Paid(d) => Paid(d)'
    BY DEF Paid
  <1>4. \A e \in Event : Happened(e) => Happened(e)'
    BY DEF Happened, Event, Verdict
  <1>5. \A d \in Call : Fresh(d)' => bank'[d] = "unknown"
    BY DEF Traced, Fresh
  <1>6. \A p \in Run : row'[p].ref \in {None, row[p].ref} \/ WorksFor(row[p].ref, p)'
    BY <1>2
  <1>7. \A p \in Run : row'[p].transferId \in {None, row[p].transferId} \/ WorksFor(row[p].transferId, p)'
    BY <1>2
  <1>8. \A p \in Run : row'[p].status = "success" => row[p].status = "success" \/ Backed(p)'
    BY <1>2 DEF Backed
  <1>9. QED
    BY <1>1, <1>3, <1>4, <1>5, <1>6, <1>7, <1>8, TracedFrame DEF Live

\* A run has not begun before its job has come to it.
Unstarted == \A p \in Run : p[2] > runs[p[1]] => pc[p] = "idle"

LEMMA UnstartedStep == Typed /\ Unstarted /\ [Next]_vars => Unstarted'
  <1> SUFFICES ASSUME Typed, Unstarted, [Next]_vars PROVE Unstarted'
    OBVIOUS
  <1>t. /\ pc \in [Call -> CallState] /\ runs \in [Withdrawal -> 0..MaxAttempts + MaxStalls]
    BY DEF Typed, TypeOK
  <1>f. ASSUME runs' = runs, \A p \in Run : pc'[p] = pc[p] \/ pc[p] # "idle" PROVE Unstarted'
    BY <1>f DEF Unstarted
  <1>1. ASSUME NEW w \in Withdrawal, Enqueue(w) \/ JobRefused(w) PROVE Unstarted'
    BY <1>1, <1>f DEF Enqueue, JobRefused, callVars
  <1>2. ASSUME NEW w \in Withdrawal, JobStart(w) PROVE Unstarted'
    <2>1. /\ runs' = [runs EXCEPT ![w] = @ + 1] /\ Goto(<<w, runs[w] + 1>>, "post")
      BY <1>2 DEF JobStart
    <2>2. ASSUME NEW p \in Run, p[2] > runs'[p[1]] PROVE pc'[p] = "idle"
      <3>1. p # <<w, runs[w] + 1>> /\ p[2] > runs[p[1]]
        BY <1>t, <2>1, <2>2, RunPair, CountsAssumption
      <3>2. QED
        BY <1>t, <2>1, <3>1, CallKind DEF Unstarted, Goto
    <2>3. QED
      BY <2>2 DEF Unstarted
  <1>3. ASSUME NEW c \in Call, Step(c) \/ Crash(c) PROVE Unstarted'
    <2>1. runs' = runs /\ pc[c] # "idle" /\ \E label : Goto(c, label)
      BY <1>3 DEF Step, ExecuteTransfer, Record, RecordFails, Book, BookFails, CatchFailure, Crash,
         InFlight, jobVars
    <2>2. QED
      BY <1>f, <1>t, <2>1, CallKind DEF Goto
  <1>4. ASSUME NEW c \in Retry, RetryStep(c) PROVE Unstarted'
    <2>1. runs' = runs /\ \E label : Goto(c, label)
      BY <1>4 DEF RetryStep, AskRetry, RetryRead, RetryRefused, RetryClaim, jobVars
    <2>2. QED
      BY <1>f, <1>t, <2>1, CallKind DEF Goto
  <1>5. ASSUME NEW d \in Delivery, WebhookStep(d) PROVE Unstarted'
    <2>1. runs' = runs /\ (pc' = pc \/ \E c \in Retry : Goto(c, "read"))
      BY <1>5 DEF WebhookStep, WebhookLookUp, WebhookStore, Accept, WebhookConflict, WebhookNothing,
         WebhookSuccessful, WebhookReversed, WebhookFailed, WebhookFailedRetry, Apply,
         WebhookProcessed, jobVars, callVars
    <2>2. QED
      BY <1>f, <1>t, <2>1, CallKind DEF Goto
  <1>6. ASSUME NEW v \in Poll, PollStep(v) PROVE Unstarted'
    BY <1>6, <1>f DEF PollStep, PollRead, PollReply, PollApply, PollDone, jobVars, callVars
  <1>7. ASSUME NEW c \in Call, NEW verdict \in Verdict, Settle(c, verdict) PROVE Unstarted'
    BY <1>7, <1>f DEF Settle, jobVars, callVars
  <1>8. CASE UNCHANGED vars
    BY <1>8, <1>f DEF vars, jobVars, callVars
  <1>9. QED
    BY <1>1, <1>2, <1>3, <1>4, <1>5, <1>6, <1>7, <1>8 DEF Next

LEMMA TracedStep == Typed /\ Unstarted /\ Traced /\ [Next]_vars => Traced'
  <1> SUFFICES ASSUME Typed, Unstarted, Traced, [Next]_vars PROVE Traced'
    OBVIOUS
  <1>t. /\ row \in [Run -> RowType] /\ pc \in [Call -> CallState]
        /\ bank \in [Call -> {"unknown", "pending"} \cup Verdict]
        /\ target \in [Retry -> Run \cup {None}]
        /\ poll \in [Poll -> PollType \cup {None}]
    BY DEF Typed, TypeOK
  <1>g. \A c \in Call : \A label : Goto(c, label) => pc'[c] = label /\ \A d \in Call \ {c} : pc'[d] = pc[d]
    BY <1>t DEF Goto
  \* A step of nobody's: rows keep the transfers they name.
  <1>f. ASSUME UNCHANGED <<pc, target, bank>>, misled \subseteq misled',
               \A p \in Run : row'[p].ref = row[p].ref /\ row'[p].transferId = row[p].transferId,
               \A p \in Run : row'[p].status = "success" =>
                                row[p].status = "success" \/ p \in misled' \/ Backed(p),
               \A d \in Delivery : Live(d)' =>
                                (Live(d) /\ hook'[d] = hook[d]) \/ HookTraced(hook[d])',
               \A v \in Poll : poll'[v] = poll[v]
                               \/ /\ WorksFor(poll[v].transfer, poll[v].payout)'
                                  /\ (poll[v].verdict = "successful" => Paid(poll[v].transfer))'
        PROVE  Traced'
    <2>1. \A c \in Call : \A p : WorksFor(c, p) => WorksFor(c, p)'
      BY <1>f, WorkFrame
    <2>2. \A c \in Call : Paid(c) => Paid(c)'
      BY <1>f DEF Paid
    <2>3. \A e \in Event : Happened(e) => Happened(e)'
      BY <1>f DEF Happened
    <2>4. \A c \in Call : Fresh(c)' => bank'[c] = "unknown"
      BY <1>f DEF Traced, Fresh
    <2>5. \A p \in Run : row'[p].status = "success" => row[p].status = "success" \/ Backed(p)'
      BY <1>f, <2>1, <2>2 DEF Backed
    <2>6. QED
      BY <1>f, <2>1, <2>2, <2>3, <2>4, <2>5, TracedFrame
  <1>1. ASSUME NEW w \in Withdrawal, Enqueue(w) \/ JobRefused(w) PROVE Traced'
    <2>1. UNCHANGED <<row, pc, target, bank, place, hook, misled, poll>>
      BY <1>1 DEF Enqueue, JobRefused, callVars, hookVars, eventVars
    <2>2. QED
      BY <1>f, <2>1 DEF Live
  <1>2. ASSUME NEW w \in Withdrawal, JobStart(w) PROVE Traced'
    <2>1. PICK p \in Run :
            /\ p = <<w, runs[w] + 1>> /\ UNCHANGED <<target, bank, place, hook, misled, poll>>
            /\ row' = [row EXCEPT ![p] = [NoRow EXCEPT !.status = "processing", !.ref = p]]
            /\ Goto(p, "post")
      BY <1>2, JobStartStep DEF JobStart, hookVars, eventVars
    <2>2. \A q \in Run : row'[q] = IF q = p THEN [NoRow EXCEPT !.status = "processing", !.ref = p] ELSE row[q]
      BY <1>t, <2>1
    <2>3. \A q \in Run : IF q = p THEN /\ row'[q].ref = p /\ row'[q].transferId = None
                                       /\ row'[q].status = "processing"
                                  ELSE row'[q] = row[q]
      BY <2>2 DEF NoRow
    <2>4. PayoutOf(p)' = p /\ p \in Call
      BY <2>1, CallKind DEF PayoutOf
    <2>5. Fresh(p)
      <3>1. runs[w] \in Nat
        BY <1>t, CountsAssumption DEF Typed, TypeOK
      <3>2. QED
        BY <2>1, <3>1 DEF Unstarted, Fresh
    <2>6. QED
      BY <1>g, <2>1, <2>3, <2>4, <2>5, TracedCall
  <1>3. ASSUME NEW c \in Call, Step(c) \/ Crash(c) PROVE Traced'
    <2>1. ASSUME NEW outcome \in Outcome, ExecuteTransfer(c, outcome) PROVE Traced'
      <3>1. PICK label \in {"record", "broken"} : Goto(c, label)
        BY <2>1 DEF ExecuteTransfer
      <3>2. /\ UNCHANGED <<row, target, place, hook, misled, poll>>
            /\ bank' \in {bank, [bank EXCEPT ![c] = "pending"]} /\ pc[c] = "post"
        BY <2>1 DEF ExecuteTransfer, hookVars, eventVars
      <3>3. bank[c] = "unknown"
        BY <3>2 DEF Traced, Fresh
      <3>4. QED
        BY <1>g, <1>t, <3>1, <3>2, <3>3, TracedCall DEF Fresh
    <2>2. ASSUME NEW s \in {"pending", "successful"}, Record(c, s) PROVE Traced'
      <3> DEFINE p == PayoutOf(c)
                 r == [row[p] EXCEPT !.transferId = c,
                         !.status = IF s = "successful" THEN "success" ELSE "processing"]
      <3>1. /\ row' = [row EXCEPT ![p] = r] /\ UNCHANGED <<target, bank, place, hook, misled, poll>>
            /\ s = "successful" => Paid(c)
        BY <2>2 DEF Record, hookVars, eventVars, Paid
      <3>2. PICK label \in {"book", "done"} : Goto(c, label)
        BY <2>2 DEF Record
      <3>3. p \in Run => /\ r.ref = row[p].ref /\ r.transferId = c
                         /\ r.status = "success" => s = "successful"
        BY <1>t DEF RowType
      <3> HIDE DEF r
      <3>4. PayoutOf(c)' = p /\ Paid(c)' = Paid(c)
        BY <3>1 DEF PayoutOf, Paid
      <3> HIDE DEF p
      <3>5. \A q \in Run : row'[q] = IF q = p THEN r ELSE row[q]
        BY <1>t, <3>1
      <3>6. QED
        BY <1>g, <3>1, <3>2, <3>3, <3>4, <3>5, TracedCall
    <2>3. CASE CatchFailure(c)
      <3>1. SetStatus(PayoutOf(c), "failed") /\ Goto(c, "done") /\ UNCHANGED <<target, bank, place, hook, misled, poll>>
        BY <2>3 DEF CatchFailure, hookVars, eventVars
      <3>2. \A q \in Run : /\ row'[q].ref = row[q].ref /\ row'[q].transferId = row[q].transferId
                           /\ row'[q].status \in {"failed", row[q].status}
        BY <3>1, StatusSet
      <3>3. QED
        BY <1>g, <3>1, <3>2, TracedCall
    <2>4. CASE RecordFails(c) \/ Crash(c) \/ Book(c) \/ \E deducted \in BOOLEAN : BookFails(c, deducted)
      <3>1. /\ UNCHANGED <<row, target, bank, place, hook, misled, poll>>
            /\ \E label \in {"broken", "crashed", "done"} : Goto(c, label)
        BY <2>4 DEF RecordFails, Crash, Book, BookFails, hookVars, eventVars
      <3>2. QED
        BY <1>g, <3>1, TracedCall
    <2>5. QED
      BY <1>3, <2>1, <2>2, <2>3, <2>4 DEF Step
  <1>4. ASSUME NEW c \in Retry, RetryStep(c) PROVE Traced'
    <2>c. c \in Call /\ c \notin Run
      BY CallKind
    <2>1. ASSUME NEW p \in Run, AskRetry(c, p) PROVE Traced'
      <3>1. /\ pc[c] = "idle" /\ target' = [target EXCEPT ![c] = p] /\ Goto(c, "read")
            /\ UNCHANGED <<row, bank, place, hook, misled, poll>>
        BY <2>1 DEF AskRetry, hookVars, eventVars
      <3>2. \A d \in Retry : pc[d] # "idle" => target'[d] = target[d]
        BY <1>t, <3>1
      <3>3. QED
        BY <1>g, <2>c, <3>1, <3>2, TracedCall DEF Fresh
    <2>2. CASE RetryRead(c) \/ RetryRefused(c)
      <3>1. /\ UNCHANGED <<row, target, bank, place, hook, misled, poll>>
            /\ \E label \in {"claim", "done"} : Goto(c, label)
            /\ Fresh(c)
        BY <2>2 DEF RetryRead, RetryRefused, hookVars, eventVars, Fresh
      <3>2. QED
        BY <1>g, <2>c, <3>1, TracedCall
    <2>3. CASE RetryClaim(c)
      <3>1. /\ row' = [row EXCEPT ![target[c]].status = "processing", ![target[c]].ref = c,
                                  ![target[c]].retries = count[c] + 1]
            /\ Goto(c, "post") /\ UNCHANGED <<target, bank, place, hook, misled, poll>> /\ Fresh(c)
        BY <2>3 DEF RetryClaim, hookVars, eventVars, Fresh
      <3>2. \A q \in Run : IF q = target[c]
                           THEN /\ row'[q].ref = c /\ row'[q].transferId = row[q].transferId
                                /\ row'[q].status = "processing"
                           ELSE row'[q] = row[q]
        BY <1>t, <3>1 DEF RowType
      <3>3. PayoutOf(c)' = target[c]
        BY <2>c, <3>1 DEF PayoutOf
      <3>4. /\ \A q \in Run : row'[q].ref = row[q].ref \/ (row'[q].ref = c /\ q = PayoutOf(c)')
            /\ \A q \in Run : row'[q].transferId = row[q].transferId
            /\ \A q \in Run : row'[q].status = "success" => row[q].status = "success"
        BY <3>2, <3>3
      <3>5. /\ pc'[c] = "post" /\ \A d \in Call \ {c} : pc'[d] = pc[d]
        BY <1>g, <2>c, <3>1
      <3>6. QED
        BY <2>c, <3>1, <3>4, <3>5, TracedCall
    <2>4. QED
      BY <1>4, <2>1, <2>2, <2>3 DEF RetryStep
  <1>9. CASE UNCHANGED vars
    <2>1. UNCHANGED <<row, pc, target, bank, place, hook, misled, poll>>
      BY <1>9 DEF vars, callVars, hookVars, eventVars
    <2>2. QED
      BY <1>f, <2>1 DEF Live
  <1>5. ASSUME NEW d \in Delivery, WebhookStep(d) PROVE Traced'
    <2> DEFINE e == hook[d].event
    <2>h. \A c \in Delivery : Live(c) => HookTraced(hook[c])
      BY DEF Traced
    \* A delivery that moves on by itself.
    <2>f. ASSUME UNCHANGED <<row, pc, target, bank, misled, poll>>,
                 NEW h, hook' = [hook EXCEPT ![d] = h], Live(d)' => HookTraced(h),
                 \A c \in Delivery \ {d} : place'[c] = place[c]
          PROVE  Traced'
      <3>1. /\ hook'[d] = h
            /\ \A c \in Delivery \ {d} : hook'[c] = hook[c] /\ (Live(c)' => Live(c))
        BY <2>f, HookTyped DEF Live
      <3>2. HookTraced(h) => HookTraced(hook[d])'
        BY <2>f, <3>1 DEF HookTraced, Happened, WorksFor, PayoutOf
      <3>3. QED
        BY <1>f, <2>f, <3>1, <3>2
    <2>1. ASSUME NEW f \in Event, WebhookLookUp(d, f) PROVE Traced'
      <3> DEFINE h == [event |-> f, founded |-> Happened(f), row |-> None]
      <3>1. HookTraced(h)
        BY DEF HookTraced
      <3> HIDE DEF h
      <3>2. /\ hook' = [hook EXCEPT ![d] = h] /\ UNCHANGED <<row, pc, target, bank, misled, poll>>
            /\ \A c \in Delivery \ {d} : place'[c] = place[c]
        BY <2>1, HookTyped DEF WebhookLookUp, callVars, h
      <3>3. QED
        BY <2>f, <3>1, <3>2
    <2>2. CASE WebhookStore(d)
      <3> DEFINE h == [hook[d] EXCEPT !.row = Reading(e)]
      <3>t. Live(d) /\ hook[d] \in HookType /\ e \in Event
        BY <2>2, HookTyped DEF Live, WebhookStore, Accept
      <3>1. /\ e[1] \in Call
            /\ hook' = [hook EXCEPT ![d] = h] /\ UNCHANGED <<row, pc, target, bank, misled, poll>>
            /\ \A c \in Delivery \ {d} : place'[c] = place[c]
        BY <2>2, <3>t, HookTyped DEF WebhookStore, Accept, callVars, Event
      <3>2. h.founded = hook[d].founded /\ h.event = e /\ h.row = Reading(e)
        BY <3>t DEF HookType
      <3>3. \A p \in Found(e[1]) : WorksFor(e[1], p)
        BY <3>1, CallKind DEF Found, Traced
      <3>4. Reading(e) # None => WorksFor(e[1], Reading(e).payout)
        BY <3>3 DEF Reading
      <3>5. HookTraced(h)
        BY <2>h, <3>t, <3>2, <3>4 DEF HookTraced
      <3> HIDE DEF h
      <3>6. QED
        BY <2>f, <3>1, <3>5
    <2>3. CASE WebhookConflict(d) \/ WebhookProcessed(d)
      <3>1. /\ hook' = [hook EXCEPT ![d] = None] /\ UNCHANGED <<row, pc, target, bank, misled, poll>>
            /\ place' = [place EXCEPT ![d] = "done"]
        BY <2>3 DEF WebhookConflict, WebhookProcessed, callVars
      <3>2. ~Live(d)' /\ \A c \in Delivery \ {d} : place'[c] = place[c]
        BY <3>1, HookTyped DEF Live
      <3>3. QED
        BY <2>f, <3>1, <3>2
    <2>4. CASE WebhookNothing(d)
      <3>1. /\ UNCHANGED <<row, pc, target, bank, hook, misled, poll>>
            /\ \A c \in Delivery : Live(c)' => Live(c)
        BY <2>4, HookTyped DEF WebhookNothing, callVars, Live
      <3>2. QED
        BY <1>f, <3>1
    <2>5. ASSUME NEW verdict \in Verdict, NEW s \in {"success", "failed", "reversed"},
                 Apply(d, verdict, s), misled \subseteq misled',
                 s = "success" => /\ verdict = "successful"
                                  /\ ~hook[d].founded => hook[d].row.payout \in misled'
          PROVE  /\ \A p \in Run : row'[p].ref = row[p].ref /\ row'[p].transferId = row[p].transferId
                 /\ \A p \in Run : row'[p].status = "success" =>
                      row[p].status = "success" \/ p \in misled' \/ Backed(p)
                 /\ UNCHANGED <<bank, hook, poll>> /\ \A c \in Delivery : Live(c)' => Live(c)
      <3>1. /\ SetStatus(hook[d].row.payout, s) /\ Live(d) /\ hook[d].row # None
            /\ e[2] = verdict /\ e \in Event /\ UNCHANGED <<bank, hook, poll>>
        BY <2>5, HookTyped DEF Live, Apply
      <3>e. e[1] \in Call
        BY <3>1 DEF Event
      <3>p. \A c \in Delivery : Live(c)' => Live(c)
        BY <2>5, HookTyped DEF Live, Apply
      <3>2. \A q \in Run : /\ row'[q].ref = row[q].ref /\ row'[q].transferId = row[q].transferId
                           /\ row'[q].status = IF q = hook[d].row.payout THEN s ELSE row[q].status
        BY <3>1, StatusSet
      <3>3. WorksFor(e[1], hook[d].row.payout) /\ (hook[d].founded => Happened(e))
        BY <2>h, <3>1 DEF HookTraced
      <3>4. s = "success" /\ hook[d].founded => Paid(e[1])
        BY <2>5, <3>1, <3>3 DEF Happened, Paid
      <3>5. s = "success" => hook[d].row.payout \in misled' \/ Backed(hook[d].row.payout)
        BY <2>5, <3>e, <3>3, <3>4 DEF Backed
      <3>6. QED
        BY <3>1, <3>2, <3>5, <3>p
    <2>6. ASSUME NEW verdict \in Verdict, NEW s \in {"success", "failed", "reversed"},
                 Apply(d, verdict, s), misled \subseteq misled', UNCHANGED <<pc, target>>,
                 s = "success" => /\ verdict = "successful"
                                  /\ ~hook[d].founded => hook[d].row.payout \in misled'
          PROVE  Traced'
      BY <1>f, <2>5, <2>6
    <2>7. CASE WebhookSuccessful(d)
      <3>1. /\ Apply(d, "successful", "success") /\ UNCHANGED <<pc, target>>
            /\ misled' = IF hook[d].founded THEN misled ELSE misled \cup {hook[d].row.payout}
        BY <2>7 DEF WebhookSuccessful
      <3>2. "successful" \in Verdict
        BY DEF Verdict
      <3>3. misled \subseteq misled' /\ (~hook[d].founded => hook[d].row.payout \in misled')
        BY <3>1
      <3>4. QED
        BY <2>6, <3>1, <3>2, <3>3
    <2>8. CASE WebhookReversed(d) \/ WebhookFailed(d)
      BY <2>6, <2>8 DEF WebhookReversed, WebhookFailed, Verdict
    <2>9. ASSUME NEW c \in Retry, WebhookFailedRetry(d, c) PROVE Traced'
      <3>1. /\ Apply(d, "failed", "failed") /\ pc[c] = "idle" /\ Goto(c, "read")
            /\ target' = [target EXCEPT ![c] = hook[d].row.payout] /\ misled' = misled
        BY <2>9 DEF WebhookFailedRetry
      <3>2. /\ \A p \in Run : row'[p].ref = row[p].ref /\ row'[p].transferId = row[p].transferId
            /\ \A p \in Run : row'[p].status = "success" => row[p].status = "success" \/ Backed(p)
            /\ UNCHANGED <<bank, hook, poll>> /\ \A b \in Delivery : Live(b)' => Live(b)
        BY <2>5, <3>1 DEF Verdict, Backed
      <3>3. \A b \in Retry : pc[b] # "idle" => target'[b] = target[b]
        BY <1>t, <3>1
      <3>4. \A b \in Call : pc'[b] = IF b = c THEN "read" ELSE pc[b]
        BY <1>g, <3>1, CallKind
      <3>5. \A b \in Call : \A p : WorksFor(b, p) => WorksFor(b, p)'
        BY <3>3, <3>4, WorkFrame
      <3>6. \A b \in Call : Fresh(b)' => bank'[b] = "unknown"
        BY <3>1, <3>2, <3>4 DEF Traced, Fresh
      <3>7. /\ \A b \in Call : Paid(b) => Paid(b)'
            /\ \A f \in Event : Happened(f) => Happened(f)'
        BY <3>2 DEF Paid, Happened
      <3>8. \A p \in Run : row'[p].status = "success" => row[p].status = "success" \/ Backed(p)'
        BY <3>1, <3>2, <3>5, <3>7 DEF Backed
      <3>9. QED
        BY <3>1, <3>2, <3>5, <3>6, <3>7, <3>8, TracedFrame
    <2>10. QED
      BY <1>5, <2>1, <2>2, <2>3, <2>4, <2>7, <2>8, <2>9 DEF WebhookStep
  <1>6. ASSUME NEW v \in Poll, PollStep(v) PROVE Traced'
    <2>k. ASSUME poll[v] # None
          PROVE  /\ poll[v] \in PollType /\ poll[v].transfer \in Call
                 /\ WorksFor(poll[v].transfer, poll[v].payout)
                 /\ poll[v].verdict = "successful" => Paid(poll[v].transfer)
      BY <1>t, <2>k DEF Traced, PollType
    <2>1. ASSUME NEW p \in Run, PollRead(v, p) PROVE Traced'
      <3> DEFINE r == [payout |-> p, status |-> row[p].status,
                       transfer |-> row[p].transferId, verdict |-> "none"]
      <3>1. /\ row[p].transferId # None /\ poll' = [poll EXCEPT ![v] = r]
            /\ UNCHANGED <<row, pc, target, bank, place, hook, misled>>
        BY <2>1 DEF PollRead, callVars, hookVars, eventVars
      <3>2. r.payout = p /\ r.transfer = row[p].transferId /\ r.verdict = "none"
        OBVIOUS
      <3> HIDE DEF r
      <3>3. poll'[v] = r /\ \A u \in Poll \ {v} : poll'[u] = poll[u]
        BY <1>t, <3>1
      <3>4. WorksFor(poll[v].transfer, poll[v].payout)'
        BY <3>1, <3>2, <3>3 DEF Traced, WorksFor, PayoutOf
      <3>5. poll'[v].verdict # "successful"
        BY <3>2, <3>3
      <3>6. QED
        BY <1>f, <3>1, <3>3, <3>4, <3>5 DEF Live
    <2>v. ASSUME NEW verdict, poll[v] # None, poll' = [poll EXCEPT ![v].verdict = verdict],
                 UNCHANGED <<pc, target, bank>>, verdict = "successful" => Paid(poll[v].transfer)
          PROVE  \A u \in Poll : poll'[u] = poll[u]
                    \/ /\ WorksFor(poll[u].transfer, poll[u].payout)'
                       /\ (poll[u].verdict = "successful" => Paid(poll[u].transfer))'
      <3>1. /\ poll'[v].transfer = poll[v].transfer /\ poll'[v].payout = poll[v].payout
            /\ poll'[v].verdict = verdict
        BY <1>t, <2>k, <2>v DEF PollType
      <3>2. \A u \in Poll \ {v} : poll'[u] = poll[u]
        BY <1>t, <2>v
      <3>3. WorksFor(poll[v].transfer, poll[v].payout)'
        BY <2>k, <2>v, <3>1 DEF WorksFor, PayoutOf
      <3>4. (poll[v].verdict = "successful" => Paid(poll[v].transfer))'
        BY <2>v, <3>1 DEF Paid
      <3>5. QED
        BY <3>2, <3>3, <3>4
    <2>2. CASE PollReply(v)
      <3>1. /\ poll[v] # None /\ poll' = [poll EXCEPT ![v].verdict = bank[poll[v].transfer]]
            /\ UNCHANGED <<row, pc, target, bank, place, hook, misled>>
        BY <2>2 DEF PollReply, callVars, hookVars, eventVars
      <3>2. bank[poll[v].transfer] = "successful" => Paid(poll[v].transfer)
        BY DEF Paid
      <3>3. QED
        BY <1>f, <2>v, <3>1, <3>2 DEF Live
    <2>3. CASE PollApply(v)
      <3>1. /\ poll[v] # None /\ poll' = [poll EXCEPT ![v].verdict = "pending"]
            /\ UNCHANGED <<pc, target, bank, place, hook, misled>>
        BY <2>3 DEF PollApply, PollDone, callVars, hookVars, eventVars
      <3>2. PICK s \in {"success", "failed"} :
              /\ SetStatus(poll[v].payout, s)
              /\ s = "success" => poll[v].verdict = "successful"
        BY <2>3 DEF PollApply
      <3>3. \A q \in Run : /\ row'[q].ref = row[q].ref /\ row'[q].transferId = row[q].transferId
                           /\ row'[q].status = IF q = poll[v].payout THEN s ELSE row[q].status
        BY <3>2, StatusSet
      <3>4. s = "success" => WorksFor(poll[v].transfer, poll[v].payout) /\ Paid(poll[v].transfer)
        BY <2>k, <3>1, <3>2
      <3>5. \A q \in Run : row'[q].status = "success" => row[q].status = "success" \/ Backed(q)
        BY <2>k, <3>1, <3>3, <3>4 DEF Backed
      <3>6. \A u \in Poll : poll'[u] = poll[u]
               \/ /\ WorksFor(poll[u].transfer, poll[u].payout)'
                  /\ (poll[u].verdict = "successful" => Paid(poll[u].transfer))'
        <4>1. "pending" # "successful"
          OBVIOUS
        <4>2. QED
          BY <2>v, <3>1, <4>1
      <3>7. /\ UNCHANGED <<pc, target, bank, place, hook, misled>>
            /\ \A p \in Run : row'[p].ref = row[p].ref /\ row'[p].transferId = row[p].transferId
        BY <3>1, <3>3
      <3>8. QED
        BY <1>f, <3>5, <3>6, <3>7 DEF Live
    <2>4. QED
      BY <1>6, <2>1, <2>2, <2>3 DEF PollStep
  <1>7. ASSUME NEW c \in Call, NEW verdict \in Verdict, Settle(c, verdict) PROVE Traced'
    <2>1. /\ UNCHANGED <<row, pc, target, place, hook, misled, poll>> /\ bank' = [bank EXCEPT ![c] = verdict]
          /\ \/ bank[c] = "pending"
             \/ bank[c] = "successful" /\ verdict = "reversed"
      BY <1>7 DEF Settle, callVars, hookVars, eventVars
    <2>2. \A d \in Call : bank'[d] = IF d = c THEN verdict ELSE bank[d]
      BY <1>t, <2>1
    <2>3. \A d \in Call : Paid(d) => Paid(d)'
      BY <2>1, <2>2 DEF Paid
    <2>4. \A e \in Event : Happened(e) => Happened(e)'
      BY <2>1, <2>2 DEF Happened, Event, Verdict
    <2>5. \A d \in Call : Fresh(d)' => bank'[d] = "unknown"
      BY <2>1, <2>2 DEF Traced, Fresh
    <2>6. \A d \in Call : \A p : WorksFor(d, p) => WorksFor(d, p)'
      BY <2>1, WorkFrame
    <2>7. QED
      BY <2>1, <2>3, <2>4, <2>5, <2>6, TracedFrame DEF Live
  <1>10. QED
    BY <1>1, <1>2, <1>3, <1>4, <1>5, <1>6, <1>7, <1>9 DEF Next

\* A payout that says SUCCESS reached the bank account by one of its own
\* transfers, however replies, webhooks, polls and retries overtake each other,
\* unless an event said so that had not happened when it came in.
THEOREM SuccessesWerePaid == Spec => []SuccessWasPaid
  <1>1. Init => Unstarted /\ Traced
    <2> SUFFICES ASSUME Init PROVE Unstarted /\ Traced
      OBVIOUS
    <2>1. \A p \in Run : row[p] = NoRow /\ pc[p] = "idle"
      BY CallKind DEF Init
    <2>2. QED
      BY <2>1 DEF Live, Init, Unstarted, Traced, Fresh, NoRow
  <1>2. Traced => SuccessWasPaid
    <2>1. ASSUME Traced, NEW p \in Run, row[p].status = "success", p \notin misled
          PROVE  \E c \in Transfers(p) : bank[c] \in {"successful", "reversed"}
      <3>1. PICK c \in Call : WorksFor(c, p) /\ Paid(c)
        BY <2>1 DEF Traced, Backed
      <3>2. c \in Transfers(p) /\ bank[c] \in {"successful", "reversed"}
        BY <3>1 DEF WorksFor, Paid, Transfers
      <3>3. QED
        BY <3>2
    <2>2. QED
      BY <2>1 DEF SuccessWasPaid
  <1>3. QED
    BY <1>1, <1>2, InitTyped, NextTyped, UnstartedStep, TracedStep, PTL DEF Spec
=============================================================================

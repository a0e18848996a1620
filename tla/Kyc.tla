--------------------------------- MODULE Kyc ---------------------------------
(***************************************************************************)
(* Identity checks: KycService and what it takes from Smile Identity.      *)
(* A user proves a BVN, then a NIN with a selfie; Smile reports each job   *)
(* in its reply and again in a callback; an administrator may overrule.    *)
(* Each of these reads the user's row and a row of kyc_records, waits, and *)
(* writes both one after the other, without a transaction.                 *)
(***************************************************************************)
EXTENDS Integers, Sequences, SequencesExt

CONSTANTS User,
          Call,        \* calls of the service, each used once; a Smile job is named after its call
          Bvn, Nin,    \* numbers, as their hashes
          Answer,      \* the names that Smile may return for a BVN: FirstName, LastName and
                       \* FullName, each a sequence of words, <<>> where it is missing
          Earlier,     \* a job from before the first state
          MaxUnderway, \* bounds the calls under way at once
          None         \* no name, number or job

\* The words of an answer, and no answer.
WordsOf(a) == Range(a.first) \cup Range(a.last) \cup Range(a.full)
Silence == [first |-> <<>>, last |-> <<>>, full |-> <<>>]

\* The words of a name; a user's own name before any check is the user's.
Word == (UNION {WordsOf(a) : a \in Answer}) \cup User
PersonName == [first : Seq(Word), last : Seq(Word), full : Seq(Word)]

ASSUME AnswerAssumption == Answer \subseteq PersonName
ASSUME EarlierAssumption == Earlier \notin Call /\ None \notin Call \cup {Earlier}
ASSUME UnderwayAssumption == MaxUnderway \in Nat

VARIABLES status,       \* users.kyc_status
          name,         \* users.first_name and last_name
          verifiedName, \* users.verified_name, or None
          records,      \* kyc_records, in the order of created_at
          job,          \* what Smile found out, and will call back with
          what, pc,     \* what a call does, and where it is
          at,           \* the record it works on, 0 if there was none
          copy,         \* that record and the user's name as they were read
          met,          \* history: pairs of calls that overlapped
          overruled     \* history: records that were rejected since their BVN was proven

userVars == <<status, name, verifiedName>>
vars == <<status, name, verifiedName, records, job, what, pc, at, copy, met, overruled>>

-----------------------------------------------------------------------------
Status == {"pending", "submitted", "verified", "rejected"}
Job == Call \cup {Earlier}

Own(u) == [first |-> <<u>>, last |-> <<u>>]

\* What a job finds, or a callback says it found: the number is not in order, the face is
\* not that of the number or not a live one, or all is well. A BVN job looks at no face.
Outcome == {"noId", "noFace", "passed"}
IdVerified(j) == j.outcome # "noId"
Passed(j) == j.kind = "face" /\ j.outcome = "passed"

Joined(n) == n.first \o n.last

\* parseVerificationResult: a full name without a first is cut to its first and last word;
\* names given apart stay as they are, and make a full name only if both are there.
Parsed(a) ==
    IF a.full # <<>> /\ a.first = <<>>
    THEN [first |-> <<Head(a.full)>>, last |-> <<Last(a.full)>>, full |-> a.full]
    ELSE [a EXCEPT !.full = IF a.full = <<>> /\ a.first # <<>> /\ a.last # <<>>
                            THEN Joined(a) ELSE a.full]

\* Mutant: a full name that is missing is stored as null.
ExtractNameRaw(p) == [p EXCEPT !.full = IF p.full = <<>> THEN None ELSE p.full]

\* extractVerifiedName: names given apart win, one of them alone too, and a middle name is
\* lost with the full name.
ExtractName(p) ==
    IF p.first # <<>> \/ p.last # <<>> THEN [p EXCEPT !.full = Joined(p)]
    ELSE IF p.full = <<>> THEN p
    ELSE [first |-> <<Head(p.full)>>, last |-> Tail(p.full), full |-> p.full]

\* Mutant: the name is put together from the profile.
ResolveNameFromProfile(meta, own) ==
    [first |-> own.first, last |-> own.last, full |-> Joined(own)]

\* resolveVerifiedName: what the BVN gave, else, each for itself, what the profile has.
ResolveName(meta, own) ==
    LET n == [first |-> IF meta.first # <<>> THEN meta.first ELSE own.first,
              last |-> IF meta.last # <<>> THEN meta.last ELSE own.last]
    IN  [first |-> n.first, last |-> n.last,
         full |-> IF meta.full # <<>> THEN meta.full ELSE Joined(n)]

Name == [first : Seq(Word), last : Seq(Word)]
Record == [user : User, bvn : Bvn, status : Status, ref : Job, bvnJob : Job,
           meta : PersonName, nin : Nin \cup {None}, ninJob : Job \cup {None}]
Result == [kind : {"bvn", "face"}, user : User, number : Bvn \cup Nin, outcome : Outcome,
           answer : Answer \cup {Silence}]

\* What a call was asked to do, and what it has read for it. A callback that claims a
\* success its job does not have is told apart from the others: "unfounded".
Request == [kind : {"bvn", "face", "webhook", "unfounded", "verified", "rejected"},
            user : User, number : Bvn \cup Nin \cup {None}]
Copy == [record : Record, own : Name]

ASSUME NoneAssumption ==
    None \notin Seq(Word) \cup Bvn \cup Nin \cup Result \cup Request

\* findOne by user, newest first; 0 if there is none.
Latest(u) ==
    LET mine == {i \in 1..Len(records) : records[i].user = u}
    IN  IF mine = {} THEN 0 ELSE CHOOSE i \in mine : \A j \in mine : j <= i

Idle == "idle"
Finished == {"done", "failed"}
Place == {Idle, "ask", "find", "save", "apply", "mark", "rejectRecord", "rejectUser",
          "decide", "decideUser"} \cup Finished

Underway(c) == pc[c] \notin {Idle} \cup Finished

Goto(c, place) == pc' = [pc EXCEPT ![c] = place]

Begin(c, w, i, place) ==
    /\ pc[c] = Idle
    /\ Cardinality({d \in Call : Underway(d)}) < MaxUnderway
    /\ what' = [what EXCEPT ![c] = w]
    /\ at' = [at EXCEPT ![c] = i]
    /\ copy' = [copy EXCEPT ![c] = IF i = 0 THEN None
                                   ELSE [record |-> records[i], own |-> name[records[i].user]]]
    /\ met' = met \cup {{c, d} : d \in {d \in Call : Underway(d)}}
    /\ Goto(c, place)
    /\ UNCHANGED <<userVars, records, job, overruled>>

SetUser(c, u, s, place) ==
    /\ status' = [status EXCEPT ![u] = s]
    /\ Goto(c, place)
    /\ UNCHANGED <<name, verifiedName, records, job, what, at, copy, met, overruled>>

SetRecord(c, i, r, place) ==
    /\ records' = [records EXCEPT ![i] = r]
    /\ Goto(c, place)
    /\ overruled' = IF r.status = "rejected" THEN overruled \cup {i} ELSE overruled
    /\ UNCHANGED <<userVars, job, what, at, copy, met>>

-----------------------------------------------------------------------------
BvnRecord(u, b, j) ==
    [user |-> u, bvn |-> b, status |-> "submitted", ref |-> j, bvnJob |-> j,
     meta |-> ExtractName(Parsed(job[j].answer)), nin |-> None, ninJob |-> None]

\* Nobody has begun, or one user has proven a BVN.
Init ==
    /\ status = [u \in User |-> "pending"]
    /\ name = [u \in User |-> Own(u)]
    /\ verifiedName = [u \in User |-> None]
    /\ \/ /\ job = [j \in Job |-> None]
          /\ records = <<>>
       \/ \E u \in User, b \in Bvn, answer \in Answer :
            /\ job = [j \in Job |->
                        IF j = Earlier THEN [kind |-> "bvn", user |-> u, number |-> b,
                                             outcome |-> "passed", answer |-> answer]
                                       ELSE None]
            /\ records = <<BvnRecord(u, b, Earlier)>>
    /\ what = [c \in Call |-> None]
    /\ pc = [c \in Call |-> Idle]
    /\ at = [c \in Call |-> 0]
    /\ copy = [c \in Call |-> None]
    /\ met = {}
    /\ overruled = {}

-----------------------------------------------------------------------------
(* verifyBvn *)

\* Mutant: only a verified record keeps the number.
BvnFreeOfVerified(u, b) ==
    \A i \in 1..Len(records) :
        records[i].user # u /\ records[i].bvn = b => records[i].status # "verified"

BvnFree(u, b) ==
    \A i \in 1..Len(records) :
        records[i].user # u /\ records[i].bvn = b =>
            records[i].status \notin {"submitted", "verified"}

\* Mutant: a verified user may start over.
VerifyBvnAgain(c, u, b) ==
    /\ BvnFree(u, b)
    /\ Begin(c, [kind |-> "bvn", user |-> u, number |-> b], 0, "ask")

VerifyBvn(c, u, b) ==
    /\ status[u] # "verified"
    /\ BvnFree(u, b)
    /\ Begin(c, [kind |-> "bvn", user |-> u, number |-> b], 0, "ask")

\* Smile's job, and its reply.
AskBvn(c, outcome, answer) ==
    /\ pc[c] = "ask" /\ what[c].kind = "bvn"
    /\ outcome \in {"noId", "passed"}
    /\ job' = [job EXCEPT ![c] = [kind |-> "bvn", user |-> what[c].user, number |-> what[c].number,
                                  outcome |-> outcome, answer |-> answer]]
    /\ Goto(c, IF IdVerified(job'[c]) THEN "find" ELSE "failed")
    /\ UNCHANGED <<userVars, records, what, at, copy, met, overruled>>

FindRecord(c) ==
    /\ pc[c] = "find"
    /\ at' = [at EXCEPT ![c] = Latest(what[c].user)]
    /\ Goto(c, "save")
    /\ UNCHANGED <<userVars, records, job, what, copy, met, overruled>>

\* The record is replaced whatever it has become, its metadata with it.
SaveBvn(c) ==
    LET r == BvnRecord(what[c].user, what[c].number, c)
    IN  /\ pc[c] = "save"
        /\ records' = IF at[c] = 0 THEN Append(records, r) ELSE [records EXCEPT ![at[c]] = r]
        /\ overruled' = overruled \ {at[c]}
        /\ Goto(c, "done")
        /\ UNCHANGED <<userVars, job, what, at, copy, met>>

-----------------------------------------------------------------------------
(* verifyNinWithFace *)

NinFree(u, n) ==
    \A i \in 1..Len(records) :
        records[i].user # u /\ records[i].nin = n => records[i].status # "verified"

VerifyNin(c, u, n) ==
    /\ status[u] # "verified"
    /\ Latest(u) # 0
    /\ NinFree(u, n)
    /\ Begin(c, [kind |-> "face", user |-> u, number |-> n], Latest(u), "ask")

\* The reply may come without a result, which counts as a rejection. The name that
\* belongs to a NIN is not looked at.
AskFace(c, outcome, answered) ==
    /\ pc[c] = "ask" /\ what[c].kind = "face"
    /\ job' = [job EXCEPT ![c] = [kind |-> "face", user |-> what[c].user,
                                  number |-> what[c].number, outcome |-> outcome,
                                  answer |-> Silence]]
    /\ Goto(c, IF answered /\ Passed(job'[c]) THEN "apply" ELSE "rejectRecord")
    /\ UNCHANGED <<userVars, records, what, at, copy, met, overruled>>

-----------------------------------------------------------------------------
(* handleSmileWebhook *)

\* The callback says r of job j, for a record that names the job.
CallbackOf(j, i, r) ==
    [kind |-> IF r = "passed" /\ ~ (job[j] # None /\ Passed(job[j])) THEN "unfounded" ELSE "webhook",
     user |-> records[i].user, number |-> None]

\* Mutant: the face and the liveness are not looked at.
WebhookIdOnly(c, j, i, r) ==
    /\ j \in {records[i].ref, records[i].ninJob, records[i].bvnJob}
    /\ Begin(c, CallbackOf(j, i, r), i, IF r # "noId" THEN "apply" ELSE "rejectUser")

\* A final result for job j, for the record that names it. It need not be what Smile found:
\* a signature that is wrong is logged, and decides nothing. The true result of a BVN job
\* has no face, and so rejects the user.
Webhook(c, j, i, r) ==
    /\ j \in {records[i].ref, records[i].ninJob, records[i].bvnJob}
    /\ Begin(c, CallbackOf(j, i, r), i, IF r = "passed" THEN "apply" ELSE "rejectUser")

-----------------------------------------------------------------------------
(* adminReview *)

AdminReview(c, i, verdict) ==
    /\ records[i].status # "verified"
    /\ Begin(c, [kind |-> verdict, user |-> records[i].user, number |-> None], i, "decide")

\* The row keeps the columns the update does not name.
Decide(c) ==
    /\ pc[c] = "decide"
    /\ SetRecord(c, at[c], [records[at[c]] EXCEPT !.status = what[c].kind], "decideUser")

\* Mutant: the name is left as it is.
DecideUserOnly(c) ==
    /\ pc[c] = "decideUser"
    /\ SetUser(c, what[c].user, what[c].kind, "done")

DecideUser(c) ==
    /\ pc[c] = "decideUser"
    /\ SetUser(c, what[c].user, what[c].kind,
               IF what[c].kind = "verified" THEN "apply" ELSE "done")

-----------------------------------------------------------------------------
(* What they share *)

\* applyVerifiedNameToUser, with the name as the record had it.
Apply(c) ==
    LET u == what[c].user
        n == ResolveName(copy[c].record.meta, copy[c].own)
    IN  /\ pc[c] = "apply"
        /\ name' = [name EXCEPT ![u] = [first |-> n.first, last |-> n.last]]
        /\ verifiedName' = [verifiedName EXCEPT ![u] = n.full]
        /\ status' = [status EXCEPT ![u] = "verified"]
        /\ Goto(c, IF what[c].kind \in {"face", "webhook", "unfounded"} THEN "mark" ELSE "done")
        /\ UNCHANGED <<records, job, what, at, copy, met, overruled>>

\* The record is verified, with the metadata as they were read.
Mark(c) ==
    LET r == copy[c].record
    IN  /\ pc[c] = "mark"
        /\ SetRecord(c, at[c],
             [records[at[c]] EXCEPT
                !.status = "verified", !.meta = r.meta, !.bvnJob = r.bvnJob,
                !.nin = IF what[c].kind = "face" THEN what[c].number ELSE r.nin,
                !.ninJob = IF what[c].kind = "face" THEN c ELSE r.ninJob],
             "done")

\* A check rejects the record first and a callback the user first.
RejectRecord(c) ==
    /\ pc[c] = "rejectRecord"
    /\ SetRecord(c, at[c], [records[at[c]] EXCEPT !.status = "rejected"],
                 IF what[c].kind = "face" THEN "rejectUser" ELSE "done")

RejectUser(c) ==
    /\ pc[c] = "rejectUser"
    /\ SetUser(c, what[c].user, "rejected",
               IF what[c].kind = "face" THEN "done" ELSE "rejectRecord")

\* The process dies, or a statement or Smile fails: what was written stays.
Crash(c) ==
    /\ Underway(c)
    /\ Goto(c, "failed")
    /\ UNCHANGED <<userVars, records, job, what, at, copy, met, overruled>>

-----------------------------------------------------------------------------
Start(c) ==
    \/ \E u \in User : \/ \E b \in Bvn : VerifyBvn(c, u, b)
                       \/ \E n \in Nin : VerifyNin(c, u, n)
    \/ \E i \in 1..Len(records) :
         \/ \E j \in Job, r \in Outcome : Webhook(c, j, i, r)
         \/ \E verdict \in {"verified", "rejected"} : AdminReview(c, i, verdict)

Ask(c) ==
    \E outcome \in Outcome :
        \/ \E answer \in Answer : AskBvn(c, outcome, answer)
        \/ \E answered \in BOOLEAN : AskFace(c, outcome, answered)

Step(c) ==
    \/ Ask(c) \/ FindRecord(c) \/ SaveBvn(c) \/ Decide(c) \/ DecideUser(c)
    \/ Apply(c) \/ Mark(c) \/ RejectRecord(c) \/ RejectUser(c) \/ Crash(c)

Next == \E c \in Call : Start(c) \/ Step(c)

Spec == Init /\ [][Next]_vars

-----------------------------------------------------------------------------
(* Properties *)

\* Job j proved a BVN of user u.
ProvesBvn(j, u) ==
    job[j] # None /\ job[j].kind = "bvn" /\ job[j].user = u /\ IdVerified(job[j])

\* All words that Smile ever returned for user u.
WordsFor(u) == UNION {WordsOf(job[j].answer) : j \in {j \in Job : job[j] # None /\ job[j].user = u}}

\* A verified name is made of what Smile returned for a BVN of this very user, however old
\* the record was that a check or a review has read, and whatever a callback said; where
\* Smile returned no name at all, of the profile's.
NameProven ==
    \A u \in User : verifiedName[u] # None =>
        \E j \in Job :
            /\ ProvesBvn(j, u)
            /\ IF job[j].answer = Silence
               THEN Range(verifiedName[u]) \subseteq {u} \cup WordsFor(u)
               ELSE /\ verifiedName[u] # <<>>
                    /\ Range(verifiedName[u]) \subseteq WordsOf(job[j].answer)

\* Nobody is verified but by a job that found number, face and person in order, by an
\* administrator, or by a callback that claimed such a job where there was none: no true
\* callback of a BVN job, and no order of replies, does it.
VerifiedByFace ==
    \A u \in User : status[u] = "verified" =>
        \/ \E j \in Job : job[j] # None /\ job[j].user = u /\ Passed(job[j])
        \/ \E c \in Call : what[c] # None /\ what[c].user = u /\ what[c].kind \in {"verified", "unfounded"}

\* "The user row is never left in a partial state": a verified user has a verified name,
\* but while an approval is under way, or if it broke off there.
NamedWhenVerified ==
    \A u \in User : status[u] = "verified" /\ verifiedName[u] = None =>
        \E c \in Call : /\ what[c] # None
                        /\ what[c].user = u /\ what[c].kind = "verified"
                        /\ pc[c] \in {"apply", "failed"}

\* Calls that never overlapped and did not break off leave user and record in agreement:
\* both verified or neither.
StatusesAgree ==
    (\A c \in Call : pc[c] \in {Idle, "done"}) /\ met = {} =>
        \A u \in User : status[u] = "verified" <=>
                          Latest(u) # 0 /\ records[Latest(u)].status = "verified"

\* Two calls for these users overlapped.
Overlap(users) ==
    \E c, d \in Call : /\ {c, d} \in met
                       /\ what[c] # None /\ what[c].user \in users
                       /\ what[d] # None /\ what[d].user \in users

\* A BVN is not behind two users, unless the two checks that recorded it overlapped, nor a
\* verified NIN, unless calls for these very users overlapped; or one of the two records had
\* been rejected, which frees the number, and was taken back in.
NumberHeldOnce ==
    \A i, k \in 1..Len(records) :
        LET r == records[i]
            s == records[k]
        IN  r.user # s.user /\ {i, k} \cap overruled = {} =>
              /\ r.bvn = s.bvn /\ {r.status, s.status} \subseteq {"submitted", "verified"} =>
                    {r.ref, s.ref} \in met
              /\ r.nin = s.nin /\ r.nin # None /\ r.status = "verified" /\ s.status = "verified" =>
                    Overlap({r.user, s.user})

\* Types of the variables.
TypeOK ==
    /\ status \in [User -> Status]
    /\ name \in [User -> Name]
    /\ verifiedName \in [User -> Seq(Word) \cup {None}]
    /\ records \in Seq(Record)
    /\ job \in [Job -> Result \cup {None}]
    /\ what \in [Call -> Request \cup {None}]
    /\ pc \in [Call -> Place]
    /\ at \in [Call -> 0..Len(records)]
    /\ copy \in [Call -> Copy \cup {None}]
    /\ met \subseteq SUBSET Call
    /\ overruled \subseteq 1..Len(records)
=============================================================================

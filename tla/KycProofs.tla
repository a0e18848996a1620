------------------------------ MODULE KycProofs ------------------------------
(***************************************************************************)
(* Proofs about Kyc: types, and that every one of its invariants holds for *)
(* any number of users, calls, numbers and names.                          *)
(***************************************************************************)
EXTENDS Kyc, FiniteSetTheorems, SequenceTheorems, WellFoundedInduction, TLAPS

-----------------------------------------------------------------------------
(* Names *)

LEMMA NamesAreNames ==
    /\ Answer \cup {Silence} \subseteq PersonName
    /\ None \notin Seq(Word)
    /\ User \subseteq Word
  <1>1. Silence \in PersonName
    BY DEF Silence, PersonName
  <1>2. None \notin Seq(Word)
    BY NoneAssumption
  <1>3. User \subseteq Word
    BY DEF Word
  <1>4. QED
    BY <1>1, <1>2, <1>3, AnswerAssumption

\* A name's words.
NameWords(n) == Range(n.first) \cup Range(n.last)

\* Words joined are a name with the words of both.
LEMMA JoinedWords ==
    ASSUME NEW n, n.first \in Seq(Word), n.last \in Seq(Word)
    PROVE  /\ Joined(n) \in Seq(Word)
           /\ Range(Joined(n)) = NameWords(n)
           /\ n.first # <<>> \/ n.last # <<>> => Joined(n) # <<>>
  <1>1. Joined(n) = n.first \o n.last
    BY DEF Joined
  <1>2. Len(n.first \o n.last) = Len(n.first) + Len(n.last) /\ n.first \o n.last \in Seq(Word)
    BY ConcatProperties
  <1>3. Range(n.first \o n.last) = Range(n.first) \cup Range(n.last)
    BY RangeConcatenation
  <1>4. n.first # <<>> \/ n.last # <<>> => n.first \o n.last # <<>>
    BY ConcatEmptySeq
  <1>5. QED
    BY <1>1, <1>2, <1>3, <1>4 DEF NameWords

\* A name of these words.
NameOf(p, words) == p \in PersonName /\ NameWords(p) \cup Range(p.full) \subseteq words

\* The client's cutting adds no word and loses no name.
LEMMA ParsedName ==
    ASSUME NEW a \in PersonName
    PROVE  /\ NameOf(Parsed(a), WordsOf(a))
           /\ a = Silence => Parsed(a) = Silence
           /\ a # Silence => \/ Parsed(a).first # <<>> \/ Parsed(a).last # <<>>
  <1>1. /\ a.first \in Seq(Word) /\ a.last \in Seq(Word) /\ a.full \in Seq(Word)
        /\ a = [first |-> a.first, last |-> a.last, full |-> a.full]
    BY DEF PersonName
  <1>2. CASE a.full # <<>> /\ a.first = <<>>
    <2>1. Head(a.full) \in Word /\ Last(a.full) \in Word
      BY <1>1, <1>2 DEF Last
    <2>2. Head(a.full) \in Range(a.full) /\ Last(a.full) \in Range(a.full)
      BY <1>1, <1>2 DEF Last, Range
    <2>3. Parsed(a) = [first |-> <<Head(a.full)>>, last |-> <<Last(a.full)>>, full |-> a.full]
      BY <1>2 DEF Parsed
    <2>4. Parsed(a) \in PersonName
      BY <1>1, <2>1, <2>3 DEF PersonName
    <2>5. Range(<<Head(a.full)>>) = {Head(a.full)} /\ Range(<<Last(a.full)>>) = {Last(a.full)}
      BY DEF Range
    <2>6. NameOf(Parsed(a), WordsOf(a))
      BY <2>2, <2>3, <2>4, <2>5 DEF NameOf, NameWords, WordsOf
    <2>7. a # Silence
      BY <1>2 DEF Silence
    <2>8. QED
      BY <2>3, <2>6, <2>7
  <1>3. CASE a.full = <<>> /\ a.first # <<>> /\ a.last # <<>>
    <2>1. Parsed(a) = [a EXCEPT !.full = Joined(a)]
      BY <1>3 DEF Parsed
    <2>2. Joined(a) \in Seq(Word) /\ Range(Joined(a)) = NameWords(a)
      BY <1>1, JoinedWords
    <2>3. Parsed(a) = [first |-> a.first, last |-> a.last, full |-> Joined(a)]
      BY <1>1, <2>1
    <2>4. NameOf(Parsed(a), WordsOf(a))
      BY <1>1, <2>2, <2>3 DEF NameOf, NameWords, WordsOf, PersonName
    <2>5. QED
      BY <1>3, <2>3, <2>4 DEF Silence
  <1>4. CASE /\ ~ (a.full # <<>> /\ a.first = <<>>)
             /\ ~ (a.full = <<>> /\ a.first # <<>> /\ a.last # <<>>)
    <2>1. Parsed(a) = [a EXCEPT !.full = a.full]
      BY <1>4 DEF Parsed
    <2>2. Parsed(a) = a
      BY <1>1, <2>1
    <2>3. NameOf(a, WordsOf(a))
      BY DEF NameOf, NameWords, WordsOf
    <2>4. a.first = <<>> /\ a.last = <<>> => a = Silence
      BY <1>1, <1>4 DEF Silence
    <2>5. QED
      BY <2>2, <2>3, <2>4
  <1>5. QED
    BY <1>2, <1>3, <1>4

\* The name that a BVN gave: words of the answer, and one at least, or none for none.
LEMMA ExtractedName ==
    ASSUME NEW a \in Answer \cup {Silence}
    PROVE  /\ NameOf(ExtractName(Parsed(a)), WordsOf(a))
           /\ a = Silence => ExtractName(Parsed(a)) = Silence
           /\ a # Silence => ExtractName(Parsed(a)).full # <<>>
  <1> DEFINE p == Parsed(a)
  <1>1. /\ NameOf(p, WordsOf(a))
        /\ a = Silence => p = Silence
        /\ a # Silence => p.first # <<>> \/ p.last # <<>>
    BY NamesAreNames, ParsedName
  <1>2. p \in PersonName /\ p.first \in Seq(Word) /\ p.last \in Seq(Word)
    BY <1>1 DEF NameOf, PersonName
  <1> HIDE DEF p
  <1>3. CASE a = Silence
    <2>1. p = Silence /\ p.first = <<>> /\ p.last = <<>> /\ p.full = <<>>
      BY <1>1, <1>3 DEF Silence
    <2>2. ExtractName(p) = Silence
      BY <2>1 DEF ExtractName
    <2>3. QED
      BY <1>1, <1>3, <2>1, <2>2 DEF p
  <1>4. CASE a # Silence
    <2>1. p.first # <<>> \/ p.last # <<>>
      BY <1>1, <1>4
    <2>2. ExtractName(p) = [p EXCEPT !.full = Joined(p)]
      BY <2>1 DEF ExtractName
    <2>3. /\ Joined(p) \in Seq(Word) /\ Joined(p) # <<>>
          /\ Range(Joined(p)) = NameWords(p)
      BY <1>2, <2>1, JoinedWords
    <2>4. ExtractName(p) = [first |-> p.first, last |-> p.last, full |-> Joined(p)]
      BY <1>2, <2>2 DEF PersonName
    <2>5. NameOf(ExtractName(p), WordsOf(a))
      BY <1>1, <1>2, <2>3, <2>4 DEF NameOf, NameWords, PersonName
    <2>6. QED
      BY <1>4, <2>3, <2>4, <2>5 DEF p
  <1>5. QED
    BY <1>3, <1>4

\* What is missing comes from the profile.
LEMMA ResolvedName ==
    ASSUME NEW meta \in PersonName, NEW own \in Name
    PROVE  LET n == ResolveName(meta, own)
           IN  /\ [first |-> n.first, last |-> n.last] \in Name
               /\ n.full \in Seq(Word)
               /\ NameWords(n) \subseteq NameWords(meta) \cup NameWords(own)
               /\ IF meta.full # <<>> THEN n.full = meta.full ELSE Range(n.full) = NameWords(n)
  <1> DEFINE m == [first |-> IF meta.first # <<>> THEN meta.first ELSE own.first,
                   last |-> IF meta.last # <<>> THEN meta.last ELSE own.last]
  <1>1. /\ m.first \in {meta.first, own.first} /\ m.last \in {meta.last, own.last}
        /\ m.first \in Seq(Word) /\ m.last \in Seq(Word)
    BY DEF PersonName, Name
  <1>2. meta.full \in Seq(Word)
    BY DEF PersonName
  <1>3. ResolveName(meta, own) = [first |-> m.first, last |-> m.last,
                                  full |-> IF meta.full # <<>> THEN meta.full ELSE Joined(m)]
    BY DEF ResolveName
  <1> HIDE DEF m
  <1>4. Joined(m) \in Seq(Word) /\ Range(Joined(m)) = NameWords(m)
    BY <1>1, JoinedWords
  <1>5. QED
    BY <1>1, <1>2, <1>3, <1>4 DEF Name, NameWords

-----------------------------------------------------------------------------
(* The newest record *)

\* A set of numbers up to n has a largest: the numbers above m are fewer, the larger m.
LEMMA LargestExists ==
    ASSUME NEW n \in Nat, NEW S \in SUBSET (1..n), S # {}
    PROVE  \E m \in S : \A k \in S : k <= m
  <1> DEFINE Above(m) == {k \in 1..n : k > m}
             T == {Above(m) : m \in S}
  <1>1. IsFiniteSet(1..n)
    BY FS_Interval
  <1>2. IsWellFoundedOn(StrictSubsetOrdering(1..n), FiniteSubsetsOf(1..n))
    BY <1>1, FS_StrictSubsetOrderingWellFounded
  <1>3. T \subseteq FiniteSubsetsOf(1..n) /\ T # {}
    <2>1. FiniteSubsetsOf(1..n) = SUBSET (1..n)
      BY <1>1, FS_FiniteSubsetsOfFinite
    <2>2. \A m \in S : Above(m) \in SUBSET (1..n)
      OBVIOUS
    <2>3. T \subseteq SUBSET (1..n) /\ T # {}
      BY <2>2
    <2>4. QED
      BY <2>1, <2>3
  <1>4. PICK t \in T : \A s \in T : ~ (<<s, t>> \in StrictSubsetOrdering(1..n))
    <2> HIDE DEF T
    <2>1. QED
      BY <1>2, <1>3, WFMin
  <1>5. PICK m \in S : t = Above(m)
    BY <1>4
  <1>6. ASSUME NEW k \in S, ~ (k <= m) PROVE FALSE
    <2>1. Above(k) \subseteq Above(m) /\ k \in Above(m) /\ k \notin Above(k)
      BY <1>6
    <2>2. <<Above(k), t>> \in StrictSubsetOrdering(1..n)
      BY <2>1, <1>5 DEF StrictSubsetOrdering
    <2>3. QED
      BY <1>4, <2>2
  <1>7. QED
    BY <1>6

\* findOne returns a record of the user, and none is newer.
LEMMA LatestIs ==
    ASSUME NEW u \in User, records \in Seq(Record)
    PROVE  /\ Latest(u) \in 0..Len(records)
           /\ Latest(u) # 0 => /\ records[Latest(u)].user = u
                               /\ \A j \in 1..Len(records) : records[j].user = u => j <= Latest(u)
           /\ Latest(u) = 0 => \A i \in 1..Len(records) : records[i].user # u
  <1> DEFINE mine == {i \in 1..Len(records) : records[i].user = u}
  <1>1. Len(records) \in Nat /\ mine \in SUBSET (1..Len(records))
    OBVIOUS
  <1>2. Latest(u) = IF mine = {} THEN 0 ELSE CHOOSE i \in mine : \A j \in mine : j <= i
    BY DEF Latest
  <1>3. CASE mine = {}
    BY <1>2, <1>3
  <1>4. CASE mine # {}
    <2>1. \E m \in mine : \A k \in mine : k <= m
      <3> HIDE DEF mine
      <3>1. QED
        BY <1>1, <1>4, LargestExists
    <2>2. Latest(u) \in mine /\ \A j \in mine : j <= Latest(u)
      <3> HIDE DEF mine
      <3>1. QED
        BY <1>2, <1>4, <2>1
    <2>3. QED
      BY <1>1, <2>2
  <1>5. QED
    BY <1>3, <1>4

-----------------------------------------------------------------------------
(* What holds of a call, wherever it is *)

\* A call works on what it was asked to do, at the places of such a request.
Placed(c) ==
    /\ what[c] = None <=> pc[c] = Idle
    /\ pc[c] = "ask" => what[c].kind \in {"bvn", "face"}
    /\ pc[c] \in {"find", "save"} => what[c].kind = "bvn"
    /\ pc[c] = "apply" => what[c].kind \in {"face", "webhook", "unfounded", "verified"}
    /\ pc[c] = "mark" => what[c].kind \in {"face", "webhook", "unfounded"}
    /\ pc[c] \in {"rejectRecord", "rejectUser"} => what[c].kind \in {"face", "webhook"}
    /\ pc[c] \in {"decide", "decideUser"} => what[c].kind \in {"verified", "rejected"}
    /\ what[c] # None => /\ what[c].kind = "bvn" => what[c].number \in Bvn
                         /\ what[c].kind = "face" => what[c].number \in Nin

\* Its job is of its own kind, and its user's, and it has passed where that is needed.
Asked(c) ==
    /\ job[c] # None => /\ what[c] # None
                        /\ pc[c] # "ask"
                        /\ job[c].kind = what[c].kind
                        /\ job[c].user = what[c].user
    /\ pc[c] \in {"find", "save"} => job[c] # None /\ IdVerified(job[c])
    /\ pc[c] \in {"apply", "mark"} /\ what[c].kind = "face" => job[c] # None /\ Passed(job[c])

\* Its record is its user's.
Found(c) ==
    /\ what[c] # None /\ what[c].kind # "bvn" =>
         /\ at[c] \in 1..Len(records)
         /\ records[at[c]].user = what[c].user
         /\ copy[c] \in Copy
         /\ copy[c].record.user = what[c].user
    /\ pc[c] = "save" /\ at[c] # 0 => records[at[c]].user = what[c].user

\* Calls that are under way together are recorded.
Met ==
    \A c, d \in Call : c # d /\ Underway(c) /\ Underway(d) => {c, d} \in met

\* A record's jobs are its user's, and its name is what its BVN gave.
JobOf(jobs, j, u) == j \in Job /\ jobs[j] # None /\ jobs[j].user = u

Proven(jobs, r) ==
    /\ JobOf(jobs, r.bvnJob, r.user) /\ jobs[r.bvnJob].kind = "bvn" /\ IdVerified(jobs[r.bvnJob])
    /\ r.meta = ExtractName(Parsed(jobs[r.bvnJob].answer))
    /\ JobOf(jobs, r.ref, r.user)
    /\ r.ninJob = None \/ JobOf(jobs, r.ninJob, r.user)
    /\ r.status \in {"submitted", "verified", "rejected"}

RecordsProven ==
    /\ \A i \in 1..Len(records) : Proven(job, records[i])
    /\ \A c \in Call : what[c] # None /\ what[c].kind # "bvn" => Proven(job, copy[c].record)

CallsOk == \A c \in Call : Placed(c) /\ Asked(c) /\ Found(c)

Control == TypeOK /\ CallsOk /\ Met /\ RecordsProven

(* What steps keep *)

\* What a job found stays found, and records stay those of their users.
Grown ==
    /\ \A j \in Job : job[j] # None => job'[j] = job[j]
    /\ Len(records) <= Len(records')
    /\ \A i \in 1..Len(records) : records'[i].user = records[i].user

\* Only call c moves, and it keeps to its request and to what it has read.
Moves(c) ==
    /\ Grown
    /\ \A d \in Call \ {c} : /\ pc'[d] = pc[d] /\ what'[d] = what[d] /\ at'[d] = at[d]
                            /\ copy'[d] = copy[d] /\ job'[d] = job[d]
    /\ pc[c] = Idle \/ (what'[c] = what[c] /\ copy'[c] = copy[c])

LEMMA StillProven ==
    ASSUME NEW r \in Record, \A j \in Job : job[j] # None => job'[j] = job[j], Proven(job, r)
    PROVE  Proven(job', r)
  <1>1. \A j : JobOf(job, j, r.user) => JobOf(job', j, r.user) /\ job'[j] = job[j]
    BY DEF JobOf
  <1>2. JobOf(job', r.bvnJob, r.user) /\ job'[r.bvnJob] = job[r.bvnJob]
    BY <1>1 DEF Proven
  <1>3. JobOf(job', r.ref, r.user) /\ (r.ninJob = None \/ JobOf(job', r.ninJob, r.user))
    BY <1>1 DEF Proven
  <1>4. job'[r.bvnJob].kind = "bvn" /\ IdVerified(job'[r.bvnJob])
    BY <1>2 DEF Proven
  <1>5. r.meta = ExtractName(Parsed(job'[r.bvnJob].answer))
    BY <1>2 DEF Proven
  <1>6. r.status \in {"submitted", "verified", "rejected"}
    BY DEF Proven
  <1>7. QED
    BY <1>2, <1>3, <1>4, <1>5, <1>6 DEF Proven

\* A call that does not move stays in order, and so do its overlaps.
LEMMA OthersStay ==
    ASSUME Control, NEW c \in Call,
           TypeOK', Grown, RecordsProven', Placed(c)', Asked(c)', Found(c)',
           \A d \in Call \ {c} : /\ pc'[d] = pc[d] /\ what'[d] = what[d] /\ at'[d] = at[d]
                                 /\ copy'[d] = copy[d] /\ job'[d] = job[d],
           pc[c] = Idle \/ (what'[c] = what[c] /\ copy'[c] = copy[c]),
           met \subseteq met',
           Underway(c) \/ \A d \in Call \ {c} : Underway(d) => {c, d} \in met'
    PROVE  Control' /\ Moves(c)
  <1>1. ASSUME NEW d \in Call \ {c} PROVE Placed(d)' /\ Asked(d)' /\ Found(d)'
    <2>1. Placed(d) /\ Asked(d) /\ Found(d)
      BY DEF Control, CallsOk
    <2>2. Placed(d)' /\ Asked(d)'
      BY <2>1 DEF Placed, Asked, IdVerified, Passed
    <2>3. Len(records) \in Nat /\ Len(records') \in Nat /\ at[d] \in 0..Len(records)
      BY DEF Control, TypeOK
    <2>4. Found(d)'
      BY <2>1, <2>3 DEF Found, Grown
    <2>5. QED
      BY <2>2, <2>4
  <1>2. CallsOk'
    BY <1>1 DEF CallsOk
  <1>3. Met'
    <2>1. ASSUME NEW d \in Call, NEW e \in Call, d # e, Underway(d)', Underway(e)', d # c
          PROVE  {d, e} \in met'
      <3>1. Underway(d)
        BY <2>1 DEF Underway
      <3>2. CASE e = c
        <4>1. {c, d} = {d, e}
          BY <3>2
        <4>2. CASE Underway(c)
          BY <2>1, <3>1, <3>2, <4>2 DEF Control, Met
        <4>3. CASE ~ Underway(c)
          BY <2>1, <3>1, <4>1, <4>3
        <4>4. QED
          BY <4>2, <4>3
      <3>3. CASE e # c
        <4>1. Underway(e)
          BY <2>1, <3>3 DEF Underway
        <4>2. QED
          BY <2>1, <3>1, <4>1 DEF Control, Met
      <3>4. QED
        BY <3>2, <3>3
    <2>2. ASSUME NEW d \in Call, NEW e \in Call, d # e, Underway(d)', Underway(e)'
          PROVE  {d, e} \in met'
      <3>1. CASE d # c
        BY <2>1, <2>2, <3>1
      <3>2. CASE d = c
        <4>1. {e, d} \in met'
          BY <2>1, <2>2, <3>2
        <4>2. {e, d} = {d, e}
          OBVIOUS
        <4>3. QED
          BY <4>1, <4>2
      <3>3. QED
        BY <3>1, <3>2
    <2>3. QED
      BY <2>2 DEF Met
  <1>4. QED
    BY <1>2, <1>3 DEF Control, Moves

\* A call that has begun knows what it was asked to do.
LEMMA Begun ==
    ASSUME Control, NEW c \in Call, pc[c] # Idle
    PROVE  /\ what[c] # None /\ what[c] \in Request /\ what[c].user \in User
           /\ what[c].kind = "bvn" => what[c].number \in Bvn
           /\ what[c].kind = "face" => what[c].number \in Nin
  <1>1. Placed(c) /\ what[c] \in Request \cup {None}
    BY DEF Control, CallsOk, TypeOK
  <1>2. what[c] \in Request
    BY <1>1 DEF Placed
  <1>3. QED
    BY <1>1, <1>2 DEF Placed, Request

LEMMA RecordsTyped ==
    ASSUME TypeOK
    PROVE  /\ Len(records) \in Nat
           /\ \A i \in 1..Len(records) : records[i] \in Record /\ records[i].user \in User
  <1>1. Len(records) \in Nat /\ \A i \in 1..Len(records) : records[i] \in Record
    BY DEF TypeOK
  <1>2. \A r \in Record : r.user \in User
    BY DEF Record
  <1>3. QED
    BY <1>1, <1>2

\* A call begins.
LEMMA BeginControl ==
    ASSUME Control, NEW c \in Call, NEW w \in Request, NEW i \in 0..Len(records), NEW place \in Place,
           Begin(c, w, i, place),
           w.kind = "bvn" => w.number \in Bvn, w.kind = "face" => w.number \in Nin,
           w.kind # "bvn" => i # 0 /\ records[i].user = w.user,
           \/ place = "ask" /\ w.kind \in {"bvn", "face"}
           \/ place = "apply" /\ w.kind \in {"webhook", "unfounded"}
           \/ place = "rejectUser" /\ w.kind = "webhook"
           \/ place = "decide" /\ w.kind \in {"verified", "rejected"}
    PROVE  Control' /\ Moves(c)
  <1>1. TypeOK /\ Placed(c) /\ Asked(c)
    BY DEF Control, CallsOk
  <1>2. pc[c] = Idle /\ job[c] = None /\ c \in Job
    BY <1>1 DEF Placed, Asked, Begin, Job
  <1> DEFINE seen == IF i = 0 THEN None ELSE [record |-> records[i], own |-> name[records[i].user]]
  <1>3. /\ pc' = [pc EXCEPT ![c] = place]
        /\ what' = [what EXCEPT ![c] = w]
        /\ at' = [at EXCEPT ![c] = i]
        /\ copy' = [copy EXCEPT ![c] = seen]
        /\ met' = met \cup {{c, d} : d \in {d \in Call : Underway(d)}}
        /\ UNCHANGED <<status, name, verifiedName, records, job, overruled>>
    BY DEF Begin, Goto, userVars
  <1>4. i # 0 => seen \in Copy /\ seen.record = records[i]
    BY <1>1, RecordsTyped DEF TypeOK, Copy
  <1>5. seen \in Copy \cup {None}
    BY <1>4
  <1>6. w # None
    BY NoneAssumption
  <1> HIDE DEF seen
  <1>7. /\ pc'[c] = place /\ what'[c] = w /\ at'[c] = i /\ copy'[c] = seen
        /\ \A d \in Call \ {c} : /\ pc'[d] = pc[d] /\ what'[d] = what[d] /\ at'[d] = at[d]
                                 /\ copy'[d] = copy[d] /\ job'[d] = job[d]
    BY <1>1, <1>3 DEF TypeOK
  <1>8. TypeOK'
    <2>1. met' \subseteq SUBSET Call
      <3>1. met \subseteq SUBSET Call
        BY <1>1 DEF TypeOK
      <3>2. {{c, d} : d \in {d \in Call : Underway(d)}} \subseteq SUBSET Call
        OBVIOUS
      <3>3. QED
        BY <1>3, <3>1, <3>2
    <2>2. QED
      BY <1>1, <1>3, <1>5, <2>1 DEF TypeOK
  <1>9. Grown
    BY <1>1, <1>3, RecordsTyped DEF Grown
  <1>10. RecordsProven'
    <2>1. ASSUME NEW d \in Call, what'[d] # None /\ what'[d].kind # "bvn"
          PROVE  Proven(job', copy'[d].record)
      <3>1. CASE d = c
        <4>1. i # 0 /\ copy'[d].record = records[i]
          BY <1>4, <1>7, <2>1, <3>1
        <4>2. QED
          BY <1>1, <1>3, <4>1, RecordsTyped DEF Control, RecordsProven
      <3>2. CASE d # c
        BY <1>3, <1>7, <2>1, <3>2 DEF Control, RecordsProven
      <3>3. QED
        BY <3>1, <3>2
    <2>2. QED
      BY <1>3, <2>1 DEF Control, RecordsProven
  <1>11. Placed(c)'
    BY <1>6, <1>7 DEF Placed, Idle
  <1>12. Asked(c)'
    BY <1>2, <1>3, <1>7 DEF Asked
  <1>13. Found(c)'
    BY <1>1, <1>3, <1>4, <1>7, RecordsTyped DEF Found
  <1>14. met \subseteq met' /\ \A d \in Call \ {c} : Underway(d) => {c, d} \in met'
    BY <1>3
  <1>15. QED
    BY <1>2, <1>7, <1>8, <1>9, <1>10, <1>11, <1>12, <1>13, <1>14, OthersStay

LEMMA VerifyBvnControl ==
    ASSUME Control, NEW c \in Call, NEW u \in User, NEW b \in Bvn, VerifyBvn(c, u, b)
    PROVE  Control' /\ Moves(c)
  <1> DEFINE w == [kind |-> "bvn", user |-> u, number |-> b]
  <1>1. w \in Request /\ w.kind = "bvn" /\ w.number \in Bvn
    BY DEF Request
  <1>2. Begin(c, w, 0, "ask") /\ 0 \in 0..Len(records) /\ "ask" \in Place
    BY RecordsTyped DEF VerifyBvn, Place, Control
  <1> HIDE DEF w
  <1>3. QED
    BY <1>1, <1>2, BeginControl

LEMMA VerifyNinControl ==
    ASSUME Control, NEW c \in Call, NEW u \in User, NEW n \in Nin, VerifyNin(c, u, n)
    PROVE  Control' /\ Moves(c)
  <1> DEFINE w == [kind |-> "face", user |-> u, number |-> n]
  <1>1. w \in Request /\ w.kind = "face" /\ w.number \in Nin /\ w.user = u
    BY DEF Request
  <1>2. /\ Begin(c, w, Latest(u), "ask")
        /\ Latest(u) # 0
        /\ Latest(u) \in 0..Len(records) /\ records[Latest(u)].user = u
    BY LatestIs DEF VerifyNin, Control, TypeOK
  <1>3. "ask" \in Place
    BY DEF Place
  <1> HIDE DEF w
  <1>4. QED
    BY <1>1, <1>2, <1>3, BeginControl

LEMMA WebhookControl ==
    ASSUME Control, NEW c \in Call, NEW i \in 1..Len(records), NEW j \in Job, NEW r \in Outcome,
           Webhook(c, j, i, r)
    PROVE  Control' /\ Moves(c)
  <1> DEFINE w == CallbackOf(j, i, r)
             place == IF r = "passed" THEN "apply" ELSE "rejectUser"
  <1>1. /\ w \in Request /\ w.user = records[i].user
        /\ w.kind \in {"webhook", "unfounded"}
        /\ r # "passed" => w.kind = "webhook"
    BY RecordsTyped DEF Request, Control, CallbackOf
  <1>2. Begin(c, w, i, place)
    BY DEF Webhook
  <1>3. /\ i \in 0..Len(records) /\ i # 0 /\ place \in Place
        /\ place = "apply" \/ (place = "rejectUser" /\ r # "passed")
    BY RecordsTyped DEF Place, Control
  <1> HIDE DEF w, place
  <1>4. QED
    BY <1>1, <1>2, <1>3, BeginControl

LEMMA AdminReviewControl ==
    ASSUME Control, NEW c \in Call, NEW i \in 1..Len(records), NEW verdict \in {"verified", "rejected"},
           AdminReview(c, i, verdict)
    PROVE  Control' /\ Moves(c)
  <1> DEFINE w == [kind |-> verdict, user |-> records[i].user, number |-> None]
  <1>1. w \in Request /\ w.kind = verdict /\ w.user = records[i].user
    BY RecordsTyped DEF Request, Control
  <1>2. Begin(c, w, i, "decide") /\ "decide" \in Place
    BY DEF AdminReview, Place
  <1>3. i \in 0..Len(records) /\ i # 0
    BY RecordsTyped DEF Control
  <1> HIDE DEF w
  <1>4. QED
    BY <1>1, <1>2, <1>3, BeginControl

\* A job comes back.
LEMMA JobControl ==
    ASSUME Control, NEW c \in Call, NEW result \in Result, NEW place \in Place,
           pc[c] = "ask", job' = [job EXCEPT ![c] = result],
           result.kind = what[c].kind, result.user = what[c].user,
           Goto(c, place),
           UNCHANGED <<userVars, records, what, at, copy, met, overruled>>,
           \/ place = "failed"
           \/ place = "find" /\ what[c].kind = "bvn" /\ IdVerified(result)
           \/ place = "apply" /\ what[c].kind = "face" /\ Passed(result)
           \/ place = "rejectRecord" /\ what[c].kind = "face"
    PROVE  Control' /\ Moves(c)
  <1>1. TypeOK /\ Placed(c) /\ Asked(c) /\ Found(c)
    BY DEF Control, CallsOk
  <1>2. pc[c] # Idle /\ what[c] # None /\ Underway(c)
    BY <1>1 DEF Placed, Idle, Underway, Finished
  <1>3. job[c] = None /\ c \in Job
    BY <1>1 DEF Asked, Job
  <1>4. /\ UNCHANGED <<status, name, verifiedName, records, what, at, copy, met, overruled>>
        /\ pc' = [pc EXCEPT ![c] = place]
    BY DEF userVars, Goto
  <1>5. /\ pc'[c] = place /\ job'[c] = result
        /\ \A d \in Call \ {c} : /\ pc'[d] = pc[d] /\ what'[d] = what[d] /\ at'[d] = at[d]
                                 /\ copy'[d] = copy[d] /\ job'[d] = job[d]
    BY <1>1, <1>3, <1>4 DEF TypeOK, Job
  <1>6. TypeOK'
    BY <1>1, <1>3, <1>4 DEF TypeOK
  <1>7. Grown
    BY <1>1, <1>3, <1>4, RecordsTyped DEF Grown, TypeOK
  <1>8. RecordsProven'
    <2>1. \A i \in 1..Len(records) : Proven(job', records[i])
      BY <1>1, <1>7, RecordsTyped, StillProven DEF Control, RecordsProven, Grown
    <2>2. ASSUME NEW d \in Call, what[d] # None /\ what[d].kind # "bvn"
          PROVE  Proven(job', copy[d].record)
      <3>1. copy[d] \in Copy /\ Proven(job, copy[d].record)
        BY <2>2 DEF Control, CallsOk, Found, RecordsProven
      <3>2. copy[d].record \in Record
        BY <3>1 DEF Copy
      <3>3. QED
        BY <3>1, <3>2, <1>7, StillProven DEF Grown
    <2>3. QED
      BY <1>4, <2>1, <2>2 DEF RecordsProven
  <1>9. Placed(c)'
    BY <1>1, <1>2, <1>4, <1>5 DEF Placed, Idle
  <1>10. Asked(c)'
    <2>1. result # None
      BY NoneAssumption
    <2>2. QED
      BY <1>2, <1>4, <1>5, <2>1 DEF Asked
  <1>11. Found(c)'
    BY <1>1, <1>2, <1>4, <1>5 DEF Found
  <1>12. QED
    BY <1>2, <1>4, <1>5, <1>6, <1>7, <1>8, <1>9, <1>10, <1>11, OthersStay

LEMMA AskBvnControl ==
    ASSUME Control, NEW c \in Call, NEW outcome \in Outcome, NEW answer \in Answer,
           AskBvn(c, outcome, answer)
    PROVE  Control' /\ Moves(c)
  <1> DEFINE result == [kind |-> "bvn", user |-> what[c].user, number |-> what[c].number,
                        outcome |-> outcome, answer |-> answer]
             place == IF IdVerified(result) THEN "find" ELSE "failed"
  <1>1. pc[c] = "ask" /\ pc[c] # Idle /\ what[c].kind = "bvn"
    BY DEF AskBvn, Idle
  <1>2. what[c].user \in User /\ what[c].number \in Bvn
    BY <1>1, Begun
  <1>3. result \in Result /\ result.kind = what[c].kind /\ result.user = what[c].user
    BY <1>1, <1>2 DEF Result
  <1>4. job \in [Job -> Result \cup {None}] /\ c \in Job
    <2>1. job \in [Job -> Result \cup {None}]
      BY DEF Control, TypeOK
    <2>2. c \in Job
      BY DEF Job
    <2>3. QED
      BY <2>1, <2>2
  <1>5. job' = [job EXCEPT ![c] = result] /\ job'[c] = result
    BY <1>4 DEF AskBvn
  <1>6. Goto(c, place) /\ UNCHANGED <<userVars, records, what, at, copy, met, overruled>>
    BY <1>5 DEF AskBvn
  <1> HIDE DEF result
  <1>7. place \in Place /\ (place = "failed" \/ (place = "find" /\ IdVerified(result)))
    BY DEF Place, Finished
  <1> HIDE DEF place
  <1>8. QED
    BY <1>1, <1>3, <1>5, <1>6, <1>7, JobControl

LEMMA AskFaceControl ==
    ASSUME Control, NEW c \in Call, NEW outcome \in Outcome, NEW answered \in BOOLEAN,
           AskFace(c, outcome, answered)
    PROVE  Control' /\ Moves(c)
  <1> DEFINE result == [kind |-> "face", user |-> what[c].user, number |-> what[c].number,
                        outcome |-> outcome, answer |-> Silence]
             place == IF answered /\ Passed(result) THEN "apply" ELSE "rejectRecord"
  <1>1. pc[c] = "ask" /\ pc[c] # Idle /\ what[c].kind = "face"
    BY DEF AskFace, Idle
  <1>2. what[c].user \in User /\ what[c].number \in Nin
    BY <1>1, Begun
  <1>3. result \in Result /\ result.kind = what[c].kind /\ result.user = what[c].user
    BY <1>1, <1>2 DEF Result
  <1>4. job \in [Job -> Result \cup {None}] /\ c \in Job
    <2>1. job \in [Job -> Result \cup {None}]
      BY DEF Control, TypeOK
    <2>2. c \in Job
      BY DEF Job
    <2>3. QED
      BY <2>1, <2>2
  <1>5. job' = [job EXCEPT ![c] = result] /\ job'[c] = result
    BY <1>4 DEF AskFace
  <1>6. Goto(c, place) /\ UNCHANGED <<userVars, records, what, at, copy, met, overruled>>
    BY <1>5 DEF AskFace
  <1> HIDE DEF result
  <1>7. place \in Place /\ (place = "rejectRecord" \/ (place = "apply" /\ Passed(result)))
    BY DEF Place
  <1> HIDE DEF place
  <1>8. QED
    BY <1>1, <1>3, <1>5, <1>6, <1>7, JobControl

-----------------------------------------------------------------------------
(* The steps after the reply *)

\* A call goes on: neither its request, nor a job, nor what it has read, changes.
GoesOn(c, place) ==
    /\ Underway(c) /\ Goto(c, place) /\ place \in Place \ {Idle, "ask"}
    /\ UNCHANGED <<job, what, copy, met>>

LEMMA MovedControl ==
    ASSUME Control, NEW c \in Call, NEW place, GoesOn(c, place), TypeOK', RecordsProven', Grown,
           \A d \in Call \ {c} : at'[d] = at[d],
           \/ place \in Finished /\ at'[c] = at[c]
           \/ Placed(c)' /\ Asked(c)' /\ Found(c)'
    PROVE  Control' /\ Moves(c)
  <1>1. TypeOK /\ Placed(c) /\ Asked(c) /\ Found(c)
    BY DEF Control, CallsOk
  <1>2. /\ pc'[c] = place
        /\ \A d \in Call \ {c} : /\ pc'[d] = pc[d] /\ what'[d] = what[d] /\ at'[d] = at[d]
                                 /\ copy'[d] = copy[d] /\ job'[d] = job[d]
    BY <1>1 DEF GoesOn, Goto, TypeOK
  <1>3. CASE place \in Finished /\ at'[c] = at[c]
    <2>1. /\ place \notin {Idle, "ask", "find", "save", "apply", "mark", "rejectRecord", "rejectUser",
                           "decide", "decideUser"}
          /\ pc[c] # Idle
      BY <1>3 DEF Finished, Idle, GoesOn, Underway
    <2>2. what'[c] = what[c] /\ job'[c] = job[c] /\ copy'[c] = copy[c]
      BY DEF GoesOn
    <2>3. Placed(c)' /\ Asked(c)'
      BY <1>1, <1>2, <2>1, <2>2 DEF Placed, Asked
    <2>4. Found(c)'
      BY <1>1, <1>2, <1>3, <2>1, <2>2, RecordsTyped DEF Found, Grown
    <2>5. QED
      BY <1>2, <2>3, <2>4, OthersStay DEF GoesOn
  <1>4. CASE Placed(c)' /\ Asked(c)' /\ Found(c)'
    BY <1>2, <1>4, OthersStay DEF GoesOn
  <1>5. QED
    BY <1>3, <1>4

\* A call that writes no record.
LEMMA UserControl ==
    ASSUME Control, NEW c \in Call, NEW place, GoesOn(c, place), TypeOK', UNCHANGED <<records, at>>,
           \/ place \in Finished
           \/ place = "apply" /\ what[c].kind = "verified"
           \/ place = "mark" /\ pc[c] = "apply" /\ what[c].kind \in {"face", "webhook", "unfounded"}
           \/ place = "rejectRecord" /\ what[c].kind = "webhook"
    PROVE  Control' /\ Moves(c)
  <1>1. TypeOK /\ Placed(c) /\ Asked(c) /\ Found(c) /\ pc[c] # Idle
    BY DEF Control, CallsOk, GoesOn, Underway
  <1>2. what[c] # None
    BY <1>1 DEF Placed
  <1>3. /\ pc'[c] = place /\ what'[c] = what[c] /\ job'[c] = job[c] /\ copy'[c] = copy[c]
        /\ at'[c] = at[c] /\ \A d \in Call \ {c} : at'[d] = at[d]
    BY <1>1 DEF GoesOn, Goto, TypeOK
  <1>4. Grown /\ RecordsProven'
    BY RecordsTyped DEF Grown, GoesOn, RecordsProven, Control
  <1>5. CASE place \in Finished
    BY <1>3, <1>4, <1>5, MovedControl
  <1>6. CASE place \notin Finished
    <2>1. Placed(c)' /\ Asked(c)' /\ Found(c)'
      BY <1>1, <1>2, <1>3, <1>6 DEF Placed, Asked, Found, Idle
    <2>2. QED
      BY <1>3, <1>4, <2>1, MovedControl
  <1>7. QED
    BY <1>5, <1>6

\* A record as a step writes it.
LEMMA RecordWritten ==
    ASSUME TypeOK, NEW i \in 1..Len(records), NEW r \in Record, records' = [records EXCEPT ![i] = r]
    PROVE  /\ records' \in Seq(Record) /\ Len(records') = Len(records)
           /\ records'[i] = r
           /\ \A k \in 1..Len(records) : k # i => records'[k] = records[k]
  <1>1. records \in Seq(Record)
    BY DEF TypeOK
  <1>2. QED
    BY <1>1, ExceptSeq

\* A call that writes its record.
LEMMA RecordControl ==
    ASSUME Control, NEW c \in Call, NEW place, GoesOn(c, place), NEW r \in Record,
           what[c].kind # "bvn", SetRecord(c, at[c], r, place),
           r.user = what[c].user, Proven(job, r),
           \/ place \in Finished
           \/ place = "decideUser" /\ what[c].kind \in {"verified", "rejected"}
           \/ place = "rejectUser" /\ what[c].kind \in {"face", "webhook"}
    PROVE  Control' /\ Moves(c)
  <1>1. TypeOK /\ Placed(c) /\ Asked(c) /\ Found(c) /\ pc[c] # Idle
    BY DEF Control, CallsOk, GoesOn, Underway
  <1>2. what[c] # None
    BY <1>1 DEF Placed
  <1>3. /\ pc'[c] = place /\ what'[c] = what[c] /\ job' = job /\ copy' = copy
        /\ what' = what /\ at' = at /\ pc' = [pc EXCEPT ![c] = place]
        /\ records' = [records EXCEPT ![at[c]] = r]
        /\ UNCHANGED <<status, name, verifiedName, met>>
    BY <1>1 DEF GoesOn, Goto, SetRecord, userVars, TypeOK
  <1>4. at[c] \in 1..Len(records) /\ records[at[c]].user = what[c].user
    BY <1>1, <1>2 DEF Found
  <1>5. /\ records' \in Seq(Record) /\ Len(records') = Len(records)
        /\ records'[at[c]] = r
        /\ \A k \in 1..Len(records) : k # at[c] => records'[k] = records[k]
    BY <1>1, <1>3, <1>4, RecordWritten
  <1>6. overruled' \subseteq 1..Len(records')
    BY <1>1, <1>4, <1>5 DEF SetRecord, TypeOK
  <1>7. TypeOK'
    BY <1>1, <1>3, <1>5, <1>6 DEF TypeOK, GoesOn
  <1>8. Grown
    BY <1>1, <1>3, <1>4, <1>5, RecordsTyped DEF Grown
  <1>9. RecordsProven'
    <2>1. \A i \in 1..Len(records') : Proven(job', records'[i])
      BY <1>3, <1>5 DEF RecordsProven, Control
    <2>2. QED
      BY <1>3, <2>1 DEF RecordsProven, Control
  <1>10. CASE place \in Finished
    BY <1>3, <1>7, <1>8, <1>9, <1>10, MovedControl
  <1>11. CASE place \notin Finished
    <2>1. Placed(c)' /\ Asked(c)'
      BY <1>1, <1>2, <1>3, <1>11 DEF Placed, Asked, Idle
    <2>2. Found(c)'
      BY <1>1, <1>2, <1>3, <1>4, <1>5, <1>11 DEF Found
    <2>3. QED
      BY <1>3, <1>7, <1>8, <1>9, <2>1, <2>2, MovedControl
  <1>12. QED
    BY <1>10, <1>11

LEMMA PlaceNames ==
    Place = {"idle", "ask", "find", "save", "apply", "mark", "rejectRecord", "rejectUser",
             "decide", "decideUser", "done", "failed"}
  BY DEF Place, Idle, Finished

LEMMA FindRecordControl ==
    ASSUME Control, NEW c \in Call, FindRecord(c)
    PROVE  Control' /\ Moves(c)
  <1>1. TypeOK /\ Placed(c) /\ Asked(c) /\ pc[c] = "find"
    BY DEF Control, CallsOk, FindRecord
  <1>2. pc[c] # Idle /\ Underway(c) /\ what[c].kind = "bvn" /\ job[c] # None /\ IdVerified(job[c])
    BY <1>1 DEF Placed, Asked, Idle, Underway, Finished
  <1>3. what[c].user \in User
    BY <1>2, Begun
  <1>4. /\ Latest(what[c].user) \in 0..Len(records)
        /\ Latest(what[c].user) # 0 => records[Latest(what[c].user)].user = what[c].user
    BY <1>1, <1>3, LatestIs DEF TypeOK
  <1>5. /\ at' = [at EXCEPT ![c] = Latest(what[c].user)]
        /\ pc' = [pc EXCEPT ![c] = "save"]
        /\ UNCHANGED <<status, name, verifiedName, records, job, what, copy, met, overruled>>
    BY DEF FindRecord, Goto, userVars
  <1>6. GoesOn(c, "save")
    BY <1>2, <1>5 DEF GoesOn, Goto, Place, Idle
  <1>7. TypeOK'
    BY <1>1, <1>4, <1>5, PlaceNames DEF TypeOK
  <1>8. Grown /\ RecordsProven'
    BY <1>1, <1>5, RecordsTyped DEF Grown, RecordsProven, Control
  <1>9. /\ pc'[c] = "save" /\ at'[c] = Latest(what[c].user)
        /\ \A d \in Call \ {c} : at'[d] = at[d]
    BY <1>1, <1>5 DEF TypeOK
  <1>10. Placed(c)' /\ Asked(c)'
    BY <1>1, <1>2, <1>5, <1>9 DEF Placed, Asked, Idle
  <1>11. Found(c)'
    BY <1>2, <1>4, <1>5, <1>9 DEF Found
  <1>12. QED
    BY <1>6, <1>7, <1>8, <1>9, <1>10, <1>11, MovedControl

\* The record that a BVN's job gives.
LEMMA BvnRecordProven ==
    ASSUME TypeOK, NEW j \in Job, NEW u \in User, NEW b \in Bvn,
           job[j] # None, job[j].kind = "bvn", job[j].user = u, IdVerified(job[j])
    PROVE  BvnRecord(u, b, j) \in Record /\ Proven(job, BvnRecord(u, b, j))
  <1>1. job[j] \in Result
    BY DEF TypeOK
  <1>2. job[j].answer \in Answer \cup {Silence}
    BY <1>1 DEF Result
  <1>3. ExtractName(Parsed(job[j].answer)) \in PersonName
    BY <1>2, ExtractedName DEF NameOf
  <1>4. BvnRecord(u, b, j) =
          [user |-> u, bvn |-> b, status |-> "submitted", ref |-> j, bvnJob |-> j,
           meta |-> ExtractName(Parsed(job[j].answer)), nin |-> None, ninJob |-> None]
    BY DEF BvnRecord
  <1>5. BvnRecord(u, b, j) \in Record
    BY <1>3, <1>4 DEF Record, Status
  <1>6. JobOf(job, j, u)
    BY DEF JobOf
  <1>7. Proven(job, BvnRecord(u, b, j))
    BY <1>4, <1>6 DEF Proven
  <1>8. QED
    BY <1>5, <1>7

LEMMA SaveBvnControl ==
    ASSUME Control, NEW c \in Call, SaveBvn(c)
    PROVE  Control' /\ Moves(c)
  <1> DEFINE r == BvnRecord(what[c].user, what[c].number, c)
  <1>1. TypeOK /\ Placed(c) /\ Asked(c) /\ Found(c) /\ pc[c] = "save"
    BY DEF Control, CallsOk, SaveBvn
  <1>2. pc[c] # Idle /\ Underway(c) /\ what[c].kind = "bvn" /\ job[c] # None /\ IdVerified(job[c])
    BY <1>1 DEF Placed, Asked, Idle, Underway, Finished
  <1>3. what[c].user \in User /\ what[c].number \in Bvn /\ c \in Job
    BY <1>2, Begun DEF Job
  <1>4. r \in Record /\ Proven(job, r) /\ r.user = what[c].user
    <2>1. job[c].kind = "bvn" /\ job[c].user = what[c].user
      BY <1>1, <1>2 DEF Asked
    <2>2. r.user = what[c].user
      BY DEF BvnRecord
    <2>3. QED
      BY <1>1, <1>2, <1>3, <2>1, <2>2, BvnRecordProven
  <1>5. /\ records' = IF at[c] = 0 THEN Append(records, r) ELSE [records EXCEPT ![at[c]] = r]
        /\ overruled' = overruled \ {at[c]}
        /\ Goto(c, "done")
        /\ UNCHANGED <<status, name, verifiedName, job, what, at, copy, met>>
    BY DEF SaveBvn, userVars
  <1> HIDE DEF r
  <1>6. /\ records' \in Seq(Record) /\ Len(records) <= Len(records')
        /\ \A i \in 1..Len(records) : records'[i] \in {records[i], r} /\ records'[i].user = records[i].user
        /\ \A i \in 1..Len(records') : i \in 1..Len(records) \/ records'[i] = r
    <2>1. CASE at[c] = 0
      <3>1. records' = Append(records, r) /\ records \in Seq(Record)
        BY <1>1, <1>5, <2>1 DEF TypeOK
      <3>2. /\ records' \in Seq(Record) /\ Len(records') = Len(records) + 1
            /\ \A i \in 1..Len(records) : records'[i] = records[i]
            /\ records'[Len(records) + 1] = r
        BY <1>4, <3>1, AppendProperties
      <3>3. QED
        BY <1>1, <3>2, RecordsTyped
    <2>2. CASE at[c] # 0
      <3>1. at[c] \in 1..Len(records) /\ records[at[c]].user = what[c].user
        BY <1>1, <2>2, RecordsTyped DEF Found, TypeOK
      <3>2. /\ records' \in Seq(Record) /\ Len(records') = Len(records)
            /\ records'[at[c]] = r
            /\ \A k \in 1..Len(records) : k # at[c] => records'[k] = records[k]
        BY <1>1, <1>4, <1>5, <2>2, <3>1, RecordWritten
      <3>3. QED
        BY <1>1, <1>4, <3>1, <3>2, RecordsTyped
    <2>3. QED
      BY <2>1, <2>2
  <1>7. TypeOK'
    <2>1. Len(records') \in Nat /\ \A d \in Call : at[d] \in 0..Len(records')
      BY <1>1, <1>6, RecordsTyped DEF TypeOK
    <2>2. overruled' \subseteq 1..Len(records')
      <3>1. overruled \subseteq 1..Len(records) /\ overruled' \subseteq overruled
        BY <1>1, <1>5 DEF TypeOK
      <3>2. 1..Len(records) \subseteq 1..Len(records')
        BY <1>1, <1>6, <2>1, RecordsTyped
      <3>3. QED
        BY <3>1, <3>2
    <2>3. at' \in [Call -> 0..Len(records')]
      BY <1>1, <1>5, <2>1 DEF TypeOK
    <2>4. pc' \in [Call -> Place]
      BY <1>1, <1>5, PlaceNames DEF TypeOK, Goto
    <2>5. QED
      BY <1>1, <1>5, <1>6, <2>2, <2>3, <2>4 DEF TypeOK
  <1>8. Grown
    BY <1>5, <1>6 DEF Grown
  <1>9. RecordsProven'
    <2>1. \A i \in 1..Len(records') : Proven(job', records'[i])
      BY <1>4, <1>5, <1>6 DEF RecordsProven, Control
    <2>2. QED
      BY <1>5, <2>1 DEF RecordsProven, Control
  <1>10. GoesOn(c, "done") /\ at' = at /\ "done" \in Finished
    BY <1>2, <1>5 DEF GoesOn, Place, Finished, Idle
  <1>11. QED
    BY <1>7, <1>8, <1>9, <1>10, MovedControl

LEMMA DecideControl ==
    ASSUME Control, NEW c \in Call, Decide(c)
    PROVE  Control' /\ Moves(c)
  <1> DEFINE r == [records[at[c]] EXCEPT !.status = what[c].kind]
  <1>1. TypeOK /\ Placed(c) /\ Found(c) /\ pc[c] = "decide"
    BY DEF Control, CallsOk, Decide
  <1>2. what[c].kind \in {"verified", "rejected"} /\ Underway(c) /\ what[c] # None
    BY <1>1 DEF Placed, Underway, Idle, Finished
  <1>3. at[c] \in 1..Len(records) /\ records[at[c]].user = what[c].user
    BY <1>1, <1>2 DEF Found
  <1>4. records[at[c]] \in Record /\ Proven(job, records[at[c]])
    BY <1>1, <1>3, RecordsTyped DEF RecordsProven, Control
  <1>5. r \in Record /\ r.user = what[c].user
    BY <1>2, <1>3, <1>4 DEF Record, Status
  <1>6. Proven(job, r)
    BY <1>2, <1>4 DEF Proven, Record
  <1>7. SetRecord(c, at[c], r, "decideUser")
    BY DEF Decide
  <1> HIDE DEF r
  <1>8. GoesOn(c, "decideUser")
    BY <1>2, <1>7 DEF GoesOn, SetRecord, Place, Idle
  <1>9. QED
    BY <1>2, <1>5, <1>6, <1>7, <1>8, RecordControl

LEMMA SetUserControl ==
    ASSUME Control, NEW c \in Call, NEW s \in Status, NEW place, SetUser(c, what[c].user, s, place),
           Underway(c), place \in Place \ {Idle, "ask"},
           \/ place \in Finished
           \/ place = "apply" /\ what[c].kind = "verified"
           \/ place = "rejectRecord" /\ what[c].kind = "webhook"
    PROVE  Control' /\ Moves(c)
  <1>1. GoesOn(c, place) /\ UNCHANGED <<records, at>>
    BY DEF GoesOn, SetUser
  <1>2. TypeOK'
    BY DEF Control, TypeOK, SetUser, Goto
  <1>3. QED
    BY <1>1, <1>2, UserControl

LEMMA DecideUserControl ==
    ASSUME Control, NEW c \in Call, DecideUser(c)
    PROVE  Control' /\ Moves(c)
  <1> DEFINE place == IF what[c].kind = "verified" THEN "apply" ELSE "done"
  <1>1. Placed(c) /\ pc[c] = "decideUser"
    BY DEF Control, CallsOk, DecideUser
  <1>2. Underway(c) /\ what[c].kind \in Status
    BY <1>1 DEF Underway, Idle, Finished, Placed, Status
  <1>3. SetUser(c, what[c].user, what[c].kind, place)
    BY DEF DecideUser
  <1>4. /\ place \in Place \ {Idle, "ask"}
        /\ place \in Finished \/ (place = "apply" /\ what[c].kind = "verified")
    BY DEF Place, Idle, Finished
  <1> HIDE DEF place
  <1>5. QED
    BY <1>2, <1>3, <1>4, SetUserControl

LEMMA RejectUserControl ==
    ASSUME Control, NEW c \in Call, RejectUser(c)
    PROVE  Control' /\ Moves(c)
  <1> DEFINE place == IF what[c].kind = "face" THEN "done" ELSE "rejectRecord"
  <1>1. Placed(c) /\ pc[c] = "rejectUser"
    BY DEF Control, CallsOk, RejectUser
  <1>2. Underway(c) /\ what[c].kind \in {"face", "webhook"} /\ "rejected" \in Status
    BY <1>1 DEF Underway, Idle, Finished, Placed, Status
  <1>3. SetUser(c, what[c].user, "rejected", place)
    BY DEF RejectUser
  <1>4. /\ place \in Place \ {Idle, "ask"}
        /\ place \in Finished \/ (place = "rejectRecord" /\ what[c].kind = "webhook")
    BY <1>2 DEF Place, Idle, Finished
  <1> HIDE DEF place
  <1>5. QED
    BY <1>2, <1>3, <1>4, SetUserControl

LEMMA RejectRecordControl ==
    ASSUME Control, NEW c \in Call, RejectRecord(c)
    PROVE  Control' /\ Moves(c)
  <1> DEFINE r == [records[at[c]] EXCEPT !.status = "rejected"]
             place == IF what[c].kind = "face" THEN "rejectUser" ELSE "done"
  <1>1. TypeOK /\ Placed(c) /\ Found(c) /\ pc[c] = "rejectRecord"
    BY DEF Control, CallsOk, RejectRecord
  <1>2. what[c].kind \in {"face", "webhook"} /\ Underway(c) /\ what[c] # None
    BY <1>1 DEF Placed, Underway, Idle, Finished
  <1>3. at[c] \in 1..Len(records) /\ records[at[c]].user = what[c].user
    BY <1>1, <1>2 DEF Found
  <1>4. records[at[c]] \in Record /\ Proven(job, records[at[c]])
    BY <1>1, <1>3, RecordsTyped DEF RecordsProven, Control
  <1>5. r \in Record /\ r.user = what[c].user
    BY <1>3, <1>4 DEF Record, Status
  <1>6. Proven(job, r)
    BY <1>4 DEF Proven, Record
  <1>7. SetRecord(c, at[c], r, place)
    BY DEF RejectRecord
  <1>8. place \in Place \ {Idle, "ask"} /\ place \in Finished \cup {"rejectUser"}
    BY DEF Place, Idle, Finished
  <1> HIDE DEF r, place
  <1>9. GoesOn(c, place)
    BY <1>2, <1>7, <1>8 DEF GoesOn, SetRecord
  <1>10. QED
    BY <1>2, <1>5, <1>6, <1>7, <1>8, <1>9, RecordControl

LEMMA CrashControl ==
    ASSUME Control, NEW c \in Call, Crash(c)
    PROVE  Control' /\ Moves(c)
  <1>1. GoesOn(c, "failed") /\ UNCHANGED <<records, at>> /\ "failed" \in Finished
    BY DEF GoesOn, Crash, Place, Idle, Finished
  <1>2. TypeOK'
    BY PlaceNames DEF Control, TypeOK, Crash, Goto, userVars
  <1>3. QED
    BY <1>1, <1>2, UserControl

LEMMA ApplyControl ==
    ASSUME Control, NEW c \in Call, Apply(c)
    PROVE  Control' /\ Moves(c)
  <1> DEFINE u == what[c].user
             n == ResolveName(copy[c].record.meta, copy[c].own)
             place == IF what[c].kind \in {"face", "webhook", "unfounded"} THEN "mark" ELSE "done"
  <1>1. TypeOK /\ Placed(c) /\ Found(c) /\ pc[c] = "apply"
    BY DEF Control, CallsOk, Apply
  <1>2. what[c].kind \in {"face", "webhook", "unfounded", "verified"} /\ Underway(c) /\ what[c] # None
    BY <1>1 DEF Placed, Underway, Idle, Finished
  <1>3. copy[c] \in Copy
    BY <1>1, <1>2 DEF Found
  <1>4. copy[c].record.meta \in PersonName /\ copy[c].own \in Name
    BY <1>3 DEF Copy, Record
  <1>5. [first |-> n.first, last |-> n.last] \in Name /\ n.full \in Seq(Word)
    BY <1>4, ResolvedName
  <1>6. /\ name' = [name EXCEPT ![u] = [first |-> n.first, last |-> n.last]]
        /\ verifiedName' = [verifiedName EXCEPT ![u] = n.full]
        /\ status' = [status EXCEPT ![u] = "verified"]
        /\ Goto(c, place)
        /\ UNCHANGED <<records, job, what, at, copy, met, overruled>>
    BY DEF Apply
  <1>7. place \in Place \ {Idle, "ask"} /\ (place \in Finished \/ (place = "mark" /\ what[c].kind \in {"face", "webhook", "unfounded"}))
    BY DEF Place, Idle, Finished
  <1> HIDE DEF u, n, place
  <1>8. TypeOK'
    <2>1. "verified" \in Status
      BY DEF Status
    <2>2. QED
      BY <1>1, <1>5, <1>6, <1>7, <2>1 DEF TypeOK, Goto
  <1>9. GoesOn(c, place)
    BY <1>2, <1>6, <1>7 DEF GoesOn
  <1>10. QED
    BY <1>1, <1>6, <1>7, <1>8, <1>9, UserControl

LEMMA MarkControl ==
    ASSUME Control, NEW c \in Call, Mark(c)
    PROVE  Control' /\ Moves(c)
  <1> DEFINE old == records[at[c]]
             seen == copy[c].record
             nin == IF what[c].kind = "face" THEN what[c].number ELSE seen.nin
             ninJob == IF what[c].kind = "face" THEN c ELSE seen.ninJob
             r == [old EXCEPT !.status = "verified", !.meta = seen.meta, !.bvnJob = seen.bvnJob,
                              !.nin = nin, !.ninJob = ninJob]
  <1>1. TypeOK /\ Placed(c) /\ Found(c) /\ Asked(c) /\ pc[c] = "mark"
    BY DEF Control, CallsOk, Mark
  <1>2. what[c].kind \in {"face", "webhook", "unfounded"} /\ Underway(c) /\ what[c] # None /\ pc[c] # Idle
    BY <1>1 DEF Placed, Underway, Idle, Finished
  <1>3. at[c] \in 1..Len(records) /\ old.user = what[c].user
    BY <1>1, <1>2 DEF Found
  <1>4. old \in Record /\ Proven(job, old)
    BY <1>1, <1>3, RecordsTyped DEF RecordsProven, Control
  <1>5. seen \in Record /\ seen.user = what[c].user /\ Proven(job, seen)
    BY <1>1, <1>2 DEF Found, Copy, RecordsProven, Control
  <1>6. nin \in Nin \cup {None}
    BY <1>2, <1>5, Begun DEF Record
  <1>7. ninJob = None \/ JobOf(job, ninJob, what[c].user)
    <2>1. CASE what[c].kind = "face"
      BY <1>1, <2>1 DEF Asked, JobOf, Job
    <2>2. CASE what[c].kind # "face"
      BY <1>5, <2>2 DEF Proven
    <2>3. QED
      BY <2>1, <2>2
  <1>8. ninJob \in Job \cup {None}
    BY <1>7 DEF JobOf
  <1>9. SetRecord(c, at[c], r, "done")
    BY DEF Mark
  <1> HIDE DEF old, seen, nin, ninJob
  <1>10. seen.meta \in PersonName /\ seen.bvnJob \in Job
    BY <1>5 DEF Record
  <1>11. r \in Record
    BY <1>4, <1>6, <1>8, <1>10 DEF Record, Status
  <1>12. /\ r.user = what[c].user /\ r.status = "verified" /\ r.meta = seen.meta
         /\ r.bvnJob = seen.bvnJob /\ r.ninJob = ninJob /\ r.ref = old.ref
    BY <1>3, <1>4 DEF Record
  <1> HIDE DEF r
  <1>13. Proven(job, r)
    <2>1. /\ JobOf(job, seen.bvnJob, what[c].user) /\ job[seen.bvnJob].kind = "bvn"
          /\ IdVerified(job[seen.bvnJob])
          /\ seen.meta = ExtractName(Parsed(job[seen.bvnJob].answer))
      BY <1>5 DEF Proven
    <2>2. JobOf(job, old.ref, what[c].user)
      BY <1>3, <1>4 DEF Proven
    <2>3. QED
      BY <1>7, <1>12, <2>1, <2>2 DEF Proven
  <1>14. GoesOn(c, "done") /\ "done" \in Finished
    BY <1>2, <1>9 DEF GoesOn, SetRecord, Place, Idle, Finished
  <1>15. QED
    BY <1>2, <1>9, <1>11, <1>12, <1>13, <1>14, RecordControl

-----------------------------------------------------------------------------
(* Control holds *)

LEMMA InitRecords ==
    ASSUME Init
    PROVE  /\ TypeOK /\ \A i \in 1..Len(records) : Proven(job, records[i])
           /\ \A c \in Call : job[c] = None
           /\ \A i, k \in 1..Len(records) : i = k
           /\ \A i \in 1..Len(records) : records[i].status = "submitted" /\ records[i].nin = None
  <1>1. /\ what \in [Call -> Request \cup {None}] /\ pc \in [Call -> Place]
        /\ copy \in [Call -> Copy \cup {None}]
        /\ at \in [Call -> {0}] /\ met = {} /\ overruled = {}
    BY DEF Init, Place
  <1>2. status \in [User -> Status] /\ name \in [User -> Name]
    <2>1. \A u \in User : <<u>> \in Seq(Word)
      BY NamesAreNames
    <2>2. QED
      BY <2>1 DEF Init, Status, Name, Own
  <1>3. verifiedName \in [User -> Seq(Word) \cup {None}]
    BY DEF Init
  <1>4. CASE job = [j \in Job |-> None] /\ records = <<>>
    <2>1. job \in [Job -> Result \cup {None}] /\ records \in Seq(Record) /\ Len(records) = 0
      BY <1>4
    <2>2. at \in [Call -> 0..Len(records)]
      BY <1>1, <2>1
    <2>3. \A c \in Call : job[c] = None
      BY <1>4 DEF Job
    <2>4. QED
      BY <1>1, <1>2, <1>3, <2>1, <2>2, <2>3 DEF TypeOK
  <1>5. ASSUME NEW u \in User, NEW b \in Bvn, NEW answer \in Answer,
               job = [j \in Job |->
                        IF j = Earlier THEN [kind |-> "bvn", user |-> u, number |-> b,
                                             outcome |-> "passed", answer |-> answer]
                                       ELSE None],
               records = <<BvnRecord(u, b, Earlier)>>
        PROVE  /\ TypeOK /\ \A i \in 1..Len(records) : Proven(job, records[i])
               /\ \A c \in Call : job[c] = None
               /\ \A i, k \in 1..Len(records) : i = k
               /\ \A i \in 1..Len(records) : records[i].status = "submitted" /\ records[i].nin = None
    <2> DEFINE first == [kind |-> "bvn", user |-> u, number |-> b, outcome |-> "passed", answer |-> answer]
               r == BvnRecord(u, b, Earlier)
    <2>1. first \in Result /\ first.kind = "bvn" /\ first.user = u /\ first.answer = answer /\ IdVerified(first)
      BY DEF Result, Outcome, IdVerified
    <2>2. job[Earlier] = first /\ Earlier \in Job /\ job \in [Job -> Result \cup {None}]
      BY <1>5, <2>1 DEF Job
    <2>3. \A c \in Call : job[c] = None
      BY <1>5, EarlierAssumption DEF Job
    <2>4. first # None
      BY <2>1, NoneAssumption
    <2>5. r = [user |-> u, bvn |-> b, status |-> "submitted", ref |-> Earlier, bvnJob |-> Earlier,
               meta |-> ExtractName(Parsed(job[Earlier].answer)), nin |-> None, ninJob |-> None]
      BY DEF BvnRecord
    <2>6. job[Earlier].answer = answer
      BY <2>1, <2>2
    <2>7. ExtractName(Parsed(job[Earlier].answer)) \in PersonName
      BY <2>6, ExtractedName DEF NameOf
    <2>8. r \in Record /\ r.status = "submitted" /\ r.nin = None
      BY <2>2, <2>5, <2>7 DEF Record, Status
    <2>9. JobOf(job, Earlier, u)
      BY <2>1, <2>2, <2>4 DEF JobOf
    <2>10. Proven(job, r)
      BY <2>1, <2>2, <2>5, <2>9 DEF Proven
    <2>11. records = <<r>>
      BY <1>5
    <2> HIDE DEF first, r
    <2>12. records \in Seq(Record) /\ Len(records) = 1 /\ records[1] = r
      BY <2>8, <2>11
    <2>13. 1..Len(records) = {1} /\ at \in [Call -> 0..Len(records)]
      BY <1>1, <2>12
    <2>14. TypeOK
      BY <1>1, <1>2, <1>3, <2>2, <2>12, <2>13 DEF TypeOK
    <2>15. QED
      BY <2>3, <2>8, <2>10, <2>12, <2>13, <2>14
  <1>6. QED
    BY <1>4, <1>5 DEF Init

LEMMA InitControl == Init => Control
  <1> SUFFICES ASSUME Init PROVE Control
    OBVIOUS
  <1>1. \A c \in Call : what[c] = None /\ pc[c] = Idle
    BY DEF Init
  <1>2. CallsOk
    BY <1>1, InitRecords DEF CallsOk, Placed, Asked, Found, Idle
  <1>3. Met
    BY <1>1 DEF Met, Underway
  <1>4. RecordsProven
    BY <1>1, InitRecords DEF RecordsProven
  <1>5. QED
    BY <1>2, <1>3, <1>4, InitRecords DEF Control

LEMMA StepControl ==
    ASSUME Control, NEW c \in Call, Start(c) \/ Step(c)
    PROVE  Control' /\ Moves(c)
  <1>1. CASE Start(c)
    <2>1. CASE \E u \in User, b \in Bvn : VerifyBvn(c, u, b)
      BY <2>1, VerifyBvnControl
    <2>2. CASE \E u \in User, n \in Nin : VerifyNin(c, u, n)
      BY <2>2, VerifyNinControl
    <2>3. CASE \E i \in 1..Len(records), j \in Job, r \in Outcome : Webhook(c, j, i, r)
      BY <2>3, WebhookControl
    <2>4. CASE \E i \in 1..Len(records), verdict \in {"verified", "rejected"} : AdminReview(c, i, verdict)
      BY <2>4, AdminReviewControl
    <2>5. QED
      BY <1>1, <2>1, <2>2, <2>3, <2>4 DEF Start
  <1>2. CASE Step(c)
    <2>1. CASE Ask(c)
      BY <2>1, AskBvnControl, AskFaceControl DEF Ask
    <2>2. QED
      BY <1>2, <2>1, FindRecordControl, SaveBvnControl, DecideControl, DecideUserControl, ApplyControl,
         MarkControl, RejectRecordControl, RejectUserControl, CrashControl DEF Step
  <1>3. QED
    BY <1>1, <1>2

LEMMA NextControl == Control /\ [Next]_vars => Control'
  <1> SUFFICES ASSUME Control, [Next]_vars PROVE Control'
    OBVIOUS
  <1>1. CASE UNCHANGED vars
    BY <1>1 DEF vars, userVars, Control, TypeOK, CallsOk, Placed, Asked, Found, Met, Underway,
                RecordsProven
  <1>2. CASE Next
    BY <1>2, StepControl DEF Next
  <1>3. QED
    BY <1>1, <1>2

LEMMA ControlHolds == Spec => []Control
  <1>1. QED
    BY InitControl, NextControl, PTL DEF Spec

\* Every variable of the service keeps its type: records are complete and of existing users,
\* a call's record exists, and a name is made of words.
THEOREM KycTypes == Spec => []TypeOK
  <1>1. Control => TypeOK
    BY DEF Control
  <1>2. QED
    BY <1>1, ControlHolds, PTL

-----------------------------------------------------------------------------
(* A verified user *)

\* A call that verifies its user has a reason to.
Reasons ==
    \A c \in Call : pc[c] \in {"apply", "mark"} =>
        \/ what[c].kind \in {"verified", "unfounded"}
        \/ \E j \in Job : JobOf(job, j, what[c].user) /\ Passed(job[j])

\* VerifiedByFace, with what makes it inductive.
FaceSafe == Control /\ Reasons /\ VerifiedByFace

LEMMA StartIsBegin ==
    ASSUME NEW c \in Call, Start(c)
    PROVE  \E w, i, place : Begin(c, w, i, place)
  <1>1. CASE \E u \in User, b \in Bvn : VerifyBvn(c, u, b)
    BY <1>1 DEF VerifyBvn
  <1>2. CASE \E u \in User, n \in Nin : VerifyNin(c, u, n)
    BY <1>2 DEF VerifyNin
  <1>3. CASE \E i \in 1..Len(records), j \in Job, r \in Outcome : Webhook(c, j, i, r)
    BY <1>3 DEF Webhook
  <1>4. CASE \E i \in 1..Len(records), verdict \in {"verified", "rejected"} : AdminReview(c, i, verdict)
    BY <1>4 DEF AdminReview
  <1>5. QED
    BY <1>1, <1>2, <1>3, <1>4 DEF Start

\* Who writes users.kyc_status.
LEMMA StatusWritten ==
    ASSUME Control, NEW c \in Call, Start(c) \/ Step(c), NEW u \in User, status'[u] # status[u]
    PROVE  /\ pc[c] # Idle /\ what[c].user = u
           /\ DecideUser(c) \/ Apply(c) \/ RejectUser(c)
  <1>1. ~ Start(c)
    <2> SUFFICES ASSUME Start(c) PROVE FALSE
      OBVIOUS
    <2>1. PICK w, i, place : Begin(c, w, i, place)
      BY StartIsBegin
    <2>2. status' = status
      BY <2>1 DEF Begin, userVars
    <2>3. QED
      BY <2>2
  <1>2. ~ (Ask(c) \/ FindRecord(c) \/ SaveBvn(c) \/ Decide(c) \/ Mark(c) \/ RejectRecord(c) \/ Crash(c))
    BY DEF Ask, AskBvn, AskFace, FindRecord, SaveBvn, Decide, Mark, RejectRecord, SetRecord, Crash, userVars
  <1>3. DecideUser(c) \/ Apply(c) \/ RejectUser(c)
    BY <1>1, <1>2 DEF Step
  <1>4. pc[c] # Idle
    BY <1>3 DEF DecideUser, Apply, RejectUser, Idle
  <1>5. what[c].user \in User /\ status \in [User -> Status]
    BY <1>4, Begun DEF Control, TypeOK
  <1>6. what[c].user = u
    BY <1>3, <1>5 DEF DecideUser, Apply, RejectUser, SetUser
  <1>7. QED
    BY <1>3, <1>4, <1>6

\* A call comes to verify its user for a reason.
LEMMA ComesToVerify ==
    ASSUME Control, NEW c \in Call, Start(c) \/ Step(c), pc'[c] \in {"apply", "mark"}
    PROVE  \/ what'[c].kind \in {"verified", "unfounded"}
           \/ pc[c] = "apply" /\ what'[c] = what[c]
           \/ \E j \in Job : JobOf(job', j, what'[c].user) /\ Passed(job'[j])
  <1>1. TypeOK /\ Placed(c)
    BY DEF Control, CallsOk
  <1>2. ASSUME NEW i \in 1..Len(records), NEW j \in Job, NEW r \in Outcome, Webhook(c, j, i, r)
        PROVE  what'[c].kind = "unfounded" \/ (JobOf(job', j, what'[c].user) /\ Passed(job'[j]))
    <2> DEFINE w == CallbackOf(j, i, r)
               place == IF r = "passed" THEN "apply" ELSE "rejectUser"
    <2>1. /\ j \in {records[i].ref, records[i].ninJob, records[i].bvnJob}
          /\ Begin(c, w, i, place)
      BY <1>2 DEF Webhook
    <2>2. what'[c] = w /\ pc'[c] = place /\ job' = job
      BY <1>1, <2>1 DEF Begin, Goto, TypeOK
    <2>3. r = "passed" /\ w.user = records[i].user
      BY <2>2 DEF CallbackOf
    <2>4. w.kind = "unfounded" \/ Passed(job[j])
      BY <2>3 DEF CallbackOf
    <2>5. Proven(job, records[i])
      BY DEF Control, RecordsProven
    <2>6. j # None
      BY EarlierAssumption DEF Job
    <2>7. JobOf(job, j, records[i].user)
      BY <2>1, <2>5, <2>6 DEF Proven
    <2>8. QED
      BY <2>2, <2>3, <2>4, <2>7
  <1>3. ASSUME Start(c)
        PROVE  what'[c].kind = "unfounded" \/ \E j \in Job : JobOf(job', j, what'[c].user) /\ Passed(job'[j])
    <2>1. ASSUME NEW w, NEW i, Begin(c, w, i, "ask") PROVE FALSE
      BY <1>1, <2>1 DEF Begin, Goto, TypeOK
    <2>2. ASSUME NEW w, NEW i, Begin(c, w, i, "decide") PROVE FALSE
      BY <1>1, <2>2 DEF Begin, Goto, TypeOK
    <2>3. \E i \in 1..Len(records), j \in Job, r \in Outcome : Webhook(c, j, i, r)
      BY <1>3, <2>1, <2>2 DEF Start, VerifyBvn, VerifyNin, AdminReview
    <2>4. QED
      BY <1>2, <2>3
  <1>4. ASSUME NEW outcome \in Outcome, NEW answered \in BOOLEAN, AskFace(c, outcome, answered)
        PROVE  JobOf(job', c, what'[c].user) /\ Passed(job'[c]) /\ c \in Job
    <2> DEFINE result == [kind |-> "face", user |-> what[c].user, number |-> what[c].number,
                          outcome |-> outcome, answer |-> Silence]
    <2>1. c \in Job
      BY DEF Job
    <2>2. job' = [job EXCEPT ![c] = result] /\ job \in [Job -> Result \cup {None}] /\ what' = what
      BY <1>1, <1>4 DEF AskFace, TypeOK
    <2>3. job'[c] = result
      BY <2>1, <2>2
    <2>4. pc'[c] = IF answered /\ Passed(job'[c]) THEN "apply" ELSE "rejectRecord"
      BY <1>1, <1>4 DEF AskFace, Goto, TypeOK
    <2>5. Passed(job'[c])
      BY <2>4
    <2>6. what[c].user \in User /\ what[c].number \in Nin
      BY <1>4, Begun DEF AskFace, Idle
    <2>7. result \in Result /\ result.user = what[c].user
      BY <2>6 DEF Result
    <2>8. result # None
      BY <2>7, NoneAssumption
    <2>9. QED
      BY <2>1, <2>2, <2>3, <2>5, <2>7, <2>8 DEF JobOf
  <1>5. CASE Ask(c)
    <2>1. ASSUME NEW outcome \in Outcome, NEW answer \in Answer, AskBvn(c, outcome, answer) PROVE FALSE
      BY <1>1, <2>1 DEF AskBvn, Goto, TypeOK
    <2>2. QED
      BY <1>4, <1>5, <2>1 DEF Ask
  <1>6. CASE DecideUser(c)
    BY <1>1, <1>6 DEF DecideUser, SetUser, Goto, TypeOK
  <1>7. CASE Apply(c)
    BY <1>7 DEF Apply
  <1>8. ~ (FindRecord(c) \/ SaveBvn(c) \/ Decide(c) \/ Mark(c) \/ RejectRecord(c) \/ RejectUser(c) \/ Crash(c))
    BY <1>1 DEF FindRecord, SaveBvn, Decide, Mark, RejectRecord, RejectUser, SetUser, SetRecord, Crash, Goto, TypeOK
  <1>9. QED
    BY <1>3, <1>5, <1>6, <1>7, <1>8 DEF Step

LEMMA NextFaceSafe == FaceSafe /\ [Next]_vars => FaceSafe'
  <1> SUFFICES ASSUME FaceSafe, [Next]_vars PROVE FaceSafe'
    OBVIOUS
  <1>1. Control' /\ Control
    BY NextControl DEF FaceSafe
  <1>2. CASE UNCHANGED vars
    BY <1>1, <1>2 DEF vars, userVars, FaceSafe, Reasons, VerifiedByFace
  <1>3. ASSUME NEW c \in Call, Start(c) \/ Step(c) PROVE Reasons' /\ VerifiedByFace'
    <2>1. Moves(c)
      BY <1>1, <1>3, StepControl
    <2>2. \A d \in Call : what[d] # None => what'[d] = what[d]
      BY <1>1, <2>1 DEF Moves, Control, CallsOk, Placed
    <2>3. ASSUME NEW u, \E j \in Job : JobOf(job, j, u) /\ Passed(job[j])
          PROVE  \E j \in Job : JobOf(job', j, u) /\ Passed(job'[j])
      <3>1. PICK j \in Job : JobOf(job, j, u) /\ Passed(job[j])
        BY <2>3
      <3>2. job'[j] = job[j] /\ JobOf(job', j, u)
        BY <2>1, <3>1 DEF Moves, Grown, JobOf
      <3>3. QED
        BY <3>1, <3>2
    <2>4. ASSUME NEW d \in Call, pc[d] \in {"apply", "mark"}
          PROVE  what[d].kind \in {"verified", "unfounded"} \/ \E j \in Job : JobOf(job', j, what[d].user) /\ Passed(job'[j])
      BY <2>3, <2>4 DEF FaceSafe, Reasons
    <2>5. ASSUME NEW d \in Call, pc'[d] \in {"apply", "mark"}
          PROVE  what'[d].kind \in {"verified", "unfounded"} \/ \E j \in Job : JobOf(job', j, what'[d].user) /\ Passed(job'[j])
      <3>1. CASE d = c
        BY <1>1, <1>3, <2>4, <2>5, <3>1, ComesToVerify
      <3>2. CASE d # c
        BY <2>1, <2>4, <2>5, <3>2 DEF Moves
      <3>3. QED
        BY <3>1, <3>2
    <2>6. ASSUME NEW u \in User, status'[u] = "verified"
          PROVE  \/ \E j \in Job : job'[j] # None /\ job'[j].user = u /\ Passed(job'[j])
                 \/ \E d \in Call : what'[d] # None /\ what'[d].user = u /\ what'[d].kind \in {"verified", "unfounded"}
      <3>1. CASE status[u] = "verified"
        <4>1. \/ \E j \in Job : JobOf(job, j, u) /\ Passed(job[j])
              \/ \E d \in Call : what[d] # None /\ what[d].user = u /\ what[d].kind \in {"verified", "unfounded"}
          BY <3>1 DEF FaceSafe, VerifiedByFace, JobOf
        <4>2. QED
          BY <2>2, <2>3, <4>1 DEF JobOf
      <3>2. CASE status[u] # "verified"
        <4>1. pc[c] # Idle /\ what[c].user = u /\ (DecideUser(c) \/ Apply(c) \/ RejectUser(c))
          BY <1>1, <1>3, <2>6, <3>2, StatusWritten
        <4>2. what[c] # None /\ what'[c] = what[c] /\ status \in [User -> Status]
          BY <1>1, <2>2, <4>1, Begun DEF Control, TypeOK
        <4>3. CASE DecideUser(c)
          <5>1. status'[u] = what[c].kind
            BY <4>1, <4>2, <4>3 DEF DecideUser, SetUser
          <5>2. QED
            BY <2>6, <4>1, <4>2, <5>1
        <4>4. CASE Apply(c)
          <5>1. what[c].kind \in {"verified", "unfounded"} \/ \E j \in Job : JobOf(job', j, u) /\ Passed(job'[j])
            BY <2>4, <4>1, <4>4 DEF Apply
          <5>2. QED
            BY <4>1, <4>2, <5>1 DEF JobOf
        <4>5. CASE RejectUser(c)
          BY <2>6, <4>1, <4>2, <4>5 DEF RejectUser, SetUser
        <4>6. QED
          BY <4>1, <4>3, <4>4, <4>5
      <3>3. QED
        BY <3>1, <3>2
    <2>7. Reasons'
      BY <2>5 DEF Reasons
    <2>8. VerifiedByFace'
      BY <2>6 DEF VerifiedByFace
    <2>9. QED
      BY <2>7, <2>8
  <1>4. QED
    BY <1>1, <1>2, <1>3 DEF Next, FaceSafe

\* Nobody becomes verified but by a job of their own that passed, number, face and liveness,
\* by an administrator's approval, or by a callback that claimed such a job where there was
\* none, whatever the order of replies, callbacks and reviews.
THEOREM VerificationIsEarned == Spec => []VerifiedByFace
  <1>1. Init => FaceSafe
    <2> SUFFICES ASSUME Init PROVE FaceSafe
      OBVIOUS
    <2>1. Reasons /\ VerifiedByFace
      BY DEF Init, Reasons, VerifiedByFace, Idle
    <2>2. QED
      BY <2>1, InitControl DEF FaceSafe
  <1>2. FaceSafe => VerifiedByFace
    BY DEF FaceSafe
  <1>3. QED
    BY <1>1, <1>2, NextFaceSafe, PTL DEF Spec

-----------------------------------------------------------------------------
(* A verified name *)

\* Who writes the names of a user.
LEMMA NameWritten ==
    ASSUME Control, NEW c \in Call, Start(c) \/ Step(c), NEW u \in User,
           verifiedName'[u] # verifiedName[u] \/ name'[u] # name[u]
    PROVE  Apply(c) /\ what[c].user = u
  <1>1. ~ Start(c)
    <2> SUFFICES ASSUME Start(c) PROVE FALSE
      OBVIOUS
    <2>1. PICK w, i, place : Begin(c, w, i, place)
      BY StartIsBegin
    <2>2. verifiedName' = verifiedName /\ name' = name
      BY <2>1 DEF Begin, userVars
    <2>3. QED
      BY <2>2
  <1>2. ~ (Ask(c) \/ FindRecord(c) \/ SaveBvn(c) \/ Decide(c) \/ Mark(c) \/ RejectRecord(c) \/ Crash(c))
    BY DEF Ask, AskBvn, AskFace, FindRecord, SaveBvn, Decide, Mark, RejectRecord, SetRecord, Crash, userVars
  <1>3. ~ (DecideUser(c) \/ RejectUser(c))
    BY DEF DecideUser, RejectUser, SetUser
  <1>4. Apply(c)
    BY <1>1, <1>2, <1>3 DEF Step
  <1>5. what[c].user \in User /\ name \in [User -> Name] /\ verifiedName \in [User -> Seq(Word) \cup {None}]
    BY <1>4, Begun DEF Control, TypeOK, Apply, Idle
  <1>6. what[c].user = u
    BY <1>4, <1>5 DEF Apply
  <1>7. QED
    BY <1>4, <1>6

\* What a call applies: the name is of its user's words, and the verified name is there.
LEMMA Applied ==
    ASSUME Control, NEW c \in Call, Apply(c)
    PROVE  /\ what[c] # None /\ what[c].user \in User
           /\ copy[c].record.meta \in PersonName /\ copy[c].own \in Name
           /\ Proven(job, copy[c].record) /\ copy[c].record.user = what[c].user
           /\ LET n == ResolveName(copy[c].record.meta, copy[c].own)
              IN  /\ name'[what[c].user] = [first |-> n.first, last |-> n.last]
                  /\ verifiedName'[what[c].user] = n.full
           /\ verifiedName'[what[c].user] # None
  <1>1. TypeOK /\ Placed(c) /\ Found(c) /\ pc[c] = "apply" /\ pc[c] # Idle
    BY DEF Control, CallsOk, Apply, Idle
  <1>2. what[c] # None /\ what[c].user \in User /\ what[c].kind # "bvn"
    BY <1>1, Begun DEF Placed
  <1>3. copy[c] \in Copy /\ copy[c].record.user = what[c].user /\ Proven(job, copy[c].record)
    BY <1>1, <1>2 DEF Found, Control, RecordsProven
  <1>4. copy[c].record.meta \in PersonName /\ copy[c].own \in Name
    BY <1>3 DEF Copy, Record
  <1> DEFINE n == ResolveName(copy[c].record.meta, copy[c].own)
  <1>5. name'[what[c].user] = [first |-> n.first, last |-> n.last] /\ verifiedName'[what[c].user] = n.full
    BY <1>1, <1>2 DEF Apply, TypeOK
  <1>6. n.full \in Seq(Word)
    BY <1>4, ResolvedName
  <1> HIDE DEF n
  <1>7. verifiedName'[what[c].user] # None
    BY <1>5, <1>6, NamesAreNames
  <1>8. QED
    BY <1>2, <1>3, <1>4, <1>5, <1>7 DEF n

\* "The user row is never left in a partial state", unless an approval is under way for that
\* user, or broke off between the two writes.
THEOREM VerifiedHasName == Spec => []NamedWhenVerified
  <1>1. Init => NamedWhenVerified
    BY DEF Init, NamedWhenVerified
  <1>2. Control /\ NamedWhenVerified /\ [Next]_vars => NamedWhenVerified'
    <2> SUFFICES ASSUME Control, NamedWhenVerified, [Next]_vars PROVE NamedWhenVerified'
      OBVIOUS
    <2>1. CASE UNCHANGED vars
      BY <2>1 DEF vars, userVars, NamedWhenVerified
    <2>2. ASSUME NEW c \in Call, Start(c) \/ Step(c),
                 NEW u \in User, status'[u] = "verified", verifiedName'[u] = None
          PROVE  \E d \in Call : /\ what'[d] # None
                                 /\ what'[d].user = u /\ what'[d].kind = "verified"
                                 /\ pc'[d] \in {"apply", "failed"}
      <3>1. Control' /\ Moves(c) /\ TypeOK
        BY <2>2, StepControl DEF Control
      <3>2. ~ (Apply(c) /\ what[c].user = u)
        BY <2>2, Applied
      <3>3. verifiedName[u] = None
        BY <2>2, <3>2, NameWritten
      <3>4. CASE status[u] = "verified"
        <4>1. PICK d \in Call : /\ what[d] # None
                               /\ what[d].user = u /\ what[d].kind = "verified"
                               /\ pc[d] \in {"apply", "failed"}
          BY <3>3, <3>4 DEF NamedWhenVerified
        <4>2. CASE d # c
          BY <3>1, <4>1, <4>2 DEF Moves
        <4>3. CASE d = c
          <5>1. ~ Start(c)
            <6> SUFFICES ASSUME Start(c) PROVE FALSE
              OBVIOUS
            <6>1. PICK w, i, place : Begin(c, w, i, place)
              BY StartIsBegin
            <6>2. QED
              BY <4>1, <4>3, <6>1 DEF Begin, Idle
          <5>2. Crash(c)
            BY <2>2, <3>2, <4>1, <4>3, <5>1
               DEF Step, Ask, AskBvn, AskFace, FindRecord, SaveBvn, Decide, DecideUser, Mark,
                   RejectRecord, RejectUser
          <5>3. pc'[c] = "failed" /\ what'[c] = what[c]
            BY <3>1, <5>2 DEF Crash, Goto, TypeOK
          <5>4. QED
            BY <4>1, <4>3, <5>3
        <4>4. QED
          BY <4>2, <4>3
      <3>5. CASE status[u] # "verified"
        <4>1. pc[c] # Idle /\ what[c].user = u /\ (DecideUser(c) \/ Apply(c) \/ RejectUser(c))
          BY <2>2, <3>5, StatusWritten
        <4>2. what[c] # None /\ what'[c] = what[c] /\ status \in [User -> Status]
          BY <3>1, <4>1, Begun DEF Moves, TypeOK
        <4>3. ~ RejectUser(c)
          BY <2>2, <4>1, <4>2 DEF RejectUser, SetUser
        <4>4. DecideUser(c)
          BY <3>2, <4>1, <4>3
        <4>5. what[c].kind = "verified" /\ pc'[c] = "apply"
          BY <2>2, <3>1, <4>1, <4>2, <4>4 DEF DecideUser, SetUser, Goto, TypeOK
        <4>6. QED
          BY <4>1, <4>2, <4>5
      <3>6. QED
        BY <3>4, <3>5
    <2>3. QED
      BY <2>1, <2>2 DEF Next, NamedWhenVerified
  <1>3. QED
    BY <1>1, <1>2, ControlHolds, PTL DEF Spec

\* The words of a user's name, and of a copy of it.
NamesKnown ==
    /\ \A u \in User : NameWords(name[u]) \subseteq {u} \cup WordsFor(u)
    /\ \A c \in Call : what[c] # None /\ what[c].kind # "bvn" =>
         NameWords(copy[c].own) \subseteq {what[c].user} \cup WordsFor(what[c].user)

\* NameProven, with what makes it inductive.
NameSafe == Control /\ NamesKnown /\ NameProven

\* The words that jobs of a user have returned stay there.
LEMMA WordsGrow ==
    ASSUME NEW u, Grown
    PROVE  WordsFor(u) \subseteq WordsFor(u)'
  <1>1. \A j \in Job : job[j] # None /\ job[j].user = u => job'[j] # None /\ job'[j].user = u /\ job'[j].answer = job[j].answer
    BY DEF Grown
  <1>2. QED
    BY <1>1 DEF WordsFor

\* The name in a record's metadata is of words that a job of its user has returned.
LEMMA MetaWords ==
    ASSUME TypeOK, NEW r, Proven(job, r)
    PROVE  LET answer == job[r.bvnJob].answer
           IN  /\ NameOf(r.meta, WordsOf(answer)) /\ WordsOf(answer) \subseteq WordsFor(r.user)
               /\ IF answer = Silence THEN r.meta = Silence ELSE r.meta.full # <<>>
  <1> DEFINE answer == job[r.bvnJob].answer
  <1>1. r.bvnJob \in Job /\ job[r.bvnJob] # None /\ job[r.bvnJob].user = r.user
    BY DEF Proven, JobOf
  <1>2. job[r.bvnJob] \in Result
    BY <1>1 DEF TypeOK
  <1>3. answer \in Answer \cup {Silence}
    BY <1>2 DEF Result
  <1>4. r.meta = ExtractName(Parsed(answer))
    BY DEF Proven
  <1>5. WordsOf(answer) \subseteq WordsFor(r.user)
    BY <1>1 DEF WordsFor
  <1> HIDE DEF answer
  <1>6. QED
    BY <1>3, <1>4, <1>5, ExtractedName DEF answer

\* Job j explains the verified name v of user u.
Explains(jobs, words, j, u, v) ==
    /\ jobs[j] # None /\ jobs[j].kind = "bvn" /\ jobs[j].user = u /\ IdVerified(jobs[j])
    /\ IF jobs[j].answer = Silence THEN Range(v) \subseteq {u} \cup words
       ELSE v # <<>> /\ Range(v) \subseteq WordsOf(jobs[j].answer)

LEMMA NameExplained ==
    NameProven <=> \A u \in User : verifiedName[u] # None =>
                       \E j \in Job : Explains(job, WordsFor(u), j, u, verifiedName[u])
  BY DEF NameProven, ProvesBvn, Explains

\* What a call applies is explained by the job of the record that it has read.
LEMMA AppliedName ==
    ASSUME Control, NamesKnown, NEW c \in Call, Apply(c)
    PROVE  LET u == what[c].user
           IN  /\ NameWords(name'[u]) \subseteq {u} \cup WordsFor(u)
               /\ \E j \in Job : Explains(job, WordsFor(u), j, u, verifiedName'[u])
  <1> DEFINE u == what[c].user
             r == copy[c].record
             own == copy[c].own
             n == ResolveName(r.meta, own)
             answer == job[r.bvnJob].answer
  <1>1. /\ what[c] # None /\ u \in User
        /\ r.meta \in PersonName /\ own \in Name /\ Proven(job, r) /\ r.user = u
        /\ name'[u] = [first |-> n.first, last |-> n.last] /\ verifiedName'[u] = n.full
    BY Applied
  <1>2. /\ NameOf(r.meta, WordsOf(answer)) /\ WordsOf(answer) \subseteq WordsFor(u)
        /\ IF answer = Silence THEN r.meta = Silence ELSE r.meta.full # <<>>
    BY <1>1, MetaWords DEF Control
  <1>3. NameWords(own) \subseteq {u} \cup WordsFor(u)
    <2>1. what[c].kind # "bvn"
      BY DEF Control, CallsOk, Placed, Apply
    <2>2. QED
      BY <1>1, <2>1 DEF NamesKnown
  <1>4. /\ NameWords(n) \subseteq NameWords(r.meta) \cup NameWords(own)
        /\ IF r.meta.full # <<>> THEN n.full = r.meta.full ELSE Range(n.full) = NameWords(n)
    BY <1>1, ResolvedName
  <1>5. /\ r.bvnJob \in Job /\ job[r.bvnJob] # None /\ job[r.bvnJob].kind = "bvn"
        /\ job[r.bvnJob].user = u /\ IdVerified(job[r.bvnJob])
    BY <1>1 DEF Proven, JobOf
  <1>6. NameWords(name'[u]) = NameWords(n)
    BY <1>1 DEF NameWords
  <1>7. NameWords(n) \subseteq {u} \cup WordsFor(u)
    BY <1>2, <1>3, <1>4 DEF NameOf
  <1> HIDE DEF u, r, own, n, answer
  <1>8. CASE answer = Silence
    <2>1. r.meta.full = <<>>
      BY <1>2, <1>8 DEF Silence
    <2>2. Range(verifiedName'[u]) \subseteq {u} \cup WordsFor(u)
      BY <1>1, <1>4, <1>7, <2>1
    <2>3. QED
      BY <1>5, <1>6, <1>7, <1>8, <2>2 DEF Explains, u, answer
  <1>9. CASE answer # Silence
    <2>1. verifiedName'[u] = r.meta.full /\ r.meta.full # <<>>
      BY <1>1, <1>2, <1>4, <1>9
    <2>2. Range(r.meta.full) \subseteq WordsOf(answer)
      BY <1>2 DEF NameOf
    <2>3. QED
      BY <1>5, <1>6, <1>7, <1>9, <2>1, <2>2 DEF Explains, u, answer
  <1>10. QED
    BY <1>8, <1>9

LEMMA NextNameSafe == NameSafe /\ [Next]_vars => NameSafe'
  <1> SUFFICES ASSUME NameSafe, [Next]_vars PROVE NameSafe'
    OBVIOUS
  <1>1. Control /\ Control' /\ TypeOK
    BY NextControl DEF NameSafe, Control
  <1>2. CASE UNCHANGED vars
    <2>1. name' = name /\ copy' = copy /\ what' = what /\ verifiedName' = verifiedName /\ job' = job
      BY <1>2 DEF vars, userVars
    <2>2. \A u : WordsFor(u)' = WordsFor(u)
      BY <2>1 DEF WordsFor
    <2>3. \A d \in Call : WordsFor(what[d].user)' = WordsFor(what[d].user)
      BY <2>1 DEF WordsFor
    <2>4. NamesKnown'
      <3>1. \A u \in User : NameWords(name[u])' = NameWords(name[u])
        BY <2>1 DEF NameWords
      <3>2. \A d \in Call : NameWords(copy[d].own)' = NameWords(copy[d].own)
        BY <2>1 DEF NameWords
      <3>3. QED
        BY <2>1, <2>2, <2>3, <3>1, <3>2 DEF NameSafe, NamesKnown
    <2>5. NameProven'
      BY <2>1, <2>2 DEF NameSafe, NameProven, ProvesBvn
    <2>6. QED
      BY <1>1, <2>4, <2>5 DEF NameSafe
  <1>3. ASSUME NEW c \in Call, Start(c) \/ Step(c) PROVE NamesKnown' /\ NameProven'
    <2>1. Moves(c) /\ Grown
      BY <1>1, <1>3, StepControl DEF Moves
    <2>2. \A u : WordsFor(u) \subseteq WordsFor(u)'
      BY <2>1, WordsGrow
    <2>3. ASSUME Apply(c)
          PROVE  LET u == what[c].user
                 IN  /\ NameWords(name'[u]) \subseteq {u} \cup WordsFor(u)
                     /\ \E j \in Job : Explains(job, WordsFor(u), j, u, verifiedName'[u])
      BY <1>1, <2>3, AppliedName DEF NameSafe
    <2>4. ASSUME NEW u \in User
          PROVE  NameWords(name'[u]) \subseteq {u} \cup WordsFor(u)'
      <3>1. NameWords(name'[u]) \subseteq {u} \cup WordsFor(u)
        <4>1. CASE name'[u] = name[u]
          BY <4>1 DEF NameSafe, NamesKnown
        <4>2. CASE name'[u] # name[u]
          BY <1>1, <1>3, <2>3, <4>2, NameWritten
        <4>3. QED
          BY <4>1, <4>2
      <3>2. QED
        BY <2>2, <3>1
    <2>5. ASSUME NEW d \in Call, what'[d] # None, what'[d].kind # "bvn"
          PROVE  NameWords(copy'[d].own) \subseteq {what'[d].user} \cup WordsFor(what[d].user)'
      <3>0. ASSUME NEW v, v = what'[d].user PROVE WordsFor(v) \subseteq WordsFor(what[d].user)'
        <4>1. WordsFor(v)' = WordsFor(what[d].user)'
          BY <3>0 DEF WordsFor
        <4>2. QED
          BY <2>2, <4>1
      <3>1. CASE what'[d] = what[d] /\ copy'[d] = copy[d]
        <4>1. NameWords(copy[d].own) \subseteq {what[d].user} \cup WordsFor(what[d].user)
          BY <2>5, <3>1 DEF NameSafe, NamesKnown
        <4>2. QED
          BY <3>0, <3>1, <4>1
      <3>2. CASE ~ (what'[d] = what[d] /\ copy'[d] = copy[d])
        <4>1. d = c /\ pc[c] = Idle
          BY <2>1, <3>2 DEF Moves
        <4>2. Start(c)
          BY <1>3, <4>1 DEF Step, Ask, AskBvn, AskFace, FindRecord, SaveBvn, Decide, DecideUser, Apply, Mark,
                            RejectRecord, RejectUser, Crash, Underway, Idle
        <4>3. PICK w, i, place : Begin(c, w, i, place)
          BY <4>2, StartIsBegin
        <4>4. Found(d)'
          BY <1>1 DEF Control, CallsOk
        <4>5. copy'[d] \in Copy /\ copy'[d].record.user = what'[d].user /\ at'[d] \in 1..Len(records')
          BY <2>5, <4>4 DEF Found
        <4>6. at'[d] = i /\ records' = records
          BY <1>1, <4>1, <4>3 DEF Begin, TypeOK
        <4>7. i # 0
          BY <1>1, <4>5, <4>6, RecordsTyped
        <4>8. copy'[d] = [record |-> records[i], own |-> name[records[i].user]]
          BY <1>1, <4>1, <4>3, <4>7 DEF Begin, TypeOK
        <4>9. copy'[d].own = name[what'[d].user] /\ what'[d].user \in User
          BY <1>1, <4>5, <4>6, <4>8, RecordsTyped
        <4>10. NameWords(name[what'[d].user])
                 \subseteq {what'[d].user} \cup WordsFor(what'[d].user)
          BY <4>9 DEF NameSafe, NamesKnown
        <4>11. QED
          BY <3>0, <4>9, <4>10
      <3>3. QED
        BY <3>1, <3>2
    <2>6. ASSUME NEW u \in User, verifiedName'[u] # None
          PROVE  \E j \in Job : Explains(job', WordsFor(u)', j, u, verifiedName'[u])
      <3>1. PICK j \in Job : Explains(job, WordsFor(u), j, u, verifiedName'[u])
        <4>1. CASE verifiedName'[u] = verifiedName[u]
          BY <2>6, <4>1, NameExplained DEF NameSafe
        <4>2. CASE verifiedName'[u] # verifiedName[u]
          BY <1>1, <1>3, <2>3, <4>2, NameWritten
        <4>3. QED
          BY <4>1, <4>2
      <3>2. job'[j] = job[j]
        BY <2>1, <3>1 DEF Grown, Explains
      <3>3. QED
        BY <2>2, <3>1, <3>2 DEF Explains
    <2>7. NamesKnown'
      BY <2>4, <2>5 DEF NamesKnown
    <2>8. NameProven'
      BY <2>6 DEF NameProven, ProvesBvn, Explains
    <2>9. QED
      BY <2>7, <2>8
  <1>4. QED
    BY <1>1, <1>2, <1>3 DEF Next, NameSafe

\* A verified name is made of what Smile returned for a BVN of this very user, or of the
\* profile's words if Smile returned none, however old the record was that a call has read.
THEOREM NameIsProven == Spec => []NameProven
  <1>1. Init => NameSafe
    <2> SUFFICES ASSUME Init PROVE NameSafe
      OBVIOUS
    <2>1. NamesKnown /\ NameProven
      <3>1. \A u \in User : name[u] = [first |-> <<u>>, last |-> <<u>>] /\ verifiedName[u] = None
        BY DEF Init, Own
      <3>2. \A u : Range(<<u>>) = {u}
        BY DEF Range
      <3>3. \A c \in Call : what[c] = None
        BY DEF Init
      <3>4. ASSUME NEW u \in User PROVE NameWords(name[u]) \subseteq {u} \cup WordsFor(u)
        <4>1. name[u].first = <<u>> /\ name[u].last = <<u>>
          <5> DEFINE own == <<u>>
          <5>1. name[u] = [first |-> own, last |-> own]
            BY <3>1
          <5> HIDE DEF own
          <5>2. name[u].first = own /\ name[u].last = own
            BY <5>1
          <5>3. QED
            BY <5>2 DEF own
        <4>2. NameWords(name[u]) = {u}
          BY <3>2, <4>1 DEF NameWords
        <4>3. QED
          BY <4>2
      <3>5. NamesKnown
        BY <3>3, <3>4 DEF NamesKnown
      <3>6. NameProven
        BY <3>1 DEF NameProven
      <3>7. QED
        BY <3>5, <3>6
    <2>2. QED
      BY <2>1, InitControl DEF NameSafe
  <1>2. NameSafe => NameProven
    BY DEF NameSafe
  <1>3. QED
    BY <1>1, <1>2, NextNameSafe, PTL DEF Spec

-----------------------------------------------------------------------------
(* Numbers *)

\* Rejected records are known to be so, and a NIN comes with a face, not with a BVN.
Marked ==
    \A i \in 1..Len(records) :
        /\ records[i].status = "rejected" => i \in overruled
        /\ records[i].status = "submitted" => records[i].nin = None

\* Two of these users' calls overlapped.
Overlapped(m, asked, users) ==
    \E c, d \in Call : /\ {c, d} \in m
                       /\ asked[c] # None /\ asked[c].user \in users
                       /\ asked[d] # None /\ asked[d].user \in users

\* Two records hold one BVN, or one verified NIN.
Holding == {"submitted", "verified"}
HoldBvn(r, s) == r.bvn = s.bvn /\ r.status \in Holding /\ s.status \in Holding
HoldNin(r, s) == r.nin = s.nin /\ r.nin # None /\ r.status = "verified" /\ s.status = "verified"

\* They do so for a reason.
Excused(r, s, m, asked) ==
    /\ HoldBvn(r, s) => {r.ref, s.ref} \in m
    /\ HoldNin(r, s) => Overlapped(m, asked, {r.user, s.user})

HeldApart(recs, over, m, asked) ==
    \A i, k \in 1..Len(recs) :
        recs[i].user # recs[k].user /\ i \notin over /\ k \notin over => Excused(recs[i], recs[k], m, asked)

\* A check that has found its BVN free: who has it since has overlapped the check.
BvnWatched(c) ==
    pc[c] \in {"ask", "find", "save"} /\ what[c].kind = "bvn" =>
        \A k \in 1..Len(records) :
            /\ records[k].user # what[c].user /\ records[k].bvn = what[c].number
            /\ records[k].status \in Holding
            => {c, records[k].ref} \in met \/ k \in overruled

\* The NIN that a call will write, and who has it by then.
Brings(asked, seen) == IF asked.kind = "face" THEN asked.number ELSE seen.record.nin

Marking(c) == pc[c] \in {"ask", "apply", "mark"} /\ what[c].kind \in {"face", "webhook", "unfounded"}

NinWatched(c) ==
    Marking(c) /\ Brings(what[c], copy[c]) # None =>
        \A i \in 1..Len(records) :
            /\ records[i].user # what[c].user /\ records[i].nin = Brings(what[c], copy[c])
            /\ records[i].status = "verified"
            => \/ i \in overruled \/ at[c] \in overruled
               \/ Overlapped(met, what, {records[i].user, what[c].user})

\* NumberHeldOnce, with what makes it inductive.
NumberSafe ==
    /\ Control /\ Marked /\ NumberHeldOnce
    /\ \A c \in Call : BvnWatched(c) /\ NinWatched(c)

LEMMA HeldOnce ==
    /\ NumberHeldOnce <=> HeldApart(records, overruled, met, what)
    /\ NumberHeldOnce' <=> HeldApart(records', overruled', met', what')
  <1>1. ASSUME NEW over, NEW i, NEW k PROVE {i, k} \cap over = {} <=> i \notin over /\ k \notin over
    OBVIOUS
  <1>2. ASSUME NEW a, NEW b PROVE {a, b} \subseteq {"submitted", "verified"} <=> a \in Holding /\ b \in Holding
    BY DEF Holding
  <1>3. ASSUME NEW r, NEW s, NEW m, NEW asked
        PROVE  Excused(r, s, m, asked) <=>
                 /\ r.bvn = s.bvn /\ {r.status, s.status} \subseteq {"submitted", "verified"} =>
                       {r.ref, s.ref} \in m
                 /\ r.nin = s.nin /\ r.nin # None /\ r.status = "verified" /\ s.status = "verified" =>
                       Overlapped(m, asked, {r.user, s.user})
    BY <1>2 DEF Excused, HoldBvn, HoldNin
  <1>4. NumberHeldOnce <=> HeldApart(records, overruled, met, what)
    <2>1. \A users : Overlap(users) <=> Overlapped(met, what, users)
      BY DEF Overlap, Overlapped
    <2>2. QED
      BY <1>1, <1>3, <2>1 DEF NumberHeldOnce, HeldApart
  <1>5. NumberHeldOnce' <=> HeldApart(records', overruled', met', what')
    <2>1. \A users : Overlap(users)' <=> Overlapped(met', what', users)
      BY DEF Overlap, Overlapped
    <2>2. QED
      BY <1>1, <1>3, <2>1 DEF NumberHeldOnce, HeldApart
  <1>6. QED
    BY <1>4, <1>5

\* An excuse serves both ways, and does not go away.
LEMMA ExcuseStays ==
    ASSUME NEW r, NEW s, NEW m, NEW m1, NEW asked, NEW asked1, m \subseteq m1,
           \A d \in Call : asked[d] # None => asked1[d] = asked[d]
    PROVE  /\ \A users : Overlapped(m, asked, users) => Overlapped(m1, asked1, users)
           /\ Excused(r, s, m, asked) => Excused(s, r, m, asked) /\ Excused(r, s, m1, asked1)
  <1>1. ASSUME NEW users, Overlapped(m, asked, users) PROVE Overlapped(m1, asked1, users)
    <2>1. PICK c \in Call, d \in Call : /\ {c, d} \in m
                                       /\ asked[c] # None /\ asked[c].user \in users
                                       /\ asked[d] # None /\ asked[d].user \in users
      BY <1>1 DEF Overlapped
    <2>2. asked1[c] = asked[c] /\ asked1[d] = asked[d] /\ {c, d} \in m1
      BY <2>1
    <2>3. QED
      BY <2>1, <2>2 DEF Overlapped
  <1>2. {r.ref, s.ref} = {s.ref, r.ref} /\ {r.user, s.user} = {s.user, r.user}
    OBVIOUS
  <1>3. ASSUME Excused(r, s, m, asked) PROVE Excused(s, r, m, asked)
    <2>1. HoldBvn(s, r) => {s.ref, r.ref} \in m
      BY <1>2, <1>3 DEF Excused, HoldBvn
    <2>2. HoldNin(s, r) => Overlapped(m, asked, {s.user, r.user})
      <3>1. HoldNin(s, r) => HoldNin(r, s)
        BY DEF HoldNin
      <3>2. QED
        BY <1>2, <1>3, <3>1 DEF Excused
    <2>3. QED
      BY <2>1, <2>2 DEF Excused
  <1>4. ASSUME Excused(r, s, m, asked) PROVE Excused(r, s, m1, asked1)
    BY <1>1, <1>4 DEF Excused
  <1>5. QED
    BY <1>1, <1>3, <1>4

\* Requests and overlaps stay.
LEMMA MetGrows ==
    ASSUME Control, NEW c \in Call, Start(c) \/ Step(c)
    PROVE  /\ met \subseteq met' /\ \A d \in Call : what[d] # None => what'[d] = what[d]
           /\ Step(c) => met' = met /\ Underway(c)
  <1>1. Moves(c)
    BY StepControl
  <1>2. \A d \in Call : what[d] # None => what'[d] = what[d]
    BY <1>1 DEF Moves, Control, CallsOk, Placed
  <1>3. CASE Start(c)
    <2>1. PICK w, i, place : Begin(c, w, i, place)
      BY <1>3, StartIsBegin
    <2>2. met \subseteq met' /\ ~ Underway(c) /\ pc[c] = Idle
      BY <2>1 DEF Begin, Underway
    <2>3. ~ Step(c)
      BY <2>2 DEF Step, Ask, AskBvn, AskFace, FindRecord, SaveBvn, Decide, DecideUser, Apply, Mark,
                  RejectRecord, RejectUser, Crash, Idle, Underway
    <2>4. QED
      BY <1>2, <2>2, <2>3
  <1>4. CASE Step(c)
    <2>1. Underway(c) /\ met' = met
      BY <1>4 DEF Step, Ask, AskBvn, AskFace, FindRecord, SaveBvn, Decide, DecideUser, Apply, Mark,
                  RejectRecord, RejectUser, Crash, SetUser, SetRecord, Underway, Idle, Finished
    <2>2. QED
      BY <1>2, <2>1
  <1>5. QED
    BY <1>3, <1>4

\* Two calls under way have overlapped.
LEMMA UnderwayOverlap ==
    ASSUME Control, NEW c \in Call, NEW d \in Call, c # d, Underway(c), Underway(d)
    PROVE  /\ what[c] # None /\ what[d] # None /\ {c, d} \in met
           /\ \A users : what[c].user \in users /\ what[d].user \in users => Overlapped(met, what, users)
  <1>1. {c, d} \in met
    BY DEF Control, Met
  <1>2. what[c] # None /\ what[d] # None
    BY DEF Control, CallsOk, Placed, Underway
  <1>3. QED
    BY <1>1, <1>2 DEF Overlapped

\* Without an overlap, the call that steps is the only one under way.
LEMMA Alone ==
    ASSUME Control, NEW c \in Call, Start(c) \/ Step(c), met' = {}
    PROVE  /\ met = {}
           /\ \A d \in Call \ {c} : ~ Underway(d) /\ ~ Underway(d)'
  <1>1. Moves(c)
    BY StepControl
  <1>2. met = {}
    BY MetGrows
  <1>3. \A d \in Call \ {c} : ~ Underway(d)
    <2>1. CASE Start(c)
      <3>1. PICK w, i, place : Begin(c, w, i, place)
        BY <2>1, StartIsBegin
      <3>2. QED
        BY <3>1 DEF Begin
    <2>2. CASE Step(c)
      BY <1>2, <2>2, MetGrows, UnderwayOverlap
    <2>3. QED
      BY <2>1, <2>2
  <1>4. QED
    BY <1>1, <1>2, <1>3 DEF Moves, Underway

\* A review, a check's result and a rejection write one record.
LEMMA RecordSet ==
    ASSUME Control, NEW c \in Call, Decide(c) \/ Mark(c) \/ RejectRecord(c)
    PROVE  /\ at[c] \in 1..Len(records) /\ Len(records') = Len(records) /\ records[at[c]].user = what[c].user
           /\ \A k \in 1..Len(records) : k # at[c] => records'[k] = records[k]
           /\ records'[at[c]].user = records[at[c]].user
           /\ records'[at[c]].bvn = records[at[c]].bvn /\ records'[at[c]].ref = records[at[c]].ref
           /\ records'[at[c]].status \in {"verified", "rejected"}
           /\ records'[at[c]].status = IF Mark(c) THEN "verified"
                                      ELSE IF Decide(c) THEN what[c].kind ELSE "rejected"
           /\ records'[at[c]].nin = IF ~ Mark(c) THEN records[at[c]].nin
                                   ELSE IF what[c].kind = "face" THEN what[c].number
                                   ELSE copy[c].record.nin
           /\ overruled' = IF records'[at[c]].status = "rejected" THEN overruled \cup {at[c]} ELSE overruled
  <1> DEFINE old == records[at[c]]
             seen == copy[c].record
             decided == [old EXCEPT !.status = what[c].kind]
             rejected == [old EXCEPT !.status = "rejected"]
             marked == [old EXCEPT !.status = "verified", !.meta = seen.meta, !.bvnJob = seen.bvnJob,
                              !.nin = IF what[c].kind = "face" THEN what[c].number ELSE seen.nin,
                              !.ninJob = IF what[c].kind = "face" THEN c ELSE seen.ninJob]
  <1>1. TypeOK /\ Placed(c) /\ Found(c) /\ pc[c] \in {"decide", "mark", "rejectRecord"}
    BY DEF Control, CallsOk, Decide, Mark, RejectRecord
  <1>2. what[c].kind # "bvn" /\ what[c] # None
    BY <1>1 DEF Placed, Idle
  <1>3. at[c] \in 1..Len(records) /\ old \in Record /\ old.user = what[c].user
    BY <1>1, <1>2, RecordsTyped DEF Found
  <1>4. records \in Seq(Record)
    BY <1>1 DEF TypeOK
  <1>5. ASSUME NEW r, NEW place, SetRecord(c, at[c], r, place)
        PROVE  /\ Len(records') = Len(records) /\ records'[at[c]] = r
               /\ \A k \in 1..Len(records) : k # at[c] => records'[k] = records[k]
               /\ overruled' = IF r.status = "rejected" THEN overruled \cup {at[c]} ELSE overruled
    BY <1>3, <1>4, <1>5 DEF SetRecord
  <1>6. CASE Decide(c)
    <2>1. ~ Mark(c) /\ what[c].kind \in {"verified", "rejected"}
      BY <1>1, <1>6 DEF Decide, Mark, Placed
    <2>2. SetRecord(c, at[c], decided, "decideUser")
      BY <1>6 DEF Decide
    <2>3. /\ decided.status = what[c].kind /\ decided.nin = old.nin /\ decided.user = old.user
          /\ decided.bvn = old.bvn /\ decided.ref = old.ref
      BY <1>3 DEF Record
    <2> HIDE DEF decided
    <2>4. /\ Len(records') = Len(records) /\ records'[at[c]] = decided
          /\ \A k \in 1..Len(records) : k # at[c] => records'[k] = records[k]
          /\ overruled' = IF decided.status = "rejected" THEN overruled \cup {at[c]} ELSE overruled
      BY <1>5, <2>2
    <2>5. QED
      BY <1>3, <1>6, <2>1, <2>3, <2>4
  <1>7. CASE RejectRecord(c)
    <2>1. ~ Mark(c) /\ ~ Decide(c)
      BY <1>1, <1>7 DEF Decide, Mark, RejectRecord
    <2>2. PICK place : SetRecord(c, at[c], rejected, place)
      BY <1>7 DEF RejectRecord
    <2>3. /\ rejected.status = "rejected" /\ rejected.nin = old.nin /\ rejected.user = old.user
          /\ rejected.bvn = old.bvn /\ rejected.ref = old.ref
      BY <1>3 DEF Record
    <2> HIDE DEF rejected
    <2>4. /\ Len(records') = Len(records) /\ records'[at[c]] = rejected
          /\ \A k \in 1..Len(records) : k # at[c] => records'[k] = records[k]
          /\ overruled' = IF rejected.status = "rejected" THEN overruled \cup {at[c]} ELSE overruled
      BY <1>5, <2>2
    <2>5. QED
      BY <1>3, <1>7, <2>1, <2>3, <2>4
  <1>8. CASE Mark(c)
    <2>1. SetRecord(c, at[c], marked, "done")
      BY <1>8 DEF Mark
    <2>2. /\ marked.status = "verified" /\ marked.user = old.user /\ marked.bvn = old.bvn /\ marked.ref = old.ref
          /\ marked.nin = IF what[c].kind = "face" THEN what[c].number ELSE seen.nin
      BY <1>3 DEF Record
    <2> HIDE DEF marked
    <2>3. /\ Len(records') = Len(records) /\ records'[at[c]] = marked
          /\ \A k \in 1..Len(records) : k # at[c] => records'[k] = records[k]
          /\ overruled' = IF marked.status = "rejected" THEN overruled \cup {at[c]} ELSE overruled
      BY <1>5, <2>1
    <2>4. QED
      BY <1>3, <1>8, <2>2, <2>3
  <1>9. QED
    BY <1>6, <1>7, <1>8

\* A BVN that was found in order replaces the record it knows of, or is a new one.
LEMMA RecordSaved ==
    ASSUME Control, NEW c \in Call, SaveBvn(c)
    PROVE  LET w == IF at[c] = 0 THEN Len(records) + 1 ELSE at[c]
           IN  /\ what[c].user \in User
               /\ w \in 1..Len(records')
               /\ 1..Len(records') = 1..Len(records) \cup {w}
               /\ at[c] # 0 => w \in 1..Len(records) /\ records[w].user = what[c].user
               /\ at[c] = 0 => w \notin 1..Len(records)
               /\ \A k \in 1..Len(records) : k # w => records'[k] = records[k]
               /\ records'[w].ref = c /\ records'[w].user = what[c].user /\ records'[w].bvn = what[c].number
               /\ records'[w].status = "submitted" /\ records'[w].nin = None
               /\ overruled' = overruled \ {w}
  <1> DEFINE r == BvnRecord(what[c].user, what[c].number, c)
             w == IF at[c] = 0 THEN Len(records) + 1 ELSE at[c]
  <1>1. TypeOK /\ Placed(c) /\ Asked(c) /\ Found(c) /\ pc[c] = "save"
    BY DEF Control, CallsOk, SaveBvn
  <1>2. pc[c] # Idle /\ what[c].kind = "bvn" /\ job[c] # None /\ IdVerified(job[c])
    BY <1>1 DEF Placed, Asked, Idle
  <1>3. what[c].user \in User /\ what[c].number \in Bvn /\ c \in Job
    BY <1>2, Begun DEF Job
  <1>4. r \in Record
    BY <1>1, <1>2, <1>3, BvnRecordProven DEF Asked
  <1>5. r.ref = c /\ r.user = what[c].user /\ r.bvn = what[c].number /\ r.status = "submitted" /\ r.nin = None
    BY DEF BvnRecord
  <1>6. /\ records' = IF at[c] = 0 THEN Append(records, r) ELSE [records EXCEPT ![at[c]] = r]
        /\ overruled' = overruled \ {at[c]}
    BY DEF SaveBvn
  <1> HIDE DEF r
  <1>7. records \in Seq(Record) /\ at[c] \in 0..Len(records) /\ overruled \subseteq 1..Len(records)
    BY <1>1 DEF TypeOK
  <1>8. CASE at[c] = 0
    <2>1. /\ records' \in Seq(Record) /\ Len(records') = Len(records) + 1
          /\ \A i \in 1..Len(records) : records'[i] = records[i]
          /\ records'[Len(records) + 1] = r
      BY <1>4, <1>6, <1>7, <1>8, AppendProperties
    <2>2. w = Len(records) + 1 /\ Len(records) \in Nat
      BY <1>7, <1>8
    <2>3. overruled' = overruled \ {w}
      BY <1>6, <1>7, <1>8, <2>2
    <2> HIDE DEF w
    <2>4. w \notin 1..Len(records) /\ 1..Len(records') = 1..Len(records) \cup {w} /\ records'[w] = r
      BY <2>1, <2>2
    <2>5. QED
      BY <1>3, <1>5, <1>8, <2>1, <2>3, <2>4 DEF w
  <1>9. CASE at[c] # 0
    <2>1. w = at[c] /\ at[c] \in 1..Len(records) /\ records[at[c]].user = what[c].user
      BY <1>1, <1>7, <1>9 DEF Found
    <2>2. /\ records' \in Seq(Record) /\ Len(records') = Len(records)
          /\ records'[at[c]] = r
          /\ \A k \in 1..Len(records) : k # at[c] => records'[k] = records[k]
      BY <1>1, <1>4, <1>6, <1>9, <2>1, RecordWritten
    <2> HIDE DEF w
    <2>3. QED
      BY <1>3, <1>5, <1>6, <1>9, <2>1, <2>2 DEF w
  <1>10. QED
    BY <1>8, <1>9

\* Nothing else writes a record.
LEMMA RecordsRead ==
    ASSUME NEW c \in Call, Start(c) \/ Step(c),
           ~ (SaveBvn(c) \/ Decide(c) \/ Mark(c) \/ RejectRecord(c))
    PROVE  records' = records /\ overruled' = overruled
  <1>1. CASE Start(c)
    <2>1. PICK w, i, place : Begin(c, w, i, place)
      BY <1>1, StartIsBegin
    <2>2. QED
      BY <2>1 DEF Begin
  <1>2. CASE Step(c)
    BY <1>2 DEF Step, Ask, AskBvn, AskFace, FindRecord, DecideUser, Apply, RejectUser, Crash, SetUser
  <1>3. QED
    BY <1>1, <1>2

LEMMA StepMarked ==
    ASSUME Control, Marked, NEW c \in Call, Start(c) \/ Step(c)
    PROVE  Marked'
  <1>1. CASE SaveBvn(c)
    <2> DEFINE w == IF at[c] = 0 THEN Len(records) + 1 ELSE at[c]
    <2>1. /\ 1..Len(records') = 1..Len(records) \cup {w}
          /\ \A k \in 1..Len(records) : k # w => records'[k] = records[k]
          /\ records'[w].status = "submitted" /\ records'[w].nin = None
          /\ overruled' = overruled \ {w}
      BY <1>1, RecordSaved
    <2> HIDE DEF w
    <2>2. QED
      BY <2>1 DEF Marked
  <1>2. CASE Decide(c) \/ Mark(c) \/ RejectRecord(c)
    <2>1. /\ at[c] \in 1..Len(records) /\ Len(records') = Len(records)
          /\ \A k \in 1..Len(records) : k # at[c] => records'[k] = records[k]
          /\ records'[at[c]].status \in {"verified", "rejected"}
          /\ overruled' = IF records'[at[c]].status = "rejected" THEN overruled \cup {at[c]} ELSE overruled
      BY <1>2, RecordSet
    <2>2. QED
      BY <2>1 DEF Marked
  <1>3. CASE ~ (SaveBvn(c) \/ Decide(c) \/ Mark(c) \/ RejectRecord(c))
    BY <1>3, RecordsRead DEF Marked
  <1>4. QED
    BY <1>1, <1>2, <1>3

\* A write of call c leaves the other records as they are.
LEMMA Written ==
    ASSUME Control, NEW c \in Call, Start(c) \/ Step(c), ~ (records' = records /\ overruled' = overruled)
    PROVE  /\ Underway(c)
           /\ \E w \in 1..Len(records') :
                /\ records'[w].user = what[c].user
                /\ records'[w].status = "submitted" => records'[w].ref = c
                /\ w \in 1..Len(records) => records[w].user = what[c].user
                /\ 1..Len(records') = 1..Len(records) \cup {w}
                /\ \A k \in 1..Len(records) :
                     k # w => records'[k] = records[k] /\ (k \in overruled' <=> k \in overruled)
  <1>1. SaveBvn(c) \/ Decide(c) \/ Mark(c) \/ RejectRecord(c)
    BY RecordsRead
  <1>2. Step(c) /\ Underway(c)
    BY <1>1, MetGrows DEF Step
  <1>3. TypeOK /\ Len(records) \in Nat
    BY RecordsTyped DEF Control
  <1>4. CASE SaveBvn(c)
    <2> DEFINE w == IF at[c] = 0 THEN Len(records) + 1 ELSE at[c]
    <2>1. /\ w \in 1..Len(records')
          /\ 1..Len(records') = 1..Len(records) \cup {w}
          /\ at[c] # 0 => w \in 1..Len(records) /\ records[w].user = what[c].user
          /\ at[c] = 0 => w \notin 1..Len(records)
          /\ \A k \in 1..Len(records) : k # w => records'[k] = records[k]
          /\ records'[w].user = what[c].user /\ records'[w].ref = c
          /\ overruled' = overruled \ {w}
      BY <1>4, RecordSaved
    <2> HIDE DEF w
    <2>2. w \in 1..Len(records) => records[w].user = what[c].user
      BY <2>1
    <2>3. QED
      BY <1>2, <2>1, <2>2
  <1>5. CASE Decide(c) \/ Mark(c) \/ RejectRecord(c)
    <2> DEFINE w == at[c]
    <2>1. /\ w \in 1..Len(records) /\ Len(records') = Len(records) /\ records[w].user = what[c].user
          /\ \A k \in 1..Len(records) : k # w => records'[k] = records[k]
          /\ records'[w].user = records[w].user
          /\ records'[w].status \in {"verified", "rejected"}
          /\ overruled' = IF records'[w].status = "rejected" THEN overruled \cup {w} ELSE overruled
      BY <1>5, RecordSet
    <2> HIDE DEF w
    <2>2. 1..Len(records') = 1..Len(records) \cup {w} /\ w \in 1..Len(records')
      BY <2>1
    <2>3. \A k \in 1..Len(records) : k # w => (k \in overruled' <=> k \in overruled)
      BY <2>1
    <2>4. QED
      BY <1>2, <2>1, <2>2, <2>3
  <1>6. QED
    BY <1>1, <1>4, <1>5

\* What a check or a review sets keeps the BVN, which was the record's before, unless it had
\* been rejected.
LEMMA SetKeepsBvn ==
    ASSUME Control, Marked, NEW c \in Call, Decide(c) \/ Mark(c) \/ RejectRecord(c),
           records'[at[c]].status \in Holding
    PROVE  at[c] \in overruled \/ records[at[c]].status \in Holding
  <1>1. at[c] \in 1..Len(records)
    BY RecordSet
  <1>2. records[at[c]].status \in {"submitted", "verified", "rejected"}
    BY <1>1 DEF Control, RecordsProven, Proven
  <1>3. QED
    BY <1>1, <1>2 DEF Marked, Holding

LEMMA StepBvnWatched ==
    ASSUME NumberSafe, NEW c \in Call, Start(c) \/ Step(c), NEW d \in Call
    PROVE  BvnWatched(d)'
  <1> SUFFICES ASSUME pc'[d] \in {"ask", "find", "save"}, what'[d].kind = "bvn",
                      NEW k \in 1..Len(records'),
                      records'[k].user # what'[d].user, records'[k].bvn = what'[d].number,
                      records'[k].status \in Holding
               PROVE  {d, records'[k].ref} \in met' \/ k \in overruled'
    BY DEF BvnWatched
  <1>1. Control /\ TypeOK /\ Moves(c) /\ Placed(c) /\ Marked /\ met \subseteq met'
    BY StepControl, MetGrows DEF NumberSafe, Control, CallsOk
  <1>2. CASE d = c /\ Start(c)
    <2>1. ASSUME NEW w, NEW i, NEW place, Begin(c, w, i, place), w.kind # "bvn" PROVE FALSE
      BY <1>1, <1>2, <2>1 DEF Begin, TypeOK
    <2>2. PICK u \in User, b \in Bvn : VerifyBvn(c, u, b)
      <3>1. ASSUME NEW u \in User, NEW n \in Nin, VerifyNin(c, u, n) PROVE FALSE
        <4> DEFINE w == [kind |-> "face", user |-> u, number |-> n]
        <4>1. w.kind = "face" /\ Begin(c, w, Latest(u), "ask")
          BY <3>1 DEF VerifyNin
        <4> HIDE DEF w
        <4>2. QED
          BY <2>1, <4>1
      <3>2. ASSUME NEW i \in 1..Len(records), NEW j \in Job, NEW r \in Outcome, Webhook(c, j, i, r) PROVE FALSE
        <4> DEFINE w == CallbackOf(j, i, r)
        <4>1. w.kind \in {"webhook", "unfounded"}
          BY DEF CallbackOf
        <4>2. PICK place : Begin(c, w, i, place)
          BY <3>2 DEF Webhook
        <4> HIDE DEF w
        <4>3. QED
          BY <2>1, <4>1, <4>2
      <3>3. ASSUME NEW i \in 1..Len(records), NEW verdict \in {"verified", "rejected"}, AdminReview(c, i, verdict)
            PROVE  FALSE
        <4> DEFINE w == [kind |-> verdict, user |-> records[i].user, number |-> None]
        <4>1. w.kind = verdict /\ Begin(c, w, i, "decide")
          BY <3>3 DEF AdminReview
        <4> HIDE DEF w
        <4>2. QED
          BY <2>1, <4>1
      <3>4. QED
        BY <1>2, <3>1, <3>2, <3>3 DEF Start
    <2> DEFINE w == [kind |-> "bvn", user |-> u, number |-> b]
    <2>3. BvnFree(u, b) /\ Begin(c, w, 0, "ask") /\ w.user = u /\ w.number = b
      BY <2>2 DEF VerifyBvn
    <2> HIDE DEF w
    <2>4. what'[c] = w /\ records' = records
      BY <1>1, <2>3 DEF Begin, TypeOK
    <2>5. QED
      BY <1>2, <2>3, <2>4 DEF BvnFree, Holding
  <1>3. CASE d = c /\ Step(c)
    <2>1. pc[c] # Idle /\ what'[c] = what[c]
      <3>1. Underway(c)
        BY <1>1, <1>3, MetGrows
      <3>2. QED
        BY <1>1, <3>1 DEF Moves, Underway
    <2>2. ~ (SaveBvn(c) \/ Decide(c) \/ DecideUser(c) \/ Apply(c) \/ Mark(c) \/ RejectRecord(c) \/ RejectUser(c)
             \/ Crash(c))
      BY <1>1, <1>3 DEF SaveBvn, Decide, DecideUser, Apply, Mark, RejectRecord, RejectUser, Crash,
                        SetRecord, SetUser, Goto, TypeOK
    <2>3. pc[c] \in {"ask", "find"}
      BY <1>3, <2>2 DEF Step, Ask, AskBvn, AskFace, FindRecord
    <2>4. records' = records /\ overruled' = overruled
      BY <2>2, RecordsRead
    <2>5. QED
      BY <1>1, <1>3, <2>1, <2>3, <2>4 DEF NumberSafe, BvnWatched
  <1>4. CASE d # c
    <2>1. pc'[d] = pc[d] /\ what'[d] = what[d] /\ Underway(d)
      BY <1>1, <1>4 DEF Moves, Underway, Idle, Finished
    <2>2. ASSUME k \in 1..Len(records),
                 records[k].user # what[d].user, records[k].bvn = what[d].number,
                 records[k].status \in Holding
          PROVE  {d, records[k].ref} \in met \/ k \in overruled
      BY <2>1, <2>2 DEF NumberSafe, BvnWatched
    <2>3. CASE records' = records /\ overruled' = overruled
      BY <1>1, <2>1, <2>2, <2>3
    <2>4. CASE SaveBvn(c)
      <3> DEFINE w == IF at[c] = 0 THEN Len(records) + 1 ELSE at[c]
      <3>1. /\ 1..Len(records') = 1..Len(records) \cup {w}
            /\ \A l \in 1..Len(records) : l # w => records'[l] = records[l]
            /\ records'[w].ref = c /\ overruled' = overruled \ {w}
        BY <1>1, <2>4, RecordSaved
      <3> HIDE DEF w
      <3>2. CASE k = w
        <4>1. Underway(c)
          BY <2>4 DEF SaveBvn, Underway, Idle, Finished
        <4>2. {d, c} \in met
          BY <1>1, <1>4, <2>1, <4>1, UnderwayOverlap
        <4>3. QED
          BY <1>1, <3>1, <3>2, <4>2
      <3>3. CASE k # w
        <4>1. k \in 1..Len(records) /\ records'[k] = records[k] /\ (k \in overruled => k \in overruled')
          BY <3>1, <3>3
        <4>2. QED
          BY <1>1, <2>1, <2>2, <4>1
      <3>4. QED
        BY <3>2, <3>3
    <2>5. CASE Decide(c) \/ Mark(c) \/ RejectRecord(c)
      <3>1. /\ at[c] \in 1..Len(records) /\ Len(records') = Len(records)
            /\ \A l \in 1..Len(records) : l # at[c] => records'[l] = records[l]
            /\ records'[at[c]].user = records[at[c]].user
            /\ records'[at[c]].bvn = records[at[c]].bvn
            /\ records'[at[c]].ref = records[at[c]].ref
            /\ overruled' = IF records'[at[c]].status = "rejected" THEN overruled \cup {at[c]} ELSE overruled
        BY <1>1, <2>5, RecordSet
      <3>2. overruled \subseteq overruled'
        BY <3>1
      <3>3. CASE k = at[c]
        <4>1. at[c] \in overruled \/ records[at[c]].status \in Holding
          BY <1>1, <2>5, <3>3, SetKeepsBvn
        <4>2. QED
          BY <1>1, <2>1, <2>2, <3>1, <3>2, <3>3, <4>1
      <3>4. CASE k # at[c]
        <4>1. k \in 1..Len(records) /\ records'[k] = records[k]
          BY <3>1, <3>4
        <4>2. QED
          BY <1>1, <2>1, <2>2, <3>2, <4>1
      <3>5. QED
        BY <3>3, <3>4
    <2>6. QED
      BY <2>3, <2>4, <2>5, RecordsRead
  <1>5. QED
    BY <1>2, <1>3, <1>4

LEMMA StepNinWatched ==
    ASSUME NumberSafe, NEW c \in Call, Start(c) \/ Step(c), NEW d \in Call
    PROVE  NinWatched(d)'
  <1> DEFINE n == Brings(what'[d], copy'[d])
  <1> SUFFICES ASSUME Marking(d)', n # None, NEW i \in 1..Len(records'),
                      records'[i].user # what'[d].user, records'[i].nin = n,
                      records'[i].status = "verified"
               PROVE  \/ i \in overruled' \/ at'[d] \in overruled'
                      \/ Overlapped(met', what', {records'[i].user, what'[d].user})
    BY DEF NinWatched
  <1>1. /\ Control /\ TypeOK /\ Moves(c) /\ Placed(c) /\ Marked /\ met \subseteq met'
        /\ \A users : Overlapped(met, what, users) => Overlapped(met', what', users)
    BY StepControl, MetGrows, ExcuseStays DEF NumberSafe, Control, CallsOk
  <1>2. CASE d = c /\ Start(c)
    <2>1. ASSUME NEW w, NEW l, NEW place, Begin(c, w, l, place)
          PROVE  /\ what'[c] = w /\ pc'[c] = place /\ at'[c] = l
                 /\ records' = records /\ overruled' = overruled
                 /\ l # 0 => copy'[c].record = records[l]
      BY <1>1, <2>1 DEF Begin, Goto, TypeOK
    <2>2. CASE \E u \in User, b \in Bvn : VerifyBvn(c, u, b)
      BY <1>2, <2>1, <2>2 DEF VerifyBvn, Marking
    <2>3. CASE \E u \in User, m \in Nin : VerifyNin(c, u, m)
      <3>1. PICK u \in User, m \in Nin : VerifyNin(c, u, m)
        BY <2>3
      <3> DEFINE w == [kind |-> "face", user |-> u, number |-> m]
      <3>2. NinFree(u, m) /\ Begin(c, w, Latest(u), "ask") /\ w.kind = "face" /\ w.user = u /\ w.number = m
        BY <3>1 DEF VerifyNin
      <3> HIDE DEF w
      <3>3. what'[c] = w /\ records' = records
        BY <2>1, <3>2
      <3>4. n = m
        BY <1>2, <3>2, <3>3 DEF Brings
      <3> HIDE DEF n
      <3>5. QED
        BY <1>2, <3>2, <3>3, <3>4 DEF NinFree
    <2>4. CASE \E k \in 1..Len(records), j \in Job, r \in Outcome : Webhook(c, j, k, r)
      <3>1. PICK k \in 1..Len(records), j \in Job, r \in Outcome : Webhook(c, j, k, r)
        BY <2>4
      <3> DEFINE w == CallbackOf(j, k, r)
      <3>2. w.kind \in {"webhook", "unfounded"} /\ w.user = records[k].user
        BY DEF CallbackOf
      <3>3. PICK place : Begin(c, w, k, place)
        BY <3>1 DEF Webhook
      <3> HIDE DEF w
      <3>4. k # 0
        BY <1>1, RecordsTyped
      <3>5. /\ what'[c] = w /\ at'[c] = k /\ records' = records /\ overruled' = overruled
            /\ copy'[c].record = records[k]
        BY <2>1, <3>3, <3>4
      <3>6. n = records[k].nin
        BY <1>2, <3>2, <3>5 DEF Brings
      <3> HIDE DEF n
      <3>7. records[k].status \in {"submitted", "verified", "rejected"}
        BY <1>1 DEF Control, RecordsProven, Proven
      <3>8. CASE records[k].status = "verified" /\ i \notin overruled /\ k \notin overruled
        <4>1. i \in 1..Len(records) /\ records[i].user # records[k].user
          BY <1>2, <3>2, <3>5
        <4>2. Excused(records[i], records[k], met, what)
          BY <3>8, <4>1, HeldOnce DEF NumberSafe, HeldApart
        <4>3. HoldNin(records[i], records[k])
          BY <3>5, <3>6, <3>8 DEF HoldNin
        <4>4. Overlapped(met', what', {records[i].user, records[k].user})
          BY <1>1, <4>2, <4>3 DEF Excused
        <4>5. QED
          BY <1>2, <3>2, <3>5, <4>4
      <3>9. QED
        BY <1>1, <1>2, <3>5, <3>6, <3>7, <3>8 DEF Marked
    <2>5. CASE \E k \in 1..Len(records), verdict \in {"verified", "rejected"} : AdminReview(c, k, verdict)
      BY <1>2, <2>1, <2>5 DEF AdminReview, Marking
    <2>6. QED
      BY <1>2, <2>2, <2>3, <2>4, <2>5 DEF Start
  <1>3. CASE d = c /\ Step(c)
    <2>1. pc[c] # Idle /\ what'[c] = what[c] /\ copy'[c] = copy[c] /\ what[c] # None
      <3>1. Underway(c)
        BY <1>1, <1>3, MetGrows
      <3>2. QED
        BY <1>1, <3>1 DEF Moves, Underway, Placed
    <2>2. pc'[c] \in {"ask", "apply", "mark"} /\ what[c].kind \in {"face", "webhook", "unfounded"}
      BY <1>3, <2>1 DEF Marking
    <2>3. ~ (FindRecord(c) \/ SaveBvn(c) \/ Decide(c) \/ Mark(c) \/ RejectRecord(c) \/ RejectUser(c) \/ Crash(c))
      BY <1>1, <2>2 DEF FindRecord, SaveBvn, Decide, Mark, RejectRecord, RejectUser, Crash,
                        SetRecord, SetUser, Goto, TypeOK
    <2>4. ~ DecideUser(c)
      BY <1>1, <2>2 DEF DecideUser, Placed
    <2>5. pc[c] \in {"ask", "apply"} /\ at' = at
      BY <1>3, <2>3, <2>4 DEF Step, Ask, AskBvn, AskFace, Apply
    <2>6. records' = records /\ overruled' = overruled
      BY <2>3, RecordsRead
    <2>7. Marking(c) /\ NinWatched(c)
      BY <2>2, <2>5 DEF NumberSafe, Marking
    <2> HIDE DEF n
    <2>8. n = Brings(what[c], copy[c])
      BY <1>3, <2>1 DEF n
    <2>9. QED
      BY <1>1, <1>3, <2>1, <2>5, <2>6, <2>7, <2>8 DEF NinWatched
  <1>4. CASE d # c
    <2>1. /\ pc'[d] = pc[d] /\ what'[d] = what[d] /\ at'[d] = at[d] /\ copy'[d] = copy[d]
          /\ Marking(d) /\ Underway(d)
      BY <1>1, <1>4 DEF Moves, Marking, Underway, Idle, Finished
    <2>2. n = Brings(what[d], copy[d])
      BY <2>1
    <2> HIDE DEF n
    <2>3. ASSUME i \in 1..Len(records), records'[i] = records[i]
          PROVE  \/ i \in overruled \/ at[d] \in overruled
                 \/ Overlapped(met', what', {records'[i].user, what'[d].user})
      <3>1. NinWatched(d)
        BY DEF NumberSafe
      <3>2. QED
        BY <1>1, <2>1, <2>2, <2>3, <3>1 DEF NinWatched
    <2>4. CASE records' = records /\ overruled' = overruled
      BY <2>1, <2>3, <2>4
    <2>5. CASE ~ (records' = records /\ overruled' = overruled)
      <3>1. PICK w \in 1..Len(records') :
              /\ records'[w].user = what[c].user
              /\ w \in 1..Len(records) => records[w].user = what[c].user
              /\ 1..Len(records') = 1..Len(records) \cup {w}
              /\ \A k \in 1..Len(records) :
                   k # w => records'[k] = records[k] /\ (k \in overruled' <=> k \in overruled)
        BY <1>1, <2>5, Written
      <3>2. Underway(c)
        BY <1>1, <2>5, Written
      <3>3. \A users : what[c].user \in users /\ what[d].user \in users => Overlapped(met', what', users)
        BY <1>1, <1>4, <2>1, <3>2, UnderwayOverlap
      <3>4. CASE i = w
        BY <2>1, <3>1, <3>3, <3>4
      <3>5. CASE i # w
        <4>1. i \in 1..Len(records) /\ records'[i] = records[i] /\ (i \in overruled' <=> i \in overruled)
          BY <3>1, <3>5
        <4>2. CASE at[d] = w
          <5>1. at[d] \in 1..Len(records) /\ records[at[d]].user = what[d].user
            <6>1. Found(d) /\ Placed(d)
              BY <1>1 DEF Control, CallsOk
            <6>2. what[d] # None /\ what[d].kind # "bvn"
              BY <2>1, <6>1 DEF Placed, Marking, Idle
            <6>3. QED
              BY <6>1, <6>2 DEF Found
          <5>2. what[c].user = what[d].user
            BY <3>1, <4>2, <5>1
          <5>3. QED
            BY <2>1, <3>3, <5>2
        <4>3. CASE at[d] # w
          <5>1. at[d] \in overruled => at[d] \in overruled'
            <6>1. overruled \subseteq 1..Len(records)
              BY <1>1 DEF TypeOK
            <6>2. QED
              BY <3>1, <4>3, <6>1
          <5>2. QED
            BY <2>1, <2>3, <4>1, <5>1
        <4>4. QED
          BY <4>2, <4>3
      <3>6. QED
        BY <3>4, <3>5
    <2>6. QED
      BY <2>4, <2>5
  <1>5. QED
    BY <1>2, <1>3, <1>4

LEMMA StepHeldOnce ==
    ASSUME NumberSafe, NEW c \in Call, Start(c) \/ Step(c)
    PROVE  NumberHeldOnce'
  <1>1. /\ Control /\ Marked /\ BvnWatched(c) /\ NinWatched(c)
        /\ met \subseteq met' /\ \A d \in Call : what[d] # None => what'[d] = what[d]
    BY MetGrows DEF NumberSafe
  <1>2. TypeOK /\ Len(records) \in Nat
    BY <1>1, RecordsTyped DEF Control
  <1>3. ASSUME NEW i \in 1..Len(records), NEW k \in 1..Len(records),
               records[i].user # records[k].user, i \notin overruled, k \notin overruled
        PROVE  Excused(records[i], records[k], met', what')
    <2>1. Excused(records[i], records[k], met, what)
      BY <1>3, HeldOnce DEF NumberSafe, HeldApart
    <2>2. QED
      BY <1>1, <2>1, ExcuseStays
  <1>4. ASSUME NEW i \in 1..Len(records'), NEW k \in 1..Len(records'),
               records'[i].user # records'[k].user, i \notin overruled', k \notin overruled'
        PROVE  Excused(records'[i], records'[k], met', what')
    <2>1. CASE SaveBvn(c)
      <3> DEFINE w == IF at[c] = 0 THEN Len(records) + 1 ELSE at[c]
      <3>1. /\ 1..Len(records') = 1..Len(records) \cup {w}
            /\ \A l \in 1..Len(records) : l # w => records'[l] = records[l]
            /\ records'[w].user = what[c].user /\ records'[w].bvn = what[c].number
            /\ records'[w].ref = c
            /\ records'[w].status = "submitted" /\ records'[w].nin = None
            /\ overruled' = overruled \ {w}
        BY <1>1, <2>1, RecordSaved
      <3>2. pc[c] = "save" /\ what[c].kind = "bvn"
        BY <1>1, <2>1 DEF SaveBvn, Control, CallsOk, Placed
      <3> HIDE DEF w
      <3>3. CASE i # w /\ k # w
        <4>1. i \in 1..Len(records) /\ k \in 1..Len(records) /\ records'[i] = records[i] /\ records'[k] = records[k]
          BY <3>1, <3>3
        <4>2. i \notin overruled /\ k \notin overruled
          BY <1>4, <3>1, <3>3
        <4>3. QED
          BY <1>3, <1>4, <4>1, <4>2
      <3>4. ASSUME NEW l \in 1..Len(records), l # w, records[l].user # what[c].user, l \notin overruled
            PROVE  Excused(records'[w], records'[l], met', what')
        <4>1. records'[l] = records[l]
          BY <3>1, <3>4
        <4>2. ~ HoldNin(records'[w], records'[l])
          BY <3>1 DEF HoldNin
        <4>3. HoldBvn(records'[w], records'[l]) => {c, records[l].ref} \in met
          BY <1>1, <3>1, <3>2, <3>4, <4>1 DEF BvnWatched, HoldBvn
        <4>4. QED
          BY <1>1, <3>1, <4>1, <4>2, <4>3 DEF Excused
      <3>5. CASE i = w /\ k # w
        <4>1. k \in 1..Len(records) /\ records'[k] = records[k] /\ k \notin overruled
          BY <1>4, <3>1, <3>5
        <4>2. QED
          BY <1>4, <3>1, <3>4, <3>5, <4>1
      <3>6. CASE k = w /\ i # w
        <4>1. i \in 1..Len(records) /\ records'[i] = records[i] /\ i \notin overruled
          BY <1>4, <3>1, <3>6
        <4>2. Excused(records'[k], records'[i], met', what')
          BY <1>4, <3>1, <3>4, <3>6, <4>1
        <4>3. QED
          BY <1>1, <4>2, ExcuseStays
      <3>7. QED
        BY <1>4, <3>3, <3>5, <3>6
    <2>2. CASE Decide(c) \/ Mark(c) \/ RejectRecord(c)
      <3> DEFINE w == at[c]
      <3>1. /\ w \in 1..Len(records) /\ Len(records') = Len(records) /\ records[w].user = what[c].user
            /\ \A l \in 1..Len(records) : l # w => records'[l] = records[l]
            /\ records'[w].user = records[w].user
            /\ records'[w].bvn = records[w].bvn
            /\ records'[w].ref = records[w].ref
            /\ records'[w].status \in {"verified", "rejected"}
            /\ records'[w].nin = IF ~ Mark(c) THEN records[w].nin ELSE Brings(what[c], copy[c])
            /\ overruled' = IF records'[w].status = "rejected" THEN overruled \cup {w} ELSE overruled
        BY <1>1, <2>2, RecordSet DEF Brings
      <3>2. Mark(c) => Marking(c)
        BY <1>1 DEF Marking, Mark, Control, CallsOk, Placed
      <3> HIDE DEF w
      <3>3. overruled \subseteq overruled'
        BY <3>1
      <3>4. ASSUME NEW l \in 1..Len(records), l # w, records[l].user # records[w].user,
                   l \notin overruled, w \notin overruled'
            PROVE  Excused(records'[w], records'[l], met', what')
        <4>1. records'[w].status = "verified" /\ w \notin overruled /\ records'[l] = records[l]
          BY <3>1, <3>3, <3>4
        <4>2. records[w].status \in {"submitted", "verified"}
          BY <1>1, <3>1, <4>1 DEF Marked, Control, RecordsProven, Proven
        <4>3. Excused(records[w], records[l], met', what')
          BY <1>3, <3>1, <3>4, <4>1
        <4>4. HoldBvn(records'[w], records'[l]) => {records'[w].ref, records'[l].ref} \in met'
          BY <3>1, <4>1, <4>2, <4>3 DEF Excused, HoldBvn, Holding
        <4>5. HoldNin(records'[w], records'[l]) => Overlapped(met', what', {records'[w].user, records'[l].user})
          <5>1. CASE Mark(c)
            <6>1. HoldNin(records'[w], records'[l]) => Overlapped(met, what, {records[l].user, what[c].user})
              BY <1>1, <3>1, <3>2, <3>4, <4>1, <5>1 DEF NinWatched, HoldNin, w
            <6>2. {records[l].user, what[c].user} = {records'[w].user, records'[l].user}
              BY <3>1, <4>1
            <6>3. QED
              BY <1>1, <6>1, <6>2, ExcuseStays
          <5>2. CASE ~ Mark(c)
            <6>1. records'[w].nin = records[w].nin
              BY <3>1, <5>2
            <6>2. records[w].status = "submitted" => records[w].nin = None
              BY <1>1, <3>1 DEF Marked
            <6>3. HoldNin(records'[w], records'[l]) => HoldNin(records[w], records[l])
              BY <4>1, <4>2, <6>1, <6>2 DEF HoldNin
            <6>4. QED
              BY <3>1, <4>1, <4>3, <6>3 DEF Excused
          <5>3. QED
            BY <5>1, <5>2
        <4>6. QED
          BY <4>4, <4>5 DEF Excused
      <3>5. CASE i # w /\ k # w
        <4>1. i \in 1..Len(records) /\ k \in 1..Len(records) /\ records'[i] = records[i] /\ records'[k] = records[k]
          BY <3>1, <3>5
        <4>2. i \notin overruled /\ k \notin overruled
          BY <1>4, <3>3
        <4>3. QED
          BY <1>3, <1>4, <4>1, <4>2
      <3>6. CASE i = w /\ k # w
        <4>1. k \in 1..Len(records) /\ records'[k] = records[k] /\ k \notin overruled
          BY <1>4, <3>1, <3>3, <3>6
        <4>2. QED
          BY <1>4, <3>1, <3>4, <3>6, <4>1
      <3>7. CASE k = w /\ i # w
        <4>1. i \in 1..Len(records) /\ records'[i] = records[i] /\ i \notin overruled
          BY <1>4, <3>1, <3>3, <3>7
        <4>2. Excused(records'[k], records'[i], met', what')
          BY <1>4, <3>1, <3>4, <3>7, <4>1
        <4>3. QED
          BY <1>1, <4>2, ExcuseStays
      <3>8. QED
        BY <1>4, <3>5, <3>6, <3>7
    <2>3. CASE ~ (SaveBvn(c) \/ Decide(c) \/ Mark(c) \/ RejectRecord(c))
      <3>1. records' = records /\ overruled' = overruled
        BY <2>3, RecordsRead
      <3>2. QED
        BY <1>3, <1>4, <3>1
    <2>4. QED
      BY <2>1, <2>2, <2>3
  <1>5. QED
    <2>1. HeldApart(records', overruled', met', what')
      BY <1>4 DEF HeldApart
    <2>2. QED
      BY <2>1, HeldOnce

LEMMA NextNumberSafe == NumberSafe /\ [Next]_vars => NumberSafe'
  <1> SUFFICES ASSUME NumberSafe, [Next]_vars PROVE NumberSafe'
    OBVIOUS
  <1>1. Control /\ Control'
    BY NextControl DEF NumberSafe
  <1>2. CASE UNCHANGED vars
    <2>1. /\ records' = records /\ overruled' = overruled /\ met' = met /\ what' = what
          /\ pc' = pc /\ at' = at /\ copy' = copy
      BY <1>2 DEF vars
    <2>2. Marked' /\ \A c \in Call : BvnWatched(c)' /\ NinWatched(c)'
      BY <2>1 DEF NumberSafe, Marked, BvnWatched, NinWatched, Marking
    <2>3. NumberHeldOnce'
      BY <2>1, HeldOnce DEF NumberSafe
    <2>4. QED
      BY <1>1, <2>2, <2>3 DEF NumberSafe
  <1>3. ASSUME NEW c \in Call, Start(c) \/ Step(c) PROVE NumberSafe'
    <2>1. Marked'
      BY <1>1, <1>3, StepMarked DEF NumberSafe
    <2>2. NumberHeldOnce'
      BY <1>3, StepHeldOnce
    <2>3. \A d \in Call : BvnWatched(d)' /\ NinWatched(d)'
      BY <1>3, StepBvnWatched, StepNinWatched
    <2>4. QED
      BY <1>1, <2>1, <2>2, <2>3 DEF NumberSafe
  <1>4. QED
    BY <1>2, <1>3 DEF Next

\* A BVN is not behind two users, unless the two checks that recorded it overlapped, nor a
\* verified NIN, unless two calls for these users overlapped; or one of the two records had
\* been rejected and was taken back in.
THEOREM NumberIsHeldOnce == Spec => []NumberHeldOnce
  <1>1. Init => NumberSafe
    <2> SUFFICES ASSUME Init PROVE NumberSafe
      OBVIOUS
    <2>1. ASSUME NEW c \in Call PROVE BvnWatched(c) /\ NinWatched(c)
      BY DEF Init, BvnWatched, NinWatched, Marking, Idle
    <2>2. Marked /\ NumberHeldOnce
      BY InitRecords DEF Marked, NumberHeldOnce
    <2>3. QED
      BY <2>1, <2>2, InitControl DEF NumberSafe
  <1>2. NumberSafe => NumberHeldOnce
    BY DEF NumberSafe
  <1>3. QED
    BY <1>1, <1>2, NextNumberSafe, PTL DEF Spec

-----------------------------------------------------------------------------
(* Agreement of user and record *)

\* Without an overlap a user has one record, and a save knows of it.
OneRecord ==
    met = {} =>
        /\ \A i, k \in 1..Len(records) : records[i].user = records[k].user => i = k
        /\ \A c \in Call : pc[c] = "save" => at[c] = Latest(what[c].user)

\* No call has overlapped another or broken off.
Quiet == met = {} /\ \A c \in Call : pc[c] # "failed"

Agree(u) ==
    status[u] = "verified" <=>
        \E i \in 1..Len(records) : records[i].user = u /\ records[i].status = "verified"

\* Between the two writes of a call, the one that is made says what the other will write.
Between(c) ==
    /\ pc[c] \in {"ask", "find", "save"} /\ what[c].kind = "bvn" =>
         status[what[c].user] # "verified" /\ Agree(what[c].user)
    /\ pc[c] = "mark" => status[what[c].user] = "verified"
    /\ pc[c] = "rejectRecord" /\ what[c].kind # "face" => status[what[c].user] # "verified"
    /\ pc[c] = "rejectUser" /\ what[c].kind = "face" => records[at[c]].status = "rejected"
    /\ pc[c] = "decideUser" => records[at[c]].status = what[c].kind
    /\ pc[c] = "apply" /\ what[c].kind = "verified" => records[at[c]].status = "verified"

Agreeing ==
    Quiet => /\ \A u \in User : (\A c \in Call : Underway(c) => what[c].user # u) => Agree(u)
             /\ \A c \in Call : Between(c)

\* What makes StatusesAgree inductive.
AgreeSafe == Control /\ OneRecord /\ Agreeing

LEMMA StepOneRecord ==
    ASSUME Control, OneRecord, NEW c \in Call, Start(c) \/ Step(c)
    PROVE  OneRecord'
  <1> SUFFICES ASSUME met' = {}
               PROVE  /\ \A i, k \in 1..Len(records') : records'[i].user = records'[k].user => i = k
                      /\ \A d \in Call : pc'[d] = "save" => at'[d] = Latest(what[d].user)'
    BY DEF OneRecord
  <1>1. met = {} /\ \A d \in Call \ {c} : ~ Underway(d)'
    BY Alone
  <1>2. /\ \A i, k \in 1..Len(records) : records[i].user = records[k].user => i = k
        /\ \A d \in Call : pc[d] = "save" => at[d] = Latest(what[d].user)
    BY <1>1 DEF OneRecord
  <1>3. TypeOK /\ Placed(c) /\ Control'
    BY StepControl DEF Control, CallsOk
  <1>4. ASSUME NEW i \in 1..Len(records'), NEW k \in 1..Len(records'), records'[i].user = records'[k].user
        PROVE  i = k
    <2>1. CASE SaveBvn(c)
      <3> DEFINE w == IF at[c] = 0 THEN Len(records) + 1 ELSE at[c]
      <3>1. /\ what[c].user \in User
            /\ 1..Len(records') = 1..Len(records) \cup {w}
            /\ at[c] # 0 => w \in 1..Len(records) /\ records[w].user = what[c].user
            /\ \A l \in 1..Len(records) : l # w => records'[l] = records[l]
            /\ records'[w].user = what[c].user
        BY <2>1, RecordSaved
      <3>2. at[c] = Latest(what[c].user)
        BY <1>2, <2>1 DEF SaveBvn
      <3>3. at[c] = 0 => \A l \in 1..Len(records) : records[l].user # what[c].user
        BY <1>3, <3>1, <3>2, LatestIs DEF TypeOK
      <3> HIDE DEF w
      <3>4. ASSUME NEW l \in 1..Len(records), l # w PROVE records'[l].user # what[c].user
        <4>1. CASE at[c] = 0
          BY <3>1, <3>3, <3>4, <4>1
        <4>2. CASE at[c] # 0
          BY <1>2, <3>1, <3>4, <4>2
        <4>3. QED
          BY <4>1, <4>2
      <3>5. CASE i = w \/ k = w
        BY <1>4, <3>1, <3>4, <3>5
      <3>6. CASE i # w /\ k # w
        BY <1>2, <1>4, <3>1, <3>6
      <3>7. QED
        BY <3>5, <3>6
    <2>2. CASE Decide(c) \/ Mark(c) \/ RejectRecord(c)
      <3>1. /\ at[c] \in 1..Len(records) /\ Len(records') = Len(records)
            /\ \A l \in 1..Len(records) : l # at[c] => records'[l] = records[l]
            /\ records'[at[c]].user = records[at[c]].user
        BY <2>2, RecordSet
      <3>2. \A l \in 1..Len(records) : records'[l].user = records[l].user
        BY <3>1
      <3>3. QED
        BY <1>2, <1>4, <3>1, <3>2
    <2>3. CASE ~ (SaveBvn(c) \/ Decide(c) \/ Mark(c) \/ RejectRecord(c))
      BY <1>2, <1>4, <2>3, RecordsRead
    <2>4. QED
      BY <2>1, <2>2, <2>3
  <1>5. ASSUME NEW d \in Call, pc'[d] = "save" PROVE at'[d] = Latest(what[d].user)'
    <2>1. d = c
      BY <1>1, <1>5 DEF Underway, Idle, Finished
    <2>2. FindRecord(c)
      <3>1. ~ Start(c)
        <4>1. ASSUME NEW w, NEW i, NEW place, Begin(c, w, i, place), place # "save" PROVE FALSE
          BY <1>3, <1>5, <2>1, <4>1 DEF Begin, Goto, TypeOK
        <4>2. QED
          BY <4>1 DEF Start, VerifyBvn, VerifyNin, Webhook, AdminReview
      <3>2. ~ (Ask(c) \/ SaveBvn(c) \/ Decide(c) \/ DecideUser(c) \/ Apply(c) \/ Mark(c)
               \/ RejectRecord(c) \/ RejectUser(c) \/ Crash(c))
        BY <1>3, <1>5, <2>1 DEF Ask, AskBvn, AskFace, SaveBvn, Decide, DecideUser, Apply, Mark,
             RejectRecord, RejectUser, Crash, SetRecord, SetUser, Goto, TypeOK
      <3>3. QED
        BY <3>1, <3>2 DEF Step
    <2>3. at'[c] = Latest(what[c].user) /\ what' = what /\ records' = records
      BY <1>3, <2>2 DEF FindRecord, TypeOK
    <2>4. Latest(what[d].user)' = Latest(what[d].user)
      BY <2>3 DEF Latest
    <2>5. QED
      BY <2>1, <2>3, <2>4
  <1>6. QED
    BY <1>4, <1>5

\* A call begins among users and records that agree.
LEMMA BeginsAgreeing ==
    ASSUME Control, Agreeing, NEW c \in Call, Start(c), Quiet'
    PROVE  Agreeing'
  <1>1. TypeOK /\ Moves(c)
    BY StepControl DEF Control
  <1>2. /\ met = {}
        /\ \A d \in Call \ {c} : ~ Underway(d) /\ ~ Underway(d)'
    BY Alone DEF Quiet
  <1>3. PICK w, i, place : Begin(c, w, i, place)
    BY StartIsBegin
  <1>4. pc[c] = Idle /\ status' = status /\ records' = records
    BY <1>3 DEF Begin, userVars
  <1>5. Quiet /\ \A d \in Call : ~ Underway(d)
    BY <1>1, <1>2, <1>4 DEF Quiet, Moves, Underway, Idle
  <1>6. \A u \in User : Agree(u) /\ Agree(u)'
    BY <1>4, <1>5 DEF Agreeing, Agree
  <1>7. ASSUME NEW v, NEW j \in 0..Len(records), NEW dest, Begin(c, v, j, dest)
        PROVE  what'[c] = v /\ pc'[c] = dest
    BY <1>1, <1>7 DEF Begin, Goto, TypeOK
  <1>8. Between(c)'
    <2>1. ASSUME NEW u \in User, NEW b \in Bvn, VerifyBvn(c, u, b) PROVE Between(c)'
      <3> DEFINE v == [kind |-> "bvn", user |-> u, number |-> b]
      <3>1. status[u] # "verified" /\ Begin(c, v, 0, "ask") /\ 0 \in 0..Len(records)
        BY <1>1, <2>1, RecordsTyped DEF VerifyBvn
      <3>2. v.kind = "bvn" /\ v.user = u
        OBVIOUS
      <3> HIDE DEF v
      <3>3. what'[c] = v /\ pc'[c] = "ask"
        BY <1>7, <3>1
      <3>4. Agree(what[c].user)'
        <4>1. what'[c].user = u
          BY <3>2, <3>3
        <4>2. Agree(u)'
          BY <1>6
        <4>3. QED
          BY <4>1, <4>2 DEF Agree
      <3>5. QED
        BY <1>4, <3>1, <3>2, <3>3, <3>4 DEF Between
    <2>2. ASSUME NEW u \in User, NEW n \in Nin, VerifyNin(c, u, n) PROVE Between(c)'
      <3> DEFINE v == [kind |-> "face", user |-> u, number |-> n]
      <3>1. Begin(c, v, Latest(u), "ask") /\ Latest(u) \in 0..Len(records) /\ v.kind = "face"
        BY <1>1, <2>2, LatestIs DEF VerifyNin, TypeOK
      <3> HIDE DEF v
      <3>2. what'[c] = v /\ pc'[c] = "ask"
        BY <1>7, <3>1
      <3>3. QED
        BY <3>1, <3>2 DEF Between
    <2>3. ASSUME NEW k \in 1..Len(records), NEW j \in Job, NEW r \in Outcome, Webhook(c, j, k, r)
          PROVE  Between(c)'
      <3> DEFINE v == CallbackOf(j, k, r)
                 dest == IF r = "passed" THEN "apply" ELSE "rejectUser"
      <3>1. Begin(c, v, k, dest) /\ k \in 0..Len(records) /\ v.kind \in {"webhook", "unfounded"}
        BY <1>1, <2>3, RecordsTyped DEF Webhook, CallbackOf
      <3>2. dest \in {"apply", "rejectUser"}
        OBVIOUS
      <3> HIDE DEF v, dest
      <3>3. what'[c] = v /\ pc'[c] = dest
        BY <1>7, <3>1
      <3>4. QED
        BY <3>1, <3>2, <3>3 DEF Between
    <2>4. ASSUME NEW k \in 1..Len(records), NEW verdict \in {"verified", "rejected"}, AdminReview(c, k, verdict)
          PROVE  Between(c)'
      <3> DEFINE v == [kind |-> verdict, user |-> records[k].user, number |-> None]
      <3>1. Begin(c, v, k, "decide") /\ k \in 0..Len(records)
        BY <1>1, <2>4, RecordsTyped DEF AdminReview
      <3> HIDE DEF v
      <3>2. pc'[c] = "decide"
        BY <1>7, <3>1
      <3>3. QED
        BY <3>2 DEF Between
    <2>5. QED
      BY <2>1, <2>2, <2>3, <2>4 DEF Start
  <1>9. ASSUME NEW d \in Call \ {c} PROVE Between(d)'
    <2>1. pc'[d] \notin {"ask", "find", "save", "apply", "mark", "rejectRecord", "rejectUser", "decideUser"}
      BY <1>2 DEF Underway, Idle, Finished
    <2>2. QED
      BY <2>1 DEF Between
  <1>10. QED
    BY <1>6, <1>8, <1>9 DEF Agreeing

\* What a step leaves of the rows of other users.
LEMMA OtherUsers ==
    ASSUME Control, NEW c \in Call, Step(c), NEW u \in User, u # what[c].user, Agree(u)
    PROVE  Agree(u)'
  <1>1. status'[u] = status[u]
    BY StatusWritten
  <1>2. CASE SaveBvn(c)
    <2> DEFINE w == IF at[c] = 0 THEN Len(records) + 1 ELSE at[c]
    <2>1. /\ 1..Len(records') = 1..Len(records) \cup {w}
          /\ at[c] # 0 => w \in 1..Len(records) /\ records[w].user = what[c].user
          /\ at[c] = 0 => w \notin 1..Len(records)
          /\ \A l \in 1..Len(records) : l # w => records'[l] = records[l]
          /\ records'[w].user = what[c].user
      BY <1>2, RecordSaved
    <2> HIDE DEF w
    <2>2. \A l \in 1..Len(records') : records'[l].user = u => l \in 1..Len(records) /\ records'[l] = records[l]
      BY <2>1
    <2>3. \A l \in 1..Len(records) : records[l].user = u => l \in 1..Len(records') /\ records'[l] = records[l]
      BY <2>1
    <2>4. QED
      BY <1>1, <2>2, <2>3 DEF Agree
  <1>3. CASE Decide(c) \/ Mark(c) \/ RejectRecord(c)
    <2>1. /\ at[c] \in 1..Len(records) /\ Len(records') = Len(records) /\ records[at[c]].user = what[c].user
          /\ \A l \in 1..Len(records) : l # at[c] => records'[l] = records[l]
          /\ records'[at[c]].user = records[at[c]].user
      BY <1>3, RecordSet
    <2>2. \A l \in 1..Len(records) : records'[l].user = u \/ records[l].user = u => records'[l] = records[l]
      BY <2>1
    <2>3. QED
      BY <1>1, <2>1, <2>2 DEF Agree
  <1>4. CASE ~ (SaveBvn(c) \/ Decide(c) \/ Mark(c) \/ RejectRecord(c))
    <2>1. records' = records
      BY <1>4, RecordsRead
    <2>2. QED
      BY <1>1, <2>1 DEF Agree
  <1>5. QED
    BY <1>2, <1>3, <1>4

\* The two writes of a call, one after the other.
LEMMA StepBetween ==
    ASSUME Control, OneRecord, OneRecord', Quiet, Quiet', NEW c \in Call, Step(c), Between(c)
    PROVE  /\ Between(c)'
           /\ ~ Underway(c)' => Agree(what[c].user)'
  <1>1. TypeOK /\ Placed(c) /\ Found(c) /\ Moves(c) /\ Control'
    BY StepControl DEF Control, CallsOk
  <1>2. pc[c] # Idle
    BY DEF Step, Ask, AskBvn, AskFace, FindRecord, SaveBvn, Decide, DecideUser, Apply, Mark,
           RejectRecord, RejectUser, Crash, Underway, Idle
  <1>3. what[c].user \in User /\ what'[c] = what[c] /\ what[c] # None
    BY <1>1, <1>2, Begun DEF Moves
  <1>4. pc'[c] # "failed" /\ met' = {} /\ met = {}
    BY DEF Quiet
  <1>5. ASSUME NEW i \in 1..Len(records'), records'[i].user = what[c].user,
               (status'[what[c].user] = "verified") <=> (records'[i].status = "verified")
        PROVE  Agree(what[c].user)'
    <2>1. \A k \in 1..Len(records') : records'[k].user = what[c].user => k = i
      BY <1>4, <1>5 DEF OneRecord
    <2>2. QED
      BY <1>3, <1>5, <2>1 DEF Agree
  <1>6. ASSUME status' = status, records' = records, Agree(what[c].user) PROVE Agree(what[c].user)'
    BY <1>3, <1>6 DEF Agree
  <1>7. ~ Crash(c)
    BY <1>1, <1>4 DEF Crash, Goto, TypeOK
  <1>8. CASE Ask(c)
    <2>1. pc[c] = "ask" /\ status' = status /\ records' = records
      BY <1>8 DEF Ask, AskBvn, AskFace, userVars
    <2>2. \/ what[c].kind = "bvn" /\ pc'[c] \in {"find", "failed"}
          \/ what[c].kind = "face" /\ pc'[c] \in {"apply", "rejectRecord"}
      BY <1>1, <1>8 DEF Ask, AskBvn, AskFace, Goto, TypeOK
    <2>3. Underway(c)'
      BY <1>4, <2>2 DEF Underway, Idle, Finished
    <2>4. Between(c)'
      BY <1>3, <1>4, <1>6, <2>1, <2>2 DEF Between
    <2>5. QED
      BY <2>3, <2>4
  <1>9. CASE FindRecord(c)
    <2>1. pc[c] = "find" /\ pc'[c] = "save" /\ what[c].kind = "bvn" /\ status' = status /\ records' = records
      BY <1>1, <1>9 DEF FindRecord, Goto, TypeOK, Placed, userVars
    <2>2. Underway(c)'
      BY <2>1 DEF Underway, Idle, Finished
    <2>3. Between(c)'
      BY <1>3, <1>6, <2>1 DEF Between
    <2>4. QED
      BY <2>2, <2>3
  <1>10. CASE SaveBvn(c)
    <2> DEFINE w == IF at[c] = 0 THEN Len(records) + 1 ELSE at[c]
    <2>1. pc[c] = "save" /\ pc'[c] = "done" /\ what[c].kind = "bvn" /\ status' = status
      BY <1>1, <1>10 DEF SaveBvn, Goto, TypeOK, Placed, userVars
    <2>2. status[what[c].user] # "verified"
      BY <2>1 DEF Between
    <2>3. w \in 1..Len(records') /\ records'[w].user = what[c].user /\ records'[w].status = "submitted"
      BY <1>10, RecordSaved
    <2> HIDE DEF w
    <2>4. Agree(what[c].user)'
      BY <1>5, <2>1, <2>2, <2>3
    <2>5. QED
      BY <2>1, <2>4 DEF Between
  <1>11. CASE Decide(c)
    <2>1. pc'[c] = "decideUser" /\ at' = at /\ ~ Mark(c)
      BY <1>1, <1>11 DEF Decide, Mark, SetRecord, Goto, TypeOK
    <2>2. records'[at[c]].status = what[c].kind
      BY <1>11, <2>1, RecordSet
    <2>3. Underway(c)'
      BY <2>1 DEF Underway, Idle, Finished
    <2>4. QED
      BY <1>3, <2>1, <2>2, <2>3 DEF Between
  <1>12. CASE DecideUser(c)
    <2>1. /\ pc[c] = "decideUser" /\ what[c].kind \in {"verified", "rejected"}
          /\ status'[what[c].user] = what[c].kind /\ records' = records /\ at' = at
          /\ pc'[c] = IF what[c].kind = "verified" THEN "apply" ELSE "done"
      BY <1>1, <1>3, <1>12 DEF DecideUser, SetUser, Goto, TypeOK, Placed
    <2>2. records[at[c]].status = what[c].kind
      BY <2>1 DEF Between
    <2>3. at[c] \in 1..Len(records) /\ records[at[c]].user = what[c].user
      BY <1>1, <1>3, <2>1 DEF Found
    <2>4. Agree(what[c].user)'
      BY <1>5, <2>1, <2>2, <2>3
    <2>5. QED
      BY <1>3, <2>1, <2>2, <2>4 DEF Between
  <1>13. CASE Apply(c)
    <2>1. /\ pc[c] = "apply" /\ what[c].kind \in {"face", "webhook", "unfounded", "verified"}
          /\ status'[what[c].user] = "verified" /\ records' = records /\ at' = at
          /\ pc'[c] = IF what[c].kind \in {"face", "webhook", "unfounded"} THEN "mark" ELSE "done"
      BY <1>1, <1>3, <1>13 DEF Apply, Goto, TypeOK, Placed
    <2>2. CASE what[c].kind = "verified"
      <3>1. records[at[c]].status = "verified"
        BY <2>1, <2>2 DEF Between
      <3>2. at[c] \in 1..Len(records) /\ records[at[c]].user = what[c].user
        BY <1>1, <1>3, <2>2 DEF Found
      <3>3. Agree(what[c].user)'
        BY <1>5, <2>1, <3>1, <3>2
      <3>4. QED
        BY <2>1, <2>2, <3>3 DEF Between
    <2>3. CASE what[c].kind # "verified"
      <3>1. pc'[c] = "mark"
        BY <2>1, <2>3
      <3>2. QED
        BY <1>3, <2>1, <3>1 DEF Between, Underway, Idle, Finished
    <2>4. QED
      BY <2>2, <2>3
  <1>14. CASE Mark(c)
    <2>1. pc[c] = "mark" /\ pc'[c] = "done" /\ status' = status
      BY <1>1, <1>14 DEF Mark, SetRecord, Goto, TypeOK, userVars
    <2>2. /\ at[c] \in 1..Len(records') /\ records'[at[c]].user = what[c].user
          /\ records'[at[c]].status = "verified"
      BY <1>14, RecordSet
    <2>3. Agree(what[c].user)'
      BY <1>5, <2>1, <2>2 DEF Between
    <2>4. QED
      BY <2>1, <2>3 DEF Between
  <1>15. CASE RejectRecord(c)
    <2>1. /\ pc[c] = "rejectRecord" /\ what[c].kind \in {"face", "webhook", "unfounded"} /\ status' = status /\ at' = at
          /\ pc'[c] = IF what[c].kind = "face" THEN "rejectUser" ELSE "done"
          /\ ~ Mark(c) /\ ~ Decide(c)
      BY <1>1, <1>15 DEF RejectRecord, Mark, Decide, SetRecord, Goto, TypeOK, Placed, userVars
    <2>2. /\ at[c] \in 1..Len(records') /\ records'[at[c]].user = what[c].user
          /\ records'[at[c]].status = "rejected"
      BY <1>15, <2>1, RecordSet
    <2>3. CASE what[c].kind = "face"
      BY <1>3, <2>1, <2>2, <2>3 DEF Between, Underway, Idle, Finished
    <2>4. CASE what[c].kind # "face"
      <3>1. Agree(what[c].user)'
        BY <1>5, <2>1, <2>2, <2>4 DEF Between
      <3>2. QED
        BY <2>1, <2>4, <3>1 DEF Between
    <2>5. QED
      BY <2>1, <2>3, <2>4
  <1>16. CASE RejectUser(c)
    <2>1. /\ pc[c] = "rejectUser" /\ what[c].kind \in {"face", "webhook", "unfounded"}
          /\ status'[what[c].user] = "rejected" /\ records' = records /\ at' = at
          /\ pc'[c] = IF what[c].kind = "face" THEN "done" ELSE "rejectRecord"
      BY <1>1, <1>3, <1>16 DEF RejectUser, SetUser, Goto, TypeOK, Placed
    <2>2. CASE what[c].kind = "face"
      <3>1. records[at[c]].status = "rejected"
        BY <2>1, <2>2 DEF Between
      <3>2. at[c] \in 1..Len(records) /\ records[at[c]].user = what[c].user
        BY <1>1, <1>3, <2>2 DEF Found
      <3>3. Agree(what[c].user)'
        BY <1>5, <2>1, <3>1, <3>2
      <3>4. QED
        BY <2>1, <2>2, <3>3 DEF Between
    <2>3. CASE what[c].kind # "face"
      BY <1>3, <2>1, <2>3 DEF Between, Underway, Idle, Finished
    <2>4. QED
      BY <2>1, <2>2, <2>3
  <1>17. QED
    BY <1>7, <1>8, <1>9, <1>10, <1>11, <1>12, <1>13, <1>14, <1>15, <1>16 DEF Step

LEMMA StepAgreeing ==
    ASSUME Control, OneRecord, OneRecord', Agreeing, NEW c \in Call, Step(c), Quiet'
    PROVE  Agreeing'
  <1>1. Moves(c) /\ Underway(c)
    BY StepControl
       DEF Step, Ask, AskBvn, AskFace, FindRecord, SaveBvn, Decide, DecideUser, Apply, Mark,
           RejectRecord, RejectUser, Crash, Underway, Idle, Finished
  <1>2. /\ met = {}
        /\ \A d \in Call \ {c} : ~ Underway(d) /\ ~ Underway(d)'
    BY Alone DEF Quiet
  <1>3. Quiet
    BY <1>1, <1>2 DEF Quiet, Moves, Underway, Finished
  <1>4. Between(c)' /\ (~ Underway(c)' => Agree(what[c].user)') /\ what'[c] = what[c]
    BY <1>1, <1>3, StepBetween DEF Agreeing, Moves, Underway
  <1>5. ASSUME NEW u \in User, \A d \in Call : Underway(d)' => what'[d].user # u
        PROVE  Agree(u)'
    <2>1. CASE u = what[c].user
      <3>1. Agree(what[c].user)'
        BY <1>4, <1>5, <2>1
      <3>2. QED
        BY <1>4, <2>1, <3>1 DEF Agree
    <2>2. CASE u # what[c].user
      <3>1. Agree(u)
        BY <1>2, <1>3, <2>2 DEF Agreeing
      <3>2. QED
        BY <2>2, <3>1, OtherUsers
    <2>3. QED
      BY <2>1, <2>2
  <1>6. ASSUME NEW d \in Call \ {c} PROVE Between(d)'
    <2>1. pc'[d] \notin {"ask", "find", "save", "apply", "mark", "rejectRecord", "rejectUser", "decideUser"}
      BY <1>2 DEF Underway, Idle, Finished
    <2>2. QED
      BY <2>1 DEF Between
  <1>7. QED
    BY <1>4, <1>5, <1>6 DEF Agreeing

LEMMA NextAgreeSafe == AgreeSafe /\ [Next]_vars => AgreeSafe'
  <1> SUFFICES ASSUME AgreeSafe, [Next]_vars PROVE AgreeSafe'
    OBVIOUS
  <1>1. Control /\ Control'
    BY NextControl DEF AgreeSafe
  <1>2. CASE UNCHANGED vars
    <2>1. UNCHANGED <<status, records, what, pc, at, met>>
      BY <1>2 DEF vars, userVars
    <2>2. OneRecord'
      <3>1. \A d \in Call : Latest(what[d].user)' = Latest(what[d].user)
        BY <2>1 DEF Latest
      <3>2. QED
        BY <2>1, <3>1 DEF AgreeSafe, OneRecord
    <2>3. \A u \in User : Agree(u)' <=> Agree(u)
      BY <2>1 DEF Agree
    <2>4. \A d \in Call : Between(d)' <=> Between(d)
      BY <2>1 DEF Between, Agree
    <2>5. Agreeing'
      BY <2>1, <2>3, <2>4 DEF AgreeSafe, Agreeing, Quiet, Underway
    <2>6. QED
      BY <1>1, <2>2, <2>5 DEF AgreeSafe
  <1>3. ASSUME NEW c \in Call, Start(c) \/ Step(c) PROVE AgreeSafe'
    <2>1. OneRecord'
      BY <1>3, StepOneRecord DEF AgreeSafe
    <2>2. Agreeing'
      <3>1. CASE Quiet'
        BY <1>3, <2>1, <3>1, BeginsAgreeing, StepAgreeing DEF AgreeSafe
      <3>2. CASE ~ Quiet'
        BY <3>2 DEF Agreeing
      <3>3. QED
        BY <3>1, <3>2
    <2>3. QED
      BY <1>1, <2>1, <2>2 DEF AgreeSafe
  <1>4. QED
    BY <1>2, <1>3 DEF Next

\* Calls that never overlapped and did not break off leave the user's row and the newest record
\* in agreement, both verified or neither, whatever mixture of checks, callbacks and reviews.
THEOREM RowsAgree == Spec => []StatusesAgree
  <1>1. Init => AgreeSafe
    <2> SUFFICES ASSUME Init PROVE AgreeSafe
      OBVIOUS
    <2>1. OneRecord
      <3>1. \A c \in Call : pc[c] # "save"
        BY DEF Init, Idle
      <3>2. QED
        BY <3>1, InitRecords DEF OneRecord
    <2>2. Agreeing
      <3>1. \A u \in User : status[u] # "verified"
        BY DEF Init
      <3>2. \A u \in User : Agree(u)
        BY <3>1, InitRecords DEF Agree
      <3>3. \A c \in Call : Between(c)
        BY DEF Init, Between, Idle
      <3>4. QED
        BY <3>2, <3>3 DEF Agreeing
    <2>3. QED
      BY <2>1, <2>2, InitControl DEF AgreeSafe
  <1>2. AgreeSafe => StatusesAgree
    <2> SUFFICES ASSUME AgreeSafe, \A c \in Call : pc[c] \in {Idle, "done"}, met = {}, NEW u \in User
                 PROVE  status[u] = "verified" <=> (Latest(u) # 0 /\ records[Latest(u)].status = "verified")
      BY DEF StatusesAgree
    <2>1. Quiet /\ \A c \in Call : ~ Underway(c)
      BY DEF Quiet, Underway, Idle, Finished
    <2>2. Agree(u)
      BY <2>1 DEF AgreeSafe, Agreeing
    <2>3. records \in Seq(Record)
      BY DEF AgreeSafe, Control, TypeOK
    <2>4. /\ Latest(u) \in 0..Len(records) /\ Len(records) \in Nat
          /\ Latest(u) # 0 => records[Latest(u)].user = u
          /\ Latest(u) = 0 => \A i \in 1..Len(records) : records[i].user # u
      BY <2>3, LatestIs
    <2>5. \A i, k \in 1..Len(records) : records[i].user = records[k].user => i = k
      BY DEF AgreeSafe, OneRecord
    <2>6. CASE Latest(u) = 0
      BY <2>2, <2>4, <2>6 DEF Agree
    <2>7. CASE Latest(u) # 0
      <3>1. Latest(u) \in 1..Len(records)
        BY <2>4, <2>7
      <3>2. \A i \in 1..Len(records) : records[i].user = u => i = Latest(u)
        BY <2>4, <2>5, <2>7, <3>1
      <3>3. QED
        BY <2>2, <2>4, <2>7, <3>1, <3>2 DEF Agree
    <2>8. QED
      BY <2>6, <2>7
  <1>3. QED
    BY <1>1, <1>2, NextAgreeSafe, PTL DEF Spec
=============================================================================

--------------------------- MODULE AccountsSafety ----------------------------
(***************************************************************************)
(* What calls on one account, a password, a PIN, a secret, a number, codes,*)
(* links and tokens promise each other although they take no lock: each    *)
(* property with the strengthening that makes it inductive.                *)
(***************************************************************************)
EXTENDS AccountsProofs, FiniteSetTheorems

-----------------------------------------------------------------------------
(* Steps: what each of them leaves alone *)

\* A call that stores no link, and one that emails no code, any more.
Fresh == {"idle", "save", "verifyLink", "sendCode", "pending", "write"}
Made(a) == a = Earlier \/ pc[a] \notin Fresh
Mailed(a) == a = Earlier \/ pc[a] \notin {"idle", "sendCode"}

\* A call that sends no code any more.
Sent(a) == pc[a] \in {"stamp", "sign", "store", "done", "failed"}

\* A call that has begun goes on, or dies.
Acts(c) == PhoneStep(c) \/ SessionStep(c) \/ AccountStep(c) \/ Crash(c)

\* A call begins with a warrant.
Begins(c) == \E name, what, saw, place : Begin(c, name, what, saw, place) /\ Warrant(name, what, saw, place)

\* What the calls are, have presented and have read stays but for one of them.
Alone(c) ==
    /\ op' = op /\ met' = met
    /\ \A d \in Call \ {c} : /\ pc'[d] = pc[d] /\ seen'[d] = seen[d]
                             /\ cred'[d] = cred[d] /\ second'[d] = second[d]

\* A step is one of a call, or time passes, in which only a code can go.
LEMMA StepCases ==
    ASSUME Control, [Next]_vars
    PROVE  \/ \E c \in Call : Begins(c) \/ Acts(c)
           \/ /\ UNCHANGED <<user, keys, op, pc, cred, seen, second, met>>
              /\ code' = code \/ \E p \in Phone : code' = [code EXCEPT ![p] = None]
  <1>1. ASSUME NEW c \in Call, Start(c) PROVE Begins(c)
    BY <1>1, StartWarrant DEF Begins
  <1>2. CASE Tick
    BY <1>2 DEF Tick, codeVars, callVars
  <1>3. CASE \E p \in Phone : PhoneKeyExpires(p)
    BY <1>3 DEF PhoneKeyExpires, CodeExpires, LimitExpires, DropCode, callVars
  <1>4. QED
    BY <1>1, <1>2, <1>3 DEF Next, Acts, vars

\* What a call that goes on leaves alone.
LEMMA ActFrame ==
    ASSUME Control, NEW c \in Call, Acts(c)
    PROVE  /\ Alone(c) /\ Underway(c) /\ pc'[c] \notin {"idle", "write"} /\ cred[c] \subseteq cred'[c]
           /\ pc'[c] # "store" => second'[c] = second[c]
  <1>t. TypeOK /\ Fits(c)
    BY DEF Control
  <1>1. CASE PhoneStep(c)
    <2>1. CASE PhoneTaken(c) \/ WritePhone(c) \/ CheckRate(c) \/ NoCode(c) \/ TooManyGuesses(c) \/ MarkVerified(c)
      BY <2>1, <1>t DEF PhoneTaken, WritePhone, CheckRate, NoCode, TooManyGuesses, MarkVerified, Proceed, Write,
         Goto, Alone, Underway, Finished, TypeOK
    <2>2. CASE SendCode(c) \/ StampRate(c) \/ Drop(c) \/ CountGuess(c)
      BY <2>2, <1>t DEF SendCode, StampRate, Drop, CountGuess, Others, Goto, Alone, Underway, Finished, TypeOK
    <2>3. CASE WrongGuess(c) \/ RightGuess(c)
      BY <2>3, <1>t DEF WrongGuess, RightGuess, Present, Others, Goto, Alone, Underway, Finished, TypeOK
    <2>4. QED
      BY <1>1, <2>1, <2>2, <2>3 DEF PhoneStep
  <1>2. CASE SessionStep(c)
    <2>1. CASE SendEmailOtp(c) \/ ValidateAuthenticator(c) \/ ValidateRefused(c) \/ SpendCode(c)
      BY <2>1, <1>t DEF SendEmailOtp, ValidateAuthenticator, ValidateRefused, SpendCode, Proceed, Write, AfterCode,
         Goto, Alone, Underway, Finished, TypeOK
    <2>2. CASE KeepPending(c) \/ Unpend(c) \/ Revoke(c) \/ ValidateEmailed(c)
      BY <2>2, <1>t DEF KeepPending, Unpend, Revoke, SetKeys, ValidateEmailed, Present, Others,
         Goto, Alone, Underway, Finished, TypeOK
    <2>3. CASE Sign(c) \/ Store(c)
      BY <2>3, <1>t DEF Sign, Store, Goto, Alone, Underway, Finished, TypeOK
    <2>4. QED
      BY <1>2, <2>1, <2>2, <2>3 DEF SessionStep
  <1>3. CASE AccountStep(c)
    <2>1. CASE Save(c) \/ UpdateRow(c) \/ ScanEnds(c)
      BY <2>1, <1>t DEF Save, UpdateRow, ScanEnds, Proceed, Write, Goto, Alone, Underway, Finished, TypeOK
    <2>2. CASE CreateVerifyLink(c) \/ StoreLink(c) \/ Unlink(c)
      BY <2>2, <1>t DEF CreateVerifyLink, StoreLink, Unlink, SetKeys, Goto, Alone, Underway, Finished, TypeOK
    <2>3. CASE (\E page \in SUBSET Refresh : ScanPage(c, page)) \/ DeletePage(c)
      BY <2>3, <1>t DEF ScanPage, DeletePage, Alone, Underway, Finished, TypeOK
    <2>4. QED
      BY <1>3, <2>1, <2>2, <2>3 DEF AccountStep
  <1>4. CASE Crash(c)
    BY <1>4, <1>t DEF Crash, Goto, Alone, Underway, Finished, TypeOK
  <1>5. QED
    BY <1>1, <1>2, <1>3, <1>4 DEF Acts

\* What a step does to the row.
LEMMA RowFrame ==
    ASSUME Control, NEW c \in Call, Acts(c)
    PROVE  \/ UNCHANGED user
           \/ pc[c] = "save" /\ user = None /\ user' = NewRow(c, seen[c])
           \/ pc[c] = "phone" /\ user' = [user EXCEPT !.phone = seen[c]] /\ pc'[c] = "rate"
           \/ pc[c] = "proven" /\ user' = [user EXCEPT !.phoneVerified = TRUE] /\ pc'[c] = "done"
           \/ pc[c] = "sendCode" /\ user' = [user EXCEPT !.emailOtp = c] /\ pc'[c] # "sendCode"
           \/ pc[c] = "spend" /\ user' = [user EXCEPT !.emailOtp = None]
           \/ pc[c] = "write" /\ op[c] \in Writing \ Forgot /\ user' = Written(c)
  <1>t. TypeOK /\ Fits(c)
    BY DEF Control
  <1>1. CASE PhoneStep(c)
    <2>1. CASE WritePhone(c) \/ MarkVerified(c)
      BY <2>1, <1>t DEF WritePhone, MarkVerified, Write, Goto, TypeOK
    <2>2. CASE UNCHANGED user
      BY <2>2
    <2>3. QED
      BY <1>1, <2>1, <2>2 DEF PhoneStep, PhoneTaken, CheckRate, NoCode, TooManyGuesses, Proceed, SendCode, StampRate,
         Drop, CountGuess, WrongGuess, RightGuess, Others
  <1>2. CASE SessionStep(c)
    <2>1. CASE SendEmailOtp(c) \/ SpendCode(c)
      BY <2>1, <1>t DEF SendEmailOtp, SpendCode, Write, Goto, TypeOK
    <2>2. QED
      BY <1>2, <2>1 DEF SessionStep, ValidateAuthenticator, ValidateRefused, Proceed, KeepPending, Unpend, Revoke,
         SetKeys, ValidateEmailed, Others, Sign, Store
  <1>3. CASE AccountStep(c)
    <2>1. CASE Save(c)
      BY <2>1 DEF Save, Write, Proceed
    <2>2. CASE UpdateRow(c)
      BY <2>2, <1>t DEF UpdateRow, Write, Fits, Forgot
    <2>3. QED
      BY <1>3, <2>1, <2>2 DEF AccountStep, ScanEnds, Proceed, CreateVerifyLink, StoreLink, Unlink, SetKeys, ScanPage,
         DeletePage
  <1>4. CASE Crash(c)
    BY <1>4 DEF Crash
  <1>5. QED
    BY <1>1, <1>2, <1>3, <1>4 DEF Acts

\* The row stays one, and so do the fields that a step does not name.
LEMMA RowKept ==
    ASSUME Control, NEW c \in Call, Acts(c), user # None
    PROVE  /\ user \in Row /\ user' \in Row /\ user' # None
           /\ pc[c] # "write" => /\ user'.pin = user.pin /\ user'.pinSet = user.pinSet
                                 /\ user'.method = user.method /\ user'.secret = user.secret
           /\ pc[c] # "phone" => user'.phone = user.phone
           /\ user.phoneVerified => user'.phoneVerified
           /\ pc[c] # "proven" => user'.phoneVerified = user.phoneVerified
  <1>t. TypeOK /\ Fits(c) /\ user \in Row
    BY DEF Control, TypeOK
  <1> USE NothingAssumption
  <1>1. CASE user' = user
    BY <1>t, <1>1
  <1>2. CASE pc[c] = "phone" /\ user' = [user EXCEPT !.phone = seen[c]]
    BY <1>t, <1>2 DEF Row, Fits
  <1>3. CASE pc[c] = "proven" /\ user' = [user EXCEPT !.phoneVerified = TRUE]
    BY <1>t, <1>3 DEF Row
  <1>4. CASE \E a \in Author \cup {None} : pc[c] \in {"sendCode", "spend"} /\ user' = [user EXCEPT !.emailOtp = a]
    BY <1>t, <1>4 DEF Row
  <1>5. CASE pc[c] = "write" /\ op[c] \in Writing \ Forgot /\ user' = Written(c)
    <2>1. user' \in Row
      BY <1>t, <1>5, WrittenRow
    <2>2. user'.phone = user.phone /\ user'.phoneVerified = user.phoneVerified
      BY <1>t, <1>5 DEF Written, Writing, Forgot, Linked, PinOps, Row
    <2>3. QED
      BY <1>t, <1>5, <2>1, <2>2
  <1>6. QED
    BY <1>1, <1>2, <1>3, <1>4, <1>5, RowFrame DEF Author

\* What a step does to the keys.
LEMMA KeyFrame ==
    ASSUME Control, NEW c \in Call, Acts(c)
    PROVE  \/ keys' \subseteq keys /\ (pc[c] \in {"unlink", "unpend"} => pc'[c] = "failed" \/ keys' = keys \ cred[c])
                                   /\ (pc[c] = "revoke" => pc'[c] = "failed" \/ keys' = keys \ (cred[c] \cup {seen[c]}))
           \/ pc[c] = "verifyLink" /\ keys' = keys \cup {<<"email-verify", c>>} /\ pc'[c] \notin Fresh
           \/ pc[c] = "pending" /\ keys' = keys \cup {<<"pending-2fa", c>>} /\ pc'[c] \notin Fresh
           \/ pc[c] = "write" /\ op[c] \in Forgot /\ keys' = keys \cup {<<seen[c], c>>} /\ pc'[c] \notin Fresh
           \/ pc[c] = "store" /\ keys' = keys \cup {<<"refresh", second[c]>>} /\ pc'[c] = "done"
  <1>t. TypeOK /\ Fits(c)
    BY DEF Control
  <1>1. CASE PhoneStep(c)
    <2>1. UNCHANGED keys
      BY <1>1 DEF PhoneStep, PhoneTaken, CheckRate, NoCode, TooManyGuesses, Proceed, SendCode, StampRate,
         Drop, CountGuess, WrongGuess, RightGuess, Others, WritePhone, MarkVerified, Write
    <2>2. pc[c] \notin {"unlink", "unpend", "revoke"}
      BY <1>1 DEF PhoneStep, PhoneTaken, CheckRate, NoCode, TooManyGuesses, SendCode, StampRate,
         Drop, CountGuess, WrongGuess, RightGuess, WritePhone, MarkVerified
    <2>3. QED
      BY <2>1, <2>2
  <1>2. CASE SessionStep(c)
    <2>1. CASE KeepPending(c)
      BY <2>1, <1>t DEF KeepPending, SetKeys, Goto, TypeOK, Fresh
    <2>2. CASE Unpend(c) \/ Revoke(c)
      BY <2>2 DEF Unpend, Revoke, SetKeys
    <2>3. CASE Store(c)
      BY <2>3, <1>t DEF Store, Goto, TypeOK
    <2>4. QED
      BY <1>2, <2>1, <2>2, <2>3 DEF SessionStep, ValidateAuthenticator, ValidateRefused, Proceed, SendEmailOtp, SpendCode,
         Write, ValidateEmailed, Others, Sign
  <1>3. CASE AccountStep(c)
    <2>1. CASE CreateVerifyLink(c)
      BY <2>1, <1>t DEF CreateVerifyLink, SetKeys, Goto, TypeOK, Fresh
    <2>2. CASE StoreLink(c)
      BY <2>2, <1>t DEF StoreLink, SetKeys, Goto, TypeOK, Fresh, Forgot
    <2>3. CASE Unlink(c) \/ DeletePage(c)
      BY <2>3 DEF Unlink, DeletePage
    <2>4. QED
      BY <1>3, <2>1, <2>2, <2>3 DEF AccountStep, Save, UpdateRow, ScanEnds, Proceed, Write, ScanPage
  <1>4. CASE Crash(c)
    BY <1>4, <1>t DEF Crash, Goto, TypeOK
  <1>5. QED
    BY <1>1, <1>2, <1>3, <1>4 DEF Acts

\* What a call that begins leaves alone; it overlaps all that are under way.
LEMMA BeginFrame ==
    ASSUME Control, NEW c \in Call, NEW name, NEW what, NEW saw, NEW place,
           Begin(c, name, what, saw, place), Warrant(name, what, saw, place)
    PROVE  /\ pc[c] = "idle" /\ pc'[c] = place /\ op'[c] = name /\ seen'[c] = saw /\ cred'[c] = what /\ second'[c] = None
           /\ \A d \in Call \ {c} : /\ op'[d] = op[d] /\ pc'[d] = pc[d] /\ seen'[d] = seen[d]
                                    /\ cred'[d] = cred[d] /\ second'[d] = second[d]
           /\ met \subseteq met' /\ UNCHANGED <<user, keys, code>>
           /\ \A d \in Call : ~Overlapped(c, d) /\ ~Overlapped(d, c)
           /\ \A d \in Call \ {c} : Underway(d) => Overlapped(c, d)' /\ Overlapped(d, c)'
           /\ \A d, e \in Call \ {c} : Overlapped(d, e)' = Overlapped(d, e)
  <1>t. TypeOK /\ Fits(c) /\ Met(c)
    BY DEF Control
  <1>1. /\ pc[c] = "idle" /\ op' = [op EXCEPT ![c] = name] /\ cred' = [cred EXCEPT ![c] = @ \cup what]
        /\ seen' = [seen EXCEPT ![c] = saw] /\ pc' = [pc EXCEPT ![c] = place]
        /\ met' = met \cup {{c, d} : d \in {d \in Call : Underway(d)}}
        /\ UNCHANGED <<code, limited, user, keys, now, second, todo, owed>>
    BY DEF Begin, Present, Goto, codeVars
  <1>2. \A d \in Call : ~Overlapped(c, d) /\ ~Overlapped(d, c)
    BY <1>1, <1>t DEF Met, Overlapped
  <1>3. ASSUME NEW d \in Call \ {c}, Underway(d) PROVE Overlapped(c, d)' /\ Overlapped(d, c)'
    <2>1. {c, d} \in met' /\ {c, d} = {d, c}
      BY <1>1, <1>3
    <2>2. QED
      BY <2>1 DEF Overlapped
  <1>4. ASSUME NEW d \in Call \ {c}, NEW e \in Call \ {c} PROVE Overlapped(d, e)' = Overlapped(d, e)
    BY <1>1 DEF Overlapped
  <1>5. QED
    BY <1>1, <1>2, <1>3, <1>4, <1>t DEF TypeOK, Fits

\* The calls under way overlap the one that acts.
LEMMA ActsOverlap ==
    ASSUME Control, NEW c \in Call, Acts(c)
    PROVE  /\ Underway(c)
           /\ \A d \in Call \ {c} : Underway(d) => Overlapped(c, d) /\ Overlapped(d, c)
           /\ \A d, e \in Call : Overlapped(d, e)' = Overlapped(d, e)
           /\ \A d \in Call : cred[d] \subseteq cred'[d]
  <1>1. \A d \in Call \ {c} : Met(d) /\ Met(c)
    BY DEF Control
  <1>2. QED
    BY <1>1, ActFrame DEF Met, Alone, Overlapped

\* The same of a call that begins, whatever it is.
LEMMA BeginsFrame ==
    ASSUME Control, NEW c \in Call, Begins(c)
    PROVE  /\ UNCHANGED <<user, keys, code>>
           /\ pc[c] = "idle" /\ second'[c] = None /\ cred[c] = {}
           /\ pc'[c] \notin {"idle", "failed", "wrong", "done", "proven", "dropCode", "ttl", "store", "sign"}
           /\ \A d \in Call \ {c} : /\ op'[d] = op[d] /\ pc'[d] = pc[d] /\ seen'[d] = seen[d]
                                    /\ cred'[d] = cred[d] /\ second'[d] = second[d]
           /\ \A d, e \in Call : Overlapped(d, e) => Overlapped(d, e)' /\ op'[d] = op[d] /\ op'[e] = op[e]
           /\ \A d \in Call \ {c} : Underway(d) => Overlapped(c, d)' /\ Overlapped(d, c)'
  <1>1. PICK name, what, saw, place : Begin(c, name, what, saw, place) /\ Warrant(name, what, saw, place)
    BY DEF Begins
  <1>2. place \notin {"idle", "failed", "wrong", "done", "proven", "dropCode", "ttl", "store", "sign"}
    BY <1>1 DEF Warrant
  <1>3. Fits(c)
    BY DEF Control
  <1>4. QED
    BY <1>1, <1>2, <1>3, BeginFrame DEF Fits

\* What a step does to the codes, and where the calls about a phone go.
LEMMA PhoneFrame ==
    ASSUME Control, NEW c \in Call, Acts(c)
    PROVE  /\ \/ code' = code
              \/ /\ pc[c] = "code" /\ pc'[c] = "stamp"
                 /\ code' = [code EXCEPT ![seen[c]] = [otp |-> c, attempts |-> 0]]
              \/ pc[c] = "drop" /\ pc'[c] = "failed" /\ code' = [code EXCEPT ![seen[c]] = None]
              \/ pc[c] = "dropCode" /\ pc'[c] = "proven" /\ code' = [code EXCEPT ![seen[c]] = None]
              \/ /\ pc[c] = "ttl" /\ pc'[c] = "wrong"
                 /\ code' = [code EXCEPT ![seen[c].phone] = [seen[c].stored EXCEPT !.attempts = @ + 1]]
           /\ pc'[c] = "ttl" =>
                /\ pc[c] = "guess" /\ code' = code /\ code[seen[c]] # None
                /\ seen'[c] = [phone |-> seen[c], stored |-> code[seen[c]]]
           /\ pc'[c] = "dropCode" =>
                /\ pc[c] = "guess" /\ code' = code /\ code[seen[c]] # None /\ seen'[c] = seen[c]
                /\ cred'[c] = cred[c] \cup {<<"phone-otp", <<seen[c], code[seen[c]].otp>>>>}
           /\ pc'[c] = "proven" =>
                pc[c] = "dropCode" /\ seen'[c] = seen[c] /\ code' = [code EXCEPT ![seen[c]] = None]
           /\ pc'[c] = "wrong" =>
                /\ pc[c] = "ttl" /\ seen'[c] = seen[c]
                /\ code' = [code EXCEPT ![seen[c].phone] = [seen[c].stored EXCEPT !.attempts = @ + 1]]
           /\ pc'[c] \notin {"phone", "guess"}
           /\ cred'[c] = cred[c] \/ pc'[c] \in {"dropCode", "spend"}
  <1>t. TypeOK /\ Fits(c)
    BY DEF Control
  <1>1. CASE PhoneStep(c)
    <2>1. CASE PhoneTaken(c) \/ WritePhone(c) \/ CheckRate(c) \/ NoCode(c) \/ TooManyGuesses(c) \/ MarkVerified(c)
      BY <2>1, <1>t DEF PhoneTaken, WritePhone, CheckRate, NoCode, TooManyGuesses, MarkVerified, Proceed, Write,
         Goto, codeVars, TypeOK
    <2>2. CASE SendCode(c)
      BY <2>2, <1>t DEF SendCode, StoreCode, Others, Goto, TypeOK
    <2>3. CASE StampRate(c)
      BY <2>3, <1>t DEF StampRate, Limit, Others, Goto, TypeOK
    <2>4. CASE Drop(c)
      BY <2>4, <1>t DEF Drop, DropCode, Others, Goto, TypeOK
    <2>5. CASE CountGuess(c)
      BY <2>5, <1>t DEF CountGuess, WriteBack, Others, Goto, TypeOK
    <2>6. CASE WrongGuess(c)
      BY <2>6, <1>t DEF WrongGuess, Others, Goto, codeVars, TypeOK
    <2>7. CASE RightGuess(c)
      BY <2>7, <1>t DEF RightGuess, Present, Others, Goto, codeVars, TypeOK
    <2>8. QED
      BY <1>1, <2>1, <2>2, <2>3, <2>4, <2>5, <2>6, <2>7 DEF PhoneStep
  <1>2. CASE SessionStep(c)
    <2>1. CASE SendEmailOtp(c) \/ ValidateAuthenticator(c) \/ ValidateRefused(c) \/ SpendCode(c)
      BY <2>1, <1>t DEF SendEmailOtp, ValidateAuthenticator, ValidateRefused, SpendCode, Proceed, Write, AfterCode,
         Goto, codeVars, TypeOK
    <2>2. CASE KeepPending(c) \/ Unpend(c) \/ Revoke(c) \/ ValidateEmailed(c)
      BY <2>2, <1>t DEF KeepPending, Unpend, Revoke, SetKeys, ValidateEmailed, Present, Others, Goto, codeVars, TypeOK
    <2>3. CASE Sign(c) \/ Store(c)
      BY <2>3, <1>t DEF Sign, Store, Goto, codeVars, TypeOK
    <2>4. QED
      BY <1>2, <2>1, <2>2, <2>3 DEF SessionStep
  <1>3. CASE AccountStep(c)
    <2>1. CASE Save(c) \/ UpdateRow(c) \/ ScanEnds(c)
      BY <2>1, <1>t DEF Save, UpdateRow, ScanEnds, Proceed, Write, Goto, codeVars, TypeOK
    <2>2. CASE CreateVerifyLink(c) \/ StoreLink(c) \/ Unlink(c)
      BY <2>2, <1>t DEF CreateVerifyLink, StoreLink, Unlink, SetKeys, Goto, codeVars, TypeOK
    <2>3. CASE (\E page \in SUBSET Refresh : ScanPage(c, page)) \/ DeletePage(c)
      BY <2>3, <1>t DEF ScanPage, DeletePage, codeVars, TypeOK
    <2>4. QED
      BY <1>3, <2>1, <2>2, <2>3 DEF AccountStep
  <1>4. CASE Crash(c)
    BY <1>4, <1>t DEF Crash, Goto, codeVars, TypeOK
  <1>5. QED
    BY <1>1, <1>2, <1>3, <1>4 DEF Acts

\* Where a call can go from some of its places.
LEMMA PlaceFrame ==
    ASSUME Control, NEW c \in Call, Acts(c)
    PROVE  /\ Sent(c) => Sent(c)'
           /\ pc'[c] = "done" => pc[c] \notin {"drop", "dropCode", "guess", "ttl", "validate", "spend", "unpend", "sign"}
           /\ pc'[c] = "done" /\ op[c] = "verifyPhoneOtp" => pc[c] = "proven" /\ user' = [user EXCEPT !.phoneVerified = TRUE]
           /\ pc'[c] \in Fresh => pc[c] \in Fresh
           /\ pc'[c] \notin {"idle", "sendCode"}
           /\ pc'[c] = "spend" => /\ pc[c] = "validate" /\ user.emailOtp # None /\ UNCHANGED user
                                  /\ cred'[c] = cred[c] \cup {<<"email-otp", user.emailOtp>>}
           /\ pc[c] = "spend" => pc'[c] = "failed" \/ user' = [user EXCEPT !.emailOtp = None]
  <1>t. TypeOK /\ Fits(c)
    BY DEF Control
  <1>1. CASE PhoneStep(c)
    <2>1. CASE PhoneTaken(c) \/ WritePhone(c) \/ CheckRate(c) \/ NoCode(c) \/ TooManyGuesses(c)
      BY <2>1, <1>t DEF PhoneTaken, WritePhone, CheckRate, NoCode, TooManyGuesses, Proceed, Write,
         Goto, TypeOK, Sent, Fresh, Fits
    <2>2. CASE MarkVerified(c)
      BY <2>2, <1>t DEF MarkVerified, Write, Goto, TypeOK, Sent, Fresh, Fits
    <2>3. CASE SendCode(c) \/ StampRate(c) \/ Drop(c) \/ CountGuess(c) \/ WrongGuess(c) \/ RightGuess(c)
      BY <2>3, <1>t DEF SendCode, StampRate, Drop, CountGuess, WrongGuess, RightGuess, Others, Goto, TypeOK,
         Sent, Fresh, Fits
    <2>4. QED
      BY <1>1, <2>1, <2>2, <2>3 DEF PhoneStep
  <1>2. CASE SessionStep(c)
    <2>1. CASE SendEmailOtp(c) \/ ValidateAuthenticator(c) \/ ValidateRefused(c) \/ SpendCode(c)
      BY <2>1, <1>t DEF SendEmailOtp, ValidateAuthenticator, ValidateRefused, SpendCode, Proceed, Write, AfterCode,
         Goto, TypeOK, Sent, Fresh, Fits
    <2>2. CASE KeepPending(c) \/ Unpend(c) \/ Revoke(c)
      BY <2>2, <1>t DEF KeepPending, Unpend, Revoke, SetKeys, Goto, TypeOK, Sent, Fresh, Fits
    <2>3. CASE ValidateEmailed(c)
      BY <2>3, <1>t DEF ValidateEmailed, Present, Others, Goto, TypeOK, Sent, Fresh, Fits
    <2>4. CASE Sign(c) \/ Store(c)
      BY <2>4, <1>t DEF Sign, Store, Goto, TypeOK, Sent, Fresh, Fits, Signing
    <2>5. QED
      BY <1>2, <2>1, <2>2, <2>3, <2>4 DEF SessionStep
  <1>3. CASE AccountStep(c)
    <2>1. CASE Save(c) \/ ScanEnds(c)
      BY <2>1, <1>t DEF Save, ScanEnds, Proceed, Write, Goto, TypeOK, Sent, Fresh, Fits
    <2>2. CASE UpdateRow(c)
      BY <2>2, <1>t DEF UpdateRow, Write, Goto, TypeOK, Sent, Fresh, Fits, Writing, PinOps, Linked, Forgot
    <2>3. CASE CreateVerifyLink(c) \/ StoreLink(c)
      BY <2>3, <1>t DEF CreateVerifyLink, StoreLink, SetKeys, Goto, TypeOK, Sent, Fresh, Fits
    <2>4. CASE Unlink(c)
      BY <2>4, <1>t DEF Unlink, Goto, TypeOK, Sent, Fresh, Fits, Linked
    <2>5. CASE (\E page \in SUBSET Refresh : ScanPage(c, page)) \/ DeletePage(c)
      BY <2>5, <1>t DEF ScanPage, DeletePage, TypeOK, Sent, Fresh, Fits
    <2>6. QED
      BY <1>3, <2>1, <2>2, <2>3, <2>4, <2>5 DEF AccountStep
  <1>4. CASE Crash(c)
    BY <1>4, <1>t DEF Crash, Goto, TypeOK, Sent, Fresh, Fits
  <1>5. QED
    BY <1>1, <1>2, <1>3, <1>4 DEF Acts

LEMMA ActsAreSteps ==
    ASSUME NEW c \in Call, Acts(c)
    PROVE  [Next]_vars
  BY DEF Acts, Next

\* A call is where its kind allows.
LEMMA CodeTypes ==
    ASSUME Control
    PROVE  /\ \A p \in Phone : code[p] # None => code[p] \in StoredCode /\ code[p].otp \in Call
           /\ \A c \in Call : pc[c] \in {"guess", "drop", "dropCode", "proven", "code"} => seen[c] \in Phone
           /\ \A c \in Call : pc[c] \in {"ttl", "wrong"} =>
                /\ seen[c] \in WrongRead /\ seen[c].phone \in Phone /\ seen[c].stored.otp \in Call
                /\ seen[c].stored \in StoredCode /\ seen[c].stored.attempts < MaxAttempts
                /\ op[c] = "verifyPhoneOtp"
           /\ code \in [Phone -> StoredCode \cup {None}]
  <1>1. TypeOK /\ \A c \in Call : Fits(c)
    BY DEF Control
  <1>2. \A p \in Phone : code[p] # None => code[p] \in StoredCode /\ code[p].otp \in Call
    BY <1>1 DEF TypeOK, PhoneCodeTypeOK, StoredCode
  <1>3. \A c \in Call : pc[c] \in {"guess", "drop", "dropCode", "proven", "code"} => seen[c] \in Phone
    BY <1>1 DEF Fits
  <1>4. ASSUME NEW c \in Call, pc[c] \in {"ttl", "wrong"}
        PROVE  /\ seen[c] \in WrongRead /\ seen[c].phone \in Phone /\ seen[c].stored.otp \in Call
               /\ seen[c].stored \in StoredCode /\ seen[c].stored.attempts < MaxAttempts
               /\ op[c] = "verifyPhoneOtp"
    <2>1. seen[c] \in WrongRead /\ op[c] = "verifyPhoneOtp"
      BY <1>1, <1>4 DEF Fits
    <2>2. QED
      BY <2>1 DEF WrongRead, StoredCode
  <1>5. QED
    BY <1>1, <1>2, <1>3, <1>4 DEF TypeOK, PhoneCodeTypeOK

-----------------------------------------------------------------------------
(* The PIN *)

\* Another call on the PIN overlapped this one.
Contended(c) == \E d \in Call : op[d] \in PinOps /\ Overlapped(c, d)

\* The PIN: a call that is about to write it knows the row, unless another call on the PIN
\* overlapped it.
PinSafe ==
    /\ PinAgrees
    /\ \A c \in Call : pc[c] = "write" =>
         /\ op[c] = "changePin" => user.pinSet \/ \E d \in Call : op[d] = "removePin" /\ Overlapped(c, d)
         /\ op[c] = "setPin" => ~user.pinSet \/ Contended(c)
         /\ op[c] \in {"changePin", "removePin"} => seen[c] = user.pin \/ Contended(c)

LEMMA InitPin == Init => PinSafe
  <1>1. /\ NewRow(Earlier, None).pin = None /\ NewRow(Earlier, None).pinSet = FALSE
        /\ InUse.pin = Earlier /\ InUse.pinSet = TRUE
        /\ [InUse EXCEPT !.method = "authenticator", !.secret = Earlier].pin = Earlier
        /\ [InUse EXCEPT !.method = "authenticator", !.secret = Earlier].pinSet = TRUE
    BY DEF NewRow, InUse
  <1>2. ASSUME Init PROVE PinSafe
    <2>1. user # None => user.pinSet = (user.pin # None)
      BY <1>1, <1>2, EarlierAssumption DEF Init
    <2>2. \A c \in Call : pc[c] # "write"
      BY <1>2 DEF Init
    <2>3. QED
      BY <2>1, <2>2 DEF PinSafe, PinAgrees
  <1>3. QED
    BY <1>2

\* What an update does to the PIN.
LEMMA WrittenPin ==
    ASSUME user \in Row, NEW c \in Call, op[c] \in Writing \ Forgot
    PROVE  /\ op[c] \in {"setPin", "resetPin"} => Written(c).pin = c /\ Written(c).pinSet = TRUE
           /\ op[c] = "changePin" => Written(c).pin = c /\ Written(c).pinSet = user.pinSet
           /\ op[c] = "removePin" => Written(c).pin = None /\ Written(c).pinSet = FALSE
           /\ op[c] \notin PinOps => Written(c).pin = user.pin /\ Written(c).pinSet = user.pinSet
  BY DEF Written, Row, Writing, Forgot, PinOps, Linked

LEMMA PinActs ==
    ASSUME Control, PinSafe, NEW c \in Call, Acts(c)
    PROVE  PinSafe'
  <1>t. /\ TypeOK /\ Fits(c) /\ Alone(c) /\ Underway(c) /\ pc'[c] # "write"
        /\ \A d \in Call \ {c} : Underway(d) => Overlapped(c, d) /\ Overlapped(d, c)
    <2>1. \A d \in Call \ {c} : Met(d) /\ Met(c)
      BY DEF Control
    <2>2. QED
      BY <2>1, ActFrame DEF Control, Met
  <1>1. CASE user' = user \/ (user # None /\ user \in Row /\ user' # None /\ user'.pin = user.pin /\ user'.pinSet = user.pinSet)
    BY <1>1, <1>t DEF PinSafe, PinAgrees, Contended, Overlapped, Alone
  <1>2. CASE pc[c] = "save" /\ user = None /\ user' = NewRow(c, seen[c])
    <2>1. \A d \in Call : pc[d] # "write"
      BY <1>2 DEF Control, Fits
    <2>2. user'.pin = None /\ user'.pinSet = FALSE
      BY <1>2 DEF NewRow
    <2>3. QED
      BY <2>1, <2>2, <1>t DEF PinSafe, PinAgrees, Alone
  <1>3. CASE user # None /\ pc[c] # "write"
    BY <1>1, <1>3, RowKept
  <1>4. CASE pc[c] = "write" /\ op[c] \in Writing \ Forgot /\ user' = Written(c)
    <2>1. user \in Row /\ user # None /\ user' # None
      BY <1>4, <1>t, RowKept DEF Fits
    <2>2. CASE op[c] \notin PinOps
      BY <1>1, <1>4, <2>1, <2>2, WrittenPin
    <2>3. CASE op[c] \in PinOps
      <3>1. ASSUME NEW d \in Call, pc'[d] = "write" 
            PROVE  /\ d # c /\ pc[d] = "write" /\ Overlapped(d, c)' /\ op'[d] = op[d] /\ op'[c] = op[c]
        BY <3>1, <1>t, <1>4 DEF Alone, Underway, Finished, Overlapped
      <3>2. ASSUME NEW d \in Call, pc'[d] = "write" PROVE Contended(d)'
        BY <3>1, <3>2, <2>3 DEF Contended
      <3>3. ASSUME NEW d \in Call, pc'[d] = "write", op'[d] = "changePin"
            PROVE  user'.pinSet \/ \E e \in Call : op'[e] = "removePin" /\ Overlapped(d, e)'
        <4>1. pc[d] = "write" /\ op[d] = "changePin" /\ Overlapped(d, c)' /\ op'[c] = op[c] /\ met' = met /\ op' = op
          BY <3>1, <3>3, <1>t DEF Alone
        <4>2. user.pinSet \/ \E e \in Call : op[e] = "removePin" /\ Overlapped(d, e)
          BY <4>1 DEF PinSafe
        <4>3. QED
          BY <4>1, <4>2, <2>1, <2>3, <1>4, WrittenPin DEF PinOps, Overlapped
      <3>4. PinAgrees'
        <4>1. CASE op[c] \in {"setPin", "resetPin", "removePin"}
          BY <4>1, <2>1, <1>4, WrittenPin, NoneAssumption DEF PinAgrees
        <4>2. CASE op[c] = "changePin"
          <5>1. user.pinSet \/ \E e \in Call : op[e] = "removePin" /\ Overlapped(c, e)
            BY <4>2, <1>4 DEF PinSafe
          <5>2. user'.pin = c /\ user'.pinSet = user.pinSet
            BY <4>2, <2>1, <1>4, WrittenPin
          <5>3. QED
            BY <5>1, <5>2, <4>2, <1>t, NoneAssumption DEF PinAgrees, Alone, Overlapped
        <4>3. QED
          BY <4>1, <4>2, <2>3 DEF PinOps
      <3>5. QED
        BY <3>2, <3>3, <3>4 DEF PinSafe
    <2>4. QED
      BY <2>2, <2>3
  <1>5. QED
    BY <1>1, <1>2, <1>3, <1>4, <1>t, RowFrame DEF Fits

LEMMA PinBegins ==
    ASSUME Control, PinSafe, NEW c \in Call, Begins(c)
    PROVE  PinSafe'
  <1>1. PICK name, what, saw, place : Begin(c, name, what, saw, place) /\ Warrant(name, what, saw, place)
    BY DEF Begins
  <1>2. /\ pc[c] = "idle" /\ pc'[c] = place /\ op'[c] = name /\ seen'[c] = saw
        /\ \A d \in Call \ {c} : op'[d] = op[d] /\ pc'[d] = pc[d] /\ seen'[d] = seen[d]
        /\ user' = user
        /\ \A d \in Call : ~Overlapped(c, d) /\ ~Overlapped(d, c)
        /\ \A d, e \in Call \ {c} : Overlapped(d, e)' = Overlapped(d, e)
    BY <1>1, BeginFrame
  <1>3. \A d, e \in Call : Overlapped(d, e) => Overlapped(d, e)' /\ op'[d] = op[d] /\ op'[e] = op[e]
    BY <1>2
  <1>4. PinAgrees'
    BY <1>2, <1>3 DEF PinAgrees, PinSafe
  <1>5. ASSUME NEW d \in Call PROVE Contended(d) => Contended(d)'
    BY <1>3 DEF Contended
  <1>6. ASSUME NEW d \in Call, pc'[d] = "write"
        PROVE  /\ op'[d] = "changePin" => user'.pinSet \/ \E e \in Call : op'[e] = "removePin" /\ Overlapped(d, e)'
               /\ op'[d] = "setPin" => ~user'.pinSet \/ Contended(d)'
               /\ op'[d] \in {"changePin", "removePin"} => seen'[d] = user'.pin \/ Contended(d)'
    <2>1. CASE d # c
      BY <2>1, <1>6, <1>2, <1>3, <1>5 DEF PinSafe
    <2>2. CASE d = c
      <3>1. /\ name = "changePin" => user.pinSet
            /\ name = "setPin" => ~user.pinSet
            /\ name \in {"changePin", "removePin"} => saw = user.pin
        BY <1>1 DEF Warrant, Forgot
      <3>2. QED
        BY <2>2, <3>1, <1>2
    <2>3. QED
      BY <2>1, <2>2
  <1>7. QED
    BY <1>4, <1>6 DEF PinSafe

LEMMA PinNext == Control /\ PinSafe /\ [Next]_vars => PinSafe'
  <1> SUFFICES ASSUME Control, PinSafe, [Next]_vars PROVE PinSafe'
    OBVIOUS
  <1>1. CASE UNCHANGED <<user, keys, op, pc, cred, seen, second, met>>
    BY <1>1 DEF PinSafe, PinAgrees, Contended, Overlapped
  <1>2. QED
    BY <1>1, StepCases, PinActs, PinBegins

LEMMA PinHolds == Spec => []PinSafe
  BY InitPin, PinNext, ControlHolds, PTL DEF Spec

\* The PIN and its flag agree, unless a change of the PIN overlapped its removal.
THEOREM PinAgreement == Spec => []PinAgrees
  <1>1. PinSafe => PinAgrees
    BY DEF PinSafe
  <1>2. QED
    BY <1>1, PinHolds, PTL

\* A PIN in force is replaced by a call that knew it or had a reset link, or by one that
\* overlapped another call on the PIN.
THEOREM PinKnown == Spec => PinReplacedKnowingly
  <1> DEFINE Knowingly ==
        user # None /\ user.pinSet /\ user'.pin # user.pin =>
          \E c \in Call : /\ pc'[c] # pc[c]
                          /\ \/ seen[c] = user.pin
                             \/ op[c] = "resetPin"
                             \/ \E d \in Call : op[d] \in PinOps /\ Overlapped(c, d)
  <1>1. Control /\ PinSafe /\ [Next]_vars => [Knowingly]_vars
    <2> SUFFICES ASSUME Control, PinSafe, [Next]_vars, user # None, user.pinSet, user'.pin # user.pin
                 PROVE  \E c \in Call : /\ pc'[c] # pc[c]
                                        /\ \/ seen[c] = user.pin
                                           \/ op[c] = "resetPin"
                                           \/ \E d \in Call : op[d] \in PinOps /\ Overlapped(c, d)
      OBVIOUS
    <2>1. user' # user
      OBVIOUS
    <2>2. ASSUME NEW c \in Call, Begins(c) PROVE FALSE
      BY <2>1, <2>2, BeginFrame DEF Begins
    <2>3. PICK c \in Call : Acts(c)
      BY <2>1, <2>2, StepCases
    <2>4. pc[c] = "write" /\ op[c] \in Writing \ Forgot /\ user' = Written(c) /\ pc'[c] # "write" /\ user \in Row
      <3>1. pc[c] = "write" /\ user \in Row
        BY <2>3, RowKept
      <3>2. QED
        BY <2>1, <2>3, <3>1, RowFrame, ActFrame
    <2>5. op[c] \in PinOps
      BY <2>4, WrittenPin
    <2>6. CASE op[c] \in {"changePin", "removePin"}
      BY <2>4, <2>6 DEF PinSafe, Contended
    <2>7. CASE op[c] = "setPin"
      BY <2>4, <2>7 DEF PinSafe, Contended
    <2>8. QED
      BY <2>4, <2>5, <2>6, <2>7 DEF PinOps
  <1>2. QED
    BY <1>1, ControlHolds, PinHolds, PTL DEF Spec, PinReplacedKnowingly

-----------------------------------------------------------------------------
(* The secret of the authenticator *)

\* The secret: a set-up about to be written finds the email method, and a confirmation the
\* secret its code was made with, unless they overlapped.
SecretSafe ==
    /\ SecretConfirmed
    /\ \A c \in Call : pc[c] = "write" =>
         /\ op[c] = "setupAuthenticator" =>
              user.method = "email" \/ \E d \in Call : op[d] = "confirmAuthenticator" /\ Overlapped(d, c)
         /\ op[c] = "confirmAuthenticator" =>
              \/ <<"totp", user.secret>> \in cred[c]
              \/ \E d \in Call : op[d] \in {"setupAuthenticator", "switchToEmail"} /\ Overlapped(c, d)

\* What an update does to the method and the secret.
LEMMA WrittenSecret ==
    ASSUME user \in Row, NEW c \in Call, op[c] \in Writing \ Forgot
    PROVE  /\ op[c] = "setupAuthenticator" => Written(c).secret = c /\ Written(c).method = user.method
           /\ op[c] = "confirmAuthenticator" => Written(c).secret = user.secret
           /\ op[c] = "switchToEmail" => Written(c).method = "email"
           /\ op[c] \notin {"setupAuthenticator", "confirmAuthenticator", "switchToEmail"} =>
                Written(c).secret = user.secret /\ Written(c).method = user.method
  BY DEF Written, Row, Writing, Forgot, PinOps, Linked

LEMMA InitSecret == Init => SecretSafe
  <1>1. /\ NewRow(Earlier, None).method = "email" /\ InUse.method = "email"
        /\ [InUse EXCEPT !.method = "authenticator", !.secret = Earlier].secret = Earlier
    BY DEF NewRow, InUse
  <1>2. ASSUME Init PROVE SecretSafe
    <2>1. user # None => user.method = "email" \/ user.secret = Earlier
      BY <1>1, <1>2 DEF Init
    <2>2. \A c \in Call : pc[c] # "write"
      BY <1>2 DEF Init
    <2>3. QED
      BY <2>1, <2>2 DEF SecretSafe, SecretConfirmed
  <1>3. QED
    BY <1>2

LEMMA SecretActs ==
    ASSUME Control, SecretSafe, NEW c \in Call, Acts(c)
    PROVE  SecretSafe'
  <1>t. /\ TypeOK /\ Fits(c) /\ pc'[c] # "write" /\ op' = op
        /\ \A d \in Call \ {c} : pc'[d] = pc[d] /\ cred'[d] = cred[d]
    BY ActFrame DEF Control, Alone
  <1>o. /\ Underway(c)
        /\ \A d \in Call \ {c} : Underway(d) => Overlapped(c, d) /\ Overlapped(d, c)
        /\ \A d, e \in Call : Overlapped(d, e)' = Overlapped(d, e)
        /\ \A d \in Call : cred[d] \subseteq cred'[d]
    BY ActsOverlap
  <1>1. CASE user' = user \/ (user # None /\ user'.method = user.method /\ user'.secret = user.secret)
    <2>1. SecretConfirmed'
      BY <1>1, <1>t, <1>o DEF SecretSafe, SecretConfirmed
    <2>2. \A d \in Call : pc'[d] = "write" => user # None
      BY <1>t DEF Control, Fits
    <2>3. QED
      BY <1>1, <1>t, <1>o, <2>1, <2>2 DEF SecretSafe
  <1>2. CASE pc[c] = "save" /\ user = None /\ user' = NewRow(c, seen[c])
    <2>1. \A d \in Call : pc[d] # "write"
      BY <1>2 DEF Control, Fits
    <2>2. user'.method = "email"
      BY <1>2 DEF NewRow
    <2>3. QED
      BY <2>1, <2>2, <1>t DEF SecretSafe, SecretConfirmed
  <1>3. CASE user # None /\ pc[c] # "write"
    BY <1>1, <1>3, RowKept
  <1>4. CASE pc[c] = "write" /\ op[c] \in Writing \ Forgot /\ user' = Written(c)
    <2>1. user \in Row /\ user # None /\ user' # None
      BY <1>4, <1>t, RowKept DEF Fits
    <2>2. CASE op[c] \notin {"setupAuthenticator", "confirmAuthenticator", "switchToEmail"}
      BY <1>1, <1>4, <2>1, <2>2, WrittenSecret
    <2>3. CASE op[c] \in {"setupAuthenticator", "confirmAuthenticator", "switchToEmail"}
      <3>1. ASSUME NEW d \in Call, pc'[d] = "write" PROVE d # c /\ pc[d] = "write" /\ Overlapped(d, c)' /\ Overlapped(c, d)'
        BY <3>1, <1>t, <1>o DEF Underway, Finished
      <3>2. ASSUME NEW d \in Call, pc'[d] = "write", op'[d] = "setupAuthenticator"
            PROVE  user'.method = "email" \/ \E e \in Call : op'[e] = "confirmAuthenticator" /\ Overlapped(e, d)'
        <4>1. CASE op[c] = "confirmAuthenticator"
          BY <3>1, <3>2, <4>1, <1>t
        <4>2. CASE op[c] # "confirmAuthenticator"
          BY <3>1, <3>2, <4>2, <2>1, <2>3, <1>t, <1>o, <1>4, WrittenSecret DEF SecretSafe
        <4>3. QED
          BY <4>1, <4>2
      <3>3. ASSUME NEW d \in Call, pc'[d] = "write", op'[d] = "confirmAuthenticator"
            PROVE  \/ <<"totp", user'.secret>> \in cred'[d]
                   \/ \E e \in Call : op'[e] \in {"setupAuthenticator", "switchToEmail"} /\ Overlapped(d, e)'
        <4>1. CASE op[c] = "confirmAuthenticator"
          BY <3>1, <3>3, <4>1, <2>1, <1>t, <1>o, <1>4, WrittenSecret DEF SecretSafe
        <4>2. CASE op[c] # "confirmAuthenticator"
          BY <3>1, <3>3, <4>2, <2>3, <1>t
        <4>3. QED
          BY <4>1, <4>2
      <3>4. SecretConfirmed'
        <4>1. CASE op[c] = "setupAuthenticator"
          BY <4>1, <2>1, <1>4, <1>t, <1>o, WrittenSecret DEF SecretConfirmed, SecretSafe
        <4>2. CASE op[c] = "confirmAuthenticator"
          BY <4>2, <2>1, <1>4, <1>t, <1>o, WrittenSecret DEF SecretConfirmed, SecretSafe
        <4>3. CASE op[c] = "switchToEmail"
          BY <4>3, <2>1, <1>4, WrittenSecret DEF SecretConfirmed
        <4>4. QED
          BY <4>1, <4>2, <4>3, <2>3
      <3>5. QED
        BY <3>2, <3>3, <3>4 DEF SecretSafe
    <2>4. QED
      BY <2>2, <2>3
  <1>5. QED
    BY <1>1, <1>2, <1>3, <1>4, <1>t, RowFrame DEF Fits

LEMMA SecretBegins ==
    ASSUME Control, SecretSafe, NEW c \in Call, Begins(c)
    PROVE  SecretSafe'
  <1>1. PICK name, what, saw, place : Begin(c, name, what, saw, place) /\ Warrant(name, what, saw, place)
    BY DEF Begins
  <1>2. /\ pc[c] = "idle" /\ pc'[c] = place /\ op'[c] = name /\ cred'[c] = what /\ cred[c] = {}
        /\ \A d \in Call \ {c} : op'[d] = op[d] /\ pc'[d] = pc[d] /\ cred'[d] = cred[d]
        /\ user' = user
        /\ \A d, e \in Call : Overlapped(d, e) => Overlapped(d, e)' /\ op'[d] = op[d] /\ op'[e] = op[e]
    BY <1>1, BeginFrame, BeginsFrame
  <1>3. \A d \in Call : cred[d] \subseteq cred'[d]
    BY <1>2
  <1>4. SecretConfirmed'
    BY <1>2, <1>3 DEF SecretConfirmed, SecretSafe
  <1>5. ASSUME NEW d \in Call, pc'[d] = "write"
        PROVE  /\ op'[d] = "setupAuthenticator" =>
                    user'.method = "email" \/ \E e \in Call : op'[e] = "confirmAuthenticator" /\ Overlapped(e, d)'
               /\ op'[d] = "confirmAuthenticator" =>
                    \/ <<"totp", user'.secret>> \in cred'[d]
                    \/ \E e \in Call : op'[e] \in {"setupAuthenticator", "switchToEmail"} /\ Overlapped(d, e)'
    <2>1. CASE d # c
      BY <2>1, <1>5, <1>2, <1>3 DEF SecretSafe
    <2>2. CASE d = c
      <3>1. /\ name = "setupAuthenticator" => user.method = "email"
            /\ name = "confirmAuthenticator" => what = {<<"totp", user.secret>>}
        BY <1>1 DEF Warrant, Forgot
      <3>2. QED
        BY <2>2, <3>1, <1>2
    <2>3. QED
      BY <2>1, <2>2
  <1>6. QED
    BY <1>4, <1>5 DEF SecretSafe

LEMMA SecretNext == Control /\ SecretSafe /\ [Next]_vars => SecretSafe'
  <1> SUFFICES ASSUME Control, SecretSafe, [Next]_vars PROVE SecretSafe'
    OBVIOUS
  <1>1. CASE UNCHANGED <<user, keys, op, pc, cred, seen, second, met>>
    BY <1>1 DEF SecretSafe, SecretConfirmed, Overlapped
  <1>2. QED
    BY <1>1, StepCases, SecretActs, SecretBegins

\* With the authenticator method the secret is one that a code was confirmed with, unless a
\* set-up or a switch overlapped the confirmation.
THEOREM SecretKnown == Spec => []SecretConfirmed
  <1>1. SecretSafe => SecretConfirmed
    BY DEF SecretSafe
  <1>2. QED
    BY <1>1, InitSecret, SecretNext, ControlHolds, PTL DEF Spec

-----------------------------------------------------------------------------
(* The phone number *)

\* Two calls that each set a number overlapped.
TwoNumbers == \E c, d \in Call : /\ c # d
                                 /\ op[c] = "sendPhoneOtp" /\ op[d] = "sendPhoneOtp"
                                 /\ Overlapped(c, d)

\* The number: a call that has asked for a code asks for the one of the row, and one that drops
\* its code has presented it.
NumberSafe ==
    /\ VerifiedPhoneProven
    /\ \A c \in Call :
         /\ pc[c] = "phone" => user.phone = None \/ TwoNumbers
         /\ pc[c] \in {"guess", "dropCode", "proven"} => user.phone = seen[c] \/ TwoNumbers
         /\ pc[c] \in {"dropCode", "proven"} => \E a \in Call : <<"phone-otp", <<seen[c], a>>>> \in cred[c]

LEMMA InitNumber == Init => NumberSafe
  <1>1. /\ NewRow(Earlier, None).phoneVerified = FALSE /\ InUse.phoneVerified = FALSE
        /\ [InUse EXCEPT !.method = "authenticator", !.secret = Earlier].phoneVerified = FALSE
    BY DEF NewRow, InUse
  <1>2. ASSUME Init PROVE NumberSafe
    <2>1. user # None => user.phoneVerified = FALSE
      BY <1>1, <1>2 DEF Init
    <2>2. \A c \in Call : pc[c] = "idle"
      BY <1>2 DEF Init
    <2>3. QED
      BY <2>1, <2>2 DEF NumberSafe, VerifiedPhoneProven
  <1>3. QED
    BY <1>2

LEMMA NumberActs ==
    ASSUME Control, NumberSafe, NEW c \in Call, Acts(c)
    PROVE  NumberSafe'
  <1>t. /\ TypeOK /\ Fits(c) /\ op' = op /\ \A d \in Call : Fits(d)
        /\ \A d \in Call \ {c} : pc'[d] = pc[d] /\ cred'[d] = cred[d] /\ seen'[d] = seen[d]
    BY ActFrame DEF Control, Alone
  <1>o. /\ Underway(c)
        /\ \A d \in Call \ {c} : Underway(d) => Overlapped(c, d) /\ Overlapped(d, c)
        /\ \A d, e \in Call : Overlapped(d, e)' = Overlapped(d, e)
        /\ \A d \in Call : cred[d] \subseteq cred'[d]
    BY ActsOverlap
  <1>n. TwoNumbers' <=> TwoNumbers
    BY <1>t, <1>o DEF TwoNumbers
  <1>p. ASSUME NEW d \in Call, pc'[d] = "phone" PROVE pc[d] = "phone" /\ d # c /\ user # None
    BY <1>p, <1>t, PhoneFrame DEF Fits
  <1>g. ASSUME NEW d \in Call, pc'[d] \in {"guess", "dropCode", "proven"}
        PROVE  pc[d] \in {"guess", "dropCode", "proven"} /\ seen'[d] = seen[d] /\ seen[d] \in Phone /\ user # None
    BY <1>g, <1>t, PhoneFrame DEF Fits
  <1>k. ASSUME NEW d \in Call, pc'[d] \in {"dropCode", "proven"}
        PROVE  \E a \in Call : <<"phone-otp", <<seen'[d], a>>>> \in cred'[d]
    <2>1. CASE d = c /\ pc'[c] = "dropCode"
      <3>1. code[seen[c]].otp \in Call /\ seen'[c] = seen[c]
        <4>1. pc[c] = "guess" /\ code[seen[c]] # None /\ seen'[c] = seen[c]
          BY <2>1, PhoneFrame
        <4>2. seen[c] \in Phone
          BY <4>1, <1>t DEF Fits
        <4>3. code[seen[c]] \in StoredCode
          BY <4>1, <4>2, <1>t DEF TypeOK, PhoneCodeTypeOK
        <4>4. QED
          BY <4>1, <4>3 DEF StoredCode
      <3>2. <<"phone-otp", <<seen[c], code[seen[c]].otp>>>> \in cred'[c]
        BY <2>1, PhoneFrame
      <3>3. QED
        BY <2>1, <3>1, <3>2
    <2>2. CASE d # c \/ pc'[c] = "proven"
      <3>1. pc[d] \in {"dropCode", "proven"} /\ seen'[d] = seen[d]
        BY <1>k, <2>2, <1>t, PhoneFrame
      <3>2. QED
        BY <3>1, <1>o DEF NumberSafe
    <2>3. QED
      BY <2>1, <2>2, <1>k
  <1>1. CASE user' = user \/ (user # None /\ user'.phone = user.phone /\ user'.phoneVerified = user.phoneVerified)
    <2>1. VerifiedPhoneProven'
      <3>1. CASE TwoNumbers
        BY <3>1, <1>n DEF VerifiedPhoneProven, TwoNumbers
      <3>2. CASE ~TwoNumbers /\ user' # None /\ user'.phoneVerified
        <4>1. user # None /\ user.phoneVerified /\ user'.phone = user.phone
          BY <3>2, <1>1
        <4>2. PICK d \in Call, a \in Call : <<"phone-otp", <<user.phone, a>>>> \in cred[d]
          BY <3>2, <4>1 DEF NumberSafe, VerifiedPhoneProven, TwoNumbers
        <4>3. <<"phone-otp", <<user'.phone, a>>>> \in cred'[d]
          BY <4>1, <4>2, <1>o
        <4>4. QED
          BY <4>3 DEF VerifiedPhoneProven
      <3>3. QED
        BY <3>1, <3>2 DEF VerifiedPhoneProven
    <2>2. ASSUME NEW d \in Call, pc'[d] = "phone" PROVE user'.phone = None \/ TwoNumbers
      BY <1>1, <1>p, <2>2 DEF NumberSafe
    <2>3. ASSUME NEW d \in Call, pc'[d] \in {"guess", "dropCode", "proven"} PROVE user'.phone = seen'[d] \/ TwoNumbers
      BY <1>1, <1>g, <2>3 DEF NumberSafe
    <2>4. QED
      BY <2>1, <2>2, <2>3, <1>n, <1>k DEF NumberSafe
  <1>2. CASE pc[c] = "save" /\ user = None /\ user' = NewRow(c, seen[c])
    <2>1. user'.phoneVerified = FALSE
      BY <1>2 DEF NewRow
    <2>2. QED
      BY <2>1, <1>2, <1>p, <1>g DEF NumberSafe, VerifiedPhoneProven
  <1>3. CASE user # None /\ pc[c] \notin {"phone", "proven"}
    BY <1>1, <1>3, RowKept
  <1>4. CASE pc[c] = "phone" /\ user' = [user EXCEPT !.phone = seen[c]]
    <2>1. user # None /\ user \in Row /\ user'.phoneVerified = user.phoneVerified /\ op[c] = "sendPhoneOtp"
      BY <1>4, <1>t, RowKept DEF Fits
    <2>2. CASE TwoNumbers
      BY <2>2, <1>n, <1>p, <1>g, <1>k DEF NumberSafe, VerifiedPhoneProven, TwoNumbers
    <2>3. CASE user.phone = None
      <3>1. ASSUME NEW d \in Call, pc'[d] = "phone" PROVE TwoNumbers
        <4>1. pc[d] = "phone" /\ d # c /\ op[d] = "sendPhoneOtp"
          BY <1>p, <3>1, <1>t DEF Fits
        <4>2. Overlapped(c, d)
          BY <4>1, <1>o DEF Underway, Finished
        <4>3. QED
          BY <4>1, <4>2, <2>1 DEF TwoNumbers
      <3>2. ASSUME NEW d \in Call, pc'[d] \in {"guess", "dropCode", "proven"} PROVE TwoNumbers
        BY <1>g, <3>2, <2>3, NoneAssumption DEF NumberSafe
      <3>3. user.phoneVerified => TwoNumbers
        <4>1. \A d, a \in Call : <<"phone-otp", <<None, a>>>> \notin cred[d]
          <5>1. \A a \in Call : <<"phone-otp", <<None, a>>>> \notin Credential
            BY NoneAssumption DEF Credential, Key, Refresh, Link
          <5>2. QED
            BY <5>1, <1>t DEF TypeOK
        <4>2. QED
          BY <4>1, <2>1, <2>3 DEF NumberSafe, VerifiedPhoneProven, TwoNumbers
      <3>4. QED
        BY <3>1, <3>2, <3>3, <2>1, <1>n, <1>k DEF NumberSafe, VerifiedPhoneProven, TwoNumbers
    <2>4. QED
      BY <2>2, <2>3, <1>4 DEF NumberSafe
  <1>5. CASE pc[c] = "proven" /\ user' = [user EXCEPT !.phoneVerified = TRUE]
    <2>1. user # None /\ user \in Row /\ user'.phone = user.phone
      BY <1>5, <1>t, RowKept DEF Fits
    <2>2. user.phone = seen[c] \/ TwoNumbers
      BY <1>5 DEF NumberSafe
    <2>3. \E a \in Call : <<"phone-otp", <<seen[c], a>>>> \in cred[c]
      BY <1>5 DEF NumberSafe
    <2>4. VerifiedPhoneProven'
      BY <2>1, <2>2, <2>3, <1>n, <1>o DEF VerifiedPhoneProven, TwoNumbers
    <2>5. QED
      BY <2>1, <2>4, <1>n, <1>p, <1>g, <1>k DEF NumberSafe
  <1>6. QED
    BY <1>1, <1>2, <1>3, <1>4, <1>5, <1>t, RowFrame DEF Fits

LEMMA NumberBegins ==
    ASSUME Control, NumberSafe, NEW c \in Call, Begins(c)
    PROVE  NumberSafe'
  <1>1. PICK name, what, saw, place : Begin(c, name, what, saw, place) /\ Warrant(name, what, saw, place)
    BY DEF Begins
  <1>2. /\ pc[c] = "idle" /\ pc'[c] = place /\ seen'[c] = saw /\ cred[c] = {} /\ user' = user
        /\ \A d \in Call \ {c} : pc'[d] = pc[d] /\ cred'[d] = cred[d] /\ seen'[d] = seen[d]
        /\ \A d, e \in Call : Overlapped(d, e) => Overlapped(d, e)' /\ op'[d] = op[d] /\ op'[e] = op[e]
        /\ pc'[c] \notin {"dropCode", "proven"}
    BY <1>1, BeginFrame, BeginsFrame
  <1>3. \A d \in Call : cred[d] \subseteq cred'[d]
    BY <1>2
  <1>4. TwoNumbers => TwoNumbers'
    BY <1>2 DEF TwoNumbers
  <1>5. VerifiedPhoneProven'
    BY <1>2, <1>3, <1>4 DEF NumberSafe, VerifiedPhoneProven, TwoNumbers
  <1>6. ASSUME NEW d \in Call
        PROVE  /\ pc'[d] = "phone" => user'.phone = None \/ TwoNumbers'
               /\ pc'[d] \in {"guess", "dropCode", "proven"} => user'.phone = seen'[d] \/ TwoNumbers'
               /\ pc'[d] \in {"dropCode", "proven"} => \E a \in Call : <<"phone-otp", <<seen'[d], a>>>> \in cred'[d]
    <2>1. CASE d # c
      BY <2>1, <1>2, <1>4 DEF NumberSafe
    <2>2. CASE d = c
      <3>1. (place = "phone" => user.phone = None) /\ (place = "guess" => saw = user.phone)
        BY <1>1 DEF Warrant
      <3>2. QED
        BY <2>2, <3>1, <1>2
    <2>3. QED
      BY <2>1, <2>2
  <1>7. QED
    BY <1>5, <1>6 DEF NumberSafe

LEMMA NumberNext == Control /\ NumberSafe /\ [Next]_vars => NumberSafe'
  <1> SUFFICES ASSUME Control, NumberSafe, [Next]_vars PROVE NumberSafe'
    OBVIOUS
  <1>1. CASE UNCHANGED <<user, keys, op, pc, cred, seen, second, met>>
    BY <1>1 DEF NumberSafe, VerifiedPhoneProven, TwoNumbers, Overlapped
  <1>2. QED
    BY <1>1, StepCases, NumberActs, NumberBegins

\* A verified number is one whose code was given, unless two calls that each set a number
\* overlapped.
THEOREM NumberProven == Spec => []VerifiedPhoneProven
  <1>1. NumberSafe => VerifiedPhoneProven
    BY DEF NumberSafe
  <1>2. QED
    BY <1>1, InitNumber, NumberNext, ControlHolds, PTL DEF Spec

-----------------------------------------------------------------------------
(* Codes for a phone *)

\* A code for a phone that is stored, was read or has been presented has been sent.
CodesSent ==
    /\ \A p \in Phone : code[p] # None => Sent(code[p].otp)
    /\ \A c \in Call : pc[c] \in {"ttl", "wrong"} => Sent(seen[c].stored.otp)
    /\ \A c, a \in Call, p \in Phone : <<"phone-otp", <<p, a>>>> \in cred[c] =>
         Sent(a) /\ op[c] = "verifyPhoneOtp" /\ (pc[c] \in {"dropCode", "proven"} => seen[c] = p)

\* Another guess overlapped the call.
Late(c) == \E g \in Call : op[g] = "verifyPhoneOtp" /\ g # c /\ Overlapped(g, c)

\* Nobody but a guess that overlapped the right one has read a code that has proven a number.
UsedSafe ==
    /\ UsedCodeGone
    /\ \A c, a, g \in Call, p \in Phone :
         /\ pc[c] \in {"proven", "done"} /\ <<"phone-otp", <<p, a>>>> \in cred[c]
         /\ pc[g] = "ttl" /\ seen[g].phone = p /\ seen[g].stored.otp = a
         => Late(c)

LEMMA SentStays ==
    ASSUME Control, [Next]_vars, NEW d \in Call, Sent(d)
    PROVE  Sent(d)'
  <1>1. ASSUME NEW c \in Call, Begins(c) PROVE Sent(d)'
    BY <1>1, BeginsFrame DEF Sent
  <1>2. ASSUME NEW c \in Call, Acts(c) PROVE Sent(d)'
    <2>1. CASE d = c
      BY <1>2, <2>1, PlaceFrame
    <2>2. CASE d # c
      BY <1>2, <2>2, ActFrame DEF Alone, Sent
    <2>3. QED
      BY <2>1, <2>2
  <1>3. QED
    BY <1>1, <1>2, StepCases DEF Sent

LEMMA SentActs ==
    ASSUME Control, CodesSent, NEW c \in Call, Acts(c)
    PROVE  CodesSent'
  <1>t. /\ op' = op /\ \A d \in Call \ {c} : pc'[d] = pc[d] /\ cred'[d] = cred[d] /\ seen'[d] = seen[d]
    BY ActFrame DEF Alone
  <1>s. \A d \in Call : Sent(d) => Sent(d)'
    BY ActsAreSteps, SentStays
  <1>1. ASSUME NEW p \in Phone, code'[p] # None PROVE Sent(code[p].otp)'
    <2>1. CASE code'[p] = code[p]
      BY <1>1, <2>1, <1>s, CodeTypes DEF CodesSent
    <2>2. CASE pc'[c] = "stamp" /\ code'[p].otp = c
      BY <2>2 DEF Sent
    <2>3. CASE pc[c] = "ttl" /\ code'[p].otp = seen[c].stored.otp
      BY <2>3, <1>s, CodeTypes DEF CodesSent
    <2>4. code'[p] = code[p] \/ (pc'[c] = "stamp" /\ code'[p].otp = c) \/ (pc[c] = "ttl" /\ code'[p].otp = seen[c].stored.otp)
      <3>1. CASE pc[c] = "ttl" /\ pc'[c] = "wrong"
        <4>1. code' = [code EXCEPT ![seen[c].phone] = [seen[c].stored EXCEPT !.attempts = @ + 1]]
          BY <3>1, PhoneFrame
        <4>2. [seen[c].stored EXCEPT !.attempts = @ + 1].otp = seen[c].stored.otp
          BY <3>1, CodeTypes DEF StoredCode
        <4>3. QED
          BY <4>1, <4>2, <3>1, CodeTypes
      <3>2. CASE pc[c] \in {"drop", "dropCode"} /\ code' = [code EXCEPT ![seen[c]] = None]
        BY <3>2, <1>1, CodeTypes
      <3>3. CASE pc'[c] = "stamp" /\ code' = [code EXCEPT ![seen[c]] = [otp |-> c, attempts |-> 0]]
        BY <3>3, CodeTypes
      <3>4. QED
        BY <3>1, <3>2, <3>3, PhoneFrame
    <2>5. QED
      BY <2>1, <2>2, <2>3, <2>4
  <1>2. ASSUME NEW d \in Call, pc'[d] \in {"ttl", "wrong"} PROVE Sent(seen[d].stored.otp)'
    <2>1. CASE pc[d] \in {"ttl", "wrong"} /\ seen'[d] = seen[d]
      BY <2>1, <1>s, CodeTypes DEF CodesSent
    <2>2. CASE d = c /\ pc'[c] = "ttl"
      <3>5. pc[c] = "guess" /\ code[seen[c]] # None /\ seen'[c] = [phone |-> seen[c], stored |-> code[seen[c]]]
        BY <2>2, PhoneFrame
      <3>1. seen'[c].stored = code[seen[c]] /\ code[seen[c]] # None /\ seen[c] \in Phone
        BY <3>5, CodeTypes
      <3>2. Sent(code[seen[c]].otp)
        BY <3>1 DEF CodesSent
      <3>3. seen'[d].stored.otp = code[seen[c]].otp
        BY <2>2, <3>1
      <3>4. QED
        BY <3>1, <3>2, <3>3, <1>s, CodeTypes DEF Sent
    <2>3. QED
      BY <1>2, <2>1, <2>2, <1>t, PhoneFrame
  <1>3. ASSUME NEW d \in Call, NEW a \in Call, NEW p \in Phone, <<"phone-otp", <<p, a>>>> \in cred'[d]
        PROVE  Sent(a)' /\ op'[d] = "verifyPhoneOtp" /\ (pc'[d] \in {"dropCode", "proven"} => seen'[d] = p)
    <2>1. CASE <<"phone-otp", <<p, a>>>> \in cred[d]
      <3>1. Sent(a)' /\ op'[d] = "verifyPhoneOtp" /\ (pc[d] \in {"dropCode", "proven"} => seen[d] = p)
        BY <2>1, <1>s, <1>t DEF CodesSent
      <3>2. CASE d # c
        BY <3>1, <3>2, <1>t
      <3>3. CASE d = c
        <4>1. pc'[c] # "dropCode"
          <5>1. pc[c] = "guess" => cred[c] = {}
            BY DEF Control, Fits
          <5>2. QED
            BY <5>1, <2>1, <3>3, PhoneFrame
        <4>2. QED
          BY <3>1, <3>3, <4>1, PhoneFrame
      <3>4. QED
        BY <3>2, <3>3
    <2>2. CASE <<"phone-otp", <<p, a>>>> \notin cred[d]
      <3>1. d = c /\ pc'[c] \in {"dropCode", "spend"}
        BY <1>3, <2>2, <1>t, PhoneFrame
      <3>2. pc'[c] = "dropCode"
        BY <1>3, <2>2, <3>1, PlaceFrame
      <3>3. /\ pc[c] = "guess" /\ code[seen[c]] # None /\ seen'[c] = seen[c]
            /\ cred'[c] = cred[c] \cup {<<"phone-otp", <<seen[c], code[seen[c]].otp>>>>}
        BY <3>2, PhoneFrame
      <3>4. p = seen[c] /\ a = code[seen[c]].otp
        BY <1>3, <2>2, <3>1, <3>3
      <3>5. op[c] = "verifyPhoneOtp" /\ Sent(a)
        BY <3>3, <3>4 DEF Control, Fits, CodesSent
      <3>6. QED
        BY <3>1, <3>2, <3>3, <3>4, <3>5, <1>s, <1>t
    <2>3. QED
      BY <2>1, <2>2
  <1>4. QED
    BY <1>1, <1>2, <1>3 DEF CodesSent

LEMMA SentBegins ==
    ASSUME Control, CodesSent, NEW c \in Call, Begins(c)
    PROVE  CodesSent'
  <1>1. /\ UNCHANGED code /\ cred[c] = {} /\ pc'[c] \notin {"ttl", "wrong", "dropCode", "proven"}
        /\ \A d \in Call \ {c} : /\ op'[d] = op[d] /\ pc'[d] = pc[d] /\ seen'[d] = seen[d] /\ cred'[d] = cred[d]
        /\ \A d \in Call : Sent(d) => Sent(d)'
    BY BeginsFrame DEF Sent
  <1>2. ASSUME NEW p \in Phone, code'[p] # None PROVE Sent(code[p].otp)'
    BY <1>1, <1>2, CodeTypes DEF CodesSent
  <1>3. ASSUME NEW d \in Call, pc'[d] \in {"ttl", "wrong"} PROVE Sent(seen[d].stored.otp)'
    BY <1>1, <1>3, CodeTypes DEF CodesSent
  <1>4. ASSUME NEW a, NEW p PROVE <<"phone-otp", <<p, a>>>> \notin cred'[c]
    <2>1. PICK name, what, saw, place : Begin(c, name, what, saw, place) /\ Warrant(name, what, saw, place)
      BY DEF Begins
    <2>2. cred'[c] = what
      BY <2>1, BeginFrame
    <2>3. \A k \in keys : k # <<"phone-otp", <<p, a>>>>
      BY DEF Control, TypeOK, Key, Refresh, Link
    <2>4. QED
      BY <2>1, <2>2, <2>3 DEF Warrant
  <1>5. QED
    BY <1>1, <1>2, <1>3, <1>4 DEF CodesSent

LEMMA SentNext == Control /\ CodesSent /\ [Next]_vars => CodesSent'
  <1> SUFFICES ASSUME Control, CodesSent, [Next]_vars PROVE CodesSent'
    OBVIOUS
  <1>1. CASE /\ UNCHANGED <<user, keys, op, pc, cred, seen, second, met>>
             /\ code' = code \/ \E p \in Phone : code' = [code EXCEPT ![p] = None]
    <2>1. \A d : Sent(d)' <=> Sent(d)
      BY <1>1 DEF Sent
    <2>2. \A p \in Phone : code'[p] = code[p] \/ code'[p] = None
      BY <1>1, CodeTypes
    <2>3. QED
      BY <1>1, <2>1, <2>2 DEF CodesSent, Sent
  <1>2. QED
    BY <1>1, StepCases, SentActs, SentBegins

LEMMA InitCodes == Init => CodesSent /\ UsedSafe
  BY DEF Init, PhoneCodeInit, CodesSent, UsedSafe, UsedCodeGone

LEMMA SentHolds == Spec => []CodesSent
  BY InitCodes, SentNext, ControlHolds, PTL DEF Spec

LEMMA LateStays ==
    ASSUME Control, NEW c \in Call, Begins(c) \/ Acts(c), NEW d \in Call, Late(d)
    PROVE  Late(d)'
  <1>1. \A e, f \in Call : Overlapped(e, f) => Overlapped(e, f)' /\ op'[e] = op[e]
    BY BeginsFrame, ActsOverlap, ActFrame DEF Alone
  <1>2. QED
    BY <1>1 DEF Late

LEMMA UsedActs ==
    ASSUME Control, CodesSent, UsedSafe, NEW c \in Call, Acts(c)
    PROVE  UsedSafe'
  <1>t. /\ op' = op /\ \A d \in Call \ {c} : pc'[d] = pc[d] /\ cred'[d] = cred[d] /\ seen'[d] = seen[d]
    BY ActFrame DEF Alone
  <1>l. \A d \in Call : Late(d) => Late(d)'
    BY LateStays
  <1>u. ASSUME NEW x \in Call, NEW a \in Call, NEW p \in Phone,
               pc'[x] \in {"proven", "done"}, <<"phone-otp", <<p, a>>>> \in cred'[x]
        PROVE  \/ pc[x] \in {"proven", "done"} /\ <<"phone-otp", <<p, a>>>> \in cred[x]
               \/ x = c /\ pc[c] = "dropCode" /\ pc'[c] = "proven" /\ code'[p] = None
    <2>1. CASE x # c
      BY <1>u, <2>1, <1>t
    <2>2. CASE x = c
      <3>1. <<"phone-otp", <<p, a>>>> \in cred[c]
        BY <1>u, <2>2, PhoneFrame
      <3>2. op[c] = "verifyPhoneOtp" /\ (pc[c] = "dropCode" => seen[c] = p)
        BY <3>1 DEF CodesSent
      <3>3. CASE pc'[c] = "done"
        BY <3>1, <3>2, <3>3, <2>2, PlaceFrame
      <3>4. CASE pc'[c] = "proven"
        BY <3>1, <3>2, <3>4, <2>2, PhoneFrame, CodeTypes
      <3>5. QED
        BY <1>u, <2>2, <3>3, <3>4
    <2>3. QED
      BY <2>1, <2>2
  <1>1. ASSUME NEW x \in Call, NEW a \in Call, NEW p \in Phone,
               pc'[x] \in {"proven", "done"}, <<"phone-otp", <<p, a>>>> \in cred'[x], code'[p] # None, code'[p].otp = a
        PROVE  Late(x)'
    <2>1. pc[x] \in {"proven", "done"} /\ <<"phone-otp", <<p, a>>>> \in cred[x]
      BY <1>1, <1>u
    <2>2. CASE code'[p] = code[p]
      BY <1>1, <2>1, <2>2, <1>l DEF UsedSafe, UsedCodeGone, Late
    <2>3. CASE pc[c] = "code" /\ code'[p].otp = c
      BY <1>1, <2>1, <2>3 DEF CodesSent, Sent
    <2>4. CASE pc[c] = "ttl" /\ seen[c].phone = p /\ seen[c].stored.otp = a
      BY <1>1, <2>1, <2>4, <1>l DEF UsedSafe
    <2>5. CASE code'[p] # code[p]
      <3>1. CASE pc[c] = "ttl" /\ pc'[c] = "wrong"
        <4>1. code' = [code EXCEPT ![seen[c].phone] = [seen[c].stored EXCEPT !.attempts = @ + 1]]
          BY <3>1, PhoneFrame
        <4>2. [seen[c].stored EXCEPT !.attempts = @ + 1].otp = seen[c].stored.otp
          BY <3>1, CodeTypes DEF StoredCode
        <4>3. QED
          BY <4>1, <4>2, <3>1, <2>4, <2>5, <1>1, CodeTypes
      <3>2. CASE pc[c] \in {"drop", "dropCode"} /\ code' = [code EXCEPT ![seen[c]] = None]
        BY <3>2, <1>1, <2>5, CodeTypes
      <3>3. CASE pc[c] = "code" /\ code' = [code EXCEPT ![seen[c]] = [otp |-> c, attempts |-> 0]]
        BY <3>3, <2>3, <2>5, <1>1, CodeTypes
      <3>4. QED
        BY <3>1, <3>2, <3>3, <2>5, PhoneFrame
    <2>6. QED
      BY <2>2, <2>5
  <1>2. ASSUME NEW x \in Call, NEW a \in Call, NEW p \in Phone, NEW g \in Call,
               pc'[x] \in {"proven", "done"}, <<"phone-otp", <<p, a>>>> \in cred'[x],
               pc'[g] = "ttl", seen'[g].phone = p, seen'[g].stored.otp = a
        PROVE  Late(x)'
    <2>1. CASE x = c /\ pc[c] = "dropCode"
      <3>1. g # c /\ pc[g] = "ttl" /\ op[g] = "verifyPhoneOtp"
        BY <1>2, <2>1, <1>t, CodeTypes
      <3>2. Overlapped(g, c)'
        BY <3>1, ActsOverlap DEF Underway, Finished
      <3>3. QED
        BY <2>1, <3>1, <3>2, <1>t DEF Late
    <2>2. CASE pc[x] \in {"proven", "done"} /\ <<"phone-otp", <<p, a>>>> \in cred[x]
      <3>1. CASE g # c
        BY <1>2, <2>2, <3>1, <1>t, <1>l DEF UsedSafe
      <3>2. CASE g = c
        <4>1. pc[c] = "guess" /\ code[seen[c]] # None /\ seen'[c] = [phone |-> seen[c], stored |-> code[seen[c]]]
          BY <1>2, <3>2, PhoneFrame
        <4>2. seen[c] = p /\ code[p].otp = a
          BY <4>1, <1>2, <3>2
        <4>3. QED
          BY <2>2, <4>1, <4>2, <1>l DEF UsedSafe, UsedCodeGone, Late
      <3>3. QED
        BY <3>1, <3>2
    <2>3. QED
      BY <2>1, <2>2, <1>2, <1>u
  <1>3. UsedCodeGone'
    BY <1>1 DEF UsedCodeGone, Late
  <1>4. QED
    BY <1>2, <1>3 DEF UsedSafe

LEMMA UsedBegins ==
    ASSUME Control, UsedSafe, NEW c \in Call, Begins(c)
    PROVE  UsedSafe'
  <1>1. /\ UNCHANGED code /\ pc'[c] \notin {"ttl", "done", "proven"}
        /\ \A d \in Call \ {c} : /\ op'[d] = op[d] /\ pc'[d] = pc[d] /\ seen'[d] = seen[d] /\ cred'[d] = cred[d]
    BY BeginsFrame
  <1>2. \A d \in Call : Late(d) => Late(d)'
    BY LateStays
  <1>3. UsedCodeGone'
    BY <1>1, <1>2 DEF UsedSafe, UsedCodeGone, Late
  <1>4. QED
    BY <1>1, <1>2, <1>3 DEF UsedSafe

LEMMA UsedNext == Control /\ CodesSent /\ UsedSafe /\ [Next]_vars => UsedSafe'
  <1> SUFFICES ASSUME Control, CodesSent, UsedSafe, [Next]_vars PROVE UsedSafe'
    OBVIOUS
  <1>1. CASE /\ UNCHANGED <<user, keys, op, pc, cred, seen, second, met>>
             /\ code' = code \/ \E p \in Phone : code' = [code EXCEPT ![p] = None]
    <2>1. \A p \in Phone : code'[p] = code[p] \/ code'[p] = None
      BY <1>1, CodeTypes
    <2>2. \A d \in Call : Late(d)' <=> Late(d)
      BY <1>1 DEF Late, Overlapped
    <2>3. UsedCodeGone'
      BY <1>1, <2>1, <2>2 DEF UsedSafe, UsedCodeGone, Late
    <2>4. QED
      BY <1>1, <2>2, <2>3 DEF UsedSafe
  <1>2. QED
    BY <1>1, StepCases, UsedActs, UsedBegins

\* A code that has proven a number is not in Redis again, unless a wrong guess overlapped the
\* right one.
THEOREM UsedCodeIsGone == Spec => []UsedCodeGone
  <1>1. UsedSafe => UsedCodeGone
    BY DEF UsedSafe
  <1>2. QED
    BY <1>1, InitCodes, UsedNext, ControlHolds, SentHolds, PTL DEF Spec

-----------------------------------------------------------------------------
(* Wrong guesses *)

\* The wrong guesses that were answered of code a, and two of them that overlapped.
Wrong(p, a) == {c \in Call : pc[c] = "wrong" /\ seen[c].phone = p /\ seen[c].stored.otp = a}
Clash(p, a) == \E c, d \in Wrong(p, a) : c # d /\ Overlapped(c, d)

\* Unless two of them overlapped, the wrong guesses of a code are no more than its counter says,
\* nor than a guess about to be counted has read, unless it overlaps one of them.
GuessSafe ==
    /\ IsFiniteSet({c \in Call : pc[c] = "wrong"})
    /\ \A p \in Phone, a \in Call :
         \/ Clash(p, a)
         \/ /\ Cardinality(Wrong(p, a)) <= MaxAttempts
            /\ code[p] # None /\ code[p].otp = a => Cardinality(Wrong(p, a)) <= code[p].attempts
            /\ \A g \in Call : pc[g] = "ttl" /\ seen[g].phone = p /\ seen[g].stored.otp = a =>
                 \/ Cardinality(Wrong(p, a)) <= seen[g].stored.attempts
                 \/ \E w \in Wrong(p, a) : Overlapped(g, w)

LEMMA InitGuess == Init => GuessSafe
  <1> SUFFICES ASSUME Init PROVE GuessSafe
    OBVIOUS
  <1>1. \A c \in Call : pc[c] = "idle"
    BY DEF Init
  <1>2. {c \in Call : pc[c] = "wrong"} = {} /\ \A p, a : Wrong(p, a) = {}
    BY <1>1 DEF Wrong
  <1>3. \A p \in Phone : code[p] = None
    BY DEF Init, PhoneCodeInit
  <1>4. QED
    BY <1>1, <1>2, <1>3, FS_EmptySet, AttemptsAssumption DEF GuessSafe

LEMMA WrongFinite ==
    ASSUME GuessSafe, NEW p, NEW a
    PROVE  IsFiniteSet(Wrong(p, a)) /\ Cardinality(Wrong(p, a)) \in Nat
  <1>1. Wrong(p, a) \in SUBSET {c \in Call : pc[c] = "wrong"}
    BY DEF Wrong
  <1>2. IsFiniteSet(Wrong(p, a))
    BY <1>1, FS_Subset DEF GuessSafe
  <1>3. QED
    BY <1>2, FS_CardinalityType

LEMMA GuessActs ==
    ASSUME Control, CodesSent, GuessSafe, NEW c \in Call, Acts(c)
    PROVE  GuessSafe'
  <1>t. /\ op' = op /\ \A d \in Call \ {c} : pc'[d] = pc[d] /\ cred'[d] = cred[d] /\ seen'[d] = seen[d]
    BY ActFrame DEF Alone
  <1>o. /\ Underway(c) /\ pc[c] # "wrong"
        /\ \A d \in Call \ {c} : Underway(d) => Overlapped(c, d) /\ Overlapped(d, c)
        /\ \A d, e \in Call : Overlapped(d, e)' = Overlapped(d, e)
    BY ActsOverlap DEF Underway, Finished
  <1>w. \A p, a : Wrong(p, a)' = IF pc'[c] = "wrong" /\ seen[c].phone = p /\ seen[c].stored.otp = a
                                 THEN Wrong(p, a) \cup {c} ELSE Wrong(p, a)
    <2>1. pc'[c] = "wrong" => seen'[c] = seen[c]
      BY PhoneFrame
    <2>2. QED
      BY <2>1, <1>t, <1>o DEF Wrong
  <1>1. IsFiniteSet({d \in Call : pc'[d] = "wrong"})
    <2>1. {d \in Call : pc'[d] = "wrong"} \in SUBSET ({d \in Call : pc[d] = "wrong"} \cup {c})
      BY <1>t
    <2>2. IsFiniteSet({d \in Call : pc[d] = "wrong"} \cup {c})
      BY FS_AddElement DEF GuessSafe
    <2>3. QED
      BY <2>1, <2>2, FS_Subset
  <1>2. ASSUME NEW p \in Phone, NEW a \in Call
        PROVE  \/ Clash(p, a)'
               \/ /\ Cardinality(Wrong(p, a)') <= MaxAttempts
                  /\ code'[p] # None /\ code'[p].otp = a => Cardinality(Wrong(p, a)') <= code'[p].attempts
                  /\ \A g \in Call : pc'[g] = "ttl" /\ seen'[g].phone = p /\ seen'[g].stored.otp = a =>
                       \/ Cardinality(Wrong(p, a)') <= seen'[g].stored.attempts
                       \/ \E w \in Wrong(p, a)' : Overlapped(g, w)'
    <2> DEFINE W == Wrong(p, a)
    <2>f. IsFiniteSet(W) /\ Cardinality(W) \in Nat
      BY WrongFinite
    <2>0. Clash(p, a) => Clash(p, a)'
      <3>1. W \subseteq Wrong(p, a)' /\ W \subseteq Call
        BY <1>w DEF Wrong
      <3>2. QED
        BY <3>1, <1>o DEF Clash
    <2>i. ~Clash(p, a) =>
            /\ Cardinality(W) <= MaxAttempts
            /\ code[p] # None /\ code[p].otp = a => Cardinality(W) <= code[p].attempts
            /\ \A g \in Call : pc[g] = "ttl" /\ seen[g].phone = p /\ seen[g].stored.otp = a =>
                 Cardinality(W) <= seen[g].stored.attempts \/ \E w \in W : Overlapped(g, w)
      BY DEF GuessSafe
    <2>1. CASE pc'[c] = "wrong" /\ seen[c].phone = p /\ seen[c].stored.otp = a /\ ~Clash(p, a)
      <3>1. /\ pc[c] = "ttl" /\ code' = [code EXCEPT ![p] = [seen[c].stored EXCEPT !.attempts = @ + 1]]
            /\ Wrong(p, a)' = W \cup {c} /\ c \notin W
        <4>1. pc[c] = "ttl" /\ code' = [code EXCEPT ![seen[c].phone] = [seen[c].stored EXCEPT !.attempts = @ + 1]]
          BY <2>1, PhoneFrame
        <4>2. Wrong(p, a)' = Wrong(p, a) \cup {c}
          BY <2>1, <1>w
        <4>4. c \notin Wrong(p, a)
          BY <4>1 DEF Wrong
        <4>3. QED
          BY <2>1, <4>1, <4>2, <4>4
      <3>2. /\ seen[c].stored.attempts \in Nat /\ seen[c].stored.attempts < MaxAttempts
            /\ code'[p].attempts = seen[c].stored.attempts + 1
        <4>1. seen[c].stored \in StoredCode /\ seen[c].stored.attempts < MaxAttempts
          BY <3>1, CodeTypes
        <4>2. [seen[c].stored EXCEPT !.attempts = @ + 1].attempts = seen[c].stored.attempts + 1
          BY <4>1 DEF StoredCode
        <4>3. seen[c].stored.attempts \in Nat
          BY <4>1, AttemptsAssumption DEF StoredCode
        <4>4. code'[p] = [seen[c].stored EXCEPT !.attempts = @ + 1]
          BY <3>1, CodeTypes
        <4>5. QED
          BY <4>1, <4>2, <4>3, <4>4
      <3>3. CASE \E w \in W : Overlapped(c, w)
        BY <3>1, <3>3, <1>o DEF Clash, Wrong
      <3>4. CASE Cardinality(W) <= seen[c].stored.attempts
        <4>1. Cardinality(Wrong(p, a)') = Cardinality(W) + 1
          BY <3>1, <2>f, FS_AddElement
        <4>2. Cardinality(Wrong(p, a)') <= MaxAttempts /\ Cardinality(Wrong(p, a)') <= code'[p].attempts
          BY <4>1, <3>2, <3>4, <2>f, AttemptsAssumption
        <4>3. ASSUME NEW g \in Call, pc'[g] = "ttl" PROVE \E w \in Wrong(p, a)' : Overlapped(g, w)'
          <5>1. g # c /\ pc[g] = "ttl"
            BY <4>3, <2>1, <1>t
          <5>2. Overlapped(g, c)'
            BY <5>1, <1>o DEF Underway, Finished
          <5>3. QED
            BY <5>2, <3>1
        <4>4. QED
          BY <4>2, <4>3
      <3>5. QED
        BY <3>1, <3>3, <3>4, <2>i, <2>1
    <2>2. CASE ~(pc'[c] = "wrong" /\ seen[c].phone = p /\ seen[c].stored.otp = a) /\ ~Clash(p, a)
      <3>1. Wrong(p, a)' = W
        BY <2>2, <1>w
      <3>2. code'[p] # None /\ code'[p].otp = a => Cardinality(W) <= code'[p].attempts
        <4> SUFFICES ASSUME code'[p] # None, code'[p].otp = a PROVE Cardinality(W) <= code'[p].attempts
          OBVIOUS
        <4>1. CASE code'[p] = code[p]
          BY <4>1, <2>i, <2>2
        <4>2. CASE pc[c] = "code" /\ code'[p] = [otp |-> c, attempts |-> 0]
          <5>1. W = {}
            BY <4>2 DEF Wrong, CodesSent, Sent
          <5>2. QED
            BY <4>2, <5>1, FS_EmptySet
        <4>3. code'[p] = code[p] \/ (pc[c] = "code" /\ code'[p] = [otp |-> c, attempts |-> 0])
          <5>1. CASE pc[c] = "ttl" /\ pc'[c] = "wrong"
            <6>1. code' = [code EXCEPT ![seen[c].phone] = [seen[c].stored EXCEPT !.attempts = @ + 1]]
              BY <5>1, PhoneFrame
            <6>2. [seen[c].stored EXCEPT !.attempts = @ + 1].otp = seen[c].stored.otp
              BY <5>1, CodeTypes DEF StoredCode
            <6>3. QED
              BY <6>1, <6>2, <5>1, <2>2, CodeTypes
          <5>2. CASE pc[c] \in {"drop", "dropCode"} /\ code' = [code EXCEPT ![seen[c]] = None]
            BY <5>2, CodeTypes
          <5>3. CASE pc[c] = "code" /\ code' = [code EXCEPT ![seen[c]] = [otp |-> c, attempts |-> 0]]
            BY <5>3, CodeTypes
          <5>4. QED
            BY <5>1, <5>2, <5>3, PhoneFrame
        <4>4. QED
          BY <4>1, <4>2, <4>3
      <3>3. ASSUME NEW g \in Call, pc'[g] = "ttl", seen'[g].phone = p, seen'[g].stored.otp = a
            PROVE  Cardinality(W) <= seen'[g].stored.attempts \/ \E w \in W : Overlapped(g, w)'
        <4>1. CASE g # c
          BY <4>1, <3>3, <2>i, <2>2, <1>t, <1>o DEF Wrong
        <4>2. CASE g = c
          <5>1. pc[c] = "guess" /\ code[seen[c]] # None /\ seen'[c] = [phone |-> seen[c], stored |-> code[seen[c]]]
            BY <3>3, <4>2, PhoneFrame
          <5>2. seen[c] = p /\ code[p].otp = a /\ seen'[g].stored.attempts = code[p].attempts
            BY <5>1, <3>3, <4>2
          <5>3. QED
            BY <5>1, <5>2, <2>i, <2>2
        <4>3. QED
          BY <4>1, <4>2
      <3>4. QED
        BY <3>1, <3>2, <3>3, <2>i, <2>2
    <2>3. QED
      BY <2>0, <2>1, <2>2
  <1>3. QED
    BY <1>1, <1>2 DEF GuessSafe

LEMMA GuessBegins ==
    ASSUME Control, GuessSafe, NEW c \in Call, Begins(c)
    PROVE  GuessSafe'
  <1>1. /\ UNCHANGED code /\ pc'[c] \notin {"ttl", "wrong"} /\ pc[c] = "idle"
        /\ \A d \in Call \ {c} : /\ op'[d] = op[d] /\ pc'[d] = pc[d] /\ seen'[d] = seen[d] /\ cred'[d] = cred[d]
        /\ \A d, e \in Call : Overlapped(d, e) => Overlapped(d, e)'
    BY BeginsFrame
  <1>2. \A p, a : Wrong(p, a)' = Wrong(p, a)
    BY <1>1 DEF Wrong
  <1>3. \A p, a : Clash(p, a) => Clash(p, a)'
    BY <1>1, <1>2 DEF Clash, Wrong
  <1>4. {d \in Call : pc'[d] = "wrong"} = {d \in Call : pc[d] = "wrong"}
    BY <1>1
  <1>5. ASSUME NEW p \in Phone, NEW a \in Call, ~Clash(p, a)
        PROVE  /\ Cardinality(Wrong(p, a)') <= MaxAttempts
               /\ code'[p] # None /\ code'[p].otp = a => Cardinality(Wrong(p, a)') <= code'[p].attempts
               /\ \A g \in Call : pc'[g] = "ttl" /\ seen'[g].phone = p /\ seen'[g].stored.otp = a =>
                    \/ Cardinality(Wrong(p, a)') <= seen'[g].stored.attempts
                    \/ \E w \in Wrong(p, a)' : Overlapped(g, w)'
    BY <1>1, <1>2, <1>5 DEF GuessSafe, Wrong
  <1>6. QED
    BY <1>3, <1>4, <1>5 DEF GuessSafe

LEMMA GuessNext == Control /\ CodesSent /\ GuessSafe /\ [Next]_vars => GuessSafe'
  <1> SUFFICES ASSUME Control, CodesSent, GuessSafe, [Next]_vars PROVE GuessSafe'
    OBVIOUS
  <1>1. CASE /\ UNCHANGED <<user, keys, op, pc, cred, seen, second, met>>
             /\ code' = code \/ \E p \in Phone : code' = [code EXCEPT ![p] = None]
    <2>1. \A p \in Phone : code'[p] = code[p] \/ code'[p] = None
      BY <1>1, CodeTypes
    <2>2. \A p, a : Wrong(p, a)' = Wrong(p, a) /\ (Clash(p, a)' <=> Clash(p, a))
      BY <1>1 DEF Wrong, Clash, Overlapped
    <2>3. QED
      BY <1>1, <2>1, <2>2 DEF GuessSafe, Overlapped
  <1>2. QED
    BY <1>1, StepCases, GuessActs, GuessBegins

\* No more than MaxAttempts wrong guesses of a code are answered, unless two of them overlapped.
THEOREM GuessesAreBounded == Spec => []GuessesBounded
  <1>1. GuessSafe => GuessesBounded
    <2> SUFFICES ASSUME GuessSafe, NEW p \in Phone, NEW a \in Call
                 PROVE  LET wrong == {c \in Call : pc[c] = "wrong" /\ seen[c].phone = p /\ seen[c].stored.otp = a}
                        IN  \/ Cardinality(wrong) <= MaxAttempts
                            \/ \E c, d \in wrong : c # d /\ Overlapped(c, d)
      BY DEF GuessesBounded
    <2>1. Clash(p, a) \/ Cardinality(Wrong(p, a)) <= MaxAttempts
      BY DEF GuessSafe
    <2>2. QED
      BY <2>1 DEF Wrong, Clash
  <1>2. QED
    BY <1>1, InitGuess, GuessNext, ControlHolds, SentHolds, PTL DEF Spec

-----------------------------------------------------------------------------
(* Credentials *)

\* Why two calls have the same credential.
Excused(c, d) == Overlapped(c, d) \/ pc[c] \in {"failed", "wrong"} \/ pc[d] \in {"failed", "wrong"}

\* The calls that have stored the token of second s.
Issuers(s) == {c \in Call : second[c] = s /\ pc[c] = "done"} \cup (IF s = 0 THEN {Earlier} ELSE {})

\* The token of second s was stored by two calls.
Twice(s) == \E e, f \in Issuers(s) : e # f

\* Links: one that exists was stored by a call that stores none any more, and is gone once a
\* call has used it up.
LinkSafe ==
    /\ \A k \in Link : k \in keys \/ (\E c \in Call : k \in cred[c]) => Made(k[2])
    /\ \A c \in Call, k \in Link : k \in cred[c] =>
         /\ IF k[1] = "pending-2fa" THEN op[c] = "verifyLoginOtp" ELSE op[c] \in Linked
         /\ pc[c] \in {"scan", "sign", "store", "done"} => k \notin keys
    /\ \A c, d \in Call : c # d => \A k \in Link \cap cred[c] \cap cred[d] : Excused(c, d)

\* Emailed codes: one that exists was sent by a call that sends none any more, and is gone from
\* the row once a call has spent it.
MailSafe ==
    /\ user # None /\ user.emailOtp # None => Mailed(user.emailOtp)
    /\ \A c \in Call, a \in Author : <<"email-otp", a>> \in cred[c] =>
         /\ Mailed(a)
         /\ op[c] \in {"loginWithCode", "verifyLoginOtp"} /\ pc[c] # "validate"
         /\ pc[c] \in {"unpend", "sign", "store", "done"} => user.emailOtp # a
    /\ \A c, d \in Call, a \in Author :
         c # d /\ <<"email-otp", a>> \in cred[c] \cap cred[d] => Excused(c, d)

\* Codes for a phone: once a number is verified no call begins that verifies one.
ProofSafe ==
    /\ \A c \in Call : op[c] = "verifyPhoneOtp" /\ pc[c] = "done" => user.phoneVerified
    /\ \A c, d \in Call : c # d /\ op[c] = "verifyPhoneOtp" /\ op[d] = "verifyPhoneOtp"
                          /\ pc[c] # "idle" /\ pc[d] # "idle" => Excused(c, d)

\* Refresh tokens: one that exists was issued, and one that was revoked is there again only if
\* it was issued twice.
TokenSafe ==
    /\ IsFiniteSet({c \in Call : second[c] # None})
    /\ \A c \in Call, s \in Second : <<"refresh", s>> \in keys \cup cred[c] => Issuers(s) # {}
    /\ \A c \in Call, s \in Second : <<"refresh", s>> \in cred[c] =>
         /\ op[c] = "refresh"
         /\ pc[c] # "revoke" /\ <<"refresh", s>> \in keys => pc[c] = "failed" \/ Twice(s)
    /\ \A c, d \in Call, s \in Second :
         c # d /\ <<"refresh", s>> \in cred[c] \cap cred[d] => Excused(c, d) \/ Twice(s)

\* Where the calls that use a credential up come from, and when a token is signed.
LEMMA SpendFrame ==
    ASSUME Control, NEW c \in Call, Acts(c)
    PROVE  /\ pc'[c] # "validate" /\ pc'[c] # "revoke"
           /\ op[c] \in Linked \cup {"verifyLoginOtp"} /\ pc'[c] \in {"scan", "sign", "store", "done"} =>
                pc[c] \in {"unlink", "unpend", "scan", "sign", "store"}
           /\ op[c] \in {"loginWithCode", "verifyLoginOtp"} /\ pc'[c] \in {"unpend", "sign", "store", "done"} =>
                pc[c] \in {"validate", "spend", "unpend", "sign", "store"}
           /\ second'[c] # second[c] => pc[c] = "sign"
  <1>t. TypeOK /\ Fits(c)
    BY DEF Control
  <1>1. CASE PhoneStep(c)
    <2>1. CASE PhoneTaken(c) \/ WritePhone(c) \/ CheckRate(c) \/ NoCode(c) \/ TooManyGuesses(c) \/ MarkVerified(c)
      BY <2>1, <1>t DEF PhoneTaken, WritePhone, CheckRate, NoCode, TooManyGuesses, MarkVerified, Proceed, Write,
         Goto, TypeOK, Fits, Linked
    <2>2. CASE SendCode(c) \/ StampRate(c) \/ Drop(c) \/ CountGuess(c) \/ WrongGuess(c) \/ RightGuess(c)
      BY <2>2, <1>t DEF SendCode, StampRate, Drop, CountGuess, WrongGuess, RightGuess, Others, Goto, TypeOK, Fits, Linked
    <2>3. QED
      BY <1>1, <2>1, <2>2 DEF PhoneStep
  <1>2. CASE SessionStep(c)
    <2>1. CASE SendEmailOtp(c) \/ ValidateAuthenticator(c) \/ ValidateRefused(c) \/ SpendCode(c)
      BY <2>1, <1>t DEF SendEmailOtp, ValidateAuthenticator, ValidateRefused, SpendCode, Proceed, Write, AfterCode,
         Goto, TypeOK, Fits, Linked
    <2>2. CASE KeepPending(c) \/ Unpend(c) \/ Revoke(c) \/ ValidateEmailed(c)
      BY <2>2, <1>t DEF KeepPending, Unpend, Revoke, SetKeys, ValidateEmailed, Present, Others, Goto, TypeOK, Fits, Linked
    <2>3. CASE Sign(c) \/ Store(c)
      BY <2>3, <1>t DEF Sign, Store, Goto, TypeOK, Fits, Linked
    <2>4. QED
      BY <1>2, <2>1, <2>2, <2>3 DEF SessionStep
  <1>3. CASE AccountStep(c)
    <2>1. CASE Save(c) \/ ScanEnds(c)
      BY <2>1, <1>t DEF Save, ScanEnds, Proceed, Write, Goto, TypeOK, Fits, Linked
    <2>5. CASE UpdateRow(c)
      BY <2>5, <1>t DEF UpdateRow, Write, Goto, TypeOK, Fits, Linked, Writing, PinOps, Forgot
    <2>2. CASE CreateVerifyLink(c) \/ StoreLink(c) \/ Unlink(c)
      BY <2>2, <1>t DEF CreateVerifyLink, StoreLink, Unlink, SetKeys, Goto, TypeOK, Fits, Linked, Forgot
    <2>3. CASE (\E page \in SUBSET Refresh : ScanPage(c, page)) \/ DeletePage(c)
      BY <2>3, <1>t DEF ScanPage, DeletePage, TypeOK, Fits, Linked
    <2>4. QED
      BY <1>3, <2>1, <2>2, <2>3, <2>5 DEF AccountStep
  <1>4. CASE Crash(c)
    BY <1>4, <1>t DEF Crash, Goto, TypeOK, Fits, Linked
  <1>5. QED
    BY <1>1, <1>2, <1>3, <1>4 DEF Acts

\* A call that goes on presents nothing, or the code it has just been asked for.
LEMMA CredFrame ==
    ASSUME Control, NEW c \in Call, Acts(c), NEW d \in Call, NEW k, k \in cred'[d], k \notin cred[d]
    PROVE  /\ d = c
           /\ \/ pc[c] = "guess" /\ \E a : k = <<"phone-otp", a>>
              \/ /\ pc[c] = "validate" /\ pc'[c] = "spend" /\ user' = user /\ user.emailOtp # None
                 /\ k = <<"email-otp", user.emailOtp>>
  <1>1. d = c /\ pc'[c] \in {"dropCode", "spend"}
    BY ActFrame, PhoneFrame DEF Alone
  <1>2. CASE pc'[c] = "dropCode"
    <2>1. pc[c] = "guess" /\ cred'[c] = cred[c] \cup {<<"phone-otp", <<seen[c], code[seen[c]].otp>>>>}
      BY <1>2, PhoneFrame
    <2>2. QED
      BY <1>1, <2>1
  <1>3. CASE pc'[c] = "spend"
    <2>1. /\ pc[c] = "validate" /\ user.emailOtp # None /\ UNCHANGED user
          /\ cred'[c] = cred[c] \cup {<<"email-otp", user.emailOtp>>}
      BY <1>3, PlaceFrame
    <2>2. QED
      BY <1>1, <1>3, <2>1
  <1>4. QED
    BY <1>1, <1>2, <1>3

\* What a beginning call presents is a key that is there, or a code made with the secret.
LEMMA WhatBegins ==
    ASSUME Control, NEW c \in Call, Begins(c), NEW k \in cred'[c]
    PROVE  \/ k[1] = "totp"
           \/ /\ k \in keys
              /\ \/ k[1] \in {"email-verify", "pwd-reset", "pin-reset"} /\ op'[c] \in Linked /\ pc'[c] = "write"
                 \/ k[1] = "pending-2fa" /\ op'[c] = "verifyLoginOtp" /\ pc'[c] = "validate"
                 \/ k \in Refresh /\ op'[c] = "refresh" /\ pc'[c] = "revoke"
  <1>1. PICK name, what, saw, place : Begin(c, name, what, saw, place) /\ Warrant(name, what, saw, place)
    BY DEF Begins
  <1>2. k \in what /\ op'[c] = name /\ pc'[c] = place
    BY <1>1, BeginFrame
  <1>3. QED
    BY <1>1, <1>2 DEF Warrant, Linked

\* What is known of calls stays known.
LEMMA CallsStay ==
    ASSUME Control, NEW c \in Call, Begins(c) \/ Acts(c)
    PROVE  /\ \A d, e \in Call : Excused(d, e) => Excused(d, e)'
           /\ \A a \in Author : (Made(a) => Made(a)') /\ (Mailed(a) => Mailed(a)')
           /\ \A s \in Second : Issuers(s) \subseteq Issuers(s)' /\ (Twice(s) => Twice(s)')
  <1>1. \A d \in Call : pc[d] \in Finished => pc'[d] = pc[d] /\ second'[d] = second[d]
    BY ActFrame, BeginsFrame DEF Alone, Underway, Finished
  <1>2. \A d, e \in Call : Overlapped(d, e) => Overlapped(d, e)'
    BY ActsOverlap, BeginsFrame
  <1>3. \A d \in Call : (pc[d] \notin Fresh => pc'[d] \notin Fresh)
                     /\ (pc[d] \notin {"idle", "sendCode"} => pc'[d] \notin {"idle", "sendCode"})
    <2>1. CASE Acts(c)
      BY <2>1, ActFrame, PlaceFrame DEF Alone
    <2>2. CASE Begins(c)
      BY <2>2, BeginsFrame DEF Fresh
    <2>3. QED
      BY <2>1, <2>2
  <1>4. \A s \in Second : Issuers(s) \subseteq Issuers(s)'
    BY <1>1 DEF Issuers, Finished
  <1>5. \A d, e \in Call : Excused(d, e) => Excused(d, e)'
    BY <1>1, <1>2 DEF Excused, Finished
  <1>6. \A a \in Author : (Made(a) => Made(a)') /\ (Mailed(a) => Mailed(a)')
    BY <1>3 DEF Made, Mailed, Author
  <1>7. QED
    BY <1>4, <1>5, <1>6 DEF Twice

LEMMA InitSpent == Init => LinkSafe /\ MailSafe /\ ProofSafe /\ TokenSafe
  <1> SUFFICES ASSUME Init PROVE LinkSafe /\ MailSafe /\ ProofSafe /\ TokenSafe
    OBVIOUS
  <1>1. \A c \in Call : pc[c] = "idle" /\ cred[c] = {} /\ op[c] = None /\ second[c] = None
    BY DEF Init
  <1>k. keys \subseteq {<<"email-verify", Earlier>>, <<"pwd-reset", Earlier>>, <<"pin-reset", Earlier>>,
                        <<"pending-2fa", Earlier>>, <<"refresh", 0>>}
    BY DEF Init
  <1>r. user # None => user.emailOtp = None
    <2>1. NewRow(Earlier, None).emailOtp = None /\ InUse.emailOtp = None
      BY DEF NewRow, InUse
    <2>2. [InUse EXCEPT !.method = "authenticator", !.secret = Earlier].emailOtp = None
      BY DEF InUse
    <2>3. QED
      BY <2>1, <2>2 DEF Init
  <1>2. {c \in Call : second[c] # None} = {}
    BY <1>1
  <1>3. \A s \in Second : <<"refresh", s>> \in keys => Issuers(s) # {}
    BY <1>k DEF Issuers
  <1>4. \A k \in Link : k \in keys => Made(k[2])
    BY <1>k DEF Link, Made
  <1>5. LinkSafe
    BY <1>1, <1>4 DEF LinkSafe
  <1>6. MailSafe
    BY <1>1, <1>r DEF MailSafe
  <1>7. IsFiniteSet({c \in Call : second[c] # None})
    BY <1>2, FS_EmptySet
  <1>8. TokenSafe
    BY <1>1, <1>3, <1>7 DEF TokenSafe
  <1>9. ProofSafe
    BY <1>1 DEF ProofSafe
  <1>10. QED
    BY <1>5, <1>6, <1>8, <1>9

LEMMA LinkActs ==
    ASSUME Control, LinkSafe, NEW c \in Call, Acts(c)
    PROVE  LinkSafe'
  <1>t. op' = op /\ \A d \in Call \ {c} : pc'[d] = pc[d]
    BY ActFrame DEF Alone
  <1>c. ASSUME NEW d \in Call, NEW k \in Link, k \in cred'[d] PROVE k \in cred[d]
    BY <1>c, CredFrame DEF Link
  <1>k. ASSUME NEW k \in Link, k \in keys', k \notin keys
        PROVE  k[2] = c /\ pc[c] \in Fresh /\ pc'[c] \notin Fresh
    <2>1. k[1] # "refresh"
      BY DEF Link
    <2>2. QED
      BY <1>k, <2>1, KeyFrame DEF Fresh
  <1>e. c # Earlier
    BY EarlierAssumption
  <1>1. ASSUME NEW k \in Link, k \in keys' \/ \E d \in Call : k \in cred'[d] PROVE Made(k[2])'
    <2>1. k[2] \in Author
      BY DEF Link
    <2>2. CASE k \in keys \/ \E d \in Call : k \in cred[d]
      BY <2>1, <2>2, CallsStay DEF LinkSafe
    <2>3. CASE k \in keys' /\ k \notin keys
      <3>1. k[2] = c /\ pc'[c] \notin Fresh
        BY <2>3, <1>k
      <3>2. QED
        BY <3>1 DEF Made
    <2>4. QED
      BY <1>1, <1>c, <2>2, <2>3
  <1>2. ASSUME NEW d \in Call, NEW k \in Link, k \in cred'[d], pc'[d] \in {"scan", "sign", "store", "done"}
        PROVE  k \notin keys'
    <2>0. k \in cred[d] /\ (op[d] \in Linked \/ op[d] = "verifyLoginOtp") /\ Made(k[2])
      BY <1>2, <1>c DEF LinkSafe
    <2>1. k \in keys' => k \in keys
      <3>1. ~(k[2] = c /\ pc[c] \in Fresh)
        BY <2>0, <1>e DEF Made
      <3>2. QED
        BY <3>1, <1>k
    <2>2. CASE pc[d] \in {"scan", "sign", "store", "done"}
      BY <2>0, <2>1, <2>2 DEF LinkSafe
    <2>3. CASE pc[d] \notin {"scan", "sign", "store", "done"}
      <3>1. d = c /\ pc[c] \in {"unlink", "unpend"}
        BY <2>0, <2>3, <1>2, <1>t, SpendFrame
      <3>2. keys' = keys \ cred[c]
        BY <3>1, <1>2, KeyFrame
      <3>3. QED
        BY <3>1, <3>2, <2>0
    <2>4. QED
      BY <2>2, <2>3
  <1>3. QED
    <2>1. \A d \in Call, k \in Link : k \in cred'[d] =>
            IF k[1] = "pending-2fa" THEN op'[d] = "verifyLoginOtp" ELSE op'[d] \in Linked
      BY <1>c, <1>t DEF LinkSafe
    <2>2. \A d, e \in Call : d # e => \A k \in Link \cap cred'[d] \cap cred'[e] : Excused(d, e)'
      BY <1>c, CallsStay DEF LinkSafe
    <2>3. QED
      BY <1>1, <1>2, <2>1, <2>2 DEF LinkSafe

LEMMA LinkBegins ==
    ASSUME Control, LinkSafe, NEW c \in Call, Begins(c)
    PROVE  LinkSafe'
  <1>t. /\ UNCHANGED keys /\ pc'[c] # "idle"
        /\ \A d \in Call \ {c} : op'[d] = op[d] /\ pc'[d] = pc[d] /\ cred'[d] = cred[d]
    BY BeginsFrame
  <1>c. ASSUME NEW k \in Link, k \in cred'[c]
        PROVE  /\ k \in keys /\ pc'[c] \notin {"scan", "sign", "store", "done"}
               /\ IF k[1] = "pending-2fa" THEN op'[c] = "verifyLoginOtp" ELSE op'[c] \in Linked
    <2>1. k[1] # "totp" /\ k \notin Refresh /\ (k[1] \in {"email-verify", "pwd-reset", "pin-reset"} => k[1] # "pending-2fa")
      BY DEF Link, Refresh
    <2>2. QED
      BY <1>c, <2>1, WhatBegins
  <1>1. ASSUME NEW k \in Link, k \in keys' \/ \E d \in Call : k \in cred'[d] PROVE Made(k[2])'
    <2>1. k[2] \in Author
      BY DEF Link
    <2>2. k \in keys \/ \E d \in Call : k \in cred[d]
      BY <1>1, <1>t, <1>c
    <2>3. QED
      BY <2>1, <2>2, CallsStay DEF LinkSafe
  <1>2. \A d \in Call, k \in Link : k \in cred'[d] =>
          /\ IF k[1] = "pending-2fa" THEN op'[d] = "verifyLoginOtp" ELSE op'[d] \in Linked
          /\ pc'[d] \in {"scan", "sign", "store", "done"} => k \notin keys'
    BY <1>t, <1>c DEF LinkSafe
  <1>3. ASSUME NEW d \in Call \ {c}, NEW k \in Link, k \in cred'[c], k \in cred[d]
        PROVE  Excused(c, d)' /\ Excused(d, c)'
    <2>1. k \in keys /\ pc[d] \notin {"scan", "sign", "store", "done"}
      BY <1>3, <1>c DEF LinkSafe
    <2>2. pc[d] # "idle"
      BY <1>3 DEF Control, Fits
    <2>3. CASE Underway(d)
      BY <2>3, BeginsFrame DEF Excused
    <2>4. CASE pc[d] \in {"failed", "wrong"}
      BY <2>4, <1>t DEF Excused
    <2>5. QED
      BY <2>1, <2>2, <2>3, <2>4 DEF Underway, Finished
  <1>4. \A d, e \in Call : d # e => \A k \in Link \cap cred'[d] \cap cred'[e] : Excused(d, e)'
    BY <1>t, <1>3, CallsStay DEF LinkSafe
  <1>5. QED
    BY <1>1, <1>2, <1>4 DEF LinkSafe

\* What a step does to the emailed code in the row.
LEMMA MailFrame ==
    ASSUME Control, NEW c \in Call, Acts(c), user' # None
    PROVE  \/ user # None /\ user'.emailOtp = user.emailOtp
           \/ user'.emailOtp = None
           \/ pc[c] = "sendCode" /\ user'.emailOtp = c /\ pc'[c] \notin {"idle", "sendCode"}
  <1>t. user \in Row \cup {None} /\ Fits(c)
    BY DEF Control, TypeOK
  <1>1. CASE user' = user
    BY <1>1
  <1>2. CASE user' = NewRow(c, seen[c])
    BY <1>2 DEF NewRow
  <1>3. CASE pc[c] \notin {"idle", "save", "failed"}
    <2>1. user \in Row /\ user # None
      BY <1>t, <1>3 DEF Fits
    <2>2. CASE user' = [user EXCEPT !.phone = seen[c]] \/ user' = [user EXCEPT !.phoneVerified = TRUE]
      BY <2>1, <2>2 DEF Row
    <2>3. CASE pc[c] = "sendCode" /\ user' = [user EXCEPT !.emailOtp = c]
      BY <2>1, <2>3, PlaceFrame DEF Row
    <2>4. CASE user' = [user EXCEPT !.emailOtp = None]
      BY <2>1, <2>4 DEF Row
    <2>5. CASE op[c] \in Writing \ Forgot /\ user' = Written(c)
      BY <2>1, <2>5 DEF Written, Row, Writing, Forgot, PinOps, Linked
    <2>6. QED
      BY <1>1, <1>3, <2>2, <2>3, <2>4, <2>5, RowFrame
  <1>4. QED
    BY <1>1, <1>2, <1>3, RowFrame DEF Fits

LEMMA MailActs ==
    ASSUME Control, MailSafe, NEW c \in Call, Acts(c)
    PROVE  MailSafe'
  <1>t. op' = op /\ \A d \in Call \ {c} : pc'[d] = pc[d]
    BY ActFrame DEF Alone
  <1>e. c # Earlier /\ None \notin Author
    BY EarlierAssumption, NoneAssumption DEF Author
  <1>r. user \in Row \cup {None} /\ Fits(c)
    BY DEF Control, TypeOK
  <1>1. ASSUME user' # None, user'.emailOtp # None PROVE Mailed(user.emailOtp)'
    <2>1. CASE user # None /\ user'.emailOtp = user.emailOtp
      <3>1. user.emailOtp \in Author
        BY <1>1, <1>r, <2>1 DEF Row
      <3>2. Mailed(user.emailOtp)
        BY <1>1, <2>1 DEF MailSafe
      <3>3. user.emailOtp = Earlier \/ pc'[user.emailOtp] \notin {"idle", "sendCode"}
        BY <3>1, <3>2, CallsStay DEF Mailed
      <3>4. QED
        BY <2>1, <3>3 DEF Mailed
    <2>2. CASE pc[c] = "sendCode" /\ user'.emailOtp = c /\ pc'[c] \notin {"idle", "sendCode"}
      BY <2>2 DEF Mailed
    <2>3. QED
      BY <1>1, <2>1, <2>2, MailFrame
  <1>c. ASSUME NEW d \in Call, NEW a \in Author, <<"email-otp", a>> \in cred'[d], <<"email-otp", a>> \notin cred[d]
        PROVE  /\ d = c /\ pc[c] = "validate" /\ pc'[c] = "spend" /\ user' = user
               /\ user # None /\ user.emailOtp = a /\ op[c] \in {"loginWithCode", "verifyLoginOtp"}
    <2>1. d = c /\ pc[c] = "validate" /\ pc'[c] = "spend" /\ user' = user /\ a = user.emailOtp
      BY <1>c, CredFrame
    <2>2. QED
      BY <2>1, <1>r DEF Fits
  <1>2. ASSUME NEW d \in Call, NEW a \in Author, <<"email-otp", a>> \in cred'[d]
        PROVE  /\ Mailed(a)'
               /\ op'[d] \in {"loginWithCode", "verifyLoginOtp"} /\ pc'[d] # "validate"
               /\ pc'[d] \in {"unpend", "sign", "store", "done"} => user'.emailOtp # a
    <2>1. CASE <<"email-otp", a>> \notin cred[d]
      <3>1. /\ d = c /\ pc[c] = "validate" /\ pc'[c] = "spend" /\ user' = user
            /\ user # None /\ user.emailOtp = a /\ op[c] \in {"loginWithCode", "verifyLoginOtp"}
        BY <1>2, <2>1, <1>c
      <3>2. Mailed(a)
        BY <3>1, <1>e DEF MailSafe
      <3>3. QED
        BY <3>1, <3>2, <1>t, CallsStay
    <2>2. CASE <<"email-otp", a>> \in cred[d]
      <3>1. /\ Mailed(a) /\ op[d] \in {"loginWithCode", "verifyLoginOtp"} /\ pc[d] # "validate"
            /\ pc[d] \in {"unpend", "sign", "store", "done"} => user.emailOtp # a
        BY <2>2 DEF MailSafe
      <3>2. pc'[d] # "validate"
        BY <3>1, <1>t, SpendFrame
      <3>3. ASSUME pc'[d] \in {"unpend", "sign", "store", "done"} PROVE user'.emailOtp # a
        <4>1. CASE pc[d] \in {"unpend", "sign", "store", "done"}
          <5>1. Fits(d)
            BY DEF Control
          <5>2. user # None
            BY <4>1, <5>1 DEF Fits
          <5>3. user' # None
            BY <5>2, RowKept
          <5>4. ~(pc[c] = "sendCode" /\ a = c)
            BY <3>1, <1>e DEF Mailed
          <5>5. QED
            BY <4>1, <3>1, <5>2, <5>3, <5>4, <1>e, MailFrame
        <4>2. CASE pc[d] \notin {"unpend", "sign", "store", "done"}
          <5>1. d = c /\ pc[c] = "spend" /\ pc'[c] # "failed"
            BY <4>2, <3>1, <3>3, <1>t, SpendFrame
          <5>2. user' = [user EXCEPT !.emailOtp = None] /\ user \in Row
            BY <5>1, <1>r, PlaceFrame DEF Fits
          <5>3. user'.emailOtp = None
            BY <5>2 DEF Row
          <5>4. QED
            BY <5>3, <1>e
        <4>3. QED
          BY <4>1, <4>2
      <3>4. QED
        BY <3>1, <3>2, <3>3, <1>t, CallsStay
    <2>3. QED
      BY <2>1, <2>2
  <1>n. ASSUME NEW d \in Call \ {c}, NEW a \in Author, <<"email-otp", a>> \in cred[d],
               <<"email-otp", a>> \in cred'[c], <<"email-otp", a>> \notin cred[c]
        PROVE  Excused(c, d)' /\ Excused(d, c)'
    <2>1. user.emailOtp = a
      BY <1>n, <1>c
    <2>2. pc[d] \notin {"unpend", "sign", "store", "done"}
      BY <1>n, <2>1 DEF MailSafe
    <2>3. pc[d] # "idle"
      BY <1>n DEF Control, Fits
    <2>4. Excused(c, d) /\ Excused(d, c)
      BY <2>2, <2>3, ActsOverlap DEF Excused, Underway, Finished
    <2>5. QED
      BY <2>4, CallsStay
  <1>3. ASSUME NEW d \in Call, NEW e \in Call, NEW a \in Author, d # e, <<"email-otp", a>> \in cred'[d] \cap cred'[e]
        PROVE  Excused(d, e)'
    <2>1. CASE <<"email-otp", a>> \in cred[d] \cap cred[e]
      BY <1>3, <2>1, CallsStay DEF MailSafe
    <2>2. CASE <<"email-otp", a>> \notin cred[d] \cap cred[e]
      BY <1>3, <2>2, <1>c, <1>n
    <2>3. QED
      BY <2>1, <2>2
  <1>4. QED
    BY <1>1, <1>2, <1>3 DEF MailSafe

LEMMA MailBegins ==
    ASSUME Control, MailSafe, NEW c \in Call, Begins(c)
    PROVE  MailSafe'
  <1>t. /\ UNCHANGED user
        /\ \A d \in Call \ {c} : op'[d] = op[d] /\ pc'[d] = pc[d] /\ cred'[d] = cred[d]
    BY BeginsFrame
  <1>1. ASSUME NEW a \in Author PROVE <<"email-otp", a>> \notin cred'[c]
    <2>1. \A k \in keys : k # <<"email-otp", a>>
      BY DEF Control, TypeOK, Key, Refresh, Link
    <2>2. QED
      BY <2>1, WhatBegins
  <1>2. ASSUME user' # None, user'.emailOtp # None PROVE Mailed(user.emailOtp)'
    <2>1. user.emailOtp \in Author
      BY <1>t, <1>2 DEF Control, TypeOK, Row
    <2>2. Mailed(user.emailOtp)
      BY <1>t, <1>2 DEF MailSafe
    <2>3. user.emailOtp = Earlier \/ pc'[user.emailOtp] \notin {"idle", "sendCode"}
      BY <2>1, <2>2, CallsStay DEF Mailed
    <2>4. QED
      BY <1>t, <2>3 DEF Mailed
  <1>3. \A d \in Call, a \in Author : <<"email-otp", a>> \in cred'[d] =>
          /\ Mailed(a)'
          /\ op'[d] \in {"loginWithCode", "verifyLoginOtp"} /\ pc'[d] # "validate"
          /\ pc'[d] \in {"unpend", "sign", "store", "done"} => user'.emailOtp # a
    BY <1>t, <1>1, CallsStay DEF MailSafe
  <1>4. \A d, e \in Call, a \in Author :
          d # e /\ <<"email-otp", a>> \in cred'[d] \cap cred'[e] => Excused(d, e)'
    BY <1>t, <1>1, CallsStay DEF MailSafe
  <1>5. QED
    BY <1>2, <1>3, <1>4 DEF MailSafe

LEMMA ProofActs ==
    ASSUME Control, ProofSafe, NEW c \in Call, Acts(c)
    PROVE  ProofSafe'
  <1>t. op' = op /\ pc[c] # "idle" /\ \A d \in Call \ {c} : pc'[d] = pc[d]
    BY ActFrame DEF Alone, Underway
  <1>1. ASSUME NEW d \in Call, op'[d] = "verifyPhoneOtp", pc'[d] = "done" PROVE user'.phoneVerified
    <2>0. Fits(d) /\ user \in Row \cup {None}
      BY DEF Control, TypeOK
    <2>1. CASE d = c
      <3>1. pc[c] = "proven" /\ user' = [user EXCEPT !.phoneVerified = TRUE]
        BY <1>1, <2>1, <1>t, PlaceFrame
      <3>2. user \in Row
        BY <2>0, <2>1, <3>1 DEF Fits
      <3>3. QED
        BY <3>1, <3>2 DEF Row
    <2>2. CASE d # c
      <3>1. pc[d] = "done" /\ user.phoneVerified /\ user # None
        BY <1>1, <2>0, <2>2, <1>t DEF ProofSafe, Fits
      <3>2. QED
        BY <3>1, RowKept
    <2>3. QED
      BY <2>1, <2>2
  <1>2. QED
    BY <1>1, <1>t, CallsStay DEF ProofSafe

LEMMA ProofBegins ==
    ASSUME Control, ProofSafe, NEW c \in Call, Begins(c)
    PROVE  ProofSafe'
  <1>t. /\ UNCHANGED user /\ pc'[c] # "done"
        /\ \A d \in Call \ {c} : op'[d] = op[d] /\ pc'[d] = pc[d]
    BY BeginsFrame
  <1>1. ASSUME op'[c] = "verifyPhoneOtp" PROVE ~user.phoneVerified
    <2>1. PICK name, what, saw, place : Begin(c, name, what, saw, place) /\ Warrant(name, what, saw, place)
      BY DEF Begins
    <2>2. name = "verifyPhoneOtp"
      BY <1>1, <2>1, BeginFrame
    <2>3. QED
      BY <2>1, <2>2 DEF Warrant, Forgot
  <1>2. ASSUME NEW d \in Call \ {c}, op'[c] = "verifyPhoneOtp", op[d] = "verifyPhoneOtp", pc[d] # "idle"
        PROVE  Excused(c, d)' /\ Excused(d, c)'
    <2>1. pc[d] # "done"
      BY <1>1, <1>2 DEF ProofSafe
    <2>2. CASE Underway(d)
      BY <2>2, BeginsFrame DEF Excused
    <2>3. CASE pc[d] \in {"failed", "wrong"}
      BY <2>3, <1>t DEF Excused
    <2>4. QED
      BY <2>1, <1>2, <2>2, <2>3 DEF Underway, Finished
  <1>3. QED
    BY <1>t, <1>2, CallsStay DEF ProofSafe

LEMMA TokenActs ==
    ASSUME Control, TokenSafe, NEW c \in Call, Acts(c)
    PROVE  TokenSafe'
  <1>t. op' = op /\ \A d \in Call \ {c} : pc'[d] = pc[d] /\ second'[d] = second[d]
    BY ActFrame DEF Alone
  <1>0. IsFiniteSet({d \in Call : second'[d] # None})
    <2>1. {d \in Call : second'[d] # None} \in SUBSET ({d \in Call : second[d] # None} \cup {c})
      BY <1>t
    <2>2. IsFiniteSet({d \in Call : second[d] # None} \cup {c})
      BY FS_AddElement DEF TokenSafe
    <2>3. QED
      BY <2>1, <2>2, FS_Subset
  <1>c. ASSUME NEW d \in Call, NEW s \in Second, <<"refresh", s>> \in cred'[d] PROVE <<"refresh", s>> \in cred[d]
    BY <1>c, CredFrame
  <1>k. ASSUME NEW s \in Second, <<"refresh", s>> \in keys', <<"refresh", s>> \notin keys
        PROVE  pc[c] = "store" /\ second[c] = s /\ c \in Issuers(s)' /\ c \notin Issuers(s)
    <2>1. /\ <<"refresh", s>> # <<"email-verify", c>> /\ <<"refresh", s>> # <<"pending-2fa", c>>
          /\ \A x \in {"pwd-reset", "pin-reset"} : <<"refresh", s>> # <<x, c>>
      OBVIOUS
    <2>2. op[c] \in Forgot /\ pc[c] = "write" => seen[c] \in {"pwd-reset", "pin-reset"}
      BY DEF Control, Fits
    <2>3. pc[c] = "store" /\ keys' = keys \cup {<<"refresh", second[c]>>} /\ pc'[c] = "done"
      BY <1>k, <2>1, <2>2, KeyFrame
    <2>4. second[c] = s /\ second'[c] = s
      BY <2>3, <1>k, SpendFrame
    <2>5. c # Earlier
      BY EarlierAssumption
    <2>6. QED
      BY <2>3, <2>4, <2>5 DEF Issuers
  <1>1. ASSUME NEW d \in Call, NEW s \in Second, <<"refresh", s>> \in keys' \cup cred'[d] PROVE Issuers(s)' # {}
    <2>1. CASE <<"refresh", s>> \in keys \cup cred[d]
      BY <2>1, CallsStay DEF TokenSafe
    <2>2. QED
      BY <1>1, <1>c, <1>k, <2>1
  <1>2. ASSUME NEW d \in Call, NEW s \in Second, <<"refresh", s>> \in cred'[d]
        PROVE  /\ op'[d] = "refresh"
               /\ pc'[d] # "revoke" /\ <<"refresh", s>> \in keys' => pc'[d] = "failed" \/ Twice(s)'
    <2>0. /\ <<"refresh", s>> \in cred[d] /\ op[d] = "refresh" /\ Issuers(s) # {}
          /\ pc[d] # "revoke" /\ <<"refresh", s>> \in keys => pc[d] = "failed" \/ Twice(s)
      BY <1>2, <1>c DEF TokenSafe
    <2>1. ASSUME pc'[d] # "revoke", <<"refresh", s>> \in keys' PROVE pc'[d] = "failed" \/ Twice(s)'
      <3>1. CASE <<"refresh", s>> \notin keys
        <4>1. c \in Issuers(s)' /\ c \notin Issuers(s) /\ Issuers(s) \subseteq Issuers(s)'
          BY <2>1, <3>1, <1>k, CallsStay
        <4>2. QED
          BY <4>1, <2>0 DEF Twice
      <3>2. CASE <<"refresh", s>> \in keys /\ pc[d] # "revoke"
        <4>1. pc[d] = "failed" => pc'[d] = "failed"
          BY <1>t, ActFrame DEF Underway, Finished
        <4>2. QED
          BY <4>1, <2>0, <3>2, CallsStay
      <3>3. CASE pc[d] = "revoke"
        <4>1. d = c
          BY <2>1, <3>3, <1>t
        <4>2. pc'[c] = "failed" \/ keys' = keys \ (cred[c] \cup {seen[c]})
          BY <3>3, <4>1, KeyFrame
        <4>3. QED
          BY <4>1, <4>2, <2>0, <2>1
      <3>4. QED
        BY <3>1, <3>2, <3>3
    <2>2. QED
      BY <2>0, <2>1, <1>t
  <1>3. \A d, e \in Call, s \in Second :
          d # e /\ <<"refresh", s>> \in cred'[d] \cap cred'[e] => Excused(d, e)' \/ Twice(s)'
    BY <1>c, CallsStay DEF TokenSafe
  <1>4. QED
    BY <1>0, <1>1, <1>2, <1>3 DEF TokenSafe

LEMMA TokenBegins ==
    ASSUME Control, TokenSafe, NEW c \in Call, Begins(c)
    PROVE  TokenSafe'
  <1>t. /\ UNCHANGED keys /\ second'[c] = None /\ pc[c] = "idle"
        /\ \A d \in Call \ {c} : op'[d] = op[d] /\ pc'[d] = pc[d] /\ cred'[d] = cred[d] /\ second'[d] = second[d]
    BY BeginsFrame
  <1>0. {d \in Call : second'[d] # None} = {d \in Call : second[d] # None}
    BY <1>t DEF Control, Fits
  <1>c. ASSUME NEW s \in Second, <<"refresh", s>> \in cred'[c]
        PROVE  <<"refresh", s>> \in keys /\ op'[c] = "refresh" /\ pc'[c] = "revoke"
    BY <1>c, WhatBegins
  <1>1. \A d \in Call, s \in Second : <<"refresh", s>> \in keys' \cup cred'[d] => Issuers(s)' # {}
    BY <1>t, <1>c, CallsStay DEF TokenSafe
  <1>2. \A d \in Call, s \in Second : <<"refresh", s>> \in cred'[d] =>
          /\ op'[d] = "refresh"
          /\ pc'[d] # "revoke" /\ <<"refresh", s>> \in keys' => pc'[d] = "failed" \/ Twice(s)'
    BY <1>t, <1>c, CallsStay DEF TokenSafe
  <1>n. ASSUME NEW d \in Call \ {c}, NEW s \in Second, <<"refresh", s>> \in cred'[c], <<"refresh", s>> \in cred[d]
        PROVE  (Excused(c, d)' /\ Excused(d, c)') \/ Twice(s)'
    <2>1. pc[d] = "revoke" \/ pc[d] = "failed" \/ Twice(s)
      BY <1>n, <1>c DEF TokenSafe
    <2>2. CASE pc[d] = "revoke"
      BY <2>2, BeginsFrame DEF Excused, Underway, Finished
    <2>3. CASE pc[d] = "failed"
      BY <2>3, <1>t DEF Excused
    <2>4. QED
      BY <2>1, <2>2, <2>3, CallsStay
  <1>3. \A d, e \in Call, s \in Second :
          d # e /\ <<"refresh", s>> \in cred'[d] \cap cred'[e] => Excused(d, e)' \/ Twice(s)'
    BY <1>t, <1>n, CallsStay DEF TokenSafe
  <1>4. QED
    BY <1>0, <1>1, <1>2, <1>3 DEF TokenSafe

SpentSafe == LinkSafe /\ MailSafe /\ ProofSafe /\ TokenSafe

LEMMA SpentNext == Control /\ SpentSafe /\ [Next]_vars => SpentSafe'
  <1> SUFFICES ASSUME Control, SpentSafe, [Next]_vars PROVE SpentSafe'
    OBVIOUS
  <1>1. CASE UNCHANGED <<user, keys, op, pc, cred, seen, second, met>>
    <2>1. /\ \A d, e : Excused(d, e)' <=> Excused(d, e)
          /\ \A a : (Made(a)' <=> Made(a)) /\ (Mailed(a)' <=> Mailed(a))
          /\ \A s : Issuers(s)' = Issuers(s)
      BY <1>1 DEF Excused, Overlapped, Made, Mailed, Issuers
    <2>2. \A s : Twice(s)' <=> Twice(s)
      BY <2>1 DEF Twice
    <2>3. LinkSafe'
      BY <1>1, <2>1 DEF SpentSafe, LinkSafe
    <2>4. MailSafe'
      BY <1>1, <2>1 DEF SpentSafe, MailSafe, Mailed
    <2>5. ProofSafe'
      BY <1>1, <2>1 DEF SpentSafe, ProofSafe
    <2>6. TokenSafe'
      BY <1>1, <2>1, <2>2 DEF SpentSafe, TokenSafe
    <2>7. QED
      BY <2>3, <2>4, <2>5, <2>6 DEF SpentSafe
  <1>2. QED
    BY <1>1, StepCases, LinkActs, LinkBegins, MailActs, MailBegins, ProofActs, ProofBegins, TokenActs, TokenBegins
       DEF SpentSafe

\* A token that two calls have issued was signed twice in its second.
LEMMA SignedTwice ==
    ASSUME TokenSafe, NEW s \in Second, Twice(s)
    PROVE  Cardinality({e \in Call : second[e] = s}) + (IF s = 0 THEN 1 ELSE 0) > 1
  <1> DEFINE S == {e \in Call : second[e] = s}
  <1>1. IsFiniteSet(S) /\ Cardinality(S) \in Nat
    <2>1. S \in SUBSET {e \in Call : second[e] # None}
      BY NothingAssumption
    <2>2. QED
      BY <2>1, FS_Subset, FS_CardinalityType DEF TokenSafe
  <1>2. PICK e, f \in Issuers(s) : e # f
    BY DEF Twice
  <1>3. CASE e \in S /\ f \in S
    <2>1. IsFiniteSet({e}) /\ Cardinality({e}) = 1
      BY FS_Singleton
    <2>a. f \notin {e}
      BY <1>2
    <2>b. Cardinality({e} \cup {f}) = Cardinality({e}) + 1
      BY <2>1, <2>a, FS_AddElement
    <2>2. Cardinality({e} \cup {f}) = 2
      BY <2>1, <2>b
    <2>3. {e} \cup {f} \in SUBSET S
      BY <1>3
    <2>4. Cardinality({e} \cup {f}) <= Cardinality(S)
      BY <1>1, <2>3, FS_Subset
    <2> HIDE DEF S
    <2>7. Cardinality(S) + (IF s = 0 THEN 1 ELSE 0) > 1
      BY <1>1, <2>2, <2>4
    <2>8. QED
      BY <2>7 DEF S
  <1>4. ASSUME s = 0, NEW g \in S PROVE Cardinality(S) >= 1
    <2>1. Cardinality({g}) = 1
      BY FS_Singleton
    <2>2. {g} \in SUBSET S
      OBVIOUS
    <2>3. QED
      BY <1>1, <2>1, <2>2, FS_Subset
  <1>5. CASE ~(e \in S /\ f \in S)
    <2>1. s = 0 /\ (e \in S \/ f \in S)
      BY <1>2, <1>5 DEF Issuers
    <2>2. Cardinality(S) >= 1
      BY <1>4, <2>1
    <2> HIDE DEF S
    <2>3. Cardinality(S) + (IF s = 0 THEN 1 ELSE 0) > 1
      BY <1>1, <2>1, <2>2
    <2>4. QED
      BY <2>3 DEF S
  <1>6. QED
    BY <1>3, <1>5

\* Two finished calls never used the same link, token or code unless they overlapped, or the
\* token was signed twice in its second.
THEOREM CredentialsAreSpent == Spec => []SpentOnce
  <1>1. Control /\ CodesSent /\ SpentSafe => SpentOnce
    <2> SUFFICES ASSUME Control, CodesSent, SpentSafe, NEW c \in Call, NEW d \in Call, NEW k \in cred[c] \cap cred[d],
                        c # d, ~Overlapped(c, d), pc[c] = "done", pc[d] = "done"
                 PROVE  \/ k[1] = "totp"
                        \/ /\ k \in Refresh
                           /\ Cardinality({e \in Call : second[e] = k[2]}) + (IF k[2] = 0 THEN 1 ELSE 0) > 1
      BY DEF SpentOnce
    <2>0. ~Excused(c, d)
      BY DEF Excused
    <2>1. k \in Credential
      BY DEF Control, TypeOK
    <2>2. CASE k \in Link
      BY <2>0, <2>2 DEF SpentSafe, LinkSafe
    <2>3. CASE k \in {"email-otp", "totp"} \X Author
      <3>1. k[1] = "totp" \/ \E a \in Author : k = <<"email-otp", a>>
        BY <2>3
      <3>2. QED
        BY <2>0, <3>1 DEF SpentSafe, MailSafe
    <2>4. CASE k \in {"phone-otp"} \X (Phone \X Call)
      <3>1. PICK p \in Phone, a \in Call : k = <<"phone-otp", <<p, a>>>>
        BY <2>4
      <3>2. op[c] = "verifyPhoneOtp" /\ op[d] = "verifyPhoneOtp"
        BY <3>1 DEF CodesSent
      <3>3. QED
        BY <2>0, <3>2 DEF SpentSafe, ProofSafe
    <2>5. CASE k \in Refresh
      <3>1. k = <<"refresh", k[2]>> /\ k[2] \in Second
        BY <2>5 DEF Refresh
      <3>2. Twice(k[2])
        BY <2>0, <3>1 DEF SpentSafe, TokenSafe
      <3>3. QED
        BY <2>5, <3>1, <3>2, SignedTwice DEF SpentSafe
    <2>6. QED
      BY <2>1, <2>2, <2>3, <2>4, <2>5 DEF Credential, Key
  <1>2. Init => SpentSafe
    BY InitSpent DEF SpentSafe
  <1>3. QED
    BY <1>1, <1>2, SpentNext, ControlHolds, SentHolds, PTL DEF Spec
=============================================================================

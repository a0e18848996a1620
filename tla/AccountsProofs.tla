--------------------------- MODULE AccountsProofs ----------------------------
(***************************************************************************)
(* Accounts for any number of calls, numbers and seconds: its types, with  *)
(* where each call can be and what it has read there, and that a reset of  *)
(* the password leaves none of the sessions alive that it found.           *)
(***************************************************************************)
EXTENDS Accounts, TLAPS

\* What a call that answers a wrong guess has read.
WrongRead == [phone : Phone, stored : {s \in StoredCode : s.attempts < MaxAttempts}]

\* Calls by what they do: those that end with tokens, those that present a link, those that ask
\* for one, those with a write of their own.
Signing == {"register", "loginWithCode", "verifyLoginOtp", "refresh"}
Linked == {"verifyEmail", "resetPassword", "resetPin"}
Forgot == {"forgotPassword", "forgotPin"}
Writing == PinOps \cup Linked \cup Forgot \cup
           {"changePassword", "setupAuthenticator", "confirmAuthenticator", "switchToEmail"}

\* What a call is, and what it has read, at each of its places.
Fits(c) ==
    /\ pc[c] = "idle" => second[c] = None
    /\ pc[c] \in {"idle", "guess"} => cred[c] = {}
    /\ pc[c] = "save" => op[c] = "register" /\ seen[c] \in Phone \cup {None}
    /\ pc[c] = "verifyLink" =>
         \/ op[c] = "register" /\ seen[c] \in Phone \cup {None}
         \/ op[c] = "resendVerification"
    /\ pc[c] \in {"rate", "code", "stamp"} =>
         op[c] \in {"register", "sendPhoneOtp"} /\ seen[c] \in Phone
    /\ pc[c] = "phone" => op[c] = "sendPhoneOtp" /\ seen[c] \in Phone
    /\ pc[c] \in {"guess", "drop", "dropCode", "proven"} =>
         op[c] = "verifyPhoneOtp" /\ seen[c] \in Phone
    /\ pc[c] \in {"ttl", "wrong"} => op[c] = "verifyPhoneOtp" /\ seen[c] \in WrongRead
    /\ pc[c] = "sendCode" => op[c] \in {"login", "resendLoginOtp"}
    /\ pc[c] = "pending" => op[c] = "login"
    /\ pc[c] \in {"validate", "spend"} => op[c] \in {"loginWithCode", "verifyLoginOtp"}
    /\ pc[c] = "unpend" => op[c] = "verifyLoginOtp"
    /\ pc[c] = "revoke" => op[c] \in {"refresh", "logout"}
    /\ pc[c] \in {"sign", "store"} => op[c] \in Signing
    /\ pc[c] = "store" => second[c] \in Second
    /\ pc[c] = "unlink" => op[c] \in Linked
    /\ pc[c] = "scan" => op[c] = "resetPassword" /\ (seen[c] = None \/ seen[c] \subseteq Refresh)
    /\ pc[c] = "write" =>
         op[c] \in Writing /\ (op[c] \in Forgot => seen[c] \in {"pwd-reset", "pin-reset"})
    /\ pc[c] \in {"write", "unlink"} /\ op[c] = "resetPassword" => seen[c] = None
    /\ second[c] # None => pc[c] \in {"store", "done", "failed"}
    /\ pc[c] \notin {"idle", "save", "failed"} => user # None

\* Calls under way at the same time are known to overlap, and only calls that have begun do.
Met(c) ==
    /\ \A d \in Call \ {c} : Underway(c) /\ Underway(d) => Overlapped(c, d)
    /\ \A s \in met : c \in s => pc[c] # "idle"

\* Types, and where each call can be.
Control ==
    /\ TypeOK
    /\ keys # {} => user # None
    /\ \A c \in Call : Fits(c) /\ Met(c)

\* A call that begins: what it may be, present, read, and where it goes first.
Warrant(name, what, saw, place) ==
    \/ /\ name = "register" /\ user = None /\ what = {} /\ saw \in Phone \cup {None} /\ place = "save"
    \/ /\ user # None /\ what = {}
       /\ \/ /\ name = "sendPhoneOtp" /\ ~user.phoneVerified /\ saw \in Phone
             /\ place = IF user.phone = None THEN "phone" ELSE "rate"
          \/ /\ name = "verifyPhoneOtp" /\ ~user.phoneVerified /\ saw = user.phone /\ saw \in Phone
             /\ place = "guess"
          \/ name = "resendVerification" /\ place = "verifyLink"
          \/ name = "login" /\ place \in {"sendCode", "pending"}
          \/ name = "resendLoginOtp" /\ place = "sendCode"
          \/ name = "loginWithCode" /\ place = "validate"
          \/ name = "logout" /\ place = "revoke"
          \/ name \in Forgot /\ saw \in {"pwd-reset", "pin-reset"} /\ place = "write"
          \/ name \in {"changePassword", "switchToEmail"} /\ place = "write"
          \/ name = "setupAuthenticator" /\ user.method = "email" /\ place = "write"
          \/ name = "setPin" /\ ~user.pinSet /\ place = "write"
          \/ name \in {"changePin", "removePin"} /\ user.pinSet /\ saw = user.pin /\ place = "write"
    \/ /\ user # None /\ name = "confirmAuthenticator" /\ user.secret # None
       /\ what = {<<"totp", user.secret>>} /\ place = "write"
    \/ \E k \in keys : /\ user # None /\ what = {k}
                       /\ \/ name = "verifyEmail" /\ k[1] = "email-verify" /\ place = "write"
                          \/ name = "resetPassword" /\ k[1] = "pwd-reset" /\ saw = None /\ place = "write"
                          \/ name = "resetPin" /\ k[1] = "pin-reset" /\ place = "write"
                          \/ name = "verifyLoginOtp" /\ k[1] = "pending-2fa" /\ place = "validate"
                          \/ name = "refresh" /\ k \in Refresh /\ place = "revoke"

\* A call that starts begins with a warrant.
LEMMA StartWarrant ==
    ASSUME Control, NEW c \in Call, Start(c)
    PROVE  \E name, what, saw, place : Begin(c, name, what, saw, place) /\ Warrant(name, what, saw, place)
  <1>u. user \in Row \cup {None} /\ (keys # {} => user # None)
    BY DEF Control, TypeOK
  <1>1. CASE \E p \in Phone : SendPhoneOtp(c, p)
    BY <1>1 DEF SendPhoneOtp, Warrant
  <1>2. CASE \E p \in Phone \cup {None} : Register(c, p)
    BY <1>2 DEF Register, Warrant
  <1>3. CASE ResendVerification(c) \/ Login(c) \/ LoginWithCode(c)
    BY <1>3 DEF ResendVerification, Login, LoginWithCode, Warrant
  <1>4. CASE VerifyPhoneOtp(c)
    <2>1. user.phone \in Phone
      BY <1>4, <1>u DEF VerifyPhoneOtp, Row
    <2>2. QED
      BY <1>4, <2>1 DEF VerifyPhoneOtp, Warrant
  <1>5. CASE ForgotPassword(c) \/ ForgotPin(c)
    BY <1>5 DEF ForgotPassword, ForgotPin, Warrant, Forgot
  <1>6. CASE ChangePassword(c) \/ SetupAuthenticator(c) \/ SwitchToEmail(c)
    BY <1>6 DEF ChangePassword, SetupAuthenticator, SwitchToEmail, Warrant
  <1>7. CASE SetPin(c) \/ ChangePin(c) \/ RemovePin(c)
    BY <1>7 DEF SetPin, ChangePin, RemovePin, Warrant
  <1>8. CASE ConfirmAuthenticator(c)
    BY <1>8 DEF ConfirmAuthenticator, Warrant
  <1>9. ASSUME NEW k \in keys, ResendLoginOtp(c, k) \/ Logout(c, k)
        PROVE  \E name, what, saw, place : Begin(c, name, what, saw, place) /\ Warrant(name, what, saw, place)
    BY <1>9, <1>u DEF ResendLoginOtp, Logout, Warrant
  <1>10. ASSUME NEW k \in keys, \/ VerifyEmail(c, k) \/ VerifyLoginOtp(c, k) \/ RefreshTokens(c, k)
                                \/ ResetPassword(c, k) \/ ResetPin(c, k)
         PROVE  \E name, what, saw, place : Begin(c, name, what, saw, place) /\ Warrant(name, what, saw, place)
    BY <1>10, <1>u DEF VerifyEmail, VerifyLoginOtp, RefreshTokens, ResetPassword, ResetPin, Warrant
  <1>11. QED
    BY <1>1, <1>2, <1>3, <1>4, <1>5, <1>6, <1>7, <1>8, <1>9, <1>10 DEF Start

LEMMA InitControl == Init => Control
  <1> SUFFICES ASSUME Init PROVE Control
    OBVIOUS
  <1> USE NoneAssumption, EarlierAssumption, SecondAssumption, NothingAssumption
  <1>1. user \in Row \cup {None}
    <2>1. NewRow(Earlier, None) \in Row
      BY DEF NewRow, Row, Author
    <2>2. InUse \in Row /\ [InUse EXCEPT !.method = "authenticator", !.secret = Earlier] \in Row
      BY DEF InUse, Row, Author
    <2>3. QED
      BY <2>1, <2>2 DEF Init
  <1>2. keys \subseteq Key
    BY DEF Init, Key, Refresh, Link, Author, Second
  <1>3. TypeOK
    BY <1>1, <1>2 DEF Init, TypeOK, PhoneCodeInit, PhoneCodeTypeOK, Second, Place, Finished
  <1>4. keys # {} => user # None
    <2>1. NewRow(Earlier, None) \in Row
      BY DEF NewRow, Row, Author
    <2>2. InUse \in Row /\ [InUse EXCEPT !.method = "authenticator", !.secret = Earlier] \in Row
      BY DEF InUse, Row, Author
    <2>3. QED
      BY <2>1, <2>2 DEF Init
  <1>5. ASSUME NEW c \in Call PROVE Fits(c) /\ Met(c)
    BY DEF Init, Fits, Met, Underway, Finished
  <1>6. QED
    BY <1>3, <1>4, <1>5 DEF Control

\* The other calls stay where they are, and the row stays.
Rest(c) ==
    /\ \A d \in Call \ {c} : /\ op'[d] = op[d] /\ pc'[d] = pc[d] /\ seen'[d] = seen[d]
                             /\ cred'[d] = cred[d] /\ second'[d] = second[d]
    /\ user # None => user' # None

\* A step of c that leaves the others alone keeps Control when it does for c.
LEMMA RestControl ==
    ASSUME Control, NEW c \in Call, TypeOK', Rest(c), Fits(c)', met' = met,
           Underway(c), pc'[c] # "idle", keys' # {} => user' # None
    PROVE  Control'
  <1>1. ASSUME NEW d \in Call PROVE Fits(d)'
    <2>1. CASE d # c
      BY <2>1 DEF Rest, Control, Fits
    <2>2. QED
      BY <2>1
  <1>2. ASSUME NEW d \in Call PROVE Met(d)'
    <2>1. ASSUME NEW e \in Call, Underway(e)' PROVE Underway(e)
      BY <2>1 DEF Rest, Underway
    <2>2. ASSUME NEW e \in Call, pc[e] # "idle" PROVE pc'[e] # "idle"
      BY <2>2 DEF Rest
    <2>3. Met(d)
      BY DEF Control
    <2>4. \A e \in Call \ {d} : Underway(d)' /\ Underway(e)' => Overlapped(d, e)'
      BY <2>1, <2>3 DEF Met, Overlapped
    <2>5. \A s \in met' : d \in s => pc'[d] # "idle"
      BY <2>2, <2>3 DEF Met
    <2>6. QED
      BY <2>4, <2>5 DEF Met
  <1>3. QED
    BY <1>1, <1>2 DEF Control

\* A call that begins.
LEMMA BeginControl ==
    ASSUME Control, NEW c \in Call, NEW name, NEW what, NEW saw, NEW place,
           Begin(c, name, what, saw, place), Warrant(name, what, saw, place)
    PROVE  Control'
  <1>1. /\ pc[c] = "idle" /\ op' = [op EXCEPT ![c] = name] /\ cred' = [cred EXCEPT ![c] = @ \cup what]
        /\ seen' = [seen EXCEPT ![c] = saw] /\ pc' = [pc EXCEPT ![c] = place]
        /\ met' = met \cup {{c, d} : d \in {d \in Call : Underway(d)}}
        /\ UNCHANGED <<code, limited, user, keys, now, second, todo, owed>>
    BY DEF Begin, Present, Goto, codeVars
  <1>t. TypeOK /\ Fits(c) /\ Met(c)
    BY DEF Control
  <1>2. name \in Ops /\ place \in Place /\ what \in SUBSET Credential /\ place # "idle" /\ place \notin Finished
    <2>1. name \in Ops /\ place \in Place \ ({"idle"} \cup Finished)
      BY DEF Warrant, Ops, PinOps, Place, Forgot, Finished
    <2>2. what \in SUBSET Credential
      <3>1. user # None /\ user.secret # None => <<"totp", user.secret>> \in Credential
        BY <1>t DEF TypeOK, Row, Credential
      <3>2. \A k \in keys : k \in Credential
        BY <1>t DEF TypeOK, Credential
      <3>3. QED
        BY <3>1, <3>2 DEF Warrant
    <2>3. QED
      BY <2>1, <2>2
  <1>3. /\ op'[c] = name /\ pc'[c] = place /\ seen'[c] = saw /\ cred'[c] = what /\ second'[c] = None
    BY <1>1, <1>t DEF TypeOK, Fits
  <1>4. TypeOK'
    <2>1. {{c, d} : d \in {d \in Call : Underway(d)}} \subseteq SUBSET Call
      OBVIOUS
    <2>2. met' \subseteq SUBSET Call
      BY <1>1, <1>t, <2>1 DEF TypeOK
    <2>3. PhoneCodeTypeOK'
      BY <1>1, <1>t DEF TypeOK, PhoneCodeTypeOK
    <2>4. QED
      BY <1>1, <1>2, <1>t, <2>2, <2>3 DEF TypeOK
  <1>5. Rest(c)
    BY <1>1, <1>t DEF Rest, TypeOK
  <1>6. Fits(c)'
    BY <1>1, <1>3 DEF Warrant, Fits, Writing, PinOps, Linked, Forgot, Signing
  <1>7. ASSUME NEW d \in Call PROVE Fits(d)'
    <2>1. CASE d # c
      BY <2>1, <1>5 DEF Rest, Control, Fits
    <2>2. QED
      BY <2>1, <1>6
  <1>8. ASSUME NEW d \in Call PROVE Met(d)'
    <2>1. \A e \in Call \ {c} : Underway(e)' = Underway(e) /\ pc'[e] = pc[e]
      BY <1>5 DEF Rest, Underway
    <2>2. \A e \in Call \ {d} : Underway(d)' /\ Underway(e)' => Overlapped(d, e)'
      <3> SUFFICES ASSUME NEW e \in Call \ {d}, Underway(d)', Underway(e)' PROVE {d, e} \in met'
        BY DEF Overlapped
      <3>1. CASE d # c /\ e # c
        BY <3>1, <2>1, <1>1 DEF Control, Met, Overlapped
      <3>2. CASE d = c
        BY <3>2, <2>1, <1>1
      <3>3. CASE e = c
        <4>1. {c, d} \in met'
          BY <3>3, <2>1, <1>1
        <4>2. {c, d} = {d, e}
          BY <3>3
        <4>3. QED
          BY <4>1, <4>2
      <3>4. QED
        BY <3>1, <3>2, <3>3
    <2>3. ASSUME NEW s \in met', d \in s PROVE pc'[d] # "idle"
      <3>1. CASE d = c
        BY <3>1, <1>2, <1>3
      <3>2. CASE d # c /\ s \in met
        BY <3>2, <2>3, <2>1 DEF Control, Met
      <3>3. CASE d # c /\ s \in {{c, e} : e \in {e \in Call : Underway(e)}}
        BY <3>3, <2>3, <2>1 DEF Underway
      <3>4. QED
        BY <3>1, <3>2, <3>3, <1>1
    <2>4. QED
      BY <2>2, <2>3 DEF Met
  <1>9. QED
    BY <1>1, <1>4, <1>7, <1>8 DEF Control

\* A call goes on, and changes the row, what it has read or what it has presented.
Moves(c) ==
    /\ Underway(c)
    /\ \E place \in Place \ {"idle"} : Goto(c, place)
    /\ UNCHANGED <<keys, now, op, second, todo, owed, met>>
    /\ seen' = seen \/ \E s : seen' = [seen EXCEPT ![c] = s]
    /\ cred' = cred \/ \E k \in Credential : cred' = [cred EXCEPT ![c] = @ \cup {k}]
    /\ user' = user \/ user' \in Row

\* Steps about the phone number.
LEMMA PhoneControl ==
    ASSUME Control, NEW c \in Call, PhoneStep(c)
    PROVE  Control'
  <1>t. TypeOK /\ Fits(c) /\ Met(c) /\ (keys # {} => user # None)
    BY DEF Control
  <1> USE NoneAssumption, NothingAssumption, AttemptsAssumption
  <1>q. ASSUME Moves(c), PhoneCodeTypeOK', Fits(c)' PROVE Control'
    <2>1. PICK place \in Place \ {"idle"} : pc' = [pc EXCEPT ![c] = place]
      BY <1>q DEF Moves, Goto
    <2>2. pc'[c] = place /\ pc' \in [Call -> Place] /\ Underway(c)
      BY <1>q, <1>t, <2>1 DEF Moves, TypeOK
    <2>3. cred' \in [Call -> SUBSET Credential] /\ \A d \in Call \ {c} : cred'[d] = cred[d]
      BY <1>q, <1>t DEF TypeOK, Moves
    <2>4. seen' = [d \in Call |-> seen'[d]] /\ \A d \in Call \ {c} : seen'[d] = seen[d]
      BY <1>q, <1>t DEF TypeOK, Moves
    <2>5. UNCHANGED <<keys, now, op, second, todo, owed, met>> /\ user' \in Row \cup {None}
          /\ (user # None => user' # None)
      BY <1>q, <1>t DEF Moves, TypeOK
    <2>6. TypeOK'
      BY <1>q, <1>t, <2>2, <2>3, <2>4, <2>5 DEF TypeOK
    <2>7. Rest(c)
      BY <2>1, <2>3, <2>4, <2>5, <1>t DEF Rest, TypeOK
    <2>8. QED
      BY <1>q, <1>t, <2>2, <2>5, <2>6, <2>7, RestControl
  <1>c. UNCHANGED codeVars => PhoneCodeTypeOK'
    BY <1>t DEF TypeOK, PhoneCodeTypeOK, codeVars
  <1>1. CASE PhoneTaken(c) \/ NoCode(c) \/ TooManyGuesses(c)
    <2>1. /\ pc[c] \in {"phone", "guess"} /\ UNCHANGED <<user, keys, now, op, cred, seen, second, todo, owed, met>>
          /\ UNCHANGED codeVars /\ \E place \in {"failed", "drop"} : Goto(c, place) /\ (place = "drop" => pc[c] = "guess")
      BY <1>1 DEF PhoneTaken, NoCode, TooManyGuesses, Proceed
    <2>2. PICK place \in {"failed", "drop"} : Goto(c, place) /\ (place = "drop" => pc[c] = "guess")
      BY <2>1
    <2>3. pc'[c] = place
      BY <2>2, <1>t DEF Goto, TypeOK
    <2>4. Fits(c)'
      BY <2>1, <2>2, <2>3, <1>t DEF Fits
    <2>5. Moves(c)
      BY <2>1, <2>2, <2>4 DEF Moves, Underway, Place, Finished, Present
    <2>6. QED
      BY <1>q, <1>c, <2>1, <2>2, <2>3, <2>4, <2>5
  <1>2. CASE WritePhone(c)
    <2>1. /\ pc[c] = "phone" /\ UNCHANGED <<keys, now, op, cred, seen, second, todo, owed, met>>
          /\ UNCHANGED codeVars /\ Goto(c, "rate") /\ user' = [user EXCEPT !.phone = seen[c]]
      BY <1>2 DEF WritePhone, Write
    <2>2. user # None /\ user' \in Row /\ pc'[c] = "rate"
      BY <2>1, <1>t DEF TypeOK, Fits, Row, Goto
    <2>3. Fits(c)'
      BY <2>1, <2>2, <1>t DEF Fits
    <2>4. Moves(c)
      BY <2>1, <2>2, <2>3 DEF Moves, Underway, Place, Finished, Present
    <2>5. QED
      BY <1>q, <1>c, <2>1, <2>2, <2>3, <2>4
  <1>3. CASE CheckRate(c)
    <2>1. /\ pc[c] = "rate" /\ UNCHANGED <<user, keys, now, op, cred, seen, second, todo, owed, met>>
          /\ UNCHANGED codeVars /\ \E place \in {"code", "sign", "failed"} : Goto(c, place) /\ (place = "sign" => op[c] = "register")
      BY <1>3 DEF CheckRate, Proceed
    <2>2. PICK place \in {"code", "sign", "failed"} : Goto(c, place) /\ (place = "sign" => op[c] = "register")
      BY <2>1
    <2>3. pc'[c] = place
      BY <2>2, <1>t DEF Goto, TypeOK
    <2>4. Fits(c)'
      BY <2>1, <2>2, <2>3, <1>t DEF Fits, Signing
    <2>5. Moves(c)
      BY <2>1, <2>2, <2>4 DEF Moves, Underway, Place, Finished, Present
    <2>6. QED
      BY <1>q, <1>c, <2>1, <2>2, <2>3, <2>4, <2>5
  <1>4. CASE SendCode(c)
    <2>1. /\ pc[c] = "code" /\ UNCHANGED <<user, keys, now, op, cred, seen, second, todo, owed, met>>
          /\ Goto(c, "stamp") /\ StoreCode(c, seen[c])
      BY <1>4 DEF SendCode, Others
    <2>2. PhoneCodeTypeOK' /\ pc'[c] = "stamp"
      BY <2>1, <1>t DEF StoreCode, PhoneCodeTypeOK, StoredCode, TypeOK, Goto, Fits
    <2>3. Fits(c)'
      BY <2>1, <2>2, <1>t DEF Fits
    <2>4. Moves(c)
      BY <2>1, <2>2, <2>3 DEF Moves, Underway, Place, Finished, Present
    <2>5. QED
      BY <1>q, <2>1, <2>2, <2>3, <2>4
  <1>5. CASE StampRate(c)
    <2>1. /\ pc[c] = "stamp" /\ UNCHANGED <<user, keys, now, op, cred, seen, second, todo, owed, met>>
          /\ Limit(seen[c]) /\ \E place \in {"sign", "done"} : Goto(c, place) /\ (place = "sign" => op[c] = "register")
      BY <1>5 DEF StampRate, Others
    <2>2. PICK place \in {"sign", "done"} : Goto(c, place) /\ (place = "sign" => op[c] = "register")
      BY <2>1
    <2>3. PhoneCodeTypeOK' /\ pc'[c] = place
      BY <2>1, <2>2, <1>t DEF Limit, PhoneCodeTypeOK, TypeOK, Goto, Fits
    <2>4. Fits(c)'
      BY <2>1, <2>2, <2>3, <1>t DEF Fits, Signing
    <2>5. Moves(c)
      BY <2>1, <2>2, <2>3, <2>4 DEF Moves, Underway, Place, Finished, Present
    <2>6. QED
      BY <1>q, <2>1, <2>2, <2>3, <2>4, <2>5
  <1>6. CASE WrongGuess(c)
    <2> DEFINE read == [phone |-> seen[c], stored |-> code[seen[c]]]
    <2>1. /\ pc[c] = "guess" /\ UNCHANGED <<user, keys, now, op, cred, second, todo, owed, met>>
          /\ UNCHANGED codeVars /\ Goto(c, "ttl") /\ seen' = [seen EXCEPT ![c] = read]
          /\ code[seen[c]] # None /\ code[seen[c]].attempts < MaxAttempts
      BY <1>6 DEF WrongGuess, Others
    <2>2. code[seen[c]] \in StoredCode /\ seen[c] \in Phone
      BY <2>1, <1>t DEF TypeOK, PhoneCodeTypeOK, Fits
    <2>3. read \in WrongRead
      BY <2>1, <2>2 DEF WrongRead
    <2>4. pc'[c] = "ttl" /\ seen'[c] = read
      BY <2>1, <1>t DEF TypeOK, Goto
    <2> HIDE DEF read
    <2>5. Fits(c)'
      BY <2>1, <2>3, <2>4, <1>t DEF Fits
    <2>6. Moves(c)
      BY <2>1, <2>5 DEF Moves, Underway, Place, Finished, Present
    <2>7. QED
      BY <1>q, <1>c, <2>1, <2>2, <2>3, <2>4, <2>5, <2>6
  <1>7. CASE RightGuess(c)
    <2>1. /\ pc[c] = "guess" /\ UNCHANGED <<user, keys, now, op, seen, second, todo, owed, met>>
          /\ UNCHANGED codeVars /\ Goto(c, "dropCode") /\ Present(c, {<<"phone-otp", <<seen[c], code[seen[c]].otp>>>>})
          /\ code[seen[c]] # None
      BY <1>7 DEF RightGuess, Others
    <2>2. code[seen[c]] \in StoredCode /\ seen[c] \in Phone
      BY <2>1, <1>t DEF TypeOK, PhoneCodeTypeOK, Fits
    <2>3. <<"phone-otp", <<seen[c], code[seen[c]].otp>>>> \in Credential
      BY <2>2 DEF Credential, StoredCode
    <2>4. pc'[c] = "dropCode"
      BY <2>1, <1>t DEF TypeOK, Goto
    <2>5. Fits(c)'
      BY <2>1, <2>4, <1>t DEF Fits
    <2>6. Moves(c)
      BY <2>1, <2>3, <2>5 DEF Moves, Underway, Place, Finished, Present
    <2>7. QED
      BY <1>q, <1>c, <2>1, <2>2, <2>3, <2>4, <2>5, <2>6
  <1>8. CASE Drop(c)
    <2>1. /\ pc[c] \in {"drop", "dropCode"} /\ UNCHANGED <<user, keys, now, op, cred, seen, second, todo, owed, met>>
          /\ DropCode(seen[c]) /\ \E place \in {"proven", "failed"} : Goto(c, place)
      BY <1>8 DEF Drop, Others
    <2>2. PICK place \in {"proven", "failed"} : Goto(c, place)
      BY <2>1
    <2>3. PhoneCodeTypeOK' /\ pc'[c] = place
      BY <2>1, <2>2, <1>t DEF DropCode, PhoneCodeTypeOK, TypeOK, Goto, Fits
    <2>4. Fits(c)'
      BY <2>1, <2>2, <2>3, <1>t DEF Fits
    <2>5. Moves(c)
      BY <2>1, <2>2, <2>3, <2>4 DEF Moves, Underway, Place, Finished, Present
    <2>6. QED
      BY <1>q, <2>1, <2>2, <2>3, <2>4, <2>5
  <1>9. CASE CountGuess(c)
    <2>1. /\ pc[c] = "ttl" /\ UNCHANGED <<user, keys, now, op, cred, seen, second, todo, owed, met>>
          /\ WriteBack(seen[c].phone, seen[c].stored) /\ Goto(c, "wrong")
      BY <1>9 DEF CountGuess, Others
    <2>2. seen[c] \in WrongRead /\ pc'[c] = "wrong"
      BY <2>1, <1>t DEF Fits, Goto, TypeOK
    <2>3. [seen[c].stored EXCEPT !.attempts = @ + 1] \in StoredCode
      BY <2>2 DEF WrongRead, StoredCode
    <2>4. PhoneCodeTypeOK'
      BY <2>1, <2>2, <2>3, <1>t DEF WriteBack, PhoneCodeTypeOK, TypeOK, WrongRead
    <2>5. Fits(c)'
      BY <2>1, <2>2, <1>t DEF Fits
    <2>6. Moves(c)
      BY <2>1, <2>4, <2>5 DEF Moves, Underway, Place, Finished, Present
    <2>7. QED
      BY <1>q, <2>1, <2>2, <2>3, <2>4, <2>5, <2>6
  <1>10. CASE MarkVerified(c)
    <2>1. /\ pc[c] = "proven" /\ UNCHANGED <<keys, now, op, cred, seen, second, todo, owed, met>>
          /\ UNCHANGED codeVars /\ Goto(c, "done") /\ user' = [user EXCEPT !.phoneVerified = TRUE]
      BY <1>10 DEF MarkVerified, Write
    <2>2. user # None /\ user' \in Row /\ pc'[c] = "done"
      BY <2>1, <1>t DEF TypeOK, Fits, Row, Goto
    <2>3. Fits(c)'
      BY <2>1, <2>2, <1>t DEF Fits
    <2>4. Moves(c)
      BY <2>1, <2>2, <2>3 DEF Moves, Underway, Place, Finished, Present
    <2>5. QED
      BY <1>q, <1>c, <2>1, <2>2, <2>3, <2>4
  <1>11. QED
    BY <1>1, <1>2, <1>3, <1>4, <1>5, <1>6, <1>7, <1>8, <1>9, <1>10 DEF PhoneStep

LEMMA LinksAreKeys ==
    ASSUME NEW kind \in {"pwd-reset", "email-verify", "pin-reset", "pending-2fa"}, NEW c \in Call
    PROVE  <<kind, c>> \in Key /\ <<kind, c>> \in Link
  BY DEF Key, Link, Author

\* Steps about sessions.
LEMMA SessionControl ==
    ASSUME Control, NEW c \in Call, SessionStep(c)
    PROVE  Control'
  <1>t. TypeOK /\ Fits(c) /\ Met(c) /\ (keys # {} => user # None)
    BY DEF Control
  <1> USE NoneAssumption, NothingAssumption
  <1>1. CASE SendEmailOtp(c)
    <2>1. /\ pc[c] = "sendCode" /\ UNCHANGED <<code, limited, keys, now, op, cred, seen, second, todo, owed, met>>
          /\ user' = [user EXCEPT !.emailOtp = c]
          /\ pc' = [pc EXCEPT ![c] = IF op[c] = "login" THEN "pending" ELSE "done"]
      BY <1>1 DEF SendEmailOtp, Write, Goto, codeVars
    <2>2. user' \in Row /\ user # None /\ pc'[c] = IF op[c] = "login" THEN "pending" ELSE "done"
      BY <2>1, <1>t DEF TypeOK, Row, Author, Fits
    <2>3. TypeOK'
      BY <2>1, <2>2, <1>t DEF TypeOK, PhoneCodeTypeOK, Place, Finished
    <2>4. Rest(c) /\ Fits(c)' /\ Underway(c)
      BY <2>1, <2>2, <1>t DEF Rest, Fits, TypeOK, Underway, Finished
    <2>5. QED
      BY <2>1, <2>2, <2>3, <2>4, RestControl
  <1>2. CASE KeepPending(c)
    <2>1. /\ pc[c] = "pending" /\ UNCHANGED <<code, limited, user, now, op, cred, seen, second, todo, owed, met>>
          /\ keys' = keys \cup {<<"pending-2fa", c>>} /\ pc' = [pc EXCEPT ![c] = "done"]
      BY <1>2 DEF KeepPending, SetKeys, Goto, codeVars
    <2>2. keys' \subseteq Key /\ user # None /\ pc'[c] = "done"
      BY <2>1, <1>t, LinksAreKeys DEF TypeOK, Fits
    <2>3. TypeOK'
      BY <2>1, <2>2, <1>t DEF TypeOK, PhoneCodeTypeOK, Place, Finished
    <2>4. Rest(c) /\ Fits(c)' /\ Underway(c)
      BY <2>1, <2>2, <1>t DEF Rest, Fits, TypeOK, Underway, Finished
    <2>5. QED
      BY <2>1, <2>2, <2>3, <2>4, RestControl
  <1>3. CASE ValidateEmailed(c)
    <2>1. /\ pc[c] = "validate" /\ UNCHANGED <<code, limited, user, keys, now, op, seen, second, todo, owed, met>>
          /\ user.emailOtp # None /\ pc' = [pc EXCEPT ![c] = "spend"]
          /\ cred' = [cred EXCEPT ![c] = @ \cup {<<"email-otp", user.emailOtp>>}]
      BY <1>3 DEF ValidateEmailed, Present, Others, Goto, codeVars
    <2>2. <<"email-otp", user.emailOtp>> \in Credential /\ pc'[c] = "spend"
      BY <2>1, <1>t DEF TypeOK, Fits, Row, Credential
    <2>3. TypeOK'
      BY <2>1, <2>2, <1>t DEF TypeOK, PhoneCodeTypeOK, Place, Finished
    <2>4. Rest(c) /\ Fits(c)' /\ Underway(c)
      BY <2>1, <2>2, <1>t DEF Rest, Fits, TypeOK, Underway, Finished
    <2>5. QED
      BY <2>1, <2>2, <2>3, <2>4, <1>t, RestControl
  <1>4. CASE ValidateAuthenticator(c) \/ ValidateRefused(c)
    <2>1. /\ pc[c] = "validate" /\ UNCHANGED <<code, limited, user, keys, now, op, cred, seen, second, todo, owed, met>>
          /\ \E place \in {"failed", AfterCode(c)} : pc' = [pc EXCEPT ![c] = place]
      BY <1>4 DEF ValidateAuthenticator, ValidateRefused, Proceed, Goto, codeVars
    <2>2. pc' \in [Call -> Place] /\ pc'[c] \in {"failed", AfterCode(c)}
      BY <2>1, <1>t DEF TypeOK, Place, Finished, AfterCode
    <2>3. TypeOK'
      BY <2>1, <2>2, <1>t DEF TypeOK, PhoneCodeTypeOK
    <2>4. Rest(c) /\ Fits(c)' /\ Underway(c) /\ pc'[c] # "idle"
      BY <2>1, <2>2, <1>t DEF Rest, Fits, TypeOK, Underway, Finished, AfterCode, Signing
    <2>5. QED
      BY <2>1, <2>3, <2>4, <1>t, RestControl
  <1>5. CASE SpendCode(c)
    <2>1. /\ pc[c] = "spend" /\ UNCHANGED <<code, limited, keys, now, op, cred, seen, second, todo, owed, met>>
          /\ user' = [user EXCEPT !.emailOtp = None] /\ pc' = [pc EXCEPT ![c] = AfterCode(c)]
      BY <1>5 DEF SpendCode, Write, Goto, codeVars
    <2>2. user' \in Row /\ user # None /\ pc' \in [Call -> Place] /\ pc'[c] = AfterCode(c)
      BY <2>1, <1>t DEF TypeOK, Row, Fits, Place, AfterCode
    <2>3. TypeOK'
      BY <2>1, <2>2, <1>t DEF TypeOK, PhoneCodeTypeOK
    <2>4. Rest(c) /\ Fits(c)' /\ Underway(c) /\ pc'[c] # "idle"
      BY <2>1, <2>2, <1>t DEF Rest, Fits, TypeOK, Underway, Finished, AfterCode, Signing
    <2>5. QED
      BY <2>1, <2>2, <2>3, <2>4, RestControl
  <1>6. CASE Unpend(c) \/ Revoke(c)
    <2>1. /\ pc[c] \in {"unpend", "revoke"}
          /\ UNCHANGED <<code, limited, user, now, op, cred, seen, second, todo, owed, met>>
          /\ keys' \subseteq keys
          /\ \E place \in {"sign", "done"} : pc' = [pc EXCEPT ![c] = place] /\ (place = "sign" => op[c] # "logout")
      BY <1>6, <1>t DEF Unpend, Revoke, SetKeys, Goto, codeVars, Fits
    <2>2. keys' \subseteq Key /\ pc' \in [Call -> Place] /\ pc'[c] \in {"sign", "done"} /\ (pc'[c] = "sign" => op[c] # "logout")
      BY <2>1, <1>t DEF TypeOK, Place, Finished
    <2>3. TypeOK'
      BY <2>1, <2>2, <1>t DEF TypeOK, PhoneCodeTypeOK
    <2>4. Rest(c) /\ Fits(c)' /\ Underway(c) /\ pc'[c] # "idle"
      BY <2>1, <2>2, <1>t DEF Rest, Fits, TypeOK, Underway, Finished, Signing
    <2>5. QED
      BY <2>1, <2>3, <2>4, <1>t, RestControl
  <1>7. CASE Sign(c)
    <2>1. /\ pc[c] = "sign" /\ UNCHANGED <<code, limited, user, keys, now, op, cred, seen, todo, owed, met>>
          /\ second' = [second EXCEPT ![c] = now] /\ pc' = [pc EXCEPT ![c] = "store"]
      BY <1>7 DEF Sign, Goto, codeVars
    <2>2. second'[c] = now /\ now \in Second /\ pc'[c] = "store"
      BY <2>1, <1>t DEF TypeOK
    <2>3. TypeOK'
      BY <2>1, <2>2, <1>t DEF TypeOK, PhoneCodeTypeOK, Place
    <2>4. Rest(c) /\ Fits(c)' /\ Underway(c)
      BY <2>1, <2>2, <1>t DEF Rest, Fits, TypeOK, Underway, Finished
    <2>5. QED
      BY <2>1, <2>2, <2>3, <2>4, <1>t, RestControl
  <1>8. CASE Store(c)
    <2> DEFINE k == <<"refresh", second[c]>>
    <2>1. /\ pc[c] = "store" /\ UNCHANGED <<code, limited, user, now, op, cred, seen, second, met>>
          /\ keys' = keys \cup {k} /\ pc' = [pc EXCEPT ![c] = "done"]
          /\ todo' = [d \in Call |-> todo[d] \ {k}] /\ owed' = [d \in Call |-> owed[d] \ {k}]
      BY <1>8 DEF Store, Goto, codeVars
    <2>2. k \in Key /\ user # None /\ pc'[c] = "done"
      BY <2>1, <1>t DEF Fits, Key, Refresh, TypeOK
    <2>3. todo' \in [Call -> SUBSET Refresh] /\ owed' \in [Call -> SUBSET Refresh]
      BY <2>1, <1>t DEF TypeOK
    <2> HIDE DEF k
    <2>4. TypeOK'
      BY <2>1, <2>2, <2>3, <1>t DEF TypeOK, PhoneCodeTypeOK, Place, Finished
    <2>5. Rest(c) /\ Fits(c)' /\ Underway(c)
      BY <2>1, <2>2, <1>t DEF Rest, Fits, TypeOK, Underway, Finished
    <2>6. QED
      BY <2>1, <2>2, <2>4, <2>5, RestControl
  <1>9. QED
    BY <1>1, <1>2, <1>3, <1>4, <1>5, <1>6, <1>7, <1>8 DEF SessionStep

\* What an update leaves is a row.
LEMMA WrittenRow ==
    ASSUME user \in Row, NEW c \in Call, op[c] \in Writing \ Forgot
    PROVE  Written(c) \in Row
  <1>1. CASE op[c] \in PinOps
    BY <1>1 DEF Written, PinOps, Row, Author
  <1>2. CASE op[c] \in {"resetPassword", "changePassword", "verifyEmail"}
    BY <1>2 DEF Written, Row, Author
  <1>3. CASE op[c] \in {"setupAuthenticator", "confirmAuthenticator", "switchToEmail"}
    BY <1>3 DEF Written, Row, Author
  <1>4. QED
    BY <1>1, <1>2, <1>3 DEF Writing, Forgot, Linked, PinOps

\* Steps of the registration, of links and of resets.
LEMMA AccountControl ==
    ASSUME Control, NEW c \in Call, AccountStep(c)
    PROVE  Control'
  <1>t. TypeOK /\ Fits(c) /\ Met(c) /\ (keys # {} => user # None)
    BY DEF Control
  <1> USE NoneAssumption, NothingAssumption
  <1>1. CASE Save(c)
    <2>1. /\ pc[c] = "save" /\ UNCHANGED <<code, limited, keys, now, op, cred, seen, second, todo, owed, met>>
          /\ \/ user = None /\ user' = NewRow(c, seen[c]) /\ pc' = [pc EXCEPT ![c] = "verifyLink"]
             \/ user # None /\ user' = user /\ pc' = [pc EXCEPT ![c] = "failed"]
      BY <1>1 DEF Save, Write, Proceed, Goto, codeVars
    <2>2. user' \in Row
      <3>1. \A p \in Phone \cup {None} : NewRow(c, p) \in Row
        BY DEF NewRow, Row, Author
      <3>2. QED
        BY <2>1, <3>1, <1>t DEF TypeOK, Fits
    <2>3. pc' \in [Call -> Place] /\ pc'[c] \in {"verifyLink", "failed"}
      BY <2>1, <1>t DEF TypeOK, Place, Finished
    <2>4. TypeOK'
      BY <2>1, <2>2, <2>3, <1>t DEF TypeOK, PhoneCodeTypeOK
    <2>5. Rest(c) /\ Fits(c)' /\ Underway(c) /\ pc'[c] # "idle"
      BY <2>1, <2>2, <2>3, <1>t DEF Rest, Fits, TypeOK, Underway, Finished
    <2>6. QED
      BY <2>1, <2>2, <2>4, <2>5, RestControl
  <1>2. CASE CreateVerifyLink(c)
    <2>1. /\ pc[c] = "verifyLink" /\ UNCHANGED <<code, limited, user, now, op, cred, seen, second, todo, owed, met>>
          /\ keys' = keys \cup {<<"email-verify", c>>}
          /\ pc' = [pc EXCEPT ![c] = IF op[c] # "register" THEN "done" ELSE IF seen[c] = None THEN "sign" ELSE "rate"]
      BY <1>2 DEF CreateVerifyLink, SetKeys, Goto, codeVars
    <2>2. keys' \subseteq Key /\ user # None
      BY <2>1, <1>t, LinksAreKeys DEF TypeOK, Fits
    <2>3. /\ pc' \in [Call -> Place]
          /\ pc'[c] = IF op[c] # "register" THEN "done" ELSE IF seen[c] = None THEN "sign" ELSE "rate"
      BY <2>1, <1>t DEF TypeOK, Place, Finished
    <2>4. TypeOK'
      BY <2>1, <2>2, <2>3, <1>t DEF TypeOK, PhoneCodeTypeOK
    <2>5. Rest(c) /\ Underway(c) /\ pc'[c] # "idle"
      BY <2>1, <2>3, <1>t DEF Rest, TypeOK, Underway, Finished
    <2>6. Fits(c)'
      BY <2>1, <2>2, <2>3, <1>t DEF Fits, Signing
    <2>7. QED
      BY <2>1, <2>2, <2>4, <2>5, <2>6, RestControl
  <1>3. CASE UpdateRow(c)
    <2>1. /\ pc[c] = "write" /\ op[c] \in Writing \ Forgot
          /\ UNCHANGED <<code, limited, keys, now, op, cred, seen, second, todo, owed, met>>
          /\ user' = Written(c)
          /\ pc' = [pc EXCEPT ![c] = IF op[c] \in Linked THEN "unlink" ELSE "done"]
      BY <1>3, <1>t DEF UpdateRow, Write, Goto, codeVars, Fits, Linked, Forgot
    <2>2. user \in Row
      BY <2>1, <1>t DEF TypeOK, Fits
    <2>3. Written(c) \in Row
      BY <2>1, <2>2, WrittenRow
    <2>4. pc' \in [Call -> Place] /\ pc'[c] = IF op[c] \in Linked THEN "unlink" ELSE "done"
      BY <2>1, <1>t DEF TypeOK, Place, Finished
    <2>5. TypeOK'
      BY <2>1, <2>3, <2>4, <1>t DEF TypeOK, PhoneCodeTypeOK
    <2>6. Rest(c) /\ Fits(c)' /\ Underway(c) /\ pc'[c] # "idle"
      BY <2>1, <2>2, <2>3, <2>4, <1>t DEF Rest, Fits, TypeOK, Underway, Finished
    <2>7. QED
      BY <2>1, <2>2, <2>3, <2>5, <2>6, RestControl
  <1>4. CASE StoreLink(c)
    <2>1. /\ pc[c] = "write" /\ op[c] \in Forgot
          /\ UNCHANGED <<code, limited, user, now, op, cred, seen, second, todo, owed, met>>
          /\ keys' = keys \cup {<<seen[c], c>>} /\ pc' = [pc EXCEPT ![c] = "done"]
      BY <1>4 DEF StoreLink, SetKeys, Goto, codeVars, Forgot
    <2>2. keys' \subseteq Key /\ user # None /\ pc'[c] = "done"
      BY <2>1, <1>t, LinksAreKeys DEF TypeOK, Fits
    <2>3. TypeOK'
      BY <2>1, <2>2, <1>t DEF TypeOK, PhoneCodeTypeOK, Place, Finished
    <2>4. Rest(c) /\ Fits(c)' /\ Underway(c)
      BY <2>1, <2>2, <1>t DEF Rest, Fits, TypeOK, Underway, Finished
    <2>5. QED
      BY <2>1, <2>2, <2>3, <2>4, RestControl
  <1>5. CASE Unlink(c)
    <2> DEFINE found == IF op[c] = "resetPassword" THEN keys \cap Refresh ELSE {}
    <2>1. /\ pc[c] = "unlink" /\ keys' = keys \ cred[c]
          /\ UNCHANGED <<code, limited, user, now, op, cred, seen, second, met>>
          /\ todo' = [todo EXCEPT ![c] = found] /\ owed' = [owed EXCEPT ![c] = todo'[c]]
          /\ pc' = [pc EXCEPT ![c] = IF op[c] = "resetPassword" THEN "scan" ELSE "done"]
      BY <1>5 DEF Unlink, Goto, codeVars
    <2>2. todo' \in [Call -> SUBSET Refresh] /\ owed' \in [Call -> SUBSET Refresh] /\ keys' \subseteq Key
      BY <2>1, <1>t DEF TypeOK
    <2>3. pc' \in [Call -> Place] /\ pc'[c] = IF op[c] = "resetPassword" THEN "scan" ELSE "done"
      BY <2>1, <1>t DEF TypeOK, Place, Finished
    <2>4. TypeOK'
      BY <2>1, <2>2, <2>3, <1>t DEF TypeOK, PhoneCodeTypeOK
    <2>5. Rest(c) /\ Underway(c) /\ pc'[c] # "idle"
      BY <2>1, <2>3, <1>t DEF Rest, TypeOK, Underway, Finished
    <2>6. op[c] = "resetPassword" => seen[c] = None
      BY <2>1, <1>t DEF Fits
    <2>7. Fits(c)'
      BY <2>1, <2>3, <2>6, <1>t DEF Fits
    <2>8. QED
      BY <2>1, <2>2, <2>4, <2>5, <2>7, <1>t, RestControl
  <1>6. CASE \E page \in SUBSET Refresh : ScanPage(c, page)
    <2>1. PICK page \in SUBSET Refresh : ScanPage(c, page)
      BY <1>6
    <2>2. /\ pc[c] = "scan" /\ UNCHANGED <<code, limited, user, keys, now, op, pc, cred, second, owed, met>>
          /\ seen' = [seen EXCEPT ![c] = page] /\ todo' = [todo EXCEPT ![c] = @ \ page]
      BY <2>1 DEF ScanPage, codeVars
    <2>3. todo' \in [Call -> SUBSET Refresh]
      BY <2>2, <1>t DEF TypeOK
    <2>4. TypeOK'
      BY <2>2, <2>3, <1>t DEF TypeOK, PhoneCodeTypeOK
    <2>5. Rest(c) /\ Fits(c)' /\ Underway(c)
      BY <2>2, <1>t DEF Rest, Fits, TypeOK, Underway, Finished
    <2>6. QED
      BY <2>2, <2>4, <2>5, <1>t, RestControl
  <1>7. CASE DeletePage(c)
    <2>1. /\ pc[c] = "scan" /\ UNCHANGED <<code, limited, user, now, op, pc, cred, second, todo, owed, met>>
          /\ keys' = keys \ seen[c] /\ seen' = [seen EXCEPT ![c] = None]
      BY <1>7 DEF DeletePage, codeVars
    <2>2. TypeOK'
      BY <2>1, <1>t DEF TypeOK, PhoneCodeTypeOK
    <2>3. Rest(c) /\ Fits(c)' /\ Underway(c)
      BY <2>1, <1>t DEF Rest, Fits, TypeOK, Underway, Finished
    <2>4. QED
      BY <2>1, <2>2, <2>3, <1>t, RestControl
  <1>8. CASE ScanEnds(c)
    <2>1. /\ pc[c] = "scan" /\ UNCHANGED <<code, limited, user, keys, now, op, cred, seen, second, todo, owed, met>>
          /\ pc' = [pc EXCEPT ![c] = "done"]
      BY <1>8 DEF ScanEnds, Proceed, Goto, codeVars
    <2>2. TypeOK' /\ pc'[c] = "done"
      BY <2>1, <1>t DEF TypeOK, PhoneCodeTypeOK, Place, Finished
    <2>3. Rest(c) /\ Fits(c)' /\ Underway(c)
      BY <2>1, <2>2, <1>t DEF Rest, Fits, TypeOK, Underway, Finished
    <2>4. QED
      BY <2>1, <2>2, <2>3, <1>t, RestControl
  <1>9. QED
    BY <1>1, <1>2, <1>3, <1>4, <1>5, <1>6, <1>7, <1>8 DEF AccountStep

\* A call that dies.
LEMMA CrashControl ==
    ASSUME Control, NEW c \in Call, Crash(c)
    PROVE  Control'
  <1>t. TypeOK /\ Fits(c) /\ Met(c) /\ (keys # {} => user # None)
    BY DEF Control
  <1>1. /\ Underway(c) /\ UNCHANGED <<code, limited, user, keys, now, op, cred, second, met>>
        /\ seen' = [seen EXCEPT ![c] = None] /\ todo' = [todo EXCEPT ![c] = {}] /\ owed' = [owed EXCEPT ![c] = {}]
        /\ pc' = [pc EXCEPT ![c] = "failed"]
    BY DEF Crash, Goto, codeVars
  <1>2. TypeOK' /\ pc'[c] = "failed"
    BY <1>1, <1>t DEF TypeOK, PhoneCodeTypeOK, Place, Finished
  <1>3. Rest(c) /\ Fits(c)'
    BY <1>1, <1>2, <1>t DEF Rest, Fits, TypeOK, Underway, Finished
  <1>4. QED
    BY <1>1, <1>2, <1>3, <1>t, RestControl

\* The clock and the times to live.
LEMMA ClockControl ==
    ASSUME Control, Tick \/ (\E p \in Phone : PhoneKeyExpires(p))
    PROVE  Control'
  <1>t. TypeOK
    BY DEF Control
  <1>1. CASE Tick
    <2>1. /\ now < MaxSecond /\ now' = now + 1
          /\ UNCHANGED <<code, limited, user, keys, op, pc, cred, seen, second, todo, owed, met>>
      BY <1>1 DEF Tick, codeVars, callVars
    <2>2. now' \in Second
      BY <2>1, <1>t, SecondAssumption DEF TypeOK, Second
    <2>3. TypeOK'
      BY <2>1, <2>2, <1>t DEF TypeOK, PhoneCodeTypeOK
    <2>4. QED
      BY <2>1, <2>3 DEF Control, Fits, Met, Underway, Overlapped
  <1>2. CASE \E p \in Phone : PhoneKeyExpires(p)
    <2>1. PICK p \in Phone : PhoneKeyExpires(p)
      BY <1>2
    <2>2. UNCHANGED <<user, keys, now, op, pc, cred, seen, second, todo, owed, met>>
      BY <2>1 DEF PhoneKeyExpires, callVars
    <2>3. PhoneCodeTypeOK'
      BY <2>1, <1>t DEF PhoneKeyExpires, CodeExpires, LimitExpires, DropCode, TypeOK, PhoneCodeTypeOK
    <2>4. TypeOK'
      BY <2>2, <2>3, <1>t DEF TypeOK
    <2>5. QED
      BY <2>2, <2>4 DEF Control, Fits, Met, Underway, Overlapped
  <1>3. QED
    BY <1>1, <1>2

LEMMA NextControl == Control /\ [Next]_vars => Control'
  <1> SUFFICES ASSUME Control, [Next]_vars PROVE Control'
    OBVIOUS
  <1>1. CASE UNCHANGED vars
    BY <1>1 DEF vars, Control, TypeOK, PhoneCodeTypeOK, Fits, Met, Underway, Overlapped
  <1>2. ASSUME NEW c \in Call, Start(c) PROVE Control'
    BY <1>2, StartWarrant, BeginControl
  <1>3. QED
    BY <1>1, <1>2, PhoneControl, SessionControl, AccountControl, CrashControl, ClockControl DEF Next

LEMMA ControlHolds == Spec => []Control
  BY InitControl, NextControl, PTL DEF Spec

\* The variables have their types: the row is one of the table's, a call is at one of its
\* places, a presented credential is one that exists.
THEOREM AccountTypes == Spec => []TypeOK
  <1>1. Control => TypeOK
    BY DEF Control
  <1>2. QED
    BY <1>1, ControlHolds, PTL

-----------------------------------------------------------------------------
(* Resets of the password *)

Functions ==
    /\ op = [c \in Call |-> op[c]] /\ pc = [c \in Call |-> pc[c]] /\ seen = [c \in Call |-> seen[c]]
    /\ todo = [c \in Call |-> todo[c]] /\ owed = [c \in Call |-> owed[c]]

\* Where a reset can be.
ResetPlace == {"idle", "write", "unlink", "scan", "done", "failed"}

\* Only a reset scans, only links are stored by the calls that ask for one, and what a scan
\* owes are refresh tokens.
Placed(c) ==
    /\ op[c] = "resetPassword" => pc[c] \in ResetPlace
    /\ pc[c] = "scan" => op[c] = "resetPassword"
    /\ pc[c] = "write" /\ op[c] \in Forgot => seen[c] \in {"pwd-reset", "pin-reset"}
    /\ owed[c] \subseteq Refresh

\* A token that a scan owes and that is alive has still to be returned, or is on the page
\* that is about to be deleted.
Pursued(c) ==
    /\ pc[c] = "scan" =>
         \A k \in owed[c] \cap keys : k \in todo[c] \/ (seen[c] # None /\ k \in seen[c])
    /\ pc[c] = "done" /\ op[c] = "resetPassword" => owed[c] \cap keys = {}

Inv == Functions /\ \A c \in Call : Placed(c) /\ Pursued(c)

\* Calls that do not act keep their place, and no refresh token appears.
OthersRest(c) ==
    /\ Functions'
    /\ \A d \in Call \ {c} : /\ op'[d] = op[d] /\ pc'[d] = pc[d] /\ seen'[d] = seen[d]
                             /\ todo'[d] = todo[d] /\ owed'[d] = owed[d]
    /\ keys' \cap Refresh \subseteq keys

LEMMA RestStep ==
    ASSUME Inv, NEW c \in Call, OthersRest(c), Placed(c)', Pursued(c)'
    PROVE  Inv'
  <1>1. ASSUME NEW d \in Call \ {c} PROVE Placed(d)' /\ Pursued(d)'
    <2>1. /\ op'[d] = op[d] /\ pc'[d] = pc[d] /\ seen'[d] = seen[d]
          /\ todo'[d] = todo[d] /\ owed'[d] = owed[d]
      BY DEF OthersRest
    <2>2. Placed(d) /\ Pursued(d)
      BY DEF Inv
    <2>3. Placed(d)'
      BY <2>1, <2>2 DEF Placed
    <2>4. owed'[d] \cap keys' \subseteq owed[d] \cap keys
      BY <2>1, <2>2 DEF OthersRest, Placed
    <2>5. Pursued(d)'
      BY <2>1, <2>2, <2>4 DEF Pursued
    <2>6. QED
      BY <2>3, <2>5
  <1>2. QED
    BY <1>1 DEF Inv, OthersRest

LEMMA InitInv == Init => Inv
  BY DEF Init, Inv, Functions, Placed, Pursued, ResetPlace

\* A call that begins.
LEMMA BeginStep ==
    ASSUME Inv, NEW c \in Call, NEW name, NEW what, NEW saw, NEW place, Begin(c, name, what, saw, place),
           place \notin {"scan", "done"}, name = "resetPassword" => place = "write",
           name \in Forgot => saw \in {"pwd-reset", "pin-reset"}
    PROVE  Inv'
  <1>1. /\ op' = [op EXCEPT ![c] = name] /\ pc' = [pc EXCEPT ![c] = place]
        /\ seen' = [seen EXCEPT ![c] = saw] /\ UNCHANGED <<keys, todo, owed>>
    BY DEF Begin, Goto
  <1>2. op'[c] = name /\ pc'[c] = place /\ seen'[c] = saw /\ owed'[c] = owed[c]
    BY <1>1 DEF Inv, Functions
  <1>3. OthersRest(c)
    BY <1>1 DEF OthersRest, Inv, Functions
  <1>4. Placed(c)' /\ Pursued(c)'
    BY <1>2 DEF Placed, Pursued, Inv, ResetPlace
  <1>5. QED
    BY <1>3, <1>4, RestStep

LEMMA StartStep ==
    ASSUME Inv, NEW c \in Call, Start(c)
    PROVE  Inv'
  <1>1. \E name, what, saw, place :
          /\ Begin(c, name, what, saw, place)
          /\ place \notin {"scan", "done"} /\ (name = "resetPassword" => place = "write")
          /\ (name \in Forgot => saw \in {"pwd-reset", "pin-reset"})
    <2>1. CASE (\E p \in Phone : SendPhoneOtp(c, p)) \/ (\E p \in Phone \cup {None} : Register(c, p))
      BY <2>1 DEF SendPhoneOtp, Register, Forgot
    <2>2. CASE ResendVerification(c) \/ VerifyPhoneOtp(c) \/ Login(c) \/ LoginWithCode(c)
      BY <2>2 DEF ResendVerification, VerifyPhoneOtp, Login, LoginWithCode, Forgot
    <2>3. CASE ForgotPassword(c) \/ ForgotPin(c)
      BY <2>3 DEF ForgotPassword, ForgotPin, Forgot
    <2>4. CASE ChangePassword(c) \/ SetupAuthenticator(c) \/ ConfirmAuthenticator(c) \/ SwitchToEmail(c)
               \/ SetPin(c) \/ ChangePin(c) \/ RemovePin(c)
      BY <2>4 DEF ChangePassword, SetupAuthenticator, ConfirmAuthenticator, SwitchToEmail, SetPin,
         ChangePin, RemovePin, Forgot
    <2>5. CASE \E k \in keys : \/ VerifyEmail(c, k) \/ ResendLoginOtp(c, k) \/ VerifyLoginOtp(c, k)
                               \/ RefreshTokens(c, k) \/ Logout(c, k) \/ ResetPassword(c, k) \/ ResetPin(c, k)
      BY <2>5 DEF VerifyEmail, ResendLoginOtp, VerifyLoginOtp, RefreshTokens, Logout, ResetPassword,
         ResetPin, Forgot
    <2>6. QED
      BY <2>1, <2>2, <2>3, <2>4, <2>5 DEF Start
  <1>2. QED
    BY <1>1, BeginStep

\* A step of a call that is not a reset.
LEMMA ElsewhereStep ==
    ASSUME Inv, NEW c \in Call, pc[c] \notin ResetPlace, NEW place, Goto(c, place), place \notin {"scan", "write"},
           UNCHANGED <<op, todo, owed>>, seen' = seen \/ \E s : seen' = [seen EXCEPT ![c] = s],
           keys' \cap Refresh \subseteq keys
    PROVE  Inv'
  <1>1. pc' = [pc EXCEPT ![c] = place] /\ pc'[c] = place /\ op[c] # "resetPassword"
    BY DEF Goto, Inv, Functions, Placed
  <1>2. OthersRest(c)
    BY <1>1 DEF OthersRest, Inv, Functions
  <1>3. Placed(c)' /\ Pursued(c)'
    BY <1>1 DEF Placed, Pursued, Inv
  <1>4. QED
    BY <1>2, <1>3, RestStep

\* Keys that are stored without being refresh tokens.
LEMMA LinksAreNoTokens ==
    ASSUME NEW kind \in {"pwd-reset", "email-verify", "pin-reset", "pending-2fa"}, NEW c
    PROVE  <<kind, c>> \notin Refresh
  BY DEF Refresh

LEMMA PhoneInv ==
    ASSUME Inv, NEW c \in Call, PhoneStep(c)
    PROVE  Inv'
  <1>1. /\ pc[c] \notin ResetPlace /\ UNCHANGED <<op, todo, owed, keys>>
        /\ seen' = seen \/ \E s : seen' = [seen EXCEPT ![c] = s]
        /\ \E place : Goto(c, place) /\ place \notin {"scan", "write"}
    <2>1. CASE PhoneTaken(c) \/ WritePhone(c) \/ CheckRate(c) \/ NoCode(c) \/ TooManyGuesses(c) \/ MarkVerified(c)
      BY <2>1 DEF PhoneTaken, WritePhone, CheckRate, NoCode, TooManyGuesses, MarkVerified, Proceed, Write, ResetPlace
    <2>2. CASE SendCode(c) \/ CountGuess(c)
      BY <2>2 DEF SendCode, CountGuess, Others, ResetPlace
    <2>3. CASE StampRate(c) \/ RightGuess(c)
      BY <2>3 DEF StampRate, RightGuess, Others, ResetPlace
    <2>4. CASE Drop(c)
      BY <2>4 DEF Drop, Others, ResetPlace
    <2>5. CASE WrongGuess(c)
      <3>1. pc[c] = "guess" /\ Goto(c, "ttl") /\ UNCHANGED <<op, todo, owed, keys>>
            /\ seen' = [seen EXCEPT ![c] = [phone |-> seen[c], stored |-> code[seen[c]]]]
        BY <2>5 DEF WrongGuess, Others
      <3>2. \E s : seen' = [seen EXCEPT ![c] = s]
        BY <3>1
      <3>3. \E place : Goto(c, place) /\ place \notin {"scan", "write"}
        BY <3>1
      <3>4. pc[c] \notin ResetPlace
        BY <3>1 DEF ResetPlace
      <3>5. QED
        BY <3>1, <3>2, <3>3, <3>4
    <2>6. QED
      BY <2>1, <2>2, <2>3, <2>4, <2>5 DEF PhoneStep
  <1>2. QED
    BY <1>1, ElsewhereStep

\* A token that is stored is not one that a scan owes any more.
LEMMA StoreInv ==
    ASSUME Inv, NEW c \in Call, Store(c)
    PROVE  Inv'
  <1> DEFINE k == <<"refresh", second[c]>>
  <1>1. /\ pc[c] = "store" /\ keys' = keys \cup {k} /\ Goto(c, "done") /\ UNCHANGED <<op, seen>>
        /\ todo' = [d \in Call |-> todo[d] \ {k}] /\ owed' = [d \in Call |-> owed[d] \ {k}]
    BY DEF Store
  <1>2. pc' = [pc EXCEPT ![c] = "done"] /\ op[c] # "resetPassword"
    BY <1>1 DEF Goto, Inv, Placed, ResetPlace
  <1>3. Functions'
    BY <1>1, <1>2 DEF Inv, Functions
  <1>4. ASSUME NEW d \in Call PROVE Placed(d)' /\ Pursued(d)'
    <2>1. /\ todo'[d] = todo[d] \ {k} /\ owed'[d] = owed[d] \ {k}
          /\ seen'[d] = seen[d] /\ op'[d] = op[d] /\ pc'[d] = IF d = c THEN "done" ELSE pc[d]
      BY <1>1, <1>2 DEF Inv, Functions
    <2>2. Placed(d) /\ Pursued(d)
      BY DEF Inv
    <2>3. owed'[d] \cap keys' \subseteq (owed[d] \cap keys) \ {k}
      BY <1>1, <2>1
    <2>4. Placed(d)'
      BY <2>1, <2>2, <1>2 DEF Placed
    <2>5. Pursued(d)'
      <3>1. CASE d = c
        BY <2>1, <3>1, <1>2 DEF Pursued
      <3>2. CASE d # c
        <4>1. pc'[d] = "done" /\ op'[d] = "resetPassword" => owed'[d] \cap keys' = {}
          BY <2>1, <2>2, <2>3, <3>2 DEF Pursued
        <4>2. pc'[d] = "scan" =>
                \A t \in owed'[d] \cap keys' : t \in todo'[d] \/ (seen'[d] # None /\ t \in seen'[d])
          BY <2>1, <2>2, <2>3, <3>2 DEF Pursued
        <4>3. QED
          BY <4>1, <4>2 DEF Pursued
      <3>3. QED
        BY <3>1, <3>2
    <2>6. QED
      BY <2>4, <2>5
  <1>5. QED
    BY <1>3, <1>4 DEF Inv

LEMMA SessionInv ==
    ASSUME Inv, NEW c \in Call, SessionStep(c)
    PROVE  Inv'
  <1>1. CASE Store(c)
    BY <1>1, StoreInv
  <1>2. CASE ~Store(c)
    <2>1. /\ pc[c] \notin ResetPlace /\ UNCHANGED <<op, todo, owed, seen>> /\ keys' \cap Refresh \subseteq keys
          /\ \E place : Goto(c, place) /\ place \notin {"scan", "write"}
      <3>1. CASE SendEmailOtp(c) \/ ValidateAuthenticator(c) \/ ValidateRefused(c) \/ SpendCode(c)
        BY <3>1 DEF SendEmailOtp, ValidateAuthenticator, ValidateRefused, SpendCode, Write, Proceed, AfterCode,
           ResetPlace
      <3>2. CASE KeepPending(c)
        BY <3>2, LinksAreNoTokens DEF KeepPending, SetKeys, ResetPlace
      <3>3. CASE Unpend(c) \/ Revoke(c)
        BY <3>3 DEF Unpend, Revoke, SetKeys, ResetPlace
      <3>4. CASE ValidateEmailed(c)
        BY <3>4 DEF ValidateEmailed, AfterCode, Others, ResetPlace
      <3>5. CASE Sign(c)
        BY <3>5 DEF Sign, ResetPlace
      <3>6. QED
        BY <1>2, <3>1, <3>2, <3>3, <3>4, <3>5 DEF SessionStep
    <2>2. QED
      BY <2>1, ElsewhereStep
  <1>3. QED
    BY <1>1, <1>2

LEMMA AccountInv ==
    ASSUME Inv, NEW c \in Call, AccountStep(c)
    PROVE  Inv'
  <1>i. Functions /\ Placed(c) /\ Pursued(c)
    BY DEF Inv
  <1>1. CASE Save(c) \/ CreateVerifyLink(c)
    <2>1. /\ pc[c] \notin ResetPlace /\ UNCHANGED <<op, todo, owed, seen>> /\ keys' \cap Refresh \subseteq keys
          /\ \E place : Goto(c, place) /\ place \notin {"scan", "write"}
      <3>1. CASE Save(c)
        BY <3>1 DEF Save, Write, Proceed, ResetPlace
      <3>2. CASE CreateVerifyLink(c)
        BY <3>2, LinksAreNoTokens DEF CreateVerifyLink, SetKeys, ResetPlace
      <3>3. QED
        BY <1>1, <3>1, <3>2
    <2>2. QED
      BY <2>1, ElsewhereStep
  <1>2. CASE UpdateRow(c)
    <2>1. /\ UNCHANGED <<op, todo, owed, seen, keys>>
          /\ \E place \in {"unlink", "done"} :
               Goto(c, place) /\ (op[c] = "resetPassword" => place = "unlink")
      BY <1>2 DEF UpdateRow, Write
    <2>2. PICK place \in {"unlink", "done"} :
            pc' = [pc EXCEPT ![c] = place] /\ (op[c] = "resetPassword" => place = "unlink")
      BY <2>1 DEF Goto
    <2>3. OthersRest(c) /\ pc'[c] = place
      BY <2>1, <2>2, <1>i DEF OthersRest, Functions
    <2>4. Placed(c)' /\ Pursued(c)'
      BY <2>1, <2>2, <2>3, <1>i DEF Placed, Pursued, ResetPlace
    <2>5. QED
      BY <2>3, <2>4, RestStep
  <1>3. CASE StoreLink(c)
    <2>1. /\ UNCHANGED <<op, todo, owed, seen>> /\ pc' = [pc EXCEPT ![c] = "done"]
          /\ keys' = keys \cup {<<seen[c], c>>} /\ pc[c] = "write" /\ op[c] \in Forgot
      BY <1>3 DEF StoreLink, SetKeys, Goto, Forgot
    <2>2. keys' \cap Refresh \subseteq keys
      BY <2>1, <1>i, LinksAreNoTokens DEF Placed
    <2>3. OthersRest(c) /\ pc'[c] = "done"
      BY <2>1, <2>2, <1>i DEF OthersRest, Functions
    <2>4. Placed(c)' /\ Pursued(c)'
      BY <2>1, <2>3, <1>i DEF Placed, Pursued, Forgot
    <2>5. QED
      BY <2>3, <2>4, RestStep
  <1>4. CASE Unlink(c)
    <2>1. /\ pc[c] = "unlink" /\ keys' = keys \ cred[c] /\ UNCHANGED <<op, seen>>
          /\ todo' = [todo EXCEPT ![c] = IF op[c] = "resetPassword" THEN keys \cap Refresh ELSE {}]
          /\ owed' = [owed EXCEPT ![c] = todo'[c]]
          /\ pc' = [pc EXCEPT ![c] = IF op[c] = "resetPassword" THEN "scan" ELSE "done"]
      BY <1>4 DEF Unlink, Goto
    <2>2. /\ pc'[c] = IF op[c] = "resetPassword" THEN "scan" ELSE "done"
          /\ owed'[c] = todo'[c] /\ todo'[c] \subseteq Refresh
      BY <2>1, <1>i DEF Functions
    <2>3. OthersRest(c)
      BY <2>1, <1>i DEF OthersRest, Functions
    <2>4. Placed(c)' /\ Pursued(c)'
      BY <2>1, <2>2, <1>i DEF Placed, Pursued, ResetPlace
    <2>5. QED
      BY <2>3, <2>4, RestStep
  <1>5. CASE \E page \in SUBSET Refresh : ScanPage(c, page)
    <2>1. PICK page \in SUBSET Refresh : ScanPage(c, page)
      BY <1>5
    <2>2. /\ pc[c] = "scan" /\ seen[c] = None /\ seen' = [seen EXCEPT ![c] = page]
          /\ todo' = [todo EXCEPT ![c] = @ \ page] /\ UNCHANGED <<op, pc, owed, keys>>
      BY <2>1 DEF ScanPage
    <2>3. seen'[c] = page /\ todo'[c] = todo[c] \ page
      BY <2>2, <1>i DEF Functions
    <2>4. OthersRest(c)
      BY <2>2, <1>i DEF OthersRest, Functions
    <2>5. page # None
      BY PageAssumption
    <2>6. Placed(c)' /\ Pursued(c)'
      BY <2>2, <2>3, <2>5, <1>i DEF Placed, Pursued
    <2>7. QED
      BY <2>4, <2>6, RestStep
  <1>6. CASE DeletePage(c)
    <2>1. /\ pc[c] = "scan" /\ seen[c] # None /\ keys' = keys \ seen[c]
          /\ seen' = [seen EXCEPT ![c] = None] /\ UNCHANGED <<op, pc, todo, owed>>
      BY <1>6 DEF DeletePage
    <2>2. OthersRest(c)
      BY <2>1, <1>i DEF OthersRest, Functions
    <2>3. Placed(c)' /\ Pursued(c)'
      BY <2>1, <1>i DEF Placed, Pursued
    <2>4. QED
      BY <2>2, <2>3, RestStep
  <1>7. CASE ScanEnds(c)
    <2>1. /\ pc[c] = "scan" /\ seen[c] = None /\ todo[c] \cap keys = {}
          /\ pc' = [pc EXCEPT ![c] = "done"] /\ UNCHANGED <<op, seen, todo, owed, keys>>
      BY <1>7 DEF ScanEnds, Proceed, Goto
    <2>2. OthersRest(c) /\ pc'[c] = "done"
      BY <2>1, <1>i DEF OthersRest, Functions
    <2>3. owed[c] \cap keys = {}
      BY <2>1, <1>i DEF Pursued
    <2>4. Placed(c)' /\ Pursued(c)'
      BY <2>1, <2>2, <2>3, <1>i DEF Placed, Pursued, ResetPlace
    <2>5. QED
      BY <2>2, <2>4, RestStep
  <1>8. QED
    BY <1>1, <1>2, <1>3, <1>4, <1>5, <1>6, <1>7 DEF AccountStep

LEMMA CrashInv ==
    ASSUME Inv, NEW c \in Call, Crash(c)
    PROVE  Inv'
  <1>1. /\ pc' = [pc EXCEPT ![c] = "failed"] /\ seen' = [seen EXCEPT ![c] = None]
        /\ todo' = [todo EXCEPT ![c] = {}] /\ owed' = [owed EXCEPT ![c] = {}] /\ UNCHANGED <<op, keys>>
    BY DEF Crash, Goto
  <1>2. pc'[c] = "failed" /\ owed'[c] = {}
    BY <1>1 DEF Inv, Functions
  <1>3. OthersRest(c)
    BY <1>1 DEF OthersRest, Inv, Functions
  <1>4. Placed(c)' /\ Pursued(c)'
    BY <1>1, <1>2 DEF Placed, Pursued, ResetPlace
  <1>5. QED
    BY <1>3, <1>4, RestStep

LEMMA NextInv == Inv /\ [Next]_vars => Inv'
  <1> SUFFICES ASSUME Inv, [Next]_vars PROVE Inv'
    OBVIOUS
  <1>1. CASE \E c \in Call : Start(c) \/ PhoneStep(c) \/ SessionStep(c) \/ AccountStep(c) \/ Crash(c)
    BY <1>1, StartStep, PhoneInv, SessionInv, AccountInv, CrashInv
  <1>2. CASE Tick \/ (\E p \in Phone : PhoneKeyExpires(p)) \/ UNCHANGED vars
    <2>1. UNCHANGED <<op, pc, seen, todo, owed, keys>>
      BY <1>2 DEF Tick, PhoneKeyExpires, vars, callVars
    <2>2. QED
      BY <2>1 DEF Inv, Functions, Placed, Pursued
  <1>3. QED
    BY <1>1, <1>2 DEF Next

\* When a reset of the password has returned, none of the sessions that its scan found when it
\* began is alive, whatever calls came in between, unless a token of that second was stored anew.
THEOREM ResetRevokes == Spec => []RevokedByReset
  <1>1. Inv => RevokedByReset
    BY DEF Inv, Pursued, RevokedByReset
  <1>2. QED
    BY InitInv, NextInv, <1>1, PTL DEF Spec
=============================================================================

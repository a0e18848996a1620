------------------------------- MODULE Accounts -------------------------------
(***************************************************************************)
(* AuthService on one account: the row of users, the keys of Redis, and    *)
(* calls that read and write them in separate steps without a lock or a    *)
(* transaction.  What a call writes (a password, a PIN, a code, a secret)  *)
(* is named after the call, since no call invents what another one did.    *)
(*                                                                         *)
(* A call that its first read refuses changes nothing and has no step.     *)
(***************************************************************************)
EXTENDS PhoneCode

CONSTANTS Earlier,    \* stands for calls before the first state
          MaxSecond,  \* bounds the clock
          MaxUnderway \* bounds the calls under way at once

ASSUME EarlierAssumption == Earlier \notin Call \cup Phone \cup {None}
ASSUME SecondAssumption == MaxSecond \in Nat
ASSUME UnderwayAssumption == MaxUnderway \in Nat

VARIABLES user,   \* the row, or None before the registration
          keys,   \* the keys in Redis: links, pending logins, refresh tokens
          now,    \* the clock, in the seconds of a token's iat
          op,     \* what the call does
          pc,     \* where it is
          cred,   \* the one-time credentials it has presented with success
          seen,   \* what it has read and will go by later
          second, \* when its refresh token was signed
          todo,   \* the tokens that its SCAN has to return yet
          owed,   \* history: tokens it found when its SCAN began, not stored since
          met     \* history: pairs of calls that overlapped

callVars == <<op, pc, cred, seen, second, todo, owed, met>>
vars == <<code, limited, user, keys, now, op, pc, cred, seen, second, todo, owed, met>>

-----------------------------------------------------------------------------
Author == Call \cup {Earlier}
Second == 0..MaxSecond

\* A token signed twice in a second is the same token: its payload is the
\* user's id, email and role, and iat.
Refresh == {"refresh"} \X Second
Link == {"pwd-reset", "email-verify", "pin-reset", "pending-2fa"} \X Author
Key == Refresh \cup Link

ASSUME PageAssumption == \A page \in SUBSET Refresh : page # None

\* What works once: a key, an emailed code, a code for a phone; and, to tell what
\* it has been confirmed with, an authenticator's secret.
Credential == Key \cup ({"email-otp", "totp"} \X Author) \cup ({"phone-otp"} \X (Phone \X Call))

Row == [password : Author, emailOtp : Author \cup {None},
        method : {"email", "authenticator"}, secret : Author \cup {None},
        pin : Author \cup {None}, pinSet : BOOLEAN,
        phone : Phone \cup {None}, phoneVerified : BOOLEAN, emailVerified : BOOLEAN]

ASSUME NothingAssumption == None \notin Row /\ None \notin Second

NewRow(c, p) ==
    [password |-> c, emailOtp |-> None, method |-> "email", secret |-> None, pin |-> None,
     pinSet |-> FALSE, phone |-> p, phoneVerified |-> FALSE, emailVerified |-> FALSE]

PinOps == {"setPin", "changePin", "resetPin", "removePin"}
Ops == PinOps \cup {"register", "sendPhoneOtp", "verifyPhoneOtp", "login", "loginWithCode",
        "verifyLoginOtp", "resendLoginOtp", "refresh", "logout", "verifyEmail",
        "resendVerification", "forgotPassword", "resetPassword", "changePassword",
        "setupAuthenticator", "confirmAuthenticator", "switchToEmail", "forgotPin"}

Finished == {"done", "wrong", "failed"}
Place == {"idle", "save", "verifyLink", "rate", "code", "stamp", "phone", "guess", "drop",
          "dropCode", "ttl", "proven", "sendCode", "pending", "validate", "spend", "unpend",
          "revoke", "sign", "store", "unlink", "scan", "unset", "write"} \cup Finished

Underway(c) == pc[c] \notin {"idle"} \cup Finished

Goto(c, place) == pc' = [pc EXCEPT ![c] = place]

Present(c, what) == cred' = [cred EXCEPT ![c] = @ \cup what]

\* A call begins: it overlaps all that are under way.
Begin(c, name, what, saw, place) ==
    /\ pc[c] = "idle"
    /\ Cardinality({d \in Call : Underway(d)}) < MaxUnderway
    /\ op' = [op EXCEPT ![c] = name]
    /\ Present(c, what)
    /\ seen' = [seen EXCEPT ![c] = saw]
    /\ Goto(c, place)
    /\ met' = met \cup {{c, d} : d \in {d \in Call : Underway(d)}}
    /\ UNCHANGED <<codeVars, user, keys, now, second, todo, owed>>

\* Next steps of calls that change only the row, only the keys, or neither.
Write(c, row, place) ==
    /\ user' = row
    /\ Goto(c, place)
    /\ UNCHANGED <<codeVars, keys, now, op, cred, seen, second, todo, owed, met>>

SetKeys(c, ks, place) ==
    /\ keys' = ks
    /\ Goto(c, place)
    /\ UNCHANGED <<codeVars, user, now, op, cred, seen, second, todo, owed, met>>

Proceed(c, place) ==
    /\ Goto(c, place)
    /\ UNCHANGED <<codeVars, user, keys, now, op, cred, seen, second, todo, owed, met>>

Others == <<user, keys, now, op, second, todo, owed, met>>

-----------------------------------------------------------------------------
(* An account before its registration, a new one, one in use, and one with an authenticator *)

InUse == [password |-> Earlier, emailOtp |-> None, method |-> "email", secret |-> None,
          pin |-> Earlier, pinSet |-> TRUE, phone |-> None, phoneVerified |-> FALSE,
          emailVerified |-> TRUE]

Init ==
    /\ \/ user = None /\ keys = {}
       \/ user = NewRow(Earlier, None) /\ keys = {<<"email-verify", Earlier>>}
       \/ user = InUse /\ keys = {<<"pwd-reset", Earlier>>, <<"refresh", 0>>}
       \/ /\ user = [InUse EXCEPT !.method = "authenticator", !.secret = Earlier]
          /\ keys = {<<"pin-reset", Earlier>>, <<"pending-2fa", Earlier>>}
    /\ now = 0
    /\ PhoneCodeInit
    /\ op = [c \in Call |-> None]
    /\ pc = [c \in Call |-> "idle"]
    /\ cred = [c \in Call |-> {}]
    /\ seen = [c \in Call |-> None]
    /\ second = [c \in Call |-> None]
    /\ todo = [c \in Call |-> {}]
    /\ owed = [c \in Call |-> {}]
    /\ met = {}

-----------------------------------------------------------------------------
(* Registration and the verification of the email address *)

Register(c, p) ==
    /\ user = None
    /\ Begin(c, "register", {}, p, "save")

\* The unique index on email refuses the second of two.
Save(c) ==
    /\ pc[c] = "save"
    /\ IF user = None THEN Write(c, NewRow(c, seen[c]), "verifyLink")
                      ELSE Proceed(c, "failed")

\* createEmailVerifyToken
CreateVerifyLink(c) ==
    /\ pc[c] = "verifyLink"
    /\ SetKeys(c, keys \cup {<<"email-verify", c>>},
               IF op[c] # "register" THEN "done" ELSE IF seen[c] = None THEN "sign" ELSE "rate")

ResendVerification(c) ==
    /\ user # None /\ ~user.emailVerified
    /\ Begin(c, "resendVerification", {}, None, "verifyLink")

VerifyEmail(c, k) ==
    /\ k \in keys /\ k[1] = "email-verify"
    /\ ~user.emailVerified
    /\ Begin(c, "verifyEmail", {k}, None, "write")

-----------------------------------------------------------------------------
(* The phone number *)

\* Mutant: the number of the request wins over the stored one.
SendPhoneOtpRequested(c, p) ==
    /\ user # None /\ ~user.phoneVerified
    /\ Begin(c, "sendPhoneOtp", {}, p, IF user.phone # p THEN "phone" ELSE "rate")

\* The stored number wins over the one of the request.
SendPhoneOtp(c, p) ==
    /\ user # None /\ ~user.phoneVerified
    /\ user.phone \in {None, p}
    /\ Begin(c, "sendPhoneOtp", {}, p, IF user.phone = None THEN "phone" ELSE "rate")

\* Another account has the number.
PhoneTaken(c) == pc[c] = "phone" /\ Proceed(c, "failed")

WritePhone(c) ==
    /\ pc[c] = "phone"
    /\ Write(c, [user EXCEPT !.phone = seen[c]], "rate")

\* sendOtp: a registration skips the code when the number is limited.
CheckRate(c) ==
    /\ pc[c] = "rate"
    /\ Proceed(c, IF seen[c] \notin limited THEN "code"
                  ELSE IF op[c] = "register" THEN "sign" ELSE "failed")

SendCode(c) ==
    /\ pc[c] = "code"
    /\ StoreCode(c, seen[c])
    /\ Goto(c, "stamp")
    /\ UNCHANGED <<Others, cred, seen>>

StampRate(c) ==
    /\ pc[c] = "stamp"
    /\ Limit(seen[c])
    /\ Goto(c, IF op[c] = "register" THEN "sign" ELSE "done")
    /\ UNCHANGED <<Others, cred, seen>>

VerifyPhoneOtp(c) ==
    /\ user # None /\ ~user.phoneVerified /\ user.phone # None
    /\ Begin(c, "verifyPhoneOtp", {}, user.phone, "guess")

\* verifyOtp: the value is read; three commands follow from what it was.
NoCode(c) == pc[c] = "guess" /\ code[seen[c]] = None /\ Proceed(c, "failed")

TooManyGuesses(c) ==
    /\ pc[c] = "guess" /\ code[seen[c]] # None
    /\ code[seen[c]].attempts >= MaxAttempts
    /\ Proceed(c, "drop")

\* Mutant: one guess too many is let through.
WrongGuessOnceMore(c) ==
    /\ pc[c] = "guess" /\ code[seen[c]] # None
    /\ code[seen[c]].attempts <= MaxAttempts
    /\ seen' = [seen EXCEPT ![c] = [phone |-> seen[c], stored |-> code[seen[c]]]]
    /\ Goto(c, "ttl")
    /\ UNCHANGED <<codeVars, Others, cred>>

WrongGuess(c) ==
    /\ pc[c] = "guess" /\ code[seen[c]] # None
    /\ code[seen[c]].attempts < MaxAttempts
    /\ seen' = [seen EXCEPT ![c] = [phone |-> seen[c], stored |-> code[seen[c]]]]
    /\ Goto(c, "ttl")
    /\ UNCHANGED <<codeVars, Others, cred>>

RightGuess(c) ==
    /\ pc[c] = "guess" /\ code[seen[c]] # None
    /\ code[seen[c]].attempts < MaxAttempts
    /\ Present(c, {<<"phone-otp", <<seen[c], code[seen[c]].otp>>>>})
    /\ Goto(c, "dropCode")
    /\ UNCHANGED <<codeVars, Others, seen>>

\* Mutant: only a code that was guessed too often is dropped.
DropRefusedOnly(c) ==
    /\ pc[c] \in {"drop", "dropCode"}
    /\ IF pc[c] = "drop" THEN DropCode(seen[c]) ELSE UNCHANGED codeVars
    /\ Goto(c, IF pc[c] = "drop" THEN "failed" ELSE "proven")
    /\ UNCHANGED <<Others, cred, seen>>

Drop(c) ==
    /\ pc[c] \in {"drop", "dropCode"}
    /\ DropCode(seen[c])
    /\ Goto(c, IF pc[c] = "drop" THEN "failed" ELSE "proven")
    /\ UNCHANGED <<Others, cred, seen>>

CountGuess(c) ==
    /\ pc[c] = "ttl"
    /\ WriteBack(seen[c].phone, seen[c].stored)
    /\ Goto(c, "wrong")
    /\ UNCHANGED <<Others, cred, seen>>

MarkVerified(c) ==
    /\ pc[c] = "proven"
    /\ Write(c, [user EXCEPT !.phoneVerified = TRUE], "done")

-----------------------------------------------------------------------------
(* Sessions *)

\* Without a code: with the email method a code is sent; a pending login is kept.
Login(c) ==
    /\ user # None
    /\ Begin(c, "login", {}, None, IF user.method = "email" THEN "sendCode" ELSE "pending")

ResendLoginOtp(c, k) ==
    /\ k \in keys /\ k[1] = "pending-2fa"
    /\ user.method = "email"
    /\ Begin(c, "resendLoginOtp", {}, None, "sendCode")

\* sendEmailOtp
SendEmailOtp(c) ==
    /\ pc[c] = "sendCode"
    /\ Write(c, [user EXCEPT !.emailOtp = c], IF op[c] = "login" THEN "pending" ELSE "done")

KeepPending(c) ==
    /\ pc[c] = "pending"
    /\ SetKeys(c, keys \cup {<<"pending-2fa", c>>}, "done")

\* With a code: the method is the one of the row as it was read here.
LoginWithCode(c) ==
    /\ user # None
    /\ Begin(c, "loginWithCode", {}, user.method, "validate")

VerifyLoginOtp(c, k) ==
    /\ k \in keys /\ k[1] = "pending-2fa"
    /\ Begin(c, "verifyLoginOtp", {k}, user.method, "validate")

AfterCode(c) == IF op[c] = "verifyLoginOtp" THEN "unpend" ELSE "sign"

\* validateOtpCode
ValidateEmailed(c) ==
    /\ pc[c] = "validate" /\ seen[c] = "email"
    /\ user.emailOtp # None
    /\ Present(c, {<<"email-otp", user.emailOtp>>})
    /\ Goto(c, "spend")
    /\ UNCHANGED <<codeVars, Others, seen>>

ValidateAuthenticator(c) ==
    /\ pc[c] = "validate" /\ seen[c] = "authenticator"
    /\ user.secret # None
    /\ Proceed(c, AfterCode(c))

\* A wrong code, or one whose time is over, or none.
ValidateRefused(c) == pc[c] = "validate" /\ Proceed(c, "failed")

SpendCode(c) ==
    /\ pc[c] = "spend"
    /\ Write(c, [user EXCEPT !.emailOtp = None], AfterCode(c))

Unpend(c) ==
    /\ pc[c] = "unpend"
    /\ SetKeys(c, keys \ cred[c], "sign")

\* Mutant: the old token stays in Redis.
RevokeNothing(c) ==
    /\ pc[c] = "revoke"
    /\ Proceed(c, IF op[c] = "refresh" THEN "sign" ELSE "done")

RefreshTokens(c, k) ==
    /\ k \in keys \cap Refresh
    /\ Begin(c, "refresh", {k}, None, "revoke")

Logout(c, k) ==
    /\ k \in keys \cap Refresh
    /\ Begin(c, "logout", {}, k, "revoke")

Revoke(c) ==
    /\ pc[c] = "revoke"
    /\ SetKeys(c, keys \ (cred[c] \cup {seen[c]}), IF op[c] = "refresh" THEN "sign" ELSE "done")

\* generateTokens
Sign(c) ==
    /\ pc[c] = "sign"
    /\ second' = [second EXCEPT ![c] = now]
    /\ Goto(c, "store")
    /\ UNCHANGED <<codeVars, user, keys, now, op, cred, seen, todo, owed, met>>

Store(c) ==
    LET k == <<"refresh", second[c]>>
    IN  /\ pc[c] = "store"
        /\ keys' = keys \cup {k}
        /\ todo' = [d \in Call |-> todo[d] \ {k}]
        /\ owed' = [d \in Call |-> owed[d] \ {k}]
        /\ Goto(c, "done")
        /\ UNCHANGED <<codeVars, user, now, op, cred, seen, second, met>>

-----------------------------------------------------------------------------
(* The password *)

ForgotPassword(c) ==
    /\ user # None
    /\ Begin(c, "forgotPassword", {}, "pwd-reset", "write")

ResetPassword(c, k) ==
    /\ k \in keys /\ k[1] = "pwd-reset"
    /\ Begin(c, "resetPassword", {k}, None, "write")

\* The caller knows the password that is read.
ChangePassword(c) ==
    /\ user # None
    /\ Begin(c, "changePassword", {}, user.password, "write")

\* Mutant: the link stays valid.
UnlinkNothing(c) ==
    /\ pc[c] = "unlink"
    /\ todo' = [todo EXCEPT ![c] = IF op[c] = "resetPassword" THEN keys \cap Refresh ELSE {}]
    /\ owed' = [owed EXCEPT ![c] = todo'[c]]
    /\ Goto(c, IF op[c] = "resetPassword" THEN "scan" ELSE "done")
    /\ UNCHANGED <<codeVars, user, keys, now, op, cred, seen, second, met>>

\* The link is deleted; resetPassword then begins to scan the refresh tokens.
Unlink(c) ==
    /\ pc[c] = "unlink"
    /\ keys' = keys \ cred[c]
    /\ todo' = [todo EXCEPT ![c] = IF op[c] = "resetPassword" THEN keys \cap Refresh ELSE {}]
    /\ owed' = [owed EXCEPT ![c] = todo'[c]]
    /\ Goto(c, IF op[c] = "resetPassword" THEN "scan" ELSE "done")
    /\ UNCHANGED <<codeVars, user, now, op, cred, seen, second, met>>

\* revokeAllRefreshTokens: a page of SCAN holds some of the tokens, perhaps none;
\* those of the user are deleted.
ScanPage(c, page) ==
    /\ pc[c] = "scan" /\ seen[c] = None
    /\ page \subseteq keys \cap Refresh
    /\ page # {}
    /\ seen' = [seen EXCEPT ![c] = page]
    /\ todo' = [todo EXCEPT ![c] = @ \ page]
    /\ UNCHANGED <<codeVars, user, keys, now, op, pc, cred, second, owed, met>>

DeletePage(c) ==
    /\ pc[c] = "scan" /\ seen[c] # None
    /\ keys' = keys \ seen[c]
    /\ seen' = [seen EXCEPT ![c] = None]
    /\ UNCHANGED <<codeVars, user, now, op, pc, cred, second, todo, owed, met>>

\* Mutant: a page without keys ends the scan.
ScanEndsEarly(c) ==
    /\ pc[c] = "scan" /\ seen[c] = None
    /\ Proceed(c, "done")

\* SCAN returns every token that was there from its beginning to its end.
ScanEnds(c) ==
    /\ pc[c] = "scan" /\ seen[c] = None
    /\ todo[c] \cap keys = {}
    /\ Proceed(c, "done")

-----------------------------------------------------------------------------
(* Two factors *)

\* Mutant: the method is not looked at.
SetupAuthenticatorAnyTime(c) ==
    /\ user # None
    /\ Begin(c, "setupAuthenticator", {}, None, "write")

SetupAuthenticator(c) ==
    /\ user # None /\ user.method = "email"
    /\ Begin(c, "setupAuthenticator", {}, None, "write")

\* The caller's code was made with the secret that is read.
ConfirmAuthenticator(c) ==
    /\ user # None /\ user.method = "email" /\ user.secret # None
    /\ Begin(c, "confirmAuthenticator", {<<"totp", user.secret>>}, None, "write")

SwitchToEmail(c) ==
    /\ user # None /\ user.method = "authenticator" /\ user.secret # None
    /\ Begin(c, "switchToEmail", {}, None, "write")

-----------------------------------------------------------------------------
(* The PIN *)

\* Mutant: the flag is not looked at.
SetPinAgain(c) ==
    /\ user # None
    /\ Begin(c, "setPin", {}, None, "write")

SetPin(c) ==
    /\ user # None /\ ~user.pinSet
    /\ Begin(c, "setPin", {}, None, "write")

\* The caller knows the PIN that is read.
ChangePin(c) ==
    /\ user # None /\ user.pinSet /\ user.pin # None
    /\ Begin(c, "changePin", {}, user.pin, "write")

RemovePin(c) ==
    /\ user # None /\ user.pinSet /\ user.pin # None
    /\ Begin(c, "removePin", {}, user.pin, "write")

ForgotPin(c) ==
    /\ user # None /\ user.pinSet
    /\ Begin(c, "forgotPin", {}, "pin-reset", "write")

ResetPin(c, k) ==
    /\ k \in keys /\ k[1] = "pin-reset"
    /\ Begin(c, "resetPin", {k}, None, "write")

-----------------------------------------------------------------------------
(* The single write that most calls end with or go on from *)

\* Mutant: the flag is cleared and the hash stays.
WrittenKeepingPin(c) ==
    CASE op[c] = "verifyEmail" -> [user EXCEPT !.emailVerified = TRUE]
      [] op[c] \in {"resetPassword", "changePassword"} -> [user EXCEPT !.password = c]
      [] op[c] = "setupAuthenticator" -> [user EXCEPT !.secret = c]
      [] op[c] = "confirmAuthenticator" ->
            [user EXCEPT !.method = "authenticator", !.emailOtp = None]
      [] op[c] = "switchToEmail" -> [user EXCEPT !.method = "email", !.secret = None]
      [] op[c] \in {"setPin", "resetPin"} -> [user EXCEPT !.pin = c, !.pinSet = TRUE]
      [] op[c] = "changePin" -> [user EXCEPT !.pin = c]
      [] op[c] = "removePin" -> [user EXCEPT !.pinSet = FALSE]

\* The row as the call's update leaves it: only the columns it names change.
Written(c) ==
    CASE op[c] = "verifyEmail" -> [user EXCEPT !.emailVerified = TRUE]
      [] op[c] \in {"resetPassword", "changePassword"} -> [user EXCEPT !.password = c]
      [] op[c] = "setupAuthenticator" -> [user EXCEPT !.secret = c]
      [] op[c] = "confirmAuthenticator" ->
            [user EXCEPT !.method = "authenticator", !.emailOtp = None]
      [] op[c] = "switchToEmail" -> [user EXCEPT !.method = "email", !.secret = None]
      [] op[c] \in {"setPin", "resetPin"} -> [user EXCEPT !.pin = c, !.pinSet = TRUE]
      [] op[c] = "changePin" -> [user EXCEPT !.pin = c]
      [] op[c] = "removePin" -> [user EXCEPT !.pin = None, !.pinSet = FALSE]

UpdateRow(c) ==
    /\ pc[c] = "write" /\ op[c] \notin {"forgotPassword", "forgotPin"}
    /\ Write(c, Written(c),
             IF op[c] \in {"verifyEmail", "resetPassword", "resetPin"} THEN "unlink" ELSE "done")

\* forgotPassword, forgotPin: seen is the kind of link.
StoreLink(c) ==
    /\ pc[c] = "write" /\ op[c] \in {"forgotPassword", "forgotPin"}
    /\ SetKeys(c, keys \cup {<<seen[c], c>>}, "done")

-----------------------------------------------------------------------------
(* Time and faults *)

\* A second passes that has signed a token; without one it would make no difference.
Tick ==
    /\ now < MaxSecond
    /\ <<"refresh", now>> \in keys \/ \E c \in Call : second[c] = now
    /\ now' = now + 1
    /\ UNCHANGED <<codeVars, user, keys, callVars>>

\* The other keys expire too: a call that comes later is refused as if nobody had
\* presented them, and so has no step.
PhoneKeyExpires(p) ==
    /\ CodeExpires(p) \/ LimitExpires(p)
    /\ UNCHANGED <<user, keys, now, callVars>>

\* The process dies, or a statement throws: what was written stays.
Crash(c) ==
    /\ Underway(c)
    /\ seen' = [seen EXCEPT ![c] = None]
    /\ todo' = [todo EXCEPT ![c] = {}]
    /\ owed' = [owed EXCEPT ![c] = {}]
    /\ Goto(c, "failed")
    /\ UNCHANGED <<codeVars, user, keys, now, op, cred, second, met>>

-----------------------------------------------------------------------------
Start(c) ==
    \/ \E p \in Phone : SendPhoneOtp(c, p)
    \/ \E p \in Phone \cup {None} : Register(c, p)
    \/ ResendVerification(c) \/ VerifyPhoneOtp(c)
    \/ Login(c) \/ LoginWithCode(c) \/ ForgotPassword(c) \/ ChangePassword(c)
    \/ SetupAuthenticator(c) \/ ConfirmAuthenticator(c) \/ SwitchToEmail(c)
    \/ SetPin(c) \/ ChangePin(c) \/ RemovePin(c) \/ ForgotPin(c)
    \/ \E k \in keys :
         \/ VerifyEmail(c, k) \/ ResendLoginOtp(c, k) \/ VerifyLoginOtp(c, k)
         \/ RefreshTokens(c, k) \/ Logout(c, k) \/ ResetPassword(c, k) \/ ResetPin(c, k)

PhoneStep(c) ==
    \/ PhoneTaken(c) \/ WritePhone(c) \/ CheckRate(c) \/ SendCode(c) \/ StampRate(c)
    \/ NoCode(c) \/ TooManyGuesses(c) \/ WrongGuess(c) \/ RightGuess(c) \/ Drop(c)
    \/ CountGuess(c) \/ MarkVerified(c)

SessionStep(c) ==
    \/ SendEmailOtp(c) \/ KeepPending(c) \/ ValidateEmailed(c) \/ ValidateAuthenticator(c)
    \/ ValidateRefused(c) \/ SpendCode(c) \/ Unpend(c) \/ Revoke(c) \/ Sign(c) \/ Store(c)

AccountStep(c) ==
    \/ Save(c) \/ CreateVerifyLink(c) \/ UpdateRow(c) \/ StoreLink(c) \/ Unlink(c)
    \/ \E page \in SUBSET Refresh : ScanPage(c, page)
    \/ DeletePage(c) \/ ScanEnds(c)

Next == \/ \E c \in Call : \/ Start(c) \/ PhoneStep(c) \/ SessionStep(c)
                           \/ AccountStep(c) \/ Crash(c)
        \/ Tick
        \/ \E p \in Phone : PhoneKeyExpires(p)

Spec == Init /\ [][Next]_vars

-----------------------------------------------------------------------------
(* Properties *)

Overlapped(c, d) == {c, d} \in met

\* Two finished calls never used the same link, token or code unless they overlapped: what a
\* call has used is gone for every later one. A token that was signed twice in a second is two.
SpentOnce ==
    \A c, d \in Call : \A k \in cred[c] \cap cred[d] :
        /\ c # d /\ ~Overlapped(c, d)
        /\ pc[c] = "done" /\ pc[d] = "done"
        => \/ k[1] = "totp"
           \/ /\ k \in Refresh
              /\ Cardinality({e \in Call : second[e] = k[2]}) + (IF k[2] = 0 THEN 1 ELSE 0) > 1

\* When resetPassword has returned, none of the sessions it found is alive, unless a
\* token of the same second was stored since.
RevokedByReset ==
    \A c \in Call : pc[c] = "done" /\ op[c] = "resetPassword" => owed[c] \cap keys = {}

\* The PIN and the flag that a transfer looks at agree, unless a change of the PIN
\* overlapped its removal.
PinAgrees ==
    user # None /\ (user.pinSet # (user.pin # None)) =>
        \E c, d \in Call : op[c] = "changePin" /\ op[d] = "removePin" /\ Overlapped(c, d)

\* A PIN in force is replaced by a call that knew it or had a reset link, or by one that
\* overlapped another call on the PIN.
PinReplacedKnowingly ==
    [][user # None /\ user.pinSet /\ user'.pin # user.pin =>
         \E c \in Call : /\ pc'[c] # pc[c]
                         /\ \/ seen[c] = user.pin
                            \/ op[c] = "resetPin"
                            \/ \E d \in Call : op[d] \in PinOps /\ Overlapped(c, d)]_vars

\* With the authenticator method, the secret in the row is one that a code was confirmed
\* with, unless a set-up or a switch overlapped the confirmation: the owner can log in.
SecretConfirmed ==
    user # None /\ user.method = "authenticator" =>
        \/ user.secret = Earlier
        \/ \E c \in Call : <<"totp", user.secret>> \in cred[c]
        \/ \E c, d \in Call : /\ op[c] = "confirmAuthenticator"
                              /\ op[d] \in {"setupAuthenticator", "switchToEmail"}
                              /\ Overlapped(c, d)

\* The verified number is one whose code was given, unless two calls that each set a
\* number overlapped.
VerifiedPhoneProven ==
    user # None /\ user.phoneVerified =>
        \/ \E c, a \in Call : <<"phone-otp", <<user.phone, a>>>> \in cred[c]
        \/ \E c, d \in Call : /\ c # d
                              /\ op[c] = "sendPhoneOtp" /\ op[d] = "sendPhoneOtp"
                              /\ Overlapped(c, d)

\* No more than MaxAttempts wrong guesses of a code are answered, unless two of them overlapped.
GuessesBounded ==
    \A p \in Phone, a \in Call :
        LET wrong == {c \in Call : /\ pc[c] = "wrong"
                                   /\ seen[c].phone = p
                                   /\ seen[c].stored.otp = a}
        IN  \/ Cardinality(wrong) <= MaxAttempts
            \/ \E c, d \in wrong : c # d /\ Overlapped(c, d)

\* A code that has proven a number is not in Redis again, unless a wrong guess overlapped
\* the right one and wrote back what it had read.
UsedCodeGone ==
    \A c, a \in Call, p \in Phone :
        /\ pc[c] \in {"proven", "done"}
        /\ <<"phone-otp", <<p, a>>>> \in cred[c]
        /\ code[p] # None
        => \/ code[p].otp # a
           \/ \E g \in Call : op[g] = "verifyPhoneOtp" /\ g # c /\ Overlapped(g, c)

\* Types of the variables.
TypeOK ==
    /\ PhoneCodeTypeOK
    /\ user \in Row \cup {None}
    /\ keys \subseteq Key
    /\ now \in Second
    /\ op \in [Call -> Ops \cup {None}]
    /\ pc \in [Call -> Place]
    /\ cred \in [Call -> SUBSET Credential]
    /\ seen = [c \in Call |-> seen[c]]
    /\ second \in [Call -> Second \cup {None}]
    /\ todo \in [Call -> SUBSET Refresh]
    /\ owed \in [Call -> SUBSET Refresh]
    /\ met \subseteq SUBSET Call
=============================================================================

------------------------------ MODULE PhoneCode ------------------------------
(***************************************************************************)
(* WhatsappOtpService: one-time codes for phone numbers, kept in Redis     *)
(* under the number, with the count of wrong guesses inside the value, and *)
(* a second key that limits how often a code is sent.  Every command is    *)
(* atomic and no two are tied together.                                    *)
(*                                                                         *)
(* The operators are the commands; the calls that issue them one after the *)
(* other are the steps of Accounts.                                        *)
(***************************************************************************)
EXTENDS Integers, FiniteSets

CONSTANTS Call,        \* calls of the services, each used once
          Phone,       \* phone numbers, in their normal form
          MaxAttempts, \* MAX_ATTEMPTS
          None         \* no code, no number, nothing read

ASSUME AttemptsAssumption == MaxAttempts \in Nat \ {0}
ASSUME NoneAssumption == None \notin Call /\ None \notin Phone

VARIABLES code,     \* wa:otp:<number>, or None
          limited   \* the numbers with a wa:otp:ratelimit:<number>

codeVars == <<code, limited>>

\* A code is named after the call that sent it.
StoredCode == [otp : Call, attempts : 0..MaxAttempts]

PhoneCodeTypeOK ==
    /\ code \in [Phone -> StoredCode \cup {None}]
    /\ limited \in SUBSET Phone

PhoneCodeInit == code = [p \in Phone |-> None] /\ limited = {}

-----------------------------------------------------------------------------
\* sendOtp, first setex: a new code replaces the one before it.
StoreCode(c, p) ==
    /\ code' = [code EXCEPT ![p] = [otp |-> c, attempts |-> 0]]
    /\ UNCHANGED limited

\* sendOtp, second setex.
Limit(p) == limited' = limited \cup {p} /\ UNCHANGED code

DropCode(p) == code' = [code EXCEPT ![p] = None] /\ UNCHANGED limited

\* Mutant: the wrong guess is not counted.
WriteBackUncounted(p, stored) == code' = [code EXCEPT ![p] = stored] /\ UNCHANGED limited

\* verifyOtp after a wrong guess: the value that was read goes back with one
\* attempt more, whatever the key holds by now, and if it is gone for ten minutes.
WriteBack(p, stored) ==
    /\ code' = [code EXCEPT ![p] = [stored EXCEPT !.attempts = @ + 1]]
    /\ UNCHANGED limited

\* Redis: the keys live for ten minutes and for one.
CodeExpires(p) == code[p] # None /\ DropCode(p)
LimitExpires(p) == p \in limited /\ limited' = limited \ {p} /\ UNCHANGED code
=============================================================================

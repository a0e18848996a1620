-------------------------------- MODULE Ledger --------------------------------
(***************************************************************************)
(* What an account book promises, whoever keeps it: a balance changes only *)
(* together with a new line of the account's statement, the line says by   *)
(* how much and from where to where, lines are never changed or removed,   *)
(* and no two lines bear the same reference.  A correction, the one kind   *)
(* of line that may start elsewhere than at the balance, is named apart.   *)
(*                                                                         *)
(* WalletLedger and Treasury implement this specification.                 *)
(***************************************************************************)
EXTENDS Integers, Sequences

CONSTANTS Account,
          Line,        \* statement lines: type, amt, before, after, ref, ...
          Outgoing,    \* the types that take money from an account
          Correction   \* the types that may start elsewhere

VARIABLES balance, lines

Posted(e) == e.after = IF e.type \in Outgoing THEN e.before - e.amt ELSE e.before + e.amt

\* The balance before line i of statement s: what the line above it left.
Opening(s, i) == IF i = 1 THEN 0 ELSE s[i - 1].after

\* Statement s accounts for balance b.
Accounts(s, b) ==
    /\ b = Opening(s, Len(s) + 1)
    /\ \A i \in 1..Len(s) : /\ Posted(s[i])
                            /\ s[i].type \notin Correction => s[i].before = Opening(s, i)

References(s) == {s[i].ref : i \in 1..Len(s)}

\* No reference is borne by two lines.
DistinctReferences ==
    \A a, b \in Account : \A i \in 1..Len(lines[a]), j \in 1..Len(lines[b]) :
        lines[a][i].ref = lines[b][j].ref => a = b /\ i = j

Init ==
    /\ balance \in [Account -> Int]
    /\ lines \in [Account -> Seq(Line)]
    /\ \A a \in Account : Accounts(lines[a], balance[a])
    /\ DistinctReferences

\* Line e takes account a from its balance to the new one.
Enter(a, e) ==
    /\ e \in Line
    /\ Posted(e)
    /\ e.type \notin Correction => e.before = balance[a]
    /\ \A b \in Account : e.ref \notin References(lines[b])
    /\ balance'[a] = e.after
    /\ lines'[a] = Append(lines[a], e)

Keep(a) == balance'[a] = balance[a] /\ lines'[a] = lines[a]

\* A movement: one new line in some of the accounts, under different references.
Move ==
    /\ balance' \in [Account -> Int]
    /\ lines' \in [Account -> Seq(Line)]
    /\ \A a \in Account : Keep(a) \/ Enter(a, lines'[a][Len(lines'[a])])
    /\ \A a, b \in Account :
         a # b /\ ~Keep(a) /\ ~Keep(b) =>
            lines'[a][Len(lines'[a])].ref # lines'[b][Len(lines'[b])].ref

Spec == Init /\ [][Move]_<<balance, lines>>
=============================================================================

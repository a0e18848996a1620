----------------------------- MODULE LedgerProofs -----------------------------
(***************************************************************************)
(* What follows for every book that is kept as Ledger demands, whatever    *)
(* its accounts, lines and types are.                                      *)
(***************************************************************************)
EXTENDS Ledger, TLAPS

Typed == balance \in [Account -> Int] /\ lines \in [Account -> Seq(Line)]

Kept ==
    /\ Typed
    /\ \A a \in Account : Accounts(lines[a], balance[a])
    /\ DistinctReferences

\* A new line at the end of a statement.
LEMMA AppendLine ==
    ASSUME NEW S, NEW s \in Seq(S), NEW e \in S
    PROVE  /\ Append(s, e) \in Seq(S)
           /\ Len(s) \in Nat
           /\ Len(Append(s, e)) = Len(s) + 1
           /\ \A i \in 1..Len(s) : Append(s, e)[i] = s[i]
           /\ Append(s, e)[Len(s) + 1] = e
  OBVIOUS

\* A statement that accounts for a balance goes on doing so.
LEMMA AccountsEnter ==
    ASSUME NEW a \in Account, NEW e, Typed, Enter(a, e), Accounts(lines[a], balance[a])
    PROVE  Accounts(lines'[a], balance'[a])
  <1> DEFINE s == lines[a]
             t == lines'[a]
  <1>1. /\ s \in Seq(Line) /\ e \in Line /\ t = Append(s, e) /\ balance'[a] = e.after
        /\ Posted(e) /\ (e.type \notin Correction => e.before = balance[a])
    BY DEF Typed, Enter
  <1>2. Accounts(s, balance[a])
    OBVIOUS
  <1> HIDE DEF s, t
  <1>3. /\ Len(s) \in Nat /\ Len(t) = Len(s) + 1
        /\ \A i \in 1..Len(s) : t[i] = s[i]
        /\ t[Len(s) + 1] = e
    BY <1>1, AppendLine
  <1>4. e.after = Opening(t, Len(t) + 1)
    BY <1>3 DEF Opening
  <1>5. ASSUME NEW i \in 1..Len(t)
        PROVE  Posted(t[i]) /\ (t[i].type \notin Correction => t[i].before = Opening(t, i))
    <2>1. Opening(t, i) = Opening(s, i)
      BY <1>3 DEF Opening
    <2>2. CASE i \in 1..Len(s)
      BY <1>2, <1>3, <2>1, <2>2 DEF Accounts
    <2>3. CASE i = Len(s) + 1
      BY <1>1, <1>2, <1>3, <2>1, <2>3 DEF Accounts
    <2>4. QED
      BY <1>3, <2>2, <2>3
  <1>6. Accounts(t, balance'[a])
    BY <1>1, <1>4, <1>5 DEF Accounts
  <1>7. QED
    BY <1>6 DEF t

LEMMA MoveKept == Kept /\ [Move]_<<balance, lines>> => Kept'
  <1> SUFFICES ASSUME Kept, [Move]_<<balance, lines>> PROVE Kept'
    OBVIOUS
  <1>1. CASE UNCHANGED <<balance, lines>>
    BY <1>1 DEF Kept, Typed, DistinctReferences
  <1>2. CASE Move
    <2> DEFINE e(a) == lines'[a][Len(lines'[a])]
    <2>1. Typed'
      BY <1>2 DEF Move, Typed
    <2>2. \A a \in Account : Keep(a) \/ Enter(a, e(a))
      BY <1>2 DEF Move
    <2>3. \A a, b \in Account : a # b /\ ~Keep(a) /\ ~Keep(b) => e(a).ref # e(b).ref
      BY <1>2 DEF Move
    <2> HIDE DEF e
    <2>4. ASSUME NEW a \in Account PROVE Accounts(lines'[a], balance'[a])
      <3>1. CASE Keep(a)
        BY <3>1 DEF Keep, Kept
      <3>2. CASE Enter(a, e(a))
        BY <3>2, AccountsEnter DEF Kept
      <3>3. QED
        BY <2>2, <3>1, <3>2
    \* A line of the new statement is an old one, or the new one.
    <2>5. ASSUME NEW a \in Account, NEW i \in 1..Len(lines'[a])
          PROVE  \/ i \in 1..Len(lines[a]) /\ lines'[a][i] = lines[a][i]
                 \/ /\ i = Len(lines[a]) + 1 /\ lines'[a][i] = e(a) /\ ~Keep(a)
                    /\ \A b \in Account : e(a).ref \notin References(lines[b])
      <3>0. lines[a] \in Seq(Line)
        BY DEF Kept, Typed
      <3>1. CASE Keep(a)
        BY <3>1 DEF Keep
      <3>2. CASE Enter(a, e(a))
        <4>1. lines'[a] = Append(lines[a], e(a)) /\ e(a) \in Line
          BY <3>2 DEF Enter
        <4>2. /\ Len(lines[a]) \in Nat /\ Len(lines'[a]) = Len(lines[a]) + 1
              /\ \A k \in 1..Len(lines[a]) : lines'[a][k] = lines[a][k]
              /\ lines'[a][Len(lines[a]) + 1] = e(a)
          BY <3>0, <4>1, AppendLine
        <4>3. ~Keep(a)
          BY <4>2 DEF Keep
        <4>4. i \in 1..Len(lines[a]) \/ i = Len(lines[a]) + 1
          BY <4>2
        <4>5. QED
          BY <3>2, <4>2, <4>3, <4>4 DEF Enter
      <3>3. QED
        BY <2>2, <3>1, <3>2
    <2>6. ASSUME NEW a \in Account, NEW b \in Account,
                 NEW i \in 1..Len(lines'[a]), NEW j \in 1..Len(lines'[b]),
                 lines'[a][i].ref = lines'[b][j].ref
          PROVE  a = b /\ i = j
      <3>1. CASE i \in 1..Len(lines[a]) /\ lines'[a][i] = lines[a][i]
        <4>1. CASE j \in 1..Len(lines[b]) /\ lines'[b][j] = lines[b][j]
          BY <2>6, <3>1, <4>1 DEF Kept, DistinctReferences
        <4>2. CASE ~(j \in 1..Len(lines[b]) /\ lines'[b][j] = lines[b][j])
          <5>1. lines'[b][j] = e(b) /\ e(b).ref \notin References(lines[a])
            BY <4>2, <2>5
          <5>2. lines[a][i].ref \in References(lines[a])
            BY <3>1 DEF References
          <5>3. QED
            BY <2>6, <3>1, <5>1, <5>2
        <4>3. QED
          BY <4>1, <4>2
      <3>2. CASE ~(i \in 1..Len(lines[a]) /\ lines'[a][i] = lines[a][i])
        <4>0. /\ i = Len(lines[a]) + 1 /\ lines'[a][i] = e(a) /\ ~Keep(a)
              /\ e(a).ref \notin References(lines[b])
          BY <3>2, <2>5
        <4>1. CASE j \in 1..Len(lines[b]) /\ lines'[b][j] = lines[b][j]
          <5>1. lines[b][j].ref \in References(lines[b])
            BY <4>1 DEF References
          <5>2. QED
            BY <2>6, <4>0, <4>1, <5>1
        <4>2. CASE ~(j \in 1..Len(lines[b]) /\ lines'[b][j] = lines[b][j])
          <5>1. j = Len(lines[b]) + 1 /\ lines'[b][j] = e(b) /\ ~Keep(b)
            BY <4>2, <2>5
          <5>2. QED
            BY <2>3, <2>6, <4>0, <5>1
        <4>3. QED
          BY <4>1, <4>2
      <3>3. QED
        BY <3>1, <3>2
    <2>7. DistinctReferences'
      BY <2>6 DEF DistinctReferences
    <2>8. QED
      BY <2>1, <2>4, <2>7 DEF Kept
  <1>3. QED
    BY <1>1, <1>2

\* A book that is kept has statements that account for their balances at all
\* times, and no reference twice in all of them.
THEOREM BookIsKept == Spec => []Kept
  <1>1. Init => Kept
    BY DEF Init, Kept, Typed
  <1>2. QED
    BY <1>1, MoveKept, PTL DEF Spec
=============================================================================

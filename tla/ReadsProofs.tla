------------------------------ MODULE ReadsProofs ------------------------------
(***************************************************************************)
(* Theorems about what the read side sees: pages that follow the ledger,   *)
(* listings that are complete, reconciliations without false divergence,   *)
(* for any number of writers, any deltas and any page size.                *)
(*                                                                         *)
(* Pages are ordered by created_at, entries are committed in the order of  *)
(* versions.  That the two agree is the argument: a writer takes the time  *)
(* after it has read the wallet, and commits only if the version it read   *)
(* is still the current one, so every entry there is then is older.        *)
(***************************************************************************)
EXTENDS LedgerReads, FiniteSetTheorems, SequenceTheorems, TLAPS

Rows == [at : Nat, id : Nat, delta : Int]

\* The sequence s is what the sequence t began with.
IsPrefix(s, t) == Len(s) <= Len(t) /\ \A i \in 1..Len(s) : s[i] = t[i]

\* The values every variable keeps.
Types ==
    /\ clock \in Nat /\ balance \in Int /\ version \in Nat /\ entries \in Seq(Rows)
    /\ pc \in [Writers -> {"read", "stamp", "commit", "done"}]
    /\ seen \in [Writers -> [balance : Int, version : Nat]]
    /\ stamp \in [Writers -> Nat]
    /\ cursor \in [at : Int, id : Nat] \cup {None}
    /\ listed \in Seq(Rows) /\ before \in Nat \cup {None}
    /\ step \in {"idle", "count", "sum", "done"}
    /\ view \in Seq(Rows) /\ checked \in Nat
    /\ report \in [stored : Int, calculated : Int, consistent : BOOLEAN, checkedEntries : Nat]

\* Entries are stamped in the order they are committed, all in the past.
Stamped ==
    /\ \A i, j \in 1..Len(entries) : i < j => entries[i].at < entries[j].at
    /\ \A i \in 1..Len(entries) : entries[i].at < clock

\* A writer with the current version has the current balance, and a time later
\* than that of any entry.
UpToDate ==
    /\ \A w \in Writers : seen[w].version <= version
    /\ \A w \in Writers : seen[w].version = version => seen[w].balance = balance
    /\ \A w \in Writers : pc[w] = "commit" =>
          /\ stamp[w] <= clock
          /\ seen[w].version = version =>
                \A i \in 1..Len(entries) : entries[i].at < stamp[w]

\* The stored balance is the sum of the entries.
Balanced == balance = SumOf(entries)

\* A reader has got a prefix of the ledger; the cursor is at its end, and there is
\* none only once it covers what there was when the listing began.
Reading ==
    /\ IsPrefix(listed, entries)
    /\ cursor # None =>
          cursor = IF Len(listed) = 0 THEN NoCursor ELSE Cursor(entries[Len(listed)])
    /\ before # None => before <= Len(entries)
    /\ cursor = None => before # None /\ before <= Len(listed)

\* The snapshot of a reconciliation is a prefix of the ledger whose sum is the
\* balance it has read.
Auditing ==
    step # "idle" =>
        /\ IsPrefix(view, entries)
        /\ report.stored = SumOf(view)
        /\ step # "count" => checked = Len(view)
        /\ step = "done" => report.consistent /\ report.checkedEntries = Len(view)

\* The inductive invariant of the read side.
LInv == Types /\ Stamped /\ UpToDate /\ Balanced /\ Reading /\ Auditing

--------------------------------------------------------------------------------
(* Induction, and sums.                                                       *)

\* A set of naturals that is not empty has a least element: it has one that no
\* interval shorter than its own ends in.
LEMMA HasLeast ==
    ASSUME NEW S \in SUBSET Nat, S # {}
    PROVE  \E m \in S : \A k \in S : m <= k
  <1> DEFINE T == {0..m : m \in S}
  <1>1. T \subseteq FiniteSubsetsOf(Nat)
    <2>1. ASSUME NEW m \in S PROVE 0..m \in FiniteSubsetsOf(Nat)
      <3>1. IsFiniteSet(0..m) /\ 0..m \subseteq Nat
        BY FS_Interval
      <3> QED
        BY <3>1 DEF FiniteSubsetsOf
    <2> QED
      BY <2>1
  <1>2. T # {}
    OBVIOUS
  <1>3. \E x \in T : \A y \in T : ~ (<< y, x >> \in StrictSubsetOrdering(Nat))
    <2> HIDE DEF T
    <2> QED
      BY <1>1, <1>2, WFMin, FS_StrictSubsetOrderingWellFounded
  <1>4. PICK m \in S : \A y \in T : ~ (<< y, 0..m >> \in StrictSubsetOrdering(Nat))
    BY <1>3
  <1>5. ASSUME NEW k \in S, k < m PROVE FALSE
    <2>1. 0..k \in T /\ 0..k \subseteq 0..m /\ 0..k \subseteq Nat /\ 0..m \subseteq Nat
      BY <1>5
    <2>2. 0..k # 0..m
      <3>1. m \in 0..m /\ m \notin 0..k
        BY <1>5
      <3> QED
        BY <3>1
    <2>3. << 0..k, 0..m >> \in StrictSubsetOrdering(Nat)
      BY <2>1, <2>2 DEF StrictSubsetOrdering
    <2> QED
      BY <1>4, <2>1, <2>3
  <1> QED
    BY <1>5

\* Induction, for a set instead of a formula.
LEMMA SetInduction ==
    ASSUME NEW S, 0 \in S, \A k \in Nat : k \in S => k + 1 \in S
    PROVE  Nat \subseteq S
  <1> SUFFICES ASSUME ~ (Nat \subseteq S) PROVE FALSE
    OBVIOUS
  <1>1. Nat \ S \in SUBSET Nat /\ Nat \ S # {}
    OBVIOUS
  <1>2. PICK m \in Nat \ S : \A k \in Nat \ S : m <= k
    BY <1>1, HasLeast
  <1>3. m # 0 /\ m - 1 \in Nat /\ (m - 1) + 1 = m
    BY <1>2
  <1>4. m - 1 \in S
    BY <1>2, <1>3
  <1> QED
    BY <1>2, <1>3, <1>4

\* The equation of the sums of the first entries of a sequence.
IsSums(f, s) ==
    f = [i \in 0..Len(s) |-> IF i = 0 THEN 0 ELSE f[i - 1] + s[i].delta]

\* The equation has a solution, by extending one for the first k entries.
LEMMA SumsExist ==
    ASSUME NEW s \in Seq(Rows)
    PROVE  \E f \in [0..Len(s) -> Int] : IsSums(f, s)
  <1> DEFINE Sums(f, k) ==
                 \A i \in 0..k : f[i] = IF i = 0 THEN 0 ELSE f[i - 1] + s[i].delta
             S == {k \in Nat : k <= Len(s) => \E f \in [0..k -> Int] : Sums(f, k)}
  <1>1. Len(s) \in Nat /\ \A i \in 1..Len(s) : s[i].delta \in Int
    <2>1. Len(s) \in Nat /\ \A i \in 1..Len(s) : s[i] \in Rows
      OBVIOUS
    <2> QED
      BY <2>1 DEF Rows
  <1>2. 0 \in S
    <2>1. [i \in 0..0 |-> 0] \in [0..0 -> Int] /\ Sums([i \in 0..0 |-> 0], 0)
      OBVIOUS
    <2> HIDE DEF Sums
    <2> QED
      BY <2>1
  <1>3. ASSUME NEW k \in Nat, k \in S PROVE k + 1 \in S
    <2> SUFFICES ASSUME k + 1 <= Len(s)
                 PROVE  \E f \in [0..(k + 1) -> Int] : Sums(f, k + 1)
      <3>1. k + 1 \in Nat
        OBVIOUS
      <3> HIDE DEF Sums
      <3> QED
        BY <3>1, Zenon
    <2>1. PICK f \in [0..k -> Int] : Sums(f, k)
      BY <1>1, <1>3
    <2> DEFINE g == [i \in 0..(k + 1) |-> IF i <= k THEN f[i] ELSE f[k] + s[k + 1].delta]
    <2>2. s[k + 1].delta \in Int /\ f[k] \in Int /\ \A i \in 0..k : f[i] \in Int
      BY <1>1
    <2>3. g \in [0..(k + 1) -> Int]
      BY <2>2
    <2>4. \A i \in 0..k : g[i] = f[i]
      OBVIOUS
    <2>5. g[k + 1] = f[k] + s[k + 1].delta
      OBVIOUS
    <2> HIDE DEF g
    <2>6. ASSUME NEW i \in 0..(k + 1)
          PROVE  g[i] = IF i = 0 THEN 0 ELSE g[i - 1] + s[i].delta
      <3>1. CASE i = k + 1
        <4>1. i # 0 /\ i - 1 = k /\ k \in 0..k
          BY <3>1
        <4>2. g[i] = f[k] + s[i].delta /\ g[i - 1] = f[k]
          BY <2>4, <2>5, <3>1, <4>1
        <4> QED
          BY <4>1, <4>2
      <3>2. CASE i # k + 1
        <4>1. i \in 0..k /\ (i # 0 => i - 1 \in 0..k)
          BY <3>2
        <4>2. g[i] = f[i] /\ (i # 0 => g[i - 1] = f[i - 1])
          BY <2>4, <4>1
        <4> QED
          BY <2>1, <4>1, <4>2
      <3> QED
        BY <3>1, <3>2
    <2>7. Sums(g, k + 1)
      BY <2>6
    <2> QED
      BY <2>3, <2>7
  <1>4. Len(s) \in S
    <2> HIDE DEF S
    <2> QED
      BY <1>1, <1>2, <1>3, SetInduction
  <1>5. PICK f \in [0..Len(s) -> Int] : Sums(f, Len(s))
    BY <1>1, <1>4
  <1>6. f = [i \in 0..Len(s) |-> f[i]]
    OBVIOUS
  <1>7. [i \in 0..Len(s) |-> f[i]]
        = [i \in 0..Len(s) |-> IF i = 0 THEN 0 ELSE f[i - 1] + s[i].delta]
    BY <1>5
  <1> QED
    BY <1>6, <1>7 DEF IsSums

\* Two solutions agree, on a sequence and on one it is a prefix of.
LEMMA SumsAgree ==
    ASSUME NEW s \in Seq(Rows), NEW t \in Seq(Rows), IsPrefix(s, t),
           NEW f, IsSums(f, s), NEW g, IsSums(g, t)
    PROVE  \A i \in 0..Len(s) : f[i] = g[i]
  <1> DEFINE S == {k \in Nat : k <= Len(s) => f[k] = g[k]}
  <1>1. Len(s) \in Nat /\ Len(t) \in Nat /\ Len(s) <= Len(t)
    BY DEF IsPrefix
  <1>2. \A i \in 0..Len(s) : f[i] = IF i = 0 THEN 0 ELSE f[i - 1] + s[i].delta
    <2> DEFINE F == [i \in 0..Len(s) |-> IF i = 0 THEN 0 ELSE f[i - 1] + s[i].delta]
    <2>1. f = F
      BY DEF IsSums
    <2>2. \A i \in 0..Len(s) : F[i] = IF i = 0 THEN 0 ELSE f[i - 1] + s[i].delta
      OBVIOUS
    <2> HIDE DEF F
    <2> QED
      BY <2>1, <2>2
  <1>3. \A i \in 0..Len(t) : g[i] = IF i = 0 THEN 0 ELSE g[i - 1] + t[i].delta
    <2> DEFINE G == [i \in 0..Len(t) |-> IF i = 0 THEN 0 ELSE g[i - 1] + t[i].delta]
    <2>1. g = G
      BY DEF IsSums
    <2>2. \A i \in 0..Len(t) : G[i] = IF i = 0 THEN 0 ELSE g[i - 1] + t[i].delta
      OBVIOUS
    <2> HIDE DEF G
    <2> QED
      BY <2>1, <2>2
  <1>4. 0 \in S
    <2>1. f[0] = 0 /\ g[0] = 0
      BY <1>1, <1>2, <1>3
    <2> QED
      BY <2>1
  <1>5. ASSUME NEW k \in Nat, k \in S PROVE k + 1 \in S
    <2> SUFFICES ASSUME k + 1 <= Len(s) PROVE f[k + 1] = g[k + 1]
      OBVIOUS
    <2>1. f[k] = g[k]
      BY <1>1, <1>5
    <2>2. k + 1 \in 1..Len(s) /\ k + 1 \in 0..Len(s) /\ k + 1 \in 0..Len(t)
      BY <1>1
    <2>3. s[k + 1] = t[k + 1]
      BY <2>2 DEF IsPrefix
    <2>4. f[k + 1] = f[k] + s[k + 1].delta
      BY <1>2, <2>2
    <2>5. g[k + 1] = g[k] + t[k + 1].delta
      BY <1>3, <2>2
    <2> QED
      BY <2>1, <2>3, <2>4, <2>5
  <1>6. Nat \subseteq S
    <2> HIDE DEF S
    <2> QED
      BY <1>4, <1>5, SetInduction
  <1> QED
    BY <1>1, <1>6

\* SumOf is the last value of the one solution.
LEMMA SumOfIs ==
    ASSUME NEW s \in Seq(Rows), NEW f, IsSums(f, s)
    PROVE  SumOf(s) = f[Len(s)]
  <1> DEFINE c == CHOOSE g : IsSums(g, s)
  <1>1. SumOf(s) = c[Len(s)]
    BY DEF SumOf, IsSums
  <1>2. IsSums(c, s)
    OBVIOUS
  <1>3. IsPrefix(s, s) /\ Len(s) \in 0..Len(s)
    BY DEF IsPrefix
  <1> HIDE DEF c
  <1> QED
    BY <1>1, <1>2, <1>3, SumsAgree

\* The sum of no entries, and of one entry more.
LEMMA Summing ==
    /\ SumOf(<< >>) = 0
    /\ \A s \in Seq(Rows), e \in Rows :
          SumOf(s) \in Int /\ SumOf(Append(s, e)) = SumOf(s) + e.delta
  <1>1. SumOf(<< >>) = 0
    <2>1. << >> \in Seq(Rows) /\ Len(<< >>) = 0
      OBVIOUS
    <2>2. PICK f \in [0..Len(<< >>) -> Int] : IsSums(f, << >>)
      BY <2>1, SumsExist
    <2>3. f[0] = 0
      BY <2>1, <2>2 DEF IsSums
    <2> QED
      BY <2>1, <2>2, <2>3, SumOfIs
  <1>2. ASSUME NEW s \in Seq(Rows), NEW e \in Rows
        PROVE  SumOf(s) \in Int /\ SumOf(Append(s, e)) = SumOf(s) + e.delta
    <2> DEFINE n == Len(s)
               t == Append(s, e)
    <2>1. t \in Seq(Rows) /\ n \in Nat /\ Len(t) = n + 1 /\ t[n + 1] = e /\ IsPrefix(s, t)
      BY DEF IsPrefix
    <2> HIDE DEF t
    <2>2. PICK f \in [0..Len(s) -> Int] : IsSums(f, s)
      BY SumsExist
    <2>3. PICK g \in [0..Len(t) -> Int] : IsSums(g, t)
      BY <2>1, SumsExist
    <2>4. SumOf(s) = f[n] /\ SumOf(t) = g[n + 1]
      BY <2>1, <2>2, <2>3, SumOfIs
    <2>5. f[n] = g[n]
      BY <2>1, <2>2, <2>3, SumsAgree
    <2>6. g[n + 1] = g[n] + t[n + 1].delta
      <3> DEFINE G == [i \in 0..Len(t) |-> IF i = 0 THEN 0 ELSE g[i - 1] + t[i].delta]
      <3>1. g = G
        BY <2>3 DEF IsSums
      <3>2. G[n + 1] = g[n] + t[n + 1].delta
        BY <2>1
      <3> HIDE DEF G
      <3> QED
        BY <3>1, <3>2
    <2>7. SumOf(s) \in Int /\ SumOf(t) = SumOf(s) + e.delta
      BY <2>1, <2>2, <2>4, <2>5, <2>6
    <2> QED
      BY <2>7 DEF t
  <1> QED
    BY <1>1, <1>2
--------------------------------------------------------------------------------
(* Pages.                                                                     *)

\* Prefixes, by element and as the properties write them.
LEMMA Prefixes ==
    ASSUME NEW s \in Seq(Rows), NEW t \in Seq(Rows)
    PROVE  IsPrefix(s, t) <=> Len(s) <= Len(t) /\ s = SubSeq(t, 1, Len(s))
  <1>1. Len(s) \in Nat /\ Len(t) \in Nat
    OBVIOUS
  <1> SUFFICES ASSUME Len(s) <= Len(t)
               PROVE  (\A i \in 1..Len(s) : s[i] = t[i]) <=> s = SubSeq(t, 1, Len(s))
    BY DEF IsPrefix
  <1> DEFINE u == SubSeq(t, 1, Len(s))
  <1>2. u \in Seq(Rows) /\ Len(u) = Len(s) /\ \A i \in 1..Len(s) : u[i] = t[i]
    <2>1. \A i \in 1..Len(s) : t[i] \in Rows
      BY <1>1
    <2>2. /\ u \in Seq(Rows) /\ Len(u) = IF 1 <= Len(s) THEN Len(s) - 1 + 1 ELSE 0
          /\ \A i \in 1..(Len(s) - 1 + 1) : u[i] = t[1 + i - 1]
      BY <1>1, <2>1, SubSeqProperties
    <2> HIDE DEF u
    <2> QED
      BY <1>1, <2>2
  <1> HIDE DEF u
  <1>3. (\A i \in 1..Len(s) : s[i] = u[i]) => s = u
    BY <1>2, SeqEqual
  <1>4. (\A i \in 1..Len(s) : s[i] = t[i]) <=> s = u
    BY <1>2, <1>3
  <1> QED
    BY <1>4 DEF u

Increasing(r) == \A i, j \in DOMAIN r : i < j => Follows(r[j], r[i])

\* No row follows itself, and of two rows one at most follows the other.
LEMMA FollowsOneWay ==
    \A a, b \in Rows : Follows(a, b) => a # b /\ ~ Follows(b, a)
  <1>1. \A a \in Rows : a.at \in Nat /\ a.id \in Nat
    BY DEF Rows
  <1> QED
    BY <1>1 DEF Follows

\* An increasing enumeration has as many rows before the ith as are before i.
LEMMA RankIs ==
    ASSUME NEW S \in SUBSET Rows, NEW n \in Nat, NEW r \in [1..n -> S], Increasing(r),
           \A x \in S : \E i \in 1..n : r[i] = x,
           NEW i \in 1..n
    PROVE  Cardinality({y \in S : Follows(r[i], y)}) = i - 1
  <1> DEFINE B == {y \in S : Follows(r[i], y)}
             f == [j \in 1..(i - 1) |-> r[j]]
  <1>1. \A j, k \in 1..n : j < k => r[j] # r[k] /\ Follows(r[k], r[j]) /\ ~ Follows(r[j], r[k])
    BY FollowsOneWay DEF Increasing
  <1>2. \A j \in 1..(i - 1) : j \in 1..n /\ j < i
    OBVIOUS
  <1>3. f \in [1..(i - 1) -> B]
    BY <1>1, <1>2
  <1>4. \A j, k \in 1..(i - 1) : f[j] = f[k] => j = k
    <2>1. \A j, k \in 1..(i - 1) : j < k \/ k < j \/ j = k
      OBVIOUS
    <2>2. \A j, k \in 1..(i - 1) : j < k => f[j] # f[k]
      BY <1>1, <1>2
    <2> HIDE DEF f
    <2> QED
      BY <2>1, <2>2
  <1>5. \A y \in B : \E j \in 1..(i - 1) : f[j] = y
    <2>1. ASSUME NEW y \in B PROVE \E j \in 1..(i - 1) : r[j] = y
      <3>1. PICK j \in 1..n : r[j] = y
        OBVIOUS
      <3>2. j # i /\ ~ (i < j)
        BY <1>1, <3>1, FollowsOneWay
      <3>3. j \in 1..(i - 1)
        BY <3>2
      <3> QED
        BY <3>1, <3>3
    <2> QED
      BY <2>1
  <1>6. ExistsBijection(1..(i - 1), B)
    <2> HIDE DEF f, B
    <2>1. f \in Bijection(1..(i - 1), B)
      BY <1>3, <1>4, <1>5 DEF Bijection, Injection, Surjection, IsInjective
    <2> QED
      BY <2>1 DEF ExistsBijection
  <1>7. i - 1 \in Nat
    OBVIOUS
  <1> QED
    BY <1>6, <1>7, FS_CountingElements

\* An increasing enumeration of a set of rows is what Ordered chooses: there is only
\* one, since the place of a row in it is how many rows are before it.
LEMMA OrderedIs ==
    ASSUME NEW S \in SUBSET Rows, NEW n \in Nat, NEW s \in [1..n -> S], Increasing(s),
           \A x \in S : \E i \in 1..n : s[i] = x
    PROVE  Ordered(S) = s
  <1>1. \A r \in [1..n -> S] : Increasing(r) => r \in Injection(1..n, S)
    <2>1. ASSUME NEW r \in [1..n -> S], Increasing(r) PROVE r \in Injection(1..n, S)
      <3>1. \A j, k \in 1..n : j < k => r[j] # r[k]
        BY <2>1, FollowsOneWay DEF Increasing
      <3>2. \A j, k \in 1..n : j < k \/ k < j \/ j = k
        OBVIOUS
      <3>3. \A j, k \in 1..n : r[j] = r[k] => j = k
        BY <3>1, <3>2
      <3> QED
        BY <3>3 DEF Injection, IsInjective
    <2> QED
      BY <2>1
  <1>2. Cardinality(S) = n /\ IsFiniteSet(S)
    <2>1. s \in Bijection(1..n, S)
      BY <1>1 DEF Bijection, Surjection
    <2>2. ExistsBijection(1..n, S)
      BY <2>1 DEF ExistsBijection
    <2>3. IsFiniteSet(1..n)
      BY FS_Interval
    <2> QED
      BY <2>2, <2>3, FS_CountingElements, FS_Bijection
  <1> DEFINE r == CHOOSE t \in [1..n -> S] : Increasing(t)
  <1>3. Ordered(S) = r
    BY <1>2 DEF Ordered, Increasing
  <1>4. r \in [1..n -> S] /\ Increasing(r)
    OBVIOUS
  <1> HIDE DEF r
  <1>5. \A x \in S : \E i \in 1..n : r[i] = x
    <2>1. IsFiniteSet(1..n) /\ Cardinality(1..n) = n
      BY FS_Interval
    <2>2. r \in Surjection(1..n, S)
      BY <1>1, <1>2, <1>4, <2>1, FS_Injection
    <2> QED
      BY <2>2 DEF Surjection
  <1>6. ASSUME NEW i \in 1..n PROVE r[i] = s[i]
    <2>1. PICK j \in 1..n : s[j] = r[i]
      BY <1>4
    <2>2. Cardinality({y \in S : Follows(r[i], y)}) = i - 1
      BY <1>4, <1>5, RankIs
    <2>3. Cardinality({y \in S : Follows(s[j], y)}) = j - 1
      BY RankIs
    <2>4. i = j
      BY <2>1, <2>2, <2>3
    <2> QED
      BY <2>1, <2>4
  <1>7. r = s
    BY <1>4, <1>6
  <1> QED
    BY <1>3, <1>7
\* The rows a page fetches are the next entries of the ledger, in its order.
LEMMA FetchedIs ==
    ASSUME Types, Stamped, Reading, cursor # None
    PROVE  /\ Fetched \in Seq(Rows)
           /\ Len(Fetched) = IF Len(entries) - Len(listed) > Limit THEN Limit + 1
                             ELSE Len(entries) - Len(listed)
           /\ \A i \in 1..Len(Fetched) : Fetched[i] = entries[Len(listed) + i]
  <1> DEFINE k == Len(listed)
             n == Len(entries) - k
             S == {e \in {entries[i] : i \in DOMAIN entries} : Follows(e, cursor)}
             s == [i \in 1..n |-> entries[k + i]]
  <1>1. /\ k \in Nat /\ Len(entries) \in Nat /\ n \in Nat
        /\ DOMAIN entries = 1..Len(entries)
    BY DEF Types, Reading, IsPrefix
  <1>2. \A i \in 1..Len(entries) :
           /\ entries[i] \in Rows
           /\ entries[i].at \in Nat /\ entries[i].id \in Nat
    <2>1. \A i \in 1..Len(entries) : entries[i] \in Rows
      BY DEF Types
    <2> QED
      BY <2>1 DEF Rows
  <1>3. \A i, j \in 1..Len(entries) : i < j => Follows(entries[j], entries[i])
    BY <1>2 DEF Stamped, Follows
  <1>4. \A i \in 1..Len(entries) : Follows(entries[i], cursor) <=> i > k
    <2>1. CASE k = 0
      <3>1. cursor.at = -1
        BY <2>1 DEF Reading, NoCursor
      <3> QED
        BY <1>2, <2>1, <3>1 DEF Follows
    <2>2. CASE k # 0
      <3>1. k \in 1..Len(entries)
        BY <1>1, <2>2
      <3>2. cursor = Cursor(entries[k])
        BY <2>2 DEF Reading
      <3>3. \A e \in Rows : Follows(e, cursor) <=> Follows(e, entries[k])
        BY <3>2 DEF Cursor, Follows
      <3>4. \A i \in 1..Len(entries) : i < k \/ i = k \/ k < i
        BY <1>1
      <3>5. \A i \in 1..Len(entries) : Follows(entries[i], entries[k]) <=> k < i
        BY <1>2, <1>3, <3>1, <3>4, FollowsOneWay
      <3> QED
        BY <1>2, <3>3, <3>5
    <2> QED
      BY <2>1, <2>2
  <1>5. S \in SUBSET Rows
    BY <1>1, <1>2
  <1>6. \A i \in 1..n : k + i \in 1..Len(entries) /\ k + i > k
    BY <1>1
  <1>7. s \in [1..n -> S]
    BY <1>1, <1>4, <1>6
  <1>8. Increasing(s)
    <2>1. \A i, j \in 1..n : i < j => k + i < k + j
      BY <1>1
    <2> QED
      BY <1>3, <1>6, <2>1 DEF Increasing
  <1>9. \A x \in S : \E i \in 1..n : s[i] = x
    <2>1. ASSUME NEW x \in S PROVE \E i \in 1..n : s[i] = x
      <3>1. PICK j \in 1..Len(entries) : x = entries[j]
        BY <1>1
      <3>2. j > k
        BY <1>4, <3>1
      <3>3. j - k \in 1..n /\ k + (j - k) = j
        BY <1>1, <3>2
      <3> QED
        BY <3>1, <3>3
    <2> QED
      BY <2>1
  <1>10. Ordered(S) = s
    <2> HIDE DEF S, s, n
    <2> QED
      BY <1>1, <1>5, <1>7, <1>8, <1>9, OrderedIs
  <1>11. s \in Seq(Rows) /\ Len(s) = n
    BY <1>1, <1>2, <1>6
  <1> DEFINE m == IF Len(s) > Limit THEN Limit + 1 ELSE Len(s)
  <1>12. Fetched = SubSeq(s, 1, m)
    <2>1. Fetched = SubSeq(Ordered(S), 1, IF Len(Ordered(S)) > Limit THEN Limit + 1
                                                                    ELSE Len(Ordered(S)))
      BY DEF Fetched
    <2> HIDE DEF S, s
    <2> QED
      BY <1>10, <2>1
  <1>13. m \in Nat /\ m <= n /\ m = IF n > Limit THEN Limit + 1 ELSE n
    <2>1. Limit \in Nat
      BY ReadsAssumption
    <2> HIDE DEF s
    <2> QED
      BY <1>1, <1>11, <2>1
  <1>14. \A i \in 1..m : s[i] = entries[k + i] /\ s[i] \in Rows
    BY <1>1, <1>2, <1>6, <1>13
  <1> HIDE DEF s, m
  <1>15. /\ SubSeq(s, 1, m) \in Seq(Rows)
         /\ Len(SubSeq(s, 1, m)) = IF 1 <= m THEN m - 1 + 1 ELSE 0
         /\ \A i \in 1..(m - 1 + 1) : SubSeq(s, 1, m)[i] = s[1 + i - 1]
    BY <1>13, <1>14, SubSeqProperties
  <1> QED
    BY <1>12, <1>13, <1>14, <1>15

--------------------------------------------------------------------------------
(* Every step keeps LInv.                                                     *)

\* The ledger grows, if it changes, by one entry at its end.
Grows == entries' = entries \/ \E e \in Rows : entries' = Append(entries, e)

\* What was a prefix of the ledger is one of the ledger that has grown.
LEMMA PrefixesStay ==
    ASSUME NEW t \in Seq(Rows), NEW e \in Rows, NEW s \in Seq(Rows), IsPrefix(s, t)
    PROVE  IsPrefix(s, Append(t, e)) /\ Len(s) <= Len(t)
  <1>1. Len(s) \in Nat /\ Len(t) \in Nat
    OBVIOUS
  <1> QED
    BY <1>1 DEF IsPrefix

\* The first states.
LEMMA InitLInv == Init => LInv
  <1> SUFFICES ASSUME Init PROVE LInv
    OBVIOUS
  <1> USE DEF Init
  <1>1. balance \in Nat /\ Initials \subseteq Nat
    BY ReadsAssumption
  <1>2. CASE balance = 0
    <2>1. entries = << >> /\ Len(entries) = 0
      BY <1>2
    <2>2. Types
      BY <1>1, <2>1 DEF Types, NoCursor, NoReport, Row
    <2>3. Stamped /\ UpToDate
      BY <1>1, <2>1 DEF Stamped, UpToDate, Row
    <2>4. Balanced
      BY <1>2, <2>1, Summing DEF Balanced
    <2>5. Reading
      BY <2>1, ReadsAssumption DEF Reading, IsPrefix, NoCursor
    <2>6. Auditing
      BY DEF Auditing
    <2> QED
      BY <2>2, <2>3, <2>4, <2>5, <2>6 DEF LInv
  <1>3. CASE balance # 0
    <2> DEFINE e == Entry(0, 0, balance)
    <2>1. e \in Rows /\ e.at = 0 /\ e.delta = balance
      BY <1>1 DEF Entry, Rows
    <2>2. entries = << e >> /\ Len(entries) = 1 /\ entries[1] = e /\ entries \in Seq(Rows)
      BY <1>3, <2>1
    <2> HIDE DEF e
    <2>3. Types
      BY <1>1, <2>2 DEF Types, NoCursor, NoReport, Row
    <2>4. Stamped /\ UpToDate
      BY <1>1, <2>1, <2>2 DEF Stamped, UpToDate, Row
    <2>5. Balanced
      <3>1. entries = Append(<< >>, e) /\ << >> \in Seq(Rows)
        BY <2>1, <2>2
      <3>2. SumOf(entries) = 0 + e.delta
        BY <2>1, <3>1, Summing
      <3> QED
        BY <1>1, <2>1, <3>2 DEF Balanced
    <2>6. Reading
      BY <2>2, ReadsAssumption DEF Reading, IsPrefix, NoCursor
    <2>7. Auditing
      BY DEF Auditing
    <2> QED
      BY <2>3, <2>4, <2>5, <2>6, <2>7 DEF LInv
  <1> QED
    BY <1>2, <1>3
\* A writer that does not settle leaves the ledger as it is, and what it takes from
\* it, the row or the time, is of this moment.
LEMMA WriterKeepsLInv ==
    ASSUME LInv, NEW w \in Writers, FindWallet(w) \/ Stamp(w) \/ Retry(w) \/ Reject(w)
    PROVE  LInv'
  <1> USE DEF LInv
  <1>1. UNCHANGED << clock, wallet, reader, audit >>
    BY DEF FindWallet, Stamp, Retry, Reject
  <1>2. Types'
    <2>1. CASE FindWallet(w)
      BY <1>1, <2>1 DEF Types, FindWallet, Row, wallet, reader, audit
    <2>2. CASE Stamp(w)
      BY <1>1, <2>2 DEF Types, Stamp, Now, wallet, reader, audit
    <2>3. CASE Retry(w)
      BY <1>1, <2>3 DEF Types, Retry, wallet, reader, audit
    <2>4. CASE Reject(w)
      BY <1>1, <2>4 DEF Types, Reject, wallet, reader, audit
    <2> QED
      BY <2>1, <2>2, <2>3, <2>4
  <1>3. Stamped' /\ Balanced'
    BY <1>1 DEF Stamped, Balanced, wallet
  <1>4. UpToDate'
    <2>1. CASE FindWallet(w)
      <3>1. \A v \in Writers : /\ v # w => seen'[v] = seen[v] /\ pc'[v] = pc[v]
                               /\ v = w => seen'[v] = Row /\ pc'[v] = "stamp"
        BY <2>1 DEF FindWallet, Types
      <3>2. Row.version = version /\ Row.balance = balance /\ version \in Nat
        BY DEF Row, Types
      <3>3. stamp' = stamp /\ clock' = clock /\ version' = version /\ balance' = balance
            /\ entries' = entries
        BY <1>1, <2>1 DEF FindWallet, wallet
      <3> QED
        BY <3>1, <3>2, <3>3 DEF UpToDate
    <2>2. CASE Stamp(w)
      <3>1. \A v \in Writers : /\ v # w => stamp'[v] = stamp[v] /\ pc'[v] = pc[v]
                               /\ v = w => stamp'[v] = clock
        BY <2>2 DEF Stamp, Now, Types
      <3>2. seen' = seen /\ clock' = clock /\ version' = version /\ balance' = balance
            /\ entries' = entries /\ clock \in Nat
        BY <1>1, <2>2 DEF Stamp, wallet, Types
      <3> QED
        BY <3>1, <3>2 DEF UpToDate, Stamped
    <2>3. CASE Retry(w) \/ Reject(w)
      <3>1. \A v \in Writers : pc'[v] = "commit" => pc[v] = "commit"
        BY <2>3 DEF Retry, Reject, Types
      <3>2. seen' = seen /\ stamp' = stamp /\ clock' = clock /\ version' = version
            /\ balance' = balance /\ entries' = entries
        BY <1>1, <2>3 DEF Retry, Reject, wallet
      <3> QED
        BY <3>1, <3>2 DEF UpToDate
    <2> QED
      BY <2>1, <2>2, <2>3
  <1>5. Reading'
    BY <1>1 DEF Reading, reader, wallet
  <1>6. Auditing'
    BY <1>1 DEF Auditing, audit, wallet
  <1> QED
    BY <1>2, <1>3, <1>4, <1>5, <1>6

\* A settlement appends an entry with a time later than any before, and moves the
\* version on: no other writer has the current one.
LEMMA SettleKeepsLInv ==
    ASSUME LInv, NEW w \in Writers, Settle(w)
    PROVE  LInv'
  <1> USE DEF LInv
  <1> DEFINE e == Entry(stamp[w], IdOf[w], DeltaOf[w])
             n == Len(entries)
  <1>1. e \in Rows /\ e.at = stamp[w] /\ e.delta = DeltaOf[w] /\ DeltaOf[w] \in Int
    BY ReadsAssumption DEF Entry, Rows, Types
  <1>2. /\ entries \in Seq(Rows) /\ n \in Nat /\ clock \in Nat /\ version \in Nat
        /\ balance \in Int /\ stamp[w] \in Nat
    BY DEF Types
  <1>3. /\ entries' = Append(entries, e)
        /\ seen[w].version = version /\ pc[w] = "commit"
        /\ version' = version + 1 /\ clock' = clock + 1
        /\ balance' = seen[w].balance + DeltaOf[w]
        /\ pc' = [pc EXCEPT ![w] = "done"]
        /\ UNCHANGED << seen, stamp, reader, audit >>
    BY DEF Settle
  <1> HIDE DEF e
  <1>4. /\ entries' \in Seq(Rows) /\ Len(entries') = n + 1 /\ entries'[n + 1] = e
        /\ \A i \in 1..n : entries'[i] = entries[i]
        /\ \A i \in 1..(n + 1) : i \in 1..n \/ i = n + 1
    BY <1>1, <1>2, <1>3, AppendProperties
  <1>5. balance' = balance + DeltaOf[w] /\ stamp[w] <= clock
        /\ \A i \in 1..n : entries[i].at < stamp[w]
    BY <1>3 DEF UpToDate
  <1>6. Types'
    <2>1. pc' \in [Writers -> {"read", "stamp", "commit", "done"}]
      BY <1>3 DEF Types
    <2>2. /\ seen' = seen /\ stamp' = stamp
          /\ cursor' = cursor /\ listed' = listed /\ before' = before
          /\ step' = step /\ view' = view /\ checked' = checked /\ report' = report
      BY <1>3 DEF reader, audit
    <2>3. clock' \in Nat /\ version' \in Nat /\ balance' \in Int
      BY <1>1, <1>2, <1>3, <1>5
    <2> QED
      BY <1>4, <2>1, <2>2, <2>3 DEF Types
  <1>7. Stamped'
    <2>1. \A i \in 1..n : entries[i].at \in Nat
      <3>1. \A i \in 1..n : entries[i] \in Rows
        BY <1>2
      <3> QED
        BY <3>1 DEF Rows
    <2>2. \A i \in 1..(n + 1) : entries'[i].at < clock'
      BY <1>1, <1>2, <1>3, <1>4, <1>5, <2>1 DEF Stamped
    <2>3. ASSUME NEW i \in 1..(n + 1), NEW j \in 1..(n + 1), i < j
          PROVE  entries'[i].at < entries'[j].at
      <3>1. i \in 1..n /\ entries'[i] = entries[i]
        BY <1>2, <1>4, <2>3
      <3>2. CASE j = n + 1
        BY <1>1, <1>4, <1>5, <3>1, <3>2
      <3>3. CASE j \in 1..n
        BY <1>4, <2>3, <3>1, <3>3 DEF Stamped
      <3> QED
        BY <1>4, <3>2, <3>3
    <2> QED
      BY <1>4, <2>2, <2>3 DEF Stamped
  <1>8. UpToDate'
    <2>1. \A v \in Writers : seen[v].version \in Nat /\ seen[v].version <= version
      BY DEF Types, UpToDate
    <2>2. \A v \in Writers : seen'[v].version < version'
      BY <1>2, <1>3, <2>1
    <2>3. \A v \in Writers : pc'[v] = "commit" => pc[v] = "commit"
      BY <1>3 DEF Types
    <2>4. \A v \in Writers : stamp'[v] \in Nat
      BY <1>3 DEF Types
    <2>5. \A v \in Writers : pc'[v] = "commit" => stamp'[v] <= clock'
      BY <1>2, <1>3, <2>3, <2>4 DEF UpToDate
    <2>6. \A v \in Writers : seen'[v].version <= version' /\ seen'[v].version # version'
      BY <1>2, <1>3, <2>1, <2>2
    <2> QED
      BY <2>5, <2>6 DEF UpToDate
  <1>9. Balanced'
    BY <1>1, <1>2, <1>3, <1>5, Summing DEF Balanced
  <1>10. Reading'
    <2>1. listed \in Seq(Rows) /\ Len(listed) \in Nat /\ before \in Nat \cup {None}
      BY DEF Types
    <2>2. IsPrefix(listed, entries') /\ Len(listed) <= n
      BY <1>1, <1>2, <1>3, <2>1, PrefixesStay DEF Reading
    <2>3. Len(listed) # 0 => entries'[Len(listed)] = entries[Len(listed)]
      BY <1>2, <1>4, <2>1, <2>2
    <2>4. cursor # None =>
            cursor = IF Len(listed) = 0 THEN NoCursor ELSE Cursor(entries'[Len(listed)])
      BY <2>3 DEF Reading
    <2>5. before # None => before <= Len(entries')
      BY <1>2, <1>4, <2>1 DEF Reading
    <2>6. listed' = listed /\ cursor' = cursor /\ before' = before
      BY <1>3 DEF reader
    <2>7. cursor = None => before # None /\ before <= Len(listed)
      BY DEF Reading
    <2> QED
      BY <2>2, <2>4, <2>5, <2>6, <2>7 DEF Reading
  <1>11. Auditing'
    <2>1. step # "idle" => IsPrefix(view, entries')
      BY <1>1, <1>2, <1>3, PrefixesStay DEF Auditing, Types
    <2>2. step' = step /\ view' = view /\ checked' = checked /\ report' = report
      BY <1>3 DEF audit
    <2> QED
      BY <2>1, <2>2 DEF Auditing
  <1> QED
    BY <1>6, <1>7, <1>8, <1>9, <1>10, <1>11
\* A page adds the entries it shows to what the client has, and its cursor is the
\* last of them; a page that is not full is the last, and reaches the end.
LEMMA ListKeepsLInv ==
    ASSUME LInv, ListByWallet
    PROVE  LInv'
  <1> USE DEF LInv
  <1> DEFINE k == Len(listed)
             n == Len(entries)
             m == IF Len(Fetched) > Limit THEN Limit ELSE Len(Fetched)
             page == SubSeq(Fetched, 1, m)
  <1>1. /\ cursor # None /\ listed' = listed \o page
        /\ cursor' = NextCursor(Fetched)
        /\ before' = IF before = None THEN n ELSE before
        /\ UNCHANGED << clock, wallet, writers, audit >>
    BY DEF ListByWallet
  <1>2. /\ k \in Nat /\ n \in Nat /\ k <= n /\ Limit \in Nat /\ Limit > 0
        /\ entries \in Seq(Rows) /\ listed \in Seq(Rows) /\ before \in Nat \cup {None}
    BY ReadsAssumption DEF Types, Reading, IsPrefix
  <1>3. /\ Fetched \in Seq(Rows)
        /\ Len(Fetched) = IF n - k > Limit THEN Limit + 1 ELSE n - k
        /\ \A i \in 1..Len(Fetched) : Fetched[i] = entries[k + i]
    BY <1>1, FetchedIs
  <1>4. m \in Nat /\ m <= n - k /\ m <= Len(Fetched)
        /\ (Len(Fetched) <= Limit => m = n - k)
        /\ (Len(Fetched) > Limit => m = Limit)
    BY <1>2, <1>3
  <1> HIDE DEF m
  <1>5. page \in Seq(Rows) /\ Len(page) = m /\ \A i \in 1..m : page[i] = entries[k + i]
    <2>1. \A i \in 1..m : i \in 1..Len(Fetched) /\ Fetched[i] \in Rows
      BY <1>3, <1>4
    <2>2. /\ page \in Seq(Rows) /\ Len(page) = IF 1 <= m THEN m - 1 + 1 ELSE 0
          /\ \A i \in 1..(m - 1 + 1) : page[i] = Fetched[1 + i - 1]
      BY <1>4, <2>1, SubSeqProperties
    <2> HIDE DEF page
    <2> QED
      BY <1>3, <1>4, <2>1, <2>2
  <1> HIDE DEF page
  <1>6. /\ listed' \in Seq(Rows) /\ Len(listed') = k + m
        /\ \A i \in 1..(k + m) : listed'[i] = IF i <= k THEN listed[i] ELSE page[i - k]
    BY <1>1, <1>2, <1>5, ConcatProperties
  <1>7. \A i \in 1..(k + m) : listed'[i] = entries[i]
    <2>1. ASSUME NEW i \in 1..(k + m) PROVE listed'[i] = entries[i]
      <3>1. CASE i <= k
        BY <1>2, <1>6, <3>1 DEF Reading, IsPrefix
      <3>2. CASE i > k
        <4>1. i - k \in 1..m /\ k + (i - k) = i
          BY <1>2, <1>4, <3>2
        <4>2. listed'[i] = page[i - k]
          BY <1>2, <1>6, <3>2
        <4> QED
          BY <1>5, <4>1, <4>2
      <3> QED
        BY <1>2, <3>1, <3>2
    <2> QED
      BY <2>1
  <1>8. entries' = entries /\ clock' = clock /\ balance' = balance /\ version' = version
    BY <1>1 DEF wallet
  <1>9. IsPrefix(listed', entries')
    BY <1>2, <1>4, <1>6, <1>7, <1>8 DEF IsPrefix
  <1>10. before' \in Nat /\ before' <= n /\ before' # None
    BY <1>1, <1>2, ReadsAssumption DEF Reading
  <1> DEFINE CursorTrue ==
                 /\ cursor' \in [at : Int, id : Nat] \cup {None}
                 /\ cursor' # None =>
                       cursor' = IF Len(listed') = 0 THEN NoCursor
                                 ELSE Cursor(entries'[Len(listed')])
                 /\ cursor' = None => before' <= Len(listed')
  <1>11. ASSUME Len(Fetched) > Limit PROVE CursorTrue
    <2>1. cursor' = Cursor(Fetched[Limit])
      BY <1>1, <1>11 DEF NextCursor
    <2>2. Limit \in 1..Len(Fetched) /\ Fetched[Limit] \in Rows
      BY <1>2, <1>3, <1>11
    <2>3. Len(listed') = k + Limit /\ Len(listed') # 0
      BY <1>2, <1>4, <1>6, <1>11
    <2>4. cursor' = Cursor(entries[Len(listed')])
      BY <1>3, <2>1, <2>2, <2>3
    <2>5. cursor' \in [at : Int, id : Nat]
      BY <2>1, <2>2 DEF Cursor, Rows
    <2>6. cursor' # None
      BY <2>5, ReadsAssumption
    <2> QED
      BY <1>8, <2>3, <2>4, <2>5, <2>6
  <1>12. ASSUME ~ (Len(Fetched) > Limit) PROVE CursorTrue
    <2>1. cursor' = None
      BY <1>1, <1>12 DEF NextCursor
    <2>2. Len(listed') = n
      BY <1>2, <1>3, <1>4, <1>6, <1>12
    <2> QED
      BY <1>10, <2>1, <2>2
  <1>13. Reading'
    BY <1>6, <1>8, <1>9, <1>10, <1>11, <1>12 DEF Reading
  <1>14. /\ pc' = pc /\ seen' = seen /\ stamp' = stamp
         /\ step' = step /\ view' = view /\ checked' = checked /\ report' = report
    BY <1>1 DEF writers, audit
  <1>15. Types'
    BY <1>6, <1>8, <1>10, <1>11, <1>12, <1>14 DEF Types
  <1>16. Stamped' /\ UpToDate' /\ Balanced' /\ Auditing'
    BY <1>8, <1>14 DEF Stamped, UpToDate, Balanced, Auditing
  <1> QED
    BY <1>13, <1>15, <1>16
\* A listing that starts over holds nothing yet.
LEMMA StartOverKeepsLInv ==
    ASSUME LInv, StartOver
    PROVE  LInv'
  <1> USE DEF LInv
  <1>1. /\ cursor' = NoCursor /\ listed' = << >> /\ before' = None
        /\ clock' = clock /\ balance' = balance /\ version' = version /\ entries' = entries
        /\ pc' = pc /\ seen' = seen /\ stamp' = stamp
        /\ step' = step /\ view' = view /\ checked' = checked /\ report' = report
    BY DEF StartOver, wallet, writers, audit
  <1>2. NoCursor \in [at : Int, id : Nat] /\ NoCursor # None
    BY ReadsAssumption DEF NoCursor
  <1>3. listed' \in Seq(Rows) /\ Len(listed') = 0 /\ Len(entries) \in Nat
    BY <1>1 DEF Types
  <1>4. Types'
    BY <1>1, <1>2, <1>3 DEF Types
  <1>5. Reading'
    BY <1>1, <1>2, <1>3 DEF Reading, IsPrefix
  <1>6. Stamped' /\ UpToDate' /\ Balanced' /\ Auditing'
    BY <1>1 DEF Stamped, UpToDate, Balanced, Auditing
  <1> QED
    BY <1>4, <1>5, <1>6

\* Time passes.
LEMMA TickKeepsLInv ==
    ASSUME LInv, Tick
    PROVE  LInv'
  <1> USE DEF LInv
  <1>1. /\ clock' = clock + 1 /\ clock \in Nat
        /\ cursor' = cursor /\ listed' = listed /\ before' = before
        /\ balance' = balance /\ version' = version /\ entries' = entries
        /\ pc' = pc /\ seen' = seen /\ stamp' = stamp
        /\ step' = step /\ view' = view /\ checked' = checked /\ report' = report
    BY DEF Tick, wallet, writers, reader, audit, Types
  <1>2. Types'
    BY <1>1 DEF Types
  <1>3. \A i \in 1..Len(entries) : entries[i].at \in Nat
    <2>1. \A i \in 1..Len(entries) : entries[i] \in Rows
      BY DEF Types
    <2> QED
      BY <2>1 DEF Rows
  <1>4. Stamped'
    BY <1>1, <1>3 DEF Stamped
  <1>5. UpToDate'
    <2>1. \A w \in Writers : stamp[w] \in Nat
      BY DEF Types
    <2> QED
      BY <1>1, <2>1 DEF UpToDate
  <1>6. Balanced' /\ Reading' /\ Auditing'
    BY <1>1 DEF Balanced, Reading, Auditing
  <1> QED
    BY <1>2, <1>4, <1>5, <1>6

\* The snapshot of a reconciliation is the ledger when it reads the balance, and
\* what it counts and sums later is that snapshot.
LEMMA ReconcileKeepsLInv ==
    ASSUME LInv, Reconcile
    PROVE  LInv'
  <1> USE DEF LInv
  <1>1. /\ clock' = clock
        /\ cursor' = cursor /\ listed' = listed /\ before' = before
        /\ balance' = balance /\ version' = version /\ entries' = entries
        /\ pc' = pc /\ seen' = seen /\ stamp' = stamp
    BY DEF Reconcile, ReadStored, Count, Sum, ReconcileAgain, wallet, writers, reader
  <1>2. Stamped' /\ UpToDate' /\ Balanced' /\ Reading'
    BY <1>1 DEF Stamped, UpToDate, Balanced, Reading
  <1> DEFINE Reports ==
                 [stored : Int, calculated : Int, consistent : BOOLEAN, checkedEntries : Nat]
  <1>3. /\ view \in Seq(Rows) /\ Len(view) \in Nat /\ SumOf(view) \in Int
        /\ entries \in Seq(Rows) /\ checked \in Nat /\ balance \in Int /\ report \in Reports
    <2>1. \A s \in Seq(Rows) : SumOf(s) \in Int
      <3>1. Entry(0, 0, 0) \in Rows
        BY DEF Entry, Rows
      <3> QED
        BY <3>1, Summing
    <2> QED
      BY <2>1 DEF Types
  <1> DEFINE AuditTypes ==
                 /\ step' \in {"idle", "count", "sum", "done"}
                 /\ view' \in Seq(Rows) /\ checked' \in Nat /\ report' \in Reports
  <1>4. ASSUME ReadStored PROVE AuditTypes /\ Auditing'
    <2>1. /\ view' = entries /\ step' = "count" /\ checked' = checked
          /\ report' = [report EXCEPT !.stored = balance]
      BY <1>4 DEF ReadStored
    <2>2. report' \in Reports /\ report'.stored = balance
      BY <1>3, <2>1
    <2>3. IsPrefix(view', entries')
      BY <1>1, <1>3, <2>1 DEF IsPrefix
    <2> QED
      BY <1>3, <2>1, <2>2, <2>3 DEF Auditing, Balanced
  <1>5. ASSUME Count PROVE AuditTypes /\ Auditing'
    <2>1. /\ view' = view /\ step = "count" /\ step' = "sum" /\ checked' = Len(view)
          /\ report' = report
      BY <1>5 DEF Count, Visible
    <2> QED
      BY <1>1, <1>3, <2>1 DEF Auditing
  <1>6. ASSUME Sum PROVE AuditTypes /\ Auditing'
    <2> DEFINE calculated == IF checked = 0 THEN 0 ELSE SumOf(view)
    <2>1. /\ view' = view /\ step = "sum" /\ step' = "done" /\ checked' = checked
          /\ report' = [stored |-> report.stored, calculated |-> calculated,
                        consistent |-> report.stored = calculated,
                        checkedEntries |-> checked]
      BY <1>6 DEF Sum, Visible
    <2>2. /\ IsPrefix(view, entries) /\ report.stored = SumOf(view)
          /\ checked = Len(view)
      BY <2>1 DEF Auditing
    <2>3. calculated = SumOf(view)
      <3>1. CASE checked = 0
        <4>1. view = << >>
          BY <1>3, <2>2, <3>1, EmptySeq
        <4> QED
          BY <3>1, <4>1, Summing
      <3>2. CASE checked # 0
        BY <3>2
      <3> QED
        BY <3>1, <3>2
    <2> HIDE DEF calculated
    <2>4. report.stored \in Int /\ calculated \in Int
      BY <1>3, <2>3
    <2>5. report' \in Reports
      BY <1>3, <2>1, <2>4
    <2>6. /\ report'.stored = SumOf(view) /\ report'.consistent
          /\ report'.checkedEntries = Len(view)
      BY <2>1, <2>2, <2>3
    <2> QED
      BY <1>1, <1>3, <2>1, <2>2, <2>5, <2>6 DEF Auditing
  <1>7. ASSUME ReconcileAgain PROVE AuditTypes /\ Auditing'
    <2>1. step' = "idle" /\ view' = << >> /\ checked' = 0 /\ report' = NoReport
      BY <1>7 DEF ReconcileAgain
    <2>2. report' \in Reports
      BY <2>1 DEF NoReport
    <2> QED
      BY <2>1, <2>2 DEF Auditing
  <1>8. AuditTypes /\ Auditing'
    BY <1>4, <1>5, <1>6, <1>7 DEF Reconcile
  <1>9. Types'
    BY <1>1, <1>8 DEF Types
  <1> QED
    BY <1>2, <1>8, <1>9

\* Every step keeps the invariant.
LEMMA NextLInv == LInv /\ [Next]_vars => LInv'
  <1> SUFFICES ASSUME LInv, [Next]_vars PROVE LInv'
    OBVIOUS
  <1>1. ASSUME NEW w \in Writers, FindWallet(w) \/ Stamp(w) \/ Retry(w) \/ Reject(w)
        PROVE  LInv'
    BY <1>1, WriterKeepsLInv
  <1>2. ASSUME NEW w \in Writers, Settle(w) PROVE LInv'
    BY <1>2, SettleKeepsLInv
  <1>3. CASE ListByWallet
    BY <1>3, ListKeepsLInv
  <1>4. CASE StartOver
    BY <1>4, StartOverKeepsLInv
  <1>5. CASE Reconcile
    BY <1>5, ReconcileKeepsLInv
  <1>6. CASE Tick
    BY <1>6, TickKeepsLInv
  <1>7. CASE UNCHANGED vars
    BY <1>7 DEF LInv, Types, Stamped, UpToDate, Balanced, Reading, Auditing, vars, wallet,
                writers, reader, audit
  <1> QED
    BY <1>1, <1>2, <1>3, <1>4, <1>5, <1>6, <1>7 DEF Next

\* The invariant holds in every state.
LEMMA AlwaysLInv == Spec => []LInv
  BY InitLInv, NextLInv, PTL DEF Spec

--------------------------------------------------------------------------------
(* Theorems.                                                                  *)

\* The pages a client has got, one after the other, are the first entries of the
\* ledger in the order they were committed, however settlements and pages interleave
\* (ledger_repository.go:104-146, process_wager_transaction.go:296-304).
THEOREM PagesAreTheLedger == Spec => []PagesFollowTheLedger
  <1>1. LInv => PagesFollowTheLedger
    <2> SUFFICES ASSUME LInv PROVE PagesFollowTheLedger
      OBVIOUS
    <2>1. listed \in Seq(Rows) /\ entries \in Seq(Rows) /\ IsPrefix(listed, entries)
      BY DEF LInv, Types, Reading
    <2> QED
      BY <2>1, Prefixes DEF PagesFollowTheLedger
  <1> QED
    BY <1>1, AlwaysLInv, PTL

\* A listing that has ended holds at least what the wallet had when it began, for
\* any page size (ledger_repository.go:148-155).
THEOREM ListingsAreComplete == Spec => []ListingIsComplete
  <1>1. LInv => ListingIsComplete
    <2> SUFFICES ASSUME LInv, cursor = None PROVE Len(listed) >= before
      BY DEF ListingIsComplete
    <2>1. before # None /\ before <= Len(listed) /\ before \in Nat \cup {None}
          /\ Len(listed) \in Nat
      BY DEF LInv, Types, Reading
    <2> QED
      BY <2>1
  <1> QED
    BY <1>1, AlwaysLInv, PTL

\* A reconciliation that races with settlements reports no divergence, and the
\* entries it counted make up the balance it reports, for any deltas and any number
\* of writers (reconcile_wallet.go:39-64, txmanager.go:62-80).
THEOREM NoDivergenceReported == Spec => []NoFalseDivergence
  <1>1. LInv => NoFalseDivergence
    <2> SUFFICES ASSUME LInv, step = "done"
                 PROVE  /\ report.consistent
                        /\ report.stored = SumOf(SubSeq(entries, 1, report.checkedEntries))
      BY DEF NoFalseDivergence
    <2>1. /\ IsPrefix(view, entries) /\ report.stored = SumOf(view)
          /\ report.consistent /\ report.checkedEntries = Len(view)
      BY DEF LInv, Auditing
    <2>2. view \in Seq(Rows) /\ entries \in Seq(Rows)
      BY DEF LInv, Types
    <2>3. view = SubSeq(entries, 1, Len(view))
      BY <2>1, <2>2, Prefixes
    <2> QED
      BY <2>1, <2>3
  <1> QED
    BY <1>1, AlwaysLInv, PTL
================================================================================

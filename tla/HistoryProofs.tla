---------------------------- MODULE HistoryProofs ----------------------------
(***************************************************************************)
(* Lemmas about the algorithms of History, for every tree that grows and   *)
(* every budget: what a branch and its events are, what an acknowledgement *)
(* covers (AdvanceSyncAck), what the plan of archives of a branch has in   *)
(* common with that of its ancestors (PlanArchives), and what a selection  *)
(* and a compaction cover.                                                 *)
(*                                                                         *)
(* Recursive functions are reasoned about by induction on their index,     *)
(* which rests on the well-foundedness of Nat (Upwards): it gives that a   *)
(* solution of the recursion equation exists, so that CHOOSE takes one,    *)
(* and then what the solution satisfies.                                   *)
(***************************************************************************)
EXTENDS History, FiniteSetTheorems, SequenceTheorems, WellFoundedInduction, TLAPS

LEMMA LeastNat ==
  ASSUME NEW S \in SUBSET Nat, S # {}
  PROVE \E n \in S : \A m \in S : n <= m
<1>1. IsWellFoundedOn({ss \in Nat \X Nat : ss[1] < ss[2]}, Nat)
  BY NatLessThanWellFounded DEF OpToRel
<1>2. PICK n \in S : \A m \in S : ~ (<<m, n>> \in {ss \in Nat \X Nat : ss[1] < ss[2]})
  BY <1>1, WFMin
<1>3. \A m \in S : ~ (m < n)
  BY <1>2
<1>4. n \in Nat /\ \A m \in S : m \in Nat
  OBVIOUS
<1> QED BY <1>3, <1>4

LEMMA MinIsLeast ==
  ASSUME NEW S \in SUBSET Nat, S # {}
  PROVE Min(S) \in S /\ \A m \in S : Min(S) <= m
BY LeastNat DEF Min

\* Trees that grow: the parent of an entry is an older one, or none.
WellFormed(tree) ==
  /\ Len(tree) \in Nat
  /\ \A i \in 1..Len(tree) : tree[i].parent \in 0..(i - 1) /\ tree[i].parts \in Nat \ {0}

\* One step of the recursion of Lineage.
Grows(tree, g, n) ==
  g = [i \in 0..n |-> IF i = 0 THEN <<>> ELSE Append(g[tree[i].parent], i)]

LEMMA LineageUpTo ==
  ASSUME NEW tree, WellFormed(tree)
  PROVE \A n \in 0..Len(tree) : \E g : Grows(tree, g, n)
<1> DEFINE Bad == {n \in 0..Len(tree) : ~ \E g : Grows(tree, g, n)}
<1>0. Len(tree) \in Nat BY DEF WellFormed
<1> SUFFICES ASSUME Bad # {} PROVE FALSE
  OBVIOUS
<1>5. Bad \in SUBSET Nat
  BY <1>0
<1>1. PICK n \in Bad : \A m \in Bad : n <= m
  BY <1>5, LeastNat
<1>2. n \in 0..Len(tree) /\ n \in Nat
  BY <1>0
<1>3. CASE n = 0
  <2>1. Grows(tree, [i \in 0..0 |-> <<>>], 0)
    BY DEF Grows
  <2> QED BY <1>3, <2>1
<1>4. CASE n # 0
  <2>1. n - 1 \in 0..Len(tree) /\ ~ (n <= n - 1)
    BY <1>0, <1>2, <1>4
  <2>2. PICK g : Grows(tree, g, n - 1)
    BY <1>1, <2>1
  <2>3. PICK h : h = [i \in 0..n |-> IF i < n THEN g[i] ELSE Append(g[tree[n].parent], n)]
    OBVIOUS
  <2>4. \A i \in 0..(n-1) : h[i] = g[i]
    BY <1>2, <1>4, <2>3
  <2>5. \A i \in 1..n : tree[i].parent \in 0..(i - 1) /\ tree[i].parent \in 0..(n - 1)
    BY <1>0, <1>2 DEF WellFormed
  <2>6. \A i \in 0..n : h[i] = IF i = 0 THEN <<>> ELSE Append(h[tree[i].parent], i)
    <3> TAKE i \in 0..n
    <3>1. CASE i < n
      <4>1. h[i] = g[i] /\ i \in 0..(n-1) BY <1>2, <1>4, <2>4, <3>1
      <4>2. g[i] = IF i = 0 THEN <<>> ELSE Append(g[tree[i].parent], i)
        BY <2>2, <4>1 DEF Grows
      <4>3. i # 0 => h[tree[i].parent] = g[tree[i].parent]
        BY <1>2, <2>4, <2>5
      <4> QED BY <4>1, <4>2, <4>3
    <3>2. CASE ~ (i < n)
      <4>1. i = n /\ i # 0 BY <1>2, <1>4, <3>2
      <4>2. h[n] = Append(g[tree[n].parent], n) BY <1>2, <2>3, <4>1
      <4>3. h[tree[n].parent] = g[tree[n].parent] BY <1>2, <1>4, <2>4, <2>5
      <4> QED BY <4>1, <4>2, <4>3
    <3> QED BY <3>1, <3>2
  <2>7. Grows(tree, h, n)
    BY <2>3, <2>6 DEF Grows
  <2> QED BY <2>7
<1> QED BY <1>3, <1>4

LEMMA LineageGrows ==
  ASSUME NEW tree, WellFormed(tree)
  PROVE Grows(tree, Lineage(tree), Len(tree))
<1>1. Len(tree) \in 0..Len(tree) BY DEF WellFormed
<1>2. \E g : Grows(tree, g, Len(tree)) BY <1>1, LineageUpTo
<1> QED BY <1>2 DEF Grows, Lineage


LEMMA Upwards ==
  ASSUME NEW n \in Nat, NEW S, 0 \in S,
         \A i \in 1..n : 0..(i - 1) \subseteq S => i \in S
  PROVE 0..n \subseteq S
<1> DEFINE Bad == {i \in 0..n : i \notin S}
<1> SUFFICES ASSUME Bad # {} PROVE FALSE
  OBVIOUS
<1>1. Bad \in SUBSET Nat
  OBVIOUS
<1>2. PICK i \in Bad : \A m \in Bad : i <= m
  BY <1>1, LeastNat
<1>3. i \in 1..n
  OBVIOUS
<1>4. 0..(i - 1) \subseteq S
  BY <1>2, <1>3
<1> QED BY <1>3, <1>4

LEMMA BranchStep ==
  ASSUME NEW tree, WellFormed(tree)
  PROVE /\ Branch(tree, 0) = <<>>
        /\ \A i \in 1..Len(tree) : Branch(tree, i) = Append(Branch(tree, tree[i].parent), i)
<1>0. Len(tree) \in Nat /\ 0 \in 0..Len(tree)
  BY DEF WellFormed
<1>1. Lineage(tree) = [i \in 0..Len(tree) |->
                         IF i = 0 THEN <<>> ELSE Append(Lineage(tree)[tree[i].parent], i)]
  BY LineageGrows DEF Grows
<1>2. Branch(tree, 0) = <<>>
  BY <1>0, <1>1 DEF Branch
<1>3. ASSUME NEW i \in 1..Len(tree)
      PROVE Branch(tree, i) = Append(Branch(tree, tree[i].parent), i)
  <2>1. i \in 0..Len(tree) /\ i # 0 BY <1>0
  <2> QED BY <1>1, <2>1 DEF Branch
<1> QED BY <1>2, <1>3

LEMMA BranchIsPath ==
  ASSUME NEW tree, WellFormed(tree)
  PROVE \A i \in 0..Len(tree) :
          /\ Branch(tree, i) \in Seq(Nat)
          /\ \A k \in 1..Len(Branch(tree, i)) : Branch(tree, i)[k] \in 1..i
<1> DEFINE Path(b, i) == b \in Seq(Nat) /\ \A k \in 1..Len(b) : b[k] \in 1..i
           S == {i \in 0..Len(tree) : Path(Branch(tree, i), i)}
<1>0. Len(tree) \in Nat
  BY DEF WellFormed
<1>1. 0 \in S
  <2>1. PICK e : e = Branch(tree, 0)
    OBVIOUS
  <2>5. e = <<>>
    BY <2>1, BranchStep
  <2>6. e \in Seq(Nat)
    BY <2>5
  <2>7. Len(e) = 0
    BY <2>5
  <2>2. e \in Seq(Nat) /\ Len(e) = 0
    BY <2>6, <2>7
  <2>3. Path(e, 0)
    BY <2>2
  <2>4. 0 \in 0..Len(tree)
    BY <1>0
  <2> QED BY <2>1, <2>3, <2>4
<1>2. ASSUME NEW i \in 1..Len(tree), 0..(i - 1) \subseteq S PROVE i \in S
  <2>1. PICK p : p = tree[i].parent
    OBVIOUS
  <2>2. p \in 0..(i - 1) /\ i \in 1..i /\ 1..p \subseteq 1..i
    BY <1>0, <2>1 DEF WellFormed
  <2>3. PICK b : b = Branch(tree, p)
    OBVIOUS
  <2>4. b \in Seq(Nat) /\ \A k \in 1..Len(b) : b[k] \in 1..p
    BY <1>2, <2>2, <2>3
  <2>5. PICK c : c = Append(b, i)
    OBVIOUS
  <2>6. c \in Seq(Nat) /\ Len(c) = Len(b) + 1 /\ Len(b) \in Nat
    BY <1>0, <2>4, <2>5
  <2>7. \A k \in 1..Len(c) : c[k] \in 1..i
    <3> TAKE k \in 1..Len(c)
    <3>1. CASE k \in 1..Len(b)
      BY <2>2, <2>4, <2>5, <3>1
    <3>2. CASE k = Len(b) + 1
      BY <2>2, <2>4, <2>5, <3>2
    <3> QED BY <2>6, <3>1, <3>2
  <2>8. Branch(tree, i) = c
    BY <2>1, <2>3, <2>5, BranchStep
  <2>9. Path(Branch(tree, i), i)
    BY <2>6, <2>7, <2>8
  <2> QED BY <1>0, <2>9
<1>3. 0..Len(tree) \subseteq S
  BY <1>0, <1>1, <1>2, Upwards
<1> QED BY <1>3

LEMMA AncestorStep ==
  ASSUME NEW tree, WellFormed(tree)
  PROVE /\ \A a : ~ IsAncestorEntry(tree, a, 0)
        /\ \A i \in 1..Len(tree) : \A a :
             IsAncestorEntry(tree, a, i) <=> a = i \/ IsAncestorEntry(tree, a, tree[i].parent)
<1>0. Len(tree) \in Nat
  BY DEF WellFormed
<1>1. \A a : ~ IsAncestorEntry(tree, a, 0)
  BY BranchStep DEF IsAncestorEntry, Contains
<1>2. ASSUME NEW i \in 1..Len(tree), NEW a
      PROVE IsAncestorEntry(tree, a, i) <=> a = i \/ IsAncestorEntry(tree, a, tree[i].parent)
  <2>1. tree[i].parent \in 0..Len(tree)
    BY <1>0 DEF WellFormed
  <2>2. PICK b : b = Branch(tree, tree[i].parent)
    OBVIOUS
  <2>3. b \in Seq(Nat)
    BY <2>1, <2>2, BranchIsPath
  <2>4. Branch(tree, i) = Append(b, i)
    BY <2>2, BranchStep
  <2>5. Len(Append(b, i)) = Len(b) + 1 /\ Append(b, i)[Len(b) + 1] = i /\ Len(b) \in Nat
    BY <2>3
  <2>6. \A k \in 1..Len(b) : Append(b, i)[k] = b[k]
    BY <2>3
  <2>7. Contains(Append(b, i), a) <=> a = i \/ Contains(b, a)
    BY <2>5, <2>6 DEF Contains
  <2> QED BY <2>2, <2>4, <2>7 DEF IsAncestorEntry
<1> QED BY <1>1, <1>2

LEMMA AncestorBound ==
  ASSUME NEW tree, WellFormed(tree), NEW d \in 0..Len(tree), NEW a, IsAncestorEntry(tree, a, d)
  PROVE a \in 1..d
<1>1. \A k \in 1..Len(Branch(tree, d)) : Branch(tree, d)[k] \in 1..d
  BY BranchIsPath
<1> QED BY <1>1 DEF IsAncestorEntry, Contains

LEMMA AncestorTransitive ==
  ASSUME NEW tree, WellFormed(tree), NEW d \in 0..Len(tree), NEW b, NEW a,
         IsAncestorEntry(tree, a, b), IsAncestorEntry(tree, b, d)
  PROVE IsAncestorEntry(tree, a, d)
<1> DEFINE S == {i \in 0..Len(tree) : IsAncestorEntry(tree, b, i) => IsAncestorEntry(tree, a, i)}
<1>0. Len(tree) \in Nat
  BY DEF WellFormed
<1>1. 0 \in S
  BY <1>0, AncestorStep
<1>2. ASSUME NEW i \in 1..Len(tree), 0..(i - 1) \subseteq S PROVE i \in S
  <2>1. tree[i].parent \in 0..(i - 1)
    BY DEF WellFormed
  <2>2. IsAncestorEntry(tree, b, tree[i].parent) => IsAncestorEntry(tree, a, tree[i].parent)
    BY <1>2, <2>1
  <2>3. IsAncestorEntry(tree, b, i) => IsAncestorEntry(tree, a, i)
    BY <2>2, AncestorStep
  <2> QED BY <1>0, <2>3
<1>3. 0..Len(tree) \subseteq S
  BY <1>0, <1>1, <1>2, Upwards
<1> QED BY <1>3

LEMMA BranchKept ==
  ASSUME NEW tree, WellFormed(tree), NEW longer, WellFormed(longer), Len(tree) <= Len(longer),
         \A i \in 1..Len(tree) : longer[i] = tree[i]
  PROVE \A i \in 0..Len(tree) : Branch(longer, i) = Branch(tree, i)
<1> DEFINE S == {i \in 0..Len(tree) : Branch(longer, i) = Branch(tree, i)}
<1>0. Len(tree) \in Nat /\ Len(longer) \in Nat
  BY DEF WellFormed
<1>1. 0 \in S
  BY <1>0, BranchStep
<1>2. ASSUME NEW i \in 1..Len(tree), 0..(i - 1) \subseteq S PROVE i \in S
  <2>1. tree[i].parent \in 0..(i - 1) /\ longer[i].parent = tree[i].parent /\ i \in 1..Len(longer)
    BY <1>0 DEF WellFormed
  <2>2. Branch(longer, tree[i].parent) = Branch(tree, tree[i].parent)
    BY <1>2, <2>1
  <2>3. Branch(longer, i) = Branch(tree, i)
    BY <2>1, <2>2, BranchStep
  <2> QED BY <1>0, <2>3
<1>3. 0..Len(tree) \subseteq S
  BY <1>0, <1>1, <1>2, Upwards
<1> QED BY <1>3


Flattens(s, f, n) ==
  f = [i \in 1..n |-> IF i = 1 THEN s[i] ELSE f[i - 1] \o s[i]]

LEMMA FlattenUpTo ==
  ASSUME NEW T, NEW s \in Seq(Seq(T))
  PROVE \A n \in 0..Len(s) :
          \E f : Flattens(s, f, n) /\ f \in [1..n -> Seq(T)]
<1> DEFINE Good(n) == \E f : Flattens(s, f, n) /\ f \in [1..n -> Seq(T)]
           S == {n \in 0..Len(s) : Good(n)}
<1>0. Len(s) \in Nat
  OBVIOUS
<1>1. 0 \in S
  <2>1. PICK f : f = [i \in 1..0 |-> s[i]]
    OBVIOUS
  <2>2. Flattens(s, f, 0) /\ f \in [1..0 -> Seq(T)]
    BY <2>1 DEF Flattens
  <2>3. Good(0)
    BY <2>2
  <2>4. 0 \in 0..Len(s)
    BY <1>0
  <2> QED BY <2>3, <2>4
<1>2. ASSUME NEW n \in 1..Len(s), 0..(n - 1) \subseteq S PROVE n \in S
  <2>1. n \in Nat /\ n - 1 \in 0..(n - 1) /\ n \in 0..Len(s) /\ n - 1 \in Nat
    BY <1>0
  <2>2. n - 1 \in S
    BY <1>2, <2>1
  <2>3. Good(n - 1)
    BY <2>2
  <2>4. PICK f : Flattens(s, f, n - 1) /\ f \in [1..(n-1) -> Seq(T)]
    BY <2>3
  <2>5. PICK g : g = [i \in 1..n |-> IF i < n THEN f[i]
                                      ELSE IF n = 1 THEN s[n] ELSE f[n - 1] \o s[n]]
    OBVIOUS
  <2>6. s[n] \in Seq(T)
    OBVIOUS
  <2>7. \A i \in 1..(n-1) : g[i] = f[i]
    BY <2>1, <2>5
  <2>8. g[n] = IF n = 1 THEN s[n] ELSE f[n - 1] \o s[n]
    BY <2>1, <2>5
  <2>9. g[n] \in Seq(T)
    <3>1. CASE n = 1
      BY <2>6, <2>8, <3>1
    <3>2. CASE n # 1
      <4>1. n - 1 \in 1..(n-1) BY <2>1, <3>2
      <4>2. f[n-1] \in Seq(T) BY <2>4, <4>1
      <4> QED BY <2>6, <2>8, <3>2, <4>2
    <3> QED BY <3>1, <3>2
  <2>10. \A i \in 1..n : g[i] \in Seq(T)
    <3> TAKE i \in 1..n
    <3>1. CASE i = n
      BY <2>9, <3>1
    <3>2. CASE i # n
      <4>1. i \in 1..(n-1) BY <2>1, <3>2
      <4>2. f[i] \in Seq(T) BY <2>4, <4>1
      <4> QED BY <2>7, <4>1, <4>2
    <3> QED BY <3>1, <3>2
  <2>11. g \in [1..n -> Seq(T)]
    BY <2>5, <2>10
  <2>12. \A i \in 1..n : g[i] = IF i = 1 THEN s[i] ELSE g[i - 1] \o s[i]
    <3> TAKE i \in 1..n
    <3>1. CASE i = n
      <4>1. CASE n = 1
        BY <2>8, <3>1, <4>1
      <4>2. CASE n # 1
        <5>1. n - 1 \in 1..(n-1) BY <2>1, <4>2
        <5>2. g[n - 1] = f[n - 1] BY <2>7, <5>1
        <5> QED BY <2>8, <3>1, <4>2, <5>2
      <4> QED BY <4>1, <4>2
    <3>2. CASE i # n
      <4>1. i \in 1..(n-1) BY <2>1, <3>2
      <4>2. f[i] = IF i = 1 THEN s[i] ELSE f[i - 1] \o s[i]
        BY <2>4, <4>1 DEF Flattens
      <4>3. g[i] = f[i] BY <2>7, <4>1
      <4>4. i # 1 => i - 1 \in 1..(n-1) BY <2>1, <4>1
      <4>5. i # 1 => g[i - 1] = f[i - 1] BY <2>7, <4>4
      <4> QED BY <4>2, <4>3, <4>5
    <3> QED BY <3>1, <3>2
  <2>13. Flattens(s, g, n)
    BY <2>11, <2>12 DEF Flattens
  <2>14. Good(n)
    BY <2>11, <2>13
  <2> QED BY <2>1, <2>14
<1>3. 0..Len(s) \subseteq S
  BY <1>0, <1>1, <1>2, Upwards
<1> QED BY <1>3


LEMMA FlattensAgree ==
  ASSUME NEW s, NEW t, NEW f, NEW g, NEW n \in Nat, NEW m \in Nat, n <= m,
         Flattens(s, f, n), Flattens(t, g, m), \A i \in 1..n : s[i] = t[i]
  PROVE \A i \in 1..n : f[i] = g[i]
<1> DEFINE S == {i \in 0..n : i # 0 => f[i] = g[i]}
<1>1. 0 \in S
  OBVIOUS
<1>2. ASSUME NEW i \in 1..n, 0..(i - 1) \subseteq S PROVE i \in S
  <2>1. i \in 1..m /\ i \in 0..n /\ i - 1 \in 0..(i - 1)
    OBVIOUS
  <2>2. f[i] = IF i = 1 THEN s[i] ELSE f[i - 1] \o s[i]
    BY DEF Flattens
  <2>3. g[i] = IF i = 1 THEN t[i] ELSE g[i - 1] \o t[i]
    BY <2>1 DEF Flattens
  <2>4. i # 1 => f[i - 1] = g[i - 1]
    <3> SUFFICES ASSUME i # 1 PROVE f[i - 1] = g[i - 1]
      OBVIOUS
    <3>1. i - 1 \in S /\ i - 1 # 0 BY <1>2, <2>1
    <3> QED BY <3>1
  <2>5. f[i] = g[i]
    BY <2>2, <2>3, <2>4
  <2> QED BY <2>1, <2>5
<1>3. 0..n \subseteq S
  BY <1>1, <1>2, Upwards
<1> QED BY <1>3

LEMMA FlattenIs ==
  ASSUME NEW T, NEW s \in Seq(Seq(T)), s # <<>>
  PROVE \E f : /\ Flattens(s, f, Len(s)) /\ f \in [1..Len(s) -> Seq(T)]
               /\ FlattenSeq(s) = f[Len(s)]
<1>0. Len(s) \in Nat /\ Len(s) # 0 /\ Len(s) \in 0..Len(s) /\ Len(s) \in 1..Len(s)
  OBVIOUS
<1>1. PICK f : Flattens(s, f, Len(s)) /\ f \in [1..Len(s) -> Seq(T)]
  BY <1>0, FlattenUpTo
<1>2. PICK g : g = CHOOSE h : Flattens(s, h, Len(s))
  OBVIOUS
<1>3. Flattens(s, g, Len(s))
  BY <1>1, <1>2
<1>4. FlattenSeq(s) = g[Len(s)]
  BY <1>0, <1>2 DEF FlattenSeq, Flattens
<1>5. \A i \in 1..Len(s) : f[i] = g[i]
  BY <1>0, <1>1, <1>3, FlattensAgree
<1>6. FlattenSeq(s) = f[Len(s)]
  BY <1>0, <1>4, <1>5
<1> QED BY <1>1, <1>6

LEMMA FlattenStep ==
  ASSUME NEW T, NEW s \in Seq(Seq(T)), NEW x \in Seq(T)
  PROVE /\ FlattenSeq(s) \in Seq(T)
        /\ FlattenSeq(Append(s, x)) = FlattenSeq(s) \o x
<1>0. PICK t : t = Append(s, x)
  OBVIOUS
<1>1. t \in Seq(Seq(T)) /\ t # <<>> /\ Len(t) = Len(s) + 1 /\ Len(s) \in Nat
  BY <1>0
<1>2. \A i \in 1..Len(s) : t[i] = s[i]
  BY <1>0
<1>3. t[Len(t)] = x
  BY <1>0, <1>1
<1>4. PICK g : /\ Flattens(t, g, Len(t)) /\ g \in [1..Len(t) -> Seq(T)]
               /\ FlattenSeq(t) = g[Len(t)]
  BY <1>1, FlattenIs
<1>5. g[Len(t)] = IF Len(t) = 1 THEN t[Len(t)] ELSE g[Len(t) - 1] \o t[Len(t)]
  <2>1. Len(t) \in 1..Len(t) BY <1>1
  <2> QED BY <1>4, <2>1 DEF Flattens
<1>6. CASE s = <<>>
  <2>1. FlattenSeq(s) = <<>>
    BY <1>6 DEF FlattenSeq
  <2>2. Len(t) = 1
    BY <1>1, <1>6
  <2>3. FlattenSeq(t) = x
    BY <1>3, <1>4, <1>5, <2>2
  <2>4. <<>> \o x = x /\ <<>> \in Seq(T)
    OBVIOUS
  <2> QED BY <1>0, <2>1, <2>3, <2>4
<1>7. CASE s # <<>>
  <2>1. PICK f : /\ Flattens(s, f, Len(s)) /\ f \in [1..Len(s) -> Seq(T)]
                 /\ FlattenSeq(s) = f[Len(s)]
    BY <1>7, FlattenIs
  <2>2. Len(s) \in 1..Len(s) /\ Len(t) # 1 /\ Len(t) - 1 = Len(s)
    BY <1>1, <1>7
  <2>3. \A i \in 1..Len(s) : s[i] = t[i]
    BY <1>2
  <2>4. \A i \in 1..Len(s) : f[i] = g[i]
    <3>1. PICK n, m : n = Len(s) /\ m = Len(t)
      OBVIOUS
    <3>2. n \in Nat /\ m \in Nat /\ n <= m
      BY <1>1, <3>1
    <3>3. Flattens(s, f, n) /\ Flattens(t, g, m) /\ \A i \in 1..n : s[i] = t[i]
      BY <1>4, <2>1, <2>3, <3>1
    <3>4. \A i \in 1..n : f[i] = g[i]
      BY ONLY <3>2, <3>3, FlattensAgree
    <3> QED BY <3>1, <3>4
  <2>5. g[Len(s)] = FlattenSeq(s)
    BY <2>1, <2>2, <2>4
  <2>6. FlattenSeq(t) = FlattenSeq(s) \o x
    BY <1>3, <1>4, <1>5, <2>2, <2>5
  <2>7. FlattenSeq(s) \in Seq(T)
    BY <2>1, <2>2
  <2> QED BY <1>0, <2>6, <2>7
<1> QED BY <1>6, <1>7


\* The events of a tree, and those of a branch.
Recorded(tree) == UNION {ToSet(EventsOf(tree, i)) : i \in 1..Len(tree)}
Events(tree, i) == ProjectPiEntries(tree, Branch(tree, i))

LEMMA FunctionIsSeq ==
  ASSUME NEW T, NEW n \in Nat, NEW f \in [1..n -> T]
  PROVE f \in Seq(T) /\ Len(f) = n
OBVIOUS

LEMMA EventsOfEntry ==
  ASSUME NEW tree, WellFormed(tree), NEW i \in 1..Len(tree)
  PROVE /\ EventsOf(tree, i) \in Seq(Recorded(tree))
        /\ Len(EventsOf(tree, i)) = tree[i].parts
        /\ tree[i].parts \in Nat \ {0}
        /\ \A p \in 1..tree[i].parts :
             EventsOf(tree, i)[p].entry = i /\ EventsOf(tree, i)[p].part = p
<1>1. tree[i].parts \in Nat \ {0}
  BY DEF WellFormed
<1>2. DOMAIN EventsOf(tree, i) = 1..tree[i].parts
  BY DEF EventsOf
<1>3. \A p \in 1..tree[i].parts :
        EventsOf(tree, i)[p].entry = i /\ EventsOf(tree, i)[p].part = p
  BY DEF EventsOf
<1>4. \A p \in 1..tree[i].parts : EventsOf(tree, i)[p] \in Recorded(tree)
  <2> TAKE p \in 1..tree[i].parts
  <2>1. PICK es : es = EventsOf(tree, i)
    OBVIOUS
  <2>2. p \in DOMAIN es
    BY <1>2, <2>1
  <2>3. es[p] \in ToSet(es)
    BY <2>2 DEF ToSet
  <2> QED BY <2>1, <2>3 DEF Recorded
<1>5. EventsOf(tree, i) = [p \in 1..tree[i].parts |-> EventsOf(tree, i)[p]]
  BY DEF EventsOf
<1>6. EventsOf(tree, i) \in [1..tree[i].parts -> Recorded(tree)]
  BY <1>4, <1>5
<1>7. EventsOf(tree, i) \in Seq(Recorded(tree)) /\ Len(EventsOf(tree, i)) = tree[i].parts
  BY <1>1, <1>6, FunctionIsSeq
<1> QED BY <1>1, <1>3, <1>7

LEMMA EventsStep ==
  ASSUME NEW tree, WellFormed(tree)
  PROVE /\ Events(tree, 0) = <<>>
        /\ \A i \in 0..Len(tree) : Events(tree, i) \in Seq(Recorded(tree))
        /\ \A i \in 1..Len(tree) :
             Events(tree, i) = Events(tree, tree[i].parent) \o EventsOf(tree, i)
<1> DEFINE T == Recorded(tree)
           Parts(b) == [k \in 1..Len(b) |-> EventsOf(tree, b[k])]
<1> HIDE DEF T
<1>0. Len(tree) \in Nat
  BY DEF WellFormed
<1>1. \A i \in 1..Len(tree) : EventsOf(tree, i) \in Seq(T)
  BY EventsOfEntry DEF T
<1>2. \A i \in 0..Len(tree) : Parts(Branch(tree, i)) \in Seq(Seq(T))
  <2> TAKE i \in 0..Len(tree)
  <2>1. PICK b : b = Branch(tree, i)
    OBVIOUS
  <2>2. b \in Seq(Nat) /\ \A k \in 1..Len(b) : b[k] \in 1..i
    BY <2>1, BranchIsPath
  <2>3. Len(b) \in Nat /\ \A k \in 1..Len(b) : b[k] \in 1..Len(tree)
    BY <1>0, <2>2
  <2>4. Parts(b) \in [1..Len(b) -> Seq(T)]
    BY <1>1, <2>3
  <2>5. Parts(b) \in Seq(Seq(T))
    BY <2>3, <2>4, FunctionIsSeq
  <2> QED BY <2>1, <2>5
<1>3. Events(tree, 0) = <<>>
  <2>1. Parts(Branch(tree, 0)) = <<>>
    <3>1. PICK b : b = Branch(tree, 0)
      OBVIOUS
    <3>2. b = <<>>
      BY <3>1, BranchStep
    <3>3. 1..Len(b) = {}
      BY <3>2
    <3>4. 0 \in 0..Len(tree)
      BY <1>0
    <3>5. Parts(b) \in Seq(Seq(T)) /\ DOMAIN Parts(b) = 1..Len(b)
      BY <1>2, <3>1, <3>4
    <3>6. Parts(b) = <<>>
      BY <3>3, <3>5
    <3> QED BY <3>1, <3>6
  <2> QED BY <2>1 DEF Events, ProjectPiEntries, FlattenSeq
<1>4. ASSUME NEW i \in 1..Len(tree)
      PROVE Events(tree, i) = Events(tree, tree[i].parent) \o EventsOf(tree, i)
  <2>1. PICK p, b : p = tree[i].parent /\ b = Branch(tree, p)
    OBVIOUS
  <2>2. p \in 0..Len(tree) /\ i \in 0..Len(tree)
    BY <1>0, <2>1 DEF WellFormed
  <2>3. b \in Seq(Nat) /\ Branch(tree, i) = Append(b, i)
    BY <2>1, <2>2, BranchIsPath, BranchStep
  <2>4. PICK s : s = Parts(b)
    OBVIOUS
  <2>5. s \in Seq(Seq(T)) /\ EventsOf(tree, i) \in Seq(T)
    BY <1>1, <1>2, <2>1, <2>2, <2>4
  <2>6. PICK c : c = Append(b, i)
    OBVIOUS
  <2>7. Len(c) = Len(b) + 1 /\ Len(b) \in Nat /\ c[Len(b) + 1] = i /\ Len(s) = Len(b)
    BY <2>3, <2>4, <2>5, <2>6
  <2>8. \A k \in 1..Len(b) : c[k] = b[k]
    BY <2>3, <2>6
  <2>9. PICK t, u : t = Parts(c) /\ u = Append(s, EventsOf(tree, i))
    OBVIOUS
  <2>10. t \in Seq(Seq(T)) /\ Len(t) = Len(b) + 1
    <3>1. Branch(tree, i) = c
      BY <2>3, <2>6
    <3>2. Parts(Branch(tree, i)) \in Seq(Seq(T))
      BY <1>2, <2>2
    <3>3. t = Parts(Branch(tree, i))
      BY <2>9, <3>1
    <3>4. DOMAIN t = 1..(Len(b) + 1)
      BY <2>7, <2>9
    <3>5. t \in Seq(Seq(T))
      BY <3>2, <3>3
    <3>6. DOMAIN t = 1..Len(t) /\ Len(t) \in Nat
      BY <3>5, LenProperties
    <3> QED BY <2>7, <3>4, <3>5, <3>6
  <2>11. u \in Seq(Seq(T)) /\ Len(u) = Len(b) + 1
    BY <2>5, <2>7, <2>9
  <2>12. \A k \in 1..(Len(b) + 1) : t[k] = u[k]
    <3> TAKE k \in 1..(Len(b) + 1)
    <3>1. t[k] = EventsOf(tree, c[k])
      BY <2>7, <2>9
    <3>2. CASE k = Len(b) + 1
      BY <2>5, <2>7, <2>9, <3>1, <3>2
    <3>3. CASE k # Len(b) + 1
      <4>1. k \in 1..Len(b) BY <2>7, <3>3
      <4>2. u[k] = s[k] BY <2>5, <2>7, <2>9, <4>1
      <4>3. s[k] = EventsOf(tree, b[k]) BY <2>4, <4>1
      <4> QED BY <2>8, <3>1, <4>1, <4>2, <4>3
    <3> QED BY <3>2, <3>3
  <2>13. t = u
    BY <2>10, <2>11, <2>12
  <2>14. FlattenSeq(u) = FlattenSeq(s) \o EventsOf(tree, i)
    BY <2>5, <2>9, FlattenStep
  <2>15. Events(tree, i) = FlattenSeq(t)
    BY <2>3, <2>6, <2>9 DEF Events, ProjectPiEntries
  <2>16. Events(tree, p) = FlattenSeq(s)
    BY <2>1, <2>4 DEF Events, ProjectPiEntries
  <2> QED BY <2>1, <2>13, <2>14, <2>15, <2>16
<1>5. ASSUME NEW i \in 0..Len(tree)
      PROVE Events(tree, i) \in Seq(T)
  <2>1. PICK s : s = Parts(Branch(tree, i))
    OBVIOUS
  <2>2. s \in Seq(Seq(T))
    BY <1>2, <2>1
  <2>3. <<>> \in Seq(T)
    OBVIOUS
  <2>4. FlattenSeq(s) \in Seq(T)
    BY <2>2, <2>3, FlattenStep
  <2>5. Events(tree, i) = FlattenSeq(s)
    BY <2>1 DEF Events, ProjectPiEntries
  <2> QED BY <2>4, <2>5
<1> QED BY <1>3, <1>4, <1>5 DEF T


LEMMA MaxIsGreatest ==
  ASSUME NEW n \in Nat, NEW S \in SUBSET (0..n), S # {}
  PROVE Max(S) \in S /\ \A m \in S : m <= Max(S)
<1> DEFINE U == {m \in 0..n : \A x \in S : x <= m}
<1>1. U \in SUBSET Nat /\ U # {}
  <2>1. n \in U
    OBVIOUS
  <2> QED BY <2>1
<1>2. PICK m \in U : \A k \in U : m <= k
  BY <1>1, LeastNat
<1>3. m \in S
  <2> SUFFICES ASSUME m \notin S PROVE FALSE
    OBVIOUS
  <2>1. PICK x \in S : TRUE
    OBVIOUS
  <2>2. m \in 0..n /\ x <= m /\ x # m /\ x \in 0..n
    BY <2>1
  <2>3. m - 1 \in 0..n
    BY <2>2
  <2>4. \A y \in S : y <= m - 1
    <3> TAKE y \in S
    <3>1. y \in 0..n /\ y <= m /\ y # m
      OBVIOUS
    <3> QED BY <2>2, <3>1
  <2>5. m - 1 \in U
    BY <2>3, <2>4
  <2> QED BY <1>2, <2>2, <2>5
<1>4. \A x \in S : x <= m
  OBVIOUS
<1>5. \A x \in S : m >= x
  BY <1>3, <1>4
<1>6. Max(S) \in S /\ \A x \in S : Max(S) >= x
  BY <1>3, <1>5 DEF Max
<1> QED BY <1>6

\* The recursion of SnapToAtomicBoundary: where an index that splits a unit is
\* moved back to.
InEntry(events, i) == events[i + 1].entry = events[i].entry
InStep(events, i) == events[i].step # 0 /\ events[i + 1].step = events[i].step
Outside(events, i) ==
  {j \in 1..(i - 1) :
     /\ ~ (InEntry(events, i) /\ events[j].entry = events[i].entry)
     /\ ~ (InStep(events, i) /\ events[i].step # 0 /\ events[j].step = events[i].step)}
Back(events, i) == IF Outside(events, i) = {} THEN 0 ELSE Max(Outside(events, i))

Snaps(events, f, n) ==
  f = [i \in 0..n |->
         IF i = 0 \/ i = Len(events) THEN i
         ELSE IF ~ InEntry(events, i) /\ ~ InStep(events, i) THEN i ELSE f[Back(events, i)]]

LEMMA BackGoesBack ==
  ASSUME NEW events, NEW i \in Nat \ {0}
  PROVE Back(events, i) \in 0..(i - 1)
<1>1. CASE Outside(events, i) = {}
  BY <1>1 DEF Back
<1>2. CASE Outside(events, i) # {}
  <2>1. i - 1 \in Nat
    OBVIOUS
  <2>2. Outside(events, i) \in SUBSET (0..(i - 1))
    BY <2>1 DEF Outside
  <2>3. Max(Outside(events, i)) \in Outside(events, i)
    BY <1>2, <2>1, <2>2, MaxIsGreatest
  <2> QED BY <1>2, <2>2, <2>3 DEF Back
<1> QED BY <1>1, <1>2

LEMMA SnapsUpTo ==
  ASSUME NEW events, Len(events) \in Nat
  PROVE \A n \in 0..Len(events) : \E f : Snaps(events, f, n)
<1> DEFINE Good(n) == \E f : Snaps(events, f, n)
           S == {n \in 0..Len(events) : Good(n)}
           Value(f, i) == IF i = 0 \/ i = Len(events) THEN i
                          ELSE IF ~ InEntry(events, i) /\ ~ InStep(events, i) THEN i
                          ELSE f[Back(events, i)]
<1>1. 0 \in S
  <2>1. PICK f : f = [i \in 0..0 |-> 0]
    OBVIOUS
  <2>2. Snaps(events, f, 0)
    BY <2>1 DEF Snaps
  <2>3. Good(0)
    BY <2>2
  <2> QED BY <2>3
<1>2. ASSUME NEW n \in 1..Len(events), 0..(n - 1) \subseteq S PROVE n \in S
  <2>1. n \in Nat /\ n # 0 /\ n - 1 \in 0..(n - 1) /\ n \in 0..Len(events)
    OBVIOUS
  <2>2. n - 1 \in S
    BY <1>2, <2>1
  <2>3. Good(n - 1)
    BY <2>2
  <2>4. PICK f : Snaps(events, f, n - 1)
    BY <2>3
  <2>5. PICK g : g = [i \in 0..n |-> IF i < n THEN f[i] ELSE Value(f, n)]
    OBVIOUS
  <2>6. \A i \in 0..(n - 1) : g[i] = f[i]
    BY <2>1, <2>5
  <2>7. g[n] = Value(f, n)
    BY <2>1, <2>5
  <2>8. \A i \in 0..n : g[i] = Value(g, i)
    <3> TAKE i \in 0..n
    <3>1. i = 0 \/ Back(events, i) \in 0..(n - 1)
      <4> SUFFICES ASSUME i # 0 PROVE Back(events, i) \in 0..(n - 1)
        OBVIOUS
      <4>1. i \in Nat \ {0} BY <2>1
      <4>2. Back(events, i) \in 0..(i - 1) BY <4>1, BackGoesBack
      <4> QED BY <2>1, <4>1, <4>2
    <3>2. Value(g, i) = Value(f, i)
      BY <2>6, <3>1
    <3>3. CASE i = n
      BY <2>7, <3>2, <3>3
    <3>4. CASE i # n
      <4>1. i \in 0..(n - 1) BY <2>1, <3>4
      <4>2. f[i] = Value(f, i) BY <2>4, <4>1 DEF Snaps
      <4> QED BY <2>6, <3>2, <4>1, <4>2
    <3> QED BY <3>3, <3>4
  <2>9. Snaps(events, g, n)
    BY <2>5, <2>8 DEF Snaps
  <2>10. Good(n)
    BY <2>9
  <2> QED BY <2>1, <2>10
<1>3. 0..Len(events) \subseteq S
  BY <1>1, <1>2, Upwards
<1> QED BY <1>3

LEMMA SnapIs ==
  ASSUME NEW events, Len(events) \in Nat
  PROVE \E f : /\ Snaps(events, f, Len(events))
               /\ \A i : SnapToAtomicBoundary(events, i) = f[i]
<1>1. Len(events) \in 0..Len(events)
  OBVIOUS
<1>2. PICK f : f = CHOOSE g : Snaps(events, g, Len(events))
  OBVIOUS
<1>3. Snaps(events, f, Len(events))
  BY <1>1, <1>2, SnapsUpTo
<1>4. \A i : SnapToAtomicBoundary(events, i) = f[i]
  BY <1>2 DEF SnapToAtomicBoundary, Snaps, InEntry, InStep, Back, Outside
<1> QED BY <1>3, <1>4


\* A longer sequence of events that begins with the events of a shorter one.
Extends(longer, events) ==
  /\ Len(events) \in Nat /\ Len(longer) \in Nat /\ Len(events) <= Len(longer)
  /\ \A k \in 1..Len(events) : longer[k] = events[k]

LEMMA SnapBound ==
  ASSUME NEW events, Len(events) \in Nat
  PROVE \A i \in 0..Len(events) : SnapToAtomicBoundary(events, i) \in 0..i
<1>1. PICK f : /\ Snaps(events, f, Len(events))
               /\ \A i : SnapToAtomicBoundary(events, i) = f[i]
  BY SnapIs
<1> DEFINE S == {i \in 0..Len(events) : f[i] \in 0..i}
<1>2. 0 \in S
  BY <1>1 DEF Snaps
<1>3. ASSUME NEW i \in 1..Len(events), 0..(i - 1) \subseteq S PROVE i \in S
  <2>1. i \in Nat \ {0} /\ i \in 0..Len(events)
    OBVIOUS
  <2>2. f[i] = IF i = 0 \/ i = Len(events) THEN i
               ELSE IF ~ InEntry(events, i) /\ ~ InStep(events, i) THEN i ELSE f[Back(events, i)]
    BY <1>1, <2>1 DEF Snaps
  <2>3. Back(events, i) \in 0..(i - 1)
    BY <2>1, BackGoesBack
  <2>4. f[Back(events, i)] \in 0..Back(events, i)
    BY <1>3, <2>3
  <2>5. f[i] \in 0..i
    BY <2>1, <2>2, <2>3, <2>4
  <2> QED BY <2>1, <2>5
<1>4. 0..Len(events) \subseteq S
  BY <1>2, <1>3, Upwards
<1> QED BY <1>1, <1>4

LEMMA SnapKept ==
  ASSUME NEW events, NEW longer, Extends(longer, events), NEW i \in 0..Len(events), i # Len(events)
  PROVE SnapToAtomicBoundary(longer, i) = SnapToAtomicBoundary(events, i)
<1>0. Len(events) \in Nat /\ Len(longer) \in Nat /\ Len(events) <= Len(longer)
  BY DEF Extends
<1>1. PICK f : /\ Snaps(events, f, Len(events))
               /\ \A k : SnapToAtomicBoundary(events, k) = f[k]
  BY <1>0, SnapIs
<1>2. PICK g : /\ Snaps(longer, g, Len(longer))
               /\ \A k : SnapToAtomicBoundary(longer, k) = g[k]
  BY <1>0, SnapIs
<1> DEFINE S == {k \in 0..(Len(events) - 1) : g[k] = f[k]}
<1>3. 0 \in S
  BY <1>0, <1>1, <1>2 DEF Snaps
<1>4. ASSUME NEW k \in 1..(Len(events) - 1), 0..(k - 1) \subseteq S PROVE k \in S
  <2>1. k \in 0..Len(events) /\ k \in 0..Len(longer) /\ k # 0 /\ k # Len(events) /\ k # Len(longer)
        /\ k \in Nat \ {0} /\ k \in 1..Len(events) /\ k + 1 \in 1..Len(events)
    BY <1>0
  <2>2. f[k] = IF ~ InEntry(events, k) /\ ~ InStep(events, k) THEN k ELSE f[Back(events, k)]
    BY <1>1, <2>1 DEF Snaps
  <2>3. g[k] = IF ~ InEntry(longer, k) /\ ~ InStep(longer, k) THEN k ELSE g[Back(longer, k)]
    BY <1>2, <2>1 DEF Snaps
  <2>4. longer[k] = events[k] /\ longer[k + 1] = events[k + 1]
        /\ \A j \in 1..(k - 1) : longer[j] = events[j]
    BY <1>0, <2>1 DEF Extends
  <2>5. (InEntry(longer, k) <=> InEntry(events, k)) /\ (InStep(longer, k) <=> InStep(events, k))
    BY <2>4 DEF InEntry, InStep
  <2>6. Outside(longer, k) = Outside(events, k)
    BY <2>4, <2>5 DEF Outside
  <2>7. Back(longer, k) = Back(events, k)
    BY <2>6 DEF Back
  <2>8. Back(events, k) \in 0..(k - 1)
    BY <2>1, BackGoesBack
  <2>9. g[Back(events, k)] = f[Back(events, k)]
    BY <1>4, <2>8
  <2>10. g[k] = f[k]
    BY <2>2, <2>3, <2>5, <2>7, <2>9
  <2>11. k \in 0..(Len(events) - 1)
    BY <1>0
  <2> QED BY <2>10, <2>11
<1>5. 0..(Len(events) - 1) \subseteq S
  <2>1. Len(events) - 1 \in Nat
    BY <1>0
  <2> QED BY <1>3, <1>4, <2>1, Upwards
<1>6. i \in 0..(Len(events) - 1)
  BY <1>0
<1> QED BY <1>1, <1>2, <1>5, <1>6

-----------------------------------------------------------------------------
(* The plan of archives *)

LEMMA Multiples ==
  ASSUME NEW a \in Nat, NEW b \in Nat, NEW c \in Nat, a <= b
  PROVE a * c \in Nat /\ a * c <= b * c /\ b * c \in Nat
OBVIOUS

LEMMA TargetsAreInterval ==
  ASSUME NEW events, Len(events) \in Nat
  PROVE /\ Cardinality(ArchiveTargets(events)) \in 0..Len(events)
        /\ ArchiveTargets(events) = 1..Cardinality(ArchiveTargets(events))
<1> DEFINE T == ArchiveTargets(events)
<1>0. ChunkBudget \in Nat /\ RawTailBudget \in Nat
  BY HistoryAssumption
<1>1. \E m \in 0..Len(events) : T = 1..m
  <2>1. CASE T = {}
    <3>1. 1..0 = {}
      OBVIOUS
    <3> QED BY <2>1, <3>1
  <2>2. CASE T # {}
    <3>1. T \in SUBSET (0..Len(events))
      BY DEF ArchiveTargets
    <3>2. PICK m \in T : \A k \in T : k <= m
      BY <2>2, <3>1, MaxIsGreatest
    <3>3. m \in 1..Len(events) /\ RawTailBudget + m * ChunkBudget <= Len(events)
      BY DEF ArchiveTargets, Pressure
    <3>4. \A k \in 1..m : k \in T
      <4> TAKE k \in 1..m
      <4>1. k \in Nat /\ m \in Nat /\ k <= m /\ k \in 1..Len(events)
        BY <3>3
      <4>2. k * ChunkBudget \in Nat /\ k * ChunkBudget <= m * ChunkBudget /\ m * ChunkBudget \in Nat
        BY <1>0, <4>1, Multiples
      <4>3. PICK x, y : x = k * ChunkBudget /\ y = m * ChunkBudget
        OBVIOUS
      <4>4. RawTailBudget + x <= Len(events)
        BY <1>0, <3>3, <4>2, <4>3
      <4> QED BY <4>1, <4>3, <4>4 DEF ArchiveTargets, Pressure
    <3>5. \A k \in T : k \in 1..m
      BY <3>1, <3>2 DEF ArchiveTargets
    <3>6. T = 1..m
      BY <3>4, <3>5
    <3> QED BY <3>3, <3>6
  <2> QED BY <2>1, <2>2
<1>2. PICK m \in 0..Len(events) : T = 1..m
  BY <1>1
<1>3. Cardinality(1..m) = m
  <2>1. m \in Nat /\ 1 \in Int /\ m \in Int
    OBVIOUS
  <2>2. Cardinality(1..m) = IF 1 > m THEN 0 ELSE m - 1 + 1
    BY <2>1, FS_Interval
  <2> QED BY <2>1, <2>2
<1> QED BY <1>2, <1>3


\* One step of the recursion of PlanArchives.
ArchiveEnd(events, k) ==
  SnapToAtomicBoundary(events, LastIndexAtOrBelow(events, k * ChunkBudget))

NextEnds(events, done, k) ==
  IF done = <<>> THEN (IF ArchiveEnd(events, k) >= 1 THEN <<ArchiveEnd(events, k)>> ELSE done)
  ELSE IF ArchiveEnd(events, k) > Last(done) THEN Append(done, ArchiveEnd(events, k)) ELSE done

Plans(events, f, n) ==
  f = [k \in 0..n |-> IF k = 0 THEN <<>> ELSE NextEnds(events, f[k - 1], k)]

\* The last events of archives: positions that increase.
Ends(events, ends) ==
  /\ ends \in Seq(Nat)
  /\ \A k \in 1..Len(ends) : ends[k] \in 1..Len(events)
  /\ \A j, k \in 1..Len(ends) : j < k => ends[j] < ends[k]

LEMMA ArchiveEndBound ==
  ASSUME NEW events, Len(events) \in Nat, NEW k \in Nat
  PROVE /\ LastIndexAtOrBelow(events, k * ChunkBudget) \in 0..Len(events)
        /\ k * ChunkBudget \in Nat
        /\ LastIndexAtOrBelow(events, k * ChunkBudget) <= k * ChunkBudget
        /\ k * ChunkBudget <= Len(events) =>
             LastIndexAtOrBelow(events, k * ChunkBudget) = k * ChunkBudget
        /\ ArchiveEnd(events, k) \in 0..Len(events)
<1>1. PICK x : x = k * ChunkBudget
  OBVIOUS
<1>2. x \in Nat
  BY <1>1, HistoryAssumption
<1>3. PICK m : m = Min({Len(events), x})
  OBVIOUS
<1>4. m \in {Len(events), x} /\ m <= Len(events) /\ m <= x
  BY <1>2, <1>3, MinIsLeast
<1>5. m \in 0..Len(events) /\ (x <= Len(events) => m = x)
  BY <1>2, <1>4
<1>6. LastIndexAtOrBelow(events, x) = m
  BY <1>3 DEF LastIndexAtOrBelow
<1>7. SnapToAtomicBoundary(events, m) \in 0..m
  BY <1>5, SnapBound
<1>8. SnapToAtomicBoundary(events, m) \in 0..Len(events)
  BY <1>5, <1>7
<1>9. ArchiveEnd(events, k) = SnapToAtomicBoundary(events, m)
  BY <1>1, <1>6 DEF ArchiveEnd
<1> QED BY <1>1, <1>2, <1>4, <1>5, <1>6, <1>8, <1>9

LEMMA NextEndsGrow ==
  ASSUME NEW events, Len(events) \in Nat, NEW done, Ends(events, done), NEW k \in Nat
  PROVE /\ Ends(events, NextEnds(events, done, k))
        /\ Extends(NextEnds(events, done, k), done)
<1>1. PICK e : e = ArchiveEnd(events, k)
  OBVIOUS
<1>2. e \in 0..Len(events)
  BY <1>1, ArchiveEndBound
<1>3. done \in Seq(Nat) /\ Len(done) \in Nat
  BY DEF Ends
<1>4. PICK next : next = NextEnds(events, done, k)
  OBVIOUS
<1>5. CASE next = done
  BY <1>3, <1>4, <1>5 DEF Extends
<1>6. CASE done = <<>> /\ next = <<e>> /\ e >= 1
  <2>1. next \in Seq(Nat) /\ Len(next) = 1 /\ next[1] = e /\ e \in 1..Len(events)
    BY <1>2, <1>6
  <2>2. Ends(events, next)
    BY <2>1 DEF Ends
  <2>3. Len(done) = 0
    BY <1>6
  <2>4. Extends(next, done)
    BY <2>1, <2>3 DEF Extends
  <2> QED BY <1>4, <2>2, <2>4
<1>7. CASE done # <<>> /\ next = Append(done, e) /\ e > Last(done)
  <2>1. next \in Seq(Nat) /\ Len(next) = Len(done) + 1 /\ next[Len(done) + 1] = e
        /\ \A j \in 1..Len(done) : next[j] = done[j]
    BY <1>2, <1>3, <1>7
  <2>2. Len(done) \in 1..Len(done) /\ Last(done) = done[Len(done)] /\ Last(done) \in Nat
    BY <1>3, <1>7 DEF Last
  <2>3. \A j \in 1..Len(done) : done[j] \in Nat /\ done[j] <= Last(done)
    <3> TAKE j \in 1..Len(done)
    <3>1. done[j] \in Nat
      BY <1>3
    <3>2. CASE j = Len(done)
      BY <2>2, <3>1, <3>2
    <3>3. CASE j # Len(done)
      <4>1. j < Len(done)
        BY <1>3, <3>3
      <4>2. done[j] < done[Len(done)]
        BY <2>2, <4>1 DEF Ends
      <4> QED BY <2>2, <3>1, <4>2
    <3> QED BY <3>2, <3>3
  <2>4. \A j \in 1..Len(next) : next[j] \in 1..Len(events)
    <3> TAKE j \in 1..Len(next)
    <3>1. CASE j = Len(done) + 1
      <4>1. e \in 1..Len(events) BY <1>2, <1>7, <2>2
      <4> QED BY <2>1, <3>1, <4>1
    <3>2. CASE j # Len(done) + 1
      <4>1. j \in 1..Len(done) BY <1>3, <2>1, <3>2
      <4> QED BY <2>1, <4>1 DEF Ends
    <3> QED BY <3>1, <3>2
  <2>5. \A i, j \in 1..Len(next) : i < j => next[i] < next[j]
    <3> TAKE i, j \in 1..Len(next)
    <3> SUFFICES ASSUME i < j PROVE next[i] < next[j]
      OBVIOUS
    <3>1. i \in 1..Len(done) /\ next[i] = done[i]
      BY SMTT(20), <1>3, <2>1
    <3>2. CASE j = Len(done) + 1
      <4>1. next[i] \in Nat /\ next[i] <= Last(done) BY <2>3, <3>1
      <4>2. e \in Nat /\ e > Last(done) BY <1>2, <1>7
      <4> QED BY <2>1, <2>2, <3>2, <4>1, <4>2
    <3>3. CASE j # Len(done) + 1
      <4>1. j \in 1..Len(done) /\ next[j] = done[j] BY <1>3, <2>1, <3>3
      <4> QED BY <3>1, <4>1 DEF Ends
    <3> QED BY <3>2, <3>3
  <2>6. Ends(events, next)
    BY <2>1, <2>4, <2>5 DEF Ends
  <2>7. Extends(next, done)
    BY <1>3, <2>1 DEF Extends
  <2> QED BY <1>4, <2>6, <2>7
<1>8. \/ next = done
      \/ done = <<>> /\ next = <<e>> /\ e >= 1
      \/ done # <<>> /\ next = Append(done, e) /\ e > Last(done)
  BY <1>1, <1>4 DEF NextEnds
<1> QED BY <1>5, <1>6, <1>7, <1>8

LEMMA PlansUpTo ==
  ASSUME NEW events, Len(events) \in Nat
  PROVE \A n \in Nat : \E f : Plans(events, f, n)
<1> SUFFICES ASSUME NEW max \in Nat PROVE \E f : Plans(events, f, max)
  OBVIOUS
<1> DEFINE Good(n) == \E f : Plans(events, f, n)
           S == {n \in 0..max : Good(n)}
<1>1. 0 \in S
  <2>1. PICK f : f = [k \in 0..0 |-> <<>>]
    OBVIOUS
  <2>2. Plans(events, f, 0)
    BY <2>1 DEF Plans
  <2>3. Good(0)
    BY <2>2
  <2> QED BY <2>3
<1>2. ASSUME NEW n \in 1..max, 0..(n - 1) \subseteq S PROVE n \in S
  <2>1. n \in Nat /\ n # 0 /\ n - 1 \in 0..(n - 1) /\ n \in 0..max
    OBVIOUS
  <2>2. n - 1 \in S
    BY <1>2, <2>1
  <2>3. Good(n - 1)
    BY <2>2
  <2>4. PICK f : Plans(events, f, n - 1)
    BY <2>3
  <2>5. PICK g : g = [k \in 0..n |-> IF k < n THEN f[k] ELSE NextEnds(events, f[n - 1], n)]
    OBVIOUS
  <2>6. \A k \in 0..(n - 1) : g[k] = f[k]
    BY <2>1, <2>5
  <2>7. g[n] = NextEnds(events, f[n - 1], n)
    BY <2>1, <2>5
  <2>8. \A k \in 0..n : g[k] = IF k = 0 THEN <<>> ELSE NextEnds(events, g[k - 1], k)
    <3> TAKE k \in 0..n
    <3>1. k # 0 => g[k - 1] = f[k - 1]
      BY <2>1, <2>6
    <3>2. CASE k = n
      BY <2>1, <2>7, <3>1, <3>2
    <3>3. CASE k # n
      <4>1. k \in 0..(n - 1) BY <2>1, <3>3
      <4>2. f[k] = IF k = 0 THEN <<>> ELSE NextEnds(events, f[k - 1], k)
        BY <2>4, <4>1 DEF Plans
      <4> QED BY <2>6, <3>1, <4>1, <4>2
    <3> QED BY <3>2, <3>3
  <2>9. Plans(events, g, n)
    BY <2>5, <2>8 DEF Plans
  <2>10. Good(n)
    BY <2>9
  <2> QED BY <2>1, <2>10
<1>3. 0..max \subseteq S
  BY <1>1, <1>2, Upwards
<1>4. max \in S
  BY <1>3
<1> QED BY <1>4

LEMMA PlanIs ==
  ASSUME NEW events, Len(events) \in Nat
  PROVE \E f : /\ Plans(events, f, Cardinality(ArchiveTargets(events)))
               /\ PlanArchives(events) = f[Cardinality(ArchiveTargets(events))]
<1>1. Cardinality(ArchiveTargets(events)) \in Nat
  BY TargetsAreInterval
<1>2. PICK f : f = CHOOSE g : Plans(events, g, Cardinality(ArchiveTargets(events)))
  OBVIOUS
<1>3. Plans(events, f, Cardinality(ArchiveTargets(events)))
  BY <1>1, <1>2, PlansUpTo
<1>4. PlanArchives(events) = f[Cardinality(ArchiveTargets(events))]
  BY <1>2 DEF PlanArchives, Plans, NextEnds, ArchiveEnd
<1> QED BY <1>3, <1>4


LEMMA ExtendsTransitive ==
  ASSUME NEW a, NEW b, NEW c, Extends(b, a), Extends(c, b)
  PROVE Extends(c, a)
<1>1. Len(a) \in Nat /\ Len(b) \in Nat /\ Len(c) \in Nat /\ Len(a) <= Len(b) /\ Len(b) <= Len(c)
  BY DEF Extends
<1>2. \A k \in 1..Len(a) : c[k] = a[k]
  BY <1>1 DEF Extends
<1> QED BY <1>1, <1>2 DEF Extends

LEMMA PlansAreEnds ==
  ASSUME NEW events, Len(events) \in Nat, NEW n \in Nat, NEW f, Plans(events, f, n)
  PROVE \A k \in 0..n : Ends(events, f[k]) /\ \A j \in 0..k : Extends(f[k], f[j])
<1> DEFINE S == {k \in 0..n : Ends(events, f[k]) /\ \A j \in 0..k : Extends(f[k], f[j])}
<1>1. 0 \in S
  <2>1. PICK e : e = f[0]
    OBVIOUS
  <2>2. e = <<>>
    BY <2>1 DEF Plans
  <2>3. e \in Seq(Nat)
    BY <2>2
  <2>4. Len(e) = 0
    BY <2>2
  <2>5. Ends(events, e) /\ Extends(e, e)
    BY <2>3, <2>4 DEF Ends, Extends
  <2>6. \A j \in 0..0 : j = 0
    OBVIOUS
  <2> QED BY <2>1, <2>5, <2>6
<1>2. ASSUME NEW k \in 1..n, 0..(k - 1) \subseteq S PROVE k \in S
  <2>1. k \in Nat /\ k # 0 /\ k - 1 \in 0..(k - 1) /\ k \in 0..n
    OBVIOUS
  <2>2. Ends(events, f[k - 1]) /\ \A j \in 0..(k - 1) : Extends(f[k - 1], f[j])
    BY <1>2, <2>1
  <2>3. f[k] = NextEnds(events, f[k - 1], k)
    BY <2>1 DEF Plans
  <2>4. Ends(events, f[k]) /\ Extends(f[k], f[k - 1])
    BY <2>1, <2>2, <2>3, NextEndsGrow
  <2>5. \A j \in 0..k : Extends(f[k], f[j])
    <3> TAKE j \in 0..k
    <3>1. CASE j = k
      BY <2>4, <3>1 DEF Extends
    <3>2. CASE j # k
      <4>1. j \in 0..(k - 1) BY <2>1, <3>2
      <4>2. Extends(f[k - 1], f[j]) BY <2>2, <4>1
      <4> QED BY <2>4, <4>2, ExtendsTransitive
    <3> QED BY <3>1, <3>2
  <2> QED BY <2>1, <2>4, <2>5
<1>3. 0..n \subseteq S
  BY <1>1, <1>2, Upwards
<1> QED BY <1>3

\* The number of archives due.
Due(events) == Cardinality(ArchiveTargets(events))

LEMMA DueGrows ==
  ASSUME NEW events, NEW longer, Extends(longer, events)
  PROVE /\ Due(events) \in Nat /\ Due(longer) \in Nat /\ Due(events) <= Due(longer)
        /\ \A k \in 1..Due(events) : k * ChunkBudget \in Nat /\ k * ChunkBudget < Len(events)
<1>0. Len(events) \in Nat /\ Len(longer) \in Nat /\ Len(events) <= Len(longer)
  BY DEF Extends
<1>1. /\ Due(events) \in 0..Len(events) /\ ArchiveTargets(events) = 1..Due(events)
      /\ Due(longer) \in 0..Len(longer) /\ ArchiveTargets(longer) = 1..Due(longer)
  BY <1>0, TargetsAreInterval DEF Due
<1>2. Due(events) \in Nat /\ Due(longer) \in Nat
  BY <1>0, <1>1
<1>3. \A k \in 1..Due(events) :
        /\ k \in 1..Due(longer)
        /\ k * ChunkBudget \in Nat /\ k * ChunkBudget < Len(events)
  <2> TAKE k \in 1..Due(events)
  <2>1. PICK x : x = k * ChunkBudget
    OBVIOUS
  <2>2. x \in Nat /\ RawTailBudget \in Nat \ {0}
    BY <1>2, <2>1, HistoryAssumption
  <2>3. k \in ArchiveTargets(events)
    BY <1>1
  <2>4. k \in 1..Len(events) /\ RawTailBudget + x <= Len(events)
    BY <2>1, <2>3 DEF ArchiveTargets, Pressure
  <2>5. k \in 1..Len(longer) /\ RawTailBudget + x <= Len(longer)
    BY <1>0, <2>2, <2>4
  <2>6. k \in ArchiveTargets(longer)
    BY <2>1, <2>5 DEF ArchiveTargets, Pressure
  <2>7. x < Len(events)
    BY <1>0, <2>2, <2>4
  <2> QED BY <1>1, <2>1, <2>2, <2>6, <2>7
<1>4. Due(events) <= Due(longer)
  BY <1>2, <1>3
<1> QED BY <1>2, <1>3, <1>4

LEMMA PlanKept ==
  ASSUME NEW events, NEW longer, Extends(longer, events)
  PROVE /\ Ends(events, PlanArchives(events))
        /\ Ends(longer, PlanArchives(longer))
        /\ Extends(PlanArchives(longer), PlanArchives(events))
<1>0. Len(events) \in Nat /\ Len(longer) \in Nat /\ Len(events) <= Len(longer)
  BY DEF Extends
<1>1. PICK n, m : n = Due(events) /\ m = Due(longer)
  OBVIOUS
<1>2. n \in Nat /\ m \in Nat /\ n <= m
  BY <1>1, DueGrows
<1>3. PICK f : Plans(events, f, n) /\ PlanArchives(events) = f[n]
  BY <1>0, <1>1, PlanIs DEF Due
<1>4. PICK g : Plans(longer, g, m) /\ PlanArchives(longer) = g[m]
  BY <1>0, <1>1, PlanIs DEF Due
<1> DEFINE S == {k \in 0..n : g[k] = f[k]}
<1>5. 0 \in S
  BY <1>2, <1>3, <1>4 DEF Plans
<1>6. ASSUME NEW k \in 1..n, 0..(k - 1) \subseteq S PROVE k \in S
  <2>1. k \in Nat /\ k # 0 /\ k - 1 \in 0..(k - 1) /\ k \in 0..n /\ k \in 0..m
    BY <1>2
  <2>2. f[k] = NextEnds(events, f[k - 1], k) /\ g[k] = NextEnds(longer, g[k - 1], k)
    BY <1>3, <1>4, <2>1 DEF Plans
  <2>3. g[k - 1] = f[k - 1]
    BY <1>6, <2>1
  <2>4. PICK x : x = k * ChunkBudget
    OBVIOUS
  <2>5. x \in Nat /\ x < Len(events)
    BY <1>1, <2>4, DueGrows
  <2>6. x <= Len(events) /\ x <= Len(longer) /\ x \in 0..Len(events) /\ x # Len(events)
    BY <1>0, <2>5
  <2>7. LastIndexAtOrBelow(events, x) = x /\ LastIndexAtOrBelow(longer, x) = x
    BY <1>0, <2>1, <2>4, <2>6, ArchiveEndBound
  <2>8. SnapToAtomicBoundary(longer, x) = SnapToAtomicBoundary(events, x)
    BY <2>6, SnapKept
  <2>9. ArchiveEnd(longer, k) = ArchiveEnd(events, k)
    BY <2>4, <2>7, <2>8 DEF ArchiveEnd
  <2>10. g[k] = f[k]
    BY <2>2, <2>3, <2>9 DEF NextEnds
  <2> QED BY <2>1, <2>10
<1>7. 0..n \subseteq S
  BY <1>2, <1>5, <1>6, Upwards
<1>8. g[n] = f[n] /\ n \in 0..n /\ n \in 0..m /\ m \in 0..m
  BY <1>2, <1>7
<1>9. Ends(events, f[n])
  BY <1>0, <1>2, <1>3, <1>8, PlansAreEnds
<1>10. Ends(longer, g[m]) /\ Extends(g[m], g[n])
  BY <1>0, <1>2, <1>4, <1>8, PlansAreEnds
<1> QED BY <1>3, <1>4, <1>8, <1>9, <1>10


\* The k-th archive of a plan.
First(ends, k) == IF k = 1 THEN 1 ELSE ends[k - 1] + 1
Manifest(events, ends, k) == ArchiveManifest(SubSeq(events, First(ends, k), ends[k]))

LEMMA DescribeIs ==
  ASSUME NEW events, Len(events) \in Nat, NEW ends, ends = PlanArchives(events)
  PROVE /\ Ends(events, ends)
        /\ \A k \in 1..Len(ends) : /\ First(ends, k) \in 1..ends[k]
                                   /\ ends[k] \in 1..Len(events)
                                   /\ DescribeArchives(events)[k] = Manifest(events, ends, k)
        /\ Len(ends) \in Nat /\ Len(DescribeArchives(events)) = Len(ends)
        /\ \A T : (\A k \in 1..Len(ends) : Manifest(events, ends, k) \in T)
                    => DescribeArchives(events) \in Seq(T)
<1>1. Extends(events, events)
  BY DEF Extends
<1>2. Ends(events, ends)
  BY <1>1, PlanKept
<1>3. ends \in Seq(Nat) /\ Len(ends) \in Nat
  BY <1>2 DEF Ends
<1>4. PICK d : d = DescribeArchives(events)
  OBVIOUS
<1>5. d = [k \in 1..Len(ends) |-> Manifest(events, ends, k)]
  BY <1>4 DEF DescribeArchives, Manifest, First
<1>6. \A T : (\A k \in 1..Len(ends) : Manifest(events, ends, k) \in T) => d \in Seq(T)
  <2> TAKE T
  <2> SUFFICES ASSUME \A k \in 1..Len(ends) : Manifest(events, ends, k) \in T PROVE d \in Seq(T)
    OBVIOUS
  <2>1. d \in [1..Len(ends) -> T]
    BY <1>5
  <2> QED BY <1>3, <2>1, FunctionIsSeq
<1>7. Len(d) = Len(ends)
  <2>1. PICK T : T = {Manifest(events, ends, k) : k \in 1..Len(ends)}
    OBVIOUS
  <2>2. d \in [1..Len(ends) -> T]
    BY <1>5, <2>1
  <2> QED BY <1>3, <2>2, FunctionIsSeq
<1>8. \A k \in 1..Len(ends) : First(ends, k) \in 1..ends[k] /\ ends[k] \in 1..Len(events)
  <2> TAKE k \in 1..Len(ends)
  <2>1. ends[k] \in 1..Len(events) /\ ends[k] \in Nat
    BY <1>2 DEF Ends
  <2>2. CASE k = 1
    BY <2>1, <2>2 DEF First
  <2>3. CASE k # 1
    <3>1. k - 1 \in 1..Len(ends) /\ k - 1 < k BY <1>3, <2>3
    <3>2. ends[k - 1] < ends[k] /\ ends[k - 1] \in Nat BY <1>2, <3>1 DEF Ends
    <3> QED BY <2>1, <2>3, <3>2 DEF First
  <2> QED BY <2>2, <2>3
<1> QED BY <1>2, <1>3, <1>4, <1>5, <1>6, <1>7, <1>8

LEMMA SubSeqKept ==
  ASSUME NEW T, NEW events \in Seq(T), NEW longer \in Seq(T), Extends(longer, events),
         NEW i \in Nat, NEW j \in Nat, 1 <= i, j <= Len(events)
  PROVE SubSeq(longer, i, j) = SubSeq(events, i, j)
<1>0. Len(events) \in Nat /\ Len(longer) \in Nat /\ Len(events) <= Len(longer)
  BY DEF Extends
<1>1. i \in Int /\ j \in Int
  OBVIOUS
<1>2. \A k \in i..j : k \in 1..Len(events) /\ k \in 1..Len(longer)
  BY <1>0
<1>3. \A k \in i..j : events[k] \in T /\ longer[k] \in T /\ longer[k] = events[k]
  BY <1>2, ElementOfSeq DEF Extends
<1>4. /\ SubSeq(events, i, j) \in Seq(T)
      /\ Len(SubSeq(events, i, j)) = IF i <= j THEN j - i + 1 ELSE 0
      /\ \A k \in 1..(j - i + 1) : SubSeq(events, i, j)[k] = events[i + k - 1]
  BY <1>1, <1>3, SubSeqProperties
<1>5. /\ SubSeq(longer, i, j) \in Seq(T)
      /\ Len(SubSeq(longer, i, j)) = IF i <= j THEN j - i + 1 ELSE 0
      /\ \A k \in 1..(j - i + 1) : SubSeq(longer, i, j)[k] = longer[i + k - 1]
  BY <1>1, <1>3, SubSeqProperties
<1>6. \A k \in 1..Len(SubSeq(longer, i, j)) : SubSeq(longer, i, j)[k] = SubSeq(events, i, j)[k]
  <2> TAKE k \in 1..Len(SubSeq(longer, i, j))
  <2>1. k \in 1..(j - i + 1) /\ i + k - 1 \in i..j
    BY <1>5
  <2>2. SubSeq(longer, i, j)[k] = longer[i + k - 1] /\ SubSeq(events, i, j)[k] = events[i + k - 1]
    BY <1>4, <1>5, <2>1
  <2> QED BY <1>3, <2>1, <2>2
<1> QED BY <1>4, <1>5, <1>6, SeqEqual

LEMMA DescribeKept ==
  ASSUME NEW T, NEW events \in Seq(T), NEW longer \in Seq(T), Extends(longer, events)
  PROVE /\ Extends(DescribeArchives(longer), DescribeArchives(events))
        /\ \E U : DescribeArchives(longer) \in Seq(U) /\ DescribeArchives(events) \in Seq(U)
<1>0. Len(events) \in Nat /\ Len(longer) \in Nat /\ Len(events) <= Len(longer)
  BY DEF Extends
<1>1. PICK ends, more : ends = PlanArchives(events) /\ more = PlanArchives(longer)
  OBVIOUS
<1>2. PICK d, e : d = DescribeArchives(events) /\ e = DescribeArchives(longer)
  OBVIOUS
<1>3. /\ \A k \in 1..Len(ends) : /\ First(ends, k) \in 1..ends[k]
                                 /\ ends[k] \in 1..Len(events)
                                 /\ d[k] = Manifest(events, ends, k)
      /\ Len(ends) \in Nat /\ Len(d) = Len(ends)
      /\ \A U : (\A k \in 1..Len(ends) : Manifest(events, ends, k) \in U) => d \in Seq(U)
  BY <1>0, <1>1, <1>2, DescribeIs
<1>4. /\ \A k \in 1..Len(more) : e[k] = Manifest(longer, more, k)
      /\ Len(more) \in Nat /\ Len(e) = Len(more)
      /\ \A U : (\A k \in 1..Len(more) : Manifest(longer, more, k) \in U) => e \in Seq(U)
  BY <1>0, <1>1, <1>2, DescribeIs
<1>5. Extends(more, ends)
  BY <1>1, PlanKept
<1>6. \A k \in 1..Len(ends) : e[k] = d[k]
  <2> TAKE k \in 1..Len(ends)
  <2>1. k \in 1..Len(more) /\ more[k] = ends[k] /\ (k # 1 => more[k - 1] = ends[k - 1])
    BY <1>3, <1>5 DEF Extends
  <2>2. First(more, k) = First(ends, k)
    BY <2>1 DEF First
  <2>3. PICK i, j : i = First(ends, k) /\ j = ends[k]
    OBVIOUS
  <2>4. i \in Nat /\ j \in Nat /\ 1 <= i /\ j <= Len(events)
    BY <1>0, <1>3, <2>3
  <2>5. SubSeq(longer, i, j) = SubSeq(events, i, j)
    BY <2>4, SubSeqKept
  <2>6. Manifest(longer, more, k) = Manifest(events, ends, k)
    BY <2>1, <2>2, <2>3, <2>5 DEF Manifest
  <2> QED BY <1>3, <1>4, <2>1, <2>6
<1>7. Extends(e, d)
  BY <1>3, <1>4, <1>5, <1>6 DEF Extends
<1>8. PICK U : U = {Manifest(events, ends, k) : k \in 1..Len(ends)}
                     \union {Manifest(longer, more, k) : k \in 1..Len(more)}
  OBVIOUS
<1>9. d \in Seq(U) /\ e \in Seq(U)
  BY <1>3, <1>4, <1>8
<1> QED BY <1>2, <1>7, <1>9

LEMMA ExtendsIsPrefix ==
  ASSUME NEW T, NEW s \in Seq(T), NEW t \in Seq(T), Extends(t, s)
  PROVE IsPrefix(s, t)
<1>1. Len(s) \in Nat /\ Len(s) <= Len(t)
  BY DEF Extends
<1>2. SubSeq(t, 1, Len(s)) = SubSeq(s, 1, Len(s))
  BY <1>1, SubSeqKept
<1> QED BY <1>1, <1>2 DEF IsPrefix

LEMMA EventsGrow ==
  ASSUME NEW tree, WellFormed(tree), NEW d \in 0..Len(tree), NEW a,
         IsAncestorEntry(tree, a, d) \/ a = 0
  PROVE Extends(Events(tree, d), Events(tree, a))
<1> DEFINE S == {i \in 0..Len(tree) : IsAncestorEntry(tree, a, i) \/ a = 0 =>
                   Extends(Events(tree, i), Events(tree, a))}
<1>0. Len(tree) \in Nat
  BY DEF WellFormed
<1>1. \A i \in 0..Len(tree) : Events(tree, i) \in Seq(Recorded(tree))
  BY EventsStep
<1>2. \A i \in 0..Len(tree) : Extends(Events(tree, i), Events(tree, i))
  <2> TAKE i \in 0..Len(tree)
  <2>1. Len(Events(tree, i)) \in Nat
    BY <1>1, LenProperties
  <2> QED BY <2>1 DEF Extends
<1>3. 0 \in S
  <2>1. 0 \in 0..Len(tree)
    BY <1>0
  <2>2. ~ IsAncestorEntry(tree, a, 0)
    BY AncestorStep
  <2> QED BY <1>2, <2>1, <2>2
<1>4. ASSUME NEW i \in 1..Len(tree), 0..(i - 1) \subseteq S PROVE i \in S
  <2>1. PICK p : p = tree[i].parent
    OBVIOUS
  <2>2. p \in 0..(i - 1) /\ p \in 0..Len(tree) /\ i \in 0..Len(tree) /\ i # 0
    BY <1>0, <2>1 DEF WellFormed
  <2>3. Extends(Events(tree, i), Events(tree, p))
    <3>1. PICK x, y, z : x = Events(tree, p) /\ y = EventsOf(tree, i) /\ z = Events(tree, i)
      OBVIOUS
    <3>2. x \in Seq(Recorded(tree)) /\ y \in Seq(Recorded(tree)) /\ z = x \o y
      BY <1>1, <2>1, <2>2, <3>1, EventsOfEntry, EventsStep
    <3>3. Len(x) \in Nat /\ Len(y) \in Nat /\ Len(z) = Len(x) + Len(y)
          /\ \A k \in 1..(Len(x) + Len(y)) : z[k] = IF k <= Len(x) THEN x[k] ELSE y[k - Len(x)]
      BY <3>2, ConcatProperties, LenProperties
    <3>4. Extends(z, x)
      BY <3>3 DEF Extends
    <3> QED BY <3>1, <3>4
  <2>4. CASE a = i
    BY <1>2, <2>2, <2>4
  <2>5. CASE a # i
    <3>1. SUFFICES ASSUME IsAncestorEntry(tree, a, i) \/ a = 0
                   PROVE Extends(Events(tree, i), Events(tree, a))
      BY <2>2
    <3>2. IsAncestorEntry(tree, a, p) \/ a = 0
      BY <2>1, <2>5, <3>1, AncestorStep
    <3>3. Extends(Events(tree, p), Events(tree, a))
      BY <1>4, <2>2, <3>2
    <3> QED BY <2>3, <3>3, ExtendsTransitive
  <2> QED BY <2>4, <2>5
<1>5. 0..Len(tree) \subseteq S
  BY <1>0, <1>3, <1>4, Upwards
<1> QED BY <1>5

\* A branch that grows keeps its archives.
LEMMA ArchivesKept ==
  ASSUME NEW tree, WellFormed(tree), NEW d \in 0..Len(tree), NEW a \in 0..Len(tree),
         IsAncestorEntry(tree, a, d) \/ a = 0
  PROVE /\ Extends(DescribeArchives(Events(tree, d)), DescribeArchives(Events(tree, a)))
        /\ IsPrefix(DescribeArchives(Events(tree, a)), DescribeArchives(Events(tree, d)))
<1>1. PICK x, y, T : x = Events(tree, a) /\ y = Events(tree, d) /\ T = Recorded(tree)
  OBVIOUS
<1>2. x \in Seq(T) /\ y \in Seq(T)
  BY <1>1, EventsStep
<1>3. Extends(y, x)
  BY <1>1, EventsGrow
<1>4. /\ Extends(DescribeArchives(y), DescribeArchives(x))
      /\ \E U : DescribeArchives(y) \in Seq(U) /\ DescribeArchives(x) \in Seq(U)
  BY ONLY <1>2, <1>3, DescribeKept, HistoryAssumption
<1>5. PICK U : DescribeArchives(y) \in Seq(U) /\ DescribeArchives(x) \in Seq(U)
  BY <1>4
<1>6. IsPrefix(DescribeArchives(x), DescribeArchives(y))
  BY <1>4, <1>5, ExtendsIsPrefix
<1> QED BY <1>1, <1>4, <1>6


-----------------------------------------------------------------------------
(* The events of an entry do not change when the tree grows *)

\* A value handed down the branches: from an entry of base, or from the parent.
HandedDown(tree, f, base, n) ==
  f = [i \in 0..n |-> IF i \in DOMAIN base THEN base[i] ELSE f[tree[i].parent]]

LEMMA HandedDownUpTo ==
  ASSUME NEW tree, WellFormed(tree), NEW base, 0 \in DOMAIN base
  PROVE \A n \in 0..Len(tree) : \E f : HandedDown(tree, f, base, n)
<1> DEFINE Good(n) == \E f : HandedDown(tree, f, base, n)
           S == {n \in 0..Len(tree) : Good(n)}
           Value(f, i) == IF i \in DOMAIN base THEN base[i] ELSE f[tree[i].parent]
<1>0. Len(tree) \in Nat
  BY DEF WellFormed
<1>1. 0 \in S
  <2>1. PICK f : f = [i \in 0..0 |-> base[0]]
    OBVIOUS
  <2>2. HandedDown(tree, f, base, 0)
    BY <2>1 DEF HandedDown
  <2>3. Good(0) /\ 0 \in 0..Len(tree)
    BY <1>0, <2>2
  <2> QED BY <2>3
<1>2. ASSUME NEW n \in 1..Len(tree), 0..(n - 1) \subseteq S PROVE n \in S
  <2>1. n \in Nat /\ n # 0 /\ n - 1 \in 0..(n - 1) /\ n \in 0..Len(tree)
    BY <1>0
  <2>2. n - 1 \in S
    BY <1>2, <2>1
  <2>3. Good(n - 1)
    BY <2>2
  <2>4. PICK f : HandedDown(tree, f, base, n - 1)
    BY <2>3
  <2>5. PICK g : g = [i \in 0..n |-> IF i < n THEN f[i] ELSE Value(f, n)]
    OBVIOUS
  <2>6. \A i \in 0..(n - 1) : g[i] = f[i]
    BY <2>1, <2>5
  <2>7. g[n] = Value(f, n)
    BY <2>1, <2>5
  <2>8. \A i \in 0..n : g[i] = Value(g, i)
    <3> TAKE i \in 0..n
    <3>1. i = 0 \/ tree[i].parent \in 0..(n - 1)
      BY <1>0, <2>1 DEF WellFormed
    <3>2. Value(g, i) = Value(f, i)
      BY <2>6, <3>1
    <3>3. CASE i = n
      BY <2>7, <3>2, <3>3
    <3>4. CASE i # n
      <4>1. i \in 0..(n - 1) BY <2>1, <3>4
      <4>2. f[i] = Value(f, i) BY <2>4, <4>1 DEF HandedDown
      <4> QED BY <2>6, <3>2, <4>1, <4>2
    <3> QED BY <3>3, <3>4
  <2>9. HandedDown(tree, g, base, n)
    BY <2>5, <2>8 DEF HandedDown
  <2>10. Good(n)
    BY <2>9
  <2> QED BY <2>1, <2>10
<1>3. 0..Len(tree) \subseteq S
  BY <1>0, <1>1, <1>2, Upwards
<1> QED BY <1>3

\* longer grows out of tree.
Grown(longer, tree) ==
  /\ WellFormed(tree) /\ WellFormed(longer)
  /\ Len(tree) <= Len(longer)
  /\ \A i \in 1..Len(tree) : longer[i] = tree[i]

LEMMA HandedDownAgree ==
  ASSUME NEW tree, NEW longer, Grown(longer, tree), NEW base, NEW more,
         0 \in DOMAIN base, 0 \in DOMAIN more,
         \A i \in 0..Len(tree) : /\ i \in DOMAIN base <=> i \in DOMAIN more
                                 /\ i \in DOMAIN base => base[i] = more[i],
         NEW f, HandedDown(tree, f, base, Len(tree)),
         NEW g, HandedDown(longer, g, more, Len(longer))
  PROVE \A i \in 0..Len(tree) : g[i] = f[i]
<1>0. Len(tree) \in Nat /\ Len(longer) \in Nat /\ Len(tree) <= Len(longer)
  BY DEF WellFormed, Grown
<1> DEFINE S == {i \in 0..Len(tree) : g[i] = f[i]}
<1>1. 0 \in S
  <2>1. 0 \in 0..Len(tree) /\ 0 \in 0..Len(longer)
    BY <1>0
  <2> QED BY <2>1 DEF HandedDown
<1>2. ASSUME NEW i \in 1..Len(tree), 0..(i - 1) \subseteq S PROVE i \in S
  <2>1. i \in 0..Len(tree) /\ i \in 0..Len(longer) /\ longer[i] = tree[i]
        /\ tree[i].parent \in 0..(i - 1)
    BY <1>0 DEF WellFormed, Grown
  <2>2. f[i] = IF i \in DOMAIN base THEN base[i] ELSE f[tree[i].parent]
    BY <2>1 DEF HandedDown
  <2>3. g[i] = IF i \in DOMAIN more THEN more[i] ELSE g[longer[i].parent]
    BY <2>1 DEF HandedDown
  <2>4. g[tree[i].parent] = f[tree[i].parent]
    BY <1>2, <2>1
  <2>5. g[i] = f[i]
    BY <2>1, <2>2, <2>3, <2>4
  <2> QED BY <2>1, <2>5
<1>3. 0..Len(tree) \subseteq S
  BY <1>0, <1>1, <1>2, Upwards
<1> QED BY <1>3

TurnBase(tree) == [i \in {j \in 0..Len(tree) : j = 0 \/ tree[j].kind = "user"} |->
                     IF i = 0 THEN 0 ELSE i]
StepBase(tree) == [i \in {j \in 0..Len(tree) : \/ j = 0 \/ tree[j].kind = "user"
                                               \/ tree[j].kind = "assistant"} |->
                     IF i = 0 \/ tree[i].kind = "user" THEN 0 ELSE i]

LEMMA TurnIs ==
  ASSUME NEW tree, WellFormed(tree)
  PROVE HandedDown(tree, Turn(tree), TurnBase(tree), Len(tree))
<1>1. Len(tree) \in Nat /\ Len(tree) \in 0..Len(tree) /\ 0 \in DOMAIN TurnBase(tree)
  BY DEF WellFormed, TurnBase
<1>2. \A f : HandedDown(tree, f, TurnBase(tree), Len(tree)) <=>
             f = [i \in 0..Len(tree) |->
                    IF i = 0 THEN 0
                    ELSE IF tree[i].kind = "user" THEN i ELSE f[tree[i].parent]]
  <2> TAKE f
  <2>1. \A i \in 0..Len(tree) :
          (IF i \in DOMAIN TurnBase(tree) THEN TurnBase(tree)[i] ELSE f[tree[i].parent])
          = IF i = 0 THEN 0 ELSE IF tree[i].kind = "user" THEN i ELSE f[tree[i].parent]
    BY DEF TurnBase
  <2> QED BY <2>1 DEF HandedDown
<1>3. \E f : HandedDown(tree, f, TurnBase(tree), Len(tree))
  BY <1>1, HandedDownUpTo
<1>4. \E f : f = [i \in 0..Len(tree) |->
                    IF i = 0 THEN 0
                    ELSE IF tree[i].kind = "user" THEN i ELSE f[tree[i].parent]]
  BY <1>2, <1>3
<1>5. Turn(tree) = [i \in 0..Len(tree) |->
                    IF i = 0 THEN 0
                    ELSE IF tree[i].kind = "user" THEN i ELSE Turn(tree)[tree[i].parent]]
  BY <1>4 DEF Turn
<1> QED BY <1>2, <1>5

LEMMA StepIs ==
  ASSUME NEW tree, WellFormed(tree)
  PROVE HandedDown(tree, Step(tree), StepBase(tree), Len(tree))
<1>1. Len(tree) \in Nat /\ Len(tree) \in 0..Len(tree) /\ 0 \in DOMAIN StepBase(tree)
  BY DEF WellFormed, StepBase
<1>2. \A f : HandedDown(tree, f, StepBase(tree), Len(tree)) <=>
             f = [i \in 0..Len(tree) |->
                    IF i = 0 \/ tree[i].kind = "user" THEN 0
                    ELSE IF tree[i].kind = "assistant" THEN i ELSE f[tree[i].parent]]
  <2> TAKE f
  <2>1. \A i \in 0..Len(tree) :
          (IF i \in DOMAIN StepBase(tree) THEN StepBase(tree)[i] ELSE f[tree[i].parent])
          = IF i = 0 \/ tree[i].kind = "user" THEN 0
            ELSE IF tree[i].kind = "assistant" THEN i ELSE f[tree[i].parent]
    BY DEF StepBase
  <2> QED BY <2>1 DEF HandedDown
<1>3. \E f : HandedDown(tree, f, StepBase(tree), Len(tree))
  BY <1>1, HandedDownUpTo
<1>4. \E f : f = [i \in 0..Len(tree) |->
                    IF i = 0 \/ tree[i].kind = "user" THEN 0
                    ELSE IF tree[i].kind = "assistant" THEN i ELSE f[tree[i].parent]]
  BY <1>2, <1>3
<1>5. Step(tree) = [i \in 0..Len(tree) |->
                    IF i = 0 \/ tree[i].kind = "user" THEN 0
                    ELSE IF tree[i].kind = "assistant" THEN i ELSE Step(tree)[tree[i].parent]]
  BY <1>4 DEF Step
<1> QED BY <1>2, <1>5

LEMMA EventsKept ==
  ASSUME NEW tree, NEW longer, Grown(longer, tree)
  PROVE /\ \A i \in 1..Len(tree) : EventsOf(longer, i) = EventsOf(tree, i)
        /\ \A i \in 0..Len(tree) : Branch(longer, i) = Branch(tree, i)
        /\ \A i \in 0..Len(tree) : Events(longer, i) = Events(tree, i)
<1>0. /\ WellFormed(tree) /\ WellFormed(longer) /\ Len(tree) <= Len(longer)
      /\ Len(tree) \in Nat /\ Len(longer) \in Nat
      /\ \A i \in 1..Len(tree) : longer[i] = tree[i]
  BY DEF WellFormed, Grown
<1>1. \A i \in 0..Len(tree) : Branch(longer, i) = Branch(tree, i)
  BY <1>0, BranchKept
<1>2. \A i \in 0..Len(tree) : Turn(longer)[i] = Turn(tree)[i]
  <2>1. PICK f, g, b, c : /\ f = Turn(tree) /\ g = Turn(longer)
                          /\ b = TurnBase(tree) /\ c = TurnBase(longer)
    OBVIOUS
  <2>2. HandedDown(tree, f, b, Len(tree)) /\ HandedDown(longer, g, c, Len(longer))
    BY <1>0, <2>1, TurnIs
  <2>3. /\ 0 \in DOMAIN b /\ 0 \in DOMAIN c
        /\ \A i \in 0..Len(tree) : /\ i \in DOMAIN b <=> i \in DOMAIN c
                                   /\ i \in DOMAIN b => b[i] = c[i]
    BY <1>0, <2>1 DEF TurnBase
  <2>4. \A i \in 0..Len(tree) : g[i] = f[i]
    BY <2>2, <2>3, HandedDownAgree
  <2> QED BY <2>1, <2>4
<1>3. \A i \in 0..Len(tree) : Step(longer)[i] = Step(tree)[i]
  <2>1. PICK f, g, b, c : /\ f = Step(tree) /\ g = Step(longer)
                          /\ b = StepBase(tree) /\ c = StepBase(longer)
    OBVIOUS
  <2>2. HandedDown(tree, f, b, Len(tree)) /\ HandedDown(longer, g, c, Len(longer))
    BY <1>0, <2>1, StepIs
  <2>3. /\ 0 \in DOMAIN b /\ 0 \in DOMAIN c
        /\ \A i \in 0..Len(tree) : /\ i \in DOMAIN b <=> i \in DOMAIN c
                                   /\ i \in DOMAIN b => b[i] = c[i]
    BY <1>0, <2>1 DEF StepBase
  <2>4. \A i \in 0..Len(tree) : g[i] = f[i]
    BY <2>2, <2>3, HandedDownAgree
  <2> QED BY <2>1, <2>4
<1>4. \A i \in 1..Len(tree) : EventsOf(longer, i) = EventsOf(tree, i)
  <2> TAKE i \in 1..Len(tree)
  <2>1. longer[i] = tree[i] /\ Turn(longer)[i] = Turn(tree)[i] /\ Step(longer)[i] = Step(tree)[i]
    BY <1>0, <1>2, <1>3
  <2> QED BY <2>1 DEF EventsOf
<1>5. ASSUME NEW i \in 0..Len(tree) PROVE Events(longer, i) = Events(tree, i)
  <2>1. PICK b : b = Branch(tree, i)
    OBVIOUS
  <2>2. Branch(longer, i) = b /\ b \in Seq(Nat) /\ \A k \in 1..Len(b) : b[k] \in 1..i
    BY <1>0, <1>1, <2>1, BranchIsPath
  <2>3. \A k \in 1..Len(b) : EventsOf(longer, b[k]) = EventsOf(tree, b[k])
    BY <1>0, <1>4, <2>2
  <2>4. [k \in 1..Len(b) |-> EventsOf(longer, b[k])] = [k \in 1..Len(b) |-> EventsOf(tree, b[k])]
    BY <2>3
  <2> QED BY <2>1, <2>2, <2>4 DEF Events, ProjectPiEntries
<1> QED BY <1>1, <1>4, <1>5


-----------------------------------------------------------------------------
(* Filter *)

Filters(seq, kept, f) ==
  f = [i \in 0..Len(seq) |->
         IF i = 0 THEN <<>> ELSE IF seq[i] \in kept THEN Append(f[i - 1], seq[i]) ELSE f[i - 1]]

LEMMA FilterIs ==
  ASSUME NEW seq, Len(seq) \in Nat, NEW kept
  PROVE \E f : Filters(seq, kept, f) /\ Filter(seq, kept) = f[Len(seq)]
<1> DEFINE Value(f, i) == IF i = 0 THEN <<>>
                          ELSE IF seq[i] \in kept THEN Append(f[i - 1], seq[i]) ELSE f[i - 1]
           Good(n) == \E f : f = [i \in 0..n |-> Value(f, i)]
           S == {n \in 0..Len(seq) : Good(n)}
<1>1. 0 \in S
  <2>1. PICK f : f = [i \in 0..0 |-> <<>>]
    OBVIOUS
  <2>2. f = [i \in 0..0 |-> Value(f, i)]
    BY <2>1
  <2>3. Good(0)
    BY <2>2
  <2> QED BY <2>3
<1>2. ASSUME NEW n \in 1..Len(seq), 0..(n - 1) \subseteq S PROVE n \in S
  <2>1. n \in Nat /\ n # 0 /\ n - 1 \in 0..(n - 1) /\ n \in 0..Len(seq)
    OBVIOUS
  <2>2. n - 1 \in S
    BY <1>2, <2>1
  <2>3. Good(n - 1)
    BY <2>2
  <2>4. PICK f : f = [i \in 0..(n - 1) |-> Value(f, i)]
    BY <2>3
  <2>5. PICK g : g = [i \in 0..n |-> IF i < n THEN f[i] ELSE Value(f, n)]
    OBVIOUS
  <2>6. \A i \in 0..(n - 1) : g[i] = f[i]
    BY <2>1, <2>5
  <2>7. g[n] = Value(f, n)
    BY <2>1, <2>5
  <2>8. \A i \in 0..n : g[i] = Value(g, i)
    <3> TAKE i \in 0..n
    <3>1. i = 0 \/ i - 1 \in 0..(n - 1)
      BY <2>1
    <3>2. Value(g, i) = Value(f, i)
      BY <2>6, <3>1
    <3>3. CASE i = n
      BY <2>7, <3>2, <3>3
    <3>4. CASE i # n
      <4>1. i \in 0..(n - 1) BY <2>1, <3>4
      <4>2. f[i] = Value(f, i) BY <2>4, <4>1
      <4> QED BY <2>6, <3>2, <4>1, <4>2
    <3> QED BY <3>3, <3>4
  <2>9. g = [i \in 0..n |-> Value(g, i)]
    BY <2>5, <2>8
  <2>10. Good(n)
    BY <2>9
  <2> QED BY <2>1, <2>10
<1>3. 0..Len(seq) \subseteq S
  BY <1>1, <1>2, Upwards
<1>4. Good(Len(seq))
  <2>1. Len(seq) \in S
    BY <1>3
  <2> QED BY <2>1
<1>5. \E f : Filters(seq, kept, f)
  BY <1>4 DEF Filters
<1>6. PICK f : f = CHOOSE g : Filters(seq, kept, g)
  OBVIOUS
<1>7. Filters(seq, kept, f)
  BY <1>5, <1>6
<1>8. Filter(seq, kept) = f[Len(seq)]
  BY <1>6 DEF Filter, Filters
<1> QED BY <1>7, <1>8

LEMMA FilterKeeps ==
  ASSUME NEW T, NEW seq \in Seq(T), NEW kept
  PROVE /\ Filter(seq, kept) \in Seq(T)
        /\ \A x : (\E k \in 1..Len(Filter(seq, kept)) : Filter(seq, kept)[k] = x)
                    <=> x \in kept /\ \E k \in 1..Len(seq) : seq[k] = x
<1>0. Len(seq) \in Nat
  OBVIOUS
<1>1. PICK f : Filters(seq, kept, f) /\ Filter(seq, kept) = f[Len(seq)]
  BY <1>0, FilterIs
<1> DEFINE In(s, x) == \E k \in 1..Len(s) : s[k] = x
           Right(i) == /\ f[i] \in Seq(T)
                       /\ \A x : In(f[i], x) <=> x \in kept /\ \E k \in 1..i : seq[k] = x
           S == {i \in 0..Len(seq) : Right(i)}
<1> HIDE DEF Right
<1>2. 0 \in S
  <2>1. PICK e : e = f[0]
    OBVIOUS
  <2>2. e = <<>>
    BY <2>1, <1>0, <1>1 DEF Filters
  <2>3. e \in Seq(T)
    BY <2>2
  <2>4. Len(e) = 0
    BY <2>2
  <2>5. Right(0)
    BY <2>1, <2>3, <2>4 DEF Right
  <2> QED BY <1>0, <2>5
<1>3. ASSUME NEW i \in 1..Len(seq), 0..(i - 1) \subseteq S PROVE i \in S
  <2>1. i \in Nat /\ i # 0 /\ i - 1 \in 0..(i - 1) /\ i \in 0..Len(seq) /\ seq[i] \in T
    BY <1>0
  <2>2. PICK s, t, y : s = f[i - 1] /\ t = f[i] /\ y = seq[i]
    OBVIOUS
  <2>3. i - 1 \in S
    BY <1>3, <2>1
  <2>4. Right(i - 1)
    BY <2>3
  <2>5. s \in Seq(T) /\ \A x : In(s, x) <=> x \in kept /\ \E k \in 1..(i - 1) : seq[k] = x
    BY <2>2, <2>4 DEF Right
  <2>6. t = IF y \in kept THEN Append(s, y) ELSE s
    BY <1>1, <2>1, <2>2 DEF Filters
  <2>7. \A x : (\E k \in 1..i : seq[k] = x) <=> x = y \/ \E k \in 1..(i - 1) : seq[k] = x
    <3> TAKE x
    <3>1. \A k \in 1..i : k = i \/ k \in 1..(i - 1)
      BY <2>1
    <3>2. \A k \in 1..(i - 1) : k \in 1..i
      BY <2>1
    <3>3. i \in 1..i
      BY <2>1
    <3> QED BY <2>2, <3>1, <3>2, <3>3
  <2>8. CASE y \in kept
    <3>1. t \in Seq(T) /\ Len(t) = Len(s) + 1 /\ Len(s) \in Nat /\ t[Len(s) + 1] = y
          /\ \A k \in 1..Len(s) : t[k] = s[k]
      BY <2>1, <2>2, <2>5, <2>6, <2>8
    <3>2. \A x : In(t, x) <=> x = y \/ In(s, x)
      BY <3>1
    <3>3. \A x : In(t, x) <=> x \in kept /\ \E k \in 1..i : seq[k] = x
      <4> TAKE x
      <4> QED BY <2>5, <2>7, <2>8, <3>2
    <3>4. Right(i)
      BY <2>2, <3>1, <3>3 DEF Right
    <3> QED BY <2>1, <3>4
  <2>9. CASE y \notin kept
    <3>1. \A x : In(t, x) <=> x \in kept /\ \E k \in 1..i : seq[k] = x
      <4> TAKE x
      <4> QED BY <2>5, <2>6, <2>7, <2>9
    <3>2. Right(i)
      BY <2>2, <2>5, <2>6, <2>9, <3>1 DEF Right
    <3> QED BY <2>1, <3>2
  <2> QED BY <2>8, <2>9
<1>4. 0..Len(seq) \subseteq S
  BY <1>0, <1>2, <1>3, Upwards
<1>5. Len(seq) \in S
  BY <1>0, <1>4
<1>6. Right(Len(seq))
  BY <1>5
<1> QED BY <1>1, <1>6 DEF Right

-----------------------------------------------------------------------------
(* Where the events of a branch are *)

LEMMA PlaceOfEvent ==
  ASSUME NEW tree, WellFormed(tree), NEW d \in 0..Len(tree), NEW r \in 1..Len(Events(tree, d))
  PROVE \E e \in 1..Len(tree) : \E p \in 1..tree[e].parts :
          /\ IsAncestorEntry(tree, e, d)
          /\ Events(tree, d)[r] = EventsOf(tree, e)[p]
          /\ r = Len(Events(tree, tree[e].parent)) + p
<1> DEFINE Placed(i, q) ==
      \E e \in 1..Len(tree) : \E p \in 1..tree[e].parts :
          /\ IsAncestorEntry(tree, e, i)
          /\ Events(tree, i)[q] = EventsOf(tree, e)[p]
          /\ q = Len(Events(tree, tree[e].parent)) + p
           S == {i \in 0..Len(tree) : \A q \in 1..Len(Events(tree, i)) : Placed(i, q)}
<1>0. Len(tree) \in Nat
  BY DEF WellFormed
<1>1. 0 \in S
  <2>1. PICK s : s = Events(tree, 0)
    OBVIOUS
  <2>2. s = <<>>
    BY <2>1, EventsStep
  <2>3. Len(s) = 0
    BY <2>2
  <2>4. \A q \in 1..Len(Events(tree, 0)) : FALSE
    BY <2>1, <2>3
  <2> QED BY <1>0, <2>4
<1>2. ASSUME NEW i \in 1..Len(tree), 0..(i - 1) \subseteq S PROVE i \in S
  <2>1. PICK m : m = tree[i].parent
    OBVIOUS
  <2>2. m \in 0..(i - 1) /\ m \in 0..Len(tree) /\ i \in 0..Len(tree)
    BY <1>0, <2>1 DEF WellFormed
  <2>3. m \in S
    BY <1>2, <2>2
  <2>4. PICK x, y, z : x = Events(tree, m) /\ y = EventsOf(tree, i) /\ z = Events(tree, i)
    OBVIOUS
  <2>5. x \in Seq(Recorded(tree)) /\ y \in Seq(Recorded(tree)) /\ z = x \o y
        /\ Len(y) = tree[i].parts
    BY <2>1, <2>2, <2>4, EventsOfEntry, EventsStep
  <2>6. Len(x) \in Nat /\ Len(y) \in Nat /\ Len(z) = Len(x) + Len(y)
        /\ \A k \in 1..(Len(x) + Len(y)) : z[k] = IF k <= Len(x) THEN x[k] ELSE y[k - Len(x)]
    BY <2>5, ConcatProperties, LenProperties
  <2>7. ASSUME NEW q \in 1..Len(z) PROVE Placed(i, q)
    <3>1. CASE q <= Len(x)
      <4>1. q \in 1..Len(Events(tree, m)) /\ z[q] = x[q]
        BY <2>4, <2>6, <2>7, <3>1
      <4>2. Placed(m, q)
        BY <2>3, <4>1
      <4>3. PICK e \in 1..Len(tree) : \E p \in 1..tree[e].parts :
              /\ IsAncestorEntry(tree, e, m)
              /\ Events(tree, m)[q] = EventsOf(tree, e)[p]
              /\ q = Len(Events(tree, tree[e].parent)) + p
        BY <4>2
      <4>4. IsAncestorEntry(tree, e, i)
        BY <2>1, <4>3, AncestorStep
      <4> QED BY <2>4, <4>1, <4>3, <4>4
    <3>2. CASE ~ (q <= Len(x))
      <4>1. PICK p : p = q - Len(x)
        OBVIOUS
      <4>2. p \in 1..Len(y) /\ q = Len(x) + p /\ z[q] = y[p]
        BY <2>6, <2>7, <3>2, <4>1
      <4>3. IsAncestorEntry(tree, i, i)
        BY AncestorStep
      <4> QED BY <2>1, <2>4, <2>5, <4>2, <4>3
    <3> QED BY <3>1, <3>2
  <2> QED BY <2>2, <2>4, <2>7
<1>3. 0..Len(tree) \subseteq S
  BY <1>0, <1>1, <1>2, Upwards
<1>4. d \in S
  BY <1>3
<1> QED BY <1>4

LEMMA EventOfPlace ==
  ASSUME NEW tree, WellFormed(tree), NEW d \in 0..Len(tree), NEW e, IsAncestorEntry(tree, e, d),
         NEW p \in 1..tree[e].parts
  PROVE /\ e \in 1..Len(tree)
        /\ Len(Events(tree, tree[e].parent)) + p \in 1..Len(Events(tree, d))
        /\ Events(tree, d)[Len(Events(tree, tree[e].parent)) + p] = EventsOf(tree, e)[p]
        /\ Len(Events(tree, tree[e].parent)) \in Nat
        /\ Len(Events(tree, e)) = Len(Events(tree, tree[e].parent)) + tree[e].parts
<1>0. Len(tree) \in Nat
  BY DEF WellFormed
<1>1. e \in 1..Len(tree)
  <2>1. e \in 1..d
    BY AncestorBound
  <2> QED BY <1>0, <2>1
<1>2. PICK m : m = tree[e].parent
  OBVIOUS
<1>3. m \in 0..Len(tree) /\ e \in 0..Len(tree)
  BY <1>0, <1>1, <1>2 DEF WellFormed
<1>4. PICK x, y, z, w : /\ x = Events(tree, m) /\ y = EventsOf(tree, e)
                        /\ z = Events(tree, e) /\ w = Events(tree, d)
  OBVIOUS
<1>5. x \in Seq(Recorded(tree)) /\ y \in Seq(Recorded(tree)) /\ z = x \o y
      /\ Len(y) = tree[e].parts
  BY <1>1, <1>2, <1>3, <1>4, EventsOfEntry, EventsStep
<1>6. Len(x) \in Nat /\ Len(y) \in Nat /\ Len(z) = Len(x) + Len(y)
      /\ \A k \in 1..(Len(x) + Len(y)) : z[k] = IF k <= Len(x) THEN x[k] ELSE y[k - Len(x)]
  BY <1>5, ConcatProperties, LenProperties
<1>7. Extends(w, z)
  BY <1>4, EventsGrow
<1>8. PICK r : r = Len(x) + p
  OBVIOUS
<1>9. r \in 1..Len(z) /\ r \in 1..(Len(x) + Len(y)) /\ ~ (r <= Len(x)) /\ r - Len(x) = p
  BY <1>5, <1>6, <1>8
<1>10. z[r] = y[p] /\ r \in 1..Len(w) /\ w[r] = z[r]
  BY <1>6, <1>7, <1>9 DEF Extends
<1> QED BY <1>1, <1>2, <1>4, <1>5, <1>6, <1>8, <1>10


-----------------------------------------------------------------------------
(* Archives end with entries *)

LEMMA SnapAtomic ==
  ASSUME NEW events, Len(events) \in Nat, NEW i \in 0..Len(events), NEW r,
         r = SnapToAtomicBoundary(events, i)
  PROVE r = 0 \/ r = Len(events) \/ ~ InEntry(events, r)
<1>1. PICK f : /\ Snaps(events, f, Len(events))
               /\ \A k : SnapToAtomicBoundary(events, k) = f[k]
  BY SnapIs
<1> DEFINE S == {k \in 0..Len(events) :
                   f[k] = 0 \/ f[k] = Len(events) \/ ~ InEntry(events, f[k])}
<1>2. 0 \in S
  BY <1>1 DEF Snaps
<1>3. ASSUME NEW k \in 1..Len(events), 0..(k - 1) \subseteq S PROVE k \in S
  <2>1. k \in Nat \ {0} /\ k \in 0..Len(events)
    OBVIOUS
  <2>2. f[k] = IF k = 0 \/ k = Len(events) THEN k
               ELSE IF ~ InEntry(events, k) /\ ~ InStep(events, k) THEN k ELSE f[Back(events, k)]
    BY <1>1, <2>1 DEF Snaps
  <2>3. Back(events, k) \in S
    BY <1>3, <2>1, BackGoesBack
  <2> QED BY <2>1, <2>2, <2>3
<1>4. 0..Len(events) \subseteq S
  BY <1>2, <1>3, Upwards
<1> QED BY <1>1, <1>4

LEMMA PlanAtomic ==
  ASSUME NEW events, Len(events) \in Nat, NEW ends, ends = PlanArchives(events),
         NEW j \in 1..Len(ends)
  PROVE ends[j] = Len(events) \/ ~ InEntry(events, ends[j])
<1>1. PICK n, f : n = Due(events) /\ Plans(events, f, n) /\ ends = f[n]
  BY PlanIs DEF Due
<1>2. n \in Nat
  BY <1>1, TargetsAreInterval DEF Due
<1> DEFINE Atomic(s) == \A i \in 1..Len(s) :
                          s[i] = 0 \/ s[i] = Len(events) \/ ~ InEntry(events, s[i])
           S == {k \in 0..n : Atomic(f[k])}
<1> HIDE DEF Atomic
<1>3. 0 \in S
  <2>1. PICK e : e = f[0]
    OBVIOUS
  <2>2. e = <<>>
    BY <1>1, <1>2, <2>1 DEF Plans
  <2>3. Len(e) = 0
    BY <2>2
  <2>4. Atomic(e)
    BY <2>3 DEF Atomic
  <2> QED BY <1>2, <2>1, <2>4
<1>4. ASSUME NEW k \in 1..n, 0..(k - 1) \subseteq S PROVE k \in S
  <2>1. k \in Nat /\ k # 0 /\ k - 1 \in 0..(k - 1) /\ k \in 0..n /\ k - 1 \in 0..n
    BY <1>2
  <2>2. PICK s, t, e : s = f[k - 1] /\ t = f[k] /\ e = ArchiveEnd(events, k)
    OBVIOUS
  <2>3. Atomic(s) /\ Ends(events, s) /\ s \in Seq(Nat)
    BY <1>1, <1>2, <1>4, <2>1, <2>2, PlansAreEnds DEF Ends
  <2>4. t = NextEnds(events, s, k)
    BY <1>1, <2>1, <2>2 DEF Plans
  <2>5. t = s \/ (t = <<e>> /\ s = <<>>) \/ t = Append(s, e)
    BY <2>2, <2>4 DEF NextEnds
  <2>6. LastIndexAtOrBelow(events, k * ChunkBudget) \in 0..Len(events)
    BY <2>1, ArchiveEndBound
  <2>7. e = 0 \/ e = Len(events) \/ ~ InEntry(events, e)
    BY <2>2, <2>6, SnapAtomic DEF ArchiveEnd
  <2>8. e \in Nat
    BY <2>1, <2>2, ArchiveEndBound
  <2>9. CASE t = <<e>>
    <3>1. Len(t) = 1 /\ t[1] = e
      BY <2>9
    <3>2. Atomic(t)
      BY <2>7, <3>1 DEF Atomic
    <3> QED BY <2>1, <2>2, <3>2
  <2>10. CASE t = Append(s, e)
    <3>1. Len(t) = Len(s) + 1 /\ Len(s) \in Nat /\ t[Len(s) + 1] = e
          /\ \A i \in 1..Len(s) : t[i] = s[i]
      BY <2>3, <2>8, <2>10
    <3>2. \A i \in 1..Len(t) : i = Len(s) + 1 \/ i \in 1..Len(s)
      BY <3>1
    <3>3. Atomic(t)
      BY <2>3, <2>7, <3>1, <3>2 DEF Atomic
    <3> QED BY <2>1, <2>2, <3>3
  <2> QED BY <2>1, <2>2, <2>3, <2>5, <2>9, <2>10
<1>5. 0..n \subseteq S
  BY <1>2, <1>3, <1>4, Upwards
<1>6. Atomic(ends)
  BY <1>1, <1>2, <1>5
<1>7. ends[j] \in 1..Len(events)
  <2>1. Ends(events, ends)
    BY DescribeIs
  <2> QED BY <2>1 DEF Ends
<1>8. ends[j] # 0
  BY <1>7
<1> QED BY <1>6, <1>8 DEF Atomic

\* The entry an archive ends with, 0 for the archive before the first.
EndOf(archive) == archive.last[1]

\* An archive that ends with an entry of the tree.
Bounded(tree, archive) ==
  /\ EndOf(archive) \in 1..Len(tree)
  /\ archive.last = <<EndOf(archive), tree[EndOf(archive)].parts>>

\* The end of the archive before the k-th of a sequence.
EndBefore(archives, k) == IF k = 1 THEN 0 ELSE EndOf(archives[k - 1])

\* Of a branch: the event at a position that splits no entry is the last of its
\* entry, and the branch up to there is the one of that entry.
LEMMA AtomicPosition ==
  ASSUME NEW tree, WellFormed(tree), NEW d \in 0..Len(tree), NEW events, events = Events(tree, d),
         NEW r \in 1..Len(events), r = Len(events) \/ ~ InEntry(events, r)
  PROVE LET e == events[r].entry
        IN /\ e \in 1..Len(tree) /\ IsAncestorEntry(tree, e, d)
           /\ EventId(events[r]) = <<e, tree[e].parts>>
           /\ Len(Events(tree, e)) = r
<1>0. Len(tree) \in Nat /\ events \in Seq(Recorded(tree)) /\ Len(events) \in Nat
  BY EventsStep, LenProperties DEF WellFormed
<1>1. PICK e \in 1..Len(tree) : \E p \in 1..tree[e].parts :
          /\ IsAncestorEntry(tree, e, d)
          /\ Events(tree, d)[r] = EventsOf(tree, e)[p]
          /\ r = Len(Events(tree, tree[e].parent)) + p
  <2>1. WellFormed(tree) /\ d \in 0..Len(tree) /\ r \in 1..Len(Events(tree, d))
    OBVIOUS
  <2> QED BY ONLY ZenonT(30), <2>1, PlaceOfEvent, HistoryAssumption
<1>2. PICK p \in 1..tree[e].parts :
          /\ IsAncestorEntry(tree, e, d)
          /\ events[r] = EventsOf(tree, e)[p]
          /\ r = Len(Events(tree, tree[e].parent)) + p
  BY <1>1
<1>3. events[r].entry = e /\ events[r].part = p /\ tree[e].parts \in Nat \ {0}
  BY <1>2, EventsOfEntry
<1>4. p = tree[e].parts
  <2> SUFFICES ASSUME p # tree[e].parts PROVE FALSE
    OBVIOUS
  <2>1. PICK q : q = p + 1
    OBVIOUS
  <2>2. q \in 1..tree[e].parts
    BY <1>3, <2>1
  <2>3. PICK m : m = Len(Events(tree, tree[e].parent))
    OBVIOUS
  <2>4. m \in Nat /\ m + q \in 1..Len(events) /\ events[m + q] = EventsOf(tree, e)[q]
    BY <1>2, <2>2, <2>3, EventOfPlace
  <2>5. m + q = r + 1 /\ r # Len(events)
    BY <1>0, <1>2, <1>3, <2>1, <2>3, <2>4
  <2>6. events[r + 1].entry = e
    BY <2>2, <2>4, <2>5, EventsOfEntry
  <2> QED BY <1>3, <2>5, <2>6 DEF InEntry
<1>5. Len(Events(tree, e)) = Len(Events(tree, tree[e].parent)) + tree[e].parts
  BY <1>2, EventOfPlace
<1>6. r = Len(Events(tree, e))
  BY <1>2, <1>4, <1>5
<1> QED BY <1>2, <1>3, <1>4, <1>6 DEF EventId

LEMMA ArchiveOfBranch ==
  ASSUME NEW tree, WellFormed(tree), NEW d \in 0..Len(tree), NEW archives,
         archives = DescribeArchives(Events(tree, d)), NEW k \in 1..Len(archives)
  PROVE /\ Bounded(tree, archives[k])
        /\ IsAncestorEntry(tree, EndOf(archives[k]), d)
        /\ \A x \in ToSet(Events(tree, EndOf(archives[k]))) :
             x \in ToSet(Events(tree, EndBefore(archives, k))) \/ x \in ToSet(archives[k].content)
<1>1. PICK events, ends, T : /\ events = Events(tree, d) /\ ends = PlanArchives(events)
                             /\ T = Recorded(tree)
  OBVIOUS
<1>2. events \in Seq(T) /\ Len(events) \in Nat /\ Len(tree) \in Nat
  BY <1>1, EventsStep, LenProperties DEF WellFormed
<1>3. /\ \A j \in 1..Len(ends) : /\ First(ends, j) \in 1..ends[j]
                                 /\ ends[j] \in 1..Len(events)
                                 /\ archives[j] = Manifest(events, ends, j)
      /\ Len(ends) \in Nat /\ Len(archives) = Len(ends)
  BY <1>1, <1>2, DescribeIs
<1> DEFINE E(j) == events[ends[j]].entry
<1>4. ASSUME NEW j \in 1..Len(ends)
      PROVE /\ E(j) \in 1..Len(tree) /\ IsAncestorEntry(tree, E(j), d)
            /\ archives[j].last = <<E(j), tree[E(j)].parts>>
            /\ Len(Events(tree, E(j))) = ends[j]
            /\ archives[j].content = SubSeq(events, First(ends, j), ends[j])
            /\ EndOf(archives[j]) = E(j)
  <2>1. PICK r : r = ends[j]
    OBVIOUS
  <2>2. r \in 1..Len(events) /\ (r = Len(events) \/ ~ InEntry(events, r))
    BY <1>1, <1>2, <1>3, <2>1, PlanAtomic
  <2>3. /\ events[r].entry \in 1..Len(tree) /\ IsAncestorEntry(tree, events[r].entry, d)
        /\ EventId(events[r]) = <<events[r].entry, tree[events[r].entry].parts>>
        /\ Len(Events(tree, events[r].entry)) = r
    BY <1>1, <2>2, AtomicPosition
  <2>4. PICK i, s : i = First(ends, j) /\ s = SubSeq(events, i, r)
    OBVIOUS
  <2>5. i \in 1..r /\ i \in Int /\ r \in Int /\ r \in Nat
    BY <1>2, <1>3, <2>1, <2>2, <2>4
  <2>6. \A m \in i..r : events[m] \in T
    BY <1>2, <2>2, <2>5, ElementOfSeq
  <2>7. Len(s) = r - i + 1 /\ \A m \in 1..(r - i + 1) : s[m] = events[i + m - 1]
    BY SMTT(20), <2>4, <2>5, <2>6, SubSeqProperties
  <2>8. Last(s) = events[r]
    <3>1. PICK m : m = r - i + 1
      OBVIOUS
    <3>2. m \in 1..(r - i + 1) /\ i + m - 1 = r
      BY <2>5, <3>1
    <3> QED BY <2>7, <3>1, <3>2 DEF Last
  <2>9. archives[j].last = EventId(events[r]) /\ archives[j].content = s
    <3>1. archives[j] = ArchiveManifest(s)
      BY <1>3, <2>1, <2>4 DEF Manifest
    <3>2. archives[j].last = EventId(Last(s)) /\ archives[j].content = s
      BY <3>1 DEF ArchiveManifest
    <3> QED BY <2>8, <3>2
  <2> QED BY <2>1, <2>3, <2>4, <2>9 DEF EndOf
<1>5. Bounded(tree, archives[k]) /\ IsAncestorEntry(tree, EndOf(archives[k]), d)
  BY ZenonT(30), <1>3, <1>4 DEF Bounded
<1>6. ASSUME NEW x \in ToSet(Events(tree, EndOf(archives[k]))), x \notin ToSet(archives[k].content)
      PROVE x \in ToSet(Events(tree, EndBefore(archives, k)))
  <2>0. k \in 1..Len(ends)
    BY <1>3
  <2>1. PICK s, i, r : s = Events(tree, E(k)) /\ i = First(ends, k) /\ r = ends[k]
    OBVIOUS
  <2>2. E(k) \in 0..Len(tree)
    BY <1>4, <2>0
  <2>3. s \in Seq(T) /\ Len(s) = r /\ i \in 1..r /\ r \in 1..Len(events)
    BY <1>1, <1>3, <1>4, <2>0, <2>1, <2>2, EventsStep
  <2>4. Extends(events, s)
    BY <1>1, <1>4, <2>0, <2>1, EventsGrow
  <2>5. PICK m \in DOMAIN s : x = s[m]
    BY <1>4, <2>0, <2>1 DEF ToSet
  <2>6. m \in 1..r /\ events[m] = x
    BY <2>3, <2>4, <2>5, LenProperties DEF Extends
  <2>7. PICK c : c = SubSeq(events, i, r)
    OBVIOUS
  <2>8. i \in Int /\ r \in Int /\ i \in Nat /\ r \in Nat /\ m \in Nat
    BY <1>2, <2>3, <2>6
  <2>9. \A n \in i..r : events[n] \in T
    BY <1>2, <2>3, <2>8, ElementOfSeq
  <2>10. c \in Seq(T) /\ Len(c) = r - i + 1 /\ \A n \in 1..(r - i + 1) : c[n] = events[i + n - 1]
    BY SMTT(20), <2>3, <2>7, <2>8, <2>9, SubSeqProperties
  <2>11. m < i
    <3> SUFFICES ASSUME ~ (m < i) PROVE FALSE
      OBVIOUS
    <3>1. PICK n : n = m - i + 1
      OBVIOUS
    <3>2. n \in 1..(r - i + 1) /\ i + n - 1 = m
      BY <2>6, <2>8, <3>1
    <3>3. c[n] = x /\ n \in DOMAIN c
      BY <2>6, <2>8, <2>10, <3>2, LenProperties
    <3>4. x \in ToSet(c)
      BY <3>3 DEF ToSet
    <3>5. c = archives[k].content
      BY <1>4, <2>0, <2>1, <2>7
    <3> QED BY <1>6, <3>4, <3>5
  <2>12. k # 1
    BY <2>1, <2>6, <2>8, <2>11 DEF First
  <2>13. k - 1 \in 1..Len(ends)
    BY <1>3, <2>0, <2>12
  <2>14. PICK t : t = Events(tree, E(k - 1))
    OBVIOUS
  <2>15. E(k - 1) \in 0..Len(tree)
    BY <1>4, <2>13
  <2>16. t \in Seq(T) /\ Len(t) = ends[k - 1]
    BY <1>1, <1>4, <2>13, <2>14, <2>15, EventsStep
  <2>17. i = ends[k - 1] + 1 /\ ends[k - 1] \in Nat
    BY <1>2, <1>3, <2>1, <2>12, <2>13 DEF First
  <2>18. m \in 1..Len(t)
    BY <2>6, <2>8, <2>11, <2>16, <2>17
  <2>19. Extends(events, t)
    BY <1>1, <1>4, <2>13, <2>14, EventsGrow
  <2>20. t[m] = x /\ m \in DOMAIN t
    BY <2>6, <2>16, <2>18, <2>19, LenProperties DEF Extends
  <2>21. x \in ToSet(t)
    BY <2>20 DEF ToSet
  <2>22. EndBefore(archives, k) = E(k - 1)
    BY <1>4, <2>12, <2>13 DEF EndBefore
  <2> QED BY <2>14, <2>21, <2>22
<1> QED BY <1>5, <1>6


-----------------------------------------------------------------------------
(* Prefixes of branches *)

LEMMA BranchPrefix ==
  ASSUME NEW tree, WellFormed(tree), NEW d \in 0..Len(tree), NEW n \in 0..Len(Branch(tree, d))
  PROVE \E j \in 0..Len(tree) :
          /\ SubSeq(Branch(tree, d), 1, n) = Branch(tree, j)
          /\ j = IF n = 0 THEN 0 ELSE Branch(tree, d)[n]
          /\ j = 0 \/ IsAncestorEntry(tree, j, d)
<1> DEFINE Prefix(i) ==
      \A m \in 0..Len(Branch(tree, i)) : \E j \in 0..Len(tree) :
          /\ SubSeq(Branch(tree, i), 1, m) = Branch(tree, j)
          /\ j = IF m = 0 THEN 0 ELSE Branch(tree, i)[m]
          /\ j = 0 \/ IsAncestorEntry(tree, j, i)
           S == {i \in 0..Len(tree) : Prefix(i)}
<1>0. Len(tree) \in Nat /\ 0 \in 0..Len(tree)
  BY DEF WellFormed
<1> HIDE DEF Prefix
<1>1. ASSUME NEW s \in Seq(Nat) PROVE SubSeq(s, 1, 0) = Branch(tree, 0)
  <2>1. SubSeq(s, 1, 0) = <<>>
    BY SubSeqEmpty
  <2> QED BY <2>1, BranchStep
<1>2. \A i \in 0..Len(tree) : Branch(tree, i) \in Seq(Nat)
  BY BranchIsPath
<1>3. 0 \in S
  <2>1. PICK s : s = Branch(tree, 0)
    OBVIOUS
  <2>2. s = <<>>
    BY <2>1, BranchStep
  <2>3. Len(s) = 0
    BY <2>2
  <2>4. s \in Seq(Nat)
    BY <1>0, <1>2, <2>1
  <2>5. \A m \in 0..Len(s) : m = 0
    BY <2>3
  <2>6. SubSeq(s, 1, 0) = Branch(tree, 0)
    BY <1>1, <2>4
  <2>7. ASSUME NEW m \in 0..Len(s)
        PROVE \E j \in 0..Len(tree) :
                /\ SubSeq(s, 1, m) = Branch(tree, j)
                /\ j = IF m = 0 THEN 0 ELSE s[m]
                /\ j = 0 \/ IsAncestorEntry(tree, j, 0)
    <3>1. m = 0
      BY <2>5
    <3>2. SubSeq(s, 1, m) = Branch(tree, 0)
      BY <2>6, <3>1
    <3> QED BY <1>0, <3>1, <3>2
  <2>8. Prefix(0)
    BY <2>1, <2>7 DEF Prefix
  <2> QED BY <1>0, <2>8
<1>4. ASSUME NEW i \in 1..Len(tree), 0..(i - 1) \subseteq S PROVE i \in S
  <2>1. PICK p, b, c : p = tree[i].parent /\ b = Branch(tree, p) /\ c = Branch(tree, i)
    OBVIOUS
  <2>2. p \in 0..(i - 1) /\ p \in 0..Len(tree) /\ i \in 0..Len(tree)
    BY <1>0, <2>1 DEF WellFormed
  <2>3. p \in S
    BY <1>4, <2>2
  <2>4. Prefix(p)
    BY <2>3
  <2>9. c = Append(b, i)
    BY <2>1, BranchStep
  <2>5. b \in Seq(Nat) /\ c \in Seq(Nat) /\ c = Append(b, i) /\ i \in Nat
    BY <1>0, <1>2, <2>1, <2>2, <2>9
  <2>6. Len(c) = Len(b) + 1 /\ Len(b) \in Nat /\ c[Len(b) + 1] = i
        /\ \A k \in 1..Len(b) : c[k] = b[k]
    BY <2>5
  <2>7. ASSUME NEW m \in 0..Len(c)
        PROVE \E j \in 0..Len(tree) :
                /\ SubSeq(c, 1, m) = Branch(tree, j)
                /\ j = IF m = 0 THEN 0 ELSE c[m]
                /\ j = 0 \/ IsAncestorEntry(tree, j, i)
    <3>1. CASE m = Len(c)
      <4>1. SubSeq(c, 1, m) = c
        BY <2>5, <3>1, SubSeqFull
      <4>2. c[m] = i /\ m # 0
        BY <2>6, <3>1
      <4>3. IsAncestorEntry(tree, i, i)
        BY AncestorStep
      <4> QED BY <2>1, <2>2, <4>1, <4>2, <4>3
    <3>2. CASE m # Len(c)
      <4>1. m \in 0..Len(b) /\ m \in Nat /\ m <= Len(b)
        BY <2>6, <2>7, <3>2
      <4>2. PICK j \in 0..Len(tree) :
              /\ SubSeq(b, 1, m) = Branch(tree, j)
              /\ j = IF m = 0 THEN 0 ELSE b[m]
              /\ j = 0 \/ IsAncestorEntry(tree, j, p)
        BY <2>1, <2>4, <4>1 DEF Prefix
      <4>3. Extends(c, b)
        BY <2>6 DEF Extends
      <4>4. SubSeq(c, 1, m) = SubSeq(b, 1, m)
        BY <2>5, <4>1, <4>3, SubSeqKept
      <4>5. m # 0 => c[m] = b[m]
        BY <2>6, <4>1
      <4>6. j = 0 \/ IsAncestorEntry(tree, j, i)
        BY <2>1, <4>2, AncestorStep
      <4> QED BY <4>2, <4>4, <4>5, <4>6
    <3> QED BY <3>1, <3>2
  <2>8. Prefix(i)
    BY <2>1, <2>7 DEF Prefix
  <2> QED BY <2>2, <2>8
<1>5. 0..Len(tree) \subseteq S
  BY <1>0, <1>3, <1>4, Upwards
<1>6. Prefix(d)
  BY <1>5
<1> QED BY <1>6 DEF Prefix

LEMMA AcknowledgedPrefixIsBranch ==
  ASSUME NEW tree, WellFormed(tree), NEW ack, NEW d \in 0..Len(tree)
  PROVE /\ \E j \in 0..Len(tree) :
             /\ AcknowledgedPrefix(tree, ack, Branch(tree, d)) = Branch(tree, j)
             /\ j = 0 \/ IsAncestorEntry(tree, j, d)
        /\ (\A i \in 1..Len(tree) : IsEntryAcknowledged(tree, ack, i)) =>
             AcknowledgedPrefix(tree, ack, Branch(tree, d)) = Branch(tree, d)
<1>0. Len(tree) \in Nat
  BY DEF WellFormed
<1>1. PICK b : b = Branch(tree, d)
  OBVIOUS
<1>2. b \in Seq(Nat) /\ Len(b) \in Nat /\ \A k \in 1..Len(b) : b[k] \in 1..d
  BY <1>1, BranchIsPath, LenProperties
<1>3. PICK open : open = {i \in 1..Len(b) : ~ IsEntryAcknowledged(tree, ack, b[i])}
  OBVIOUS
<1>4. AcknowledgedPrefix(tree, ack, b) = IF open = {} THEN b ELSE SubSeq(b, 1, Min(open) - 1)
  BY <1>3 DEF AcknowledgedPrefix
<1>5. PICK n : n = IF open = {} THEN Len(b) ELSE Min(open) - 1
  OBVIOUS
<1>6. n \in 0..Len(b)
  <2>1. CASE open = {}
    BY <1>2, <1>5, <2>1
  <2>2. CASE open # {}
    <3>1. open \in SUBSET Nat
      BY <1>3
    <3>2. Min(open) \in open
      BY <2>2, <3>1, MinIsLeast
    <3>3. Min(open) \in 1..Len(b)
      BY <1>3, <3>2
    <3> QED BY <1>2, <1>5, <2>2, <3>3
  <2> QED BY <2>1, <2>2
<1>7. SubSeq(b, 1, Len(b)) = b
  BY <1>2, SubSeqFull
<1>8. AcknowledgedPrefix(tree, ack, b) = SubSeq(b, 1, n)
  BY <1>4, <1>5, <1>7
<1>9. \E j \in 0..Len(tree) : SubSeq(b, 1, n) = Branch(tree, j) /\ (j = 0 \/ IsAncestorEntry(tree, j, d))
  BY <1>1, <1>6, BranchPrefix
<1>10. ASSUME \A i \in 1..Len(tree) : IsEntryAcknowledged(tree, ack, i)
       PROVE AcknowledgedPrefix(tree, ack, b) = b
  <2>1. \A k \in 1..Len(b) : b[k] \in 1..Len(tree)
    BY <1>0, <1>2
  <2>2. open = {}
    BY <1>3, <1>10, <2>1
  <2> QED BY <1>4, <2>2
<1> QED BY <1>1, <1>8, <1>9, <1>10

-----------------------------------------------------------------------------
(* The active context *)

LEMMA PositionInBranch ==
  ASSUME NEW tree, WellFormed(tree), NEW d \in 0..Len(tree), NEW events, events = Events(tree, d),
         NEW e, NEW p
  PROVE /\ Position(events, <<e, p>>) \in 0..Len(events)
        /\ Position(events, <<e, p>>) # 0 =>
             /\ e \in 1..Len(tree) /\ IsAncestorEntry(tree, e, d) /\ p \in 1..tree[e].parts
             /\ Position(events, <<e, p>>) = Len(Events(tree, tree[e].parent)) + p
<1>0. Len(events) \in Nat
  BY EventsStep, LenProperties
<1>1. PICK id, at : id = <<e, p>> /\ at = {i \in 1..Len(events) : EventId(events[i]) = id}
  OBVIOUS
<1>2. Position(events, id) = IF at = {} THEN 0 ELSE Min(at)
  BY <1>1 DEF Position
<1>3. CASE at = {}
  BY <1>0, <1>1, <1>2, <1>3
<1>4. CASE at # {}
  <2>1. at \in SUBSET Nat
    BY <1>1
  <2>2. PICK r : r = Min(at)
    OBVIOUS
  <2>3. r \in 1..Len(events) /\ EventId(events[r]) = id
    BY <1>1, <1>4, <2>1, <2>2, MinIsLeast
  <2>4. PICK f \in 1..Len(tree) : \E q \in 1..tree[f].parts :
          /\ IsAncestorEntry(tree, f, d)
          /\ Events(tree, d)[r] = EventsOf(tree, f)[q]
          /\ r = Len(Events(tree, tree[f].parent)) + q
    <3>1. WellFormed(tree) /\ d \in 0..Len(tree) /\ r \in 1..Len(Events(tree, d))
      BY <2>3
    <3> QED BY ONLY ZenonT(30), <3>1, PlaceOfEvent, HistoryAssumption
  <2>5. PICK q \in 1..tree[f].parts :
          /\ IsAncestorEntry(tree, f, d)
          /\ events[r] = EventsOf(tree, f)[q]
          /\ r = Len(Events(tree, tree[f].parent)) + q
    BY <2>4
  <2>6. EventId(events[r]) = <<f, q>>
    BY <2>5, EventsOfEntry DEF EventId
  <2>7. f = e /\ q = p
    BY <1>1, <2>3, <2>6
  <2>8. Position(events, id) = r /\ r \in 0..Len(events)
    BY <1>2, <1>4, <2>2, <2>3
  <2> QED BY <1>1, <2>4, <2>5, <2>7, <2>8
<1> QED BY <1>3, <1>4

\* The event that follows the end of an entry on a branch is the first of a child.
LEMMA NextEntry ==
  ASSUME NEW tree, WellFormed(tree), NEW d \in 0..Len(tree), NEW events, events = Events(tree, d),
         NEW e \in 1..Len(tree), NEW r, r = Position(events, <<e, tree[e].parts>>),
         r \in 1..(Len(events) - 1)
  PROVE \E f \in 1..Len(tree) : tree[f].parent = e /\ EventId(events[r + 1]) = <<f, 1>>
<1>0. Len(tree) \in Nat /\ Len(events) \in Nat
  BY EventsStep, LenProperties DEF WellFormed
<1>1. r # 0 /\ r + 1 \in 1..Len(events) /\ r \in Nat
  BY <1>0
<1>2. r = Len(Events(tree, tree[e].parent)) + tree[e].parts /\ IsAncestorEntry(tree, e, d)
      /\ tree[e].parts \in 1..tree[e].parts
  BY SMTT(20), <1>1, PositionInBranch
<1>14. PICK next : next = r + 1
  OBVIOUS
<1>15. next \in 1..Len(Events(tree, d))
  BY <1>1, <1>14
<1>16. WellFormed(tree) /\ d \in 0..Len(tree)
  OBVIOUS
<1>17. \E f \in 1..Len(tree) : \E p \in 1..tree[f].parts :
          /\ IsAncestorEntry(tree, f, d)
          /\ Events(tree, d)[next] = EventsOf(tree, f)[p]
          /\ next = Len(Events(tree, tree[f].parent)) + p
  BY ONLY ZenonT(30), <1>15, <1>16, PlaceOfEvent, HistoryAssumption
<1>3. PICK f \in 1..Len(tree) : \E p \in 1..tree[f].parts :
          /\ IsAncestorEntry(tree, f, d)
          /\ events[next] = EventsOf(tree, f)[p]
          /\ next = Len(Events(tree, tree[f].parent)) + p
  BY <1>17
<1>4. PICK p \in 1..tree[f].parts :
          /\ IsAncestorEntry(tree, f, d)
          /\ events[r + 1] = EventsOf(tree, f)[p]
          /\ r + 1 = Len(Events(tree, tree[f].parent)) + p
  BY <1>3, <1>14
<1>5. EventId(events[r + 1]) = <<f, p>>
  BY <1>4, EventsOfEntry DEF EventId
<1>6. Len(Events(tree, e)) = r
  BY <1>2, EventOfPlace
<1>7. PICK g, m : g = tree[f].parent /\ m = Len(Events(tree, g))
  OBVIOUS
<1>8. g \in 0..Len(tree) /\ m \in Nat /\ r + 1 = m + p /\ p \in Nat /\ p >= 1
  <2>1. g \in 0..Len(tree)
    BY SMTT(20), <1>0, <1>7 DEF WellFormed
  <2>2. m \in Nat
    BY <1>7, <2>1, EventsStep, LenProperties
  <2>3. tree[f].parts \in Nat
    BY DEF WellFormed
  <2> QED BY <1>4, <1>7, <2>1, <2>2, <2>3
\* The event before it is the last of e, and of f's parent.
<1>18. events[r] = EventsOf(tree, e)[tree[e].parts]
  <2>1. PICK last : last = tree[e].parts
    OBVIOUS
  <2>2. IsAncestorEntry(tree, e, d) /\ last \in 1..tree[e].parts
    BY <1>2, <2>1
  <2>3. Events(tree, d)[Len(Events(tree, tree[e].parent)) + last] = EventsOf(tree, e)[last]
    BY ONLY <1>16, <2>2, EventOfPlace, HistoryAssumption
  <2> QED BY <1>2, <2>1, <2>3
<1>9. p = 1
  <2> SUFFICES ASSUME p # 1 PROVE FALSE
    OBVIOUS
  <2>1. PICK q : q = p - 1
    OBVIOUS
  <2>10. PICK n : n = tree[f].parts
    OBVIOUS
  <2>11. n \in Nat /\ p \in 1..n
    BY <1>4, <2>10, EventsOfEntry
  <2>12. q \in 1..n /\ m + q = r
    BY <1>1, <1>8, <2>1, <2>11
  <2>2. q \in 1..tree[f].parts /\ m + q = r
    BY <2>10, <2>12
  <2>14. IsAncestorEntry(tree, f, d) /\ q \in 1..tree[f].parts
    BY <1>4, <2>2
  <2>15. Events(tree, d)[Len(Events(tree, tree[f].parent)) + q] = EventsOf(tree, f)[q]
    BY ONLY <1>16, <2>14, EventOfPlace, HistoryAssumption
  <2>13. events[m + q] = EventsOf(tree, f)[q]
    BY <1>7, <2>15
  <2>3. events[r] = EventsOf(tree, f)[q]
    BY <2>2, <2>13
  <2>4. events[r].entry = f
    BY <2>2, <2>3, EventsOfEntry
  <2>6. events[r].entry = e
    <3>1. \A u \in 1..tree[e].parts : EventsOf(tree, e)[u].entry = e
      BY EventsOfEntry
    <3> QED BY <1>2, <1>18, <3>1
  <2>7. e = f
    BY <2>4, <2>6
  <2>8. p <= tree[e].parts /\ tree[e].parts \in Nat
    BY <1>4, <2>7 DEF WellFormed
  <2>9. m + tree[e].parts = r
    BY <1>2, <1>7, <2>7
  <2> QED BY SMTT(20), <1>8, <2>8, <2>9
<1>10. m = r
  BY <1>1, <1>8, <1>9
<1>11. g # 0
  <2> SUFFICES ASSUME g = 0 PROVE FALSE
    OBVIOUS
  <2>1. PICK s : s = Events(tree, 0)
    OBVIOUS
  <2>2. s = <<>>
    BY <2>1, EventsStep
  <2>3. Len(s) = 0
    BY <2>2
  <2> QED BY <1>1, <1>7, <1>10, <2>1, <2>3
<1>12. g \in 1..Len(tree) /\ IsAncestorEntry(tree, g, d)
  <2>1. g \in 1..Len(tree)
    BY <1>0, <1>8, <1>11
  <2>2. IsAncestorEntry(tree, g, g)
    BY <2>1, AncestorStep
  <2>3. IsAncestorEntry(tree, g, f)
    BY <1>7, <2>2, AncestorStep
  <2>4. IsAncestorEntry(tree, g, d)
    BY <1>4, <2>3, AncestorTransitive
  <2> QED BY <2>1, <2>4
<1>13. g = e
  <2>7. PICK n : n = tree[g].parts
    OBVIOUS
  <2>8. n \in Nat \ {0}
    BY <1>12, <2>7, EventsOfEntry
  <2>1. tree[g].parts \in 1..tree[g].parts
    BY <2>7, <2>8
  <2>2. Len(Events(tree, g)) = Len(Events(tree, tree[g].parent)) + tree[g].parts
        /\ events[Len(Events(tree, tree[g].parent)) + tree[g].parts] = EventsOf(tree, g)[tree[g].parts]
    BY ZenonT(30), <1>12, <2>1, EventOfPlace
  <2>3. events[r] = EventsOf(tree, g)[tree[g].parts]
    BY <1>7, <1>10, <2>2
  <2>4. events[r].entry = g
    <3>1. \A u \in 1..tree[g].parts : EventsOf(tree, g)[u].entry = g
      BY <1>12, EventsOfEntry
    <3> QED BY <2>1, <2>3, <3>1
  <2>6. events[r].entry = e
    <3>1. \A q \in 1..tree[e].parts : EventsOf(tree, e)[q].entry = e
      BY EventsOfEntry
    <3> QED BY <1>2, <1>18, <3>1
  <2> QED BY <2>4, <2>6
<1> QED BY <1>5, <1>7, <1>9, <1>13


LEMMA MessagesAre ==
  ASSUME NEW T, NEW events \in Seq(T)
  PROVE /\ MessagesFromEvents(events) \in Seq({x.entry : x \in T})
        /\ \A i : i \in ToSet(MessagesFromEvents(events)) <=>
                    \E r \in 1..Len(events) : /\ events[r].part = 1 /\ GivesMessage(events[r].kind)
                                              /\ events[r].entry = i
<1>1. PICK shown, f : /\ shown = {e \in ToSet(events) : e.part = 1 /\ GivesMessage(e.kind)}
                      /\ f = Filter(events, shown)
  OBVIOUS
<1>2. f \in Seq(T) /\ \A x : (\E k \in 1..Len(f) : f[k] = x)
                               <=> x \in shown /\ \E k \in 1..Len(events) : events[k] = x
  <2>1. /\ Filter(events, shown) \in Seq(T)
        /\ \A x : (\E k \in 1..Len(Filter(events, shown)) : Filter(events, shown)[k] = x)
                    <=> x \in shown /\ \E k \in 1..Len(events) : events[k] = x
    BY FilterKeeps
  <2>2. f = Filter(events, shown)
    BY <1>1
  <2> QED BY ONLY <2>1, <2>2
<1>3. Len(f) \in Nat /\ \A k \in 1..Len(f) : f[k] \in T
  BY <1>2, ElementOfSeq, LenProperties
<1>4. PICK m : m = [k \in 1..Len(f) |-> f[k].entry]
  OBVIOUS
<1>5. MessagesFromEvents(events) = m
  BY <1>1, <1>4 DEF MessagesFromEvents
<1>6. m \in [1..Len(f) -> {x.entry : x \in T}]
  BY <1>3, <1>4
<1>7. m \in Seq({x.entry : x \in T})
  BY <1>3, <1>6, FunctionIsSeq
<1>8. \A x : x \in shown <=> x.part = 1 /\ GivesMessage(x.kind) /\ \E k \in 1..Len(events) : events[k] = x
  <2>1. DOMAIN events = 1..Len(events)
    BY LenProperties
  <2> QED BY <1>1, <2>1 DEF ToSet
<1>9. \A i : i \in ToSet(m) <=> \E k \in 1..Len(f) : f[k].entry = i
  BY <1>4 DEF ToSet
<1>10. ASSUME NEW i
       PROVE i \in ToSet(m) <=>
               \E r \in 1..Len(events) : /\ events[r].part = 1 /\ GivesMessage(events[r].kind)
                                         /\ events[r].entry = i
  <2>1. ASSUME NEW k \in 1..Len(f), f[k].entry = i
        PROVE \E r \in 1..Len(events) : /\ events[r].part = 1 /\ GivesMessage(events[r].kind)
                                        /\ events[r].entry = i
    <3>1. PICK x : x = f[k]
      OBVIOUS
    <3>2. x \in shown
      BY <1>2, <3>1
    <3>3. PICK r \in 1..Len(events) : events[r] = x
      BY <1>8, <3>2
    <3> QED BY <1>8, <2>1, <3>1, <3>2, <3>3
  <2>2. ASSUME NEW r \in 1..Len(events), events[r].part = 1, GivesMessage(events[r].kind),
               events[r].entry = i
        PROVE \E k \in 1..Len(f) : f[k].entry = i
    <3>1. PICK x : x = events[r]
      OBVIOUS
    <3>2. x \in shown
      BY <1>8, <2>2, <3>1
    <3>3. PICK k \in 1..Len(f) : f[k] = x
      BY <1>2, <3>1, <3>2
    <3> QED BY <2>2, <3>1, <3>3
  <2> QED BY <1>9, <2>1, <2>2
<1> QED BY <1>5, <1>7, <1>10

\* A context whose raw tail starts with the entry that follows its archive.
Anchored(tree, c) ==
  /\ Bounded(tree, c.checkpoint)
  /\ c.start = <<c.start[1], 1>>
  /\ c.start[1] \in 1..Len(tree)
  /\ tree[c.start[1]].parent = EndOf(c.checkpoint)

AtMostOne(S) == \A x, y \in S : x = y

LEMMA SelectedIs ==
  ASSUME NEW tree, WellFormed(tree), NEW d \in 0..Len(tree), NEW events, events = Events(tree, d),
         NEW archives, NEW checkpoint, \A a \in checkpoint : Bounded(tree, a)
  PROVE \A c \in SelectActiveContext(events, archives, checkpoint) :
          /\ c.checkpoint \in checkpoint
          /\ Anchored(tree, c)
<1> SUFFICES ASSUME NEW c \in SelectActiveContext(events, archives, checkpoint)
             PROVE c.checkpoint \in checkpoint /\ Anchored(tree, c)
  OBVIOUS
<1>1. PICK a \in checkpoint :
        /\ Position(events, a.last) \in 1..(Len(events) - 1)
        /\ c = [checkpoint |-> a, start |-> EventId(events[Position(events, a.last) + 1])]
  BY DEF SelectActiveContext
<1>2. PICK e, r : e = EndOf(a) /\ r = Position(events, a.last)
  OBVIOUS
<1>3. e \in 1..Len(tree) /\ a.last = <<e, tree[e].parts>> /\ Bounded(tree, a)
  BY <1>2 DEF Bounded
<1>4. r = Position(events, <<e, tree[e].parts>>) /\ r \in 1..(Len(events) - 1)
  BY <1>1, <1>2, <1>3
<1>5. PICK f \in 1..Len(tree) : tree[f].parent = e /\ EventId(events[r + 1]) = <<f, 1>>
  BY SMTT(20), <1>3, <1>4, NextEntry
<1>6. c.checkpoint = a /\ c.start = <<f, 1>>
  BY <1>1, <1>2, <1>5
<1>7. c.start[1] = f
  BY <1>6
<1> QED BY <1>2, <1>3, <1>5, <1>6, <1>7 DEF Anchored

LEMMA SelectedOne ==
  ASSUME NEW events, NEW archives, NEW checkpoint, AtMostOne(checkpoint)
  PROVE AtMostOne(SelectActiveContext(events, archives, checkpoint))
BY DEF AtMostOne, SelectActiveContext

LEMMA SelectedOnBranch ==
  ASSUME NEW events, Len(events) \in Nat, NEW archives, NEW checkpoint,
         SelectActiveContext(events, archives, checkpoint) # {}
  PROVE ActiveContextOnBranch(SelectActiveContext(events, archives, checkpoint), events)
<1>1. PICK c \in SelectActiveContext(events, archives, checkpoint) : TRUE
  OBVIOUS
<1>2. PICK a \in checkpoint :
        /\ Position(events, a.last) \in 1..(Len(events) - 1)
        /\ c = [checkpoint |-> a, start |-> EventId(events[Position(events, a.last) + 1])]
  BY DEF SelectActiveContext
<1>3. PICK r : r = Position(events, a.last) + 1
  OBVIOUS
<1>4. r \in 1..Len(events) /\ c.start = EventId(events[r])
  BY <1>2, <1>3
<1>5. PICK at : at = {i \in 1..Len(events) : EventId(events[i]) = c.start}
  OBVIOUS
<1>6. at \in SUBSET Nat /\ at # {}
  BY <1>4, <1>5
<1>7. Min(at) \in at
  BY <1>6, MinIsLeast
<1>8. Min(at) # 0
  BY <1>5, <1>7
<1>9. Position(events, c.start) # 0
  BY <1>5, <1>6, <1>8 DEF Position
<1> QED BY <1>9 DEF ActiveContextOnBranch

LEMMA EventsOfAncestor ==
  ASSUME NEW tree, WellFormed(tree), NEW d \in 0..Len(tree), NEW i, IsAncestorEntry(tree, i, d)
  PROVE ToSet(EventsOf(tree, i)) \subseteq ToSet(Events(tree, d))
<1> SUFFICES ASSUME NEW x \in ToSet(EventsOf(tree, i)) PROVE x \in ToSet(Events(tree, d))
  OBVIOUS
<1>1. i \in 1..Len(tree)
  <2>1. i \in 1..d /\ Len(tree) \in Nat
    BY AncestorBound DEF WellFormed
  <2> QED BY <2>1
<1>2. PICK s, t : s = EventsOf(tree, i) /\ t = Events(tree, d)
  OBVIOUS
<1>3. s \in Seq(Recorded(tree)) /\ Len(s) = tree[i].parts /\ t \in Seq(Recorded(tree))
  BY <1>1, <1>2, EventsOfEntry, EventsStep
<1>4. DOMAIN s = 1..tree[i].parts /\ DOMAIN t = 1..Len(t)
  BY <1>3, LenProperties
<1>5. PICK p \in 1..tree[i].parts : x = s[p]
  BY <1>2, <1>4 DEF ToSet
<1>6. PICK r : r = Len(Events(tree, tree[i].parent)) + p
  OBVIOUS
<1>7. r \in 1..Len(Events(tree, d)) /\ Events(tree, d)[r] = EventsOf(tree, i)[p]
  BY SMTT(20), <1>6, EventOfPlace
<1>8. r \in DOMAIN t /\ t[r] = x
  BY <1>2, <1>4, <1>5, <1>7
<1> QED BY <1>2, <1>8 DEF ToSet

LEMMA TakeoverShows ==
  ASSUME NEW tree, WellFormed(tree), NEW d \in 0..Len(tree), NEW events, events = Events(tree, d),
         NEW c, Anchored(tree, c), Position(events, c.start) # 0,
         NEW i \in ToSet(MessagesFromEvents(events)),
         i \notin ToSet(RenderActiveContextMessages(MaterializeActiveContext(c, events)))
  PROVE IsAncestorEntry(tree, i, EndOf(c.checkpoint))
<1>1. PICK T, f, at : T = Recorded(tree) /\ f = c.start[1] /\ at = Position(events, c.start)
  OBVIOUS
<1>2. events \in Seq(T) /\ Len(events) \in Nat /\ Len(tree) \in Nat
  BY <1>1, EventsStep, LenProperties DEF WellFormed
<1>3. f \in 1..Len(tree) /\ c.start = <<f, 1>> /\ tree[f].parent = EndOf(c.checkpoint)
      /\ EndOf(c.checkpoint) \in 1..Len(tree)
  BY <1>1 DEF Anchored, Bounded
<1>4. /\ at \in 1..Len(events) /\ IsAncestorEntry(tree, f, d)
      /\ at = Len(Events(tree, EndOf(c.checkpoint))) + 1
  <2>1. at = Position(events, <<f, 1>>) /\ at # 0
    BY <1>1, <1>3
  <2>2. /\ at \in 0..Len(events) /\ IsAncestorEntry(tree, f, d)
        /\ at = Len(Events(tree, tree[f].parent)) + 1
    BY <2>1, PositionInBranch
  <2> QED BY <1>2, <1>3, <2>1, <2>2
<1>5. PICK r \in 1..Len(events) : /\ events[r].part = 1 /\ GivesMessage(events[r].kind)
                                  /\ events[r].entry = i
  <2>1. i \in ToSet(MessagesFromEvents(events))
    OBVIOUS
  <2> QED BY ONLY <1>2, <2>1, MessagesAre
<1>6. PICK tail, anchor : tail = SubSeq(events, at, Len(events)) /\ anchor = AnchorEvents(events, c.start)
  OBVIOUS
<1>7. tail \in Seq(T) /\ Len(tail) = Len(events) - at + 1
      /\ \A k \in 1..(Len(events) - at + 1) : tail[k] = events[at + k - 1]
  <2>1. at \in Int /\ Len(events) \in Int /\ at <= Len(events)
    BY <1>2, <1>4
  <2>2. \A k \in at..Len(events) : events[k] \in T
    BY <1>2, <1>4, ElementOfSeq
  <2> QED BY <1>6, <2>1, <2>2, SubSeqProperties
<1>8. anchor \in Seq(T)
  <2>1. PICK before : before = SubSeq(events, 1, at - 1)
    OBVIOUS
  <2>2. at - 1 \in Int /\ 1 \in Int
    BY <1>4
  <2>3. \A k \in 1..(at - 1) : events[k] \in T
    BY <1>2, <1>4, ElementOfSeq
  <2>4. before \in Seq(T)
    BY <2>1, <2>2, <2>3, SubSeqProperties
  <2>5. \A S : Filter(before, S) \in Seq(T)
    BY <2>4, FilterKeeps
  <2>6. <<>> \in Seq(T)
    OBVIOUS
  <2>7. anchor = <<>> \/ \E S : anchor = Filter(before, S)
    BY <1>1, <1>6, <2>1 DEF AnchorEvents
  <2> QED BY <2>5, <2>6, <2>7
<1>9. PICK x, y, U : /\ x = MessagesFromEvents(anchor) /\ y = MessagesFromEvents(tail)
                     /\ U = {v.entry : v \in T}
  OBVIOUS
<1>10. x \in Seq(U) /\ y \in Seq(U)
  BY <1>7, <1>8, <1>9, MessagesAre
<1>11. RenderActiveContextMessages(MaterializeActiveContext(c, events)) = x \o y
  BY <1>1, <1>6, <1>9 DEF RenderActiveContextMessages, MaterializeActiveContext
<1>12. i \notin ToSet(y)
  <2> SUFFICES ASSUME i \in ToSet(y) PROVE FALSE
    OBVIOUS
  <2>1. PICK k \in DOMAIN y : y[k] = i
    BY DEF ToSet
  <2>2. PICK n, z : n = Len(x) + k /\ z = x \o y
    OBVIOUS
  <2>3. k \in 1..Len(y) /\ Len(x) \in Nat /\ Len(y) \in Nat
    BY <1>10, LenProperties
  <2>4. n \in 1..(Len(x) + Len(y)) /\ ~ (n <= Len(x)) /\ n - Len(x) = k
    BY <2>2, <2>3
  <2>5. z \in Seq(U) /\ Len(z) = Len(x) + Len(y) /\ z[n] = y[k]
    BY <1>10, <2>2, <2>4, ConcatProperties
  <2>6. n \in DOMAIN z
    BY <2>4, <2>5, LenProperties
  <2>7. i \in ToSet(z)
    BY <2>1, <2>5, <2>6 DEF ToSet
  <2> QED BY <1>11, <2>2, <2>7
<1>13. r < at
  <2> SUFFICES ASSUME ~ (r < at) PROVE FALSE
    OBVIOUS
  <2>1. PICK k : k = r - at + 1
    OBVIOUS
  <2>2. k \in 1..(Len(events) - at + 1) /\ at + k - 1 = r
    BY <1>2, <1>4, <2>1
  <2>3. k \in 1..Len(tail) /\ tail[k] = events[r]
    BY <1>7, <2>2
  <2>4. \E n \in 1..Len(tail) : /\ tail[n].part = 1 /\ GivesMessage(tail[n].kind)
                                /\ tail[n].entry = i
    BY <1>5, <2>3
  <2>5. tail \in Seq(T)
    BY <1>7
  <2>6. i \in ToSet(MessagesFromEvents(tail))
    BY ONLY <2>4, <2>5, MessagesAre
  <2> QED BY <1>9, <1>12, <2>6
<1>14. PICK e, s : e = EndOf(c.checkpoint) /\ s = Events(tree, e)
  OBVIOUS
<1>15. e \in 0..Len(tree) /\ s \in Seq(T) /\ Len(s) \in Nat
  BY <1>1, <1>2, <1>3, <1>14, EventsStep, LenProperties
<1>16. IsAncestorEntry(tree, e, d)
  <2>1. IsAncestorEntry(tree, e, e)
    BY <1>3, <1>14, AncestorStep
  <2>2. IsAncestorEntry(tree, e, f)
    BY <1>3, <1>14, <2>1, AncestorStep
  <2> QED BY <1>4, <2>2, AncestorTransitive
<1>17. Extends(events, s)
  BY <1>14, <1>16, EventsGrow
<1>18. r \in 1..Len(s) /\ s[r] = events[r]
  <2>1. r \in 1..Len(s)
    BY <1>4, <1>13, <1>14, <1>15
  <2> QED BY <1>17, <2>1 DEF Extends
<1>19. WellFormed(tree) /\ r \in 1..Len(Events(tree, e))
  BY <1>14, <1>18
<1>20. \E g \in 1..Len(tree) : \E p \in 1..tree[g].parts :
          /\ IsAncestorEntry(tree, g, e)
          /\ Events(tree, e)[r] = EventsOf(tree, g)[p]
          /\ r = Len(Events(tree, tree[g].parent)) + p
  BY ONLY ZenonT(30), <1>15, <1>19, PlaceOfEvent, HistoryAssumption
<1>21. PICK g \in 1..Len(tree) : \E p \in 1..tree[g].parts :
          /\ IsAncestorEntry(tree, g, e)
          /\ Events(tree, e)[r] = EventsOf(tree, g)[p]
  BY <1>20
<1>22. s[r].entry = g
  BY <1>14, <1>21, EventsOfEntry
<1> QED BY <1>5, <1>14, <1>18, <1>21, <1>22

LEMMA CompactionKeeps ==
  ASSUME NEW tree, WellFormed(tree), NEW d \in 0..Len(tree), NEW events, events = Events(tree, d),
         NEW c, Anchored(tree, c), Position(events, c.start) # 0,
         NEW branch, branch = Branch(tree, d),
         NEW i \in ToSet(MessagesFromEvents(events)),
         i \notin {branch[q] : q \in {u \in 1..Len(branch) : \E v \in 1..u : branch[v] = c.start[1]}}
  PROVE IsAncestorEntry(tree, i, EndOf(c.checkpoint))
<1>1. PICK T, f : T = Recorded(tree) /\ f = c.start[1]
  OBVIOUS
<1>2. events \in Seq(T) /\ Len(events) \in Nat /\ Len(tree) \in Nat
  BY <1>1, EventsStep, LenProperties DEF WellFormed
<1>3. f \in 1..Len(tree) /\ c.start = <<f, 1>> /\ tree[f].parent = EndOf(c.checkpoint)
  BY <1>1 DEF Anchored, Bounded
<1>4. IsAncestorEntry(tree, f, d)
  BY <1>3, PositionInBranch
<1>5. PICK r \in 1..Len(events) : events[r].entry = i
  <2>1. i \in ToSet(MessagesFromEvents(events))
    OBVIOUS
  <2> QED BY ONLY <1>2, <2>1, MessagesAre
<1>6. PICK g \in 1..Len(tree) : \E p \in 1..tree[g].parts :
          /\ IsAncestorEntry(tree, g, d)
          /\ Events(tree, d)[r] = EventsOf(tree, g)[p]
          /\ r = Len(Events(tree, tree[g].parent)) + p
  <2>1. WellFormed(tree) /\ d \in 0..Len(tree) /\ r \in 1..Len(Events(tree, d))
    BY <1>5
  <2> QED BY ONLY ZenonT(30), <2>1, PlaceOfEvent, HistoryAssumption
<1>7. g = i /\ IsAncestorEntry(tree, i, d)
  BY <1>5, <1>6, EventsOfEntry
<1>8. branch \in Seq(Nat) /\ Len(branch) \in Nat
  BY BranchIsPath, LenProperties
<1>9. PICK k \in 1..Len(branch) : branch[k] = i
  BY <1>7 DEF IsAncestorEntry, Contains
<1>10. PICK m \in 1..Len(branch) : branch[m] = f
  BY <1>4 DEF IsAncestorEntry, Contains
<1>11. k < m
  <2> SUFFICES ASSUME ~ (k < m) PROVE FALSE
    OBVIOUS
  <2>1. m \in 1..k
    BY <1>8
  <2> QED BY <1>1, <1>9, <1>10, <2>1
<1>12. m \in 0..Len(Branch(tree, d)) /\ m # 0 /\ WellFormed(tree) /\ d \in 0..Len(tree)
  BY <1>8
<1>13. PICK h \in 0..Len(tree) :
         /\ SubSeq(Branch(tree, d), 1, m) = Branch(tree, h)
         /\ h = IF m = 0 THEN 0 ELSE Branch(tree, d)[m]
  BY ONLY <1>12, BranchPrefix, HistoryAssumption
<1>14. SubSeq(branch, 1, m) = Branch(tree, f)
  BY <1>10, <1>12, <1>13
<1>15. PICK b : b = SubSeq(branch, 1, m)
  OBVIOUS
<1>16. Len(b) = m /\ b[k] = branch[k] /\ k \in 1..Len(b)
  <2>1. 1 \in Int /\ m \in Int /\ 1 <= m /\ \A n \in 1..m : branch[n] \in Nat
    <3>1. m \in 1..Len(branch) /\ Len(branch) \in Nat
      BY <1>8
    <3>2. ASSUME NEW n \in 1..m PROVE branch[n] \in Nat
      <4>1. n \in 1..Len(branch)
        BY <3>1
      <4> QED BY <1>8, <4>1, ElementOfSeq
    <3> QED BY <3>1, <3>2
  <2>2. Len(b) = m - 1 + 1 /\ \A n \in 1..(m - 1 + 1) : b[n] = branch[1 + n - 1]
    BY <1>15, <2>1, SubSeqProperties
  <2>3. k \in 1..(m - 1 + 1) /\ 1 + k - 1 = k
    BY <1>11
  <2> QED BY <2>2, <2>3
<1>17. IsAncestorEntry(tree, i, f)
  BY <1>9, <1>14, <1>15, <1>16 DEF IsAncestorEntry, Contains
<1>18. i # f
  <2> SUFFICES ASSUME i = f PROVE FALSE
    OBVIOUS
  <2>1. k \in {u \in 1..Len(branch) : \E v \in 1..u : branch[v] = c.start[1]}
    <3>1. k \in 1..k
      OBVIOUS
    <3> QED BY <1>1, <1>9, <3>1
  <2> QED BY <1>9, <2>1
<1>19. IsAncestorEntry(tree, i, tree[f].parent)
  BY <1>3, <1>17, <1>18, AncestorStep
<1> QED BY <1>3, <1>19

-----------------------------------------------------------------------------
(* What sessions need of archives, checkpoints and acknowledgements *)

\* Archives that cover a branch, but for what is lost.
Covering(tree, archives, lost) ==
  \A k \in 1..Len(archives) :
    ToSet(Events(tree, EndOf(archives[k]))) \subseteq
      ToSet(Events(tree, EndBefore(archives, k))) \union ToSet(archives[k].content) \union lost

LEMMA ArchivesAreSequence ==
  ASSUME NEW tree, WellFormed(tree), NEW d \in 0..Len(tree)
  PROVE \E T : DescribeArchives(Events(tree, d)) \in Seq(T)
<1>1. PICK events, ends : events = Events(tree, d) /\ ends = PlanArchives(events)
  OBVIOUS
<1>2. Len(events) \in Nat
  BY <1>1, EventsStep, LenProperties
<1>3. \A U : (\A k \in 1..Len(ends) : Manifest(events, ends, k) \in U)
              => DescribeArchives(events) \in Seq(U)
  BY <1>1, <1>2, DescribeIs
<1>4. PICK U : U = {Manifest(events, ends, k) : k \in 1..Len(ends)}
  OBVIOUS
<1>5. \A k \in 1..Len(ends) : Manifest(events, ends, k) \in U
  BY <1>4
<1>6. DescribeArchives(events) \in Seq(U)
  BY ONLY <1>3, <1>5
<1> QED BY <1>1, <1>6

\* Leaving archives out of a branch loses their events and no others.
LEMMA FilteredCover ==
  ASSUME NEW tree, WellFormed(tree), NEW d \in 0..Len(tree), NEW archives,
         archives = DescribeArchives(Events(tree, d)), NEW kept, NEW lost,
         \A k \in 1..Len(archives) :
           archives[k] \notin kept => ToSet(archives[k].content) \subseteq lost
  PROVE Covering(tree, Filter(archives, kept), lost)
<1>1. PICK T : archives \in Seq(T)
  BY ArchivesAreSequence
<1>2. Len(archives) \in Nat /\ \A k \in 1..Len(archives) : archives[k] \in T
  BY <1>1, LenProperties, ElementOfSeq
<1>3. PICK g : Filters(archives, kept, g) /\ Filter(archives, kept) = g[Len(archives)]
  BY <1>2, FilterIs
<1> DEFINE Up(i) == ToSet(Events(tree, i))
           Good(s, n) == /\ s \in Seq(T)
                         /\ Covering(tree, s, lost)
                         /\ Up(EndBefore(archives, n + 1)) \subseteq
                              Up(EndBefore(s, Len(s) + 1)) \union lost
           S == {n \in 0..Len(archives) : Good(g[n], n)}
<1>4. 0 \in S
  <2>1. PICK e : e = g[0]
    OBVIOUS
  <2>2. e = <<>>
    BY <1>2, <1>3, <2>1 DEF Filters
  <2>3. e \in Seq(T) /\ Len(e) = 0
    BY <2>2
  <2>4. Covering(tree, e, lost)
    BY <2>3 DEF Covering
  <2>5. EndBefore(archives, 0 + 1) = 0 /\ EndBefore(e, Len(e) + 1) = 0
    BY <2>3 DEF EndBefore
  <2> QED BY <1>2, <2>1, <2>3, <2>4, <2>5
<1>5. ASSUME NEW n \in 1..Len(archives), 0..(n - 1) \subseteq S PROVE n \in S
  <2>1. PICK m : m = n - 1
    OBVIOUS
  <2>2. m \in 0..Len(archives) /\ m \in 0..(n - 1) /\ m + 1 = n /\ n \in 0..Len(archives) /\ n # 0
    BY <1>2, <2>1
  <2>3. PICK s, t, a : s = g[m] /\ t = g[n] /\ a = archives[n]
    OBVIOUS
  <2>4. Good(s, m)
    BY <1>5, <2>2, <2>3
  <2>5. t = IF a \in kept THEN Append(s, a) ELSE s
    BY <1>3, <2>1, <2>2, <2>3 DEF Filters
  <2>6. Up(EndOf(a)) \subseteq Up(EndBefore(archives, n)) \union ToSet(a.content)
    <3>1. \A x \in ToSet(Events(tree, EndOf(archives[n]))) :
            \/ x \in ToSet(Events(tree, EndBefore(archives, n)))
            \/ x \in ToSet(archives[n].content)
      BY ArchiveOfBranch
    <3> QED BY <2>3, <3>1
  <2>7. EndBefore(archives, n + 1) = EndOf(a)
    <3>1. n + 1 # 1 /\ n + 1 - 1 = n
      BY <2>2
    <3> QED BY <2>3, <3>1 DEF EndBefore
  <2>8. Up(EndBefore(archives, n)) \subseteq Up(EndBefore(s, Len(s) + 1)) \union lost
    BY <2>2, <2>4
  <2> HIDE DEF Up
  <2>9. CASE a \notin kept
    <3>1. ToSet(a.content) \subseteq lost
      BY <2>3, <2>9
    <3>2. Good(s, n)
      BY <2>4, <2>6, <2>7, <2>8, <3>1
    <3> QED BY <2>2, <2>3, <2>5, <2>9, <3>2
  <2>10. CASE a \in kept
    <3>1. PICK l : l = Len(s) + 1
      OBVIOUS
    <3>2. /\ s \in Seq(T) /\ a \in T /\ t = Append(s, a) /\ Len(s) \in Nat
      BY <1>2, <2>3, <2>4, <2>5, <2>10, LenProperties
    <3>3. /\ t \in Seq(T) /\ Len(t) = l /\ t[l] = a /\ l \in Nat \ {0}
          /\ \A k \in 1..Len(s) : t[k] = s[k]
      BY <3>1, <3>2, AppendProperties
    <3>4. \A k \in 1..l : EndBefore(t, k) = EndBefore(s, k)
      <4> TAKE k \in 1..l
      <4>1. k = 1 \/ k - 1 \in 1..Len(s)
        BY <3>1, <3>2
      <4> QED BY <3>3, <4>1 DEF EndBefore
    <3>5. ASSUME NEW k \in 1..Len(t)
          PROVE Up(EndOf(t[k])) \subseteq Up(EndBefore(t, k)) \union ToSet(t[k].content) \union lost
      <4>1. CASE k = l
        <5>1. EndBefore(t, k) = EndBefore(s, l)
          BY <3>3, <3>4, <4>1
        <5>2. Up(EndBefore(archives, n)) \subseteq Up(EndBefore(t, k)) \union lost
          BY <2>8, <3>1, <5>1
        <5>3. t[k] = a
          BY <3>3, <4>1
        <5> QED BY <2>6, <5>2, <5>3
      <4>2. CASE k # l
        <5>1. k \in 1..Len(s) /\ k \in 1..l
          BY <3>1, <3>2, <3>3, <4>2
        <5>2. Up(EndOf(s[k])) \subseteq Up(EndBefore(s, k)) \union ToSet(s[k].content) \union lost
          BY <2>4, <5>1 DEF Covering, Up
        <5> QED BY <3>3, <3>4, <5>1, <5>2
      <4> QED BY <4>1, <4>2
    <3>6. Covering(tree, t, lost)
      BY <3>5 DEF Covering, Up
    <3>7. EndBefore(t, Len(t) + 1) = EndOf(a)
      <4>1. Len(t) + 1 # 1 /\ Len(t) + 1 - 1 = l
        BY <3>3
      <4> QED BY <3>3, <4>1 DEF EndBefore
    <3>8. Good(t, n)
      BY <2>7, <3>3, <3>6, <3>7
    <3> QED BY <2>2, <2>3, <3>8
  <2> QED BY <2>9, <2>10
<1>6. 0..Len(archives) \subseteq S
  BY ONLY <1>2, <1>4, <1>5, Upwards
<1>7. PICK n : n = Len(archives)
  OBVIOUS
<1>8. n \in S
  BY <1>2, <1>6, <1>7
<1>9. Covering(tree, g[n], lost)
  BY <1>8
<1> QED BY <1>3, <1>7, <1>9

LEMMA FilterOf ==
  ASSUME NEW tree, WellFormed(tree), NEW d \in 0..Len(tree), NEW archives,
         archives = DescribeArchives(Events(tree, d)), NEW kept
  PROVE /\ \E T : archives \in Seq(T) /\ Filter(archives, kept) \in Seq(T)
        /\ ToSet(Filter(archives, kept)) \subseteq ToSet(archives)
        /\ \A a : a \in ToSet(archives) <=> Contains(archives, a)
<1>1. PICK T : archives \in Seq(T)
  BY ArchivesAreSequence
<1>2. PICK f : f = Filter(archives, kept)
  OBVIOUS
<1>3. f \in Seq(T) /\ \A x : (\E k \in 1..Len(f) : f[k] = x)
                               <=> x \in kept /\ \E k \in 1..Len(archives) : archives[k] = x
  BY ONLY <1>1, <1>2, FilterKeeps
<1>4. DOMAIN f = 1..Len(f) /\ DOMAIN archives = 1..Len(archives)
  BY <1>1, <1>3, LenProperties
<1>5. \A x : x \in ToSet(f) <=> \E k \in 1..Len(f) : f[k] = x
  BY <1>4 DEF ToSet
<1>6. \A x : x \in ToSet(archives) <=> \E k \in 1..Len(archives) : archives[k] = x
  BY <1>4 DEF ToSet
<1>7. \A x : Contains(archives, x) <=> \E k \in 1..Len(archives) : archives[k] = x
  BY DEF Contains
<1> QED BY <1>1, <1>2, <1>3, <1>5, <1>6, <1>7

\* Above every entry lies the end of a branch.
LEMMA LeafAbove ==
  ASSUME NEW tree, WellFormed(tree), NEW i \in 1..Len(tree)
  PROVE \E l \in Leaves(tree) : l \in 1..Len(tree) /\ IsAncestorEntry(tree, i, l)
<1>0. Len(tree) \in Nat
  BY DEF WellFormed
<1>1. PICK above : above = {j \in 1..Len(tree) : IsAncestorEntry(tree, i, j)}
  OBVIOUS
<1>2. i \in above
  BY <1>1, AncestorStep
<1>3. above \in SUBSET Nat /\ \A j \in above : j <= Len(tree)
  BY <1>0, <1>1
<1>4. PICK l \in above : \A j \in above : j <= l
  <2>1. PICK gaps : gaps = {Len(tree) - j : j \in above}
    OBVIOUS
  <2>2. gaps \in SUBSET Nat /\ gaps # {}
    BY <1>0, <1>2, <1>3, <2>1
  <2>3. PICK q \in gaps : \A j \in gaps : q <= j
    BY <2>2, LeastNat
  <2>4. PICK l \in above : q = Len(tree) - l
    BY <2>1, <2>3
  <2>5. \A j \in above : Len(tree) - l <= Len(tree) - j
    BY <2>1, <2>3, <2>4
  <2>6. \A j \in above : j <= l
    BY <1>0, <1>3, <2>4, <2>5
  <2> QED BY <2>4, <2>6
<1>5. ASSUME NEW j \in 1..Len(tree), tree[j].parent = l PROVE FALSE
  <2>1. j \in above
    BY <1>1, <1>5, AncestorStep
  <2>2. l \in 0..(j - 1)
    BY <1>5 DEF WellFormed
  <2> QED BY <1>0, <1>4, <2>1, <2>2
<1>6. l \in Leaves(tree)
  BY <1>1, <1>5 DEF Leaves
<1> QED BY <1>1, <1>6

\* No archive is due before the first entry.
LEMMA NoneAtRoot ==
  ASSUME NEW tree, WellFormed(tree), NEW a
  PROVE ~ Contains(DescribeArchives(Events(tree, 0)), a)
<1>1. PICK archives : archives = DescribeArchives(Events(tree, 0))
  OBVIOUS
<1>2. SUFFICES ASSUME NEW k \in 1..Len(archives) PROVE FALSE
  BY <1>1 DEF Contains
<1>3. 0 \in 0..Len(tree)
  BY DEF WellFormed
<1>4. IsAncestorEntry(tree, EndOf(archives[k]), 0)
  BY <1>1, <1>3, ArchiveOfBranch
<1> QED BY <1>4, AncestorStep

LEMMA OneAtMost ==
  ASSUME NEW S, AtMostOne(S)
  PROVE Cardinality(S) <= 1
<1>1. CASE S = {}
  BY <1>1, FS_EmptySet
<1>2. CASE S # {}
  <2>1. PICK x : S = {x}
    BY <1>2 DEF AtMostOne
  <2>2. Cardinality({x}) = 1
    BY FS_Singleton
  <2> QED BY <2>1, <2>2
<1> QED BY <1>1, <1>2

\* Acknowledging an entry, the earlier ones being acknowledged.
LEMMA AdvanceKeeps ==
  ASSUME NEW tree, WellFormed(tree), NEW ack \in SUBSET (1..Len(tree)), NEW e \in 1..Len(tree),
         \A i, j \in ack : i # j => ~ IsAncestorEntry(tree, i, j),
         NEW new, new = AdvanceSyncAck(tree, ack, e)
  PROVE /\ new \in SUBSET (1..Len(tree))
        /\ \A i, j \in new : i # j => ~ IsAncestorEntry(tree, i, j)
        /\ \A i : IsEntryAcknowledged(tree, new, i) =>
                    IsEntryAcknowledged(tree, ack, i) \/ IsAncestorEntry(tree, i, e)
<1>2. CASE IsEntryAcknowledged(tree, ack, e)
  BY <1>2 DEF AdvanceSyncAck
<1>3. CASE ~ IsEntryAcknowledged(tree, ack, e)
  <2>1. new = {l \in ack : ~ IsAncestorEntry(tree, l, e)} \union {e}
    BY <1>3 DEF AdvanceSyncAck
  <2>2. \A l \in ack : ~ IsAncestorEntry(tree, e, l)
    BY <1>3 DEF IsEntryAcknowledged
  <2>3. new \in SUBSET (1..Len(tree))
    BY <2>1
  <2>4. \A i, j \in new : i # j => ~ IsAncestorEntry(tree, i, j)
    BY <2>1, <2>2
  <2>5. ASSUME NEW i, IsEntryAcknowledged(tree, new, i)
        PROVE IsEntryAcknowledged(tree, ack, i) \/ IsAncestorEntry(tree, i, e)
    BY <2>1, <2>5 DEF IsEntryAcknowledged
  <2> QED BY <2>3, <2>4, <2>5
<1> QED BY <1>2, <1>3


=============================================================================

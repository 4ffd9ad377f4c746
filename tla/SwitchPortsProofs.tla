-------------------------- MODULE SwitchPortsProofs --------------------------
(***************************************************************************)
(* Proofs about SwitchPorts, for any ports, VLANs and scenarios: every     *)
(* netmiko driver, with and without the overlay it supports, trunks, the   *)
(* default VLAN, ports that are shut down, and calls that are cut short.   *)
(*                                                                         *)
(* A call sends a list of commands, and what a list does is a fold over    *)
(* it: the interface goes through one state per command (Trace).  The 23   *)
(* drivers are looked at once, template by template (Good), and the nine   *)
(* overlays too (GoodVni); from there on only what Good says of a driver   *)
(* is used.  A prefix of a call's list leaves the interface near to what   *)
(* it was (Near, Widened, Narrowed), and a whole list has the effect its   *)
(* call is for (Ends, UnplugEffect, PlugAccess, PlugTrunk, AddEffect,      *)
(* DelEffect).  SPInv says what holds between the calls: of each port its  *)
(* Neutron side and its interface (Local), of each VLAN its overlay.       *)
(***************************************************************************)
EXTENDS SwitchPorts, FiniteSetTheorems, FunctionTheorems, SequenceTheorems,
        WellFoundedInduction, TLAPS

-----------------------------------------------------------------------------
(* What a list of commands does.                                           *)

\* The order of the numbers, as a relation.
Smaller == {x \in Nat \X Nat : x[1] < x[2]}

\* A set with 0 and with the successor of each of its numbers has them all.
LEMMA Induction ==
  ASSUME NEW S, 0 \in S, \A n \in Nat : n \in S => n + 1 \in S
  PROVE  Nat \subseteq S
<1> SUFFICES ASSUME Nat \ S # {} PROVE FALSE
  OBVIOUS
<1>1. IsWellFoundedOn(Smaller, Nat)
  BY NatLessThanWellFounded DEF OpToRel, Smaller
<1>2. PICK n \in Nat \ S : \A m \in Nat \ S : <<m, n>> \notin Smaller
  BY <1>1, WFMin
<1>3. n # 0 /\ n - 1 \in Nat /\ n - 1 < n
  OBVIOUS
<1>4. <<n - 1, n>> \in Smaller
  BY <1>3 DEF Smaller
<1>5. n - 1 \in S
  BY <1>2, <1>3, <1>4
<1>6. QED
  BY <1>3, <1>5

\* The largest of some numbers up to n+1, when n+1 is one of them.
LEMMA MaxUpTo ==
  ASSUME NEW n \in Nat, NEW s \in SUBSET (1..(n+1)), n + 1 \in s
  PROVE Max(s) = n + 1
<1>1. \A y \in s : n + 1 >= y
  OBVIOUS
<1>2. \A x \in s : (\A y \in s : x >= y) => x = n + 1
  OBVIOUS
<1>3. QED
  BY <1>1, <1>2 DEF Max

\* The function FoldLeft defines along the first n elements of q.
Folded(d, q, f, n) ==
  f = [s \in SUBSET (1..n) |-> IF s = {} THEN d
         ELSE Does(f[s \ {Max(s)}], q[Max(s)])]

\* There is such a function for every n.
LEMMA Exists ==
  ASSUME NEW d, NEW q, NEW n \in Nat
  PROVE  \E f : Folded(d, q, f, n)
<1> DEFINE S == {k \in Nat : \E f : Folded(d, q, f, k)}
<1>1. 0 \in S
  <2>1. Folded(d, q, [s \in SUBSET (1..0) |-> d], 0)
    BY DEF Folded
  <2>2. QED BY <2>1
<1>2. ASSUME NEW k \in Nat, k \in S PROVE k+1 \in S
  <2>1. PICK f : Folded(d, q, f, k)
    BY <1>2
  <2> DEFINE g == [s \in SUBSET (1..(k+1)) |->
        IF k + 1 \in s THEN Does(f[s \ {k+1}], q[k+1]) ELSE f[s]]
  <2>2. ASSUME NEW s \in SUBSET (1..(k+1))
        PROVE  g[s] = IF s = {} THEN d
                      ELSE Does(g[s \ {Max(s)}], q[Max(s)])
    <3>1. CASE k+1 \in s
      <4>1. Max(s) = k+1 BY <3>1, MaxUpTo
      <4>2. s \ {k+1} \in SUBSET (1..(k+1)) /\ k+1 \notin s \ {k+1} OBVIOUS
      <4>3. g[s \ {k+1}] = f[s \ {k+1}] BY <4>2
      <4> QED BY <4>1, <4>3, <3>1
    <3>2. CASE k+1 \notin s
      <4>0. \A x \in s : x \in 1..k
        BY <3>2
      <4>1. s \in SUBSET (1..k) /\ s \ {Max(s)} \in SUBSET (1..(k+1))
              /\ k+1 \notin s \ {Max(s)}
        BY <3>2, <4>0
      <4>2. g[s] = f[s] BY <3>2
      <4>3. g[s \ {Max(s)}] = f[s \ {Max(s)}] BY <4>1
      <4> QED BY <4>1, <4>2, <4>3, <2>1 DEF Folded
    <3>3. QED BY <3>1, <3>2
  <2>3. Folded(d, q, g, k+1)
    <3> HIDE DEF g
    <3>1. g = [s \in SUBSET (1..(k+1)) |-> g[s]]
      BY DEF g
    <3> QED BY <2>2, <3>1 DEF Folded
  <2>4. QED BY <2>3
<1>3. Nat \subseteq S
  <2> HIDE DEF S
  <2> QED BY <1>1, <1>2, Induction
<1>4. QED BY <1>3

\* A list takes an interface through one state per command: After applies
\* Does to each in its turn.
LEMMA Trace ==
  ASSUME NEW A, NEW q \in Seq(A), NEW d
  PROVE  \E t : /\ t[0] = d
                /\ \A i \in 1..Len(q) : t[i] = Does(t[i-1], q[i])
                /\ After(d, q) = t[Len(q)]
<1> DEFINE n == Len(q)
<1>0. n \in Nat /\ DOMAIN q = 1..n
  OBVIOUS
<1> HIDE DEF n
<1> USE <1>0
<1> DEFINE f == CHOOSE f : Folded(d, q, f, n)
<1>1. Folded(d, q, f, n)
  BY Exists
<1>2. After(d, q) = f[1..n]
  BY <1>1 DEF After, FoldLeft, MapThenFoldSet, Folded
<1> HIDE DEF f
<1> DEFINE t == [i \in 0..n |-> f[1..i]]
<1>3. t[0] = d
  BY <1>1 DEF Folded
<1>4. ASSUME NEW i \in 1..n PROVE t[i] = Does(t[i-1], q[i])
  <2>1. 1..i \in SUBSET (1..n) /\ i \in 1..i
    OBVIOUS
  <2>2. (1..i) \ {i} = 1..(i-1)
    OBVIOUS
  <2>3. Max(1..i) = i
    <3>1. i - 1 \in Nat /\ (i - 1) + 1 = i
      OBVIOUS
    <3>2. QED  BY <2>1, <3>1, MaxUpTo
  <2>4. f[1..i] = Does(f[1..(i-1)], q[i])
    BY <2>1, <2>2, <2>3, <1>1 DEF Folded
  <2>5. QED BY <2>4
<1>5. After(d, q) = t[n]
  BY <1>2
<1>6. QED BY <1>3, <1>4, <1>5 DEF n

\* SetToSeq lists every element of a finite set.
LEMMA AllInSeq ==
  ASSUME NEW S, IsFiniteSet(S)
  PROVE  /\ Cardinality(S) \in Nat
         /\ SetToSeq(S) \in [1..Cardinality(S) -> S]
         /\ \A x \in S : \E i \in 1..Cardinality(S) : SetToSeq(S)[i] = x
<1> DEFINE n == Cardinality(S)
           f == SetToSeq(S)
<1>1. n \in Nat /\ Bijection(1..n, S) # {}
  BY FS_CardinalityType DEF ExistsBijection
<1>2. PICK b \in [1..n -> S] : IsInjective(b)
  BY <1>1 DEF Bijection, Injection
<1>3. f \in [1..n -> S] /\ IsInjective(f)
  BY <1>2 DEF SetToSeq
<1>4. f \in Injection(1..n, S)
  BY <1>3 DEF Injection
<1>5. Cardinality(1..n) = n
  BY <1>1, FS_Interval
<1>6. f \in Surjection(1..n, S)
  <2> HIDE DEF f, n
  <2>1. Cardinality(1..n) = Cardinality(S)
    BY <1>5 DEF n
  <2>2. QED
    BY <1>4, <2>1, FS_Injection
<1>7. QED
  <2> HIDE DEF f, n
  <2>1. \A x \in S : \E i \in 1..n : f[i] = x
    BY <1>6 DEF Surjection
  <2>2. n \in Nat /\ f \in [1..n -> S]
    BY <1>1, <1>3
  <2>3. QED
    BY <2>1, <2>2 DEF n, f

\* Two sequences that start alike and go on alike end alike.
LEMMA Unique ==
  ASSUME NEW n \in Nat, NEW t, NEW u, t[0] = u[0],
         \A i \in 1..n : t[i-1] = u[i-1] => t[i] = u[i]
  PROVE  t[n] = u[n]
<1> DEFINE S == {i \in Nat : i <= n => t[i] = u[i]}
<1>1. 0 \in S
  OBVIOUS
<1>2. ASSUME NEW i \in Nat, i \in S PROVE i + 1 \in S
  <2>1. CASE i + 1 <= n
    <3>1. i + 1 \in 1..n /\ (i + 1) - 1 = i /\ t[i] = u[i]
      BY <2>1, <1>2
    <3>2. QED  BY <3>1
  <2>2. QED  BY <2>1
<1>3. Nat \subseteq S
  <2> HIDE DEF S
  <2>1. QED  BY <1>1, <1>2, Induction
<1>4. QED  BY <1>3

\* A list sent in two pieces.
LEMMA AfterConcat ==
  ASSUME NEW A, NEW B, NEW p \in Seq(A), NEW q \in Seq(B), NEW d
  PROVE  After(d, p \o q) = After(After(d, p), q)
<1>1. PICK t : /\ t[0] = d
               /\ \A i \in 1..Len(p) : t[i] = Does(t[i-1], p[i])
               /\ After(d, p) = t[Len(p)]
  BY Trace
<1>2. PICK u : /\ u[0] = After(d, p)
               /\ \A i \in 1..Len(q) : u[i] = Does(u[i-1], q[i])
               /\ After(After(d, p), q) = u[Len(q)]
  BY Trace
<1> DEFINE n == Len(p) + Len(q)
           v == [i \in 0..n |-> IF i <= Len(p) THEN t[i] ELSE u[i - Len(p)]]
<1>3. PICK x : /\ x[0] = d
               /\ \A i \in 1..n : x[i] = Does(x[i-1], (p \o q)[i])
               /\ After(d, p \o q) = x[n]
  <2> DEFINE pq == p \o q
  <2>1. pq \in Seq(A \cup B) /\ Len(pq) = n
    OBVIOUS
  <2> HIDE DEF pq, n
  <2>2. \E x : /\ x[0] = d
               /\ \A i \in 1..Len(pq) : x[i] = Does(x[i-1], pq[i])
               /\ After(d, pq) = x[Len(pq)]
    BY <2>1, Trace
  <2>3. QED  BY <2>1, <2>2 DEF pq
<1>4. v[0] = d
  BY <1>1
<1>5. ASSUME NEW i \in 1..n PROVE v[i] = Does(v[i-1], (p \o q)[i])
  <2>1. CASE i <= Len(p)
    <3>1. (p \o q)[i] = p[i] /\ v[i] = t[i] /\ v[i-1] = t[i-1]
            /\ i \in 1..Len(p)
      BY <2>1
    <3>2. QED  BY <3>1, <1>1
  <2>2. CASE i = Len(p) + 1
    <3>1. (p \o q)[i] = q[1] /\ v[i] = u[1] /\ v[i-1] = t[Len(p)]
            /\ 1 \in 1..Len(q)
      BY <2>2
    <3>2. QED  BY <3>1, <1>1, <1>2
  <2>3. CASE i > Len(p) + 1
    <3>1. (p \o q)[i] = q[i - Len(p)] /\ v[i] = u[i - Len(p)]
          /\ v[i-1] = u[(i - Len(p)) - 1] /\ i - Len(p) \in 1..Len(q)
      BY <2>3
    <3>2. QED  BY <3>1, <1>2
  <2>4. QED  BY <2>1, <2>2, <2>3
<1>6. v[n] = u[Len(q)]
  <2>1. CASE Len(q) = 0
    BY <2>1, <1>1, <1>2
  <2>2. CASE Len(q) # 0
    BY <2>2
  <2>3. QED  BY <2>1, <2>2
<1>7. x[n] = v[n]
  <2> DEFINE pq == p \o q
  <2>1. n \in Nat /\ x[0] = v[0]
    BY <1>3, <1>4
  <2>2. \A i \in 1..n : x[i-1] = v[i-1] => x[i] = v[i]
    BY <1>3, <1>5
  <2> HIDE DEF v, n, pq
  <2>3. QED
    BY <2>1, <2>2, Unique
<1>8. QED
  BY <1>2, <1>3, <1>6, <1>7

\* A list keeps what each of its commands keeps.
LEMMA Keeps ==
  ASSUME NEW A, NEW q \in Seq(A), NEW C, NEW c \in C,
         \A d \in C, a \in A : Does(d, a) \in C
  PROVE  After(c, q) \in C
<1>1. PICK t : /\ t[0] = c
               /\ \A i \in 1..Len(q) : t[i] = Does(t[i-1], q[i])
               /\ After(c, q) = t[Len(q)]
  BY Trace
<1> DEFINE S == {i \in Nat : i <= Len(q) => t[i] \in C}
<1>2. 0 \in S
  BY <1>1
<1>3. ASSUME NEW i \in Nat, i \in S PROVE i + 1 \in S
  <2>1. SUFFICES ASSUME i + 1 <= Len(q) PROVE t[i+1] \in C
    OBVIOUS
  <2>2. t[i] \in C
    BY <1>3, <2>1
  <2>3. i + 1 \in 1..Len(q) /\ (i + 1) - 1 = i /\ q[i+1] \in A
    BY <2>1
  <2>4. t[i+1] = Does(t[i], q[i+1])
    BY <2>3, <1>1
  <2>5. QED  BY <2>2, <2>3, <2>4
<1>4. Nat \subseteq S
  <2> HIDE DEF S
  <2>1. QED  BY <1>2, <1>3, Induction
<1>5. QED  BY <1>4, <1>1

\* A list ends in C when a command brings about C and the later ones keep it.
LEMMA Settles ==
  ASSUME NEW A, NEW q \in Seq(A), NEW D, NEW C, C \subseteq D, NEW c \in D,
         \A d \in D, a \in A : Does(d, a) \in D,
         NEW k \in DOMAIN q, \A d \in D : Does(d, q[k]) \in C,
         \A j \in DOMAIN q : j > k => \A d \in C : Does(d, q[j]) \in C
  PROVE  After(c, q) \in C
<1>1. PICK t : /\ t[0] = c
               /\ \A i \in 1..Len(q) : t[i] = Does(t[i-1], q[i])
               /\ After(c, q) = t[Len(q)]
  BY Trace
<1> DEFINE S == {i \in Nat : i <= Len(q)
             => t[i] \in D /\ (i >= k => t[i] \in C)}
<1>0. k \in 1..Len(q) /\ DOMAIN q = 1..Len(q) /\ Len(q) \in Nat
  OBVIOUS
<1>2. 0 \in S
  BY <1>0, <1>1
<1>3. ASSUME NEW i \in Nat, i \in S PROVE i + 1 \in S
  <2>1. SUFFICES ASSUME i + 1 <= Len(q)
                 PROVE  t[i+1] \in D /\ (i + 1 >= k => t[i+1] \in C)
    OBVIOUS
  <2>2. t[i] \in D /\ (i >= k => t[i] \in C)
    BY <1>3, <2>1, <1>0
  <2>3. i + 1 \in 1..Len(q) /\ (i + 1) - 1 = i /\ q[i+1] \in A
    BY <2>1
  <2>4. t[i+1] = Does(t[i], q[i+1])
    BY <2>3, <1>1
  <2>5. t[i+1] \in D
    BY <2>2, <2>3, <2>4
  <2>6. CASE i + 1 < k
    BY <2>5, <2>6, <1>0
  <2>7. CASE i + 1 = k
    BY <2>2, <2>4, <2>5, <2>7
  <2>8. CASE i + 1 > k
    BY <2>2, <2>3, <2>4, <2>5, <2>8, <1>0
  <2>9. QED  BY <2>6, <2>7, <2>8, <1>0
<1>4. Nat \subseteq S
  <2> HIDE DEF S
  <2>1. QED  BY <1>2, <1>3, Induction
<1>5. QED  BY <1>0, <1>4, <1>1

\* What FlattenSeq makes of the first n lists.
Flat(ss, f, n) ==
  f = [i \in 1..n |-> IF i = 1 THEN ss[i] ELSE f[i-1] \o ss[i]]

\* There is such a function for every n.
LEMMA FlatExists ==
  ASSUME NEW ss, NEW n \in Nat
  PROVE  \E f : Flat(ss, f, n)
<1> DEFINE S == {k \in Nat : \E f : Flat(ss, f, k)}
<1>1. 0 \in S
  <2>1. Flat(ss, [i \in 1..0 |-> ss], 0)
    BY DEF Flat
  <2>2. QED BY <2>1
<1>2. ASSUME NEW k \in Nat, k \in S PROVE k+1 \in S
  <2>1. PICK f : Flat(ss, f, k)
    BY <1>2
  <2> DEFINE g == [i \in 1..(k+1) |->
                     IF i = 1 THEN ss[i]
                     ELSE IF i = k + 1 THEN f[k] \o ss[i] ELSE f[i]]
  <2>2. ASSUME NEW i \in 1..(k+1)
        PROVE  g[i] = IF i = 1 THEN ss[i] ELSE g[i-1] \o ss[i]
    <3>1. CASE i = 1
      BY <3>1
    <3>2. CASE i # 1
      <4>1. i - 1 \in 1..k /\ i - 1 \in 1..(k+1)
        BY <3>2
      <4>2. \A j \in 1..k : f[j] = IF j = 1 THEN ss[j] ELSE f[j-1] \o ss[j]
        BY <2>1 DEF Flat
      <4>3. g[i-1] = f[i-1]
        <5>1. f[1] = ss[1]
          BY <4>1, <4>2
        <5>2. QED  BY <4>1, <5>1
      <4>4. g[i] = IF i = k + 1 THEN f[k] \o ss[i] ELSE f[i]
        BY <3>2
      <4>5. CASE i = k + 1
        <5>1. i - 1 = k
          BY <4>5
        <5>2. g[i] = f[i-1] \o ss[i]
          BY <4>4, <4>5, <5>1
        <5>3. QED
          <6> HIDE DEF g
          <6>1. QED  BY <5>2, <4>3, <3>2
      <4>6. CASE i # k + 1
        <5>1. i \in 1..k
          BY <4>6
        <5>2. f[i] = f[i-1] \o ss[i]
          BY <5>1, <4>2, <3>2
        <5>3. g[i] = f[i]
          BY <4>4, <4>6
        <5>4. QED
          <6> HIDE DEF g
          <6>1. QED  BY <5>2, <5>3, <4>3, <3>2
      <4>7. QED  BY <4>5, <4>6
    <3>3. QED BY <3>1, <3>2
  <2>3. Flat(ss, g, k+1)
    <3> HIDE DEF g
    <3>1. g = [i \in 1..(k+1) |-> g[i]]
      BY DEF g
    <3> QED BY <2>2, <3>1 DEF Flat
  <2>4. QED BY <2>3
<1>3. Nat \subseteq S
  <2> HIDE DEF S
  <2> QED BY <1>1, <1>2, Induction
<1>4. QED BY <1>3

\* FlattenSeq puts lists together: its elements are theirs, and all of theirs.
LEMMA FlattenIs ==
  ASSUME NEW A, NEW ss \in Seq(Seq(A))
  PROVE  /\ FlattenSeq(ss) \in Seq(A)
         /\ \A i \in DOMAIN ss : \A j \in DOMAIN ss[i] :
              \E k \in DOMAIN FlattenSeq(ss) : FlattenSeq(ss)[k] = ss[i][j]
<1> DEFINE n == Len(ss)
           f == CHOOSE f : Flat(ss, f, n)
<1>1. n \in Nat /\ DOMAIN ss = 1..n /\ \A i \in 1..n : ss[i] \in Seq(A)
  OBVIOUS
<1>2. CASE n = 0
  <2>1. FlattenSeq(ss) = ss /\ ss = << >>
    BY <1>2 DEF FlattenSeq
  <2>2. QED  BY <2>1, <1>1, <1>2
<1>3. CASE n # 0
  <2>1. Flat(ss, f, n)
    BY <1>1, FlatExists
  <2>2. FlattenSeq(ss) = f[n]
    BY <1>3 DEF FlattenSeq, Flat
  <2> HIDE DEF f, n
  <2>3. \A i \in 1..n : f[i] = IF i = 1 THEN ss[i] ELSE f[i-1] \o ss[i]
    BY <2>1 DEF Flat
  <2> DEFINE S == {m \in Nat : m \in 1..n =>
                     /\ f[m] \in Seq(A)
                     /\ \A i \in 1..m : \A j \in DOMAIN ss[i] :
                          \E k \in DOMAIN f[m] : f[m][k] = ss[i][j]}
  <2>4. 0 \in S
    OBVIOUS
  <2>5. ASSUME NEW m \in Nat, m \in S PROVE m + 1 \in S
    <3>1. SUFFICES ASSUME m + 1 \in 1..n
                   PROVE  /\ f[m+1] \in Seq(A)
                          /\ \A i \in 1..(m+1) : \A j \in DOMAIN ss[i] :
                               \E k \in DOMAIN f[m+1] : f[m+1][k] = ss[i][j]
      OBVIOUS
    <3>2. CASE m = 0
      <4>1. f[m+1] = ss[1] /\ ss[1] \in Seq(A)
        BY <1>1, <2>3, <3>1, <3>2
      <4>2. QED  BY <4>1, <3>2
    <3>3. CASE m # 0
      <4>1. /\ f[m] \in Seq(A) /\ m \in 1..n
            /\ \A i \in 1..m : \A j \in DOMAIN ss[i] :
                 \E k \in DOMAIN f[m] : f[m][k] = ss[i][j]
        BY <2>5, <3>1, <3>3, <1>1
      <4>2. f[m+1] = f[m] \o ss[m+1] /\ ss[m+1] \in Seq(A)
        <5>1. m + 1 # 1 /\ (m + 1) - 1 = m
          BY <3>3
        <5>2. f[m+1] = f[(m+1) - 1] \o ss[m+1]
          BY <2>3, <3>1, <5>1
        <5>3. QED  BY <1>1, <3>1, <5>1, <5>2
      <4>3. PICK x \in Seq(A) : x = f[m]
        BY <4>1
      <4>4. PICK y \in Seq(A) : y = ss[m+1]
        BY <4>2
      <4>5. /\ x \o y \in Seq(A)
            /\ \A k \in DOMAIN x : k \in DOMAIN (x \o y) /\ (x \o y)[k] = x[k]
            /\ \A k \in DOMAIN y : k + Len(x) \in DOMAIN (x \o y)
                                  /\ (x \o y)[k + Len(x)] = y[k]
        OBVIOUS
      <4>6. PICK z : z = x \o y
        OBVIOUS
      <4>7. f[m+1] = z
        BY <4>2, <4>3, <4>4, <4>6
      <4>8. ASSUME NEW i \in 1..(m+1), NEW j \in DOMAIN ss[i]
            PROVE  \E k \in DOMAIN z : z[k] = ss[i][j]
        <5>1. CASE i = m + 1
          BY <5>1, <4>4, <4>5, <4>6
        <5>2. CASE i # m + 1
          <6>1. i \in 1..m
            BY <5>2
          <6>2. QED  BY <6>1, <4>1, <4>3, <4>5, <4>6
        <5>3. QED  BY <5>1, <5>2
      <4>9. z \in Seq(A)
        BY <4>5, <4>6
      <4>10. QED  BY <4>7, <4>8, <4>9
    <3>4. QED  BY <3>2, <3>3
  <2>6. Nat \subseteq S
    <3> HIDE DEF S
    <3>1. QED  BY <2>4, <2>5, Induction
  <2>7. n \in S /\ n \in 1..n
    BY <2>6, <1>1, <1>3
  <2>8. QED  BY <2>2, <2>7, <1>1
<1>4. QED  BY <1>2, <1>3

-----------------------------------------------------------------------------
(* What the templates of the drivers have in common.                       *)

\* The drivers that put an interface into trunk mode.
TrunkMode == {"arista", "aruba", "ios", "nvue", "nxos"}

\* The commands that take an interface out of its untagged VLAN.
Removers == {"no_access", "no_untag_v", "leave_v"}

\* What the plug templates are made of.
PlugLines ==
  {"access_mode", "access_v", "untag_v", "native_v",
   "no_access", "no_tags", "no_native"}

\* What the unplug templates are made of.
UnplugLines == Removers \cup {"no_tags", "access_mode", "no_native"}

\* What the templates for the native VLAN of a trunk are made of.
NativeLines ==
  {"no_access", "trunk_mode", "hybrid_mode", "native_v", "access_v", "tag_v"}

\* What the templates for a tagged VLAN are made of.
TrunkLines == {"no_access", "trunk_mode", "hybrid_mode", "tag_v"}

\* What the templates that remove a tagged VLAN are made of.
UntrunkLines == {"no_tag_v", "leave_v"}

\* A list has a command.
Has(q, cmd) == \E i \in DOMAIN q : q[i] = cmd

\* PLUG_PORT_TO_NETWORK: it ends with the command that puts the port into its
\* VLAN, but for the pvid that follows; access mode comes first where the
\* port may have been a trunk.
PlugTemplate(d, q) ==
  /\ q \in Seq(PlugLines)
  /\ \E i \in DOMAIN q :
       /\ q[i] \in {"access_v", "untag_v"}
       /\ \A j \in DOMAIN q : j > i => q[j] = "native_v"
  /\ d \in TrunkMode => Has(q, "access_mode")
  /\ d \in {"nvue", "nxos"} => ~Has(q, "native_v")
  /\ d = "nvue" => Has(q, "no_native")

\* DELETE_PORT: it takes the port out of its VLAN, and of the tagged ones where
\* OwnVlansOnly relies on that.
UnplugTemplate(d, q) ==
  /\ q \in Seq(UnplugLines)
  /\ \E i \in DOMAIN q : q[i] \in Removers
  /\ d \in ClearsTrunks => Has(q, "no_tags")
  /\ d = "nvue" => Has(q, "no_native")

\* SET_NATIVE_VLAN: a trunk with a native VLAN that is allowed on it, or a
\* hybrid port in the VLAN; nothing at all on the other drivers.
NativeTemplate(d, q) ==
  /\ q \in Seq(NativeLines)
  /\ d \in {"arista", "ios", "nvue"} =>
       /\ Has(q, "trunk_mode") /\ Has(q, "native_v") /\ Has(q, "tag_v")
       /\ ~Has(q, "hybrid_mode")
  /\ d \in {"os10", "ovs"} =>
       /\ Has(q, "hybrid_mode") /\ Has(q, "access_v")
       /\ ~Has(q, "trunk_mode") /\ ~Has(q, "no_access")
  /\ d \notin {"arista", "ios", "nvue", "os10", "ovs"} => q = << >>

\* ADD_NETWORK_TO_TRUNK: the VLAN is tagged, and the mode is that of the
\* driver; some drivers leave the mode alone.
TrunkTemplate(d, q, kinds) ==
  /\ q \in Seq(TrunkLines)
  /\ kinds # {} => Has(q, "tag_v")
  /\ d \notin TrunkMode => ~Has(q, "trunk_mode")
  /\ d \in TrunkMode => ~Has(q, "hybrid_mode")
  /\ d \in {"os10", "ovs"} => ~Has(q, "no_access")
  /\ d \in {"arista", "sonic", "junos", "ovs"} =>
       \A i \in DOMAIN q : q[i] = "tag_v"

\* REMOVE_NETWORK_FROM_TRUNK: only commands that take a VLAN away.
UntrunkTemplate(q, kinds) ==
  q \in Seq(UntrunkLines) /\ (kinds # {} => 1 \in DOMAIN q)

\* All of this of a driver.
Good(d, t) ==
  /\ t.mode \in {"access", "hybrid"}
  /\ PlugTemplate(d, t.plug) /\ UnplugTemplate(d, t.unplug)
       /\ NativeTemplate(d, t.native)
  /\ TrunkTemplate(d, t.trunk, t.trunks)
       /\ UntrunkTemplate(t.untrunk, t.trunks)

\* The empty list, and lists of up to four: the provers need to be told that
\* an element of a tuple is what it is.
LEMMA Line0 ==
  ASSUME NEW q, q = << >>
  PROVE  DOMAIN q = {} /\ \A S : q \in Seq(S)
OBVIOUS

\* A list of one.
LEMMA Line1 ==
  ASSUME NEW q, NEW a, q = <<a>>
  PROVE  /\ q \in Seq({a}) /\ DOMAIN q = 1..1
         /\ q[1] = a
OBVIOUS

\* A list of two.
LEMMA Line2 ==
  ASSUME NEW q, NEW a, NEW b, q = <<a, b>>
  PROVE  /\ q \in Seq({a, b}) /\ DOMAIN q = 1..2
         /\ q[1] = a /\ q[2] = b
OBVIOUS

\* A list of three.
LEMMA Line3 ==
  ASSUME NEW q, NEW a, NEW b, NEW c, q = <<a, b, c>>
  PROVE  /\ q \in Seq({a, b, c}) /\ DOMAIN q = 1..3
         /\ q[1] = a /\ q[2] = b /\ q[3] = c
OBVIOUS

\* A list of four.
LEMMA Line4 ==
  ASSUME NEW q, NEW a, NEW b, NEW c, NEW d, q = <<a, b, c, d>>
  PROVE  /\ q \in Seq({a, b, c, d}) /\ DOMAIN q = 1..4
         /\ q[1] = a /\ q[2] = b /\ q[3] = c /\ q[4] = d
OBVIOUS

\* The commands access_mode, access_v are a plug template.
LEMMA PlugTemplate1 ==
  ASSUME NEW d \in {"arista", "aruba", "cisco300", "ios", "nxos", "os10",
         "hpe", "huawei", "vrp8", "mlnxos", "ovs", "ruijie", "smc"}, NEW q,
         q = <<"access_mode", "access_v">>
  PROVE  PlugTemplate(d, q)
<1>1. q \in Seq({"access_mode", "access_v"}) /\ DOMAIN q = 1..2
      /\ q[1] = "access_mode" /\ q[2] = "access_v"
  BY Line2
<1>2. q \in Seq(PlugLines)
  BY ONLY <1>1 DEF PlugLines
<1>3. QED  BY ONLY <1>1, <1>2,
                   d \in {"arista", "aruba", "cisco300", "ios", "nxos", "os10",
                   "hpe", "huawei", "vrp8", "mlnxos", "ovs", "ruijie", "smc"}
                   DEF PlugTemplate, Has, TrunkMode

\* The commands no_untag_v, access_mode, no_tags are an unplug template.
LEMMA UnplugTemplate1 ==
  ASSUME NEW d \in {"arista", "ios", "ruijie", "smc"}, NEW q,
         q = <<"no_untag_v", "access_mode", "no_tags">>
  PROVE  UnplugTemplate(d, q)
<1>1. q \in Seq({"no_untag_v", "access_mode", "no_tags"}) /\ DOMAIN q = 1..3
      /\ q[1] = "no_untag_v" /\ q[2] = "access_mode" /\ q[3] = "no_tags"
  BY Line3
<1>2. q \in Seq(UnplugLines)
  BY ONLY <1>1 DEF UnplugLines, Removers
<1>3. QED  BY ONLY <1>1, <1>2, d \in {"arista", "ios", "ruijie", "smc"}
                   DEF UnplugTemplate, Has, Removers, ClearsTrunks

\* The commands trunk_mode, native_v, tag_v are a template for the native
\* VLAN.
LEMMA NativeTemplate1 ==
  ASSUME NEW d \in {"arista", "ios"}, NEW q,
         q = <<"trunk_mode", "native_v", "tag_v">>
  PROVE  NativeTemplate(d, q)
<1>1. q \in Seq({"trunk_mode", "native_v", "tag_v"}) /\ DOMAIN q = 1..3
      /\ q[1] = "trunk_mode" /\ q[2] = "native_v" /\ q[3] = "tag_v"
  BY Line3
<1>2. q \in Seq(NativeLines)
  BY ONLY <1>1 DEF NativeLines
<1>3. QED  BY ONLY <1>1, <1>2, d \in {"arista", "ios"} DEF NativeTemplate, Has

\* The commands tag_v are a template for a tagged VLAN.
LEMMA TrunkTemplate1 ==
  ASSUME NEW d \in {"arista", "os9", "powerconnect", "general", "junos", "ovs",
         "sonic"}, NEW q, q = <<"tag_v">>, NEW kinds
  PROVE  TrunkTemplate(d, q, kinds)
<1>1. q \in Seq({"tag_v"}) /\ DOMAIN q = 1..1
      /\ q[1] = "tag_v"
  BY Line1
<1>2. q \in Seq(TrunkLines)
  BY ONLY <1>1 DEF TrunkLines
<1>3. QED  BY ONLY <1>1, <1>2,
                   d \in {"arista", "os9", "powerconnect", "general", "junos",
                   "ovs", "sonic"} DEF TrunkTemplate, Has, TrunkMode

\* The commands no_tag_v are a template that removes a tagged VLAN.
LEMMA UntrunkTemplate1 ==
  ASSUME NEW q, q = <<"no_tag_v">>, NEW kinds
  PROVE  UntrunkTemplate(q, kinds)
<1>1. q \in Seq({"no_tag_v"}) /\ DOMAIN q = 1..1
      /\ q[1] = "no_tag_v"
  BY Line1
<1>2. q \in Seq(UntrunkLines)
  BY ONLY <1>1 DEF UntrunkLines
<1>3. QED  BY ONLY <1>1, <1>2 DEF UntrunkTemplate, Has

\* The commands no_untag_v are an unplug template.
LEMMA UnplugTemplate2 ==
  ASSUME NEW d \in {"aruba", "brocade", "cumulus", "os9", "huawei", "vrp8",
         "nokia"}, NEW q, q = <<"no_untag_v">>
  PROVE  UnplugTemplate(d, q)
<1>1. q \in Seq({"no_untag_v"}) /\ DOMAIN q = 1..1
      /\ q[1] = "no_untag_v"
  BY Line1
<1>2. q \in Seq(UnplugLines)
  BY ONLY <1>1 DEF UnplugLines, Removers
<1>3. QED  BY ONLY <1>1, <1>2,
                   d \in {"aruba", "brocade", "cumulus", "os9", "huawei",
                   "vrp8", "nokia"}
                   DEF UnplugTemplate, Has, Removers, ClearsTrunks

\* No command at all is a template for the native VLAN of these drivers.
LEMMA NativeTemplate2 ==
  ASSUME NEW d \in {"aruba", "brocade", "cisco300", "nxos", "cumulus", "os9",
         "powerconnect", "general", "hpe", "huawei", "vrp8", "junos", "mlnxos",
         "nokia", "pluribus", "ruijie", "smc", "sonic"}, NEW q, q = << >>
  PROVE  NativeTemplate(d, q)
<1>1. DOMAIN q = {} /\ \A S : q \in Seq(S)
  BY Line0
<1>2. q \in Seq(NativeLines)
  BY ONLY <1>1 DEF NativeLines
<1>3. QED  BY <1>1, <1>2 DEF NativeTemplate, Has

\* The commands trunk_mode, tag_v are a template for a tagged VLAN.
LEMMA TrunkTemplate2 ==
  ASSUME NEW d \in {"aruba", "ios", "nxos"}, NEW q,
         q = <<"trunk_mode", "tag_v">>, NEW kinds
  PROVE  TrunkTemplate(d, q, kinds)
<1>1. q \in Seq({"trunk_mode", "tag_v"}) /\ DOMAIN q = 1..2
      /\ q[1] = "trunk_mode" /\ q[2] = "tag_v"
  BY Line2
<1>2. q \in Seq(TrunkLines)
  BY ONLY <1>1 DEF TrunkLines
<1>3. QED  BY ONLY <1>1, <1>2, d \in {"aruba", "ios", "nxos"}
                   DEF TrunkTemplate, Has, TrunkMode

\* The commands untag_v are a plug template.
LEMMA PlugTemplate2 ==
  ASSUME NEW d \in {"brocade", "os9", "nokia", "sonic"}, NEW q,
         q = <<"untag_v">>
  PROVE  PlugTemplate(d, q)
<1>1. q \in Seq({"untag_v"}) /\ DOMAIN q = 1..1
      /\ q[1] = "untag_v"
  BY Line1
<1>2. q \in Seq(PlugLines)
  BY ONLY <1>1 DEF PlugLines
<1>3. QED  BY ONLY <1>1, <1>2, d \in {"brocade", "os9", "nokia", "sonic"}
                   DEF PlugTemplate, Has, TrunkMode

\* No command at all is a template for a tagged VLAN of these drivers.
LEMMA TrunkTemplate3 ==
  ASSUME NEW d \in {"brocade", "cisco300", "cumulus", "hpe", "huawei", "vrp8",
         "mlnxos", "nokia", "pluribus", "ruijie", "smc"}, NEW q, q = << >>,
         NEW kinds, kinds = {}
  PROVE  TrunkTemplate(d, q, kinds)
<1>1. DOMAIN q = {} /\ \A S : q \in Seq(S)
  BY Line0
<1>2. q \in Seq(TrunkLines)
  BY ONLY <1>1 DEF TrunkLines
<1>3. QED  BY ONLY <1>1, <1>2,
                   d \in {"brocade", "cisco300", "cumulus", "hpe", "huawei",
                   "vrp8", "mlnxos", "nokia", "pluribus", "ruijie", "smc"},
                   kinds = {} DEF TrunkTemplate, Has, TrunkMode

\* No command at all is a template that removes a tagged VLAN of these
\* drivers.
LEMMA UntrunkTemplate2 ==
  ASSUME NEW q, q = << >>, NEW kinds, kinds = {}
  PROVE  UntrunkTemplate(q, kinds)
<1>1. DOMAIN q = {} /\ \A S : q \in Seq(S)
  BY Line0
<1>2. q \in Seq(UntrunkLines)
  BY ONLY <1>1 DEF UntrunkLines
<1>3. QED  BY <1>2 DEF UntrunkTemplate

\* The commands no_access, no_tags are an unplug template.
LEMMA UnplugTemplate3 ==
  ASSUME NEW d \in {"cisco300", "junos", "pluribus"}, NEW q,
         q = <<"no_access", "no_tags">>
  PROVE  UnplugTemplate(d, q)
<1>1. q \in Seq({"no_access", "no_tags"}) /\ DOMAIN q = 1..2
      /\ q[1] = "no_access" /\ q[2] = "no_tags"
  BY Line2
<1>2. q \in Seq(UnplugLines)
  BY ONLY <1>1 DEF UnplugLines, Removers
<1>3. QED  BY ONLY <1>1, <1>2, d \in {"cisco300", "junos", "pluribus"}
                   DEF UnplugTemplate, Has, Removers, ClearsTrunks

\* The commands no_access are an unplug template.
LEMMA UnplugTemplate4 ==
  ASSUME NEW d \in {"nxos", "os10", "powerconnect", "hpe"}, NEW q,
         q = <<"no_access">>
  PROVE  UnplugTemplate(d, q)
<1>1. q \in Seq({"no_access"}) /\ DOMAIN q = 1..1
      /\ q[1] = "no_access"
  BY Line1
<1>2. q \in Seq(UnplugLines)
  BY ONLY <1>1 DEF UnplugLines, Removers
<1>3. QED  BY ONLY <1>1, <1>2, d \in {"nxos", "os10", "powerconnect", "hpe"}
                   DEF UnplugTemplate, Has, Removers, ClearsTrunks

\* The commands access_v are a plug template.
LEMMA PlugTemplate3 ==
  ASSUME NEW d \in {"cumulus", "powerconnect"}, NEW q, q = <<"access_v">>
  PROVE  PlugTemplate(d, q)
<1>1. q \in Seq({"access_v"}) /\ DOMAIN q = 1..1
      /\ q[1] = "access_v"
  BY Line1
<1>2. q \in Seq(PlugLines)
  BY ONLY <1>1 DEF PlugLines
<1>3. QED  BY ONLY <1>1, <1>2, d \in {"cumulus", "powerconnect"}
                   DEF PlugTemplate, Has, TrunkMode

\* The commands no_native, access_mode, access_v are a plug template.
LEMMA PlugTemplate4 ==
  ASSUME NEW d \in {"nvue"}, NEW q,
         q = <<"no_native", "access_mode", "access_v">>
  PROVE  PlugTemplate(d, q)
<1>1. q \in Seq({"no_native", "access_mode", "access_v"}) /\ DOMAIN q = 1..3
      /\ q[1] = "no_native" /\ q[2] = "access_mode" /\ q[3] = "access_v"
  BY Line3
<1>2. q \in Seq(PlugLines)
  BY ONLY <1>1 DEF PlugLines
<1>3. QED  BY ONLY <1>1, <1>2, d \in {"nvue"} DEF PlugTemplate, Has, TrunkMode

\* The commands no_access, no_native, no_tags are an unplug template.
LEMMA UnplugTemplate5 ==
  ASSUME NEW d \in {"nvue"}, NEW q, q = <<"no_access", "no_native", "no_tags">>
  PROVE  UnplugTemplate(d, q)
<1>1. q \in Seq({"no_access", "no_native", "no_tags"}) /\ DOMAIN q = 1..3
      /\ q[1] = "no_access" /\ q[2] = "no_native" /\ q[3] = "no_tags"
  BY Line3
<1>2. q \in Seq(UnplugLines)
  BY ONLY <1>1 DEF UnplugLines, Removers
<1>3. QED  BY ONLY <1>1, <1>2, d \in {"nvue"}
                   DEF UnplugTemplate, Has, Removers, ClearsTrunks

\* The commands no_access, trunk_mode, native_v, tag_v are a template for the
\* native VLAN.
LEMMA NativeTemplate3 ==
  ASSUME NEW d \in {"nvue"}, NEW q,
         q = <<"no_access", "trunk_mode", "native_v", "tag_v">>
  PROVE  NativeTemplate(d, q)
<1>1. q \in Seq({"no_access", "trunk_mode", "native_v", "tag_v"})
      /\ DOMAIN q = 1..4
      /\ q[1] = "no_access" /\ q[2] = "trunk_mode" /\ q[3] = "native_v"
           /\ q[4] = "tag_v"
  BY Line4
<1>2. q \in Seq(NativeLines)
  BY ONLY <1>1 DEF NativeLines
<1>3. QED  BY ONLY <1>1, <1>2, d \in {"nvue"} DEF NativeTemplate, Has

\* The commands no_access, trunk_mode, tag_v are a template for a tagged VLAN.
LEMMA TrunkTemplate4 ==
  ASSUME NEW d \in {"nvue"}, NEW q, q = <<"no_access", "trunk_mode", "tag_v">>,
         NEW kinds
  PROVE  TrunkTemplate(d, q, kinds)
<1>1. q \in Seq({"no_access", "trunk_mode", "tag_v"}) /\ DOMAIN q = 1..3
      /\ q[1] = "no_access" /\ q[2] = "trunk_mode" /\ q[3] = "tag_v"
  BY Line3
<1>2. q \in Seq(TrunkLines)
  BY ONLY <1>1 DEF TrunkLines
<1>3. QED  BY ONLY <1>1, <1>2, d \in {"nvue"} DEF TrunkTemplate, Has, TrunkMode

\* The commands hybrid_mode, access_v are a template for the native VLAN.
LEMMA NativeTemplate4 ==
  ASSUME NEW d \in {"os10"}, NEW q, q = <<"hybrid_mode", "access_v">>
  PROVE  NativeTemplate(d, q)
<1>1. q \in Seq({"hybrid_mode", "access_v"}) /\ DOMAIN q = 1..2
      /\ q[1] = "hybrid_mode" /\ q[2] = "access_v"
  BY Line2
<1>2. q \in Seq(NativeLines)
  BY ONLY <1>1 DEF NativeLines
<1>3. QED  BY ONLY <1>1, <1>2, d \in {"os10"} DEF NativeTemplate, Has

\* The commands hybrid_mode, tag_v are a template for a tagged VLAN.
LEMMA TrunkTemplate5 ==
  ASSUME NEW d \in {"os10"}, NEW q, q = <<"hybrid_mode", "tag_v">>, NEW kinds
  PROVE  TrunkTemplate(d, q, kinds)
<1>1. q \in Seq({"hybrid_mode", "tag_v"}) /\ DOMAIN q = 1..2
      /\ q[1] = "hybrid_mode" /\ q[2] = "tag_v"
  BY Line2
<1>2. q \in Seq(TrunkLines)
  BY ONLY <1>1 DEF TrunkLines
<1>3. QED  BY ONLY <1>1, <1>2, d \in {"os10"} DEF TrunkTemplate, Has, TrunkMode

\* The commands untag_v, native_v are a plug template.
LEMMA PlugTemplate5 ==
  ASSUME NEW d \in {"general"}, NEW q, q = <<"untag_v", "native_v">>
  PROVE  PlugTemplate(d, q)
<1>1. q \in Seq({"untag_v", "native_v"}) /\ DOMAIN q = 1..2
      /\ q[1] = "untag_v" /\ q[2] = "native_v"
  BY Line2
<1>2. q \in Seq(PlugLines)
  BY ONLY <1>1 DEF PlugLines
<1>3. QED  BY ONLY <1>1, <1>2, d \in {"general"}
                   DEF PlugTemplate, Has, TrunkMode

\* The commands leave_v, no_native are an unplug template.
LEMMA UnplugTemplate6 ==
  ASSUME NEW d \in {"general"}, NEW q, q = <<"leave_v", "no_native">>
  PROVE  UnplugTemplate(d, q)
<1>1. q \in Seq({"leave_v", "no_native"}) /\ DOMAIN q = 1..2
      /\ q[1] = "leave_v" /\ q[2] = "no_native"
  BY Line2
<1>2. q \in Seq(UnplugLines)
  BY ONLY <1>1 DEF UnplugLines, Removers
<1>3. QED  BY ONLY <1>1, <1>2, d \in {"general"}
                   DEF UnplugTemplate, Has, Removers, ClearsTrunks

\* The commands leave_v are a template that removes a tagged VLAN.
LEMMA UntrunkTemplate3 ==
  ASSUME NEW q, q = <<"leave_v">>, NEW kinds
  PROVE  UntrunkTemplate(q, kinds)
<1>1. q \in Seq({"leave_v"}) /\ DOMAIN q = 1..1
      /\ q[1] = "leave_v"
  BY Line1
<1>2. q \in Seq(UntrunkLines)
  BY ONLY <1>1 DEF UntrunkLines
<1>3. QED  BY ONLY <1>1, <1>2 DEF UntrunkTemplate, Has

\* The commands no_access, no_tags, untag_v are a plug template.
LEMMA PlugTemplate6 ==
  ASSUME NEW d \in {"junos", "pluribus"}, NEW q,
         q = <<"no_access", "no_tags", "untag_v">>
  PROVE  PlugTemplate(d, q)
<1>1. q \in Seq({"no_access", "no_tags", "untag_v"}) /\ DOMAIN q = 1..3
      /\ q[1] = "no_access" /\ q[2] = "no_tags" /\ q[3] = "untag_v"
  BY Line3
<1>2. q \in Seq(PlugLines)
  BY ONLY <1>1 DEF PlugLines
<1>3. QED  BY ONLY <1>1, <1>2, d \in {"junos", "pluribus"}
                   DEF PlugTemplate, Has, TrunkMode

\* The commands no_access, access_mode are an unplug template.
LEMMA UnplugTemplate7 ==
  ASSUME NEW d \in {"mlnxos"}, NEW q, q = <<"no_access", "access_mode">>
  PROVE  UnplugTemplate(d, q)
<1>1. q \in Seq({"no_access", "access_mode"}) /\ DOMAIN q = 1..2
      /\ q[1] = "no_access" /\ q[2] = "access_mode"
  BY Line2
<1>2. q \in Seq(UnplugLines)
  BY ONLY <1>1 DEF UnplugLines, Removers
<1>3. QED  BY ONLY <1>1, <1>2, d \in {"mlnxos"}
                   DEF UnplugTemplate, Has, Removers, ClearsTrunks

\* The commands no_access, no_tags, access_mode are an unplug template.
LEMMA UnplugTemplate8 ==
  ASSUME NEW d \in {"ovs"}, NEW q,
         q = <<"no_access", "no_tags", "access_mode">>
  PROVE  UnplugTemplate(d, q)
<1>1. q \in Seq({"no_access", "no_tags", "access_mode"}) /\ DOMAIN q = 1..3
      /\ q[1] = "no_access" /\ q[2] = "no_tags" /\ q[3] = "access_mode"
  BY Line3
<1>2. q \in Seq(UnplugLines)
  BY ONLY <1>1 DEF UnplugLines, Removers
<1>3. QED  BY ONLY <1>1, <1>2, d \in {"ovs"}
                   DEF UnplugTemplate, Has, Removers, ClearsTrunks

\* The commands hybrid_mode, access_v, tag_v are a template for the native
\* VLAN.
LEMMA NativeTemplate5 ==
  ASSUME NEW d \in {"ovs"}, NEW q, q = <<"hybrid_mode", "access_v", "tag_v">>
  PROVE  NativeTemplate(d, q)
<1>1. q \in Seq({"hybrid_mode", "access_v", "tag_v"}) /\ DOMAIN q = 1..3
      /\ q[1] = "hybrid_mode" /\ q[2] = "access_v" /\ q[3] = "tag_v"
  BY Line3
<1>2. q \in Seq(NativeLines)
  BY ONLY <1>1 DEF NativeLines
<1>3. QED  BY ONLY <1>1, <1>2, d \in {"ovs"} DEF NativeTemplate, Has

\* The commands leave_v are an unplug template.
LEMMA UnplugTemplate9 ==
  ASSUME NEW d \in {"sonic"}, NEW q, q = <<"leave_v">>
  PROVE  UnplugTemplate(d, q)
<1>1. q \in Seq({"leave_v"}) /\ DOMAIN q = 1..1
      /\ q[1] = "leave_v"
  BY Line1
<1>2. q \in Seq(UnplugLines)
  BY ONLY <1>1 DEF UnplugLines, Removers
<1>3. QED  BY ONLY <1>1, <1>2, d \in {"sonic"}
                   DEF UnplugTemplate, Has, Removers, ClearsTrunks

-----------------------------------------------------------------------------
(* The drivers, one by one.                                                *)

\* The templates of AristaEos.
LEMMA GoodAristaEos == Good("arista", AristaEos)
<1> DEFINE t == AristaEos
<1>1. /\ t.mode = "access" /\ t.trunks = {"bond", "port"}
      /\ t.plug = <<"access_mode", "access_v">>
      /\ t.unplug = <<"no_untag_v", "access_mode", "no_tags">>
      /\ t.native = <<"trunk_mode", "native_v", "tag_v">>
      /\ t.trunk = <<"tag_v">>
      /\ t.untrunk = <<"no_tag_v">>
  BY DEF AristaEos, NoTemplates, AccessOnly, AccessMode, AnyPort
<1> HIDE DEF t
<1>2. PlugTemplate("arista", t.plug)
  BY <1>1, PlugTemplate1
<1>3. UnplugTemplate("arista", t.unplug)
  BY <1>1, UnplugTemplate1
<1>4. NativeTemplate("arista", t.native)
  BY <1>1, NativeTemplate1
<1>5. TrunkTemplate("arista", t.trunk, t.trunks)
  BY <1>1, TrunkTemplate1
<1>6. UntrunkTemplate(t.untrunk, t.trunks)
  BY <1>1, UntrunkTemplate1
<1>7. QED  BY <1>1, <1>2, <1>3, <1>4, <1>5, <1>6 DEF Good, t

\* The templates of ArubaOSCX.
LEMMA GoodArubaOSCX == Good("aruba", ArubaOSCX)
<1> DEFINE t == ArubaOSCX
<1>1. /\ t.mode = "access" /\ t.trunks = {"port"}
      /\ t.plug = <<"access_mode", "access_v">>
      /\ t.unplug = <<"no_untag_v">>
      /\ t.native = << >>
      /\ t.trunk = <<"trunk_mode", "tag_v">>
      /\ t.untrunk = <<"no_tag_v">>
  BY DEF ArubaOSCX, NoTemplates, AccessOnly, AccessMode, AnyPort
<1> HIDE DEF t
<1>2. PlugTemplate("aruba", t.plug)
  BY <1>1, PlugTemplate1
<1>3. UnplugTemplate("aruba", t.unplug)
  BY <1>1, UnplugTemplate2
<1>4. NativeTemplate("aruba", t.native)
  BY <1>1, NativeTemplate2
<1>5. TrunkTemplate("aruba", t.trunk, t.trunks)
  BY <1>1, TrunkTemplate2
<1>6. UntrunkTemplate(t.untrunk, t.trunks)
  BY <1>1, UntrunkTemplate1
<1>7. QED  BY <1>1, <1>2, <1>3, <1>4, <1>5, <1>6 DEF Good, t

\* The templates of BrocadeFastIron.
LEMMA GoodBrocadeFastIron == Good("brocade", BrocadeFastIron)
<1> DEFINE t == BrocadeFastIron
<1>1. /\ t.mode = "hybrid" /\ t.trunks = {}
      /\ t.plug = <<"untag_v">>
      /\ t.unplug = <<"no_untag_v">>
      /\ t.native = << >>
      /\ t.trunk = << >>
      /\ t.untrunk = << >>
  BY DEF BrocadeFastIron, NoTemplates, AccessOnly, AccessMode, AnyPort
<1> HIDE DEF t
<1>2. PlugTemplate("brocade", t.plug)
  BY <1>1, PlugTemplate2
<1>3. UnplugTemplate("brocade", t.unplug)
  BY <1>1, UnplugTemplate2
<1>4. NativeTemplate("brocade", t.native)
  BY <1>1, NativeTemplate2
<1>5. TrunkTemplate("brocade", t.trunk, t.trunks)
  BY <1>1, TrunkTemplate3
<1>6. UntrunkTemplate(t.untrunk, t.trunks)
  BY <1>1, UntrunkTemplate2
<1>7. QED  BY <1>1, <1>2, <1>3, <1>4, <1>5, <1>6 DEF Good, t

\* The templates of Cisco300.
LEMMA GoodCisco300 == Good("cisco300", Cisco300)
<1> DEFINE t == Cisco300
<1>1. /\ t.mode = "access" /\ t.trunks = {}
      /\ t.plug = <<"access_mode", "access_v">>
      /\ t.unplug = <<"no_access", "no_tags">>
      /\ t.native = << >>
      /\ t.trunk = << >>
      /\ t.untrunk = << >>
  BY DEF Cisco300, NoTemplates, AccessOnly, AccessMode, AnyPort
<1> HIDE DEF t
<1>2. PlugTemplate("cisco300", t.plug)
  BY <1>1, PlugTemplate1
<1>3. UnplugTemplate("cisco300", t.unplug)
  BY <1>1, UnplugTemplate3
<1>4. NativeTemplate("cisco300", t.native)
  BY <1>1, NativeTemplate2
<1>5. TrunkTemplate("cisco300", t.trunk, t.trunks)
  BY <1>1, TrunkTemplate3
<1>6. UntrunkTemplate(t.untrunk, t.trunks)
  BY <1>1, UntrunkTemplate2
<1>7. QED  BY <1>1, <1>2, <1>3, <1>4, <1>5, <1>6 DEF Good, t

\* The templates of CiscoIos.
LEMMA GoodCiscoIos == Good("ios", CiscoIos)
<1> DEFINE t == CiscoIos
<1>1. /\ t.mode = "access" /\ t.trunks = {"port"}
      /\ t.plug = <<"access_mode", "access_v">>
      /\ t.unplug = <<"no_untag_v", "access_mode", "no_tags">>
      /\ t.native = <<"trunk_mode", "native_v", "tag_v">>
      /\ t.trunk = <<"trunk_mode", "tag_v">>
      /\ t.untrunk = <<"no_tag_v">>
  BY DEF CiscoIos, AristaEos, NoTemplates, AccessOnly, AccessMode, AnyPort
<1> HIDE DEF t
<1>2. PlugTemplate("ios", t.plug)
  BY <1>1, PlugTemplate1
<1>3. UnplugTemplate("ios", t.unplug)
  BY <1>1, UnplugTemplate1
<1>4. NativeTemplate("ios", t.native)
  BY <1>1, NativeTemplate1
<1>5. TrunkTemplate("ios", t.trunk, t.trunks)
  BY <1>1, TrunkTemplate2
<1>6. UntrunkTemplate(t.untrunk, t.trunks)
  BY <1>1, UntrunkTemplate1
<1>7. QED  BY <1>1, <1>2, <1>3, <1>4, <1>5, <1>6 DEF Good, t

\* The templates of CiscoNxOS.
LEMMA GoodCiscoNxOS == Good("nxos", CiscoNxOS)
<1> DEFINE t == CiscoNxOS
<1>1. /\ t.mode = "access" /\ t.trunks = {"port"}
      /\ t.plug = <<"access_mode", "access_v">>
      /\ t.unplug = <<"no_access">>
      /\ t.native = << >>
      /\ t.trunk = <<"trunk_mode", "tag_v">>
      /\ t.untrunk = <<"no_tag_v">>
  BY DEF CiscoNxOS, NoTemplates, AccessOnly, AccessMode, AnyPort
<1> HIDE DEF t
<1>2. PlugTemplate("nxos", t.plug)
  BY <1>1, PlugTemplate1
<1>3. UnplugTemplate("nxos", t.unplug)
  BY <1>1, UnplugTemplate4
<1>4. NativeTemplate("nxos", t.native)
  BY <1>1, NativeTemplate2
<1>5. TrunkTemplate("nxos", t.trunk, t.trunks)
  BY <1>1, TrunkTemplate2
<1>6. UntrunkTemplate(t.untrunk, t.trunks)
  BY <1>1, UntrunkTemplate1
<1>7. QED  BY <1>1, <1>2, <1>3, <1>4, <1>5, <1>6 DEF Good, t

\* The templates of Cumulus.
LEMMA GoodCumulus == Good("cumulus", Cumulus)
<1> DEFINE t == Cumulus
<1>1. /\ t.mode = "access" /\ t.trunks = {}
      /\ t.plug = <<"access_v">>
      /\ t.unplug = <<"no_untag_v">>
      /\ t.native = << >>
      /\ t.trunk = << >>
      /\ t.untrunk = << >>
  BY DEF Cumulus, NoTemplates, AccessOnly, AccessMode, AnyPort
<1> HIDE DEF t
<1>2. PlugTemplate("cumulus", t.plug)
  BY <1>1, PlugTemplate3
<1>3. UnplugTemplate("cumulus", t.unplug)
  BY <1>1, UnplugTemplate2
<1>4. NativeTemplate("cumulus", t.native)
  BY <1>1, NativeTemplate2
<1>5. TrunkTemplate("cumulus", t.trunk, t.trunks)
  BY <1>1, TrunkTemplate3
<1>6. UntrunkTemplate(t.untrunk, t.trunks)
  BY <1>1, UntrunkTemplate2
<1>7. QED  BY <1>1, <1>2, <1>3, <1>4, <1>5, <1>6 DEF Good, t

\* The templates of CumulusNVUE.
LEMMA GoodCumulusNVUE == Good("nvue", CumulusNVUE)
<1> DEFINE t == CumulusNVUE
<1>1. /\ t.mode = "access" /\ t.trunks = {"bond", "port"}
      /\ t.plug = <<"no_native", "access_mode", "access_v">>
      /\ t.unplug = <<"no_access", "no_native", "no_tags">>
      /\ t.native = <<"no_access", "trunk_mode", "native_v", "tag_v">>
      /\ t.trunk = <<"no_access", "trunk_mode", "tag_v">>
      /\ t.untrunk = <<"no_tag_v">>
  BY DEF CumulusNVUE, NoTemplates, AccessOnly, AccessMode, AnyPort
<1> HIDE DEF t
<1>2. PlugTemplate("nvue", t.plug)
  BY <1>1, PlugTemplate4
<1>3. UnplugTemplate("nvue", t.unplug)
  BY <1>1, UnplugTemplate5
<1>4. NativeTemplate("nvue", t.native)
  BY <1>1, NativeTemplate3
<1>5. TrunkTemplate("nvue", t.trunk, t.trunks)
  BY <1>1, TrunkTemplate4
<1>6. UntrunkTemplate(t.untrunk, t.trunks)
  BY <1>1, UntrunkTemplate1
<1>7. QED  BY <1>1, <1>2, <1>3, <1>4, <1>5, <1>6 DEF Good, t

\* The templates of DellOS10.
LEMMA GoodDellOS10 == Good("os10", DellOS10)
<1> DEFINE t == DellOS10
<1>1. /\ t.mode = "access" /\ t.trunks = {"bond", "port"}
      /\ t.plug = <<"access_mode", "access_v">>
      /\ t.unplug = <<"no_access">>
      /\ t.native = <<"hybrid_mode", "access_v">>
      /\ t.trunk = <<"hybrid_mode", "tag_v">>
      /\ t.untrunk = <<"no_tag_v">>
  BY DEF DellOS10, NoTemplates, AccessOnly, AccessMode, AnyPort
<1> HIDE DEF t
<1>2. PlugTemplate("os10", t.plug)
  BY <1>1, PlugTemplate1
<1>3. UnplugTemplate("os10", t.unplug)
  BY <1>1, UnplugTemplate4
<1>4. NativeTemplate("os10", t.native)
  BY <1>1, NativeTemplate4
<1>5. TrunkTemplate("os10", t.trunk, t.trunks)
  BY <1>1, TrunkTemplate5
<1>6. UntrunkTemplate(t.untrunk, t.trunks)
  BY <1>1, UntrunkTemplate1
<1>7. QED  BY <1>1, <1>2, <1>3, <1>4, <1>5, <1>6 DEF Good, t

\* The templates of DellNos.
LEMMA GoodDellNos == Good("os9", DellNos)
<1> DEFINE t == DellNos
<1>1. /\ t.mode = "hybrid" /\ t.trunks = {"port"}
      /\ t.plug = <<"untag_v">>
      /\ t.unplug = <<"no_untag_v">>
      /\ t.native = << >>
      /\ t.trunk = <<"tag_v">>
      /\ t.untrunk = <<"no_tag_v">>
  BY DEF DellNos, NoTemplates, AccessOnly, AccessMode, AnyPort
<1> HIDE DEF t
<1>2. PlugTemplate("os9", t.plug)
  BY <1>1, PlugTemplate2
<1>3. UnplugTemplate("os9", t.unplug)
  BY <1>1, UnplugTemplate2
<1>4. NativeTemplate("os9", t.native)
  BY <1>1, NativeTemplate2
<1>5. TrunkTemplate("os9", t.trunk, t.trunks)
  BY <1>1, TrunkTemplate1
<1>6. UntrunkTemplate(t.untrunk, t.trunks)
  BY <1>1, UntrunkTemplate1
<1>7. QED  BY <1>1, <1>2, <1>3, <1>4, <1>5, <1>6 DEF Good, t

\* The templates of DellPowerConnect.
LEMMA GoodDellPowerConnect == Good("powerconnect", DellPowerConnect)
<1> DEFINE t == DellPowerConnect
<1>1. /\ t.mode = "access" /\ t.trunks = {"port"}
      /\ t.plug = <<"access_v">>
      /\ t.unplug = <<"no_access">>
      /\ t.native = << >>
      /\ t.trunk = <<"tag_v">>
      /\ t.untrunk = <<"no_tag_v">>
  BY DEF DellPowerConnect, NoTemplates, AccessOnly, AccessMode, AnyPort
<1> HIDE DEF t
<1>2. PlugTemplate("powerconnect", t.plug)
  BY <1>1, PlugTemplate3
<1>3. UnplugTemplate("powerconnect", t.unplug)
  BY <1>1, UnplugTemplate4
<1>4. NativeTemplate("powerconnect", t.native)
  BY <1>1, NativeTemplate2
<1>5. TrunkTemplate("powerconnect", t.trunk, t.trunks)
  BY <1>1, TrunkTemplate1
<1>6. UntrunkTemplate(t.untrunk, t.trunks)
  BY <1>1, UntrunkTemplate1
<1>7. QED  BY <1>1, <1>2, <1>3, <1>4, <1>5, <1>6 DEF Good, t

\* The templates of DellPowerConnectGeneral.
LEMMA GoodDellPowerConnectGeneral == Good("general", DellPowerConnectGeneral)
<1> DEFINE t == DellPowerConnectGeneral
<1>1. /\ t.mode = "hybrid" /\ t.trunks = {"port"}
      /\ t.plug = <<"untag_v", "native_v">>
      /\ t.unplug = <<"leave_v", "no_native">>
      /\ t.native = << >>
      /\ t.trunk = <<"tag_v">>
      /\ t.untrunk = <<"leave_v">>
  BY DEF DellPowerConnectGeneral, DellPowerConnect, NoTemplates, AccessOnly,
     AccessMode, AnyPort
<1> HIDE DEF t
<1>2. PlugTemplate("general", t.plug)
  BY <1>1, PlugTemplate5
<1>3. UnplugTemplate("general", t.unplug)
  BY <1>1, UnplugTemplate6
<1>4. NativeTemplate("general", t.native)
  BY <1>1, NativeTemplate2
<1>5. TrunkTemplate("general", t.trunk, t.trunks)
  BY <1>1, TrunkTemplate1
<1>6. UntrunkTemplate(t.untrunk, t.trunks)
  BY <1>1, UntrunkTemplate3
<1>7. QED  BY <1>1, <1>2, <1>3, <1>4, <1>5, <1>6 DEF Good, t

\* The templates of HpeComware.
LEMMA GoodHpeComware == Good("hpe", HpeComware)
<1> DEFINE t == HpeComware
<1>1. /\ t.mode = "access" /\ t.trunks = {}
      /\ t.plug = <<"access_mode", "access_v">>
      /\ t.unplug = <<"no_access">>
      /\ t.native = << >>
      /\ t.trunk = << >>
      /\ t.untrunk = << >>
  BY DEF HpeComware, NoTemplates, AccessOnly, AccessMode, AnyPort
<1> HIDE DEF t
<1>2. PlugTemplate("hpe", t.plug)
  BY <1>1, PlugTemplate1
<1>3. UnplugTemplate("hpe", t.unplug)
  BY <1>1, UnplugTemplate4
<1>4. NativeTemplate("hpe", t.native)
  BY <1>1, NativeTemplate2
<1>5. TrunkTemplate("hpe", t.trunk, t.trunks)
  BY <1>1, TrunkTemplate3
<1>6. UntrunkTemplate(t.untrunk, t.trunks)
  BY <1>1, UntrunkTemplate2
<1>7. QED  BY <1>1, <1>2, <1>3, <1>4, <1>5, <1>6 DEF Good, t

\* The templates of HuaweiVrp.
LEMMA GoodHuaweiVrp == Good("huawei", HuaweiVrp)
<1> DEFINE t == HuaweiVrp
<1>1. /\ t.mode = "access" /\ t.trunks = {}
      /\ t.plug = <<"access_mode", "access_v">>
      /\ t.unplug = <<"no_untag_v">>
      /\ t.native = << >>
      /\ t.trunk = << >>
      /\ t.untrunk = << >>
  BY DEF HuaweiVrp, NoTemplates, AccessOnly, AccessMode, AnyPort
<1> HIDE DEF t
<1>2. PlugTemplate("huawei", t.plug)
  BY <1>1, PlugTemplate1
<1>3. UnplugTemplate("huawei", t.unplug)
  BY <1>1, UnplugTemplate2
<1>4. NativeTemplate("huawei", t.native)
  BY <1>1, NativeTemplate2
<1>5. TrunkTemplate("huawei", t.trunk, t.trunks)
  BY <1>1, TrunkTemplate3
<1>6. UntrunkTemplate(t.untrunk, t.trunks)
  BY <1>1, UntrunkTemplate2
<1>7. QED  BY <1>1, <1>2, <1>3, <1>4, <1>5, <1>6 DEF Good, t

\* The templates of HuaweiVrp8.
LEMMA GoodHuaweiVrp8 == Good("vrp8", HuaweiVrp8)
<1> DEFINE t == HuaweiVrp8
<1>1. /\ t.mode = "access" /\ t.trunks = {}
      /\ t.plug = <<"access_mode", "access_v">>
      /\ t.unplug = <<"no_untag_v">>
      /\ t.native = << >>
      /\ t.trunk = << >>
      /\ t.untrunk = << >>
  BY DEF HuaweiVrp8, NoTemplates, AccessOnly, AccessMode, AnyPort
<1> HIDE DEF t
<1>2. PlugTemplate("vrp8", t.plug)
  BY <1>1, PlugTemplate1
<1>3. UnplugTemplate("vrp8", t.unplug)
  BY <1>1, UnplugTemplate2
<1>4. NativeTemplate("vrp8", t.native)
  BY <1>1, NativeTemplate2
<1>5. TrunkTemplate("vrp8", t.trunk, t.trunks)
  BY <1>1, TrunkTemplate3
<1>6. UntrunkTemplate(t.untrunk, t.trunks)
  BY <1>1, UntrunkTemplate2
<1>7. QED  BY <1>1, <1>2, <1>3, <1>4, <1>5, <1>6 DEF Good, t

\* The templates of Juniper.
LEMMA GoodJuniper == Good("junos", Juniper)
<1> DEFINE t == Juniper
<1>1. /\ t.mode = "hybrid" /\ t.trunks = {"port"}
      /\ t.plug = <<"no_access", "no_tags", "untag_v">>
      /\ t.unplug = <<"no_access", "no_tags">>
      /\ t.native = << >>
      /\ t.trunk = <<"tag_v">>
      /\ t.untrunk = <<"no_tag_v">>
  BY DEF Juniper, NoTemplates, AccessOnly, AccessMode, AnyPort
<1> HIDE DEF t
<1>2. PlugTemplate("junos", t.plug)
  BY <1>1, PlugTemplate6
<1>3. UnplugTemplate("junos", t.unplug)
  BY <1>1, UnplugTemplate3
<1>4. NativeTemplate("junos", t.native)
  BY <1>1, NativeTemplate2
<1>5. TrunkTemplate("junos", t.trunk, t.trunks)
  BY <1>1, TrunkTemplate1
<1>6. UntrunkTemplate(t.untrunk, t.trunks)
  BY <1>1, UntrunkTemplate1
<1>7. QED  BY <1>1, <1>2, <1>3, <1>4, <1>5, <1>6 DEF Good, t

\* The templates of MellanoxMlnxOS.
LEMMA GoodMellanoxMlnxOS == Good("mlnxos", MellanoxMlnxOS)
<1> DEFINE t == MellanoxMlnxOS
<1>1. /\ t.mode = "access" /\ t.trunks = {}
      /\ t.plug = <<"access_mode", "access_v">>
      /\ t.unplug = <<"no_access", "access_mode">>
      /\ t.native = << >>
      /\ t.trunk = << >>
      /\ t.untrunk = << >>
  BY DEF MellanoxMlnxOS, NoTemplates, AccessOnly, AccessMode, AnyPort
<1> HIDE DEF t
<1>2. PlugTemplate("mlnxos", t.plug)
  BY <1>1, PlugTemplate1
<1>3. UnplugTemplate("mlnxos", t.unplug)
  BY <1>1, UnplugTemplate7
<1>4. NativeTemplate("mlnxos", t.native)
  BY <1>1, NativeTemplate2
<1>5. TrunkTemplate("mlnxos", t.trunk, t.trunks)
  BY <1>1, TrunkTemplate3
<1>6. UntrunkTemplate(t.untrunk, t.trunks)
  BY <1>1, UntrunkTemplate2
<1>7. QED  BY <1>1, <1>2, <1>3, <1>4, <1>5, <1>6 DEF Good, t

\* The templates of NokiaSRL.
LEMMA GoodNokiaSRL == Good("nokia", NokiaSRL)
<1> DEFINE t == NokiaSRL
<1>1. /\ t.mode = "hybrid" /\ t.trunks = {}
      /\ t.plug = <<"untag_v">>
      /\ t.unplug = <<"no_untag_v">>
      /\ t.native = << >>
      /\ t.trunk = << >>
      /\ t.untrunk = << >>
  BY DEF NokiaSRL, NoTemplates, AccessOnly, AccessMode, AnyPort
<1> HIDE DEF t
<1>2. PlugTemplate("nokia", t.plug)
  BY <1>1, PlugTemplate2
<1>3. UnplugTemplate("nokia", t.unplug)
  BY <1>1, UnplugTemplate2
<1>4. NativeTemplate("nokia", t.native)
  BY <1>1, NativeTemplate2
<1>5. TrunkTemplate("nokia", t.trunk, t.trunks)
  BY <1>1, TrunkTemplate3
<1>6. UntrunkTemplate(t.untrunk, t.trunks)
  BY <1>1, UntrunkTemplate2
<1>7. QED  BY <1>1, <1>2, <1>3, <1>4, <1>5, <1>6 DEF Good, t

\* The templates of OvsLinux.
LEMMA GoodOvsLinux == Good("ovs", OvsLinux)
<1> DEFINE t == OvsLinux
<1>1. /\ t.mode = "access" /\ t.trunks = {"bond", "port"}
      /\ t.plug = <<"access_mode", "access_v">>
      /\ t.unplug = <<"no_access", "no_tags", "access_mode">>
      /\ t.native = <<"hybrid_mode", "access_v", "tag_v">>
      /\ t.trunk = <<"tag_v">>
      /\ t.untrunk = <<"no_tag_v">>
  BY DEF OvsLinux, NoTemplates, AccessOnly, AccessMode, AnyPort
<1> HIDE DEF t
<1>2. PlugTemplate("ovs", t.plug)
  BY <1>1, PlugTemplate1
<1>3. UnplugTemplate("ovs", t.unplug)
  BY <1>1, UnplugTemplate8
<1>4. NativeTemplate("ovs", t.native)
  BY <1>1, NativeTemplate5
<1>5. TrunkTemplate("ovs", t.trunk, t.trunks)
  BY <1>1, TrunkTemplate1
<1>6. UntrunkTemplate(t.untrunk, t.trunks)
  BY <1>1, UntrunkTemplate1
<1>7. QED  BY <1>1, <1>2, <1>3, <1>4, <1>5, <1>6 DEF Good, t

\* The templates of Pluribus.
LEMMA GoodPluribus == Good("pluribus", Pluribus)
<1> DEFINE t == Pluribus
<1>1. /\ t.mode = "hybrid" /\ t.trunks = {}
      /\ t.plug = <<"no_access", "no_tags", "untag_v">>
      /\ t.unplug = <<"no_access", "no_tags">>
      /\ t.native = << >>
      /\ t.trunk = << >>
      /\ t.untrunk = << >>
  BY DEF Pluribus, NoTemplates, AccessOnly, AccessMode, AnyPort
<1> HIDE DEF t
<1>2. PlugTemplate("pluribus", t.plug)
  BY <1>1, PlugTemplate6
<1>3. UnplugTemplate("pluribus", t.unplug)
  BY <1>1, UnplugTemplate3
<1>4. NativeTemplate("pluribus", t.native)
  BY <1>1, NativeTemplate2
<1>5. TrunkTemplate("pluribus", t.trunk, t.trunks)
  BY <1>1, TrunkTemplate3
<1>6. UntrunkTemplate(t.untrunk, t.trunks)
  BY <1>1, UntrunkTemplate2
<1>7. QED  BY <1>1, <1>2, <1>3, <1>4, <1>5, <1>6 DEF Good, t

\* The templates of Ruijie.
LEMMA GoodRuijie == Good("ruijie", Ruijie)
<1> DEFINE t == Ruijie
<1>1. /\ t.mode = "access" /\ t.trunks = {}
      /\ t.plug = <<"access_mode", "access_v">>
      /\ t.unplug = <<"no_untag_v", "access_mode", "no_tags">>
      /\ t.native = << >>
      /\ t.trunk = << >>
      /\ t.untrunk = << >>
  BY DEF Ruijie, NoTemplates, AccessOnly, AccessMode, AnyPort
<1> HIDE DEF t
<1>2. PlugTemplate("ruijie", t.plug)
  BY <1>1, PlugTemplate1
<1>3. UnplugTemplate("ruijie", t.unplug)
  BY <1>1, UnplugTemplate1
<1>4. NativeTemplate("ruijie", t.native)
  BY <1>1, NativeTemplate2
<1>5. TrunkTemplate("ruijie", t.trunk, t.trunks)
  BY <1>1, TrunkTemplate3
<1>6. UntrunkTemplate(t.untrunk, t.trunks)
  BY <1>1, UntrunkTemplate2
<1>7. QED  BY <1>1, <1>2, <1>3, <1>4, <1>5, <1>6 DEF Good, t

\* The templates of SupermicroSmis.
LEMMA GoodSupermicroSmis == Good("smc", SupermicroSmis)
<1> DEFINE t == SupermicroSmis
<1>1. /\ t.mode = "access" /\ t.trunks = {}
      /\ t.plug = <<"access_mode", "access_v">>
      /\ t.unplug = <<"no_untag_v", "access_mode", "no_tags">>
      /\ t.native = << >>
      /\ t.trunk = << >>
      /\ t.untrunk = << >>
  BY DEF SupermicroSmis, NoTemplates, AccessOnly, AccessMode, AnyPort
<1> HIDE DEF t
<1>2. PlugTemplate("smc", t.plug)
  BY <1>1, PlugTemplate1
<1>3. UnplugTemplate("smc", t.unplug)
  BY <1>1, UnplugTemplate1
<1>4. NativeTemplate("smc", t.native)
  BY <1>1, NativeTemplate2
<1>5. TrunkTemplate("smc", t.trunk, t.trunks)
  BY <1>1, TrunkTemplate3
<1>6. UntrunkTemplate(t.untrunk, t.trunks)
  BY <1>1, UntrunkTemplate2
<1>7. QED  BY <1>1, <1>2, <1>3, <1>4, <1>5, <1>6 DEF Good, t

\* The templates of Sonic.
LEMMA GoodSonic == Good("sonic", Sonic)
<1> DEFINE t == Sonic
<1>1. /\ t.mode = "hybrid" /\ t.trunks = {"port"}
      /\ t.plug = <<"untag_v">>
      /\ t.unplug = <<"leave_v">>
      /\ t.native = << >>
      /\ t.trunk = <<"tag_v">>
      /\ t.untrunk = <<"leave_v">>
  BY DEF Sonic, NoTemplates, AccessOnly, AccessMode, AnyPort
<1> HIDE DEF t
<1>2. PlugTemplate("sonic", t.plug)
  BY <1>1, PlugTemplate2
<1>3. UnplugTemplate("sonic", t.unplug)
  BY <1>1, UnplugTemplate9
<1>4. NativeTemplate("sonic", t.native)
  BY <1>1, NativeTemplate2
<1>5. TrunkTemplate("sonic", t.trunk, t.trunks)
  BY <1>1, TrunkTemplate1
<1>6. UntrunkTemplate(t.untrunk, t.trunks)
  BY <1>1, UntrunkTemplate3
<1>7. QED  BY <1>1, <1>2, <1>3, <1>4, <1>5, <1>6 DEF Good, t

\* Every driver has such templates.
LEMMA TemplatesAreGood ==
  ASSUME NEW d \in Drivers
  PROVE  Good(d, Templates[d])
<1>1. Drivers = {"arista", "aruba", "brocade", "cisco300", "ios", "nxos",
      "cumulus", "nvue", "os10", "os9", "powerconnect", "general", "hpe",
      "huawei", "vrp8", "junos", "mlnxos", "nokia", "ovs", "pluribus",
      "ruijie", "smc", "sonic"}
  BY DEF Drivers, Templates
<1>2. CASE d = "arista"
  <2>1. Templates[d] = AristaEos
    BY <1>2 DEF Templates
  <2>2. QED  BY <1>2, <2>1, GoodAristaEos
<1>3. CASE d = "aruba"
  <2>1. Templates[d] = ArubaOSCX
    BY <1>3 DEF Templates
  <2>2. QED  BY <1>3, <2>1, GoodArubaOSCX
<1>4. CASE d = "brocade"
  <2>1. Templates[d] = BrocadeFastIron
    BY <1>4 DEF Templates
  <2>2. QED  BY <1>4, <2>1, GoodBrocadeFastIron
<1>5. CASE d = "cisco300"
  <2>1. Templates[d] = Cisco300
    BY <1>5 DEF Templates
  <2>2. QED  BY <1>5, <2>1, GoodCisco300
<1>6. CASE d = "ios"
  <2>1. Templates[d] = CiscoIos
    BY <1>6 DEF Templates
  <2>2. QED  BY <1>6, <2>1, GoodCiscoIos
<1>7. CASE d = "nxos"
  <2>1. Templates[d] = CiscoNxOS
    BY <1>7 DEF Templates
  <2>2. QED  BY <1>7, <2>1, GoodCiscoNxOS
<1>8. CASE d = "cumulus"
  <2>1. Templates[d] = Cumulus
    BY <1>8 DEF Templates
  <2>2. QED  BY <1>8, <2>1, GoodCumulus
<1>9. CASE d = "nvue"
  <2>1. Templates[d] = CumulusNVUE
    BY <1>9 DEF Templates
  <2>2. QED  BY <1>9, <2>1, GoodCumulusNVUE
<1>10. CASE d = "os10"
  <2>1. Templates[d] = DellOS10
    BY <1>10 DEF Templates
  <2>2. QED  BY <1>10, <2>1, GoodDellOS10
<1>11. CASE d = "os9"
  <2>1. Templates[d] = DellNos
    BY <1>11 DEF Templates
  <2>2. QED  BY <1>11, <2>1, GoodDellNos
<1>12. CASE d = "powerconnect"
  <2>1. Templates[d] = DellPowerConnect
    BY <1>12 DEF Templates
  <2>2. QED  BY <1>12, <2>1, GoodDellPowerConnect
<1>13. CASE d = "general"
  <2>1. Templates[d] = DellPowerConnectGeneral
    BY <1>13 DEF Templates
  <2>2. QED  BY <1>13, <2>1, GoodDellPowerConnectGeneral
<1>14. CASE d = "hpe"
  <2>1. Templates[d] = HpeComware
    BY <1>14 DEF Templates
  <2>2. QED  BY <1>14, <2>1, GoodHpeComware
<1>15. CASE d = "huawei"
  <2>1. Templates[d] = HuaweiVrp
    BY <1>15 DEF Templates
  <2>2. QED  BY <1>15, <2>1, GoodHuaweiVrp
<1>16. CASE d = "vrp8"
  <2>1. Templates[d] = HuaweiVrp8
    BY <1>16 DEF Templates
  <2>2. QED  BY <1>16, <2>1, GoodHuaweiVrp8
<1>17. CASE d = "junos"
  <2>1. Templates[d] = Juniper
    BY <1>17 DEF Templates
  <2>2. QED  BY <1>17, <2>1, GoodJuniper
<1>18. CASE d = "mlnxos"
  <2>1. Templates[d] = MellanoxMlnxOS
    BY <1>18 DEF Templates
  <2>2. QED  BY <1>18, <2>1, GoodMellanoxMlnxOS
<1>19. CASE d = "nokia"
  <2>1. Templates[d] = NokiaSRL
    BY <1>19 DEF Templates
  <2>2. QED  BY <1>19, <2>1, GoodNokiaSRL
<1>20. CASE d = "ovs"
  <2>1. Templates[d] = OvsLinux
    BY <1>20 DEF Templates
  <2>2. QED  BY <1>20, <2>1, GoodOvsLinux
<1>21. CASE d = "pluribus"
  <2>1. Templates[d] = Pluribus
    BY <1>21 DEF Templates
  <2>2. QED  BY <1>21, <2>1, GoodPluribus
<1>22. CASE d = "ruijie"
  <2>1. Templates[d] = Ruijie
    BY <1>22 DEF Templates
  <2>2. QED  BY <1>22, <2>1, GoodRuijie
<1>23. CASE d = "smc"
  <2>1. Templates[d] = SupermicroSmis
    BY <1>23 DEF Templates
  <2>2. QED  BY <1>23, <2>1, GoodSupermicroSmis
<1>24. CASE d = "sonic"
  <2>1. Templates[d] = Sonic
    BY <1>24 DEF Templates
  <2>2. QED  BY <1>24, <2>1, GoodSonic
<1>25. QED  BY <1>1, <1>2, <1>3, <1>4, <1>5, <1>6, <1>7, <1>8, <1>9, <1>10,
               <1>11, <1>12, <1>13, <1>14, <1>15, <1>16, <1>17, <1>18, <1>19,
               <1>20, <1>21, <1>22, <1>23, <1>24

-----------------------------------------------------------------------------
(* What a command does.                                                    *)

\* The commands.
Lines ==
  {"access_mode", "trunk_mode", "hybrid_mode", "access_v", "no_access",
   "native_v", "no_native", "untag_v", "no_untag_v", "tag_v", "no_tag_v",
   "no_tags", "leave_v", "up", "down"}

\* An interface before (c) and after (e) a command about v.
LineEffect(line, v, c, e) ==
  /\ e \in PortConfigs
  /\ e.mode = IF line = "access_mode" THEN "access"
              ELSE IF line = "trunk_mode" THEN "trunk"
              ELSE IF line = "hybrid_mode" THEN "hybrid"
              ELSE c.mode
  /\ e.access = IF line = "access_v" THEN {v}
                ELSE IF line = "no_access" THEN {}
                ELSE IF line = "untag_v" THEN c.access \cup {v}
                ELSE IF line \in {"no_untag_v", "leave_v"} THEN c.access \ {v}
                ELSE c.access
  /\ e.native = IF line = "native_v" THEN {v}
                ELSE IF line = "no_native" THEN {}
                ELSE c.native
  /\ e.tagged = IF line = "tag_v" THEN c.tagged \cup {v}
                ELSE IF line = "no_tags" THEN {}
                ELSE IF line \in {"no_tag_v", "leave_v"} THEN c.tagged \ {v}
                ELSE c.tagged
  /\ e.up = IF line = "up" THEN TRUE
            ELSE IF line = "down" THEN FALSE
            ELSE c.up

\* Do does that.
LEMMA LineIs ==
  ASSUME NEW c \in PortConfigs, NEW line \in Lines, NEW v \in AllVlans,
         NEW e, e = Does(c, <<line, v>>)
  PROVE  LineEffect(line, v, c, e)
<1>1. e = Do(line, v, c)
  BY DEF Does
<1> USE DEF Do, PortConfigs, LineEffect
<1>2. CASE line = "access_mode"  BY <1>1, <1>2
<1>3. CASE line = "trunk_mode"  BY <1>1, <1>3
<1>4. CASE line = "hybrid_mode"  BY <1>1, <1>4
<1>5. CASE line = "access_v"  BY <1>1, <1>5
<1>6. CASE line = "no_access"  BY <1>1, <1>6
<1>7. CASE line = "native_v"  BY <1>1, <1>7
<1>8. CASE line = "no_native"  BY <1>1, <1>8
<1>9. CASE line = "untag_v"  BY <1>1, <1>9
<1>10. CASE line = "no_untag_v"  BY <1>1, <1>10
<1>11. CASE line = "tag_v"  BY <1>1, <1>11
<1>12. CASE line = "no_tag_v"  BY <1>1, <1>12
<1>13. CASE line = "no_tags"  BY <1>1, <1>13
<1>14. CASE line = "leave_v"
  <2>1. e = [c EXCEPT !.access = @ \ {v}, !.tagged = @ \ {v}]
    BY ONLY <1>1, <1>14 DEF Do
  <2>2. /\ DOMAIN e = {"mode", "access", "native", "tagged", "up"}
        /\ e.mode = c.mode /\ e.native = c.native /\ e.up = c.up
        /\ e.access = c.access \ {v} /\ e.tagged = c.tagged \ {v}
    BY ONLY <2>1, c \in PortConfigs DEF PortConfigs
  <2>3. e \in PortConfigs
    BY <2>1
  <2>4. QED  BY ONLY <2>2, <2>3, <1>14 DEF LineEffect
<1>15. CASE line = "up"  BY <1>1, <1>15
<1>16. CASE line = "down"  BY <1>1, <1>16
<1>17. QED
  BY <1>2, <1>3, <1>4, <1>5, <1>6, <1>7, <1>8, <1>9, <1>10, <1>11, <1>12,
     <1>13, <1>14, <1>15, <1>16 DEF Lines

-----------------------------------------------------------------------------
(* Templates as lists of commands.                                         *)

\* A list of some commands is a list of more.
LEMMA SeqMono ==
  ASSUME NEW A, NEW B, A \subseteq B, NEW q \in Seq(A)
  PROVE  q \in Seq(B)
OBVIOUS

\* Two lists make a list.
LEMMA SeqConcat ==
  ASSUME NEW A, NEW p \in Seq(A), NEW q \in Seq(A)
  PROVE  p \o q \in Seq(A)
OBVIOUS

\* A template for one VLAN has the commands of the template, in their order.
LEMMA FormatIs ==
  ASSUME NEW L, NEW q \in Seq(L), NEW v, NEW f, f = Format(q, v)
  PROVE  /\ f \in Seq(L \X {v}) /\ DOMAIN f = DOMAIN q
         /\ \A i \in DOMAIN q : f[i] = <<q[i], v>>
<1>1. f = [i \in 1..Len(q) |-> <<q[i], v>>]
  BY DEF Format
<1>2. \A i \in 1..Len(q) : <<q[i], v>> \in L \X {v}
  OBVIOUS
<1>3. QED  BY <1>1, <1>2

\* A template for several VLANs has each of its commands for each of them.
LEMMA FormatEachIs ==
  ASSUME NEW L, NEW q \in Seq(L), NEW vs, IsFiniteSet(vs)
  PROVE  /\ FormatEach(q, vs) \in Seq(L \X vs)
         /\ \A i \in DOMAIN q, w \in vs :
              Has(FormatEach(q, vs), <<q[i], w>>)
<1> DEFINE ss == [i \in 1..Cardinality(vs) |-> Format(q, SetToSeq(vs)[i])]
<1>1. /\ Cardinality(vs) \in Nat
      /\ SetToSeq(vs) \in [1..Cardinality(vs) -> vs]
      /\ \A x \in vs : \E i \in 1..Cardinality(vs) : SetToSeq(vs)[i] = x
  BY AllInSeq
<1>2. \A w \in vs : /\ Format(q, w) \in Seq(L \X vs)
                    /\ DOMAIN Format(q, w) = DOMAIN q
                    /\ \A i \in DOMAIN q : Format(q, w)[i] = <<q[i], w>>
  <2>1. TAKE w \in vs
  <2>2. PICK f : f = Format(q, w)  OBVIOUS
  <2>3. /\ f \in Seq(L \X {w}) /\ DOMAIN f = DOMAIN q
        /\ \A i \in DOMAIN q : f[i] = <<q[i], w>>
    BY <2>2, FormatIs
  <2>4. L \X {w} \subseteq L \X vs  OBVIOUS
  <2>5. f \in Seq(L \X vs)
    BY <2>3, <2>4, SeqMono
  <2>6. QED  BY <2>2, <2>3, <2>5
<1>3. ss \in Seq(Seq(L \X vs)) /\ DOMAIN ss = 1..Cardinality(vs)
      /\ \A i \in 1..Cardinality(vs) : ss[i] = Format(q, SetToSeq(vs)[i])
  <2>1. \A i \in 1..Cardinality(vs) :
          Format(q, SetToSeq(vs)[i]) \in Seq(L \X vs)
    BY <1>1, <1>2
  <2>2. QED  BY <1>1, <2>1
<1>4. FormatEach(q, vs) = FlattenSeq(ss)
  BY DEF FormatEach
<1> HIDE DEF ss
<1>5. /\ FlattenSeq(ss) \in Seq(L \X vs)
      /\ \A i \in DOMAIN ss : \A j \in DOMAIN ss[i] :
           \E k \in DOMAIN FlattenSeq(ss) : FlattenSeq(ss)[k] = ss[i][j]
  BY <1>3, FlattenIs
<1>6. ASSUME NEW i \in DOMAIN q, NEW w \in vs
      PROVE  \E k \in DOMAIN FlattenSeq(ss) : FlattenSeq(ss)[k] = <<q[i], w>>
  <2>1. PICK n \in 1..Cardinality(vs) : SetToSeq(vs)[n] = w
    BY <1>1
  <2>2. ss[n] = Format(q, w) /\ n \in DOMAIN ss
    BY <1>3, <2>1
  <2>3. i \in DOMAIN ss[n] /\ ss[n][i] = <<q[i], w>>
    BY <1>2, <2>2
  <2>4. QED  BY <1>5, <2>2, <2>3
<1>7. QED  BY <1>4, <1>5, <1>6 DEF Has

\* A list ends in C when a command brings about C and all of them keep it.
LEMMA Reaches ==
  ASSUME NEW A, NEW q \in Seq(A), NEW D, NEW C, C \subseteq D, NEW c \in D,
         \A d \in D, a \in A : Does(d, a) \in D,
         \A d \in C, a \in A : Does(d, a) \in C,
         NEW k \in DOMAIN q, \A d \in D : Does(d, q[k]) \in C
  PROVE  After(c, q) \in C
<1>1. \A j \in DOMAIN q : q[j] \in A
  OBVIOUS
<1>2. \A j \in DOMAIN q : j > k => \A d \in C : Does(d, q[j]) \in C
  BY <1>1
<1>3. QED  BY <1>2, Settles

-----------------------------------------------------------------------------
(* What any part of a call may change.                                     *)

\* The commands that leave X untagged, N native and Y tagged at most, put only
\* drivers of TrunkMode into trunk mode, and shut down only if s.
Permitted(d, X, N, Y, s) ==
  {a \in Lines \X AllVlans :
     /\ a[1] \in {"access_v", "untag_v"} => a[2] \in X
     /\ a[1] = "native_v" => a[2] \in N
     /\ a[1] = "tag_v" => a[2] \in Y
     /\ a[1] = "trunk_mode" => d \in TrunkMode
     /\ a[1] = "down" => s}

\* What they may make of the interface c.
Near(d, c, X, N, Y, s) ==
  {e \in PortConfigs :
     /\ e.mode = "trunk" => d \in TrunkMode
     /\ e.access \subseteq c.access \cup X
     /\ e.native \subseteq c.native \cup N
     /\ e.tagged \subseteq c.tagged \cup Y
     /\ s \/ e.up}

\* One of them keeps to that.
LEMMA StaysNear ==
  ASSUME NEW d, NEW c, NEW X, NEW N, NEW Y, NEW s,
         NEW e \in Near(d, c, X, N, Y, s), NEW a \in Permitted(d, X, N, Y, s)
  PROVE  Does(e, a) \in Near(d, c, X, N, Y, s)
<1>1. PICK line \in Lines, v \in AllVlans : a = <<line, v>>
  BY DEF Permitted
<1>2. /\ line \in {"access_v", "untag_v"} => v \in X
      /\ line = "native_v" => v \in N
      /\ line = "tag_v" => v \in Y
      /\ line = "trunk_mode" => d \in TrunkMode
      /\ line = "down" => s
  BY <1>1 DEF Permitted
<1>3. /\ e \in PortConfigs
      /\ e.mode = "trunk" => d \in TrunkMode
      /\ e.access \subseteq c.access \cup X
      /\ e.native \subseteq c.native \cup N
      /\ e.tagged \subseteq c.tagged \cup Y
      /\ s \/ e.up
  BY DEF Near
<1>4. PICK g : g = Does(e, <<line, v>>)  OBVIOUS
<1>5. LineEffect(line, v, e, g)
  BY ONLY <1>3, <1>4, LineIs, line \in Lines, v \in AllVlans
<1>6. g.mode = "trunk" => d \in TrunkMode
  BY ONLY <1>2, <1>3, <1>5 DEF LineEffect
<1>7. g.access \subseteq c.access \cup X
  BY ONLY <1>2, <1>3, <1>5 DEF LineEffect
<1>8. g.native \subseteq c.native \cup N
  BY ONLY <1>2, <1>3, <1>5 DEF LineEffect
<1>9. g.tagged \subseteq c.tagged \cup Y
  BY ONLY <1>2, <1>3, <1>5 DEF LineEffect
<1>10. s \/ g.up
  BY ONLY <1>2, <1>3, <1>5 DEF LineEffect
<1>11. QED
  BY ONLY <1>1, <1>4, <1>5, <1>6, <1>7, <1>8, <1>9, <1>10
  DEF Near, LineEffect

\* So does a list of them.
LEMMA AfterNear ==
  ASSUME NEW d, NEW c, NEW X, NEW N, NEW Y, NEW s,
         c \in Near(d, c, X, N, Y, s), NEW q \in Seq(Permitted(d, X, N, Y, s))
  PROVE  After(c, q) \in Near(d, c, X, N, Y, s)
BY StaysNear, Keeps

\* A list is a list of what its elements are.
LEMMA SeqIn ==
  ASSUME NEW A, NEW B, NEW q \in Seq(B), \A i \in DOMAIN q : q[i] \in A
  PROVE  q \in Seq(A)
OBVIOUS

\* A part of a list is a list of the same commands, and the whole if it is as
\* long.
LEMMA Prefix ==
  ASSUME NEW A, NEW q \in Seq(A), NEW n \in 0..Len(q)
  PROVE  SubSeq(q, 1, n) \in Seq(A) /\ (n = Len(q) => SubSeq(q, 1, n) = q)
OBVIOUS

\* A list that is sent under a condition.
LEMMA WhenIs ==
  ASSUME NEW A, NEW condition, NEW q, condition => q \in Seq(A)
  PROVE  When(condition, q) \in Seq(A)
BY DEF When

\* The native VLANs a plug leaves.
NativeOf(d, isTrunk, v) ==
  IF d = "nxos" \/ (d = "nvue" /\ ~isTrunk) THEN {} ELSE {v}

\* The plug template leaves the VLAN untagged.
LEMMA PlugPermitted ==
  ASSUME NEW d, NEW q, PlugTemplate(d, q), NEW v \in AllVlans,
         NEW X, v \in X, NEW N, d \notin {"nvue", "nxos"} => v \in N,
         NEW Y, NEW s
  PROVE  Format(q, v) \in Seq(Permitted(d, X, N, Y, s))
<1>1. q \in Seq(PlugLines)
  BY DEF PlugTemplate
<1>2. PICK f : f = Format(q, v)  OBVIOUS
<1>3. /\ f \in Seq(PlugLines \X {v}) /\ DOMAIN f = DOMAIN q
      /\ \A i \in DOMAIN q : f[i] = <<q[i], v>>
  BY <1>1, <1>2, FormatIs
<1>4. ASSUME NEW i \in DOMAIN f
      PROVE  f[i] \in Permitted(d, X, N, Y, s)
  <2>1. PICK line \in PlugLines : line = q[i] /\ f[i] = <<line, v>>
    BY <1>1, <1>3
  <2>2. line = "native_v" => d \notin {"nvue", "nxos"}
    BY <1>3, <2>1 DEF PlugTemplate, Has
  <2>3. QED  BY <2>1, <2>2 DEF Permitted, PlugLines, Lines
<1>5. QED  BY <1>2, <1>3, <1>4, SeqIn

\* A template is permitted when its commands are.
LEMMA LinesPermitted ==
  ASSUME NEW L, NEW q \in Seq(L), NEW v, NEW d, NEW X, NEW N, NEW Y, NEW s,
         \A i \in DOMAIN q : <<q[i], v>> \in Permitted(d, X, N, Y, s)
  PROVE  Format(q, v) \in Seq(Permitted(d, X, N, Y, s))
<1>1. PICK f : f = Format(q, v)  OBVIOUS
<1>2. /\ f \in Seq(L \X {v}) /\ DOMAIN f = DOMAIN q
      /\ \A i \in DOMAIN q : f[i] = <<q[i], v>>
  BY ONLY <1>1, FormatIs, q \in Seq(L)
<1>3. QED  BY <1>1, <1>2, SeqIn

\* The unplug template leaves no VLAN.
LEMMA UnplugPermitted ==
  ASSUME NEW d, NEW q, UnplugTemplate(d, q), NEW v \in AllVlans,
         NEW X, NEW N, NEW Y, NEW s
  PROVE  Format(q, v) \in Seq(Permitted(d, X, N, Y, s))
<1>1. q \in Seq(UnplugLines)
  BY DEF UnplugTemplate
<1>2. \A line \in UnplugLines : <<line, v>> \in Permitted(d, X, N, Y, s)
  BY DEF Permitted, UnplugLines, Removers, Lines
<1>3. QED  BY <1>1, <1>2, LinesPermitted

\* The template for the native VLAN leaves it untagged, native and tagged.
LEMMA NativePermitted ==
  ASSUME NEW d, NEW q, NativeTemplate(d, q), NEW v \in AllVlans,
         NEW X, v \in X, NEW N, d # "nxos" => v \in N, NEW Y, v \in Y, NEW s
  PROVE  Format(q, v) \in Seq(Permitted(d, X, N, Y, s))
<1>1. q \in Seq(NativeLines)
  BY DEF NativeTemplate
<1>2. ASSUME NEW i \in DOMAIN q
      PROVE  <<q[i], v>> \in Permitted(d, X, N, Y, s)
  <2>1. PICK line \in NativeLines : line = q[i]
    BY <1>1
  <2>2. d \in {"arista", "ios", "nvue", "os10", "ovs"}
    BY DEF NativeTemplate
  <2>3. line = "trunk_mode" => d \in {"arista", "ios", "nvue"}
    BY <2>1, <2>2 DEF NativeTemplate, Has
  <2>4. QED  BY <2>1, <2>2, <2>3 DEF Permitted, NativeLines, Lines, TrunkMode
<1>3. QED  BY <1>1, <1>2, LinesPermitted

\* The template for a tagged VLAN leaves it tagged.
LEMMA TrunkPermitted ==
  ASSUME NEW d, NEW q, NEW kinds, TrunkTemplate(d, q, kinds),
         NEW v \in AllVlans, NEW X, NEW N, NEW Y, v \in Y, NEW s
  PROVE  /\ \A i \in DOMAIN q : <<q[i], v>> \in Permitted(d, X, N, Y, s)
         /\ Format(q, v) \in Seq(Permitted(d, X, N, Y, s))
<1>1. q \in Seq(TrunkLines)
  BY DEF TrunkTemplate
<1>2. ASSUME NEW i \in DOMAIN q
      PROVE  <<q[i], v>> \in Permitted(d, X, N, Y, s)
  <2>1. PICK line \in TrunkLines : line = q[i]
    BY <1>1
  <2>3. line = "trunk_mode" => d \in TrunkMode
    BY <2>1 DEF TrunkTemplate, Has, TrunkMode
  <2>4. QED  BY <2>1, <2>3 DEF Permitted, TrunkLines, Lines
<1>3. QED  BY <1>1, <1>2, LinesPermitted

\* The template that removes one leaves no VLAN.
LEMMA UntrunkPermitted ==
  ASSUME NEW q, NEW kinds, UntrunkTemplate(q, kinds), NEW v \in AllVlans,
         NEW d, NEW X, NEW N, NEW Y, NEW s
  PROVE  Format(q, v) \in Seq(Permitted(d, X, N, Y, s))
<1>1. q \in Seq(UntrunkLines)
  BY DEF UntrunkTemplate
<1>2. \A line \in UntrunkLines : <<line, v>> \in Permitted(d, X, N, Y, s)
  BY DEF Permitted, UntrunkLines, Lines
<1>3. QED  BY <1>1, <1>2, LinesPermitted

\* The port is shut down where s allows it.
LEMMA DownPermitted ==
  ASSUME NEW v \in AllVlans, NEW d, NEW X, NEW N, NEW Y, NEW s, s
  PROVE  Format(<<"down">>, v) \in Seq(Permitted(d, X, N, Y, s))
<1>1. PICK q : q = <<"down">>  OBVIOUS
<1>2. q \in Seq({"down"}) /\ \A i \in DOMAIN q : q[i] = "down"
  BY <1>1
<1>3. <<"down", v>> \in Permitted(d, X, N, Y, s)
  BY DEF Permitted, Lines
<1>4. QED  BY <1>1, <1>2, <1>3, LinesPermitted

\* The port may always be enabled.
LEMMA UpPermitted ==
  ASSUME NEW v \in AllVlans, NEW d, NEW X, NEW N, NEW Y, NEW s
  PROVE  Format(<<"up">>, v) \in Seq(Permitted(d, X, N, Y, s))
<1>1. PICK q : q = <<"up">>  OBVIOUS
<1>2. q \in Seq({"up"}) /\ \A i \in DOMAIN q : q[i] = "up"
  BY <1>1
<1>3. <<"up", v>> \in Permitted(d, X, N, Y, s)
  BY DEF Permitted, Lines
<1>4. QED  BY <1>1, <1>2, <1>3, LinesPermitted

-----------------------------------------------------------------------------
(* The lists of plug and unplug.                                           *)

\* The VLAN of ports that are free.
Spare == IF scenario.default THEN {DefaultVlan} ELSE {}

\* What a scenario is made of.
LEMMA DriverIsGood ==
  ASSUME scenario \in Scenarios
  PROVE  /\ scenario.driver \in Drivers /\ Good(scenario.driver, Driver)
         /\ scenario.overlay \in DOMAIN Overlays
         /\ scenario.kind \in AnyPort /\ scenario.vlans \subseteq Vlans
         /\ scenario.default \in BOOLEAN /\ scenario.trunks \in BOOLEAN
         /\ scenario.faults \in BOOLEAN /\ Shuts \in BOOLEAN
         /\ \/ scenario.overlay = "none"
            \/ <<scenario.driver, scenario.overlay>> \in OverlayDrivers
<1>1. scenario \in AllScenarios
  BY SwitchAssumption
<1>2. /\ scenario.driver \in Drivers /\ scenario.overlay \in DOMAIN Overlays
      /\ scenario.kind \in AnyPort /\ scenario.vlans \subseteq Vlans
      /\ scenario.default \in BOOLEAN /\ scenario.trunks \in BOOLEAN
      /\ scenario.faults \in BOOLEAN /\ scenario.shuts \in BOOLEAN
  BY <1>1 DEF AllScenarios
<1>3. Good(scenario.driver, Driver)
  BY <1>2, TemplatesAreGood DEF Driver
<1>4. Shuts \in BOOLEAN
  BY <1>2 DEF Shuts
<1>5. \/ scenario.overlay = "none"
      \/ <<scenario.driver, scenario.overlay>> \in OverlayDrivers
  BY SwitchAssumption
<1>6. QED  BY <1>2, <1>3, <1>4, <1>5

\* There are finitely many VLANs, so SetToSeq lists any of them.
LEMMA VlansAreFinite ==
  ASSUME NEW S \in SUBSET AllVlans
  PROVE  IsFiniteSet(S)
<1>1. IsFiniteSet({DefaultVlan})
  BY FS_Singleton
<1>2. IsFiniteSet(AllVlans)
  BY <1>1, VlanAssumption, FS_Union DEF AllVlans
<1>3. QED  BY <1>2, FS_Subset

\* An unplug leaves nothing but the default VLAN.
LEMMA UnplugMay ==
  ASSUME scenario \in Scenarios, NEW v \in AllVlans,
         NEW X, Spare \subseteq X,
         NEW N, scenario.driver \notin {"nvue", "nxos"} => Spare \subseteq N,
         NEW Y, NEW s, Shuts => s
  PROVE  UnplugCommands(v) \in Seq(Permitted(scenario.driver, X, N, Y, s))
<1> DEFINE A == Permitted(scenario.driver, X, N, Y, s)
<1>1. UnplugTemplate(scenario.driver, Driver.unplug)
      /\ PlugTemplate(scenario.driver, Driver.plug)
  BY DriverIsGood DEF Good
<1>2. Format(Driver.unplug, v) \in Seq(A)
  BY <1>1, UnplugPermitted
<1>3. ASSUME scenario.default
      PROVE  Format(Driver.plug, DefaultVlan) \in Seq(A)
  <2>1. DefaultVlan \in AllVlans /\ DefaultVlan \in Spare
    BY <1>3 DEF AllVlans, Spare
  <2>2. QED  BY <1>1, <2>1, PlugPermitted
<1>4. When(scenario.default, Format(Driver.plug, DefaultVlan)) \in Seq(A)
  BY <1>3, WhenIs
<1>5. When(Shuts, Format(<<"down">>, v)) \in Seq(A)
  BY DownPermitted, WhenIs
<1> HIDE DEF A
<1>6. UnplugCommands(v) \in Seq(A)
  BY <1>2, <1>4, <1>5, SeqConcat DEF UnplugCommands
<1>7. QED  BY <1>6 DEF A

\* A plug leaves the VLAN of the port, and those of its subports tagged.
LEMMA PlugMay ==
  ASSUME scenario \in Scenarios, NEW v \in AllVlans, NEW isTrunk \in BOOLEAN,
         NEW vs \in SUBSET AllVlans,
         NEW X, v \in X,
         NEW N, NativeOf(scenario.driver, isTrunk, v) \subseteq N,
         NEW Y, isTrunk => {v} \cup vs \subseteq Y, NEW s
  PROVE  PlugCommands(v, isTrunk, vs)
           \in Seq(Permitted(scenario.driver, X, N, Y, s))
<1> DEFINE A == Permitted(scenario.driver, X, N, Y, s)
<1>1. /\ UnplugTemplate(scenario.driver, Driver.unplug)
      /\ PlugTemplate(scenario.driver, Driver.plug)
      /\ NativeTemplate(scenario.driver, Driver.native)
      /\ TrunkTemplate(scenario.driver, Driver.trunk, Driver.trunks)
  BY DriverIsGood DEF Good
<1>2. When(Shuts, Format(<<"up">>, v)) \in Seq(A)
  BY UpPermitted, WhenIs
<1>3. DefaultVlan \in AllVlans
  BY DEF AllVlans
<1>4. When(scenario.default, Format(Driver.unplug, DefaultVlan)) \in Seq(A)
  BY <1>1, <1>3, UnplugPermitted, WhenIs
<1>5. ASSUME ~isTrunk
      PROVE  Format(Driver.plug, v) \in Seq(A)
  <2>1. scenario.driver \notin {"nvue", "nxos"} => v \in N
    BY <1>5 DEF NativeOf
  <2>2. QED  BY <1>1, <2>1, PlugPermitted
<1>6. ASSUME isTrunk
      PROVE  Format(Driver.native, v) \o FormatEach(Driver.trunk, vs)
               \in Seq(A)
  <2>1. scenario.driver # "nxos" => v \in N
    BY <1>6 DEF NativeOf
  <2>2. Format(Driver.native, v) \in Seq(A)
    BY <1>1, <1>6, <2>1, NativePermitted
  <2>3. Driver.trunk \in Seq(TrunkLines) /\ IsFiniteSet(vs)
    BY <1>1, VlansAreFinite DEF TrunkTemplate
  <2>4. Driver.trunk \in Seq({line \in TrunkLines : Has(Driver.trunk, line)})
    <3>1. PICK q : q = Driver.trunk  OBVIOUS
    <3>2. q \in Seq({line \in TrunkLines : Has(q, line)})
      <4>1. q \in Seq(TrunkLines)
        BY <2>3, <3>1
      <4>2. QED  BY ONLY <4>1 DEF Has
    <3>3. QED  BY <3>1, <3>2
  <2>5. FormatEach(Driver.trunk, vs)
          \in Seq({line \in TrunkLines : Has(Driver.trunk, line)} \X vs)
    BY <2>3, <2>4, FormatEachIs
  <2>6. {line \in TrunkLines : Has(Driver.trunk, line)} \X vs \subseteq A
    <3>1. SUFFICES ASSUME NEW w \in vs, NEW i \in DOMAIN Driver.trunk
                   PROVE  <<Driver.trunk[i], w>> \in A
      BY DEF Has
    <3>2. w \in AllVlans /\ w \in Y
      BY <1>6
    <3>3. QED  BY <1>1, <3>2, TrunkPermitted
  <2>7. FormatEach(Driver.trunk, vs) \in Seq(A)
    BY <2>5, <2>6, SeqMono
  <2> HIDE DEF A
  <2>8. QED  BY <2>2, <2>7, SeqConcat
<1> HIDE DEF A
<1>7. (IF isTrunk THEN Format(Driver.native, v) \o FormatEach(Driver.trunk, vs)
                  ELSE Format(Driver.plug, v)) \in Seq(A)
  BY <1>5, <1>6
<1>8. PlugCommands(v, isTrunk, vs) \in Seq(A)
  BY <1>2, <1>4, <1>7, SeqConcat DEF PlugCommands
<1>9. QED  BY <1>8 DEF A

\* Taking a Brocade port out of the VLAN it is found in leaves the default
\* VLAN at most.
LEMMA CleanMay ==
  ASSUME TypeOK, NEW p \in Ports,
         NEW X, Spare \subseteq X,
         NEW N, scenario.driver \notin {"nvue", "nxos"} => Spare \subseteq N,
         NEW Y, NEW s, Shuts => s
  PROVE  CleanCommands(p) \in Seq(Permitted(scenario.driver, X, N, Y, s))
<1> DEFINE A == Permitted(scenario.driver, X, N, Y, s)
           S == port[p].access
           ss == [i \in 1..Cardinality(S) |-> UnplugCommands(SetToSeq(S)[i])]
<1>1. scenario \in Scenarios /\ S \in SUBSET AllVlans
  BY DEF TypeOK, PortConfigs
<1>2. /\ Cardinality(S) \in Nat
      /\ SetToSeq(S) \in [1..Cardinality(S) -> S]
  BY <1>1, VlansAreFinite, AllInSeq
<1>3. \A v \in S : UnplugCommands(v) \in Seq(A)
  BY <1>1, UnplugMay
<1> HIDE DEF A, S
<1>4. \A i \in 1..Cardinality(S) : UnplugCommands(SetToSeq(S)[i]) \in Seq(A)
  BY <1>2, <1>3
<1>5. ss \in Seq(Seq(A))
  BY <1>2, <1>4
<1>6. CleanCommands(p) = When(scenario.driver = "brocade", FlattenSeq(ss))
  BY DEF CleanCommands, S
<1> HIDE DEF ss
<1>7. FlattenSeq(ss) \in Seq(A)
  BY <1>5, FlattenIs
<1>8. CleanCommands(p) \in Seq(A)
  BY <1>6, <1>7, WhenIs
<1>9. QED  BY <1>8 DEF A

-----------------------------------------------------------------------------
(* What a whole call brings about.                                         *)

\* LineIs, for a command as a pair.
LEMMA Step ==
  ASSUME NEW a \in Lines \X AllVlans, NEW c \in PortConfigs
  PROVE  LineEffect(a[1], a[2], c, Does(c, a)) /\ Does(c, a) \in PortConfigs
<1>1. PICK line \in Lines, v \in AllVlans : a = <<line, v>>
  OBVIOUS
<1>2. LineEffect(line, v, c, Does(c, a))
  BY <1>1, LineIs
<1>3. QED  BY <1>1, <1>2 DEF LineEffect

\* What the first of two lists has.
LEMMA HasLeft ==
  ASSUME NEW A, NEW p \in Seq(A), NEW q \in Seq(A), NEW a, Has(p, a)
  PROVE  Has(p \o q, a)
BY DEF Has

\* What the second of two lists has.
LEMMA HasRight ==
  ASSUME NEW A, NEW p \in Seq(A), NEW q \in Seq(A), NEW a, Has(q, a)
  PROVE  Has(p \o q, a)
<1>1. PICK i \in DOMAIN q : q[i] = a
  BY DEF Has
<1>2. Len(p) + i \in DOMAIN (p \o q) /\ (p \o q)[Len(p) + i] = a
  BY <1>1
<1>3. QED  BY <1>2 DEF Has

\* What a template for a VLAN has.
LEMMA HasFormat ==
  ASSUME NEW L, NEW q \in Seq(L), NEW line, Has(q, line), NEW v
  PROVE  Has(Format(q, v), <<line, v>>)
<1>1. PICK f : f = Format(q, v)  OBVIOUS
<1>2. DOMAIN f = DOMAIN q /\ \A i \in DOMAIN q : f[i] = <<q[i], v>>
  <2>1. /\ f \in Seq(L \X {v}) /\ DOMAIN f = DOMAIN q
        /\ \A i \in DOMAIN q : f[i] = <<q[i], v>>
    BY ONLY <1>1, q \in Seq(L), FormatIs
  <2>2. QED  BY <2>1
<1>3. QED  BY <1>1, <1>2 DEF Has

\* What a template for several VLANs has.
LEMMA HasEach ==
  ASSUME NEW L, NEW q \in Seq(L), NEW line, Has(q, line),
         NEW vs, IsFiniteSet(vs), NEW v \in vs
  PROVE  Has(FormatEach(q, vs), <<line, v>>)
<1>1. PICK i \in DOMAIN q : q[i] = line
  BY DEF Has
<1>2. Has(FormatEach(q, vs), <<q[i], v>>)
  BY FormatEachIs
<1>3. QED  BY <1>1, <1>2

\* An interface ends in C when the list has a command that brings about C and
\* all of them keep it, whatever the interface was.
LEMMA Ends ==
  ASSUME NEW A, A \subseteq Lines \X AllVlans, NEW q \in Seq(A),
         NEW C, C \subseteq PortConfigs, NEW c \in PortConfigs,
         \A d \in C, a \in A : Does(d, a) \in C,
         NEW b, Has(q, b), \A d \in PortConfigs : Does(d, b) \in C
  PROVE  After(c, q) \in C
<1>1. PICK k \in DOMAIN q : q[k] = b
  BY DEF Has
<1>2. \A d \in PortConfigs, a \in A : Does(d, a) \in PortConfigs
  BY Step
<1>3. \A d \in PortConfigs : Does(d, q[k]) \in C
  BY <1>1
<1>4. QED  BY <1>2, <1>3, Reaches

\* A whole unplug takes the port out of its VLAN, and clears what the drivers
\* of ClearsTrunks clear.
LEMMA UnplugEffect ==
  ASSUME scenario \in Scenarios, NEW v \in Vlans, NEW c \in PortConfigs
  PROVE  LET e == After(c, UnplugCommands(v))
         IN  /\ v \notin e.access
             /\ scenario.driver \in ClearsTrunks => e.tagged = {}
             /\ scenario.driver = "nvue" => e.native = {}
<1> DEFINE N == IF scenario.driver \in {"nvue", "nxos"} THEN {} ELSE Spare
           A == Permitted(scenario.driver, Spare, N, {}, Shuts)
           u == Driver.unplug
           cmds == UnplugCommands(v)
<1>1. v \in AllVlans /\ v \notin Spare
  BY VlanAssumption DEF AllVlans, Spare
<1>2. cmds \in Seq(A)
  <2>1. UnplugCommands(v) \in Seq(A)
    BY <1>1, UnplugMay
  <2>2. QED  BY <2>1
<1>3. UnplugTemplate(scenario.driver, u)
  BY DriverIsGood DEF Good
<1>4. ASSUME NEW line \in UnplugLines, Has(u, line)
      PROVE  Has(cmds, <<line, v>>)
  <2> DEFINE p1 == Format(u, v)
             p2 == When(scenario.default, Format(Driver.plug, DefaultVlan))
             p3 == When(Shuts, Format(<<"down">>, v))
  <2>1. p1 \in Seq(A)
    BY <1>1, <1>3, UnplugPermitted
  <2>2. p2 \in Seq(A)
    <3>1. ASSUME scenario.default
          PROVE  Format(Driver.plug, DefaultVlan) \in Seq(A)
      <4>1. DefaultVlan \in AllVlans /\ DefaultVlan \in Spare
        BY <3>1 DEF AllVlans, Spare
      <4>2. PlugTemplate(scenario.driver, Driver.plug)
        BY DriverIsGood DEF Good
      <4>3. QED  BY <4>1, <4>2, PlugPermitted
    <3>2. QED  BY <3>1, WhenIs
  <2>3. p3 \in Seq(A)
    BY <1>1, DownPermitted, WhenIs
  <2>4. Has(p1, <<line, v>>)
    BY <1>3, <1>4, HasFormat DEF UnplugTemplate
  <2>5. cmds = p1 \o p2 \o p3
    BY DEF UnplugCommands
  <2> HIDE DEF p1, p2, p3, A, cmds
  <2>6. Has(p1 \o p2, <<line, v>>) /\ p1 \o p2 \in Seq(A)
    BY <2>1, <2>2, <2>4, HasLeft, SeqConcat
  <2>7. QED  BY <2>3, <2>5, <2>6, HasLeft
<1>5. A \subseteq Lines \X AllVlans
  BY DEF Permitted
<1>6. ASSUME NEW a \in A
      PROVE  /\ a[1] \in {"access_v", "untag_v"} => a[2] \in Spare
             /\ a[1] = "native_v" => a[2] \in N
             /\ a[1] # "tag_v"
  BY DEF Permitted
<1> HIDE DEF A, cmds
<1>7. v \notin After(c, cmds).access
  <2> DEFINE C == {d \in PortConfigs : v \notin d.access}
  <2>1. ASSUME NEW d \in C, NEW a \in A
        PROVE  Does(d, a) \in C
    <3>1. LineEffect(a[1], a[2], d, Does(d, a))
      BY <1>5, Step
    <3>2. QED  BY ONLY <3>1, <1>1, <1>6, a \in A, d \in C DEF LineEffect
  <2>2. PICK line \in Removers : Has(u, line)
    BY <1>3 DEF UnplugTemplate, Has
  <2>3. Has(cmds, <<line, v>>)
    BY <1>4, <2>2 DEF UnplugLines
  <2>4. ASSUME NEW d \in PortConfigs
        PROVE  Does(d, <<line, v>>) \in C
    <3>1. LineEffect(line, v, d, Does(d, <<line, v>>))
      BY <1>1, LineIs DEF Lines, Removers
    <3>2. QED  BY ONLY <3>1, line \in Removers DEF LineEffect, Removers
  <2>5. C \subseteq PortConfigs
    OBVIOUS
  <2> HIDE DEF C
  <2>6. After(c, cmds) \in C
    BY <1>2, <1>5, <2>1, <2>3, <2>4, <2>5, Ends
  <2>7. QED  BY <2>6 DEF C
<1>8. ASSUME scenario.driver \in ClearsTrunks
      PROVE  After(c, cmds).tagged = {}
  <2> DEFINE C == {d \in PortConfigs : d.tagged = {}}
  <2>1. ASSUME NEW d \in C, NEW a \in A
        PROVE  Does(d, a) \in C
    <3>1. LineEffect(a[1], a[2], d, Does(d, a))
      BY <1>5, Step
    <3>2. QED  BY ONLY <3>1, <1>6, a \in A, d \in C DEF LineEffect
  <2>3. Has(cmds, <<"no_tags", v>>)
    BY <1>3, <1>4, <1>8 DEF UnplugLines, UnplugTemplate
  <2>4. ASSUME NEW d \in PortConfigs
        PROVE  Does(d, <<"no_tags", v>>) \in C
    <3>1. LineEffect("no_tags", v, d, Does(d, <<"no_tags", v>>))
      BY <1>1, LineIs DEF Lines
    <3>2. QED  BY ONLY <3>1 DEF LineEffect
  <2>5. C \subseteq PortConfigs
    OBVIOUS
  <2> HIDE DEF C
  <2>6. After(c, cmds) \in C
    BY <1>2, <1>5, <2>1, <2>3, <2>4, <2>5, Ends
  <2>7. QED  BY <2>6 DEF C
<1>9. ASSUME scenario.driver = "nvue"
      PROVE  After(c, cmds).native = {}
  <2> DEFINE C == {d \in PortConfigs : d.native = {}}
  <2>1. ASSUME NEW d \in C, NEW a \in A
        PROVE  Does(d, a) \in C
    <3>1. LineEffect(a[1], a[2], d, Does(d, a))
      BY <1>5, Step
    <3>2. a[1] # "native_v"
      BY <1>6, <1>9
    <3>3. QED  BY ONLY <3>1, <3>2, d \in C DEF LineEffect
  <2>3. Has(cmds, <<"no_native", v>>)
    BY <1>3, <1>4, <1>9 DEF UnplugLines, UnplugTemplate
  <2>4. ASSUME NEW d \in PortConfigs
        PROVE  Does(d, <<"no_native", v>>) \in C
    <3>1. LineEffect("no_native", v, d, Does(d, <<"no_native", v>>))
      BY <1>1, LineIs DEF Lines
    <3>2. QED  BY ONLY <3>1 DEF LineEffect
  <2>5. C \subseteq PortConfigs
    OBVIOUS
  <2> HIDE DEF C
  <2>6. After(c, cmds) \in C
    BY <1>2, <1>5, <2>1, <2>3, <2>4, <2>5, Ends
  <2>7. QED  BY <2>6 DEF C
<1>10. QED  BY <1>7, <1>8, <1>9 DEF cmds

-----------------------------------------------------------------------------
(* Plugging a port.                                                        *)

\* The first part of a plug: the port is enabled, and out of the default VLAN.
Before(v) ==
  When(Shuts, Format(<<"up">>, v))
    \o When(scenario.default, Format(Driver.unplug, DefaultVlan))

\* The second part: into the VLANs it is for.
Joins(v, isTrunk, vs) ==
  IF isTrunk
    THEN Format(Driver.native, v) \o FormatEach(Driver.trunk, vs)
    ELSE Format(Driver.plug, v)

\* The first part has the commands it is for.
LEMMA BeforeIs ==
  ASSUME scenario \in Scenarios, NEW v \in AllVlans,
         NEW X, NEW N, NEW Y, NEW s
  PROVE  /\ Before(v) \in Seq(Permitted(scenario.driver, X, N, Y, s))
         /\ Shuts => Has(Before(v), <<"up", v>>)
         /\ scenario.default =>
              \E line \in Removers : Has(Before(v), <<line, DefaultVlan>>)
<1> DEFINE A == Permitted(scenario.driver, X, N, Y, s)
           p == When(Shuts, Format(<<"up">>, v))
           q == When(scenario.default, Format(Driver.unplug, DefaultVlan))
<1>1. p \in Seq(A)
  BY UpPermitted, WhenIs
<1>2. UnplugTemplate(scenario.driver, Driver.unplug)
  BY DriverIsGood DEF Good
<1>3. DefaultVlan \in AllVlans
  BY DEF AllVlans
<1>4. q \in Seq(A)
  BY <1>2, <1>3, UnplugPermitted, WhenIs
<1>5. Shuts => Has(p, <<"up", v>>)
  <2>1. PICK u : u = <<"up">>  OBVIOUS
  <2>2. u \in Seq({"up"}) /\ Has(u, "up")
    BY <2>1 DEF Has
  <2>3. Has(Format(u, v), <<"up", v>>)
    BY <2>2, HasFormat
  <2>4. QED  BY <2>1, <2>3 DEF When
<1>6. scenario.default => \E line \in Removers : Has(q, <<line, DefaultVlan>>)
  <2>1. Driver.unplug \in Seq(UnplugLines)
    BY <1>2 DEF UnplugTemplate
  <2>2. PICK line \in Removers : Has(Driver.unplug, line)
    BY <1>2 DEF UnplugTemplate, Has
  <2>3. Has(Format(Driver.unplug, DefaultVlan), <<line, DefaultVlan>>)
    BY <2>1, <2>2, HasFormat
  <2>4. QED  BY <2>2, <2>3 DEF When
<1>7. Before(v) = p \o q
  BY DEF Before
<1> HIDE DEF A, p, q
<1>8. p \o q \in Seq(A)
  BY <1>1, <1>4, SeqConcat
<1>9. Shuts => Has(p \o q, <<"up", v>>)
  BY <1>1, <1>4, <1>5, HasLeft
<1>10. scenario.default =>
         \E line \in Removers : Has(p \o q, <<line, DefaultVlan>>)
  BY <1>1, <1>4, <1>6, HasRight
<1>11. QED  BY <1>7, <1>8, <1>9, <1>10 DEF A

\* The second part is a list of commands.
LEMMA JoinsAre ==
  ASSUME scenario \in Scenarios, NEW v \in AllVlans, NEW isTrunk \in BOOLEAN,
         NEW vs \in SUBSET AllVlans
  PROVE  Joins(v, isTrunk, vs) \in Seq(Lines \X AllVlans)
<1>1. /\ Driver.plug \in Seq(PlugLines)
      /\ Driver.native \in Seq(NativeLines)
      /\ Driver.trunk \in Seq(TrunkLines)
  BY DriverIsGood DEF Good, PlugTemplate, NativeTemplate, TrunkTemplate
<1>2. Format(Driver.plug, v) \in Seq(Lines \X AllVlans)
  <2>1. Format(Driver.plug, v) \in Seq(PlugLines \X {v})
    BY <1>1, FormatIs
  <2>2. PlugLines \X {v} \subseteq Lines \X AllVlans
    BY DEF PlugLines, Lines
  <2>3. QED  BY <2>1, <2>2, SeqMono
<1>3. Format(Driver.native, v) \in Seq(Lines \X AllVlans)
  <2>1. Format(Driver.native, v) \in Seq(NativeLines \X {v})
    BY <1>1, FormatIs
  <2>2. NativeLines \X {v} \subseteq Lines \X AllVlans
    BY DEF NativeLines, Lines
  <2>3. QED  BY <2>1, <2>2, SeqMono
<1>4. FormatEach(Driver.trunk, vs) \in Seq(Lines \X AllVlans)
  <2>1. FormatEach(Driver.trunk, vs) \in Seq(TrunkLines \X vs)
    BY <1>1, VlansAreFinite, FormatEachIs
  <2>2. TrunkLines \X vs \subseteq Lines \X AllVlans
    BY DEF TrunkLines, Lines
  <2>3. QED  BY <2>1, <2>2, SeqMono
<1>5. Format(Driver.native, v) \o FormatEach(Driver.trunk, vs)
        \in Seq(Lines \X AllVlans)
  BY <1>3, <1>4, SeqConcat
<1>6. QED  BY <1>2, <1>5 DEF Joins

\* A whole plug leaves the port enabled and out of the default VLAN.
LEMMA PlugClears ==
  ASSUME scenario \in Scenarios, NEW v \in Vlans, NEW isTrunk \in BOOLEAN,
         NEW vs \in SUBSET Vlans, NEW c \in PortConfigs, Shuts \/ c.up,
         c.mode = "trunk" => scenario.driver \in TrunkMode
  PROVE  LET e == After(c, PlugCommands(v, isTrunk, vs))
         IN  /\ scenario.default => DefaultVlan \notin e.access
             /\ e.up
<1> DEFINE A == Permitted(scenario.driver, {v}, {v}, {v} \cup vs, FALSE)
           cmds == PlugCommands(v, isTrunk, vs)
<1>1. /\ v \in AllVlans /\ vs \subseteq AllVlans /\ v # DefaultVlan
      /\ DefaultVlan \in AllVlans
  BY VlanAssumption DEF AllVlans
<1>2. cmds \in Seq(A)
  <2>1. NativeOf(scenario.driver, isTrunk, v) \subseteq {v}
    BY DEF NativeOf
  <2>2. PlugCommands(v, isTrunk, vs) \in Seq(A)
    BY <1>1, <2>1, PlugMay
  <2>3. QED  BY <2>2
<1>3. \A a : Has(Before(v), a) => Has(cmds, a)
  <2>1. Before(v) \in Seq(Lines \X AllVlans)
    <3>1. A \subseteq Lines \X AllVlans
      BY DEF Permitted
    <3>2. Before(v) \in Seq(A)
      BY <1>1, BeforeIs
    <3>3. QED  BY ONLY <3>1, <3>2, SeqMono
  <2>2. cmds \in Seq(Lines \X AllVlans)
    <3>1. A \subseteq Lines \X AllVlans
      BY DEF Permitted
    <3>2. QED  BY ONLY <1>2, <3>1, SeqMono
  <2>3. cmds = Before(v) \o Joins(v, isTrunk, vs)
    BY DEF PlugCommands, Before, Joins
  <2>4. Joins(v, isTrunk, vs) \in Seq(Lines \X AllVlans)
    BY <1>1, JoinsAre
  <2>5. QED  BY <2>1, <2>3, <2>4, HasLeft
<1>4. A \subseteq Lines \X AllVlans
  BY DEF Permitted
<1>5. ASSUME NEW a \in A
      PROVE  /\ a[1] \in {"access_v", "untag_v"} => a[2] = v
             /\ a[1] # "down"
  BY DEF Permitted
<1> HIDE DEF A, cmds
<1>6. ASSUME scenario.default
      PROVE  DefaultVlan \notin After(c, cmds).access
  <2> DEFINE C == {d \in PortConfigs : DefaultVlan \notin d.access}
  <2>1. ASSUME NEW d \in C, NEW a \in A
        PROVE  Does(d, a) \in C
    <3>1. LineEffect(a[1], a[2], d, Does(d, a))
      BY <1>4, Step
    <3>2. QED  BY ONLY <3>1, <1>1, <1>5, a \in A, d \in C DEF LineEffect
  <2>2. PICK line \in Removers : Has(cmds, <<line, DefaultVlan>>)
    BY <1>1, <1>3, <1>6, BeforeIs
  <2>3. ASSUME NEW d \in PortConfigs
        PROVE  Does(d, <<line, DefaultVlan>>) \in C
    <3>1. LineEffect(line, DefaultVlan, d, Does(d, <<line, DefaultVlan>>))
      BY <1>1, LineIs DEF Lines, Removers
    <3>2. QED  BY ONLY <3>1, line \in Removers DEF LineEffect, Removers
  <2>4. C \subseteq PortConfigs
    OBVIOUS
  <2> HIDE DEF C
  <2>5. After(c, cmds) \in C
    BY <1>2, <1>4, <2>1, <2>2, <2>3, <2>4, Ends
  <2>6. QED  BY <2>5 DEF C
<1>7. After(c, cmds).up
  <2> DEFINE C == {d \in PortConfigs : d.up}
  <2>1. ASSUME NEW d \in C, NEW a \in A
        PROVE  Does(d, a) \in C
    <3>1. LineEffect(a[1], a[2], d, Does(d, a))
      BY <1>4, Step
    <3>2. QED  BY ONLY <3>1, <1>5, a \in A, d \in C DEF LineEffect
  <2>2. C \subseteq PortConfigs
    OBVIOUS
  <2>3. CASE Shuts
    <3>1. Has(cmds, <<"up", v>>)
      BY <1>1, <1>3, <2>3, BeforeIs
    <3>2. ASSUME NEW d \in PortConfigs
          PROVE  Does(d, <<"up", v>>) \in C
      <4>1. LineEffect("up", v, d, Does(d, <<"up", v>>))
        BY <1>1, LineIs DEF Lines
      <4>2. QED  BY ONLY <4>1 DEF LineEffect
    <3> HIDE DEF C
    <3>3. After(c, cmds) \in C
      BY <1>2, <1>4, <2>1, <2>2, <3>1, <3>2, Ends
    <3>4. QED  BY <3>3 DEF C
  <2>4. CASE ~Shuts
    <3>1. c \in C
      BY <2>4
    <3> HIDE DEF C
    <3>2. After(c, cmds) \in C
      BY <1>2, <2>1, <3>1, Keeps
    <3>3. QED  BY <3>2 DEF C
  <2>5. QED  BY <2>3, <2>4
<1>8. QED  BY <1>6, <1>7 DEF cmds

\* A plug in its two parts.
LEMMA PlugInTwo ==
  ASSUME scenario \in Scenarios, NEW v \in Vlans, NEW isTrunk \in BOOLEAN,
         NEW vs \in SUBSET Vlans, NEW c \in PortConfigs,
         c.mode = "trunk" => scenario.driver \in TrunkMode
  PROVE  \E b \in PortConfigs :
           /\ b.mode = "trunk" => scenario.driver \in TrunkMode
           /\ After(c, PlugCommands(v, isTrunk, vs))
                = After(b, Joins(v, isTrunk, vs))
<1> DEFINE A == Permitted(scenario.driver, {}, {}, {}, TRUE)
           b == After(c, Before(v))
<1>1. v \in AllVlans /\ vs \subseteq AllVlans
  BY DEF AllVlans
<1>2. Before(v) \in Seq(A)
  BY <1>1, BeforeIs
<1>3. c \in Near(scenario.driver, c, {}, {}, {}, TRUE)
  BY DEF Near
<1>4. b \in Near(scenario.driver, c, {}, {}, {}, TRUE)
  BY <1>2, <1>3, AfterNear
<1>5. b \in PortConfigs /\ (b.mode = "trunk" => scenario.driver \in TrunkMode)
  BY <1>4 DEF Near
<1>6. PlugCommands(v, isTrunk, vs) = Before(v) \o Joins(v, isTrunk, vs)
  BY DEF PlugCommands, Before, Joins
<1>7. Joins(v, isTrunk, vs) \in Seq(Lines \X AllVlans)
  BY <1>1, JoinsAre
<1>8. After(c, PlugCommands(v, isTrunk, vs)) = After(b, Joins(v, isTrunk, vs))
  <2> HIDE DEF A
  <2>1. After(c, Before(v) \o Joins(v, isTrunk, vs))
          = After(After(c, Before(v)), Joins(v, isTrunk, vs))
    BY ONLY <1>2, <1>7, AfterConcat
  <2>2. QED  BY <1>6, <2>1
<1>9. QED  BY <1>5, <1>8

\* A whole plug of an access port.
LEMMA PlugAccess ==
  ASSUME scenario \in Scenarios, NEW v \in Vlans, NEW vs \in SUBSET Vlans,
         NEW c \in PortConfigs,
         c.mode = "trunk" => scenario.driver \in TrunkMode
  PROVE  LET e == After(c, PlugCommands(v, FALSE, vs))
         IN  /\ e.mode # "trunk"
             /\ v \in e.access
             /\ scenario.driver = "nvue" => e.native = {}
<1>1. PICK b \in PortConfigs :
        /\ b.mode = "trunk" => scenario.driver \in TrunkMode
        /\ After(c, PlugCommands(v, FALSE, vs)) = After(b, Joins(v, FALSE, vs))
  BY PlugInTwo
<1>2. PICK q : q = Driver.plug  OBVIOUS
<1>3. PlugTemplate(scenario.driver, q) /\ q \in Seq(PlugLines)
  BY <1>2, DriverIsGood DEF Good, PlugTemplate
<1>4. PICK f : f = Format(q, v)  OBVIOUS
<1>5. /\ f \in Seq(PlugLines \X {v}) /\ DOMAIN f = DOMAIN q
      /\ \A i \in DOMAIN q : f[i] = <<q[i], v>>
  BY ONLY <1>3, <1>4, FormatIs
<1>6. After(c, PlugCommands(v, FALSE, vs)) = After(b, f)
  BY <1>1, <1>2, <1>4 DEF Joins
<1> DEFINE A == PlugLines \X {v}
<1>7. v \in AllVlans /\ A \subseteq Lines \X AllVlans
  BY DEF AllVlans, PlugLines, Lines
<1>8. \A line : Has(q, line) => Has(f, <<line, v>>)
  BY <1>5 DEF Has
<1>9. After(b, f).mode # "trunk"
  <2> DEFINE C == {d \in PortConfigs : d.mode # "trunk"}
  <2>1. ASSUME NEW d \in C, NEW a \in A
        PROVE  Does(d, a) \in C
    <3>1. LineEffect(a[1], a[2], d, Does(d, a))
      BY <1>7, Step
    <3>2. a[1] # "trunk_mode"
      BY DEF PlugLines
    <3>3. QED  BY ONLY <3>1, <3>2, d \in C DEF LineEffect
  <2>2. C \subseteq PortConfigs
    OBVIOUS
  <2>3. CASE scenario.driver \in TrunkMode
    <3>1. Has(f, <<"access_mode", v>>)
      BY <1>3, <1>8, <2>3 DEF PlugTemplate
    <3>2. ASSUME NEW d \in PortConfigs
          PROVE  Does(d, <<"access_mode", v>>) \in C
      <4>1. LineEffect("access_mode", v, d, Does(d, <<"access_mode", v>>))
        BY <1>7, LineIs DEF Lines
      <4>2. QED  BY ONLY <4>1 DEF LineEffect
    <3> HIDE DEF C, A
    <3>3. f \in Seq(A)
      BY <1>5 DEF A
    <3>4. After(b, f) \in C
      BY <1>7, <2>1, <2>2, <3>1, <3>2, <3>3, Ends
    <3>5. QED  BY <3>4 DEF C
  <2>4. CASE scenario.driver \notin TrunkMode
    <3>1. b \in C
      BY <1>1, <2>4
    <3> HIDE DEF C, A
    <3>2. f \in Seq(A)
      BY <1>5 DEF A
    <3>3. After(b, f) \in C
      BY <2>1, <3>1, <3>2, Keeps
    <3>4. QED  BY <3>3 DEF C
  <2>5. QED  BY <2>3, <2>4
<1>10. v \in After(b, f).access
  <2> DEFINE C == {d \in PortConfigs : v \in d.access}
  <2>1. PICK k \in DOMAIN q : /\ q[k] \in {"access_v", "untag_v"}
                              /\ \A j \in DOMAIN q : j > k => q[j] = "native_v"
    BY <1>3 DEF PlugTemplate
  <2>2. ASSUME NEW d \in PortConfigs
        PROVE  Does(d, f[k]) \in C
    <3>1. PICK line \in {"access_v", "untag_v"} : f[k] = <<line, v>>
      BY <1>5, <2>1
    <3>2. LineEffect(line, v, d, Does(d, <<line, v>>))
      BY <1>7, LineIs DEF Lines
    <3>3. QED  BY ONLY <3>1, <3>2 DEF LineEffect
  <2>3. ASSUME NEW j \in DOMAIN f, j > k, NEW d \in C
        PROVE  Does(d, f[j]) \in C
    <3>1. f[j] = <<"native_v", v>>
      BY <1>5, <2>1, <2>3
    <3>2. LineEffect("native_v", v, d, Does(d, <<"native_v", v>>))
      BY <1>7, LineIs DEF Lines
    <3>3. QED  BY ONLY <3>1, <3>2, d \in C DEF LineEffect
  <2>4. C \subseteq PortConfigs /\ f \in Seq(A) /\ k \in DOMAIN f
    BY <1>5
  <2>5. \A d \in PortConfigs, a \in A : Does(d, a) \in PortConfigs
    BY <1>7, Step
  <2> HIDE DEF C, A
  <2>6. After(b, f) \in C
    BY <2>2, <2>3, <2>4, <2>5, Settles
  <2>7. QED  BY <2>6 DEF C
<1>11. ASSUME scenario.driver = "nvue"
       PROVE  After(b, f).native = {}
  <2> DEFINE C == {d \in PortConfigs : d.native = {}}
             B == {a \in A : a[1] # "native_v"}
  <2>1. ASSUME NEW d \in C, NEW a \in B
        PROVE  Does(d, a) \in C
    <3>1. LineEffect(a[1], a[2], d, Does(d, a))
      BY <1>7, Step
    <3>2. QED  BY ONLY <3>1, a \in B, d \in C DEF LineEffect
  <2>2. Has(f, <<"no_native", v>>)
    BY <1>3, <1>8, <1>11 DEF PlugTemplate
  <2>3. ASSUME NEW d \in PortConfigs
        PROVE  Does(d, <<"no_native", v>>) \in C
    <3>1. LineEffect("no_native", v, d, Does(d, <<"no_native", v>>))
      BY <1>7, LineIs DEF Lines
    <3>2. QED  BY ONLY <3>1 DEF LineEffect
  <2>4. f \in Seq(B)
    <3>1. \A i \in DOMAIN q : q[i] # "native_v"
      BY <1>3, <1>11 DEF PlugTemplate, Has
    <3>2. \A i \in DOMAIN f : f[i] \in B
      BY <1>5, <3>1
    <3>3. QED  BY ONLY <1>5, <3>2, SeqIn
  <2>5. C \subseteq PortConfigs /\ B \subseteq Lines \X AllVlans
    BY <1>7
  <2> HIDE DEF C, B, A
  <2>6. After(b, f) \in C
    BY <2>1, <2>2, <2>3, <2>4, <2>5, Ends
  <2>7. QED  BY <2>6 DEF C
<1>12. QED  BY <1>6, <1>9, <1>10, <1>11

\* What the second part of the plug of a trunk is made of.
TrunkSet(d, v) ==
  {a \in NativeLines \X AllVlans :
     /\ a[1] \in {"native_v", "access_v"} => a[2] = v
     /\ d \in {"arista", "ios", "nvue"} => a[1] # "hybrid_mode"
     /\ d \in {"os10", "ovs"} => a[1] \notin {"trunk_mode", "no_access"}}

\* FormatEach, when the commands are of a set.
LEMMA EachIn ==
  ASSUME NEW L, NEW q \in Seq(L), NEW vs, IsFiniteSet(vs), NEW A,
         \A i \in DOMAIN q, w \in vs : <<q[i], w>> \in A
  PROVE  FormatEach(q, vs) \in Seq(A)
<1> DEFINE M == {q[i] : i \in DOMAIN q}
<1>1. q \in Seq(M)
  OBVIOUS
<1>2. M \X vs \subseteq A
  OBVIOUS
<1> HIDE DEF M
<1>3. FormatEach(q, vs) \in Seq(M \X vs)
  BY <1>1, FormatEachIs
<1>4. QED  BY ONLY <1>2, <1>3, SeqMono

\* Format, when the commands are of a set.
LEMMA FormatIn ==
  ASSUME NEW L, NEW q \in Seq(L), NEW v, NEW A,
         \A i \in DOMAIN q : <<q[i], v>> \in A
  PROVE  Format(q, v) \in Seq(A)
<1>1. PICK f : f = Format(q, v)  OBVIOUS
<1>2. /\ f \in Seq(L \X {v}) /\ DOMAIN f = DOMAIN q
      /\ \A i \in DOMAIN q : f[i] = <<q[i], v>>
  BY ONLY <1>1, q \in Seq(L), FormatIs
<1>3. QED  BY <1>1, <1>2, SeqIn

\* A whole plug of the parent of a trunk.
LEMMA PlugTrunk ==
  ASSUME scenario \in Scenarios, NEW v \in Vlans, NEW vs \in SUBSET Vlans,
         NEW c \in PortConfigs,
         c.mode = "trunk" => scenario.driver \in TrunkMode
  PROVE  LET e == After(c, PlugCommands(v, TRUE, vs))
         IN  /\ scenario.driver \in {"arista", "ios", "nvue"} =>
                  e.mode = "trunk" /\ v \in e.native /\ v \in e.tagged
             /\ scenario.driver \in {"os10", "ovs"} =>
                  e.mode = "hybrid" /\ v \in e.access
             /\ Driver.trunks # {} => vs \subseteq e.tagged
<1>1. PICK b \in PortConfigs :
        /\ b.mode = "trunk" => scenario.driver \in TrunkMode
        /\ After(c, PlugCommands(v, TRUE, vs)) = After(b, Joins(v, TRUE, vs))
  BY PlugInTwo
<1>2. PICK q : q = Driver.native  OBVIOUS
<1>3. NativeTemplate(scenario.driver, q) /\ q \in Seq(NativeLines)
  BY <1>2, DriverIsGood DEF Good, NativeTemplate
<1>4. PICK r : r = Driver.trunk  OBVIOUS
<1>5. TrunkTemplate(scenario.driver, r, Driver.trunks) /\ r \in Seq(TrunkLines)
  BY <1>4, DriverIsGood DEF Good, TrunkTemplate
<1>6. v \in AllVlans /\ vs \subseteq AllVlans /\ IsFiniteSet(vs)
  <2>1. v \in AllVlans /\ vs \in SUBSET AllVlans
    BY DEF AllVlans
  <2>2. QED  BY <2>1, VlansAreFinite
<1> DEFINE A == TrunkSet(scenario.driver, v)
<1>7. Format(q, v) \in Seq(A)
  <2>1. ASSUME NEW i \in DOMAIN q
        PROVE  <<q[i], v>> \in A
    <3>1. q[i] \in NativeLines
      BY <1>3
    <3>2. /\ scenario.driver \in {"arista", "ios", "nvue"}
               => q[i] # "hybrid_mode"
          /\ scenario.driver \in {"os10", "ovs"}
               => q[i] \notin {"trunk_mode", "no_access"}
      BY <1>3 DEF NativeTemplate, Has
    <3>3. QED  BY <1>6, <3>1, <3>2 DEF TrunkSet
  <2> HIDE DEF A
  <2>2. QED  BY <1>3, <2>1, FormatIn
<1>8. FormatEach(r, vs) \in Seq(A)
  <2>1. ASSUME NEW i \in DOMAIN r, NEW w \in vs
        PROVE  <<r[i], w>> \in A
    <3>1. r[i] \in TrunkLines
      BY <1>5
    <3>2. /\ scenario.driver \in {"arista", "ios", "nvue"}
               => r[i] # "hybrid_mode"
          /\ scenario.driver \in {"os10", "ovs"}
               => r[i] \notin {"trunk_mode", "no_access"}
      BY <1>5 DEF TrunkTemplate, Has, TrunkMode
    <3>3. QED  BY <1>6, <3>1, <3>2 DEF TrunkSet, TrunkLines, NativeLines
  <2> HIDE DEF A
  <2>2. QED  BY <1>5, <1>6, <2>1, EachIn
<1> DEFINE f == Format(q, v) \o FormatEach(r, vs)
<1>9. After(c, PlugCommands(v, TRUE, vs)) = After(b, f)
  BY <1>1, <1>2, <1>4 DEF Joins
<1>10. A \subseteq Lines \X AllVlans
  BY DEF TrunkSet, NativeLines, Lines
<1>11. ASSUME NEW line, Has(q, line)
       PROVE  Has(f, <<line, v>>)
  <2> HIDE DEF A
  <2>1. Has(Format(q, v), <<line, v>>)
    BY <1>3, <1>11, HasFormat
  <2>2. QED  BY <1>7, <1>8, <2>1, HasLeft
<1>12. ASSUME NEW a \in A
       PROVE  /\ a[1] \in {"native_v", "access_v"} => a[2] = v
              /\ scenario.driver \in {"arista", "ios", "nvue"}
                   => a[1] # "hybrid_mode"
              /\ scenario.driver \in {"os10", "ovs"}
                   => a[1] \notin {"trunk_mode", "no_access"}
              /\ a[1] \in NativeLines /\ a \in Lines \X AllVlans
  BY DEF TrunkSet, NativeLines, Lines
<1>13. f \in Seq(A)
  <2> HIDE DEF A
  <2>1. QED  BY <1>7, <1>8, SeqConcat
<1> HIDE DEF A, f
<1>14. ASSUME scenario.driver \in {"arista", "ios", "nvue"}
       PROVE  After(b, f).mode = "trunk"
  <2> DEFINE C == {d \in PortConfigs : d.mode = "trunk"}
  <2>1. ASSUME NEW d \in C, NEW a \in A
        PROVE  Does(d, a) \in C
    <3>1. LineEffect(a[1], a[2], d, Does(d, a))
      BY <1>12, Step
    <3>2. QED  BY ONLY <3>1, <1>12, <1>14, a \in A, d \in C
               DEF LineEffect, NativeLines
  <2>2. Has(f, <<"trunk_mode", v>>)
    BY <1>3, <1>11, <1>14 DEF NativeTemplate
  <2>3. ASSUME NEW d \in PortConfigs
        PROVE  Does(d, <<"trunk_mode", v>>) \in C
    <3>1. LineEffect("trunk_mode", v, d, Does(d, <<"trunk_mode", v>>))
      BY <1>6, LineIs DEF Lines
    <3>2. QED  BY ONLY <3>1 DEF LineEffect
  <2>4. C \subseteq PortConfigs
    OBVIOUS
  <2> HIDE DEF C
  <2>5. After(b, f) \in C
    BY <1>10, <1>13, <2>1, <2>2, <2>3, <2>4, Ends
  <2>6. QED  BY <2>5 DEF C
<1>15. ASSUME scenario.driver \in {"arista", "ios", "nvue"}
       PROVE  v \in After(b, f).native
  <2> DEFINE C == {d \in PortConfigs : v \in d.native}
  <2>1. ASSUME NEW d \in C, NEW a \in A
        PROVE  Does(d, a) \in C
    <3>1. LineEffect(a[1], a[2], d, Does(d, a))
      BY <1>12, Step
    <3>2. QED  BY ONLY <3>1, <1>12, a \in A, d \in C
               DEF LineEffect, NativeLines
  <2>2. Has(f, <<"native_v", v>>)
    BY <1>3, <1>11, <1>15 DEF NativeTemplate
  <2>3. ASSUME NEW d \in PortConfigs
        PROVE  Does(d, <<"native_v", v>>) \in C
    <3>1. LineEffect("native_v", v, d, Does(d, <<"native_v", v>>))
      BY <1>6, LineIs DEF Lines
    <3>2. QED  BY ONLY <3>1 DEF LineEffect
  <2>4. C \subseteq PortConfigs
    OBVIOUS
  <2> HIDE DEF C
  <2>5. After(b, f) \in C
    BY <1>10, <1>13, <2>1, <2>2, <2>3, <2>4, Ends
  <2>6. QED  BY <2>5 DEF C
<1>16. ASSUME NEW w \in AllVlans, Has(f, <<"tag_v", w>>)
       PROVE  w \in After(b, f).tagged
  <2> DEFINE C == {d \in PortConfigs : w \in d.tagged}
  <2>1. ASSUME NEW d \in C, NEW a \in A
        PROVE  Does(d, a) \in C
    <3>1. LineEffect(a[1], a[2], d, Does(d, a))
      BY <1>12, Step
    <3>2. QED  BY ONLY <3>1, <1>12, a \in A, d \in C
               DEF LineEffect, NativeLines
  <2>2. ASSUME NEW d \in PortConfigs
        PROVE  Does(d, <<"tag_v", w>>) \in C
    <3>1. LineEffect("tag_v", w, d, Does(d, <<"tag_v", w>>))
      BY LineIs DEF Lines
    <3>2. QED  BY ONLY <3>1 DEF LineEffect
  <2>3. C \subseteq PortConfigs
    OBVIOUS
  <2> HIDE DEF C
  <2>4. After(b, f) \in C
    BY <1>10, <1>13, <1>16, <2>1, <2>2, <2>3, Ends
  <2>5. QED  BY <2>4 DEF C
<1>17. ASSUME scenario.driver \in {"arista", "ios", "nvue"}
       PROVE  v \in After(b, f).tagged
  <2>1. Has(f, <<"tag_v", v>>)
    BY <1>3, <1>11, <1>17 DEF NativeTemplate
  <2>2. QED  BY <1>6, <1>16, <2>1
<1>18. ASSUME scenario.driver \in {"os10", "ovs"}
       PROVE  After(b, f).mode = "hybrid"
  <2> DEFINE C == {d \in PortConfigs : d.mode = "hybrid"}
  <2>1. ASSUME NEW d \in C, NEW a \in A
        PROVE  Does(d, a) \in C
    <3>1. LineEffect(a[1], a[2], d, Does(d, a))
      BY <1>12, Step
    <3>2. QED  BY ONLY <3>1, <1>12, <1>18, a \in A, d \in C
               DEF LineEffect, NativeLines
  <2>2. Has(f, <<"hybrid_mode", v>>)
    BY <1>3, <1>11, <1>18 DEF NativeTemplate
  <2>3. ASSUME NEW d \in PortConfigs
        PROVE  Does(d, <<"hybrid_mode", v>>) \in C
    <3>1. LineEffect("hybrid_mode", v, d, Does(d, <<"hybrid_mode", v>>))
      BY <1>6, LineIs DEF Lines
    <3>2. QED  BY ONLY <3>1 DEF LineEffect
  <2>4. C \subseteq PortConfigs
    OBVIOUS
  <2> HIDE DEF C
  <2>5. After(b, f) \in C
    BY <1>10, <1>13, <2>1, <2>2, <2>3, <2>4, Ends
  <2>6. QED  BY <2>5 DEF C
<1>19. ASSUME scenario.driver \in {"os10", "ovs"}
       PROVE  v \in After(b, f).access
  <2> DEFINE C == {d \in PortConfigs : v \in d.access}
  <2>1. ASSUME NEW d \in C, NEW a \in A
        PROVE  Does(d, a) \in C
    <3>1. LineEffect(a[1], a[2], d, Does(d, a))
      BY <1>12, Step
    <3>2. QED  BY ONLY <3>1, <1>12, <1>19, a \in A, d \in C
               DEF LineEffect, NativeLines
  <2>2. Has(f, <<"access_v", v>>)
    BY <1>3, <1>11, <1>19 DEF NativeTemplate
  <2>3. ASSUME NEW d \in PortConfigs
        PROVE  Does(d, <<"access_v", v>>) \in C
    <3>1. LineEffect("access_v", v, d, Does(d, <<"access_v", v>>))
      BY <1>6, LineIs DEF Lines
    <3>2. QED  BY ONLY <3>1 DEF LineEffect
  <2>4. C \subseteq PortConfigs
    OBVIOUS
  <2> HIDE DEF C
  <2>5. After(b, f) \in C
    BY <1>10, <1>13, <2>1, <2>2, <2>3, <2>4, Ends
  <2>6. QED  BY <2>5 DEF C
<1>20. ASSUME Driver.trunks # {}, NEW w \in vs
       PROVE  w \in After(b, f).tagged
  <2>1. Has(r, "tag_v")
    BY <1>5, <1>20 DEF TrunkTemplate
  <2>2. Has(FormatEach(r, vs), <<"tag_v", w>>)
    BY <1>5, <1>6, <2>1, HasEach
  <2>3. Has(f, <<"tag_v", w>>)
    BY <1>7, <1>8, <2>2, HasRight DEF f
  <2>4. QED  BY <1>6, <1>16, <2>3
<1>21. QED
  BY <1>9, <1>14, <1>15, <1>17, <1>18, <1>19, <1>20

-----------------------------------------------------------------------------
(* Subports.                                                               *)

\* The commands that add a subport.
AddSet(d, v) ==
  {a \in TrunkLines \X {v} :
     /\ a[1] = "trunk_mode" => d \in TrunkMode
     /\ a[1] = "hybrid_mode" => d \notin TrunkMode
     /\ d \in {"os10", "ovs"} => a[1] # "no_access"
     /\ d \in {"arista", "sonic", "junos", "ovs"} => a[1] = "tag_v"}

\* What add_subports_on_trunk sends for a subport.
AddCommands(v) ==
  When(scenario.kind \in Driver.trunks, Format(Driver.trunk, v))

\* What del_subports_on_trunk sends for a subport.
DelCommands(v) ==
  When(scenario.kind \in Driver.trunks, Format(Driver.untrunk, v))

\* What adding a subport may make of an interface: the untagged VLANs stay
\* where the driver leaves the mode alone, and no tagged VLAN goes.
Widened(d, c) ==
  {e \in PortConfigs :
     /\ \/ e.mode = c.mode
        \/ d \in TrunkMode /\ e.mode = "trunk"
        \/ d \notin TrunkMode /\ e.mode = "hybrid"
     /\ d \in {"arista", "sonic", "junos", "ovs"} => e.mode = c.mode
     /\ d \in {"os10", "ovs"} => e.access = c.access
     /\ e.native = c.native
     /\ c.tagged \subseteq e.tagged
     /\ e.up = c.up}

\* What deleting subport v may make of an interface: nothing but v goes.
Narrowed(c, v) ==
  {e \in PortConfigs :
     /\ e.mode = c.mode
     /\ c.access \ {v} \subseteq e.access /\ e.access \subseteq c.access
     /\ e.native = c.native
     /\ c.tagged \ {v} \subseteq e.tagged /\ e.tagged \subseteq c.tagged
     /\ e.up = c.up}

\* AddCommands consists of such commands, and tags the VLAN.
LEMMA AddIs ==
  ASSUME scenario \in Scenarios, NEW v \in Vlans
  PROVE  /\ AddCommands(v) \in Seq(AddSet(scenario.driver, v))
         /\ scenario.kind \in Driver.trunks
              => Has(AddCommands(v), <<"tag_v", v>>)
<1>1. PICK q : q = Driver.trunk  OBVIOUS
<1>2. TrunkTemplate(scenario.driver, q, Driver.trunks) /\ q \in Seq(TrunkLines)
  BY <1>1, DriverIsGood DEF Good, TrunkTemplate
<1>3. ASSUME NEW i \in DOMAIN q
      PROVE  <<q[i], v>> \in AddSet(scenario.driver, v)
  <2>1. q[i] \in TrunkLines
    BY <1>2
  <2>2. /\ q[i] = "trunk_mode" => scenario.driver \in TrunkMode
        /\ q[i] = "hybrid_mode" => scenario.driver \notin TrunkMode
        /\ scenario.driver \in {"os10", "ovs"} => q[i] # "no_access"
        /\ scenario.driver \in {"arista", "sonic", "junos", "ovs"}
             => q[i] = "tag_v"
    BY <1>2 DEF TrunkTemplate, Has
  <2>3. QED  BY <2>1, <2>2 DEF AddSet
<1>4. Format(q, v) \in Seq(AddSet(scenario.driver, v))
  BY <1>2, <1>3, FormatIn
<1>5. AddCommands(v) \in Seq(AddSet(scenario.driver, v))
  BY <1>1, <1>4, WhenIs DEF AddCommands
<1>6. ASSUME scenario.kind \in Driver.trunks
      PROVE  Has(AddCommands(v), <<"tag_v", v>>)
  <2>1. Has(q, "tag_v")
    BY <1>2, <1>6 DEF TrunkTemplate
  <2>2. Has(Format(q, v), <<"tag_v", v>>)
    BY <1>2, <2>1, HasFormat
  <2>3. QED  BY <1>1, <1>6, <2>2 DEF AddCommands, When
<1>7. QED  BY <1>5, <1>6

\* A part of it widens.
LEMMA AddKeeps ==
  ASSUME NEW d, NEW v \in Vlans, NEW c \in PortConfigs,
         NEW q \in Seq(AddSet(d, v))
  PROVE  After(c, q) \in Widened(d, c)
<1>1. ASSUME NEW e \in Widened(d, c), NEW a \in AddSet(d, v)
      PROVE  Does(e, a) \in Widened(d, c)
  <2>1. PICK line \in TrunkLines : a = <<line, v>>
    BY DEF AddSet
  <2>2. /\ line = "trunk_mode" => d \in TrunkMode
        /\ line = "hybrid_mode" => d \notin TrunkMode
        /\ d \in {"os10", "ovs"} => line # "no_access"
        /\ d \in {"arista", "sonic", "junos", "ovs"} => line = "tag_v"
    BY <2>1 DEF AddSet
  <2>3. LineEffect(line, v, e, Does(e, a))
    BY <2>1, LineIs DEF Lines, TrunkLines, AllVlans, Widened
  <2>4. QED  BY ONLY <2>2, <2>3, line \in TrunkLines, e \in Widened(d, c)
             DEF LineEffect, Widened, TrunkLines
<1>2. c \in Widened(d, c)
  BY DEF Widened
<1>3. QED  BY <1>1, <1>2, Keeps

\* The whole of it tags the VLAN.
LEMMA AddEffect ==
  ASSUME scenario \in Scenarios, NEW v \in Vlans, NEW c \in PortConfigs,
         scenario.kind \in Driver.trunks
  PROVE  v \in After(c, AddCommands(v)).tagged
<1> DEFINE A == AddSet(scenario.driver, v)
           C == {d \in PortConfigs : v \in d.tagged}
<1>1. v \in AllVlans
  BY DEF AllVlans
<1>2. A \subseteq Lines \X AllVlans /\ \A a \in A : a[1] \in TrunkLines
  BY <1>1 DEF AddSet, TrunkLines, Lines
<1>3. ASSUME NEW d \in C, NEW a \in A
      PROVE  Does(d, a) \in C
  <2>1. LineEffect(a[1], a[2], d, Does(d, a))
    BY <1>2, Step
  <2>2. a[1] \in TrunkLines
    BY <1>2
  <2>3. QED  BY ONLY <2>1, <2>2, d \in C DEF LineEffect, TrunkLines
<1>4. ASSUME NEW d \in PortConfigs
      PROVE  Does(d, <<"tag_v", v>>) \in C
  <2>1. LineEffect("tag_v", v, d, Does(d, <<"tag_v", v>>))
    BY <1>1, LineIs DEF Lines
  <2>2. QED  BY ONLY <2>1 DEF LineEffect
<1>5. C \subseteq PortConfigs
  OBVIOUS
<1>6. AddCommands(v) \in Seq(A) /\ Has(AddCommands(v), <<"tag_v", v>>)
  BY AddIs
<1> HIDE DEF A, C
<1>7. After(c, AddCommands(v)) \in C
  BY <1>2, <1>3, <1>4, <1>5, <1>6, Ends
<1>8. QED  BY <1>7 DEF C

\* DelCommands consists of commands that take the VLAN away.
LEMMA DelIs ==
  ASSUME scenario \in Scenarios, NEW v \in Vlans
  PROVE  /\ DelCommands(v) \in Seq(UntrunkLines \X {v})
         /\ scenario.kind \in Driver.trunks
              => \E line \in UntrunkLines : Has(DelCommands(v), <<line, v>>)
<1>1. PICK q : q = Driver.untrunk  OBVIOUS
<1>2. UntrunkTemplate(q, Driver.trunks) /\ q \in Seq(UntrunkLines)
  BY <1>1, DriverIsGood DEF Good, UntrunkTemplate
<1>3. Format(q, v) \in Seq(UntrunkLines \X {v})
  BY ONLY <1>2, FormatIs
<1>4. DelCommands(v) \in Seq(UntrunkLines \X {v})
  BY <1>1, <1>3, WhenIs DEF DelCommands
<1>5. ASSUME scenario.kind \in Driver.trunks
      PROVE  \E line \in UntrunkLines : Has(DelCommands(v), <<line, v>>)
  <2>1. 1 \in DOMAIN q /\ q[1] \in UntrunkLines
    BY <1>2, <1>5 DEF UntrunkTemplate
  <2>2. Has(q, q[1])
    BY <2>1 DEF Has
  <2>3. Has(Format(q, v), <<q[1], v>>)
    BY <1>2, <2>2, HasFormat
  <2>4. QED  BY <1>1, <1>5, <2>1, <2>3 DEF DelCommands, When
<1>6. QED  BY <1>4, <1>5

\* A part of it narrows.
LEMMA DelKeeps ==
  ASSUME NEW v \in Vlans, NEW c \in PortConfigs,
         NEW q \in Seq(UntrunkLines \X {v})
  PROVE  After(c, q) \in Narrowed(c, v)
<1>1. ASSUME NEW e \in Narrowed(c, v), NEW a \in UntrunkLines \X {v}
      PROVE  Does(e, a) \in Narrowed(c, v)
  <2>1. PICK line \in UntrunkLines : a = <<line, v>>
    OBVIOUS
  <2>2. LineEffect(line, v, e, Does(e, a))
    BY <2>1, LineIs DEF Lines, UntrunkLines, AllVlans, Narrowed
  <2>3. QED  BY ONLY <2>2, line \in UntrunkLines, e \in Narrowed(c, v)
             DEF LineEffect, Narrowed, UntrunkLines
<1>2. c \in Narrowed(c, v)
  BY DEF Narrowed
<1>3. QED  BY <1>1, <1>2, Keeps

\* The whole of it removes the VLAN.
LEMMA DelEffect ==
  ASSUME scenario \in Scenarios, NEW v \in Vlans, NEW c \in PortConfigs,
         scenario.kind \in Driver.trunks
  PROVE  v \notin After(c, DelCommands(v)).tagged
<1> DEFINE A == UntrunkLines \X {v}
           C == {d \in PortConfigs : v \notin d.tagged}
<1>1. v \in AllVlans
  BY DEF AllVlans
<1>2. A \subseteq Lines \X AllVlans /\ \A a \in A : a[1] \in UntrunkLines
  BY <1>1 DEF UntrunkLines, Lines
<1>3. ASSUME NEW d \in C, NEW a \in A
      PROVE  Does(d, a) \in C
  <2>1. LineEffect(a[1], a[2], d, Does(d, a))
    BY <1>2, Step
  <2>2. a[1] \in UntrunkLines
    BY <1>2
  <2>3. QED  BY ONLY <2>1, <2>2, d \in C DEF LineEffect, UntrunkLines
<1>4. ASSUME NEW line \in UntrunkLines, NEW d \in PortConfigs
      PROVE  Does(d, <<line, v>>) \in C
  <2>1. LineEffect(line, v, d, Does(d, <<line, v>>))
    BY <1>1, LineIs DEF Lines, UntrunkLines
  <2>2. QED  BY ONLY <2>1, line \in UntrunkLines DEF LineEffect, UntrunkLines
<1>5. C \subseteq PortConfigs
  OBVIOUS
<1>6. DelCommands(v) \in Seq(A)
  BY DelIs
<1>7. PICK line \in UntrunkLines : Has(DelCommands(v), <<line, v>>)
  BY DelIs
<1> HIDE DEF A, C
<1>8. After(c, DelCommands(v)) \in C
  BY <1>2, <1>3, <1>4, <1>5, <1>6, <1>7, Ends
<1>9. QED  BY <1>8 DEF C

-----------------------------------------------------------------------------
(* The overlays.                                                           *)

\* An overlay: unplug_switch_from_network takes away all that
\* plug_switch_to_network configures, untagged ports count as members, and
\* where QueriesLastPart says so the query looks for what comes last and
\* goes first (Junos commits at once).
GoodVni(o, x) ==
  /\ x.plug \in Seq(Pieces) /\ x.unplug \in Seq(SUBSET Pieces)
  /\ "untagged" \in x.members
  /\ \A i \in DOMAIN x.plug :
       \E j \in DOMAIN x.unplug : x.plug[i] \in x.unplug[j]
  /\ o \in {"arista", "sonic", "nvueStatic", "ovs"} =>
       /\ \A i \in DOMAIN x.plug : x.plug[i] = x.query => i = Len(x.plug)
       /\ 1 \in DOMAIN x.unplug /\ x.query \in x.unplug[1]
  /\ o = "junos" => \E j \in DOMAIN x.unplug : x.query \in x.unplug[j]
  /\ o = "none" => x = NoVxlan /\ x.plug = << >>

\* The overlay of a driver that has none.
LEMMA GoodNoVxlan == GoodVni("none", NoVxlan)
<1> DEFINE x == NoVxlan
<1>1. /\ x.plug = <<>>
      /\ x.unplug = <<>>
      /\ x.query = "none" /\ "untagged" \in x.members
  BY DEF NoVxlan, Vxlan, AnyMember
<1> HIDE DEF x
<1>2. PICK pl : pl = x.plug  OBVIOUS
<1>3. PICK un : un = x.unplug  OBVIOUS
<1>4. /\ DOMAIN pl = {} /\ \A S : pl \in Seq(S)
  BY <1>1, <1>2, Line0
<1>5. /\ DOMAIN un = {} /\ \A S : un \in Seq(S)
  BY <1>1, <1>3, Line0
<1>6. pl \in Seq(Pieces)
  BY ONLY <1>4 DEF Pieces
<1>7. un \in Seq(SUBSET Pieces)
  BY ONLY <1>5 DEF Pieces
<1>8. \A i \in DOMAIN pl : \E j \in DOMAIN un : pl[i] \in un[j]
  BY <1>4
<1>9. QED
  BY <1>1, <1>2, <1>3, <1>6, <1>7, <1>8 DEF GoodVni, x

\* The overlay NxosVni.
LEMMA GoodNxosVni == GoodVni("nxos", NxosVni)
<1> DEFINE x == NxosVni
<1>1. /\ x.plug = <<"evpn", "segment", "member", "flood">>
      /\ x.unplug = <<{"member", "flood"}, {"segment"}, {"evpn"}>>
      /\ x.query = "member" /\ "untagged" \in x.members
  BY DEF NxosVni, Vxlan, AnyMember, NxosQuery, NxosMembers
<1> HIDE DEF x
<1>2. PICK pl : pl = x.plug  OBVIOUS
<1>3. PICK un : un = x.unplug  OBVIOUS
<1>4. /\ pl \in Seq({"evpn", "segment", "member", "flood"})
      /\ DOMAIN pl = 1..4
      /\ pl[1] = "evpn" /\ pl[2] = "segment" /\ pl[3] = "member"
           /\ pl[4] = "flood"
  BY <1>1, <1>2, Line4
<1>5. /\ un \in Seq({{"member", "flood"}, {"segment"}, {"evpn"}})
      /\ DOMAIN un = 1..3
      /\ un[1] = {"member", "flood"} /\ un[2] = {"segment"} /\ un[3] = {"evpn"}
  BY <1>1, <1>3, Line3
<1>6. pl \in Seq(Pieces)
  BY ONLY <1>4 DEF Pieces
<1>7. un \in Seq(SUBSET Pieces)
  BY ONLY <1>5 DEF Pieces
<1>8. \A i \in DOMAIN pl : \E j \in DOMAIN un : pl[i] \in un[j]
  <2>1. \E j \in DOMAIN un : pl[1] \in un[j]
    <3>1. 3 \in DOMAIN un /\ pl[1] \in un[3]
      BY ONLY <1>4, <1>5
    <3>2. QED  BY <3>1
  <2>2. \E j \in DOMAIN un : pl[2] \in un[j]
    <3>1. 2 \in DOMAIN un /\ pl[2] \in un[2]
      BY ONLY <1>4, <1>5
    <3>2. QED  BY <3>1
  <2>3. \E j \in DOMAIN un : pl[3] \in un[j]
    <3>1. 1 \in DOMAIN un /\ pl[3] \in un[1]
      BY ONLY <1>4, <1>5
    <3>2. QED  BY <3>1
  <2>4. \E j \in DOMAIN un : pl[4] \in un[j]
    <3>1. 1 \in DOMAIN un /\ pl[4] \in un[1]
      BY ONLY <1>4, <1>5
    <3>2. QED  BY <3>1
  <2>5. QED  BY ONLY <1>4, <2>1, <2>2, <2>3, <2>4
<1>9. QED
  BY <1>1, <1>2, <1>3, <1>6, <1>7, <1>8 DEF GoodVni, x

\* The overlay AristaVni.
LEMMA GoodAristaVni == GoodVni("arista", AristaVni)
<1> DEFINE x == AristaVni
<1>1. /\ x.plug = <<"evpn", "map">>
      /\ x.unplug = <<{"map"}, {"evpn"}>>
      /\ x.query = "map" /\ "untagged" \in x.members
  BY DEF AristaVni, Vxlan, AnyMember, AristaQuery, AristaMembers
<1> HIDE DEF x
<1>2. PICK pl : pl = x.plug  OBVIOUS
<1>3. PICK un : un = x.unplug  OBVIOUS
<1>4. /\ pl \in Seq({"evpn", "map"})
      /\ DOMAIN pl = 1..2
      /\ pl[1] = "evpn" /\ pl[2] = "map"
  BY <1>1, <1>2, Line2
<1>5. /\ un \in Seq({{"map"}, {"evpn"}})
      /\ DOMAIN un = 1..2
      /\ un[1] = {"map"} /\ un[2] = {"evpn"}
  BY <1>1, <1>3, Line2
<1>6. pl \in Seq(Pieces)
  BY ONLY <1>4 DEF Pieces
<1>7. un \in Seq(SUBSET Pieces)
  BY ONLY <1>5 DEF Pieces
<1>8. \A i \in DOMAIN pl : \E j \in DOMAIN un : pl[i] \in un[j]
  <2>1. \E j \in DOMAIN un : pl[1] \in un[j]
    <3>1. 2 \in DOMAIN un /\ pl[1] \in un[2]
      BY ONLY <1>4, <1>5
    <3>2. QED  BY <3>1
  <2>2. \E j \in DOMAIN un : pl[2] \in un[j]
    <3>1. 1 \in DOMAIN un /\ pl[2] \in un[1]
      BY ONLY <1>4, <1>5
    <3>2. QED  BY <3>1
  <2>3. QED  BY ONLY <1>4, <2>1, <2>2
<1>9. /\ \A i \in DOMAIN pl : pl[i] = x.query => i = Len(pl)
      /\ 1 \in DOMAIN un /\ x.query \in un[1]
  <2>1. Len(pl) = 2
    BY ONLY <1>4
  <2>2. QED  BY ONLY <1>1, <1>4, <1>5, <2>1
<1>10. QED
  BY <1>1, <1>2, <1>3, <1>6, <1>7, <1>8, <1>9 DEF GoodVni, x

\* The overlay AristaMulticastVni.
LEMMA GoodAristaMulticastVni == GoodVni("aristaMulticast", AristaMulticastVni)
<1> DEFINE x == AristaMulticastVni
<1>1. /\ x.plug = <<"evpn", "map", "flood">>
      /\ x.unplug = <<{"flood"}, {"map"}, {"evpn"}>>
      /\ x.query = "map" /\ "untagged" \in x.members
  BY DEF AristaMulticastVni, Vxlan, AnyMember, AristaQuery, AristaMembers
<1> HIDE DEF x
<1>2. PICK pl : pl = x.plug  OBVIOUS
<1>3. PICK un : un = x.unplug  OBVIOUS
<1>4. /\ pl \in Seq({"evpn", "map", "flood"})
      /\ DOMAIN pl = 1..3
      /\ pl[1] = "evpn" /\ pl[2] = "map" /\ pl[3] = "flood"
  BY <1>1, <1>2, Line3
<1>5. /\ un \in Seq({{"flood"}, {"map"}, {"evpn"}})
      /\ DOMAIN un = 1..3
      /\ un[1] = {"flood"} /\ un[2] = {"map"} /\ un[3] = {"evpn"}
  BY <1>1, <1>3, Line3
<1>6. pl \in Seq(Pieces)
  BY ONLY <1>4 DEF Pieces
<1>7. un \in Seq(SUBSET Pieces)
  BY ONLY <1>5 DEF Pieces
<1>8. \A i \in DOMAIN pl : \E j \in DOMAIN un : pl[i] \in un[j]
  <2>1. \E j \in DOMAIN un : pl[1] \in un[j]
    <3>1. 3 \in DOMAIN un /\ pl[1] \in un[3]
      BY ONLY <1>4, <1>5
    <3>2. QED  BY <3>1
  <2>2. \E j \in DOMAIN un : pl[2] \in un[j]
    <3>1. 2 \in DOMAIN un /\ pl[2] \in un[2]
      BY ONLY <1>4, <1>5
    <3>2. QED  BY <3>1
  <2>3. \E j \in DOMAIN un : pl[3] \in un[j]
    <3>1. 1 \in DOMAIN un /\ pl[3] \in un[1]
      BY ONLY <1>4, <1>5
    <3>2. QED  BY <3>1
  <2>4. QED  BY ONLY <1>4, <2>1, <2>2, <2>3
<1>9. QED
  BY <1>1, <1>2, <1>3, <1>6, <1>7, <1>8 DEF GoodVni, x

\* The overlay SonicVni.
LEMMA GoodSonicVni == GoodVni("sonic", SonicVni)
<1> DEFINE x == SonicVni
<1>1. /\ x.plug = <<"evpn", "map">>
      /\ x.unplug = <<{"map"}, {"evpn"}>>
      /\ x.query = "map" /\ "untagged" \in x.members
  BY DEF SonicVni, Vxlan, AnyMember, SonicQuery, SonicMembers
<1> HIDE DEF x
<1>2. PICK pl : pl = x.plug  OBVIOUS
<1>3. PICK un : un = x.unplug  OBVIOUS
<1>4. /\ pl \in Seq({"evpn", "map"})
      /\ DOMAIN pl = 1..2
      /\ pl[1] = "evpn" /\ pl[2] = "map"
  BY <1>1, <1>2, Line2
<1>5. /\ un \in Seq({{"map"}, {"evpn"}})
      /\ DOMAIN un = 1..2
      /\ un[1] = {"map"} /\ un[2] = {"evpn"}
  BY <1>1, <1>3, Line2
<1>6. pl \in Seq(Pieces)
  BY ONLY <1>4 DEF Pieces
<1>7. un \in Seq(SUBSET Pieces)
  BY ONLY <1>5 DEF Pieces
<1>8. \A i \in DOMAIN pl : \E j \in DOMAIN un : pl[i] \in un[j]
  <2>1. \E j \in DOMAIN un : pl[1] \in un[j]
    <3>1. 2 \in DOMAIN un /\ pl[1] \in un[2]
      BY ONLY <1>4, <1>5
    <3>2. QED  BY <3>1
  <2>2. \E j \in DOMAIN un : pl[2] \in un[j]
    <3>1. 1 \in DOMAIN un /\ pl[2] \in un[1]
      BY ONLY <1>4, <1>5
    <3>2. QED  BY <3>1
  <2>3. QED  BY ONLY <1>4, <2>1, <2>2
<1>9. /\ \A i \in DOMAIN pl : pl[i] = x.query => i = Len(pl)
      /\ 1 \in DOMAIN un /\ x.query \in un[1]
  <2>1. Len(pl) = 2
    BY ONLY <1>4
  <2>2. QED  BY ONLY <1>1, <1>4, <1>5, <2>1
<1>10. QED
  BY <1>1, <1>2, <1>3, <1>6, <1>7, <1>8, <1>9 DEF GoodVni, x

\* The overlay NvueVni.
LEMMA GoodNvueVni == GoodVni("nvue", NvueVni)
<1> DEFINE x == NvueVni
<1>1. /\ x.plug = <<"evpn", "map", "flood">>
      /\ x.unplug = <<{"map", "flood"}, {"evpn"}>>
      /\ x.query = "map" /\ "untagged" \in x.members
  BY DEF NvueVni, Vxlan, AnyMember, NvueQuery, NvueMembers
<1> HIDE DEF x
<1>2. PICK pl : pl = x.plug  OBVIOUS
<1>3. PICK un : un = x.unplug  OBVIOUS
<1>4. /\ pl \in Seq({"evpn", "map", "flood"})
      /\ DOMAIN pl = 1..3
      /\ pl[1] = "evpn" /\ pl[2] = "map" /\ pl[3] = "flood"
  BY <1>1, <1>2, Line3
<1>5. /\ un \in Seq({{"map", "flood"}, {"evpn"}})
      /\ DOMAIN un = 1..2
      /\ un[1] = {"map", "flood"} /\ un[2] = {"evpn"}
  BY <1>1, <1>3, Line2
<1>6. pl \in Seq(Pieces)
  BY ONLY <1>4 DEF Pieces
<1>7. un \in Seq(SUBSET Pieces)
  BY ONLY <1>5 DEF Pieces
<1>8. \A i \in DOMAIN pl : \E j \in DOMAIN un : pl[i] \in un[j]
  <2>1. \E j \in DOMAIN un : pl[1] \in un[j]
    <3>1. 2 \in DOMAIN un /\ pl[1] \in un[2]
      BY ONLY <1>4, <1>5
    <3>2. QED  BY <3>1
  <2>2. \E j \in DOMAIN un : pl[2] \in un[j]
    <3>1. 1 \in DOMAIN un /\ pl[2] \in un[1]
      BY ONLY <1>4, <1>5
    <3>2. QED  BY <3>1
  <2>3. \E j \in DOMAIN un : pl[3] \in un[j]
    <3>1. 1 \in DOMAIN un /\ pl[3] \in un[1]
      BY ONLY <1>4, <1>5
    <3>2. QED  BY <3>1
  <2>4. QED  BY ONLY <1>4, <2>1, <2>2, <2>3
<1>9. QED
  BY <1>1, <1>2, <1>3, <1>6, <1>7, <1>8 DEF GoodVni, x

\* The overlay NvueStaticVni.
LEMMA GoodNvueStaticVni == GoodVni("nvueStatic", NvueStaticVni)
<1> DEFINE x == NvueStaticVni
<1>1. /\ x.plug = <<"map">>
      /\ x.unplug = <<{"map"}>>
      /\ x.query = "map" /\ "untagged" \in x.members
  BY DEF NvueStaticVni, Vxlan, AnyMember, NvueQuery, NvueMembers
<1> HIDE DEF x
<1>2. PICK pl : pl = x.plug  OBVIOUS
<1>3. PICK un : un = x.unplug  OBVIOUS
<1>4. /\ pl \in Seq({"map"})
      /\ DOMAIN pl = 1..1
      /\ pl[1] = "map"
  BY <1>1, <1>2, Line1
<1>5. /\ un \in Seq({{"map"}})
      /\ DOMAIN un = 1..1
      /\ un[1] = {"map"}
  BY <1>1, <1>3, Line1
<1>6. pl \in Seq(Pieces)
  BY ONLY <1>4 DEF Pieces
<1>7. un \in Seq(SUBSET Pieces)
  BY ONLY <1>5 DEF Pieces
<1>8. \A i \in DOMAIN pl : \E j \in DOMAIN un : pl[i] \in un[j]
  <2>1. \E j \in DOMAIN un : pl[1] \in un[j]
    <3>1. 1 \in DOMAIN un /\ pl[1] \in un[1]
      BY ONLY <1>4, <1>5
    <3>2. QED  BY <3>1
  <2>2. QED  BY ONLY <1>4, <2>1
<1>9. /\ \A i \in DOMAIN pl : pl[i] = x.query => i = Len(pl)
      /\ 1 \in DOMAIN un /\ x.query \in un[1]
  <2>1. Len(pl) = 1
    BY ONLY <1>4
  <2>2. QED  BY ONLY <1>1, <1>4, <1>5, <2>1
<1>10. QED
  BY <1>1, <1>2, <1>3, <1>6, <1>7, <1>8, <1>9 DEF GoodVni, x

\* The overlay JunosVni.
LEMMA GoodJunosVni == GoodVni("junos", JunosVni)
<1> DEFINE x == JunosVni
<1>1. /\ x.plug = <<"map", "flood", "evpn">>
      /\ x.unplug = <<{"flood"}, {"map"}, {"evpn"}>>
      /\ x.query = "map" /\ "untagged" \in x.members
  BY DEF JunosVni, Vxlan, AnyMember, JunosQuery, JunosMembers
<1> HIDE DEF x
<1>2. PICK pl : pl = x.plug  OBVIOUS
<1>3. PICK un : un = x.unplug  OBVIOUS
<1>4. /\ pl \in Seq({"map", "flood", "evpn"})
      /\ DOMAIN pl = 1..3
      /\ pl[1] = "map" /\ pl[2] = "flood" /\ pl[3] = "evpn"
  BY <1>1, <1>2, Line3
<1>5. /\ un \in Seq({{"flood"}, {"map"}, {"evpn"}})
      /\ DOMAIN un = 1..3
      /\ un[1] = {"flood"} /\ un[2] = {"map"} /\ un[3] = {"evpn"}
  BY <1>1, <1>3, Line3
<1>6. pl \in Seq(Pieces)
  BY ONLY <1>4 DEF Pieces
<1>7. un \in Seq(SUBSET Pieces)
  BY ONLY <1>5 DEF Pieces
<1>8. \A i \in DOMAIN pl : \E j \in DOMAIN un : pl[i] \in un[j]
  <2>1. \E j \in DOMAIN un : pl[1] \in un[j]
    <3>1. 2 \in DOMAIN un /\ pl[1] \in un[2]
      BY ONLY <1>4, <1>5
    <3>2. QED  BY <3>1
  <2>2. \E j \in DOMAIN un : pl[2] \in un[j]
    <3>1. 1 \in DOMAIN un /\ pl[2] \in un[1]
      BY ONLY <1>4, <1>5
    <3>2. QED  BY <3>1
  <2>3. \E j \in DOMAIN un : pl[3] \in un[j]
    <3>1. 3 \in DOMAIN un /\ pl[3] \in un[3]
      BY ONLY <1>4, <1>5
    <3>2. QED  BY <3>1
  <2>4. QED  BY ONLY <1>4, <2>1, <2>2, <2>3
<1>9. \E j \in DOMAIN un : x.query \in un[j]
  <2>1. 2 \in DOMAIN un /\ x.query \in un[2]
    BY ONLY <1>1, <1>5
  <2>2. QED  BY <2>1
<1>10. QED
  BY <1>1, <1>2, <1>3, <1>6, <1>7, <1>8, <1>9 DEF GoodVni, x

\* The overlay OvsVni.
LEMMA GoodOvsVni == GoodVni("ovs", OvsVni)
<1> DEFINE x == OvsVni
<1>1. /\ x.plug = <<"map">>
      /\ x.unplug = <<{"map"}>>
      /\ x.query = "map" /\ "untagged" \in x.members
  BY DEF OvsVni, Vxlan, AnyMember, OvsQuery, OvsMembers
<1> HIDE DEF x
<1>2. PICK pl : pl = x.plug  OBVIOUS
<1>3. PICK un : un = x.unplug  OBVIOUS
<1>4. /\ pl \in Seq({"map"})
      /\ DOMAIN pl = 1..1
      /\ pl[1] = "map"
  BY <1>1, <1>2, Line1
<1>5. /\ un \in Seq({{"map"}})
      /\ DOMAIN un = 1..1
      /\ un[1] = {"map"}
  BY <1>1, <1>3, Line1
<1>6. pl \in Seq(Pieces)
  BY ONLY <1>4 DEF Pieces
<1>7. un \in Seq(SUBSET Pieces)
  BY ONLY <1>5 DEF Pieces
<1>8. \A i \in DOMAIN pl : \E j \in DOMAIN un : pl[i] \in un[j]
  <2>1. \E j \in DOMAIN un : pl[1] \in un[j]
    <3>1. 1 \in DOMAIN un /\ pl[1] \in un[1]
      BY ONLY <1>4, <1>5
    <3>2. QED  BY <3>1
  <2>2. QED  BY ONLY <1>4, <2>1
<1>9. /\ \A i \in DOMAIN pl : pl[i] = x.query => i = Len(pl)
      /\ 1 \in DOMAIN un /\ x.query \in un[1]
  <2>1. Len(pl) = 1
    BY ONLY <1>4
  <2>2. QED  BY ONLY <1>1, <1>4, <1>5, <2>1
<1>10. QED
  BY <1>1, <1>2, <1>3, <1>6, <1>7, <1>8, <1>9 DEF GoodVni, x

\* The overlay of a scenario is such an overlay.
LEMMA OverlaysAreGood ==
  ASSUME scenario \in Scenarios
  PROVE  GoodVni(scenario.overlay, Vni)
<1>1. scenario.overlay \in {"none", "nxos", "arista", "aristaMulticast",
      "sonic", "nvue", "nvueStatic", "junos", "ovs"}
  BY DriverIsGood DEF Overlays
<1>2. CASE scenario.overlay = "none"
  <2>1. Vni = NoVxlan
    BY <1>2 DEF Vni, Overlays
  <2>2. QED  BY <1>2, <2>1, GoodNoVxlan
<1>3. CASE scenario.overlay = "nxos"
  <2>1. Vni = NxosVni
    BY <1>3 DEF Vni, Overlays
  <2>2. QED  BY <1>3, <2>1, GoodNxosVni
<1>4. CASE scenario.overlay = "arista"
  <2>1. Vni = AristaVni
    BY <1>4 DEF Vni, Overlays
  <2>2. QED  BY <1>4, <2>1, GoodAristaVni
<1>5. CASE scenario.overlay = "aristaMulticast"
  <2>1. Vni = AristaMulticastVni
    BY <1>5 DEF Vni, Overlays
  <2>2. QED  BY <1>5, <2>1, GoodAristaMulticastVni
<1>6. CASE scenario.overlay = "sonic"
  <2>1. Vni = SonicVni
    BY <1>6 DEF Vni, Overlays
  <2>2. QED  BY <1>6, <2>1, GoodSonicVni
<1>7. CASE scenario.overlay = "nvue"
  <2>1. Vni = NvueVni
    BY <1>7 DEF Vni, Overlays
  <2>2. QED  BY <1>7, <2>1, GoodNvueVni
<1>8. CASE scenario.overlay = "nvueStatic"
  <2>1. Vni = NvueStaticVni
    BY <1>8 DEF Vni, Overlays
  <2>2. QED  BY <1>8, <2>1, GoodNvueStaticVni
<1>9. CASE scenario.overlay = "junos"
  <2>1. Vni = JunosVni
    BY <1>9 DEF Vni, Overlays
  <2>2. QED  BY <1>9, <2>1, GoodJunosVni
<1>10. CASE scenario.overlay = "ovs"
  <2>1. Vni = OvsVni
    BY <1>10 DEF Vni, Overlays
  <2>2. QED  BY <1>10, <2>1, GoodOvsVni
<1>11. QED  BY <1>1, <1>2, <1>3, <1>4, <1>5, <1>6, <1>7, <1>8, <1>9, <1>10

-----------------------------------------------------------------------------
(* Parts of an overlay.                                                    *)

\* Where a call is cut short.
LEMMA CutIs ==
  ASSUME scenario \in Scenarios, NEW A, NEW q \in Seq(A),
         NEW n \in CutPoints(q)
  PROVE  /\ n \in 0..Len(q)
         /\ ~scenario.faults => n = Len(q)
         /\ scenario.driver = "junos" => n \in {0, Len(q)}
<1>1. Len(q) \in Nat
  OBVIOUS
<1>2. QED  BY <1>1 DEF CutPoints

\* MappedIsComplete, for the parts s of a VLAN.
CompleteIn(s) ==
  scenario.overlay \in QueriesLastPart /\ Vni.query \in s
    => Range(Vni.plug) \subseteq s

\* The parts of an overlay.
LEMMA PartsIs ==
  ASSUME scenario \in Scenarios
  PROVE  /\ Range(Vni.plug) \subseteq Pieces
         /\ \A x : x \in Range(Vni.plug) <=> \E i \in DOMAIN Vni.plug :
              Vni.plug[i] = x
<1>1. Vni.plug \in Seq(Pieces)
  BY OverlaysAreGood DEF GoodVni
<1>2. \A x : x \in Range(Vni.plug) <=> \E i \in DOMAIN Vni.plug :
      Vni.plug[i] = x
  BY DEF Range
<1>3. QED  BY <1>1, <1>2

\* What GoodVni says of the query.
LEMMA QueriedLast ==
  ASSUME scenario \in Scenarios, scenario.overlay \in QueriesLastPart
  PROVE  \/ /\ \A i \in DOMAIN Vni.plug :
                 Vni.plug[i] = Vni.query => i = Len(Vni.plug)
            /\ 1 \in DOMAIN Vni.unplug /\ Vni.query \in Vni.unplug[1]
         \/ /\ scenario.driver = "junos"
            /\ \E j \in DOMAIN Vni.unplug : Vni.query \in Vni.unplug[j]
<1>1. GoodVni(scenario.overlay, Vni)
  BY OverlaysAreGood
<1>2. scenario.overlay = "junos" => scenario.driver = "junos"
  BY DriverIsGood DEF OverlayDrivers
<1>3. QED  BY <1>1, <1>2 DEF GoodVni, QueriesLastPart

\* Some parts more of a VLAN: its own, and all of them while no call fails.
LEMMA PlugVniIs ==
  ASSUME scenario \in Scenarios, overlay \in [Vlans -> SUBSET Pieces],
         NEW v \in Vlans, CompleteIn(overlay[v]),
         NEW n \in CutPoints(Vni.plug), PlugVni(v, n)
  PROVE  /\ overlay' \in [Vlans -> SUBSET Pieces]
         /\ \A w \in Vlans : w # v => overlay'[w] = overlay[w]
         /\ overlay[v] \subseteq overlay'[v]
         /\ ~scenario.faults => overlay'[v] = overlay[v] \cup Range(Vni.plug)
         /\ CompleteIn(overlay'[v])
<1> DEFINE parts == {Vni.plug[i] : i \in 1..n}
<1>1. /\ Vni.plug \in Seq(Pieces) /\ n \in 0..Len(Vni.plug)
      /\ ~scenario.faults => n = Len(Vni.plug)
      /\ scenario.driver = "junos" => n \in {0, Len(Vni.plug)}
  <2>1. Vni.plug \in Seq(Pieces)
    BY OverlaysAreGood DEF GoodVni
  <2>2. QED  BY <2>1, CutIs
<1>2. DOMAIN Vni.plug = 1..Len(Vni.plug) /\ Len(Vni.plug) \in Nat
  BY <1>1
<1>3. parts \subseteq Pieces
  <2>1. \A i \in 1..n : i \in DOMAIN Vni.plug
    BY <1>1, <1>2
  <2>2. QED  BY <1>1, <2>1
<1>4. n = Len(Vni.plug) => parts = Range(Vni.plug)
  BY <1>2, PartsIs
<1>5. overlay' = [overlay EXCEPT ![v] = overlay[v] \cup parts]
  BY DEF PlugVni
<1> HIDE DEF parts
<1>6. /\ overlay' \in [Vlans -> SUBSET Pieces]
      /\ \A w \in Vlans : w # v => overlay'[w] = overlay[w]
      /\ overlay'[v] = overlay[v] \cup parts
  BY <1>3, <1>5
<1>7. CompleteIn(overlay'[v])
  <2>1. SUFFICES ASSUME scenario.overlay \in QueriesLastPart,
                        Vni.query \in overlay'[v]
                 PROVE  Range(Vni.plug) \subseteq overlay'[v]
    BY DEF CompleteIn
  <2>2. CASE Vni.query \in overlay[v]
    BY <1>6, <2>1, <2>2 DEF CompleteIn
  <2>3. CASE Vni.query \in parts
    <3>1. PICK i \in 1..n : Vni.plug[i] = Vni.query
      BY <2>3 DEF parts
    <3>2. i \in DOMAIN Vni.plug /\ n # 0
      BY <1>1, <1>2
    <3>3. n = Len(Vni.plug)
      BY <1>1, <1>2, <2>1, <3>1, <3>2, QueriedLast
    <3>4. QED  BY <1>4, <1>6, <3>3
  <2>4. QED  BY <1>6, <2>1, <2>2, <2>3
<1>8. QED  BY <1>1, <1>4, <1>6, <1>7

\* ConfigureVni: the VLAN is complete while no call fails, and no VLAN is taken
\* for complete that is not.
LEMMA ConfigureIs ==
  ASSUME scenario \in Scenarios, overlay \in [Vlans -> SUBSET Pieces],
         NEW v \in Vlans, CompleteIn(overlay[v]),
         ~scenario.faults => overlay[v] \in {{}, Range(Vni.plug)},
         NEW ok, ConfigureVni(v, ok)
  PROVE  /\ overlay' \in [Vlans -> SUBSET Pieces]
         /\ \A w \in Vlans : w # v => overlay'[w] = overlay[w]
         /\ overlay[v] \subseteq overlay'[v]
         /\ ~scenario.faults => overlay'[v] = Range(Vni.plug)
         /\ CompleteIn(overlay'[v])
<1>1. CASE (Vni = NoVxlan \/ VlanHasVni(v)) /\ UNCHANGED overlay
  <2>1. overlay' = overlay
    BY <1>1
  <2>2. ASSUME ~scenario.faults
        PROVE  overlay[v] = Range(Vni.plug)
    <3>1. CASE Vni = NoVxlan
      <4>1. DOMAIN Vni.plug = {}
        BY <3>1 DEF NoVxlan, Vxlan
      <4>2. Range(Vni.plug) = {}
        BY <4>1 DEF Range
      <4>3. QED  BY <2>2, <4>2
    <3>2. CASE VlanHasVni(v)
      BY <2>2, <3>2 DEF VlanHasVni
    <3>3. QED  BY <1>1, <3>1, <3>2
  <2>3. QED  BY <2>1, <2>2
<1>2. ASSUME NEW n \in CutPoints(Vni.plug), PlugVni(v, n)
      PROVE  /\ overlay' \in [Vlans -> SUBSET Pieces]
             /\ \A w \in Vlans : w # v => overlay'[w] = overlay[w]
             /\ overlay[v] \subseteq overlay'[v]
             /\ ~scenario.faults => overlay'[v] = Range(Vni.plug)
             /\ CompleteIn(overlay'[v])
  <2>1. /\ overlay' \in [Vlans -> SUBSET Pieces]
        /\ \A w \in Vlans : w # v => overlay'[w] = overlay[w]
        /\ overlay[v] \subseteq overlay'[v]
        /\ ~scenario.faults => overlay'[v] = overlay[v] \cup Range(Vni.plug)
        /\ CompleteIn(overlay'[v])
    BY <1>2, PlugVniIs
  <2>2. QED  BY <2>1
<1>3. CASE scenario.faults /\ UNCHANGED overlay
  BY <1>3
<1>4. QED  BY <1>1, <1>2, <1>3 DEF ConfigureVni

\* RemoveVni: the VLAN is gone while no call fails and no port has it.
LEMMA RemoveIs ==
  ASSUME scenario \in Scenarios, overlay \in [Vlans -> SUBSET Pieces],
         NEW v \in Vlans, CompleteIn(overlay[v]),
         ~scenario.faults => overlay[v] \in {{}, Range(Vni.plug)},
         NEW ports, RemoveVni(v, ports)
  PROVE  /\ overlay' \in [Vlans -> SUBSET Pieces]
         /\ \A w \in Vlans : w # v => overlay'[w] = overlay[w]
         /\ VlanHasPorts(v, ports) => overlay' = overlay
         /\ ~scenario.faults /\ ~VlanHasPorts(v, ports) => overlay'[v] = {}
         /\ CompleteIn(overlay'[v])
<1>1. CASE VlanHasPorts(v, ports)
  <2>1. overlay' = overlay
    BY <1>1 DEF RemoveVni
  <2>2. QED  BY <1>1, <2>1
<1>2. CASE ~VlanHasPorts(v, ports)
  <2>1. PICK n \in CutPoints(Vni.unplug) :
          overlay' = [overlay EXCEPT ![v] =
                        @ \ UNION {Vni.unplug[i] : i \in 1..n}]
    BY <1>2 DEF RemoveVni
  <2> DEFINE parts == UNION {Vni.unplug[i] : i \in 1..n}
  <2>2. /\ Vni.unplug \in Seq(SUBSET Pieces) /\ n \in 0..Len(Vni.unplug)
        /\ ~scenario.faults => n = Len(Vni.unplug)
        /\ scenario.driver = "junos" => n \in {0, Len(Vni.unplug)}
    <3>1. Vni.unplug \in Seq(SUBSET Pieces)
      BY OverlaysAreGood DEF GoodVni
    <3>2. QED  BY <3>1, CutIs
  <2>3. DOMAIN Vni.unplug = 1..Len(Vni.unplug) /\ Len(Vni.unplug) \in Nat
    BY <2>2
  <2>4. \A x : x \in parts <=> \E i \in 1..n : x \in Vni.unplug[i]
    OBVIOUS
  <2>5. overlay' = [overlay EXCEPT ![v] = overlay[v] \ parts]
    BY <2>1
  <2> HIDE DEF parts
  <2>6. /\ overlay' \in [Vlans -> SUBSET Pieces]
        /\ \A w \in Vlans : w # v => overlay'[w] = overlay[w]
        /\ overlay'[v] = overlay[v] \ parts
    BY <2>5
  <2>7. ASSUME ~scenario.faults
        PROVE  overlay'[v] = {}
    <3>1. \A i \in DOMAIN Vni.plug :
            \E j \in DOMAIN Vni.unplug : Vni.plug[i] \in Vni.unplug[j]
      BY OverlaysAreGood DEF GoodVni
    <3>2. Range(Vni.plug) \subseteq parts
      BY <2>2, <2>3, <2>4, <2>7, <3>1, PartsIs
    <3>3. QED  BY <2>6, <2>7, <3>2
  <2>8. CompleteIn(overlay'[v])
    <3>1. SUFFICES ASSUME scenario.overlay \in QueriesLastPart,
                          Vni.query \in overlay'[v]
                   PROVE  Range(Vni.plug) \subseteq overlay'[v]
      BY DEF CompleteIn
    <3>2. Vni.query \notin parts
      BY <2>6, <3>1
    <3>3. n = 0
      <4>1. CASE 1 \in DOMAIN Vni.unplug /\ Vni.query \in Vni.unplug[1]
        BY <2>2, <2>4, <3>2, <4>1
      <4>2. CASE /\ scenario.driver = "junos"
                 /\ \E j \in DOMAIN Vni.unplug : Vni.query \in Vni.unplug[j]
        BY <2>2, <2>3, <2>4, <3>2, <4>2
      <4>3. QED  BY <3>1, <4>1, <4>2, QueriedLast
    <3>4. parts = {}
      BY <2>4, <3>3
    <3>5. overlay'[v] = overlay[v]
      BY <2>6, <3>4
    <3>6. QED  BY <3>1, <3>5 DEF CompleteIn
  <2>9. QED  BY <1>2, <2>6, <2>7, <2>8
<1>3. QED  BY <1>1, <1>2

-----------------------------------------------------------------------------
(* The invariant.                                                          *)

\* The premise of OwnVlansOnly.
Clears == scenario.trunks => scenario.driver \in ClearsTrunks

\* Neutron: subports are those of a trunk and never its own VLAN; only a bound
\* port is ACTIVE, and as a trunk only where the driver has trunks; without
\* trunks and faults nothing is unsure.
Trunked(p) ==
  /\ trunk[p] => scenario.trunks
  /\ subs[p] # {} => trunk[p]
  /\ net[p] \notin subs[p]
  /\ net[p] = NoVlan => active[p] = "no"
  /\ active[p] = "trunk" => trunk[p] /\ scenario.kind \in Driver.trunks
  /\ ~scenario.faults /\ ~scenario.trunks => unsure[p] = {}

\* Only these drivers make a trunk of a port, and only where unused ports are
\* shut down is one down.
Moded(p) ==
  /\ port[p].mode = "trunk" => scenario.driver \in TrunkMode
  /\ Shuts \/ port[p].up

\* OwnVlansOnly, on the configuration: what is untagged in access mode, and
\* what is tagged even if the mode hides it.
Own(p) ==
  /\ port[p].access \subseteq
       {net[p]} \cup unsure[p] \cup (IF active[p] = "no" THEN Spare ELSE {})
  /\ Clears =>
       port[p].tagged \subseteq
         (IF net[p] = NoVlan THEN {} ELSE {net[p]} \cup subs[p]) \cup unsure[p]
  /\ ~scenario.trunks \/ scenario.kind \notin Driver.trunks
       => port[p].tagged = {}

\* ActiveIsConnected, on the configuration: in which mode an ACTIVE port is
\* and where its VLANs are in that mode.
Connected(p) ==
  /\ active[p] = "access" /\ ~trunk[p] =>
       port[p].mode # "trunk" /\ net[p] \in port[p].access /\ port[p].up
  /\ active[p] = "trunk" /\ SetsNative =>
       /\ port[p].mode # "access"
       /\ port[p].mode = "trunk" =>
            /\ scenario.driver \in {"arista", "ios", "nvue"}
            /\ net[p] \in port[p].native \cap port[p].tagged
       /\ port[p].mode = "hybrid" =>
            scenario.driver \in {"os10", "ovs"} /\ net[p] \in port[p].access
       /\ subs[p] \ unsure[p] \subseteq port[p].tagged
       /\ port[p].up

\* A port that is no trunk has no native VLAN left that a subport added later
\* would bring back.
NoNative(p) ==
  /\ scenario.driver = "nxos" => port[p].native = {}
  /\ scenario.driver = "nvue" /\ ~scenario.faults /\ port[p].mode # "trunk"
       => port[p].native = {}

\* OverlayServed, for the VLAN of one port.
Mapped(p) ==
  ~scenario.faults /\ active[p] # "no" /\ net[p] \in Untagged(port[p])
    => overlay[net[p]] = Range(Vni.plug)

\* MappedIsComplete, for one VLAN.
Complete(v) == CompleteIn(overlay[v])

\* While no call fails, a VLAN has all of its overlay or nothing.
Whole(v) == ~scenario.faults => overlay[v] \in {{}, Range(Vni.plug)}

\* OverlayServed, for a VLAN without ports.
Unmapped(v) ==
  ~scenario.faults /\ ~scenario.trunks /\ (\A p \in Ports : net[p] # v)
    => overlay[v] = {}

\* What SPInv says of one port alone.
Local(p) ==
  Trunked(p) /\ Moded(p) /\ Own(p) /\ Connected(p) /\ NoNative(p)

\* The inductive invariant.
SPInv ==
  /\ TypeOK
  /\ \A p \in Ports : Local(p) /\ Mapped(p)
  /\ \A v \in Vlans : Complete(v) /\ Whole(v) /\ Unmapped(v)

\* A step about another port keeps it.
LEMMA LocalKept ==
  ASSUME NEW p, Local(p), UNCHANGED scenario,
         net'[p] = net[p], trunk'[p] = trunk[p], subs'[p] = subs[p],
         active'[p] = active[p], port'[p] = port[p], unsure'[p] = unsure[p]
  PROVE  Local(p)'
BY DEF Local, Trunked, Moded, Own, Connected, NoNative, Clears, Spare, Driver,
       Shuts, SetsNative

-----------------------------------------------------------------------------
(* What a call sends, cut short or not.                                    *)

\* What is sent of a list is a list of the same commands.
LEMMA SentIs ==
  ASSUME scenario \in Scenarios, NEW p, NEW A, NEW q \in Seq(A),
         NEW n \in CutPoints(q)
  PROVE  \E r \in Seq(A) : /\ Sent(p, q, n) = After(port[p], r)
                           /\ n = Len(q) => r = q
<1>1. n \in 0..Len(q)
  BY CutIs
<1>2. /\ SubSeq(q, 1, n) \in Seq(A)
      /\ n = Len(q) => SubSeq(q, 1, n) = q
  BY <1>1, Prefix
<1>3. QED  BY <1>2 DEF Sent

\* What is sent of a plug: the interface stays near, and is what it should be
\* when all of it is sent.
LEMMA PlugSent ==
  ASSUME TypeOK, NEW p \in Ports, Moded(p), net[p] # NoVlan,
         NEW cmds,
         cmds = CleanCommands(p)
                  \o IF scenario.kind = "bond"
                       THEN PlugBondCommands(net[p], trunk[p], subs[p])
                       ELSE PlugCommands(net[p], trunk[p], subs[p]),
         NEW n \in CutPoints(cmds), NEW e, e = Sent(p, cmds, n)
  PROVE  /\ e \in Near(scenario.driver, port[p], {net[p]} \cup Spare,
                       IF scenario.driver = "nxos"
                         THEN {} ELSE {net[p]} \cup Spare,
                       IF trunk[p] THEN {net[p]} \cup subs[p] ELSE {}, Shuts)
         /\ n = Len(cmds) =>
              /\ scenario.default => DefaultVlan \notin e.access
              /\ e.up
              /\ ~trunk[p] =>
                   /\ e.mode # "trunk" /\ net[p] \in e.access
                   /\ scenario.driver = "nvue" => e.native = {}
              /\ trunk[p] =>
                   /\ scenario.driver \in {"arista", "ios", "nvue"} =>
                        /\ e.mode = "trunk"
                        /\ net[p] \in e.native /\ net[p] \in e.tagged
                   /\ scenario.driver \in {"os10", "ovs"} =>
                        e.mode = "hybrid" /\ net[p] \in e.access
                   /\ Driver.trunks # {} => subs[p] \subseteq e.tagged
<1> DEFINE v == net[p]
           t == trunk[p]
           vs == subs[p]
           d == scenario.driver
           X == {v} \cup Spare
           N == IF d = "nxos" THEN {} ELSE {v} \cup Spare
           Y == IF t THEN {v} \cup vs ELSE {}
           A == Permitted(d, X, N, Y, Shuts)
           plug == PlugCommands(v, t, vs)
           clean == CleanCommands(p)
           b == After(port[p], clean)
<1>1. /\ scenario \in Scenarios /\ v \in Vlans /\ t \in BOOLEAN
      /\ vs \in SUBSET Vlans /\ port[p] \in PortConfigs
  BY DEF TypeOK
<1>2. v \in AllVlans /\ vs \in SUBSET AllVlans
  BY <1>1 DEF AllVlans
<1>3. port[p] \in Near(d, port[p], X, N, Y, Shuts)
  BY <1>1 DEF Near, Moded
<1>4. plug \in Seq(A)
  <2>1. NativeOf(d, t, v) \subseteq N
    BY DEF NativeOf
  <2>2. PlugCommands(v, t, vs) \in Seq(A)
    BY <1>1, <1>2, <2>1, PlugMay
  <2>3. QED  BY <2>2
<1>5. clean \in Seq(A)
  <2>1. Spare \subseteq X /\ (d \notin {"nvue", "nxos"} => Spare \subseteq N)
    OBVIOUS
  <2>2. CleanCommands(p) \in Seq(A)
    BY <2>1, CleanMay
  <2>3. QED  BY <2>2
<1>6. cmds = clean \o plug
  BY DEF PlugBondCommands
<1> HIDE DEF A, plug, clean
<1>7. cmds \in Seq(A)
  BY <1>4, <1>5, <1>6, SeqConcat
<1>8. PICK r \in Seq(A) : /\ Sent(p, cmds, n) = After(port[p], r)
                          /\ n = Len(cmds) => r = cmds
  BY <1>1, <1>7, SentIs
<1>9. e \in Near(d, port[p], X, N, Y, Shuts)
  <2>1. After(port[p], r) \in Near(d, port[p], X, N, Y, Shuts)
    BY <1>3, <1>8, AfterNear DEF A
  <2>2. QED  BY <1>8, <2>1
<1>10. b \in Near(d, port[p], X, N, Y, Shuts)
  BY <1>3, <1>5, AfterNear DEF A
<1>11. /\ b \in PortConfigs
       /\ Shuts \/ b.up
       /\ b.mode = "trunk" => d \in TrunkMode
  BY <1>10 DEF Near
<1>12. ASSUME n = Len(cmds)
       PROVE  e = After(b, plug)
  <2>1. e = After(port[p], clean \o plug)
    BY <1>6, <1>8, <1>12
  <2> HIDE DEF b
  <2>2. After(port[p], clean \o plug) = After(After(port[p], clean), plug)
    BY ONLY <1>4, <1>5, AfterConcat
  <2>3. QED  BY <2>1, <2>2 DEF b
<1>13. ASSUME n = Len(cmds)
       PROVE  (scenario.default => DefaultVlan \notin e.access) /\ e.up
  <2> HIDE DEF b
  <2>1. /\ scenario.default =>
             DefaultVlan \notin After(b, PlugCommands(v, t, vs)).access
        /\ After(b, PlugCommands(v, t, vs)).up
    BY <1>1, <1>11, PlugClears
  <2>2. QED  BY <1>12, <1>13, <2>1 DEF plug
<1>14. ASSUME n = Len(cmds), ~t
       PROVE  /\ e.mode # "trunk" /\ v \in e.access
              /\ d = "nvue" => e.native = {}
  <2> HIDE DEF b
  <2>1. /\ After(b, PlugCommands(v, FALSE, vs)).mode # "trunk"
        /\ v \in After(b, PlugCommands(v, FALSE, vs)).access
        /\ d = "nvue" => After(b, PlugCommands(v, FALSE, vs)).native = {}
    BY <1>1, <1>11, PlugAccess
  <2>2. t = FALSE
    BY <1>1, <1>14
  <2>3. plug = PlugCommands(v, FALSE, vs)
    BY <2>2 DEF plug
  <2>4. QED  BY <1>12, <1>14, <2>1, <2>3
<1>15. ASSUME n = Len(cmds), t
       PROVE  /\ d \in {"arista", "ios", "nvue"} =>
                   e.mode = "trunk" /\ v \in e.native /\ v \in e.tagged
              /\ d \in {"os10", "ovs"} => e.mode = "hybrid" /\ v \in e.access
              /\ Driver.trunks # {} => vs \subseteq e.tagged
  <2> HIDE DEF b
  <2>1. PICK g : g = After(b, PlugCommands(v, TRUE, vs))  OBVIOUS
  <2>2. /\ d \in {"arista", "ios", "nvue"} =>
             g.mode = "trunk" /\ v \in g.native /\ v \in g.tagged
        /\ d \in {"os10", "ovs"} => g.mode = "hybrid" /\ v \in g.access
        /\ Driver.trunks # {} => vs \subseteq g.tagged
    BY <1>1, <1>11, <2>1, PlugTrunk
  <2>3. t = TRUE
    BY <1>1, <1>15
  <2>4. plug = PlugCommands(v, TRUE, vs)
    BY <2>3 DEF plug
  <2>5. QED  BY <1>12, <1>15, <2>1, <2>2, <2>4
<1>16. QED  BY <1>9, <1>13, <1>14, <1>15

\* What is sent of an unplug.
LEMMA UnplugSent ==
  ASSUME TypeOK, NEW p \in Ports, Moded(p), net[p] # NoVlan,
         NEW cmds,
         cmds = IF scenario.kind = "bond" THEN UnplugBondCommands(net[p])
                                          ELSE UnplugCommands(net[p]),
         NEW n \in CutPoints(cmds), NEW e, e = Sent(p, cmds, n)
  PROVE  /\ e \in Near(scenario.driver, port[p], Spare,
                       IF scenario.driver = "nxos" THEN {} ELSE Spare, {},
                       Shuts)
         /\ n = Len(cmds) =>
              /\ net[p] \notin e.access
              /\ scenario.driver \in ClearsTrunks => e.tagged = {}
              /\ scenario.driver = "nvue" => e.native = {}
<1> DEFINE v == net[p]
           d == scenario.driver
           N == IF d = "nxos" THEN {} ELSE Spare
           A == Permitted(d, Spare, N, {}, Shuts)
<1>1. /\ scenario \in Scenarios /\ v \in Vlans /\ port[p] \in PortConfigs
  BY DEF TypeOK
<1>2. v \in AllVlans
  BY <1>1 DEF AllVlans
<1>3. port[p] \in Near(d, port[p], Spare, N, {}, Shuts)
  BY <1>1 DEF Near, Moded
<1>4. cmds = UnplugCommands(v)
  BY DEF UnplugBondCommands
<1>5. cmds \in Seq(A)
  <2>1. d \notin {"nvue", "nxos"} => Spare \subseteq N
    OBVIOUS
  <2>2. UnplugCommands(v) \in Seq(A)
    BY <1>1, <1>2, <2>1, UnplugMay
  <2>3. QED  BY <1>4, <2>2
<1> HIDE DEF A
<1>6. PICK r \in Seq(A) : /\ Sent(p, cmds, n) = After(port[p], r)
                          /\ n = Len(cmds) => r = cmds
  BY <1>1, <1>5, SentIs
<1>7. e \in Near(d, port[p], Spare, N, {}, Shuts)
  <2>1. After(port[p], r) \in Near(d, port[p], Spare, N, {}, Shuts)
    BY <1>3, <1>6, AfterNear DEF A
  <2>2. QED  BY <1>6, <2>1
<1>8. ASSUME n = Len(cmds)
      PROVE  /\ v \notin e.access
             /\ d \in ClearsTrunks => e.tagged = {}
             /\ d = "nvue" => e.native = {}
  <2>1. PICK g : g = After(port[p], UnplugCommands(v))  OBVIOUS
  <2>2. /\ v \notin g.access
        /\ d \in ClearsTrunks => g.tagged = {}
        /\ d = "nvue" => g.native = {}
    BY <1>1, <2>1, UnplugEffect
  <2>3. e = g
    BY <1>4, <1>6, <1>8, <2>1
  <2>4. QED  BY <2>2, <2>3
<1>9. QED  BY <1>7, <1>8

\* What is sent to add a subport.
LEMMA AddSent ==
  ASSUME TypeOK, NEW p \in Ports, Moded(p), NEW v \in Vlans,
         NEW n \in CutPoints(AddCommands(v)),
         NEW e, e = Sent(p, AddCommands(v), n)
  PROVE  /\ e \in Near(scenario.driver, port[p], {}, {},
                       IF scenario.kind \in Driver.trunks THEN {v} ELSE {},
                       Shuts)
         /\ e \in Widened(scenario.driver, port[p])
         /\ n = Len(AddCommands(v)) /\ scenario.kind \in Driver.trunks
              => v \in e.tagged
<1> DEFINE d == scenario.driver
           Y == IF scenario.kind \in Driver.trunks THEN {v} ELSE {}
           A == AddSet(d, v) \cap Permitted(d, {}, {}, Y, Shuts)
<1>1. scenario \in Scenarios /\ port[p] \in PortConfigs /\ v \in AllVlans
  BY DEF TypeOK, AllVlans
<1>2. port[p] \in Near(d, port[p], {}, {}, Y, Shuts)
  BY <1>1 DEF Near, Moded
<1>3. AddCommands(v) \in Seq(A)
  <2>1. CASE scenario.kind \in Driver.trunks
    <3>1. AddSet(d, v) \subseteq Permitted(d, {}, {}, Y, Shuts)
      BY <1>1, <2>1 DEF AddSet, Permitted, TrunkLines, Lines
    <3>2. AddSet(d, v) \subseteq A
      BY <3>1
    <3> HIDE DEF A
    <3>3. QED  BY <1>1, <3>2, AddIs, SeqMono
  <2>2. CASE scenario.kind \notin Driver.trunks
    BY <2>2 DEF AddCommands, When
  <2>3. QED  BY <2>1, <2>2
<1>4. A \subseteq AddSet(d, v) /\ A \subseteq Permitted(d, {}, {}, Y, Shuts)
  OBVIOUS
<1> HIDE DEF A
<1>5. PICK r \in Seq(A) :
        /\ Sent(p, AddCommands(v), n) = After(port[p], r)
        /\ n = Len(AddCommands(v)) => r = AddCommands(v)
  BY <1>1, <1>3, SentIs
<1>6. r \in Seq(AddSet(d, v)) /\ r \in Seq(Permitted(d, {}, {}, Y, Shuts))
  BY ONLY <1>4, <1>5, SeqMono
<1>7. e \in Near(d, port[p], {}, {}, Y, Shuts)
  BY <1>2, <1>5, <1>6, AfterNear
<1>8. e \in Widened(d, port[p])
  BY <1>1, <1>5, <1>6, AddKeeps
<1>9. n = Len(AddCommands(v)) /\ scenario.kind \in Driver.trunks
        => v \in e.tagged
  BY <1>1, <1>5, AddEffect
<1>10. QED  BY <1>7, <1>8, <1>9

\* What is sent to delete a subport.
LEMMA DelSent ==
  ASSUME TypeOK, NEW p \in Ports, NEW v \in Vlans,
         NEW n \in CutPoints(DelCommands(v)),
         NEW e, e = Sent(p, DelCommands(v), n)
  PROVE  /\ e \in Narrowed(port[p], v)
         /\ n = Len(DelCommands(v)) /\ scenario.kind \in Driver.trunks
              => v \notin e.tagged
<1>1. scenario \in Scenarios /\ port[p] \in PortConfigs
  BY DEF TypeOK
<1>2. DelCommands(v) \in Seq(UntrunkLines \X {v})
  BY <1>1, DelIs
<1>3. PICK r \in Seq(UntrunkLines \X {v}) :
        /\ Sent(p, DelCommands(v), n) = After(port[p], r)
        /\ n = Len(DelCommands(v)) => r = DelCommands(v)
  BY <1>1, <1>2, SentIs
<1>4. e \in Narrowed(port[p], v)
  BY <1>1, <1>3, DelKeeps
<1>5. n = Len(DelCommands(v)) /\ scenario.kind \in Driver.trunks
        => v \notin e.tagged
  BY <1>1, <1>3, DelEffect
<1>6. QED  BY <1>4, <1>5

-----------------------------------------------------------------------------
(* Neutron changes.                                                        *)

\* A step that leaves the overlay alone keeps what SPInv says of a VLAN, if no
\* port leaves it.
LEMMA OverlayStays ==
  ASSUME SPInv, UNCHANGED <<scenario, overlay>>, NEW w \in Vlans,
         (\A q \in Ports : net'[q] # w) => (\A q \in Ports : net[q] # w)
  PROVE  Complete(w)' /\ Whole(w)' /\ Unmapped(w)'
<1>1. Complete(w) /\ Whole(w) /\ Unmapped(w)
  BY DEF SPInv
<1>2. scenario' = scenario /\ overlay' = overlay
  OBVIOUS
<1>3. QED
  BY <1>1, <1>2 DEF Complete, CompleteIn, Whole, Unmapped, Vni

\* A step that leaves the overlay alone keeps the VLAN of a port mapped.
LEMMA MappedStays ==
  ASSUME NEW p, Mapped(p), UNCHANGED <<scenario, overlay>>,
         net'[p] = net[p], active'[p] = active[p], port'[p] = port[p]
  PROVE  Mapped(p)'
BY DEF Mapped, Vni

\* A port is bound.
LEMMA BindKeeps ==
  ASSUME SPInv, NEW p \in Ports, NEW v \in scenario.vlans, Bind(p, v)
  PROVE  SPInv'
<1>1. /\ TypeOK /\ scenario \in Scenarios /\ v \in Vlans
      /\ v # NoVlan /\ v \notin subs[p] /\ net[p] = NoVlan
  <2>1. TypeOK /\ scenario \in Scenarios
    BY DEF SPInv, TypeOK
  <2>2. QED  BY <2>1, DriverIsGood, VlanAssumption DEF Bind
<1>2. /\ net' = [net EXCEPT ![p] = v]
      /\ scenario' = scenario /\ trunk' = trunk /\ subs' = subs
      /\ active' = active /\ port' = port /\ overlay' = overlay
      /\ unsure' = unsure
  BY DEF Bind, switchVars
<1>3. net'[p] = v /\ \A q \in Ports : q # p => net'[q] = net[q]
  BY <1>1, <1>2 DEF TypeOK
<1>4. TypeOK'
  BY <1>1, <1>2 DEF TypeOK
<1>5. Local(p) /\ active[p] = "no"
  BY <1>1 DEF SPInv, Local, Trunked
<1>6. port[p].access \subseteq unsure[p] \cup Spare
  <2>1. port[p].access \subseteq AllVlans /\ NoVlan \notin AllVlans
    BY <1>1, VlanAssumption DEF TypeOK, PortConfigs, AllVlans
  <2>2. QED  BY <1>1, <1>5, <2>1 DEF Local, Own
<1>7. Local(p)'
  <2>1. Trunked(p)'
    BY <1>1, <1>2, <1>3, <1>5 DEF Local, Trunked, Driver
  <2>2. Moded(p)'
    BY <1>2, <1>5 DEF Local, Moded, Shuts, Driver
  <2>3. Own(p)'
    BY <1>1, <1>2, <1>3, <1>5, <1>6
    DEF Local, Own, Spare, Clears, Driver
  <2>4. Connected(p)'
    BY <1>2, <1>5 DEF Connected
  <2>5. NoNative(p)'
    BY <1>2, <1>5 DEF Local, NoNative
  <2>6. QED  BY <2>1, <2>2, <2>3, <2>4, <2>5 DEF Local
<1>8. ASSUME NEW q \in Ports, q # p
      PROVE  Local(q)' /\ Mapped(q)'
  BY <1>2, <1>3, <1>8, LocalKept, MappedStays DEF SPInv
<1>9. Mapped(p)'
  BY <1>2, <1>5 DEF Mapped
<1>10. ASSUME NEW w \in Vlans
       PROVE  Complete(w)' /\ Whole(w)' /\ Unmapped(w)'
  <2>1. w # NoVlan
    BY VlanAssumption
  <2>2. (\A q \in Ports : net'[q] # w) => (\A q \in Ports : net[q] # w)
    BY <1>1, <1>3, <2>1
  <2>3. QED  BY <1>2, <2>2, OverlayStays
<1>11. QED  BY <1>4, <1>7, <1>8, <1>9, <1>10 DEF SPInv

\* A port becomes the parent of a trunk.
LEMMA CreateTrunkKeeps ==
  ASSUME SPInv, NEW p \in Ports, CreateTrunk(p)
  PROVE  SPInv'
<1>1. TypeOK /\ Local(p) /\ scenario.trunks /\ ~trunk[p]
  BY DEF SPInv, CreateTrunk
<1>2. /\ trunk' = [trunk EXCEPT ![p] = TRUE]
      /\ scenario' = scenario /\ net' = net /\ subs' = subs
      /\ active' = active /\ port' = port /\ overlay' = overlay
      /\ unsure' = unsure
  BY DEF CreateTrunk, switchVars
<1>3. trunk'[p] = TRUE /\ \A q \in Ports : q # p => trunk'[q] = trunk[q]
  BY <1>1, <1>2 DEF TypeOK
<1>4. TypeOK'
  BY <1>1, <1>2 DEF TypeOK
<1>5. Local(p)'
  <2>1. Trunked(p)'
    BY <1>1, <1>2, <1>3 DEF Local, Trunked, Driver
  <2>2. Moded(p)'
    BY <1>1, <1>2 DEF Local, Moded, Shuts, Driver
  <2>3. Own(p)'
    BY <1>1, <1>2 DEF Local, Own, Spare, Clears, Driver
  <2>4. active[p] # "trunk"
    BY <1>1 DEF Local, Trunked
  <2>5. Connected(p)'
    BY <1>2, <1>3, <2>4 DEF Connected
  <2>6. NoNative(p)'
    BY <1>1, <1>2 DEF Local, NoNative
  <2>7. QED  BY <2>1, <2>2, <2>3, <2>5, <2>6 DEF Local
<1>6. ASSUME NEW q \in Ports, q # p
      PROVE  Local(q)'
  BY <1>2, <1>3, <1>6, LocalKept DEF SPInv
<1>7. ASSUME NEW q \in Ports
      PROVE  Mapped(q)'
  BY <1>2, MappedStays DEF SPInv
<1>8. ASSUME NEW w \in Vlans
      PROVE  Complete(w)' /\ Whole(w)' /\ Unmapped(w)'
  BY <1>2, OverlayStays
<1>9. QED  BY <1>4, <1>5, <1>6, <1>7, <1>8 DEF SPInv

\* Trunk and subports of a port that is not bound.
LEMMA UnboundKeeps ==
  ASSUME SPInv, NEW p \in Ports, net[p] = NoVlan, trunk[p],
         NEW t \in BOOLEAN, trunk' = [trunk EXCEPT ![p] = t],
         NEW vs \in SUBSET Vlans, subs' = [subs EXCEPT ![p] = vs],
         vs # {} => t,
         UNCHANGED <<scenario, net, switchVars>>
  PROVE  SPInv'
<1>1. TypeOK /\ Local(p)
  BY DEF SPInv
<1>2. /\ scenario' = scenario /\ net' = net
      /\ active' = active /\ port' = port /\ overlay' = overlay
      /\ unsure' = unsure
  BY DEF switchVars
<1>3. /\ trunk'[p] = t /\ subs'[p] = vs
      /\ \A q \in Ports : q # p => trunk'[q] = trunk[q] /\ subs'[q] = subs[q]
  BY <1>1 DEF TypeOK
<1>4. TypeOK'
  BY <1>1, <1>2 DEF TypeOK
<1>5. Local(p)'
  <2>1. active[p] = "no"
    BY <1>1 DEF Local, Trunked
  <2>2. Trunked(p)'
    BY <1>1, <1>2, <1>3, <2>1, VlanAssumption DEF Local, Trunked, Driver
  <2>3. Moded(p)'
    BY <1>1, <1>2 DEF Local, Moded, Shuts, Driver
  <2>4. Own(p)'
    BY <1>1, <1>2 DEF Local, Own, Spare, Clears, Driver
  <2>5. Connected(p)'
    BY <1>2, <2>1 DEF Connected
  <2>6. NoNative(p)'
    BY <1>1, <1>2 DEF Local, NoNative
  <2>7. QED  BY <2>2, <2>3, <2>4, <2>5, <2>6 DEF Local
<1>6. ASSUME NEW q \in Ports, q # p
      PROVE  Local(q)'
  BY <1>2, <1>3, <1>6, LocalKept DEF SPInv
<1>7. ASSUME NEW q \in Ports
      PROVE  Mapped(q)'
  BY <1>2, MappedStays DEF SPInv
<1>8. ASSUME NEW w \in Vlans
      PROVE  Complete(w)' /\ Whole(w)' /\ Unmapped(w)'
  BY <1>2, OverlayStays
<1>9. QED  BY <1>4, <1>5, <1>6, <1>7, <1>8 DEF SPInv

\* A trunk is deleted.
LEMMA DeleteTrunkKeeps ==
  ASSUME SPInv, NEW p \in Ports, DeleteTrunk(p)
  PROVE  SPInv'
BY UnboundKeeps DEF DeleteTrunk

\* Subports of a port that is not bound.
LEMMA ChangeSubportsKeeps ==
  ASSUME SPInv, NEW p \in Ports, NEW v \in scenario.vlans, ChangeSubports(p, v)
  PROVE  SPInv'
<1>1. TypeOK /\ v \in Vlans
  <2>1. TypeOK /\ scenario \in Scenarios
    BY DEF SPInv, TypeOK
  <2>2. QED  BY <2>1, DriverIsGood
<1>2. PICK vs : vs = IF v \in subs[p] THEN subs[p] \ {v} ELSE subs[p] \cup {v}
  OBVIOUS
<1>3. vs \in SUBSET Vlans
  BY <1>1, <1>2 DEF TypeOK
<1>4. subs' = [subs EXCEPT ![p] = vs] /\ trunk' = [trunk EXCEPT ![p] = TRUE]
  BY <1>1, <1>2 DEF ChangeSubports, TypeOK
<1>5. /\ net[p] = NoVlan /\ trunk[p]
      /\ UNCHANGED <<scenario, net, switchVars>>
  BY DEF ChangeSubports
<1>6. QED  BY <1>3, <1>4, <1>5, UnboundKeeps

-----------------------------------------------------------------------------
(* A port is plugged.                                                      *)

\* The overlay of a VLAN is configured, while one of its ports is bound.
LEMMA ConfigureKeeps ==
  ASSUME SPInv, UNCHANGED <<scenario, net>>, NEW v \in Vlans,
         NEW ok, ConfigureVni(v, ok),
         ~scenario.trunks => \E q \in Ports : net[q] = v
  PROVE  /\ overlay' \in [Vlans -> SUBSET Pieces]
         /\ \A w \in Vlans : Complete(w)' /\ Whole(w)' /\ Unmapped(w)'
         /\ ~scenario.faults =>
              /\ overlay'[v] = Range(Vni.plug)
              /\ \A w \in Vlans : w # v => overlay'[w] = overlay[w]
<1>1. /\ scenario \in Scenarios /\ overlay \in [Vlans -> SUBSET Pieces]
      /\ CompleteIn(overlay[v])
      /\ ~scenario.faults => overlay[v] \in {{}, Range(Vni.plug)}
  BY DEF SPInv, TypeOK, Complete, Whole
<1>2. /\ overlay' \in [Vlans -> SUBSET Pieces]
      /\ \A w \in Vlans : w # v => overlay'[w] = overlay[w]
      /\ overlay[v] \subseteq overlay'[v]
      /\ ~scenario.faults => overlay'[v] = Range(Vni.plug)
      /\ CompleteIn(overlay'[v])
  BY <1>1, ConfigureIs
<1>3. scenario' = scenario /\ net' = net
  OBVIOUS
<1>4. ASSUME NEW w \in Vlans
      PROVE  Complete(w)' /\ Whole(w)' /\ Unmapped(w)'
  <2>1. Complete(w) /\ Whole(w) /\ Unmapped(w)
    BY DEF SPInv
  <2>2. CompleteIn(overlay'[w])
    BY <1>2, <2>1 DEF Complete
  <2>3. Complete(w)'
    BY <1>3, <2>2 DEF Complete, CompleteIn, Vni
  <2>4. Whole(w)'
    BY <1>2, <1>3, <2>1 DEF Whole, Vni
  <2>5. Unmapped(w)'
    BY <1>2, <1>3, <2>1 DEF Unmapped
  <2>6. QED  BY <2>3, <2>4, <2>5
<1>5. QED  BY <1>2, <1>4

\* The VLANs of the other ports stay mapped.
LEMMA OthersMapped ==
  ASSUME SPInv, UNCHANGED <<scenario, net>>, NEW v \in Vlans,
         ~scenario.faults =>
           /\ overlay'[v] = Range(Vni.plug)
           /\ \A w \in Vlans : w # v => overlay'[w] = overlay[w],
         NEW q \in Ports, active'[q] = active[q], port'[q] = port[q]
  PROVE  Mapped(q)'
<1>1. Mapped(q) /\ (active[q] # "no" => net[q] \in Vlans)
  BY DEF SPInv, TypeOK, Local, Trunked
<1>2. QED  BY <1>1 DEF Mapped, Vni

\* Plug keeps the invariant: it succeeds, it fails at the overlay, or it fails
\* after some of its commands.
LEMMA PlugKeeps ==
  ASSUME SPInv, NEW p \in Ports, Plug(p)
  PROVE  SPInv'
<1> DEFINE v == net[p]
<1>1. /\ TypeOK /\ Local(p) /\ v \in Vlans /\ v # NoVlan /\ active[p] = "no"
      /\ scenario' = scenario /\ net' = net /\ trunk' = trunk /\ subs' = subs
      /\ scenario \in Scenarios
  BY DEF SPInv, TypeOK, Plug, neutronVars
<1>2. ~scenario.trunks => \E q \in Ports : net[q] = v
  OBVIOUS
<1>3. ASSUME NEW ok, ConfigureVni(v, ok), UNCHANGED port, Fail(p, {})
      PROVE  SPInv'
  <2>1. /\ overlay' \in [Vlans -> SUBSET Pieces]
        /\ \A w \in Vlans : Complete(w)' /\ Whole(w)' /\ Unmapped(w)'
        /\ ~scenario.faults =>
             /\ overlay'[v] = Range(Vni.plug)
             /\ \A w \in Vlans : w # v => overlay'[w] = overlay[w]
    BY <1>1, <1>2, <1>3, ConfigureKeeps
  <2>2. active' = active /\ port' = port /\ unsure' = unsure
    BY <1>1, <1>3 DEF Fail, TypeOK
  <2>3. TypeOK'
    BY <1>1, <2>1, <2>2 DEF TypeOK
  <2>4. ASSUME NEW q \in Ports
        PROVE  Local(q)' /\ Mapped(q)'
    <3>1. Local(q)'
      BY <1>1, <2>2, LocalKept DEF SPInv
    <3>2. Mapped(q)'
      BY <1>1, <2>1, <2>2, OthersMapped
    <3>3. QED  BY <3>1, <3>2
  <2>5. QED  BY <2>1, <2>3, <2>4 DEF SPInv
<1>4. ASSUME ConfigureVni(v, TRUE), Supported(p),
             NEW cmds,
             cmds = CleanCommands(p)
                      \o IF scenario.kind = "bond"
                           THEN PlugBondCommands(net[p], trunk[p], subs[p])
                           ELSE PlugCommands(net[p], trunk[p], subs[p]),
             NEW n \in CutPoints(cmds), NEW ok \in BOOLEAN,
             MaySucceed(cmds, n, ok),
             port' = [port EXCEPT ![p] = Sent(p, cmds, n)],
             IF ok
               THEN /\ active' = [active EXCEPT ![p] =
                                    IF trunk[p] THEN "trunk" ELSE "access"]
                    /\ Succeed(p, {})
               ELSE Fail(p, Concerned(p))
      PROVE  SPInv'
  <2>1. PICK e : e = Sent(p, cmds, n)  OBVIOUS
  <2> DEFINE N == IF scenario.driver = "nxos" THEN {} ELSE {v} \cup Spare
             Y == IF trunk[p] THEN {v} \cup subs[p] ELSE {}
  <2>2. e \in Near(scenario.driver, port[p], {v} \cup Spare, N, Y, Shuts)
    BY <1>1, <1>4, <2>1, PlugSent DEF Local
  <2>3. /\ e \in PortConfigs
        /\ e.mode = "trunk" => scenario.driver \in TrunkMode
        /\ e.access \subseteq port[p].access \cup {v} \cup Spare
        /\ e.native \subseteq port[p].native \cup N
        /\ e.tagged \subseteq port[p].tagged \cup Y
        /\ Shuts \/ e.up
    BY <2>2 DEF Near
  <2>4. ASSUME ok
        PROVE  /\ scenario.default => DefaultVlan \notin e.access
               /\ e.up
               /\ ~trunk[p] =>
                    /\ e.mode # "trunk" /\ v \in e.access
                    /\ scenario.driver = "nvue" => e.native = {}
               /\ trunk[p] =>
                    /\ scenario.driver \in {"arista", "ios", "nvue"} =>
                         /\ e.mode = "trunk"
                         /\ v \in e.native /\ v \in e.tagged
                    /\ scenario.driver \in {"os10", "ovs"} =>
                         e.mode = "hybrid" /\ v \in e.access
                    /\ Driver.trunks # {} => subs[p] \subseteq e.tagged
    <3>1. n = Len(cmds)
      BY <1>4, <2>4 DEF MaySucceed
    <3>2. QED  BY <1>1, <1>4, <2>1, <3>1, PlugSent DEF Local
  <2>5. ~ok => scenario.faults
    BY <1>4 DEF MaySucceed
  <2>6. port'[p] = e /\ \A q \in Ports : q # p => port'[q] = port[q]
    BY <1>1, <1>4, <2>1 DEF TypeOK
  <2>7. port' \in [Ports -> PortConfigs]
    BY <1>1, <1>4, <2>1, <2>3 DEF TypeOK
  <2>8. /\ overlay' \in [Vlans -> SUBSET Pieces]
        /\ \A w \in Vlans : Complete(w)' /\ Whole(w)' /\ Unmapped(w)'
        /\ ~scenario.faults =>
             /\ overlay'[v] = Range(Vni.plug)
             /\ \A w \in Vlans : w # v => overlay'[w] = overlay[w]
    BY <1>1, <1>2, <1>4, ConfigureKeeps
  <2>9. /\ active'[p] = IF ~ok THEN "no"
                        ELSE IF trunk[p] THEN "trunk" ELSE "access"
        /\ \A q \in Ports : q # p => active'[q] = active[q]
        /\ active' \in [Ports -> {"no", "access", "trunk"}]
    BY <1>1, <1>4 DEF Fail, TypeOK
  <2>10. /\ ok => unsure'[p] = unsure[p]
                                 \cap (e.access \cup e.native \cup e.tagged)
         /\ ~ok => unsure'[p] = unsure[p] \cup Concerned(p)
         /\ \A q \in Ports : q # p => unsure'[q] = unsure[q]
         /\ unsure' \in [Ports -> SUBSET AllVlans]
    <3>1. Concerned(p) \subseteq AllVlans
      BY <1>1 DEF Concerned, AllVlans, TypeOK
    <3>2. CASE ok
      BY <1>1, <1>4, <2>6, <3>2 DEF Succeed, TypeOK
    <3>3. CASE ~ok
      BY <1>1, <1>4, <3>1, <3>3 DEF Fail, TypeOK
    <3>4. QED  BY <3>2, <3>3
  <2>11. TypeOK'
    BY <1>1, <2>7, <2>8, <2>9, <2>10 DEF TypeOK
  <2>12. Concerned(p) = {v} \cup (IF trunk[p] THEN subs[p] ELSE {}) \cup Spare
    BY DEF Concerned, Spare
  <2>13. /\ Trunked(p) /\ Moded(p) /\ Own(p) /\ NoNative(p)
         /\ v \notin subs[p] /\ (subs[p] # {} => trunk[p])
         /\ trunk[p] => scenario.trunks /\ scenario.kind \in Driver.trunks
    BY <1>1, <1>4 DEF Local, Trunked, Supported
  <2>14. Trunked(p)'
    BY <1>1, <2>5, <2>9, <2>10, <2>13 DEF Trunked, Driver
  <2>15. Moded(p)'
    BY <1>1, <2>3, <2>6 DEF Moded, Shuts, Driver
  <2>16. Own(p)'
    <3>1. port'[p].access \subseteq
            {v} \cup unsure'[p] \cup (IF active'[p] = "no" THEN Spare ELSE {})
      <4>1. port[p].access \subseteq {v} \cup unsure[p] \cup Spare
        BY <1>1, <2>13 DEF Own
      <4>2. CASE ok
        <5>1. Spare \cap e.access = {}
          BY <2>4, <4>2 DEF Spare
        <5>2. QED
          BY ONLY <2>3, <2>6, <2>10, <4>1, <4>2, <5>1
      <4>3. CASE ~ok
        BY ONLY <2>3, <2>6, <2>10, <2>12, <4>1, <4>3
      <4>4. QED  BY <4>2, <4>3
    <3>2. Clears => port'[p].tagged \subseteq {v} \cup subs[p] \cup unsure'[p]
      <4>1. Clears =>
              port[p].tagged \subseteq {v} \cup subs[p] \cup unsure[p]
        BY <1>1, <2>13 DEF Own
      <4>2. QED
        BY ONLY <2>3, <2>6, <2>10, <4>1
    <3>3. ~scenario.trunks \/ scenario.kind \notin Driver.trunks
            => port'[p].tagged = {}
      BY <2>3, <2>6, <2>13 DEF Own
    <3>4. Clears' = Clears /\ Spare' = Spare /\ Driver' = Driver
      BY <1>1 DEF Clears, Spare, Driver
    <3>5. QED  BY <1>1, <3>1, <3>2, <3>3, <3>4 DEF Own
  <2>17. Connected(p)'
    <3>1. active'[p] = "access" /\ ~trunk'[p] =>
            port'[p].mode # "trunk" /\ net'[p] \in port'[p].access
              /\ port'[p].up
      BY <1>1, <2>4, <2>6, <2>9
    <3>2. ASSUME active'[p] = "trunk", SetsNative
          PROVE  /\ port'[p].mode # "access"
                 /\ port'[p].mode = "trunk" =>
                      /\ scenario.driver \in {"arista", "ios", "nvue"}
                      /\ net'[p] \in port'[p].native \cap port'[p].tagged
                 /\ port'[p].mode = "hybrid" =>
                      /\ scenario.driver \in {"os10", "ovs"}
                      /\ net'[p] \in port'[p].access
                 /\ subs'[p] \ unsure'[p] \subseteq port'[p].tagged
                 /\ port'[p].up
      <4>1. ok /\ trunk[p]
        BY <2>9, <3>2
      <4>2. scenario.driver \in {"arista", "ios", "nvue", "os10", "ovs"}
        BY <1>1, <3>2, DriverIsGood DEF Good, NativeTemplate, SetsNative
      <4>3. QED  BY <1>1, <2>4, <2>6, <2>13, <4>1, <4>2
    <3>3. SetsNative' = SetsNative
      BY <1>1 DEF SetsNative, Driver
    <3>4. QED  BY <1>1, <3>1, <3>2, <3>3 DEF Connected
  <2>18. NoNative(p)'
    <3>1. ASSUME scenario.driver = "nxos"
          PROVE  port'[p].native = {}
      BY <2>3, <2>6, <2>13, <3>1 DEF NoNative
    <3>2. ASSUME scenario.driver = "nvue", ~scenario.faults,
                 port'[p].mode # "trunk"
          PROVE  port'[p].native = {}
      BY <2>4, <2>5, <2>6, <3>2
    <3>3. QED  BY <1>1, <3>1, <3>2 DEF NoNative
  <2>19. Mapped(p)'
    BY <1>1, <2>8 DEF Mapped, Vni
  <2>20. ASSUME NEW q \in Ports, q # p
         PROVE  Local(q)' /\ Mapped(q)'
    <3>1. Local(q)'
      BY <1>1, <2>6, <2>9, <2>10, <2>20, LocalKept DEF SPInv
    <3>2. Mapped(q)'
      BY <1>1, <2>6, <2>8, <2>9, <2>20, OthersMapped
    <3>3. QED  BY <3>1, <3>2
  <2>21. QED
    BY <2>8, <2>11, <2>14, <2>15, <2>16, <2>17, <2>18, <2>19, <2>20
    DEF SPInv, Local
<1>5. QED  BY <1>3, <1>4 DEF Plug

-----------------------------------------------------------------------------
(* A port is unplugged.                                                    *)

\* The overlay of a VLAN is removed.
LEMMA RemoveKeeps ==
  ASSUME SPInv, UNCHANGED scenario, NEW v \in Vlans, NEW ports,
         RemoveVni(v, ports)
  PROVE  /\ overlay' \in [Vlans -> SUBSET Pieces]
         /\ \A w \in Vlans : Complete(w)' /\ Whole(w)'
         /\ \A w \in Vlans : w # v => overlay'[w] = overlay[w]
         /\ VlanHasPorts(v, ports) => overlay' = overlay
         /\ ~scenario.faults /\ ~VlanHasPorts(v, ports) => overlay'[v] = {}
<1>1. /\ scenario \in Scenarios /\ overlay \in [Vlans -> SUBSET Pieces]
      /\ CompleteIn(overlay[v])
      /\ ~scenario.faults => overlay[v] \in {{}, Range(Vni.plug)}
  BY DEF SPInv, TypeOK, Complete, Whole
<1>2. /\ overlay' \in [Vlans -> SUBSET Pieces]
      /\ \A w \in Vlans : w # v => overlay'[w] = overlay[w]
      /\ VlanHasPorts(v, ports) => overlay' = overlay
      /\ ~scenario.faults /\ ~VlanHasPorts(v, ports) => overlay'[v] = {}
      /\ CompleteIn(overlay'[v])
  BY <1>1, RemoveIs
<1>3. ASSUME NEW w \in Vlans
      PROVE  Complete(w)' /\ Whole(w)'
  <2>1. Complete(w) /\ Whole(w)
    BY DEF SPInv
  <2>2. CompleteIn(overlay'[w])
    BY <1>2, <2>1 DEF Complete
  <2>3. Complete(w)'
    BY <2>2 DEF Complete, CompleteIn, Vni
  <2>4. ~scenario.faults => overlay'[w] \in {{}, Range(Vni.plug)}
    BY <1>1, <1>2, <2>1 DEF Whole
  <2>5. Whole(w)'
    BY <2>4 DEF Whole, Vni
  <2>6. QED  BY <2>3, <2>5
<1>4. QED  BY <1>2, <1>3

\* The VLAN of a port that is in it stays mapped: vlan_has_ports sees the
\* port.
LEMMA ServedStay ==
  ASSUME SPInv, UNCHANGED scenario, NEW v \in Vlans,
         \A w \in Vlans : w # v => overlay'[w] = overlay[w],
         VlanHasPorts(v, port') => overlay' = overlay,
         NEW q \in Ports, net'[q] = net[q], active'[q] = active[q],
         net[q] \in Untagged(port'[q]) => net[q] \in Untagged(port[q])
  PROVE  Mapped(q)'
<1>1. Mapped(q) /\ (active[q] # "no" => net[q] \in Vlans)
  BY DEF SPInv, TypeOK, Local, Trunked
<1>2. "untagged" \in Vni.members
  <2>1. scenario \in Scenarios
    BY DEF SPInv, TypeOK
  <2>2. QED  BY <2>1, OverlaysAreGood DEF GoodVni
<1>3. ASSUME ~scenario.faults, active[q] # "no", net[q] \in Untagged(port'[q])
      PROVE  overlay'[net[q]] = Range(Vni.plug)
  <2>1. overlay[net[q]] = Range(Vni.plug)
    BY <1>1, <1>3 DEF Mapped
  <2>2. CASE net[q] = v
    <3>1. VlanHasPorts(v, port')
      BY <1>2, <1>3, <2>2 DEF VlanHasPorts
    <3>2. QED  BY <2>1, <3>1
  <2>3. CASE net[q] # v
    BY <1>1, <1>3, <2>1, <2>3
  <2>4. QED  BY <2>2, <2>3
<1>4. (net[q] \in Untagged(port[q]))' <=> net[q] \in Untagged(port'[q])
  BY DEF Untagged
<1>5. QED  BY <1>3, <1>4 DEF Mapped, Vni

\* Unplug keeps the invariant: without trunks the last port to leave a VLAN
\* takes the overlay along.
LEMMA UnplugKeeps ==
  ASSUME SPInv, NEW p \in Ports, Unplug(p)
  PROVE  SPInv'
<1> DEFINE v == net[p]
<1>1. /\ TypeOK /\ Local(p) /\ v \in Vlans /\ v # NoVlan
      /\ scenario' = scenario /\ trunk' = trunk /\ subs' = subs
      /\ scenario \in Scenarios
      /\ net' = [net EXCEPT ![p] = NoVlan]
      /\ active' = [active EXCEPT ![p] = "no"]
  BY DEF SPInv, TypeOK, Unplug
<1>2. PICK cmds : cmds = IF scenario.kind = "bond"
                           THEN UnplugBondCommands(net[p])
                           ELSE UnplugCommands(net[p])
  OBVIOUS
<1>3. PICK n \in CutPoints(cmds), ok \in BOOLEAN :
        /\ MaySucceed(cmds, n, ok)
        /\ port' = [port EXCEPT ![p] = Sent(p, cmds, n)]
        /\ IF ok
             THEN /\ Succeed(p, {})
                  /\ RemoveVni(net[p], port')
             ELSE /\ unsure' = [unsure EXCEPT ![p] = @ \cup Concerned(p)]
                  /\ UNCHANGED overlay
  BY <1>2 DEF Unplug
<1>4. PICK e : e = Sent(p, cmds, n)  OBVIOUS
<1> DEFINE N == IF scenario.driver = "nxos" THEN {} ELSE Spare
<1>5. e \in Near(scenario.driver, port[p], Spare, N, {}, Shuts)
  BY <1>1, <1>2, <1>4, UnplugSent DEF Local
<1>6. /\ e \in PortConfigs
      /\ e.mode = "trunk" => scenario.driver \in TrunkMode
      /\ e.access \subseteq port[p].access \cup Spare
      /\ e.native \subseteq port[p].native \cup N
      /\ e.tagged \subseteq port[p].tagged
      /\ Shuts \/ e.up
  BY <1>5 DEF Near
<1>7. ASSUME ok
      PROVE  /\ v \notin e.access
             /\ scenario.driver \in ClearsTrunks => e.tagged = {}
             /\ scenario.driver = "nvue" => e.native = {}
  <2>1. n = Len(cmds)
    BY <1>3, <1>7 DEF MaySucceed
  <2>2. QED  BY <1>1, <1>2, <1>4, <2>1, UnplugSent DEF Local
<1>8. ~ok => scenario.faults
  BY <1>3 DEF MaySucceed
<1>9. port'[p] = e /\ \A q \in Ports : q # p => port'[q] = port[q]
  BY <1>1, <1>3, <1>4 DEF TypeOK
<1>10. port' \in [Ports -> PortConfigs]
  BY <1>1, <1>3, <1>4, <1>6 DEF TypeOK
<1>11. /\ net'[p] = NoVlan /\ \A q \in Ports : q # p => net'[q] = net[q]
       /\ active'[p] = "no"
       /\ \A q \in Ports : q # p => active'[q] = active[q]
       /\ net' \in [Ports -> Vlans \cup {NoVlan}]
       /\ active' \in [Ports -> {"no", "access", "trunk"}]
  BY <1>1 DEF TypeOK
<1>12. Concerned(p) = {v} \cup (IF trunk[p] THEN subs[p] ELSE {}) \cup Spare
  BY DEF Concerned, Spare
<1>13. /\ ok => unsure'[p] = unsure[p]
                               \cap (e.access \cup e.native \cup e.tagged)
       /\ ~ok => unsure'[p] = unsure[p] \cup Concerned(p)
       /\ \A q \in Ports : q # p => unsure'[q] = unsure[q]
       /\ unsure' \in [Ports -> SUBSET AllVlans]
  <2>1. Concerned(p) \subseteq AllVlans
    BY <1>1 DEF Concerned, AllVlans, TypeOK
  <2>2. CASE ok
    BY <1>1, <1>3, <1>9, <2>2 DEF Succeed, TypeOK
  <2>3. CASE ~ok
    BY <1>1, <1>3, <2>1, <2>3 DEF TypeOK
  <2>4. QED  BY <2>2, <2>3
<1>14. /\ overlay' \in [Vlans -> SUBSET Pieces]
       /\ \A w \in Vlans : Complete(w)' /\ Whole(w)'
       /\ \A w \in Vlans : w # v => overlay'[w] = overlay[w]
       /\ VlanHasPorts(v, port') => overlay' = overlay
       /\ ~scenario.faults /\ ~VlanHasPorts(v, port') => overlay'[v] = {}
  <2>1. CASE ok
    <3>1. RemoveVni(v, port')
      BY <1>3, <2>1
    <3>2. QED  BY <1>1, <3>1, RemoveKeeps
  <2>2. CASE ~ok
    <3>1. overlay' = overlay /\ scenario.faults
      BY <1>3, <1>8, <2>2
    <3>2. \A w \in Vlans : Complete(w) /\ Whole(w)
      BY DEF SPInv
    <3>3. ASSUME NEW w \in Vlans
          PROVE  Complete(w)' /\ Whole(w)'
      BY <1>1, <3>1, <3>2 DEF Complete, CompleteIn, Whole, Vni
    <3>4. QED  BY <1>1, <3>1, <3>3 DEF TypeOK
  <2>3. QED  BY <2>1, <2>2
<1>15. TypeOK'
  BY <1>1, <1>10, <1>11, <1>13, <1>14 DEF TypeOK
<1>16. /\ Trunked(p) /\ Moded(p) /\ Own(p) /\ NoNative(p)
       /\ v \notin subs[p] /\ (subs[p] # {} => trunk[p])
       /\ subs[p] \subseteq Vlans
  BY <1>1 DEF Local, Trunked, TypeOK
<1>17. Trunked(p)'
  <2>1. NoVlan \notin subs[p]
    BY <1>16, VlanAssumption
  <2>2. QED
    BY <1>1, <1>8, <1>11, <1>13, <1>16, <2>1 DEF Trunked
<1>18. Moded(p)'
  BY <1>1, <1>6, <1>9, <1>16 DEF Moded, Shuts, Driver
<1>19. Own(p)'
  <2>1. port'[p].access \subseteq {NoVlan} \cup unsure'[p] \cup Spare
    <3>1. port[p].access \subseteq {v} \cup unsure[p] \cup Spare
      BY <1>1, <1>16 DEF Own
    <3>2. CASE ok
      BY ONLY <1>6, <1>7, <1>9, <1>13, <3>1, <3>2
    <3>3. CASE ~ok
      BY ONLY <1>6, <1>9, <1>12, <1>13, <3>1, <3>3
    <3>4. QED  BY <3>2, <3>3
  <2>2. Clears => port'[p].tagged \subseteq unsure'[p]
    <3>1. ASSUME Clears
          PROVE  port[p].tagged \subseteq {v} \cup subs[p] \cup unsure[p]
      BY <1>1, <1>16, <3>1 DEF Own
    <3>2. CASE ok
      <4>1. Clears => e.tagged = {}
        <5>1. CASE scenario.trunks
          BY <1>7, <3>2, <5>1 DEF Clears
        <5>2. CASE ~scenario.trunks
          BY <1>6, <1>16, <5>2 DEF Own
        <5>3. QED  BY <5>1, <5>2
      <4>2. QED  BY <1>9, <4>1
    <3>3. CASE ~ok
      BY ONLY <1>6, <1>9, <1>12, <1>13, <1>16, <3>1, <3>3
    <3>4. QED  BY <3>2, <3>3
  <2>3. ~scenario.trunks \/ scenario.kind \notin Driver.trunks
          => port'[p].tagged = {}
    BY <1>6, <1>9, <1>16 DEF Own
  <2>4. Clears' = Clears /\ Spare' = Spare /\ Driver' = Driver
    BY <1>1 DEF Clears, Spare, Driver
  <2>5. QED  BY <1>1, <1>11, <2>1, <2>2, <2>3, <2>4 DEF Own
<1>20. Connected(p)'
  BY <1>11 DEF Connected
<1>21. NoNative(p)'
  <2>1. ASSUME scenario.driver = "nxos"
        PROVE  port'[p].native = {}
    BY <1>6, <1>9, <1>16, <2>1 DEF NoNative
  <2>2. ASSUME scenario.driver = "nvue", ~scenario.faults
        PROVE  port'[p].native = {}
    BY <1>7, <1>8, <1>9, <2>2
  <2>3. QED  BY <1>1, <2>1, <2>2 DEF NoNative
<1>22. Mapped(p)'
  BY <1>11 DEF Mapped
<1>23. ASSUME NEW q \in Ports, q # p
       PROVE  Local(q)' /\ Mapped(q)'
  <2>1. Local(q)'
    BY <1>1, <1>9, <1>11, <1>13, <1>23, LocalKept DEF SPInv
  <2>2. Mapped(q)'
    <3>1. net[q] \in Untagged(port'[q]) => net[q] \in Untagged(port[q])
      BY <1>9, <1>23
    <3>2. QED  BY <1>1, <1>11, <1>14, <1>23, <3>1, ServedStay
  <2>3. QED  BY <2>1, <2>2
<1>24. ASSUME NEW w \in Vlans
       PROVE  Unmapped(w)'
  <2>1. SUFFICES ASSUME ~scenario.faults, ~scenario.trunks,
                        \A q \in Ports : net'[q] # w
                 PROVE  overlay'[w] = {}
    BY <1>1 DEF Unmapped
  <2>2. CASE w # v
    <3>1. \A q \in Ports : net[q] # w
      BY <1>11, <2>1, <2>2
    <3>2. QED  BY <1>14, <2>1, <2>2, <3>1 DEF SPInv, Unmapped
  <2>3. CASE w = v
    <3>1. ok
      BY <1>8, <2>1
    <3>2. ASSUME NEW q \in Ports
          PROVE  v \notin Untagged(port'[q]) /\ v \notin Tagged(port'[q])
      <4>1. v \notin Spare
        BY <1>1, VlanAssumption DEF Spare
      <4>2. CASE q = p
        <5>1. e.tagged = {}
          BY <1>6, <1>16, <2>1 DEF Own
        <5>2. QED
          BY <1>7, <1>9, <3>1, <4>2, <5>1 DEF Untagged, Tagged
      <4>3. CASE q # p
        <5>1. Trunked(q) /\ Own(q) /\ net[q] # v
          BY <1>11, <2>1, <2>3, <4>3 DEF SPInv, Local
        <5>2. unsure[q] = {}
          BY <2>1, <5>1 DEF Trunked
        <5>3. v \notin port[q].access /\ port[q].tagged = {}
          BY <2>1, <4>1, <5>1, <5>2 DEF Own
        <5>4. QED
          BY <1>9, <4>3, <5>3 DEF Untagged, Tagged
      <4>4. QED  BY <4>2, <4>3
    <3>3. ~VlanHasPorts(v, port')
      BY <3>2 DEF VlanHasPorts
    <3>4. QED  BY <1>14, <2>1, <2>3, <3>3
  <2>4. QED  BY <2>2, <2>3
<1>25. QED
  BY <1>14, <1>15, <1>17, <1>18, <1>19, <1>20, <1>21, <1>22, <1>23, <1>24
  DEF SPInv, Local

-----------------------------------------------------------------------------
(* Subports are added and deleted.                                         *)

\* A port widened by a subport.  The VLAN of the port may become untagged by
\* that only where there is no overlay.
LEMMA WidenedKeeps ==
  ASSUME SPInv, NEW p \in Ports, NEW v \in Vlans,
         net[p] # NoVlan, trunk[p], v \notin subs[p] \cup {net[p]},
         scenario' = scenario, net' = net, trunk' = trunk, active' = active,
         subs' = [subs EXCEPT ![p] = @ \cup {v}],
         NEW e, e \in Widened(scenario.driver, port[p]),
         e \in Near(scenario.driver, port[p], {}, {},
                    IF scenario.kind \in Driver.trunks THEN {v} ELSE {},
                    Shuts),
         port' = [port EXCEPT ![p] = e],
         \/ unsure' = [unsure EXCEPT ![p] = @ \cup {v}]
         \/ /\ scenario.kind \in Driver.trunks => v \in e.tagged
            /\ unsure' = [unsure EXCEPT ![p] = @ \cap
                 (e.access \cup e.native \cup e.tagged \cup subs[p])],
         overlay' \in [Vlans -> SUBSET Pieces],
         \A w \in Vlans : Complete(w)' /\ Whole(w)' /\ Unmapped(w)',
         ~scenario.faults =>
           \A w \in Vlans : overlay'[w] \in {overlay[w], Range(Vni.plug)}
  PROVE  SPInv'
<1>1. /\ TypeOK /\ Trunked(p) /\ Moded(p) /\ Own(p) /\ Connected(p)
      /\ NoNative(p) /\ Mapped(p)
      /\ scenario \in Scenarios /\ net[p] \in Vlans
      /\ scenario.trunks
  BY DEF SPInv, Local, TypeOK, Trunked
<1>2. /\ e \in PortConfigs
      /\ e.mode = "trunk" => scenario.driver \in TrunkMode
      /\ e.access \subseteq port[p].access
      /\ e.native = port[p].native
      /\ e.tagged \subseteq
           port[p].tagged \cup
             (IF scenario.kind \in Driver.trunks THEN {v} ELSE {})
      /\ port[p].tagged \subseteq e.tagged
      /\ e.up = port[p].up
      /\ \/ e.mode = port[p].mode
         \/ scenario.driver \in TrunkMode /\ e.mode = "trunk"
         \/ scenario.driver \notin TrunkMode /\ e.mode = "hybrid"
      /\ scenario.driver \in {"arista", "sonic", "junos", "ovs"}
           => e.mode = port[p].mode
      /\ scenario.driver \in {"os10", "ovs"} => e.access = port[p].access
  BY DEF Near, Widened
<1>3. /\ port'[p] = e /\ \A q \in Ports : q # p => port'[q] = port[q]
      /\ port' \in [Ports -> PortConfigs]
  BY <1>1, <1>2 DEF TypeOK
<1>4. /\ subs'[p] = subs[p] \cup {v}
      /\ \A q \in Ports : q # p => subs'[q] = subs[q]
      /\ subs' \in [Ports -> SUBSET Vlans]
  BY <1>1 DEF TypeOK
<1>5. /\ \/ unsure'[p] = unsure[p] \cup {v}
         \/ /\ scenario.kind \in Driver.trunks => v \in e.tagged
            /\ unsure'[p] = unsure[p] \cap
                 (e.access \cup e.native \cup e.tagged \cup subs[p])
      /\ \A q \in Ports : q # p => unsure'[q] = unsure[q]
      /\ unsure' \in [Ports -> SUBSET AllVlans]
  <2>1. v \in AllVlans
    BY DEF AllVlans
  <2>2. QED  BY <1>1, <2>1 DEF TypeOK
<1>6. TypeOK'
  BY <1>1, <1>3, <1>4, <1>5 DEF TypeOK
<1>7. Trunked(p)'
  BY <1>1, <1>4 DEF Trunked, Driver
<1>8. Moded(p)'
  BY <1>1, <1>2, <1>3 DEF Moded, Shuts, Driver
<1>9. Own(p)'
  <2>1. port'[p].access \subseteq {net[p]} \cup unsure'[p]
                          \cup (IF active[p] = "no" THEN Spare ELSE {})
    <3>1. port[p].access \subseteq {net[p]} \cup unsure[p]
                           \cup (IF active[p] = "no" THEN Spare ELSE {})
      BY <1>1 DEF Own
    <3>2. QED  BY ONLY <1>2, <1>3, <1>5, <3>1
  <2>2. Clears =>
          port'[p].tagged \subseteq {net[p]} \cup subs'[p] \cup unsure'[p]
    <3>1. Clears =>
            port[p].tagged \subseteq {net[p]} \cup subs[p] \cup unsure[p]
      BY <1>1 DEF Own
    <3>2. QED  BY ONLY <1>2, <1>3, <1>4, <1>5, <3>1
  <2>3. scenario.kind \notin Driver.trunks => port'[p].tagged = {}
    BY <1>1, <1>2, <1>3 DEF Own
  <2>4. Clears' = Clears /\ Spare' = Spare /\ Driver' = Driver
    BY DEF Clears, Spare, Driver
  <2>5. QED  BY <1>1, <2>1, <2>2, <2>3, <2>4 DEF Own
<1>10. Connected(p)'
  <2>1. ASSUME active[p] = "trunk", SetsNative
        PROVE  /\ e.mode # "access"
               /\ e.mode = "trunk" =>
                    /\ scenario.driver \in {"arista", "ios", "nvue"}
                    /\ net[p] \in e.native \cap e.tagged
               /\ e.mode = "hybrid" =>
                    scenario.driver \in {"os10", "ovs"} /\ net[p] \in e.access
               /\ subs'[p] \ unsure'[p] \subseteq e.tagged
               /\ e.up
    <3>1. /\ port[p].mode # "access"
          /\ port[p].mode = "trunk" =>
               /\ scenario.driver \in {"arista", "ios", "nvue"}
               /\ net[p] \in port[p].native \cap port[p].tagged
          /\ port[p].mode = "hybrid" =>
               /\ scenario.driver \in {"os10", "ovs"}
               /\ net[p] \in port[p].access
          /\ subs[p] \ unsure[p] \subseteq port[p].tagged
          /\ port[p].up
      BY <1>1, <2>1 DEF Connected
    <3>2. scenario.kind \in Driver.trunks
      BY <1>1, <2>1 DEF Trunked
    <3>3. subs'[p] \ unsure'[p] \subseteq e.tagged
      BY ONLY <1>2, <1>4, <1>5, <3>1, <3>2
    <3>4. port[p].mode \in {"trunk", "hybrid"}
      BY <1>1, <3>1 DEF TypeOK, PortConfigs
    <3>5. CASE port[p].mode = "trunk"
      <4>1. e.mode = "trunk"
        BY <1>2, <3>1, <3>5 DEF TrunkMode
      <4>2. QED  BY <1>2, <3>1, <3>3, <3>5, <4>1
    <3>6. CASE port[p].mode = "hybrid"
      <4>1. e.mode = "hybrid"
        BY <1>2, <3>1, <3>6 DEF TrunkMode
      <4>2. QED  BY <1>2, <3>1, <3>3, <3>6, <4>1
    <3>7. QED  BY <3>4, <3>5, <3>6
  <2>2. SetsNative' = SetsNative
    BY DEF SetsNative, Driver
  <2>3. QED  BY <1>3, <2>1, <2>2 DEF Connected
<1>11. NoNative(p)'
  <2>1. e.mode # "trunk" => port[p].mode # "trunk" \/ scenario.driver # "nvue"
    BY <1>2 DEF TrunkMode
  <2>2. QED  BY <1>1, <1>2, <1>3, <2>1 DEF NoNative
<1>12. Mapped(p)'
  <2>1. SUFFICES ASSUME ~scenario.faults, active[p] # "no",
                        net[p] \in Untagged(e)
                 PROVE  overlay'[net[p]] = Range(Vni.plug)
    <3>1. Vni' = Vni /\ (net[p] \in Untagged(port[p]))'
          <=> net[p] \in Untagged(e)
      BY <1>3 DEF Vni, Untagged
    <3>2. QED  BY <1>3 DEF Mapped, Vni, Untagged
  <2>2. overlay'[net[p]] \in {overlay[net[p]], Range(Vni.plug)}
    BY <1>1, <2>1
  <2>3. overlay[net[p]] = Range(Vni.plug)
    <3>1. CASE net[p] \in Untagged(port[p])
      BY <1>1, <2>1, <3>1 DEF Mapped
    <3>2. CASE net[p] \notin Untagged(port[p])
      <4>1. e.mode = "trunk" /\ port[p].mode # "trunk"
        BY <1>1, <1>2, <2>1, <3>2 DEF Untagged, TypeOK, PortConfigs, Moded
      <4>2. net[p] \in port[p].native
        BY <1>2, <2>1, <4>1 DEF Untagged
      <4>3. scenario.driver \in {"aruba", "ios"}
        BY <1>1, <1>2, <2>1, <4>1, <4>2 DEF NoNative, TrunkMode
      <4>4. scenario.overlay = "none"
        BY <1>1, <4>3, DriverIsGood DEF OverlayDrivers
      <4>5. Range(Vni.plug) = {}
        <5>1. Vni.plug = << >>
          BY <1>1, <4>4, OverlaysAreGood DEF GoodVni
        <5>2. QED  BY <5>1 DEF Range
      <4>6. Whole(net[p])
        BY <1>1 DEF SPInv
      <4>7. QED  BY <2>1, <4>5, <4>6 DEF Whole
    <3>3. QED  BY <3>1, <3>2
  <2>4. QED  BY <2>2, <2>3
<1>13. ASSUME NEW q \in Ports, q # p
       PROVE  Local(q)' /\ Mapped(q)'
  <2>1. Local(q)'
    BY <1>3, <1>4, <1>5, <1>13, LocalKept DEF SPInv
  <2>2. Mapped(q)'
    <3>1. Mapped(q) /\ (active[q] # "no" => net[q] \in Vlans)
      BY DEF SPInv, TypeOK, Local, Trunked
    <3>2. QED  BY <1>3, <1>13, <3>1 DEF Mapped, Vni
  <2>3. QED  BY <2>1, <2>2
<1>14. QED
  BY <1>6, <1>7, <1>8, <1>9, <1>10, <1>11, <1>12, <1>13 DEF SPInv, Local

\* A subport is added, with its overlay; SONiC raises before anything is sent.
LEMMA AddSubportKeeps ==
  ASSUME SPInv, NEW p \in Ports, NEW v \in scenario.vlans, AddSubport(p, v)
  PROVE  SPInv'
<1>1. /\ TypeOK /\ Moded(p) /\ scenario \in Scenarios /\ scenario.trunks
      /\ net[p] # NoVlan /\ trunk[p] /\ v \notin subs[p] \cup {net[p]}
      /\ subs' = [subs EXCEPT ![p] = @ \cup {v}]
      /\ scenario' = scenario /\ net' = net /\ trunk' = trunk
  BY DEF SPInv, TypeOK, Local, Trunked, AddSubport
<1>2. v \in Vlans
  BY <1>1, DriverIsGood
<1>3. CASE scenario.driver = "sonic" /\ UNCHANGED <<port, overlay>>
             /\ Fail(p, {v})
  <2>1. /\ active' = active /\ overlay' = overlay
        /\ unsure' = [unsure EXCEPT ![p] = @ \cup {v}]
    BY <1>3 DEF Fail
  <2>2. PICK e : e = port[p]  OBVIOUS
  <2>3. port' = [port EXCEPT ![p] = e]
    BY <1>1, <1>3, <2>2 DEF TypeOK
  <2>4. /\ e \in Widened(scenario.driver, port[p])
        /\ e \in Near(scenario.driver, port[p], {}, {},
                      IF scenario.kind \in Driver.trunks THEN {v} ELSE {},
                      Shuts)
    BY <1>1, <2>2 DEF Widened, Near, Moded, TypeOK
  <2>5. /\ overlay' \in [Vlans -> SUBSET Pieces]
        /\ \A w \in Vlans : Complete(w)' /\ Whole(w)' /\ Unmapped(w)'
    BY <1>1, <2>1, OverlayStays DEF TypeOK
  <2>6. \A w \in Vlans : overlay'[w] \in {overlay[w], Range(Vni.plug)}
    BY <2>1
  <2>7. QED  BY <1>1, <1>2, <2>1, <2>3, <2>4, <2>5, <2>6, WidenedKeeps
<1>4. ASSUME NEW n \in CutPoints(AddCommands(v)),
             NEW sent \in BOOLEAN, NEW mapped \in BOOLEAN,
             MaySucceed(AddCommands(v), n, sent),
             port' = [port EXCEPT ![p] = Sent(p, AddCommands(v), n)],
             IF sent THEN ConfigureSubportVni(v, mapped)
                     ELSE ~mapped /\ UNCHANGED overlay,
             IF sent /\ mapped
               THEN Succeed(p, subs[p]) /\ UNCHANGED active
               ELSE Fail(p, {v})
      PROVE  SPInv'
  <2>1. PICK e : e = Sent(p, AddCommands(v), n)  OBVIOUS
  <2>2. /\ e \in Near(scenario.driver, port[p], {}, {},
                      IF scenario.kind \in Driver.trunks THEN {v} ELSE {},
                      Shuts)
        /\ e \in Widened(scenario.driver, port[p])
        /\ n = Len(AddCommands(v)) /\ scenario.kind \in Driver.trunks
             => v \in e.tagged
    BY <1>1, <1>2, <2>1, AddSent
  <2>3. sent => n = Len(AddCommands(v))
    BY <1>4 DEF MaySucceed
  <2>4. port' = [port EXCEPT ![p] = e]
    BY <1>4, <2>1
  <2>5. port'[p] = e
    BY <1>1, <2>4 DEF TypeOK
  <2>6. /\ active' = active
        /\ \/ unsure' = [unsure EXCEPT ![p] = @ \cup {v}]
           \/ /\ scenario.kind \in Driver.trunks => v \in e.tagged
              /\ unsure' = [unsure EXCEPT ![p] = @ \cap
                   (e.access \cup e.native \cup e.tagged \cup subs[p])]
    <3>1. CASE sent /\ mapped
      BY <1>4, <2>2, <2>3, <2>5, <3>1 DEF Succeed
    <3>2. CASE ~(sent /\ mapped)
      BY <1>4, <3>2 DEF Fail
    <3>3. QED  BY <3>1, <3>2
  <2>7. /\ overlay' \in [Vlans -> SUBSET Pieces]
        /\ \A w \in Vlans : Complete(w)' /\ Whole(w)' /\ Unmapped(w)'
        /\ ~scenario.faults =>
             \A w \in Vlans : overlay'[w] \in {overlay[w], Range(Vni.plug)}
    <3>1. CASE sent
      <4>1. ConfigureVni(v, mapped)
        BY <1>4, <3>1 DEF ConfigureSubportVni
      <4>2. /\ overlay' \in [Vlans -> SUBSET Pieces]
            /\ \A w \in Vlans : Complete(w)' /\ Whole(w)' /\ Unmapped(w)'
            /\ ~scenario.faults =>
                 /\ overlay'[v] = Range(Vni.plug)
                 /\ \A w \in Vlans : w # v => overlay'[w] = overlay[w]
        BY <1>1, <1>2, <4>1, ConfigureKeeps
      <4>3. QED  BY <4>2
    <3>2. CASE ~sent
      <4>1. overlay' = overlay
        BY <1>4, <3>2
      <4>2. \A w \in Vlans : Complete(w)' /\ Whole(w)' /\ Unmapped(w)'
        BY <1>1, <4>1, OverlayStays
      <4>3. QED  BY <1>1, <4>1, <4>2 DEF TypeOK
    <3>3. QED  BY <3>1, <3>2
  <2>8. QED
    BY <1>1, <1>2, <2>2, <2>4, <2>6, <2>7, WidenedKeeps
<1>5. QED
  BY <1>3, <1>4 DEF AddSubport, AddCommands

\* A subport is deleted, and the overlay of its VLAN if no port has it.
LEMMA DelSubportKeeps ==
  ASSUME SPInv, NEW p \in Ports, NEW v \in scenario.vlans, DelSubport(p, v)
  PROVE  SPInv'
<1>1. /\ TypeOK /\ Trunked(p) /\ Moded(p) /\ Own(p) /\ Connected(p)
      /\ NoNative(p) /\ scenario \in Scenarios /\ scenario.trunks
      /\ net[p] # NoVlan /\ v \in subs[p] /\ trunk[p] /\ net[p] # v
      /\ subs' = [subs EXCEPT ![p] = @ \ {v}]
      /\ scenario' = scenario /\ net' = net /\ trunk' = trunk
  BY DEF SPInv, TypeOK, Local, Trunked, DelSubport
<1>2. v \in Vlans
  BY <1>1, DriverIsGood
<1>3. PICK n \in CutPoints(DelCommands(v)), ok \in BOOLEAN :
        /\ MaySucceed(DelCommands(v), n, ok)
        /\ port' = [port EXCEPT ![p] = Sent(p, DelCommands(v), n)]
        /\ IF ok
             THEN /\ RemoveSubportVni(v, port')
                  /\ Succeed(p, subs[p] \ {v})
                  /\ UNCHANGED active
             ELSE /\ Fail(p, {v})
                  /\ UNCHANGED overlay
  BY DEF DelSubport, DelCommands
<1>4. PICK e : e = Sent(p, DelCommands(v), n)  OBVIOUS
<1>5. /\ e \in Narrowed(port[p], v)
      /\ n = Len(DelCommands(v)) /\ scenario.kind \in Driver.trunks
           => v \notin e.tagged
  BY <1>1, <1>2, <1>4, DelSent
<1>6. /\ e \in PortConfigs
      /\ e.mode = port[p].mode
      /\ port[p].access \ {v} \subseteq e.access
      /\ e.access \subseteq port[p].access
      /\ e.native = port[p].native
      /\ port[p].tagged \ {v} \subseteq e.tagged
      /\ e.tagged \subseteq port[p].tagged
      /\ e.up = port[p].up
  BY <1>5 DEF Narrowed
<1>7. /\ port'[p] = e /\ \A q \in Ports : q # p => port'[q] = port[q]
      /\ port' \in [Ports -> PortConfigs]
  BY <1>1, <1>3, <1>4, <1>6 DEF TypeOK
<1>8. /\ subs'[p] = subs[p] \ {v}
      /\ \A q \in Ports : q # p => subs'[q] = subs[q]
      /\ subs' \in [Ports -> SUBSET Vlans]
  BY <1>1 DEF TypeOK
<1>9. v \notin e.tagged \/ ~ok
  <2>1. scenario.kind \notin Driver.trunks => port[p].tagged = {}
    BY <1>1 DEF Own
  <2>2. ok => n = Len(DelCommands(v))
    BY <1>3 DEF MaySucceed
  <2>3. QED  BY <1>5, <1>6, <2>1, <2>2
<1>10. /\ active' = active
       /\ ok => unsure'[p] = unsure[p] \cap
            (e.access \cup e.native \cup e.tagged \cup (subs[p] \ {v}))
       /\ ~ok => unsure'[p] = unsure[p] \cup {v}
       /\ \A q \in Ports : q # p => unsure'[q] = unsure[q]
       /\ unsure' \in [Ports -> SUBSET AllVlans]
  <2>1. v \in AllVlans
    BY <1>2 DEF AllVlans
  <2>2. CASE ok
    BY <1>1, <1>3, <1>7, <2>2 DEF Succeed, TypeOK
  <2>3. CASE ~ok
    BY <1>1, <1>3, <2>1, <2>3 DEF Fail, TypeOK
  <2>4. QED  BY <2>2, <2>3
<1>11. /\ overlay' \in [Vlans -> SUBSET Pieces]
       /\ \A w \in Vlans : Complete(w)' /\ Whole(w)' /\ Unmapped(w)'
       /\ \A w \in Vlans : w # v => overlay'[w] = overlay[w]
       /\ VlanHasPorts(v, port') => overlay' = overlay
  <2>1. CASE ok
    <3>1. RemoveVni(v, port')
      BY <1>3, <2>1 DEF RemoveSubportVni
    <3>2. /\ overlay' \in [Vlans -> SUBSET Pieces]
          /\ \A w \in Vlans : Complete(w)' /\ Whole(w)'
          /\ \A w \in Vlans : w # v => overlay'[w] = overlay[w]
          /\ VlanHasPorts(v, port') => overlay' = overlay
      BY <1>1, <1>2, <3>1, RemoveKeeps
    <3>3. ASSUME NEW w \in Vlans
          PROVE  Unmapped(w)'
      BY <1>1 DEF Unmapped
    <3>4. QED  BY <3>2, <3>3
  <2>2. CASE ~ok
    <3>1. overlay' = overlay
      BY <1>3, <2>2
    <3>2. \A w \in Vlans : Complete(w)' /\ Whole(w)' /\ Unmapped(w)'
      BY <1>1, <3>1, OverlayStays
    <3>3. QED  BY <1>1, <3>1, <3>2 DEF TypeOK
  <2>3. QED  BY <2>1, <2>2
<1>12. TypeOK'
  BY <1>1, <1>7, <1>8, <1>10, <1>11 DEF TypeOK
<1>13. Trunked(p)'
  BY <1>1, <1>8, <1>10 DEF Trunked, Driver
<1>14. Moded(p)'
  BY <1>1, <1>6, <1>7 DEF Moded, Shuts, Driver
<1>15. Own(p)'
  <2>1. port'[p].access \subseteq {net[p]} \cup unsure'[p]
                          \cup (IF active[p] = "no" THEN Spare ELSE {})
    <3>1. port[p].access \subseteq {net[p]} \cup unsure[p]
                           \cup (IF active[p] = "no" THEN Spare ELSE {})
      BY <1>1 DEF Own
    <3>2. QED  BY ONLY <1>6, <1>7, <1>10, <3>1
  <2>2. Clears =>
          port'[p].tagged \subseteq {net[p]} \cup subs'[p] \cup unsure'[p]
    <3>1. Clears =>
            port[p].tagged \subseteq {net[p]} \cup subs[p] \cup unsure[p]
      BY <1>1 DEF Own
    <3>2. QED  BY ONLY <1>6, <1>7, <1>8, <1>9, <1>10, <3>1
  <2>3. scenario.kind \notin Driver.trunks => port'[p].tagged = {}
    BY <1>1, <1>6, <1>7 DEF Own
  <2>4. Clears' = Clears /\ Spare' = Spare /\ Driver' = Driver
    BY <1>1 DEF Clears, Spare, Driver
  <2>5. QED  BY <1>1, <1>10, <2>1, <2>2, <2>3, <2>4 DEF Own
<1>16. Connected(p)'
  <2>1. ASSUME active[p] = "trunk", SetsNative
        PROVE  /\ e.mode # "access"
               /\ e.mode = "trunk" =>
                    /\ scenario.driver \in {"arista", "ios", "nvue"}
                    /\ net[p] \in e.native \cap e.tagged
               /\ e.mode = "hybrid" =>
                    scenario.driver \in {"os10", "ovs"} /\ net[p] \in e.access
               /\ subs'[p] \ unsure'[p] \subseteq e.tagged
               /\ e.up
    <3>1. /\ port[p].mode # "access"
          /\ port[p].mode = "trunk" =>
               /\ scenario.driver \in {"arista", "ios", "nvue"}
               /\ net[p] \in port[p].native \cap port[p].tagged
          /\ port[p].mode = "hybrid" =>
               /\ scenario.driver \in {"os10", "ovs"}
               /\ net[p] \in port[p].access
          /\ subs[p] \ unsure[p] \subseteq port[p].tagged
          /\ port[p].up
      BY <1>1, <2>1 DEF Connected
    <3>2. subs'[p] \ unsure'[p] \subseteq e.tagged
      BY ONLY <1>6, <1>8, <1>10, <3>1
    <3>3. QED  BY <1>1, <1>6, <3>1, <3>2
  <2>2. SetsNative' = SetsNative
    BY <1>1 DEF SetsNative, Driver
  <2>3. QED  BY <1>1, <1>7, <1>10, <2>1, <2>2 DEF Connected
<1>17. NoNative(p)'
  BY <1>1, <1>6, <1>7 DEF NoNative
<1>18. ASSUME NEW q \in Ports
       PROVE  Mapped(q)'
  <2>1. net[q] \in Untagged(port'[q]) => net[q] \in Untagged(port[q])
    BY <1>6, <1>7 DEF Untagged
  <2>2. QED  BY <1>1, <1>2, <1>10, <1>11, <2>1, ServedStay
<1>19. ASSUME NEW q \in Ports, q # p
       PROVE  Local(q)'
  BY <1>1, <1>7, <1>8, <1>10, <1>19, LocalKept DEF SPInv
<1>20. QED
  BY <1>11, <1>12, <1>13, <1>14, <1>15, <1>16, <1>17, <1>18, <1>19
  DEF SPInv, Local

-----------------------------------------------------------------------------
(* Theorems.                                                               *)

\* The invariant holds in the beginning.
LEMMA SPInvInit ==
  ASSUME Init
  PROVE  SPInv
<1>1. scenario \in Scenarios
  BY DEF Init
<1>2. Driver.mode \in {"access", "hybrid"} /\ Shuts \in BOOLEAN
  BY <1>1, DriverIsGood DEF Good
<1>3. ASSUME NEW p \in Ports
      PROVE  /\ net[p] = NoVlan /\ trunk[p] = FALSE /\ subs[p] = {}
             /\ active[p] = "no" /\ unsure[p] = {}
             /\ port[p] \in PortConfigs
             /\ port[p].mode = Driver.mode /\ port[p].access = {}
             /\ port[p].native = {} /\ port[p].tagged = {}
             /\ port[p].up = ~Shuts
  BY <1>2 DEF Init, PortConfigs
<1>4. TypeOK
  <2>1. port \in [Ports -> PortConfigs]
    BY <1>2 DEF Init, PortConfigs
  <2>2. QED  BY <2>1 DEF Init, TypeOK
<1>5. ASSUME NEW p \in Ports
      PROVE  Local(p) /\ Mapped(p)
  BY <1>1, <1>2, <1>3
  DEF Local, Trunked, Moded, Own, Connected, NoNative, Mapped
<1>6. ASSUME NEW v \in Vlans
      PROVE  Complete(v) /\ Whole(v) /\ Unmapped(v)
  <2>1. overlay[v] = {}
    BY DEF Init
  <2>2. Complete(v)
    BY <2>1 DEF Complete, CompleteIn
  <2>3. QED  BY <2>1, <2>2 DEF Whole, Unmapped
<1>7. QED  BY <1>4, <1>5, <1>6 DEF SPInv

\* Every step keeps it.
LEMMA SPInvNext ==
  ASSUME SPInv, [Next]_vars
  PROVE  SPInv'
<1>1. CASE UNCHANGED vars
  <2>1. /\ scenario' = scenario /\ net' = net /\ trunk' = trunk
        /\ subs' = subs /\ active' = active /\ port' = port
        /\ overlay' = overlay /\ unsure' = unsure
    BY <1>1 DEF vars, neutronVars
  <2>2. TypeOK'
    BY <2>1 DEF SPInv, TypeOK
  <2>3. \A p \in Ports : Local(p)' /\ Mapped(p)'
    BY <2>1, LocalKept, MappedStays DEF SPInv
  <2>4. \A w \in Vlans : Complete(w)' /\ Whole(w)' /\ Unmapped(w)'
    BY <2>1, OverlayStays
  <2>5. QED  BY <2>2, <2>3, <2>4 DEF SPInv
<1>2. CASE Next
  <2>1. PICK p \in Ports :
          \/ CreateTrunk(p)
          \/ DeleteTrunk(p)
          \/ Plug(p)
          \/ Unplug(p)
          \/ \E v \in scenario.vlans :
               \/ Bind(p, v)
               \/ ChangeSubports(p, v)
               \/ AddSubport(p, v)
               \/ DelSubport(p, v)
    BY <1>2 DEF Next
  <2>2. CASE CreateTrunk(p)
    BY <2>2, CreateTrunkKeeps
  <2>3. CASE DeleteTrunk(p)
    BY <2>3, DeleteTrunkKeeps
  <2>4. CASE Plug(p)
    BY <2>4, PlugKeeps
  <2>5. CASE Unplug(p)
    BY <2>5, UnplugKeeps
  <2>6. ASSUME NEW v \in scenario.vlans, Bind(p, v)
        PROVE  SPInv'
    BY <2>6, BindKeeps
  <2>7. ASSUME NEW v \in scenario.vlans, ChangeSubports(p, v)
        PROVE  SPInv'
    BY <2>7, ChangeSubportsKeeps
  <2>8. ASSUME NEW v \in scenario.vlans, AddSubport(p, v)
        PROVE  SPInv'
    BY <2>8, AddSubportKeeps
  <2>9. ASSUME NEW v \in scenario.vlans, DelSubport(p, v)
        PROVE  SPInv'
    BY <2>9, DelSubportKeeps
  <2>10. QED
    BY <2>1, <2>2, <2>3, <2>4, <2>5, <2>6, <2>7, <2>8, <2>9
<1>3. QED  BY <1>1, <1>2

\* It always holds.
THEOREM SPInvariance == Spec => []SPInv
<1>1. QED  BY SPInvInit, SPInvNext, PTL DEF Spec

\* Every variable keeps its type.
THEOREM SwitchPortsTypeCorrect == Spec => []TypeOK
<1>1. SPInv => TypeOK
  BY DEF SPInv
<1>2. QED  BY <1>1, SPInvariance, PTL

\* A port that update_port_postcommit made ACTIVE is untagged in the VLAN of
\* its network, tagged in those of its subports and up, on every driver.
THEOREM ActivePortsAreConnected == Spec => []ActiveIsConnected
<1>1. ASSUME SPInv
      PROVE  ActiveIsConnected
  <2>1. SUFFICES ASSUME NEW p \in Ports,
                        \/ active[p] = "access" /\ ~trunk[p]
                        \/ active[p] = "trunk" /\ SetsNative
                 PROVE  /\ net[p] \in Untagged(port[p])
                        /\ subs[p] \ unsure[p] \subseteq Tagged(port[p])
                        /\ port[p].up
    BY DEF ActiveIsConnected
  <2>2. Trunked(p) /\ Connected(p) /\ port[p] \in PortConfigs
    BY <1>1 DEF SPInv, Local, TypeOK
  <2>3. port[p].mode \in {"access", "trunk", "hybrid"}
    BY <2>2 DEF PortConfigs
  <2>4. CASE active[p] = "access" /\ ~trunk[p]
    <3>1. subs[p] = {}
      BY <2>2, <2>4 DEF Trunked
    <3>2. QED  BY <2>2, <2>4, <3>1 DEF Connected, Untagged
  <2>5. CASE active[p] = "trunk" /\ SetsNative
    BY <2>2, <2>3, <2>5 DEF Connected, Untagged, Tagged
  <2>6. QED  BY <2>1, <2>4, <2>5
<1>2. QED  BY <1>1, SPInvariance, PTL

\* A port carries the VLANs of its own network and subports only, and the
\* default VLAN while it is free, unless a call for it failed; with trunks,
\* on the drivers whose unplug template clears the port.
THEOREM OnlyOwnVlansAreCarried == Spec => []OwnVlansOnly
<1>1. ASSUME SPInv
      PROVE  OwnVlansOnly
  <2>1. SUFFICES ASSUME Clears, NEW p \in Ports
                 PROVE  Carried(p) \subseteq
                          OwnVlans(p) \cup unsure[p]
                            \cup (IF scenario.default /\ active[p] = "no"
                                    THEN {DefaultVlan} ELSE {})
    BY DEF OwnVlansOnly, Clears
  <2>2. Trunked(p) /\ Own(p) /\ port[p] \in PortConfigs
    BY <1>1 DEF SPInv, Local, TypeOK
  <2>3. /\ port[p].access \subseteq
             {net[p]} \cup unsure[p]
               \cup (IF active[p] = "no" THEN Spare ELSE {})
        /\ port[p].tagged \subseteq
             (IF net[p] = NoVlan THEN {} ELSE {net[p]} \cup subs[p])
               \cup unsure[p]
    BY <2>1, <2>2 DEF Own
  <2>4. NoVlan \notin port[p].access
    BY <2>2, VlanAssumption DEF PortConfigs, AllVlans
  <2>5. Carried(p) \subseteq port[p].access \cup port[p].tagged
    BY DEF Carried, Untagged, Tagged
  <2>6. QED  BY <2>3, <2>4, <2>5 DEF OwnVlans, Spare
<1>2. QED  BY <1>1, SPInvariance, PTL

\* What vlan_has_vni takes for configured is complete, however calls are cut
\* short, on the overlays of QueriesLastPart.
THEOREM MappingsAreComplete == Spec => []MappedIsComplete
<1>1. ASSUME SPInv
      PROVE  MappedIsComplete
  BY <1>1 DEF SPInv, Complete, CompleteIn, MappedIsComplete, VlanHasVni
<1>2. QED  BY <1>1, SPInvariance, PTL

\* While no call fails, the VLAN of an ACTIVE port has all of its overlay, and
\* without trunks a VLAN without ports has nothing of it.
THEOREM OverlaysAreServed == Spec => []OverlayServed
<1>1. ASSUME SPInv
      PROVE  OverlayServed
  BY <1>1 DEF SPInv, Mapped, Unmapped, OverlayServed
<1>2. QED  BY <1>1, SPInvariance, PTL

=============================================================================

------------------------ MODULE SecurityGroupsProofs ------------------------
(***************************************************************************)
(* Proofs about SecurityGroups, for any groups, rules, ports, switches and *)
(* callbacks, whatever they overlap with and however their sessions fail.  *)
(*                                                                         *)
(* Two questions meet here.  What a session of configuration lines does to *)
(* a switch is a fold over the list of lines: a list has a sequence of     *)
(* devices it goes through (Trace), every part of an edit's list keeps to  *)
(* the edit's group (AfterPart) and a whole list has the effect NamedDoes  *)
(* or TableDoes states (Effect).  The second question is what the          *)
(* callbacks do to each other, and SGInv answers it: what a callback still *)
(* holds is the database, or a ghost remembers that it is not (FreshRules, *)
(* FreshPorts), and where a switch is not what the database says, a        *)
(* callback is still to send it or a ghost tells why nobody will (Addable, *)
(* Filed, Current, Filtered, Kept).                                        *)
(***************************************************************************)
EXTENDS SecurityGroups, FiniteSetTheorems, FunctionTheorems,
        SequenceTheorems, WellFoundedInduction, TLAPS

-----------------------------------------------------------------------------
(* What a list of configuration lines does.                                *)

\* The order of the numbers, as a relation.
Smaller == {x \in Nat \X Nat : x[1] < x[2]}

\* A set with 0 and with the successor of each of its numbers has them all.
LEMMA Induction ==
  ASSUME NEW S, 0 \in S, \A n \in Nat : n \in S => n + 1 \in S
  PROVE  Nat \subseteq S
<1> SUFFICES ASSUME Nat \ S # {} PROVE FALSE
  OBVIOUS
<1>1. IsWellFoundedOn(Smaller, Nat)
  BY NatLessThanWellFounded DEF OpToRel, Smaller
<1>2. PICK n \in Nat \ S : \A m \in Nat \ S : <<m, n>> \notin Smaller
  BY <1>1, WFMin
<1>3. n # 0 /\ n - 1 \in Nat /\ n - 1 < n
  OBVIOUS
<1>4. <<n - 1, n>> \in Smaller
  BY <1>3 DEF Smaller
<1>5. n - 1 \in S
  BY <1>2, <1>3, <1>4
<1>6. QED
  BY <1>3, <1>5

\* The largest of some numbers up to n+1, when n+1 is one of them.
LEMMA MaxUpTo ==
  ASSUME NEW n \in Nat, NEW s \in SUBSET (1..(n+1)), n + 1 \in s
  PROVE Max(s) = n + 1
<1>1. \A y \in s : n + 1 >= y
  OBVIOUS
<1>2. \A x \in s : (\A y \in s : x >= y) => x = n + 1
  OBVIOUS
<1>3. QED
  BY <1>1, <1>2 DEF Max

\* The function FoldLeft defines along the first n elements of q.
Folded(d, q, f, n) ==
  f = [s \in SUBSET (1..n) |-> IF s = {} THEN d
         ELSE Does(f[s \ {Max(s)}], q[Max(s)])]

\* There is such a function for every n.
LEMMA Exists ==
  ASSUME NEW d, NEW q, NEW n \in Nat
  PROVE  \E f : Folded(d, q, f, n)
<1> DEFINE S == {k \in Nat : \E f : Folded(d, q, f, k)}
<1>1. 0 \in S
  <2>1. Folded(d, q, [s \in SUBSET (1..0) |-> d], 0)
    BY DEF Folded
  <2>2. QED BY <2>1
<1>2. ASSUME NEW k \in Nat, k \in S PROVE k+1 \in S
  <2>1. PICK f : Folded(d, q, f, k)
    BY <1>2
  <2> DEFINE g == [s \in SUBSET (1..(k+1)) |->
        IF k + 1 \in s THEN Does(f[s \ {k+1}], q[k+1]) ELSE f[s]]
  <2>2. ASSUME NEW s \in SUBSET (1..(k+1))
        PROVE  g[s] = IF s = {} THEN d
                      ELSE Does(g[s \ {Max(s)}], q[Max(s)])
    <3>1. CASE k+1 \in s
      <4>1. Max(s) = k+1 BY <3>1, MaxUpTo
      <4>2. s \ {k+1} \in SUBSET (1..(k+1)) /\ k+1 \notin s \ {k+1} OBVIOUS
      <4>3. g[s \ {k+1}] = f[s \ {k+1}] BY <4>2
      <4> QED BY <4>1, <4>3, <3>1
    <3>2. CASE k+1 \notin s
      <4>0. \A x \in s : x \in 1..k
        BY <3>2
      <4>1. s \in SUBSET (1..k) /\ s \ {Max(s)} \in SUBSET (1..(k+1))
              /\ k+1 \notin s \ {Max(s)}
        BY <3>2, <4>0
      <4>2. g[s] = f[s] BY <3>2
      <4>3. g[s \ {Max(s)}] = f[s \ {Max(s)}] BY <4>1
      <4> QED BY <4>1, <4>2, <4>3, <2>1 DEF Folded
    <3>3. QED BY <3>1, <3>2
  <2>3. Folded(d, q, g, k+1)
    <3> HIDE DEF g
    <3>1. g = [s \in SUBSET (1..(k+1)) |-> g[s]]
      BY DEF g
    <3> QED BY <2>2, <3>1 DEF Folded
  <2>4. QED BY <2>3
<1>3. Nat \subseteq S
  <2> HIDE DEF S
  <2> QED BY <1>1, <1>2, Induction
<1>4. QED BY <1>3

\* A list of lines takes a device through one state per line: After applies
\* Does to each in its turn.
LEMMA Trace ==
  ASSUME NEW A, NEW q \in Seq(A), NEW d
  PROVE  \E t : /\ t[0] = d
                /\ \A i \in 1..Len(q) : t[i] = Does(t[i-1], q[i])
                /\ After(d, q) = t[Len(q)]
<1> DEFINE n == Len(q)
<1>0. n \in Nat /\ DOMAIN q = 1..n
  OBVIOUS
<1> HIDE DEF n
<1> USE <1>0
<1> DEFINE f == CHOOSE f : Folded(d, q, f, n)
<1>1. Folded(d, q, f, n)
  BY Exists
<1>2. After(d, q) = f[1..n]
  BY <1>1 DEF After, FoldLeft, MapThenFoldSet, Folded
<1> HIDE DEF f
<1> DEFINE t == [i \in 0..n |-> f[1..i]]
<1>3. t[0] = d
  BY <1>1 DEF Folded
<1>4. ASSUME NEW i \in 1..n PROVE t[i] = Does(t[i-1], q[i])
  <2>1. 1..i \in SUBSET (1..n) /\ i \in 1..i
    OBVIOUS
  <2>2. (1..i) \ {i} = 1..(i-1)
    OBVIOUS
  <2>3. Max(1..i) = i
    <3>1. i - 1 \in Nat /\ (i - 1) + 1 = i
      OBVIOUS
    <3>2. QED  BY <2>1, <3>1, MaxUpTo
  <2>4. f[1..i] = Does(f[1..(i-1)], q[i])
    BY <2>1, <2>2, <2>3, <1>1 DEF Folded
  <2>5. QED BY <2>4
<1>5. After(d, q) = t[n]
  BY <1>2
<1>6. QED BY <1>3, <1>4, <1>5 DEF n

\* SetToSeq lists every element of a finite set.
LEMMA AllInSeq ==
  ASSUME NEW S, IsFiniteSet(S)
  PROVE  /\ Cardinality(S) \in Nat
         /\ SetToSeq(S) \in [1..Cardinality(S) -> S]
         /\ \A x \in S : \E i \in 1..Cardinality(S) : SetToSeq(S)[i] = x
<1> DEFINE n == Cardinality(S)
           f == SetToSeq(S)
<1>1. n \in Nat /\ Bijection(1..n, S) # {}
  BY FS_CardinalityType DEF ExistsBijection
<1>2. PICK b \in [1..n -> S] : IsInjective(b)
  BY <1>1 DEF Bijection, Injection
<1>3. f \in [1..n -> S] /\ IsInjective(f)
  BY <1>2 DEF SetToSeq
<1>4. f \in Injection(1..n, S)
  BY <1>3 DEF Injection
<1>5. Cardinality(1..n) = n
  BY <1>1, FS_Interval
<1>6. f \in Surjection(1..n, S)
  <2> HIDE DEF f, n
  <2>1. Cardinality(1..n) = Cardinality(S)
    BY <1>5 DEF n
  <2>2. QED
    BY <1>4, <2>1, FS_Injection
<1>7. QED
  <2> HIDE DEF f, n
  <2>1. \A x \in S : \E i \in 1..n : f[i] = x
    BY <1>6 DEF Surjection
  <2>2. n \in Nat /\ f \in [1..n -> S]
    BY <1>1, <1>3
  <2>3. QED
    BY <2>1, <2>2 DEF n, f

-----------------------------------------------------------------------------
(* What a line of an edit may do.                                          *)

\* The devices of TypeOK.
Devices ==
  [acl : [Groups -> Rules \cup {NoRules, Empty, Mixed}],
   file : [Groups -> Rules \cup {NoRules}],
   applied : [Groups -> SUBSET Ports]]

\* The lines an edit for e may consist of, with the rules r and the ports R.
Allowed(e, r, R) ==
  {Op(o, e.group, r) :
    o \in {"create", "rules", "remove", "write", "load", "rm"}}
  \cup (IF e.do \in {"del"} \cup PortEdits
          THEN {Op("dropTable", e.group, {})} ELSE {})
  \cup (IF e.do = "unbind" THEN {Op("clear", e.group, e.port)} ELSE {})
  \cup (IF e.do \in PortEdits
          THEN {Op("table", e.group, R)}
            \cup {Op("apply", e.group, p) : p \in R}
          ELSE {})

\* What any of them may change: the ACL and the table of the group of e, and
\* where the ports R are filtered. Other ports stay where they are, and the
\* ports stay as they are when the edit is not about them.
Touches(e, R, d, d2) ==
  /\ \A h \in Groups \ {e.group} :
       /\ d2.acl[h] = d.acl[h] /\ d2.file[h] = d.file[h]
       /\ d2.applied[h] \subseteq d.applied[h]
       /\ d.applied[h] \ R \subseteq d2.applied[h]
  /\ d2.applied[e.group] \subseteq d.applied[e.group] \cup R
  /\ e.do \notin PortEdits =>
       \A h \in Groups :
         e.do # "del" \/ h # e.group => d2.applied[h] = d.applied[h]

\* One line keeps to that.
LEMMA DoesOne ==
  ASSUME NEW e \in Steps, NEW r \in Rules \cup {NoRules},
           NEW R \in SUBSET Ports,
         NEW c \in Allowed(e, r, R), NEW d \in Devices
  PROVE  Does(d, c) \in Devices /\ Touches(e, R, d, Does(d, c))
<1>a. /\ c.group = e.group
      /\ c.op \in {"create", "rules", "remove", "write", "load", "rm", "clear",
                   "dropTable", "table", "apply"}
      /\ c.op \in {"rules", "write"} => c.with = r
      /\ c.op = "dropTable" => e.do \in {"del"} \cup PortEdits
      /\ c.op = "clear" => e.do = "unbind" /\ c.with = e.port
      /\ c.op = "apply" => e.do \in PortEdits /\ c.with \in R
      /\ c.op = "table" => e.do \in PortEdits /\ c.with = R
  BY DEF Allowed, Op, PortEdits
<1> USE <1>a DEF Devices, Touches, Does, Steps, PortEdits
<1>1. CASE c.op = "create"
  BY <1>1
<1>2. CASE c.op = "rules"
  BY <1>2
<1>3. CASE c.op = "remove"
  BY <1>3
<1>4. CASE c.op = "apply"
  BY <1>4
<1>5. CASE c.op = "clear"
  BY <1>5
<1>6. CASE c.op = "dropTable"
  BY <1>6
<1>7. CASE c.op = "table"
  BY <1>7
<1>8. CASE c.op = "write"
  BY <1>8
<1>9. CASE c.op = "load"
  BY <1>9
<1>10. CASE c.op = "rm"
  BY <1>10
<1>11. QED
  BY <1>1, <1>2, <1>3, <1>4, <1>5, <1>6, <1>7, <1>8, <1>9, <1>10

\* The drivers write such lines for an edit: NamedCommands and TableCommands.
LEMMA CommandsAre ==
  ASSUME TypeOK, NEW w \in Workers, NEW e \in Steps, e.do \in Edits
  PROVE  Commands(w, e)
           \in Seq(Allowed(e, worker[w].rules, worker[w].ports[e.group]))
<1> DEFINE r == worker[w].rules
           R == worker[w].ports[e.group]
           g == e.group
           S == Allowed(e, r, R)
<1>1. /\ r \in Rules \cup {NoRules} /\ R \in SUBSET Ports
      /\ IsFiniteSet(R)
      /\ e.group \in Groups /\ e.port \in Ports
  <2>1. r \in Rules \cup {NoRules} /\ R \in SUBSET Ports
        /\ e.group \in Groups /\ e.port \in Ports
    BY DEF TypeOK, Steps
  <2>2. QED  BY <2>1, FS_Subset, PortsAssumption
<1> HIDE DEF r, R
<1>2. ASSUME e.do \in PortEdits PROVE ApplyEach(g, R) \in Seq(S)
  <2> DEFINE f == SetToSeq(R)
  <2>1. Cardinality(R) \in Nat /\ f \in [1..Cardinality(R) -> R]
    BY <1>1, AllInSeq
  <2>2. \A x \in R : Op("apply", g, x) \in S
    BY <1>1, <1>2 DEF Allowed
  <2> HIDE DEF f, S
  <2>3. QED
    BY <2>1, <2>2 DEF ApplyEach, f
<1>3. Op("create", g, r) \in S /\ Op("rules", g, r) \in S
      /\ Op("remove", g, r) \in S /\ Op("write", g, r) \in S
      /\ Op("load", g, r) \in S /\ Op("rm", g, r) \in S
  BY <1>1 DEF Allowed
<1>4. ASSUME e.do \in {"del"} \cup PortEdits PROVE Op("dropTable", g, {}) \in S
  BY <1>1, <1>4 DEF Allowed
<1>5. ASSUME e.do \in PortEdits PROVE Op("table", g, R) \in S
  BY <1>1, <1>5 DEF Allowed
<1>6. ASSUME e.do = "unbind" PROVE Op("clear", g, e.port) \in S
  BY <1>1, <1>6 DEF Allowed
<1> HIDE DEF S
<1>7. GroupCommands(g, r) \in Seq(S) /\ RecreateCommands(g, r) \in Seq(S)
      /\ Rewrite(g, r) \in Seq(S)
  BY <1>3 DEF GroupCommands, RecreateCommands, Rewrite
<1>8. ASSUME e.do \in PortEdits PROVE AddAclTable(g, R) \in Seq(S)
  BY <1>4, <1>5, <1>8 DEF AddAclTable
<1>9. NamedCommands(e, r, R) \in Seq(S)
  <2>1. CASE e.do = "add"
    BY <2>1, <1>7 DEF NamedCommands
  <2>2. CASE e.do = "update"
    BY <2>2, <1>7 DEF NamedCommands
  <2>3. CASE e.do = "del"
    BY <2>3, <1>3 DEF NamedCommands
  <2>4. CASE e.do = "bind"
    BY <2>4, <1>7, <1>2 DEF NamedCommands, PortEdits
  <2>5. CASE e.do = "unbind"
    BY <2>5, <1>2, <1>6 DEF NamedCommands, NamedUnbind, PortEdits
  <2>6. QED
    BY <2>1, <2>2, <2>3, <2>4, <2>5 DEF Edits
<1>10. TableCommands(e, r, R) \in Seq(S)
  <2>1. CASE e.do \in {"add", "update"}
    BY <2>1, <1>7 DEF TableCommands
  <2>2. CASE e.do = "del"
    BY <2>2, <1>3, <1>4 DEF TableCommands
  <2>3. CASE e.do = "bind"
    BY <2>3, <1>7, <1>8 DEF TableCommands, TableBind, PortEdits
  <2>4. CASE e.do = "unbind"
    BY <2>4, <1>3, <1>4, <1>8 DEF TableCommands, PortEdits
  <2>5. QED
    BY <2>1, <2>2, <2>3, <2>4 DEF Edits
<1>11. QED
  BY <1>9, <1>10 DEF Commands, r, R, S

\* So does any list of such lines, and hence what is sent of an edit before
\* its session breaks.
LEMMA AfterPart ==
  ASSUME NEW e \in Steps, NEW r \in Rules \cup {NoRules},
           NEW R \in SUBSET Ports,
         NEW q \in Seq(Allowed(e, r, R)), NEW d \in Devices
  PROVE  After(d, q) \in Devices /\ Touches(e, R, d, After(d, q))
<1>1. PICK t : /\ t[0] = d
               /\ \A i \in 1..Len(q) : t[i] = Does(t[i-1], q[i])
               /\ After(d, q) = t[Len(q)]
  BY Trace
<1> DEFINE S == {i \in Nat : i <= Len(q) =>
                   t[i] \in Devices /\ Touches(e, R, d, t[i])}
<1>2. 0 \in S
  BY <1>1 DEF Touches, Devices, Steps
<1>3. ASSUME NEW i \in Nat, i \in S PROVE i + 1 \in S
  <2>1. SUFFICES ASSUME i + 1 <= Len(q)
                 PROVE  t[i+1] \in Devices /\ Touches(e, R, d, t[i+1])
    OBVIOUS
  <2>2. t[i] \in Devices /\ Touches(e, R, d, t[i])
    BY <1>3, <2>1
  <2>3. t[i+1] = Does(t[i], q[i+1]) /\ q[i+1] \in Allowed(e, r, R)
    <3>1. i + 1 \in 1..Len(q) /\ (i + 1) - 1 = i
      BY <2>1
    <3>2. q[i+1] \in Allowed(e, r, R)
      BY <3>1
    <3>3. QED
      BY <3>1, <3>2, <1>1
  <2>4. t[i+1] \in Devices /\ Touches(e, R, t[i], t[i+1])
    BY <2>2, <2>3, DoesOne
  <2>5. QED
    BY <2>2, <2>4 DEF Touches, Devices, Steps
<1>4. Nat \subseteq S
  <2> HIDE DEF S
  <2>1. QED  BY <1>2, <1>3, Induction
<1>5. QED
  BY <1>4, <1>1

-----------------------------------------------------------------------------
(* Lists in pieces.                                                        *)

\* Two sequences that start alike and go on alike end alike.
LEMMA Unique ==
  ASSUME NEW n \in Nat, NEW t, NEW u, t[0] = u[0],
         \A i \in 1..n : t[i-1] = u[i-1] => t[i] = u[i]
  PROVE  t[n] = u[n]
<1> DEFINE S == {i \in Nat : i <= n => t[i] = u[i]}
<1>1. 0 \in S
  OBVIOUS
<1>2. ASSUME NEW i \in Nat, i \in S PROVE i + 1 \in S
  <2>1. CASE i + 1 <= n
    <3>1. i + 1 \in 1..n /\ (i + 1) - 1 = i /\ t[i] = u[i]
      BY <2>1, <1>2
    <3>2. QED  BY <3>1
  <2>2. QED  BY <2>1
<1>3. Nat \subseteq S
  <2> HIDE DEF S
  <2>1. QED  BY <1>1, <1>2, Induction
<1>4. QED  BY <1>3

\* A list sent in two pieces.
LEMMA AfterConcat ==
  ASSUME NEW A, NEW B, NEW p \in Seq(A), NEW q \in Seq(B), NEW d
  PROVE  After(d, p \o q) = After(After(d, p), q)
<1>1. PICK t : /\ t[0] = d
               /\ \A i \in 1..Len(p) : t[i] = Does(t[i-1], p[i])
               /\ After(d, p) = t[Len(p)]
  BY Trace
<1>2. PICK u : /\ u[0] = After(d, p)
               /\ \A i \in 1..Len(q) : u[i] = Does(u[i-1], q[i])
               /\ After(After(d, p), q) = u[Len(q)]
  BY Trace
<1> DEFINE n == Len(p) + Len(q)
           v == [i \in 0..n |-> IF i <= Len(p) THEN t[i] ELSE u[i - Len(p)]]
<1>3. PICK x : /\ x[0] = d
               /\ \A i \in 1..n : x[i] = Does(x[i-1], (p \o q)[i])
               /\ After(d, p \o q) = x[n]
  <2> DEFINE pq == p \o q
  <2>1. pq \in Seq(A \cup B) /\ Len(pq) = n
    OBVIOUS
  <2> HIDE DEF pq, n
  <2>2. \E x : /\ x[0] = d
               /\ \A i \in 1..Len(pq) : x[i] = Does(x[i-1], pq[i])
               /\ After(d, pq) = x[Len(pq)]
    BY <2>1, Trace
  <2>3. QED  BY <2>1, <2>2 DEF pq
<1>4. v[0] = d
  BY <1>1
<1>5. ASSUME NEW i \in 1..n PROVE v[i] = Does(v[i-1], (p \o q)[i])
  <2>1. CASE i <= Len(p)
    <3>1. (p \o q)[i] = p[i] /\ v[i] = t[i] /\ v[i-1] = t[i-1]
            /\ i \in 1..Len(p)
      BY <2>1
    <3>2. QED  BY <3>1, <1>1
  <2>2. CASE i = Len(p) + 1
    <3>1. (p \o q)[i] = q[1] /\ v[i] = u[1] /\ v[i-1] = t[Len(p)]
            /\ 1 \in 1..Len(q)
      BY <2>2
    <3>2. QED  BY <3>1, <1>1, <1>2
  <2>3. CASE i > Len(p) + 1
    <3>1. (p \o q)[i] = q[i - Len(p)] /\ v[i] = u[i - Len(p)]
          /\ v[i-1] = u[(i - Len(p)) - 1] /\ i - Len(p) \in 1..Len(q)
      BY <2>3
    <3>2. QED  BY <3>1, <1>2
  <2>4. QED  BY <2>1, <2>2, <2>3
<1>6. v[n] = u[Len(q)]
  <2>1. CASE Len(q) = 0
    BY <2>1, <1>1, <1>2
  <2>2. CASE Len(q) # 0
    BY <2>2
  <2>3. QED  BY <2>1, <2>2
<1>7. x[n] = v[n]
  <2> DEFINE pq == p \o q
  <2>1. n \in Nat /\ x[0] = v[0]
    BY <1>3, <1>4
  <2>2. \A i \in 1..n : x[i-1] = v[i-1] => x[i] = v[i]
    BY <1>3, <1>5
  <2> HIDE DEF v, n, pq
  <2>3. QED
    BY <2>1, <2>2, Unique
<1>8. QED
  BY <1>2, <1>3, <1>6, <1>7

\* A list of one line.
LEMMA AfterOne ==
  ASSUME NEW d, NEW a
  PROVE  After(d, <<a>>) = Does(d, a)
<1> DEFINE q == <<a>>
<1>1. q \in Seq({a}) /\ Len(q) = 1 /\ q[1] = a
  OBVIOUS
<1> HIDE DEF q
<1>2. PICK t : /\ t[0] = d
               /\ \A i \in 1..Len(q) : t[i] = Does(t[i-1], q[i])
               /\ After(d, q) = t[Len(q)]
  BY <1>1, Trace
<1>3. t[1] = Does(t[0], a)
  BY <1>1, <1>2
<1>4. QED  BY <1>2, <1>3 DEF q

\* A list of two lines.
LEMMA AfterTwo ==
  ASSUME NEW d, NEW a, NEW b
  PROVE  After(d, <<a, b>>) = Does(Does(d, a), b)
<1> DEFINE q == <<a, b>>
<1>1. q \in Seq({a, b}) /\ Len(q) = 2 /\ q[1] = a /\ q[2] = b
  OBVIOUS
<1> HIDE DEF q
<1>2. PICK t : /\ t[0] = d
               /\ \A i \in 1..Len(q) : t[i] = Does(t[i-1], q[i])
               /\ After(d, q) = t[Len(q)]
  BY <1>1, Trace
<1>3. t[1] = Does(t[0], a) /\ t[2] = Does(t[1], b)
  BY <1>1, <1>2
<1>4. QED  BY <1>2, <1>3 DEF q

\* The ports R are in group g, and in no other.
Applied(d, g, R) ==
  [d EXCEPT !.applied
    = [h \in Groups |-> IF h = g THEN @[h] \cup R ELSE @[h] \ R]]

\* The lines that apply the ACL to the ports are a sequence.
LEMMA ApplySeq ==
  ASSUME NEW g, NEW R \in SUBSET Ports
  PROVE  \E A : ApplyEach(g, R) \in Seq(A)
<1> DEFINE n == Cardinality(R)
           f == SetToSeq(R)
<1>1. n \in Nat /\ f \in [1..n -> R]
  BY AllInSeq, FS_Subset, PortsAssumption
<1> HIDE DEF n, f
<1>2. ApplyEach(g, R) \in Seq({Op("apply", g, x) : x \in R})
  BY <1>1 DEF ApplyEach, f
<1>3. QED  BY <1>2

\* The lines that apply an ACL put each of the ports there, in whatever order
\* they come.
LEMMA AfterApply ==
  ASSUME NEW g \in Groups, NEW R \in SUBSET Ports, NEW d \in Devices
  PROVE  After(d, ApplyEach(g, R)) = Applied(d, g, R)
<1> DEFINE n == Cardinality(R)
           f == SetToSeq(R)
           q == ApplyEach(g, R)
<1>1. /\ n \in Nat /\ f \in [1..n -> R]
      /\ \A x \in R : \E i \in 1..n : f[i] = x
  BY AllInSeq, FS_Subset, PortsAssumption
<1> HIDE DEF n, f
<1>2. /\ q \in Seq({Op("apply", g, x) : x \in R}) /\ Len(q) = n
      /\ \A i \in 1..n : q[i] = Op("apply", g, f[i])
  BY <1>1 DEF ApplyEach, f
<1> HIDE DEF q
<1>3. PICK t : /\ t[0] = d
               /\ \A i \in 1..Len(q) : t[i] = Does(t[i-1], q[i])
               /\ After(d, q) = t[Len(q)]
  BY <1>2, Trace
<1> DEFINE upto(i) == {f[j] : j \in 1..i}
           S == {i \in Nat : i <= n => t[i] = Applied(d, g, upto(i))}
<1>4. 0 \in S
  <2>1. upto(0) = {}
    OBVIOUS
  <2>2. Applied(d, g, {}) = d
    BY DEF Applied, Devices
  <2>3. QED  BY <2>1, <2>2, <1>3
<1>5. ASSUME NEW i \in Nat, i \in S PROVE i + 1 \in S
  <2>1. SUFFICES ASSUME i + 1 <= n PROVE t[i+1] = Applied(d, g, upto(i+1))
    OBVIOUS
  <2>2. i + 1 \in 1..n /\ (i + 1) - 1 = i
    BY <2>1, <1>1
  <2>3. t[i] = Applied(d, g, upto(i))
          /\ t[i+1] = Does(t[i], Op("apply", g, f[i+1]))
    BY <2>1, <2>2, <1>1, <1>2, <1>3, <1>5
  <2>4. upto(i+1) = upto(i) \cup {f[i+1]}
    OBVIOUS
  <2> HIDE DEF upto
  <2>5. t[i].applied
          = [h \in Groups |-> IF h = g THEN d.applied[h] \cup upto(i)
                                                  ELSE d.applied[h] \ upto(i)]
        /\ t[i].acl = d.acl /\ t[i].file = d.file
        /\ t[i]
             = [acl |-> t[i].acl, file |-> t[i].file, applied |-> t[i].applied]
    BY <2>3 DEF Applied, Devices
  <2>6. t[i+1] = [t[i] EXCEPT !.applied = [h \in Groups |->
                   IF h = g THEN @[h] \cup {f[i+1]} ELSE @[h] \ {f[i+1]}]]
    BY <2>3 DEF Does, Op
  <2>7. QED
    BY <2>4, <2>5, <2>6 DEF Applied, Devices
<1>6. n \in S
  <2> HIDE DEF S
  <2>1. QED  BY <1>1, <1>4, <1>5, Induction
<1>7. upto(n) = R
  BY <1>1
<1>8. t[n] = Applied(d, g, R)
  <2> HIDE DEF upto
  <2>1. QED  BY <1>1, <1>6, <1>7
<1>9. QED
  BY <1>2, <1>3, <1>8 DEF q

-----------------------------------------------------------------------------
(* What a whole list does.                                                 *)

\* The ACLs of a device.
Acls == [Groups -> Rules \cup {NoRules, Empty, Mixed}]

\* The rule files of a device.
Files == [Groups -> Rules \cup {NoRules}]

\* The ports of the ACLs of a device.
Filters == [Groups -> SUBSET Ports]

\* f with x for g.
Put(f, g, x) == [f EXCEPT ![g] = x]

\* The device with these parts.
Device(a, f, p) == [acl |-> a, file |-> f, applied |-> p]

\* Put stays within the types.
LEMMA PutTypes ==
  ASSUME NEW g \in Groups
  PROVE  /\ \A a \in Acls, x \in Rules \cup {NoRules, Empty, Mixed} :
              Put(a, g, x) \in Acls
         /\ \A f \in Files, x \in Rules \cup {NoRules} : Put(f, g, x) \in Files
         /\ \A p \in Filters, x \in SUBSET Ports : Put(p, g, x) \in Filters
BY DEF Put, Acls, Files, Filters

\* What is put can be read, and putting again replaces it.
LEMMA PutTwice ==
  ASSUME NEW g \in Groups, NEW a \in Acls, NEW x, NEW y
  PROVE  Put(a, g, x)[g] = x /\ Put(Put(a, g, x), g, y) = Put(a, g, y)
BY DEF Put, Acls

\* The lines that write an ACL add to what it has; the ones that write it
\* anew replace it.
LEMMA AfterGroup ==
  ASSUME NEW a \in Acls,
         NEW f \in Files,
         NEW p \in Filters,
         NEW g \in Groups, NEW r \in Rules
  PROVE  /\ After(Device(a, f, p), GroupCommands(g, r))
              = Device(Put(a, g, IF a[g] \in {NoRules, Empty, r} THEN r
                ELSE Mixed), f, p)
         /\ After(Device(a, f, p), RecreateCommands(g, r))
              = Device(Put(a, g, r), f, p)
<1> USE ValuesAssumption DEF Absent, Acls, Files, Filters, Put
<1>1. ASSUME NEW b \in Acls
      PROVE  After(Device(b, f, p), GroupCommands(g, r))
              = Device(Put(b, g, IF b[g] \in {NoRules, Empty, r} THEN r
                ELSE Mixed), f, p)
  <2> DEFINE c == IF b[g] = NoRules THEN Put(b, g, Empty) ELSE b
  <2>1. After(Device(b, f, p), GroupCommands(g, r))
          = Does(Does(Device(b, f, p), Op("create", g, r)), Op("rules", g, r))
    BY AfterTwo DEF GroupCommands
  <2>2. c \in Acls
        /\ Does(Device(b, f, p), Op("create", g, r)) = Device(c, f, p)
    BY DEF Put, Does, Op, Device
  <2>3. Does(Device(c, f, p), Op("rules", g, r))
          = Device(Put(c, g, IF c[g] \in {Empty, r} THEN r ELSE Mixed), f, p)
    BY <2>2 DEF Put, Does, Op, Device
  <2>4. Put(c, g, IF c[g] \in {Empty, r} THEN r ELSE Mixed)
          = Put(b, g, IF b[g] \in {NoRules, Empty, r} THEN r ELSE Mixed)
    OBVIOUS
  <2>5. QED
    BY <2>1, <2>2, <2>3, <2>4
<1>2. After(Device(a, f, p), RecreateCommands(g, r))
        = After(Does(Device(a, f, p), Op("remove", g, r)), GroupCommands(g, r))
  <2> DEFINE c == <<Op("remove", g, r)>>
             q == GroupCommands(g, r)
  <2>1. c \in Seq({Op("remove", g, r)})
          /\ q \in Seq({Op("create", g, r), Op("rules", g, r)})
    BY DEF GroupCommands
  <2> HIDE DEF c, q
  <2>2. After(Device(a, f, p), c \o q) = After(After(Device(a, f, p), c), q)
    BY <2>1, AfterConcat
  <2>3. QED
    BY <2>2, AfterOne DEF RecreateCommands, c, q
<1>3. Does(Device(a, f, p), Op("remove", g, r))
        = Device(Put(a, g, NoRules), f, p)
      /\ Put(a, g, NoRules) \in Acls
  BY DEF Put, Does, Op, Device
<1>4. After(Device(Put(a, g, NoRules), f, p), GroupCommands(g, r))
        = Device(Put(a, g, r), f, p)
  <2> DEFINE b == Put(a, g, NoRules)
  <2>1. Put(b, g, IF b[g] \in {NoRules, Empty, r} THEN r ELSE Mixed)
           = Put(a, g, r)
    OBVIOUS
  <2> HIDE DEF b
  <2>2. QED
    BY <2>1, <1>1, <1>3 DEF b
<1>5. QED
  BY <1>1, <1>2, <1>3, <1>4

\* The lines that write a rule file write the table too, if there is one.
LEMMA AfterRewrite ==
  ASSUME NEW a \in Acls, NEW f \in Files, NEW p \in Filters,
         NEW g \in Groups, NEW r \in Rules
  PROVE  After(Device(a, f, p), Rewrite(g, r))
           = Device(Put(a, g, IF a[g] = NoRules THEN a[g] ELSE r),
                    Put(f, g, r), p)
<1> USE ValuesAssumption DEF Absent, Acls, Files, Filters, Put
<1> DEFINE h == Put(f, g, r)
           b == IF a[g] # NoRules /\ h[g] # NoRules
                THEN Put(a, g, h[g]) ELSE a
<1>1. After(Device(a, f, p), Rewrite(g, r))
        = Does(Does(Device(a, f, p), Op("write", g, r)), Op("load", g, r))
  BY AfterTwo DEF Rewrite
<1>2. h \in Files
      /\ Does(Device(a, f, p), Op("write", g, r)) = Device(a, h, p)
  BY DEF Put, Does, Op, Device
<1>3. b = Put(a, g, IF a[g] = NoRules THEN a[g] ELSE r)
  OBVIOUS
<1> HIDE DEF h
<1>4. Does(Device(a, h, p), Op("load", g, r)) = Device(b, h, p)
  BY <1>2 DEF Put, Does, Op, Device
<1>5. QED
  BY <1>1, <1>2, <1>3, <1>4 DEF h

\* The lines that make a table of ports leave it empty.
LEMMA AfterAddTable ==
  ASSUME NEW a \in Acls, NEW f \in Files, NEW p \in Filters,
         NEW g \in Groups, NEW R \in SUBSET Ports
  PROVE  After(Device(a, f, p), AddAclTable(g, R))
           = Device(Put(a, g, Empty), f, Put(p, g, R))
<1> USE ValuesAssumption DEF Absent, Acls, Files, Filters, Put
<1> DEFINE b == Put(a, g, NoRules)
           k == Put(p, g, {})
<1>1. After(Device(a, f, p), AddAclTable(g, R))
        = Does(Does(Device(a, f, p), Op("dropTable", g, {})),
          Op("table", g, R))
  BY AfterTwo DEF AddAclTable
<1>2. b \in Acls /\ k \in Filters
      /\ Does(Device(a, f, p), Op("dropTable", g, {})) = Device(b, f, k)
  BY DEF Put, Does, Op, Device
<1>3. Put(b, g, Empty) = Put(a, g, Empty)
      /\ Put(k, g, R) = Put(p, g, R)
  OBVIOUS
<1> HIDE DEF b, k
<1>4. Does(Device(b, f, k), Op("table", g, R))
        = Device(Put(b, g, Empty), f, Put(k, g, R))
  BY <1>2 DEF Put, Does, Op, Device
<1>5. QED
  BY <1>1, <1>2, <1>3, <1>4

\* The lines that remove a table remove the file too.
LEMMA AfterRemove ==
  ASSUME NEW a \in Acls, NEW f \in Files, NEW p \in Filters,
         NEW g \in Groups, NEW r \in Rules \cup {NoRules}
  PROVE  After(Device(a, f, p), <<Op("dropTable", g, {}), Op("rm", g, r)>>)
           = Device(Put(a, g, NoRules), Put(f, g, NoRules), Put(p, g, {}))
<1> USE ValuesAssumption DEF Absent, Acls, Files, Filters, Put
<1> DEFINE b == Put(a, g, NoRules)
           k == Put(p, g, {})
<1>1. After(Device(a, f, p), <<Op("dropTable", g, {}), Op("rm", g, r)>>)
        = Does(Does(Device(a, f, p), Op("dropTable", g, {})), Op("rm", g, r))
  BY AfterTwo
<1>2. b \in Acls /\ k \in Filters
      /\ Does(Device(a, f, p), Op("dropTable", g, {})) = Device(b, f, k)
  BY DEF Put, Does, Op, Device
<1> HIDE DEF b, k
<1>3. Does(Device(b, f, k), Op("rm", g, r)) = Device(b, Put(f, g, NoRules), k)
  BY <1>2 DEF Put, Does, Op, Device
<1>4. QED
  BY <1>1, <1>2, <1>3 DEF b, k

\* The ports R moved to group g.
Moved(p, g, R) ==
  [h \in Groups |-> IF h = g THEN p[h] \cup R ELSE p[h] \ R]

\* Port x taken out of group g.
Cleared(p, g, x) == Put(p, g, p[g] \ {x})

\* A whole edit of a driver with named ACLs, edit by edit.
LEMMA NamedEffect ==
  ASSUME NEW e \in Steps, NEW r \in Rules \cup {NoRules},
           NEW R \in SUBSET Ports,
         NEW a \in Acls, NEW f \in Files, NEW p \in Filters
  PROVE  LET d2 == After(Device(a, f, p), NamedCommands(e, r, R))
             g == e.group
         IN  /\ e.do = "add" /\ r \in Rules /\ a[g] \in {NoRules, r} =>
                  d2 = Device(Put(a, g, r), f, p)
             /\ e.do = "update" /\ r \in Rules =>
                  d2 = Device(Put(a, g, r), f, p)
             /\ e.do = "del" => d2 = Device(Put(a, g, NoRules), f, p)
             /\ e.do = "bind" /\ r \in Rules =>
                  d2 = Device(Put(a, g, r), f, Moved(p, g, R))
             /\ e.do = "unbind" =>
                  d2 = Device(a, f, Moved(Cleared(p, g, e.port), g, R))
<1> DEFINE g == e.group
           d == Device(a, f, p)
           d2 == After(d, NamedCommands(e, r, R))
<1>0. g \in Groups /\ e.port \in Ports
  BY DEF Steps
<1> HIDE DEF g
<1>1. ASSUME e.do = "add", r \in Rules, a[g] \in {NoRules, r}
      PROVE  d2 = Device(Put(a, g, r), f, p)
  <2>1. d2
          = Device(Put(a, g, IF a[g] \in {NoRules, Empty, r} THEN r
            ELSE Mixed), f, p)
    BY <1>0, <1>1, AfterGroup DEF NamedCommands, g
  <2>2. QED  BY <2>1, <1>1 DEF Acls
<1>2. ASSUME e.do = "update", r \in Rules
      PROVE  d2 = Device(Put(a, g, r), f, p)
  BY <1>0, <1>2, AfterGroup DEF NamedCommands, g
<1>3. ASSUME e.do = "del" PROVE d2 = Device(Put(a, g, NoRules), f, p)
  <2>1. d2 = Does(d, Op("remove", g, r))
    BY <1>3, AfterOne DEF NamedCommands, g
  <2>2. QED  BY <2>1, <1>0 DEF Put, Does, Op, Device, Acls
<1>4. ASSUME NEW b \in Acls, NEW k \in Filters
      PROVE  After(Device(b, f, k), ApplyEach(g, R))
               = Device(b, f, Moved(k, g, R))
  <2>1. Device(b, f, k) \in Devices
    BY <1>4 DEF Device, Devices, Acls, Files, Filters
  <2>2. After(Device(b, f, k), ApplyEach(g, R))
          = Applied(Device(b, f, k), g, R)
    BY <2>1, <1>0, AfterApply
  <2>3. QED  BY <2>2 DEF Applied, Device, Moved
<1>5. ASSUME e.do = "bind", r \in Rules
      PROVE  d2 = Device(Put(a, g, r), f, Moved(p, g, R))
  <2> DEFINE c == RecreateCommands(g, r)
             q == ApplyEach(g, R)
  <2>1. c \in Seq({Op("remove", g, r), Op("create", g, r), Op("rules", g, r)})
    BY DEF RecreateCommands, GroupCommands
  <2>2. \E A : q \in Seq(A)
    BY ApplySeq
  <2>3. NamedCommands(e, r, R) = c \o q
    BY <1>5 DEF NamedCommands, g
  <2> HIDE DEF c, q, d
  <2>4. d2 = After(After(d, c), q)
    BY <2>1, <2>2, <2>3, AfterConcat
  <2>5. After(d, c) = Device(Put(a, g, r), f, p) /\ Put(a, g, r) \in Acls
    <3>1. After(d, c) = Device(Put(a, g, r), f, p)
      BY <1>0, <1>5, AfterGroup DEF c, d
    <3>2. Put(a, g, r) \in Acls
      BY <1>0, <1>5, PutTypes
    <3>3. QED  BY <3>1, <3>2
  <2>6. QED
    BY <2>4, <2>5, <1>4 DEF q
<1>6. ASSUME e.do = "unbind"
      PROVE  d2 = Device(a, f, Moved(Cleared(p, g, e.port), g, R))
  <2> DEFINE c == <<Op("clear", g, e.port)>>
             q == ApplyEach(g, R)
             k == Cleared(p, g, e.port)
  <2>1. c \in Seq({Op("clear", g, e.port)})
    OBVIOUS
  <2>2. \E A : q \in Seq(A)
    BY ApplySeq
  <2>3. NamedCommands(e, r, R) = c \o q
    BY <1>6 DEF NamedCommands, NamedUnbind, g
  <2>4. After(d, c) = Does(d, Op("clear", g, e.port))
    BY AfterOne
  <2>5. Does(d, Op("clear", g, e.port)) = Device(a, f, k)
    BY <1>0 DEF Cleared, Put, Does, Op, Device, Filters
  <2>6. k \in Filters
    <3>1. p[g] \ {e.port} \in SUBSET Ports
      BY <1>0 DEF Filters
    <3>2. QED  BY <3>1, <1>0, PutTypes DEF Cleared
  <2> HIDE DEF c, q, d, k
  <2>7. d2 = After(After(d, c), q)
    BY <2>1, <2>2, <2>3, AfterConcat
  <2>8. QED
    BY <2>4, <2>5, <2>6, <2>7, <1>4 DEF q, k
<1> HIDE DEF d2
<1>7. QED
  BY <1>1, <1>2, <1>3, <1>5, <1>6 DEF d2, g

\* A whole edit of the driver with tables, edit by edit.
LEMMA TableEffect ==
  ASSUME NEW e \in Steps, NEW r \in Rules \cup {NoRules},
           NEW R \in SUBSET Ports,
         NEW a \in Acls, NEW f \in Files, NEW p \in Filters
  PROVE  LET d2 == After(Device(a, f, p), TableCommands(e, r, R))
             g == e.group
         IN  /\ e.do \in {"add", "update"} /\ r \in Rules =>
                  d2 = Device(Put(a, g, IF a[g] = NoRules THEN a[g] ELSE r),
                              Put(f, g, r), p)
             /\ e.do = "del" \/ (e.do = "unbind" /\ R = {}) =>
                  d2 = Device(Put(a, g, NoRules),
                              Put(f, g, NoRules), Put(p, g, {}))
             /\ e.do = "bind" /\ r \in Rules =>
                  d2 = Device(Put(a, g, r),
                              Put(f, g, r), Put(p, g, R))
             /\ e.do = "unbind" /\ R # {} =>
                  d2
                    = Device(Put(a, g, IF f[g] = NoRules THEN Empty ELSE f[g]),
                              f, Put(p, g, R))
<1> DEFINE g == e.group
           d == Device(a, f, p)
           d2 == After(d, TableCommands(e, r, R))
           b == Put(a, g, Empty)
           k == Put(p, g, R)
<1>0. g \in Groups
  BY DEF Steps
<1>1. ASSUME e.do \in {"add", "update"}, r \in Rules
      PROVE  d2 = Device(Put(a, g, IF a[g] = NoRules THEN a[g] ELSE r),
                         Put(f, g, r), p)
  BY <1>0, <1>1, AfterRewrite DEF TableCommands
<1>2. ASSUME e.do = "del" \/ (e.do = "unbind" /\ R = {})
      PROVE  d2 = Device(Put(a, g, NoRules),
                         Put(f, g, NoRules), Put(p, g, {}))
  <2>1. TableCommands(e, r, R) = <<Op("dropTable", g, {}), Op("rm", g, r)>>
    BY <1>2 DEF TableCommands
  <2>2. QED  BY <2>1, <1>0, AfterRemove
<1>3. /\ b \in Acls /\ k \in Filters /\ b[g] = Empty
      /\ After(d, AddAclTable(g, R)) = Device(b, f, k)
      /\ AddAclTable(g, R) \in Seq({Op("dropTable", g, {}), Op("table", g, R)})
  <2>1. After(d, AddAclTable(g, R)) = Device(b, f, k)
    BY <1>0, AfterAddTable
  <2>2. b \in Acls /\ k \in Filters /\ b[g] = Empty
    BY <1>0, PutTypes, PutTwice DEF Acls
  <2>3. AddAclTable(g, R) \in Seq({Op("dropTable", g, {}), Op("table", g, R)})
    BY DEF AddAclTable
  <2> HIDE DEF b, k, d
  <2>4. QED  BY <2>1, <2>2, <2>3
<1>4. ASSUME e.do = "bind", r \in Rules
      PROVE  d2 = Device(Put(a, g, r), Put(f, g, r), k)
  <2> DEFINE c == AddAclTable(g, R)
             q == Rewrite(g, r)
  <2>1. q \in Seq({Op("write", g, r), Op("load", g, r)})
    BY DEF Rewrite
  <2>2. TableCommands(e, r, R) = c \o q
    BY <1>4 DEF TableCommands, TableBind
  <2>3. Put(b, g, IF b[g] = NoRules THEN b[g] ELSE r) = Put(a, g, r)
    <3>1. (IF b[g] = NoRules THEN b[g] ELSE r) = r
      BY <1>3, ValuesAssumption DEF Absent
    <3>2. Put(b, g, r) = Put(a, g, r)
      BY <1>0, PutTwice
    <3> HIDE DEF b
    <3>3. QED  BY <3>1, <3>2
  <2> HIDE DEF c, q, d, b, k
  <2>4. d2 = After(After(d, c), q)
    BY <1>3, <2>1, <2>2, AfterConcat DEF c
  <2>5. After(Device(b, f, k), q)
          = Device(Put(b, g, IF b[g] = NoRules THEN b[g] ELSE r), Put(f, g, r),
            k)
    BY <1>0, <1>3, <1>4, AfterRewrite DEF q
  <2>6. QED
    BY <1>3, <2>3, <2>4, <2>5 DEF c
<1>5. ASSUME e.do = "unbind", R # {}
      PROVE  d2
               = Device(Put(a, g, IF f[g] = NoRules THEN Empty ELSE f[g]), f,
                 k)
  <2> DEFINE c == AddAclTable(g, R)
             q == <<Op("load", g, r)>>
  <2>1. q \in Seq({Op("load", g, r)})
    OBVIOUS
  <2>2. TableCommands(e, r, R) = c \o q
    BY <1>5 DEF TableCommands
  <2>3. Does(Device(b, f, k), Op("load", g, r))
          = Device(Put(a, g, IF f[g] = NoRules THEN Empty ELSE f[g]), f, k)
    <3>1. Empty # NoRules
      BY ValuesAssumption DEF Absent
    <3>3. Put(b, g, f[g]) = Put(a, g, f[g])
      BY <1>0, PutTwice
    <3> HIDE DEF b, k
    <3>4. Does(Device(b, f, k), Op("load", g, r))
             = Device(IF b[g] # NoRules /\ f[g] # NoRules
                      THEN Put(b, g, f[g]) ELSE b, f, k)
      BY <1>0, <1>3 DEF Put, Does, Op, Device
    <3>5. QED
      BY <1>3, <3>1, <3>3, <3>4 DEF b
  <2> HIDE DEF c, q, d, b, k
  <2>4. d2 = After(After(d, c), q)
    BY <1>3, <2>1, <2>2, AfterConcat DEF c
  <2>5. After(Device(b, f, k), q) = Does(Device(b, f, k), Op("load", g, r))
    BY AfterOne DEF q
  <2>6. QED
    BY <1>3, <2>3, <2>4, <2>5 DEF c
<1> HIDE DEF d2
<1>6. QED
  BY <1>1, <1>2, <1>4, <1>5 DEF d2

\* The same on the parts of a device before (d) and after (d2).
NamedDoes(e, r, R, d, d2) ==
  /\ e.do = "add" /\ r \in Rules /\ d.acl[e.group] \in {NoRules, r} =>
       d2.acl[e.group] = r
  /\ e.do \in {"update", "bind"} /\ r \in Rules => d2.acl[e.group] = r
  /\ e.do = "del" =>
       /\ d2.acl[e.group] = NoRules
       /\ d2.applied[e.group] = d.applied[e.group]
  /\ e.do = "bind" /\ r \in Rules =>
       /\ d2.applied[e.group] = d.applied[e.group] \cup R
       /\ \A h \in Groups \ {e.group} : d2.applied[h] = d.applied[h] \ R
  /\ e.do = "unbind" =>
       /\ d2.acl[e.group] = d.acl[e.group]
       /\ d2.applied[e.group] = (d.applied[e.group] \ {e.port}) \cup R

\* The same with tables.
TableDoes(e, r, R, d, d2) ==
  /\ e.do \in {"add", "update"} /\ r \in Rules =>
       /\ d2.acl[e.group] = IF d.acl[e.group] = NoRules THEN NoRules ELSE r
       /\ d2.file[e.group] = r
  /\ e.do = "del" \/ (e.do = "unbind" /\ R = {}) =>
       /\ d2.acl[e.group] = NoRules /\ d2.file[e.group] = NoRules
       /\ d2.applied[e.group] = {}
  /\ e.do = "bind" /\ r \in Rules =>
       /\ d2.acl[e.group] = r /\ d2.file[e.group] = r
       /\ d2.applied[e.group] = R
  /\ e.do = "unbind" /\ R # {} =>
       /\ d2.acl[e.group] = IF d.file[e.group] = NoRules
                            THEN Empty ELSE d.file[e.group]
       /\ d2.file[e.group] = d.file[e.group] /\ d2.applied[e.group] = R

\* What the session of an edit does when all its lines are sent.
LEMMA Effect ==
  ASSUME TypeOK, NEW w \in Workers, NEW e \in Steps, e.do \in Edits,
         NEW d \in Devices
  PROVE  LET r == worker[w].rules
             R == worker[w].ports[e.group]
             d2 == After(d, Commands(w, e))
         IN  /\ d2 \in Devices
             /\ Touches(e, R, d, d2)
             /\ scenario.driver[e.switch] = "named"
                  => NamedDoes(e, r, R, d, d2)
             /\ scenario.driver[e.switch] = "table"
                  => TableDoes(e, r, R, d, d2)
<1> DEFINE r == worker[w].rules
           g == e.group
           R == worker[w].ports[g]
           d2 == After(d, Commands(w, e))
           a == d.acl
           f == d.file
           p == d.applied
<1>1. /\ r \in Rules \cup {NoRules} /\ g \in Groups /\ R \in SUBSET Ports
  BY DEF TypeOK, Steps
<1>2. a \in Acls /\ f \in Files /\ p \in Filters /\ d = Device(a, f, p)
  BY DEF Devices, Acls, Files, Filters, Device
<1>3. d2 \in Devices /\ Touches(e, R, d, d2)
  <2> DEFINE q == Commands(w, e)
  <2>1. q \in Seq(Allowed(e, r, R))
    BY CommandsAre
  <2> HIDE DEF q, r, g, R
  <2>2. QED  BY <2>1, <1>1, AfterPart DEF q
<1>4. \A b \in Acls : \A x : Put(b, g, x)[g] = x
  BY <1>1 DEF Put, Acls
<1>5. \A b \in Files : \A x : Put(b, g, x)[g] = x
  BY <1>1 DEF Put, Files
<1>6. \A b \in Filters : \A x : Put(b, g, x)[g] = x
  BY <1>1 DEF Put, Filters
<1>7. \A b, c, k : /\ Device(b, c, k).acl = b /\ Device(b, c, k).file = c
                   /\ Device(b, c, k).applied = k
  BY DEF Device
<1>8. \A k : /\ Moved(k, g, R)[g] = k[g] \cup R
             /\ \A h \in Groups \ {g} : Moved(k, g, R)[h] = k[h] \ R
  BY <1>1 DEF Moved
<1>9. ASSUME scenario.driver[e.switch] = "named"
      PROVE  /\ e.do = "add" /\ r \in Rules /\ a[g] \in {NoRules, r} =>
                  d2 = Device(Put(a, g, r), f, p)
             /\ e.do = "update" /\ r \in Rules =>
                  d2 = Device(Put(a, g, r), f, p)
             /\ e.do = "del" => d2 = Device(Put(a, g, NoRules), f, p)
             /\ e.do = "bind" /\ r \in Rules =>
                  d2 = Device(Put(a, g, r), f, Moved(p, g, R))
             /\ e.do = "unbind" =>
                  d2 = Device(a, f, Moved(Cleared(p, g, e.port), g, R))
  <2>1. d2 = After(d, NamedCommands(e, r, R))
    BY <1>9 DEF Commands
  <2>2. d2 = After(Device(a, f, p), NamedCommands(e, r, R))
    BY <2>1, <1>2
  <2> HIDE DEF r, R, a, f, p, d2
  <2>3. a \in Acls /\ f \in Files /\ p \in Filters
    BY <1>2
  <2>4. R \in SUBSET Ports /\ r \in Rules \cup {NoRules}
    BY <1>1
  <2>5. QED  BY <2>2, <2>3, <2>4, NamedEffect
<1>10. ASSUME scenario.driver[e.switch] = "table"
       PROVE  /\ e.do \in {"add", "update"} /\ r \in Rules =>
                  d2 = Device(Put(a, g, IF a[g] = NoRules THEN a[g] ELSE r),
                              Put(f, g, r), p)
              /\ e.do = "del" \/ (e.do = "unbind" /\ R = {}) =>
                  d2 = Device(Put(a, g, NoRules),
                              Put(f, g, NoRules), Put(p, g, {}))
              /\ e.do = "bind" /\ r \in Rules =>
                  d2 = Device(Put(a, g, r),
                              Put(f, g, r), Put(p, g, R))
              /\ e.do = "unbind" /\ R # {} =>
                  d2
                    = Device(Put(a, g, IF f[g] = NoRules THEN Empty ELSE f[g]),
                              f, Put(p, g, R))
  <2>1. d2 = After(d, TableCommands(e, r, R))
    BY <1>10 DEF Commands
  <2>2. d2 = After(Device(a, f, p), TableCommands(e, r, R))
    BY <2>1, <1>2
  <2> HIDE DEF r, R, a, f, p, d2
  <2>3. QED  BY <2>2, <1>1, <1>2, TableEffect
<1> HIDE DEF r, R, d2, g
<1>11. ASSUME scenario.driver[e.switch] = "named"
       PROVE  NamedDoes(e, r, R, d, d2)
  <2>1. Cleared(p, g, e.port)[g] = p[g] \ {e.port}
    BY <1>2, <1>6 DEF Cleared
  <2> HIDE DEF a, f, p
  <2>2. /\ e.do = "add" /\ r \in Rules /\ a[g] \in {NoRules, r} =>
             d2.acl[g] = r
        /\ e.do \in {"update", "bind"} /\ r \in Rules => d2.acl[g] = r
        /\ e.do = "del" =>
             /\ d2.acl[g] = NoRules
             /\ d2.applied[g] = p[g]
        /\ e.do = "bind" /\ r \in Rules =>
             /\ d2.applied[g] = p[g] \cup R
             /\ \A h \in Groups \ {g} : d2.applied[h] = p[h] \ R
        /\ e.do = "unbind" =>
             /\ d2.acl[g] = a[g]
             /\ d2.applied[g] = (p[g] \ {e.port}) \cup R
    BY <1>2, <1>4, <1>6, <1>7, <1>8, <1>9, <1>11, <2>1
  <2>3. QED  BY <2>2 DEF a, f, p, g, NamedDoes
<1>12. ASSUME scenario.driver[e.switch] = "table"
       PROVE  TableDoes(e, r, R, d, d2)
  <2> HIDE DEF a, f, p
  <2>1. /\ e.do \in {"add", "update"} /\ r \in Rules =>
             /\ d2.acl[g] = IF a[g] = NoRules THEN NoRules ELSE r
             /\ d2.file[g] = r
        /\ e.do = "del" \/ (e.do = "unbind" /\ R = {}) =>
             /\ d2.acl[g] = NoRules /\ d2.file[g] = NoRules
             /\ d2.applied[g] = {}
        /\ e.do = "bind" /\ r \in Rules =>
             /\ d2.acl[g] = r /\ d2.file[g] = r
             /\ d2.applied[g] = R
        /\ e.do = "unbind" /\ R # {} =>
             /\ d2.acl[g] = IF f[g] = NoRules
                                  THEN Empty ELSE f[g]
             /\ d2.file[g] = f[g] /\ d2.applied[g] = R
    BY <1>2, <1>4, <1>5, <1>6, <1>7, <1>10, <1>12
  <2>2. QED  BY <2>1 DEF a, f, p, g, TableDoes
<1>13. QED
  BY <1>3, <1>11, <1>12 DEF r, R, d2, g

-----------------------------------------------------------------------------
(* The invariant.                                                          *)

\* What a callback has still to do.
Todo(w) == worker[w].todo

\* The members of a group on a switch.
MembersAt(g, s) == {p \in Ports : member[p] = g /\ SwitchOf[p] = s}

\* A port with a group is bound and its group exists.
Alive ==
  \A p \in Ports : member[p] # NoGroup =>
    p \in bound /\ rules[member[p]] \in Rules

\* The edits that send rules.
UsesRules == {"add", "update", "bind"}

\* The steps of a callback are about groups that were created, a group is
\* removed only once it is gone, a port is edited on its own switch, and what
\* a callback reads is what its later edits use.
Shaped(w) ==
  /\ \A i \in DOMAIN Todo(w) :
       LET e == Todo(w)[i]
       IN  /\ rules[e.group] # NoRules
           /\ e.do = "del" => rules[e.group] = Gone
           /\ e.do \in PortEdits => e.switch = SwitchOf[e.port]
  /\ \A i, j \in DOMAIN Todo(w) :
       LET e == Todo(w)[i]
           f == Todo(w)[j]
       IN  /\ e.do = "readRules" /\ f.do \in UsesRules => e.group = f.group
           /\ e.do = "readPorts" /\ f.do \in PortEdits => e.switch = f.switch

\* A callback that is past its reading has the rules of the database, unless
\* they changed since.
FreshRules(w) ==
  \A i \in DOMAIN Todo(w) :
    LET e == Todo(w)[i]
    IN  e.do \in UsesRules =>
          \/ \E j \in 1 .. (i - 1) : Todo(w)[j].do = "readRules"
          \/ /\ worker[w].rules \in Rules
             /\ \/ <<"rules", e.group>> \in worker[w].missed
                \/ worker[w].rules = rules[e.group]

\* A callback that is past its reading has the members of the database,
\* unless they changed since.
FreshPorts(w) ==
  \A i \in DOMAIN Todo(w) :
    LET e == Todo(w)[i]
    IN  e.do \in PortEdits =>
          \/ \E j \in 1 .. (i - 1) : Todo(w)[j].do = "readPorts"
          \/ <<"ports", e.group>> \in worker[w].missed
          \/ worker[w].ports[e.group] = MembersAt(e.group, e.switch)

\* All this of one callback.
Callback(w) == Shaped(w) /\ FreshRules(w) /\ FreshPorts(w)

\* The edits that leave an ACL right.
Sends == {"add", "update", "del", "bind"}

\* Nothing is in the way of the lines that create a named ACL, or they are
\* not what makes it right.
Addable(s, g) ==
  scenario.driver[s] = "named" =>
    \/ device[s].acl[g] \in {NoRules, rules[g]}
    \/ <<s, g>> \in oldRules
    \/ ToDo({"update", "del", "bind"}, s, g)

\* The rule file of a table has the rules of the database, is not there when
\* no port needs it, or a callback is still to write it.
Filed(s, g) ==
  scenario.driver[s] = "table" =>
    \/ device[s].file[g] = rules[g]
    \/ device[s].file[g] = NoRules /\ MembersAt(g, s) = {}
    \/ <<s, g>> \in oldRules
    \/ ToDo(Sends, s, g)

\* RulesCurrent, for one switch and one group.
Current(s, g) ==
  \/ device[s].acl[g] = rules[g]
  \/ device[s].acl[g] = NoRules
     /\ (rules[g] = Gone \/ scenario.driver[s] = "table")
  \/ <<s, g>> \in oldRules
  \/ ToDo(Sends, s, g)

\* MembersFiltered, for one port.
Filtered(p) ==
  member[p] # NoGroup =>
    \/ p \in device[SwitchOf[p]].applied[member[p]]
    \/ <<SwitchOf[p], member[p]>> \in oldPorts
    \/ ToDo({"bind"}, SwitchOf[p], member[p])

\* A callback is still to take a port out of a group.
Leaving(p, g) ==
  \E w \in Workers : \E i \in DOMAIN Todo(w) :
    LET e == Todo(w)[i]
    IN  e.do = "unbind" /\ e.port = p /\ e.group = g

\* OnlyMembersFiltered, for one port and one group.
Kept(p, g) ==
  p \in device[SwitchOf[p]].applied[g] =>
    member[p] = g \/ <<p, g>> \in left \/ Leaving(p, g)

\* The switches the callbacks go over.
Known == ToSet(scenario.switches)

\* The inductive invariant.
SGInv ==
  /\ TypeOK /\ Alive
  /\ \A w \in Workers : Callback(w)
  /\ \A s \in Known, g \in Groups :
       Addable(s, g) /\ Filed(s, g) /\ Current(s, g)
  /\ \A p \in Ports : Filtered(p)
  /\ \A p \in Ports, g \in Groups : Kept(p, g)

-----------------------------------------------------------------------------
(* The steps of a callback.                                                *)

\* What the scenario is made of.
LEMMA KnownIs ==
  ASSUME TypeOK
  PROVE  /\ scenario.driver \in [Switches -> {"named", "table"}]
         /\ scenario.switches \in Seq(Switches) /\ scenario.switches # << >>
         /\ Known \subseteq Switches
         /\ \A s \in Known : \E i \in DOMAIN scenario.switches :
              s = scenario.switches[i]
         /\ scenario.rules \subseteq Rules
BY ScenariosAssumption DEF TypeOK, AllScenarios, Known, ToSet

\* The fields of a step.
LEMMA StepIs ==
  ASSUME NEW do, NEW s, NEW g, NEW p
  PROVE  /\ Step(do, s, g, p).do = do /\ Step(do, s, g, p).switch = s
         /\ Step(do, s, g, p).group = g /\ Step(do, s, g, p).port = p
BY DEF Step

\* What a step can be.
Dos == {"readRules", "readPorts", "add", "update", "del", "bind", "unbind"}

\* A step is one of Steps.
LEMMA StepType ==
  ASSUME NEW do \in Dos, NEW s \in Switches, NEW g \in Groups, NEW p \in Ports
  PROVE  Step(do, s, g, p) \in Steps
BY DEF Step, Steps, Dos

\* The same step on every switch: each switch has one.
LEMMA OnSwitchesIs ==
  ASSUME TypeOK, NEW do \in Dos, NEW g \in Groups
  PROVE  LET q == OnSwitches(do, g)
         IN  /\ q \in Seq(Steps) /\ q # << >>
             /\ \A i \in DOMAIN q : q[i].do = do /\ q[i].group = g
             /\ \A s \in Known : \E i \in DOMAIN q : q[i].switch = s
<1> DEFINE sw == scenario.switches
           x == CHOOSE p \in Ports : TRUE
           q == OnSwitches(do, g)
<1>1. x \in Ports
  BY PortsAssumption
<1>2. sw \in Seq(Switches) /\ sw # << >>
  BY KnownIs
<1>3. DOMAIN q = DOMAIN sw /\ \A i \in DOMAIN sw : q[i] = Step(do, sw[i], g, x)
  BY DEF OnSwitches
<1>4. \A i \in DOMAIN sw : Step(do, sw[i], g, x) \in Steps
  BY <1>1, <1>2, StepType
<1>5. \A s \in Known : \E i \in DOMAIN sw : s = sw[i]
  BY KnownIs
<1>6. q = [i \in DOMAIN sw |-> Step(do, sw[i], g, x)]
  BY DEF OnSwitches
<1> HIDE DEF q, x, sw
<1>7. q \in Seq(Steps) /\ q # << >>
  <2>1. DOMAIN sw = 1..Len(sw) /\ Len(sw) \in Nat /\ Len(sw) # 0
    BY <1>2
  <2>2. q \in [1..Len(sw) -> Steps]
    BY <2>1, <1>4, <1>6
  <2>3. QED  BY <2>1, <2>2
<1>8. \A i \in DOMAIN q : q[i].do = do /\ q[i].group = g
  BY <1>3, StepIs
<1>9. \A s \in Known : \E i \in DOMAIN q : q[i].switch = s
  BY <1>3, <1>5, StepIs
<1>10. QED
  BY <1>7, <1>8, <1>9 DEF q

\* The steps of a callback that writes a group: it reads, then it edits every
\* switch.
LEMMA GroupStepsAre ==
  ASSUME TypeOK, NEW do \in {"add", "update"}, NEW g \in Groups
  PROVE  LET q == GroupSteps(do, g)
         IN  /\ q \in Seq(Steps) /\ q # << >> /\ q[1].do = "readRules"
             /\ \A i \in DOMAIN q : q[i].group = g
             /\ \A i \in DOMAIN q : i = 1 \/ q[i].do = do
             /\ \A s \in Known : \E i \in DOMAIN q :
                  q[i].switch = s /\ q[i].do = do
<1> DEFINE o == OnSwitches(do, g)
           f == [o[1] EXCEPT !.do = "readRules"]
           q == GroupSteps(do, g)
<1>1. /\ o \in Seq(Steps) /\ o # << >>
      /\ \A i \in DOMAIN o : o[i].do = do /\ o[i].group = g
      /\ \A s \in Known : \E i \in DOMAIN o : o[i].switch = s
  <2>1. do \in Dos
    BY DEF Dos
  <2>2. QED  BY <2>1, OnSwitchesIs
<1>2. q = <<f>> \o o
  BY DEF GroupSteps
<1>3. 1 \in DOMAIN o /\ o[1] \in Steps
  BY <1>1
<1>4. f \in Steps /\ f.do = "readRules" /\ f.group = g
  BY <1>1, <1>3 DEF Steps
<1> HIDE DEF o, f, q
<1>5. q \in Seq(Steps) /\ q[1] = f /\ DOMAIN q = 1..(Len(o)+1)
        /\ DOMAIN o = 1..Len(o)
      /\ Len(o) \in Nat /\ q # << >>
      /\ \A i \in 1..Len(o) : q[i+1] = o[i]
  BY <1>1, <1>2, <1>4
<1>6. \A i \in DOMAIN q : i = 1 \/ (i - 1 \in 1..Len(o) /\ q[i] = o[i-1])
  BY <1>5
<1>7. \A i \in DOMAIN q : q[i].group = g /\ (i = 1 \/ q[i].do = do)
  BY <1>1, <1>4, <1>5, <1>6
<1>8. \A s \in Known : \E i \in DOMAIN q : q[i].switch = s /\ q[i].do = do
  <2>1. SUFFICES ASSUME NEW s \in Known
                 PROVE  \E i \in DOMAIN q : q[i].switch = s /\ q[i].do = do
    OBVIOUS
  <2>2. PICK j \in DOMAIN o : o[j].switch = s
    BY <1>1
  <2>3. j + 1 \in DOMAIN q /\ q[j+1] = o[j]
    BY <1>5
  <2>4. QED  BY <1>1, <2>2, <2>3
<1>9. QED
  BY <1>4, <1>5, <1>7, <1>8 DEF q

\* One element in front of a sequence.
LEMMA Pushed ==
  ASSUME NEW S, NEW x \in S, NEW q \in Seq(S), NEW t \in Seq(S),
         Len(t) = Len(q) + 1, t[1] = x, \A i \in 1..Len(q) : t[i+1] = q[i]
  PROVE  <<x>> \o q = t
<1> DEFINE s == <<x>> \o q
<1>1. s \in Seq(S) /\ Len(s) = Len(q) + 1 /\ s[1] = x
      /\ \A i \in 1..Len(q) : s[i+1] = q[i]
  OBVIOUS
<1> HIDE DEF s
<1>2. \A i \in 1..Len(s) : i = 1 \/ (i-1 \in 1..Len(q) /\ (i-1)+1 = i)
  BY <1>1
<1>3. \A i \in 1..Len(s) : s[i] = t[i]
  BY <1>1, <1>2
<1>4. QED  BY <1>1, <1>3, SeqEqual DEF s

\* One element in front of one.
LEMMA Push1 ==
  ASSUME NEW x, NEW y
  PROVE  <<x>> \o <<y>> = <<x, y>>
<1> DEFINE S == {x, y}
           a == <<y>>
           b == <<x, y>>
<1>1. /\ x \in S
      /\ a \in Seq(S) /\ Len(a) = 1
      /\ a[1] = y
      /\ b \in Seq(S) /\ Len(b) = 2
      /\ b[1] = x /\ b[2] = y
  OBVIOUS
<1>2. \A i \in 1 .. 1 : i = 1
  OBVIOUS
<1> HIDE DEF a, b, S
<1>3. Len(b) = Len(a) + 1 /\ \A i \in 1 .. Len(a) : b[i + 1] = a[i]
  BY <1>1, <1>2
<1>4. <<x>> \o a = b
  BY <1>1, <1>3, Pushed
<1>5. QED  BY <1>4 DEF a, b

\* One element in front of two.
LEMMA Push2 ==
  ASSUME NEW x, NEW y, NEW z
  PROVE  <<x>> \o <<y, z>> = <<x, y, z>>
<1> DEFINE S == {x, y, z}
           a == <<y, z>>
           b == <<x, y, z>>
<1>1. /\ x \in S
      /\ a \in Seq(S) /\ Len(a) = 2
      /\ a[1] = y /\ a[2] = z
      /\ b \in Seq(S) /\ Len(b) = 3
      /\ b[1] = x /\ b[2] = y /\ b[3] = z
  OBVIOUS
<1>2. \A i \in 1 .. 2 : i = 1 \/ i = 2
  OBVIOUS
<1> HIDE DEF a, b, S
<1>3. Len(b) = Len(a) + 1 /\ \A i \in 1 .. Len(a) : b[i + 1] = a[i]
  BY <1>1, <1>2
<1>4. <<x>> \o a = b
  BY <1>1, <1>3, Pushed
<1>5. QED  BY <1>4 DEF a, b

\* One element in front of three.
LEMMA Push3 ==
  ASSUME NEW v, NEW x, NEW y, NEW z
  PROVE  <<v>> \o <<x, y, z>> = <<v, x, y, z>>
<1> DEFINE S == {v, x, y, z}
           a == <<x, y, z>>
           b == <<v, x, y, z>>
<1>1. /\ v \in S
      /\ a \in Seq(S) /\ Len(a) = 3
      /\ a[1] = x /\ a[2] = y /\ a[3] = z
      /\ b \in Seq(S) /\ Len(b) = 4
      /\ b[1] = v /\ b[2] = x /\ b[3] = y /\ b[4] = z
  OBVIOUS
<1>2. \A i \in 1 .. 3 : i = 1 \/ i = 2 \/ i = 3
  OBVIOUS
<1> HIDE DEF a, b, S
<1>3. Len(b) = Len(a) + 1 /\ \A i \in 1 .. Len(a) : b[i + 1] = a[i]
  BY <1>1, <1>2
<1>4. <<v>> \o a = b
  BY <1>1, <1>3, Pushed
<1>5. QED  BY <1>4 DEF a, b

\* Nothing in front of two.
LEMMA NoneBefore ==
  ASSUME NEW y, NEW z
  PROVE  << >> \o <<y, z>> = <<y, z>>
<1> DEFINE b == <<y, z>>
<1>1. b \in Seq({y, z})
  OBVIOUS
<1> HIDE DEF b
<1>2. << >> \o b = b
  BY <1>1
<1>3. QED  BY <1>2 DEF b

\* What matters of the steps for a port that moves from prev to new.
IsPortSteps(q, p, prev, new) ==
  /\ \A i \in DOMAIN q :
       /\ q[i].do \in {"readPorts", "unbind", "readRules", "bind"}
       /\ q[i].switch = SwitchOf[p] /\ q[i].port = p
       /\ q[i].group \in {prev, new} \ {NoGroup}
       /\ q[i].do \in {"readRules", "bind"} => q[i].group = new
       /\ i = 1 <=> q[i].do = "readPorts"
       /\ q[i].do = "bind" => \E j \in 1 .. (i - 1) : q[j].do = "readRules"
  /\ prev # new /\ new # NoGroup =>
       \E i \in DOMAIN q : q[i].do = "bind" /\ q[i].group = new
  /\ prev # new /\ prev # NoGroup =>
       \E i \in DOMAIN q : q[i].do = "unbind" /\ q[i].group = prev

\* PortSteps lists such steps.
LEMMA PortStepsAre ==
  ASSUME NEW p \in Ports, NEW prev \in Groups \cup {NoGroup},
         NEW new \in Groups \cup {NoGroup}
  PROVE  /\ PortSteps(p, prev, new) \in Seq(Steps)
         /\ IsPortSteps(PortSteps(p, prev, new), p, prev, new)
<1> DEFINE s == SwitchOf[p]
           u == Step("unbind", s, prev, p)
           r == Step("readRules", s, new, p)
           b == Step("bind", s, new, p)
           h(x) == [x EXCEPT !.do = "readPorts"]
           q == PortSteps(p, prev, new)
<1>1. s \in Switches
  BY PortsAssumption
<1>2. prev \in Groups =>
        /\ u \in Steps /\ u.do = "unbind" /\ u.switch = s /\ u.group = prev
        /\ u.port = p
        /\ h(u) \in Steps /\ h(u).do = "readPorts" /\ h(u).switch = s
        /\ h(u).group = prev /\ h(u).port = p
  BY <1>1 DEF Step, Steps
<1>3. new \in Groups =>
        /\ r \in Steps /\ r.do = "readRules" /\ r.switch = s /\ r.group = new
        /\ r.port = p
        /\ b \in Steps /\ b.do = "bind" /\ b.switch = s /\ b.group = new
        /\ b.port = p
        /\ h(r) \in Steps /\ h(r).do = "readPorts" /\ h(r).switch = s
        /\ h(r).group = new /\ h(r).port = p
  BY <1>1 DEF Step, Steps
<1>4. NoGroup \notin Groups
  BY ValuesAssumption
<1>5. /\ prev = new => q = << >>
      /\ prev # new /\ prev = NoGroup => q = <<h(r), r, b>>
      /\ prev # new /\ new = NoGroup => q = <<h(u), u>>
      /\ prev # new /\ prev # NoGroup /\ new # NoGroup => q = <<h(u), u, r, b>>
  <2> DEFINE un == UnbindSteps(p, prev)
             bi == BindSteps(p, new)
             ed == un \o bi
  <2>1. /\ prev = NoGroup => un = << >>
        /\ prev # NoGroup => un = <<u>>
        /\ new = NoGroup => bi = << >>
        /\ new # NoGroup => bi = <<r, b>>
    BY DEF UnbindSteps, BindSteps
  <2>2. q = IF prev = new THEN << >> ELSE <<h(Head(ed))>> \o ed
    BY DEF PortSteps
  <2> HIDE DEF un, bi, u, r, b, h, q
  <2>3. CASE prev = new
    BY <2>2, <2>3
  <2>4. CASE prev # new /\ prev = NoGroup
    <3>1. un = << >> /\ bi = <<r, b>>
      BY <2>1, <2>4, ValuesAssumption
    <3>2. ed = <<r, b>>
      BY <3>1, NoneBefore
    <3>3. Head(ed) = r
      BY <3>2
    <3>4. <<h(r)>> \o <<r, b>> = <<h(r), r, b>>
      BY Push2
    <3>5. QED  BY <2>2, <2>4, <3>2, <3>3, <3>4
  <2>5. CASE prev # new /\ new = NoGroup
    <3>1. un = <<u>> /\ bi = << >>
      BY <2>1, <2>5, ValuesAssumption
    <3>2. ed = <<u>>
      BY <3>1
    <3>3. Head(ed) = u
      BY <3>2
    <3>4. <<h(u)>> \o <<u>> = <<h(u), u>>
      BY Push1
    <3>5. QED  BY <2>2, <2>5, <3>2, <3>3, <3>4
  <2>6. CASE prev # new /\ prev # NoGroup /\ new # NoGroup
    <3>1. un = <<u>> /\ bi = <<r, b>>
      BY <2>1, <2>6
    <3>2. <<u>> \o <<r, b>> = <<u, r, b>>
      BY Push2
    <3>3. ed = <<u, r, b>>
      BY <3>1, <3>2
    <3>4. Head(ed) = u
      BY <3>3
    <3>5. <<h(u)>> \o <<u, r, b>> = <<h(u), u, r, b>>
      BY Push3
    <3>6. QED  BY <2>2, <2>6, <3>3, <3>4, <3>5
  <2>7. QED  BY <2>3, <2>4, <2>5, <2>6
<1> HIDE DEF s, u, r, b, h, q
<1>6. CASE prev = new
  BY <1>5, <1>6 DEF IsPortSteps, q
<1>7. CASE prev # new /\ prev = NoGroup
  <2> DEFINE x == h(r)
  <2>1. q = <<x, r, b>> /\ new \in Groups
    BY <1>4, <1>5, <1>7
  <2> HIDE DEF x
  <2>2. q \in Seq(Steps) /\ DOMAIN q = 1..3 /\ q[1] = x /\ q[2] = r /\ q[3] = b
    BY <1>3, <2>1 DEF x
  <2>3. \A i \in 1..3 : i = 1 \/ i = 2 \/ i = 3
    OBVIOUS
  <2>4. 2 \in 1..(3-1)
    OBVIOUS
  <2>5. QED  BY <1>3, <1>7, <1>4, <2>1, <2>2, <2>3, <2>4
                  DEF IsPortSteps, q, s, x
<1>8. CASE prev # new /\ new = NoGroup
  <2> DEFINE x == h(u)
  <2>1. q = <<x, u>> /\ prev \in Groups
    BY <1>4, <1>5, <1>8
  <2> HIDE DEF x
  <2>2. q \in Seq(Steps) /\ DOMAIN q = 1..2 /\ q[1] = x /\ q[2] = u
    BY <1>2, <2>1 DEF x
  <2>3. \A i \in 1..2 : i = 1 \/ i = 2
    OBVIOUS
  <2>4. QED  BY <1>2, <1>8, <1>4, <2>1, <2>2, <2>3 DEF IsPortSteps, q, s, x
<1>9. CASE prev # new /\ prev # NoGroup /\ new # NoGroup
  <2> DEFINE x == h(u)
  <2>1. q = <<x, u, r, b>> /\ prev \in Groups /\ new \in Groups
    BY <1>4, <1>5, <1>9
  <2> HIDE DEF x
  <2>2. q \in Seq(Steps) /\ DOMAIN q = 1..4 /\ q[1] = x /\ q[2] = u /\ q[3] = r
          /\ q[4] = b
    BY <1>2, <1>3, <2>1 DEF x
  <2>3. \A i \in 1..4 : i = 1 \/ i = 2 \/ i = 3 \/ i = 4
    OBVIOUS
  <2>4. 3 \in 1..(4-1)
    OBVIOUS
  <2>5. QED  BY <1>2, <1>3, <1>9, <1>4, <2>1, <2>2, <2>3, <2>4
                  DEF IsPortSteps, q, s, x
<1>10. QED  BY <1>6, <1>7, <1>8, <1>9

-----------------------------------------------------------------------------
(* The database changes under the callbacks.                               *)

\* The callbacks of TypeOK.
Callbacks ==
  [todo : Seq(Steps), rules : Rules \cup {NoRules},
   ports : [Groups -> SUBSET Ports],
   missed : SUBSET ({"rules", "ports"} \X Groups)]

\* An event leaves a callback its steps and what it has read, and marks the
\* reading as missed while the callback has something to do.
Interrupts(v, changes) ==
  /\ worker'[v].todo = worker[v].todo
  /\ worker'[v].rules = worker[v].rules /\ worker'[v].ports = worker[v].ports
  /\ \/ worker[v].todo = << >>
     \/ worker'[v].missed = worker[v].missed \cup changes

\* The workers are callbacks.
LEMMA WorkerType ==
  ASSUME TypeOK
  PROVE  worker \in [Workers -> Callbacks] /\ Idle \in Callbacks
<1>1. worker \in [Workers -> Callbacks]
  BY DEF TypeOK, Callbacks
<1>2. Idle \in Callbacks
  BY DEF Idle, Callbacks
<1>3. QED  BY <1>1, <1>2

\* Missed interrupts a callback.
LEMMA MissedIs ==
  ASSUME TypeOK, NEW v \in Workers,
         NEW changes \in SUBSET ({"rules", "ports"} \X Groups)
  PROVE  /\ Missed(v, changes) \in Callbacks
         /\ worker'[v] = Missed(v, changes) => Interrupts(v, changes)
<1>1. worker[v] \in Callbacks
  BY WorkerType
<1>2. CASE worker[v] = Idle
  <2>1. Missed(v, changes) = Idle /\ Idle \in Callbacks
    BY <1>2, WorkerType DEF Missed
  <2>2. worker[v].todo = << >>
    BY <1>2 DEF Idle
  <2>3. QED  BY <1>2, <2>1, <2>2 DEF Interrupts
<1>3. CASE worker[v] # Idle
  <2>1. Missed(v, changes)
          = [worker[v] EXCEPT !.missed = worker[v].missed \cup changes]
    BY <1>3 DEF Missed
  <2>2. worker[v].missed \cup changes \in SUBSET ({"rules", "ports"} \X Groups)
    BY <1>1 DEF Callbacks
  <2>3. QED
    BY <1>1, <2>1, <2>2 DEF Interrupts, Callbacks
<1>4. QED  BY <1>2, <1>3

\* Starts gives the steps to an idle callback and interrupts the others.
LEMMA StartsIs ==
  ASSUME TypeOK, NEW w \in Workers, NEW steps \in Seq(Steps),
         NEW changes \in SUBSET ({"rules", "ports"} \X Groups),
         Starts(w, steps, changes)
  PROVE  /\ worker[w].todo = << >> /\ worker'[w].todo = steps
         /\ \A v \in Workers \ {w} : Interrupts(v, changes)
         /\ worker' \in [Workers -> Callbacks]
<1>1. worker[w].todo = << >>
  BY DEF Starts, Idle
<1>2. worker'[w] = [Idle EXCEPT !.todo = steps]
  BY DEF Starts
<1>3. worker'[w].todo = steps /\ worker'[w] \in Callbacks
  BY <1>2 DEF Idle, Callbacks
<1>4. \A v \in Workers \ {w} : worker'[v] = Missed(v, changes)
  BY DEF Starts
<1>5. \A v \in Workers \ {w} :
        worker'[v] \in Callbacks /\ Interrupts(v, changes)
  BY <1>4, MissedIs
<1>6. worker' \in [Workers -> Callbacks]
  <2>1. worker' = [v \in Workers |-> worker'[v]]
    BY DEF Starts
  <2>2. \A v \in Workers : worker'[v] \in Callbacks
    BY <1>3, <1>5
  <2>3. QED  BY <2>1, <2>2
<1>7. QED  BY <1>1, <1>3, <1>5, <1>6

\* The rules change only where the event says so; a group once created stays
\* created, and gone once it is gone.
RulesMove(changes) ==
  \A g \in Groups :
    /\ rules'[g] = rules[g] \/ <<"rules", g>> \in changes
    /\ rules[g] # NoRules => rules'[g] # NoRules
    /\ rules[g] = Gone => rules'[g] = Gone

\* The members change only where the event says so.
MembersMove(changes) ==
  \A p \in Ports, g \in Groups :
    \/ member[p] = g <=> member'[p] = g
    \/ <<"ports", g>> \in changes

\* An event keeps what SGInv says of a callback it interrupts.
LEMMA Interrupted ==
  ASSUME TypeOK, NEW v \in Workers, Callback(v), NEW changes,
         Interrupts(v, changes), RulesMove(changes), MembersMove(changes)
  PROVE  Callback(v)'
<1>0. Todo(v)' = Todo(v) /\ worker[v] \in Callbacks
  BY WorkerType DEF Interrupts, Todo
<1>a. \A i \in DOMAIN Todo(v) :
        Todo(v)[i] \in Steps /\ Todo(v)[i].group \in Groups
  <2>1. Todo(v) \in Seq(Steps)
    BY <1>0 DEF Callbacks, Todo
  <2>2. \A e \in Steps : e.group \in Groups
    BY DEF Steps
  <2>3. QED  BY <2>1, <2>2
<1>b. Todo(v) = << >> \/ worker'[v].missed = worker[v].missed \cup changes
  BY DEF Interrupts, Todo
<1>c. Shaped(v) /\ FreshRules(v) /\ FreshPorts(v)
  BY DEF Callback
<1>1. Shaped(v)'
  <2>1. \A i \in DOMAIN Todo(v) :
          rules[Todo(v)[i].group] # NoRules =>
             /\ rules'[Todo(v)[i].group] # NoRules
             /\ rules[Todo(v)[i].group] = Gone
                  => rules'[Todo(v)[i].group] = Gone
    BY <1>a DEF RulesMove
  <2>2. QED
    BY <1>0, <1>c, <2>1 DEF Shaped
<1>2. FreshRules(v)'
  <2>1. CASE Todo(v) = << >>
    BY <2>1, <1>0 DEF FreshRules
  <2>2. CASE worker'[v].missed = worker[v].missed \cup changes
    BY <2>2, <1>0, <1>a, <1>c DEF FreshRules, RulesMove, Interrupts
  <2>3. QED  BY <1>b, <2>1, <2>2
<1>3. FreshPorts(v)'
  <2>1. CASE Todo(v) = << >>
    BY <2>1, <1>0 DEF FreshPorts
  <2>2. CASE worker'[v].missed = worker[v].missed \cup changes
    <3>1. ASSUME NEW g \in Groups, NEW s, <<"ports", g>> \notin changes
          PROVE  MembersAt(g, s)' = MembersAt(g, s)
      BY <3>1 DEF MembersAt, MembersMove
    <3>2. QED
      BY <2>2, <3>1, <1>0, <1>a, <1>c DEF FreshPorts, Interrupts
  <2>3. QED  BY <1>b, <2>1, <2>2
<1>4. QED  BY <1>1, <1>2, <1>3 DEF Callback

\* An event takes no step from a callback.
LEMMA ToDoStays ==
  ASSUME \A v \in Workers :
           worker[v].todo = << >> \/ worker'[v].todo = worker[v].todo,
         NEW dos, NEW s, NEW g, ToDo(dos, s, g)
  PROVE  ToDo(dos, s, g)'
BY DEF ToDo

\* Neither does it take the step that takes a port out of a group.
LEMMA LeavingStays ==
  ASSUME \A v \in Workers :
           worker[v].todo = << >> \/ worker'[v].todo = worker[v].todo,
         NEW p, NEW g, Leaving(p, g)
  PROVE  Leaving(p, g)'
BY DEF Leaving, Todo

\* The types of the database.
LEMMA GroupType ==
  ASSUME TypeOK
  PROVE  /\ rules \in [Groups -> Rules \cup Absent]
         /\ member \in [Ports -> Groups \cup {NoGroup}]
         /\ NoGroup \notin Groups
         /\ NoRules \notin Rules /\ Gone \notin Rules /\ NoRules # Gone
BY ValuesAssumption DEF TypeOK, Absent

\* What the events about a group have in common: the rules become r and a
\* callback is to edit every switch.
GroupChange(w, g0, r, steps, do) ==
  /\ do \in {"add", "update", "del"} /\ (do = "del" <=> r = Gone)
  /\ do = "add" => rules[g0] = NoRules
  /\ do = "del" => \A p \in Ports : member[p] # g0
  /\ rules' = [rules EXCEPT ![g0] = r] /\ rules[g0] # Gone
  /\ Starts(w, steps, {<<"rules", g0>>})
  /\ UNCHANGED <<scenario, member, bound, device, ghosts>>
  /\ \A i \in DOMAIN steps :
       steps[i].group = g0 /\ steps[i].do \in {"readRules", do}
  /\ do # "del" => steps # << >> /\ steps[1].do = "readRules"
  /\ \A s \in Known : \E i \in DOMAIN steps :
       steps[i].switch = s /\ steps[i].do = do

\* Such an event keeps the invariant.
LEMMA GroupChanges ==
  ASSUME SGInv, NEW w \in Workers, NEW g0 \in Groups,
         NEW r \in Rules \cup {Gone}, NEW steps \in Seq(Steps), NEW do,
         GroupChange(w, g0, r, steps, do)
  PROVE  SGInv'
<1>0. /\ do \in {"add", "update", "del"} /\ (do = "del" <=> r = Gone)
      /\ do = "add" => rules[g0] = NoRules
      /\ do = "del" => \A p \in Ports : member[p] # g0
      /\ rules' = [rules EXCEPT ![g0] = r] /\ rules[g0] # Gone
      /\ Starts(w, steps, {<<"rules", g0>>})
      /\ UNCHANGED <<scenario, member, bound, device, ghosts>>
      /\ \A i \in DOMAIN steps :
           steps[i].group = g0 /\ steps[i].do \in {"readRules", do}
      /\ do # "del" => steps # << >> /\ steps[1].do = "readRules"
      /\ \A s \in Known : \E i \in DOMAIN steps :
           steps[i].switch = s /\ steps[i].do = do
  BY DEF GroupChange
<1> USE <1>0
<1> DEFINE changes == {<<"rules", g0>>}
<1>1. TypeOK
  BY DEF SGInv
<1>2. changes \in SUBSET ({"rules", "ports"} \X Groups)
  OBVIOUS
<1>3. /\ worker[w].todo = << >> /\ worker'[w].todo = steps
      /\ \A v \in Workers \ {w} : Interrupts(v, changes)
      /\ worker' \in [Workers -> Callbacks]
  BY <1>1, <1>2, StartsIs
<1>4. \A v \in Workers :
        worker[v].todo = << >> \/ worker'[v].todo = worker[v].todo
  BY <1>3 DEF Interrupts
<1>5. /\ \A g \in Groups \ {g0} : rules'[g] = rules[g]
      /\ rules'[g0] = r /\ r # NoRules
      /\ rules' \in [Groups -> Rules \cup Absent]
  BY <1>1, GroupType DEF Absent
<1>6. RulesMove(changes) /\ MembersMove(changes)
  BY <1>5 DEF RulesMove, MembersMove
<1>a. Known' = Known
  BY DEF Known
<1>7. TypeOK'
  BY <1>1, <1>3, <1>5 DEF TypeOK, Callbacks, ghosts
<1>8. Alive'
  BY <1>1, <1>5, GroupType DEF SGInv, Alive
<1>9. ASSUME NEW v \in Workers PROVE Callback(v)'
  <2>1. CASE v # w
    BY <2>1, <1>1, <1>3, <1>6, Interrupted DEF SGInv
  <2>2. CASE v = w
    <3>1. Todo(w)' = steps
      BY <1>3 DEF Todo
    <3>2. Shaped(w)'
      BY <3>1, <1>5 DEF Shaped, PortEdits, UsesRules
    <3>3. FreshRules(w)'
      <4>1. ASSUME NEW i \in DOMAIN steps, steps[i].do \in UsesRules
            PROVE  1 \in 1 .. (i-1) /\ steps[1].do = "readRules"
        <5>1. do # "del" /\ i # 1
          BY <4>1 DEF UsesRules
        <5>2. QED  BY <5>1
      <4>2. QED  BY <3>1, <4>1 DEF FreshRules
    <3>4. FreshPorts(w)'
      BY <3>1 DEF FreshPorts, PortEdits
    <3>5. QED  BY <2>2, <3>2, <3>3, <3>4 DEF Callback
  <2>3. QED  BY <2>1, <2>2
<1>10. ASSUME NEW s \in Known PROVE ToDo({do}, s, g0)'
  BY <1>3 DEF ToDo
<1>11. ASSUME NEW s \in Known', NEW g \in Groups
       PROVE  Addable(s, g)' /\ Filed(s, g)' /\ Current(s, g)'
  <2>0. Addable(s, g) /\ Filed(s, g) /\ Current(s, g)
    BY <1>a, <1>11 DEF SGInv
  <2>a. MembersAt(g, s)' = MembersAt(g, s)
    BY DEF MembersAt
  <2>b. \A dos : ToDo(dos, s, g) => ToDo(dos, s, g)'
    BY <1>4, ToDoStays
  <2>1. CASE g # g0
    BY <2>0, <2>a, <2>b, <2>1, <1>5 DEF Addable, Filed, Current, ghosts
  <2>2. CASE g = g0
    <3>1. \A dos : do \in dos => ToDo(dos, s, g)'
      BY <1>10, <1>a, <2>2 DEF ToDo
    <3>2. Filed(s, g)' /\ Current(s, g)'
      BY <3>1 DEF Filed, Current, Sends
    <3>3. Addable(s, g)'
      BY <2>0, <2>b, <2>2, <3>1, <1>5 DEF Addable, ghosts
    <3>4. QED  BY <3>2, <3>3
  <2>3. QED  BY <2>1, <2>2
<1>12. ASSUME NEW p \in Ports PROVE Filtered(p)'
  <2>1. ToDo({"bind"}, SwitchOf[p], member[p])
          => ToDo({"bind"}, SwitchOf[p], member[p])'
    BY <1>4, ToDoStays
  <2>2. QED  BY <2>1 DEF SGInv, Filtered, ghosts
<1>13. ASSUME NEW p \in Ports, NEW g \in Groups PROVE Kept(p, g)'
  <2>1. Leaving(p, g) => Leaving(p, g)'
    BY <1>4, LeavingStays
  <2>2. QED  BY <2>1 DEF SGInv, Kept, ghosts
<1>14. QED
  BY <1>7, <1>8, <1>9, <1>11, <1>12, <1>13 DEF SGInv

-----------------------------------------------------------------------------
(* The events of Neutron.                                                  *)

\* A group is created.
LEMMA CreateKeeps ==
  ASSUME SGInv, NEW w \in Workers, NEW g \in Groups, CreateGroup(w, g)
  PROVE  SGInv'
<1>1. TypeOK
  BY DEF SGInv
<1>2. PICK r \in Rules : rules' = [rules EXCEPT ![g] = r]
  BY <1>1, KnownIs DEF CreateGroup
<1>q. PICK q \in Seq(Steps) : q = GroupSteps("add", g)
  BY <1>1, GroupStepsAre
<1>3. /\ q \in Seq(Steps) /\ q # << >> /\ q[1].do = "readRules"
      /\ \A i \in DOMAIN q : q[i].group = g
      /\ \A i \in DOMAIN q : i = 1 \/ q[i].do = "add"
      /\ \A s \in Known : \E i \in DOMAIN q :
           q[i].switch = s /\ q[i].do = "add"
  BY <1>1, <1>q, GroupStepsAre
<1>4. rules[g] = NoRules /\ NoRules # Gone /\ r # Gone
  BY <1>1, GroupType DEF CreateGroup
<1>5. Starts(w, q, {<<"rules", g>>})
      /\ UNCHANGED <<scenario, member, bound, device, ghosts>>
  BY <1>q DEF CreateGroup
<1> DEFINE do == "add"
<1>d. /\ do \in {"add", "update", "del"}
      /\ do = "add" => rules[g] = NoRules
      /\ do # "del" => q # << >> /\ q[1].do = "readRules"
      /\ do = "del" <=> r = Gone
  BY <1>3, <1>4
<1>6. /\ \A i \in DOMAIN q : q[i].group = g /\ q[i].do \in {"readRules", do}
      /\ \A s \in Known : \E i \in DOMAIN q : q[i].switch = s /\ q[i].do = do
  BY <1>3
<1> HIDE DEF do
<1>7. r \in Rules \cup {Gone} /\ r # Gone
  BY <1>4
<1>8. GroupChange(w, g, r, q, do)
  BY <1>d, <1>2, <1>3, <1>4, <1>5, <1>6 DEF GroupChange
<1>9. QED
  BY <1>7, <1>8, GroupChanges

\* The rules of a group change.
LEMMA ChangeKeeps ==
  ASSUME SGInv, NEW w \in Workers, NEW g \in Groups, ChangeRules(w, g)
  PROVE  SGInv'
<1>1. TypeOK
  BY DEF SGInv
<1>2. PICK r \in Rules : rules' = [rules EXCEPT ![g] = r]
  BY <1>1, KnownIs DEF ChangeRules
<1>q. PICK q \in Seq(Steps) : q = GroupSteps("update", g)
  BY <1>1, GroupStepsAre
<1>3. /\ q \in Seq(Steps) /\ q # << >> /\ q[1].do = "readRules"
      /\ \A i \in DOMAIN q : q[i].group = g
      /\ \A i \in DOMAIN q : i = 1 \/ q[i].do = "update"
      /\ \A s \in Known : \E i \in DOMAIN q :
           q[i].switch = s /\ q[i].do = "update"
  BY <1>1, <1>q, GroupStepsAre
<1>4. rules[g] # Gone /\ r # Gone
  BY <1>1, GroupType DEF ChangeRules
<1>5. Starts(w, q, {<<"rules", g>>})
      /\ UNCHANGED <<scenario, member, bound, device, ghosts>>
  BY <1>q DEF ChangeRules
<1> DEFINE do == "update"
<1>d. /\ do \in {"add", "update", "del"}
      /\ do = "add" => rules[g] = NoRules
      /\ do # "del" => q # << >> /\ q[1].do = "readRules"
      /\ do = "del" <=> r = Gone
  BY <1>3, <1>4
<1>6. /\ \A i \in DOMAIN q : q[i].group = g /\ q[i].do \in {"readRules", do}
      /\ \A s \in Known : \E i \in DOMAIN q : q[i].switch = s /\ q[i].do = do
  BY <1>3
<1> HIDE DEF do
<1>7. r \in Rules \cup {Gone} /\ r # Gone
  BY <1>4
<1>8. GroupChange(w, g, r, q, do)
  BY <1>d, <1>2, <1>3, <1>4, <1>5, <1>6 DEF GroupChange
<1>9. QED
  BY <1>7, <1>8, GroupChanges

\* A group is deleted, once it has no member.
LEMMA DeleteKeeps ==
  ASSUME SGInv, NEW w \in Workers, NEW g \in Groups, DeleteGroup(w, g)
  PROVE  SGInv'
<1>1. TypeOK
  BY DEF SGInv
<1>q. PICK q \in Seq(Steps) : q = OnSwitches("del", g)
  BY <1>1, OnSwitchesIs DEF Dos
<1>3. /\ q \in Seq(Steps)
      /\ \A i \in DOMAIN q : q[i].do = "del" /\ q[i].group = g
      /\ \A s \in Known : \E i \in DOMAIN q : q[i].switch = s
  <2>1. "del" \in Dos
    BY DEF Dos
  <2>2. QED  BY <1>1, <1>q, <2>1, OnSwitchesIs
<1>4. rules[g] # Gone /\ (\A p \in Ports : member[p] # g)
      /\ rules' = [rules EXCEPT ![g] = Gone]
  BY <1>1, GroupType DEF DeleteGroup
<1>5. Starts(w, q, {<<"rules", g>>})
      /\ UNCHANGED <<scenario, member, bound, device, ghosts>>
  BY <1>q DEF DeleteGroup
<1> DEFINE do == "del"
<1>d. /\ do \in {"add", "update", "del"}
      /\ do = "add" => rules[g] = NoRules
      /\ do # "del" => q # << >> /\ q[1].do = "readRules"
      /\ do = "del" <=> Gone = Gone
  BY <1>3, <1>4
<1>6. /\ \A i \in DOMAIN q : q[i].group = g /\ q[i].do \in {"readRules", do}
      /\ \A s \in Known : \E i \in DOMAIN q : q[i].switch = s /\ q[i].do = do
  BY <1>3
<1>7. Gone \in Rules \cup {Gone}
  OBVIOUS
<1> HIDE DEF do
<1>8. GroupChange(w, g, Gone, q, do)
  BY <1>d, <1>3, <1>4, <1>5, <1>6 DEF GroupChange
<1>9. QED
  BY <1>7, <1>8, GroupChanges

\* A port changes its group.
LEMMA SetGroupKeeps ==
  ASSUME SGInv, NEW w \in Workers, NEW p \in Ports,
           NEW g \in Groups \cup {NoGroup},
         SetGroup(w, p, g), bound' \subseteq Ports,
         \A o \in Ports \ {p} : o \in bound => o \in bound',
         g # NoGroup => p \in bound'
  PROVE  SGInv'
<1>1. TypeOK /\ NoGroup \notin Groups
  BY GroupType DEF SGInv
<1>p. PICK prev \in Groups \cup {NoGroup} : prev = member[p]
  BY <1>1, GroupType
<1>q. PICK q \in Seq(Steps) : q = PortSteps(p, prev, g)
  BY PortStepsAre
<1> DEFINE changes == {"ports"} \X ({prev, g} \cap Groups)
<1>2. changes \in SUBSET ({"rules", "ports"} \X Groups)
  OBVIOUS
<1>3. /\ q \in Seq(Steps)
      /\ \A i \in DOMAIN q :
           /\ q[i].do \in {"readPorts", "unbind", "readRules", "bind"}
           /\ q[i].switch = SwitchOf[p] /\ q[i].port = p
           /\ q[i].group \in {prev, g} \ {NoGroup}
           /\ q[i].do \in {"readRules", "bind"} => q[i].group = g
           /\ i = 1 <=> q[i].do = "readPorts"
           /\ q[i].do = "bind" =>
                \E j \in 1 .. (i - 1) : q[j].do = "readRules"
      /\ prev # g /\ g # NoGroup =>
           \E i \in DOMAIN q : q[i].do = "bind" /\ q[i].group = g
      /\ prev # g /\ prev # NoGroup =>
           \E i \in DOMAIN q : q[i].do = "unbind" /\ q[i].group = prev
  <2>1. IsPortSteps(q, p, prev, g)
    BY <1>q, PortStepsAre
  <2>2. QED  BY <2>1 DEF IsPortSteps
<1>4. /\ Starts(w, q, changes) /\ member' = [member EXCEPT ![p] = g]
      /\ g # NoGroup => rules[g] \in Rules
      /\ UNCHANGED <<scenario, rules, device, ghosts>>
  BY <1>p, <1>q DEF SetGroup
<1>5. /\ worker[w].todo = << >> /\ worker'[w].todo = q
      /\ \A v \in Workers \ {w} : Interrupts(v, changes)
      /\ worker' \in [Workers -> Callbacks]
  <2> HIDE DEF changes
  <2>1. QED  BY <1>1, <1>2, <1>3, <1>4, StartsIs
<1>6. \A v \in Workers :
        worker[v].todo = << >> \/ worker'[v].todo = worker[v].todo
  BY <1>5 DEF Interrupts
<1>7. /\ \A o \in Ports \ {p} : member'[o] = member[o]
      /\ member'[p] = g /\ member' \in [Ports -> Groups \cup {NoGroup}]
  BY <1>1, <1>4, GroupType
<1>8. RulesMove(changes) /\ MembersMove(changes)
  BY <1>1, <1>p, <1>4, <1>7 DEF RulesMove, MembersMove
<1>9. Known' = Known
  BY <1>4 DEF Known
<1>10. TypeOK'
  BY <1>1, <1>4, <1>5, <1>7 DEF TypeOK, Callbacks, ghosts
<1>11. Alive'
  BY <1>4, <1>7 DEF SGInv, Alive
<1>12. prev # NoGroup => rules[prev] \in Rules
  BY <1>p DEF SGInv, Alive
<1>13. NoRules \notin Rules
  BY <1>1, GroupType
<1> HIDE DEF changes
<1>14. ASSUME NEW v \in Workers PROVE Callback(v)'
  <2>1. CASE v # w
    BY <2>1, <1>1, <1>5, <1>8, Interrupted DEF SGInv
  <2>2. CASE v = w
    <3>1. Todo(w)' = q
      BY <1>5 DEF Todo
    <3>2. Shaped(w)'
      BY <3>1, <1>3, <1>4, <1>12, <1>13 DEF Shaped, PortEdits, UsesRules
    <3>3. FreshRules(w)'
      BY <3>1, <1>3 DEF FreshRules, UsesRules
    <3>4. FreshPorts(w)'
      <4>1. ASSUME NEW i \in DOMAIN q, q[i].do \in PortEdits
            PROVE  1 \in 1 .. (i-1) /\ q[1].do = "readPorts"
        <5>1. i # 1 /\ DOMAIN q = 1..Len(q) /\ Len(q) \in Nat
          BY <1>3, <4>1 DEF PortEdits
        <5>2. 1 \in DOMAIN q /\ 1 \in 1..(i-1)
          BY <5>1
        <5>3. QED  BY <5>2, <1>3
      <4>2. QED  BY <3>1, <4>1 DEF FreshPorts
    <3>5. QED  BY <2>2, <3>2, <3>3, <3>4 DEF Callback
  <2>3. QED  BY <2>1, <2>2
<1>15. ASSUME prev # g, g # NoGroup PROVE ToDo({"bind"}, SwitchOf[p], g)'
  <2>1. PICK i \in DOMAIN q : q[i].do = "bind" /\ q[i].group = g
    BY <1>15, <1>3
  <2>2. QED  BY <2>1, <1>3, <1>5 DEF ToDo
<1>16. ASSUME prev # g, prev # NoGroup PROVE Leaving(p, prev)'
  <2>1. PICK i \in DOMAIN q : q[i].do = "unbind" /\ q[i].group = prev
    BY <1>16, <1>3
  <2>2. QED  BY <2>1, <1>3, <1>5 DEF Leaving, Todo
<1>17. ASSUME NEW s \in Known', NEW h \in Groups
       PROVE  Addable(s, h)' /\ Filed(s, h)' /\ Current(s, h)'
  <2>0. Addable(s, h) /\ Filed(s, h) /\ Current(s, h)
    BY <1>9, <1>17 DEF SGInv
  <2>b. \A dos : ToDo(dos, s, h) => ToDo(dos, s, h)'
    BY <1>6, ToDoStays
  <2>1. Addable(s, h)' /\ Current(s, h)'
    BY <2>0, <2>b, <1>4 DEF Addable, Current, ghosts
  <2>2. MembersAt(h, s)' \subseteq MembersAt(h, s) \/ ToDo(Sends, s, h)'
    <3>1. CASE h = g /\ s = SwitchOf[p] /\ prev # g
      <4>1. ToDo({"bind"}, s, h)'
        BY <3>1, <1>1, <1>15
      <4>2. QED  BY <4>1 DEF ToDo, Sends
    <3>2. CASE ~(h = g /\ s = SwitchOf[p] /\ prev # g)
      BY <3>2, <1>7, <1>p DEF MembersAt
    <3>3. QED  BY <3>1, <3>2
  <2>3. Filed(s, h)'
    BY <2>0, <2>b, <2>2, <1>4 DEF Filed, ghosts
  <2>4. QED  BY <2>1, <2>3
<1>18. ASSUME NEW o \in Ports PROVE Filtered(o)'
  <2>1. CASE member'[o] # member[o]
    <3>1. o = p /\ member'[o] = g /\ prev # g
      BY <2>1, <1>7, <1>p
    <3>2. QED  BY <2>1, <3>1, <1>15 DEF Filtered
  <2>2. CASE member'[o] = member[o]
    <3>1. ToDo({"bind"}, SwitchOf[o], member[o])
            => ToDo({"bind"}, SwitchOf[o], member[o])'
      <4>1. PICK m \in Groups \cup {NoGroup} : m = member[o]
        BY <1>1, GroupType
      <4>2. ToDo({"bind"}, SwitchOf[o], m) => ToDo({"bind"}, SwitchOf[o], m)'
        BY <1>6, ToDoStays
      <4>3. QED  BY <4>1, <4>2, <2>2 DEF ToDo
    <3>2. QED  BY <2>2, <3>1, <1>4 DEF SGInv, Filtered, ghosts
  <2>3. QED  BY <2>1, <2>2
<1>19. ASSUME NEW o \in Ports, NEW h \in Groups PROVE Kept(o, h)'
  <2>1. Leaving(o, h) => Leaving(o, h)'
    BY <1>6, LeavingStays
  <2>2. Kept(o, h)
    BY DEF SGInv
  <2>3. member[o] = h => member'[o] = h \/ Leaving(o, h)'
    <3>1. CASE o = p /\ h = prev /\ prev # g
      BY <3>1, <1>1, <1>16
    <3>2. CASE ~(o = p /\ h = prev /\ prev # g)
      BY <3>2, <1>7, <1>p
    <3>3. QED  BY <3>1, <3>2
  <2>4. QED  BY <2>1, <2>2, <2>3, <1>4 DEF Kept, ghosts
<1>20. QED
  BY <1>10, <1>11, <1>14, <1>17, <1>18, <1>19 DEF SGInv

\* The events about a port that do.
LEMMA PortsKeep ==
  ASSUME SGInv, NEW p \in Ports,
         \/ \E w \in Workers : \E g \in Groups \cup {NoGroup} :
              BindPort(w, p, g) \/ ChangeGroup(w, p, g)
         \/ \E w \in Workers : DeletePort(w, p)
  PROVE  SGInv'
<1>1. bound \subseteq Ports
  BY DEF SGInv, TypeOK
<1>2. ASSUME NEW w \in Workers, NEW g \in Groups \cup {NoGroup},
               BindPort(w, p, g)
      PROVE  SGInv'
  BY <1>1, <1>2, SetGroupKeeps DEF BindPort
<1>3. ASSUME NEW w \in Workers, NEW g \in Groups \cup {NoGroup},
               ChangeGroup(w, p, g)
      PROVE  SGInv'
  BY <1>1, <1>3, SetGroupKeeps DEF ChangeGroup
<1>4. ASSUME NEW w \in Workers, DeletePort(w, p)
      PROVE  SGInv'
  BY <1>1, <1>4, SetGroupKeeps DEF DeletePort
<1>5. QED  BY <1>2, <1>3, <1>4

\* A port is unbound: no callback edits a switch for it.
LEMMA UnbindKeeps ==
  ASSUME SGInv, NEW p \in Ports, UnbindPort(p)
  PROVE  SGInv'
<1>1. TypeOK /\ NoGroup \notin Groups
  BY GroupType DEF SGInv
<1>p. PICK prev \in Groups \cup {NoGroup} : prev = member[p]
  BY <1>1, GroupType
<1> DEFINE changes == {"ports"} \X ({prev} \cap Groups)
<1>2. changes \in SUBSET ({"rules", "ports"} \X Groups)
  OBVIOUS
<1>3. /\ worker' = [w \in Workers |-> Missed(w, changes)]
      /\ member' = [member EXCEPT ![p] = NoGroup]
      /\ bound' = bound \ {p}
      /\ left' = left \cup ({p} \X ({prev} \cap Groups))
      /\ UNCHANGED <<scenario, rules, device, oldRules, oldPorts>>
  BY <1>p DEF UnbindPort
<1>4. \A v \in Workers :
        Missed(v, changes) \in Callbacks /\ Interrupts(v, changes)
  BY <1>1, <1>2, <1>3, MissedIs
<1>5. worker' \in [Workers -> Callbacks]
  BY <1>3, <1>4
<1>6. \A v \in Workers :
        worker[v].todo = << >> \/ worker'[v].todo = worker[v].todo
  BY <1>4 DEF Interrupts
<1>7. /\ \A o \in Ports \ {p} : member'[o] = member[o]
      /\ member'[p] = NoGroup /\ member' \in [Ports -> Groups \cup {NoGroup}]
  BY <1>1, <1>3, GroupType
<1>8. RulesMove(changes) /\ MembersMove(changes)
  BY <1>1, <1>p, <1>3, <1>7 DEF RulesMove, MembersMove
<1>9. Known' = Known
  BY <1>3 DEF Known
<1>10. TypeOK'
  BY <1>1, <1>3, <1>5, <1>7 DEF TypeOK, Callbacks
<1>11. Alive'
  BY <1>3, <1>7 DEF SGInv, Alive
<1> HIDE DEF changes
<1>12. ASSUME NEW v \in Workers PROVE Callback(v)'
  BY <1>1, <1>4, <1>8, Interrupted DEF SGInv
<1>13. ASSUME NEW s \in Known', NEW h \in Groups
       PROVE  Addable(s, h)' /\ Filed(s, h)' /\ Current(s, h)'
  <2>0. Addable(s, h) /\ Filed(s, h) /\ Current(s, h)
    BY <1>9, <1>13 DEF SGInv
  <2>b. \A dos : ToDo(dos, s, h) => ToDo(dos, s, h)'
    BY <1>6, ToDoStays
  <2>1. Addable(s, h)' /\ Current(s, h)'
    BY <2>0, <2>b, <1>3 DEF Addable, Current
  <2>2. MembersAt(h, s)' \subseteq MembersAt(h, s)
    BY <1>1, <1>7 DEF MembersAt
  <2>3. Filed(s, h)'
    BY <2>0, <2>b, <2>2, <1>3 DEF Filed
  <2>4. QED  BY <2>1, <2>3
<1>14. ASSUME NEW o \in Ports PROVE Filtered(o)'
  <2>1. CASE o = p
    BY <2>1, <1>7 DEF Filtered
  <2>2. CASE o # p
    <3>1. ToDo({"bind"}, SwitchOf[o], member[o])
            => ToDo({"bind"}, SwitchOf[o], member[o])'
      <4>1. PICK m \in Groups \cup {NoGroup} : m = member[o]
        BY <1>1, GroupType
      <4>2. ToDo({"bind"}, SwitchOf[o], m) => ToDo({"bind"}, SwitchOf[o], m)'
        BY <1>6, ToDoStays
      <4>3. QED  BY <4>1, <4>2, <2>2, <1>7 DEF ToDo
    <3>2. QED  BY <2>2, <3>1, <1>3, <1>7 DEF SGInv, Filtered
  <2>3. QED  BY <2>1, <2>2
<1>15. ASSUME NEW o \in Ports, NEW h \in Groups PROVE Kept(o, h)'
  <2>1. Leaving(o, h) => Leaving(o, h)'
    BY <1>6, LeavingStays
  <2>2. Kept(o, h)
    BY DEF SGInv
  <2>3. member[o] = h => member'[o] = h \/ <<o, h>> \in left'
    BY <1>p, <1>3, <1>7
  <2>4. QED  BY <2>1, <2>2, <2>3, <1>3 DEF Kept
<1>16. QED
  BY <1>10, <1>11, <1>12, <1>13, <1>14, <1>15 DEF SGInv

-----------------------------------------------------------------------------
(* A callback takes its next step.                                         *)

\* A callback is one step further, with what call has read.
Goes(w, call) ==
  /\ Todo(w) # << >>
  /\ \A v \in Workers \ {w} : worker'[v] = worker[v]
  /\ \A i \in DOMAIN Todo(w)' :
       /\ i \in Nat /\ i + 1 \in DOMAIN Todo(w)
       /\ Todo(w)'[i] = Todo(w)[i+1]
  /\ \A i \in DOMAIN Todo(w) :
       i = 1 \/ (i - 1 \in DOMAIN Todo(w)' /\ Todo(w)'[i-1] = Todo(w)[i])
  /\ \/ DOMAIN Todo(w)' = {}
     \/ /\ worker'[w].rules = call.rules /\ worker'[w].ports = call.ports
        /\ worker'[w].missed = call.missed

\* The steps of a callback are a sequence of steps.
LEMMA TodoType ==
  ASSUME TypeOK, NEW w \in Workers
  PROVE  /\ worker[w] \in Callbacks /\ Todo(w) \in Seq(Steps)
         /\ DOMAIN Todo(w) = 1..Len(Todo(w)) /\ Len(Todo(w)) \in Nat
         /\ \A i \in DOMAIN Todo(w) : Todo(w)[i] \in Steps
         /\ Todo(w) # << >>
              => 1 \in DOMAIN Todo(w) /\ Head(Todo(w)) = Todo(w)[1]
         /\ Todo(w) = << >> => DOMAIN Todo(w) = {}
<1>1. worker[w] \in Callbacks
  BY WorkerType
<1>2. Todo(w) \in Seq(Steps)
  BY <1>1 DEF Callbacks, Todo
<1>3. QED  BY <1>1, <1>2

\* Continues takes a callback one step further.
LEMMA ContinuesIs ==
  ASSUME TypeOK, NEW w \in Workers, NEW call \in Callbacks,
         call.todo = Todo(w), Todo(w) # << >>, Continues(w, call)
  PROVE  Goes(w, call) /\ worker' \in [Workers -> Callbacks]
<1> DEFINE q == Todo(w)
           next == IF Len(call.todo) = 1 THEN Idle
                   ELSE [call EXCEPT !.todo = Tail(call.todo)]
<1>1. worker' = [worker EXCEPT ![w] = next]
        /\ worker \in [Workers -> Callbacks]
  BY WorkerType DEF Continues
<1>2. q \in Seq(Steps) /\ Len(q) \in Nat /\ Len(q) > 0 /\ DOMAIN q = 1..Len(q)
  <2>1. q \in Seq(Steps)
    BY TodoType
  <2>2. QED  BY <2>1
<1>3. next \in Callbacks /\ next.todo = Tail(q)
      /\ (Len(q) = 1 \/ /\ next.rules = call.rules /\ next.ports = call.ports
                        /\ next.missed = call.missed)
  <2> HIDE DEF q
  <2>1. CASE Len(q) = 1
    <3>1. next = Idle /\ Idle \in Callbacks /\ Idle.todo = << >>
      BY <2>1, WorkerType DEF Idle, q
    <3>2. Tail(q) = << >>
      <4>1. q # << >>
        BY <2>1, EmptySeq
      <4>2. Tail(q) \in Seq(Steps) /\ Len(Tail(q)) = Len(q) - 1
        BY <1>2, <4>1, HeadTailProperties
      <4>3. Len(Tail(q)) = 0
        BY <2>1, <4>2
      <4>4. QED  BY <4>2, <4>3, EmptySeq
    <3>3. QED  BY <2>1, <3>1, <3>2
  <2>2. CASE Len(q) # 1
    <3>1. next = [call EXCEPT !.todo = Tail(q)]
      BY <2>2 DEF q
    <3>2. Tail(q) \in Seq(Steps)
      BY <1>2
    <3>3. QED  BY <3>1, <3>2 DEF Callbacks
  <2>3. QED  BY <2>1, <2>2
<1>4. worker' \in [Workers -> Callbacks] /\ worker'[w] = next
      /\ \A v \in Workers \ {w} : worker'[v] = worker[v]
  BY <1>1, <1>3
<1>5. Todo(w)' = Tail(q)
  BY <1>3, <1>4 DEF Todo
<1> HIDE DEF q, next
<1>6. DOMAIN Tail(q) = 1..(Len(q) - 1) /\ \A i \in 1..(Len(q) - 1) :
        Tail(q)[i] = q[i+1]
  BY <1>2
<1>7. /\ \A i \in DOMAIN Tail(q) :
           i \in Nat /\ i + 1 \in DOMAIN q /\ Tail(q)[i] = q[i+1]
      /\ \A i \in DOMAIN q :
           i = 1 \/ (i - 1 \in DOMAIN Tail(q) /\ Tail(q)[i-1] = q[i])
      /\ Len(q) = 1 => DOMAIN Tail(q) = {}
  BY <1>2, <1>6
<1>8. QED
  BY <1>3, <1>4, <1>5, <1>7 DEF Goes, q

\* What is to be done remains to be done, but for the first step.
LEMMA ToDoGoes ==
  ASSUME TypeOK, NEW w \in Workers, NEW call, Goes(w, call),
         NEW dos, NEW s, NEW g, ToDo(dos, s, g),
         ~ /\ Head(Todo(w)).do \in dos /\ Head(Todo(w)).switch = s
           /\ Head(Todo(w)).group = g
  PROVE  ToDo(dos, s, g)'
<1>0. PICK v \in Workers : \E i \in DOMAIN Todo(v) :
        Todo(v)[i].do \in dos /\ Todo(v)[i].switch = s /\ Todo(v)[i].group = g
  BY DEF ToDo, Todo
<1>1. PICK i \in DOMAIN Todo(v) :
        Todo(v)[i].do \in dos /\ Todo(v)[i].switch = s /\ Todo(v)[i].group = g
  BY <1>0
<1>2. CASE v # w
  <2>1. Todo(v)' = Todo(v)
    BY <1>2 DEF Goes, Todo
  <2>2. QED  BY <1>1, <2>1 DEF ToDo, Todo
<1>3. CASE v = w
  <2>1. i # 1
    BY <1>1, <1>3, TodoType DEF Goes
  <2>2. i - 1 \in DOMAIN Todo(w)' /\ Todo(w)'[i-1] = Todo(w)[i]
    BY <1>3, <2>1 DEF Goes
  <2>3. QED  BY <1>1, <1>3, <2>2 DEF ToDo, Todo
<1>4. QED  BY <1>2, <1>3

\* The same of the steps that take a port out of a group.
LEMMA LeavingGoes ==
  ASSUME TypeOK, NEW w \in Workers, NEW call, Goes(w, call),
         NEW p, NEW g, Leaving(p, g),
         ~ /\ Head(Todo(w)).do = "unbind" /\ Head(Todo(w)).port = p
           /\ Head(Todo(w)).group = g
  PROVE  Leaving(p, g)'
<1>0. PICK v \in Workers : \E i \in DOMAIN Todo(v) :
        Todo(v)[i].do = "unbind" /\ Todo(v)[i].port = p /\ Todo(v)[i].group = g
  BY DEF Leaving
<1>1. PICK i \in DOMAIN Todo(v) :
        Todo(v)[i].do = "unbind" /\ Todo(v)[i].port = p /\ Todo(v)[i].group = g
  BY <1>0
<1>2. CASE v # w
  <2>1. Todo(v)' = Todo(v)
    BY <1>2 DEF Goes, Todo
  <2>2. QED  BY <1>1, <2>1 DEF Leaving
<1>3. CASE v = w
  <2>1. i # 1
    BY <1>1, <1>3, TodoType DEF Goes
  <2>2. i - 1 \in DOMAIN Todo(w)' /\ Todo(w)'[i-1] = Todo(w)[i]
    BY <1>3, <2>1 DEF Goes
  <2>3. QED  BY <1>1, <1>3, <2>2 DEF Leaving
<1>4. QED  BY <1>2, <1>3

\* A callback that does not move keeps what SGInv says of it.
LEMMA OthersGo ==
  ASSUME NEW v \in Workers, Callback(v), worker'[v] = worker[v],
         rules' = rules, member' = member
  PROVE  Callback(v)'
BY DEF Callback, Shaped, FreshRules, FreshPorts, MembersAt, Todo

\* A callback that moves keeps it too: the step it takes either reads or
\* leaves what was read.
LEMMA CallbackGoes ==
  ASSUME TypeOK, NEW w \in Workers, NEW call, Callback(w), Goes(w, call),
         rules' = rules, member' = member,
         \/ /\ Head(Todo(w)).do # "readRules" /\ call.rules = worker[w].rules
            /\ \A g \in Groups : <<"rules", g>> \in worker[w].missed =>
                                   <<"rules", g>> \in call.missed
         \/ /\ Head(Todo(w)).do = "readRules"
            /\ call.rules = rules[Head(Todo(w)).group] /\ call.rules \in Rules,
         \/ /\ Head(Todo(w)).do # "readPorts" /\ call.ports = worker[w].ports
            /\ \A g \in Groups : <<"ports", g>> \in worker[w].missed =>
                                   <<"ports", g>> \in call.missed
         \/ /\ Head(Todo(w)).do = "readPorts"
            /\ \A g \in Groups :
                 call.ports[g] = MembersAt(g, Head(Todo(w)).switch)
  PROVE  Callback(w)'
<1> DEFINE q == Todo(w)
           h == Todo(w)[1]
<1>1. /\ DOMAIN q = 1..Len(q) /\ Len(q) \in Nat /\ 1 \in DOMAIN q
           /\ Head(q) = h
      /\ \A i \in DOMAIN q : q[i].group \in Groups
  <2>1. \A e \in Steps : e.group \in Groups
    BY DEF Steps
  <2>2. QED  BY <2>1, TodoType DEF Goes
<1>2. Shaped(w) /\ FreshRules(w) /\ FreshPorts(w)
  BY DEF Callback
<1>3. /\ \A i \in DOMAIN q' : i \in Nat /\ i + 1 \in DOMAIN q /\ q'[i] = q[i+1]
      /\ \A i \in DOMAIN q : i = 1 \/ (i - 1 \in DOMAIN q' /\ q'[i-1] = q[i])
  BY DEF Goes
<1>4. ASSUME DOMAIN q' # {}
      PROVE  /\ worker'[w].rules = call.rules /\ worker'[w].ports = call.ports
             /\ worker'[w].missed = call.missed
  BY <1>4 DEF Goes
<1>5. Shaped(w)'
  BY <1>2, <1>3 DEF Shaped
<1>6. ASSUME NEW i \in DOMAIN q', NEW do, NEW j \in 1 .. i, q[j].do = do, j # 1
      PROVE  \E k \in 1 .. (i - 1) : q'[k].do = do
  <2>1. i + 1 \in DOMAIN q /\ i \in Nat /\ j \in DOMAIN q
    BY <1>1, <1>3
  <2>2. j - 1 \in 1 .. (i - 1) /\ q'[j-1] = q[j]
    BY <1>1, <1>3, <1>6, <2>1
  <2>3. QED  BY <1>6, <2>2
<1>7. FreshRules(w)'
  <2> SUFFICES ASSUME NEW i \in DOMAIN q', q'[i].do \in UsesRules
               PROVE  \/ \E j \in 1 .. (i - 1) : q'[j].do = "readRules"
                      \/ /\ worker'[w].rules \in Rules
                         /\ \/ <<"rules", q'[i].group>> \in worker'[w].missed
                            \/ worker'[w].rules = rules[q'[i].group]
    BY DEF FreshRules
  <2>1. i + 1 \in DOMAIN q /\ q'[i] = q[i+1] /\ (i + 1) - 1 = i
    BY <1>3
  <2>2. CASE h.do = "readRules"
    <3>1. h.group = q[i+1].group
      BY <2>1, <2>2, <1>1, <1>2 DEF Shaped
    <3>2. QED  BY <2>1, <2>2, <3>1, <1>1, <1>4
  <2>3. CASE h.do # "readRules"
    <3>1. \/ \E j \in 1 .. i : q[j].do = "readRules"
          \/ /\ worker[w].rules \in Rules
             /\ \/ <<"rules", q[i+1].group>> \in worker[w].missed
                \/ worker[w].rules = rules[q[i+1].group]
      BY <2>1, <1>2 DEF FreshRules
    <3>2. CASE \E j \in 1 .. i : q[j].do = "readRules"
      BY <3>2, <2>3, <1>6
    <3>3. CASE /\ worker[w].rules \in Rules
               /\ \/ <<"rules", q[i+1].group>> \in worker[w].missed
                  \/ worker[w].rules = rules[q[i+1].group]
      BY <3>3, <2>1, <2>3, <1>1, <1>4
    <3>4. QED  BY <3>1, <3>2, <3>3
  <2>4. QED  BY <2>2, <2>3
<1>8. FreshPorts(w)'
  <2> SUFFICES ASSUME NEW i \in DOMAIN q', q'[i].do \in PortEdits
               PROVE  \/ \E j \in 1 .. (i - 1) : q'[j].do = "readPorts"
                      \/ <<"ports", q'[i].group>> \in worker'[w].missed
                      \/ worker'[w].ports[q'[i].group]
                           = MembersAt(q'[i].group, q'[i].switch)
    BY DEF FreshPorts, MembersAt
  <2>1. i + 1 \in DOMAIN q /\ q'[i] = q[i+1] /\ q[i+1].group \in Groups
        /\ (i + 1) - 1 = i
    BY <1>1, <1>3
  <2>2. CASE h.do = "readPorts"
    <3>1. h.switch = q[i+1].switch
      BY <2>1, <2>2, <1>1, <1>2 DEF Shaped
    <3>2. QED  BY <2>1, <2>2, <3>1, <1>1, <1>4
  <2>3. CASE h.do # "readPorts"
    <3>1. \/ \E j \in 1 .. i : q[j].do = "readPorts"
          \/ <<"ports", q[i+1].group>> \in worker[w].missed
          \/ worker[w].ports[q[i+1].group]
               = MembersAt(q[i+1].group, q[i+1].switch)
      BY <2>1, <1>2 DEF FreshPorts
    <3>2. CASE \E j \in 1 .. i : q[j].do = "readPorts"
      BY <3>2, <2>3, <1>6
    <3>3. CASE \/ <<"ports", q[i+1].group>> \in worker[w].missed
               \/ worker[w].ports[q[i+1].group]
                    = MembersAt(q[i+1].group, q[i+1].switch)
      BY <3>3, <2>1, <2>3, <1>1, <1>4
    <3>4. QED  BY <3>1, <3>2, <3>3
  <2>4. QED  BY <2>2, <2>3
<1>9. QED  BY <1>5, <1>7, <1>8 DEF Callback

-----------------------------------------------------------------------------
(* A callback reads the database.                                          *)

\* Reading changes no switch and takes away no edit.
LEMMA ReadKeeps ==
  ASSUME SGInv, NEW w \in Workers, NEW call, Goes(w, call),
         worker' \in [Workers -> Callbacks], Callback(w)',
         Head(Todo(w)).do \in {"readRules", "readPorts"},
         UNCHANGED <<scenario, rules, member, bound, device, ghosts>>
  PROVE  SGInv'
<1>1. TypeOK
  BY DEF SGInv
<1>2. TypeOK'
  BY <1>1 DEF TypeOK, Callbacks, ghosts
<1>3. Alive' /\ Known' = Known
  BY DEF SGInv, Alive, Known
<1>4. ASSUME NEW v \in Workers PROVE Callback(v)'
  <2>1. CASE v = w
    BY <2>1
  <2>2. CASE v # w
    BY <2>2, OthersGo DEF Goes, SGInv
  <2>3. QED  BY <2>1, <2>2
<1>5. ASSUME NEW s \in Known', NEW g \in Groups
      PROVE  Addable(s, g)' /\ Filed(s, g)' /\ Current(s, g)'
  <2>1. Addable(s, g) /\ Filed(s, g) /\ Current(s, g)
    BY <1>3, <1>5 DEF SGInv
  <2>2. ASSUME NEW dos \in {{"update", "del", "bind"}, Sends}
        PROVE  ToDo(dos, s, g) => ToDo(dos, s, g)'
    BY <1>1, <2>2, ToDoGoes DEF Sends
  <2>3. MembersAt(g, s)' = MembersAt(g, s)
    BY DEF MembersAt
  <2>4. QED  BY <2>1, <2>2, <2>3 DEF Addable, Filed, Current, ghosts
<1>6. ASSUME NEW p \in Ports PROVE Filtered(p)'
  <2>1. PICK m \in Groups \cup {NoGroup} : m = member[p]
    BY <1>1, GroupType
  <2>2. ToDo({"bind"}, SwitchOf[p], m) => ToDo({"bind"}, SwitchOf[p], m)'
    BY <1>1, ToDoGoes
  <2>3. ToDo({"bind"}, SwitchOf[p], member[p])
           => ToDo({"bind"}, SwitchOf[p], member[p])'
    BY <2>1, <2>2 DEF ToDo
  <2>4. QED  BY <2>3 DEF SGInv, Filtered, ghosts
<1>7. ASSUME NEW p \in Ports, NEW g \in Groups PROVE Kept(p, g)'
  <2>1. Leaving(p, g) => Leaving(p, g)'
    BY <1>1, LeavingGoes
  <2>2. QED  BY <2>1 DEF SGInv, Kept, ghosts
<1>8. QED
  BY <1>2, <1>3, <1>4, <1>5, <1>6, <1>7 DEF SGInv

\* A callback reads the rules of a group.
LEMMA ReadRulesKeeps ==
  ASSUME SGInv, NEW w \in Workers, ReadRules(w)
  PROVE  SGInv'
<1>1. TypeOK /\ Callback(w)
  BY DEF SGInv
<1>2. /\ Todo(w) # << >> /\ Head(Todo(w)).do = "readRules"
      /\ worker[w] \in Callbacks /\ Head(Todo(w)) \in Steps
  BY <1>1, TodoType DEF ReadRules, At, Todo
<1>3. PICK g \in Groups : g = Head(Todo(w)).group /\ rules[g] \in Rules
  BY <1>2 DEF ReadRules, Todo, Steps
<1>4. PICK call \in Callbacks :
        call = [worker[w] EXCEPT !.rules = rules[g],
                                 !.missed
                                   = worker[w].missed \ {<<"rules", g>>}]
  BY <1>2, <1>3 DEF Callbacks
<1>5. Continues(w, call)
        /\ UNCHANGED <<scenario, rules, member, bound, device, ghosts>>
  BY <1>3, <1>4 DEF ReadRules, Todo
<1>6. /\ call.todo = Todo(w) /\ call.rules = rules[g]
           /\ call.ports = worker[w].ports
      /\ \A h \in Groups : <<"ports", h>> \in worker[w].missed
           => <<"ports", h>> \in call.missed
  BY <1>2, <1>4 DEF Callbacks, Todo
<1>7. Goes(w, call) /\ worker' \in [Workers -> Callbacks]
  BY <1>1, <1>2, <1>5, <1>6, ContinuesIs
<1>8. Callback(w)'
  BY <1>1, <1>2, <1>3, <1>5, <1>6, <1>7, CallbackGoes
<1>9. QED
  BY <1>2, <1>5, <1>7, <1>8, ReadKeeps

\* A callback reads the members on a switch.
LEMMA ReadPortsKeeps ==
  ASSUME SGInv, NEW w \in Workers, ReadPorts(w)
  PROVE  SGInv'
<1>1. TypeOK /\ Callback(w)
  BY DEF SGInv
<1>2. /\ Todo(w) # << >> /\ Head(Todo(w)).do = "readPorts"
      /\ worker[w] \in Callbacks /\ Head(Todo(w)) \in Steps
  BY <1>1, TodoType DEF ReadPorts, At, Todo
<1>3. PICK s : s = Head(Todo(w)).switch
  OBVIOUS
<1>4. [g \in Groups |-> MembersAt(g, s)] \in [Groups -> SUBSET Ports]
  BY DEF MembersAt
<1>5. PICK call \in Callbacks :
        call = [worker[w] EXCEPT !.ports = [g \in Groups |-> MembersAt(g, s)],
                                 !.missed
                                   = worker[w].missed \ ({"ports"} \X Groups)]
  BY <1>2, <1>4 DEF Callbacks
<1>6. Continues(w, call)
        /\ UNCHANGED <<scenario, rules, member, bound, device, ghosts>>
  BY <1>3, <1>5 DEF ReadPorts, MembersAt, Todo
<1>7. /\ call.todo = Todo(w) /\ call.rules = worker[w].rules
      /\ \A g \in Groups : call.ports[g] = MembersAt(g, s)
      /\ \A h \in Groups : <<"rules", h>> \in worker[w].missed
           => <<"rules", h>> \in call.missed
  BY <1>2, <1>5 DEF Callbacks, Todo
<1>8. Goes(w, call) /\ worker' \in [Workers -> Callbacks]
  BY <1>1, <1>2, <1>6, <1>7, ContinuesIs
<1>9. Callback(w)'
  BY <1>1, <1>2, <1>3, <1>6, <1>7, <1>8, CallbackGoes
<1>10. QED
  BY <1>2, <1>6, <1>8, <1>9, ReadKeeps

-----------------------------------------------------------------------------
(* A callback edits a switch.                                              *)

\* A callback is about to send e with the rules r and the ports R.
Sending(w, e, r, R) ==
  /\ Todo(w) # << >> /\ e = Head(Todo(w)) /\ e.do \in Edits
  /\ r = worker[w].rules /\ R = worker[w].ports[e.group]
  /\ rules[e.group] # NoRules
  /\ e.do = "del" => rules[e.group] = Gone
  /\ e.do \in PortEdits => e.switch = SwitchOf[e.port]
  /\ e.do \in UsesRules =>
       r \in Rules
         /\ (<<"rules", e.group>> \in worker[w].missed \/ r = rules[e.group])
  /\ e.do \in PortEdits =>
       <<"ports", e.group>> \in worker[w].missed
         \/ R = MembersAt(e.group, e.switch)

\* A callback whose next step is an edit is about to send it.
LEMMA SendingIs ==
  ASSUME SGInv, NEW w \in Workers, At(w, Edits)
  PROVE  \E e \in Steps, r \in Rules \cup {NoRules}, R \in SUBSET Ports :
           Sending(w, e, r, R)
<1>1. TypeOK /\ Shaped(w) /\ FreshRules(w) /\ FreshPorts(w)
  BY DEF SGInv, Callback
<1>2. /\ Todo(w) # << >> /\ Head(Todo(w)).do \in Edits
      /\ worker[w] \in Callbacks /\ Head(Todo(w)) \in Steps
      /\ 1 \in DOMAIN Todo(w) /\ Head(Todo(w)) = Todo(w)[1]
  BY <1>1, TodoType DEF At, Todo
<1>3. PICK e \in Steps : e = Head(Todo(w))
  BY <1>2
<1>4. PICK r \in Rules \cup {NoRules} : r = worker[w].rules
  BY <1>2 DEF Callbacks
<1>5. PICK R \in SUBSET Ports : R = worker[w].ports[e.group]
  BY <1>2 DEF Callbacks, Steps
<1>6. /\ rules[e.group] # NoRules
      /\ e.do = "del" => rules[e.group] = Gone
      /\ e.do \in PortEdits => e.switch = SwitchOf[e.port]
  BY <1>1, <1>2, <1>3 DEF Shaped
<1>7. 1 .. (1 - 1) = {}
  OBVIOUS
<1>8. e.do \in UsesRules =>
        r \in Rules
          /\ (<<"rules", e.group>> \in worker[w].missed \/ r = rules[e.group])
  BY <1>1, <1>2, <1>3, <1>4, <1>7 DEF FreshRules
<1>9. e.do \in PortEdits =>
        <<"ports", e.group>> \in worker[w].missed
          \/ R = MembersAt(e.group, e.switch)
  BY <1>1, <1>2, <1>3, <1>5, <1>7 DEF FreshPorts
<1>10. Sending(w, e, r, R)
  BY <1>2, <1>3, <1>4, <1>5, <1>6, <1>8, <1>9 DEF Sending
<1>11. QED  BY <1>10

\* What a complete edit does, to the switch and to the ghosts.
Sent(w, e, r, R) ==
  LET d == device[e.switch]
      d2 == device'[e.switch]
      at == <<e.switch, e.group>>
      missed == worker[w].missed
  IN  /\ \A s \in Switches \ {e.switch} : device'[s] = device[s]
      /\ Touches(e, R, d, d2)
      /\ scenario.driver[e.switch] = "named" => NamedDoes(e, r, R, d, d2)
      /\ scenario.driver[e.switch] = "table" => TableDoes(e, r, R, d, d2)
      /\ \A x : x # at /\ x \in oldRules => x \in oldRules'
      /\ at \notin oldRules' =>
           IF e.do = "unbind"
           THEN /\ at \notin oldRules
                /\ \/ scenario.driver[e.switch] = "named"
                   \/ <<"ports", e.group>> \notin missed
           ELSE /\ <<"rules", e.group>> \notin missed
                /\ e.do # "add" \/ at \notin oldRules
      /\ e.do \notin PortEdits => oldPorts' = oldPorts
      /\ \A x : x # at /\ x \in oldPorts => x \in oldPorts'
      /\ e.do \in PortEdits /\ <<"ports", e.group>> \in missed =>
           /\ at \in oldPorts'
           /\ \A p \in R : member[p] \in Groups
                => <<e.switch, member[p]>> \in oldPorts'
      /\ left' = LeftBy(w, e)

\* EditDone does that.
LEMMA EditDoneIs ==
  ASSUME SGInv, NEW w \in Workers, EditDone(w),
         NEW e \in Steps, NEW r \in Rules \cup {NoRules},
           NEW R \in SUBSET Ports,
         Sending(w, e, r, R)
  PROVE  Sent(w, e, r, R) /\ device' \in [Switches -> Devices]
<1>1. TypeOK
  BY DEF SGInv
<1>2. device \in [Switches -> Devices] /\ e.switch \in Switches
      /\ scenario.driver[e.switch] \in {"named", "table"}
  BY <1>1, KnownIs DEF TypeOK, Devices, Steps
<1>3. /\ e = Head(worker[w].todo) /\ e.do \in Edits
      /\ r = worker[w].rules /\ R = worker[w].ports[e.group]
  BY DEF Sending, Todo
<1> DEFINE d == device[e.switch]
           d2 == After(d, Commands(w, e))
<1>4. /\ d2 \in Devices /\ Touches(e, R, d, d2)
      /\ scenario.driver[e.switch] = "named" => NamedDoes(e, r, R, d, d2)
      /\ scenario.driver[e.switch] = "table" => TableDoes(e, r, R, d, d2)
  BY <1>1, <1>2, <1>3, Effect
<1>5. device' = [device EXCEPT ![e.switch] = d2]
  BY <1>3 DEF EditDone
<1> HIDE DEF d2
<1>6. /\ device' \in [Switches -> Devices] /\ device'[e.switch] = d2
      /\ \A s \in Switches \ {e.switch} : device'[s] = device[s]
  BY <1>2, <1>4, <1>5
<1> DEFINE at == <<e.switch, e.group>>
           missed == worker[w].missed
           stale == /\ scenario.driver[e.switch] = "table"
                    /\ <<"ports", e.group>> \in missed
<1>7. oldRules' = IF e.do = "unbind"
                  THEN oldRules \cup {x \in {at} : stale}
                  ELSE With(oldRules, {at}, \/ <<"rules", e.group>> \in missed
                                            \/ e.do = "add"
                                                 /\ {at} \subseteq oldRules)
  BY <1>3 DEF EditDone
<1>8. oldPorts' = IF e.do \notin PortEdits THEN oldPorts
                  ELSE IF <<"ports", e.group>> \in missed
                  THEN oldPorts \cup Disturbs(w, e)
                  ELSE oldPorts \ {at}
  BY <1>3 DEF EditDone
<1>9. left' = LeftBy(w, e)
  BY <1>3 DEF EditDone
<1>10. at \in Disturbs(w, e)
       /\ \A p \in R : member[p] \in Groups
            => <<e.switch, member[p]>> \in Disturbs(w, e)
  BY <1>3 DEF Disturbs
<1> HIDE DEF d, at, missed
<1>11. \A x : x # at /\ x \in oldRules => x \in oldRules'
  BY <1>7 DEF With
<1>12. at \notin oldRules' =>
           IF e.do = "unbind"
           THEN at \notin oldRules /\ ~stale
           ELSE /\ <<"rules", e.group>> \notin missed
                /\ e.do # "add" \/ at \notin oldRules
  BY <1>7 DEF With
<1>13. \A x : x # at /\ x \in oldPorts => x \in oldPorts'
  BY <1>8
<1>14. e.do \in PortEdits /\ <<"ports", e.group>> \in missed =>
           /\ at \in oldPorts'
           /\ \A p \in R : member[p] \in Groups
                => <<e.switch, member[p]>> \in oldPorts'
  BY <1>8, <1>10
<1>15. Sent(w, e, r, R)
  BY <1>2, <1>4, <1>6, <1>8, <1>9, <1>11, <1>12, <1>13, <1>14
       DEF Sent, d, at, missed
<1>16. QED  BY <1>6, <1>15

\* The ACLs after a complete edit.
LEMMA DoneCurrent ==
  ASSUME SGInv, NEW w \in Workers, NEW call, Goes(w, call),
         NEW e \in Steps, NEW r \in Rules \cup {NoRules},
           NEW R \in SUBSET Ports,
         Sending(w, e, r, R), Sent(w, e, r, R),
         UNCHANGED <<scenario, rules, member, bound>>,
         NEW s \in Known, NEW g \in Groups
  PROVE  Addable(s, g)' /\ Filed(s, g)' /\ Current(s, g)'
<1>1. TypeOK /\ s \in Switches /\ scenario.driver[s] \in {"named", "table"}
  BY KnownIs DEF SGInv
<1>2. Addable(s, g) /\ Filed(s, g) /\ Current(s, g)
  BY DEF SGInv
<1>3. /\ e = Head(Todo(w)) /\ e.do \in Edits /\ e.group \in Groups
      /\ e.switch \in Switches
  BY DEF Sending, Steps
<1>4. MembersAt(g, s)' = MembersAt(g, s)
  BY DEF MembersAt
<1>5. ASSUME NEW dos, ~(e.do \in dos /\ e.switch = s /\ e.group = g)
      PROVE  ToDo(dos, s, g) => ToDo(dos, s, g)'
  BY <1>1, <1>3, <1>5, ToDoGoes
<1>6. CASE <<s, g>> # <<e.switch, e.group>>
  <2>1. \A dos : ToDo(dos, s, g) => ToDo(dos, s, g)'
    BY <1>5, <1>6
  <2>2. device'[s].acl[g] = device[s].acl[g]
          /\ device'[s].file[g] = device[s].file[g]
    BY <1>1, <1>3, <1>6 DEF Sent, Touches
  <2>3. <<s, g>> \in oldRules => <<s, g>> \in oldRules'
    BY <1>6 DEF Sent
  <2>4. QED
    BY <1>2, <1>4, <2>1, <2>2, <2>3 DEF Addable, Filed, Current
<1>7. CASE <<s, g>> = <<e.switch, e.group>> /\ <<s, g>> \in oldRules'
  BY <1>7 DEF Addable, Filed, Current
<1>8. CASE <<s, g>> = <<e.switch, e.group>> /\ <<s, g>> \notin oldRules'
  <2> DEFINE acl == device[s].acl[g]
             file == device[s].file[g]
             acl2 == device'[s].acl[g]
             file2 == device'[s].file[g]
  <2>0. s = e.switch /\ g = e.group
    BY <1>8
  <2>1. /\ scenario.driver[s] = "named" =>
             NamedDoes(e, r, R, device[s], device'[s])
        /\ scenario.driver[s] = "table" =>
             TableDoes(e, r, R, device[s], device'[s])
    BY <2>0 DEF Sent
  <2>2. rules[g] # NoRules /\ (rules[g] = Gone => MembersAt(g, s) = {})
    <3>1. rules[g] # NoRules
      BY <2>0 DEF Sending
    <3>2. g # NoGroup /\ Gone \notin Rules
      BY <1>1, GroupType
    <3>3. QED  BY <3>1, <3>2 DEF SGInv, Alive, MembersAt
  <2>3. CASE e.do = "unbind"
    <3>1. <<s, g>> \notin oldRules
      BY <1>8, <2>0, <2>3 DEF Sent
    <3>2. \A dos \in {Sends, {"update", "del", "bind"}} :
             ToDo(dos, s, g) => ToDo(dos, s, g)'
      BY <1>5, <2>3 DEF Sends
    <3>3. CASE scenario.driver[s] = "named"
      <4>1. acl2 = acl
        BY <2>0, <2>1, <2>3, <3>3 DEF NamedDoes
      <4>2. QED
        BY <1>2, <3>1, <3>2, <3>3, <4>1 DEF Addable, Filed, Current
    <3>4. CASE scenario.driver[s] = "table"
      <4>1. R = MembersAt(g, s)
        BY <1>8, <2>0, <2>3, <3>4 DEF Sent, Sending, PortEdits
      <4>2. Filed(s, g)
        BY <1>2
      <4>3. R = {} => acl2 = NoRules /\ file2 = NoRules
        BY <2>0, <2>1, <2>3, <3>4 DEF TableDoes
      <4>4. R # {} => /\ acl2 = IF file = NoRules THEN Empty ELSE file
                      /\ file2 = file
        BY <2>0, <2>1, <2>3, <3>4 DEF TableDoes
      <4>5. QED
        BY <1>4, <2>2, <3>1, <3>2, <3>4, <4>1, <4>2, <4>3, <4>4
           DEF Addable, Filed, Current
    <3>5. QED  BY <1>1, <3>3, <3>4
  <2>4. CASE e.do = "del"
    <3>1. rules[g] = Gone /\ acl2 = NoRules
      <4>1. scenario.driver[s] = "named" => acl2 = NoRules
        BY <2>0, <2>1, <2>4 DEF NamedDoes
      <4>2. scenario.driver[s] = "table" => acl2 = NoRules
        BY <2>0, <2>1, <2>4 DEF TableDoes
      <4>3. QED  BY <1>1, <2>0, <2>4, <4>1, <4>2 DEF Sending
    <3>2. scenario.driver[s] = "table" => file2 = NoRules
      BY <2>0, <2>1, <2>4 DEF TableDoes
    <3>3. QED
      BY <1>4, <2>2, <3>1, <3>2 DEF Addable, Filed, Current
  <2>5. CASE e.do \in UsesRules
    <3>1. r \in Rules /\ r = rules[g]
      BY <1>8, <2>0, <2>5 DEF Sent, Sending, UsesRules
    <3>2. CASE e.do = "add" /\ scenario.driver[s] = "named"
      <4>1. <<s, g>> \notin oldRules
        BY <1>8, <2>0, <3>2 DEF Sent
      <4>2. ToDo({"update", "del", "bind"}, s, g) =>
              ToDo({"update", "del", "bind"}, s, g)' /\ ToDo(Sends, s, g)'
        <5>1. ToDo({"update", "del", "bind"}, s, g) =>
                ToDo({"update", "del", "bind"}, s, g)'
          BY <1>5, <3>2
        <5>2. QED  BY <5>1 DEF ToDo, Sends
      <4>3. acl \in {NoRules, r} => acl2 = r
        BY <2>0, <2>1, <3>1, <3>2 DEF NamedDoes
      <4>4. QED
        BY <1>2, <3>1, <3>2, <4>1, <4>2, <4>3 DEF Addable, Filed, Current
    <3>3. CASE e.do # "add" /\ scenario.driver[s] = "named"
      <4>1. acl2 = r
        BY <2>0, <2>1, <2>5, <3>1, <3>3 DEF NamedDoes, UsesRules
      <4>2. QED
        BY <3>1, <3>3, <4>1 DEF Addable, Filed, Current
    <3>4. CASE scenario.driver[s] = "table"
      <4>1. acl2 \in {NoRules, r} /\ file2 = r
        BY <2>0, <2>1, <2>5, <3>1, <3>4 DEF TableDoes, UsesRules
      <4>2. QED
        BY <3>1, <3>4, <4>1 DEF Addable, Filed, Current
    <3>5. QED  BY <1>1, <3>2, <3>3, <3>4
  <2>6. QED
    BY <1>3, <2>3, <2>4, <2>5 DEF Edits, UsesRules
<1>9. QED  BY <1>6, <1>7, <1>8

\* The members after a complete edit.
LEMMA DoneFiltered ==
  ASSUME SGInv, NEW w \in Workers, NEW call, Goes(w, call),
         NEW e \in Steps, NEW r \in Rules \cup {NoRules},
           NEW R \in SUBSET Ports,
         Sending(w, e, r, R), Sent(w, e, r, R),
         UNCHANGED <<scenario, rules, member, bound>>,
         NEW p \in Ports
  PROVE  Filtered(p)'
<1>1. TypeOK /\ SwitchOf[p] \in Switches /\ e.group \in Groups
        /\ e.switch \in Switches
      /\ scenario.driver[e.switch] \in {"named", "table"}
  BY KnownIs, PortsAssumption DEF SGInv, Steps
<1>2. SUFFICES ASSUME member[p] # NoGroup
               PROVE  Filtered(p)'
  BY DEF Filtered
<1>3. PICK g \in Groups : g = member[p]
  BY <1>1, <1>2, GroupType
<1>4. PICK s \in Switches : s = SwitchOf[p]
  BY <1>1
<1>5. \/ p \in device[s].applied[g] \/ <<s, g>> \in oldPorts
           \/ ToDo({"bind"}, s, g)
  BY <1>2, <1>3, <1>4 DEF SGInv, Filtered, ToDo
<1>6. SUFFICES \/ p \in device'[s].applied[g] \/ <<s, g>> \in oldPorts'
               \/ ToDo({"bind"}, s, g)'
  BY <1>3, <1>4 DEF Filtered, ToDo
<1>7. e = Head(Todo(w)) /\ e.do \in Edits
  BY DEF Sending
<1>8. ~(e.do = "bind" /\ e.switch = s /\ e.group = g) =>
         (ToDo({"bind"}, s, g) => ToDo({"bind"}, s, g)')
  BY <1>1, <1>7, ToDoGoes
<1>9. rules[g] # Gone
  BY <1>1, <1>2, <1>3, GroupType DEF SGInv, Alive
<1>10. CASE s # e.switch
  BY <1>5, <1>8, <1>10 DEF Sent
<1>11. CASE s = e.switch /\ e.do \notin PortEdits
  <2>1. e.do = "del" => g # e.group
    BY <1>9 DEF Sending
  <2>2. device'[s].applied[g] = device[s].applied[g]
    BY <1>11, <2>1 DEF Sent, Touches
  <2>3. oldPorts' = oldPorts
    BY <1>11 DEF Sent
  <2>4. QED  BY <1>5, <1>8, <1>11, <2>2, <2>3 DEF PortEdits
<1>12. CASE s = e.switch /\ g # e.group /\ e.do \in PortEdits
  <2>1. p \in device[s].applied[g] => p \in device'[s].applied[g] \/ p \in R
    BY <1>12 DEF Sent, Touches
  <2>2. CASE <<"ports", e.group>> \in worker[w].missed
    <3>1. p \in R => <<s, g>> \in oldPorts'
      BY <1>3, <1>12, <2>2 DEF Sent
    <3>2. <<s, g>> \in oldPorts => <<s, g>> \in oldPorts'
      BY <1>12 DEF Sent
    <3>3. QED  BY <1>5, <1>8, <1>12, <2>1, <3>1, <3>2
  <2>3. CASE <<"ports", e.group>> \notin worker[w].missed
    <3>1. R = MembersAt(e.group, e.switch)
      BY <1>12, <2>3 DEF Sending
    <3>2. p \notin R
      BY <1>3, <1>12, <3>1 DEF MembersAt
    <3>3. <<s, g>> \in oldPorts => <<s, g>> \in oldPorts'
      BY <1>12 DEF Sent
    <3>4. QED  BY <1>5, <1>8, <1>12, <2>1, <3>2, <3>3
  <2>4. QED  BY <2>2, <2>3
<1>13. CASE s = e.switch /\ g = e.group /\ e.do \in PortEdits
  <2>1. CASE <<"ports", e.group>> \in worker[w].missed
    BY <1>13, <2>1 DEF Sent
  <2>2. CASE <<"ports", e.group>> \notin worker[w].missed
    <3>1. R = MembersAt(e.group, e.switch)
      BY <1>13, <2>2 DEF Sending
    <3>2. p \in R
      BY <1>3, <1>4, <1>13, <3>1 DEF MembersAt
    <3>3. e.do = "bind" => r \in Rules
      BY DEF Sending, UsesRules
    <3>4. p \in device'[s].applied[g]
      <4>1. CASE scenario.driver[s] = "named"
        BY <1>13, <3>2, <3>3, <4>1 DEF Sent, NamedDoes, PortEdits
      <4>2. CASE scenario.driver[s] = "table"
        BY <1>13, <3>2, <3>3, <4>2 DEF Sent, TableDoes, PortEdits
      <4>3. QED  BY <1>1, <1>13, <4>1, <4>2
    <3>5. QED  BY <3>4
  <2>3. QED  BY <2>1, <2>2
<1>14. QED  BY <1>10, <1>11, <1>12, <1>13

\* Those who are not members after a complete edit.
LEMMA DoneKept ==
  ASSUME SGInv, NEW w \in Workers, NEW call, Goes(w, call),
         NEW e \in Steps, NEW r \in Rules \cup {NoRules},
           NEW R \in SUBSET Ports,
         Sending(w, e, r, R), Sent(w, e, r, R),
         UNCHANGED <<scenario, rules, member, bound>>,
         NEW p \in Ports, NEW g \in Groups
  PROVE  Kept(p, g)'
<1>1. TypeOK /\ SwitchOf[p] \in Switches /\ e.group \in Groups
        /\ e.switch \in Switches
      /\ scenario.driver[e.switch] \in {"named", "table"}
  BY KnownIs, PortsAssumption DEF SGInv, Steps
<1>2. PICK s \in Switches : s = SwitchOf[p]
  BY <1>1
<1>3. p \in device[s].applied[g] =>
        member[p] = g \/ <<p, g>> \in left \/ Leaving(p, g)
  BY <1>2 DEF SGInv, Kept
<1>4. SUFFICES ASSUME p \in device'[s].applied[g], member[p] # g
               PROVE  <<p, g>> \in left' \/ Leaving(p, g)'
  BY <1>2 DEF Kept
<1>5. e = Head(Todo(w)) /\ e.do \in Edits
  BY DEF Sending
<1>6. ~(e.do = "unbind" /\ e.port = p /\ e.group = g) =>
         (Leaving(p, g) => Leaving(p, g)')
  BY <1>1, <1>5, LeavingGoes
<1>7. e.do \in PortEdits => e.switch = SwitchOf[e.port]
  BY DEF Sending
<1>8. e.do \in PortEdits /\ <<"ports", e.group>> \notin worker[w].missed =>
        /\ p \notin R \/ (s = e.switch /\ g # e.group)
        /\ \A o \in R : SwitchOf[o] = e.switch
  <2>1. ASSUME e.do \in PortEdits, <<"ports", e.group>> \notin worker[w].missed
        PROVE  R = MembersAt(e.group, e.switch)
    BY <2>1 DEF Sending
  <2>2. QED  BY <1>2, <1>4, <2>1 DEF MembersAt
<1>9. /\ e.do \notin PortEdits => left' = left
      /\ e.do \in PortEdits /\ <<"ports", e.group>> \in worker[w].missed =>
           left' = left \cup (R \X {e.group})
      /\ e.do \in PortEdits /\ <<"ports", e.group>> \notin worker[w].missed =>
           /\ scenario.driver[e.switch] = "table" =>
                left'
                  = left \ ({o \in Ports :
                    SwitchOf[o] = e.switch} \X {e.group})
           /\ scenario.driver[e.switch] = "named" =>
                left' = left \ (IF e.do = "unbind" THEN {<<e.port, e.group>>}
                                ELSE R \X (Groups \ {e.group}))
  BY DEF Sent, LeftBy, Sending
<1>10. CASE s # e.switch
  <2>1. device'[s] = device[s]
    BY <1>10 DEF Sent
  <2>2. <<p, g>> \in left => <<p, g>> \in left'
    BY <1>1, <1>2, <1>7, <1>8, <1>9, <1>10
  <2>3. QED
    BY <1>2, <1>3, <1>4, <1>6, <1>7, <1>10, <2>1, <2>2 DEF PortEdits
<1>11. CASE s = e.switch /\ e.do \notin PortEdits
  <2>1. device'[s].applied[g] \subseteq device[s].applied[g]
    <3>1. CASE e.do = "del" /\ g = e.group
      <4>1. CASE scenario.driver[s] = "named"
        BY <1>11, <3>1, <4>1 DEF Sent, NamedDoes
      <4>2. CASE scenario.driver[s] = "table"
        BY <1>11, <3>1, <4>2 DEF Sent, TableDoes
      <4>3. QED  BY <1>1, <1>11, <4>1, <4>2
    <3>2. CASE ~(e.do = "del" /\ g = e.group)
      BY <1>11, <3>2 DEF Sent, Touches
    <3>3. QED  BY <3>1, <3>2
  <2>2. QED
    BY <1>3, <1>4, <1>6, <1>9, <1>11, <2>1 DEF PortEdits
<1>12. CASE s = e.switch /\ g # e.group /\ e.do \in PortEdits
  <2>1. device'[s].applied[g] \subseteq device[s].applied[g]
    BY <1>12 DEF Sent, Touches
  <2>2. <<p, g>> \in left \/ Leaving(p, g)'
    BY <1>3, <1>4, <1>6, <1>12, <2>1
  <2>3. <<p, g>> \in left => <<p, g>> \in left'
    <3>1. CASE e.do = "bind" /\ scenario.driver[s] = "named"
      <4>1. p \notin R
        <5>1. r \in Rules
          BY <3>1 DEF Sending, UsesRules
        <5>2. NamedDoes(e, r, R, device[s], device'[s])
          BY <1>12, <3>1 DEF Sent
        <5>3. device'[s].applied[g] = device[s].applied[g] \ R
          BY <1>12, <3>1, <5>1, <5>2 DEF NamedDoes
        <5>4. QED  BY <1>4, <5>3
      <4>2. QED  BY <1>9, <1>12, <3>1, <4>1
    <3>2. CASE ~(e.do = "bind" /\ scenario.driver[s] = "named")
      BY <1>1, <1>9, <1>12, <3>2 DEF PortEdits
    <3>3. QED  BY <3>1, <3>2
  <2>4. QED  BY <2>2, <2>3
<1>13. CASE s = e.switch /\ g = e.group /\ e.do \in PortEdits
  <2>1. p \in R
          \/ (p \in device[s].applied[g] /\ ~(e.do = "unbind" /\ e.port = p)
                    /\ scenario.driver[s] = "named")
    <3>1. e.do = "bind" => r \in Rules
      BY DEF Sending, UsesRules
    <3>2. CASE scenario.driver[s] = "named"
      BY <1>4, <1>13, <3>1, <3>2 DEF Sent, NamedDoes, PortEdits
    <3>3. CASE scenario.driver[s] = "table"
      BY <1>4, <1>13, <3>1, <3>3 DEF Sent, TableDoes, PortEdits
    <3>4. QED  BY <1>1, <1>13, <3>2, <3>3
  <2>2. CASE <<"ports", e.group>> \in worker[w].missed
    BY <1>3, <1>4, <1>6, <1>9, <1>13, <2>1, <2>2
  <2>3. CASE <<"ports", e.group>> \notin worker[w].missed
    <3>1. p \notin R
      BY <1>8, <1>13, <2>3
    <3>2. <<p, g>> \in left => <<p, g>> \in left'
      BY <1>9, <1>13, <2>1, <2>3, <3>1 DEF PortEdits
    <3>3. QED  BY <1>3, <1>4, <1>6, <1>13, <2>1, <3>1, <3>2
  <2>4. QED  BY <2>2, <2>3
<1>14. QED  BY <1>10, <1>11, <1>12, <1>13

-----------------------------------------------------------------------------
(* Edits done and edits failed.                                            *)

\* What an edit that fails may disturb includes its own switch and group.
LEMMA DisturbsType ==
  ASSUME TypeOK, NEW w \in Workers, NEW e \in Steps
  PROVE  Disturbs(w, e) \subseteq Switches \X Groups
           /\ <<e.switch, e.group>> \in Disturbs(w, e)
         /\ <<e.switch, e.group>> \in Switches \X Groups
BY DEF Disturbs, Steps

\* A complete edit keeps the invariant.
LEMMA EditDoneKeeps ==
  ASSUME SGInv, NEW w \in Workers, EditDone(w)
  PROVE  SGInv'
<1>1. TypeOK /\ Callback(w)
  BY DEF SGInv
<1>2. PICK e \in Steps, r \in Rules \cup {NoRules}, R \in SUBSET Ports :
        Sending(w, e, r, R)
  BY SendingIs DEF EditDone
<1>3. Sent(w, e, r, R) /\ device' \in [Switches -> Devices]
  BY <1>2, EditDoneIs
<1>4. /\ Todo(w) # << >> /\ e = Head(Todo(w)) /\ e.do \in Edits
      /\ R = worker[w].ports[e.group]
  BY <1>2 DEF Sending
<1>5. PICK call \in Callbacks : call = worker[w]
  BY <1>1, WorkerType
<1>6. Continues(w, call) /\ UNCHANGED <<scenario, rules, member, bound>>
  BY <1>5 DEF EditDone
<1>7. Goes(w, call) /\ worker' \in [Workers -> Callbacks]
  BY <1>1, <1>4, <1>5, <1>6, ContinuesIs DEF Todo
<1>8. Callback(w)'
  BY <1>1, <1>4, <1>5, <1>6, <1>7, CallbackGoes DEF Edits
<1>9. ASSUME NEW v \in Workers PROVE Callback(v)'
  <2>1. CASE v = w
    BY <1>8, <2>1
  <2>2. CASE v # w
    BY <2>2, <1>6, <1>7, OthersGo DEF Goes, SGInv
  <2>3. QED  BY <2>1, <2>2
<1>10. TypeOK'
  <2>1. oldRules' \subseteq Switches \X Groups
          /\ oldPorts' \subseteq Switches \X Groups
    <3>1. e = Head(worker[w].todo)
      BY <1>4 DEF Todo
    <3>2. oldRules \subseteq Switches \X Groups
            /\ oldPorts \subseteq Switches \X Groups
      BY <1>1 DEF TypeOK
    <3>3. oldRules' \subseteq oldRules \cup {<<e.switch, e.group>>}
      BY <3>1 DEF EditDone, With
    <3>4. oldPorts' \subseteq oldPorts \cup Disturbs(w, e)
      BY <3>1 DEF EditDone
    <3>5. QED  BY <1>1, <3>2, <3>3, <3>4, DisturbsType
  <2>2. left' \subseteq left \cup (R \X {e.group})
    BY <1>3, <1>4 DEF Sent, LeftBy
  <2>3. left' \subseteq Ports \X Groups
    BY <1>1, <2>2 DEF TypeOK, Steps
  <2>4. QED
    BY <1>1, <1>3, <1>6, <1>7, <2>1, <2>3 DEF TypeOK, Callbacks, Devices
<1>11. Alive' /\ Known' = Known
  BY <1>6 DEF SGInv, Alive, Known
<1>12. ASSUME NEW s \in Known', NEW g \in Groups
       PROVE  Addable(s, g)' /\ Filed(s, g)' /\ Current(s, g)'
  BY <1>2, <1>3, <1>6, <1>7, <1>11, <1>12, DoneCurrent
<1>13. ASSUME NEW p \in Ports PROVE Filtered(p)'
  BY <1>2, <1>3, <1>6, <1>7, DoneFiltered
<1>14. ASSUME NEW p \in Ports, NEW g \in Groups PROVE Kept(p, g)'
  BY <1>2, <1>3, <1>6, <1>7, DoneKept
<1>15. QED
  BY <1>9, <1>10, <1>11, <1>12, <1>13, <1>14 DEF SGInv

\* Whom a callback that gives up may leave behind on the way out of a group.
MayStay(w, e) == ({e.port} \cup worker[w].ports[e.group]) \X {e.group}

\* A callback that gives up leaves its steps undone, and the ghosts remember
\* each of them.
LEMMA RaisesIs ==
  ASSUME TypeOK, NEW w \in Workers, Raises(w)
  PROVE  /\ Todo(w)' = << >> /\ worker' \in [Workers -> Callbacks]
         /\ \A v \in Workers \ {w} : worker'[v] = worker[v]
         /\ oldRules \subseteq oldRules' /\ oldPorts \subseteq oldPorts'
         /\ left \subseteq left'
         /\ \A i \in DOMAIN Todo(w) :
              LET e == Todo(w)[i]
              IN  /\ <<e.switch, e.group>> \in oldRules'
                  /\ Disturbs(w, e) \subseteq oldPorts'
                  /\ MayStay(w, e) \subseteq left'
         /\ oldRules' \cup oldPorts' \subseteq Switches \X Groups
         /\ left' \subseteq Ports \X Groups
         /\ UNCHANGED <<scenario, rules, member, bound>>
<1> DEFINE q == worker[w].todo
           at == {<<e.switch, e.group>> : e \in ToSet(q)}
           old == UNION {Disturbs(w, e) : e \in ToSet(q)}
           out == UNION {MayStay(w, e) : e \in ToSet(q)}
<1>1. worker \in [Workers -> Callbacks] /\ Idle \in Callbacks
        /\ Idle.todo = << >>
  BY WorkerType DEF Idle
<1>2. /\ worker' = [worker EXCEPT ![w] = Idle]
      /\ oldRules' = oldRules \cup at /\ oldPorts' = oldPorts \cup old
      /\ left' = left \cup out
      /\ UNCHANGED <<scenario, rules, member, bound>>
  BY DEF Raises, MayStay
<1>3. worker' \in [Workers -> Callbacks] /\ worker'[w] = Idle
      /\ \A v \in Workers \ {w} : worker'[v] = worker[v]
  BY <1>1, <1>2
<1>4. ToSet(q) = {q[i] : i \in DOMAIN q} /\ ToSet(q) \subseteq Steps
  BY TodoType DEF ToSet, Todo
<1>5. at \subseteq Switches \X Groups /\ old \subseteq Switches \X Groups
  BY <1>4, DisturbsType
<1>6. out \subseteq Ports \X Groups
  <2>1. \A e \in Steps : e.port \in Ports /\ e.group \in Groups
    BY DEF Steps
  <2>2. \A g \in Groups : worker[w].ports[g] \subseteq Ports
    BY <1>1 DEF Callbacks
  <2>3. QED  BY <1>4, <2>1, <2>2 DEF MayStay
<1>7. ASSUME NEW i \in DOMAIN q
      PROVE  /\ <<q[i].switch, q[i].group>> \in at
             /\ Disturbs(w, q[i]) \subseteq old
             /\ MayStay(w, q[i]) \subseteq out
  <2>1. q[i] \in ToSet(q)
    BY <1>4
  <2>2. QED  BY <2>1
<1> HIDE DEF q, at, old, out
<1>8. Todo(w) = q /\ Todo(w)' = << >>
  BY <1>1, <1>3 DEF Todo, q
<1>9. oldRules' \cup oldPorts' \subseteq Switches \X Groups
        /\ left' \subseteq Ports \X Groups
  BY <1>2, <1>5, <1>6 DEF TypeOK
<1>10. \A i \in DOMAIN q :
         /\ <<q[i].switch, q[i].group>> \in oldRules'
         /\ Disturbs(w, q[i]) \subseteq oldPorts'
         /\ MayStay(w, q[i]) \subseteq left'
  BY <1>2, <1>7
<1>11. QED  BY <1>2, <1>3, <1>8, <1>9, <1>10

\* A callback that gives up keeps the invariant, whatever part of its edit
\* was sent.
LEMMA RaisesKeeps ==
  ASSUME SGInv, NEW w \in Workers, Raises(w), NEW e \in Steps,
           NEW R \in SUBSET Ports,
         Todo(w) # << >>, e = Head(Todo(w)), R = worker[w].ports[e.group],
         device' \in [Switches -> Devices],
         \A s \in Switches \ {e.switch} : device'[s] = device[s],
         Touches(e, R, device[e.switch], device'[e.switch])
  PROVE  SGInv'
<1>1. TypeOK
  BY DEF SGInv
<1>2. /\ Todo(w)' = << >> /\ worker' \in [Workers -> Callbacks]
      /\ \A v \in Workers \ {w} : worker'[v] = worker[v]
      /\ oldRules \subseteq oldRules' /\ oldPorts \subseteq oldPorts'
      /\ left \subseteq left'
      /\ \A i \in DOMAIN Todo(w) :
            /\ <<Todo(w)[i].switch, Todo(w)[i].group>> \in oldRules'
            /\ Disturbs(w, Todo(w)[i]) \subseteq oldPorts'
            /\ MayStay(w, Todo(w)[i]) \subseteq left'
      /\ oldRules' \cup oldPorts' \subseteq Switches \X Groups
      /\ left' \subseteq Ports \X Groups
      /\ UNCHANGED <<scenario, rules, member, bound>>
  BY <1>1, RaisesIs
<1>3. /\ e.group \in Groups /\ e.switch \in Switches
      /\ \A i \in DOMAIN Todo(w) : Todo(w)[i] \in Steps
      /\ 1 \in DOMAIN Todo(w) /\ e = Todo(w)[1]
  BY <1>1, TodoType DEF Steps
<1>4. /\ <<e.switch, e.group>> \in oldRules'
           /\ Disturbs(w, e) \subseteq oldPorts'
      /\ ({e.port} \cup R) \X {e.group} \subseteq left'
      /\ <<e.switch, e.group>> \in oldPorts'
      /\ \A p \in R : member[p] \in Groups
           => <<e.switch, member[p]>> \in oldPorts'
  <2>1. /\ <<e.switch, e.group>> \in oldRules'
             /\ Disturbs(w, e) \subseteq oldPorts'
        /\ ({e.port} \cup R) \X {e.group} \subseteq left'
    BY <1>2, <1>3 DEF MayStay
  <2>2. /\ <<e.switch, e.group>> \in Disturbs(w, e)
        /\ \A p \in R : member[p] \in Groups
             => <<e.switch, member[p]>> \in Disturbs(w, e)
    BY DEF Disturbs
  <2>3. QED  BY <2>1, <2>2
<1>5. ASSUME NEW dos, NEW s, NEW g, ToDo(dos, s, g), ~ToDo(dos, s, g)'
      PROVE  <<s, g>> \in oldRules' /\ <<s, g>> \in oldPorts'
  <2>1. PICK v \in Workers : \E i \in DOMAIN Todo(v) :
          Todo(v)[i].do \in dos /\ Todo(v)[i].switch = s
            /\ Todo(v)[i].group = g
    BY <1>5 DEF ToDo, Todo
  <2>2. v = w
    <3>1. v # w => Todo(v)' = Todo(v)
      BY <1>2 DEF Todo
    <3>2. QED  BY <1>5, <2>1, <3>1 DEF ToDo, Todo
  <2>3. PICK i \in DOMAIN Todo(w) :
          Todo(w)[i].switch = s /\ Todo(w)[i].group = g
    BY <2>1, <2>2
  <2>4. <<s, g>> \in oldRules' /\ <<s, g>> \in Disturbs(w, Todo(w)[i])
    BY <1>1, <1>2, <1>3, <2>3, DisturbsType
  <2>5. QED  BY <1>2, <2>4
<1>6. ASSUME NEW p, NEW g, Leaving(p, g), ~Leaving(p, g)'
      PROVE  <<p, g>> \in left'
  <2>1. PICK v \in Workers : \E i \in DOMAIN Todo(v) :
          Todo(v)[i].do = "unbind" /\ Todo(v)[i].port = p
            /\ Todo(v)[i].group = g
    BY <1>6 DEF Leaving
  <2>2. v = w
    <3>1. v # w => Todo(v)' = Todo(v)
      BY <1>2 DEF Todo
    <3>2. QED  BY <1>6, <2>1, <3>1 DEF Leaving
  <2>3. PICK i \in DOMAIN Todo(w) : Todo(w)[i].port = p /\ Todo(w)[i].group = g
    BY <2>1, <2>2
  <2>4. MayStay(w, Todo(w)[i]) \subseteq left'
    BY <1>2
  <2>5. QED  BY <2>3, <2>4 DEF MayStay
<1>7. TypeOK'
  BY <1>1, <1>2 DEF TypeOK, Callbacks, Devices
<1>8. Alive' /\ Known' = Known
  BY <1>2 DEF SGInv, Alive, Known
<1>9. ASSUME NEW v \in Workers PROVE Callback(v)'
  <2>1. CASE v = w
    BY <1>2, <2>1 DEF Callback, Shaped, FreshRules, FreshPorts
  <2>2. CASE v # w
    BY <2>2, <1>2, OthersGo DEF SGInv
  <2>3. QED  BY <2>1, <2>2
<1>10. ASSUME NEW s \in Known', NEW g \in Groups
       PROVE  Addable(s, g)' /\ Filed(s, g)' /\ Current(s, g)'
  <2>1. Addable(s, g) /\ Filed(s, g) /\ Current(s, g) /\ s \in Switches
    BY <1>1, <1>8, <1>10, KnownIs DEF SGInv
  <2>2. CASE <<s, g>> \in oldRules'
    BY <2>2 DEF Addable, Filed, Current
  <2>3. CASE <<s, g>> \notin oldRules'
    <3>1. \A dos : ToDo(dos, s, g) => ToDo(dos, s, g)'
      BY <1>5, <2>3
    <3>2. device'[s].acl[g] = device[s].acl[g]
            /\ device'[s].file[g] = device[s].file[g]
      BY <1>4, <2>1, <2>3 DEF Touches
    <3>3. MembersAt(g, s)' = MembersAt(g, s)
      BY <1>2 DEF MembersAt
    <3>4. QED
      BY <1>2, <2>1, <2>3, <3>1, <3>2, <3>3 DEF Addable, Filed, Current
  <2>4. QED  BY <2>2, <2>3
<1>11. ASSUME NEW p \in Ports PROVE Filtered(p)'
  <2>1. SUFFICES ASSUME member[p] # NoGroup PROVE Filtered(p)'
    BY <1>2 DEF Filtered
  <2>2. PICK g \in Groups : g = member[p]
    BY <1>1, <2>1, GroupType
  <2>3. PICK s \in Switches : s = SwitchOf[p]
    BY PortsAssumption
  <2>4. \/ p \in device[s].applied[g] \/ <<s, g>> \in oldPorts
             \/ ToDo({"bind"}, s, g)
    BY <2>1, <2>2, <2>3 DEF SGInv, Filtered, ToDo
  <2>5. SUFFICES ASSUME <<s, g>> \notin oldPorts'
                 PROVE  p \in device'[s].applied[g] \/ ToDo({"bind"}, s, g)'
    BY <1>2, <2>2, <2>3 DEF Filtered, ToDo
  <2>6. ToDo({"bind"}, s, g) => ToDo({"bind"}, s, g)'
    BY <1>5, <2>5
  <2>7. p \in device[s].applied[g] => p \in device'[s].applied[g]
    <3>1. CASE s # e.switch
      BY <3>1
    <3>2. CASE s = e.switch
      BY <1>4, <2>2, <2>5, <3>2 DEF Touches
    <3>3. QED  BY <3>1, <3>2
  <2>8. QED  BY <1>2, <2>4, <2>5, <2>6, <2>7
<1>12. ASSUME NEW p \in Ports, NEW g \in Groups PROVE Kept(p, g)'
  <2>1. PICK s \in Switches : s = SwitchOf[p]
    BY PortsAssumption
  <2>2. SUFFICES ASSUME p \in device'[s].applied[g], <<p, g>> \notin left'
                 PROVE  member[p] = g \/ Leaving(p, g)'
    BY <1>2, <2>1 DEF Kept
  <2>3. p \in device[s].applied[g] => member[p] = g \/ Leaving(p, g)
    BY <1>2, <2>1, <2>2 DEF SGInv, Kept
  <2>4. p \in device[s].applied[g]
    <3>1. CASE s # e.switch
      BY <2>2, <3>1
    <3>2. CASE s = e.switch
      BY <1>4, <2>2, <3>2 DEF Touches
    <3>3. QED  BY <3>1, <3>2
  <2>5. Leaving(p, g) => Leaving(p, g)'
    BY <1>6, <2>2
  <2>6. QED  BY <2>3, <2>4, <2>5
<1>13. QED
  BY <1>7, <1>8, <1>9, <1>10, <1>11, <1>12 DEF SGInv

\* An edit fails after some of its lines.
LEMMA EditFailsKeeps ==
  ASSUME SGInv, NEW w \in Workers, EditFails(w)
  PROVE  SGInv'
<1>1. TypeOK
  BY DEF SGInv
<1>2. PICK e \in Steps, r \in Rules \cup {NoRules}, R \in SUBSET Ports :
        Sending(w, e, r, R)
  BY SendingIs DEF EditFails
<1>3. /\ Todo(w) # << >> /\ e = Head(Todo(w)) /\ e.do \in Edits
      /\ R = worker[w].ports[e.group] /\ r = worker[w].rules
      /\ e = Head(worker[w].todo)
  BY <1>2 DEF Sending, Todo
<1> DEFINE A == Allowed(e, r, R)
           commands == Commands(w, e)
<1>4. commands \in Seq(A)
  BY <1>1, <1>3, CommandsAre
<1>5. PICK n \in 0 .. Len(commands) :
        device' = [device EXCEPT ![e.switch] =
                     After(device[e.switch], SubSeq(commands, 1, n))]
  BY <1>3 DEF EditFails
<1> HIDE DEF commands, A
<1>6. SubSeq(commands, 1, n) \in Seq(A)
  BY <1>4, <1>5
<1>7. device \in [Switches -> Devices] /\ e.switch \in Switches
  BY <1>1 DEF TypeOK, Devices, Steps
<1> DEFINE q == SubSeq(commands, 1, n)
           d2 == After(device[e.switch], q)
<1> HIDE DEF q
<1>8. q \in Seq(Allowed(e, r, R)) /\ device[e.switch] \in Devices
  BY <1>6, <1>7 DEF A, q
<1>9. d2 \in Devices /\ Touches(e, R, device[e.switch], d2)
  BY <1>8, AfterPart
<1>10. device' = [device EXCEPT ![e.switch] = d2]
  BY <1>5 DEF q
<1> HIDE DEF d2
<1>11. /\ device' \in [Switches -> Devices] /\ device'[e.switch] = d2
       /\ \A s \in Switches \ {e.switch} : device'[s] = device[s]
  BY <1>7, <1>9, <1>10
<1>12. Raises(w)
  BY DEF EditFails
<1>13. QED
  BY <1>3, <1>9, <1>11, <1>12, RaisesKeeps

\* A callback finds no rules, because the group is gone.
LEMMA GroupIsGoneKeeps ==
  ASSUME SGInv, NEW w \in Workers, GroupIsGone(w)
  PROVE  SGInv'
<1>1. TypeOK
  BY DEF SGInv
<1>2. /\ Todo(w) # << >> /\ Head(Todo(w)).do = "readRules"
      /\ worker[w] \in Callbacks /\ Head(Todo(w)) \in Steps
  BY <1>1, TodoType DEF GroupIsGone, At, Todo
<1>3. PICK e \in Steps : e = Head(Todo(w))
  BY <1>2
<1>4. PICK R \in SUBSET Ports : R = worker[w].ports[e.group]
  BY <1>2 DEF Callbacks, Steps
<1>5. device' = device /\ Raises(w) /\ device \in [Switches -> Devices]
  BY <1>1 DEF GroupIsGone, TypeOK, Devices
<1>6. Touches(e, R, device[e.switch], device'[e.switch])
  BY <1>5 DEF Touches
<1>7. QED
  BY <1>2, <1>3, <1>4, <1>5, <1>6, RaisesKeeps

-----------------------------------------------------------------------------
(* Theorems.                                                               *)

\* The invariant holds in the beginning.
LEMMA SGInvInit == Init => SGInv
<1> SUFFICES ASSUME Init PROVE SGInv
  OBVIOUS
<1>1. /\ \A w \in Workers : worker[w] = Idle /\ Todo(w) = << >>
      /\ \A s \in Switches, g \in Groups :
           /\ device[s].acl[g] = NoRules /\ device[s].file[g] = NoRules
           /\ device[s].applied[g] = {}
      /\ \A g \in Groups : rules[g] = NoRules
      /\ \A p \in Ports : member[p] = NoGroup
  BY DEF Init, Idle, Todo
<1>2. TypeOK
  BY DEF Init, TypeOK, Idle, Absent
<1>3. Alive /\ \A w \in Workers : Callback(w)
  BY <1>1 DEF Alive, Callback, Shaped, FreshRules, FreshPorts
<1>4. \A s \in Known, g \in Groups :
        Addable(s, g) /\ Filed(s, g) /\ Current(s, g)
  BY <1>1, <1>2, KnownIs DEF Addable, Filed, Current
<1>5. \A p \in Ports, g \in Groups : Filtered(p) /\ Kept(p, g)
  BY <1>1, PortsAssumption DEF Filtered, Kept
<1>6. \A p \in Ports : Filtered(p)
  BY <1>1 DEF Filtered
<1>7. QED
  BY <1>2, <1>3, <1>4, <1>5, <1>6 DEF SGInv

\* Every step keeps it.
LEMMA SGInvNext == SGInv /\ [Next]_vars => SGInv'
<1> SUFFICES ASSUME SGInv, [Next]_vars PROVE SGInv'
  OBVIOUS
<1>1. ASSUME NEW w \in Workers, NEW g \in Groups,
             CreateGroup(w, g) \/ ChangeRules(w, g) \/ DeleteGroup(w, g)
      PROVE  SGInv'
  BY <1>1, CreateKeeps, ChangeKeeps, DeleteKeeps
<1>2. ASSUME NEW w \in Workers, NEW p \in Ports,
             \/ \E g \in Groups \cup {NoGroup} :
                  BindPort(w, p, g) \/ ChangeGroup(w, p, g)
             \/ DeletePort(w, p)
      PROVE  SGInv'
  BY <1>2, PortsKeep
<1>3. ASSUME NEW w \in Workers,
             \/ ReadRules(w) \/ ReadPorts(w)
             \/ EditDone(w) \/ EditFails(w) \/ GroupIsGone(w)
      PROVE  SGInv'
  BY <1>3, ReadRulesKeeps, ReadPortsKeeps, EditDoneKeeps, EditFailsKeeps,
     GroupIsGoneKeeps
<1>4. ASSUME NEW p \in Ports, UnbindPort(p) PROVE SGInv'
  BY <1>4, UnbindKeeps
<1>5. ASSUME UNCHANGED vars PROVE SGInv'
  <2> USE <1>5 DEF vars, ghosts
  <2>1. TypeOK' /\ Alive' /\ Known' = Known
    BY DEF SGInv, TypeOK, Alive, Known
  <2>2. \A w \in Workers : Callback(w)'
    BY OthersGo DEF SGInv
  <2>3. /\ \A dos, s, g : ToDo(dos, s, g)' = ToDo(dos, s, g)
        /\ \A p, g : Leaving(p, g)' = Leaving(p, g)
        /\ \A g, s : MembersAt(g, s)' = MembersAt(g, s)
    BY DEF ToDo, Leaving, MembersAt, Todo
  <2>4. ASSUME NEW s \in Known', NEW g \in Groups
        PROVE  Addable(s, g)' /\ Filed(s, g)' /\ Current(s, g)'
    BY <2>1, <2>3, <2>4 DEF SGInv, Addable, Filed, Current
  <2>5. ASSUME NEW p \in Ports PROVE Filtered(p)'
    BY DEF SGInv, Filtered, ToDo
  <2>6. ASSUME NEW p \in Ports, NEW g \in Groups PROVE Kept(p, g)'
    BY <2>3 DEF SGInv, Kept
  <2>7. QED  BY <2>1, <2>2, <2>4, <2>5, <2>6 DEF SGInv
<1>6. QED  BY <1>1, <1>2, <1>3, <1>4, <1>5 DEF Next

\* It always holds.
LEMMA SGInvariance == Spec => []SGInv
<1>1. QED  BY SGInvInit, SGInvNext, PTL DEF Spec

\* The ACLs of a group have the rules of the database on every switch where
\* no callback is still to send them, unless an edit failed or overlapped
\* another callback of the group (update_security_group_rules,
\* delete_security_group).
THEOREM RulesAreCurrent == Spec => []RulesCurrent
<1>1. SGInv => RulesCurrent
  BY DEF SGInv, RulesCurrent, Current, Known, Sends
<1>2. QED  BY <1>1, SGInvariance, PTL

\* A bound port with a security group is filtered by the ACL of its group,
\* unless a callback is still to apply it, an edit failed or it sent an old
\* list of ports (update_port_security_group, _all_security_group_ports).
THEOREM MembersAreFiltered == Spec => []MembersFiltered
<1>1. SGInv => MembersFiltered
  BY DEF SGInv, MembersFiltered, Filtered
<1>2. QED  BY <1>1, SGInvariance, PTL

\* No ACL filters a port that is not of its group, unless a callback is still
\* to take it out, an edit failed or none was told to
\* (update_port_security_group, remove_port_security_group).
THEOREM OnlyMembersAreFiltered == Spec => []OnlyMembersFiltered
<1>1. SGInv => OnlyMembersFiltered
  <2> SUFFICES ASSUME SGInv, NEW p \in Ports, NEW g \in Groups,
                      p \in device[SwitchOf[p]].applied[g], member[p] # g,
                      <<p, g>> \notin left
               PROVE  ToDo({"unbind"}, SwitchOf[p], g)
    BY DEF OnlyMembersFiltered
  <2>1. Leaving(p, g)
    BY DEF SGInv, Kept
  <2>2. PICK w \in Workers : \E i \in DOMAIN Todo(w) :
          Todo(w)[i].do = "unbind" /\ Todo(w)[i].port = p
            /\ Todo(w)[i].group = g
    BY <2>1 DEF Leaving
  <2>3. Shaped(w)
    BY DEF SGInv, Callback
  <2>4. QED  BY <2>2, <2>3 DEF Shaped, PortEdits, ToDo, Todo
<1>2. QED  BY <1>1, SGInvariance, PTL

=============================================================================
